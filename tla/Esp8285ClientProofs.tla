------------------------- MODULE Esp8285ClientProofs -------------------------
(***************************************************************************)
(* Proofs about the client, for every response, cut into frames and torn   *)
(* by losses in every way, and every size of its buffers: the bounds are   *)
(* invariant, and the linear buffer implements the bounded queue.          *)
(***************************************************************************)
EXTENDS Esp8285Client, SequenceTheorems, TLAPS

(* The inductive invariant: the types need the bounds (the countdown stays *)
(* a number of its width only while it is not zero), and the bounds the    *)
(* types.                                                                  *)
IInv == TypeOK /\ InBounds

IpdType  == [state : {"ScanForIpd", "ReadLength", "CopyPayload"}, matchPos : Nat,
             payloadLen : 0..(LenMod - 1), remaining : 0..(LenMod - 1)]
LineType == [text : Seq(Byte), overflowed : BOOLEAN, lastWasCR : BOOLEAN]
RxType   == [buf : Seq(Byte), head : Nat]
LinkType == [up : BOOLEAN, sent : 0..Len(Response), payload : Nat]
ModemType == [wants : Nat, held : Seq(Nat)]

(* The two halves of the invariant, by the variables they speak of. *)
ClientOK ==
  /\ ipd \in IpdType /\ line \in LineType /\ rx \in RxType /\ tx \in Seq(Nat)
  /\ connected \in BOOLEAN
  /\ ipd.matchPos < IPD_PREFIX_LEN
  /\ Len(line.text) < LineSize
  /\ rx.head <= Len(rx.buf) /\ Len(rx.buf) <= RxSize
  /\ Len(tx) <= TxSize
  /\ ipd.state = "CopyPayload" => ipd.remaining > 0

OthersOK ==
  /\ pc \in {"idle", "write", "read", "check"} /\ todo \in Seq(Nat) /\ taken \in Nat
  /\ uart \in Seq(Byte) /\ link \in LinkType /\ got \in Seq(Nat) /\ clean \in BOOLEAN
  /\ modem \in ModemType /\ prompted \in BOOLEAN

LEMMA Halves == IInv <=> ClientOK /\ OthersOK
BY DEF IInv, TypeOK, InBounds, ClientOK, OthersOK, IpdType, LineType, RxType, LinkType, ModemType

LEMMA HalvesPrimed == IInv' <=> ClientOK' /\ OthersOK'
BY DEF IInv, TypeOK, InBounds, ClientOK, OthersOK, IpdType, LineType, RxType, LinkType, ModemType

-----------------------------------------------------------------------------
(* Any piece of a sequence is a sequence. *)
LEMMA PieceTyped ==
  ASSUME NEW S, NEW s \in Seq(S), NEW m \in Nat \ {0}, NEW n \in 0..Len(s)
  PROVE  /\ SubSeq(s, m, n) \in Seq(S)
         /\ Len(SubSeq(s, m, n)) = IF m <= n THEN n - m + 1 ELSE 0
         /\ \A i \in 1..(n - m + 1) : SubSeq(s, m, n)[i] = s[m + i - 1]
<1>1. \A i \in m..n : s[i] \in S
  BY ElementOfSeq, LenProperties
<1> QED BY <1>1, SubSeqProperties, LenProperties

(* What rxCompact() keeps: the bytes between the head and the tail. *)
LEMMA UnreadTyped ==
  ASSUME rx \in RxType, rx.head <= Len(rx.buf)
  PROVE  /\ Unread \in Seq(Byte)
         /\ Len(Unread) = Len(rx.buf) - rx.head
         /\ \A i \in 1..Len(Unread) : Unread[i] = rx.buf[rx.head + i]
<1>1. rx.buf \in Seq(Byte) /\ rx.head \in Nat /\ Len(rx.buf) \in Nat
  BY LenProperties DEF RxType
<1> DEFINE u == SubSeq(rx.buf, rx.head + 1, Len(rx.buf))
<1>2. rx.head + 1 \in Nat \ {0} /\ Len(rx.buf) \in 0..Len(rx.buf)
  BY <1>1
<1>3. /\ u \in Seq(Byte)
      /\ Len(u) = IF rx.head + 1 <= Len(rx.buf) THEN Len(rx.buf) - (rx.head + 1) + 1 ELSE 0
      /\ \A i \in 1..(Len(rx.buf) - (rx.head + 1) + 1) : u[i] = rx.buf[(rx.head + 1) + i - 1]
  BY <1>1, <1>2, PieceTyped
<1>4. Len(u) = Len(rx.buf) - rx.head
  BY <1>1, <1>3
<1>5. \A i \in 1..Len(u) : u[i] = rx.buf[rx.head + i]
  BY <1>1, <1>3, <1>4
<1> QED BY <1>3, <1>4, <1>5 DEF Unread

(* The unread bytes of a buffer with nothing read are all of it. *)
LEMMA AllUnread ==
  ASSUME NEW s \in Seq(Byte)
  PROVE  SubSeq(s, 0 + 1, Len(s)) = s
<1>1. SubSeq(s, 1, Len(s)) = s
  BY SubSeqFull
<1> QED BY <1>1

(* What is unread in a buffer: Unread of rx, and of what rx becomes. *)
UnreadOf(r) == SubSeq(r.buf, r.head + 1, Len(r.buf))

LEMMA UnreadCompacted ==
  ASSUME rx \in RxType, rx.head <= Len(rx.buf)
  PROVE  /\ Compacted \in RxType
         /\ Compacted.head <= Len(Compacted.buf)
         /\ Len(Compacted.buf) <= Len(rx.buf)
         /\ UnreadOf(Compacted) = Unread
<1>1. Unread \in Seq(Byte) /\ Len(Unread) = Len(rx.buf) - rx.head
  BY UnreadTyped
<1>2. Compacted.buf = Unread /\ Compacted.head = 0
  BY DEF Compacted
<1>3. Len(rx.buf) \in Nat /\ rx.head \in Nat
  BY LenProperties DEF RxType
<1>4. UnreadOf(Compacted) = Unread
  BY <1>1, <1>2, AllUnread DEF UnreadOf
<1> QED BY <1>1, <1>2, <1>3, <1>4 DEF Compacted, RxType

(* The end of a longer sequence is the end of the sequence, longer. *)
LEMMA SuffixOfAppend ==
  ASSUME NEW S, NEW s \in Seq(S), NEW c \in S, NEW k \in 0..Len(s)
  PROVE  SubSeq(Append(s, c), k + 1, Len(Append(s, c))) = Append(SubSeq(s, k + 1, Len(s)), c)
<1> DEFINE t == Append(s, c)
           u == SubSeq(s, k + 1, Len(s))
<1>1. Len(s) \in Nat /\ k \in Nat /\ k <= Len(s)
  BY LenProperties
<1>2. t \in Seq(S) /\ Len(t) = Len(s) + 1 /\ t[Len(s) + 1] = c
  BY AppendProperties
<1>3. SubSeq(t, k + 1, Len(s)) = u
  <2>1. CASE k = Len(s)
    BY <1>1, <2>1, SubSeqEmpty
  <2>2. CASE k < Len(s)
    <3>1. k + 1 \in 1..Len(s) /\ Len(s) \in 1..Len(s) /\ <<c>> \in Seq(S)
      BY <1>1, <2>2
    <3>2. SubSeq(s \o <<c>>, k + 1, Len(s)) = u
      BY <3>1, SubSeqOfConcat1
    <3> QED BY <3>2, AppendIsConcat
  <2> QED BY <1>1, <2>1, <2>2
<1>4. SubSeq(t, k + 1, Len(t)) = SubSeq(t, k + 1, Len(s)) \o <<c>>
  <2>1. k + 1 \in 1..Len(t) /\ Len(s) + 1 \in (k + 1)..Len(t) /\ (Len(s) + 1) - 1 = Len(s)
    BY <1>1, <1>2
  <2> HIDE DEF t
  <2>2. SubSeq(t, k + 1, Len(s) + 1) = SubSeq(t, k + 1, (Len(s) + 1) - 1) \o <<t[Len(s) + 1]>>
    BY <1>2, <2>1, SubSeqRecursiveSecond
  <2> QED BY <1>2, <2>1, <2>2
<1>5. u \in Seq(S)
  <2>1. k + 1 \in Nat \ {0} /\ Len(s) \in 0..Len(s)
    BY <1>1
  <2> QED BY <2>1, PieceTyped
<1>6. Append(u, c) = u \o <<c>>
  <2> HIDE DEF u
  <2> QED BY <1>5, AppendIsConcat
<1> QED BY <1>3, <1>4, <1>6

(* One more byte in a buffer is one more unread byte. *)
LEMMA UnreadAppended ==
  ASSUME NEW r \in RxType, NEW c \in Byte, r.head <= Len(r.buf),
         NEW q, q = [r EXCEPT !.buf = Append(@, c)]
  PROVE  /\ q \in RxType
         /\ q.head <= Len(q.buf)
         /\ Len(q.buf) = Len(r.buf) + 1
         /\ UnreadOf(q) = Append(UnreadOf(r), c)
<1>1. r.buf \in Seq(Byte) /\ r.head \in 0..Len(r.buf) /\ Len(r.buf) \in Nat
  BY LenProperties DEF RxType
<1>2. Append(r.buf, c) \in Seq(Byte) /\ Len(Append(r.buf, c)) = Len(r.buf) + 1
  BY <1>1, AppendProperties
<1>3. q.buf = Append(r.buf, c) /\ q.head = r.head /\ q \in RxType
  BY <1>1, <1>2 DEF RxType
<1>4. UnreadOf(q) = Append(UnreadOf(r), c)
  BY <1>1, <1>3, SuffixOfAppend DEF UnreadOf
<1>5. q.head <= Len(q.buf) /\ Len(q.buf) = Len(r.buf) + 1
  <2>1. Len(q.buf) = Len(Append(r.buf, c))
    BY <1>3
  <2> QED BY <1>1, <1>2, <1>3, <2>1
<1> QED BY <1>3, <1>4, <1>5

(* The buffer drops a byte only when RX_BUF_SIZE bytes are unread: a full  *)
(* buffer is compacted first.                                              *)
LEMMA StoredIsPut ==
  ASSUME ClientOK, NEW c \in Byte
  PROVE  /\ Stored(c) \in RxType
         /\ Stored(c).head <= Len(Stored(c).buf)
         /\ Len(Stored(c).buf) <= RxSize
         /\ UnreadOf(Stored(c)) = IF Len(Unread) < RxSize THEN Append(Unread, c) ELSE Unread
<1> DEFINE Room == IF Len(rx.buf) >= RxSize THEN Compacted ELSE rx
<1>0. PICK room : room = Room
  OBVIOUS
<1>1. /\ rx \in RxType /\ rx.head <= Len(rx.buf) /\ Len(rx.buf) <= RxSize
      /\ RxSize \in Nat /\ Len(rx.buf) \in Nat /\ rx.head \in Nat
  BY SizeAssumption, LenProperties DEF ClientOK, RxType
<1>2. /\ Compacted \in RxType
      /\ Compacted.head <= Len(Compacted.buf)
      /\ Len(Compacted.buf) <= Len(rx.buf)
      /\ UnreadOf(Compacted) = Unread
      /\ Compacted.buf = Unread
  BY <1>1, UnreadCompacted DEF Compacted
<1>3. Len(Unread) = Len(rx.buf) - rx.head /\ Len(Unread) \in Nat
  BY <1>1, UnreadTyped
<1>4. /\ room \in RxType /\ room.head <= Len(room.buf) /\ Len(room.buf) <= RxSize
      /\ UnreadOf(room) = Unread
      /\ Len(room.buf) \in Nat
      /\ Len(room.buf) < RxSize <=> Len(Unread) < RxSize
  <2>1. CASE Len(rx.buf) >= RxSize
    <3>1. room = Compacted
      BY <1>0, <2>1
    <3> QED BY <1>1, <1>2, <1>3, <3>1
  <2>2. CASE ~(Len(rx.buf) >= RxSize)
    <3>1. room = rx
      BY <1>0, <2>2
    <3> QED BY <1>1, <1>3, <2>2, <3>1 DEF UnreadOf, Unread
  <2> QED BY <2>1, <2>2
<1>5. Stored(c) = IF Len(room.buf) < RxSize THEN [room EXCEPT !.buf = Append(@, c)] ELSE room
  BY <1>0 DEF Stored
<1>6. CASE Len(room.buf) < RxSize
  <2>1. Stored(c) = [room EXCEPT !.buf = Append(@, c)]
    BY <1>5, <1>6
  <2>2. /\ Stored(c) \in RxType
        /\ Stored(c).head <= Len(Stored(c).buf)
        /\ Len(Stored(c).buf) = Len(room.buf) + 1
        /\ UnreadOf(Stored(c)) = Append(UnreadOf(room), c)
    BY <1>4, <2>1, UnreadAppended
  <2>3. Len(Stored(c).buf) <= RxSize
    BY <1>1, <1>4, <1>6, <2>2
  <2> QED BY <1>4, <1>6, <2>2, <2>3
<1>7. CASE ~(Len(room.buf) < RxSize)
  <2>1. Stored(c) = room
    BY <1>5, <1>7
  <2> QED BY <1>4, <1>7, <2>1
<1> QED BY <1>6, <1>7

-----------------------------------------------------------------------------
(* processIncomingByte() keeps the client in bounds, whatever the byte. *)

LEMMA FeedLineOK ==
  ASSUME ClientOK, NEW c \in Byte, FeedLine(c)
  PROVE  line' \in LineType /\ Len(line'.text) < LineSize /\ connected' \in BOOLEAN
<1>1. /\ line \in LineType /\ Len(line.text) < LineSize /\ line.text \in Seq(Byte)
      /\ connected \in BOOLEAN
      /\ LineSize \in Nat \ {0}
  BY SizeAssumption DEF ClientOK, LineType, CLOSED
<1>2. Append(line.text, c) \in Seq(Byte) /\ Len(Append(line.text, c)) = Len(line.text) + 1
  BY <1>1, AppendProperties
<1>3. Len(line.text) \in Nat
  BY <1>1, LenProperties
<1>4. connected' \in BOOLEAN
  BY DEF FeedLine
<1>5. CASE c = CR
  <2>1. line' = [line EXCEPT !.lastWasCR = TRUE]
    BY <1>5 DEF FeedLine
  <2> QED BY <1>1, <1>4, <2>1 DEF LineType
<1>6. CASE c # CR /\ c = LF
  <2>1. line' = EmptyLine
    BY <1>6 DEF FeedLine
  <2> QED BY <1>1, <1>4, <2>1 DEF LineType, EmptyLine
<1>7. CASE c # CR /\ c # LF /\ Len(line.text) < LineSize - 1
  <2>1. line' = [line EXCEPT !.text = Append(@, c), !.lastWasCR = FALSE]
    BY <1>7 DEF FeedLine
  <2>2. line' \in LineType /\ line'.text = Append(line.text, c)
    BY <1>1, <1>2, <2>1 DEF LineType
  <2> QED BY <1>1, <1>2, <1>3, <1>4, <1>7, <2>2
<1>8. CASE c # CR /\ c # LF /\ ~(Len(line.text) < LineSize - 1)
  <2>1. line' = [line EXCEPT !.overflowed = TRUE, !.lastWasCR = FALSE]
    BY <1>8 DEF FeedLine
  <2> QED BY <1>1, <1>4, <2>1 DEF LineType
<1> QED BY <1>5, <1>6, <1>7, <1>8

LEMMA ScanForIpdOK ==
  ASSUME ClientOK, NEW c \in Byte, ScanForIpd(c), tx' = tx
  PROVE  ClientOK' /\ rx' = rx
<1>1. /\ ipd \in IpdType /\ ipd.matchPos \in 0..4 /\ ipd.state = "ScanForIpd"
  BY DEF ClientOK, IpdType, IPD_PREFIX_LEN, ScanForIpd
<1>2. /\ ipd' \in IpdType /\ ipd'.state = "ScanForIpd"
      /\ ipd'.matchPos < 5
  <2>1. ipd.matchPos = 4 => c # IPD_PREFIX[5]
    BY DEF ScanForIpd, HeaderEnds, IPD_PREFIX, IPD_PREFIX_LEN
  <2>2. ipd' = [ipd EXCEPT !.matchPos = IF c = IPD_PREFIX[ipd.matchPos + 1]
                                        THEN ipd.matchPos + 1
                                        ELSE IF c = PLUS THEN 1 ELSE 0]
    BY DEF ScanForIpd
  <2>3. CASE c = IPD_PREFIX[ipd.matchPos + 1]
    <3>1. ipd.matchPos # 4
      BY <2>1, <2>3
    <3>2. ipd' = [ipd EXCEPT !.matchPos = ipd.matchPos + 1]
      BY <2>2, <2>3
    <3> QED BY <1>1, <3>1, <3>2 DEF IpdType
  <2>4. CASE c # IPD_PREFIX[ipd.matchPos + 1]
    <3>1. ipd' = [ipd EXCEPT !.matchPos = IF c = PLUS THEN 1 ELSE 0]
      BY <2>2, <2>4
    <3> QED BY <1>1, <3>1 DEF IpdType
  <2> QED BY <2>3, <2>4
<1>3. line' \in LineType /\ Len(line'.text) < LineSize /\ connected' \in BOOLEAN
  BY FeedLineOK DEF ScanForIpd
<1>4. rx' = rx
  BY DEF ScanForIpd
<1> QED BY <1>2, <1>3, <1>4 DEF ClientOK, IPD_PREFIX_LEN

LEMMA TextDropped ==
  ASSUME line \in LineType, NEW l, l = [line EXCEPT !.text = <<>>]
  PROVE  l \in LineType /\ Len(l.text) < LineSize
<1>1. <<>> \in Seq(Byte) /\ Len(<<>>) = 0
  BY EmptySeq
<1>2. 0 < LineSize
  BY SizeAssumption DEF CLOSED
<1>3. l \in LineType /\ l.text = <<>>
  BY <1>1 DEF LineType
<1> QED BY <1>1, <1>2, <1>3

LEMMA StartLengthOK ==
  ASSUME ClientOK, NEW c \in Byte, StartLength(c), tx' = tx
  PROVE  ClientOK' /\ rx' = rx
<1>1. 0 \in 0..(LenMod - 1)
  BY SizeAssumption
<1>2. /\ ipd \in IpdType /\ line \in LineType
      /\ ipd' = [ipd EXCEPT !.state = "ReadLength", !.payloadLen = 0, !.matchPos = 0]
      /\ line' = [line EXCEPT !.text = <<>>]
  BY DEF StartLength, ClientOK
<1>3. /\ ipd' \in IpdType /\ ipd'.state = "ReadLength" /\ ipd'.matchPos < 5
  <2>1. /\ ipd'.state = "ReadLength" /\ ipd'.matchPos = 0 /\ ipd'.payloadLen = 0
        /\ ipd'.remaining = ipd.remaining
        /\ ipd' \in IpdType
    BY <1>1, <1>2 DEF IpdType
  <2> QED BY <2>1
<1>4. line' \in LineType /\ Len(line'.text) < LineSize
  BY <1>2, TextDropped
<1> QED BY <1>3, <1>4 DEF StartLength, ClientOK, IPD_PREFIX_LEN

LEMMA ReadLengthOK ==
  ASSUME ClientOK, NEW c \in Byte, ReadLength(c), tx' = tx
  PROVE  ClientOK' /\ rx' = rx
<1>1. /\ ipd \in IpdType /\ ipd.matchPos < 5 /\ LenMod \in Nat \ {0}
      /\ ipd.payloadLen \in 0..(LenMod - 1)
  BY SizeAssumption DEF ClientOK, IpdType, IPD_PREFIX_LEN
<1>2. /\ ipd' \in IpdType /\ ipd'.matchPos < 5
      /\ ipd'.state = "CopyPayload" => ipd'.remaining > 0
  <2>0. ipd.state = "ReadLength"
    BY DEF ReadLength
  <2>1. CASE IsDigit(c)
    <3>1. (ipd.payloadLen * 10 + (c - ZERO)) % LenMod \in 0..(LenMod - 1)
      <4>1. ipd.payloadLen * 10 + (c - ZERO) \in Int
        BY <1>1 DEF Byte, ZERO
      <4> QED BY <1>1, <4>1
    <3>2. ipd' = [ipd EXCEPT !.payloadLen = (ipd.payloadLen * 10 + (c - ZERO)) % LenMod]
      BY <2>1 DEF ReadLength
    <3> QED BY <1>1, <2>0, <3>1, <3>2 DEF IpdType
  <2>2. CASE ~IsDigit(c) /\ c = COLON
    <3>1. ipd' = [ipd EXCEPT !.remaining = ipd.payloadLen,
                            !.state = IF ipd.payloadLen > 0 THEN "CopyPayload"
                                      ELSE "ScanForIpd"]
      BY <2>2 DEF ReadLength
    <3>2. /\ ipd'.remaining = ipd.payloadLen /\ ipd'.matchPos = ipd.matchPos
          /\ ipd'.state = IF ipd.payloadLen > 0 THEN "CopyPayload" ELSE "ScanForIpd"
          /\ ipd' \in IpdType
      BY <1>1, <3>1 DEF IpdType
    <3> QED BY <1>1, <3>2
  <2>3. CASE ~IsDigit(c) /\ c # COLON
    <3>1. ipd' = [ipd EXCEPT !.state = "ScanForIpd", !.matchPos = IF c = PLUS THEN 1 ELSE 0]
      BY <2>3 DEF ReadLength
    <3>2. ipd'.state = "ScanForIpd" /\ ipd'.matchPos \in {0, 1} /\ ipd' \in IpdType
      BY <1>1, <3>1 DEF IpdType
    <3> QED BY <3>2
  <2> QED BY <2>1, <2>2, <2>3
<1>3. line' \in LineType /\ Len(line'.text) < LineSize
  <2>1. line' = line \/ line' = [line EXCEPT !.text = <<>>]
    BY DEF ReadLength
  <2>2. line \in LineType /\ Len(line.text) < LineSize
    BY DEF ClientOK
  <2> QED BY <2>1, <2>2, TextDropped
<1> QED BY <1>2, <1>3 DEF ReadLength, ClientOK, IPD_PREFIX_LEN

(* The countdown leaves CopyPayload at zero, never below. *)
LEMMA CopyPayloadOK ==
  ASSUME ClientOK, NEW c \in Byte, CopyPayload(c), tx' = tx
  PROVE  /\ ClientOK'
         /\ UnreadOf(rx') = IF Len(Unread) < RxSize THEN Append(Unread, c) ELSE Unread
<1>1. /\ ipd \in IpdType /\ ipd.matchPos < 5 /\ ipd.state = "CopyPayload"
      /\ ipd.remaining \in 1..(LenMod - 1) /\ LenMod \in Nat \ {0}
  BY SizeAssumption DEF ClientOK, IpdType, IPD_PREFIX_LEN, CopyPayload
<1>2. (ipd.remaining - 1) % LenMod = ipd.remaining - 1
  BY <1>1
<1>3. ipd' = [ipd EXCEPT !.remaining = ipd.remaining - 1,
                        !.state = IF ipd.remaining - 1 = 0 THEN "ScanForIpd" ELSE @]
  BY <1>2 DEF CopyPayload
<1>4. /\ ipd' \in IpdType /\ ipd'.matchPos < 5
      /\ ipd'.state = "CopyPayload" => ipd'.remaining > 0
  <2>1. ipd.remaining - 1 \in 0..(LenMod - 1)
    BY <1>1
  <2>2. /\ ipd' \in IpdType /\ ipd'.matchPos = ipd.matchPos
        /\ ipd'.remaining = ipd.remaining - 1
        /\ ipd'.state = IF ipd.remaining - 1 = 0 THEN "ScanForIpd" ELSE "CopyPayload"
    BY <1>1, <1>3, <2>1 DEF IpdType
  <2> QED BY <1>1, <2>1, <2>2
<1>5. rx' = Stored(c)
  BY DEF CopyPayload
<1>6. /\ rx' \in RxType /\ rx'.head <= Len(rx'.buf) /\ Len(rx'.buf) <= RxSize
      /\ UnreadOf(rx') = IF Len(Unread) < RxSize THEN Append(Unread, c) ELSE Unread
  BY <1>5, StoredIsPut
<1> QED BY <1>4, <1>6 DEF CopyPayload, ClientOK, IPD_PREFIX_LEN

-----------------------------------------------------------------------------
(* The caller's and the modem's steps.                                     *)

(* stop() leaves an empty client. *)
LEMMA ResetOK ==
  ASSUME Reset, connected' \in BOOLEAN
  PROVE  ClientOK' /\ Unread' = <<>>
<1>1. /\ <<>> \in Seq(Byte) /\ <<>> \in Seq(Nat) /\ Len(<<>>) = 0
  BY EmptySeq
<1>2. /\ RxSize \in Nat /\ TxSize \in Nat /\ 0 \in 0..(LenMod - 1) /\ 0 < LineSize
  BY SizeAssumption DEF CLOSED
<1>3. /\ ipd' \in IpdType /\ ipd'.matchPos = 0 /\ ipd'.state = "ScanForIpd"
      /\ line' \in LineType /\ line'.text = <<>>
      /\ rx' \in RxType /\ rx'.buf = <<>> /\ rx'.head = 0
      /\ tx' = <<>>
  BY <1>1, <1>2 DEF Reset, NoFrame, EmptyLine, EmptyRx, IpdType, LineType, RxType
<1>4. Unread' = <<>>
  <2>1. Unread' = SubSeq(<<>>, 0 + 1, Len(<<>>))
    BY <1>3 DEF Unread
  <2> QED BY <1>1, <2>1, AllUnread
<1>5. ClientOK'
  BY <1>1, <1>2, <1>3 DEF ClientOK, IPD_PREFIX_LEN
<1> QED BY <1>4, <1>5

(* What an AT exchange leaves is text. *)
LEMMA LeftoverTyped == Leftover => uart' \in Seq(Byte)
<1>1. <<>> \in Seq(Byte) /\ <<CR, LF>> \in Seq(Byte)
  BY DEF Byte, CR, LF
<1> QED BY <1>1 DEF Leftover

(* A step that only empties or keeps the receive buffer is one of the queue. *)
Idles == [BQ!BQNext]_Unread

LEMMA FeedByteOK ==
  ASSUME ClientOK, OthersOK, FeedByte
  PROVE  ClientOK' /\ OthersOK' /\ Idles
<1> DEFINE c == Head(uart)
<1>1. c \in Byte /\ Tail(uart) \in Seq(Byte)
  BY HeadTailProperties DEF FeedByte, OthersOK
<1>2. OthersOK'
  BY <1>1 DEF OthersOK, FeedByte, callerVars
<1>3. tx' = tx
  BY DEF FeedByte
<1> HIDE DEF c
<1>4. CASE ScanForIpd(c) \/ StartLength(c) \/ ReadLength(c)
  <2>1. ClientOK' /\ rx' = rx
    BY <1>1, <1>3, <1>4, ScanForIpdOK, StartLengthOK, ReadLengthOK
  <2> QED BY <1>2, <2>1 DEF Idles, Unread
<1>5. CASE CopyPayload(c)
  <2>1. /\ ClientOK'
        /\ UnreadOf(rx') = IF Len(Unread) < RxSize THEN Append(Unread, c) ELSE Unread
    BY <1>1, <1>3, <1>5, CopyPayloadOK
  <2>2. Unread' = UnreadOf(rx')
    BY DEF Unread, UnreadOf
  <2>3. BQ!Put(c)
    BY <2>1, <2>2 DEF BQ!Put
  <2> QED BY <1>1, <1>2, <2>1, <2>3 DEF Idles, BQ!BQNext
<1> QED BY <1>4, <1>5 DEF FeedByte, c

(* Bytes of a command are bytes, and only zeros. *)
LEMMA CommandTyped ==
  ASSUME NEW n \in Nat
  PROVE  /\ Command(n) \in Seq(Nat) /\ Len(Command(n)) = n
         /\ \A i \in 1..n : Command(n)[i] = 0
<1>1. Command(n) \in [1..n -> Nat]
  BY DEF Command
<1>2. Command(n) \in Seq(Nat)
  BY <1>1, SeqDef
<1>3. Len(Command(n)) = n
  BY <1>1, <1>2, LenProperties DEF Command
<1> QED BY <1>2, <1>3 DEF Command

(* What the modem holds and what it passes on are bytes. *)
LEMMA AfterTyped ==
  ASSUME NEW m \in ModemType, NEW bytes \in Seq(Nat)
  PROVE  After(m, bytes) \in ModemType /\ Passed(m, bytes) \in Seq(Nat)
<1>1. m.wants \in Nat /\ m.held \in Seq(Nat) /\ Len(bytes) \in Nat
  BY LenProperties DEF ModemType
<1>2. NoData \in ModemType /\ <<>> \in Seq(Nat)
  BY EmptySeq DEF NoData, ModemType
<1>3. m.held \o bytes \in Seq(Nat)
  BY <1>1, ConcatProperties
<1>4. CASE Len(bytes) >= m.wants
  <2>1. SubSeq(bytes, 1, m.wants) \in Seq(Nat)
    <3>1. 1 \in Nat \ {0} /\ m.wants \in 0..Len(bytes)
      BY <1>1, <1>4
    <3> QED BY <3>1, PieceTyped
  <2>2. m.held \o SubSeq(bytes, 1, m.wants) \in Seq(Nat)
    BY <1>1, <2>1, ConcatProperties
  <2> QED BY <1>2, <1>4, <2>2 DEF After, Passed
<1>5. CASE ~(Len(bytes) >= m.wants)
  <2>1. m.wants - Len(bytes) \in Nat
    BY <1>1, <1>5
  <2>2. After(m, bytes) = [wants |-> m.wants - Len(bytes), held |-> m.held \o bytes]
    BY <1>5 DEF After
  <2> QED BY <1>2, <1>3, <1>5, <2>1, <2>2 DEF Passed, ModemType
<1> QED BY <1>4, <1>5

(* Of a connection that is over the modem holds nothing that counts. *)
LEMMA InterruptedTyped ==
  ASSUME NEW m \in ModemType, NEW n \in CmdSizes
  PROVE  /\ Interrupted(m, n) \in ModemType
         /\ \A i \in 1..Len(Interrupted(m, n).held) : Interrupted(m, n).held[i] = 0
<1> DEFINE after == After(m, Command(n))
<1>1. n \in Nat
  BY SizeAssumption
<1>2. after \in ModemType
  BY <1>1, CommandTyped, AfterTyped
<1> HIDE DEF after
<1>3. Len(after.held) \in Nat
  BY <1>2, LenProperties DEF ModemType
<1>4. Interrupted(m, n) = [after EXCEPT !.held = Command(Len(after.held))]
  BY DEF Interrupted, after
<1>5. Interrupted(m, n).held = Command(Len(after.held)) /\ Interrupted(m, n) \in ModemType
  BY <1>2, <1>3, <1>4, CommandTyped DEF ModemType
<1> QED BY <1>3, <1>5, CommandTyped

LEMMA ConnectOK ==
  ASSUME ClientOK, OthersOK, Connect
  PROVE  ClientOK' /\ OthersOK' /\ Idles
<1>1. PICK closes \in BOOLEAN, opens \in BOOLEAN, ok \in BOOLEAN, size \in Requests,
           n1 \in CmdSizes, n2 \in CmdSizes :
        /\ pc = "idle"
        /\ opens => Interrupted(modem, n1) = NoData
        /\ Reset
        /\ Leftover
        /\ link' = IF link.up /\ ~closes THEN [link EXCEPT !.payload = 0]
                   ELSE [up |-> opens, sent |-> 0, payload |-> 0]
        /\ modem' = Interrupted(Interrupted(modem, n1), n2)
        /\ connected' = ok
        /\ clean' = (ok /\ opens /\ ~(link.up /\ ~closes))
        /\ prompted' = (modem' = NoData)
        /\ pc' = IF ok THEN "write" ELSE "idle"
        /\ todo' = IF ok THEN [i \in 1..size |-> i] ELSE <<>>
        /\ taken' = 0
        /\ got' = <<>>
  BY Zenon DEF Connect
<1>2. ClientOK' /\ Unread' = <<>>
  BY <1>1, ResetOK
<1>3. todo' \in Seq(Nat) /\ got' \in Seq(Nat)
  <2>1. size \in Nat
    BY SizeAssumption
  <2>2. [i \in 1..size |-> i] \in [1..size -> Nat]
    OBVIOUS
  <2>3. [i \in 1..size |-> i] \in Seq(Nat)
    BY <2>1, <2>2, SeqDef
  <2> QED BY <1>1, <2>3
<1>4. link' \in LinkType
  <2>1. 0 \in 0..Len(Response)
    BY ResponseAssumption, LenProperties
  <2> QED BY <1>1, <2>1 DEF OthersOK, LinkType
<1>5. OthersOK'
  <2>1. modem' \in ModemType
    BY <1>1, InterruptedTyped DEF OthersOK
  <2> QED BY <1>1, <1>3, <1>4, <2>1, LeftoverTyped DEF OthersOK
<1>6. BQ!Clear
  BY <1>2 DEF BQ!Clear
<1> QED BY <1>2, <1>5, <1>6 DEF Idles, BQ!BQNext

LEMMA StopOK ==
  ASSUME OthersOK, Stop
  PROVE  ClientOK' /\ OthersOK' /\ Idles
<1>1. ClientOK' /\ Unread' = <<>>
  BY ResetOK DEF Stop
<1>2. link' \in LinkType
  <2>1. PICK up \in {link.up, FALSE} : link' = [link EXCEPT !.up = up, !.payload = 0]
    BY DEF Stop
  <2>2. link \in LinkType /\ up \in BOOLEAN
    BY DEF OthersOK, LinkType
  <2> QED BY <2>1, <2>2 DEF LinkType
<1>3. OthersOK'
  <2>1. /\ uart' \in Seq(Byte) /\ pc' = "idle" /\ todo' = <<>> /\ taken' = 0
        /\ got' = <<>> /\ clean' = FALSE /\ prompted' = FALSE
    BY LeftoverTyped DEF Stop
  <2>2. modem' \in ModemType
    BY InterruptedTyped DEF Stop, OthersOK
  <2> QED BY <1>2, <2>1, <2>2, EmptySeq DEF OthersOK
<1>4. BQ!Clear
  BY <1>1 DEF BQ!Clear
<1> QED BY <1>1, <1>3, <1>4 DEF Idles, BQ!BQNext

LEMMA WriteOK ==
  ASSUME ClientOK, OthersOK, Write
  PROVE  ClientOK' /\ OthersOK' /\ Idles
<1> DEFINE space == TxSize - Len(tx)
           n == IF Len(todo) > space THEN space ELSE Len(todo)
<1>1. /\ tx \in Seq(Nat) /\ todo \in Seq(Nat) /\ Len(tx) \in Nat /\ Len(todo) \in Nat
      /\ TxSize \in Nat /\ Len(tx) <= TxSize
  BY SizeAssumption, LenProperties DEF ClientOK, OthersOK
<1>2. n \in 0..Len(todo) /\ n <= space /\ n \in Nat
  BY <1>1
<1>3. /\ tx' = tx \o SubSeq(todo, 1, n)
      /\ todo' = SubSeq(todo, n + 1, Len(todo))
      /\ pc' \in {"read", "write"}
      /\ UNCHANGED <<ipd, line, rx, connected, taken, modemVars>>
  BY DEF Write
<1> HIDE DEF n
<1>4. /\ SubSeq(todo, 1, n) \in Seq(Nat)
      /\ Len(SubSeq(todo, 1, n)) = n
      /\ todo' \in Seq(Nat)
  <2>1. 1 \in Nat \ {0} /\ n + 1 \in Nat \ {0} /\ Len(todo) \in 0..Len(todo)
    BY <1>1, <1>2
  <2>2. /\ SubSeq(todo, 1, n) \in Seq(Nat)
        /\ Len(SubSeq(todo, 1, n)) = IF 1 <= n THEN n - 1 + 1 ELSE 0
    BY <1>1, <1>2, <2>1, PieceTyped
  <2>3. SubSeq(todo, n + 1, Len(todo)) \in Seq(Nat)
    BY <1>1, <1>2, <2>1, PieceTyped
  <2> QED BY <1>2, <1>3, <2>2, <2>3
<1>5. tx' \in Seq(Nat) /\ Len(tx') <= TxSize
  BY <1>1, <1>2, <1>3, <1>4, ConcatProperties
<1>6. ClientOK'
  BY <1>3, <1>5 DEF ClientOK
<1>7. OthersOK'
  BY <1>3, <1>4 DEF OthersOK, modemVars
<1> QED BY <1>3, <1>6, <1>7 DEF Idles, Unread

(* The modem's messages are bytes, and so is any rest of one. *)
LEMMA FrameTyped ==
  ASSUME link \in LinkType, NEW n \in FrameSizes, link.sent + n <= Len(Response)
  PROVE  Frame(n) \in Seq(Byte)
<1>1. /\ n \in 1..99 /\ n \in Nat /\ link.sent \in Nat
      /\ link.sent + n <= Len(Response) /\ Len(Response) \in Nat
  BY SizeAssumption, ResponseAssumption, LenProperties DEF LinkType
<1>2. /\ <<CR, LF>> \in Seq(Byte) /\ IPD_PREFIX \in Seq(Byte) /\ <<COLON>> \in Seq(Byte)
  BY DEF Byte, CR, LF, IPD_PREFIX, PLUS, COMMA, COLON
<1>3. Decimal(n) \in Seq(Byte)
  <2>1. CASE n < 10
    <3>1. ZERO + n \in Byte
      BY <1>1, <2>1 DEF ZERO, Byte
    <3> QED BY <2>1, <3>1 DEF Decimal
  <2>2. CASE ~(n < 10)
    <3>1. ZERO + n \div 10 \in Byte /\ ZERO + (n % 10) \in Byte
      BY <1>1 DEF ZERO, Byte
    <3> QED BY <2>2, <3>1 DEF Decimal
  <2> QED BY <2>1, <2>2
<1> DEFINE data == SubSeq(Response, link.sent + 1, link.sent + n)
<1>4. data \in Seq(Byte)
  <2>1. link.sent + 1 \in Nat \ {0} /\ link.sent + n \in 0..Len(Response)
    BY <1>1
  <2> QED BY <2>1, ResponseAssumption, PieceTyped
<1>5. Frame(n) = <<CR, LF>> \o IPD_PREFIX \o Decimal(n) \o <<COLON>> \o data
  BY DEF Frame
<1> HIDE DEF data
<1>6. <<CR, LF>> \o IPD_PREFIX \in Seq(Byte)
  BY <1>2, ConcatProperties
<1>7. <<CR, LF>> \o IPD_PREFIX \o Decimal(n) \in Seq(Byte)
  BY <1>3, <1>6, ConcatProperties
<1>8. <<CR, LF>> \o IPD_PREFIX \o Decimal(n) \o <<COLON>> \in Seq(Byte)
  BY <1>2, <1>7, ConcatProperties
<1> QED BY <1>4, <1>5, <1>8, ConcatProperties

LEMMA ClosedLineTyped == ClosedLine \in Seq(Byte)
<1>1. CLOSED \in Seq(Byte) /\ <<CR, LF>> \in Seq(Byte)
  BY DEF Byte, CR, LF, CLOSED
<1> QED BY <1>1, ConcatProperties DEF ClosedLine

LEMMA RestTyped ==
  ASSUME NEW text \in Seq(Byte), NEW rest \in Rests(text)
  PROVE  rest \in Seq(Byte)
<1>1. PICK k \in 1..(Len(text) + 1) : rest = SubSeq(text, k, Len(text))
  BY DEF Rests
<1>2. k \in Nat \ {0} /\ Len(text) \in 0..Len(text)
  BY LenProperties
<1> QED BY <1>1, <1>2, PieceTyped

LEMMA SwallowOK ==
  ASSUME OthersOK, NEW n \in FrameSizes \cup {0}, NEW late \in BOOLEAN, Swallow(n, late)
  PROVE  uart' \in Seq(Byte) /\ link' \in LinkType /\ clean' \in BOOLEAN
<1>1. PICK up \in {link.up, FALSE} :
        /\ \/ Leftover
           \/ n > 0 /\ uart' \in Rests(Frame(n))
           \/ link.up /\ ~up /\ uart' \in Rests(ClosedLine)
           \/ late /\ uart' \in Rests(<<GT, SPACE>>)
        /\ link' = [up |-> up, sent |-> link.sent + n, payload |-> n]
        /\ clean' = (clean /\ up /\ n = 0 /\ Pending = <<>> /\ ~late)
  BY DEF Swallow
<1>2. /\ link \in LinkType /\ link.sent \in 0..Len(Response) /\ link.up \in BOOLEAN
      /\ n \in Nat /\ Len(Response) \in Nat
  BY SizeAssumption, ResponseAssumption, LenProperties DEF OthersOK, LinkType
<1>3. n > 0 => n \in FrameSizes /\ link.sent + n <= Len(Response)
  BY DEF Swallow
<1>4. uart' \in Seq(Byte)
  <2>1. n > 0 => Frame(n) \in Seq(Byte)
    BY <1>2, <1>3, FrameTyped
  <2>2. <<GT, SPACE>> \in Seq(Byte)
    BY DEF GT, SPACE, Byte
  <2> QED BY <1>1, <2>1, <2>2, ClosedLineTyped, RestTyped, LeftoverTyped
<1>5. link.sent + n \in 0..Len(Response)
  BY <1>2, <1>3
<1> QED BY <1>1, <1>2, <1>4, <1>5 DEF LinkType

(* One AT+CIPSEND: what is written is a part of tx, behind the command or  *)
(* not, and the modem passes all of it on or nothing.                      *)
Written(found, lost) == IF found THEN SubSeq(tx, lost + 1, Len(tx)) ELSE <<>>
Bytes(prompts, found, lost, size) ==
  IF prompts THEN Written(found, lost) ELSE Command(size) \o Written(found, lost)
Waiting(prompts) == IF prompts THEN [wants |-> Len(tx), held |-> <<>>] ELSE modem

CipSend(prompts, found, lost, before, bytes) ==
  /\ lost > 0 => prompts /\ found
  /\ prompts => modem = NoData
  /\ before \in ModemType /\ bytes \in Seq(Nat) /\ Written(found, lost) \in Seq(Nat)
  /\ modem' = After(before, bytes)
  /\ got' = got \/ got' = got \o Passed(before, bytes)
  /\ prompted' = (prompted /\ (found <=> prompts) /\ lost = 0)
  /\ uart' \in Seq(Byte) /\ link' \in LinkType /\ clean' \in BOOLEAN
  /\ \E n \in FrameSizes \cup {0}, late \in BOOLEAN : Swallow(n, late)

LEMMA ExchangeOK ==
  ASSUME ClientOK, OthersOK, Exchange
  PROVE  \E prompts, found \in BOOLEAN, lost \in 0..Len(tx), size \in CmdSizes :
           CipSend(prompts, found, lost, Waiting(prompts), Bytes(prompts, found, lost, size))
<1>1. PICK prompts \in BOOLEAN, found \in BOOLEAN, lost \in 0..Len(tx), size \in CmdSizes,
           n \in FrameSizes \cup {0}, delivered \in {link.up, FALSE} :
        LET written == IF found THEN SubSeq(tx, lost + 1, Len(tx)) ELSE <<>>
            bytes   == IF prompts THEN written ELSE Command(size) \o written
            before  == IF prompts THEN [wants |-> Len(tx), held |-> <<>>] ELSE modem
            early   == \/ \E i \in DOMAIN uart : uart[i] = GT
                       \/ \E i \in DOMAIN Response :
                            Response[i] = GT /\ i \in (link.sent + 1)..(link.sent + n)
        IN /\ prompts => link.up /\ modem = NoData
           /\ found => prompts \/ early
           /\ lost > 0 => prompts /\ found /\ early
           /\ modem' = After(before, bytes)
           /\ got' = IF delivered THEN got \o Passed(before, bytes) ELSE got
           /\ prompted' = (prompted /\ (found <=> prompts) /\ lost = 0)
           /\ Swallow(n, prompts /\ ~found)
  BY Zenon DEF Exchange
<1> DEFINE written == Written(found, lost)
           bytes   == Bytes(prompts, found, lost, size)
           before  == Waiting(prompts)
<1>2. tx \in Seq(Nat) /\ Len(tx) \in Nat /\ modem \in ModemType /\ size \in Nat
      /\ <<>> \in Seq(Nat)
  BY SizeAssumption, LenProperties, EmptySeq DEF ClientOK, OthersOK
<1>3. written \in Seq(Nat)
  <2>1. lost + 1 \in Nat \ {0} /\ Len(tx) \in 0..Len(tx)
    BY <1>2
  <2>2. SubSeq(tx, lost + 1, Len(tx)) \in Seq(Nat)
    BY <1>2, <2>1, PieceTyped
  <2> QED BY <1>2, <2>2 DEF Written
<1>4. bytes \in Seq(Nat)
  <2>1. Command(size) \o written \in Seq(Nat)
    BY <1>2, <1>3, CommandTyped, ConcatProperties
  <2> QED BY <1>3, <2>1 DEF Bytes
<1>5. before \in ModemType
  BY <1>2 DEF ModemType, Waiting
<1>6. uart' \in Seq(Byte) /\ link' \in LinkType /\ clean' \in BOOLEAN
  <2>1. Swallow(n, prompts /\ ~found)
    BY <1>1
  <2> QED BY <2>1, SwallowOK
<1>7. got' = got \/ got' = got \o Passed(before, bytes)
  BY <1>1 DEF Waiting, Bytes, Written
<1>8. modem' = After(before, bytes)
  BY <1>1 DEF Waiting, Bytes, Written
<1>9. /\ lost > 0 => prompts /\ found
      /\ prompts => modem = NoData
      /\ prompted' = (prompted /\ (found <=> prompts) /\ lost = 0)
  BY <1>1
<1>10. \E k \in FrameSizes \cup {0}, late \in BOOLEAN : Swallow(k, late)
  <2>1. Swallow(n, prompts /\ ~found)
    BY <1>1
  <2> QED BY <2>1
<1>11. CipSend(prompts, found, lost, before, bytes)
  BY <1>3, <1>4, <1>5, <1>6, <1>7, <1>8, <1>9, <1>10 DEF CipSend
<1> QED BY <1>11

LEMMA SendRequestOK ==
  ASSUME ClientOK, OthersOK, SendRequest
  PROVE  ClientOK' /\ OthersOK' /\ Idles
<1>1. /\ tx' = <<>>
      /\ UNCHANGED <<ipd, line, rx, connected, pc, todo, taken>>
      /\ Exchange
  BY DEF SendRequest, callerVars
<1>2. PICK before, bytes :
        /\ before \in ModemType /\ bytes \in Seq(Nat)
        /\ modem' = After(before, bytes)
        /\ got' = got \/ got' = got \o Passed(before, bytes)
        /\ prompted' \in BOOLEAN
        /\ uart' \in Seq(Byte) /\ link' \in LinkType /\ clean' \in BOOLEAN
  <2>1. PICK prompts \in BOOLEAN, found \in BOOLEAN, lost \in 0..Len(tx), size \in CmdSizes :
          CipSend(prompts, found, lost, Waiting(prompts), Bytes(prompts, found, lost, size))
    BY <1>1, ExchangeOK
  <2>2. prompted' \in BOOLEAN
    BY <2>1 DEF CipSend
  <2> QED BY <2>1, <2>2 DEF CipSend
<1>3. modem' \in ModemType /\ Passed(before, bytes) \in Seq(Nat)
  BY <1>2, AfterTyped
<1>4. got' \in Seq(Nat)
  <2>1. got \o Passed(before, bytes) \in Seq(Nat)
    BY <1>3, ConcatProperties DEF OthersOK
  <2> QED BY <1>2, <2>1 DEF OthersOK
<1>5. ClientOK'
  BY <1>1, SizeAssumption, EmptySeq DEF ClientOK
<1>6. OthersOK'
  BY <1>1, <1>2, <1>3, <1>4 DEF OthersOK
<1> QED BY <1>1, <1>5, <1>6 DEF Idles, Unread

LEMMA ReadOK ==
  ASSUME ClientOK, OthersOK, NEW n \in 1..Len(Unread), Read(n)
  PROVE  ClientOK' /\ OthersOK' /\ Idles
<1>1. /\ Unread \in Seq(Byte) /\ Len(Unread) = Len(rx.buf) - rx.head
      /\ Len(rx.buf) \in Nat /\ rx.head \in Nat /\ Len(rx.buf) <= RxSize /\ RxSize \in Nat
  BY UnreadTyped, LenProperties, SizeAssumption DEF ClientOK, RxType
<1>2. rx' = [buf |-> Unread, head |-> n] /\ n \in Nat
  BY <1>1 DEF Read, Compacted
<1>3. /\ UNCHANGED <<ipd, line, tx, connected, pc, todo, modemVars>>
      /\ taken' \in Nat
  BY <1>2 DEF Read, OthersOK
<1>4. rx' \in RxType /\ rx'.head <= Len(rx'.buf) /\ Len(rx'.buf) <= RxSize
  BY <1>1, <1>2 DEF RxType
<1>5. ClientOK'
  BY <1>3, <1>4 DEF ClientOK
<1>6. OthersOK'
  BY <1>3 DEF OthersOK, modemVars
<1>7. BQ!Take(n)
  <2>1. Unread' = SubSeq(rx'.buf, rx'.head + 1, Len(rx'.buf))
    BY DEF Unread
  <2>2. rx'.buf = Unread /\ rx'.head = n
    BY <1>2
  <2> QED BY <2>1, <2>2 DEF BQ!Take
<1> QED BY <1>5, <1>6, <1>7 DEF Idles, BQ!BQNext

(* available() and connected(): the buffer is compacted, nothing is taken. *)
LEMMA CompactOK ==
  ASSUME ClientOK, OthersOK, rx' = Compacted, pc' \in {"read", "check"},
         UNCHANGED <<ipd, line, tx, connected, todo, taken, modemVars>>
  PROVE  ClientOK' /\ OthersOK' /\ Idles
<1>1. /\ rx \in RxType /\ rx.head <= Len(rx.buf) /\ Len(rx.buf) <= RxSize
      /\ Len(rx.buf) \in Nat /\ RxSize \in Nat
  BY LenProperties, SizeAssumption DEF ClientOK, RxType
<1>2. /\ rx' \in RxType /\ rx'.head <= Len(rx'.buf) /\ Len(rx'.buf) <= Len(rx.buf)
      /\ UnreadOf(rx') = Unread
  BY <1>1, UnreadCompacted
<1>3. Len(rx'.buf) \in Nat
  BY <1>2, LenProperties DEF RxType
<1>4. ClientOK'
  <2>1. Len(rx'.buf) <= RxSize
    BY <1>1, <1>2, <1>3
  <2> QED BY <1>2, <2>1 DEF ClientOK
<1>5. OthersOK'
  BY DEF OthersOK, modemVars
<1>6. Unread' = Unread
  BY <1>2 DEF Unread, UnreadOf
<1> QED BY <1>4, <1>5, <1>6 DEF Idles

LEMMA SendFrameOK ==
  ASSUME ClientOK, OthersOK, NEW n \in FrameSizes, SendFrame(n)
  PROVE  ClientOK' /\ OthersOK' /\ Idles
<1>1. /\ n \in Nat /\ link \in LinkType /\ link.sent \in Nat
      /\ link.sent + n <= Len(Response) /\ Len(Response) \in Nat
  <2>1. link.sent + n <= Len(Response)
    BY DEF SendFrame
  <2>2. link \in LinkType
    BY DEF OthersOK
  <2> QED BY <2>1, <2>2, SizeAssumption, ResponseAssumption, LenProperties DEF LinkType
<1>2. uart' \in Seq(Byte)
  BY <1>1, FrameTyped DEF SendFrame
<1>3. link' \in LinkType
  <2>1. link' = [link EXCEPT !.sent = link.sent + n, !.payload = n]
    BY DEF SendFrame
  <2>2. link.sent + n \in 0..Len(Response)
    BY <1>1
  <2> QED BY <1>1, <2>1, <2>2 DEF LinkType
<1>4. ClientOK' /\ Unread' = Unread
  BY DEF SendFrame, clientVars, ClientOK, Unread
<1>5. OthersOK'
  BY <1>2, <1>3 DEF SendFrame, OthersOK, callerVars
<1> QED BY <1>4, <1>5 DEF Idles

LEMMA SendClosedOK ==
  ASSUME ClientOK, OthersOK, SendClosed
  PROVE  ClientOK' /\ OthersOK' /\ Idles
<1>1. uart' \in Seq(Byte)
  BY ClosedLineTyped DEF SendClosed
<1>2. link' \in LinkType
  BY DEF SendClosed, OthersOK, LinkType
<1>3. ClientOK' /\ Unread' = Unread
  BY DEF SendClosed, clientVars, ClientOK, Unread
<1>4. OthersOK'
  BY <1>1, <1>2 DEF SendClosed, OthersOK, callerVars
<1> QED BY <1>3, <1>4 DEF Idles

LEMMA LoseBytesOK ==
  ASSUME ClientOK, OthersOK, LoseBytes
  PROVE  ClientOK' /\ OthersOK' /\ Idles
<1>1. PICK k \in 1..Len(uart) : uart' = SubSeq(uart, k + 1, Len(uart))
  BY DEF LoseBytes
<1>2. uart' \in Seq(Byte)
  <2>1. uart \in Seq(Byte) /\ Len(uart) \in Nat
    BY LenProperties DEF OthersOK
  <2>2. k + 1 \in Nat \ {0} /\ Len(uart) \in 0..Len(uart)
    BY <2>1
  <2> QED BY <1>1, <2>1, <2>2, PieceTyped
<1>3. ClientOK' /\ Unread' = Unread
  BY DEF LoseBytes, clientVars, ClientOK, Unread
<1>4. OthersOK'
  BY <1>2 DEF LoseBytes, OthersOK, callerVars
<1> QED BY <1>3, <1>4 DEF Idles

-----------------------------------------------------------------------------
LEMMA InitOK == Init => ClientOK /\ OthersOK /\ BQ!BQInit
<1> SUFFICES ASSUME Init PROVE ClientOK /\ OthersOK /\ BQ!BQInit
  OBVIOUS
<1>1. /\ <<>> \in Seq(Byte) /\ <<>> \in Seq(Nat) /\ Len(<<>>) = 0
  BY EmptySeq
<1>2. /\ RxSize \in Nat /\ TxSize \in Nat /\ 0 \in 0..(LenMod - 1) /\ 0 < LineSize
      /\ 0 \in 0..Len(Response)
  BY SizeAssumption, ResponseAssumption, LenProperties DEF CLOSED
<1>3. /\ ipd \in IpdType /\ ipd.matchPos = 0 /\ ipd.state = "ScanForIpd"
      /\ line \in LineType /\ line.text = <<>>
      /\ rx \in RxType /\ rx.buf = <<>> /\ rx.head = 0
      /\ link \in LinkType
  BY <1>1, <1>2 DEF Init, NoFrame, EmptyLine, EmptyRx, IpdType, LineType, RxType, LinkType
<1>4. Unread = <<>>
  <2>1. Unread = SubSeq(<<>>, 0 + 1, Len(<<>>))
    BY <1>3 DEF Unread
  <2> QED BY <1>1, <2>1, AllUnread
<1>5. ClientOK
  <2>1. tx = <<>> /\ connected \in BOOLEAN
    BY DEF Init
  <2>2. tx \in Seq(Nat) /\ Len(tx) <= TxSize
    BY <1>1, <1>2, <2>1
  <2>3. Len(line.text) < LineSize /\ rx.head <= Len(rx.buf) /\ Len(rx.buf) <= RxSize
    BY <1>1, <1>2, <1>3
  <2>4. ipd.matchPos < IPD_PREFIX_LEN /\ ipd.state # "CopyPayload"
    BY <1>3 DEF IPD_PREFIX_LEN
  <2> QED BY <1>3, <2>1, <2>2, <2>3, <2>4 DEF ClientOK
<1>6. OthersOK
  BY <1>1, <1>3 DEF Init, OthersOK, NoData, ModemType
<1> QED BY <1>4, <1>5, <1>6 DEF BQ!BQInit

(* Every step keeps the invariant and is a step of the queue, or of none. *)
LEMMA StepOK ==
  ASSUME ClientOK, OthersOK, [Next]_vars
  PROVE  ClientOK' /\ OthersOK' /\ Idles
<1>1. CASE Connect
  BY <1>1, ConnectOK
<1>2. CASE Caller
  <2>1. CASE NothingAvailable
    BY <2>1, CompactOK DEF NothingAvailable
  <2>2. CASE CheckConnected
    <3>1. CASE Connected
      BY <2>2, <3>1, CompactOK DEF CheckConnected
    <3>2. CASE ~Connected
      BY <2>2, <3>2, StopOK DEF CheckConnected
    <3> QED BY <3>1, <3>2
  <2> QED BY <1>2, <2>1, <2>2, WriteOK, SendRequestOK DEF Caller
<1>3. CASE FeedByte
  BY <1>3, FeedByteOK
<1>4. CASE \E n \in 1..Len(Unread) : Read(n)
  BY <1>4, ReadOK
<1>5. CASE Stalled \/ Finish
  BY <1>5, StopOK DEF Stalled, Finish
<1>6. CASE \E n \in FrameSizes : SendFrame(n)
  BY <1>6, SendFrameOK
<1>7. CASE SendClosed \/ LoseBytes
  BY <1>7, SendClosedOK, LoseBytesOK
<1>8. CASE UNCHANGED vars
  <2>1. ClientOK' /\ Unread' = Unread
    BY <1>8 DEF vars, ClientOK, Unread
  <2>2. OthersOK'
    BY <1>8 DEF vars, OthersOK
  <2> QED BY <2>1, <2>2 DEF Idles
<1> QED BY <1>1, <1>2, <1>3, <1>4, <1>5, <1>6, <1>7, <1>8 DEF Next

(* The invariant holds in every state. *)
LEMMA Invariance == Spec => []IInv
<1>1. Init => IInv
  BY InitOK, Halves
<1>2. IInv /\ [Next]_vars => IInv'
  BY StepOK, Halves, HalvesPrimed
<1> QED BY <1>1, <1>2, PTL DEF Spec

(* The variables keep their types, and the counters their C++ widths. *)
THEOREM TypeCorrect == Spec => []TypeOK
BY Invariance, PTL DEF IInv

(* No index of the parser, the line or the two buffers leaves its array,   *)
(* and no unsigned difference or countdown goes below zero.                *)
THEOREM BoundsHold == Spec => []InBounds
BY Invariance, PTL DEF IInv

(* The receive buffer with its compactions is a queue of RX_BUF_SIZE       *)
(* bytes: a byte is lost only when that many wait unread, and what is read *)
(* is in order, for every stream and every interleaving of reads.          *)
THEOREM Implements == Spec => ImplementsByteQueue
<1>1. Init => BQ!BQInit
  BY InitOK
<1>2. IInv /\ [Next]_vars => [BQ!BQNext]_Unread
  BY StepOK, Halves DEF Idles
<1> QED BY <1>1, <1>2, Invariance, PTL DEF Spec, ImplementsByteQueue, BQ!BQSpec

-----------------------------------------------------------------------------
(* The bytes of a request, and zeros between them: in order, up to some    *)
(* position of it, from behind one on, and all before those of another.    *)
Ordered(s) == \A i, j \in DOMAIN s : i < j /\ s[i] # 0 /\ s[j] # 0 => s[i] < s[j]
UpTo(s, k) == \A i \in 1..Len(s) : s[i] <= k
Behind(s, k) == \A i \in 1..Len(s) : s[i] = 0 \/ s[i] > k
Precedes(s, t) ==
  \A i \in 1..Len(s), j \in 1..Len(t) : s[i] # 0 /\ t[j] # 0 => s[i] < t[j]

(* What the modem holds comes between what the server has and the rest.    *)
Holds(start) ==
  /\ Ordered(modem.held) /\ UpTo(modem.held, start) /\ Precedes(got, modem.held)

(* What is buffered and what is still to be written follow each other from *)
(* a multiple of the buffer's size on, and the server has nothing of them. *)
Follows(start) ==
  /\ start % TxSize = 0
  /\ \A i \in 1..Len(tx) : tx[i] = start + i
  /\ \A i \in 1..Len(todo) : todo[i] = start + Len(tx) + i
  /\ UpTo(got, start)

BInv ==
  /\ IInv
  /\ RequestInOrder
  /\ RequestInBlocks
  /\ prompted => modem = NoData
  /\ pc \in {"read", "check"} => todo = <<>>
  /\ \E start \in Nat : Follows(start) /\ Holds(start)

(* The remainder, as the integers define it. *)
LEMMA Remainder ==
  ASSUME NEW v \in Int, NEW n \in Int, n > 0
  PROVE  v % n = v - n * (v \div n)
OBVIOUS

(* Buffers begin at multiples of their size. *)
LEMMA NextMultiple ==
  ASSUME NEW n \in Nat \ {0}, NEW a \in Nat, a % n = 0
  PROVE  (a + n) % n = 0
<1> DEFINE q == a \div n
           p == (a + n) \div n
           r == (a + n) % n
<1>1. q \in Nat /\ p \in Nat /\ r \in 0..(n - 1) /\ 0 = a - n * q /\ r = (a + n) - n * p
  BY Remainder
<1> HIDE DEF q, p, r
<1>2. PICK d \in Int : d = q + 1 - p
  BY <1>1
<1>3. r = n * d
  <2>1. n * d = n * q + n - n * p
    BY <1>1, <1>2
  <2> QED BY <1>1, <2>1
<1>4. (d >= 1 => n * d >= n) /\ (d <= -1 => n * d <= -n)
  OBVIOUS
<1>5. d = 0
  BY <1>1, <1>3, <1>4
<1>6. r = 0
  BY <1>3, <1>5
<1> QED BY <1>6 DEF r

(* Nothing written, nothing got, and nothing held that counts. *)
LEMMA NothingWritten ==
  ASSUME tx' = <<>>, got' = <<>>, NEW size \in Nat,
         todo' = [i \in 1..size |-> i] \/ todo' = <<>>,
         modem' \in ModemType, \A i \in 1..Len(modem'.held) : modem'.held[i] = 0
  PROVE  /\ RequestInOrder' /\ RequestInBlocks'
         /\ \E start \in Nat : Follows(start)' /\ Holds(start)'
<1>1. 0 % TxSize = 0
  BY SizeAssumption
<1>2. Len(tx') = 0 /\ Len(got') = 0 /\ DOMAIN got' = {}
  OBVIOUS
<1>3. \A i \in 1..Len(todo') : todo'[i] = 0 + Len(tx') + i
  <2>1. CASE todo' = <<>>
    BY <2>1
  <2>2. CASE todo' = [i \in 1..size |-> i]
    <3>1. Len(todo') = size
      <4>1. [i \in 1..size |-> i] \in Seq(Nat)
        BY SeqDef
      <4>2. DOMAIN todo' = 1..Len(todo') /\ DOMAIN todo' = 1..size /\ Len(todo') \in Nat
        BY <2>2, <4>1, LenProperties
      <4>3. PICK l \in Nat : l = Len(todo') /\ 1..l = 1..size
        BY <4>2
      <4>4. ~(size < l)
        <5>1. l \in 1..l => l \in 1..size
          BY <4>3
        <5> QED BY <5>1
      <4>5. ~(l < size)
        <5>1. size \in 1..size => size \in 1..l
          BY <4>3
        <5> QED BY <5>1
      <4> QED BY <4>3, <4>4, <4>5
    <3> QED BY <1>2, <2>2, <3>1
  <2> QED BY <2>1, <2>2
<1>4. RequestInOrder' /\ RequestInBlocks'
  BY <1>2 DEF RequestInOrder, RequestInBlocks
<1>5. Follows(0)'
  BY <1>1, <1>2, <1>3 DEF Follows, UpTo
<1>6. Holds(0)'
  <2>1. DOMAIN modem'.held = 1..Len(modem'.held)
    BY LenProperties DEF ModemType
  <2> QED BY <1>2, <2>1 DEF Holds, Ordered, UpTo, Precedes
<1> QED BY <1>4, <1>5, <1>6

(* write() moves the next bytes of the request behind those in the buffer. *)
LEMMA WriteFollows ==
  ASSUME BInv, Write
  PROVE  \E start \in Nat : Follows(start)' /\ Holds(start)'
<1> DEFINE space == TxSize - Len(tx)
           n == IF Len(todo) > space THEN space ELSE Len(todo)
<1>1. /\ tx \in Seq(Nat) /\ todo \in Seq(Nat) /\ Len(tx) \in Nat /\ Len(todo) \in Nat
      /\ TxSize \in Nat /\ Len(tx) <= TxSize
  BY SizeAssumption, LenProperties DEF BInv, IInv, TypeOK, InBounds
<1>2. n \in 0..Len(todo) /\ n \in Nat
  BY <1>1
<1>3. /\ tx' = tx \o SubSeq(todo, 1, n) /\ todo' = SubSeq(todo, n + 1, Len(todo))
      /\ got' = got /\ modem' = modem
  BY DEF Write, modemVars
<1> HIDE DEF n
<1>4. PICK start \in Nat : Follows(start) /\ Holds(start)
  BY DEF BInv
<1>5. /\ SubSeq(todo, 1, n) \in Seq(Nat) /\ Len(SubSeq(todo, 1, n)) = n
      /\ \A i \in 1..n : SubSeq(todo, 1, n)[i] = todo[i]
  <2>1. 1 \in Nat \ {0}
    OBVIOUS
  <2>2. /\ SubSeq(todo, 1, n) \in Seq(Nat)
        /\ Len(SubSeq(todo, 1, n)) = IF 1 <= n THEN n - 1 + 1 ELSE 0
        /\ \A i \in 1..(n - 1 + 1) : SubSeq(todo, 1, n)[i] = todo[1 + i - 1]
    BY <1>1, <1>2, <2>1, PieceTyped
  <2> QED BY <1>2, <2>2
<1>6. /\ Len(todo') = Len(todo) - n
      /\ \A i \in 1..(Len(todo) - n) : todo'[i] = todo[n + i]
  <2>1. n + 1 \in Nat \ {0} /\ Len(todo) \in 0..Len(todo)
    BY <1>1, <1>2
  <2>2. /\ Len(todo') = IF n + 1 <= Len(todo) THEN Len(todo) - (n + 1) + 1 ELSE 0
        /\ \A i \in 1..(Len(todo) - (n + 1) + 1) : todo'[i] = todo[(n + 1) + i - 1]
    <3> DEFINE u == SubSeq(todo, n + 1, Len(todo))
    <3>1. /\ Len(u) = IF n + 1 <= Len(todo) THEN Len(todo) - (n + 1) + 1 ELSE 0
          /\ \A i \in 1..(Len(todo) - (n + 1) + 1) : u[i] = todo[(n + 1) + i - 1]
      BY <1>1, <2>1, PieceTyped
    <3> QED BY <1>3, <3>1
  <2> QED BY <1>1, <1>2, <2>2
<1>7. /\ Len(tx') = Len(tx) + n
      /\ \A i \in 1..Len(tx) : tx'[i] = tx[i]
      /\ \A i \in 1..n : tx'[Len(tx) + i] = todo[i]
  <2> DEFINE u == SubSeq(todo, 1, n)
  <2>1. u \in Seq(Nat) /\ Len(u) = n /\ \A i \in 1..n : u[i] = todo[i]
    BY <1>5
  <2>2. tx' = tx \o u
    BY <1>3
  <2> HIDE DEF u
  <2>3. /\ Len(tx \o u) = Len(tx) + Len(u)
        /\ \A i \in 1..(Len(tx) + Len(u)) :
             (tx \o u)[i] = IF i <= Len(tx) THEN tx[i] ELSE u[i - Len(tx)]
    BY <1>1, <2>1, ConcatProperties
  <2>4. ASSUME NEW i \in 1..n PROVE tx'[Len(tx) + i] = todo[i]
    <3>1. Len(tx) + i \in 1..(Len(tx) + Len(u)) /\ ~(Len(tx) + i <= Len(tx))
          /\ (Len(tx) + i) - Len(tx) = i
      BY <1>1, <1>2, <2>1
    <3> QED BY <2>1, <2>2, <2>3, <3>1
  <2>5. ASSUME NEW i \in 1..Len(tx) PROVE tx'[i] = tx[i]
    <3>1. i \in 1..(Len(tx) + Len(u)) /\ i <= Len(tx)
      BY <1>1, <1>2, <2>1
    <3> QED BY <2>2, <2>3, <3>1
  <2> QED BY <2>1, <2>2, <2>3, <2>4, <2>5
<1>8. \A i \in 1..Len(tx') : tx'[i] = start + i
  <2> SUFFICES ASSUME NEW i \in 1..Len(tx') PROVE tx'[i] = start + i
    OBVIOUS
  <2>1. CASE i <= Len(tx)
    <3>1. i \in 1..Len(tx)
      BY <1>1, <1>2, <1>7, <2>1
    <3> QED BY <1>4, <1>7, <3>1 DEF Follows
  <2>2. CASE ~(i <= Len(tx))
    <3>1. i - Len(tx) \in 1..n /\ i - Len(tx) \in 1..Len(todo) /\ Len(tx) + (i - Len(tx)) = i
      BY <1>1, <1>2, <1>7, <2>2
    <3>2. tx'[i] = todo[i - Len(tx)]
      BY <1>7, <3>1
    <3>3. todo[i - Len(tx)] = start + Len(tx) + (i - Len(tx))
      BY <1>4, <3>1 DEF Follows
    <3> QED BY <1>1, <3>2, <3>3
  <2> QED BY <2>1, <2>2
<1>9. \A i \in 1..Len(todo') : todo'[i] = start + Len(tx') + i
  <2> SUFFICES ASSUME NEW i \in 1..Len(todo') PROVE todo'[i] = start + Len(tx') + i
    OBVIOUS
  <2>1. i \in 1..(Len(todo) - n) /\ n + i \in 1..Len(todo) /\ i \in Nat
    BY <1>1, <1>2, <1>6
  <2>2. todo'[i] = todo[n + i] /\ todo[n + i] = start + Len(tx) + (n + i)
    BY <1>4, <1>6, <2>1 DEF Follows
  <2> QED BY <1>1, <1>2, <1>7, <2>1, <2>2
<1>10. Follows(start)'
  BY <1>3, <1>4, <1>8, <1>9 DEF Follows, UpTo
<1>11. Holds(start)'
  BY <1>3, <1>4 DEF Holds, Precedes, UpTo, Ordered
<1> QED BY <1>10, <1>11

(* With every prompt seen, a whole buffer, or the end of the request, is   *)
(* sent or lost at once.                                                   *)
LEMMA WholeBuffers ==
  ASSUME BInv, NEW start \in Nat, Follows(start), RequestInBlocks, prompted,
         got' = got \o tx \/ got' = got
  PROVE  RequestInBlocks'
<1>1. /\ tx \in Seq(Nat) /\ got \in Seq(Nat)
      /\ Len(tx) \in Nat /\ Len(got) \in Nat /\ TxSize \in Nat \ {0}
  BY SizeAssumption, LenProperties DEF BInv, IInv, TypeOK, InBounds
<1>2. Follows(start)
  OBVIOUS
<1>3. got' = got \o tx \/ got' = got
  OBVIOUS
<1>4. /\ Len(got \o tx) = Len(got) + Len(tx)
      /\ \A i \in 1..(Len(got) + Len(tx)) :
           (got \o tx)[i] = IF i <= Len(got) THEN got[i] ELSE tx[i - Len(got)]
      /\ got \o tx \in Seq(Nat)
  BY <1>1, ConcatProperties
<1>5. \A i \in 1..(Len(got) + Len(tx)) :
        (got \o tx)[i] = IF i <= Len(got) THEN got[i] ELSE start + (i - Len(got))
  <2> SUFFICES ASSUME NEW i \in 1..(Len(got) + Len(tx)), ~(i <= Len(got))
               PROVE  tx[i - Len(got)] = start + (i - Len(got))
    BY <1>4
  <2>1. i - Len(got) \in 1..Len(tx)
    BY <1>1
  <2> QED BY <1>2, <2>1 DEF Follows
<1>6. RequestInBlocks'
  <2>1. CASE got' = got
    BY <2>1 DEF BInv, RequestInBlocks
  <2>2. CASE got' = got \o tx
    <3> SUFFICES ASSUME NEW i \in DOMAIN got'
                 PROVE  LET before == IF i = 1 THEN 0 ELSE got'[i - 1]
                        IN \/ got'[i] = before + 1
                           \/ got'[i] > before /\ (got'[i] - 1) % TxSize = 0
      BY DEF RequestInBlocks
    <3>1. i \in 1..(Len(got) + Len(tx))
      BY <1>4, <2>2, LenProperties
    <3>2. CASE i <= Len(got)
      <4>1. i \in DOMAIN got /\ got'[i] = got[i]
        BY <1>1, <1>5, <2>2, <3>1, <3>2, LenProperties
      <4>2. i # 1 => got'[i - 1] = got[i - 1]
        <5>1. i # 1 => i - 1 \in 1..(Len(got) + Len(tx)) /\ i - 1 <= Len(got)
          BY <1>1, <3>1, <3>2
        <5> QED BY <1>5, <2>2, <5>1
      <4> QED BY <4>1, <4>2 DEF BInv, RequestInBlocks
    <3>3. CASE i = Len(got) + 1
      <4>1. got'[i] = start + 1
        <5>1. ~(i <= Len(got)) /\ i - Len(got) = 1
          BY <1>1, <3>3
        <5>2. got'[i] = start + (i - Len(got))
          BY <1>5, <2>2, <3>1, <5>1
        <5> QED BY <5>1, <5>2
      <4>2. (start + 1) - 1 = start /\ start % TxSize = 0 /\ start + 1 > 0
        BY <1>2 DEF Follows
      <4>3. i # 1 => got'[i - 1] <= start /\ got'[i - 1] \in Nat
        <5>1. i # 1 => i - 1 \in 1..Len(got) /\ i - 1 \in 1..(Len(got) + Len(tx)) /\ i - 1 <= Len(got)
          BY <1>1, <3>1, <3>3
        <5>2. i # 1 => got'[i - 1] = got[i - 1] /\ got[i - 1] \in Nat
          BY <1>1, <1>5, <2>2, <5>1, ElementOfSeq
        <5>3. UpTo(got, start)
          BY <1>2 DEF Follows
        <5> QED BY <5>1, <5>2, <5>3 DEF UpTo
      <4>4. i # 1 => start + 1 > got'[i - 1]
        BY <4>3
      <4> QED BY <4>1, <4>2, <4>4
    <3>4. CASE i > Len(got) + 1
      <4>1. i # 1 /\ i - 1 \in 1..(Len(got) + Len(tx)) /\ ~(i - 1 <= Len(got)) /\ ~(i <= Len(got))
        BY <1>1, <3>1, <3>4
      <4>2. got'[i] = start + (i - Len(got)) /\ got'[i - 1] = start + ((i - 1) - Len(got))
        BY <1>5, <2>2, <3>1, <4>1
      <4>3. start + (i - Len(got)) = (start + ((i - 1) - Len(got))) + 1
        BY <1>1, <3>1
      <4> QED BY <4>1, <4>2, <4>3
    <3> QED BY <1>1, <3>1, <3>2, <3>3, <3>4
  <2> QED BY <1>3, <2>1, <2>2
<1> QED BY <1>6

(* Sequences of request bytes, joined. *)
LEMMA Joined ==
  ASSUME NEW s \in Seq(Nat), NEW t \in Seq(Nat)
  PROVE  /\ s \o t \in Seq(Nat)
         /\ Len(s) \in Nat /\ Len(t) \in Nat /\ Len(s \o t) = Len(s) + Len(t)
         /\ DOMAIN (s \o t) = 1..(Len(s) + Len(t))
         /\ DOMAIN s = 1..Len(s) /\ DOMAIN t = 1..Len(t)
         /\ \A i \in 1..(Len(s) + Len(t)) : (s \o t)[i] = IF i <= Len(s) THEN s[i] ELSE t[i - Len(s)]
         /\ \A i \in 1..Len(s) : s[i] \in Nat
         /\ \A i \in 1..Len(t) : t[i] \in Nat
<1>1. s \o t \in Seq(Nat) /\ Len(s \o t) = Len(s) + Len(t)
  BY ConcatProperties
<1>2. /\ Len(s) \in Nat /\ Len(t) \in Nat /\ DOMAIN s = 1..Len(s) /\ DOMAIN t = 1..Len(t)
      /\ DOMAIN (s \o t) = 1..Len(s \o t)
  BY <1>1, LenProperties
<1> QED BY <1>1, <1>2, ConcatProperties, ElementOfSeq

LEMMA JoinedOrdered ==
  ASSUME NEW s \in Seq(Nat), NEW t \in Seq(Nat), Ordered(s), Ordered(t), Precedes(s, t)
  PROVE  Ordered(s \o t)
<1> DEFINE u == s \o t
<1>1. /\ Len(s) \in Nat /\ Len(t) \in Nat /\ DOMAIN u = 1..(Len(s) + Len(t))
      /\ DOMAIN s = 1..Len(s) /\ DOMAIN t = 1..Len(t)
      /\ \A i \in 1..(Len(s) + Len(t)) : u[i] = IF i <= Len(s) THEN s[i] ELSE t[i - Len(s)]
  BY Joined
<1> HIDE DEF u
<1> SUFFICES ASSUME NEW i \in 1..(Len(s) + Len(t)), NEW j \in 1..(Len(s) + Len(t)),
                    i < j, u[i] # 0, u[j] # 0
             PROVE  u[i] < u[j]
  BY <1>1 DEF Ordered, u
<1>2. CASE j <= Len(s)
  <2>1. i \in DOMAIN s /\ j \in DOMAIN s /\ u[i] = s[i] /\ u[j] = s[j]
    BY <1>1, <1>2
  <2> QED BY <2>1 DEF Ordered
<1>3. CASE i <= Len(s) /\ ~(j <= Len(s))
  <2>1. i \in 1..Len(s) /\ j - Len(s) \in 1..Len(t) /\ u[i] = s[i] /\ u[j] = t[j - Len(s)]
    BY <1>1, <1>3
  <2> QED BY <2>1 DEF Precedes
<1>4. CASE ~(i <= Len(s))
  <2>1. /\ i - Len(s) \in DOMAIN t /\ j - Len(s) \in DOMAIN t /\ i - Len(s) < j - Len(s)
        /\ u[i] = t[i - Len(s)] /\ u[j] = t[j - Len(s)]
    BY <1>1, <1>4
  <2> QED BY <2>1 DEF Ordered
<1> QED BY <1>1, <1>2, <1>3, <1>4

LEMMA JoinedUpTo ==
  ASSUME NEW s \in Seq(Nat), NEW t \in Seq(Nat), NEW k \in Nat, UpTo(s, k), UpTo(t, k)
  PROVE  UpTo(s \o t, k)
<1>1. /\ Len(s) \in Nat /\ Len(t) \in Nat /\ Len(s \o t) = Len(s) + Len(t)
      /\ \A i \in 1..(Len(s) + Len(t)) : (s \o t)[i] = IF i <= Len(s) THEN s[i] ELSE t[i - Len(s)]
  BY Joined
<1> SUFFICES ASSUME NEW i \in 1..(Len(s) + Len(t)) PROVE (s \o t)[i] <= k
  BY <1>1 DEF UpTo
<1>2. i <= Len(s) => i \in 1..Len(s)
  BY <1>1
<1>3. ~(i <= Len(s)) => i - Len(s) \in 1..Len(t)
  BY <1>1
<1> QED BY <1>1, <1>2, <1>3 DEF UpTo

(* What precedes two pieces precedes them joined. *)
LEMMA JoinedPrecedes ==
  ASSUME NEW r \in Seq(Nat), NEW s \in Seq(Nat), NEW t \in Seq(Nat),
         Precedes(r, s), Precedes(r, t)
  PROVE  Precedes(r, s \o t)
<1>1. /\ Len(s) \in Nat /\ Len(t) \in Nat /\ Len(s \o t) = Len(s) + Len(t)
      /\ \A i \in 1..(Len(s) + Len(t)) : (s \o t)[i] = IF i <= Len(s) THEN s[i] ELSE t[i - Len(s)]
  BY Joined
<1> SUFFICES ASSUME NEW i \in 1..Len(r), NEW j \in 1..(Len(s) + Len(t)),
                    r[i] # 0, (s \o t)[j] # 0
             PROVE  r[i] < (s \o t)[j]
  BY <1>1 DEF Precedes
<1>2. j <= Len(s) => j \in 1..Len(s)
  BY <1>1
<1>3. ~(j <= Len(s)) => j - Len(s) \in 1..Len(t)
  BY <1>1
<1> QED BY <1>1, <1>2, <1>3 DEF Precedes

(* What ends at a position precedes what begins behind it. *)
LEMMA UpToPrecedes ==
  ASSUME NEW s \in Seq(Nat), NEW t \in Seq(Nat), NEW k \in Nat, UpTo(s, k), Behind(t, k)
  PROVE  Precedes(s, t)
<1> SUFFICES ASSUME NEW i \in 1..Len(s), NEW j \in 1..Len(t), s[i] # 0, t[j] # 0
             PROVE  s[i] < t[j]
  BY DEF Precedes
<1>1. s[i] \in Nat /\ t[j] \in Nat
  BY Joined
<1> QED BY <1>1 DEF UpTo, Behind

(* The first bytes of an ordered piece. *)
LEMMA FirstBytes ==
  ASSUME NEW s \in Seq(Nat), NEW n \in 0..Len(s), NEW k \in Nat, NEW m \in Nat,
         Ordered(s), Behind(s, k), UpTo(s, m)
  PROVE  LET p == SubSeq(s, 1, n)
         IN p \in Seq(Nat) /\ Ordered(p) /\ Behind(p, k) /\ UpTo(p, m)
<1> DEFINE p == SubSeq(s, 1, n)
<1>1. n \in Nat /\ Len(s) \in Nat /\ n <= Len(s) /\ DOMAIN s = 1..Len(s)
  BY LenProperties
<1>2. p \in Seq(Nat) /\ Len(p) = n /\ \A i \in 1..n : p[i] = s[i]
  <2>1. 1 \in Nat \ {0}
    OBVIOUS
  <2>2. /\ p \in Seq(Nat) /\ Len(p) = IF 1 <= n THEN n - 1 + 1 ELSE 0
        /\ \A i \in 1..(n - 1 + 1) : p[i] = s[1 + i - 1]
    BY <2>1, PieceTyped
  <2> QED BY <1>1, <2>2
<1> HIDE DEF p
<1>3. DOMAIN p = 1..n /\ 1..n \subseteq 1..Len(s)
  BY <1>1, <1>2, LenProperties
<1>4. Ordered(p)
  <2> SUFFICES ASSUME NEW i \in 1..n, NEW j \in 1..n, i < j, p[i] # 0, p[j] # 0
               PROVE  p[i] < p[j]
    BY <1>3 DEF Ordered
  <2>1. i \in DOMAIN s /\ j \in DOMAIN s /\ p[i] = s[i] /\ p[j] = s[j]
    BY <1>1, <1>2, <1>3
  <2> QED BY <2>1 DEF Ordered
<1>5. Behind(p, k) /\ UpTo(p, m)
  BY <1>2, <1>3 DEF Behind, UpTo
<1> QED BY <1>2, <1>4, <1>5 DEF p

(* The modem keeps what it is sent in order, and passes it on in order.    *)
LEMMA PassedInOrder ==
  ASSUME NEW m \in ModemType, NEW bytes \in Seq(Nat), NEW start \in Nat, NEW next \in Nat,
         got \in Seq(Nat), start <= next,
         Ordered(got), UpTo(got, start),
         Ordered(m.held), UpTo(m.held, start), Precedes(got, m.held),
         Ordered(bytes), Behind(bytes, start), UpTo(bytes, next),
         NEW g, g = got \/ g = got \o Passed(m, bytes)
  PROVE  /\ Ordered(g) /\ UpTo(g, next)
         /\ Ordered(After(m, bytes).held) /\ UpTo(After(m, bytes).held, next)
         /\ Precedes(g, After(m, bytes).held)
<1>1. m.wants \in Nat /\ m.held \in Seq(Nat) /\ Len(bytes) \in Nat
  BY LenProperties DEF ModemType
<1>2. \A s \in Seq(Nat) : UpTo(s, start) => UpTo(s, next)
  <2> SUFFICES ASSUME NEW s \in Seq(Nat), UpTo(s, start), NEW i \in 1..Len(s) PROVE s[i] <= next
    BY DEF UpTo
  <2>1. s[i] \in Nat
    BY ElementOfSeq
  <2> QED BY <2>1 DEF UpTo
<1>3. CASE Len(bytes) >= m.wants
  <2> DEFINE p == SubSeq(bytes, 1, m.wants)
  <2>1. p \in Seq(Nat) /\ Ordered(p) /\ Behind(p, start) /\ UpTo(p, next)
    <3>1. m.wants \in 0..Len(bytes)
      BY <1>1, <1>3
    <3> QED BY <3>1, FirstBytes
  <2>2. Passed(m, bytes) = m.held \o p
    BY <1>3 DEF Passed
  <2> HIDE DEF p
  <2>3. m.held \o p \in Seq(Nat) /\ Ordered(m.held \o p) /\ UpTo(m.held \o p, next)
    BY <1>1, <1>2, <2>1, Joined, UpToPrecedes, JoinedOrdered, JoinedUpTo
  <2>4. Precedes(got, m.held \o p)
    BY <1>1, <2>1, UpToPrecedes, JoinedPrecedes
  <2>5. Ordered(got \o (m.held \o p)) /\ UpTo(got \o (m.held \o p), next)
    BY <1>2, <2>3, <2>4, JoinedOrdered, JoinedUpTo
  <2>6. Ordered(g) /\ UpTo(g, next)
    BY <1>2, <2>2, <2>5
  <2>7. After(m, bytes).held = <<>>
    BY <1>3 DEF After, NoData
  <2>8. Ordered(<<>>) /\ UpTo(<<>>, next) /\ Precedes(g, <<>>)
    BY DEF Ordered, UpTo, Precedes
  <2> QED BY <2>6, <2>7, <2>8
<1>4. CASE ~(Len(bytes) >= m.wants)
  <2>1. After(m, bytes).held = m.held \o bytes /\ Passed(m, bytes) = <<>>
    BY <1>4 DEF After, Passed
  <2>2. got \o <<>> = got
    BY ConcatEmptySeq
  <2>3. g = got
    BY <2>1, <2>2
  <2>4. Precedes(m.held, bytes) /\ Precedes(got, bytes)
    BY <1>1, UpToPrecedes
  <2>5. /\ Ordered(m.held \o bytes) /\ UpTo(m.held \o bytes, next)
        /\ Precedes(got, m.held \o bytes)
    BY <1>1, <1>2, <2>4, JoinedOrdered, JoinedUpTo, JoinedPrecedes
  <2> QED BY <1>2, <2>1, <2>3, <2>5
<1> QED BY <1>3, <1>4

(* What is written to the modem of a buffer, with the command before it. *)
LEMMA BytesInOrder ==
  ASSUME tx \in Seq(Nat), Len(tx) <= TxSize, NEW start \in Nat, Follows(start),
         NEW prompts \in BOOLEAN, NEW found \in BOOLEAN,
         NEW lost \in 0..Len(tx), NEW size \in CmdSizes,
         NEW bytes, bytes = Bytes(prompts, found, lost, size)
  PROVE  /\ bytes \in Seq(Nat) /\ Ordered(bytes)
         /\ Behind(bytes, start) /\ UpTo(bytes, start + TxSize)
<1> DEFINE w == Written(found, lost)
<1>1. /\ Len(tx) \in Nat /\ TxSize \in Nat /\ size \in Nat /\ lost \in Nat /\ lost <= Len(tx)
      /\ start + TxSize \in Nat
  BY SizeAssumption, LenProperties
<1>2. /\ w \in Seq(Nat) /\ Len(w) \in Nat /\ Len(w) <= TxSize - lost
      /\ \A i \in 1..Len(w) : w[i] = start + lost + i
  <2>1. CASE found
    <3> DEFINE v == SubSeq(tx, lost + 1, Len(tx))
    <3>1. lost + 1 \in Nat \ {0} /\ Len(tx) \in 0..Len(tx)
      BY <1>1
    <3>2. /\ v \in Seq(Nat)
          /\ Len(v) = IF lost + 1 <= Len(tx) THEN Len(tx) - (lost + 1) + 1 ELSE 0
          /\ \A i \in 1..(Len(tx) - (lost + 1) + 1) : v[i] = tx[(lost + 1) + i - 1]
      BY <3>1, PieceTyped
    <3>3. w = v
      BY <2>1 DEF Written
    <3> HIDE DEF v, w
    <3>4. Len(v) = Len(tx) - lost
      BY <1>1, <3>2
    <3>5. ASSUME NEW i \in 1..Len(v) PROVE v[i] = start + lost + i
      <4>1. i \in 1..(Len(tx) - (lost + 1) + 1) /\ (lost + 1) + i - 1 = lost + i
            /\ lost + i \in 1..Len(tx)
        BY <1>1, <3>4
      <4>2. v[i] = tx[lost + i] /\ tx[lost + i] = start + (lost + i)
        BY <3>2, <4>1 DEF Follows
      <4> QED BY <1>1, <4>1, <4>2
    <3> QED BY <1>1, <3>2, <3>3, <3>4, <3>5
  <2>2. CASE ~found
    <3>1. w = <<>> /\ <<>> \in Seq(Nat) /\ Len(<<>>) = 0
      BY <2>2, EmptySeq DEF Written
    <3> QED BY <1>1, <3>1
  <2> QED BY <2>1, <2>2
<1> HIDE DEF w
<1>3. Ordered(w) /\ Behind(w, start) /\ UpTo(w, start + TxSize)
  <2>1. DOMAIN w = 1..Len(w)
    BY <1>2, LenProperties
  <2> QED BY <1>1, <1>2, <2>1 DEF Ordered, Behind, UpTo
<1>4. CASE prompts
  BY <1>2, <1>3, <1>4 DEF Bytes, w
<1>5. CASE ~prompts
  <2> DEFINE c == Command(size)
  <2>1. c \in Seq(Nat) /\ Len(c) = size /\ \A i \in 1..size : c[i] = 0
    BY <1>1, CommandTyped
  <2> HIDE DEF c
  <2>2. Ordered(c) /\ UpTo(c, start + TxSize) /\ Precedes(c, w)
    <3>1. DOMAIN c = 1..size
      BY <2>1, LenProperties
    <3> QED BY <1>1, <2>1, <3>1 DEF Ordered, UpTo, Precedes
  <2>3. c \o w \in Seq(Nat) /\ Ordered(c \o w) /\ UpTo(c \o w, start + TxSize)
    BY <1>1, <1>2, <1>3, <2>1, <2>2, Joined, JoinedOrdered, JoinedUpTo
  <2>4. Behind(c \o w, start)
    <3>1. /\ Len(c \o w) = size + Len(w)
          /\ \A i \in 1..(size + Len(w)) : (c \o w)[i] = IF i <= size THEN c[i] ELSE w[i - size]
      BY <1>2, <2>1, Joined
    <3> SUFFICES ASSUME NEW i \in 1..(size + Len(w))
                 PROVE  (c \o w)[i] = 0 \/ (c \o w)[i] > start
      BY <3>1 DEF Behind
    <3>2. i <= size => i \in 1..size
      BY <1>1
    <3>3. ~(i <= size) => i - size \in 1..Len(w)
      BY <1>1, <1>2
    <3> QED BY <1>3, <2>1, <3>1, <3>2, <3>3 DEF Behind
  <2>5. bytes = c \o w
    BY <1>5 DEF Bytes, c, w
  <2> QED BY <2>3, <2>4, <2>5
<1> QED BY <1>4, <1>5

(* A prompt that is seen is followed by all of the buffer. *)
LEMMA Prompted ==
  ASSUME tx \in Seq(Nat), modem \in ModemType, prompted => modem = NoData,
         NEW prompts \in BOOLEAN, NEW found \in BOOLEAN,
         NEW lost \in 0..Len(tx), NEW size \in CmdSizes,
         got \in Seq(Nat), NEW before, before = Waiting(prompts),
         NEW bytes, bytes = Bytes(prompts, found, lost, size),
         CipSend(prompts, found, lost, before, bytes), prompted'
  PROVE  prompted /\ modem' = NoData /\ (got' = got \/ got' = got \o tx)
<1>1. prompted /\ (found <=> prompts) /\ lost = 0
  BY DEF CipSend
<1>2. /\ modem' = After(before, bytes) /\ bytes \in Seq(Nat)
      /\ got' = got \/ got' = got \o Passed(before, bytes)
  BY DEF CipSend
<1>3. Len(tx) \in Nat /\ Len(bytes) \in Nat
  BY <1>2, LenProperties
<1>4. CASE prompts
  <2>1. before = [wants |-> Len(tx), held |-> <<>>]
    BY <1>4 DEF Waiting
  <2>2. bytes = tx
    <3>1. bytes = SubSeq(tx, 0 + 1, Len(tx))
      BY <1>1, <1>4 DEF Bytes, Written
    <3>2. SubSeq(tx, 1, Len(tx)) = tx
      BY SubSeqFull
    <3> QED BY <3>1, <3>2
  <2>3. After(before, bytes) = NoData
    BY <1>3, <2>1, <2>2 DEF After
  <2>4. Passed(before, bytes) = <<>> \o SubSeq(tx, 1, Len(tx))
    BY <1>3, <2>1, <2>2 DEF Passed
  <2>5. <<>> \o SubSeq(tx, 1, Len(tx)) = tx
    <3>1. SubSeq(tx, 1, Len(tx)) = tx
      BY SubSeqFull
    <3> QED BY <3>1, ConcatEmptySeq
  <2> QED BY <1>1, <1>2, <2>3, <2>4, <2>5
<1>5. CASE ~prompts
  <2>1. before = NoData /\ before.wants = 0 /\ before.held = <<>>
    BY <1>1, <1>5 DEF Waiting, NoData
  <2>2. After(before, bytes) = NoData
    BY <1>3, <2>1 DEF After
  <2>3. Passed(before, bytes) = <<>> \o SubSeq(bytes, 1, 0)
    BY <1>3, <2>1 DEF Passed
  <2>4. SubSeq(bytes, 1, 0) = <<>> /\ <<>> \o <<>> = <<>> /\ got \o <<>> = got
    BY <1>2, SubSeqEmpty, ConcatEmptySeq, EmptySeq
  <2> QED BY <1>1, <1>2, <2>2, <2>3, <2>4
<1> QED BY <1>4, <1>5

(* The request stays in order whatever the modem makes of an exchange. *)
LEMMA SendFollows ==
  ASSUME BInv, SendRequest
  PROVE  /\ RequestInOrder' /\ RequestInBlocks' /\ (prompted => modem = NoData)'
         /\ \E start \in Nat : Follows(start)' /\ Holds(start)'
<1>1. /\ tx \in Seq(Nat) /\ got \in Seq(Nat) /\ todo \in Seq(Nat)
      /\ Len(tx) \in Nat /\ Len(got) \in Nat /\ Len(todo) \in Nat
      /\ TxSize \in Nat \ {0} /\ Len(tx) <= TxSize
      /\ modem \in ModemType
  BY SizeAssumption, LenProperties DEF BInv, IInv, TypeOK, InBounds, ModemType
<1>2. PICK start \in Nat : Follows(start) /\ Holds(start)
  BY DEF BInv
<1>3. /\ tx' = <<>> /\ todo' = todo /\ pc' = pc /\ Exchange
      /\ Len(tx) = TxSize \/ todo = <<>>
  BY DEF SendRequest, callerVars, BInv
<1>4. PICK prompts \in BOOLEAN, found \in BOOLEAN, lost \in 0..Len(tx), size \in CmdSizes :
        CipSend(prompts, found, lost, Waiting(prompts), Bytes(prompts, found, lost, size))
  BY <1>3, ExchangeOK, Halves DEF BInv
<1>5. PICK before, bytes : before = Waiting(prompts) /\ bytes = Bytes(prompts, found, lost, size)
  OBVIOUS
<1>6. CipSend(prompts, found, lost, before, bytes)
  BY <1>4, <1>5
<1>7. /\ bytes \in Seq(Nat) /\ Ordered(bytes)
      /\ Behind(bytes, start) /\ UpTo(bytes, start + TxSize)
  BY <1>1, <1>2, <1>5, BytesInOrder
<1>8. start + TxSize \in Nat /\ start <= start + TxSize
  BY <1>1
<1>9. /\ before \in ModemType
      /\ Ordered(before.held) /\ UpTo(before.held, start) /\ Precedes(got, before.held)
  <2>1. before \in ModemType
    BY <1>6 DEF CipSend
  <2>2. CASE prompts
    <3>1. before.held = <<>>
      BY <1>5, <2>2 DEF Waiting
    <3> QED BY <2>1, <3>1 DEF Ordered, UpTo, Precedes
  <2>3. CASE ~prompts
    <3>1. before = modem
      BY <1>5, <2>3 DEF Waiting
    <3> QED BY <1>2, <2>1, <3>1 DEF Holds
  <2> QED BY <2>2, <2>3
<1>10. /\ modem' = After(before, bytes)
       /\ got' = got \/ got' = got \o Passed(before, bytes)
  BY <1>6 DEF CipSend
<1>11. Ordered(got) /\ UpTo(got, start)
  BY <1>2 DEF BInv, RequestInOrder, Ordered, Follows
<1>12. /\ Ordered(got') /\ UpTo(got', start + TxSize)
       /\ Ordered(modem'.held) /\ UpTo(modem'.held, start + TxSize)
       /\ Precedes(got', modem'.held)
  BY <1>1, <1>2, <1>7, <1>8, <1>9, <1>10, <1>11, PassedInOrder
<1>13. prompted' => prompted /\ modem' = NoData /\ (got' = got \/ got' = got \o tx)
  BY <1>1, <1>5, <1>6, Prompted DEF BInv
<1>14. RequestInBlocks'
  <2>1. CASE prompted'
    BY <1>2, <1>13, <2>1, WholeBuffers DEF BInv
  <2>2. CASE ~prompted'
    BY <2>2 DEF RequestInBlocks
  <2> QED BY <2>1, <2>2
<1>15. Follows(start + TxSize)'
  <2>1. (start + TxSize) % TxSize = 0
    BY <1>1, <1>2, NextMultiple DEF Follows
  <2>2. Len(tx') = 0
    BY <1>3
  <2>3. \A i \in 1..Len(todo') : todo'[i] = (start + TxSize) + Len(tx') + i
    <3>1. CASE todo = <<>>
      BY <1>3, <3>1
    <3>2. CASE Len(tx) = TxSize
      <4> SUFFICES ASSUME NEW i \in 1..Len(todo) PROVE todo[i] = (start + TxSize) + 0 + i
        BY <1>3, <2>2
      <4>1. todo[i] = start + Len(tx) + i
        BY <1>2 DEF Follows
      <4> QED BY <1>1, <3>2, <4>1
    <3> QED BY <1>3, <3>1, <3>2
  <2> QED BY <1>12, <2>1, <2>2, <2>3 DEF Follows, UpTo
<1>16. Holds(start + TxSize)'
  BY <1>12 DEF Holds, Ordered, UpTo, Precedes
<1>17. RequestInOrder'
  BY <1>12 DEF RequestInOrder, Ordered
<1> QED BY <1>8, <1>13, <1>14, <1>15, <1>16, <1>17

(* The other steps leave the request alone, or forget it. *)
LEMMA BlocksStep == BInv /\ [Next]_vars => BInv'
<1> SUFFICES ASSUME BInv, [Next]_vars PROVE BInv'
  OBVIOUS
<1>0. IInv'
  BY StepOK, Halves, HalvesPrimed DEF BInv
<1>m. modem \in ModemType
  BY DEF BInv, IInv, TypeOK, ModemType
<1>1. CASE /\ UNCHANGED <<tx, todo, got, modem, prompted>>
           /\ pc' = pc \/ (pc \in {"read", "check"} /\ pc' \in {"read", "check"})
  <2>1. PICK start \in Nat : Follows(start) /\ Holds(start)
    BY DEF BInv
  <2>2. Follows(start)' /\ Holds(start)'
    BY <1>1, <2>1 DEF Follows, Holds, UpTo, Ordered, Precedes
  <2>3. RequestInOrder' /\ RequestInBlocks' /\ (prompted' => modem' = NoData)
    BY <1>1 DEF BInv, RequestInOrder, RequestInBlocks
  <2> QED BY <1>0, <1>1, <2>2, <2>3 DEF BInv
<1>2. CASE Connect
  <2>1. PICK size \in Requests, n1 \in CmdSizes, n2 \in CmdSizes :
          /\ tx' = <<>> /\ got' = <<>> /\ pc' \in {"write", "idle"}
          /\ todo' = [i \in 1..size |-> i] \/ todo' = <<>>
          /\ modem' = Interrupted(Interrupted(modem, n1), n2)
          /\ prompted' = (modem' = NoData)
    BY <1>2 DEF Connect, Reset
  <2>2. size \in Nat
    BY SizeAssumption
  <2>3. modem' \in ModemType /\ \A i \in 1..Len(modem'.held) : modem'.held[i] = 0
    BY <1>m, <2>1, InterruptedTyped
  <2> QED BY <1>0, <2>1, <2>2, <2>3, NothingWritten DEF BInv
<1>3. CASE Stop
  <2>1. PICK n \in CmdSizes :
          /\ tx' = <<>> /\ got' = <<>> /\ todo' = <<>> /\ pc' = "idle"
          /\ modem' = Interrupted(modem, n) /\ prompted' = FALSE
    BY <1>3 DEF Stop, Reset
  <2>2. modem' \in ModemType /\ \A i \in 1..Len(modem'.held) : modem'.held[i] = 0
    BY <1>m, <2>1, InterruptedTyped
  <2> QED BY <1>0, <2>1, <2>2, NothingWritten DEF BInv
<1>4. CASE Write
  <2>1. pc' = "read" => todo' = <<>>
    BY <1>4 DEF Write
  <2>2. pc' \in {"read", "write"} /\ got' = got /\ prompted' = prompted /\ modem' = modem
    BY <1>4 DEF Write, modemVars
  <2>3. RequestInOrder' /\ RequestInBlocks' /\ (prompted' => modem' = NoData)
    BY <2>2 DEF BInv, RequestInOrder, RequestInBlocks
  <2> QED BY <1>0, <1>4, <2>1, <2>2, <2>3, WriteFollows DEF BInv
<1>5. CASE SendRequest
  BY <1>0, <1>5, SendFollows DEF BInv, SendRequest, callerVars
<1>6. CASE FeedByte \/ (\E n \in FrameSizes : SendFrame(n)) \/ SendClosed \/ LoseBytes \/ UNCHANGED vars
  BY <1>1, <1>6 DEF FeedByte, SendFrame, SendClosed, LoseBytes, vars, clientVars, callerVars
<1>7. CASE (\E n \in 1..Len(Unread) : Read(n)) \/ NothingAvailable \/ (CheckConnected /\ Connected)
  BY <1>1, <1>7 DEF Read, NothingAvailable, CheckConnected, modemVars
<1>8. CASE Stalled \/ Finish \/ (CheckConnected /\ ~Connected)
  BY <1>3, <1>8 DEF Stalled, Finish, CheckConnected
<1> QED BY <1>2, <1>4, <1>5, <1>6, <1>7, <1>8 DEF Next, Caller

LEMMA RequestInvariance == Spec => []BInv
<1>1. Init => BInv
  <2> SUFFICES ASSUME Init PROVE BInv
    OBVIOUS
  <2>1. IInv
    BY InitOK, Halves
  <2>2. /\ tx = <<>> /\ todo = <<>> /\ got = <<>> /\ pc = "idle" /\ 0 % TxSize = 0
        /\ modem = NoData /\ modem.held = <<>>
    BY SizeAssumption DEF Init, NoData
  <2>3. Follows(0) /\ Holds(0)
    BY <2>2 DEF Follows, Holds, UpTo, Ordered, Precedes
  <2> QED BY <2>1, <2>2, <2>3 DEF BInv, RequestInOrder, RequestInBlocks
<1> QED BY <1>1, BlocksStep, PTL DEF Spec

(* Whatever prompts are missed, mistaken or late, in every run of exchanges *)
(* and connections, and although the modem may hold the beginning of a     *)
(* buffer until an AT command completes it: the server gets a request in   *)
(* order and no part of it twice.                                          *)
THEOREM RequestOrdered == Spec => []RequestInOrder
<1>1. BInv => RequestInOrder
  BY DEF BInv
<1> QED BY <1>1, RequestInvariance, PTL

(* While every prompt is seen the server misses only whole buffers, and no *)
(* AT command gets into the request, for requests and buffers of every     *)
(* size.                                                                   *)
THEOREM RequestWhole == Spec => []RequestInBlocks
<1>1. BInv => RequestInBlocks
  BY DEF BInv
<1> QED BY <1>1, RequestInvariance, PTL
=============================================================================
