---------------------- MODULE Esp8285ClientStreamProofs ----------------------
(***************************************************************************)
(* Proofs about the stream the client delivers, for every response, every  *)
(* way to cut it into frames and every size of the buffers: as long as     *)
(* nothing of a connection's stream was lost, the caller gets what the     *)
(* server sent, to the byte, the CLOSED line is seen exactly when it has   *)
(* been read, and a download that it ends has left nothing behind.         *)
(*                                                                         *)
(* The argument: on a clean connection the parser's state is a function of *)
(* how far the client has read the modem's message.  The invariant says so *)
(* for each message the modem sends; the operators below take the client's *)
(* state and the bytes in the UART as arguments.                           *)
(***************************************************************************)
EXTENDS Esp8285ClientProofs

-----------------------------------------------------------------------------
(* The modem's messages, byte by byte.                                     *)

(* "\r\n+IPD,<n>:", the header of a frame with n bytes of payload. *)
HeaderSize(n) == IF n < 10 THEN 9 ELSE 10

HeaderByte(n, j) ==
  IF j <= 2 THEN <<CR, LF>>[j]
  ELSE IF j <= 7 THEN IPD_PREFIX[j - 2]
  ELSE IF j < HeaderSize(n) THEN Decimal(n)[j - 7]
  ELSE COLON

(* "CLOSED\r\n" *)
ClosingByte(j) == IF j <= 6 THEN CLOSED[j] ELSE <<CR, LF>>[j - 6]

-----------------------------------------------------------------------------
(* Where the client is in the modem's message, in terms of the parser's    *)
(* state i, the line l, the bytes u in the UART and the modem's link k.    *)

(* Nothing of a message has been taken in. *)
Resting(i, l) ==
  /\ i.state = "ScanForIpd" /\ i.matchPos = 0
  /\ l.text = <<>> /\ ~l.overflowed

(* No message, or what an AT exchange has left of its own line. *)
Between(i, l, u, k) ==
  /\ Resting(i, l)
  /\ \/ u = <<>>
     \/ u \in {<<CR, LF>>, <<LF>>} /\ k.up /\ k.payload = 0

(* The parser, j bytes into the header of a frame of n bytes. *)
HeaderState(i, l, n, j) ==
  /\ ~l.overflowed
  /\ j <= 2 => Resting(i, l)
  /\ j \in 3..6 => i.state = "ScanForIpd" /\ i.matchPos = j - 2 /\ Len(l.text) = j - 2
  /\ j >= 7 => i.state = "ReadLength" /\ i.matchPos = 0 /\ l.text = <<>>
  /\ j = 7 => i.payloadLen = 0
  /\ j = 8 => i.payloadLen = IF n < 10 THEN n ELSE n \div 10
  /\ j = 9 => i.payloadLen = n

InHeaderAt(i, l, u, k, j) ==
  /\ k.up /\ k.payload \in FrameSizes
  /\ j < HeaderSize(k.payload)
  /\ Len(u) = HeaderSize(k.payload) - j + k.payload
  /\ \A m \in 1..(HeaderSize(k.payload) - j) : u[m] = HeaderByte(k.payload, j + m)
  /\ HeaderState(i, l, k.payload, j)

InHeader(i, l, u, k) == \E j \in 0..9 : InHeaderAt(i, l, u, k, j)

(* Only payload is left, and the countdown is how much. *)
InPayload(i, l, u, k) ==
  /\ k.up /\ Len(u) \in 1..k.payload
  /\ i.state = "CopyPayload" /\ i.remaining = Len(u) /\ i.matchPos = 0
  /\ l.text = <<>> /\ ~l.overflowed

(* j bytes into the CLOSED line. *)
InClosingAt(i, l, u, k, j) ==
  /\ ~k.up /\ k.payload = 0
  /\ Len(u) = 8 - j
  /\ \A m \in 1..(8 - j) : u[m] = ClosingByte(j + m)
  /\ i.state = "ScanForIpd" /\ i.matchPos = 0 /\ ~l.overflowed
  /\ Len(l.text) = IF j <= 6 THEN j ELSE 6
  /\ \A m \in 1..Len(l.text) : l.text[m] = CLOSED[m]
  /\ j = 7 => l.lastWasCR

InClosing(i, l, u, k) == \E j \in 0..7 : InClosingAt(i, l, u, k, j)

Place(i, l, u, k) ==
  \/ Between(i, l, u, k)
  \/ InHeader(i, l, u, k)
  \/ InPayload(i, l, u, k)
  \/ InClosing(i, l, u, k)

(* How many payload bytes of the last frame are still in the UART u. *)
Rest(u, p) == IF Len(u) < p THEN Len(u) ELSE p

(* What the caller has taken (t bytes), what is unread (q) and the payload *)
(* in the UART (the last of u) are what the server has sent (s bytes).     *)
Streamed(t, q, u, s, p) ==
  /\ t + Len(q) + Rest(u, p) = s
  /\ \A i \in 1..Len(q) : q[i] = Response[t + i]
  /\ \A d \in 0..(Rest(u, p) - 1) : u[Len(u) - d] = Response[s - d]

InSync ==
  clean => /\ connected <=> link.up \/ uart # <<>>
           /\ Place(ipd, line, uart, link)
           /\ Streamed(taken, Unread, uart, link.sent, link.payload)

-----------------------------------------------------------------------------
(* The detector of the CLOSED line, by what it is fed.                     *)

LEMMA LineFedCr ==
  ASSUME ClientOK, FeedLine(CR)
  PROVE  /\ line'.text = line.text /\ line'.overflowed = line.overflowed
         /\ line'.lastWasCR /\ connected' = connected
<1>1. line \in LineType /\ connected \in BOOLEAN
  BY DEF ClientOK
<1>2. line' = [line EXCEPT !.lastWasCR = TRUE]
  BY DEF FeedLine
<1>3. connected' = connected
  BY <1>1 DEF FeedLine, CR, LF
<1> QED BY <1>1, <1>2, <1>3 DEF LineType

LEMMA LineFedLf ==
  ASSUME ClientOK, FeedLine(LF)
  PROVE  /\ line'.text = <<>> /\ ~line'.overflowed
         /\ connected' = (connected /\ ~(line.lastWasCR /\ ~line.overflowed /\ IsClosed(line.text)))
<1>1. line' = EmptyLine
  BY DEF FeedLine, CR, LF
<1> QED BY <1>1 DEF FeedLine, EmptyLine

LEMMA LineFedText ==
  ASSUME ClientOK, NEW c \in Byte, FeedLine(c), c # CR, c # LF, Len(line.text) < 6
  PROVE  /\ line'.text = Append(line.text, c) /\ line'.overflowed = line.overflowed
         /\ connected' = connected
<1>1. line \in LineType /\ connected \in BOOLEAN
  BY DEF ClientOK
<1>2. Len(line.text) < LineSize - 1
  <2>1. LineSize \in Nat /\ ~(LineSize \in 0..6)
    BY SizeAssumption DEF CLOSED
  <2>2. Len(line.text) \in Nat
    BY <1>1, LenProperties DEF LineType
  <2> QED BY <2>1, <2>2
<1>3. line' = [line EXCEPT !.text = Append(@, c), !.lastWasCR = FALSE]
  BY <1>2 DEF FeedLine
<1>4. connected' = connected
  BY <1>1 DEF FeedLine
<1> QED BY <1>1, <1>3, <1>4 DEF LineType

(* The search for "+IPD,", by what it is fed. *)
LEMMA ScanFed ==
  ASSUME ClientOK, NEW c \in Byte, ScanForIpd(c)
  PROVE  /\ ipd'.state = "ScanForIpd"
         /\ ipd'.matchPos = IF c = IPD_PREFIX[ipd.matchPos + 1] THEN ipd.matchPos + 1
                            ELSE IF c = PLUS THEN 1 ELSE 0
<1>1. ipd \in IpdType /\ ipd.state = "ScanForIpd"
  BY DEF ClientOK, ScanForIpd
<1>2. ipd' = [ipd EXCEPT !.matchPos = IF c = IPD_PREFIX[ipd.matchPos + 1] THEN ipd.matchPos + 1
                                      ELSE IF c = PLUS THEN 1 ELSE 0]
  BY DEF ScanForIpd
<1> QED BY <1>1, <1>2 DEF IpdType

(* A byte outside "+IPD," leaves the search at its beginning. *)
LEMMA ScanFedOther ==
  ASSUME ClientOK, NEW c \in Byte, ScanForIpd(c), ipd.matchPos = 0, c # PLUS
  PROVE  ipd'.state = "ScanForIpd" /\ ipd'.matchPos = 0
<1>1. IPD_PREFIX[ipd.matchPos + 1] = PLUS
  BY DEF IPD_PREFIX
<1> QED BY <1>1, ScanFed

-----------------------------------------------------------------------------
(* One byte of a message.                                                  *)

Feeds(c) == ScanForIpd(c) \/ StartLength(c) \/ ReadLength(c) \/ CopyPayload(c)

(* The state says which of the four takes the byte. *)
LEMMA FeedsScan ==
  ASSUME NEW c, Feeds(c), ipd.state = "ScanForIpd", ~HeaderEnds(c)
  PROVE  ScanForIpd(c) /\ FeedLine(c) /\ rx' = rx
BY DEF Feeds, ScanForIpd, StartLength, ReadLength, CopyPayload

LEMMA FeedsLength ==
  ASSUME NEW c, Feeds(c), ipd.state = "ReadLength"
  PROVE  ReadLength(c) /\ rx' = rx /\ connected' = connected
BY DEF Feeds, ScanForIpd, StartLength, ReadLength, CopyPayload

LEMMA FeedsPayload ==
  ASSUME NEW c, Feeds(c), ipd.state = "CopyPayload"
  PROVE  CopyPayload(c) /\ line' = line /\ connected' = connected
BY DEF Feeds, ScanForIpd, StartLength, ReadLength, CopyPayload

(* Reading takes the first byte of the UART. *)
LEMMA OneByte ==
  ASSUME IInv, FeedByte
  PROVE  /\ uart[1] \in Byte /\ Feeds(uart[1])
         /\ uart \in Seq(Byte) /\ Len(uart) \in Nat \ {0}
         /\ uart' \in Seq(Byte) /\ Len(uart') = Len(uart) - 1
         /\ \A m \in 1..(Len(uart) - 1) : uart'[m] = uart[m + 1]
         /\ UNCHANGED <<taken, link>>
         /\ clean' = (clean /\ (ipd.state = "CopyPayload" => Len(Unread) < RxSize))
<1>1. uart \in Seq(Byte) /\ uart # <<>>
  BY DEF FeedByte, IInv, TypeOK
<1>2. Len(uart) \in Nat \ {0}
  BY <1>1, EmptySeq
<1>3. Head(uart) = uart[1]
  BY <1>1
<1>4. uart' = Tail(uart)
  BY DEF FeedByte
<1>5. /\ uart' \in Seq(Byte) /\ Len(uart') = Len(uart) - 1
      /\ \A m \in 1..Len(uart') : uart'[m] = uart[m + 1]
  BY <1>1, <1>4, HeadTailProperties
<1>6. uart[1] \in Byte
  <2>1. 1 \in 1..Len(uart)
    BY <1>2
  <2> QED BY <1>1, <2>1, ElementOfSeq
<1> QED BY <1>1, <1>2, <1>3, <1>5, <1>6 DEF FeedByte, Feeds, callerVars

(* What is left of a line after an AT exchange passes without a trace. *)
LEMMA BetweenStep ==
  ASSUME IInv, FeedByte, Between(ipd, line, uart, link)
  PROVE  /\ Between(ipd', line', uart', link') /\ link.up /\ link.payload = 0
         /\ connected' = connected /\ rx' = rx
<1>1. /\ uart[1] \in Byte /\ Feeds(uart[1]) /\ Len(uart) \in Nat \ {0} /\ link' = link
      /\ uart' \in Seq(Byte) /\ Len(uart') = Len(uart) - 1
      /\ \A m \in 1..(Len(uart) - 1) : uart'[m] = uart[m + 1]
  BY OneByte
<1>2. /\ uart = <<CR, LF>> \/ uart = <<LF>>
      /\ link.up /\ link.payload = 0
      /\ ipd.state = "ScanForIpd" /\ ipd.matchPos = 0 /\ line.text = <<>> /\ ~line.overflowed
  <2>1. uart # <<>>
    BY DEF FeedByte
  <2> QED BY <2>1 DEF Between, Resting
<1>3. uart[1] = CR \/ uart[1] = LF
  BY <1>2
<1>4. ~HeaderEnds(uart[1]) /\ uart[1] # PLUS
  BY <1>3 DEF HeaderEnds, CR, LF, COMMA, PLUS
<1>5. /\ ScanForIpd(uart[1]) /\ FeedLine(uart[1]) /\ rx' = rx
      /\ ipd'.state = "ScanForIpd" /\ ipd'.matchPos = 0
  <2>1. ScanForIpd(uart[1]) /\ FeedLine(uart[1]) /\ rx' = rx
    BY <1>1, <1>2, <1>4, FeedsScan
  <2> QED BY <1>1, <1>2, <1>4, <2>1, ScanFedOther, Halves
<1>6. line'.text = <<>> /\ ~line'.overflowed /\ connected' = connected
  <2>1. CASE uart[1] = CR
    BY <1>2, <1>5, <2>1, LineFedCr, Halves
  <2>2. CASE uart[1] = LF
    <3>1. ~IsClosed(line.text)
      <4>1. Len(line.text) = 0 /\ Len(CLOSED) = 6
        BY <1>2 DEF CLOSED
      <4> QED BY <4>1 DEF IsClosed
    <3>2. connected \in BOOLEAN
      BY DEF IInv, TypeOK
    <3> QED BY <1>5, <2>2, <3>1, <3>2, LineFedLf, Halves
  <2> QED BY <1>3, <2>1, <2>2
<1>7. uart' = <<>> \/ uart' = <<LF>>
  <2>1. CASE uart = <<LF>>
    <3>1. Len(uart') = 0
      BY <1>1, <2>1
    <3> QED BY <1>1, <3>1, EmptySeq
  <2>2. CASE uart = <<CR, LF>>
    <3>1. Len(uart') = 1 /\ uart'[1] = LF
      BY <1>1, <2>2
    <3>2. <<LF>> \in Seq(Byte) /\ Len(<<LF>>) = 1 /\ <<LF>>[1] = LF
      BY DEF LF, Byte
    <3> QED BY <1>1, <3>1, <3>2, SeqEqual
  <2> QED BY <1>2, <2>1, <2>2
<1> QED BY <1>1, <1>2, <1>5, <1>6, <1>7 DEF Between, Resting

(* One byte of the CLOSED line; its end, and nothing else, disconnects. *)
LEMMA ClosingStep ==
  ASSUME IInv, FeedByte, NEW j \in 0..7, InClosingAt(ipd, line, uart, link, j)
  PROVE  /\ rx' = rx
         /\ j < 7 => InClosingAt(ipd', line', uart', link', j + 1) /\ connected' = connected
         /\ j = 7 => Between(ipd', line', uart', link') /\ ~connected'
<1>1. /\ uart[1] \in Byte /\ Feeds(uart[1]) /\ Len(uart) \in Nat \ {0} /\ link' = link
      /\ uart' \in Seq(Byte) /\ Len(uart') = Len(uart) - 1
  BY OneByte
<1>2. /\ ~link.up /\ link.payload = 0 /\ Len(uart) = 8 - j
      /\ \A m \in 1..(8 - j) : uart[m] = ClosingByte(j + m)
      /\ ipd.state = "ScanForIpd" /\ ipd.matchPos = 0 /\ ~line.overflowed
      /\ Len(line.text) = IF j <= 6 THEN j ELSE 6
      /\ \A m \in 1..Len(line.text) : line.text[m] = CLOSED[m]
      /\ j = 7 => line.lastWasCR
  BY DEF InClosingAt
<1>3. /\ uart[1] = ClosingByte(j + 1)
      /\ \A m \in 1..(8 - (j + 1)) : uart'[m] = ClosingByte((j + 1) + m)
  <2>1. 1 \in 1..(8 - j)
    OBVIOUS
  <2>2. ASSUME NEW m \in 1..(8 - (j + 1)) PROVE uart'[m] = ClosingByte((j + 1) + m)
    <3>1. m \in 1..(Len(uart) - 1) /\ m + 1 \in 1..(8 - j) /\ j + (m + 1) = (j + 1) + m
      BY <1>2
    <3>2. uart'[m] = uart[m + 1] /\ uart[m + 1] = ClosingByte(j + (m + 1))
      BY <1>2, <3>1, OneByte
    <3> QED BY <3>1, <3>2
  <2> QED BY <1>2, <2>1, <2>2
<1>4. /\ j < 6 => uart[1] = CLOSED[j + 1] /\ uart[1] # CR /\ uart[1] # LF
      /\ j = 6 => uart[1] = CR
      /\ j = 7 => uart[1] = LF
      /\ uart[1] # PLUS /\ uart[1] # COMMA
  <2>1. j \in {0, 1, 2, 3, 4, 5, 6, 7}
    OBVIOUS
  <2> QED BY <1>3, <2>1 DEF ClosingByte, CLOSED, CR, LF, PLUS, COMMA
<1>5. /\ FeedLine(uart[1]) /\ rx' = rx
      /\ ipd'.state = "ScanForIpd" /\ ipd'.matchPos = 0
  <2>1. ~HeaderEnds(uart[1])
    BY <1>4 DEF HeaderEnds
  <2>2. ScanForIpd(uart[1]) /\ FeedLine(uart[1]) /\ rx' = rx
    BY <1>1, <1>2, <2>1, FeedsScan
  <2> QED BY <1>1, <1>2, <1>4, <2>2, ScanFedOther, Halves
<1>6. line.text \in Seq(Byte)
  BY DEF IInv, TypeOK
<1>7. CASE j < 6
  <2>1. /\ line'.text = Append(line.text, uart[1]) /\ ~line'.overflowed /\ connected' = connected
    <3>1. Len(line.text) < 6
      BY <1>2, <1>7
    <3> QED BY <1>1, <1>2, <1>4, <1>5, <1>7, <3>1, LineFedText, Halves
  <2>2. Len(line'.text) = j + 1 /\ \A m \in 1..(j + 1) : line'.text[m] = CLOSED[m]
    <3>1. /\ Len(Append(line.text, uart[1])) = j + 1
          /\ \A m \in 1..j : Append(line.text, uart[1])[m] = line.text[m]
          /\ Append(line.text, uart[1])[j + 1] = uart[1]
      BY <1>1, <1>2, <1>6, <1>7, AppendProperties
    <3>2. \A m \in 1..(j + 1) : m \in 1..j \/ m = j + 1
      OBVIOUS
    <3>3. \A m \in 1..j : line.text[m] = CLOSED[m]
      BY <1>2, <1>7
    <3> QED BY <1>4, <1>7, <2>1, <3>1, <3>2, <3>3
  <2>3. Len(line'.text) = (IF j + 1 <= 6 THEN j + 1 ELSE 6) /\ Len(uart') = 8 - (j + 1) /\ j + 1 # 7
    BY <1>1, <1>2, <1>7, <2>2
  <2>4. \A m \in 1..Len(line'.text) : line'.text[m] = CLOSED[m]
    BY <2>2
  <2>5. InClosingAt(ipd', line', uart', link', j + 1)
    BY <1>1, <1>2, <1>3, <1>5, <2>1, <2>3, <2>4 DEF InClosingAt
  <2> QED BY <1>5, <1>7, <2>1, <2>5
<1>8. CASE j = 6
  <2>1. /\ line'.text = line.text /\ ~line'.overflowed /\ line'.lastWasCR /\ connected' = connected
    BY <1>2, <1>4, <1>5, <1>8, LineFedCr, Halves
  <2>2. Len(line'.text) = (IF j + 1 <= 6 THEN j + 1 ELSE 6) /\ Len(uart') = 8 - (j + 1)
    BY <1>1, <1>2, <1>8, <2>1
  <2>3. \A m \in 1..Len(line'.text) : line'.text[m] = CLOSED[m]
    BY <1>2, <2>1
  <2>4. InClosingAt(ipd', line', uart', link', j + 1)
    BY <1>1, <1>2, <1>3, <1>5, <2>1, <2>2, <2>3 DEF InClosingAt
  <2> QED BY <1>5, <1>8, <2>1, <2>4
<1>9. CASE j = 7
  <2>1. Len(line.text) = 6
    BY <1>2, <1>9
  <2>2. IsClosed(line.text)
    <3>1. CLOSED \in Seq(Byte) /\ Len(CLOSED) = 6
      BY DEF CLOSED, Byte
    <3>2. line.text = CLOSED
      BY <1>2, <1>6, <2>1, <3>1, SeqEqual
    <3>3. SubSeq(CLOSED, 1, Len(CLOSED)) = CLOSED
      BY <3>1, SubSeqFull
    <3>4. Len(line.text) >= Len(CLOSED) /\ Len(line.text) = Len(CLOSED)
      BY <2>1, <3>1
    <3>5. SubSeq(line.text, 1, Len(CLOSED)) = CLOSED
      BY <3>2, <3>3
    <3> QED BY <3>4, <3>5 DEF IsClosed
  <2>3. line'.text = <<>> /\ ~line'.overflowed /\ ~connected'
    BY <1>2, <1>4, <1>5, <1>9, <2>2, LineFedLf, Halves
  <2>4. uart' = <<>>
    <3>1. Len(uart') = 0
      BY <1>1, <1>2, <1>9
    <3> QED BY <1>1, <3>1, EmptySeq
  <2> QED BY <1>5, <1>9, <2>3, <2>4 DEF Between, Resting
<1>10. j < 6 \/ j = 6 \/ j = 7
  OBVIOUS
<1> QED BY <1>5, <1>7, <1>8, <1>9, <1>10

-----------------------------------------------------------------------------
(* One byte of a header, by the part of it the byte is in. *)

HeaderGoal(n, j) ==
  /\ rx' = rx /\ connected' = connected
  /\ j + 1 < HeaderSize(n) => HeaderState(ipd', line', n, j + 1)
  /\ j + 1 = HeaderSize(n) => /\ ipd'.state = "CopyPayload" /\ ipd'.remaining = n
                              /\ ipd'.matchPos = 0 /\ line'.text = <<>> /\ ~line'.overflowed

(* "\r\n" *)
LEMMA HeaderLineEnd ==
  ASSUME ClientOK, NEW n \in FrameSizes, NEW j \in 0..1, HeaderState(ipd, line, n, j),
         NEW c \in Byte, c = HeaderByte(n, j + 1), Feeds(c)
  PROVE  HeaderGoal(n, j)
<1>1. (j = 0 /\ c = CR) \/ (j = 1 /\ c = LF)
  <2>1. j = 0 \/ j = 1
    OBVIOUS
  <2> QED BY <2>1 DEF HeaderByte
<1>2. /\ ipd.state = "ScanForIpd" /\ ipd.matchPos = 0 /\ line.text = <<>> /\ ~line.overflowed
      /\ j + 1 <= 2 /\ j + 1 < HeaderSize(n)
  BY <1>1 DEF HeaderState, Resting, HeaderSize
<1>3. ~HeaderEnds(c) /\ c # PLUS
  BY <1>1 DEF HeaderEnds, CR, LF, COMMA, PLUS
<1>4. ScanForIpd(c) /\ FeedLine(c) /\ rx' = rx
  BY <1>2, <1>3, FeedsScan
<1>5. ipd'.state = "ScanForIpd" /\ ipd'.matchPos = 0
  BY <1>2, <1>3, <1>4, ScanFedOther
<1>6. line'.text = <<>> /\ ~line'.overflowed /\ connected' = connected
  <2>1. CASE c = CR
    BY <1>2, <1>4, <2>1, LineFedCr
  <2>2. CASE c = LF
    <3>1. ~IsClosed(line.text)
      <4>1. Len(line.text) = 0 /\ Len(CLOSED) = 6
        BY <1>2 DEF CLOSED
      <4> QED BY <4>1 DEF IsClosed
    <3>2. connected \in BOOLEAN
      BY DEF ClientOK
    <3> QED BY <1>4, <2>2, <3>1, <3>2, LineFedLf
  <2> QED BY <1>1, <2>1, <2>2
<1>7. HeaderState(ipd', line', n, j + 1)
  <2>1. ~(j + 1 \in 3..6) /\ ~(j + 1 >= 7) /\ j + 1 # 7 /\ j + 1 # 8 /\ j + 1 # 9
    OBVIOUS
  <2> QED BY <1>5, <1>6, <2>1 DEF HeaderState, Resting
<1> QED BY <1>2, <1>4, <1>6, <1>7 DEF HeaderGoal

(* "+IPD" *)
LEMMA HeaderPrefix ==
  ASSUME ClientOK, NEW n \in FrameSizes, NEW j \in 2..5, HeaderState(ipd, line, n, j),
         NEW c \in Byte, c = HeaderByte(n, j + 1), Feeds(c)
  PROVE  HeaderGoal(n, j)
<1>1. c = IPD_PREFIX[(j - 2) + 1]
  <2>1. ~(j + 1 <= 2) /\ j + 1 <= 7 /\ (j + 1) - 2 = (j - 2) + 1
    OBVIOUS
  <2> QED BY <2>1 DEF HeaderByte
<1>2. c \in {43, 73, 80, 68}
  <2>1. j = 2 \/ j = 3 \/ j = 4 \/ j = 5
    OBVIOUS
  <2> QED BY <1>1, <2>1 DEF IPD_PREFIX, PLUS
<1>3. /\ ipd.state = "ScanForIpd" /\ ipd.matchPos = j - 2
      /\ Len(line.text) = j - 2 /\ ~line.overflowed
  <2>1. CASE j = 2
    <3>1. Resting(ipd, line) /\ ~line.overflowed
      BY <2>1 DEF HeaderState
    <3> QED BY <2>1, <3>1 DEF Resting
  <2>2. CASE j # 2
    <3>1. j \in 3..6
      BY <2>2
    <3> QED BY <3>1 DEF HeaderState
  <2> QED BY <2>1, <2>2
<1>4. ~HeaderEnds(c) /\ c # CR /\ c # LF
  BY <1>2 DEF HeaderEnds, COMMA, CR, LF
<1>5. ScanForIpd(c) /\ FeedLine(c) /\ rx' = rx
  BY <1>3, <1>4, FeedsScan
<1>6. ipd'.state = "ScanForIpd" /\ ipd'.matchPos = (j - 2) + 1
  BY <1>1, <1>3, <1>5, ScanFed
<1>7. Len(line'.text) = (j - 2) + 1 /\ ~line'.overflowed /\ connected' = connected
  <2>1. line.text \in Seq(Byte) /\ Len(line.text) < 6
    BY <1>3 DEF ClientOK, LineType
  <2>2. line'.text = Append(line.text, c) /\ line'.overflowed = line.overflowed /\ connected' = connected
    BY <1>4, <1>5, <2>1, LineFedText
  <2> QED BY <1>3, <2>1, <2>2, AppendProperties
<1>8. /\ j + 1 \in 3..6 /\ (j + 1) - 2 = (j - 2) + 1 /\ ~(j + 1 <= 2) /\ ~(j + 1 >= 7)
      /\ j + 1 # 7 /\ j + 1 # 8 /\ j + 1 # 9
  OBVIOUS
<1>9. HeaderState(ipd', line', n, j + 1)
  BY <1>6, <1>7, <1>8 DEF HeaderState
<1>10. j + 1 < HeaderSize(n)
  BY DEF HeaderSize
<1> QED BY <1>5, <1>7, <1>9, <1>10 DEF HeaderGoal

(* "," *)
LEMMA HeaderComma ==
  ASSUME ClientOK, NEW n \in FrameSizes, HeaderState(ipd, line, n, 6),
         NEW c \in Byte, c = HeaderByte(n, 6 + 1), Feeds(c)
  PROVE  HeaderGoal(n, 6)
<1>1. c = COMMA
  BY DEF HeaderByte, IPD_PREFIX
<1>2. ipd.state = "ScanForIpd" /\ ipd.matchPos = 4 /\ ~line.overflowed
  BY DEF HeaderState
<1>3. HeaderEnds(c)
  BY <1>1, <1>2 DEF HeaderEnds, IPD_PREFIX_LEN
<1>4. StartLength(c)
  BY <1>2, <1>3 DEF Feeds, ScanForIpd, ReadLength, CopyPayload
<1>5. /\ ipd' = [ipd EXCEPT !.state = "ReadLength", !.payloadLen = 0, !.matchPos = 0]
      /\ line' = [line EXCEPT !.text = <<>>]
      /\ rx' = rx /\ connected' = connected
      /\ ipd \in IpdType /\ line \in LineType
  BY <1>4 DEF StartLength, ClientOK
<1>6. ipd'.state = "ReadLength" /\ ipd'.payloadLen = 0 /\ ipd'.matchPos = 0
  BY <1>5 DEF IpdType
<1>7. line'.text = <<>> /\ ~line'.overflowed
  BY <1>2, <1>5 DEF LineType
<1>8. HeaderState(ipd', line', n, 6 + 1)
  BY <1>6, <1>7 DEF HeaderState
<1>9. 6 + 1 < HeaderSize(n)
  BY DEF HeaderSize
<1> QED BY <1>5, <1>8, <1>9 DEF HeaderGoal

(* Two digits put together again. *)
LEMMA Digits ==
  ASSUME NEW n \in 10..99
  PROVE  /\ n \div 10 \in 1..9 /\ n % 10 \in 0..9
         /\ (n \div 10) * 10 + (n % 10) = n
OBVIOUS

LEMMA HeaderLength ==
  ASSUME ClientOK, NEW n \in FrameSizes, NEW j \in 7..9, j < HeaderSize(n),
         HeaderState(ipd, line, n, j),
         NEW c \in Byte, c = HeaderByte(n, j + 1), Feeds(c)
  PROVE  HeaderGoal(n, j)
<1>1. n \in 1..99 /\ n < LenMod /\ LenMod \in Nat
  BY SizeAssumption, FrameAssumption
<1>2. /\ ipd.state = "ReadLength" /\ ipd.matchPos = 0 /\ line.text = <<>> /\ ~line.overflowed
  BY DEF HeaderState
<1>3. ReadLength(c) /\ rx' = rx /\ connected' = connected
  BY <1>2, FeedsLength
<1>4. ipd \in IpdType /\ line \in LineType
  BY DEF ClientOK
<1>5. ASSUME NEW d \in 0..9, c = ZERO + d, NEW v \in 0..(LenMod - 1), ipd.payloadLen * 10 + d = v
      PROVE  ipd'.state = "ReadLength" /\ ipd'.matchPos = 0 /\ ipd'.payloadLen = v /\ line' = line
  <2>1. IsDigit(c) /\ c - ZERO = d
    BY <1>5 DEF IsDigit, ZERO, NINE
  <2>2. v % LenMod = v
    BY <1>1
  <2>3. ipd' = [ipd EXCEPT !.payloadLen = v] /\ line' = line
    BY <1>3, <1>5, <2>1, <2>2 DEF ReadLength
  <2> QED BY <1>2, <1>4, <2>3 DEF IpdType
<1>6. ASSUME c = COLON, ipd.payloadLen = n
      PROVE  /\ ipd'.state = "CopyPayload" /\ ipd'.remaining = n
             /\ ipd'.matchPos = 0 /\ line' = line
  <2>1. ~IsDigit(c)
    BY <1>6 DEF IsDigit, ZERO, NINE, COLON
  <2>2. /\ ipd' = [ipd EXCEPT !.remaining = ipd.payloadLen,
                              !.state = IF ipd.payloadLen > 0 THEN "CopyPayload" ELSE "ScanForIpd"]
        /\ line' = line
    BY <1>3, <1>6, <2>1 DEF ReadLength
  <2>3. ipd'.state = (IF ipd.payloadLen > 0 THEN "CopyPayload" ELSE "ScanForIpd")
        /\ ipd'.remaining = n /\ ipd'.matchPos = 0
    BY <1>2, <1>4, <1>6, <2>2 DEF IpdType
  <2> QED BY <1>1, <1>6, <2>2, <2>3
<1>7. CASE n < 10
  <2>1. HeaderSize(n) = 9 /\ Decimal(n) = <<ZERO + n>>
    BY <1>7 DEF HeaderSize, Decimal
  <2>2. CASE j = 7
    <3>1. c = ZERO + n
      BY <2>1, <2>2 DEF HeaderByte
    <3>2. ipd.payloadLen = 0
      BY <2>2 DEF HeaderState
    <3>3. n \in 0..9 /\ n \in 0..(LenMod - 1) /\ ipd.payloadLen * 10 + n = n
      BY <1>1, <1>7, <3>2
    <3>4. ipd'.state = "ReadLength" /\ ipd'.matchPos = 0 /\ ipd'.payloadLen = n /\ line' = line
      BY <1>5, <3>1, <3>3
    <3>5. HeaderState(ipd', line', n, 8)
      BY <1>2, <1>7, <3>4 DEF HeaderState
    <3> QED BY <1>3, <2>1, <2>2, <3>5 DEF HeaderGoal
  <2>3. CASE j = 8
    <3>1. c = COLON
      BY <2>1, <2>3 DEF HeaderByte
    <3>2. ipd.payloadLen = n
      BY <1>7, <2>3 DEF HeaderState
    <3> QED BY <1>2, <1>3, <1>6, <2>1, <2>3, <3>1, <3>2 DEF HeaderGoal
  <2> QED BY <2>1, <2>2, <2>3
<1>8. CASE ~(n < 10)
  <2>1. HeaderSize(n) = 10 /\ Decimal(n) = <<ZERO + n \div 10, ZERO + (n % 10)>> /\ n \in 10..99
    BY <1>1, <1>8 DEF HeaderSize, Decimal
  <2>2. /\ n \div 10 \in 1..9 /\ n % 10 \in 0..9
        /\ (n \div 10) * 10 + (n % 10) = n
    BY <2>1, Digits
  <2>3. CASE j = 7
    <3>1. c = ZERO + n \div 10
      BY <2>1, <2>3 DEF HeaderByte
    <3>2. ipd.payloadLen = 0
      BY <2>3 DEF HeaderState
    <3>3. n \div 10 <= n
      BY <2>1
    <3> DEFINE q == n \div 10
    <3>4. q \in 0..9 /\ c = ZERO + q /\ q \in 0..(LenMod - 1) /\ ipd.payloadLen * 10 + q = q
      BY <1>1, <2>2, <3>1, <3>2, <3>3
    <3> HIDE DEF q
    <3>5. ipd'.state = "ReadLength" /\ ipd'.matchPos = 0 /\ ipd'.payloadLen = q /\ line' = line
      BY <1>5, <3>4
    <3>6. HeaderState(ipd', line', n, 8)
      BY <1>2, <1>8, <3>5 DEF HeaderState, q
    <3> QED BY <1>3, <2>1, <2>3, <3>6 DEF HeaderGoal
  <2>4. CASE j = 8
    <3>1. c = ZERO + (n % 10)
      BY <2>1, <2>4 DEF HeaderByte
    <3>2. ipd.payloadLen = n \div 10
      BY <1>8, <2>4 DEF HeaderState
    <3> DEFINE r == n % 10
    <3>3. r \in 0..9 /\ c = ZERO + r /\ n \in 0..(LenMod - 1) /\ ipd.payloadLen * 10 + r = n
      BY <1>1, <2>2, <3>1, <3>2
    <3> HIDE DEF r
    <3>4. ipd'.state = "ReadLength" /\ ipd'.matchPos = 0 /\ ipd'.payloadLen = n /\ line' = line
      BY <1>5, <3>3
    <3>5. HeaderState(ipd', line', n, 9)
      BY <1>2, <3>4 DEF HeaderState
    <3> QED BY <1>3, <2>1, <2>4, <3>5 DEF HeaderGoal
  <2>5. CASE j = 9
    <3>1. c = COLON
      BY <2>1, <2>5 DEF HeaderByte
    <3>2. ipd.payloadLen = n
      BY <2>5 DEF HeaderState
    <3> QED BY <1>2, <1>3, <1>6, <2>1, <2>5, <3>1, <3>2 DEF HeaderGoal
  <2> QED BY <2>1, <2>3, <2>4, <2>5
<1> QED BY <1>7, <1>8

(* One byte of a header; the last one leaves the countdown at its length. *)
LEMMA HeaderStep ==
  ASSUME IInv, FeedByte, NEW j \in 0..9, InHeaderAt(ipd, line, uart, link, j)
  PROVE  /\ rx' = rx /\ connected' = connected /\ link.up
         /\ Len(uart') >= link.payload
         /\ InHeader(ipd', line', uart', link') \/ InPayload(ipd', line', uart', link')
<1> DEFINE n == link.payload
           size == HeaderSize(n)
<1>1. /\ uart[1] \in Byte /\ Feeds(uart[1]) /\ Len(uart) \in Nat \ {0} /\ link' = link
      /\ uart' \in Seq(Byte) /\ Len(uart') = Len(uart) - 1
      /\ \A m \in 1..(Len(uart) - 1) : uart'[m] = uart[m + 1]
  BY OneByte
<1>2. /\ link.up /\ n \in FrameSizes /\ j < size /\ Len(uart) = size - j + n
      /\ \A m \in 1..(size - j) : uart[m] = HeaderByte(n, j + m)
      /\ HeaderState(ipd, line, n, j)
  BY DEF InHeaderAt
<1>3. n \in 1..99 /\ size \in {9, 10}
  BY <1>2, SizeAssumption DEF HeaderSize
<1> HIDE DEF size, n
<1>4. uart[1] = HeaderByte(n, j + 1)
  <2>1. 1 \in 1..(size - j)
    BY <1>2, <1>3
  <2> QED BY <1>2, <2>1
<1>5. HeaderGoal(n, j)
  <2>1. CASE j \in 0..1
    BY <1>1, <1>2, <1>4, <2>1, HeaderLineEnd, Halves
  <2>2. CASE j \in 2..5
    BY <1>1, <1>2, <1>4, <2>2, HeaderPrefix, Halves
  <2>3. CASE j = 6
    BY <1>1, <1>2, <1>4, <2>3, HeaderComma, Halves
  <2>4. CASE j \in 7..9
    BY <1>1, <1>2, <1>4, <2>4, HeaderLength, Halves DEF size
  <2> QED BY <2>1, <2>2, <2>3, <2>4
<1>6. Len(uart') = size - (j + 1) + n /\ Len(uart') >= n
  <2>1. Len(uart') = Len(uart) - 1 /\ Len(uart) = size - j + n /\ j < size
    BY <1>1, <1>2
  <2> QED BY <1>3, <2>1
<1>7. CASE j + 1 < size
  <2>1. \A m \in 1..(size - (j + 1)) : uart'[m] = HeaderByte(n, (j + 1) + m)
    <3> SUFFICES ASSUME NEW m \in 1..(size - (j + 1)) PROVE uart'[m] = HeaderByte(n, (j + 1) + m)
      OBVIOUS
    <3>1. m \in 1..(Len(uart) - 1) /\ m + 1 \in 1..(size - j) /\ j + (m + 1) = (j + 1) + m
      BY <1>2, <1>3
    <3>2. uart'[m] = uart[m + 1] /\ uart[m + 1] = HeaderByte(n, j + (m + 1))
      BY <1>1, <1>2, <3>1
    <3> QED BY <3>1, <3>2
  <2>2. HeaderState(ipd', line', n, j + 1)
    BY <1>5, <1>7 DEF HeaderGoal, size
  <2>3. InHeaderAt(ipd', line', uart', link', j + 1)
    BY <1>1, <1>2, <1>6, <1>7, <2>1, <2>2 DEF InHeaderAt, size, n
  <2>4. j + 1 \in 0..9
    BY <1>3, <1>7
  <2> QED BY <1>2, <1>5, <1>6, <2>3, <2>4 DEF InHeader, HeaderGoal, n
<1>8. CASE j + 1 = size
  <2>1. /\ ipd'.state = "CopyPayload" /\ ipd'.remaining = n
        /\ ipd'.matchPos = 0 /\ line'.text = <<>> /\ ~line'.overflowed
    BY <1>5, <1>8 DEF HeaderGoal, size
  <2>2. Len(uart') = n /\ n \in 1..n
    BY <1>3, <1>6, <1>8
  <2>3. InPayload(ipd', line', uart', link')
    BY <1>1, <1>2, <2>1, <2>2 DEF InPayload, n
  <2> QED BY <1>2, <1>5, <1>6, <2>3 DEF HeaderGoal, n
<1> QED BY <1>2, <1>3, <1>7, <1>8

-----------------------------------------------------------------------------
(* The stream, one byte further.                                           *)

(* The counts the stream speaks of are numbers. *)
LEMMA Counts ==
  ASSUME IInv
  PROVE  /\ taken \in Nat /\ link.sent \in Nat /\ link.payload \in Nat
         /\ Unread \in Seq(Byte) /\ Len(Unread) \in Nat
         /\ uart \in Seq(Byte) /\ Len(uart) \in Nat
         /\ link \in LinkType /\ link.up \in BOOLEAN /\ link.sent \in 0..Len(Response)
         /\ Rest(uart, link.payload) \in 0..Len(uart) /\ Rest(uart, link.payload) <= link.payload
<1>1. /\ taken \in Nat /\ link \in LinkType /\ uart \in Seq(Byte)
      /\ rx \in RxType /\ rx.head <= Len(rx.buf)
  BY Halves DEF ClientOK, OthersOK
<1>2. Len(Response) \in Nat /\ Len(uart) \in Nat
  BY <1>1, ResponseAssumption, LenProperties
<1>3. link.sent \in 0..Len(Response) /\ link.payload \in Nat /\ link.up \in BOOLEAN
  BY <1>1 DEF LinkType
<1>4. Unread \in Seq(Byte) /\ Len(Unread) \in Nat
  BY <1>1, UnreadTyped, LenProperties
<1>5. Rest(uart, link.payload) \in 0..Len(uart) /\ Rest(uart, link.payload) <= link.payload
  BY <1>2, <1>3 DEF Rest
<1> QED BY <1>1, <1>2, <1>3, <1>4, <1>5

(* A byte before the payload leaves the stream as it is. *)
LEMMA StreamSkips ==
  ASSUME IInv, FeedByte, Streamed(taken, Unread, uart, link.sent, link.payload),
         link.payload <= Len(uart'), rx' = rx
  PROVE  Streamed(taken', Unread', uart', link'.sent, link'.payload)
<1> DEFINE p == link.payload
           s == link.sent
<1>1. /\ Len(uart) \in Nat \ {0} /\ Len(uart') = Len(uart) - 1
      /\ \A m \in 1..(Len(uart) - 1) : uart'[m] = uart[m + 1]
      /\ taken' = taken /\ link' = link
  BY OneByte
<1>2. p \in Nat /\ s \in Nat
  BY Counts
<1>3. Unread' = Unread
  BY DEF Unread
<1> HIDE DEF p, s
<1>4. Rest(uart, p) = p /\ Rest(uart', p) = p
  <2>1. p <= Len(uart') /\ Len(uart') = Len(uart) - 1
    BY <1>1 DEF p
  <2>2. ~(Len(uart') < p) /\ ~(Len(uart) < p)
    BY <1>1, <1>2, <2>1
  <2> QED BY <2>2 DEF Rest
<1>5. ASSUME NEW d \in 0..(p - 1) PROVE uart'[Len(uart') - d] = Response[s - d]
  <2> DEFINE m == Len(uart) - 1 - d
  <2>1. /\ m \in 1..(Len(uart) - 1) /\ m + 1 = Len(uart) - d /\ Len(uart') - d = m
    <3>1. p <= Len(uart) - 1 /\ Len(uart') = Len(uart) - 1
      BY <1>1 DEF p
    <3> QED BY <1>1, <1>2, <3>1
  <2> HIDE DEF m
  <2>2. uart'[m] = uart[Len(uart) - d]
    BY <1>1, <2>1
  <2>3. uart[Len(uart) - d] = Response[s - d]
    BY <1>4 DEF Streamed, p, s
  <2> QED BY <2>1, <2>2, <2>3
<1>6. taken + Len(Unread) + p = s /\ \A i \in 1..Len(Unread) : Unread[i] = Response[taken + i]
  BY <1>4 DEF Streamed, p, s
<1> QED BY <1>1, <1>3, <1>4, <1>5, <1>6 DEF Streamed, p, s

(* A payload byte the buffer has room for moves from the UART to the       *)
(* unread bytes; the last one leaves the parser at rest.                   *)
LEMMA PayloadStep ==
  ASSUME IInv, FeedByte, clean', InPayload(ipd, line, uart, link),
         Streamed(taken, Unread, uart, link.sent, link.payload)
  PROVE  /\ connected' = connected /\ link.up
         /\ Place(ipd', line', uart', link')
         /\ Streamed(taken', Unread', uart', link'.sent, link'.payload)
<1> DEFINE c == uart[1]
           q == Len(Unread)
           u == Len(uart)
<1>1. /\ c \in Byte /\ Feeds(c) /\ u \in Nat \ {0}
      /\ uart' \in Seq(Byte) /\ Len(uart') = u - 1
      /\ \A m \in 1..(u - 1) : uart'[m] = uart[m + 1]
      /\ taken' = taken /\ link' = link
      /\ ipd.state = "CopyPayload" => q < RxSize
  BY OneByte
<1>2. /\ link.up /\ u \in 1..link.payload
      /\ ipd.state = "CopyPayload" /\ ipd.remaining = u /\ ipd.matchPos = 0
      /\ line.text = <<>> /\ ~line.overflowed
  BY DEF InPayload
<1>3. CopyPayload(c) /\ line' = line /\ connected' = connected
  BY <1>1, <1>2, FeedsPayload
<1>4. /\ taken \in Nat /\ link.sent \in Nat /\ link.payload \in Nat
      /\ Unread \in Seq(Byte) /\ q \in Nat
  BY Counts
<1>5. ipd' = [ipd EXCEPT !.remaining = (u - 1) % LenMod,
                        !.state = IF (u - 1) % LenMod = 0 THEN "ScanForIpd" ELSE @]
  BY <1>2, <1>3 DEF CopyPayload
<1>6. ipd \in IpdType /\ ipd.remaining \in 0..(LenMod - 1) /\ LenMod \in Nat
  BY SizeAssumption, Halves DEF ClientOK, IpdType
<1>7. (u - 1) % LenMod = u - 1
  <2>1. u - 1 \in 0..(LenMod - 1)
    BY <1>1, <1>2, <1>6
  <2> QED BY <1>6, <2>1
<1>8. /\ ipd'.remaining = u - 1 /\ ipd'.matchPos = 0
      /\ ipd'.state = IF u - 1 = 0 THEN "ScanForIpd" ELSE "CopyPayload"
  BY <1>2, <1>5, <1>6, <1>7 DEF IpdType
<1>9. Unread' = Append(Unread, c)
  <2>1. tx' = tx
    BY DEF FeedByte
  <2>2. UnreadOf(rx') = IF q < RxSize THEN Append(Unread, c) ELSE Unread
    BY <1>1, <1>3, <2>1, CopyPayloadOK, Halves
  <2> QED BY <1>1, <1>2, <2>2 DEF Unread, UnreadOf
<1>10. Place(ipd', line', uart', link')
  <2>1. CASE u = 1
    <3>1. uart' = <<>>
      BY <1>1, <2>1, EmptySeq
    <3> QED BY <1>2, <1>3, <1>8, <2>1, <3>1 DEF Place, Between, Resting
  <2>2. CASE u # 1
    <3>1. Len(uart') \in 1..link.payload /\ u - 1 # 0
      BY <1>1, <1>2, <1>4, <2>2
    <3>2. InPayload(ipd', line', uart', link')
      BY <1>1, <1>2, <1>3, <1>8, <3>1 DEF InPayload
    <3> QED BY <3>2 DEF Place
  <2> QED BY <2>1, <2>2
<1>11. Rest(uart, link.payload) = u /\ Rest(uart', link.payload) = u - 1
  <2>1. (u < link.payload \/ u = link.payload) /\ u - 1 < link.payload
    BY <1>1, <1>2, <1>4
  <2> QED BY <1>1, <2>1 DEF Rest
<1>12. /\ taken + q + u = link.sent
       /\ \A i \in 1..q : Unread[i] = Response[taken + i]
       /\ \A d \in 0..(u - 1) : uart[u - d] = Response[link.sent - d]
  BY <1>11 DEF Streamed
<1>13. /\ Len(Unread') = q + 1
       /\ \A i \in 1..q : Unread'[i] = Unread[i]
       /\ Unread'[q + 1] = c
  BY <1>1, <1>4, <1>9, AppendProperties
<1>14. \A i \in 1..(q + 1) : Unread'[i] = Response[taken + i]
  <2>1. c = Response[taken + (q + 1)]
    <3>1. u - 1 \in 0..(u - 1) /\ u - (u - 1) = 1 /\ link.sent - (u - 1) = taken + (q + 1)
      BY <1>1, <1>4, <1>12
    <3>2. uart[u - (u - 1)] = Response[link.sent - (u - 1)]
      BY <1>12, <3>1
    <3> QED BY <3>1, <3>2
  <2>2. \A i \in 1..(q + 1) : i \in 1..q \/ i = q + 1
    BY <1>4
  <2> QED BY <1>12, <1>13, <2>1, <2>2
<1>15. ASSUME NEW d \in 0..((u - 1) - 1) PROVE uart'[(u - 1) - d] = Response[link.sent - d]
  <2>1. (u - 1) - d \in 1..(u - 1) /\ ((u - 1) - d) + 1 = u - d /\ d \in 0..(u - 1)
    BY <1>1
  <2>2. uart'[(u - 1) - d] = uart[u - d]
    BY <1>1, <2>1
  <2> QED BY <1>12, <2>1, <2>2
<1>16. taken + (q + 1) + (u - 1) = link.sent
  BY <1>1, <1>4, <1>12
<1>17. Streamed(taken', Unread', uart', link'.sent, link'.payload)
  BY <1>1, <1>11, <1>13, <1>14, <1>15, <1>16 DEF Streamed
<1> QED BY <1>2, <1>3, <1>10, <1>17

(* Reading a byte keeps the client in step. *)
LEMMA FeedByteSync ==
  ASSUME IInv, InSync, FeedByte
  PROVE  InSync'
<1> SUFFICES ASSUME clean'
             PROVE  /\ connected' <=> link'.up \/ uart' # <<>>
                    /\ Place(ipd', line', uart', link')
                    /\ Streamed(taken', Unread', uart', link'.sent, link'.payload)
  BY DEF InSync
<1>1. /\ link' = link /\ clean /\ Len(uart') = Len(uart) - 1 /\ uart' \in Seq(Byte)
      /\ Len(uart) \in Nat \ {0}
  BY OneByte
<1>2. /\ connected <=> link.up \/ uart # <<>>
      /\ Place(ipd, line, uart, link)
      /\ Streamed(taken, Unread, uart, link.sent, link.payload)
  BY <1>1 DEF InSync
<1>3. connected
  BY <1>2 DEF FeedByte
<1>4. link.payload \in Nat
  BY Counts
<1>5. CASE Between(ipd, line, uart, link)
  <2>1. /\ Between(ipd', line', uart', link') /\ link.up /\ link.payload = 0
        /\ connected' = connected /\ rx' = rx
    BY <1>5, BetweenStep
  <2>2. link.payload <= Len(uart')
    BY <1>1, <2>1
  <2>3. Streamed(taken', Unread', uart', link'.sent, link'.payload)
    BY <1>2, <2>1, <2>2, StreamSkips
  <2> QED BY <1>1, <1>3, <2>1, <2>3 DEF Place
<1>6. CASE InHeader(ipd, line, uart, link)
  <2>1. PICK j \in 0..9 : InHeaderAt(ipd, line, uart, link, j)
    BY <1>6 DEF InHeader
  <2>2. /\ rx' = rx /\ connected' = connected /\ link.up
        /\ Len(uart') >= link.payload
        /\ InHeader(ipd', line', uart', link') \/ InPayload(ipd', line', uart', link')
    BY <2>1, HeaderStep
  <2>3. link.payload <= Len(uart')
    BY <1>1, <1>4, <2>2
  <2>4. Streamed(taken', Unread', uart', link'.sent, link'.payload)
    BY <1>2, <2>2, <2>3, StreamSkips
  <2> QED BY <1>1, <1>3, <2>2, <2>4 DEF Place
<1>7. CASE InPayload(ipd, line, uart, link)
  <2>1. /\ connected' = connected /\ link.up
        /\ Place(ipd', line', uart', link')
        /\ Streamed(taken', Unread', uart', link'.sent, link'.payload)
    BY <1>2, <1>7, PayloadStep
  <2> QED BY <1>1, <1>3, <2>1
<1>8. CASE InClosing(ipd, line, uart, link)
  <2>1. PICK j \in 0..7 : InClosingAt(ipd, line, uart, link, j)
    BY <1>8 DEF InClosing
  <2>2. /\ rx' = rx
        /\ j < 7 => InClosingAt(ipd', line', uart', link', j + 1) /\ connected' = connected
        /\ j = 7 => Between(ipd', line', uart', link') /\ ~connected'
    BY <2>1, ClosingStep
  <2>3. /\ ~link.up /\ link.payload = 0 /\ Len(uart) = 8 - j
    BY <2>1 DEF InClosingAt
  <2>4. link.payload <= Len(uart')
    BY <1>1, <2>3
  <2>5. Streamed(taken', Unread', uart', link'.sent, link'.payload)
    BY <1>2, <2>2, <2>4, StreamSkips
  <2>6. CASE j < 7
    <3>1. j + 1 \in 0..7 /\ Len(uart') # 0
      BY <1>1, <2>3, <2>6
    <3>2. uart' # <<>>
      BY <1>1, <3>1, EmptySeq
    <3>3. InClosing(ipd', line', uart', link') /\ connected' = connected
      BY <2>2, <2>6, <3>1 DEF InClosing
    <3> QED BY <1>3, <2>5, <3>2, <3>3 DEF Place
  <2>7. CASE j = 7
    <3>1. Len(uart') = 0
      BY <1>1, <2>3, <2>7
    <3>2. uart' = <<>>
      BY <1>1, <3>1, EmptySeq
    <3> QED BY <1>1, <2>2, <2>3, <2>5, <2>7, <3>2 DEF Place
  <2>8. j < 7 \/ j = 7
    OBVIOUS
  <2> QED BY <2>6, <2>7, <2>8
<1> QED BY <1>2, <1>5, <1>6, <1>7, <1>8 DEF Place

-----------------------------------------------------------------------------
(* The modem's steps.                                                      *)

(* With nothing in the UART the client is between two messages. *)
LEMMA EmptyPlace ==
  ASSUME IInv, uart = <<>>, Place(ipd, line, uart, link)
  PROVE  Resting(ipd, line) /\ Rest(uart, link.payload) = 0
<1>1. Len(uart) = 0 /\ link.payload \in Nat
  BY Counts
<1>2. ~InHeader(ipd, line, uart, link)
  <2> SUFFICES ASSUME NEW j \in 0..9, InHeaderAt(ipd, line, uart, link, j) PROVE FALSE
    BY DEF InHeader
  <2>1. /\ HeaderSize(link.payload) \in {9, 10} /\ j < HeaderSize(link.payload)
        /\ Len(uart) = HeaderSize(link.payload) - j + link.payload
    BY DEF InHeaderAt, HeaderSize
  <2> QED BY <1>1, <2>1
<1>3. ~InPayload(ipd, line, uart, link)
  BY <1>1 DEF InPayload
<1>4. ~InClosing(ipd, line, uart, link)
  <2> SUFFICES ASSUME NEW j \in 0..7, InClosingAt(ipd, line, uart, link, j) PROVE FALSE
    BY DEF InClosing
  <2>1. Len(uart) = 8 - j
    BY DEF InClosingAt
  <2> QED BY <1>1, <2>1
<1>5. Rest(uart, link.payload) = 0
  BY <1>1 DEF Rest
<1> QED BY <1>2, <1>3, <1>4, <1>5 DEF Place, Between

(* A frame: its header, and the next n bytes of the response. *)
LEMMA FrameBytes ==
  ASSUME IInv, NEW n \in FrameSizes, SendFrame(n)
  PROVE  /\ uart' \in Seq(Byte) /\ Len(uart') = HeaderSize(n) + n
         /\ \A j \in 1..HeaderSize(n) : uart'[j] = HeaderByte(n, j)
         /\ \A i \in 1..n : uart'[HeaderSize(n) + i] = Response[link.sent + i]
<1>1. /\ n \in 1..99 /\ link.sent \in Nat /\ Len(Response) \in Nat /\ link.sent + n <= Len(Response)
  <2>1. n \in 1..99
    BY SizeAssumption
  <2>2. Len(Response) \in Nat
    BY ResponseAssumption, LenProperties
  <2> QED BY <2>1, <2>2, Counts DEF SendFrame
<1> DEFINE data == SubSeq(Response, link.sent + 1, link.sent + n)
           digits == Decimal(n)
           size == HeaderSize(n)
<1>2. /\ data \in Seq(Byte) /\ Len(data) = n
      /\ \A i \in 1..n : data[i] = Response[link.sent + i]
  <2> DEFINE a == link.sent + 1
             b == link.sent + n
  <2>1. a \in Nat \ {0} /\ b \in 0..Len(Response) /\ b - a + 1 = n /\ a <= b
        /\ \A i \in 1..n : a + i - 1 = link.sent + i
    BY <1>1
  <2> HIDE DEF a, b
  <2>2. /\ SubSeq(Response, a, b) \in Seq(Byte)
        /\ Len(SubSeq(Response, a, b)) = IF a <= b THEN b - a + 1 ELSE 0
        /\ \A i \in 1..(b - a + 1) : SubSeq(Response, a, b)[i] = Response[a + i - 1]
    BY <2>1, ResponseAssumption, PieceTyped
  <2> QED BY <2>1, <2>2 DEF a, b
<1>3. digits \in Seq(Byte) /\ Len(digits) = size - 8
  <2>1. CASE n < 10
    <3>1. ZERO + n \in Byte
      BY <1>1, <2>1 DEF ZERO, Byte
    <3> QED BY <2>1, <3>1 DEF Decimal, HeaderSize
  <2>2. CASE ~(n < 10)
    <3>1. ZERO + n \div 10 \in Byte /\ ZERO + (n % 10) \in Byte
      BY <1>1 DEF ZERO, Byte
    <3> QED BY <2>2, <3>1 DEF Decimal, HeaderSize
  <2> QED BY <2>1, <2>2
<1>4. /\ <<CR, LF>> \in Seq(Byte) /\ IPD_PREFIX \in Seq(Byte) /\ <<COLON>> \in Seq(Byte)
      /\ Len(<<CR, LF>>) = 2 /\ Len(IPD_PREFIX) = 5 /\ Len(<<COLON>>) = 1 /\ <<COLON>>[1] = COLON
  BY DEF Byte, CR, LF, IPD_PREFIX, PLUS, COMMA, COLON
<1>5. uart' = <<CR, LF>> \o IPD_PREFIX \o digits \o <<COLON>> \o data
  BY DEF SendFrame, Frame
<1>6. size \in {9, 10}
  BY DEF HeaderSize
<1> HIDE DEF data, digits, size
<1> DEFINE prefix == <<CR, LF>> \o IPD_PREFIX
<1>7. /\ prefix \in Seq(Byte) /\ Len(prefix) = 7
      /\ \A j \in 1..7 : prefix[j] = IF j <= 2 THEN <<CR, LF>>[j] ELSE IPD_PREFIX[j - 2]
  <2> DEFINE a == <<CR, LF>>
             b == IPD_PREFIX
  <2>1. a \in Seq(Byte) /\ Len(a) = 2 /\ b \in Seq(Byte) /\ Len(b) = 5
    BY <1>4
  <2> HIDE DEF a, b
  <2>2. /\ a \o b \in Seq(Byte) /\ Len(a \o b) = Len(a) + Len(b)
        /\ \A j \in 1..(Len(a) + Len(b)) : (a \o b)[j] = IF j <= Len(a) THEN a[j] ELSE b[j - Len(a)]
    BY <2>1, ConcatProperties
  <2>3. Len(a) + Len(b) = 7
    BY <2>1
  <2> QED BY <2>1, <2>2, <2>3 DEF a, b
<1> HIDE DEF prefix
<1> DEFINE length == prefix \o digits
<1>8. /\ length \in Seq(Byte) /\ Len(length) = size - 1
      /\ \A j \in 1..(size - 1) : length[j] = IF j <= 7 THEN prefix[j] ELSE digits[j - 7]
  <2>1. Len(prefix) + Len(digits) = size - 1
    BY <1>3, <1>6, <1>7
  <2>2. /\ length \in Seq(Byte) /\ Len(length) = Len(prefix) + Len(digits)
        /\ \A j \in 1..(Len(prefix) + Len(digits)) :
             length[j] = IF j <= Len(prefix) THEN prefix[j] ELSE digits[j - Len(prefix)]
    BY <1>3, <1>7, ConcatProperties
  <2> QED BY <1>7, <2>1, <2>2
<1> HIDE DEF length
<1> DEFINE header == length \o <<COLON>>
<1>9. /\ header \in Seq(Byte) /\ Len(header) = size
      /\ \A j \in 1..size : header[j] = IF j <= size - 1 THEN length[j] ELSE COLON
  <2>1. /\ header \in Seq(Byte) /\ Len(header) = (size - 1) + 1
        /\ \A j \in 1..((size - 1) + 1) :
             header[j] = IF j <= size - 1 THEN length[j] ELSE <<COLON>>[j - (size - 1)]
    BY <1>4, <1>8, ConcatProperties
  <2>2. (size - 1) + 1 = size /\ \A j \in 1..size : ~(j <= size - 1) => j - (size - 1) = 1
    BY <1>6
  <2> QED BY <1>4, <2>1, <2>2
<1> HIDE DEF header
<1>10. /\ uart' \in Seq(Byte) /\ Len(uart') = size + n
       /\ \A j \in 1..(size + n) : uart'[j] = IF j <= size THEN header[j] ELSE data[j - size]
  <2>1. uart' = header \o data
    BY <1>5 DEF header, length, prefix
  <2>2. /\ header \o data \in Seq(Byte) /\ Len(header \o data) = size + n
        /\ \A j \in 1..(size + n) : (header \o data)[j] = IF j <= size THEN header[j] ELSE data[j - size]
    BY <1>2, <1>9, ConcatProperties
  <2> QED BY <2>1, <2>2
<1>11. ASSUME NEW j \in 1..size PROVE uart'[j] = HeaderByte(n, j)
  <2>1. j \in 1..(size + n) /\ j <= size
    BY <1>1, <1>6
  <2>2. uart'[j] = header[j]
    BY <1>10, <2>1
  <2>3. CASE j = size
    <3>1. ~(j <= size - 1) /\ ~(j <= 2) /\ ~(j <= 7) /\ ~(j < size)
      BY <1>6, <2>3
    <3> QED BY <1>9, <2>2, <3>1 DEF HeaderByte, size
  <2>4. CASE j # size
    <3>1. j \in 1..(size - 1) /\ j <= size - 1 /\ j < size
      BY <1>6, <2>4
    <3>2. uart'[j] = IF j <= 7 THEN prefix[j] ELSE digits[j - 7]
      BY <1>8, <1>9, <2>2, <3>1
    <3>3. CASE j <= 7
      <4>1. j \in 1..7
        BY <3>3
      <4> QED BY <1>7, <3>2, <3>3, <4>1 DEF HeaderByte
    <3>4. CASE ~(j <= 7)
      <4>1. ~(j <= 2)
        BY <3>4
      <4> QED BY <3>1, <3>2, <3>4, <4>1 DEF HeaderByte, digits, size
    <3> QED BY <3>3, <3>4
  <2> QED BY <2>3, <2>4
<1>12. ASSUME NEW i \in 1..n PROVE uart'[size + i] = Response[link.sent + i]
  <2>1. size + i \in 1..(size + n) /\ ~(size + i <= size) /\ (size + i) - size = i
    BY <1>1, <1>6
  <2>2. uart'[size + i] = data[i]
    BY <1>10, <2>1
  <2> QED BY <1>2, <2>2
<1> QED BY <1>10, <1>11, <1>12 DEF size

LEMMA SendFrameSync ==
  ASSUME IInv, InSync, NEW n \in FrameSizes, SendFrame(n)
  PROVE  InSync'
<1> SUFFICES ASSUME clean
             PROVE  /\ connected <=> link'.up \/ uart' # <<>>
                    /\ Place(ipd, line, uart', link')
                    /\ Streamed(taken, Unread, uart', link'.sent, link'.payload)
  BY DEF InSync, SendFrame, clientVars, callerVars, Unread
<1> DEFINE size == HeaderSize(n)
<1>1. /\ uart' \in Seq(Byte) /\ Len(uart') = size + n
      /\ \A j \in 1..size : uart'[j] = HeaderByte(n, j)
      /\ \A i \in 1..n : uart'[size + i] = Response[link.sent + i]
  BY FrameBytes
<1>2. n \in 1..99 /\ size \in {9, 10}
  BY SizeAssumption DEF HeaderSize
<1>3. /\ taken \in Nat /\ link.sent \in Nat /\ Len(Unread) \in Nat /\ link \in LinkType
  BY Counts
<1>4. /\ uart = <<>> /\ link.up
      /\ link'.up /\ link'.sent = link.sent + n /\ link'.payload = n
  BY <1>3 DEF SendFrame, LinkType
<1> HIDE DEF size
<1>5. /\ connected /\ Resting(ipd, line) /\ Rest(uart, link.payload) = 0
  BY <1>4, EmptyPlace DEF InSync
<1>6. /\ taken + Len(Unread) = link.sent
      /\ \A i \in 1..Len(Unread) : Unread[i] = Response[taken + i]
  <2>1. /\ taken + Len(Unread) + 0 = link.sent
        /\ \A i \in 1..Len(Unread) : Unread[i] = Response[taken + i]
    BY <1>5 DEF InSync, Streamed
  <2> QED BY <1>3, <2>1
<1>7. Place(ipd, line, uart', link')
  <2>1. HeaderState(ipd, line, n, 0)
    BY <1>5 DEF HeaderState, Resting
  <2>2. /\ 0 < size /\ Len(uart') = size - 0 + n
        /\ \A m \in 1..(size - 0) : m \in 1..size /\ 0 + m = m
    BY <1>1, <1>2
  <2>3. InHeaderAt(ipd, line, uart', link', 0)
    BY <1>1, <1>4, <2>1, <2>2 DEF InHeaderAt, size
  <2> QED BY <2>3 DEF Place, InHeader
<1>8. Rest(uart', n) = n
  <2>1. ~(size + n < n)
    BY <1>2
  <2> QED BY <1>1, <2>1 DEF Rest
<1>9. ASSUME NEW d \in 0..(n - 1) PROVE uart'[Len(uart') - d] = Response[(link.sent + n) - d]
  <2>1. n - d \in 1..n /\ (size + n) - d = size + (n - d)
    BY <1>2
  <2>2. (link.sent + n) - d = link.sent + (n - d)
    BY <1>2, <1>3
  <2> QED BY <1>1, <2>1, <2>2
<1>10. taken + Len(Unread) + n = link.sent + n
  BY <1>6
<1>11. Streamed(taken, Unread, uart', link.sent + n, n)
  BY <1>6, <1>8, <1>9, <1>10 DEF Streamed
<1> QED BY <1>4, <1>5, <1>7, <1>11

LEMMA SendClosedSync ==
  ASSUME IInv, InSync, SendClosed
  PROVE  InSync'
<1> SUFFICES ASSUME clean
             PROVE  /\ connected <=> link'.up \/ uart' # <<>>
                    /\ Place(ipd, line, uart', link')
                    /\ Streamed(taken, Unread, uart', link'.sent, link'.payload)
  BY DEF InSync, SendClosed, clientVars, callerVars, Unread
<1>1. /\ taken \in Nat /\ link.sent \in Nat /\ Len(Unread) \in Nat /\ link \in LinkType
  BY Counts
<1>2. /\ uart = <<>> /\ link.up
      /\ ~link'.up /\ link'.sent = link.sent /\ link'.payload = 0
      /\ uart' = CLOSED \o <<CR, LF>>
  BY <1>1 DEF SendClosed, ClosedLine, LinkType
<1>3. /\ connected /\ Resting(ipd, line) /\ Rest(uart, link.payload) = 0
  BY <1>2, EmptyPlace DEF InSync
<1>4. /\ uart' \in Seq(Byte) /\ Len(uart') = 8
      /\ \A m \in 1..8 : uart'[m] = ClosingByte(m)
  <2>1. /\ CLOSED \in Seq(Byte) /\ Len(CLOSED) = 6
        /\ <<CR, LF>> \in Seq(Byte) /\ Len(<<CR, LF>>) = 2
    BY DEF CLOSED, CR, LF, Byte
  <2> DEFINE a == CLOSED
             b == <<CR, LF>>
  <2> HIDE DEF a, b
  <2>2. /\ a \o b \in Seq(Byte) /\ Len(a \o b) = Len(a) + Len(b)
        /\ \A m \in 1..(Len(a) + Len(b)) : (a \o b)[m] = IF m <= Len(a) THEN a[m] ELSE b[m - Len(a)]
    <3>1. a \in Seq(Byte) /\ b \in Seq(Byte)
      BY <2>1 DEF a, b
    <3> QED BY <3>1, ConcatProperties
  <2>3. Len(a) = 6 /\ Len(a) + Len(b) = 8
    BY <2>1 DEF a, b
  <2>4. /\ uart' \in Seq(Byte) /\ Len(uart') = 8
        /\ \A m \in 1..8 : uart'[m] = IF m <= 6 THEN a[m] ELSE b[m - 6]
    BY <1>2, <2>2, <2>3 DEF a, b
  <2> QED BY <2>4 DEF ClosingByte, a, b
<1>5. uart' # <<>>
  BY <1>4, EmptySeq
<1>6. Place(ipd, line, uart', link')
  <2>1. /\ ipd.state = "ScanForIpd" /\ ipd.matchPos = 0 /\ ~line.overflowed /\ line.text = <<>>
        /\ Len(line.text) = 0
    BY <1>3 DEF Resting
  <2>2. /\ Len(uart') = 8 - 0 /\ \A m \in 1..(8 - 0) : uart'[m] = ClosingByte(0 + m)
    BY <1>4
  <2>3. Len(line.text) = (IF 0 <= 6 THEN 0 ELSE 6) /\ \A m \in 1..Len(line.text) : line.text[m] = CLOSED[m]
    BY <2>1
  <2>4. InClosingAt(ipd, line, uart', link', 0)
    BY <1>2, <2>1, <2>2, <2>3 DEF InClosingAt
  <2> QED BY <2>4 DEF Place, InClosing
<1>7. Rest(uart', 0) = 0
  BY <1>4 DEF Rest
<1>8. /\ taken + Len(Unread) + 0 = link.sent
      /\ \A i \in 1..Len(Unread) : Unread[i] = Response[taken + i]
  BY <1>3 DEF InSync, Streamed
<1>9. Streamed(taken, Unread, uart', link.sent, 0)
  BY <1>7, <1>8 DEF Streamed
<1> QED BY <1>2, <1>3, <1>5, <1>6, <1>9

(* The payload bytes in the UART are its last ones. *)
LEMMA PendingTyped ==
  ASSUME IInv
  PROVE  LET r == Rest(uart, link.payload)
         IN /\ Pending \in Seq(Byte) /\ Len(Pending) = r
            /\ \A i \in 1..r : Pending[i] = uart[Len(uart) - (r - i)]
<1> DEFINE r == Rest(uart, link.payload)
           a == (IF Len(uart) > link.payload THEN Len(uart) - link.payload ELSE 0) + 1
           b == Len(uart)
<1>1. uart \in Seq(Byte) /\ b \in Nat /\ r \in 0..b /\ link.payload \in Nat
  BY Counts
<1>2. a = b - r + 1
  BY <1>1 DEF Rest
<1> HIDE DEF r, a, b
<1>3. a \in Nat \ {0} /\ b \in 0..Len(uart)
  BY <1>1, <1>2 DEF b
<1>4. /\ SubSeq(uart, a, b) \in Seq(Byte)
      /\ Len(SubSeq(uart, a, b)) = IF a <= b THEN b - a + 1 ELSE 0
      /\ \A i \in 1..(b - a + 1) : SubSeq(uart, a, b)[i] = uart[a + i - 1]
  BY <1>1, <1>3, PieceTyped
<1>5. /\ (IF a <= b THEN b - a + 1 ELSE 0) = r /\ b - a + 1 = r
      /\ \A i \in 1..r : a + i - 1 = b - (r - i)
  BY <1>1, <1>2
<1>6. Pending = SubSeq(uart, a, b)
  BY DEF Pending, a, b
<1> QED BY <1>4, <1>5, <1>6 DEF r, b

(* An AT exchange that throws nothing away leaves what it found, or the    *)
(* end of its own line.                                                    *)
LEMMA SendRequestSync ==
  ASSUME IInv, InSync, SendRequest
  PROVE  InSync'
<1> SUFFICES ASSUME clean'
             PROVE  /\ connected' <=> link'.up \/ uart' # <<>>
                    /\ Place(ipd', line', uart', link')
                    /\ Streamed(taken', Unread', uart', link'.sent, link'.payload)
  BY DEF InSync
<1>1. /\ UNCHANGED <<ipd, line, rx, connected, taken>>
      /\ uart' \in {<<>>, <<CR, LF>>}
      /\ clean /\ link.up /\ Pending = <<>>
      /\ link'.up /\ link'.sent = link.sent /\ link'.payload = 0
  <2>1. PICK n \in FrameSizes \cup {0}, late \in BOOLEAN : Swallow(n, late)
    <3>1. Exchange /\ ClientOK /\ OthersOK
      BY Halves DEF SendRequest
    <3>2. PICK prompts \in BOOLEAN, found \in BOOLEAN, lost \in 0..Len(tx), size \in CmdSizes :
            CipSend(prompts, found, lost, Waiting(prompts), Bytes(prompts, found, lost, size))
      BY <3>1, ExchangeOK
    <3> QED BY <3>2 DEF CipSend
  <2>2. PICK up \in {link.up, FALSE} :
          /\ \/ Leftover
             \/ n > 0 /\ uart' \in Rests(Frame(n))
             \/ link.up /\ ~up /\ uart' \in Rests(ClosedLine)
             \/ late /\ uart' \in Rests(<<GT, SPACE>>)
          /\ link' = [up |-> up, sent |-> link.sent + n, payload |-> n]
          /\ clean' = (clean /\ up /\ n = 0 /\ Pending = <<>> /\ ~late)
    BY <2>1 DEF Swallow
  <2>3. clean /\ up /\ n = 0 /\ Pending = <<>> /\ ~late
    <3>1. clean \in BOOLEAN
      BY DEF IInv, TypeOK
    <3> QED BY <2>2, <3>1
  <2>4. link.up
    BY <2>3
  <2>5. link.sent + n = link.sent
    BY <2>3, Counts
  <2>6. uart' \in {<<>>, <<CR, LF>>}
    BY <2>2, <2>3 DEF Leftover
  <2> QED BY <2>2, <2>3, <2>4, <2>5, <2>6 DEF SendRequest, callerVars
<1>2. /\ connected /\ Place(ipd, line, uart, link)
      /\ Streamed(taken, Unread, uart, link.sent, link.payload)
  BY <1>1 DEF InSync
<1>3. Rest(uart, link.payload) = 0
  <2>1. Len(Pending) = 0
    BY <1>1
  <2> QED BY <2>1, PendingTyped
<1>4. /\ link.payload \in Nat /\ Len(uart) \in Nat
  BY Counts
<1>5. Resting(ipd, line)
  <2>1. ~InHeader(ipd, line, uart, link)
    <3> SUFFICES ASSUME NEW j \in 0..9, InHeaderAt(ipd, line, uart, link, j) PROVE FALSE
      BY DEF InHeader
    <3>1. /\ HeaderSize(link.payload) \in {9, 10} /\ j < HeaderSize(link.payload)
          /\ link.payload \in 1..99
          /\ Len(uart) = HeaderSize(link.payload) - j + link.payload
      BY SizeAssumption DEF InHeaderAt, HeaderSize
    <3>2. ~(Len(uart) < link.payload) /\ link.payload # 0
      <4> DEFINE size == HeaderSize(link.payload)
                 p == link.payload
                 u == Len(uart)
      <4>1. size \in {9, 10} /\ j < size /\ p \in 1..99 /\ u = size - j + p
        BY <3>1
      <4> HIDE DEF size, p, u
      <4>2. size - j >= 1 /\ size - j \in Nat
        BY <4>1
      <4>3. ~(u < p) /\ p # 0
        BY <4>1, <4>2
      <4> QED BY <4>3 DEF p, u
    <3> QED BY <1>3, <3>2 DEF Rest
  <2>2. ~InPayload(ipd, line, uart, link)
    <3>1. Len(uart) \in 1..link.payload => Rest(uart, link.payload) # 0
      BY <1>4 DEF Rest
    <3> QED BY <1>3, <3>1 DEF InPayload
  <2>3. ~InClosing(ipd, line, uart, link)
    BY <1>1 DEF InClosing, InClosingAt
  <2> QED BY <1>2, <2>1, <2>2, <2>3 DEF Place, Between
<1>6. Place(ipd', line', uart', link')
  BY <1>1, <1>5 DEF Place, Between, Resting
<1>7. Rest(uart', 0) = 0
  <2>1. Len(uart') = 0 \/ Len(uart') = 2
    BY <1>1
  <2> QED BY <2>1 DEF Rest
<1>8. Streamed(taken', Unread', uart', link'.sent, link'.payload)
  <2>1. Unread' = Unread
    BY <1>1 DEF Unread
  <2> QED BY <1>1, <1>2, <1>3, <1>7, <2>1 DEF Streamed
<1> QED BY <1>1, <1>2, <1>6, <1>8

-----------------------------------------------------------------------------
(* The caller's steps.                                                     *)

(* A new connection starts in step, however the one before it was torn. *)
LEMMA ConnectSync ==
  ASSUME Connect
  PROVE  InSync'
<1> SUFFICES ASSUME clean'
             PROVE  /\ connected' <=> link'.up \/ uart' # <<>>
                    /\ Place(ipd', line', uart', link')
                    /\ Streamed(taken', Unread', uart', link'.sent, link'.payload)
  BY DEF InSync
<1>1. PICK closes \in BOOLEAN, opens \in BOOLEAN, ok \in BOOLEAN :
        /\ Reset /\ Leftover
        /\ link' = IF link.up /\ ~closes THEN [link EXCEPT !.payload = 0]
                   ELSE [up |-> opens, sent |-> 0, payload |-> 0]
        /\ connected' = ok
        /\ clean' = (ok /\ opens /\ ~(link.up /\ ~closes))
        /\ taken' = 0
  BY DEF Connect
<1>2. ok /\ opens /\ ~(link.up /\ ~closes)
  BY <1>1
<1>3. connected' /\ link'.up /\ link'.sent = 0 /\ link'.payload = 0
  BY <1>1, <1>2
<1>4. Unread' = <<>>
  BY <1>1, ResetOK
<1>5. uart' \in {<<>>, <<CR, LF>>}
  BY <1>1 DEF Leftover
<1>6. Place(ipd', line', uart', link')
  BY <1>1, <1>3, <1>5 DEF Place, Between, Resting, Reset, NoFrame, EmptyLine
<1>7. Rest(uart', 0) = 0
  <2>1. Len(uart') = 0 \/ Len(uart') = 2
    BY <1>5
  <2> QED BY <2>1 DEF Rest
<1>8. Streamed(0, <<>>, uart', 0, 0)
  <2>1. Len(<<>>) = 0
    OBVIOUS
  <2> QED BY <1>7, <2>1 DEF Streamed
<1> QED BY <1>1, <1>3, <1>4, <1>6, <1>8

(* What is read moves from the unread bytes to the taken ones. *)
LEMMA ReadSync ==
  ASSUME IInv, InSync, NEW n \in 1..Len(Unread), Read(n)
  PROVE  InSync'
<1> SUFFICES ASSUME clean
             PROVE  Streamed(taken', Unread', uart, link.sent, link.payload)
  BY DEF InSync, Read, modemVars
<1>1. /\ taken \in Nat /\ Unread \in Seq(Byte) /\ Len(Unread) \in Nat
      /\ Rest(uart, link.payload) \in Nat
  BY Counts
<1>2. taken' = taken + n /\ rx' = [Compacted EXCEPT !.head = n]
  BY DEF Read
<1>3. Unread' = SubSeq(Unread, n + 1, Len(Unread))
  <2>1. rx'.buf = Unread /\ rx'.head = n
    BY <1>2 DEF Compacted
  <2> QED BY <2>1 DEF Unread
<1> DEFINE q == Len(Unread)
           r == Rest(uart, link.payload)
<1>4. /\ Len(Unread') = q - n
      /\ \A i \in 1..(q - n) : Unread'[i] = Unread[n + i]
  <2>1. n + 1 \in Nat \ {0} /\ q \in 0..Len(Unread)
    BY <1>1
  <2> DEFINE piece == SubSeq(Unread, n + 1, q)
  <2>2. /\ Len(piece) = IF n + 1 <= q THEN q - (n + 1) + 1 ELSE 0
        /\ \A i \in 1..(q - (n + 1) + 1) : piece[i] = Unread[(n + 1) + i - 1]
    BY <1>1, <2>1, PieceTyped
  <2>3. /\ q - (n + 1) + 1 = q - n /\ (IF n + 1 <= q THEN q - (n + 1) + 1 ELSE 0) = q - n
        /\ \A i \in 1..(q - n) : (n + 1) + i - 1 = n + i
    BY <1>1
  <2> HIDE DEF piece
  <2>4. Len(piece) = q - n /\ \A i \in 1..(q - n) : piece[i] = Unread[n + i]
    BY <2>2, <2>3
  <2> QED BY <1>3, <2>4 DEF piece
<1>5. /\ taken + q + r = link.sent
      /\ \A i \in 1..q : Unread[i] = Response[taken + i]
      /\ \A d \in 0..(r - 1) : uart[Len(uart) - d] = Response[link.sent - d]
  BY DEF InSync, Streamed
<1> HIDE DEF q, r
<1>6. ASSUME NEW i \in 1..(q - n) PROVE Unread'[i] = Response[(taken + n) + i]
  <2>1. n + i \in 1..q /\ taken + (n + i) = (taken + n) + i
    BY <1>1 DEF q
  <2> QED BY <1>4, <1>5, <2>1
<1>7. (taken + n) + (q - n) + r = link.sent
  <2>1. q \in Nat /\ r \in Nat /\ n \in Nat
    BY <1>1 DEF q, r
  <2>2. (taken + n) + (q - n) + r = taken + q + r
    BY <1>1, <2>1
  <2> QED BY <1>5, <2>2
<1>8. Streamed(taken + n, Unread', uart, link.sent, link.payload)
  BY <1>4, <1>5, <1>6, <1>7 DEF Streamed, r
<1> QED BY <1>2, <1>8

(* The steps that leave the stream and the parser alone. *)
LEMMA OthersSync ==
  ASSUME InSync, Unread' = Unread, UNCHANGED <<ipd, line, connected, taken, uart, link, clean>>
  PROVE  InSync'
BY DEF InSync

LEMMA CompactSync ==
  ASSUME IInv, InSync, rx' = Compacted,
         UNCHANGED <<ipd, line, connected, taken, uart, link, clean>>
  PROVE  InSync'
<1>1. rx \in RxType /\ rx.head <= Len(rx.buf)
  BY Halves DEF ClientOK
<1>2. Unread' = Unread
  BY <1>1, UnreadCompacted DEF Unread, UnreadOf
<1> QED BY <1>2, OthersSync

LEMMA SyncStep ==
  ASSUME IInv, InSync, [Next]_vars
  PROVE  InSync'
<1>1. CASE Connect
  BY <1>1, ConnectSync
<1>2. CASE Write
  <2>1. Unread' = Unread
    BY <1>2 DEF Write, Unread
  <2> QED BY <1>2, <2>1, OthersSync DEF Write, modemVars
<1>3. CASE SendRequest
  BY <1>3, SendRequestSync
<1>4. CASE NothingAvailable
  BY <1>4, CompactSync DEF NothingAvailable, modemVars
<1>5. CASE CheckConnected /\ Connected
  BY <1>5, CompactSync DEF CheckConnected, modemVars
<1>6. CASE (CheckConnected /\ ~Connected) \/ Stalled \/ Finish
  BY <1>6 DEF CheckConnected, Stalled, Finish, Stop, InSync
<1>7. CASE FeedByte
  BY <1>7, FeedByteSync
<1>8. CASE \E n \in 1..Len(Unread) : Read(n)
  BY <1>8, ReadSync
<1>9. CASE \E n \in FrameSizes : SendFrame(n)
  BY <1>9, SendFrameSync
<1>10. CASE SendClosed
  BY <1>10, SendClosedSync
<1>11. CASE LoseBytes
  BY <1>11 DEF LoseBytes, InSync
<1>12. CASE UNCHANGED vars
  <2>1. Unread' = Unread
    BY <1>12 DEF vars, Unread
  <2> QED BY <1>12, <2>1, OthersSync DEF vars
<1> QED BY <1>1, <1>2, <1>3, <1>4, <1>5, <1>6, <1>7, <1>8, <1>9, <1>10, <1>11, <1>12
        DEF Next, Caller

LEMMA SyncInvariance == Spec => [](IInv /\ InSync)
<1>1. Init => InSync
  BY DEF Init, InSync
<1>2. IInv /\ InSync /\ [Next]_vars => InSync'
  BY SyncStep
<1> QED BY <1>1, <1>2, Invariance, PTL DEF Spec

-----------------------------------------------------------------------------
(* The unread bytes and the payload in the UART, put together. *)
LEMMA SyncExact ==
  ASSUME IInv, InSync
  PROVE  StreamExact
<1> SUFFICES ASSUME clean
             PROVE  Unread \o Pending = SubSeq(Response, taken + 1, link.sent)
  BY DEF StreamExact
<1> DEFINE q == Len(Unread)
           r == Rest(uart, link.payload)
           s == link.sent
           got1 == Unread \o Pending
           sent1 == SubSeq(Response, taken + 1, s)
<1>1. /\ taken \in Nat /\ s \in 0..Len(Response) /\ s \in Nat
      /\ Unread \in Seq(Byte) /\ q \in Nat /\ r \in Nat
  BY Counts
<1>2. /\ Pending \in Seq(Byte) /\ Len(Pending) = r
      /\ \A i \in 1..r : Pending[i] = uart[Len(uart) - (r - i)]
  BY PendingTyped
<1>3. /\ taken + q + r = s
      /\ \A i \in 1..q : Unread[i] = Response[taken + i]
      /\ \A d \in 0..(r - 1) : uart[Len(uart) - d] = Response[s - d]
  BY DEF InSync, Streamed
<1>4. /\ got1 \in Seq(Byte) /\ Len(got1) = q + r
      /\ \A i \in 1..(q + r) : got1[i] = IF i <= q THEN Unread[i] ELSE Pending[i - q]
  <2>1. /\ got1 \in Seq(Byte) /\ Len(got1) = Len(Unread) + Len(Pending)
        /\ \A i \in 1..(Len(Unread) + Len(Pending)) :
             got1[i] = IF i <= Len(Unread) THEN Unread[i] ELSE Pending[i - Len(Unread)]
    BY <1>1, <1>2, ConcatProperties
  <2>2. Len(Pending) = r
    BY <1>2
  <2> HIDE DEF r, got1
  <2> QED BY <2>1, <2>2
<1>5. /\ sent1 \in Seq(Byte)
      /\ Len(sent1) = IF taken + 1 <= s THEN s - (taken + 1) + 1 ELSE 0
      /\ \A i \in 1..(s - (taken + 1) + 1) : sent1[i] = Response[(taken + 1) + i - 1]
  <2>1. taken + 1 \in Nat \ {0}
    BY <1>1
  <2> QED BY <1>1, <2>1, ResponseAssumption, PieceTyped
<1> HIDE DEF q, r, s, got1, sent1
<1>6. Len(sent1) = q + r /\ \A i \in 1..(q + r) : sent1[i] = Response[taken + i]
  <2>1. /\ s - (taken + 1) + 1 = q + r
        /\ (IF taken + 1 <= s THEN s - (taken + 1) + 1 ELSE 0) = q + r
    BY <1>1, <1>3
  <2>2. \A i \in 1..(q + r) : (taken + 1) + i - 1 = taken + i
    BY <1>1
  <2> QED BY <1>5, <2>1, <2>2
<1>7. ASSUME NEW i \in 1..(q + r) PROVE got1[i] = Response[taken + i]
  <2>1. CASE i <= q
    <3>1. i \in 1..q
      BY <1>1, <2>1
    <3> QED BY <1>3, <1>4, <2>1, <3>1
  <2>2. CASE ~(i <= q)
    <3>1. i - q \in 1..r /\ r - (i - q) \in 0..(r - 1)
      BY <1>1, <2>2
    <3>2. s - (r - (i - q)) = taken + i
      BY <1>1, <1>3
    <3>3. got1[i] = Pending[i - q]
      BY <1>4, <2>2
    <3>4. Pending[i - q] = uart[Len(uart) - (r - (i - q))]
      BY <1>2, <3>1
    <3>5. uart[Len(uart) - (r - (i - q))] = Response[s - (r - (i - q))]
      BY <1>3, <3>1
    <3> QED BY <3>2, <3>3, <3>4, <3>5
  <2> QED BY <2>1, <2>2
<1>8. got1 = sent1
  BY <1>4, <1>5, <1>6, <1>7, SeqEqual
<1> QED BY <1>8 DEF got1, sent1, s

(* As long as nothing of a connection's stream was lost, what the caller   *)
(* has read, what is unread and the payload in the UART are what the       *)
(* server has sent: for every response and every way to cut it.            *)
THEOREM StreamIsExact == Spec => []StreamExact
BY SyncInvariance, SyncExact, PTL

(* The client knows that a clean connection is closed exactly when it has  *)
(* read the modem's CLOSED line: no data that looks like it disconnects.   *)
THEOREM ClosedWhenSeen == Spec => []ClosedIsSeen
<1>1. IInv /\ InSync => ClosedIsSeen
  BY DEF InSync, ClosedIsSeen
<1> QED BY <1>1, SyncInvariance, PTL

(* A download that ends because the connection is closed has taken all of  *)
(* what the server has sent.                                               *)
THEOREM AllTaken == Spec => NothingLeftBehind
<1>1. IInv /\ InSync /\ [Next]_vars
        => [CheckConnected /\ pc' = "idle" /\ clean => taken = link.sent]_vars
  <2> SUFFICES ASSUME IInv, InSync, CheckConnected, pc' = "idle", clean
               PROVE  taken = link.sent
    OBVIOUS
  <2>1. ~connected /\ Unread = <<>>
    BY DEF CheckConnected, Connected
  <2>2. /\ uart = <<>>
        /\ Streamed(taken, Unread, uart, link.sent, link.payload)
    BY <2>1 DEF InSync
  <2>3. Rest(uart, link.payload) = 0
    BY <2>2, EmptyPlace DEF InSync
  <2>4. taken \in Nat /\ Len(Unread) = 0
    BY <2>1, Counts
  <2>5. taken + Len(Unread) + Rest(uart, link.payload) = link.sent
    BY <2>2 DEF Streamed
  <2> QED BY <2>3, <2>4, <2>5
<1> QED BY <1>1, SyncInvariance, PTL DEF Spec, NothingLeftBehind
=============================================================================
