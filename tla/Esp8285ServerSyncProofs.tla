------------------------ MODULE Esp8285ServerSyncProofs ------------------------
(***************************************************************************)
(* Proof that the byte-level server finds every frame it is fed from the   *)
(* first byte on, in whatever searching state garbage has left it: for all *)
(* well-formed messages of any length, link ids and lengths of any number  *)
(* of digits, and every width of the counters.                             *)
(***************************************************************************)
EXTENDS Esp8285ServerProofs

(* How much of the message has been read. *)
Consumed == Len(msg.bytes) - Len(wire)

(* The UART holds the rest of the message. *)
Remains ==
  /\ Len(wire) <= Len(msg.bytes)
  /\ \A i \in 1..Len(wire) : wire[i] = msg.bytes[Consumed + i]

(* Where the parser is after the first k bytes of a frame. *)
At(k, comma, colon, link, length) ==
  /\ k \in {0, Len(msg.bytes)} => ~InPayload
  /\ k \in 1..4 => ipd.state = "ScanForIpd" /\ ipd.matchPos = k
  /\ k \in 5..(comma - 1) => ipd.state = "ReadLinkId" /\ ipd.linkId = link[k]
  /\ k \in comma..(colon - 1) =>
       ipd.state = "ReadLength" /\ ipd.linkId = msg.link /\ ipd.payloadLen = length[k]
  /\ k \in colon..(Len(msg.bytes) - 1) =>
       InPayload /\ ipd.linkId = msg.link /\ ipd.remaining = Len(msg.bytes) - k

(* ... for every way to read the message as a frame. *)
Tracks ==
  \A comma, colon \in 1..Len(msg.bytes) :
    HeaderOf(msg, comma, colon) =>
      \A link \in Digits(msg, 5, comma - 1, LinkMod), length \in Digits(msg, comma, colon - 1, LenMod) :
        link[comma - 1] = msg.link /\ length[colon - 1] = msg.payload
        => At(Consumed, comma, colon, link, length)

Synced ==
  /\ msg \in Messages \cup {NoMessage}
  /\ whole =>
       /\ Remains
       /\ msg.payload = 0 => ~InPayload
       /\ msg.payload > 0 => Tracks

SInv == IInv /\ Synced

-----------------------------------------------------------------------------
(* A number in its width is not changed by being cut to it. *)
LEMMA ModSmall ==
  ASSUME NEW n \in Nat \ {0}, NEW a \in 0..(n - 1)
  PROVE  a % n = a
OBVIOUS

(* Reading a byte. *)
LEMMA ByteRead ==
  ASSUME IInv, Synced, whole, FeedByte
  PROVE  /\ Consumed \in 0..(Len(msg.bytes) - 1)
         /\ Consumed' = Consumed + 1
         /\ Head(wire) = msg.bytes[Consumed + 1]
         /\ Head(wire) \in Byte
         /\ msg' = msg /\ whole' = whole
         /\ Remains'
<1>1. wire \in Seq(Byte) /\ wire # <<>> /\ msg.bytes \in Seq(Byte)
  BY DEF IInv, TypeOK, FeedByte
<1>2. wire' = Tail(wire) /\ msg' = msg /\ whole' = whole
  BY DEF FeedByte
<1>3. /\ Len(wire) \in Nat \ {0}
      /\ Head(wire) = wire[1] /\ Head(wire) \in Byte
      /\ Len(wire') = Len(wire) - 1
      /\ \A i \in 1..Len(wire') : wire'[i] = wire[i + 1]
  BY <1>1, <1>2, HeadTailProperties, EmptySeq, LenProperties
<1>4. Len(msg.bytes) \in Nat
  BY <1>1, LenProperties
<1>5. Remains
  BY DEF Synced
<1>6. Consumed \in 0..(Len(msg.bytes) - 1) /\ Consumed' = Consumed + 1
  BY <1>2, <1>3, <1>4, <1>5 DEF Consumed, Remains
<1>7. Head(wire) = msg.bytes[Consumed + 1]
  BY <1>3, <1>5 DEF Remains
<1>8. Remains'
  <2> SUFFICES ASSUME NEW i \in 1..Len(wire')
               PROVE  wire'[i] = msg.bytes[Consumed' + i]
    BY <1>2, <1>3, <1>4, <1>5 DEF Remains
  <2>1. i + 1 \in 1..Len(wire) /\ Consumed + (i + 1) = Consumed' + i
    BY <1>3, <1>4, <1>6
  <2> QED BY <2>1, <1>3, <1>5 DEF Remains
<1> QED BY <1>2, <1>3, <1>6, <1>7, <1>8

(* feedByte() *)
Feed(c) ==
  ScanForIpd(c) \/ ReadLinkId(c) \/ ReadLength(c) \/ StartPayload(c) \/ CopyPayload(c) \/ DiscardPayload

(* Which case of feedByte() it is depends on the state and on the colon. *)
LEMMA WhichCase ==
  ASSUME NEW c, Feed(c)
  PROVE  /\ ipd.state = "ScanForIpd" => ScanForIpd(c)
         /\ ipd.state = "ReadLinkId" => ReadLinkId(c)
         /\ ipd.state = "ReadLength" /\ c # COLON => ReadLength(c)
         /\ ipd.state = "ReadLength" /\ c = COLON => StartPayload(c)
         /\ InPayload => CountPayload
BY DEF Feed, ScanForIpd, ReadLinkId, ReadLength, StartPayload, CopyPayload, DiscardPayload, InPayload

(* The '+' that begins a header is found in every searching state. *)
LEMMA FirstByte ==
  ASSUME IInv, ~InPayload, Feed(PLUS)
  PROVE  ipd'.state = "ScanForIpd" /\ ipd'.matchPos = 1
<1>1. ipd \in IpdType /\ ipd.matchPos \in 0..4
  BY DEF IInv, TypeOK, InBounds, IpdType, IPD_PREFIX_LEN
<1>2. ~IsDigit(PLUS) /\ PLUS # COMMA /\ PLUS # COLON
  BY DEF IsDigit, PLUS, COMMA, COLON, ZERO, NINE
<1>3. CASE ipd.state = "ScanForIpd"
  <2>1. ScanForIpd(PLUS)
    BY <1>3, WhichCase
  <2>2. CASE ipd.matchPos = 0
    BY <1>1, <2>1, <2>2 DEF ScanForIpd, IPD_PREFIX, IPD_PREFIX_LEN, PLUS, IpdType
  <2>3. CASE ipd.matchPos # 0
    <3>1. PLUS # IPD_PREFIX[ipd.matchPos + 1]
      BY <1>1, <2>3 DEF IPD_PREFIX, PLUS, COMMA
    <3> QED BY <1>1, <2>1, <3>1 DEF ScanForIpd, Restart, IpdType
  <2> QED BY <2>2, <2>3
<1>4. CASE ipd.state \in {"ReadLinkId", "ReadLength"}
  <2>1. ipd' = Restart(PLUS)
    BY <1>2, <1>4, WhichCase DEF ReadLinkId, ReadLength
  <2> QED BY <1>1, <2>1 DEF Restart, IpdType
<1> QED BY <1>1, <1>3, <1>4 DEF IpdType, States, InPayload

(* The bytes of "+IPD,". *)
LEMMA PrefixByte ==
  ASSUME IInv, NEW k \in 1..4, ipd.state = "ScanForIpd", ipd.matchPos = k, Feed(IPD_PREFIX[k + 1])
  PROVE  /\ k < 4 => ipd'.state = "ScanForIpd" /\ ipd'.matchPos = k + 1
         /\ k = 4 => ipd'.state = "ReadLinkId" /\ ipd'.linkId = 0
<1>1. ipd \in IpdType
  BY DEF IInv, TypeOK, IpdType
<1>2. ipd' = IF k + 1 = 5 THEN [ipd EXCEPT !.state = "ReadLinkId", !.linkId = 0, !.matchPos = 0]
             ELSE [ipd EXCEPT !.matchPos = k + 1]
  BY WhichCase DEF ScanForIpd, IPD_PREFIX_LEN
<1> QED BY <1>1, <1>2 DEF IpdType

(* The digits of the link id, and the comma. *)
LEMMA LinkByte ==
  ASSUME IInv, NEW c \in Byte, ipd.state = "ReadLinkId", Feed(c)
  PROVE  /\ IsDigit(c) /\ ipd.linkId * 10 + (c - ZERO) \in 0..(LinkMod - 1) =>
              ipd'.state = "ReadLinkId" /\ ipd'.linkId = ipd.linkId * 10 + (c - ZERO)
         /\ c = COMMA =>
              ipd'.state = "ReadLength" /\ ipd'.linkId = ipd.linkId /\ ipd'.payloadLen = 0
<1>1. ipd \in IpdType /\ ReadLinkId(c)
  BY WhichCase DEF IInv, TypeOK, IpdType
<1>2. ASSUME IsDigit(c), ipd.linkId * 10 + (c - ZERO) \in 0..(LinkMod - 1)
      PROVE  ipd'.state = "ReadLinkId" /\ ipd'.linkId = ipd.linkId * 10 + (c - ZERO)
  <2>1. (ipd.linkId * 10 + (c - ZERO)) % LinkMod = ipd.linkId * 10 + (c - ZERO)
    BY <1>2, ModSmall, WidthAssumption
  <2>2. ipd' = [ipd EXCEPT !.linkId = ipd.linkId * 10 + (c - ZERO)]
    BY <1>1, <1>2, <2>1 DEF ReadLinkId
  <2> QED BY <1>1, <2>2 DEF IpdType
<1>3. ASSUME c = COMMA
      PROVE  ipd'.state = "ReadLength" /\ ipd'.linkId = ipd.linkId /\ ipd'.payloadLen = 0
  <2>1. ipd' = [ipd EXCEPT !.state = "ReadLength", !.payloadLen = 0]
    BY <1>1, <1>3 DEF ReadLinkId, IsDigit, COMMA, ZERO, NINE
  <2> QED BY <1>1, <2>1 DEF IpdType
<1> QED BY <1>2, <1>3

(* The digits of the length. *)
LEMMA LengthByte ==
  ASSUME IInv, NEW c \in Byte, ipd.state = "ReadLength", Feed(c),
         IsDigit(c), ipd.payloadLen * 10 + (c - ZERO) \in 0..(LenMod - 1)
  PROVE  /\ ipd'.state = "ReadLength" /\ ipd'.linkId = ipd.linkId
         /\ ipd'.payloadLen = ipd.payloadLen * 10 + (c - ZERO)
<1>1. c # COLON
  BY DEF IsDigit, COLON, ZERO, NINE
<1>2. ipd \in IpdType /\ ReadLength(c)
  BY <1>1, WhichCase DEF IInv, TypeOK, IpdType
<1>3. (ipd.payloadLen * 10 + (c - ZERO)) % LenMod = ipd.payloadLen * 10 + (c - ZERO)
  BY ModSmall, WidthAssumption
<1>4. ipd' = [ipd EXCEPT !.payloadLen = ipd.payloadLen * 10 + (c - ZERO)]
  BY <1>2, <1>3 DEF ReadLength
<1> QED BY <1>2, <1>4 DEF IpdType

(* The colon. *)
LEMMA ColonByte ==
  ASSUME IInv, ipd.state = "ReadLength", Feed(COLON), ipd.payloadLen > 0
  PROVE  InPayload' /\ ipd'.linkId = ipd.linkId /\ ipd'.remaining = ipd.payloadLen
<1>1. ipd \in IpdType /\ StartPayload(COLON)
  BY WhichCase DEF IInv, TypeOK, IpdType
<1>2. ipd.payloadLen # 0
  BY <1>1 DEF IpdType
<1>3. PICK s \in {"CopyPayload", "DiscardPayload"} :
        ipd' = [ipd EXCEPT !.state = s, !.remaining = ipd.payloadLen]
  BY <1>1, <1>2 DEF StartPayload
<1> QED BY <1>1, <1>3 DEF IpdType, InPayload

(* The bytes of the payload. *)
LEMMA PayloadByte ==
  ASSUME IInv, NEW c, InPayload, Feed(c)
  PROVE  /\ ipd'.linkId = ipd.linkId /\ ipd'.remaining = ipd.remaining - 1
         /\ InPayload' <=> ipd.remaining # 1
<1>1. ipd \in IpdType /\ CountPayload
  BY WhichCase DEF IInv, TypeOK, IpdType
<1>2. ipd' = [ipd EXCEPT !.remaining = @ - 1,
                         !.state = IF ipd.remaining = 1 THEN "ScanForIpd" ELSE @]
  BY <1>1, CountPayloadInv
<1>3. /\ ipd'.linkId = ipd.linkId /\ ipd'.remaining = ipd.remaining - 1
      /\ ipd'.state = IF ipd.remaining = 1 THEN "ScanForIpd" ELSE ipd.state
  BY <1>1, <1>2 DEF IpdType
<1> QED BY <1>3 DEF InPayload

-----------------------------------------------------------------------------
(* A frame is followed from one byte to the next. *)
LEMMA FrameByte ==
  ASSUME IInv, msg.payload > 0,
         NEW size \in Nat, size = Len(msg.bytes),
         NEW k \in Nat, k < size,
         NEW c \in Byte, c = msg.bytes[k + 1], Feed(c), msg' = msg,
         NEW comma \in Nat, NEW colon \in Nat, 
         HeaderOf(msg, comma, colon),
         NEW link \in Digits(msg, 5, comma - 1, LinkMod),
         NEW length \in Digits(msg, comma, colon - 1, LenMod),
         link[comma - 1] = msg.link, length[colon - 1] = msg.payload,
         At(k, comma, colon, link, length)
  PROVE  /\ k + 1 = size => ~InPayload'
         /\ k + 1 \in 1..4 => ipd'.state = "ScanForIpd" /\ ipd'.matchPos = k + 1
         /\ k + 1 \in 5..(comma - 1) => ipd'.state = "ReadLinkId" /\ ipd'.linkId = link[k + 1]
         /\ k + 1 \in comma..(colon - 1) =>
              /\ ipd'.state = "ReadLength" /\ ipd'.linkId = msg.link
              /\ ipd'.payloadLen = length[k + 1]
         /\ k + 1 \in colon..(size - 1) =>
              InPayload' /\ ipd'.linkId = msg.link /\ ipd'.remaining = size - (k + 1)
<1>1. 5 < comma /\ comma < colon /\ colon < size /\ size - colon = msg.payload
  <2>1. msg.payload \in Nat
    BY DEF IInv, TypeOK
  <2>2. 5 < comma /\ comma < colon /\ colon + msg.payload = size
    BY DEF HeaderOf, IPD_PREFIX_LEN
  <2> QED BY <2>1, <2>2
<1>2. /\ msg.bytes[comma] = COMMA /\ msg.bytes[colon] = COLON
      /\ \A i \in 1..5 : msg.bytes[i] = IPD_PREFIX[i]
  BY DEF HeaderOf, IPD_PREFIX_LEN
<1>3. link[5] = 0 /\ length[comma] = 0
  BY DEF Digits
<1>4. ASSUME NEW i \in Nat, 5 < i, i < comma
      PROVE  /\ IsDigit(msg.bytes[i]) /\ link[i] = link[i - 1] * 10 + (msg.bytes[i] - ZERO)
             /\ link[i] \in 0..(LinkMod - 1)
  <2>1. i \in 5..(comma - 1) /\ i \in (5 + 1)..(comma - 1)
    BY <1>4
  <2> QED BY <2>1 DEF Digits
<1>5. ASSUME NEW i \in Nat, comma < i, i < colon
      PROVE  /\ IsDigit(msg.bytes[i]) /\ length[i] = length[i - 1] * 10 + (msg.bytes[i] - ZERO)
             /\ length[i] \in 0..(LenMod - 1)
  <2>1. i \in comma..(colon - 1) /\ i \in (comma + 1)..(colon - 1)
    BY <1>5
  <2> QED BY <2>1 DEF Digits
<1>6. /\ k = 0 => ~InPayload
      /\ k \in 1..4 => ipd.state = "ScanForIpd" /\ ipd.matchPos = k
      /\ k \in 5..(comma - 1) => ipd.state = "ReadLinkId" /\ ipd.linkId = link[k]
      /\ k \in comma..(colon - 1) =>
           ipd.state = "ReadLength" /\ ipd.linkId = msg.link /\ ipd.payloadLen = length[k]
      /\ k \in colon..(size - 1) =>
           InPayload /\ ipd.linkId = msg.link /\ ipd.remaining = size - k
  BY DEF At
<1>a. CASE k = 0
  <2>1. c = PLUS
    BY <1>a, <1>2 DEF IPD_PREFIX
  <2>2. ipd'.state = "ScanForIpd" /\ ipd'.matchPos = 1
    BY <1>a, <1>6, <2>1, FirstByte
  <2>3. /\ k + 1 = 1 /\ k + 1 # size /\ k + 1 \notin 5..(comma - 1)
        /\ k + 1 \notin comma..(colon - 1) /\ k + 1 \notin colon..(size - 1)
    <3>1. 1 < comma /\ 1 < colon /\ 1 < size
      BY <1>1
    <3>2. k + 1 = 1
      BY <1>a
    <3> QED BY <3>1, <3>2
  <2> QED BY <2>2, <2>3
<1>b. CASE k \in 1..4
  <2>1. c = IPD_PREFIX[k + 1]
    BY <1>b, <1>2
  <2>2. /\ k < 4 => ipd'.state = "ScanForIpd" /\ ipd'.matchPos = k + 1
        /\ k = 4 => ipd'.state = "ReadLinkId" /\ ipd'.linkId = 0
    BY <1>b, <1>6, <2>1, PrefixByte
  <2> QED BY <1>b, <1>1, <1>3, <2>2
<1>c. CASE k \in 5..(comma - 2)
  <2>1. k \in 5..(comma - 1) /\ k + 1 \in Nat /\ 5 < k + 1 /\ k + 1 < comma /\ (k + 1) - 1 = k
    BY <1>c, <1>1
  <2>2. ipd'.state = "ReadLinkId" /\ ipd'.linkId = link[k + 1]
    <3>1. /\ IsDigit(c) /\ link[k + 1] = link[k] * 10 + (c - ZERO)
          /\ link[k + 1] \in 0..(LinkMod - 1)
      BY <1>4, <2>1
    <3>2. ipd.state = "ReadLinkId" /\ ipd.linkId = link[k]
      BY <1>6, <2>1
    <3> QED BY <3>1, <3>2, LinkByte
  <2>3. /\ k + 1 # size /\ k + 1 \notin 1..4
        /\ k + 1 \notin comma..(colon - 1) /\ k + 1 \notin colon..(size - 1)
    BY <1>1, <2>1
  <2> QED BY <2>2, <2>3
<1>d. CASE k = comma - 1
  <2>1. k \in 5..(comma - 1) /\ c = COMMA
    BY <1>d, <1>1, <1>2
  <2>2. ipd'.state = "ReadLength" /\ ipd'.linkId = msg.link /\ ipd'.payloadLen = 0
    BY <1>d, <1>6, <2>1, LinkByte
  <2> QED BY <1>d, <1>1, <1>3, <2>2
<1>e. CASE k \in comma..(colon - 2)
  <2>1. k \in comma..(colon - 1) /\ k + 1 \in Nat /\ comma < k + 1 /\ k + 1 < colon /\ (k + 1) - 1 = k
    BY <1>e, <1>1
  <2>2. /\ ipd'.state = "ReadLength" /\ ipd'.linkId = msg.link
        /\ ipd'.payloadLen = length[k + 1]
    <3>1. /\ IsDigit(c) /\ length[k + 1] = length[k] * 10 + (c - ZERO)
          /\ length[k + 1] \in 0..(LenMod - 1)
      BY <1>5, <2>1
    <3>2. ipd.state = "ReadLength" /\ ipd.linkId = msg.link /\ ipd.payloadLen = length[k]
      BY <1>6, <2>1
    <3> QED BY <3>1, <3>2, LengthByte
  <2>3. /\ k + 1 # size /\ k + 1 \notin 1..4
        /\ k + 1 \notin 5..(comma - 1) /\ k + 1 \notin colon..(size - 1)
    BY <1>1, <2>1
  <2> QED BY <2>2, <2>3
<1>f. CASE k = colon - 1
  <2>1. k \in comma..(colon - 1) /\ c = COLON
    <3>1. k \in comma..(colon - 1) /\ k + 1 = colon
      BY <1>f, <1>1
    <3> QED BY <3>1, <1>2
  <2>2. InPayload' /\ ipd'.linkId = msg.link /\ ipd'.remaining = msg.payload
    BY <1>f, <1>6, <2>1, ColonByte
  <2>3. /\ k + 1 = colon /\ k + 1 # size /\ k + 1 \notin 1..4 /\ size - (k + 1) = msg.payload
        /\ k + 1 \notin 5..(comma - 1) /\ k + 1 \notin comma..(colon - 1)
    BY <1>f, <1>1
  <2> QED BY <2>2, <2>3
<1>g. CASE k \in colon..(size - 1)
  <2>1. InPayload /\ ipd.linkId = msg.link /\ ipd.remaining = size - k
    BY <1>g, <1>6
  <2>2. /\ ipd'.linkId = msg.link /\ ipd'.remaining = ipd.remaining - 1
        /\ InPayload' <=> ipd.remaining # 1
    BY <2>1, PayloadByte
  <2> QED BY <1>g, <1>1, <2>1, <2>2
<1>h. \/ k = 0 \/ k \in 1..4 \/ k \in 5..(comma - 2) \/ k = comma - 1
      \/ k \in comma..(colon - 2) \/ k = colon - 1 \/ k \in colon..(size - 1)
  BY <1>1
<1> QED BY <1>a, <1>b, <1>c, <1>d, <1>e, <1>f, <1>g, <1>h

-----------------------------------------------------------------------------
(* A message whose first byte is still to come is followed. *)
LEMMA Fresh ==
  ASSUME msg' \in Messages \cup {NoMessage}, wire' = msg'.bytes, ~InPayload'
  PROVE  Synced'
<1>1. msg'.bytes \in Seq(Byte)
  <2>1. NoMessage.bytes \in Seq(Byte)
    BY DEF NoMessage
  <2> QED BY <2>1, MessagesAssumption
<1>2. Len(msg'.bytes) \in Nat
  BY <1>1, LenProperties
<1>3. Consumed' = 0
  BY <1>2 DEF Consumed
<1>4. Remains'
  BY <1>2, <1>3 DEF Remains
<1>5. ASSUME msg'.payload > 0 PROVE Tracks'
  <2> SUFFICES ASSUME NEW comma \in 1..Len(msg'.bytes), NEW colon \in 1..Len(msg'.bytes),
                      HeaderOf(msg', comma, colon),
                      NEW link, NEW length
               PROVE  At(Consumed, comma, colon, link, length)'
    BY DEF Tracks
  <2>1. comma \in Nat /\ colon \in Nat /\ 5 < comma /\ comma < colon
    BY <1>2 DEF HeaderOf, IPD_PREFIX_LEN
  <2>2. 0 \notin 1..4 /\ 0 \notin 5..(comma - 1) /\ 0 \notin comma..(colon - 1)
        /\ 0 \notin colon..(Len(msg'.bytes) - 1)
    BY <1>2, <2>1
  <2> QED BY <1>3, <2>2 DEF At
<1> QED BY <1>4, <1>5 DEF Synced

(* Steps that leave the parser and the UART alone. *)
LEMMA NothingRead ==
  ASSUME Synced, ipd' = ipd, msg' = msg, wire' = wire, whole' = whole
  PROVE  Synced'
BY DEF Synced, Remains, Tracks, At, Consumed, InPayload

(* An AT command during which a message was cut, or that nobody follows. *)
LEMMA Unfollowed ==
  ASSUME Synced, Eaten, whole' = FALSE
  PROVE  Synced'
<1>1. msg' \in Messages \cup {NoMessage}
  BY DEF Synced, Eaten
<1> QED BY <1>1 DEF Synced

(* Reading a byte keeps the parser in step. *)
LEMMA FeedSynced ==
  ASSUME IInv, Synced, FeedByte
  PROVE  Synced'
<1>1. msg' = msg /\ whole' = whole /\ msg \in Messages \cup {NoMessage}
  BY DEF FeedByte, Synced
<1>2. CASE ~whole
  BY <1>1, <1>2 DEF Synced
<1>3. CASE whole
  <2>1. /\ Consumed \in 0..(Len(msg.bytes) - 1)
        /\ Consumed' = Consumed + 1
        /\ Head(wire) = msg.bytes[Consumed + 1]
        /\ Head(wire) \in Byte
        /\ Remains'
    BY <1>3, ByteRead
  <2>2. Feed(Head(wire))
    BY DEF FeedByte, Feed
  <2>3. Len(msg.bytes) \in Nat
    BY LenProperties DEF IInv, TypeOK
  <2>4. ASSUME msg.payload = 0 PROVE ~InPayload'
    <3>1. ~InPayload
      BY <1>3, <2>4 DEF Synced
    <3>2. msg # NoMessage
      BY <2>1, <2>3 DEF NoMessage
    <3>3. Consumed + 1 \in 1..Len(msg.bytes)
      BY <2>1, <2>3
    <3>4. Head(wire) # COLON
      BY <1>1, <2>1, <2>4, <3>2, <3>3, FramesAssumption
    <3>5. ScanForIpd(Head(wire)) \/ ReadLinkId(Head(wire)) \/ ReadLength(Head(wire))
      BY <2>2, <3>1, <3>4 DEF Feed, StartPayload, CopyPayload, DiscardPayload, InPayload
    <3> QED BY <2>1, <3>5, HeaderByteInv
  <2>5. ASSUME msg.payload > 0 PROVE Tracks'
    <3> SUFFICES ASSUME NEW comma \in 1..Len(msg.bytes), NEW colon \in 1..Len(msg.bytes),
                        HeaderOf(msg, comma, colon),
                        NEW link \in Digits(msg, 5, comma - 1, LinkMod),
                        NEW length \in Digits(msg, comma, colon - 1, LenMod),
                        link[comma - 1] = msg.link, length[colon - 1] = msg.payload
                 PROVE  At(Consumed, comma, colon, link, length)'
      BY <1>1 DEF Tracks
    <3>1. At(Consumed, comma, colon, link, length)
      BY <1>3, <2>5 DEF Synced, Tracks
    <3> DEFINE size == Len(msg.bytes)
               k    == Consumed
               c    == Head(wire)
    <3>2. /\ size \in Nat /\ k \in Nat /\ k < size /\ k + 1 # 0
          /\ c \in Byte /\ c = msg.bytes[k + 1] /\ Feed(c)
          /\ comma \in Nat /\ colon \in Nat
      BY <2>1, <2>2, <2>3
    <3>3. /\ k + 1 = size => ~InPayload'
          /\ k + 1 \in 1..4 => ipd'.state = "ScanForIpd" /\ ipd'.matchPos = k + 1
          /\ k + 1 \in 5..(comma - 1) => ipd'.state = "ReadLinkId" /\ ipd'.linkId = link[k + 1]
          /\ k + 1 \in comma..(colon - 1) =>
               /\ ipd'.state = "ReadLength" /\ ipd'.linkId = msg.link
               /\ ipd'.payloadLen = length[k + 1]
          /\ k + 1 \in colon..(size - 1) =>
               InPayload' /\ ipd'.linkId = msg.link /\ ipd'.remaining = size - (k + 1)
      <4> HIDE DEF k, c
      <4> QED BY <1>1, <2>5, <3>1, <3>2, FrameByte DEF k
    <3>4. Consumed' = k + 1 /\ Len(msg'.bytes) = size
      BY <1>1, <2>1
    <3> HIDE DEF size, k
    <3> QED BY <1>1, <3>2, <3>3, <3>4 DEF At
  <2> QED BY <1>1, <2>1, <2>4, <2>5 DEF Synced
<1> QED BY <1>2, <1>3

(* Initially nothing has been sent. *)
LEMMA InitSynced == Init => Synced
BY DEF Init, Synced, Remains, InPayload, NoMessage

(* Every action keeps the parser in step. *)
LEMMA NextSynced == SInv /\ [Next]_vars => SInv'
<1> SUFFICES ASSUME IInv, Synced, [Next]_vars PROVE Synced'
  BY NextInv DEF SInv
<1>1. ASSUME NEW m \in Messages, ModemSend(m) PROVE Synced'
  <2>1. CASE InPayload
    BY <1>1, <2>1 DEF ModemSend, Synced
  <2>2. CASE ~InPayload
    <3>1. msg' \in Messages /\ wire' = msg'.bytes /\ ~InPayload'
      BY <1>1, <2>2 DEF ModemSend, InPayload
    <3> QED BY <3>1, Fresh
  <2> QED BY <2>1, <2>2
<1>2. CASE FeedByte
  BY <1>2, FeedSynced
<1>3. CASE \/ Read
           \/ \E n \in WriteSizes : Write(n)
           \/ UNCHANGED vars
  BY <1>3, NothingRead DEF Read, Write, vars
<1>4. CASE Flush
  BY <1>4, Unfollowed DEF Flush
<1>5. CASE CloseClient
  <2>1. msg' \in Messages \cup {NoMessage} /\ ~InPayload'
    <3>1. ipd \in IpdType
      BY DEF IInv, TypeOK, IpdType
    <3>2. ~InPayload'
      BY <1>5, <3>1 DEF CloseClient, InPayload, IpdType
    <3> QED BY <1>5, <3>2 DEF CloseClient, Eaten, Synced
  <2>2. CASE wire' = msg'.bytes
    BY <2>1, <2>2, Fresh
  <2>3. CASE wire' # msg'.bytes
    BY <1>5, <2>3, Unfollowed DEF CloseClient
  <2> QED BY <2>2, <2>3
<1>6. CASE MaintainWifi
  <2>1. msg' \in Messages \cup {NoMessage} /\ ~InPayload'
    BY <1>6 DEF MaintainWifi, Eaten, Synced, IInv, PayloadOwned, InPayload
  <2>2. CASE wire' = msg'.bytes
    BY <2>1, <2>2, Fresh
  <2>3. CASE whole /\ msg' = msg /\ wire' = wire
    BY <1>6, <2>3, NothingRead DEF MaintainWifi
  <2>4. CASE wire' # msg'.bytes /\ ~(whole /\ msg' = msg /\ wire' = wire)
    BY <1>6, <2>4, Unfollowed DEF MaintainWifi
  <2> QED BY <2>2, <2>3, <2>4
<1> QED BY <1>1, <1>2, <1>3, <1>4, <1>5, <1>6 DEF Next

(* The parser is in step in every state. *)
LEMMA SyncedInvariance == Spec => []SInv
<1>1. Init => SInv
  BY InitInv, InitSynced DEF SInv
<1> QED BY <1>1, NextSynced, PTL DEF Spec

(* The payload counter runs exactly while the bytes of the payload arrive. *)
LEMMA SyncedCounts == SInv => InSync
<1> SUFFICES ASSUME IInv, Synced, whole
             PROVE  /\ InPayload <=> Len(wire) \in 1..msg.payload
                    /\ InPayload => ipd.remaining = Len(wire) /\ ipd.linkId = msg.link
  BY DEF SInv, InSync
<1>1. /\ Len(msg.bytes) \in Nat /\ Len(wire) \in Nat /\ Len(wire) <= Len(msg.bytes)
      /\ msg.payload \in Nat
  BY LenProperties DEF IInv, TypeOK, Synced, Remains
<1>2. CASE msg.payload = 0
  BY <1>1, <1>2 DEF Synced
<1>3. CASE msg.payload > 0
  <2>1. msg \in Messages /\ msg.payload # 0
    BY <1>3 DEF Synced, NoMessage
  <2>2. PICK comma \in 1..Len(msg.bytes), colon \in 1..Len(msg.bytes) :
          /\ HeaderOf(msg, comma, colon)
          /\ \E v \in Digits(msg, 5, comma - 1, LinkMod) : v[comma - 1] = msg.link
          /\ \E v \in Digits(msg, comma, colon - 1, LenMod) : v[colon - 1] = msg.payload
    BY <2>1, FramesAssumption DEF IsFrame, IPD_PREFIX_LEN
  <2>3. PICK link \in Digits(msg, 5, comma - 1, LinkMod) : link[comma - 1] = msg.link
    BY <2>2
  <2>4. PICK length \in Digits(msg, comma, colon - 1, LenMod) : length[colon - 1] = msg.payload
    BY <2>2
  <2>5. At(Consumed, comma, colon, link, length)
    BY <1>3, <2>2, <2>3, <2>4 DEF Synced, Tracks
  <2>6. /\ comma \in Nat /\ colon \in Nat /\ 5 < comma /\ comma < colon
        /\ colon + msg.payload = Len(msg.bytes)
    BY <1>1, <2>2 DEF HeaderOf, IPD_PREFIX_LEN
  <2>7. Consumed = Len(msg.bytes) - Len(wire) /\ Consumed \in 0..Len(msg.bytes)
    BY <1>1 DEF Consumed
  <2>8. CASE Len(wire) \in 1..msg.payload
    <3>1. Consumed \in colon..(Len(msg.bytes) - 1) /\ Len(msg.bytes) - Consumed = Len(wire)
      BY <1>1, <2>6, <2>7, <2>8
    <3> QED BY <2>5, <2>8, <3>1 DEF At
  <2>9. CASE Len(wire) \notin 1..msg.payload
    <3>1. \/ Consumed \in {0, Len(msg.bytes)} \/ Consumed \in 1..4
          \/ Consumed \in 5..(comma - 1) \/ Consumed \in comma..(colon - 1)
      <4>1. Len(wire) = 0 \/ Len(wire) > msg.payload
        BY <1>1, <2>9
      <4>2. CASE Len(wire) = 0
        BY <2>7, <4>2
      <4>3. CASE Len(wire) > msg.payload
        <5>1. Consumed \in Nat /\ Consumed < colon
          BY <1>1, <2>6, <2>7, <4>3
        <5> QED BY <2>6, <5>1
      <4> QED BY <4>1, <4>2, <4>3
    <3> QED BY <2>5, <2>9, <3>1 DEF At, InPayload
  <2> QED BY <2>8, <2>9
<1> QED BY <1>1, <1>2, <1>3

(* Every frame that is fed from its first byte is recognised, whatever     *)
(* searching state garbage or an AT command left the parser in.            *)
THEOREM InStep == Spec => []InSync
BY SyncedInvariance, SyncedCounts, PTL

-----------------------------------------------------------------------------
(* The served connection's request, while the modem sends no two different *)
(* frames for one connection (each of them any number of times): what is   *)
(* then in the buffer can be told from the messages alone.                 *)
OneFrameEach ==
  \A m, n \in Messages : m.payload > 0 /\ n.payload > 0 /\ m.link = n.link => m = n

(* The j-th byte of a frame's payload. *)
PayloadAt(m, j) == m.bytes[Len(m.bytes) - m.payload + j]

(* The buffer holds m's payload again and again; the parser's countdown    *)
(* says how much of the last one is still to come.                         *)
Repeats(m) ==
  /\ m.payload > 0 /\ m.link = client.linkId
  /\ \A i \in 1..Len(client.rx) : client.rx[i] = PayloadAt(m, ((i - 1) % m.payload) + 1)
  /\ Len(client.rx) < BufSize =>
       Len(client.rx) % m.payload =
         IF ipd.state = "CopyPayload" THEN m.payload - ipd.remaining ELSE 0

FromStart == clean => client.active /\ whole /\ \E m \in Messages : Repeats(m)

(* Remainders of consecutive numbers. *)
LEMMA NextRemainder ==
  ASSUME NEW p \in Nat \ {0}, NEW a \in Nat
  PROVE  (a + 1) % p = IF (a % p) + 1 = p THEN 0 ELSE (a % p) + 1
<1> DEFINE q == a \div p
           r == a % p
           e == (a + 1) \div p
           f == (a + 1) % p
<1>1. /\ q \in Int /\ e \in Int /\ r \in 0..(p - 1) /\ f \in 0..(p - 1)
      /\ a = p * q + r /\ a + 1 = p * e + f
  OBVIOUS
<1> HIDE DEF q, r, e, f
<1>2. PICK d \in Int : d = e - q
  BY <1>1
<1>3. p * d = r + 1 - f
  <2>1. p * d = p * e - p * q
    BY <1>1, <1>2
  <2>2. PICK x \in Int, y \in Int : x = p * e /\ y = p * q
    BY <1>1
  <2> QED BY <1>1, <2>1, <2>2
<1>4. (d >= 2 => p * d >= p + p) /\ (d <= -1 => p * d <= -p) /\ (d = 0 => p * d = 0) /\ (d = 1 => p * d = p)
  OBVIOUS
<1>5. p * d <= p /\ p * d > -p
  BY <1>1, <1>3
<1>6. d = 0 \/ d = 1
  <2>1. ~(d >= 2) /\ ~(d <= -1)
    BY <1>3, <1>4, <1>5, <1>1
  <2> QED BY <2>1
<1>7. CASE d = 0
  <2>1. f = r + 1 /\ r + 1 # p
    BY <1>1, <1>3, <1>4, <1>7
  <2> QED BY <2>1 DEF f, r
<1>8. CASE d = 1
  <2>1. f = 0 /\ r + 1 = p
    BY <1>1, <1>3, <1>4, <1>8
  <2> QED BY <2>1 DEF f, r
<1> QED BY <1>6, <1>7, <1>8

(* A frame's payload is its end. *)
LEMMA PayloadFits ==
  ASSUME NEW m \in Messages, m.payload > 0
  PROVE  /\ m.bytes \in Seq(Byte) /\ Len(m.bytes) \in Nat
         /\ m.payload \in Nat \ {0} /\ m.payload <= Len(m.bytes)
<1>1. m.bytes \in Seq(Byte) /\ m.payload \in Nat /\ Len(m.bytes) \in Nat
  BY MessagesAssumption, LenProperties
<1>2. PICK comma \in 1..Len(m.bytes), colon \in 1..Len(m.bytes) : HeaderOf(m, comma, colon)
  <2>1. IsFrame(m)
    BY <1>1, FramesAssumption
  <2> QED BY <2>1 DEF IsFrame
<1>3. colon + m.payload = Len(m.bytes) /\ colon \in Nat
  BY <1>1, <1>2 DEF HeaderOf
<1> QED BY <1>1, <1>3

(* A colon that elects a connection, in a message followed from its first  *)
(* byte on, is the one of its header.                                      *)
LEMMA ElectingColon ==
  ASSUME SInv, whole, FeedByte, StartPayload(Head(wire))
  PROVE  msg \in Messages /\ msg.payload > 0 /\ ipd.linkId = msg.link
<1>1. /\ Consumed \in 0..(Len(msg.bytes) - 1)
      /\ Head(wire) = msg.bytes[Consumed + 1]
  BY ByteRead DEF SInv
<1>2. Head(wire) = COLON /\ ipd.state = "ReadLength"
  BY DEF StartPayload
<1>3. Len(msg.bytes) \in Nat /\ msg.payload \in Nat
  BY LenProperties DEF SInv, IInv, TypeOK
<1>4. msg \in Messages
  <2>1. Len(msg.bytes) # 0
    BY <1>1, <1>3
  <2> QED BY <2>1 DEF SInv, Synced, NoMessage
<1>5. msg.payload > 0
  <2>1. Consumed + 1 \in 1..Len(msg.bytes)
    BY <1>1, <1>3
  <2>2. msg.payload # 0
    BY <1>1, <1>2, <1>4, <2>1, FramesAssumption
  <2> QED BY <1>3, <2>2
<1>6. PICK comma \in 1..Len(msg.bytes), colon \in 1..Len(msg.bytes) :
        /\ HeaderOf(msg, comma, colon)
        /\ \E v \in Digits(msg, 5, comma - 1, LinkMod) : v[comma - 1] = msg.link
        /\ \E v \in Digits(msg, comma, colon - 1, LenMod) : v[colon - 1] = msg.payload
  BY <1>4, <1>5, FramesAssumption DEF IsFrame, IPD_PREFIX_LEN
<1>7. PICK link \in Digits(msg, 5, comma - 1, LinkMod) : link[comma - 1] = msg.link
  BY <1>6
<1>8. PICK length \in Digits(msg, comma, colon - 1, LenMod) : length[colon - 1] = msg.payload
  BY <1>6
<1>9. At(Consumed, comma, colon, link, length)
  BY <1>5, <1>6, <1>7, <1>8 DEF SInv, Synced, Tracks
<1>10. Consumed # 0
  <2>1. msg.bytes[1] = PLUS /\ PLUS # COLON
    BY <1>6 DEF HeaderOf, IPD_PREFIX, IPD_PREFIX_LEN, PLUS, COLON
  <2> QED BY <1>1, <1>2, <2>1
<1>11. /\ comma \in Nat /\ colon \in Nat /\ 5 < comma /\ comma < colon /\ Consumed \in Nat
  BY <1>1, <1>3, <1>6 DEF HeaderOf, IPD_PREFIX_LEN
<1>12. Consumed \in 1..4 \/ Consumed \in 5..(comma - 1) \/ Consumed \in comma..(colon - 1)
       \/ Consumed \in colon..(Len(msg.bytes) - 1)
  BY <1>1, <1>3, <1>10, <1>11
<1>13. Consumed \in comma..(colon - 1)
  BY <1>2, <1>9, <1>12 DEF At, InPayload
<1> QED BY <1>4, <1>5, <1>9, <1>13 DEF At

(* When the parser starts to count, all of the payload is still to come. *)
LEMMA CountsAll ==
  ASSUME SInv, SInv', whole, FeedByte, ~InPayload, InPayload'
  PROVE  /\ msg \in Messages /\ msg.payload > 0
         /\ ipd'.remaining = msg.payload /\ ipd'.linkId = msg.link
<1>1. /\ msg' = msg /\ whole' = whole /\ wire \in Seq(Byte) /\ wire # <<>> /\ wire' = Tail(wire)
  BY DEF FeedByte, SInv, IInv, TypeOK
<1>2. Len(wire) \in Nat \ {0} /\ Len(wire') = Len(wire) - 1
  BY <1>1, EmptySeq, HeadTailProperties
<1>3. InSync
  BY SyncedCounts
<1>4. InSync'
  <2>1. SInv' => InSync'
    BY SyncedCounts, PTL
  <2> QED BY <2>1
<1>5. msg.payload \in Nat
  BY DEF SInv, IInv, TypeOK
<1>6. /\ Len(wire) \notin 1..msg.payload
      /\ Len(wire') \in 1..msg.payload
      /\ ipd'.remaining = Len(wire') /\ ipd'.linkId = msg.link
  BY <1>1, <1>3, <1>4 DEF InSync
<1>7. Len(wire') = msg.payload /\ msg.payload > 0
  BY <1>2, <1>5, <1>6
<1>8. msg \in Messages
  <2>1. msg.payload # 0
    BY <1>7
  <2> QED BY <2>1 DEF SInv, Synced, NoMessage
<1> QED BY <1>6, <1>7, <1>8

(* Nothing of the request, and nothing of what Repeats says, changes. *)
LEMMA Unstored ==
  ASSUME NEW m, Repeats(m), client'.rx = client.rx, client'.linkId = client.linkId,
         \/ ipd.state # "CopyPayload" /\ ipd'.state # "CopyPayload"
         \/ ipd' = ipd
  PROVE  Repeats(m)'
BY DEF Repeats

(* The colon of a frame for the served connection: the parser starts to    *)
(* count where the buffer has whole payloads.                              *)
LEMMA ColonRepeats ==
  ASSUME OneFrameEach, SInv, SInv', whole, FeedByte, StartPayload(Head(wire)),
         client.active, NEW m \in Messages, Repeats(m)
  PROVE  Repeats(m)'
<1>1. client' = client /\ ipd.state = "ReadLength"
  BY DEF StartPayload
<1>2. CASE ipd'.state # "CopyPayload"
  BY <1>1, <1>2, Unstored
<1>3. CASE ipd'.state = "CopyPayload"
  <2>1. ~InPayload /\ InPayload'
    BY <1>1, <1>3 DEF InPayload
  <2>2. /\ msg \in Messages /\ msg.payload > 0
        /\ ipd'.remaining = msg.payload /\ ipd'.linkId = msg.link
    BY <2>1, CountsAll
  <2>3. msg.link = m.link /\ m.payload > 0
    BY <1>1, <1>3, <2>2 DEF SInv, IInv, PayloadOwned, Repeats
  <2>4. msg = m
    BY <2>2, <2>3 DEF OneFrameEach
  <2>5. m.payload \in Nat
    BY MessagesAssumption
  <2>6. m.payload - ipd'.remaining = 0
    BY <2>2, <2>4, <2>5
  <2> QED BY <1>1, <1>3, <2>6 DEF Repeats
<1> QED BY <1>2, <1>3

(* The colon that elects a connection: its buffer is empty, and all of the *)
(* frame's payload is still to come.                                       *)
LEMMA ElectionRepeats ==
  ASSUME SInv, SInv', whole, FeedByte, StartPayload(Head(wire)), ~client.active
  PROVE  msg \in Messages /\ Repeats(msg)'
<1>1. msg \in Messages /\ msg.payload > 0 /\ ipd.linkId = msg.link
  BY ElectingColon
<1>2. client' = Serving(ipd.linkId) /\ ipd.state = "ReadLength" /\ msg' = msg
  BY DEF StartPayload, FeedByte
<1>3. client'.rx = <<>> /\ client'.linkId = msg.link /\ Len(client'.rx) = 0
  BY <1>1, <1>2 DEF Serving
<1>4. msg.payload \in Nat \ {0}
  BY <1>1, PayloadFits
<1>5. 0 % msg.payload = 0
  BY <1>4
<1>6. ipd'.state = "CopyPayload" => msg.payload - ipd'.remaining = 0
  <2> SUFFICES ASSUME ipd'.state = "CopyPayload" PROVE msg.payload - ipd'.remaining = 0
    OBVIOUS
  <2>1. ~InPayload /\ InPayload'
    BY <1>2 DEF InPayload
  <2>2. ipd'.remaining = msg.payload
    BY <2>1, CountsAll
  <2> QED BY <1>4, <2>2
<1> QED BY <1>1, <1>2, <1>3, <1>5, <1>6 DEF Repeats

(* A payload byte for the served connection is the next one of its frame. *)
LEMMA CopyRepeats ==
  ASSUME OneFrameEach, SInv, whole, FeedByte, CopyPayload(Head(wire)),
         NEW m \in Messages, Repeats(m)
  PROVE  Repeats(m)'
<1> DEFINE c == Head(wire)
           n == Len(client.rx)
           p == m.payload
           left == ipd.remaining
<1>1. /\ ipd.state = "CopyPayload" /\ InPayload /\ CountPayload
      /\ client' = IF n < BufSize THEN [client EXCEPT !.rx = Append(@, c)] ELSE client
  BY DEF CopyPayload, InPayload
<1>2. /\ client \in ClientType /\ ipd \in IpdType
      /\ client.rx \in Seq(Byte) /\ n \in Nat /\ BufSize \in Nat
  <2>1. client \in ClientType /\ ipd \in IpdType
    BY DEF SInv, IInv, TypeOK, ClientType, IpdType
  <2>2. client.rx \in Seq(Byte)
    BY <2>1 DEF ClientType
  <2> QED BY <2>1, <2>2, LenProperties, BufSizeAssumption
<1>3. /\ Consumed = Len(msg.bytes) - Len(wire) /\ c = msg.bytes[Consumed + 1] /\ c \in Byte
  BY ByteRead DEF SInv, Consumed
<1>4. /\ left = Len(wire) /\ ipd.linkId = msg.link
      /\ Len(wire) \in 1..msg.payload
  BY <1>1, SyncedCounts DEF InSync
<1>5. msg = m
  <2>1. msg \in Messages \cup {NoMessage} /\ msg.payload \in Nat
    BY DEF SInv, Synced, IInv, TypeOK
  <2>2. msg.payload > 0
    BY <1>4, <2>1
  <2>3. msg \in Messages
    BY <2>1, <2>2 DEF NoMessage
  <2>4. msg.link = m.link /\ m.payload > 0
    BY <1>1, <1>4 DEF SInv, IInv, PayloadOwned, Repeats
  <2> QED BY <2>2, <2>3, <2>4 DEF OneFrameEach
<1>6. /\ p \in Nat \ {0} /\ left \in 1..p /\ Len(m.bytes) \in Nat
  <2>1. p > 0
    BY DEF Repeats
  <2> QED BY <1>4, <1>5, <2>1, PayloadFits
<1>7. /\ ipd'.remaining = left - 1
      /\ ipd'.state = IF left = 1 THEN "ScanForIpd" ELSE "CopyPayload"
  <2>1. ipd' = [ipd EXCEPT !.remaining = @ - 1,
                           !.state = IF ipd.remaining = 1 THEN "ScanForIpd" ELSE @]
    BY <1>1, CountPayloadInv DEF SInv
  <2> QED BY <1>1, <1>2, <2>1 DEF IpdType
<1>8. c = PayloadAt(m, (p - left) + 1)
  <2>1. Consumed + 1 = Len(m.bytes) - p + ((p - left) + 1)
    BY <1>3, <1>4, <1>5, <1>6
  <2> QED BY <1>3, <1>5, <2>1 DEF PayloadAt
<1>9. CASE ~(n < BufSize)
  <2>1. client' = client
    BY <1>1, <1>9
  <2> QED BY <1>9, <2>1 DEF Repeats
<1>10. CASE n < BufSize
  <2>1. client' = [client EXCEPT !.rx = Append(@, c)]
    BY <1>1, <1>10
  <2>2. client'.rx = Append(client.rx, c) /\ client'.linkId = client.linkId
    BY <1>2, <2>1 DEF ClientType
  <2> HIDE DEF c
  <2>3. /\ Len(client'.rx) = n + 1
        /\ \A i \in 1..n : client'.rx[i] = client.rx[i]
        /\ client'.rx[n + 1] = c
    BY <1>2, <1>3, <2>2, AppendProperties
  <2>4. n % p = p - left
    BY <1>1, <1>10 DEF Repeats
  <2>5. ASSUME NEW i \in 1..(n + 1)
        PROVE  client'.rx[i] = PayloadAt(m, ((i - 1) % p) + 1)
    <3>1. CASE i = n + 1
      <4>1. i - 1 = n
        BY <1>2, <3>1
      <4> QED BY <1>8, <2>3, <2>4, <3>1, <4>1
    <3>2. CASE i # n + 1
      <4>1. i \in 1..n
        BY <1>2, <3>2
      <4> QED BY <2>3, <4>1 DEF Repeats
    <3> QED BY <3>1, <3>2
  <2>6. (n + 1) % p = IF (n % p) + 1 = p THEN 0 ELSE (n % p) + 1
    BY <1>2, <1>6, NextRemainder
  <2>7. (n + 1) % p = IF ipd'.state = "CopyPayload" THEN p - ipd'.remaining ELSE 0
    <3>1. CASE left = 1
      <4>1. (p - left) + 1 = p
        BY <1>6, <3>1
      <4> QED BY <1>7, <2>4, <2>6, <3>1, <4>1
    <3>2. CASE left # 1
      <4>1. (p - left) + 1 # p /\ (p - left) + 1 = p - (left - 1)
        BY <1>6, <3>2
      <4> QED BY <1>7, <2>4, <2>6, <3>2, <4>1
    <3> QED BY <3>1, <3>2
  <2> QED BY <2>2, <2>3, <2>5, <2>7 DEF Repeats
<1> QED BY <1>9, <1>10

(* Reading a byte keeps the request as it was sent. *)
LEMMA FeedFromStart ==
  ASSUME OneFrameEach, SInv, SInv', FromStart, FeedByte
  PROVE  FromStart'
<1> DEFINE c == Head(wire)
<1> SUFFICES ASSUME clean'
             PROVE  client'.active /\ whole' /\ \E m \in Messages : Repeats(m)'
  BY DEF FromStart
<1>1. /\ clean' = IF client.active THEN clean ELSE client'.active /\ whole
      /\ whole' = whole
      /\ ScanForIpd(c) \/ ReadLinkId(c) \/ ReadLength(c) \/ StartPayload(c) \/ CopyPayload(c) \/ DiscardPayload
  BY DEF FeedByte
<1>2. /\ clean \in BOOLEAN /\ whole \in BOOLEAN /\ client \in ClientType /\ ipd \in IpdType
      /\ clean' \in BOOLEAN
  BY DEF SInv, IInv, TypeOK, ClientType, IpdType
<1>3. CASE client.active
  <2>1. PICK m \in Messages : Repeats(m)
    BY <1>1, <1>3 DEF FromStart
  <2>2. clean /\ whole
    BY <1>1, <1>3 DEF FromStart
  <2>3. CASE ScanForIpd(c) \/ ReadLinkId(c) \/ ReadLength(c)
    <3>1. c \in Byte
      BY <2>2, ByteRead DEF SInv
    <3>2. client' = client /\ ~InPayload /\ ~InPayload'
      BY <2>3, <3>1, HeaderByteInv DEF SInv
    <3>3. Repeats(m)'
      BY <2>1, <3>2, Unstored DEF InPayload
    <3> QED BY <1>1, <1>3, <2>2, <3>2, <3>3
  <2>4. CASE StartPayload(c)
    <3>1. client' = client
      BY <1>3, <2>4 DEF StartPayload
    <3>2. Repeats(m)'
      BY <1>3, <2>1, <2>2, <2>4, ColonRepeats
    <3> QED BY <1>1, <1>3, <2>2, <3>1, <3>2
  <2>5. CASE CopyPayload(c)
    <3>1. client'.active
      BY <1>2, <1>3, <2>5 DEF CopyPayload, ClientType
    <3>2. Repeats(m)'
      BY <2>1, <2>2, <2>5, CopyRepeats
    <3> QED BY <1>1, <2>2, <3>1, <3>2
  <2>6. CASE DiscardPayload
    <3>1. client' = client /\ InPayload /\ CountPayload /\ ipd.state = "DiscardPayload"
      BY <2>6 DEF DiscardPayload, InPayload
    <3>2. ipd' = [ipd EXCEPT !.remaining = @ - 1,
                             !.state = IF ipd.remaining = 1 THEN "ScanForIpd" ELSE @]
      BY <3>1, CountPayloadInv DEF SInv
    <3>3. ipd'.state # "CopyPayload"
      BY <1>2, <3>1, <3>2 DEF IpdType
    <3>4. Repeats(m)'
      BY <2>1, <3>1, <3>3, Unstored
    <3> QED BY <1>1, <1>3, <2>2, <3>1, <3>4
  <2> QED BY <1>1, <2>3, <2>4, <2>5, <2>6
<1>4. CASE ~client.active
  <2>1. client'.active /\ whole
    BY <1>1, <1>4
  <2>2. ~InPayload
    BY <1>4 DEF SInv, IInv, PayloadOwned
  <2>3. StartPayload(c)
    <3>1. client' # client
      BY <1>4, <2>1
    <3> QED BY <1>1, <2>2, <3>1 DEF ScanForIpd, ReadLinkId, ReadLength, CopyPayload, DiscardPayload, InPayload
  <2>4. msg \in Messages /\ Repeats(msg)'
    BY <1>4, <2>1, <2>3, ElectionRepeats
  <2>5. \E k \in Messages : Repeats(k)'
    <3>1. msg' = msg
      BY DEF FeedByte
    <3> QED BY <2>4, <3>1 DEF Repeats
  <2> QED BY <1>1, <2>1, <2>5
<1> QED BY <1>3, <1>4

LEMMA NextFromStart ==
  ASSUME OneFrameEach, SInv, FromStart, [Next]_vars
  PROVE  FromStart'
<1>1. SInv'
  BY NextSynced
<1>2. CASE FeedByte
  BY <1>1, <1>2, FeedFromStart
<1>3. CASE \E m \in Messages : ModemSend(m)
  <2>1. /\ clean' = (clean /\ ~InPayload) /\ whole' = ~InPayload
        /\ ipd' = ipd /\ client' = client
    BY <1>3 DEF ModemSend
  <2>2. ASSUME NEW m \in Messages, Repeats(m) PROVE Repeats(m)'
    BY <2>1, <2>2, Unstored
  <2> QED BY <2>1, <2>2 DEF FromStart
<1>4. CASE Read \/ \E n \in WriteSizes : Write(n)
  <2>1. client \in ClientType
    BY DEF SInv, IInv, TypeOK, ClientType
  <2>2. /\ client'.active = client.active /\ client'.linkId = client.linkId
        /\ client'.rx = client.rx
        /\ UNCHANGED <<ipd, whole, clean>>
    BY <1>4, <2>1 DEF Read, Write, ClientType
  <2>3. ASSUME NEW m \in Messages, Repeats(m) PROVE Repeats(m)'
    BY <2>2, <2>3, Unstored
  <2> QED BY <2>2, <2>3 DEF FromStart
<1>5. CASE Flush \/ CloseClient
  BY <1>5 DEF Flush, CloseClient, FromStart
<1>6. CASE MaintainWifi
  BY <1>6 DEF MaintainWifi, FromStart
<1>7. CASE UNCHANGED vars
  <2>1. ASSUME NEW m \in Messages, Repeats(m) PROVE Repeats(m)'
    BY <1>7, <2>1, Unstored DEF vars
  <2> QED BY <1>7, <2>1 DEF vars, FromStart
<1> QED BY <1>2, <1>3, <1>4, <1>5, <1>6, <1>7 DEF Next

(* What the buffer repeats is the data of a frame. *)
LEMMA StartIsRequest == SInv /\ FromStart => RequestFromStart
<1> SUFFICES ASSUME SInv, FromStart, clean
             PROVE  \E m \in Messages :
                      LET data == SubSeq(m.bytes, Len(m.bytes) - m.payload + 1, Len(m.bytes))
                      IN /\ m.payload > 0
                         /\ m.link = client.linkId
                         /\ \A i \in 1..Len(client.rx) : client.rx[i] = data[((i - 1) % m.payload) + 1]
  BY DEF RequestFromStart
<1>1. PICK m \in Messages : Repeats(m)
  BY DEF FromStart
<1> DEFINE b == Len(m.bytes)
           p == m.payload
           data == SubSeq(m.bytes, b - p + 1, b)
<1>2. /\ p > 0 /\ m.link = client.linkId
      /\ \A i \in 1..Len(client.rx) : client.rx[i] = PayloadAt(m, ((i - 1) % p) + 1)
  BY <1>1 DEF Repeats
<1>3. m.bytes \in Seq(Byte) /\ b \in Nat /\ p \in Nat \ {0} /\ p <= b
  BY <1>2, PayloadFits
<1>4. ASSUME NEW j \in 1..p PROVE data[j] = PayloadAt(m, j)
  <2> DEFINE a == b - p + 1
  <2>1. a \in Int /\ a \in 1..b /\ b - a + 1 = p /\ a + j - 1 = b - p + j
    BY <1>3
  <2> HIDE DEF a, b, p
  <2>2. \A i \in a..b : m.bytes[i] \in Byte
    BY <1>3, <2>1, ElementOfSeq DEF b
  <2>3. \A i \in 1..(b - a + 1) : SubSeq(m.bytes, a, b)[i] = m.bytes[a + i - 1]
    BY <1>3, <2>1, <2>2, SubSeqProperties
  <2>4. SubSeq(m.bytes, a, b)[j] = m.bytes[b - p + j]
    BY <2>1, <2>3
  <2> QED BY <2>4 DEF PayloadAt, a, b, p
<1>5. ASSUME NEW i \in 1..Len(client.rx) PROVE client.rx[i] = data[((i - 1) % p) + 1]
  <2>1. ((i - 1) % p) + 1 \in 1..p
    <3>1. i - 1 \in Int
      OBVIOUS
    <3> QED BY <1>3, <3>1
  <2> QED BY <1>2, <1>4, <2>1
<1> QED BY <1>2, <1>5

(* A connection elected by a frame that arrived whole gets its request     *)
(* from the first byte on and without a gap, whatever frames of other      *)
(* connections come in between and however many bytes the buffer holds.    *)
THEOREM RequestsFromTheirStart ==
  ASSUME OneFrameEach
  PROVE  Spec => []RequestFromStart
<1>1. Init => FromStart
  BY DEF Init, FromStart
<1>2. SInv /\ FromStart /\ [Next]_vars => FromStart'
  BY NextFromStart
<1> QED BY <1>1, <1>2, SyncedInvariance, StartIsRequest, PTL DEF Spec
=============================================================================
