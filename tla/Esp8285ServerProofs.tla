------------------------- MODULE Esp8285ServerProofs -------------------------
(***************************************************************************)
(* Proofs about the byte-level server, for every set of messages, buffer   *)
(* size and counter width: the bounds and the ownership of the payload are *)
(* invariant, and every step implements the frame-level server.            *)
(***************************************************************************)
EXTENDS Esp8285Server, SequenceTheorems, TLAPS

(* The inductive invariant: no conjunct is inductive alone.  That the      *)
(* decrement does not wrap needs the payload states to be entered with     *)
(* something remaining; that a payload is owned needs the link id, which   *)
(* only the header states change, to be typed.                             *)
IInv == TypeOK /\ InBounds /\ PayloadOwned

-----------------------------------------------------------------------------
(* What a read of the UART yields. *)
LEMMA NextByte ==
  ASSUME wire \in Seq(Byte), wire # <<>>
  PROVE  Head(wire) \in Byte /\ Tail(wire) \in Seq(Byte)
BY HeadTailProperties

(* A counter stays in its width. *)
LEMMA ModRange ==
  ASSUME NEW a \in Int, NEW n \in Nat \ {0}
  PROVE  a % n \in 0..(n - 1)
OBVIOUS

(* An unsigned decrement of a counter that is not zero does not wrap. *)
LEMMA NoWrap ==
  ASSUME NEW n \in Nat \ {0}, NEW a \in 1..(n - 1)
  PROVE  (a - 1) % n = a - 1
OBVIOUS

(* What an AT command leaves of the modem's messages is still a suffix of one. *)
LEMMA EatenTyped ==
  ASSUME TypeOK, Eaten
  PROVE  /\ wire' \in Seq(Byte)
         /\ msg' \in [bytes : Seq(Byte), link : Nat, payload : Nat]
<1>1. PICK m \in Messages \cup {msg} :
        \E k \in 0..Len(m.bytes) :
          msg' = m /\ wire' = SubSeq(m.bytes, k + 1, Len(m.bytes))
  BY DEF Eaten
<1>2. PICK k \in 0..Len(m.bytes) :
        msg' = m /\ wire' = SubSeq(m.bytes, k + 1, Len(m.bytes))
  BY <1>1
<1>3. m \in [bytes : Seq(Byte), link : Nat, payload : Nat]
  BY <1>1, MessagesAssumption DEF TypeOK
<1>4. SubSeq(m.bytes, k + 1, Len(m.bytes)) \in Seq(Byte)
  BY <1>3, SubSeqProperties
<1> QED BY <1>2, <1>3, <1>4

-----------------------------------------------------------------------------
(* Initially nobody is served and the parser looks for a frame. *)
LEMMA InitInv == Init => IInv
<1> SUFFICES ASSUME Init PROVE IInv
  OBVIOUS
<1>1. BufSize \in Nat \ {0} /\ 0 \in 0..(LinkMod - 1) /\ 0 \in 0..(LenMod - 1)
  BY BufSizeAssumption, WidthAssumption
<1>2. TypeOK
  <2>1. /\ ipd \in [state : States, matchPos : Nat, linkId : 0..(LinkMod - 1),
                    payloadLen : 0..(LenMod - 1), remaining : 0..(LenMod - 1)]
        /\ client \in [active : BOOLEAN, linkId : 0..(LinkMod - 1), rx : Seq(Byte),
                       head : Nat, txLen : Nat]
    BY <1>1 DEF Init, States, NoClient
  <2>2. msg \in [bytes : Seq(Byte), link : Nat, payload : Nat] /\ wire \in Seq(Byte)
    BY DEF Init, NoMessage
  <2> QED BY <2>1, <2>2 DEF Init, TypeOK
<1>3. InBounds
  BY <1>1 DEF Init, InBounds, InPayload, NoClient, IPD_PREFIX_LEN
<1>4. PayloadOwned
  BY DEF Init, PayloadOwned, InPayload
<1> QED BY <1>2, <1>3, <1>4 DEF IInv

IpdType == [state : States, matchPos : Nat, linkId : 0..(LinkMod - 1),
            payloadLen : 0..(LenMod - 1), remaining : 0..(LenMod - 1)]

ClientType == [active : BOOLEAN, linkId : 0..(LinkMod - 1), rx : Seq(Byte),
               head : Nat, txLen : Nat]

(* A byte of the header moves the parser between its searching states. *)
LEMMA HeaderByteInv ==
  ASSUME IInv, NEW c \in Byte,
         ScanForIpd(c) \/ ReadLinkId(c) \/ ReadLength(c)
  PROVE  /\ client' = client
         /\ ipd' \in IpdType
         /\ ~InPayload /\ ~InPayload'
         /\ ipd'.matchPos < IPD_PREFIX_LEN
         /\ ipd'.state # "ScanForIpd" => ipd'.matchPos = 0
<1>1. /\ ipd \in IpdType
      /\ ipd.matchPos < 5
      /\ ipd.state # "ScanForIpd" => ipd.matchPos = 0
  BY DEF IInv, TypeOK, InBounds, IpdType, IPD_PREFIX_LEN
<1>2. 0 \in 0..(LinkMod - 1) /\ 0 \in 0..(LenMod - 1)
  BY WidthAssumption
<1>3. client' = client /\ ~InPayload
  BY DEF ScanForIpd, ReadLinkId, ReadLength, InPayload
<1>4. CASE ipd' = Restart(c)
  <2>1. /\ ipd' \in IpdType
        /\ ipd'.state = "ScanForIpd"
        /\ ipd'.matchPos \in {0, 1}
    BY <1>1, <1>4 DEF Restart, IpdType, States
  <2> QED BY <2>1, <1>3 DEF InPayload, IPD_PREFIX_LEN
<1>5. CASE ScanForIpd(c) /\ ipd' # Restart(c)
  <2>1. \/ ipd' = [ipd EXCEPT !.state = "ReadLinkId", !.linkId = 0, !.matchPos = 0]
        \/ ipd.matchPos + 1 # 5 /\ ipd' = [ipd EXCEPT !.matchPos = @ + 1]
    BY <1>5 DEF ScanForIpd, IPD_PREFIX_LEN
  <2>2. ipd.state = "ScanForIpd"
    BY <1>5 DEF ScanForIpd
  <2>3. CASE ipd' = [ipd EXCEPT !.state = "ReadLinkId", !.linkId = 0, !.matchPos = 0]
    <3>1. ipd'.state = "ReadLinkId" /\ ipd'.matchPos = 0
      BY <2>3, <1>1 DEF IpdType
    <3>2. ipd' \in IpdType
      BY <2>3, <1>1, <1>2 DEF IpdType, States
    <3> QED BY <3>1, <3>2, <1>3 DEF InPayload, IPD_PREFIX_LEN
  <2>4. CASE ipd.matchPos + 1 # 5 /\ ipd' = [ipd EXCEPT !.matchPos = @ + 1]
    BY <2>2, <2>4, <1>1, <1>3 DEF IpdType, States, InPayload, IPD_PREFIX_LEN
  <2> QED BY <2>1, <2>3, <2>4
<1>6. CASE ReadLinkId(c) /\ ipd' # Restart(c)
  <2>1. (ipd.linkId * 10 + (c - ZERO)) % LinkMod \in 0..(LinkMod - 1)
    <3>1. ipd.linkId * 10 + (c - ZERO) \in Int
      BY <1>1, WidthAssumption DEF IpdType, Byte, ZERO
    <3> QED BY <3>1, ModRange, WidthAssumption
  <2>2. /\ ipd.state = "ReadLinkId"
        /\ \/ ipd' = [ipd EXCEPT !.linkId = (@ * 10 + (c - ZERO)) % LinkMod]
           \/ ipd' = [ipd EXCEPT !.state = "ReadLength", !.payloadLen = 0]
    BY <1>6 DEF ReadLinkId
  <2> QED BY <2>1, <2>2, <1>1, <1>2, <1>3 DEF IpdType, States, InPayload, IPD_PREFIX_LEN
<1>7. CASE ReadLength(c) /\ ipd' # Restart(c)
  <2>1. (ipd.payloadLen * 10 + (c - ZERO)) % LenMod \in 0..(LenMod - 1)
    <3>1. ipd.payloadLen * 10 + (c - ZERO) \in Int
      BY <1>1, WidthAssumption DEF IpdType, Byte, ZERO
    <3> QED BY <3>1, ModRange, WidthAssumption
  <2>2. /\ ipd.state = "ReadLength"
        /\ ipd' = [ipd EXCEPT !.payloadLen = (@ * 10 + (c - ZERO)) % LenMod]
    BY <1>7 DEF ReadLength
  <2> QED BY <2>1, <2>2, <1>1, <1>3 DEF IpdType, States, InPayload, IPD_PREFIX_LEN
<1> QED BY <1>4, <1>5, <1>6, <1>7

(* The end of the header enters a payload state only with something to count. *)
LEMMA StartPayloadInv ==
  ASSUME IInv, NEW c \in Byte, StartPayload(c)
  PROVE  /\ ipd' \in IpdType
         /\ client' \in ClientType
         /\ InBounds' /\ PayloadOwned'
<1>1. ipd \in IpdType /\ client \in ClientType
  BY DEF IInv, TypeOK, IpdType, ClientType
<1>2. /\ client' \in ClientType
      /\ client'.active
      /\ client'.head <= Len(client'.rx)
      /\ Len(client'.rx) <= BufSize
      /\ client'.txLen <= BufSize
  <2>1. CASE client.active
    BY <2>1, <1>1 DEF StartPayload, IInv, InBounds
  <2>2. CASE ~client.active
    <3>1. client' = Serving(ipd.linkId)
      BY <2>2 DEF StartPayload
    <3> QED BY <3>1, <1>1, BufSizeAssumption DEF Serving, ClientType, IpdType
  <2> QED BY <2>1, <2>2
<1>2a. ipd' = [ipd EXCEPT !.state = IF ipd.payloadLen = 0 THEN "ScanForIpd"
                                   ELSE IF ipd.linkId = client'.linkId THEN "CopyPayload"
                                   ELSE "DiscardPayload",
                         !.remaining = ipd.payloadLen]
  BY DEF StartPayload
<1>3. ipd.matchPos = 0
  BY DEF IInv, InBounds, StartPayload
<1>4. ipd' \in IpdType
  BY <1>1, <1>2a DEF IpdType, States
<1>5. InBounds'
  BY <1>1, <1>2, <1>2a, <1>3, WidthAssumption DEF InBounds, InPayload, IpdType, IPD_PREFIX_LEN
<1>6. PayloadOwned'
  BY <1>1, <1>2, <1>2a DEF PayloadOwned, InPayload, IpdType
<1> QED BY <1>2, <1>4, <1>5, <1>6

(* Counting a payload byte leaves the payload states at zero, never below. *)
LEMMA CountPayloadInv ==
  ASSUME IInv, InPayload, CountPayload
  PROVE  /\ ipd' = [ipd EXCEPT !.remaining = @ - 1,
                               !.state = IF ipd.remaining = 1 THEN "ScanForIpd" ELSE @]
         /\ ipd.remaining \in 1..(LenMod - 1)
<1>1. ipd.remaining \in 1..(LenMod - 1)
  BY WidthAssumption DEF IInv, TypeOK, InBounds
<1>2. (ipd.remaining - 1) % LenMod = ipd.remaining - 1
  BY <1>1, NoWrap, WidthAssumption
<1>3. (ipd.remaining - 1) % LenMod = 0 <=> ipd.remaining = 1
  BY <1>1, <1>2
<1> QED BY <1>1, <1>2, <1>3 DEF CountPayload

(* A payload byte keeps the counter, the buffer and its owner in order. *)
LEMMA PayloadByteInv ==
  ASSUME IInv, NEW c \in Byte, CopyPayload(c) \/ DiscardPayload
  PROVE  /\ ipd' \in IpdType
         /\ client' \in ClientType
         /\ InBounds' /\ PayloadOwned'
<1>1. ipd \in IpdType /\ client \in ClientType
  BY DEF IInv, TypeOK, IpdType, ClientType
<1>2. InPayload /\ CountPayload
  BY DEF CopyPayload, DiscardPayload, InPayload
<1>3. /\ ipd' = [ipd EXCEPT !.remaining = @ - 1,
                           !.state = IF ipd.remaining = 1 THEN "ScanForIpd" ELSE @]
      /\ ipd.remaining \in 1..(LenMod - 1)
  BY <1>2, CountPayloadInv
<1>4. /\ ipd' \in IpdType
      /\ ipd'.matchPos = 0
      /\ ipd'.linkId = ipd.linkId
      /\ ipd'.remaining = ipd.remaining - 1
      /\ ipd'.state = IF ipd.remaining = 1 THEN "ScanForIpd" ELSE ipd.state
  <2>1. ipd.matchPos = 0
    BY <1>2 DEF IInv, InBounds, InPayload
  <2>2. ipd.remaining - 1 \in 0..(LenMod - 1)
    BY <1>3, WidthAssumption
  <2> QED BY <1>1, <1>3, <2>1, <2>2 DEF IpdType, States
<1>5. /\ client' \in ClientType
      /\ client'.active = client.active
      /\ client'.linkId = client.linkId
      /\ client'.head <= Len(client'.rx)
      /\ Len(client'.rx) <= BufSize
      /\ client'.txLen <= BufSize
  <2>1. CASE client' = client
    BY <2>1, <1>1 DEF IInv, InBounds
  <2>2. CASE /\ Len(client.rx) < BufSize
             /\ client' = [client EXCEPT !.rx = Append(@, c)]
    <3>1. Append(client.rx, c) \in Seq(Byte) /\ Len(Append(client.rx, c)) = Len(client.rx) + 1
      BY <1>1, AppendProperties DEF ClientType
    <3>2. client.rx \in Seq(Byte) /\ client.head \in Nat
      BY <1>1 DEF ClientType
    <3> QED BY <2>2, <3>1, <3>2, <1>1, BufSizeAssumption DEF IInv, InBounds, ClientType
  <2> QED BY <2>1, <2>2 DEF CopyPayload, DiscardPayload
<1>6. InBounds'
  BY <1>3, <1>4, <1>5 DEF InBounds, InPayload, IPD_PREFIX_LEN
<1>7. PayloadOwned'
  BY <1>2, <1>4, <1>5 DEF IInv, PayloadOwned, InPayload
<1> QED BY <1>4, <1>5, <1>6, <1>7

-----------------------------------------------------------------------------
(* A step of the sketch on the client's buffers leaves the parser's part alone. *)
LEMMA BuffersInv ==
  ASSUME IInv, ipd' = ipd, client' \in ClientType,
         client'.active = client.active, client'.linkId = client.linkId,
         client'.head <= Len(client'.rx), Len(client'.rx) <= BufSize,
         client'.txLen <= BufSize,
         phase' \in {"poll", "respond", "close"},
         msg' \in [bytes : Seq(Byte), link : Nat, payload : Nat],
         wire' \in Seq(Byte), whole' \in BOOLEAN, clean' \in BOOLEAN
  PROVE  IInv'
<1>1. TypeOK'
  BY DEF IInv, TypeOK, ClientType
<1>2. InBounds' /\ PayloadOwned'
  BY DEF IInv, InBounds, PayloadOwned, InPayload
<1> QED BY <1>1, <1>2 DEF IInv

(* Every action preserves the inductive invariant. *)
LEMMA NextInv == IInv /\ [Next]_vars => IInv'
<1> SUFFICES ASSUME IInv, [Next]_vars PROVE IInv'
  OBVIOUS
<1>0. /\ ipd \in IpdType /\ client \in ClientType
      /\ phase \in {"poll", "respond", "close"}
      /\ msg \in [bytes : Seq(Byte), link : Nat, payload : Nat]
      /\ wire \in Seq(Byte)
      /\ whole \in BOOLEAN
      /\ clean \in BOOLEAN
  BY DEF IInv, TypeOK, IpdType, ClientType
<1>1. ASSUME NEW m \in Messages, ModemSend(m) PROVE IInv'
  BY <1>1, MessagesAssumption DEF ModemSend, IInv, TypeOK, InBounds, PayloadOwned, InPayload
<1>2. ASSUME FeedByte PROVE IInv'
  <2>1. Head(wire) \in Byte /\ Tail(wire) \in Seq(Byte)
    BY <1>0, <1>2, NextByte DEF FeedByte
  <2>2. /\ phase' \in {"poll", "respond", "close"}
        /\ msg' \in [bytes : Seq(Byte), link : Nat, payload : Nat]
        /\ wire' \in Seq(Byte)
        /\ whole' \in BOOLEAN
        /\ clean' \in BOOLEAN
    BY <1>0, <1>2, <2>1 DEF FeedByte
  <2>3. ASSUME \/ ScanForIpd(Head(wire))
               \/ ReadLinkId(Head(wire))
               \/ ReadLength(Head(wire))
        PROVE  /\ ipd' \in IpdType /\ client' \in ClientType
               /\ InBounds' /\ PayloadOwned'
    <3>1. /\ client' = client
          /\ ipd' \in IpdType
          /\ ~InPayload'
          /\ ipd'.matchPos < IPD_PREFIX_LEN
          /\ ipd'.state # "ScanForIpd" => ipd'.matchPos = 0
      BY <2>1, <2>3, HeaderByteInv
    <3> QED BY <3>1, <1>0 DEF IInv, InBounds, PayloadOwned, InPayload
  <2>4. ASSUME StartPayload(Head(wire))
        PROVE  /\ ipd' \in IpdType /\ client' \in ClientType
               /\ InBounds' /\ PayloadOwned'
    BY <2>1, <2>4, StartPayloadInv
  <2>5. ASSUME CopyPayload(Head(wire)) \/ DiscardPayload
        PROVE  /\ ipd' \in IpdType /\ client' \in ClientType
               /\ InBounds' /\ PayloadOwned'
    BY <2>1, <2>5, PayloadByteInv
  <2>6. /\ ipd' \in IpdType /\ client' \in ClientType
        /\ InBounds' /\ PayloadOwned'
    BY <1>2, <2>3, <2>4, <2>5 DEF FeedByte
  <2> QED BY <2>2, <2>6 DEF IInv, TypeOK, IpdType, ClientType
<1>3. ASSUME Read PROVE IInv'
  <2>1. /\ client.head + 1 \in Nat
        /\ client.head + 1 <= Len(client.rx)
    BY <1>0, <1>3 DEF Read, ClientType
  <2>2. client' = [client EXCEPT !.head = client.head + 1]
    BY <1>3 DEF Read
  <2>3. /\ client' \in ClientType
        /\ client'.head = client.head + 1
        /\ client'.txLen = client.txLen /\ client'.rx = client.rx
        /\ client'.active = client.active /\ client'.linkId = client.linkId
    BY <1>0, <2>1, <2>2 DEF ClientType
  <2> QED BY <1>0, <1>3, <2>1, <2>3, BuffersInv DEF Read, IInv, InBounds
<1>4. ASSUME NEW n \in WriteSizes, Write(n) PROVE IInv'
  <2>1. /\ n \in Nat
        /\ client.txLen \in 0..BufSize
        /\ BufSize \in Nat
    BY <1>0, BufSizeAssumption, WriteSizesAssumption DEF IInv, InBounds, ClientType
  <2> DEFINE k == IF n > BufSize - client.txLen THEN BufSize - client.txLen ELSE n
  <2>2. k \in Nat /\ client.txLen + k <= BufSize /\ client.txLen + k \in Nat
    BY <2>1
  <2>3. client' = [client EXCEPT !.txLen = @ + k]
    BY <1>4 DEF Write
  <2> HIDE DEF k
  <2>4. /\ client' \in ClientType
        /\ client'.txLen = client.txLen + k
        /\ client'.rx = client.rx /\ client'.head = client.head
        /\ client'.active = client.active /\ client'.linkId = client.linkId
    BY <1>0, <2>2, <2>3 DEF ClientType
  <2> QED BY <1>0, <1>4, <2>2, <2>4, BuffersInv DEF Write, IInv, InBounds
<1>5. ASSUME Flush PROVE IInv'
  <2>1. wire' \in Seq(Byte) /\ msg' \in [bytes : Seq(Byte), link : Nat, payload : Nat]
    BY <1>5, EatenTyped DEF Flush, IInv
  <2>2. client' = [client EXCEPT !.txLen = 0] /\ ipd' = ipd /\ phase' = "close"
      /\ whole' = FALSE /\ clean' = FALSE
    BY <1>5 DEF Flush
  <2>3. /\ client' \in ClientType
        /\ client'.txLen = 0
        /\ client'.rx = client.rx /\ client'.head = client.head
        /\ client'.active = client.active /\ client'.linkId = client.linkId
    BY <1>0, <2>2 DEF ClientType
  <2>4. client'.head <= Len(client'.rx) /\ Len(client'.rx) <= BufSize /\ client'.txLen <= BufSize
    BY <2>3, BufSizeAssumption DEF IInv, InBounds
  <2>5. phase' \in {"poll", "respond", "close"} /\ whole' \in BOOLEAN /\ clean' \in BOOLEAN
    BY <2>2
  <2> QED BY <2>1, <2>2, <2>3, <2>4, <2>5, BuffersInv
<1>6. ASSUME CloseClient PROVE IInv'
  <2>1. wire' \in Seq(Byte) /\ msg' \in [bytes : Seq(Byte), link : Nat, payload : Nat]
    BY <1>6, EatenTyped DEF CloseClient, IInv
  <2>2. ipd' \in IpdType /\ ipd'.state = "ScanForIpd" /\ ipd'.matchPos = 0
    BY <1>0, <1>6 DEF CloseClient, IpdType, States
  <2>3. client' \in ClientType
    BY <1>6, WidthAssumption DEF CloseClient, NoClient, ClientType
  <2>4. InBounds' /\ PayloadOwned'
    BY <1>6, <2>2, BufSizeAssumption
       DEF CloseClient, NoClient, InBounds, PayloadOwned, InPayload, IPD_PREFIX_LEN
  <2>5. phase' \in {"poll", "respond", "close"} /\ whole' \in BOOLEAN /\ clean' \in BOOLEAN
    BY <1>6 DEF CloseClient
  <2> QED BY <2>1, <2>2, <2>3, <2>4, <2>5 DEF IInv, TypeOK, IpdType, ClientType
<1>7. ASSUME MaintainWifi PROVE IInv'
  <2>1. wire' \in Seq(Byte) /\ msg' \in [bytes : Seq(Byte), link : Nat, payload : Nat]
    BY <1>7, EatenTyped DEF MaintainWifi, IInv
  <2> QED BY <1>7, <2>1 DEF MaintainWifi, IInv, TypeOK, InBounds, PayloadOwned, InPayload
<1>8. ASSUME UNCHANGED vars PROVE IInv'
  BY <1>8 DEF vars, IInv, TypeOK, InBounds, PayloadOwned, InPayload
<1> QED BY <1>1, <1>2, <1>3, <1>4, <1>5, <1>6, <1>7, <1>8 DEF Next

(* The inductive invariant holds in every state. *)
LEMMA Invariance == Spec => []IInv
BY InitInv, NextInv, PTL DEF Spec

(* The variables keep their types, and the counters their C++ widths. *)
THEOREM TypeCorrect == Spec => []TypeOK
BY Invariance, PTL DEF IInv

(* No index leaves its array and no unsigned counter goes below zero. *)
THEOREM BoundsHold == Spec => []InBounds
BY Invariance, PTL DEF IInv

(* A payload is counted only while a connection is served, and stored only *)
(* if it is that connection's.                                             *)
THEOREM PayloadsOwned == Spec => []PayloadOwned
BY Invariance, PTL DEF IInv

-----------------------------------------------------------------------------
(* The actions that touch the payload are the frame-level ones; all others *)
(* leave what the frame-level server sees alone.                           *)
LEMMA StepImplements ==
  ASSUME IInv, [Next]_vars
  PROVE  [FS!FSNext]_(FS!fsVars)
<1>0. /\ ipd \in IpdType /\ client \in ClientType
      /\ wire \in Seq(Byte)
  BY DEF IInv, TypeOK, IpdType, ClientType
<1>1. CASE \/ \E m \in Messages : ModemSend(m)
           \/ MaintainWifi
           \/ UNCHANGED vars
  BY <1>1 DEF ModemSend, MaintainWifi, vars, FS!fsVars, frameOf, InPayload
<1>2. CASE FeedByte
  <2> DEFINE c == Head(wire)
  <2>1. c \in Byte
    BY <1>0, <1>2, NextByte DEF FeedByte
  <2>2. CASE ScanForIpd(c) \/ ReadLinkId(c) \/ ReadLength(c)
    <3>1. client' = client /\ ~InPayload /\ ~InPayload'
      BY <2>1, <2>2, HeaderByteInv
    <3> QED BY <3>1 DEF FS!fsVars, frameOf, InPayload
  <2>3. CASE StartPayload(c)
    <3>1. /\ ipd.linkId \in 0..(LinkMod - 1)
          /\ ipd.payloadLen \in 0..(LenMod - 1)
          /\ ipd.state = "ReadLength"
      BY <1>0, <2>3 DEF IpdType, StartPayload
    <3>2. /\ client' = IF client.active THEN client ELSE Serving(ipd.linkId)
          /\ ipd'.state = IF ipd.payloadLen = 0 THEN "ScanForIpd"
                          ELSE IF ipd.linkId = client'.linkId THEN "CopyPayload"
                          ELSE "DiscardPayload"
          /\ ipd'.remaining = ipd.payloadLen
      BY <1>0, <2>3 DEF StartPayload, IpdType
    <3>3. frameOf.phase = "none"
      BY <3>1 DEF frameOf
    <3>4. frameOf' = IF ipd.payloadLen = 0 THEN FS!NoFrame
                     ELSE [phase |-> IF ipd.linkId = client'.linkId THEN "copy" ELSE "discard",
                           left  |-> ipd.payloadLen]
      BY <3>2 DEF frameOf, InPayload, FS!NoFrame
    <3>5. FS!OpenFrame(ipd.linkId, ipd.payloadLen)
      BY <3>2, <3>3, <3>4 DEF FS!OpenFrame, FS!Serving, Serving
    <3> QED BY <3>1, <3>5 DEF FS!FSNext
  <2>4. CASE CopyPayload(c) \/ DiscardPayload
    <3>1. InPayload /\ CountPayload
      BY <2>4 DEF CopyPayload, DiscardPayload, InPayload
    <3>2. /\ ipd' = [ipd EXCEPT !.remaining = @ - 1,
                               !.state = IF ipd.remaining = 1 THEN "ScanForIpd" ELSE @]
          /\ ipd.remaining \in 1..(LenMod - 1)
      BY <3>1, CountPayloadInv
    <3>3. /\ ipd'.remaining = ipd.remaining - 1
          /\ ipd'.state = IF ipd.remaining = 1 THEN "ScanForIpd" ELSE ipd.state
      BY <1>0, <3>2 DEF IpdType
    <3>4. /\ frameOf = [phase |-> IF ipd.state = "CopyPayload" THEN "copy" ELSE "discard",
                        left  |-> ipd.remaining]
          /\ frameOf' = IF frameOf.left = 1 THEN FS!NoFrame
                        ELSE [phase |-> frameOf.phase, left |-> frameOf.left - 1]
      BY <3>1, <3>3 DEF frameOf, InPayload, FS!NoFrame
    <3>5. FS!PayloadByte(c)
      BY <2>4, <3>1, <3>4 DEF CopyPayload, DiscardPayload, InPayload, FS!PayloadByte
    <3> QED BY <2>1, <3>5 DEF FS!FSNext, Byte
  <2> QED BY <1>2, <2>2, <2>3, <2>4 DEF FeedByte
<1>3. CASE Read
  BY <1>3 DEF Read, FS!FSNext, FS!ReadNext, frameOf, InPayload
<1>4. ASSUME NEW n \in WriteSizes, Write(n) PROVE FS!FSNext
  <2>1. FS!Queue(n)
    <3>1. client.txLen \in Nat /\ BufSize \in Nat /\ n \in Nat
      BY <1>0, BufSizeAssumption, WriteSizesAssumption DEF ClientType
    <3>2. client.txLen + (IF n > BufSize - client.txLen THEN BufSize - client.txLen ELSE n)
            = IF n > BufSize - client.txLen THEN BufSize ELSE client.txLen + n
      BY <3>1
    <3>3. client' = [client EXCEPT !.txLen = IF n > BufSize - client.txLen
                                             THEN BufSize ELSE client.txLen + n]
      BY <1>4, <3>2 DEF Write
    <3> QED BY <1>4, <3>3 DEF Write, FS!Queue, frameOf, InPayload
  <2> QED BY <2>1 DEF FS!FSNext
<1>5. CASE Flush
  BY <1>5 DEF Flush, FS!FSNext, FS!Send, frameOf, InPayload
<1>6. CASE CloseClient
  <2>1. ipd'.state = "ScanForIpd"
    BY <1>0, <1>6 DEF CloseClient, IpdType
  <2>2. frameOf' = FS!NoFrame
    BY <2>1 DEF frameOf, InPayload, FS!NoFrame
  <2> QED BY <1>6, <2>2 DEF CloseClient, NoClient, FS!NoClient, FS!FSNext, FS!Drop
<1> QED BY <1>1, <1>2, <1>3, <1>4, <1>5, <1>6 DEF Next

(* The byte-level server implements the frame-level one: for every stream  *)
(* of messages, however AT commands cut it.                                *)
THEOREM Implements == Spec => ImplementsFrameServer
<1>1. Init => FS!FSInit
  BY DEF Init, FS!FSInit, NoClient, FS!NoClient, FS!NoFrame, frameOf, InPayload
<1> QED BY <1>1, Invariance, StepImplements, PTL DEF Spec, ImplementsFrameServer, FS!FSSpec
=============================================================================
