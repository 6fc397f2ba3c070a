-------------------------- MODULE LightQueryProofs --------------------------
(***************************************************************************)
(* Proofs about the light query, for every number of processes, link ids,  *)
(* attempts and checks of the WiFi connection: the types, in every         *)
(* environment; when nobody gives up early, that the modem is ready        *)
(* whenever loop() is; and when, besides, no check begins with half a      *)
(* header read, that an answer reaches the connection that asked.          *)
(***************************************************************************)
EXTENDS LightQuery, SequenceTheorems, TLAPS

Piece == {Header(l) : l \in LinkId} \cup {Length} \cup {Request(k) : k \in Conn}
         \cup {Reply(t) : t \in Text}

AtType     == [op : Commands \cup {"DATA", "none"}, found : BOOLEAN, joined : BOOLEAN,
               masked : BOOLEAN]
ClientType == [active : BOOLEAN, linkId : LinkId, rx : Seq(Conn), head : Nat, txLen : Nat]
FrameType  == [phase : {"none", "copy", "discard"}, left : Nat]
ModemType  == [job : Commands \cup {"idle", "AwaitData", "Sending", "SendJunk"},
               link : LinkId, answer : Answers, joined : BOOLEAN]
LinkType   == [conn : Answers, asked : BOOLEAN]
QueryType  == [stage : {"READ_ADC", "READ_TEMP", "saved", "gave up"}, attempt : 1..RetryCount,
               open : BOOLEAN, inbox : Seq(Answers), adc : Answers, temp : Answers]

BoardTyped ==
  /\ setting \in Settings
  /\ pc \in {"poll", "answer", "wait"}
  /\ at \in AtType
  /\ client \in ClientType /\ client.head <= Len(client.rx)
  /\ frame \in FrameType
  /\ half \subseteq LinkId
  /\ serverRunning \in BOOLEAN
  /\ ticks \in 0..setting.ticks

QueryTyped ==
  /\ query \in [Clients -> QueryType]
  /\ \A c \in Clients : query[c].attempt <= setting.attempts

(* The program counter, the command it waits for and the connection it     *)
(* serves go together: an answer has a request it answers.                 *)
Serving ==
  /\ pc = "wait" <=> at.op # "none"
  /\ pc = "answer" \/ at.op \in {"CIPSEND", "DATA"} => client.head >= 1
  /\ pc = "answer" \/ at.op \in {"CIPSEND", "DATA", "CIPCLOSE"} => client.active
  /\ frame.phase # "none" => client.active /\ frame.left = 1

(* Only a connection has asked for something. *)
AskedIsConn == \A l \in LinkId : links[l].asked => links[l].conn # NoConn

TypeInv ==
  /\ BoardTyped /\ QueryTyped /\ Serving /\ AskedIsConn
  /\ uart \in Seq(Piece)
  /\ modem \in ModemType
  /\ links \in [LinkId -> LinkType]

-----------------------------------------------------------------------------
(* The pieces on the UART, told apart by their kind. *)
LEMMA PieceKinds ==
  ASSUME NEW t \in Piece
  PROVE  /\ t.kind \in {"header", "length", "request", "reply"}
         /\ t.kind = "header" => t.link \in LinkId /\ t = Header(t.link)
         /\ t.kind = "request" => t.conn \in Conn /\ t = Request(t.conn)
         /\ t.kind = "reply" => t.text \in Text /\ t = Reply(t.text)
BY DEF Piece, Header, Length, Request, Reply

LEMMA PiecesMade ==
  /\ \A l \in LinkId : Header(l) \in Piece /\ Header(l).kind = "header" /\ Header(l).link = l
  /\ Length \in Piece /\ Length.kind = "length"
  /\ \A k \in Conn : Request(k) \in Piece /\ Request(k).kind = "request" /\ Request(k).conn = k
  /\ \A t \in Text : Reply(t) \in Piece /\ Reply(t).kind = "reply" /\ Reply(t).text = t
BY DEF Piece, Header, Length, Request, Reply

LEMMA NobodyAsked == NoConn \notin Conn /\ NoConn \in Answers /\ Conn \subseteq Answers
BY DEF NoConn, Conn, Answers

(* One piece taken from the UART. *)
LEMMA Taken ==
  ASSUME NEW u \in Seq(Piece), u # <<>>
  PROVE  /\ Tail(u) \in Seq(Piece)
         /\ Len(u) \in Nat \ {0} /\ Len(Tail(u)) = Len(u) - 1
         /\ \A i \in 1..(Len(u) - 1) : Tail(u)[i] = u[i + 1]
         /\ Head(u) = u[1] /\ u[1] \in Piece
<1>1. Len(u) \in Nat \ {0}
  BY EmptySeq
<1>2. Head(u) = u[1]
  OBVIOUS
<1> QED BY <1>1, <1>2, HeadTailProperties

(* What the modem says is added to the UART. *)
LEMMA Said ==
  ASSUME uart \in Seq(Piece), NEW texts \in Seq(Text), Says(texts)
  PROVE  /\ uart' \in Seq(Piece)
         /\ Len(uart') = Len(uart) + Len(texts) /\ Len(uart) \in Nat /\ Len(texts) \in Nat
         /\ \A i \in 1..Len(uart) : uart'[i] = uart[i]
         /\ \A i \in (Len(uart) + 1)..Len(uart') :
              uart'[i].kind = "reply" /\ uart'[i] = Reply(texts[i - Len(uart)])
<1> DEFINE said == [i \in 1..Len(texts) |-> Reply(texts[i])]
<1>1. Len(texts) \in Nat /\ Len(uart) \in Nat
  BY LenProperties
<1>2. \A i \in 1..Len(texts) : texts[i] \in Text
  BY ElementOfSeq
<1>3. \A i \in 1..Len(texts) : said[i] \in Piece /\ said[i].kind = "reply" /\ said[i] = Reply(texts[i])
  BY <1>2, PiecesMade
<1>4. said \in Seq(Piece)
  <2>1. said \in [1..Len(texts) -> Piece]
    BY <1>3
  <2> QED BY <1>1, <2>1
<1>5. Len(said) = Len(texts)
  BY <1>1
<1>6. uart' = uart \o said
  BY DEF Says
<1> HIDE DEF said
<1>7. /\ uart \o said \in Seq(Piece)
      /\ Len(uart \o said) = Len(uart) + Len(said)
      /\ \A i \in 1..(Len(uart) + Len(said)) :
           (uart \o said)[i] = IF i <= Len(uart) THEN uart[i] ELSE said[i - Len(uart)]
  BY <1>4, ConcatProperties
<1>8. \A i \in 1..Len(uart) : uart'[i] = uart[i]
  BY <1>1, <1>5, <1>6, <1>7
<1>9. \A i \in (Len(uart) + 1)..Len(uart') : uart'[i] = said[i - Len(uart)] /\ i - Len(uart) \in 1..Len(texts)
  BY <1>1, <1>5, <1>6, <1>7
<1> QED BY <1>1, <1>3, <1>5, <1>6, <1>7, <1>8, <1>9

(* A request passed on: its header, in two pieces, and itself at the end   *)
(* of the UART.                                                            *)
LEMMA Passed ==
  ASSUME uart \in Seq(Piece), NEW l \in LinkId, NEW k \in Conn,
         uart' = uart \o <<Header(l), Length, Request(k)>>
  PROVE  /\ uart' \in Seq(Piece)
         /\ Len(uart') = Len(uart) + 3 /\ Len(uart) \in Nat
         /\ \A i \in 1..Len(uart) : uart'[i] = uart[i]
         /\ uart'[Len(uart) + 1] = Header(l) /\ uart'[Len(uart) + 2] = Length
         /\ uart'[Len(uart) + 3] = Request(k)
<1> DEFINE new == <<Header(l), Length, Request(k)>>
<1>1. Len(uart) \in Nat
  BY LenProperties
<1>2. /\ new \in Seq(Piece) /\ Len(new) = 3
      /\ new[1] = Header(l) /\ new[2] = Length /\ new[3] = Request(k)
  BY PiecesMade
<1>3. uart' = uart \o new
  OBVIOUS
<1> HIDE DEF new
<1>4. /\ uart \o new \in Seq(Piece)
      /\ Len(uart \o new) = Len(uart) + Len(new)
      /\ \A i \in 1..(Len(uart) + Len(new)) :
           (uart \o new)[i] = IF i <= Len(uart) THEN uart[i] ELSE new[i - Len(uart)]
  BY <1>2, ConcatProperties
<1>5. ASSUME NEW j \in 1..3
      PROVE  uart'[Len(uart) + j] = new[j]
  <2>1. /\ Len(uart) + j \in 1..(Len(uart) + Len(new))
        /\ ~(Len(uart) + j <= Len(uart)) /\ (Len(uart) + j) - Len(uart) = j
    BY <1>1, <1>2
  <2> QED BY <1>3, <1>4, <2>1
<1>6. \A i \in 1..Len(uart) : uart'[i] = uart[i]
  BY <1>1, <1>2, <1>3, <1>4
<1> QED BY <1>1, <1>2, <1>3, <1>4, <1>5, <1>6

-----------------------------------------------------------------------------
(* The pieces every step of the board is built from.                       *)

LEMMA NoCommandTyped == NoCommand \in AtType /\ NoCommand.op = "none"
BY DEF NoCommand, AtType

LEMMA SettingTyped ==
  ASSUME BoardTyped
  PROVE  /\ setting.timely \in BOOLEAN /\ setting.attempts \in 1..RetryCount
         /\ setting.ticks \in Nat /\ RetryCount \in Nat \ {0}
BY SettingsAssumption, RetryAssumption DEF BoardTyped

LEMMA DiscardedTyped ==
  ASSUME uart \in Seq(Piece), NEW d \in Discarded
  PROVE  d \in Seq(Piece) /\ (setting.timely => d = <<>>)
<1>1. CASE setting.timely
  BY <1>1, EmptySeq DEF Discarded
<1>2. CASE ~setting.timely
  <2>1. PICK k \in 1..(Len(uart) + 1) : d = SubSeq(uart, k, Len(uart))
    BY <1>2 DEF Discarded
  <2>2. Len(uart) \in Nat
    BY LenProperties
  <2>3. k \in Int /\ Len(uart) \in Int /\ \A i \in k..Len(uart) : i \in 1..Len(uart)
    BY <2>2
  <2>4. \A i \in k..Len(uart) : uart[i] \in Piece
    BY <2>3, ElementOfSeq
  <2> QED BY <1>2, <2>1, <2>3, <2>4, SubSeqProperties
<1> QED BY <1>1, <1>2

(* A command goes out: what the board and the modem do of it. *)
LEMMA Issued ==
  ASSUME TypeInv, NEW op \in Commands, Issue(op)
  PROVE  /\ pc' = "wait"
         /\ at' \in AtType /\ at' = [op |-> op, found |-> FALSE, joined |-> FALSE, masked |-> FALSE]
         /\ uart' \in Seq(Piece) /\ (setting.timely => uart' = <<>>)
         /\ modem' \in ModemType
         /\ modem.job = "idle" => modem'.job = op /\ modem'.link = client.linkId
         /\ modem.job = "AwaitData" => modem'.job = "SendJunk"
<1>1. at' = [op |-> op, found |-> FALSE, joined |-> FALSE, masked |-> FALSE] /\ pc' = "wait"
  BY DEF Issue, NoCommand
<1>2. at' \in AtType
  BY <1>1 DEF AtType
<1>3. uart' \in Seq(Piece) /\ (setting.timely => uart' = <<>>)
  BY DiscardedTyped DEF Issue, TypeInv
<1>4. modem \in ModemType /\ client.linkId \in LinkId /\ Take(op)
  BY DEF TypeInv, BoardTyped, ClientType, Issue
<1>5. CASE modem.job = "idle"
  <2>1. modem' = [modem EXCEPT !.job = op, !.link = client.linkId]
    BY <1>4, <1>5 DEF Take
  <2> QED BY <1>1, <1>2, <1>3, <1>4, <1>5, <2>1 DEF ModemType
<1>6. CASE modem.job = "AwaitData"
  <2>1. modem' = [modem EXCEPT !.job = "SendJunk"]
    BY <1>4, <1>6 DEF Take
  <2> QED BY <1>1, <1>2, <1>3, <1>4, <1>6, <2>1 DEF ModemType
<1>7. CASE modem.job \notin {"idle", "AwaitData"}
  <2>1. modem' = modem
    BY <1>4, <1>7 DEF Take
  <2> QED BY <1>1, <1>2, <1>3, <1>4, <1>7, <2>1
<1> QED BY <1>5, <1>6, <1>7

(* The wait is over and loop() goes on. *)
LEMMA Looped ==
  ASSUME TypeInv, BackToLoop
  PROVE  /\ pc' = "poll" /\ at' = NoCommand /\ at' \in AtType
         /\ uart' \in Seq(Piece)
         /\ modem' = modem /\ modem' \in ModemType
<1>1. uart' \in Seq(Piece)
  <2>1. CASE ErrorNext
    BY <2>1, Taken DEF ErrorNext, BackToLoop, TypeInv
  <2>2. CASE ~ErrorNext
    BY <2>2 DEF BackToLoop, TypeInv
  <2> QED BY <2>1, <2>2
<1> QED BY <1>1, NoCommandTyped DEF BackToLoop, TypeInv

(* The connection is given up. *)
LEMMA Dropped ==
  ASSUME FS!Drop
  PROVE  /\ client' = [active |-> FALSE, linkId |-> 0, rx |-> <<>>, head |-> 0, txLen |-> 0]
         /\ client' \in ClientType /\ client'.head <= Len(client'.rx)
         /\ frame' = [phase |-> "none", left |-> 0] /\ frame' \in FrameType
<1>1. <<>> \in Seq(Conn) /\ Len(<<>>) = 0
  BY EmptySeq
<1>2. 0 \in LinkId /\ 0 \in Nat
  BY LinkAssumption
<1> QED BY <1>1, <1>2 DEF FS!Drop, FS!NoClient, FS!NoFrame, ClientType, FrameType

(* The steps of the board leave the links and the processes alone. *)
LEMMA RestOK ==
  ASSUME TypeInv, UNCHANGED <<setting, links, query>>,
         pc' \in {"poll", "answer", "wait"}, at' \in AtType,
         client' \in ClientType, client'.head <= Len(client'.rx), frame' \in FrameType,
         half' \subseteq LinkId, serverRunning' \in BOOLEAN, ticks' \in 0..setting.ticks,
         uart' \in Seq(Piece), modem' \in ModemType, Serving'
  PROVE  TypeInv'
<1>1. BoardTyped'
  BY DEF TypeInv, BoardTyped
<1>2. QueryTyped' /\ AskedIsConn'
  BY DEF TypeInv, QueryTyped, AskedIsConn
<1> QED BY <1>1, <1>2 DEF TypeInv

-----------------------------------------------------------------------------
(* The types are preserved: the board.                                     *)

LEMMA ReadReplyTyped ==
  ASSUME TypeInv, ReadReply, UNCHANGED setting
  PROVE  TypeInv'
<1>1. /\ uart' \in Seq(Piece) /\ Head(uart) \in Piece
  BY Taken DEF ReadReply, TypeInv
<1>2. at' \in AtType /\ at'.op = at.op
  <2>1. at \in AtType
    BY DEF TypeInv, BoardTyped
  <2> QED BY <2>1 DEF ReadReply, AtType
<1>3. Serving'
  BY <1>2 DEF ReadReply, TypeInv, Serving
<1> QED BY <1>1, <1>2, <1>3, RestOK DEF ReadReply, TypeInv, BoardTyped

LEMMA CheckWifiTyped ==
  ASSUME TypeInv, CheckWifi
  PROVE  TypeInv'
<1>1. "CWJAP?" \in Commands
  BY DEF Commands
<1>2. /\ pc' = "wait" /\ at' \in AtType /\ at'.op = "CWJAP?"
      /\ uart' \in Seq(Piece) /\ modem' \in ModemType
  BY <1>1, Issued DEF CheckWifi
<1>3. ticks' \in 0..setting.ticks
  BY SettingTyped DEF CheckWifi, TypeInv, BoardTyped
<1>4. Serving'
  BY <1>2 DEF CheckWifi, TypeInv, Serving
<1> QED BY <1>2, <1>3, <1>4, RestOK DEF CheckWifi, TypeInv, BoardTyped

(* A wait that ends issues the next command or goes back to loop(), still  *)
(* serving the connection it served: the next command keeps what Serving   *)
(* asks for.                                                               *)
LEMMA NextCommandTyped ==
  ASSUME TypeInv, NEW op \in Commands, Issue(op), op # "CIPSEND",
         op = "CIPCLOSE" => client.active,
         UNCHANGED <<setting, client, frame, half, ticks, links, query>>, serverRunning' \in BOOLEAN
  PROVE  TypeInv'
<1>1. /\ pc' = "wait" /\ at' \in AtType /\ at'.op = op
      /\ uart' \in Seq(Piece) /\ modem' \in ModemType
  BY Issued
<1>2. Serving'
  BY <1>1 DEF TypeInv, Serving, Commands
<1> QED BY <1>1, <1>2, RestOK DEF TypeInv, BoardTyped

LEMMA LoopTyped ==
  ASSUME TypeInv, BackToLoop,
         UNCHANGED <<setting, client, frame, half, ticks, links, query>>, serverRunning' \in BOOLEAN
  PROVE  TypeInv'
<1>1. /\ pc' = "poll" /\ at' \in AtType /\ at'.op = "none"
      /\ uart' \in Seq(Piece) /\ modem' \in ModemType
  BY Looped, NoCommandTyped
<1>2. Serving'
  BY <1>1 DEF TypeInv, Serving
<1> QED BY <1>1, <1>2, RestOK DEF TypeInv, BoardTyped

LEMMA JoinStepsTyped ==
  ASSUME TypeInv, NEW ok \in BOOLEAN, UNCHANGED setting,
         AfterIsJoined(ok) \/ AfterJoinStep(ok) \/ AfterServerStep(ok)
  PROVE  TypeInv'
<1>1. /\ UNCHANGED <<setting, client, frame, half, ticks, links, query>>
      /\ serverRunning' \in BOOLEAN
  BY DEF AfterIsJoined, AfterJoinStep, AfterServerStep, TypeInv, BoardTyped
<1>2. \/ BackToLoop
      \/ \E op \in {"CIPMUX", "CWMODE", "CWJAP", "CIFSR", "CIPSERVER"} : Issue(op)
  BY DEF AfterIsJoined, AfterJoinStep, AfterServerStep
<1>3. CASE BackToLoop
  BY <1>1, <1>3, LoopTyped
<1>4. CASE \E op \in {"CIPMUX", "CWMODE", "CWJAP", "CIFSR", "CIPSERVER"} : Issue(op)
  <2>1. PICK op \in {"CIPMUX", "CWMODE", "CWJAP", "CIFSR", "CIPSERVER"} : Issue(op)
    BY <1>4
  <2>2. op \in Commands /\ op # "CIPSEND" /\ op # "CIPCLOSE"
    BY DEF Commands
  <2> QED BY <1>1, <2>1, <2>2, NextCommandTyped
<1> QED BY <1>2, <1>3, <1>4

LEMMA PollHeaderTyped ==
  ASSUME TypeInv, PollHeader, UNCHANGED setting
  PROVE  TypeInv'
<1>1. uart' \in Seq(Piece) /\ Head(uart) \in Piece /\ Head(uart).link \in LinkId
  BY Taken, PieceKinds DEF PollHeader, TypeInv
<1>2. half' \subseteq LinkId
  BY <1>1 DEF PollHeader
<1>3. Serving'
  BY DEF PollHeader, TypeInv, Serving
<1> QED BY <1>1, <1>2, <1>3, RestOK DEF PollHeader, TypeInv, BoardTyped

(* The header is complete: who is served now, and where the payload goes. *)
LEMMA Opened ==
  ASSUME TypeInv, NEW l \in LinkId, FS!OpenFrame(l, 1)
  PROVE  /\ client' = IF client.active THEN client
                      ELSE [active |-> TRUE, linkId |-> l, rx |-> <<>>, head |-> 0, txLen |-> 0]
         /\ frame' = [phase |-> IF l = client'.linkId THEN "copy" ELSE "discard", left |-> 1]
         /\ client' \in ClientType /\ client'.head <= Len(client'.rx) /\ client'.active
         /\ frame' \in FrameType /\ frame'.left = 1
<1>1. client \in ClientType /\ client.head <= Len(client.rx)
  BY DEF TypeInv, BoardTyped
<1>2. /\ client' = IF client.active THEN client
                   ELSE [active |-> TRUE, linkId |-> l, rx |-> <<>>, head |-> 0, txLen |-> 0]
      /\ frame' = [phase |-> IF l = client'.linkId THEN "copy" ELSE "discard", left |-> 1]
  BY DEF FS!OpenFrame, FS!Serving
<1>3. <<>> \in Seq(Conn) /\ Len(<<>>) = 0
  BY EmptySeq
<1>4. client' \in ClientType /\ client'.head <= Len(client'.rx) /\ client'.active
  BY <1>1, <1>2, <1>3 DEF ClientType
<1>5. frame' \in FrameType /\ frame'.left = 1
  BY <1>2 DEF FrameType
<1> QED BY <1>2, <1>4, <1>5

LEMMA PollLengthTyped ==
  ASSUME TypeInv, PollLength, UNCHANGED setting
  PROVE  TypeInv'
<1>1. uart' \in Seq(Piece) /\ half' = {}
  BY Taken DEF PollLength, TypeInv
<1>2. CASE half = {}
  <2>1. UNCHANGED <<client, frame>>
    BY <1>2 DEF PollLength
  <2>2. Serving'
    BY <2>1 DEF PollLength, TypeInv, Serving
  <2> QED BY <1>1, <2>1, <2>2, RestOK DEF PollLength, TypeInv, BoardTyped
<1>3. CASE half # {}
  <2>1. PICK l \in LinkId : FS!OpenFrame(l, 1)
    BY <1>3 DEF PollLength, TypeInv, BoardTyped
  <2>2. /\ client' \in ClientType /\ client'.head <= Len(client'.rx) /\ client'.active
        /\ frame' \in FrameType /\ frame'.left = 1
    BY <2>1, Opened
  <2>3. Serving'
    BY <2>2 DEF PollLength, TypeInv, Serving
  <2> QED BY <1>1, <2>2, <2>3, RestOK DEF PollLength, TypeInv, BoardTyped
<1> QED BY <1>2, <1>3

LEMMA PayloadTyped ==
  ASSUME TypeInv, NEW k \in Conn, FS!PayloadByte(k)
  PROVE  /\ client' \in ClientType /\ client'.head = client.head /\ client'.head <= Len(client'.rx)
         /\ client'.active = client.active /\ client'.linkId = client.linkId
         /\ \/ client'.rx = client.rx
            \/ /\ frame.phase = "copy"
               /\ client'.rx = Append(client.rx, k)
         /\ frame' \in FrameType /\ frame'.phase = "none"
<1>1. client \in ClientType /\ client.head <= Len(client.rx) /\ client.rx \in Seq(Conn)
      /\ client.head \in Nat /\ Len(client.rx) \in Nat
  BY LenProperties DEF TypeInv, BoardTyped, ClientType
<1>2. Append(client.rx, k) \in Seq(Conn) /\ Len(Append(client.rx, k)) = Len(client.rx) + 1
  BY <1>1, AppendProperties
<1>3. client' = client \/ (frame.phase = "copy" /\ client' = [client EXCEPT !.rx = Append(client.rx, k)])
  BY DEF FS!PayloadByte
<1>4. /\ client' \in ClientType /\ client'.head = client.head /\ client'.head <= Len(client'.rx)
      /\ client'.active = client.active /\ client'.linkId = client.linkId
      /\ \/ client'.rx = client.rx
         \/ frame.phase = "copy" /\ client'.rx = Append(client.rx, k)
  <2>1. CASE client' = client
    BY <1>1, <2>1
  <2>2. CASE frame.phase = "copy" /\ client' = [client EXCEPT !.rx = Append(client.rx, k)]
    <3>1. client' \in ClientType
      BY <1>1, <1>2, <2>2 DEF ClientType
    <3>2. client'.rx = Append(client.rx, k) /\ client'.head = client.head
          /\ client'.active = client.active /\ client'.linkId = client.linkId
      BY <1>1, <2>2 DEF ClientType
    <3>3. client.head <= Len(client.rx) + 1
      BY <1>1
    <3> QED BY <1>2, <2>2, <3>1, <3>2, <3>3
  <2> QED BY <1>3, <2>1, <2>2
<1>5. frame.left = 1
  BY DEF TypeInv, Serving, FS!PayloadByte
<1>6. frame' = [phase |-> "none", left |-> 0]
  BY <1>5 DEF FS!PayloadByte, FS!NoFrame
<1>7. frame' \in FrameType /\ frame'.phase = "none"
  BY <1>6 DEF FrameType
<1> QED BY <1>4, <1>7

LEMMA PollRestTyped ==
  ASSUME TypeInv, PollRest, UNCHANGED setting
  PROVE  TypeInv'
<1>1. uart' \in Seq(Piece) /\ Head(uart) \in Piece /\ half' = {}
  BY Taken DEF PollRest, TypeInv
<1>2. CASE Head(uart).kind = "request" /\ frame.phase # "none"
  <2>1. PICK k \in Conn : k = Head(uart).conn
    BY <1>1, <1>2, PieceKinds
  <2>2. FS!PayloadByte(k)
    BY <1>2, <2>1 DEF PollRest
  <2>3. /\ client' \in ClientType /\ client'.head = client.head /\ client'.head <= Len(client'.rx)
        /\ client'.active = client.active
        /\ frame' \in FrameType /\ frame'.phase = "none"
    BY <2>2, PayloadTyped
  <2>4. Serving'
    BY <2>3 DEF PollRest, TypeInv, Serving
  <2> QED BY <1>1, <2>3, <2>4, RestOK DEF PollRest, TypeInv, BoardTyped
<1>3. CASE ~(Head(uart).kind = "request" /\ frame.phase # "none")
  <2>1. UNCHANGED <<client, frame>>
    BY <1>3 DEF PollRest
  <2>2. Serving'
    BY <2>1 DEF PollRest, TypeInv, Serving
  <2> QED BY <1>1, <2>1, <2>2, RestOK DEF PollRest, TypeInv, BoardTyped
<1> QED BY <1>2, <1>3

LEMMA ReadRequestTyped ==
  ASSUME TypeInv, ReadRequest, UNCHANGED setting
  PROVE  TypeInv'
<1>1. client \in ClientType /\ client.head \in Nat /\ Len(client.rx) \in Nat
      /\ client.head < Len(client.rx)
  BY LenProperties DEF TypeInv, BoardTyped, ClientType, ReadRequest, FS!ReadNext
<1>2. client' = [client EXCEPT !.head = client.head + 1]
  BY DEF ReadRequest, FS!ReadNext
<1>3. client' \in ClientType /\ client'.rx = client.rx /\ client'.active = client.active
      /\ client'.head = client.head + 1
  BY <1>1, <1>2 DEF ClientType
<1>4. client'.head <= Len(client'.rx) /\ client'.head >= 1
  BY <1>1, <1>3
<1>5. Serving'
  BY <1>3, <1>4 DEF ReadRequest, FS!ReadNext, TypeInv, Serving
<1> QED BY <1>3, <1>4, <1>5, RestOK DEF ReadRequest, FS!ReadNext, TypeInv, BoardTyped

(* A step that only changes how much there is to send. *)
LEMMA TxTyped ==
  ASSUME TypeInv, NEW n \in Nat, client' = [client EXCEPT !.txLen = n]
  PROVE  /\ client' \in ClientType /\ client'.rx = client.rx /\ client'.head = client.head
         /\ client'.active = client.active /\ client'.linkId = client.linkId
         /\ client'.head <= Len(client'.rx)
<1>1. client \in ClientType /\ client.head <= Len(client.rx)
  BY DEF TypeInv, BoardTyped
<1> QED BY <1>1 DEF ClientType

LEMMA Queued ==
  ASSUME TypeInv, FS!Queue(1)
  PROVE  \E n \in Nat : client' = [client EXCEPT !.txLen = n]
<1>1. client \in ClientType /\ client.txLen \in Nat
  BY DEF TypeInv, BoardTyped, ClientType
<1> DEFINE m == IF 1 > 32 - client.txLen THEN 32 ELSE client.txLen + 1
<1>2. m \in Nat /\ client' = [client EXCEPT !.txLen = m]
  BY <1>1 DEF FS!Queue
<1> QED BY <1>2

LEMMA AnswerTyped ==
  ASSUME TypeInv, Answer, UNCHANGED setting
  PROVE  TypeInv'
<1>1. PICK n \in Nat : client' = [client EXCEPT !.txLen = n]
  BY Queued DEF Answer
<1>2. /\ client' \in ClientType /\ client'.head = client.head /\ client'.head <= Len(client'.rx)
      /\ client'.active = client.active
  BY <1>1, TxTyped
<1>3. "CIPSEND" \in Commands
  BY DEF Commands
<1>4. /\ pc' = "wait" /\ at' \in AtType /\ at'.op = "CIPSEND"
      /\ uart' \in Seq(Piece) /\ modem' \in ModemType
  BY <1>3, Issued DEF Answer
<1>5. UNCHANGED frame /\ pc = "answer"
  BY DEF Answer, FS!Queue
<1>6. Serving'
  BY <1>2, <1>4, <1>5 DEF TypeInv, Serving
<1> QED BY <1>2, <1>4, <1>5, <1>6, RestOK DEF Answer, TypeInv, BoardTyped

LEMMA AfterPromptTyped ==
  ASSUME TypeInv, AfterPrompt, UNCHANGED setting
  PROVE  TypeInv'
<1>1. pc = "wait" /\ at.op = "CIPSEND"
  BY DEF AfterPrompt, Returns
<1>2. at' \in AtType /\ at'.op = "DATA"
  BY NoCommandTyped DEF AfterPrompt, AtType
<1>3. client.head \in 1..Len(client.rx) /\ client.rx \in Seq(Conn)
  BY <1>1, LenProperties DEF TypeInv, BoardTyped, ClientType, Serving
<1>4. client.rx[client.head] \in Answers
  BY <1>3, ElementOfSeq, NobodyAsked
<1>5. modem' \in ModemType
  BY <1>4 DEF AfterPrompt, TypeInv, ModemType
<1>6. Serving'
  BY <1>1, <1>2 DEF AfterPrompt, TypeInv, Serving
<1> QED BY <1>2, <1>5, <1>6, RestOK DEF AfterPrompt, TypeInv, BoardTyped

LEMMA AfterFlushTyped ==
  ASSUME TypeInv, AfterFlush, UNCHANGED setting
  PROVE  TypeInv'
<1>1. client' = [client EXCEPT !.txLen = 0] /\ UNCHANGED frame /\ client.active
  BY DEF AfterFlush, FS!Send
<1>2. /\ client' \in ClientType /\ client'.head = client.head /\ client'.head <= Len(client'.rx)
      /\ client'.active = client.active
  BY <1>1, TxTyped
<1>3. "CIPCLOSE" \in Commands
  BY DEF Commands
<1>4. /\ pc' = "wait" /\ at' \in AtType /\ at'.op = "CIPCLOSE"
      /\ uart' \in Seq(Piece) /\ modem' \in ModemType
  BY <1>3, Issued DEF AfterFlush
<1>5. Serving'
  BY <1>1, <1>2, <1>4 DEF TypeInv, Serving
<1> QED BY <1>1, <1>2, <1>4, <1>5, RestOK DEF AfterFlush, TypeInv, BoardTyped

LEMMA WindowEndsTyped ==
  ASSUME TypeInv, WindowEnds, UNCHANGED setting
  PROVE  TypeInv'
<1>1. "CIPCLOSE" \in Commands
  BY DEF Commands
<1> QED BY <1>1, NextCommandTyped DEF WindowEnds, TypeInv, BoardTyped

LEMMA AfterCloseTyped ==
  ASSUME TypeInv, NEW ok \in BOOLEAN, AfterClose(ok), UNCHANGED setting
  PROVE  TypeInv'
<1>1. /\ client' \in ClientType /\ client'.head <= Len(client'.rx)
      /\ frame' \in FrameType /\ frame'.phase = "none"
  BY Dropped DEF AfterClose
<1>2. /\ pc' = "poll" /\ at' \in AtType /\ at'.op = "none" /\ half' = {}
      /\ uart' \in Seq(Piece) /\ modem' \in ModemType
  BY Looped, NoCommandTyped DEF AfterClose
<1>3. Serving'
  BY <1>1, <1>2 DEF Serving
<1> QED BY <1>1, <1>2, <1>3, RestOK DEF AfterClose, TypeInv, BoardTyped

LEMMA BoardTypes ==
  ASSUME TypeInv, Board
  PROVE  TypeInv'
<1>1. UNCHANGED setting
  BY DEF Board
<1>2. CASE ReadReply
  BY <1>1, <1>2, ReadReplyTyped
<1>3. CASE PollHeader \/ PollLength
  BY <1>1, <1>3, PollHeaderTyped, PollLengthTyped
<1>4. CASE PollRest
  BY <1>1, <1>4, PollRestTyped
<1>5. CASE ReadRequest
  BY <1>1, <1>5, ReadRequestTyped
<1>6. CASE Answer
  BY <1>1, <1>6, AnswerTyped
<1>7. CASE AfterPrompt
  BY <1>1, <1>7, AfterPromptTyped
<1>8. CASE AfterFlush
  BY <1>1, <1>8, AfterFlushTyped
<1>9. CASE WindowEnds
  BY <1>1, <1>9, WindowEndsTyped
<1>10. ASSUME NEW ok \in BOOLEAN, AfterIsJoined(ok) \/ AfterJoinStep(ok) \/ AfterServerStep(ok)
       PROVE  TypeInv'
  BY <1>1, <1>10, JoinStepsTyped
<1>11. ASSUME NEW ok \in BOOLEAN, AfterClose(ok)
       PROVE  TypeInv'
  BY <1>1, <1>11, AfterCloseTyped
<1> QED BY <1>2, <1>3, <1>4, <1>5, <1>6, <1>7, <1>8, <1>9, <1>10, <1>11 DEF Board

-----------------------------------------------------------------------------
(* The types are preserved: the modem.                                     *)

LEMMA FreeTyped == FreeLink \in LinkType /\ FreeLink.asked = FALSE /\ FreeLink.conn = NoConn
BY NobodyAsked DEF FreeLink, LinkType

LEMMA ModemStepTyped ==
  ASSUME TypeInv, UNCHANGED boardVars, uart' \in Seq(Piece), modem' \in ModemType,
         links' \in [LinkId -> LinkType], AskedIsConn', QueryTyped'
  PROVE  TypeInv'
<1>1. BoardTyped' /\ Serving'
  BY DEF TypeInv, BoardTyped, Serving, boardVars
<1> QED BY <1>1 DEF TypeInv

(* The replies, one by one or in a row. *)
LEMMA RepliesTyped ==
  /\ \A t \in Text : <<t>> \in Seq(Text) /\ Len(<<t>>) = 1 /\ <<t>>[1] = t
  /\ <<"SEND OK", "ERROR">> \in Seq(Text) /\ Len(<<"SEND OK", "ERROR">>) = 2
BY DEF Text

LEMMA IdleTyped ==
  ASSUME modem \in ModemType
  PROVE  /\ Idle \in ModemType /\ Idle.job = "idle"
         /\ Idle.link = modem.link /\ Idle.answer = modem.answer /\ Idle.joined = modem.joined
BY DEF Idle, ModemType

(* Every step of the modem says something and turns to something else. *)
LEMMA ModemSays ==
  ASSUME TypeInv, Modem
  PROVE  /\ \E texts \in Seq(Text) : Says(texts)
         /\ modem' \in ModemType
         /\ \/ modem'.job = "idle"
            \/ modem.job = "CIPSEND" /\ modem'.job = "AwaitData" /\ modem'.link = modem.link
<1>0. modem \in ModemType
  BY DEF TypeInv
<1>1. CASE Configure
  <2>1. \E texts \in Seq(Text) : Says(texts)
    <3>1. CASE \E t \in Results : Says(<<t>>)
      BY <3>1, RepliesTyped DEF Results, Text
    <3>2. CASE Says(<<IF modem.joined THEN "+CWJAP: OK" ELSE "OK">>)
      <4>1. (IF modem.joined THEN "+CWJAP: OK" ELSE "OK") \in Text
        BY DEF Text
      <4> QED BY <3>2, <4>1, RepliesTyped
    <3> QED BY <1>1, <3>1, <3>2 DEF Configure
  <2> QED BY <1>0, <1>1, <2>1, IdleTyped DEF Configure
<1>2. CASE Join
  <2>1. PICK t \in {"OK", "ERROR"} : Says(<<t>>) /\ modem' = [Idle EXCEPT !.joined = t = "OK"]
    BY <1>2 DEF Join, Results
  <2>2. t \in Text
    BY DEF Text
  <2>3. modem' \in ModemType /\ modem'.job = "idle"
    <3>1. Idle \in ModemType /\ Idle.job = "idle"
      BY <1>0, IdleTyped
    <3> QED BY <2>1, <3>1 DEF ModemType
  <2> QED BY <2>1, <2>2, <2>3, RepliesTyped
<1>3. CASE StartSend
  <2>1. CASE links[modem.link] # FreeLink
    <3>1. Says(<<"OK >">>) /\ modem' = [modem EXCEPT !.job = "AwaitData"] /\ modem.job = "CIPSEND"
      BY <1>3, <2>1 DEF StartSend
    <3>2. modem' \in ModemType /\ modem'.job = "AwaitData" /\ modem'.link = modem.link
      BY <1>0, <3>1 DEF ModemType
    <3> QED BY <3>1, <3>2, RepliesTyped DEF Text
  <2>2. CASE links[modem.link] = FreeLink
    <3>1. Says(<<"ERROR">>) /\ modem' = Idle
      BY <1>3, <2>2 DEF StartSend
    <3> QED BY <1>0, <3>1, IdleTyped, RepliesTyped DEF Text
  <2> QED BY <2>1, <2>2
<1>4. CASE SendAnswer
  <2>1. modem' = Idle /\ (Says(<<"SEND OK">>) \/ Says(<<"ERROR">>))
    BY <1>4 DEF SendAnswer
  <2> QED BY <1>0, <2>1, IdleTyped, RepliesTyped DEF Text
<1>5. CASE SendLine
  <2>1. modem' = Idle /\ (Says(<<"SEND OK">>) \/ Says(<<"ERROR">>) \/ Says(<<"SEND OK", "ERROR">>))
    BY <1>5 DEF SendLine
  <2> QED BY <1>0, <2>1, IdleTyped, RepliesTyped DEF Text
<1>6. CASE CloseLink
  <2>1. modem' = Idle /\ (Says(<<"OK">>) \/ Says(<<"ERROR">>))
    BY <1>6 DEF CloseLink
  <2> QED BY <1>0, <2>1, IdleTyped, RepliesTyped DEF Text
<1> QED BY <1>1, <1>2, <1>3, <1>4, <1>5, <1>6 DEF Modem

(* What the modem does to its links: nothing, or it frees all or one. *)
LEMMA ModemFrees ==
  ASSUME TypeInv, Modem
  PROVE  /\ \/ links' = links
            \/ modem.job = "CWJAP" /\ links' = [l \in LinkId |-> FreeLink]
            \/ modem.job = "CIPCLOSE" /\ links' = [links EXCEPT ![modem.link] = FreeLink]
         /\ query' = query \/ (SendAnswer /\ links' = links)
BY DEF Modem, Configure, Join, StartSend, SendAnswer, SendLine, CloseLink

LEMMA PeerOpenMeans ==
  ASSUME NEW k, PeerOpen(k)
  PROVE  /\ k.client \in Clients /\ query[k.client].open
         /\ k.cmd = query[k.client].stage /\ k.attempt = query[k.client].attempt
         /\ k = ConnOf(k.client)
<1>1. PICK c \in Clients : query[c].open /\ k = ConnOf(c)
  BY DEF PeerOpen
<1>2. k.client = c /\ k.cmd = query[c].stage /\ k.attempt = query[c].attempt
  BY <1>1 DEF ConnOf
<1> QED BY <1>1, <1>2

LEMMA ModemTypes ==
  ASSUME TypeInv, Modem
  PROVE  TypeInv'
<1>1. /\ modem' \in ModemType /\ uart' \in Seq(Piece)
  BY ModemSays, Said DEF TypeInv
<1>2. modem \in ModemType /\ modem.link \in LinkId /\ links \in [LinkId -> LinkType]
  BY DEF TypeInv, ModemType
<1>3. links' \in [LinkId -> LinkType] /\ AskedIsConn'
  <2>1. CASE links' = links
    BY <2>1 DEF TypeInv, AskedIsConn
  <2>2. CASE links' = [l \in LinkId |-> FreeLink]
    BY <2>2, FreeTyped DEF AskedIsConn
  <2>3. CASE links' = [links EXCEPT ![modem.link] = FreeLink]
    <3>1. links' \in [LinkId -> LinkType]
      BY <1>2, <2>3, FreeTyped
    <3>2. AskedIsConn'
      BY <1>2, <2>3, FreeTyped DEF TypeInv, AskedIsConn
    <3> QED BY <3>1, <3>2
  <2> QED BY <2>1, <2>2, <2>3, ModemFrees
<1>4. QueryTyped'
  <2>1. CASE query' = query
    BY <2>1 DEF TypeInv, QueryTyped, Modem, boardVars
  <2>2. CASE SendAnswer /\ query' # query
    <3>1. PICK k : /\ PeerOpen(k)
                   /\ query' = [query EXCEPT ![k.client].inbox = Append(@, modem.answer)]
      BY <2>2 DEF SendAnswer
    <3>2. k.client \in Clients
      BY <3>1, PeerOpenMeans
    <3>3. query[k.client] \in QueryType /\ modem.answer \in Answers
      BY <1>2, <3>2 DEF TypeInv, QueryTyped, ModemType
    <3>4. Append(query[k.client].inbox, modem.answer) \in Seq(Answers)
      BY <3>3, AppendProperties DEF QueryType
    <3>5. query' \in [Clients -> QueryType]
      BY <3>1, <3>2, <3>3, <3>4 DEF TypeInv, QueryTyped, QueryType
    <3>6. \A c \in Clients : query'[c].attempt = query[c].attempt
      BY <3>1, <3>2 DEF TypeInv, QueryTyped, QueryType
    <3> QED BY <3>5, <3>6 DEF TypeInv, QueryTyped, Modem, boardVars
  <2> QED BY <2>1, <2>2, ModemFrees
<1> QED BY <1>1, <1>3, <1>4, ModemStepTyped DEF Modem

LEMMA ConnTyped ==
  ASSUME TypeInv, NEW l \in LinkId, links[l] # FreeLink
  PROVE  links[l].conn \in Conn
<1>1. links[l] \in LinkType
  BY DEF TypeInv
<1>2. links[l] = [conn |-> links[l].conn, asked |-> links[l].asked]
  BY <1>1 DEF LinkType
<1>3. links[l].conn # NoConn
  BY <1>2 DEF FreeLink, TypeInv, AskedIsConn
<1> QED BY <1>1, <1>3 DEF LinkType, Answers

LEMMA PassTypes ==
  ASSUME TypeInv, NEW l \in LinkId, PassRequest(l)
  PROVE  TypeInv'
<1>1. links[l].conn \in Conn
  BY ConnTyped DEF PassRequest
<1>2. uart' \in Seq(Piece)
  BY <1>1, Passed DEF PassRequest, TypeInv
<1>3. links \in [LinkId -> LinkType] /\ links' = [links EXCEPT ![l].asked = TRUE]
  BY DEF TypeInv, PassRequest
<1>4. links' \in [LinkId -> LinkType]
  BY <1>3 DEF LinkType
<1>5. AskedIsConn'
  BY <1>1, <1>3, NobodyAsked DEF TypeInv, AskedIsConn, LinkType
<1>6. QueryTyped'
  BY DEF PassRequest, TypeInv, QueryTyped, boardVars
<1> QED BY <1>2, <1>4, <1>5, <1>6, ModemStepTyped DEF PassRequest, TypeInv

LEMMA PeerClosesTypes ==
  ASSUME TypeInv, NEW l \in LinkId, PeerCloses(l)
  PROVE  TypeInv'
<1>1. links \in [LinkId -> LinkType] /\ links' = [links EXCEPT ![l] = FreeLink]
  BY DEF TypeInv, PeerCloses
<1>2. links' \in [LinkId -> LinkType]
  BY <1>1, FreeTyped
<1>3. AskedIsConn'
  BY <1>1, FreeTyped DEF TypeInv, AskedIsConn
<1>4. QueryTyped'
  BY DEF PeerCloses, TypeInv, QueryTyped, boardVars
<1> QED BY <1>2, <1>3, <1>4, ModemStepTyped DEF PeerCloses, TypeInv

-----------------------------------------------------------------------------
(* The types are preserved: the processes.                                 *)

LEMMA ProcessStepTyped ==
  ASSUME TypeInv, UNCHANGED <<boardVars, uart, modem>>, NEW c \in Clients, NEW q \in QueryType,
         query' = [query EXCEPT ![c] = q], q.attempt <= setting.attempts,
         links' \in [LinkId -> LinkType], AskedIsConn'
  PROVE  TypeInv'
<1>1. query' \in [Clients -> QueryType]
  BY DEF TypeInv, QueryTyped
<1>2. \A d \in Clients : query'[d].attempt <= setting'.attempts
  BY DEF TypeInv, QueryTyped, boardVars
<1> QED BY <1>1, <1>2, ModemStepTyped DEF QueryTyped, TypeInv

LEMMA FailedTyped ==
  ASSUME TypeInv, NEW c \in Clients, AttemptFails(c)
  PROVE  /\ query[c] \in QueryType /\ Failed(query[c]) \in QueryType
         /\ query' = [query EXCEPT ![c] = Failed(query[c])]
         /\ Failed(query[c]).attempt <= setting.attempts
         /\ Failed(query[c]).adc = query[c].adc /\ Failed(query[c]).temp = query[c].temp
         /\ Failed(query[c]).inbox = <<>> /\ Failed(query[c]).open = FALSE
         /\ \/ /\ Failed(query[c]).stage = query[c].stage
               /\ Failed(query[c]).attempt = query[c].attempt + 1
            \/ Failed(query[c]).stage \in {"gave up", "saved"}
<1>1. query[c] \in QueryType /\ query \in [Clients -> QueryType]
      /\ query[c].attempt <= setting.attempts
  BY DEF TypeInv, QueryTyped
<1>2. setting.attempts \in 1..RetryCount /\ RetryCount \in Nat /\ <<>> \in Seq(Answers)
  BY SettingTyped, EmptySeq DEF TypeInv
<1>3. query' = [query EXCEPT ![c] = Failed(query[c])]
  BY DEF AttemptFails
<1>4. query[c].attempt \in 1..RetryCount
  BY <1>1 DEF QueryType
<1>5. CASE query[c].attempt < setting.attempts
  <2>1. Failed(query[c]) = [query[c] EXCEPT !.attempt = query[c].attempt + 1, !.open = FALSE, !.inbox = <<>>]
    BY <1>5 DEF Failed
  <2>2. query[c].attempt + 1 \in 1..RetryCount /\ query[c].attempt + 1 <= setting.attempts
    BY <1>2, <1>4, <1>5
  <2> QED BY <1>1, <1>2, <1>3, <2>1, <2>2 DEF QueryType
<1>6. CASE ~(query[c].attempt < setting.attempts)
  <2>1. Failed(query[c]) = [query[c] EXCEPT !.stage = IF query[c].stage = "READ_ADC" THEN "gave up" ELSE "saved",
                                           !.open = FALSE, !.inbox = <<>>]
    BY <1>6 DEF Failed
  <2> QED BY <1>1, <1>2, <1>3, <2>1 DEF QueryType
<1> QED BY <1>5, <1>6

LEMMA FailTypes ==
  ASSUME TypeInv, NEW c \in Clients, AttemptFails(c), UNCHANGED <<boardVars, uart, modem, links>>
  PROVE  TypeInv'
<1>1. /\ Failed(query[c]) \in QueryType /\ Failed(query[c]).attempt <= setting.attempts
      /\ query' = [query EXCEPT ![c] = Failed(query[c])]
  BY FailedTyped
<1>2. PICK q \in QueryType : q = Failed(query[c])
  BY <1>1
<1>3. links' \in [LinkId -> LinkType] /\ AskedIsConn'
  BY DEF TypeInv, AskedIsConn
<1> QED BY <1>1, <1>2, <1>3, ProcessStepTyped

LEMMA ConnectTypes ==
  ASSUME TypeInv, NEW c \in Clients, Connect(c)
  PROVE  TypeInv'
<1>1. query[c] \in QueryType /\ query[c].attempt <= setting.attempts
  BY DEF TypeInv, QueryTyped
<1>2. PICK q : q = [query[c] EXCEPT !.open = TRUE]
  OBVIOUS
<1>3. q \in QueryType /\ q.attempt = query[c].attempt
  BY <1>1, <1>2 DEF QueryType
<1>4. query' = [query EXCEPT ![c] = q]
  BY <1>1, <1>2 DEF Connect, TypeInv, QueryTyped
<1>5. ConnOf(c) \in Conn
  BY <1>1 DEF Connect, Asking, ConnOf, Conn, QueryType
<1>6. PICK l \in LinkId : links' = [links EXCEPT ![l] = [conn |-> ConnOf(c), asked |-> FALSE]]
  BY DEF Connect
<1>7. [conn |-> ConnOf(c), asked |-> FALSE] \in LinkType
  BY <1>5, NobodyAsked DEF LinkType
<1>8. links' \in [LinkId -> LinkType]
  BY <1>6, <1>7 DEF TypeInv
<1>9. AskedIsConn'
  BY <1>6 DEF TypeInv, AskedIsConn
<1> QED BY <1>1, <1>3, <1>4, <1>8, <1>9, ProcessStepTyped DEF Connect

(* What a process makes of an answer. *)
LEMMA ReceivedTyped ==
  ASSUME TypeInv, NEW q \in QueryType, NEW answer \in Answers, q.inbox # <<>>,
         q.attempt <= setting.attempts
  PROVE  /\ Received(q, answer) \in QueryType
         /\ Received(q, answer).attempt <= setting.attempts
         /\ \/ /\ answer.cmd # q.stage
               /\ Received(q, answer) = [q EXCEPT !.inbox = Tail(q.inbox)]
            \/ /\ answer.cmd = q.stage /\ q.stage = "READ_ADC"
               /\ Received(q, answer) = [q EXCEPT !.stage = "READ_TEMP", !.attempt = 1,
                                            !.open = FALSE, !.inbox = <<>>, !.adc = answer]
            \/ /\ answer.cmd = q.stage /\ q.stage # "READ_ADC"
               /\ Received(q, answer) = [q EXCEPT !.stage = "saved", !.open = FALSE,
                                            !.inbox = <<>>, !.temp = answer]
<1>1. <<>> \in Seq(Answers) /\ 1 \in 1..RetryCount /\ 1 <= setting.attempts
  BY SettingTyped, EmptySeq DEF TypeInv
<1>2. q.inbox \in Seq(Answers)
  BY DEF QueryType
<1>3. Tail(q.inbox) \in Seq(Answers)
  BY <1>2, HeadTailProperties
<1>4. CASE answer.cmd # q.stage
  BY <1>3, <1>4 DEF Received, QueryType
<1>5. CASE answer.cmd = q.stage /\ q.stage = "READ_ADC"
  BY <1>1, <1>5 DEF Received, QueryType
<1>6. CASE answer.cmd = q.stage /\ q.stage # "READ_ADC"
  BY <1>1, <1>6 DEF Received, QueryType
<1> QED BY <1>4, <1>5, <1>6

LEMMA ReceiveTypes ==
  ASSUME TypeInv, NEW c \in Clients, Receive(c)
  PROVE  TypeInv'
<1>1. query[c] \in QueryType /\ query[c].attempt <= setting.attempts
      /\ query[c].inbox # <<>> /\ query[c].inbox \in Seq(Answers)
  BY DEF TypeInv, QueryTyped, QueryType, Receive
<1>2. PICK answer \in Answers : answer = Head(query[c].inbox)
  BY <1>1, HeadTailProperties
<1>3. PICK q \in QueryType : q = Received(query[c], answer)
  BY <1>1, ReceivedTyped
<1>4. q.attempt <= setting.attempts
  BY <1>1, <1>3, ReceivedTyped
<1>5. query' = [query EXCEPT ![c] = q]
  BY <1>2, <1>3 DEF Receive
<1>6. links' \in [LinkId -> LinkType] /\ AskedIsConn'
  BY DEF Receive, TypeInv, AskedIsConn
<1> QED BY <1>4, <1>5, <1>6, ProcessStepTyped DEF Receive

LEMMA ProcessTypes ==
  ASSUME TypeInv, NEW c \in Clients, Process(c)
  PROVE  TypeInv'
<1>1. CASE Connect(c)
  BY <1>1, ConnectTypes
<1>2. CASE Receive(c)
  BY <1>2, ReceiveTypes
<1>3. CASE ConnectFails(c) \/ EndOfFile(c) \/ GiveUp(c)
  BY <1>3, FailTypes DEF ConnectFails, EndOfFile, GiveUp
<1> QED BY <1>1, <1>2, <1>3 DEF Process

-----------------------------------------------------------------------------
LEMMA StepTyped == TypeInv /\ [Next]_vars => TypeInv'
<1> SUFFICES ASSUME TypeInv, [Next]_vars PROVE TypeInv'
  OBVIOUS
<1>1. CASE CheckWifi
  BY <1>1, CheckWifiTyped
<1>2. CASE Board
  BY <1>2, BoardTypes
<1>3. CASE Modem
  BY <1>3, ModemTypes
<1>4. CASE \E l \in LinkId : PassRequest(l) \/ PeerCloses(l)
  BY <1>4, PassTypes, PeerClosesTypes
<1>5. CASE \E c \in Clients : Process(c)
  BY <1>5, ProcessTypes
<1>6. CASE UNCHANGED vars
  BY <1>6 DEF vars, TypeInv, BoardTyped, QueryTyped, Serving, AskedIsConn
<1> QED BY <1>1, <1>2, <1>3, <1>4, <1>5, <1>6 DEF Next

LEMMA InitTyped == Init => TypeInv
<1> SUFFICES ASSUME Init PROVE TypeInv
  OBVIOUS
<1>1. /\ <<>> \in Seq(Conn) /\ <<>> \in Seq(Piece) /\ <<>> \in Seq(Answers) /\ Len(<<>>) = 0
      /\ 0 \in LinkId
  BY EmptySeq, LinkAssumption
<1>2. setting.attempts \in 1..RetryCount /\ setting.ticks \in Nat /\ RetryCount \in Nat \ {0}
  BY SettingsAssumption, RetryAssumption DEF Init
<1>3. client \in ClientType /\ client.head <= Len(client.rx) /\ client.active = FALSE
  BY <1>1 DEF Init, FS!FSInit, FS!NoClient, ClientType
<1>4. frame \in FrameType /\ frame.phase = "none"
  BY DEF Init, FS!FSInit, FS!NoFrame, FrameType
<1>5. BoardTyped
  BY <1>2, <1>3, <1>4, NoCommandTyped DEF Init, BoardTyped
<1>6. QueryTyped
  BY <1>1, <1>2, NobodyAsked DEF Init, QueryTyped, QueryType
<1>7. Serving
  BY <1>4, NoCommandTyped DEF Init, Serving
<1>8. links \in [LinkId -> LinkType] /\ AskedIsConn
  BY FreeTyped DEF Init, AskedIsConn
<1>9. modem \in ModemType
  BY <1>1, NobodyAsked DEF Init, ModemType
<1> QED BY <1>1, <1>5, <1>6, <1>7, <1>8, <1>9 DEF TypeInv, Init

LEMMA TypeInvariance == Spec => []TypeInv
BY InitTyped, StepTyped, PTL DEF Spec

(* Every variable keeps its type: what travels on the UART, what the modem *)
(* does and for whom, who holds a link, and what each process has got.     *)
THEOREM TypeCorrect == Spec => []TypeOK
<1>1. TypeInv => TypeOK
  <2> SUFFICES ASSUME TypeInv PROVE TypeOK
    OBVIOUS
  <2>0. uart \in Seq(Piece)
    BY DEF TypeInv
  <2>1. \A i \in DOMAIN uart : uart[i] \in Piece
    <3>1. DOMAIN uart = 1..Len(uart)
      BY <2>0, LenProperties
    <3> QED BY <2>0, <3>1, ElementOfSeq
  <2>2. \A c \in Clients : query[c].attempt \in 1..setting.attempts
    <3>1. setting.attempts \in 1..RetryCount /\ RetryCount \in Nat
      BY SettingTyped DEF TypeInv
    <3>2. \A c \in Clients : query[c].attempt \in 1..RetryCount /\ query[c].attempt <= setting.attempts
      BY DEF TypeInv, QueryTyped, QueryType
    <3> QED BY <3>1, <3>2
  <2>3. \A c \in Clients :
          query[c] \in [stage : {"READ_ADC", "READ_TEMP", "saved", "gave up"},
                        attempt : 1..setting.attempts, open : BOOLEAN, inbox : Seq(Answers),
                        adc : Answers, temp : Answers]
    BY <2>2 DEF TypeInv, QueryTyped, QueryType
  <2>4. client.active \in BOOLEAN /\ client.linkId \in LinkId /\ client.rx \in Seq(Conn)
        /\ frame.phase \in {"none", "copy", "discard"}
    BY DEF TypeInv, BoardTyped, ClientType, FrameType
  <2> QED BY <2>1, <2>3, <2>4 DEF TypeInv, TypeOK, BoardTyped, AtType, ModemType, LinkType, Piece
<1> QED BY <1>1, TypeInvariance, PTL

-----------------------------------------------------------------------------
(* Nobody gives up early: the inductive invariant.                         *)

(* The sequence u holds the request of connection k; no reply; one at most. *)
InUart(u, k) == \E i \in 1..Len(u) : u[i] = Request(k)
NoReply(u)   == \A i \in 1..Len(u) : u[i].kind # "reply"
OneReply(u)  == \A i, j \in 1..Len(u) : u[i].kind = "reply" /\ u[j].kind = "reply" => i = j

InRx(r, k)    == \E j \in 1..Len(r) : r[j] = k
OnLink(ln, k) == \E l \in LinkId : ln[l].conn = k

(* The process of connection k is still at this attempt and has no answer. *)
Hopes(q, k) ==
  /\ k.client \in Clients
  /\ q[k.client].open
  /\ k.cmd = q[k.client].stage
  /\ k.attempt = q[k.client].attempt
  /\ q[k.client].inbox = <<>>

(* ... and the modem holds the connection on link l. *)
Awaited(ln, q, l, k) == ln[l] = [conn |-> k, asked |-> TRUE] /\ Hopes(q, k)

(* The process of connection k has got as far as opening it. *)
Known(q, k) ==
  \/ q[k.client].stage \in {"saved", "gave up"}
  \/ k.cmd = "READ_ADC" /\ q[k.client].stage = "READ_TEMP"
  \/ k.cmd = q[k.client].stage /\ k.attempt < q[k.client].attempt
  \/ k.cmd = q[k.client].stage /\ k.attempt = q[k.client].attempt /\ q[k.client].open

(* What the modem may be doing while the board waits for the command op. *)
JobsOf(op) ==
  CASE op = "CIPSEND"  -> {"CIPSEND", "AwaitData"}
    [] op = "DATA"     -> {"Sending"}
    [] op = "CIPCLOSE" -> {"CIPCLOSE", "SendJunk"}
    [] OTHER           -> {op}

(* The modem is idle or at the command the board waits for, and it has not *)
(* replied as long as it is busy.                                          *)
Sync ==
  /\ modem.job = "idle" \/ modem.job \in JobsOf(at.op)
  /\ modem.job \notin {"idle", "AwaitData"} => ~at.found /\ NoReply(uart)
  /\ at.op = "CIPSEND" => OneReply(uart) /\ (at.found => NoReply(uart))
  /\ modem.job \in {"CIPSEND", "AwaitData", "Sending"} => modem.link = client.linkId
  /\ modem.job = "Sending" => modem.answer = client.rx[client.head]
  /\ at.op \in Commands \ {"CIPSEND", "CIPCLOSE"} => ~client.active

(* sendCommand() will have read the piece i before it can return: there is *)
(* no reply before it.                                                     *)
Doomed(i) ==
  /\ pc = "wait" /\ at.op \notin {"CIPSEND", "DATA"} /\ ~at.found
  /\ \A j \in 1..i : uart[j].kind # "reply"

(* A header is followed by its length and its request, and unless          *)
(* sendCommand() is sure to eat it, the connection is still there and      *)
(* waiting for its answer.                                                 *)
Framed(i) == i + 2 <= Len(uart) /\ uart[i + 1].kind = "length" /\ uart[i + 2].kind = "request"

Pairs ==
  \A i \in 1..Len(uart) : uart[i].kind = "header" =>
     /\ Framed(i)
     /\ Awaited(links, query, uart[i].link, uart[i + 2].conn) \/ Doomed(i)

(* The payload loop() is about to read is that of such a connection. *)
FrameOK ==
  pc = "poll" /\ frame.phase # "none" =>
    /\ uart # <<>>
    /\ uart[1].kind = "request"
    /\ frame.phase = "copy" => Awaited(links, query, client.linkId, uart[1].conn)

(* Half a header is read in loop() only, and the rest of it comes next:    *)
(* its length and the request of such a connection.                        *)
HalfOK ==
  /\ pc = "poll" => \A l \in half :
       /\ Len(uart) >= 2
       /\ uart[1].kind = "length" /\ uart[2].kind = "request"
       /\ Awaited(links, query, l, uart[2].conn)
  /\ pc = "wait" /\ ~client.active => half = {}

(* So is every request of the connection that is served, until its answer  *)
(* is sent or given up.                                                    *)
Served ==
  client.active /\ (pc # "wait" \/ at.op = "CIPSEND" \/ modem.job = "Sending") =>
    \A i \in 1..Len(client.rx) : Awaited(links, query, client.linkId, client.rx[i])

(* A connection is on one link, and its request in one place.              *)
OneLink    == \A l, m \in LinkId :
                links[l] # FreeLink /\ links[l].conn = links[m].conn => l = m
OneRequest == \A i, j \in 1..Len(uart) :
                uart[i].kind = "request" /\ uart[i] = uart[j] => i = j
Apart      == \A k \in Conn : InUart(uart, k) => ~InRx(client.rx, k)
Unasked    == \A l \in LinkId : links[l] # FreeLink /\ ~links[l].asked =>
                /\ Hopes(query, links[l].conn)
                /\ ~InUart(uart, links[l].conn)
                /\ ~InRx(client.rx, links[l].conn)
AllKnown   == \A k \in Conn :
                InUart(uart, k) \/ InRx(client.rx, k) \/ OnLink(links, k) => Known(query, k)

Once == OneLink /\ OneRequest /\ Apart /\ Unasked /\ AllKnown

(* What a process has got, and not looked at, is an answer to its attempt. *)
Inboxes ==
  \A c \in Clients :
    /\ ~query[c].open => query[c].inbox = <<>>
    /\ \A i \in 1..Len(query[c].inbox) : query[c].inbox[i] = ConnOf(c)

Good == Pairs /\ FrameOK /\ HalfOK /\ Served /\ Once /\ Inboxes

TimelyInv == setting.timely => Sync /\ (~setting.tears => Good)

-----------------------------------------------------------------------------
LEMMA HopesMeans ==
  ASSUME TypeInv, NEW k \in Conn, Hopes(query, k)
  PROVE  k.client \in Clients /\ k = ConnOf(k.client) /\ PeerOpen(k)
<1>1. k = [client |-> k.client, cmd |-> k.cmd, attempt |-> k.attempt]
  BY DEF Conn
<1>2. k.client \in Clients /\ k = ConnOf(k.client)
  BY <1>1 DEF Hopes, ConnOf
<1> QED BY <1>2 DEF Hopes, PeerOpen

LEMMA AwaitedMeans ==
  ASSUME NEW l \in LinkId, NEW k \in Conn, Awaited(links, query, l, k)
  PROVE  links[l].conn = k /\ links[l].asked /\ links[l] # FreeLink /\ Hopes(query, k)
<1>1. links[l] = [conn |-> k, asked |-> TRUE]
  BY DEF Awaited
<1> QED BY <1>1, NobodyAsked DEF Awaited, FreeLink

(* The jobs of a command, spelt out. *)
LEMMA Jobs ==
  /\ JobsOf("CIPSEND") = {"CIPSEND", "AwaitData"}
  /\ JobsOf("DATA") = {"Sending"}
  /\ JobsOf("CIPCLOSE") = {"CIPCLOSE", "SendJunk"}
  /\ \A op : op \notin {"CIPSEND", "DATA", "CIPCLOSE"} => JobsOf(op) = {op}
<1>1. JobsOf("CIPSEND") = {"CIPSEND", "AwaitData"}
  BY DEF JobsOf
<1>2. JobsOf("DATA") = {"Sending"}
  BY DEF JobsOf
<1>3. JobsOf("CIPCLOSE") = {"CIPCLOSE", "SendJunk"}
  BY DEF JobsOf
<1>4. ASSUME NEW op, op \notin {"CIPSEND", "DATA", "CIPCLOSE"}
      PROVE  JobsOf(op) = {op}
  BY <1>4 DEF JobsOf
<1> QED BY <1>1, <1>2, <1>3, <1>4

(* What the modem is doing tells what the board waits for. *)
LEMMA Busy ==
  ASSUME TypeInv, Sync
  PROVE  /\ modem.job \in {"CIPSEND", "AwaitData"} => at.op = "CIPSEND"
         /\ modem.job = "Sending" => at.op = "DATA"
         /\ modem.job \in {"CIPCLOSE", "SendJunk"} => at.op = "CIPCLOSE"
         /\ modem.job \in {"CWJAP?", "CWMODE", "CWJAP", "CIFSR", "CIPMUX", "CIPSERVER"} =>
              at.op = modem.job
         /\ pc # "wait" => modem.job = "idle"
<1>1. modem \in ModemType /\ at \in AtType
  BY DEF TypeInv, BoardTyped
<1>2. modem.job # "none"
  BY <1>1 DEF ModemType, Commands
<1>3. modem.job = "idle" \/ modem.job \in JobsOf(at.op)
  BY DEF Sync
<1>4. CASE at.op = "CIPSEND"
  BY <1>3, <1>4, Jobs DEF TypeInv, Serving
<1>5. CASE at.op = "DATA"
  BY <1>3, <1>5, Jobs DEF TypeInv, Serving
<1>6. CASE at.op = "CIPCLOSE"
  BY <1>3, <1>6, Jobs DEF TypeInv, Serving
<1>7. CASE at.op \notin {"CIPSEND", "DATA", "CIPCLOSE"}
  <2>1. modem.job = "idle" \/ modem.job = at.op
    BY <1>3, <1>7, Jobs
  <2>2. at.op \in {"CWJAP?", "CWMODE", "CWJAP", "CIFSR", "CIPMUX", "CIPSERVER", "none"}
    BY <1>1, <1>7 DEF AtType, Commands
  <2> QED BY <1>2, <2>1, <2>2 DEF TypeInv, Serving
<1> QED BY <1>4, <1>5, <1>6, <1>7

-----------------------------------------------------------------------------
(* The board and the modem stay in step, be headers torn or not.           *)

(* No reply, or one, among fewer pieces. *)
LEMMA RepliesTaken ==
  ASSUME uart \in Seq(Piece), uart # <<>>, uart' = Tail(uart)
  PROVE  /\ NoReply(uart) => NoReply(uart')
         /\ OneReply(uart) => OneReply(uart')
         /\ OneReply(uart) /\ uart[1].kind = "reply" => NoReply(uart')
<1>1. /\ Len(uart) \in Nat \ {0} /\ Len(uart') = Len(uart) - 1
      /\ \A i \in 1..(Len(uart) - 1) : uart'[i] = uart[i + 1]
  BY Taken
<1>2. 1 \in 1..Len(uart)
      /\ \A i \in 1..Len(uart') : i + 1 \in 1..Len(uart) /\ i + 1 # 1 /\ uart'[i] = uart[i + 1]
  BY <1>1
<1>3. NoReply(uart) => NoReply(uart')
  BY <1>2 DEF NoReply
<1>4. OneReply(uart) /\ uart[1].kind = "reply" => NoReply(uart')
  BY <1>2 DEF NoReply, OneReply
<1>5. ASSUME OneReply(uart), NEW i \in 1..Len(uart'), NEW j \in 1..Len(uart'),
             uart'[i].kind = "reply", uart'[j].kind = "reply"
      PROVE  i = j
  <2>1. i + 1 = j + 1
    BY <1>2, <1>5 DEF OneReply
  <2> QED BY <2>1
<1> QED BY <1>3, <1>4, <1>5 DEF OneReply

LEMMA RepliesEmptied == NoReply(<<>>) /\ OneReply(<<>>)
<1>1. Len(<<>>) = 0 /\ 1..Len(<<>>) = {}
  OBVIOUS
<1> QED BY <1>1 DEF NoReply, OneReply

(* When a wait ends, the modem is idle or waits for data nobody will send, *)
(* and what sendCommand() leaves in the UART came after the reply it found *)
(* or after an ERROR.                                                      *)
LEMMA Returned ==
  ASSUME TypeInv, setting.timely, Sync, NEW op, NEW ok \in BOOLEAN, op # "none", Returns(op, ok)
  PROVE  /\ pc = "wait" /\ at.op = op
         /\ modem.job = "idle" \/ (op = "CIPSEND" /\ modem.job = "AwaitData")
         /\ op \notin {"CIPSEND", "DATA"} =>
              \/ ~ErrorNext /\ (uart = <<>> \/ at.found)
              \/ uart # <<>> /\ ErrorNext /\ uart[1].kind = "reply"
<1>1. pc = "wait" /\ at.op = op
  BY DEF Returns
<1>2. modem.job \in {"idle", "AwaitData"}
  <2>1. CASE Answered
    BY <1>1, <2>1 DEF Answered, Sync
  <2>2. CASE ErrorNext
    <3>1. uart # <<>> /\ Head(uart).kind = "reply"
      BY <2>2 DEF ErrorNext
    <3>2. uart[1].kind = "reply" /\ Len(uart) \in Nat \ {0}
      BY <3>1, Taken DEF TypeInv
    <3>3. ~NoReply(uart)
      BY <3>2 DEF NoReply
    <3> QED BY <1>1, <3>3 DEF Sync
  <2>3. CASE TimedOut
    BY <2>3 DEF TimedOut
  <2> QED BY <2>1, <2>2, <2>3 DEF Returns
<1>3. modem.job = "AwaitData" => op = "CIPSEND"
  BY <1>1, Busy
<1>4. ASSUME op \notin {"CIPSEND", "DATA"}
      PROVE  \/ ~ErrorNext /\ (uart = <<>> \/ at.found)
             \/ uart # <<>> /\ ErrorNext /\ uart[1].kind = "reply"
  <2>1. CASE ErrorNext
    <3>1. uart # <<>> /\ Head(uart).kind = "reply"
      BY <2>1 DEF ErrorNext
    <3> QED BY <2>1, <3>1, Taken DEF TypeInv
  <2>2. CASE ~ErrorNext
    BY <2>2 DEF Returns, Answered, TimedOut
  <2> QED BY <2>1, <2>2
<1> QED BY <1>1, <1>2, <1>3, <1>4

LEMMA LoopSync ==
  ASSUME TypeInv, setting.timely, Sync, NEW op \in Commands \ {"CIPSEND"}, NEW ok \in BOOLEAN,
         Returns(op, ok), BackToLoop
  PROVE  Sync'
<1>1. modem.job = "idle"
  BY Returned DEF Commands
<1>2. at' = NoCommand /\ modem' = modem /\ at'.op = "none"
  BY Looped, NoCommandTyped
<1> QED BY <1>1, <1>2, Jobs DEF Sync, Commands

(* A command other than AT+CIPSEND goes out: to an idle modem, or as the   *)
(* data it waits for.                                                      *)
LEMMA IssueSync ==
  ASSUME TypeInv, setting.timely, Sync, NEW op \in Commands \ {"CIPSEND"}, Issue(op),
         \/ modem.job = "idle"
         \/ modem.job = "AwaitData" /\ op = "CIPCLOSE",
         op # "CIPCLOSE" => ~client'.active
  PROVE  Sync'
<1>1. op \in Commands
  OBVIOUS
<1>2. /\ at'.op = op /\ at'.found = FALSE /\ uart' = <<>>
      /\ modem'.job = op \/ (op = "CIPCLOSE" /\ modem'.job = "SendJunk")
  BY <1>1, Issued
<1>3. NoReply(uart') /\ OneReply(uart')
  BY <1>2, RepliesEmptied
<1>4. modem'.job \in JobsOf(op)
  <2>1. CASE op = "CIPCLOSE"
    BY <1>2, <2>1, Jobs
  <2>2. CASE op # "CIPCLOSE"
    BY <1>2, <2>2, Jobs DEF Commands
  <2> QED BY <2>1, <2>2
<1>5. modem'.job \notin {"CIPSEND", "AwaitData", "Sending"}
  BY <1>2 DEF Commands
<1> QED BY <1>2, <1>3, <1>4, <1>5 DEF Sync

LEMMA ReadReplySync ==
  ASSUME TypeInv, Sync, ReadReply
  PROVE  Sync' /\ at'.op = at.op /\ (at'.found => at.found \/ uart[1].kind = "reply")
<1>1. /\ uart # <<>> /\ uart' = Tail(uart) /\ UNCHANGED <<client, modem>>
  BY DEF ReadReply
<1>2. at \in AtType /\ at'.op = at.op
  BY DEF ReadReply, TypeInv, BoardTyped, AtType
<1>3. Head(uart) = uart[1] /\ Len(uart) \in Nat \ {0} /\ uart \in Seq(Piece)
  BY <1>1, Taken DEF TypeInv
<1>4. at'.found => at.found \/ uart[1].kind = "reply"
  BY <1>2, <1>3 DEF ReadReply, AtType
<1>5. /\ NoReply(uart) => NoReply(uart')
      /\ OneReply(uart) => OneReply(uart')
      /\ OneReply(uart) /\ uart[1].kind = "reply" => NoReply(uart')
  BY <1>1, <1>3, RepliesTaken
<1>6. NoReply(uart) => uart[1].kind # "reply"
  BY <1>3 DEF NoReply
<1>7. modem'.job \notin {"idle", "AwaitData"} => ~at'.found /\ NoReply(uart')
  BY <1>1, <1>4, <1>5, <1>6 DEF Sync
<1>8. at'.op = "CIPSEND" => OneReply(uart') /\ (at'.found => NoReply(uart'))
  BY <1>2, <1>4, <1>5 DEF Sync
<1> QED BY <1>1, <1>2, <1>4, <1>7, <1>8 DEF Sync

(* In loop() the modem is idle, whatever is read from the UART. *)
LEMMA PollSync ==
  ASSUME TypeInv, Sync, pc = "poll", UNCHANGED <<at, modem>>
  PROVE  Sync'
<1>1. modem.job = "idle" /\ at.op = "none"
  BY Busy DEF TypeInv, Serving
<1> QED BY <1>1 DEF Sync, Commands

LEMMA AnswerSync ==
  ASSUME TypeInv, setting.timely, Sync, Answer
  PROVE  Sync'
<1>1. PICK n \in Nat : client' = [client EXCEPT !.txLen = n]
  BY Queued DEF Answer
<1>2. client'.linkId = client.linkId
  BY <1>1, TxTyped
<1>3. modem.job = "idle"
  BY Busy DEF Answer
<1>4. "CIPSEND" \in Commands
  BY DEF Commands
<1>5. /\ at'.op = "CIPSEND" /\ ~at'.found /\ uart' = <<>>
      /\ modem'.job = "CIPSEND" /\ modem'.link = client.linkId
  BY <1>3, <1>4, Issued DEF Answer
<1> QED BY <1>2, <1>5, Jobs, RepliesEmptied DEF Sync

LEMMA AfterPromptSync ==
  ASSUME TypeInv, Sync, AfterPrompt
  PROVE  Sync'
<1>1. /\ at.op = "CIPSEND" /\ at.found
      /\ client' = client /\ uart' = uart
      /\ modem' = IF modem.job = "AwaitData"
                  THEN [modem EXCEPT !.job = "Sending", !.answer = client.rx[client.head]]
                  ELSE modem
  BY DEF AfterPrompt, Returns, Answered
<1>2. at'.op = "DATA" /\ ~at'.found
  BY DEF AfterPrompt, NoCommand
<1>3. NoReply(uart) /\ modem.job \in {"idle", "AwaitData"}
  BY <1>1, Jobs DEF Sync
<1>4. modem \in ModemType
  BY DEF TypeInv
<1>5. CASE modem.job = "AwaitData"
  <2>1. modem'.job = "Sending" /\ modem'.link = modem.link /\ modem'.answer = client.rx[client.head]
    BY <1>1, <1>4, <1>5 DEF ModemType
  <2>2. modem.link = client.linkId
    BY <1>5 DEF Sync
  <2> QED BY <1>1, <1>2, <1>3, <2>1, <2>2, Jobs DEF Sync, Commands
<1>6. CASE modem.job = "idle"
  BY <1>1, <1>2, <1>6 DEF Sync, Commands
<1> QED BY <1>3, <1>5, <1>6

LEMMA CloseSync ==
  ASSUME TypeInv, setting.timely, Sync, AfterFlush \/ WindowEnds
  PROVE  Sync' /\ (modem.job = "idle" \/ modem.job = "AwaitData")
<1>1. modem.job = "idle" \/ modem.job = "AwaitData"
  <2>1. CASE AfterFlush
    <3>1. PICK ok \in BOOLEAN, op \in {"CIPSEND", "DATA"} : Returns(op, ok)
      BY <2>1 DEF AfterFlush
    <3> QED BY <3>1, Returned
  <2>2. CASE WindowEnds
    BY <2>2, Busy DEF WindowEnds
  <2> QED BY <2>1, <2>2
<1>2. "CIPCLOSE" \in Commands \ {"CIPSEND"} /\ Issue("CIPCLOSE")
  BY DEF Commands, AfterFlush, WindowEnds
<1> QED BY <1>1, <1>2, IssueSync

(* The commands of the WiFi check come one after the other to an idle      *)
(* modem, and nobody is served meanwhile.                                  *)
LEMMA JoinSteps ==
  ASSUME TypeInv, setting.timely, Sync, NEW ok \in BOOLEAN,
         AfterIsJoined(ok) \/ AfterJoinStep(ok) \/ AfterServerStep(ok)
  PROVE  /\ UNCHANGED <<client, frame, half, links, query>>
         /\ pc = "wait" /\ ~client.active /\ frame.phase = "none" /\ modem.job = "idle"
         /\ \E r \in BOOLEAN : \E op \in Commands \ {"CIPSEND"} : Returns(op, r)
         /\ BackToLoop \/ \E op \in Commands \ {"CIPSEND", "CIPCLOSE"} : Issue(op)
<1>1. /\ UNCHANGED <<client, frame, half, links, query>>
      /\ \E r \in BOOLEAN : \E op \in {"CWJAP?", "CWMODE", "CWJAP", "CIFSR", "CIPMUX", "CIPSERVER"} :
           Returns(op, r)
      /\ \/ BackToLoop
         \/ \E op \in {"CIPMUX", "CWMODE", "CWJAP", "CIFSR", "CIPSERVER"} : Issue(op)
  BY DEF AfterIsJoined, AfterJoinStep, AfterServerStep
<1>2. PICK r \in BOOLEAN, op \in {"CWJAP?", "CWMODE", "CWJAP", "CIFSR", "CIPMUX", "CIPSERVER"} :
        Returns(op, r)
  BY <1>1
<1>3. op \in Commands \ {"CIPSEND", "CIPCLOSE"} /\ op # "none"
  BY DEF Commands
<1>4. pc = "wait" /\ modem.job = "idle" /\ at.op = op
  BY <1>2, <1>3, Returned
<1>5. ~client.active /\ frame.phase = "none"
  BY <1>3, <1>4 DEF Sync, TypeInv, Serving, BoardTyped, FrameType
<1>6. {"CIPMUX", "CWMODE", "CWJAP", "CIFSR", "CIPSERVER"} \subseteq Commands \ {"CIPSEND", "CIPCLOSE"}
  BY DEF Commands
<1> QED BY <1>1, <1>2, <1>3, <1>4, <1>5, <1>6

LEMMA JoinStepsSync ==
  ASSUME TypeInv, setting.timely, Sync, NEW ok \in BOOLEAN,
         AfterIsJoined(ok) \/ AfterJoinStep(ok) \/ AfterServerStep(ok)
  PROVE  Sync'
<1>1. /\ client' = client /\ ~client.active /\ modem.job = "idle"
      /\ \E r \in BOOLEAN : \E op \in Commands \ {"CIPSEND"} : Returns(op, r)
      /\ BackToLoop \/ \E op \in Commands \ {"CIPSEND", "CIPCLOSE"} : Issue(op)
  BY JoinSteps
<1>2. CASE BackToLoop
  BY <1>1, <1>2, LoopSync
<1>3. CASE \E op \in Commands \ {"CIPSEND", "CIPCLOSE"} : Issue(op)
  BY <1>1, <1>3, IssueSync
<1> QED BY <1>1, <1>2, <1>3

LEMMA BoardSync ==
  ASSUME TypeInv, setting.timely, Sync, Board
  PROVE  Sync'
<1>1. CASE ReadReply
  BY <1>1, ReadReplySync
<1>2. CASE PollHeader \/ PollLength \/ PollRest \/ ReadRequest
  BY <1>2, PollSync DEF PollHeader, PollLength, PollRest, ReadRequest
<1>3. CASE Answer
  BY <1>3, AnswerSync
<1>4. CASE AfterPrompt
  BY <1>4, AfterPromptSync
<1>5. CASE AfterFlush \/ WindowEnds
  BY <1>5, CloseSync
<1>6. ASSUME NEW ok \in BOOLEAN, AfterIsJoined(ok) \/ AfterJoinStep(ok) \/ AfterServerStep(ok)
      PROVE  Sync'
  BY <1>6, JoinStepsSync
<1>7. ASSUME NEW ok \in BOOLEAN, AfterClose(ok)
      PROVE  Sync'
  <2>1. "CIPCLOSE" \in Commands \ {"CIPSEND"}
    BY DEF Commands
  <2> QED BY <1>7, <2>1, LoopSync DEF AfterClose
<1> QED BY <1>1, <1>2, <1>3, <1>4, <1>5, <1>6, <1>7 DEF Board

(* A modem that is at a command replies, with what the board waits for. *)
LEMMA ModemSync ==
  ASSUME TypeInv, Sync, Modem
  PROVE  Sync'
<1>1. PICK texts \in Seq(Text) : Says(texts)
  BY ModemSays
<1>2. at' = at /\ client' = client /\ modem.job # "none"
  BY DEF Modem, boardVars, TypeInv, ModemType, Commands
<1>3. CASE ~StartSend
  <2>1. modem.job \notin {"idle", "CIPSEND", "AwaitData"}
    BY <1>3 DEF Modem, Configure, Join, SendAnswer, SendLine, CloseLink
  <2>2. modem'.job = "idle"
    BY <2>1, ModemSays
  <2>3. at.op # "CIPSEND"
    BY <2>1, Jobs DEF Sync
  <2> QED BY <1>2, <2>2, <2>3 DEF Sync
<1>4. CASE StartSend
  <2>1. modem.job = "CIPSEND" /\ at.op = "CIPSEND" /\ ~at.found /\ NoReply(uart)
    BY <1>4, Busy DEF StartSend, Sync
  <2>2. PICK t \in Text : Says(<<t>>)
    BY <1>4 DEF StartSend, Text
  <2>3. modem'.job = "idle" \/ (modem'.job = "AwaitData" /\ modem'.link = modem.link)
    BY ModemSays
  <2>4. OneReply(uart')
    <3>1. <<t>> \in Seq(Text) /\ Len(<<t>>) = 1
      BY RepliesTyped
    <3>2. /\ Len(uart') = Len(uart) + 1 /\ Len(uart) \in Nat
          /\ \A i \in 1..Len(uart) : uart'[i] = uart[i]
      BY <2>2, <3>1, Said DEF TypeInv
    <3>3. \A i \in 1..Len(uart') : i \in 1..Len(uart) \/ i = Len(uart) + 1
      BY <3>2
    <3>4. \A i \in 1..Len(uart') : uart'[i].kind = "reply" => i = Len(uart) + 1
      BY <2>1, <3>2, <3>3 DEF NoReply
    <3> QED BY <3>4 DEF OneReply
  <2> QED BY <1>2, <2>1, <2>3, <2>4, Jobs DEF Sync
<1> QED BY <1>3, <1>4

(* A frame that is passed on brings no reply. *)
LEMMA PassSync ==
  ASSUME TypeInv, Sync, NEW l \in LinkId, PassRequest(l)
  PROVE  Sync'
<1>1. PICK k \in Conn : k = links[l].conn
  BY ConnTyped DEF PassRequest
<1>2. at' = at /\ client' = client /\ modem' = modem
  BY DEF PassRequest, boardVars
<1>3. /\ Len(uart') = Len(uart) + 3 /\ Len(uart) \in Nat
      /\ \A i \in 1..Len(uart) : uart'[i] = uart[i]
      /\ uart'[Len(uart) + 1] = Header(l) /\ uart'[Len(uart) + 2] = Length
      /\ uart'[Len(uart) + 3] = Request(k)
  BY <1>1, Passed DEF TypeInv, PassRequest
<1>4. \A i \in 1..Len(uart') :
        i \in 1..Len(uart) \/ i = Len(uart) + 1 \/ i = Len(uart) + 2 \/ i = Len(uart) + 3
  BY <1>3
<1>5. \A i \in 1..Len(uart') : uart'[i].kind = "reply" => i \in 1..Len(uart) /\ uart[i].kind = "reply"
  BY <1>3, <1>4, PiecesMade
<1>6. (NoReply(uart) => NoReply(uart')) /\ (OneReply(uart) => OneReply(uart'))
  BY <1>5 DEF NoReply, OneReply
<1> QED BY <1>2, <1>6 DEF Sync

LEMMA SyncStep ==
  ASSUME TypeInv, setting.timely, Sync, [Next]_vars
  PROVE  Sync'
<1>1. CASE CheckWifi
  <2>1. modem.job = "idle" /\ ~client.active /\ client' = client /\ Issue("CWJAP?")
    BY <1>1, Busy DEF CheckWifi
  <2>2. "CWJAP?" \in Commands \ {"CIPSEND"}
    BY DEF Commands
  <2> QED BY <2>1, <2>2, IssueSync
<1>2. CASE Board
  BY <1>2, BoardSync
<1>3. CASE Modem
  BY <1>3, ModemSync
<1>4. ASSUME NEW l \in LinkId, PassRequest(l)
      PROVE  Sync'
  BY <1>4, PassSync
<1>5. CASE UNCHANGED <<at, client, uart, modem>>
  BY <1>5 DEF Sync
<1>6. (\E c \in Clients : Process(c)) \/ (\E l \in LinkId : PeerCloses(l)) \/ UNCHANGED vars =>
        UNCHANGED <<at, client, uart, modem>>
  BY DEF Process, Connect, ConnectFails, Receive, EndOfFile, GiveUp, PeerCloses, boardVars, vars
<1> QED BY <1>1, <1>2, <1>3, <1>4, <1>5, <1>6 DEF Next

-----------------------------------------------------------------------------
(* Steps of the board: the links and the processes stay as they are.       *)

(* The UART loses its first s pieces; a request taken from it is stored.   *)
LEMMA OnceBoard ==
  ASSUME TypeInv, Once, links' = links, query' = query, NEW s \in Nat,
         \A i \in 1..Len(uart') : i + s \in 1..Len(uart) /\ uart'[i] = uart[i + s],
         Len(uart') \in Nat,
         \A k \in Conn : InRx(client'.rx, k) =>
           InRx(client.rx, k) \/ (s = 1 /\ Len(uart) >= 1 /\ uart[1] = Request(k))
  PROVE  Once'
<1>0. Len(uart) \in Nat
  BY LenProperties DEF TypeInv
<1>1. \A k : InUart(uart', k) => InUart(uart, k)
  BY DEF InUart
<1>2. OneLink'
  BY DEF Once, OneLink
<1>3. OneRequest'
  <2> SUFFICES ASSUME NEW i \in 1..Len(uart'), NEW j \in 1..Len(uart'),
                      uart'[i].kind = "request", uart'[i] = uart'[j]
               PROVE  i = j
    BY DEF OneRequest
  <2>1. i + s = j + s
    BY DEF Once, OneRequest
  <2> QED BY <2>1
<1>4. \A k \in Conn : s = 1 /\ Len(uart) >= 1 /\ uart[1] = Request(k) => ~InUart(uart', k) /\ InUart(uart, k)
  <2> SUFFICES ASSUME NEW k \in Conn, s = 1, Len(uart) >= 1, uart[1] = Request(k)
               PROVE  ~InUart(uart', k) /\ InUart(uart, k)
    OBVIOUS
  <2>1. 1 \in 1..Len(uart)
    BY <1>0
  <2>2. ASSUME NEW i \in 1..Len(uart'), uart'[i] = Request(k)
        PROVE  FALSE
    <3>1. i + 1 \in 1..Len(uart) /\ uart[i + 1] = uart[1] /\ uart[1].kind = "request"
      BY <2>2, PiecesMade
    <3>2. i + 1 = 1
      BY <2>1, <3>1 DEF Once, OneRequest
    <3> QED BY <3>2
  <2> QED BY <2>1, <2>2 DEF InUart
<1>5. Apart'
  BY <1>1, <1>4 DEF Once, Apart
<1>6. Unasked'
  <2> SUFFICES ASSUME NEW l \in LinkId, links[l] # FreeLink, ~links[l].asked
               PROVE  /\ Hopes(query, links[l].conn)
                      /\ ~InUart(uart', links[l].conn)
                      /\ ~InRx(client'.rx, links[l].conn)
    BY DEF Unasked
  <2>1. links[l].conn \in Conn
    BY ConnTyped
  <2>2. /\ Hopes(query, links[l].conn)
        /\ ~InUart(uart, links[l].conn) /\ ~InRx(client.rx, links[l].conn)
    BY DEF Once, Unasked
  <2> QED BY <1>1, <1>4, <2>1, <2>2
<1>7. AllKnown'
  BY <1>1, <1>4 DEF Once, AllKnown
<1> QED BY <1>2, <1>3, <1>5, <1>6, <1>7 DEF Once

(* The same with the UART emptied, kept or without its first piece. *)
LEMMA OnceEmptied ==
  ASSUME TypeInv, Once, links' = links, query' = query, uart' = <<>>,
         client'.rx = client.rx \/ client'.rx = <<>>
  PROVE  Once'
<1>1. Len(uart') = 0 /\ 1..Len(uart') = {} /\ Len(<<>>) = 0
  OBVIOUS
<1>2. \A k : ~InRx(<<>>, k)
  BY <1>1 DEF InRx
<1> QED BY <1>1, <1>2, OnceBoard

LEMMA OnceKept ==
  ASSUME TypeInv, Once, links' = links, query' = query, uart' = uart,
         client'.rx = client.rx \/ client'.rx = <<>>
  PROVE  Once'
<1>1. Len(uart) \in Nat /\ Len(<<>>) = 0
  BY LenProperties DEF TypeInv
<1>2. \A k : ~InRx(<<>>, k)
  BY <1>1 DEF InRx
<1>3. \A i \in 1..Len(uart') : i + 0 \in 1..Len(uart) /\ uart'[i] = uart[i + 0]
  BY <1>1
<1> QED BY <1>1, <1>2, <1>3, OnceBoard

LEMMA OnceTaken ==
  ASSUME TypeInv, Once, links' = links, query' = query, uart # <<>>, uart' = Tail(uart),
         \/ client'.rx = client.rx \/ client'.rx = <<>>
         \/ \E k \in Conn : uart[1] = Request(k) /\ client'.rx = Append(client.rx, k)
  PROVE  Once'
<1>1. /\ Len(uart) \in Nat \ {0} /\ Len(uart') = Len(uart) - 1
      /\ \A i \in 1..(Len(uart) - 1) : uart'[i] = uart[i + 1]
  BY Taken DEF TypeInv
<1>2. \A i \in 1..Len(uart') : i + 1 \in 1..Len(uart) /\ uart'[i] = uart[i + 1]
  BY <1>1
<1>3. client.rx \in Seq(Conn)
  BY DEF TypeInv, BoardTyped, ClientType
<1>4. ASSUME NEW k \in Conn, InRx(client'.rx, k)
      PROVE  InRx(client.rx, k) \/ uart[1] = Request(k)
  <2>1. CASE client'.rx = client.rx
    BY <1>4, <2>1
  <2>2. CASE client'.rx = <<>>
    BY <1>4, <2>2 DEF InRx
  <2>3. ASSUME NEW m \in Conn, uart[1] = Request(m), client'.rx = Append(client.rx, m)
        PROVE  InRx(client.rx, k) \/ uart[1] = Request(k)
    <3>1. /\ Len(client'.rx) = Len(client.rx) + 1 /\ Len(client.rx) \in Nat
          /\ \A i \in 1..Len(client.rx) : client'.rx[i] = client.rx[i]
          /\ client'.rx[Len(client.rx) + 1] = m
      BY <1>3, <2>3, AppendProperties, LenProperties
    <3>2. PICK j \in 1..Len(client'.rx) : client'.rx[j] = k
      BY <1>4 DEF InRx
    <3>3. j \in 1..Len(client.rx) \/ j = Len(client.rx) + 1
      BY <3>1, <3>2
    <3> QED BY <2>3, <3>1, <3>2, <3>3 DEF InRx
  <2> QED BY <2>1, <2>2, <2>3
<1> HIDE DEF Once
<1> QED BY <1>1, <1>2, <1>4, OnceBoard

(* The pairs on the UART, when a piece is taken: the board polls, or waits *)
(* on for the same command, or has just read the ERROR that ends the wait. *)
LEMMA PairsTaken ==
  ASSUME TypeInv, Pairs, links' = links, query' = query, uart # <<>>, uart' = Tail(uart),
         \/ pc # "wait" \/ at.op \in {"CIPSEND", "DATA"}
         \/ /\ pc' = "wait" /\ at'.op = at.op
            /\ at'.found => at.found \/ uart[1].kind = "reply"
         \/ uart[1].kind = "reply"
  PROVE  Pairs'
<1>1. /\ Len(uart) \in Nat \ {0} /\ Len(uart') = Len(uart) - 1
      /\ \A i \in 1..(Len(uart) - 1) : uart'[i] = uart[i + 1]
  BY Taken DEF TypeInv
<1> SUFFICES ASSUME NEW i \in 1..Len(uart'), uart'[i].kind = "header"
             PROVE  /\ Framed(i)'
                    /\ \/ Awaited(links, query, uart'[i].link, uart'[i + 2].conn)
                       \/ Doomed(i)'
  BY DEF Pairs
<1>2. i + 1 \in 1..Len(uart) /\ uart'[i] = uart[i + 1] /\ uart[i + 1].kind = "header"
  BY <1>1
<1>3. /\ Framed(i + 1)
      /\ Awaited(links, query, uart[i + 1].link, uart[(i + 1) + 2].conn) \/ Doomed(i + 1)
  BY <1>2 DEF Pairs
<1>4. /\ i + 2 <= Len(uart')
      /\ uart'[i + 1] = uart[(i + 1) + 1] /\ uart'[i + 2] = uart[(i + 1) + 2]
  <2>1. (i + 1) + 2 <= Len(uart)
    BY <1>3 DEF Framed
  <2>2. /\ i + 1 \in 1..(Len(uart) - 1) /\ i + 2 \in 1..(Len(uart) - 1)
        /\ (i + 2) + 1 = (i + 1) + 2
    BY <1>1, <2>1
  <2> QED BY <1>1, <2>1, <2>2
<1>5. Framed(i)'
  BY <1>3, <1>4 DEF Framed
<1>6. CASE Awaited(links, query, uart[i + 1].link, uart[(i + 1) + 2].conn)
  BY <1>2, <1>4, <1>5, <1>6
<1>7. CASE Doomed(i + 1)
  <2>1. /\ pc = "wait" /\ at.op \notin {"CIPSEND", "DATA"} /\ ~at.found
        /\ \A j \in 1..(i + 1) : uart[j].kind # "reply"
    BY <1>7 DEF Doomed
  <2>2. 1 \in 1..(i + 1) /\ \A j \in 1..i : j + 1 \in 1..(i + 1) /\ uart'[j] = uart[j + 1]
    BY <1>1
  <2>3. pc' = "wait" /\ at'.op = at.op /\ ~at'.found
    BY <2>1, <2>2
  <2>4. Doomed(i)'
    BY <2>1, <2>2, <2>3 DEF Doomed
  <2> QED BY <1>5, <2>4
<1> QED BY <1>3, <1>6, <1>7

LEMMA PairsEmptied ==
  ASSUME uart' = <<>>
  PROVE  Pairs'
<1>1. Len(uart') = 0 /\ 1..Len(uart') = {}
  OBVIOUS
<1> QED BY <1>1 DEF Pairs

LEMMA PairsKept ==
  ASSUME Pairs, links' = links, query' = query, uart' = uart,
         pc # "wait" \/ at.op \in {"CIPSEND", "DATA"} \/ at.found
  PROVE  Pairs'
BY DEF Pairs, Framed, Doomed

LEMMA InboxesKept ==
  ASSUME Inboxes, query' = query
  PROVE  Inboxes'
BY DEF Inboxes, ConnOf

(* Back in loop(), with nobody served and nothing half read. *)
LEMMA LoopGood ==
  ASSUME TypeInv, setting.timely, Sync, Good, NEW op \in Commands \ {"CIPSEND"}, NEW ok \in BOOLEAN,
         Returns(op, ok), BackToLoop, links' = links, query' = query,
         client'.rx = client.rx \/ client'.rx = <<>>, ~client'.active, frame'.phase = "none",
         half' = {}
  PROVE  Good'
<1>1. /\ pc = "wait" /\ at.op = op
      /\ \/ ~ErrorNext /\ (uart = <<>> \/ at.found)
         \/ uart # <<>> /\ ErrorNext /\ uart[1].kind = "reply"
  BY Returned DEF Commands
<1>2. \/ uart' = uart /\ (uart = <<>> \/ at.found)
      \/ uart # <<>> /\ uart' = Tail(uart) /\ uart[1].kind = "reply"
  BY <1>1 DEF BackToLoop
<1>3. Pairs'
  BY <1>2, PairsTaken, PairsEmptied, PairsKept DEF Good
<1>4. FrameOK' /\ HalfOK' /\ Served'
  BY DEF FrameOK, HalfOK, Served
<1>5. Once'
  BY <1>2, OnceKept, OnceTaken DEF Good
<1>6. Inboxes'
  BY InboxesKept DEF Good
<1> QED BY <1>3, <1>4, <1>5, <1>6 DEF Good

(* A command other than AT+CIPSEND goes out: to an idle modem, or as the   *)
(* data it waits for.                                                      *)
LEMMA IssueGood ==
  ASSUME TypeInv, setting.timely, Good, NEW op \in Commands \ {"CIPSEND"}, Issue(op),
         \/ modem.job = "idle"
         \/ modem.job = "AwaitData" /\ op = "CIPCLOSE",
         links' = links, query' = query, client'.rx = client.rx,
         half' = half, ~client'.active => half = {}
  PROVE  Good'
<1>1. op \in Commands
  OBVIOUS
<1>2. /\ pc' = "wait" /\ at'.op = op /\ uart' = <<>>
      /\ modem'.job = op \/ (op = "CIPCLOSE" /\ modem'.job = "SendJunk")
  BY <1>1, Issued
<1>3. Pairs'
  BY <1>2, PairsEmptied
<1>4. FrameOK' /\ HalfOK' /\ Served'
  BY <1>2 DEF FrameOK, HalfOK, Served, Commands
<1>5. Once'
  BY <1>2, OnceEmptied DEF Good
<1>6. Inboxes'
  BY InboxesKept DEF Good
<1> QED BY <1>3, <1>4, <1>5, <1>6 DEF Good

-----------------------------------------------------------------------------
(* The invariant is preserved: the board.                                  *)

LEMMA ReadReplyGood ==
  ASSUME TypeInv, Sync, Good, ReadReply
  PROVE  Good'
<1>1. /\ pc = "wait" /\ pc' = "wait" /\ uart # <<>> /\ uart' = Tail(uart)
      /\ UNCHANGED <<client, frame, half, modem, links, query>>
  BY DEF ReadReply
<1>2. at'.op = at.op /\ (at'.found => at.found \/ uart[1].kind = "reply")
  BY ReadReplySync
<1>3. Pairs'
  BY <1>1, <1>2, PairsTaken DEF Good
<1>4. FrameOK' /\ HalfOK' /\ Served'
  BY <1>1, <1>2 DEF Good, FrameOK, HalfOK, Served
<1>5. Once'
  BY <1>1, OnceTaken DEF Good
<1>6. Inboxes'
  BY <1>1, InboxesKept DEF Good
<1> QED BY <1>3, <1>4, <1>5, <1>6 DEF Good

(* A check that would tear a header does not begin. *)
LEMMA CheckWifiGood ==
  ASSUME TypeInv, setting.timely, ~setting.tears, Sync, Good, CheckWifi
  PROVE  Good'
<1>1. "CWJAP?" \in Commands \ {"CIPSEND"}
  BY DEF Commands
<1>2. modem.job = "idle"
  BY Busy DEF CheckWifi
<1>3. half' = half /\ half = {}
  BY DEF CheckWifi
<1> QED BY <1>1, <1>2, <1>3, IssueGood DEF CheckWifi

LEMMA JoinStepsGood ==
  ASSUME TypeInv, setting.timely, Sync, Good, NEW ok \in BOOLEAN,
         AfterIsJoined(ok) \/ AfterJoinStep(ok) \/ AfterServerStep(ok)
  PROVE  Good'
<1>1. /\ UNCHANGED <<client, frame, half, links, query>>
      /\ pc = "wait" /\ ~client.active /\ frame.phase = "none" /\ modem.job = "idle"
      /\ \E r \in BOOLEAN : \E op \in Commands \ {"CIPSEND"} : Returns(op, r)
      /\ BackToLoop \/ \E op \in Commands \ {"CIPSEND", "CIPCLOSE"} : Issue(op)
  BY JoinSteps
<1>2. half = {}
  BY <1>1 DEF Good, HalfOK
<1>3. CASE BackToLoop
  BY <1>1, <1>2, <1>3, LoopGood
<1>4. CASE \E op \in Commands \ {"CIPSEND", "CIPCLOSE"} : Issue(op)
  BY <1>1, <1>2, <1>4, IssueGood
<1> QED BY <1>1, <1>3, <1>4

(* The first half of a header is read: its other half comes next. *)
LEMMA PollHeaderGood ==
  ASSUME TypeInv, Good, PollHeader
  PROVE  Good'
<1>1. /\ pc = "poll" /\ pc' = "poll" /\ half' = {Head(uart).link}
      /\ uart # <<>> /\ uart' = Tail(uart) /\ frame.phase = "none"
      /\ UNCHANGED <<at, client, frame, modem, links, query>>
  BY DEF PollHeader
<1>2. /\ Len(uart) \in Nat \ {0} /\ Len(uart') = Len(uart) - 1
      /\ \A i \in 1..(Len(uart) - 1) : uart'[i] = uart[i + 1]
      /\ Head(uart) = uart[1] /\ uart[1] \in Piece
  BY <1>1, Taken DEF TypeInv
<1>3. uart[1].kind = "header"
  BY <1>2 DEF PollHeader
<1>4. /\ 3 <= Len(uart) /\ uart[2].kind = "length" /\ uart[3].kind = "request"
      /\ Awaited(links, query, uart[1].link, uart[3].conn)
  <2>1. 1 \in 1..Len(uart) /\ 1 + 1 = 2 /\ 1 + 2 = 3
    BY <1>2
  <2>2. Framed(1) /\ Awaited(links, query, uart[1].link, uart[1 + 2].conn)
    BY <1>1, <1>3, <2>1 DEF Good, Pairs, Doomed
  <2> QED BY <2>1, <2>2 DEF Framed
<1>5. Len(uart') >= 2 /\ uart'[1] = uart[2] /\ uart'[2] = uart[3]
  <2>1. /\ Len(uart) - 1 >= 2 /\ 1 \in 1..(Len(uart) - 1) /\ 2 \in 1..(Len(uart) - 1)
        /\ 1 + 1 = 2 /\ 2 + 1 = 3
    BY <1>2, <1>4
  <2> QED BY <1>2, <2>1
<1>6. HalfOK'
  BY <1>1, <1>2, <1>4, <1>5 DEF HalfOK
<1>7. Pairs'
  BY <1>1, PairsTaken DEF Good
<1>8. FrameOK' /\ Served'
  BY <1>1 DEF Good, FrameOK, Served
<1>9. Once'
  BY <1>1, OnceTaken DEF Good
<1>10. Inboxes'
  BY <1>1, InboxesKept DEF Good
<1> QED BY <1>6, <1>7, <1>8, <1>9, <1>10 DEF Good

(* The second half: what follows is the request of a connection that waits *)
(* for its answer, on the link the header named.                           *)
LEMMA PollLengthGood ==
  ASSUME TypeInv, Good, PollLength
  PROVE  Good'
<1>1. /\ pc = "poll" /\ pc' = "poll" /\ half' = {} /\ uart[1].kind = "length"
      /\ uart # <<>> /\ uart' = Tail(uart) /\ UNCHANGED <<at, modem, links, query>>
  BY Taken DEF PollLength, TypeInv
<1>2. /\ Len(uart) \in Nat \ {0} /\ Len(uart') = Len(uart) - 1 /\ uart' \in Seq(Piece)
      /\ \A i \in 1..(Len(uart) - 1) : uart'[i] = uart[i + 1]
  BY <1>1, Taken DEF TypeInv
<1>3. HalfOK'
  BY <1>1 DEF HalfOK
<1>4. Pairs'
  BY <1>1, PairsTaken DEF Good
<1>5. Inboxes'
  BY <1>1, InboxesKept DEF Good
<1>6. frame.phase = "none"
  BY <1>1 DEF Good, FrameOK
<1>7. CASE half = {}
  <2>1. UNCHANGED <<client, frame>>
    BY <1>7 DEF PollLength
  <2>2. FrameOK' /\ Served'
    BY <1>1, <1>6, <2>1 DEF Good, FrameOK, Served
  <2>3. Once'
    BY <1>1, <2>1, OnceTaken DEF Good
  <2> QED BY <1>3, <1>4, <1>5, <2>2, <2>3 DEF Good
<1>8. CASE half # {}
  <2>1. PICK l \in half : FS!OpenFrame(l, 1)
    BY <1>8 DEF PollLength
  <2>2. l \in LinkId
    BY DEF TypeInv, BoardTyped
  <2>3. /\ client' = IF client.active THEN client
                     ELSE [active |-> TRUE, linkId |-> l, rx |-> <<>>, head |-> 0, txLen |-> 0]
        /\ frame' = [phase |-> IF l = client'.linkId THEN "copy" ELSE "discard", left |-> 1]
    BY <2>1, <2>2, Opened
  <2>4. Len(uart) >= 2 /\ uart[2].kind = "request" /\ Awaited(links, query, l, uart[2].conn)
    BY <1>1 DEF Good, HalfOK
  <2>5. uart' # <<>> /\ uart'[1] = uart[2]
    <3>1. /\ Len(uart') \in Nat /\ Len(uart') > 0 /\ 1 \in 1..(Len(uart) - 1) /\ 1 + 1 = 2
          /\ Len(<<>>) = 0
      BY <1>2, <2>4
    <3> QED BY <1>2, <3>1
  <2>6. FrameOK'
    BY <1>1, <2>3, <2>4, <2>5 DEF FrameOK
  <2>7. Served'
    <3>1. CASE client.active
      BY <1>1, <2>3, <3>1 DEF Good, Served
    <3>2. CASE ~client.active
      <4>1. client'.rx = <<>> /\ 1..Len(client'.rx) = {}
        BY <2>3, <3>2
      <4> QED BY <4>1 DEF Served
    <3> QED BY <3>1, <3>2
  <2>8. client'.rx = client.rx \/ client'.rx = <<>>
    BY <2>3
  <2>9. Once'
    BY <1>1, <2>8, OnceTaken DEF Good
  <2> QED BY <1>3, <1>4, <1>5, <2>6, <2>7, <2>9 DEF Good
<1> QED BY <1>7, <1>8

LEMMA PollRestGood ==
  ASSUME TypeInv, Good, PollRest
  PROVE  Good'
<1>1. /\ pc = "poll" /\ pc' = "poll" /\ half' = {} /\ at' = at /\ modem' = modem
      /\ uart # <<>> /\ uart' = Tail(uart) /\ links' = links /\ query' = query
  BY DEF PollRest
<1>2. Head(uart) = uart[1] /\ uart[1] \in Piece
  BY <1>1, Taken DEF TypeInv
<1>3. HalfOK'
  BY <1>1 DEF HalfOK
<1>4. Pairs'
  BY <1>1, PairsTaken DEF Good
<1>5. Inboxes'
  BY <1>1, InboxesKept DEF Good
<1>6. CASE frame.phase = "none"
  <2>1. UNCHANGED <<client, frame>>
    BY <1>6 DEF PollRest
  <2>2. FrameOK' /\ Served'
    BY <1>1, <1>6, <2>1 DEF Good, FrameOK, Served
  <2>3. Once'
    BY <1>1, <2>1, OnceTaken DEF Good
  <2> QED BY <1>3, <1>4, <1>5, <2>2, <2>3 DEF Good
<1>7. CASE frame.phase # "none"
  <2>1. /\ uart[1].kind = "request"
        /\ frame.phase = "copy" => Awaited(links, query, client.linkId, uart[1].conn)
    BY <1>1, <1>7 DEF Good, FrameOK
  <2>2. PICK k \in Conn : k = uart[1].conn /\ uart[1] = Request(k)
    BY <1>2, <2>1, PieceKinds
  <2>3. FS!PayloadByte(k)
    BY <1>2, <1>7, <2>1, <2>2 DEF PollRest
  <2>4. /\ client'.active = client.active /\ client'.linkId = client.linkId
        /\ \/ client'.rx = client.rx
           \/ frame.phase = "copy" /\ client'.rx = Append(client.rx, k)
        /\ frame'.phase = "none"
    BY <2>3, PayloadTyped
  <2>5. FrameOK'
    BY <2>4 DEF FrameOK
  <2>6. Served'
    <3>1. CASE client'.rx = client.rx
      BY <1>1, <2>4, <3>1 DEF Good, Served
    <3>2. CASE frame.phase = "copy" /\ client'.rx = Append(client.rx, k)
      <4>1. client.rx \in Seq(Conn)
        BY DEF TypeInv, BoardTyped, ClientType
      <4>2. /\ Len(client'.rx) = Len(client.rx) + 1 /\ Len(client.rx) \in Nat
            /\ \A i \in 1..Len(client.rx) : client'.rx[i] = client.rx[i]
            /\ client'.rx[Len(client.rx) + 1] = k
        BY <3>2, <4>1, AppendProperties, LenProperties
      <4>3. client.active
        BY <1>7 DEF TypeInv, Serving
      <4>4. \A i \in 1..Len(client.rx) : Awaited(links, query, client.linkId, client.rx[i])
        BY <1>1, <4>3 DEF Good, Served
      <4>5. \A i \in 1..Len(client'.rx) : i \in 1..Len(client.rx) \/ i = Len(client.rx) + 1
        BY <4>2
      <4>6. \A i \in 1..Len(client'.rx) : Awaited(links, query, client.linkId, client'.rx[i])
        BY <2>1, <2>2, <3>2, <4>2, <4>4, <4>5
      <4> QED BY <1>1, <2>4, <4>6 DEF Served
    <3> QED BY <2>4, <3>1, <3>2
  <2>7. Once'
    BY <1>1, <2>2, <2>4, OnceTaken DEF Good
  <2> QED BY <1>3, <1>4, <1>5, <2>5, <2>6, <2>7 DEF Good
<1> QED BY <1>6, <1>7

LEMMA ReadRequestGood ==
  ASSUME TypeInv, Good, ReadRequest
  PROVE  Good'
<1>1. /\ pc = "poll" /\ pc' = "answer"
      /\ uart' = uart /\ links' = links /\ query' = query
      /\ client' = [client EXCEPT !.head = client.head + 1]
  BY DEF ReadRequest, FS!ReadNext
<1>2. /\ client'.rx = client.rx /\ client'.active = client.active
      /\ client'.linkId = client.linkId
  BY <1>1 DEF TypeInv, BoardTyped, ClientType
<1>3. Pairs'
  BY <1>1, PairsKept DEF Good
<1>4. FrameOK' /\ HalfOK' /\ Served'
  BY <1>1, <1>2 DEF Good, FrameOK, HalfOK, Served
<1>5. Once'
  BY <1>1, <1>2, OnceKept DEF Good
<1>6. Inboxes'
  BY <1>1, InboxesKept DEF Good
<1> QED BY <1>3, <1>4, <1>5, <1>6 DEF Good

LEMMA AnswerGood ==
  ASSUME TypeInv, setting.timely, Sync, Good, Answer
  PROVE  Good'
<1>1. PICK n \in Nat : client' = [client EXCEPT !.txLen = n]
  BY Queued DEF Answer
<1>2. /\ client'.rx = client.rx /\ client'.active = client.active
      /\ client'.linkId = client.linkId
  BY <1>1, TxTyped
<1>3. /\ pc = "answer" /\ client.active /\ links' = links /\ query' = query
      /\ modem.job = "idle"
  BY Busy DEF Answer, TypeInv, Serving
<1>4. "CIPSEND" \in Commands
  BY DEF Commands
<1>5. pc' = "wait" /\ at'.op = "CIPSEND" /\ uart' = <<>> /\ modem'.job = "CIPSEND"
  BY <1>3, <1>4, Issued DEF Answer
<1>6. Pairs'
  BY <1>5, PairsEmptied
<1>7. FrameOK' /\ HalfOK' /\ Served'
  BY <1>2, <1>3, <1>5 DEF Good, FrameOK, HalfOK, Served
<1>8. Once'
  BY <1>2, <1>3, <1>5, OnceEmptied DEF Good
<1>9. Inboxes'
  BY <1>3, InboxesKept DEF Good
<1> QED BY <1>6, <1>7, <1>8, <1>9 DEF Good

LEMMA AfterPromptGood ==
  ASSUME TypeInv, Good, AfterPrompt
  PROVE  Good'
<1>1. /\ pc = "wait" /\ at.op = "CIPSEND"
      /\ UNCHANGED <<pc, client, frame, half, uart, links, query>>
  BY DEF AfterPrompt, Returns
<1>2. Pairs'
  BY <1>1, PairsKept DEF Good
<1>3. FrameOK' /\ HalfOK' /\ Served'
  BY <1>1 DEF Good, FrameOK, HalfOK, Served
<1>4. Once'
  BY <1>1, OnceKept DEF Good
<1>5. Inboxes'
  BY <1>1, InboxesKept DEF Good
<1> QED BY <1>2, <1>3, <1>4, <1>5 DEF Good

LEMMA AfterFlushGood ==
  ASSUME TypeInv, setting.timely, Sync, Good, AfterFlush
  PROVE  Good'
<1>1. modem.job = "idle" \/ modem.job = "AwaitData"
  BY CloseSync
<1>2. pc = "wait" /\ half' = half
  BY DEF AfterFlush, Returns
<1>3. client' = [client EXCEPT !.txLen = 0] /\ links' = links /\ query' = query
  BY DEF AfterFlush, FS!Send
<1>4. client'.rx = client.rx /\ client'.active = client.active
  BY <1>3, TxTyped
<1>5. ~client'.active => half = {}
  BY <1>2, <1>4 DEF Good, HalfOK
<1>6. "CIPCLOSE" \in Commands \ {"CIPSEND"}
  BY DEF Commands
<1> QED BY <1>1, <1>2, <1>3, <1>4, <1>5, <1>6, IssueGood DEF AfterFlush

LEMMA WindowEndsGood ==
  ASSUME TypeInv, setting.timely, Sync, Good, WindowEnds
  PROVE  Good'
<1>1. "CIPCLOSE" \in Commands \ {"CIPSEND"}
  BY DEF Commands
<1>2. modem.job = "idle" \/ modem.job = "AwaitData"
  BY CloseSync
<1>3. client' = client /\ client.active /\ half' = half
  BY DEF WindowEnds
<1> QED BY <1>1, <1>2, <1>3, IssueGood DEF WindowEnds

LEMMA AfterCloseGood ==
  ASSUME TypeInv, setting.timely, Sync, Good, NEW ok \in BOOLEAN, AfterClose(ok)
  PROVE  Good'
<1>1. "CIPCLOSE" \in Commands \ {"CIPSEND"}
  BY DEF Commands
<1>2. ~client'.active /\ client'.rx = <<>> /\ frame'.phase = "none" /\ half' = {}
  BY Dropped DEF AfterClose
<1> QED BY <1>1, <1>2, LoopGood DEF AfterClose

LEMMA BoardGood ==
  ASSUME TypeInv, setting.timely, Sync, Good, Board
  PROVE  Good'
<1>1. CASE ReadReply
  BY <1>1, ReadReplyGood
<1>2. CASE PollHeader \/ PollLength
  BY <1>2, PollHeaderGood, PollLengthGood
<1>3. CASE PollRest
  BY <1>3, PollRestGood
<1>4. CASE ReadRequest
  BY <1>4, ReadRequestGood
<1>5. CASE Answer
  BY <1>5, AnswerGood
<1>6. CASE AfterPrompt
  BY <1>6, AfterPromptGood
<1>7. CASE AfterFlush
  BY <1>7, AfterFlushGood
<1>8. CASE WindowEnds
  BY <1>8, WindowEndsGood
<1>9. ASSUME NEW ok \in BOOLEAN, AfterIsJoined(ok) \/ AfterJoinStep(ok) \/ AfterServerStep(ok)
      PROVE  Good'
  BY <1>9, JoinStepsGood
<1>10. ASSUME NEW ok \in BOOLEAN, AfterClose(ok)
       PROVE  Good'
  BY <1>10, AfterCloseGood
<1> QED BY <1>1, <1>2, <1>3, <1>4, <1>5, <1>6, <1>7, <1>8, <1>9, <1>10 DEF Board

-----------------------------------------------------------------------------
(* The invariant is preserved: the modem.                                  *)

(* The links of a step that frees some of them. *)
Frees == \A l \in LinkId : links'[l] = links[l] \/ links'[l] = FreeLink

LEMMA OnceFrees ==
  ASSUME TypeInv, Once, Frees, client' = client, Len(uart') \in Nat,
         \A i \in 1..Len(uart') : uart'[i].kind = "request" => i \in 1..Len(uart) /\ uart'[i] = uart[i],
         \A k \in Conn : Known(query, k) => Known(query', k),
         \A l \in LinkId : \A k \in Conn :
           links'[l].conn = k /\ ~links'[l].asked /\ ~InRx(client.rx, k) /\ Hopes(query, k) =>
             Hopes(query', k)
  PROVE  Once'
<1>1. \A k \in Conn : InUart(uart', k) => InUart(uart, k)
  <2> SUFFICES ASSUME NEW k \in Conn, NEW i \in 1..Len(uart'), uart'[i] = Request(k)
               PROVE  InUart(uart, k)
    BY DEF InUart
  <2>1. uart'[i].kind = "request"
    BY PiecesMade
  <2> QED BY <2>1 DEF InUart
<1>2. FreeLink.conn = NoConn /\ NoConn \notin Conn
  BY FreeTyped, NobodyAsked
<1>3. OneLink'
  <2> SUFFICES ASSUME NEW l \in LinkId, NEW m \in LinkId, links'[l] # FreeLink,
                      links'[l].conn = links'[m].conn
               PROVE  l = m
    BY DEF OneLink
  <2>1. links'[l] = links[l] /\ links[l].conn \in Conn
    BY ConnTyped DEF Frees
  <2>2. links'[m] = links[m]
    BY <1>2, <2>1 DEF Frees
  <2> QED BY <2>1, <2>2 DEF Once, OneLink
<1>4. OneRequest'
  <2> SUFFICES ASSUME NEW i \in 1..Len(uart'), NEW j \in 1..Len(uart'),
                      uart'[i].kind = "request", uart'[i] = uart'[j]
               PROVE  i = j
    BY DEF OneRequest
  <2>1. i \in 1..Len(uart) /\ j \in 1..Len(uart) /\ uart'[i] = uart[i] /\ uart'[j] = uart[j]
    OBVIOUS
  <2> QED BY <2>1 DEF Once, OneRequest
<1>5. Apart'
  BY <1>1 DEF Once, Apart
<1>6. Unasked'
  <2> SUFFICES ASSUME NEW l \in LinkId, links'[l] # FreeLink, ~links'[l].asked
               PROVE  /\ Hopes(query', links'[l].conn)
                      /\ ~InUart(uart', links'[l].conn)
                      /\ ~InRx(client.rx, links'[l].conn)
    BY DEF Unasked
  <2>1. links'[l] = links[l] /\ links[l].conn \in Conn
    BY ConnTyped DEF Frees
  <2>2. /\ Hopes(query, links[l].conn)
        /\ ~InUart(uart, links[l].conn) /\ ~InRx(client.rx, links[l].conn)
    BY <2>1 DEF Once, Unasked
  <2> QED BY <1>1, <2>1, <2>2
<1>7. AllKnown'
  <2>1. \A k \in Conn : OnLink(links', k) => OnLink(links, k)
    BY <1>2 DEF OnLink, Frees
  <2> QED BY <1>1, <2>1 DEF Once, AllKnown
<1> QED BY <1>3, <1>4, <1>5, <1>6, <1>7 DEF Once

(* What the modem says leaves the requests in the UART as they are. *)
LEMMA SaidRequests ==
  ASSUME uart \in Seq(Piece), NEW texts \in Seq(Text), Says(texts)
  PROVE  /\ Len(uart') \in Nat
         /\ \A i \in 1..Len(uart') : uart'[i].kind # "reply" => i \in 1..Len(uart) /\ uart'[i] = uart[i]
<1>1. /\ Len(uart') = Len(uart) + Len(texts) /\ Len(uart) \in Nat /\ Len(texts) \in Nat
      /\ \A i \in 1..Len(uart) : uart'[i] = uart[i]
      /\ \A i \in (Len(uart) + 1)..Len(uart') : uart'[i].kind = "reply"
  BY Said
<1>2. \A i \in 1..Len(uart') : i \in 1..Len(uart) \/ i \in (Len(uart) + 1)..Len(uart')
  BY <1>1
<1> QED BY <1>1, <1>2

(* The pairs, when the modem says something: they are kept, or the step    *)
(* frees links while the board waits for a sendCommand() that eats them.   *)
LEMMA PairsSaid ==
  ASSUME TypeInv, Pairs, pc' = pc, at' = at, NEW texts \in Seq(Text), Says(texts),
         \/ \A l \in LinkId : \A k \in Conn :
              InUart(uart, k) /\ Awaited(links, query, l, k) => Awaited(links', query', l, k)
         \/ NoReply(uart) /\ pc = "wait" /\ at.op \notin {"CIPSEND", "DATA"} /\ ~at.found
  PROVE  Pairs'
<1>1. /\ Len(uart') \in Nat /\ Len(uart) \in Nat /\ Len(uart) <= Len(uart')
      /\ \A i \in 1..Len(uart) : uart'[i] = uart[i]
      /\ \A i \in 1..Len(uart') : uart'[i].kind # "reply" => i \in 1..Len(uart) /\ uart'[i] = uart[i]
  <2>1. /\ Len(uart') = Len(uart) + Len(texts) /\ Len(uart) \in Nat /\ Len(texts) \in Nat
        /\ \A i \in 1..Len(uart) : uart'[i] = uart[i]
    BY Said DEF TypeInv
  <2> QED BY <2>1, SaidRequests DEF TypeInv
<1> SUFFICES ASSUME NEW i \in 1..Len(uart'), uart'[i].kind = "header"
             PROVE  /\ Framed(i)'
                    /\ \/ Awaited(links', query', uart'[i].link, uart'[i + 2].conn)
                       \/ Doomed(i)'
  BY DEF Pairs
<1>2. i \in 1..Len(uart) /\ uart'[i] = uart[i]
  BY <1>1
<1>3. Framed(i) /\ (Awaited(links, query, uart[i].link, uart[i + 2].conn) \/ Doomed(i))
  BY <1>2 DEF Pairs
<1>4. /\ Framed(i)' /\ i + 2 \in 1..Len(uart) /\ uart'[i + 2] = uart[i + 2]
      /\ uart[i + 2].kind = "request"
  <2>1. i + 1 \in 1..Len(uart) /\ i + 2 \in 1..Len(uart) /\ i + 2 <= Len(uart')
    BY <1>1, <1>2, <1>3 DEF Framed
  <2> QED BY <1>1, <1>3, <2>1 DEF Framed
<1>5. \A j \in 1..i : j \in 1..Len(uart) /\ uart'[j] = uart[j]
  BY <1>1, <1>2
<1>6. CASE Doomed(i)
  BY <1>4, <1>5, <1>6 DEF Doomed
<1>7. CASE NoReply(uart) /\ pc = "wait" /\ at.op \notin {"CIPSEND", "DATA"} /\ ~at.found
  BY <1>4, <1>5, <1>7 DEF Doomed, NoReply
<1>8. CASE /\ Awaited(links, query, uart[i].link, uart[i + 2].conn)
           /\ \A l \in LinkId : \A k \in Conn :
                InUart(uart, k) /\ Awaited(links, query, l, k) => Awaited(links', query', l, k)
  <2>1. uart[i] \in Piece /\ uart[i + 2] \in Piece
    BY <1>2, <1>4, ElementOfSeq DEF TypeInv
  <2>2. PICK l \in LinkId : l = uart[i].link
    BY <1>2, <2>1, PieceKinds
  <2>3. PICK k \in Conn : k = uart[i + 2].conn /\ uart[i + 2] = Request(k)
    BY <1>4, <2>1, PieceKinds
  <2>4. InUart(uart, k)
    BY <1>4, <2>3 DEF InUart
  <2> QED BY <1>2, <1>4, <1>8, <2>2, <2>3, <2>4
<1> QED BY <1>3, <1>6, <1>7, <1>8

(* While a sendCommand() waits, the modem replies once, and may free links. *)
LEMMA QuietGood ==
  ASSUME TypeInv, Sync, Good, UNCHANGED boardVars, query' = query, Frees,
         NEW texts \in Seq(Text), Says(texts), modem'.job = "idle",
         modem.job \notin {"idle", "CIPSEND", "AwaitData", "Sending"}
  PROVE  Good'
<1>0. modem.job # "none"
  BY DEF TypeInv, ModemType, Commands
<1>1. at.op \notin {"CIPSEND", "DATA"} /\ pc = "wait" /\ NoReply(uart) /\ ~at.found
  <2>1. at.op \notin {"CIPSEND", "DATA"}
    BY Jobs DEF Sync
  <2>2. pc = "wait"
    BY Busy
  <2> QED BY <2>1, <2>2 DEF Sync
<1>2. UNCHANGED <<pc, at, client, frame, half>>
  BY DEF boardVars
<1>3. Pairs'
  BY <1>1, <1>2, PairsSaid DEF Good
<1>4. FrameOK' /\ HalfOK' /\ Served'
  BY <1>1, <1>2 DEF Good, FrameOK, HalfOK, Served
<1>5. Once'
  <2>1. /\ Len(uart') \in Nat
        /\ \A i \in 1..Len(uart') : uart'[i].kind = "request" => i \in 1..Len(uart) /\ uart'[i] = uart[i]
    BY SaidRequests DEF TypeInv
  <2>2. Once
    BY DEF Good
  <2> QED BY <1>2, <2>1, <2>2, OnceFrees
<1>6. Inboxes'
  BY InboxesKept DEF Good
<1> QED BY <1>3, <1>4, <1>5, <1>6 DEF Good

LEMMA ConfigureGood ==
  ASSUME TypeInv, Sync, Good, Modem, Configure \/ SendLine \/ CloseLink \/ Join
  PROVE  Good'
<1>1. PICK texts \in Seq(Text) : Says(texts)
  BY ModemSays
<1>2. /\ modem.job \notin {"idle", "CIPSEND", "AwaitData", "Sending"}
      /\ query' = query /\ UNCHANGED boardVars
  BY DEF Configure, SendLine, CloseLink, Join, Modem
<1>3. modem'.job = "idle"
  BY <1>2, ModemSays
<1>4. Frees
  <2>1. links \in [LinkId -> LinkType]
    BY DEF TypeInv
  <2> QED BY <2>1, ModemFrees DEF Frees
<1> QED BY <1>1, <1>2, <1>3, <1>4, QuietGood

(* The prompt, or the ERROR of a link that is closed. *)
LEMMA StartSendGood ==
  ASSUME TypeInv, Sync, Good, Modem, StartSend
  PROVE  Good'
<1>1. /\ modem.job = "CIPSEND" /\ links' = links /\ query' = query
      /\ UNCHANGED <<pc, at, client, frame, half>>
  BY DEF StartSend, Modem, boardVars
<1>2. at.op = "CIPSEND" /\ pc = "wait"
  BY <1>1, Busy
<1>3. PICK texts \in Seq(Text) : Says(texts)
  BY ModemSays
<1>4. Pairs'
  BY <1>1, <1>3, PairsSaid DEF Good
<1>5. FrameOK' /\ HalfOK' /\ Served'
  BY <1>1, <1>2 DEF Good, FrameOK, HalfOK, Served
<1>6. Once'
  <2>1. /\ Len(uart') \in Nat
        /\ \A i \in 1..Len(uart') : uart'[i].kind = "request" => i \in 1..Len(uart) /\ uart'[i] = uart[i]
    BY <1>3, SaidRequests DEF TypeInv
  <2>2. Once /\ Frees
    BY <1>1 DEF Good, Frees
  <2> QED BY <1>1, <2>1, <2>2, OnceFrees
<1>7. Inboxes'
  BY <1>1, InboxesKept DEF Good
<1> QED BY <1>4, <1>5, <1>6, <1>7 DEF Good

(* The answer: the link still holds the connection whose request it        *)
(* answers, so that is the process it reaches; every other connection      *)
(* hopes on.                                                               *)
LEMMA SendAnswerGood ==
  ASSUME TypeInv, Sync, Good, Modem, SendAnswer
  PROVE  Good'
<1>1. /\ modem.job = "Sending" /\ links' = links
      /\ UNCHANGED <<pc, at, client, frame, half>>
  BY DEF SendAnswer, Modem, boardVars
<1>2. at.op = "DATA" /\ pc = "wait"
      /\ modem.link = client.linkId /\ modem.answer = client.rx[client.head]
  BY <1>1, Busy DEF Sync
<1>3. PICK texts \in Seq(Text) : Says(texts)
  BY ModemSays
<1>4. modem'.job = "idle"
  BY <1>1, ModemSays
<1>5. /\ client.head \in 1..Len(client.rx) /\ client.active
      /\ client.linkId \in LinkId /\ client.rx[client.head] \in Conn
  <2>1. client.active /\ client.head >= 1 /\ client.head <= Len(client.rx)
        /\ client.head \in Nat /\ client.rx \in Seq(Conn) /\ client.linkId \in LinkId
    BY <1>2 DEF TypeInv, Serving, BoardTyped, ClientType
  <2>2. Len(client.rx) \in Nat
    BY <2>1, LenProperties
  <2>3. client.head \in 1..Len(client.rx)
    BY <2>1, <2>2
  <2> QED BY <2>1, <2>3, ElementOfSeq
<1>6. PICK k \in Conn : k = client.rx[client.head]
  BY <1>5
<1>7. Awaited(links, query, client.linkId, k)
  BY <1>1, <1>5, <1>6 DEF Good, Served
<1>8. /\ links[modem.link].conn = k /\ modem.answer = k
      /\ Hopes(query, k) /\ k.client \in Clients /\ k = ConnOf(k.client) /\ PeerOpen(k)
  BY <1>2, <1>5, <1>6, <1>7, AwaitedMeans, HopesMeans
<1>9. query' = [query EXCEPT ![k.client].inbox = Append(@, k)]
  BY <1>8 DEF SendAnswer
<1>10. query \in [Clients -> QueryType] /\ query[k.client].inbox = <<>>
  BY <1>8 DEF TypeInv, QueryTyped, Hopes
<1>11. /\ \A c \in Clients : c # k.client => query'[c] = query[c]
       /\ query'[k.client].open = query[k.client].open
       /\ query'[k.client].stage = query[k.client].stage
       /\ query'[k.client].attempt = query[k.client].attempt
       /\ query'[k.client].inbox = <<k>>
  <2>1. Append(query[k.client].inbox, k) = <<k>>
    BY <1>10
  <2> QED BY <1>8, <1>9, <1>10, <2>1 DEF QueryType
<1>12. \A m \in Conn : Hopes(query, m) /\ m # k => Hopes(query', m)
  <2> SUFFICES ASSUME NEW m \in Conn, Hopes(query, m), m # k
               PROVE  Hopes(query', m)
    OBVIOUS
  <2>1. m.client \in Clients /\ m = ConnOf(m.client)
    BY HopesMeans
  <2>2. m.client # k.client
    BY <1>8, <2>1
  <2> QED BY <1>11, <2>1, <2>2 DEF Hopes
<1>13. InRx(client.rx, k)
  BY <1>5, <1>6 DEF InRx
<1>14. Pairs'
  <2>1. \A l \in LinkId : \A m \in Conn :
          InUart(uart, m) /\ Awaited(links, query, l, m) => Awaited(links', query', l, m)
    BY <1>1, <1>12, <1>13 DEF Good, Once, Apart, Awaited
  <2> QED BY <1>1, <1>3, <2>1, PairsSaid DEF Good
<1>15. FrameOK' /\ HalfOK' /\ Served'
  BY <1>1, <1>2, <1>4 DEF Good, FrameOK, HalfOK, Served
<1>16. Once'
  <2>1. /\ Len(uart') \in Nat
        /\ \A i \in 1..Len(uart') : uart'[i].kind = "request" => i \in 1..Len(uart) /\ uart'[i] = uart[i]
    BY <1>3, SaidRequests DEF TypeInv
  <2>2. Once /\ Frees
    BY <1>1 DEF Good, Frees
  <2>3. \A m \in Conn : Known(query, m) => Known(query', m)
    <3> SUFFICES ASSUME NEW m \in Conn, Known(query, m)
                 PROVE  Known(query', m)
      OBVIOUS
    <3>1. m.client \in Clients
      BY DEF Conn
    <3> QED BY <1>11, <3>1 DEF Known
  <2>4. \A m \in Conn : ~InRx(client.rx, m) /\ Hopes(query, m) => Hopes(query', m)
    BY <1>12, <1>13
  <2> QED BY <1>1, <2>1, <2>2, <2>3, <2>4, OnceFrees
<1>17. Inboxes'
  <2> SUFFICES ASSUME NEW c \in Clients
               PROVE  /\ ~query'[c].open => query'[c].inbox = <<>>
                      /\ \A i \in 1..Len(query'[c].inbox) : query'[c].inbox[i] = ConnOf(c)'
    BY DEF Inboxes
  <2>1. CASE c # k.client
    <3>1. query'[c] = query[c]
      BY <1>11, <2>1
    <3> QED BY <3>1 DEF Good, Inboxes, ConnOf
  <2>2. CASE c = k.client
    <3>1. query'[c].open /\ query'[c].inbox = <<k>>
      BY <1>8, <1>11, <2>2 DEF Hopes
    <3>2. ConnOf(c)' = k
      BY <1>8, <1>11, <2>2 DEF ConnOf
    <3>3. Len(<<k>>) = 1 /\ <<k>>[1] = k /\ \A i \in 1..1 : i = 1
      OBVIOUS
    <3> QED BY <3>1, <3>2, <3>3
  <2> QED BY <2>1, <2>2
<1> QED BY <1>14, <1>15, <1>16, <1>17 DEF Good

LEMMA ModemGood ==
  ASSUME TypeInv, Sync, Good, Modem
  PROVE  Good'
BY ConfigureGood, StartSendGood, SendAnswerGood DEF Modem

-----------------------------------------------------------------------------
(* The invariant is preserved: what passes between the modem and the       *)
(* processes.                                                              *)

(* The request of a connection that has just been opened is on its way     *)
(* nowhere else, and its process hopes for the answer.                     *)
LEMMA PassGood ==
  ASSUME TypeInv, Good, NEW l \in LinkId, PassRequest(l)
  PROVE  Good'
<1>1. PICK k \in Conn : k = links[l].conn
  BY ConnTyped DEF PassRequest
<1>2. UNCHANGED <<pc, at, client, frame, half, modem, query>>
  BY DEF PassRequest, boardVars
<1>3. /\ links \in [LinkId -> LinkType] /\ links' = [links EXCEPT ![l].asked = TRUE]
      /\ ~links[l].asked /\ links[l] # FreeLink
  BY DEF TypeInv, PassRequest
<1>4. /\ links'[l] = [conn |-> k, asked |-> TRUE]
      /\ \A m \in LinkId : links'[m].conn = links[m].conn
      /\ \A m \in LinkId : m # l => links'[m] = links[m]
  BY <1>1, <1>3 DEF LinkType
<1>5. Hopes(query, k) /\ ~InUart(uart, k) /\ ~InRx(client.rx, k)
  BY <1>1, <1>3 DEF Good, Once, Unasked
<1>6. \A m \in LinkId : \A j \in Conn : Awaited(links, query, m, j) => Awaited(links', query', m, j)
  BY <1>2, <1>3, <1>4, AwaitedMeans DEF Awaited
<1>7. Awaited(links', query', l, k)
  BY <1>2, <1>4, <1>5 DEF Awaited
<1>8. /\ uart' \in Seq(Piece)
      /\ Len(uart') = Len(uart) + 3 /\ Len(uart) \in Nat
      /\ \A i \in 1..Len(uart) : uart'[i] = uart[i]
      /\ uart'[Len(uart) + 1] = Header(l) /\ uart'[Len(uart) + 2] = Length
      /\ uart'[Len(uart) + 3] = Request(k)
  BY <1>1, Passed DEF TypeInv, PassRequest
<1>9. \A i \in 1..Len(uart') :
        i \in 1..Len(uart) \/ i = Len(uart) + 1 \/ i = Len(uart) + 2 \/ i = Len(uart) + 3
  BY <1>8
<1>10. Pairs'
  <2> SUFFICES ASSUME NEW i \in 1..Len(uart'), uart'[i].kind = "header"
               PROVE  /\ Framed(i)'
                      /\ \/ Awaited(links', query', uart'[i].link, uart'[i + 2].conn)
                         \/ Doomed(i)'
    BY DEF Pairs
  <2>1. CASE i \in 1..Len(uart)
    <3>1. Framed(i) /\ (Awaited(links, query, uart[i].link, uart[i + 2].conn) \/ Doomed(i))
      BY <1>8, <2>1 DEF Good, Pairs
    <3>2. /\ i + 1 \in 1..Len(uart) /\ i + 2 \in 1..Len(uart) /\ i + 2 <= Len(uart')
          /\ uart[i + 2].kind = "request"
      BY <1>8, <2>1, <3>1 DEF Framed
    <3>3. Framed(i)' /\ uart'[i + 2] = uart[i + 2] /\ uart'[i] = uart[i]
      BY <1>8, <2>1, <3>1, <3>2 DEF Framed
    <3>4. CASE Doomed(i)
      <4>1. \A j \in 1..i : j \in 1..Len(uart) /\ uart'[j] = uart[j]
        BY <1>8, <2>1
      <4> QED BY <1>2, <3>3, <3>4, <4>1 DEF Doomed
    <3>5. CASE Awaited(links, query, uart[i].link, uart[i + 2].conn)
      <4>1. uart[i] \in Piece /\ uart[i + 2] \in Piece /\ uart[i].kind = "header"
        BY <2>1, <3>2, <3>3, ElementOfSeq DEF TypeInv
      <4>2. uart[i].link \in LinkId /\ uart[i + 2].conn \in Conn
        BY <3>2, <4>1, PieceKinds
      <4> QED BY <1>6, <3>3, <3>5, <4>2
    <3> QED BY <3>1, <3>4, <3>5
  <2>2. CASE i = Len(uart) + 1
    <3>1. i + 2 <= Len(uart') /\ i + 1 = Len(uart) + 2 /\ i + 2 = Len(uart) + 3
      BY <1>8, <2>2
    <3>2. Framed(i)'
      BY <1>8, <3>1, PiecesMade DEF Framed
    <3> QED BY <1>7, <1>8, <2>2, <3>1, <3>2, PiecesMade
  <2>3. CASE i = Len(uart) + 2 \/ i = Len(uart) + 3
    BY <1>8, <2>3, PiecesMade
  <2> QED BY <1>9, <2>1, <2>2, <2>3
<1>11. HalfOK'
  <2>1. ASSUME pc = "poll", NEW h \in half
        PROVE  /\ Len(uart') >= 2 /\ uart'[1].kind = "length" /\ uart'[2].kind = "request"
               /\ Awaited(links', query', h, uart'[2].conn)
    <3>1. /\ Len(uart) >= 2 /\ uart[1].kind = "length" /\ uart[2].kind = "request"
          /\ Awaited(links, query, h, uart[2].conn) /\ h \in LinkId
      BY <2>1 DEF Good, HalfOK, TypeInv, BoardTyped
    <3>2. 1 \in 1..Len(uart) /\ 2 \in 1..Len(uart) /\ Len(uart') >= 2
      BY <1>8, <3>1
    <3>3. uart[2].conn \in Conn
      <4>1. uart[2] \in Piece
        BY <3>2, ElementOfSeq DEF TypeInv
      <4> QED BY <3>1, <4>1, PieceKinds
    <3> QED BY <1>6, <1>8, <3>1, <3>2, <3>3
  <2> QED BY <1>2, <2>1 DEF Good, HalfOK
<1>12. FrameOK'
  <2> SUFFICES ASSUME pc = "poll", frame.phase # "none"
               PROVE  /\ uart' # <<>>
                      /\ uart'[1].kind = "request"
                      /\ frame.phase = "copy" => Awaited(links', query', client.linkId, uart'[1].conn)
    BY <1>2 DEF FrameOK
  <2>1. /\ uart # <<>> /\ uart[1].kind = "request"
        /\ frame.phase = "copy" => Awaited(links, query, client.linkId, uart[1].conn)
    BY DEF Good, FrameOK
  <2>2. uart[1] \in Piece /\ Len(uart) \in Nat \ {0} /\ uart' # <<>>
    <3>1. Len(uart') # 0 /\ Len(<<>>) = 0
      BY <1>8
    <3> QED BY <2>1, <3>1, Taken DEF TypeInv
  <2>3. uart'[1] = uart[1] /\ uart[1].conn \in Conn /\ client.linkId \in LinkId
    BY <1>8, <2>1, <2>2, PieceKinds DEF TypeInv, BoardTyped, ClientType
  <2> QED BY <1>6, <2>1, <2>2, <2>3
<1>13. Served'
  <2>1. client.linkId \in LinkId /\ client.rx \in Seq(Conn)
    BY DEF TypeInv, BoardTyped, ClientType
  <2>2. \A i \in 1..Len(client.rx) : client.rx[i] \in Conn
    BY <2>1, ElementOfSeq
  <2> QED BY <1>2, <1>6, <2>1, <2>2 DEF Good, Served
<1>14. \A j \in Conn : InUart(uart', j) => InUart(uart, j) \/ j = k
  <2> SUFFICES ASSUME NEW j \in Conn, NEW i \in 1..Len(uart'), uart'[i] = Request(j)
               PROVE  InUart(uart, j) \/ j = k
    BY DEF InUart
  <2>1. uart'[i].kind = "request" /\ uart'[i].conn = j
    BY PiecesMade
  <2>2. CASE i \in 1..Len(uart)
    BY <1>8, <2>2 DEF InUart
  <2> QED BY <1>8, <1>9, <2>1, <2>2, PiecesMade
<1>15. Once'
  <2>1. OneLink'
    <3> SUFFICES ASSUME NEW m \in LinkId, NEW n \in LinkId, links'[m] # FreeLink,
                        links'[m].conn = links'[n].conn
                 PROVE  m = n
      BY DEF OneLink
    <3>1. links[m] # FreeLink /\ links[m].conn = links[n].conn
      BY <1>3, <1>4
    <3> QED BY <3>1 DEF Good, Once, OneLink
  <2>2. OneRequest'
    <3> SUFFICES ASSUME NEW i \in 1..Len(uart'), NEW j \in 1..Len(uart'),
                        uart'[i].kind = "request", uart'[i] = uart'[j]
                 PROVE  i = j
      BY DEF OneRequest
    <3>1. /\ i # Len(uart) + 1 /\ j # Len(uart) + 1
          /\ i # Len(uart) + 2 /\ j # Len(uart) + 2
      BY <1>8, PiecesMade
    <3>2. \A h \in 1..Len(uart) : uart'[h] # Request(k)
      BY <1>5, <1>8 DEF InUart
    <3>3. CASE i \in 1..Len(uart) /\ j \in 1..Len(uart)
      BY <1>8, <3>3 DEF Good, Once, OneRequest
    <3> QED BY <1>8, <1>9, <3>1, <3>2, <3>3
  <2>3. Apart'
    BY <1>2, <1>5, <1>14 DEF Good, Once, Apart
  <2>4. Unasked'
    <3> SUFFICES ASSUME NEW m \in LinkId, links'[m] # FreeLink, ~links'[m].asked
                 PROVE  /\ Hopes(query, links'[m].conn)
                        /\ ~InUart(uart', links'[m].conn)
                        /\ ~InRx(client.rx, links'[m].conn)
      BY <1>2 DEF Unasked
    <3>1. m # l /\ links'[m] = links[m]
      BY <1>4
    <3>2. links[m].conn \in Conn /\ links[m].conn # k
      BY <1>1, <3>1, ConnTyped DEF Good, Once, OneLink
    <3>3. /\ Hopes(query, links[m].conn)
          /\ ~InUart(uart, links[m].conn) /\ ~InRx(client.rx, links[m].conn)
      BY <3>1 DEF Good, Once, Unasked
    <3> QED BY <1>14, <3>1, <3>2, <3>3
  <2>5. AllKnown'
    <3>1. \A j \in Conn : OnLink(links', j) => OnLink(links, j)
      BY <1>4 DEF OnLink
    <3>2. OnLink(links, k)
      BY <1>1 DEF OnLink
    <3> QED BY <1>2, <1>14, <3>1, <3>2 DEF Good, Once, AllKnown
  <2> QED BY <2>1, <2>2, <2>3, <2>4, <2>5 DEF Once
<1>16. Inboxes'
  BY <1>2, InboxesKept DEF Good
<1> QED BY <1>10, <1>11, <1>12, <1>13, <1>15, <1>16 DEF Good

(* What the board and the modem know stays true when no connection whose   *)
(* request is on its way, or is served, loses its link or its hope.        *)
LEMMA KeptGood ==
  ASSUME TypeInv, Good, UNCHANGED <<boardVars, uart, modem>>,
         \A l \in LinkId : \A k \in Conn :
           Awaited(links, query, l, k) /\ (InUart(uart, k) \/ (client.active /\ InRx(client.rx, k))) =>
             Awaited(links', query', l, k)
  PROVE  Pairs' /\ FrameOK' /\ HalfOK' /\ Served'
<1>1. UNCHANGED <<pc, at, client, frame, half, uart, modem>>
  BY DEF boardVars
<1>2. uart \in Seq(Piece) /\ client.linkId \in LinkId /\ client.rx \in Seq(Conn)
  BY DEF TypeInv, BoardTyped, ClientType
<1>3. Len(uart) \in Nat /\ Len(client.rx) \in Nat
  BY <1>2, LenProperties
<1>4. \A i \in 1..Len(uart) : uart[i] \in Piece
  BY <1>2, ElementOfSeq
<1>5. \A i \in 1..Len(uart) : uart[i].kind = "request" =>
        uart[i].conn \in Conn /\ InUart(uart, uart[i].conn)
  BY <1>4, PieceKinds DEF InUart
<1>6. Pairs'
  <2> SUFFICES ASSUME NEW i \in 1..Len(uart), uart[i].kind = "header"
               PROVE  /\ Framed(i)
                      /\ Awaited(links', query', uart[i].link, uart[i + 2].conn) \/ Doomed(i)
    BY <1>1 DEF Pairs, Framed, Doomed
  <2>1. Framed(i) /\ (Awaited(links, query, uart[i].link, uart[i + 2].conn) \/ Doomed(i))
    BY DEF Good, Pairs
  <2>2. i + 2 \in 1..Len(uart) /\ uart[i + 2].kind = "request"
    BY <1>3, <2>1 DEF Framed
  <2>3. uart[i].link \in LinkId
    BY <1>4, PieceKinds
  <2> QED BY <1>5, <2>1, <2>2, <2>3
<1>7. HalfOK'
  <2>1. ASSUME pc = "poll", NEW h \in half
        PROVE  /\ Len(uart) >= 2 /\ uart[1].kind = "length" /\ uart[2].kind = "request"
               /\ Awaited(links', query', h, uart[2].conn)
    <3>1. /\ Len(uart) >= 2 /\ uart[1].kind = "length" /\ uart[2].kind = "request"
          /\ Awaited(links, query, h, uart[2].conn) /\ h \in LinkId
      BY <2>1 DEF Good, HalfOK, TypeInv, BoardTyped
    <3>2. 2 \in 1..Len(uart)
      BY <1>3, <3>1
    <3> QED BY <1>5, <3>1, <3>2
  <2> QED BY <1>1, <2>1 DEF Good, HalfOK
<1>8. FrameOK'
  <2> SUFFICES ASSUME pc = "poll", frame.phase # "none"
               PROVE  /\ uart # <<>> /\ uart[1].kind = "request"
                      /\ frame.phase = "copy" => Awaited(links', query', client.linkId, uart[1].conn)
    BY <1>1 DEF FrameOK
  <2>1. /\ uart # <<>> /\ uart[1].kind = "request"
        /\ frame.phase = "copy" => Awaited(links, query, client.linkId, uart[1].conn)
    BY DEF Good, FrameOK
  <2>2. Len(uart) \in Nat \ {0} /\ 1 \in 1..Len(uart)
    BY <1>2, <1>3, <2>1, Taken
  <2> QED BY <1>2, <1>5, <2>1, <2>2
<1>9. Served'
  <2> SUFFICES ASSUME client.active, pc # "wait" \/ at.op = "CIPSEND" \/ modem.job = "Sending",
                      NEW i \in 1..Len(client.rx)
               PROVE  Awaited(links', query', client.linkId, client.rx[i])
    BY <1>1 DEF Served
  <2>1. Awaited(links, query, client.linkId, client.rx[i])
    BY DEF Good, Served
  <2>2. client.rx[i] \in Conn /\ InRx(client.rx, client.rx[i])
    BY <1>2, ElementOfSeq DEF InRx
  <2> QED BY <1>2, <2>1, <2>2
<1> QED BY <1>6, <1>7, <1>8, <1>9

LEMMA PeerClosesGood ==
  ASSUME TypeInv, Good, NEW l \in LinkId, PeerCloses(l)
  PROVE  Good'
<1>1. /\ UNCHANGED <<boardVars, uart, modem, query>>
      /\ links \in [LinkId -> LinkType] /\ links' = [links EXCEPT ![l] = FreeLink]
      /\ ~PeerOpen(links[l].conn)
  BY DEF PeerCloses, TypeInv
<1>2. \A m \in LinkId : \A k \in Conn : Awaited(links, query, m, k) => Awaited(links', query', m, k)
  <2> SUFFICES ASSUME NEW m \in LinkId, NEW k \in Conn, Awaited(links, query, m, k)
               PROVE  Awaited(links', query', m, k)
    OBVIOUS
  <2>1. links[m].conn = k /\ PeerOpen(k)
    BY AwaitedMeans, HopesMeans
  <2>2. m # l
    BY <1>1, <2>1
  <2> QED BY <1>1, <2>2 DEF Awaited
<1>3. Pairs' /\ FrameOK' /\ HalfOK' /\ Served'
  BY <1>1, <1>2, KeptGood
<1>4. Once'
  <2>1. Frees /\ Once /\ client' = client /\ uart' = uart /\ query' = query
    BY <1>1 DEF Frees, Good, boardVars
  <2>2. Len(uart') \in Nat
    BY <2>1, LenProperties DEF TypeInv
  <2> QED BY <2>1, <2>2, OnceFrees
<1>5. Inboxes'
  BY <1>1, InboxesKept DEF Good
<1> QED BY <1>3, <1>4, <1>5 DEF Good

-----------------------------------------------------------------------------
(* The invariant is preserved: the processes.                              *)

LEMMA AttemptsTyped ==
  /\ \A q \in QueryType : q.attempt \in Nat
  /\ \A k \in Conn : k.attempt \in Nat
<1>1. 1..RetryCount \subseteq Nat
  BY RetryAssumption
<1> QED BY <1>1 DEF QueryType, Conn

LEMMA ConnectGood ==
  ASSUME TypeInv, Good, NEW c \in Clients, Connect(c)
  PROVE  Good'
<1>1. /\ UNCHANGED <<boardVars, uart, modem>> /\ client' = client
      /\ query \in [Clients -> QueryType] /\ query' = [query EXCEPT ![c].open = TRUE]
      /\ ~query[c].open /\ query[c].stage \in {"READ_ADC", "READ_TEMP"}
      /\ links \in [LinkId -> LinkType]
  BY DEF Connect, Asking, TypeInv, QueryTyped, boardVars
<1>2. PICK k \in Conn : k = ConnOf(c)
  BY <1>1 DEF ConnOf, Conn, QueryType
<1>3. k.client = c /\ k.cmd = query[c].stage /\ k.attempt = query[c].attempt
  BY <1>2 DEF ConnOf
<1>4. PICK l \in LinkId : /\ links[l] = FreeLink
                          /\ links' = [links EXCEPT ![l] = [conn |-> k, asked |-> FALSE]]
  BY <1>2 DEF Connect
<1>5. /\ query'[c].open /\ query'[c].stage = query[c].stage
      /\ query'[c].attempt = query[c].attempt /\ query'[c].inbox = <<>>
      /\ \A d \in Clients : d # c => query'[d] = query[d]
  BY <1>1 DEF QueryType, Good, Inboxes
<1>6. ~Known(query, k)
  <2>1. query[c].attempt \in Nat
    BY <1>1, AttemptsTyped
  <2>2. ~(query[c].attempt < query[c].attempt)
    BY <2>1
  <2> QED BY <1>1, <1>3, <2>2 DEF Known
<1>7. ~InUart(uart, k) /\ ~InRx(client.rx, k) /\ ~OnLink(links, k)
  BY <1>6 DEF Good, Once, AllKnown
<1>8. \A j \in Conn : Hopes(query, j) => Hopes(query', j)
  BY <1>1, <1>5 DEF Hopes
<1>9. Hopes(query', k)
  BY <1>3, <1>5 DEF Hopes
<1>10. /\ links'[l] = [conn |-> k, asked |-> FALSE]
       /\ \A m \in LinkId : m # l => links'[m] = links[m]
  BY <1>1, <1>4
<1>11. \A m \in LinkId : \A j \in Conn : Awaited(links, query, m, j) => Awaited(links', query', m, j)
  BY <1>4, <1>8, <1>10, AwaitedMeans DEF Awaited
<1>12. Pairs' /\ FrameOK' /\ HalfOK' /\ Served'
  BY <1>1, <1>11, KeptGood
<1>13. Once'
  <2>1. OneLink'
    <3> SUFFICES ASSUME NEW m \in LinkId, NEW n \in LinkId, links'[m] # FreeLink,
                        links'[m].conn = links'[n].conn
                 PROVE  m = n
      BY DEF OneLink
    <3>1. CASE m = l
      BY <1>7, <1>10, <3>1 DEF OnLink
    <3>2. CASE m # l /\ n = l
      BY <1>7, <1>10, <3>2 DEF OnLink
    <3>3. CASE m # l /\ n # l
      BY <1>10, <3>3 DEF Good, Once, OneLink
    <3> QED BY <3>1, <3>2, <3>3
  <2>2. OneRequest' /\ Apart'
    BY <1>1 DEF Good, Once, OneRequest, Apart
  <2>3. Unasked'
    <3> SUFFICES ASSUME NEW m \in LinkId, links'[m] # FreeLink, ~links'[m].asked
                 PROVE  /\ Hopes(query', links'[m].conn)
                        /\ ~InUart(uart, links'[m].conn)
                        /\ ~InRx(client.rx, links'[m].conn)
      BY <1>1 DEF Unasked
    <3>1. CASE m = l
      BY <1>7, <1>9, <1>10, <3>1
    <3>2. CASE m # l
      <4>1. links'[m] = links[m] /\ links[m].conn \in Conn
        BY <1>10, <3>2, ConnTyped
      <4> QED BY <1>8, <4>1 DEF Good, Once, Unasked
    <3> QED BY <3>1, <3>2
  <2>4. AllKnown'
    <3>1. \A j \in Conn : OnLink(links', j) => OnLink(links, j) \/ j = k
      BY <1>10 DEF OnLink
    <3>2. \A j \in Conn : Known(query, j) => Known(query', j)
      <4> SUFFICES ASSUME NEW j \in Conn, Known(query, j)
                   PROVE  Known(query', j)
        OBVIOUS
      <4>1. j.client \in Clients
        BY DEF Conn
      <4> QED BY <1>1, <1>5, <4>1 DEF Known
    <3>3. Known(query', k)
      BY <1>3, <1>5 DEF Known
    <3> QED BY <1>1, <3>1, <3>2, <3>3 DEF Good, Once, AllKnown
  <2> QED BY <2>1, <2>2, <2>3, <2>4 DEF Once
<1>14. Inboxes'
  <2> SUFFICES ASSUME NEW d \in Clients
               PROVE  /\ ~query'[d].open => query'[d].inbox = <<>>
                      /\ \A i \in 1..Len(query'[d].inbox) : query'[d].inbox[i] = ConnOf(d)'
    BY DEF Inboxes
  <2>1. CASE d # c
    BY <1>5, <2>1 DEF Good, Inboxes, ConnOf
  <2>2. CASE d = c
    <3>1. Len(<<>>) = 0 /\ 1..0 = {}
      OBVIOUS
    <3> QED BY <1>5, <2>2, <3>1
  <2> QED BY <2>1, <2>2
<1> QED BY <1>12, <1>13, <1>14 DEF Good

(* A process that gets its answer or gives an attempt up: its connection,  *)
(* if it is still there, has nothing on its way and is not served.         *)
LEMMA MovesOnGood ==
  ASSUME TypeInv, Good, UNCHANGED <<boardVars, uart, modem, links>>,
         NEW c \in Clients, NEW q \in QueryType, query' = [query EXCEPT ![c] = q], q.inbox = <<>>,
         \A l \in LinkId : \A k \in Conn :
           Awaited(links, query, l, k) /\ (InUart(uart, k) \/ (client.active /\ InRx(client.rx, k))) =>
             k.client # c,
         \A l \in LinkId : \A k \in Conn :
           links[l].conn = k /\ ~links[l].asked /\ Hopes(query, k) => k.client # c,
         \A k \in Conn : k.client = c /\ Known(query, k) => Known(query', k)
  PROVE  Good'
<1>1. query \in [Clients -> QueryType] /\ client' = client /\ uart' = uart /\ links' = links
  BY DEF TypeInv, QueryTyped, boardVars
<1>2. query'[c] = q /\ \A d \in Clients : d # c => query'[d] = query[d]
  BY <1>1
<1>3. \A k \in Conn : Hopes(query, k) /\ k.client # c => Hopes(query', k)
  BY <1>2 DEF Hopes
<1>4. Pairs' /\ FrameOK' /\ HalfOK' /\ Served'
  <2>1. \A l \in LinkId : \A k \in Conn :
          Awaited(links, query, l, k) /\ (InUart(uart, k) \/ (client.active /\ InRx(client.rx, k))) =>
            Awaited(links', query', l, k)
    BY <1>1, <1>3 DEF Awaited
  <2> QED BY <2>1, KeptGood
<1>5. Once'
  <2>1. Frees /\ Once /\ Len(uart') \in Nat
    BY <1>1, LenProperties DEF Frees, Good, TypeInv
  <2>2. \A k \in Conn : Known(query, k) => Known(query', k)
    <3> SUFFICES ASSUME NEW k \in Conn, Known(query, k), k.client # c
                 PROVE  Known(query', k)
      OBVIOUS
    <3>1. k.client \in Clients
      BY DEF Conn
    <3> QED BY <1>2, <3>1 DEF Known
  <2> QED BY <1>1, <1>3, <2>1, <2>2, OnceFrees
<1>6. Inboxes'
  <2> SUFFICES ASSUME NEW d \in Clients
               PROVE  /\ ~query'[d].open => query'[d].inbox = <<>>
                      /\ \A i \in 1..Len(query'[d].inbox) : query'[d].inbox[i] = ConnOf(d)'
    BY DEF Inboxes
  <2>1. CASE d # c
    BY <1>2, <2>1 DEF Good, Inboxes, ConnOf
  <2>2. CASE d = c
    <3>1. Len(<<>>) = 0 /\ 1..0 = {}
      OBVIOUS
    <3> QED BY <1>2, <2>2, <3>1
  <2> QED BY <2>1, <2>2
<1> QED BY <1>4, <1>5, <1>6 DEF Good

LEMMA FailGood ==
  ASSUME TypeInv, setting.timely, Good, NEW c \in Clients, ConnectFails(c) \/ EndOfFile(c) \/ GiveUp(c)
  PROVE  Good'
<1>1. /\ UNCHANGED <<boardVars, uart, modem, links>> /\ AttemptFails(c)
      /\ query \in [Clients -> QueryType]
  BY DEF ConnectFails, EndOfFile, GiveUp, TypeInv, QueryTyped
<1>2. PICK q \in QueryType : q = Failed(query[c])
  BY <1>1, FailedTyped
<1>3. /\ query' = [query EXCEPT ![c] = q] /\ q.inbox = <<>>
      /\ \/ q.stage = query[c].stage /\ q.attempt = query[c].attempt + 1
         \/ q.stage \in {"gave up", "saved"}
  BY <1>1, <1>2, FailedTyped
<1>4. \A k \in Conn : Hopes(query, k) /\ k.client = c => query[c].open /\ k = ConnOf(c)
  BY HopesMeans DEF Hopes
<1>5. ASSUME NEW l \in LinkId, NEW k \in Conn, Awaited(links, query, l, k),
             InUart(uart, k) \/ (client.active /\ InRx(client.rx, k)), k.client = c
      PROVE  FALSE
  <2>1. links[l].conn = k /\ query[c].open /\ k = ConnOf(c)
    BY <1>4, <1>5, AwaitedMeans
  <2>2. CASE EndOfFile(c)
    BY <2>1, <2>2 DEF EndOfFile, LinkOf
  <2>3. CASE GiveUp(c)
    <3>1. uart = <<>> /\ ~client.active
      BY <2>3 DEF GiveUp
    <3>2. Len(<<>>) = 0 /\ 1..0 = {}
      OBVIOUS
    <3> QED BY <1>5, <3>1, <3>2 DEF InUart
  <2> QED BY <2>1, <2>2, <2>3 DEF ConnectFails
<1>6. ASSUME NEW l \in LinkId, NEW k \in Conn, links[l].conn = k, ~links[l].asked,
             Hopes(query, k), k.client = c
      PROVE  FALSE
  BY <1>4, <1>6 DEF ConnectFails, EndOfFile, GiveUp, LinkOf
<1>7. ASSUME NEW k \in Conn, k.client = c, Known(query, k)
      PROVE  Known(query', k)
  <2>1. query'[c] = q
    BY <1>1, <1>3
  <2>2. CASE q.stage \in {"gave up", "saved"}
    BY <1>7, <2>1, <2>2 DEF Known
  <2>3. CASE q.stage = query[c].stage /\ q.attempt = query[c].attempt + 1
    <3>1. query[c].attempt \in Nat /\ k.attempt \in Nat
      BY <1>1, AttemptsTyped
    <3>2. k.attempt <= query[c].attempt => k.attempt < q.attempt
      BY <2>3, <3>1
    <3>3. k.attempt < query[c].attempt => k.attempt <= query[c].attempt
      BY <3>1
    <3>4. k.attempt = query[c].attempt => k.attempt <= query[c].attempt
      BY <3>1
    <3> QED BY <1>7, <2>1, <2>3, <3>2, <3>3, <3>4 DEF Known
  <2> QED BY <1>3, <2>2, <2>3
<1> QED BY <1>1, <1>3, <1>5, <1>6, <1>7, MovesOnGood

(* The answer it receives is its own: it takes it. *)
LEMMA ReceiveGood ==
  ASSUME TypeInv, Good, NEW c \in Clients, Receive(c)
  PROVE  Good'
<1>1. /\ UNCHANGED <<boardVars, uart, modem, links>>
      /\ query \in [Clients -> QueryType] /\ query[c].attempt <= setting.attempts
      /\ query[c] \in QueryType /\ query[c].inbox \in Seq(Answers)
      /\ query[c].open /\ query[c].inbox # <<>>
  BY DEF Receive, TypeInv, QueryTyped, QueryType
<1>2. Head(query[c].inbox) = query[c].inbox[1] /\ Len(query[c].inbox) \in Nat \ {0}
  BY <1>1, EmptySeq
<1>3. Head(query[c].inbox) = ConnOf(c)
  BY <1>2 DEF Good, Inboxes
<1>4. PICK answer \in Answers : answer = Head(query[c].inbox)
  BY <1>1, HeadTailProperties
<1>5. answer.cmd = query[c].stage
  BY <1>3, <1>4 DEF ConnOf
<1>6. PICK q \in QueryType : q = Received(query[c], answer)
  BY <1>1, ReceivedTyped
<1>7. query' = [query EXCEPT ![c] = q]
  BY <1>4, <1>6 DEF Receive
<1>8. /\ q.inbox = <<>>
      /\ query[c].stage = "READ_ADC" => q.stage = "READ_TEMP"
      /\ query[c].stage # "READ_ADC" => q.stage = "saved"
  <2>1. \/ /\ query[c].stage = "READ_ADC"
           /\ q = [query[c] EXCEPT !.stage = "READ_TEMP", !.attempt = 1,
                                   !.open = FALSE, !.inbox = <<>>, !.adc = answer]
        \/ /\ query[c].stage # "READ_ADC"
           /\ q = [query[c] EXCEPT !.stage = "saved", !.open = FALSE,
                                   !.inbox = <<>>, !.temp = answer]
    BY <1>1, <1>5, <1>6, ReceivedTyped
  <2> QED BY <1>1, <2>1 DEF QueryType
<1>9. \A k \in Conn : Hopes(query, k) => k.client # c
  BY <1>1 DEF Hopes
<1>10. ASSUME NEW k \in Conn, k.client = c, Known(query, k)
       PROVE  Known(query', k)
  <2>1. query'[c] = q
    BY <1>1, <1>7
  <2>2. CASE query[c].stage = "READ_ADC"
    BY <1>8, <1>10, <2>1, <2>2 DEF Known
  <2>3. CASE query[c].stage # "READ_ADC"
    BY <1>8, <1>10, <2>1, <2>3 DEF Known
  <2> QED BY <2>2, <2>3
<1>11. \A l \in LinkId : \A k \in Conn : Awaited(links, query, l, k) => k.client # c
  BY <1>9 DEF Awaited
<1> QED BY <1>1, <1>7, <1>8, <1>9, <1>10, <1>11, MovesOnGood

LEMMA ProcessGood ==
  ASSUME TypeInv, setting.timely, Good, NEW c \in Clients, Process(c)
  PROVE  Good'
BY ConnectGood, FailGood, ReceiveGood DEF Process

-----------------------------------------------------------------------------
LEMMA SettingKept == [Next]_vars => setting' = setting
BY DEF Next, vars, CheckWifi, Board, Modem, PassRequest, PeerCloses, Process, Connect, ConnectFails,
       Receive, EndOfFile, GiveUp, boardVars

LEMMA StepGood == TypeInv /\ TimelyInv /\ [Next]_vars => TimelyInv'
<1> SUFFICES ASSUME TypeInv, setting.timely, Sync, ~setting.tears, Good, [Next]_vars
             PROVE  Good'
  BY SettingKept, SyncStep DEF TimelyInv
<1>1. CASE CheckWifi
  BY <1>1, CheckWifiGood
<1>2. CASE Board
  BY <1>2, BoardGood
<1>3. CASE Modem
  BY <1>3, ModemGood
<1>4. CASE \E l \in LinkId : PassRequest(l) \/ PeerCloses(l)
  BY <1>4, PassGood, PeerClosesGood
<1>5. CASE \E c \in Clients : Process(c)
  BY <1>5, ProcessGood
<1>6. CASE UNCHANGED vars
  BY <1>6 DEF vars, Good, Pairs, Framed, Doomed, FrameOK, HalfOK, Served, Once, OneLink, OneRequest,
              Apart, Unasked, AllKnown, Inboxes, ConnOf
<1> QED BY <1>1, <1>2, <1>3, <1>4, <1>5, <1>6 DEF Next

LEMMA InitGood == Init => TimelyInv
<1> SUFFICES ASSUME Init PROVE Sync /\ Good
  BY DEF TimelyInv
<1>1. /\ Len(<<>>) = 0 /\ 1..0 = {} /\ uart = <<>> /\ pc = "poll" /\ at.op = "none"
      /\ modem.job = "idle" /\ \A l \in LinkId : links[l] = FreeLink
  BY NoCommandTyped DEF Init
<1>2. client.rx = <<>> /\ ~client.active /\ frame.phase = "none" /\ half = {}
  BY DEF Init, FS!FSInit, FS!NoClient, FS!NoFrame
<1>3. Sync
  BY <1>1, <1>2, RepliesEmptied DEF Sync, Commands
<1>4. Pairs /\ FrameOK /\ HalfOK /\ Served
  BY <1>1, <1>2 DEF Pairs, FrameOK, HalfOK, Served
<1>5. Once
  BY <1>1, <1>2, FreeTyped, NobodyAsked
     DEF Once, OneLink, OneRequest, Apart, Unasked, AllKnown, InUart, InRx, OnLink
<1>6. Inboxes
  BY <1>1 DEF Init, Inboxes
<1> QED BY <1>3, <1>4, <1>5, <1>6 DEF Good

LEMMA TimelyInvariance == Spec => [](TypeInv /\ TimelyInv)
BY InitTyped, StepTyped, InitGood, StepGood, PTL DEF Spec

(* If nobody gives up early and no check of the WiFi connection begins     *)
(* when half a header has been read, an answer reaches the connection that *)
(* asked: the length and the request follow their header, what a           *)
(* sendCommand() leaves of a frame is garbage to the parser, and no link   *)
(* changes hands between PassRequest and SendAnswer, although the modem,   *)
(* the processes and earlier AT+CIPCLOSEs free and reuse links.            *)
THEOREM OwnAnswersHold == Spec => []OwnAnswers
<1>1. TypeInv /\ TimelyInv => OwnAnswers
  <2> SUFFICES ASSUME TypeInv, Inboxes PROVE AnswersTheAsker
    BY DEF TimelyInv, Good, OwnAnswers
  <2>1. \A c \in Clients : DOMAIN query[c].inbox = 1..Len(query[c].inbox)
    BY LenProperties DEF TypeInv, QueryTyped, QueryType
  <2> QED BY <2>1 DEF Inboxes, AnswersTheAsker
<1> QED BY <1>1, TimelyInvariance, PTL

(* If nobody gives up early, the modem is ready for the next command       *)
(* whenever loop() is ready for the next connection: a prompt that a       *)
(* second request hid from flush() does not outlive closeClient(), be      *)
(* headers torn by the WiFi check or not.                                  *)
THEOREM ModemReadyHolds == Spec => []ModemReady
<1>1. TypeInv /\ TimelyInv => ModemReady
  BY Busy DEF TimelyInv, ModemReady
<1> QED BY <1>1, TimelyInvariance, PTL

=============================================================================
