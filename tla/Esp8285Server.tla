---------------------------- MODULE Esp8285Server ----------------------------
(***************************************************************************)
(* The hand-written "+IPD,<link_id>,<length>:<data>" parser of             *)
(* Esp8285Server.cpp, byte by byte, with the served connection             *)
(* (Esp8285ServerClient) and the order in which main.cpp's loop() calls    *)
(* them.                                                                   *)
(*                                                                         *)
(* The UART is the part of it the parser sees: the rest of the message the *)
(* modem is sending.  Every AT command of the firmware first throws away   *)
(* what is waiting in the UART and then reads everything up to its own     *)
(* answer, so after a command the parser goes on with any suffix of what   *)
(* the modem sent: the tail of the message it was in, or of a later one.   *)
(* Message bytes are the ASCII codes the code compares with.               *)
(***************************************************************************)
EXTENDS Integers, Sequences, FiniteSets

CONSTANTS
  Messages,   \* what the modem may send: [bytes, link, payload], see MessagesAssumption
  BufSize,    \* Esp8285ServerClient::BUF_SIZE (32 in the code)
  LinkMod,    \* modulus of the uint8_t link ids (256 in the code)
  LenMod,     \* modulus of the uint32_t counters (2^32 in the code)
  WriteSizes  \* the sizes handed to write(): sendResponse() writes byte by byte, {1}

Byte == 0..255

PLUS  == 43
COMMA == 44
COLON == 58
ZERO  == 48
NINE  == 57

IPD_PREFIX == <<PLUS, 73, 80, 68, COMMA>>   \* "+IPD,"
IPD_PREFIX_LEN == 5

IsDigit(c) == c \in ZERO..NINE

ASSUME BufSizeAssumption == BufSize \in Nat \ {0}
ASSUME WidthAssumption   == LinkMod \in Nat \ {0} /\ LenMod \in Nat \ {0}
ASSUME WriteSizesAssumption == WriteSizes \subseteq Nat \ {0}

(* A message is a status line (payload = 0) or a frame whose last         *)
(* "payload" bytes are data of connection "link".                          *)
ASSUME MessagesAssumption ==
  Messages \subseteq [bytes : Seq(Byte), link : Nat, payload : Nat]

(* A header ends in a comma and a colon at these positions. *)
HeaderOf(m, comma, colon) ==
  /\ IPD_PREFIX_LEN < comma /\ comma < colon
  /\ colon + m.payload = Len(m.bytes)
  /\ \A i \in 1..IPD_PREFIX_LEN : m.bytes[i] = IPD_PREFIX[i]
  /\ m.bytes[comma] = COMMA
  /\ m.bytes[colon] = COLON

(* The values the digits between two positions add up to, one by one: one  *)
(* function, if they are digits and the number has the given width.        *)
Digits(m, before, last, mod) ==
  {v \in [before..last -> 0..(mod - 1)] :
     /\ v[before] = 0
     /\ \A i \in (before + 1)..last :
          IsDigit(m.bytes[i]) /\ v[i] = v[i - 1] * 10 + (m.bytes[i] - ZERO)}

IsFrame(m) ==
  \E comma, colon \in 1..Len(m.bytes) :
    /\ HeaderOf(m, comma, colon)
    /\ \E v \in Digits(m, IPD_PREFIX_LEN, comma - 1, LinkMod) : v[comma - 1] = m.link
    /\ \E v \in Digits(m, comma, colon - 1, LenMod) : v[colon - 1] = m.payload

(* What the modem sends by itself is well-formed frames, and status lines  *)
(* ("1,CLOSED", "WIFI GOT IP") that have no colon.                         *)
ASSUME FramesAssumption ==
  \A m \in Messages :
    IF m.payload = 0 THEN \A i \in 1..Len(m.bytes) : m.bytes[i] # COLON ELSE IsFrame(m)

VARIABLES
  ipd,      \* g_state, g_matchPos, g_incomingLinkId, g_payloadLen, g_payloadRemaining
  client,   \* the Esp8285ServerClient main.cpp polls
  phase,    \* where loop() is: "poll", "respond" (sendResponse), "close" (closeClient)
  msg,      \* the message the modem is sending, or sent last
  wire,     \* the bytes of it the firmware has not read yet
  whole,    \* the parser, not counting a payload, is fed msg from its first byte
  clean     \* ... and so was every message since the one that elected the served connection

vars == <<ipd, client, phase, msg, wire, whole, clean>>

NoMessage == [bytes |-> <<>>, link |-> 0, payload |-> 0]

NoClient == [active |-> FALSE, linkId |-> 0, rx |-> <<>>, head |-> 0, txLen |-> 0]

(* A connection that was just elected: reset(), then _active and _linkId. *)
Serving(l) == [active |-> TRUE, linkId |-> l, rx |-> <<>>, head |-> 0, txLen |-> 0]

Init ==
  /\ ipd = [state |-> "ScanForIpd", matchPos |-> 0, linkId |-> 0,
            payloadLen |-> 0, remaining |-> 0]
  /\ client = NoClient
  /\ phase = "poll"
  /\ msg = NoMessage
  /\ wire = <<>>
  /\ whole = TRUE
  /\ clean = FALSE

-----------------------------------------------------------------------------
InPayload == ipd.state \in {"CopyPayload", "DiscardPayload"}

(* The modem starts its next message once the last one has been read. *)
ModemSend(m) ==
  /\ wire = <<>>
  /\ msg' = m
  /\ wire' = m.bytes
  /\ whole' = ~InPayload
  /\ clean' = (clean /\ ~InPayload)
  /\ UNCHANGED <<ipd, client, phase>>

(* An AT command: the waiting bytes are thrown away and the answer is read *)
(* by somebody else.  What the parser sees next is any suffix of msg, or   *)
(* of a message that came later; a shorter rest of msg is one of them.     *)
Eaten ==
  \E m \in Messages \cup {msg} :
    \E k \in 0..Len(m.bytes) :
      /\ msg' = m
      /\ wire' = SubSeq(m.bytes, k + 1, Len(m.bytes))

-----------------------------------------------------------------------------
(* Mutant: the '+' that could begin the next header is forgotten. *)
RestartForgetsPlus(c) == [ipd EXCEPT !.state = "ScanForIpd", !.matchPos = 0]

(* An unexpected byte restarts the search, remembering a '+'. *)
Restart(c) == [ipd EXCEPT !.state = "ScanForIpd",
                          !.matchPos = IF c = PLUS THEN 1 ELSE 0]

ScanForIpd(c) ==
  /\ ipd.state = "ScanForIpd"
  /\ ipd' = IF c # IPD_PREFIX[ipd.matchPos + 1] THEN Restart(c)
            ELSE IF ipd.matchPos + 1 = IPD_PREFIX_LEN
                 THEN [ipd EXCEPT !.state = "ReadLinkId", !.linkId = 0, !.matchPos = 0]
                 ELSE [ipd EXCEPT !.matchPos = @ + 1]
  /\ UNCHANGED client

(* Mutant: the link id is not cut to its eight bits. *)
ReadLinkIdWide(c) ==
  /\ ipd.state = "ReadLinkId"
  /\ ipd' = IF IsDigit(c) THEN [ipd EXCEPT !.linkId = @ * 10 + (c - ZERO)]
            ELSE IF c = COMMA THEN [ipd EXCEPT !.state = "ReadLength", !.payloadLen = 0]
            ELSE Restart(c)
  /\ UNCHANGED client

ReadLinkId(c) ==
  /\ ipd.state = "ReadLinkId"
  /\ ipd' = IF IsDigit(c) THEN [ipd EXCEPT !.linkId = (@ * 10 + (c - ZERO)) % LinkMod]
            ELSE IF c = COMMA THEN [ipd EXCEPT !.state = "ReadLength", !.payloadLen = 0]
            ELSE Restart(c)
  /\ UNCHANGED client

ReadLength(c) ==
  /\ ipd.state = "ReadLength"
  /\ c # COLON
  /\ ipd' = IF IsDigit(c)
            THEN [ipd EXCEPT !.payloadLen = (@ * 10 + (c - ZERO)) % LenMod]
            ELSE Restart(c)
  /\ UNCHANGED client

(* Mutant: a frame always elects its own connection. *)
StartPayloadTakesOver(c) ==
  /\ ipd.state = "ReadLength"
  /\ c = COLON
  /\ client' = Serving(ipd.linkId)
  /\ ipd' = [ipd EXCEPT !.state = IF ipd.payloadLen = 0 THEN "ScanForIpd" ELSE "CopyPayload",
                        !.remaining = ipd.payloadLen]

(* Mutant: a second connection's payload is stored like the served one's. *)
StartPayloadStoresAll(c) ==
  /\ ipd.state = "ReadLength"
  /\ c = COLON
  /\ client' = IF client.active
               THEN client
               ELSE Serving(ipd.linkId)
  /\ ipd' = [ipd EXCEPT !.state = IF ipd.payloadLen = 0 THEN "ScanForIpd" ELSE "CopyPayload",
                        !.remaining = ipd.payloadLen]

(* The ':' ends the header: the first frame of an idle server elects the   *)
(* connection to serve.                                                    *)
StartPayload(c) ==
  LET served == IF client.active
                THEN client
                ELSE Serving(ipd.linkId)
      state  == IF ipd.payloadLen = 0 THEN "ScanForIpd"
                ELSE IF ipd.linkId = served.linkId THEN "CopyPayload"
                ELSE "DiscardPayload"
  IN /\ ipd.state = "ReadLength"
     /\ c = COLON
     /\ client' = served
     /\ ipd' = [ipd EXCEPT !.state = state, !.remaining = ipd.payloadLen]

(* g_payloadRemaining--, an unsigned decrement, and the test that follows. *)
CountPayload ==
  LET left == (ipd.remaining - 1) % LenMod
  IN ipd' = [ipd EXCEPT !.remaining = left,
                        !.state = IF left = 0 THEN "ScanForIpd" ELSE @]

(* Mutant: the receive buffer has no limit. *)
CopyPayloadUnbounded(c) ==
  /\ ipd.state = "CopyPayload"
  /\ client' = [client EXCEPT !.rx = Append(@, c)]
  /\ CountPayload

CopyPayload(c) ==
  /\ ipd.state = "CopyPayload"
  /\ client' = IF Len(client.rx) < BufSize
               THEN [client EXCEPT !.rx = Append(@, c)]
               ELSE client
  /\ CountPayload

DiscardPayload ==
  /\ ipd.state = "DiscardPayload"
  /\ CountPayload
  /\ UNCHANGED client

(* poll(): the next waiting byte goes through the state machine. *)
FeedByte ==
  /\ phase = "poll"
  /\ wire # <<>>
  /\ \/ ScanForIpd(Head(wire))
     \/ ReadLinkId(Head(wire))
     \/ ReadLength(Head(wire))
     \/ StartPayload(Head(wire))
     \/ CopyPayload(Head(wire))
     \/ DiscardPayload
  /\ wire' = Tail(wire)
  /\ clean' = IF client.active THEN clean ELSE client'.active /\ whole
  /\ UNCHANGED <<phase, msg, whole>>

-----------------------------------------------------------------------------
(* Esp8285ServerClient::read() when it has a byte; the receiving window of loop(). *)
Read ==
  /\ phase = "poll"
  /\ client.active
  /\ client.head < Len(client.rx)
  /\ client' = [client EXCEPT !.head = @ + 1]
  /\ UNCHANGED <<ipd, phase, msg, wire, whole, clean>>

(* write(buf, size): as many bytes as still fit. *)
Write(size) ==
  LET space == BufSize - client.txLen
      n     == IF size > space THEN space ELSE size
  IN /\ phase \in {"poll", "respond"}
     /\ client.active
     /\ client' = [client EXCEPT !.txLen = @ + n]
     /\ phase' = "respond"
     /\ UNCHANGED <<ipd, msg, wire, whole, clean>>

(* flush(): AT+CIPSEND, the data, SEND OK - or a timeout of either wait.   *)
(* Its early return (nothing to send, or inactive) cannot be reached from  *)
(* loop(), which flushes only right after a write.                         *)
Flush ==
  /\ phase = "respond"
  /\ client.active
  /\ client.txLen > 0
  /\ Eaten
  /\ whole' = FALSE
  /\ clean' = FALSE
  /\ client' = [client EXCEPT !.txLen = 0]
  /\ phase' = "close"
  /\ UNCHANGED ipd

(* Mutant: closing forgets to reset the parser. *)
CloseClientKeepsState ==
  /\ phase \in {"poll", "close"}
  /\ client.active
  /\ Eaten
  /\ whole' = (wire' = msg'.bytes)
  /\ clean' = FALSE
  /\ client' = NoClient
  /\ phase' = "poll"
  /\ UNCHANGED ipd

(* closeClient(), after an answer or at the end of the one-second window.  *)
(* loop() calls it only for an active client.                              *)
CloseClient ==
  /\ phase \in {"poll", "close"}
  /\ client.active
  /\ Eaten
  /\ whole' = (wire' = msg'.bytes)
  /\ clean' = FALSE
  /\ client' = NoClient
  /\ ipd' = [ipd EXCEPT !.state = "ScanForIpd", !.matchPos = 0]
  /\ phase' = "poll"

(* maintainWifiConnection() or startServer() at the top of loop(): AT       *)
(* commands that reset nothing in the parser.                              *)
MaintainWifi ==
  /\ phase = "poll"
  /\ ~client.active
  /\ Eaten
  /\ whole' = (wire' = msg'.bytes \/ (whole /\ msg' = msg /\ wire' = wire))
  /\ UNCHANGED <<ipd, client, phase, clean>>

Next ==
  \/ \E m \in Messages : ModemSend(m)
  \/ FeedByte
  \/ Read
  \/ \E n \in WriteSizes : Write(n)
  \/ Flush
  \/ CloseClient
  \/ MaintainWifi

Spec == Init /\ [][Next]_vars

-----------------------------------------------------------------------------
States == {"ScanForIpd", "ReadLinkId", "ReadLength", "CopyPayload", "DiscardPayload"}

(* The types of the module's variables, with the widths of the C++ ones. *)
TypeOK ==
  /\ ipd \in [state : States, matchPos : Nat, linkId : 0..(LinkMod - 1),
              payloadLen : 0..(LenMod - 1), remaining : 0..(LenMod - 1)]
  /\ client \in [active : BOOLEAN, linkId : 0..(LinkMod - 1), rx : Seq(Byte),
                 head : Nat, txLen : Nat]
  /\ phase \in {"poll", "respond", "close"}
  /\ msg \in [bytes : Seq(Byte), link : Nat, payload : Nat]
  /\ wire \in Seq(Byte)
  /\ whole \in BOOLEAN
  /\ clean \in BOOLEAN

(* No access outside an array and no unsigned counter below zero: the      *)
(* comparison with IPD_PREFIX[g_matchPos] stays inside the literal, the    *)
(* receive buffer never overflows nor is read past its end, _txLen never   *)
(* exceeds the buffer (BUF_SIZE - _txLen would wrap), and a payload state  *)
(* is never entered, nor kept, with nothing remaining (the decrement would *)
(* wrap to 2^32 - 1 and the server would swallow everything for ever).     *)
InBounds ==
  /\ ipd.matchPos < IPD_PREFIX_LEN
  /\ ipd.state # "ScanForIpd" => ipd.matchPos = 0
  /\ client.head <= Len(client.rx)
  /\ Len(client.rx) <= BufSize
  /\ client.txLen <= BufSize
  /\ InPayload => ipd.remaining > 0

(* The parser is in the middle of a payload only while a connection is     *)
(* served, and stores it exactly when it is that connection's: so the AT   *)
(* commands of maintainWifiConnection(), which throw bytes away when       *)
(* nobody is served, never cut a payload the parser is counting.           *)
PayloadOwned ==
  /\ InPayload => client.active
  /\ ipd.state = "CopyPayload" => ipd.linkId = client.linkId
  /\ ipd.state = "DiscardPayload" => ipd.linkId # client.linkId

(* Whatever garbage, cut header or tail of a payload an AT command left    *)
(* behind, a complete frame that arrives while the parser is not counting  *)
(* a payload is recognised: the parser counts exactly while the modem      *)
(* sends its payload, with as many bytes to go and under its link id.      *)
(* Bytes of the payload that look like a header change nothing.            *)
InSync ==
  whole =>
    /\ InPayload <=> Len(wire) \in 1..msg.payload
    /\ InPayload => ipd.remaining = Len(wire) /\ ipd.linkId = msg.link

(* A connection elected by a frame that arrived whole gets its request     *)
(* from the first byte on and without a gap: never the tail of a frame     *)
(* whose beginning an earlier AT command threw away, nor another           *)
(* connection's bytes in between, however often frames interleave (for     *)
(* Messages with one frame per connection, sent any number of times).      *)
RequestFromStart ==
  clean =>
    \E m \in Messages :
      LET data == SubSeq(m.bytes, Len(m.bytes) - m.payload + 1, Len(m.bytes))
      IN /\ m.payload > 0
         /\ m.link = client.linkId
         /\ \A i \in 1..Len(client.rx) : client.rx[i] = data[((i - 1) % m.payload) + 1]

(* Esp8285Server.h:95-96: if a new connection's data arrives, poll() sets  *)
(* up the client for it - for the connection the data came from.           *)
SetUpForItsData ==
  \A i \in 1..Len(client.rx) :
    \E m \in Messages :
      /\ m.link = client.linkId
      /\ \E k \in 0..(m.payload - 1) : client.rx[i] = m.bytes[Len(m.bytes) - k]

(* The frame the parser is in, as the frame-level promise sees it. *)
frameOf ==
  [phase |-> IF ipd.state = "CopyPayload" THEN "copy"
             ELSE IF ipd.state = "DiscardPayload" THEN "discard" ELSE "none",
   left  |-> IF InPayload THEN ipd.remaining ELSE 0]

FS == INSTANCE FrameServer
        WITH LinkId <- 0..(LinkMod - 1), FrameLen <- 0..(LenMod - 1), frame <- frameOf

(* Every step of the byte-level server is a step of the frame-level one or *)
(* leaves it alone: header bytes, garbage and AT exchanges are invisible.  *)
ImplementsFrameServer == FS!FSSpec
=============================================================================
