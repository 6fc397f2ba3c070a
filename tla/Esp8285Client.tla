---------------------------- MODULE Esp8285Client ----------------------------
(***************************************************************************)
(* Esp8285Client, the TCP connection the OTA downloads over: its buffered  *)
(* writes, the "+IPD,<length>:<data>" parser with the detector of the      *)
(* modem's CLOSED line, its linear receive buffer, and connect/stop, used  *)
(* the way fetchSome() of WiFlashOta.cpp uses it through HTTPClient.       *)
(*                                                                         *)
(* The modem and the server behind it are external: the server answers a   *)
(* request with "Response", in frames of any of FrameSizes, and may close  *)
(* at any time.  Message bytes are the ASCII codes the code compares with; *)
(* the bytes of a request are known by their positions in it, and a byte   *)
(* of an AT command that the modem takes for data is 0.                    *)
(***************************************************************************)
EXTENDS Integers, Sequences

CONSTANTS
  Response,    \* what the server sends on a connection
  FrameSizes,  \* the payload sizes of the modem's frames (of at most two digits)
  Requests,    \* the sizes of the requests HTTPClient writes
  CmdSizes,    \* how many bytes of an AT command may reach a modem that waits for data
  TxSize,      \* TX_BUF_SIZE (512 in the code, below TX_CHUNK_MAX)
  RxSize,      \* RX_BUF_SIZE (16384 in the code)
  LineSize,    \* sizeof(_lineBuf) (16 in the code)
  LenMod       \* modulus of the uint32_t counters (2^32 in the code)

Byte == 0..255

CR    == 13
LF    == 10
PLUS  == 43
COMMA == 44
COLON == 58
GT    == 62
SPACE == 32
ZERO  == 48
NINE  == 57

IPD_PREFIX == <<PLUS, 73, 80, 68, COMMA>>   \* "+IPD,"
IPD_PREFIX_LEN == 5
CLOSED == <<67, 76, 79, 83, 69, 68>>        \* "CLOSED"

ASSUME ResponseAssumption == Response \in Seq(Byte)
ASSUME SizeAssumption ==
  /\ FrameSizes \subseteq 1..99
  /\ Requests \subseteq Nat \ {0}
  /\ CmdSizes \subseteq Nat
  /\ TxSize \in Nat \ {0}
  /\ RxSize \in Nat \ {0}
  /\ LineSize \in Nat \ 0..Len(CLOSED)
  /\ LenMod \in Nat \ {0}
(* The length of a frame fits its counter. *)
ASSUME FrameAssumption == \A n \in FrameSizes : n < LenMod

VARIABLES
  (* the client *)
  ipd,        \* _ipdState, _matchPos, _payloadLen, _payloadRemaining
  line,       \* _lineBuf up to _lineLen, _lineOverflowed, _lastWasCR
  rx,         \* _rxBuf up to _rxTail, and _rxHead
  tx,         \* _txBuf up to _txLen
  connected,  \* _connected
  (* fetchSome() and HTTPClient *)
  pc,         \* "idle", "write" (the request), "read" (the response), "check" (connected()?)
  todo,       \* what write() has not copied yet
  taken,      \* how many bytes have been read while the connection is clean
  (* the modem and the server *)
  uart,       \* the bytes of the modem's message the client has not read
  link,       \* the modem's connection: is it up, how much of Response was sent,
              \* how many bytes of the message in uart are payload (the last ones)
  modem,      \* the bytes of data it still waits for after a prompt, and those it holds
  got,        \* what the server got of the request
  prompted,   \* no prompt of this connection was missed, or seen where there was none
  clean       \* nothing of this connection's stream was lost

clientVars == <<ipd, line, rx, tx, connected>>
callerVars == <<pc, todo, taken>>
modemVars  == <<uart, link, modem, got, prompted, clean>>
vars == <<ipd, line, rx, tx, connected, pc, todo, taken,
          uart, link, modem, got, prompted, clean>>

NoFrame   == [state |-> "ScanForIpd", matchPos |-> 0, payloadLen |-> 0, remaining |-> 0]
EmptyLine == [text |-> <<>>, overflowed |-> FALSE, lastWasCR |-> FALSE]
EmptyRx   == [buf |-> <<>>, head |-> 0]
NoData    == [wants |-> 0, held |-> <<>>]

Init ==
  /\ ipd = NoFrame /\ line = EmptyLine /\ rx = EmptyRx /\ tx = <<>> /\ connected = FALSE
  /\ pc = "idle" /\ todo = <<>> /\ taken = 0
  /\ uart = <<>> /\ link = [up |-> FALSE, sent |-> 0, payload |-> 0]
  /\ modem = NoData /\ got = <<>> /\ prompted = FALSE /\ clean = FALSE

-----------------------------------------------------------------------------
(* The receive buffer.                                                     *)

(* rxAvailable(): the bytes that have arrived and not been read. *)
Unread == SubSeq(rx.buf, rx.head + 1, Len(rx.buf))

(* Mutant: the head stays where it was. *)
CompactedKeepsHead == [buf |-> Unread, head |-> rx.head]

(* rxCompact() *)
Compacted == [buf |-> Unread, head |-> 0]

(* Mutant: a full buffer is not compacted before a byte is given up. *)
StoredUncompacted(c) ==
  IF Len(rx.buf) < RxSize THEN [rx EXCEPT !.buf = Append(@, c)] ELSE rx

(* A payload byte: into a full buffer only once it has been compacted. *)
Stored(c) ==
  LET room == IF Len(rx.buf) >= RxSize THEN Compacted ELSE rx
  IN IF Len(room.buf) < RxSize THEN [room EXCEPT !.buf = Append(@, c)] ELSE room

-----------------------------------------------------------------------------
(* processIncomingByte()                                                   *)

IsDigit(c) == c \in ZERO..NINE

(* strcmp(): the text up to a NUL is "CLOSED". *)
IsClosed(text) ==
  /\ Len(text) >= Len(CLOSED)
  /\ SubSeq(text, 1, Len(CLOSED)) = CLOSED
  /\ Len(text) = Len(CLOSED) \/ text[Len(CLOSED) + 1] = 0

(* Mutant: no room is kept for the NUL that ends the line. *)
FeedLineToTheBrim(c) ==
  /\ line' = IF c = CR THEN [line EXCEPT !.lastWasCR = TRUE]
             ELSE IF c = LF THEN EmptyLine
             ELSE IF Len(line.text) < LineSize
             THEN [line EXCEPT !.text = Append(@, c), !.lastWasCR = FALSE]
             ELSE [line EXCEPT !.overflowed = TRUE, !.lastWasCR = FALSE]
  /\ UNCHANGED connected

(* The detector of the modem's "CLOSED" line, one byte further. *)
FeedLine(c) ==
  /\ line' = IF c = CR THEN [line EXCEPT !.lastWasCR = TRUE]
             ELSE IF c = LF THEN EmptyLine
             ELSE IF Len(line.text) < LineSize - 1
             THEN [line EXCEPT !.text = Append(@, c), !.lastWasCR = FALSE]
             ELSE [line EXCEPT !.overflowed = TRUE, !.lastWasCR = FALSE]
  /\ connected' = (connected /\ ~(/\ c = LF
                                  /\ line.lastWasCR /\ ~line.overflowed
                                  /\ IsClosed(line.text)))

HeaderEnds(c) == c = COMMA /\ ipd.matchPos = IPD_PREFIX_LEN - 1

(* Outside a payload every byte but the last of "+IPD," goes to the line. *)
ScanForIpd(c) ==
  /\ ipd.state = "ScanForIpd"
  /\ ~HeaderEnds(c)
  /\ ipd' = [ipd EXCEPT !.matchPos = IF c = IPD_PREFIX[@ + 1] THEN @ + 1
                                     ELSE IF c = PLUS THEN 1 ELSE 0]
  /\ FeedLine(c)
  /\ UNCHANGED rx

(* Mutant: what came before the frame stays in the line. *)
StartLengthKeepsLine(c) ==
  /\ ipd.state = "ScanForIpd"
  /\ HeaderEnds(c)
  /\ ipd' = [ipd EXCEPT !.state = "ReadLength", !.payloadLen = 0, !.matchPos = 0]
  /\ UNCHANGED <<line, connected, rx>>

(* The end of "+IPD,": the text of the line is dropped, not its overflow. *)
StartLength(c) ==
  /\ ipd.state = "ScanForIpd"
  /\ HeaderEnds(c)
  /\ ipd' = [ipd EXCEPT !.state = "ReadLength", !.payloadLen = 0, !.matchPos = 0]
  /\ line' = [line EXCEPT !.text = <<>>]
  /\ UNCHANGED <<connected, rx>>

(* Mutant: any byte before the ':' counts as a digit of a signed length. *)
ReadLengthSigned(c) ==
  /\ ipd.state = "ReadLength"
  /\ ipd' = IF c # COLON
            THEN [ipd EXCEPT !.payloadLen = @ * 10 + (c - ZERO)]
            ELSE [ipd EXCEPT !.remaining = ipd.payloadLen,
                             !.state = IF ipd.payloadLen > 0 THEN "CopyPayload"
                                       ELSE "ScanForIpd"]
  /\ UNCHANGED <<line, connected, rx>>

(* Any other byte than a digit or the ':' restarts the search. *)
ReadLength(c) ==
  /\ ipd.state = "ReadLength"
  /\ ipd' = IF IsDigit(c)
            THEN [ipd EXCEPT !.payloadLen = (@ * 10 + (c - ZERO)) % LenMod]
            ELSE IF c = COLON
            THEN [ipd EXCEPT !.remaining = ipd.payloadLen,
                             !.state = IF ipd.payloadLen > 0 THEN "CopyPayload"
                                       ELSE "ScanForIpd"]
            ELSE [ipd EXCEPT !.state = "ScanForIpd",
                             !.matchPos = IF c = PLUS THEN 1 ELSE 0]
  /\ line' = IF IsDigit(c) \/ c = COLON THEN line ELSE [line EXCEPT !.text = <<>>]
  /\ UNCHANGED <<connected, rx>>

CopyPayload(c) ==
  LET left == (ipd.remaining - 1) % LenMod
  IN /\ ipd.state = "CopyPayload"
     /\ rx' = Stored(c)
     /\ ipd' = [ipd EXCEPT !.remaining = left,
                           !.state = IF left = 0 THEN "ScanForIpd" ELSE @]
     /\ UNCHANGED <<line, connected>>

(* pollIncoming(): whatever is being asked for, first the buffered request *)
(* is sent, then the waiting bytes go through the state machine.           *)
FeedByte ==
  /\ pc \in {"read", "check"}
  /\ tx = <<>>
  /\ uart # <<>>
  /\ LET c == Head(uart)
     IN ScanForIpd(c) \/ StartLength(c) \/ ReadLength(c) \/ CopyPayload(c)
  /\ uart' = Tail(uart)
  /\ clean' = (clean /\ (ipd.state = "CopyPayload" => Len(Unread) < RxSize))
  /\ UNCHANGED <<tx, callerVars, link, modem, got, prompted>>

-----------------------------------------------------------------------------
(* The modem (external).  After the prompt of AT+CIPSEND=<n> the next n    *)
(* bytes it is sent are data for the connection, whatever they were meant  *)
(* to be.                                                                  *)

(* The modem after it was sent some bytes. *)
After(m, bytes) ==
  IF Len(bytes) >= m.wants THEN NoData
  ELSE [wants |-> m.wants - Len(bytes), held |-> m.held \o bytes]

(* The data it passes on to the connection then. *)
Passed(m, bytes) ==
  IF Len(bytes) >= m.wants THEN m.held \o SubSeq(bytes, 1, m.wants) ELSE <<>>

(* An AT command, of which n bytes reach the modem. *)
Command(n) == [i \in 1..n |-> 0]

(* What the modem holds of a connection that is over counts no more. *)
Interrupted(m, n) ==
  LET after == After(m, Command(n))
  IN [after EXCEPT !.held = Command(Len(after.held))]

Decimal(n) == IF n < 10 THEN <<ZERO + n>> ELSE <<ZERO + n \div 10, ZERO + (n % 10)>>

(* The next n bytes of the response. *)
Frame(n) ==
  <<CR, LF>> \o IPD_PREFIX \o Decimal(n) \o <<COLON>>
    \o SubSeq(Response, link.sent + 1, link.sent + n)

ClosedLine == CLOSED \o <<CR, LF>>

-----------------------------------------------------------------------------
(* The caller: HTTPClient writes a request, fetchSome() reads the answer.  *)

(* stop(): whatever AT+CIPCLOSE achieves, everything is reset. *)
Reset ==
  /\ ipd' = NoFrame
  /\ line' = EmptyLine
  /\ rx' = EmptyRx
  /\ tx' = <<>>

(* What an AT exchange leaves in the UART: nothing, or the end of its line. *)
Leftover == uart' \in {<<>>, <<CR, LF>>}

(* connect(): stop(), then AT+CIPSTART. A connection that AT+CIPCLOSE did  *)
(* not close answers "ALREADY CONNECTED", which is as good as OK; an OK    *)
(* may be late, or of the command before.  A modem that waits for data     *)
(* takes the commands for it.                                              *)
Connect ==
  \E closes, opens, ok \in BOOLEAN, size \in Requests, n1, n2 \in CmdSizes :
    LET old    == link.up /\ ~closes
        closed == Interrupted(modem, n1)
    IN /\ pc = "idle"
       /\ opens => closed = NoData
       /\ Reset
       /\ Leftover
       /\ link' = IF old THEN [link EXCEPT !.payload = 0]
                  ELSE [up |-> opens, sent |-> 0, payload |-> 0]
       /\ modem' = Interrupted(closed, n2)
       /\ connected' = ok
       /\ clean' = (ok /\ opens /\ ~old)
       /\ prompted' = (modem' = NoData)
       /\ pc' = IF ok THEN "write" ELSE "idle"
       /\ todo' = IF ok THEN [i \in 1..size |-> i] ELSE <<>>
       /\ taken' = 0
       /\ got' = <<>>

(* write(): as much as fits; flush() when the buffer is full. *)
Write ==
  LET space == TxSize - Len(tx)
      n     == IF Len(todo) > space THEN space ELSE Len(todo)
  IN /\ pc = "write"
     /\ space > 0
     /\ tx' = tx \o SubSeq(todo, 1, n)
     /\ todo' = SubSeq(todo, n + 1, Len(todo))
     /\ pc' = IF todo' = <<>> THEN "read" ELSE "write"
     /\ UNCHANGED <<ipd, line, rx, connected, taken, modemVars>>

(* The payload bytes in the UART. *)
Pending ==
  SubSeq(uart, (IF Len(uart) > link.payload THEN Len(uart) - link.payload ELSE 0) + 1, Len(uart))

(* What may be left of a message when the wait it came in has ended. *)
Rests(text) == {SubSeq(text, k, Len(text)) : k \in 1..(Len(text) + 1)}

(* Whatever arrives during an AT exchange is thrown away with its text: n  *)
(* bytes of the response (in one frame, a bound), the CLOSED line.  What   *)
(* comes when its wait has ended stays: the rest of the frame or the line, *)
(* or the prompt that is too late.                                         *)
Swallow(n, late) ==
  /\ n > 0 => /\ link.up /\ link.sent + n <= Len(Response)
              /\ got' # <<>> \/ link.sent > 0
  /\ \E up \in {link.up, FALSE} :
       /\ \/ Leftover
          \/ n > 0 /\ uart' \in Rests(Frame(n))
          \/ link.up /\ ~up /\ uart' \in Rests(ClosedLine)
          \/ late /\ uart' \in Rests(<<GT, SPACE>>)
       /\ link' = [up |-> up, sent |-> link.sent + n, payload |-> n]
       /\ clean' = (clean /\ up /\ n = 0 /\ Pending = <<>> /\ ~late)

(* One AT+CIPSEND=<Len(tx)>.  The prompt it waits for may come too late or *)
(* be hidden by a NUL of the response, and a '>' of the response may be    *)
(* taken for it: what is written before the real one is lost.              *)
Exchange ==
  \E prompts, found \in BOOLEAN, lost \in 0..Len(tx), size \in CmdSizes,
     n \in FrameSizes \cup {0}, delivered \in {link.up, FALSE} :
    LET written == IF found THEN SubSeq(tx, lost + 1, Len(tx)) ELSE <<>>
        bytes   == IF prompts THEN written ELSE Command(size) \o written
        before  == IF prompts THEN [wants |-> Len(tx), held |-> <<>>] ELSE modem
        early   == \/ \E i \in DOMAIN uart : uart[i] = GT
                   \/ \E i \in DOMAIN Response :
                        Response[i] = GT /\ i \in (link.sent + 1)..(link.sent + n)
    IN /\ prompts => link.up /\ modem = NoData
       /\ found => prompts \/ early
       /\ lost > 0 => prompts /\ found /\ early
       /\ modem' = After(before, bytes)
       /\ got' = IF delivered THEN got \o Passed(before, bytes) ELSE got
       /\ prompted' = (prompted /\ (found <=> prompts) /\ lost = 0)
       /\ Swallow(n, prompts /\ ~found)

(* Mutant: a request that was not acknowledged is kept and sent again. *)
SendRequestAgain ==
  /\ tx # <<>>
  /\ IF pc = "write" THEN Len(tx) = TxSize ELSE pc \in {"read", "check"}
  /\ Exchange
  /\ tx' \in {tx, <<>>}
  /\ UNCHANGED <<ipd, line, rx, connected, callerVars>>

(* cipSendChunk(), from flush() or pollIncoming(): one AT+CIPSEND, for     *)
(* TX_BUF_SIZE <= TX_CHUNK_MAX.  Nobody looks at its result: in any case   *)
(* the buffer is empty afterwards, and the modem may be waiting for data.  *)
SendRequest ==
  /\ tx # <<>>
  /\ IF pc = "write" THEN Len(tx) = TxSize ELSE pc \in {"read", "check"}
  /\ Exchange
  /\ tx' = <<>>
  /\ UNCHANGED <<ipd, line, rx, connected, callerVars>>

(* available() saw at least n bytes, or HTTPClient reads a byte: read(). *)
Read(n) ==
  /\ pc = "read"
  /\ tx = <<>>
  /\ n \in 1..Len(Unread)
  /\ taken' = IF clean THEN taken + n ELSE 0
  /\ rx' = [Compacted EXCEPT !.head = n]
  /\ UNCHANGED <<ipd, line, tx, connected, pc, todo, modemVars>>

(* available() sees nothing. *)
NothingAvailable ==
  /\ pc = "read"
  /\ tx = <<>>
  /\ Unread = <<>>
  /\ rx' = Compacted
  /\ pc' = "check"
  /\ UNCHANGED <<ipd, line, tx, connected, todo, taken, modemVars>>

(* stop(): AT+CIPCLOSE, or data for a modem that waits for it. *)
Stop ==
  /\ Reset
  /\ Leftover
  /\ connected' = FALSE
  /\ \E up \in {link.up, FALSE} : link' = [link EXCEPT !.up = up, !.payload = 0]
  /\ \E n \in CmdSizes : modem' = Interrupted(modem, n)
  /\ pc' = "idle" /\ todo' = <<>> /\ taken' = 0
  /\ got' = <<>> /\ prompted' = FALSE /\ clean' = FALSE

(* Mutant: what has arrived and not been read does not count. *)
ConnectedNow == connected

(* connected() *)
Connected == connected \/ Unread # <<>>

(* connected(), which polls again: bytes may have come since available(). *)
CheckConnected ==
  /\ pc = "check"
  /\ tx = <<>>
  /\ IF Connected
     THEN /\ rx' = Compacted
          /\ pc' = "read"
          /\ UNCHANGED <<ipd, line, tx, connected, todo, taken, modemVars>>
     ELSE Stop

(* Mutant: only the modem's CLOSED line ends a download. *)
NeverStalls == FALSE

(* Nothing for STALL_TIMEOUT_MS. *)
Stalled ==
  /\ pc = "check"
  /\ Connected
  /\ Stop

(* Everything wanted has arrived, or HTTPClient gives the answer up. *)
Finish ==
  /\ pc = "read"
  /\ tx = <<>>
  /\ Stop

Caller == Write \/ SendRequest \/ NothingAvailable \/ CheckConnected

-----------------------------------------------------------------------------
(* What the modem and the server do by themselves (external).              *)

(* The next piece of the response; or of one that was asked for before. *)
SendFrame(n) ==
  /\ uart = <<>>
  /\ link.up
  /\ got # <<>> \/ link.sent > 0
  /\ link.sent + n <= Len(Response)
  /\ uart' = Frame(n)
  /\ link' = [link EXCEPT !.sent = @ + n, !.payload = n]
  /\ UNCHANGED <<clientVars, callerVars, modem, got, prompted, clean>>

(* The server closes, with or without having answered. *)
SendClosed ==
  /\ uart = <<>>
  /\ link.up
  /\ uart' = ClosedLine
  /\ link' = [link EXCEPT !.up = FALSE, !.payload = 0]
  /\ UNCHANGED <<clientVars, callerVars, modem, got, prompted, clean>>

(* The UART's FIFO was full, or a byte was damaged: a gap in the stream,   *)
(* once on a connection (a bound).                                         *)
LoseBytes ==
  /\ clean
  /\ pc \in {"read", "check"}
  /\ \E k \in 1..Len(uart) : uart' = SubSeq(uart, k + 1, Len(uart))
  /\ clean' = FALSE
  /\ UNCHANGED <<clientVars, callerVars, link, modem, got, prompted>>

Next ==
  \/ Connect
  \/ Caller
  \/ FeedByte
  \/ \E n \in 1..Len(Unread) : Read(n)
  \/ Stalled
  \/ Finish
  \/ \E n \in FrameSizes : SendFrame(n)
  \/ SendClosed
  \/ LoseBytes

(* The caller goes on; the bytes that have arrived are read; and a clock   *)
(* that is looked at again and again passes the stall timeout.             *)
Fairness ==
  /\ WF_vars(Caller)
  /\ WF_vars(FeedByte)
  /\ WF_vars(\E n \in 1..Len(Unread) : Read(n))
  /\ SF_vars(Stalled)

Spec == Init /\ [][Next]_vars /\ Fairness

-----------------------------------------------------------------------------
(* The types of the module's variables, with the widths of the C++ ones. *)
TypeOK ==
  /\ ipd \in [state : {"ScanForIpd", "ReadLength", "CopyPayload"}, matchPos : Nat,
              payloadLen : 0..(LenMod - 1), remaining : 0..(LenMod - 1)]
  /\ line \in [text : Seq(Byte), overflowed : BOOLEAN, lastWasCR : BOOLEAN]
  /\ rx \in [buf : Seq(Byte), head : Nat]
  /\ tx \in Seq(Nat)
  /\ connected \in BOOLEAN
  /\ pc \in {"idle", "write", "read", "check"}
  /\ todo \in Seq(Nat)
  /\ taken \in Nat
  /\ uart \in Seq(Byte)
  /\ link \in [up : BOOLEAN, sent : 0..Len(Response), payload : Nat]
  /\ modem \in [wants : Nat, held : Seq(Nat)]
  /\ got \in Seq(Nat)
  /\ prompted \in BOOLEAN
  /\ clean \in BOOLEAN

(* No access outside an array and no unsigned counter below zero, whatever *)
(* arrives: IPD_PREFIX, the line with its terminating NUL, both buffers,   *)
(* _rxTail - _rxHead, TX_BUF_SIZE - _txLen, and the payload countdown.     *)
InBounds ==
  /\ ipd.matchPos < IPD_PREFIX_LEN
  /\ Len(line.text) < LineSize
  /\ rx.head <= Len(rx.buf)
  /\ Len(rx.buf) <= RxSize
  /\ Len(tx) <= TxSize
  /\ ipd.state = "CopyPayload" => ipd.remaining > 0

(* As long as nothing of the connection's stream was lost - in an AT       *)
(* exchange, in the UART, in a full buffer - and no late prompt has come   *)
(* into it (clean in Swallow), the caller gets exactly what                *)
(* the server sent, wherever the modem cuts it into frames and whatever    *)
(* its bytes look like; and every connection starts with a parser that is  *)
(* in step again, however the one before it was torn.                      *)
StreamExact ==
  clean => Unread \o Pending = SubSeq(Response, taken + 1, link.sent)

(* ... and the client knows that the connection is closed exactly when it  *)
(* has read the modem's CLOSED line: never because of the same text in the *)
(* data, however the frames cut it, and never too late.                    *)
ClosedIsSeen ==
  clean => (connected <=> link.up \/ uart # <<>>)

(* A download that ends because the connection is closed has read all that *)
(* the server sent, also what came between available() and connected().    *)
NothingLeftBehind ==
  [][CheckConnected /\ pc' = "idle" /\ clean => taken = link.sent]_vars

(* Whatever prompts are missed, mistaken or late: what the server gets of  *)
(* a request is in order, and no part of it twice, although AT commands    *)
(* may stand in it and parts be missing.                                   *)
RequestInOrder ==
  \A i, j \in DOMAIN got : i < j /\ got[i] # 0 /\ got[j] # 0 => got[i] < got[j]

(* While every prompt is seen, nothing but the request gets to the server, *)
(* and only whole buffers may be missing, since nobody looks at the result *)
(* of cipSendChunk(): a request that fits the buffer has no gap.           *)
RequestInBlocks ==
  prompted =>
    \A i \in DOMAIN got :
      LET before == IF i = 1 THEN 0 ELSE got[i - 1]
      IN \/ got[i] = before + 1
         \/ got[i] > before /\ (got[i] - 1) % TxSize = 0

(* Every download ends, although the CLOSED line may be thrown away by the *)
(* AT exchange that sends the request, or be read as missing payload.      *)
FetchEnds == pc # "idle" ~> pc = "idle"

BQ == INSTANCE ByteQueue WITH queue <- Unread

(* The linear buffer with its compactions is a queue of RX_BUF_SIZE bytes. *)
ImplementsByteQueue == BQ!BQSpec
=============================================================================
