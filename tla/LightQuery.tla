----------------------------- MODULE LightQuery -----------------------------
(***************************************************************************)
(* A light query end to end: light_test.py processes that ask for the ADC  *)
(* value and then for the temperature, each over a TCP connection of its   *)
(* own with retries; the ESP8285 AT modem that carries the connections;    *)
(* and the sketch, whose loop() serves one connection at a time and talks  *)
(* to the modem with blocking AT commands over the same UART the requests  *)
(* arrive on.                                                              *)
(*                                                                         *)
(* The board's parser is the frame-level server of FrameServer, which      *)
(* Esp8285Server implements: a request is a frame with a single "byte",    *)
(* the request itself, and its header reaches the board in two pieces,     *)
(* "+IPD,<id>" and ",<length>:", so that an AT command may come between    *)
(* them.  Every request carries a NUL (its VALUE byte), and                *)
(* the AT layer searches its responses with strstr(): what comes after a   *)
(* request in the text it collects is invisible to it.                     *)
(***************************************************************************)
EXTENDS Naturals, Sequences, FiniteSets

CONSTANTS
  Clients,      \* the light_test.py processes
  LinkId,       \* the modem's link ids: 0..4 in CIPMUX=1 mode
  RetryCount,   \* RETRY_COUNT (3 in the code)
  Settings      \* the environments to consider, see SettingsAssumption

ASSUME ClientsAssumption == IsFiniteSet(Clients)
ASSUME LinkAssumption    == LinkId \subseteq Nat /\ 0 \in LinkId
ASSUME RetryAssumption   == RetryCount \in Nat \ {0}

(* An environment: whether nobody times out while what he waits for can    *)
(* still come, whether a check of the WiFi connection may begin when half  *)
(* a header has been read, whether the modem may refuse to be configured   *)
(* or to join, how many attempts a process makes (a bound where anything   *)
(* may time out), and how often maintainWifiConnection() gets to check.    *)
ASSUME SettingsAssumption ==
  Settings \subseteq [timely : BOOLEAN, tears : BOOLEAN, refuses : BOOLEAN,
                      attempts : 1..RetryCount, ticks : Nat]

VARIABLES
  setting,        \* the environment, which no step changes
  (* the sketch *)
  pc,             \* "poll" (loop() polling), "answer" (request read), "wait" (for the modem)
  at,             \* the AT command it waits for, what it made of the response so far
  client, frame,  \* the parser and the connection it serves, see FrameServer
  half,           \* the id of a header the parser has read the first half of: {} or {id}
  serverRunning,  \* begin() last succeeded
  ticks,          \* checks of the WiFi connection so far
  (* the modem *)
  uart,           \* what it has sent to the board and the board has not read
  modem,          \* what it is doing: idle, a command, waiting for the data of a CIPSEND, sending it
  links,          \* the connection on each link id
  (* the light_test.py processes *)
  query           \* per process: what it asks for, which attempt, its socket, what it has got

boardVars == <<setting, pc, at, client, frame, half, serverRunning, ticks>>
vars == <<setting, pc, at, client, frame, half, serverRunning, ticks, uart, modem, links, query>>

-----------------------------------------------------------------------------
(* A connection is known by who opened it, for which command, in which attempt. *)
Conn == [client : Clients, cmd : {"READ_ADC", "READ_TEMP"}, attempt : 1..RetryCount]

NoConn == [client |-> "nobody", cmd |-> "none", attempt |-> 0]

FreeLink == [conn |-> NoConn, asked |-> FALSE]

FS == INSTANCE FrameServer
        WITH BufSize <- 32, Byte <- Conn, FrameLen <- {1}, WriteSizes <- {1}

(* What travels from the modem to the board: the pieces of a frame, replies. *)
Header(l)  == [kind |-> "header", link |-> l]
Length     == [kind |-> "length"]
Request(k) == [kind |-> "request", conn |-> k]
Reply(t)   == [kind |-> "reply", text |-> t]

Text == {"OK", "+CWJAP: OK", "ERROR", "OK >", "SEND OK"}

ConnOf(c) == [client |-> c, cmd |-> query[c].stage, attempt |-> query[c].attempt]

(* The client's end of a connection is still open. *)
PeerOpen(k) == \E c \in Clients : query[c].open /\ k = ConnOf(c)

LinkOf(k) == {l \in LinkId : links[l].conn = k}

NoCommand == [op |-> "none", found |-> FALSE, joined |-> FALSE, masked |-> FALSE]

Init ==
  /\ setting \in Settings
  /\ pc = "poll"
  /\ at = NoCommand
  /\ FS!FSInit
  /\ half = {}
  /\ serverRunning = TRUE
  /\ ticks = 0
  /\ uart = <<>>
  /\ modem = [job |-> "idle", link |-> 0, answer |-> NoConn, joined |-> TRUE]
  /\ links = [l \in LinkId |-> FreeLink]
  /\ query = [c \in Clients |-> [stage |-> "READ_ADC", attempt |-> 1, open |-> FALSE,
                                 inbox |-> <<>>, adc |-> NoConn, temp |-> NoConn]]

-----------------------------------------------------------------------------
(* The AT layer of the sketch.                                             *)

(* sendCommand() and flush() throw away what waits in the UART; a reply    *)
(* the modem is just sending may escape them.                              *)
Discarded ==
  IF setting.timely THEN {<<>>}
  ELSE {SubSeq(uart, k, Len(uart)) : k \in 1..(Len(uart) + 1)}

(* The modem takes a line from the board: a command when it is idle; when  *)
(* it waits for the data of a CIPSEND the line is that data; when it is    *)
(* busy the line is lost ("busy p...").                                    *)
Take(op) ==
  modem' = CASE modem.job = "idle"      -> [modem EXCEPT !.job = op, !.link = client.linkId]
             [] modem.job = "AwaitData" -> [modem EXCEPT !.job = "SendJunk"]
             [] OTHER                   -> modem

Issue(op) ==
  /\ pc' = "wait"
  /\ at' = [NoCommand EXCEPT !.op = op]
  /\ uart' \in Discarded
  /\ Take(op)

(* What each wait looks for. "SEND OK" and "OK >" contain "OK" too. *)
Satisfies(op) ==
  CASE op = "CIPSEND" -> {"OK >"}
    [] op = "DATA"    -> {"SEND OK"}
    [] OTHER          -> Text \ {"ERROR"}

(* sendCommand() also stops at "ERROR"; waitForSubstring() does not. *)
StopsAtError == at.op \notin {"CIPSEND", "DATA"}

(* sendCommand() reads on until the UART is empty, be it that the rest of  *)
(* a frame is still to arrive; waitForSubstring() returns at once.         *)
NothingArrived ==
  uart # <<>> => Head(uart).kind \in {"length", "request"}

Answered == at.found /\ (NothingArrived \/ ~StopsAtError)

(* One more piece of the response: a request hides all that follows it. *)
ReadReply ==
  LET t    == Head(uart)
      seen == t.kind = "reply" /\ ~at.masked
  IN /\ pc = "wait"
     /\ ~Answered
     /\ uart # <<>>
     /\ ~(seen /\ t.text = "ERROR" /\ StopsAtError)
     /\ at' = [at EXCEPT !.found  = @ \/ (seen /\ t.text \in Satisfies(at.op)),
                         !.joined = @ \/ (seen /\ t.text = "+CWJAP: OK"),
                         !.masked = @ \/ t.kind = "request"]
     /\ uart' = Tail(uart)
     /\ UNCHANGED <<pc, client, frame, half, serverRunning, ticks, modem, links, query>>

(* An ERROR ends sendCommand() with FALSE, whatever it found before. *)
ErrorNext ==
  /\ ~Answered
  /\ uart # <<>>
  /\ Head(uart).kind = "reply"
  /\ Head(uart).text = "ERROR"
  /\ ~at.masked
  /\ StopsAtError

(* Mutant: the waits have no deadline. *)
NoDeadline == FALSE

(* The wait runs out: only when nothing more can come, if all is timely. *)
TimedOut ==
  /\ ~at.found
  /\ setting.timely => uart = <<>> /\ modem.job \in {"idle", "AwaitData"}

Returns(op, ok) ==
  /\ pc = "wait"
  /\ at.op = op
  /\ IF ok THEN Answered ELSE ErrorNext \/ TimedOut

(* Back in loop(), with what the wait has left in the UART. *)
BackToLoop ==
  /\ pc' = "poll"
  /\ at' = NoCommand
  /\ uart' = IF ErrorNext THEN Tail(uart) ELSE uart
  /\ UNCHANGED modem

-----------------------------------------------------------------------------
(* maintainWifiConnection() at the top of loop(), where nobody is served.  *)
(* The parser keeps the half of a header it has read.                      *)

CheckWifi ==
  /\ pc = "poll"
  /\ ~client.active
  /\ half = {} \/ setting.tears
  /\ ticks < setting.ticks
  /\ ticks' = ticks + 1
  /\ Issue("CWJAP?")
  /\ UNCHANGED <<setting, client, frame, half, serverRunning, links, query>>

(* isJoined(): joined only if the answer shows the access point and its OK. *)
AfterIsJoined(ok) ==
  /\ Returns("CWJAP?", ok)
  /\ IF ok /\ at.joined
     THEN IF serverRunning THEN BackToLoop ELSE Issue("CIPMUX")
     ELSE Issue("CWMODE")
  /\ UNCHANGED <<client, frame, half, serverRunning, ticks, links, query>>

(* joinAP(), then printIpAddress(), whose result does not matter. *)
AfterJoinStep(ok) ==
  /\ \/ Returns("CWMODE", ok) /\ IF ok THEN Issue("CWJAP") ELSE BackToLoop
     \/ Returns("CWJAP", ok)  /\ IF ok THEN Issue("CIFSR") ELSE BackToLoop
     \/ Returns("CIFSR", ok)  /\ Issue("CIPMUX")
  /\ UNCHANGED <<client, frame, half, serverRunning, ticks, links, query>>

(* startServer(): Esp8285Server::begin() and the flag. *)
AfterServerStep(ok) ==
  /\ \/ /\ Returns("CIPMUX", ok)
        /\ IF ok THEN Issue("CIPSERVER") /\ UNCHANGED serverRunning
                 ELSE BackToLoop /\ serverRunning' = FALSE
     \/ /\ Returns("CIPSERVER", ok)
        /\ BackToLoop
        /\ serverRunning' = ok
  /\ UNCHANGED <<client, frame, half, ticks, links, query>>

-----------------------------------------------------------------------------
(* Serving a connection.                                                   *)

PollHeader ==
  /\ pc = "poll"
  /\ uart # <<>>
  /\ Head(uart).kind = "header"
  /\ frame.phase = "none"
  /\ half' = {Head(uart).link}
  /\ uart' = Tail(uart)
  /\ UNCHANGED <<pc, at, client, frame, serverRunning, ticks, modem, links, query>>

(* The second half of a header completes the first half that was read last, *)
(* whichever frames they are of.                                            *)
PollLength ==
  /\ pc = "poll"
  /\ uart # <<>>
  /\ Head(uart).kind = "length"
  /\ IF half = {} THEN UNCHANGED <<client, frame>>
                  ELSE \E l \in half : FS!OpenFrame(l, 1)
  /\ half' = {}
  /\ uart' = Tail(uart)
  /\ UNCHANGED <<pc, at, serverRunning, ticks, modem, links, query>>

(* A request whose header was lost, and a reply, are garbage to the parser. *)
PollRest ==
  /\ pc = "poll"
  /\ uart # <<>>
  /\ Head(uart).kind \in {"request", "reply"}
  /\ IF Head(uart).kind = "request" /\ frame.phase # "none"
     THEN FS!PayloadByte(Head(uart).conn)
     ELSE UNCHANGED <<client, frame>>
  /\ half' = {}
  /\ uart' = Tail(uart)
  /\ UNCHANGED <<pc, at, serverRunning, ticks, modem, links, query>>

(* checkForCommand() finds the request in the one-second window. *)
ReadRequest ==
  /\ pc = "poll"
  /\ client.active
  /\ FS!ReadNext
  /\ pc' = "answer"
  /\ UNCHANGED <<at, half, serverRunning, ticks, uart, modem, links, query>>

(* sendResponse(): the sample and the echo of the command, then flush(). *)
Answer ==
  /\ pc = "answer"
  /\ FS!Queue(1)
  /\ Issue("CIPSEND")
  /\ UNCHANGED <<half, serverRunning, ticks, links, query>>

(* The prompt came: the data is written, without discarding anything.      *)
AfterPrompt ==
  /\ Returns("CIPSEND", TRUE)
  /\ at' = [NoCommand EXCEPT !.op = "DATA"]
  /\ modem' = IF modem.job = "AwaitData"
              THEN [modem EXCEPT !.job = "Sending", !.answer = client.rx[client.head]]
              ELSE modem
  /\ UNCHANGED <<pc, client, frame, half, serverRunning, ticks, uart, links, query>>

(* Mutant: without a prompt the connection is forgotten, not closed. *)
AfterFlushForgets ==
  \/ /\ Returns("CIPSEND", FALSE)
     /\ FS!Drop
     /\ BackToLoop
     /\ UNCHANGED <<half, serverRunning, ticks, links, query>>
  \/ /\ \E ok \in BOOLEAN : Returns("DATA", ok)
     /\ FS!Send
     /\ Issue("CIPCLOSE")
     /\ UNCHANGED <<half, serverRunning, ticks, links, query>>

(* flush() ends, with or without a prompt and a SEND OK: closeClient().    *)
AfterFlush ==
  /\ \/ Returns("CIPSEND", FALSE)
     \/ \E ok \in BOOLEAN : Returns("DATA", ok)
  /\ FS!Send
  /\ Issue("CIPCLOSE")
  /\ UNCHANGED <<half, serverRunning, ticks, links, query>>

(* The window ends without a request: closeClient(). *)
WindowEnds ==
  /\ pc = "poll"
  /\ client.active
  /\ setting.timely => uart = <<>> /\ client.head = Len(client.rx)
  /\ Issue("CIPCLOSE")
  /\ UNCHANGED <<client, frame, half, serverRunning, ticks, links, query>>

(* Mutant: half a header outlives the connection. *)
AfterCloseKeepsHalf(ok) ==
  /\ Returns("CIPCLOSE", ok)
  /\ FS!Drop
  /\ BackToLoop
  /\ UNCHANGED <<half, serverRunning, ticks, links, query>>

(* The parser is reset with the connection: half a header is forgotten too. *)
AfterClose(ok) ==
  /\ Returns("CIPCLOSE", ok)
  /\ FS!Drop
  /\ half' = {}
  /\ BackToLoop
  /\ UNCHANGED <<serverRunning, ticks, links, query>>

Board ==
  /\ \/ ReadReply
     \/ PollHeader \/ PollLength \/ PollRest \/ ReadRequest
     \/ Answer \/ AfterPrompt \/ AfterFlush
     \/ WindowEnds
     \/ \E ok \in BOOLEAN :
          AfterIsJoined(ok) \/ AfterJoinStep(ok) \/ AfterServerStep(ok) \/ AfterClose(ok)
  /\ UNCHANGED setting

-----------------------------------------------------------------------------
(* The modem (external): one command at a time, frames of any connection   *)
(* between its replies.                                                    *)

Says(texts) == uart' = uart \o [i \in 1..Len(texts) |-> Reply(texts[i])]

Idle == [modem EXCEPT !.job = "idle"]

(* How the modem may take a command that configures or joins. *)
Results == IF setting.refuses THEN {"OK", "ERROR"} ELSE {"OK"}

(* Commands that only report or configure; a reconnect drops every link.   *)
Configure ==
  /\ modem.job \in {"CWJAP?", "CWMODE", "CIFSR", "CIPMUX", "CIPSERVER"}
  /\ \/ modem.job # "CWJAP?" /\ \E t \in Results : Says(<<t>>)
     \/ modem.job = "CWJAP?" /\ Says(<<IF modem.joined THEN "+CWJAP: OK" ELSE "OK">>)
  /\ modem' = Idle
  /\ UNCHANGED <<links, query>>

Join ==
  /\ modem.job = "CWJAP"
  /\ \E t \in Results :
       /\ Says(<<t>>)
       /\ modem' = [Idle EXCEPT !.joined = t = "OK"]
  /\ links' = [l \in LinkId |-> FreeLink]
  /\ UNCHANGED query

StartSend ==
  /\ modem.job = "CIPSEND"
  /\ IF links[modem.link] # FreeLink
     THEN Says(<<"OK >">>) /\ modem' = [modem EXCEPT !.job = "AwaitData"]
     ELSE Says(<<"ERROR">>) /\ modem' = Idle
  /\ UNCHANGED <<links, query>>

(* The answer goes to whoever holds the link by now. *)
SendAnswer ==
  LET k == links[modem.link].conn
  IN /\ modem.job = "Sending"
     /\ IF k # NoConn THEN Says(<<"SEND OK">>) ELSE Says(<<"ERROR">>)
     /\ query' = IF PeerOpen(k)
                 THEN [query EXCEPT ![k.client].inbox = Append(@, modem.answer)]
                 ELSE query
     /\ modem' = Idle
     /\ UNCHANGED links

(* A command line taken for the data: the peer ignores it, and the rest of *)
(* the line may earn an ERROR.                                             *)
SendLine ==
  /\ modem.job = "SendJunk"
  /\ IF links[modem.link] # FreeLink
     THEN Says(<<"SEND OK">>) \/ Says(<<"SEND OK", "ERROR">>)
     ELSE Says(<<"ERROR">>)
  /\ modem' = Idle
  /\ UNCHANGED <<links, query>>

CloseLink ==
  /\ modem.job = "CIPCLOSE"
  /\ IF links[modem.link] # FreeLink THEN Says(<<"OK">>) ELSE Says(<<"ERROR">>)
  /\ links' = [links EXCEPT ![modem.link] = FreeLink]
  /\ modem' = Idle
  /\ UNCHANGED query

Modem ==
  /\ Configure \/ Join \/ StartSend \/ SendAnswer \/ SendLine \/ CloseLink
  /\ UNCHANGED boardVars

(* The request of a connection reaches the modem, which passes it on. *)
PassRequest(l) ==
  /\ links[l] # FreeLink
  /\ ~links[l].asked
  /\ uart' = uart \o <<Header(l), Length, Request(links[l].conn)>>
  /\ links' = [links EXCEPT ![l].asked = TRUE]
  /\ UNCHANGED <<boardVars, modem, query>>

(* The modem learns that the peer has closed, after its request. *)
PeerCloses(l) ==
  /\ links[l].asked
  /\ ~PeerOpen(links[l].conn)
  /\ links' = [links EXCEPT ![l] = FreeLink]
  /\ UNCHANGED <<boardVars, uart, modem, query>>

-----------------------------------------------------------------------------
(* light_test.py: main(), and WFLink._send_and_receive() with its retries. *)

Asking(c) == query[c].stage \in {"READ_ADC", "READ_TEMP"}

Connect(c) ==
  /\ Asking(c)
  /\ ~query[c].open
  /\ modem.joined /\ modem.job # "CWJAP"
  /\ \E l \in LinkId :
       /\ links[l] = FreeLink
       /\ links' = [links EXCEPT ![l] = [conn |-> ConnOf(c), asked |-> FALSE]]
  /\ query' = [query EXCEPT ![c].open = TRUE]
  /\ UNCHANGED <<boardVars, uart, modem>>

(* Mutant: one attempt too few. *)
AttemptFailsEarly(c) ==
  LET q == query[c]
  IN query' = [query EXCEPT ![c] =
       IF q.attempt + 1 < setting.attempts
       THEN [q EXCEPT !.attempt = q.attempt + 1, !.open = FALSE, !.inbox = <<>>]
       ELSE [q EXCEPT !.stage = IF q.stage = "READ_ADC" THEN "gave up" ELSE "saved",
                      !.open = FALSE, !.inbox = <<>>]]

(* Mutant: the attempts are not counted down. *)
AttemptFailsForEver(c) ==
  query' = [query EXCEPT ![c].attempt = @ + 1, ![c].open = FALSE, ![c].inbox = <<>>]

(* A process after a failed attempt: the next one; after the last, an ADC  *)
(* query ends the script, a temperature query leaves cpu_temp_c NULL and   *)
(* saves the row.                                                          *)
Failed(q) ==
  IF q.attempt < setting.attempts
  THEN [q EXCEPT !.attempt = q.attempt + 1, !.open = FALSE, !.inbox = <<>>]
  ELSE [q EXCEPT !.stage = IF q.stage = "READ_ADC" THEN "gave up" ELSE "saved",
                 !.open = FALSE, !.inbox = <<>>]

AttemptFails(c) == query' = [query EXCEPT ![c] = Failed(query[c])]

(* No connection: refused, unreachable, or no SYN got through in time. *)
ConnectFails(c) ==
  /\ Asking(c)
  /\ ~query[c].open
  /\ setting.timely => ~modem.joined /\ modem.job # "CWJAP"
  /\ AttemptFails(c)
  /\ UNCHANGED <<boardVars, uart, modem, links>>

(* What an answer makes of a process: it counts only if it echoes the command. *)
Received(q, answer) ==
  IF answer.cmd # q.stage THEN [q EXCEPT !.inbox = Tail(q.inbox)]
  ELSE IF q.stage = "READ_ADC"
  THEN [q EXCEPT !.stage = "READ_TEMP", !.attempt = 1, !.open = FALSE,
                 !.inbox = <<>>, !.adc = answer]
  ELSE [q EXCEPT !.stage = "saved", !.open = FALSE,
                 !.inbox = <<>>, !.temp = answer]

(* _read_response() *)
Receive(c) ==
  /\ query[c].open
  /\ query[c].inbox # <<>>
  /\ query' = [query EXCEPT ![c] = Received(query[c], Head(query[c].inbox))]
  /\ UNCHANGED <<boardVars, uart, modem, links>>

(* The modem closed the connection before any usable answer. *)
EndOfFile(c) ==
  /\ query[c].open
  /\ query[c].inbox = <<>>
  /\ LinkOf(ConnOf(c)) = {}
  /\ AttemptFails(c)
  /\ UNCHANGED <<boardVars, uart, modem, links>>

(* The deadline of the attempt passes. *)
GiveUp(c) ==
  /\ query[c].open
  /\ setting.timely => /\ pc = "poll" /\ ~client.active
               /\ uart = <<>> /\ modem.job = "idle"
               /\ query[c].inbox = <<>>
               /\ \A l \in LinkId : links[l].conn = ConnOf(c) => links[l].asked
  /\ AttemptFails(c)
  /\ UNCHANGED <<boardVars, uart, modem, links>>

Process(c) == Connect(c) \/ ConnectFails(c) \/ Receive(c) \/ EndOfFile(c) \/ GiveUp(c)

Next ==
  \/ CheckWifi
  \/ Board
  \/ Modem
  \/ \E l \in LinkId : PassRequest(l) \/ PeerCloses(l)
  \/ \E c \in Clients : Process(c)

Fairness ==
  /\ WF_vars(Board)
  /\ WF_vars(Modem)
  /\ \A l \in LinkId : WF_vars(PassRequest(l)) /\ WF_vars(PeerCloses(l))
  /\ \A c \in Clients : WF_vars(Process(c))

Spec == Init /\ [][Next]_vars /\ Fairness

-----------------------------------------------------------------------------
Answers == Conn \cup {NoConn}

Commands == {"CWJAP?", "CWMODE", "CWJAP", "CIFSR", "CIPMUX", "CIPSERVER", "CIPSEND", "CIPCLOSE"}

(* Every variable has its type: what the modem sends, what it does and who holds its links. *)
TypeOK ==
  /\ setting \in Settings
  /\ pc \in {"poll", "answer", "wait"}
  /\ at \in [op : Commands \cup {"DATA", "none"}, found : BOOLEAN, joined : BOOLEAN, masked : BOOLEAN]
  /\ client.active \in BOOLEAN /\ client.linkId \in LinkId /\ client.rx \in Seq(Conn)
  /\ frame.phase \in {"none", "copy", "discard"}
  /\ half \subseteq LinkId
  /\ serverRunning \in BOOLEAN
  /\ ticks \in 0..setting.ticks
  /\ \A i \in DOMAIN uart :
       uart[i] \in {Header(l) : l \in LinkId} \cup {Length} \cup {Request(k) : k \in Conn}
                   \cup {Reply(t) : t \in Text}
  /\ modem \in [job : Commands \cup {"idle", "AwaitData", "Sending", "SendJunk"},
                link : LinkId, answer : Answers, joined : BOOLEAN]
  /\ links \in [LinkId -> [conn : Answers, asked : BOOLEAN]]
  /\ \A c \in Clients :
       query[c] \in [stage : {"READ_ADC", "READ_TEMP", "saved", "gave up"},
                     attempt : 1..setting.attempts, open : BOOLEAN, inbox : Seq(Answers),
                     adc : Answers, temp : Answers]

(* Esp8285Server.h:95-96: a connection that is served is the one whose     *)
(* data arrived.  Then an answer reaches the connection that asked.        *)
AnswersTheAsker ==
  \A c \in Clients : \A i \in DOMAIN query[c].inbox :
    query[c].inbox[i] = ConnOf(c)

(* If nobody gives up early, that is so: no link changes hands between the *)
(* request and the answer, although the modem, the clients and earlier     *)
(* AT+CIPCLOSEs free and reuse links.  It needs that no check of the WiFi  *)
(* connection begins when half a header has been read: its AT command may  *)
(* swallow the rest of that header and the first half of another           *)
(* connection's, whose request is then served, and answered, under the     *)
(* first one's id.                                                         *)
OwnAnswers == setting.timely /\ ~setting.tears => AnswersTheAsker

(* If nobody gives up early, whenever loop() is ready for the next         *)
(* connection the modem is ready for the next command: a prompt the board  *)
(* did not see (hidden by a second request) never outlives closeClient(),  *)
(* whose AT+CIPCLOSE line the modem takes for the data it waits for.  Torn *)
(* headers and refusals do not matter.                                     *)
ModemReady ==
  setting.timely /\ pc = "poll" /\ ~client.active => modem.job = "idle"

(* loop() never wedges: a connection it serves is given up eventually,     *)
(* whatever is lost, hidden or late.                                       *)
NeverWedged == client.active ~> ~client.active

(* If nobody gives up early and the modem refuses nothing, a script that   *)
(* runs alone stores the light reading, although a check of the WiFi       *)
(* connection tears its header, hides its request or, itself misled by the *)
(* request, reconnects and drops its link: RETRY_COUNT attempts outlast    *)
(* one check.  It stores the temperature too unless there was a check:     *)
(* closeClient() alone may cost the first two attempts of the second       *)
(* query, and a check then costs the third.                                *)
BothSaved ==
  setting.timely /\ ~setting.refuses =>
    <>(\A c \in Clients : /\ query[c].adc # NoConn
                          /\ query[c].temp # NoConn \/ ticks > 0)

(* doc/LuxFlash_terv.md:425-429: the AT+CIPCLOSE after the answer finds    *)
(* the link closed already or closes the connection that was answered.     *)
CloseIsHarmless ==
  [][CloseLink => links[modem.link] = FreeLink \/ ~PeerOpen(links[modem.link].conn)
                  \/ links[modem.link].conn \in {client.rx[i] : i \in DOMAIN client.rx}]_vars

(* Esp8285WiFi.h:46-51: isJoined() reports the modem's actual, current     *)
(* state: a reconnect is started only when the modem is not joined.        *)
LiveQuery == at.op = "CWMODE" => ~modem.joined
=============================================================================
