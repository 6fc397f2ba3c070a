-------------------------------- MODULE Boot --------------------------------
(***************************************************************************)
(* From a restart of the board to a running light-sensor server, and the   *)
(* upkeep of that server afterwards: setup() with wiflashAppSetup(), the   *)
(* second attempt to join, the three attempts to start the server, then    *)
(* loop()'s maintainWifiConnection().  All of it is a chain of blocking AT *)
(* commands to a modem that is not restarted with the board, may answer    *)
(* late or refuse, and loses and regains the access point by itself.       *)
(***************************************************************************)
EXTENDS Naturals

CONSTANTS
  ServerTries,   \* attempts to start the server in setup() (3 in the code)
  MaxRestarts,   \* bound: restarts of the board
  Environments   \* what the modem may be like, see EnvironmentsAssumption

(* survives: the modem keeps CIPMUX=1 and its server when it joins again   *)
(* (Esp8285Server.h and main.cpp leave that open).  crossing: a late       *)
(* answer may cross the next command line on the UART.                     *)
ASSUME TriesAssumption        == ServerTries \in Nat \ {0}
ASSUME RestartsAssumption     == MaxRestarts \in Nat
ASSUME EnvironmentsAssumption == Environments \subseteq [survives : BOOLEAN, crossing : BOOLEAN]

VARIABLES
  env,            \* the environment, which no step changes
  pc,             \* the AT command the sketch is at, and on whose behalf
  at,             \* how far the command is: to be sent, sent, or its response
  tries,          \* failed attempts of setup() to start the server
  serverRunning,  \* begin() last succeeded
  restarts,       \* restarts so far
  ap,             \* the access point is reachable
  modem           \* the command it works on, its connection and its mode

boardVars == <<pc, at, tries, serverRunning>>
vars == <<env, pc, at, tries, serverRunning, restarts, ap, modem>>

Commands == {"ATE0", "CIPMUX=0", "CWMODE", "CWJAP", "OTA", "CWJAP?", "CIFSR",
             "CIPMUX=1", "CIPSERVER"}

(* wiflashAppSetup(); the two isJoined() of setup(), the joinAP() between   *)
(* them, its startServer() loop; maintainWifiConnection(); polling.         *)
Places == {"app", "check", "retry", "recheck", "start", "maintain", "poll"}

Positive == {"OK", "+CWJAP: OK"}

PowerOn == [job |-> "idle", joined |-> FALSE, mux |-> FALSE, server |-> FALSE]

(* Every restart begins with begin()'s first command. *)
AtBoot == [in |-> "app", op |-> "ATE0"]

Init ==
  /\ env \in Environments
  /\ pc = AtBoot
  /\ at = "ready"
  /\ tries = 0
  /\ serverRunning = FALSE
  /\ restarts = 0
  /\ ap \in BOOLEAN
  /\ modem = PowerOn

-----------------------------------------------------------------------------
(* sendCommand(): discard, send, wait for OK, ERROR or the timeout.        *)

(* A modem at work answers "busy p..." and drops the line. *)
Send ==
  /\ pc.op # "none"
  /\ at = "ready"
  /\ at' = "sent"
  /\ modem' = IF modem.job = "idle" THEN [modem EXCEPT !.job = pc.op] ELSE modem
  /\ UNCHANGED <<pc, tries, serverRunning>>

(* The command returns; FALSE at an ERROR, and when the wait runs out. *)
CallEnds(op, ok) ==
  /\ pc.op = op
  /\ at \in IF ok THEN Positive ELSE {"sent", "ERROR"}

Call(place, op) ==
  /\ pc' = [in |-> place, op |-> op]
  /\ at' = "ready"

Loop == Call("poll", "none")

-----------------------------------------------------------------------------
(* The sketch, one action per function.                                    *)

(* Mutant: begin() does not look at the result of AT+CIPMUX=0. *)
BeginIgnoresMux ==
  /\ \/ CallEnds("ATE0", TRUE) /\ Call("app", "CIPMUX=0")
     \/ \E ok \in BOOLEAN : CallEnds("CIPMUX=0", ok) /\ Call("app", "CWMODE")
     \/ CallEnds("ATE0", FALSE) /\ Call("check", "CWJAP?")
  /\ UNCHANGED <<tries, serverRunning>>

(* Esp8285WiFi::begin(); without it no update check. *)
Begin ==
  /\ \/ CallEnds("ATE0", TRUE) /\ Call("app", "CIPMUX=0")
     \/ CallEnds("CIPMUX=0", TRUE) /\ Call("app", "CWMODE")
     \/ \E op \in {"ATE0", "CIPMUX=0"} : CallEnds(op, FALSE) /\ Call("check", "CWJAP?")
  /\ UNCHANGED <<tries, serverRunning>>

(* What the callers of joinAP() do next. *)
AfterJoin(joined) ==
  \/ pc.in = "app" /\ IF joined THEN Call("app", "OTA") ELSE Call("check", "CWJAP?")
  \/ pc.in = "retry" /\ Call("recheck", "CWJAP?")
  \/ pc.in = "maintain" /\ IF joined THEN Call("maintain", "CIFSR") ELSE Loop

JoinAP ==
  /\ \/ CallEnds("CWMODE", TRUE) /\ Call(pc.in, "CWJAP")
     \/ CallEnds("CWMODE", FALSE) /\ AfterJoin(FALSE)
     \/ \E ok \in BOOLEAN : CallEnds("CWJAP", ok) /\ AfterJoin(ok)
  /\ UNCHANGED <<tries, serverRunning>>

(* wiflashDownloadAndApply(): unless it applies (Restart), setup() goes on. *)
DownloadAndApply ==
  /\ \E ok \in BOOLEAN : CallEnds("OTA", ok)
  /\ Call("check", "CWJAP?")
  /\ UNCHANGED <<tries, serverRunning>>

(* Mutant: a joined modem is left alone, also without a server. *)
MaintainsOnlyWifi(joined) ==
  /\ pc.in = "maintain"
  /\ IF ~joined THEN Call("maintain", "CWMODE") ELSE Loop

(* maintainWifiConnection() after its isJoined(). *)
Maintains(joined) ==
  /\ pc.in = "maintain"
  /\ IF ~joined THEN Call("maintain", "CWMODE")
     ELSE IF ~serverRunning THEN Call("maintain", "CIPMUX=1")
     ELSE Loop

(* isJoined(): the access point and its OK, nothing less. *)
IsJoined ==
  LET joined == at = "+CWJAP: OK"
  IN /\ \E ok \in BOOLEAN : CallEnds("CWJAP?", ok)
     /\ \/ pc.in = "check" /\ IF joined THEN Call("recheck", "CWJAP?") ELSE Call("retry", "CWMODE")
        \/ pc.in = "recheck" /\ IF joined THEN Call("start", "CIFSR") ELSE Call("start", "CIPMUX=1")
        \/ Maintains(joined)
     /\ UNCHANGED <<tries, serverRunning>>

(* Its result does not matter; startServer() is next at both call sites. *)
PrintIpAddress ==
  /\ \E ok \in BOOLEAN : CallEnds("CIFSR", ok)
  /\ Call(pc.in, "CIPMUX=1")
  /\ UNCHANGED <<tries, serverRunning>>

(* Mutant: setup() makes one attempt too many. *)
ServerFailsOnceMore ==
  /\ serverRunning' = FALSE
  /\ IF pc.in = "start" THEN tries' = tries + 1 ELSE UNCHANGED tries
  /\ IF pc.in = "start" /\ tries < ServerTries THEN Call("start", "CIPMUX=1") ELSE Loop

(* setup() tries again at once, maintainWifiConnection() with its next check. *)
ServerFails ==
  /\ serverRunning' = FALSE
  /\ IF pc.in = "start" THEN tries' = tries + 1 ELSE UNCHANGED tries
  /\ IF pc.in = "start" /\ tries + 1 < ServerTries THEN Call("start", "CIPMUX=1") ELSE Loop

(* Mutant: Esp8285Server::begin() goes on when AT+CIPMUX=1 got no OK. *)
StartServerAnyway ==
  \/ /\ \E ok \in BOOLEAN : CallEnds("CIPMUX=1", ok)
     /\ Call(pc.in, "CIPSERVER")
     /\ UNCHANGED <<tries, serverRunning>>
  \/ /\ CallEnds("CIPSERVER", TRUE)
     /\ serverRunning' = TRUE
     /\ Loop
     /\ UNCHANGED tries
  \/ CallEnds("CIPSERVER", FALSE) /\ ServerFails

(* startServer() and Esp8285Server::begin(). *)
StartServer ==
  \/ /\ CallEnds("CIPMUX=1", TRUE)
     /\ Call(pc.in, "CIPSERVER")
     /\ UNCHANGED <<tries, serverRunning>>
  \/ /\ CallEnds("CIPSERVER", TRUE)
     /\ serverRunning' = TRUE
     /\ Loop
     /\ UNCHANGED tries
  \/ \E op \in {"CIPMUX=1", "CIPSERVER"} : CallEnds(op, FALSE) /\ ServerFails

(* loop() finds the five seconds over. *)
CheckWifi ==
  /\ pc.in = "poll"
  /\ Call("maintain", "CWJAP?")
  /\ UNCHANGED <<tries, serverRunning>>

Sketch ==
  /\ \/ Begin \/ JoinAP \/ DownloadAndApply \/ IsJoined \/ PrintIpAddress
     \/ StartServer \/ CheckWifi
  /\ UNCHANGED modem

(* A reset, or the restart that ends an update; the modem is reset only    *)
(* with the power.                                                         *)
Restart ==
  /\ restarts < MaxRestarts
  /\ restarts' = restarts + 1
  /\ pc' = AtBoot
  /\ at' = "ready"
  /\ tries' = 0
  /\ serverRunning' = FALSE
  /\ modem' \in {modem, PowerOn}
  /\ UNCHANGED <<env, ap>>

-----------------------------------------------------------------------------
(* The modem (external).                                                   *)

(* Joining may cost it its mode. *)
Modes == {[mux |-> modem.mux, server |-> modem.server]}
           \cup IF env.survives THEN {} ELSE {[mux |-> FALSE, server |-> FALSE]}

(* What carrying a command out leaves behind, and what it answers. *)
Outcomes(op) ==
  LET same == [modem EXCEPT !.job = "idle"]
  IN CASE op = "CIPMUX=0" -> {[same EXCEPT !.mux = FALSE, !.server = FALSE]}
       [] op = "CIPMUX=1" -> {[same EXCEPT !.mux = TRUE]}
       [] op = "CIPSERVER" -> {[same EXCEPT !.server = TRUE]}
       [] op = "CWJAP" -> {[same EXCEPT !.joined = TRUE, !.mux = m.mux, !.server = m.server] : m \in Modes}
       [] OTHER -> {same}

Possible(op) ==
  /\ op \in Commands
  /\ op = "CWJAP" => ap
  /\ op = "CIPSERVER" => modem.mux

Reply(op) == IF op = "CWJAP?" /\ modem.joined THEN "+CWJAP: OK" ELSE "OK"

(* Only a command that waits hears it; other text is discarded by the next. *)
Hears(text) == at' = IF at = "sent" THEN text ELSE at

Does(op) ==
  /\ modem.job = op
  /\ Possible(op)
  /\ modem' \in Outcomes(op)
  /\ Hears(Reply(op))
  /\ UNCHANGED <<pc, tries, serverRunning>>

(* A failed attempt to join leaves the old connection, too. *)
Refuses ==
  /\ modem.job \in Commands
  /\ modem' = [modem EXCEPT !.job = "idle", !.joined = @ /\ modem.job # "CWJAP"]
  /\ Hears("ERROR")
  /\ UNCHANGED <<pc, tries, serverRunning>>

(* A late OK reaches the sketch as the next line reaches the modem: the    *)
(* line is taken, and the OK passes for its answer.                        *)
Crosses ==
  /\ env.crossing
  /\ at = "ready"
  /\ pc.op # "none"
  /\ Possible(modem.job)
  /\ modem' \in {[m EXCEPT !.job = pc.op] : m \in Outcomes(modem.job)}
  /\ at' = Reply(modem.job)
  /\ UNCHANGED <<pc, tries, serverRunning>>

(* The access point comes and goes, and the modem joins it by itself. *)
Radio ==
  \/ /\ ap' = ~ap
     /\ modem' = [modem EXCEPT !.joined = @ /\ ap']
  \/ /\ ap /\ ~modem.joined
     /\ modem' \in {[modem EXCEPT !.joined = TRUE, !.mux = m.mux, !.server = m.server] : m \in Modes}
     /\ UNCHANGED ap

Modem == (\E op \in Commands : Does(op)) \/ Refuses \/ Crosses

Next ==
  \/ (Send \/ Sketch \/ Modem) /\ UNCHANGED <<env, ap, restarts>>
  \/ Radio /\ UNCHANGED <<env, boardVars, restarts>>
  \/ Restart

(* The sketch never blocks for good, nor does the modem.  The modem's      *)
(* refusals and delays are transient (main.cpp and wflink_link.py say so): *)
(* a command sent over and over is carried out and heard in time at last.  *)
Fairness ==
  /\ WF_vars(Send /\ UNCHANGED <<env, ap, restarts>>)
  /\ WF_vars(Sketch /\ UNCHANGED <<env, ap, restarts>>)
  /\ WF_vars(Modem /\ UNCHANGED <<env, ap, restarts>>)
  /\ \A op \in Commands :
       SF_vars(pc.op = op /\ at = "sent" /\ Does(op) /\ UNCHANGED <<env, ap, restarts>>)

Spec == Init /\ [][Next]_vars /\ Fairness

-----------------------------------------------------------------------------
(* Every variable has its type; setup() gives up within its attempts. *)
TypeOK ==
  /\ env \in Environments
  /\ pc \in [in : Places, op : Commands \cup {"none"}]
  /\ at \in {"ready", "sent", "ERROR"} \cup Positive
  /\ tries \in 0..ServerTries
  /\ serverRunning \in BOOLEAN
  /\ restarts \in 0..MaxRestarts
  /\ ap \in BOOLEAN
  /\ modem \in [job : Commands \cup {"idle"}, joined : BOOLEAN, mux : BOOLEAN, server : BOOLEAN]

(* The update check runs with the modem in single-connection mode, as       *)
(* Esp8285Client's parser needs it, even if a restarted board finds the     *)
(* modem in the other mode, and although an answer that missed its timeout  *)
(* may pass for that of the next command - unless it crosses that command   *)
(* on the UART, which the code cannot tell from an answer in time.          *)
OtaOnSingleConnection ==
  ~env.crossing /\ pc.op = "OTA" /\ at # "ready" => ~modem.mux

(* serverRunning is never wrong about a modem that keeps its mode: the      *)
(* sketch only believes in a server that is there, although answers that    *)
(* missed their timeout may pass for that of the next command.              *)
ServerIsUp ==
  env.survives /\ ~env.crossing /\ serverRunning => modem.mux /\ modem.server

(* When the access point stays, the server is up at last and stays up:      *)
(* setup()'s attempts and maintainWifiConnection() together see to it.      *)
ServerComesUp ==
  env.survives /\ ~env.crossing /\ <>[]ap => <>[]modem.server

(* main.cpp:111-121: the server is restarted after a reconnect since the    *)
(* mode may not survive it, and it never stays down while the WiFi is       *)
(* stable - for a modem that loses its mode when it joins by itself, too.   *)
ServerComesBack ==
  ~env.crossing /\ <>[](ap /\ modem.joined) => <>[]modem.server
=============================================================================
