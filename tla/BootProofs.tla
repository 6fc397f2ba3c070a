----------------------------- MODULE BootProofs -----------------------------
(***************************************************************************)
(* Proofs about Boot for any number of attempts and restarts and any       *)
(* modem: types, the mode of the update check, and that serverRunning is   *)
(* never wrong.  The heart of the matter: a response can only be stale if  *)
(* the modem dropped the line it is taken for, and after any response the  *)
(* modem is idle, so that the command after it is really taken.            *)
(***************************************************************************)
EXTENDS Boot, TLAPS

ModemType == [job : Commands \cup {"idle"}, joined : BOOLEAN, mux : BOOLEAN, server : BOOLEAN]

(* Which commands belong to which part of the program. *)
Placed ==
  /\ pc.op \in {"ATE0", "CIPMUX=0", "OTA"} => pc.in = "app"
  /\ pc.op \in {"CIFSR", "CIPMUX=1", "CIPSERVER"} => pc.in \in {"start", "maintain"}
  /\ pc.in = "start" => tries < ServerTries
  /\ pc.in \in {"app", "check", "retry", "recheck"} => tries = 0

(* After a response the modem is idle. *)
Answered == at \in Positive \cup {"ERROR"} => modem.job = "idle"

(* A command that follows a positive response is the modem's only job. *)
FollowsOK ==
  pc.op = "CIPSERVER" \/ (pc.in = "app" /\ pc.op # "ATE0")
    => /\ at = "ready" => modem.job = "idle"
       /\ at = "sent" => modem.job = pc.op

(* From CIPMUX=0 to the end of the update check the mode is single. *)
SingleMode ==
  pc.in = "app" /\ (pc.op \in {"CWMODE", "CWJAP", "OTA"} \/ (pc.op = "CIPMUX=0" /\ at \in Positive))
    => ~modem.mux

(* The server is there when the sketch has, or is about to get, its word. *)
ServerThere ==
  env.survives =>
    /\ pc.op = "CIPSERVER" /\ at \in Positive => modem.mux /\ modem.server
    /\ serverRunning => modem.mux /\ modem.server

(* Nothing that takes the server away is under way while it runs. *)
NoReset ==
  serverRunning => pc.in \in {"maintain", "poll"} /\ modem.job # "CIPMUX=0"

IInv ==
  /\ TypeOK
  /\ Placed
  /\ ~env.crossing => Answered /\ FollowsOK /\ SingleMode /\ NoReset /\ ServerThere

-----------------------------------------------------------------------------
(* The modes a modem may have after it joined. *)
LEMMA ModeFacts ==
  ASSUME modem \in ModemType, NEW mode \in Modes
  PROVE  /\ mode.mux \in BOOLEAN /\ mode.server \in BOOLEAN
         /\ mode.mux => modem.mux
         /\ env.survives => mode.mux = modem.mux /\ mode.server = modem.server
<1>1. CASE mode = [mux |-> modem.mux, server |-> modem.server]
  BY <1>1 DEF ModemType
<1>2. CASE ~env.survives /\ mode = [mux |-> FALSE, server |-> FALSE]
  BY <1>2
<1>q. QED BY <1>1, <1>2 DEF Modes

(* What carrying out a command does to the modem's mode. *)
LEMMA OutcomeFacts ==
  ASSUME TypeOK, NEW op \in Commands, NEW m \in Outcomes(op)
  PROVE  /\ m \in ModemType
         /\ m.job = "idle"
         /\ op = "CIPMUX=0" => ~m.mux
         /\ op # "CIPMUX=1" /\ m.mux => modem.mux
         /\ env.survives /\ op # "CIPMUX=0" /\ modem.mux => m.mux
         /\ env.survives /\ op # "CIPMUX=0" /\ modem.server => m.server
         /\ op = "CIPSERVER" => m.server
<1>1. modem \in ModemType
  BY DEF TypeOK, ModemType
<1>2. CASE op = "CWJAP"
  <2>1. PICK mode \in Modes :
          m = [[modem EXCEPT !.job = "idle"] EXCEPT !.joined = TRUE, !.mux = mode.mux, !.server = mode.server]
    BY <1>2 DEF Outcomes
  <2>2. /\ mode.mux \in BOOLEAN /\ mode.server \in BOOLEAN
        /\ mode.mux => modem.mux
        /\ env.survives => mode.mux = modem.mux /\ mode.server = modem.server
    BY <1>1, ModeFacts
  <2>3. /\ m \in ModemType /\ m.job = "idle"
        /\ m.mux = mode.mux /\ m.server = mode.server
    BY <1>1, <2>1, <2>2 DEF ModemType
  <2>q. QED BY <1>2, <2>2, <2>3
<1>3. CASE op # "CWJAP"
  BY <1>1, <1>3 DEF Outcomes, ModemType, Commands
<1>q. QED BY <1>2, <1>3

(* The sketch starts with everything to do. *)
LEMMA InitInv ==
  Init => IInv
<1> SUFFICES ASSUME Init PROVE IInv
  OBVIOUS
<1> USE DEF Init, AtBoot, PowerOn
<1>1. TypeOK
  <2>1. tries \in 0..ServerTries /\ restarts \in 0..MaxRestarts
    BY TriesAssumption, RestartsAssumption
  <2>2. pc \in [in : Places, op : Commands \cup {"none"}]
    BY DEF Places, Commands
  <2>3. modem \in [job : Commands \cup {"idle"}, joined : BOOLEAN, mux : BOOLEAN, server : BOOLEAN]
    OBVIOUS
  <2>q. QED BY <2>1, <2>2, <2>3 DEF TypeOK
<1>2. Placed
  BY TriesAssumption DEF Placed
<1>3. Answered /\ FollowsOK /\ SingleMode /\ NoReset /\ ServerThere
  BY DEF Answered, FollowsOK, SingleMode, NoReset, ServerThere, Positive
<1>q. QED BY <1>1, <1>2, <1>3 DEF IInv

(* A line is sent: the modem takes it or drops it. *)
LEMMA SendInv ==
  ASSUME IInv, Send, UNCHANGED <<env, ap, restarts>>
  PROVE  IInv'
BY DEF IInv, TypeOK, Placed, Answered, FollowsOK, SingleMode, NoReset, ServerThere,
       Send, Commands, Places, Positive

(* A call is over and the next one, or loop(), is at hand. *)
LEMMA CallInv ==
  ASSUME IInv, UNCHANGED <<env, ap, restarts, modem>>,
         NEW place \in Places, NEW op \in Commands \cup {"none"}, Call(place, op),
         serverRunning' \in BOOLEAN, tries' \in 0..ServerTries,
         op \in {"ATE0", "CIPMUX=0", "OTA"} => place = "app",
         op \in {"CIFSR", "CIPMUX=1", "CIPSERVER"} => place \in {"start", "maintain"},
         place = "start" => tries' < ServerTries,
         place \in {"app", "check", "retry", "recheck"} => tries' = 0,
         ~env.crossing =>
           /\ (op = "CIPSERVER" \/ (place = "app" /\ op # "ATE0")) => modem.job = "idle"
           /\ (place = "app" /\ op \in {"CWMODE", "CWJAP", "OTA"}) => ~modem.mux
           /\ serverRunning' => place \in {"maintain", "poll"} /\ modem.job # "CIPMUX=0"
           /\ env.survives /\ serverRunning' => modem.mux /\ modem.server
  PROVE  IInv'
<1>1. pc' = [in |-> place, op |-> op] /\ at' = "ready"
  BY DEF Call
<1>2. pc'.in = place /\ pc'.op = op
  BY <1>1
<1>3. TypeOK'
  BY <1>1 DEF IInv, TypeOK
<1>4. Placed'
  BY <1>2 DEF Placed
<1>5. ~env.crossing => (Answered /\ FollowsOK /\ SingleMode /\ NoReset /\ ServerThere)'
  BY <1>1, <1>2 DEF Answered, FollowsOK, SingleMode, NoReset, ServerThere, Positive
<1>q. QED BY <1>3, <1>4, <1>5 DEF IInv

(* What the sketch knows when a call returns. *)
LEMMA CallFacts ==
  ASSUME IInv, NEW op \in Commands, NEW ok \in BOOLEAN, CallEnds(op, ok)
  PROVE  /\ pc.in \in Places /\ pc.op = op
         /\ tries \in 0..ServerTries /\ serverRunning \in BOOLEAN
         /\ op \in {"ATE0", "CIPMUX=0", "OTA"} => pc.in = "app"
         /\ op \in {"CIFSR", "CIPMUX=1", "CIPSERVER"} => pc.in \in {"start", "maintain"}
         /\ pc.in = "start" => tries < ServerTries
         /\ pc.in \in {"app", "check", "retry", "recheck"} => tries = 0
         /\ ~env.crossing =>
              /\ ok => modem.job = "idle"
              /\ (pc.in = "app" /\ op \in {"CWMODE", "CWJAP", "OTA"}) => ~modem.mux
              /\ (op = "CIPMUX=0" /\ ok) => ~modem.mux
              /\ serverRunning => pc.in \in {"maintain", "poll"} /\ modem.job # "CIPMUX=0"
              /\ env.survives /\ serverRunning => modem.mux /\ modem.server
              /\ env.survives /\ op = "CIPSERVER" /\ ok => modem.mux /\ modem.server
BY DEF CallEnds, IInv, TypeOK, Placed, Answered, FollowsOK, SingleMode, NoReset, ServerThere, Positive

(* The steps of the sketch between two commands. *)
LEMMA SketchInv ==
  ASSUME IInv, Sketch, UNCHANGED <<env, ap, restarts>>
  PROVE  IInv'
<1> USE TriesAssumption, CallInv, CallFacts DEF Places, Commands
<1>0. UNCHANGED <<env, ap, restarts, modem>>
  BY DEF Sketch
<1>1. CASE Begin
  BY <1>0, <1>1 DEF Begin
<1>2. CASE JoinAP
  BY <1>0, <1>2 DEF JoinAP, AfterJoin, Loop
<1>3. CASE DownloadAndApply
  BY <1>0, <1>3 DEF DownloadAndApply
<1>4. CASE IsJoined
  <2>1. PICK ok \in BOOLEAN : CallEnds("CWJAP?", ok)
    BY <1>4 DEF IsJoined
  <2>2. UNCHANGED <<tries, serverRunning>>
    BY <1>4 DEF IsJoined
  <2>3. CASE pc.in = "check" /\ Call("recheck", "CWJAP?")
    BY <1>0, <2>1, <2>2, <2>3
  <2>4. CASE pc.in = "check" /\ Call("retry", "CWMODE")
    BY <1>0, <2>1, <2>2, <2>4
  <2>5. CASE pc.in = "recheck" /\ Call("start", "CIFSR")
    BY <1>0, <2>1, <2>2, <2>5
  <2>6. CASE pc.in = "recheck" /\ Call("start", "CIPMUX=1")
    BY <1>0, <2>1, <2>2, <2>6
  <2>7. CASE pc.in = "maintain" /\ \E op \in {"CWMODE", "CIPMUX=1"} : Call("maintain", op)
    BY <1>0, <2>1, <2>2, <2>7
  <2>8. CASE pc.in = "maintain" /\ Call("poll", "none")
    BY <1>0, <2>1, <2>2, <2>8
  <2>q. QED BY <1>4, <2>3, <2>4, <2>5, <2>6, <2>7, <2>8 DEF IsJoined, Maintains, Loop
<1>5. CASE PrintIpAddress
  BY <1>0, <1>5 DEF PrintIpAddress
<1>6. CASE StartServer
  <2>1. CASE CallEnds("CIPMUX=1", TRUE) /\ Call(pc.in, "CIPSERVER") /\ UNCHANGED <<tries, serverRunning>>
    BY <1>0, <2>1
  <2>2. CASE CallEnds("CIPSERVER", TRUE) /\ serverRunning' = TRUE /\ Loop /\ UNCHANGED tries
    <3>1. modem.job = "idle" \/ env.crossing
      BY <2>2, CallFacts
    <3>q. QED BY <1>0, <2>2, <3>1 DEF Loop
  <2>3. ASSUME NEW op \in {"CIPMUX=1", "CIPSERVER"}, CallEnds(op, FALSE), ServerFails
        PROVE  IInv'
    <3>1. /\ pc.in \in {"start", "maintain"} /\ tries \in 0..ServerTries
          /\ pc.in = "start" => tries < ServerTries
      BY <2>3, CallFacts
    <3>2. /\ serverRunning' = FALSE /\ tries' \in 0..ServerTries
          /\ \/ Call("start", "CIPMUX=1") /\ tries' < ServerTries
             \/ Call("poll", "none")
      BY <2>3, <3>1 DEF ServerFails, Loop
    <3>q. QED BY <1>0, <3>2
  <2>q. QED BY <1>6, <2>1, <2>2, <2>3 DEF StartServer
<1>7. CASE CheckWifi
  BY <1>0, <1>7 DEF CheckWifi, IInv, TypeOK, NoReset, ServerThere
<1>q. QED BY <1>1, <1>2, <1>3, <1>4, <1>5, <1>6, <1>7 DEF Sketch

(* The modem's side. *)
LEMMA ModemInv ==
  ASSUME IInv, Modem, UNCHANGED <<env, ap, restarts>>
  PROVE  IInv'
<1> USE DEF IInv, TypeOK, Placed, Answered, FollowsOK, SingleMode, NoReset, ServerThere,
        Places, Positive, Hears, Reply, Possible
<1>1. ASSUME NEW op \in Commands, Does(op)
      PROVE  IInv'
  <2>1. modem' \in Outcomes(op) /\ modem.job = op
    BY <1>1 DEF Does
  <2>2. /\ modem' \in ModemType
        /\ modem'.job = "idle"
        /\ op = "CIPMUX=0" => ~modem'.mux
        /\ op # "CIPMUX=1" /\ modem'.mux => modem.mux
        /\ env.survives /\ op # "CIPMUX=0" /\ modem.mux => modem'.mux
        /\ env.survives /\ op # "CIPMUX=0" /\ modem.server => modem'.server
        /\ op = "CIPSERVER" => modem'.server
    BY <2>1, OutcomeFacts
  <2>3. /\ UNCHANGED <<env, ap, restarts, pc, tries, serverRunning>>
        /\ at' \in {at, "OK", "+CWJAP: OK"}
        /\ at # "sent" => at' = at
        /\ at = "sent" => at' \in Positive
        /\ at = "sent" /\ op # "CWJAP?" => at' = "OK"
        /\ op = "CIPSERVER" => modem.mux
    BY <1>1 DEF Does
  <2>4. TypeOK' /\ Placed'
    BY <2>2, <2>3 DEF ModemType
  <2>5. ASSUME ~env.crossing
        PROVE  (Answered /\ FollowsOK /\ SingleMode /\ NoReset /\ ServerThere)'
    <3>1. Answered' /\ NoReset'
      BY <2>1, <2>2, <2>3, <2>5 DEF Commands
    <3>2. FollowsOK'
      BY <2>1, <2>2, <2>3, <2>5 DEF Commands
    <3>3. SingleMode'
      BY <2>1, <2>2, <2>3, <2>5 DEF Commands
    <3>4. ServerThere'
      BY <2>1, <2>2, <2>3, <2>5 DEF Commands
    <3>q. QED BY <3>1, <3>2, <3>3, <3>4
  <2>q. QED BY <2>3, <2>4, <2>5
<1>2. CASE Refuses
  BY <1>2 DEF Refuses, Commands
<1>3. CASE Crosses
  <2>1. PICK m \in Outcomes(modem.job) : modem' = [m EXCEPT !.job = pc.op]
    BY <1>3 DEF Crosses
  <2>2. m \in ModemType
    BY <1>3, <2>1, OutcomeFacts DEF Crosses
  <2>q. QED BY <1>3, <2>1, <2>2 DEF Crosses, ModemType
<1>q. QED BY <1>1, <1>2, <1>3 DEF Modem

(* The access point, and a modem that joins by itself. *)
LEMMA RadioInv ==
  ASSUME IInv, Radio, UNCHANGED <<env, boardVars, restarts>>
  PROVE  IInv'
<1> USE DEF IInv, boardVars
<1>1. modem \in ModemType
  BY DEF TypeOK, ModemType
<1>2. /\ modem' \in ModemType /\ modem'.job = modem.job /\ ap' \in BOOLEAN
      /\ modem'.mux => modem.mux
      /\ env.survives => modem'.mux = modem.mux /\ modem'.server = modem.server
  <2>1. CASE ap' = ~ap /\ modem' = [modem EXCEPT !.joined = @ /\ ap']
    <3>1. ap' \in BOOLEAN /\ (modem.joined /\ ap') \in BOOLEAN
      BY <2>1 DEF TypeOK
    <3>q. QED BY <1>1, <2>1, <3>1 DEF ModemType
  <2>2. CASE UNCHANGED ap /\ modem' \in {[modem EXCEPT !.joined = TRUE, !.mux = m.mux, !.server = m.server] : m \in Modes}
    <3>1. PICK mode \in Modes : modem' = [modem EXCEPT !.joined = TRUE, !.mux = mode.mux, !.server = mode.server]
      BY <2>2
    <3>2. /\ mode.mux \in BOOLEAN /\ mode.server \in BOOLEAN
          /\ mode.mux => modem.mux
          /\ env.survives => mode.mux = modem.mux /\ mode.server = modem.server
      BY <1>1, ModeFacts
    <3>q. QED BY <1>1, <2>2, <3>1, <3>2 DEF ModemType, TypeOK
  <2>q. QED BY <2>1, <2>2 DEF Radio
<1>3. TypeOK' /\ Placed'
  BY <1>2 DEF TypeOK, Placed, ModemType
<1>4. ~env.crossing => (Answered /\ FollowsOK /\ SingleMode /\ NoReset /\ ServerThere)'
  BY <1>2 DEF Answered, FollowsOK, SingleMode, NoReset, ServerThere, Positive
<1>q. QED BY <1>3, <1>4

(* The board restarts, the modem perhaps not. *)
LEMMA RestartInv ==
  ASSUME IInv, Restart
  PROVE  IInv'
<1> USE DEF IInv, Restart, AtBoot
<1>1. TypeOK'
  <2>1. tries' \in 0..ServerTries /\ restarts' \in 0..MaxRestarts
    BY TriesAssumption, RestartsAssumption DEF TypeOK
  <2>2. pc' \in [in : Places, op : Commands \cup {"none"}]
    BY DEF Places, Commands
  <2>3. modem' \in [job : Commands \cup {"idle"}, joined : BOOLEAN, mux : BOOLEAN, server : BOOLEAN]
    <3>1. CASE modem' = modem
      BY <3>1 DEF TypeOK
    <3>2. CASE modem' = PowerOn
      BY <3>2 DEF PowerOn
    <3>q. QED BY <3>1, <3>2
  <2>q. QED BY <2>1, <2>2, <2>3 DEF TypeOK
<1>2. Placed'
  BY TriesAssumption DEF Placed
<1>3. (Answered /\ FollowsOK /\ SingleMode /\ NoReset /\ ServerThere)'
  BY DEF Answered, FollowsOK, SingleMode, NoReset, ServerThere, Positive
<1>q. QED BY <1>1, <1>2, <1>3

LEMMA NextInv ==
  ASSUME IInv, [Next]_vars
  PROVE  IInv'
<1>1. CASE UNCHANGED vars
  BY <1>1 DEF vars, IInv, TypeOK, Placed, Answered, FollowsOK, SingleMode, NoReset, ServerThere
<1>2. CASE Next
  BY <1>2, SendInv, SketchInv, ModemInv, RadioInv, RestartInv DEF Next
<1>q. QED BY <1>1, <1>2

LEMMA Invariance ==
  Spec => []IInv
BY InitInv, NextInv, PTL DEF Spec

-----------------------------------------------------------------------------
(* Every variable keeps its type: setup() never exceeds its attempts to    *)
(* start the server.                                                       *)
THEOREM TypeCorrect == Spec => []TypeOK
<1>1. IInv => TypeOK
  BY DEF IInv
<1>q. QED BY <1>1, Invariance, PTL

(* wiflashDownloadAndApply() always runs in single-connection mode.        *)
THEOREM OtaMode == Spec => []OtaOnSingleConnection
<1>1. IInv => OtaOnSingleConnection
  BY DEF IInv, OtaOnSingleConnection, SingleMode, Placed
<1>q. QED BY <1>1, Invariance, PTL

(* serverRunning is TRUE only while the modem's server is up.              *)
THEOREM ServerTruth == Spec => []ServerIsUp
<1>1. IInv => ServerIsUp
  BY DEF IInv, ServerIsUp, ServerThere
<1>q. QED BY <1>1, Invariance, PTL
=============================================================================
