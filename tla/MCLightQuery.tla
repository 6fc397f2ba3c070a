---------------------------- MODULE MCLightQuery ----------------------------
(***************************************************************************)
(* Instances of LightQuery: the light_test.py processes, two link ids (so  *)
(* that a link is reused and a second one is taken), the environments, and *)
(* the symmetry of the processes, which the runs without liveness          *)
(* properties use.                                                         *)
(***************************************************************************)
EXTENDS LightQuery, TLC

CONSTANTS c1, c2

OneClient  == {c1}
TwoClients == {c1, c2}

TwoLinks == {0, 1}

ClientSymmetry == Permutations(Clients)

(* Nobody times out early, the modem refuses nothing, a header may be torn. *)
Torn(t) == [timely |-> TRUE, tears |-> TRUE, refuses |-> FALSE, attempts |-> 3, ticks |-> t]

(* Nobody times out early, the modem may refuse, no header is torn. *)
Timely(t) == [timely |-> TRUE, tears |-> FALSE, refuses |-> TRUE, attempts |-> 3, ticks |-> t]

(* Anything may time out at any moment: one attempt per query bounds it. *)
Late(t) == [timely |-> FALSE, tears |-> TRUE, refuses |-> TRUE, attempts |-> 1, ticks |-> t]

AloneOrLate == {Torn(1), Late(1)}
PairOrLate  == {Timely(1), Torn(1), Late(0)}
AloneOnly   == {Timely(0)}
AloneTicks  == {Timely(1)}
=============================================================================
