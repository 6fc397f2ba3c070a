------------------------------- MODULE MCBoot -------------------------------
(***************************************************************************)
(* Instances of Boot: every kind of modem at once, each fixed for a run,   *)
(* and the modem that forgets its mode.                                    *)
(***************************************************************************)
EXTENDS Boot

AllModems == [survives : BOOLEAN, crossing : BOOLEAN]

ForgetfulModem == {[survives |-> FALSE, crossing |-> FALSE]}
=============================================================================
