---------------------------- MODULE MCWiFlashOta ----------------------------
(***************************************************************************)
(* Instances of WiFlashOta: versions that share their first block and      *)
(* differ in length, so that the files of two versions can be mixed and    *)
(* part of the mix still verifies.                                         *)
(***************************************************************************)
EXTENDS WiFlashOta

TwoImages == << <<1, 2>>, <<1, 3, 4>> >>

ThreeImages == << <<1, 2>>, <<1, 3, 4>>, <<1, 3>> >>

AllOrNone == {AllFaults, {}}

PowerOnly == {{"power"}}
=============================================================================
