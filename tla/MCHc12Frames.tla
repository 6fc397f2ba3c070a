---------------------------- MODULE MCHc12Frames ----------------------------
(***************************************************************************)
(* An instance of Hc12Frames with bytes of two bits.                       *)
(***************************************************************************)
EXTENDS Hc12Frames, Bitwise

XorBits(a, b) == a ^^ b

SomeTemperatures == {-2, 0, 3, 4, 15}
=============================================================================
