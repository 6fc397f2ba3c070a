--------------------------- MODULE MCEsp8285Server ---------------------------
(***************************************************************************)
(* Instances of Esp8285Server: what the modem sends, written with the      *)
(* frame format of ESP-AT (external).                                      *)
(***************************************************************************)
EXTENDS Esp8285Server

(* Link ids are 0..4, and one digit is enough for the lengths here. *)
IpdFrame(l, payload) ==
  [bytes   |-> IPD_PREFIX \o <<ZERO + l>> \o <<COMMA>> \o <<ZERO + Len(payload)>> \o <<COLON>> \o payload,
   link    |-> l,
   payload |-> Len(payload)]

Line(bs) == [bytes |-> bs, link |-> 0, payload |-> 0]

(* HC12 frames are six bytes of any value: for connection 1 the six bytes  *)
(* that look most like a header, more than the receive buffer of these     *)
(* instances holds; and "1,CLOSED", by the characters that matter.         *)
CutMessages == { IpdFrame(0, <<5>>),
                 IpdFrame(1, IPD_PREFIX \o <<ZERO + 1>>),
                 Line(<<ZERO + 1, COMMA, 67>>) }
=============================================================================
