--------------------------- MODULE MCEsp8285Client ---------------------------
(***************************************************************************)
(* Instances of Esp8285Client: a response that is, to the byte, a '>' as   *)
(* in the modem's prompt and the line it closes a connection with.         *)
(***************************************************************************)
EXTENDS Esp8285Client

PromptAndClosed == <<GT>> \o ClosedLine
=============================================================================
