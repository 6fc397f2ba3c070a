----------------------------- MODULE FrameServer -----------------------------
(***************************************************************************)
(* What the light-sensor server promises the sketch that uses it, at the   *)
(* level of whole "+IPD" frames: one connection is served at a time, it is *)
(* picked by the first frame that arrives while nobody is served, the      *)
(* payload of its frames is stored up to the capacity of its buffer, and   *)
(* the payload of any other connection is counted and thrown away.         *)
(*                                                                         *)
(* Esp8285Server is shown to implement this module; LightQuery uses its    *)
(* actions with one byte per request.                                      *)
(***************************************************************************)
EXTENDS Naturals, Sequences

CONSTANTS
  BufSize,    \* capacity of a connection's receive and transmit buffers
  Byte,       \* what a payload is made of
  LinkId,     \* the link ids a frame header can carry
  FrameLen,   \* the payload lengths a frame header can announce
  WriteSizes  \* the sizes of the pieces an answer is queued in

VARIABLES
  client,     \* the served connection: its id, its receive buffer and the read position in it, the bytes to send
  frame       \* the payload being received: where it goes and how much of it is left

fsVars == <<client, frame>>

NoClient == [active |-> FALSE, linkId |-> 0, rx |-> <<>>, head |-> 0, txLen |-> 0]

(* A connection that was just elected: reset(), then _active and _linkId. *)
Serving(l) == [active |-> TRUE, linkId |-> l, rx |-> <<>>, head |-> 0, txLen |-> 0]

NoFrame  == [phase |-> "none", left |-> 0]

FSInit ==
  /\ client = NoClient
  /\ frame = NoFrame

-----------------------------------------------------------------------------
(* A header for link l announcing n bytes: it elects l when nobody is served. *)
OpenFrame(l, n) ==
  LET served == IF client.active
                THEN client
                ELSE Serving(l)
      where  == IF l = served.linkId THEN "copy" ELSE "discard"
  IN /\ frame.phase = "none"
     /\ client' = served
     /\ frame' = IF n = 0 THEN NoFrame ELSE [phase |-> where, left |-> n]

(* One payload byte: stored while there is room for it, counted always. *)
PayloadByte(b) ==
  /\ frame.phase # "none"
  /\ client' = IF frame.phase = "copy" /\ Len(client.rx) < BufSize
               THEN [client EXCEPT !.rx = Append(@, b)]
               ELSE client
  /\ frame' = IF frame.left = 1 THEN NoFrame ELSE [frame EXCEPT !.left = @ - 1]

(* The sketch takes the next byte of the served connection. *)
ReadNext ==
  /\ client.head < Len(client.rx)
  /\ client' = [client EXCEPT !.head = @ + 1]
  /\ UNCHANGED frame

(* The sketch queues n bytes of an answer, as many as fit. *)
Queue(n) ==
  /\ client.active
  /\ client' = [client EXCEPT !.txLen = IF n > BufSize - @ THEN BufSize ELSE @ + n]
  /\ UNCHANGED frame

(* The queue is handed to the modem, or given up on: it is empty afterwards. *)
Send ==
  /\ client.active
  /\ client.txLen > 0
  /\ client' = [client EXCEPT !.txLen = 0]
  /\ UNCHANGED frame

(* The connection is given up, whatever was still to come of its frame. *)
Drop ==
  /\ client.active
  /\ client' = NoClient
  /\ frame' = NoFrame

FSNext ==
  \/ \E l \in LinkId, n \in FrameLen : OpenFrame(l, n)
  \/ \E b \in Byte : PayloadByte(b)
  \/ ReadNext
  \/ \E n \in WriteSizes : Queue(n)
  \/ Send
  \/ Drop

FSSpec == FSInit /\ [][FSNext]_fsVars
=============================================================================
