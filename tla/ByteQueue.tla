----------------------------- MODULE ByteQueue -----------------------------
(***************************************************************************)
(* What Esp8285Client promises the OTA of its receive buffer: a queue of   *)
(* at most RxSize bytes.  A byte that finds the queue full is lost, the    *)
(* bytes before and after it are not; the reader takes bytes in order from *)
(* the front; closing or opening a connection empties the queue.           *)
(***************************************************************************)
EXTENDS Naturals, Sequences

CONSTANTS
  Byte,
  RxSize   \* RX_BUF_SIZE (16384 in the code)

VARIABLE queue

BQInit == queue = <<>>

Put(c) == queue' = IF Len(queue) < RxSize THEN Append(queue, c) ELSE queue

Take(n) == queue' = SubSeq(queue, n + 1, Len(queue))

Clear == queue' = <<>>

BQNext ==
  \/ \E c \in Byte : Put(c)
  \/ \E n \in 1..Len(queue) : Take(n)
  \/ Clear

BQSpec == BQInit /\ [][BQNext]_queue
=============================================================================
