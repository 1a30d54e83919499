------------------------------ MODULE TxQueue ------------------------------
(***************************************************************************)
(* What the requestor relies on when it queues write requests: a bounded   *)
(* first-in first-out queue whose head is visible in the cycle it is       *)
(* accepted, and whose accepted element reaches the consumer, in order,    *)
(* two clocks later.  nlb_C1Tx_fifo is shown to implement it (C1TxFifo).   *)
(* A write offered to a full queue is dropped, an acknowledge of an empty  *)
(* one does nothing.                                                       *)
(***************************************************************************)
EXTENDS Naturals, Sequences

CONSTANTS
  Values,      \* what a queued request carries
  NoItem,      \* nothing is delivered
  Cap,         \* number of entries
  FullThresh   \* almFull is raised from this many entries on

VARIABLES
  q,         \* the queued requests, oldest first
  head,      \* what the consumer sees at the read port
  almFull,   \* the early warning the producer sees
  out        \* <<accepted one clock ago, accepted two clocks ago>>

qvars == <<q, head, almFull, out>>

(***************************************************************************)
(* The registered outputs always describe the queue they go with.          *)
(***************************************************************************)
HeadOf(s) == IF s = <<>> THEN NoItem ELSE Head(s)

Outputs(s) ==
  /\ head = HeadOf(s)
  /\ almFull = (Len(s) >= FullThresh)

Init ==
  /\ q = <<>>
  /\ Outputs(q)
  /\ out = <<NoItem, NoItem>>

Clear ==
  /\ q' = <<>> /\ head' = HeadOf(q') /\ almFull' = (Len(q') >= FullThresh)
  /\ out' = <<NoItem, NoItem>>

(***************************************************************************)
(* One clock: possibly a write of v, possibly an acknowledge of the head.  *)
(***************************************************************************)
Clock(push, v, pop) ==
  LET rest == IF pop /\ q # <<>> THEN Tail(q) ELSE q
  IN  /\ q' = IF push /\ Len(q) < Cap THEN Append(rest, v) ELSE rest
      /\ head' = HeadOf(q') /\ almFull' = (Len(q') >= FullThresh)
      /\ out' = <<IF pop THEN HeadOf(q) ELSE NoItem, out[1]>>

Next ==
  \/ Clear
  \/ \E push, pop \in BOOLEAN, v \in Values : Clock(push, v, pop)

Spec == Init /\ [][Next]_qvars
=============================================================================
