------------------------------ MODULE C1Stream -----------------------------
(***************************************************************************)
(* What the link sees on channel C1 during one run of a test: whole write  *)
(* packets, then one write fence, then one status write and possibly one   *)
(* interrupt, and nothing more until the test is reset.                    *)
(***************************************************************************)
EXTENDS Naturals

CONSTANTS
  Quiet,       \* nothing is sent
  MaxLen       \* lines of the longest packet

VARIABLES
  phase,       \* "writing", "fenced", "reported" or "notified"
  sent,        \* what is being sent
  open         \* lines of the current packet still to be sent

svars == <<phase, sent, open>>

Init == phase = "writing" /\ sent = Quiet /\ open = 0

Pause == sent' = Quiet /\ UNCHANGED <<phase, open>>

(* The first line of a packet opens it, the others follow in order.        *)
Write(sop, len) ==
  /\ phase = "writing"
  /\ IF sop THEN open = 0 ELSE open = len + 1
  /\ sent' = [sop |-> sop, len |-> len] /\ open' = len
  /\ UNCHANGED phase

Fence ==
  /\ phase = "writing" /\ open = 0
  /\ sent' = [msg |-> "fence"] /\ phase' = "fenced" /\ UNCHANGED open

Report ==
  /\ phase = "fenced"
  /\ sent' = [msg |-> "status"] /\ phase' = "reported" /\ UNCHANGED open

Notify ==
  /\ phase = "reported"
  /\ sent' = [msg |-> "interrupt"] /\ phase' = "notified" /\ UNCHANGED open

(* The software resets the test only when the run is over or not started.  *)
Reset ==
  /\ open = 0 /\ phase # "fenced"
  /\ sent' = Quiet /\ phase' = "writing" /\ UNCHANGED open

Next ==
  \/ Pause \/ Fence \/ Report \/ Notify \/ Reset
  \/ \E sop \in BOOLEAN, len \in 0 .. MaxLen - 1 : Write(sop, len)

Spec == Init /\ [][Next]_svars
=============================================================================
