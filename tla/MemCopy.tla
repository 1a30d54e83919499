------------------------------ MODULE MemCopy ------------------------------
(***************************************************************************)
(* What the loopback test promises its user: the first n lines of the      *)
(* source buffer appear in the destination buffer, each written once and   *)
(* unchanged, in any order, and completion is reported after the last one. *)
(***************************************************************************)
EXTENDS Naturals

CONSTANTS
  Sizes,    \* the line counts a test may be configured with
  Src(_),   \* what the source buffer holds at a line
  Blank     \* a line of the destination not yet written

VARIABLES
  n,        \* the number of lines to copy
  dst,      \* the destination buffer
  done      \* completion has been reported

cvars == <<n, dst, done>>

Lines == 0 .. n - 1

Init ==
  /\ n \in Sizes
  /\ dst = [a \in Lines |-> Blank]
  /\ done = FALSE

CopyLine(a) ==
  /\ ~done
  /\ dst[a] = Blank
  /\ dst' = [dst EXCEPT ![a] = Src(a)]
  /\ UNCHANGED <<n, done>>

Finish ==
  /\ dst = [a \in Lines |-> Src(a)]
  /\ done' = TRUE
  /\ UNCHANGED <<n, dst>>

Next == (\E a \in Lines : CopyLine(a)) \/ Finish

Spec == Init /\ [][Next]_cvars
FairSpec == Spec /\ WF_cvars(Next)
=============================================================================
