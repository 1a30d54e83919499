------------------------------ MODULE MmioStress -----------------------------
(***************************************************************************)
(* mmio_stress.c and its AFU.  The program finds the AFU by the header,    *)
(* resets it and goes through four steps: it writes and reads back all of  *)
(* its memory with 32-bit accesses, then with 64-bit accesses.  In a step  *)
(* each worker thread goes through a part of the memory of its own; the    *)
(* threads are joined before the next step.  A word of the memory is       *)
(* given the offset that addresses it.                                     *)
(* The driver and the link (external) carry one request per clock, reads   *)
(* at least MinGap clocks apart, and return a response to the thread whose *)
(* transaction id it has.  The program runs again and again.               *)
(***************************************************************************)
EXTENDS StressAfu, FiniteSets

CONSTANTS
  NumWorkers,   \* NUM_MMIO_WORKERS
  MinGap,       \* clocks from a read to the next one, at least
  ResetClocks   \* clocks softreset is high, at least

ASSUME WorkersAssumption == NumWorkers \in Nat \ {0} /\ NumWords % NumWorkers = 0
ASSUME GapAssumption == MinGap \in Nat \ {0}
ASSUME ResetAssumption == ResetClocks \in Nat /\ ResetClocks >= 5

Workers == 1 .. NumWorkers
Main == 0
ASSUME TidsAssumption == Tids = {Main} \cup Workers

VARIABLES
  pc,         \* where main is
  step,       \* 1 write 32, 2 read 32, 3 write 64, 4 read 64
  created,    \* workers of this step created so far
  offset,     \* [Tids -> Nat]: where a thread is, in 32-bit halves
  pend,       \* [Tids -> the read it waits for]
  held,       \* clocks softreset has been high
  gap,        \* clocks since the last read arrived, up to MinGap
  reported,   \* "Error => Unexpected MMIO readback" at these offsets
  found       \* fpgaEnumerate has matched the GUID so far

progVars == <<pc, step, created, offset, pend, reported, found>>
linkVars == <<held, gap>>
vars == <<afuVars, progVars, linkVars>>

NoRead == [op |-> "none"]
softreset == pc \in {"power-up", "reset"}

Init ==
  /\ AfuInit
  /\ pc = "power-up" /\ step = 1 /\ created = 0
  /\ offset = [t \in Tids |-> 0] /\ pend = [t \in Tids |-> NoRead]
  /\ held = 0 /\ gap = MinGap /\ reported = {} /\ found = TRUE

-----------------------------------------------------------------------------
start_offset(t) == (t - 1) * ((2 * NumWords) \div NumWorkers)
end_offset(t) == t * ((2 * NumWords) \div NumWorkers)

write_not_read == step \in {1, 3}
enable_64bit == step \in {3, 4}
Size == IF enable_64bit THEN 2 ELSE 1

(* fpgaEnumerate (external) reads the two words of the GUID.               *)
Working(t) ==
  IF t = Main THEN pc = "enumerate" /\ offset[Main] < 6
  ELSE pc = "steps" /\ t <= created /\ offset[t] < end_offset(t)

(***************************************************************************)
(* What a thread asks for next, and what it does with an answer.           *)
(***************************************************************************)
Request(t) ==
  IF t = Main THEN [op |-> "read", len |-> 64, dw |-> offset[Main], tid |-> Main]
  ELSE IF write_not_read
    THEN [op |-> "write", len |-> 32 * Size, dw |-> offset[t], data |-> <<4 * offset[t], 0>>]
    ELSE [op |-> "read", len |-> 32 * Size, dw |-> offset[t], tid |-> t]

Asks(t) ==
  /\ Working(t) /\ pend[t] = NoRead
  /\ Request(t).op = "read" => gap >= MinGap

Wrong(t, data) ==
  data # IF t = Main THEN afu_dfh[offset[Main] \div 2] ELSE <<4 * offset[t], 0>>

(* The request rx arrives and the response at the port is taken.           *)
Program(rx, asking) ==
  LET answered == {t \in Tids : c2.valid /\ c2.tid = t /\ pend[t] # NoRead}
      moving == answered \cup {t \in asking : rx.op = "write"}
      wrong == {t \in answered : Wrong(t, c2.data)}
  IN  /\ pend' = [t \in Tids |-> IF t \in answered THEN NoRead
                                 ELSE IF t \in asking /\ rx.op = "read" THEN rx ELSE pend[t]]
      /\ offset' = [t \in Tids |-> IF t \notin moving THEN offset[t]
                                   ELSE IF t = Main THEN offset[t] + 2 ELSE offset[t] + Size]
      /\ found' = (found /\ Main \notin wrong)
      /\ reported' = reported \cup {offset[t] : t \in wrong \ {Main}}
      /\ gap' = IF rx.op = "read" THEN 1 ELSE IF gap < MinGap THEN gap + 1 ELSE gap

(* A clock in which nobody asks, and one in which thread t does.           *)
Tick ==
  /\ Clk(softreset, NoReq)
  /\ Program(NoReq, {})
  /\ held' = IF softreset /\ held < ResetClocks THEN held + 1 ELSE held
  /\ UNCHANGED <<pc, step, created>>

Ask(t) ==
  /\ Asks(t)
  /\ Clk(softreset, Request(t))
  /\ Program(Request(t), {t})
  /\ UNCHANGED <<pc, step, created, held>>

-----------------------------------------------------------------------------
(* Main, between two clocks.                                               *)
Goes(to) ==
  /\ pc' = to
  /\ held' = IF to \in {"power-up", "reset"} THEN 0 ELSE held
  /\ UNCHANGED <<afuVars, gap, pend>>

PowerUpDone ==
  /\ pc = "power-up" /\ held = ResetClocks
  /\ Goes("enumerate")
  /\ offset' = [offset EXCEPT ![Main] = 2] /\ found' = TRUE
  /\ UNCHANGED <<step, created, reported>>

(* num_matches < 1: "AFC not found", else fpgaOpen, fpgaMapMMIO, fpgaReset. *)
Enumerated ==
  /\ pc = "enumerate" /\ offset[Main] >= 6 /\ pend[Main] = NoRead
  /\ Goes(IF found THEN "reset" ELSE "ended")
  /\ UNCHANGED <<step, created, offset, found, reported>>

ResetDone ==
  /\ pc = "reset" /\ held = ResetClocks
  /\ Goes("steps")
  /\ step' = 1 /\ created' = 0
  /\ UNCHANGED <<offset, found, reported>>

(* pthread_create: the next worker starts; if it fails the program exits   *)
(* and the workers stop where they are.                                    *)
Create ==
  /\ pc = "steps" /\ created < NumWorkers
  /\ created' = created + 1
  /\ offset' = [offset EXCEPT ![created + 1] = start_offset(created + 1)]
  /\ Goes("steps")
  /\ UNCHANGED <<step, found, reported>>

Exit ==
  /\ pc = "steps" /\ created < NumWorkers
  /\ pc' = "ended" /\ pend' = [t \in Tids |-> NoRead]
  /\ UNCHANGED <<afuVars, linkVars, reported, step, created, offset, found>>

(* JOIN_ALL_WORKERS, and the next step, or fpgaClose.                      *)
Joined_first == pend[1] = NoRead /\ offset[1] >= end_offset(1)
Joined == \A t \in Workers : pend[t] = NoRead /\ offset[t] >= end_offset(t)

Join ==
  /\ pc = "steps" /\ created = NumWorkers /\ Joined
  /\ Goes(IF step < 4 THEN "steps" ELSE "ended")
  /\ step' = IF step < 4 THEN step + 1 ELSE step
  /\ created' = IF step < 4 THEN 0 ELSE created
  /\ UNCHANGED <<offset, found, reported>>

(* The next program.  The simulator resets the AFU for it (external), long *)
(* after the last request.                                                 *)
Restart ==
  /\ pc = "ended" /\ Quiet
  /\ Goes("power-up")
  /\ reported' = {}
  /\ UNCHANGED <<step, created, offset, found>>

MainStep == PowerUpDone \/ Enumerated \/ ResetDone \/ Create \/ Join \/ Restart
Next == Tick \/ (\E t \in Tids : Ask(t)) \/ MainStep \/ Exit

Spec == Init /\ [][Next]_vars

(***************************************************************************)
(* The clock and every thread go on.  pthread_create need not fail.        *)
(***************************************************************************)
FairSpec ==
  /\ Spec
  /\ WF_vars(Tick)
  /\ WF_vars(MainStep)
  /\ \A t \in Tids : WF_vars(Ask(t))

-----------------------------------------------------------------------------
(***************************************************************************)
(* "Unexpected MMIO readback" is never printed: each read of a worker      *)
(* returns what the step before it wrote, whatever the other workers are   *)
(* doing and whichever half of the word it is about.                       *)
(***************************************************************************)
ReadBack == reported = {}

(***************************************************************************)
(* A response has the transaction id of a thread that waits for a read;    *)
(* only a thread that has exited leaves a response nobody waits for.       *)
(***************************************************************************)
AnswersAreWaitedFor == c2.valid /\ pc # "ended" => pend[c2.tid] # NoRead

(***************************************************************************)
(* A reset restores the header the program before has overwritten, however *)
(* long it lasts beyond one round of the reset state machine: the AFU is   *)
(* found by every program.                                                 *)
(***************************************************************************)
HeaderRestored ==
  pc = "enumerate" => found /\ \A w \in 1 .. 2 : mem[w] = afu_dfh[w] \/
                         (ram_write_en /\ ram_addr = w /\ ram_data_in = afu_dfh[w])

(***************************************************************************)
(* No read is left without an answer and no join waits for ever: every     *)
(* program ends.                                                           *)
(***************************************************************************)
Ends == []<>(pc = "ended")
=============================================================================
