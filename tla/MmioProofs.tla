------------------------------ MODULE MmioProofs -----------------------------
(***************************************************************************)
(* For every memory, number of workers and reset: if reads arrive at least *)
(* three clocks apart, the answer of a read has the transaction id of the  *)
(* thread that waits for it, although the AFU keeps only the id of the     *)
(* last read that arrived; and its data is what that thread expects, so    *)
(* that no worker ever reads back anything but what was written, and the   *)
(* header of the AFU is there whenever a program looks for it.             *)
(***************************************************************************)
EXTENDS MmioStress, TLAPS

(* A read is in one of the three stages before the response.               *)
Stage == ram_read_en \/ ram_data_valid \/ ram_data_masked_valid

Types ==
  /\ ram_read_en \in BOOLEAN /\ ram_data_valid \in BOOLEAN
  /\ ram_data_masked_valid \in BOOLEAN /\ c2.valid \in BOOLEAN
  /\ DOMAIN c2 = {"valid", "tid", "data"}
  /\ ram_tid_out \in Tids /\ c2.tid \in Tids /\ gap \in Nat

(* The stage a read is in tells how long ago it arrived: there is one.     *)
Ages ==
  /\ ram_read_en => gap = 1
  /\ ram_data_valid => gap = 2
  /\ ram_data_masked_valid => gap >= 3

(* The read in a stage, and the one answered, are waited for, and they are *)
(* reads of two threads.                                                   *)
Waited ==
  pc # "ended" =>
    /\ Stage => pend[ram_tid_out] # NoRead
    /\ c2.valid => pend[c2.tid] # NoRead
    /\ Stage /\ c2.valid => ram_tid_out # c2.tid

(* A thread waits only where it works, and a reset finds nothing under way. *)
Placed ==
  \A t \in Tids : pend[t] # NoRead =>
    (t = Main /\ pc = "enumerate") \/ (t \in Workers /\ pc = "steps")
Calm == softreset => Quiet

WaitInv == Types /\ Ages /\ Waited /\ Placed /\ Calm

LEMMA WaitInit == Init => WaitInv
<1> SUFFICES ASSUME Init PROVE WaitInv
  OBVIOUS
<1>1. Types
  BY GapAssumption DEF Init, AfuInit, Types
<1>2. Quiet
  BY DEF Init, AfuInit, Quiet
<1> QED BY <1>1, <1>2 DEF Init, WaitInv, Ages, Waited, Placed, Calm, Stage, Quiet

(***************************************************************************)
(* A clock out of reset: each stage hands the read on to the next, and     *)
(* only a read that arrives changes the transaction id.                    *)
(***************************************************************************)
LEMMA ClkHandsOn ==
  ASSUME NEW rx, ~softreset, Clk(softreset, rx), rx.op \in {"none", "write", "read"}
  PROVE  /\ ram_data_valid' = ram_read_en
         /\ ram_data_masked_valid' = ram_data_valid
         /\ c2' = [valid |-> ram_data_masked_valid, tid |-> ram_tid_out,
                   data |-> ram_data_masked]
         /\ rx.op # "read" => ram_read_en' = FALSE /\ ram_tid_out' = ram_tid_out
         /\ rx.op = "read" => ram_read_en' = TRUE /\ ram_tid_out' = rx.tid
<1>1. ClkRequest(rx) /\ ClkResponse(softreset)
  BY DEF Clk
<1>2. /\ ram_data_valid' = ram_read_en /\ ram_data_masked_valid' = ram_data_valid
      /\ c2' = [valid |-> ram_data_masked_valid, tid |-> ram_tid_out,
                data |-> ram_data_masked]
  BY <1>1 DEF ClkResponse
<1>3. CASE ClkWrite(rx)
  BY <1>2, <1>3 DEF ClkWrite
<1>4. CASE ClkRead(rx)
  BY <1>2, <1>4 DEF ClkRead
<1>5. CASE ClkNone(rx)
  BY <1>2, <1>5 DEF ClkNone
<1> QED BY <1>1, <1>3, <1>4, <1>5 DEF ClkRequest

(***************************************************************************)
(* Such a clock, in which the threads asking, one of them or none, have    *)
(* their request arrive.                                                   *)
(***************************************************************************)
LEMMA ClockWaits ==
  ASSUME MinGap >= 3, WaitInv, NEW rx, NEW asking \in SUBSET Tids,
         ~softreset, Clk(softreset, rx), Program(rx, asking), pc' = pc,
         rx.op \in {"none", "write", "read"},
         rx.op = "read" =>
           gap >= MinGap /\ rx.tid \in Tids /\ asking = {rx.tid} /\ pend[rx.tid] = NoRead
             /\ ((rx.tid = Main /\ pc = "enumerate") \/ (rx.tid \in Workers /\ pc = "steps"))
  PROVE  WaitInv'
<1>0. Types /\ Ages /\ Waited /\ Placed /\ MinGap \in Nat
  BY GapAssumption DEF WaitInv
<1>1. /\ ram_data_valid' = ram_read_en
      /\ ram_data_masked_valid' = ram_data_valid
      /\ c2' = [valid |-> ram_data_masked_valid, tid |-> ram_tid_out,
                data |-> ram_data_masked]
      /\ rx.op # "read" => ram_read_en' = FALSE /\ ram_tid_out' = ram_tid_out
      /\ rx.op = "read" => ram_read_en' = TRUE /\ ram_tid_out' = rx.tid
  BY ClkHandsOn
<1>2. c2'.valid = ram_data_masked_valid /\ c2'.tid = ram_tid_out
      /\ DOMAIN c2' = {"valid", "tid", "data"}
  BY <1>1
<1>3. gap' = IF rx.op = "read" THEN 1 ELSE IF gap < MinGap THEN gap + 1 ELSE gap
  BY DEF Program
<1>4. Types'
  <2>1. /\ ram_data_valid' \in BOOLEAN /\ ram_data_masked_valid' \in BOOLEAN
        /\ c2'.valid \in BOOLEAN /\ c2'.tid \in Tids
    BY <1>0, <1>1, <1>2 DEF Types
  <2>2. ram_read_en' \in BOOLEAN /\ ram_tid_out' \in Tids
    BY <1>0, <1>1 DEF Types
  <2>3. gap' \in Nat
    BY <1>0, <1>3 DEF Types
  <2> QED BY <1>2, <2>1, <2>2, <2>3 DEF Types
<1>5. Ages'
  <2>1. rx.op = "read" => ~ram_read_en /\ ~ram_data_valid
    BY <1>0 DEF Types, Ages
  <2> QED BY <1>0, <1>1, <1>3, <2>1 DEF Types, Ages
<1>6. \A t \in Tids :
        /\ ~(t \in asking /\ rx.op = "read") => pend'[t] = NoRead \/ pend'[t] = pend[t]
        /\ ~(c2.valid /\ c2.tid = t) =>
             pend'[t] = IF t \in asking /\ rx.op = "read" THEN rx ELSE pend[t]
        /\ t \in asking /\ rx.op = "read" => pend'[t] = rx
  <2> DEFINE answered == {t \in Tids : c2.valid /\ c2.tid = t /\ pend[t] # NoRead}
  <2>1. pend' = [t \in Tids |-> IF t \in answered THEN NoRead
                               ELSE IF t \in asking /\ rx.op = "read" THEN rx
                               ELSE pend[t]]
    BY DEF Program
  <2> SUFFICES ASSUME NEW t \in Tids
               PROVE  /\ ~(t \in asking /\ rx.op = "read") => pend'[t] = NoRead \/ pend'[t] = pend[t]
                      /\ ~(c2.valid /\ c2.tid = t) =>
                           pend'[t] = IF t \in asking /\ rx.op = "read" THEN rx ELSE pend[t]
                      /\ t \in asking /\ rx.op = "read" => pend'[t] = rx
    OBVIOUS
  <2>2. t \in answered <=> c2.valid /\ c2.tid = t /\ pend[t] # NoRead
    OBVIOUS
  <2>3. t \in asking /\ rx.op = "read" => pend[t] = NoRead
    OBVIOUS
  <2>4. pend'[t] = IF t \in answered THEN NoRead
                   ELSE IF t \in asking /\ rx.op = "read" THEN rx ELSE pend[t]
    BY <2>1
  <2> HIDE DEF answered
  <2>5. CASE c2.valid /\ c2.tid = t
    BY <2>2, <2>3, <2>4, <2>5
  <2>6. CASE ~(c2.valid /\ c2.tid = t)
    BY <2>2, <2>3, <2>4, <2>6
  <2> QED BY <2>5, <2>6
<1>7. rx.op = "read" => rx # NoRead
  BY DEF NoRead
<1>8. Waited'
  <2> SUFFICES ASSUME pc # "ended"
               PROVE  /\ Stage' => pend'[ram_tid_out'] # NoRead
                      /\ c2'.valid => pend'[c2'.tid] # NoRead
                      /\ Stage' /\ c2'.valid => ram_tid_out' # c2'.tid
    BY DEF Waited
  <2>1. /\ Stage => pend[ram_tid_out] # NoRead
        /\ Stage /\ c2.valid => ram_tid_out # c2.tid
    BY <1>0 DEF Waited
  <2>2. Stage => pend'[ram_tid_out] # NoRead
    BY <1>0, <1>6, <1>7, <2>1 DEF Types
  <2>3. c2'.valid => Stage
    BY <1>2 DEF Stage
  <2>4. CASE rx.op = "read"
    <3>1. ~ram_read_en /\ ~ram_data_valid
      BY <1>0, <2>4 DEF Types, Ages
    <3>2. pend'[rx.tid] # NoRead
      BY <1>6, <1>7, <2>4
    <3>3. Stage => rx.tid # ram_tid_out
      BY <2>1, <2>4
    <3> QED BY <1>1, <1>2, <2>2, <2>3, <2>4, <3>2, <3>3
  <2>5. CASE rx.op # "read"
    <3>1. Stage' => ram_read_en \/ ram_data_valid
      BY <1>1, <2>5 DEF Stage
    <3>2. c2'.valid => ~Stage'
      BY <1>0, <1>2, <3>1 DEF Types, Ages
    <3>3. Stage' => Stage
      BY <3>1 DEF Stage
    <3> QED BY <1>1, <1>2, <2>2, <2>3, <2>5, <3>2, <3>3
  <2> QED BY <2>4, <2>5
<1>9. Placed'
  <2> SUFFICES ASSUME NEW t \in Tids, pend'[t] # NoRead
               PROVE  (t = Main /\ pc = "enumerate") \/ (t \in Workers /\ pc = "steps")
    BY DEF Placed
  <2>1. CASE t \in asking /\ rx.op = "read"
    <3>1. t = rx.tid
      BY <2>1
    <3> QED BY <2>1, <3>1
  <2>2. CASE ~(t \in asking /\ rx.op = "read")
    <3>1. pend[t] # NoRead
      BY <1>6, <2>2
    <3> QED BY <1>0, <3>1 DEF Placed
  <2> QED BY <2>1, <2>2
<1>10. Calm'
  BY DEF Calm, softreset
<1> QED BY <1>4, <1>5, <1>8, <1>9, <1>10 DEF WaitInv

(***************************************************************************)
(* A clock in reset: nothing is under way and nobody asks.                 *)
(***************************************************************************)
LEMMA ResetWaits == WaitInv /\ Tick /\ softreset => WaitInv'
<1> SUFFICES ASSUME WaitInv, Tick, softreset PROVE WaitInv'
  OBVIOUS
<1>1. Types /\ Placed /\ Quiet
  BY DEF WaitInv, Calm
<1>2. pc' = pc /\ Clk(softreset, NoReq) /\ Program(NoReq, {})
  BY DEF Tick
<1>3. ClkReset /\ ClkResponse(softreset)
  BY <1>2 DEF Clk
<1>4. ram_read_en' = ram_read_en /\ ram_tid_out' = ram_tid_out
  BY <1>3 DEF ClkReset, read
<1>5. /\ ram_data_valid' = ram_read_en /\ ram_data_masked_valid' = ram_data_valid
      /\ c2' = [c2 EXCEPT !.valid = FALSE]
  BY <1>3 DEF ClkResponse
<1>6. Types'
  <2>1. gap' \in Nat
    BY <1>1, <1>2 DEF Program, Types, NoReq
  <2>2. c2'.valid = FALSE /\ c2'.tid = c2.tid /\ DOMAIN c2' = {"valid", "tid", "data"}
    BY <1>1, <1>5 DEF Types
  <2> QED BY <1>1, <1>4, <1>5, <2>1, <2>2 DEF Types
<1>7. Quiet'
  BY <1>1, <1>4, <1>5 DEF Quiet, Types
<1>8. Placed'
  <2>1. \A t \in Tids : pend'[t] = pend[t]
    BY <1>1, <1>2 DEF Program, Quiet
  <2> QED BY <1>1, <1>2, <2>1 DEF Placed
<1> QED BY <1>6, <1>7, <1>8 DEF WaitInv, Ages, Waited, Calm, Stage, Quiet

LEMMA TickWaits == ASSUME MinGap >= 3 PROVE WaitInv /\ Tick => WaitInv'
<1> SUFFICES ASSUME WaitInv, Tick PROVE WaitInv'
  OBVIOUS
<1>1. CASE softreset
  BY <1>1, ResetWaits
<1>2. CASE ~softreset
  <2>1. pc' = pc /\ Clk(softreset, NoReq) /\ Program(NoReq, {})
    BY DEF Tick
  <2>2. NoReq.op = "none"
    BY DEF NoReq
  <2> QED BY <1>2, <2>1, <2>2, ClockWaits
<1> QED BY <1>1, <1>2

LEMMA AskWaits ==
  ASSUME MinGap >= 3, NEW t \in Tids PROVE WaitInv /\ Ask(t) => WaitInv'
<1> SUFFICES ASSUME WaitInv, Ask(t) PROVE WaitInv'
  OBVIOUS
<1>1. /\ pc' = pc /\ Clk(softreset, Request(t)) /\ Program(Request(t), {t})
      /\ Working(t) /\ pend[t] = NoRead
      /\ Request(t).op = "read" => gap >= MinGap
  BY DEF Ask, Asks
<1>2. (t = Main /\ pc = "enumerate") \/ (t \in Workers /\ pc = "steps")
  BY <1>1, TidsAssumption DEF Working
<1>3. ~softreset
  BY <1>2 DEF softreset
<1>4. Request(t).op \in {"write", "read"} /\ (Request(t).op = "read" => Request(t).tid = t)
  BY DEF Request
<1> HIDE DEF Request
<1> QED BY <1>1, <1>2, <1>3, <1>4, ClockWaits

(***************************************************************************)
(* Main, between two clocks.                                               *)
(***************************************************************************)
LEMMA MainWaits == WaitInv /\ (MainStep \/ Exit) => WaitInv'
<1> SUFFICES ASSUME WaitInv, MainStep \/ Exit PROVE WaitInv'
  OBVIOUS
<1>0. Types /\ Ages /\ Waited /\ Placed /\ Calm
  BY DEF WaitInv
<1>1. UNCHANGED <<afuVars, gap>> => Types' /\ Ages' /\ Stage' = Stage /\ Quiet' = Quiet
        /\ c2' = c2 /\ ram_tid_out' = ram_tid_out
  BY <1>0 DEF afuVars, read, Types, Ages, Stage, Quiet
<1>2. CASE PowerUpDone
  <2>1. UNCHANGED <<afuVars, gap, pend>> /\ pc = "power-up" /\ pc' = "enumerate"
    BY <1>2 DEF PowerUpDone, Goes
  <2>2. Quiet
    BY <1>0, <2>1 DEF Calm, softreset
  <2> QED BY <1>0, <1>1, <2>1, <2>2 DEF WaitInv, Waited, Placed, Calm, Stage, Quiet, softreset
<1>3. CASE Enumerated
  <2>1. UNCHANGED <<afuVars, gap, pend>> /\ pc = "enumerate" /\ pc' \in {"reset", "ended"}
        /\ pend[Main] = NoRead
    BY <1>3 DEF Enumerated, Goes
  <2>2. \A t \in Tids : pend[t] = NoRead
    BY <1>0, <2>1 DEF Placed
  <2>3. Quiet
    BY <1>0, <2>1, <2>2 DEF Waited, Quiet, Stage, Types
  <2> QED BY <1>1, <2>1, <2>2, <2>3 DEF WaitInv, Waited, Placed, Calm, Stage, Quiet
<1>4. CASE ResetDone
  <2>1. UNCHANGED <<afuVars, gap, pend>> /\ pc = "reset" /\ pc' = "steps"
    BY <1>4 DEF ResetDone, Goes
  <2>2. Quiet
    BY <1>0, <2>1 DEF Calm, softreset
  <2> QED BY <1>0, <1>1, <2>1, <2>2 DEF WaitInv, Waited, Placed, Calm, Stage, Quiet, softreset
<1>5. CASE Create
  <2>1. UNCHANGED <<afuVars, gap, pend>> /\ pc = "steps" /\ pc' = "steps"
    BY <1>5 DEF Create, Goes
  <2> QED BY <1>0, <1>1, <2>1 DEF WaitInv, Waited, Placed, Calm, softreset
<1>6. CASE Exit
  <2>1. UNCHANGED <<afuVars, gap>> /\ pc' = "ended" /\ \A t \in Tids : pend'[t] = NoRead
    BY <1>6 DEF Exit, linkVars
  <2> QED BY <1>1, <2>1 DEF WaitInv, Waited, Placed, Calm, softreset
<1>7. CASE Join
  <2>1. UNCHANGED <<afuVars, gap, pend>> /\ pc = "steps" /\ pc' \in {"steps", "ended"}
        /\ \A t \in Workers : pend[t] = NoRead
    BY <1>7 DEF Join, Goes, Joined
  <2>2. \A t \in Tids : pend[t] = NoRead
    BY <1>0, <2>1 DEF Placed
  <2> QED BY <1>0, <1>1, <2>1, <2>2 DEF WaitInv, Waited, Placed, Calm, softreset
<1>8. CASE Restart
  <2>1. UNCHANGED <<afuVars, gap, pend>> /\ pc = "ended" /\ pc' = "power-up" /\ Quiet
    BY <1>8 DEF Restart, Goes
  <2> QED BY <1>0, <1>1, <2>1 DEF WaitInv, Waited, Placed, Calm, Stage, Quiet
<1> QED BY <1>2, <1>3, <1>4, <1>5, <1>6, <1>7, <1>8 DEF MainStep

LEMMA WaitStep == ASSUME MinGap >= 3 PROVE WaitInv /\ [Next]_vars => WaitInv'
<1> SUFFICES ASSUME WaitInv, [Next]_vars PROVE WaitInv'
  OBVIOUS
<1>1. CASE Tick
  BY <1>1, TickWaits
<1>2. CASE \E t \in Tids : Ask(t)
  BY <1>2, AskWaits
<1>3. CASE MainStep \/ Exit
  BY <1>3, MainWaits
<1>4. CASE UNCHANGED vars
  <2>1. UNCHANGED <<afuVars, gap, pend, pc>>
    BY <1>4 DEF vars, progVars, linkVars
  <2> QED BY <2>1 DEF afuVars, read, WaitInv, Types, Ages, Waited, Placed, Calm, Stage, Quiet,
            softreset
<1> QED BY <1>1, <1>2, <1>3, <1>4 DEF Next

(***************************************************************************)
(* Every response has the transaction id of a thread that waits for it, if *)
(* reads arrive at least three clocks apart.                               *)
(***************************************************************************)
THEOREM AnswersAreWaitedForInvariant ==
  ASSUME MinGap >= 3 PROVE Spec => []AnswersAreWaitedFor
<1>1. WaitInv => AnswersAreWaitedFor
  BY DEF WaitInv, Waited, AnswersAreWaitedFor
<1>2. WaitInv /\ [Next]_vars => WaitInv'
  BY WaitStep
<1> QED BY WaitInit, <1>1, <1>2, PTL DEF Spec

-----------------------------------------------------------------------------
(***************************************************************************)
(* The data.  The memory as the next edge leaves it, and its 32-bit halves. *)
(***************************************************************************)
Eff(w) ==
  IF ram_write_en /\ ram_addr = w
    THEN [h \in Halves |-> IF h \in ram_byte_en THEN ram_data_in[h] ELSE mem[w][h]]
    ELSE mem[w]
Half(i) == Eff(i \div 2)[1 + (i % 2)]

Pair == [Halves -> Int]

DataTypes ==
  /\ mem \in [Words -> Pair] /\ ram_data_in \in Pair
  /\ ram_write_en \in BOOLEAN /\ ram_byte_en \in SUBSET Halves /\ ram_addr \in Words
  /\ rst_state \in ResetStates /\ held \in Nat
  /\ pc \in {"power-up", "enumerate", "reset", "steps", "ended"}
  /\ step \in 1 .. 4 /\ created \in 0 .. NumWorkers
  /\ offset \in [Tids -> Nat] /\ found \in BOOLEAN

(***************************************************************************)
(* The header.  The reset state machine wrote word w so many clocks ago,   *)
(* if the reset has lasted that long.                                      *)
(***************************************************************************)
Since(w) ==
  CASE rst_state = "ResetIdle"  -> 3 - w
    [] rst_state = "ResetLine1" -> 4 - w
    [] rst_state = "ResetLine2" -> IF w = 0 THEN 0 ELSE 5 - w
    [] rst_state = "ResetLine3" -> IF w = 2 THEN 4 ELSE 1 - w
    [] rst_state = "ResetDone"  -> 2 - w

Header ==
  /\ softreset => \A w \in 0 .. 2 : Since(w) < held => Eff(w) = afu_dfh[w]
  /\ softreset /\ held > 0 /\ ram_write_en => ram_byte_en = Halves
  /\ pc = "enumerate" =>
       /\ \A w \in 0 .. 2 : Eff(w) = afu_dfh[w]
       /\ ram_write_en => ram_byte_en = Halves
       /\ found /\ offset[Main] \in {2, 4, 6}

(***************************************************************************)
(* The steps.  A worker is within its part of the memory, at a whole word  *)
(* in a 64-bit step; what it has left behind it in a step that writes, and *)
(* all of the memory in one that reads, holds what was written.            *)
(***************************************************************************)
Right(i) == Half(i) = IF enable_64bit /\ i % 2 = 1 THEN 0 ELSE 4 * i

Inside(t) ==
  /\ offset[t] \in start_offset(t) .. end_offset(t)
  /\ enable_64bit => offset[t] % 2 = 0

Written ==
  pc = "steps" =>
    /\ \A t \in 1 .. created : Inside(t)
    /\ write_not_read =>
         \A t \in 1 .. created : \A i \in start_offset(t) .. offset[t] - 1 : Right(i)
    /\ ~write_not_read => \A i \in 0 .. 2 * NumWords - 1 : Right(i)

(***************************************************************************)
(* The reads under way: each stage has what the thread that waits wants.   *)
(***************************************************************************)
Want(t) == IF t = Main THEN afu_dfh[offset[Main] \div 2] ELSE <<4 * offset[t], 0>>

Typed ==
  /\ ram_read_type = (IF ram_tid_out = Main THEN 64 ELSE 32 * Size)
  /\ ram_mask_loc = offset[ram_tid_out] % 2

Carried ==
  pc # "ended" =>
    /\ ram_read_en => Typed /\ ~ram_write_en /\ ram_addr = offset[ram_tid_out] \div 2
    /\ ram_data_valid => Typed /\ Masked = Want(ram_tid_out)
    /\ ram_data_masked_valid => ram_data_masked = Want(ram_tid_out)
    /\ c2.valid => c2.data = Want(c2.tid)

Reading ==
  \A t \in Tids : pend[t] # NoRead =>
    IF t = Main THEN offset[Main] < 6
    ELSE t <= created /\ offset[t] < end_offset(t) /\ ~write_not_read

DataInv == DataTypes /\ Header /\ Written /\ Carried /\ Reading /\ reported = {}

LEMMA Pairs ==
  /\ \A f \in Pair : f = <<f[1], f[2]>> /\ f[1] \in Int /\ f[2] \in Int
  /\ \A a, b \in Int : <<a, b>> \in Pair
BY DEF Pair, Halves

(* A clock puts into the memory what it was to hold.                       *)
LEMMA MemoryAfter ==
  ASSUME DataTypes, ClkRam
  PROVE  /\ mem' \in [Words -> Pair]
         /\ \A w \in Words : mem'[w] = Eff(w) /\ Eff(w) \in Pair
         /\ ~ram_write_en => ram_q' = Eff(ram_addr)
<1>1. \A w \in Words : Eff(w) \in Pair
  BY DEF DataTypes, Eff, Pair, Halves
<1>2. CASE ram_write_en
  BY <1>1, <1>2 DEF DataTypes, ClkRam, Eff
<1>3. CASE ~ram_write_en
  BY <1>1, <1>3 DEF DataTypes, ClkRam, Eff
<1> QED BY <1>2, <1>3

(* And the port makes what it is to hold.                                  *)
LEMMA NothingWritten ==
  ASSUME DataTypes, ClkRam, ram_write_en' = FALSE
  PROVE  \A w \in Words : Eff(w)' = Eff(w)
BY MemoryAfter DEF Eff

LEMMA PortWritten ==
  ASSUME DataTypes, ClkRam, NEW a \in Words, NEW halves, NEW data, WritePort(a, halves, data)
  PROVE  /\ \A w \in Words \ {a} : Eff(w)' = Eff(w)
         /\ Eff(a)' = [h \in Halves |-> IF h \in halves THEN data[h] ELSE Eff(a)[h]]
BY MemoryAfter DEF Eff, WritePort

-----------------------------------------------------------------------------
(***************************************************************************)
(* The parts of the memory.                                                *)
(***************************************************************************)
Share == (2 * NumWords) \div NumWorkers

LEMMA ShareFacts ==
  /\ Share \in Nat \ {0} /\ Share % 2 = 0 /\ NumWorkers * Share = 2 * NumWords
<1> DEFINE q == NumWords \div NumWorkers
<1>1. NumWords \in Nat /\ NumWords >= 3 /\ NumWorkers \in Nat \ {0} /\ NumWords % NumWorkers = 0
  BY WordsAssumption, WorkersAssumption
<1>2. q \in Nat /\ NumWords = NumWorkers * q
  BY <1>1
<1> HIDE DEF q
<1>3. q # 0
  BY <1>1, <1>2
<1>4. 2 * NumWords = NumWorkers * (2 * q)
  BY <1>1, <1>2
<1>5. Share = 2 * q
  BY <1>1, <1>2, <1>4 DEF Share
<1> QED BY <1>2, <1>3, <1>4, <1>5

(* A part is within the memory and begins and ends at a whole word.        *)
LEMMA PartBounds ==
  ASSUME NEW t \in Workers
  PROVE  /\ start_offset(t) \in Nat /\ end_offset(t) = start_offset(t) + Share
         /\ end_offset(t) <= 2 * NumWords
         /\ start_offset(t) % 2 = 0 /\ end_offset(t) % 2 = 0
<1>1. t \in Nat /\ t >= 1 /\ t <= NumWorkers /\ NumWorkers \in Nat /\ NumWords \in Nat
  BY WorkersAssumption, WordsAssumption DEF Workers
<1>2. PICK q \in Nat : Share = 2 * q
  <2>1. Share \div 2 \in Nat /\ Share = 2 * (Share \div 2)
    BY ShareFacts
  <2> QED BY <2>1
<1>3. start_offset(t) = (t - 1) * Share /\ end_offset(t) = t * Share
  BY DEF start_offset, end_offset, Share
<1>4. t * Share = (t - 1) * Share + Share
  BY <1>1, ShareFacts
<1>5. (t - 1) * Share \in Nat
  BY <1>1, ShareFacts
<1>6. (t - 1) * Share = 2 * ((t - 1) * q) /\ (t - 1) * q \in Nat
  BY <1>1, <1>2
<1>7. ((t - 1) * Share) % 2 = 0
  BY <1>6
<1>8. t * Share = 2 * (t * q) /\ t * q \in Nat
  BY <1>1, <1>2
<1>9. (t * Share) % 2 = 0
  BY <1>8
<1>10. t * Share <= NumWorkers * Share
  BY <1>1, ShareFacts
<1> QED BY <1>1, <1>3, <1>4, <1>5, <1>7, <1>9, <1>10, ShareFacts

(* Two parts do not overlap.                                               *)
LEMMA PartsApart ==
  ASSUME NEW t \in Workers, NEW u \in Workers, t < u
  PROVE  end_offset(t) <= start_offset(u)
<1>1. t \in Nat /\ u \in Nat /\ t <= u - 1
  BY DEF Workers
<1>2. t * Share <= (u - 1) * Share
  BY <1>1, ShareFacts
<1> QED BY <1>2 DEF start_offset, end_offset, Share

(* The parts are all of the memory.                                        *)
LEMMA PartsCover ==
  ASSUME NEW i \in 0 .. 2 * NumWords - 1
  PROVE  \E t \in Workers : i \in start_offset(t) .. end_offset(t) - 1
<1> DEFINE t == (i \div Share) + 1
           r == i % Share
<1>1. i \in Nat /\ i < 2 * NumWords /\ Share \in Nat \ {0} /\ NumWorkers \in Nat
  BY ShareFacts, WordsAssumption, WorkersAssumption
<1>2. i \div Share \in Nat /\ r \in 0 .. Share - 1 /\ i = Share * (i \div Share) + r
  BY <1>1
<1>3. t \in Nat /\ t >= 1 /\ i = (t - 1) * Share + r
  BY <1>1, <1>2
<1> HIDE DEF t, r
<1>4. t <= NumWorkers
  <2> SUFFICES ASSUME t >= NumWorkers + 1 PROVE FALSE
    BY <1>1, <1>3
  <2>1. t - 1 \in Nat /\ t - 1 >= NumWorkers
    BY <1>1, <1>3
  <2>2. (t - 1) * Share >= NumWorkers * Share
    BY <1>1, <2>1
  <2> QED BY <1>1, <1>2, <1>3, <2>2, ShareFacts
<1>5. start_offset(t) = (t - 1) * Share /\ end_offset(t) = t * Share
  BY DEF start_offset, end_offset, Share
<1>6. t * Share = (t - 1) * Share + Share
  BY <1>1, <1>3
<1>7. t \in Workers
  BY <1>3, <1>4 DEF Workers
<1>8. (t - 1) * Share \in Nat
  BY <1>1, <1>3
<1> QED BY <1>1, <1>2, <1>3, <1>5, <1>6, <1>7, <1>8

-----------------------------------------------------------------------------
(* A half is in a word of the memory.                                      *)
LEMMA HalfInWord ==
  ASSUME NEW i \in 0 .. 2 * NumWords - 1
  PROVE  /\ i \div 2 \in Words /\ i % 2 \in {0, 1} /\ i = 2 * (i \div 2) + (i % 2)
         /\ 1 + (i % 2) \in Halves
BY WordsAssumption DEF Words, Halves

(* A 32-bit write gives the half it addresses its offset and leaves the    *)
(* others alone, a 64-bit write clears the half after it, too.             *)
LEMMA HalvesWritten ==
  ASSUME DataTypes, ClkRam, NEW rx, ClkWrite(rx), NEW d \in 0 .. 2 * NumWords - 1,
         rx.dw = d, rx.data = <<4 * d, 0>>, rx.len \in {32, 64}, rx.len = 64 => d % 2 = 0
  PROVE  /\ Half(d)' = 4 * d
         /\ rx.len = 64 => Half(d + 1)' = 0
         /\ \A i \in 0 .. 2 * NumWords - 1 : i # d /\ (rx.len = 64 => i # d + 1) =>
              Half(i)' = Half(i)
<1> DEFINE a == d \div 2
<1>1. /\ a \in Words /\ d % 2 \in {0, 1} /\ d = 2 * a + (d % 2)
      /\ d \in Nat /\ a \in Nat /\ d \div 2 = a
  BY HalfInWord, WordsAssumption DEF Words
<1>2. WritePort(a, ByteEn(rx), DataIn(rx))
  BY DEF ClkWrite
<1> HIDE DEF a
<1>3. /\ \A w \in Words \ {a} : Eff(w)' = Eff(w)
      /\ Eff(a)' = [h \in Halves |-> IF h \in ByteEn(rx) THEN DataIn(rx)[h] ELSE Eff(a)[h]]
  BY <1>1, <1>2, PortWritten
<1>4. CASE rx.len = 64
  <2>1. ByteEn(rx) = Halves /\ DataIn(rx) = <<4 * d, 0>> /\ d % 2 = 0
    BY <1>4 DEF ByteEn, DataIn
  <2>2. Eff(a)'[1] = 4 * d /\ Eff(a)'[2] = 0
    BY <1>3, <2>1 DEF Halves
  <2>3. d = 2 * a /\ (d + 1) \div 2 = a /\ (d + 1) % 2 = 1 /\ d \div 2 = a
    BY <1>1, <2>1
  <2>4. Half(d)' = 4 * d /\ Half(d + 1)' = 0
    <3>1. Half(d)' = Eff(a)'[1]
      BY <2>1, <2>3 DEF Half
    <3>2. Half(d + 1)' = Eff(a)'[2]
      <4>1. Half(d + 1)' = Eff((d + 1) \div 2)'[1 + ((d + 1) % 2)]
        BY DEF Half
      <4>2. 1 + ((d + 1) % 2) = 2
        BY <2>3
      <4> QED BY <2>3, <4>1, <4>2
    <3> QED BY <2>2, <3>1, <3>2
  <2>5. ASSUME NEW i \in 0 .. 2 * NumWords - 1, i # d, i # d + 1 PROVE Half(i)' = Half(i)
    <3>1. i \div 2 \in Words /\ i % 2 \in {0, 1} /\ i = 2 * (i \div 2) + (i % 2)
      BY HalfInWord
    <3>2. i \div 2 # a
      BY <1>1, <2>3, <2>5, <3>1
    <3> QED BY <1>3, <3>1, <3>2 DEF Half
  <2> QED BY <1>4, <2>4, <2>5
<1>5. CASE rx.len = 32
  <2>1. ByteEn(rx) = {1 + (d % 2)}
    BY <1>5 DEF ByteEn
  <2>2. DataIn(rx) = IF d % 2 = 0 THEN <<4 * d, 0>> ELSE <<0, 4 * d>>
    BY <1>5 DEF DataIn
  <2>3. DataIn(rx)[1 + (d % 2)] = 4 * d
    BY <1>1, <2>2
  <2>4. \A h \in Halves : Eff(a)'[h] = IF h = 1 + (d % 2) THEN 4 * d ELSE Eff(a)[h]
    BY <1>3, <2>1, <2>3
  <2>5. 1 + (d % 2) \in Halves /\ d \div 2 = a
    BY <1>1 DEF Halves
  <2>6. Half(d)' = 4 * d
    BY <2>4, <2>5 DEF Half
  <2>7. ASSUME NEW i \in 0 .. 2 * NumWords - 1, i # d PROVE Half(i)' = Half(i)
    <3>1. /\ i \div 2 \in Words /\ i % 2 \in {0, 1} /\ i = 2 * (i \div 2) + (i % 2)
          /\ 1 + (i % 2) \in Halves
      BY HalfInWord
    <3>2. CASE i \div 2 = a
      <4>1. 1 + (i % 2) # 1 + (d % 2)
        BY <1>1, <2>7, <3>1, <3>2
      <4> QED BY <2>4, <3>1, <3>2, <4>1 DEF Half
    <3>3. CASE i \div 2 # a
      BY <1>3, <3>1, <3>3 DEF Half
    <3> QED BY <3>2, <3>3
  <2> QED BY <1>5, <2>6, <2>7
<1> QED BY <1>4, <1>5

LEMMA HalvesKept ==
  ASSUME DataTypes, ClkRam, ram_write_en' = FALSE
  PROVE  \A i \in 0 .. 2 * NumWords - 1 : Half(i)' = Half(i)
BY NothingWritten, HalfInWord DEF Half

-----------------------------------------------------------------------------
(***************************************************************************)
(* What a clock does to the program: a thread that is answered moves on,   *)
(* and so does one whose write arrives.                                    *)
(***************************************************************************)
Answered(t) == c2.valid /\ c2.tid = t /\ pend[t] # NoRead
Stride(t) == IF t = Main THEN 2 ELSE Size

(* The request of a clock, and the threads that ask.                       *)
Arrives(rx, asking) ==
  \/ rx = NoReq /\ asking = {}
  \/ \E t \in Tids : Asks(t) /\ rx = Request(t) /\ asking = {t}

LEMMA Moves ==
  ASSUME DataTypes, NEW rx, NEW asking, Arrives(rx, asking), Program(rx, asking), NEW t \in Tids
  PROVE  /\ Answered(t) => pend'[t] = NoRead /\ offset'[t] = offset[t] + Stride(t) /\ t \notin asking
         /\ t \in asking /\ rx.op = "read" => pend'[t] = rx /\ offset'[t] = offset[t]
         /\ t \in asking /\ rx.op # "read" =>
              pend'[t] = NoRead /\ pend[t] = NoRead /\ offset'[t] = offset[t] + Stride(t)
         /\ ~Answered(t) /\ t \notin asking => pend'[t] = pend[t] /\ offset'[t] = offset[t]
         /\ offset' \in [Tids -> Nat]
<1> DEFINE answered == {u \in Tids : c2.valid /\ c2.tid = u /\ pend[u] # NoRead}
           moving == answered \cup {u \in asking : rx.op = "write"}
<1>1. /\ pend' = [u \in Tids |-> IF u \in answered THEN NoRead
                                 ELSE IF u \in asking /\ rx.op = "read" THEN rx ELSE pend[u]]
      /\ offset' = [u \in Tids |-> IF u \notin moving THEN offset[u]
                                   ELSE IF u = Main THEN offset[u] + 2 ELSE offset[u] + Size]
  BY DEF Program
<1>2. /\ t \in answered <=> Answered(t)
      /\ t \in moving <=> Answered(t) \/ (t \in asking /\ rx.op = "write")
  BY DEF Answered
<1>3. t \in asking => pend[t] = NoRead /\ rx.op \in {"read", "write"}
  BY DEF Arrives, Asks, Request
<1>4. Size \in {1, 2} /\ offset \in [Tids -> Nat]
  BY DEF Size, DataTypes
<1> HIDE DEF answered, moving
<1>5. offset' \in [Tids -> Nat]
  BY <1>1, <1>4
<1>6. pend'[t] = IF t \in answered THEN NoRead
                 ELSE IF t \in asking /\ rx.op = "read" THEN rx ELSE pend[t]
  BY <1>1
<1>7. offset'[t] = IF t \notin moving THEN offset[t] ELSE offset[t] + Stride(t)
  BY <1>1 DEF Stride
<1>8. t \in asking => ~Answered(t)
  BY <1>3 DEF Answered
<1>9. CASE t \in asking
  BY <1>2, <1>3, <1>5, <1>6, <1>7, <1>8, <1>9
<1>10. CASE t \notin asking
  BY <1>2, <1>5, <1>6, <1>7, <1>10
<1> QED BY <1>9, <1>10

-----------------------------------------------------------------------------
(***************************************************************************)
(* A clock out of reset.                                                   *)
(***************************************************************************)
Edge(rx, asking) ==
  /\ ~softreset /\ Arrives(rx, asking) /\ Clk(softreset, rx) /\ Program(rx, asking)
  /\ UNCHANGED <<pc, step, created, held>>

(* What can arrive: nothing, a read, or, in a step that writes, a write.   *)
NoneArrives(rx, asking) == rx.op = "none" /\ asking = {} /\ ClkNone(rx)

ReadArrives(rx, t) ==
  /\ ClkRead(rx) /\ rx.op = "read" /\ rx.tid = t /\ gap >= MinGap
  /\ rx.dw = offset[t] /\ rx.len = IF t = Main THEN 64 ELSE 32 * Size
  /\ \/ t = Main /\ pc = "enumerate" /\ offset[t] < 6
     \/ t \in 1 .. created /\ pc = "steps" /\ ~write_not_read /\ offset[t] < end_offset(t)

WriteArrives(rx, t) ==
  /\ ClkWrite(rx) /\ rx.op = "write" /\ t \in 1 .. created /\ pc = "steps" /\ write_not_read
  /\ rx.dw = offset[t] /\ rx.len = 32 * Size /\ rx.data = <<4 * offset[t], 0>>
  /\ offset[t] < end_offset(t)

LEMMA WhatArrives ==
  ASSUME DataTypes, NEW rx, NEW asking, Edge(rx, asking)
  PROVE  \/ NoneArrives(rx, asking)
         \/ \E t \in Tids : asking = {t} /\ pend[t] = NoRead
                            /\ (ReadArrives(rx, t) \/ WriteArrives(rx, t))
<1>1. ClkWrite(rx) \/ ClkRead(rx) \/ ClkNone(rx)
  BY DEF Edge, Clk, ClkRequest
<1>2. CASE rx = NoReq /\ asking = {}
  <2>1. rx.op = "none"
    BY <1>2 DEF NoReq
  <2> QED BY <1>1, <1>2, <2>1 DEF ClkWrite, ClkRead, NoneArrives
<1>3. CASE \E t \in Tids : Asks(t) /\ rx = Request(t) /\ asking = {t}
  <2>1. PICK t \in Tids : Asks(t) /\ rx = Request(t) /\ asking = {t}
    BY <1>3
  <2>2. /\ Working(t) /\ pend[t] = NoRead
        /\ rx.op = "read" => gap >= MinGap
    BY <2>1 DEF Asks
  <2>3. rx.op \in {"read", "write"} /\ rx.dw = offset[t]
    BY <2>1 DEF Request
  <2>4. rx.op # "none"
    BY <2>3
  <2>5. CASE t = Main
    <3>1. pc = "enumerate" /\ offset[t] < 6
      BY <2>2, <2>5 DEF Working
    <3>2. rx.op = "read" /\ rx.tid = t /\ rx.len = 64
      BY <2>1, <2>5 DEF Request
    <3>3. ClkRead(rx)
      BY <1>1, <3>2 DEF ClkWrite, ClkNone
    <3> QED BY <2>1, <2>2, <2>3, <2>5, <3>1, <3>2, <3>3 DEF ReadArrives
  <2>6. CASE t # Main
    <3>1. t \in 1 .. created /\ pc = "steps" /\ offset[t] < end_offset(t)
      BY <2>2, <2>6, TidsAssumption DEF Working, Workers, DataTypes
    <3>2. CASE write_not_read
      <4>1. rx.op = "write" /\ rx.len = 32 * Size /\ rx.data = <<4 * offset[t], 0>>
        BY <2>1, <2>6, <3>2 DEF Request
      <4>2. ClkWrite(rx)
        BY <1>1, <4>1 DEF ClkRead, ClkNone
      <4> QED BY <2>1, <2>2, <2>3, <3>1, <3>2, <4>1, <4>2 DEF WriteArrives
    <3>3. CASE ~write_not_read
      <4>1. rx.op = "read" /\ rx.len = 32 * Size /\ rx.tid = t
        BY <2>1, <2>6, <3>3 DEF Request
      <4>2. ClkRead(rx)
        BY <1>1, <4>1 DEF ClkWrite, ClkNone
      <4> QED BY <2>1, <2>2, <2>3, <2>6, <3>1, <3>3, <4>1, <4>2 DEF ReadArrives
    <3> QED BY <3>2, <3>3
  <2> QED BY <2>5, <2>6
<1> QED BY <1>2, <1>3 DEF Edge, Arrives

(* No answer is wrong.                                                     *)
LEMMA NoneWrong ==
  ASSUME WaitInv, DataInv, NEW rx, NEW asking, Edge(rx, asking)
  PROVE  reported' = {} /\ found' = found
<1> DEFINE answered == {t \in Tids : c2.valid /\ c2.tid = t /\ pend[t] # NoRead}
           wrong == {t \in answered : Wrong(t, c2.data)}
<1>1. ASSUME NEW t \in answered PROVE ~Wrong(t, c2.data)
  <2>1. t \in Tids /\ c2.valid /\ c2.tid = t /\ pend[t] # NoRead
    OBVIOUS
  <2>2. pc # "ended"
    BY <2>1 DEF WaitInv, Placed
  <2>3. c2.data = Want(t)
    BY <2>1, <2>2 DEF DataInv, Carried
  <2> QED BY <2>3 DEF Want, Wrong
<1>2. wrong = {}
  BY <1>1
<1>3. found' = (found /\ Main \notin wrong)
      /\ reported' = reported \cup {offset[t] : t \in wrong \ {Main}}
  BY DEF Edge, Program
<1> HIDE DEF wrong
<1>4. found' = found
  <2>1. found \in BOOLEAN
    BY DEF DataInv, DataTypes
  <2> QED BY <1>2, <1>3, <2>1
<1> QED BY <1>2, <1>3, <1>4 DEF DataInv

(* What is addressed is in the memory.                                     *)
LEMMA AddressInMemory ==
  ASSUME DataTypes, NEW t \in Tids,
         \/ t = Main /\ offset[t] < 6
         \/ t \in 1 .. created /\ offset[t] < end_offset(t)
  PROVE  /\ offset[t] \in 0 .. 2 * NumWords - 1 /\ offset[t] \div 2 \in Words
         /\ t # Main => t \in Workers
<1>1. offset[t] \in Nat /\ NumWords \in Nat /\ NumWords >= 3
  BY WordsAssumption DEF DataTypes
<1>2. offset[t] < 2 * NumWords
  <2>1. CASE t \in 1 .. created
    <3>1. t \in Workers
      BY <2>1, WorkersAssumption DEF DataTypes, Workers
    <3>2. end_offset(t) <= 2 * NumWords /\ end_offset(t) \in Nat
      BY <3>1, PartBounds, ShareFacts
    <3>3. offset[t] < end_offset(t)
      BY <2>1 DEF Main
    <3> QED BY <1>1, <3>2, <3>3
  <2> QED BY <1>1, <2>1
<1>3. t # Main => t \in Workers
  BY TidsAssumption
<1>4. offset[t] \in 0 .. 2 * NumWords - 1
  BY <1>1, <1>2
<1> QED BY <1>3, <1>4, HalfInWord

LEMMA EdgeTypes ==
  ASSUME WaitInv, DataInv, NEW rx, NEW asking, Edge(rx, asking)
  PROVE  DataTypes'
<1>1. DataTypes /\ ClkRam
  BY DEF DataInv, Edge, Clk
<1>2. /\ pc' = pc /\ step' = step /\ created' = created /\ held' = held
      /\ rst_state' = rst_state
  BY DEF Edge, Clk, ClkRequest
<1>3. mem' \in [Words -> Pair]
  BY <1>1, MemoryAfter
<1>4. offset' \in [Tids -> Nat]
  <2>1. Main \in Tids
    BY TidsAssumption
  <2> QED BY <1>1, <2>1, Moves DEF Edge
<1>5. found' \in BOOLEAN
  BY <1>1, NoneWrong DEF DataTypes
<1>6. /\ ram_data_in' \in Pair /\ ram_write_en' \in BOOLEAN
      /\ ram_byte_en' \in SUBSET Halves /\ ram_addr' \in Words
  <2>1. CASE NoneArrives(rx, asking)
    BY <1>1, <2>1 DEF NoneArrives, ClkNone, DataTypes
  <2>2. ASSUME NEW t \in Tids, ReadArrives(rx, t) PROVE <1>6!:
    <3>1. offset[t] \div 2 \in Words
      BY <1>1, <2>2, AddressInMemory DEF ReadArrives
    <3> QED BY <1>1, <2>2, <3>1 DEF ReadArrives, ClkRead, DataTypes
  <2>3. ASSUME NEW t \in Tids, WriteArrives(rx, t) PROVE <1>6!:
    <3>1. offset[t] \div 2 \in Words /\ offset[t] \in 0 .. 2 * NumWords - 1
      BY <1>1, <2>3, AddressInMemory DEF WriteArrives
    <3>2. ByteEn(rx) \in SUBSET Halves
      BY <2>3, <3>1, HalfInWord DEF ByteEn, WriteArrives, Halves
    <3>3. 4 * offset[t] \in Int
      BY <3>1, WordsAssumption
    <3>4. DataIn(rx) = <<4 * offset[t], 0>> \/ DataIn(rx) = <<0, 4 * offset[t]>>
      BY <2>3 DEF DataIn, WriteArrives
    <3>5. DataIn(rx) \in Pair
      BY <3>3, <3>4, Pairs
    <3> QED BY <2>3, <3>1, <3>2, <3>5 DEF WriteArrives, ClkWrite, WritePort
  <2> QED BY <1>1, <2>1, <2>2, <2>3, WhatArrives
<1> QED BY <1>1, <1>2, <1>3, <1>4, <1>5, <1>6 DEF DataTypes

(* Main enumerates: nothing is written, and it reads two words.            *)
LEMMA EdgeHeader ==
  ASSUME WaitInv, DataInv, NEW rx, NEW asking, Edge(rx, asking)
  PROVE  Header'
<1>1. DataTypes /\ ClkRam /\ pc' = pc /\ ~softreset /\ step' = step
  BY DEF DataInv, Edge, Clk
<1>2. ~softreset'
  BY <1>1 DEF softreset
<1> SUFFICES ASSUME pc = "enumerate" PROVE Header'
  BY <1>1, <1>2 DEF Header
<1>3. /\ \A w \in 0 .. 2 : Eff(w) = afu_dfh[w]
      /\ found /\ offset[Main] \in {2, 4, 6}
  BY DEF DataInv, Header
<1>4. ram_write_en' = FALSE
  BY <1>1, WhatArrives DEF NoneArrives, ReadArrives, WriteArrives, ClkNone, ClkRead
<1>5. \A w \in 0 .. 2 : w \in Words
  BY WordsAssumption DEF Words
<1>6. \A w \in 0 .. 2 : Eff(w)' = afu_dfh[w]
  BY <1>1, <1>3, <1>4, <1>5, NothingWritten
<1>7. offset'[Main] \in {2, 4, 6}
  <2>1. Main \in Tids
    BY TidsAssumption
  <2>2. Answered(Main) => offset[Main] < 6
    BY <2>1 DEF Answered, DataInv, Reading
  <2>3. Main \in asking => rx.op = "read"
    <3>1. CASE NoneArrives(rx, asking)
      BY <3>1 DEF NoneArrives
    <3>2. ASSUME NEW t \in Tids, asking = {t}, ReadArrives(rx, t) PROVE rx.op = "read"
      BY <3>2 DEF ReadArrives
    <3>3. ASSUME NEW t \in Tids, WriteArrives(rx, t) PROVE FALSE
      BY <3>3 DEF WriteArrives
    <3> QED BY <1>1, <3>1, <3>2, <3>3, WhatArrives
  <2>4. /\ Answered(Main) => offset'[Main] = offset[Main] + 2
        /\ ~Answered(Main) => offset'[Main] = offset[Main]
    BY <1>1, <2>1, <2>3, Moves DEF Edge, Stride
  <2> QED BY <1>3, <2>2, <2>4
<1>8. found'
  BY <1>3, NoneWrong
<1> QED BY <1>1, <1>2, <1>4, <1>6, <1>7, <1>8 DEF Header

(* A worker that moves on stays within its part.                           *)
LEMMA MovesInside ==
  ASSUME DataTypes, NEW t \in 1 .. created, Inside(t), offset[t] < end_offset(t)
  PROVE  /\ offset[t] + Size \in start_offset(t) .. end_offset(t)
         /\ enable_64bit => (offset[t] + Size) % 2 = 0
<1>1. t \in Workers
  BY WorkersAssumption DEF DataTypes, Workers
<1>2. /\ start_offset(t) \in Nat /\ end_offset(t) \in Nat /\ end_offset(t) % 2 = 0
      /\ start_offset(t) % 2 = 0
  BY <1>1, PartBounds, ShareFacts
<1>3. offset[t] \in start_offset(t) .. end_offset(t) /\ (enable_64bit => offset[t] % 2 = 0)
  BY DEF Inside
<1>4. CASE enable_64bit
  <2>1. Size = 2
    BY <1>4 DEF Size
  <2> QED BY <1>2, <1>3, <1>4, <2>1
<1>5. CASE ~enable_64bit
  <2>1. Size = 1
    BY <1>5 DEF Size
  <2> QED BY <1>2, <1>3, <1>5, <2>1
<1> QED BY <1>4, <1>5

LEMMA EdgeInside ==
  ASSUME WaitInv, DataInv, NEW rx, NEW asking, Edge(rx, asking), pc = "steps",
         NEW t \in 1 .. created
  PROVE  Inside(t)'
<1>1. DataTypes /\ step' = step /\ Arrives(rx, asking) /\ Program(rx, asking) /\ Inside(t)
  BY DEF DataInv, Edge, Written
<1>2. t \in Tids /\ t # Main /\ t \in Workers
  BY <1>1, TidsAssumption, WorkersAssumption DEF DataTypes, Workers, Main
<1>3. (enable_64bit' <=> enable_64bit) /\ Stride(t) = Size
  BY <1>1, <1>2 DEF enable_64bit, Stride
<1>4. CASE offset'[t] = offset[t]
  BY <1>1, <1>3, <1>4 DEF Inside
<1>5. CASE Answered(t) \/ (t \in asking /\ rx.op # "read")
  <2>1. offset'[t] = offset[t] + Size
    BY <1>1, <1>2, <1>3, <1>5, Moves
  <2>2. offset[t] < end_offset(t)
    <3>1. CASE Answered(t)
      BY <1>2, <3>1 DEF Answered, DataInv, Reading
    <3>2. CASE t \in asking /\ rx.op # "read"
      BY <1>1, <3>2, WhatArrives DEF NoneArrives, ReadArrives, WriteArrives
    <3> QED BY <1>5, <3>1, <3>2
  <2>3. /\ offset[t] + Size \in start_offset(t) .. end_offset(t)
        /\ enable_64bit => (offset[t] + Size) % 2 = 0
    BY <1>1, <2>2, MovesInside
  <2> QED BY <1>3, <2>1, <2>3 DEF Inside
<1> QED BY <1>1, <1>2, <1>4, <1>5, Moves

(* What is not written stays.                                              *)
LEMMA EdgeUnwritten ==
  ASSUME WaitInv, DataInv, NEW rx, NEW asking, Edge(rx, asking), pc = "steps",
         ram_write_en' = FALSE, \A t \in asking : rx.op = "read"
  PROVE  Written'
<1>1. DataTypes /\ ClkRam /\ step' = step /\ pc' = pc /\ created' = created
  BY DEF DataInv, Edge, Clk
<1>2. Written
  BY DEF DataInv
<1>3. \A t \in 1 .. created' : Inside(t)'
  BY <1>1, EdgeInside
<1>4. \A i \in 0 .. 2 * NumWords - 1 : Right(i)' <=> Right(i)
  BY <1>1, HalvesKept DEF Right, enable_64bit
<1>5. ASSUME write_not_read, NEW t \in 1 .. created, NEW i \in start_offset(t) .. offset'[t] - 1
      PROVE  Right(i)'
  <2>1. t \in Tids /\ t \in Workers /\ t # Main
    BY <1>1, TidsAssumption, WorkersAssumption DEF DataTypes, Workers, Main
  <2>2. ~Answered(t)
    BY <1>5, <2>1 DEF Answered, DataInv, Reading
  <2>3. offset'[t] = offset[t]
    BY <1>1, <2>1, <2>2, Moves DEF Edge
  <2>4. Right(i)
    BY <1>1, <1>2, <1>5, <2>3 DEF Written
  <2>5. i \in 0 .. 2 * NumWords - 1
    <3>1. /\ start_offset(t) \in Nat /\ end_offset(t) <= 2 * NumWords /\ end_offset(t) \in Nat
          /\ NumWords \in Nat
      BY <2>1, PartBounds, ShareFacts, WordsAssumption
    <3>2. offset[t] \in start_offset(t) .. end_offset(t)
      BY <1>2 DEF Written, Inside
    <3> QED BY <1>5, <2>3, <3>1, <3>2
  <2> QED BY <1>4, <2>4, <2>5
<1>6. write_not_read' <=> write_not_read
  BY <1>1 DEF write_not_read
<1>7. ~write_not_read => \A i \in 0 .. 2 * NumWords - 1 : Right(i)'
  BY <1>2, <1>4 DEF Written
<1>8. start_offset(0) = start_offset(0)' /\ \A t : start_offset(t)' = start_offset(t)
  BY DEF start_offset
<1>9. write_not_read =>
        \A t \in 1 .. created : \A i \in start_offset(t) .. offset'[t] - 1 : Right(i)'
  BY <1>5
<1> QED BY <1>1, <1>3, <1>6, <1>7, <1>8, <1>9 DEF Written

(* A write: the worker that asks leaves behind what it has written and     *)
(* disturbs nobody's part but its own.                                     *)
LEMMA EdgeWritten ==
  ASSUME WaitInv, DataInv, NEW rx, NEW u \in Tids, Edge(rx, {u}), WriteArrives(rx, u)
  PROVE  Written'
<1>1. DataTypes /\ ClkRam /\ step' = step /\ pc' = pc /\ created' = created /\ Written
  BY DEF DataInv, Edge, Clk
<1>2. /\ ClkWrite(rx) /\ rx.op = "write" /\ u \in 1 .. created /\ pc = "steps" /\ write_not_read
      /\ rx.dw = offset[u] /\ rx.len = 32 * Size /\ rx.data = <<4 * offset[u], 0>>
      /\ offset[u] < end_offset(u)
  BY DEF WriteArrives
<1>3. (write_not_read' <=> write_not_read) /\ (enable_64bit' <=> enable_64bit)
  BY <1>1 DEF write_not_read, enable_64bit
<1>4. \A t \in 1 .. created' : Inside(t)'
  BY <1>1, <1>2, EdgeInside
<1>5. u \in Workers /\ u # Main
  BY <1>1, <1>2, AddressInMemory, WorkersAssumption DEF DataTypes, Main
<1>5a. PICK d \in 0 .. 2 * NumWords - 1 : d = offset[u]
  BY <1>1, <1>2, AddressInMemory
<1>6. Inside(u) /\ (enable_64bit => d % 2 = 0)
  BY <1>1, <1>2, <1>5a DEF Written, Inside
<1>7. rx.len \in {32, 64} /\ (rx.len = 64 <=> enable_64bit)
      /\ Size = (IF enable_64bit THEN 2 ELSE 1)
  BY <1>2 DEF Size
<1>8. /\ Half(d)' = 4 * d
      /\ rx.len = 64 => Half(d + 1)' = 0
      /\ \A i \in 0 .. 2 * NumWords - 1 : i # d /\ (rx.len = 64 => i # d + 1) =>
              Half(i)' = Half(i)
  BY <1>1, <1>2, <1>5a, <1>6, <1>7, HalvesWritten
<1>9. offset'[u] = d + Size
  BY <1>1, <1>2, <1>5, <1>5a, Moves DEF Edge, Stride
<1>10. ASSUME NEW t \in 1 .. created, NEW i \in start_offset(t) .. offset'[t] - 1
       PROVE  Right(i)'
  <2>1. t \in Tids /\ t \in Workers /\ t # Main
    BY <1>1, TidsAssumption, WorkersAssumption DEF DataTypes, Workers, Main
  <2>2. /\ start_offset(t) \in Nat /\ end_offset(t) <= 2 * NumWords /\ end_offset(t) \in Nat
        /\ NumWords \in Nat /\ start_offset(u) \in Nat /\ end_offset(u) \in Nat
    BY <1>5, <2>1, PartBounds, ShareFacts, WordsAssumption
  <2>3. offset'[t] \in start_offset(t) .. end_offset(t)
    BY <1>1, <1>4 DEF Inside, start_offset, end_offset
  <2>4. i \in 0 .. 2 * NumWords - 1
    BY <1>10, <2>2, <2>3
  <2>5. CASE i = d
    <3>1. enable_64bit => i % 2 = 0
      BY <1>6, <2>5
    <3> QED BY <1>3, <1>8, <2>5, <3>1 DEF Right
  <2>6. CASE i = d + 1 /\ enable_64bit
    <3>1. i % 2 = 1
      BY <1>5, <1>6, <2>6
    <3>2. Half(i)' = 0
      BY <1>7, <1>8, <2>6
    <3> QED BY <1>3, <2>6, <3>1, <3>2 DEF Right
  <2>7. CASE i # d /\ ~(i = d + 1 /\ enable_64bit)
    <3>1. Half(i)' = Half(i)
      BY <1>7, <1>8, <2>4, <2>7
    <3>2. i \in start_offset(t) .. offset[t] - 1
      <4>1. CASE t = u
        <5>1. i < d + Size /\ i >= start_offset(u) /\ i \in Nat
          BY <1>9, <1>10, <2>2, <2>3, <4>1
        <5> QED BY <1>5a, <1>7, <2>7, <4>1, <5>1
      <4>2. CASE t # u
        <5>1. t \notin {u} /\ ~Answered(t)
          BY <1>2, <2>1, <4>2 DEF Answered, DataInv, Reading
        <5>2. offset'[t] = offset[t]
          BY <1>1, <2>1, <5>1, Moves DEF Edge
        <5> QED BY <1>10, <5>2
      <4> QED BY <4>1, <4>2
    <3>3. Right(i)
      BY <1>1, <1>2, <3>2 DEF Written
    <3> QED BY <1>3, <3>1, <3>3 DEF Right
  <2> QED BY <2>5, <2>6, <2>7
<1>11. \A t : start_offset(t)' = start_offset(t)
  BY DEF start_offset
<1> QED BY <1>1, <1>2, <1>3, <1>4, <1>10, <1>11 DEF Written

(* A thread whose read arrives works in a part of the memory it may read.  *)
LEMMA EdgeReading ==
  ASSUME WaitInv, DataInv, NEW rx, NEW asking, Edge(rx, asking)
  PROVE  Reading'
<1>1. DataTypes /\ step' = step /\ created' = created /\ Reading
  BY DEF DataInv, Edge
<1>2. (write_not_read' <=> write_not_read) /\ \A t : end_offset(t)' = end_offset(t)
  BY <1>1 DEF write_not_read, end_offset
<1> SUFFICES ASSUME NEW t \in Tids, pend'[t] # NoRead
             PROVE  IF t = Main THEN offset'[Main] < 6
                    ELSE t <= created /\ offset'[t] < end_offset(t) /\ ~write_not_read
  BY <1>1, <1>2 DEF Reading, NoRead
<1>3. CASE t \in asking
  <2>1. ReadArrives(rx, t) \/ WriteArrives(rx, t)
    BY <1>1, <1>3, WhatArrives DEF NoneArrives
  <2>2. rx.op = "read" /\ offset'[t] = offset[t]
    BY <1>1, <1>3, Moves DEF Edge
  <2>3. ReadArrives(rx, t)
    BY <2>1, <2>2 DEF WriteArrives
  <2>4. t \in 1 .. created => t # Main /\ t <= created
    BY <1>1 DEF Main, DataTypes
  <2> QED BY <2>2, <2>3, <2>4 DEF ReadArrives
<1>4. CASE t \notin asking
  <2>1. pend[t] # NoRead /\ offset'[t] = offset[t]
    BY <1>1, <1>4, Moves DEF Edge
  <2> QED BY <1>1, <2>1 DEF Reading
<1> QED BY <1>3, <1>4

(***************************************************************************)
(* What a read finds: main the header, a worker what the step before wrote. *)
(***************************************************************************)
ReadOf(t, word) ==
  IF t # Main /\ Size = 1 THEN <<word[1 + (offset[t] % 2)], 0>> ELSE word

LEMMA ReadFinds ==
  ASSUME WaitInv, DataInv, NEW t \in Tids, pend[t] # NoRead
  PROVE  /\ offset[t] \div 2 \in Words
         /\ ReadOf(t, Eff(offset[t] \div 2)) = Want(t)
<1>1. DataTypes /\ Header /\ Written /\ Reading /\ Placed
  BY DEF DataInv, WaitInv
<1>2. CASE t = Main
  <2>1. pc = "enumerate" /\ offset[t] < 6
    BY <1>1, <1>2 DEF Placed, Reading, Workers, Main
  <2>2. offset[t] \in {2, 4}
    BY <1>1, <1>2, <2>1 DEF Header
  <2>3. offset[t] \div 2 \in {1, 2}
    BY <2>2
  <2>4. Eff(offset[t] \div 2) = afu_dfh[offset[t] \div 2]
    BY <1>1, <2>1, <2>3 DEF Header
  <2>5. offset[t] \div 2 \in Words
    BY <1>1, <1>2, <2>1, AddressInMemory
  <2> QED BY <1>2, <2>4, <2>5 DEF ReadOf, Want
<1>3. CASE t # Main
  <2>1. /\ pc = "steps" /\ t <= created /\ offset[t] < end_offset(t) /\ ~write_not_read
        /\ t \in 1 .. created
    BY <1>1, <1>3, TidsAssumption DEF Placed, Reading, Workers, DataTypes
  <2>2. PICK d \in 0 .. 2 * NumWords - 1 : d = offset[t]
    BY <1>1, <2>1, AddressInMemory
  <2>3. d \div 2 \in Words /\ d % 2 \in {0, 1} /\ d = 2 * (d \div 2) + (d % 2)
        /\ d \in Nat /\ NumWords \in Nat
    BY HalfInWord, WordsAssumption
  <2>4. Half(d) = IF enable_64bit /\ d % 2 = 1 THEN 0 ELSE 4 * d
    BY <1>1, <2>1 DEF Written, Right
  <2>5. enable_64bit => d % 2 = 0
    BY <1>1, <2>1, <2>2 DEF Written, Inside
  <2>6. Want(t) = <<4 * d, 0>>
    BY <1>3, <2>2 DEF Want
  <2>7. Half(d) = 4 * d
    BY <2>4, <2>5, <2>3
  <2>8. CASE enable_64bit
    <3>1. Size = 2 /\ d % 2 = 0
      BY <2>5, <2>8 DEF Size
    <3>2. /\ d + 1 \in 0 .. 2 * NumWords - 1 /\ (d + 1) \div 2 = d \div 2
          /\ (d + 1) % 2 = 1
      BY <2>3, <3>1
    <3>3. Half(d + 1) = 0
      BY <1>1, <2>1, <2>8, <3>2 DEF Written, Right
    <3>4. Eff(d \div 2)[1] = 4 * d
      BY <2>7, <3>1 DEF Half
    <3>5. Eff(d \div 2)[2] = 0
      <4>1. Half(d + 1) = Eff((d + 1) \div 2)[1 + ((d + 1) % 2)]
        BY DEF Half
      <4>2. 1 + ((d + 1) % 2) = 2
        BY <3>2
      <4> QED BY <3>2, <3>3, <4>1, <4>2
    <3>6. Eff(d \div 2) \in Pair
      BY <1>1, <2>3 DEF DataTypes, Eff, Pair, Halves
    <3>7. Eff(d \div 2) = <<4 * d, 0>>
      BY <3>4, <3>5, <3>6, Pairs
    <3> QED BY <2>2, <2>3, <2>6, <3>1, <3>7 DEF ReadOf
  <2>9. CASE ~enable_64bit
    <3>1. Size = 1
      BY <2>9 DEF Size
    <3>2. Eff(d \div 2)[1 + (d % 2)] = 4 * d
      BY <2>7 DEF Half
    <3> QED BY <1>3, <2>2, <2>3, <2>6, <3>1, <3>2 DEF ReadOf
  <2> QED BY <2>8, <2>9
<1> QED BY <1>2, <1>3

(* What a thread wants stays the same while it waits.                      *)
LEMMA WantStays ==
  ASSUME WaitInv, DataInv, NEW rx, NEW asking, Edge(rx, asking),
         NEW t \in Tids, pend[t] # NoRead, ~(c2.valid /\ c2.tid = t)
  PROVE  Want(t)' = Want(t) /\ offset'[t] = offset[t] /\ t \notin asking
<1>1. t \notin asking
  BY WhatArrives DEF DataInv, NoneArrives
<1>2. offset'[t] = offset[t]
  BY <1>1, Moves DEF DataInv, Edge, Answered
<1> QED BY <1>1, <1>2 DEF Want

(* Each stage hands on what the thread that waits wants.                   *)
LEMMA EdgeCarried ==
  ASSUME MinGap >= 3, WaitInv, DataInv, NEW rx, NEW asking, Edge(rx, asking)
  PROVE  Carried'
<1>1. DataTypes /\ Carried /\ ClkRam /\ pc' = pc /\ step' = step /\ ~softreset
      /\ Clk(softreset, rx)
  BY DEF DataInv, Edge, Clk
<1>2. Types /\ Ages /\ Waited /\ MinGap \in Nat
  BY GapAssumption DEF WaitInv
<1>3. rx.op \in {"none", "write", "read"}
  BY <1>1, WhatArrives DEF NoneArrives, ReadArrives, WriteArrives
<1>4. /\ ram_data_valid' = ram_read_en
      /\ ram_data_masked_valid' = ram_data_valid
      /\ c2' = [valid |-> ram_data_masked_valid, tid |-> ram_tid_out,
                data |-> ram_data_masked]
      /\ rx.op # "read" => ram_read_en' = FALSE /\ ram_tid_out' = ram_tid_out
      /\ rx.op = "read" => ram_read_en' = TRUE /\ ram_tid_out' = rx.tid
  BY <1>1, <1>3, ClkHandsOn
<1>5. rx.op = "read" => ~ram_read_en /\ ~ram_data_valid
  <2>1. rx.op = "read" => gap >= MinGap
    BY <1>1, WhatArrives DEF NoneArrives, ReadArrives, WriteArrives
  <2> QED BY <1>2, <2>1 DEF Types, Ages
<1>6. rx.op # "read" => ram_read_type' = ram_read_type /\ ram_mask_loc' = ram_mask_loc
  BY <1>1 DEF Clk, ClkRequest, ClkWrite, ClkRead, ClkNone
<1> SUFFICES ASSUME pc # "ended" PROVE Carried'
  BY <1>1 DEF Carried
<1>7. (enable_64bit' <=> enable_64bit) /\ Size' = Size
  BY <1>1 DEF enable_64bit, Size
<1>8. Stage => /\ ram_tid_out \in Tids /\ pend[ram_tid_out] # NoRead
               /\ ~(c2.valid /\ c2.tid = ram_tid_out)
  BY <1>2 DEF Waited, Types
<1>9. PICK t \in Tids : t = ram_tid_out
  BY <1>2 DEF Types
<1>10. Stage => Want(t)' = Want(t) /\ offset'[t] = offset[t]
  BY <1>8, <1>9, WantStays
<1>11. ram_read_en' =>
         Typed' /\ ~ram_write_en' /\ ram_addr' = offset'[ram_tid_out'] \div 2
  <2> SUFFICES ASSUME rx.op = "read"
               PROVE  Typed' /\ ~ram_write_en' /\ ram_addr' = offset'[ram_tid_out'] \div 2
    BY <1>4
  <2>1. PICK u \in Tids : asking = {u} /\ ReadArrives(rx, u)
    BY <1>1, WhatArrives DEF NoneArrives, WriteArrives
  <2>2. offset'[u] = offset[u] /\ ram_tid_out' = u
    BY <1>1, <1>4, <2>1, Moves DEF Edge, ReadArrives
  <2>3. /\ ram_write_en' = FALSE /\ ram_addr' = offset[u] \div 2
        /\ ram_read_type' = (IF u = Main THEN 64 ELSE 32 * Size)
        /\ ram_mask_loc' = offset[u] % 2
    BY <2>1 DEF ReadArrives, ClkRead
  <2> QED BY <1>7, <2>2, <2>3 DEF Typed
<1>12. ram_data_valid' => Typed' /\ Masked' = Want(ram_tid_out)'
  <2> SUFFICES ASSUME ram_read_en PROVE Typed' /\ Masked' = Want(t)' /\ ram_tid_out' = t
    BY <1>4 DEF Want
  <2>1. rx.op # "read" /\ Stage /\ ram_tid_out' = t
    BY <1>4, <1>5, <1>9 DEF Stage
  <2>2. Typed /\ ~ram_write_en /\ ram_addr = offset[t] \div 2
    BY <1>1, <1>9 DEF Carried
  <2>3. Typed'
    BY <1>6, <1>7, <1>9, <1>10, <2>1, <2>2 DEF Typed
  <2>4. ram_q' = Eff(offset[t] \div 2)
    BY <1>1, <2>2, MemoryAfter
  <2>5. ReadOf(t, Eff(offset[t] \div 2)) = Want(t)
    BY <1>8, <1>9, <2>1, ReadFinds
  <2>6. Masked' = ReadOf(t, ram_q')
    <3>1. Size \in {1, 2}
      BY DEF Size
    <3>2. ram_read_type' = 32 <=> t # Main /\ Size = 1
      BY <1>6, <1>9, <2>1, <2>2, <3>1 DEF Typed
    <3>3. ram_mask_loc' = offset[t] % 2
      BY <1>6, <1>9, <2>1, <2>2 DEF Typed
    <3> QED BY <3>2, <3>3 DEF Masked, ReadOf
  <2> QED BY <1>10, <2>1, <2>3, <2>4, <2>5, <2>6
<1>13. ram_data_masked_valid' => ram_data_masked' = Want(ram_tid_out)'
  <2> SUFFICES ASSUME ram_data_valid PROVE ram_data_masked' = Want(t)' /\ ram_tid_out' = t
    BY <1>4 DEF Want
  <2>1. rx.op # "read" /\ Stage /\ ram_tid_out' = t
    BY <1>4, <1>5, <1>9 DEF Stage
  <2>2. Masked = Want(t)
    BY <1>1, <1>9 DEF Carried
  <2>3. ram_data_masked' = Masked
    BY <1>1 DEF Clk, ClkResponse
  <2> QED BY <1>10, <2>1, <2>2, <2>3
<1>14. c2'.valid => c2'.data = Want(c2.tid)'
  <2> SUFFICES ASSUME ram_data_masked_valid
               PROVE  ram_data_masked = Want(t)'
    BY <1>4, <1>9 DEF Want
  <2>1. ram_data_masked = Want(t)
    BY <1>1, <1>9 DEF Carried
  <2> QED BY <1>10, <2>1 DEF Stage
<1> QED BY <1>11, <1>12, <1>13, <1>14 DEF Carried

LEMMA EdgeData ==
  ASSUME MinGap >= 3, WaitInv, DataInv, NEW rx, NEW asking, Edge(rx, asking)
  PROVE  DataInv'
<1>1. DataTypes' /\ Header' /\ Carried' /\ Reading' /\ reported' = {}
  BY EdgeTypes, EdgeHeader, EdgeCarried, EdgeReading, NoneWrong
<1>2. Written'
  <2>1. pc' = pc /\ DataTypes
    BY DEF Edge, DataInv
  <2> SUFFICES ASSUME pc = "steps" PROVE Written'
    BY <2>1 DEF Written
  <2>2. CASE NoneArrives(rx, asking)
    <3>1. ram_write_en' = FALSE /\ \A t \in asking : rx.op = "read"
      BY <2>2 DEF NoneArrives, ClkNone
    <3> QED BY <3>1, EdgeUnwritten
  <2>3. ASSUME NEW t \in Tids, asking = {t}, ReadArrives(rx, t) PROVE Written'
    BY <2>3, EdgeUnwritten DEF ReadArrives, ClkRead
  <2>4. ASSUME NEW t \in Tids, asking = {t}, WriteArrives(rx, t) PROVE Written'
    BY <2>4, EdgeWritten
  <2> QED BY <2>1, <2>2, <2>3, <2>4, WhatArrives
<1> QED BY <1>1, <1>2 DEF DataInv

-----------------------------------------------------------------------------
(***************************************************************************)
(* A clock in reset: the state machine writes the header word by word.     *)
(***************************************************************************)
LEMMA ResetHeader ==
  ASSUME DataTypes, Header, ClkRam, ClkReset, softreset, pc' = pc,
         held' = IF held < ResetClocks THEN held + 1 ELSE held
  PROVE  Header'
<1>1. softreset' /\ pc' # "enumerate"
  BY DEF softreset
<1>2. rst_state \in ResetStates /\ held \in Nat /\ ResetClocks \in Nat /\ ResetClocks >= 5
  BY ResetAssumption DEF DataTypes
<1>3. \A w \in 0 .. 2 : w \in Words /\ w \in Nat
  BY WordsAssumption DEF Words
<1>4. ram_write_en' => ram_byte_en' = Halves
  BY DEF ClkReset, WritePort
<1>5. ASSUME NEW w \in 0 .. 2, Since(w)' < held' PROVE Eff(w)' = afu_dfh[w]
  <2>1. w \in Words /\ w \in {0, 1, 2}
    BY <1>3
  <2>2. CASE ClkReset /\ WritePort(w, Halves, afu_dfh[w])
    <3>1. Eff(w)' = [h \in Halves |-> afu_dfh[w][h]]
      BY <2>1, <2>2, PortWritten
    <3>2. afu_dfh[w] = <<-1 - 2 * w, -2 - 2 * w>>
      BY <2>1 DEF afu_dfh
    <3> DEFINE f == [h \in Halves |-> afu_dfh[w][h]]
    <3>3. f \in Pair /\ f[1] = -1 - 2 * w /\ f[2] = -2 - 2 * w
      BY <1>3, <3>2 DEF Pair, Halves
    <3> HIDE DEF f
    <3>4. f = <<-1 - 2 * w, -2 - 2 * w>>
      BY <3>3, Pairs
    <3> QED BY <3>1, <3>2, <3>4 DEF f
  <2>3. CASE ~WritePort(w, Halves, afu_dfh[w])
    <3>1. Since(w)' = Since(w) + 1 /\ Since(w) \in Nat /\ Since(w)' <= 4
      BY <1>2, <2>1, <2>3 DEF ClkReset, Since, ResetNext, ResetStates
    <3>2. Since(w) < held
      BY <1>2, <1>5, <3>1
    <3>3. Eff(w) = afu_dfh[w]
      BY <3>2 DEF Header
    <3>4. Eff(w)' = Eff(w)
      <4>1. CASE ram_write_en' = FALSE
        BY <2>1, <4>1, NothingWritten
      <4>2. ASSUME NEW v \in 0 .. 2, WritePort(v, Halves, afu_dfh[v]) PROVE Eff(w)' = Eff(w)
        <5>1. v \in Words /\ v # w
          BY <1>3, <2>3, <4>2
        <5> QED BY <2>1, <4>2, <5>1, PortWritten
      <4>3. \/ ram_write_en' = FALSE
            \/ WritePort(0, Halves, afu_dfh[0])
            \/ WritePort(1, Halves, afu_dfh[1])
            \/ WritePort(2, Halves, afu_dfh[2])
        BY DEF ClkReset
      <4>4. 0 \in 0 .. 2 /\ 1 \in 0 .. 2 /\ 2 \in 0 .. 2
        OBVIOUS
      <4> QED BY <4>1, <4>2, <4>3, <4>4, Zenon
    <3> QED BY <3>3, <3>4
  <2> QED BY <2>2, <2>3
<1> QED BY <1>1, <1>4, <1>5 DEF Header

LEMMA ResetData == WaitInv /\ DataInv /\ Tick /\ softreset => DataInv'
<1> SUFFICES ASSUME WaitInv, DataInv, Tick, softreset PROVE DataInv'
  OBVIOUS
<1>1. DataTypes /\ Header /\ Quiet /\ Placed /\ Types /\ reported = {}
  BY DEF WaitInv, DataInv, Calm
<1>2. /\ pc' = pc /\ step' = step /\ created' = created
      /\ ClkReset /\ ClkRam /\ ClkResponse(softreset) /\ Program(NoReq, {})
      /\ held' = IF held < ResetClocks THEN held + 1 ELSE held
  BY DEF Tick, Clk
<1>3. \A t \in Tids : pend[t] = NoRead
  BY <1>1 DEF Placed, softreset
<1>4. offset' = offset /\ reported' = reported /\ found' = found
      /\ \A t \in Tids : pend'[t] = NoRead
  <2>1. offset' = [t \in Tids |-> offset[t]]
    BY <1>2, <1>3 DEF Program
  <2>2. offset' = offset
    BY <1>1, <2>1 DEF DataTypes
  <2> DEFINE answered == {t \in Tids : c2.valid /\ c2.tid = t /\ pend[t] # NoRead}
             wrong == {t \in answered : Wrong(t, c2.data)}
  <2>3. wrong = {}
    BY <1>3
  <2>4. found' = (found /\ Main \notin wrong)
        /\ reported' = reported \cup {offset[t] : t \in wrong \ {Main}}
    BY <1>2 DEF Program
  <2> HIDE DEF wrong
  <2>5. found' = found /\ reported' = reported
    <3>1. found \in BOOLEAN
      BY <1>1 DEF DataTypes
    <3> QED BY <2>3, <2>4, <3>1
  <2>6. \A t \in Tids : pend'[t] = NoRead
    BY <1>2, <1>3 DEF Program, NoReq
  <2> QED BY <2>2, <2>5, <2>6
<1>5. Header'
  BY <1>1, <1>2, ResetHeader
<1>6. Carried'
  <2>1. ~ram_read_en' /\ ~ram_data_valid' /\ ~ram_data_masked_valid'
    BY <1>1, <1>2 DEF Quiet, ClkReset, read, ClkResponse
  <2>2. c2'.valid = FALSE
    BY <1>1, <1>2 DEF ClkResponse, Types
  <2> QED BY <2>1, <2>2 DEF Carried
<1>7. Written' /\ Reading'
  BY <1>2, <1>4 DEF Written, Reading, softreset, NoRead
<1>8. DataTypes'
  <2>1. mem' \in [Words -> Pair]
    BY <1>1, <1>2, MemoryAfter
  <2>2. rst_state' \in ResetStates
    BY <1>1, <1>2 DEF ClkReset, ResetNext, ResetStates, DataTypes
  <2>3. \A w \in 0 .. 2 : w \in Words /\ afu_dfh[w] \in Pair
    <3>1. ASSUME NEW w \in 0 .. 2 PROVE w \in Words /\ afu_dfh[w] = <<-1 - 2 * w, -2 - 2 * w>>
      BY WordsAssumption DEF Words, afu_dfh
    <3>2. \A w \in 0 .. 2 : <<-1 - 2 * w, -2 - 2 * w>> \in Pair
      BY Pairs
    <3> QED BY <3>1, <3>2
  <2>4. Zero \in Pair /\ 0 \in Words
    BY WordsAssumption DEF Zero, Words, Pair, Halves
  <2>5. ram_data_in' \in Pair /\ ram_addr' \in Words
    BY <1>1, <1>2, <2>3, <2>4 DEF ClkReset, WritePort, DataTypes
  <2>6. ram_write_en' \in BOOLEAN /\ ram_byte_en' \in SUBSET Halves
    BY <1>1, <1>2 DEF ClkReset, WritePort, DataTypes
  <2>7. held' \in Nat
    BY <1>1, <1>2 DEF DataTypes
  <2> QED BY <1>1, <1>2, <1>4, <2>1, <2>2, <2>5, <2>6, <2>7 DEF DataTypes
<1> QED BY <1>1, <1>4, <1>5, <1>6, <1>7, <1>8 DEF DataInv

LEMMA DataInit == Init => DataInv
<1> SUFFICES ASSUME Init PROVE DataInv
  OBVIOUS
<1>1. Zero \in Pair /\ 0 \in Words
  BY WordsAssumption DEF Zero, Words, Pair, Halves
<1>2. mem \in [Words -> Pair] /\ ram_data_in \in Pair
  BY <1>1 DEF Init, AfuInit
<1>3. DataTypes
  <2>1. /\ ram_write_en \in BOOLEAN /\ ram_byte_en \in SUBSET Halves /\ ram_addr \in Words
        /\ rst_state \in ResetStates /\ found \in BOOLEAN
    BY <1>1 DEF Init, AfuInit, ResetStates
  <2>2. held \in Nat /\ step \in 1 .. 4 /\ created \in 0 .. NumWorkers
    BY WorkersAssumption DEF Init
  <2>3. offset \in [Tids -> Nat] /\ pc = "power-up"
    BY DEF Init
  <2> QED BY <1>2, <2>1, <2>2, <2>3 DEF DataTypes
<1>4. Header
  <2>1. \A w \in 0 .. 2 : w \in Nat /\ 3 - w >= 0
    OBVIOUS
  <2>2. softreset => \A w \in 0 .. 2 : ~(Since(w) < held)
    BY <2>1 DEF Init, AfuInit, Since
  <2> QED BY <2>2 DEF Init, AfuInit, Header
<1>5. Carried /\ Written /\ Reading /\ reported = {}
  BY DEF Init, AfuInit, Carried, Written, Reading
<1> QED BY <1>3, <1>4, <1>5 DEF DataInv

(***************************************************************************)
(* Main, between two clocks: the memory and the port stay as they are.     *)
(***************************************************************************)
LEMMA SameMemory ==
  ASSUME UNCHANGED afuVars
  PROVE  /\ \A w : Eff(w)' = Eff(w)
         /\ \A i : Half(i)' = Half(i)
BY DEF afuVars, port, Eff, Half

(* With no thread waiting nothing is under way, before the end.            *)
LEMMA NobodyWaits ==
  ASSUME WaitInv, pc # "ended", \A t \in Tids : pend[t] = NoRead
  PROVE  Quiet
BY DEF WaitInv, Waited, Quiet, Stage, Types

LEMMA MainData == WaitInv /\ DataInv /\ (MainStep \/ Exit) => DataInv'
<1> SUFFICES ASSUME WaitInv, DataInv, MainStep \/ Exit PROVE DataInv'
  OBVIOUS
<1>0. /\ DataTypes /\ Header /\ Written /\ Carried /\ Reading /\ reported = {}
      /\ Types /\ Waited /\ Placed /\ Calm
  BY DEF DataInv, WaitInv
<1>1. UNCHANGED afuVars
  BY DEF MainStep, PowerUpDone, Enumerated, ResetDone, Create, Join, Restart, Goes, Exit
<1>2. /\ \A w : Eff(w)' = Eff(w)
      /\ \A i : Half(i)' = Half(i)
  BY <1>1, SameMemory
<1>3. /\ mem' = mem /\ ram_data_in' = ram_data_in /\ ram_write_en' = ram_write_en
      /\ ram_byte_en' = ram_byte_en /\ ram_addr' = ram_addr /\ rst_state' = rst_state
      /\ Quiet' = Quiet /\ c2' = c2
  BY <1>1 DEF afuVars, port, read, Quiet
<1>4. Quiet => Carried'
  BY <1>3 DEF Quiet, Carried
<1>5. \A w \in 0 .. 2 : w \in {0, 1, 2}
  OBVIOUS
<1>6. Main \in Tids /\ NumWorkers \in Nat /\ ResetClocks \in Nat /\ ResetClocks >= 5
  BY TidsAssumption, WorkersAssumption, ResetAssumption
<1>7. \A w \in 0 .. 2 : Since(w) <= 4 /\ Since(w) \in Nat
  BY <1>0, <1>5 DEF Since, DataTypes, ResetStates
<1>8. CASE PowerUpDone
  <2>1. /\ pc = "power-up" /\ pc' = "enumerate" /\ held = ResetClocks /\ held' = held
        /\ offset' = [offset EXCEPT ![Main] = 2] /\ found' = TRUE /\ pend' = pend
        /\ step' = step /\ created' = created /\ reported' = reported
    BY <1>8 DEF PowerUpDone, Goes
  <2>2. DataTypes'
    BY <1>0, <1>3, <2>1 DEF DataTypes
  <2>3. \A t \in Tids : pend'[t] = NoRead
    BY <1>0, <2>1 DEF Placed
  <2>4. Carried'
    BY <1>0, <1>4, <2>1 DEF Calm, softreset
  <2>5. softreset /\ held > 0 /\ \A w \in 0 .. 2 : Since(w) < held
    BY <1>6, <1>7, <2>1 DEF softreset
  <2>6. (\A w \in 0 .. 2 : Eff(w) = afu_dfh[w]) /\ (ram_write_en => ram_byte_en = Halves)
    BY <1>0, <2>5 DEF Header
  <2>7. offset'[Main] = 2
    BY <1>0, <1>6, <2>1 DEF DataTypes
  <2>8. Header'
    BY <1>2, <1>3, <2>1, <2>6, <2>7 DEF Header, softreset
  <2> QED BY <1>0, <2>1, <2>2, <2>3, <2>4, <2>8 DEF DataInv, Written, Reading, NoRead
<1>9. CASE Enumerated
  <2>1. /\ pc = "enumerate" /\ pc' \in {"reset", "ended"} /\ pend' = pend /\ pend[Main] = NoRead
        /\ offset' = offset /\ found' = found /\ step' = step /\ created' = created
        /\ reported' = reported
        /\ held' = IF pc' = "reset" THEN 0 ELSE held
    BY <1>9 DEF Enumerated, Goes
  <2>2. DataTypes'
    BY <1>0, <1>3, <2>1 DEF DataTypes
  <2>3. \A t \in Tids : pend[t] = NoRead
    BY <1>0, <2>1 DEF Placed
  <2>4. Carried'
    BY <1>4, <2>1, <2>3, NobodyWaits
  <2>5. Header'
    <3>1. pc' = "reset" => held' = 0
      BY <2>1
    <3>2. \A w \in 0 .. 2 : Since(w)' = Since(w)
      BY <1>3 DEF Since
    <3> QED BY <1>7, <2>1, <3>1, <3>2 DEF Header, softreset
  <2> QED BY <1>0, <2>1, <2>2, <2>3, <2>4, <2>5 DEF DataInv, Written, Reading, NoRead
<1>10. CASE ResetDone
  <2>1. /\ pc = "reset" /\ pc' = "steps" /\ pend' = pend /\ held' = held
        /\ step' = 1 /\ created' = 0
        /\ offset' = offset /\ found' = found /\ reported' = reported
    BY <1>10 DEF ResetDone, Goes
  <2>2. DataTypes'
    BY <1>0, <1>3, <1>6, <2>1 DEF DataTypes
  <2>3. \A t \in Tids : pend[t] = NoRead
    BY <1>0, <2>1 DEF Placed
  <2>4. Carried'
    BY <1>4, <2>1, <2>3, NobodyWaits
  <2>5. Header' /\ Written'
    BY <2>1 DEF Header, softreset, Written, write_not_read
  <2> QED BY <1>0, <2>1, <2>2, <2>3, <2>4, <2>5 DEF DataInv, Reading, NoRead
<1>11. CASE Create
  <2>1. /\ pc = "steps" /\ pc' = "steps" /\ pend' = pend /\ held' = held
        /\ step' = step /\ created < NumWorkers /\ created' = created + 1
        /\ offset' = [offset EXCEPT ![created + 1] = start_offset(created + 1)]
        /\ found' = found /\ reported' = reported
    BY <1>11 DEF Create, Goes
  <2>2. PICK new \in Workers : new = created + 1
    BY <1>0, <1>6, <2>1 DEF Workers, DataTypes
  <2>3. /\ start_offset(new) \in Nat /\ end_offset(new) \in Nat /\ start_offset(new) % 2 = 0
        /\ start_offset(new) <= end_offset(new)
    BY PartBounds, ShareFacts
  <2>4. /\ new \in Tids /\ new # Main /\ created \in Nat /\ new \notin 1 .. created
        /\ \A t \in 1 .. created + 1 : t = new \/ t \in 1 .. created
        /\ \A t \in 1 .. created : t \in Tids
    BY <1>0, <1>6, <2>1, <2>2, TidsAssumption DEF Workers, Main, DataTypes
  <2>5. /\ offset'[new] = start_offset(new)
        /\ \A t \in Tids \ {new} : offset'[t] = offset[t]
    BY <1>0, <2>1, <2>2, <2>4 DEF DataTypes
  <2>6. pend[new] = NoRead
    BY <1>0, <2>2, <2>4 DEF Reading
  <2>7. DataTypes'
    BY <1>0, <1>3, <1>6, <2>1, <2>2, <2>3, <2>4 DEF DataTypes
  <2>8. Header'
    BY <1>0, <2>1 DEF Header, softreset
  <2>9. /\ (write_not_read' <=> write_not_read) /\ (enable_64bit' <=> enable_64bit) /\ Size' = Size
        /\ \A t : start_offset(t)' = start_offset(t) /\ end_offset(t)' = end_offset(t)
    BY <2>1 DEF write_not_read, enable_64bit, Size, start_offset, end_offset
  <2>10. Written'
    <3>1. \A i : Right(i)' <=> Right(i)
      BY <1>2, <2>9 DEF Right
    <3>2. \A t \in 1 .. created' : Inside(t)'
      <4>1. Inside(new)'
        BY <2>3, <2>5, <2>9 DEF Inside
      <4>2. ASSUME NEW t \in 1 .. created PROVE Inside(t)'
        <5>1. offset'[t] = offset[t] /\ Inside(t)
          BY <1>0, <2>1, <2>4, <2>5 DEF Written
        <5> QED BY <2>9, <5>1 DEF Inside
      <4> QED BY <2>1, <2>4, <4>1, <4>2
    <3>3. ASSUME write_not_read, NEW t \in 1 .. created',
                 NEW i \in start_offset(t) .. offset'[t] - 1
          PROVE  Right(i)'
      <4>1. CASE t = new
        BY <2>3, <2>5, <3>3, <4>1
      <4>2. CASE t \in 1 .. created
        <5>1. offset'[t] = offset[t]
          BY <2>4, <2>5, <4>2
        <5> QED BY <1>0, <2>1, <3>1, <3>3, <4>2, <5>1 DEF Written
      <4> QED BY <2>1, <2>4, <4>1, <4>2
    <3>4. ~write_not_read => \A i \in 0 .. 2 * NumWords - 1 : Right(i)'
      BY <1>0, <2>1, <3>1 DEF Written
    <3>5. write_not_read =>
            \A t \in 1 .. created' : \A i \in start_offset(t) .. offset'[t] - 1 : Right(i)'
      BY <3>3
    <3> QED BY <2>9, <3>2, <3>4, <3>5 DEF Written
  <2>11. \A t \in Tids : pend[t] # NoRead => offset'[t] = offset[t] /\ (Want(t)' = Want(t))
    BY <2>4, <2>5, <2>6 DEF Want
  <2>12. Reading'
    <3> SUFFICES ASSUME NEW t \in Tids, pend[t] # NoRead
                 PROVE  IF t = Main THEN offset'[Main] < 6
                        ELSE t <= created + 1 /\ offset'[t] < end_offset(t) /\ ~write_not_read
      BY <2>1, <2>9 DEF Reading, NoRead
    <3>1. IF t = Main THEN offset[Main] < 6
          ELSE t <= created /\ offset[t] < end_offset(t) /\ ~write_not_read
      BY <1>0 DEF Reading
    <3>2. offset'[t] = offset[t]
      BY <2>11
    <3>3. t # Main => t \in Nat
      BY TidsAssumption DEF Workers
    <3> QED BY <2>4, <3>1, <3>2, <3>3
  <2>13. Carried'
    <3>1. /\ Stage => ram_tid_out \in Tids /\ pend[ram_tid_out] # NoRead
          /\ c2.valid => c2.tid \in Tids /\ pend[c2.tid] # NoRead
      BY <1>0, <2>1 DEF Waited, Types
    <3>2. PICK t \in Tids : t = ram_tid_out
      BY <1>0 DEF Types
    <3>3. PICK u \in Tids : u = c2.tid
      BY <1>0 DEF Types
    <3>4. /\ Stage => offset'[t] = offset[t] /\ Want(t)' = Want(t)
          /\ c2.valid => offset'[u] = offset[u] /\ Want(u)' = Want(u)
      BY <2>11, <3>1, <3>2, <3>3
    <3>5. /\ ram_tid_out' = t /\ c2' = c2 /\ ram_addr' = ram_addr /\ ram_write_en' = ram_write_en
          /\ ram_read_en' = ram_read_en /\ ram_data_valid' = ram_data_valid
          /\ ram_data_masked_valid' = ram_data_masked_valid /\ ram_data_masked' = ram_data_masked
          /\ Masked' = Masked /\ ram_read_type' = ram_read_type /\ ram_mask_loc' = ram_mask_loc
      BY <1>1, <3>2 DEF afuVars, read, port, Masked
    <3>6. /\ Want(ram_tid_out)' = Want(t)' /\ Want(c2.tid)' = Want(u)'
      BY <3>3, <3>5 DEF Want
    <3>7. Stage => (Typed' <=> Typed)
      BY <2>9, <3>2, <3>4, <3>5 DEF Typed
    <3> QED BY <1>0, <2>1, <3>2, <3>3, <3>4, <3>5, <3>6, <3>7 DEF Carried, Stage
  <2> QED BY <1>0, <2>1, <2>7, <2>8, <2>10, <2>12, <2>13 DEF DataInv
<1>12. CASE Exit
  <2>1. /\ pc' = "ended" /\ step' = step /\ created' = created /\ offset' = offset /\ held' = held
        /\ found' = found /\ reported' = reported
        /\ \A t \in Tids : pend'[t] = NoRead
    BY <1>12 DEF Exit, linkVars
  <2>2. DataTypes'
    BY <1>0, <1>3, <2>1 DEF DataTypes
  <2> QED BY <1>0, <2>1, <2>2 DEF DataInv, Header, softreset, Written, Carried, Reading, NoRead
<1>13. CASE Join
  <2>1. /\ pc = "steps" /\ created = NumWorkers /\ Joined
        /\ pc' = (IF step < 4 THEN "steps" ELSE "ended")
        /\ step' = (IF step < 4 THEN step + 1 ELSE step)
        /\ created' = (IF step < 4 THEN 0 ELSE created)
        /\ offset' = offset /\ found' = found /\ reported' = reported /\ pend' = pend
        /\ held' = held
    BY <1>13 DEF Join, Goes
  <2>2. DataTypes'
    <3>1. step \in 1 .. 4 /\ created \in 0 .. NumWorkers
      BY <1>0 DEF DataTypes
    <3>2. step' \in 1 .. 4 /\ created' \in 0 .. NumWorkers
      BY <1>6, <2>1, <3>1
    <3>3. pc' \in {"steps", "ended"}
      BY <2>1
    <3> QED BY <1>0, <1>3, <2>1, <3>2, <3>3 DEF DataTypes
  <2>3. \A t \in Tids : pend[t] = NoRead
    BY <1>0, <2>1, TidsAssumption DEF Joined, Placed
  <2>4. Carried'
    BY <1>4, <2>1, <2>3, NobodyWaits
  <2>5. Header'
    BY <2>1 DEF Header, softreset
  <2>6. Written'
    <3> SUFFICES ASSUME step < 4 PROVE Written'
      BY <2>1 DEF Written
    <3>1. created' = 0 /\ step' = step + 1 /\ step \in 1 .. 3
      BY <1>0, <2>1 DEF DataTypes
    <3>2. ASSUME ~write_not_read', NEW i \in 0 .. 2 * NumWords - 1 PROVE Right(i)'
      <4>1. write_not_read /\ (enable_64bit' <=> enable_64bit)
        BY <3>1, <3>2 DEF write_not_read, enable_64bit
      <4>2. PICK t \in Workers : i \in start_offset(t) .. end_offset(t) - 1
        BY PartsCover
      <4>3. offset[t] >= end_offset(t) /\ t \in 1 .. created /\ t \in Tids
        BY <2>1, TidsAssumption DEF Joined, Workers
      <4>4. start_offset(t) \in Nat /\ end_offset(t) \in Nat /\ offset[t] \in Nat
        BY <1>0, <4>3, PartBounds, ShareFacts DEF DataTypes
      <4>5. i \in start_offset(t) .. offset[t] - 1
        BY <4>2, <4>3, <4>4
      <4>6. Right(i)
        BY <1>0, <2>1, <4>1, <4>3, <4>5 DEF Written
      <4> QED BY <1>2, <4>1, <4>6 DEF Right
    <3> QED BY <3>1, <3>2 DEF Written
  <2>7. Reading'
    BY <2>1, <2>3 DEF Reading, NoRead
  <2> QED BY <1>0, <2>1, <2>2, <2>4, <2>5, <2>6, <2>7 DEF DataInv
<1>14. CASE Restart
  <2>1. /\ pc = "ended" /\ Quiet /\ pc' = "power-up" /\ held' = 0 /\ pend' = pend
        /\ step' = step /\ created' = created /\ offset' = offset /\ found' = found
        /\ reported' = {}
    BY <1>14 DEF Restart, Goes
  <2>2. DataTypes'
    BY <1>0, <1>3, <2>1 DEF DataTypes
  <2>3. \A t \in Tids : pend[t] = NoRead
    BY <1>0, <2>1 DEF Placed
  <2>4. Header'
    <3>1. \A w \in 0 .. 2 : Since(w)' = Since(w)
      BY <1>3 DEF Since
    <3> QED BY <1>7, <2>1, <3>1 DEF Header
  <2> QED BY <1>4, <2>1, <2>2, <2>3, <2>4 DEF DataInv, Written, Reading, NoRead
<1> QED BY <1>8, <1>9, <1>10, <1>11, <1>12, <1>13, <1>14 DEF MainStep

LEMMA DataStep == ASSUME MinGap >= 3 PROVE WaitInv /\ DataInv /\ [Next]_vars => DataInv'
<1> SUFFICES ASSUME WaitInv, DataInv, [Next]_vars PROVE DataInv'
  OBVIOUS
<1>1. CASE Tick
  <2>1. CASE softreset
    BY <1>1, <2>1, ResetData
  <2>2. CASE ~softreset
    <3>1. Edge(NoReq, {})
      BY <1>1, <2>2 DEF Tick, Edge, Arrives
    <3> QED BY <3>1, EdgeData
  <2> QED BY <2>1, <2>2
<1>2. ASSUME NEW t \in Tids, Ask(t) PROVE DataInv'
  <2>1. Asks(t) /\ Clk(softreset, Request(t)) /\ Program(Request(t), {t})
        /\ UNCHANGED <<pc, step, created, held>>
    BY <1>2 DEF Ask
  <2>2. ~softreset
    BY <2>1 DEF Asks, Working, softreset
  <2>3. Edge(Request(t), {t})
    BY <2>1, <2>2 DEF Edge, Arrives
  <2> QED BY <2>3, EdgeData
<1>3. CASE MainStep \/ Exit
  BY <1>3, MainData
<1>4. CASE UNCHANGED vars
  <2>1. UNCHANGED afuVars /\ UNCHANGED progVars /\ held' = held
    BY <1>4 DEF vars, linkVars
  <2>2. /\ \A w : Eff(w)' = Eff(w)
        /\ \A i : Half(i)' = Half(i)
    BY <2>1, SameMemory
  <2>3. DataTypes' /\ (\A w \in 0 .. 2 : Since(w)' = Since(w))
    BY <2>1 DEF DataInv, afuVars, port, progVars, DataTypes, Since
  <2>4. Header'
    BY <2>1, <2>2, <2>3 DEF DataInv, afuVars, port, progVars, Header, softreset
  <2>5. Written'
    BY <2>1, <2>2 DEF DataInv, progVars, Written, Inside, Right, start_offset, end_offset,
         write_not_read, enable_64bit
  <2>6. Carried'
    BY <2>1 DEF DataInv, afuVars, port, read, progVars, Carried, Typed, Want, Masked, Size,
         enable_64bit
  <2>7. Reading' /\ reported' = {}
    BY <2>1 DEF DataInv, progVars, Reading, end_offset, write_not_read
  <2> QED BY <2>3, <2>4, <2>5, <2>6, <2>7 DEF DataInv
<1> QED BY <1>1, <1>2, <1>3, <1>4 DEF Next

(***************************************************************************)
(* Each read of a worker returns what the step before it wrote, whatever   *)
(* the other workers are doing, if reads arrive at least three clocks      *)
(* apart.                                                                  *)
(***************************************************************************)
THEOREM ReadBackInvariant == ASSUME MinGap >= 3 PROVE Spec => []ReadBack
<1>1. DataInv => ReadBack
  BY DEF DataInv, ReadBack
<1>2. WaitInv /\ [Next]_vars => WaitInv'
  BY WaitStep
<1>3. WaitInv /\ DataInv /\ [Next]_vars => DataInv'
  BY DataStep
<1> QED BY WaitInit, DataInit, <1>1, <1>2, <1>3, PTL DEF Spec

(***************************************************************************)
(* A reset restores the header the program before has overwritten: every   *)
(* program finds the AFU.                                                  *)
(***************************************************************************)
THEOREM HeaderRestoredInvariant == ASSUME MinGap >= 3 PROVE Spec => []HeaderRestored
<1>1. DataInv => HeaderRestored
  <2> SUFFICES ASSUME DataInv, pc = "enumerate", NEW w \in 1 .. 2
               PROVE  found /\ (mem[w] = afu_dfh[w] \/
                         (ram_write_en /\ ram_addr = w /\ ram_data_in = afu_dfh[w]))
    BY DEF HeaderRestored
  <2>1. DataTypes /\ found /\ Eff(w) = afu_dfh[w] /\ (ram_write_en => ram_byte_en = Halves)
    BY DEF DataInv, Header
  <2>2. CASE ram_write_en /\ ram_addr = w
    <3>1. Eff(w) = [h \in Halves |-> ram_data_in[h]]
      BY <2>1, <2>2 DEF Eff
    <3>2. ram_data_in = [h \in Halves |-> ram_data_in[h]]
      BY <2>1 DEF DataTypes, Pair
    <3> QED BY <2>1, <2>2, <3>1, <3>2
  <2>3. CASE ~(ram_write_en /\ ram_addr = w)
    BY <2>1, <2>3 DEF Eff
  <2> QED BY <2>2, <2>3
<1>2. WaitInv /\ [Next]_vars => WaitInv'
  BY WaitStep
<1>3. WaitInv /\ DataInv /\ [Next]_vars => DataInv'
  BY DataStep
<1> QED BY WaitInit, DataInit, <1>1, <1>2, <1>3, PTL DEF Spec
=============================================================================
