--------------------------- MODULE HelloMemProofs ---------------------------
(***************************************************************************)
(* Proofs about the local-memory test for any number of addresses, any     *)
(* burst, any place of it, and any spacing of accesses of at least four    *)
(* clocks: the bridge never fills up, the answers a read waits for are its *)
(* own, a request is started once, and the memory holds what the tests     *)
(* have written.                                                           *)
(***************************************************************************)
EXTENDS HelloMem, SequenceTheorems, FiniteSetTheorems, TLAPS

-----------------------------------------------------------------------------
(***************************************************************************)
(* What the hardware does is a matter of how far the program has come.     *)
(* Phase(k) is what holds while the program is at its k-th step, and also, *)
(* if it has failed there, until the next reset.  A clock keeps a phase,   *)
(* an access or the end of a sleep leads to the next.                      *)
(***************************************************************************)
(* The last w writes of d to from .. upto - 1 are in front in the bridge,  *)
(* the others are in memory.                                               *)
Lands(Q, M, d, from, upto, w) ==
  /\ \A i \in 1 .. w : Q[i] = [write |-> TRUE, at |-> upto - w + i - 1, val |-> d]
  /\ \A a \in from .. upto - w - 1 : M[a] = d
Landing(from, upto, w) == Lands(queue, mem, avm_writedata, from, upto, w)

Covered(w) == Landing(0, SweepWords, w)
Tested == \A a \in 0 .. LastWord : mem[a] = IF InBurst(a) THEN Data3 ELSE Data1

(* The registers of mem_csr, and those of mem_fsm while it is idle.        *)
Regs(k) ==
  /\ avm_address = IF k > 1 THEN Addr ELSE 0
  /\ avm_writedata = IF k > 11 THEN Data3 ELSE IF k > 2 THEN Data1 ELSE Nothing
  /\ avm_burstcount = IF k > 12 THEN Burst ELSE 1
  /\ k # 9 => /\ ~mem_testmode
              /\ addr_test_done <=> k > 9
              /\ address = IF k > 9 THEN LastWord ELSE 0

(* Nothing is asked of the master, and it asks nothing of the memory.      *)
Unasked == ~asked /\ ~mem_RDWR.en /\ ~avm_write /\ ~avm_read
Calm == Unasked /\ ~avs_write /\ ~avs_read
Quiet == Calm /\ state = "IDLE" /\ queue = <<>> /\ ~valid /\ beat = 0

(* The two clocks a request takes to get to the master, and the next one,  *)
(* in which the master has it and avm_write or avm_read is still there.    *)
Coming(rd) ==
  /\ gap \in {1, 2} /\ state = "IDLE" /\ asked /\ mem_RDWR = [en |-> TRUE, rd |-> rd]
  /\ avm_write <=> gap = 2 /\ ~rd
  /\ avm_read <=> gap = 2 /\ rd
  /\ ~avs_write /\ ~avs_read
Taken(rd) ==
  /\ gap >= 3 /\ ~asked /\ ~mem_RDWR.en
  /\ avm_write <=> gap = 3 /\ ~rd
  /\ avm_read <=> gap = 3 /\ rd

Put == IF state = "WR_REQ" THEN burstcount - 1 ELSE avm_burstcount

Writing(k) ==
  /\ ~valid /\ ~avs_read /\ beat = burstcount - 1
  /\ \/ Coming(FALSE) /\ queue = <<>> /\ burstcount = 1
     \/ /\ Taken(FALSE)
        /\ state \in {"WR_REQ", "WR_RSP", "IDLE"}
        /\ avs_write <=> state = "WR_REQ"
        /\ gap = 3 => state = "WR_REQ"
        /\ state = "WR_REQ" /\ avm_burstcount = 1 => gap = 3
        /\ burstcount \in 1 .. avm_burstcount
        /\ state # "WR_REQ" => burstcount = 1
        /\ Len(queue) <= Put
        /\ Landing(Addr, Addr + Put, Len(queue))
  /\ k = 14 => \A a \in 0 .. LastWord : ~InBurst(a) => mem[a] = Data1

(* A read is asked for, or just put to the bridge.                         *)
AskingRead ==
  Coming(TRUE) \/ (Taken(TRUE) /\ gap = 3 /\ state = "RD_REQ" /\ avs_read)

(* The read behind the write of the first test.                            *)
AnsweringBack ==
  \/ /\ Calm /\ state = "RD_RSP"
     /\ \/ /\ ~valid /\ Len(queue) \in {1, 2} /\ Landing(Addr, Addr + 1, Len(queue) - 1)
           /\ ~queue[Len(queue)].write /\ queue[Len(queue)].at = Addr
        \/ valid /\ queue = <<>> /\ rdata = Data1 /\ mem[Addr] = Data1
  \/ Quiet /\ mem[Addr] = Data1 /\ avm_readdata = Data1

ReadingBack(k) ==
  /\ beat = 0 /\ burstcount = 1 /\ ~avs_write
  /\ \/ /\ k = 5 /\ ~valid /\ Len(queue) <= 1 /\ Landing(Addr, Addr + 1, Len(queue))
        /\ AskingRead
     \/ (k = 6 \/ gap >= 4) /\ AnsweringBack

(* The read of the burst.                                                  *)
AnsweringBurst ==
  \/ /\ Calm /\ state = "RD_RSP" /\ burstcount \in 1 .. Burst
     /\ \A i \in 1 .. Len(queue) : ~queue[i].write
     /\ Len(queue) + (IF valid THEN 1 ELSE 0) = Burst - burstcount + 1
  \/ Quiet /\ burstcount = Burst

ReadingBurst(k) ==
  /\ beat = 0 /\ ~avs_write /\ Tested
  /\ \/ k = 16 /\ ~valid /\ queue = <<>> /\ burstcount = 1 /\ AskingRead
     \/ (k = 17 \/ gap >= 4) /\ AnsweringBurst

(* The sweep: about to begin, writing, reading, and at its end, when the   *)
(* answer to the last read is still to come.                               *)
SweepAhead ==
  /\ state = "IDLE" /\ mem_testmode /\ ~addr_test_done /\ address = 0
  /\ ~avs_write /\ ~avs_read /\ ~valid /\ queue = <<>>
SweepWrites ==
  /\ state = "TEST_WRITE" /\ mem_testmode /\ ~addr_test_done
  /\ avs_write /\ ~avs_read /\ ~valid
  /\ Len(queue) <= address /\ Landing(0, address, Len(queue))
SweepReads ==
  /\ state = "TEST_READ" /\ mem_testmode /\ ~addr_test_done /\ ~avs_write
  /\ \/ /\ avs_read /\ ~valid /\ Len(queue) <= SweepWords /\ Covered(Len(queue))
        /\ address > 0 => queue = <<>>
     \/ /\ ~avs_read /\ ~valid /\ address < LastWord
        /\ Len(queue) \in 1 .. SweepWords + 1 /\ Covered(Len(queue) - 1)
        /\ ~queue[Len(queue)].write
     \/ ~avs_read /\ valid /\ address < LastWord /\ queue = <<>> /\ Covered(0)
SweepDone ==
  /\ state = "IDLE" /\ addr_test_done /\ address = LastWord /\ ~avs_write /\ ~avs_read
  /\ Covered(0)
  /\ queue = <<>> \/ (Len(queue) = 1 /\ ~queue[1].write /\ ~valid)
  /\ mem_testmode => queue # <<>>

Sweeping ==
  /\ Unasked /\ beat = 0 /\ burstcount = 1 /\ address \in 0 .. LastWord
  /\ SweepAhead \/ SweepWrites \/ SweepReads \/ SweepDone

Resting(k) ==
  /\ Quiet /\ burstcount = IF k > 17 THEN Burst ELSE 1
  /\ k \in {7, 8} => mem[Addr] = Data1 /\ avm_readdata = Data1
  /\ k \in 10 .. 13 => \A a \in 0 .. LastWord : mem[a] = Data1
  /\ k > 14 => Tested

Phase(k) ==
  /\ Regs(k)
  /\ CASE k \in {4, 14} -> Writing(k)
       [] k \in {5, 6} -> ReadingBack(k)
       [] k \in {16, 17} -> ReadingBurst(k)
       [] k = 9 -> Sweeping
       [] OTHER -> Resting(k)

-----------------------------------------------------------------------------
(***************************************************************************)
(* What any phase implies and a reset does not need the gap for.           *)
(***************************************************************************)
Fits == Len(queue) <= SweepWords + 1
Paired == state = "RD_RSP" => Answers = avm_burstcount - burstcount + 1
AskedOnce ==
  /\ asked => mem_RDWR.en \/ avm_write \/ avm_read
  /\ state = "IDLE" /\ (avm_write \/ avm_read) => asked

IsSeq(s) == \E S : s \in Seq(S)

Flow ==
  /\ ip \in 1 .. Over /\ errors \in {0, 1} /\ resetting \in BOOLEAN
  /\ gap \in 0 .. MmioGap
  /\ resetting => ip = 1 /\ errors = 0
  /\ ~resetting => gap > 0
  /\ errors = 1 => ip = Over
  /\ ip = Checked + 1 => data = Data1

Types ==
  /\ IsSeq(queue) /\ DOMAIN mem = 0 .. LastWord /\ ~avs_waitrequest_r

ProgInv ==
  /\ resetting /\ gap > 0 => Regs(1) /\ Resting(1)
  /\ ~resetting /\ errors = 0 => Phase(ip)
  /\ ~resetting /\ errors = 1 => \E k \in 1 .. Over : Phase(k)

MemIInv == Flow /\ Types /\ ProgInv /\ Fits /\ Paired /\ AskedOnce

-----------------------------------------------------------------------------
(***************************************************************************)
(* Sequences of whatever the bridge holds: what a served head and commands *)
(* accepted make of it, place by place.                                    *)
(***************************************************************************)
LEMMA Joined ==
  ASSUME NEW s, NEW t, IsSeq(s), IsSeq(t)
  PROVE  /\ IsSeq(s \o t) /\ Len(s) \in Nat /\ Len(t) \in Nat
         /\ Len(s \o t) = Len(s) + Len(t)
         /\ \A i \in 1 .. Len(s) + Len(t) :
              (s \o t)[i] = IF i <= Len(s) THEN s[i] ELSE t[i - Len(s)]
<1>1. PICK S, T : s \in Seq(S) /\ t \in Seq(T)
  BY DEF IsSeq
<1>2. s \in Seq(S \cup T) /\ t \in Seq(S \cup T)
  BY <1>1, SeqMonotonic
<1>3. s \o t \in Seq(S \cup T)
  BY <1>2, ConcatProperties
<1> QED BY <1>2, <1>3, ConcatProperties, LenProperties DEF IsSeq

LEMMA Shorter ==
  ASSUME NEW s, IsSeq(s), s # <<>>
  PROVE  /\ IsSeq(Tail(s)) /\ Len(s) \in Nat /\ Len(s) > 0
         /\ Len(Tail(s)) = Len(s) - 1 /\ Head(s) = s[1]
         /\ \A i \in 1 .. Len(s) - 1 : Tail(s)[i] = s[i + 1]
<1>1. PICK S : s \in Seq(S)
  BY DEF IsSeq
<1>2. Tail(s) \in Seq(S) /\ Len(Tail(s)) = Len(s) - 1
  BY <1>1, HeadTailProperties
<1>3. Len(s) \in Nat /\ Len(s) > 0 /\ Head(s) = s[1]
  BY <1>1, EmptySeq, LenProperties, HeadTailProperties
<1>4. \A i \in 1 .. Len(s) - 1 : Tail(s)[i] = s[i + 1]
  BY <1>1, HeadTailProperties
<1> QED BY <1>1, <1>2, <1>3, <1>4 DEF IsSeq

LEMMA NoneLeft == /\ IsSeq(<<>>) /\ Len(<<>>) = 0
                  /\ \A s : IsSeq(s) => Len(s) \in Nat /\ (s = <<>> <=> Len(s) = 0)
BY EmptySeq, LenProperties DEF IsSeq

LEMMA Tuples ==
  ASSUME NEW a, NEW b, NEW c, NEW d, NEW e, NEW f, NEW g, NEW h, NEW i
  PROVE  /\ IsSeq(<<a>>) /\ Len(<<a>>) = 1
         /\ IsSeq(<<a, b, c>>) /\ Len(<<a, b, c>>) = 3
         /\ IsSeq(<<a, b, c, d, e, f, g>>) /\ Len(<<a, b, c, d, e, f, g>>) = 7
         /\ IsSeq(<<a, b, c, d, e, f, g, h, i>>) /\ Len(<<a, b, c, d, e, f, g, h, i>>) = 9
<1> DEFINE S == {a, b, c, d, e, f, g, h, i}
<1>1. /\ <<a>> \in Seq(S) /\ <<a, b, c>> \in Seq(S)
      /\ <<a, b, c, d, e, f, g>> \in Seq(S) /\ <<a, b, c, d, e, f, g, h, i>> \in Seq(S)
  OBVIOUS
<1> QED BY <1>1 DEF IsSeq

-----------------------------------------------------------------------------
(***************************************************************************)
(* The program's steps.                                                    *)
(***************************************************************************)
LEMMA ProgramIs ==
  /\ Over = 20 /\ Checked = 7 /\ Swept = 10 /\ BurstSlept = 14
  /\ Prog[1] = Wr("MEM_ADDRESS", Addr, TRUE) /\ Prog[2] = Wr("MEM_WRDATA", Data1, TRUE)
  /\ Prog[3] = Wr("MEM_RDWR", DoWrite, TRUE) /\ Prog[4] = Wr("MEM_RDWR", DoRead, TRUE)
  /\ Prog[5] = Rd("MEM_RDWR_STATUS", TRUE) /\ Prog[6] = Sleep
  /\ Prog[7] = Rd("MEM_RDDATA", TRUE)
  /\ Prog[8] = Wr("MEM_ADDR_TESTMODE", TRUE, FALSE) /\ Prog[9] = Sleep
  /\ Prog[10] = Poll("MEM_ADDR_TEST_STATUS")
  /\ Prog[11] = Wr("MEM_WRDATA", Data3, FALSE) /\ Prog[12] = Wr("MEM_BURSTCOUNT", Burst, FALSE)
  /\ Prog[13] = Wr("MEM_RDWR", DoWrite, FALSE) /\ Prog[14] = Sleep
  /\ Prog[15] = Wr("MEM_RDWR", DoRead, FALSE) /\ Prog[16] = Rd("MEM_RDWR_STATUS", FALSE)
  /\ Prog[17] = Sleep /\ Prog[18] = Poll("MEM_RDWR_STATUS") /\ Prog[19] = Sleep
<1>1. /\ IsSeq(Test1) /\ Len(Test1) = 7 /\ IsSeq(Test2) /\ Len(Test2) = 3
      /\ IsSeq(Test3) /\ Len(Test3) = 9
  BY Tuples DEF Test1, Test2, Test3
<1>2. /\ Test1[1] = Wr("MEM_ADDRESS", Addr, TRUE) /\ Test1[2] = Wr("MEM_WRDATA", Data1, TRUE)
      /\ Test1[3] = Wr("MEM_RDWR", DoWrite, TRUE) /\ Test1[4] = Wr("MEM_RDWR", DoRead, TRUE)
      /\ Test1[5] = Rd("MEM_RDWR_STATUS", TRUE) /\ Test1[6] = Sleep
      /\ Test1[7] = Rd("MEM_RDDATA", TRUE)
  BY DEF Test1
<1>3. /\ Test2[1] = Wr("MEM_ADDR_TESTMODE", TRUE, FALSE) /\ Test2[2] = Sleep
      /\ Test2[3] = Poll("MEM_ADDR_TEST_STATUS")
  BY DEF Test2
<1>4. /\ Test3[1] = Wr("MEM_WRDATA", Data3, FALSE) /\ Test3[2] = Wr("MEM_BURSTCOUNT", Burst, FALSE)
      /\ Test3[3] = Wr("MEM_RDWR", DoWrite, FALSE) /\ Test3[4] = Sleep
      /\ Test3[5] = Wr("MEM_RDWR", DoRead, FALSE) /\ Test3[6] = Rd("MEM_RDWR_STATUS", FALSE)
      /\ Test3[7] = Sleep /\ Test3[8] = Poll("MEM_RDWR_STATUS") /\ Test3[9] = Sleep
  BY DEF Test3
<1> DEFINE T == Test1 \o Test2
<1>6. /\ IsSeq(T) /\ Len(T) = 10
      /\ \A i \in 1 .. 10 : T[i] = IF i <= 7 THEN Test1[i] ELSE Test2[i - 7]
  <2>1. /\ IsSeq(T) /\ Len(T) = Len(Test1) + Len(Test2)
        /\ \A i \in 1 .. Len(Test1) + Len(Test2) :
             T[i] = IF i <= Len(Test1) THEN Test1[i] ELSE Test2[i - Len(Test1)]
    BY <1>1, Joined, Zenon
  <2> QED BY <1>1, <2>1
<1>7. /\ Len(Prog) = 19
      /\ \A i \in 1 .. 19 : Prog[i] = IF i <= 10 THEN T[i] ELSE Test3[i - 10]
  <2>1. /\ Len(Prog) = Len(T) + Len(Test3)
        /\ \A i \in 1 .. Len(T) + Len(Test3) :
             Prog[i] = IF i <= Len(T) THEN T[i] ELSE Test3[i - Len(T)]
    BY <1>1, <1>6, Joined, Zenon DEF Prog
  <2> HIDE DEF T
  <2> QED BY <1>1, <1>6, <2>1
<1>8. Over = 20 /\ Checked = 7 /\ Swept = 10 /\ BurstSlept = 14
  BY <1>1, <1>6, <1>7 DEF Over, Checked, Swept, BurstSlept
<1> HIDE DEF T
<1>9. \A i \in 1 .. 7 : Prog[i] = Test1[i]
  BY <1>6, <1>7
<1>10. \A i \in 1 .. 3 : Prog[i + 7] = Test2[i]
  BY <1>6, <1>7
<1>11. \A i \in 1 .. 9 : Prog[i + 10] = Test3[i]
  BY <1>7
<1>12. /\ Prog[8] = Test2[1] /\ Prog[9] = Test2[2] /\ Prog[10] = Test2[3]
  BY <1>10
<1>13. /\ Prog[11] = Test3[1] /\ Prog[12] = Test3[2] /\ Prog[13] = Test3[3] /\ Prog[14] = Test3[4]
       /\ Prog[15] = Test3[5] /\ Prog[16] = Test3[6] /\ Prog[17] = Test3[7]
       /\ Prog[18] = Test3[8] /\ Prog[19] = Test3[9]
  BY <1>11
<1>14. /\ Prog[1] = Test1[1] /\ Prog[2] = Test1[2] /\ Prog[3] = Test1[3] /\ Prog[4] = Test1[4]
       /\ Prog[5] = Test1[5] /\ Prog[6] = Test1[6] /\ Prog[7] = Test1[7]
  BY <1>9
<1> QED BY <1>2, <1>3, <1>4, <1>8, <1>12, <1>13, <1>14, Zenon

-----------------------------------------------------------------------------
(***************************************************************************)
(* What the bridge makes of the writes in it: served, they are in memory;  *)
(* commands behind them change nothing, and the next write continues them. *)
(***************************************************************************)
Left(Q, serves) == IF serves THEN Tail(Q) ELSE Q
Stored(Q, M, serves) ==
  IF serves /\ Head(Q).write THEN [M EXCEPT ![Head(Q).at] = Head(Q).val] ELSE M

LEMMA LeftIs ==
  ASSUME NEW Q, IsSeq(Q), NEW serves \in BOOLEAN, serves => Q # <<>>
  PROVE  /\ IsSeq(Left(Q, serves)) /\ Len(Q) \in Nat /\ Len(Left(Q, serves)) \in Nat
         /\ Len(Left(Q, serves)) = Len(Q) - (IF serves THEN 1 ELSE 0)
         /\ \A i \in 1 .. Len(Left(Q, serves)) :
              Left(Q, serves)[i] = Q[i + (IF serves THEN 1 ELSE 0)]
         /\ serves => Len(Q) > 0 /\ Head(Q) = Q[1]
<1>1. CASE serves
  BY <1>1, Shorter DEF Left
<1>2. CASE ~serves
  <2>1. Len(Q) \in Nat /\ Left(Q, serves) = Q
    BY <1>2, NoneLeft DEF Left
  <2> QED BY <1>2, <2>1
<1> QED BY <1>1, <1>2

Serves(Q, M, d, from, upto, w, serves) ==
  /\ IsSeq(Q) /\ DOMAIN M = 0 .. LastWord
  /\ serves \in BOOLEAN /\ (serves => Q # <<>>)
  /\ from \in Nat /\ upto \in Nat /\ w \in 0 .. Len(Q)
  /\ from <= upto - w /\ upto <= SweepWords
  /\ Lands(Q, M, d, from, upto, w)
  /\ w = 0 /\ serves => ~Q[1].write

Behind(w, serves) == IF serves /\ w > 0 THEN w - 1 ELSE w

LEMMA LandsOn ==
  ASSUME NEW Q, NEW M, NEW d, NEW from, NEW upto, NEW w, NEW serves,
         Serves(Q, M, d, from, upto, w, serves)
  PROVE  /\ Lands(Left(Q, serves), Stored(Q, M, serves), d, from, upto, Behind(w, serves))
         /\ DOMAIN Stored(Q, M, serves) = 0 .. LastWord
         /\ \A a \in 0 .. LastWord : a \notin from .. upto - 1 => Stored(Q, M, serves)[a] = M[a]
<1>9. /\ IsSeq(Q) /\ DOMAIN M = 0 .. LastWord
      /\ serves \in BOOLEAN /\ (serves => Q # <<>>)
      /\ from \in Nat /\ upto \in Nat /\ w \in 0 .. Len(Q)
      /\ from <= upto - w /\ upto <= SweepWords
      /\ Lands(Q, M, d, from, upto, w)
      /\ w = 0 /\ serves => ~Q[1].write
  BY DEF Serves
<1> USE <1>9 DEF Behind
<1>0. PICK n : n \in Nat /\ n = Len(Q) /\ w \in 0 .. n
  BY LeftIs
<1> DEFINE L == Left(Q, serves)
           x == upto - w
<1>1. /\ Len(L) = n - (IF serves THEN 1 ELSE 0)
      /\ \A i \in 1 .. Len(L) : L[i] = Q[i + (IF serves THEN 1 ELSE 0)]
      /\ serves => n > 0 /\ Head(Q) = Q[1]
  BY <1>0, LeftIs
<1>2. CASE ~serves
  BY <1>2 DEF Left, Stored
<1>3. CASE serves /\ ~(w > 0)
  <2>1. w = 0
    BY <1>0, <1>3
  <2>2. Stored(Q, M, serves) = M
    BY <1>1, <1>3, <2>1 DEF Stored
  <2>3. Lands(L, M, d, from, upto, w)
    BY <2>1 DEF Lands
  <2> QED BY <1>3, <2>2, <2>3
<1>4. CASE serves /\ w > 0
  <2>0. x \in from .. upto - 1 /\ x \in 0 .. LastWord /\ upto - w + 1 - 1 = x /\ w \in Nat
    BY <1>0, <1>4, SweepAssumption DEF LastWord
  <2>1. Q[1] = [write |-> TRUE, at |-> x, val |-> d]
    <3>1. Q[1] = [write |-> TRUE, at |-> upto - w + 1 - 1, val |-> d]
      BY <1>0, <1>4 DEF Lands
    <3> QED BY <2>0, <3>1
  <2> HIDE DEF x
  <2>2. Stored(Q, M, serves) = [M EXCEPT ![x] = d]
    <3>1. Head(Q) = [write |-> TRUE, at |-> x, val |-> d]
      BY <1>1, <1>4, <2>1
    <3>2. Head(Q).write /\ Head(Q).at = x /\ Head(Q).val = d
      BY <3>1
    <3> QED BY <1>4, <3>2, Zenon DEF Stored
  <2>3. \A i \in 1 .. w - 1 : L[i] = Q[i + 1]
    <3> HIDE DEF L
    <3>1. Len(L) = n - 1 /\ \A i \in 1 .. Len(L) : L[i] = Q[i + 1]
      BY <1>1, <1>4
    <3> QED BY <1>0, <3>1
  <2>4. \A i \in 1 .. w - 1 :
          L[i] = [write |-> TRUE, at |-> upto - (w - 1) + i - 1, val |-> d]
    <3> SUFFICES ASSUME NEW i \in 1 .. w - 1
                 PROVE  L[i] = [write |-> TRUE, at |-> upto - (w - 1) + i - 1, val |-> d]
      OBVIOUS
    <3>1. i + 1 \in 1 .. w /\ upto - (w - 1) + i - 1 = upto - w + (i + 1) - 1
      BY <1>0, <2>0
    <3>2. Q[i + 1] = [write |-> TRUE, at |-> upto - w + (i + 1) - 1, val |-> d]
      BY <3>1 DEF Lands
    <3> HIDE DEF L
    <3>3. L[i] = Q[i + 1]
      BY <2>3
    <3> QED BY <3>1, <3>2, <3>3
  <2>5. \A a \in from .. upto - (w - 1) - 1 : Stored(Q, M, serves)[a] = d
    <3> SUFFICES ASSUME NEW a \in from .. upto - (w - 1) - 1
                 PROVE  [M EXCEPT ![x] = d][a] = d
      BY <2>2
    <3>1. a = x \/ a \in from .. upto - w - 1
      BY <1>0 DEF x
    <3>2. a \in from .. upto - w - 1 => M[a] = d
      BY DEF Lands
    <3>3. a \in DOMAIN M
      BY <1>0, <2>0, SweepAssumption DEF LastWord
    <3> QED BY <3>1, <3>2, <3>3
  <2>6. Lands(L, Stored(Q, M, serves), d, from, upto, w - 1)
    BY <2>4, <2>5 DEF Lands
  <2> QED BY <1>4, <2>0, <2>2, <2>6
<1> QED BY <1>2, <1>3, <1>4

LEMMA LandsBehind ==
  ASSUME NEW L, IsSeq(L), NEW C, IsSeq(C), NEW M, NEW d,
         NEW from \in Nat, NEW upto \in Nat, NEW w \in 0 .. Len(L), Lands(L, M, d, from, upto, w)
  PROVE  Lands(L \o C, M, d, from, upto, w)
<1>1. /\ Len(L) \in Nat /\ Len(C) \in Nat
      /\ \A i \in 1 .. Len(L) + Len(C) : (L \o C)[i] = IF i <= Len(L) THEN L[i] ELSE C[i - Len(L)]
  BY Joined
<1>2. \A i \in 1 .. w : (L \o C)[i] = L[i]
  BY <1>1
<1> QED BY <1>2 DEF Lands

LEMMA LandsNext ==
  ASSUME NEW L, IsSeq(L), NEW M, NEW d,
         NEW from \in Nat, NEW upto \in Nat, Lands(L, M, d, from, upto, Len(L))
  PROVE  Lands(L \o <<[write |-> TRUE, at |-> upto, val |-> d]>>, M, d, from, upto + 1, Len(L) + 1)
<1> DEFINE c == [write |-> TRUE, at |-> upto, val |-> d]
           C == <<c>>
           n == Len(L)
<1> HIDE DEF c
<1>0. IsSeq(C) /\ Len(C) = 1 /\ C[1] = c
  <2>1. C[1] = c
    OBVIOUS
  <2> QED BY <2>1, Tuples, Zenon
<1> HIDE DEF C
<1>9. /\ Len(L) \in Nat
      /\ \A i \in 1 .. Len(L) + Len(C) : (L \o C)[i] = IF i <= Len(L) THEN L[i] ELSE C[i - Len(L)]
  BY <1>0, Joined, Zenon
<1> DEFINE J == L \o C
<1> HIDE DEF J
<1>1. n \in Nat /\ \A i \in 1 .. n + 1 : J[i] = IF i <= n THEN L[i] ELSE C[i - n]
  BY <1>0, <1>9 DEF J
<1> HIDE DEF n
<1>2. \A i \in 1 .. n : J[i] = L[i]
  BY <1>1
<1>3. J[n + 1] = c
  <2>1. n + 1 \in 1 .. n + 1 /\ ~(n + 1 <= n) /\ n + 1 - n = 1
    BY <1>1
  <2> QED BY <1>0, <1>1, <2>1
<1>4. n \in Nat /\ upto + 1 - (n + 1) = upto - n
  BY <1>1 DEF n
<1>5. \A i \in 1 .. n + 1 :
        J[i] = [write |-> TRUE, at |-> upto + 1 - (n + 1) + i - 1, val |-> d]
  <2> SUFFICES ASSUME NEW i \in 1 .. n + 1
               PROVE  J[i] = [write |-> TRUE, at |-> upto + 1 - (n + 1) + i - 1, val |-> d]
    OBVIOUS
  <2>1. CASE i = n + 1
    <3>1. upto + 1 - (n + 1) + i - 1 = upto
      BY <1>4, <2>1
    <3> QED BY <1>3, <2>1, <3>1 DEF c
  <2>2. CASE i \in 1 .. n
    <3>1. L[i] = [write |-> TRUE, at |-> upto - n + i - 1, val |-> d]
      BY <2>2 DEF Lands, n
    <3>2. upto + 1 - (n + 1) + i - 1 = upto - n + i - 1
      BY <1>4, <2>2
    <3> QED BY <1>2, <2>2, <3>1, <3>2
  <2> QED BY <1>4, <2>1, <2>2
<1>6. \A a \in from .. upto + 1 - (n + 1) - 1 : M[a] = d
  BY <1>4 DEF Lands, n
<1>7. PICK u, m : u = upto + 1 /\ m = n + 1
  OBVIOUS
<1>8. Lands(J, M, d, from, u, m)
  <2>1. \A i \in 1 .. m : J[i] = [write |-> TRUE, at |-> u - m + i - 1, val |-> d]
    BY <1>5, <1>7
  <2>2. \A a \in from .. u - m - 1 : M[a] = d
    BY <1>6, <1>7
  <2> QED BY <2>1, <2>2 DEF Lands
<1> QED BY <1>7, <1>8 DEF n, C, c, J

-----------------------------------------------------------------------------
(***************************************************************************)
(* A clock while the bridge has room, seen from the bridge.                *)
(***************************************************************************)
Edge(rx, serves) ==
  /\ serves \in BOOLEAN /\ (serves => queue # <<>>)
  /\ queue' = Left(queue, serves) \o Command
  /\ mem' = Stored(queue, mem, serves)
  /\ valid' = (serves /\ ~Head(queue).write)
  /\ rdata' = IF serves /\ ~Head(queue).write THEN mem[Head(queue).at] ELSE rdata
  /\ beat' = IF avs_write THEN (beat + 1) % avm_burstcount ELSE beat
  /\ Clk(FALSE, rx, valid, rdata, FALSE)
  /\ asked' = (writes(rx, "MEM_RDWR") \/ (asked /\ ~Starts))

Room == Cap >= SweepWords + 2

LEMMA HasRoom == ASSUME Room, Types, Fits PROVE ~avs_waitrequest
<1>1. Len(queue) \in Nat
  BY NoneLeft DEF Types
<1> DEFINE n == Len(queue)
<1>2. n \in Nat /\ n <= SweepWords + 1
  BY <1>1 DEF Fits
<1> HIDE DEF n
<1>3. ~(n >= Cap)
  BY <1>2, SweepAssumption, CapAssumption DEF Room
<1> QED BY <1>3 DEF n, avs_waitrequest

LEMMA Clocks == ASSUME Room, Types, Fits, NEW rx, Clock(rx)
                PROVE  \E serves \in BOOLEAN : Edge(rx, serves)
<1>1. avs_waitrequest = FALSE
  BY HasRoom DEF avs_waitrequest
<1>2. PICK serves \in BOOLEAN : (serves => queue # <<>>) /\ Memory(serves)
  BY DEF Clock
<1>3. Clk(FALSE, rx, valid, rdata, FALSE)
  BY <1>1, Zenon DEF Clock
<1>4. asked' = (writes(rx, "MEM_RDWR") \/ (asked /\ ~Starts))
  BY Zenon DEF Clock
<1>5. /\ queue' = Left(queue, serves) \o Command
      /\ mem' = Stored(queue, mem, serves)
      /\ valid' = (serves /\ ~Head(queue).write)
      /\ rdata' = IF serves /\ ~Head(queue).write THEN mem[Head(queue).at] ELSE rdata
      /\ beat' = IF avs_write THEN (beat + 1) % avm_burstcount ELSE beat
  BY <1>1, <1>2, Zenon DEF Memory, Left, Stored
<1>6. Edge(rx, serves)
  BY <1>2, <1>3, <1>4, <1>5, Zenon DEF Edge
<1> QED BY <1>6

LEMMA FsmMoves ==
  ASSUME NEW rx, NEW serves, Edge(rx, serves)
  PROVE  /\ ClkCsr(rx) /\ avm_readdata' = (IF valid THEN rdata ELSE avm_readdata)
         /\ avs_waitrequest_r' = FALSE
         /\ state = "IDLE" => FsmIdle
         /\ state = "TEST_WRITE" => FsmTestWrite
         /\ state = "TEST_READ" => FsmTestRead(valid)
         /\ state = "WR_REQ" => FsmWrReq
         /\ state = "WR_RSP" => FsmWrRsp
         /\ state = "RD_REQ" => FsmRdReq
         /\ state = "RD_RSP" => FsmRdRsp(valid)
<1>1. /\ ClkCsr(rx) /\ avm_readdata' = (IF valid THEN rdata ELSE avm_readdata)
      /\ avs_waitrequest_r' = FALSE
      /\ FsmIdle \/ FsmTestWrite \/ FsmTestRead(valid) \/ FsmWrReq \/ FsmWrRsp
            \/ FsmRdReq \/ FsmRdRsp(valid)
  BY Zenon DEF Edge, Clk
<1>2. /\ FsmIdle => state = "IDLE"
      /\ FsmTestWrite => state = "TEST_WRITE"
      /\ FsmTestRead(valid) => state = "TEST_READ"
      /\ FsmWrReq => state = "WR_REQ"
      /\ FsmWrRsp => state = "WR_RSP"
      /\ FsmRdReq => state = "RD_REQ"
      /\ FsmRdRsp(valid) => state = "RD_RSP"
  BY DEF FsmIdle, FsmTestWrite, FsmTestRead, FsmWrReq, FsmWrRsp, FsmRdReq, FsmRdRsp
<1> QED BY <1>1, <1>2

(***************************************************************************)
(* The bridge with nothing to serve, or nothing but writes, or a read      *)
(* behind them.                                                            *)
(***************************************************************************)
LEMMA EmptyQueue ==
  ASSUME NEW rx, NEW serves, Edge(rx, serves), queue = <<>>, IsSeq(Command)
  PROVE  queue' = Command /\ mem' = mem /\ ~valid' /\ rdata' = rdata
<1>1. ~serves
  BY DEF Edge
<1>2. queue' = <<>> \o Command
  BY <1>1 DEF Edge, Left
<1>3. <<>> \o Command = Command
  BY ConcatEmptySeq DEF IsSeq
<1> QED BY <1>1, <1>2, <1>3 DEF Edge, Stored

LEMMA NoCommand ==
  ASSUME ~avs_write, ~avs_read
  PROVE  Command = <<>> /\ IsSeq(Command)
BY NoneLeft DEF Command

LEMMA JoinsNone == ASSUME NEW s, IsSeq(s) PROVE s \o <<>> = s
BY ConcatEmptySeq DEF IsSeq

LEMMA QueueIs ==
  ASSUME NEW rx, NEW serves, Edge(rx, serves), Types
  PROVE  /\ IsSeq(Left(queue, serves)) /\ Len(queue) \in Nat /\ Len(Left(queue, serves)) \in Nat
         /\ Len(Left(queue, serves)) = Len(queue) - (IF serves THEN 1 ELSE 0)
         /\ \A i \in 1 .. Len(Left(queue, serves)) :
              Left(queue, serves)[i] = queue[i + (IF serves THEN 1 ELSE 0)]
         /\ serves => Len(queue) > 0 /\ Head(queue) = queue[1]
<1>1. IsSeq(queue) /\ serves \in BOOLEAN /\ (serves => queue # <<>>)
  BY DEF Edge, Types
<1> QED BY <1>1, LeftIs, Zenon

LEMMA Served ==
  ASSUME NEW rx, NEW serves, Edge(rx, serves), NEW d, NEW from, NEW upto, NEW w,
         Serves(queue, mem, d, from, upto, w, serves)
  PROVE  /\ Lands(Left(queue, serves), mem', d, from, upto, Behind(w, serves))
         /\ DOMAIN mem' = 0 .. LastWord
         /\ \A a \in 0 .. LastWord : a \notin from .. upto - 1 => mem'[a] = mem[a]
         /\ valid' <=> serves /\ ~(w > 0)
<1>0. /\ w \in 0 .. Len(queue) /\ Lands(queue, mem, d, from, upto, w)
      /\ w = 0 /\ serves => ~queue[1].write
      /\ Len(queue) \in Nat
      /\ serves => Head(queue) = queue[1]
  BY LeftIs DEF Serves
<1>1. mem' = Stored(queue, mem, serves)
  BY Zenon DEF Edge
<1>2. /\ Lands(Left(queue, serves), mem', d, from, upto, Behind(w, serves))
      /\ DOMAIN mem' = 0 .. LastWord
      /\ \A a \in 0 .. LastWord : a \notin from .. upto - 1 => mem'[a] = mem[a]
  <2>1. /\ Lands(Left(queue, serves), Stored(queue, mem, serves), d, from, upto, Behind(w, serves))
        /\ DOMAIN Stored(queue, mem, serves) = 0 .. LastWord
        /\ \A a \in 0 .. LastWord :
             a \notin from .. upto - 1 => Stored(queue, mem, serves)[a] = mem[a]
    BY LandsOn
  <2> QED BY <1>1, <2>1
<1>3. valid' <=> serves /\ ~(w > 0)
  <2>1. serves => Head(queue) = queue[1]
    BY <1>0
  <2>2. w > 0 => queue[1].write
    <3> SUFFICES ASSUME w > 0 PROVE queue[1].write
      OBVIOUS
    <3>2. 1 \in 1 .. w
      BY <1>0
    <3>3. queue[1] = [write |-> TRUE, at |-> upto - w + 1 - 1, val |-> d]
      BY <1>0, <3>2 DEF Lands
    <3> QED BY <3>3
  <2>3. ~(w > 0) => w = 0
    BY <1>0
  <2>4. valid' = (serves /\ ~Head(queue).write)
    BY DEF Edge
  <2> QED BY <1>0, <2>1, <2>2, <2>3, <2>4
<1> QED BY <1>2, <1>3, Zenon

-----------------------------------------------------------------------------
(***************************************************************************)
(* The AFU and the bridge at rest.                                         *)
(***************************************************************************)
LEMMA RestClocks ==
  ASSUME NEW rx, NEW serves, Edge(rx, serves), Quiet, mem_testmode => addr_test_done
  PROVE  /\ queue' = <<>> /\ mem' = mem /\ ~valid' /\ beat' = 0
         /\ state' = "IDLE" /\ ~avs_write' /\ ~avs_read' /\ ~avm_write' /\ ~avm_read'
         /\ address' = address /\ burstcount' = burstcount /\ addr_test_done' = addr_test_done
         /\ avm_readdata' = avm_readdata
         /\ mem_testmode' = (~addr_test_done /\ written(rx, "MEM_ADDR_TESTMODE", mem_testmode))
         /\ mem_RDWR' = written(rx, "MEM_RDWR", mem_RDWR)
         /\ avm_address' = written(rx, "MEM_ADDRESS", avm_address)
         /\ avm_burstcount' = written(rx, "MEM_BURSTCOUNT", avm_burstcount)
         /\ avm_writedata' = written(rx, "MEM_WRDATA", avm_writedata)
         /\ asked' <=> writes(rx, "MEM_RDWR")
<1>1. Command = <<>> /\ IsSeq(Command)
  BY NoCommand DEF Quiet, Calm
<1>2. queue' = <<>> /\ mem' = mem /\ ~valid'
  BY <1>1, EmptyQueue DEF Quiet
<1>3. beat' = 0
  BY DEF Edge, Quiet, Calm
<1>4. FsmIdle /\ ClkCsr(rx) /\ avm_readdata' = avm_readdata
  BY FsmMoves DEF Quiet
<1>5. /\ state' = "IDLE" /\ ~avs_write' /\ ~avs_read'
      /\ address' = address /\ burstcount' = burstcount /\ addr_test_done' = addr_test_done
  BY <1>4 DEF FsmIdle, Quiet, Calm, Unasked
<1>6. /\ ~avm_write' /\ ~avm_read'
      /\ mem_testmode' = (~addr_test_done /\ written(rx, "MEM_ADDR_TESTMODE", mem_testmode))
      /\ mem_RDWR' = written(rx, "MEM_RDWR", mem_RDWR)
      /\ avm_address' = written(rx, "MEM_ADDRESS", avm_address)
      /\ avm_burstcount' = written(rx, "MEM_BURSTCOUNT", avm_burstcount)
      /\ avm_writedata' = written(rx, "MEM_WRDATA", avm_writedata)
  BY <1>4 DEF ClkCsr, NextRDWR, Quiet, Calm, Unasked
<1>7. asked' <=> writes(rx, "MEM_RDWR")
  BY DEF Edge, Quiet, Calm, Unasked
<1> QED BY <1>2, <1>3, <1>4, <1>5, <1>6, <1>7

LEMMA Writes ==
  ASSUME NEW reg, NEW val, NEW checked, NEW q, NEW old
  PROVE  LET rx == [op |-> "write", reg |-> reg, val |-> val]
         IN  /\ writes(rx, q) <=> reg = q
             /\ written(rx, q, old) = IF reg = q THEN val ELSE old
             /\ rx.op # "read"
BY DEF writes, written

LEMMA ReadsOnly ==
  ASSUME NEW reg, NEW q, NEW old
  PROVE  LET rx == [op |-> "read", reg |-> reg]
         IN  ~writes(rx, q) /\ written(rx, q, old) = old /\ rx.op = "read"
BY DEF writes, written

LEMMA NoReqIs == ASSUME NEW q, NEW old
                 PROVE  ~writes(NoReq, q) /\ written(NoReq, q, old) = old /\ NoReq.op # "read"
BY DEF writes, written, NoReq

(* A request that writes no register.                                      *)
Mute(rx) == \A q, old : ~writes(rx, q) /\ written(rx, q, old) = old

LEMMA Mutes == /\ Mute(NoReq) /\ \A reg : Mute([op |-> "read", reg |-> reg])
BY NoReqIs, ReadsOnly DEF Mute

LEMMA RestStays ==
  ASSUME NEW rx, NEW serves, Edge(rx, serves), Mute(rx),
         NEW k \in 1 .. Over, k # 9, Regs(k), Resting(k)
  PROVE  Regs(k)' /\ Resting(k)'
<1>1. Quiet /\ (mem_testmode => addr_test_done)
  BY DEF Regs, Resting
<1>2. /\ mem_testmode' = (~addr_test_done /\ mem_testmode)
      /\ mem_RDWR' = mem_RDWR /\ avm_address' = avm_address
      /\ avm_burstcount' = avm_burstcount /\ avm_writedata' = avm_writedata /\ ~asked'
      /\ queue' = <<>> /\ mem' = mem /\ ~valid' /\ beat' = 0
      /\ state' = "IDLE" /\ ~avs_write' /\ ~avs_read' /\ ~avm_write' /\ ~avm_read'
      /\ address' = address /\ burstcount' = burstcount /\ addr_test_done' = addr_test_done
      /\ avm_readdata' = avm_readdata
  BY <1>1, RestClocks DEF Mute
<1>3. Quiet'
  BY <1>1, <1>2 DEF Quiet, Calm, Unasked
<1>4. Regs(k)'
  BY <1>2 DEF Regs
<1>5. Resting(k)'
  BY <1>2, <1>3 DEF Resting, Tested
<1> QED BY <1>4, <1>5

-----------------------------------------------------------------------------
(***************************************************************************)
(* A request on its way to the master.                                     *)
(***************************************************************************)
Spaced == MmioGap >= 4 /\ gap \in 1 .. MmioGap
GapOn == gap' = IF gap < MmioGap THEN gap + 1 ELSE gap

(* A request that writes MEM_RDWR, or nothing.                             *)
Aside(rx) == \A q, old : q # "MEM_RDWR" => written(rx, q, old) = old

LEMMA MutesAside == \A rx : Mute(rx) => Aside(rx)
BY DEF Mute, Aside

LEMMA RequestAside == ASSUME NEW val PROVE Aside([op |-> "write", reg |-> "MEM_RDWR", val |-> val])
BY DEF Aside, written, writes

LEMMA RegsStay ==
  ASSUME NEW rx, NEW serves, Edge(rx, serves), Aside(rx), NEW k \in 1 .. Over, k # 9, Regs(k),
         state \in {"IDLE", "WR_REQ", "WR_RSP", "RD_REQ", "RD_RSP"}
  PROVE  /\ Regs(k)' /\ avm_address' = avm_address /\ avm_burstcount' = avm_burstcount
         /\ avm_writedata' = avm_writedata /\ ~mem_testmode
         /\ mem_RDWR' = NextRDWR(rx)
         /\ avm_read' = (mem_RDWR.en /\ mem_RDWR.rd)
         /\ avm_write' = (mem_RDWR.en /\ ~mem_RDWR.rd)
<1>1. /\ ClkCsr(rx) /\ avm_readdata' = (IF valid THEN rdata ELSE avm_readdata)
      /\ FsmIdle \/ FsmWrReq \/ FsmWrRsp \/ FsmRdReq \/ FsmRdRsp(valid)
  BY FsmMoves
<1>2. address' = address /\ addr_test_done' = addr_test_done
  BY <1>1 DEF FsmIdle, FsmWrReq, FsmWrRsp, FsmRdReq, FsmRdRsp
<1>3. /\ avm_address' = avm_address /\ avm_burstcount' = avm_burstcount
      /\ avm_writedata' = avm_writedata /\ mem_RDWR' = NextRDWR(rx)
      /\ mem_testmode' = (~addr_test_done /\ mem_testmode)
      /\ avm_read' = (mem_RDWR.en /\ mem_RDWR.rd)
      /\ avm_write' = (mem_RDWR.en /\ ~mem_RDWR.rd)
  BY <1>1 DEF ClkCsr, Aside
<1>4. ~mem_testmode
  BY DEF Regs
<1>5. Regs(k)'
  BY <1>2, <1>3, <1>4 DEF Regs
<1> QED BY <1>3, <1>4, <1>5

(***************************************************************************)
(* The first clock in which a request is there, and the second, in which   *)
(* the master takes it; without an MMIO access in between.                 *)
(***************************************************************************)
LEMMA Comes ==
  ASSUME NEW serves, Edge(NoReq, serves), NEW k \in 1 .. Over, k # 9, Regs(k),
         NEW rd \in BOOLEAN, Coming(rd), gap = 1, Spaced, GapOn
  PROVE  Coming(rd)' /\ burstcount' = burstcount
<1>1. /\ mem_RDWR' = NextRDWR(NoReq) /\ avm_read' = (mem_RDWR.en /\ mem_RDWR.rd)
      /\ avm_write' = (mem_RDWR.en /\ ~mem_RDWR.rd) /\ ~mem_testmode
  BY RegsStay, Mutes, MutesAside DEF Coming
<1>2. ~avm_write /\ ~avm_read /\ FsmIdle
  <2>1. FsmIdle
    BY FsmMoves DEF Coming
  <2>2. gap # 2
    OBVIOUS
  <2> QED BY <2>1, <2>2, Zenon DEF Coming
<1>3. state' = "IDLE" /\ ~avs_write' /\ ~avs_read' /\ burstcount' = burstcount
  BY <1>1, <1>2 DEF FsmIdle, Coming
<1>4. mem_RDWR' = mem_RDWR
  BY <1>1, <1>2, NoReqIs DEF NextRDWR
<1>5. asked'
  BY <1>3 DEF Edge, Starts, Coming
<1>6. gap' = 2
  BY GapAssumption DEF Spaced, GapOn
<1> QED BY <1>1, <1>3, <1>4, <1>5, <1>6 DEF Coming

LEMMA Arrives ==
  ASSUME NEW serves, Edge(NoReq, serves), NEW k \in 1 .. Over, k # 9, Regs(k),
         NEW rd \in BOOLEAN, Coming(rd), gap = 2, Spaced, GapOn
  PROVE  /\ Taken(rd)' /\ gap' = 3 /\ burstcount' = burstcount
         /\ state' = IF rd THEN "RD_REQ" ELSE "WR_REQ"
         /\ avs_write' <=> ~rd
         /\ avs_read' <=> rd
<1>1. /\ mem_RDWR' = NextRDWR(NoReq) /\ avm_read' = (mem_RDWR.en /\ mem_RDWR.rd)
      /\ avm_write' = (mem_RDWR.en /\ ~mem_RDWR.rd) /\ ~mem_testmode
  BY RegsStay, Mutes, MutesAside DEF Coming
<1>2. (avm_write <=> ~rd) /\ (avm_read <=> rd) /\ FsmIdle
  BY FsmMoves DEF Coming
<1>3. /\ state' = IF rd THEN "RD_REQ" ELSE "WR_REQ"
      /\ avs_write' <=> ~rd
      /\ avs_read' <=> rd
      /\ burstcount' = burstcount
  BY <1>1, <1>2 DEF FsmIdle, Coming
<1>4. mem_RDWR' = [mem_RDWR EXCEPT !.en = FALSE]
  BY <1>1, <1>2, NoReqIs DEF NextRDWR
<1>5. ~asked'
  BY <1>3, NoReqIs DEF Edge, Starts, Coming
<1>6. gap' = 3
  BY GapAssumption DEF Spaced, GapOn
<1>7. ~mem_RDWR'.en /\ (avm_write' <=> ~rd) /\ (avm_read' <=> rd)
  BY <1>1, <1>4 DEF Coming
<1> QED BY <1>3, <1>5, <1>6, <1>7 DEF Taken

(* The bit has been taken back, and stays so.                              *)
LEMMA StaysTaken ==
  ASSUME NEW rx, NEW serves, Edge(rx, serves), Mute(rx), NEW k \in 1 .. Over, k # 9, Regs(k),
         state \in {"IDLE", "WR_REQ", "WR_RSP", "RD_REQ", "RD_RSP"}, ~asked, ~mem_RDWR.en
  PROVE  ~asked' /\ ~mem_RDWR'.en /\ ~avm_write' /\ ~avm_read'
<1>1. /\ mem_RDWR' = NextRDWR(rx) /\ avm_read' = (mem_RDWR.en /\ mem_RDWR.rd)
      /\ avm_write' = (mem_RDWR.en /\ ~mem_RDWR.rd)
  BY RegsStay, MutesAside
<1>2. ~mem_RDWR'.en
  BY <1>1 DEF NextRDWR, Mute
<1>3. ~asked'
  BY DEF Edge, Mute
<1> QED BY <1>1, <1>2, <1>3

-----------------------------------------------------------------------------
(***************************************************************************)
(* The writes of a request: put to the bridge a clock each, carried out at *)
(* the bridge's pace.                                                      *)
(***************************************************************************)
LEMMA AllServed ==
  ASSUME NEW rx, NEW serves, Edge(rx, serves), Types, NEW d, NEW from \in Nat, NEW upto \in Nat,
         from <= upto - Len(queue), upto <= SweepWords, Lands(queue, mem, d, from, upto, Len(queue))
  PROVE  LET L == Left(queue, serves)
         IN  /\ IsSeq(L) /\ Len(L) \in Nat /\ Len(L) <= Len(queue)
             /\ Lands(L, mem', d, from, upto, Len(L)) /\ DOMAIN mem' = 0 .. LastWord
             /\ \A a \in 0 .. LastWord : a \notin from .. upto - 1 => mem'[a] = mem[a]
             /\ ~valid'
<1> DEFINE L == Left(queue, serves)
<1>1. PICK n \in Nat : n = Len(queue)
  BY QueueIs
<1>2. /\ IsSeq(L) /\ Len(L) \in Nat /\ Len(L) = n - (IF serves THEN 1 ELSE 0)
      /\ serves => n > 0
      /\ serves \in BOOLEAN
  BY <1>1, QueueIs DEF Edge
<1>3. Serves(queue, mem, d, from, upto, n, serves)
  <2>1. n = 0 => ~serves
    BY <1>2
  <2>2. n \in 0 .. Len(queue)
    BY <1>1
  <2>3. IsSeq(queue) /\ DOMAIN mem = 0 .. LastWord /\ serves \in BOOLEAN /\ (serves => queue # <<>>)
    BY DEF Types, Edge
  <2> QED BY <1>1, <2>1, <2>2, <2>3 DEF Serves
<1>4. /\ Lands(L, mem', d, from, upto, Behind(n, serves)) /\ DOMAIN mem' = 0 .. LastWord
      /\ \A a \in 0 .. LastWord : a \notin from .. upto - 1 => mem'[a] = mem[a]
      /\ valid' <=> serves /\ ~(n > 0)
  BY <1>3, Served
<1>5. ~valid'
  BY <1>2, <1>4
<1>6. Behind(n, serves) = Len(L) /\ Len(L) <= n
  BY <1>2 DEF Behind
<1> QED BY <1>1, <1>2, <1>4, <1>5, <1>6

LEMMA PlaceIs ==
  ASSUME NEW k \in 1 .. Over, Regs(k)
  PROVE  /\ avm_burstcount \in Nat \ {0} /\ avm_burstcount < BurstMod /\ Addr \in Nat
         /\ Addr + avm_burstcount <= SweepWords /\ Addr + Burst <= SweepWords
         /\ Burst \in Nat \ {0} /\ Burst < BurstMod
         /\ k > 1 => avm_address = Addr
<1>1. avm_burstcount = IF k > 12 THEN Burst ELSE 1
  BY DEF Regs
<1>2. k > 1 => avm_address = Addr
  BY DEF Regs
<1> QED BY <1>1, <1>2, PlaceAssumption, BurstAssumption, SweepAssumption

LEMMA Within == ASSUME NEW n \in Nat \ {0}, NEW b \in 0 .. n - 1 PROVE b % n = b
OBVIOUS

LEMMA Around == ASSUME NEW n \in Nat \ {0} PROVE n % n = 0
OBVIOUS

(* The request has been taken.                                             *)
WritingOn(k) ==
  /\ ~valid /\ ~avs_read /\ beat = burstcount - 1 /\ ~asked /\ ~mem_RDWR.en
  /\ state \in {"WR_REQ", "WR_RSP", "IDLE"}
  /\ avs_write <=> state = "WR_REQ"
  /\ burstcount \in 1 .. avm_burstcount
  /\ state # "WR_REQ" => burstcount = 1
  /\ Len(queue) <= Put /\ Landing(Addr, Addr + Put, Len(queue))
  /\ state = "IDLE" => ~avm_write /\ ~avm_read
  /\ k = 14 => \A a \in 0 .. LastWord : ~InBurst(a) => mem[a] = Data1

LEMMA WritesGoOn ==
  ASSUME NEW rx, NEW serves, Edge(rx, serves), Aside(rx), Types,
         NEW k \in 1 .. Over, k \in {4, 14}, Regs(k), WritingOn(k)
  PROVE  /\ ~valid' /\ ~avs_read' /\ beat' = burstcount' - 1
         /\ state' \in {"WR_REQ", "WR_RSP", "IDLE"}
         /\ avs_write' <=> state' = "WR_REQ"
         /\ burstcount' \in 1 .. avm_burstcount'
         /\ state' # "WR_REQ" => burstcount' = 1
         /\ Len(queue') <= Put' /\ Landing(Addr, Addr + Put, Len(queue))'
         /\ k = 14 => \A a \in 0 .. LastWord : ~InBurst(a) => mem'[a] = Data1
         /\ state' = "WR_REQ" => state = "WR_REQ" /\ avm_burstcount > 1
         /\ state \in {"IDLE", "WR_RSP"} => state' = "IDLE"
<1>0. PICK b, c, n, p : /\ b = avm_burstcount /\ c = burstcount /\ n = Len(queue) /\ p = Put
  OBVIOUS
<1>1. /\ b \in Nat \ {0} /\ b < BurstMod /\ Addr \in Nat /\ Addr + b <= SweepWords
      /\ Burst \in Nat \ {0}
      /\ avm_address = Addr
      /\ n \in Nat /\ n <= p /\ c \in 1 .. b /\ p = IF state = "WR_REQ" THEN c - 1 ELSE b
      /\ BurstMod \in Nat
  BY <1>0, PlaceIs, QueueIs, BurstAssumption DEF WritingOn, Put
<1>2. /\ avm_burstcount' = b /\ avm_writedata' = avm_writedata /\ ~mem_testmode
      /\ state \in {"WR_REQ", "WR_RSP", "IDLE"}
  BY <1>0, RegsStay DEF WritingOn
<1> DEFINE L == Left(queue, serves)
           d == avm_writedata
           u == Addr + p
<1>3. /\ IsSeq(L) /\ Len(L) \in Nat /\ Len(L) <= n
      /\ Lands(L, mem', d, Addr, u, Len(L))
      /\ \A a \in 0 .. LastWord : a \notin Addr .. u - 1 => mem'[a] = mem[a]
      /\ ~valid'
  <2>1. u \in Nat /\ u <= SweepWords /\ Addr <= u - Len(queue)
    BY <1>0, <1>1, SweepAssumption
  <2>2. Lands(queue, mem, d, Addr, u, Len(queue))
    BY <1>0 DEF WritingOn, Landing
  <2> HIDE DEF u, L, d
  <2> QED BY <1>0, <1>1, <2>1, <2>2, AllServed DEF L
<1>4. k = 14 => \A a \in 0 .. LastWord : ~InBurst(a) => mem'[a] = Data1
  <2> SUFFICES ASSUME k = 14, NEW a \in 0 .. LastWord, ~InBurst(a) PROVE mem'[a] = Data1
    OBVIOUS
  <2>1. b = Burst
    BY <1>0 DEF Regs
  <2>2. a \in Int
    BY SweepAssumption DEF LastWord
  <2>3. a \notin Addr .. u - 1
    BY <1>1, <2>1, <2>2 DEF InBurst
  <2> QED BY <1>3, <2>3 DEF WritingOn
<1> HIDE DEF u, L, d
<1>5. CASE state = "WR_REQ"
  <2>1. /\ FsmWrReq /\ avs_write /\ p = c - 1 /\ beat = c - 1 /\ ~avs_read
    BY <1>0, <1>1, <1>5, FsmMoves DEF WritingOn
  <2>2. Command = << [write |-> TRUE, at |-> u, val |-> d] >>
    <3>1. avs_address + beat = u
      BY <1>1, <1>2, <2>1 DEF avs_address, u
    <3>2. Command = << [write |-> TRUE, at |-> avs_address + beat, val |-> avm_writedata] >>
      BY <2>1, Zenon DEF Command
    <3> QED BY <3>1, <3>2, Zenon DEF d
  <2>3. queue' = L \o << [write |-> TRUE, at |-> u, val |-> d] >>
    BY <2>2 DEF Edge, L
  <2>4. u \in Nat
    BY <1>1 DEF u
  <2>5. Lands(queue', mem', d, Addr, u + 1, Len(L) + 1)
    BY <1>1, <1>3, <2>3, <2>4, LandsNext
  <2>6. Len(queue') = Len(L) + 1
    <3>1. IsSeq(<< [write |-> TRUE, at |-> u, val |-> d] >>)
          /\ Len(<< [write |-> TRUE, at |-> u, val |-> d] >>) = 1
      BY Tuples, Zenon
    <3> QED BY <1>3, <2>3, <3>1, Joined
  <2>7. beat' = c % b
    <3>1. c - 1 + 1 = c
      BY <1>1
    <3> QED BY <1>0, <2>1, <3>1 DEF Edge
  <2>8. CASE b = c
    <3>1. state' = "WR_RSP" /\ ~avs_write' /\ burstcount' = 1 /\ ~avs_read'
      BY <1>0, <2>1, <2>8 DEF FsmWrReq
    <3>2. beat' = 0
      BY <1>1, <2>7, <2>8, Around
    <3>3. Put' = b /\ u + 1 = Addr + b
      BY <1>1, <1>2, <2>1, <2>8, <3>1 DEF Put, u
    <3>4. Len(queue') <= Put'
      BY <1>1, <1>3, <2>1, <2>6, <2>8, <3>3
    <3>5. Landing(Addr, Addr + Put, Len(queue))'
      BY <1>2, <2>5, <2>6, <3>3 DEF Landing, d
    <3> QED BY <1>1, <1>2, <1>3, <1>4, <1>5, <3>1, <3>2, <3>4, <3>5
  <2>9. CASE b # c
    <3>1. state' = "WR_REQ" /\ avs_write' /\ burstcount' = c + 1 /\ ~avs_read'
      <4>1. c + 1 \in 0 .. BurstMod - 1 /\ BurstMod \in Nat \ {0}
        BY <1>1, <2>9
      <4>2. (c + 1) % BurstMod = c + 1
        BY <4>1, Within
      <4> QED BY <1>0, <2>1, <2>9, <4>2 DEF FsmWrReq, more
    <3>2. beat' = c
      BY <1>1, <2>7, <2>9, Within
    <3>3. Put' = c /\ u + 1 = Addr + c
      BY <1>1, <2>1, <3>1 DEF Put, u
    <3>4. Len(queue') <= Put'
      BY <1>1, <1>3, <2>1, <2>6, <3>3
    <3>5. Landing(Addr, Addr + Put, Len(queue))'
      BY <1>2, <2>5, <2>6, <3>3 DEF Landing, d
    <3>6. c + 1 \in 1 .. b /\ c + 1 - 1 = c /\ b > 1
      BY <1>1, <2>9
    <3> QED BY <1>0, <1>1, <1>2, <1>3, <1>4, <1>5, <3>1, <3>2, <3>4, <3>5, <3>6
  <2> QED BY <2>8, <2>9
<1>6. CASE state # "WR_REQ"
  <2>1. /\ ~avs_write /\ ~avs_read /\ p = b /\ beat = 0 /\ c = 1
    BY <1>0, <1>1, <1>6 DEF WritingOn
  <2>2. queue' = L
    <3>1. queue' = L \o <<>>
      BY <2>1, NoCommand DEF Edge, L
    <3> QED BY <1>3, <3>1, JoinsNone
  <2>3. beat' = 0
    BY <2>1 DEF Edge
  <2>4. state' = "IDLE" /\ ~avs_write' /\ ~avs_read' /\ burstcount' = 1
    <3>1. CASE state = "IDLE"
      <4>1. FsmIdle /\ ~avm_write /\ ~avm_read
        BY <3>1, FsmMoves DEF WritingOn
      <4> QED BY <1>0, <1>2, <2>1, <3>1, <4>1 DEF FsmIdle
    <3>2. CASE state = "WR_RSP"
      <4>1. FsmWrRsp
        BY <3>2, FsmMoves
      <4> QED BY <1>0, <2>1, <4>1 DEF FsmWrRsp
    <3> QED BY <1>2, <1>6, <3>1, <3>2
  <2>5. Put' = b
    BY <1>2, <2>4 DEF Put
  <2>6. Len(queue') <= Put'
    BY <1>1, <1>3, <2>1, <2>2, <2>5
  <2>7. Landing(Addr, Addr + Put, Len(queue))'
    BY <1>2, <1>3, <2>1, <2>2, <2>5 DEF Landing, d, u
  <2> QED BY <1>1, <1>2, <1>3, <1>4, <1>6, <2>3, <2>4, <2>6, <2>7
<1> QED BY <1>5, <1>6

LEMMA WritingIsOn ==
  ASSUME NEW k, Writing(k), Taken(FALSE), Spaced
  PROVE  WritingOn(k)
<1>1. gap >= 3 /\ ~asked /\ ~mem_RDWR.en /\ (avm_write <=> gap = 3) /\ ~avm_read
  BY DEF Taken
<1>2. ~Coming(FALSE)
  BY <1>1 DEF Coming
<1> QED BY <1>1, <1>2 DEF Writing, WritingOn

LEMMA WritingTicks ==
  ASSUME NEW serves, Edge(NoReq, serves), Types, Spaced, GapOn,
         NEW k \in 1 .. Over, k \in {4, 14}, Regs(k), Writing(k)
  PROVE  Regs(k)' /\ Writing(k)'
<1>0. k # 9 /\ FALSE \in BOOLEAN
  OBVIOUS
<1>1. CASE Taken(FALSE)
  <2>1. WritingOn(k)
    BY <1>1, WritingIsOn
  <2>2. /\ ~valid' /\ ~avs_read' /\ beat' = burstcount' - 1
        /\ state' \in {"WR_REQ", "WR_RSP", "IDLE"}
        /\ avs_write' <=> state' = "WR_REQ"
        /\ burstcount' \in 1 .. avm_burstcount'
        /\ state' # "WR_REQ" => burstcount' = 1
        /\ Len(queue') <= Put' /\ Landing(Addr, Addr + Put, Len(queue))'
        /\ k = 14 => \A a \in 0 .. LastWord : ~InBurst(a) => mem'[a] = Data1
        /\ state' = "WR_REQ" => avm_burstcount > 1
    BY <2>1, WritesGoOn, Mutes, MutesAside
  <2>3. Regs(k)' /\ avm_burstcount' = avm_burstcount
    BY <2>1, RegsStay, Mutes, MutesAside DEF WritingOn
  <2>4. ~asked' /\ ~mem_RDWR'.en /\ ~avm_write' /\ ~avm_read'
    BY <2>1, StaysTaken, Mutes DEF WritingOn
  <2>5. gap' >= 4 /\ gap' \in Nat
    BY <1>1, GapAssumption DEF Taken, Spaced, GapOn
  <2>6. Taken(FALSE)'
    BY <2>4, <2>5 DEF Taken
  <2>7. ~(state' = "WR_REQ" /\ avm_burstcount' = 1)
    BY <2>2, <2>3
  <2>8. gap' # 3
    BY <2>5
  <2> QED BY <2>2, <2>3, <2>6, <2>7, <2>8 DEF Writing, InBurst
<1>2. CASE Coming(FALSE) /\ queue = <<>> /\ burstcount = 1
  <2>1. /\ ~valid /\ ~avs_read /\ ~avs_write /\ beat = 0 /\ state = "IDLE"
        /\ k = 14 => \A a \in 0 .. LastWord : ~InBurst(a) => mem[a] = Data1
    BY <1>2 DEF Writing, Coming
  <2>2. queue' = <<>> /\ mem' = mem /\ ~valid' /\ beat' = 0
    BY <1>2, <2>1, NoCommand, EmptyQueue DEF Edge
  <2>3. Regs(k)' /\ avm_burstcount' = avm_burstcount
    BY <2>1, RegsStay, Mutes, MutesAside
  <2>4. k = 14 => \A a \in 0 .. LastWord : ~InBurst(a) => mem'[a] = Data1
    BY <2>1, <2>2
  <2>5. CASE gap = 1
    <3>1. Coming(FALSE)' /\ burstcount' = 1
      BY <1>0, <1>2, <2>5, Comes, Zenon
    <3>2. ~avs_read'
      BY <3>1 DEF Coming
    <3>3. beat' = burstcount' - 1
      BY <2>2, <3>1
    <3> QED BY <2>2, <2>3, <2>4, <3>1, <3>2, <3>3, Zenon DEF Writing, InBurst
  <2>6. CASE gap = 2
    <3>1. /\ Taken(FALSE)' /\ gap' = 3 /\ burstcount' = 1 /\ state' = "WR_REQ"
          /\ avs_write' /\ ~avs_read'
      <4>1. /\ Taken(FALSE)' /\ gap' = 3 /\ burstcount' = burstcount
            /\ state' = IF FALSE THEN "RD_REQ" ELSE "WR_REQ"
            /\ avs_write' <=> ~FALSE
            /\ avs_read' <=> FALSE
        BY <1>0, <1>2, <2>6, Arrives, Zenon
      <4> QED BY <1>2, <4>1
    <3>2. Put' = 0 /\ Len(queue') = 0
      BY <2>2, <3>1, NoneLeft DEF Put
    <3>3. Landing(Addr, Addr + Put, Len(queue))'
      BY <2>2, <3>2, PlaceAssumption DEF Landing, Lands
    <3>4. avm_burstcount' \in Nat \ {0}
      BY <2>3, PlaceIs
    <3>5. beat' = burstcount' - 1 /\ burstcount' \in 1 .. avm_burstcount' /\ Len(queue') <= Put'
      BY <2>2, <3>1, <3>2, <3>4
    <3>6. avs_write' <=> state' = "WR_REQ"
      BY <3>1
    <3> QED BY <2>2, <2>3, <2>4, <3>1, <3>3, <3>5, <3>6, Zenon DEF Writing, InBurst
  <2> QED BY <1>2, <2>5, <2>6 DEF Coming
<1> QED BY <1>1, <1>2 DEF Writing

(***************************************************************************)
(* The read of the first test is asked for while its write may still be in *)
(* the bridge, but is no longer put to it.                                 *)
(***************************************************************************)
LEMMA ReadFollows ==
  ASSUME NEW serves, Edge([op |-> "write", reg |-> "MEM_RDWR", val |-> DoRead], serves), Types,
         Spaced, gap = MmioGap, gap' = 1, Regs(4), Writing(4)
  PROVE  Regs(5)' /\ ReadingBack(5)'
<1> DEFINE rx == [op |-> "write", reg |-> "MEM_RDWR", val |-> DoRead]
<1>0. 4 \in 1 .. Over /\ avm_burstcount = 1
  BY ProgramIs DEF Regs
<1>1. Taken(FALSE) /\ gap >= 4
  <2>1. gap >= 4
    BY DEF Spaced
  <2>2. ~Coming(FALSE)
    <3>1. gap \notin {1, 2}
      BY <2>1
    <3> QED BY <3>1 DEF Coming
  <2>3. Taken(FALSE)
    BY <2>2, Zenon DEF Writing
  <2> QED BY <2>1, <2>3
<1>2. WritingOn(4) /\ state # "WR_REQ"
  <2>1. WritingOn(4)
    BY <1>1, WritingIsOn
  <2>2. ~Coming(FALSE)
    BY <1>1 DEF Coming
  <2>3. ~(state = "WR_REQ" /\ avm_burstcount = 1)
    <3>1. gap # 3
      BY <1>1
    <3>2. state = "WR_REQ" /\ avm_burstcount = 1 => gap = 3
      BY <2>2, Zenon DEF Writing
    <3> QED BY <3>1, <3>2
  <2> QED BY <1>0, <2>1, <2>3
<1>3. Aside(rx) /\ writes(rx, "MEM_RDWR") /\ written(rx, "MEM_RDWR", mem_RDWR) = DoRead
  BY RequestAside DEF writes, written
<1>4. /\ ~valid' /\ ~avs_read' /\ beat' = burstcount' - 1
      /\ avs_write' <=> state' = "WR_REQ"
      /\ state' # "WR_REQ" => burstcount' = 1
      /\ Len(queue') <= Put' /\ Landing(Addr, Addr + Put, Len(queue))'
      /\ state' = "IDLE"
  <2> HIDE DEF rx
  <2>1. Edge(rx, serves)
    BY DEF rx
  <2>2. state \in {"IDLE", "WR_RSP"}
    BY <1>2 DEF WritingOn
  <2> QED BY <1>0, <1>2, <1>3, <2>1, <2>2, WritesGoOn
<1>5. /\ Regs(4)' /\ avm_burstcount' = 1 /\ mem_RDWR' = NextRDWR(rx)
      /\ avm_read' = (mem_RDWR.en /\ mem_RDWR.rd)
      /\ avm_write' = (mem_RDWR.en /\ ~mem_RDWR.rd)
  <2> HIDE DEF rx
  <2>1. Edge(rx, serves)
    BY DEF rx
  <2>2. state \in {"IDLE", "WR_RSP"}
    BY <1>2 DEF WritingOn
  <2> QED BY <1>0, <1>3, <2>1, <2>2, RegsStay
<1>6. mem_RDWR' = DoRead /\ ~avm_read' /\ ~avm_write'
  <2>1. ~avm_read /\ ~avm_write /\ ~mem_RDWR.en
    BY <1>1 DEF Taken
  <2> QED BY <1>3, <1>5, <2>1 DEF NextRDWR
<1>7. asked'
  BY <1>3 DEF Edge
<1>8. Coming(TRUE)'
  BY <1>4, <1>6, <1>7 DEF Coming, DoRead
<1>9. Put' = 1 /\ beat' = 0 /\ burstcount' = 1 /\ ~avs_write'
  BY <1>4, <1>5 DEF Put
<1>10. Len(queue') <= 1 /\ Landing(Addr, Addr + 1, Len(queue))'
  BY <1>4, <1>9 DEF Landing
<1>11. Regs(5)'
  BY <1>5 DEF Regs
<1> QED BY <1>4, <1>8, <1>9, <1>10, <1>11 DEF ReadingBack, AskingRead

-----------------------------------------------------------------------------
(***************************************************************************)
(* A read is asked for, and put to the bridge in one clock.                *)
(***************************************************************************)
LEMMA ReadsPut ==
  ASSUME ~avs_write, avs_read, avm_burstcount \in Nat
  PROVE  /\ IsSeq(Command) /\ Len(Command) = avm_burstcount
         /\ \A i \in 1 .. avm_burstcount :
              Command[i] = [write |-> FALSE, at |-> avs_address + i - 1]
<1> DEFINE C == [i \in 1 .. avm_burstcount |-> [write |-> FALSE, at |-> avs_address + i - 1]]
           S == {C[i] : i \in 1 .. avm_burstcount}
<1>1. Command = C
  BY Zenon DEF Command
<1>2. C \in [1 .. avm_burstcount -> S]
  OBVIOUS
<1>3. \A i \in 1 .. avm_burstcount : C[i] = [write |-> FALSE, at |-> avs_address + i - 1]
  OBVIOUS
<1> HIDE DEF C, S
<1>4. C \in Seq(S)
  BY <1>2, SeqDef
<1>5. Len(C) = avm_burstcount
  BY <1>2, <1>4, LenProperties
<1> QED BY <1>1, <1>3, <1>4, <1>5 DEF IsSeq

LEMMA AskingTicks ==
  ASSUME NEW serves, Edge(NoReq, serves), Spaced, GapOn, NEW k \in 1 .. Over, k # 9, Regs(k),
         AskingRead, beat = 0, ~avs_write
  PROVE  /\ Regs(k)' /\ burstcount' = burstcount /\ beat' = 0 /\ ~avs_write'
         /\ avm_writedata' = avm_writedata
         /\ \/ ~avs_read /\ AskingRead'
            \/ avs_read /\ Calm' /\ state' = "RD_RSP" /\ gap' >= 4
<1>0. beat' = 0 /\ TRUE \in BOOLEAN
  BY DEF Edge
<1>1. CASE Coming(TRUE)
  <2>1. state = "IDLE" /\ ~avs_read /\ gap \in {1, 2}
    BY <1>1 DEF Coming
  <2>2. Regs(k)' /\ avm_writedata' = avm_writedata
    BY <2>1, RegsStay, Mutes, MutesAside
  <2>3. CASE gap = 1
    <3>1. Coming(TRUE)' /\ burstcount' = burstcount
      BY <1>0, <1>1, <2>3, Comes, Zenon
    <3>2. ~avs_write'
      BY <3>1 DEF Coming
    <3> QED BY <1>0, <2>1, <2>2, <3>1, <3>2, Zenon DEF AskingRead
  <2>4. CASE gap = 2
    <3>1. /\ Taken(TRUE)' /\ gap' = 3 /\ burstcount' = burstcount
          /\ state' = IF TRUE THEN "RD_REQ" ELSE "WR_REQ"
          /\ avs_write' <=> ~TRUE
          /\ avs_read' <=> TRUE
      BY <1>0, <1>1, <2>4, Arrives, Zenon
    <3>2. state' = "RD_REQ" /\ avs_read' /\ ~avs_write'
      BY <3>1
    <3> QED BY <1>0, <2>1, <2>2, <3>1, <3>2, Zenon DEF AskingRead
  <2> QED BY <2>1, <2>3, <2>4
<1>2. CASE Taken(TRUE) /\ gap = 3 /\ state = "RD_REQ" /\ avs_read
  <2>1. ~asked /\ ~mem_RDWR.en /\ FsmRdReq
    BY <1>2, FsmMoves DEF Taken
  <2>2. state' = "RD_RSP" /\ ~avs_read' /\ burstcount' = burstcount /\ ~avs_write'
    BY <2>1 DEF FsmRdReq
  <2>3. Regs(k)' /\ avm_writedata' = avm_writedata
    BY <1>2, RegsStay, Mutes, MutesAside
  <2>4. ~asked' /\ ~mem_RDWR'.en /\ ~avm_write' /\ ~avm_read'
    BY <1>2, <2>1, StaysTaken, Mutes
  <2>5. gap' >= 4
    BY <1>2, GapAssumption DEF Spaced, GapOn
  <2> QED BY <1>0, <1>2, <2>2, <2>3, <2>4, <2>5 DEF Calm, Unasked
<1> QED BY <1>1, <1>2 DEF AskingRead

(***************************************************************************)
(* The read of the first test, behind its write.                           *)
(***************************************************************************)
LEMMA BackAsks ==
  ASSUME NEW serves, Edge(NoReq, serves), Types, Spaced, GapOn, Regs(5),
         beat = 0, burstcount = 1, ~avs_write, ~valid, Len(queue) <= 1,
         Landing(Addr, Addr + 1, Len(queue)), AskingRead
  PROVE  Regs(5)' /\ ReadingBack(5)'
<1>0. /\ 5 \in 1 .. Over /\ avm_burstcount = 1 /\ avm_address = Addr /\ ~mem_testmode
      /\ Addr \in Nat /\ Addr + 1 <= SweepWords /\ SweepWords \in Nat
  BY ProgramIs, PlaceIs, SweepAssumption DEF Regs
<1>1. /\ Regs(5)' /\ burstcount' = 1 /\ beat' = 0 /\ ~avs_write' /\ avm_writedata' = avm_writedata
      /\ \/ ~avs_read /\ AskingRead'
         \/ avs_read /\ Calm' /\ state' = "RD_RSP" /\ gap' >= 4
  BY <1>0, AskingTicks
<1> DEFINE L == Left(queue, serves)
           d == avm_writedata
           u == Addr + 1
<1>2. /\ IsSeq(L) /\ Len(L) \in Nat /\ Len(L) <= Len(queue) /\ Len(queue) \in Nat
      /\ Lands(L, mem', d, Addr, u, Len(L)) /\ ~valid'
  <2>1. u \in Nat /\ Addr <= u - Len(queue) /\ u <= SweepWords /\ Len(queue) \in Nat
    <3>1. Len(queue) \in Nat
      BY QueueIs
    <3> QED BY <1>0, <3>1
  <2>2. Lands(queue, mem, d, Addr, u, Len(queue))
    BY DEF Landing
  <2> HIDE DEF u, d, L
  <2> QED BY <1>0, <2>1, <2>2, AllServed DEF L
<1>3. CASE ~avs_read /\ AskingRead'
  <2>1. queue' = L
    <3>1. queue' = L \o <<>>
      BY <1>3, NoCommand DEF Edge
    <3> QED BY <1>2, <3>1, JoinsNone
  <2>2. Len(queue') <= 1
    BY <1>2, <2>1
  <2>3. Landing(Addr, Addr + 1, Len(queue))'
    BY <1>1, <1>2, <2>1 DEF Landing
  <2> QED BY <1>1, <1>2, <1>3, <2>2, <2>3 DEF ReadingBack
<1>4. CASE avs_read /\ Calm' /\ state' = "RD_RSP" /\ gap' >= 4
  <2>1. IsSeq(Command) /\ Len(Command) = 1 /\ Command[1] = [write |-> FALSE, at |-> Addr]
    <3>1. /\ IsSeq(Command) /\ Len(Command) = 1
          /\ \A i \in 1 .. 1 : Command[i] = [write |-> FALSE, at |-> avs_address + i - 1]
      BY <1>0, <1>4, ReadsPut
    <3>2. avs_address + 1 - 1 = Addr /\ 1 \in 1 .. 1
      BY <1>0 DEF avs_address
    <3> QED BY <3>1, <3>2
  <2>2. queue' = L \o Command
    BY DEF Edge
  <2> DEFINE n == Len(L)
  <2> HIDE DEF L, d, u
  <2>3. n \in Nat /\ n <= 1
    BY <1>2
  <2>4. /\ Len(queue') = n + Len(Command)
        /\ \A i \in 1 .. n + Len(Command) :
             queue'[i] = IF i <= n THEN L[i] ELSE Command[i - n]
    BY <1>2, <2>1, <2>2, Joined
  <2>5. Lands(queue', mem', d, Addr, u, n)
    <3>1. n \in 0 .. Len(L) /\ u \in Nat
      BY <1>0, <2>3 DEF u
    <3> QED BY <1>0, <1>2, <2>1, <2>2, <3>1, LandsBehind
  <2> HIDE DEF n
  <2>6. Len(queue') = n + 1 /\ queue'[n + 1] = [write |-> FALSE, at |-> Addr]
    <3>1. n + 1 \in 1 .. n + 1 /\ ~(n + 1 <= n) /\ n + 1 - n = 1
      BY <2>3
    <3>2. PICK m : m = Len(Command)
      OBVIOUS
    <3>3. m = 1 /\ Len(queue') = n + m
          /\ \A i \in 1 .. n + m : queue'[i] = IF i <= n THEN L[i] ELSE Command[i - n]
      BY <2>1, <2>4, <3>2
    <3>4. queue'[n + 1] = Command[1]
      <4>1. PICK x : x = n + 1
        OBVIOUS
      <4>2. x \in 1 .. n + m /\ ~(x <= n) /\ x - n = 1
        BY <2>3, <3>3, <4>1
      <4>3. queue'[x] = Command[x - n]
        BY <3>3, <4>2
      <4> QED BY <4>1, <4>2, <4>3
    <3> QED BY <2>1, <3>3, <3>4
  <2>7. Len(queue') \in {1, 2} /\ Len(queue') - 1 = n
    BY <2>3, <2>6
  <2>8. Landing(Addr, Addr + 1, Len(queue) - 1)'
    BY <1>1, <2>5, <2>7 DEF Landing, d, u
  <2>9. ~queue'[Len(queue')].write /\ queue'[Len(queue')].at = Addr
    BY <2>6
  <2>10. AnsweringBack'
    BY <1>2, <1>4, <2>7, <2>8, <2>9 DEF AnsweringBack
  <2> QED BY <1>1, <1>4, <2>10 DEF ReadingBack
<1> QED BY <1>1, <1>3, <1>4

(* The clocks from the read on.                                            *)
LEMMA RestingStays ==
  ASSUME NEW rx, NEW serves, Edge(rx, serves), Mute(rx), Quiet, ~mem_testmode
  PROVE  /\ Quiet' /\ mem' = mem /\ burstcount' = burstcount /\ avm_readdata' = avm_readdata
         /\ beat' = 0 /\ ~avs_write'
<1>1. /\ mem_RDWR' = mem_RDWR /\ ~asked'
      /\ queue' = <<>> /\ mem' = mem /\ ~valid' /\ beat' = 0 /\ burstcount' = burstcount
      /\ state' = "IDLE" /\ ~avs_write' /\ ~avs_read' /\ ~avm_write' /\ ~avm_read'
      /\ avm_readdata' = avm_readdata
  BY RestClocks DEF Mute
<1> QED BY <1>1 DEF Quiet, Calm, Unasked

LEMMA AnswerClocks ==
  ASSUME NEW rx, NEW serves, Edge(rx, serves), Mute(rx), NEW k \in 1 .. Over, k # 9, Regs(k),
         Calm, state = "RD_RSP", beat = 0
  PROVE  /\ Regs(k)' /\ avm_writedata' = avm_writedata /\ avm_burstcount' = avm_burstcount
         /\ Calm' /\ beat' = 0 /\ FsmRdRsp(valid) /\ Command = <<>> /\ IsSeq(Command)
         /\ avm_readdata' = (IF valid THEN rdata ELSE avm_readdata)
<1>1. Command = <<>> /\ IsSeq(Command) /\ beat' = 0
  BY NoCommand DEF Calm, Edge
<1>2. FsmRdRsp(valid) /\ avm_readdata' = (IF valid THEN rdata ELSE avm_readdata)
  BY FsmMoves
<1>3. /\ Regs(k)' /\ avm_writedata' = avm_writedata /\ avm_burstcount' = avm_burstcount
  BY RegsStay, MutesAside
<1>4. ~asked' /\ ~mem_RDWR'.en /\ ~avm_write' /\ ~avm_read'
  BY StaysTaken DEF Calm, Unasked
<1>5. ~avs_write' /\ ~avs_read'
  BY <1>2 DEF FsmRdRsp, Calm
<1> QED BY <1>1, <1>2, <1>3, <1>4, <1>5 DEF Calm, Unasked

LEMMA BackAnswers ==
  ASSUME NEW rx, NEW serves, Edge(rx, serves), Mute(rx), Types, NEW k \in {5, 6}, Regs(k),
         AnsweringBack, beat = 0, burstcount = 1, ~avs_write
  PROVE  Regs(k)' /\ AnsweringBack' /\ beat' = 0 /\ burstcount' = 1 /\ ~avs_write'
<1>0. /\ k \in 1 .. Over /\ k # 9 /\ avm_burstcount = 1 /\ avm_address = Addr /\ ~mem_testmode
      /\ avm_writedata = Data1 /\ Addr \in Nat /\ Addr + 1 <= SweepWords /\ SweepWords \in Nat
  <2>1. k \in 1 .. Over /\ k # 9
    BY ProgramIs
  <2> QED BY <2>1, PlaceIs, SweepAssumption DEF Regs
<1>1. CASE Calm /\ state = "RD_RSP"
  <2>1. /\ Regs(k)' /\ avm_writedata' = Data1 /\ Calm' /\ beat' = 0 /\ FsmRdRsp(valid)
        /\ Command = <<>> /\ IsSeq(Command) /\ ~avs_write'
        /\ avm_readdata' = (IF valid THEN rdata ELSE avm_readdata)
    <3>1. Calm' => ~avs_write'
      BY DEF Calm
    <3> QED BY <1>0, <1>1, <3>1, AnswerClocks
  <2>2. CASE valid /\ queue = <<>> /\ rdata = Data1 /\ mem[Addr] = Data1
    <3>1. queue' = <<>> /\ mem' = mem /\ ~valid'
      BY <2>1, <2>2, EmptyQueue
    <3>2. state' = "IDLE" /\ burstcount' = 1
      BY <1>0, <2>1, <2>2 DEF FsmRdRsp
    <3>3. avm_readdata' = Data1
      BY <2>1, <2>2
    <3>4. Quiet' /\ mem'[Addr] = Data1
      BY <2>1, <2>2, <3>1, <3>2 DEF Quiet
    <3> QED BY <2>1, <3>2, <3>3, <3>4 DEF AnsweringBack
  <2>3. CASE /\ ~valid /\ Len(queue) \in {1, 2} /\ Landing(Addr, Addr + 1, Len(queue) - 1)
             /\ ~queue[Len(queue)].write /\ queue[Len(queue)].at = Addr
    <3>1. state' = "RD_RSP" /\ burstcount' = 1
      BY <2>1, <2>3 DEF FsmRdRsp
    <3> DEFINE L == Left(queue, serves)
               u == Addr + 1
    <3> HIDE DEF L, u
    <3>2. PICK n, w : n = Len(queue) /\ w = n - 1
      OBVIOUS
    <3>3. n \in {1, 2} /\ w \in 0 .. 1 /\ n = w + 1 /\ u \in Nat /\ u <= SweepWords /\ u = Addr + 1
      BY <1>0, <2>3, <3>2 DEF u
    <3>4. /\ IsSeq(L) /\ Len(L) = n - (IF serves THEN 1 ELSE 0)
          /\ \A i \in 1 .. Len(L) : L[i] = queue[i + (IF serves THEN 1 ELSE 0)]
          /\ serves => Head(queue) = queue[1]
      BY <3>2, QueueIs DEF L
    <3>5. Serves(queue, mem, Data1, Addr, u, w, serves)
      <4>1. IsSeq(queue) /\ DOMAIN mem = 0 .. LastWord /\ serves \in BOOLEAN
            /\ (serves => queue # <<>>)
        BY DEF Types, Edge
      <4>2. w \in 0 .. Len(queue) /\ Addr <= u - w
        BY <1>0, <3>2, <3>3
      <4>3. Lands(queue, mem, Data1, Addr, u, w)
        BY <1>0, <2>3, <3>2 DEF Landing, u
      <4>4. w = 0 /\ serves => ~queue[1].write
        BY <2>3, <3>2, <3>3
      <4> QED BY <1>0, <3>3, <4>1, <4>2, <4>3, <4>4 DEF Serves
    <3>6. /\ Lands(L, mem', Data1, Addr, u, Behind(w, serves))
          /\ valid' <=> serves /\ ~(w > 0)
      BY <3>5, Served DEF L
    <3>7. queue' = L
      <4>1. queue' = L \o <<>>
        BY <2>1 DEF Edge, L
      <4> QED BY <3>4, <4>1, JoinsNone
    <3>8. CASE ~serves
      <4>1. L = queue /\ Behind(w, serves) = w /\ ~valid'
        BY <3>6, <3>8 DEF L, Left, Behind
      <4>2. Landing(Addr, Addr + 1, Len(queue) - 1)'
        BY <2>1, <3>2, <3>6, <3>7, <4>1 DEF Landing, u
      <4> QED BY <2>1, <2>3, <3>1, <3>7, <4>1, <4>2 DEF AnsweringBack
    <3>9. CASE serves /\ w = 1
      <4>1. Len(L) = 1 /\ L[1] = queue[2] /\ Behind(w, serves) = 0 /\ ~valid' /\ n = 2
        <5>1. Len(L) = 1 /\ \A i \in 1 .. Len(L) : L[i] = queue[i + 1]
          BY <3>3, <3>4, <3>9
        <5>2. L[1] = queue[1 + 1]
          BY <5>1
        <5> QED BY <3>3, <3>6, <3>9, <5>1, <5>2 DEF Behind
      <4>2. Landing(Addr, Addr + 1, Len(queue) - 1)'
        BY <2>1, <3>6, <3>7, <4>1 DEF Landing, u
      <4>3. ~queue'[Len(queue')].write /\ queue'[Len(queue')].at = Addr
        BY <2>3, <3>2, <3>7, <4>1
      <4> QED BY <2>1, <3>1, <3>7, <4>1, <4>2, <4>3 DEF AnsweringBack
    <3>10. CASE serves /\ w = 0
      <4>1. Len(L) = 0 /\ valid' /\ n = 1 /\ Behind(w, serves) = 0
        BY <3>3, <3>4, <3>6, <3>10 DEF Behind
      <4>2. queue' = <<>>
        BY <3>4, <3>7, <4>1, NoneLeft
      <4>3. mem[Addr] = Data1
        <5>1. Lands(queue, mem, Data1, Addr, u, 0)
          BY <3>5, <3>10 DEF Serves
        <5>2. Addr \in Addr .. u - 0 - 1
          BY <1>0, <3>3
        <5> QED BY <5>1, <5>2 DEF Lands
      <4>4. mem'[Addr] = Data1
        <5>1. Lands(L, mem', Data1, Addr, u, 0)
          BY <3>6, <4>1
        <5>2. Addr \in Addr .. u - 0 - 1
          BY <1>0, <3>3
        <5> QED BY <5>1, <5>2 DEF Lands
      <4>5. rdata' = Data1
        <5>1. Head(queue) = queue[1] /\ ~queue[1].write /\ queue[1].at = Addr
          BY <2>3, <3>2, <3>4, <3>10, <4>1
        <5> QED BY <3>10, <4>3, <5>1 DEF Edge
      <4> QED BY <2>1, <3>1, <4>1, <4>2, <4>4, <4>5 DEF AnsweringBack
    <3> QED BY <3>3, <3>8, <3>9, <3>10 DEF Edge
  <2> QED BY <1>1, <2>2, <2>3 DEF AnsweringBack, Quiet
<1>2. CASE Quiet /\ mem[Addr] = Data1 /\ avm_readdata = Data1
  <2>1. Quiet' /\ mem' = mem /\ burstcount' = 1 /\ avm_readdata' = avm_readdata
        /\ beat' = 0 /\ ~avs_write'
    BY <1>0, <1>2, RestingStays
  <2>2. Regs(k)'
    BY <1>0, <1>2, RegsStay, MutesAside DEF Quiet
  <2> QED BY <1>2, <2>1, <2>2 DEF AnsweringBack
<1> QED BY <1>1, <1>2 DEF AnsweringBack

LEMMA BackTicks ==
  ASSUME NEW serves, Edge(NoReq, serves), Types, Spaced, GapOn,
         NEW k \in {5, 6}, Regs(k), ReadingBack(k)
  PROVE  Regs(k)' /\ ReadingBack(k)'
<1>1. CASE k = 5 /\ ~valid /\ Len(queue) <= 1 /\ Landing(Addr, Addr + 1, Len(queue)) /\ AskingRead
  BY <1>1, BackAsks DEF ReadingBack
<1>2. CASE (k = 6 \/ gap >= 4) /\ AnsweringBack
  <2>1. Regs(k)' /\ AnsweringBack' /\ beat' = 0 /\ burstcount' = 1 /\ ~avs_write'
    BY <1>2, BackAnswers, Mutes DEF ReadingBack
  <2>2. gap >= 4 => gap' >= 4
    BY GapAssumption DEF Spaced, GapOn
  <2> QED BY <1>2, <2>1, <2>2 DEF ReadingBack
<1> QED BY <1>1, <1>2 DEF ReadingBack

(* The status is read: as the gap is over, the request has been taken.     *)
LEMMA NotAsking == ASSUME Spaced, gap = MmioGap PROVE ~AskingRead
<1>1. gap \notin {1, 2} /\ gap # 3
  BY DEF Spaced
<1> QED BY <1>1, Zenon DEF AskingRead, Coming

LEMMA BackRead ==
  ASSUME NEW rx, NEW serves, Edge(rx, serves), Mute(rx), Types, Spaced, gap = MmioGap,
         Regs(5), ReadingBack(5)
  PROVE  Regs(6)' /\ ReadingBack(6)'
<1>1. AnsweringBack /\ beat = 0 /\ burstcount = 1 /\ ~avs_write
  BY NotAsking DEF ReadingBack
<1>2. Regs(5)' /\ AnsweringBack' /\ beat' = 0 /\ burstcount' = 1 /\ ~avs_write'
  BY <1>1, BackAnswers
<1>3. Regs(6)'
  BY <1>2 DEF Regs
<1> QED BY <1>2, <1>3 DEF ReadingBack

(***************************************************************************)
(* The read of the burst: as many answers are still to come as the master  *)
(* still counts.                                                           *)
(***************************************************************************)
LEMMA BurstAsks ==
  ASSUME NEW serves, Edge(NoReq, serves), Types, Spaced, GapOn, Regs(16),
         beat = 0, ~avs_write, Tested, ~valid, queue = <<>>, burstcount = 1, AskingRead
  PROVE  Regs(16)' /\ ReadingBurst(16)'
<1>0. /\ 16 \in 1 .. Over /\ avm_burstcount = Burst /\ avm_address = Addr /\ ~mem_testmode
      /\ Burst \in Nat \ {0} /\ Addr \in Nat
  BY ProgramIs, PlaceIs DEF Regs
<1>1. /\ Regs(16)' /\ burstcount' = 1 /\ beat' = 0 /\ ~avs_write'
      /\ \/ ~avs_read /\ AskingRead'
         \/ avs_read /\ Calm' /\ state' = "RD_RSP" /\ gap' >= 4
  BY <1>0, AskingTicks
<1>2. CASE ~avs_read /\ AskingRead'
  <2>1. queue' = <<>> /\ mem' = mem /\ ~valid'
    BY <1>2, NoCommand, EmptyQueue
  <2>2. Tested'
    BY <2>1 DEF Tested, InBurst
  <2> QED BY <1>1, <1>2, <2>1, <2>2 DEF ReadingBurst
<1>3. CASE avs_read /\ Calm' /\ state' = "RD_RSP" /\ gap' >= 4
  <2>1. /\ IsSeq(Command) /\ Len(Command) = Burst
        /\ \A i \in 1 .. Burst : Command[i] = [write |-> FALSE, at |-> avs_address + i - 1]
    BY <1>0, <1>3, ReadsPut
  <2>2. queue' = Command /\ mem' = mem /\ ~valid'
    BY <2>1, EmptyQueue
  <2>3. Len(queue') = Burst /\ \A i \in 1 .. Len(queue') : ~queue'[i].write
    BY <2>1, <2>2
  <2>4. Len(queue') + (IF valid' THEN 1 ELSE 0) = Burst - burstcount' + 1 /\ burstcount' \in 1 .. Burst
    BY <1>0, <1>1, <2>2, <2>3
  <2>5. Tested'
    BY <2>2 DEF Tested, InBurst
  <2>6. AnsweringBurst'
    BY <1>3, <2>3, <2>4 DEF AnsweringBurst
  <2> QED BY <1>1, <1>3, <2>5, <2>6 DEF ReadingBurst
<1> QED BY <1>1, <1>2, <1>3

LEMMA BurstAnswers ==
  ASSUME NEW rx, NEW serves, Edge(rx, serves), Mute(rx), Types, NEW k \in {16, 17}, Regs(k),
         AnsweringBurst, beat = 0, ~avs_write, Tested
  PROVE  Regs(k)' /\ AnsweringBurst' /\ beat' = 0 /\ ~avs_write' /\ Tested'
<1>0. /\ k \in 1 .. Over /\ k # 9 /\ avm_burstcount = Burst /\ ~mem_testmode
      /\ Burst \in Nat \ {0} /\ Burst < BurstMod /\ BurstMod \in Nat
  <2>1. k \in 1 .. Over /\ k # 9
    BY ProgramIs
  <2> QED BY <2>1, PlaceIs, BurstAssumption DEF Regs
<1>1. CASE /\ Calm /\ state = "RD_RSP" /\ burstcount \in 1 .. Burst
           /\ \A i \in 1 .. Len(queue) : ~queue[i].write
           /\ Len(queue) + (IF valid THEN 1 ELSE 0) = Burst - burstcount + 1
  <2>1. /\ Regs(k)' /\ Calm' /\ beat' = 0 /\ FsmRdRsp(valid)
        /\ Command = <<>> /\ IsSeq(Command) /\ ~avs_write'
    <3>1. Calm' => ~avs_write'
      BY DEF Calm
    <3> QED BY <1>0, <1>1, <3>1, AnswerClocks
  <2> DEFINE L == Left(queue, serves)
  <2> HIDE DEF L
  <2>2. PICK n, c, v, s : /\ n = Len(queue) /\ c = burstcount /\ v = (IF valid THEN 1 ELSE 0)
                          /\ s = (IF serves THEN 1 ELSE 0)
    OBVIOUS
  <2>3. /\ IsSeq(L) /\ Len(L) = n - s /\ n \in Nat /\ Len(L) \in Nat
        /\ \A i \in 1 .. Len(L) : L[i] = queue[i + s]
        /\ serves => n > 0 /\ Head(queue) = queue[1]
    BY <2>2, QueueIs DEF L
  <2>4. queue' = L
    <3>1. queue' = L \o <<>>
      BY <2>1 DEF Edge, L
    <3> QED BY <2>3, <3>1, JoinsNone
  <2>5. serves => ~Head(queue).write
    <3>1. serves => 1 \in 1 .. n
      BY <2>3
    <3> QED BY <1>1, <2>2, <2>3, <3>1
  <2>6. mem' = mem /\ (valid' <=> serves) /\ serves \in BOOLEAN
    BY <2>5 DEF Edge, Stored
  <2>7. \A i \in 1 .. Len(queue') : ~queue'[i].write
    <3> SUFFICES ASSUME NEW i \in 1 .. Len(L) PROVE ~L[i].write
      BY <2>4
    <3>1. i + s \in 1 .. n
      BY <2>2, <2>3
    <3>2. L[i] = queue[i + s]
      BY <2>3
    <3> QED BY <1>1, <2>2, <3>1, <3>2
  <2>8. c \in 1 .. Burst /\ n + v = Burst - c + 1 /\ Len(queue') = n - s /\ v \in {0, 1} /\ s \in {0, 1}
    BY <1>1, <2>2, <2>3, <2>4
  <2>9. (IF valid' THEN 1 ELSE 0) = s
    BY <2>2, <2>6
  <2>10. Tested'
    BY <2>6 DEF Tested, InBurst
  <2>11. CASE valid /\ c = Burst
    <3>1. state' = "IDLE" /\ burstcount' = Burst
      BY <1>0, <2>1, <2>2, <2>11 DEF FsmRdRsp
    <3>2. n = 0
      BY <1>0, <2>2, <2>3, <2>8, <2>11
    <3>3. queue' = <<>> /\ ~valid'
      <4>1. ~serves
        BY <2>3, <3>2
      <4>2. Len(queue') = 0
        <5>1. s = 0
          BY <2>2, <4>1, Zenon
        <5> QED BY <2>8, <3>2, <5>1
      <4> QED BY <2>3, <2>4, <2>6, <4>1, <4>2, NoneLeft
    <3> QED BY <2>1, <2>10, <3>1, <3>3 DEF AnsweringBurst, Quiet
  <2>12. CASE valid /\ c # Burst
    <3>1. c + 1 \in 0 .. BurstMod - 1 /\ BurstMod \in Nat \ {0}
      BY <1>0, <2>8, <2>12
    <3>2. state' = "RD_RSP" /\ burstcount' = c + 1
      <4>1. (c + 1) % BurstMod = c + 1
        BY <3>1, Within
      <4> QED BY <1>0, <2>1, <2>2, <2>12, <4>1 DEF FsmRdRsp, more
    <3>3. n - s + s = Burst - (c + 1) + 1 /\ c + 1 \in 1 .. Burst
      BY <1>0, <2>2, <2>3, <2>8, <2>12
    <3>4. Len(queue') + (IF valid' THEN 1 ELSE 0) = Burst - burstcount' + 1
      BY <2>8, <2>9, <3>2, <3>3
    <3> QED BY <2>1, <2>7, <2>10, <3>2, <3>3, <3>4 DEF AnsweringBurst
  <2>13. CASE ~valid
    <3>1. state' = "RD_RSP" /\ burstcount' = c
      BY <2>1, <2>2, <2>13 DEF FsmRdRsp
    <3>2. n - s + s = Burst - c + 1
      BY <1>0, <2>2, <2>3, <2>8, <2>13
    <3>3. Len(queue') + (IF valid' THEN 1 ELSE 0) = Burst - burstcount' + 1
      BY <2>8, <2>9, <3>1, <3>2
    <3> QED BY <2>1, <2>7, <2>8, <2>10, <3>1, <3>3 DEF AnsweringBurst
  <2> QED BY <2>11, <2>12, <2>13
<1>2. CASE Quiet /\ burstcount = Burst
  <2>1. Quiet' /\ mem' = mem /\ burstcount' = Burst /\ beat' = 0 /\ ~avs_write'
    BY <1>0, <1>2, RestingStays
  <2>2. Regs(k)'
    BY <1>0, <1>2, RegsStay, MutesAside DEF Quiet
  <2>3. Tested'
    BY <2>1 DEF Tested, InBurst
  <2> QED BY <2>1, <2>2, <2>3 DEF AnsweringBurst
<1> QED BY <1>1, <1>2 DEF AnsweringBurst

LEMMA BurstTicks ==
  ASSUME NEW serves, Edge(NoReq, serves), Types, Spaced, GapOn,
         NEW k \in {16, 17}, Regs(k), ReadingBurst(k)
  PROVE  Regs(k)' /\ ReadingBurst(k)'
<1>1. CASE k = 16 /\ ~valid /\ queue = <<>> /\ burstcount = 1 /\ AskingRead
  BY <1>1, BurstAsks DEF ReadingBurst
<1>2. CASE (k = 17 \/ gap >= 4) /\ AnsweringBurst
  <2>1. Regs(k)' /\ AnsweringBurst' /\ beat' = 0 /\ ~avs_write' /\ Tested'
    BY <1>2, BurstAnswers, Mutes DEF ReadingBurst
  <2>2. gap >= 4 => gap' >= 4
    BY GapAssumption DEF Spaced, GapOn
  <2> QED BY <1>2, <2>1, <2>2 DEF ReadingBurst
<1> QED BY <1>1, <1>2 DEF ReadingBurst

LEMMA BurstRead ==
  ASSUME NEW rx, NEW serves, Edge(rx, serves), Mute(rx), Types, Spaced, gap = MmioGap,
         Regs(16), ReadingBurst(16)
  PROVE  Regs(17)' /\ ReadingBurst(17)'
<1>1. AnsweringBurst /\ beat = 0 /\ Tested /\ ~avs_write
  BY NotAsking DEF ReadingBurst
<1>2. Regs(16)' /\ AnsweringBurst' /\ beat' = 0 /\ ~avs_write' /\ Tested'
  BY <1>1, BurstAnswers
<1>3. Regs(17)'
  BY <1>2 DEF Regs
<1> QED BY <1>2, <1>3 DEF ReadingBurst

-----------------------------------------------------------------------------
(***************************************************************************)
(* The sweep: every address is written, in order, and then read, a read at *)
(* a time; the last read is not waited for.                                *)
(***************************************************************************)
LEMMA SweepClocks ==
  ASSUME NEW serves, Edge(NoReq, serves), Regs(9), Unasked, beat = 0
  PROVE  /\ Regs(9)' /\ Unasked' /\ beat' = 0
         /\ mem_testmode' = (~addr_test_done /\ mem_testmode)
         /\ avm_writedata = Data1 /\ avm_writedata' = Data1 /\ avm_burstcount = 1
<1>1. avm_burstcount = 1 /\ avm_writedata = Data1
  BY DEF Regs
<1>2. ClkCsr(NoReq)
  BY FsmMoves
<1>3. /\ mem_testmode' = (~addr_test_done /\ mem_testmode)
      /\ avm_address' = avm_address /\ avm_burstcount' = avm_burstcount
      /\ avm_writedata' = avm_writedata /\ mem_RDWR' = mem_RDWR
      /\ ~avm_read' /\ ~avm_write'
  <2>1. \A q, old : written(NoReq, q, old) = old
    BY NoReqIs
  <2>2. /\ mem_testmode' = (~addr_test_done /\ mem_testmode)
        /\ avm_address' = avm_address /\ avm_burstcount' = avm_burstcount
        /\ avm_writedata' = avm_writedata
    BY <1>2, <2>1 DEF ClkCsr
  <2>3. mem_RDWR' = mem_RDWR
    BY <1>2, <2>1 DEF ClkCsr, NextRDWR, Unasked
  <2>4. ~avm_read' /\ ~avm_write'
    BY <1>2 DEF ClkCsr, Unasked
  <2> QED BY <2>2, <2>3, <2>4
<1>4. Regs(9)'
  BY <1>3 DEF Regs
<1>5. ~asked'
  BY NoReqIs DEF Edge, Unasked
<1>6. beat' = 0
  <2>1. (0 + 1) % 1 = 0
    OBVIOUS
  <2> QED BY <1>1, <2>1 DEF Edge
<1> QED BY <1>1, <1>3, <1>4, <1>5, <1>6 DEF Unasked

LEMMA Bounds == /\ SweepWords \in Nat \ {0} /\ LastWord \in Nat /\ LastWord = SweepWords - 1
                /\ LastWord > 0
BY SweepAssumption DEF LastWord

LEMMA SweepBegins ==
  ASSUME NEW serves, Edge(NoReq, serves), Regs(9), Unasked, beat = 0, burstcount = 1, SweepAhead
  PROVE  SweepWrites' /\ address' \in 0 .. LastWord /\ burstcount' = 1
<1>1. mem_testmode' = (~addr_test_done /\ mem_testmode) /\ FsmIdle
  BY SweepClocks, FsmMoves DEF SweepAhead
<1>2. /\ state' = "TEST_WRITE" /\ avs_write' /\ ~avs_read' /\ address' = 0 /\ burstcount' = 1
      /\ ~addr_test_done'
  BY <1>1 DEF FsmIdle, SweepAhead, Unasked
<1>3. queue' = <<>> /\ ~valid'
  BY NoCommand, EmptyQueue DEF SweepAhead
<1>4. Len(queue') = 0
  BY <1>3, NoneLeft
<1>5. Landing(0, address, Len(queue))'
  BY <1>2, <1>4 DEF Landing, Lands
<1>6. Len(queue') <= address'
  BY <1>2, <1>4
<1>7. mem_testmode' /\ address' \in 0 .. LastWord
  <2>1. mem_testmode'
    BY <1>1, Zenon DEF SweepAhead
  <2> QED BY <1>2, <2>1, Bounds
<1> QED BY <1>2, <1>3, <1>5, <1>6, <1>7, Zenon DEF SweepWrites

LEMMA SweepPuts ==
  ASSUME NEW serves, Edge(NoReq, serves), Types, Regs(9), Unasked, beat = 0, burstcount = 1,
         address \in 0 .. LastWord, SweepWrites
  PROVE  (SweepWrites \/ SweepReads)' /\ address' \in 0 .. LastWord /\ burstcount' = 1
<1>0. avm_writedata = Data1 /\ avm_writedata' = Data1
      /\ mem_testmode' = (~addr_test_done /\ mem_testmode)
  BY SweepClocks
<1> DEFINE L == Left(queue, serves)
<1> HIDE DEF L
<1>1. PICK n, x : n = Len(queue) /\ x = address
  OBVIOUS
<1>2. n \in Nat /\ x \in Nat /\ x <= LastWord /\ n <= x
  BY <1>1, QueueIs, Bounds DEF SweepWrites
<1>3. /\ IsSeq(L) /\ Len(L) \in Nat /\ Len(L) <= n
      /\ Lands(L, mem', Data1, 0, x, Len(L)) /\ ~valid'
  <2>1. 0 \in Nat /\ 0 <= x - Len(queue) /\ x <= SweepWords
    BY <1>1, <1>2, Bounds
  <2>2. Lands(queue, mem, Data1, 0, x, Len(queue))
    BY <1>0, <1>1 DEF SweepWrites, Landing
  <2> QED BY <1>1, <1>2, <2>1, <2>2, AllServed DEF L
<1>4. Command = << [write |-> TRUE, at |-> x, val |-> Data1] >>
  <2>1. avs_address + beat = x
    <3>1. x \in 0 .. SweepWords - 1
      BY <1>2, Bounds
    <3>2. x % SweepWords = x
      BY <3>1, Bounds, Within
    <3> QED BY <1>1, <1>2, <3>2 DEF avs_address, SweepWrites
  <2>2. Command = << [write |-> TRUE, at |-> avs_address + beat, val |-> avm_writedata] >>
    BY Zenon DEF Command, SweepWrites
  <2> QED BY <1>0, <2>1, <2>2, Zenon
<1>5. queue' = L \o << [write |-> TRUE, at |-> x, val |-> Data1] >>
  BY <1>4 DEF Edge, L
<1>6. Lands(queue', mem', Data1, 0, x + 1, Len(L) + 1)
  <2>1. 0 \in Nat
    OBVIOUS
  <2> QED BY <1>2, <1>3, <1>5, <2>1, LandsNext
<1>7. Len(queue') = Len(L) + 1
  <2>1. IsSeq(<< [write |-> TRUE, at |-> x, val |-> Data1] >>)
        /\ Len(<< [write |-> TRUE, at |-> x, val |-> Data1] >>) = 1
    BY Tuples, Zenon
  <2> QED BY <1>3, <1>5, <2>1, Joined
<1>8. PICK m : m = Len(queue')
  OBVIOUS
<1>9. m \in Nat /\ m <= x + 1 /\ Lands(queue', mem', Data1, 0, x + 1, m)
  <2>1. Lands(queue', mem', Data1, 0, x + 1, m)
    BY <1>6, <1>7, <1>8
  <2> QED BY <1>2, <1>3, <1>7, <1>8, <2>1
<1>10. FsmTestWrite /\ ~avs_waitrequest_r
  BY FsmMoves DEF SweepWrites, Types
<1>11. CASE x = LastWord
  <2>1. /\ state' = "TEST_READ" /\ ~avs_write' /\ avs_read' /\ address' = 0 /\ burstcount' = 1
        /\ addr_test_done' = addr_test_done
    BY <1>1, <1>10, <1>11 DEF FsmTestWrite
  <2>2. x + 1 = SweepWords /\ m <= SweepWords
    BY <1>2, <1>9, <1>11, Bounds
  <2>3. Covered(Len(queue))' /\ Len(queue') <= SweepWords
    BY <1>0, <1>8, <1>9, <2>2 DEF Covered, Landing
  <2>4. ~(address' > 0) /\ mem_testmode' /\ ~addr_test_done'
    <3>1. mem_testmode' /\ ~addr_test_done'
      BY <1>0, <2>1, Zenon DEF SweepWrites
    <3> QED BY <2>1, <3>1
  <2>5. SweepReads'
    BY <1>3, <2>1, <2>3, <2>4, Zenon DEF SweepReads
  <2> QED BY <2>1, <2>5, Bounds
<1>12. CASE x # LastWord
  <2>1. /\ state' = "TEST_WRITE" /\ avs_write' /\ ~avs_read' /\ address' = x + 1 /\ burstcount' = 1
        /\ addr_test_done' = addr_test_done
    BY <1>1, <1>10, <1>12 DEF FsmTestWrite, SweepWrites
  <2>2. x + 1 \in 0 .. LastWord
    BY <1>2, <1>12, Bounds
  <2>3. Landing(0, address, Len(queue))' /\ Len(queue') <= address'
    BY <1>0, <1>8, <1>9, <2>1 DEF Landing
  <2>4. SweepWrites'
    BY <1>0, <1>3, <2>1, <2>3 DEF SweepWrites
  <2> QED BY <2>1, <2>2, <2>4
<1> QED BY <1>11, <1>12

(* A read is put to the bridge, behind the writes that are still in it.    *)
LEMMA SweepAsks ==
  ASSUME NEW serves, Edge(NoReq, serves), Types, Regs(9), Unasked, beat = 0, burstcount = 1,
         address \in 0 .. LastWord, state = "TEST_READ", mem_testmode, ~addr_test_done, ~avs_write,
         avs_read, ~valid, Len(queue) <= SweepWords, Covered(Len(queue)),
         address > 0 => queue = <<>>
  PROVE  (SweepReads \/ SweepDone)' /\ address' \in 0 .. LastWord /\ burstcount' = 1
<1>0. avm_writedata = Data1 /\ avm_writedata' = Data1 /\ avm_burstcount = 1
      /\ mem_testmode'
  <2>1. mem_testmode' = (~addr_test_done /\ mem_testmode)
    BY SweepClocks
  <2>2. mem_testmode'
    BY <2>1, Zenon
  <2> QED BY <2>2, SweepClocks
<1> DEFINE L == Left(queue, serves)
<1> HIDE DEF L
<1>1. PICK n : n = Len(queue)
  OBVIOUS
<1>2. n \in Nat /\ n <= SweepWords
  BY <1>1, QueueIs
<1>3. /\ IsSeq(L) /\ Len(L) \in Nat /\ Len(L) <= n
      /\ Lands(L, mem', Data1, 0, SweepWords, Len(L)) /\ ~valid'
  <2>1. 0 \in Nat /\ SweepWords \in Nat /\ 0 <= SweepWords - Len(queue) /\ SweepWords <= SweepWords
    BY <1>1, <1>2, Bounds
  <2>2. Lands(queue, mem, Data1, 0, SweepWords, Len(queue))
    BY <1>0 DEF Covered, Landing
  <2> QED BY <1>1, <2>1, <2>2, AllServed DEF L
<1>4. /\ IsSeq(Command) /\ Len(Command) = 1 /\ ~Command[1].write
  <2>1. /\ IsSeq(Command) /\ Len(Command) = 1
        /\ \A i \in 1 .. 1 : Command[i] = [write |-> FALSE, at |-> avs_address + i - 1]
    BY <1>0, ReadsPut
  <2>2. 1 \in 1 .. 1
    OBVIOUS
  <2>3. Command[1] = [write |-> FALSE, at |-> avs_address + 1 - 1]
    BY <2>1, <2>2
  <2> QED BY <2>1, <2>3
<1>5. queue' = L \o Command
  BY DEF Edge, L
<1>6. PICK m : m = Len(L)
  OBVIOUS
<1>7. m \in Nat /\ m <= SweepWords
  BY <1>2, <1>3, <1>6, Bounds
<1>8. Len(queue') = m + 1 /\ ~queue'[m + 1].write
  <2>1. PICK o : o = Len(Command)
    OBVIOUS
  <2>2. o = 1 /\ Len(queue') = m + o
        /\ \A i \in 1 .. m + o : queue'[i] = IF i <= m THEN L[i] ELSE Command[i - m]
    BY <1>3, <1>4, <1>5, <1>6, <2>1, Joined
  <2>3. PICK x : x = m + 1
    OBVIOUS
  <2>4. x \in 1 .. m + o /\ ~(x <= m) /\ x - m = 1
    BY <1>7, <2>2, <2>3
  <2>5. queue'[x] = Command[x - m]
    BY <2>2, <2>4
  <2> QED BY <1>4, <2>2, <2>3, <2>4, <2>5
<1>9. Lands(queue', mem', Data1, 0, SweepWords, m)
  <2>1. 0 \in Nat /\ SweepWords \in Nat /\ m \in 0 .. Len(L)
    BY <1>6, <1>7, Bounds
  <2>2. Lands(L, mem', Data1, 0, SweepWords, m)
    BY <1>3, <1>6
  <2> QED BY <1>3, <1>4, <1>5, <2>1, <2>2, LandsBehind
<1>10. FsmTestRead(valid) /\ ~avs_waitrequest_r
  BY FsmMoves DEF Types
<1>11. CASE address = LastWord
  <2>1. /\ state' = "IDLE" /\ ~avs_read' /\ addr_test_done' /\ address' = LastWord
        /\ burstcount' = 1 /\ ~avs_write'
    BY <1>10, <1>11 DEF FsmTestRead
  <2>2. n = 0
    <3>1. queue = <<>>
      BY <1>11, Bounds
    <3> QED BY <1>1, <3>1, NoneLeft
  <2>3. m = 0
    BY <1>2, <1>3, <1>6, <1>7, <2>2
  <2>4. Covered(0)'
    BY <1>0, <1>9, <2>3 DEF Covered, Landing, Lands
  <2>5. Len(queue') = 1 /\ ~queue'[1].write
    BY <1>8, <2>3
  <2>6. queue' # <<>>
    BY <2>5, NoneLeft
  <2>7. SweepDone'
    BY <1>3, <2>1, <2>4, <2>5, <2>6, Zenon DEF SweepDone
  <2> QED BY <2>1, <2>7, Bounds
<1>12. CASE address # LastWord
  <2>1. /\ state' = "TEST_READ" /\ ~avs_read' /\ addr_test_done' = addr_test_done
        /\ address' = address /\ burstcount' = 1 /\ ~avs_write'
    BY <1>10, <1>12 DEF FsmTestRead
  <2>2. address' < LastWord
    BY <1>12, <2>1, Bounds
  <2>3. Covered(Len(queue) - 1)'
    <3>1. Len(queue') - 1 = m
      BY <1>7, <1>8
    <3> QED BY <1>0, <1>9, <3>1 DEF Covered, Landing
  <2>4. Len(queue') \in 1 .. SweepWords + 1 /\ ~queue'[Len(queue')].write
    BY <1>7, <1>8, Bounds
  <2>5. SweepReads'
    BY <1>0, <1>3, <2>1, <2>2, <2>3, <2>4, Zenon DEF SweepReads
  <2> QED BY <2>1, <2>5
<1> QED BY <1>11, <1>12

(* The read is in the bridge.                                              *)
LEMMA SweepWaits ==
  ASSUME NEW serves, Edge(NoReq, serves), Types, Regs(9), Unasked, beat = 0, burstcount = 1,
         address \in 0 .. LastWord, state = "TEST_READ", mem_testmode, ~addr_test_done, ~avs_write,
         ~avs_read, ~valid, address < LastWord, Len(queue) \in 1 .. SweepWords + 1,
         Covered(Len(queue) - 1), ~queue[Len(queue)].write
  PROVE  SweepReads' /\ address' \in 0 .. LastWord /\ burstcount' = 1
<1>0. avm_writedata = Data1 /\ avm_writedata' = Data1 /\ mem_testmode'
  <2>1. mem_testmode' = (~addr_test_done /\ mem_testmode)
    BY SweepClocks
  <2>2. mem_testmode'
    BY <2>1, Zenon
  <2> QED BY <2>2, SweepClocks
<1>1. FsmTestRead(valid)
  BY FsmMoves
<1>2. /\ state' = "TEST_READ" /\ ~avs_read' /\ addr_test_done' = addr_test_done
      /\ address' = address /\ burstcount' = 1 /\ ~avs_write'
  <2>1. address # LastWord
    BY Bounds
  <2> QED BY <1>1, <2>1 DEF FsmTestRead
<1> DEFINE L == Left(queue, serves)
<1> HIDE DEF L
<1>3. PICK n, w, s : n = Len(queue) /\ w = n - 1 /\ s = (IF serves THEN 1 ELSE 0)
  OBVIOUS
<1>4. n \in Nat /\ w \in Nat /\ n = w + 1 /\ w <= SweepWords
  BY <1>3, Bounds
<1>5. /\ IsSeq(L) /\ Len(L) = n - s /\ Len(L) \in Nat
      /\ \A i \in 1 .. Len(L) : L[i] = queue[i + s]
      /\ serves \in BOOLEAN
  <2>1. /\ IsSeq(L) /\ Len(L) \in Nat /\ Len(L) = Len(queue) - (IF serves THEN 1 ELSE 0)
        /\ \A i \in 1 .. Len(L) : L[i] = queue[i + (IF serves THEN 1 ELSE 0)]
    BY QueueIs DEF L
  <2>2. serves \in BOOLEAN
    BY DEF Edge
  <2> QED BY <1>3, <2>1, <2>2
<1>6. Serves(queue, mem, Data1, 0, SweepWords, w, serves)
  <2>1. IsSeq(queue) /\ DOMAIN mem = 0 .. LastWord /\ serves \in BOOLEAN /\ (serves => queue # <<>>)
    BY DEF Types, Edge
  <2>2. w \in 0 .. Len(queue) /\ 0 <= SweepWords - w /\ 0 \in Nat /\ SweepWords \in Nat
        /\ SweepWords <= SweepWords
    BY <1>3, <1>4, Bounds
  <2>3. Lands(queue, mem, Data1, 0, SweepWords, w)
    BY <1>0, <1>3 DEF Covered, Landing
  <2>4. w = 0 /\ serves => ~queue[1].write
    BY <1>3, <1>4
  <2> QED BY <2>1, <2>2, <2>3, <2>4 DEF Serves
<1>7. /\ Lands(L, mem', Data1, 0, SweepWords, Behind(w, serves))
      /\ valid' <=> serves /\ ~(w > 0)
  BY <1>6, Served DEF L
<1>8. queue' = L
  <2>1. queue' = L \o <<>>
    BY NoCommand DEF Edge, L
  <2> QED BY <1>5, <2>1, JoinsNone
<1>9. CASE ~serves
  <2>1. L = queue /\ Behind(w, serves) = w /\ ~valid'
    BY <1>7, <1>9 DEF L, Left, Behind
  <2>2. Covered(Len(queue) - 1)'
    BY <1>0, <1>3, <1>7, <1>8, <2>1 DEF Covered, Landing
  <2>3. address' < LastWord /\ Len(queue') \in 1 .. SweepWords + 1 /\ ~queue'[Len(queue')].write
    BY <1>2, <1>8, <2>1
  <2>4. SweepReads'
    BY <1>0, <1>2, <2>1, <2>2, <2>3, Zenon DEF SweepReads
  <2> QED BY <1>2, <2>4
<1>10. CASE serves /\ w > 0
  <2>1. Behind(w, serves) = w - 1 /\ ~valid' /\ s = 1
    BY <1>3, <1>7, <1>10 DEF Behind
  <2>2. Len(L) = w /\ Len(L) - 1 = w - 1 /\ w \in 1 .. SweepWords + 1
    BY <1>4, <1>5, <1>10, <2>1, Bounds
  <2>3. Covered(Len(queue) - 1)'
    BY <1>0, <1>7, <1>8, <2>1, <2>2 DEF Covered, Landing
  <2>4. L[w] = queue[n]
    <3>1. w \in 1 .. Len(L)
      BY <1>4, <1>10, <2>2
    <3> QED BY <1>4, <1>5, <2>1, <3>1
  <2>5. address' < LastWord /\ Len(queue') \in 1 .. SweepWords + 1 /\ ~queue'[Len(queue')].write
    BY <1>2, <1>3, <1>8, <2>2, <2>4
  <2>6. SweepReads'
    BY <1>0, <1>2, <2>1, <2>3, <2>5, Zenon DEF SweepReads
  <2> QED BY <1>2, <2>6
<1>11. CASE serves /\ ~(w > 0)
  <2>1. Behind(w, serves) = 0 /\ valid' /\ s = 1 /\ w = 0
    BY <1>3, <1>4, <1>7, <1>11 DEF Behind
  <2>2. queue' = <<>>
    <3>1. Len(L) = 0
      BY <1>4, <1>5, <2>1
    <3> QED BY <1>5, <1>8, <3>1, NoneLeft
  <2>3. Covered(0)'
    BY <1>0, <1>7, <1>8, <2>1 DEF Covered, Landing
  <2>4. address' < LastWord
    BY <1>2
  <2>5. SweepReads'
    BY <1>0, <1>2, <2>1, <2>2, <2>3, <2>4, Zenon DEF SweepReads
  <2> QED BY <1>2, <2>5
<1> QED BY <1>5, <1>9, <1>10, <1>11

(* Its answer arrives, and the next one is asked for.                      *)
LEMMA SweepTakes ==
  ASSUME NEW serves, Edge(NoReq, serves), Types, Regs(9), Unasked, beat = 0, burstcount = 1,
         address \in 0 .. LastWord, state = "TEST_READ", mem_testmode, ~addr_test_done, ~avs_write,
         ~avs_read, valid, address < LastWord, queue = <<>>, Covered(0)
  PROVE  SweepReads' /\ address' \in 0 .. LastWord /\ burstcount' = 1
<1>0. avm_writedata = Data1 /\ avm_writedata' = Data1 /\ mem_testmode'
  <2>1. mem_testmode' = (~addr_test_done /\ mem_testmode)
    BY SweepClocks
  <2>2. mem_testmode'
    BY <2>1, Zenon
  <2> QED BY <2>2, SweepClocks
<1>1. FsmTestRead(valid)
  BY FsmMoves
<1>2. /\ state' = "TEST_READ" /\ avs_read' /\ addr_test_done' = addr_test_done
      /\ address' = address + 1 /\ burstcount' = 1 /\ ~avs_write'
  <2>1. address # LastWord
    BY Bounds
  <2> QED BY <1>1, <2>1 DEF FsmTestRead
<1>3. queue' = <<>> /\ mem' = mem /\ ~valid'
  BY NoCommand, EmptyQueue
<1>4. Len(queue') = 0 /\ Len(queue') <= SweepWords
  <2>1. Len(queue') = 0
    BY <1>3, NoneLeft
  <2> QED BY <2>1, Bounds
<1>5. Covered(Len(queue))'
  BY <1>0, <1>3, <1>4 DEF Covered, Landing, Lands
<1>6. address' \in 0 .. LastWord
  BY <1>2, Bounds
<1>7. SweepReads'
  BY <1>0, <1>2, <1>3, <1>4, <1>5, Zenon DEF SweepReads
<1> QED BY <1>2, <1>6, <1>7

(* The sweep is over, but for the last answer.                             *)
LEMMA SweepRests ==
  ASSUME NEW serves, Edge(NoReq, serves), Types, Regs(9), Unasked, beat = 0, burstcount = 1,
         SweepDone
  PROVE  SweepDone' /\ address' \in 0 .. LastWord /\ burstcount' = 1
<1>0. avm_writedata = Data1 /\ avm_writedata' = Data1 /\ ~mem_testmode'
  <2>1. mem_testmode' = (~addr_test_done /\ mem_testmode)
    BY SweepClocks
  <2>2. ~mem_testmode'
    BY <2>1, Zenon DEF SweepDone
  <2> QED BY <2>2, SweepClocks
<1>1. FsmIdle
  BY FsmMoves DEF SweepDone
<1>2. /\ state' = "IDLE" /\ ~avs_write' /\ ~avs_read' /\ addr_test_done' = addr_test_done
      /\ address' = address /\ burstcount' = 1
  BY <1>1 DEF FsmIdle, SweepDone, Unasked
<1>3. Command = <<>> /\ IsSeq(Command)
  BY NoCommand DEF SweepDone
<1>4. \/ mem' = mem /\ queue' = <<>>
      \/ mem' = mem /\ queue' = queue /\ Len(queue) = 1 /\ ~valid'
  <2>1. CASE queue = <<>>
    BY <1>3, <2>1, EmptyQueue
  <2>2. CASE Len(queue) = 1 /\ ~queue[1].write /\ ~valid
    <3> DEFINE L == Left(queue, serves)
    <3> HIDE DEF L
    <3>1. /\ IsSeq(L) /\ Len(L) = 1 - (IF serves THEN 1 ELSE 0)
          /\ serves => Head(queue) = queue[1]
      BY <2>2, QueueIs DEF L
    <3>2. queue' = L
      <4>1. queue' = L \o <<>>
        BY <1>3 DEF Edge, L
      <4> QED BY <3>1, <4>1, JoinsNone
    <3>3. mem' = mem /\ (valid' <=> serves) /\ serves \in BOOLEAN
      BY <2>2, <3>1 DEF Edge, Stored
    <3>4. CASE serves
      <4>1. Len(L) = 0
        BY <3>1, <3>4
      <4> QED BY <3>1, <3>2, <3>3, <4>1, NoneLeft
    <3>5. CASE ~serves
      BY <2>2, <3>2, <3>3, <3>5 DEF L, Left
    <3> QED BY <3>3, <3>4, <3>5
  <2> QED BY <2>1, <2>2 DEF SweepDone
<1>5. Covered(0)'
  BY <1>0, <1>4 DEF SweepDone, Covered, Landing, Lands
<1>6. queue' = <<>> \/ (Len(queue') = 1 /\ ~queue'[1].write /\ ~valid')
  <2>1. Len(queue) = 1 => queue # <<>>
    BY NoneLeft
  <2> QED BY <1>4, <2>1 DEF SweepDone
<1>7. address' = LastWord /\ addr_test_done'
  BY <1>2 DEF SweepDone
<1>8. SweepDone'
  BY <1>0, <1>2, <1>5, <1>6, <1>7, Zenon DEF SweepDone
<1> QED BY <1>2, <1>7, <1>8, Bounds

LEMMA SweepTicks ==
  ASSUME NEW serves, Edge(NoReq, serves), Types, Regs(9), Sweeping
  PROVE  Regs(9)' /\ Sweeping'
<1>1. Unasked /\ beat = 0 /\ burstcount = 1 /\ address \in 0 .. LastWord
  BY DEF Sweeping
<1>2. Regs(9)' /\ Unasked' /\ beat' = 0
  BY <1>1, SweepClocks
<1>3. (SweepWrites \/ SweepReads \/ SweepDone)' /\ address' \in 0 .. LastWord /\ burstcount' = 1
  <2>1. CASE SweepAhead
    BY <1>1, <2>1, SweepBegins
  <2>2. CASE SweepWrites
    BY <1>1, <2>2, SweepPuts
  <2>3. CASE SweepReads
    <3>1. state = "TEST_READ" /\ mem_testmode /\ ~addr_test_done /\ ~avs_write
      BY <2>3 DEF SweepReads
    <3>2. CASE /\ avs_read /\ ~valid /\ Len(queue) <= SweepWords /\ Covered(Len(queue))
               /\ address > 0 => queue = <<>>
      BY <1>1, <3>1, <3>2, SweepAsks
    <3>3. CASE /\ ~avs_read /\ ~valid /\ address < LastWord
               /\ Len(queue) \in 1 .. SweepWords + 1 /\ Covered(Len(queue) - 1)
               /\ ~queue[Len(queue)].write
      BY <1>1, <3>1, <3>3, SweepWaits
    <3>4. CASE ~avs_read /\ valid /\ address < LastWord /\ queue = <<>> /\ Covered(0)
      BY <1>1, <3>1, <3>4, SweepTakes
    <3> QED BY <2>3, <3>2, <3>3, <3>4 DEF SweepReads
  <2>4. CASE SweepDone
    BY <1>1, <2>4, SweepRests
  <2> QED BY <2>1, <2>2, <2>3, <2>4 DEF Sweeping
<1> QED BY <1>2, <1>3 DEF Sweeping

-----------------------------------------------------------------------------
(***************************************************************************)
(* The accesses of the program, each from its phase to the next.           *)
(***************************************************************************)
LEMMA PhaseIs ==
  ASSUME NEW k \in 1 .. Over
  PROVE  /\ k \in {4, 14} => /\ Phase(k) <=> Regs(k) /\ Writing(k)
                             /\ Phase(k)' <=> Regs(k)' /\ Writing(k)'
         /\ k \in {5, 6} => /\ Phase(k) <=> Regs(k) /\ ReadingBack(k)
                            /\ Phase(k)' <=> Regs(k)' /\ ReadingBack(k)'
         /\ k \in {16, 17} => /\ Phase(k) <=> Regs(k) /\ ReadingBurst(k)
                              /\ Phase(k)' <=> Regs(k)' /\ ReadingBurst(k)'
         /\ k = 9 => /\ Phase(k) <=> Regs(k) /\ Sweeping
                     /\ Phase(k)' <=> Regs(k)' /\ Sweeping'
         /\ k \notin {4, 5, 6, 9, 14, 16, 17} => /\ Phase(k) <=> Regs(k) /\ Resting(k)
                                                 /\ Phase(k)' <=> Regs(k)' /\ Resting(k)'
<1>1. k \in {4, 14} => /\ Phase(k) <=> Regs(k) /\ Writing(k)
                       /\ Phase(k)' <=> Regs(k)' /\ Writing(k)'
  BY DEF Phase
<1>2. k \in {5, 6} => /\ Phase(k) <=> Regs(k) /\ ReadingBack(k)
                      /\ Phase(k)' <=> Regs(k)' /\ ReadingBack(k)'
  BY DEF Phase
<1>3. k \in {16, 17} => /\ Phase(k) <=> Regs(k) /\ ReadingBurst(k)
                        /\ Phase(k)' <=> Regs(k)' /\ ReadingBurst(k)'
  BY DEF Phase
<1>4. k = 9 => /\ Phase(k) <=> Regs(k) /\ Sweeping
               /\ Phase(k)' <=> Regs(k)' /\ Sweeping'
  BY DEF Phase
<1>5. k \notin {4, 5, 6, 9, 14, 16, 17} => /\ Phase(k) <=> Regs(k) /\ Resting(k)
                                           /\ Phase(k)' <=> Regs(k)' /\ Resting(k)'
  BY DEF Phase
<1> QED BY <1>1, <1>2, <1>3, <1>4, <1>5

LEMMA PhaseTicks ==
  ASSUME NEW serves, Edge(NoReq, serves), Types, Spaced, GapOn, NEW k \in 1 .. Over, Phase(k)
  PROVE  Phase(k)'
<1>1. CASE k \in {4, 14}
  BY <1>1, PhaseIs, WritingTicks
<1>2. CASE k \in {5, 6}
  BY <1>2, PhaseIs, BackTicks
<1>3. CASE k \in {16, 17}
  BY <1>3, PhaseIs, BurstTicks
<1>4. CASE k = 9
  BY <1>4, PhaseIs, SweepTicks
<1>5. CASE k \notin {4, 5, 6, 9, 14, 16, 17}
  <2>1. k # 9
    BY <1>5
  <2> QED BY <1>5, <2>1, PhaseIs, RestStays, Mutes
<1> QED BY <1>1, <1>2, <1>3, <1>4, <1>5

Req(reg, val) == [op |-> "write", reg |-> reg, val |-> val]

LEMMA ReqIs ==
  ASSUME NEW reg, NEW val, NEW q, NEW old
  PROVE  /\ writes(Req(reg, val), q) <=> reg = q
         /\ written(Req(reg, val), q, old) = IF reg = q THEN val ELSE old
BY DEF Req, writes, written

(* A register other than MEM_RDWR is written.                              *)
LEMMA RestWrites ==
  ASSUME NEW reg, NEW val, NEW serves, Edge(Req(reg, val), serves), Quiet, ~mem_testmode,
         reg # "MEM_RDWR"
  PROVE  /\ mem' = mem /\ state' = "IDLE" /\ burstcount' = burstcount
         /\ address' = address /\ addr_test_done' = addr_test_done /\ avm_readdata' = avm_readdata
         /\ queue' = <<>> /\ ~valid' /\ ~avs_write' /\ ~avs_read' /\ beat' = 0
         /\ Calm' /\ Unasked' /\ Quiet'
         /\ reg # "MEM_ADDR_TESTMODE" => ~mem_testmode'
         /\ reg = "MEM_ADDR_TESTMODE" /\ val => (mem_testmode' <=> ~addr_test_done)
         /\ avm_address' = IF reg = "MEM_ADDRESS" THEN val ELSE avm_address
         /\ avm_burstcount' = IF reg = "MEM_BURSTCOUNT" THEN val ELSE avm_burstcount
         /\ avm_writedata' = IF reg = "MEM_WRDATA" THEN val ELSE avm_writedata
<1> DEFINE rx == Req(reg, val)
<1> HIDE DEF rx
<1>1. Edge(rx, serves)
  BY DEF rx
<1>2. /\ queue' = <<>> /\ mem' = mem /\ ~valid' /\ beat' = 0
      /\ state' = "IDLE" /\ ~avs_write' /\ ~avs_read' /\ ~avm_write' /\ ~avm_read'
      /\ address' = address /\ burstcount' = burstcount /\ addr_test_done' = addr_test_done
      /\ avm_readdata' = avm_readdata
      /\ mem_testmode' = (~addr_test_done /\ written(rx, "MEM_ADDR_TESTMODE", mem_testmode))
      /\ mem_RDWR' = written(rx, "MEM_RDWR", mem_RDWR)
      /\ avm_address' = written(rx, "MEM_ADDRESS", avm_address)
      /\ avm_burstcount' = written(rx, "MEM_BURSTCOUNT", avm_burstcount)
      /\ avm_writedata' = written(rx, "MEM_WRDATA", avm_writedata)
      /\ asked' <=> writes(rx, "MEM_RDWR")
  BY <1>1, RestClocks
<1>3. \A q, old : /\ writes(rx, q) <=> reg = q
                  /\ written(rx, q, old) = IF reg = q THEN val ELSE old
  BY ReqIs DEF rx
<1>4. ~asked' /\ mem_RDWR' = mem_RDWR
  BY <1>2, <1>3
<1>5. Unasked' /\ Calm' /\ Quiet'
  BY <1>2, <1>4 DEF Quiet, Calm, Unasked
<1>6. /\ avm_address' = IF reg = "MEM_ADDRESS" THEN val ELSE avm_address
      /\ avm_burstcount' = IF reg = "MEM_BURSTCOUNT" THEN val ELSE avm_burstcount
      /\ avm_writedata' = IF reg = "MEM_WRDATA" THEN val ELSE avm_writedata
  BY <1>2, <1>3
<1>7. written(rx, "MEM_ADDR_TESTMODE", mem_testmode)
        = IF reg = "MEM_ADDR_TESTMODE" THEN val ELSE mem_testmode
  BY <1>3
<1>8. /\ reg # "MEM_ADDR_TESTMODE" => ~mem_testmode'
      /\ reg = "MEM_ADDR_TESTMODE" /\ val => (mem_testmode' <=> ~addr_test_done)
  <2>1. CASE reg # "MEM_ADDR_TESTMODE"
    <3>1. written(rx, "MEM_ADDR_TESTMODE", mem_testmode) = mem_testmode
      BY <1>7, <2>1
    <3>2. mem_testmode' = (~addr_test_done /\ mem_testmode)
      BY <1>2, <3>1
    <3>3. ~mem_testmode'
      BY <3>2, Zenon
    <3> QED BY <2>1, <3>3
  <2>2. CASE reg = "MEM_ADDR_TESTMODE"
    <3>1. written(rx, "MEM_ADDR_TESTMODE", mem_testmode) = val
      BY <1>7, <2>2
    <3>2. mem_testmode' = (~addr_test_done /\ val)
      BY <1>2, <3>1
    <3>3. val => (mem_testmode' <=> ~addr_test_done)
      BY <3>2, Zenon
    <3> QED BY <2>2, <3>3
  <2> QED BY <2>1, <2>2
<1> QED BY <1>2, <1>5, <1>6, <1>8

(* A request is written.                                                   *)
LEMMA RestRequests ==
  ASSUME NEW rd \in BOOLEAN, NEW serves,
         Edge(Req("MEM_RDWR", [en |-> TRUE, rd |-> rd]), serves), gap' = 1,
         NEW k \in 1 .. Over, k # 9, Regs(k), Quiet
  PROVE  /\ Coming(rd)' /\ queue' = <<>> /\ mem' = mem /\ ~valid' /\ beat' = 0
         /\ burstcount' = burstcount /\ ~avs_write' /\ ~avs_read' /\ Regs(k)'
<1> DEFINE val == [en |-> TRUE, rd |-> rd]
           rx == Req("MEM_RDWR", val)
<1> HIDE DEF rx
<1>1. Edge(rx, serves) /\ ~mem_testmode
  BY DEF rx, Regs
<1>2. /\ queue' = <<>> /\ mem' = mem /\ ~valid' /\ beat' = 0
      /\ state' = "IDLE" /\ ~avs_write' /\ ~avs_read' /\ ~avm_write' /\ ~avm_read'
      /\ burstcount' = burstcount
      /\ mem_RDWR' = written(rx, "MEM_RDWR", mem_RDWR)
      /\ asked' <=> writes(rx, "MEM_RDWR")
  BY <1>1, RestClocks
<1>3. writes(rx, "MEM_RDWR") /\ written(rx, "MEM_RDWR", mem_RDWR) = val
  BY ReqIs DEF rx
<1>4. Coming(rd)'
  BY <1>2, <1>3 DEF Coming
<1>5. Regs(k)'
  <2>1. Aside(rx)
    BY RequestAside DEF rx, Req
  <2> QED BY <1>1, <2>1, RegsStay DEF Quiet
<1> QED BY <1>2, <1>4, <1>5

LEMMA RestIs ==
  ASSUME NEW k \in {1, 2, 3, 7, 8, 10, 11, 12, 13, 15, 18, 19, 20}, Phase(k)
  PROVE  /\ Regs(k) /\ Resting(k) /\ Quiet /\ ~mem_testmode /\ k # 9 /\ k \in 1 .. Over
         /\ Phase(k)' <=> Regs(k)' /\ Resting(k)'
<1>1. k \in 1 .. Over /\ k # 9 /\ k \notin {4, 5, 6, 9, 14, 16, 17}
  BY ProgramIs
<1>2. /\ Regs(k) /\ Resting(k)
      /\ Phase(k)' <=> Regs(k)' /\ Resting(k)'
  BY <1>1, PhaseIs
<1> QED BY <1>1, <1>2 DEF Regs, Resting

(* The address and the data of the first test.                             *)
LEMMA FirstPlaces ==
  ASSUME NEW serves, gap' = 1
  PROVE  /\ Phase(1) /\ Edge(Req("MEM_ADDRESS", Addr), serves) => Phase(2)'
         /\ Phase(2) /\ Edge(Req("MEM_WRDATA", Data1), serves) => Phase(3)'
<1>1. ASSUME Phase(1), Edge(Req("MEM_ADDRESS", Addr), serves) PROVE Phase(2)'
  <2>1. Regs(1) /\ Resting(1) /\ Quiet /\ ~mem_testmode
    BY <1>1, RestIs
  <2>2. /\ burstcount' = burstcount /\ address' = address /\ addr_test_done' = addr_test_done
        /\ Quiet' /\ avm_address' = Addr
        /\ avm_burstcount' = avm_burstcount /\ avm_writedata' = avm_writedata
        /\ ~mem_testmode'
    BY <1>1, <2>1, RestWrites
  <2>3. Regs(2)'
    BY <2>1, <2>2 DEF Regs
  <2>5. Resting(2)'
    BY <2>1, <2>2 DEF Resting
  <2>4. 2 \in 1 .. Over
    BY ProgramIs
  <2> QED BY <2>3, <2>4, <2>5, PhaseIs
<1>2. ASSUME Phase(2), Edge(Req("MEM_WRDATA", Data1), serves) PROVE Phase(3)'
  <2>1. Regs(2) /\ Resting(2) /\ Quiet /\ ~mem_testmode
    BY <1>2, RestIs
  <2>2. /\ burstcount' = burstcount /\ address' = address /\ addr_test_done' = addr_test_done
        /\ Quiet' /\ avm_address' = avm_address
        /\ avm_burstcount' = avm_burstcount /\ avm_writedata' = Data1
        /\ ~mem_testmode'
    BY <1>2, <2>1, RestWrites
  <2>3. Regs(3)'
    BY <2>1, <2>2 DEF Regs
  <2>5. Resting(3)'
    BY <2>1, <2>2 DEF Resting
  <2>4. 3 \in 1 .. Over
    BY ProgramIs
  <2> QED BY <2>3, <2>4, <2>5, PhaseIs
<1> QED BY <1>1, <1>2

(* Those of the burst, and the request to sweep.                           *)
LEMMA SecondPlaces ==
  ASSUME NEW serves, gap' = 1
  PROVE  /\ Phase(11) /\ Edge(Req("MEM_WRDATA", Data3), serves) => Phase(12)'
         /\ Phase(12) /\ Edge(Req("MEM_BURSTCOUNT", Burst), serves) => Phase(13)'
         /\ Phase(8) /\ Edge(Req("MEM_ADDR_TESTMODE", TRUE), serves) => Phase(9)'
<1>1. ASSUME Phase(11), Edge(Req("MEM_WRDATA", Data3), serves) PROVE Phase(12)'
  <2>1. Regs(11) /\ Resting(11) /\ Quiet /\ ~mem_testmode
    BY <1>1, RestIs
  <2>2. /\ burstcount' = burstcount /\ address' = address /\ addr_test_done' = addr_test_done
        /\ Quiet' /\ avm_address' = avm_address /\ mem' = mem
        /\ avm_burstcount' = avm_burstcount /\ avm_writedata' = Data3
        /\ ~mem_testmode'
    BY <1>1, <2>1, RestWrites
  <2>3. Regs(12)'
    BY <2>1, <2>2 DEF Regs
  <2>5. Resting(12)'
    BY <2>1, <2>2 DEF Resting
  <2>4. 12 \in 1 .. Over
    BY ProgramIs
  <2> QED BY <2>3, <2>4, <2>5, PhaseIs
<1>2. ASSUME Phase(12), Edge(Req("MEM_BURSTCOUNT", Burst), serves) PROVE Phase(13)'
  <2>1. Regs(12) /\ Resting(12) /\ Quiet /\ ~mem_testmode
    BY <1>2, RestIs
  <2>2. /\ burstcount' = burstcount /\ address' = address /\ addr_test_done' = addr_test_done
        /\ Quiet' /\ avm_address' = avm_address /\ mem' = mem
        /\ avm_burstcount' = Burst /\ avm_writedata' = avm_writedata
        /\ ~mem_testmode'
    BY <1>2, <2>1, RestWrites
  <2>3. Regs(13)'
    BY <2>1, <2>2 DEF Regs
  <2>5. Resting(13)'
    BY <2>1, <2>2 DEF Resting
  <2>4. 13 \in 1 .. Over
    BY ProgramIs
  <2> QED BY <2>3, <2>4, <2>5, PhaseIs
<1>3. ASSUME Phase(8), Edge(Req("MEM_ADDR_TESTMODE", TRUE), serves) PROVE Phase(9)'
  <2>1. Regs(8) /\ Resting(8) /\ Quiet /\ ~mem_testmode
    BY <1>3, RestIs
  <2>2. /\ burstcount' = burstcount /\ address' = address /\ addr_test_done' = addr_test_done
        /\ Quiet' /\ Unasked' /\ avm_address' = avm_address
        /\ state' = "IDLE" /\ queue' = <<>> /\ ~valid' /\ ~avs_write' /\ ~avs_read' /\ beat' = 0
        /\ avm_burstcount' = avm_burstcount /\ avm_writedata' = avm_writedata
        /\ mem_testmode' <=> ~addr_test_done
    <3>1. PICK v : v /\ Edge(Req("MEM_ADDR_TESTMODE", v), serves)
      BY <1>3, Zenon
    <3> DEFINE r == "MEM_ADDR_TESTMODE"
    <3>2. /\ r # "MEM_RDWR" /\ r # "MEM_ADDRESS" /\ r # "MEM_BURSTCOUNT" /\ r # "MEM_WRDATA"
          /\ Edge(Req(r, v), serves)
      BY <3>1
    <3>3. r = "MEM_ADDR_TESTMODE"
      OBVIOUS
    <3> HIDE DEF r
    <3>4. /\ burstcount' = burstcount /\ address' = address /\ addr_test_done' = addr_test_done
          /\ Quiet' /\ Unasked' /\ state' = "IDLE" /\ queue' = <<>> /\ ~valid' /\ ~avs_write'
          /\ ~avs_read' /\ beat' = 0
      BY <2>1, <3>2, RestWrites
    <3>5. avm_address' = avm_address /\ avm_burstcount' = avm_burstcount
          /\ avm_writedata' = avm_writedata
      BY <2>1, <3>2, RestWrites
    <3>6. mem_testmode' <=> ~addr_test_done
      BY <2>1, <3>1, <3>2, <3>3, RestWrites
    <3> QED BY <3>4, <3>5, <3>6
  <2>3. ~addr_test_done /\ address = 0 /\ burstcount = 1
    BY <2>1 DEF Regs, Resting
  <2>4. mem_testmode' /\ ~addr_test_done'
    BY <2>2, <2>3
  <2>5. SweepAhead'
    BY <2>2, <2>3, <2>4 DEF SweepAhead
  <2>6. address' \in 0 .. LastWord
    BY <2>2, <2>3, Bounds
  <2>7. Sweeping'
    BY <2>2, <2>3, <2>5, <2>6 DEF Sweeping
  <2>8. Regs(9)'
    BY <2>1, <2>2 DEF Regs
  <2>9. 9 \in 1 .. Over
    BY ProgramIs
  <2> QED BY <2>7, <2>8, <2>9, PhaseIs
<1> QED BY <1>1, <1>2, <1>3

(* The requests.                                                           *)
LEMMA Requests ==
  ASSUME NEW serves, gap' = 1
  PROVE  /\ Phase(3) /\ Edge(Req("MEM_RDWR", DoWrite), serves) => Phase(4)'
         /\ Phase(13) /\ Edge(Req("MEM_RDWR", DoWrite), serves) => Phase(14)'
         /\ Phase(15) /\ Edge(Req("MEM_RDWR", DoRead), serves) => Phase(16)'
<1>0. /\ DoWrite = [en |-> TRUE, rd |-> FALSE] /\ DoRead = [en |-> TRUE, rd |-> TRUE]
      /\ TRUE \in BOOLEAN /\ FALSE \in BOOLEAN
      /\ 4 \in 1 .. Over /\ 14 \in 1 .. Over /\ 16 \in 1 .. Over
  BY ProgramIs DEF DoWrite, DoRead
<1>1. ASSUME Phase(3), Edge(Req("MEM_RDWR", DoWrite), serves) PROVE Phase(4)'
  <2>1. Regs(3) /\ Resting(3) /\ Quiet /\ ~mem_testmode /\ 3 # 9 /\ 3 \in 1 .. Over
    BY <1>1, RestIs
  <2>2. /\ Coming(FALSE)' /\ queue' = <<>> /\ mem' = mem /\ ~valid' /\ beat' = 0
        /\ burstcount' = burstcount /\ ~avs_write' /\ ~avs_read' /\ Regs(3)'
    BY <1>0, <1>1, <2>1, RestRequests, Zenon
  <2>3. burstcount' = 1 /\ beat' = burstcount' - 1
    BY <2>1, <2>2 DEF Resting
  <2>4. Writing(4)'
    <3>1. 4 # 14
      OBVIOUS
    <3> QED BY <2>2, <2>3, <3>1, Zenon DEF Writing
  <2>5. Regs(4)'
    BY <2>2 DEF Regs
  <2> QED BY <1>0, <2>4, <2>5, PhaseIs
<1>2. ASSUME Phase(13), Edge(Req("MEM_RDWR", DoWrite), serves) PROVE Phase(14)'
  <2>1. Regs(13) /\ Resting(13) /\ Quiet /\ ~mem_testmode /\ 13 # 9 /\ 13 \in 1 .. Over
    BY <1>2, RestIs
  <2>2. /\ Coming(FALSE)' /\ queue' = <<>> /\ mem' = mem /\ ~valid' /\ beat' = 0
        /\ burstcount' = burstcount /\ ~avs_write' /\ ~avs_read' /\ Regs(13)'
    BY <1>0, <1>2, <2>1, RestRequests, Zenon
  <2>3. burstcount' = 1 /\ beat' = burstcount' - 1
    BY <2>1, <2>2 DEF Resting
  <2>4. \A a \in 0 .. LastWord : mem'[a] = Data1
    BY <2>1, <2>2 DEF Resting
  <2>5. Writing(14)'
    BY <2>2, <2>3, <2>4 DEF Writing
  <2>6. Regs(14)'
    BY <2>2 DEF Regs
  <2> QED BY <1>0, <2>5, <2>6, PhaseIs
<1>3. ASSUME Phase(15), Edge(Req("MEM_RDWR", DoRead), serves) PROVE Phase(16)'
  <2>1. Regs(15) /\ Resting(15) /\ Quiet /\ ~mem_testmode /\ 15 # 9 /\ 15 \in 1 .. Over
    BY <1>3, RestIs
  <2>2. /\ Coming(TRUE)' /\ queue' = <<>> /\ mem' = mem /\ ~valid' /\ beat' = 0
        /\ burstcount' = burstcount /\ ~avs_write' /\ ~avs_read' /\ Regs(15)'
    BY <1>0, <1>3, <2>1, RestRequests, Zenon
  <2>3. burstcount' = 1 /\ Tested'
    BY <2>1, <2>2 DEF Resting, Tested, InBurst
  <2>4. ReadingBurst(16)'
    BY <2>2, <2>3 DEF ReadingBurst, AskingRead
  <2>5. Regs(16)'
    BY <2>2 DEF Regs
  <2> QED BY <1>0, <2>4, <2>5, PhaseIs
<1> QED BY <1>1, <1>2, <1>3

(* The other reads.                                                        *)
LEMMA RestReads ==
  ASSUME NEW rx, NEW serves, Edge(rx, serves), Mute(rx)
  PROVE  /\ Phase(7) => Phase(8)' /\ avm_readdata = Data1
         /\ Phase(10) => Phase(10)' /\ Phase(11)'
         /\ Phase(18) => Phase(18)' /\ Phase(19)'
<1>0. 8 \in 1 .. Over /\ 11 \in 1 .. Over /\ 19 \in 1 .. Over
  BY ProgramIs
<1>1. ASSUME Phase(7) PROVE Phase(8)' /\ avm_readdata = Data1
  <2>1. /\ Regs(7) /\ Resting(7) /\ 7 # 9 /\ 7 \in 1 .. Over
    BY <1>1, RestIs
  <2>2. Regs(7)' /\ Resting(7)'
    BY <2>1, RestStays
  <2>3. Regs(8)' /\ Resting(8)'
    BY <2>2 DEF Regs, Resting
  <2> QED BY <1>0, <2>1, <2>3, PhaseIs DEF Resting
<1>2. ASSUME Phase(10) PROVE Phase(10)' /\ Phase(11)'
  <2>1. /\ Regs(10) /\ Resting(10) /\ 10 # 9 /\ 10 \in 1 .. Over
    BY <1>2, RestIs
  <2>2. Regs(10)' /\ Resting(10)'
    BY <2>1, RestStays
  <2>3. Regs(11)' /\ Resting(11)'
    BY <2>2 DEF Regs, Resting
  <2> QED BY <1>0, <2>1, <2>2, <2>3, PhaseIs
<1>3. ASSUME Phase(18) PROVE Phase(18)' /\ Phase(19)'
  <2>1. /\ Regs(18) /\ Resting(18) /\ 18 # 9 /\ 18 \in 1 .. Over
    BY <1>3, RestIs
  <2>2. Regs(18)' /\ Resting(18)'
    BY <2>1, RestStays
  <2>3. Regs(19)' /\ Resting(19)'
    BY <2>2 DEF Regs, Resting
  <2> QED BY <1>0, <2>1, <2>2, <2>3, PhaseIs
<1> QED BY <1>1, <1>2, <1>3

(* The reads and the read request that meet the master at work.            *)
LEMMA BusyAccesses ==
  ASSUME NEW serves, Types, Spaced, gap = MmioGap, gap' = 1
  PROVE  /\ Phase(4) /\ Edge(Req("MEM_RDWR", DoRead), serves) => Phase(5)'
         /\ \A rx : Phase(5) /\ Edge(rx, serves) /\ Mute(rx) => Phase(6)'
         /\ \A rx : Phase(16) /\ Edge(rx, serves) /\ Mute(rx) => Phase(17)'
<1>0. 4 \in 1 .. Over /\ 5 \in 1 .. Over /\ 6 \in 1 .. Over /\ 16 \in 1 .. Over /\ 17 \in 1 .. Over
  BY ProgramIs
<1>1. ASSUME Phase(4), Edge(Req("MEM_RDWR", DoRead), serves) PROVE Phase(5)'
  <2>1. Regs(4) /\ Writing(4)
    BY <1>0, <1>1, PhaseIs
  <2>2. Edge([op |-> "write", reg |-> "MEM_RDWR", val |-> DoRead], serves)
    BY <1>1 DEF Req
  <2>3. Regs(5)' /\ ReadingBack(5)'
    BY <2>1, <2>2, ReadFollows, Zenon
  <2> QED BY <1>0, <2>3, PhaseIs
<1>2. ASSUME NEW rx, Phase(5), Edge(rx, serves), Mute(rx) PROVE Phase(6)'
  <2>1. Regs(5) /\ ReadingBack(5)
    BY <1>0, <1>2, PhaseIs
  <2>2. Regs(6)' /\ ReadingBack(6)'
    BY <1>2, <2>1, BackRead
  <2> QED BY <1>0, <2>2, PhaseIs
<1>3. ASSUME NEW rx, Phase(16), Edge(rx, serves), Mute(rx) PROVE Phase(17)'
  <2>1. Regs(16) /\ ReadingBurst(16)
    BY <1>0, <1>3, PhaseIs
  <2>2. Regs(17)' /\ ReadingBurst(17)'
    BY <1>3, <2>1, BurstRead
  <2> QED BY <1>0, <2>2, PhaseIs
<1> QED BY <1>1, <1>2, <1>3

-----------------------------------------------------------------------------
(***************************************************************************)
(* A phase has what the bridge must hold, what the answers must match and  *)
(* what has been asked.                                                    *)
(***************************************************************************)
LEMMA NoReads == ASSUME NEW Q, Q = <<>> PROVE Cardinality({i \in 1 .. Len(Q) : ~Q[i].write}) = 0
<1>1. 1 .. Len(Q) = {}
  BY NoneLeft
<1>2. {i \in 1 .. Len(Q) : ~Q[i].write} = {}
  BY <1>1
<1> QED BY <1>2, FS_EmptySet

LEMMA AllReads ==
  ASSUME NEW Q, IsSeq(Q), \A i \in 1 .. Len(Q) : ~Q[i].write
  PROVE  Cardinality({i \in 1 .. Len(Q) : ~Q[i].write}) = Len(Q)
<1>1. Len(Q) \in Nat
  BY NoneLeft
<1>2. {i \in 1 .. Len(Q) : ~Q[i].write} = 1 .. Len(Q)
  OBVIOUS
<1>3. PICK n : n = Len(Q)
  OBVIOUS
<1>4. Cardinality(1 .. n) = n
  <2>1. n \in Nat
    BY <1>1, <1>3
  <2>2. Cardinality(1 .. n) = IF 1 > n THEN 0 ELSE n - 1 + 1
    BY <2>1, FS_Interval
  <2> QED BY <2>1, <2>2
<1> QED BY <1>2, <1>3, <1>4

LEMMA LastRead ==
  ASSUME NEW Q, IsSeq(Q), NEW n \in Nat \ {0}, n = Len(Q), ~Q[n].write,
         \A i \in 1 .. n - 1 : Q[i].write
  PROVE  Cardinality({i \in 1 .. Len(Q) : ~Q[i].write}) = 1
<1>1. {i \in 1 .. Len(Q) : ~Q[i].write} = {n}
  <2>1. \A i \in 1 .. n : (~Q[i].write) <=> i = n
    <3>1. \A i \in 1 .. n : i = n \/ i \in 1 .. n - 1
      OBVIOUS
    <3> QED BY <3>1
  <2> QED BY <2>1
<1> QED BY <1>1, FS_Singleton

Gives == \A k \in 1 .. Over : Types /\ Phase(k) => Fits /\ Paired /\ AskedOnce

LEMMA WritingGives ==
  ASSUME NEW k \in {4, 14}, Types, Regs(k), Writing(k)
  PROVE  Fits /\ Paired /\ AskedOnce
<1>1. k \in 1 .. Over
  BY ProgramIs
<1>2. CASE Coming(FALSE) /\ queue = <<>> /\ burstcount = 1
  <2>1. Len(queue) = 0
    BY <1>2, NoneLeft
  <2>2. Fits
    BY <2>1, SweepAssumption DEF Fits
  <2>3. Paired /\ AskedOnce
    BY <1>2 DEF Coming, Paired, AskedOnce
  <2> QED BY <2>2, <2>3
<1>3. CASE /\ Taken(FALSE)
           /\ gap = 3 => state = "WR_REQ"
           /\ burstcount \in 1 .. avm_burstcount /\ Len(queue) <= Put
           /\ state \in {"WR_REQ", "WR_RSP", "IDLE"}
  <2>1. avm_burstcount \in Nat /\ avm_burstcount <= SweepWords /\ Len(queue) \in Nat
    BY <1>1, PlaceIs, SweepAssumption, NoneLeft DEF Types
  <2>2. PICK n, p : n = Len(queue) /\ p = Put
    OBVIOUS
  <2>3. p <= avm_burstcount /\ p \in Int
    BY <1>3, <2>1, <2>2 DEF Put
  <2>4. n <= SweepWords + 1
    BY <1>3, <2>1, <2>2, <2>3, SweepAssumption
  <2>5. Paired
    BY <1>3 DEF Paired
  <2>6. AskedOnce
    <3>1. ~asked /\ (avm_write <=> gap = 3) /\ ~avm_read
      BY <1>3 DEF Taken
    <3> QED BY <1>3, <3>1 DEF AskedOnce
  <2> QED BY <2>2, <2>4, <2>5, <2>6 DEF Fits
<1> QED BY <1>2, <1>3, Zenon DEF Writing

LEMMA AskingGives == ASSUME AskingRead PROVE Paired /\ AskedOnce
<1>1. CASE Coming(TRUE)
  BY <1>1 DEF Coming, Paired, AskedOnce
<1>2. CASE Taken(TRUE) /\ gap = 3 /\ state = "RD_REQ" /\ avs_read
  BY <1>2 DEF Taken, Paired, AskedOnce
<1> QED BY <1>1, <1>2 DEF AskingRead

LEMMA QuietGives == ASSUME Quiet PROVE Fits /\ Paired /\ AskedOnce
<1>1. Len(queue) = 0
  BY NoneLeft DEF Quiet
<1> QED BY <1>1, SweepAssumption DEF Quiet, Calm, Unasked, Fits, Paired, AskedOnce

LEMMA BackGives ==
  ASSUME NEW k \in {5, 6}, Types, Regs(k), ReadingBack(k)
  PROVE  Fits /\ Paired /\ AskedOnce
<1>0. avm_burstcount = 1 /\ IsSeq(queue) /\ burstcount = 1
  BY DEF Regs, Types, ReadingBack
<1>1. CASE Len(queue) <= 1 /\ AskingRead
  <2>1. Fits
    <3>1. Len(queue) \in Nat
      BY NoneLeft DEF Types
    <3> QED BY <1>1, <3>1, SweepAssumption DEF Fits
  <2> QED BY <1>1, <2>1, AskingGives
<1>2. CASE Quiet
  BY <1>2, QuietGives
<1>3. CASE Calm /\ state = "RD_RSP" /\ valid /\ queue = <<>>
  <2>1. Len(queue) = 0 /\ Cardinality({i \in 1 .. Len(queue) : ~queue[i].write}) = 0
    BY <1>3, NoReads, NoneLeft
  <2>2. Answers = 1
    BY <1>3, <2>1 DEF Answers, Calm
  <2>3. Fits /\ Paired
    BY <1>0, <2>1, <2>2, SweepAssumption DEF Fits, Paired
  <2> QED BY <1>3, <2>3 DEF AskedOnce, Calm, Unasked
<1>4. CASE /\ Calm /\ state = "RD_RSP" /\ ~valid /\ Len(queue) \in {1, 2}
           /\ Landing(Addr, Addr + 1, Len(queue) - 1) /\ ~queue[Len(queue)].write
  <2>1. PICK n : n = Len(queue)
    OBVIOUS
  <2>2. n \in Nat \ {0} /\ n \in {1, 2} /\ ~queue[n].write
    BY <1>4, <2>1
  <2>3. \A i \in 1 .. n - 1 : queue[i].write
    <3> SUFFICES ASSUME NEW i \in 1 .. n - 1 PROVE queue[i].write
      OBVIOUS
    <3>1. Lands(queue, mem, avm_writedata, Addr, Addr + 1, n - 1)
      BY <1>4, <2>1 DEF Landing
    <3>2. PICK u, m : u = Addr + 1 /\ m = n - 1 /\ i \in 1 .. m
      OBVIOUS
    <3>3. Lands(queue, mem, avm_writedata, Addr, u, m)
      BY <3>1, <3>2
    <3>4. queue[i] = [write |-> TRUE, at |-> u - m + i - 1, val |-> avm_writedata]
      BY <3>2, <3>3 DEF Lands
    <3> QED BY <3>4
  <2>4. Cardinality({i \in 1 .. Len(queue) : ~queue[i].write}) = 1
    BY <1>0, <2>1, <2>2, <2>3, LastRead
  <2>5. Answers = 1
    BY <1>4, <2>4 DEF Answers, Calm
  <2>6. Fits /\ Paired
    BY <1>0, <2>1, <2>2, <2>5, SweepAssumption DEF Fits, Paired
  <2> QED BY <1>4, <2>6 DEF AskedOnce, Calm, Unasked
<1> QED BY <1>1, <1>2, <1>3, <1>4, Zenon DEF ReadingBack, AnsweringBack

LEMMA BurstGives ==
  ASSUME NEW k \in {16, 17}, Types, Regs(k), ReadingBurst(k)
  PROVE  Fits /\ Paired /\ AskedOnce
<1>0. avm_burstcount = Burst /\ IsSeq(queue) /\ Burst \in Nat /\ Burst <= SweepWords
      /\ Len(queue) \in Nat
  BY PlaceAssumption, SweepAssumption, NoneLeft DEF Regs, Types
<1>1. CASE queue = <<>> /\ AskingRead
  <2>1. Fits
    <3>1. Len(queue) = 0
      BY <1>1, NoneLeft
    <3> QED BY <3>1, SweepAssumption DEF Fits
  <2> QED BY <1>1, <2>1, AskingGives
<1>2. CASE Quiet
  BY <1>2, QuietGives
<1>3. CASE /\ Calm /\ state = "RD_RSP" /\ burstcount \in 1 .. Burst
           /\ \A i \in 1 .. Len(queue) : ~queue[i].write
           /\ Len(queue) + (IF valid THEN 1 ELSE 0) = Burst - burstcount + 1
  <2>1. Cardinality({i \in 1 .. Len(queue) : ~queue[i].write}) = Len(queue)
    BY <1>0, <1>3, AllReads
  <2>2. PICK n, v : n = Len(queue) /\ v = (IF valid THEN 1 ELSE 0)
    OBVIOUS
  <2>3. n \in Nat /\ v \in {0, 1} /\ n + v = Burst - burstcount + 1
    BY <1>0, <1>3, <2>2
  <2>4. Answers = n + v
    <3>1. PICK c : c = Cardinality({i \in 1 .. Len(queue) : ~queue[i].write})
      OBVIOUS
    <3>2. Answers = c + v + (IF avs_read THEN avm_burstcount ELSE 0)
      BY <2>2, <3>1, Zenon DEF Answers
    <3>3. c = n /\ ~avs_read
      BY <1>3, <2>1, <2>2, <3>1 DEF Calm
    <3> QED BY <2>3, <3>2, <3>3
  <2>5. n <= SweepWords + 1
    BY <1>0, <1>3, <2>3, SweepAssumption
  <2>6. Fits /\ Paired
    BY <1>0, <2>2, <2>3, <2>4, <2>5 DEF Fits, Paired
  <2> QED BY <1>3, <2>6 DEF AskedOnce, Calm, Unasked
<1> QED BY <1>1, <1>2, <1>3, Zenon DEF ReadingBurst, AnsweringBurst

LEMMA SweepGives ==
  ASSUME Types, Regs(9), Sweeping
  PROVE  Fits /\ Paired /\ AskedOnce
<1>1. Len(queue) \in Nat
  BY NoneLeft DEF Types
<1>2. PICK n : n = Len(queue)
  OBVIOUS
<1>3. n <= SweepWords + 1
  <2>1. CASE SweepAhead
    BY <1>2, <2>1, NoneLeft, SweepAssumption DEF SweepAhead
  <2>2. CASE SweepWrites
    BY <1>1, <1>2, <2>2, Bounds DEF SweepWrites, Sweeping
  <2>3. CASE SweepReads
    <3>1. CASE queue = <<>>
      BY <1>2, <3>1, NoneLeft, SweepAssumption
    <3>2. CASE queue # <<>>
      <4>1. n <= SweepWords \/ n \in 1 .. SweepWords + 1
        BY <1>2, <2>3, <3>2 DEF SweepReads
      <4> QED BY <1>1, <1>2, <4>1, SweepAssumption
    <3> QED BY <3>1, <3>2
  <2>4. CASE SweepDone
    BY <1>2, <2>4, NoneLeft, SweepAssumption DEF SweepDone
  <2> QED BY <2>1, <2>2, <2>3, <2>4 DEF Sweeping
<1>4. Paired
  BY DEF Sweeping, SweepAhead, SweepWrites, SweepReads, SweepDone, Paired
<1>5. AskedOnce
  BY DEF Sweeping, Unasked, AskedOnce
<1> QED BY <1>2, <1>3, <1>4, <1>5 DEF Fits

LEMMA PhaseGives == Gives
<1> SUFFICES ASSUME NEW k \in 1 .. Over, Types, Phase(k)
             PROVE  Fits /\ Paired /\ AskedOnce
  BY DEF Gives
<1>1. CASE k \in {4, 14}
  BY <1>1, PhaseIs, WritingGives
<1>2. CASE k \in {5, 6}
  BY <1>2, PhaseIs, BackGives
<1>3. CASE k \in {16, 17}
  BY <1>3, PhaseIs, BurstGives
<1>4. CASE k = 9
  BY <1>4, PhaseIs, SweepGives
<1>5. CASE k \notin {4, 5, 6, 9, 14, 16, 17}
  BY <1>5, PhaseIs, QuietGives DEF Resting
<1> QED BY <1>1, <1>2, <1>3, <1>4, <1>5

LEMMA PhaseGivesNext == Gives'
BY PhaseGives, PTL

-----------------------------------------------------------------------------
(***************************************************************************)
(* The end of a sleep, when nothing is left to do.                         *)
(***************************************************************************)
LEMMA SleptBack == ASSUME Still, Phase(6) PROVE Phase(7)
<1>1. Regs(6) /\ ReadingBack(6) /\ 6 \in 1 .. Over /\ 7 \in 1 .. Over
  BY ProgramIs, PhaseIs
<1>2. queue = <<>> /\ ~valid /\ Len(queue) = 0
  BY NoneLeft DEF Still
<1>3. Quiet /\ mem[Addr] = Data1 /\ avm_readdata = Data1 /\ burstcount = 1
  BY <1>1, <1>2 DEF ReadingBack, AnsweringBack
<1>4. Resting(7)
  BY <1>3 DEF Resting
<1>5. Regs(7)
  BY <1>1 DEF Regs
<1> QED BY <1>1, <1>4, <1>5, PhaseIs

LEMMA SleptSweep == ASSUME Still, Phase(9) PROVE Phase(10)
<1>1. Regs(9) /\ Sweeping /\ 9 \in 1 .. Over /\ 10 \in 1 .. Over
  BY ProgramIs, PhaseIs
<1>2. queue = <<>> /\ ~valid /\ Len(queue) = 0 /\ ~avs_write /\ ~avs_read
      /\ (state = "IDLE" => (mem_testmode => addr_test_done))
  BY NoneLeft DEF Still
<1>3. Unasked /\ beat = 0 /\ burstcount = 1 /\ avm_writedata = Data1
  BY <1>1 DEF Sweeping, Regs
<1>4. SweepDone
  <2>1. ~SweepAhead
    BY <1>2 DEF SweepAhead
  <2>2. ~SweepWrites
    BY <1>2 DEF SweepWrites
  <2>3. ~SweepReads
    BY <1>2 DEF SweepReads
  <2> QED BY <1>1, <2>1, <2>2, <2>3 DEF Sweeping
<1>5. /\ state = "IDLE" /\ addr_test_done /\ address = LastWord /\ Covered(0) /\ ~mem_testmode
  BY <1>2, <1>4 DEF SweepDone
<1>6. \A a \in 0 .. LastWord : mem[a] = Data1
  <2>1. SweepWords - 0 - 1 = LastWord
    BY Bounds
  <2>2. \A a \in 0 .. SweepWords - 0 - 1 : mem[a] = Data1
    BY <1>3, <1>5 DEF Covered, Landing, Lands
  <2> QED BY <2>1, <2>2
<1>7. Quiet
  BY <1>2, <1>3, <1>5 DEF Quiet, Calm
<1>8. Resting(10)
  BY <1>3, <1>6, <1>7 DEF Resting
<1>9. Regs(10)
  BY <1>1, <1>5 DEF Regs
<1> QED BY <1>1, <1>8, <1>9, PhaseIs

LEMMA SleptBurst == ASSUME Still, Phase(14) PROVE Phase(15)
<1>1. /\ Regs(14) /\ Writing(14) /\ 14 \in 1 .. Over /\ 15 \in 1 .. Over
      /\ avm_burstcount = Burst /\ avm_writedata = Data3
  BY ProgramIs, PhaseIs DEF Regs
<1>2. queue = <<>> /\ ~valid /\ Len(queue) = 0 /\ ~avs_write /\ ~avs_read
      /\ ~mem_RDWR.en /\ ~avm_write /\ ~avm_read
      /\ state \in {"RD_RSP", "TEST_READ", "IDLE"}
  BY NoneLeft DEF Still
<1>3. ~Coming(FALSE)
  <2>1. [en |-> TRUE, rd |-> FALSE].en
    OBVIOUS
  <2> QED BY <1>2, <2>1 DEF Coming
<1>4. /\ Taken(FALSE) /\ state = "IDLE" /\ burstcount = 1 /\ beat = burstcount - 1
      /\ Landing(Addr, Addr + Put, Len(queue))
      /\ \A a \in 0 .. LastWord : ~InBurst(a) => mem[a] = Data1
  BY <1>1, <1>2, <1>3 DEF Writing
<1>5. Put = Burst /\ beat = 0
  BY <1>1, <1>4 DEF Put
<1>6. Tested
  <2> SUFFICES ASSUME NEW a \in 0 .. LastWord, InBurst(a) PROVE mem[a] = Data3
    BY <1>4 DEF Tested
  <2>1. Lands(queue, mem, Data3, Addr, Addr + Burst, 0)
    BY <1>1, <1>2, <1>4, <1>5 DEF Landing
  <2>2. PICK u : u = Addr + Burst
    OBVIOUS
  <2>3. Lands(queue, mem, Data3, Addr, u, 0)
    BY <2>1, <2>2
  <2>4. a \in Addr .. u - 0 - 1
    BY <2>2, PlaceAssumption DEF InBurst
  <2> QED BY <2>3, <2>4 DEF Lands
<1>7. Quiet
  BY <1>2, <1>4, <1>5 DEF Quiet, Calm, Unasked, Taken
<1>8. Resting(15)
  BY <1>4, <1>6, <1>7 DEF Resting
<1>9. Regs(15)
  BY <1>1 DEF Regs
<1> QED BY <1>1, <1>8, <1>9, PhaseIs

LEMMA SleptRead == ASSUME Still, Types, Phase(17) PROVE Phase(18)
<1>1. /\ Regs(17) /\ ReadingBurst(17) /\ 17 \in 1 .. Over /\ 18 \in 1 .. Over
      /\ Burst \in Nat \ {0}
  BY ProgramIs, PhaseIs, PlaceAssumption
<1>2. queue = <<>> /\ ~valid /\ Len(queue) = 0
  BY NoneLeft DEF Still
<1>3. ~(/\ burstcount \in 1 .. Burst /\ Len(queue) + (IF valid THEN 1 ELSE 0) = Burst - burstcount + 1)
  BY <1>1, <1>2
<1>4. Quiet /\ burstcount = Burst /\ Tested
  <2>1. 17 # 16
    OBVIOUS
  <2>2. AnsweringBurst /\ Tested
    BY <1>1, <2>1, Zenon DEF ReadingBurst
  <2> QED BY <1>3, <2>2, Zenon DEF AnsweringBurst
<1>5. Resting(18)
  BY <1>4 DEF Resting
<1>6. Regs(18)
  BY <1>1 DEF Regs
<1> QED BY <1>1, <1>5, <1>6, PhaseIs

LEMMA SleptLast == ASSUME Phase(19) PROVE Phase(20)
<1>1. Regs(19) /\ Resting(19) /\ 20 \in 1 .. Over
  BY RestIs, ProgramIs
<1>2. Regs(20) /\ Resting(20)
  BY <1>1 DEF Regs, Resting
<1> QED BY <1>1, <1>2, PhaseIs

(***************************************************************************)
(* Steps of the program alone, and those in reset.                         *)
(***************************************************************************)
LEMMA Unmoved ==
  ASSUME UNCHANGED <<afuVars, memVars, asked, gap>>
  PROVE  /\ \A k : Phase(k)' <=> Phase(k)
         /\ Types' <=> Types
         /\ Fits' <=> Fits
         /\ Paired' <=> Paired
         /\ AskedOnce' <=> AskedOnce
         /\ \A k : (Regs(k) /\ Resting(k))' <=> Regs(k) /\ Resting(k)
<1>1. /\ UNCHANGED <<avm_address, avm_burstcount, avm_writedata, mem_RDWR, mem_testmode,
                     avm_read, avm_write>>
      /\ UNCHANGED <<state, address, burstcount, avs_write, avs_read, addr_test_done,
                     avm_readdata, avs_waitrequest_r>>
      /\ UNCHANGED <<queue, valid, rdata, mem, beat>>
      /\ UNCHANGED <<asked, gap>>
  BY DEF afuVars, csrVars, fsmVars, memVars
<1>2. \A k : Regs(k)' <=> Regs(k)
  BY <1>1 DEF Regs
<1>3. /\ Unasked' <=> Unasked
      /\ Calm' <=> Calm
      /\ Quiet' <=> Quiet
  BY <1>1 DEF Unasked, Calm, Quiet
<1>4. /\ \A rd : Coming(rd)' <=> Coming(rd)
      /\ \A rd : Taken(rd)' <=> Taken(rd)
      /\ \A f, u, w : Landing(f, u, w)' <=> Landing(f, u, w)
      /\ Put' = Put
      /\ Tested' <=> Tested
  BY <1>1 DEF Coming, Taken, Landing, Put, Tested, InBurst
<1>5. \A k : Writing(k)' <=> Writing(k)
  BY <1>1 DEF Writing, Coming, Taken, Landing, Put, InBurst
<1>6. /\ AskingRead' <=> AskingRead
      /\ AnsweringBack' <=> AnsweringBack
      /\ AnsweringBurst' <=> AnsweringBurst
  BY <1>1, <1>3 DEF AskingRead, Coming, Taken, AnsweringBack, AnsweringBurst, Landing
<1>7. \A k : ReadingBack(k)' <=> ReadingBack(k)
  BY <1>1, <1>6 DEF ReadingBack, Landing
<1>8. \A k : ReadingBurst(k)' <=> ReadingBurst(k)
  BY <1>1, <1>4, <1>6 DEF ReadingBurst
<1>9. Sweeping' <=> Sweeping
  BY <1>1, <1>3 DEF Sweeping, SweepAhead, SweepWrites, SweepReads, SweepDone, Covered, Landing
<1>10. \A k : Resting(k)' <=> Resting(k)
  BY <1>1, <1>3, <1>4 DEF Resting
<1>11. \A k : Phase(k)' <=> Phase(k)
  BY <1>2, <1>5, <1>7, <1>8, <1>9, <1>10 DEF Phase
<1>12. /\ Types' <=> Types
       /\ Fits' <=> Fits
       /\ Paired' <=> Paired
       /\ AskedOnce' <=> AskedOnce
  BY <1>1 DEF Types, Fits, Paired, Answers, AskedOnce
<1> QED BY <1>2, <1>10, <1>11, <1>12

-----------------------------------------------------------------------------
(***************************************************************************)
(* The invariant is inductive.  Accesses are four clocks apart at least,   *)
(* and the bridge has room for a word more than the sweep.                 *)
(***************************************************************************)
Setup == Sleeping /\ MmioGap >= 4 /\ Room

LEMMA OpIs ==
  ASSUME NEW i \in 1 .. Over - 1
  PROVE  /\ Prog[i].op = "write" => i \in {1, 2, 3, 4, 8, 11, 12, 13, 15}
         /\ Prog[i].op = "read" => i \in {5, 7, 16}
         /\ Prog[i].op = "poll" => i \in {10, 18}
         /\ Prog[i].op = "sleep" => i \in {6, 9, 14, 17, 19}
<1>1. i \in 1 .. 19
  BY ProgramIs
<1>2. CASE i \in {1, 2, 3, 4, 8, 11, 12, 13, 15}
  <2>1. Prog[i].op = "write"
    BY <1>2, ProgramIs DEF Wr
  <2> QED BY <1>2, <2>1
<1>3. CASE i \in {5, 7, 16}
  <2>1. Prog[i].op = "read"
    BY <1>3, ProgramIs DEF Rd
  <2> QED BY <1>3, <2>1
<1>4. CASE i \in {10, 18}
  <2>1. Prog[i].op = "poll"
    BY <1>4, ProgramIs DEF Poll
  <2> QED BY <1>4, <2>1
<1>5. CASE i \in {6, 9, 14, 17, 19}
  <2>1. Prog[i].op = "sleep"
    BY <1>5, ProgramIs DEF Sleep
  <2> QED BY <1>5, <2>1
<1> QED BY <1>1, <1>2, <1>3, <1>4, <1>5

LEMMA MemInit == Init => MemIInv
<1> SUFFICES ASSUME Init PROVE MemIInv
  OBVIOUS
<1>1. /\ ip = 1 /\ resetting = TRUE /\ gap = 0 /\ errors = 0 /\ queue = <<>> /\ asked = FALSE
      /\ state = "IDLE" /\ ~avm_write /\ ~avm_read /\ ~avs_waitrequest_r
      /\ mem = [a \in 0 .. LastWord |-> Nothing]
  BY DEF Init, AfuInit
<1>2. Flow
  BY <1>1, ProgramIs, GapAssumption DEF Flow
<1>3. Types
  BY <1>1, NoneLeft DEF Types
<1>4. Fits
  <2>1. Len(queue) = 0
    BY <1>1, NoneLeft
  <2> QED BY <2>1, SweepAssumption DEF Fits
<1>5. ProgInv /\ Paired /\ AskedOnce
  BY <1>1 DEF ProgInv, Paired, AskedOnce
<1> QED BY <1>2, <1>3, <1>4, <1>5 DEF MemIInv

(* A read and a write are never put to the bridge at once.                 *)
LEMMA OneAtATime == ASSUME NEW k \in 1 .. Over, Phase(k) PROVE ~(avs_write /\ avs_read)
<1>1. k \in {4, 14} => ~avs_read
  BY PhaseIs DEF Writing
<1>2. k \in {5, 6} => ~avs_write
  BY PhaseIs DEF ReadingBack
<1>3. k \in {16, 17} => ~avs_write
  BY PhaseIs DEF ReadingBurst
<1>4. k = 9 => ~(avs_write /\ avs_read)
  BY PhaseIs DEF Sweeping, SweepAhead, SweepWrites, SweepReads, SweepDone
<1>5. k \notin {4, 5, 6, 9, 14, 16, 17} => ~avs_read
  BY PhaseIs DEF Resting, Quiet, Calm
<1> QED BY <1>1, <1>2, <1>3, <1>4, <1>5

LEMMA TypesOn ==
  ASSUME NEW rx, NEW serves, Edge(rx, serves), Types, NEW k \in 1 .. Over, Regs(k), Phase(k)
  PROVE  Types'
<1>1. IsSeq(Left(queue, serves))
  BY QueueIs
<1>2. IsSeq(Command)
  <2>1. CASE avs_write
    <3>1. Command = << [write |-> TRUE, at |-> avs_address + beat, val |-> avm_writedata] >>
      BY <2>1, OneAtATime, Zenon DEF Command
    <3>2. IsSeq(<< [write |-> TRUE, at |-> avs_address + beat, val |-> avm_writedata] >>)
      BY Tuples, Zenon
    <3> QED BY <3>1, <3>2, Zenon
  <2>2. CASE ~avs_write /\ avs_read
    BY <2>2, PlaceIs, ReadsPut
  <2>3. CASE ~avs_write /\ ~avs_read
    BY <2>3, NoCommand
  <2> QED BY <2>1, <2>2, <2>3
<1>3. IsSeq(queue')
  <2>1. queue' = Left(queue, serves) \o Command
    BY DEF Edge
  <2>2. IsSeq(Left(queue, serves) \o Command)
    BY <1>1, <1>2, Joined, Zenon
  <2> QED BY <2>1, <2>2, Zenon
<1>4. DOMAIN mem' = 0 .. LastWord
  BY DEF Edge, Stored, Types
<1>5. ~avs_waitrequest_r'
  BY FsmMoves
<1> QED BY <1>3, <1>4, <1>5 DEF Types, IsSeq

(* While it is not in reset, the program is in a phase.                    *)
LEMMA InPhase ==
  ASSUME MemIInv, ~resetting
  PROVE  \E k \in 1 .. Over : Phase(k) /\ Regs(k) /\ (errors = 0 => k = ip)
<1>1. \E k \in 1 .. Over : Phase(k) /\ (errors = 0 => k = ip)
  BY DEF MemIInv, ProgInv, Flow
<1>2. \A k : Phase(k) => Regs(k)
  BY DEF Phase
<1> QED BY <1>1, <1>2

LEMMA StaysIn ==
  ASSUME Flow', Types', ~resetting', NEW k \in 1 .. Over, Phase(k)', errors' = 0 => k = ip'
  PROVE  MemIInv'
<1>1. Fits' /\ Paired' /\ AskedOnce'
  BY PhaseGivesNext DEF Gives
<1>2. ProgInv'
  BY DEF ProgInv, Flow
<1> QED BY <1>1, <1>2 DEF MemIInv

LEMMA TickKeeps == ASSUME Setup, MemIInv, Tick PROVE MemIInv'
<1>1. PICK k \in 1 .. Over : Phase(k) /\ Regs(k) /\ (errors = 0 => k = ip)
  BY InPhase DEF Tick
<1>2. PICK serves \in BOOLEAN : Edge(NoReq, serves)
  BY Clocks DEF Tick, Setup, MemIInv
<1>3. Types /\ Flow
  BY DEF MemIInv
<1>4. Spaced /\ GapOn
  BY <1>3 DEF Spaced, GapOn, Setup, Flow, Tick
<1>5. Phase(k)'
  BY <1>1, <1>2, <1>3, <1>4, PhaseTicks
<1>6. Types'
  BY <1>1, <1>2, <1>3, TypesOn
<1>7. gap' \in 1 .. MmioGap
  BY <1>4, GapAssumption DEF Spaced, GapOn
<1>8. UNCHANGED <<ip, resetting, errors, data>> /\ ~resetting
  BY DEF Tick
<1>9. Flow'
  <2>1. gap' > 0 /\ gap' \in 0 .. MmioGap
    BY <1>7, GapAssumption
  <2> QED BY <1>3, <1>8, <2>1 DEF Flow
<1> QED BY <1>1, <1>5, <1>6, <1>8, <1>9, StaysIn

LEMMA AccessIs ==
  ASSUME Setup, MemIInv, NEW op, Access(op), NEW rx, Clock(rx)
  PROVE  /\ \E serves \in BOOLEAN : Edge(rx, serves)
         /\ ~resetting /\ errors = 0 /\ ip \in 1 .. Over - 1 /\ Phase(ip) /\ Types'
         /\ Types /\ Flow /\ Spaced /\ gap = MmioGap /\ gap' = 1
         /\ Prog[ip].op = op
<1>1. /\ ~resetting /\ ip < Over /\ gap = MmioGap /\ gap' = 1 /\ Prog[ip].op = op
  BY DEF Access, Reaches, Instr
<1>2. Types /\ Flow /\ Fits
  BY DEF MemIInv
<1>3. errors = 0 /\ ip \in 1 .. Over - 1
  BY <1>1, <1>2, ProgramIs DEF Flow
<1>4. Spaced
  BY <1>1, <1>2 DEF Spaced, Setup, Flow
<1>5. PICK serves \in BOOLEAN : Edge(rx, serves)
  BY <1>2, Clocks DEF Setup
<1>6. Phase(ip) /\ Regs(ip)
  BY <1>1, <1>3, InPhase
<1>7. Types'
  <2>1. ip \in 1 .. Over
    BY <1>2 DEF Flow
  <2> QED BY <1>2, <1>5, <1>6, <2>1, TypesOn
<1> QED BY <1>1, <1>2, <1>3, <1>4, <1>5, <1>6, <1>7

LEMMA AccessStays ==
  ASSUME Flow, ~resetting, errors = 0, gap' = 1, Types', UNCHANGED <<resetting, errors>>,
         NEW k \in 1 .. Over, ip' = k, Phase(k)', k = 8 => data' = Data1
  PROVE  MemIInv'
<1>1. gap' \in 0 .. MmioGap /\ gap' > 0
  BY GapAssumption
<1>2. Flow'
  BY <1>1, ProgramIs DEF Flow
<1> QED BY <1>2, StaysIn

LEMMA WriteKeeps == ASSUME Setup, MemIInv, Write PROVE MemIInv'
<1> DEFINE rx == Req(Prog[ip].reg, Prog[ip].val)
<1>1. Access("write") /\ Clock(rx) /\ ip' = ip + 1 /\ UNCHANGED <<resetting, errors, data>>
  BY DEF Write, Req, Instr
<1> HIDE DEF rx
<1>2. /\ \E serves \in BOOLEAN : Edge(rx, serves)
      /\ ~resetting /\ errors = 0 /\ ip \in 1 .. Over - 1 /\ Phase(ip) /\ Types'
      /\ Types /\ Flow /\ Spaced /\ gap = MmioGap /\ gap' = 1 /\ Prog[ip].op = "write"
  BY <1>1, AccessIs
<1>3. PICK serves \in BOOLEAN : Edge(rx, serves)
  BY <1>2
<1>4. ip \in {1, 2, 3, 4, 8, 11, 12, 13, 15}
  BY <1>2, OpIs
<1>5. PICK i : i = ip
  OBVIOUS
<1>6. i \in {1, 2, 3, 4, 8, 11, 12, 13, 15} /\ Phase(i) /\ Edge(Req(Prog[i].reg, Prog[i].val), serves)
      /\ ip' = i + 1 /\ i + 1 # 8 /\ i + 1 \in 1 .. Over
  BY <1>1, <1>2, <1>3, <1>4, <1>5, ProgramIs DEF rx
<1>7. Phase(i + 1)'
  <2>1. CASE i \in {1, 2}
    <3>1. /\ Prog[1].reg = "MEM_ADDRESS" /\ Prog[1].val = Addr
          /\ Prog[2].reg = "MEM_WRDATA" /\ Prog[2].val = Data1
      BY ProgramIs DEF Wr
    <3>2. i = 1 => Phase(2)'
      BY <1>2, <1>6, <3>1, FirstPlaces
    <3>3. i = 2 => Phase(3)'
      BY <1>2, <1>6, <3>1, FirstPlaces
    <3>4. 1 + 1 = 2 /\ 2 + 1 = 3
      OBVIOUS
    <3> QED BY <2>1, <3>2, <3>3, <3>4
  <2>2. CASE i \in {8, 11, 12}
    <3>1. /\ Prog[8].reg = "MEM_ADDR_TESTMODE" /\ Prog[8].val = TRUE
          /\ Prog[11].reg = "MEM_WRDATA" /\ Prog[11].val = Data3
          /\ Prog[12].reg = "MEM_BURSTCOUNT" /\ Prog[12].val = Burst
      BY ProgramIs DEF Wr
    <3>2. i = 8 => Phase(9)'
      <4> SUFFICES ASSUME i = 8 PROVE Phase(9)'
        OBVIOUS
      <4>1. Edge(Req("MEM_ADDR_TESTMODE", TRUE), serves) /\ Phase(8)
        BY <1>6, <3>1, Zenon
      <4> QED BY <1>2, <4>1, SecondPlaces, Zenon
    <3>3. i = 11 => Phase(12)'
      BY <1>2, <1>6, <3>1, SecondPlaces
    <3>4. i = 12 => Phase(13)'
      BY <1>2, <1>6, <3>1, SecondPlaces
    <3>5. 8 + 1 = 9 /\ 11 + 1 = 12 /\ 12 + 1 = 13
      OBVIOUS
    <3> QED BY <2>2, <3>2, <3>3, <3>4, <3>5
  <2>3. CASE i \in {3, 13, 15}
    <3>1. /\ Prog[3].reg = "MEM_RDWR" /\ Prog[3].val = DoWrite
          /\ Prog[13].reg = "MEM_RDWR" /\ Prog[13].val = DoWrite
          /\ Prog[15].reg = "MEM_RDWR" /\ Prog[15].val = DoRead
      BY ProgramIs DEF Wr
    <3>2. i = 3 => Phase(4)'
      BY <1>2, <1>6, <3>1, Requests
    <3>3. i = 13 => Phase(14)'
      BY <1>2, <1>6, <3>1, Requests
    <3>4. i = 15 => Phase(16)'
      BY <1>2, <1>6, <3>1, Requests
    <3>5. 3 + 1 = 4 /\ 13 + 1 = 14 /\ 15 + 1 = 16
      OBVIOUS
    <3> QED BY <2>3, <3>2, <3>3, <3>4, <3>5
  <2>4. CASE i = 4
    <3>1. Prog[4].reg = "MEM_RDWR" /\ Prog[4].val = DoRead
      BY ProgramIs DEF Wr
    <3>2. Phase(5)'
      BY <1>2, <1>6, <2>4, <3>1, BusyAccesses
    <3>3. 4 + 1 = 5
      OBVIOUS
    <3> QED BY <2>4, <3>2, <3>3
  <2> QED BY <1>6, <2>1, <2>2, <2>3, <2>4
<1> QED BY <1>1, <1>2, <1>6, <1>7, AccessStays

LEMMA ReadKeeps == ASSUME Setup, MemIInv, Read PROVE MemIInv'
<1> DEFINE rx == [op |-> "read", reg |-> Prog[ip].reg]
<1>1. /\ Access("read") /\ Clock(rx) /\ ip' = ip + 1 /\ UNCHANGED <<resetting, errors>>
      /\ data' = IF Prog[ip].reg = "MEM_RDDATA" THEN ReadValue(Prog[ip].reg) ELSE data
  BY DEF Read, Instr
<1>0. Mute(rx)
  BY Mutes
<1> HIDE DEF rx
<1>2. /\ \E serves \in BOOLEAN : Edge(rx, serves)
      /\ ~resetting /\ errors = 0 /\ ip \in 1 .. Over - 1 /\ Phase(ip) /\ Types'
      /\ Types /\ Flow /\ Spaced /\ gap = MmioGap /\ gap' = 1 /\ Prog[ip].op = "read"
  BY <1>1, AccessIs
<1>3. PICK serves \in BOOLEAN : Edge(rx, serves)
  BY <1>2
<1>4. ip \in {5, 7, 16}
  BY <1>2, OpIs
<1>5. CASE ip = 5
  <2>1. Phase(6)'
    BY <1>0, <1>2, <1>3, <1>5, BusyAccesses
  <2>2. ip' = 6 /\ 6 \in 1 .. Over
    BY <1>1, <1>5, ProgramIs
  <2> QED BY <1>1, <1>2, <2>1, <2>2, AccessStays
<1>6. CASE ip = 16
  <2>1. Phase(17)'
    BY <1>0, <1>2, <1>3, <1>6, BusyAccesses
  <2>2. ip' = 17 /\ 17 \in 1 .. Over
    BY <1>1, <1>6, ProgramIs
  <2> QED BY <1>1, <1>2, <2>1, <2>2, AccessStays
<1>7. CASE ip = 7
  <2>1. Phase(8)' /\ avm_readdata = Data1
    BY <1>0, <1>2, <1>3, <1>7, RestReads
  <2>2. ip' = 8 /\ 8 \in 1 .. Over
    BY <1>1, <1>7, ProgramIs
  <2>3. data' = Data1
    <3>1. Prog[7].reg = "MEM_RDDATA"
      BY ProgramIs DEF Rd
    <3> QED BY <1>1, <1>7, <2>1, <3>1 DEF ReadValue
  <2> QED BY <1>1, <1>2, <2>1, <2>2, <2>3, AccessStays
<1> QED BY <1>4, <1>5, <1>6, <1>7

LEMMA PollKeeps == ASSUME Setup, MemIInv, PollOnce PROVE MemIInv'
<1> DEFINE rx == [op |-> "read", reg |-> Prog[ip].reg]
<1>1. /\ Access("poll") /\ Clock(rx) /\ UNCHANGED <<resetting, errors, data>>
      /\ ip' = ip + 1 \/ ip' = ip
  BY DEF PollOnce, Instr
<1>0. Mute(rx)
  BY Mutes
<1> HIDE DEF rx
<1>2. /\ \E serves \in BOOLEAN : Edge(rx, serves)
      /\ ~resetting /\ errors = 0 /\ ip \in 1 .. Over - 1 /\ Phase(ip) /\ Types'
      /\ Types /\ Flow /\ Spaced /\ gap = MmioGap /\ gap' = 1 /\ Prog[ip].op = "poll"
  BY <1>1, AccessIs
<1>3. PICK serves \in BOOLEAN : Edge(rx, serves)
  BY <1>2
<1>4. ip \in {10, 18}
  BY <1>2, OpIs
<1>5. CASE ip = 10
  <2>1. Phase(10)' /\ Phase(11)'
    BY <1>0, <1>2, <1>3, <1>5, RestReads
  <2>2. ip' \in {10, 11} /\ 10 \in 1 .. Over /\ 11 \in 1 .. Over
    BY <1>1, <1>5, ProgramIs
  <2> QED BY <1>1, <1>2, <2>1, <2>2, AccessStays
<1>6. CASE ip = 18
  <2>1. Phase(18)' /\ Phase(19)'
    BY <1>0, <1>2, <1>3, <1>6, RestReads
  <2>2. ip' \in {18, 19} /\ 18 \in 1 .. Over /\ 19 \in 1 .. Over
    BY <1>1, <1>6, ProgramIs
  <2> QED BY <1>1, <1>2, <2>1, <2>2, AccessStays
<1> QED BY <1>4, <1>5, <1>6

LEMMA SleepKeeps == ASSUME Setup, MemIInv, SleepOver PROVE MemIInv'
<1>1. /\ ~resetting /\ ip < Over /\ Prog[ip].op = "sleep" /\ Still /\ ip' = ip + 1
      /\ UNCHANGED <<afuVars, memVars, asked, gap>>
      /\ UNCHANGED <<resetting, errors, data>>
  BY DEF SleepOver, Reaches, Setup, Instr
<1>2. Flow /\ Types
  BY DEF MemIInv
<1>3. errors = 0 /\ ip \in 1 .. Over - 1
  BY <1>1, <1>2, ProgramIs DEF Flow
<1>4. Phase(ip)
  BY <1>1, <1>3, InPhase
<1>5. ip \in {6, 9, 14, 17, 19}
  BY <1>1, <1>3, OpIs
<1>6. /\ ip = 6 => Phase(7)
      /\ ip = 9 => Phase(10)
      /\ ip = 14 => Phase(15)
      /\ ip = 17 => Phase(18)
      /\ ip = 19 => Phase(20)
  BY <1>1, <1>2, <1>4, SleptBack, SleptSweep, SleptBurst, SleptRead, SleptLast
<1>7. PICK k : k = ip + 1
  OBVIOUS
<1>8. k \in 1 .. Over /\ Phase(k) /\ k # 8
  BY <1>5, <1>6, <1>7, ProgramIs
<1>9. Types' /\ Phase(k)'
  BY <1>1, <1>2, <1>8, Unmoved
<1>10. Flow'
  <2>1. gap' \in 0 .. MmioGap /\ gap' > 0 /\ ip' = k
    BY <1>1, <1>2, <1>7 DEF Flow
  <2> QED BY <1>1, <1>2, <1>3, <1>8, <2>1, ProgramIs DEF Flow
<1> QED BY <1>1, <1>7, <1>8, <1>9, <1>10, StaysIn

LEMMA FailKeeps == ASSUME Setup, MemIInv, Fail PROVE MemIInv'
<1>1. /\ ~resetting /\ ip < Over /\ errors = 0 /\ errors' = 1 /\ ip' = Over
      /\ UNCHANGED <<afuVars, memVars, asked, gap>>
      /\ UNCHANGED <<resetting, data>>
  BY DEF Fail, Reaches
<1>2. Flow /\ Types
  BY DEF MemIInv
<1>3. PICK k \in 1 .. Over : Phase(k)
  BY <1>1, InPhase
<1>4. Types' /\ Phase(k)'
  BY <1>1, <1>2, <1>3, Unmoved
<1>5. Flow'
  BY <1>1, <1>2, ProgramIs DEF Flow
<1> QED BY <1>1, <1>4, <1>5, StaysIn

(* The next program resets the AFU, whatever it has left to do.            *)
LEMMA RestartKeeps == ASSUME Setup, MemIInv, Restart PROVE MemIInv'
<1>1. /\ ip' = 1 /\ resetting' = TRUE /\ errors' = 0 /\ gap' = 0
      /\ UNCHANGED <<afuVars, memVars, asked>>
  BY DEF Restart
<1>2. /\ UNCHANGED <<avm_burstcount, mem_RDWR, avm_read, avm_write>>
      /\ UNCHANGED <<state, burstcount, avs_read, avs_waitrequest_r>>
      /\ UNCHANGED <<queue, valid, mem, asked>>
  BY <1>1 DEF afuVars, csrVars, fsmVars, memVars
<1>3. Types' /\ Fits' /\ Paired' /\ AskedOnce'
  BY <1>2 DEF MemIInv, Types, IsSeq, Fits, Paired, Answers, AskedOnce
<1>4. Flow' /\ ProgInv'
  BY <1>1, ProgramIs, GapAssumption DEF Flow, ProgInv
<1> QED BY <1>3, <1>4 DEF MemIInv

LEMMA ResetTickKeeps == ASSUME Setup, MemIInv, ResetTick PROVE MemIInv'
<1>1. /\ resetting /\ CsrReset /\ FsmReset /\ avs_waitrequest_r' = FALSE
      /\ queue' = <<>> /\ valid' = FALSE /\ beat' = 0 /\ mem' = mem /\ asked' = FALSE
      /\ gap' = IF gap < MmioGap THEN gap + 1 ELSE gap
      /\ UNCHANGED <<ip, resetting, errors, data>>
  BY DEF ResetTick, Clk
<1>2. Flow /\ Types
  BY DEF MemIInv
<1>3. gap' \in 0 .. MmioGap
  BY <1>1, <1>2, GapAssumption DEF Flow
<1>4. Flow'
  BY <1>1, <1>2, <1>3 DEF Flow
<1>5. Types'
  BY <1>1, <1>2, NoneLeft DEF Types
<1>6. Regs(1)'
  BY <1>1 DEF CsrReset, FsmReset, Regs
<1>7. Quiet' /\ burstcount' = 1
  BY <1>1 DEF CsrReset, FsmReset, Quiet, Calm, Unasked, Idle
<1>8. Resting(1)'
  BY <1>7 DEF Resting
<1>9. 1 \in 1 .. Over /\ Phase(1)'
  BY <1>6, <1>8, PhaseIs, ProgramIs
<1>10. Fits' /\ Paired' /\ AskedOnce'
  BY <1>5, <1>9, PhaseGivesNext DEF Gives
<1>11. ProgInv'
  BY <1>1, <1>6, <1>8 DEF ProgInv
<1> QED BY <1>4, <1>5, <1>10, <1>11 DEF MemIInv

LEMMA ResetOverKeeps == ASSUME Setup, MemIInv, ResetOver PROVE MemIInv'
<1>1. /\ resetting /\ gap = MmioGap /\ resetting' = FALSE
      /\ UNCHANGED <<afuVars, memVars, asked, gap>>
      /\ UNCHANGED <<ip, errors, data>>
  BY DEF ResetOver
<1>2. Flow /\ Types /\ ip = 1 /\ gap > 0
  BY <1>1, GapAssumption DEF MemIInv, Flow
<1>3. Regs(1) /\ Resting(1)
  BY <1>1, <1>2 DEF MemIInv, ProgInv
<1>4. 1 \in 1 .. Over /\ Phase(1)
  BY <1>3, PhaseIs, ProgramIs
<1>5. Types' /\ Phase(1)'
  BY <1>1, <1>2, <1>4, Unmoved
<1>6. Flow'
  BY <1>1, <1>2 DEF Flow
<1> QED BY <1>1, <1>2, <1>4, <1>5, <1>6, StaysIn

LEMMA StutterKeeps == ASSUME MemIInv, UNCHANGED vars PROVE MemIInv'
<1>1. /\ UNCHANGED <<afuVars, memVars, asked, gap>>
      /\ UNCHANGED <<ip, resetting, errors, data>>
  BY DEF vars, progVars
<1>2. /\ \A k : Phase(k)' <=> Phase(k)
      /\ Types' <=> Types
      /\ Fits' <=> Fits
      /\ Paired' <=> Paired
      /\ AskedOnce' <=> AskedOnce
      /\ \A k : (Regs(k) /\ Resting(k))' <=> Regs(k) /\ Resting(k)
  BY <1>1, Unmoved
<1>3. Flow'
  BY <1>1 DEF MemIInv, Flow
<1>4. ProgInv'
  BY <1>1, <1>2 DEF MemIInv, ProgInv
<1> QED BY <1>2, <1>3, <1>4 DEF MemIInv

LEMMA MemStep == ASSUME Setup PROVE MemIInv /\ [Next]_vars => MemIInv'
<1> SUFFICES ASSUME MemIInv, [Next]_vars PROVE MemIInv'
  OBVIOUS
<1>1. CASE Tick
  BY <1>1, TickKeeps
<1>2. CASE ResetTick
  BY <1>2, ResetTickKeeps
<1>3. CASE Write
  BY <1>3, WriteKeeps
<1>4. CASE Read
  BY <1>4, ReadKeeps
<1>5. CASE PollOnce
  BY <1>5, PollKeeps
<1>6. CASE SleepOver
  BY <1>6, SleepKeeps
<1>7. CASE ResetOver
  BY <1>7, ResetOverKeeps
<1>8. CASE Restart
  BY <1>8, RestartKeeps
<1>9. CASE Fail
  BY <1>9, FailKeeps
<1>10. CASE UNCHANGED vars
  BY <1>10, StutterKeeps
<1> QED
  BY <1>1, <1>2, <1>3, <1>4, <1>5, <1>6, <1>7, <1>8, <1>9, <1>10 DEF Next, ProgStep

(***************************************************************************)
(* The test goes through its phases: what the AFU, the bridge and the      *)
(* memory hold is what the program has come to.                            *)
(***************************************************************************)
THEOREM MemPhases ==
  ASSUME Sleeping, MmioGap >= 4, Cap >= SweepWords + 2 PROVE Spec => []MemIInv
<1>1. Setup
  BY DEF Setup, Room
<1>2. Init => MemIInv
  BY MemInit
<1>3. MemIInv /\ [Next]_vars => MemIInv'
  BY <1>1, MemStep
<1> QED BY <1>2, <1>3, PTL DEF Spec

(***************************************************************************)
(* hello_mem_afu does not look at waitrequest while it writes a burst, and *)
(* sees it a clock late while it sweeps: with room in the bridge for the   *)
(* sweep and two commands more it is never raised, so nothing is lost.     *)
(***************************************************************************)
THEOREM BridgeNeverFull ==
  ASSUME Sleeping, MmioGap >= 4, Cap >= SweepWords + 2 PROVE Spec => []CommandsFit
<1>1. Spec => []MemIInv
  BY MemPhases
<1>2. MemIInv => CommandsFit
  BY HasRoom DEF Room, MemIInv, CommandsFit
<1> QED BY <1>1, <1>2, PTL

(***************************************************************************)
(* The answers on their way are those the master still counts, and none    *)
(* comes late, for whatever burst.                                         *)
(***************************************************************************)
THEOREM AnswersAreItsOwn ==
  ASSUME Sleeping, MmioGap >= 4, Cap >= SweepWords + 2 PROVE Spec => []AnswersPaired
<1>1. Spec => []MemIInv
  BY MemPhases
<1>2. MemIInv => AnswersPaired
  <2> SUFFICES ASSUME MemIInv PROVE AnswersPaired
    OBVIOUS
  <2>1. state = "RD_RSP" => Answers = avm_burstcount - burstcount + 1
    BY DEF MemIInv, Paired
  <2>2. ASSUME state = "IDLE", ip > BurstSlept, errors = 0 PROVE Answers = 0
    <3>1. ~resetting /\ ip \in 15 .. 20 /\ ip \in 1 .. Over
      BY <2>2, ProgramIs DEF MemIInv, Flow
    <3>2. Phase(ip)
      BY <2>2, <3>1, InPhase
    <3>3. queue = <<>> /\ ~valid /\ ~avs_read
      <4>1. CASE ip \in {16, 17}
        <5>1. ReadingBurst(ip)
          BY <3>1, <3>2, <4>1, PhaseIs
        <5> QED BY <2>2, <5>1 DEF ReadingBurst, AskingRead, Coming, AnsweringBurst, Quiet, Calm
      <4>2. CASE ip \notin {16, 17}
        <5>1. ip \notin {4, 5, 6, 9, 14, 16, 17}
          BY <3>1, <4>2
        <5>2. Resting(ip)
          BY <3>1, <3>2, <5>1, PhaseIs
        <5> QED BY <5>2 DEF Resting, Quiet, Calm
      <4> QED BY <4>1, <4>2
    <3>4. Cardinality({i \in 1 .. Len(queue) : ~queue[i].write}) = 0
      BY <3>3, NoReads
    <3> QED BY <3>3, <3>4 DEF Answers
  <2> QED BY <2>1, <2>2 DEF AnswersPaired
<1> QED BY <1>1, <1>2, PTL

(***************************************************************************)
(* The memory holds what the tests have written: the sweep has covered     *)
(* every address, and the burst is where it should be and nowhere else.    *)
(***************************************************************************)
THEOREM MemoryHoldsTheTests ==
  ASSUME Sleeping, MmioGap >= 4, Cap >= SweepWords + 2 PROVE Spec => []AsTested
<1>1. Spec => []MemIInv
  BY MemPhases
<1>2. MemIInv => AsTested
  <2> SUFFICES ASSUME MemIInv, errors = 0, ~resetting
               PROVE  /\ ip = Checked => mem[Addr] = Data1
                      /\ ip = Checked + 1 => data = Data1
                      /\ ip = Swept => \A a \in 0 .. LastWord : mem[a] = Data1
                      /\ ip > BurstSlept => Tested
    BY Zenon DEF AsTested, Tested
  <2>1. ip \in 1 .. 20 /\ ip \in 1 .. Over /\ Flow
    BY ProgramIs DEF MemIInv, Flow
  <2>2. Phase(ip)
    BY <2>1, InPhase
  <2>3. ip = 7 => mem[Addr] = Data1
    BY <2>2, RestIs DEF Resting
  <2>4. ip = 10 => \A a \in 0 .. LastWord : mem[a] = Data1
    BY <2>2, RestIs DEF Resting
  <2>5. ip > 14 => Tested
    <3>1. CASE ip \in {16, 17}
      BY <2>1, <2>2, <3>1, PhaseIs DEF ReadingBurst
    <3>2. CASE ip \in {15, 18, 19, 20}
      BY <2>2, <3>2, RestIs DEF Resting
    <3> QED BY <2>1, <3>1, <3>2
  <2> QED BY <2>1, <2>3, <2>4, <2>5, ProgramIs DEF Flow
<1> QED BY <1>1, <1>2, PTL

(***************************************************************************)
(* A request is started once: none is left when the master has nothing to  *)
(* do, and it starts nothing that was not asked for.                       *)
(***************************************************************************)
THEOREM RequestsStartOnce ==
  ASSUME Sleeping, MmioGap >= 4, Cap >= SweepWords + 2 PROVE Spec => StartedOnce
<1>1. Spec => []MemIInv
  BY MemPhases
<1>2. MemIInv => (Still => ~asked)
  BY DEF MemIInv, AskedOnce, Still
<1>3. MemIInv /\ [Next]_vars => [Starts => asked]_vars
  <2> SUFFICES ASSUME MemIInv, Next, Starts PROVE asked
    OBVIOUS
  <2>1. avm_write \/ avm_read
    <3>1. CASE \E rx : Clk(FALSE, rx, valid, rdata, avs_waitrequest)
      <4>1. FsmIdle
        BY <3>1 DEF Clk, Starts, FsmIdle, FsmTestWrite, FsmTestRead, FsmWrReq, FsmWrRsp,
                    FsmRdReq, FsmRdRsp
      <4> QED BY <4>1 DEF FsmIdle, Starts
    <3>2. CASE ResetTick
      BY <3>2 DEF ResetTick, Clk, FsmReset, Starts
    <3>3. CASE UNCHANGED afuVars
      BY <3>3 DEF afuVars, fsmVars, Starts
    <3> QED BY <3>1, <3>2, <3>3 DEF Next, ProgStep, Tick, Write, Read, PollOnce, Clock, SleepOver,
                                    ResetOver, Restart, Fail
  <2> QED BY <2>1 DEF MemIInv, AskedOnce, Starts
<1> QED BY <1>1, <1>2, <1>3, PTL DEF Spec, StartedOnce
=============================================================================
