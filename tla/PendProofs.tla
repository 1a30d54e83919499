----------------------------- MODULE PendProofs -----------------------------
(***************************************************************************)
(* The requestor's counters of pending lines are exact, and bit 11 is      *)
(* never set, for every threshold, width and packet length that leave the  *)
(* room the assumption TopAssumption names.                                *)
(***************************************************************************)
EXTENDS PendTracker, Integers, TLAPS

(* The run: only the clock of the status write is both running and over.   *)
RunInv ==
  /\ re2xy_go /\ status_write => c1 = 1
  /\ ~test_Reset_n => ~re2xy_go /\ (1 <= low => ~status_write)

(* In reset nothing is sent or owed, and the pipelines drain in two clocks. *)
RdQuiet ==
  ~test_Reset_n =>
    /\ c0 = 0 /\ rdout = 0 /\ tx_c0 = 0 /\ rx_c0_T1 = 0
    /\ 1 <= low => tx_c0_q = 0 /\ rx_c0 = 0 /\ Num_RdPend = 0
    /\ 2 <= low => rx_c0_q = 0

WrQuiet ==
  ~test_Reset_n =>
    /\ c1 = 0 /\ wrout = 0 /\ tx_c1 = 0 /\ rx_c1_T1 = 0
    /\ 1 <= low => tx_c1_q = 0 /\ rx_c1 = 0 /\ Num_WrPend = 0
    /\ 2 <= low => num_wr_recvd = 0

(* The counters are exact until a clock of reset has cleared them; what    *)
(* was sent in the clock before the last is still owed in full.            *)
RdCounts == tx_c0 <= rdout /\ (test_Reset_n \/ low = 0 => RdExact)
WrCounts == tx_c1 <= wrout /\ (test_Reset_n \/ low = 0 => WrExact)

(* What is counted and what will be; the threshold is a clock old.         *)
RdTotal == Num_RdPend + tx_c0_q + tx_c0 + c0 + RdHdr_valid_q
WrTotal == Num_WrPend + tx_c1_q + tx_c1 + c1 + WrHdr_T4 + WrHdr_T3 + WrHdr_T2 + WrHdr_T1

RdBound ==
  /\ ~rd_pend_thresh => Num_RdPend < Thresh + LineLen
  /\ RdTotal < Thresh + 6 * LineLen

WrBound ==
  /\ ~wr_pend_thresh => Num_WrPend < Thresh + 1
  /\ WrTotal <= Thresh + 9 /\ (status_write \/ WrTotal <= Thresh + 8)

PendInv == /\ TypeOK /\ RunInv
           /\ RdQuiet /\ RdCounts /\ RdBound
           /\ WrQuiet /\ WrCounts /\ WrBound

USE LinesAssumption, TopAssumption, ResetAssumption
    DEF LinesAssumption, TopAssumption, ResetAssumption

-----------------------------------------------------------------------------
(* A counter that stays within its range counts.                           *)
LEMMA CountExact ==
  ASSUME NEW pend \in Nat, NEW sent \in Nat, NEW recvd \in Nat,
         recvd <= pend + sent, pend + sent - recvd < 2 * Top
  PROVE  Count(pend, sent, recvd) = pend + sent - recvd
BY DEF Count

(* The first state: everything is 0 and has been in reset long enough.     *)
LEMMA InitInv == Init => PendInv
<1> SUFFICES ASSUME Init PROVE PendInv
  OBVIOUS
<1>1. TypeOK
  <2>1. /\ test_Reset_n \in BOOLEAN /\ re2xy_go \in BOOLEAN /\ status_write \in BOOLEAN
        /\ rd_pend_thresh \in BOOLEAN /\ wr_pend_thresh \in BOOLEAN
    BY Zenon DEF Init
  <2> QED
    BY <2>1 DEF Init, TypeOK
<1>2. RunInv /\ RdQuiet /\ WrQuiet
  BY DEF Init, RunInv, RdQuiet, WrQuiet
<1>3. RdCounts /\ WrCounts
  BY DEF Init, RdCounts, WrCounts, RdExact, WrExact
<1>4. RdBound /\ WrBound
  BY DEF Init, RdBound, WrBound, RdTotal, WrTotal, One
<1> QED
  BY <1>1, <1>2, <1>3, <1>4 DEF PendInv

-----------------------------------------------------------------------------
(***************************************************************************)
(* A clock of the read channel.                                            *)
(***************************************************************************)
LEMMA ReadStep ==
  ASSUME PendInv,
         NEW resets \in BOOLEAN, NEW test_go \in BOOLEAN, NEW reports \in BOOLEAN,
         NEW reads \in BOOLEAN, NEW rsp \in Rsps,
         Run(resets, test_go, reports), ClkReads(reads, rsp)
  PROVE  /\ RdHdr_valid_q' \in {0, LineLen} /\ c0' \in {0, LineLen}
         /\ tx_c0' \in {0, LineLen} /\ tx_c0_q' \in {0, LineLen}
         /\ rx_c0_T1' \in {0, 1} /\ rx_c0' \in {0, 1} /\ rx_c0_q' \in {0, 1}
         /\ rd_pend_thresh' \in BOOLEAN /\ Num_RdPend' \in 0 .. 2 * Top - 1
         /\ rdout' \in Nat
         /\ RdQuiet' /\ RdCounts' /\ RdBound'
<1> USE DEF PendInv
<1>1. rsp \in {0, 1} /\ rsp <= rdout
  BY DEF Rsps
<1>2. /\ RdHdr_valid_q' \in {0, LineLen} /\ c0' \in {0, LineLen}
      /\ tx_c0' \in {0, LineLen} /\ tx_c0_q' \in {0, LineLen}
      /\ rx_c0_T1' \in {0, 1} /\ rx_c0' \in {0, 1} /\ rx_c0_q' \in {0, 1}
      /\ rd_pend_thresh' \in BOOLEAN /\ rdout' \in Nat
  BY <1>1 DEF TypeOK, ClkReads, Reached
<1>3. tx_c0' <= rdout'
  BY <1>1 DEF TypeOK, ClkReads
<1>4. /\ rx_c0_q <= Num_RdPend + tx_c0_q \/ ~test_Reset_n
      /\ Num_RdPend < Top
  BY DEF TypeOK, RdCounts, RdExact, RdBound, RdTotal
<1>5. IF test_Reset_n THEN Num_RdPend' = Num_RdPend + tx_c0_q - rx_c0_q
                      ELSE Num_RdPend' = 0
  <2>1. CASE test_Reset_n
    <3>1. Num_RdPend + tx_c0_q - rx_c0_q < 2 * Top
      BY <1>4 DEF TypeOK
    <3>2. Num_RdPend' = Count(Num_RdPend, tx_c0_q, rx_c0_q)
      BY <2>1 DEF ClkReads, num_rd_sent
    <3>3. /\ Num_RdPend \in Nat /\ tx_c0_q \in Nat /\ rx_c0_q \in Nat
          /\ rx_c0_q <= Num_RdPend + tx_c0_q
      BY <2>1, <1>4 DEF TypeOK
    <3>4. Num_RdPend' = Num_RdPend + tx_c0_q - rx_c0_q
      BY <3>1, <3>2, <3>3, CountExact
    <3> QED
      BY <2>1, <3>4
  <2>2. CASE ~test_Reset_n
    BY <2>2 DEF ClkReads
  <2> QED
    BY <2>1, <2>2
<1>6. Num_RdPend' \in 0 .. 2 * Top - 1
  BY <1>4, <1>5 DEF TypeOK
<1>7. RdQuiet'
  <2>1. CASE test_Reset_n /\ resets
    <3>1. RunOver /\ ~re2xy_go
      BY <2>1 DEF Run, RunOver, RunInv, TypeOK
    <3> QED
      BY <2>1, <3>1, <1>1 DEF RdQuiet, Run, RunOver, ClkReads, TypeOK
  <2>2. CASE ~test_Reset_n /\ resets
    BY <2>2, <1>1, <1>5 DEF RdQuiet, RunInv, Run, ClkReads, TypeOK
  <2>3. CASE ~resets
    BY <2>3 DEF RdQuiet, Run
  <2> QED
    BY <2>1, <2>2, <2>3
<1>8. test_Reset_n' \/ low' = 0 => RdExact'
  <2>1. CASE test_Reset_n
    BY <2>1, <1>1, <1>5 DEF RdCounts, RdExact, ClkReads, TypeOK
  <2>2. CASE ~test_Reset_n
    BY <2>2, <1>1, <1>5 DEF RdQuiet, RdExact, RunInv, Run, ClkReads, TypeOK
  <2> QED
    BY <2>1, <2>2
<1>9. RdBound'
  <2>1. ~rd_pend_thresh' => Num_RdPend' < Thresh + LineLen
    BY <1>4, <1>5 DEF ClkReads, Reached, TypeOK
  <2>2. RdTotal' < Thresh + 6 * LineLen
    <3>1. Num_RdPend' <= Num_RdPend + tx_c0_q
      BY <1>5 DEF TypeOK
    <3>2. CASE reads
      BY <3>1, <3>2, <1>6 DEF RdBound, RdTotal, ClkReads, mayRead, TypeOK
    <3>3. CASE ~reads
      BY <3>1, <3>3, <1>6 DEF RdBound, RdTotal, ClkReads, TypeOK
    <3> QED
      BY <3>2, <3>3
  <2> QED
    BY <2>1, <2>2 DEF RdBound
<1> QED
  BY <1>2, <1>3, <1>6, <1>7, <1>8, <1>9 DEF RdCounts

(***************************************************************************)
(* A clock of the write channel.                                           *)
(***************************************************************************)
LEMMA WriteStep ==
  ASSUME PendInv,
         NEW resets \in BOOLEAN, NEW test_go \in BOOLEAN, NEW reports \in BOOLEAN,
         NEW writes \in BOOLEAN, NEW stopped \in BOOLEAN, NEW ack \in Acks,
         Run(resets, test_go, reports), ClkWrites(writes, stopped, reports, ack)
  PROVE  /\ WrHdr_T1' \in {0, 1} /\ WrHdr_T2' \in {0, 1} /\ WrHdr_T3' \in {0, 1}
         /\ WrHdr_T4' \in {0, 1} /\ c1' \in {0, 1}
         /\ tx_c1' \in {0, 1} /\ tx_c1_q' \in {0, 1}
         /\ rx_c1_T1' \in 0 .. MaxPack /\ rx_c1' \in 0 .. MaxPack
         /\ num_wr_recvd' \in 0 .. MaxPack
         /\ wr_pend_thresh' \in BOOLEAN /\ Num_WrPend' \in 0 .. 2 * Top - 1
         /\ wrout' \in Nat
         /\ RunInv' /\ WrQuiet' /\ WrCounts' /\ WrBound'
<1> USE DEF PendInv
<1>1. ack \in 0 .. MaxPack /\ ack <= wrout
  BY DEF Acks
<1>2. c1' = IF ~re2xy_go THEN 0 ELSE IF reports THEN 1 ELSE IF stopped THEN 0 ELSE WrHdr_T4
  BY DEF ClkWrites, sentOnC1, TypeOK
<1>3. /\ WrHdr_T1' \in {0, 1} /\ WrHdr_T2' \in {0, 1} /\ WrHdr_T3' \in {0, 1}
      /\ WrHdr_T4' \in {0, 1} /\ c1' \in {0, 1}
      /\ tx_c1' \in {0, 1} /\ tx_c1_q' \in {0, 1}
      /\ rx_c1_T1' \in 0 .. MaxPack /\ rx_c1' \in 0 .. MaxPack
      /\ num_wr_recvd' \in 0 .. MaxPack
      /\ wr_pend_thresh' \in BOOLEAN /\ wrout' \in Nat
  BY <1>1, <1>2 DEF TypeOK, ClkWrites, One, acked, Reached
<1>4. tx_c1' <= wrout'
  BY <1>1 DEF TypeOK, ClkWrites
<1>5. /\ num_wr_recvd <= Num_WrPend + tx_c1_q \/ ~test_Reset_n
      /\ Num_WrPend < Top
  BY DEF TypeOK, WrCounts, WrExact, WrBound, WrTotal, One
<1>6. IF test_Reset_n THEN Num_WrPend' = Num_WrPend + tx_c1_q - num_wr_recvd
                      ELSE Num_WrPend' = 0
  <2>1. CASE test_Reset_n
    <3>1. Num_WrPend + tx_c1_q - num_wr_recvd < 2 * Top
      BY <1>5 DEF TypeOK
    <3>2. Num_WrPend' = Count(Num_WrPend, tx_c1_q, num_wr_recvd)
      BY <2>1 DEF ClkWrites
    <3>3. /\ Num_WrPend \in Nat /\ tx_c1_q \in Nat /\ num_wr_recvd \in Nat
          /\ num_wr_recvd <= Num_WrPend + tx_c1_q
      BY <2>1, <1>5 DEF TypeOK
    <3>4. Num_WrPend' = Num_WrPend + tx_c1_q - num_wr_recvd
      BY <3>1, <3>2, <3>3, CountExact
    <3> QED
      BY <2>1, <3>4
  <2>2. CASE ~test_Reset_n
    BY <2>2 DEF ClkWrites
  <2> QED
    BY <2>1, <2>2
<1>7. Num_WrPend' \in 0 .. 2 * Top - 1
  BY <1>5, <1>6 DEF TypeOK
<1>8. RunInv'
  <2>1. re2xy_go' /\ status_write' => c1' = 1
    BY <1>2 DEF Run, TypeOK
  <2>2. ~test_Reset_n' => ~re2xy_go' /\ (1 <= low' => ~status_write')
    <3>1. CASE test_Reset_n
      BY <3>1 DEF Run, RunOver, TypeOK
    <3>2. CASE ~test_Reset_n
      BY <3>2 DEF Run
    <3> QED
      BY <3>1, <3>2
  <2> QED
    BY <2>1, <2>2 DEF RunInv
<1>9. WrQuiet'
  <2>1. CASE test_Reset_n /\ resets
    <3>1. RunOver /\ ~re2xy_go
      BY <2>1 DEF Run, RunOver, RunInv
    <3> QED
      BY <2>1, <3>1, <1>1, <1>2 DEF WrQuiet, Run, RunOver, ClkWrites, TypeOK
  <2>2. CASE ~test_Reset_n /\ resets
    BY <2>2, <1>1, <1>2, <1>6 DEF WrQuiet, RunInv, Run, ClkWrites, TypeOK, acked
  <2>3. CASE ~resets
    BY <2>3 DEF WrQuiet, Run
  <2> QED
    BY <2>1, <2>2, <2>3
<1>10. test_Reset_n' \/ low' = 0 => WrExact'
  <2>1. CASE test_Reset_n
    BY <2>1, <1>1, <1>6 DEF WrCounts, WrExact, ClkWrites, TypeOK, acked
  <2>2. CASE ~test_Reset_n
    BY <2>2, <1>1, <1>6 DEF WrQuiet, WrExact, RunInv, Run, ClkWrites, TypeOK, acked
  <2> QED
    BY <2>1, <2>2
<1>11. WrBound'
  <2>1. ~wr_pend_thresh' => Num_WrPend' < Thresh + 1
    BY <1>5, <1>6 DEF ClkWrites, Reached, TypeOK
  <2>2. WrTotal' <= Thresh + 9 /\ (status_write' \/ WrTotal' <= Thresh + 8)
    <3> DEFINE older == tx_c1_q + tx_c1 + c1 + WrHdr_T3 + WrHdr_T2 + WrHdr_T1
               taken == One(writes)
               sent == c1'
               after == Num_WrPend' + tx_c1_q' + tx_c1' + c1'
                          + WrHdr_T4' + WrHdr_T3' + WrHdr_T2' + WrHdr_T1'
    <3>1. ASSUME ~test_Reset_n
          PROVE  after <= Thresh + 9 /\ (status_write' \/ after <= Thresh + 8)
      BY <3>1, <1>2, <1>6 DEF RunInv, WrQuiet, WrTotal, ClkWrites, One, TypeOK, Run
    <3>2. ASSUME test_Reset_n
          PROVE  after <= Thresh + 9 /\ (status_write' \/ after <= Thresh + 8)
      <4>1. /\ after <= Num_WrPend + older + sent + taken
            /\ WrTotal = Num_WrPend + older + WrHdr_T4
        BY <3>2, <1>3, <1>6, <1>7 DEF WrTotal, ClkWrites, One, TypeOK
      <4>2. /\ after \in Int /\ WrTotal \in Int
            /\ older \in 0 .. 6 /\ Num_WrPend \in Nat
            /\ sent \in {0, 1} /\ WrHdr_T4 \in {0, 1}
        <5>1. older \in 0 .. 6 /\ WrTotal \in Int
          BY DEF TypeOK, WrTotal
        <5>2. after \in Int
          BY <1>3, <1>7 DEF WrTotal
        <5> QED
          BY <5>1, <5>2, <1>3 DEF TypeOK
      <4>3. CASE writes
        <5>1. Num_WrPend <= Thresh /\ taken = 1
          BY <4>3, <4>2 DEF WrBound, ClkWrites, mayWrite, One
        <5> HIDE DEF older, taken, after, sent
        <5>2. after <= Thresh + 8
          BY <4>1, <4>2, <5>1
        <5>3. after <= Thresh + 9
          BY <4>2, <5>2
        <5> QED
          BY <5>2, <5>3
      <4>4. CASE ~writes
        <5>1. taken = 0
          BY <4>4 DEF One
        <5>2. after <= WrTotal + sent - WrHdr_T4
          <6> HIDE DEF older, taken, after, sent
          <6> QED
            BY <4>1, <4>2, <5>1
        <5>3. WrTotal <= Thresh + 9 /\ (status_write \/ WrTotal <= Thresh + 8)
          BY DEF WrBound
        <5>4. CASE reports
          <6>1. status_write' /\ ~status_write
            BY <3>2, <5>4 DEF Run
          <6> QED
            BY <4>2, <5>2, <5>3, <6>1
        <5>5. CASE ~reports
          <6>1. sent <= WrHdr_T4
            BY <5>5, <1>2, <4>2
          <6>2. status_write => status_write'
            BY <3>2 DEF Run
          <6> QED
            BY <4>2, <5>2, <5>3, <6>1, <6>2
        <5> QED
          BY <5>4, <5>5
      <4> QED
        BY <4>3, <4>4
    <3>3. after <= Thresh + 9 /\ (status_write' \/ after <= Thresh + 8)
      BY <3>1, <3>2
    <3> QED
      BY <3>3 DEF WrTotal
  <2> QED
    BY <2>1, <2>2 DEF WrBound
<1> QED
  BY <1>3, <1>4, <1>7, <1>8, <1>9, <1>10, <1>11 DEF WrCounts
-----------------------------------------------------------------------------
(***************************************************************************)
(* PendInv is inductive.  None of its parts is: the counters are exact     *)
(* because they do not wrap, they do not wrap because of the bounds, the   *)
(* bounds hold because the counters are exact, and a run starts with exact *)
(* counters because the reset has outlasted the pipelines.                 *)
(***************************************************************************)
LEMMA PendStep == PendInv /\ [Next]_vars => PendInv'
<1> SUFFICES ASSUME PendInv, [Next]_vars PROVE PendInv'
  OBVIOUS
<1>1. CASE Next
  <2>1. PICK rsp \in Rsps, ack \in Acks, reports \in BOOLEAN,
             resets \in BOOLEAN, test_go \in BOOLEAN, reads \in BOOLEAN,
             writes \in BOOLEAN, stopped \in BOOLEAN :
          Clk(resets, test_go, reports, reads, rsp, writes, stopped, ack)
    BY <1>1 DEF Next, Steps
  <2>2. /\ Run(resets, test_go, reports)
        /\ ClkReads(reads, rsp)
        /\ ClkWrites(writes, stopped, reports, ack)
    BY <2>1 DEF Clk
  <2>3. /\ test_Reset_n' \in BOOLEAN /\ re2xy_go' \in BOOLEAN /\ status_write' \in BOOLEAN
    BY <2>2 DEF Run, PendInv, TypeOK
  <2>4. low' \in 0 .. ResetClocks /\ mode' \in Modes
    BY <2>2 DEF Run, PendInv, TypeOK
  <2>5. TypeOK'
    BY <2>2, <2>3, <2>4, ReadStep, WriteStep, SMTT(60) DEF TypeOK
  <2>6. RdQuiet' /\ RdCounts' /\ RdBound'
    BY <2>2, ReadStep
  <2>7. RunInv' /\ WrQuiet' /\ WrCounts' /\ WrBound'
    BY <2>2, WriteStep
  <2> QED
    BY <2>5, <2>6, <2>7 DEF PendInv
<1>2. CASE UNCHANGED vars
  BY <1>2 DEF vars, runVars, rdVars, wrVars, PendInv, TypeOK, RunInv, RdQuiet, WrQuiet,
     RdCounts, WrCounts, RdExact, WrExact, RdBound, WrBound, RdTotal, WrTotal
<1> QED
  BY <1>1, <1>2

THEOREM PendInvariant == Spec => []PendInv
<1>1. Init => PendInv
  BY InitInv
<1>2. PendInv /\ [Next]_vars => PendInv'
  BY PendStep
<1> QED
  BY <1>1, <1>2, PTL DEF Spec

-----------------------------------------------------------------------------
(* Stages and counters stay within their domains (the registers of         *)
(* requestor.sv, 616-653).                                                 *)
THEOREM PendTypes == Spec => []TypeOK
<1>1. PendInv => TypeOK
  BY DEF PendInv
<1> QED
  BY <1>1, PendInvariant, PTL

(* Out of reset both counters are exact, for every threshold, packet       *)
(* length and interleaving of requests, responses and resets (the case     *)
(* statements of requestor.sv, 636-653).                                   *)
THEOREM CountersExact == Spec => []Exact
<1>1. PendInv => Exact
  BY DEF PendInv, RdCounts, WrCounts, Exact
<1> QED
  BY <1>1, PendInvariant, PTL

(* Bit 11 of a counter is never set while each request is answered once:   *)
(* the error "unexpected response" (requestor.sv, 691-705) is never raised *)
(* falsely, neither by underflow nor by requests that pass the threshold.  *)
THEOREM NeverFalseError == Spec => []NoFalseError
<1>1. PendInv => NoFalseError
  BY DEF PendInv, TypeOK, RdBound, WrBound, RdTotal, WrTotal, NoFalseError
<1> QED
  BY <1>1, PendInvariant, PTL

(* What the host owes at any time is bounded by the threshold and what     *)
(* passes it while its news is on the way (requestor.sv, 816-838).         *)
THEOREM HostLoadBounded == Spec => []HostLoad
<1>1. PendInv => HostLoad
  <2> SUFFICES ASSUME PendInv PROVE HostLoad
    OBVIOUS
  <2>1. rdout < Thresh + 6 * LineLen
    <3>1. CASE test_Reset_n
      BY <3>1 DEF PendInv, TypeOK, RdCounts, RdExact, RdBound, RdTotal
    <3>2. CASE ~test_Reset_n
      BY <3>2 DEF PendInv, TypeOK, RdQuiet
    <3> QED
      BY <3>1, <3>2
  <2>2. wrout <= Thresh + 9
    <3>1. CASE test_Reset_n
      BY <3>1 DEF PendInv, TypeOK, WrCounts, WrExact, WrBound, WrTotal
    <3>2. CASE ~test_Reset_n
      BY <3>2 DEF PendInv, TypeOK, WrQuiet
    <3> QED
      BY <3>1, <3>2
  <2> QED
    BY <2>1, <2>2 DEF HostLoad
<1> QED
  BY <1>1, PendInvariant, PTL
=============================================================================
