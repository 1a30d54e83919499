---------------------------- MODULE PendTracker ----------------------------
(***************************************************************************)
(* How the requestor keeps track of the lines it is owed.  Num_RdPend and  *)
(* Num_WrPend are 12 bits wide: at a threshold (bits 10 and 9) they hold   *)
(* the channel back, and bit 11 is taken as the sign of a response nobody  *)
(* asked for.  Both lag behind the link, by three clocks each way, and the *)
(* threshold lags behind them, so that requests already accepted pass it.  *)
(* A stage of a pipeline is the number of lines of the request in it.      *)
(* Definitions named <op>_<fault> are mutants of the operator after them.  *)
(***************************************************************************)
EXTENDS Naturals

CONSTANTS
  LineLen,       \* lines of a read request
  MaxPack,       \* lines one write response may acknowledge
  Thresh,        \* 1536: the least number with bits 10 and 9 set
  Top,           \* 2048: the value of bit 11, half the range of a counter
  ResetClocks,   \* clocks the software holds the reset at least
  Modes          \* the tests the software runs: whether they read, write

ASSUME LinesAssumption == LineLen \in Nat \ {0} /\ MaxPack \in Nat \ {0}
ASSUME TopAssumption ==
  /\ Thresh \in Nat \ {0} /\ Top \in Nat
  /\ Thresh + 6 * LineLen <= Top /\ Thresh + 9 < Top
ASSUME ResetAssumption == ResetClocks \in Nat /\ ResetClocks >= 2
ASSUME ModesAssumption == Modes \subseteq SUBSET {"reads", "writes"}

VARIABLES
  test_Reset_n, re2xy_go, status_write,   \* the run
  low, mode,                              \* clocks in reset; the test chosen
  \* C0: requests on their way out, counting, responses on their way in
  RdHdr_valid_q, c0, tx_c0, tx_c0_q, rd_pend_thresh, Num_RdPend,
  rdout, rx_c0_T1, rx_c0, rx_c0_q,
  \* C1
  WrHdr_T1, WrHdr_T2, WrHdr_T3, WrHdr_T4, c1, tx_c1, tx_c1_q,
  wr_pend_thresh, Num_WrPend, wrout, rx_c1_T1, rx_c1, num_wr_recvd

runVars == <<test_Reset_n, re2xy_go, status_write, low, mode>>
rdVars == <<RdHdr_valid_q, c0, tx_c0, tx_c0_q, rd_pend_thresh, Num_RdPend,
            rdout, rx_c0_T1, rx_c0, rx_c0_q>>
wrVars == <<WrHdr_T1, WrHdr_T2, WrHdr_T3, WrHdr_T4, c1, tx_c1, tx_c1_q,
            wr_pend_thresh, Num_WrPend, wrout, rx_c1_T1, rx_c1, num_wr_recvd>>
vars == <<runVars, rdVars, wrVars>>

Init ==
  /\ test_Reset_n = FALSE /\ re2xy_go = FALSE /\ status_write = FALSE
  /\ low = ResetClocks /\ mode \in Modes
  /\ RdHdr_valid_q = 0 /\ c0 = 0 /\ tx_c0 = 0 /\ tx_c0_q = 0
  /\ rd_pend_thresh = FALSE /\ Num_RdPend = 0
  /\ rdout = 0 /\ rx_c0_T1 = 0 /\ rx_c0 = 0 /\ rx_c0_q = 0
  /\ WrHdr_T1 = 0 /\ WrHdr_T2 = 0 /\ WrHdr_T3 = 0 /\ WrHdr_T4 = 0
  /\ c1 = 0 /\ tx_c1 = 0 /\ tx_c1_q = 0
  /\ wr_pend_thresh = FALSE /\ Num_WrPend = 0
  /\ wrout = 0 /\ rx_c1_T1 = 0 /\ rx_c1 = 0 /\ num_wr_recvd = 0

-----------------------------------------------------------------------------
(* A 12-bit counter after a clock, and its threshold.                      *)
Count(pend, sent, recvd) ==
  IF pend + sent < recvd THEN pend + sent + 2 * Top - recvd
  ELSE IF pend + sent - recvd >= 2 * Top THEN pend + sent - recvd - 2 * Top
  ELSE pend + sent - recvd

Reached_once(pend) == pend = Thresh
Reached(pend) == (Thresh <= pend /\ pend < Top) \/ Top + Thresh <= pend

One(b) == IF b THEN 1 ELSE 0
num_rd_sent_one == One(tx_c0_q # 0)
num_rd_sent == tx_c0_q

(***************************************************************************)
(* The run.  The software starts it, and resets it when the status line is *)
(* there and every request has been answered.                              *)
(***************************************************************************)
RunOver == status_write /\ c0 = 0 /\ c1 = 0 /\ rdout = 0 /\ wrout = 0

Run(resets, test_go, reports) ==
  /\ IF test_Reset_n THEN resets => RunOver ELSE ~resets => low >= ResetClocks
  /\ test_go => test_Reset_n /\ ~re2xy_go /\ ~status_write
  /\ test_Reset_n' = ~resets
  /\ low' = IF test_Reset_n THEN 0 ELSE IF low < ResetClocks THEN low + 1 ELSE low
  /\ mode' \in (IF test_Reset_n THEN {mode} ELSE Modes)
  /\ re2xy_go' = (test_Reset_n /\ ~status_write /\ (test_go \/ re2xy_go))
  /\ reports => re2xy_go /\ ~status_write
  /\ status_write' = (test_Reset_n /\ (status_write \/ reports))

(***************************************************************************)
(* C0.  A read the engine offers is accepted unless a threshold or the     *)
(* link forbids it; what is sent is counted three clocks later, like the   *)
(* line that comes back.                                                   *)
(***************************************************************************)
mayRead_unheld == "reads" \in mode /\ re2xy_go /\ ~status_write
mayRead == "reads" \in mode /\ re2xy_go /\ ~status_write /\ ~rd_pend_thresh

ClkReads(reads, rsp) ==
  /\ reads => mayRead
  /\ RdHdr_valid_q' = IF reads THEN LineLen ELSE 0
  /\ c0' = IF re2xy_go THEN RdHdr_valid_q ELSE 0
  /\ tx_c0' = c0 /\ tx_c0_q' = tx_c0
  /\ rdout' = rdout + c0 - rsp
  /\ rx_c0_T1' = rsp /\ rx_c0' = rx_c0_T1 /\ rx_c0_q' = rx_c0
  /\ Num_RdPend' = IF test_Reset_n THEN Count(Num_RdPend, num_rd_sent, rx_c0_q) ELSE 0
  /\ rd_pend_thresh' = Reached(Num_RdPend)

(***************************************************************************)
(* C1.  A write taken from the queue reaches the link after five clocks,   *)
(* unless the run is stopped; the status write is sent past the threshold. *)
(***************************************************************************)
mayWrite == "writes" \in mode /\ re2xy_go /\ ~wr_pend_thresh

sentOnC1(stopped, reports) ==
  CASE ~re2xy_go -> 0
    [] re2xy_go /\ reports -> 1
    [] re2xy_go /\ ~reports -> IF stopped THEN 0 ELSE WrHdr_T4

acked_single(n) == One(n # 0)
acked(n) == n

ClkWrites(writes, stopped, reports, ack) ==
  /\ writes => mayWrite
  /\ stopped => WrHdr_T4 # 0
  /\ WrHdr_T1' = One(test_Reset_n /\ writes)
  /\ WrHdr_T2' = IF test_Reset_n /\ re2xy_go THEN WrHdr_T1 ELSE 0
  /\ WrHdr_T3' = IF test_Reset_n THEN WrHdr_T2 ELSE 0
  /\ WrHdr_T4' = IF test_Reset_n THEN WrHdr_T3 ELSE 0
  /\ c1' = sentOnC1(stopped, reports)
  /\ tx_c1' = c1 /\ tx_c1_q' = tx_c1
  /\ wrout' = wrout + c1 - ack
  /\ rx_c1_T1' = ack /\ rx_c1' = rx_c1_T1 /\ num_wr_recvd' = acked(rx_c1)
  /\ Num_WrPend' = IF test_Reset_n THEN Count(Num_WrPend, tx_c1_q, num_wr_recvd) ELSE 0
  /\ wr_pend_thresh' = Reached(Num_WrPend)

Clk(resets, test_go, reports, reads, rsp, writes, stopped, ack) ==
  /\ Run(resets, test_go, reports)
  /\ ClkReads(reads, rsp)
  /\ ClkWrites(writes, stopped, reports, ack)

(* The host answers a line of a read, or some written lines, at a time.    *)
Rsps == {n \in {0, 1} : n <= rdout}
Acks == {n \in 0 .. MaxPack : n <= wrout}

Steps(P(_, _, _)) ==
  \E rsp \in Rsps, ack \in Acks, reports \in BOOLEAN :
    /\ P(rsp, ack, reports)
    /\ \E resets, test_go, reads, writes, stopped \in BOOLEAN :
         Clk(resets, test_go, reports, reads, rsp, writes, stopped, ack)

Next == Steps(LAMBDA rsp, ack, reports : TRUE)

Spec == Init /\ [][Next]_vars

(* The host answers what it has been asked; the run need not end.          *)
FairSpec ==
  /\ Spec
  /\ WF_vars(Steps(LAMBDA rsp, ack, reports : ~reports))
  /\ WF_vars(Steps(LAMBDA rsp, ack, reports : rsp # 0))
  /\ WF_vars(Steps(LAMBDA rsp, ack, reports : ack # 0))

-----------------------------------------------------------------------------
(***************************************************************************)
(* The value domains of the stages and counters.                           *)
(***************************************************************************)
TypeOK ==
  /\ test_Reset_n \in BOOLEAN /\ re2xy_go \in BOOLEAN /\ status_write \in BOOLEAN
  /\ low \in 0 .. ResetClocks /\ mode \in Modes
  /\ RdHdr_valid_q \in {0, LineLen} /\ c0 \in {0, LineLen}
  /\ tx_c0 \in {0, LineLen} /\ tx_c0_q \in {0, LineLen}
  /\ rx_c0_T1 \in {0, 1} /\ rx_c0 \in {0, 1} /\ rx_c0_q \in {0, 1}
  /\ rd_pend_thresh \in BOOLEAN /\ Num_RdPend \in 0 .. 2 * Top - 1 /\ rdout \in Nat
  /\ WrHdr_T1 \in {0, 1} /\ WrHdr_T2 \in {0, 1} /\ WrHdr_T3 \in {0, 1}
  /\ WrHdr_T4 \in {0, 1} /\ c1 \in {0, 1} /\ tx_c1 \in {0, 1} /\ tx_c1_q \in {0, 1}
  /\ rx_c1_T1 \in 0 .. MaxPack /\ rx_c1 \in 0 .. MaxPack /\ num_wr_recvd \in 0 .. MaxPack
  /\ wr_pend_thresh \in BOOLEAN /\ Num_WrPend \in 0 .. 2 * Top - 1 /\ wrout \in Nat

(***************************************************************************)
(* The counters are exact: a counter and the requests not yet counted are  *)
(* what the host owes and the responses not yet counted, also in the runs  *)
(* after the first, whose counters start while responses may be on their   *)
(* way in.                                                                 *)
(***************************************************************************)
RdExact == Num_RdPend + tx_c0_q + tx_c0 = rdout + rx_c0_T1 + rx_c0 + rx_c0_q
WrExact == Num_WrPend + tx_c1_q + tx_c1 = wrout + rx_c1_T1 + rx_c1 + num_wr_recvd

Exact == test_Reset_n => RdExact /\ WrExact

(***************************************************************************)
(* "unexpected RxRead response", "unexpected RxWrite response": while each *)
(* request is answered once, bit 11 is never set.  Neither does a counter  *)
(* pass below zero, nor do the requests accepted while the news of the     *)
(* threshold is on its way fill the room between it and bit 11.            *)
(***************************************************************************)
NoFalseError == Num_RdPend < Top /\ Num_WrPend < Top

(***************************************************************************)
(* What the host may be asked for at once is bounded by the threshold and  *)
(* what passes it: six read requests, or eight writes and the status line. *)
(***************************************************************************)
HostLoad == rdout < Thresh + 6 * LineLen /\ wrout <= Thresh + 9

(* A channel that a threshold holds back is released once the host answers. *)
Released ==
  /\ rd_pend_thresh ~> ~rd_pend_thresh
  /\ wr_pend_thresh ~> ~wr_pend_thresh
=============================================================================
