------------------------------ MODULE TestRdWr -----------------------------
(***************************************************************************)
(* test_rdwr: the engine of the READ, WRITE and TRPUT tests.  A read and a *)
(* write state machine run side by side, each over NumLines lines, once or *)
(* continuously, and the test is complete when both are done and nothing   *)
(* they sent is pending.  Addresses and data are not modelled: no property *)
(* of this test is about them.  Definitions named <op>_<fault> are mutants *)
(* of the operator that follows them.                                      *)
(***************************************************************************)
EXTENDS Naturals

CONSTANTS
  LineLen,    \* lines per packet: re2xy_multiCL_len + 1
  PendMod     \* 2**11: the pending counters are 11 bits wide

VARIABLES
  RdFSM, RdFSM_q, Num_RdReqs, Num_RdPend, RdSent_q, RdRsp_q,
  WrFSM, WrFSM_q, Num_WrReqs, Num_WrPend, WrSent_q, WrRsp_q,
  WrLen, WrSop, rw2ab_TestCmp

rwVars == <<RdFSM, RdFSM_q, Num_RdReqs, Num_RdPend, RdSent_q, RdRsp_q,
            WrFSM, WrFSM_q, Num_WrReqs, Num_WrPend, WrSent_q, WrRsp_q,
            WrLen, WrSop, rw2ab_TestCmp>>

RwInit ==
  /\ RdFSM = 0 /\ RdFSM_q = 0 /\ Num_RdReqs = 1 /\ Num_RdPend = 0
  /\ RdSent_q = FALSE /\ RdRsp_q = 0
  /\ WrFSM = 0 /\ WrFSM_q = 0 /\ Num_WrReqs = 1 /\ Num_WrPend = 0
  /\ WrSent_q = FALSE /\ WrRsp_q = 0
  /\ WrLen = 0 /\ WrSop = FALSE /\ rw2ab_TestCmp = FALSE

Reads(cfg)  == cfg.mode \in {"READ", "TRPUT"}      \* ab2rw_Mode[0]
Writes(cfg) == cfg.mode \in {"WRITE", "TRPUT"}     \* ab2rw_Mode[1]

rw2ab_RdEn == RdFSM = 1
rw2ab_WrEn == WrFSM = 1
rw2ab_Wr   == [sop |-> WrSop, len |-> WrLen]

(* The state that follows state s of either machine, sent being the last.  *)
FsmNext(s, active, go, last, cont) ==
  CASE s = 0 -> IF ~go THEN 0 ELSE IF active THEN 1 ELSE 2
    [] s = 1 -> IF ~last THEN 1 ELSE IF cont THEN 0 ELSE 2
    [] OTHER -> s

(* A counter of PendMod values: 0 - 1 wraps.                               *)
Pend_oneEvent(n, up, down) ==
  IF up > 0 THEN (n + up) % PendMod ELSE (n + PendMod - down) % PendMod
Pend(n, up, down) == (n + PendMod + up - down) % PendMod

(* Both machines stopped a clock ago and nothing is pending: the counters  *)
(* are a clock late as well.                                               *)
allDone_hasty == WrFSM = 2 /\ Num_WrPend = 0 /\ RdFSM = 2 /\ Num_RdPend = 0
allDone == /\ WrFSM_q = 2 /\ Num_WrPend = 0
           /\ RdFSM_q = 2 /\ Num_RdPend = 0

(* The lines of a packet are numbered down to 0.                           *)
nextLen_noReload == WrLen - 1
nextLen == IF WrLen = 0 THEN LineLen - 1 ELSE WrLen - 1

RdMachine(cfg, go, NumLines, RdSent, RdRsp) ==
  /\ RdFSM' = FsmNext(RdFSM, NumLines # 0 /\ Reads(cfg), go,
                      RdSent /\ Num_RdReqs = NumLines, cfg.cont)
  /\ Num_RdReqs' = IF RdFSM = 0 THEN LineLen
                   ELSE IF RdFSM = 1 /\ RdSent THEN Num_RdReqs + LineLen
                   ELSE Num_RdReqs
  /\ RdSent_q' = RdSent /\ RdRsp_q' = RdRsp
  /\ Num_RdPend' = Pend(Num_RdPend, IF RdSent_q THEN LineLen ELSE 0,
                        IF RdSent_q \/ ~rw2ab_TestCmp THEN RdRsp_q ELSE 0)

WrMachine(cfg, go, NumLines, WrSent, WrRsp) ==
  /\ WrFSM' = FsmNext(WrFSM, NumLines # 0 /\ Writes(cfg), go,
                      WrSent /\ Num_WrReqs = NumLines, cfg.cont)
  /\ Num_WrReqs' = IF WrFSM = 0 THEN 1
                   ELSE IF WrFSM = 1 /\ WrSent THEN Num_WrReqs + 1
                   ELSE Num_WrReqs
  /\ WrLen' = IF WrFSM = 0 THEN LineLen - 1
              ELSE IF WrFSM = 1 /\ WrSent THEN nextLen ELSE WrLen
  /\ WrSop' = IF WrFSM = 0 THEN TRUE
              ELSE IF WrFSM = 1 /\ WrSent THEN WrLen = 0 ELSE WrSop
  /\ WrSent_q' = (rw2ab_WrEn /\ WrSent) /\ WrRsp_q' = WrRsp
  /\ Num_WrPend' = Pend(Num_WrPend, IF WrSent_q THEN 1 ELSE 0,
                        IF WrSent_q \/ ~rw2ab_TestCmp THEN WrRsp_q ELSE 0)

(***************************************************************************)
(* One rising edge: RdSent, WrSent tell whether the requestor takes what   *)
(* is offered, RdRsp and WrRsp how many lines are answered.                *)
(***************************************************************************)
RwClk(test_Resetb, cfg, go, NumLines, RdSent, RdRsp, WrSent, WrRsp) ==
  /\ RdFSM_q' = RdFSM /\ WrFSM_q' = WrFSM
  /\ IF test_Resetb
       THEN /\ RdMachine(cfg, go, NumLines, RdSent, RdRsp)
            /\ WrMachine(cfg, go, NumLines, WrSent, WrRsp)
            /\ rw2ab_TestCmp' = allDone
       ELSE /\ RdFSM' = 0 /\ Num_RdReqs' = 1 /\ Num_RdPend' = 0
            /\ RdSent_q' = RdSent /\ RdRsp_q' = RdRsp
            /\ WrFSM' = 0 /\ Num_WrReqs' = 1 /\ Num_WrPend' = 0
            /\ WrSent_q' = (rw2ab_WrEn /\ WrSent) /\ WrRsp_q' = WrRsp
            /\ WrLen' = 0 /\ WrSop' = FALSE /\ rw2ab_TestCmp' = FALSE
=============================================================================
