------------------------------ MODULE TestSw1 -------------------------------
(***************************************************************************)
(* test_sw1: the engine of the SW1 test, a round trip through the          *)
(* software.  It writes NumLines lines, a fence and a flag; waits for the  *)
(* software's notice, which comes by one of four methods; and reads the    *)
(* lines the software has copied, checking each against its address.       *)
(* The contents of a line is one number, which the engine chooses equal to *)
(* the line's address.  Num_WrReqs, which is WrAddr + 1, is not kept.      *)
(* Definitions named <op>_<fault> are mutants of the operator after them.  *)
(***************************************************************************)
EXTENDS Naturals

CONSTANT Flag    \* a line of ones: the contents of a flag

VARIABLES
  WrFSM, WrAddr, wrDin,                  \* wrDin: whether it is all ones
  RdFSM, PollFSM, RdAddr, Num_RdReqs, Num_RdRsp, rd_go,
  RdRsp_q,                               \* the last response, registered
  ErrorValid, s12ab_TestCmp

sw1Vars == <<WrFSM, WrAddr, wrDin, RdFSM, PollFSM, RdAddr, Num_RdReqs,
             Num_RdRsp, rd_go, RdRsp_q, ErrorValid, s12ab_TestCmp>>

NoRsp == [valid |-> FALSE, addr |-> 0, data |-> 0]

Sw1Init ==
  /\ WrFSM = "WAIT" /\ WrAddr = 0 /\ wrDin = FALSE
  /\ RdFSM = "WAIT" /\ PollFSM = "WAIT" /\ RdAddr = 0
  /\ Num_RdReqs = 1 /\ Num_RdRsp = 0 /\ rd_go = FALSE /\ RdRsp_q = NoRsp
  /\ ErrorValid = FALSE /\ s12ab_TestCmp = FALSE

RdEn    == RdFSM = "READ" \/ PollFSM = "READ"
WrEn    == WrFSM \in {"WRITE", "UPDTFLAG"}
WrFence_lost == FALSE
WrFence == WrFSM = "WRFENCE"

(* What is queued.  Only the flag keeps all of wrDin; the low bits of a    *)
(* line are its address.                                                   *)
Request ==
  [sop |-> TRUE, len |-> 0, fence |-> WrFence, addr |-> WrAddr,
   data |-> IF WrFSM = "UPDTFLAG" /\ wrDin THEN Flag ELSE WrAddr]

-----------------------------------------------------------------------------
(* The write machine: lines, fence, flag.                                  *)
lastLine_late(NumLines) == WrAddr = NumLines
lastLine(NumLines) == WrAddr + 1 = NumLines

WrNext(go, NumLines, WrSent) ==
  CASE WrFSM = "WAIT" /\ go -> IF NumLines = 0 THEN "UPDTFLAG" ELSE "WRITE"
    [] WrFSM = "WRITE" /\ WrSent /\ lastLine(NumLines) -> "WRFENCE"
    [] WrFSM = "WRFENCE" /\ WrSent  -> "UPDTFLAG"
    [] WrFSM = "UPDTFLAG" /\ WrSent -> "DONE"
    [] OTHER -> WrFSM

WriteFsm(test_Resetb, go, NumLines, WrSent) ==
  /\ WrFSM' = IF test_Resetb THEN WrNext(go, NumLines, WrSent) ELSE "WAIT"
  /\ WrAddr' = CASE WrFSM = "WAIT" -> 0
                 [] WrFSM = "WRITE" /\ WrSent -> WrAddr + 1
                 [] OTHER -> WrAddr
  /\ wrDin' = CASE WrFSM = "WAIT" -> go /\ NumLines = 0
                [] WrFSM = "WRFENCE" -> TRUE
                [] OTHER -> wrDin

(***************************************************************************)
(* The notice.  Polling reads the line after the last until it holds a     *)
(* flag; a CSR write or a UMsg is a pulse.                                 *)
(***************************************************************************)
sawFlag(rsp) == PollFSM = "RESP" /\ rsp.valid /\ rsp.data = Flag

AfterMiss_gaveUp == "DONE"
AfterMiss == "READ"

PollFsm(RdSent, rsp) ==
  PollFSM' = CASE PollFSM = "WAIT" /\ WrFSM = "DONE" -> "READ"
               [] PollFSM = "READ" /\ RdSent -> "RESP"
               [] PollFSM = "RESP" /\ rsp.valid -> IF sawFlag(rsp) THEN "DONE" ELSE AfterMiss
               [] OTHER -> PollFSM

Notice(method, RdSent, rsp, csr_write, umsg) ==
  IF method = "poll"
    THEN PollFsm(RdSent, rsp) /\ rd_go' = (rd_go \/ sawFlag(rsp))
    ELSE /\ rd_go' = ((method = "csr" /\ csr_write) \/ umsg = method)
         /\ UNCHANGED PollFSM

(* The read machine.                                                       *)
allAnswered_early(NumLines) == Num_RdRsp + 1 >= NumLines
allAnswered(NumLines) == Num_RdRsp = NumLines

RdNext(NumLines, RdSent) ==
  CASE RdFSM = "WAIT" /\ rd_go -> IF NumLines = 0 THEN "DONE" ELSE "READ"
    [] RdFSM = "READ" /\ RdSent /\ Num_RdReqs = NumLines -> "RESP"
    [] RdFSM = "RESP" /\ allAnswered(NumLines) -> "DONE"
    [] OTHER -> RdFSM

ReadFsm(method, NumLines, RdSent) ==
  /\ RdFSM' = RdNext(NumLines, RdSent)
  /\ RdAddr' = CASE RdFSM = "WAIT" /\ rd_go -> 0
                 [] RdFSM = "READ" /\ RdSent -> RdAddr + 1
                 [] method = "poll" /\ PollFSM = "WAIT" -> NumLines
                 [] OTHER -> RdAddr

CountReads(RdSent) ==
  Num_RdReqs' = CASE RdFSM = "WAIT" -> 1
                  [] RdFSM = "READ" /\ RdSent -> Num_RdReqs + 1
                  [] OTHER -> Num_RdReqs

(***************************************************************************)
(* A response is counted at once, whatever asked for it, and checked a     *)
(* clock later while lines are being read.                                 *)
(***************************************************************************)
checking == RdRsp_q.valid /\ RdFSM \in {"READ", "RESP"}

CountRsp_kept(rsp) == Num_RdRsp' = IF rsp.valid THEN Num_RdRsp + 1 ELSE Num_RdRsp
CountRsp(rsp) ==
  Num_RdRsp' = IF rsp.valid THEN Num_RdRsp + 1
               ELSE IF RdFSM = "WAIT" THEN 0 ELSE Num_RdRsp

Check ==
  ErrorValid' = IF checking THEN RdRsp_q.data # RdRsp_q.addr ELSE ErrorValid

(***************************************************************************)
(* One rising edge of the clock.                                           *)
(***************************************************************************)
Sw1Clk(test_Resetb, method, go, NumLines, WrSent, RdSent, rsp, csr_write, umsg) ==
  /\ WriteFsm(test_Resetb, go, NumLines, WrSent)
  /\ CountReads(RdSent)
  /\ CountRsp(rsp) /\ RdRsp_q' = rsp
  /\ IF test_Resetb
       THEN /\ Notice(method, RdSent, rsp, csr_write, umsg)
            /\ ReadFsm(method, NumLines, RdSent)
            /\ Check
            /\ s12ab_TestCmp' = (WrFSM = "DONE" /\ RdFSM = "DONE")
       ELSE /\ RdFSM' = "WAIT" /\ PollFSM' = "WAIT" /\ RdAddr' = 0
            /\ rd_go' = FALSE /\ ErrorValid' = FALSE /\ s12ab_TestCmp' = FALSE
=============================================================================
