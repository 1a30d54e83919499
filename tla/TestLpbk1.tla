----------------------------- MODULE TestLpbk1 -----------------------------
(***************************************************************************)
(* test_lpbk1, the memory-copy engine of the NLB AFU.  It reads NumLines   *)
(* lines of the source buffer into two response RAMs of BufReqs requests   *)
(* each (double buffering: one is filled by read responses, in any order,  *)
(* while the other is emptied into write requests) and reports completion  *)
(* when it has received NumLines write responses.                          *)
(*                                                                         *)
(* This module is the engine alone: its registers and Lpbk1Clk, one rising *)
(* edge of Clk_400 with reset inactive, as a function of the inputs the    *)
(* arbiter gives it.  Modules that close the system conjoin Lpbk1Clk with  *)
(* the clock edge of what surrounds it.  The contents of a line is the     *)
(* address it was read from.                                               *)
(***************************************************************************)
EXTENDS Integers, Sequences

CONSTANTS
  BufReqs,   \* read requests per response RAM (128 in the code)
  LineLen,   \* lines per request: re2xy_multiCL_len + 1, one of 1, 2, 4
  CountMod   \* 2**20: line counters and addresses are 20 bits wide

ASSUME BufAssumption == BufReqs \in Nat \ {0}
ASSUME LenAssumption == LineLen \in {1, 2, 4}
ASSUME ModAssumption == /\ CountMod \in Nat /\ CountMod > LineLen
                        /\ CountMod % (BufReqs * LineLen) = 0

VARIABLES
  \* read side
  read_fsm, RdAddr, Num_Read_req,
  FSM_Rd_throttle, Read_Buffer_ID, Num_buff_RdReq,
  \* hand-over of the two buffers
  fsm_read_ctrl, fsm_write_ctrl,
  buff_status, buff_serviced, buff_rd_cmplt, buff_wr_cmplt,
  \* read responses
  Total_Num_RdRsp, Num_RdRsp_buff, trigger_rds_done, rd_cmplt, finite_test,
  memwr, ram,
  \* write side
  Wr_go, Wr_cmplt, latch_RAM_rd_cmp, detect_cur_rd_cmp_reg,
  AlmFull_q, AlmFull_qq,
  write_fsm, WrReq_tid, CL_ID, wrCLnum, Total_ram_reads,
  wrpipe, wrreq,
  Num_Write_rsp, TestCmp, ErrorValid

rdVars   == <<read_fsm, RdAddr, Num_Read_req,
              FSM_Rd_throttle, Read_Buffer_ID, Num_buff_RdReq>>
bufVars  == <<fsm_read_ctrl, fsm_write_ctrl,
              buff_status, buff_serviced, buff_rd_cmplt, buff_wr_cmplt>>
rspVars  == <<Total_Num_RdRsp, Num_RdRsp_buff, trigger_rds_done, rd_cmplt,
              finite_test, memwr, ram>>
wrVars   == <<Wr_go, Wr_cmplt, latch_RAM_rd_cmp, detect_cur_rd_cmp_reg,
              AlmFull_q, AlmFull_qq, write_fsm, WrReq_tid, CL_ID, wrCLnum,
              Total_ram_reads, wrpipe, wrreq>>
doneVars == <<Num_Write_rsp, TestCmp, ErrorValid>>
lpbk1Vars == <<rdVars, bufVars, rspVars, wrVars, doneVars>>

Buffers == {0, 1}
Status == {"READ", "READ_DONE", "WRITE", "WRITE_DONE"}
BlockLines == BufReqs * LineLen     \* 2**ram_max_index: lines per RAM

(* A slot of a response RAM: a request tag and a line of that request. *)
Slots == (0 .. BufReqs - 1) \X (0 .. LineLen - 1)

None == [valid |-> FALSE]
NoLine == [addr |-> -1, data |-> -1]

Lpbk1Init ==
  /\ read_fsm = 0 /\ RdAddr = 0 /\ Num_Read_req = LineLen
  /\ FSM_Rd_throttle = 0 /\ Read_Buffer_ID = 0 /\ Num_buff_RdReq = 0
  /\ fsm_read_ctrl = 0 /\ fsm_write_ctrl = 0
  /\ buff_status = [b \in Buffers |-> "WRITE_DONE"]
  /\ buff_serviced = [b \in Buffers |-> b = 1]
  /\ buff_rd_cmplt = [b \in Buffers |-> FALSE]
  /\ buff_wr_cmplt = [b \in Buffers |-> FALSE]
  /\ Total_Num_RdRsp = 0 /\ Num_RdRsp_buff = [b \in Buffers |-> 0]
  /\ trigger_rds_done = FALSE /\ rd_cmplt = FALSE /\ finite_test = FALSE
  /\ memwr = None /\ ram = [b \in Buffers |-> [s \in Slots |-> NoLine]]
  /\ Wr_go = FALSE /\ Wr_cmplt = FALSE /\ latch_RAM_rd_cmp = FALSE
  /\ detect_cur_rd_cmp_reg = <<FALSE, FALSE>>
  /\ AlmFull_q = FALSE /\ AlmFull_qq = FALSE
  /\ write_fsm = 0 /\ WrReq_tid = 0 /\ CL_ID = 0 /\ wrCLnum = 0
  /\ Total_ram_reads = 1
  /\ wrpipe = <<None, None, None, None>> /\ wrreq = None
  /\ Num_Write_rsp = 0 /\ TestCmp = FALSE /\ ErrorValid = FALSE

-----------------------------------------------------------------------------
(***************************************************************************)
(* Outputs to the arbiter: the read request and the write request.         *)
(* Definitions named <operator>_<fault> are mutants: what the operator     *)
(* after them would be with a plausible bug.  Nothing here uses them.      *)
(***************************************************************************)
RdEn_unthrottled == read_fsm = 1
RdEn  == read_fsm = 1 /\ Num_buff_RdReq < BufReqs
RdTID == <<Read_Buffer_ID, Num_buff_RdReq>>
WrEn  == wrreq.valid

(***************************************************************************)
(* Read requests: one per LineLen lines while the requestor accepts them.  *)
(***************************************************************************)
ReadFsm(go, NumLines, Cont, RdSent) ==
  \/ /\ read_fsm = 0
     /\ read_fsm' = IF ~go THEN 0 ELSE IF NumLines # 0 THEN 1 ELSE 2
     /\ RdAddr' = 0 /\ Num_Read_req' = LineLen
  \/ /\ read_fsm = 1 /\ RdSent
     /\ read_fsm' = IF Num_Read_req # NumLines THEN 1 ELSE IF Cont THEN 0 ELSE 2
     /\ RdAddr' = (RdAddr + LineLen) % CountMod
     /\ Num_Read_req' = (Num_Read_req + LineLen) % CountMod
  \/ /\ read_fsm = 2 \/ (read_fsm = 1 /\ ~RdSent)
     /\ UNCHANGED <<read_fsm, RdAddr, Num_Read_req>>

(***************************************************************************)
(* Reads stop when a buffer's worth of requests is out, until the other    *)
(* buffer has been emptied.                                                *)
(***************************************************************************)
StartFilling_early(b) ==
  /\ buff_status[b] = "READ"
  /\ FSM_Rd_throttle' = 0 /\ Read_Buffer_ID' = b /\ Num_buff_RdReq' = 0

StartFilling_never(b) ==
  /\ buff_serviced[b] /\ buff_status[b] = "WRITE_DONE"
  /\ FSM_Rd_throttle' = 0 /\ Read_Buffer_ID' = b /\ Num_buff_RdReq' = 0

StartFilling(b) ==
  /\ buff_serviced[b] /\ buff_status[b] = "READ"
  /\ FSM_Rd_throttle' = 0 /\ Read_Buffer_ID' = b /\ Num_buff_RdReq' = 0

RdThrottle(RdSent) ==
  \/ /\ FSM_Rd_throttle = 0
     /\ Num_buff_RdReq' = IF RdSent THEN Num_buff_RdReq + 1 ELSE Num_buff_RdReq
     /\ FSM_Rd_throttle' =
          IF Num_buff_RdReq < BufReqs THEN 0 ELSE 1 + Read_Buffer_ID
     /\ UNCHANGED Read_Buffer_ID
  \/ FSM_Rd_throttle = 1 /\ StartFilling(1)
  \/ FSM_Rd_throttle = 2 /\ StartFilling(0)
  \/ /\ \E b \in Buffers : FSM_Rd_throttle = 2 - b
                           /\ ~(buff_serviced[b] /\ buff_status[b] = "READ")
     /\ UNCHANGED <<FSM_Rd_throttle, Read_Buffer_ID, Num_buff_RdReq>>

(***************************************************************************)
(* Buffer hand-over.  fsm_read_ctrl waits for the reads of buffer 0 and 1  *)
(* in turn, fsm_write_ctrl for their writes; both assign buff_status and   *)
(* the assignment of fsm_write_ctrl, later in the block, wins.             *)
(***************************************************************************)
rdTurn == fsm_read_ctrl \div 2           \* whose reads fsm_read_ctrl follows
wrTurn == fsm_write_ctrl \div 2
rdWaits == fsm_read_ctrl % 2 = 1         \* it waits for the last response
wrRuns  == fsm_write_ctrl % 2 = 1        \* it waits for the last write

readsIn   == rdWaits /\ buff_rd_cmplt[rdTurn]
writesOut == wrRuns /\ buff_wr_cmplt[wrTurn]

StatusByReadCtrl(b) ==
  IF b = rdTurn
    THEN IF ~rdWaits /\ buff_status[b] \in {"WRITE_DONE", "READ"} THEN "READ"
         ELSE IF readsIn THEN "READ_DONE" ELSE buff_status[b]
    ELSE IF rdWaits /\ buff_status[b] = "WRITE_DONE" THEN "READ"
         ELSE buff_status[b]

BufferCtrl ==
  /\ fsm_read_ctrl' =
       IF readsIn \/ (~rdWaits /\ buff_status[rdTurn] \in {"WRITE_DONE", "READ"})
         THEN (fsm_read_ctrl + 1) % 4 ELSE fsm_read_ctrl
  /\ fsm_write_ctrl' =
       IF writesOut \/ (~wrRuns /\ buff_status[wrTurn] = "READ_DONE")
         THEN (fsm_write_ctrl + 1) % 4 ELSE fsm_write_ctrl
  /\ buff_status' =
       [b \in Buffers |->
          IF wrRuns /\ b = wrTurn
            THEN IF writesOut THEN "WRITE_DONE" ELSE "WRITE"
            ELSE StatusByReadCtrl(b)]
  /\ buff_serviced' =
       [b \in Buffers |->
          IF writesOut /\ b = wrTurn THEN TRUE
          ELSE IF FSM_Rd_throttle = 2 - b /\ buff_status[b] = "READ" THEN FALSE
          ELSE buff_serviced[b]]

(***************************************************************************)
(* Read responses: rsp.buf and rsp.tag are the request's tag, rsp.cl the   *)
(* line within it, rsp.addr what the arbiter looked up for the tag.  A     *)
(* buffer's reads are complete when its block is full, or when all lines   *)
(* of a finite test have arrived (which completes both buffers).           *)
(***************************************************************************)
readsComplete_late(NumLines) == Total_Num_RdRsp > NumLines /\ finite_test /\ ~rd_cmplt
readsComplete(NumLines) == Total_Num_RdRsp = NumLines /\ finite_test /\ ~rd_cmplt

ReadResponses(go, NumLines, Cont, rsp) ==
  LET full(b)  == trigger_rds_done \/ Num_RdRsp_buff[b] = BlockLines
      count(b) == Num_RdRsp_buff[b]
                    + (IF rsp.valid THEN IF rsp.buf = b THEN 1 ELSE 0 ELSE 0)
  IN  /\ finite_test' = (go /\ ~Cont)
      /\ Total_Num_RdRsp' =
           (Total_Num_RdRsp + (IF rsp.valid THEN 1 ELSE 0)) % (2 * CountMod)
      /\ trigger_rds_done' = readsComplete(NumLines)
      /\ rd_cmplt' = (rd_cmplt \/ readsComplete(NumLines))
      /\ Num_RdRsp_buff' = [b \in Buffers |-> IF full(b) THEN 0 ELSE count(b)]
      /\ buff_rd_cmplt' =
           [b \in Buffers |-> full(b) \/ (buff_rd_cmplt[b]
                                          /\ ~(readsIn /\ b = rdTurn))]
      /\ memwr' = rsp
      /\ ram' = IF memwr.valid
                  THEN [ram EXCEPT ![memwr.buf][<<memwr.tag, memwr.cl>>] =
                          [addr |-> memwr.addr + memwr.cl, data |-> memwr.data]]
                  ELSE ram

-----------------------------------------------------------------------------
(***************************************************************************)
(* An entry is popped from the RAM in this clock.                          *)
(***************************************************************************)
popFirst_blind == write_fsm = 0 /\ Wr_go
popFirst == write_fsm = 0 /\ Wr_go /\ ~AlmFull_qq
popNext_stalling == write_fsm = 1 /\ ~AlmFull_qq
popNext  == write_fsm = 1
pop      == popFirst \/ popNext

(***************************************************************************)
(* Detection, in the clock of a pop, that it empties the block and that it *)
(* is the last of the test.  In multi-line mode only the lines after the   *)
(* first of a request are looked at.                                       *)
(***************************************************************************)
lastCandidate == popNext \/ (LineLen = 1 /\ popFirst)
detect_RAM_rd_cmp(NumLines) ==
  lastCandidate /\ Total_ram_reads % CountMod = NumLines /\ finite_test
detect_cur_rd_cmp_late == lastCandidate /\ Total_ram_reads % BlockLines = 1
detect_cur_rd_cmp == lastCandidate /\ Total_ram_reads % BlockLines = 0

WriteGo(NumLines) ==
  LET stop == \/ detect_cur_rd_cmp
              \/ detect_cur_rd_cmp_reg[1] \/ detect_cur_rd_cmp_reg[2]
              \/ detect_RAM_rd_cmp(NumLines) \/ latch_RAM_rd_cmp
  IN  /\ detect_cur_rd_cmp_reg' = <<detect_cur_rd_cmp, detect_cur_rd_cmp_reg[1]>>
      /\ latch_RAM_rd_cmp' = (latch_RAM_rd_cmp \/ detect_RAM_rd_cmp(NumLines))
      /\ Wr_cmplt' = stop
      /\ Wr_go' = IF stop THEN FALSE
                  ELSE Wr_go \/ \E b \in Buffers : buff_status[b] = "WRITE"
      /\ buff_wr_cmplt' =
           [b \in Buffers |-> Wr_cmplt /\ buff_status[b] = "WRITE"]

(***************************************************************************)
(* WrFSM: read requests' lines out of the RAM, LineLen lines at a time.    *)
(* Only the first line of a request looks at the FIFO's almost-full flag.  *)
(***************************************************************************)
WriteFsm(AlmFull) ==
  LET last == popNext /\ wrCLnum = 1
  IN  /\ AlmFull_q' = AlmFull /\ AlmFull_qq' = AlmFull_q
      /\ WrReq_tid' = IF last \/ (LineLen = 1 /\ popFirst)
                        THEN (WrReq_tid + 1) % BufReqs ELSE WrReq_tid
      /\ write_fsm' = IF popFirst /\ LineLen > 1 THEN 1
                      ELSE IF last THEN 0 ELSE write_fsm
      /\ CL_ID' = IF (popFirst /\ LineLen > 1) \/ (popNext /\ ~last)
                    THEN CL_ID + 1 ELSE 0
      /\ wrCLnum' = IF popFirst THEN LineLen - 1
                    ELSE IF popNext THEN wrCLnum - 1 ELSE 0
      /\ Total_ram_reads' = (Total_ram_reads + (IF pop THEN 1 ELSE 0)) % (2 * CountMod)

(***************************************************************************)
(* The popped address travels four stages while the RAM is read and the    *)
(* RAM of the buffer being written is selected; then it is a write         *)
(* request (l12ab_WrEn).  The RAM is read when it leaves the first stage;  *)
(* a slot written in that clock reads as something unknown.                *)
(***************************************************************************)
WritePipe ==
  LET popped == [valid |-> TRUE, len |-> wrCLnum', sop |-> popFirst,
                 slot |-> <<WrReq_tid, CL_ID>>,
                 buf |-> IF buff_status[1] = "WRITE" THEN 1 ELSE 0]
      clash(e) == IF memwr.valid
                    THEN e.buf = memwr.buf /\ e.slot = <<memwr.tag, memwr.cl>>
                    ELSE FALSE
      fetched(e) == IF e.valid
                      THEN [valid |-> TRUE, len |-> e.len, sop |-> e.sop,
                            line |-> IF clash(e) THEN NoLine
                                                 ELSE ram[e.buf][e.slot]]
                      ELSE None
  IN  /\ wrpipe' = <<IF pop THEN popped ELSE None,
                     fetched(wrpipe[1]), wrpipe[2], wrpipe[3]>>
      /\ wrreq' = wrpipe[4]

(***************************************************************************)
(* Write responses (wrsp lines at once), completion, and the error flag    *)
(* for a write request that was refused.                                   *)
(***************************************************************************)
CountWriteRsp(wrsp) == Num_Write_rsp' = (Num_Write_rsp + wrsp) % CountMod

Completion_onReads(NumLines, WrSent) ==
  /\ TestCmp' = (TestCmp \/ (read_fsm = 2 /\ Total_Num_RdRsp = NumLines))
  /\ ErrorValid' = (ErrorValid \/ (WrEn /\ ~WrSent))

Completion(NumLines, WrSent) ==
  /\ TestCmp' = (TestCmp \/ (read_fsm = 2 /\ Num_Write_rsp = NumLines))
  /\ ErrorValid' = (ErrorValid \/ (WrEn /\ ~WrSent))

Lpbk1Clk(go, NumLines, Cont, RdSent, rsp, AlmFull, WrSent, wrsp) ==
  /\ ReadFsm(go, NumLines, Cont, RdSent)
  /\ RdThrottle(RdSent)
  /\ BufferCtrl
  /\ ReadResponses(go, NumLines, Cont, rsp)
  /\ WriteGo(NumLines)
  /\ WriteFsm(AlmFull)
  /\ WritePipe
  /\ CountWriteRsp(wrsp)
  /\ Completion(NumLines, WrSent)
=============================================================================
