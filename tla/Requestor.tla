----------------------------- MODULE Requestor -----------------------------
(***************************************************************************)
(* requestor: starts the test engine, sends its reads on channel C0 and,   *)
(* through the write-request queue, its writes on C1, and ends the run: a  *)
(* write fence, one write of the status line (DSM), and an interrupt if    *)
(* one is configured.  ReClk is one rising edge of Clk_400 given what the  *)
(* CSRs, the engine, the queue and the link show before the edge; modules  *)
(* that close the system conjoin it with theirs.                           *)
(*                                                                         *)
(* A write request is a record of its sop flag and of len, the number of   *)
(* lines of the packet still to come.  The counters of pending requests    *)
(* that hold reads and writes back at their limits are left to the choice  *)
(* of the link, which may hold either back at any time; error is           *)
(* ErrorVector # 0 and rx_error what sets it other than the engine.        *)
(* Definitions named <op>_<fault> are mutants of the operator after them.  *)
(***************************************************************************)
EXTENDS Naturals, Sequences

CONSTANTS
  NoItem,            \* an empty stage
  IntrTest,          \* CSR_CFG[29]: interrupt at the end of each test
  IntrOnError        \* CSR_CFG[28]: interrupt when there is an error

VARIABLES
  test_Reset_n, test_go, cfg, re2xy_NumLines,   \* registered from the CSRs
  WrData_dsm,                       \* the error bits of the status line
  re2xy_go, test_cmplt, read_only_test, test_stop,
  dsm_status_wren, WrFence_sent, status_write,
  send_interrupt, interrupt_sent, error,
  AlmFull_T1,                       \* c1TxAlmFull, registered
  RdHdr_valid_q,                    \* a read accepted in the last clock
  WrHdr_valid_T2, wr_T3, wr_T4,     \* writes on their way from the queue
  c0, c1                            \* what is being sent on C0 and C1

reRegs  == <<test_Reset_n, test_go, cfg, re2xy_NumLines, WrData_dsm>>
reCtl   == <<re2xy_go, test_cmplt, read_only_test, test_stop,
             dsm_status_wren, WrFence_sent, status_write,
             send_interrupt, interrupt_sent, error>>
rePipe  == <<AlmFull_T1, RdHdr_valid_q, WrHdr_valid_T2, wr_T3, wr_T4, c0, c1>>
reVars  == <<reRegs, reCtl, rePipe>>

Fence == [msg |-> "fence"]
Dsm   == [msg |-> "status"]
Intr  == [msg |-> "interrupt"]

ReInit(config) ==
  /\ test_Reset_n = FALSE /\ test_go = FALSE /\ cfg = config /\ re2xy_NumLines = 0
  /\ WrData_dsm = FALSE
  /\ re2xy_go = FALSE /\ test_cmplt = FALSE /\ read_only_test = FALSE
  /\ test_stop = FALSE /\ dsm_status_wren = FALSE /\ WrFence_sent = FALSE
  /\ status_write = FALSE /\ send_interrupt = FALSE /\ interrupt_sent = FALSE
  /\ error = FALSE /\ AlmFull_T1 = FALSE /\ RdHdr_valid_q = FALSE
  /\ WrHdr_valid_T2 = FALSE /\ wr_T3 = NoItem /\ wr_T4 = NoItem
  /\ c0 = FALSE /\ c1 = NoItem

-----------------------------------------------------------------------------
(***************************************************************************)
(* Combinational outputs: a read request of the engine is accepted, and    *)
(* the head of the write queue is taken.                                   *)
(***************************************************************************)
RdHdr_valid(RdEn, c0Hold) == re2xy_go /\ ~status_write /\ ~c0Hold /\ RdEn
txFifo_RdAck(Dout_v, c1Hold) == re2xy_go /\ ~c1Hold /\ Dout_v

(***************************************************************************)
(* What channel C1 sends, by priority.  The status write needs the fence   *)
(* to have been sent; a data write in the last stage overrides the header  *)
(* of a fence sent in the same clock.                                      *)
(***************************************************************************)
sendsIntr  == send_interrupt /\ ~interrupt_sent /\ ~AlmFull_T1
sendsFence == /\ ~sendsIntr /\ re2xy_go
              /\ dsm_status_wren /\ ~AlmFull_T1 /\ ~WrFence_sent
sendsDsm_unfenced == ~sendsIntr /\ re2xy_go /\ ~AlmFull_T1 /\ dsm_status_wren
sendsDsm   == ~sendsIntr /\ re2xy_go /\ ~AlmFull_T1 /\ WrFence_sent
sendsData_unstopped == /\ ~sendsIntr /\ re2xy_go /\ ~sendsDsm /\ wr_T4 # NoItem
sendsData  == /\ ~sendsIntr /\ re2xy_go /\ ~sendsDsm
              /\ wr_T4 # NoItem /\ ~test_stop

ClkC1 ==
  c1' = IF sendsIntr THEN Intr
        ELSE IF sendsDsm THEN IF status_write THEN NoItem ELSE Dsm
        ELSE IF sendsData THEN wr_T4
        ELSE IF sendsFence THEN Fence
        ELSE NoItem

ClkPipe(RdEn, c0Hold, c1Hold, out) ==
  /\ AlmFull_T1' = c1Hold
  /\ RdHdr_valid_q' = RdHdr_valid(RdEn, c0Hold)
  /\ c0' = (re2xy_go /\ RdHdr_valid_q)
  /\ WrHdr_valid_T2' = (test_Reset_n /\ out[1] # NoItem /\ re2xy_go)
  /\ wr_T3' = IF test_Reset_n /\ WrHdr_valid_T2 THEN out[2] ELSE NoItem
  /\ wr_T4' = IF test_Reset_n THEN wr_T3 ELSE NoItem

ClkRegs(ctl, config, lines) ==
  /\ test_Reset_n' = ("reset_n" \in ctl)
  /\ test_go' = ("go" \in ctl)
  /\ cfg' = config
  /\ re2xy_NumLines' = lines
  /\ WrData_dsm' = error

(***************************************************************************)
(* The run: started by CTL[1], ended by the engine (TestCmp), by the       *)
(* software (CTL[2]) or by an error.  A forced end waits for the last line *)
(* of a packet to be in stage T4, unless the test only reads.              *)
(***************************************************************************)
packetEnds_anywhere == wr_T4 # NoItem
packetEnds_single == wr_T4 # NoItem /\ wr_T4.sop /\ wr_T4.len = 0
packetEnds == wr_T4 # NoItem /\ wr_T4.len = 0
stopsHere == test_cmplt /\ (read_only_test \/ packetEnds)

ClkControl(ctl, TestCmp, EngineError, rx_error) ==
  IF test_Reset_n
    THEN /\ re2xy_go' = (~status_write /\ (test_go \/ re2xy_go))
         /\ read_only_test' = (read_only_test \/ cfg.mode = "READ")
         /\ test_cmplt' = (test_cmplt \/ "force" \in ctl \/ error)
         /\ test_stop' = (test_stop \/ stopsHere)
         /\ dsm_status_wren' = (TestCmp \/ test_stop)
         /\ WrFence_sent' = (WrFence_sent \/ sendsFence)
         /\ status_write' = (status_write \/ sendsDsm)
         /\ send_interrupt' = (status_write /\ (IntrTest \/ (IntrOnError /\ error)))
         /\ interrupt_sent' = (interrupt_sent \/ sendsIntr)
         /\ error' = (error \/ EngineError \/ rx_error)
    ELSE /\ re2xy_go' = FALSE /\ read_only_test' = FALSE /\ test_cmplt' = FALSE
         /\ test_stop' = FALSE /\ dsm_status_wren' = FALSE
         /\ WrFence_sent' = FALSE /\ status_write' = FALSE
         /\ send_interrupt' = FALSE /\ interrupt_sent' = FALSE /\ error' = FALSE

ReClk(csrs, TestCmp, EngineError, rx_error, RdEn, c0Hold, c1Hold, out) ==
  /\ ClkRegs(csrs.CTL, csrs.CFG, csrs.LINES)
  /\ ClkControl(csrs.CTL, TestCmp, EngineError, rx_error)
  /\ ClkPipe(RdEn, c0Hold, c1Hold, out)
  /\ ClkC1
=============================================================================
