------------------------------- MODULE NlbRun ------------------------------
(***************************************************************************)
(* Whole runs of the READ, WRITE and TRPUT tests: the CSRs, the requestor, *)
(* the engine test_rdwr and the write-request queue, driven by software    *)
(* that follows the test flow documented in nlb_lpbk (reset, configure,    *)
(* start, perhaps force completion, wait for the status write, start over) *)
(* and by a link and a host that take requests and answer them whenever    *)
(* they like.  All share one clock: a step is one rising edge of Clk_400.  *)
(***************************************************************************)
EXTENDS NlbFlow, Requestor, TestRdWr

CONSTANTS
  TxCap,        \* entries of the write-request queue
  MaxWrites,    \* the host acknowledges before this many lines are pending
  MaxReads,     \* the same for reads
  Meddles,      \* whether the software may write the configuration during a run
  Errors        \* whether the requestor may detect an unexpected response

ASSUME SizesAssumption ==
  /\ LineLen \in Nat \ {0} /\ TxCap \in Nat \ {0} /\ PendMod \in Nat \ {0}
  /\ MaxWrites \in Nat /\ MaxReads \in Nat
(* A test is a whole number of packets.                                    *)
ASSUME CountsAssumption == \A n \in LineCounts : n \in Nat /\ n % LineLen = 0
ASSUME NoWriteAssumption ==
  NoWrite \notin [reg : {"CTL"}, val : SUBSET CtlBits] \cup [reg : {"CFG"}, val : Configs]
                  \cup [reg : {"LINES"}, val : LineCounts]
ASSUME NoItemAssumption ==
  NoItem \notin {Fence, Dsm, Intr} \cup [sop : BOOLEAN, len : 0 .. LineLen - 1]

VARIABLES
  dsm,          \* the status line has been written in this run
  q, head, almFull, out,    \* the write-request queue
  rdout, wrout, \* lines the host has yet to read and to acknowledge
  open          \* lines owed to the packet being sent on C1

hostVars == <<dsm, q, head, almFull, out, rdout, wrout, open>>
vars == <<csrVars, swVars, reVars, rwVars, hostVars>>

TxQ == INSTANCE TxQueue WITH Values <- {}, Cap <- TxCap, FullThresh <- TxCap

Init ==
  /\ CsrInit /\ ReInit(DefaultCfg) /\ RwInit
  /\ TxQ!Init
  /\ FlowInit /\ dsm = FALSE
  /\ rdout = 0 /\ wrout = 0 /\ open = 0

-----------------------------------------------------------------------------
(***************************************************************************)
(* The software starts over when the status line is there (and the         *)
(* interrupt, if it asked for one) and what was sent has been answered.    *)
(***************************************************************************)
RunOver == dsm /\ rdout = 0 /\ wrout = 0 /\ c0 = FALSE /\ c1 = NoItem
             /\ (IntrTest => interrupt_sent)

Meddle(mmio) ==
  /\ Meddles /\ sw \in {"run", "force"} /\ sw' = sw /\ Keep
  /\ \E c \in Configs : mmio = CsrWrite("CFG", c)

Software(mmio) ==
  \/ Idle(mmio)
  \/ wr_T1 = NoWrite /\ TestFlow(RunOver, mmio)
  \/ Meddle(mmio)

(* The status line is cleared before the next run.                         *)
Status == dsm' = IF sw' = "off" THEN FALSE ELSE dsm \/ c1 = Dsm

-----------------------------------------------------------------------------
(***************************************************************************)
(* The host: it answers one read line and up to a packet of writes at a    *)
(* time.  The status write is acknowledged like any other write.           *)
(***************************************************************************)
IsWrite(m) == m \notin {NoItem, Fence, Dsm, Intr}

Rsps == {n \in {0, 1} : n <= rdout}
Acks == {n \in {0, 1, LineLen} : n <= wrout}

Host(rsp, ack) ==
  /\ rdout' = rdout + (IF c0 THEN LineLen ELSE 0) - rsp
  /\ wrout' = wrout + (IF IsWrite(c1) \/ c1 = Dsm THEN 1 ELSE 0) - ack
  /\ open' = IF IsWrite(c1') THEN c1'.len ELSE open

(* The link may hold a channel back; it does when the host is busy.        *)
Busy(c0Hold, c1Hold) ==
  /\ rdout >= MaxReads => c0Hold
  /\ wrout >= MaxWrites => c1Hold

Queue(c1Hold) ==
  IF test_Reset_n
    THEN TxQ!Clock(rw2ab_WrEn, rw2ab_Wr, txFifo_RdAck(head # NoItem, c1Hold))
    ELSE TxQ!Clear

(* The arbiter connects the engine in its own modes only.                  *)
Connected == Reads(cfg) \/ Writes(cfg)

Clk(mmio, c0Hold, c1Hold, rsp, ack, err) ==
  /\ err => Errors /\ re2xy_go
  /\ Status
  /\ Busy(c0Hold, c1Hold)
  /\ CsrClk(FALSE, mmio)
  /\ ReClk(csr, Connected /\ rw2ab_TestCmp, FALSE, err, rw2ab_RdEn, c0Hold, c1Hold, out)
  /\ RwClk(test_Reset_n, cfg, re2xy_go, re2xy_NumLines,
           RdHdr_valid(rw2ab_RdEn, c0Hold), rsp, Len(q) < TxCap, ack)
  /\ Queue(c1Hold)
  /\ Host(rsp, ack)

Steps(P(_, _, _, _, _)) ==
  \E mmio \in CsrWrites :
    /\ Software(mmio)
    /\ \E c0Hold, c1Hold, err \in BOOLEAN, rsp \in Rsps, ack \in Acks :
         P(mmio, c0Hold, c1Hold, rsp, ack) /\ Clk(mmio, c0Hold, c1Hold, rsp, ack, err)

Next == Steps(LAMBDA mmio, c0Hold, c1Hold, rsp, ack : TRUE)

Spec == Init /\ [][Next]_vars

(***************************************************************************)
(* The link lets each channel through again and again, and the host        *)
(* answers everything it has been asked.                                   *)
(***************************************************************************)
Fairness ==
  /\ WF_vars(Next)
  /\ SF_vars(Steps(LAMBDA mmio, c0Hold, c1Hold, rsp, ack : ~c0Hold))
  /\ SF_vars(Steps(LAMBDA mmio, c0Hold, c1Hold, rsp, ack : ~c1Hold))
  /\ WF_vars(Steps(LAMBDA mmio, c0Hold, c1Hold, rsp, ack : rsp # 0))
  /\ WF_vars(Steps(LAMBDA mmio, c0Hold, c1Hold, rsp, ack : ack # 0))

FairSpec == Spec /\ Fairness

-----------------------------------------------------------------------------
(* The value domains of the registers.                                     *)
TypeOK ==
  /\ csr.CTL \subseteq CtlBits /\ csr.CFG \in Configs \cup {DefaultCfg}
  /\ RdFSM \in 0 .. 2 /\ WrFSM \in 0 .. 2
  /\ Num_RdPend \in 0 .. PendMod - 1 /\ Num_WrPend \in 0 .. PendMod - 1
  /\ WrLen \in 0 .. LineLen - 1
  /\ Len(q) \in 0 .. TxCap /\ rdout \in Nat /\ wrout \in Nat
  /\ open \in 0 .. LineLen - 1
  /\ \A b \in {re2xy_go, test_stop, WrFence_sent, status_write, c0} : b \in BOOLEAN

(***************************************************************************)
(* What the run has come to, read off the requestor's own flags.           *)
(***************************************************************************)
phase == CASE interrupt_sent -> "notified"
           [] status_write /\ ~interrupt_sent -> "reported"
           [] WrFence_sent /\ ~status_write -> "fenced"
           [] OTHER -> "writing"

Stream == INSTANCE C1Stream WITH Quiet <- NoItem, MaxLen <- LineLen, sent <- c1

(***************************************************************************)
(* What C1 sends in every run is whole packets, one fence, one status      *)
(* write and at most one interrupt, in this order, whatever the stalls and *)
(* whenever the software forces completion ("Make sure that multiCL        *)
(* request is completed before sending out DSM Write").                    *)
(***************************************************************************)
StreamOrder == Stream!Spec

(***************************************************************************)
(* The data of C1 are selected by a copy of the completion flag, not by    *)
(* the request that is sent: the status write never carries a line's data  *)
(* and no line is sent with the status as its data.                        *)
(***************************************************************************)
DataMatchesRequest ==
  /\ sendsDsm => dsm_status_wren
  /\ sendsData => ~dsm_status_wren

(***************************************************************************)
(* Until the run is reported or cut off, the pending counters of the       *)
(* engine, with what they have yet to register, agree with the lines that  *)
(* are on their way through requestor, queue, link and host: sends and     *)
(* responses in the same clock are both counted.                           *)
(***************************************************************************)
One(b) == IF b THEN 1 ELSE 0

writesOnTheWay ==
  Len(q) + One(out[1] # NoItem) + One(WrHdr_valid_T2) + One(wr_T3 # NoItem)
         + One(wr_T4 # NoItem) + One(IsWrite(c1)) + wrout
readsOnTheWay == LineLen * (One(RdHdr_valid_q) + One(c0)) + rdout

PendingExact ==
  re2xy_go /\ ~test_stop /\ ~WrFence_sent =>
    /\ Num_WrPend + One(WrSent_q) = writesOnTheWay + WrRsp_q
    /\ Num_RdPend + LineLen * One(RdSent_q) = readsOnTheWay + RdRsp_q

(***************************************************************************)
(* A run that was not forced reports completion only when every line it    *)
(* had to read has been read and every line it queued has been sent and    *)
(* acknowledged: the pending counters, which lag what they count, are      *)
(* never seen at zero too early.                                           *)
(***************************************************************************)
CompleteWhenDrained ==
  WrFence_sent /\ ~test_stop =>
    /\ q = <<>> /\ ~WrHdr_valid_T2 /\ wr_T3 = NoItem /\ wr_T4 = NoItem
    /\ rdout = 0 /\ ~RdHdr_valid_q /\ ~c0
    /\ status_write \/ wrout = 0

(***************************************************************************)
(* A test runs with the configuration its software wrote before starting   *)
(* it, however the last test ended: no write is lost to the write lock,    *)
(* which is registered and opens late after the reset is released.         *)
(***************************************************************************)
RunsAsConfigured ==
  re2xy_go => cfg = swcfg /\ re2xy_NumLines = swlines

(***************************************************************************)
(* From the clock a test starts in, its configuration does not change: the *)
(* write lock, registered like the start itself, closes in time.  (A write *)
(* in the clock after the one that starts the test still lands, but so     *)
(* that the test starts with it.)                                          *)
(***************************************************************************)
ConfigFrozen == [][re2xy_go => cfg' = cfg]_vars

(* A finite test ends by itself, a forced one ends when it is told to.     *)
Ends == (sw = "run" /\ ~swcfg.cont) \/ sw = "force" ~> dsm
=============================================================================
