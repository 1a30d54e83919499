---------------------------- MODULE NlbRunProofs ----------------------------
(***************************************************************************)
(* Proofs about whole runs, for every set of configurations and line       *)
(* counts, every size of queue and packet, with and without errors,        *)
(* interrupts and forced completion: a run has one configuration, which is *)
(* the one its software has chosen.                                        *)
(***************************************************************************)
EXTENDS NlbRun, SequenceTheorems, TLAPS

LEMMA NextSteps ==
  ASSUME Next
  PROVE  \E mmio \in CsrWrites :
           /\ Software(mmio)
           /\ \E c0Hold, c1Hold, err \in BOOLEAN, rsp \in Rsps, ack \in Acks :
                Clk(mmio, c0Hold, c1Hold, rsp, ack, err)
BY DEF Next, Steps

-----------------------------------------------------------------------------
(***************************************************************************)
(* Types of the CSRs, of what the software keeps and of the requestor's    *)
(* control registers.                                                      *)
(***************************************************************************)
AllCfgs == Configs \cup {DefaultCfg}
AllLines == {0} \cup LineCounts

CsrTypes ==
  /\ wr_T1 \in CsrWrites
  /\ csr \in [CTL : SUBSET CtlBits, CFG : AllCfgs, LINES : AllLines]
  /\ re2cr_wrlock_n \in BOOLEAN
  /\ sw \in {"off", "reset", "lines", "config", "run", "force"}
  /\ swcfg \in AllCfgs /\ swlines \in AllLines

CtlTypes ==
  /\ test_Reset_n \in BOOLEAN /\ test_go \in BOOLEAN
  /\ cfg \in AllCfgs /\ re2xy_NumLines \in AllLines
  /\ re2xy_go \in BOOLEAN /\ test_cmplt \in BOOLEAN /\ read_only_test \in BOOLEAN
  /\ test_stop \in BOOLEAN /\ dsm_status_wren \in BOOLEAN /\ WrFence_sent \in BOOLEAN
  /\ status_write \in BOOLEAN /\ send_interrupt \in BOOLEAN
  /\ interrupt_sent \in BOOLEAN /\ error \in BOOLEAN
  /\ RdHdr_valid_q \in BOOLEAN /\ c0 \in BOOLEAN /\ dsm \in BOOLEAN

(* Types of the engine, the queue, the stages it leads to and the host.    *)
Lines == [sop : BOOLEAN, len : 0 .. LineLen - 1]
Stage == Lines \cup {NoItem}

EngineTypes ==
  /\ RdFSM \in 0 .. 2 /\ WrFSM \in 0 .. 2 /\ RdFSM_q \in 0 .. 2 /\ WrFSM_q \in 0 .. 2
  /\ RdSent_q \in BOOLEAN /\ WrSent_q \in BOOLEAN /\ rw2ab_TestCmp \in BOOLEAN
  /\ Num_RdPend \in 0 .. PendMod - 1 /\ Num_WrPend \in 0 .. PendMod - 1
  /\ Num_RdReqs \in Nat /\ Num_WrReqs \in Nat /\ RdRsp_q \in Nat /\ WrRsp_q \in Nat
  /\ WrLen \in 0 .. LineLen - 1 /\ WrSop \in BOOLEAN

PipeTypes ==
  /\ q \in Seq(Lines) /\ Len(q) <= TxCap /\ head = TxQ!HeadOf(q)
  /\ out \in Stage \X Stage
  /\ AlmFull_T1 \in BOOLEAN /\ WrHdr_valid_T2 \in BOOLEAN
  /\ wr_T3 \in Stage /\ wr_T4 \in Stage
  /\ c1 \in Stage \cup {Fence, Dsm, Intr}

HostTypes == rdout \in Nat /\ wrout \in Nat /\ open \in 0 .. LineLen - 1

(* The write in stage T1 is one of register reg.                           *)
Carries(reg) == wr_T1 # NoWrite /\ wr_T1.reg = reg
Pending == Carries("CTL")

(***************************************************************************)
(* What a clock makes of the registers: the write in stage T1 lands in its *)
(* own, unless it is locked.                                               *)
(***************************************************************************)
LEMMA CsrStep ==
  ASSUME CsrTypes, NEW mmio \in CsrWrites, CsrClk(FALSE, mmio)
  PROVE  /\ wr_T1' = mmio
         /\ csr' \in [CTL : SUBSET CtlBits, CFG : AllCfgs, LINES : AllLines]
         /\ csr'.CTL = IF Pending THEN wr_T1.val ELSE csr.CTL
         /\ csr'.LINES = IF Carries("LINES") THEN wr_T1.val ELSE csr.LINES
         /\ csr'.CFG = IF Carries("CFG") /\ re2cr_wrlock_n THEN wr_T1.val ELSE csr.CFG
         /\ re2cr_wrlock_n' = ("reset_n" \in csr.CTL /\ "go" \notin csr.CTL)
<1>1. wr_T1' = mmio /\ re2cr_wrlock_n' = ("reset_n" \in csr.CTL /\ "go" \notin csr.CTL)
  BY DEF CsrClk, configOpen
<1>2. ~IsMessage
  BY DEF CsrTypes, CsrWrites, IsMessage
<1>3. csr' = IF Lands THEN [csr EXCEPT ![wr_T1.reg] = wr_T1.val] ELSE csr
  BY <1>2 DEF CsrClk
<1>4. CASE wr_T1 = NoWrite
  BY <1>1, <1>3, <1>4 DEF Lands, CsrTypes, Carries, Pending
<1>5. CASE wr_T1 \in [reg : {"CTL"}, val : SUBSET CtlBits]
  BY <1>1, <1>3, <1>5, NoWriteAssumption DEF Lands, Locked, CsrTypes, Carries, Pending
<1>6. CASE wr_T1 \in [reg : {"LINES"}, val : LineCounts]
  BY <1>1, <1>3, <1>6, NoWriteAssumption DEF Lands, Locked, CsrTypes, Carries, Pending, AllLines
<1>7. CASE wr_T1 \in [reg : {"CFG"}, val : Configs]
  <2>1. wr_T1 # NoWrite /\ wr_T1.reg = "CFG" /\ wr_T1.val \in AllCfgs
    BY <1>7, NoWriteAssumption DEF AllCfgs
  <2>2. Lands <=> re2cr_wrlock_n
    BY <2>1 DEF Lands, Locked
  <2> QED BY <1>1, <1>3, <2>1, <2>2 DEF CsrTypes, Carries, Pending
<1> QED BY <1>4, <1>5, <1>6, <1>7 DEF CsrTypes, CsrWrites

LEMMA CsrTypesStep ==
  ASSUME CsrTypes, NEW mmio \in CsrWrites, CsrClk(FALSE, mmio), Software(mmio)
  PROVE  CsrTypes'
<1>1. /\ wr_T1' \in CsrWrites /\ re2cr_wrlock_n' \in BOOLEAN
      /\ csr' \in [CTL : SUBSET CtlBits, CFG : AllCfgs, LINES : AllLines]
  BY CsrStep
<1>2. /\ sw' \in {"off", "reset", "lines", "config", "run", "force"}
      /\ swcfg' \in AllCfgs /\ swlines' \in AllLines
  BY DEF Software, Idle, swVars, TestFlow, Flow, Keep, Meddle, CsrTypes, AllCfgs, AllLines
<1> QED BY <1>1, <1>2 DEF CsrTypes

-----------------------------------------------------------------------------
(***************************************************************************)
(* The software writes one register per step, each once the one before has *)
(* landed: what CSR_CTL holds, and what is on its way to it, tell how far  *)
(* it has come.                                                            *)
(***************************************************************************)
CtlOf(s) == CASE s = "off" -> {}
              [] s = "run" -> {"reset_n", "go"}
              [] s = "force" -> {"reset_n", "go", "force"}
              [] OTHER -> {"reset_n"}

CtlFlow ==
  /\ ~Pending => csr.CTL = CtlOf(sw)
  /\ Pending =>
       /\ wr_T1.val = CtlOf(sw)
       /\ \/ sw = "reset" /\ csr.CTL = {}
          \/ sw = "run" /\ csr.CTL = {"reset_n"}
          \/ sw = "force" /\ csr.CTL = {"reset_n", "go"}
          \/ sw = "off" /\ {"reset_n", "go"} \subseteq csr.CTL

LEMMA CtlFlowStep ==
  ASSUME CsrTypes, CtlFlow, NEW mmio \in CsrWrites, CsrClk(FALSE, mmio), Software(mmio)
  PROVE  CtlFlow'
<1>1. wr_T1' = mmio /\ csr'.CTL = CtlOf(sw)
  BY CsrStep DEF CtlFlow
<1>2. CASE mmio = NoWrite /\ sw' = sw
  BY <1>1, <1>2 DEF CtlFlow, Pending, Carries
<1>3. CASE Meddle(mmio)
  BY <1>1, <1>3 DEF Meddle, CsrWrite, CtlFlow, Pending, Carries
<1>4. CASE wr_T1 = NoWrite /\ TestFlow(RunOver, mmio)
  <2> USE DEF CtlFlow, Pending, Carries, CsrWrite, Flow
  <2>1. CASE sw = "off" /\ sw' = "reset" /\ mmio = CsrWrite("CTL", {"reset_n"})
    BY <1>1, <1>4, <2>1, NoWriteAssumption DEF CtlOf, CtlBits
  <2>2. CASE \E n \in LineCounts :
               sw = "reset" /\ sw' = "lines" /\ mmio = CsrWrite("LINES", n)
    BY <1>1, <1>4, <2>2 DEF CtlOf
  <2>3. CASE \E c \in Configs :
               sw = "lines" /\ sw' = "config" /\ mmio = CsrWrite("CFG", c)
    BY <1>1, <1>4, <2>3 DEF CtlOf
  <2>4. CASE sw = "config" /\ sw' = "run" /\ mmio = CsrWrite("CTL", {"reset_n", "go"})
    BY <1>1, <1>4, <2>4 DEF CtlOf
  <2>5. CASE sw = "run" /\ sw' = "force"
             /\ mmio = CsrWrite("CTL", {"reset_n", "go", "force"})
    BY <1>1, <1>4, <2>5 DEF CtlOf
  <2>6. CASE sw \in {"run", "force"} /\ sw' = "off" /\ mmio = CsrWrite("CTL", {})
    <3>1. csr'.CTL = CtlOf(sw) /\ wr_T1'.val = {} /\ wr_T1'.reg = "CTL"
      BY <1>1, <2>6
    <3>2. {"reset_n", "go"} \subseteq csr'.CTL /\ CtlOf(sw') = {}
      BY <2>6, <3>1 DEF CtlOf
    <3>3. CsrWrite("CTL", {}) # NoWrite
      BY NoWriteAssumption
    <3>4. Pending' /\ wr_T1'.val = CtlOf(sw')
      BY <1>1, <2>6, <3>1, <3>2, <3>3
    <3> QED BY <2>6, <3>2, <3>4
  <2> QED BY <1>4, <2>1, <2>2, <2>3, <2>4, <2>5, <2>6 DEF TestFlow
<1> QED BY <1>2, <1>3, <1>4 DEF Software, Idle, swVars
-----------------------------------------------------------------------------
(***************************************************************************)
(* How far the software has come tells what the hardware is doing.  Before *)
(* the software starts a test nothing moves (Still); the reset has cleared *)
(* the run's state by the time it is released (Cleared), and what is a     *)
(* clock late as well when the software configures the test (Pristine).    *)
(***************************************************************************)
Before == sw \in {"off", "reset", "lines", "config"}

Unmoved ==
  /\ ~RdHdr_valid_q /\ ~c0 /\ c1 \in {NoItem, Intr}
  /\ rdout = 0 /\ wrout = 0

Still == Unmoved /\ ~re2xy_go

Cleared ==
  /\ ~test_cmplt /\ ~test_stop /\ ~dsm_status_wren /\ ~WrFence_sent
  /\ ~status_write /\ ~send_interrupt /\ ~interrupt_sent /\ ~error
  /\ RdFSM = 0 /\ WrFSM = 0 /\ Num_RdPend = 0 /\ Num_WrPend = 0 /\ rw2ab_TestCmp = FALSE
  /\ q = <<>> /\ head = NoItem /\ out = <<NoItem, NoItem>>
  /\ WrHdr_valid_T2 = FALSE /\ wr_T3 = NoItem /\ wr_T4 = NoItem

Fresh ==
  /\ Cleared /\ Unmoved
  /\ RdSent_q = FALSE /\ WrSent_q = FALSE /\ RdRsp_q = 0 /\ WrRsp_q = 0
  /\ RdFSM_q = 0 /\ WrFSM_q = 0

Pristine == Fresh /\ ~re2xy_go

(* The write lock is closed when a test starts, and open once the software *)
(* has written the line count.                                             *)
LockFlow ==
  /\ test_go \/ re2xy_go => ~re2cr_wrlock_n
  /\ sw \in {"lines", "config"} => re2cr_wrlock_n
  /\ re2xy_go => "go" \in csr.CTL
  /\ sw \in {"reset", "lines", "config"} => ~test_go
  /\ sw = "run" /\ Pending => ~test_go

(* What the requestor has made of CSR_CTL.                                 *)
ResetFlow ==
  /\ sw = "off" /\ (Pending \/ test_Reset_n) => test_Reset_n /\ status_write
  /\ sw = "reset" /\ Pending => ~test_Reset_n
  /\ sw \in {"lines", "config", "run", "force"} => test_Reset_n

PristineFlow ==
  /\ Before => Still
  /\ sw = "reset" /\ ~Pending /\ ~test_Reset_n => Cleared
  /\ sw = "reset" /\ ~Pending /\ test_Reset_n => Pristine
  /\ sw \in {"lines", "config"} => Pristine
  /\ sw \in {"run", "force"} /\ ~re2xy_go /\ ~status_write => Pristine
  /\ sw = "force" /\ ~re2xy_go /\ ~status_write => test_go /\ Pending

(* The status line is written once the run has ended.                      *)
DsmFlow ==
  /\ dsm => sw \in {"run", "force"} /\ status_write /\ ~re2xy_go /\ ~RdHdr_valid_q
  /\ c1 = Dsm => status_write

FlowInv ==
  /\ CsrTypes /\ CtlTypes /\ EngineTypes /\ PipeTypes /\ HostTypes
  /\ CtlFlow /\ LockFlow /\ ResetFlow /\ PristineFlow /\ DsmFlow
  /\ re2xy_go => cfg = csr.CFG

-----------------------------------------------------------------------------
(* The bits of CSR_CTL, by the step the software has taken.                *)
LEMMA CtlBitsOf ==
  ASSUME CsrTypes, CtlFlow
  PROVE  /\ "reset_n" \in csr.CTL <=> \/ sw \in {"lines", "config", "run", "force"}
                                      \/ sw = "reset" /\ ~Pending
                                      \/ sw = "off" /\ Pending
         /\ "go" \in csr.CTL <=> \/ sw = "run" /\ ~Pending
                                 \/ sw = "force"
                                 \/ sw = "off" /\ Pending
<1>1. CASE Pending
  BY <1>1 DEF CsrTypes, CtlFlow, CtlOf
<1>2. CASE ~Pending
  BY <1>2 DEF CsrTypes, CtlFlow, CtlOf
<1> QED BY <1>1, <1>2

(* The steps of the software, and whether they write CSR_CTL.              *)
LEMMA Moves ==
  ASSUME NEW mmio \in CsrWrites, CsrClk(FALSE, mmio), Software(mmio)
  PROVE  \/ sw' = sw /\ ~Pending'
         \/ sw = "off" /\ sw' = "reset" /\ ~Pending /\ Pending'
         \/ sw = "reset" /\ sw' = "lines" /\ ~Pending /\ ~Pending'
         \/ sw = "lines" /\ sw' = "config" /\ ~Pending /\ ~Pending'
         \/ sw = "config" /\ sw' = "run" /\ ~Pending /\ Pending'
         \/ sw = "run" /\ sw' = "force" /\ ~Pending /\ Pending'
         \/ sw \in {"run", "force"} /\ sw' = "off" /\ ~Pending /\ Pending' /\ RunOver
<1>1. wr_T1' = mmio
  BY DEF CsrClk
<1>2. \A v \in SUBSET CtlBits : CsrWrite("CTL", v) # NoWrite
  BY NoWriteAssumption DEF CsrWrite
<1>3. /\ {"reset_n"} \in SUBSET CtlBits /\ {"reset_n", "go"} \in SUBSET CtlBits
      /\ {"reset_n", "go", "force"} \in SUBSET CtlBits /\ {} \in SUBSET CtlBits
  BY DEF CtlBits
<1>4. \A v : mmio = CsrWrite("CTL", v) => mmio.reg = "CTL"
  BY DEF CsrWrite
<1>5. \A v : mmio = CsrWrite("LINES", v) \/ mmio = CsrWrite("CFG", v) => mmio.reg # "CTL"
  BY DEF CsrWrite
<1>6. CASE Idle(mmio)
  BY <1>1, <1>6 DEF Idle, swVars, Pending, Carries
<1>7. CASE Meddle(mmio)
  BY <1>1, <1>5, <1>7 DEF Meddle, Pending, Carries
<1>8. CASE wr_T1 = NoWrite /\ TestFlow(RunOver, mmio)
  BY <1>1, <1>2, <1>3, <1>4, <1>5, <1>8 DEF TestFlow, Flow, Pending, Carries
<1> QED BY <1>6, <1>7, <1>8 DEF Software

LEMMA LockFlowStep ==
  ASSUME FlowInv, NEW mmio \in CsrWrites, CsrClk(FALSE, mmio), Software(mmio),
         ClkRegs(csr.CTL, csr.CFG, csr.LINES),
         re2xy_go' => test_Reset_n /\ ~status_write /\ (test_go \/ re2xy_go),
         test_Reset_n /\ status_write => status_write'
  PROVE  LockFlow' /\ ResetFlow'
<1> USE DEF FlowInv
<1>1. re2cr_wrlock_n' = ("reset_n" \in csr.CTL /\ "go" \notin csr.CTL)
  BY CsrStep
<1>2. test_Reset_n' = ("reset_n" \in csr.CTL) /\ test_go' = ("go" \in csr.CTL)
  BY DEF ClkRegs
<1>3. CsrTypes' /\ CtlFlow'
  BY CsrTypesStep, CtlFlowStep
<1>4. /\ "reset_n" \in csr.CTL <=> \/ sw \in {"lines", "config", "run", "force"}
                                   \/ sw = "reset" /\ ~Pending
                                   \/ sw = "off" /\ Pending
      /\ "go" \in csr.CTL <=> (sw = "run" /\ ~Pending) \/ sw = "force"
                                \/ (sw = "off" /\ Pending)
  BY CtlBitsOf
<1>5. "go" \in csr'.CTL <=> \/ sw' = "run" /\ ~Pending'
                            \/ sw' = "force"
                            \/ sw' = "off" /\ Pending'
  <2>1. CASE Pending'
    BY <1>3, <2>1 DEF CsrTypes, CtlFlow, CtlOf
  <2>2. CASE ~Pending'
    BY <1>3, <2>2 DEF CsrTypes, CtlFlow, CtlOf
  <2> QED BY <2>1, <2>2
<1>6. RunOver => status_write /\ sw \in {"run", "force"}
  BY DEF RunOver, DsmFlow
<1>7. re2xy_go => sw \in {"run", "force"}
  BY DEF PristineFlow, Still, CsrTypes, Before
<1>8. \/ sw' = sw /\ ~Pending'
      \/ sw = "off" /\ sw' = "reset" /\ ~Pending /\ Pending'
      \/ sw = "reset" /\ sw' = "lines" /\ ~Pending /\ ~Pending'
      \/ sw = "lines" /\ sw' = "config" /\ ~Pending /\ ~Pending'
      \/ sw = "config" /\ sw' = "run" /\ ~Pending /\ Pending'
      \/ sw = "run" /\ sw' = "force" /\ ~Pending /\ Pending'
      \/ sw \in {"run", "force"} /\ sw' = "off" /\ ~Pending /\ Pending' /\ RunOver
  BY Moves
<1>9. sw \in {"off", "reset", "lines", "config", "run", "force"}
  BY DEF CsrTypes
<1> HIDE DEF Pending, FlowInv
<1>10. LockFlow'
  BY <1>1, <1>2, <1>4, <1>5, <1>7, <1>8, <1>9 DEF LockFlow, ResetFlow, FlowInv
<1>11. ResetFlow'
  BY <1>2, <1>4, <1>6, <1>8, <1>9 DEF ResetFlow, FlowInv
<1> QED BY <1>10, <1>11

-----------------------------------------------------------------------------
(* A clock of the requestor's control registers keeps their types.         *)
LEMMA CtlTypesStep ==
  ASSUME FlowInv, NEW mmio \in CsrWrites, NEW c0Hold \in BOOLEAN, NEW c1Hold \in BOOLEAN,
         NEW rsp, NEW ack, NEW err \in BOOLEAN,
         Clk(mmio, c0Hold, c1Hold, rsp, ack, err)
  PROVE  CtlTypes'
<1> USE DEF FlowInv, Clk, ReClk
<1>1. /\ test_Reset_n' \in BOOLEAN /\ test_go' \in BOOLEAN
      /\ cfg' \in AllCfgs /\ re2xy_NumLines' \in AllLines
  BY DEF ClkRegs, CsrTypes
<1>2. /\ re2xy_go' \in BOOLEAN /\ test_cmplt' \in BOOLEAN /\ read_only_test' \in BOOLEAN
      /\ test_stop' \in BOOLEAN /\ dsm_status_wren' \in BOOLEAN /\ WrFence_sent' \in BOOLEAN
      /\ status_write' \in BOOLEAN /\ send_interrupt' \in BOOLEAN
      /\ interrupt_sent' \in BOOLEAN /\ error' \in BOOLEAN
  BY DEF ClkControl
<1>3. RdHdr_valid_q' \in BOOLEAN /\ c0' \in BOOLEAN /\ dsm' \in BOOLEAN
  BY DEF ClkPipe, RdHdr_valid, Status, CtlTypes
<1> QED BY <1>1, <1>2, <1>3 DEF CtlTypes

(* The messages that carry no line are told from those that do.            *)
LEMMA LinesAreLines ==
  /\ NoItem \notin Lines /\ Fence \notin Lines /\ Dsm \notin Lines /\ Intr \notin Lines
  /\ NoItem \notin {Fence, Dsm, Intr}
  /\ Fence # Dsm /\ Fence # Intr /\ Dsm # Intr
<1>1. \A r \in Lines : DOMAIN r = {"sop", "len"}
  BY DEF Lines
<1>2. DOMAIN Fence = {"msg"} /\ DOMAIN Dsm = {"msg"} /\ DOMAIN Intr = {"msg"}
  BY DEF Fence, Dsm, Intr
<1>3. Fence # Dsm /\ Fence # Intr /\ Dsm # Intr
  BY DEF Fence, Dsm, Intr
<1>4. {"msg"} # {"sop", "len"}
  OBVIOUS
<1> QED BY <1>1, <1>2, <1>3, <1>4, NoItemAssumption DEF Lines

LEMMA EngineTypesStep ==
  ASSUME EngineTypes, NEW conf, NEW go, NEW lines, NEW rdSent \in BOOLEAN,
         NEW rsp \in Nat, NEW wrSent \in BOOLEAN, NEW ack \in Nat,
         RwClk(test_Reset_n, conf, go, lines, rdSent, rsp, wrSent, ack)
  PROVE  EngineTypes'
<1> USE DEF EngineTypes
<1>1. RdFSM_q' \in 0 .. 2 /\ WrFSM_q' \in 0 .. 2
  BY DEF RwClk
<1>2. CASE test_Reset_n
  <2>1. RdFSM' \in 0 .. 2 /\ WrFSM' \in 0 .. 2
    BY <1>2 DEF RwClk, RdMachine, WrMachine, FsmNext
  <2>2. rw2ab_TestCmp' \in BOOLEAN
    BY <1>2 DEF RwClk, allDone
  <2>3. Num_RdReqs' \in Nat /\ Num_WrReqs' \in Nat
    BY <1>2, SizesAssumption DEF RwClk, RdMachine, WrMachine
  <2>4. /\ RdSent_q' \in BOOLEAN /\ RdRsp_q' \in Nat
        /\ WrSent_q' \in BOOLEAN /\ WrRsp_q' \in Nat
    BY <1>2 DEF RwClk, RdMachine, WrMachine, rw2ab_WrEn
  <2>5. WrLen' \in 0 .. LineLen - 1
    <3>1. nextLen \in 0 .. LineLen - 1 /\ LineLen - 1 \in 0 .. LineLen - 1
      BY SizesAssumption DEF nextLen
    <3>2. \/ WrLen' = LineLen - 1 \/ WrLen' = nextLen \/ WrLen' = WrLen
      BY <1>2 DEF RwClk, WrMachine
    <3> QED BY <3>1, <3>2
  <2>6. WrSop' \in BOOLEAN
    BY <1>2 DEF RwClk, WrMachine
  <2>7. \A n \in Nat, up \in Nat, down \in Nat :
          Pend(n, up, down) \in Int /\ Pend(n, up, down) \in 0 .. PendMod - 1
    BY SizesAssumption DEF Pend
  <2>8. Num_RdPend' \in 0 .. PendMod - 1
    <3> DEFINE up == IF RdSent_q THEN LineLen ELSE 0
               down == IF RdSent_q \/ ~rw2ab_TestCmp THEN RdRsp_q ELSE 0
    <3>1. Num_RdPend' = Pend(Num_RdPend, up, down)
      BY <1>2 DEF RwClk, RdMachine
    <3>2. Num_RdPend \in Nat /\ up \in Nat /\ down \in Nat
      BY SizesAssumption
    <3> HIDE DEF up, down
    <3> QED BY <2>7, <3>1, <3>2
  <2>9. Num_WrPend' \in 0 .. PendMod - 1
    <3> DEFINE up == IF WrSent_q THEN 1 ELSE 0
               down == IF WrSent_q \/ ~rw2ab_TestCmp THEN WrRsp_q ELSE 0
    <3>1. Num_WrPend' = Pend(Num_WrPend, up, down)
      BY <1>2 DEF RwClk, WrMachine
    <3>2. Num_WrPend \in Nat /\ up \in Nat /\ down \in Nat
      BY SizesAssumption
    <3> HIDE DEF up, down
    <3> QED BY <2>7, <3>1, <3>2
  <2> QED BY <1>1, <2>1, <2>2, <2>3, <2>4, <2>5, <2>6, <2>8, <2>9
<1>3. CASE ~test_Reset_n
  <2>1. /\ RdFSM' \in 0 .. 2 /\ WrFSM' \in 0 .. 2
        /\ Num_RdPend' \in 0 .. PendMod - 1 /\ Num_WrPend' \in 0 .. PendMod - 1
        /\ Num_RdReqs' \in Nat /\ Num_WrReqs' \in Nat /\ RdRsp_q' \in Nat /\ WrRsp_q' \in Nat
        /\ WrLen' \in 0 .. LineLen - 1
    BY <1>3, SizesAssumption DEF RwClk
  <2>2. /\ RdSent_q' \in BOOLEAN /\ WrSent_q' \in BOOLEAN
        /\ rw2ab_TestCmp' \in BOOLEAN /\ WrSop' \in BOOLEAN
    BY <1>3 DEF RwClk, rw2ab_WrEn
  <2> QED BY <1>1, <2>1, <2>2
<1> QED BY <1>2, <1>3

LEMMA PipeTypesStep ==
  ASSUME FlowInv, NEW mmio, NEW c0Hold \in BOOLEAN, NEW c1Hold \in BOOLEAN,
         NEW rsp, NEW ack, NEW err,
         Clk(mmio, c0Hold, c1Hold, rsp, ack, err)
  PROVE  PipeTypes'
<1>1. EngineTypes /\ PipeTypes
  BY DEF FlowInv
<1>2. Queue(c1Hold) /\ ClkC1 /\ ClkPipe(rw2ab_RdEn, c0Hold, c1Hold, out)
  BY DEF Clk, ReClk
<1>3. rw2ab_Wr \in Lines
  BY <1>1 DEF EngineTypes, rw2ab_Wr, Lines
<1>4. TxQ!HeadOf(q) \in Stage
  BY <1>1 DEF PipeTypes, TxQ!HeadOf, Stage
<1>5. /\ q' \in Seq(Lines) /\ Len(q') <= TxCap /\ head' = TxQ!HeadOf(q')
      /\ out' \in Stage \X Stage
  <2>1. CASE ~test_Reset_n
    BY <1>2, <2>1, SizesAssumption DEF Queue, TxQ!Clear, TxQ!HeadOf, Stage
  <2>2. CASE test_Reset_n
    <3> DEFINE pop == txFifo_RdAck(head # NoItem, c1Hold)
               rest == IF pop /\ q # <<>> THEN Tail(q) ELSE q
    <3>1. /\ q' = IF rw2ab_WrEn /\ Len(q) < TxCap THEN Append(rest, rw2ab_Wr) ELSE rest
          /\ head' = TxQ!HeadOf(q')
          /\ out' = <<IF pop THEN TxQ!HeadOf(q) ELSE NoItem, out[1]>>
      BY <1>2, <2>2 DEF Queue, TxQ!Clock, TxQ!HeadOf
    <3>2. rest \in Seq(Lines) /\ Len(rest) <= Len(q)
      BY <1>1 DEF PipeTypes
    <3>3. q' \in Seq(Lines) /\ Len(q') <= TxCap
      BY <1>1, <1>3, <3>1, <3>2, SizesAssumption DEF PipeTypes
    <3>4. out' \in Stage \X Stage
      BY <1>1, <1>4, <3>1 DEF PipeTypes, Stage
    <3> QED BY <3>1, <3>3, <3>4
  <2> QED BY <2>1, <2>2
<1>6. /\ AlmFull_T1' \in BOOLEAN /\ WrHdr_valid_T2' \in BOOLEAN
      /\ wr_T3' \in Stage /\ wr_T4' \in Stage
  BY <1>1, <1>2 DEF ClkPipe, PipeTypes, Stage, FlowInv, CtlTypes
<1>7. c1' \in Stage \cup {Fence, Dsm, Intr}
  BY <1>1, <1>2 DEF ClkC1, PipeTypes, Stage
<1> QED BY <1>5, <1>6, <1>7 DEF PipeTypes

LEMMA HostTypesStep ==
  ASSUME HostTypes, PipeTypes', NEW rsp \in Rsps, NEW ack \in Acks, Host(rsp, ack)
  PROVE  HostTypes'
<1>1. rdout' \in Nat /\ wrout' \in Nat
  BY SizesAssumption DEF HostTypes, Host, Rsps, Acks
<1>2. IsWrite(c1') => c1' \in Lines
  BY DEF IsWrite, PipeTypes, Stage
<1>3. open' \in 0 .. LineLen - 1
  BY <1>2 DEF HostTypes, Host, Lines
<1> QED BY <1>1, <1>3 DEF HostTypes

(* The status write is seen once the run has ended.                        *)
LEMMA DsmFlowStep ==
  ASSUME FlowInv, NEW mmio \in CsrWrites, NEW c0Hold \in BOOLEAN, NEW c1Hold \in BOOLEAN,
         NEW rsp, NEW ack, NEW err \in BOOLEAN,
         Software(mmio), Clk(mmio, c0Hold, c1Hold, rsp, ack, err)
  PROVE  DsmFlow'
<1>1. CsrTypes /\ CtlTypes /\ PipeTypes /\ DsmFlow /\ ResetFlow /\ PristineFlow
  BY DEF FlowInv
<1>2. CsrClk(FALSE, mmio) /\ Status /\ ClkC1
      /\ ClkPipe(rw2ab_RdEn, c0Hold, c1Hold, out)
      /\ ClkControl(csr.CTL, Connected /\ rw2ab_TestCmp, FALSE, err)
  BY DEF Clk, ReClk
<1>3. sw \in {"run", "force"} => test_Reset_n
  BY <1>1 DEF ResetFlow
<1>4. test_Reset_n /\ status_write => status_write' /\ ~re2xy_go' /\ ~RdHdr_valid_q'
  BY <1>1, <1>2 DEF ClkControl, ClkPipe, RdHdr_valid, CtlTypes
<1>5. c1 = Dsm => sw \in {"run", "force"}
  BY <1>1, NoItemAssumption DEF PristineFlow, Before, Still, Unmoved, CsrTypes, Dsm, Intr
<1>6. sw' # "off" /\ sw \in {"run", "force"} => sw' \in {"run", "force"}
  BY <1>2, Moves
<1>7. c1' = Dsm => test_Reset_n /\ status_write'
  <2>1. SUFFICES ASSUME c1' = Dsm
                 PROVE  test_Reset_n /\ status_write'
    OBVIOUS
  <2>2. re2xy_go
    BY <1>2, <2>1, NoItemAssumption DEF ClkC1, sendsDsm, sendsData, sendsFence, Dsm, Intr, Fence
  <2>3. test_Reset_n
    BY <1>1, <1>3, <2>2 DEF PristineFlow, Before, Still, Unmoved, CsrTypes
  <2>4. CASE sendsDsm
    BY <1>2, <2>3, <2>4 DEF ClkControl
  <2>5. CASE ~sendsDsm
    BY <1>1, <1>2, <2>1, <2>5, LinesAreLines DEF ClkC1, PipeTypes, Stage, FlowInv
  <2> QED BY <2>3, <2>4, <2>5
<1> QED BY <1>1, <1>2, <1>3, <1>4, <1>5, <1>6, <1>7 DEF DsmFlow, Status

(* A clock of the reset clears the run's state.                            *)
LEMMA ClearStep ==
  ASSUME NEW mmio, NEW c0Hold \in BOOLEAN, NEW c1Hold \in BOOLEAN, NEW rsp, NEW ack, NEW err,
         Clk(mmio, c0Hold, c1Hold, rsp, ack, err), ~test_Reset_n
  PROVE  Cleared'
<1>1. /\ q' = <<>> /\ head' = NoItem /\ out' = <<NoItem, NoItem>>
  BY DEF Clk, Queue, TxQ!Clear, TxQ!HeadOf
<1>2. /\ RdFSM' = 0 /\ WrFSM' = 0 /\ Num_RdPend' = 0 /\ Num_WrPend' = 0
      /\ rw2ab_TestCmp' = FALSE
  BY DEF Clk, RwClk
<1>3. WrHdr_valid_T2' = FALSE /\ wr_T3' = NoItem /\ wr_T4' = NoItem
  BY DEF Clk, ReClk, ClkPipe
<1>4. /\ ~test_cmplt' /\ ~test_stop' /\ ~dsm_status_wren' /\ ~WrFence_sent'
      /\ ~status_write' /\ ~send_interrupt' /\ ~interrupt_sent' /\ ~error'
  BY DEF Clk, ReClk, ClkControl
<1> QED BY <1>1, <1>2, <1>3, <1>4 DEF Cleared

(* Nothing moves until a test starts.                                      *)
LEMMA StillStep ==
  ASSUME FlowInv, Still, NEW mmio, NEW c0Hold \in BOOLEAN, NEW c1Hold \in BOOLEAN,
         NEW rsp \in Rsps, NEW ack \in Acks, NEW err,
         Clk(mmio, c0Hold, c1Hold, rsp, ack, err)
  PROVE  Unmoved'
<1>1. ~RdHdr_valid_q' /\ ~c0'
  BY DEF Clk, ReClk, ClkPipe, RdHdr_valid, Still, Unmoved
<1>2. c1' \in {NoItem, Intr}
  BY DEF Clk, ReClk, ClkC1, sendsDsm, sendsData, sendsFence, Still, Unmoved
<1>3. rsp = 0 /\ ack = 0
  BY SizesAssumption DEF Rsps, Acks, Still, Unmoved
<1>4. ~IsWrite(c1) /\ c1 # Dsm
  BY LinesAreLines DEF Still, Unmoved, IsWrite
<1>5. rdout' = 0 /\ wrout' = 0
  BY <1>3, <1>4 DEF Clk, Host, Still, Unmoved
<1> QED BY <1>1, <1>2, <1>5 DEF Unmoved

(* What the reset has cleared stays so until a test starts.                *)
LEMMA PristineStep ==
  ASSUME FlowInv, NEW mmio, NEW c0Hold \in BOOLEAN, NEW c1Hold \in BOOLEAN,
         NEW rsp \in Rsps, NEW ack \in Acks, NEW err \in BOOLEAN,
         Clk(mmio, c0Hold, c1Hold, rsp, ack, err),
         Cleared, Still, ~test_Reset_n \/ Pristine,
         test_Reset_n => "force" \notin csr.CTL
  PROVE  Fresh'
<1>1. Unmoved'
  BY StillStep
<1>2. /\ q' = <<>> /\ head' = NoItem /\ out' = <<NoItem, NoItem>>
  <2>1. CASE ~test_Reset_n
    BY <2>1 DEF Clk, Queue, TxQ!Clear, TxQ!HeadOf
  <2>2. CASE test_Reset_n
    <3>1. ~rw2ab_WrEn /\ q = <<>> /\ out[1] = NoItem
      BY DEF Cleared, rw2ab_WrEn
    <3> QED BY <2>2, <3>1 DEF Clk, Queue, TxQ!Clock, TxQ!HeadOf
  <2> QED BY <2>1, <2>2
<1>3. WrHdr_valid_T2' = FALSE /\ wr_T3' = NoItem /\ wr_T4' = NoItem
  BY DEF Clk, ReClk, ClkPipe, Cleared
<1>4. rsp = 0 /\ ack = 0
  BY SizesAssumption DEF Rsps, Acks, Still, Unmoved
<1>5. RdSent_q' = FALSE /\ WrSent_q' = FALSE /\ RdRsp_q' = 0 /\ WrRsp_q' = 0
  <2>1. /\ RdSent_q' = RdHdr_valid(rw2ab_RdEn, c0Hold) /\ RdRsp_q' = rsp /\ WrRsp_q' = ack
        /\ WrSent_q' = (rw2ab_WrEn /\ Len(q) < TxCap)
    BY DEF Clk, RwClk, RdMachine, WrMachine
  <2>2. RdHdr_valid(rw2ab_RdEn, c0Hold) = FALSE /\ ~rw2ab_WrEn
    BY DEF RdHdr_valid, rw2ab_WrEn, Cleared, Still, Unmoved
  <2> QED BY <1>4, <2>1, <2>2
<1>6. RdFSM_q' = 0 /\ WrFSM_q' = 0
  BY DEF Clk, RwClk, Cleared
<1>7. /\ RdFSM' = 0 /\ WrFSM' = 0 /\ Num_RdPend' = 0 /\ Num_WrPend' = 0
      /\ rw2ab_TestCmp' = FALSE
  <2>1. CASE ~test_Reset_n
    BY <2>1 DEF Clk, RwClk
  <2>2. CASE test_Reset_n
    <3>1. RdFSM' = 0 /\ WrFSM' = 0
      BY <2>2 DEF Clk, RwClk, RdMachine, WrMachine, FsmNext, Cleared, Still
    <3>2. rw2ab_TestCmp' = FALSE
      BY <2>2 DEF Clk, RwClk, allDone, Pristine, Fresh
    <3>3. Pend(0, 0, 0) = 0
      BY SizesAssumption DEF Pend
    <3>4. RdSent_q = FALSE /\ WrSent_q = FALSE /\ RdRsp_q = 0 /\ WrRsp_q = 0
            /\ Num_RdPend = 0 /\ Num_WrPend = 0
      BY <2>2 DEF Pristine, Fresh, Cleared
    <3>5. Num_RdPend' = 0
      BY <2>2, <3>3, <3>4 DEF Clk, RwClk, RdMachine
    <3>6. Num_WrPend' = 0
      BY <2>2, <3>3, <3>4 DEF Clk, RwClk, WrMachine
    <3> QED BY <3>1, <3>2, <3>5, <3>6
  <2> QED BY <2>1, <2>2
<1>8. /\ ~test_cmplt' /\ ~test_stop' /\ ~dsm_status_wren' /\ ~WrFence_sent'
      /\ ~status_write' /\ ~send_interrupt' /\ ~interrupt_sent' /\ ~error'
  BY DEF Clk, ReClk, ClkControl, Cleared, Still, stopsHere, sendsFence, sendsDsm, sendsIntr
<1> QED BY <1>1, <1>2, <1>3, <1>5, <1>6, <1>7, <1>8 DEF Fresh, Cleared

LEMMA PristineFlowStep ==
  ASSUME FlowInv, NEW mmio \in CsrWrites, NEW c0Hold \in BOOLEAN, NEW c1Hold \in BOOLEAN,
         NEW rsp \in Rsps, NEW ack \in Acks, NEW err \in BOOLEAN,
         Software(mmio), Clk(mmio, c0Hold, c1Hold, rsp, ack, err)
  PROVE  PristineFlow'
<1>1. /\ CsrTypes /\ CtlTypes /\ CtlFlow /\ LockFlow /\ ResetFlow /\ PristineFlow /\ DsmFlow
  BY DEF FlowInv
<1>2. CsrClk(FALSE, mmio) /\ ClkRegs(csr.CTL, csr.CFG, csr.LINES)
      /\ ClkControl(csr.CTL, Connected /\ rw2ab_TestCmp, FALSE, err)
  BY DEF Clk, ReClk
<1>3. /\ "reset_n" \in csr.CTL <=> \/ sw \in {"lines", "config", "run", "force"}
                                   \/ sw = "reset" /\ ~Pending
                                   \/ sw = "off" /\ Pending
      /\ "go" \in csr.CTL <=> (sw = "run" /\ ~Pending) \/ sw = "force"
                                \/ (sw = "off" /\ Pending)
  BY <1>1, CtlBitsOf
<1>4. test_Reset_n' = ("reset_n" \in csr.CTL) /\ test_go' = ("go" \in csr.CTL)
  BY <1>2 DEF ClkRegs
<1>5. RunOver => Still /\ status_write
  BY <1>1 DEF RunOver, DsmFlow, Still, Unmoved
<1>6. /\ re2xy_go' = (test_Reset_n /\ ~status_write /\ (test_go \/ re2xy_go))
      /\ test_Reset_n /\ status_write => status_write'
  BY <1>1, <1>2 DEF ClkControl, CtlTypes
<1>7. \/ sw' = sw /\ ~Pending'
      \/ sw = "off" /\ sw' = "reset" /\ ~Pending /\ Pending'
      \/ sw = "reset" /\ sw' = "lines" /\ ~Pending /\ ~Pending'
      \/ sw = "lines" /\ sw' = "config" /\ ~Pending /\ ~Pending'
      \/ sw = "config" /\ sw' = "run" /\ ~Pending /\ Pending'
      \/ sw = "run" /\ sw' = "force" /\ ~Pending /\ Pending'
      \/ sw \in {"run", "force"} /\ sw' = "off" /\ ~Pending /\ Pending' /\ RunOver
  BY <1>2, Moves
<1>8. sw \in {"off", "reset", "lines", "config", "run", "force"}
  BY <1>1 DEF CsrTypes
<1>9. sw \in {"reset", "lines", "config"} \/ (sw = "run" /\ ~test_go) => "force" \notin csr.CTL
  BY <1>1 DEF CtlFlow, CtlOf
<1>10. Pristine => Cleared /\ Still
  BY DEF Pristine, Fresh, Still
<1> HIDE DEF Pending
<1>11. Before' => Still'
  <2>1. SUFFICES ASSUME Before' PROVE Still'
    OBVIOUS
  <2>2. Still
    BY <1>1, <1>5, <1>7, <1>8, <2>1 DEF Before, PristineFlow
  <2>3. ~re2xy_go
    BY <2>2 DEF Still
  <2>4. ~re2xy_go'
    BY <1>1, <1>5, <1>6, <1>7, <1>8, <2>1, <2>3 DEF Before, ResetFlow, LockFlow
  <2>5. Unmoved'
    BY <2>2, StillStep
  <2> QED BY <2>4, <2>5 DEF Still
<1>12. sw' = "reset" /\ ~Pending' /\ ~test_Reset_n' => Cleared'
  <2>1. SUFFICES ASSUME sw' = "reset", ~Pending', ~test_Reset_n' PROVE Cleared'
    OBVIOUS
  <2>2. ~test_Reset_n
    BY <1>1, <1>3, <1>4, <1>7, <1>8, <2>1 DEF ResetFlow
  <2> QED BY <2>2, ClearStep
<1>13. (sw' = "reset" /\ ~Pending' /\ test_Reset_n') \/ sw' \in {"lines", "config"} => Pristine'
  <2>1. SUFFICES ASSUME (sw' = "reset" /\ ~Pending' /\ test_Reset_n') \/ sw' \in {"lines", "config"}
                 PROVE  Pristine'
    OBVIOUS
  <2>2. sw \in {"reset", "lines", "config"} /\ ~Pending
    <3>1. CASE sw' = "reset"
      BY <1>3, <1>4, <1>7, <1>8, <2>1, <3>1
    <3>2. CASE sw' \in {"lines", "config"}
      BY <1>1, <1>7, <1>8, <3>2 DEF CtlFlow
    <3> QED BY <2>1, <3>1, <3>2
  <2>3. Still /\ ~test_go /\ ~re2xy_go
    BY <1>1, <2>2 DEF Before, PristineFlow, LockFlow, Still
  <2>4. Cleared /\ (~test_Reset_n \/ Pristine)
    BY <1>1, <1>10, <2>2 DEF PristineFlow
  <2>5. ~re2xy_go'
    BY <1>6, <2>3
  <2>6. Fresh'
    BY <1>9, <2>2, <2>3, <2>4, PristineStep
  <2> QED BY <2>5, <2>6 DEF Pristine
<1>14. sw' \in {"run", "force"} /\ ~re2xy_go' /\ ~status_write' =>
         Pristine' /\ (sw' = "force" => test_go' /\ Pending')
  <2>1. SUFFICES ASSUME sw' \in {"run", "force"}, ~re2xy_go', ~status_write'
                 PROVE  Pristine' /\ (sw' = "force" => test_go' /\ Pending')
    OBVIOUS
  <2>2. sw \in {"config", "run", "force"} /\ test_Reset_n
    BY <1>1, <1>7, <1>8, <2>1 DEF ResetFlow
  <2>3. ~status_write /\ ~test_go /\ ~re2xy_go
    BY <1>6, <2>1, <2>2
  <2>4. Pristine /\ sw \in {"config", "run"}
    BY <1>1, <2>2, <2>3 DEF PristineFlow
  <2>5. Pristine'
    <3>1. Fresh'
      BY <1>9, <1>10, <2>3, <2>4, PristineStep
    <3> QED BY <2>1, <3>1 DEF Pristine
  <2>6. sw' = "force" => test_go' /\ Pending'
    BY <1>3, <1>4, <1>7, <2>4
  <2> QED BY <2>5, <2>6
<1> QED BY <1>11, <1>12, <1>13, <1>14 DEF PristineFlow

-----------------------------------------------------------------------------
(***************************************************************************)
(* The flow invariant holds in every reachable state.                      *)
(***************************************************************************)
LEMMA FlowInvInit == Init => FlowInv
<1> SUFFICES ASSUME Init PROVE FlowInv
  OBVIOUS
<1> USE DEF Init, CsrInit, ReInit, RwInit, FlowInit, TxQ!Init, TxQ!Outputs
<1>1. CsrTypes
  BY DEF CsrTypes, CsrWrites, Defaults, AllCfgs, AllLines
<1>2. CtlTypes
  BY DEF CtlTypes, AllCfgs, AllLines
<1>3. EngineTypes
  <2>1. RdSent_q \in BOOLEAN /\ WrSent_q \in BOOLEAN /\ rw2ab_TestCmp \in BOOLEAN /\ WrSop \in BOOLEAN
    BY Zenon
  <2>2. /\ RdFSM \in 0 .. 2 /\ WrFSM \in 0 .. 2 /\ RdFSM_q \in 0 .. 2 /\ WrFSM_q \in 0 .. 2
        /\ Num_RdPend \in 0 .. PendMod - 1 /\ Num_WrPend \in 0 .. PendMod - 1
        /\ Num_RdReqs \in Nat /\ Num_WrReqs \in Nat /\ RdRsp_q \in Nat /\ WrRsp_q \in Nat
        /\ WrLen \in 0 .. LineLen - 1
    BY SizesAssumption
  <2> QED BY <2>1, <2>2 DEF EngineTypes
<1>4. PipeTypes
  <2>1. q \in Seq(Lines) /\ Len(q) <= TxCap /\ head = TxQ!HeadOf(q)
    BY SizesAssumption DEF TxQ!HeadOf
  <2>2. AlmFull_T1 \in BOOLEAN /\ WrHdr_valid_T2 \in BOOLEAN
    BY Zenon
  <2>3. /\ out \in Stage \X Stage /\ wr_T3 \in Stage /\ wr_T4 \in Stage
        /\ c1 \in Stage \cup {Fence, Dsm, Intr}
    BY DEF Stage
  <2> QED BY <2>1, <2>2, <2>3 DEF PipeTypes
<1>5. HostTypes
  BY SizesAssumption DEF HostTypes
<1>6. ~Pending
  BY DEF Pending, Carries
<1>7. CtlFlow
  BY <1>6 DEF CtlFlow, CtlOf, Defaults
<1>8. LockFlow /\ ResetFlow
  BY <1>6 DEF LockFlow, ResetFlow
<1>9. PristineFlow
  BY <1>6 DEF PristineFlow, Before, Still, Unmoved
<1>10. DsmFlow
  BY NoItemAssumption DEF DsmFlow
<1> QED BY <1>1, <1>2, <1>3, <1>4, <1>5, <1>7, <1>8, <1>9, <1>10 DEF FlowInv

(* From the clock a test starts in, CSR_CFG does not change either.        *)
LEMMA CfgStep ==
  ASSUME FlowInv, NEW mmio \in CsrWrites, NEW c0Hold, NEW c1Hold, NEW rsp, NEW ack, NEW err,
         Clk(mmio, c0Hold, c1Hold, rsp, ack, err), re2xy_go'
  PROVE  cfg' = csr.CFG /\ csr'.CFG = csr.CFG
<1>1. CsrTypes /\ CtlTypes /\ LockFlow /\ CsrClk(FALSE, mmio)
  BY DEF FlowInv, Clk
<1>2. test_go \/ re2xy_go
  BY DEF Clk, ReClk, ClkControl
<1>3. ~re2cr_wrlock_n
  BY <1>1, <1>2 DEF LockFlow
<1>4. csr'.CFG = csr.CFG
  BY <1>1, <1>3, CsrStep
<1> QED BY <1>4 DEF Clk, ReClk, ClkRegs

LEMMA FlowInvStep == FlowInv /\ [Next]_vars => FlowInv'
<1> SUFFICES ASSUME FlowInv, [Next]_vars PROVE FlowInv'
  OBVIOUS
<1>1. CASE UNCHANGED vars
  BY <1>1 DEF FlowInv, vars, csrVars, swVars, reVars, reRegs, reCtl, rePipe, rwVars, hostVars,
       CsrTypes, CtlTypes, EngineTypes, PipeTypes, HostTypes, CtlFlow, LockFlow, ResetFlow,
       PristineFlow, DsmFlow, Before, Still, Unmoved, Cleared, Fresh, Pristine, Pending, Carries
<1>2. CASE Next
  <2>1. PICK mmio \in CsrWrites :
          /\ Software(mmio)
          /\ \E c0Hold, c1Hold, err \in BOOLEAN, rsp \in Rsps, ack \in Acks :
               Clk(mmio, c0Hold, c1Hold, rsp, ack, err)
    BY <1>2, NextSteps
  <2>2. PICK c0Hold \in BOOLEAN, c1Hold \in BOOLEAN, err \in BOOLEAN, rsp \in Rsps, ack \in Acks :
          Clk(mmio, c0Hold, c1Hold, rsp, ack, err)
    BY <2>1
  <2>3. rsp \in Nat /\ ack \in Nat
    BY SizesAssumption DEF Rsps, Acks
  <2>4. CsrTypes' /\ CtlFlow'
    BY <2>1, <2>2, CsrTypesStep, CtlFlowStep DEF FlowInv, Clk
  <2>5. CtlTypes'
    BY <2>2, CtlTypesStep
  <2>6. EngineTypes'
    <3>1. RdHdr_valid(rw2ab_RdEn, c0Hold) \in BOOLEAN /\ (Len(q) < TxCap) \in BOOLEAN
      BY DEF RdHdr_valid
    <3>2. RwClk(test_Reset_n, cfg, re2xy_go, re2xy_NumLines,
                RdHdr_valid(rw2ab_RdEn, c0Hold), rsp, Len(q) < TxCap, ack)
      BY <2>2 DEF Clk
    <3> QED BY <2>3, <3>1, <3>2, EngineTypesStep DEF FlowInv
  <2>7. PipeTypes'
    BY <2>2, PipeTypesStep
  <2>8. HostTypes'
    BY <2>2, <2>7, HostTypesStep DEF FlowInv, Clk
  <2>9. LockFlow' /\ ResetFlow'
    BY <2>1, <2>2, LockFlowStep DEF Clk, ReClk, ClkControl
  <2>10. PristineFlow' /\ DsmFlow'
    BY <2>1, <2>2, PristineFlowStep, DsmFlowStep
  <2>11. re2xy_go' => cfg' = csr'.CFG
    BY <2>1, <2>2, CfgStep
  <2> QED BY <2>4, <2>5, <2>6, <2>7, <2>8, <2>9, <2>10, <2>11 DEF FlowInv
<1> QED BY <1>1, <1>2

THEOREM FlowInvariant == Spec => []FlowInv
BY FlowInvInit, FlowInvStep, PTL DEF Spec

(***************************************************************************)
(* Types: the counters of the engine keep to their width, the queue to its *)
(* entries, and the host is never owed a negative number of lines.         *)
(***************************************************************************)
THEOREM RunTypes == Spec => []TypeOK
<1>1. FlowInv => TypeOK
  BY DEF FlowInv, CsrTypes, CtlTypes, EngineTypes, PipeTypes, HostTypes, AllCfgs, TypeOK
<1> QED BY <1>1, FlowInvariant, PTL

(***************************************************************************)
(* No configuration written by the software, late or during the run,       *)
(* changes that of a test once it has started: the registered write lock   *)
(* of nlb_csr closes no later than the registered start of the requestor.  *)
(***************************************************************************)
THEOREM RunConfigFrozen == Spec => ConfigFrozen
<1>1. FlowInv /\ [Next]_vars => [re2xy_go => cfg' = cfg]_vars
  <2> SUFFICES ASSUME FlowInv, Next, re2xy_go PROVE cfg' = cfg
    BY Zenon
  <2>1. PICK mmio \in CsrWrites, c0Hold \in BOOLEAN, c1Hold \in BOOLEAN, err \in BOOLEAN,
             rsp \in Rsps, ack \in Acks : Clk(mmio, c0Hold, c1Hold, rsp, ack, err)
    BY NextSteps
  <2>2. cfg' = csr.CFG
    BY <2>1 DEF Clk, ReClk, ClkRegs
  <2> QED BY <2>2 DEF FlowInv
<1> QED BY <1>1, FlowInvariant, PTL DEF Spec, ConfigFrozen

-----------------------------------------------------------------------------
(***************************************************************************)
(* What the software has chosen is in the registers, or on its way to      *)
(* them past the open lock, when the test starts.                          *)
(***************************************************************************)
ChoiceInv ==
  /\ Carries("LINES") => sw = "lines" /\ wr_T1.val = swlines
  /\ ~Carries("LINES") => csr.LINES = swlines
  /\ Carries("CFG") => sw = "config" /\ wr_T1.val = swcfg
  /\ ~Carries("CFG") => csr.CFG = swcfg
  /\ re2xy_go => cfg = swcfg /\ re2xy_NumLines = swlines

(* A step of software that does not meddle, as the registers see it.       *)
LEMMA ChoiceMoves ==
  ASSUME ~Meddles, FlowInv, NEW mmio \in CsrWrites, CsrClk(FALSE, mmio), Software(mmio)
  PROVE  \/ /\ UNCHANGED <<swcfg, swlines>> /\ ~Carries("LINES")' /\ ~Carries("CFG")'
         \/ /\ wr_T1 = NoWrite /\ sw = "reset" /\ sw' = "lines" /\ swcfg' = swcfg
            /\ Carries("LINES")' /\ ~Carries("CFG")' /\ wr_T1'.val = swlines'
         \/ /\ wr_T1 = NoWrite /\ sw = "lines" /\ sw' = "config" /\ swlines' = swlines
            /\ Carries("CFG")' /\ ~Carries("LINES")' /\ wr_T1'.val = swcfg'
<1>1. wr_T1' = mmio
  BY DEF CsrClk
<1>2. CASE Idle(mmio)
  BY <1>1, <1>2 DEF Idle, swVars, Carries
<1>3. CASE wr_T1 = NoWrite /\ TestFlow(RunOver, mmio)
  <2>1. ASSUME NEW v, mmio = CsrWrite("CTL", v), Keep
        PROVE  UNCHANGED <<swcfg, swlines>> /\ ~Carries("LINES")' /\ ~Carries("CFG")'
    BY <1>1, <2>1 DEF CsrWrite, Keep, Carries
  <2>2. ASSUME NEW n \in LineCounts, Flow("reset", "lines", CsrWrite("LINES", n), mmio),
               swlines' = n /\ UNCHANGED swcfg
        PROVE  /\ sw = "reset" /\ sw' = "lines" /\ swcfg' = swcfg
               /\ Carries("LINES")' /\ ~Carries("CFG")' /\ wr_T1'.val = swlines'
    BY <1>1, <2>2, NoWriteAssumption DEF Flow, CsrWrite, Carries
  <2>3. ASSUME NEW c \in Configs, Flow("lines", "config", CsrWrite("CFG", c), mmio),
               swcfg' = c /\ UNCHANGED swlines
        PROVE  /\ sw = "lines" /\ sw' = "config" /\ swlines' = swlines
               /\ Carries("CFG")' /\ ~Carries("LINES")' /\ wr_T1'.val = swcfg'
    BY <1>1, <2>3, NoWriteAssumption DEF Flow, CsrWrite, Carries
  <2> QED BY <1>3, <2>1, <2>2, <2>3 DEF TestFlow, Flow
<1> QED BY <1>2, <1>3 DEF Software, Meddle

LEMMA ChoiceInvStep == ~Meddles /\ FlowInv /\ ChoiceInv /\ [Next]_vars => ChoiceInv'
<1> SUFFICES ASSUME ~Meddles, FlowInv, ChoiceInv, [Next]_vars PROVE ChoiceInv'
  OBVIOUS
<1>1. CASE UNCHANGED vars
  BY <1>1 DEF ChoiceInv, vars, csrVars, swVars, reVars, reRegs, reCtl, Carries
<1>2. CASE Next
  <2>1. PICK mmio \in CsrWrites :
          /\ Software(mmio)
          /\ \E c0Hold, c1Hold, err \in BOOLEAN, rsp \in Rsps, ack \in Acks :
               Clk(mmio, c0Hold, c1Hold, rsp, ack, err)
    BY <1>2, NextSteps
  <2>2. PICK c0Hold \in BOOLEAN, c1Hold \in BOOLEAN, err \in BOOLEAN, rsp \in Rsps, ack \in Acks :
          Clk(mmio, c0Hold, c1Hold, rsp, ack, err)
    BY <2>1
  <2>3. /\ CsrTypes /\ CtlTypes /\ LockFlow /\ ResetFlow /\ PristineFlow /\ CtlFlow
        /\ CsrClk(FALSE, mmio)
    BY <2>2 DEF FlowInv, Clk
  <2>4. \/ /\ UNCHANGED <<swcfg, swlines>> /\ ~Carries("LINES")' /\ ~Carries("CFG")'
        \/ /\ wr_T1 = NoWrite /\ sw = "reset" /\ sw' = "lines" /\ swcfg' = swcfg
           /\ Carries("LINES")' /\ ~Carries("CFG")' /\ wr_T1'.val = swlines'
        \/ /\ wr_T1 = NoWrite /\ sw = "lines" /\ sw' = "config" /\ swlines' = swlines
           /\ Carries("CFG")' /\ ~Carries("LINES")' /\ wr_T1'.val = swcfg'
    BY <2>1, <2>3, ChoiceMoves
  <2>5. csr'.LINES = swlines /\ csr'.CFG = swcfg
    BY <2>3, CsrStep DEF ChoiceInv, LockFlow
  <2>6. re2xy_go' => cfg' = swcfg' /\ re2xy_NumLines' = swlines'
    <3>1. SUFFICES ASSUME re2xy_go' PROVE cfg' = swcfg' /\ re2xy_NumLines' = swlines'
      OBVIOUS
    <3>2. test_Reset_n /\ ~status_write /\ (test_go \/ re2xy_go)
      BY <2>2, <3>1 DEF Clk, ReClk, ClkControl
    <3>3. sw \in {"run", "force"}
      BY <2>3, <3>2 DEF CsrTypes, LockFlow, ResetFlow, PristineFlow, Before, Still, Unmoved
    <3>4. csr.LINES = swlines /\ csr.CFG = swcfg
      BY <3>3 DEF ChoiceInv
    <3>5. cfg' = csr.CFG /\ re2xy_NumLines' = csr.LINES
      BY <2>2 DEF Clk, ReClk, ClkRegs
    <3> QED BY <2>4, <3>3, <3>4, <3>5
  <2> QED BY <2>4, <2>5, <2>6 DEF ChoiceInv, Carries
<1> QED BY <1>1, <1>2

(***************************************************************************)
(* A test runs with the configuration its software chose for it, however   *)
(* the test before it ended and whatever was written since, unless the     *)
(* software itself writes the configuration of a test it has started.      *)
(***************************************************************************)
THEOREM RunAsConfigured == ASSUME ~Meddles PROVE Spec => []RunsAsConfigured
<1>1. Init => ChoiceInv
  BY DEF Init, CsrInit, FlowInit, ReInit, ChoiceInv, Carries, Defaults
<1>2. FlowInv /\ ChoiceInv /\ [Next]_vars => ChoiceInv'
  BY ChoiceInvStep
<1>3. ChoiceInv => RunsAsConfigured
  BY DEF ChoiceInv, RunsAsConfigured
<1> QED BY <1>1, <1>2, <1>3, FlowInvariant, PTL DEF Spec

-----------------------------------------------------------------------------
(***************************************************************************)
(* Proofs about what a run sends: the pending counters of the engine are   *)
(* exact, so a run that was not forced reports completion only when it is  *)
(* drained, and channel C1 carries whole packets, a fence, a status write  *)
(* and an interrupt, in this order (StreamOrder).                          *)
(***************************************************************************)

(***************************************************************************)
(* The 11 bits of the pending counters are wide enough for what can be on  *)
(* its way: the queue, five stages and what the host has yet to answer.    *)
(***************************************************************************)
CountersWide ==
  /\ TxCap + MaxWrites + 5 < PendMod
  /\ MaxReads + 3 * LineLen < PendMod

(* The run goes on: nothing has cut it off or fenced it.                   *)
Running == re2xy_go /\ ~test_stop /\ ~WrFence_sent

(* The stages between the queue and the host.                              *)
stages == One(out[1] # NoItem) + One(WrHdr_valid_T2) + One(wr_T3 # NoItem)
            + One(wr_T4 # NoItem) + One(IsWrite(c1))

CounterInv ==
  /\ RdSent_q = RdHdr_valid_q
  /\ sw \in {"run", "force"} /\ WrFSM_q = 2 => WrFSM = 2 /\ ~WrSent_q
  /\ sw \in {"run", "force"} /\ RdFSM_q = 2 => RdFSM = 2 /\ ~RdSent_q
  /\ PendingExact
  /\ Running => /\ WrHdr_valid_T2 <=> out[2] # NoItem
                /\ stages + wrout <= MaxWrites + 5
                /\ readsOnTheWay <= MaxReads + 3 * LineLen

(* Nothing of the run is left on its way.                                  *)
Done ==
  /\ WrFSM = 2 /\ WrFSM_q = 2 /\ RdFSM = 2 /\ RdFSM_q = 2
  /\ Num_WrPend = 0 /\ Num_RdPend = 0 /\ ~WrSent_q /\ ~RdSent_q
  /\ q = <<>> /\ out = <<NoItem, NoItem>> /\ ~WrHdr_valid_T2
  /\ wr_T3 = NoItem /\ wr_T4 = NoItem /\ ~IsWrite(c1)
  /\ ~RdHdr_valid_q /\ ~c0 /\ rdout = 0 /\ RdRsp_q = 0
  /\ ~status_write => wrout = 0 /\ WrRsp_q = 0

(* The end of a run, step by step.                                         *)
EndInv ==
  /\ status_write => WrFence_sent
  /\ send_interrupt \/ interrupt_sent => status_write
  /\ Before /\ WrFence_sent => status_write
  /\ re2xy_go /\ WrFence_sent => dsm_status_wren
  /\ re2xy_go /\ dsm_status_wren => test_stop \/ (Connected /\ rw2ab_TestCmp)
  /\ WrFence_sent /\ ~test_stop => rw2ab_TestCmp
  /\ rw2ab_TestCmp /\ ~test_stop => Done

(***************************************************************************)
(* Packets.  m may be sent when d lines of the packet before it are still  *)
(* to come, and leaves After(d, m) to come.                                *)
(***************************************************************************)
Fits(d, m) == m # NoItem => IF m.sop THEN d = 0 ELSE d = m.len + 1
After(d, m) == IF m = NoItem THEN d ELSE m.len

afterT4 == After(open, wr_T4)
afterT3 == After(afterT4, wr_T3)
afterO2 == After(afterT3, out[2])
afterO1 == After(afterO2, out[1])

(* The requests of s follow one another, and leave EndsAt(d, s) to come.   *)
Chained(d, s) == \A i \in 1 .. Len(s) : Fits(IF i = 1 THEN d ELSE s[i - 1].len, s[i])
EndsAt(d, s) == IF s = <<>> THEN d ELSE s[Len(s)].len

ChainInv ==
  /\ Fits(open, wr_T4) /\ Fits(afterT4, wr_T3) /\ Fits(afterT3, out[2]) /\ Fits(afterO2, out[1])
  /\ Chained(afterO1, q)
  /\ WrFSM = 1 => Fits(EndsAt(afterO1, q), rw2ab_Wr)
  /\ WrFSM # 1 => EndsAt(afterO1, q) = 0

(* The lines of a test are numbered in whole packets.                      *)
Aligned == WrFSM = 1 => \E k \in Nat : Num_WrReqs + WrLen = k * LineLen

(***************************************************************************)
(* A forced end or an error cuts a test that reads off at once, and the    *)
(* requestor takes a test for one if a test before it was: it must not     *)
(* meet one that writes.                                                   *)
(***************************************************************************)
CutsApart ==
  \/ ~Forces /\ ~Errors
  \/ \A c \in AllCfgs : c.mode # "READ"
  \/ \A c \in AllCfgs : ~Writes(c)

(* An interrupt that the software does not wait for may meet the reset.    *)
IntrAwaited == IntrOnError /\ Errors => IntrTest

NeverWrites == \A c \in AllCfgs : ~Writes(c)

CutInv ==
  /\ test_cmplt /\ ~status_write => Forces \/ Errors
  /\ sw = "force" /\ ~status_write => Forces
  /\ error => Errors
  /\ read_only_test => \E c \in AllCfgs : c.mode = "READ"
  /\ NeverWrites => /\ WrFSM # 1 /\ q = <<>> /\ out = <<NoItem, NoItem>>
                    /\ wr_T3 = NoItem /\ wr_T4 = NoItem /\ open = 0

OpenInv == ~re2xy_go \/ WrFence_sent \/ test_stop => open = 0

IntrInv ==
  /\ Before /\ status_write /\ IntrTest => interrupt_sent
  /\ send_interrupt => IntrTest

StreamInv ==
  /\ CutInv /\ OpenInv /\ IntrInv /\ Aligned
  /\ Running => ChainInv
-----------------------------------------------------------------------------
(* A test runs while its software waits for it, out of reset.              *)
LEMMA RunStates ==
  ASSUME FlowInv
  PROVE  /\ re2xy_go => sw \in {"run", "force"} /\ test_Reset_n /\ cfg = csr.CFG
         /\ ~test_Reset_n => Before /\ Still
         /\ test_Reset_n /\ ~re2xy_go => Pristine \/ status_write
<1>1. /\ CsrTypes /\ CtlTypes /\ ResetFlow /\ PristineFlow
  BY DEF FlowInv
<1>2. sw \in {"off", "reset", "lines", "config", "run", "force"}
  BY <1>1 DEF CsrTypes
<1>3. re2xy_go => sw \in {"run", "force"}
  BY <1>1, <1>2 DEF PristineFlow, Before, Still
<1>4. ~test_Reset_n => Before /\ Still
  BY <1>1, <1>2 DEF ResetFlow, PristineFlow, Before
<1>5. test_Reset_n /\ ~re2xy_go => Pristine \/ status_write
  BY <1>1, <1>2 DEF ResetFlow, PristineFlow
<1>6. re2xy_go => cfg = csr.CFG
  BY DEF FlowInv
<1> QED BY <1>1, <1>3, <1>4, <1>5, <1>6 DEF ResetFlow

(* A counter that stays in its range counts.                               *)
LEMMA PendCounts ==
  ASSUME NEW n \in Nat, NEW up \in Nat, NEW down \in Nat,
         n + up - down >= 0, n + up - down < PendMod
  PROVE  Pend(n, up, down) = n + up - down
<1> DEFINE m == n + up - down
<1>1. m \in 0 .. PendMod - 1
  BY SizesAssumption
<1>2. Pend(n, up, down) = (m + PendMod) % PendMod
  BY SizesAssumption DEF Pend
<1>3. (m + PendMod) % PendMod = m
  BY <1>1, SizesAssumption
<1> QED BY <1>2, <1>3

(* What the queue does in a clock of the run.                              *)
LEMMA QueueStep ==
  ASSUME FlowInv, re2xy_go, NEW c1Hold \in BOOLEAN, Queue(c1Hold)
  PROVE  LET pop  == ~c1Hold /\ q # <<>>
             push == WrFSM = 1 /\ Len(q) < TxCap
             rest == IF pop THEN Tail(q) ELSE q
         IN  /\ q' = IF push THEN Append(rest, rw2ab_Wr) ELSE rest
             /\ out' = <<IF pop THEN Head(q) ELSE NoItem, out[1]>>
             /\ pop => Head(q) \in Lines
             /\ Len(q') = Len(q) - One(pop) + One(push)
<1> DEFINE pop == ~c1Hold /\ q # <<>>
           push == WrFSM = 1 /\ Len(q) < TxCap
           rest == IF pop THEN Tail(q) ELSE q
<1>1. test_Reset_n
  BY RunStates
<1>2. PipeTypes
  BY DEF FlowInv
<1>3. q # <<>> => Head(q) \in Lines /\ Head(q) # NoItem
  BY <1>2, LinesAreLines DEF PipeTypes
<1>4. head # NoItem <=> q # <<>>
  BY <1>2, <1>3 DEF PipeTypes, TxQ!HeadOf
<1>5. txFifo_RdAck(head # NoItem, c1Hold) <=> pop
  BY <1>4 DEF txFifo_RdAck
<1>6. /\ q' = IF push THEN Append(rest, rw2ab_Wr) ELSE rest
      /\ out' = <<IF pop THEN Head(q) ELSE NoItem, out[1]>>
  BY <1>1, <1>5 DEF Queue, TxQ!Clock, TxQ!HeadOf, rw2ab_WrEn
<1>7. rest \in Seq(Lines) /\ Len(rest) = Len(q) - One(pop)
  BY <1>2 DEF PipeTypes, One
<1>8. Len(q') = Len(q) - One(pop) + One(push)
  <2>1. CASE push
    BY <1>2, <1>6, <1>7, <2>1 DEF PipeTypes, One
  <2>2. CASE ~push
    <3>1. One(push) = 0
      BY <2>2 DEF One
    <3>2. One(pop) \in Nat
      BY DEF One
    <3> HIDE DEF pop, push, rest
    <3> QED BY <1>2, <1>6, <1>7, <2>2, <3>1, <3>2 DEF PipeTypes
  <2> QED BY <2>1, <2>2
<1> QED BY <1>3, <1>6, <1>8

(* A test starts with nothing on its way.                                  *)
LEMMA FreshStep ==
  ASSUME FlowInv, ~re2xy_go, test_Reset_n, ~status_write,
         NEW mmio, NEW c0Hold \in BOOLEAN, NEW c1Hold \in BOOLEAN,
         NEW rsp \in Rsps, NEW ack \in Acks, NEW err \in BOOLEAN,
         Clk(mmio, c0Hold, c1Hold, rsp, ack, err)
  PROVE  Fresh'
<1>1. Pristine
  BY RunStates
<1>2. "force" \notin csr.CTL
  <2>1. /\ sw \in {"off", "reset", "lines", "config", "run", "force"}
        /\ sw = "off" => status_write
        /\ sw = "force" => Pending
    BY DEF FlowInv, CsrTypes, ResetFlow, PristineFlow
  <2> QED BY <2>1 DEF FlowInv, CtlFlow, CtlOf
<1> QED BY <1>1, <1>2, PristineStep DEF Pristine, Fresh, Still

(* The stages in a clock of a run that goes on.                            *)
LEMMA StageStep ==
  ASSUME FlowInv, CounterInv, EndInv, Running,
         NEW mmio, NEW c0Hold \in BOOLEAN, NEW c1Hold \in BOOLEAN, NEW rsp, NEW ack, NEW err,
         Clk(mmio, c0Hold, c1Hold, rsp, ack, err)
  PROVE  /\ test_Reset_n /\ ~status_write /\ ~sendsIntr /\ ~sendsDsm /\ c1 # Dsm
         /\ WrHdr_valid_T2' = (out[1] # NoItem)
         /\ wr_T3' = out[2] /\ wr_T4' = wr_T3
         /\ c1' = IF wr_T4 # NoItem THEN wr_T4 ELSE IF sendsFence THEN Fence ELSE NoItem
         /\ IsWrite(c1') <=> wr_T4 # NoItem
<1>1. test_Reset_n /\ ~status_write
  BY RunStates DEF EndInv, Running
<1>2. ~sendsIntr /\ ~sendsDsm /\ c1 # Dsm
  BY <1>1 DEF EndInv, Running, sendsIntr, sendsDsm, FlowInv, DsmFlow
<1>3. ClkC1 /\ ClkPipe(rw2ab_RdEn, c0Hold, c1Hold, out)
  BY DEF Clk, ReClk
<1>4. /\ WrHdr_valid_T2' = (out[1] # NoItem)
      /\ wr_T3' = out[2] /\ wr_T4' = wr_T3
  BY <1>1, <1>3 DEF ClkPipe, CounterInv, Running
<1>5. wr_T4 # NoItem <=> sendsData
  BY <1>2 DEF sendsData, Running
<1>6. c1' = IF wr_T4 # NoItem THEN wr_T4 ELSE IF sendsFence THEN Fence ELSE NoItem
  BY <1>2, <1>3, <1>5 DEF ClkC1
<1>7. wr_T4 \in Stage
  BY DEF FlowInv, PipeTypes
<1>8. IsWrite(c1') <=> wr_T4 # NoItem
  BY <1>6, <1>7, LinesAreLines DEF IsWrite, Stage
<1> QED BY <1>1, <1>2, <1>4, <1>6, <1>8

(***************************************************************************)
(* What is sent and what is answered in the same clock are both counted.   *)
(***************************************************************************)
LEMMA CountingStep ==
  ASSUME CountersWide, FlowInv, CounterInv, EndInv, Running,
         NEW mmio, NEW c0Hold \in BOOLEAN, NEW c1Hold \in BOOLEAN,
         NEW rsp \in Rsps, NEW ack \in Acks, NEW err \in BOOLEAN,
         Clk(mmio, c0Hold, c1Hold, rsp, ack, err)
  PROVE  /\ Num_WrPend' + One(WrSent_q') = writesOnTheWay' + WrRsp_q'
         /\ Num_RdPend' + LineLen * One(RdSent_q') = readsOnTheWay' + RdRsp_q'
         /\ WrHdr_valid_T2' <=> out'[2] # NoItem
         /\ stages' + wrout' <= MaxWrites + 5
         /\ readsOnTheWay' <= MaxReads + 3 * LineLen
<1> DEFINE pop  == ~c1Hold /\ q # <<>>
           push == WrFSM = 1 /\ Len(q) < TxCap
<1>1. /\ EngineTypes /\ PipeTypes /\ HostTypes /\ CtlTypes /\ re2xy_go
  BY DEF FlowInv, Running
<1>2. /\ test_Reset_n /\ ~status_write /\ c1 # Dsm
      /\ WrHdr_valid_T2' = (out[1] # NoItem)
      /\ wr_T3' = out[2] /\ wr_T4' = wr_T3
      /\ IsWrite(c1') <=> wr_T4 # NoItem
  BY StageStep
<1>3. /\ Len(q') = Len(q) - One(pop) + One(push)
      /\ out'[2] = out[1]
      /\ out'[1] # NoItem <=> pop
  <2>1. Queue(c1Hold)
    BY DEF Clk
  <2>2. /\ out' = <<IF pop THEN Head(q) ELSE NoItem, out[1]>>
        /\ pop => Head(q) \in Lines
        /\ Len(q') = Len(q) - One(pop) + One(push)
    BY <1>1, <2>1, QueueStep
  <2> QED BY <2>2, LinesAreLines
<1>4. rsp \in Nat /\ ack \in Nat /\ rsp <= rdout /\ ack <= wrout
  BY SizesAssumption DEF Rsps, Acks
<1>5. /\ Num_WrPend + One(WrSent_q) = writesOnTheWay + WrRsp_q
      /\ Num_RdPend + LineLen * One(RdSent_q) = readsOnTheWay + RdRsp_q
      /\ WrHdr_valid_T2 <=> out[2] # NoItem
      /\ stages + wrout <= MaxWrites + 5
      /\ readsOnTheWay <= MaxReads + 3 * LineLen
      /\ RdSent_q = RdHdr_valid_q
  BY DEF CounterInv, PendingExact, Running
<1>6. rw2ab_TestCmp => WrRsp_q = 0 /\ RdRsp_q = 0
  BY <1>2 DEF EndInv, Running, Done
<1>7. \A b : One(b) \in {0, 1} /\ (b => One(b) = 1) /\ (~b => One(b) = 0)
  BY DEF One
<1>8. /\ Num_WrPend \in Nat /\ Num_RdPend \in Nat /\ WrRsp_q \in Nat /\ RdRsp_q \in Nat
      /\ rdout \in Nat /\ wrout \in Nat /\ Len(q) \in Nat /\ Len(q) <= TxCap
      /\ LineLen \in Nat /\ MaxReads \in Nat /\ MaxWrites \in Nat /\ TxCap \in Nat /\ PendMod \in Nat
  BY <1>1, SizesAssumption DEF EngineTypes, PipeTypes, HostTypes
<1>9. \A b : LineLen * One(b) = IF b THEN LineLen ELSE 0
  BY <1>8 DEF One
<1>10. /\ writesOnTheWay = Len(q) + stages + wrout
       /\ stages \in Nat /\ writesOnTheWay \in Nat /\ readsOnTheWay \in Nat
       /\ writesOnTheWay < PendMod /\ readsOnTheWay < PendMod
  <2>1. stages \in 0 .. 5 /\ writesOnTheWay = Len(q) + stages + wrout
    <3>1. Len(q) \in Nat /\ wrout \in Nat
      BY <1>8
    <3>2. /\ One(out[1] # NoItem) \in {0, 1} /\ One(WrHdr_valid_T2) \in {0, 1}
          /\ One(wr_T3 # NoItem) \in {0, 1} /\ One(wr_T4 # NoItem) \in {0, 1}
          /\ One(IsWrite(c1)) \in {0, 1}
      BY DEF One
    <3> HIDE DEF pop, push
    <3> QED BY ONLY <3>1, <3>2 DEF stages, writesOnTheWay
  <2>2. readsOnTheWay \in Nat
    BY <1>8 DEF readsOnTheWay, One
  <2> QED BY <1>5, <1>8, <2>1, <2>2 DEF CountersWide
<1>11. Num_WrPend' = writesOnTheWay /\ WrSent_q' = push /\ WrRsp_q' = ack
  <2>1. /\ Num_WrPend' = Pend(Num_WrPend, IF WrSent_q THEN 1 ELSE 0,
                              IF WrSent_q \/ ~rw2ab_TestCmp THEN WrRsp_q ELSE 0)
        /\ WrSent_q' = push /\ WrRsp_q' = ack
    BY <1>2 DEF Clk, RwClk, WrMachine, rw2ab_WrEn
  <2>2. (IF WrSent_q \/ ~rw2ab_TestCmp THEN WrRsp_q ELSE 0) = WrRsp_q
    BY <1>6
  <2>3. (IF WrSent_q THEN 1 ELSE 0) = One(WrSent_q) /\ One(WrSent_q) \in Nat
    BY DEF One
  <2>4. Num_WrPend + One(WrSent_q) - WrRsp_q = writesOnTheWay
    <3>1. Num_WrPend + One(WrSent_q) = writesOnTheWay + WrRsp_q
      BY <1>5
    <3>2. Num_WrPend \in Nat /\ WrRsp_q \in Nat /\ writesOnTheWay \in Nat
      BY <1>8, <1>10
    <3> QED BY ONLY <2>3, <3>1, <3>2
  <2>5. Pend(Num_WrPend, One(WrSent_q), WrRsp_q) = writesOnTheWay
    BY <1>8, <1>10, <2>3, <2>4, PendCounts
  <2> QED BY <2>1, <2>2, <2>3, <2>5
<1>12. Num_RdPend' = readsOnTheWay /\ RdRsp_q' = rsp
  <2>1. /\ Num_RdPend' = Pend(Num_RdPend, IF RdSent_q THEN LineLen ELSE 0,
                              IF RdSent_q \/ ~rw2ab_TestCmp THEN RdRsp_q ELSE 0)
        /\ RdRsp_q' = rsp
    BY <1>2 DEF Clk, RwClk, RdMachine
  <2>2. (IF RdSent_q \/ ~rw2ab_TestCmp THEN RdRsp_q ELSE 0) = RdRsp_q
    BY <1>6
  <2>3. (IF RdSent_q THEN LineLen ELSE 0) = LineLen * One(RdSent_q)
        /\ LineLen * One(RdSent_q) \in Nat
    BY <1>8, <1>9
  <2>4. Num_RdPend + LineLen * One(RdSent_q) - RdRsp_q = readsOnTheWay
    <3>1. Num_RdPend + LineLen * One(RdSent_q) = readsOnTheWay + RdRsp_q
      BY <1>5
    <3>2. Num_RdPend \in Nat /\ RdRsp_q \in Nat /\ readsOnTheWay \in Nat
      BY <1>8, <1>10
    <3> QED BY ONLY <2>3, <3>1, <3>2
  <2>5. Pend(Num_RdPend, LineLen * One(RdSent_q), RdRsp_q) = readsOnTheWay
    BY <1>8, <1>10, <2>3, <2>4, PendCounts
  <2> QED BY <2>1, <2>2, <2>3, <2>5
<1>13. wrout' = wrout + One(IsWrite(c1)) - ack
  BY <1>1, <1>2 DEF Clk, Host, One
<1>14. stages' = One(pop) + One(out[1] # NoItem) + One(WrHdr_valid_T2)
                  + One(wr_T3 # NoItem) + One(wr_T4 # NoItem)
  BY <1>2, <1>3, <1>5 DEF stages, One
<1> DEFINE p == One(pop)
           u == One(push)
           old == One(out[1] # NoItem) + One(WrHdr_valid_T2) + One(wr_T3 # NoItem) + One(wr_T4 # NoItem)
           e == One(IsWrite(c1))
<1>15. /\ p \in 0 .. 1 /\ u \in 0 .. 1 /\ e \in 0 .. 1 /\ old \in 0 .. 4
       /\ stages = old + e /\ stages' = p + old
       /\ Len(q') = Len(q) - p + u /\ Len(q') \in Nat
       /\ wrout' = wrout + e - ack /\ wrout' \in Nat
  <2>1. p \in 0 .. 1 /\ u \in 0 .. 1 /\ e \in 0 .. 1 /\ old \in 0 .. 4
    BY <1>7
  <2>2. stages = old + e
    BY DEF stages
  <2>3. stages' = p + old
    BY <1>14 DEF One
  <2>4. q # <<>> => Len(q) > 0
    BY <1>1 DEF PipeTypes
  <2>5. Len(q') = Len(q) - p + u /\ Len(q') \in Nat
    BY <1>3, <1>8, <2>1, <2>4 DEF One
  <2> QED BY <1>4, <1>8, <1>13, <2>1, <2>2, <2>3, <2>5
<1>16. writesOnTheWay' = Len(q') + stages' + wrout'
  <2>1. Len(q') \in Nat /\ wrout' \in Nat
    BY <1>15
  <2>2. /\ One(out'[1] # NoItem) \in {0, 1} /\ One(WrHdr_valid_T2') \in {0, 1}
        /\ One(wr_T3' # NoItem) \in {0, 1} /\ One(wr_T4' # NoItem) \in {0, 1}
        /\ One(IsWrite(c1')) \in {0, 1}
    BY DEF One
  <2> QED BY <2>1, <2>2 DEF writesOnTheWay, stages, IsWrite
<1>17. pop => wrout < MaxWrites
  BY <1>8 DEF Clk, Busy
<1>18. p = 1 => wrout < MaxWrites
  BY <1>17 DEF One
<1> HIDE DEF p, u, old, e
<1>19. /\ Num_WrPend' + u = writesOnTheWay' + WrRsp_q'
       /\ stages' + wrout' <= MaxWrites + 5
  <2>1. /\ p \in 0 .. 1 /\ u \in 0 .. 1 /\ e \in 0 .. 1 /\ old \in 0 .. 4
        /\ stages = old + e /\ stages' = p + old
        /\ Len(q') = Len(q) - p + u /\ Len(q') \in Nat
        /\ wrout' = wrout + e - ack /\ wrout' \in Nat
        /\ writesOnTheWay' = Len(q') + stages' + wrout'
        /\ writesOnTheWay = Len(q) + stages + wrout
    BY <1>10, <1>15, <1>16
  <2>2. Len(q) \in Nat /\ wrout \in Nat /\ ack \in Nat /\ MaxWrites \in Nat
    BY <1>4, <1>8
  <2>3. Num_WrPend' = writesOnTheWay /\ WrRsp_q' = ack
    BY <1>11
  <2>4. Num_WrPend' + u = writesOnTheWay' + WrRsp_q'
    BY ONLY <2>1, <2>2, <2>3
  <2>5. stages' + wrout' <= MaxWrites + 5
    <3>1. stages + wrout <= MaxWrites + 5 /\ (p = 1 => wrout < MaxWrites)
      BY <1>5, <1>18
    <3> QED BY ONLY <2>1, <2>2, <3>1
  <2> QED BY <2>4, <2>5
<1>20. Num_WrPend' + One(WrSent_q') = writesOnTheWay' + WrRsp_q'
  BY <1>11, <1>19 DEF u
<1>21. /\ RdHdr_valid_q' = RdSent_q' /\ c0' = RdHdr_valid_q
       /\ RdHdr_valid_q' => rdout < MaxReads
       /\ rdout' = rdout + (IF c0 THEN LineLen ELSE 0) - rsp
  <2>1. RdSent_q' = RdHdr_valid(rw2ab_RdEn, c0Hold)
    BY <1>2 DEF Clk, RwClk, RdMachine
  <2>2. RdHdr_valid_q' = RdHdr_valid(rw2ab_RdEn, c0Hold) /\ c0' = RdHdr_valid_q
    BY <1>1 DEF Clk, ReClk, ClkPipe, CtlTypes
  <2>3. RdHdr_valid(rw2ab_RdEn, c0Hold) => ~c0Hold
    BY DEF RdHdr_valid
  <2>4. rdout >= MaxReads => c0Hold
    BY DEF Clk, Busy
  <2>5. rdout' = rdout + (IF c0 THEN LineLen ELSE 0) - rsp
    BY DEF Clk, Host
  <2> QED BY <1>8, <2>1, <2>2, <2>3, <2>4, <2>5
<1>22. readsOnTheWay' = (IF RdHdr_valid_q' THEN LineLen ELSE 0)
                         + (IF RdHdr_valid_q THEN LineLen ELSE 0) + rdout'
  BY <1>4, <1>8, <1>21 DEF readsOnTheWay, One
<1>23. readsOnTheWay = (IF RdHdr_valid_q THEN LineLen ELSE 0) + (IF c0 THEN LineLen ELSE 0) + rdout
  BY <1>8 DEF readsOnTheWay, One
<1>24. Num_RdPend' + LineLen * One(RdSent_q') = readsOnTheWay' + RdRsp_q'
  BY <1>4, <1>8, <1>9, <1>12, <1>21, <1>22, <1>23
<1>25. readsOnTheWay' <= MaxReads + 3 * LineLen
  BY <1>4, <1>5, <1>8, <1>21, <1>22, <1>23
<1> QED BY <1>2, <1>3, <1>19, <1>20, <1>24, <1>25

(* Once nothing is left on its way, nothing comes: only the status write   *)
(* is still acknowledged, and that is no longer counted.                   *)
LEMMA DoneStep ==
  ASSUME FlowInv, EndInv, Done, test_Reset_n, rw2ab_TestCmp \/ ~status_write,
         NEW mmio, NEW c0Hold \in BOOLEAN, NEW c1Hold \in BOOLEAN,
         NEW rsp \in Rsps, NEW ack \in Acks, NEW err \in BOOLEAN,
         Clk(mmio, c0Hold, c1Hold, rsp, ack, err)
  PROVE  Done' /\ rw2ab_TestCmp'
<1> USE DEF Done
<1>1. RwClk(test_Reset_n, cfg, re2xy_go, re2xy_NumLines,
            RdHdr_valid(rw2ab_RdEn, c0Hold), rsp, Len(q) < TxCap, ack)
  BY DEF Clk
<1>2. WrFSM' = 2 /\ WrFSM_q' = 2 /\ RdFSM' = 2 /\ RdFSM_q' = 2 /\ rw2ab_TestCmp'
  BY <1>1 DEF RwClk, RdMachine, WrMachine, FsmNext, allDone
<1>3. ~RdHdr_valid(rw2ab_RdEn, c0Hold) /\ ~rw2ab_WrEn
  BY DEF RdHdr_valid, rw2ab_RdEn, rw2ab_WrEn
<1>4. rsp = 0
  BY SizesAssumption DEF Rsps
<1>5. ~WrSent_q' /\ ~RdSent_q' /\ RdRsp_q' = 0 /\ WrRsp_q' = ack
  BY <1>1, <1>3, <1>4 DEF RwClk, RdMachine, WrMachine
<1>6. Pend(0, 0, 0) = 0
  BY SizesAssumption DEF Pend
<1>7. Num_WrPend' = 0
  <2>1. (IF WrSent_q \/ ~rw2ab_TestCmp THEN WrRsp_q ELSE 0) = 0
    OBVIOUS
  <2> QED BY <1>1, <1>6, <2>1 DEF RwClk, WrMachine
<1>8. Num_RdPend' = 0
  BY <1>1, <1>6 DEF RwClk, RdMachine
<1>9. q' = <<>> /\ out' = <<NoItem, NoItem>>
  BY <1>3 DEF Clk, Queue, TxQ!Clock, TxQ!HeadOf
<1>10. ~WrHdr_valid_T2' /\ wr_T3' = NoItem /\ wr_T4' = NoItem /\ ~RdHdr_valid_q' /\ ~c0'
  BY <1>3 DEF Clk, ReClk, ClkPipe
<1>11. ~IsWrite(c1')
  BY DEF Clk, ReClk, ClkC1, sendsData, IsWrite
<1>12. rdout' = 0
  BY <1>4 DEF Clk, Host
<1>13. ~status_write' => wrout' = 0 /\ WrRsp_q' = 0
  <2>1. SUFFICES ASSUME ~status_write' PROVE wrout' = 0 /\ WrRsp_q' = 0
    OBVIOUS
  <2>2. ~status_write
    BY <2>1 DEF Clk, ReClk, ClkControl
  <2>3. c1 # Dsm
    BY <2>2 DEF FlowInv, DsmFlow
  <2>4. wrout = 0 /\ ack = 0
    BY <2>2, SizesAssumption DEF Acks
  <2> QED BY <1>5, <2>3, <2>4 DEF Clk, Host
<1> QED BY <1>2, <1>5, <1>7, <1>8, <1>9, <1>10, <1>11, <1>12, <1>13

(* Both machines done and both counters at zero: nothing is on its way.    *)
LEMMA Drained ==
  ASSUME FlowInv, CounterInv, Running, allDone
  PROVE  Done
<1>1. EngineTypes /\ PipeTypes /\ HostTypes /\ CtlTypes /\ re2xy_go
  BY DEF FlowInv, Running
<1>2. WrFSM = 2 /\ ~WrSent_q /\ RdFSM = 2 /\ ~RdSent_q /\ ~RdHdr_valid_q
  BY <1>1, RunStates DEF CounterInv, allDone
<1>3. /\ Num_WrPend = 0 /\ Num_RdPend = 0 /\ WrFSM_q = 2 /\ RdFSM_q = 2
      /\ Num_WrPend + One(WrSent_q) = writesOnTheWay + WrRsp_q
      /\ Num_RdPend + LineLen * One(RdSent_q) = readsOnTheWay + RdRsp_q
      /\ WrHdr_valid_T2 <=> out[2] # NoItem
  BY DEF CounterInv, PendingExact, Running, allDone
<1>4. writesOnTheWay + WrRsp_q = 0
  BY <1>2, <1>3 DEF One
<1>5. /\ Len(q) \in Nat /\ wrout \in Nat /\ rdout \in Nat /\ WrRsp_q \in Nat /\ RdRsp_q \in Nat
      /\ LineLen \in Nat \ {0}
  BY <1>1, SizesAssumption DEF EngineTypes, PipeTypes, HostTypes
<1>6. \A b : One(b) \in {0, 1} /\ (b => One(b) = 1) /\ (~b => One(b) = 0)
  BY DEF One
<1>7. /\ Len(q) = 0 /\ wrout = 0 /\ WrRsp_q = 0
      /\ One(out[1] # NoItem) = 0 /\ One(WrHdr_valid_T2) = 0 /\ One(wr_T3 # NoItem) = 0
      /\ One(wr_T4 # NoItem) = 0 /\ One(IsWrite(c1)) = 0
  <2> DEFINE a == One(out[1] # NoItem)
             b == One(WrHdr_valid_T2)
             c == One(wr_T3 # NoItem)
             d == One(wr_T4 # NoItem)
             e == One(IsWrite(c1))
  <2>1. a \in Nat /\ b \in Nat /\ c \in Nat /\ d \in Nat /\ e \in Nat
    BY DEF One
  <2>2. Len(q) \in Nat /\ wrout \in Nat /\ WrRsp_q \in Nat
    BY <1>5
  <2>3. (Len(q) + a + b + c + d + e + wrout) + WrRsp_q = 0
    BY <1>4 DEF writesOnTheWay
  <2> HIDE DEF a, b, c, d, e
  <2>4. /\ Len(q) = 0 /\ wrout = 0 /\ WrRsp_q = 0
        /\ a = 0 /\ b = 0 /\ c = 0 /\ d = 0 /\ e = 0
    BY ONLY <2>1, <2>2, <2>3
  <2> QED BY <2>4 DEF a, b, c, d, e
<1>8. /\ out[1] = NoItem /\ ~WrHdr_valid_T2 /\ wr_T3 = NoItem /\ wr_T4 = NoItem /\ ~IsWrite(c1)
  BY <1>7 DEF One
<1>9. LineLen * One(RdSent_q) = 0 /\ readsOnTheWay = LineLen * One(c0) + rdout
  BY <1>2, <1>5 DEF One, readsOnTheWay
<1>10. LineLen * One(c0) = IF c0 THEN LineLen ELSE 0
  BY <1>5 DEF One
<1>11. ~c0 /\ rdout = 0 /\ RdRsp_q = 0
  <2>1. (IF c0 THEN LineLen ELSE 0) + rdout + RdRsp_q = 0
    BY <1>3, <1>9, <1>10
  <2> QED BY <1>5, <2>1
<1>12. q = <<>> /\ out = <<NoItem, NoItem>>
  <2>1. q \in Seq(Lines) /\ out \in Stage \X Stage
    BY <1>1 DEF PipeTypes
  <2> QED BY <1>3, <1>7, <1>8, <2>1
<1> QED BY <1>2, <1>3, <1>7, <1>8, <1>11, <1>12 DEF Done

(***************************************************************************)
(* How a run ends.                                                         *)
(***************************************************************************)
LEMMA EndInvStep ==
  ASSUME FlowInv, CounterInv, EndInv,
         NEW mmio \in CsrWrites, NEW c0Hold \in BOOLEAN, NEW c1Hold \in BOOLEAN,
         NEW rsp \in Rsps, NEW ack \in Acks, NEW err \in BOOLEAN,
         Software(mmio), Clk(mmio, c0Hold, c1Hold, rsp, ack, err)
  PROVE  EndInv'
<1>1. CtlTypes /\ ClkControl(csr.CTL, Connected /\ rw2ab_TestCmp, FALSE, err)
  BY DEF FlowInv, Clk, ReClk
<1>2. CASE ~test_Reset_n
  <2>1. Cleared'
    BY <1>2, ClearStep
  <2>2. ~re2xy_go' /\ ~interrupt_sent'
    BY <1>1, <1>2 DEF ClkControl
  <2> QED BY <2>1, <2>2 DEF EndInv, Cleared
<1>3. CASE test_Reset_n
  <2>1. status_write' => WrFence_sent'
    BY <1>1, <1>3 DEF ClkControl, EndInv, sendsDsm
  <2>2. send_interrupt' \/ interrupt_sent' => status_write'
    BY <1>1, <1>3 DEF ClkControl, EndInv, sendsIntr
  <2>3. rw2ab_TestCmp /\ ~test_stop => Done' /\ rw2ab_TestCmp'
    BY <1>3, DoneStep DEF EndInv
  <2>4. test_stop => test_stop'
    BY <1>1, <1>3 DEF ClkControl
  <2>5. WrFence_sent' /\ ~test_stop' => rw2ab_TestCmp'
    BY <1>1, <1>3, <2>3, <2>4 DEF ClkControl, EndInv, sendsFence
  <2>6. rw2ab_TestCmp' /\ ~test_stop' => Done'
    <3>1. SUFFICES ASSUME rw2ab_TestCmp', ~test_stop', ~rw2ab_TestCmp PROVE Done'
      BY <2>3, <2>4
    <3>2. ~test_stop /\ ~WrFence_sent /\ ~status_write
      BY <2>4, <3>1 DEF EndInv
    <3>3. allDone
      BY <1>3, <3>1 DEF Clk, RwClk
    <3>4. re2xy_go
      BY <1>3, <3>2, <3>3, RunStates DEF Pristine, Fresh, allDone
    <3>5. Done
      BY <3>2, <3>3, <3>4, Drained DEF Running
    <3> QED BY <1>3, <3>2, <3>5, DoneStep
  <2>7. Before' /\ WrFence_sent' => status_write'
    <3>1. SUFFICES ASSUME Before', WrFence_sent', ~status_write' PROVE FALSE
      OBVIOUS
    <3>2. ~status_write
      BY <1>1, <1>3, <3>1 DEF ClkControl
    <3>3. Before
      <4>1. CsrClk(FALSE, mmio)
        BY DEF Clk
      <4>2. RunOver => status_write
        BY DEF RunOver, FlowInv, DsmFlow
      <4>3. sw \in {"off", "reset", "lines", "config", "run", "force"}
        BY DEF FlowInv, CsrTypes
      <4> QED BY <3>1, <3>2, <4>1, <4>2, <4>3, Moves DEF Before
    <3>4. ~WrFence_sent /\ ~re2xy_go
      BY <3>2, <3>3 DEF EndInv, FlowInv, PristineFlow, Still
    <3> QED BY <1>1, <1>3, <3>1, <3>4 DEF ClkControl, sendsFence
  <2>8. re2xy_go' => (WrFence_sent' => dsm_status_wren') /\
                     (dsm_status_wren' => test_stop' \/ (Connected' /\ rw2ab_TestCmp'))
    <3>1. SUFFICES ASSUME re2xy_go'
                   PROVE  /\ WrFence_sent' => dsm_status_wren'
                          /\ dsm_status_wren' => test_stop' \/ (Connected' /\ rw2ab_TestCmp')
      OBVIOUS
    <3>2. ~status_write
      BY <1>1, <1>3, <3>1 DEF ClkControl
    <3>3. CASE ~re2xy_go
      <4>1. ~WrFence_sent /\ ~test_stop /\ ~rw2ab_TestCmp
        BY <1>3, <3>2, <3>3, RunStates DEF Pristine, Fresh, Cleared
      <4> QED BY <1>1, <1>3, <3>3, <4>1 DEF ClkControl, sendsFence
    <3>4. CASE re2xy_go
      <4>1. Connected' = Connected
        <5>1. cfg' = csr.CFG /\ cfg = csr.CFG
          BY <3>1, <3>4, CfgStep DEF FlowInv
        <5> QED BY <5>1 DEF Connected, Reads, Writes
      <4>2. WrFence_sent' => dsm_status_wren
        BY <1>1, <1>3, <3>4 DEF ClkControl, sendsFence, EndInv
      <4>3. dsm_status_wren' = ((Connected /\ rw2ab_TestCmp) \/ test_stop)
        BY <1>1, <1>3 DEF ClkControl
      <4>4. dsm_status_wren => test_stop \/ (Connected /\ rw2ab_TestCmp)
        BY <3>4 DEF EndInv
      <4> QED BY <2>3, <2>4, <4>1, <4>2, <4>3, <4>4
    <3> QED BY <3>3, <3>4
  <2> QED BY <2>1, <2>2, <2>5, <2>6, <2>7, <2>8 DEF EndInv
<1> QED BY <1>2, <1>3

LEMMA CounterInvStep ==
  ASSUME CountersWide, FlowInv, CounterInv, EndInv,
         NEW mmio \in CsrWrites, NEW c0Hold \in BOOLEAN, NEW c1Hold \in BOOLEAN,
         NEW rsp \in Rsps, NEW ack \in Acks, NEW err \in BOOLEAN,
         Software(mmio), Clk(mmio, c0Hold, c1Hold, rsp, ack, err)
  PROVE  CounterInv'
<1>1. CtlTypes /\ CsrTypes /\ ResetFlow /\ CsrClk(FALSE, mmio)
  BY DEF FlowInv, Clk
<1>2. RdSent_q' = RdHdr_valid_q'
  BY DEF Clk, ReClk, ClkPipe, RwClk, RdMachine
<1>3. ASSUME sw' \in {"run", "force"}
      PROVE  /\ WrFSM_q' = 2 => WrFSM' = 2 /\ ~WrSent_q'
             /\ RdFSM_q' = 2 => RdFSM' = 2 /\ ~RdSent_q'
  <2>1. sw \in {"config", "run", "force"}
    BY <1>1, <1>3, Moves DEF CsrTypes
  <2>2. test_Reset_n
    BY <1>1, <2>1 DEF ResetFlow
  <2>3. /\ WrFSM_q' = WrFSM /\ RdFSM_q' = RdFSM
        /\ WrSent_q' = (rw2ab_WrEn /\ Len(q) < TxCap)
        /\ RdSent_q' = RdHdr_valid(rw2ab_RdEn, c0Hold)
    BY <2>2 DEF Clk, RwClk, RdMachine, WrMachine
  <2>4. WrFSM = 2 => WrFSM' = 2 /\ ~rw2ab_WrEn
    BY <2>2 DEF Clk, RwClk, WrMachine, FsmNext, rw2ab_WrEn
  <2>5. RdFSM = 2 => RdFSM' = 2 /\ ~RdHdr_valid(rw2ab_RdEn, c0Hold)
    BY <2>2 DEF Clk, RwClk, RdMachine, FsmNext, rw2ab_RdEn, RdHdr_valid
  <2> QED BY <2>3, <2>4, <2>5
<1>4. ASSUME Running'
      PROVE  /\ Num_WrPend' + One(WrSent_q') = writesOnTheWay' + WrRsp_q'
             /\ Num_RdPend' + LineLen * One(RdSent_q') = readsOnTheWay' + RdRsp_q'
             /\ WrHdr_valid_T2' <=> out'[2] # NoItem
             /\ stages' + wrout' <= MaxWrites + 5
             /\ readsOnTheWay' <= MaxReads + 3 * LineLen
  <2>1. test_Reset_n /\ ~status_write /\ ~test_stop /\ ~WrFence_sent
    BY <1>1, <1>4 DEF Running, Clk, ReClk, ClkControl
  <2>2. CASE re2xy_go
    <3>1. Running
      BY <2>1, <2>2 DEF Running
    <3> QED BY <3>1, CountingStep
  <2>3. CASE ~re2xy_go
    <3>1. Fresh'
      BY <2>1, <2>3, FreshStep
    <3>2. /\ q' = <<>> /\ out' = <<NoItem, NoItem>> /\ ~WrHdr_valid_T2'
          /\ wr_T3' = NoItem /\ wr_T4' = NoItem /\ ~IsWrite(c1') /\ wrout' = 0
          /\ ~RdHdr_valid_q' /\ ~c0' /\ rdout' = 0
          /\ Num_WrPend' = 0 /\ Num_RdPend' = 0 /\ ~WrSent_q' /\ ~RdSent_q'
          /\ WrRsp_q' = 0 /\ RdRsp_q' = 0
      BY <3>1 DEF Fresh, Cleared, Unmoved, IsWrite
    <3>3. One(FALSE) = 0
      BY DEF One
    <3>4. stages' = 0 /\ writesOnTheWay' = 0 /\ readsOnTheWay' = 0
      BY <3>2, SizesAssumption DEF stages, writesOnTheWay, readsOnTheWay, One, IsWrite
    <3>5. One(WrSent_q') = 0 /\ LineLen * One(RdSent_q') = 0
      BY <3>2, SizesAssumption DEF One
    <3> QED BY <3>2, <3>4, <3>5, SizesAssumption
  <2> QED BY <2>2, <2>3
<1>5. PendingExact'
  BY <1>4 DEF PendingExact, Running
<1> QED BY <1>2, <1>3, <1>4, <1>5 DEF CounterInv

LEMMA DrainInit == Init => CounterInv /\ EndInv
<1> SUFFICES ASSUME Init PROVE CounterInv /\ EndInv
  OBVIOUS
<1> USE DEF Init, CsrInit, ReInit, RwInit, FlowInit, TxQ!Init
<1>1. ~Running /\ ~re2xy_go
  BY DEF Running
<1>2. CounterInv
  BY <1>1 DEF CounterInv, PendingExact
<1>3. EndInv
  BY <1>1 DEF EndInv
<1> QED BY <1>2, <1>3

LEMMA DrainStep ==
  CountersWide /\ FlowInv /\ CounterInv /\ EndInv /\ [Next]_vars => CounterInv' /\ EndInv'
<1> SUFFICES ASSUME CountersWide, FlowInv, CounterInv, EndInv, [Next]_vars
             PROVE  CounterInv' /\ EndInv'
  OBVIOUS
<1>1. CASE UNCHANGED vars
  <2> USE <1>1 DEF vars, csrVars, swVars, reVars, reRegs, reCtl, rePipe, rwVars, hostVars
  <2>1. CounterInv'
    BY DEF CounterInv, PendingExact, Running, stages, writesOnTheWay, readsOnTheWay, One, IsWrite
  <2>2. EndInv'
    BY DEF EndInv, Before, Done, Connected, Reads, Writes, IsWrite
  <2> QED BY <2>1, <2>2
<1>2. CASE Next
  <2>1. PICK mmio \in CsrWrites :
          /\ Software(mmio)
          /\ \E c0Hold, c1Hold, err \in BOOLEAN, rsp \in Rsps, ack \in Acks :
               Clk(mmio, c0Hold, c1Hold, rsp, ack, err)
    BY <1>2, NextSteps
  <2>2. PICK c0Hold \in BOOLEAN, c1Hold \in BOOLEAN, err \in BOOLEAN, rsp \in Rsps, ack \in Acks :
          Clk(mmio, c0Hold, c1Hold, rsp, ack, err)
    BY <2>1
  <2> QED BY <2>1, <2>2, CounterInvStep, EndInvStep
<1> QED BY <1>1, <1>2

THEOREM DrainInvariant == ASSUME CountersWide PROVE Spec => [](FlowInv /\ CounterInv /\ EndInv)
BY DrainInit, DrainStep, FlowInvInit, FlowInvStep, PTL DEF Spec

(***************************************************************************)
(* The pending counters of the engine are exact until the run is fenced or *)
(* cut off, in whatever order requests and responses meet.                 *)
(***************************************************************************)
THEOREM RunPendingExact == ASSUME CountersWide PROVE Spec => []PendingExact
<1>1. CounterInv => PendingExact
  BY DEF CounterInv
<1> QED BY <1>1, DrainInvariant, PTL

(***************************************************************************)
(* A run that was not forced reports completion only when everything it    *)
(* read has arrived and everything it wrote is acknowledged.               *)
(***************************************************************************)
THEOREM RunCompleteWhenDrained == ASSUME CountersWide PROVE Spec => []CompleteWhenDrained
<1>1. EndInv => CompleteWhenDrained
  BY DEF EndInv, CompleteWhenDrained, Done
<1> QED BY <1>1, DrainInvariant, PTL

(***************************************************************************)
(* The status write never carries a line's data and no line is sent with   *)
(* the status as its data, although the data are chosen by a flag that     *)
(* comes a clock before the request.                                       *)
(***************************************************************************)
THEOREM RunDataMatchesRequest == ASSUME CountersWide PROVE Spec => []DataMatchesRequest
<1>1. EndInv => DataMatchesRequest
  BY DEF EndInv, DataMatchesRequest, Done, sendsDsm, sendsData
<1> QED BY <1>1, DrainInvariant, PTL

-----------------------------------------------------------------------------
(* Taking the first of a chain of requests leaves a chain, and so does     *)
(* adding one that fits.                                                   *)
LEMMA ChainTail ==
  ASSUME NEW s \in Seq(Lines), NEW d, Chained(d, s), s # <<>>
  PROVE  /\ Fits(d, Head(s)) /\ Chained(Head(s).len, Tail(s))
         /\ EndsAt(Head(s).len, Tail(s)) = EndsAt(d, s)
<1>1. Len(s) \in Nat \ {0} /\ Head(s) = s[1]
  OBVIOUS
<1>2. /\ Tail(s) \in Seq(Lines) /\ Len(Tail(s)) = Len(s) - 1
      /\ \A i \in 1 .. Len(s) - 1 : Tail(s)[i] = s[i + 1]
  OBVIOUS
<1>3. Fits(d, Head(s))
  BY <1>1 DEF Chained
<1>4. ASSUME NEW i \in 1 .. Len(Tail(s))
      PROVE  Fits(IF i = 1 THEN Head(s).len ELSE Tail(s)[i - 1].len, Tail(s)[i])
  <2>1. i + 1 \in 1 .. Len(s) /\ i + 1 # 1 /\ (i + 1) - 1 = i /\ Tail(s)[i] = s[i + 1]
    BY <1>1, <1>2
  <2>2. Fits(s[i].len, s[i + 1])
    BY <2>1 DEF Chained
  <2>3. (IF i = 1 THEN Head(s).len ELSE Tail(s)[i - 1].len) = s[i].len
    <3>1. CASE i = 1
      BY <1>1, <3>1
    <3>2. CASE i # 1
      <4>1. i - 1 \in 1 .. Len(s) - 1 /\ (i - 1) + 1 = i
        BY <1>1, <1>2, <3>2
      <4> QED BY <1>2, <3>2, <4>1
    <3> QED BY <3>1, <3>2
  <2> QED BY <2>1, <2>2, <2>3
<1>5. EndsAt(Head(s).len, Tail(s)) = EndsAt(d, s)
  <2>1. CASE Len(s) = 1
    <3>1. Len(Tail(s)) = 0
      BY <1>2, <2>1
    <3>2. Tail(s) = <<>>
      BY <1>2, <3>1, EmptySeq
    <3> QED BY <1>1, <2>1, <3>2 DEF EndsAt
  <2>2. CASE Len(s) # 1
    <3>0. PICK n \in Nat : Len(s) = n /\ n # 0 /\ n # 1
      BY <1>1, <2>2
    <3> DEFINE k == n - 1
    <3>1. k \in 1 .. k /\ k + 1 = Len(s)
      BY <3>0
    <3>2. Len(Tail(s)) = k /\ k # 0 /\ Tail(s)[k] = s[k + 1]
      BY <1>2, <3>0, <3>1
    <3>3. Tail(s) # <<>>
      BY <3>2
    <3> QED BY <3>1, <3>2, <3>3 DEF EndsAt
  <2> QED BY <2>1, <2>2
<1> QED BY <1>3, <1>4, <1>5 DEF Chained

LEMMA ChainAppend ==
  ASSUME NEW s \in Seq(Lines), NEW d, NEW m \in Lines, Chained(d, s), Fits(EndsAt(d, s), m)
  PROVE  Chained(d, Append(s, m)) /\ EndsAt(d, Append(s, m)) = m.len
<1> DEFINE t == Append(s, m)
<1>1. /\ Len(s) \in Nat /\ Len(t) = Len(s) + 1 /\ t # <<>> /\ t[Len(s) + 1] = m
      /\ \A i \in 1 .. Len(s) : t[i] = s[i]
  OBVIOUS
<1>2. s = <<>> <=> Len(s) = 0
  OBVIOUS
<1> HIDE DEF t
<1>3. ASSUME NEW i \in 1 .. Len(t)
      PROVE  Fits(IF i = 1 THEN d ELSE t[i - 1].len, t[i])
  <2>1. CASE i \in 1 .. Len(s)
    <3>1. i # 1 => i - 1 \in 1 .. Len(s)
      BY <1>1, <2>1
    <3> QED BY <1>1, <2>1, <3>1 DEF Chained
  <2>2. CASE i = Len(s) + 1
    <3>1. Len(s) # 0 => Len(s) \in 1 .. Len(s) /\ i # 1 /\ i - 1 = Len(s)
      BY <1>1, <2>2
    <3>2. (IF i = 1 THEN d ELSE t[i - 1].len) = EndsAt(d, s)
      BY <1>1, <1>2, <2>2, <3>1 DEF EndsAt
    <3> QED BY <1>1, <2>2, <3>2
  <2> QED BY <1>1, <2>1, <2>2
<1>4. EndsAt(d, t) = m.len
  BY <1>1 DEF EndsAt
<1> QED BY <1>3, <1>4 DEF Chained, t

(* A test ends at the end of a packet: its lines are whole packets.        *)
LEMMA WholePackets ==
  ASSUME FlowInv, Aligned, WrFSM = 1, Num_WrReqs = re2xy_NumLines
  PROVE  WrLen = 0
<1>1. PICK k \in Nat : Num_WrReqs + WrLen = k * LineLen
  BY DEF Aligned
<1>2. LineLen \in Nat \ {0} /\ WrLen \in 0 .. LineLen - 1 /\ re2xy_NumLines \in AllLines
  BY SizesAssumption DEF FlowInv, EngineTypes, CtlTypes
<1>3. re2xy_NumLines \in Nat /\ re2xy_NumLines % LineLen = 0
  BY <1>2, CountsAssumption DEF AllLines
<1>4. PICK j \in Nat : re2xy_NumLines = j * LineLen
  BY <1>2, <1>3
<1>5. WrLen = (k - j) * LineLen
  BY <1>1, <1>2, <1>4
<1>6. CASE k = j
  BY <1>2, <1>5, <1>6
<1>7. CASE k > j
  <2>1. (k - j) * LineLen >= LineLen
    BY <1>2, <1>7
  <2> QED BY <1>2, <1>5, <2>1
<1>8. CASE k < j
  <2>1. (k - j) * LineLen < 0
    BY <1>2, <1>8
  <2> QED BY <1>2, <1>5, <2>1
<1> QED BY <1>6, <1>7, <1>8

LEMMA AlignedStep ==
  ASSUME FlowInv, Aligned,
         NEW mmio, NEW c0Hold \in BOOLEAN, NEW c1Hold \in BOOLEAN, NEW rsp, NEW ack, NEW err,
         Clk(mmio, c0Hold, c1Hold, rsp, ack, err)
  PROVE  Aligned'
<1> SUFFICES ASSUME WrFSM' = 1
             PROVE  \E k \in Nat : Num_WrReqs' + WrLen' = k * LineLen
  BY DEF Aligned
<1>1. test_Reset_n /\ WrMachine(cfg, re2xy_go, re2xy_NumLines, Len(q) < TxCap, ack)
  BY DEF Clk, RwClk
<1>2. LineLen \in Nat \ {0} /\ WrLen \in 0 .. LineLen - 1 /\ WrFSM \in 0 .. 2 /\ Num_WrReqs \in Nat
  BY SizesAssumption DEF FlowInv, EngineTypes
<1>3. CASE WrFSM = 0
  <2>1. Num_WrReqs' = 1 /\ WrLen' = LineLen - 1
    BY <1>1, <1>3 DEF WrMachine
  <2>2. Num_WrReqs' + WrLen' = 1 * LineLen
    BY <1>2, <2>1
  <2> QED BY <2>2
<1>4. CASE WrFSM = 1
  <2>1. PICK k \in Nat : Num_WrReqs + WrLen = k * LineLen
    BY <1>4 DEF Aligned
  <2>2. CASE ~(Len(q) < TxCap)
    BY <1>1, <1>4, <2>1, <2>2 DEF WrMachine
  <2>3. CASE Len(q) < TxCap /\ WrLen = 0
    <3>1. Num_WrReqs' = Num_WrReqs + 1 /\ WrLen' = LineLen - 1
      BY <1>1, <1>4, <2>3 DEF WrMachine, nextLen
    <3>2. Num_WrReqs' + WrLen' = (k + 1) * LineLen
      BY <1>2, <2>1, <2>3, <3>1
    <3> QED BY <3>2
  <2>4. CASE Len(q) < TxCap /\ WrLen # 0
    <3>1. Num_WrReqs' = Num_WrReqs + 1 /\ WrLen' = WrLen - 1
      BY <1>1, <1>4, <2>4 DEF WrMachine, nextLen
    <3>2. Num_WrReqs' + WrLen' = k * LineLen
      BY <1>2, <2>1, <3>1
    <3> QED BY <3>2
  <2> QED BY <2>2, <2>3, <2>4
<1>5. CASE WrFSM = 2
  BY <1>1, <1>5 DEF WrMachine, FsmNext
<1> QED BY <1>2, <1>3, <1>4, <1>5

(* The packets move on, and the engine goes on where they end.             *)
LEMMA ChainStep ==
  ASSUME FlowInv, CounterInv, EndInv, Aligned, ChainInv, Running,
         NEW mmio, NEW c0Hold \in BOOLEAN, NEW c1Hold \in BOOLEAN, NEW rsp, NEW ack, NEW err,
         Clk(mmio, c0Hold, c1Hold, rsp, ack, err)
  PROVE  ChainInv'
<1> DEFINE pop  == ~c1Hold /\ q # <<>>
           push == WrFSM = 1 /\ Len(q) < TxCap
           rest == IF pop THEN Tail(q) ELSE q
           next == IF pop THEN Head(q) ELSE NoItem
           base == After(afterO1, next)
           end  == EndsAt(afterO1, q)
<1>1. EngineTypes /\ PipeTypes /\ re2xy_go /\ test_Reset_n
  BY RunStates DEF FlowInv, Running
<1>2. /\ wr_T3' = out[2] /\ wr_T4' = wr_T3
      /\ c1' = IF wr_T4 # NoItem THEN wr_T4 ELSE IF sendsFence THEN Fence ELSE NoItem
      /\ IsWrite(c1') <=> wr_T4 # NoItem
  BY StageStep
<1>3. /\ q' = IF push THEN Append(rest, rw2ab_Wr) ELSE rest
      /\ out' = <<next, out[1]>>
      /\ pop => Head(q) \in Lines
  <2>1. Queue(c1Hold)
    BY DEF Clk
  <2> QED BY <1>1, <2>1, QueueStep
<1>4. open' = afterT4
  BY <1>2 DEF Clk, Host, After, afterT4
<1>5. afterT4' = afterT3 /\ afterT3' = afterO2 /\ afterO2' = afterO1 /\ afterO1' = base
  BY <1>2, <1>3, <1>4 DEF afterT4, afterT3, afterO2, afterO1
<1>6. rest \in Seq(Lines) /\ Fits(afterO1, next) /\ Chained(base, rest) /\ EndsAt(base, rest) = end
  <2>1. CASE pop
    <3>1. Head(q) # NoItem
      BY <1>3, <2>1, LinesAreLines
    <3>2. base = Head(q).len /\ next = Head(q) /\ rest = Tail(q)
      BY <2>1, <3>1 DEF After
    <3>3. q \in Seq(Lines) /\ q # <<>> /\ Chained(afterO1, q)
      BY <1>1, <2>1 DEF PipeTypes, ChainInv
    <3>4. /\ Fits(afterO1, Head(q)) /\ Chained(Head(q).len, Tail(q))
          /\ EndsAt(Head(q).len, Tail(q)) = EndsAt(afterO1, q)
      BY <3>3, ChainTail
    <3> QED BY <3>2, <3>3, <3>4
  <2>2. CASE ~pop
    <3>1. base = afterO1 /\ next = NoItem /\ rest = q
      BY <2>2 DEF After
    <3> QED BY <1>1, <3>1 DEF PipeTypes, ChainInv, Fits
  <2> QED BY <2>1, <2>2
<1>7. rw2ab_Wr \in Lines /\ rw2ab_Wr.sop = WrSop /\ rw2ab_Wr.len = WrLen /\ rw2ab_Wr # NoItem
  <2>1. rw2ab_Wr \in Lines /\ rw2ab_Wr.sop = WrSop /\ rw2ab_Wr.len = WrLen
    BY <1>1 DEF EngineTypes, rw2ab_Wr, Lines
  <2> QED BY <2>1, LinesAreLines
<1>8. WrFSM = 1 => IF WrSop THEN end = 0 ELSE end = WrLen + 1
  BY <1>7 DEF ChainInv, Fits
<1>9. WrFSM # 1 => end = 0
  BY DEF ChainInv
<1>10. Chained(base, q') /\ EndsAt(base, q') = IF push THEN WrLen ELSE end
  <2>1. CASE push
    <3>1. Fits(EndsAt(base, rest), rw2ab_Wr)
      BY <1>6, <2>1 DEF ChainInv
    <3>2. Chained(base, Append(rest, rw2ab_Wr)) /\ EndsAt(base, Append(rest, rw2ab_Wr)) = WrLen
      BY <1>6, <1>7, <3>1, ChainAppend
    <3> QED BY <1>3, <2>1, <3>2
  <2>2. CASE ~push
    BY <1>3, <1>6, <2>2
  <2> QED BY <2>1, <2>2
<1>11. WrMachine(cfg, re2xy_go, re2xy_NumLines, Len(q) < TxCap, ack)
  BY <1>1 DEF Clk, RwClk
<1>12. LineLen \in Nat \ {0} /\ WrLen \in 0 .. LineLen - 1 /\ WrFSM \in 0 .. 2 /\ WrSop \in BOOLEAN
  BY <1>1, SizesAssumption DEF EngineTypes
<1> HIDE DEF pop, rest, next, base, end
<1>13. /\ WrFSM' = 1 => IF WrSop' THEN EndsAt(base, q') = 0 ELSE EndsAt(base, q') = WrLen' + 1
       /\ WrFSM' # 1 => EndsAt(base, q') = 0
  <2>1. CASE WrFSM = 0
    BY <1>9, <1>10, <1>11, <2>1 DEF WrMachine
  <2>2. CASE WrFSM = 2
    BY <1>9, <1>10, <1>11, <2>2 DEF WrMachine, FsmNext
  <2>3. CASE WrFSM = 1 /\ ~(Len(q) < TxCap)
    BY <1>8, <1>10, <1>11, <2>3 DEF WrMachine, FsmNext
  <2>4. CASE WrFSM = 1 /\ Len(q) < TxCap
    <3>1. EndsAt(base, q') = WrLen
      BY <1>10, <2>4
    <3>2. WrFSM' # 1 => Num_WrReqs = re2xy_NumLines
      BY <1>11, <2>4 DEF WrMachine, FsmNext
    <3>3. WrFSM' # 1 => WrLen = 0
      BY <2>4, <3>2, WholePackets
    <3>4. WrSop' = (WrLen = 0) /\ WrLen' = nextLen
      BY <1>11, <2>4 DEF WrMachine
    <3>5. WrLen # 0 => WrLen = nextLen + 1
      BY <1>12 DEF nextLen
    <3> QED BY <1>12, <3>1, <3>3, <3>4, <3>5
  <2> QED BY <1>12, <2>1, <2>2, <2>3, <2>4
<1>14. rw2ab_Wr' = [sop |-> WrSop', len |-> WrLen']
  BY DEF rw2ab_Wr
<1>15. WrFSM' = 1 => Fits(EndsAt(base, q'), rw2ab_Wr')
  BY <1>13, <1>14 DEF Fits
<1>16. /\ Fits(open', wr_T4') /\ Fits(afterT4', wr_T3') /\ Fits(afterT3', out'[2])
       /\ Fits(afterO2', out'[1])
  BY <1>2, <1>3, <1>4, <1>5, <1>6 DEF ChainInv
<1> QED BY <1>5, <1>10, <1>13, <1>15, <1>16 DEF ChainInv, Chained, EndsAt, Fits

(* The software forces a run that is not over only if it may at all.       *)
LEMMA ForceMove ==
  ASSUME NEW mmio, Software(mmio), sw' = "force", sw # "force"
  PROVE  sw = "run" /\ (Forces \/ RunOver)
BY DEF Software, Idle, swVars, Meddle, TestFlow, Flow

LEMMA CutInvStep ==
  ASSUME FlowInv, CutInv,
         NEW mmio \in CsrWrites, NEW c0Hold \in BOOLEAN, NEW c1Hold \in BOOLEAN,
         NEW rsp, NEW ack, NEW err \in BOOLEAN,
         Software(mmio), Clk(mmio, c0Hold, c1Hold, rsp, ack, err)
  PROVE  CutInv'
<1>1. CtlTypes /\ CsrTypes /\ ResetFlow /\ CtlFlow
      /\ ClkControl(csr.CTL, Connected /\ rw2ab_TestCmp, FALSE, err)
  BY DEF FlowInv, Clk, ReClk
<1>2. error' => Errors
  BY <1>1 DEF ClkControl, CutInv, Clk
<1>3. read_only_test' => \E c \in AllCfgs : c.mode = "READ"
  BY <1>1 DEF ClkControl, CutInv, CtlTypes
<1>4. test_cmplt' /\ ~status_write' => Forces \/ Errors
  <2>1. SUFFICES ASSUME test_cmplt', ~status_write' PROVE Forces \/ Errors
    OBVIOUS
  <2>2. test_Reset_n /\ ~status_write /\ (test_cmplt \/ "force" \in csr.CTL \/ error)
    BY <1>1, <2>1 DEF ClkControl
  <2>3. "force" \in csr.CTL => sw = "force" \/ (sw = "off" /\ Pending)
    <3>1. CASE Pending
      BY <1>1, <3>1 DEF CtlFlow
    <3>2. CASE ~Pending
      BY <1>1, <3>2 DEF CtlFlow, CtlOf, CsrTypes
    <3> QED BY <3>1, <3>2
  <2>4. sw = "off" /\ Pending => status_write
    BY <1>1 DEF ResetFlow
  <2> QED BY <2>2, <2>3, <2>4 DEF CutInv
<1>5. sw' = "force" /\ ~status_write' => Forces
  <2>1. SUFFICES ASSUME sw' = "force", ~status_write' PROVE Forces
    OBVIOUS
  <2>2. sw \in {"run", "force"}
    BY <2>1, ForceMove
  <2>3. ~status_write
    BY <1>1, <2>1, <2>2 DEF ClkControl, ResetFlow
  <2>4. ~RunOver
    BY <2>3 DEF RunOver, FlowInv, DsmFlow
  <2> QED BY <2>1, <2>3, <2>4, ForceMove DEF CutInv
<1>6. ASSUME NeverWrites
      PROVE  /\ WrFSM' # 1 /\ q' = <<>> /\ out' = <<NoItem, NoItem>>
             /\ wr_T3' = NoItem /\ wr_T4' = NoItem /\ open' = 0
  <2>1. /\ WrFSM # 1 /\ q = <<>> /\ out = <<NoItem, NoItem>>
        /\ wr_T3 = NoItem /\ wr_T4 = NoItem /\ open = 0
    BY <1>6 DEF CutInv
  <2>2. ~Writes(cfg)
    BY <1>1, <1>6 DEF NeverWrites, CtlTypes
  <2>3. WrFSM' # 1
    <3>1. CASE ~test_Reset_n
      BY <3>1 DEF Clk, RwClk
    <3>2. CASE test_Reset_n
      <4>1. WrFSM' = FsmNext(WrFSM, re2xy_NumLines # 0 /\ Writes(cfg), re2xy_go,
                             Len(q) < TxCap /\ Num_WrReqs = re2xy_NumLines, cfg.cont)
        BY <3>2 DEF Clk, RwClk, WrMachine
      <4>2. WrFSM \in {0, 2}
        BY <2>1 DEF FlowInv, EngineTypes
      <4> QED BY <2>2, <4>1, <4>2 DEF FsmNext
    <3> QED BY <3>1, <3>2
  <2>4. q' = <<>> /\ out' = <<NoItem, NoItem>>
    BY <2>1 DEF Clk, Queue, TxQ!Clock, TxQ!Clear, TxQ!HeadOf, rw2ab_WrEn
  <2>5. wr_T3' = NoItem /\ wr_T4' = NoItem /\ ~IsWrite(c1')
    BY <2>1 DEF Clk, ReClk, ClkPipe, ClkC1, sendsData, IsWrite
  <2>6. open' = 0
    BY <2>1, <2>5 DEF Clk, Host
  <2> QED BY <2>3, <2>4, <2>5, <2>6
<1> QED BY <1>2, <1>3, <1>4, <1>5, <1>6 DEF CutInv, NeverWrites

(* A data line is sent only while the run goes on.                         *)
LEMMA DataRuns ==
  ASSUME FlowInv, EndInv, sendsData
  PROVE  Running
BY DEF EndInv, Done, sendsData, Running

(***************************************************************************)
(* No packet is cut: the run is not fenced or cut off within one.          *)
(***************************************************************************)
LEMMA OpenStep ==
  ASSUME CutsApart, FlowInv, CounterInv, EndInv, StreamInv,
         NEW mmio \in CsrWrites, NEW c0Hold \in BOOLEAN, NEW c1Hold \in BOOLEAN,
         NEW rsp \in Rsps, NEW ack \in Acks, NEW err \in BOOLEAN,
         Software(mmio), Clk(mmio, c0Hold, c1Hold, rsp, ack, err)
  PROVE  ~re2xy_go' \/ WrFence_sent' \/ test_stop' => open' = 0
<1>1. /\ CtlTypes /\ PipeTypes /\ ClkC1
      /\ ClkControl(csr.CTL, Connected /\ rw2ab_TestCmp, FALSE, err)
  BY DEF FlowInv, Clk, ReClk
<1>2. ~Running => open = 0
  BY DEF Running, StreamInv, OpenInv
<1>3. CASE ~sendsData
  <2>1. open' = open
    <3>1. ~IsWrite(c1')
      BY <1>1, <1>3 DEF ClkC1, IsWrite
    <3> QED BY <3>1 DEF Clk, Host
  <2>2. SUFFICES ASSUME Running, ~re2xy_go' \/ WrFence_sent' \/ test_stop'
                 PROVE  open = 0
    BY <1>2, <2>1
  <2>3. test_Reset_n /\ ~status_write /\ ~sendsIntr /\ ~sendsDsm
    BY <2>2, StageStep
  <2>4. wr_T4 = NoItem
    BY <1>3, <2>2, <2>3 DEF sendsData, Running
  <2>5. re2xy_go'
    BY <1>1, <2>2, <2>3 DEF ClkControl, Running
  <2>6. CASE WrFence_sent'
    <3>1. dsm_status_wren
      BY <1>1, <2>2, <2>3, <2>6 DEF ClkControl, Running, sendsFence
    <3>2. Done
      BY <2>2, <3>1 DEF EndInv, Running
    <3>3. EndsAt(afterO1, q) = 0
      BY <2>2, <3>2 DEF StreamInv, ChainInv, Done
    <3> QED BY <3>2, <3>3 DEF Done, EndsAt, afterO1, afterO2, afterT3, afterT4, After
  <2>7. CASE test_stop'
    <3>1. test_cmplt /\ read_only_test
      BY <1>1, <2>2, <2>3, <2>4, <2>7 DEF ClkControl, Running, stopsHere, packetEnds
    <3>2. Forces \/ Errors
      BY <2>3, <3>1 DEF StreamInv, CutInv
    <3>3. \E c \in AllCfgs : c.mode = "READ"
      BY <3>1 DEF StreamInv, CutInv
    <3>4. NeverWrites
      BY <3>2, <3>3 DEF CutsApart, NeverWrites
    <3> QED BY <3>4 DEF StreamInv, CutInv
  <2> QED BY <2>2, <2>5, <2>6, <2>7
<1>4. CASE sendsData
  <2>1. Running
    BY <1>4, DataRuns
  <2>2. test_Reset_n /\ ~status_write /\ wr_T4 # NoItem /\ c1' = wr_T4 /\ IsWrite(c1')
    BY <1>1, <1>4, <2>1, StageStep DEF sendsData
  <2>3. open' = wr_T4.len
    BY <2>2 DEF Clk, Host
  <2>4. re2xy_go'
    BY <1>1, <2>1, <2>2 DEF ClkControl, Running
  <2>5. ~WrFence_sent'
    <3>1. ~dsm_status_wren
      BY <2>1, <2>2 DEF EndInv, Running, Done
    <3> QED BY <1>1, <2>1, <2>2, <3>1 DEF ClkControl, Running, sendsFence
  <2>6. CASE test_stop'
    <3>1. test_cmplt /\ (read_only_test \/ wr_T4.len = 0)
      BY <1>1, <2>1, <2>2, <2>6 DEF ClkControl, Running, stopsHere, packetEnds
    <3>2. ~read_only_test
      <4>1. SUFFICES ASSUME read_only_test PROVE FALSE
        OBVIOUS
      <4>2. (Forces \/ Errors) /\ \E c \in AllCfgs : c.mode = "READ"
        BY <2>2, <3>1, <4>1 DEF StreamInv, CutInv
      <4>3. NeverWrites
        BY <4>2 DEF CutsApart, NeverWrites
      <4> QED BY <2>2, <4>3 DEF StreamInv, CutInv
    <3> QED BY <2>3, <3>1, <3>2
  <2> QED BY <2>4, <2>5, <2>6
<1> QED BY <1>3, <1>4

(* The software waits for the interrupt of a run before it resets the run. *)
LEMMA IntrStep ==
  ASSUME IntrAwaited, FlowInv, CutInv, IntrInv,
         NEW mmio \in CsrWrites, NEW c0Hold, NEW c1Hold, NEW rsp, NEW ack, NEW err,
         Software(mmio), Clk(mmio, c0Hold, c1Hold, rsp, ack, err)
  PROVE  IntrInv'
<1>1. /\ CtlTypes /\ CsrTypes /\ CsrClk(FALSE, mmio)
      /\ ClkControl(csr.CTL, Connected /\ rw2ab_TestCmp, FALSE, err)
  BY DEF FlowInv, Clk, ReClk
<1>2. send_interrupt' => IntrTest
  BY <1>1 DEF ClkControl, CutInv, IntrAwaited
<1>3. ASSUME Before', status_write', IntrTest PROVE interrupt_sent'
  <2>1. test_Reset_n
    BY <1>1, <1>3 DEF ClkControl
  <2>2. Before \/ RunOver
    BY <1>1, <1>3, Moves DEF CsrTypes, Before
  <2>3. CASE RunOver
    BY <1>1, <1>3, <2>1, <2>3 DEF ClkControl, RunOver
  <2>4. CASE Before
    <3>1. ~re2xy_go
      BY <2>4 DEF FlowInv, PristineFlow, Still
    <3>2. status_write
      BY <1>1, <1>3, <2>1, <3>1 DEF ClkControl, sendsDsm
    <3> QED BY <1>1, <1>3, <2>1, <2>4, <3>2 DEF ClkControl, IntrInv
  <2> QED BY <2>2, <2>3, <2>4
<1> QED BY <1>2, <1>3 DEF IntrInv

LEMMA StreamInvInit == Init => StreamInv
<1> SUFFICES ASSUME Init PROVE StreamInv
  OBVIOUS
<1> USE DEF Init, CsrInit, ReInit, RwInit, FlowInit, TxQ!Init
<1>1. CutInv
  BY DEF CutInv
<1>2. OpenInv /\ IntrInv /\ Aligned /\ ~Running
  BY DEF OpenInv, IntrInv, Aligned, Running
<1> QED BY <1>1, <1>2 DEF StreamInv

LEMMA StreamInvStep ==
  CountersWide /\ CutsApart /\ IntrAwaited
    /\ FlowInv /\ CounterInv /\ EndInv /\ StreamInv /\ [Next]_vars => StreamInv'
<1> SUFFICES ASSUME CountersWide, CutsApart, IntrAwaited,
                    FlowInv, CounterInv, EndInv, StreamInv, [Next]_vars
             PROVE  StreamInv'
  OBVIOUS
<1>1. CASE UNCHANGED vars
  <2> USE <1>1 DEF vars, csrVars, swVars, reVars, reRegs, reCtl, rePipe, rwVars, hostVars
  <2>1. CutInv' /\ OpenInv' /\ IntrInv' /\ Aligned'
    BY DEF StreamInv, CutInv, NeverWrites, OpenInv, IntrInv, Before, Aligned
  <2>2. Running' => ChainInv'
    BY DEF StreamInv, Running, ChainInv, Chained, EndsAt, Fits, afterT4, afterT3, afterO2, afterO1,
           After, rw2ab_Wr
  <2> QED BY <2>1, <2>2 DEF StreamInv
<1>2. CASE Next
  <2>1. PICK mmio \in CsrWrites :
          /\ Software(mmio)
          /\ \E c0Hold, c1Hold, err \in BOOLEAN, rsp \in Rsps, ack \in Acks :
               Clk(mmio, c0Hold, c1Hold, rsp, ack, err)
    BY <1>2, NextSteps
  <2>2. PICK c0Hold \in BOOLEAN, c1Hold \in BOOLEAN, err \in BOOLEAN, rsp \in Rsps, ack \in Acks :
          Clk(mmio, c0Hold, c1Hold, rsp, ack, err)
    BY <2>1
  <2>3. CutInv' /\ IntrInv' /\ Aligned'
    BY <2>1, <2>2, CutInvStep, IntrStep, AlignedStep DEF StreamInv
  <2>4. OpenInv'
    BY <2>1, <2>2, OpenStep DEF OpenInv
  <2>5. ASSUME Running' PROVE ChainInv'
    <3>1. test_Reset_n /\ ~status_write /\ ~test_stop /\ ~WrFence_sent
      BY <2>2, <2>5 DEF Running, Clk, ReClk, ClkControl, FlowInv, CtlTypes
    <3>2. CASE re2xy_go
      <4>1. Running
        BY <3>1, <3>2 DEF Running
      <4> QED BY <2>2, <4>1, ChainStep DEF StreamInv
    <3>3. CASE ~re2xy_go
      <4>1. Fresh'
        BY <2>2, <3>1, <3>3, FreshStep
      <4>2. /\ q' = <<>> /\ out' = <<NoItem, NoItem>> /\ wr_T3' = NoItem /\ wr_T4' = NoItem
            /\ WrFSM' = 0 /\ ~IsWrite(c1')
        BY <4>1 DEF Fresh, Cleared, Unmoved, IsWrite
      <4>3. open' = 0
        BY <2>2, <3>3, <4>2 DEF Clk, Host, StreamInv, OpenInv
      <4>4. afterT4' = 0 /\ afterT3' = 0 /\ afterO2' = 0 /\ afterO1' = 0
        BY <4>2, <4>3 DEF afterT4, afterT3, afterO2, afterO1, After
      <4>5. EndsAt(afterO1', q') = 0 /\ Chained(afterO1', q')
        BY <4>2, <4>4 DEF EndsAt, Chained
      <4> QED BY <4>2, <4>4, <4>5 DEF ChainInv, Fits, Chained, EndsAt
    <3> QED BY <3>2, <3>3
  <2> QED BY <2>3, <2>4, <2>5 DEF StreamInv
<1> QED BY <1>1, <1>2

THEOREM StreamInvariant ==
  ASSUME CountersWide, CutsApart, IntrAwaited
  PROVE  Spec => [](FlowInv /\ CounterInv /\ EndInv /\ StreamInv)
<1>1. Init => FlowInv /\ CounterInv /\ EndInv /\ StreamInv
  BY FlowInvInit, DrainInit, StreamInvInit
<1>2. FlowInv /\ CounterInv /\ EndInv /\ StreamInv /\ [Next]_vars
        => FlowInv' /\ CounterInv' /\ EndInv' /\ StreamInv'
  BY FlowInvStep, DrainStep, StreamInvStep
<1> QED BY <1>1, <1>2, PTL DEF Spec

-----------------------------------------------------------------------------
(***************************************************************************)
(* Every clock of a run is a step of the stream, or none.                  *)
(***************************************************************************)
LEMMA StreamStep ==
  ASSUME CutsApart, FlowInv, CounterInv, EndInv, StreamInv, EndInv', StreamInv',
         NEW mmio \in CsrWrites, NEW c0Hold \in BOOLEAN, NEW c1Hold \in BOOLEAN,
         NEW rsp \in Rsps, NEW ack \in Acks, NEW err \in BOOLEAN,
         Software(mmio), Clk(mmio, c0Hold, c1Hold, rsp, ack, err)
  PROVE  Stream!Next
<1>1. /\ CtlTypes /\ PipeTypes /\ ClkC1
      /\ ClkControl(csr.CTL, Connected /\ rw2ab_TestCmp, FALSE, err)
  BY DEF FlowInv, Clk, ReClk
<1>2. ~IsWrite(c1') => open' = open
  BY DEF Clk, Host
<1>3. /\ ~IsWrite(NoItem) /\ ~IsWrite(Fence) /\ ~IsWrite(Dsm) /\ ~IsWrite(Intr)
  BY DEF IsWrite
<1>4. interrupt_sent => status_write
  BY DEF EndInv
<1>5. status_write => WrFence_sent
  BY DEF EndInv
<1>6. CASE ~test_Reset_n
  <2>1. ~re2xy_go /\ Before
    BY <1>6, RunStates DEF Still
  <2>2. Cleared'
    BY <1>6, ClearStep
  <2>3. phase' = "writing"
    BY <2>2 DEF phase, Cleared
  <2>4. WrFence_sent => status_write
    BY <2>1 DEF EndInv
  <2>5. phase # "fenced"
    BY <1>1, <2>4 DEF phase, CtlTypes
  <2>6. ~sendsIntr
    BY <2>1 DEF sendsIntr, EndInv, StreamInv, IntrInv
  <2>7. c1' = NoItem
    BY <1>1, <2>1, <2>6 DEF ClkC1, sendsDsm, sendsData, sendsFence
  <2>8. open = 0
    BY <2>1 DEF StreamInv, OpenInv
  <2> QED BY <1>2, <1>3, <2>3, <2>5, <2>7, <2>8 DEF Stream!Next, Stream!Reset
<1>7. CASE test_Reset_n
  <2>1. /\ WrFence_sent' = (WrFence_sent \/ sendsFence)
        /\ status_write' = (status_write \/ sendsDsm)
        /\ interrupt_sent' = (interrupt_sent \/ sendsIntr)
    BY <1>1, <1>7 DEF ClkControl
  <2>2. CASE sendsIntr
    <3>1. status_write /\ ~interrupt_sent /\ c1' = Intr /\ ~sendsFence /\ ~sendsDsm
      BY <1>1, <2>2 DEF ClkC1, sendsIntr, EndInv, sendsFence, sendsDsm
    <3>2. phase = "reported" /\ phase' = "notified"
      BY <2>1, <2>2, <3>1 DEF phase
    <3> QED BY <1>2, <1>3, <3>1, <3>2 DEF Stream!Next, Stream!Notify, Intr
  <2>3. CASE sendsDsm /\ status_write
    <3>1. c1' = NoItem /\ ~sendsIntr
      BY <1>1, <2>3 DEF ClkC1, sendsDsm
    <3>2. phase' = phase
      BY <1>1, <1>5, <2>1, <2>3, <3>1 DEF phase, CtlTypes
    <3> QED BY <1>2, <1>3, <3>1, <3>2 DEF Stream!Next, Stream!Pause
  <2>4. CASE sendsDsm /\ ~status_write
    <3>1. c1' = Dsm /\ ~sendsIntr /\ WrFence_sent
      BY <1>1, <2>4 DEF ClkC1, sendsDsm
    <3>2. phase = "fenced" /\ phase' = "reported"
      BY <1>4, <2>1, <2>4, <3>1 DEF phase
    <3> QED BY <1>2, <1>3, <3>1, <3>2 DEF Stream!Next, Stream!Report, Dsm
  <2>5. CASE sendsData
    <3>1. Running
      BY <2>5, DataRuns
    <3>2. c1' = wr_T4 /\ IsWrite(c1') /\ wr_T4 # NoItem /\ ~sendsIntr /\ ~sendsDsm
      BY <1>1, <2>5, <3>1, StageStep DEF sendsData
    <3>3. ~sendsFence
      BY <3>1, <3>2 DEF EndInv, Running, Done, sendsFence
    <3>4. phase = "writing" /\ phase' = "writing"
      BY <1>4, <1>5, <2>1, <3>1, <3>2, <3>3 DEF phase, Running
    <3>5. wr_T4 \in Lines
      BY <1>1, <3>2 DEF PipeTypes, Stage
    <3>6. /\ wr_T4.sop \in BOOLEAN /\ wr_T4.len \in 0 .. LineLen - 1
          /\ wr_T4 = [sop |-> wr_T4.sop, len |-> wr_T4.len]
      BY <3>5 DEF Lines
    <3>7. IF wr_T4.sop THEN open = 0 ELSE open = wr_T4.len + 1
      BY <3>1, <3>2 DEF StreamInv, ChainInv, Fits
    <3>8. open' = wr_T4.len
      BY <3>2 DEF Clk, Host
    <3>9. Stream!Write(wr_T4.sop, wr_T4.len)
      BY <3>2, <3>4, <3>6, <3>7, <3>8 DEF Stream!Write
    <3> QED BY <3>6, <3>9 DEF Stream!Next
  <2>6. CASE ~sendsIntr /\ ~sendsDsm /\ ~sendsData /\ sendsFence
    <3>1. c1' = Fence /\ ~WrFence_sent /\ WrFence_sent'
      BY <1>1, <2>1, <2>6 DEF ClkC1, sendsFence
    <3>2. ~status_write /\ ~interrupt_sent
      BY <1>4, <1>5, <3>1
    <3>3. phase = "writing" /\ phase' = "fenced"
      BY <2>1, <2>6, <3>1, <3>2 DEF phase
    <3>4. open' = open /\ open' = 0
      BY <1>2, <1>3, <3>1 DEF StreamInv, OpenInv
    <3> QED BY <3>1, <3>3, <3>4 DEF Stream!Next, Stream!Fence, Fence
  <2>7. CASE ~sendsIntr /\ ~sendsDsm /\ ~sendsData /\ ~sendsFence
    <3>1. c1' = NoItem
      BY <1>1, <2>7 DEF ClkC1
    <3>2. phase' = phase
      BY <1>1, <2>1, <2>7 DEF phase, CtlTypes
    <3> QED BY <1>2, <1>3, <3>1, <3>2 DEF Stream!Next, Stream!Pause
  <2> QED BY <2>2, <2>3, <2>4, <2>5, <2>6, <2>7
<1> QED BY <1>6, <1>7

(***************************************************************************)
(* Channel C1 carries whole packets, one fence, one status write and at    *)
(* most one interrupt, in this order, in every run, whatever the stalls    *)
(* and whenever the software forces completion: the system implements      *)
(* C1Stream.                                                               *)
(***************************************************************************)
THEOREM RunStreamOrder ==
  ASSUME CountersWide, CutsApart, IntrAwaited
  PROVE  Spec => StreamOrder
<1> DEFINE Inv == FlowInv /\ CounterInv /\ EndInv /\ StreamInv
<1>1. Init => Stream!Init
  BY DEF Init, ReInit, Stream!Init, phase
<1>2. Inv /\ Inv' /\ [Next]_vars => [Stream!Next]_(Stream!svars)
  <2> SUFFICES ASSUME Inv, Inv', [Next]_vars
               PROVE  [Stream!Next]_(Stream!svars)
    OBVIOUS
  <2>1. CASE UNCHANGED vars
    BY <2>1 DEF vars, reVars, reCtl, rePipe, hostVars, Stream!svars, phase
  <2>2. CASE Next
    <3>1. PICK mmio \in CsrWrites :
            /\ Software(mmio)
            /\ \E c0Hold, c1Hold, err \in BOOLEAN, rsp \in Rsps, ack \in Acks :
                 Clk(mmio, c0Hold, c1Hold, rsp, ack, err)
      BY <2>2, NextSteps
    <3>2. PICK c0Hold \in BOOLEAN, c1Hold \in BOOLEAN, err \in BOOLEAN, rsp \in Rsps, ack \in Acks :
            Clk(mmio, c0Hold, c1Hold, rsp, ack, err)
      BY <3>1
    <3> QED BY <3>1, <3>2, StreamStep
  <2> QED BY <2>1, <2>2
<1>3. Spec => []Inv
  BY StreamInvariant
<1> HIDE DEF Inv
<1> QED BY <1>1, <1>2, <1>3, PTL DEF Spec, StreamOrder, Stream!Spec
=============================================================================
