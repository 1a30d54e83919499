---------------------------- MODULE NlbSw1Proofs ----------------------------
(***************************************************************************)
(* Proofs about the SW1 test: whoever sees the flag sees every line, for   *)
(* every number of lines, depth of the queue and order of memory; the      *)
(* count the engine ends on is that of lines, with every method of notice; *)
(* and the status line tells the truth about the software's copy.  SafeInv *)
(* is inductive: where the software is and what the registers show of it   *)
(* (FlowInv), the chain of requests between the engine and channel C1      *)
(* (ChainInv), what is on its way to memory (SentInv, FlagInv), and the    *)
(* notice, the reads and the end (StopInv, NoticeInv, ReadInv).            *)
(***************************************************************************)
EXTENDS NlbSw1, SequenceTheorems, FiniteSetTheorems, TLAPS

(***************************************************************************)
(* Where the software is in a test, and what the registers and the engine  *)
(* show of it.                                                             *)
(***************************************************************************)
AllCfgs == Configs \cup {DefaultCfg}
AllLines == {0} \cup LineCounts

(* The write in stage T1 is one of register reg.                           *)
Carries(reg) == wr_T1 # NoWrite /\ wr_T1.reg = reg
Pending == Carries("CTL")

(* The domains of the variables, with what they know of one another.       *)
CsrTypes ==
  /\ wr_T1 \in CsrWrites \cup {Message}
  /\ csr \in [CTL : SUBSET CtlBits, CFG : AllCfgs, LINES : AllLines]
  /\ csr_write \in BOOLEAN /\ re2cr_wrlock_n \in BOOLEAN
  /\ sw \in {"off", "reset", "lines", "config", "run", "force"}
  /\ swcfg \in AllCfgs /\ swlines \in AllLines

CtlTypes ==
  /\ test_Reset_n \in BOOLEAN /\ test_go \in BOOLEAN
  /\ cfg \in AllCfgs /\ re2xy_NumLines \in AllLines /\ WrData_dsm \in BOOLEAN
  /\ re2xy_go \in BOOLEAN /\ test_cmplt \in BOOLEAN /\ read_only_test = FALSE
  /\ test_stop \in BOOLEAN /\ dsm_status_wren \in BOOLEAN /\ WrFence_sent \in BOOLEAN
  /\ status_write \in BOOLEAN /\ send_interrupt \in BOOLEAN
  /\ interrupt_sent \in BOOLEAN /\ error \in BOOLEAN
  /\ RdHdr_valid_q \in BOOLEAN /\ c0 \in BOOLEAN /\ dsm \in BOOLEAN /\ told \in BOOLEAN

(* What is queued, by its place in the order the engine writes in: line k, *)
(* the fence after the last line, and the flag.                            *)
Item(k) ==
  [sop |-> TRUE, len |-> 0, fence |-> k = swlines,
   addr |-> IF k < swlines THEN k ELSE swlines,
   data |-> IF k <= swlines THEN k ELSE Flag]

TheFlag == Item(swlines + 1)

(* No fence is needed if there are no lines.                               *)
First == IF swlines = 0 THEN 1 ELSE 0

EngineTypes ==
  /\ WrFSM \in {"WAIT", "WRITE", "WRFENCE", "UPDTFLAG", "DONE"}
  /\ RdFSM \in {"WAIT", "READ", "RESP", "DONE"}
  /\ PollFSM \in {"WAIT", "READ", "RESP", "DONE"}
  /\ WrAddr \in 0 .. swlines
  /\ WrFSM = "WRITE" => WrAddr < swlines
  /\ WrFSM \in {"WRFENCE", "UPDTFLAG", "DONE"} => WrAddr = swlines
  /\ WrFSM \in {"WRITE", "WRFENCE"} => swlines > 0
  /\ WrFSM = "UPDTFLAG" => wrDin = TRUE
  /\ rd_go \in BOOLEAN /\ ErrorValid \in BOOLEAN /\ s12ab_TestCmp \in BOOLEAN
  /\ Num_RdRsp \in Nat

MemTypes ==
  /\ IsFiniteSet(reads) /\ reads \subseteq 0 .. swlines
  /\ copied \in 0 .. swlines
  /\ DOMAIN dst = 0 .. swlines /\ DOMAIN src = 0 .. swlines
  /\ dst[swlines] \in {Blank, Flag}
  /\ src[swlines] = Flag => told
  /\ src[swlines] \in {Blank, Flag}
  /\ message \in {NoMessage, "message", "hint"}

(* The CTL the software leaves with each step, and when it has landed.     *)
CtlOf(s) == CASE s = "off" -> {}
              [] s = "run" -> {"reset_n", "go"}
              [] s = "force" -> {"reset_n", "go", "force"}
              [] OTHER -> {"reset_n"}

CtlFlow ==
  /\ ~Pending => csr.CTL = CtlOf(sw)
  /\ Pending =>
       /\ wr_T1.val = CtlOf(sw)
       /\ \/ sw = "reset" /\ csr.CTL = {}
          \/ sw = "run" /\ csr.CTL = {"reset_n"}
          \/ sw = "force" /\ csr.CTL = {"reset_n", "go"}
          \/ sw = "off" /\ {"reset_n", "go"} \subseteq csr.CTL

(* No test has been started since the last one ended.                      *)
Before == sw \in {"off", "reset", "lines", "config"}

(* What has left for memory and is not carried out.                        *)
Sent == IF c1 = NoItem THEN posted ELSE Append(posted, c1)
In(s, m) == \E i \in 1 .. Len(s) : s[i] = m

(* Nothing moves before the software starts a test.                        *)
Still ==
  /\ ~re2xy_go /\ ~RdHdr_valid_q /\ ~c0 /\ reads = {}
  /\ \A i \in 1 .. Len(Sent) : Sent[i] = Intr
  /\ wr_T1 # Message /\ ~csr_write /\ message = NoMessage

(* As reset leaves the queue and its stages; and the control registers.    *)
Empty ==
  /\ q = <<>> /\ head = NoItem /\ out = <<NoItem, NoItem>>
  /\ WrHdr_valid_T2 = FALSE /\ wr_T3 = NoItem /\ wr_T4 = NoItem

Cleared ==
  /\ ~test_cmplt /\ ~test_stop /\ ~dsm_status_wren /\ ~WrFence_sent
  /\ ~status_write /\ ~send_interrupt /\ ~interrupt_sent /\ ~error
  /\ WrFSM = "WAIT" /\ RdFSM = "WAIT" /\ PollFSM = "WAIT"
  /\ ~rd_go /\ ~ErrorValid /\ ~s12ab_TestCmp
  /\ Empty

(* The start of a run closes its configuration; its end, which the software*)
(* waits for, comes before reset; reset clears what a run left.            *)
LockFlow ==
  /\ test_go \/ re2xy_go => ~re2cr_wrlock_n
  /\ sw \in {"lines", "config"} => re2cr_wrlock_n
  /\ re2xy_go => "go" \in csr.CTL
  /\ sw \in {"reset", "lines", "config"} => ~test_go
  /\ sw = "run" /\ Pending => ~test_go

ResetFlow ==
  /\ sw = "off" /\ (Pending \/ test_Reset_n) => test_Reset_n /\ status_write
  /\ sw = "reset" /\ Pending => ~test_Reset_n
  /\ sw \in {"lines", "config", "run", "force"} => test_Reset_n

StartFlow ==
  /\ Before => Still
  /\ sw = "reset" /\ ~Pending => Cleared
  /\ sw \in {"lines", "config"} => Cleared /\ ~dsm /\ ~told
  /\ sw \in {"run", "force"} /\ ~re2xy_go /\ ~status_write =>
       Cleared /\ Still /\ ~dsm /\ ~told
  /\ sw = "force" /\ ~re2xy_go /\ ~status_write => test_go /\ Pending

DsmFlow ==
  /\ (dsm /\ sw \in {"run", "force"}) \/ In(posted, Dsm) =>
       status_write /\ ~re2xy_go /\ ~RdHdr_valid_q
  /\ c1 = Dsm => status_write
  /\ send_interrupt => status_write

(* The choices of the software reach the engine before the start does.     *)
ChoiceFlow ==
  /\ Carries("LINES") => sw = "lines" /\ wr_T1.val = swlines
  /\ ~Carries("LINES") => csr.LINES = swlines
  /\ sw # "lines" => re2xy_NumLines = swlines
  /\ Carries("CFG") => sw = "config" /\ wr_T1.val = swcfg
  /\ ~Carries("CFG") => csr.CFG = swcfg
  /\ sw # "config" => cfg = swcfg

FlowInv ==
  /\ CsrTypes /\ CtlTypes /\ EngineTypes /\ MemTypes
  /\ CtlFlow /\ LockFlow /\ ResetFlow /\ StartFlow /\ DsmFlow /\ ChoiceFlow

-----------------------------------------------------------------------------
(***************************************************************************)
(* What the engine writes, in order: a chain of places from the queue to   *)
(* channel C1 without a gap, while a run is neither cut off nor over.      *)
(***************************************************************************)
Running == re2xy_go /\ ~test_stop /\ ~status_write

(* The place of the request the engine makes next.                         *)
Place == CASE WrFSM = "WAIT" -> First
           [] WrFSM = "WRITE" -> WrAddr
           [] WrFSM = "WRFENCE" -> swlines
           [] WrFSM = "UPDTFLAG" -> swlines + 1
           [] OTHER -> swlines + 2

(* The place of the oldest request in the queue, and in each stage.        *)
atQ  == Place - Len(q)
atO1 == atQ - One(out[1] # NoItem)
atO2 == atO1 - One(out[2] # NoItem)
atT3 == atO2 - One(wr_T3 # NoItem)
atT4 == atT3 - One(wr_T4 # NoItem)

Carried(m, k) == m # NoItem => m = Item(k)

ChainInv ==
  /\ \A i \in 1 .. Len(q) : q[i] = Item(atQ + i - 1)
  /\ Carried(out[1], atO1) /\ Carried(out[2], atO2)
  /\ Carried(wr_T3, atT3) /\ Carried(wr_T4, atT4)
  /\ WrHdr_valid_T2 <=> out[2] # NoItem
  /\ atT4 >= First

(* What may be queued, sent and posted.                                    *)
Requests == [sop : {TRUE}, len : {0}, fence : BOOLEAN, addr : Nat, data : Nat \cup {Flag}]
Messages == Requests \cup {Fence, Dsm, Intr}
Stage == Requests \cup {NoItem}

PipeTypes ==
  /\ q \in Seq(Requests) /\ Len(q) <= TxCap /\ head = TxQ!HeadOf(q)
  /\ out \in Stage \X Stage /\ wr_T3 \in Stage /\ wr_T4 \in Stage
  /\ WrHdr_valid_T2 \in BOOLEAN /\ AlmFull_T1 \in BOOLEAN
  /\ c1 \in Messages \cup {NoItem} /\ posted \in Seq(Messages)

(* A line is behind a fence in s.                                          *)
Line(m) == \E a \in Lines(swlines) : m = Item(a)
Covered(s) == \A i \in 1 .. Len(s) : Line(s[i]) =>
                \E f \in i + 1 .. Len(s) : IsFence(s[f])
FencedOff(s) == \A i, j \in 1 .. Len(s) : Line(s[i]) /\ s[j] = TheFlag =>
                \E f \in i + 1 .. j - 1 : IsFence(s[f])
Kept(s) == \A i \in 1 .. Len(s) :
             s[i] \in {Fence, Dsm, Intr} \/ \E k \in First .. swlines + 1 : s[i] = Item(k)
Delivered(s, a) == dst[a] = a \/ In(s, Item(a))

(* Every line is in memory or on its way before the flag is sent, with a   *)
(* fence between them; whatever is carried out keeps that so.              *)
SentInv ==
  /\ Kept(Sent) /\ FencedOff(Sent)
  /\ In(Sent, TheFlag) => \A a \in Lines(swlines) : Delivered(Sent, a)
  /\ DataBeforeFlag
  /\ Running => \A a \in Lines(swlines) : a < atT4 => Delivered(Sent, a)
  /\ Running /\ swlines > 0 /\ atT4 = swlines + 1 => Covered(Sent)

(* Nothing follows the flag.                                               *)
Flagged == dst[swlines] = Flag \/ In(Sent, TheFlag)

FlagInv ==
  Flagged =>
    /\ WrFSM = "DONE" \/ (WrFSM = "WAIT" /\ sw \in {"off", "reset"})
    /\ q = <<>> /\ out = <<NoItem, NoItem>> /\ wr_T3 = NoItem /\ wr_T4 = NoItem

-----------------------------------------------------------------------------
(***************************************************************************)
(* Notice and the end: the software gives notice of a flag it has seen,    *)
(* which ends all forcing; lines are read after notice, all of them before *)
(* the engine is done, and only then is the run over.                      *)
(***************************************************************************)
Over == dsm_status_wren \/ WrFence_sent \/ status_write \/ s12ab_TestCmp

StopInv ==
  /\ told => dst[swlines] = Flag /\ copied = swlines /\ ~test_stop
  /\ error \/ ErrorValid => told
  /\ test_cmplt /\ sw = "run" => told
  /\ test_stop => test_cmplt
  /\ Over => test_stop \/ (WrFSM = "DONE" /\ RdFSM = "DONE")

NoticeInv ==
  /\ wr_T1 = Message \/ csr_write => swcfg.method = "csr"
  /\ message # NoMessage => message = swcfg.method
  /\ wr_T1 = Message \/ csr_write \/ message # NoMessage \/ rd_go \/ RdFSM # "WAIT" => told
  /\ wr_T1 = Message => ~csr_write
  /\ wr_T1 = Message \/ csr_write \/ message # NoMessage => ~rd_go /\ RdFSM = "WAIT"
  /\ rd_go /\ RdFSM # "WAIT" => swcfg.method = "poll"
  /\ PollFSM # "WAIT" => swcfg.method = "poll" /\ WrFSM = "DONE"
  /\ PollFSM = "DONE" => rd_go
  /\ swcfg.method = "poll" /\ (RdFSM # "WAIT" \/ rd_go) => PollFSM = "DONE" /\ rd_go
  /\ PollFSM \in {"READ", "RESP"} => RdAddr = swlines

(* Lines asked for so far, and the reads of them that are on their way:    *)
(* each address below the ones asked later, the poll's answered before.    *)
Asked == IF RdFSM = "READ" THEN Num_RdReqs - 1 ELSE swlines
Reads == RdFSM \in {"READ", "RESP"}

ReadInv ==
  /\ RdFSM = "WAIT" /\ PollFSM # "RESP" => ~RdHdr_valid_q /\ ~c0 /\ reads = {}
  /\ RdFSM = "WAIT" /\ PollFSM = "RESP" =>
       /\ RdHdr_valid_q => RdAddr_q = swlines /\ ~c0 /\ reads = {}
       /\ c0 => c0addr = swlines /\ reads = {}
       /\ reads \subseteq {swlines}
  /\ RdFSM = "READ" => Num_RdReqs \in 1 .. swlines /\ RdAddr = Num_RdReqs - 1
  /\ Reads => ~Over /\ re2xy_go /\ swlines > 0
  /\ Reads =>
       /\ RdHdr_valid_q => RdAddr_q = Asked - 1
       /\ c0 => c0addr = Asked - 1 - One(RdHdr_valid_q)
       /\ \A a \in reads : a < Asked - One(RdHdr_valid_q) - One(c0)
       /\ Num_RdRsp + Cardinality(reads) + One(c0) + One(RdHdr_valid_q) = Asked
  /\ RdFSM = "DONE" => ~RdHdr_valid_q /\ ~c0 /\ reads = {}

-----------------------------------------------------------------------------
(***************************************************************************)
(* The check: a wrong line among those answered is known to the requestor, *)
(* to the engine, or is in the response about to be checked.               *)
(***************************************************************************)
Answered(a) == /\ a \in Lines(Asked) /\ a \notin reads
               /\ ~(c0 /\ c0addr = a) /\ ~(RdHdr_valid_q /\ RdAddr_q = a)
Wrong == \E a \in Lines(swlines) : Answered(a) /\ src[a] # a

TruthInv ==
  /\ RdFSM = "WAIT" => ~error /\ ~ErrorValid
  /\ RdFSM # "WAIT" => (Wrong <=> error \/ ErrorValid \/ (checking /\ RdRsp_q.data # RdRsp_q.addr))
  /\ s12ab_TestCmp => (ErrorValid => error)
  /\ dsm_status_wren /\ ~test_stop => s12ab_TestCmp /\ (WrData_dsm <=> error)
  /\ WrFence_sent /\ ~test_stop => s12ab_TestCmp /\ (WrData_dsm <=> error)

(* Completion is forced, if at all, once the status line is written.       *)
ForceInv ==
  /\ sw = "force" => status_write
  /\ ~test_stop

(* The inductive invariant.                                                *)
SafeInv ==
  /\ FlowInv /\ PipeTypes /\ (Running => ChainInv)
  /\ SentInv /\ FlagInv /\ StopInv /\ NoticeInv /\ ReadInv
-----------------------------------------------------------------------------
(* One clock, with the software's move and what memory does in it.         *)
StepOf(copies, mmio, u, c0Hold, c1Hold, i, a) ==
  /\ copies \in BOOLEAN /\ mmio \in CsrWrites \cup {Message} /\ u \in {NoMessage, message}
  /\ c0Hold \in BOOLEAN /\ c1Hold \in BOOLEAN /\ i \in {0} \cup Ready /\ a \in {-1} \cup reads
  /\ Software(copies, mmio, u)
  /\ Clk(mmio, u, c0Hold, c1Hold, i, a)

LEMMA NextSteps ==
  ASSUME Next
  PROVE  \E copies, mmio, u, c0Hold, c1Hold, i, a :
           StepOf(copies, mmio, u, c0Hold, c1Hold, i, a)
BY DEF Next, Steps, StepOf

(***************************************************************************)
(* What the software does to the registers and to its notes of the copy.   *)
(***************************************************************************)
noted == <<src, copied, told, message>>

SetsLines(mmio) ==
  /\ sw = "reset" /\ sw' = "lines" /\ swlines' \in LineCounts /\ swcfg' = swcfg
  /\ mmio = CsrWrite("LINES", swlines')
  /\ src' = Prepared(swlines') /\ copied' = 0 /\ told' = FALSE /\ message' = NoMessage

SetsCfg(mmio) ==
  /\ sw = "lines" /\ sw' = "config" /\ swcfg' \in Configs /\ swlines' = swlines
  /\ mmio = CsrWrite("CFG", swcfg') /\ UNCHANGED noted

SetsCtl(mmio) ==
  /\ \/ sw = "off" /\ sw' = "reset"
     \/ sw = "config" /\ sw' = "run"
     \/ sw = "run" /\ sw' = "force" /\ (Forces \/ RunOver)
     \/ sw \in {"run", "force"} /\ sw' = "off" /\ RunOver
  /\ swcfg' = swcfg /\ swlines' = swlines
  /\ mmio = CsrWrite("CTL", CtlOf(sw')) /\ UNCHANGED noted

Stays == sw' = sw /\ swcfg' = swcfg /\ swlines' = swlines

Move(mmio, u) ==
  \/ Stays /\ CopyBack(mmio, u) /\ mmio \in {NoWrite, Message}
  \/ Stays /\ UNCHANGED noted /\ mmio = NoWrite /\ u = NoMessage
  \/ /\ wr_T1 = NoWrite /\ u = NoMessage
     /\ SetsLines(mmio) \/ SetsCfg(mmio) \/ SetsCtl(mmio)

LEMMA Moves ==
  ASSUME NEW copies, NEW mmio, NEW u, NEW c0Hold, NEW c1Hold, NEW i, NEW a,
         StepOf(copies, mmio, u, c0Hold, c1Hold, i, a)
  PROVE  wr_T1' = mmio /\ Move(mmio, u)
<1>1. wr_T1' = mmio /\ Software(copies, mmio, u)
  BY DEF StepOf, Clk, CsrClk
<1>2. CASE CopyBack(mmio, u)
  BY <1>1, <1>2 DEF CopyBack, Post, Move, Stays, swVars
<1>3. CASE u = NoMessage /\ Idle(mmio) /\ noCopy
  BY <1>1, <1>3 DEF Idle, noCopy, noted, Move, Stays, swVars
<1>4. CASE u = NoMessage /\ Drive(mmio)
  <2>1. wr_T1 = NoWrite /\ TestFlow(RunOver, mmio)
    BY <1>4 DEF Drive
  <2>2. CASE sw = "reset" /\ sw' = "lines"
    <3>1. \E n \in LineCounts : mmio = CsrWrite("LINES", n) /\ swlines' = n /\ swcfg' = swcfg
      BY <2>1, <2>2 DEF TestFlow, Flow
    <3> QED BY <1>1, <1>4, <2>1, <2>2, <3>1 DEF Drive, prepares, Move, SetsLines
  <2>3. CASE ~(sw = "reset" /\ sw' = "lines")
    <3>1. UNCHANGED noted
      BY <1>4, <2>3 DEF Drive, prepares, noCopy, noted
    <3>2. CASE \E c \in Configs : /\ Flow("lines", "config", CsrWrite("CFG", c), mmio)
                                  /\ swcfg' = c /\ UNCHANGED swlines
      BY <1>1, <1>4, <2>1, <3>1, <3>2 DEF Flow, Move, SetsCfg
    <3>3. CASE Keep /\ ~(sw = "lines" /\ sw' = "config")
      <4>1. CASE Flow("off", "reset", CsrWrite("CTL", {"reset_n"}), mmio)
        BY <1>1, <1>4, <2>1, <3>1, <3>3, <4>1 DEF Flow, Keep, CtlOf, Move, SetsCtl
      <4>2. CASE Flow("config", "run", CsrWrite("CTL", {"reset_n", "go"}), mmio)
        BY <1>1, <1>4, <2>1, <3>1, <3>3, <4>2 DEF Flow, Keep, CtlOf, Move, SetsCtl
      <4>3. CASE Flow("run", "force", CsrWrite("CTL", {"reset_n", "go", "force"}), mmio)
                   /\ (Forces \/ RunOver)
        BY <1>1, <1>4, <2>1, <3>1, <3>3, <4>3 DEF Flow, Keep, CtlOf, Move, SetsCtl
      <4>4. CASE sw \in {"run", "force"} /\ RunOver /\ Flow(sw, "off", CsrWrite("CTL", {}), mmio)
        BY <1>1, <1>4, <2>1, <3>1, <3>3, <4>4 DEF Flow, Keep, CtlOf, Move, SetsCtl
      <4> QED BY <2>1, <2>3, <3>3, <4>1, <4>2, <4>3, <4>4 DEF TestFlow, Flow
    <3> QED BY <2>1, <2>3, <3>2, <3>3 DEF TestFlow, Flow
  <2> QED BY <2>2, <2>3
<1> QED BY <1>1, <1>2, <1>3, <1>4 DEF Software

(* The software's part of the copy, by what it changes.                    *)
CopiesLine(mmio, u) ==
  /\ flagSeen /\ copied < swlines /\ copied' = copied + 1
  /\ mmio = NoWrite /\ u = NoMessage
  /\ DOMAIN src' = DOMAIN src /\ src'[swlines] = src[swlines]
  /\ UNCHANGED <<told, message>>

GivesNotice(mmio, u) ==
  /\ flagSeen /\ copied = swlines /\ ~told /\ told' = TRUE /\ copied' = copied
  /\ u = NoMessage
  /\ \/ /\ swcfg.method = "poll" /\ mmio = NoWrite
        /\ src' = [src EXCEPT ![swlines] = Flag] /\ message' = message
     \/ /\ swcfg.method \in {"message", "hint"} /\ mmio = NoWrite
        /\ message' = swcfg.method /\ src' = src
     \/ /\ swcfg.method = "csr" /\ mmio = Message /\ wr_T1 = NoWrite
        /\ message' = message /\ src' = src

Arrives(mmio, u) ==
  /\ message # NoMessage /\ u = message /\ message' = NoMessage /\ mmio = NoWrite
  /\ UNCHANGED <<src, copied, told>>

LEMMA Copies ==
  ASSUME NEW mmio, NEW u, CopyBack(mmio, u), MemTypes, swlines \in Nat
  PROVE  /\ swVars' = swVars
         /\ CopiesLine(mmio, u) \/ GivesNotice(mmio, u) \/ Arrives(mmio, u)
<1>1. swVars' = swVars
  BY DEF CopyBack
<1>2. CASE \E good \in BOOLEAN : Copy(good) /\ mmio = NoWrite /\ u = NoMessage
  <2>1. copied \in 0 .. swlines /\ DOMAIN src = 0 .. swlines
    BY DEF MemTypes
  <2>2. PICK v : src' = [src EXCEPT ![copied] = v]
    BY <1>2 DEF Copy
  <2>3. copied # swlines
    BY <1>2, <2>1 DEF Copy
  <2>4. DOMAIN src' = DOMAIN src /\ src'[swlines] = src[swlines]
    BY <2>1, <2>2, <2>3
  <2> QED BY <1>1, <1>2, <2>4 DEF Copy, CopiesLine
<1>3. CASE Poke /\ mmio = NoWrite /\ u = NoMessage
  BY <1>1, <1>3 DEF Poke, Tell, GivesNotice
<1>4. CASE Signal /\ mmio = NoWrite /\ u = NoMessage
  BY <1>1, <1>4 DEF Signal, Tell, GivesNotice
<1>5. CASE Post(mmio) /\ u = NoMessage
  BY <1>1, <1>5 DEF Post, Tell, GivesNotice
<1>6. CASE Deliver(u) /\ mmio = NoWrite
  BY <1>1, <1>6 DEF Deliver, Arrives
<1> QED BY <1>2, <1>3, <1>4, <1>5, <1>6 DEF CopyBack

-----------------------------------------------------------------------------
(***************************************************************************)
(* The registers.  The write in stage T1 lands in its own, unless it is    *)
(* locked; a message is no register's.                                     *)
(***************************************************************************)
LEMMA CsrStep ==
  ASSUME CsrTypes, NEW mmio, CsrClk(FALSE, mmio)
  PROVE  /\ csr' \in [CTL : SUBSET CtlBits, CFG : AllCfgs, LINES : AllLines]
         /\ csr'.CTL = IF Pending THEN wr_T1.val ELSE csr.CTL
         /\ csr'.LINES = IF Carries("LINES") THEN wr_T1.val ELSE csr.LINES
         /\ csr'.CFG = IF Carries("CFG") /\ re2cr_wrlock_n THEN wr_T1.val ELSE csr.CFG
         /\ re2cr_wrlock_n' = ("reset_n" \in csr.CTL /\ "go" \notin csr.CTL)
         /\ csr_write' = (wr_T1 = Message)
<1>1. re2cr_wrlock_n' = ("reset_n" \in csr.CTL /\ "go" \notin csr.CTL)
  BY DEF CsrClk, configOpen
<1>2. csr' = IF Lands /\ ~IsMessage THEN [csr EXCEPT ![wr_T1.reg] = wr_T1.val] ELSE csr
  BY DEF CsrClk
<1>3. Message # NoWrite /\ Message.reg = "SWTEST_MSG"
  BY NoWriteAssumption DEF Message, CsrWrite
<1>4. wr_T1 # NoWrite /\ wr_T1.reg # "SWTEST_MSG" => wr_T1 # Message
  BY <1>3
<1>5. IsMessage <=> wr_T1 = Message
  BY <1>3, <1>4 DEF CsrTypes, CsrWrites, IsMessage
<1>6. csr_write' = (wr_T1 = Message)
  BY <1>5 DEF CsrClk, IsMessage
<1>7. CASE wr_T1 = NoWrite \/ wr_T1 = Message
  <2>1. csr' = csr
    BY <1>2, <1>5, <1>7 DEF Lands
  <2>2. ~Carries("CTL") /\ ~Carries("LINES") /\ ~Carries("CFG")
    BY <1>3, <1>7 DEF Carries
  <2> QED BY <1>1, <1>6, <2>1, <2>2 DEF CsrTypes, Pending
<1>8. CASE wr_T1 \in [reg : {"CTL"}, val : SUBSET CtlBits]
  BY <1>1, <1>2, <1>3, <1>5, <1>6, <1>8, NoWriteAssumption
     DEF Lands, Locked, CsrTypes, Carries, Pending
<1>9. CASE wr_T1 \in [reg : {"LINES"}, val : LineCounts]
  BY <1>1, <1>2, <1>3, <1>5, <1>6, <1>9, NoWriteAssumption
     DEF Lands, Locked, CsrTypes, Carries, Pending, AllLines
<1>10. CASE wr_T1 \in [reg : {"CFG"}, val : Configs]
  <2>1. wr_T1 # NoWrite /\ wr_T1.reg = "CFG" /\ wr_T1.val \in AllCfgs
    BY <1>10, NoWriteAssumption DEF AllCfgs
  <2>2. Lands <=> re2cr_wrlock_n
    BY <2>1 DEF Lands, Locked
  <2>3. ~IsMessage
    BY <1>3, <1>5, <2>1
  <2> QED BY <1>1, <1>2, <1>6, <2>1, <2>2, <2>3 DEF CsrTypes, Carries, Pending
<1> QED BY <1>7, <1>8, <1>9, <1>10 DEF CsrTypes, CsrWrites

LEMMA CsrTypesStep ==
  ASSUME CsrTypes, NEW copies, NEW mmio, NEW u, NEW c0Hold, NEW c1Hold, NEW i, NEW a,
         StepOf(copies, mmio, u, c0Hold, c1Hold, i, a)
  PROVE  CsrTypes'
<1>1. CsrClk(FALSE, mmio) /\ mmio \in CsrWrites \cup {Message} /\ wr_T1' = mmio
  BY DEF StepOf, Clk, CsrClk
<1>2. /\ csr_write' \in BOOLEAN /\ re2cr_wrlock_n' \in BOOLEAN
      /\ csr' \in [CTL : SUBSET CtlBits, CFG : AllCfgs, LINES : AllLines]
  BY <1>1, CsrStep
<1>3. /\ sw' \in {"off", "reset", "lines", "config", "run", "force"}
      /\ swcfg' \in AllCfgs /\ swlines' \in AllLines
  BY Moves DEF Move, Stays, SetsLines, SetsCfg, SetsCtl, CsrTypes, AllCfgs, AllLines
<1> QED BY <1>1, <1>2, <1>3 DEF CsrTypes

(* The moves of the software, and whether they write CSR_CTL.              *)
LEMMA FlowMoves ==
  ASSUME NEW copies, NEW mmio, NEW u, NEW c0Hold, NEW c1Hold, NEW i, NEW a,
         StepOf(copies, mmio, u, c0Hold, c1Hold, i, a)
  PROVE  /\ \/ sw' = sw /\ ~Pending'
            \/ sw = "off" /\ sw' = "reset" /\ ~Pending /\ Pending'
            \/ sw = "reset" /\ sw' = "lines" /\ ~Pending /\ ~Pending'
            \/ sw = "lines" /\ sw' = "config" /\ ~Pending /\ ~Pending'
            \/ sw = "config" /\ sw' = "run" /\ ~Pending /\ Pending'
            \/ sw = "run" /\ sw' = "force" /\ ~Pending /\ Pending' /\ (Forces \/ RunOver)
            \/ sw \in {"run", "force"} /\ sw' = "off" /\ ~Pending /\ Pending' /\ RunOver
         /\ Pending' => wr_T1'.val = CtlOf(sw')
<1>1. wr_T1' = mmio /\ Move(mmio, u)
  BY Moves
<1>2. \A s : /\ CsrWrite("CTL", CtlOf(s)) # NoWrite
             /\ CsrWrite("CTL", CtlOf(s)).reg = "CTL"
             /\ CsrWrite("CTL", CtlOf(s)).val = CtlOf(s)
  BY NoWriteAssumption DEF CsrWrite, CtlOf, CtlBits
<1>3. \A v : CsrWrite("LINES", v).reg # "CTL" /\ CsrWrite("CFG", v).reg # "CTL"
  BY DEF CsrWrite
<1>4. Message.reg # "CTL"
  BY DEF Message, CsrWrite
<1>5. wr_T1 = NoWrite => ~Pending
  BY DEF Pending, Carries
<1>6. CASE Stays /\ mmio \in {NoWrite, Message}
  BY <1>1, <1>4, <1>6 DEF Stays, Pending, Carries
<1>7. CASE wr_T1 = NoWrite /\ SetsLines(mmio)
  BY <1>1, <1>3, <1>5, <1>7 DEF SetsLines, Pending, Carries
<1>8. CASE wr_T1 = NoWrite /\ SetsCfg(mmio)
  BY <1>1, <1>3, <1>5, <1>8 DEF SetsCfg, Pending, Carries
<1>9. CASE wr_T1 = NoWrite /\ SetsCtl(mmio)
  <2>1. Pending' /\ wr_T1'.val = CtlOf(sw') /\ ~Pending
    BY <1>1, <1>2, <1>5, <1>9 DEF SetsCtl, Pending, Carries
  <2> QED BY <1>9, <2>1 DEF SetsCtl
<1> QED BY <1>1, <1>6, <1>7, <1>8, <1>9 DEF Move

LEMMA CtlFlowStep ==
  ASSUME CsrTypes, CtlFlow, NEW copies, NEW mmio, NEW u, NEW c0Hold, NEW c1Hold, NEW i, NEW a,
         StepOf(copies, mmio, u, c0Hold, c1Hold, i, a)
  PROVE  CtlFlow'
<1>1. csr'.CTL = CtlOf(sw)
  <2>1. CsrClk(FALSE, mmio)
    BY DEF StepOf, Clk
  <2>2. csr'.CTL = IF Pending THEN wr_T1.val ELSE csr.CTL
    BY <2>1, CsrStep
  <2> QED BY <2>2 DEF CtlFlow
<1>2. CASE sw' = sw /\ ~Pending'
  BY <1>1, <1>2 DEF CtlFlow
<1>3. CASE ~Pending' /\ sw \in {"reset", "lines"} /\ sw' \in {"lines", "config"}
  BY <1>1, <1>3 DEF CtlFlow, CtlOf
<1>4. CASE Pending' /\ (\/ sw = "off" /\ sw' = "reset"
                        \/ sw = "config" /\ sw' = "run"
                        \/ sw = "run" /\ sw' = "force"
                        \/ sw \in {"run", "force"} /\ sw' = "off")
  <2>1. wr_T1'.val = CtlOf(sw')
    BY <1>4, FlowMoves
  <2> QED BY <1>1, <1>4, <2>1 DEF CtlFlow, CtlOf
<1> QED BY <1>2, <1>3, <1>4, FlowMoves

(* The bits of CSR_CTL, by the step the software has taken.                *)
LEMMA CtlBitsOf ==
  ASSUME CsrTypes, CtlFlow
  PROVE  /\ "reset_n" \in csr.CTL <=> \/ sw \in {"lines", "config", "run", "force"}
                                      \/ sw = "reset" /\ ~Pending
                                      \/ sw = "off" /\ Pending
         /\ "go" \in csr.CTL <=> \/ sw = "run" /\ ~Pending
                                 \/ sw = "force"
                                 \/ sw = "off" /\ Pending
         /\ "force" \in csr.CTL => sw \in {"force", "off"} /\ (sw = "force" => ~Pending)
<1>1. CASE Pending
  BY <1>1 DEF CsrTypes, CtlFlow, CtlOf
<1>2. CASE ~Pending
  BY <1>2 DEF CsrTypes, CtlFlow, CtlOf
<1> QED BY <1>1, <1>2

(* The configuration the software chose reaches the registers.             *)
LEMMA ChoiceFlowStep ==
  ASSUME FlowInv, NEW copies, NEW mmio, NEW u, NEW c0Hold, NEW c1Hold, NEW i, NEW a,
         StepOf(copies, mmio, u, c0Hold, c1Hold, i, a)
  PROVE  ChoiceFlow'
<1>1. CsrTypes /\ ChoiceFlow /\ LockFlow
  BY DEF FlowInv
<1>2. CsrClk(FALSE, mmio) /\ cfg' = csr.CFG /\ re2xy_NumLines' = csr.LINES
  BY DEF StepOf, Clk, ReClk, ClkRegs
<1>3. csr'.LINES = swlines /\ csr'.CFG = swcfg
  BY <1>1, <1>2, CsrStep DEF ChoiceFlow, LockFlow
<1>4. wr_T1' = mmio /\ Move(mmio, u)
  BY Moves
<1>5. wr_T1 = NoWrite => cfg' = swcfg /\ re2xy_NumLines' = swlines
  BY <1>1, <1>2 DEF ChoiceFlow, Carries
<1>6. sw # "lines" => re2xy_NumLines' = swlines
  BY <1>1, <1>2 DEF ChoiceFlow
<1>7. sw # "config" => cfg' = swcfg
  BY <1>1, <1>2 DEF ChoiceFlow
<1>8. CASE Stays /\ mmio \in {NoWrite, Message}
  <2>1. ~Carries("LINES")' /\ ~Carries("CFG")'
    BY <1>4, <1>8 DEF Carries, Message, CsrWrite
  <2> QED BY <1>3, <1>6, <1>7, <1>8, <2>1 DEF ChoiceFlow, Stays
<1>9. CASE wr_T1 = NoWrite /\ SetsLines(mmio)
  <2>1. ~Carries("CFG")' /\ Carries("LINES")' /\ wr_T1'.val = swlines'
    BY <1>4, <1>9, NoWriteAssumption DEF SetsLines, Carries, CsrWrite
  <2> QED BY <1>3, <1>5, <1>9, <2>1 DEF ChoiceFlow, SetsLines
<1>10. CASE wr_T1 = NoWrite /\ SetsCfg(mmio)
  <2>1. ~Carries("LINES")' /\ Carries("CFG")' /\ wr_T1'.val = swcfg'
    BY <1>4, <1>10, NoWriteAssumption DEF SetsCfg, Carries, CsrWrite
  <2> QED BY <1>3, <1>5, <1>10, <2>1 DEF ChoiceFlow, SetsCfg
<1>11. CASE wr_T1 = NoWrite /\ SetsCtl(mmio)
  <2>1. ~Carries("LINES")' /\ ~Carries("CFG")'
    BY <1>4, <1>11 DEF SetsCtl, Carries, CsrWrite
  <2> QED BY <1>3, <1>5, <1>11, <2>1 DEF ChoiceFlow, SetsCtl
<1> QED BY <1>4, <1>8, <1>9, <1>10, <1>11 DEF Move

-----------------------------------------------------------------------------
(* A test runs while its software waits for it, out of reset.              *)
LEMMA RunStates ==
  ASSUME FlowInv
  PROVE  /\ re2xy_go => /\ sw \in {"run", "force"} /\ test_Reset_n
                        /\ cfg = swcfg /\ re2xy_NumLines = swlines
         /\ ~test_Reset_n => sw \in {"off", "reset"} /\ Still
         /\ test_Reset_n /\ ~re2xy_go => (Cleared /\ Still) \/ status_write
         /\ sw \in {"off", "reset", "lines", "config", "run", "force"}
         /\ swlines \in Nat
<1>1. /\ CsrTypes /\ CtlTypes /\ ResetFlow /\ StartFlow /\ ChoiceFlow
  BY DEF FlowInv
<1>2. sw \in {"off", "reset", "lines", "config", "run", "force"}
  BY <1>1 DEF CsrTypes
<1>3. re2xy_go => sw \in {"run", "force"}
  BY <1>1, <1>2 DEF StartFlow, Before, Still
<1>4. ~test_Reset_n => sw \in {"off", "reset"} /\ Still
  BY <1>1, <1>2 DEF ResetFlow, StartFlow, Before
<1>5. test_Reset_n /\ ~re2xy_go => (Cleared /\ Still) \/ status_write
  <2>1. SUFFICES ASSUME test_Reset_n, ~re2xy_go, ~status_write PROVE Cleared /\ Still
    OBVIOUS
  <2>2. CASE Before
    BY <1>1, <2>1, <2>2 DEF ResetFlow, StartFlow, Before
  <2>3. CASE ~Before
    BY <1>1, <1>2, <2>1, <2>3 DEF StartFlow, Before
  <2> QED BY <2>2, <2>3
<1>6. swlines \in Nat
  BY <1>1, ContentsAssumption DEF CsrTypes, AllLines
<1> QED BY <1>1, <1>2, <1>3, <1>4, <1>5, <1>6 DEF ChoiceFlow, ResetFlow

(* The messages that carry no request are told from those that do.         *)
LEMMA MessagesApart ==
  /\ NoItem \notin Messages /\ Fence \notin Requests /\ Dsm \notin Requests /\ Intr \notin Requests
  /\ Fence # Dsm /\ Fence # Intr /\ Dsm # Intr
<1>1. \A r \in Requests : DOMAIN r = {"sop", "len", "fence", "addr", "data"}
  BY DEF Requests
<1>2. DOMAIN Fence = {"msg"} /\ DOMAIN Dsm = {"msg"} /\ DOMAIN Intr = {"msg"}
  BY DEF Fence, Dsm, Intr
<1>3. Fence # Dsm /\ Fence # Intr /\ Dsm # Intr
  BY DEF Fence, Dsm, Intr
<1>4. {"msg"} # {"sop", "len", "fence", "addr", "data"}
  OBVIOUS
<1> QED BY <1>1, <1>2, <1>3, <1>4, NoItemAssumption DEF Messages, Requests

-----------------------------------------------------------------------------
(* What has been sent and not carried out, a clock later.                  *)
LEMMA PostedStep ==
  ASSUME PipeTypes, NEW copies, NEW mmio, NEW u, NEW c0Hold, NEW c1Hold, NEW i, NEW a,
         StepOf(copies, mmio, u, c0Hold, c1Hold, i, a)
  PROVE  /\ Sent \in Seq(Messages) /\ posted' \in Seq(Messages)
         /\ i \in Nat
         /\ Len(posted') = Len(Sent) - One(i # 0)
         /\ \A j \in 1 .. Len(posted') :
              posted'[j] = Sent[IF i # 0 /\ j >= i THEN j + 1 ELSE j]
         /\ i # 0 => /\ i \in 1 .. Len(Sent) /\ i \in 1 .. Len(posted) /\ posted[i] = Sent[i]
                     /\ \A j \in 1 .. i - 1 : ~IsFence(Sent[j])
                     /\ IsFence(Sent[i]) => i = 1
<1> USE DEF PipeTypes
<1>1. posted \in Seq(Messages) /\ (c1 # NoItem => c1 \in Messages)
  OBVIOUS
<1>2. Sent \in Seq(Messages)
  BY <1>1 DEF Sent
<1>3. /\ Len(Sent) = Len(posted) + One(c1 # NoItem)
      /\ \A j \in 1 .. Len(posted) : Sent[j] = posted[j]
      /\ c1 # NoItem => Sent[Len(posted) + 1] = c1
  BY <1>1 DEF Sent, One
<1>4. i \in {0} \cup Ready /\ Carry(i)
  BY DEF StepOf, Clk
<1>5. CASE i = 0
  <2>1. posted' = Sent
    BY <1>4, <1>5 DEF Carry, Sent
  <2> QED BY <1>2, <1>5, <2>1 DEF One
<1>6. CASE i # 0
  <2>1. /\ i \in 1 .. Len(posted) /\ (\A j \in 1 .. i - 1 : ~IsFence(posted[j]))
        /\ IsFence(posted[i]) => i = 1
    BY <1>4, <1>6 DEF Ready
  <2> DEFINE left == Without(posted, i)
  <2>2. /\ left \in Seq(Messages) /\ Len(left) = Len(posted) - 1
        /\ \A j \in 1 .. Len(posted) - 1 : left[j] = posted[IF j >= i THEN j + 1 ELSE j]
    <3>1. Len(posted) - 1 \in Nat
      BY <1>1, <2>1
    <3>2. \A j \in 1 .. Len(posted) - 1 : (IF j < i THEN posted[j] ELSE posted[j + 1]) \in Messages
      BY <1>1, <2>1
    <3>3. left \in [1 .. Len(posted) - 1 -> Messages]
      BY <3>2 DEF Without
    <3>4. left \in Seq(Messages) /\ Len(left) = Len(posted) - 1
      BY <3>1, <3>3
    <3> QED BY <2>1, <3>4 DEF Without
  <2>3. posted' = IF c1 = NoItem THEN left ELSE Append(left, c1)
    BY <1>4, <1>6 DEF Carry
  <2> HIDE DEF left
  <2>4. posted' \in Seq(Messages) /\ Len(posted') = Len(Sent) - 1
    BY <1>1, <1>3, <2>2, <2>3 DEF One
  <2>5. ASSUME NEW j \in 1 .. Len(posted')
        PROVE  posted'[j] = Sent[IF j >= i THEN j + 1 ELSE j]
    <3>1. CASE j <= Len(posted) - 1
      <4>1. posted'[j] = left[j]
        BY <1>1, <2>2, <2>3, <2>5, <3>1
      <4>2. (IF j >= i THEN j + 1 ELSE j) \in 1 .. Len(posted)
        BY <1>1, <2>1, <2>5, <3>1
      <4> QED BY <1>3, <2>2, <2>5, <3>1, <4>1, <4>2, SMTT(60)
    <3>2. CASE j > Len(posted) - 1
      <4>1. c1 # NoItem /\ j = Len(posted)
        BY <1>1, <1>3, <2>2, <2>3, <2>4, <2>5, <3>2 DEF One
      <4>2. posted'[j] = c1
        BY <1>1, <2>2, <2>3, <4>1
      <4> QED BY <1>3, <2>1, <4>1, <4>2
    <3> QED BY <1>1, <2>2, <2>5, <3>1, <3>2
  <2>6. i \in 1 .. Len(Sent) /\ posted[i] = Sent[i] /\ \A j \in 1 .. i - 1 : Sent[j] = posted[j]
    BY <1>1, <1>3, <2>1 DEF One
  <2>7. \A j \in 1 .. i - 1 : ~IsFence(Sent[j])
    BY <2>1, <2>6
  <2>8. IsFence(Sent[i]) => i = 1
    BY <2>1, <2>6
  <2>9. i \in Nat /\ i \in 1 .. Len(posted)
    BY <1>1, <2>1
  <2>10. \A j \in 1 .. Len(posted') : posted'[j] = Sent[IF i # 0 /\ j >= i THEN j + 1 ELSE j]
    BY <1>6, <2>5
  <2>11. Len(posted') = Len(Sent) - One(i # 0) /\ posted' \in Seq(Messages)
    BY <1>6, <2>4 DEF One
  <2>12. i \in 1 .. Len(Sent) /\ posted[i] = Sent[i]
    BY <2>6
  <2> HIDE DEF PipeTypes
  <2> QED BY <1>2, <2>7, <2>8, <2>9, <2>10, <2>11, <2>12
<1> QED BY <1>5, <1>6

LEMMA SentStep ==
  ASSUME PipeTypes, PipeTypes'
  PROVE  /\ Sent' \in Seq(Messages) /\ Len(posted') \in Nat
         /\ Len(Sent') = Len(posted') + One(c1' # NoItem)
         /\ \A j \in 1 .. Len(posted') : Sent'[j] = posted'[j]
         /\ c1' # NoItem => Sent'[Len(posted') + 1] = c1'
BY DEF PipeTypes, Sent, One

(* What channel C1 sends.                                                  *)
LEMMA C1Step ==
  ASSUME PipeTypes, FlowInv, NEW copies, NEW mmio, NEW u, NEW c0Hold, NEW c1Hold, NEW i, NEW a,
         StepOf(copies, mmio, u, c0Hold, c1Hold, i, a)
  PROVE  /\ ~re2xy_go => c1' \in {NoItem, Intr}
         /\ c1' = Dsm => sendsDsm /\ re2xy_go
         /\ \/ c1' \in {NoItem, Fence, Dsm, Intr}
            \/ re2xy_go /\ ~test_stop /\ ~sendsDsm /\ wr_T4 # NoItem /\ c1' = wr_T4
         /\ Running /\ ~sendsDsm => c1' = IF wr_T4 # NoItem THEN wr_T4
                                          ELSE IF sendsFence THEN Fence ELSE NoItem
<1>1. ClkC1
  BY DEF StepOf, Clk, ReClk
<1>2. wr_T4 # Dsm /\ NoItem # Dsm /\ Fence # Dsm /\ Intr # Dsm
  BY MessagesApart DEF PipeTypes, Stage, Messages
<1>3. ~re2xy_go => c1' \in {NoItem, Intr}
  BY <1>1 DEF ClkC1, sendsDsm, sendsData, sendsFence
<1>4. c1' = Dsm => sendsDsm /\ re2xy_go
  BY <1>1, <1>2 DEF ClkC1, sendsDsm
<1>5. \/ c1' \in {NoItem, Fence, Dsm, Intr}
      \/ re2xy_go /\ ~test_stop /\ ~sendsDsm /\ wr_T4 # NoItem /\ c1' = wr_T4
  BY <1>1 DEF ClkC1, sendsData
<1>6. Running => ~sendsIntr
  BY DEF Running, sendsIntr, FlowInv, DsmFlow
<1>7. Running /\ ~sendsDsm => c1' = IF wr_T4 # NoItem THEN wr_T4
                                    ELSE IF sendsFence THEN Fence ELSE NoItem
  BY <1>1, <1>6 DEF ClkC1, sendsData, Running
<1> QED BY <1>3, <1>4, <1>5, <1>7

-----------------------------------------------------------------------------
(***************************************************************************)
(* The software starts over when the status line is there: then the run    *)
(* has ended, nothing of it is on its way, and the notice has been taken.  *)
(***************************************************************************)
LEMMA FinishedRun ==
  ASSUME SafeInv, sw \in {"run", "force"}, RunOver
  PROVE  Still /\ status_write
<1>1. status_write /\ ~re2xy_go /\ ~RdHdr_valid_q
  BY DEF SafeInv, FlowInv, DsmFlow, RunOver
<1>2. wr_T1 # Message /\ ~csr_write /\ message = NoMessage
  <2>1. test_stop \/ RdFSM = "DONE"
    BY <1>1 DEF SafeInv, StopInv, Over
  <2> QED BY <2>1 DEF SafeInv, StopInv, NoticeInv
<1>3. Sent = <<>>
  BY DEF RunOver, Sent
<1> QED BY <1>1, <1>2, <1>3 DEF RunOver, Still

(* What the step does to the requestor's control registers.                *)
LEMMA ControlStep ==
  ASSUME FlowInv, NEW copies, NEW mmio, NEW u, NEW c0Hold, NEW c1Hold, NEW i, NEW a,
         StepOf(copies, mmio, u, c0Hold, c1Hold, i, a)
  PROVE  /\ test_Reset_n' = ("reset_n" \in csr.CTL) /\ test_go' = ("go" \in csr.CTL)
         /\ ClkControl(csr.CTL, s12ab_TestCmp, ErrorValid, FALSE)
         /\ WrData_dsm' = error
         /\ re2xy_go' = (test_Reset_n /\ ~status_write /\ (test_go \/ re2xy_go))
         /\ test_Reset_n /\ status_write => status_write'
         /\ RdHdr_valid_q' = RdHdr_valid(RdEn, c0Hold)
         /\ c0' = (re2xy_go /\ RdHdr_valid_q)
<1>1. /\ ClkRegs(csr.CTL, csr.CFG, csr.LINES)
      /\ ClkControl(csr.CTL, s12ab_TestCmp, ErrorValid, FALSE)
      /\ ClkPipe(RdEn, c0Hold, c1Hold, out)
  BY DEF StepOf, Clk, ReClk
<1>2. CtlTypes
  BY DEF FlowInv
<1>3. /\ re2xy_go' = (test_Reset_n /\ ~status_write /\ (test_go \/ re2xy_go))
      /\ test_Reset_n /\ status_write => status_write'
  BY <1>1, <1>2 DEF ClkControl, CtlTypes
<1> QED BY <1>1, <1>3 DEF ClkRegs, ClkPipe

LEMMA CtlTypesStep ==
  ASSUME FlowInv, NEW copies, NEW mmio, NEW u, NEW c0Hold, NEW c1Hold, NEW i, NEW a,
         StepOf(copies, mmio, u, c0Hold, c1Hold, i, a)
  PROVE  CtlTypes'
<1>1. CtlTypes /\ CsrTypes /\ EngineTypes /\ MemTypes /\ swlines \in Nat
  BY RunStates DEF FlowInv
<1>2. ReClk(csr, s12ab_TestCmp, ErrorValid, FALSE, RdEn, c0Hold, c1Hold, out) /\ Carry(i)
  BY DEF StepOf, Clk
<1>3. /\ test_Reset_n' \in BOOLEAN /\ test_go' \in BOOLEAN
      /\ cfg' \in AllCfgs /\ re2xy_NumLines' \in AllLines /\ WrData_dsm' \in BOOLEAN
  BY <1>1, <1>2 DEF ReClk, ClkRegs, CsrTypes, CtlTypes
<1>4. read_only_test' = FALSE
  <2>1. cfg.mode # "READ"
    BY <1>1, ModesAssumption DEF CtlTypes, AllCfgs
  <2> QED BY <1>1, <1>2, <2>1 DEF ReClk, ClkControl, CtlTypes
<1>5. /\ re2xy_go' \in BOOLEAN /\ test_cmplt' \in BOOLEAN
      /\ test_stop' \in BOOLEAN /\ dsm_status_wren' \in BOOLEAN /\ WrFence_sent' \in BOOLEAN
      /\ status_write' \in BOOLEAN /\ send_interrupt' \in BOOLEAN
      /\ interrupt_sent' \in BOOLEAN /\ error' \in BOOLEAN
  BY <1>2 DEF ReClk, ClkControl
<1>6. RdHdr_valid_q' \in BOOLEAN /\ c0' \in BOOLEAN /\ dsm' \in BOOLEAN
  BY <1>2 DEF ReClk, ClkPipe, RdHdr_valid, Carry
<1>7. told' \in BOOLEAN
  <2>1. Move(mmio, u)
    BY Moves
  <2>2. CASE CopyBack(mmio, u)
    BY <1>1, <2>2, Copies DEF CtlTypes, CopiesLine, GivesNotice, Arrives
  <2>3. CASE UNCHANGED noted
    BY <1>1, <2>3 DEF noted, CtlTypes
  <2> QED BY <2>1, <2>2, <2>3 DEF Move, SetsLines, SetsCfg, SetsCtl
<1> QED BY <1>3, <1>4, <1>5, <1>6, <1>7 DEF CtlTypes

LEMMA LockFlowStep ==
  ASSUME SafeInv, NEW copies, NEW mmio, NEW u, NEW c0Hold, NEW c1Hold, NEW i, NEW a,
         StepOf(copies, mmio, u, c0Hold, c1Hold, i, a)
  PROVE  LockFlow' /\ ResetFlow'
<1>1. CsrTypes /\ CtlFlow /\ LockFlow /\ ResetFlow
  BY DEF SafeInv, FlowInv
<1>2. re2cr_wrlock_n' = ("reset_n" \in csr.CTL /\ "go" \notin csr.CTL)
  BY <1>1, CsrStep DEF StepOf, Clk
<1>3. /\ test_Reset_n' = ("reset_n" \in csr.CTL) /\ test_go' = ("go" \in csr.CTL)
      /\ re2xy_go' => test_Reset_n /\ ~status_write /\ (test_go \/ re2xy_go)
      /\ test_Reset_n /\ status_write => status_write'
  BY ControlStep DEF SafeInv
<1>4. /\ "reset_n" \in csr.CTL <=> \/ sw \in {"lines", "config", "run", "force"}
                                   \/ sw = "reset" /\ ~Pending
                                   \/ sw = "off" /\ Pending
      /\ "go" \in csr.CTL <=> (sw = "run" /\ ~Pending) \/ sw = "force"
                                \/ (sw = "off" /\ Pending)
  BY <1>1, CtlBitsOf
<1>5. "go" \in csr'.CTL <=> \/ sw' = "run" /\ ~Pending'
                            \/ sw' = "force"
                            \/ sw' = "off" /\ Pending'
  <2>1. CsrTypes' /\ CtlFlow'
    BY <1>1, CsrTypesStep, CtlFlowStep
  <2>2. CASE Pending'
    BY <2>1, <2>2 DEF CsrTypes, CtlFlow, CtlOf
  <2>3. CASE ~Pending'
    BY <2>1, <2>3 DEF CsrTypes, CtlFlow, CtlOf
  <2> QED BY <2>2, <2>3
<1>6. sw \in {"run", "force"} /\ RunOver => status_write
  BY FinishedRun
<1>7. re2xy_go => sw \in {"run", "force"}
  BY RunStates DEF SafeInv
<1>8. \/ sw' = sw /\ ~Pending'
      \/ sw = "off" /\ sw' = "reset" /\ ~Pending /\ Pending'
      \/ sw = "reset" /\ sw' = "lines" /\ ~Pending /\ ~Pending'
      \/ sw = "lines" /\ sw' = "config" /\ ~Pending /\ ~Pending'
      \/ sw = "config" /\ sw' = "run" /\ ~Pending /\ Pending'
      \/ sw = "run" /\ sw' = "force" /\ ~Pending /\ Pending'
      \/ sw \in {"run", "force"} /\ sw' = "off" /\ ~Pending /\ Pending' /\ RunOver
  BY FlowMoves
<1>9. sw \in {"off", "reset", "lines", "config", "run", "force"}
  BY <1>1 DEF CsrTypes
<1> HIDE DEF Pending
<1>10. LockFlow'
  BY <1>1, <1>2, <1>3, <1>4, <1>5, <1>7, <1>8, <1>9 DEF LockFlow, ResetFlow
<1>11. ResetFlow'
  BY <1>1, <1>3, <1>4, <1>6, <1>8, <1>9 DEF ResetFlow
<1> QED BY <1>10, <1>11

-----------------------------------------------------------------------------
(* A clock of the reset clears the run's state.                            *)
LEMMA ClearStep ==
  ASSUME FlowInv, ~test_Reset_n,
         NEW copies, NEW mmio, NEW u, NEW c0Hold, NEW c1Hold, NEW i, NEW a,
         StepOf(copies, mmio, u, c0Hold, c1Hold, i, a)
  PROVE  Cleared'
<1>1. q' = <<>> /\ head' = NoItem /\ out' = <<NoItem, NoItem>>
  BY DEF StepOf, Clk, Queue, TxQ!Clear, TxQ!HeadOf
<1>2. WrHdr_valid_T2' = FALSE /\ wr_T3' = NoItem /\ wr_T4' = NoItem
  BY DEF StepOf, Clk, ReClk, ClkPipe
<1>3. /\ WrFSM' = "WAIT" /\ RdFSM' = "WAIT" /\ PollFSM' = "WAIT"
      /\ ~rd_go' /\ ~ErrorValid' /\ ~s12ab_TestCmp'
  BY DEF StepOf, Clk, Sw1Clk, WriteFsm
<1>4. /\ ~test_cmplt' /\ ~test_stop' /\ ~dsm_status_wren' /\ ~WrFence_sent'
      /\ ~status_write' /\ ~send_interrupt' /\ ~interrupt_sent' /\ ~error'
  BY ControlStep DEF ClkControl
<1> QED BY <1>1, <1>2, <1>3, <1>4 DEF Cleared, Empty

(* Nothing moves until a test starts.                                      *)
LEMMA StillStep ==
  ASSUME FlowInv, PipeTypes, PipeTypes', Still,
         NEW copies, NEW mmio, NEW u, NEW c0Hold, NEW c1Hold, NEW i, NEW a,
         StepOf(copies, mmio, u, c0Hold, c1Hold, i, a), ~flagSeen \/ sw' # sw
  PROVE  /\ ~RdHdr_valid_q' /\ ~c0' /\ reads' = {}
         /\ \A j \in 1 .. Len(Sent') : Sent'[j] = Intr
         /\ wr_T1' # Message /\ ~csr_write' /\ message' = NoMessage
<1>1. ~RdHdr_valid_q' /\ ~c0'
  BY ControlStep DEF RdHdr_valid, Still
<1>2. reads' = {}
  BY DEF StepOf, Clk, Reading, Still
<1>3. c1' \in {NoItem, Intr}
  BY C1Step DEF Still
<1>4. \A j \in 1 .. Len(Sent') : Sent'[j] = Intr
  <2>1. /\ i \in Nat /\ Sent \in Seq(Messages)
        /\ Len(posted') = Len(Sent) - One(i # 0)
        /\ i # 0 => i \in 1 .. Len(Sent)
        /\ \A j \in 1 .. Len(posted') :
             posted'[j] = Sent[IF i # 0 /\ j >= i THEN j + 1 ELSE j]
    BY PostedStep
  <2>2. \A j \in 1 .. Len(posted') : (IF i # 0 /\ j >= i THEN j + 1 ELSE j) \in 1 .. Len(Sent)
    BY <2>1 DEF One
  <2>3. \A j \in 1 .. Len(posted') : posted'[j] = Intr
    BY <2>1, <2>2 DEF Still
  <2> QED BY <1>3, <2>3, SentStep DEF One
<1>5. wr_T1' = mmio /\ Move(mmio, u) /\ MemTypes /\ swlines \in Nat
  BY Moves, RunStates DEF FlowInv
<1>6. Message.reg = "SWTEST_MSG" /\ Message # NoWrite
  BY NoWriteAssumption DEF Message, CsrWrite
<1>7. wr_T1' # Message /\ message' = NoMessage
  <2>1. CASE Stays /\ CopyBack(mmio, u)
    BY <1>5, <2>1, Copies DEF Stays, Still, CopiesLine, GivesNotice, Arrives
  <2>2. CASE UNCHANGED noted /\ mmio = NoWrite
    BY <1>5, <1>6, <2>2 DEF noted, Still
  <2>3. CASE SetsLines(mmio) \/ SetsCfg(mmio) \/ SetsCtl(mmio)
    BY <1>5, <1>6, <2>3 DEF SetsLines, SetsCfg, SetsCtl, CsrWrite, noted, Still
  <2> QED BY <1>5, <2>1, <2>2, <2>3 DEF Move
<1>8. ~csr_write'
  <2>1. csr_write' = (wr_T1 = Message)
    BY CsrStep DEF StepOf, Clk, FlowInv
  <2> QED BY <2>1 DEF Still
<1> QED BY <1>1, <1>2, <1>4, <1>7, <1>8

(* What the reset has cleared stays so until a test starts.                *)
LEMMA CalmStep ==
  ASSUME FlowInv, Cleared, Still, "force" \notin csr.CTL,
         NEW copies, NEW mmio, NEW u, NEW c0Hold, NEW c1Hold, NEW i, NEW a,
         StepOf(copies, mmio, u, c0Hold, c1Hold, i, a)
  PROVE  Cleared'
<1>1. CASE ~test_Reset_n
  BY <1>1, ClearStep
<1>2. CASE test_Reset_n
  <2> USE DEF Cleared, Empty, Still
  <2>1. q' = <<>> /\ head' = NoItem /\ out' = <<NoItem, NoItem>>
    <3>1. ~WrEn /\ ~WrFence
      BY DEF WrEn, WrFence
    <3> QED BY <1>2, <3>1 DEF StepOf, Clk, Queue, TxQ!Clock, TxQ!HeadOf
  <2>2. WrHdr_valid_T2' = FALSE /\ wr_T3' = NoItem /\ wr_T4' = NoItem
    BY DEF StepOf, Clk, ReClk, ClkPipe
  <2>3. u = NoMessage /\ cfg.method \in Methods
    BY ModesAssumption DEF StepOf, FlowInv, CtlTypes, AllCfgs
  <2> DEFINE WrSent == Len(q) < TxCap
             RdSent == RdHdr_valid(RdEn, c0Hold)
             rsp == Answer(a)
  <2>4. /\ WriteFsm(test_Reset_n, re2xy_go, re2xy_NumLines, WrSent)
        /\ Notice(cfg.method, RdSent, rsp, csr_write, u)
        /\ ReadFsm(cfg.method, re2xy_NumLines, RdSent) /\ Check
        /\ s12ab_TestCmp' = (WrFSM = "DONE" /\ RdFSM = "DONE")
    BY <1>2 DEF StepOf, Clk, Sw1Clk
  <2>5. WrFSM' = "WAIT" /\ RdFSM' = "WAIT" /\ ~ErrorValid' /\ ~s12ab_TestCmp'
    BY <1>2, <2>4 DEF WriteFsm, WrNext, ReadFsm, RdNext, Check, checking
  <2>6. PollFSM' = "WAIT" /\ ~rd_go'
    BY <2>3, <2>4, NoMessageAssumption DEF Notice, PollFsm, sawFlag
  <2>7. /\ ~test_cmplt' /\ ~test_stop' /\ ~dsm_status_wren' /\ ~WrFence_sent'
        /\ ~status_write' /\ ~send_interrupt' /\ ~interrupt_sent' /\ ~error'
    BY ControlStep DEF ClkControl, stopsHere, sendsFence, sendsDsm, sendsIntr
  <2> QED BY <2>1, <2>2, <2>5, <2>6, <2>7
<1> QED BY <1>1, <1>2

-----------------------------------------------------------------------------
LEMMA ItemFacts ==
  ASSUME swlines \in Nat, NEW k \in Nat
  PROVE  /\ Item(k) \in Requests /\ Item(k) \notin {NoItem, Fence, Dsm, Intr}
         /\ IsFence(Item(k)) <=> k = swlines
<1>1. Item(k) \in Requests
  BY DEF Item, Requests
<1>2. Item(k) \notin {NoItem, Fence, Dsm, Intr}
  BY <1>1, MessagesApart DEF Messages
<1> QED BY <1>1, <1>2 DEF IsFence, Item

(* Addresses of the reads on their way, and how many there are.            *)
LEMMA ReadFacts ==
  ASSUME MemTypes, EngineTypes, ReadInv, swlines \in Nat
  PROVE  /\ IsFiniteSet(reads) /\ Cardinality(reads) \in Nat
         /\ Reads => Asked \in 0 .. swlines
         /\ c0 => c0addr \in 0 .. swlines
<1>1. IsFiniteSet(reads) /\ Cardinality(reads) \in Nat
  BY FS_CardinalityType DEF MemTypes
<1>2. Reads => Asked \in 0 .. swlines
  BY DEF ReadInv, Reads, Asked
<1>3. CASE Reads
  <2>1. Num_RdRsp \in Nat /\ Asked \in Nat
    BY <1>2, <1>3 DEF EngineTypes
  <2>2. One(c0) \in {0, 1} /\ One(RdHdr_valid_q) \in {0, 1} /\ (c0 => One(c0) = 1)
    BY DEF One
  <2>3. Num_RdRsp + Cardinality(reads) + One(c0) + One(RdHdr_valid_q) = Asked
    BY <1>3 DEF ReadInv
  <2>4. c0 => c0addr = Asked - 1 - One(RdHdr_valid_q)
    BY <1>3 DEF ReadInv
  <2> QED BY <1>1, <1>2, <1>3, <2>1, <2>2, <2>3, <2>4
<1>4. CASE ~Reads
  BY <1>1, <1>4 DEF ReadInv, Reads, EngineTypes
<1> QED BY <1>1, <1>2, <1>3, <1>4

-----------------------------------------------------------------------------
LEMMA PipeTypesStep ==
  ASSUME FlowInv, PipeTypes, NEW copies, NEW mmio, NEW u, NEW c0Hold, NEW c1Hold, NEW i, NEW a,
         StepOf(copies, mmio, u, c0Hold, c1Hold, i, a)
  PROVE  PipeTypes'
<1>1. /\ Queue(c1Hold) /\ ClkPipe(RdEn, c0Hold, c1Hold, out) /\ c1Hold \in BOOLEAN
  BY DEF StepOf, Clk, ReClk
<1>2. Request \in Requests
  <2>1. WrFence \in BOOLEAN
    BY DEF WrFence
  <2>2. WrAddr \in Nat
    BY RunStates DEF FlowInv, EngineTypes
  <2> QED BY <2>1, <2>2 DEF Request, Requests
<1>3. TxQ!HeadOf(q) \in Stage
  BY DEF PipeTypes, TxQ!HeadOf, Stage
<1>4. /\ q' \in Seq(Requests) /\ Len(q') <= TxCap /\ head' = TxQ!HeadOf(q')
      /\ out' \in Stage \X Stage
  <2>1. CASE ~test_Reset_n
    BY <1>1, <2>1, SizesAssumption DEF Queue, TxQ!Clear, TxQ!HeadOf, Stage
  <2>2. CASE test_Reset_n
    <3> DEFINE pop == txFifo_RdAck(head # NoItem, c1Hold)
               rest == IF pop /\ q # <<>> THEN Tail(q) ELSE q
               push == (WrEn \/ WrFence) /\ Len(q) < TxCap
    <3>1. /\ q' = IF push THEN Append(rest, Request) ELSE rest
          /\ head' = TxQ!HeadOf(q')
          /\ out' = <<IF pop THEN TxQ!HeadOf(q) ELSE NoItem, out[1]>>
      BY <1>1, <2>2 DEF Queue, TxQ!Clock, TxQ!HeadOf
    <3>2. rest \in Seq(Requests) /\ Len(rest) <= Len(q)
      BY DEF PipeTypes
    <3>3. q' \in Seq(Requests) /\ Len(q') <= TxCap
      BY <1>2, <3>1, <3>2, SizesAssumption DEF PipeTypes
    <3>4. out' \in Stage \X Stage
      BY <1>3, <3>1 DEF PipeTypes, Stage
    <3> QED BY <3>1, <3>3, <3>4
  <2> QED BY <2>1, <2>2
<1>5. wr_T3' \in Stage /\ wr_T4' \in Stage
  BY <1>1 DEF ClkPipe, PipeTypes, Stage
<1>6. AlmFull_T1' \in BOOLEAN /\ WrHdr_valid_T2' \in BOOLEAN
  BY <1>1 DEF ClkPipe, FlowInv, CtlTypes
<1>7. c1' \in Messages \cup {NoItem}
  BY C1Step DEF PipeTypes, Stage, Messages
<1>8. posted' \in Seq(Messages)
  BY PostedStep
<1> QED BY <1>4, <1>5, <1>6, <1>7, <1>8 DEF PipeTypes

(* The engine, while the number of lines is what the software chose.       *)
LEMMA EngineTypesStep ==
  ASSUME SafeInv, NEW copies, NEW mmio, NEW u, NEW c0Hold, NEW c1Hold, NEW i, NEW a,
         StepOf(copies, mmio, u, c0Hold, c1Hold, i, a)
  PROVE  EngineTypes'
<1> DEFINE WrSent == Len(q) < TxCap
           RdSent == RdHdr_valid(RdEn, c0Hold)
           rsp == Answer(a)
           n == re2xy_NumLines
<1>1. /\ EngineTypes /\ CtlTypes /\ swlines \in Nat
      /\ re2xy_go => n = swlines
  BY RunStates DEF SafeInv, FlowInv
<1>2. /\ WriteFsm(test_Reset_n, re2xy_go, n, WrSent)
      /\ CountRsp(rsp)
      /\ IF test_Reset_n
           THEN /\ Notice(cfg.method, RdSent, rsp, csr_write, u)
                /\ ReadFsm(cfg.method, n, RdSent) /\ Check
                /\ s12ab_TestCmp' = (WrFSM = "DONE" /\ RdFSM = "DONE")
           ELSE /\ RdFSM' = "WAIT" /\ PollFSM' = "WAIT" /\ RdAddr' = 0
                /\ rd_go' = FALSE /\ ErrorValid' = FALSE /\ s12ab_TestCmp' = FALSE
  BY DEF StepOf, Clk, Sw1Clk
<1>3. /\ RdFSM' \in {"WAIT", "READ", "RESP", "DONE"}
      /\ PollFSM' \in {"WAIT", "READ", "RESP", "DONE"}
  BY <1>1, <1>2 DEF EngineTypes, ReadFsm, RdNext, Notice, PollFsm, AfterMiss
<1>4. rd_go' \in BOOLEAN
  BY <1>1, <1>2 DEF EngineTypes, Notice, sawFlag
<1>5. ErrorValid' \in BOOLEAN /\ s12ab_TestCmp' \in BOOLEAN
  BY <1>1, <1>2 DEF EngineTypes, Check
<1>6. Num_RdRsp' \in Nat
  BY <1>1, <1>2 DEF EngineTypes, CountRsp
<1>7. swlines' \in Nat
  <2>1. CsrTypes'
    BY CsrTypesStep DEF SafeInv, FlowInv
  <2> QED BY <2>1, ContentsAssumption DEF CsrTypes, AllLines
<1>8. /\ WrFSM' \in {"WAIT", "WRITE", "WRFENCE", "UPDTFLAG", "DONE"}
      /\ WrAddr' \in 0 .. swlines'
      /\ WrFSM' = "WRITE" => WrAddr' < swlines'
      /\ WrFSM' \in {"WRFENCE", "UPDTFLAG", "DONE"} => WrAddr' = swlines'
      /\ WrFSM' \in {"WRITE", "WRFENCE"} => swlines' > 0
      /\ WrFSM' = "UPDTFLAG" => wrDin' = TRUE
  <2>1. /\ WrFSM' = IF test_Reset_n THEN WrNext(re2xy_go, n, WrSent) ELSE "WAIT"
        /\ WrAddr' = CASE WrFSM = "WAIT" -> 0
                       [] WrFSM = "WRITE" /\ WrSent -> WrAddr + 1
                       [] OTHER -> WrAddr
        /\ wrDin' = CASE WrFSM = "WAIT" -> re2xy_go /\ n = 0
                      [] WrFSM = "WRFENCE" -> TRUE
                      [] OTHER -> wrDin
    BY <1>2 DEF WriteFsm
  <2>2. WrSent \in BOOLEAN /\ re2xy_go \in BOOLEAN
    BY <1>1 DEF CtlTypes
  <2>3. CASE swlines' # swlines
    <3>1. sw = "reset" /\ ~Pending
      BY <2>3, Moves DEF Move, Stays, SetsLines, SetsCfg, SetsCtl, Pending, Carries
    <3>2. WrFSM = "WAIT" /\ ~re2xy_go
      BY <3>1 DEF SafeInv, FlowInv, StartFlow, Cleared, Still, Before
    <3> QED BY <1>7, <2>1, <3>2 DEF WrNext
  <2>4. CASE swlines' = swlines
    <3> HIDE DEF WrSent, n
    <3>1. CASE WrFSM = "WAIT"
      BY <1>1, <2>1, <2>2, <2>4, <3>1 DEF WrNext
    <3>2. CASE WrFSM = "WRITE"
      <4>1. sw # "lines"
        BY <3>2 DEF SafeInv, FlowInv, StartFlow, Cleared
      <4>2. n = swlines
        BY <4>1 DEF SafeInv, FlowInv, ChoiceFlow, n
      <4> QED BY <1>1, <2>1, <2>2, <2>4, <3>2, <4>2 DEF WrNext, lastLine, EngineTypes
    <3>3. CASE WrFSM \in {"WRFENCE", "UPDTFLAG", "DONE"}
      BY <1>1, <2>1, <2>2, <2>4, <3>3 DEF WrNext, EngineTypes
    <3> QED BY <1>1, <3>1, <3>2, <3>3 DEF EngineTypes
  <2> QED BY <2>3, <2>4
<1> QED BY <1>3, <1>4, <1>5, <1>6, <1>8 DEF EngineTypes

(* Memory, and what the software has done with it.                         *)
LEMMA MemTypesStep ==
  ASSUME SafeInv, NEW copies, NEW mmio, NEW u, NEW c0Hold, NEW c1Hold, NEW i, NEW a,
         StepOf(copies, mmio, u, c0Hold, c1Hold, i, a)
  PROVE  MemTypes'
<1>1. /\ MemTypes /\ swlines \in Nat /\ PipeTypes /\ SentInv
      /\ sw = "reset" /\ ~Pending => Still /\ Cleared
  BY RunStates DEF SafeInv, FlowInv, StartFlow, Before
<1>2. Move(mmio, u) /\ wr_T1' = mmio
  BY Moves
<1>3. Carry(i) /\ Reading(a) /\ i \in {0} \cup Ready
  BY DEF StepOf, Clk
<1>4. CASE wr_T1 = NoWrite /\ SetsLines(mmio)
  <2>1. prepares /\ swlines' \in Nat
    BY <1>4, ContentsAssumption DEF SetsLines, prepares
  <2>2. dst' = Prepared(swlines') /\ src' = Prepared(swlines')
    BY <1>3, <1>4, <2>1 DEF Carry, SetsLines
  <2>3. reads' = {}
    BY <1>1, <1>3, <1>4 DEF Reading, Still, SetsLines, Pending, Carries
  <2>4. copied' = 0 /\ message' = NoMessage
    BY <1>4 DEF SetsLines
  <2> QED BY <2>1, <2>2, <2>3, <2>4, FS_EmptySet, ContentsAssumption DEF MemTypes, Prepared
<1>5. CASE swlines' = swlines /\ ~prepares
  <2>1. \A m \in 0 .. swlines : (c0 /\ c0addr = m) => m \in 0 .. swlines
    OBVIOUS
  <2>2. IsFiniteSet(reads') /\ reads' \subseteq 0 .. swlines
    <3>1. c0 => c0addr \in 0 .. swlines
      BY <1>1, ReadFacts DEF SafeInv, FlowInv
    <3>2. IsFiniteSet(reads \ {a})
      BY <1>1, FS_Subset DEF MemTypes
    <3>3. IsFiniteSet((reads \ {a}) \cup {c0addr}) /\ (reads \ {a}) \cup {} = reads \ {a}
      BY <3>2, FS_AddElement
    <3> QED BY <1>1, <1>3, <3>1, <3>2, <3>3 DEF Reading, MemTypes
  <2>3. DOMAIN dst' = 0 .. swlines /\ dst'[swlines] \in {Blank, Flag}
    <3> DEFINE w == IF i = 0 THEN Fence ELSE posted[i]
    <3>1. dst' = IF IsFence(w) \/ w \in {Dsm, Intr} THEN dst ELSE [dst EXCEPT ![w.addr] = w.data]
      BY <1>3, <1>5 DEF Carry
    <3>2. CASE IsFence(w) \/ w \in {Dsm, Intr}
      BY <1>1, <3>1, <3>2 DEF MemTypes
    <3>3. CASE ~(IsFence(w) \/ w \in {Dsm, Intr})
      <4>1. w # Fence /\ i # 0
        BY <3>3 DEF IsFence
      <4>2. i \in 1 .. Len(Sent) /\ w = Sent[i]
        BY <1>1, <4>1, PostedStep
      <4>3. PICK k \in First .. swlines + 1 : w = Item(k)
        BY <1>1, <3>3, <4>1, <4>2 DEF SentInv, Kept
      <4>4. k # swlines
        BY <1>1, <3>3, <4>3, ItemFacts DEF First
      <4>5. w.addr \in 0 .. swlines /\ (w.addr = swlines => w.data = Flag)
        BY <1>1, <4>3, <4>4 DEF Item, First
      <4> QED BY <1>1, <3>1, <3>3, <4>5 DEF MemTypes
    <3> QED BY <3>2, <3>3
  <2>4. /\ copied' \in 0 .. swlines /\ DOMAIN src' = 0 .. swlines
        /\ src'[swlines] \in {Blank, Flag} /\ (src'[swlines] = Flag => told')
        /\ message' \in {NoMessage, "message", "hint"}
    <3>1. CASE CopyBack(mmio, u)
      <4>1. CASE CopiesLine(mmio, u)
        BY <1>1, <4>1 DEF MemTypes, CopiesLine
      <4>2. CASE GivesNotice(mmio, u)
        BY <1>1, <4>2 DEF MemTypes, GivesNotice
      <4>3. CASE Arrives(mmio, u)
        BY <1>1, <4>3 DEF MemTypes, Arrives
      <4> QED BY <1>1, <3>1, <4>1, <4>2, <4>3, Copies
    <3>2. CASE UNCHANGED noted
      BY <1>1, <3>2 DEF noted, MemTypes
    <3> QED BY <1>2, <1>5, <3>1, <3>2 DEF Move, SetsLines, SetsCfg, SetsCtl, prepares
  <2> QED BY <1>5, <2>2, <2>3, <2>4 DEF MemTypes
<1> QED BY <1>2, <1>4, <1>5 DEF Move, Stays, SetsCfg, SetsCtl, prepares

-----------------------------------------------------------------------------
(* The flag is nowhere to be seen before the engine has started.           *)
LEMMA NotFlagged ==
  ASSUME SafeInv, Cleared, sw = "run"
  PROVE  ~flagSeen
BY DEF SafeInv, FlagInv, Flagged, Cleared, flagSeen

(* What memory carries out does not end the run unless it is its status.   *)
LEMMA DsmStep ==
  ASSUME PipeTypes, NEW copies, NEW mmio, NEW u, NEW c0Hold, NEW c1Hold, NEW i, NEW a,
         StepOf(copies, mmio, u, c0Hold, c1Hold, i, a)
  PROVE  /\ dsm' => ~prepares /\ (dsm \/ In(posted, Dsm))
         /\ In(posted', Dsm) => In(Sent, Dsm)
<1>1. /\ i \in Nat /\ Sent \in Seq(Messages)
      /\ Len(posted') = Len(Sent) - One(i # 0)
      /\ i # 0 => i \in 1 .. Len(Sent) /\ i \in 1 .. Len(posted)
      /\ \A j \in 1 .. Len(posted') :
           posted'[j] = Sent[IF i # 0 /\ j >= i THEN j + 1 ELSE j]
  BY PostedStep
<1>2. \A j \in 1 .. Len(posted') : (IF i # 0 /\ j >= i THEN j + 1 ELSE j) \in 1 .. Len(Sent)
  BY <1>1 DEF One
<1>3. In(posted', Dsm) => In(Sent, Dsm)
  BY <1>1, <1>2 DEF In
<1>4. dsm' = (~prepares /\ (dsm \/ (IF i = 0 THEN Fence ELSE posted[i]) = Dsm))
  BY DEF StepOf, Clk, Carry
<1>5. dsm' => ~prepares /\ (dsm \/ In(posted, Dsm))
  BY <1>1, <1>4, MessagesApart DEF In
<1> QED BY <1>3, <1>5

LEMMA SentDsm ==
  ASSUME PipeTypes, In(Sent, Dsm)
  PROVE  In(posted, Dsm) \/ c1 = Dsm
<1>1. PICK j \in 1 .. Len(Sent) : Sent[j] = Dsm
  BY DEF In
<1>2. posted \in Seq(Messages)
  BY DEF PipeTypes
<1>3. CASE c1 = NoItem
  BY <1>1, <1>3 DEF Sent, In
<1>4. CASE c1 # NoItem
  <2>1. Sent = Append(posted, c1) /\ c1 \in Messages
    BY <1>4 DEF Sent, PipeTypes
  <2>2. CASE j \in 1 .. Len(posted)
    BY <1>1, <1>2, <2>1, <2>2 DEF In
  <2>3. CASE j = Len(posted) + 1
    BY <1>1, <1>2, <2>1, <2>3
  <2> QED BY <1>1, <1>2, <2>1, <2>2, <2>3
<1> QED BY <1>3, <1>4

LEMMA DsmFlowStep ==
  ASSUME SafeInv, NEW copies, NEW mmio, NEW u, NEW c0Hold, NEW c1Hold, NEW i, NEW a,
         StepOf(copies, mmio, u, c0Hold, c1Hold, i, a)
  PROVE  DsmFlow'
<1>1. PipeTypes /\ FlowInv /\ CtlTypes /\ StartFlow /\ DsmFlow /\ ResetFlow
  BY DEF SafeInv, FlowInv
<1>2. /\ ClkControl(csr.CTL, s12ab_TestCmp, ErrorValid, FALSE)
      /\ re2xy_go' = (test_Reset_n /\ ~status_write /\ (test_go \/ re2xy_go))
      /\ test_Reset_n /\ status_write => status_write'
      /\ RdHdr_valid_q' = RdHdr_valid(RdEn, c0Hold)
  BY <1>1, ControlStep
<1>3. Still => c1 # Dsm /\ ~In(posted, Dsm) /\ ~In(Sent, Dsm)
  <2>1. SUFFICES ASSUME Still PROVE c1 # Dsm /\ ~In(posted, Dsm) /\ ~In(Sent, Dsm)
    OBVIOUS
  <2>2. /\ Sent \in Seq(Messages) /\ posted \in Seq(Messages)
        /\ \A j \in 1 .. Len(posted) : j \in 1 .. Len(Sent) /\ Sent[j] = posted[j]
        /\ c1 # NoItem => Len(posted) + 1 \in 1 .. Len(Sent) /\ Sent[Len(posted) + 1] = c1
    BY <1>1 DEF PipeTypes, Sent
  <2> QED BY <2>1, <2>2, MessagesApart DEF Still, In, Messages
<1>4. (dsm /\ sw \in {"run", "force"}) \/ In(posted, Dsm) \/ c1 = Dsm =>
        test_Reset_n /\ status_write
  <2>1. Before \/ sw \in {"run", "force"}
    BY <1>1, RunStates DEF Before
  <2>2. sw \in {"run", "force"} => test_Reset_n
    BY <1>1 DEF ResetFlow
  <2> QED BY <1>1, <1>3, <2>1, <2>2 DEF DsmFlow, StartFlow, Before
<1>5. (dsm' /\ sw' \in {"run", "force"}) \/ In(posted', Dsm) => test_Reset_n /\ status_write
  <2>1. CASE In(posted', Dsm)
    BY <1>1, <1>4, <2>1, DsmStep, SentDsm
  <2>2. CASE dsm' /\ sw' \in {"run", "force"}
    <3>1. dsm \/ In(posted, Dsm)
      BY <1>1, <2>2, DsmStep
    <3>2. sw \in {"config", "run", "force"}
      BY <1>1, <2>2, FlowMoves, RunStates
    <3> QED BY <1>1, <1>4, <3>1, <3>2 DEF StartFlow
  <2> QED BY <2>1, <2>2
<1>6. c1' = Dsm => status_write'
  <2>1. c1' = Dsm => sendsDsm /\ re2xy_go
    BY <1>1, C1Step
  <2>2. re2xy_go => test_Reset_n
    BY <1>1, RunStates
  <2> QED BY <1>2, <2>1, <2>2 DEF ClkControl
<1>7. send_interrupt' => status_write'
  BY <1>2 DEF ClkControl
<1>8. test_Reset_n /\ status_write => status_write' /\ ~re2xy_go' /\ ~RdHdr_valid_q'
  BY <1>2 DEF RdHdr_valid
<1>9. In(posted, Dsm)' <=> In(posted', Dsm)
  BY DEF In, Dsm
<1>10. c1 = Dsm => status_write
  BY <1>1 DEF DsmFlow
<1> QED BY <1>5, <1>6, <1>7, <1>8, <1>9 DEF DsmFlow, Dsm

LEMMA StartFlowStep ==
  ASSUME SafeInv, NEW copies, NEW mmio, NEW u, NEW c0Hold, NEW c1Hold, NEW i, NEW a,
         StepOf(copies, mmio, u, c0Hold, c1Hold, i, a)
  PROVE  StartFlow'
<1>1. /\ FlowInv /\ CsrTypes /\ CtlTypes /\ MemTypes /\ CtlFlow /\ LockFlow /\ ResetFlow
      /\ StartFlow /\ DsmFlow /\ PipeTypes /\ PipeTypes' /\ swlines \in Nat
  BY PipeTypesStep, RunStates DEF SafeInv, FlowInv
<1>2. /\ "reset_n" \in csr.CTL <=> \/ sw \in {"lines", "config", "run", "force"}
                                   \/ sw = "reset" /\ ~Pending
                                   \/ sw = "off" /\ Pending
      /\ "go" \in csr.CTL <=> (sw = "run" /\ ~Pending) \/ sw = "force"
                                \/ (sw = "off" /\ Pending)
      /\ "force" \in csr.CTL => sw \in {"force", "off"} /\ (sw = "force" => ~Pending)
  BY <1>1, CtlBitsOf
<1>3. /\ test_Reset_n' = ("reset_n" \in csr.CTL) /\ test_go' = ("go" \in csr.CTL)
      /\ re2xy_go' = (test_Reset_n /\ ~status_write /\ (test_go \/ re2xy_go))
      /\ test_Reset_n /\ status_write => status_write'
  BY <1>1, ControlStep
<1>4. sw \in {"run", "force"} /\ RunOver => Still /\ status_write
  BY FinishedRun
<1>5. \/ sw' = sw /\ ~Pending'
      \/ sw = "off" /\ sw' = "reset" /\ ~Pending /\ Pending'
      \/ sw = "reset" /\ sw' = "lines" /\ ~Pending /\ ~Pending'
      \/ sw = "lines" /\ sw' = "config" /\ ~Pending /\ ~Pending'
      \/ sw = "config" /\ sw' = "run" /\ ~Pending /\ Pending'
      \/ sw = "run" /\ sw' = "force" /\ ~Pending /\ Pending'
      \/ sw \in {"run", "force"} /\ sw' = "off" /\ ~Pending /\ Pending' /\ RunOver
  BY FlowMoves
<1>6. sw \in {"off", "reset", "lines", "config", "run", "force"}
  BY <1>1 DEF CsrTypes
<1>7. ASSUME Cleared, Still, ~flagSeen, sw \in {"lines", "config", "run", "force"}, ~dsm, ~told
      PROVE  ~dsm' /\ ~told'
  <2>1. ~In(posted, Dsm)
    <3>1. /\ posted \in Seq(Messages)
          /\ \A j \in 1 .. Len(posted) : j \in 1 .. Len(Sent) /\ Sent[j] = posted[j]
      BY <1>1 DEF PipeTypes, Sent
    <3> QED BY <1>7, <3>1, MessagesApart DEF Still, In
  <2>2. ~dsm'
    BY <1>1, <1>7, <2>1, DsmStep
  <2>3. Move(mmio, u)
    BY Moves
  <2>4. CASE CopyBack(mmio, u)
    BY <1>1, <1>7, <2>2, <2>4, Copies DEF Still, CopiesLine, GivesNotice, Arrives
  <2>5. CASE UNCHANGED noted
    BY <1>7, <2>2, <2>5 DEF noted
  <2> QED BY <1>7, <2>2, <2>3, <2>4, <2>5 DEF Move, SetsLines, SetsCfg, SetsCtl
<1> HIDE DEF Pending
<1>8. Before' => Still'
  <2>1. SUFFICES ASSUME Before' PROVE Still'
    OBVIOUS
  <2>2. Still
    BY <1>1, <1>4, <1>5, <1>6, <2>1 DEF Before, StartFlow
  <2>3. ~re2xy_go'
    <3>1. ~re2xy_go
      BY <2>2 DEF Still
    <3> QED BY <1>1, <1>3, <1>4, <1>5, <1>6, <2>1, <3>1 DEF Before, ResetFlow, LockFlow
  <2>4. ~flagSeen \/ sw' # sw
    BY <2>1 DEF flagSeen, Before
  <2>5. /\ ~RdHdr_valid_q' /\ ~c0' /\ reads' = {}
        /\ \A j \in 1 .. Len(Sent') : Sent'[j] = Intr
        /\ wr_T1' # Message /\ ~csr_write' /\ message' = NoMessage
    BY <1>1, <2>2, <2>4, StillStep
  <2> QED BY <2>3, <2>5 DEF Still, Intr, Message, CsrWrite
<1>9. sw' = "reset" /\ ~Pending' => Cleared'
  <2>1. SUFFICES ASSUME sw' = "reset", ~Pending' PROVE Cleared'
    OBVIOUS
  <2>2. sw = "reset"
    BY <1>5, <2>1
  <2>3. CASE Pending
    BY <1>1, <2>2, <2>3, ClearStep DEF ResetFlow
  <2>4. CASE ~Pending
    BY <1>1, <1>2, <2>2, <2>4, CalmStep DEF StartFlow, Before
  <2> QED BY <2>3, <2>4
<1>10. sw' \in {"lines", "config"} => Cleared' /\ ~dsm' /\ ~told'
  <2>1. SUFFICES ASSUME sw' \in {"lines", "config"} PROVE Cleared' /\ ~dsm' /\ ~told'
    OBVIOUS
  <2>2. sw \in {"reset", "lines", "config"} /\ (sw = "reset" => ~Pending /\ sw' = "lines")
    BY <1>5, <2>1
  <2>3. Cleared /\ Still /\ ~flagSeen
    BY <1>1, <2>2 DEF StartFlow, Before, flagSeen
  <2>4. Cleared'
    BY <1>1, <1>2, <2>2, <2>3, CalmStep
  <2>5. CASE sw = "reset"
    <3>1. Move(mmio, u) /\ sw' = "lines"
      BY <2>2, <2>5, Moves
    <3>2. ~told' /\ prepares
      BY <2>5, <3>1 DEF Move, Stays, SetsLines, SetsCfg, SetsCtl, prepares
    <3>3. ~dsm'
      BY <1>1, <3>2, DsmStep
    <3> QED BY <2>4, <3>2, <3>3
  <2>6. CASE sw \in {"lines", "config"}
    <3>1. ~dsm /\ ~told
      BY <1>1, <2>6 DEF StartFlow
    <3> QED BY <1>7, <2>3, <2>4, <2>6, <3>1
  <2> QED BY <2>2, <2>5, <2>6
<1>11. sw' \in {"run", "force"} /\ ~re2xy_go' /\ ~status_write' =>
         /\ Cleared' /\ Still' /\ ~dsm' /\ ~told'
         /\ sw' = "force" => test_go' /\ Pending'
  <2>1. SUFFICES ASSUME sw' \in {"run", "force"}, ~re2xy_go', ~status_write'
                 PROVE  /\ Cleared' /\ Still' /\ ~dsm' /\ ~told'
                        /\ sw' = "force" => test_go' /\ Pending'
    OBVIOUS
  <2>2. sw \in {"config", "run", "force"} /\ test_Reset_n
    BY <1>1, <1>5, <1>6, <2>1 DEF ResetFlow
  <2>3. ~status_write /\ ~test_go /\ ~re2xy_go
    BY <1>3, <2>1, <2>2
  <2>4. Cleared /\ Still /\ ~dsm /\ ~told /\ sw \in {"config", "run"}
    BY <1>1, <2>2, <2>3 DEF StartFlow, Before
  <2>5. ~flagSeen
    BY <2>4, NotFlagged DEF flagSeen
  <2>6. Cleared'
    BY <1>1, <1>2, <2>4, CalmStep
  <2>7. Still'
    <3>1. /\ ~RdHdr_valid_q' /\ ~c0' /\ reads' = {}
          /\ \A j \in 1 .. Len(Sent') : Sent'[j] = Intr
          /\ wr_T1' # Message /\ ~csr_write' /\ message' = NoMessage
      BY <1>1, <2>4, <2>5, StillStep
    <3> QED BY <2>1, <3>1 DEF Still, Intr, Message, CsrWrite
  <2>8. ~dsm' /\ ~told'
    BY <1>7, <2>4, <2>5
  <2>9. sw' = "force" => test_go' /\ Pending'
    BY <1>2, <1>3, <1>5, <2>4
  <2> QED BY <2>6, <2>7, <2>8, <2>9
<1> QED BY <1>8, <1>9, <1>10, <1>11 DEF StartFlow

LEMMA FlowInvStep ==
  ASSUME SafeInv, NEW copies, NEW mmio, NEW u, NEW c0Hold, NEW c1Hold, NEW i, NEW a,
         StepOf(copies, mmio, u, c0Hold, c1Hold, i, a)
  PROVE  FlowInv' /\ PipeTypes'
<1>1. FlowInv /\ CsrTypes /\ CtlFlow /\ PipeTypes
  BY DEF SafeInv, FlowInv
<1>2. CsrTypes' /\ CtlFlow' /\ CtlTypes'
  BY <1>1, CsrTypesStep, CtlFlowStep, CtlTypesStep
<1>3. EngineTypes' /\ MemTypes' /\ PipeTypes'
  BY <1>1, EngineTypesStep, MemTypesStep, PipeTypesStep
<1>4. LockFlow' /\ ResetFlow'
  BY LockFlowStep
<1>5. StartFlow' /\ DsmFlow' /\ ChoiceFlow'
  BY <1>1, StartFlowStep, DsmFlowStep, ChoiceFlowStep
<1> QED BY <1>2, <1>3, <1>4, <1>5 DEF FlowInv

-----------------------------------------------------------------------------
(***************************************************************************)
(* The way of a request: the queue, its two outputs and two stages.        *)
(***************************************************************************)
LEMMA QueueStep ==
  ASSUME FlowInv, PipeTypes, re2xy_go, NEW c1Hold \in BOOLEAN, Queue(c1Hold)
  PROVE  LET pop  == ~c1Hold /\ q # <<>>
             push == (WrEn \/ WrFence) /\ Len(q) < TxCap
             rest == IF pop THEN Tail(q) ELSE q
         IN  /\ q' = IF push THEN Append(rest, Request) ELSE rest
             /\ out' = <<IF pop THEN Head(q) ELSE NoItem, out[1]>>
             /\ pop => Head(q) # NoItem
             /\ Len(q') = Len(q) - One(pop) + One(push)
<1> DEFINE pop == ~c1Hold /\ q # <<>>
           push == (WrEn \/ WrFence) /\ Len(q) < TxCap
           rest == IF pop THEN Tail(q) ELSE q
<1>1. test_Reset_n
  BY RunStates
<1>2. q # <<>> => Head(q) # NoItem
  BY MessagesApart DEF PipeTypes, Messages
<1>3. head # NoItem <=> q # <<>>
  BY <1>2 DEF PipeTypes, TxQ!HeadOf
<1>4. txFifo_RdAck(head # NoItem, c1Hold) <=> pop
  BY <1>3 DEF txFifo_RdAck
<1>5. /\ q' = IF push THEN Append(rest, Request) ELSE rest
      /\ out' = <<IF pop THEN Head(q) ELSE NoItem, out[1]>>
  BY <1>1, <1>4 DEF Queue, TxQ!Clock, TxQ!HeadOf
<1>6. rest \in Seq(Requests) /\ Len(rest) = Len(q) - One(pop)
  BY DEF PipeTypes, One
<1>7. Len(q') = Len(q) - One(pop) + One(push)
  <2>1. CASE push
    <3>1. q' = Append(rest, Request) /\ One(push) = 1 /\ One(pop) \in Nat
      BY <1>5, <2>1 DEF One
    <3>2. Request \in [sop : {TRUE}, len : {0}, fence : BOOLEAN, addr : {WrAddr}, data : {WrAddr, Flag}]
      BY DEF Request, WrFence
    <3> HIDE DEF pop, push, rest
    <3>3. Len(q') = Len(rest) + 1
      BY <1>6, <3>1
    <3> QED BY <1>6, <3>1, <3>3 DEF PipeTypes
  <2>2. CASE ~push
    <3>1. One(push) = 0
      BY <2>2 DEF One
    <3>2. One(pop) \in Nat
      BY DEF One
    <3> HIDE DEF pop, push, rest
    <3> QED BY <1>5, <1>6, <2>2, <3>1, <3>2 DEF PipeTypes
  <2> QED BY <2>1, <2>2
<1> QED BY <1>2, <1>5, <1>7

(* The engine makes its requests in their order.                           *)
LEMMA PlaceStep ==
  ASSUME FlowInv, re2xy_go, swlines' = swlines,
         NEW copies, NEW mmio, NEW u, NEW c0Hold, NEW c1Hold, NEW i, NEW a,
         StepOf(copies, mmio, u, c0Hold, c1Hold, i, a)
  PROVE  LET push == (WrEn \/ WrFence) /\ Len(q) < TxCap
         IN  /\ Place \in First .. swlines + 2 /\ First \in Nat
             /\ Place' = Place + One(push)
             /\ push => Request = Item(Place)
<1>1. /\ EngineTypes /\ swlines \in Nat /\ test_Reset_n /\ re2xy_NumLines = swlines
  BY RunStates DEF FlowInv
<1> DEFINE WrSent == Len(q) < TxCap
<1>2. /\ WrFSM' = WrNext(re2xy_go, re2xy_NumLines, WrSent)
      /\ WrAddr' = CASE WrFSM = "WAIT" -> 0
                     [] WrFSM = "WRITE" /\ WrSent -> WrAddr + 1
                     [] OTHER -> WrAddr
  BY <1>1 DEF StepOf, Clk, Sw1Clk, WriteFsm
<1> HIDE DEF WrSent
<1>3. CASE WrFSM = "WAIT"
  BY <1>1, <1>2, <1>3 DEF WrNext, Place, First, One, WrEn, WrFence
<1>4. CASE WrFSM = "WRITE"
  <2>1. WrAddr \in 0 .. swlines - 1 /\ swlines > 0
    BY <1>1, <1>4 DEF EngineTypes
  <2>2. Request = Item(WrAddr)
    <3>1. WrFence = FALSE /\ WrFSM # "UPDTFLAG" /\ WrAddr # swlines /\ WrAddr < swlines
      BY <1>1, <1>4, <2>1 DEF WrFence
    <3>2. Request = [sop |-> TRUE, len |-> 0, fence |-> FALSE, addr |-> WrAddr, data |-> WrAddr]
      BY <3>1 DEF Request
    <3>3. (WrAddr = swlines) = FALSE /\ WrAddr <= swlines
      BY <1>1, <2>1
    <3> QED BY <3>1, <3>2, <3>3 DEF Item
  <2>3. Place' = Place + One(WrSent)
    BY <1>1, <1>2, <1>4, <2>1 DEF WrNext, lastLine, Place, One
  <2> QED BY <1>1, <1>4, <2>1, <2>2, <2>3 DEF Place, First, WrEn, WrFence, WrSent, One
<1>5. CASE WrFSM = "WRFENCE"
  <2>1. Request = Item(swlines)
    BY <1>1, <1>5 DEF Request, Item, WrFence, EngineTypes
  <2> QED BY <1>1, <1>2, <1>5, <2>1 DEF WrNext, Place, First, One, WrEn, WrFence, WrSent, EngineTypes
<1>6. CASE WrFSM = "UPDTFLAG"
  <2>1. Request = Item(swlines + 1)
    <3>1. WrFence = FALSE /\ WrAddr = swlines /\ wrDin
      BY <1>1, <1>6 DEF WrFence, EngineTypes
    <3>2. Request = [sop |-> TRUE, len |-> 0, fence |-> FALSE, addr |-> swlines, data |-> Flag]
      BY <1>6, <3>1 DEF Request
    <3>3. (swlines + 1 = swlines) = FALSE /\ ~(swlines + 1 <= swlines) /\ ~(swlines + 1 < swlines)
      BY <1>1
    <3> QED BY <3>1, <3>2, <3>3 DEF Item
  <2> QED BY <1>1, <1>2, <1>6, <2>1 DEF WrNext, Place, First, One, WrEn, WrFence, WrSent
<1>7. CASE WrFSM = "DONE"
  BY <1>1, <1>2, <1>7 DEF WrNext, Place, First, One, WrEn, WrFence
<1> QED BY <1>1, <1>3, <1>4, <1>5, <1>6, <1>7 DEF EngineTypes

(* Each stage takes over the place of the one before it.                   *)
LEMMA ChainStep ==
  ASSUME FlowInv, PipeTypes, Running, ChainInv, swlines' = swlines,
         NEW copies, NEW mmio, NEW u, NEW c0Hold, NEW c1Hold, NEW i, NEW a,
         StepOf(copies, mmio, u, c0Hold, c1Hold, i, a)
  PROVE  /\ ChainInv'
         /\ atT4' = atT4 + One(wr_T4 # NoItem)
         /\ atT4 \in First .. swlines + 2 /\ First \in Nat
<1> DEFINE pop == ~c1Hold /\ q # <<>>
           push == (WrEn \/ WrFence) /\ Len(q) < TxCap
           rest == IF pop THEN Tail(q) ELSE q
<1>1. re2xy_go /\ c1Hold \in BOOLEAN /\ Queue(c1Hold) /\ swlines \in Nat /\ test_Reset_n
  BY RunStates DEF Running, StepOf, Clk
<1>2. /\ q' = IF push THEN Append(rest, Request) ELSE rest
      /\ out' = <<IF pop THEN Head(q) ELSE NoItem, out[1]>>
      /\ pop => Head(q) # NoItem
      /\ Len(q') = Len(q) - One(pop) + One(push)
  BY <1>1, QueueStep
<1>3. /\ Place \in First .. swlines + 2 /\ First \in Nat
      /\ Place' = Place + One(push)
      /\ push => Request = Item(Place)
  BY <1>1, PlaceStep
<1>4. /\ WrHdr_valid_T2' = (out[1] # NoItem)
      /\ wr_T3' = out[2] /\ wr_T4' = wr_T3
  BY <1>1 DEF StepOf, Clk, ReClk, ClkPipe, ChainInv
<1>5. /\ out'[1] # NoItem <=> pop
      /\ out'[2] = out[1]
      /\ pop => out'[1] = Head(q)
  BY <1>2
<1>6. /\ One(pop) \in {0, 1} /\ One(push) \in {0, 1} /\ One(out[1] # NoItem) \in {0, 1}
      /\ One(out[2] # NoItem) \in {0, 1} /\ One(wr_T3 # NoItem) \in {0, 1}
      /\ One(wr_T4 # NoItem) \in {0, 1}
      /\ (pop => One(pop) = 1) /\ (~pop => One(pop) = 0) /\ (push => One(push) = 1)
      /\ (~push => One(push) = 0)
  BY DEF One
<1>7. Len(q) \in Nat /\ q \in Seq(Requests)
  BY DEF PipeTypes
<1>8. /\ atQ \in Int /\ atO1 \in Int /\ atO2 \in Int /\ atT3 \in Int /\ atT4 \in Int
  BY <1>3, <1>6, <1>7 DEF atQ, atO1, atO2, atT3, atT4
<1>9. atQ' = atQ + One(pop)
  <2>1. atQ' = Place' - Len(q')
    BY DEF atQ
  <2> HIDE DEF pop, push
  <2> QED BY <1>2, <1>3, <1>6, <1>7, <2>1 DEF atQ
<1>10. atO1' = atQ
  <2>1. atO1' = atQ' - One(out'[1] # NoItem)
    BY DEF atO1, One
  <2>2. One(out'[1] # NoItem) = One(pop)
    BY <1>5 DEF One
  <2> HIDE DEF pop
  <2> QED BY <1>6, <1>8, <1>9, <2>1, <2>2
<1>11. atO2' = atO1
  BY <1>5, <1>10 DEF atO1, atO2, One
<1>12. atT3' = atO2
  BY <1>4, <1>11 DEF atO2, atT3, One
<1>13. atT4' = atT3
  BY <1>4, <1>12 DEF atT3, atT4, One
<1>14. atT4' = atT4 + One(wr_T4 # NoItem)
  BY <1>6, <1>8, <1>13 DEF atT4
<1>15. First' = First /\ \A k : Item(k)' = Item(k)
  BY DEF First, Item
<1>16. \A j \in 1 .. Len(q') : q'[j] = Item(atQ + One(pop) + j - 1)
  <2>1. /\ rest \in Seq(Requests) /\ Len(rest) = Len(q) - One(pop)
        /\ \A j \in 1 .. Len(rest) : rest[j] = q[j + One(pop)]
    BY <1>7 DEF One
  <2>2. \A j \in 1 .. Len(q) : q[j] = Item(atQ + j - 1)
    BY DEF ChainInv
  <2> HIDE DEF pop, rest, push
  <2>3. \A j \in 1 .. Len(rest) : rest[j] = Item(atQ + One(pop) + j - 1)
    <3> SUFFICES ASSUME NEW j \in 1 .. Len(rest)
                 PROVE  rest[j] = Item(atQ + One(pop) + j - 1)
      OBVIOUS
    <3>1. j + One(pop) \in 1 .. Len(q) /\ rest[j] = q[j + One(pop)]
      BY <1>6, <1>7, <2>1
    <3>2. atQ + (j + One(pop)) - 1 = atQ + One(pop) + j - 1
      BY <1>6, <1>7, <1>8, <2>1
    <3> QED BY <2>2, <3>1, <3>2
  <2>4. CASE push
    <3>1. q' = Append(rest, Request) /\ Request = Item(Place) /\ Len(q') = Len(rest) + 1
      BY <1>2, <1>3, <2>1, <2>4
    <3>2. atQ + One(pop) + Len(q') - 1 = Place
      <4>1. One(push) = 1
        BY <2>4 DEF One
      <4>2. Len(q') = Len(q) - One(pop) + One(push) /\ One(pop) \in Int
        BY <1>2, <1>6
      <4>3. Place \in Int
        BY <1>1, <1>3
      <4> QED BY <1>7, <4>1, <4>2, <4>3 DEF atQ
    <3> QED BY <2>1, <2>3, <3>1, <3>2
  <2>5. CASE ~push
    BY <1>2, <2>3, <2>5
  <2> QED BY <2>4, <2>5
<1>17. pop => Head(q) = Item(atQ)
  <2>1. pop => 1 \in 1 .. Len(q) /\ Head(q) = q[1]
    BY <1>7
  <2>2. atQ + 1 - 1 = atQ
    BY <1>8
  <2> QED BY <2>1, <2>2 DEF ChainInv
<1>19. (\A j \in 1 .. Len(q) : q[j] = Item(atQ + j - 1))'
  BY <1>9, <1>16 DEF Item
<1>20. /\ Carried(out'[1], atO1') /\ Carried(out'[2], atO2')
       /\ Carried(wr_T3', atT3') /\ Carried(wr_T4', atT4')
  BY <1>4, <1>5, <1>10, <1>11, <1>12, <1>13, <1>17 DEF Carried, ChainInv
<1>21. /\ Carried(out[1], atO1)' /\ Carried(out[2], atO2)'
       /\ Carried(wr_T3, atT3)' /\ Carried(wr_T4, atT4)'
  BY <1>20 DEF Carried, Item
<1>22. (WrHdr_valid_T2 <=> out[2] # NoItem)'
  BY <1>4, <1>5
<1>23. atT4' >= First' /\ atT4 \in First .. swlines + 2
  <2>1. atT4 >= First /\ atT4 <= Place
    BY <1>1, <1>3, <1>6, <1>7 DEF ChainInv, atT4, atT3, atO2, atO1, atQ
  <2> QED BY <1>1, <1>3, <1>6, <1>8, <1>14, <1>15, <2>1
<1> QED BY <1>3, <1>14, <1>19, <1>21, <1>22, <1>23 DEF ChainInv

(* Lines are chosen, and memory prepared, out of reset only.               *)
LEMMA Preparing ==
  ASSUME NEW copies, NEW mmio, NEW u, NEW c0Hold, NEW c1Hold, NEW i, NEW a,
         StepOf(copies, mmio, u, c0Hold, c1Hold, i, a)
  PROVE  /\ ~prepares => swlines' = swlines
         /\ ~prepares /\ ~CopyBack(mmio, u) =>
              UNCHANGED noted /\ mmio # Message /\ u = NoMessage
         /\ prepares => /\ sw = "reset" /\ sw' = "lines" /\ wr_T1 = NoWrite /\ u = NoMessage
                        /\ mmio # Message /\ told' = FALSE /\ message' = NoMessage
         /\ swcfg' = swcfg \/ (sw = "lines" /\ wr_T1 = NoWrite)
<1>1. Move(mmio, u)
  BY Moves
<1>2. Message.reg = "SWTEST_MSG" /\ Message # NoWrite
  BY NoWriteAssumption DEF Message, CsrWrite
<1>3. CASE Stays /\ CopyBack(mmio, u)
  <2>1. ~prepares
    BY <1>3 DEF Stays, prepares
  <2> QED BY <1>3, <2>1 DEF Stays
<1>6. CASE Stays /\ UNCHANGED noted /\ mmio = NoWrite /\ u = NoMessage
  <2>1. ~prepares
    BY <1>6 DEF Stays, prepares
  <2> QED BY <1>2, <1>6, <2>1 DEF Stays
<1>4. CASE wr_T1 = NoWrite /\ SetsLines(mmio) /\ u = NoMessage
  BY <1>2, <1>4 DEF SetsLines, prepares, CsrWrite
<1>5. CASE wr_T1 = NoWrite /\ u = NoMessage /\ (SetsCfg(mmio) \/ SetsCtl(mmio))
  BY <1>2, <1>5 DEF SetsCfg, SetsCtl, prepares, CsrWrite
<1> QED BY <1>1, <1>3, <1>4, <1>5, <1>6 DEF Move

(* What stays as the reset has left it, in a step that does not start.     *)
LEMMA StartStep ==
  ASSUME SafeInv, ~Running, NEW copies, NEW mmio, NEW u, NEW c0Hold, NEW c1Hold, NEW i, NEW a,
         StepOf(copies, mmio, u, c0Hold, c1Hold, i, a),
         re2xy_go', ~test_stop'
  PROVE  Cleared /\ Still /\ Cleared' /\ ~prepares
<1>1. FlowInv /\ CtlTypes /\ CsrTypes /\ CtlFlow /\ ResetFlow /\ StartFlow /\ LockFlow
  BY DEF SafeInv, FlowInv
<1>2. /\ test_Reset_n /\ ~status_write /\ (test_go \/ re2xy_go)
      /\ ClkControl(csr.CTL, s12ab_TestCmp, ErrorValid, FALSE)
  BY <1>1, ControlStep DEF CtlTypes
<1>3. ~test_stop
  BY <1>1, <1>2 DEF ClkControl, CtlTypes
<1>4. ~re2xy_go
  BY <1>2, <1>3 DEF Running
<1>5. Cleared /\ Still
  BY <1>1, <1>2, <1>4, RunStates
<1>6. "force" \notin csr.CTL
  BY <1>1, <1>2, <1>4, CtlBitsOf DEF ResetFlow, StartFlow
<1>7. Cleared'
  BY <1>1, <1>5, <1>6, CalmStep
<1>8. ~prepares
  BY <1>1, <1>2, <1>4 DEF prepares, LockFlow
<1> QED BY <1>5, <1>7, <1>8

LEMMA ChainInvStep ==
  ASSUME SafeInv, NEW copies, NEW mmio, NEW u, NEW c0Hold, NEW c1Hold, NEW i, NEW a,
         StepOf(copies, mmio, u, c0Hold, c1Hold, i, a)
  PROVE  Running' => /\ ChainInv' /\ swlines' = swlines /\ ~prepares
                     /\ atT4' = IF Running THEN atT4 + One(wr_T4 # NoItem) ELSE First
<1>1. FlowInv /\ PipeTypes /\ (Running => ChainInv) /\ swlines \in Nat
  BY RunStates DEF SafeInv
<1>2. CASE Running
  <2>1. ~prepares
    BY <1>1, <1>2, RunStates DEF Running, prepares
  <2>2. swlines' = swlines
    BY <2>1, Preparing
  <2> QED BY <1>1, <1>2, <2>1, <2>2, ChainStep
<1>3. ASSUME ~Running, Running'
      PROVE  /\ ChainInv' /\ swlines' = swlines /\ ~prepares
             /\ atT4' = First
  <2>1. Cleared' /\ ~prepares
    BY <1>3, StartStep DEF Running
  <2>2. swlines' = swlines
    BY <2>1, Preparing
  <2>3. /\ q' = <<>> /\ out' = <<NoItem, NoItem>> /\ wr_T3' = NoItem /\ wr_T4' = NoItem
        /\ ~WrHdr_valid_T2' /\ WrFSM' = "WAIT"
    BY <2>1 DEF Cleared, Empty
  <2>4. First' = First /\ First \in Nat /\ Place' = First
    BY <2>2, <2>3 DEF First, Place
  <2>5. Len(q') = 0
    BY <2>3
  <2>6. atT4' = First
    BY <2>3, <2>4, <2>5 DEF atT4, atT3, atO2, atO1, atQ, One
  <2> QED BY <2>1, <2>2, <2>3, <2>4, <2>5, <2>6 DEF ChainInv, Carried
<1> QED BY <1>2, <1>3

-----------------------------------------------------------------------------
(***************************************************************************)
(* What is sent.  While something waits in the last stage the run goes on, *)
(* and nobody has been told of the flag.                                   *)
(***************************************************************************)
LEMMA StillGoing ==
  ASSUME SafeInv, wr_T4 # NoItem, ~test_stop
  PROVE  ~Flagged /\ ~told /\ ~Over /\ RdFSM = "WAIT" /\ (re2xy_go => Running)
<1>1. ~Flagged
  BY DEF SafeInv, FlagInv
<1>2. ~told
  BY <1>1 DEF SafeInv, StopInv, Flagged
<1>3. RdFSM = "WAIT"
  BY <1>2 DEF SafeInv, NoticeInv
<1>4. ~Over
  BY <1>3 DEF SafeInv, StopInv
<1> QED BY <1>1, <1>2, <1>3, <1>4 DEF Running, Over

(* What C1 sends anew: no request of the engine's, or the one whose turn   *)
(* it is.                                                                  *)
LEMMA NewRequest ==
  ASSUME SafeInv, NEW copies, NEW mmio, NEW u, NEW c0Hold, NEW c1Hold, NEW i, NEW a,
         StepOf(copies, mmio, u, c0Hold, c1Hold, i, a),
         c1' \notin {NoItem, Fence, Dsm, Intr}
  PROVE  /\ Running /\ wr_T4 # NoItem /\ ~Flagged /\ ~prepares
         /\ c1' = Item(atT4) /\ atT4 \in First .. swlines + 1 /\ First \in Nat
<1>1. FlowInv /\ PipeTypes /\ swlines \in Nat
  BY RunStates DEF SafeInv
<1>2. re2xy_go /\ ~test_stop /\ wr_T4 # NoItem /\ c1' = wr_T4
  BY <1>1, C1Step
<1>3. Running /\ ~Flagged
  BY <1>2, StillGoing
<1>4. ChainInv
  BY <1>3 DEF SafeInv
<1>5. ~prepares
  BY <1>1, <1>2, RunStates DEF prepares
<1>6. atT4 \in First .. swlines + 2 /\ First \in Nat
  BY <1>1, <1>3, <1>4, <1>5, ChainStep, Preparing
<1>7. atT4 < swlines + 2
  <2>1. Place \in First .. swlines + 2
    BY <1>1, <1>2, <1>5, PlaceStep, Preparing
  <2>2. atT4 <= Place - 1
    BY <1>1, <1>2, <1>6, <2>1 DEF atT4, atT3, atO2, atO1, atQ, One, PipeTypes
  <2> QED BY <1>1, <1>6, <2>1, <2>2
<1>8. c1' = Item(atT4)
  BY <1>2, <1>4 DEF ChainInv, Carried
<1> QED BY <1>1, <1>2, <1>3, <1>5, <1>6, <1>7, <1>8

-----------------------------------------------------------------------------
(* What memory does not carry out stays, in its order.                     *)
LEMMA Survives ==
  ASSUME PipeTypes, NEW copies, NEW mmio, NEW u, NEW c0Hold, NEW c1Hold, NEW i, NEW a,
         StepOf(copies, mmio, u, c0Hold, c1Hold, i, a)
  PROVE  /\ \A f \in 1 .. Len(Sent) : f # i =>
              \E g \in 1 .. Len(posted') :
                g = (IF i # 0 /\ f > i THEN f - 1 ELSE f) /\ posted'[g] = Sent[f]
         /\ \A j \in 1 .. Len(posted') :
              \E f \in 1 .. Len(Sent) : /\ f # i /\ posted'[j] = Sent[f]
                                        /\ f = (IF i # 0 /\ j >= i THEN j + 1 ELSE j)
<1>1. /\ i \in Nat /\ Len(Sent) \in Nat /\ Len(posted') \in Nat
      /\ Len(posted') = Len(Sent) - One(i # 0)
      /\ i # 0 => i \in 1 .. Len(Sent)
      /\ \A j \in 1 .. Len(posted') :
           posted'[j] = Sent[IF i # 0 /\ j >= i THEN j + 1 ELSE j]
  BY PostedStep
<1>2. ASSUME NEW f \in 1 .. Len(Sent), f # i
      PROVE  \E g \in 1 .. Len(posted') :
               g = (IF i # 0 /\ f > i THEN f - 1 ELSE f) /\ posted'[g] = Sent[f]
  <2> DEFINE g == IF i # 0 /\ f > i THEN f - 1 ELSE f
  <2>1. g \in 1 .. Len(posted') /\ (IF i # 0 /\ g >= i THEN g + 1 ELSE g) = f
    BY <1>1, <1>2 DEF One
  <2>2. posted'[g] = Sent[f]
    BY <1>1, <2>1
  <2> QED BY <2>1, <2>2
<1>3. ASSUME NEW j \in 1 .. Len(posted')
      PROVE  \E f \in 1 .. Len(Sent) : /\ f # i /\ posted'[j] = Sent[f]
                                       /\ f = (IF i # 0 /\ j >= i THEN j + 1 ELSE j)
  BY <1>1 DEF One
<1> QED BY <1>2, <1>3

(* The write that memory carries out, and what that changes.               *)
LEMMA CarriedWrite ==
  ASSUME SafeInv, ~prepares, NEW copies, NEW mmio, NEW u, NEW c0Hold, NEW c1Hold, NEW i, NEW a,
         StepOf(copies, mmio, u, c0Hold, c1Hold, i, a)
  PROVE  \/ dst' = dst /\ \A k \in Nat : k # swlines /\ In(Sent, Item(k)) => In(posted', Item(k))
         \/ \E k \in First .. swlines + 1 :
              /\ k # swlines /\ i \in 1 .. Len(Sent) /\ Sent[i] = Item(k)
              /\ dst' = [dst EXCEPT ![IF k < swlines THEN k ELSE swlines] =
                           IF k < swlines THEN k ELSE Flag]
              /\ \A j \in 1 .. i - 1 : ~IsFence(Sent[j])
<1>1. FlowInv /\ PipeTypes /\ swlines \in Nat /\ Kept(Sent)
  BY RunStates DEF SafeInv, SentInv
<1>2. First \in 0 .. 1
  BY DEF First
<1> DEFINE w == IF i = 0 THEN Fence ELSE posted[i]
<1>3. dst' = IF IsFence(w) \/ w \in {Dsm, Intr} THEN dst ELSE [dst EXCEPT ![w.addr] = w.data]
  BY DEF StepOf, Clk, Carry
<1>4. /\ i \in Nat
      /\ i # 0 => /\ i \in 1 .. Len(Sent) /\ w = Sent[i]
                  /\ \A j \in 1 .. i - 1 : ~IsFence(Sent[j])
  BY <1>1, PostedStep
<1>5. CASE IsFence(w) \/ w \in {Dsm, Intr}
  <2>1. dst' = dst
    BY <1>3, <1>5
  <2>2. ASSUME NEW k \in Nat, k # swlines, In(Sent, Item(k))
        PROVE  In(posted', Item(k))
    <3>1. PICK f \in 1 .. Len(Sent) : Sent[f] = Item(k)
      BY <2>2 DEF In
    <3>2. ~IsFence(Item(k)) /\ Item(k) \notin {Dsm, Intr}
      BY <1>1, <2>2, ItemFacts
    <3>3. f # i
      BY <1>4, <1>5, <3>1, <3>2
    <3>4. \E g \in 1 .. Len(posted') : posted'[g] = Sent[f]
      BY <1>1, <3>3, Survives
    <3> QED BY <3>1, <3>4 DEF In
  <2> QED BY <2>1, <2>2
<1>6. CASE ~(IsFence(w) \/ w \in {Dsm, Intr})
  <2>1. w # Fence /\ i # 0
    BY <1>6 DEF IsFence
  <2>2. PICK k \in First .. swlines + 1 : Sent[i] = Item(k)
    BY <1>1, <1>4, <1>6, <2>1 DEF Kept
  <2>3. k # swlines /\ k \in Nat
    BY <1>1, <1>2, <1>4, <1>6, <2>1, <2>2, ItemFacts
  <2>4. /\ w.addr = IF k < swlines THEN k ELSE swlines
        /\ w.data = IF k < swlines THEN k ELSE Flag
    BY <1>1, <1>4, <2>1, <2>2, <2>3 DEF Item
  <2> HIDE DEF w
  <2> QED BY <1>3, <1>4, <1>6, <2>1, <2>2, <2>3, <2>4
<1> QED BY <1>5, <1>6

LEMMA CarryStep ==
  ASSUME SafeInv, ~prepares, NEW copies, NEW mmio, NEW u, NEW c0Hold, NEW c1Hold, NEW i, NEW a,
         StepOf(copies, mmio, u, c0Hold, c1Hold, i, a)
  PROVE  /\ Kept(posted') /\ FencedOff(posted')
         /\ \A m : In(posted', m) => In(Sent, m)
         /\ \A b \in Lines(swlines) :
              Delivered(Sent, b) => dst'[b] = b \/ In(posted', Item(b))
         /\ Covered(Sent) => Covered(posted')
         /\ dst'[swlines] = Flag => Flagged /\ \A b \in Lines(swlines) : dst'[b] = b
         /\ dst[swlines] = Flag => dst'[swlines] = Flag
<1>1. FlowInv /\ PipeTypes /\ swlines \in Nat /\ SentInv /\ DOMAIN dst = 0 .. swlines
  BY RunStates DEF SafeInv, FlowInv, MemTypes
<1>2. /\ i \in Nat /\ Len(Sent) \in Nat /\ Len(posted') \in Nat
      /\ i # 0 => /\ i \in 1 .. Len(Sent)
                  /\ \A j \in 1 .. i - 1 : ~IsFence(Sent[j])
                  /\ IsFence(Sent[i]) => i = 1
  <2>1. Sent \in Seq(Messages) /\ posted' \in Seq(Messages)
    BY <1>1, PostedStep
  <2>2. /\ i \in Nat
        /\ i # 0 => /\ i \in 1 .. Len(Sent)
                    /\ \A j \in 1 .. i - 1 : ~IsFence(Sent[j])
                    /\ IsFence(Sent[i]) => i = 1
    BY <1>1, PostedStep
  <2> QED BY <2>1, <2>2
<1>3. \A j \in 1 .. Len(posted') :
        \E f \in 1 .. Len(Sent) : /\ f # i /\ posted'[j] = Sent[f]
                                  /\ f = (IF i # 0 /\ j >= i THEN j + 1 ELSE j)
  BY <1>1, Survives
<1>4. \A f \in 1 .. Len(Sent) : f # i =>
        \E g \in 1 .. Len(posted') :
          g = (IF i # 0 /\ f > i THEN f - 1 ELSE f) /\ posted'[g] = Sent[f]
  BY <1>1, Survives
<1>5. Kept(posted')
  BY <1>1, <1>3 DEF SentInv, Kept
<1>6. \A m : In(posted', m) => In(Sent, m)
  BY <1>3 DEF In
<1>7. FencedOff(posted')
  <2> SUFFICES ASSUME NEW j \in 1 .. Len(posted'), NEW l \in 1 .. Len(posted'),
                      Line(posted'[j]), posted'[l] = TheFlag
               PROVE  \E f \in j + 1 .. l - 1 : IsFence(posted'[f])
    BY DEF FencedOff
  <2>1. PICK fj \in 1 .. Len(Sent) : /\ fj # i /\ posted'[j] = Sent[fj]
                                     /\ fj = (IF i # 0 /\ j >= i THEN j + 1 ELSE j)
    BY <1>3
  <2>2. PICK fl \in 1 .. Len(Sent) : /\ fl # i /\ posted'[l] = Sent[fl]
                                     /\ fl = (IF i # 0 /\ l >= i THEN l + 1 ELSE l)
    BY <1>3
  <2>3. PICK f \in fj + 1 .. fl - 1 : IsFence(Sent[f])
    BY <1>1, <2>1, <2>2 DEF SentInv, FencedOff
  <2>4. f \in 1 .. Len(Sent) /\ f # i
    BY <1>2, <2>1, <2>2, <2>3
  <2>5. PICK g \in 1 .. Len(posted') :
          g = (IF i # 0 /\ f > i THEN f - 1 ELSE f) /\ posted'[g] = Sent[f]
    BY <1>4, <2>4
  <2>6. g \in j + 1 .. l - 1
    BY <1>2, <2>1, <2>2, <2>3, <2>4, <2>5
  <2> QED BY <2>3, <2>5, <2>6
<1>8. ASSUME Covered(Sent) PROVE Covered(posted')
  <2> SUFFICES ASSUME NEW j \in 1 .. Len(posted'), Line(posted'[j])
               PROVE  \E f \in j + 1 .. Len(posted') : IsFence(posted'[f])
    BY DEF Covered
  <2>1. PICK fj \in 1 .. Len(Sent) : /\ fj # i /\ posted'[j] = Sent[fj]
                                     /\ fj = (IF i # 0 /\ j >= i THEN j + 1 ELSE j)
    BY <1>3
  <2>2. PICK f \in fj + 1 .. Len(Sent) : IsFence(Sent[f])
    BY <1>8, <2>1 DEF Covered
  <2>3. f \in 1 .. Len(Sent) /\ f # i
    BY <1>2, <2>1, <2>2
  <2>4. PICK g \in 1 .. Len(posted') :
          g = (IF i # 0 /\ f > i THEN f - 1 ELSE f) /\ posted'[g] = Sent[f]
    BY <1>4, <2>3
  <2>5. g \in j + 1 .. Len(posted')
    BY <1>2, <2>1, <2>2, <2>3, <2>4
  <2> QED BY <2>2, <2>4, <2>5
<1>9. \/ dst' = dst /\ \A k \in Nat : k # swlines /\ In(Sent, Item(k)) => In(posted', Item(k))
      \/ \E k \in First .. swlines + 1 :
           /\ k # swlines /\ i \in 1 .. Len(Sent) /\ Sent[i] = Item(k)
           /\ dst' = [dst EXCEPT ![IF k < swlines THEN k ELSE swlines] =
                        IF k < swlines THEN k ELSE Flag]
           /\ \A j \in 1 .. i - 1 : ~IsFence(Sent[j])
  BY CarriedWrite
<1>10. \A b \in Lines(swlines) : b \in Nat /\ b # swlines /\ b < swlines /\ b \in 0 .. swlines
  BY <1>1 DEF Lines
<1>11. \A b \in Lines(swlines) : Delivered(Sent, b) => dst'[b] = b \/ In(posted', Item(b))
  <2>1. CASE dst' = dst /\ \A k \in Nat : k # swlines /\ In(Sent, Item(k)) => In(posted', Item(k))
    BY <1>10, <2>1 DEF Delivered
  <2>2. ASSUME NEW k \in First .. swlines + 1, k # swlines, i \in 1 .. Len(Sent), Sent[i] = Item(k),
               dst' = [dst EXCEPT ![IF k < swlines THEN k ELSE swlines] =
                         IF k < swlines THEN k ELSE Flag],
               NEW b \in Lines(swlines), Delivered(Sent, b)
        PROVE  dst'[b] = b \/ In(posted', Item(b))
    <3>1. CASE dst[b] = b \/ k = b
      BY <1>1, <1>10, <2>2, <3>1 DEF First
    <3>2. CASE dst[b] # b /\ k # b
      <4>1. PICK f \in 1 .. Len(Sent) : Sent[f] = Item(b)
        BY <2>2, <3>2 DEF Delivered, In
      <4>2. Item(b) # Item(k)
        <5>1. Item(b).data = b /\ Item(k).data = IF k < swlines THEN k ELSE Flag
          BY <1>1, <1>10, <2>2 DEF Item, First
        <5>2. b # Flag
          BY <1>1, <1>10, ContentsAssumption DEF FlowInv, CsrTypes, AllLines, Lines
        <5> QED BY <3>2, <5>1, <5>2
      <4>3. f # i
        BY <2>2, <4>1, <4>2
      <4> QED BY <1>4, <4>1, <4>3 DEF In
    <3> QED BY <3>1, <3>2
  <2> QED BY <1>9, <2>1, <2>2
<1>12. ASSUME dst'[swlines] = Flag
       PROVE  Flagged /\ \A b \in Lines(swlines) : dst'[b] = b
  <2>1. CASE dst' = dst
    BY <1>1, <1>12, <2>1 DEF SentInv, DataBeforeFlag, Flagged
  <2>2. ASSUME NEW k \in First .. swlines + 1, k # swlines, i \in 1 .. Len(Sent), Sent[i] = Item(k),
               dst' = [dst EXCEPT ![IF k < swlines THEN k ELSE swlines] =
                         IF k < swlines THEN k ELSE Flag],
               \A j \in 1 .. i - 1 : ~IsFence(Sent[j])
        PROVE  Flagged /\ \A b \in Lines(swlines) : dst'[b] = b
    <3>1. CASE k < swlines
      <4>1. dst[swlines] = Flag
        BY <1>1, <1>12, <2>2, <3>1 DEF First
      <4>2. \A b \in Lines(swlines) : dst[b] = b
        BY <1>1, <4>1 DEF SentInv, DataBeforeFlag
      <4> QED BY <1>1, <1>10, <2>2, <3>1, <4>1, <4>2 DEF First, Flagged
    <3>2. CASE ~(k < swlines)
      <4>1. k = swlines + 1
        BY <1>1, <2>2, <3>2 DEF First
      <4>2. Sent[i] = TheFlag /\ In(Sent, TheFlag)
        BY <2>2, <4>1 DEF TheFlag, In
      <4>3. ASSUME NEW b \in Lines(swlines) PROVE dst'[b] = b
        <5>1. Delivered(Sent, b)
          BY <1>1, <4>2 DEF SentInv
        <5>2. ~In(Sent, Item(b))
          <6>1. SUFFICES ASSUME NEW f \in 1 .. Len(Sent), Sent[f] = Item(b) PROVE FALSE
            BY DEF In
          <6>2. PICK g \in f + 1 .. i - 1 : IsFence(Sent[g])
            BY <1>1, <2>2, <4>2, <4>3, <6>1 DEF SentInv, FencedOff, Line
          <6>3. g \in 1 .. i - 1
            BY <1>2, <2>2, <6>1, <6>2
          <6> QED BY <2>2, <6>2, <6>3
        <5>3. dst[b] = b
          BY <5>1, <5>2 DEF Delivered
        <5> QED BY <1>1, <1>10, <2>2, <3>2, <5>3
      <4> QED BY <4>2, <4>3 DEF Flagged
    <3> QED BY <3>1, <3>2
  <2> QED BY <1>9, <2>1, <2>2
<1>13. dst[swlines] = Flag => dst'[swlines] = Flag
  BY <1>1, <1>9 DEF First
<1> QED BY <1>5, <1>6, <1>7, <1>8, <1>11, <1>12, <1>13

LEMMA ItemsApart ==
  ASSUME FlowInv, NEW j \in First .. swlines + 1, NEW k \in First .. swlines + 1, Item(j) = Item(k)
  PROVE  j = k
<1>1. swlines \in Nat /\ CsrTypes
  BY RunStates DEF FlowInv
<1>2. CASE swlines = 0
  BY <1>2 DEF First
<1>3. CASE swlines > 0
  <2>1. Flag \notin 0 .. swlines
    BY <1>1, <1>3, ContentsAssumption DEF CsrTypes, AllLines
  <2>2. \A l : Item(l).data = IF l <= swlines THEN l ELSE Flag
    BY DEF Item
  <2> QED BY <1>1, <1>3, <2>1, <2>2 DEF First
<1> QED BY <1>1, <1>2, <1>3

(* What C1 sends is posted behind the rest.                                *)
LEMMA AppendStep ==
  ASSUME SafeInv, ~prepares, PipeTypes',
         NEW copies, NEW mmio, NEW u, NEW c0Hold, NEW c1Hold, NEW i, NEW a,
         StepOf(copies, mmio, u, c0Hold, c1Hold, i, a)
  PROVE  /\ Kept(Sent') /\ FencedOff(Sent')
         /\ In(Sent', TheFlag) => \/ In(Sent, TheFlag)
                                  \/ Running /\ wr_T4 # NoItem /\ atT4 = swlines + 1
         /\ \A b \in Lines(swlines) : Delivered(Sent, b) => dst'[b] = b \/ In(Sent', Item(b))
         /\ Running' /\ Running /\ wr_T4 # NoItem => In(Sent', Item(atT4))
         /\ Running' /\ Running /\ wr_T4 # NoItem /\ atT4 = swlines => Covered(Sent')
         /\ Running' /\ Running /\ wr_T4 = NoItem /\ Covered(Sent) => Covered(Sent')
<1>1. FlowInv /\ PipeTypes /\ swlines \in Nat /\ SentInv /\ First \in 0 .. 1
  BY RunStates DEF SafeInv, First
<1>2. /\ Kept(posted') /\ FencedOff(posted')
      /\ \A m : In(posted', m) => In(Sent, m)
      /\ \A b \in Lines(swlines) : Delivered(Sent, b) => dst'[b] = b \/ In(posted', Item(b))
      /\ Covered(Sent) => Covered(posted')
  BY CarryStep
<1>3. /\ Len(posted') \in Nat
      /\ Len(Sent') = Len(posted') + One(c1' # NoItem)
      /\ \A j \in 1 .. Len(posted') : Sent'[j] = posted'[j]
      /\ c1' # NoItem => Sent'[Len(posted') + 1] = c1'
  BY <1>1, SentStep
<1> DEFINE L == Len(posted')
<1>4. /\ c1' = NoItem => Len(Sent') = L
      /\ c1' # NoItem => Len(Sent') = L + 1
  BY <1>3 DEF One
<1>5. \A m : In(posted', m) => In(Sent', m)
  BY <1>3, <1>4 DEF In
<1>6. \A m : In(Sent', m) => In(posted', m) \/ (c1' # NoItem /\ c1' = m)
  <2>1. SUFFICES ASSUME NEW m, NEW j \in 1 .. Len(Sent'), Sent'[j] = m
                 PROVE  In(posted', m) \/ (c1' # NoItem /\ c1' = m)
    BY DEF In
  <2>2. CASE j \in 1 .. L
    BY <1>3, <2>1, <2>2 DEF In
  <2>3. CASE j \notin 1 .. L
    BY <1>3, <1>4, <2>1, <2>3
  <2> QED BY <2>2, <2>3
<1>7. \A b \in Lines(swlines) : Delivered(Sent, b) => dst'[b] = b \/ In(Sent', Item(b))
  BY <1>2, <1>5
<1>8. NoItem # Fence /\ NoItem # Dsm /\ NoItem # Intr
  BY MessagesApart DEF Messages
<1>9. \A k \in Nat : Item(k) \notin {NoItem, Fence, Dsm, Intr}
  BY <1>1, ItemFacts
<1>10. \A b \in Lines(swlines) : b \in Nat /\ b \in First .. swlines + 1 /\ b < swlines
  BY <1>1 DEF Lines, First
<1>11. Running /\ wr_T4 # NoItem /\ c1' \in {NoItem, Fence, Dsm, Intr} => ~Running'
  <2>1. SUFFICES ASSUME Running, wr_T4 # NoItem, c1' \in {NoItem, Fence, Dsm, Intr}
                 PROVE  ~Running'
    OBVIOUS
  <2>2. wr_T4 \notin {NoItem, Fence, Dsm, Intr}
    BY <1>1, <2>1, MessagesApart DEF PipeTypes, Stage
  <2>3. sendsDsm
    BY <1>1, <2>1, <2>2, C1Step
  <2>4. status_write'
    BY <1>1, <2>1, <2>3, ControlStep, RunStates DEF ClkControl, Running
  <2> QED BY <2>4 DEF Running
<1>12. CASE c1' \in {NoItem, Fence, Dsm, Intr}
  <2>1. ~Line(c1') /\ c1' # TheFlag
    BY <1>1, <1>9, <1>10, <1>12 DEF Line, TheFlag
  <2>2. \A j \in 1 .. Len(Sent') : j \in 1 .. L \/ (j = L + 1 /\ Sent'[j] = c1' /\ c1' # NoItem)
    BY <1>3, <1>4
  <2>3. Kept(Sent')
    <3> SUFFICES ASSUME NEW j \in 1 .. Len(Sent')
                 PROVE  \/ Sent'[j] \in {Fence, Dsm, Intr}
                        \/ \E k \in First .. swlines + 1 : Sent'[j] = Item(k)
      BY DEF Kept
    <3> QED BY <1>2, <1>3, <1>12, <2>2 DEF Kept
  <2>4. FencedOff(Sent')
    <3> SUFFICES ASSUME NEW j \in 1 .. Len(Sent'), NEW l \in 1 .. Len(Sent'),
                        Line(Sent'[j]), Sent'[l] = TheFlag
                 PROVE  \E f \in j + 1 .. l - 1 : IsFence(Sent'[f])
      BY DEF FencedOff
    <3>1. j \in 1 .. L /\ l \in 1 .. L /\ Line(posted'[j]) /\ posted'[l] = TheFlag
      BY <1>3, <2>1, <2>2
    <3>2. PICK f \in j + 1 .. l - 1 : IsFence(posted'[f])
      BY <1>2, <3>1 DEF FencedOff
    <3>3. f \in 1 .. L
      BY <1>3, <3>1, <3>2
    <3> QED BY <1>3, <3>2, <3>3
  <2>5. In(Sent', TheFlag) => In(Sent, TheFlag)
    BY <1>2, <1>6, <2>1
  <2>6. Covered(Sent) => Covered(Sent')
    <3> SUFFICES ASSUME Covered(Sent), NEW j \in 1 .. Len(Sent'), Line(Sent'[j])
                 PROVE  \E f \in j + 1 .. Len(Sent') : IsFence(Sent'[f])
      BY DEF Covered
    <3>1. j \in 1 .. L /\ Line(posted'[j])
      BY <1>3, <2>1, <2>2
    <3>2. PICK f \in j + 1 .. L : IsFence(posted'[f])
      BY <1>2, <3>1 DEF Covered
    <3>3. f \in 1 .. L /\ f \in j + 1 .. Len(Sent')
      BY <1>3, <1>4, <3>1, <3>2
    <3> QED BY <1>3, <3>2, <3>3
  <2> QED BY <1>7, <1>11, <1>12, <2>3, <2>4, <2>5, <2>6
<1>13. CASE c1' \notin {NoItem, Fence, Dsm, Intr}
  <2>1. /\ Running /\ wr_T4 # NoItem /\ ~Flagged
        /\ c1' = Item(atT4) /\ atT4 \in First .. swlines + 1
    BY <1>13, NewRequest
  <2>2. PICK k : k = atT4
    OBVIOUS
  <2>3. k \in First .. swlines + 1 /\ k \in Nat /\ c1' = Item(k) /\ c1' # NoItem
    BY <1>1, <1>13, <2>1, <2>2
  <2>4. /\ Len(Sent') = L + 1 /\ Sent'[L + 1] = Item(k)
        /\ \A j \in 1 .. Len(Sent') : j \in 1 .. L \/ j = L + 1
    BY <1>3, <1>4, <2>3
  <2>5. Kept(Sent')
    <3> SUFFICES ASSUME NEW j \in 1 .. Len(Sent')
                 PROVE  \/ Sent'[j] \in {Fence, Dsm, Intr}
                        \/ \E l \in First .. swlines + 1 : Sent'[j] = Item(l)
      BY DEF Kept
    <3> QED BY <1>2, <1>3, <2>3, <2>4 DEF Kept
  <2>6. ~In(posted', TheFlag)
    BY <1>2, <2>1 DEF Flagged
  <2>7. swlines + 1 \in First .. swlines + 1
    BY <1>1
  <2>8. In(Sent', TheFlag) => k = swlines + 1
    BY <1>1, <1>6, <2>3, <2>6, <2>7, ItemsApart DEF TheFlag
  <2>9. k = swlines + 1 /\ swlines > 0 => Covered(Sent)
    BY <1>1, <2>1, <2>2 DEF SentInv
  <2>10. FencedOff(Sent')
    <3> SUFFICES ASSUME NEW j \in 1 .. Len(Sent'), NEW l \in 1 .. Len(Sent'),
                        Line(Sent'[j]), Sent'[l] = TheFlag
                 PROVE  \E f \in j + 1 .. l - 1 : IsFence(Sent'[f])
      BY DEF FencedOff
    <3>1. k = swlines + 1 /\ l = L + 1
      BY <1>3, <2>4, <2>6, <2>8 DEF In
    <3>2. swlines > 0
      BY <1>1 DEF Line, Lines
    <3>3. j \in 1 .. L /\ Line(posted'[j])
      <4>1. ~Line(TheFlag)
        <5> SUFFICES ASSUME NEW b \in Lines(swlines), Item(b) = Item(swlines + 1) PROVE FALSE
          BY DEF Line, TheFlag
        <5> QED BY <1>1, <1>10, <2>7, ItemsApart
      <4> QED BY <1>3, <2>4, <3>1, <4>1
    <3>4. PICK f \in j + 1 .. L : IsFence(posted'[f])
      BY <1>2, <2>9, <3>1, <3>2, <3>3 DEF Covered
    <3>5. f \in 1 .. L /\ f \in j + 1 .. l - 1
      BY <1>3, <3>1, <3>3, <3>4
    <3> QED BY <1>3, <3>4, <3>5
  <2>11. In(Sent', Item(atT4))
    <3>1. L + 1 \in 1 .. Len(Sent')
      BY <1>3, <2>4
    <3> QED BY <2>2, <2>4, <3>1 DEF In
  <2>12. k = swlines => Covered(Sent')
    <3> SUFFICES ASSUME k = swlines, NEW j \in 1 .. Len(Sent'), Line(Sent'[j])
                 PROVE  \E f \in j + 1 .. Len(Sent') : IsFence(Sent'[f])
      BY DEF Covered
    <3>1. IsFence(Sent'[L + 1])
      BY <1>1, <2>3, <2>4, ItemFacts
    <3>2. ~Line(Sent'[L + 1])
      <4> SUFFICES ASSUME NEW b \in Lines(swlines), Item(k) = Item(b) PROVE FALSE
        BY <2>4 DEF Line
      <4> QED BY <1>1, <1>10, <2>3, ItemsApart
    <3>3. j \in 1 .. L
      BY <2>4, <3>2
    <3>4. L + 1 \in j + 1 .. Len(Sent')
      BY <1>3, <2>4, <3>3
    <3> QED BY <3>1, <3>4
  <2> QED BY <1>7, <2>1, <2>2, <2>5, <2>8, <2>10, <2>11, <2>12
<1> QED BY <1>12, <1>13

(* Memory prepared for a run holds no flag, and none is on its way.        *)
LEMMA PreparedStep ==
  ASSUME SafeInv, prepares, NEW copies, NEW mmio, NEW u, NEW c0Hold, NEW c1Hold, NEW i, NEW a,
         StepOf(copies, mmio, u, c0Hold, c1Hold, i, a)
  PROVE  SentInv' /\ FlagInv' /\ Cleared' /\ Still'
<1>1. /\ FlowInv' /\ PipeTypes' /\ sw' = "lines"
  BY FlowInvStep DEF prepares
<1>2. Cleared' /\ Still'
  BY <1>1 DEF FlowInv, StartFlow, Before
<1>3. swlines' \in Nat
  BY <1>1, ContentsAssumption DEF FlowInv, CsrTypes, AllLines
<1>4. dst' = Prepared(swlines')
  BY DEF StepOf, Clk, Carry
<1>5. dst'[swlines'] # Flag
  BY <1>3, <1>4, ContentsAssumption DEF Prepared
<1>6. \A j \in 1 .. Len(Sent') : Sent'[j] = Intr
  BY <1>2 DEF Still, Intr
<1>7. \A k : Intr # Item(k)'
  <2>1. DOMAIN Intr = {"msg"}
    BY DEF Intr
  <2>2. \A k : DOMAIN (Item(k)') = {"sop", "len", "fence", "addr", "data"}
    BY DEF Item
  <2> QED BY <2>1, <2>2
<1>8. Kept(Sent)'
  BY <1>6 DEF Kept, Intr
<1>9. FencedOff(Sent)' /\ ~In(Sent, TheFlag)'
  <2>1. TheFlag' # Intr
    BY <1>7 DEF TheFlag, Item
  <2>2. TheFlag' \notin {Sent'[j] : j \in 1 .. Len(Sent')}
    BY <1>6, <2>1
  <2>3. \A j \in 1 .. Len(Sent') : Sent'[j] # TheFlag'
    BY <2>2
  <2> QED BY <2>3 DEF FencedOff, In
<1>10. ~Running'
  BY <1>2 DEF Still, Running
<1> QED BY <1>2, <1>5, <1>8, <1>9, <1>10 DEF SentInv, FlagInv, Flagged, DataBeforeFlag

LEMMA SentInvStep ==
  ASSUME SafeInv, NEW copies, NEW mmio, NEW u, NEW c0Hold, NEW c1Hold, NEW i, NEW a,
         StepOf(copies, mmio, u, c0Hold, c1Hold, i, a)
  PROVE  SentInv'
<1>1. CASE prepares
  BY <1>1, PreparedStep
<1>2. CASE ~prepares
  <2>1. /\ FlowInv /\ PipeTypes' /\ SentInv /\ swlines' = swlines /\ swlines \in Nat
        /\ Running => ChainInv
    BY <1>2, FlowInvStep, Preparing, RunStates DEF SafeInv
  <2>2. First' = First /\ First \in 0 .. 1 /\ \A k : Item(k)' = Item(k)
    BY <2>1 DEF First, Item
  <2>3. TheFlag' = TheFlag
    BY <2>1 DEF TheFlag, Item
  <2>4. /\ Kept(Sent') /\ FencedOff(Sent')
        /\ In(Sent', TheFlag) => \/ In(Sent, TheFlag)
                                 \/ Running /\ wr_T4 # NoItem /\ atT4 = swlines + 1
        /\ \A b \in Lines(swlines) : Delivered(Sent, b) => dst'[b] = b \/ In(Sent', Item(b))
        /\ Running' /\ Running /\ wr_T4 # NoItem => In(Sent', Item(atT4))
        /\ Running' /\ Running /\ wr_T4 # NoItem /\ atT4 = swlines => Covered(Sent')
        /\ Running' /\ Running /\ wr_T4 = NoItem /\ Covered(Sent) => Covered(Sent')
    BY <1>2, <2>1, AppendStep
  <2>5. dst'[swlines] = Flag => \A b \in Lines(swlines) : dst'[b] = b
    BY <1>2, CarryStep
  <2>6. Running' => atT4' = IF Running THEN atT4 + One(wr_T4 # NoItem) ELSE First
    BY ChainInvStep
  <2>7. Running => atT4 \in Nat
    BY <2>1, <2>2, ChainStep DEF SafeInv
  <2>8. \A b \in Lines(swlines) : b \in 0 .. swlines - 1
    BY DEF Lines
  <2>9. Kept(Sent)' /\ FencedOff(Sent)'
    <3>1. Kept(Sent)'
      BY <2>1, <2>2, <2>4 DEF Kept, Item, Fence, Dsm, Intr
    <3>2. FencedOff(Sent)'
      BY <2>1, <2>3, <2>4 DEF FencedOff, Line, Item, Lines, IsFence, Fence, Dsm, Intr
    <3> QED BY <3>1, <3>2
  <2>10. (In(Sent, TheFlag) => \A b \in Lines(swlines) : Delivered(Sent, b))'
    <3>1. SUFFICES ASSUME In(Sent', TheFlag), NEW b \in Lines(swlines)
                   PROVE  dst'[b] = b \/ In(Sent', Item(b))
      BY <2>1, <2>3 DEF In, Delivered, Item, Lines
    <3>2. Delivered(Sent, b)
      BY <2>1, <2>4, <2>8, <3>1 DEF SentInv
    <3> QED BY <2>4, <3>2
  <2>11. DataBeforeFlag'
    BY <2>1, <2>5 DEF DataBeforeFlag, Lines
  <2>12. (Running => \A b \in Lines(swlines) : b < atT4 => Delivered(Sent, b))'
    <3>1. SUFFICES ASSUME Running', NEW b \in Lines(swlines), b < atT4'
                   PROVE  dst'[b] = b \/ In(Sent', Item(b))
      BY <2>1 DEF In, Delivered, Item, Lines
    <3>2. Running
      BY <2>1, <2>6, <2>8, <3>1 DEF First
    <3>3. CASE b < atT4
      BY <2>1, <2>4, <3>1, <3>2, <3>3 DEF SentInv
    <3>4. CASE ~(b < atT4)
      <4>1. wr_T4 # NoItem /\ b = atT4
        BY <2>6, <2>7, <2>8, <3>1, <3>2, <3>4 DEF One
      <4> QED BY <2>4, <3>1, <3>2, <4>1
    <3> QED BY <3>3, <3>4
  <2>13. (Running /\ swlines > 0 /\ atT4 = swlines + 1 => Covered(Sent))'
    <3>1. SUFFICES ASSUME Running', swlines > 0, atT4' = swlines + 1
                   PROVE  Covered(Sent')
      BY <2>1 DEF Covered, Line, Lines, Item, IsFence, Fence, Dsm, Intr
    <3>2. Running
      BY <2>1, <2>2, <2>6, <3>1 DEF First
    <3>3. CASE wr_T4 # NoItem
      <4>1. atT4 = swlines
        BY <2>1, <2>6, <2>7, <3>1, <3>2, <3>3 DEF One
      <4> QED BY <2>4, <3>1, <3>2, <3>3, <4>1
    <3>4. CASE wr_T4 = NoItem
      <4>1. atT4 = swlines + 1
        BY <2>1, <2>6, <2>7, <3>1, <3>2, <3>4 DEF One
      <4> QED BY <2>1, <2>4, <3>1, <3>2, <3>4, <4>1 DEF SentInv
    <3> QED BY <3>3, <3>4
  <2> QED BY <2>9, <2>10, <2>11, <2>12, <2>13 DEF SentInv
<1> QED BY <1>1, <1>2

(* Once the flag has been sent nothing of the run is left behind it.       *)
LEMMA FlagInvStep ==
  ASSUME SafeInv, NEW copies, NEW mmio, NEW u, NEW c0Hold, NEW c1Hold, NEW i, NEW a,
         StepOf(copies, mmio, u, c0Hold, c1Hold, i, a)
  PROVE  FlagInv'
<1>1. CASE prepares
  BY <1>1, PreparedStep
<1>2. CASE ~prepares
  <2>1. /\ FlowInv /\ PipeTypes /\ PipeTypes' /\ CtlTypes /\ EngineTypes
        /\ swlines' = swlines /\ swlines \in Nat
        /\ Running => ChainInv
    BY <1>2, FlowInvStep, Preparing, RunStates DEF SafeInv, FlowInv
  <2>2. SUFFICES ASSUME Flagged' PROVE FlagInv'
    BY DEF FlagInv
  <2>3. \/ Flagged
        \/ Running /\ wr_T4 # NoItem /\ atT4 = swlines + 1
    <3>1. TheFlag' = TheFlag
      BY <2>1 DEF TheFlag, Item
    <3>2. dst'[swlines] = Flag \/ In(Sent', TheFlag)
      BY <2>1, <2>2, <3>1 DEF Flagged, In
    <3> QED BY <1>2, <2>1, <3>2, CarryStep, AppendStep DEF Flagged
  <2>4. /\ WrFSM = "DONE" \/ (WrFSM = "WAIT" /\ sw \in {"off", "reset"})
        /\ q = <<>> /\ out = <<NoItem, NoItem>> /\ wr_T3 = NoItem
    <3>1. CASE Flagged
      BY <3>1 DEF SafeInv, FlagInv
    <3>2. CASE Running /\ wr_T4 # NoItem /\ atT4 = swlines + 1
      <4>1. Place \in First .. swlines + 2 /\ First \in Nat
        BY <2>1, <3>2, PlaceStep DEF Running
      <4>2. atT4 = Place - Len(q) - One(out[1] # NoItem) - One(out[2] # NoItem)
                     - One(wr_T3 # NoItem) - One(wr_T4 # NoItem)
        BY DEF atT4, atT3, atO2, atO1, atQ
      <4>3. Len(q) \in Nat /\ One(wr_T4 # NoItem) = 1
        BY <2>1, <3>2 DEF PipeTypes, One
      <4>4. /\ One(out[1] # NoItem) \in {0, 1} /\ One(out[2] # NoItem) \in {0, 1}
            /\ One(wr_T3 # NoItem) \in {0, 1}
        BY DEF One
      <4>5. /\ Place = swlines + 2 /\ Len(q) = 0 /\ One(out[1] # NoItem) = 0
            /\ One(out[2] # NoItem) = 0 /\ One(wr_T3 # NoItem) = 0
        BY <2>1, <3>2, <4>1, <4>2, <4>3, <4>4
      <4>6. out[1] = NoItem /\ out[2] = NoItem /\ wr_T3 = NoItem
        BY <4>5 DEF One
      <4>7. q = <<>> /\ out = <<NoItem, NoItem>>
        BY <2>1, <4>5, <4>6 DEF PipeTypes
      <4>8. WrFSM = "DONE"
        BY <2>1, <4>5 DEF Place, EngineTypes, First
      <4> QED BY <4>6, <4>7, <4>8
    <3> QED BY <2>3, <3>1, <3>2
  <2>5. CASE ~test_Reset_n
    <3>1. sw \in {"off", "reset"} /\ Cleared'
      BY <2>1, <2>5, RunStates, ClearStep
    <3>2. sw' \in {"off", "reset"}
      BY <1>2, <3>1, FlowMoves DEF prepares
    <3> QED BY <3>1, <3>2 DEF FlagInv, Cleared, Empty
  <2>6. CASE test_Reset_n
    <3>1. ~WrEn /\ ~WrFence
      BY <2>4 DEF WrEn, WrFence
    <3>2. q' = <<>> /\ out' = <<NoItem, NoItem>>
      BY <2>4, <2>6, <3>1 DEF StepOf, Clk, Queue, TxQ!Clock, TxQ!HeadOf
    <3>3. wr_T3' = NoItem /\ wr_T4' = NoItem
      BY <2>4 DEF StepOf, Clk, ReClk, ClkPipe
    <3>4. WrFSM' = WrNext(re2xy_go, re2xy_NumLines, Len(q) < TxCap)
      BY <2>6 DEF StepOf, Clk, Sw1Clk, WriteFsm
    <3>5. CASE WrFSM = "DONE"
      BY <3>2, <3>3, <3>4, <3>5 DEF WrNext, FlagInv
    <3>6. CASE WrFSM = "WAIT" /\ sw \in {"off", "reset"}
      <4>1. ~re2xy_go
        BY <2>1, <3>6, RunStates
      <4>2. WrFSM' = "WAIT"
        BY <3>4, <3>6, <4>1 DEF WrNext
      <4>3. sw' \in {"off", "reset"}
        BY <1>2, <3>6, FlowMoves DEF prepares
      <4> QED BY <3>2, <3>3, <4>2, <4>3 DEF FlagInv
    <3> QED BY <2>4, <3>5, <3>6
  <2> QED BY <2>1, <2>5, <2>6 DEF CtlTypes
<1> QED BY <1>1, <1>2

-----------------------------------------------------------------------------
(***************************************************************************)
(* The engine and the software.  A step leaves everything clear, or the    *)
(* choices of the run stand and the engine sees them.                      *)
(***************************************************************************)
Stands ==
  /\ test_Reset_n /\ ~prepares /\ swlines' = swlines /\ swcfg' = swcfg
  /\ cfg = swcfg /\ re2xy_NumLines = swlines /\ sw \in {"off", "run", "force"}

LEMMA Phases ==
  ASSUME SafeInv, NEW copies, NEW mmio, NEW u, NEW c0Hold, NEW c1Hold, NEW i, NEW a,
         StepOf(copies, mmio, u, c0Hold, c1Hold, i, a)
  PROVE  (Cleared' /\ Still') \/ Stands
<1>1. /\ FlowInv /\ FlowInv' /\ CsrTypes /\ CtlTypes /\ ResetFlow /\ StartFlow /\ LockFlow
      /\ ChoiceFlow /\ CtlFlow
  BY FlowInvStep DEF SafeInv, FlowInv
<1>2. sw \in {"off", "reset", "lines", "config", "run", "force"}
  BY <1>1 DEF CsrTypes
<1>3. CASE ~test_Reset_n
  <2>1. sw \in {"off", "reset"}
    BY <1>1, <1>3, RunStates
  <2>2. sw' \in {"off", "reset", "lines"}
    BY <2>1, FlowMoves
  <2>3. Still'
    BY <1>1, <2>2 DEF FlowInv, StartFlow, Before
  <2> QED BY <1>1, <1>3, <2>3, ClearStep
<1>4. CASE test_Reset_n /\ sw \in {"reset", "lines", "config"}
  <2>1. Cleared /\ Still
    BY <1>1, <1>4 DEF ResetFlow, StartFlow, Before
  <2>2. "force" \notin csr.CTL
    BY <1>1, <1>4, CtlBitsOf
  <2>3. Cleared'
    BY <1>1, <2>1, <2>2, CalmStep
  <2>4. ~re2xy_go'
    <3>1. ~test_go /\ ~re2xy_go
      BY <1>1, <1>4, <2>1 DEF LockFlow, Still
    <3> QED BY <1>1, <3>1, ControlStep
  <2>5. sw' \in {"reset", "lines", "config", "run"}
    BY <1>4, FlowMoves
  <2>6. Still'
    BY <1>1, <2>3, <2>4, <2>5 DEF FlowInv, StartFlow, Before, Cleared
  <2> QED BY <2>3, <2>6
<1>5. CASE test_Reset_n /\ sw \in {"off", "run", "force"}
  <2>1. ~prepares
    BY <1>5 DEF prepares
  <2>2. swlines' = swlines /\ swcfg' = swcfg
    BY <1>5, <2>1, Preparing
  <2>3. cfg = swcfg /\ re2xy_NumLines = swlines
    BY <1>1, <1>5 DEF ChoiceFlow
  <2> QED BY <1>5, <2>1, <2>2, <2>3 DEF Stands
<1> QED BY <1>1, <1>2, <1>3, <1>4, <1>5 DEF CtlTypes

(* Giving notice, and the message on its way.                              *)
LEMMA NoticeMoves ==
  ASSUME SafeInv, NEW copies, NEW mmio, NEW u, NEW c0Hold, NEW c1Hold, NEW i, NEW a,
         StepOf(copies, mmio, u, c0Hold, c1Hold, i, a)
  PROVE  /\ u # NoMessage => u = message /\ message' = NoMessage
         /\ message' # NoMessage => /\ u = NoMessage
                                    /\ \/ message' = message
                                       \/ ~told /\ told' /\ message' = swcfg.method
         /\ wr_T1' = Message => ~told /\ told' /\ swcfg.method = "csr" /\ wr_T1 = NoWrite
         /\ wr_T1' = Message => u = NoMessage
         /\ csr_write' = (wr_T1 = Message)
         /\ told /\ ~prepares => told' /\ src' = src /\ copied' = copied
         /\ told' => ~prepares /\ (told \/ (flagSeen /\ copied = swlines /\ copied' = copied))
<1>1. MemTypes /\ swlines \in Nat /\ CsrTypes
  BY RunStates DEF SafeInv, FlowInv
<1>2. wr_T1' = mmio
  BY Moves
<1>3. csr_write' = (wr_T1 = Message)
  BY <1>1, CsrStep DEF StepOf, Clk
<1>4. told => copied = swlines
  BY DEF SafeInv, StopInv
<1>5. Message # NoWrite
  BY NoWriteAssumption
<1>6. told \in BOOLEAN
  BY DEF SafeInv, FlowInv, CtlTypes
<1>7. CASE prepares
  BY <1>2, <1>3, <1>7, Preparing
<1>8. CASE ~prepares /\ ~CopyBack(mmio, u)
  BY <1>2, <1>3, <1>8, Preparing DEF noted
<1>9. CASE ~prepares /\ CopyBack(mmio, u)
  <2>1. CASE CopiesLine(mmio, u)
    BY <1>1, <1>2, <1>3, <1>4, <1>5, <1>9, <2>1 DEF CopiesLine
  <2>2. CASE GivesNotice(mmio, u)
    BY <1>2, <1>3, <1>5, <1>9, <2>2 DEF GivesNotice
  <2>3. CASE Arrives(mmio, u)
    BY <1>2, <1>3, <1>5, <1>9, <2>3 DEF Arrives
  <2> QED BY <1>1, <1>9, <2>1, <2>2, <2>3, Copies
<1> QED BY <1>7, <1>8, <1>9

(* A clock of the engine while the choices of the run stand.               *)
LEMMA EngineStep ==
  ASSUME Stands, NEW copies, NEW mmio, NEW u, NEW c0Hold, NEW c1Hold, NEW i, NEW a,
         StepOf(copies, mmio, u, c0Hold, c1Hold, i, a)
  PROVE  LET RdSent == RdHdr_valid(RdEn, c0Hold)
         IN  /\ WrFSM' = WrNext(re2xy_go, swlines, Len(q) < TxCap)
             /\ CountReads(RdSent) /\ CountRsp(Answer(a)) /\ RdRsp_q' = Answer(a)
             /\ Notice(swcfg.method, RdSent, Answer(a), csr_write, u)
             /\ ReadFsm(swcfg.method, swlines, RdSent) /\ Check
             /\ s12ab_TestCmp' = (WrFSM = "DONE" /\ RdFSM = "DONE")
             /\ RdHdr_valid_q' = RdSent /\ RdAddr_q' = (IF RdSent THEN RdAddr ELSE 0)
             /\ c0' = (re2xy_go /\ RdHdr_valid_q) /\ c0addr' = RdAddr_q
             /\ reads' = (reads \ {a}) \cup (IF c0 THEN {c0addr} ELSE {})
             /\ ClkControl(csr.CTL, s12ab_TestCmp, ErrorValid, FALSE)
             /\ WrData_dsm' = error
             /\ a \in {-1} \cup reads
BY DEF StepOf, Clk, Sw1Clk, WriteFsm, ReClk, ClkPipe, ClkRegs, Reading, Stands

-----------------------------------------------------------------------------
(* Whoever gives notice has seen the flag, which ends all forcing.         *)
LEMMA ToldStep ==
  ASSUME SafeInv, NEW copies, NEW mmio, NEW u, NEW c0Hold, NEW c1Hold, NEW i, NEW a,
         StepOf(copies, mmio, u, c0Hold, c1Hold, i, a)
  PROVE  told' => dst'[swlines'] = Flag /\ copied' = swlines' /\ ~test_stop'
<1>1. SUFFICES ASSUME told' PROVE dst'[swlines'] = Flag /\ copied' = swlines' /\ ~test_stop'
  OBVIOUS
<1>2. ~prepares /\ (told \/ (flagSeen /\ copied = swlines /\ copied' = copied))
  BY <1>1, NoticeMoves
<1>3. dst[swlines] = Flag /\ copied' = swlines /\ ~test_stop
  <2>1. CASE told
    BY <1>2, <2>1, NoticeMoves DEF SafeInv, StopInv
  <2>2. CASE ~told /\ flagSeen /\ copied' = swlines
    BY <2>2 DEF SafeInv, StopInv, flagSeen
  <2> QED BY <1>2, <2>1, <2>2
<1>4. dst'[swlines] = Flag /\ swlines' = swlines
  BY <1>2, <1>3, CarryStep, Preparing
<1>5. ~test_stop'
  <2>1. wr_T4 = NoItem
    BY <1>3 DEF SafeInv, FlagInv, Flagged
  <2>2. ~stopsHere
    BY <2>1 DEF stopsHere, packetEnds, SafeInv, FlowInv, CtlTypes
  <2> QED BY <1>3, <2>2, ControlStep DEF ClkControl, SafeInv
<1> QED BY <1>3, <1>4, <1>5

LEMMA StopInvStep ==
  ASSUME SafeInv, NEW copies, NEW mmio, NEW u, NEW c0Hold, NEW c1Hold, NEW i, NEW a,
         StepOf(copies, mmio, u, c0Hold, c1Hold, i, a)
  PROVE  StopInv'
<1>1. told' => dst'[swlines'] = Flag /\ copied' = swlines' /\ ~test_stop'
  BY ToldStep
<1>2. CASE Cleared' /\ Still'
  BY <1>1, <1>2 DEF StopInv, Cleared, Over
<1>3. CASE Stands
  <2>1. /\ StopInv /\ NoticeInv /\ FlowInv /\ CsrTypes /\ CtlTypes /\ EngineTypes /\ CtlFlow
        /\ test_Reset_n /\ sw \in {"off", "run", "force"} /\ ~prepares
    BY <1>3 DEF SafeInv, FlowInv, Stands
  <2>2. /\ WrFSM' = WrNext(re2xy_go, swlines, Len(q) < TxCap)
        /\ RdFSM' = RdNext(swlines, RdHdr_valid(RdEn, c0Hold))
        /\ ErrorValid' = IF checking THEN RdRsp_q.data # RdRsp_q.addr ELSE ErrorValid
        /\ s12ab_TestCmp' = (WrFSM = "DONE" /\ RdFSM = "DONE")
        /\ ClkControl(csr.CTL, s12ab_TestCmp, ErrorValid, FALSE)
    BY <1>3, EngineStep DEF ReadFsm, Check
  <2>3. told => told'
    BY <2>1, NoticeMoves
  <2>4. error' \/ ErrorValid' => told'
    <3>1. checking => told
      BY <2>1 DEF checking, NoticeInv
    <3> QED BY <2>1, <2>2, <2>3, <3>1 DEF ClkControl, StopInv
  <2>5. test_cmplt' /\ sw' = "run" => told'
    <3>1. SUFFICES ASSUME test_cmplt', sw' = "run" PROVE told
      BY <2>3
    <3>2. sw = "run"
      BY <2>1, <3>1, FlowMoves
    <3>3. "force" \notin csr.CTL
      BY <2>1, <3>2, CtlBitsOf
    <3> QED BY <2>1, <2>2, <3>1, <3>2, <3>3 DEF ClkControl, StopInv
  <2>6. test_stop' => test_cmplt'
    BY <2>1, <2>2 DEF ClkControl, StopInv, stopsHere
  <2>7. Over' => test_stop' \/ (WrFSM' = "DONE" /\ RdFSM' = "DONE")
    <3>1. Over' => test_stop \/ Over \/ (WrFSM = "DONE" /\ RdFSM = "DONE")
      BY <2>1, <2>2 DEF Over, ClkControl, sendsFence, sendsDsm
    <3>2. test_stop => test_stop'
      BY <2>1, <2>2 DEF ClkControl
    <3>3. WrFSM = "DONE" /\ RdFSM = "DONE" => WrFSM' = "DONE" /\ RdFSM' = "DONE"
      BY <2>2 DEF WrNext, RdNext
    <3> QED BY <2>1, <3>1, <3>2, <3>3 DEF StopInv
  <2> QED BY <1>1, <2>4, <2>5, <2>6, <2>7 DEF StopInv
<1> QED BY <1>2, <1>3, Phases

(***************************************************************************)
(* Notice reaches the engine once, by the configured method, and only      *)
(* after the software has given it.                                        *)
(***************************************************************************)
LEMMA NoticeInvStep ==
  ASSUME SafeInv, NEW copies, NEW mmio, NEW u, NEW c0Hold, NEW c1Hold, NEW i, NEW a,
         StepOf(copies, mmio, u, c0Hold, c1Hold, i, a)
  PROVE  NoticeInv'
<1>1. /\ u # NoMessage => u = message /\ message' = NoMessage
      /\ message' # NoMessage => /\ u = NoMessage
                                 /\ \/ message' = message
                                    \/ ~told /\ told' /\ message' = swcfg.method
      /\ wr_T1' = Message => ~told /\ told' /\ swcfg.method = "csr" /\ wr_T1 = NoWrite
      /\ wr_T1' = Message => u = NoMessage
      /\ csr_write' = (wr_T1 = Message)
      /\ told /\ ~prepares => told'
  BY NoticeMoves
<1>2. CASE Cleared' /\ Still'
  <2>1. wr_T1' # Message
    BY <1>2 DEF Still, Message, CsrWrite
  <2> QED BY <1>2, <2>1 DEF NoticeInv, Cleared, Still, Message, CsrWrite
<1>3. CASE Stands
  <2> DEFINE m == swcfg.method
             RdSent == RdHdr_valid(RdEn, c0Hold)
             rsp == Answer(a)
  <2>1. /\ StopInv /\ NoticeInv /\ ReadInv /\ FlowInv /\ CsrTypes /\ CtlTypes /\ EngineTypes /\ MemTypes
        /\ ~prepares /\ swcfg' = swcfg /\ swlines' = swlines
    BY <1>3 DEF SafeInv, FlowInv, Stands
  <2>2. /\ WrFSM' = WrNext(re2xy_go, swlines, Len(q) < TxCap)
        /\ Notice(m, RdSent, rsp, csr_write, u)
        /\ ReadFsm(m, swlines, RdSent)
        /\ a \in {-1} \cup reads
    BY <1>3, EngineStep
  <2>3. m \in Methods /\ NoMessage \notin Methods
    BY <2>1, ModesAssumption, NoMessageAssumption DEF CsrTypes, AllCfgs
  <2>4. told => told'
    BY <1>1, <2>1
  <2>5. Message # NoWrite
    BY NoWriteAssumption
  <2>6. sawFlag(rsp) => told
    <3>1. SUFFICES ASSUME sawFlag(rsp), RdFSM = "WAIT" PROVE told
      BY <2>1 DEF NoticeInv
    <3>2. PollFSM = "RESP" /\ rsp.valid /\ rsp.data = Flag
      BY <3>1 DEF sawFlag
    <3>3. a \in reads /\ src[a] = Flag
      BY <3>2 DEF Answer, NoRsp
    <3>4. a = swlines
      BY <2>1, <3>1, <3>2, <3>3 DEF ReadInv
    <3> QED BY <2>1, <3>3, <3>4 DEF MemTypes
  <2> HIDE DEF rsp, RdSent, m
  <2>7. rd_go' => /\ m = "poll" => (rd_go \/ sawFlag(rsp)) /\ PollFSM' = "DONE"
                  /\ m # "poll" => (m = "csr" /\ csr_write) \/ (u # NoMessage /\ message # NoMessage)
    <3>1. CASE m = "poll"
      <4>1. rd_go => PollFSM = "DONE"
        BY <2>1, <3>1 DEF NoticeInv, m
      <4>2. sawFlag(rsp) => PollFSM' = "DONE"
        BY <2>2, <3>1 DEF Notice, PollFsm, sawFlag
      <4>3. PollFSM = "DONE" => PollFSM' = "DONE"
        BY <2>2, <3>1 DEF Notice, PollFsm
      <4>4. rd_go' => rd_go \/ sawFlag(rsp)
        BY <2>1, <2>2, <3>1 DEF Notice, EngineTypes
      <4> QED BY <3>1, <4>1, <4>2, <4>3, <4>4
    <3>2. CASE m # "poll"
      BY <1>1, <2>2, <2>3, <3>2 DEF Notice
    <3> QED BY <3>1, <3>2
  <2>8. RdFSM' # "WAIT" => RdFSM # "WAIT" \/ rd_go
    BY <2>2 DEF ReadFsm, RdNext
  <2>9. rd_go' \/ RdFSM' # "WAIT" => told
    BY <2>1, <2>6, <2>7, <2>8 DEF NoticeInv
  <2>10. wr_T1' = Message \/ csr_write' => swcfg.method = "csr"
    BY <1>1, <2>1 DEF NoticeInv
  <2>11. message' # NoMessage => message' = swcfg.method
    BY <1>1, <2>1 DEF NoticeInv
  <2>12. wr_T1' = Message \/ csr_write' \/ message' # NoMessage => told'
    BY <1>1, <2>1, <2>4 DEF NoticeInv
  <2>13. wr_T1' = Message => ~csr_write'
    BY <1>1, <2>5
  <2>14. wr_T1' = Message \/ csr_write' \/ message' # NoMessage => ~rd_go' /\ RdFSM' = "WAIT"
    <3>1. SUFFICES ASSUME wr_T1' = Message \/ csr_write' \/ message' # NoMessage
                   PROVE  ~rd_go' /\ RdFSM' = "WAIT"
      OBVIOUS
    <3>2. ~told \/ wr_T1 = Message \/ message # NoMessage
      BY <1>1, <3>1
    <3>3. ~rd_go /\ RdFSM = "WAIT"
      BY <2>1, <3>2 DEF NoticeInv
    <3>4. message # NoMessage => message \in {"message", "hint"} /\ m = message
      BY <2>1 DEF NoticeInv, MemTypes, m
    <3>5. u = NoMessage
      BY <1>1, <2>10, <3>1, <3>4 DEF m
    <3>6. m = "csr" => ~csr_write
      <4>1. SUFFICES ASSUME m = "csr", csr_write PROVE FALSE
        OBVIOUS
      <4>2. told /\ wr_T1 # Message
        BY <2>1, <4>1 DEF NoticeInv
      <4>3. message # NoMessage
        BY <3>2, <4>2
      <4> QED BY <3>4, <4>1, <4>3
    <3>7. m = "poll" => FALSE
      <4>1. SUFFICES ASSUME m = "poll" PROVE FALSE
        OBVIOUS
      <4>2. message' # NoMessage /\ message = NoMessage
        BY <2>10, <3>1, <3>4, <4>1 DEF m
      <4>3. CopyBack(mmio, u)
        BY <2>1, <4>2, Preparing DEF noted
      <4>4. swlines \in Nat
        BY <2>1, RunStates
      <4> QED BY <2>1, <4>1, <4>2, <4>3, <4>4, Copies DEF CopiesLine, GivesNotice, Arrives, m
    <3>8. ~rd_go'
      BY <2>7, <3>5, <3>6, <3>7
    <3> QED BY <2>8, <3>3, <3>8
  <2>15. rd_go' /\ RdFSM' # "WAIT" => m = "poll"
    <3>1. SUFFICES ASSUME rd_go', RdFSM' # "WAIT", m # "poll" PROVE FALSE
      OBVIOUS
    <3>2. csr_write \/ message # NoMessage
      BY <2>7, <3>1
    <3>3. ~rd_go /\ RdFSM = "WAIT"
      BY <2>1, <3>2 DEF NoticeInv
    <3> QED BY <2>8, <3>1, <3>3
  <2>16. PollFSM' # "WAIT" => m = "poll" /\ WrFSM' = "DONE"
    <3>1. PollFSM' # "WAIT" => m = "poll" /\ WrFSM = "DONE"
      BY <2>1, <2>2 DEF NoticeInv, Notice, PollFsm, m
    <3> QED BY <2>2, <3>1 DEF WrNext
  <2>17. PollFSM' = "DONE" => rd_go'
    <3>1. CASE m = "poll"
      <4>1. PollFSM' = "DONE" => PollFSM = "DONE" \/ sawFlag(rsp)
        BY <2>2, <3>1 DEF Notice, PollFsm, AfterMiss
      <4> QED BY <2>1, <2>2, <3>1, <4>1 DEF NoticeInv, Notice
    <3>2. CASE m # "poll"
      BY <2>16, <3>2
    <3> QED BY <3>1, <3>2
  <2>18. m = "poll" /\ (RdFSM' # "WAIT" \/ rd_go') => PollFSM' = "DONE" /\ rd_go'
    <3>1. SUFFICES ASSUME m = "poll", RdFSM' # "WAIT" \/ rd_go' PROVE rd_go'
      BY <2>7
    <3>2. RdFSM' # "WAIT" => rd_go
      BY <2>1, <2>8, <3>1 DEF NoticeInv, m
    <3>3. rd_go => rd_go'
      BY <2>2, <3>1 DEF Notice
    <3> QED BY <3>1, <3>2, <3>3
  <2>19. PollFSM' \in {"READ", "RESP"} => RdAddr' = swlines
    <3>1. SUFFICES ASSUME PollFSM' \in {"READ", "RESP"} PROVE RdAddr' = swlines
      OBVIOUS
    <3>2. m = "poll"
      BY <2>16, <3>1
    <3>3. PollFSM # "DONE"
      BY <2>2, <3>1, <3>2 DEF Notice, PollFsm
    <3>4. RdFSM = "WAIT" /\ ~rd_go
      BY <2>1, <3>2, <3>3 DEF NoticeInv, m
    <3>5. RdAddr' = IF PollFSM = "WAIT" THEN swlines ELSE RdAddr
      BY <2>2, <3>2, <3>4 DEF ReadFsm
    <3> QED BY <2>1, <3>3, <3>5 DEF NoticeInv, EngineTypes
  <2> QED BY <2>1, <2>4, <2>9, <2>10, <2>11, <2>12, <2>13, <2>14, <2>15, <2>16, <2>17, <2>18, <2>19
          DEF NoticeInv, m, Message, CsrWrite
<1> QED BY <1>2, <1>3, Phases

-----------------------------------------------------------------------------
(* Reads sent and answered in one clock.                                   *)
LEMMA ReadsCount ==
  ASSUME IsFiniteSet(reads), NEW a \in {-1} \cup reads, -1 \notin reads,
         c0 => c0addr \notin reads,
         reads' = (reads \ {a}) \cup (IF c0 THEN {c0addr} ELSE {})
  PROVE  Cardinality(reads') = Cardinality(reads) - One(a \in reads) + One(c0)
<1>1. Cardinality(reads) \in Nat
  BY FS_CardinalityType
<1>2. /\ IsFiniteSet(reads \ {a})
      /\ Cardinality(reads \ {a}) = Cardinality(reads) - One(a \in reads)
  BY <1>1, FS_RemoveElement DEF One
<1>3. CASE c0
  <2>1. c0addr \notin reads \ {a} /\ reads' = (reads \ {a}) \cup {c0addr}
    BY <1>3
  <2>2. Cardinality(reads') = Cardinality(reads \ {a}) + 1
    BY <1>2, <2>1, FS_AddElement
  <2> QED BY <1>2, <1>3, <2>2 DEF One
<1>4. CASE ~c0
  <2>1. reads' = reads \ {a}
    BY <1>4
  <2>2. One(c0) = 0
    BY <1>4 DEF One
  <2>3. One(a \in reads) \in {0, 1}
    BY DEF One
  <2>4. Cardinality(reads') = Cardinality(reads) - One(a \in reads)
    BY <1>2, <2>1
  <2> HIDE DEF One
  <2> QED BY <1>1, <2>2, <2>3, <2>4
<1> QED BY <1>3, <1>4

(* While lines are read, none other is on its way, and none is asked twice.*)
LEMMA ReadingStep ==
  ASSUME SafeInv, Stands, Reads,
         NEW copies, NEW mmio, NEW u, NEW c0Hold, NEW c1Hold, NEW i, NEW a,
         StepOf(copies, mmio, u, c0Hold, c1Hold, i, a)
  PROVE  /\ RdFSM' # "WAIT" /\ ReadInv'
         /\ Asked' = Asked + One(RdHdr_valid_q') \/ RdFSM' = "DONE"
         /\ RdFSM' = "DONE" => Asked = swlines /\ reads = {} /\ ~c0 /\ ~RdHdr_valid_q
<1> DEFINE m == swcfg.method
           s == RdHdr_valid(RdEn, c0Hold)
           ok == a \in reads
<1>1. /\ StopInv /\ NoticeInv /\ ReadInv /\ FlowInv /\ CtlTypes /\ EngineTypes /\ MemTypes
      /\ swlines' = swlines /\ swlines \in Nat /\ test_Reset_n
  BY RunStates DEF SafeInv, FlowInv, Stands
<1>2. /\ CountReads(s) /\ CountRsp(Answer(a)) /\ ReadFsm(m, swlines, s)
      /\ s12ab_TestCmp' = (WrFSM = "DONE" /\ RdFSM = "DONE")
      /\ RdHdr_valid_q' = s /\ RdAddr_q' = (IF s THEN RdAddr ELSE 0)
      /\ c0' = (re2xy_go /\ RdHdr_valid_q) /\ c0addr' = RdAddr_q
      /\ reads' = (reads \ {a}) \cup (IF c0 THEN {c0addr} ELSE {})
      /\ ClkControl(csr.CTL, s12ab_TestCmp, ErrorValid, FALSE)
      /\ a \in {-1} \cup reads
  BY EngineStep
<1>3. m # "poll" => PollFSM = "WAIT"
  BY <1>1 DEF NoticeInv, EngineTypes
<1>4. m = "poll" => PollFSM = "DONE"
  BY <1>1 DEF NoticeInv, Reads
<1>5. s \in BOOLEAN /\ (s => RdFSM = "READ")
  BY <1>1, <1>3, <1>4 DEF RdHdr_valid, RdEn, CtlTypes
<1>6. Asked \in 0 .. swlines /\ Cardinality(reads) \in Nat /\ IsFiniteSet(reads)
  BY <1>1, ReadFacts
<1>7. /\ ~Over /\ re2xy_go /\ swlines > 0 /\ told /\ ~test_stop
      /\ RdHdr_valid_q => RdAddr_q = Asked - 1
      /\ c0 => c0addr = Asked - 1 - One(RdHdr_valid_q)
      /\ \A b \in reads : b < Asked - One(RdHdr_valid_q) - One(c0)
      /\ Num_RdRsp + Cardinality(reads) + One(c0) + One(RdHdr_valid_q) = Asked
  BY <1>1 DEF ReadInv, NoticeInv, StopInv, Reads
<1>8. /\ One(c0) = (IF c0 THEN 1 ELSE 0) /\ One(ok) = (IF ok THEN 1 ELSE 0)
      /\ One(s) = (IF s THEN 1 ELSE 0) /\ One(RdHdr_valid_q) = (IF RdHdr_valid_q THEN 1 ELSE 0)
      /\ One(c0) \in {0, 1} /\ One(ok) \in {0, 1}
      /\ One(s) \in {0, 1} /\ One(RdHdr_valid_q) \in {0, 1}
  BY DEF One
<1>9. reads \subseteq Nat /\ Num_RdRsp \in Nat
  BY <1>1 DEF MemTypes, EngineTypes
<1>10. Cardinality(reads') = Cardinality(reads) - One(ok) + One(c0)
  <2>1. -1 \notin reads
    BY <1>9
  <2>2. c0 => c0addr \notin reads
    <3>1. SUFFICES ASSUME c0, c0addr \in reads PROVE FALSE
      OBVIOUS
    <3>2. One(c0) = 1
      BY <1>8, <3>1
    <3>3. c0addr < Asked - One(RdHdr_valid_q) - One(c0)
      BY <1>7, <3>1
    <3>4. c0addr = Asked - 1 - One(RdHdr_valid_q)
      BY <1>7, <3>1
    <3>5. One(RdHdr_valid_q) \in {0, 1}
      BY <1>8
    <3> QED BY <1>6, <3>2, <3>3, <3>4, <3>5
  <2> QED BY <1>2, <1>6, <2>1, <2>2, ReadsCount
<1>11. Num_RdRsp' = Num_RdRsp + One(ok)
  <2>1. CASE ok
    <3>1. Answer(a).valid = TRUE
      BY <2>1 DEF Answer
    <3>2. Num_RdRsp' = Num_RdRsp + 1
      BY <1>2, <3>1 DEF CountRsp
    <3> QED BY <1>8, <2>1, <3>2
  <2>2. CASE ~ok
    <3>1. Answer(a).valid = FALSE
      BY <2>2 DEF Answer, NoRsp
    <3>2. Num_RdRsp' = Num_RdRsp
      BY <1>2, <3>1 DEF CountRsp, Reads
    <3> QED BY <1>8, <1>9, <2>2, <3>2
  <2> QED BY <2>1, <2>2
<1>12. c0' <=> RdHdr_valid_q
  BY <1>1, <1>2, <1>7 DEF CtlTypes
<1>14. /\ RdFSM = "READ" => Num_RdReqs \in 1 .. swlines /\ RdAddr = Num_RdReqs - 1 /\ Asked = RdAddr
       /\ RdFSM = "RESP" => Asked = swlines
  BY <1>1 DEF ReadInv, Asked
<1>15. /\ RdFSM' = RdNext(swlines, s)
       /\ RdFSM = "READ" => /\ Num_RdReqs' = Num_RdReqs + One(s)
                            /\ RdAddr' = RdAddr + One(s)
  BY <1>1, <1>2, <1>3, <1>4, <1>5, <1>14 DEF ReadFsm, CountReads, One
<1>16. RdFSM' # "WAIT" /\ (RdFSM' = "DONE" => RdFSM = "RESP" /\ Num_RdRsp = swlines)
  BY <1>15 DEF RdNext, allAnswered, Reads
<1>17. ~Over' /\ re2xy_go'
  <2>1. ~stopsHere
    <3>1. wr_T4 = NoItem
      BY <1>7 DEF SafeInv, StopInv, FlagInv, Flagged
    <3> QED BY <1>1, <3>1 DEF stopsHere, packetEnds, CtlTypes
  <2> QED BY <1>1, <1>2, <1>7, <2>1 DEF Over, ClkControl, sendsFence, sendsDsm, Reads
<1> HIDE DEF s, ok, m
<1>18. ASSUME RdFSM' = "DONE"
       PROVE  Asked = swlines /\ reads = {} /\ ~c0 /\ ~RdHdr_valid_q /\ ReadInv'
  <2>1. RdFSM = "RESP" /\ Num_RdRsp = swlines /\ Asked = swlines /\ ~s
    BY <1>5, <1>14, <1>16, <1>18
  <2>2. Cardinality(reads) = 0 /\ One(c0) = 0 /\ One(RdHdr_valid_q) = 0
    BY <1>1, <1>6, <1>7, <1>8, <2>1
  <2>3. reads = {} /\ ~c0 /\ ~RdHdr_valid_q
    BY <1>6, <2>2, FS_EmptySet DEF One
  <2>4. ~RdHdr_valid_q' /\ ~c0' /\ reads' = {}
    BY <1>2, <1>12, <2>1, <2>3
  <2> QED BY <1>18, <2>1, <2>3, <2>4 DEF ReadInv, Reads
<1>19. ASSUME RdFSM' # "DONE"
       PROVE  Asked' = Asked + One(RdHdr_valid_q') /\ ReadInv'
  <2>1. RdFSM' \in {"READ", "RESP"}
    BY <1>1, <1>15, <1>16, <1>19 DEF RdNext, EngineTypes
  <2>2. /\ Asked' = Asked + One(s)
        /\ RdFSM' = "READ" => Num_RdReqs' \in 1 .. swlines /\ RdAddr' = Num_RdReqs' - 1
    <3>1. CASE RdFSM = "RESP"
      <4>1. RdFSM' = "RESP" /\ ~s
        BY <1>5, <1>15, <2>1, <3>1 DEF RdNext
      <4> QED BY <1>1, <1>8, <1>14, <3>1, <4>1 DEF Asked
    <3>2. CASE RdFSM = "READ" /\ ~s
      <4>1. RdFSM' = "READ" /\ Num_RdReqs' = Num_RdReqs /\ RdAddr' = RdAddr
        BY <1>8, <1>14, <1>15, <3>2 DEF RdNext
      <4> QED BY <1>1, <1>8, <1>14, <3>2, <4>1 DEF Asked
    <3>3. CASE RdFSM = "READ" /\ s
      <4>1. /\ Num_RdReqs' = Num_RdReqs + 1 /\ RdAddr' = RdAddr + 1
            /\ RdFSM' = IF Num_RdReqs = swlines THEN "RESP" ELSE "READ"
        BY <1>8, <1>15, <3>3 DEF RdNext
      <4>2. Asked = Num_RdReqs - 1 /\ One(s) = 1 /\ Num_RdReqs \in 1 .. swlines
        BY <1>8, <1>14, <3>3 DEF Asked
      <4>3. CASE Num_RdReqs = swlines
        <5>1. Asked' = swlines /\ RdFSM' # "READ"
          BY <1>1, <4>1, <4>3 DEF Asked
        <5> QED BY <1>1, <4>2, <4>3, <5>1
      <4>4. CASE Num_RdReqs # swlines
        <5>1. Asked' = Num_RdReqs' - 1
          BY <4>1, <4>4 DEF Asked
        <5>2. Num_RdReqs' \in 1 .. swlines /\ RdAddr' = Num_RdReqs' - 1
          BY <1>1, <1>14, <3>3, <4>1, <4>2, <4>4
        <5>3. Asked' = Asked + One(s)
          BY <4>1, <4>2, <5>1
        <5> QED BY <5>2, <5>3
      <4> QED BY <4>3, <4>4
    <3> QED BY <1>5, <3>1, <3>2, <3>3 DEF Reads
  <2>3. RdHdr_valid_q' => RdAddr_q' = Asked' - 1
    <3>1. SUFFICES ASSUME s PROVE RdAddr_q' = Asked' - 1
      BY <1>2
    <3>2. RdAddr_q' = RdAddr /\ RdAddr = Asked /\ One(s) = 1
      BY <1>2, <1>5, <1>8, <1>14, <3>1
    <3> QED BY <1>6, <2>2, <3>2
  <2>4. c0' => c0addr' = Asked' - 1 - One(RdHdr_valid_q')
    BY <1>2, <1>6, <1>7, <1>8, <1>12, <2>2
  <2>5. \A b \in reads' : b < Asked' - One(RdHdr_valid_q') - One(c0')
    <3>1. Asked' - One(RdHdr_valid_q') - One(c0') = Asked - One(RdHdr_valid_q)
      BY <1>2, <1>5, <1>6, <1>8, <1>12, <2>2 DEF One
    <3>2. \A b \in reads' : b \in reads \/ (c0 /\ b = c0addr)
      BY <1>2
    <3>3. \A b \in reads : b < Asked - One(RdHdr_valid_q)
      BY <1>6, <1>7, <1>8, <1>9
    <3>4. c0 => c0addr < Asked - One(RdHdr_valid_q)
      BY <1>6, <1>7, <1>8
    <3> QED BY <3>1, <3>2, <3>3, <3>4
  <2>6. Num_RdRsp' + Cardinality(reads') + One(c0') + One(RdHdr_valid_q') = Asked'
    <3>1. One(c0') = One(RdHdr_valid_q) /\ One(RdHdr_valid_q') = One(s)
      BY <1>2, <1>12 DEF One
    <3> QED BY <1>6, <1>7, <1>8, <1>9, <1>10, <1>11, <2>2, <3>1
  <2>7. One(RdHdr_valid_q') = One(s)
    BY <1>2 DEF One
  <2>8. ReadInv'
    BY <1>1, <1>7, <1>17, <2>1, <2>2, <2>3, <2>4, <2>5, <2>6 DEF ReadInv, Reads, One
  <2> QED BY <2>2, <2>7, <2>8
<1> QED BY <1>16, <1>18, <1>19

(***************************************************************************)
(* The reads on their way: none before notice but that of a poll.          *)
(***************************************************************************)
LEMMA QuietReads ==
  ASSUME Stands, NEW copies, NEW mmio, NEW u, NEW c0Hold, NEW c1Hold, NEW i, NEW a,
         StepOf(copies, mmio, u, c0Hold, c1Hold, i, a),
         ~RdHdr_valid(RdEn, c0Hold), ~RdHdr_valid_q, ~c0, reads = {}
  PROVE  ~RdHdr_valid_q' /\ ~c0' /\ reads' = {}
BY EngineStep

LEMMA NotOver ==
  ASSUME SafeInv, Stands, ~Over, ~test_stop, RdFSM # "DONE",
         NEW copies, NEW mmio, NEW u, NEW c0Hold, NEW c1Hold, NEW i, NEW a,
         StepOf(copies, mmio, u, c0Hold, c1Hold, i, a)
  PROVE  ~Over' /\ (re2xy_go => re2xy_go')
<1>1. /\ s12ab_TestCmp' = (WrFSM = "DONE" /\ RdFSM = "DONE")
      /\ ClkControl(csr.CTL, s12ab_TestCmp, ErrorValid, FALSE)
      /\ test_Reset_n
  BY EngineStep DEF Stands
<1> QED BY <1>1 DEF Over, ClkControl, sendsFence, sendsDsm

(* Notice starts the reading of lines with nothing on its way.             *)
LEMMA NoticedStep ==
  ASSUME SafeInv, Stands, RdFSM = "WAIT", rd_go,
         NEW copies, NEW mmio, NEW u, NEW c0Hold, NEW c1Hold, NEW i, NEW a,
         StepOf(copies, mmio, u, c0Hold, c1Hold, i, a)
  PROVE  ReadInv' /\ RdFSM' \in {"READ", "DONE"} /\ Asked' = 0 /\ told /\ ~test_stop
         /\ reads = {} /\ ~c0 /\ ~RdHdr_valid_q
<1>1. /\ StopInv /\ NoticeInv /\ ReadInv /\ FlowInv /\ CtlTypes /\ EngineTypes
      /\ test_Reset_n /\ swlines' = swlines /\ swlines \in Nat
  BY RunStates DEF SafeInv, FlowInv, Stands
<1>2. PollFSM \in {"WAIT", "DONE"}
  BY <1>1 DEF NoticeInv
<1>3. reads = {} /\ ~c0 /\ ~RdHdr_valid_q /\ ~RdEn
  BY <1>1, <1>2 DEF ReadInv, RdEn
<1>4. ~RdHdr_valid_q' /\ ~c0' /\ reads' = {}
  BY <1>3, QuietReads DEF RdHdr_valid
<1>5. told /\ ~test_stop /\ ~Over
  BY <1>1 DEF NoticeInv, StopInv
<1>6. re2xy_go
  BY <1>1, <1>5, RunStates DEF Cleared, Over
<1>7. ~Over' /\ re2xy_go'
  BY <1>5, <1>6, NotOver
<1>8. /\ RdFSM' = IF swlines = 0 THEN "DONE" ELSE "READ"
      /\ RdAddr' = 0 /\ Num_RdReqs' = 1
  <2>1. /\ ReadFsm(swcfg.method, swlines, RdHdr_valid(RdEn, c0Hold))
        /\ CountReads(RdHdr_valid(RdEn, c0Hold))
    BY EngineStep
  <2>2. RdFSM' = RdNext(swlines, RdHdr_valid(RdEn, c0Hold))
    BY <2>1 DEF ReadFsm
  <2>3. RdFSM' = IF swlines = 0 THEN "DONE" ELSE "READ"
    BY <2>2 DEF RdNext
  <2>4. RdAddr' = 0
    <3>1. ~(swcfg.method = "poll" /\ PollFSM = "WAIT")
      BY <1>1 DEF NoticeInv
    <3> QED BY <2>1, <3>1 DEF ReadFsm
  <2> QED BY <2>1, <2>3, <2>4 DEF CountReads
<1>9. Num_RdRsp' = 0
  <2>1. Answer(a).valid = FALSE
    BY <1>3 DEF Answer, NoRsp
  <2> QED BY <2>1, EngineStep DEF CountRsp
<1>10. CASE swlines = 0
  BY <1>1, <1>3, <1>4, <1>5, <1>8, <1>10 DEF ReadInv, Reads, Asked
<1>11. CASE swlines # 0
  <2>1. Cardinality(reads') = 0
    BY <1>4, FS_EmptySet
  <2>2. One(c0)' = 0 /\ One(RdHdr_valid_q)' = 0
    BY <1>4 DEF One
  <2>3. Asked' = 0 /\ RdFSM' = "READ"
    BY <1>8, <1>11 DEF Asked
  <2>4. ReadInv'
    BY <1>1, <1>4, <1>7, <1>8, <1>9, <1>11, <2>1, <2>2, <2>3 DEF ReadInv, Reads
  <2> QED BY <1>3, <1>5, <2>3, <2>4
<1> QED BY <1>10, <1>11

(* Until then the only read is that of a poll.                             *)
LEMMA PollingStep ==
  ASSUME SafeInv, Stands, RdFSM = "WAIT", ~rd_go,
         NEW copies, NEW mmio, NEW u, NEW c0Hold, NEW c1Hold, NEW i, NEW a,
         StepOf(copies, mmio, u, c0Hold, c1Hold, i, a)
  PROVE  ReadInv' /\ RdFSM' = "WAIT"
<1> DEFINE s == RdHdr_valid(RdEn, c0Hold)
           rsp == Answer(a)
<1>1. /\ NoticeInv /\ ReadInv /\ CtlTypes /\ EngineTypes /\ MemTypes
      /\ swlines' = swlines
  BY DEF SafeInv, FlowInv, Stands
<1>2. /\ RdFSM' = "WAIT"
      /\ Notice(swcfg.method, s, rsp, csr_write, u)
      /\ RdHdr_valid_q' = s /\ RdAddr_q' = (IF s THEN RdAddr ELSE 0)
      /\ c0' = (re2xy_go /\ RdHdr_valid_q) /\ c0addr' = RdAddr_q
      /\ reads' = (reads \ {a}) \cup (IF c0 THEN {c0addr} ELSE {})
  BY EngineStep, ZenonT(60) DEF ReadFsm, RdNext
<1>3. CASE swcfg.method # "poll"
  <2>1. PollFSM = "WAIT" /\ PollFSM' = "WAIT" /\ ~s
    BY <1>1, <1>2, <1>3 DEF NoticeInv, Notice, RdHdr_valid, RdEn
  <2>2. ~RdHdr_valid_q' /\ ~c0' /\ reads' = {}
    BY <1>1, <2>1, QuietReads DEF ReadInv
  <2> QED BY <1>2, <2>1, <2>2 DEF ReadInv, Reads
<1>4. CASE swcfg.method = "poll"
  <2>1. PollFsm(s, rsp) /\ PollFSM \in {"WAIT", "READ", "RESP"}
    BY <1>1, <1>2, <1>4 DEF NoticeInv, Notice, EngineTypes
  <2>2. CASE PollFSM = "WAIT"
    <3>1. ~s /\ PollFSM' # "RESP"
      BY <2>1, <2>2 DEF PollFsm, RdHdr_valid, RdEn
    <3>2. ~RdHdr_valid_q' /\ ~c0' /\ reads' = {}
      BY <1>1, <2>2, <3>1, QuietReads DEF ReadInv
    <3> QED BY <1>2, <3>1, <3>2 DEF ReadInv, Reads
  <2>3. CASE PollFSM = "READ"
    <3>1. ~RdHdr_valid_q /\ ~c0 /\ reads = {} /\ RdAddr = swlines
      BY <1>1, <2>3 DEF ReadInv, NoticeInv
    <3>2. ~c0' /\ reads' = {} /\ (s <=> PollFSM' = "RESP")
      BY <1>2, <2>1, <2>3, <3>1 DEF PollFsm
    <3> QED BY <1>1, <1>2, <3>1, <3>2 DEF ReadInv, Reads
  <2>4. CASE PollFSM = "RESP"
    <3>1. ~s
      BY <2>4 DEF RdHdr_valid, RdEn
    <3>2. /\ RdHdr_valid_q => RdAddr_q = swlines /\ ~c0 /\ reads = {}
          /\ c0 => c0addr = swlines /\ reads = {}
          /\ reads \subseteq {swlines}
      BY <1>1, <2>4 DEF ReadInv
    <3>3. CASE a \in reads
      <4>1. ~RdHdr_valid_q /\ ~c0 /\ reads \ {a} = {}
        BY <3>2, <3>3
      <4>2. rsp.valid = TRUE
        BY <3>3 DEF Answer
      <4>3. PollFSM' # "RESP"
        BY <2>1, <2>4, <4>2 DEF PollFsm, AfterMiss
      <4> QED BY <1>2, <3>1, <4>1, <4>3 DEF ReadInv, Reads
    <3>4. CASE a \notin reads
      <4>1. rsp.valid = FALSE
        BY <3>4 DEF Answer, NoRsp
      <4>2. PollFSM' = "RESP"
        BY <2>1, <2>4, <4>1 DEF PollFsm
      <4>3. reads' = reads \cup (IF c0 THEN {c0addr} ELSE {})
        BY <1>2, <3>4
      <4> QED BY <1>1, <1>2, <3>1, <3>2, <4>2, <4>3 DEF ReadInv, Reads
    <3> QED BY <3>3, <3>4
  <2> QED BY <2>1, <2>2, <2>3, <2>4
<1> QED BY <1>2, <1>3, <1>4

(* Once all lines are read, nothing is.                                    *)
LEMMA DoneStep ==
  ASSUME SafeInv, Stands, RdFSM = "DONE",
         NEW copies, NEW mmio, NEW u, NEW c0Hold, NEW c1Hold, NEW i, NEW a,
         StepOf(copies, mmio, u, c0Hold, c1Hold, i, a)
  PROVE  ReadInv' /\ RdFSM' = "DONE" /\ ~RdHdr_valid_q' /\ ~c0' /\ reads' = {}
         /\ Asked' = Asked
<1>1. NoticeInv /\ ReadInv /\ swlines' = swlines
  BY DEF SafeInv, Stands
<1>2. PollFSM \in {"WAIT", "DONE"}
  BY <1>1 DEF NoticeInv
<1>3. ~RdHdr_valid(RdEn, c0Hold)
  BY <1>2 DEF RdHdr_valid, RdEn
<1>4. ~RdHdr_valid_q' /\ ~c0' /\ reads' = {}
  BY <1>1, <1>3, QuietReads DEF ReadInv
<1>5. RdFSM' = "DONE"
  BY EngineStep DEF ReadFsm, RdNext
<1> QED BY <1>1, <1>4, <1>5 DEF ReadInv, Reads, Asked

LEMMA ReadInvStep ==
  ASSUME SafeInv, NEW copies, NEW mmio, NEW u, NEW c0Hold, NEW c1Hold, NEW i, NEW a,
         StepOf(copies, mmio, u, c0Hold, c1Hold, i, a)
  PROVE  ReadInv'
<1>1. CASE Cleared' /\ Still'
  BY <1>1 DEF Cleared, Still, ReadInv, Reads
<1>2. CASE Stands
  <2>1. RdFSM \in {"WAIT", "READ", "RESP", "DONE"} /\ rd_go \in BOOLEAN
    BY DEF SafeInv, FlowInv, EngineTypes
  <2> QED BY <1>2, <2>1, NoticedStep, PollingStep, ReadingStep, DoneStep DEF Reads
<1> QED BY <1>1, <1>2, Phases

-----------------------------------------------------------------------------
(***************************************************************************)
(* The invariant.                                                          *)
(***************************************************************************)
LEMMA SafeInit ==
  ASSUME Init
  PROVE  SafeInv
<1>1. /\ wr_T1 = NoWrite /\ csr = Defaults /\ csr_write = FALSE /\ re2cr_wrlock_n = FALSE
      /\ sw = "off" /\ swcfg = DefaultCfg /\ swlines = 0
      /\ ReInit(DefaultCfg) /\ Sw1Init /\ TxQ!Init
      /\ posted = <<>> /\ reads = {} /\ dst = Prepared(0) /\ src = Prepared(0)
      /\ dsm = FALSE /\ copied = 0 /\ told = FALSE /\ message = NoMessage
  BY DEF Init, CsrInit, FlowInit
<1>2. wr_T1 # Message /\ \A reg : ~Carries(reg)
  BY <1>1, NoWriteAssumption DEF Carries
<1>3. /\ q = <<>> /\ head = TxQ!HeadOf(q) /\ head = NoItem /\ out = <<NoItem, NoItem>>
  BY <1>1 DEF TxQ!Init, TxQ!Outputs, TxQ!HeadOf
<1>4. Len(Sent) = 0 /\ Sent = <<>>
  BY <1>1 DEF Sent, ReInit
<1>5. Cleared
  BY <1>1, <1>3 DEF Cleared, Empty, ReInit, Sw1Init
<1>6. Still
  BY <1>1, <1>2, <1>4 DEF Still, ReInit
<1>7. CsrTypes
  BY <1>1 DEF CsrTypes, Defaults, AllCfgs, AllLines, CsrWrites
<1>8. CtlTypes
  BY <1>1 DEF CtlTypes, ReInit, AllCfgs, AllLines, Sw1Init
<1>9. EngineTypes
  <2>1. /\ WrFSM = "WAIT" /\ RdFSM = "WAIT" /\ PollFSM = "WAIT" /\ WrAddr = 0 /\ Num_RdRsp = 0
        /\ rd_go = FALSE /\ ErrorValid = FALSE /\ s12ab_TestCmp = FALSE
    BY <1>1 DEF Sw1Init
  <2>2. rd_go \in BOOLEAN /\ ErrorValid \in BOOLEAN /\ s12ab_TestCmp \in BOOLEAN
    BY <2>1
  <2> QED BY <1>1, <2>1, <2>2 DEF EngineTypes
<1>10. MemTypes
  <2>1. dst = [a \in 0 .. 0 |-> Blank] /\ src = [a \in 0 .. 0 |-> Blank]
    BY <1>1 DEF Prepared
  <2>2. IsFiniteSet(reads)
    BY <1>1, FS_EmptySet
  <2> QED BY <1>1, <2>1, <2>2, ContentsAssumption DEF MemTypes
<1>11. CtlFlow /\ LockFlow /\ ResetFlow
  BY <1>1, <1>2 DEF CtlFlow, CtlOf, Defaults, Pending, LockFlow, ResetFlow, ReInit
<1>12. StartFlow
  BY <1>1, <1>6 DEF StartFlow, Before
<1>13. DsmFlow
  <2>1. ~In(posted, Dsm)
    BY <1>1 DEF In
  <2>2. c1 = NoItem /\ send_interrupt = FALSE
    BY <1>1 DEF ReInit
  <2>3. c1 # Dsm
    BY <2>2, MessagesApart DEF Messages
  <2> QED BY <1>1, <2>1, <2>2, <2>3 DEF DsmFlow
<1>14. ChoiceFlow
  BY <1>1, <1>2 DEF ChoiceFlow, Defaults, ReInit
<1>15. PipeTypes
  <2>1. /\ AlmFull_T1 = FALSE /\ WrHdr_valid_T2 = FALSE /\ wr_T3 = NoItem /\ wr_T4 = NoItem
        /\ c1 = NoItem
    BY <1>1 DEF ReInit
  <2>2. q \in Seq(Requests) /\ posted \in Seq(Messages) /\ Len(q) = 0
    BY <1>1, <1>3
  <2>3. NoItem \in Stage
    BY DEF Stage
  <2>4. out \in Stage \X Stage
    BY <1>3, <2>3
  <2>5. Len(q) <= TxCap
    BY <2>2, SizesAssumption
  <2> QED BY <1>3, <2>1, <2>2, <2>3, <2>4, <2>5 DEF PipeTypes
<1>16. ~Running
  BY <1>1 DEF Running, ReInit
<1>17. SentInv
  <2>1. dst[swlines] # Flag
    BY <1>1, ContentsAssumption DEF Prepared
  <2> QED BY <1>4, <1>16, <2>1 DEF SentInv, Kept, FencedOff, In, DataBeforeFlag
<1>18. FlagInv
  BY <1>1, <1>3, <1>5 DEF FlagInv, Cleared, Empty
<1>19. StopInv /\ NoticeInv /\ ReadInv
  BY <1>1, <1>2, <1>5, <1>6 DEF StopInv, NoticeInv, ReadInv, Cleared, Still, Over, Reads
<1> QED BY <1>7, <1>8, <1>9, <1>10, <1>11, <1>12, <1>13, <1>14, <1>15, <1>16, <1>17, <1>18, <1>19
        DEF SafeInv, FlowInv

LEMMA SafeStep ==
  ASSUME SafeInv, [Next]_vars
  PROVE  SafeInv'
<1>1. CASE Next
  <2>1. PICK copies, mmio, u, c0Hold, c1Hold, i, a : StepOf(copies, mmio, u, c0Hold, c1Hold, i, a)
    BY <1>1, NextSteps
  <2>2. FlowInv' /\ PipeTypes' /\ SentInv' /\ FlagInv'
    BY <2>1, FlowInvStep, SentInvStep, FlagInvStep
  <2>3. StopInv' /\ NoticeInv' /\ ReadInv' /\ (Running' => ChainInv')
    BY <2>1, StopInvStep, NoticeInvStep, ReadInvStep, ChainInvStep
  <2> QED BY <2>2, <2>3 DEF SafeInv
<1>2. CASE UNCHANGED vars
  <2>1. UNCHANGED <<wr_T1, csr, csr_write, re2cr_wrlock_n, sw, swcfg, swlines, q, head, out,
                    RdAddr_q, c0addr, posted, reads, dst, src, dsm, copied, told, message>>
    BY <1>2 DEF vars, csrVars, swVars, memVars
  <2>2. UNCHANGED <<reRegs, reCtl, rePipe, sw1Vars>>
    BY <1>2 DEF vars, reVars
  <2> USE <2>1, <2>2 DEF reRegs, reCtl, rePipe, sw1Vars
  <2>3. FlowInv'
    <3>1. CsrTypes' /\ CtlTypes' /\ EngineTypes' /\ MemTypes'
      BY DEF SafeInv, FlowInv, CsrTypes, CtlTypes, EngineTypes, MemTypes
    <3>2. CtlFlow' /\ LockFlow' /\ ResetFlow' /\ ChoiceFlow' /\ DsmFlow'
      BY DEF SafeInv, FlowInv, CtlFlow, LockFlow, ResetFlow, ChoiceFlow, DsmFlow, Pending, Carries, In
    <3>3. StartFlow'
      BY DEF SafeInv, FlowInv, StartFlow, Before, Still, Cleared, Empty, Sent, Pending, Carries
    <3> QED BY <3>1, <3>2, <3>3 DEF FlowInv
  <2>4. PipeTypes'
    BY DEF SafeInv, PipeTypes, TxQ!HeadOf
  <2>5. Running' => ChainInv'
    BY DEF SafeInv, Running, ChainInv, atQ, atO1, atO2, atT3, atT4, Place, Carried, First, Item
  <2>6. SentInv' /\ FlagInv'
    <3>1. Sent' = Sent /\ atT4' = atT4 /\ Running' = Running /\ TheFlag' = TheFlag /\ Flagged' = Flagged
      BY DEF Sent, atQ, atO1, atO2, atT3, atT4, Place, First, Running, TheFlag, Item, Flagged, In
    <3>2. \A k : Item(k)' = Item(k)
      BY DEF Item
    <3> QED BY <3>1, <3>2 DEF SafeInv, SentInv, FlagInv, Kept, FencedOff, In, Line, Covered,
               Delivered, DataBeforeFlag, First
  <2>7. StopInv' /\ NoticeInv' /\ ReadInv'
    BY DEF SafeInv, StopInv, NoticeInv, ReadInv, Over, Reads, Asked
  <2> QED BY <2>3, <2>4, <2>5, <2>6, <2>7 DEF SafeInv
<1> QED BY <1>1, <1>2

LEMMA SafeInvariant == Spec => []SafeInv
BY SafeInit, SafeStep, PTL DEF Spec

-----------------------------------------------------------------------------
(***************************************************************************)
(* The machines of the engine, the queue and the addresses of the reads    *)
(* and of the copy keep to their ranges (test_sw1.sv, requestor.sv).       *)
(***************************************************************************)
THEOREM Sw1Types == Spec => []TypeOK
<1>1. SafeInv => TypeOK
  BY DEF SafeInv, FlowInv, EngineTypes, MemTypes, PipeTypes, TypeOK
<1> QED BY <1>1, SafeInvariant, PTL

(***************************************************************************)
(* "Fence- guarantees data is written": for every number of lines, depth   *)
(* of the queue and order in which memory carries out what no fence        *)
(* separates, whoever sees the flag sees every line of this run.           *)
(***************************************************************************)
THEOREM Sw1DataBeforeFlag == Spec => []DataBeforeFlag
<1>1. SafeInv => DataBeforeFlag
  BY DEF SafeInv, SentInv
<1> QED BY <1>1, SafeInvariant, PTL

(***************************************************************************)
(* The count the reading of lines ends on is that of lines: with every     *)
(* method of giving notice, the answer of a poll never comes after the     *)
(* notice it brought (test_sw1's Num_RdRsp counts every response).         *)
(***************************************************************************)
THEOREM Sw1CountsLines == Spec => []CountsLines
<1>1. ASSUME SafeInv PROVE CountsLines
  <2>1. FlowInv /\ ReadInv /\ EngineTypes /\ MemTypes /\ swlines \in Nat
    BY <1>1, RunStates DEF SafeInv, FlowInv
  <2>2. SUFFICES ASSUME Reads PROVE CountsLines
    BY DEF CountsLines, Reads
  <2>3. re2xy_NumLines = swlines
    BY <2>1, <2>2, RunStates DEF ReadInv
  <2>4. Asked \in 0 .. swlines
    BY <2>1, <2>2, ReadFacts
  <2>5. reads \subseteq Lines(swlines)
    <3>1. \A b \in reads : b < Asked - One(RdHdr_valid_q) - One(c0) /\ b \in 0 .. swlines
      BY <2>1, <2>2 DEF ReadInv, MemTypes
    <3>2. One(RdHdr_valid_q) \in {0, 1} /\ One(c0) \in {0, 1}
      BY DEF One
    <3> QED BY <2>1, <2>4, <3>1, <3>2 DEF Lines
  <2>6. Num_RdRsp + Cardinality(reads) + One(c0) + One(RdHdr_valid_q) = Asked
    BY <2>1, <2>2 DEF ReadInv
  <2> QED BY <2>3, <2>5, <2>6 DEF CountsLines, Asked
<1> QED BY <1>1, SafeInvariant, PTL

-----------------------------------------------------------------------------
(***************************************************************************)
(* What the status line reports, if the software forces no end of a test   *)
(* that is not over: the check of a line answered is in the error bit, in  *)
(* the engine's flag behind it, or about to be made.                       *)
(***************************************************************************)
TruthfulInv == SafeInv /\ TruthInv /\ ForceInv

badRsp == checking /\ RdRsp_q.data # RdRsp_q.addr

LEMMA ForceInvStep ==
  ASSUME SafeInv, ForceInv, ~Forces,
         NEW copies, NEW mmio, NEW u, NEW c0Hold, NEW c1Hold, NEW i, NEW a,
         StepOf(copies, mmio, u, c0Hold, c1Hold, i, a)
  PROVE  ForceInv'
<1>1. FlowInv /\ StopInv /\ ResetFlow /\ CtlTypes
  BY DEF SafeInv, FlowInv
<1>2. sw' = "force" => status_write'
  <2>1. SUFFICES ASSUME sw' = "force" PROVE status_write'
    OBVIOUS
  <2>2. sw = "force" \/ (sw = "run" /\ RunOver)
    BY <2>1, FlowMoves
  <2>3. status_write /\ test_Reset_n
    BY <1>1, <2>2, FinishedRun DEF ForceInv, ResetFlow
  <2> QED BY <1>1, <2>3, ControlStep
<1>3. ~test_stop'
  <2>1. CASE Cleared' /\ Still'
    BY <2>1 DEF Cleared
  <2>2. CASE Stands
    <3>1. /\ sw \in {"off", "run", "force"} /\ test_Reset_n
          /\ ClkControl(csr.CTL, s12ab_TestCmp, ErrorValid, FALSE)
      BY <2>2, EngineStep DEF Stands
    <3>2. ~stopsHere
      <4>1. SUFFICES ASSUME test_cmplt, wr_T4 # NoItem PROVE FALSE
        BY <1>1 DEF stopsHere, packetEnds, CtlTypes
      <4>2. ~told /\ ~status_write
        BY <4>1, StillGoing DEF ForceInv, Over
      <4> QED BY <1>1, <3>1, <4>1, <4>2 DEF ForceInv, ResetFlow, StopInv
    <3> QED BY <3>1, <3>2 DEF ForceInv, ClkControl
  <2> QED BY <2>1, <2>2, Phases
<1> QED BY <1>2, <1>3 DEF ForceInv

(* A line is answered when the read of it is.                              *)
LEMMA AnsweredStep ==
  ASSUME SafeInv, Stands, Reads, NEW x,
         NEW copies, NEW mmio, NEW u, NEW c0Hold, NEW c1Hold, NEW i, NEW a,
         StepOf(copies, mmio, u, c0Hold, c1Hold, i, a)
  PROVE  Answered(x)' <=> Answered(x) \/ (x = a /\ a \in reads)
<1> DEFINE s == RdHdr_valid(RdEn, c0Hold)
<1>1. /\ ReadInv /\ ReadInv' /\ FlowInv /\ CtlTypes /\ MemTypes /\ EngineTypes
      /\ swlines' = swlines /\ swlines \in Nat
  BY ReadInvStep, RunStates DEF SafeInv, FlowInv, Stands
<1>2. /\ RdHdr_valid_q' = s /\ c0' = (re2xy_go /\ RdHdr_valid_q) /\ c0addr' = RdAddr_q
      /\ reads' = (reads \ {a}) \cup (IF c0 THEN {c0addr} ELSE {})
      /\ a \in {-1} \cup reads
  BY EngineStep
<1>3. Asked \in 0 .. swlines /\ reads \subseteq Nat
  BY <1>1, ReadFacts DEF MemTypes
<1>4. /\ re2xy_go
      /\ RdHdr_valid_q => RdAddr_q = Asked - 1
      /\ c0 => c0addr = Asked - 1 - One(RdHdr_valid_q)
      /\ \A b \in reads : b < Asked - One(RdHdr_valid_q) - One(c0)
  BY <1>1 DEF ReadInv
<1>5. /\ One(c0) = (IF c0 THEN 1 ELSE 0) /\ One(c0) \in {0, 1}
      /\ One(RdHdr_valid_q) = (IF RdHdr_valid_q THEN 1 ELSE 0) /\ One(RdHdr_valid_q) \in {0, 1}
  BY DEF One
<1>6. c0' <=> RdHdr_valid_q
  BY <1>1, <1>2, <1>4 DEF CtlTypes
<1>7. x \notin reads' <=> (x \notin reads \/ x = a) /\ ~(c0 /\ c0addr = x)
  BY <1>2
<1>8. x = a /\ a \in reads =>
        /\ x \in Lines(Asked) /\ ~(c0 /\ c0addr = x) /\ ~(RdHdr_valid_q /\ RdAddr_q = x)
  <2>1. SUFFICES ASSUME x = a, a \in reads
                 PROVE  /\ x \in Lines(Asked) /\ ~(c0 /\ c0addr = x)
                        /\ ~(RdHdr_valid_q /\ RdAddr_q = x)
    OBVIOUS
  <2>2. x \in Nat /\ x < Asked - One(RdHdr_valid_q) - One(c0)
    BY <1>3, <1>4, <2>1
  <2>3. x \in Lines(Asked)
    BY <1>3, <1>5, <2>2 DEF Lines
  <2>4. ~(c0 /\ c0addr = x)
    <3>1. c0 => One(c0) = 1
      BY <1>5
    <3>2. c0 => x < Asked - One(RdHdr_valid_q) - 1
      BY <2>2, <3>1
    <3> QED BY <1>3, <1>4, <1>5, <2>2, <3>2
  <2>5. ~(RdHdr_valid_q /\ RdAddr_q = x)
    BY <1>3, <1>4, <1>5, <2>2
  <2> QED BY <2>3, <2>4, <2>5
<1>9. x = a /\ a \notin reads => x \notin Lines(swlines)
  BY <1>1, <1>2 DEF Lines
<1>10. x \in Lines(Asked) => x \in Lines(swlines)
  BY <1>1, <1>3 DEF Lines
<1>11. CASE RdFSM' = "DONE"
  <2>1. Asked = swlines /\ reads = {} /\ ~c0 /\ ~RdHdr_valid_q
    BY <1>11, ReadingStep
  <2>2. reads' = {} /\ ~c0' /\ ~RdHdr_valid_q' /\ Asked' = swlines
    BY <1>1, <1>11 DEF ReadInv, Asked
  <2> QED BY <2>1, <2>2 DEF Answered
<1>12. CASE RdFSM' # "DONE"
  <2>1. Asked' = Asked + One(RdHdr_valid_q') /\ Reads'
    BY <1>1, <1>12, EngineTypesStep, ReadingStep DEF Reads, EngineTypes
  <2>2. RdHdr_valid_q' => RdAddr_q' = Asked' - 1
    BY <1>1, <2>1 DEF ReadInv
  <2>3. x \in Lines(Asked') /\ ~(RdHdr_valid_q' /\ RdAddr_q' = x) <=> x \in Lines(Asked)
    <3>1. CASE RdHdr_valid_q'
      <4>1. Asked' = Asked + 1 /\ RdAddr_q' = Asked
        BY <1>3, <2>1, <2>2, <3>1 DEF One
      <4> QED BY <1>3, <3>1, <4>1 DEF Lines
    <3>2. CASE ~RdHdr_valid_q'
      <4>1. Asked' = Asked
        BY <1>3, <2>1, <3>2 DEF One
      <4> QED BY <3>2, <4>1
    <3> QED BY <3>1, <3>2
  <2>4. Answered(x)' <=> /\ x \in Lines(Asked') /\ x \notin reads'
                         /\ ~(c0' /\ c0addr' = x) /\ ~(RdHdr_valid_q' /\ RdAddr_q' = x)
    BY DEF Answered, Lines
  <2>5. ~(c0' /\ c0addr' = x) <=> ~(RdHdr_valid_q /\ RdAddr_q = x)
    BY <1>2, <1>6
  <2> HIDE DEF s
  <2> QED BY <1>7, <1>8, <1>9, <1>10, <2>3, <2>4, <2>5 DEF Answered
<1> QED BY <1>11, <1>12

(* What is wrong with the lines answered, and what has been found of it.   *)
LEMMA WrongStep ==
  ASSUME SafeInv, TruthInv, Stands, RdFSM # "WAIT",
         NEW copies, NEW mmio, NEW u, NEW c0Hold, NEW c1Hold, NEW i, NEW a,
         StepOf(copies, mmio, u, c0Hold, c1Hold, i, a)
  PROVE  Wrong' <=> error' \/ ErrorValid' \/ badRsp'
<1>1. /\ NoticeInv /\ ReadInv /\ FlowInv /\ CtlTypes /\ EngineTypes /\ MemTypes
      /\ swlines' = swlines /\ swlines \in Nat /\ test_Reset_n /\ ~prepares
  BY RunStates DEF SafeInv, FlowInv, Stands
<1>2. /\ ErrorValid' = IF checking THEN RdRsp_q.data # RdRsp_q.addr ELSE ErrorValid
      /\ RdRsp_q' = Answer(a)
      /\ ClkControl(csr.CTL, s12ab_TestCmp, ErrorValid, FALSE)
      /\ a \in {-1} \cup reads
  BY EngineStep DEF Check
<1>3. error' \/ ErrorValid' <=> error \/ ErrorValid \/ badRsp
  BY <1>1, <1>2 DEF ClkControl, badRsp
<1>4. Wrong <=> error \/ ErrorValid \/ badRsp
  BY DEF TruthInv, badRsp
<1>5. src' = src
  BY <1>1, NoticeMoves DEF NoticeInv
<1>6. CASE Reads
  <2>1. badRsp' <=> RdFSM' # "DONE" /\ a \in reads /\ src[a] # a
    <3>1. RdFSM' # "WAIT" /\ EngineTypes'
      BY <1>6, ReadingStep, EngineTypesStep
    <3>2. checking' <=> RdRsp_q'.valid = TRUE /\ RdFSM' # "DONE"
      <4>1. RdRsp_q'.valid \in BOOLEAN
        BY <1>2 DEF Answer, NoRsp
      <4> QED BY <3>1, <4>1 DEF checking, EngineTypes
    <3>3. CASE a \in reads
      <4>1. RdRsp_q'.valid = TRUE /\ RdRsp_q'.data = src[a] /\ RdRsp_q'.addr = a
        BY <1>2, <3>3 DEF Answer
      <4> QED BY <3>2, <3>3, <4>1 DEF badRsp
    <3>4. CASE a \notin reads
      <4>1. RdRsp_q'.valid = FALSE
        BY <1>2, <3>4 DEF Answer, NoRsp
      <4> QED BY <3>2, <3>4, <4>1 DEF badRsp
    <3> QED BY <3>3, <3>4
  <2>2. RdFSM' = "DONE" => a \notin reads
    BY <1>6, ReadingStep
  <2>3. a \in reads => a \in Lines(swlines)
    <3>1. SUFFICES ASSUME a \in reads PROVE a \in Lines(swlines)
      OBVIOUS
    <3>2. /\ a \in Nat /\ Asked \in 0 .. swlines
          /\ a < Asked - One(RdHdr_valid_q) - One(c0)
      <4>1. Asked \in 0 .. swlines
        BY <1>1, <1>6, ReadFacts
      <4>2. a < Asked - One(RdHdr_valid_q) - One(c0)
        BY <1>1, <1>6, <3>1 DEF ReadInv
      <4> QED BY <1>1, <3>1, <4>1, <4>2 DEF MemTypes
    <3>3. One(RdHdr_valid_q) \in {0, 1} /\ One(c0) \in {0, 1}
      BY DEF One
    <3> QED BY <1>1, <3>2, <3>3 DEF Lines
  <2>4. \A x : Answered(x)' <=> Answered(x) \/ (x = a /\ a \in reads)
    BY <1>6, AnsweredStep
  <2>5. Wrong' <=> \E x \in Lines(swlines) : (Answered(x) \/ (x = a /\ a \in reads)) /\ src[x] # x
    BY <1>1, <1>5, <2>4 DEF Wrong, Lines
  <2>6. Wrong' <=> Wrong \/ (a \in reads /\ src[a] # a)
    BY <2>3, <2>5 DEF Wrong
  <2> QED BY <1>3, <1>4, <2>1, <2>2, <2>6
<1>7. CASE RdFSM = "DONE"
  <2>1. /\ ~RdHdr_valid_q' /\ ~c0' /\ reads' = {} /\ Asked' = Asked /\ RdFSM' = "DONE"
        /\ ~RdHdr_valid_q /\ ~c0 /\ reads = {}
    BY <1>1, <1>7, DoneStep DEF ReadInv
  <2>2. \A x : Answered(x)' <=> Answered(x)
    BY <2>1 DEF Answered, Lines
  <2>3. Wrong' <=> Wrong
    BY <1>1, <1>5, <2>2 DEF Wrong, Lines
  <2>4. ~badRsp' /\ ~badRsp
    BY <1>7, <2>1 DEF badRsp, checking
  <2> QED BY <1>3, <1>4, <2>3, <2>4
<1> QED BY <1>1, <1>6, <1>7 DEF EngineTypes, Reads

LEMMA TruthInvStep ==
  ASSUME TruthfulInv, ~Forces,
         NEW copies, NEW mmio, NEW u, NEW c0Hold, NEW c1Hold, NEW i, NEW a,
         StepOf(copies, mmio, u, c0Hold, c1Hold, i, a)
  PROVE  TruthInv'
<1>1. SafeInv /\ TruthInv /\ ForceInv /\ FlowInv /\ StopInv /\ EngineTypes /\ CtlTypes
  BY DEF TruthfulInv, SafeInv, FlowInv
<1>2. CASE Cleared' /\ Still'
  BY <1>2 DEF Cleared, TruthInv
<1>3. CASE Stands
  <2>1. /\ ErrorValid' = IF checking THEN RdRsp_q.data # RdRsp_q.addr ELSE ErrorValid
        /\ RdRsp_q' = Answer(a)
        /\ s12ab_TestCmp' = (WrFSM = "DONE" /\ RdFSM = "DONE")
        /\ ClkControl(csr.CTL, s12ab_TestCmp, ErrorValid, FALSE) /\ WrData_dsm' = error
        /\ test_Reset_n
    BY <1>3, EngineStep DEF Check, Stands
  <2>2. error' <=> error \/ ErrorValid
    BY <1>1, <2>1 DEF ClkControl, CtlTypes, EngineTypes
  <2>3. s12ab_TestCmp' => (ErrorValid' => error')
    BY <2>1, <2>2 DEF checking
  <2>4. s12ab_TestCmp => s12ab_TestCmp' /\ (WrData_dsm' <=> error')
    <3>1. SUFFICES ASSUME s12ab_TestCmp PROVE s12ab_TestCmp' /\ (WrData_dsm' <=> error')
      OBVIOUS
    <3>2. WrFSM = "DONE" /\ RdFSM = "DONE"
      BY <1>1, <3>1 DEF StopInv, ForceInv, Over
    <3>3. error' <=> error
      BY <1>1, <2>2, <3>1 DEF TruthInv
    <3> QED BY <2>1, <3>2, <3>3
  <2>5. dsm_status_wren' \/ WrFence_sent' => s12ab_TestCmp
    BY <1>1, <2>1 DEF ClkControl, sendsFence, TruthInv, ForceInv
  <2>6. CASE RdFSM # "WAIT"
    <3>1. Wrong' <=> error' \/ ErrorValid' \/ badRsp'
      BY <1>1, <1>3, <2>6, WrongStep
    <3>2. RdFSM' # "WAIT"
      BY <2>6, <1>1, <1>3, ReadingStep, DoneStep DEF Reads, EngineTypes
    <3> QED BY <2>3, <2>4, <2>5, <3>1, <3>2 DEF TruthInv, badRsp
  <2>7. CASE RdFSM = "WAIT" /\ ~rd_go
    <3>1. RdFSM' = "WAIT" /\ ~checking
      BY <1>1, <1>3, <2>7, PollingStep DEF checking
    <3>2. ~error' /\ ~ErrorValid'
      BY <1>1, <2>1, <2>2, <2>7, <3>1 DEF TruthInv
    <3> QED BY <2>3, <2>4, <2>5, <3>1, <3>2 DEF TruthInv
  <2>8. CASE RdFSM = "WAIT" /\ rd_go
    <3>1. /\ RdFSM' \in {"READ", "DONE"} /\ Asked' = 0 /\ reads = {}
      BY <1>1, <1>3, <2>8, NoticedStep
    <3>2. ~error' /\ ~ErrorValid'
      BY <1>1, <2>1, <2>2, <2>8 DEF TruthInv, checking
    <3>3. ~badRsp'
      <4>1. RdRsp_q'.valid = FALSE
        BY <2>1, <3>1 DEF Answer, NoRsp
      <4> QED BY <4>1 DEF badRsp, checking
    <3>4. ~Wrong'
      BY <3>1 DEF Wrong, Answered, Lines
    <3> QED BY <2>3, <2>4, <2>5, <3>1, <3>2, <3>3, <3>4 DEF TruthInv, badRsp
  <2> QED BY <1>1, <2>6, <2>7, <2>8
<1> QED BY <1>1, <1>2, <1>3, Phases

LEMMA TruthfulInit ==
  ASSUME Init
  PROVE  TruthfulInv
<1>1. ReInit(DefaultCfg) /\ Sw1Init /\ sw = "off"
  BY DEF Init, FlowInit
<1> QED BY <1>1, SafeInit DEF TruthfulInv, TruthInv, ForceInv, ReInit, Sw1Init

LEMMA TruthfulStep ==
  ASSUME TruthfulInv, [Next]_vars, ~Forces
  PROVE  TruthfulInv'
<1>1. SafeInv'
  BY SafeStep DEF TruthfulInv
<1>2. CASE Next
  <2>1. PICK copies, mmio, u, c0Hold, c1Hold, i, a : StepOf(copies, mmio, u, c0Hold, c1Hold, i, a)
    BY <1>2, NextSteps
  <2> QED BY <1>1, <2>1, TruthInvStep, ForceInvStep DEF TruthfulInv
<1>3. CASE UNCHANGED vars
  <2>1. UNCHANGED <<swlines, sw, reads, src, c0addr, RdAddr_q>>
    BY <1>3 DEF vars, swVars, memVars
  <2>2. UNCHANGED <<reRegs, reCtl, rePipe, sw1Vars>>
    BY <1>3 DEF vars, reVars
  <2>3. Wrong' = Wrong /\ checking' = checking /\ RdRsp_q' = RdRsp_q
    BY <2>1, <2>2 DEF Wrong, Answered, Lines, Asked, checking, sw1Vars, rePipe
  <2> QED BY <1>1, <2>1, <2>2, <2>3 DEF TruthfulInv, TruthInv, ForceInv, reRegs, reCtl, sw1Vars
<1> QED BY <1>2, <1>3

(***************************************************************************)
(* The status line of a test whose end is not forced reports an error      *)
(* exactly if a line of the software's copy is wrong: the check of the     *)
(* last line, a clock behind the count that ends the test, is still in     *)
(* time (test_sw1's ErrorValid, requestor's error bits of the DSM write).  *)
(* A test forced before it is over reports what it has found so far, which *)
(* is why forcing is excluded here.                                        *)
(***************************************************************************)
THEOREM Sw1ReportsTruth == ASSUME ~Forces PROVE Spec => []ReportsTruth
<1>1. ASSUME TruthfulInv, sendsDsm, ~status_write
      PROVE  WrData_dsm <=> \E a \in Lines(swlines) : src[a] # a
  <2>1. SafeInv /\ TruthInv /\ ForceInv /\ StopInv /\ ReadInv
    BY <1>1 DEF TruthfulInv, SafeInv
  <2>2. s12ab_TestCmp /\ (WrData_dsm <=> error)
    BY <1>1, <2>1 DEF TruthInv, ForceInv, sendsDsm
  <2>3. RdFSM = "DONE"
    BY <2>1, <2>2 DEF StopInv, ForceInv, Over
  <2>4. Wrong <=> error
    BY <2>1, <2>2, <2>3 DEF TruthInv, checking
  <2>5. \A a \in Lines(swlines) : Answered(a)
    BY <2>1, <2>3 DEF Answered, Asked, ReadInv
  <2> QED BY <2>2, <2>4, <2>5 DEF Wrong
<1>2. TruthfulInv => ReportsTruth
  BY <1>1 DEF ReportsTruth
<1>3. Spec => []TruthfulInv
  <2>1. TruthfulInv /\ [Next]_vars => TruthfulInv'
    BY TruthfulStep
  <2> QED BY <2>1, TruthfulInit, PTL DEF Spec
<1> QED BY <1>2, <1>3, PTL
=============================================================================
