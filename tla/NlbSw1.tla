------------------------------- MODULE NlbSw1 -------------------------------
(***************************************************************************)
(* Runs of the SW1 test: the CSRs, the requestor, the engine test_sw1, the *)
(* write-request queue, memory that writes reach in any order a fence      *)
(* allows, and software that waits for the flag, copies the lines from the *)
(* engine's buffer (dst) to the one the engine reads (src) and gives       *)
(* notice by the configured method.  A step is one rising edge of Clk_400. *)
(***************************************************************************)
EXTENDS NlbFlow, Requestor, TestSw1, Integers, Sequences

CONSTANTS
  TxCap,      \* entries of the write-request queue
  Blank,      \* the contents of a line the software has prepared
  Garbage,    \* what a faulty copy leaves in a line
  Corrupts,   \* whether the software's copy may be faulty
  NoMessage   \* no UMsg is on its way

(* A line of ones, a prepared one and a spoilt one are told from all data. *)
ASSUME ContentsAssumption ==
  /\ Flag # Blank
  /\ \A n \in LineCounts : n \in Nat /\ {Flag, Blank, Garbage} \cap (0 .. n) = {}

ASSUME SizesAssumption == TxCap \in Nat \ {0}

(* The arbiter connects test_sw1 in mode SW1 only.                         *)
Methods == {"poll", "csr", "message", "hint"}
ASSUME ModesAssumption ==
  /\ \A c \in Configs : c.mode = "SW1" /\ c.method \in Methods
  /\ DefaultCfg.mode # "READ" /\ DefaultCfg.method \in Methods
ASSUME NoMessageAssumption == NoMessage \notin Methods

VARIABLES
  q, head, almFull, out,    \* the write-request queue
  RdAddr_q, c0addr,         \* the address of the read in RdHdr_valid_q, c0
  posted,                   \* writes and fences sent, not yet carried out
  reads,                    \* reads sent, not yet answered
  dst, src, dsm,            \* memory: both buffers, the status line
  copied, told,             \* lines the software has copied; it gave notice
  message                   \* the UMsg on its way

memVars == <<posted, reads, dst, src, dsm, copied, told, message>>
vars == <<csrVars, swVars, reVars, sw1Vars, q, head, almFull, out,
          RdAddr_q, c0addr, memVars>>

TxQ == INSTANCE TxQueue WITH Values <- {}, Cap <- TxCap, FullThresh <- TxCap

Message == CsrWrite("SWTEST_MSG", 0)
ASSUME NoWriteAssumption ==
  NoWrite \notin {Message} \cup [reg : {"CTL"}, val : SUBSET CtlBits]
                  \cup [reg : {"CFG"}, val : Configs] \cup [reg : {"LINES"}, val : LineCounts]
ASSUME NoItemAssumption ==
  NoItem \notin {Fence, Dsm, Intr}
    \cup [sop : {TRUE}, len : {0}, fence : BOOLEAN, addr : Nat, data : Nat \cup {Flag}]

Lines(n) == 0 .. n - 1
Prepared(n) == [a \in 0 .. n |-> Blank]

Init ==
  /\ CsrInit /\ ReInit(DefaultCfg) /\ Sw1Init /\ FlowInit
  /\ TxQ!Init
  /\ RdAddr_q = 0 /\ c0addr = 0
  /\ posted = <<>> /\ reads = {}
  /\ dst = Prepared(0) /\ src = Prepared(0) /\ dsm = FALSE
  /\ copied = 0 /\ told = FALSE /\ message = NoMessage

-----------------------------------------------------------------------------
(***************************************************************************)
(* Memory.  A write is carried out when no fence sent before it is left;   *)
(* a fence, when nothing before it is.                                     *)
(***************************************************************************)
IsFence(m) == m = Fence \/ (m \notin {Dsm, Intr} /\ m.fence)

Ready == {i \in 1 .. Len(posted) :
            /\ \A j \in 1 .. i - 1 : ~IsFence(posted[j])
            /\ IsFence(posted[i]) => i = 1}

Without(s, i) == [j \in 1 .. Len(s) - 1 |-> IF j < i THEN s[j] ELSE s[j + 1]]

(* The i-th posted request is carried out (none if i is 0), and what C1    *)
(* sends is posted.  Buffer and status line are prepared for each run.     *)
prepares == sw = "reset" /\ sw' = "lines"

Carry(i) ==
  LET w    == IF i = 0 THEN Fence ELSE posted[i]
      left == IF i = 0 THEN posted ELSE Without(posted, i)
  IN  /\ posted' = IF c1 = NoItem THEN left ELSE Append(left, c1)
      /\ dst' = IF prepares THEN Prepared(swlines')
                ELSE IF IsFence(w) \/ w \in {Dsm, Intr} THEN dst
                ELSE [dst EXCEPT ![w.addr] = w.data]
      /\ dsm' = (~prepares /\ (dsm \/ w = Dsm))

(* A read is answered with what memory holds when it is, or with nothing.  *)
Answer(a) == IF a \in reads THEN [valid |-> TRUE, addr |-> a, data |-> src[a]]
             ELSE NoRsp

Reading(a) == reads' = (reads \ {a}) \cup (IF c0 THEN {c0addr} ELSE {})

-----------------------------------------------------------------------------
(***************************************************************************)
(* The software.  Once it sees the flag it copies line by line, then gives *)
(* notice: a flag behind the lines, a CSR write, or a UMsg, which is on    *)
(* its way for a while.  After forcing completion it does neither.         *)
(***************************************************************************)
noCopy == UNCHANGED <<src, copied, told, message>>

flagSeen == sw = "run" /\ dst[swlines] = Flag

Copy(good) ==
  /\ flagSeen /\ copied < swlines
  /\ good \/ Corrupts
  /\ src' = [src EXCEPT ![copied] = IF good THEN dst[copied] ELSE Garbage]
  /\ copied' = copied + 1 /\ UNCHANGED <<told, message>>

Tell(method) ==
  /\ flagSeen /\ copied = swlines /\ ~told /\ swcfg.method = method
  /\ told' = TRUE /\ UNCHANGED copied

Poke   == Tell("poll") /\ src' = [src EXCEPT ![swlines] = Flag] /\ UNCHANGED message
Signal == \E m \in {"message", "hint"} : Tell(m) /\ message' = m /\ UNCHANGED src
Post(mmio) == /\ Tell("csr") /\ UNCHANGED <<src, message>>
              /\ mmio = Message /\ wr_T1 = NoWrite

(* The UMsg on its way arrives as u.                                       *)
Deliver(u) ==
  /\ message # NoMessage /\ u = message /\ message' = NoMessage
  /\ UNCHANGED <<src, copied, told>>

CopyBack(mmio, u) ==
  /\ UNCHANGED swVars
  /\ \/ /\ mmio = NoWrite /\ u = NoMessage
        /\ (\E good \in BOOLEAN : Copy(good)) \/ Poke \/ Signal
     \/ Post(mmio) /\ u = NoMessage
     \/ Deliver(u) /\ mmio = NoWrite

RunOver == dsm /\ posted = <<>> /\ reads = {} /\ ~c0 /\ c1 = NoItem

Drive(mmio) ==
  /\ wr_T1 = NoWrite /\ TestFlow(RunOver, mmio)
  /\ IF prepares THEN /\ src' = Prepared(swlines') /\ copied' = 0
                      /\ told' = FALSE /\ message' = NoMessage
                 ELSE noCopy

Software(copies, mmio, u) ==
  IF copies
    THEN CopyBack(mmio, u)
    ELSE u = NoMessage /\ (Drive(mmio) \/ (Idle(mmio) /\ noCopy))

-----------------------------------------------------------------------------
Queue(c1Hold) ==
  IF test_Reset_n
    THEN TxQ!Clock(WrEn \/ WrFence, Request, txFifo_RdAck(head # NoItem, c1Hold))
    ELSE TxQ!Clear

Clk(mmio, u, c0Hold, c1Hold, i, a) ==
  /\ CsrClk(FALSE, mmio)
  /\ ReClk(csr, s12ab_TestCmp, ErrorValid, FALSE, RdEn, c0Hold, c1Hold, out)
  /\ Sw1Clk(test_Reset_n, cfg.method, re2xy_go, re2xy_NumLines, Len(q) < TxCap,
            RdHdr_valid(RdEn, c0Hold), Answer(a), csr_write, u)
  /\ Queue(c1Hold)
  /\ RdAddr_q' = IF RdHdr_valid(RdEn, c0Hold) THEN RdAddr ELSE 0
  /\ c0addr' = RdAddr_q
  /\ Carry(i) /\ Reading(a)

Steps(P(_, _, _, _, _)) ==
  \E copies \in BOOLEAN, mmio \in CsrWrites \cup {Message}, u \in {NoMessage, message} :
    /\ Software(copies, mmio, u)
    /\ \E c0Hold, c1Hold \in BOOLEAN, i \in {0} \cup Ready, a \in {-1} \cup reads :
         P(copies, c0Hold, c1Hold, i, a) /\ Clk(mmio, u, c0Hold, c1Hold, i, a)

Next == Steps(LAMBDA copies, c0Hold, c1Hold, i, a : TRUE)

Spec == Init /\ [][Next]_vars

(***************************************************************************)
(* The link lets each channel through again and again, memory carries out  *)
(* what it is sent, and the software does its part.                        *)
(***************************************************************************)
FairSpec ==
  /\ Spec
  /\ WF_vars(Next)
  /\ WF_vars(Steps(LAMBDA copies, c0Hold, c1Hold, i, a : ~c0Hold))
  /\ WF_vars(Steps(LAMBDA copies, c0Hold, c1Hold, i, a : ~c1Hold))
  /\ WF_vars(Steps(LAMBDA copies, c0Hold, c1Hold, i, a : i # 0))
  /\ WF_vars(Steps(LAMBDA copies, c0Hold, c1Hold, i, a : a # -1))
  /\ WF_vars(Steps(LAMBDA copies, c0Hold, c1Hold, i, a : copies))

-----------------------------------------------------------------------------
(* The value domains of the registers and of memory.                       *)
TypeOK ==
  /\ WrFSM \in {"WAIT", "WRITE", "WRFENCE", "UPDTFLAG", "DONE"}
  /\ RdFSM \in {"WAIT", "READ", "RESP", "DONE"}
  /\ PollFSM \in {"WAIT", "READ", "RESP", "DONE"}
  /\ Len(q) \in 0 .. TxCap /\ WrAddr \in 0 .. swlines
  /\ reads \subseteq 0 .. swlines /\ copied \in 0 .. swlines
  /\ DOMAIN dst = 0 .. swlines /\ DOMAIN src = 0 .. swlines

(***************************************************************************)
(* "Fence- guarantees data is written": whoever sees the flag sees every   *)
(* line, whatever order memory carries writes out in.                      *)
(***************************************************************************)
DataBeforeFlag == dst[swlines] = Flag => \A a \in Lines(swlines) : dst[a] = a

(***************************************************************************)
(* Responses are counted whatever asked for them, yet while lines are read *)
(* the count is that of lines: the answer of a poll is never among them.   *)
(***************************************************************************)
One(b) == IF b THEN 1 ELSE 0

CountsLines ==
  RdFSM \in {"READ", "RESP"} =>
    /\ Num_RdRsp + Cardinality(reads) + One(c0) + One(RdHdr_valid_q)
         = (IF RdFSM = "READ" THEN Num_RdReqs - 1 ELSE re2xy_NumLines)
    /\ reads \subseteq Lines(swlines)

(***************************************************************************)
(* The status line reports an error exactly if the software's copy is      *)
(* wrong: the check, a clock behind the count that ends the test, is       *)
(* neither too late for the last line nor made on what is not a line.      *)
(***************************************************************************)
ReportsTruth ==
  sendsDsm /\ ~status_write =>
    (WrData_dsm <=> \E a \in Lines(swlines) : src[a] # a)

(* A started test ends by itself, with every method of giving notice.      *)
RoundTripEnds == sw = "run" ~> dsm

(***************************************************************************)
(* "SW forced completion- The SW forces a test completion [...] HW AFU     *)
(* writes to DSM_STATUS" (nlb_lpbk.sv:189): a forced test ends.            *)
(***************************************************************************)
ForcedEnds == sw = "force" ~> dsm
=============================================================================
