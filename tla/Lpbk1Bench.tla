----------------------------- MODULE Lpbk1Bench ----------------------------
(***************************************************************************)
(* test_lpbk1 closed by what it talks to: the arbiter's memory of read     *)
(* addresses, a host that answers read requests out of order, the queue of *)
(* write requests (TxQueue, which C1TxFifo implements), the requestor that *)
(* drains it whenever the link lets it, and a host that acknowledges       *)
(* writes in any order.  The response registers of the arbiter and of the  *)
(* engine's inputs only delay a response and are part of its flight time.  *)
(***************************************************************************)
EXTENDS TestLpbk1, FiniteSets

CONSTANTS
  LineCounts,   \* the values of CSR_NUM_LINES tried
  RollCounts,   \* the same in continuous mode, CSR_CFG[1]
  MaxOvertake,  \* a read response overtakes at most this many older ones
  TxCap,        \* entries of the write-request queue
  TxThresh,     \* almost full from this many entries on
  PendLimit,    \* the requestor holds writes back at this many unacknowledged
  NoItem

ASSUME CountsAssumption ==
  \A n \in LineCounts \cup RollCounts : n \in 0 .. CountMod - 1 /\ n % LineLen = 0
ASSUME QueueAssumption == TxCap \in Nat /\ TxThresh \in 1 .. TxCap
ASSUME NoItemAssumption == NoItem \notin [addr : Int, data : Int]

VARIABLES
  NumLines, Cont,   \* re2xy_NumLines and re2xy_Cont, constant in a run
  go,           \* re2xy_go
  arb_rd_mem,   \* the arbiter's address of each request tag
  reads,        \* requested lines not yet answered, oldest first
  q, head, almFull, out,   \* the write-request queue
  dst,          \* the destination buffer
  unacked       \* lines written and not acknowledged

envVars == <<NumLines, Cont, go, arb_rd_mem, reads, q, head, almFull, out, dst, unacked>>
vars == <<lpbk1Vars, envVars>>

Tags == Buffers \X (0 .. BufReqs - 1)
Blank == -1
DstLines == 0 .. NumLines - 1

TxQ == INSTANCE TxQueue WITH Values <- {}, Cap <- TxCap, FullThresh <- TxThresh

Init ==
  /\ Lpbk1Init
  /\ Cont \in BOOLEAN
  /\ NumLines \in IF Cont THEN RollCounts ELSE LineCounts
  /\ go = FALSE
  /\ arb_rd_mem = [t \in Tags |-> 0]
  /\ reads = <<>>
  /\ TxQ!Init
  /\ dst = [a \in DstLines |-> Blank]
  /\ unacked = 0

-----------------------------------------------------------------------------
(* The requestor raises go once and drops it when completion is reported.  *)
GoMayBe(g) == IF go THEN g \/ TestCmp ELSE g => ~TestCmp

(* The arbiter remembers the address under the tag, sent or not.           *)
Remember ==
  arb_rd_mem' = IF RdEn THEN [arb_rd_mem EXCEPT ![RdTID] = RdAddr] ELSE arb_rd_mem

(* The host fetches each line of an accepted request at its own address.   *)
Requested ==
  [i \in 1 .. LineLen |->
     [buf |-> RdTID[1], tag |-> RdTID[2], cl |-> i - 1, data |-> RdAddr + i - 1]]

Without(s, i) == [j \in 1 .. Len(s) - 1 |-> IF j < i THEN s[j] ELSE s[j + 1]]

(* The i-th oldest outstanding line is answered; 0 for none.               *)
Response(i) ==
  IF i = 0 THEN None
  ELSE LET r == reads[i]
       IN  [valid |-> TRUE, buf |-> r.buf, tag |-> r.tag, cl |-> r.cl,
            addr |-> arb_rd_mem[<<r.buf, r.tag>>], data |-> r.data]

HostReads(sent, i) ==
  LET left == IF i = 0 THEN reads ELSE Without(reads, i)
  IN  reads' = IF sent THEN left \o Requested ELSE left

(* What leaves the queue is written two clocks after it was accepted; a    *)
(* line outside the destination buffer is not shown in dst.                *)
HostWrites(acked) ==
  LET w == out[2]
  IN  /\ dst' = IF w # NoItem /\ w.addr \in DstLines
                  THEN [dst EXCEPT ![w.addr] = w.data] ELSE dst
      /\ unacked' = unacked + (IF w # NoItem THEN 1 ELSE 0) - acked

(***************************************************************************)
(* One clock.  The environment chooses whether go is up, whether a read    *)
(* request is accepted, which read is answered, whether the head of the    *)
(* queue is taken and how many lines a write response acknowledges.        *)
(***************************************************************************)
Clk(g, sent, i, drain, acked) ==
  /\ GoMayBe(g) /\ go' = g
  /\ sent => go /\ RdEn
  /\ drain => go /\ q # <<>> /\ unacked < PendLimit
  /\ Lpbk1Clk(go, NumLines, Cont, sent, Response(i), almFull, Len(q) < TxCap, acked)
  /\ Remember
  /\ HostReads(sent, i)
  /\ TxQ!Clock(WrEn, wrreq.line, drain)
  /\ HostWrites(acked)
  /\ UNCHANGED <<NumLines, Cont>>

Answerable == {i \in 1 .. Len(reads) : i <= MaxOvertake + 1}
Ackable    == {n \in {1, LineLen} : n <= unacked}

Next ==
  \E g, sent, drain \in BOOLEAN, i \in {0} \cup Answerable, n \in {0} \cup Ackable :
    Clk(g, sent, i, drain, n)

(***************************************************************************)
(* The link accepts requests and the host answers them, eventually; the    *)
(* software starts the test.                                               *)
(***************************************************************************)
Accepts  == \E g, drain \in BOOLEAN, i \in {0} \cup Answerable, n \in {0} \cup Ackable :
              Clk(g, TRUE, i, drain, n)
Answers  == \E g, sent, drain \in BOOLEAN, i \in Answerable, n \in {0} \cup Ackable :
              Clk(g, sent, i, drain, n)
Drains   == \E g, sent \in BOOLEAN, i \in {0} \cup Answerable, n \in {0} \cup Ackable :
              Clk(g, sent, i, TRUE, n)
Acks     == \E g, sent, drain \in BOOLEAN, i \in {0} \cup Answerable, n \in Ackable :
              Clk(g, sent, i, drain, n)
Starts   == ~go /\ \E sent, drain \in BOOLEAN, i \in {0} \cup Answerable,
                      n \in {0} \cup Ackable : Clk(TRUE, sent, i, drain, n)

Spec == Init /\ [][Next]_vars

FairSpec ==
  /\ Spec
  /\ WF_vars(Next)
  /\ WF_vars(Accepts) /\ WF_vars(Answers) /\ WF_vars(Drains) /\ WF_vars(Acks)
  /\ WF_vars(Starts)

-----------------------------------------------------------------------------
(* The value domains of the registers the other properties rely on.        *)
TypeOK ==
  /\ read_fsm \in 0 .. 2 /\ write_fsm \in 0 .. 1
  /\ FSM_Rd_throttle \in 0 .. 2
  /\ fsm_read_ctrl \in 0 .. 3 /\ fsm_write_ctrl \in 0 .. 3
  /\ buff_status \in [Buffers -> Status]
  /\ Num_buff_RdReq \in 0 .. BufReqs
  /\ Read_Buffer_ID \in Buffers /\ WrReq_tid \in 0 .. BufReqs - 1
  /\ CL_ID \in 0 .. LineLen - 1 /\ wrCLnum \in 0 .. LineLen - 1
  /\ go \in BOOLEAN /\ TestCmp \in BOOLEAN /\ ErrorValid \in BOOLEAN
  /\ Len(q) \in 0 .. TxCap /\ unacked \in Nat

(***************************************************************************)
(* Every write request carries the line that was read from its address,    *)
(* inside the buffer, and its place in the packet is the place of the line *)
(* in the request.  It fails if a tag or a RAM slot is reused too early,   *)
(* if a response is stored under the wrong tag, if the RAM is read before  *)
(* the response is in, or from the other buffer.                           *)
(***************************************************************************)
LinesIntact ==
  wrreq.valid =>
    /\ wrreq.line.addr \in DstLines
    /\ wrreq.line.data = wrreq.line.addr
    /\ wrreq.line.addr % LineLen = LineLen - 1 - wrreq.len
    /\ wrreq.sop <=> wrreq.len = LineLen - 1

(***************************************************************************)
(* "ab2l1_WrSent = 0 when WrEn=1 is an error condition": the engine stops  *)
(* early enough after almost full that the queue never refuses a request,  *)
(* with everything that is in its pipeline and the rest of a packet.       *)
(***************************************************************************)
NeverRefused == ~ErrorValid

(***************************************************************************)
(* Why it is early enough: how far the queue and the requests on their way *)
(* to it may have grown since almost full last was down, the lines owed to *)
(* a packet already begun included.  (TxThresh + LineLen + 6 entries are   *)
(* enough; the code has 16 entries above the threshold.)                   *)
(***************************************************************************)
One(b) == IF b THEN 1 ELSE 0

coming == Len(q) + One(wrpipe[1].valid) + One(wrpipe[2].valid)
                 + One(wrpipe[3].valid) + One(wrpipe[4].valid) + One(wrreq.valid)
owed   == IF write_fsm = 1 THEN wrCLnum ELSE 0

SlackInv ==
  /\ coming + owed <= TxThresh + LineLen + 6
  /\ ~AlmFull_qq => coming <= TxThresh + 6
  /\ ~AlmFull_q  => coming <= TxThresh + 5
  /\ ~almFull    => Len(q) < TxThresh

(* A packet is offered in consecutive clocks, its lines in order.          *)
PacketsContiguous ==
  [][wrreq.valid /\ wrreq.len > 0 =>
       /\ wrreq'.valid
       /\ wrreq'.len = wrreq.len - 1
       /\ wrreq'.line.addr = wrreq.line.addr + 1]_vars

(***************************************************************************)
(* Every line of the destination that has been written is acknowledged or  *)
(* counted as pending: no line is written twice and none is dropped        *)
(* between the queue and the write responses the engine counts.            *)
(***************************************************************************)
OncePerLine ==
  Num_Write_rsp + unacked = Cardinality({a \in DstLines : dst[a] # Blank})

(***************************************************************************)
(* The closed engine implements the memory copy: each step writes at most  *)
(* one new line with the source's contents, completion is reported only    *)
(* with the whole buffer copied, and nothing is written after it.          *)
(***************************************************************************)
Copy == INSTANCE MemCopy WITH Sizes <- LineCounts, Src <- LAMBDA a : a,
                              n <- NumLines, done <- TestCmp
ImplementsCopy == Copy!Spec

(* Once started, a finite copy comes to its end; a continuous one goes on  *)
(* writing.                                                                *)
Completes == go /\ ~Cont ~> TestCmp
GoesOn == go /\ Cont ~> [](<>WrEn)
=============================================================================
