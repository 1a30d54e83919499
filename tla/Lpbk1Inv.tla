------------------------------ MODULE Lpbk1Inv -----------------------------
(***************************************************************************)
(* The inductive invariants of the closed engine (Lpbk1Bench): what its    *)
(* registers hold, why the queue never refuses a request, and, for a       *)
(* finite copy, where every line is between the source and the             *)
(* destination.  Lpbk1Proofs proves them.                                  *)
(***************************************************************************)
EXTENDS Lpbk1Bench

-----------------------------------------------------------------------------
(***************************************************************************)
(* The types the argument needs: the queue is a sequence (of whatever the  *)
(* RAM holds), the stages of the pipeline are empty or not, and a packet   *)
(* begun owes at least a line and at most all but its first.               *)
(***************************************************************************)
IsSeq(s) == \E S : s \in Seq(S)

Stages == /\ wrpipe[1].valid \in BOOLEAN /\ wrpipe[2].valid \in BOOLEAN
          /\ wrpipe[3].valid \in BOOLEAN /\ wrpipe[4].valid \in BOOLEAN
          /\ wrreq.valid \in BOOLEAN

Types ==
  /\ IsSeq(q)
  /\ Stages
  /\ write_fsm \in {0, 1}
  /\ wrCLnum \in 0 .. LineLen - 1
  /\ write_fsm = 1 => wrCLnum > 0

SlackIInv == Types /\ SlackInv /\ NeverRefused

-----------------------------------------------------------------------------
(***************************************************************************)
(* The copy itself.  Lines and requests: Ln(t) lines are t requests, and B *)
(* lines are the block of a buffer.                                        *)
(***************************************************************************)
Ln(t) == IF LineLen = 1 THEN t ELSE IF LineLen = 2 THEN 2 * t ELSE 4 * t
Al(a) == IF LineLen = 1 THEN TRUE ELSE IF LineLen = 2 THEN a % 2 = 0 ELSE a % 4 = 0
B == Ln(BufReqs)
N == NumLines

(* The block being filled, the block each buffer holds, and the line that  *)
(* belongs in a slot of a buffer.                                          *)
fbase == RdAddr - Ln(Num_buff_RdReq)
Base(b) == IF b = Read_Buffer_ID THEN fbase ELSE fbase - B
At(b, s) == Base(b) + Ln(s[1]) + s[2]
Line(a) == [addr |-> a, data |-> a]

(* The lines taken out of the RAMs, and the block they are taken from.     *)
P == Total_ram_reads - 1
wbase == P - Ln(WrReq_tid) - CL_ID

(* The lines asked for and not answered, in all and of a buffer's block.   *)
Open == {reads[i].data : i \in 1 .. Len(reads)}
InBlock(b, a) == Base(b) <= a /\ a < Base(b) + B
OpenOf(b) == {a \in Open : InBlock(b, a)}
Asked(b) == IF b = Read_Buffer_ID THEN Ln(Num_buff_RdReq) ELSE IF fbase = 0 THEN 0 ELSE B
Storing(b) == memwr.valid /\ memwr.buf = b

(* The hand-over of a buffer that has been emptied.                        *)
reg1 == detect_cur_rd_cmp_reg[1]
reg2 == detect_cur_rd_cmp_reg[2]
Handing == reg1 \/ reg2

-----------------------------------------------------------------------------
(* What every register holds, in either mode.                              *)
Reads == [buf : Buffers, tag : 0 .. BufReqs - 1, cl : 0 .. LineLen - 1, data : Nat]
Rsps == [valid : {TRUE}, buf : Buffers, tag : 0 .. BufReqs - 1, cl : 0 .. LineLen - 1,
         addr : Nat, data : Nat]

Flags == /\ Cont \in BOOLEAN /\ finite_test \in BOOLEAN
         /\ rd_cmplt \in BOOLEAN /\ trigger_rds_done \in BOOLEAN
         /\ latch_RAM_rd_cmp \in BOOLEAN /\ Wr_go \in BOOLEAN /\ Wr_cmplt \in BOOLEAN
         /\ reg1 \in BOOLEAN /\ reg2 \in BOOLEAN
         /\ buff_serviced \in [Buffers -> BOOLEAN]
         /\ buff_rd_cmplt \in [Buffers -> BOOLEAN]
         /\ buff_wr_cmplt \in [Buffers -> BOOLEAN]

Counters == /\ NumLines \in Nat /\ RdAddr \in Nat /\ Num_Read_req \in Nat
            /\ Total_Num_RdRsp \in Nat /\ Num_RdRsp_buff \in [Buffers -> Nat]
            /\ Total_ram_reads \in Nat /\ Num_Write_rsp \in Nat

PacketPlace == /\ write_fsm = 1 => CL_ID > 0 /\ CL_ID + wrCLnum = LineLen
               /\ write_fsm = 0 => CL_ID = 0

Memories == /\ DOMAIN ram = Buffers /\ \A b \in Buffers : DOMAIN ram[b] = Slots
            /\ arb_rd_mem \in [Tags -> Nat]
            /\ reads \in Seq(Reads)
            /\ memwr \in Rsps \cup {None}

TypesIInv == /\ TypeOK /\ Flags /\ Counters /\ PacketPlace /\ Stages /\ Memories /\ IsSeq(q)

-----------------------------------------------------------------------------
(***************************************************************************)
(* The inductive invariant of a finite copy.  The read side: what has been *)
(* asked for is a prefix of the source, and its last block goes into the   *)
(* buffer being filled.                                                    *)
(***************************************************************************)
Finite == ~Cont /\ N > 0 /\ N < CountMod /\ Al(N)

FillInv ==
  /\ read_fsm = 0 => RdAddr = 0
  /\ read_fsm = 0 => Num_Read_req = LineLen
  /\ read_fsm = 1 => Num_Read_req = RdAddr + LineLen /\ Num_Read_req <= N
  /\ read_fsm = 2 => RdAddr = N
  /\ Al(RdAddr)
  /\ fbase = 0 \/ fbase >= B
  /\ FSM_Rd_throttle # 0 => FSM_Rd_throttle = 1 + Read_Buffer_ID /\ Num_buff_RdReq = BufReqs
  /\ RdAddr > 0 /\ ~TestCmp => go /\ finite_test

(* A request in flight belongs in the slot its tag says, no line is asked  *)
(* for twice, and the arbiter still has the address of every tag in use.   *)
ReadsInv ==
  /\ \A i \in 1 .. Len(reads) :
       /\ reads[i].data = At(reads[i].buf, <<reads[i].tag, reads[i].cl>>)
       /\ reads[i].data < RdAddr
  /\ \A i, j \in 1 .. Len(reads) : i # j => reads[i].data # reads[j].data
  /\ \A b \in Buffers, t \in 0 .. BufReqs - 1 :
       0 <= At(b, <<t, 0>>) /\ At(b, <<t, 0>>) < RdAddr => arb_rd_mem[<<b, t>>] = At(b, <<t, 0>>)
  /\ memwr.valid => /\ memwr.addr = At(memwr.buf, <<memwr.tag, 0>>)
                    /\ memwr.data = At(memwr.buf, <<memwr.tag, memwr.cl>>)
                    /\ memwr.data < RdAddr /\ memwr.data \notin Open

(* A slot whose line has been answered and stored holds that line.         *)
RamInv ==
  \A b \in Buffers : \A s \in Slots :
    0 <= At(b, s) /\ At(b, s) < RdAddr /\ At(b, s) \notin Open
      /\ ~(Storing(b) /\ <<memwr.tag, memwr.cl>> = s)
    => ram[b][s] = Line(At(b, s))

(* The responses counted: until the last is in, a buffer whose reads are   *)
(* complete (or that has been emptied) is owed none, and another counts    *)
(* what it has received.                                                   *)
Whole(b) == IF b = Read_Buffer_ID THEN Num_buff_RdReq = BufReqs ELSE fbase > 0
Held(b) == buff_rd_cmplt[b] \/ buff_status[b] \in {"READ_DONE", "WRITE"}

TotalInv ==
  /\ Total_Num_RdRsp = RdAddr - Len(reads)
  /\ Total_Num_RdRsp = N /\ ~rd_cmplt => memwr.valid
  /\ trigger_rds_done => rd_cmplt
  /\ rd_cmplt => Len(reads) = 0 /\ ~memwr.valid /\ RdAddr = N

BufferInv(b) ==
  /\ Held(b) \/ buff_serviced[b] =>
       OpenOf(b) = {} /\ Num_RdRsp_buff[b] = 0 /\ ~Storing(b)
  /\ ~Held(b) /\ ~buff_serviced[b] =>
       Num_RdRsp_buff[b] = Asked(b) - Cardinality(OpenOf(b))
  /\ Held(b) => ~buff_serviced[b] /\ Whole(b)
  /\ buff_serviced[b] /\ b = Read_Buffer_ID => Num_buff_RdReq = BufReqs
  /\ buff_status[b] \in {"READ_DONE", "WRITE"} => ~buff_rd_cmplt[b]

CountInv == TotalInv /\ (~rd_cmplt => \A b \in Buffers : BufferInv(b))

(* The write side: which buffer is emptied, and the clocks between its     *)
(* last line and its release.                                              *)
Writing == wrRuns /\ buff_status[wrTurn] = "WRITE"

CtlInv ==
  /\ \A b \in Buffers : buff_status[b] = "WRITE" => b = wrTurn /\ wrRuns
  /\ wrRuns => buff_status[wrTurn] \in {"READ_DONE", "WRITE"}
  /\ P <= RdAddr /\ P >= 0
  /\ latch_RAM_rd_cmp => P = N /\ ~Wr_go /\ write_fsm = 0 /\ rd_cmplt
  /\ ~latch_RAM_rd_cmp =>
       /\ P < N
       /\ ~TestCmp
       /\ Wr_go \/ write_fsm = 1 => Writing /\ ~Wr_cmplt
       /\ Handing => Wr_cmplt /\ Writing /\ ~(reg1 /\ reg2) /\ WrReq_tid = 0
       /\ writesOut <=> reg2
       /\ Wr_cmplt /\ ~Handing => ~wrRuns

gbase == IF Handing THEN wbase - B ELSE wbase

(* Whose turn it is to be emptied follows from the blocks the two buffers  *)
(* hold.                                                                   *)
Turns(v, u) ==
  \/ gbase = fbase - B /\ wrTurn = u /\ ~buff_serviced[u] /\ ~buff_serviced[v]
  \/ gbase = fbase /\ wrTurn = v /\ buff_serviced[u] /\ ~buff_serviced[v]
  \/ gbase = fbase + B /\ wrTurn = u /\ buff_serviced[u] /\ buff_serviced[v]
       /\ ~wrRuns /\ Num_buff_RdReq = BufReqs

TurnInv ==
  ~latch_RAM_rd_cmp =>
    /\ wbase >= 0 /\ wbase % B = 0 /\ Al(wbase)
    /\ Turns(Read_Buffer_ID, 1 - Read_Buffer_ID)

(* What has left the RAMs, line by line without a gap: in the pipeline, in *)
(* the queue, on its way to the host, and written.                         *)
at1 == P - One(wrpipe[1].valid)
at2 == at1 - One(wrpipe[2].valid)
at3 == at2 - One(wrpipe[3].valid)
at4 == at3 - One(wrpipe[4].valid)
at5 == at4 - One(wrreq.valid)
atQ == at5 - Len(q)
atO1 == atQ - (IF out[1] = NoItem THEN 0 ELSE 1)
atO2 == atO1 - (IF out[2] = NoItem THEN 0 ELSE 1)

InPacket(e, a) == /\ e.len \in 0 .. LineLen - 1 /\ Al(a + e.len + 1)
                  /\ e.sop <=> e.len = LineLen - 1
Carries(e, a) == e.valid => e.line = Line(a) /\ InPacket(e, a)
Follows(e, f) == e.valid /\ e.len > 0 => f.valid /\ f.len = e.len - 1

FetchInv ==
  /\ wrpipe[1].valid =>
       /\ InPacket(wrpipe[1], at1)
       /\ wrpipe[1].slot \in Slots /\ wrpipe[1].buf \in Buffers
       /\ At(wrpipe[1].buf, wrpipe[1].slot) = at1
       /\ at1 >= 0 /\ at1 < RdAddr /\ at1 \notin Open /\ ~Storing(wrpipe[1].buf)
  /\ write_fsm = 1 => wrpipe[1].valid
  /\ wrpipe[1].valid => wrpipe[1].len = owed

PipeInv ==
  /\ Carries(wrpipe[2], at2) /\ Carries(wrpipe[3], at3)
  /\ Carries(wrpipe[4], at4) /\ Carries(wrreq, at5)
  /\ Follows(wrpipe[2], wrpipe[1]) /\ Follows(wrpipe[3], wrpipe[2])
  /\ Follows(wrpipe[4], wrpipe[3]) /\ Follows(wrreq, wrpipe[4])

OutInv ==
  /\ q \in Seq([addr : Int, data : Int])
  /\ \A i \in 1 .. Len(q) : q[i] = Line(atQ + i - 1)
  /\ out[1] # NoItem => out[1] = Line(atO1)
  /\ out[2] # NoItem => out[2] = Line(atO2)
  /\ atO2 = Num_Write_rsp + unacked
  /\ dst = [a \in DstLines |-> IF a < atO2 THEN a ELSE Blank]
  /\ TestCmp => Num_Write_rsp = N

CopyIInv == /\ TypesIInv /\ SlackIInv /\ Finite
            /\ FillInv /\ ReadsInv /\ RamInv /\ CountInv
            /\ CtlInv /\ TurnInv /\ FetchInv /\ PipeInv /\ OutInv
=============================================================================
