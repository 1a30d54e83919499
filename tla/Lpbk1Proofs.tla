---------------------------- MODULE Lpbk1Proofs ----------------------------
(***************************************************************************)
(* Proofs about the closed engine for every number of requests per buffer, *)
(* packet length, line count and queue size: its registers keep their      *)
(* types; a write-request queue with LineLen + 6 entries above its         *)
(* almost-full threshold never refuses a request; and with such a queue a  *)
(* finite copy delivers every line intact, once, in whole packets, so that *)
(* the engine implements the memory copy.                                  *)
(***************************************************************************)
EXTENDS Lpbk1Inv, SequenceTheorems, FiniteSetTheorems, TLAPS

-----------------------------------------------------------------------------
(* A block ends with the last line of its last request.                    *)
Blocks(a) == a % B = 0

LEMMA RestOf ==
  /\ \A K, e \in Nat : \A y \in 0 .. K - 1 : (K * e + y) % K = y
  /\ \A K \in Nat, w \in Nat : K > 0 /\ w % K = 0 => \E d \in Nat : w = K * d
<1>1. ASSUME NEW K \in Nat, NEW e \in Nat, NEW y \in 0 .. K - 1
      PROVE  (K * e + y) % K = y
  OBVIOUS
<1>2. ASSUME NEW K \in Nat, NEW w \in Nat, K > 0, w % K = 0
      PROVE  \E d \in Nat : w = K * d
  <2>1. w = K * (w \div K) /\ w \div K \in Nat
    BY <1>2
  <2> QED BY <2>1
<1> QED BY <1>1, <1>2

LEMMA BlockEnd ==
  \A w \in Nat, t \in 0 .. BufReqs - 1, c \in 0 .. LineLen - 1 : \A s :
    Blocks(w) /\ s = w + Ln(t) + c + 1
      => (Blocks(s) <=> c = LineLen - 1 /\ t = BufReqs - 1)
<1> SUFFICES ASSUME NEW w \in Nat, NEW t \in 0 .. BufReqs - 1, NEW c \in 0 .. LineLen - 1,
                    NEW s, Blocks(w), s = w + Ln(t) + c + 1
             PROVE  Blocks(s) <=> c = LineLen - 1 /\ t = BufReqs - 1
  OBVIOUS
<1>1. /\ B \in Nat /\ B > 0 /\ Ln(t) \in Nat
      /\ Ln(t) + c + 1 \in 1 .. B
      /\ Ln(t) + c + 1 = B <=> c = LineLen - 1 /\ t = BufReqs - 1
  BY BufAssumption, LenAssumption DEF Ln, B
<1>2. w % B = 0
  BY DEF Blocks
<1>3. PICK K \in Nat : K = B
  BY <1>1
<1>4. PICK x \in Nat : x = Ln(t) + c + 1
  BY <1>1
<1>5. PICK d \in Nat : w = K * d
  BY <1>1, <1>2, <1>3, RestOf
<1>6. x > 0 /\ x <= K /\ s = K * d + x
  BY <1>1, <1>3, <1>4, <1>5
<1>7. ASSUME x < K PROVE s % K = x
  <2>1. x \in 0 .. K - 1
    BY <1>6, <1>7
  <2>2. (K * d + x) % K = x
    BY <2>1, RestOf
  <2> QED BY <1>6, <2>2
<1>8. ASSUME x = K PROVE s % K = 0
  <2>1. s = K * (d + 1) + 0
    BY <1>6, <1>8
  <2>2. 0 \in 0 .. K - 1
    BY <1>6
  <2> QED BY <2>1, <2>2, RestOf, SMTT(60)
<1>9. s % K = 0 <=> x = K
  BY <1>6, <1>7, <1>8
<1>10. x = K <=> c = LineLen - 1 /\ t = BufReqs - 1
  BY <1>1, <1>3, <1>4
<1>11. Blocks(s) <=> s % K = 0
  BY <1>3 DEF Blocks
<1> QED BY <1>9, <1>10, <1>11

USE LenAssumption, QueueAssumption

-----------------------------------------------------------------------------
LEMMA OneType == \A b : One(b) \in {0, 1}
BY DEF One

LEMMA SeqLen == ASSUME NEW s, IsSeq(s) PROVE Len(s) \in Nat
BY LenProperties DEF IsSeq

LEMMA ComingBound ==
  ASSUME IsSeq(q)
  PROVE  /\ coming \in Nat /\ coming <= Len(q) + 5
         /\ Len(q) + One(wrreq.valid) <= coming
<1> DEFINE a == One(wrpipe[1].valid)
           b == One(wrpipe[2].valid)
           c == One(wrpipe[3].valid)
           d == One(wrpipe[4].valid)
           e == One(wrreq.valid)
           n == Len(q)
<1>1. a \in {0, 1} /\ b \in {0, 1} /\ c \in {0, 1} /\ d \in {0, 1} /\ e \in {0, 1}
  BY OneType, Zenon
<1>2. coming = n + a + b + c + d + e
  BY DEF coming
<1>3. n \in Nat
  BY SeqLen
<1> HIDE DEF a, b, c, d, e, n
<1>4. coming \in Nat /\ coming <= n + 5 /\ n + e <= coming
  BY <1>1, <1>2, <1>3
<1> QED BY <1>4 DEF e, n

(* One clock changes the length of the queue by at most one entry.         *)
LEMMA AppendLen ==
  ASSUME NEW s, NEW e, IsSeq(s)
  PROVE  IsSeq(Append(s, e)) /\ Len(Append(s, e)) = Len(s) + 1
<1>1. PICK S : s \in Seq(S)
  BY DEF IsSeq
<1>2. s \in Seq(S \cup {e})
  BY <1>1, SeqMonotonic
<1> QED BY <1>2, AppendProperties DEF IsSeq

LEMMA TailLen ==
  ASSUME NEW s, IsSeq(s), s # <<>>
  PROVE  IsSeq(Tail(s)) /\ Len(Tail(s)) = Len(s) - 1
<1>1. PICK S : s \in Seq(S)
  BY DEF IsSeq
<1> QED BY <1>1, HeadTailProperties DEF IsSeq

LEMMA QueueLen ==
  ASSUME IsSeq(q), NEW push \in BOOLEAN, NEW pop_ \in BOOLEAN, NEW v,
         TxQ!Clock(push, v, pop_)
  PROVE  /\ IsSeq(q')
         /\ Len(q') \in Nat
         /\ Len(q') <= Len(q) + One(push)
         /\ almFull' = (Len(q') >= TxThresh)
<1> DEFINE rest == IF pop_ /\ q # <<>> THEN Tail(q) ELSE q
<1>1. IsSeq(rest) /\ Len(rest) \in Nat /\ Len(rest) <= Len(q) /\ Len(q) \in Nat
  <2>1. CASE pop_ /\ q # <<>>
    BY <2>1, TailLen, SeqLen
  <2>2. CASE ~(pop_ /\ q # <<>>)
    BY <2>2, SeqLen
  <2> QED BY <2>1, <2>2
<1>2. /\ q' = IF push /\ Len(q) < TxCap THEN Append(rest, v) ELSE rest
      /\ almFull' = (Len(q') >= TxThresh)
  BY DEF TxQ!Clock
<1> HIDE DEF rest
<1>3. IsSeq(q') /\ Len(q') <= Len(q) + One(push)
  <2>1. CASE push /\ Len(q) < TxCap
    BY <2>1, <1>1, <1>2, AppendLen DEF One
  <2>2. CASE ~(push /\ Len(q) < TxCap)
    BY <2>2, <1>1, <1>2 DEF One
  <2> QED BY <2>1, <2>2
<1> QED BY <1>2, <1>3, SeqLen

(* The pipeline moves by one stage; what is popped enters it.              *)
LEMMA PipeStep ==
  ASSUME Stages, WritePipe
  PROVE  /\ wrpipe'[1].valid = pop
         /\ wrpipe'[2].valid = wrpipe[1].valid
         /\ wrpipe'[3].valid = wrpipe[2].valid
         /\ wrpipe'[4].valid = wrpipe[3].valid
         /\ wrreq'.valid = wrpipe[4].valid
<1> DEFINE popped == [valid |-> TRUE, len |-> wrCLnum', sop |-> popFirst,
                      slot |-> <<WrReq_tid, CL_ID>>,
                      buf |-> IF buff_status[1] = "WRITE" THEN 1 ELSE 0]
           e == wrpipe[1]
           clash == IF memwr.valid
                      THEN e.buf = memwr.buf /\ e.slot = <<memwr.tag, memwr.cl>>
                      ELSE FALSE
           fetched == [valid |-> TRUE, len |-> e.len, sop |-> e.sop,
                       line |-> IF clash THEN NoLine ELSE ram[e.buf][e.slot]]
<1>1. /\ wrpipe' = <<IF pop THEN popped ELSE None,
                     IF e.valid THEN fetched ELSE None, wrpipe[2], wrpipe[3]>>
      /\ wrreq' = wrpipe[4]
      /\ popped.valid = TRUE /\ fetched.valid = TRUE
  BY DEF WritePipe
<1> HIDE DEF popped, fetched
<1>2. pop \in BOOLEAN
  BY Zenon DEF pop, popFirst, popNext
<1>3. wrpipe'[1].valid = pop
  BY <1>1, <1>2 DEF None
<1>4. wrpipe'[2].valid = wrpipe[1].valid
  BY <1>1 DEF None, Stages
<1>5. /\ wrpipe'[3].valid = wrpipe[2].valid
      /\ wrpipe'[4].valid = wrpipe[3].valid
      /\ wrreq'.valid = wrpipe[4].valid
  BY <1>1
<1> QED BY <1>3, <1>4, <1>5

LEMMA ComingStep ==
  ASSUME IsSeq(q), IsSeq(q'), Len(q') <= Len(q) + One(wrreq.valid),
         wrpipe'[1].valid = pop, wrpipe'[2].valid = wrpipe[1].valid,
         wrpipe'[3].valid = wrpipe[2].valid, wrpipe'[4].valid = wrpipe[3].valid,
         wrreq'.valid = wrpipe[4].valid
  PROVE  coming' \in Nat /\ coming' <= coming + One(pop)
<1> DEFINE p == One(pop)
           a == One(wrpipe[1].valid)
           b == One(wrpipe[2].valid)
           c == One(wrpipe[3].valid)
           d == One(wrpipe[4].valid)
           e == One(wrreq.valid)
           n == Len(q)
           m == Len(q')
<1>1. /\ p \in {0, 1} /\ a \in {0, 1} /\ b \in {0, 1} /\ c \in {0, 1}
      /\ d \in {0, 1} /\ e \in {0, 1}
  BY OneType, Zenon
<1>2. coming = n + a + b + c + d + e
  BY DEF coming
<1>3. coming' = m + p + a + b + c + d
  BY DEF coming
<1>4. n \in Nat /\ m \in Nat /\ m <= n + e
  BY SeqLen
<1> HIDE DEF p, a, b, c, d, e, n, m
<1>5. coming' \in Nat /\ coming' <= coming + p
  BY <1>1, <1>2, <1>3, <1>4
<1> QED BY <1>5 DEF p

(* A clock pops the first line of a packet, another one, or nothing.       *)
LEMMA PacketStep ==
  ASSUME Types, NEW full, WriteFsm(full)
  PROVE  /\ write_fsm' \in {0, 1} /\ wrCLnum' \in 0 .. LineLen - 1
         /\ write_fsm' = 1 => wrCLnum' > 0
         /\ owed \in 0 .. LineLen - 1
         /\ popFirst => ~AlmFull_qq /\ owed = 0 /\ owed' = LineLen - 1
         /\ ~popFirst => owed' = owed - One(pop)
<1> USE DEF Types, owed, One, pop
<1>1. CASE popFirst
  BY <1>1 DEF WriteFsm, popFirst, popNext
<1>2. CASE popNext
  BY <1>2 DEF WriteFsm, popFirst, popNext
<1>3. CASE ~popFirst /\ ~popNext
  BY <1>3 DEF WriteFsm, popFirst, popNext
<1> QED BY <1>1, <1>2, <1>3

-----------------------------------------------------------------------------
(***************************************************************************)
(* The invariant holds initially and after every clock.                    *)
(***************************************************************************)
LEMMA SlackInit == Init => SlackIInv
<1> SUFFICES ASSUME Init PROVE SlackIInv
  OBVIOUS
<1>1. /\ q = <<>> /\ IsSeq(q) /\ Len(q) = 0
  BY EmptySeq DEF Init, TxQ!Init, IsSeq
<1>2. /\ wrpipe = <<None, None, None, None>> /\ wrreq = None /\ write_fsm = 0
      /\ wrCLnum = 0 /\ ErrorValid = FALSE
  BY DEF Init, Lpbk1Init
<1>3. /\ wrpipe[1].valid = FALSE /\ wrpipe[2].valid = FALSE
      /\ wrpipe[3].valid = FALSE /\ wrpipe[4].valid = FALSE /\ wrreq.valid = FALSE
  BY <1>2 DEF None
<1>4. Stages
  BY <1>3, Zenon DEF Stages
<1>5. coming = 0
  BY <1>1, <1>3 DEF coming, One
<1> QED BY <1>1, <1>2, <1>4, <1>5 DEF SlackIInv, Types, SlackInv, NeverRefused, owed

LEMMA SlackStep ==
  ASSUME TxCap >= TxThresh + LineLen + 6, SlackIInv, [Next]_vars
  PROVE  SlackIInv'
<1>1. CASE UNCHANGED vars
  <2> USE <1>1 DEF vars, lpbk1Vars, wrVars, doneVars, envVars
  <2>1. Types'
    BY DEF SlackIInv, Types, Stages, IsSeq
  <2>2. SlackInv'
    BY DEF SlackIInv, SlackInv, coming, owed, One
  <2>3. NeverRefused'
    BY DEF SlackIInv, NeverRefused
  <2> QED BY <2>1, <2>2, <2>3 DEF SlackIInv
<1>2. ASSUME NEW g \in BOOLEAN, NEW sent \in BOOLEAN, NEW drain \in BOOLEAN,
             NEW i, NEW wrsp, Clk(g, sent, i, drain, wrsp)
      PROVE  SlackIInv'
  <2>1. /\ WriteFsm(almFull) /\ WritePipe
        /\ TxQ!Clock(WrEn, wrreq.line, drain)
        /\ ErrorValid' = (ErrorValid \/ (WrEn /\ ~(Len(q) < TxCap)))
    BY <1>2 DEF Clk, Lpbk1Clk, Completion
  <2>2. WrEn \in BOOLEAN /\ WrEn = wrreq.valid
    BY DEF SlackIInv, Types, Stages, WrEn
  <2>3. /\ IsSeq(q') /\ Len(q') \in Nat /\ Len(q) \in Nat
        /\ Len(q') <= Len(q) + One(wrreq.valid)
        /\ almFull' = (Len(q') >= TxThresh)
    BY <2>1, <2>2, QueueLen, SeqLen DEF SlackIInv, Types
  <2>4. /\ Stages' /\ coming \in Nat /\ coming' \in Nat
        /\ coming' <= coming + One(pop)
    <3>1. pop \in BOOLEAN
      BY Zenon DEF pop, popFirst, popNext
    <3>2. /\ wrpipe'[1].valid = pop
          /\ wrpipe'[2].valid = wrpipe[1].valid
          /\ wrpipe'[3].valid = wrpipe[2].valid
          /\ wrpipe'[4].valid = wrpipe[3].valid
          /\ wrreq'.valid = wrpipe[4].valid
      BY <2>1, PipeStep DEF SlackIInv, Types
    <3>3. Stages'
      BY <3>1, <3>2 DEF SlackIInv, Types, Stages
    <3>4. coming \in Nat /\ coming' \in Nat /\ coming' <= coming + One(pop)
      BY <2>3, <3>2, ComingBound, ComingStep DEF SlackIInv, Types
    <3> QED BY <3>3, <3>4
  <2>5. /\ AlmFull_qq' = AlmFull_q /\ AlmFull_q' = almFull
        /\ write_fsm' \in {0, 1} /\ wrCLnum' \in 0 .. LineLen - 1
        /\ write_fsm' = 1 => wrCLnum' > 0
        /\ owed \in 0 .. LineLen - 1
        /\ popFirst => ~AlmFull_qq /\ owed = 0 /\ owed' = LineLen - 1
        /\ ~popFirst => owed' = owed - One(pop)
    BY <2>1, PacketStep DEF SlackIInv, WriteFsm
  <2>6. Types'
    BY <2>3, <2>4, <2>5 DEF Types
  <2>7. SlackInv'
    <3> DEFINE p == One(pop)
               T == TxThresh
               m == Len(q')
               n == Len(q)
    <3>1. p \in {0, 1} /\ (popFirst => p = 1) /\ T \in Nat /\ T > 0
      <4>1. p \in {0, 1}
        BY OneType, Zenon
      <4>2. popFirst => p = 1
        BY DEF One, pop
      <4> QED BY <4>1, <4>2
    <3>2. ~almFull => coming <= T + 4
      <4>1. ~almFull => n < T
        BY DEF SlackIInv, SlackInv
      <4>2. coming <= n + 5
        BY ComingBound DEF SlackIInv, Types
      <4> HIDE DEF n, T
      <4>3. n \in Nat
        BY <2>3 DEF n
      <4> QED BY <2>4, <3>1, <4>1, <4>2, <4>3
    <3>3. /\ coming + owed <= T + LineLen + 6
          /\ ~AlmFull_qq => coming <= T + 6
          /\ ~AlmFull_q  => coming <= T + 5
      BY DEF SlackIInv, SlackInv
    <3>4. owed' \in 0 .. LineLen - 1
      BY <2>5 DEF owed
    <3>5. m \in Nat /\ (~almFull' => m < T)
      <4>1. ~almFull' => ~(m >= T)
        BY <2>3, Zenon
      <4> QED BY <2>3, <3>1, <4>1
    <3> HIDE DEF p, T, m, n
    <3>6. coming' <= coming + p
      BY <2>4 DEF p
    <3>7. coming' + owed' <= T + LineLen + 6
      <4> DEFINE cn == coming'
                 on == owed'
      <4>1. cn \in Nat /\ cn <= coming + p /\ on \in 0 .. LineLen - 1 /\ coming \in Nat
        BY <2>4, <3>4, <3>6
      <4>2. popFirst => p = 1 /\ coming <= T + 6 /\ on = LineLen - 1
        BY <2>5, <3>1, <3>3, Zenon
      <4>3. ~popFirst => on = owed - p
        BY <2>5, Zenon DEF p
      <4>4. owed \in Nat /\ coming + owed <= T + LineLen + 6
        BY <2>5, <3>3
      <4> HIDE DEF cn, on
      <4>5. cn + on <= T + LineLen + 6
        BY <3>1, <4>1, <4>2, <4>3, <4>4
      <4> QED BY <4>5 DEF cn, on
    <3>8. ~AlmFull_qq' => coming' <= T + 6
      BY <2>4, <2>5, <3>1, <3>3, <3>6
    <3>9. ~AlmFull_q' => coming' <= T + 5
      BY <2>4, <2>5, <3>1, <3>2, <3>6
    <3> QED BY <3>5, <3>7, <3>8, <3>9 DEF SlackInv, T, m
  <2>8. NeverRefused'
    <3>1. wrreq.valid => Len(q) < TxCap
      <4>1. wrreq.valid => One(wrreq.valid) = 1
        BY DEF One
      <4>2. wrreq.valid => Len(q) + 1 <= coming
        BY <4>1, ComingBound DEF SlackIInv, Types
      <4>3. coming + owed <= TxThresh + LineLen + 6
        BY DEF SlackIInv, SlackInv
      <4> QED BY <2>3, <2>4, <2>5, <4>2, <4>3
    <3> QED BY <2>1, <2>2, <3>1 DEF SlackIInv, NeverRefused
  <2> QED BY <2>6, <2>7, <2>8 DEF SlackIInv
<1> QED BY <1>1, <1>2 DEF Next

-----------------------------------------------------------------------------
(***************************************************************************)
(* "ab2l1_WrSent = 0 when WrEn=1 is an error condition" (test_lpbk1): with *)
(* LineLen + 6 entries above the almost-full threshold it never occurs,    *)
(* however the host, the link and the requestor behave.  The code has 16   *)
(* entries above the threshold and packets of at most 4 lines.             *)
(***************************************************************************)
THEOREM NeverRefusedInvariant ==
  ASSUME TxCap >= TxThresh + LineLen + 6
  PROVE  Spec => []NeverRefused
<1>1. SlackIInv => NeverRefused
  BY DEF SlackIInv
<1> QED BY SlackInit, SlackStep, <1>1, PTL DEF Spec

-----------------------------------------------------------------------------
(***************************************************************************)
(* Lines, requests and blocks.                                             *)
(***************************************************************************)
USE BufAssumption

LEMMA LnFacts ==
  /\ \A t \in Int : Ln(t) \in Int /\ Ln(t + 1) = Ln(t) + LineLen /\ Ln(t - 1) = Ln(t) - LineLen
  /\ \A t, u \in Int : t < u => Ln(t) + LineLen <= Ln(u)
  /\ \A t \in Nat : Ln(t) \in Nat /\ t <= Ln(t)
  /\ Ln(0) = 0
  /\ B \in Nat /\ B = BlockLines /\ B >= LineLen /\ B > 0
BY DEF Ln, B, BlockLines

LEMMA LnOne ==
  \A t, u \in Int, c, d \in 0 .. LineLen - 1 :
    Ln(t) + c = Ln(u) + d => t = u /\ c = d
BY DEF Ln

LEMMA AlFacts ==
  /\ Al(0)
  /\ \A a \in Int : Al(a) <=> a % LineLen = 0
  /\ \A a, t \in Int : Al(a) => Al(a + Ln(t)) /\ Al(a - Ln(t))
  /\ \A a \in Int : Al(a) => Al(a + LineLen)
  /\ \A a, b \in Int : Al(a) /\ Al(b) /\ a < b => a + LineLen <= b
  /\ \A a \in Int, c \in 0 .. LineLen : Al(a) => (Al(a + c) <=> c \in {0, LineLen})
BY DEF Ln, Al

LEMMA ModSmall == \A K \in Nat : \A x \in 0 .. K - 1 : x % K = x
OBVIOUS

-----------------------------------------------------------------------------
(* The parts of a clock.                                                   *)
AnyClk(g, sent, i, drain, n) ==
  /\ g \in BOOLEAN /\ sent \in BOOLEAN /\ drain \in BOOLEAN
  /\ i \in {0} \cup Answerable /\ n \in {0} \cup Ackable
  /\ Clk(g, sent, i, drain, n)

LEMMA ClkParts ==
  ASSUME NEW g, NEW sent, NEW i, NEW drain, NEW n, AnyClk(g, sent, i, drain, n)
  PROVE  /\ GoMayBe(g) /\ go' = g /\ UNCHANGED <<NumLines, Cont>>
         /\ sent => go /\ RdEn
         /\ drain => go /\ q # <<>> /\ unacked < PendLimit
         /\ ReadFsm(go, NumLines, Cont, sent) /\ RdThrottle(sent)
         /\ BufferCtrl /\ ReadResponses(go, NumLines, Cont, Response(i))
         /\ WriteGo(NumLines) /\ WriteFsm(almFull) /\ WritePipe
         /\ CountWriteRsp(n) /\ Completion(NumLines, Len(q) < TxCap)
         /\ Remember /\ HostReads(sent, i)
         /\ TxQ!Clock(WrEn, wrreq.line, drain) /\ HostWrites(n)
BY DEF AnyClk, Clk, Lpbk1Clk

LEMMA NextIsClk == Next => \E g, sent, drain, i, n : AnyClk(g, sent, i, drain, n)
BY DEF Next, AnyClk

-----------------------------------------------------------------------------
LEMMA TypesInit == Init => TypesIInv
<1> SUFFICES ASSUME Init PROVE TypesIInv
  OBVIOUS
<1> USE DEF Init, Lpbk1Init
<1>1. SlackIInv
  BY SlackInit
<1>2. q = <<>> /\ Len(q) = 0
  BY EmptySeq DEF TxQ!Init
<1>3. TypeOK
  <2>1. buff_status \in [Buffers -> Status]
    BY DEF Status
  <2>2. 0 \in 0 .. LineLen - 1 /\ 0 \in 0 .. BufReqs - 1 /\ 0 \in 0 .. TxCap
    OBVIOUS
  <2>3. go \in BOOLEAN /\ TestCmp \in BOOLEAN /\ ErrorValid \in BOOLEAN
    BY Zenon
  <2>4. /\ read_fsm = 0 /\ write_fsm = 0 /\ FSM_Rd_throttle = 0 /\ fsm_read_ctrl = 0
        /\ fsm_write_ctrl = 0 /\ Num_buff_RdReq = 0 /\ Read_Buffer_ID = 0 /\ WrReq_tid = 0
        /\ CL_ID = 0 /\ wrCLnum = 0 /\ unacked = 0
    BY Zenon
  <2> QED BY <1>2, <2>1, <2>2, <2>3, <2>4 DEF TypeOK, Buffers
<1>4. Flags
  BY DEF Flags, Buffers, reg1, reg2
<1>5. Counters
  BY CountsAssumption, ModAssumption DEF Counters, Buffers
<1>6. PacketPlace
  BY DEF PacketPlace
<1>7. Memories
  BY DEF Memories, Tags
<1> QED BY <1>1, <1>3, <1>4, <1>5, <1>6, <1>7 DEF TypesIInv, SlackIInv, Types

(* The requests in flight, and the one that is answered.                   *)
LEMMA WithoutType ==
  ASSUME NEW S, NEW s \in Seq(S), NEW i \in 1 .. Len(s)
  PROVE  /\ Without(s, i) \in Seq(S) /\ Len(Without(s, i)) = Len(s) - 1
         /\ \A j \in 1 .. Len(s) - 1 : Without(s, i)[j] = IF j < i THEN s[j] ELSE s[j + 1]
<1> DEFINE f == [j \in 1 .. Len(s) - 1 |-> IF j < i THEN s[j] ELSE s[j + 1]]
<1>1. Len(s) - 1 \in Nat
  BY LenProperties
<1>2. \A j \in 1 .. Len(s) - 1 : (IF j < i THEN s[j] ELSE s[j + 1]) \in S
  BY ElementOfSeq, LenProperties
<1>3. f \in Seq(S)
  BY <1>1, <1>2, IsASeq
<1>4. Len(f) = Len(s) - 1
  BY <1>1, <1>3, LenProperties
<1> QED BY <1>3, <1>4 DEF Without

LEMMA RequestedType ==
  ASSUME TypesIInv, RdEn
  PROVE  Requested \in Seq(Reads) /\ Len(Requested) = LineLen
<1>1. \A c \in 1 .. LineLen :
        [buf |-> RdTID[1], tag |-> RdTID[2], cl |-> c - 1, data |-> RdAddr + c - 1] \in Reads
  BY DEF TypesIInv, TypeOK, Counters, RdEn, RdTID, Reads
<1>2. Requested \in Seq(Reads)
  BY <1>1, IsASeq DEF Requested
<1> QED BY <1>2, LenProperties DEF Requested

LEMMA ReadsStep ==
  ASSUME TypesIInv, NEW g, NEW sent, NEW i, NEW drain, NEW n, AnyClk(g, sent, i, drain, n)
  PROVE  /\ reads' \in Seq(Reads)
         /\ Len(reads') = Len(reads) - (IF i = 0 THEN 0 ELSE 1) + (IF sent THEN LineLen ELSE 0)
<1> DEFINE left == IF i = 0 THEN reads ELSE Without(reads, i)
<1>1. sent \in BOOLEAN /\ (sent => RdEn) /\ reads' = IF sent THEN left \o Requested ELSE left
  BY ClkParts DEF HostReads, AnyClk
<1>2. reads \in Seq(Reads) /\ Len(reads) \in Nat
  BY LenProperties DEF TypesIInv, Memories
<1>3. i = 0 \/ i \in 1 .. Len(reads)
  BY DEF AnyClk, Answerable
<1>4. left \in Seq(Reads) /\ Len(left) = Len(reads) - (IF i = 0 THEN 0 ELSE 1)
  BY <1>2, <1>3, WithoutType
<1> HIDE DEF left
<1>5. CASE sent
  BY <1>1, <1>2, <1>4, <1>5, RequestedType, ConcatProperties
<1>6. CASE ~sent
  BY <1>1, <1>2, <1>4, <1>6
<1> QED BY <1>1, <1>5, <1>6

LEMMA ResponseType ==
  ASSUME TypesIInv, NEW g, NEW sent, NEW i, NEW drain, NEW n, AnyClk(g, sent, i, drain, n)
  PROVE  /\ Response(i) \in Rsps \cup {None}
         /\ Response(i).valid = (i # 0)
         /\ i # 0 => /\ i \in 1 .. Len(reads) /\ reads[i] \in Reads
                     /\ <<reads[i].buf, reads[i].tag>> \in Tags
                     /\ Response(i) = [valid |-> TRUE, buf |-> reads[i].buf,
                                       tag |-> reads[i].tag, cl |-> reads[i].cl,
                                       addr |-> arb_rd_mem[<<reads[i].buf, reads[i].tag>>],
                                       data |-> reads[i].data]
<1>1. i = 0 \/ i \in 1 .. Len(reads)
  BY DEF AnyClk, Answerable
<1>2. CASE i = 0
  BY <1>2 DEF Response, None
<1>3. CASE i \in 1 .. Len(reads)
  <2>1. i # 0 /\ reads[i] \in Reads
    BY <1>3, ElementOfSeq, LenProperties DEF TypesIInv, Memories
  <2>2. <<reads[i].buf, reads[i].tag>> \in Tags
    BY <2>1 DEF Reads, Tags
  <2>3. arb_rd_mem[<<reads[i].buf, reads[i].tag>>] \in Nat
    BY <2>2 DEF TypesIInv, Memories
  <2> QED BY <1>3, <2>1, <2>2, <2>3 DEF Response, Reads, Rsps
<1> QED BY <1>1, <1>2, <1>3

LEMMA TypeOKStep ==
  ASSUME TypesIInv, NEW g, NEW sent, NEW i, NEW drain, NEW n, AnyClk(g, sent, i, drain, n)
  PROVE  TypeOK'
<1> USE ClkParts
<1>1. read_fsm' \in 0 .. 2
  BY DEF TypesIInv, TypeOK, ReadFsm
<1>2. /\ FSM_Rd_throttle' \in 0 .. 2 /\ Num_buff_RdReq' \in 0 .. BufReqs
      /\ Read_Buffer_ID' \in Buffers
  <2>1. sent => Num_buff_RdReq < BufReqs
    BY DEF RdEn
  <2>2. RdThrottle(sent)
    OBVIOUS
  <2> HIDE ClkParts
  <2> QED BY <2>1, <2>2 DEF TypesIInv, TypeOK, RdThrottle, StartFilling, Buffers
<1>3. fsm_read_ctrl' \in 0 .. 3 /\ fsm_write_ctrl' \in 0 .. 3
  <2>1. \/ fsm_read_ctrl' = (fsm_read_ctrl + 1) % 4
        \/ fsm_read_ctrl' = fsm_read_ctrl
    BY Zenon DEF BufferCtrl
  <2>2. \/ fsm_write_ctrl' = (fsm_write_ctrl + 1) % 4
        \/ fsm_write_ctrl' = fsm_write_ctrl
    BY Zenon DEF BufferCtrl
  <2> HIDE ClkParts
  <2> QED BY <2>1, <2>2 DEF TypesIInv, TypeOK
<1>4. buff_status' \in [Buffers -> Status]
  <2>1. \A b \in Buffers : StatusByReadCtrl(b) \in Status
    BY DEF TypesIInv, TypeOK, StatusByReadCtrl, Status
  <2>2. buff_status' = [b \in Buffers |-> IF wrRuns /\ b = wrTurn
                                            THEN IF writesOut THEN "WRITE_DONE" ELSE "WRITE"
                                            ELSE StatusByReadCtrl(b)]
    BY DEF BufferCtrl
  <2> HIDE ClkParts
  <2> QED BY <2>1, <2>2 DEF Status
<1>5. /\ write_fsm' \in 0 .. 1 /\ WrReq_tid' \in 0 .. BufReqs - 1
      /\ CL_ID' \in 0 .. LineLen - 1 /\ wrCLnum' \in 0 .. LineLen - 1
  <2>1. WriteFsm(almFull)
    OBVIOUS
  <2> HIDE ClkParts
  <2> QED BY <2>1 DEF TypesIInv, TypeOK, PacketPlace, WriteFsm, popFirst, popNext
<1>6. go' \in BOOLEAN /\ TestCmp' \in BOOLEAN /\ ErrorValid' \in BOOLEAN
  <2>1. go' = g /\ g \in BOOLEAN
    BY Zenon DEF AnyClk
  <2>2. TestCmp' \in BOOLEAN /\ ErrorValid' \in BOOLEAN
    BY Zenon DEF Completion
  <2> QED BY <2>1, <2>2
<1>7. Len(q') \in 0 .. TxCap
  <2>1. WrEn \in BOOLEAN /\ drain \in BOOLEAN
    BY DEF TypesIInv, Stages, WrEn, AnyClk
  <2>2. Len(q') \in Nat /\ Len(q') <= Len(q) + One(WrEn) /\ IsSeq(q)
    BY <2>1, QueueLen DEF TypesIInv
  <2>3. Len(q) \in 0 .. TxCap
    BY DEF TypesIInv, TypeOK
  <2>4. CASE Len(q) < TxCap
    BY <2>2, <2>3, <2>4, OneType
  <2>5. CASE ~(Len(q) < TxCap)
    <3>1. q' = IF drain /\ q # <<>> THEN Tail(q) ELSE q
      BY <2>5 DEF TxQ!Clock
    <3> HIDE ClkParts
    <3> QED BY <2>2, <2>3, <3>1, TailLen
  <2> QED BY <2>4, <2>5
<1>8. unacked' \in Nat
  <2>1. unacked \in Nat /\ n \in 0 .. unacked
    BY DEF AnyClk, Ackable, TypesIInv, TypeOK
  <2> QED BY <2>1 DEF HostWrites
<1> QED BY <1>1, <1>2, <1>3, <1>4, <1>5, <1>6, <1>7, <1>8 DEF TypeOK

LEMMA FlagsStep ==
  ASSUME TypesIInv, NEW g, NEW sent, NEW i, NEW drain, NEW n, AnyClk(g, sent, i, drain, n)
  PROVE  Flags'
<1> USE ClkParts
<1>1. Cont' \in BOOLEAN
  BY Zenon DEF TypesIInv, Flags
<1>2. /\ finite_test' \in BOOLEAN /\ rd_cmplt' \in BOOLEAN /\ trigger_rds_done' \in BOOLEAN
  BY Zenon DEF ReadResponses, readsComplete
<1>3. buff_rd_cmplt' \in [Buffers -> BOOLEAN]
  <2>1. PICK F : buff_rd_cmplt' = [b \in Buffers |-> F[b] = TRUE]
    <3>1. buff_rd_cmplt' =
            [b \in Buffers |->
               (trigger_rds_done \/ Num_RdRsp_buff[b] = BlockLines)
                 \/ (buff_rd_cmplt[b] /\ ~(readsIn /\ b = rdTurn))]
      BY DEF ReadResponses
    <3> HIDE ClkParts
    <3> DEFINE H(b) == (trigger_rds_done \/ Num_RdRsp_buff[b] = BlockLines)
                         \/ (buff_rd_cmplt[b] /\ ~(readsIn /\ b = rdTurn))
    <3>2. \A b \in Buffers : H(b) \in BOOLEAN
      BY Zenon
    <3>3. buff_rd_cmplt' = [b \in Buffers |-> H(b)]
      BY <3>1, Zenon
    <3> HIDE DEF H
    <3>4. buff_rd_cmplt' = [b \in Buffers |-> [c \in Buffers |-> H(c)][b] = TRUE]
      BY <3>2, <3>3
    <3> QED BY <3>4, Zenon
  <2> HIDE ClkParts
  <2> QED BY <2>1
<1>4. buff_serviced' \in [Buffers -> BOOLEAN]
  <2> DEFINE H(b) == IF writesOut /\ b = wrTurn THEN TRUE
                     ELSE IF FSM_Rd_throttle = 2 - b /\ buff_status[b] = "READ" THEN FALSE
                     ELSE buff_serviced[b]
  <2>1. buff_serviced' = [b \in Buffers |-> H(b)]
    BY DEF BufferCtrl
  <2> HIDE ClkParts
  <2>2. \A b \in Buffers : H(b) \in BOOLEAN
    BY DEF TypesIInv, Flags
  <2> HIDE DEF H
  <2> QED BY <2>1, <2>2
<1>5. /\ latch_RAM_rd_cmp' \in BOOLEAN /\ Wr_cmplt' \in BOOLEAN /\ Wr_go' \in BOOLEAN
  <2>1. latch_RAM_rd_cmp' \in BOOLEAN /\ Wr_cmplt' \in BOOLEAN
    BY Zenon DEF WriteGo
  <2>2. Wr_go' \in BOOLEAN
    BY Zenon DEF WriteGo
  <2> QED BY <2>1, <2>2
<1>6. reg1' \in BOOLEAN /\ reg2' \in BOOLEAN
  <2>1. detect_cur_rd_cmp_reg' = <<detect_cur_rd_cmp, detect_cur_rd_cmp_reg[1]>>
    BY DEF WriteGo
  <2>2. detect_cur_rd_cmp \in BOOLEAN
    BY Zenon DEF detect_cur_rd_cmp, lastCandidate, popNext, popFirst
  <2> HIDE ClkParts
  <2> QED BY <2>1, <2>2 DEF reg1, reg2, TypesIInv, Flags
<1>7. buff_wr_cmplt' \in [Buffers -> BOOLEAN]
  <2>1. buff_wr_cmplt' = [b \in Buffers |-> Wr_cmplt /\ buff_status[b] = "WRITE"]
    BY DEF WriteGo
  <2>2. \A b \in Buffers : (Wr_cmplt /\ buff_status[b] = "WRITE") \in BOOLEAN
    BY Zenon
  <2> HIDE ClkParts
  <2> QED BY <2>1, <2>2
<1> QED BY <1>1, <1>2, <1>3, <1>4, <1>5, <1>6, <1>7 DEF Flags

LEMMA CountersStep ==
  ASSUME TypesIInv, NEW g, NEW sent, NEW i, NEW drain, NEW n, AnyClk(g, sent, i, drain, n)
  PROVE  Counters'
<1>1. NumLines' \in Nat /\ RdAddr' \in Nat /\ Num_Read_req' \in Nat
  <2>1. ReadFsm(go, NumLines, Cont, sent) /\ NumLines' = NumLines
    BY ClkParts
  <2> QED BY <2>1, ModAssumption DEF TypesIInv, Counters, ReadFsm
<1>2. Total_Num_RdRsp' \in Nat /\ Num_RdRsp_buff' \in [Buffers -> Nat]
  <2>1. ReadResponses(go, NumLines, Cont, Response(i))
    BY ClkParts
  <2>2. Total_Num_RdRsp' \in Nat
    BY <2>1, ModAssumption DEF TypesIInv, Counters, ReadResponses
  <2> DEFINE c(b) == IF trigger_rds_done \/ Num_RdRsp_buff[b] = BlockLines THEN 0
                     ELSE Num_RdRsp_buff[b]
                          + (IF Response(i).valid THEN IF Response(i).buf = b THEN 1 ELSE 0 ELSE 0)
  <2>3. Num_RdRsp_buff' = [b \in Buffers |-> c(b)]
    BY <2>1 DEF ReadResponses
  <2>4. \A b \in Buffers : c(b) \in Nat
    BY DEF TypesIInv, Counters
  <2> HIDE DEF c
  <2> QED BY <2>2, <2>3, <2>4
<1>3. Total_ram_reads' \in Nat
  <2>1. WriteFsm(almFull)
    BY ClkParts
  <2> QED BY <2>1, ModAssumption DEF TypesIInv, Counters, WriteFsm
<1>4. Num_Write_rsp' \in Nat
  <2>1. CountWriteRsp(n) /\ n \in Nat
    BY ClkParts DEF AnyClk, Ackable
  <2> QED BY <2>1, ModAssumption DEF TypesIInv, Counters, CountWriteRsp
<1> QED BY <1>1, <1>2, <1>3, <1>4 DEF Counters

LEMMA MemoriesStep ==
  ASSUME TypesIInv, NEW g, NEW sent, NEW i, NEW drain, NEW n, AnyClk(g, sent, i, drain, n)
  PROVE  Memories' /\ memwr' = Response(i)
<1>1. /\ memwr' = Response(i)
      /\ ram' = IF memwr.valid
                  THEN [ram EXCEPT ![memwr.buf][<<memwr.tag, memwr.cl>>] =
                          [addr |-> memwr.addr + memwr.cl, data |-> memwr.data]]
                  ELSE ram
  BY ClkParts DEF ReadResponses
<1>2. DOMAIN ram' = Buffers /\ \A b \in Buffers : DOMAIN ram'[b] = Slots
  BY <1>1 DEF TypesIInv, Memories
<1>3. arb_rd_mem' \in [Tags -> Nat]
  <2>1. arb_rd_mem' = IF RdEn THEN [arb_rd_mem EXCEPT ![RdTID] = RdAddr] ELSE arb_rd_mem
    BY ClkParts DEF Remember
  <2> QED BY <2>1 DEF TypesIInv, Memories, Counters
<1>4. reads' \in Seq(Reads)
  BY ReadsStep
<1> QED BY <1>1, <1>2, <1>3, <1>4, ResponseType DEF Memories

LEMMA StagesStep ==
  ASSUME TypesIInv, NEW g, NEW sent, NEW i, NEW drain, NEW n, AnyClk(g, sent, i, drain, n)
  PROVE  Stages' /\ IsSeq(q') /\ PacketPlace'
<1>1. WritePipe /\ WriteFsm(almFull) /\ TxQ!Clock(WrEn, wrreq.line, drain)
  BY ClkParts
<1>2. pop \in BOOLEAN
  BY Zenon DEF pop, popFirst, popNext
<1>3. Stages'
  BY <1>1, <1>2, PipeStep DEF Stages, TypesIInv
<1>4. WrEn \in BOOLEAN /\ drain \in BOOLEAN
  BY DEF TypesIInv, Stages, WrEn, AnyClk
<1>5. IsSeq(q')
  BY <1>1, <1>4, QueueLen DEF TypesIInv
<1>6. PacketPlace'
  BY <1>1 DEF TypesIInv, TypeOK, PacketPlace, WriteFsm, popFirst, popNext
<1> QED BY <1>3, <1>5, <1>6

LEMMA TypesStep == TypesIInv /\ [Next]_vars => TypesIInv'
<1> SUFFICES ASSUME TypesIInv, [Next]_vars PROVE TypesIInv'
  OBVIOUS
<1>1. CASE UNCHANGED vars
  <2> USE <1>1 DEF vars, lpbk1Vars, rdVars, bufVars, rspVars, wrVars, doneVars, envVars
  <2>1. TypeOK'
    BY DEF TypesIInv, TypeOK
  <2>2. Flags' /\ Counters' /\ PacketPlace' /\ IsSeq(q')
    BY DEF TypesIInv, Flags, Counters, PacketPlace, IsSeq, reg1, reg2
  <2>3. Stages' /\ Memories'
    BY DEF TypesIInv, Stages, Memories
  <2> QED BY <2>1, <2>2, <2>3 DEF TypesIInv
<1>2. CASE Next
  <2>1. PICK g, sent, drain, i, n : AnyClk(g, sent, i, drain, n)
    BY <1>2, NextIsClk
  <2> QED BY <2>1, TypeOKStep, FlagsStep, CountersStep, MemoriesStep, StagesStep
          DEF TypesIInv
<1> QED BY <1>1, <1>2

(***************************************************************************)
(* Every register of the engine keeps to its domain: the counters of a     *)
(* packet and of a buffer's requests and the queue stay in their bounds,   *)
(* in finite and in continuous mode.                                       *)
(***************************************************************************)
THEOREM Lpbk1Types == Spec => []TypeOK
<1>1. TypesIInv => TypeOK
  BY DEF TypesIInv
<1> QED BY TypesInit, TypesStep, <1>1, PTL DEF Spec

-----------------------------------------------------------------------------
(***************************************************************************)
(* The read side: the address moves with each accepted request, and the    *)
(* other buffer is taken up when it has been emptied.                      *)
(***************************************************************************)
LEMMA FillMoves ==
  ASSUME TypesIInv, Finite, FillInv,
         NEW g, NEW sent, NEW i, NEW drain, NEW n, AnyClk(g, sent, i, drain, n)
  PROVE  /\ sent => /\ read_fsm = 1 /\ Num_buff_RdReq < BufReqs
                    /\ Read_Buffer_ID' = Read_Buffer_ID
         /\ RdAddr' = RdAddr + (IF sent THEN LineLen ELSE 0)
         /\ Read_Buffer_ID' = Read_Buffer_ID =>
              fbase' = fbase /\ Num_buff_RdReq' = Num_buff_RdReq + (IF sent THEN 1 ELSE 0)
         /\ Read_Buffer_ID' # Read_Buffer_ID =>
              /\ Read_Buffer_ID' = 1 - Read_Buffer_ID
              /\ Num_buff_RdReq = BufReqs /\ Num_buff_RdReq' = 0
              /\ fbase' = fbase + B /\ fbase' = RdAddr
              /\ buff_serviced[Read_Buffer_ID'] /\ buff_status[Read_Buffer_ID'] = "READ"
         /\ FillInv'
<1>1. /\ sent => go /\ RdEn
      /\ ReadFsm(go, NumLines, Cont, sent) /\ RdThrottle(sent)
      /\ NumLines' = NumLines /\ Cont' = Cont /\ sent \in BOOLEAN
  BY ClkParts DEF AnyClk
<1>t. /\ read_fsm \in 0 .. 2 /\ FSM_Rd_throttle \in 0 .. 2 /\ Num_buff_RdReq \in 0 .. BufReqs
      /\ Read_Buffer_ID \in {0, 1} /\ RdAddr \in Nat /\ Num_Read_req \in Nat
      /\ N \in Nat /\ CountMod \in Nat
  BY ModAssumption DEF TypesIInv, TypeOK, Counters, Buffers, N
<1>2. sent => read_fsm = 1 /\ Num_buff_RdReq < BufReqs /\ FSM_Rd_throttle = 0
  BY <1>1, <1>t DEF RdEn, FillInv
<1>3. /\ RdAddr' = RdAddr + (IF sent THEN LineLen ELSE 0)
      /\ read_fsm' = 0 => RdAddr' = 0 /\ Num_Read_req' = LineLen
      /\ read_fsm' = 1 => Num_Read_req' = RdAddr' + LineLen /\ Num_Read_req' <= N
      /\ read_fsm' = 2 => RdAddr' = N
      /\ Al(RdAddr')
  <2>1. CASE read_fsm = 0
    <3>1. RdAddr = 0 /\ ~sent /\ RdAddr' = 0 /\ Num_Read_req' = LineLen
      BY <1>1, <1>2, <1>t, <2>1 DEF ReadFsm, FillInv
    <3>2. read_fsm' # 2
      BY <1>1, <1>t, <2>1 DEF ReadFsm, Finite, N
    <3>3. Al(0) /\ LineLen <= N
      <4>1. 0 < N /\ Al(0) /\ Al(N)
        BY AlFacts DEF Finite
      <4>2. 0 + LineLen <= N
        BY <4>1, <1>t, AlFacts
      <4> QED BY <4>1, <4>2
    <3> QED BY <3>1, <3>2, <3>3
  <2>2. CASE read_fsm = 1 /\ sent
    <3>1. /\ read_fsm' = IF Num_Read_req # N THEN 1 ELSE IF Cont THEN 0 ELSE 2
          /\ RdAddr' = (RdAddr + LineLen) % CountMod
          /\ Num_Read_req' = (Num_Read_req + LineLen) % CountMod
          /\ Num_Read_req = RdAddr + LineLen /\ Num_Read_req <= N /\ N < CountMod
          /\ ~Cont /\ Al(RdAddr) /\ Al(N)
      BY <1>1, <1>t, <2>2 DEF ReadFsm, FillInv, Finite, N
    <3>2. RdAddr' = RdAddr + LineLen /\ Al(RdAddr + LineLen)
      <4>1. RdAddr + LineLen \in 0 .. CountMod - 1
        BY <3>1, <1>t
      <4>2. (RdAddr + LineLen) % CountMod = RdAddr + LineLen
        BY <4>1, <1>t, ModSmall
      <4>3. Al(RdAddr + LineLen)
        BY <3>1, <1>t, AlFacts
      <4> QED BY <3>1, <4>2, <4>3
    <3>3. CASE Num_Read_req = N
      BY <3>1, <3>2, <3>3, <2>2
    <3>4. CASE Num_Read_req # N
      <4>1. RdAddr + LineLen < N
        BY <3>1, <3>4, <1>t
      <4>2. RdAddr + LineLen + LineLen <= N
        BY <4>1, <3>1, <3>2, <1>t, AlFacts
      <4>3. Num_Read_req' = Num_Read_req + LineLen
        <5>1. Num_Read_req + LineLen \in 0 .. CountMod - 1
          BY <4>2, <3>1, <1>t
        <5> QED BY <3>1, <5>1, <1>t, ModSmall
      <4> QED BY <4>2, <4>3, <3>1, <3>2, <3>4, <2>2, <1>t
    <3> QED BY <3>3, <3>4
  <2>3. CASE read_fsm = 2 \/ (read_fsm = 1 /\ ~sent)
    <3>1. ~sent
      BY <1>2, <2>3
    <3>2. UNCHANGED <<read_fsm, RdAddr, Num_Read_req>>
      BY <1>1, <1>t, <2>3, <3>1 DEF ReadFsm
    <3> QED BY <2>3, <3>1, <3>2, <1>t DEF FillInv
  <2> QED BY <2>1, <2>2, <2>3, <1>t
<1>4. \/ /\ Read_Buffer_ID' = Read_Buffer_ID
         /\ Num_buff_RdReq' = Num_buff_RdReq + (IF sent THEN 1 ELSE 0)
         /\ FSM_Rd_throttle' # 0 =>
              FSM_Rd_throttle' = 1 + Read_Buffer_ID /\ Num_buff_RdReq' = BufReqs
      \/ /\ Read_Buffer_ID' = 1 - Read_Buffer_ID /\ ~sent
         /\ Num_buff_RdReq = BufReqs /\ Num_buff_RdReq' = 0 /\ FSM_Rd_throttle' = 0
         /\ buff_serviced[Read_Buffer_ID'] /\ buff_status[Read_Buffer_ID'] = "READ"
  BY <1>1, <1>2, <1>t DEF RdThrottle, StartFilling, FillInv, Buffers
<1>5. Read_Buffer_ID' = Read_Buffer_ID => fbase' = fbase
  <2> SUFFICES ASSUME Read_Buffer_ID' = Read_Buffer_ID PROVE fbase' = fbase
    OBVIOUS
  <2>1. Num_buff_RdReq' = Num_buff_RdReq + (IF sent THEN 1 ELSE 0)
    BY <1>4, <1>t
  <2> QED BY <2>1, <1>3, <1>t, <1>1 DEF fbase, Ln
<1>6. Read_Buffer_ID' # Read_Buffer_ID => fbase' = fbase + B /\ fbase' = RdAddr
  <2> SUFFICES ASSUME Read_Buffer_ID' # Read_Buffer_ID
               PROVE  fbase' = fbase + B /\ fbase' = RdAddr
    OBVIOUS
  <2>1. ~sent /\ Num_buff_RdReq = BufReqs /\ Num_buff_RdReq' = 0
    BY <1>4
  <2> QED BY <2>1, <1>3, <1>t DEF fbase, B, Ln
<1>7. fbase \in Int /\ (fbase' = fbase \/ fbase' = fbase + B)
  <2>1. fbase \in Int
    BY <1>t, LnFacts DEF fbase
  <2> QED BY <1>4, <1>5, <1>6, <2>1
<1>8. RdAddr' > 0 /\ ~TestCmp' => go' /\ finite_test'
  <2>1. /\ TestCmp => TestCmp'
        /\ finite_test' = (go /\ ~Cont) /\ GoMayBe(g) /\ go' = g
    BY ClkParts, Zenon DEF Completion, ReadResponses
  <2>2. ~Cont
    BY DEF Finite
  <2>3. RdAddr' > 0 /\ ~TestCmp' => go /\ ~TestCmp
    BY <1>1, <1>3, <1>t, <2>1 DEF FillInv
  <2> QED BY <2>1, <2>2, <2>3, Zenon DEF GoMayBe
<1>9. fbase' = 0 \/ fbase' >= B
  <2>1. fbase = 0 \/ fbase >= B
    BY DEF FillInv
  <2>2. B \in Nat
    BY LnFacts
  <2> HIDE DEF FillInv
  <2> QED BY <1>7, <2>1, <2>2
<1>10. FSM_Rd_throttle' # 0 => FSM_Rd_throttle' = 1 + Read_Buffer_ID' /\ Num_buff_RdReq' = BufReqs
  BY <1>4
<1>11. FillInv'
  <2>1. N' = N
    BY <1>1 DEF N
  <2> QED BY <2>1, <1>3, <1>8, <1>9, <1>10, Zenon DEF FillInv, Al
<1> QED BY <1>2, <1>3, <1>4, <1>5, <1>6, <1>11, <1>t

(* A buffer gets a new block only when it is taken up for filling.         *)
LEMMA BaseMoves ==
  ASSUME TypesIInv, Finite, FillInv,
         NEW g, NEW sent, NEW i, NEW drain, NEW n, AnyClk(g, sent, i, drain, n)
  PROVE  \A b \in Buffers :
           /\ Base(b) \in Int /\ Base(b)' \in Int
           /\ Base(b)' = IF b = Read_Buffer_ID' /\ Read_Buffer_ID' # Read_Buffer_ID
                           THEN RdAddr ELSE Base(b)
           /\ Base(b)' = Base(b) \/ Base(b)' = RdAddr
           /\ Base(b)' # Base(b) => buff_serviced[b] /\ buff_status[b] = "READ"
<1>1. /\ Read_Buffer_ID \in {0, 1} /\ RdAddr \in Nat /\ Num_buff_RdReq \in 0 .. BufReqs
  BY DEF TypesIInv, TypeOK, Counters, Buffers
<1>2. fbase \in Int /\ B \in Nat
  BY <1>1, LnFacts DEF fbase
<1>3. CASE Read_Buffer_ID' = Read_Buffer_ID
  <2>1. fbase' = fbase
    BY <1>3, FillMoves
  <2> QED BY <1>1, <1>2, <1>3, <2>1 DEF Base, Buffers
<1>4. CASE Read_Buffer_ID' # Read_Buffer_ID
  <2>1. /\ Read_Buffer_ID' = 1 - Read_Buffer_ID /\ fbase' = fbase + B /\ fbase' = RdAddr
        /\ buff_serviced[Read_Buffer_ID'] /\ buff_status[Read_Buffer_ID'] = "READ"
    BY <1>4, FillMoves
  <2> QED BY <1>1, <1>2, <2>1 DEF Base, Buffers
<1> QED BY <1>3, <1>4

(***************************************************************************)
(* The hand-over of the buffers, as the two sides see it.                  *)
(***************************************************************************)
LEMMA TurnMoves ==
  ASSUME TypesIInv,
         NEW g, NEW sent, NEW i, NEW drain, NEW n, AnyClk(g, sent, i, drain, n)
  PROVE  /\ wrTurn \in Buffers /\ rdTurn \in Buffers
         /\ wrTurn' = IF writesOut THEN 1 - wrTurn ELSE wrTurn
         /\ wrRuns' <=> ~writesOut /\ (wrRuns \/ buff_status[wrTurn] = "READ_DONE")
<1>1. fsm_write_ctrl' =
        IF writesOut \/ (~wrRuns /\ buff_status[wrTurn] = "READ_DONE")
          THEN (fsm_write_ctrl + 1) % 4 ELSE fsm_write_ctrl
  BY ClkParts DEF BufferCtrl
<1>2. fsm_write_ctrl \in 0 .. 3 /\ fsm_read_ctrl \in 0 .. 3
  BY DEF TypesIInv, TypeOK
<1>3. writesOut => wrRuns
  BY DEF writesOut
<1>4. wrTurn \in Buffers /\ rdTurn \in Buffers
  BY <1>2 DEF wrTurn, rdTurn, Buffers
<1>5. CASE writesOut
  <2>1. fsm_write_ctrl' = (fsm_write_ctrl + 1) % 4 /\ fsm_write_ctrl % 2 = 1
    BY <1>1, <1>3, <1>5 DEF wrRuns
  <2>2. wrTurn' = 1 - wrTurn /\ ~wrRuns'
    BY <2>1, <1>2 DEF wrTurn, wrRuns
  <2> QED BY <1>4, <1>5, <2>2
<1>6. CASE ~writesOut /\ ~wrRuns /\ buff_status[wrTurn] = "READ_DONE"
  <2>1. fsm_write_ctrl' = (fsm_write_ctrl + 1) % 4 /\ fsm_write_ctrl % 2 # 1
    BY <1>1, <1>6 DEF wrRuns
  <2>2. wrTurn' = wrTurn /\ wrRuns'
    BY <2>1, <1>2 DEF wrTurn, wrRuns
  <2> QED BY <1>4, <1>6, <2>2
<1>7. CASE ~writesOut /\ ~(~wrRuns /\ buff_status[wrTurn] = "READ_DONE")
  <2>1. fsm_write_ctrl' = fsm_write_ctrl
    BY <1>1, <1>7
  <2>2. wrTurn' = wrTurn /\ wrRuns' = wrRuns
    BY <2>1 DEF wrTurn, wrRuns
  <2> QED BY <1>4, <1>7, <2>2
<1> QED BY <1>5, <1>6, <1>7

LEMMA StatusMoves ==
  ASSUME TypesIInv, CtlInv,
         NEW g, NEW sent, NEW i, NEW drain, NEW n, AnyClk(g, sent, i, drain, n)
  PROVE  \A b \in Buffers :
           /\ buff_status'[b] = "WRITE" <=> b = wrTurn /\ wrRuns /\ ~writesOut
           /\ buff_status'[b] = "READ_DONE" <=>
                /\ ~(b = wrTurn /\ wrRuns)
                /\ buff_status[b] = "READ_DONE" \/ (readsIn /\ b = rdTurn)
<1> SUFFICES ASSUME NEW b \in Buffers
             PROVE  /\ buff_status'[b] = "WRITE" <=> b = wrTurn /\ wrRuns /\ ~writesOut
                    /\ buff_status'[b] = "READ_DONE" <=>
                         /\ ~(b = wrTurn /\ wrRuns)
                         /\ buff_status[b] = "READ_DONE" \/ (readsIn /\ b = rdTurn)
  OBVIOUS
<1>1. buff_status'[b] = IF wrRuns /\ b = wrTurn
                          THEN IF writesOut THEN "WRITE_DONE" ELSE "WRITE"
                          ELSE StatusByReadCtrl(b)
  BY ClkParts DEF BufferCtrl
<1>2. buff_status[b] = "WRITE" => b = wrTurn /\ wrRuns
  BY DEF CtlInv
<1>3. ~(wrRuns /\ b = wrTurn) => StatusByReadCtrl(b) # "WRITE"
  BY <1>2 DEF StatusByReadCtrl
<1>4. StatusByReadCtrl(b) = "READ_DONE" <=>
        buff_status[b] = "READ_DONE" \/ (readsIn /\ b = rdTurn)
  BY DEF StatusByReadCtrl, readsIn
<1> QED BY <1>1, <1>3, <1>4

LEMMA ServicedMoves ==
  ASSUME TypesIInv, Finite, FillInv,
         NEW g, NEW sent, NEW i, NEW drain, NEW n, AnyClk(g, sent, i, drain, n)
  PROVE  \A b \in Buffers :
           buff_serviced'[b] <=>
             \/ writesOut /\ b = wrTurn
             \/ buff_serviced[b] /\ ~(b = Read_Buffer_ID' /\ Read_Buffer_ID' # Read_Buffer_ID)
<1> SUFFICES ASSUME NEW b \in Buffers
             PROVE  buff_serviced'[b] <=>
                      \/ writesOut /\ b = wrTurn
                      \/ buff_serviced[b]
                           /\ ~(b = Read_Buffer_ID' /\ Read_Buffer_ID' # Read_Buffer_ID)
  OBVIOUS
<1>1. buff_serviced'[b] = IF writesOut /\ b = wrTurn THEN TRUE
                          ELSE IF FSM_Rd_throttle = 2 - b /\ buff_status[b] = "READ" THEN FALSE
                          ELSE buff_serviced[b]
  BY ClkParts DEF BufferCtrl
<1>2. Read_Buffer_ID \in {0, 1} /\ FSM_Rd_throttle \in 0 .. 2 /\ b \in {0, 1}
  BY DEF TypesIInv, TypeOK, Buffers
<1>3. RdThrottle(sent)
  BY ClkParts
<1>4. FSM_Rd_throttle # 0 => FSM_Rd_throttle = 1 + Read_Buffer_ID
  BY DEF FillInv
<1>5. FSM_Rd_throttle = 2 - b /\ buff_status[b] = "READ" /\ buff_serviced[b] =>
        b = Read_Buffer_ID' /\ Read_Buffer_ID' # Read_Buffer_ID
  BY <1>2, <1>3, <1>4 DEF RdThrottle, StartFilling, Buffers
<1>6. b = Read_Buffer_ID' /\ Read_Buffer_ID' # Read_Buffer_ID =>
        FSM_Rd_throttle = 2 - b /\ buff_status[b] = "READ"
  <2>1. \/ Read_Buffer_ID' = Read_Buffer_ID
        \/ FSM_Rd_throttle = 1 /\ Read_Buffer_ID' = 1 /\ buff_status[1] = "READ"
        \/ FSM_Rd_throttle = 2 /\ Read_Buffer_ID' = 0 /\ buff_status[0] = "READ"
    BY <1>3, Zenon DEF RdThrottle, StartFilling
  <2>2. CASE b = 0
    BY <1>2, <2>1, <2>2
  <2>3. CASE b = 1
    BY <1>2, <2>1, <2>3
  <2> QED BY <1>2, <2>2, <2>3
<1>7. buff_serviced[b] \in BOOLEAN
  BY DEF TypesIInv, Flags
<1> QED BY <1>1, <1>5, <1>6, <1>7

-----------------------------------------------------------------------------
(***************************************************************************)
(* The requests in flight: one may be answered, those of a request sent    *)
(* are added.                                                              *)
(***************************************************************************)
NewRead(c) ==
  [buf |-> Read_Buffer_ID, tag |-> Num_buff_RdReq, cl |-> c, data |-> RdAddr + c]
kept(i) == Len(reads) - (IF i = 0 THEN 0 ELSE 1)
Later(i, j) == IF i = 0 THEN j ELSE IF j < i THEN j ELSE j + 1

LEMMA ReadsElems ==
  ASSUME TypesIInv, NEW g, NEW sent, NEW i, NEW drain, NEW n, AnyClk(g, sent, i, drain, n)
  PROVE  /\ Len(reads) \in Nat /\ kept(i) \in Nat
         /\ i = 0 \/ i \in 1 .. Len(reads)
         /\ Len(reads') = kept(i) + (IF sent THEN LineLen ELSE 0)
         /\ \A j \in 1 .. kept(i) :
              Later(i, j) \in 1 .. Len(reads) /\ reads'[j] = reads[Later(i, j)]
         /\ \A j \in 1 .. Len(reads') : j > kept(i) =>
              sent /\ j - kept(i) - 1 \in 0 .. LineLen - 1
                   /\ reads'[j] = NewRead(j - kept(i) - 1)
<1> DEFINE left == IF i = 0 THEN reads ELSE Without(reads, i)
<1>1. sent \in BOOLEAN /\ (sent => RdEn) /\ reads' = IF sent THEN left \o Requested ELSE left
  BY ClkParts DEF HostReads, AnyClk
<1>2. reads \in Seq(Reads) /\ Len(reads) \in Nat
  BY LenProperties DEF TypesIInv, Memories
<1>3. i = 0 \/ i \in 1 .. Len(reads)
  BY DEF AnyClk, Answerable
<1>4. /\ left \in Seq(Reads) /\ Len(left) = kept(i) /\ kept(i) \in Nat
      /\ \A j \in 1 .. kept(i) :
           Later(i, j) \in 1 .. Len(reads) /\ left[j] = reads[Later(i, j)]
  <2>1. CASE i = 0
    BY <1>2, <2>1 DEF kept, Later
  <2>2. CASE i \in 1 .. Len(reads)
    <3>1. /\ left = Without(reads, i) /\ left \in Seq(Reads)
          /\ Len(left) = Len(reads) - 1
          /\ \A j \in 1 .. Len(reads) - 1 :
               left[j] = IF j < i THEN reads[j] ELSE reads[j + 1]
      BY <1>2, <2>2, WithoutType
    <3> HIDE DEF left
    <3> QED BY <1>2, <2>2, <3>1 DEF kept, Later
  <2> QED BY <1>3, <2>1, <2>2
<1>5. RdAddr \in Nat /\ LineLen \in Nat
  BY DEF TypesIInv, Counters
<1> HIDE DEF left
<1>6. CASE sent
  <2>1. Requested \in Seq(Reads) /\ Len(Requested) = LineLen
    BY <1>1, <1>6, RequestedType
  <2>2. /\ Len(left \o Requested) = kept(i) + LineLen
        /\ \A j \in 1 .. kept(i) + LineLen :
             (left \o Requested)[j] =
                IF j <= kept(i) THEN left[j] ELSE Requested[j - kept(i)]
    BY <1>4, <1>5, <2>1, ConcatProperties
  <2>3. \A c \in 0 .. LineLen - 1 :
          Requested[c + 1] = NewRead(c)
    BY <1>5 DEF Requested, RdTID, NewRead
  <2>4. ASSUME NEW j \in 1 .. kept(i) + LineLen, j > kept(i)
        PROVE  j - kept(i) - 1 \in 0 .. LineLen - 1 /\ reads'[j] = NewRead(j - kept(i) - 1)
    <3> DEFINE c == j - kept(i) - 1
    <3>1. c \in 0 .. LineLen - 1 /\ j - kept(i) = c + 1 /\ ~(j <= kept(i))
      BY <1>4, <2>4
    <3> HIDE DEF c
    <3>2. reads'[j] = Requested[j - kept(i)]
      BY <1>1, <1>6, <2>2, <3>1
    <3>3. reads'[j] = NewRead(c)
      BY <2>3, <3>1, <3>2
    <3> QED BY <3>1, <3>3 DEF c
  <2>5. \A j \in 1 .. kept(i) : reads'[j] = left[j]
    BY <1>1, <1>4, <1>5, <1>6, <2>2
  <2>6. Len(reads') = kept(i) + LineLen
    BY <1>1, <1>6, <2>2
  <2> QED BY <1>2, <1>3, <1>4, <1>6, <2>4, <2>5, <2>6
<1>7. CASE ~sent
  BY <1>1, <1>2, <1>3, <1>4, <1>7
<1> QED BY <1>1, <1>6, <1>7

Distinct == \A j, k \in 1 .. Len(reads) : j # k => reads[j].data # reads[k].data

LEMMA OpenMoves ==
  ASSUME TypesIInv, ReadsInv,
         NEW g, NEW sent, NEW i, NEW drain, NEW n, AnyClk(g, sent, i, drain, n)
  PROVE  /\ Open' = (IF i = 0 THEN Open ELSE Open \ {reads[i].data})
                      \cup (IF sent THEN RdAddr .. RdAddr + LineLen - 1 ELSE {})
         /\ i # 0 => reads[i].data \in Open
         /\ Open \subseteq 0 .. RdAddr - 1
         /\ Distinct'
<1>1. RdAddr \in Nat /\ reads \in Seq(Reads) /\ Len(reads) \in Nat
  BY LenProperties DEF TypesIInv, Counters, Memories
<1>2. \A j \in 1 .. Len(reads) : reads[j].data \in 0 .. RdAddr - 1
  <2> SUFFICES ASSUME NEW j \in 1 .. Len(reads) PROVE reads[j].data \in 0 .. RdAddr - 1
    OBVIOUS
  <2>1. reads[j] \in Reads /\ reads[j].data < RdAddr
    BY <1>1, ElementOfSeq DEF ReadsInv
  <2>2. reads[j].data \in Nat
    BY <2>1 DEF Reads
  <2> QED BY <1>1, <2>1, <2>2
<1>3. /\ kept(i) = Len(reads) - (IF i = 0 THEN 0 ELSE 1)
      /\ i = 0 \/ i \in 1 .. Len(reads)
      /\ Len(reads') = kept(i) + (IF sent THEN LineLen ELSE 0)
      /\ \A j \in 1 .. kept(i) : Later(i, j) \in 1 .. Len(reads) /\ Later(i, j) # i
                                 /\ reads'[j].data = reads[Later(i, j)].data
      /\ \A j \in 1 .. Len(reads') : j > kept(i) =>
           sent /\ j - kept(i) - 1 \in 0 .. LineLen - 1
                /\ reads'[j].data = RdAddr + (j - kept(i) - 1)
  <2>1. \A j \in 1 .. kept(i) : Later(i, j) \in 1 .. Len(reads) /\ reads'[j] = reads[Later(i, j)]
    BY ReadsElems
  <2>2. \A j \in 1 .. kept(i) : Later(i, j) # i
    BY ReadsElems DEF Later
  <2>3. ASSUME NEW j \in 1 .. Len(reads'), j > kept(i)
        PROVE  sent /\ j - kept(i) - 1 \in 0 .. LineLen - 1
                    /\ reads'[j].data = RdAddr + (j - kept(i) - 1)
    <3>1. sent /\ j - kept(i) - 1 \in 0 .. LineLen - 1 /\ reads'[j] = NewRead(j - kept(i) - 1)
      BY <2>3, ReadsElems
    <3> QED BY <3>1 DEF NewRead
  <2>4. Len(reads') = kept(i) + (IF sent THEN LineLen ELSE 0) /\ (i = 0 \/ i \in 1 .. Len(reads))
    BY ReadsElems
  <2> QED BY <2>1, <2>2, <2>3, <2>4 DEF kept
<1>4. i # 0 => reads[i].data \in Open
  BY <1>3 DEF Open
<1>5. Open \subseteq 0 .. RdAddr - 1
  BY <1>2 DEF Open
<1>6. \A j, k \in 1 .. Len(reads) : j # k => reads[j].data # reads[k].data
  BY DEF ReadsInv
<1>7. \A j \in 1 .. Len(reads') : j \in 1 .. kept(i) \/ j > kept(i)
  <2>1. kept(i) \in Nat
    BY ReadsElems
  <2> QED BY <2>1
<1>8. ASSUME NEW j \in 1 .. Len(reads'), NEW k \in 1 .. Len(reads'), j < k
      PROVE  reads'[j].data # reads'[k].data
  <2>1. CASE k \in 1 .. kept(i)
    <3>1. j \in 1 .. kept(i) /\ Later(i, j) # Later(i, k)
      BY <1>1, <1>3, <1>8, <2>1 DEF Later
    <3>2. /\ Later(i, j) \in 1 .. Len(reads) /\ reads'[j].data = reads[Later(i, j)].data
          /\ Later(i, k) \in 1 .. Len(reads) /\ reads'[k].data = reads[Later(i, k)].data
      BY <1>3, <2>1, <3>1
    <3> QED BY <1>6, <3>1, <3>2
  <2>2. CASE ~(k \in 1 .. kept(i)) /\ j \in 1 .. kept(i)
    <3>1. k - kept(i) - 1 \in 0 .. LineLen - 1 /\ reads'[k].data = RdAddr + (k - kept(i) - 1)
      BY <1>3, <1>7, <2>2
    <3>3. reads'[j].data \in 0 .. RdAddr - 1
      BY <1>2, <1>3, <2>2
    <3> QED BY <1>1, <3>1, <3>3
  <2>3. CASE ~(k \in 1 .. kept(i)) /\ ~(j \in 1 .. kept(i))
    <3>1. /\ k - kept(i) - 1 \in 0 .. LineLen - 1 /\ j - kept(i) - 1 \in 0 .. LineLen - 1
          /\ reads'[k].data = RdAddr + (k - kept(i) - 1)
          /\ reads'[j].data = RdAddr + (j - kept(i) - 1)
      BY <1>3, <1>7, <2>3
    <3>2. kept(i) \in Nat
      BY ReadsElems
    <3> QED BY <1>1, <1>8, <3>1, <3>2, SMTT(60)
  <2> QED BY <2>1, <2>2, <2>3
<1>9. Distinct'
  <2>1. \A j, k \in 1 .. Len(reads') : j # k => j < k \/ k < j
    OBVIOUS
  <2> QED BY <1>8, <2>1 DEF Distinct
<1>10. Open' = {reads'[j].data : j \in 1 .. Len(reads')}
  BY DEF Open
<1> DEFINE kp == IF i = 0 THEN Open ELSE Open \ {reads[i].data}
           nw == IF sent THEN RdAddr .. RdAddr + LineLen - 1 ELSE {}
<1>11. ASSUME NEW a \in Open' PROVE a \in kp \cup nw
  <2>1. PICK j \in 1 .. Len(reads') : a = reads'[j].data
    BY <1>10
  <2>2. CASE j \in 1 .. kept(i)
    <3>1. a = reads[Later(i, j)].data /\ Later(i, j) \in 1 .. Len(reads) /\ Later(i, j) # i
      BY <1>3, <2>1, <2>2
    <3>2. a \in Open
      BY <3>1 DEF Open
    <3>3. i # 0 => a # reads[i].data
      BY <1>3, <1>6, <3>1
    <3> QED BY <3>2, <3>3
  <2>3. CASE ~(j \in 1 .. kept(i))
    <3>1. sent /\ j - kept(i) - 1 \in 0 .. LineLen - 1 /\ a = RdAddr + (j - kept(i) - 1)
      BY <1>3, <1>7, <2>1, <2>3
    <3> QED BY <1>1, <3>1
  <2> QED BY <2>2, <2>3
<1>12. ASSUME NEW a \in kp PROVE a \in Open'
  <2>1. PICK k \in 1 .. Len(reads) : a = reads[k].data /\ k # i
    BY <1>3, <1>6 DEF Open
  <2> DEFINE j == IF i = 0 THEN k ELSE IF k < i THEN k ELSE k - 1
  <2>2. j \in 1 .. kept(i) /\ Later(i, j) = k /\ kept(i) <= Len(reads')
    BY <1>1, <1>3, <2>1 DEF Later
  <2>3. j \in 1 .. Len(reads') /\ reads'[j].data = a
    BY <1>1, <1>3, <2>1, <2>2
  <2> QED BY <1>10, <2>3
<1>13. ASSUME NEW a \in nw PROVE a \in Open'
  <2>1. sent /\ a - RdAddr \in 0 .. LineLen - 1 /\ RdAddr + (a - RdAddr) = a
    BY <1>1
  <2>2. kept(i) \in Nat /\ a \in Int
    BY <1>1, ReadsElems
  <2> DEFINE j == kept(i) + (a - RdAddr) + 1
  <2>3. /\ j \in 1 .. Len(reads') /\ j > kept(i) /\ j - kept(i) - 1 = a - RdAddr
    BY <1>1, <1>3, <2>1, <2>2
  <2> HIDE DEF j
  <2>4. reads'[j].data = RdAddr + (a - RdAddr)
    BY <1>3, <2>3
  <2> QED BY <1>10, <2>1, <2>3, <2>4
<1>14. Open' = kp \cup nw
  <2> HIDE DEF kp, nw
  <2> QED BY <1>11, <1>12, <1>13
<1> QED BY <1>4, <1>5, <1>9, <1>14

-----------------------------------------------------------------------------
(* Which line belongs in a slot, and which slot a line belongs in.         *)
LEMMA BaseFacts ==
  ASSUME TypesIInv, FillInv
  PROVE  /\ RdAddr \in Nat /\ Num_buff_RdReq \in 0 .. BufReqs /\ Read_Buffer_ID \in {0, 1}
         /\ fbase \in Nat /\ (fbase = 0 \/ fbase >= B) /\ RdAddr = fbase + Ln(Num_buff_RdReq)
         /\ Ln(Num_buff_RdReq) \in 0 .. B
         /\ Num_buff_RdReq < BufReqs => Ln(Num_buff_RdReq) + LineLen <= B
         /\ B \in Nat /\ B >= LineLen
         /\ \A b \in Buffers : Base(b) \in Int /\ (Base(b) >= 0 \/ Base(b) = -B)
<1>1. /\ RdAddr \in Nat /\ Num_buff_RdReq \in 0 .. BufReqs /\ Read_Buffer_ID \in {0, 1}
      /\ fbase = 0 \/ fbase >= B
  BY DEF TypesIInv, TypeOK, Counters, Buffers, FillInv
<1>2. /\ fbase \in Nat /\ RdAddr = fbase + Ln(Num_buff_RdReq)
      /\ Ln(Num_buff_RdReq) \in 0 .. B /\ B \in Nat /\ B >= LineLen
      /\ Num_buff_RdReq < BufReqs => Ln(Num_buff_RdReq) + LineLen <= B
  BY <1>1 DEF fbase, Ln, B
<1>3. \A b \in Buffers : Base(b) \in Int /\ (Base(b) >= 0 \/ Base(b) = -B)
  BY <1>1, <1>2 DEF Base
<1> QED BY <1>1, <1>2, <1>3

LEMMA AtFacts ==
  ASSUME TypesIInv, FillInv, NEW b \in Buffers, NEW s \in Slots
  PROVE  /\ At(b, s) \in Int /\ Base(b) <= At(b, s) /\ At(b, s) < Base(b) + B
         /\ At(b, s) >= 0 => Base(b) >= 0
         /\ s = <<s[1], s[2]>> /\ s[1] \in 0 .. BufReqs - 1 /\ s[2] \in 0 .. LineLen - 1
         /\ <<s[1], 0>> \in Slots /\ At(b, s) = At(b, <<s[1], 0>>) + s[2]
         /\ At(b, <<s[1], 0>>) = Base(b) + Ln(s[1])
<1>1. s = <<s[1], s[2]>> /\ s[1] \in 0 .. BufReqs - 1 /\ s[2] \in 0 .. LineLen - 1
  BY DEF Slots
<1>2. /\ Base(b) \in Int /\ (Base(b) >= 0 \/ Base(b) = -B) /\ B \in Nat
  BY BaseFacts
<1>3. Ln(s[1]) \in Nat /\ Ln(s[1]) + LineLen <= B
  BY <1>1 DEF Ln, B
<1>4. At(b, s) = Base(b) + Ln(s[1]) + s[2] /\ At(b, <<s[1], 0>>) = Base(b) + Ln(s[1])
  BY <1>2, <1>3 DEF At
<1>5. <<s[1], 0>> \in Slots
  BY <1>1 DEF Slots
<1> QED BY <1>1, <1>2, <1>3, <1>4, <1>5

LEMMA AtUnique ==
  ASSUME TypesIInv, FillInv, NEW b \in Buffers, NEW s \in Slots,
         NEW c \in Buffers, NEW r \in Slots, At(b, s) = At(c, r)
  PROVE  b = c /\ s = r
<1>1. /\ At(b, s) \in Int /\ Base(b) <= At(b, s) /\ At(b, s) < Base(b) + B
      /\ Base(c) <= At(c, r) /\ At(c, r) < Base(c) + B
  BY AtFacts
<1>2. b = c
  <2>1. b # c => Base(b) = Base(c) - B \/ Base(b) = Base(c) + B
    BY BaseFacts DEF Base, Buffers
  <2>2. Base(b) \in Int /\ Base(c) \in Int /\ B \in Nat
    BY BaseFacts
  <2> QED BY <1>1, <2>1, <2>2
<1>3. s = r
  <2>1. /\ s = <<s[1], s[2]>> /\ s[1] \in 0 .. BufReqs - 1 /\ s[2] \in 0 .. LineLen - 1
        /\ r = <<r[1], r[2]>> /\ r[1] \in 0 .. BufReqs - 1 /\ r[2] \in 0 .. LineLen - 1
    BY AtFacts
  <2>2. Base(b) + Ln(s[1]) + s[2] = Base(b) + Ln(r[1]) + r[2]
    BY <1>2 DEF At
  <2>3. Base(b) \in Int /\ Ln(s[1]) \in Int /\ Ln(r[1]) \in Int
    BY <2>1, BaseFacts, LnFacts
  <2>4. Ln(s[1]) + s[2] = Ln(r[1]) + r[2]
    BY <2>1, <2>2, <2>3
  <2>5. s[1] = r[1] /\ s[2] = r[2]
    BY <2>1, <2>4, LnOne
  <2> QED BY <2>1, <2>5
<1> QED BY <1>2, <1>3

(* A request in flight is of the block its buffer holds.                   *)
LEMMA ReadPlace ==
  ASSUME TypesIInv, FillInv, ReadsInv, NEW k \in 1 .. Len(reads)
  PROVE  /\ reads[k].buf \in Buffers /\ <<reads[k].tag, reads[k].cl>> \in Slots
         /\ reads[k].tag \in 0 .. BufReqs - 1 /\ reads[k].cl \in 0 .. LineLen - 1
         /\ reads[k].data \in 0 .. RdAddr - 1
         /\ reads[k].data = At(reads[k].buf, <<reads[k].tag, reads[k].cl>>)
         /\ reads[k].data \in OpenOf(reads[k].buf)
<1>1. reads[k] \in Reads
  BY ElementOfSeq DEF TypesIInv, Memories
<1>2. /\ reads[k].buf \in Buffers /\ <<reads[k].tag, reads[k].cl>> \in Slots
      /\ reads[k].tag \in 0 .. BufReqs - 1 /\ reads[k].cl \in 0 .. LineLen - 1
      /\ reads[k].data \in Nat
  BY <1>1 DEF Reads, Slots
<1>3. /\ reads[k].data = At(reads[k].buf, <<reads[k].tag, reads[k].cl>>)
      /\ reads[k].data < RdAddr /\ reads[k].data \in Open
  BY DEF ReadsInv, Open
<1>4. InBlock(reads[k].buf, reads[k].data)
  BY <1>2, <1>3, AtFacts DEF InBlock
<1> QED BY <1>2, <1>3, <1>4, BaseFacts, SMTT(60) DEF OpenOf

(* A buffer that is taken up for filling has no request in flight, and no  *)
(* response on its way to the RAM.                                         *)
LEMMA TakenUpEmpty ==
  ASSUME TypesIInv, Finite, FillInv, ReadsInv, CountInv,
         NEW g, NEW sent, NEW i, NEW drain, NEW n, AnyClk(g, sent, i, drain, n),
         NEW b \in Buffers, Base(b)' # Base(b)
  PROVE  /\ \A k \in 1 .. Len(reads) : reads[k].buf # b
         /\ ~Storing(b) /\ buff_status[b] = "READ" /\ ~sent /\ RdAddr' = RdAddr
         /\ Base(b)' = RdAddr
<1>1. buff_serviced[b] /\ buff_status[b] = "READ" /\ Base(b)' = RdAddr
  BY BaseMoves
<1>2. Read_Buffer_ID' # Read_Buffer_ID
  BY BaseMoves
<1>3. ~sent /\ RdAddr' = RdAddr
  BY <1>2, FillMoves, BaseFacts
<1>4. CASE rd_cmplt
  <2>1. Len(reads) = 0 /\ ~memwr.valid
    BY <1>4 DEF CountInv, TotalInv
  <2> QED BY <1>1, <1>3, <2>1 DEF Storing
<1>5. CASE ~rd_cmplt
  <2>1. OpenOf(b) = {} /\ ~Storing(b)
    BY <1>1, <1>5 DEF CountInv, BufferInv
  <2>2. \A k \in 1 .. Len(reads) : reads[k].data \in OpenOf(reads[k].buf)
    BY ReadPlace
  <2> QED BY <1>1, <1>3, <2>1, <2>2
<1> QED BY <1>4, <1>5

(* What a step does to the line of a slot.                                 *)
LEMMA AtMoves ==
  ASSUME TypesIInv, Finite, FillInv, ReadsInv, CountInv,
         NEW g, NEW sent, NEW i, NEW drain, NEW n, AnyClk(g, sent, i, drain, n),
         NEW b \in Buffers, NEW s \in Slots
  PROVE  /\ Base(b)' = Base(b) => At(b, s)' = At(b, s)
         /\ Base(b)' # Base(b) => At(b, s)' >= RdAddr /\ RdAddr' = RdAddr /\ At(b, s)' \in Int
<1>1. At(b, s)' = Base(b)' + Ln(s[1]) + s[2] /\ At(b, s) = Base(b) + Ln(s[1]) + s[2]
  BY DEF At, Ln
<1>2. Base(b)' # Base(b) => Base(b)' = RdAddr /\ RdAddr' = RdAddr
  BY TakenUpEmpty
<1>3. RdAddr \in Nat /\ Ln(s[1]) \in Nat /\ s[2] \in Nat
  <2>1. s[1] \in 0 .. BufReqs - 1 /\ s[2] \in 0 .. LineLen - 1
    BY AtFacts
  <2>2. Ln(s[1]) \in Nat
    BY <2>1 DEF Ln
  <2> QED BY <2>1, <2>2, BaseFacts
<1> QED BY <1>1, <1>2, <1>3

LEMMA ReadsInvStep ==
  ASSUME TypesIInv, Finite, FillInv, ReadsInv, CountInv,
         NEW g, NEW sent, NEW i, NEW drain, NEW n, AnyClk(g, sent, i, drain, n)
  PROVE  ReadsInv'
<1>0. /\ RdAddr \in Nat /\ RdAddr' = RdAddr + (IF sent THEN LineLen ELSE 0)
      /\ sent \in BOOLEAN /\ RdAddr' >= RdAddr /\ RdAddr' \in Nat
  BY BaseFacts, FillMoves DEF AnyClk
<1>1. \A b \in Buffers, s \in Slots :
        (\E k \in 1 .. Len(reads) : reads[k].buf = b) \/ Storing(b) => At(b, s)' = At(b, s)
  BY TakenUpEmpty, AtMoves
<1>2. ASSUME NEW j \in 1 .. Len(reads')
      PROVE  /\ reads'[j].data = At(reads[j].buf, <<reads[j].tag, reads[j].cl>>)'
             /\ reads'[j].data < RdAddr'
  <2>1. CASE j \in 1 .. kept(i)
    <3>1. PICK k \in 1 .. Len(reads) : reads'[j] = reads[k]
      BY <2>1, ReadsElems
    <3>2. PICK b \in Buffers, t \in 0 .. BufReqs - 1, c \in 0 .. LineLen - 1 :
            /\ reads[k].buf = b /\ reads[k].tag = t /\ reads[k].cl = c
            /\ reads[k].data = At(b, <<t, c>>) /\ reads[k].data \in 0 .. RdAddr - 1
            /\ <<t, c>> \in Slots
      BY ReadPlace
    <3>3. At(b, <<t, c>>)' = At(b, <<t, c>>)
      BY <1>1, <3>2
    <3>4. At(reads[j].buf, <<reads[j].tag, reads[j].cl>>)' = At(b, <<t, c>>)'
      BY <3>1, <3>2
    <3> QED BY <1>0, <3>1, <3>2, <3>3, <3>4
  <2>2. CASE ~(j \in 1 .. kept(i))
    <3> DEFINE c == j - kept(i) - 1
    <3>1. sent /\ c \in 0 .. LineLen - 1 /\ reads'[j] = NewRead(c)
      BY <2>2, ReadsElems
    <3> HIDE DEF c
    <3>2. /\ reads'[j].buf = Read_Buffer_ID /\ reads'[j].tag = Num_buff_RdReq
          /\ reads'[j].cl = c /\ reads'[j].data = RdAddr + c
      BY <3>1 DEF NewRead
    <3>3. Read_Buffer_ID' = Read_Buffer_ID /\ fbase' = fbase
      BY <3>1, FillMoves
    <3>4. At(reads[j].buf, <<reads[j].tag, reads[j].cl>>)' = fbase' + Ln(Num_buff_RdReq) + c
      BY <3>2, <3>3 DEF At, Base, Ln
    <3>5. RdAddr = fbase + Ln(Num_buff_RdReq)
      BY BaseFacts
    <3>6. RdAddr' = RdAddr + LineLen
      BY <1>0, <3>1
    <3> QED BY <1>0, <3>1, <3>2, <3>3, <3>4, <3>5, <3>6
  <2> QED BY <2>1, <2>2
<1>3. Distinct'
  BY OpenMoves
<1>4. ASSUME NEW b \in Buffers, NEW t \in 0 .. BufReqs - 1,
             0 <= At(b, <<t, 0>>)', At(b, <<t, 0>>)' < RdAddr'
      PROVE  arb_rd_mem'[<<b, t>>] = At(b, <<t, 0>>)'
  <2>1. <<t, 0>> \in Slots /\ <<b, t>> \in Tags
    BY DEF Slots, Tags
  <2>2. arb_rd_mem' = IF RdEn THEN [arb_rd_mem EXCEPT ![RdTID] = RdAddr] ELSE arb_rd_mem
    BY ClkParts DEF Remember
  <2>3. arb_rd_mem \in [Tags -> Nat] /\ (RdEn => RdTID = <<Read_Buffer_ID, Num_buff_RdReq>>)
    BY DEF TypesIInv, Memories, RdTID
  <2>4. Base(b)' = Base(b)
    BY <1>4, <2>1, AtMoves, BaseFacts
  <2>5. At(b, <<t, 0>>)' = At(b, <<t, 0>>)
    BY <2>1, <2>4, AtMoves
  <2>6. At(b, <<t, 0>>) = Base(b) + Ln(t) /\ Base(b) \in Int /\ Ln(t) \in Nat
    BY <2>1, AtFacts, BaseFacts, LnFacts
  <2>7. CASE At(b, <<t, 0>>) < RdAddr
    <3>1. arb_rd_mem[<<b, t>>] = At(b, <<t, 0>>)
      BY <1>4, <2>5, <2>7 DEF ReadsInv
    <3>2. <<b, t>> # <<Read_Buffer_ID, Num_buff_RdReq>>
      <4> SUFFICES ASSUME b = Read_Buffer_ID, t = Num_buff_RdReq PROVE FALSE
        OBVIOUS
      <4>1. At(b, <<t, 0>>) = fbase + Ln(Num_buff_RdReq)
        BY <2>6 DEF Base
      <4> QED BY <2>7, <4>1, BaseFacts
    <3> QED BY <2>1, <2>2, <2>3, <2>5, <3>1, <3>2
  <2>8. CASE ~(At(b, <<t, 0>>) < RdAddr)
    <3>1. sent /\ At(b, <<t, 0>>) < RdAddr + LineLen
      BY <1>0, <1>4, <2>5, <2>6, <2>8
    <3>2. Num_buff_RdReq < BufReqs /\ RdEn
      BY <3>1, FillMoves, ClkParts
    <3>3. b = Read_Buffer_ID
      <4> SUFFICES ASSUME b # Read_Buffer_ID PROVE FALSE
        OBVIOUS
      <4>1. Base(b) = fbase - B /\ Ln(t) + LineLen <= B
        BY DEF Base, Ln, B
      <4> QED BY <2>6, <2>8, <4>1, BaseFacts
    <3>4. fbase + Ln(t) >= fbase + Ln(Num_buff_RdReq)
           /\ fbase + Ln(t) < fbase + Ln(Num_buff_RdReq) + LineLen
      BY <2>6, <2>8, <3>1, <3>3, BaseFacts DEF Base
    <3>5. t = Num_buff_RdReq
      BY <3>4, BaseFacts DEF Ln
    <3>6. arb_rd_mem'[<<b, t>>] = RdAddr
      BY <2>1, <2>2, <2>3, <3>2, <3>3, <3>5
    <3>7. At(b, <<t, 0>>) = RdAddr
      BY <2>6, <3>3, <3>5, BaseFacts DEF Base
    <3> QED BY <2>5, <3>6, <3>7
  <2> QED BY <2>7, <2>8
<1>5. ASSUME memwr'.valid
      PROVE  /\ memwr'.addr = At(memwr.buf, <<memwr.tag, 0>>)'
             /\ memwr'.data = At(memwr.buf, <<memwr.tag, memwr.cl>>)'
             /\ memwr'.data < RdAddr' /\ memwr'.data \notin Open'
  <2>1. memwr' = Response(i) /\ Response(i).valid = (i # 0)
    BY MemoriesStep, ResponseType
  <2>2. i # 0
    BY <1>5, <2>1
  <2>3. /\ i \in 1 .. Len(reads)
        /\ memwr'.buf = reads[i].buf /\ memwr'.tag = reads[i].tag /\ memwr'.cl = reads[i].cl
        /\ memwr'.addr = arb_rd_mem[<<reads[i].buf, reads[i].tag>>]
        /\ memwr'.data = reads[i].data
    BY <2>1, <2>2, ResponseType
  <2>4. PICK b \in Buffers, t \in 0 .. BufReqs - 1, c \in 0 .. LineLen - 1 :
          /\ reads[i].buf = b /\ reads[i].tag = t /\ reads[i].cl = c
          /\ reads[i].data = At(b, <<t, c>>) /\ reads[i].data \in 0 .. RdAddr - 1
          /\ <<t, c>> \in Slots
    BY <2>3, ReadPlace
  <2>5. <<t, 0>> \in Slots
    BY DEF Slots
  <2>6. At(b, <<t, c>>)' = At(b, <<t, c>>) /\ At(b, <<t, 0>>)' = At(b, <<t, 0>>)
    BY <1>1, <2>3, <2>4, <2>5
  <2>7. /\ At(memwr.buf, <<memwr.tag, 0>>)' = At(b, <<t, 0>>)'
        /\ At(memwr.buf, <<memwr.tag, memwr.cl>>)' = At(b, <<t, c>>)'
    BY <2>3, <2>4
  <2>8. arb_rd_mem[<<b, t>>] = At(b, <<t, 0>>)
    <3>1. /\ At(b, <<t, c>>) >= 0 => Base(b) >= 0
          /\ At(b, <<t, c>>) = At(b, <<t, 0>>) + c
      <4> DEFINE s == <<t, c>>
      <4>1. s \in Slots /\ s[1] = t /\ s[2] = c
        BY <2>4
      <4> HIDE DEF s
      <4>2. (At(b, s) >= 0 => Base(b) >= 0) /\ At(b, s) = At(b, <<s[1], 0>>) + s[2]
        BY <4>1, AtFacts
      <4> QED BY <4>1, <4>2 DEF s
    <3>2. At(b, <<t, 0>>) \in Int /\ Base(b) <= At(b, <<t, 0>>) /\ Base(b) \in Int
      BY <2>5, AtFacts, BaseFacts
    <3>3. 0 <= At(b, <<t, 0>>) /\ At(b, <<t, 0>>) < RdAddr
      BY <1>0, <2>4, <3>1, <3>2
    <3> QED BY <3>3 DEF ReadsInv
  <2>9. reads[i].data \notin Open'
    <3>1. Open' = (Open \ {reads[i].data}) \cup (IF sent THEN RdAddr .. RdAddr + LineLen - 1 ELSE {})
      BY <2>2, OpenMoves
    <3> QED BY <1>0, <2>4, <3>1
  <2> QED BY <1>0, <2>3, <2>4, <2>6, <2>7, <2>8, <2>9
<1>6. ReadsInv'
  <2>1. \A j \in 1 .. Len(reads') :
          /\ reads'[j].data = At(reads[j].buf, <<reads[j].tag, reads[j].cl>>)'
          /\ reads'[j].data < RdAddr'
    BY <1>2
  <2>2. \A b \in Buffers, t \in 0 .. BufReqs - 1 :
          0 <= At(b, <<t, 0>>)' /\ At(b, <<t, 0>>)' < RdAddr' =>
            arb_rd_mem'[<<b, t>>] = At(b, <<t, 0>>)'
    BY <1>4
  <2>3. memwr'.valid => /\ memwr'.addr = At(memwr.buf, <<memwr.tag, 0>>)'
                        /\ memwr'.data = At(memwr.buf, <<memwr.tag, memwr.cl>>)'
                        /\ memwr'.data < RdAddr' /\ memwr'.data \notin Open'
    BY <1>5
  <2> QED BY <1>3, <2>1, <2>2, <2>3 DEF ReadsInv, Distinct
<1> QED BY <1>6

LEMMA MemwrMoves ==
  ASSUME TypesIInv, NEW g, NEW sent, NEW i, NEW drain, NEW n, AnyClk(g, sent, i, drain, n)
  PROVE  /\ memwr'.valid <=> i # 0
         /\ i # 0 => /\ i \in 1 .. Len(reads)
                     /\ memwr'.buf = reads[i].buf /\ memwr'.tag = reads[i].tag
                     /\ memwr'.cl = reads[i].cl /\ memwr'.data = reads[i].data
<1>1. memwr' = Response(i) /\ Response(i).valid = (i # 0)
  BY MemoriesStep, ResponseType
<1>2. memwr'.valid <=> i # 0
  BY <1>1, Zenon
<1>3. ASSUME i # 0
      PROVE  /\ i \in 1 .. Len(reads)
             /\ memwr'.buf = reads[i].buf /\ memwr'.tag = reads[i].tag
             /\ memwr'.cl = reads[i].cl /\ memwr'.data = reads[i].data
  <2>1. /\ i \in 1 .. Len(reads)
        /\ Response(i) = [valid |-> TRUE, buf |-> reads[i].buf,
                          tag |-> reads[i].tag, cl |-> reads[i].cl,
                          addr |-> arb_rd_mem[<<reads[i].buf, reads[i].tag>>],
                          data |-> reads[i].data]
    BY <1>3, ResponseType
  <2> QED BY <1>1, <2>1
<1> QED BY <1>2, <1>3

LEMMA RamInvStep ==
  ASSUME TypesIInv, Finite, FillInv, ReadsInv, CountInv, RamInv,
         NEW g, NEW sent, NEW i, NEW drain, NEW n, AnyClk(g, sent, i, drain, n)
  PROVE  RamInv'
<1>1. ASSUME NEW b \in Buffers, NEW s \in Slots,
             0 <= At(b, s)', At(b, s)' < RdAddr', At(b, s)' \notin Open',
             ~(Storing(b)' /\ <<memwr'.tag, memwr'.cl>> = s)
      PROVE  ram'[b][s] = Line(At(b, s))'
  <2>0. /\ RdAddr \in Nat /\ RdAddr' = RdAddr + (IF sent THEN LineLen ELSE 0)
        /\ sent \in BOOLEAN /\ At(b, s) \in Int
    <3>1. RdAddr \in Nat /\ sent \in BOOLEAN
      BY BaseFacts DEF AnyClk
    <3>2. RdAddr' = RdAddr + (IF sent THEN LineLen ELSE 0)
      BY FillMoves
    <3>3. At(b, s) \in Int
      BY AtFacts
    <3> QED BY <3>1, <3>2, <3>3
  <2>1. At(b, s)' = At(b, s)
    BY <1>1, <2>0, AtMoves
  <2>2. Open' = (IF i = 0 THEN Open ELSE Open \ {reads[i].data})
                  \cup (IF sent THEN RdAddr .. RdAddr + LineLen - 1 ELSE {})
    BY OpenMoves
  <2>3. 0 <= At(b, s) /\ At(b, s) < RdAddr
    BY <1>1, <2>0, <2>1, <2>2
  <2>4. At(b, s) \notin Open
    <3> SUFFICES ASSUME At(b, s) \in Open PROVE FALSE
      OBVIOUS
    <3>1. i # 0 /\ reads[i].data = At(b, s)
      BY <1>1, <2>1, <2>2
    <3>2. /\ i \in 1 .. Len(reads) /\ memwr'.valid
          /\ memwr'.buf = reads[i].buf /\ memwr'.tag = reads[i].tag /\ memwr'.cl = reads[i].cl
      BY <3>1, MemwrMoves
    <3>3. PICK c \in Buffers, r \in Slots :
            /\ reads[i].buf = c /\ <<reads[i].tag, reads[i].cl>> = r
            /\ reads[i].data = At(c, r)
      BY <3>2, ReadPlace
    <3>4. c = b /\ r = s
      <4>1. At(c, r) = At(b, s)
        BY <3>1, <3>3
      <4> QED BY <4>1, AtUnique
    <3>5. reads[i].buf = b /\ <<reads[i].tag, reads[i].cl>> = s
      BY <3>3, <3>4
    <3> QED BY <1>1, <3>2, <3>5 DEF Storing
  <2>5. ram' = IF memwr.valid
                 THEN [ram EXCEPT ![memwr.buf][<<memwr.tag, memwr.cl>>] =
                         [addr |-> memwr.addr + memwr.cl, data |-> memwr.data]]
                 ELSE ram
    BY ClkParts DEF ReadResponses
  <2>6. DOMAIN ram = Buffers /\ DOMAIN ram[b] = Slots
    BY DEF TypesIInv, Memories
  <2>7. Line(At(b, s))' = Line(At(b, s))
    BY <2>1 DEF Line
  <2>8. CASE Storing(b) /\ <<memwr.tag, memwr.cl>> = s
    <3>1. /\ memwr.addr = At(b, <<s[1], 0>>) /\ memwr.data = At(b, s) /\ memwr.cl = s[2]
          /\ memwr.valid /\ memwr.buf = b
      <4>1. memwr.tag = s[1] /\ memwr.cl = s[2] /\ memwr.buf = b /\ memwr.valid
        BY <2>8 DEF Storing
      <4> QED BY <2>8, <4>1 DEF ReadsInv
    <3>2. At(b, s) = At(b, <<s[1], 0>>) + s[2]
      BY AtFacts
    <3>3. ram'[b][s] = [addr |-> memwr.addr + memwr.cl, data |-> memwr.data]
      BY <2>5, <2>6, <2>8, <3>1
    <3> QED BY <2>7, <3>1, <3>2, <3>3 DEF Line
  <2>9. CASE ~(Storing(b) /\ <<memwr.tag, memwr.cl>> = s)
    <3>1. ram'[b][s] = ram[b][s]
      BY <2>5, <2>6, <2>9 DEF Storing
    <3>2. ram[b][s] = Line(At(b, s))
      BY <2>3, <2>4, <2>9 DEF RamInv
    <3> QED BY <2>7, <3>1, <3>2
  <2> QED BY <2>8, <2>9
<1> QED BY <1>1 DEF RamInv

-----------------------------------------------------------------------------
(* The responses counted.                                                  *)
LEMMA ReadBound ==
  ASSUME TypesIInv, Finite, FillInv,
         NEW g, NEW sent, NEW i, NEW drain, NEW n, AnyClk(g, sent, i, drain, n)
  PROVE  RdAddr <= N /\ (sent => RdAddr + LineLen <= N) /\ N \in Nat /\ N > 0 /\ N < CountMod
<1>1. N \in Nat /\ RdAddr \in Nat /\ read_fsm \in 0 .. 2
  BY DEF TypesIInv, TypeOK, Counters, N
<1>2. N > 0 /\ N < CountMod
  BY DEF Finite
<1>3. sent => read_fsm = 1
  BY FillMoves
<1>4. /\ read_fsm = 0 => RdAddr = 0
      /\ read_fsm = 1 => RdAddr + LineLen <= N
      /\ read_fsm = 2 => RdAddr = N
  BY DEF FillInv
<1> QED BY <1>1, <1>2, <1>3, <1>4

LEMMA ResponseMoves ==
  ASSUME TypesIInv, Finite, FillInv, TotalInv,
         NEW g, NEW sent, NEW i, NEW drain, NEW n, AnyClk(g, sent, i, drain, n)
  PROVE  /\ Total_Num_RdRsp' = Total_Num_RdRsp + (IF i = 0 THEN 0 ELSE 1)
         /\ trigger_rds_done' <=> readsComplete(N)
         /\ rd_cmplt' <=> rd_cmplt \/ readsComplete(N)
         /\ Total_Num_RdRsp \in Nat /\ Total_Num_RdRsp = RdAddr - Len(reads)
<1>1. ReadResponses(go, NumLines, Cont, Response(i)) /\ Response(i).valid = (i # 0)
  BY ClkParts, ResponseType
<1>2. Total_Num_RdRsp' = (Total_Num_RdRsp + (IF i = 0 THEN 0 ELSE 1)) % (2 * CountMod)
  <2>1. Total_Num_RdRsp' =
          (Total_Num_RdRsp + (IF Response(i).valid THEN 1 ELSE 0)) % (2 * CountMod)
    BY <1>1 DEF ReadResponses
  <2>2. (IF Response(i).valid THEN 1 ELSE 0) = (IF i = 0 THEN 0 ELSE 1)
    <3>1. Response(i).valid <=> i # 0
      BY <1>1, Zenon
    <3> QED BY <3>1
  <2> QED BY <2>1, <2>2
<1>3. /\ Total_Num_RdRsp \in Nat /\ Total_Num_RdRsp = RdAddr - Len(reads)
      /\ Len(reads) \in Nat /\ (i = 0 \/ i \in 1 .. Len(reads))
  BY ReadsElems DEF TypesIInv, Counters, TotalInv
<1>4. /\ RdAddr \in Nat /\ RdAddr <= N /\ N < CountMod /\ N \in Nat
  BY ReadBound, BaseFacts
<1>5. Total_Num_RdRsp + (IF i = 0 THEN 0 ELSE 1) \in 0 .. 2 * CountMod - 1
  BY <1>3, <1>4, ModAssumption
<1>6. 2 * CountMod \in Nat
  BY ModAssumption
<1>7. Total_Num_RdRsp' = Total_Num_RdRsp + (IF i = 0 THEN 0 ELSE 1)
  BY <1>2, <1>5, <1>6, ModSmall
<1>8. /\ trigger_rds_done' <=> readsComplete(N)
      /\ rd_cmplt' <=> rd_cmplt \/ readsComplete(N)
  BY <1>1, Zenon DEF ReadResponses, N
<1> QED BY <1>3, <1>7, <1>8

LEMMA TotalInvStep ==
  ASSUME TypesIInv, Finite, FillInv, TotalInv, CtlInv,
         NEW g, NEW sent, NEW i, NEW drain, NEW n, AnyClk(g, sent, i, drain, n)
  PROVE  TotalInv'
<1>1. /\ Total_Num_RdRsp' = Total_Num_RdRsp + (IF i = 0 THEN 0 ELSE 1)
      /\ trigger_rds_done' <=> readsComplete(N)
      /\ rd_cmplt' <=> rd_cmplt \/ readsComplete(N)
      /\ Total_Num_RdRsp \in Nat /\ Total_Num_RdRsp = RdAddr - Len(reads)
  BY ResponseMoves
<1>2. /\ RdAddr <= N /\ (sent => RdAddr + LineLen <= N) /\ N \in Nat /\ N > 0 /\ N' = N
      /\ RdAddr \in Nat
  BY ReadBound, ClkParts, BaseFacts DEF N
<1>3. /\ RdAddr' = RdAddr + (IF sent THEN LineLen ELSE 0)
      /\ sent \in BOOLEAN
  BY FillMoves DEF AnyClk
<1>4. /\ Len(reads) \in Nat /\ (i = 0 \/ i \in 1 .. Len(reads))
      /\ Len(reads') = Len(reads) - (IF i = 0 THEN 0 ELSE 1) + (IF sent THEN LineLen ELSE 0)
  BY ReadsElems, ReadsStep
<1>5. memwr'.valid <=> i # 0
  BY MemwrMoves
<1>6. Total_Num_RdRsp' = RdAddr' - Len(reads')
  BY <1>1, <1>2, <1>3, <1>4
<1>7. Total_Num_RdRsp' = N /\ ~rd_cmplt' => i # 0
  <2> SUFFICES ASSUME Total_Num_RdRsp' = N, ~rd_cmplt', i = 0 PROVE FALSE
    OBVIOUS
  <2>1. Total_Num_RdRsp = N /\ RdAddr > 0
    BY <1>1, <1>2, <1>4
  <2>2. ~rd_cmplt /\ ~readsComplete(N)
    BY <1>1
  <2>3. ~TestCmp
    BY <2>2 DEF CtlInv
  <2>4. finite_test
    BY <2>1, <2>3 DEF FillInv
  <2> QED BY <2>1, <2>2, <2>4 DEF readsComplete
<1>8. rd_cmplt' => i = 0 /\ ~sent /\ RdAddr = N /\ Len(reads) = 0
  <2>1. CASE rd_cmplt
    <3>1. Len(reads) = 0 /\ RdAddr = N
      BY <2>1 DEF TotalInv
    <3> QED BY <1>2, <1>4, <3>1
  <2>2. CASE readsComplete(N)
    <3>1. Total_Num_RdRsp = N
      BY <2>2 DEF readsComplete
    <3>2. Len(reads) = 0 /\ RdAddr = N
      BY <1>1, <1>2, <1>4, <3>1
    <3> QED BY <1>2, <1>4, <3>2
  <2> QED BY <1>1, <2>1, <2>2
<1>9. rd_cmplt' => Len(reads') = 0 /\ RdAddr' = N /\ ~memwr'.valid
  BY <1>2, <1>3, <1>4, <1>5, <1>8
<1> QED BY <1>1, <1>2, <1>5, <1>6, <1>7, <1>9 DEF TotalInv

LEMMA OpenFinite ==
  ASSUME TypesIInv, FillInv, ReadsInv, NEW b \in Buffers
  PROVE  /\ IsFiniteSet(OpenOf(b)) /\ Cardinality(OpenOf(b)) \in Nat
         /\ Cardinality(OpenOf(b)) = 0 <=> OpenOf(b) = {}
<1>1. RdAddr \in Nat
  BY BaseFacts
<1>2. OpenOf(b) \subseteq 0 .. RdAddr - 1
  <2>1. \A k \in 1 .. Len(reads) : reads[k].data \in 0 .. RdAddr - 1
    BY ReadPlace
  <2> QED BY <2>1 DEF OpenOf, Open
<1>3. IsFiniteSet(0 .. RdAddr - 1)
  BY <1>1, FS_Interval
<1>4. IsFiniteSet(OpenOf(b))
  BY <1>2, <1>3, FS_Subset
<1> QED BY <1>4, FS_CardinalityType, FS_EmptySet

(* What a step does to the open lines of a buffer and to what it is owed.  *)
LEMMA OpenOfMoves ==
  ASSUME TypesIInv, Finite, FillInv, ReadsInv, CountInv,
         NEW g, NEW sent, NEW i, NEW drain, NEW n, AnyClk(g, sent, i, drain, n),
         NEW b \in Buffers, Base(b)' = Base(b)
  PROVE  /\ Cardinality(OpenOf(b)') =
              Cardinality(OpenOf(b))
                - (IF i = 0 THEN 0 ELSE IF reads[i].buf = b THEN 1 ELSE 0)
                + (IF sent /\ b = Read_Buffer_ID THEN LineLen ELSE 0)
         /\ OpenOf(b) = {} /\ ~(sent /\ b = Read_Buffer_ID) => OpenOf(b)' = {}
         /\ OpenOf(b) = {} => (i = 0 \/ reads[i].buf # b)
<1> DEFINE kp == IF i = 0 THEN OpenOf(b)
                 ELSE IF reads[i].buf = b THEN OpenOf(b) \ {reads[i].data} ELSE OpenOf(b)
           nw == IF sent /\ b = Read_Buffer_ID THEN RdAddr .. RdAddr + LineLen - 1 ELSE {}
<1>0. i = 0 \/ i \in 1 .. Len(reads)
  BY ReadsElems
<1>1. i # 0 => reads[i].buf \in Buffers /\ reads[i].data \in OpenOf(reads[i].buf)
  BY <1>0, ReadPlace
<1>2. i # 0 /\ reads[i].buf # b => reads[i].data \notin OpenOf(b)
  <2> SUFFICES ASSUME i # 0, reads[i].buf # b, reads[i].data \in OpenOf(b) PROVE FALSE
    OBVIOUS
  <2>1. PICK c \in Buffers, d \in OpenOf(b) : c = reads[i].buf /\ d = reads[i].data
    BY <1>1
  <2>2. Base(b) <= d /\ d < Base(b) + B /\ Base(c) <= d /\ d < Base(c) + B /\ b # c
    BY <1>1, <2>1 DEF OpenOf, InBlock
  <2>3. Base(b) = Base(c) - B \/ Base(b) = Base(c) + B
    BY <2>2, BaseFacts DEF Base, Buffers
  <2>4. Base(b) \in Int /\ Base(c) \in Int /\ B \in Nat /\ RdAddr \in Nat
    BY BaseFacts
  <2>5. d \in 0 .. RdAddr - 1
    BY <1>0, <2>1, ReadPlace
  <2> QED BY <2>2, <2>3, <2>4, <2>5
<1>3. /\ Open' = (IF i = 0 THEN Open ELSE Open \ {reads[i].data})
                   \cup (IF sent THEN RdAddr .. RdAddr + LineLen - 1 ELSE {})
      /\ Open \subseteq 0 .. RdAddr - 1
  BY OpenMoves
<1>4. OpenOf(b)' = {a \in Open' : Base(b) <= a /\ a < Base(b) + B}
  <2>1. OpenOf(b)' = {a \in Open' : Base(b)' <= a /\ a < Base(b)' + B}
    BY DEF OpenOf, InBlock, B, Ln
  <2> QED BY <2>1
<1>5. OpenOf(b) = {a \in Open : Base(b) <= a /\ a < Base(b) + B}
  BY DEF OpenOf, InBlock
<1>6. \A a \in RdAddr .. RdAddr + LineLen - 1 :
        sent => (Base(b) <= a /\ a < Base(b) + B <=> b = Read_Buffer_ID)
  <2> SUFFICES ASSUME sent, NEW a \in RdAddr .. RdAddr + LineLen - 1
               PROVE  Base(b) <= a /\ a < Base(b) + B <=> b = Read_Buffer_ID
    OBVIOUS
  <2>1. Num_buff_RdReq < BufReqs
    BY FillMoves
  <2>2. /\ Ln(Num_buff_RdReq) + LineLen <= B /\ RdAddr = fbase + Ln(Num_buff_RdReq)
        /\ fbase \in Nat /\ B \in Nat /\ RdAddr \in Nat /\ Ln(Num_buff_RdReq) \in 0 .. B
    BY <2>1, BaseFacts
  <2>3. Base(b) = IF b = Read_Buffer_ID THEN fbase ELSE fbase - B
    BY DEF Base
  <2> QED BY <2>2, <2>3
<1>7. OpenOf(b)' = kp \cup nw
  <2>1. ASSUME NEW a PROVE a \in OpenOf(b)' <=> a \in kp \cup nw
    <3>1. CASE sent /\ a \in RdAddr .. RdAddr + LineLen - 1
      BY <1>3, <1>4, <1>5, <1>6, <3>1
    <3>2. CASE ~(sent /\ a \in RdAddr .. RdAddr + LineLen - 1)
      <4>1. a \in Open' <=> a \in Open /\ (i = 0 \/ a # reads[i].data)
        BY <1>3, <3>2
      <4>2. a \notin nw
        BY <3>2
      <4>3. a \in OpenOf(b)' <=> a \in OpenOf(b) /\ (i = 0 \/ a # reads[i].data)
        BY <1>4, <1>5, <4>1
      <4>4. a \in kp <=> a \in OpenOf(b) /\ (i = 0 \/ reads[i].buf # b \/ a # reads[i].data)
        OBVIOUS
      <4> HIDE DEF kp, nw
      <4> QED BY <1>2, <4>2, <4>3, <4>4
    <3> QED BY <3>1, <3>2
  <2> HIDE DEF kp, nw
  <2> QED BY <2>1
<1>8. IsFiniteSet(OpenOf(b)) /\ RdAddr \in Nat
  BY OpenFinite, BaseFacts
<1>9. /\ IsFiniteSet(kp)
      /\ Cardinality(kp) = Cardinality(OpenOf(b))
           - (IF i = 0 THEN 0 ELSE IF reads[i].buf = b THEN 1 ELSE 0)
  <2>1. CASE i # 0 /\ reads[i].buf = b
    BY <1>1, <1>8, <2>1, FS_RemoveElement
  <2>2. CASE ~(i # 0 /\ reads[i].buf = b)
    <3>1. Cardinality(OpenOf(b)) \in Nat
      BY OpenFinite
    <3> QED BY <1>8, <2>2, <3>1
  <2> QED BY <2>1, <2>2
<1>10. /\ IsFiniteSet(nw)
       /\ Cardinality(nw) = IF sent /\ b = Read_Buffer_ID THEN LineLen ELSE 0
  <2>1. CASE sent /\ b = Read_Buffer_ID
    <3>1. RdAddr + LineLen - 1 \in Int /\ RdAddr <= RdAddr + LineLen - 1
      BY <1>8
    <3>2. IsFiniteSet(RdAddr .. RdAddr + LineLen - 1)
          /\ Cardinality(RdAddr .. RdAddr + LineLen - 1) = RdAddr + LineLen - 1 - RdAddr + 1
      BY <1>8, <3>1, FS_Interval
    <3> QED BY <1>8, <2>1, <3>2
  <2>2. CASE ~(sent /\ b = Read_Buffer_ID)
    BY <2>2, FS_EmptySet
  <2> QED BY <2>1, <2>2
<1>11. kp \cap nw = {}
  <2>1. \A a \in kp : a \in 0 .. RdAddr - 1
    BY <1>3, <1>5
  <2>2. \A a \in nw : a \notin 0 .. RdAddr - 1
    BY <1>8
  <2> HIDE DEF kp, nw
  <2> QED BY <2>1, <2>2
<1>12. Cardinality(kp \cup nw) = Cardinality(kp) + Cardinality(nw)
  <2> HIDE DEF kp, nw
  <2>1. Cardinality(kp \cap nw) = 0
    BY <1>11, FS_EmptySet
  <2>2. Cardinality(kp) \in Nat /\ Cardinality(nw) \in Nat
    BY <1>9, <1>10, FS_CardinalityType
  <2>3. IsFiniteSet(kp) /\ IsFiniteSet(nw)
    BY <1>9, <1>10
  <2>4. Cardinality(kp \cup nw) = Cardinality(kp) + Cardinality(nw) - Cardinality(kp \cap nw)
    BY <2>3, FS_Union
  <2> QED BY <2>1, <2>2, <2>4
<1>13. OpenOf(b) = {} /\ ~(sent /\ b = Read_Buffer_ID) => OpenOf(b)' = {}
  BY <1>7
<1>14. OpenOf(b) = {} => (i = 0 \/ reads[i].buf # b)
  BY <1>1
<1> HIDE DEF kp, nw
<1> QED BY <1>7, <1>9, <1>10, <1>12, <1>13, <1>14

LEMMA AskedMoves ==
  ASSUME TypesIInv, Finite, FillInv,
         NEW g, NEW sent, NEW i, NEW drain, NEW n, AnyClk(g, sent, i, drain, n),
         NEW b \in Buffers
  PROVE  /\ Base(b)' = Base(b) =>
              /\ Asked(b)' = Asked(b) + (IF sent /\ b = Read_Buffer_ID THEN LineLen ELSE 0)
              /\ Whole(b) => Whole(b)' /\ ~(sent /\ b = Read_Buffer_ID)
              /\ b = Read_Buffer_ID' => b = Read_Buffer_ID
         /\ Base(b)' # Base(b) => /\ Asked(b)' = 0 /\ ~sent
                                  /\ b = Read_Buffer_ID' /\ Read_Buffer_ID' # Read_Buffer_ID
         /\ Asked(b) \in 0 .. B
         /\ Asked(b) = B => Whole(b)
<1>1. /\ RdAddr \in Nat /\ Num_buff_RdReq \in 0 .. BufReqs /\ Read_Buffer_ID \in {0, 1}
      /\ fbase \in Nat /\ (fbase = 0 \/ fbase >= B) /\ RdAddr = fbase + Ln(Num_buff_RdReq)
      /\ Ln(Num_buff_RdReq) \in 0 .. B /\ B \in Nat /\ B >= LineLen
  BY BaseFacts
<1>2. /\ Asked(b) = IF b = Read_Buffer_ID THEN Ln(Num_buff_RdReq)
                    ELSE IF fbase = 0 THEN 0 ELSE B
      /\ Asked(b)' = IF b = Read_Buffer_ID' THEN Ln(Num_buff_RdReq')
                     ELSE IF fbase' = 0 THEN 0 ELSE B
      /\ Base(b) = IF b = Read_Buffer_ID THEN fbase ELSE fbase - B
      /\ Base(b)' = IF b = Read_Buffer_ID' THEN fbase' ELSE fbase' - B
      /\ Whole(b) <=> IF b = Read_Buffer_ID THEN Num_buff_RdReq = BufReqs ELSE fbase > 0
      /\ Whole(b)' <=> IF b = Read_Buffer_ID' THEN Num_buff_RdReq' = BufReqs ELSE fbase' > 0
  BY DEF Asked, Base, Whole, Ln, B
<1>3. b \in {0, 1} /\ LineLen > 0
  BY DEF Buffers
<1>4. Asked(b) \in 0 .. B
  BY <1>1, <1>2
<1>5. Asked(b) = B => Whole(b)
  <2>1. Ln(Num_buff_RdReq) = B => Num_buff_RdReq = BufReqs
    BY <1>1 DEF Ln, B
  <2> QED BY <1>1, <1>2, <1>3, <2>1
<1>6. CASE Read_Buffer_ID' = Read_Buffer_ID
  <2>1. /\ fbase' = fbase /\ Num_buff_RdReq' = Num_buff_RdReq + (IF sent THEN 1 ELSE 0)
        /\ sent => Num_buff_RdReq < BufReqs
    BY <1>6, FillMoves
  <2>2. sent \in BOOLEAN
    BY DEF AnyClk
  <2>3. Ln(Num_buff_RdReq') = Ln(Num_buff_RdReq) + (IF sent THEN LineLen ELSE 0)
    BY <1>1, <2>1, <2>2 DEF Ln
  <2>4. Base(b)' = Base(b)
    BY <1>2, <1>6, <2>1
  <2>5. Asked(b)' = Asked(b) + (IF sent /\ b = Read_Buffer_ID THEN LineLen ELSE 0)
    BY <1>1, <1>2, <1>6, <2>1, <2>3, <1>4
  <2>6. Whole(b) => Whole(b)' /\ ~(sent /\ b = Read_Buffer_ID)
    BY <1>1, <1>2, <1>6, <2>1, <2>2
  <2> QED BY <1>4, <1>5, <1>6, <2>4, <2>5, <2>6
<1>7. CASE Read_Buffer_ID' # Read_Buffer_ID
  <2>1. /\ Read_Buffer_ID' = 1 - Read_Buffer_ID
        /\ Num_buff_RdReq = BufReqs /\ Num_buff_RdReq' = 0
        /\ fbase' = fbase + B /\ ~sent
    <3>1. /\ Read_Buffer_ID' = 1 - Read_Buffer_ID
          /\ Num_buff_RdReq = BufReqs /\ Num_buff_RdReq' = 0
          /\ fbase' = fbase + B
      BY <1>7, FillMoves
    <3>2. sent => Read_Buffer_ID' = Read_Buffer_ID
      BY FillMoves
    <3> QED BY <1>7, <3>1, <3>2
  <2>2. Ln(Num_buff_RdReq) = B /\ Ln(Num_buff_RdReq') = 0
    BY <2>1 DEF Ln, B
  <2>3. CASE b = Read_Buffer_ID
    BY <1>1, <1>2, <1>3, <1>4, <1>5, <1>7, <2>1, <2>2, <2>3
  <2>4. CASE b # Read_Buffer_ID
    BY <1>1, <1>2, <1>3, <1>4, <1>5, <1>7, <2>1, <2>2, <2>4
  <2> QED BY <2>3, <2>4
<1> QED BY <1>6, <1>7

LEMMA CountMoves ==
  ASSUME TypesIInv, NEW g, NEW sent, NEW i, NEW drain, NEW n, AnyClk(g, sent, i, drain, n),
         NEW b \in Buffers, ~trigger_rds_done
  PROVE  /\ Num_RdRsp_buff'[b] =
              IF Num_RdRsp_buff[b] = B THEN 0
              ELSE Num_RdRsp_buff[b] + (IF i = 0 THEN 0 ELSE IF reads[i].buf = b THEN 1 ELSE 0)
         /\ buff_rd_cmplt'[b] <=> \/ Num_RdRsp_buff[b] = B
                                  \/ buff_rd_cmplt[b] /\ ~(readsIn /\ b = rdTurn)
         /\ Num_RdRsp_buff[b] \in Nat
         /\ readsIn => buff_rd_cmplt[rdTurn]
<1>0. B = BlockLines
  BY LnFacts
<1>1. ReadResponses(go, NumLines, Cont, Response(i)) /\ Response(i).valid = (i # 0)
  BY ClkParts, ResponseType
<1>2. i # 0 => Response(i).buf = reads[i].buf
  <2> SUFFICES ASSUME i # 0 PROVE Response(i).buf = reads[i].buf
    OBVIOUS
  <2>1. Response(i) = [valid |-> TRUE, buf |-> reads[i].buf,
                       tag |-> reads[i].tag, cl |-> reads[i].cl,
                       addr |-> arb_rd_mem[<<reads[i].buf, reads[i].tag>>],
                       data |-> reads[i].data]
    BY ResponseType
  <2> QED BY <2>1
<1>3. (IF Response(i).valid THEN IF Response(i).buf = b THEN 1 ELSE 0 ELSE 0)
        = (IF i = 0 THEN 0 ELSE IF reads[i].buf = b THEN 1 ELSE 0)
  <2>1. Response(i).valid <=> i # 0
    BY <1>1, Zenon
  <2> QED BY <1>2, <2>1
<1>4. Num_RdRsp_buff'[b] =
        IF trigger_rds_done \/ Num_RdRsp_buff[b] = BlockLines THEN 0
        ELSE Num_RdRsp_buff[b]
               + (IF Response(i).valid THEN IF Response(i).buf = b THEN 1 ELSE 0 ELSE 0)
  BY <1>1 DEF ReadResponses
<1>5. buff_rd_cmplt' =
        [c \in Buffers |-> (trigger_rds_done \/ Num_RdRsp_buff[c] = BlockLines)
                            \/ (buff_rd_cmplt[c] /\ ~(readsIn /\ c = rdTurn))]
  BY <1>1 DEF ReadResponses
<1>6. buff_rd_cmplt'[b] <=> \/ Num_RdRsp_buff[b] = B
                            \/ buff_rd_cmplt[b] /\ ~(readsIn /\ b = rdTurn)
  BY <1>0, <1>5
<1>7. Num_RdRsp_buff[b] \in Nat
  BY DEF TypesIInv, Counters
<1>8. readsIn => buff_rd_cmplt[rdTurn]
  BY DEF readsIn
<1> QED BY <1>0, <1>3, <1>4, <1>6, <1>7, <1>8

LEMMA BufferInvStep ==
  ASSUME TypesIInv, Finite, FillInv, ReadsInv, CountInv, CtlInv, ~rd_cmplt,
         NEW g, NEW sent, NEW i, NEW drain, NEW n, AnyClk(g, sent, i, drain, n),
         NEW b \in Buffers
  PROVE  BufferInv(b)'
<1>0. ~trigger_rds_done /\ BufferInv(b) /\ BufferInv(rdTurn) /\ rdTurn \in Buffers
  BY TurnMoves DEF CountInv, TotalInv
<1> DEFINE got == IF i = 0 THEN 0 ELSE IF reads[i].buf = b THEN 1 ELSE 0
           add == IF sent /\ b = Read_Buffer_ID THEN LineLen ELSE 0
<1>1. /\ Num_RdRsp_buff'[b] = IF Num_RdRsp_buff[b] = B THEN 0 ELSE Num_RdRsp_buff[b] + got
      /\ buff_rd_cmplt'[b] <=> \/ Num_RdRsp_buff[b] = B
                               \/ buff_rd_cmplt[b] /\ ~(readsIn /\ b = rdTurn)
      /\ Num_RdRsp_buff[b] \in Nat
      /\ readsIn => buff_rd_cmplt[rdTurn]
  BY <1>0, CountMoves
<1>2. /\ buff_status'[b] = "WRITE" <=> b = wrTurn /\ wrRuns /\ ~writesOut
      /\ buff_status'[b] = "READ_DONE" <=>
           /\ ~(b = wrTurn /\ wrRuns)
           /\ buff_status[b] = "READ_DONE" \/ (readsIn /\ b = rdTurn)
      /\ buff_status[b] = "WRITE" => b = wrTurn /\ wrRuns
      /\ b = wrTurn /\ wrRuns => buff_status[b] \in {"READ_DONE", "WRITE"}
      /\ writesOut => wrRuns
  <2>1. /\ buff_status[b] = "WRITE" => b = wrTurn /\ wrRuns
        /\ b = wrTurn /\ wrRuns => buff_status[b] \in {"READ_DONE", "WRITE"}
        /\ writesOut => wrRuns
    BY DEF CtlInv, writesOut
  <2> QED BY <2>1, StatusMoves
<1>3. buff_serviced'[b] <=>
        \/ writesOut /\ b = wrTurn
        \/ buff_serviced[b] /\ ~(b = Read_Buffer_ID' /\ Read_Buffer_ID' # Read_Buffer_ID)
  BY ServicedMoves
<1>4. /\ Base(b)' = Base(b) =>
           /\ Asked(b)' = Asked(b) + add
           /\ Whole(b) => Whole(b)' /\ ~(sent /\ b = Read_Buffer_ID)
           /\ b = Read_Buffer_ID' => b = Read_Buffer_ID
      /\ Base(b)' # Base(b) => /\ Asked(b)' = 0 /\ ~sent
                               /\ b = Read_Buffer_ID' /\ Read_Buffer_ID' # Read_Buffer_ID
      /\ Asked(b) \in 0 .. B
      /\ Asked(b) = B => Whole(b)
  BY AskedMoves
<1>5. B > 0 /\ B \in Nat /\ LineLen > 0
  BY LnFacts
<1>6. memwr'.valid <=> i # 0
  BY MemwrMoves
<1>7. i # 0 => memwr'.buf = reads[i].buf
  BY MemwrMoves
<1>8. /\ Held(b) <=> buff_rd_cmplt[b] \/ buff_status[b] \in {"READ_DONE", "WRITE"}
      /\ Held(b)' <=> buff_rd_cmplt'[b] \/ buff_status'[b] \in {"READ_DONE", "WRITE"}
  BY DEF Held
<1>9. /\ Held(b) \/ buff_serviced[b] =>
           OpenOf(b) = {} /\ Num_RdRsp_buff[b] = 0 /\ ~Storing(b)
      /\ ~Held(b) /\ ~buff_serviced[b] =>
           Num_RdRsp_buff[b] = Asked(b) - Cardinality(OpenOf(b))
      /\ Held(b) => ~buff_serviced[b] /\ Whole(b)
      /\ buff_serviced[b] /\ b = Read_Buffer_ID => Num_buff_RdReq = BufReqs
      /\ buff_status[b] \in {"READ_DONE", "WRITE"} => ~buff_rd_cmplt[b]
  BY <1>0 DEF BufferInv
<1>10. Storing(b)' <=> i # 0 /\ reads[i].buf = b
  BY <1>6, <1>7 DEF Storing
<1>11. Whole(b)' /\ b = Read_Buffer_ID' => Num_buff_RdReq' = BufReqs
  BY DEF Whole
<1>12. buff_serviced[b] \in BOOLEAN /\ buff_rd_cmplt[b] \in BOOLEAN
  BY DEF TypesIInv, Flags
<1>g. SUFFICES
        /\ Held(b)' \/ buff_serviced'[b] =>
             OpenOf(b)' = {} /\ Num_RdRsp_buff'[b] = 0 /\ ~Storing(b)'
        /\ ~Held(b)' /\ ~buff_serviced'[b] =>
             Num_RdRsp_buff'[b] = Asked(b)' - Cardinality(OpenOf(b)')
        /\ Held(b)' => ~buff_serviced'[b] /\ Whole(b)'
        /\ buff_serviced'[b] /\ b = Read_Buffer_ID' => Num_buff_RdReq' = BufReqs
        /\ buff_status'[b] \in {"READ_DONE", "WRITE"} => ~buff_rd_cmplt'[b]
  BY DEF BufferInv
<1> HIDE DEF got, add
(* Taken up for filling.                                                   *)
<1>13. CASE Base(b)' # Base(b)
  <2>1. /\ buff_serviced[b] /\ buff_status[b] = "READ" /\ Base(b)' = RdAddr
    BY <1>13, BaseMoves
  <2>2. /\ \A k \in 1 .. Len(reads) : reads[k].buf # b
        /\ ~sent /\ RdAddr' = RdAddr
    BY <1>13, TakenUpEmpty
  <2>3. i = 0 \/ reads[i].buf # b
    BY <2>2, ReadsElems
  <2>4. ~Held(b) /\ ~buff_rd_cmplt[b] /\ Num_RdRsp_buff[b] = 0
    BY <1>8, <1>9, <2>1
  <2>5. ~buff_rd_cmplt'[b] /\ Num_RdRsp_buff'[b] = 0
    BY <1>1, <1>5, <2>3, <2>4 DEF got
  <2>6. buff_status'[b] \notin {"READ_DONE", "WRITE"} /\ ~(writesOut /\ b = wrTurn)
    BY <1>1, <1>2, <2>1, <2>4
  <2>7. ~Held(b)' /\ ~buff_serviced'[b]
    BY <1>3, <1>4, <1>8, <1>13, <2>5, <2>6
  <2>8. OpenOf(b)' = {}
    <3>1. Open' \subseteq Open /\ Open \subseteq 0 .. RdAddr - 1
      BY <2>2, OpenMoves
    <3>2. \A a \in Open' : ~(Base(b)' <= a)
      BY <2>1, <3>1, BaseFacts
    <3>3. OpenOf(b)' = {a \in Open' : Base(b)' <= a /\ a < Base(b)' + B}
      BY DEF OpenOf, InBlock, B, Ln
    <3> QED BY <3>2, <3>3
  <2>9. Cardinality(OpenOf(b)') = 0 /\ Asked(b)' = 0
    BY <1>4, <1>13, <2>8, FS_EmptySet
  <2> QED BY <2>5, <2>6, <2>7, <2>9
(* Owed nothing: it stays so until it is taken up.                         *)
<1>14. CASE Base(b)' = Base(b) /\ (Held(b) \/ buff_serviced[b])
  <2>1. OpenOf(b) = {} /\ Num_RdRsp_buff[b] = 0 /\ ~(sent /\ b = Read_Buffer_ID)
    <3>1. buff_serviced[b] => ~(sent /\ b = Read_Buffer_ID)
      <4>1. sent => Num_buff_RdReq < BufReqs
        BY FillMoves
      <4> QED BY <1>9, <4>1
    <3> QED BY <1>4, <1>9, <1>14, <3>1
  <2>2. OpenOf(b)' = {} /\ (i = 0 \/ reads[i].buf # b)
    BY <1>14, <2>1, OpenOfMoves
  <2>3. Num_RdRsp_buff'[b] = 0 /\ ~Storing(b)'
    BY <1>1, <1>5, <1>10, <2>1, <2>2 DEF got
  <2>4. buff_rd_cmplt'[b] <=> buff_rd_cmplt[b] /\ ~(readsIn /\ b = rdTurn)
    BY <1>1, <1>5, <2>1
  <2>5. ~(b = Read_Buffer_ID' /\ Read_Buffer_ID' # Read_Buffer_ID)
    BY <1>4, <1>14
  <2>6. CASE buff_serviced[b]
    <3>1. ~Held(b) /\ buff_serviced'[b]
      BY <1>3, <1>9, <2>5, <2>6
    <3>2. ~Held(b)'
      BY <1>1, <1>2, <1>8, <2>4, <3>1
    <3>3. b = Read_Buffer_ID' => Num_buff_RdReq' = BufReqs
      <4>1. b = Read_Buffer_ID' => b = Read_Buffer_ID /\ Num_buff_RdReq = BufReqs
                                   /\ Read_Buffer_ID' = Read_Buffer_ID
        BY <1>9, <1>14, <2>5, <2>6, <1>4
      <4>2. b = Read_Buffer_ID' => ~sent
        BY <2>1, <4>1
      <4>3. b = Read_Buffer_ID' => Num_buff_RdReq' = Num_buff_RdReq
        BY <4>1, <4>2, FillMoves, BaseFacts
      <4> QED BY <4>1, <4>3
    <3>4. buff_status'[b] \notin {"READ_DONE", "WRITE"}
      BY <1>8, <3>2
    <3> QED BY <2>2, <2>3, <3>1, <3>2, <3>3, <3>4
  <2>7. CASE ~buff_serviced[b]
    <3>1. Held(b) /\ Whole(b)'
      BY <1>4, <1>9, <1>14, <2>7
    <3>2. Held(b)' \/ buff_serviced'[b]
      BY <1>2, <1>3, <1>8, <2>4, <3>1, <1>9
    <3>3. buff_serviced'[b] => writesOut /\ b = wrTurn
      BY <1>3, <2>7
    <3>4. writesOut /\ b = wrTurn => ~Held(b)'
      BY <1>2, <1>8, <1>9, <2>4
    <3>5. buff_status'[b] \in {"READ_DONE", "WRITE"} => ~buff_rd_cmplt'[b]
      BY <1>2, <1>9, <2>4
    <3> QED BY <1>11, <2>2, <2>3, <3>1, <3>2, <3>3, <3>4, <3>5
  <2> QED BY <2>6, <2>7
(* Counting what it receives, until it has it all.                         *)
<1>15. CASE Base(b)' = Base(b) /\ ~Held(b) /\ ~buff_serviced[b]
  <2>1. /\ Num_RdRsp_buff[b] = Asked(b) - Cardinality(OpenOf(b))
        /\ ~buff_rd_cmplt[b] /\ buff_status[b] \notin {"READ_DONE", "WRITE"}
    BY <1>8, <1>9, <1>15
  <2>2. buff_status'[b] \notin {"READ_DONE", "WRITE"} /\ ~buff_serviced'[b]
    BY <1>1, <1>2, <1>3, <1>15, <2>1
  <2>3. /\ Cardinality(OpenOf(b)) \in Nat
        /\ Cardinality(OpenOf(b)) = 0 <=> OpenOf(b) = {}
    BY OpenFinite
  <2>4. Cardinality(OpenOf(b)') = Cardinality(OpenOf(b)) - got + add
    BY <1>15, OpenOfMoves DEF got, add
  <2>5. CASE Num_RdRsp_buff[b] = B
    <3>1. OpenOf(b) = {} /\ Whole(b)
      BY <1>4, <1>5, <2>1, <2>3, <2>5
    <3>2. OpenOf(b)' = {} /\ Whole(b)' /\ (i = 0 \/ reads[i].buf # b)
      BY <1>4, <1>15, <3>1, OpenOfMoves
    <3>3. Num_RdRsp_buff'[b] = 0 /\ ~Storing(b)'
      BY <1>1, <1>10, <2>5, <3>2
    <3>4. Held(b)'
      BY <1>1, <1>8, <2>5
    <3> QED BY <2>2, <3>2, <3>3, <3>4
  <2>6. CASE Num_RdRsp_buff[b] # B
    <3>1. ~buff_rd_cmplt'[b] /\ ~Held(b)'
      BY <1>1, <1>8, <2>1, <2>2, <2>6
    <3>2. Num_RdRsp_buff'[b] = Num_RdRsp_buff[b] + got /\ got \in {0, 1} /\ add \in Nat
      BY <1>1, <1>5, <2>6 DEF got, add
    <3>3. Num_RdRsp_buff'[b] = Asked(b)' - Cardinality(OpenOf(b)')
      BY <1>4, <1>5, <1>15, <2>1, <2>3, <2>4, <3>2
    <3> QED BY <2>2, <3>1, <3>3
  <2> QED BY <2>5, <2>6
<1> QED BY <1>13, <1>14, <1>15

LEMMA CountInvStep ==
  ASSUME TypesIInv, Finite, FillInv, ReadsInv, CountInv, CtlInv,
         NEW g, NEW sent, NEW i, NEW drain, NEW n, AnyClk(g, sent, i, drain, n)
  PROVE  CountInv'
<1>1. TotalInv /\ TotalInv'
  BY TotalInvStep DEF CountInv
<1>2. ~rd_cmplt' => ~rd_cmplt
  BY <1>1, ResponseMoves
<1>3. ~rd_cmplt' => \A b \in Buffers : BufferInv(b)'
  BY <1>2, BufferInvStep
<1> QED BY <1>1, <1>3 DEF CountInv

-----------------------------------------------------------------------------
(***************************************************************************)
(* The write side: the line taken next is in the block of the buffer whose *)
(* turn it is, answered and stored.                                        *)
(***************************************************************************)
Counted == TypesIInv /\ Finite /\ FillInv /\ ReadsInv /\ CountInv
Ruled == Counted /\ CtlInv /\ TurnInv

LEMMA WriteTypes ==
  ASSUME TypesIInv
  PROVE  /\ P \in Int /\ WrReq_tid \in 0 .. BufReqs - 1 /\ CL_ID \in 0 .. LineLen - 1
         /\ write_fsm \in {0, 1} /\ wrCLnum \in 0 .. LineLen - 1
         /\ Ln(WrReq_tid) \in Nat /\ Ln(WrReq_tid) + LineLen <= B
         /\ wbase \in Int /\ P = wbase + Ln(WrReq_tid) + CL_ID
         /\ <<WrReq_tid, CL_ID>> \in Slots
         /\ write_fsm = 1 => CL_ID > 0 /\ CL_ID + wrCLnum = LineLen
         /\ write_fsm = 0 => CL_ID = 0
<1>1. /\ Total_ram_reads \in Nat /\ WrReq_tid \in 0 .. BufReqs - 1 /\ CL_ID \in 0 .. LineLen - 1
      /\ write_fsm \in {0, 1} /\ wrCLnum \in 0 .. LineLen - 1
  BY DEF TypesIInv, TypeOK, Counters
<1>2. Ln(WrReq_tid) \in Nat /\ Ln(WrReq_tid) + LineLen <= B
  BY <1>1 DEF Ln, B
<1>3. P \in Int /\ wbase \in Int /\ P = wbase + Ln(WrReq_tid) + CL_ID
  BY <1>1, <1>2 DEF P, wbase
<1>4. <<WrReq_tid, CL_ID>> \in Slots
  BY <1>1 DEF Slots
<1>5. /\ write_fsm = 1 => CL_ID > 0 /\ CL_ID + wrCLnum = LineLen
      /\ write_fsm = 0 => CL_ID = 0
  BY DEF TypesIInv, PacketPlace
<1> QED BY <1>1, <1>2, <1>3, <1>4, <1>5

LEMMA WritingBlock ==
  ASSUME Ruled, ~latch_RAM_rd_cmp, Writing, ~Handing
  PROVE  /\ wrTurn \in Buffers
         /\ wbase = Base(wrTurn) /\ At(wrTurn, <<WrReq_tid, CL_ID>>) = P
         /\ P < RdAddr /\ P >= 0 /\ P \notin Open /\ ~Storing(wrTurn)
         /\ ~buff_serviced[wrTurn]
<1> USE DEF Ruled, Counted
<1>0. Read_Buffer_ID \in {0, 1} /\ RdAddr \in Nat /\ fbase \in Nat /\ B \in Nat
  BY BaseFacts
<1>1. Turns(Read_Buffer_ID, 1 - Read_Buffer_ID) /\ gbase = wbase /\ wrRuns
  BY DEF TurnInv, gbase, Writing
<1>2. \/ wbase = fbase - B /\ wrTurn = 1 - Read_Buffer_ID /\ ~buff_serviced[wrTurn]
      \/ wbase = fbase /\ wrTurn = Read_Buffer_ID /\ ~buff_serviced[wrTurn]
  BY <1>1 DEF Turns
<1>3. wrTurn \in Buffers /\ wbase = Base(wrTurn) /\ ~buff_serviced[wrTurn]
  BY <1>0, <1>2 DEF Base, Buffers
<1>4. At(wrTurn, <<WrReq_tid, CL_ID>>) = P
  BY <1>3, WriteTypes DEF At
<1>5. /\ Base(wrTurn) <= P /\ P < Base(wrTurn) + B /\ P \in Int
      /\ P < N /\ P >= 0
  <2>1. P < N /\ P >= 0
    BY DEF CtlInv
  <2> QED BY <1>3, <2>1, WriteTypes, BaseFacts
<1>6. CASE rd_cmplt
  <2>1. Len(reads) = 0 /\ ~memwr.valid /\ RdAddr = N
    BY <1>6 DEF CountInv, TotalInv
  <2>2. Open = {}
    BY <2>1 DEF Open
  <2> QED BY <1>3, <1>4, <1>5, <2>1, <2>2 DEF Storing
<1>7. CASE ~rd_cmplt
  <2>1. Held(wrTurn)
    BY DEF Held, Writing
  <2>2. OpenOf(wrTurn) = {} /\ ~Storing(wrTurn) /\ Whole(wrTurn)
    BY <1>3, <1>7, <2>1 DEF CountInv, BufferInv
  <2>3. P \notin Open
    BY <1>5, <2>2 DEF OpenOf, InBlock
  <2>4. P < RdAddr
    <3>1. RdAddr = fbase + Ln(Num_buff_RdReq) /\ Ln(Num_buff_RdReq) \in 0 .. B
      BY BaseFacts
    <3>2. Num_buff_RdReq = BufReqs => Ln(Num_buff_RdReq) = B
      BY DEF B
    <3>3. CASE wrTurn = Read_Buffer_ID
      BY <1>0, <1>5, <2>2, <3>1, <3>2, <3>3 DEF Whole, Base
    <3>4. CASE wrTurn # Read_Buffer_ID
      BY <1>0, <1>5, <3>1, <3>4 DEF Base
    <3> QED BY <3>3, <3>4
  <2> QED BY <1>3, <1>4, <1>5, <2>2, <2>3, <2>4
<1> QED BY <1>6, <1>7

(* The last line of the test is taken only when every response is in.      *)
LEMMA LastIn ==
  ASSUME Ruled, ~latch_RAM_rd_cmp, Writing, ~Handing, P = N - 1, RdAddr <= N
  PROVE  rd_cmplt
<1> USE DEF Ruled, Counted
<1> SUFFICES ASSUME ~rd_cmplt PROVE FALSE
  OBVIOUS
<1>0. /\ Read_Buffer_ID \in {0, 1} /\ RdAddr \in Nat /\ fbase \in Nat /\ B \in Nat /\ P \in Int
      /\ RdAddr = fbase + Ln(Num_buff_RdReq) /\ Ln(Num_buff_RdReq) \in 0 .. B /\ N \in Nat
  BY BaseFacts, WriteTypes DEF TypesIInv, Counters, N
<1>1. /\ wrTurn \in Buffers /\ wbase = Base(wrTurn) /\ P < RdAddr
  BY WritingBlock
<1>2. RdAddr = N
  BY <1>0, <1>1
<1>3. P < Base(wrTurn) + B
  BY <1>1, WriteTypes, BaseFacts
<1>4. Held(wrTurn)
  BY DEF Held, Writing
<1>5. OpenOf(wrTurn) = {} /\ ~Storing(wrTurn)
  BY <1>1, <1>4 DEF CountInv, BufferInv
<1>6. \/ wrTurn = 1 - Read_Buffer_ID
      \/ wrTurn = Read_Buffer_ID /\ buff_serviced[1 - Read_Buffer_ID]
  <2>1. Turns(Read_Buffer_ID, 1 - Read_Buffer_ID)
    BY DEF TurnInv
  <2> QED BY <2>1 DEF Turns
<1>7. \A b \in Buffers : b # wrTurn =>
        /\ \A k \in 1 .. Len(reads) : reads[k].buf # b
        /\ ~Storing(b)
  <2> SUFFICES ASSUME NEW b \in Buffers, b # wrTurn
               PROVE  /\ \A k \in 1 .. Len(reads) : reads[k].buf # b
                      /\ ~Storing(b)
    OBVIOUS
  <2>1. CASE wrTurn = 1 - Read_Buffer_ID
    <3>1. b = Read_Buffer_ID /\ Base(b) = fbase /\ Base(wrTurn) = fbase - B
      BY <1>0, <1>1, <2>1 DEF Base, Buffers
    <3>2. fbase = RdAddr
      BY <1>0, <1>2, <1>3, <3>1
    <3>3. \A k \in 1 .. Len(reads) : reads[k].buf # b
      <4> SUFFICES ASSUME NEW k \in 1 .. Len(reads), reads[k].buf = b PROVE FALSE
        OBVIOUS
      <4>1. reads[k].data \in OpenOf(b) /\ reads[k].data \in 0 .. RdAddr - 1
        BY ReadPlace
      <4>2. Base(b) <= reads[k].data
        BY <4>1 DEF OpenOf, InBlock
      <4> DEFINE d == reads[k].data
      <4>3. d \in 0 .. RdAddr - 1 /\ RdAddr <= d
        BY <3>1, <3>2, <4>1, <4>2
      <4> HIDE DEF d
      <4> QED BY <1>0, <4>3
    <3>4. ~Storing(b)
      <4> SUFFICES ASSUME Storing(b) PROVE FALSE
        OBVIOUS
      <4>1. memwr.valid /\ memwr.buf = b
        BY DEF Storing
      <4>2. /\ memwr.data = At(b, <<memwr.tag, memwr.cl>>) /\ memwr.data < RdAddr
        BY <4>1 DEF ReadsInv
      <4>3. memwr \in Rsps
        BY <4>1 DEF TypesIInv, Memories, None
      <4>4. <<memwr.tag, memwr.cl>> \in Slots
        BY <4>3 DEF Rsps, Slots
      <4>5. /\ At(b, <<memwr.tag, memwr.cl>>) \in Int
            /\ Base(b) <= At(b, <<memwr.tag, memwr.cl>>)
        BY <4>4, AtFacts
      <4> QED BY <1>0, <3>1, <3>2, <4>2, <4>5
    <3> QED BY <3>3, <3>4
  <2>2. CASE wrTurn = Read_Buffer_ID /\ buff_serviced[1 - Read_Buffer_ID]
    <3>1. b = 1 - Read_Buffer_ID
      BY <1>0, <2>2 DEF Buffers
    <3>2. buff_serviced[b]
      BY <2>2, <3>1
    <3>3. OpenOf(b) = {} /\ ~Storing(b)
      BY <3>2 DEF CountInv, BufferInv
    <3>4. \A k \in 1 .. Len(reads) : reads[k].data \in OpenOf(reads[k].buf)
      BY ReadPlace
    <3> QED BY <3>3, <3>4
  <2> QED BY <1>6, <2>1, <2>2
<1>8. Len(reads) = 0
  <2>1. Len(reads) \in Nat
    BY LenProperties DEF TypesIInv, Memories
  <2>2. \A k \in 1 .. Len(reads) : FALSE
    <3> SUFFICES ASSUME NEW k \in 1 .. Len(reads) PROVE FALSE
      OBVIOUS
    <3>1. reads[k].buf \in Buffers /\ reads[k].data \in OpenOf(reads[k].buf)
      BY ReadPlace
    <3> QED BY <1>5, <1>7, <3>1
  <2> QED BY <2>1, <2>2
<1>9. ~memwr.valid
  <2> SUFFICES ASSUME memwr.valid PROVE FALSE
    OBVIOUS
  <2>0. memwr \in Rsps
    BY DEF TypesIInv, Memories, None
  <2>1. memwr.buf \in Buffers
    BY <2>0 DEF Rsps
  <2>2. Storing(memwr.buf)
    BY DEF Storing
  <2> QED BY <1>5, <1>7, <2>1, <2>2
<1>10. Total_Num_RdRsp = N
  BY <1>0, <1>2, <1>8 DEF CountInv, TotalInv
<1> QED BY <1>9, <1>10 DEF CountInv, TotalInv

-----------------------------------------------------------------------------
(* A pop happens while a buffer is being emptied and none is handed over.  *)
LEMMA PopWhile ==
  ASSUME Ruled
  PROVE  /\ pop \in BOOLEAN
         /\ pop => /\ ~latch_RAM_rd_cmp /\ Writing /\ ~Handing /\ ~Wr_cmplt /\ ~writesOut
                   /\ (popFirst /\ write_fsm = 0) \/ (popNext /\ ~popFirst /\ write_fsm = 1)
         /\ ~pop => write_fsm = 0 /\ CL_ID = 0 /\ ~popFirst /\ ~popNext
<1> USE DEF Ruled, Counted
<1>1. pop \in BOOLEAN
  BY Zenon DEF pop, popFirst, popNext
<1>2. ASSUME pop
      PROVE  /\ ~latch_RAM_rd_cmp /\ Writing /\ ~Handing /\ ~Wr_cmplt /\ ~writesOut
             /\ (popFirst /\ write_fsm = 0) \/ (popNext /\ ~popFirst /\ write_fsm = 1)
  <2>1. (popFirst /\ write_fsm = 0 /\ Wr_go) \/ (popNext /\ ~popFirst /\ write_fsm = 1)
    BY <1>2 DEF pop, popFirst, popNext
  <2>2. ~latch_RAM_rd_cmp
    BY <2>1 DEF CtlInv
  <2>3. Writing /\ ~Wr_cmplt
    BY <2>1, <2>2 DEF CtlInv
  <2>4. ~Handing
    BY <2>2, <2>3 DEF CtlInv
  <2>5. ~writesOut
    BY <2>2, <2>4 DEF CtlInv, Handing
  <2> QED BY <2>1, <2>2, <2>3, <2>4, <2>5
<1>3. ASSUME ~pop PROVE write_fsm = 0 /\ CL_ID = 0 /\ ~popFirst /\ ~popNext
  BY <1>3, WriteTypes DEF pop, popFirst, popNext
<1> QED BY <1>1, <1>2, <1>3

(* The place of the line in its block and in its request after a clock.    *)
LEMMA PopMoves ==
  ASSUME Ruled, NEW g, NEW sent, NEW i, NEW drain, NEW n, AnyClk(g, sent, i, drain, n)
  PROVE  /\ P' = P + One(pop)
         /\ pop /\ CL_ID = LineLen - 1 =>
              CL_ID' = 0 /\ write_fsm' = 0
              /\ WrReq_tid' = (IF WrReq_tid = BufReqs - 1 THEN 0 ELSE WrReq_tid + 1)
         /\ pop /\ CL_ID # LineLen - 1 =>
              CL_ID' = CL_ID + 1 /\ write_fsm' = 1 /\ WrReq_tid' = WrReq_tid
         /\ ~pop => CL_ID' = CL_ID /\ write_fsm' = 0 /\ WrReq_tid' = WrReq_tid
<1> USE DEF Ruled, Counted
<1>1. WriteFsm(almFull)
  BY ClkParts
<1>2. Total_ram_reads \in Nat /\ P = Total_ram_reads - 1 /\ P' = Total_ram_reads' - 1
      /\ N \in Nat /\ N < CountMod /\ CountMod \in Nat
  BY ModAssumption DEF TypesIInv, Counters, P, N, Finite
<1>3. P <= N /\ (pop => P < N)
  BY <1>2, PopWhile DEF CtlInv
<1>4. P' = P + One(pop)
  <2>1. Total_ram_reads' = (Total_ram_reads + One(pop)) % (2 * CountMod)
    BY <1>1 DEF WriteFsm, One
  <2>2. One(pop) \in {0, 1} /\ (One(pop) = 1 => pop)
    BY DEF One
  <2>3. Total_ram_reads + One(pop) \in 0 .. 2 * CountMod - 1
    BY <1>2, <1>3, <2>2
  <2>4. (Total_ram_reads + One(pop)) % (2 * CountMod) = Total_ram_reads + One(pop)
    BY <1>2, <2>3, ModSmall
  <2> QED BY <1>2, <2>1, <2>2, <2>4
<1>5. CASE popFirst /\ write_fsm = 0
  <2>1. CL_ID = 0
    BY <1>5, WriteTypes
  <2> QED BY <1>1, <1>4, <1>5, <2>1, WriteTypes DEF WriteFsm, pop, popNext
<1>6. CASE popNext /\ ~popFirst /\ write_fsm = 1
  <2>1. wrCLnum = 1 <=> CL_ID = LineLen - 1
    BY <1>6, WriteTypes
  <2>2. CL_ID \in 0 .. LineLen - 1 /\ WrReq_tid \in 0 .. BufReqs - 1
    BY WriteTypes
  <2>3. WrReq_tid # BufReqs - 1 => (WrReq_tid + 1) % BufReqs = WrReq_tid + 1
    BY <2>2, ModSmall
  <2>4. WrReq_tid = BufReqs - 1 => (WrReq_tid + 1) % BufReqs = 0
    BY <2>2
  <2>5. /\ WrReq_tid' = IF wrCLnum = 1 THEN (WrReq_tid + 1) % BufReqs ELSE WrReq_tid
        /\ CL_ID' = IF wrCLnum = 1 THEN 0 ELSE CL_ID + 1
        /\ write_fsm' = IF wrCLnum = 1 THEN 0 ELSE 1
    BY <1>1, <1>6 DEF WriteFsm
  <2> QED BY <1>4, <1>6, <2>1, <2>3, <2>4, <2>5 DEF pop
<1>7. CASE ~pop
  BY <1>1, <1>4, <1>7, PopWhile DEF WriteFsm, pop
<1> QED BY <1>5, <1>6, <1>7, PopWhile

(* When a block and when the test is emptied.                              *)
LEMMA DetectMoves ==
  ASSUME Ruled, RdAddr <= N,
         NEW g, NEW sent, NEW i, NEW drain, NEW n, AnyClk(g, sent, i, drain, n)
  PROVE  /\ detect_cur_rd_cmp <=> pop /\ CL_ID = LineLen - 1 /\ WrReq_tid = BufReqs - 1
         /\ detect_RAM_rd_cmp(N) <=> pop /\ P + 1 = N
         /\ detect_RAM_rd_cmp(N) => CL_ID = LineLen - 1
         /\ wbase' = IF detect_cur_rd_cmp THEN wbase + B ELSE wbase
         /\ detect_cur_rd_cmp => WrReq_tid' = 0
<1> USE DEF Ruled, Counted
<1>1. /\ P \in Int /\ WrReq_tid \in 0 .. BufReqs - 1 /\ CL_ID \in 0 .. LineLen - 1
      /\ Ln(WrReq_tid) \in Nat /\ Ln(WrReq_tid) + LineLen <= B
      /\ wbase \in Int /\ P = wbase + Ln(WrReq_tid) + CL_ID
      /\ Total_ram_reads = P + 1 /\ B \in Nat /\ B > 0 /\ B = BlockLines
  <2>1. Total_ram_reads = P + 1
    BY DEF P, TypesIInv, Counters
  <2> QED BY <2>1, WriteTypes, LnFacts
<1>2. N \in Nat /\ N < CountMod /\ CountMod \in Nat /\ Al(N)
  BY ModAssumption DEF TypesIInv, Counters, N, Finite
<1>3. /\ lastCandidate => pop
      /\ pop /\ CL_ID = LineLen - 1 => lastCandidate
  BY PopWhile, WriteTypes DEF lastCandidate, pop
<1>4. ASSUME pop
      PROVE  /\ wbase >= 0 /\ wbase % B = 0 /\ Al(wbase) /\ P < N /\ P >= 0 /\ finite_test
  <2>1. ~latch_RAM_rd_cmp /\ Writing /\ ~Handing
    BY <1>4, PopWhile
  <2>2. wbase >= 0 /\ wbase % B = 0 /\ Al(wbase) /\ P < N /\ P >= 0 /\ ~TestCmp
    BY <2>1 DEF TurnInv, CtlInv
  <2>3. P < RdAddr
    BY <2>1, WritingBlock
  <2>4. RdAddr > 0
    BY <1>1, <2>2, <2>3, BaseFacts
  <2>5. finite_test
    BY <2>2, <2>4 DEF FillInv
  <2> QED BY <2>2, <2>5
<1>5. Ln(WrReq_tid) + CL_ID + 1 = B <=> CL_ID = LineLen - 1 /\ WrReq_tid = BufReqs - 1
  BY <1>1 DEF Ln, B
<1>6. detect_cur_rd_cmp <=> pop /\ CL_ID = LineLen - 1 /\ WrReq_tid = BufReqs - 1
  <2>1. ~pop => ~lastCandidate
    BY DEF lastCandidate, pop
  <2>2. ASSUME pop
        PROVE  Total_ram_reads % BlockLines = 0
                 <=> CL_ID = LineLen - 1 /\ WrReq_tid = BufReqs - 1
    <3>1. wbase \in Nat /\ Blocks(wbase)
      BY <1>1, <1>4, <2>2 DEF Blocks
    <3>2. Total_ram_reads = wbase + Ln(WrReq_tid) + CL_ID + 1
      BY <1>1
    <3>3. Blocks(Total_ram_reads) <=> CL_ID = LineLen - 1 /\ WrReq_tid = BufReqs - 1
      BY <1>1, <3>1, <3>2, BlockEnd
    <3> QED BY <1>1, <3>3 DEF Blocks
  <2> QED BY <1>3, <2>1, <2>2 DEF detect_cur_rd_cmp
<1>7. ASSUME pop, P + 1 = N PROVE CL_ID = LineLen - 1
  <2>1. Al(wbase + Ln(WrReq_tid))
    BY <1>1, <1>4, <1>7, AlFacts
  <2> DEFINE a == wbase + Ln(WrReq_tid)
  <2>2. a \in Int /\ Al(a) /\ N = a + (CL_ID + 1) /\ CL_ID + 1 \in 0 .. LineLen
    BY <1>1, <1>7, <2>1
  <2> HIDE DEF a
  <2>3. CL_ID + 1 \in {0, LineLen}
    BY <1>2, <2>2, AlFacts
  <2> QED BY <1>1, <2>3
<1>8. detect_RAM_rd_cmp(N) <=> pop /\ P + 1 = N
  <2>1. ~pop => ~lastCandidate
    BY DEF lastCandidate, pop
  <2>2. ASSUME pop PROVE Total_ram_reads % CountMod = N <=> P + 1 = N
    <3>1. Total_ram_reads \in 0 .. CountMod - 1
      BY <1>1, <1>2, <1>4, <2>2
    <3>2. Total_ram_reads % CountMod = Total_ram_reads
      BY <1>2, <3>1, ModSmall
    <3> QED BY <1>1, <3>2
  <2> QED BY <1>3, <1>4, <1>7, <2>1, <2>2 DEF detect_RAM_rd_cmp
<1>9. wbase' = (IF detect_cur_rd_cmp THEN wbase + B ELSE wbase)
      /\ (detect_cur_rd_cmp => WrReq_tid' = 0)
  <2>1. wbase' = P' - Ln(WrReq_tid') - CL_ID'
    BY DEF wbase, Ln
  <2>2. Ln(BufReqs - 1) = B - LineLen /\ Ln(0) = 0 /\ Ln(WrReq_tid + 1) = Ln(WrReq_tid) + LineLen
    BY <1>1 DEF B, Ln
  <2>3. One(pop) = IF pop THEN 1 ELSE 0
    BY DEF One
  <2>4. CASE pop /\ CL_ID = LineLen - 1
    BY <1>1, <1>6, <2>1, <2>2, <2>3, <2>4, PopMoves
  <2>5. CASE pop /\ CL_ID # LineLen - 1
    BY <1>1, <1>6, <2>1, <2>3, <2>5, PopMoves
  <2>6. CASE ~pop
    BY <1>1, <1>6, <2>1, <2>3, <2>6, PopMoves
  <2> QED BY <2>4, <2>5, <2>6
<1> QED BY <1>6, <1>7, <1>8, <1>9

-----------------------------------------------------------------------------
(* The hand-over of an emptied buffer, from clock to clock.                *)
LEMMA GoMoves ==
  ASSUME Ruled, NEW g, NEW sent, NEW i, NEW drain, NEW n, AnyClk(g, sent, i, drain, n)
  PROVE  /\ reg1' <=> detect_cur_rd_cmp
         /\ reg2' <=> reg1
         /\ latch_RAM_rd_cmp' <=> latch_RAM_rd_cmp \/ detect_RAM_rd_cmp(N)
         /\ Wr_cmplt' <=> \/ detect_cur_rd_cmp \/ Handing
                          \/ detect_RAM_rd_cmp(N) \/ latch_RAM_rd_cmp
         /\ Wr_go' <=> ~Wr_cmplt' /\ (Wr_go \/ \E b \in Buffers : buff_status[b] = "WRITE")
         /\ \A b \in Buffers : buff_wr_cmplt'[b] <=> Wr_cmplt /\ buff_status[b] = "WRITE"
<1> USE DEF Ruled, Counted
<1>1. WriteGo(N)
  BY ClkParts DEF N
<1>2. detect_cur_rd_cmp_reg' = <<detect_cur_rd_cmp, detect_cur_rd_cmp_reg[1]>>
  BY <1>1 DEF WriteGo
<1>3. (reg1' <=> detect_cur_rd_cmp) /\ (reg2' <=> reg1)
  BY <1>2 DEF reg1, reg2
<1> DEFINE stop == \/ detect_cur_rd_cmp
                   \/ detect_cur_rd_cmp_reg[1] \/ detect_cur_rd_cmp_reg[2]
                   \/ detect_RAM_rd_cmp(N) \/ latch_RAM_rd_cmp
<1>4. /\ latch_RAM_rd_cmp' = (latch_RAM_rd_cmp \/ detect_RAM_rd_cmp(N))
      /\ Wr_cmplt' = stop
      /\ Wr_go' = IF stop THEN FALSE
                  ELSE Wr_go \/ \E b \in Buffers : buff_status[b] = "WRITE"
      /\ buff_wr_cmplt' = [b \in Buffers |-> Wr_cmplt /\ buff_status[b] = "WRITE"]
  BY <1>1, Zenon DEF WriteGo
<1>5. stop <=> \/ detect_cur_rd_cmp \/ Handing
               \/ detect_RAM_rd_cmp(N) \/ latch_RAM_rd_cmp
  BY Zenon DEF Handing, reg1, reg2
<1> HIDE DEF stop
<1>6. latch_RAM_rd_cmp' <=> latch_RAM_rd_cmp \/ detect_RAM_rd_cmp(N)
  BY <1>4, Zenon
<1>7. Wr_cmplt' <=> stop
  BY <1>4, Zenon
<1>8. Wr_go' <=> ~stop /\ (Wr_go \/ \E b \in Buffers : buff_status[b] = "WRITE")
  BY <1>4, Zenon
<1>9. \A b \in Buffers : buff_wr_cmplt'[b] <=> Wr_cmplt /\ buff_status[b] = "WRITE"
  BY <1>4, Zenon
<1> QED BY <1>3, <1>5, <1>6, <1>7, <1>8, <1>9, Zenon

LEMMA WritingMoves ==
  ASSUME Ruled, NEW g, NEW sent, NEW i, NEW drain, NEW n, AnyClk(g, sent, i, drain, n)
  PROVE  /\ wrTurn \in Buffers
         /\ Writing /\ ~writesOut => Writing' /\ wrTurn' = wrTurn
         /\ \A b \in Buffers : buff_status[b] = "WRITE" => Writing /\ b = wrTurn
<1> USE DEF Ruled, Counted
<1>1. wrTurn \in Buffers
  BY TurnMoves
<1>2. ASSUME Writing, ~writesOut PROVE Writing' /\ wrTurn' = wrTurn
  <2>1. wrTurn' = wrTurn /\ wrRuns'
    BY <1>2, TurnMoves DEF Writing
  <2>2. buff_status'[wrTurn] = "WRITE"
    BY <1>1, <1>2, StatusMoves DEF Writing
  <2> QED BY <2>1, <2>2 DEF Writing
<1>3. \A b \in Buffers : buff_status[b] = "WRITE" => Writing /\ b = wrTurn
  BY DEF CtlInv, Writing
<1> QED BY <1>1, <1>2, <1>3

LEMMA CtlInvStep ==
  ASSUME Ruled, RdAddr <= N, RdAddr <= RdAddr', Num_Write_rsp <= P,
         NEW g, NEW sent, NEW i, NEW drain, NEW n, AnyClk(g, sent, i, drain, n)
  PROVE  CtlInv'
<1> USE DEF Ruled, Counted
<1>0. /\ RdAddr \in Nat /\ RdAddr' \in Nat /\ P \in Int /\ N \in Nat /\ N' = N
      /\ Num_Write_rsp \in Nat /\ One(pop) = IF pop THEN 1 ELSE 0
      /\ CL_ID \in 0 .. LineLen - 1
  <2>1. RdAddr' \in Nat /\ N' = N
    BY CountersStep, ClkParts DEF Counters, N
  <2>2. RdAddr \in Nat /\ N \in Nat /\ Num_Write_rsp \in Nat
    BY DEF Counters, TypesIInv, N
  <2> QED BY <2>1, <2>2, WriteTypes DEF One
<1>1. \A b \in Buffers : buff_status'[b] = "WRITE" => b = wrTurn' /\ wrRuns'
  BY StatusMoves, TurnMoves
<1>2. wrRuns' => buff_status'[wrTurn'] \in {"READ_DONE", "WRITE"}
  <2> SUFFICES ASSUME wrRuns' PROVE buff_status'[wrTurn'] \in {"READ_DONE", "WRITE"}
    OBVIOUS
  <2>1. wrTurn \in Buffers /\ wrTurn' = wrTurn /\ ~writesOut
        /\ (wrRuns \/ buff_status[wrTurn] = "READ_DONE")
    BY TurnMoves
  <2>2. CASE wrRuns
    BY <2>1, <2>2, StatusMoves
  <2>3. CASE ~wrRuns
    BY <2>1, <2>3, StatusMoves
  <2> QED BY <2>2, <2>3
<1>3. P' = P + One(pop)
  BY PopMoves
<1>4. P' <= RdAddr' /\ P' >= 0
  <2>1. P <= RdAddr /\ P >= 0
    BY DEF CtlInv
  <2>2. pop => P < RdAddr
    BY PopWhile, WritingBlock
  <2> QED BY <1>0, <1>3, <2>1, <2>2
<1>5. ASSUME latch_RAM_rd_cmp'
      PROVE  P' = N' /\ ~Wr_go' /\ write_fsm' = 0 /\ rd_cmplt'
  <2>1. ~Wr_go'
    BY <1>5, GoMoves
  <2>2. rd_cmplt => rd_cmplt'
    BY ResponseMoves DEF CountInv
  <2>3. CASE latch_RAM_rd_cmp
    <3>1. ~pop /\ P = N /\ rd_cmplt
      BY <2>3, PopWhile DEF CtlInv
    <3> QED BY <1>0, <1>3, <2>1, <2>2, <3>1, PopMoves
  <2>4. CASE ~latch_RAM_rd_cmp
    <3>1. detect_RAM_rd_cmp(N)
      BY <1>5, <2>4, GoMoves
    <3>2. pop /\ P + 1 = N /\ CL_ID = LineLen - 1
      BY <3>1, DetectMoves
    <3>3. Writing /\ ~Handing
      BY <3>2, PopWhile
    <3>4. P = N - 1
      BY <1>0, <3>2
    <3>5. rd_cmplt
      BY <2>4, <3>3, <3>4, LastIn
    <3>6. write_fsm' = 0
      BY <3>2, PopMoves
    <3> QED BY <1>0, <1>3, <2>1, <2>2, <3>2, <3>5, <3>6
  <2> QED BY <2>3, <2>4
<1>6. ASSUME ~latch_RAM_rd_cmp'
      PROVE  /\ P' < N' /\ ~TestCmp'
             /\ Wr_go' \/ write_fsm' = 1 => Writing' /\ ~Wr_cmplt'
             /\ Handing' => Wr_cmplt' /\ Writing' /\ ~(reg1' /\ reg2') /\ WrReq_tid' = 0
             /\ writesOut' <=> reg2'
             /\ Wr_cmplt' /\ ~Handing' => ~wrRuns'
  <2>1. ~latch_RAM_rd_cmp /\ ~detect_RAM_rd_cmp(N)
    BY <1>6, GoMoves
  <2>2. P < N /\ (pop => P + 1 # N)
    BY <2>1, DetectMoves DEF CtlInv
  <2>3. P' < N'
    BY <1>0, <1>3, <2>2
  <2>4. ~TestCmp'
    <3>1. ~TestCmp /\ Num_Write_rsp # N
      BY <1>0, <2>1, <2>2 DEF CtlInv
    <3>2. Completion(N, Len(q) < TxCap)
      BY ClkParts DEF N
    <3> QED BY <3>1, <3>2 DEF Completion
  <2>5. /\ Handing => Wr_cmplt /\ Writing /\ ~(reg1 /\ reg2) /\ WrReq_tid = 0
        /\ writesOut <=> reg2
        /\ Wr_cmplt /\ ~Handing => ~wrRuns
        /\ Wr_go => Writing
    BY <2>1 DEF CtlInv
  <2>6. pop => Writing /\ ~writesOut /\ ~Handing
    BY PopWhile
  <2>7. Wr_cmplt' <=> detect_cur_rd_cmp \/ Handing
    BY <2>1, GoMoves
  <2>8. Handing' <=> detect_cur_rd_cmp \/ reg1
    BY GoMoves DEF Handing
  <2>9. detect_cur_rd_cmp => pop /\ CL_ID = LineLen - 1 /\ WrReq_tid' = 0
    BY DetectMoves
  <2>10. Wr_go' \/ write_fsm' = 1 => Writing' /\ ~Wr_cmplt'
    <3>1. ASSUME Wr_go' PROVE Writing' /\ ~Wr_cmplt'
      <4>1. ~Wr_cmplt' /\ Writing
        BY <2>5, <3>1, GoMoves, WritingMoves
      <4>2. ~writesOut
        BY <2>5, <2>7, <4>1 DEF Handing
      <4> QED BY <4>1, <4>2, WritingMoves
    <3>2. ASSUME write_fsm' = 1 PROVE Writing' /\ ~Wr_cmplt'
      <4>1. pop /\ CL_ID # LineLen - 1
        BY <3>2, PopMoves
      <4> QED BY <2>6, <2>7, <2>9, <4>1, WritingMoves
    <3> QED BY <3>1, <3>2
  <2>11. Handing' => Wr_cmplt' /\ Writing' /\ ~(reg1' /\ reg2') /\ WrReq_tid' = 0
    <3>1. reg1 => Handing /\ ~reg2
      BY <2>5 DEF Handing
    <3>2. ~(reg1' /\ reg2')
      BY <2>6, <2>9, <3>1, GoMoves
    <3>3. detect_cur_rd_cmp => Wr_cmplt' /\ Writing' /\ WrReq_tid' = 0
      BY <2>6, <2>7, <2>9, WritingMoves
    <3>4. reg1 => Wr_cmplt' /\ Writing' /\ WrReq_tid' = 0
      BY <2>5, <2>6, <2>7, <3>1, WritingMoves, PopMoves
    <3> QED BY <2>8, <3>2, <3>3, <3>4
  <2>12. writesOut' <=> reg2'
    <3>1. reg2' <=> reg1
      BY GoMoves
    <3>2. writesOut' <=> wrRuns' /\ buff_wr_cmplt'[wrTurn']
      BY DEF writesOut
    <3>3. ASSUME reg1 PROVE writesOut'
      <4>1. Wr_cmplt /\ Writing /\ ~writesOut
        BY <2>5, <3>3 DEF Handing
      <4>2. Writing' /\ wrTurn' = wrTurn /\ wrTurn \in Buffers
        BY <4>1, WritingMoves
      <4>3. buff_wr_cmplt'[wrTurn]
        BY <4>1, <4>2, GoMoves DEF Writing
      <4> QED BY <3>2, <4>2, <4>3 DEF Writing
    <3>4. ASSUME writesOut' PROVE reg1
      <4>1. ~writesOut /\ wrTurn' = wrTurn /\ wrTurn \in Buffers
        BY <3>2, <3>4, TurnMoves
      <4>2. Wr_cmplt /\ buff_status[wrTurn] = "WRITE"
        BY <3>2, <3>4, <4>1, GoMoves
      <4>3. wrRuns
        BY <4>1, <4>2, WritingMoves DEF Writing
      <4> QED BY <2>5, <4>1, <4>2, <4>3 DEF Handing
    <3> QED BY <3>1, <3>3, <3>4
  <2>13. Wr_cmplt' /\ ~Handing' => ~wrRuns'
    <3>1. Wr_cmplt' /\ ~Handing' => writesOut
      BY <2>5, <2>7, <2>8 DEF Handing
    <3> QED BY <3>1, TurnMoves
  <2> QED BY <2>3, <2>4, <2>10, <2>11, <2>12, <2>13
<1> HIDE DEF Ruled, Counted
<1> QED BY <1>1, <1>2, <1>4, <1>5, <1>6 DEF CtlInv

-----------------------------------------------------------------------------
(* The block given back moves on when its buffer is released.              *)
LEMMA BlockNext ==
  ASSUME NEW w \in Nat, w % B = 0
  PROVE  (w + B) % B = 0
<1>1. B \in Nat /\ B > 0
  BY LnFacts
<1>2. PICK K \in Nat : K = B /\ K > 0
  BY <1>1
<1>3. PICK d \in Nat : w = K * d
  BY <1>2, RestOf
<1>4. PICK s \in Nat : s = w + K
  BY <1>2
<1>5. s = K * (d + 1) + 0 /\ 0 \in 0 .. K - 1
  BY <1>2, <1>3, <1>4
<1>6. s % K = 0
  BY <1>5, RestOf
<1> QED BY <1>2, <1>4, <1>6

LEMMA GivenMoves ==
  ASSUME Ruled, RdAddr <= N, ~latch_RAM_rd_cmp,
         NEW g, NEW sent, NEW i, NEW drain, NEW n, AnyClk(g, sent, i, drain, n)
  PROVE  /\ gbase \in Int /\ gbase' = gbase + (IF writesOut THEN B ELSE 0)
         /\ wbase' >= 0 /\ wbase' % B = 0 /\ Al(wbase')
<1> USE DEF Ruled, Counted
<1>1. /\ wbase \in Int /\ B \in Nat /\ wbase >= 0 /\ wbase % B = 0 /\ Al(wbase)
  BY WriteTypes, BaseFacts DEF TurnInv
<1>2. /\ wbase' = IF detect_cur_rd_cmp THEN wbase + B ELSE wbase
      /\ detect_cur_rd_cmp => ~Handing
  BY DetectMoves, PopWhile
<1>3. /\ Handing => ~(reg1 /\ reg2)
      /\ writesOut <=> reg2
  BY DEF CtlInv
<1>4. Handing' <=> detect_cur_rd_cmp \/ reg1
  BY GoMoves DEF Handing
<1>5. gbase \in Int /\ gbase' = gbase + (IF writesOut THEN B ELSE 0)
  <2>1. /\ gbase = IF Handing THEN wbase - B ELSE wbase
        /\ gbase' = IF Handing' THEN wbase' - B ELSE wbase'
    BY DEF gbase, B, Ln
  <2> QED BY <1>1, <1>2, <1>3, <1>4, <2>1 DEF Handing
<1>6. (wbase + B) % B = 0 /\ Al(wbase + B)
  <2>1. Al(wbase + B)
    BY <1>1, AlFacts DEF B
  <2> QED BY <1>1, <2>1, BlockNext
<1> QED BY <1>1, <1>2, <1>5, <1>6

(* A buffer is released only with its block full.                          *)
LEMMA ReleasedFull ==
  ASSUME Ruled, ~latch_RAM_rd_cmp, Handing, gbase = fbase
  PROVE  Num_buff_RdReq = BufReqs
<1> USE DEF Ruled, Counted
<1>1. wbase = fbase + B /\ P >= wbase /\ P <= RdAddr /\ P \in Int
  BY WriteTypes, BaseFacts DEF gbase, CtlInv
<1>2. /\ RdAddr = fbase + Ln(Num_buff_RdReq) /\ Ln(Num_buff_RdReq) \in 0 .. B
      /\ fbase \in Nat /\ B \in Nat /\ B >= LineLen
      /\ Num_buff_RdReq \in 0 .. BufReqs
      /\ Num_buff_RdReq < BufReqs => Ln(Num_buff_RdReq) + LineLen <= B
  BY BaseFacts
<1> QED BY <1>1, <1>2

(* A buffer that has been released is not emptied again before it is filled. *)
LEMMA NotAgain ==
  ASSUME Ruled, ~latch_RAM_rd_cmp, ~wrRuns, wrTurn \in Buffers, buff_serviced[wrTurn],
         gbase = fbase + B, Num_buff_RdReq = BufReqs
  PROVE  buff_status[wrTurn] # "READ_DONE"
<1> USE DEF Ruled, Counted
<1> SUFFICES ASSUME buff_status[wrTurn] = "READ_DONE" PROVE FALSE
  OBVIOUS
<1>1. Held(wrTurn)
  BY DEF Held
<1>2. rd_cmplt
  BY <1>1 DEF CountInv, BufferInv
<1>3. RdAddr = N
  BY <1>2 DEF CountInv, TotalInv
<1>4. ~Handing
  BY DEF CtlInv, Writing
<1>5. P < N /\ wbase = fbase + B
  BY <1>4 DEF CtlInv, gbase
<1>6. RdAddr = fbase + B
  BY BaseFacts DEF B
<1>7. P >= wbase /\ P \in Int /\ wbase \in Int
  BY WriteTypes
<1>8. N \in Nat
  BY DEF TypesIInv, Counters, N
<1> QED BY <1>3, <1>5, <1>6, <1>7, <1>8

LEMMA TurnsStep ==
  ASSUME Ruled, RdAddr <= N, ~latch_RAM_rd_cmp,
         NEW g, NEW sent, NEW i, NEW drain, NEW n, AnyClk(g, sent, i, drain, n)
  PROVE  Turns(Read_Buffer_ID, 1 - Read_Buffer_ID)'
<1> USE DEF Ruled, Counted
<1> DEFINE v == Read_Buffer_ID
           u == 1 - v
           sw == Read_Buffer_ID' # v
<1>1. v \in {0, 1} /\ u \in {0, 1} /\ v # u /\ v \in Buffers /\ u \in Buffers
      /\ 1 - u = v
  BY BaseFacts DEF Buffers
<1>2. /\ sw => Read_Buffer_ID' = u /\ fbase' = fbase + B /\ buff_serviced[u]
               /\ Num_buff_RdReq = BufReqs
      /\ ~sw => fbase' = fbase /\ Num_buff_RdReq' = Num_buff_RdReq + (IF sent THEN 1 ELSE 0)
      /\ sent => Num_buff_RdReq < BufReqs
  BY FillMoves
<1>3. /\ gbase \in Int /\ gbase' = gbase + (IF writesOut THEN B ELSE 0)
      /\ fbase \in Int /\ B \in Int
  BY GivenMoves, BaseFacts
<1>4. /\ wrTurn' = IF writesOut THEN 1 - wrTurn ELSE wrTurn
      /\ wrRuns' <=> ~writesOut /\ (wrRuns \/ buff_status[wrTurn] = "READ_DONE")
      /\ writesOut => wrRuns
  BY TurnMoves DEF writesOut
<1>5. \A b \in Buffers :
        buff_serviced'[b] <=>
          \/ writesOut /\ b = wrTurn
          \/ buff_serviced[b] /\ ~(b = Read_Buffer_ID' /\ sw)
  BY ServicedMoves
<1>6. \/ gbase = fbase - B /\ wrTurn = u /\ ~buff_serviced[u] /\ ~buff_serviced[v]
      \/ gbase = fbase /\ wrTurn = v /\ buff_serviced[u] /\ ~buff_serviced[v]
      \/ gbase = fbase + B /\ wrTurn = u /\ buff_serviced[u] /\ buff_serviced[v]
           /\ ~wrRuns /\ Num_buff_RdReq = BufReqs
  BY DEF TurnInv, Turns
<1>7. Turns(v, u)' <=>
        \/ gbase' = fbase' - B /\ wrTurn' = 1 - Read_Buffer_ID'
             /\ ~buff_serviced'[1 - Read_Buffer_ID'] /\ ~buff_serviced'[Read_Buffer_ID']
        \/ gbase' = fbase' /\ wrTurn' = Read_Buffer_ID'
             /\ buff_serviced'[1 - Read_Buffer_ID'] /\ ~buff_serviced'[Read_Buffer_ID']
        \/ gbase' = fbase' + B /\ wrTurn' = 1 - Read_Buffer_ID'
             /\ buff_serviced'[1 - Read_Buffer_ID'] /\ buff_serviced'[Read_Buffer_ID']
             /\ ~wrRuns' /\ Num_buff_RdReq' = BufReqs
  BY DEF Turns, B, Ln
<1>8. Read_Buffer_ID' = IF sw THEN u ELSE v
  BY <1>2
<1>9. ASSUME gbase = fbase, writesOut, ~sw PROVE Num_buff_RdReq' = BufReqs
  <2>1. Handing
    BY <1>9 DEF CtlInv, Handing
  <2>2. Num_buff_RdReq = BufReqs
    BY <1>9, <2>1, ReleasedFull
  <2> QED BY <1>2, <1>9, <2>2
<1>10. ASSUME gbase = fbase + B, wrTurn = u, buff_serviced[u], ~wrRuns, Num_buff_RdReq = BufReqs
       PROVE  ~wrRuns' /\ (~sw => Num_buff_RdReq' = BufReqs)
  <2>1. buff_status[wrTurn] # "READ_DONE"
    BY <1>1, <1>10, NotAgain
  <2> QED BY <1>2, <1>4, <1>10, <2>1
<1> HIDE DEF Ruled, Counted, v, u, sw
<1>11. Turns(v, u)'
  <2>1. CASE gbase = fbase - B /\ wrTurn = u /\ ~buff_serviced[u] /\ ~buff_serviced[v]
    BY <1>1, <1>2, <1>3, <1>4, <1>5, <1>7, <1>8, <2>1
  <2>2. CASE gbase = fbase /\ wrTurn = v /\ buff_serviced[u] /\ ~buff_serviced[v]
    BY <1>1, <1>2, <1>3, <1>4, <1>5, <1>7, <1>8, <1>9, <2>2
  <2>3. CASE gbase = fbase + B /\ wrTurn = u /\ buff_serviced[u] /\ buff_serviced[v]
               /\ ~wrRuns /\ Num_buff_RdReq = BufReqs
    BY <1>1, <1>2, <1>3, <1>4, <1>5, <1>7, <1>8, <1>10, <2>3
  <2> QED BY <1>6, <2>1, <2>2, <2>3
<1> QED BY <1>11 DEF u, v

LEMMA TurnInvStep ==
  ASSUME Ruled, RdAddr <= N,
         NEW g, NEW sent, NEW i, NEW drain, NEW n, AnyClk(g, sent, i, drain, n)
  PROVE  TurnInv'
<1> SUFFICES ASSUME ~latch_RAM_rd_cmp'
             PROVE  /\ wbase' >= 0 /\ wbase' % B = 0 /\ Al(wbase')
                    /\ Turns(Read_Buffer_ID, 1 - Read_Buffer_ID)'
  BY DEF TurnInv, B, Ln, Al
<1>1. ~latch_RAM_rd_cmp
  BY GoMoves
<1> QED BY <1>1, GivenMoves, TurnsStep

-----------------------------------------------------------------------------
LEMMA TurnIn == ASSUME TypesIInv PROVE wrTurn \in Buffers
<1>1. fsm_write_ctrl \in 0 .. 3
  BY DEF TypesIInv, TypeOK
<1> QED BY <1>1 DEF wrTurn, Buffers

(* No line of the block being emptied is still to come.                    *)
LEMMA WritingEmpty ==
  ASSUME Ruled, ~latch_RAM_rd_cmp, Writing
  PROVE  OpenOf(wrTurn) = {}
<1> USE DEF Ruled, Counted
<1>1. CASE rd_cmplt
  <2>1. Len(reads) = 0
    BY <1>1 DEF CountInv, TotalInv
  <2>2. Open = {}
    BY <2>1 DEF Open
  <2> QED BY <2>2 DEF OpenOf
<1>2. CASE ~rd_cmplt
  <2>1. Held(wrTurn) /\ wrTurn \in Buffers
    BY TurnIn DEF Held, Writing
  <2> QED BY <1>2, <2>1 DEF CountInv, BufferInv
<1> QED BY <1>1, <1>2

(* What enters the pipeline.                                               *)
LEMMA PoppedIs ==
  ASSUME Ruled, NEW g, NEW sent, NEW i, NEW drain, NEW n, AnyClk(g, sent, i, drain, n)
  PROVE  /\ wrpipe'[1].valid <=> pop
         /\ pop => /\ wrpipe'[1].len = LineLen - 1 - CL_ID
                   /\ wrpipe'[1].sop <=> CL_ID = 0
                   /\ wrpipe'[1].slot = <<WrReq_tid, CL_ID>>
                   /\ wrpipe'[1].buf = wrTurn
                   /\ wrpipe'[1].len = owed'
         /\ write_fsm' = 1 => pop
         /\ at1' = P
<1> USE DEF Ruled, Counted
<1> DEFINE popped == [valid |-> TRUE, len |-> wrCLnum', sop |-> popFirst,
                      slot |-> <<WrReq_tid, CL_ID>>,
                      buf |-> IF buff_status[1] = "WRITE" THEN 1 ELSE 0]
<1>1. WritePipe /\ WriteFsm(almFull)
  BY ClkParts
<1>2. wrpipe'[1] = IF pop THEN popped ELSE None
  BY <1>1 DEF WritePipe
<1>3. wrpipe'[1].valid <=> pop
  BY <1>2 DEF None
<1>4. write_fsm' = 1 => pop
  BY PopMoves
<1>5. at1' = P
  <2>1. at1' = P' - One(wrpipe'[1].valid)
    BY DEF at1, One
  <2>2. One(wrpipe'[1].valid) = One(pop)
    BY <1>3 DEF One
  <2>3. P' = P + One(pop) /\ P \in Int /\ One(pop) \in {0, 1}
    BY PopMoves, WriteTypes DEF One
  <2> QED BY <2>1, <2>2, <2>3
<1>6. ASSUME pop
      PROVE  /\ wrpipe'[1].len = LineLen - 1 - CL_ID
             /\ wrpipe'[1].sop <=> CL_ID = 0
             /\ wrpipe'[1].slot = <<WrReq_tid, CL_ID>>
             /\ wrpipe'[1].buf = wrTurn
             /\ wrpipe'[1].len = owed'
  <2>1. wrpipe'[1] = popped
    BY <1>2, <1>6
  <2>2. wrCLnum' = LineLen - 1 - CL_ID
    <3>1. CASE popFirst /\ write_fsm = 0
      BY <1>1, <3>1, WriteTypes DEF WriteFsm
    <3>2. CASE popNext /\ ~popFirst /\ write_fsm = 1
      BY <1>1, <3>2, WriteTypes DEF WriteFsm
    <3> QED BY <1>6, <3>1, <3>2, PopWhile
  <2>3. popFirst <=> CL_ID = 0
    BY <1>6, PopWhile, WriteTypes
  <2>4. (IF buff_status[1] = "WRITE" THEN 1 ELSE 0) = wrTurn
    <3>1. Writing /\ wrTurn \in {0, 1}
      BY <1>6, PopWhile, TurnMoves DEF Buffers
    <3>2. buff_status[1] = "WRITE" => wrTurn = 1
      BY DEF CtlInv, Buffers
    <3>3. wrTurn = 1 => buff_status[1] = "WRITE"
      BY <3>1 DEF Writing
    <3> QED BY <3>1, <3>2, <3>3
  <2>5. wrCLnum' = owed'
    <3>1. CASE CL_ID = LineLen - 1
      BY <1>6, <2>2, <3>1, PopMoves DEF owed
    <3>2. CASE CL_ID # LineLen - 1
      BY <1>6, <3>2, PopMoves DEF owed
    <3> QED BY <3>1, <3>2
  <2> QED BY <2>1, <2>2, <2>3, <2>4, <2>5
<1> QED BY <1>3, <1>4, <1>5, <1>6

LEMMA FetchInvStep ==
  ASSUME Ruled, RdAddr <= N,
         NEW g, NEW sent, NEW i, NEW drain, NEW n, AnyClk(g, sent, i, drain, n)
  PROVE  FetchInv'
<1> USE DEF Ruled, Counted
<1>1. ASSUME pop
      PROVE  /\ InPacket(wrpipe[1], at1)'
             /\ wrpipe'[1].slot \in Slots /\ wrpipe'[1].buf \in Buffers
             /\ At(wrpipe[1].buf, wrpipe[1].slot)' = at1'
             /\ at1' >= 0 /\ at1' < RdAddr' /\ at1' \notin Open' /\ ~Storing(wrpipe[1].buf)'
  <2>1. /\ wrpipe'[1].len = LineLen - 1 - CL_ID
        /\ wrpipe'[1].sop <=> CL_ID = 0
        /\ wrpipe'[1].slot = <<WrReq_tid, CL_ID>>
        /\ wrpipe'[1].buf = wrTurn
        /\ at1' = P
    BY <1>1, PoppedIs
  <2>2. /\ P \in Int /\ CL_ID \in 0 .. LineLen - 1
        /\ wbase \in Int /\ P = wbase + Ln(WrReq_tid) + CL_ID
        /\ Ln(WrReq_tid) \in Nat /\ WrReq_tid \in Int
        /\ <<WrReq_tid, CL_ID>> \in Slots
    BY WriteTypes
  <2>3. ~latch_RAM_rd_cmp /\ Writing /\ ~Handing
    BY <1>1, PopWhile
  <2>4. InPacket(wrpipe[1], at1)'
    <3> DEFINE e == wrpipe'[1]
    <3>1. e.len \in 0 .. LineLen - 1 /\ (e.sop <=> e.len = LineLen - 1)
      BY <2>1, <2>2
    <3>2. Al(wbase)
      BY <2>3 DEF TurnInv
    <3>3. Al(wbase + Ln(WrReq_tid))
      BY <2>2, <3>2, AlFacts
    <3>4. Al(wbase + Ln(WrReq_tid) + LineLen)
      BY <2>2, <3>3, AlFacts
    <3>5. at1' + e.len + 1 = wbase + Ln(WrReq_tid) + LineLen
      BY <2>1, <2>2
    <3>6. Al(at1' + e.len + 1)
      BY <3>4, <3>5
    <3> QED BY <3>1, <3>6 DEF InPacket, Al
  <2>5. /\ wrTurn \in Buffers /\ At(wrTurn, <<WrReq_tid, CL_ID>>) = P
        /\ P < RdAddr /\ P >= 0 /\ P \notin Open /\ ~buff_serviced[wrTurn]
    BY <2>3, WritingBlock
  <2>6. PICK b \in Buffers : b = wrTurn
    BY <2>5
  <2>7. PICK s \in Slots : s = <<WrReq_tid, CL_ID>>
    BY <2>2
  <2>8. At(b, s)' = P
    <3>1. Base(b)' = Base(b)
      BY <2>5, <2>6, BaseMoves
    <3>2. At(b, s) = P
      BY <2>5, <2>6, <2>7
    <3> QED BY <3>1, <3>2, AtMoves
  <2>9. At(wrpipe[1].buf, wrpipe[1].slot)' = At(b, s)'
    <3>1. wrpipe'[1].buf = b /\ wrpipe'[1].slot = s
      BY <2>1, <2>6, <2>7
    <3> QED BY <3>1 DEF At, Base, fbase, Ln
  <2>10. RdAddr' = RdAddr + (IF sent THEN LineLen ELSE 0) /\ RdAddr \in Nat
    BY FillMoves, BaseFacts
  <2>11. P \notin Open'
    <3>1. Open' = (IF i = 0 THEN Open ELSE Open \ {reads[i].data})
                    \cup (IF sent THEN RdAddr .. RdAddr + LineLen - 1 ELSE {})
      BY OpenMoves
    <3> QED BY <2>2, <2>5, <2>10, <3>1
  <2>12. ~Storing(wrpipe[1].buf)'
    <3> SUFFICES ASSUME memwr'.valid, memwr'.buf = wrTurn PROVE FALSE
      BY <2>1 DEF Storing
    <3>1. i \in 1 .. Len(reads) /\ reads[i].buf = wrTurn
      BY MemwrMoves
    <3>2. reads[i].data \in OpenOf(wrTurn)
      BY <3>1, ReadPlace
    <3> QED BY <2>3, <3>2, WritingEmpty
  <2> QED BY <2>1, <2>2, <2>4, <2>5, <2>8, <2>9, <2>10, <2>11, <2>12, <2>6, <2>7
<1>2. /\ wrpipe'[1].valid <=> pop
      /\ write_fsm' = 1 => pop
      /\ pop => wrpipe'[1].len = owed'
  BY PoppedIs
<1> HIDE DEF Ruled, Counted
<1> QED BY <1>1, <1>2 DEF FetchInv

-----------------------------------------------------------------------------
(* The line fetched from the RAM is the line that was to be fetched.       *)
LEMMA FetchedIs ==
  ASSUME Ruled, RamInv, FetchInv,
         NEW g, NEW sent, NEW i, NEW drain, NEW n, AnyClk(g, sent, i, drain, n)
  PROVE  /\ wrpipe'[2].valid <=> wrpipe[1].valid
         /\ wrpipe[1].valid => /\ wrpipe'[2].len = wrpipe[1].len
                               /\ wrpipe'[2].sop <=> wrpipe[1].sop
                               /\ wrpipe'[2].line = Line(at1)
         /\ wrpipe'[3] = wrpipe[2] /\ wrpipe'[4] = wrpipe[3] /\ wrreq' = wrpipe[4]
<1> USE DEF Ruled, Counted
<1> DEFINE e == wrpipe[1]
           clash == IF memwr.valid
                      THEN e.buf = memwr.buf /\ e.slot = <<memwr.tag, memwr.cl>>
                      ELSE FALSE
           fetched == [valid |-> TRUE, len |-> e.len, sop |-> e.sop,
                       line |-> IF clash THEN NoLine ELSE ram[e.buf][e.slot]]
<1>1. /\ wrpipe'[2] = IF e.valid THEN fetched ELSE None
      /\ wrpipe'[3] = wrpipe[2] /\ wrpipe'[4] = wrpipe[3] /\ wrreq' = wrpipe[4]
  <2>1. WritePipe
    BY ClkParts
  <2> QED BY <2>1 DEF WritePipe
<1>2. wrpipe'[2].valid <=> e.valid
  BY <1>1 DEF None, Stages, TypesIInv
<1>3. ASSUME e.valid
      PROVE  /\ wrpipe'[2].len = e.len
             /\ wrpipe'[2].sop <=> e.sop
             /\ wrpipe'[2].line = Line(at1)
  <2>1. wrpipe'[2] = fetched
    BY <1>1, <1>3
  <2>2. PICK b \in Buffers, s \in Slots : b = e.buf /\ s = e.slot
    BY <1>3 DEF FetchInv
  <2>3. At(b, s) = at1 /\ at1 >= 0 /\ at1 < RdAddr /\ at1 \notin Open /\ ~Storing(b)
    BY <1>3, <2>2 DEF FetchInv
  <2>4. ram[b][s] = Line(at1)
    BY <2>3 DEF RamInv
  <2>5. ~clash
    BY <2>2, <2>3 DEF Storing
  <2>6. fetched.line = Line(at1)
    BY <2>2, <2>4, <2>5
  <2> HIDE DEF clash
  <2> QED BY <2>1, <2>6
<1> HIDE DEF fetched, clash
<1> QED BY <1>1, <1>2, <1>3

LEMMA PipePlaces ==
  ASSUME Ruled, RamInv, FetchInv,
         NEW g, NEW sent, NEW i, NEW drain, NEW n, AnyClk(g, sent, i, drain, n)
  PROVE  /\ at1' = P /\ at2' = at1 /\ at3' = at2 /\ at4' = at3 /\ at5' = at4
         /\ at1 \in Int /\ at2 \in Int /\ at3 \in Int /\ at4 \in Int /\ at5 \in Int
<1> USE DEF Ruled, Counted
<1> DEFINE o1 == One(wrpipe[1].valid)
           o2 == One(wrpipe[2].valid)
           o3 == One(wrpipe[3].valid)
           o4 == One(wrpipe[4].valid)
           o5 == One(wrreq.valid)
<1>1. /\ o1 \in {0, 1} /\ o2 \in {0, 1} /\ o3 \in {0, 1} /\ o4 \in {0, 1} /\ o5 \in {0, 1}
  BY OneType, Zenon
<1>2. at1' = P /\ P \in Int
  BY PoppedIs, WriteTypes
<1>3. /\ at1 = P - o1 /\ at2 = at1 - o2 /\ at3 = at2 - o3 /\ at4 = at3 - o4 /\ at5 = at4 - o5
  BY DEF at1, at2, at3, at4, at5
<1>4. /\ at2' = at1' - One(wrpipe'[2].valid) /\ at3' = at2' - One(wrpipe'[3].valid)
      /\ at4' = at3' - One(wrpipe'[4].valid) /\ at5' = at4' - One(wrreq'.valid)
  BY DEF at2, at3, at4, at5, One
<1>5. One(wrpipe'[2].valid) = o1
  BY FetchedIs DEF One
<1>6. One(wrpipe'[3].valid) = o2 /\ One(wrpipe'[4].valid) = o3 /\ One(wrreq'.valid) = o4
  BY FetchedIs
<1> HIDE DEF o1, o2, o3, o4, o5
<1> QED BY <1>1, <1>2, <1>3, <1>4, <1>5, <1>6

LEMMA PipeInvStep ==
  ASSUME Ruled, RamInv, FetchInv, PipeInv,
         NEW g, NEW sent, NEW i, NEW drain, NEW n, AnyClk(g, sent, i, drain, n)
  PROVE  PipeInv'
<1>1. /\ wrpipe'[2].valid <=> wrpipe[1].valid
      /\ wrpipe[1].valid => /\ wrpipe'[2].len = wrpipe[1].len
                            /\ wrpipe'[2].sop <=> wrpipe[1].sop
                            /\ wrpipe'[2].line = Line(at1)
      /\ wrpipe'[3] = wrpipe[2] /\ wrpipe'[4] = wrpipe[3] /\ wrreq' = wrpipe[4]
  BY FetchedIs
<1>2. at2' = at1 /\ at3' = at2 /\ at4' = at3 /\ at5' = at4
  BY PipePlaces
<1>3. Carries(wrpipe[2], at2)'
  <2>1. wrpipe[1].valid => InPacket(wrpipe[1], at1)
    BY DEF FetchInv
  <2> QED BY <1>1, <1>2, <2>1 DEF Carries, InPacket, Line, Al
<1>4. Carries(wrpipe[3], at3)' /\ Carries(wrpipe[4], at4)' /\ Carries(wrreq, at5)'
  BY <1>1, <1>2 DEF PipeInv, Carries, InPacket, Line, Al
<1>5. Follows(wrpipe[2], wrpipe[1])'
  <2> SUFFICES ASSUME wrpipe'[2].valid, wrpipe'[2].len > 0
               PROVE  wrpipe'[1].valid /\ wrpipe'[1].len = wrpipe'[2].len - 1
    BY DEF Follows
  <2>1. wrpipe[1].valid /\ wrpipe'[2].len = owed /\ owed > 0
    BY <1>1 DEF FetchInv
  <2>2. write_fsm = 1 /\ owed = wrCLnum
    BY <2>1 DEF owed
  <2>3. pop
    BY <2>2 DEF pop, popNext
  <2>4. CL_ID + wrCLnum = LineLen /\ CL_ID \in 0 .. LineLen - 1 /\ wrCLnum \in 0 .. LineLen - 1
    BY <2>2, WriteTypes DEF Ruled, Counted
  <2>5. wrpipe'[1].valid /\ wrpipe'[1].len = LineLen - 1 - CL_ID
    BY <2>3, PoppedIs
  <2> QED BY <2>1, <2>2, <2>4, <2>5
<1>6. Follows(wrpipe[3], wrpipe[2])'
  BY <1>1 DEF PipeInv, Follows
<1>7. Follows(wrpipe[4], wrpipe[3])' /\ Follows(wrreq, wrpipe[4])'
  BY <1>1 DEF PipeInv, Follows
<1> QED BY <1>3, <1>4, <1>5, <1>6, <1>7 DEF PipeInv

-----------------------------------------------------------------------------
(***************************************************************************)
(* From the queue to the destination buffer.                               *)
(***************************************************************************)
Lines == [addr : Int, data : Int]

LEMMA LineIs == \A a \in Int : Line(a) \in Lines /\ Line(a) # NoItem /\ Line(a).addr = a /\ Line(a).data = a
BY NoItemAssumption DEF Line, Lines

LEMMA OutPlaces ==
  ASSUME Ruled, OutInv
  PROVE  /\ atO2 \in Int /\ atO1 \in Int /\ atQ \in Int /\ at5 \in Int /\ Len(q) \in Nat
         /\ atQ = at5 - Len(q)
         /\ atO1 = atQ - (IF out[1] = NoItem THEN 0 ELSE 1)
         /\ atO2 = atO1 - (IF out[2] = NoItem THEN 0 ELSE 1)
         /\ atO1 <= P /\ atO2 <= P /\ P <= N /\ N \in Nat
         /\ atO2 = Num_Write_rsp + unacked /\ Num_Write_rsp \in Nat /\ unacked \in Nat
         /\ Num_Write_rsp <= P
<1> USE DEF Ruled, Counted
<1> DEFINE o1 == One(wrpipe[1].valid)
           o2 == One(wrpipe[2].valid)
           o3 == One(wrpipe[3].valid)
           o4 == One(wrpipe[4].valid)
           o5 == One(wrreq.valid)
           l == Len(q)
           r1 == IF out[1] = NoItem THEN 0 ELSE 1
           r2 == IF out[2] = NoItem THEN 0 ELSE 1
<1>1. /\ o1 \in {0, 1} /\ o2 \in {0, 1} /\ o3 \in {0, 1} /\ o4 \in {0, 1} /\ o5 \in {0, 1}
  BY OneType, Zenon
<1>2. l \in Nat /\ r1 \in {0, 1} /\ r2 \in {0, 1}
  BY SeqLen DEF TypesIInv
<1>3. P \in Int
  BY WriteTypes
<1>4. /\ at1 = P - o1 /\ at2 = at1 - o2 /\ at3 = at2 - o3 /\ at4 = at3 - o4 /\ at5 = at4 - o5
      /\ atQ = at5 - l /\ atO1 = atQ - r1 /\ atO2 = atO1 - r2
  BY DEF at1, at2, at3, at4, at5, atQ, atO1, atO2
<1>5. P <= N /\ N \in Nat
  BY <1>3 DEF CtlInv, TypesIInv, Counters, N
<1>6. atO2 = Num_Write_rsp + unacked /\ Num_Write_rsp \in Nat /\ unacked \in Nat
  BY DEF OutInv, TypesIInv, Counters, TypeOK
<1> HIDE DEF o1, o2, o3, o4, o5, l, r1, r2, Ruled, Counted
<1>7. /\ atO2 \in Int /\ atO1 \in Int /\ atQ \in Int /\ at5 \in Int
      /\ atO1 <= P /\ atO2 <= P /\ Num_Write_rsp <= P
  BY <1>1, <1>2, <1>3, <1>4, <1>6
<1> QED BY <1>2, <1>4, <1>5, <1>6, <1>7 DEF l, r1, r2

LEMMA QueueMoves ==
  ASSUME Ruled, SlackIInv, TxCap >= TxThresh + LineLen + 6, PipeInv, OutInv,
         NEW g, NEW sent, NEW i, NEW drain, NEW n, AnyClk(g, sent, i, drain, n)
  PROVE  /\ q' \in Seq(Lines)
         /\ Len(q') = Len(q) - One(drain) + One(wrreq.valid)
         /\ \A k \in 1 .. Len(q') : q'[k] = Line(atQ + One(drain) + k - 1)
         /\ out'[1] = IF drain THEN Line(atQ) ELSE NoItem
         /\ out'[2] = out[1]
<1>1. /\ at5 \in Int /\ atQ \in Int /\ atQ = at5 - Len(q) /\ Len(q) \in Nat
      /\ q \in Seq(Lines) /\ \A k \in 1 .. Len(q) : q[k] = Line(atQ + k - 1)
      /\ wrreq.valid => wrreq.line = Line(at5)
      /\ WrEn <=> wrreq.valid
  BY OutPlaces, Zenon DEF OutInv, PipeInv, Carries, Lines, WrEn
<1>2. wrreq.valid => Len(q) < TxCap
  <2>1. wrreq.valid => One(wrreq.valid) = 1
    BY DEF One
  <2>2. wrreq.valid => Len(q) + 1 <= coming
    BY <2>1, ComingBound DEF SlackIInv, Types
  <2>3. coming + owed <= TxThresh + LineLen + 6 /\ coming \in Nat /\ owed \in Nat
    BY ComingBound DEF SlackIInv, SlackInv, Types, owed
  <2>4. coming <= TxThresh + LineLen + 6
    BY <2>3
  <2> QED BY <1>1, <2>2, <2>3, <2>4
<1> DEFINE rest == IF drain /\ q # <<>> THEN Tail(q) ELSE q
<1>3. /\ q' = IF WrEn /\ Len(q) < TxCap THEN Append(rest, wrreq.line) ELSE rest
      /\ out' = <<IF drain THEN TxQ!HeadOf(q) ELSE NoItem, out[1]>>
      /\ drain => q # <<>>
      /\ drain \in BOOLEAN
  BY ClkParts DEF TxQ!Clock, AnyClk
<1>4. /\ rest \in Seq(Lines) /\ Len(rest) = Len(q) - One(drain)
      /\ \A k \in 1 .. Len(rest) : rest[k] = Line(atQ + One(drain) + k - 1)
  <2>1. CASE drain
    <3>1. rest = Tail(q) /\ One(drain) = 1 /\ q # <<>>
      BY <1>3, <2>1 DEF One
    <3>2. /\ Tail(q) \in Seq(Lines) /\ Len(Tail(q)) = Len(q) - 1
          /\ \A k \in 1 .. Len(Tail(q)) : Tail(q)[k] = q[k + 1]
      BY <1>1, <3>1, HeadTailProperties
    <3> HIDE DEF rest
    <3>3. ASSUME NEW k \in 1 .. Len(rest) PROVE rest[k] = Line(atQ + One(drain) + k - 1)
      <4>1. k + 1 \in 1 .. Len(q) /\ rest[k] = q[k + 1]
        BY <1>1, <3>1, <3>2
      <4>2. atQ + (k + 1) - 1 = atQ + One(drain) + k - 1
        BY <1>1, <3>1
      <4> QED BY <1>1, <4>1, <4>2
    <3> QED BY <3>1, <3>2, <3>3
  <2>2. CASE ~drain
    <3>1. rest = q /\ One(drain) = 0
      BY <2>2 DEF One
    <3> HIDE DEF rest
    <3>2. ASSUME NEW k \in 1 .. Len(rest) PROVE rest[k] = Line(atQ + One(drain) + k - 1)
      <4>1. atQ + k - 1 = atQ + One(drain) + k - 1
        BY <1>1, <3>1
      <4> QED BY <1>1, <3>1, <4>1
    <3> QED BY <1>1, <3>1, <3>2
  <2> QED BY <1>3, <2>1, <2>2
<1>5. out'[1] = (IF drain THEN Line(atQ) ELSE NoItem) /\ out'[2] = out[1]
  <2>1. drain => TxQ!HeadOf(q) = Line(atQ)
    <3> SUFFICES ASSUME drain PROVE TxQ!HeadOf(q) = Line(atQ)
      OBVIOUS
    <3>1. q # <<>> /\ TxQ!HeadOf(q) = q[1] /\ 1 \in 1 .. Len(q)
      BY <1>1, <1>3, EmptySeq, HeadTailProperties DEF TxQ!HeadOf
    <3>2. atQ + 1 - 1 = atQ
      BY <1>1
    <3> QED BY <1>1, <3>1, <3>2
  <2> QED BY <1>3, <2>1
<1>6. One(drain) \in {0, 1} /\ One(wrreq.valid) \in {0, 1}
  BY OneType, Zenon
<1> HIDE DEF rest
<1>7. CASE wrreq.valid
  <2>1. q' = Append(rest, Line(at5)) /\ Line(at5) \in Lines /\ One(wrreq.valid) = 1
    BY <1>1, <1>2, <1>3, <1>7, LineIs DEF One
  <2>2. /\ q' \in Seq(Lines) /\ Len(q') = Len(rest) + 1
        /\ \A k \in 1 .. Len(rest) : q'[k] = rest[k]
        /\ q'[Len(rest) + 1] = Line(at5)
    BY <1>4, <2>1, AppendProperties
  <2>3. ASSUME NEW k \in 1 .. Len(q') PROVE q'[k] = Line(atQ + One(drain) + k - 1)
    <3>1. CASE k \in 1 .. Len(rest)
      BY <1>4, <2>2, <3>1
    <3>2. CASE k = Len(rest) + 1
      <4>1. at5 = atQ + One(drain) + k - 1
        BY <1>1, <1>4, <1>6, <3>2
      <4> QED BY <2>2, <3>2, <4>1
    <3>3. k \in 1 .. Len(rest) \/ k = Len(rest) + 1
      BY <1>1, <1>4, <1>6, <2>2
    <3> QED BY <3>1, <3>2, <3>3
  <2> QED BY <1>1, <1>4, <1>5, <1>6, <2>1, <2>2, <2>3
<1>8. CASE ~wrreq.valid
  <2>1. q' = rest /\ One(wrreq.valid) = 0
    BY <1>1, <1>3, <1>8 DEF One
  <2> QED BY <1>1, <1>4, <1>5, <1>6, <2>1
<1> QED BY <1>7, <1>8

-----------------------------------------------------------------------------
(* What leaves the queue moves towards the host line by line.              *)
LEMMA OutMoves ==
  ASSUME Ruled, RamInv, FetchInv, SlackIInv, TxCap >= TxThresh + LineLen + 6, PipeInv, OutInv,
         NEW g, NEW sent, NEW i, NEW drain, NEW n, AnyClk(g, sent, i, drain, n)
  PROVE  /\ atQ' = atQ + One(drain) /\ atO1' = atQ /\ atO2' = atO1
         /\ atQ \in Int /\ atO1 \in Int
<1>1. /\ at5 \in Int /\ atQ \in Int /\ atQ = at5 - Len(q) /\ Len(q) \in Nat
      /\ atO1 = atQ - (IF out[1] = NoItem THEN 0 ELSE 1)
      /\ at4 \in Int /\ at5' = at4 /\ at5 = at4 - One(wrreq.valid)
  BY OutPlaces, PipePlaces DEF at5
<1>2. /\ Len(q') = Len(q) - One(drain) + One(wrreq.valid)
      /\ out'[1] = IF drain THEN Line(atQ) ELSE NoItem
      /\ out'[2] = out[1]
  BY QueueMoves
<1>3. One(drain) \in {0, 1} /\ One(wrreq.valid) \in {0, 1}
  BY OneType, Zenon
<1>4. /\ atQ' = at5' - Len(q')
      /\ atO1' = atQ' - (IF out'[1] = NoItem THEN 0 ELSE 1)
      /\ atO2' = atO1' - (IF out'[2] = NoItem THEN 0 ELSE 1)
  BY DEF atQ, atO1, atO2
<1>5. atQ' = atQ + One(drain)
  <2> DEFINE d == One(drain)
             w == One(wrreq.valid)
             l == Len(q)
             m == Len(q')
             f == at5'
             z == atQ'
  <2>1. /\ d \in {0, 1} /\ w \in {0, 1} /\ l \in Nat /\ m = l - d + w
        /\ z = f - m /\ f = at4 /\ at5 = at4 - w /\ at4 \in Int /\ atQ = at5 - l
    BY <1>1, <1>2, <1>3, <1>4, Zenon
  <2> HIDE DEF d, w, l, m, f, z
  <2>2. z = atQ + d
    BY <2>1
  <2> QED BY <2>2 DEF z, d
<1>6. atO1' = atQ
  <2>1. (IF out'[1] = NoItem THEN 0 ELSE 1) = One(drain)
    BY <1>1, <1>2, LineIs DEF One
  <2>2. atO1' = atQ' - One(drain)
    BY <1>4, <2>1, Zenon
  <2>3. atQ \in Int /\ One(drain) \in Int
    BY <1>1, <1>3
  <2> QED BY ONLY <1>5, <2>2, <2>3
<1>7. atO2' = atO1 /\ atO1 \in Int
  BY <1>1, <1>2, <1>4, <1>6
<1> QED BY <1>1, <1>5, <1>6, <1>7

(* What is written and acknowledged.                                       *)
LEMMA HostMoves ==
  ASSUME Ruled, OutInv, NEW g, NEW sent, NEW i, NEW drain, NEW n, AnyClk(g, sent, i, drain, n)
  PROVE  /\ unacked' = unacked + (IF out[2] = NoItem THEN 0 ELSE 1) - n
         /\ Num_Write_rsp' = Num_Write_rsp + n
         /\ n \in Nat /\ n <= unacked
         /\ out[2] # NoItem => atO2 \in 0 .. N - 1
         /\ dst' = IF out[2] = NoItem THEN dst ELSE [dst EXCEPT ![atO2] = atO2]
         /\ TestCmp' => Num_Write_rsp' = N
<1>1. /\ atO2 \in Int /\ atO2 = Num_Write_rsp + unacked /\ atO2 <= N /\ atO2 <= P /\ atO1 <= P
      /\ Num_Write_rsp \in Nat /\ unacked \in Nat /\ N \in Nat /\ P \in Int /\ P <= N
      /\ atO1 \in Int /\ atO2 = atO1 - (IF out[2] = NoItem THEN 0 ELSE 1)
  <2>1. P \in Int
    BY WriteTypes DEF Ruled, Counted
  <2>2. /\ atO2 \in Int /\ atO2 = Num_Write_rsp + unacked /\ atO2 <= P /\ atO1 <= P
        /\ Num_Write_rsp \in Nat /\ unacked \in Nat /\ N \in Nat /\ P <= N
        /\ atO1 \in Int /\ atO2 = atO1 - (IF out[2] = NoItem THEN 0 ELSE 1)
    BY OutPlaces
  <2> QED BY <2>1, <2>2
<1>2. n \in Nat /\ n <= unacked
  <2>1. n \in {0} \cup Ackable
    BY DEF AnyClk
  <2> QED BY <1>1, <2>1 DEF Ackable
<1>3. N < CountMod /\ CountMod \in Nat
  BY ModAssumption DEF Ruled, Counted, Finite
<1>4. Num_Write_rsp' = Num_Write_rsp + n
  <2>1. Num_Write_rsp' = (Num_Write_rsp + n) % CountMod
    BY ClkParts DEF CountWriteRsp
  <2>2. Num_Write_rsp + n \in 0 .. CountMod - 1
    BY <1>1, <1>2, <1>3
  <2> QED BY <1>3, <2>1, <2>2, ModSmall
<1>5. out[2] # NoItem => out[2] = Line(atO2) /\ atO2 \in 0 .. N - 1
  BY <1>1 DEF OutInv
<1>6. HostWrites(n)
  BY ClkParts
<1>7. unacked' = unacked + (IF out[2] = NoItem THEN 0 ELSE 1) - n
  BY <1>6 DEF HostWrites
<1>8. dst' = IF out[2] = NoItem THEN dst ELSE [dst EXCEPT ![atO2] = atO2]
  <2>1. CASE out[2] = NoItem
    BY <1>6, <2>1 DEF HostWrites
  <2>2. CASE out[2] # NoItem
    <3>1. out[2].addr = atO2 /\ out[2].data = atO2 /\ atO2 \in DstLines
      BY <1>1, <1>5, <2>2, LineIs DEF DstLines, N
    <3> QED BY <1>6, <2>2, <3>1 DEF HostWrites
  <2> QED BY <2>1, <2>2
<1>9. TestCmp' => Num_Write_rsp' = N
  <2>1. Completion(N, Len(q) < TxCap)
    BY ClkParts DEF N
  <2>2. TestCmp' => TestCmp \/ Num_Write_rsp = N
    BY <2>1 DEF Completion
  <2>3. TestCmp' => Num_Write_rsp = N
    BY <2>2 DEF OutInv
  <2> QED BY <1>1, <1>2, <1>4, <2>3
<1> QED BY <1>2, <1>4, <1>5, <1>7, <1>8, <1>9

LEMMA OutInvStep ==
  ASSUME Ruled, RamInv, FetchInv, SlackIInv, TxCap >= TxThresh + LineLen + 6, PipeInv, OutInv,
         NEW g, NEW sent, NEW i, NEW drain, NEW n, AnyClk(g, sent, i, drain, n)
  PROVE  OutInv'
<1>1. /\ q' \in Seq(Lines)
      /\ \A k \in 1 .. Len(q') : q'[k] = Line(atQ + One(drain) + k - 1)
      /\ out'[1] = IF drain THEN Line(atQ) ELSE NoItem
      /\ out'[2] = out[1]
  BY QueueMoves
<1>2. /\ atQ' = atQ + One(drain) /\ atO1' = atQ /\ atO2' = atO1
  BY OutMoves
<1>3. \A k \in 1 .. Len(q') : q'[k] = Line(atQ + k - 1)'
  <2> SUFFICES ASSUME NEW k \in 1 .. Len(q') PROVE q'[k] = Line(atQ + k - 1)'
    OBVIOUS
  <2>1. Line(atQ + k - 1)' = Line(atQ' + k - 1)
    BY DEF Line
  <2> QED BY <1>1, <1>2, <2>1
<1>4. /\ out'[1] # NoItem => out'[1] = Line(atO1)'
      /\ out'[2] # NoItem => out'[2] = Line(atO2)'
  BY <1>1, <1>2 DEF OutInv, Line
<1>5. atO2' = Num_Write_rsp' + unacked'
      /\ dst' = [a \in DstLines |-> IF a < atO2 THEN a ELSE Blank]'
  <2>1. /\ atO2 \in Int /\ atO2 = Num_Write_rsp + unacked
        /\ Num_Write_rsp \in Nat /\ unacked \in Nat
        /\ atO1 \in Int /\ atO2 = atO1 - (IF out[2] = NoItem THEN 0 ELSE 1)
    BY OutPlaces
  <2>2. /\ unacked' = unacked + (IF out[2] = NoItem THEN 0 ELSE 1) - n
        /\ Num_Write_rsp' = Num_Write_rsp + n /\ n \in Nat
        /\ out[2] # NoItem => atO2 \in 0 .. N - 1
        /\ dst' = IF out[2] = NoItem THEN dst ELSE [dst EXCEPT ![atO2] = atO2]
    BY HostMoves
  <2>3. dst = [a \in DstLines |-> IF a < atO2 THEN a ELSE Blank]
    BY DEF OutInv
  <2>4. [a \in DstLines |-> IF a < atO2 THEN a ELSE Blank]'
          = [a \in DstLines |-> IF a < atO1 THEN a ELSE Blank]
    BY <1>2, ClkParts DEF DstLines, Blank
  <2>5. dst' = [a \in DstLines |-> IF a < atO1 THEN a ELSE Blank]
    <3>1. CASE out[2] = NoItem
      BY <2>1, <2>2, <2>3, <3>1
    <3>2. CASE out[2] # NoItem
      <4>1. dst' = [dst EXCEPT ![atO2] = atO2] /\ atO2 \in DstLines
        BY <2>2, <3>2 DEF DstLines, N
      <4>2. atO1 = atO2 + 1
        BY <2>1, <3>2
      <4>3. \A a \in DstLines : a \in Int
        BY DEF DstLines
      <4> DEFINE f == [a \in DstLines |-> IF a < atO1 THEN a ELSE Blank]
      <4>4. DOMAIN dst' = DstLines
        BY <2>3, <4>1
      <4>5. ASSUME NEW a \in DstLines PROVE dst'[a] = IF a < atO1 THEN a ELSE Blank
        BY <2>1, <2>3, <4>1, <4>2, <4>3
      <4>6. dst' = [a \in DstLines |-> dst'[a]]
        BY <2>3, <4>1
      <4> QED BY <4>5, <4>6
    <3> QED BY <3>1, <3>2
  <2> QED BY <1>2, <2>1, <2>2, <2>4, <2>5
<1>6. TestCmp' => Num_Write_rsp' = N'
  BY HostMoves, ClkParts DEF N
<1> QED BY <1>1, <1>3, <1>4, <1>5, <1>6 DEF OutInv, Lines

-----------------------------------------------------------------------------
(***************************************************************************)
(* The invariant of a finite copy holds initially and after every clock.   *)
(***************************************************************************)
FiniteCopy == ~Cont /\ NumLines > 0

LEMMA StartLen == ASSUME Init PROVE q = <<>> /\ Len(q) = 0 /\ reads = <<>> /\ Len(reads) = 0
BY EmptySeq DEF Init, TxQ!Init

LEMMA FiniteInit == ASSUME Init, FiniteCopy PROVE Finite
<1>1. ~Cont /\ N \in LineCounts /\ N > 0
  BY DEF Init, FiniteCopy, N
<1>2. N \in 0 .. CountMod - 1 /\ N % LineLen = 0
  BY <1>1, CountsAssumption
<1>3. N > 0 /\ N < CountMod /\ N \in Int
  BY <1>1, <1>2, ModAssumption
<1> QED BY <1>1, <1>2, <1>3, AlFacts DEF Finite

LEMMA ReadInit ==
  ASSUME Init, Finite PROVE FillInv /\ ReadsInv /\ RamInv /\ CountInv
<1>1. /\ read_fsm = 0 /\ RdAddr = 0 /\ Num_Read_req = LineLen
      /\ FSM_Rd_throttle = 0 /\ Read_Buffer_ID = 0 /\ Num_buff_RdReq = 0
      /\ buff_status = [b \in Buffers |-> "WRITE_DONE"]
      /\ buff_serviced = [b \in Buffers |-> b = 1]
      /\ buff_rd_cmplt = [b \in Buffers |-> FALSE]
      /\ Total_Num_RdRsp = 0 /\ Num_RdRsp_buff = [b \in Buffers |-> 0]
      /\ trigger_rds_done = FALSE /\ rd_cmplt = FALSE
      /\ memwr = None
  BY DEF Init, Lpbk1Init
<1>2. fbase = 0 /\ Len(reads) = 0 /\ memwr.valid = FALSE
  BY <1>1, StartLen, LnFacts DEF fbase, None
<1>3. Open = {} /\ \A b \in Buffers : ~Storing(b) /\ OpenOf(b) = {}
  BY <1>2 DEF Open, OpenOf, Storing
<1>4. FillInv
  BY <1>1, <1>2, AlFacts DEF FillInv
<1>5. ReadsInv
  <2>1. \A b \in Buffers, t \in 0 .. BufReqs - 1 : At(b, <<t, 0>>) \in Int
    <3>1. \A t \in 0 .. BufReqs - 1 : <<t, 0>> \in Slots
      BY DEF Slots
    <3> QED BY <1>4, <3>1, TypesInit, AtFacts
  <2>2. \A b \in Buffers, t \in 0 .. BufReqs - 1 :
          ~(0 <= At(b, <<t, 0>>) /\ At(b, <<t, 0>>) < RdAddr)
    <3> SUFFICES ASSUME NEW b \in Buffers, NEW t \in 0 .. BufReqs - 1
                 PROVE  ~(0 <= At(b, <<t, 0>>) /\ At(b, <<t, 0>>) < RdAddr)
      OBVIOUS
    <3>1. RdAddr = 0 /\ At(b, <<t, 0>>) \in Int
      BY <1>1, <2>1
    <3> QED BY <3>1
  <2> QED BY <1>2, <2>2 DEF ReadsInv
<1>6. RamInv
  <2>1. \A b \in Buffers, s \in Slots : At(b, s) \in Int
    BY <1>4, TypesInit, AtFacts
  <2> QED BY <1>1, <2>1 DEF RamInv
<1>7. CountInv
  <2>1. TotalInv
    BY <1>1, <1>2 DEF TotalInv, Finite
  <2>2. ASSUME NEW b \in Buffers PROVE BufferInv(b)
    <3>1. OpenOf(b) = {} /\ Num_RdRsp_buff[b] = 0 /\ ~Storing(b) /\ ~Held(b)
          /\ buff_status[b] = "WRITE_DONE" /\ (buff_serviced[b] <=> b = 1)
      BY <1>1, <1>3 DEF Held
    <3>2. Cardinality(OpenOf(b)) = 0
      BY <3>1, FS_EmptySet
    <3>3. b # 1 => Asked(b) = 0
      BY <1>1, LnFacts DEF Asked, Buffers
    <3> QED BY <1>1, <3>1, <3>2, <3>3 DEF BufferInv
  <2> QED BY <2>1, <2>2 DEF CountInv
<1> QED BY <1>4, <1>5, <1>6, <1>7

LEMMA WriteInit ==
  ASSUME Init, Finite PROVE CtlInv /\ TurnInv /\ FetchInv /\ PipeInv /\ OutInv
<1>1. /\ RdAddr = 0 /\ Read_Buffer_ID = 0 /\ Num_buff_RdReq = 0 /\ fsm_write_ctrl = 0
      /\ buff_status = [b \in Buffers |-> "WRITE_DONE"]
      /\ buff_serviced = [b \in Buffers |-> b = 1]
      /\ buff_wr_cmplt = [b \in Buffers |-> FALSE]
      /\ Wr_go = FALSE /\ Wr_cmplt = FALSE /\ latch_RAM_rd_cmp = FALSE
      /\ detect_cur_rd_cmp_reg = <<FALSE, FALSE>>
      /\ write_fsm = 0 /\ WrReq_tid = 0 /\ CL_ID = 0
      /\ Total_ram_reads = 1
      /\ wrpipe = <<None, None, None, None>> /\ wrreq = None
      /\ Num_Write_rsp = 0 /\ TestCmp = FALSE /\ unacked = 0
      /\ out = <<NoItem, NoItem>> /\ dst = [a \in DstLines |-> Blank]
  BY DEF Init, Lpbk1Init, TxQ!Init
<1>2. /\ ~reg1 /\ ~reg2 /\ ~Handing /\ P = 0 /\ wbase = 0 /\ fbase = 0 /\ gbase = 0
      /\ wrTurn = 0 /\ ~wrRuns /\ ~writesOut
  BY <1>1, LnFacts DEF reg1, reg2, Handing, P, wbase, fbase, gbase, wrTurn, wrRuns, writesOut
<1>3. /\ wrpipe[1].valid = FALSE /\ wrpipe[2].valid = FALSE
      /\ wrpipe[3].valid = FALSE /\ wrpipe[4].valid = FALSE /\ wrreq.valid = FALSE
  BY <1>1 DEF None
<1>4. q = <<>> /\ Len(q) = 0
  BY StartLen
<1>5. CtlInv
  BY <1>1, <1>2 DEF CtlInv, Finite
<1>6. TurnInv
  <2>1. B \in Nat /\ B > 0 /\ Al(0)
    BY LnFacts, AlFacts
  <2>2. 0 % B = 0
    BY <2>1
  <2>3. \A b \in Buffers : buff_serviced[b] <=> b = 1
    BY <1>1
  <2>4. buff_serviced[1 - Read_Buffer_ID] /\ ~buff_serviced[Read_Buffer_ID]
    BY <1>1, <2>3 DEF Buffers
  <2>5. gbase = fbase /\ wrTurn = Read_Buffer_ID
    BY <1>1, <1>2
  <2>6. Turns(Read_Buffer_ID, 1 - Read_Buffer_ID)
    BY <2>4, <2>5 DEF Turns
  <2> QED BY <1>2, <2>1, <2>2, <2>6 DEF TurnInv
<1>7. FetchInv /\ PipeInv
  BY <1>1, <1>3 DEF FetchInv, PipeInv, Carries, Follows
<1>8. OutInv
  <2>0. /\ One(wrpipe[1].valid) = 0 /\ One(wrpipe[2].valid) = 0 /\ One(wrpipe[3].valid) = 0
        /\ One(wrpipe[4].valid) = 0 /\ One(wrreq.valid) = 0
        /\ out[1] = NoItem /\ out[2] = NoItem
    BY <1>1, <1>3 DEF One
  <2>1. at1 = 0 /\ at2 = 0 /\ at3 = 0
    BY <1>2, <2>0 DEF at1, at2, at3
  <2>2. atQ = 0 /\ atO1 = 0 /\ atO2 = 0
    <3>1. at4 = 0 /\ at5 = 0
      BY <2>0, <2>1 DEF at4, at5
    <3>2. Len(q) = 0
      BY <1>4
    <3>3. atQ = 0
      BY <3>1, <3>2 DEF atQ
    <3> QED BY <2>0, <3>3 DEF atO1, atO2
  <2>3. dst = [a \in DstLines |-> IF a < atO2 THEN a ELSE Blank]
    <3>1. \A a \in DstLines : ~(a < 0)
      BY DEF DstLines
    <3> QED BY <1>1, <2>2, <3>1
  <2>4. q \in Seq([addr : Int, data : Int])
    BY <1>4, EmptySeq
  <2> QED BY <1>1, <1>4, <2>2, <2>3, <2>4 DEF OutInv
<1> QED BY <1>5, <1>6, <1>7, <1>8

LEMMA CopyInit == Init /\ FiniteCopy => CopyIInv
BY TypesInit, SlackInit, FiniteInit, ReadInit, WriteInit DEF CopyIInv

LEMMA CopyClk ==
  ASSUME TxCap >= TxThresh + LineLen + 6, CopyIInv,
         NEW g, NEW sent, NEW i, NEW drain, NEW n, AnyClk(g, sent, i, drain, n)
  PROVE  /\ Finite' /\ FillInv' /\ ReadsInv' /\ RamInv' /\ CountInv'
         /\ CtlInv' /\ TurnInv' /\ FetchInv' /\ PipeInv' /\ OutInv'
<1>1. /\ TypesIInv /\ SlackIInv /\ Finite /\ FillInv /\ ReadsInv /\ RamInv /\ CountInv
      /\ CtlInv /\ TurnInv /\ FetchInv /\ PipeInv /\ OutInv /\ Ruled
      /\ TxCap >= TxThresh + LineLen + 6
  BY DEF CopyIInv, Ruled, Counted
<1>2. RdAddr <= N
  BY <1>1, ReadBound
<1>3. RdAddr <= RdAddr'
  <2>1. RdAddr' = RdAddr + (IF sent THEN LineLen ELSE 0) /\ RdAddr \in Nat
    BY <1>1, FillMoves, BaseFacts
  <2> QED BY <2>1
<1>4. Num_Write_rsp <= P
  BY <1>1, OutPlaces
<1>5. Finite'
  BY <1>1, ClkParts DEF Finite, N, Al
<1>6. FillInv'
  BY <1>1, FillMoves
<1>7. ReadsInv' /\ RamInv'
  BY <1>1, ReadsInvStep, RamInvStep
<1>8. CountInv'
  BY <1>1, CountInvStep
<1>9. CtlInv'
  BY <1>1, <1>2, <1>3, <1>4, CtlInvStep
<1>10. TurnInv'
  BY <1>1, <1>2, TurnInvStep
<1>11. FetchInv'
  BY <1>1, <1>2, FetchInvStep
<1>12. PipeInv'
  BY <1>1, PipeInvStep
<1>13. OutInv'
  BY <1>1, OutInvStep
<1> QED BY <1>5, <1>6, <1>7, <1>8, <1>9, <1>10, <1>11, <1>12, <1>13

LEMMA CopyStill == CopyIInv /\ UNCHANGED vars => CopyIInv'
<1> SUFFICES ASSUME CopyIInv, UNCHANGED vars PROVE CopyIInv'
  OBVIOUS
<1> USE DEF vars, lpbk1Vars, rdVars, bufVars, rspVars, wrVars, doneVars, envVars, CopyIInv
<1>1. TypesIInv' /\ SlackIInv'
  <2>1. TypesIInv'
    BY TypesStep
  <2>2. SlackIInv'
    BY ZenonT(60) DEF SlackIInv, Types, Stages, IsSeq, SlackInv, coming, owed, One, NeverRefused
  <2> QED BY <2>1, <2>2
<1>2. N' = N /\ fbase' = fbase /\ P' = P /\ wbase' = wbase /\ Open' = Open /\ B' = B
  BY DEF N, fbase, P, wbase, Open, B, Ln
<1>3. Finite' /\ FillInv'
  BY <1>2 DEF Finite, FillInv, Al
<1>4. ReadsInv' /\ RamInv'
  BY <1>2 DEF ReadsInv, RamInv, At, Base, Line, Storing, Ln, Slots
<1>5. CountInv'
  <2>1. TotalInv'
    BY <1>2 DEF CountInv, TotalInv
  <2>2. ASSUME NEW b \in Buffers, BufferInv(b) PROVE BufferInv(b)'
    <3>1. OpenOf(b)' = OpenOf(b) /\ Asked(b)' = Asked(b) /\ (Whole(b)' <=> Whole(b))
      BY <1>2 DEF OpenOf, InBlock, Base, Asked, Whole, Ln
    <3>2. (Held(b)' <=> Held(b)) /\ (Storing(b)' <=> Storing(b))
      BY DEF Held, Storing
    <3> QED BY <2>2, <3>1, <3>2 DEF BufferInv
  <2> QED BY <2>1, <2>2 DEF CountInv
<1>6. wrTurn' = wrTurn /\ (wrRuns' <=> wrRuns) /\ (Handing' <=> Handing) /\ gbase' = gbase
      /\ (reg1' <=> reg1) /\ (reg2' <=> reg2) /\ (writesOut' <=> writesOut)
  BY <1>2 DEF wrTurn, wrRuns, Handing, gbase, reg1, reg2, writesOut
<1>7. CtlInv'
  BY <1>2, <1>6 DEF CtlInv, Writing
<1>8. TurnInv'
  BY <1>2, <1>6 DEF TurnInv, Turns, Al
<1>9. /\ at1' = at1 /\ at2' = at2 /\ at3' = at3 /\ at4' = at4 /\ at5' = at5
      /\ atQ' = atQ /\ atO1' = atO1 /\ atO2' = atO2
  BY <1>2 DEF at1, at2, at3, at4, at5, atQ, atO1, atO2, One
<1>10. FetchInv'
  BY <1>2, <1>9 DEF FetchInv, InPacket, At, Base, Storing, Ln, Al, owed, Slots
<1>11. PipeInv'
  BY <1>9 DEF PipeInv, Carries, Follows, InPacket, Line, Al
<1>12. OutInv'
  BY <1>2, <1>9 DEF OutInv, Line, DstLines, Blank
<1> QED BY <1>1, <1>3, <1>4, <1>5, <1>7, <1>8, <1>10, <1>11, <1>12

LEMMA CopyStep ==
  ASSUME TxCap >= TxThresh + LineLen + 6, CopyIInv, [Next]_vars
  PROVE  CopyIInv'
<1>1. CASE UNCHANGED vars
  BY <1>1, CopyStill
<1>2. CASE Next
  <2>1. TypesIInv'
    BY TypesStep DEF CopyIInv
  <2>2. SlackIInv'
    BY SlackStep DEF CopyIInv
  <2>3. PICK g, sent, drain, i, n : AnyClk(g, sent, i, drain, n)
    BY <1>2, NextIsClk
  <2> QED BY <2>1, <2>2, <2>3, CopyClk DEF CopyIInv
<1> QED BY <1>1, <1>2

-----------------------------------------------------------------------------
LEMMA Written ==
  ASSUME CopyIInv
  PROVE  /\ atO2 \in Nat /\ atO2 <= N /\ N \in Nat /\ atO2 <= at5
         /\ atO2 = Num_Write_rsp + unacked /\ Num_Write_rsp \in Nat /\ unacked \in Nat
         /\ dst = [a \in DstLines |-> IF a < atO2 THEN a ELSE Blank]
         /\ wrreq.valid => at5 < N
<1>1. /\ atO2 \in Int /\ atO1 \in Int /\ atQ \in Int /\ at5 \in Int /\ Len(q) \in Nat
      /\ atQ = at5 - Len(q)
      /\ atO1 = atQ - (IF out[1] = NoItem THEN 0 ELSE 1)
      /\ atO2 = atO1 - (IF out[2] = NoItem THEN 0 ELSE 1)
      /\ atO2 <= P /\ P <= N /\ N \in Nat
      /\ atO2 = Num_Write_rsp + unacked /\ Num_Write_rsp \in Nat /\ unacked \in Nat
  BY OutPlaces DEF CopyIInv, Ruled, Counted
<1>2. P \in Int
  BY WriteTypes DEF CopyIInv
<1>3. atO2 \in Nat /\ atO2 <= N /\ atO2 <= at5
  BY <1>1, <1>2
<1>4. wrreq.valid => at5 < N
  <2> DEFINE o1 == One(wrpipe[1].valid)
             o2 == One(wrpipe[2].valid)
             o3 == One(wrpipe[3].valid)
             o4 == One(wrpipe[4].valid)
             o5 == One(wrreq.valid)
  <2>1. /\ o1 \in {0, 1} /\ o2 \in {0, 1} /\ o3 \in {0, 1} /\ o4 \in {0, 1}
    BY OneType, Zenon
  <2>2. wrreq.valid => o5 = 1
    BY DEF One
  <2>3. /\ at1 = P - o1 /\ at2 = at1 - o2 /\ at3 = at2 - o3 /\ at4 = at3 - o4 /\ at5 = at4 - o5
    BY DEF at1, at2, at3, at4, at5
  <2> HIDE DEF o1, o2, o3, o4, o5
  <2> QED BY <1>1, <1>2, <2>1, <2>2, <2>3
<1> QED BY <1>1, <1>3, <1>4 DEF CopyIInv, OutInv

(***************************************************************************)
(* Every write request carries the line that was read from its address,    *)
(* inside the buffer and at its place in the packet: no tag and no slot of *)
(* the two RAMs is used again before its line has been taken out, whatever *)
(* the order of the responses, the sizes and the line count.               *)
(***************************************************************************)
THEOREM Lpbk1LinesIntact ==
  ASSUME TxCap >= TxThresh + LineLen + 6
  PROVE  Spec /\ FiniteCopy => []LinesIntact
<1>1. CopyIInv => LinesIntact
  <2> SUFFICES ASSUME CopyIInv, wrreq.valid
               PROVE  /\ wrreq.line.addr \in DstLines
                      /\ wrreq.line.data = wrreq.line.addr
                      /\ wrreq.line.addr % LineLen = LineLen - 1 - wrreq.len
                      /\ wrreq.sop <=> wrreq.len = LineLen - 1
    BY DEF LinesIntact
  <2>1. at5 \in Nat /\ at5 < N /\ N \in Nat
    <3>1. at5 \in Int
      BY OutPlaces DEF CopyIInv, Ruled, Counted
    <3> QED BY <3>1, Written
  <2>2. wrreq.line = Line(at5) /\ InPacket(wrreq, at5)
    BY DEF CopyIInv, PipeInv, Carries
  <2>3. wrreq.line.addr = at5 /\ wrreq.line.data = at5
    BY <2>2 DEF Line
  <2>4. /\ wrreq.len \in 0 .. LineLen - 1 /\ Al(at5 + wrreq.len + 1)
        /\ wrreq.sop <=> wrreq.len = LineLen - 1
    BY <2>2 DEF InPacket
  <2> DEFINE l == wrreq.len
             a == at5
  <2>5. a % LineLen = LineLen - 1 - l
    <3>1. a \in Nat /\ l \in 0 .. LineLen - 1 /\ Al(a + l + 1)
      BY <2>1, <2>4
    <3> HIDE DEF a, l
    <3> QED BY <3>1 DEF Al
  <2>6. at5 \in DstLines
    BY <2>1 DEF DstLines, N
  <2> QED BY <2>3, <2>4, <2>5, <2>6
<1> QED BY CopyInit, CopyStep, <1>1, PTL DEF Spec

(***************************************************************************)
(* The lines written are the lines acknowledged and pending: none is       *)
(* written twice and none is lost between the queue and the responses that *)
(* the engine counts.                                                      *)
(***************************************************************************)
THEOREM Lpbk1OncePerLine ==
  ASSUME TxCap >= TxThresh + LineLen + 6
  PROVE  Spec /\ FiniteCopy => []OncePerLine
<1>1. CopyIInv => OncePerLine
  <2> SUFFICES ASSUME CopyIInv PROVE OncePerLine
    OBVIOUS
  <2>1. /\ atO2 \in Nat /\ atO2 <= N /\ N \in Nat
        /\ atO2 = Num_Write_rsp + unacked
        /\ dst = [a \in DstLines |-> IF a < atO2 THEN a ELSE Blank]
    BY Written
  <2>2. {a \in DstLines : dst[a] # Blank} = 0 .. atO2 - 1
    BY <2>1 DEF DstLines, Blank, N
  <2>3. Cardinality(0 .. atO2 - 1) = atO2
    <3>1. PICK m \in Int : m = atO2 - 1
      BY <2>1
    <3>2. Cardinality(0 .. m) = IF 0 > m THEN 0 ELSE m - 0 + 1
      BY FS_Interval
    <3> QED BY <2>1, <3>1, <3>2
  <2> QED BY <2>1, <2>2, <2>3 DEF OncePerLine
<1> QED BY CopyInit, CopyStep, <1>1, PTL DEF Spec

(***************************************************************************)
(* A packet leaves the engine in consecutive clocks and its lines in the   *)
(* order of their addresses.                                               *)
(***************************************************************************)
THEOREM Lpbk1PacketsContiguous ==
  ASSUME TxCap >= TxThresh + LineLen + 6
  PROVE  Spec /\ FiniteCopy => PacketsContiguous
<1> DEFINE A == wrreq.valid /\ wrreq.len > 0 =>
                  /\ wrreq'.valid
                  /\ wrreq'.len = wrreq.len - 1
                  /\ wrreq'.line.addr = wrreq.line.addr + 1
<1>1. CopyIInv /\ [Next]_vars => [A]_vars
  <2> SUFFICES ASSUME CopyIInv, Next, wrreq.valid, wrreq.len > 0
               PROVE  /\ wrreq'.valid
                      /\ wrreq'.len = wrreq.len - 1
                      /\ wrreq'.line.addr = wrreq.line.addr + 1
    OBVIOUS
  <2>1. PICK g, sent, drain, i, n : AnyClk(g, sent, i, drain, n)
    BY NextIsClk
  <2>2. wrreq' = wrpipe[4]
    BY <2>1, ClkParts DEF WritePipe
  <2>3. wrpipe[4].valid /\ wrpipe[4].len = wrreq.len - 1
    BY DEF CopyIInv, PipeInv, Follows
  <2>4. wrpipe[4].line = Line(at4) /\ wrreq.line = Line(at5)
    BY <2>3 DEF CopyIInv, PipeInv, Carries
  <2>5. at4 = at5 + 1
    <3>1. at4 \in Int
      BY <2>1, PipePlaces DEF CopyIInv, Ruled, Counted
    <3>2. at5 = at4 - One(wrreq.valid)
      BY DEF at5
    <3>3. One(wrreq.valid) = 1
      BY DEF One
    <3>4. at5 = at4 - 1
      BY <3>2, <3>3
    <3> QED BY <3>1, <3>4
  <2>6. wrpipe[4].line.addr = wrreq.line.addr + 1
    BY <2>4, <2>5 DEF Line
  <2> QED BY <2>2, <2>3, <2>6
<1> QED BY CopyInit, CopyStep, <1>1, PTL DEF Spec, PacketsContiguous

-----------------------------------------------------------------------------
(* Init and a clock of the engine are an Init and a step of the copy.      *)
LEMMA CopyRefinesInit == Init /\ FiniteCopy => Copy!Init
BY DEF FiniteCopy, Init, Lpbk1Init, Copy!Init, Copy!Lines, DstLines, Blank

LEMMA CopyRefinesStep ==
  ASSUME TxCap >= TxThresh + LineLen + 6, CopyIInv,
         NEW g, NEW sent, NEW i, NEW drain, NEW n, AnyClk(g, sent, i, drain, n)
  PROVE  Copy!Next \/ UNCHANGED <<NumLines, dst, TestCmp>>
<1>1. /\ atO2 \in Nat /\ atO2 <= N /\ N \in Nat
      /\ atO2 = Num_Write_rsp + unacked /\ Num_Write_rsp \in Nat /\ unacked \in Nat
      /\ dst = [a \in DstLines |-> IF a < atO2 THEN a ELSE Blank]
  BY Written
<1>2. /\ Num_Write_rsp' = Num_Write_rsp + n /\ n \in Nat /\ n <= unacked
      /\ out[2] # NoItem => atO2 \in 0 .. N - 1
      /\ dst' = IF out[2] = NoItem THEN dst ELSE [dst EXCEPT ![atO2] = atO2]
      /\ TestCmp' => Num_Write_rsp' = N
  BY HostMoves DEF CopyIInv, Ruled, Counted
<1>3. /\ TestCmp \in BOOLEAN /\ TestCmp' \in BOOLEAN /\ NumLines' = NumLines
      /\ TestCmp => TestCmp'
  <2>1. TestCmp \in BOOLEAN /\ TestCmp' \in BOOLEAN
    BY TypeOKStep DEF CopyIInv, TypesIInv, TypeOK
  <2>2. Completion(NumLines, Len(q) < TxCap) /\ NumLines' = NumLines
    BY ClkParts
  <2> QED BY <2>1, <2>2 DEF Completion
<1>4. CASE out[2] # NoItem
  <2>1. ~TestCmp' /\ ~TestCmp
    BY <1>1, <1>2, <1>3, <1>4
  <2>2. atO2 \in Copy!Lines /\ atO2 \in DstLines
    BY <1>2, <1>4 DEF Copy!Lines, N, DstLines
  <2>3. dst[atO2] = Blank
    BY <1>1, <2>2
  <2>4. dst' = [dst EXCEPT ![atO2] = atO2] /\ TestCmp' = TestCmp
    BY <1>2, <1>3, <1>4, <2>1
  <2>5. Copy!CopyLine(atO2)
    BY <1>3, <2>1, <2>3, <2>4 DEF Copy!CopyLine, Blank
  <2> QED BY <2>2, <2>5 DEF Copy!Next
<1>5. CASE out[2] = NoItem /\ TestCmp' = TestCmp
  BY <1>2, <1>3, <1>5
<1>6. CASE out[2] = NoItem /\ TestCmp' # TestCmp
  <2>1. TestCmp' /\ atO2 = N /\ dst' = dst
    BY <1>1, <1>2, <1>3, <1>6
  <2>2. dst = [a \in Copy!Lines |-> a]
    BY <1>1, <2>1 DEF DstLines, Copy!Lines, N
  <2>3. Copy!Finish
    BY <1>3, <2>1, <2>2 DEF Copy!Finish
  <2> QED BY <2>3 DEF Copy!Next
<1> QED BY <1>4, <1>5, <1>6

(***************************************************************************)
(* The closed engine implements the memory copy: a clock writes one line   *)
(* not yet written, with the source's contents, and completion is reported *)
(* once, with the whole buffer copied; nothing is written after it.        *)
(***************************************************************************)
THEOREM Lpbk1ImplementsCopy ==
  ASSUME TxCap >= TxThresh + LineLen + 6
  PROVE  Spec /\ FiniteCopy => ImplementsCopy
<1>1. CopyIInv /\ [Next]_vars => [Copy!Next]_(Copy!cvars)
  <2> SUFFICES ASSUME CopyIInv, [Next]_vars
               PROVE  Copy!Next \/ UNCHANGED <<NumLines, dst, TestCmp>>
    BY DEF Copy!cvars
  <2>1. CASE Next
    <3>1. PICK g, sent, drain, i, n : AnyClk(g, sent, i, drain, n)
      BY <2>1, NextIsClk
    <3> QED BY <3>1, CopyRefinesStep
  <2>2. CASE UNCHANGED vars
    BY <2>2 DEF vars, lpbk1Vars, doneVars, envVars
  <2> QED BY <2>1, <2>2
<1> QED BY CopyInit, CopyStep, CopyRefinesInit, <1>1, PTL DEF Spec, ImplementsCopy, Copy!Spec
=============================================================================
