--------------------------- MODULE C1TxFifoProofs --------------------------
(***************************************************************************)
(* Proofs about C1TxFifo for every depth, threshold and set of values:     *)
(* FifoInv is an invariant, and the FIFO implements TxQueue.               *)
(***************************************************************************)
EXTENDS C1TxFifo, SequenceTheorems, TLAPS

USE DepthAssumption, ThreshAssumption, NoItemAssumption

-----------------------------------------------------------------------------
(***************************************************************************)
(* FifoInv holds initially and each conjunct is preserved by an edge.      *)
(***************************************************************************)
LEMMA InitInv == Init => FifoInv
<1> SUFFICES ASSUME Init PROVE FifoInv
  OBVIOUS
<1>1. TypeOK
  <2>1. /\ empty \in BOOLEAN /\ dout_v \in BOOLEAN /\ almFull \in BOOLEAN
        /\ underflow \in BOOLEAN /\ overflow \in BOOLEAN
        /\ ack_T1 \in BOOLEAN /\ ack_T2 \in BOOLEAN
    BY Zenon DEF Init
  <2>2. waddr \in Addr /\ raddr \in Addr /\ raddr_next \in Addr /\ count \in 0 .. Depth
    BY DEF Init, Addr
  <2> QED BY <2>1, <2>2 DEF Init, TypeOK
<1>2. FlagsAgree
  BY DEF Init, FlagsAgree
<1>3. PointersAgree
  BY DEF Init, PointersAgree, Slot, Wrap
<1>4. WordsAgree
  BY DEF Init, WordsAgree
<1> QED BY <1>1, <1>2, <1>3, <1>4 DEF FifoInv

LEMMA StepType ==
  ASSUME FifoInv, NEW wen \in BOOLEAN, NEW rdack \in BOOLEAN,
         NEW v \in Values, NEW x \in Values,
         Clk(wen, v, rdack, x) \/ ClkReset(wen, v, rdack, x)
  PROVE  TypeOK'
<1> USE DEF FifoInv, TypeOK, FlagsAgree, Addr
<1>1. /\ Wrap(waddr) \in Addr /\ Wrap(raddr) \in Addr
      /\ Wrap(Wrap(raddr)) \in Addr
  BY DEF Wrap
<1>2. /\ ctl_reg' \in [Addr -> Values] /\ ram' \in [Addr -> Values]
      /\ ram_q' \in Values /\ dout' \in Values
  BY SMTT(60) DEF Clk, ClkReset, ClkMemories
<1>3. ctlout' \in Values
  BY DEF Clk, ClkReset, ClkCtlOut
<1>4. waddr' \in Addr /\ raddr' \in Addr /\ raddr_next' \in Addr
  BY <1>1 DEF Clk, ClkReset, ClkPointers
<1>5. count' \in 0 .. Depth
  BY DEF Clk, ClkReset, ClkPointers, full
<1>6. /\ empty' \in BOOLEAN /\ dout_v' \in BOOLEAN /\ almFull' \in BOOLEAN
      /\ underflow' \in BOOLEAN /\ overflow' \in BOOLEAN
      /\ ack_T1' \in BOOLEAN /\ ack_T2' \in BOOLEAN
  <2>1. CASE Clk(wen, v, rdack, x)
    BY <2>1 DEF Clk, ClkPointers, ClkFlags, ClkAcks, full
  <2>2. CASE ClkReset(wen, v, rdack, x)
    BY <2>2, Zenon DEF ClkReset
  <2> QED BY <2>1, <2>2
<1> QED BY <1>2, <1>3, <1>4, <1>5, <1>6

LEMMA StepFlags ==
  ASSUME FifoInv, NEW wen \in BOOLEAN, NEW rdack \in BOOLEAN,
         NEW v \in Values, NEW x \in Values,
         Clk(wen, v, rdack, x) \/ ClkReset(wen, v, rdack, x)
  PROVE  FlagsAgree'
<1> USE DEF FifoInv, TypeOK, FlagsAgree
<1>1. CASE Clk(wen, v, rdack, x)
  BY <1>1 DEF Clk, ClkPointers, ClkFlags, full
<1>2. CASE ClkReset(wen, v, rdack, x)
  BY <1>2 DEF ClkReset
<1> QED BY <1>1, <1>2

LEMMA StepPointers ==
  ASSUME FifoInv, NEW wen \in BOOLEAN, NEW rdack \in BOOLEAN,
         NEW v \in Values, NEW x \in Values,
         Clk(wen, v, rdack, x) \/ ClkReset(wen, v, rdack, x)
  PROVE  PointersAgree'
<1> USE DEF FifoInv, TypeOK, FlagsAgree, PointersAgree, Addr, Slot, Wrap
<1>1. CASE Clk(wen, v, rdack, x)
  <2> /\ waddr' = IF wen /\ count # Depth THEN Wrap(waddr) ELSE waddr
      /\ raddr' = IF rdack /\ count # 0 THEN Wrap(raddr) ELSE raddr
      /\ raddr_next' = IF rdack /\ count # 0 THEN Wrap(Wrap(raddr)) ELSE raddr_next
      /\ count' = (count + (IF wen /\ count # Depth THEN 1 ELSE 0))
                    - (IF rdack /\ count # 0 THEN 1 ELSE 0)
    BY <1>1 DEF Clk, ClkPointers, full
  <2> QED OBVIOUS
<1>2. CASE ClkReset(wen, v, rdack, x)
  BY <1>2 DEF ClkReset
<1> QED BY <1>1, <1>2

LEMMA StepWords ==
  ASSUME FifoInv, NEW wen \in BOOLEAN, NEW rdack \in BOOLEAN,
         NEW v \in Values, NEW x \in Values,
         Clk(wen, v, rdack, x) \/ ClkReset(wen, v, rdack, x)
  PROVE  WordsAgree'
<1> USE DEF FifoInv, TypeOK, FlagsAgree, PointersAgree, WordsAgree, Addr
<1>1. CASE Clk(wen, v, rdack, x)
  <2>1. /\ waddr' = IF wen /\ count # Depth THEN Wrap(waddr) ELSE waddr
        /\ raddr' = IF rdack /\ count # 0 THEN Wrap(raddr) ELSE raddr
        /\ count' = (count + (IF wen /\ count # Depth THEN 1 ELSE 0))
                      - (IF rdack /\ count # 0 THEN 1 ELSE 0)
        /\ ctl_reg' = IF wen THEN [ctl_reg EXCEPT ![waddr] = v] ELSE ctl_reg
        /\ ram' = IF count = Depth THEN ram ELSE [ram EXCEPT ![waddr] = v]
        /\ ctlout' = IF ~dout_v
                       THEN IF wen THEN v ELSE ctlout
                       ELSE IF rdack /\ wen /\ count = 1 THEN v
                            ELSE IF rdack THEN ctl_reg[raddr_next] ELSE ctlout
    BY <1>1 DEF Clk, ClkPointers, ClkMemories, ClkCtlOut, full
  <2>2. count' > 0 => ctlout' = ram'[raddr']
    BY <2>1, SMTT(60) DEF Slot, Wrap
  <2>3. ASSUME NEW i \in 1 .. Depth - 1, i < count'
        PROVE  ctl_reg'[Slot(i)'] = ram'[Slot(i)']
    <3>1. i \in Addr /\ Slot(i) \in Addr /\ Slot(i)' \in Addr /\ raddr' \in Addr
      BY <2>1 DEF Slot, Wrap
    <3>2. ASSUME NEW j \in 1 .. Depth - 1, j # count
          PROVE  Slot(j) \in Addr /\ Slot(j) # waddr
      BY <3>2 DEF Slot
    <3>3. CASE raddr' = raddr
      <4>1. Slot(i)' = Slot(i)
        BY <3>3 DEF Slot
      <4>2. CASE i = count
        <5>1. wen /\ count # Depth /\ Slot(i) = waddr
          BY <2>1, <2>3, <4>2
        <5> QED BY <2>1, <4>1, <5>1
      <4>3. CASE i # count
        <5>1. i < count /\ Slot(i) # waddr
          BY <2>1, <2>3, <3>2, <4>3
        <5>2. ctl_reg'[Slot(i)] = ctl_reg[Slot(i)] /\ ram'[Slot(i)] = ram[Slot(i)]
          BY <2>1, <3>1, <5>1
        <5> QED BY <4>1, <5>1, <5>2
      <4> QED BY <4>2, <4>3
    <3>4. CASE raddr' = Wrap(raddr) /\ rdack /\ count # 0
      <4>1. i + 1 \in 1 .. Depth - 1 /\ i + 1 <= count
        BY <2>1, <2>3, <3>4
      <4>2. Slot(i)' = Slot(i + 1)
        BY <3>4, <4>1 DEF Slot, Wrap
      <4>3. CASE i + 1 = count
        <5>1. wen /\ count # Depth /\ Slot(i + 1) = waddr
          BY <2>1, <2>3, <3>4, <4>3
        <5> QED BY <2>1, <4>2, <5>1
      <4>4. CASE i + 1 # count
        <5>1. i + 1 < count /\ Slot(i + 1) # waddr /\ Slot(i + 1) \in Addr
          BY <3>2, <4>1, <4>4
        <5>2. /\ ctl_reg'[Slot(i + 1)] = ctl_reg[Slot(i + 1)]
              /\ ram'[Slot(i + 1)] = ram[Slot(i + 1)]
          BY <2>1, <5>1
        <5>3. ctl_reg[Slot(i + 1)] = ram[Slot(i + 1)]
          BY <4>1, <5>1
        <5> QED BY <4>2, <5>2, <5>3
      <4> QED BY <4>3, <4>4
    <3> QED BY <2>1, <3>3, <3>4
  <2> QED BY <2>2, <2>3
<1>2. CASE ClkReset(wen, v, rdack, x)
  BY <1>2 DEF ClkReset
<1> QED BY <1>1, <1>2

(***************************************************************************)
(* The flags, pointers and words of the FIFO agree in every reachable      *)
(* state, for every depth and threshold.                                   *)
(***************************************************************************)
THEOREM FifoInvariant == Spec => []FifoInv
<1>1. FifoInv /\ [Next]_vars => FifoInv'
  <2> SUFFICES ASSUME FifoInv, [Next]_vars PROVE FifoInv'
    OBVIOUS
  <2>1. CASE Next
    <3>1. PICK wen \in BOOLEAN, rdack \in BOOLEAN, v \in Values, x \in Values :
            Clk(wen, v, rdack, x) \/ ClkReset(wen, v, rdack, x)
      BY <2>1 DEF Next
    <3> QED
      BY <3>1, StepType, StepFlags, StepPointers, StepWords DEF FifoInv
  <2>2. CASE UNCHANGED vars
    BY <2>2 DEF vars, ptrs, flags, data, acks, FifoInv, TypeOK, FlagsAgree,
                PointersAgree, WordsAgree, Slot
  <2> QED BY <2>1, <2>2
<1> QED BY InitInv, <1>1, PTL DEF Spec

-----------------------------------------------------------------------------
(***************************************************************************)
(* The refinement.  The queue read out of the RAM is a sequence of count   *)
(* values whose head is the word at the read address.                      *)
(***************************************************************************)
QueueFacts ==
  /\ queue \in Seq(Values) /\ Len(queue) = count
  /\ \A i \in 1 .. count : queue[i] = ram[Slot(i - 1)]
  /\ queue = <<>> <=> count = 0
  /\ count > 0 => Head(queue) = ram[raddr]

LEMMA QueueSeq == FifoInv => QueueFacts
<1> SUFFICES ASSUME FifoInv PROVE QueueFacts
  OBVIOUS
<1> USE DEF FifoInv, TypeOK, Addr
<1>1. \A i \in 1 .. count : Slot(i - 1) \in Addr
  BY DEF Slot
<1>2. queue \in [1 .. count -> Values] /\ count \in Nat
  BY <1>1 DEF queue
<1>3. queue \in Seq(Values) /\ Len(queue) = count
  BY <1>2
<1>4. \A i \in 1 .. count : queue[i] = ram[Slot(i - 1)]
  BY DEF queue
<1>5. queue = <<>> <=> count = 0
  BY <1>3, EmptySeq
<1>6. count > 0 => Head(queue) = ram[raddr]
  <2> SUFFICES ASSUME count > 0 PROVE queue[1] = ram[raddr]
    BY <1>3, <1>5
  <2> QED BY <1>4 DEF Slot
<1> QED BY <1>3, <1>4, <1>5, <1>6 DEF QueueFacts

LEMMA QueueSeqNext == FifoInv' => QueueFacts'
BY QueueSeq, PTL

(***************************************************************************)
(* The registered outputs of a state that satisfies FifoInv are the ones   *)
(* TxQueue requires of its queue.                                          *)
(***************************************************************************)
LEMMA OutputsMatch == FifoInv => Queue!Outputs(queue)
<1> SUFFICES ASSUME FifoInv PROVE Queue!Outputs(queue)
  OBVIOUS
<1> USE QueueSeq DEF QueueFacts
<1>1. (IF dout_v THEN ctlout ELSE NoItem) = Queue!HeadOf(queue)
  BY QueueSeq DEF Queue!HeadOf, FifoInv, TypeOK, FlagsAgree, WordsAgree
<1>2. almFull = (Len(queue) >= FullThresh)
  BY QueueSeq DEF FifoInv, TypeOK, FlagsAgree
<1> QED BY <1>1, <1>2 DEF Queue!Outputs

LEMMA OutputsMatchNext == FifoInv' => Queue!Outputs(queue)'
BY OutputsMatch, PTL

(***************************************************************************)
(* A clock edge with reset inactive is one Clock step of the queue.        *)
(***************************************************************************)
LEMMA ClkIsQueueClock ==
  ASSUME FifoInv, FifoInv', NEW wen \in BOOLEAN, NEW rdack \in BOOLEAN,
         NEW v \in Values, NEW x \in Values, Clk(wen, v, rdack, x)
  PROVE  Queue!Clock(wen, v, rdack)
<1> DEFINE rest == IF rdack /\ queue # <<>> THEN Tail(queue) ELSE queue
           after == IF wen /\ Len(queue) < Depth THEN Append(rest, v) ELSE rest
<1> USE DEF FifoInv, TypeOK, Addr
<1>1. /\ waddr' = IF wen /\ count # Depth THEN Wrap(waddr) ELSE waddr
      /\ raddr' = IF rdack /\ count # 0 THEN Wrap(raddr) ELSE raddr
      /\ count' = (count + (IF wen /\ count # Depth THEN 1 ELSE 0))
                    - (IF rdack /\ count # 0 THEN 1 ELSE 0)
      /\ ram' = IF count = Depth THEN ram ELSE [ram EXCEPT ![waddr] = v]
      /\ ram_q' = IF raddr = waddr /\ count # Depth THEN x ELSE ram[raddr]
      /\ dout' = ram_q /\ ack_T1' = (rdack /\ dout_v) /\ ack_T2' = ack_T1
  BY DEF Clk, ClkPointers, ClkMemories, ClkAcks, full, FlagsAgree
<1>2. QueueFacts /\ QueueFacts'
  BY QueueSeq, QueueSeqNext
<1>3. /\ rest \in Seq(Values)
      /\ Len(rest) = IF rdack /\ count # 0 THEN count - 1 ELSE count
      /\ \A i \in 1 .. Len(rest) :
            rest[i] = IF rdack /\ count # 0 THEN queue[i + 1] ELSE queue[i]
  <2>1. CASE rdack /\ count # 0
    BY <1>2, <2>1, HeadTailProperties DEF QueueFacts
  <2>2. CASE ~(rdack /\ count # 0)
    BY <1>2, <2>2 DEF QueueFacts
  <2> QED BY <2>1, <2>2
<1>4. /\ after \in Seq(Values) /\ Len(after) = count'
      /\ \A i \in 1 .. Len(after) :
            after[i] = IF i <= Len(rest) THEN rest[i] ELSE v
  <2> HIDE DEF rest
  <2>1. CASE wen /\ count # Depth
    <3>1. after = Append(rest, v)
      BY <1>2, <2>1 DEF QueueFacts
    <3>2. Len(rest) \in Nat /\ Len(rest) + 1 = count'
      BY <1>1, <1>3, <2>1
    <3> HIDE DEF after
    <3> QED BY <1>3, <3>1, <3>2, AppendProperties
  <2>2. CASE ~(wen /\ count # Depth)
    <3>1. after = rest
      BY <1>2, <2>2 DEF QueueFacts
    <3>2. Len(rest) = count'
      BY <1>1, <1>3, <2>2
    <3> HIDE DEF after
    <3> QED BY <1>3, <3>1, <3>2
  <2> QED BY <2>1, <2>2
<1>5. ASSUME NEW i \in 1 .. count'
      PROVE  queue'[i] = after[i]
  <2>1. queue'[i] = ram'[Slot(i - 1)']
    BY <1>2 DEF QueueFacts
  <2> HIDE DEF rest, after
  <2>2. CASE i <= Len(rest)
    <3>1. CASE rdack /\ count # 0
      <4>1. Slot(i - 1)' = Slot(i) /\ i + 1 \in 1 .. count /\ i \in Nat
        BY <1>1, <1>3, <2>2, <3>1 DEF Slot, Wrap
      <4>2. ram'[Slot(i)] = ram[Slot(i)]
        BY <1>1, <4>1, SMTT(60) DEF Slot, PointersAgree
      <4>3. queue[i + 1] = ram[Slot(i)]
        BY <1>2, <4>1 DEF QueueFacts
      <4>4. rest[i] = queue[i + 1]
        BY <1>3, <2>2, <3>1, <4>1
      <4>5. after[i] = rest[i]
        BY <1>4, <2>2
      <4> QED BY <2>1, <4>1, <4>2, <4>3, <4>4, <4>5
    <3>2. CASE ~(rdack /\ count # 0)
      <4>1. Slot(i - 1)' = Slot(i - 1) /\ i \in 1 .. count
        BY <1>1, <1>3, <2>2, <3>2, SMTT(60) DEF Slot
      <4>2. ram'[Slot(i - 1)] = ram[Slot(i - 1)]
        BY <1>1, <4>1 DEF Slot, PointersAgree
      <4> QED BY <1>2, <1>3, <1>4, <2>1, <2>2, <3>2, <4>1, <4>2 DEF QueueFacts
    <3> QED BY <3>1, <3>2
  <2>3. CASE i > Len(rest)
    <3>1. wen /\ count # Depth /\ i = count'
      BY <1>1, <1>3, <2>3
    <3>2. Slot(i - 1)' = waddr
      BY <1>1, <3>1 DEF Slot, Wrap, PointersAgree
    <3>3. ram'[waddr] = v
      BY <1>1, <3>1
    <3>4. after[i] = v
      BY <1>3, <1>4, <2>3
    <3> QED BY <2>1, <3>2, <3>3, <3>4
  <2> QED BY <1>3, <2>2, <2>3
<1>6. queue' = after
  <2> HIDE DEF after
  <2> QED BY <1>2, <1>4, <1>5, SeqEqual DEF QueueFacts
<1>7. <<IF ack_T1 THEN ram_q ELSE NoItem, IF ack_T2 THEN dout ELSE NoItem>>'
        = <<IF rdack THEN Queue!HeadOf(queue) ELSE NoItem,
            IF ack_T1 THEN ram_q ELSE NoItem>>
  <2>1. (IF ack_T1 THEN ram_q ELSE NoItem)'
          = IF rdack THEN Queue!HeadOf(queue) ELSE NoItem
    BY <1>1, <1>2, SMTT(60) DEF QueueFacts, Queue!HeadOf, FlagsAgree, PointersAgree, Slot
  <2> QED BY <1>1, <2>1
<1>8. Queue!Outputs(queue)'
  BY OutputsMatchNext
<1> QED BY <1>6, <1>7, <1>8 DEF Queue!Clock, Queue!Outputs

LEMMA ResetIsQueueClear ==
  ASSUME FifoInv', NEW wen \in BOOLEAN, NEW rdack \in BOOLEAN,
         NEW v \in Values, NEW x \in Values, ClkReset(wen, v, rdack, x)
  PROVE  Queue!Clear
<1>1. queue' = <<>>
  BY QueueSeqNext DEF ClkReset, QueueFacts
<1>2. Queue!Outputs(queue)'
  BY OutputsMatchNext
<1>3. <<IF ack_T1 THEN ram_q ELSE NoItem, IF ack_T2 THEN dout ELSE NoItem>>'
        = <<NoItem, NoItem>>
  BY DEF ClkReset
<1> QED BY <1>1, <1>2, <1>3 DEF Queue!Clear, Queue!Outputs

(***************************************************************************)
(* For every depth, threshold and set of values, every behaviour of        *)
(* nlb_C1Tx_fifo is a behaviour of the bounded queue.                      *)
(***************************************************************************)
THEOREM FifoImplementsQueue == Spec => ImplementsQueue
<1>1. Init => Queue!Init
  <2> SUFFICES ASSUME Init PROVE Queue!Init
    OBVIOUS
  <2>1. FifoInv
    BY InitInv
  <2>2. queue = <<>>
    BY <2>1, QueueSeq DEF QueueFacts, Init
  <2>3. Queue!Outputs(queue)
    BY <2>1, OutputsMatch
  <2> QED BY <2>2, <2>3 DEF Init, Queue!Init
<1>2. FifoInv /\ FifoInv' /\ [Next]_vars => [Queue!Next]_(Queue!qvars)
  <2> SUFFICES ASSUME FifoInv, FifoInv', [Next]_vars
               PROVE  [Queue!Next]_(Queue!qvars)
    OBVIOUS
  <2>1. ASSUME NEW wen \in BOOLEAN, NEW rdack \in BOOLEAN,
               NEW v \in Values, NEW x \in Values, Clk(wen, v, rdack, x)
        PROVE  Queue!Next
    BY <2>1, ClkIsQueueClock DEF Queue!Next
  <2>2. ASSUME NEW wen \in BOOLEAN, NEW rdack \in BOOLEAN,
               NEW v \in Values, NEW x \in Values, ClkReset(wen, v, rdack, x)
        PROVE  Queue!Next
    BY <2>2, ResetIsQueueClear DEF Queue!Next
  <2>3. CASE UNCHANGED vars
    BY <2>3 DEF vars, ptrs, flags, data, acks, Queue!qvars, queue, Slot
  <2> QED BY <2>1, <2>2, <2>3 DEF Next
<1> QED BY FifoInvariant, <1>1, <1>2, PTL DEF Spec, ImplementsQueue, Queue!Spec
=============================================================================
