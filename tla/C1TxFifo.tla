------------------------------ MODULE C1TxFifo -----------------------------
(***************************************************************************)
(* nlb_C1Tx_fifo: the write-request FIFO between the test engines and      *)
(* channel C1 of the CCI-P link.  One step is one rising edge of Clk and   *)
(* every register is updated from the values before the edge.  The data    *)
(* store is a RAM with two read stages, so the control word leaves two     *)
(* clocks ahead of the data; the consumer's valid bits (WrHdr_valid_T1,    *)
(* WrHdr_valid_T2 of the requestor) travel with the data and are part of   *)
(* this model.  A request is abstracted to one value v written both to the *)
(* data input and to the control input.  Definitions named <op>_<fault>    *)
(* are mutants of the operator that follows them.                          *)
(***************************************************************************)
EXTENDS Integers

CONSTANTS
  Values,       \* what a request carries
  NoItem,       \* no request
  Depth,        \* 2**DEPTH_BASE2 entries
  FullThresh    \* FULL_THRESH

ASSUME DepthAssumption == Depth \in Nat /\ Depth >= 2
ASSUME ThreshAssumption == FullThresh \in 1 .. Depth
ASSUME NoItemAssumption == NoItem \notin Values

VARIABLES
  ctl_reg,     \* control words, in registers
  ram,         \* data words, in the RAM
  waddr, raddr, raddr_next,
  count,       \* DEPTH_BASE2+1 bits: counts up to Depth
  empty,       \* bram_empty
  dout_v,      \* dram_v: the control word at the read port is valid
  ctlout,      \* T0_fifo_ctlout
  almFull,     \* T0_fifo_almFull
  underflow, overflow,
  ram_q, dout, \* the two read stages of the RAM
  ack_T1, ack_T2

ptrs  == <<waddr, raddr, raddr_next, count, empty>>
flags == <<dout_v, almFull, underflow, overflow>>
data  == <<ctl_reg, ram, ctlout, ram_q, dout>>
acks  == <<ack_T1, ack_T2>>
vars  == <<ptrs, flags, data, acks>>

Addr == 0 .. Depth - 1

(* An address register of DEPTH_BASE2 bits wraps by itself. *)
Wrap(a) == IF a = Depth - 1 THEN 0 ELSE a + 1

full_late == count > Depth
full == count = Depth

(***************************************************************************)
(* The registers after reset; the two memories and the data stages are not *)
(* reset and hold anything.                                                *)
(***************************************************************************)
Init ==
  /\ waddr = 0 /\ raddr = 0 /\ raddr_next = 1 /\ count = 0 /\ empty = TRUE
  /\ dout_v = FALSE /\ almFull = FALSE /\ underflow = FALSE /\ overflow = FALSE
  /\ ack_T1 = FALSE /\ ack_T2 = FALSE
  /\ ctl_reg \in [Addr -> Values] /\ ram \in [Addr -> Values]
  /\ ctlout \in Values /\ ram_q \in Values /\ dout \in Values

(***************************************************************************)
(* The memories.  ctl_reg is written whenever a write is offered, even to  *)
(* a full FIFO.  The RAM is written on every clock unless the FIFO is full *)
(* (what is on the data input when no write is offered is arbitrary), and  *)
(* reading the address being written returns an arbitrary word x.          *)
(***************************************************************************)
ClkMemories(wen, v, x) ==
  /\ ctl_reg' = IF wen THEN [ctl_reg EXCEPT ![waddr] = v] ELSE ctl_reg
  /\ ram' = IF full THEN ram ELSE [ram EXCEPT ![waddr] = v]
  /\ ram_q' = IF raddr = waddr /\ ~full THEN x ELSE ram[raddr]
  /\ dout' = ram_q

(***************************************************************************)
(* The control word at the read port: taken from the input when it is the  *)
(* only entry, from the next slot otherwise (stale when there is none).    *)
(***************************************************************************)
ClkCtlOut_noBypass(wen, v, rdack) ==
  ctlout' = IF ~dout_v
              THEN IF wen THEN v ELSE ctlout
              ELSE IF rdack THEN ctl_reg[raddr_next] ELSE ctlout

ClkCtlOut(wen, v, rdack) ==
  ctlout' = IF ~dout_v
              THEN IF wen THEN v ELSE ctlout
              ELSE IF rdack /\ wen /\ count = 1 THEN v
                   ELSE IF rdack THEN ctl_reg[raddr_next] ELSE ctlout

ClkPointers(wen, rdack) ==
  /\ waddr' = IF wen /\ ~full THEN Wrap(waddr) ELSE waddr
  /\ raddr' = IF rdack /\ ~empty THEN Wrap(raddr) ELSE raddr
  /\ raddr_next' = IF rdack /\ ~empty THEN Wrap(Wrap(raddr)) ELSE raddr_next
  /\ count' = (count + (IF wen /\ ~full THEN 1 ELSE 0))
                     - (IF rdack /\ ~empty THEN 1 ELSE 0)
  /\ empty' = IF empty THEN ~wen ELSE count = 1 /\ ~wen /\ rdack

ClkFlags(wen, rdack) ==
  /\ dout_v' = IF dout_v THEN ~(rdack /\ ~wen /\ count = 1) ELSE wen
  /\ underflow' = (underflow \/ (empty /\ rdack))
  /\ overflow' = (overflow \/ (full /\ wen))
  /\ almFull' = LET pop == rdack /\ ~empty
                    push == wen /\ ~full
                IN  IF pop /\ ~push THEN count - 1 >= FullThresh
                    ELSE IF push /\ ~pop THEN count + 1 >= FullThresh
                    ELSE almFull

(* The consumer's valid pipeline: an acknowledge of a valid entry. *)
ClkAcks(rdack) ==
  /\ ack_T1' = (rdack /\ dout_v)
  /\ ack_T2' = ack_T1

Clk(wen, v, rdack, x) ==
  /\ ClkMemories(wen, v, x)
  /\ ClkCtlOut(wen, v, rdack)
  /\ ClkPointers(wen, rdack)
  /\ ClkFlags(wen, rdack)
  /\ ClkAcks(rdack)

(***************************************************************************)
(* An edge with Resetb low: the reset assignments come last and win; the   *)
(* memories and ctlout are clocked as usual.                               *)
(***************************************************************************)
ClkReset(wen, v, rdack, x) ==
  /\ waddr' = 0 /\ raddr' = 0 /\ raddr_next' = 1 /\ count' = 0 /\ empty' = TRUE
  /\ dout_v' = FALSE /\ almFull' = FALSE /\ underflow' = FALSE /\ overflow' = FALSE
  /\ ack_T1' = FALSE /\ ack_T2' = FALSE
  /\ ClkMemories(wen, v, x)
  /\ ClkCtlOut(wen, v, rdack)

Next ==
  \E wen, rdack \in BOOLEAN, v, x \in Values :
    \/ Clk(wen, v, rdack, x)
    \/ ClkReset(wen, v, rdack, x)

Spec == Init /\ [][Next]_vars

-----------------------------------------------------------------------------
TypeOK ==
  /\ ctl_reg \in [Addr -> Values] /\ ram \in [Addr -> Values]
  /\ waddr \in Addr /\ raddr \in Addr /\ raddr_next \in Addr
  /\ count \in 0 .. Depth
  /\ ctlout \in Values /\ ram_q \in Values /\ dout \in Values
  /\ empty \in BOOLEAN /\ dout_v \in BOOLEAN /\ almFull \in BOOLEAN
  /\ underflow \in BOOLEAN /\ overflow \in BOOLEAN
  /\ ack_T1 \in BOOLEAN /\ ack_T2 \in BOOLEAN

(***************************************************************************)
(* The slot of the i-th queued entry, counted from the read address.       *)
(***************************************************************************)
Slot(i) == IF raddr + i >= Depth THEN raddr + i - Depth ELSE raddr + i

(***************************************************************************)
(* The four registered descriptions of the fill level (bram_count,         *)
(* bram_empty, dram_v and T0_fifo_almFull) are updated by four separate    *)
(* pieces of code and never disagree, not even after a write to a full     *)
(* FIFO or an acknowledge of an empty one.  The requestor pops on dram_v,  *)
(* the RAM is protected by bram_count and test_lpbk1 throttles on almFull. *)
(***************************************************************************)
FlagsAgree ==
  /\ empty <=> count = 0
  /\ dout_v <=> count > 0
  /\ almFull <=> count >= FullThresh

(***************************************************************************)
(* The write address is always count slots ahead of the read address, and  *)
(* the pre-computed next read address is one ahead of it.                  *)
(***************************************************************************)
PointersAgree ==
  /\ Slot(count) = waddr
  /\ raddr_next = Wrap(raddr)

(***************************************************************************)
(* The control word of every queued entry but the head is in ctl_reg and   *)
(* belongs to the data word in the same slot of the RAM; the head's is in  *)
(* ctlout.  (A write offered to a full FIFO overwrites the head's ctl_reg, *)
(* which is never read again.)                                             *)
(***************************************************************************)
WordsAgree ==
  /\ count > 0 => ctlout = ram[raddr]
  /\ \A i \in 1 .. Depth - 1 : i < count => ctl_reg[Slot(i)] = ram[Slot(i)]

(* The conjunction is inductive. *)
FifoInv == TypeOK /\ FlagsAgree /\ PointersAgree /\ WordsAgree

(***************************************************************************)
(* C1TxFifo implements TxQueue: the queue is the RAM read from raddr on,   *)
(* its head is the control word at the read port, and what was accepted    *)
(* one and two clocks ago is in the read stages of the RAM.                *)
(***************************************************************************)
queue == [i \in 1 .. count |-> ram[Slot(i - 1)]]

Queue == INSTANCE TxQueue WITH
           Cap  <- Depth,
           q    <- queue,
           head <- IF dout_v THEN ctlout ELSE NoItem,
           out  <- <<IF ack_T1 THEN ram_q ELSE NoItem,
                     IF ack_T2 THEN dout ELSE NoItem>>

(***************************************************************************)
(* Nothing accepted by the FIFO is lost, duplicated, reordered or          *)
(* delivered with another entry's control word, and the consumer finds the *)
(* data exactly two clocks after its acknowledge.                          *)
(***************************************************************************)
ImplementsQueue == Queue!Spec
=============================================================================
