-------------------------------- MODULE MemAfu -------------------------------
(***************************************************************************)
(* hello_mem_afu: mem_csr, the registers through which a program has the   *)
(* local memory written and read, and mem_fsm, the Avalon master that does *)
(* it.  One step is one rising edge of Clk_400.  Left out, since nothing   *)
(* the program does depends on them: the header and scratch registers, the *)
(* bank (one is chosen and used), the error bits of the status registers   *)
(* (constant, but for one of the sweep that the program does not look at)  *)
(* and max_reads.  Of the registers in hello_mem_afu around mem_fsm the    *)
(* one of waitrequest is modelled, the others only delay.                  *)
(* Definitions named <op>_<fault> are mutants of the operator after them.  *)
(***************************************************************************)
EXTENDS Integers

CONSTANTS
  SweepWords,  \* 2**ADDRESS_MAX_BIT: addresses of the test sweep
  BurstMod,    \* 2**11: burstcount is 11 bits wide
  Data,        \* what a word holds
  Nothing      \* what a word holds that was never written

ASSUME SweepAssumption == SweepWords \in Nat /\ SweepWords >= 2
ASSUME BurstAssumption == BurstMod \in Nat /\ BurstMod >= 2
ASSUME NothingAssumption == Nothing \notin Data

VARIABLES
  \* mem_csr
  avm_address, avm_burstcount, avm_writedata, mem_RDWR, mem_testmode,
  avm_read, avm_write, rdwr_reset,
  \* mem_fsm
  state, address, burstcount, avs_write, avs_read, addr_test_done,
  avm_readdata, rdwr_done, avs_waitrequest_r

csrVars == <<avm_address, avm_burstcount, avm_writedata, mem_RDWR, mem_testmode,
             avm_read, avm_write, rdwr_reset>>
fsmVars == <<state, address, burstcount, avs_write, avs_read, addr_test_done,
             avm_readdata, rdwr_done, avs_waitrequest_r>>
afuVars == <<csrVars, fsmVars>>

Idle == [en |-> FALSE, rd |-> FALSE]

CsrReset ==
  /\ avm_address' = 0 /\ avm_burstcount' = 1 /\ avm_writedata' = Nothing
  /\ mem_RDWR' = Idle /\ mem_testmode' = FALSE
  /\ avm_read' = FALSE /\ avm_write' = FALSE /\ rdwr_reset' = TRUE

FsmReset ==
  /\ state' = "IDLE" /\ address' = 0 /\ burstcount' = 1
  /\ avs_write' = FALSE /\ avs_read' = FALSE /\ addr_test_done' = FALSE

(* After power-up and a reset.                                             *)
AfuInit ==
  /\ avm_address = 0 /\ avm_burstcount = 1 /\ avm_writedata = Nothing
  /\ mem_RDWR = Idle /\ mem_testmode = FALSE
  /\ avm_read = FALSE /\ avm_write = FALSE /\ rdwr_reset = TRUE
  /\ state = "IDLE" /\ address = 0 /\ burstcount = 1
  /\ avs_write = FALSE /\ avs_read = FALSE /\ addr_test_done = FALSE
  /\ avm_readdata = Nothing /\ rdwr_done = {} /\ avs_waitrequest_r = FALSE

-----------------------------------------------------------------------------
(***************************************************************************)
(* mem_csr.  rx is the MMIO request that arrives, if any.  The enable bit  *)
(* of MEM_RDWR is taken back in a clock without an MMIO read, once         *)
(* avm_read or avm_write has been seen; that wins over a write of the      *)
(* register in the same clock.                                             *)
(***************************************************************************)
NoReq == [op |-> "none"]
writes(rx, reg) == rx.op = "write" /\ rx.reg = reg
reads(rx, reg) == rx.op = "read" /\ rx.reg = reg
written(rx, reg, old) == IF writes(rx, reg) THEN rx.val ELSE old

NextRDWR_sticky(rx) == written(rx, "MEM_RDWR", mem_RDWR)
NextRDWR(rx) ==
  LET new == written(rx, "MEM_RDWR", mem_RDWR)
  IN  IF rx.op # "read" /\ (avm_read \/ avm_write) THEN [new EXCEPT !.en = FALSE] ELSE new

ClkCsr(rx) ==
  /\ avm_address' = written(rx, "MEM_ADDRESS", avm_address)
  /\ avm_burstcount' = written(rx, "MEM_BURSTCOUNT", avm_burstcount)
  /\ avm_writedata' = written(rx, "MEM_WRDATA", avm_writedata)
  /\ mem_RDWR' = NextRDWR(rx)
  /\ mem_testmode' = (~addr_test_done /\ written(rx, "MEM_ADDR_TESTMODE", mem_testmode))
  /\ avm_read' = (mem_RDWR.en /\ mem_RDWR.rd)
  /\ avm_write' = (mem_RDWR.en /\ ~mem_RDWR.rd)
  /\ rdwr_reset' = reads(rx, "MEM_RDWR_STATUS")

(* The value an MMIO read returns is that of before the edge.              *)
ReadValue(reg) ==
  CASE reg = "MEM_RDDATA" -> avm_readdata
    [] reg = "MEM_ADDR_TEST_STATUS" -> addr_test_done
    [] reg = "MEM_RDWR_STATUS" -> rdwr_done

-----------------------------------------------------------------------------
(***************************************************************************)
(* mem_fsm.  valid is avs_readdatavalid.                                   *)
(***************************************************************************)
LastWord == SweepWords - 1
avs_address == IF mem_testmode THEN address % SweepWords ELSE avm_address
more == burstcount' = (burstcount + 1) % BurstMod

FsmIdle ==
  /\ state = "IDLE"
  /\ LET test == mem_testmode /\ ~addr_test_done
     IN  /\ state' = IF test THEN "TEST_WRITE" ELSE IF avm_write THEN "WR_REQ"
                     ELSE IF avm_read THEN "RD_REQ" ELSE "IDLE"
         /\ avs_write' = (test \/ avm_write \/ avs_write)
         /\ avs_read' = ((~test /\ ~avm_write /\ avm_read) \/ avs_read)
  /\ UNCHANGED <<address, burstcount, addr_test_done>>

FsmTestWrite_lastMissed ==
  /\ state = "TEST_WRITE"
  /\ IF address = LastWord - 1
       THEN state' = "TEST_READ" /\ avs_write' = FALSE /\ avs_read' = TRUE /\ address' = 0
       ELSE /\ avs_write' = ~avs_waitrequest_r
            /\ address' = IF avs_waitrequest_r THEN address ELSE address + 1
            /\ UNCHANGED <<state, avs_read>>
  /\ UNCHANGED <<burstcount, addr_test_done>>

FsmTestWrite ==
  /\ state = "TEST_WRITE"
  /\ IF address = LastWord
       THEN state' = "TEST_READ" /\ avs_write' = FALSE /\ avs_read' = TRUE /\ address' = 0
       ELSE /\ avs_write' = ~avs_waitrequest_r
            /\ address' = IF avs_waitrequest_r THEN address ELSE address + 1
            /\ UNCHANGED <<state, avs_read>>
  /\ UNCHANGED <<burstcount, addr_test_done>>

FsmTestRead_notKept(valid) ==
  /\ state = "TEST_READ"
  /\ IF address = LastWord /\ ~avs_waitrequest_r
       THEN state' = "IDLE" /\ avs_read' = FALSE /\ addr_test_done' = TRUE /\ UNCHANGED address
       ELSE /\ avs_read' = FALSE
            /\ address' = IF valid THEN address + 1 ELSE address
            /\ UNCHANGED <<state, addr_test_done>>
  /\ UNCHANGED <<burstcount, avs_write>>

FsmTestRead(valid) ==
  /\ state = "TEST_READ"
  /\ IF address = LastWord /\ ~avs_waitrequest_r
       THEN state' = "IDLE" /\ avs_read' = FALSE /\ addr_test_done' = TRUE /\ UNCHANGED address
       ELSE /\ avs_read' = valid
            /\ address' = IF valid THEN address + 1 ELSE address
            /\ UNCHANGED <<state, addr_test_done>>
  /\ UNCHANGED <<burstcount, avs_write>>

(* A burst is written in consecutive clocks, whether or not it is accepted. *)
FsmWrReq_countStays ==
  /\ state = "WR_REQ"
  /\ IF avm_burstcount = burstcount
       THEN state' = "WR_RSP" /\ avs_write' = FALSE /\ UNCHANGED burstcount
       ELSE more /\ UNCHANGED <<state, avs_write>>
  /\ UNCHANGED <<address, avs_read, addr_test_done>>

FsmWrReq ==
  /\ state = "WR_REQ"
  /\ IF avm_burstcount = burstcount
       THEN state' = "WR_RSP" /\ avs_write' = FALSE /\ burstcount' = 1
       ELSE more /\ UNCHANGED <<state, avs_write>>
  /\ UNCHANGED <<address, avs_read, addr_test_done>>

FsmWrRsp ==
  /\ state = "WR_RSP" /\ state' = "IDLE"
  /\ UNCHANGED <<address, burstcount, avs_write, avs_read, addr_test_done>>

FsmRdReq_held ==
  /\ state = "RD_REQ" /\ state' = "RD_RSP"
  /\ UNCHANGED <<address, burstcount, avs_write, avs_read, addr_test_done>>

FsmRdReq ==
  /\ state = "RD_REQ" /\ state' = "RD_RSP" /\ avs_read' = FALSE
  /\ UNCHANGED <<address, burstcount, avs_write, addr_test_done>>

(* burstcount is not taken back to 1 at the end of a read.                 *)
FsmRdRsp(valid) ==
  /\ state = "RD_RSP"
  /\ state' = IF valid /\ burstcount = avm_burstcount THEN "IDLE" ELSE "RD_RSP"
  /\ IF valid /\ burstcount # avm_burstcount THEN more ELSE UNCHANGED burstcount
  /\ UNCHANGED <<address, avs_write, avs_read, addr_test_done>>

(***************************************************************************)
(* rdwr_done: set when a request is done, cleared in the clock after the   *)
(* program has read the status, unless a read is being answered.  The FSM  *)
(* counts with a blocking burstcount++, so that this block reads either    *)
(* the old count or the new one, as they are scheduled: counted.           *)
(***************************************************************************)
NextDone(valid, counted) ==
  IF rdwr_reset /\ state # "RD_RSP" THEN {}
  ELSE IF state = "WR_RSP" THEN rdwr_done \cup {"wr"}
  ELSE IF state = "RD_RSP" /\ valid /\ avm_burstcount = counted THEN rdwr_done \cup {"rd"}
  ELSE rdwr_done

(* A clock, with softReset or the MMIO request rx; the memory answers rsp. *)
Clk(softReset, rx, valid, avs_readdata, avs_waitrequest) ==
  /\ IF softReset
       THEN CsrReset /\ FsmReset
       ELSE /\ ClkCsr(rx)
            /\ \/ FsmIdle \/ FsmTestWrite \/ FsmTestRead(valid)
               \/ FsmWrReq \/ FsmWrRsp \/ FsmRdReq \/ FsmRdRsp(valid)
  /\ avm_readdata' = IF valid THEN avs_readdata ELSE avm_readdata
  /\ \E counted \in IF softReset THEN {burstcount} ELSE {burstcount, burstcount'} :
       rdwr_done' = NextDone(valid, counted)
  /\ avs_waitrequest_r' = avs_waitrequest
=============================================================================
