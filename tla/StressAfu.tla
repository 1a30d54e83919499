------------------------------ MODULE StressAfu ------------------------------
(***************************************************************************)
(* mmio_stress_afu: an AFU that is a memory behind MMIO.  The first three  *)
(* words are the device feature header, which a reset writes.  One step is *)
(* one rising edge of clk.  A word is a pair of 32-bit halves, a byte      *)
(* enable the set of halves written.  The memory, an altera_syncram, takes *)
(* its inputs at an edge and shows what it read until the next one.        *)
(* Definitions named <op>_<fault> are mutants of the operator after them.  *)
(***************************************************************************)
EXTENDS Integers

CONSTANTS
  NumWords,   \* numwords_a: words of the memory
  Tids        \* transaction ids of MMIO reads

ASSUME WordsAssumption == NumWords \in Nat /\ NumWords >= 3

VARIABLES
  mem, ram_q,                       \* the memory and its output
  rst_state,
  ram_write_en, ram_byte_en, ram_data_in, ram_addr,
  ram_read_en, ram_tid_out, ram_read_type, ram_mask_loc,
  ram_data_valid, ram_data_masked_valid, ram_data_masked,
  c2                                \* the response on pck_af2cp_sTx

port == <<ram_write_en, ram_byte_en, ram_data_in, ram_addr>>
read == <<ram_read_en, ram_tid_out, ram_read_type, ram_mask_loc>>
afuVars == <<mem, ram_q, rst_state, port, read, ram_data_valid,
             ram_data_masked_valid, ram_data_masked, c2>>

Words == 0 .. NumWords - 1
Halves == {1, 2}

(* afu_dfh: values no program writes.  Junk is what the memory shows when  *)
(* it has been written instead of read (read_during_write DONT_CARE).      *)
afu_dfh == [w \in 0 .. 2 |-> <<-1 - 2 * w, -2 - 2 * w>>]
Junk == <<-9, -9>>
Zero == <<0, 0>>

ResetStates == {"ResetIdle", "ResetLine1", "ResetLine2", "ResetLine3", "ResetDone"}

(***************************************************************************)
(* Power-up: the memory holds zeros and nothing is under way.              *)
(***************************************************************************)
AfuInit ==
  /\ mem = [w \in Words |-> Zero] /\ ram_q = Zero
  /\ rst_state = "ResetIdle"
  /\ ram_write_en = FALSE /\ ram_byte_en = {} /\ ram_data_in = Zero /\ ram_addr = 0
  /\ ram_read_en = FALSE /\ ram_tid_out \in Tids /\ ram_read_type = 64
  /\ ram_mask_loc = 0
  /\ ram_data_valid = FALSE /\ ram_data_masked_valid = FALSE
  /\ ram_data_masked = Zero
  /\ c2 = [valid |-> FALSE, tid |-> ram_tid_out, data |-> Zero]

-----------------------------------------------------------------------------
WritePort(w, halves, data) ==
  /\ ram_write_en' = TRUE /\ ram_addr' = w
  /\ ram_byte_en' = halves /\ ram_data_in' = data

(***************************************************************************)
(* softreset high: the state machine goes round and round, writing the     *)
(* three words of the header; ram_read_en keeps its value.                 *)
(***************************************************************************)
ResetNext_stops(s) ==
  CASE s = "ResetIdle"  -> "ResetLine1"
    [] s = "ResetLine1" -> "ResetLine2"
    [] s = "ResetLine2" -> "ResetLine3"
    [] s = "ResetLine3" -> "ResetDone"
    [] s = "ResetDone"  -> "ResetDone"

ResetNext(s) ==
  CASE s = "ResetIdle"  -> "ResetLine1"
    [] s = "ResetLine1" -> "ResetLine2"
    [] s = "ResetLine2" -> "ResetLine3"
    [] s = "ResetLine3" -> "ResetDone"
    [] s = "ResetDone"  -> "ResetIdle"

ClkReset ==
  /\ rst_state' = ResetNext(rst_state)
  /\ \/ /\ rst_state = "ResetIdle"
        /\ ram_write_en' = FALSE /\ UNCHANGED <<ram_byte_en, ram_data_in, ram_addr>>
     \/ rst_state = "ResetLine1" /\ WritePort(0, Halves, afu_dfh[0])
     \/ rst_state = "ResetLine2" /\ WritePort(1, Halves, afu_dfh[1])
     \/ rst_state = "ResetLine3" /\ WritePort(2, Halves, afu_dfh[2])
     \/ /\ rst_state = "ResetDone"
        /\ ram_write_en' = FALSE /\ ram_byte_en' = {}
        /\ ram_data_in' = Zero /\ ram_addr' = 0
  /\ UNCHANGED read

(***************************************************************************)
(* softreset low: at most one request arrives at an edge.  Its address dw  *)
(* counts 32-bit halves, its length is 32 or 64, and a 32-bit write leaves *)
(* the other half of the word alone.                                       *)
(***************************************************************************)
NoReq == [op |-> "none"]

ByteEn_lowOnly(rx) == IF rx.len = 64 THEN Halves ELSE {1}
ByteEn(rx) == IF rx.len = 64 THEN Halves ELSE {1 + (rx.dw % 2)}

DataIn(rx) ==
  IF rx.len = 64 \/ (rx.dw % 2) = 0 THEN rx.data ELSE <<rx.data[2], rx.data[1]>>

ClkWrite(rx) ==
  /\ rx.op = "write"
  /\ WritePort(rx.dw \div 2, ByteEn(rx), DataIn(rx))
  /\ ram_read_en' = FALSE /\ UNCHANGED <<ram_tid_out, ram_read_type, ram_mask_loc>>

ClkRead_only64(rx) ==
  /\ rx.op = "read"
  /\ ram_write_en' = FALSE /\ ram_byte_en' = Halves /\ ram_addr' = rx.dw \div 2
  /\ ram_tid_out' = rx.tid /\ ram_read_type' = rx.len /\ ram_mask_loc' = (rx.dw % 2)
  /\ ram_read_en' = (rx.len = 64) /\ UNCHANGED ram_data_in

ClkRead(rx) ==
  /\ rx.op = "read"
  /\ ram_write_en' = FALSE /\ ram_byte_en' = Halves /\ ram_addr' = rx.dw \div 2
  /\ ram_tid_out' = rx.tid /\ ram_read_type' = rx.len /\ ram_mask_loc' = (rx.dw % 2)
  /\ ram_read_en' = TRUE /\ UNCHANGED ram_data_in

ClkNone_readEnStays(rx) ==
  /\ rx.op = "none" /\ ram_write_en' = FALSE
  /\ UNCHANGED <<ram_byte_en, ram_data_in, ram_addr, read>>

ClkNone(rx) ==
  /\ rx.op = "none" /\ ram_write_en' = FALSE /\ ram_read_en' = FALSE
  /\ UNCHANGED <<ram_byte_en, ram_data_in, ram_addr,
                 ram_tid_out, ram_read_type, ram_mask_loc>>

ClkRequest(rx) ==
  /\ ClkWrite(rx) \/ ClkRead(rx) \/ ClkNone(rx)
  /\ UNCHANGED rst_state

(***************************************************************************)
(* The memory, and the way of what it read to the response: the length,    *)
(* the half and the transaction id are those of the last read that         *)
(* arrived, whichever read the data belongs to.                            *)
(***************************************************************************)
ClkRam ==
  IF ram_write_en
    THEN /\ mem' = [mem EXCEPT ![ram_addr] =
                      [h \in Halves |-> IF h \in ram_byte_en THEN ram_data_in[h] ELSE @[h]]]
         /\ ram_q' = Junk
    ELSE ram_q' = mem[ram_addr] /\ UNCHANGED mem

Masked_lowOnly == IF ram_read_type = 32 THEN <<ram_q[1], 0>> ELSE ram_q
Masked == IF ram_read_type = 32 THEN <<ram_q[1 + ram_mask_loc], 0>> ELSE ram_q

ClkResponse(softreset) ==
  /\ ram_data_valid' = ram_read_en
  /\ ram_data_masked_valid' = ram_data_valid
  /\ ram_data_masked' = IF ram_data_valid THEN Masked ELSE ram_data_masked
  /\ c2' = IF softreset THEN [c2 EXCEPT !.valid = FALSE]
           ELSE [valid |-> ram_data_masked_valid, tid |-> ram_tid_out,
                 data |-> ram_data_masked]

Clk(softreset, rx) ==
  /\ IF softreset THEN ClkReset ELSE ClkRequest(rx)
  /\ ClkRam
  /\ ClkResponse(softreset)

Quiet == ~ram_read_en /\ ~ram_data_valid /\ ~ram_data_masked_valid /\ ~c2.valid
=============================================================================
