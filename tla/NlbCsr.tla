------------------------------- MODULE NlbCsr ------------------------------
(***************************************************************************)
(* nlb_csr: the registers the software configures and starts a test with.  *)
(* A write arriving on the MMIO port is registered (stage T1) and lands in *)
(* the register a clock later.  CSR_CFG stands for the registers protected *)
(* by the requestor's write lock (CSR_SRC_ADDR, CSR_DST_ADDR, CSR_CFG and  *)
(* CSR_INACT_THRESH), CSR_NUM_LINES for those that are not (with           *)
(* CSR_STRIDE and the DSM base).  Definitions named <op>_<fault> are       *)
(* mutants of the operator that follows them.                              *)
(***************************************************************************)
EXTENDS Naturals, FiniteSets

CONSTANTS
  Configs,      \* values of CSR_CFG the software uses
  DefaultCfg,   \* its reset value
  NoWrite       \* no write is in stage T1

(* CSR_CTL is the set of its bits that are set. *)
CtlBits == {"reset_n", "go", "force"}

VARIABLES
  wr_T1,            \* the write in stage T1
  csr,              \* the registers CTL, CFG and LINES
  csr_write,        \* CSR_SWTEST_MSG was written: a message to the SW1 test
  re2cr_wrlock_n    \* registered in the requestor: configuration is open

csrVars == <<wr_T1, csr, csr_write, re2cr_wrlock_n>>

Defaults == [CTL |-> {}, CFG |-> DefaultCfg, LINES |-> 0]
Locked == {"CFG"}

CsrInit ==
  /\ wr_T1 = NoWrite
  /\ csr = Defaults /\ csr_write = FALSE
  /\ re2cr_wrlock_n = FALSE

(* The requestor opens the configuration between reset and start.          *)
configOpen_inReset == "reset_n" \notin csr.CTL
configOpen == "reset_n" \in csr.CTL /\ "go" \notin csr.CTL

(* set_attr: a write of a locked register is dropped while it is locked.   *)
Lands_unlocked == wr_T1 # NoWrite
Lands == wr_T1 # NoWrite /\ (wr_T1.reg \in Locked => re2cr_wrlock_n)

IsMessage == wr_T1 # NoWrite /\ wr_T1.reg = "SWTEST_MSG"

(***************************************************************************)
(* A rising clock edge with write w (or NoWrite) on the MMIO port.  Only   *)
(* the interface reset restores the defaults; stage T1 is not reset.       *)
(***************************************************************************)
CsrClk(SoftReset, w) ==
  /\ wr_T1' = w
  /\ csr' = IF SoftReset THEN Defaults
            ELSE IF Lands /\ ~IsMessage THEN [csr EXCEPT ![wr_T1.reg] = wr_T1.val]
            ELSE csr
  /\ csr_write' = (IsMessage /\ ~SoftReset)
  /\ re2cr_wrlock_n' = configOpen
=============================================================================
