------------------------------- MODULE NlbFlow ------------------------------
(***************************************************************************)
(* The software's side of a test, as nlb_lpbk documents it and the host    *)
(* programs carry it out: bring the NLB out of reset, configure it, start  *)
(* it, force completion (some to end the test, some once it is over), and  *)
(* start over once the run is over.                                        *)
(* Each step writes one CSR.                                               *)
(***************************************************************************)
EXTENDS NlbCsr

CONSTANTS
  LineCounts,   \* the values of CSR_NUM_LINES the software uses
  Forces        \* whether it may force completion before the run is over

VARIABLES
  sw,               \* the last step the software has taken
  swcfg, swlines    \* the configuration it has chosen for this run

swVars == <<sw, swcfg, swlines>>

FlowInit == sw = "off" /\ swcfg = DefaultCfg /\ swlines = 0

CsrWrite(reg, val) == [reg |-> reg, val |-> val]

CsrWrites == {NoWrite} \cup [reg : {"CTL"}, val : SUBSET CtlBits]
               \cup [reg : {"CFG"}, val : Configs]
               \cup [reg : {"LINES"}, val : LineCounts]

Flow(from, to, w, mmio) == sw = from /\ sw' = to /\ mmio = w

Keep == UNCHANGED <<swcfg, swlines>>

Idle(mmio) == mmio = NoWrite /\ UNCHANGED swVars

TestFlow(RunOver, mmio) ==
  \/ Flow("off", "reset", CsrWrite("CTL", {"reset_n"}), mmio) /\ Keep
  \/ \E n \in LineCounts : /\ Flow("reset", "lines", CsrWrite("LINES", n), mmio)
                           /\ swlines' = n /\ UNCHANGED swcfg
  \/ \E c \in Configs : /\ Flow("lines", "config", CsrWrite("CFG", c), mmio)
                        /\ swcfg' = c /\ UNCHANGED swlines
  \/ Flow("config", "run", CsrWrite("CTL", {"reset_n", "go"}), mmio) /\ Keep
  \/ /\ Forces \/ RunOver
     /\ Flow("run", "force", CsrWrite("CTL", {"reset_n", "go", "force"}), mmio)
     /\ Keep
  \/ /\ sw \in {"run", "force"} /\ RunOver
     /\ Flow(sw, "off", CsrWrite("CTL", {}), mmio) /\ Keep
=============================================================================
