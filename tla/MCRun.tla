------------------------------- MODULE MCRun -------------------------------
(***************************************************************************)
(* Small instances of NlbRun: the configurations its software chooses from *)
(* and the value CSR_CFG resets to (mode 0, LPBK1).                        *)
(***************************************************************************)
EXTENDS NlbRun

Cfg(mode, cont) == [mode |-> mode, cont |-> cont]

Loopback      == Cfg("LPBK1", FALSE)
Finite        == {Cfg("READ", FALSE), Cfg("TRPUT", FALSE)}
Writing       == {Cfg("WRITE", FALSE), Cfg("WRITE", TRUE)}
ReadThenWrite == {Cfg("READ", FALSE), Cfg("WRITE", FALSE)}
=============================================================================
