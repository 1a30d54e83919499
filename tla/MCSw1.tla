------------------------------- MODULE MCSw1 -------------------------------
(***************************************************************************)
(* Small instances of NlbSw1: the four methods of giving notice.           *)
(***************************************************************************)
EXTENDS NlbSw1

Sw1(method) == [mode |-> "SW1", cont |-> FALSE, method |-> method]

NoTest     == [mode |-> "LPBK1", cont |-> FALSE, method |-> "poll"]
RoundTrips == {Sw1(m) : m \in {"poll", "csr", "message", "hint"}}
Polling    == {Sw1("poll")}
=============================================================================
