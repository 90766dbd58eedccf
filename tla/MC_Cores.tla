------------------------------ MODULE MC_Cores ------------------------------
(* Three calls of open() and one call of close(): enough for a connection   *)
(* to be closed while a second is dialed and a third call still waits for   *)
(* the first.  Calls of close() do not interact but through what they       *)
(* leave, so a second one adds length and no new case.                      *)
EXTENDS Cores

CONSTANTS a, b, c, k

MCCalls == {a, b, c}
MCClosers == {k}

=============================================================================
