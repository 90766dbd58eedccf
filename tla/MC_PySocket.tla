---------------------------- MODULE MC_PySocket ----------------------------
(* Three calls of open() and an owner that leaves twice: enough for one     *)
(* call to join a doomed connect of another, try again, join a connection   *)
(* that dies, close it and dial for itself.  The safety properties are      *)
(* proved for any number of calls and exits (PySocket_proofs).              *)
EXTENDS PySocket

CONSTANTS a, b, c

MCCalls == {a, b, c}

=============================================================================
