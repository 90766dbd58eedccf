----------------------------- MODULE MC_PyHttp -----------------------------
(* A request of a safe method that can be retried, one of another method    *)
(* that follows redirects, and one whose body cannot be sent twice, paced;  *)
(* in Python with an owner who leaves.                                      *)
EXTENDS Http

CONSTANTS plain, hops, once

MCRequests == {plain, hops, once}
MCReplayable == {plain, hops}
MCRedirecting == {hops}
MCSafe == {plain}
MCPair == {plain, once}

=============================================================================
