----------------------------- MODULE MC_Generate -----------------------------
(* Three paths, each rendered one way or another or not at all.               *)
EXTENDS Generate

CONSTANTS v1, v2

MCPaths == 1..3
MCVersions == {v1, v2}

=============================================================================
