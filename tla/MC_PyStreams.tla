---------------------------- MODULE MC_PyStreams ----------------------------
(* Two subscriptions, to a plain channel and to one with a message key, over *)
(* two connections: the second connection follows a drop or an exit.        *)
EXTENDS PyStreams, FiniteSets

CONSTANTS s1, s2, c1, c2

MCSubs == {s1, s2}
MCConns == {c1, c2}
MCKinds == {[chan |-> "book", req |-> "book", keyed |-> FALSE],
            [chan |-> "tick:x", req |-> "tick", keyed |-> TRUE]}
MCOneKind == {[chan |-> "book", req |-> "book", keyed |-> FALSE]}
MCSymmetry == Permutations(MCSubs) \cup Permutations(MCConns)

\* Liveness excludes symmetry: the subscriptions and the connections are taken
\* in one order instead, which only chooses their names.
MCNamedInOrder ==
  /\ pc[s1] = "idle" => pc[s2] = "idle"
  /\ life[c1] = "unused" => life[c2] = "unused"

\* A second notification goes without an exit, and it or an exit with one
\* unsubscribe().
MCFewTogether ==
  /\ notes = 2 => exits = 0
  /\ (notes = 2 \/ exits > 0) => \E s \in Subs : un[s] = "no"

=============================================================================
