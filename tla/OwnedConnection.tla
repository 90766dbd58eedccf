-------------------------- MODULE OwnedConnection --------------------------
(***************************************************************************)
(* What a Truewire WebSocket core promises about the connections it opens, *)
(* whatever the language: a client has one slot; a connection is dialed    *)
(* only into an empty slot; the connection in the slot belongs to the      *)
(* present owner, and leaving `async with` (close() in the other cores)    *)
(* empties the slot.  A connection that has left the slot never comes back *)
(* to it: it is retired, and then gone.  A dial that an owner left behind  *)
(* is retired without ever having been in use.                             *)
(*                                                                         *)
(* The detailed specifications (PySocket, ...) implement this one.         *)
(***************************************************************************)
EXTENDS Naturals

CONSTANTS Conns,  \* the connections the client may dial, one dial each
          None    \* the empty slot

VARIABLES slot,   \* the connection being dialed or in use, or None
          life,   \* what has become of each connection
          gen,    \* how many owners have left
          born    \* the value of gen when the connection was dialed

vars == <<slot, life, gen, born>>

Init == /\ slot = None
        /\ life = [c \in Conns |-> "unused"]
        /\ gen = 0
        /\ born = [c \in Conns |-> 0]

Dial(c) ==
  /\ slot = None
  /\ life[c] = "unused"
  /\ slot' = c
  /\ life' = [life EXCEPT ![c] = "dialing"]
  /\ born' = [born EXCEPT ![c] = gen]
  /\ UNCHANGED gen

\* The dial succeeds for the owner that asked for it.
Connect(c) ==
  /\ life[c] = "dialing"
  /\ born[c] = gen
  /\ life' = [life EXCEPT ![c] = "live"]
  /\ UNCHANGED <<slot, gen, born>>

\* What a connection taken out of use becomes: its peer may have left first.
Ended == {"retired", "gone"}

\* The dial fails or is given up, before or after it made a connection.
Fail(c) ==
  /\ life[c] = "dialing"
  /\ slot' = None
  /\ \E l \in Ended : life' = [life EXCEPT ![c] = l]
  /\ UNCHANGED <<gen, born>>

\* The dial succeeds, but the owner that asked for it has left.
Discard(c) ==
  /\ life[c] = "dialing"
  /\ born[c] # gen
  /\ slot' = None
  /\ \E l \in Ended : life' = [life EXCEPT ![c] = l]
  /\ UNCHANGED <<gen, born>>

\* The connection in use is found dead and taken out of the slot.
Retire(c) ==
  /\ life[c] = "live"
  /\ slot' = None
  /\ \E l \in Ended : life' = [life EXCEPT ![c] = l]
  /\ UNCHANGED <<gen, born>>

\* The owner leaves: what is in use is retired, a dial in flight carries on.
Leave ==
  /\ gen' = gen + 1
  /\ IF slot # None /\ life[slot] = "live"
       THEN /\ slot' = None
            /\ \E l \in Ended : life' = [life EXCEPT ![slot] = l]
       ELSE UNCHANGED <<slot, life>>
  /\ UNCHANGED born

Vanish(c) ==
  /\ life[c] = "retired"
  /\ life' = [life EXCEPT ![c] = "gone"]
  /\ UNCHANGED <<slot, gen, born>>

Next == \/ \E c \in Conns : \/ Dial(c) \/ Connect(c) \/ Fail(c)
                            \/ Discard(c) \/ Retire(c) \/ Vanish(c)
        \/ Leave

Spec == Init /\ [][Next]_vars

=============================================================================
