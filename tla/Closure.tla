------------------------------- MODULE Closure -------------------------------
(***************************************************************************)
(* What every worklist of the toolchain promises, without its worklist:    *)
(* starting from some roots, collect nodes reached along edges, in any     *)
(* order and any number at a time, and stop only when nothing is missing.  *)
(***************************************************************************)
CONSTANT Node

VARIABLES
  roots,   \* where the search starts (never changes)
  edges,   \* the nodes each node leads to (never changes)
  found,   \* the nodes collected
  done     \* the search has stopped

vars == <<roots, edges, found, done>>

Image(S) == UNION {edges[n] : n \in S}

Init ==
  /\ roots \subseteq Node
  /\ edges \in [Node -> SUBSET Node]
  /\ found = roots
  /\ done = FALSE

Grow ==
  /\ ~done
  /\ \E new \in SUBSET (Image(found) \ found) : new # {} /\ found' = found \cup new
  /\ UNCHANGED <<roots, edges, done>>

Stop ==
  /\ ~done /\ Image(found) \subseteq found
  /\ done' = TRUE
  /\ UNCHANGED <<roots, edges, found>>

Next == Grow \/ Stop

Spec == Init /\ [][Next]_vars

FairSpec == Spec /\ WF_vars(Next)

------------------------------------------------------------------------------

\* Types of the search.
TypeOK ==
  /\ roots \subseteq Node /\ found \subseteq Node
  /\ edges \in [Node -> SUBSET Node]
  /\ done \in BOOLEAN

\* The result is the least set that holds the roots and is closed: it never
\* leaves another such set, and it is one itself when the search has stopped.
LeastClosed ==
  /\ \A C \in SUBSET Node : roots \subseteq C /\ Image(C) \subseteq C => found \subseteq C
  /\ done => roots \subseteq found /\ Image(found) \subseteq found
==============================================================================
