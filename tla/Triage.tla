-------------------------------- MODULE Triage --------------------------------
(***************************************************************************)
(* tools/re/unreachable_triage.py: the sorting of the code starts that the *)
(* call graph leaves unreachable, read off the finished graph.             *)
(***************************************************************************)
EXTENDS CallGraph

CONSTANTS
  IoBand,     \* IO_BAND
  SmcHosts    \* the host addresses of smc_dispatch.json

unreachable == starts \ reachable

\* all_starts_reachable: the addresses some edge leads to, less the
\* unreachable ones.
KnownReachable == ({e[2] : e \in codeIn} \cup DOMAIN fallIn) \ unreachable

Sources(p) == {e[1] : e \in {x \in codeIn : x[2] = p}}

Bucket(p) ==
  CASE p \in IoBand \cup SmcHosts -> "smc_io_band"
    [] p \notin IoBand \cup SmcHosts /\ Sources(p) = {} ->
         IF \E g \in ghosts : g[2] = p THEN "data_xref_only" ELSE "isolated"
    [] OTHER ->
         IF Sources(p) \cap KnownReachable # {} THEN "reachable_referrer"
         ELSE "transitively_unreachable"

\* fwd: the operand edges inside the unreachable part.
Forward(p) == {q \in unreachable : p \in Sources(q)}

Roots == {p \in unreachable : Sources(p) \cap unreachable = {}}

\* subtree_size counts this set.
Subtree(r) ==
  {p \in unreachable : \A S \in SUBSET unreachable :
     r \in S /\ (\A q \in S : Forward(q) \subseteq S) => p \in S}

------------------------------------------------------------------------------

Triaged == pass = "done"

\* What the walk would reach were r a seed as well.
Reclaimed(r) ==
  {p \in starts : \A S \in SUBSET starts :
     r \in S /\ (\A q \in S : Follows(q) \subseteq S) => p \in S}

\* The work list means what it says.  A reachable_referrer start is one "the
\* walk never flowed in": its reachable sources only name it as data.  Where
\* unreachable code refers to unreachable code by control transfers only,
\* explaining a root does reclaim the subtree it is ranked by.
TriageExplains ==
  Triaged =>
    /\ \A p \in unreachable : Bucket(p) = "reachable_referrer" =>
         \A s \in Sources(p) \cap reachable : img[s].flow = "refer"
    /\ (\A p \in unreachable : img[p].flow # "refer") =>
         \A r \in Roots : Subtree(r) \subseteq Reclaimed(r)
==============================================================================
