------------------------------ MODULE CallGraph ------------------------------
(***************************************************************************)
(* tools/re/callgraph.py, build: the edges between the instructions that   *)
(* classify accepted, the edges that data bytes only seem to make, and the *)
(* code starts reached from the annotated addresses.  Pass 1b writes a     *)
(* dictionary entry per instruction and the walk pops a list, so each of   *)
(* their iterations is a step; passes 1 and 2 collect sets in one step.    *)
(***************************************************************************)
EXTENDS CodeImage, Sequences, SequencesExt

CONSTANT Inputs   \* [img, starts, seeds]: what build is called with

\* The image, the accepted starts (which classify keeps apart) and any seeds.
ASSUME InputsAssumption ==
  \A in \in Inputs :
    /\ in.img \in [Addr -> Decode]
    /\ in.starts \subseteq Addr
    /\ \A p \in in.starts : Fits(in.img, p)
    /\ \A p, q \in in.starts : p < q => p + in.img[p].n <= q
    /\ in.seeds \subseteq Nat

VARIABLES
  input,      \* never changes
  pass,       \* the pass of build under way
  codeIn,     \* code_in and code_out, as a set of pairs <<source, target>>
  fallIn,     \* fall_through_in: target -> source
  ghosts,     \* apparent_in_from_data, as pairs
  todo,       \* the starts pass 1b has yet to look at
  frontier,   \* frontier, popped at its end
  reachable   \* reachable

vars == <<input, pass, codeIn, fallIn, ghosts, todo, frontier, reachable>>

img == input.img
starts == input.starts
seeds == input.seeds \cap Addr
consumed == UNION {Operands(img, p) : p \in starts}

\* _operand_target: any 16-bit operand counts, whatever it is used for.
OperandTarget(p) ==
  CASE img[p].flow \in {"refer", "indirect", "jump", "call"} -> {img[p].arg}
    [] img[p].flow = "branch"                                -> {BranchTarget(p, img[p].arg)}
    [] OTHER                                                 -> {}

\* The edges that passes 1 and 2 draw from the addresses they look at.
EdgesFrom(S) ==
  UNION {{p} \X (OperandTarget(p) \cap Addr) : p \in {q \in S : Fits(img, q)}}

Init ==
  /\ input \in Inputs
  /\ pass = "edges"
  /\ codeIn = {} /\ ghosts = {} /\ fallIn = <<>>
  /\ todo = {} /\ frontier = <<>> /\ reachable = {}

RealEdges ==
  /\ pass = "edges"
  /\ codeIn' = EdgesFrom(starts)
  /\ pass' = "falls" /\ todo' = starts
  /\ UNCHANGED <<input, fallIn, ghosts, frontier, reachable>>

\* Mutant of FallsInto: jump and branch targets count as well.
FallsInto_AnySuccessor(p) == Successors(img, p) \cap starts

\* The starts among the fall-through successors of p.
FallsInto(p) == {q \in FallThrough(img, p) : q < End} \cap starts

FallEdge(p) ==
  /\ pass = "falls" /\ p \in todo
  /\ todo' = todo \ {p}
  /\ fallIn' = [q \in FallsInto(p) \cup DOMAIN fallIn |-> IF q \in FallsInto(p) THEN p ELSE fallIn[q]]
  /\ UNCHANGED <<input, pass, codeIn, ghosts, frontier, reachable>>

\* Mutant of Entry: seeds that were not classified as code are kept.
Entry_Unfiltered == seeds

\* The seeds the walk starts from.
Entry == seeds \cap starts

\* Pass 2, and the list the walk starts from: a set in an arbitrary order.
GhostEdges ==
  /\ pass = "falls" /\ todo = {}
  /\ ghosts' = EdgesFrom(Addr \ (starts \cup consumed))
  /\ pass' = "walk"
  /\ frontier' \in SetToSeqs(Entry)
  /\ UNCHANGED <<input, codeIn, fallIn, todo, reachable>>

\* Mutant of Transfers: JSR is not followed.
Transfers_NoCalls(p) ==
  IF img[p].flow \in {"jump", "indirect", "branch"}
    THEN OperandTarget(p) \cap starts ELSE {}

\* Control transfers, JMP (ind) by the address of its pointer included.
Transfers(p) ==
  IF img[p].flow \in {"call", "jump", "indirect", "branch"}
    THEN OperandTarget(p) \cap starts ELSE {}

Follows(p) == FallsInto(p) \cup Transfers(p)

\* What a first visit appends: the fall-through, then the target.
Pushed(p) == SetToSeq(FallsInto(p)) \o SetToSeq(Transfers(p))

Pop ==
  LET p == Last(frontier) IN
  /\ pass = "walk" /\ frontier # <<>>
  /\ reachable' = reachable \cup {p}
  /\ frontier' = Front(frontier) \o (IF p \in reachable THEN <<>> ELSE Pushed(p))
  /\ UNCHANGED <<input, pass, codeIn, fallIn, ghosts, todo>>

Built ==
  /\ pass = "walk" /\ frontier = <<>>
  /\ pass' = "done"
  /\ UNCHANGED <<input, codeIn, fallIn, ghosts, todo, frontier, reachable>>

Next ==
  \/ RealEdges
  \/ \E p \in todo : FallEdge(p)
  \/ GhostEdges \/ Pop \/ Built

Spec == Init /\ [][Next]_vars
FairSpec == Spec /\ WF_vars(Next)

------------------------------------------------------------------------------

\* Types: build draws edges inside the image, and its walk only ever sees
\* addresses that were accepted as instructions.
TypeOK ==
  /\ pass \in {"edges", "falls", "walk", "done"}
  /\ codeIn \subseteq Addr \X Addr /\ ghosts \subseteq Addr \X Addr
  /\ DOMAIN fallIn \subseteq starts /\ \A q \in DOMAIN fallIn : fallIn[q] \in starts
  /\ todo \subseteq starts
  /\ frontier \in Seq(starts) /\ reachable \subseteq starts

\* fall_through_in is 1:1 "because there is at most one instruction directly
\* preceding any given code-start": no pass ever overwrites an entry.
FallInWrittenOnce ==
  [][\A q \in DOMAIN fallIn : q \in DOMAIN fallIn' /\ fallIn'[q] = fallIn[q]]_vars

\* The list, with its duplicates and whatever its order, is one way to search.
Search == INSTANCE Closure WITH
            Node  <- Addr,
            roots <- seeds \cap starts,
            edges <- [p \in Addr |-> IF p \in starts THEN Follows(p) ELSE {}],
            found <- IF pass \in {"walk", "done"} THEN reachable \cup Range(frontier)
                     ELSE seeds \cap starts,
            done  <- pass = "done"
ImplementsClosure == Search!FairSpec
==============================================================================
