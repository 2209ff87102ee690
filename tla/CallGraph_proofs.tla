---------------------------- MODULE CallGraph_proofs ----------------------------
(***************************************************************************)
(* For every image and every set of accepted starts: the fall-through map  *)
(* is one to one, the walk of the call graph is a closure search, and what *)
(* the triage says of the unreachable starts is true of the graph.         *)
(***************************************************************************)
EXTENDS Triage, SequenceTheorems, FiniteSetTheorems, TLAPS

\* What build is called with stays as it is, and the accepted instructions
\* lie in the image and apart from each other.
Shape ==
  /\ input \in Inputs /\ pass \in {"edges", "falls", "walk", "done"}
  /\ starts \subseteq Addr /\ todo \subseteq starts
  /\ frontier \in Seq(starts) /\ reachable \subseteq starts
  /\ pass \notin {"walk", "done"} => reachable = {}

\* An entry of fall_through_in names the start that falls into it, which pass
\* 1b has dealt with.
FallsRecorded ==
  /\ pass = "edges" => fallIn = <<>>
  /\ \A q \in DOMAIN fallIn : fallIn[q] \in starts \ todo /\ q \in FallsInto(fallIn[q])

\* What the walk has met: reached, or still on the list.
Met == reachable \cup Range(frontier)

\* The walk has met its entries and all that the starts it reached lead to.
WalkInv ==
  pass \in {"walk", "done"} =>
    /\ Entry \subseteq Met
    /\ \A p \in reachable : Follows(p) \subseteq Met
    /\ pass = "done" => frontier = <<>>

\* Pass 1 has drawn the operand edges of the starts.
EdgesDrawn == pass # "edges" => codeIn = EdgesFrom(starts)

IInv == Shape /\ FallsRecorded /\ WalkInv /\ EdgesDrawn

-------------------------------------------------------------------------------

\* A start falls into one start at most, and transfers control to one at most.
LEMMA OneSuccessor ==
  ASSUME Shape, NEW p \in starts
  PROVE  /\ FallsInto(p) \subseteq {p + img[p].n} /\ FallsInto(p) \subseteq starts
         /\ \E t : Transfers(p) \subseteq {t}
         /\ Transfers(p) \subseteq starts
<1>1. FallsInto(p) \subseteq {p + img[p].n} /\ FallsInto(p) \subseteq starts
  BY DEF FallsInto, FallThrough
<1>2. \E t : OperandTarget(p) \subseteq {t}
  BY DEF OperandTarget
<1> QED  BY <1>1, <1>2 DEF Transfers

\* The list made of a set with at most one element holds that element.
LEMMA SmallSetToSeq ==
  ASSUME NEW S, NEW t, S \subseteq {t}
  PROVE  SetToSeq(S) \in Seq(S) /\ Range(SetToSeq(S)) = S
<1>1. \/ S = {} /\ Cardinality(S) = 0
      \/ S = {t} /\ Cardinality(S) = 1
  BY FS_EmptySet, FS_Singleton
<1>2. \E f \in [1..Cardinality(S) -> S] : IsInjective(f)
  <2>1. CASE S = {} /\ Cardinality(S) = 0
    <3>1. [i \in 1..0 |-> t] \in [1..Cardinality(S) -> S]  BY <2>1
    <3>2. IsInjective([i \in 1..0 |-> t])  BY DEF IsInjective
    <3> QED  BY <3>1, <3>2
  <2>2. CASE S = {t} /\ Cardinality(S) = 1
    <3>1. [i \in 1..1 |-> t] \in [1..Cardinality(S) -> S]  BY <2>2
    <3>2. IsInjective([i \in 1..1 |-> t])  BY DEF IsInjective
    <3> QED  BY <3>1, <3>2
  <2> QED  BY <1>1, <2>1, <2>2
<1>3. SetToSeq(S) \in [1..Cardinality(S) -> S]  BY <1>2 DEF SetToSeq
<1>4. Cardinality(S) \in Nat /\ (S = {t} => 1 \in 1..Cardinality(S))
      /\ (S = {} => 1..Cardinality(S) = {})
  BY <1>1
<1>5. SetToSeq(S) \in Seq(S)  BY <1>3, <1>4
<1>6. \A i \in 1..Cardinality(S) : SetToSeq(S)[i] = t  BY <1>3
<1> QED  BY <1>1, <1>3, <1>4, <1>5, <1>6 DEF Range

\* A list of a finite set, each element once, holds the whole set.
LEMMA AnyOrder ==
  ASSUME NEW S, IsFiniteSet(S), NEW f \in SetToSeqs(S)
  PROVE  f \in Seq(S) /\ Range(f) = S
<1> DEFINE n == Cardinality(S)
<1>1. n \in Nat  BY FS_CardinalityType
<1>2. f \in [1..n -> S] /\ \A i, j \in 1..n : i # j => f[i] # f[j]  BY DEF SetToSeqs
<1>3. Range(f) \in SUBSET S  BY <1>2 DEF Range
<1>4. f \in Bijection(1..n, Range(f))
  BY <1>2 DEF Bijection, Injection, Surjection, IsInjective, Range
<1>5. IsFiniteSet(1..n) /\ Cardinality(1..n) = n
  BY <1>1, FS_Interval
<1>6. Cardinality(Range(f)) = n  BY <1>4, <1>5, FS_Bijection DEF ExistsBijection
<1>7. Range(f) = S  BY <1>3, <1>6, FS_Subset
<1>8. f \in Seq(S)  BY <1>1, <1>2
<1> QED  BY <1>7, <1>8

\* A first visit appends just what the start leads to.
LEMMA PushedFollows ==
  ASSUME Shape, NEW p \in starts
  PROVE  Pushed(p) \in Seq(starts) /\ Range(Pushed(p)) = Follows(p)
<1>1. SetToSeq(FallsInto(p)) \in Seq(FallsInto(p)) /\ Range(SetToSeq(FallsInto(p))) = FallsInto(p)
  BY OneSuccessor, SmallSetToSeq
<1>2. SetToSeq(Transfers(p)) \in Seq(Transfers(p)) /\ Range(SetToSeq(Transfers(p))) = Transfers(p)
  <2>1. PICK t : Transfers(p) \subseteq {t}  BY OneSuccessor
  <2> QED  BY <2>1, SmallSetToSeq
<1>3. SetToSeq(FallsInto(p)) \in Seq(starts) /\ SetToSeq(Transfers(p)) \in Seq(starts)
  BY <1>1, <1>2, OneSuccessor, SeqMonotonic
<1> QED  BY <1>1, <1>2, <1>3, ConcatProperties, RangeConcatenation DEF Pushed, Follows

\* Popping a list takes its last element off.
LEMMA Popped ==
  ASSUME NEW S, NEW s \in Seq(S), s # <<>>
  PROVE  /\ Last(s) \in S /\ Front(s) \in Seq(S)
         /\ Range(s) = Range(Front(s)) \cup {Last(s)}
<1>1. Len(s) \in Nat \ {0} /\ \A i \in 1..Len(s) : s[i] \in S
  BY EmptySeq, LenProperties, ElementOfSeq
<1>2. /\ Front(s) \in Seq(S) /\ Len(Front(s)) = Len(s) - 1
      /\ \A i \in 1..(Len(s) - 1) : Front(s)[i] = s[i]
  <2> DEFINE n == Len(s) - 1
  <2>1. n \in Nat /\ Front(s) = SubSeq(s, 1, n) /\ \A i \in 1..n : s[i] \in S
    BY <1>1 DEF Front
  <2> HIDE DEF n
  <2>2. /\ SubSeq(s, 1, n) \in Seq(S)
        /\ Len(SubSeq(s, 1, n)) = IF 1 <= n THEN n - 1 + 1 ELSE 0
        /\ \A i \in 1..(n - 1 + 1) : SubSeq(s, 1, n)[i] = s[1 + i - 1]
    BY <2>1, SubSeqProperties
  <2>3. Len(SubSeq(s, 1, n)) = n /\ \A i \in 1..n : SubSeq(s, 1, n)[i] = s[i]
    <3>1. n - 1 + 1 = n /\ \A i \in 1..n : 1 + i - 1 = i  BY <2>1
    <3> QED  BY <2>1, <2>2, <3>1
  <2> QED  BY <2>1, <2>2, <2>3 DEF n
<1>3. Last(s) = s[Len(s)] /\ Last(s) \in S  BY <1>1 DEF Last
<1>4. /\ Range(s) = {s[i] : i \in 1..Len(s)}
      /\ Range(Front(s)) = {Front(s)[i] : i \in 1..Len(Front(s))}
  BY <1>2, RangeEquality
<1>5. \A x : x \in Range(s) <=> x \in Range(Front(s)) \cup {Last(s)}
  BY <1>1, <1>2, <1>3, <1>4
<1> QED  BY <1>2, <1>3, <1>5

\* No two starts fall into the same one.
LEMMA FallsApart ==
  ASSUME Shape, NEW p \in starts, NEW q \in starts, NEW x \in FallsInto(p), x \in FallsInto(q)
  PROVE  p = q
<1>1. input \in Inputs /\ p \in input.starts /\ q \in input.starts  BY DEF Shape, starts
<1>2. /\ p \in Addr /\ q \in Addr /\ input.img \in [Addr -> Decode]
      /\ Fits(input.img, p) /\ Fits(input.img, q)
      /\ p < q => p + input.img[p].n <= q
      /\ q < p => q + input.img[q].n <= p
  BY <1>1, InputsAssumption
<1>3. p + input.img[p].n = q + input.img[q].n  BY OneSuccessor DEF img
<1>4. /\ input.img[p].n \in 0..3 /\ input.img[q].n \in 0..3
      /\ input.img[p].n > 0 /\ input.img[q].n > 0
  BY <1>2 DEF Fits, Decode
<1>5. p \in Int /\ q \in Int  BY <1>2, RangeAssumption DEF Addr
<1> QED  BY <1>2, <1>3, <1>4, <1>5

\* What is read off the image and the starts stays with them.
LEMMA InputFixed ==
  ASSUME input' = input
  PROVE  /\ img' = img /\ starts' = starts /\ seeds' = seeds /\ Entry' = Entry
         /\ \A p : FallsInto(p)' = FallsInto(p)
         /\ \A p : Follows(p)' = Follows(p)
         /\ EdgesFrom(starts)' = EdgesFrom(starts)
         /\ [p \in Addr |-> IF p \in starts THEN Follows(p) ELSE {}]'
              = [p \in Addr |-> IF p \in starts THEN Follows(p) ELSE {}]
<1>1. img' = img /\ starts' = starts /\ seeds' = seeds  BY DEF img, starts, seeds
<1>2. \A p : FallsInto(p)' = FallsInto(p) /\ Follows(p)' = Follows(p) /\ OperandTarget(p)' = OperandTarget(p)
  BY <1>1 DEF FallsInto, Follows, Transfers, OperandTarget
<1>3. EdgesFrom(starts)' = EdgesFrom(starts)  BY <1>1, <1>2 DEF EdgesFrom
<1> QED  BY <1>1, <1>2, <1>3 DEF Entry

\* The abstract search starts where the walk does.
LEMMA InitKeeps ==
  ASSUME Init  PROVE IInv /\ Search!Init
<1>1. input \in Inputs /\ starts \subseteq Addr  BY InputsAssumption DEF Init, starts
<1>2. Shape  BY <1>1, EmptySeq DEF Init, Shape
<1>3. IInv  BY <1>2 DEF Init, IInv, FallsRecorded, WalkInv, EdgesDrawn
<1>4. /\ seeds \cap starts \subseteq Addr
      /\ \A p \in Addr : (IF p \in starts THEN Follows(p) ELSE {}) \subseteq Addr
  BY <1>1, <1>2, OneSuccessor DEF Follows
<1>5. Search!Init  BY <1>4 DEF Init, Search!Init
<1> QED  BY <1>3, <1>5

\* Every step keeps the invariant, leaves the entries of fall_through_in as
\* they are, and is a step of the abstract search or none.
Kept == \A q \in DOMAIN fallIn : q \in DOMAIN fallIn' /\ fallIn'[q] = fallIn[q]

LEMMA PassesKeep ==
  ASSUME IInv, RealEdges \/ (\E p \in todo : FallEdge(p)) \/ GhostEdges
  PROVE  IInv' /\ Kept /\ UNCHANGED Search!vars
<1>1. input' = input  BY DEF RealEdges, FallEdge, GhostEdges
<1>2. CASE RealEdges
  <2>1. /\ pass = "edges" /\ pass' = "falls" /\ todo' = starts /\ codeIn' = EdgesFrom(starts)
        /\ fallIn = <<>> /\ UNCHANGED <<fallIn, frontier, reachable>>
    BY <1>2 DEF RealEdges, IInv, FallsRecorded
  <2>2. Shape' /\ FallsRecorded' /\ WalkInv' /\ EdgesDrawn'
    BY <1>1, <2>1, InputFixed DEF IInv, Shape, FallsRecorded, WalkInv, EdgesDrawn
  <2>3. UNCHANGED Search!vars  BY <1>1, <2>1, InputFixed DEF Search!vars
  <2> QED  BY <2>1, <2>2, <2>3 DEF IInv, Kept
<1>3. ASSUME NEW p \in todo, FallEdge(p)
      PROVE  IInv' /\ Kept /\ UNCHANGED Search!vars
  <2>1. /\ pass = "falls" /\ todo' = todo \ {p} /\ p \in starts
        /\ UNCHANGED <<input, pass, codeIn, ghosts, frontier, reachable>>
        /\ fallIn' = [q \in FallsInto(p) \cup DOMAIN fallIn |-> IF q \in FallsInto(p) THEN p ELSE fallIn[q]]
    BY <1>3 DEF FallEdge, IInv, Shape
  <2>2. /\ DOMAIN fallIn' = FallsInto(p) \cup DOMAIN fallIn
        /\ \A q \in FallsInto(p) : fallIn'[q] = p
        /\ \A q \in DOMAIN fallIn \ FallsInto(p) : fallIn'[q] = fallIn[q]
    BY <2>1
  <2>3. \A q \in DOMAIN fallIn : q \notin FallsInto(p)
    BY <1>3, <2>1, FallsApart DEF IInv, FallsRecorded
  <2>4. Kept  BY <2>2, <2>3 DEF Kept
  <2>5. FallsRecorded'
    BY <1>1, <2>1, <2>2, <2>3, InputFixed DEF IInv, FallsRecorded
  <2>6. Shape' /\ WalkInv' /\ EdgesDrawn'
    BY <1>1, <2>1, InputFixed DEF IInv, Shape, WalkInv, EdgesDrawn
  <2>7. UNCHANGED Search!vars
    BY <1>1, <2>1, InputFixed DEF Search!vars
  <2> QED  BY <2>4, <2>5, <2>6, <2>7 DEF IInv
<1>4. CASE GhostEdges
  <2>1. /\ pass = "falls" /\ pass' = "walk" /\ frontier' \in SetToSeqs(Entry) /\ reachable = {}
        /\ UNCHANGED <<codeIn, fallIn, todo, reachable>>
    BY <1>4 DEF GhostEdges, IInv, Shape
  <2>2. IsFiniteSet(Entry)
    <3>1. Entry \in SUBSET (Start..(End - 1))  BY DEF Entry, IInv, Shape, Addr
    <3>2. Start \in Int /\ End - 1 \in Int  BY RangeAssumption
    <3> QED  BY <3>1, <3>2, FS_Interval, FS_Subset
  <2>3. frontier' \in Seq(Entry) /\ Range(frontier') = Entry  BY <2>1, <2>2, AnyOrder
  <2>4. frontier' \in Seq(starts)  BY <2>3, SeqMonotonic DEF Entry
  <2>5. Shape' /\ FallsRecorded' /\ EdgesDrawn'
    BY <1>1, <2>1, <2>4, InputFixed DEF IInv, Shape, FallsRecorded, EdgesDrawn
  <2>6. WalkInv'
    BY <1>1, <2>1, <2>3, InputFixed DEF WalkInv, Met
  <2>7. UNCHANGED Search!vars
    BY <1>1, <2>1, <2>3, InputFixed DEF Search!vars, Entry
  <2> QED  BY <2>1, <2>5, <2>6, <2>7 DEF IInv, Kept
<1> QED  BY <1>2, <1>3, <1>4

\* The walk: a first visit grows the search by what it appends, a repeated
\* one changes nothing, and the empty list stops it.
LEMMA WalkKeeps ==
  ASSUME IInv, Pop \/ Built
  PROVE  IInv' /\ Kept /\ [Search!Next]_(Search!vars)
<1>1. /\ input' = input /\ UNCHANGED <<codeIn, fallIn, todo>>
      /\ pass = "walk" /\ pass' \in {"walk", "done"}
  BY DEF Pop, Built
<1>2. /\ starts' = starts /\ seeds' = seeds /\ Entry' = Entry /\ \A p : Follows(p)' = Follows(p)
      /\ [p \in Addr |-> IF p \in starts THEN Follows(p) ELSE {}]'
           = [p \in Addr |-> IF p \in starts THEN Follows(p) ELSE {}]
  BY <1>1, InputFixed
<1>3. FallsRecorded' /\ EdgesDrawn' /\ Kept
  BY <1>1, InputFixed DEF IInv, FallsRecorded, EdgesDrawn, Kept
<1>4. CASE Pop
  <2> DEFINE p == Last(frontier)
  <2>1. /\ frontier # <<>> /\ pass' = "walk" /\ reachable' = reachable \cup {p}
        /\ frontier' = Front(frontier) \o (IF p \in reachable THEN <<>> ELSE Pushed(p))
    BY <1>4 DEF Pop
  <2>2. /\ p \in starts /\ Front(frontier) \in Seq(starts)
        /\ Range(frontier) = Range(Front(frontier)) \cup {p}
    BY <2>1, Popped DEF IInv, Shape
  <2>3. Pushed(p) \in Seq(starts) /\ Range(Pushed(p)) = Follows(p)
    BY <2>2, PushedFollows DEF IInv
  <2> HIDE DEF p
  <2>4. /\ frontier' \in Seq(starts)
        /\ Met' = IF p \in reachable THEN Met ELSE Met \cup Follows(p)
    <3>1. CASE p \in reachable
      <4>1. frontier' = Front(frontier)  BY <2>1, <2>2, <3>1, ConcatEmptySeq
      <4> QED  BY <2>1, <2>2, <3>1, <4>1 DEF Met
    <3>2. CASE p \notin reachable
      <4>1. frontier' = Front(frontier) \o Pushed(p)  BY <2>1, <3>2
      <4>2. frontier' \in Seq(starts) /\ Range(frontier') = Range(Front(frontier)) \cup Follows(p)
        BY <2>2, <2>3, <4>1, ConcatProperties, RangeConcatenation
      <4> QED  BY <2>1, <2>2, <3>2, <4>2 DEF Met
    <3> QED  BY <3>1, <3>2
  <2>5. Shape'  BY <1>1, <1>2, <2>1, <2>2, <2>4 DEF IInv, Shape
  <2>6. WalkInv'
    BY <1>1, <1>2, <2>1, <2>4 DEF IInv, WalkInv
  <2>7. p \in Met  BY <2>2 DEF Met
  <2>8. Met \subseteq starts /\ starts \subseteq Addr
    BY RangeOfSeq DEF IInv, Shape, Met
  <2>9. Follows(p) \subseteq Search!Image(Met)
    BY <2>2, <2>7, <2>8 DEF Search!Image
  <2>10. [Search!Next]_(Search!vars)
    <3>1. CASE Met' = Met
      BY <1>1, <1>2, <2>1, <3>1 DEF Search!vars, Met
    <3>2. CASE Met' # Met
      <4>1. Met' = Met \cup (Follows(p) \ Met) /\ Follows(p) \ Met # {}
        BY <2>4, <3>2
      <4>2. Follows(p) \ Met \in SUBSET (Search!Image(Met) \ Met)  BY <2>9
      <4>3. Search!Grow
        BY <1>1, <1>2, <2>1, <4>1, <4>2 DEF Search!Grow, Met
      <4> QED  BY <4>3 DEF Search!Next
    <3> QED  BY <3>1, <3>2
  <2> QED  BY <1>3, <2>5, <2>6, <2>10 DEF IInv
<1>5. CASE Built
  <2>1. frontier = <<>> /\ pass' = "done" /\ UNCHANGED <<frontier, reachable>>
    BY <1>5 DEF Built
  <2>2. Range(frontier) = {} /\ Met = reachable  BY <2>1 DEF Range, Met
  <2>3. Shape' /\ WalkInv'
    BY <1>1, <1>2, <2>1, <2>2 DEF IInv, Shape, WalkInv, Met
  <2>4. reachable \subseteq starts /\ starts \subseteq Addr  BY DEF IInv, Shape
  <2>5. \A q \in reachable : Follows(q) \subseteq reachable
    BY <1>1, <2>2 DEF IInv, WalkInv
  <2>6. Search!Image(reachable) \subseteq reachable
    BY <2>4, <2>5 DEF Search!Image
  <2>7. Search!Stop
    BY <1>1, <1>2, <2>1, <2>2, <2>6 DEF Search!Stop, Met
  <2> QED  BY <1>3, <2>3, <2>7 DEF IInv, Search!Next
<1> QED  BY <1>4, <1>5

\* All steps together.
LEMMA StepsKeep ==
  ASSUME IInv, [Next]_vars  PROVE IInv' /\ Kept /\ [Search!Next]_(Search!vars)
<1>1. CASE UNCHANGED vars
  <2>1. UNCHANGED <<input, pass, codeIn, fallIn, ghosts, todo, frontier, reachable>>
    BY <1>1 DEF vars
  <2>2. Shape' /\ FallsRecorded' /\ WalkInv' /\ EdgesDrawn'
    BY <2>1, InputFixed DEF IInv, Shape, FallsRecorded, WalkInv, EdgesDrawn, Met
  <2>3. UNCHANGED Search!vars  BY <2>1, InputFixed DEF Search!vars
  <2> QED  BY <2>1, <2>2, <2>3 DEF IInv, Kept
<1> QED  BY <1>1, PassesKeep, WalkKeeps DEF Next

\* The invariant holds throughout.
LEMMA Inductive == Spec => []IInv
<1>1. Init => IInv  BY InitKeeps
<1>2. IInv /\ [Next]_vars => IInv'  BY StepsKeep
<1> QED  BY <1>1, <1>2, PTL DEF Spec

\* fall_through_in stays one to one: no pass overwrites an entry.
THEOREM FallInIsOneToOne == Spec => FallInWrittenOnce
<1>1. IInv /\ [Next]_vars =>
        [\A q \in DOMAIN fallIn : q \in DOMAIN fallIn' /\ fallIn'[q] = fallIn[q]]_vars
  BY StepsKeep DEF Kept
<1> QED  BY <1>1, Inductive, PTL DEF Spec, FallInWrittenOnce

\* _walk_reachable, duplicates and pop order and all, is a closure search.
THEOREM WalkImplementsSearch == Spec => Search!Spec
<1>1. Init => Search!Init  BY InitKeeps
<1>2. IInv /\ [Next]_vars => [Search!Next]_(Search!vars)  BY StepsKeep
<1> QED  BY <1>1, <1>2, Inductive, PTL DEF Spec, Search!Spec

-------------------------------------------------------------------------------

\* What the triage says of a start, when the walk is over.
LEMMA Explained ==
  ASSUME IInv  PROVE TriageExplains
<1> SUFFICES ASSUME Triaged  PROVE TriageExplains
  BY DEF TriageExplains
<1>1. /\ pass = "done" /\ frontier = <<>> /\ codeIn = EdgesFrom(starts)
      /\ reachable \subseteq starts /\ starts \subseteq Addr
      /\ \A p \in reachable : Follows(p) \subseteq reachable
  BY DEF Triaged, IInv, Shape, WalkInv, EdgesDrawn, Met, Range
<1>2. \A p \in Addr : \A s \in Sources(p) : s \in starts /\ p \in OperandTarget(s)
  BY <1>1 DEF Sources, EdgesFrom
<1>3. \A p \in starts : \A s \in Sources(p) :
        img[s].flow # "refer" => p \in Follows(s)
  BY <1>1, <1>2 DEF OperandTarget, Follows, Transfers
<1>4. \A p \in unreachable : \A s \in Sources(p) \cap reachable : img[s].flow = "refer"
  BY <1>1, <1>3 DEF unreachable
<1>5. ASSUME \A p \in unreachable : img[p].flow # "refer", NEW r \in Roots, NEW x \in Subtree(r)
      PROVE  x \in Reclaimed(r)
  <2>1. x \in unreachable /\ x \in starts /\ r \in unreachable
    BY DEF Subtree, Roots, unreachable
  <2>2. ASSUME NEW S \in SUBSET starts, r \in S, \A q \in S : Follows(q) \subseteq S
        PROVE  x \in S
    <3> DEFINE U == S \cap unreachable
    <3>1. U \in SUBSET unreachable /\ r \in U  BY <2>1, <2>2
    <3>2. \A q \in U : Forward(q) \subseteq U
      BY <1>3, <1>5, <2>2 DEF Forward, unreachable
    <3>3. x \in U  BY <3>1, <3>2 DEF Subtree
    <3> QED  BY <3>3
  <2> QED  BY <2>1, <2>2 DEF Reclaimed
<1> QED  BY <1>4, <1>5 DEF TriageExplains

\* The triage's list means what it says, whatever the image.
THEOREM TriageIsRight == Spec => []TriageExplains
<1>1. IInv => TriageExplains  BY Explained
<1> QED  BY <1>1, Inductive, PTL
===============================================================================
