------------------------ MODULE CodeDiscovery_proofs ------------------------
(***************************************************************************)
(* What CodeDiscovery guarantees for every image, seed set and address     *)
(* range: types, least closure of the expansion, no overlap, and that the  *)
(* only way to lose a code start is to an earlier instruction.             *)
(***************************************************************************)
EXTENDS CodeDiscovery, TLAPS

\* A visit contributes addresses of the image or End: the fall-through of an
\* instruction that fits, and targets cut down to the image.
LEMMA SuccessorsInRange ==
  ASSUME NEW i \in Images, NEW p \in Start .. End
  PROVE  Successors(i, p) \subseteq Start .. End
<1>1. Successors(i, p) \subseteq FallThrough(i, p) \cup Addr
  BY DEF Successors
<1>2. Addr \subseteq Start .. End
  BY RangeAssumption DEF Addr
<1>3. Fits(i, p) => FallThrough(i, p) \subseteq Start .. End
  <2> SUFFICES ASSUME Fits(i, p) PROVE p + i[p].n \in Start .. End
    BY DEF FallThrough
  <2>1. i[p].n \in 0 .. 3
    BY ImagesAssumption DEF Fits, Decode
  <2>2. QED
    BY <2>1, RangeAssumption DEF Fits, Addr
<1>4. ~Fits(i, p) => Successors(i, p) = {}
  BY DEF Successors
<1>5. QED
  BY <1>1, <1>2, <1>3, <1>4

\* The operands of an instruction that fits are in the image.
LEMMA OperandsInImage ==
  ASSUME NEW i \in Images, NEW p \in Addr, Fits(i, p)
  PROVE  Operands(i, p) \subseteq Addr
<1>1. i[p].n \in 0 .. 3
  BY ImagesAssumption DEF Decode
<1>2. QED
  BY <1>1, RangeAssumption DEF Fits, Operands, Addr

\* Type correctness: the code starts never leave Start..End, instructions and
\* operands never leave the image.
THEOREM TypeCorrect == Spec => []TypeOK
<1>1. Init => TypeOK
  BY RangeAssumption DEF Init, TypeOK, Addr
<1>2. TypeOK /\ [Next]_vars => TypeOK'
  <2> SUFFICES ASSUME TypeOK, [Next]_vars PROVE TypeOK'
    OBVIOUS
  <2> USE DEF TypeOK
  <2>1. ASSUME NEW p \in todo, Visit(p) PROVE TypeOK'
    <3>1. Successors(img, p) \subseteq Start .. End
      BY SuccessorsInRange
    <3>2. QED
      BY <2>1, <3>1 DEF Visit
  <2>2. CASE NextRound
    BY <2>2 DEF NextRound
  <2>3. CASE Expanded
    BY <2>3 DEF Expanded
  <2>4. ASSUME NEW p \in rest, Accept(p) PROVE TypeOK'
    <3>1. p \in Addr
      BY <2>4 DEF Accept, Fits
    <3>2. Operands(img, p) \subseteq Addr
      BY <2>4, <3>1, OperandsInImage DEF Accept
    <3>3. QED
      BY <2>4, <3>1, <3>2 DEF Accept
  <2>5. ASSUME NEW p \in rest, PassOver(p) PROVE TypeOK'
    BY <2>5 DEF PassOver
  <2>6. CASE Classified
    BY <2>6 DEF Classified
  <2>7. CASE UNCHANGED vars
    BY <2>7 DEF vars
  <2>8. QED
    BY <2>1, <2>2, <2>3, <2>4, <2>5, <2>6, <2>7 DEF Next
<1>3. QED
  BY <1>1, <1>2, PTL DEF Spec

------------------------------------------------------------------------------

\* Soundness of the expansion needs nothing but itself: what a visit adds to
\* nxt are successors of a member of code.
THEOREM NothingInvented == Spec => []FoundIsReachable
<1>1. Init => FoundIsReachable
  BY DEF Init, FoundIsReachable
<1>2. TypeOK /\ FoundIsReachable /\ [Next]_vars => FoundIsReachable'
  <2> SUFFICES ASSUME TypeOK, FoundIsReachable, [Next]_vars,
                      NEW C \in SUBSET (Start .. End),
                      seeds' \cap Addr \subseteq C, Closed(C)'
               PROVE  code' \cup nxt' \subseteq C
    BY DEF FoundIsReachable
  <2>1. UNCHANGED <<img, seeds>>
    BY DEF Next, vars, Visit, NextRound, Expanded, Accept, PassOver, Classified
  <2>2. code \cup nxt \subseteq C
    BY <2>1 DEF FoundIsReachable, Closed
  <2>3. ASSUME NEW p \in todo, Visit(p) PROVE code' \cup nxt' \subseteq C
    <3>1. Successors(img, p) \subseteq C
      BY <2>1, <2>2 DEF TypeOK, Closed
    <3>2. QED
      BY <2>2, <2>3, <3>1 DEF Visit
  <2>4. CASE NextRound \/ Expanded \/ Classified \/ UNCHANGED vars
    BY <2>2, <2>4 DEF NextRound, Expanded, Classified, vars
  <2>5. ASSUME NEW p \in rest, Accept(p) \/ PassOver(p) PROVE code' \cup nxt' \subseteq C
    BY <2>2, <2>5 DEF Accept, PassOver
  <2>6. QED
    BY <2>3, <2>4, <2>5 DEF Next
<1>3. QED
  BY <1>1, <1>2, TypeCorrect, PTL DEF Spec

\* Completeness is inductive only with the state of the current round in it:
\* whatever a visited address leads to is in code or waits in nxt.
RoundInv ==
  /\ seeds \cap Addr \subseteq code
  /\ \A p \in code \ todo : Successors(img, p) \subseteq code \cup nxt
  /\ phase # "expand" => todo = {} /\ nxt = {}

LEMMA RoundInvariant == Spec => []RoundInv
<1>1. Init => RoundInv
  BY DEF Init, RoundInv
<1>2. TypeOK /\ RoundInv /\ [Next]_vars => RoundInv'
  <2> SUFFICES ASSUME TypeOK, RoundInv, [Next]_vars PROVE RoundInv'
    OBVIOUS
  <2> USE DEF RoundInv
  <2>1. img' = img /\ seeds' = seeds
    BY DEF Next, vars, Visit, NextRound, Expanded, Accept, PassOver, Classified
  <2>2. ASSUME NEW p \in todo, Visit(p) PROVE RoundInv'
    BY <2>1, <2>2 DEF Visit
  <2>3. CASE NextRound
    BY <2>1, <2>3 DEF NextRound
  <2>4. CASE Expanded
    BY <2>1, <2>4 DEF Expanded
  <2>5. ASSUME NEW p \in rest, Accept(p) \/ PassOver(p) PROVE RoundInv'
    BY <2>1, <2>5 DEF Accept, PassOver
  <2>6. CASE Classified \/ UNCHANGED vars
    BY <2>1, <2>6 DEF Classified, vars
  <2>7. QED
    BY <2>2, <2>3, <2>4, <2>5, <2>6 DEF Next
<1>3. QED
  BY <1>1, <1>2, TypeCorrect, PTL DEF Spec

\* When the rounds stop the code starts are closed.
THEOREM NothingMissed == Spec => []ExpansionIsClosed
<1>1. RoundInv => ExpansionIsClosed
  BY DEF RoundInv, ExpansionIsClosed, Closed
<1>2. QED
  BY <1>1, RoundInvariant, PTL
------------------------------------------------------------------------------

\* The sweep's invariant: everything accepted lies below everything not yet
\* considered, which is why the ascending order makes the overlap test on the
\* opcode byte sufficient.
SweepInv ==
  /\ phase = "expand" => instr = {} /\ consumed = {} /\ rest = {}
  /\ \A p \in instr : Fits(img, p)
  /\ \A p \in instr, q \in rest : p < q
  /\ NoOverlap
  /\ LostOnlyToEarlier

LEMMA AcceptKeepsSweepInv ==
  ASSUME TypeOK, SweepInv, NEW p \in rest, Accept(p)
  PROVE  SweepInv'
<1> USE DEF SweepInv, TypeOK
<1>1. /\ img' = img /\ phase' = phase /\ phase = "classify" /\ code' = code
      /\ rest' = rest \ {p} /\ instr' = instr \cup {p}
      /\ consumed' = consumed \cup Operands(img, p)
      /\ Fits(img, p) /\ p \notin consumed
      /\ \A q \in rest : p <= q
  BY DEF Accept, IsNext, Claimed
<1>2. \A q \in rest' : p < q
  BY <1>1, RangeAssumption DEF Addr
<1>3. \A q \in instr : q < p /\ q + img[q].n <= p
  <2> SUFFICES ASSUME NEW q \in instr PROVE q < p /\ q + img[q].n <= p
    OBVIOUS
  <2>1. q < p /\ p \notin Operands(img, q)
    BY <1>1 DEF NoOverlap
  <2>2. q \in Int /\ p \in Int /\ img[q].n \in 0 .. 3
    BY RangeAssumption, ImagesAssumption DEF Addr, Decode
  <2>3. QED
    BY <2>1, <2>2 DEF Operands
<1>4. NoOverlap'
  <2>1. \A q, r \in instr' : q < r => q + img'[q].n <= r
    BY <1>1, <1>3, RangeAssumption DEF NoOverlap, Addr
  <2>2. consumed' = UNION {Operands(img', q) : q \in instr'}
    BY <1>1 DEF NoOverlap
  <2>3. QED
    BY <2>1, <2>2 DEF NoOverlap
<1>5. LostOnlyToEarlier'
  BY <1>1 DEF LostOnlyToEarlier
<1>6. QED
  BY <1>1, <1>2, <1>4, <1>5

LEMMA PassOverKeepsSweepInv ==
  ASSUME TypeOK, SweepInv, NEW p \in rest, PassOver(p)
  PROVE  SweepInv'
<1> USE DEF SweepInv, TypeOK
<1>1. /\ img' = img /\ phase' = phase /\ phase = "classify" /\ code' = code
      /\ rest' = rest \ {p} /\ instr' = instr /\ consumed' = consumed
      /\ Fits(img, p) => Claimed(p)
      /\ \A q \in rest : p <= q
  BY DEF PassOver, IsNext
\* An instruction that claims any byte of p starts before p, so it claims p.
<1>2. ASSUME Fits(img, p) PROVE \E q \in instr : q < p /\ p < q + img[q].n
  <2>1. p + 1 \notin instr
    <3>1. p + 1 \in instr => p + 1 < p
      OBVIOUS
    <3>2. QED
      BY <3>1, RangeAssumption DEF Addr
  <2>2. PICK b \in consumed : b = p \/ b \in Operands(img, p)
    BY <1>1, <1>2, <2>1 DEF Claimed
  <2>3. PICK q \in instr : b \in Operands(img, q)
    BY <2>2 DEF NoOverlap
  <2>4. q < p
    OBVIOUS
  <2>5. q \in Int /\ p \in Int /\ img[q].n \in 0 .. 3 /\ img[p].n \in 0 .. 3
    BY <1>2, RangeAssumption, ImagesAssumption DEF Addr, Decode, Fits
  <2>6. p <= b
    BY <2>2, <2>5 DEF Operands
  <2>7. QED
    BY <2>3, <2>4, <2>5, <2>6 DEF Operands
<1>3. LostOnlyToEarlier'
  BY <1>1, <1>2 DEF LostOnlyToEarlier
<1>4. QED
  BY <1>1, <1>3 DEF NoOverlap

LEMMA SweepInvariant == Spec => []SweepInv
<1>1. Init => SweepInv
  BY DEF Init, SweepInv, NoOverlap, LostOnlyToEarlier
<1>2. TypeOK /\ SweepInv /\ [Next]_vars => SweepInv'
  <2> SUFFICES ASSUME TypeOK, SweepInv, [Next]_vars PROVE SweepInv'
    OBVIOUS
  <2> USE DEF SweepInv, NoOverlap, LostOnlyToEarlier
  <2>1. ASSUME NEW p \in todo, Visit(p) PROVE SweepInv'
    BY <2>1 DEF Visit
  <2>2. CASE NextRound
    BY <2>2 DEF NextRound
  <2>3. CASE Expanded
    BY <2>3 DEF Expanded
  <2>4. ASSUME NEW p \in rest, Accept(p) PROVE SweepInv'
    BY <2>4, AcceptKeepsSweepInv
  <2>5. ASSUME NEW p \in rest, PassOver(p) PROVE SweepInv'
    BY <2>5, PassOverKeepsSweepInv
  <2>6. CASE Classified
    BY <2>6 DEF Classified
  <2>7. CASE UNCHANGED vars
    BY <2>7 DEF vars
  <2>8. QED
    BY <2>1, <2>2, <2>3, <2>4, <2>5, <2>6, <2>7 DEF Next
<1>3. QED
  BY <1>1, <1>2, TypeCorrect, PTL DEF Spec

\* No byte of any image is decoded twice.
THEOREM DecodedOnce == Spec => []NoOverlap
<1>1. SweepInv => NoOverlap
  BY DEF SweepInv
<1>2. QED
  BY <1>1, SweepInvariant, PTL

\* A decodable code start is only ever lost to an accepted earlier one.
THEOREM EarlierDecodeWins == Spec => []LostOnlyToEarlier
<1>1. SweepInv => LostOnlyToEarlier
  BY DEF SweepInv
<1>2. QED
  BY <1>1, SweepInvariant, PTL

------------------------------------------------------------------------------

\* A round only collects successors of what earlier rounds found.
Justified == \A q \in nxt : \E p \in code : q \in Successors(img, p)

LEMMA RoundsAreJustified == Spec => []Justified
<1>1. Init => Justified
  BY DEF Init, Justified
<1>2. TypeOK /\ Justified /\ [Next]_vars => Justified'
  <2> SUFFICES ASSUME TypeOK, Justified, [Next]_vars PROVE Justified'
    OBVIOUS
  <2> USE DEF Justified, TypeOK
  <2>1. ASSUME NEW p \in todo, Visit(p) PROVE Justified'
    BY <2>1 DEF Visit
  <2>2. CASE NextRound
    BY <2>2 DEF NextRound
  <2>3. CASE Expanded
    BY <2>3 DEF Expanded
  <2>4. ASSUME NEW p \in rest, Accept(p) \/ PassOver(p) PROVE Justified'
    BY <2>4 DEF Accept, PassOver
  <2>5. CASE Classified \/ UNCHANGED vars
    BY <2>5 DEF Classified, vars
  <2>6. QED
    BY <2>1, <2>2, <2>3, <2>4, <2>5 DEF Next
<1>3. QED
  BY <1>1, <1>2, TypeCorrect, PTL DEF Spec

Edges == [p \in Start .. End |-> Successors(img, p)]

LEMMA ImageOfCode ==
  ASSUME TypeOK
  PROVE  Search!Image(code) = UNION {Successors(img, p) : p \in code}
BY DEF Search!Image, TypeOK

\* Every round is a Grow of the abstract search, the end of the rounds is its
\* Stop, and visits and the sweep are stuttering.
THEOREM ImplementsSearch == Spec => Search!Spec
<1>1. Init => Search!Init
  <2> SUFFICES ASSUME Init PROVE Search!Init
    OBVIOUS
  <2>1. seeds \cap Addr \subseteq Start .. End
    BY RangeAssumption DEF Addr
  <2>2. Edges \in [Start .. End -> SUBSET (Start .. End)]
    BY SuccessorsInRange DEF Init, Edges
  <2>3. QED
    BY <2>1, <2>2 DEF Init, Search!Init, Edges
<1>2. TypeOK /\ RoundInv /\ Justified /\ [Next]_vars => [Search!Next]_(Search!vars)
  <2> SUFFICES ASSUME TypeOK, RoundInv, Justified, [Next]_vars
               PROVE  [Search!Next]_(Search!vars)
    OBVIOUS
  <2>1. img' = img /\ seeds' = seeds
    BY DEF Next, vars, Visit, NextRound, Expanded, Accept, PassOver, Classified
  <2>2. ASSUME NEW p \in todo, Visit(p) PROVE UNCHANGED Search!vars
    BY <2>1, <2>2 DEF Visit, Search!vars
  <2>3. CASE NextRound
    <3>1. nxt \ code \in SUBSET (Search!Image(code) \ code)
      BY ImageOfCode DEF Justified
    <3>2. nxt \ code # {} /\ code' = code \cup (nxt \ code) /\ phase = "expand" /\ phase' = phase
      BY <2>3 DEF NextRound
    <3>3. Search!Grow
      BY <2>1, <3>1, <3>2 DEF Search!Grow
    <3>4. QED
      BY <3>3 DEF Search!Next
  <2>4. CASE Expanded
    <3>1. Search!Image(code) \subseteq code
      BY <2>4, ImageOfCode DEF Expanded, RoundInv
    <3>2. Search!Stop
      BY <2>1, <2>4, <3>1 DEF Expanded, Search!Stop
    <3>3. QED
      BY <3>2 DEF Search!Next
  <2>5. ASSUME NEW p \in rest, Accept(p) \/ PassOver(p) PROVE UNCHANGED Search!vars
    BY <2>1, <2>5 DEF Accept, PassOver, Search!vars
  <2>6. CASE Classified
    BY <2>1, <2>6 DEF Classified, Search!vars
  <2>7. CASE UNCHANGED vars
    BY <2>7 DEF vars, Search!vars
  <2>8. QED
    BY <2>2, <2>3, <2>4, <2>5, <2>6, <2>7 DEF Next
<1>3. QED
  BY <1>1, <1>2, TypeCorrect, RoundInvariant, RoundsAreJustified, PTL
     DEF Spec, Search!Spec

\* The abstract search is right whatever implements it: it only adds nodes that
\* the found ones lead to, has its roots from the start, and stops when nothing
\* is missing.
THEOREM SearchIsLeastClosed == Search!Spec => []Search!LeastClosed
<1> DEFINE Roots == seeds \cap Addr
           SearchInv == Search!TypeOK /\ Search!LeastClosed /\ Roots \subseteq code
<1>1. Search!Init => SearchInv
  BY DEF Search!Init, Search!TypeOK, Search!LeastClosed
<1>2. SearchInv /\ [Search!Next]_(Search!vars) => SearchInv'
  <2> SUFFICES ASSUME SearchInv, [Search!Next]_(Search!vars) PROVE SearchInv'
    OBVIOUS
  <2>1. Search!Image(code) \subseteq Start .. End
    BY DEF Search!TypeOK, Search!Image
  <2>2. CASE Search!Grow
    <3>1. /\ Roots' = Roots /\ Edges' = Edges
          /\ code \subseteq code' /\ code' \subseteq code \cup Search!Image(code)
          /\ phase = "expand" /\ ~(phase' # "expand")
      BY <2>2 DEF Search!Grow, Edges
    <3>2. ASSUME NEW C \in SUBSET (Start .. End), Roots' \subseteq C, Search!Image(C)' \subseteq C
          PROVE  code' \subseteq C
      <4>1. code \subseteq C /\ Search!Image(C) \subseteq C
        BY <3>1, <3>2 DEF Search!LeastClosed, Search!Image, Edges
      <4>2. Search!Image(code) \subseteq Search!Image(C)
        BY <4>1 DEF Search!Image
      <4>3. QED
        BY <3>1, <4>1, <4>2
    <3>3. Search!LeastClosed'
      BY <3>1, <3>2 DEF Search!LeastClosed
    <3>4. Search!TypeOK'
      BY <2>1, <3>1 DEF Search!TypeOK, Edges
    <3>5. QED
      BY <3>1, <3>3, <3>4
  <2>3. CASE Search!Stop
    <3>1. /\ Roots' = Roots /\ Edges' = Edges /\ code' = code /\ Search!Image(code) \subseteq code
      BY <2>3 DEF Search!Stop, Edges
    <3>2. \A C : Search!Image(C)' = Search!Image(C)
      BY <3>1 DEF Search!Image, Edges
    <3>3. QED
      BY <3>1, <3>2 DEF Search!LeastClosed, Search!TypeOK, Edges
  <2>4. CASE UNCHANGED Search!vars
    <3>1. Roots' = Roots /\ Edges' = Edges /\ code' = code /\ (phase # "expand")' = (phase # "expand")
      BY <2>4 DEF Search!vars, Edges
    <3>2. \A C : Search!Image(C)' = Search!Image(C)
      BY <3>1 DEF Search!Image, Edges
    <3>3. QED
      BY <3>1, <3>2 DEF Search!LeastClosed, Search!TypeOK, Edges
  <2>5. QED
    BY <2>2, <2>3, <2>4 DEF Search!Next
<1>3. SearchInv => Search!LeastClosed
  OBVIOUS
<1>4. QED
  BY <1>1, <1>2, <1>3, PTL DEF Search!Spec

\* So the starts that expand_code_starts hands to classify are the least set
\* with the seeds in range that is closed under the successors, whatever order
\* its rounds visit them in.
THEOREM CodeIsLeastClosed == Spec => []Search!LeastClosed
BY ImplementsSearch, SearchIsLeastClosed, PTL
==============================================================================
