---------------------------- MODULE EmitWalk_proofs ----------------------------
(***************************************************************************)
(* For every image, classification and set of annotations: over an aligned *)
(* layout the walk writes the bytes of the image, once each and in order,  *)
(* and the segment rules, the code labels and the decoded stores stand     *)
(* where the rest of the listing takes them to be.  For every queue: the   *)
(* data directives assemble to its bytes.  For every straight piece: the   *)
(* names of its immediates mean what the processor does with them, and the *)
(* comment beside its branch is true when the branch is taken.             *)
(***************************************************************************)
EXTENDS EmitWalk, DataRuns, BranchText, SequenceTheorems, WellFoundedInduction, TLAPS

Shape ==
  /\ layout \in Layouts /\ pc \in Nat /\ Start <= pc
  /\ pending \in Seq(Nat) /\ out \in Seq(Nat)

\* The queue is the stretch from pending_start to pc, which may be empty.
Queued ==
  /\ pendingStart \in Nat /\ pendingStart <= pc
  /\ pending # <<>> => pending = Upto(pendingStart, pc)

\* What is written and queued is the image before pc, and pc is not inside an
\* instruction.
InOrder ==
  Aligned(layout) => pc <= End /\ pc \notin Consumed(layout) /\ out \o pending = Upto(Start, pc)

\* The rules written stand where their address is, and none is missing so far.
Bracketed ==
  Aligned(layout) =>
    /\ \A m \in marks : m[3] = m[2] - Start
    /\ \A a \in SegStarts(layout) \ Inside(layout) : a < pc => <<"header", a, a - Start>> \in marks
    /\ \A a \in SegEnds(layout) \ Inside(layout) : a <= pc => <<"footer", a, a - Start>> \in marks

\* The entries behind x, and the block that x is in.
Behind(l, x) == {e \in l.entry : e < x}
Enclosing(l, x) == IF Behind(l, x) = {} THEN None ELSE Max(Behind(l, x))

\* The labels before pc are defined, each where it is referred to, and the open
\* block is that of the last entry passed.
Scoped ==
  Aligned(layout) =>
    /\ \A d \in defs : d[2] = LabelBlock(layout, d[1])
    /\ {d[1] : d \in defs} = {p \in Instr(layout) : p < pc}
    /\ pc < End => block = Enclosing(layout, pc)

LoadsUncovered ==
  \A p \in layout.imm : p + 2 \notin DOMAIN layout.text \cup DOMAIN layout.runs

\* The load remembered is the instruction that ends at pc.
Remembered ==
  LoadsUncovered =>
    /\ prevImm # None => prevImm \in layout.imm /\ pc = prevImm + 2 /\ pending = <<>>
    /\ \A h \in hints : h[1] = h[2] + 2 /\ h[1] \notin layout.target

IInv == Shape /\ Queued /\ InOrder /\ Bracketed /\ Scoped /\ Remembered

-------------------------------------------------------------------------------

\* Upto lists q - p addresses from p on.
LEMMA UptoIs ==
  ASSUME NEW p \in Nat, NEW q \in Nat, p <= q
  PROVE  /\ Upto(p, q) \in Seq(Nat) /\ Len(Upto(p, q)) = q - p
         /\ \A i \in 1..(q - p) : Upto(p, q)[i] = p + i - 1
<1> DEFINE n == q - p
<1>1. n \in Nat  OBVIOUS
<1>2. Upto(p, q) = [i \in 1..n |-> p + i - 1]  BY DEF Upto
<1>3. \A i \in 1..n : p + i - 1 \in Nat  OBVIOUS
<1> HIDE DEF n
<1>4. Upto(p, q) \in [1..n -> Nat]  BY <1>2, <1>3
<1>5. Upto(p, q) \in Seq(Nat) /\ Len(Upto(p, q)) = n
      /\ \A i \in 1..n : Upto(p, q)[i] = p + i - 1
  BY <1>1, <1>2, <1>4
<1> QED  BY <1>5 DEF n

\* No addresses make an empty list.
LEMMA UptoNone == ASSUME NEW p \in Nat  PROVE Upto(p, p) = <<>>
BY UptoIs, EmptySeq

\* Neighbouring stretches make one.
LEMMA UptoJoins ==
  ASSUME NEW p \in Nat, NEW q \in Nat, NEW r \in Nat, p <= q, q <= r
  PROVE  Upto(p, q) \o Upto(q, r) = Upto(p, r)
<1> DEFINE s == Upto(p, q)  t == Upto(q, r)  u == Upto(p, r)
<1>1. /\ s \in Seq(Nat) /\ Len(s) = q - p /\ \A i \in 1..(q - p) : s[i] = p + i - 1
      /\ t \in Seq(Nat) /\ Len(t) = r - q /\ \A i \in 1..(r - q) : t[i] = q + i - 1
  BY UptoIs
<1>2. u \in Seq(Nat) /\ Len(u) = r - p /\ \A i \in 1..(r - p) : u[i] = p + i - 1
  <2>1. p <= r  OBVIOUS
  <2> QED  BY <2>1, UptoIs
<1> HIDE DEF s, t, u
<1>3. /\ s \o t \in Seq(Nat) /\ Len(s \o t) = Len(s) + Len(t)
      /\ \A i \in 1..(Len(s) + Len(t)) :
           (s \o t)[i] = IF i <= Len(s) THEN s[i] ELSE t[i - Len(s)]
  BY <1>1, ConcatProperties
<1>4. Len(s \o t) = Len(u) /\ Len(s) + Len(t) = r - p  BY <1>1, <1>2, <1>3
<1>5. \A i \in 1..(r - p) : (s \o t)[i] = p + i - 1
  <2> SUFFICES ASSUME NEW i \in 1..(r - p)  PROVE (s \o t)[i] = p + i - 1  OBVIOUS
  <2>1. (s \o t)[i] = IF i <= q - p THEN s[i] ELSE t[i - (q - p)]  BY <1>1, <1>3, <1>4
  <2>2. CASE i <= q - p
    <3>1. i \in 1..(q - p)  BY <2>2
    <3> QED  BY <2>1, <2>2, <3>1, <1>1
  <2>3. CASE ~(i <= q - p)
    <3>1. i - (q - p) \in 1..(r - q) /\ q + (i - (q - p)) - 1 = p + i - 1  BY <2>3
    <3> QED  BY <2>1, <2>3, <3>1, <1>1
  <2> QED  BY <2>2, <2>3
<1>6. s \o t = u  BY <1>2, <1>3, <1>4, <1>5, SeqEqual
<1> QED  BY <1>6 DEF s, t, u

\* Appending to the right part of a list is appending to the list.
LEMMA AppendJoins ==
  ASSUME NEW s \in Seq(Nat), NEW t \in Seq(Nat), NEW x \in Nat
  PROVE  s \o Append(t, x) = (s \o t) \o <<x>>
<1>1. \A u \in Seq(Nat) : s \o (t \o u) = (s \o t) \o u  BY ConcatAssociative
<1>2. <<x>> \in Seq(Nat)  OBVIOUS
<1>3. s \o (t \o <<x>>) = (s \o t) \o <<x>>  BY <1>1, <1>2, Zenon
<1> QED  BY <1>3, AppendIsConcat

\* A set of numbers has a least element.
LEMMA MinIs ==
  ASSUME NEW S \in SUBSET Nat, S # {}
  PROVE  Min(S) \in S /\ \A x \in S : Min(S) <= x
<1>1. \E x \in S : \A y \in S : ~ (<<y, x>> \in OpToRel(<, Nat))
  BY NatLessThanWellFounded, WFMin
<1>2. \E x \in S : \A y \in S : x <= y
  <2>1. PICK x \in S : \A y \in S : ~ (<<y, x>> \in OpToRel(<, Nat))  BY <1>1
  <2>2. \A y \in S : ~(y < x)  BY <2>1 DEF OpToRel
  <2>3. x \in Nat /\ \A y \in S : y \in Nat  OBVIOUS
  <2> QED  BY <2>2, <2>3
<1> QED  BY <1>2 DEF Min

\* A bounded set of numbers has a greatest element.
LEMMA MaxIs ==
  ASSUME NEW b \in Nat, NEW S \in SUBSET (0..b), S # {}
  PROVE  Max(S) \in S /\ \A x \in S : x <= Max(S)
<1> DEFINE T == {b - x : x \in S}
<1>1. T \in SUBSET Nat /\ T # {}
  <2>1. \A x \in S : x \in 0..b /\ b - x \in Nat  OBVIOUS
  <2> QED  BY <2>1
<1>2. Min(T) \in T /\ \A y \in T : Min(T) <= y  BY <1>1, MinIs
<1>3. PICK m \in S : Min(T) = b - m  BY <1>2
<1>4. \A x \in S : b - m <= b - x  BY <1>2, <1>3
<1>5. \A x \in S : m >= x  BY <1>4
<1>6. Max(S) \in S /\ \A x \in S : Max(S) >= x  BY <1>5 DEF Max
<1> QED  BY <1>6

-------------------------------------------------------------------------------

\* What the classification guarantees of a layout.
LEMMA LayoutIs ==
  ASSUME NEW l \in Layouts
  PROVE  /\ \A p \in Instr(l) : /\ p \in Nat /\ Start <= p /\ p < End
                                /\ l.len[p] \in Nat /\ l.len[p] > 0 /\ p + l.len[p] <= End
         /\ \A x : x \in Consumed(l) <=>
                    x \in Nat /\ \E p \in Instr(l) : p < x /\ x < p + l.len[p]
         /\ \A p, q \in Instr(l) : p < q => p + l.len[p] <= q
         /\ l.entry \subseteq Instr(l) /\ l.imm \subseteq {p \in Instr(l) : l.len[p] = 2}
<1>1. /\ l.len \in [Addr -> Nat] /\ \A p \in Instr(l) : p + l.len[p] <= End
      /\ Instr(l) \cap Consumed(l) = {}
      /\ l.entry \subseteq Instr(l) /\ l.imm \subseteq {p \in Instr(l) : l.len[p] = 2}
  BY LayoutsAssumption
<1>2. \A p \in Instr(l) : /\ p \in Nat /\ Start <= p /\ p < End
                          /\ l.len[p] \in Nat /\ l.len[p] > 0 /\ p + l.len[p] <= End
  BY <1>1, RangeAssumption DEF Instr, Addr
<1>3. \A x : x \in Consumed(l) <=> \E p \in Instr(l) : x \in p + 1 .. p + l.len[p] - 1
  BY DEF Consumed
<1>4. \A x, p : p \in Instr(l) =>
        (x \in p + 1 .. p + l.len[p] - 1 <=> x \in Nat /\ p < x /\ x < p + l.len[p])
  <2> SUFFICES ASSUME NEW p \in Instr(l), NEW x
      PROVE x \in p + 1 .. p + l.len[p] - 1 <=> x \in Nat /\ p < x /\ x < p + l.len[p]
    OBVIOUS
  <2>1. p \in Nat /\ l.len[p] \in Nat  BY <1>2
  <2> QED  BY <2>1
<1>5. \A x : x \in Consumed(l) <=>
              x \in Nat /\ \E p \in Instr(l) : p < x /\ x < p + l.len[p]
  BY <1>3, <1>4
<1>6. \A p, q \in Instr(l) : p < q => p + l.len[p] <= q
  <2> SUFFICES ASSUME NEW p \in Instr(l), NEW q \in Instr(l), p < q, ~(p + l.len[p] <= q)
      PROVE FALSE  OBVIOUS
  <2>1. q \in Nat /\ p < q /\ q < p + l.len[p]  BY <1>2
  <2>2. q \in Consumed(l)  BY <1>5, <2>1
  <2> QED  BY <1>1, <2>2
<1> QED  BY <1>1, <1>2, <1>5, <1>6

\* A stretch that starts outside every instruction and ends none of its own
\* beyond its end, ends outside every instruction.
LEMMA StepOver ==
  ASSUME NEW l \in Layouts, NEW x \in Nat, NEW y \in Nat, x < y, x \notin Consumed(l),
         \A p \in Instr(l) : x <= p /\ p < y => p + l.len[p] <= y
  PROVE  y \notin Consumed(l)
<1> SUFFICES ASSUME NEW p \in Instr(l), p < y, y < p + l.len[p]  PROVE FALSE
  BY LayoutIs
<1>1. p \in Nat /\ l.len[p] \in Nat  BY LayoutIs
<1>2. CASE x <= p  BY <1>1, <1>2
<1>3. CASE p < x
  <2>1. x < p + l.len[p]  BY <1>1
  <2> QED  BY <1>3, <2>1, LayoutIs
<1> QED  BY <1>1, <1>2, <1>3

\* A declared run steps over data only, and ends outside every instruction.
LEMMA DeclaredSpan ==
  ASSUME NEW l \in Layouts, Aligned(l), NEW a \in Nat, NEW n \in Nat, <<a, n>> \in Declared(l),
         a \notin Consumed(l)
  PROVE  /\ n > 0 /\ a + n <= End /\ a + n \notin Consumed(l)
         /\ \A p \in Instr(l) : ~(a <= p /\ p < a + n)
         /\ \A x \in Nat : a < x /\ x < a + n => x \in Inside(l)
<1>1. n > 0 /\ a + n <= End /\ (a .. a + n - 1) \cap Instr(l) = {}
  BY DEF Aligned
<1>2. \A p \in Instr(l) : ~(a <= p /\ p < a + n)
  <2>1. \A p \in Nat : a <= p /\ p < a + n => p \in a .. a + n - 1  OBVIOUS
  <2> QED  BY <1>1, <2>1, LayoutIs
<1>3. a + n \notin Consumed(l)
  <2>1. a + n \in Nat /\ a < a + n  BY <1>1
  <2> QED  BY <1>2, <2>1, StepOver
<1>4. \A x \in Nat : a < x /\ x < a + n => x \in Inside(l)
  <2>1. \A x \in Nat : a < x /\ x < a + n => x \in a + 1 .. a + n - 1  OBVIOUS
  <2>2. a + 1 .. a + n - 1 \in {d[1] + 1 .. d[1] + d[2] - 1 : d \in Declared(l)}  OBVIOUS
  <2> QED  BY <2>1, <2>2 DEF Inside
<1> QED  BY <1>1, <1>2, <1>3, <1>4

\* An instruction steps over its own bytes only.
LEMMA InstructionSpan ==
  ASSUME NEW l \in Layouts, NEW p \in Instr(l)
  PROVE  /\ p + l.len[p] \notin Consumed(l)
         /\ \A q \in Instr(l) : p <= q /\ q < p + l.len[p] => q = p
         /\ \A x \in Nat : p < x /\ x < p + l.len[p] => x \in Inside(l)
<1>1. p \in Nat /\ l.len[p] \in Nat /\ l.len[p] > 0  BY LayoutIs
<1>2. \A q \in Instr(l) : p <= q /\ q < p + l.len[p] => q = p
  <2> SUFFICES ASSUME NEW q \in Instr(l), p <= q, q < p + l.len[p], p # q  PROVE FALSE
    OBVIOUS
  <2>1. q \in Nat /\ p < q => p + l.len[p] <= q  BY LayoutIs
  <2>2. q \in Nat  BY LayoutIs
  <2> QED  BY <1>1, <2>1, <2>2
<1>3. p + l.len[p] \notin Consumed(l)
  <2> SUFFICES ASSUME NEW q \in Instr(l), q < p + l.len[p], p + l.len[p] < q + l.len[q]
      PROVE FALSE
    BY LayoutIs
  <2>1. q \in Nat /\ l.len[q] \in Nat  BY LayoutIs
  <2>2. CASE p <= q  BY <1>1, <1>2, <2>1, <2>2
  <2>3. CASE q < p
    <3>1. q + l.len[q] <= p  BY <2>3, LayoutIs
    <3> QED  BY <3>1, <1>1, <2>1
  <2> QED  BY <1>1, <2>1, <2>2, <2>3
<1>4. \A x \in Nat : p < x /\ x < p + l.len[p] => x \in Inside(l)
  BY LayoutIs DEF Inside
<1> QED  BY <1>2, <1>3, <1>4

\* A data byte is followed by no operand.
LEMMA DataSpan ==
  ASSUME NEW l \in Layouts, NEW x \in Nat, x \notin Instr(l) \cup Consumed(l)
  PROVE  x + 1 \notin Consumed(l) /\ \A p \in Instr(l) : ~(x <= p /\ p < x + 1)
<1>1. \A p \in Instr(l) : ~(x <= p /\ p < x + 1)
  <2>1. \A p \in Nat : x <= p /\ p < x + 1 => p = x  OBVIOUS
  <2> QED  BY <2>1, LayoutIs
<1>2. x + 1 \in Nat /\ x < x + 1  OBVIOUS
<1> QED  BY <1>1, <1>2, StepOver

-------------------------------------------------------------------------------

\* What an iteration that ends at `next` has written and queued.
LEMMA WrittenIs ==
  ASSUME Shape, InOrder, NEW next \in Nat, pc <= next
  PROVE  /\ Written(next) \in Seq(Nat)
         /\ Aligned(layout) => Written(next) = Upto(Start, next)
<1>1. Upto(pc, next) \in Seq(Nat)  BY UptoIs DEF Shape
<1>2. out \o pending \in Seq(Nat)  BY ConcatProperties DEF Shape
<1>3. Written(next) = (out \o pending) \o Upto(pc, next)
  BY <1>1, ConcatAssociative DEF Shape, Written
<1>4. Written(next) \in Seq(Nat)  BY <1>1, <1>2, <1>3, ConcatProperties
<1>5. ASSUME Aligned(layout)  PROVE Written(next) = Upto(Start, next)
  <2>1. out \o pending = Upto(Start, pc)  BY <1>5 DEF InOrder
  <2>2. Upto(Start, pc) \o Upto(pc, next) = Upto(Start, next)
    BY UptoJoins, RangeAssumption DEF Shape
  <2> QED  BY <1>3, <2>1, <2>2
<1> QED  BY <1>4, <1>5

\* What is read off a layout stays with it.
LEMMA LayoutFixed ==
  ASSUME layout' = layout
  PROVE  /\ Aligned(layout)' = Aligned(layout) /\ Inside(layout)' = Inside(layout)
         /\ Consumed(layout)' = Consumed(layout) /\ Instr(layout)' = Instr(layout)
         /\ SegStarts(layout)' = SegStarts(layout) /\ SegEnds(layout)' = SegEnds(layout)
         /\ LoadsUncovered' = LoadsUncovered
         /\ \A p : LabelBlock(layout, p)' = LabelBlock(layout, p)
         /\ \A p : Enclosing(layout, p)' = Enclosing(layout, p)
BY DEF LoadsUncovered

\* The rules an iteration writes stand where their address is.
LEMMA RulesAdvance ==
  ASSUME IInv, Aligned(layout), NEW next \in Nat, pc < next, next <= End,
         \A x \in Nat : pc < x /\ x < next => x \in Inside(layout),
         layout' = layout, pc' = next,
         next \in SegEnds(layout) => out' = Upto(Start, next),
         marks' = marks \cup Header \cup Footer(next, out')
  PROVE  Bracketed'
<1> USE DEF IInv
<1>1. pc \in Nat /\ Start \in Nat /\ Start <= pc /\ pc < End  BY RangeAssumption DEF Shape
<1>2. Len(out \o pending) = pc - Start  BY <1>1, UptoIs DEF InOrder
<1>3. Header = IF pc \in SegStarts(layout) THEN {<<"header", pc, pc - Start>>} ELSE {}
  BY <1>2 DEF Header
<1>4. Footer(next, out') = IF next \in SegEnds(layout) THEN {<<"footer", next, next - Start>>} ELSE {}
  <2>1. Len(Upto(Start, next)) = next - Start  BY <1>1, UptoIs
  <2> QED  BY <2>1 DEF Footer
<1>5. \A m \in marks' : m[3] = m[2] - Start  BY <1>3, <1>4 DEF Bracketed
<1>6. ASSUME NEW a \in SegStarts(layout) \ Inside(layout), a < next
      PROVE  <<"header", a, a - Start>> \in marks'
  <2>1. a \in Nat  BY <1>1 DEF SegStarts, Addr
  <2>2. a < pc \/ a = pc  BY <1>1, <1>6, <2>1
  <2> QED  BY <2>2, <1>3, <1>6 DEF Bracketed
<1>7. ASSUME NEW a \in SegEnds(layout) \ Inside(layout), a <= next
      PROVE  <<"footer", a, a - Start>> \in marks'
  <2>1. a \in Nat  BY <1>1 DEF SegEnds
  <2>2. a <= pc \/ a = next  BY <1>1, <1>7, <2>1
  <2> QED  BY <2>2, <1>4, <1>7 DEF Bracketed
<1> QED  BY <1>5, <1>6, <1>7, LayoutFixed DEF Bracketed

\* An iteration that passes no instruction leaves the labels as they are.
LEMMA ScopeStands ==
  ASSUME IInv, NEW next \in Nat, pc < next, pc < End,
         Aligned(layout) => \A p \in Instr(layout) : ~(pc <= p /\ p < next),
         layout' = layout, pc' = next, defs' = defs, block' = block
  PROVE  Scoped'
<1> SUFFICES ASSUME Aligned(layout)  PROVE Scoped'  BY LayoutFixed DEF Scoped
<1>1. layout \in Layouts /\ pc \in Nat  BY DEF IInv, Shape
<1>2. \A p \in Instr(layout) : p < next <=> p < pc
  <2>1. \A p \in Instr(layout) : p \in Nat  BY <1>1, LayoutIs
  <2> QED  BY <1>1, <2>1
<1>3. {p \in Instr(layout) : p < next} = {p \in Instr(layout) : p < pc}  BY <1>2
<1>4. Behind(layout, next) = Behind(layout, pc)
  <2>1. layout.entry \subseteq Instr(layout)  BY <1>1, LayoutIs
  <2> QED  BY <1>2, <2>1 DEF Behind
<1>5. Enclosing(layout, next) = Enclosing(layout, pc)  BY <1>4 DEF Enclosing
<1>6. Enclosing(layout, pc)' = Enclosing(layout, next)  BY DEF Enclosing, Behind
<1>7. (\A d \in defs : d[2] = LabelBlock(layout, d[1]))'  BY LayoutFixed DEF IInv, Scoped
<1>8. {d[1] : d \in defs} = {p \in Instr(layout) : p < pc} /\ block = Enclosing(layout, pc)
  BY DEF IInv, Scoped
<1> QED  BY <1>3, <1>5, <1>6, <1>7, <1>8, LayoutFixed DEF Scoped

\* The load remembered ends where no other instruction continues.
LEMMA LoadEnds ==
  ASSUME IInv, LoadsUncovered, prevImm # None
  PROVE  pc \notin Consumed(layout) /\ pc \notin DOMAIN layout.text \cup DOMAIN layout.runs
<1>1. layout \in Layouts /\ prevImm \in layout.imm /\ pc = prevImm + 2
  BY DEF IInv, Shape, Remembered
<1>2. prevImm \in Instr(layout) /\ layout.len[prevImm] = 2  BY <1>1, LayoutIs
<1> QED  BY <1>1, <1>2, InstructionSpan DEF LoadsUncovered

-------------------------------------------------------------------------------

\* The walk begins with everything that is to be kept.
LEMMA InitKeeps == ASSUME Init  PROVE IInv
<1>1. layout \in Layouts /\ pc = Start /\ Start \in Nat  BY RangeAssumption DEF Init
<1>2. Shape  BY <1>1, EmptySeq DEF Init, Shape
<1>3. Queued  BY <1>1 DEF Init, Queued
<1>4. \A p \in Instr(layout) : p \in Nat /\ Start <= p  BY <1>1, LayoutIs
<1>5. InOrder
  <2>1. pc \notin Consumed(layout)
    <3>1. \A p \in Instr(layout) : ~(p < Start)  BY <1>1, <1>4
    <3> QED  BY <1>1, <3>1, LayoutIs
  <2>2. out \o pending = <<>> /\ Upto(Start, Start) = <<>>
    BY <1>1, UptoNone, EmptySeq, ConcatEmptySeq DEF Init
  <2> QED  BY <1>1, <2>1, <2>2, RangeAssumption DEF InOrder
<1>6. Bracketed
  <2>1. \A a \in SegStarts(layout) : ~(a < pc)  BY <1>1 DEF SegStarts, Addr
  <2>2. \A a \in SegEnds(layout) : ~(a <= pc)  BY <1>1, RangeAssumption DEF SegEnds
  <2> QED  BY <2>1, <2>2 DEF Init, Bracketed
<1>7. Scoped
  <2>1. \A p \in Instr(layout) : ~(p < pc)  BY <1>1, <1>4
  <2>2. Behind(layout, pc) = {}
    <3>1. layout.entry \subseteq Instr(layout)  BY <1>1, LayoutIs
    <3> QED  BY <2>1, <3>1 DEF Behind
  <2>3. block = Enclosing(layout, pc)  BY <2>2 DEF Init, Enclosing
  <2> QED  BY <2>1, <2>3 DEF Init, Scoped
<1>8. Remembered  BY DEF Init, Remembered
<1> QED  BY <1>2, <1>3, <1>5, <1>6, <1>7, <1>8 DEF IInv

\* A declared text or byte run keeps the invariant.
LEMMA DeclaredKeeps ==
  ASSUME IInv, NEW n \in Nat, <<pc, n>> \in Declared(layout), pc < End,
         pc \in DOMAIN layout.text \cup DOMAIN layout.runs, EmitDeclared(n)
  PROVE  IInv'
<1> USE DEF IInv
<1>1. /\ layout' = layout /\ pc' = pc + n /\ pendingStart' = pc + n
      /\ pending' = <<>> /\ out' = Written(pc + n)
      /\ UNCHANGED <<block, defs, prevImm, hints>>
  BY DEF EmitDeclared
<1>2. layout \in Layouts /\ pc \in Nat /\ pc + n \in Nat /\ pc <= pc + n /\ Start \in Nat
  BY RangeAssumption DEF Shape
<1>3. /\ out' \in Seq(Nat) /\ out' \o pending' = out'
      /\ Aligned(layout) => out' = Upto(Start, pc + n)
  BY <1>1, <1>2, WrittenIs, ConcatEmptySeq
<1>4. Aligned(layout) =>
        /\ pc < pc + n /\ pc + n <= End /\ pc + n \notin Consumed(layout)
        /\ \A p \in Instr(layout) : ~(pc <= p /\ p < pc + n)
        /\ \A x \in Nat : pc < x /\ x < pc + n => x \in Inside(layout)
  BY <1>2, DeclaredSpan DEF InOrder
<1>5. Shape'  BY <1>1, <1>2, <1>3, EmptySeq DEF Shape
<1>6. Queued'  BY <1>1, <1>2 DEF Queued
<1>7. InOrder'  BY <1>1, <1>3, <1>4, LayoutFixed DEF InOrder
<1>8. Bracketed'
  <2> SUFFICES ASSUME Aligned(layout)  PROVE Bracketed'  BY <1>1, LayoutFixed DEF Bracketed
  <2>1. marks' = marks \cup Header \cup Footer(pc + n, out')  BY DEF EmitDeclared
  <2> QED  BY <1>1, <1>2, <1>3, <1>4, <2>1, RulesAdvance
<1>9. Scoped'
  <2> SUFFICES ASSUME Aligned(layout)  PROVE Scoped'  BY <1>1, LayoutFixed DEF Scoped
  <2> QED  BY <1>1, <1>2, <1>4, ScopeStands
<1>10. Remembered'
  <2> SUFFICES ASSUME LoadsUncovered  PROVE Remembered'
    BY <1>1, LayoutFixed DEF Remembered
  <2>1. prevImm = None  BY LoadEnds
  <2> QED  BY <1>1, <2>1, LayoutFixed DEF Remembered
<1> QED  BY <1>5, <1>6, <1>7, <1>8, <1>9, <1>10

\* The scope an instruction's label is defined in is the one it is referred to.
LEMMA LabelPlaced ==
  ASSUME NEW l \in Layouts, NEW p \in Instr(l), NEW b, b = Enclosing(l, p)
  PROVE  (IF b # None /\ p >= BlockEnd(l, b) THEN None ELSE b) = LabelBlock(l, p)
<1>1. p \in Nat /\ p < End /\ End \in Nat  BY LayoutIs, RangeAssumption
<1>2. l.entry \subseteq Nat  BY LayoutIs
<1> DEFINE after == {q \in l.entry : q > b} \cup {End}
           upto  == {e \in l.entry : e <= p}
<1>3. CASE Behind(l, p) = {}
  <2>1. b = None  BY <1>3 DEF Enclosing
  <2>2. p \in l.entry \/ upto = {}
    <3>1. \A e \in upto : e = p  BY <1>1, <1>2, <1>3 DEF Behind
    <3> QED  BY <3>1
  <2> QED  BY <2>1, <2>2 DEF LabelBlock
<1>4. CASE Behind(l, p) # {}
  <2>1. Behind(l, p) \in SUBSET (0..p)  BY <1>1, <1>2 DEF Behind
  <2>2. b \in Behind(l, p) /\ \A e \in Behind(l, p) : e <= b
    BY <1>1, <1>4, <2>1, MaxIs DEF Enclosing
  <2>3. b \in Nat /\ b \in l.entry /\ b < p /\ b # None
    BY <1>2, <2>2 DEF Behind, None
  <2>4. after \in SUBSET Nat /\ after # {}  BY <1>1, <1>2
  <2>5. Min(after) \in after /\ \A q \in after : Min(after) <= q  BY <2>4, MinIs
  <2>6. BlockEnd(l, b) = Min(after)  BY DEF BlockEnd
  <2>7. CASE p \in l.entry
    <3>1. p \in after  BY <1>1, <2>3, <2>7
    <3>2. p >= BlockEnd(l, b)  BY <1>1, <2>4, <2>5, <2>6, <3>1
    <3> QED  BY <2>3, <2>7, <3>2 DEF LabelBlock
  <2>8. CASE p \notin l.entry
    <3>1. \A q \in after : q > p
      <4>1. \A q \in l.entry : q > b => q > p  BY <1>1, <1>2, <2>2, <2>8 DEF Behind
      <4> QED  BY <1>1, <4>1
    <3>2. ~(p >= BlockEnd(l, b))  BY <1>1, <2>4, <2>5, <2>6, <3>1
    <3>3. upto = Behind(l, p)  BY <1>1, <1>2, <2>8 DEF Behind
    <3>4. LabelBlock(l, p) = Max(upto)  BY <1>4, <2>8, <3>3 DEF LabelBlock
    <3> QED  BY <1>4, <3>2, <3>3, <3>4 DEF Enclosing
  <2> QED  BY <2>7, <2>8
<1> QED  BY <1>3, <1>4

\* The block open behind an instruction is that of the last entry passed.
LEMMA BlockPassed ==
  ASSUME NEW l \in Layouts, NEW p \in Instr(l)
  PROVE  (IF p \in l.entry THEN p ELSE LabelBlock(l, p)) = Enclosing(l, p + l.len[p])
<1> DEFINE next == p + l.len[p]
<1>1. p \in Nat /\ next \in Nat /\ p < next  BY LayoutIs
<1>2. \A e \in l.entry : e \in Nat /\ (e < next <=> e <= p)
  <2> SUFFICES ASSUME NEW e \in l.entry  PROVE e \in Nat /\ (e < next <=> e <= p)  OBVIOUS
  <2>1. e \in Instr(l) /\ e \in Nat  BY LayoutIs
  <2>2. p <= e /\ e < next => e = p  BY <2>1, InstructionSpan
  <2> QED  BY <1>1, <2>1, <2>2
<1>3. Behind(l, next) = {e \in l.entry : e <= p}  BY <1>2 DEF Behind
<1>4. CASE p \in l.entry
  <2>1. Behind(l, next) \in SUBSET (0..p) /\ p \in Behind(l, next)  BY <1>1, <1>2, <1>3, <1>4
  <2>2. Max(Behind(l, next)) \in 0..p /\ p <= Max(Behind(l, next))  BY <1>1, <2>1, MaxIs
  <2>3. Max(Behind(l, next)) = p  BY <1>1, <2>2
  <2> QED  BY <1>4, <2>1, <2>3 DEF Enclosing
<1>5. CASE p \notin l.entry  BY <1>3, <1>5 DEF Enclosing, LabelBlock
<1> QED  BY <1>4, <1>5

\* So does an instruction, which closes and opens blocks.
LEMMA InstructionKeeps == ASSUME IInv, EmitInstruction  PROVE IInv'
<1> USE DEF IInv
<1> DEFINE next   == pc + layout.len[pc]
           closed == IF block # None /\ pc >= BlockEnd(layout, block) THEN None ELSE block
<1>1. /\ layout' = layout /\ pc' = next /\ pendingStart' = next
      /\ pending' = <<>> /\ out' = Written(next)
      /\ pc < End /\ pc \in Instr(layout)
      /\ block' = (IF pc \in layout.entry THEN pc ELSE closed)
      /\ defs' = defs \cup {<<pc, closed>>}
      /\ hints' = (IF pc \notin layout.imm /\ Loaded # None
                    THEN hints \cup {<<pc, Loaded>>} ELSE hints)
      /\ prevImm' = (IF pc \in layout.imm THEN pc ELSE None)
      /\ marks' = marks \cup Header \cup Footer(next, out')
  BY DEF EmitInstruction, AtPlainByte
<1>2. /\ layout \in Layouts /\ pc \in Nat /\ next \in Nat /\ pc < next /\ next <= End
      /\ Start \in Nat /\ Start <= pc
  BY <1>1, LayoutIs, RangeAssumption DEF Shape
<1>3. /\ out' \in Seq(Nat) /\ out' \o pending' = out'
      /\ Aligned(layout) => out' = Upto(Start, next)
  BY <1>1, <1>2, WrittenIs, ConcatEmptySeq
<1>4. /\ next \notin Consumed(layout)
      /\ \A q \in Instr(layout) : pc <= q /\ q < next => q = pc
      /\ \A x \in Nat : pc < x /\ x < next => x \in Inside(layout)
  BY <1>1, <1>2, InstructionSpan
<1> HIDE DEF next, closed
<1>5. Shape'  BY <1>1, <1>2, <1>3, EmptySeq DEF Shape
<1>6. Queued'  BY <1>1, <1>2 DEF Queued
<1>7. InOrder'  BY <1>1, <1>2, <1>3, <1>4, LayoutFixed DEF InOrder
<1>8. Bracketed'
  <2> SUFFICES ASSUME Aligned(layout)  PROVE Bracketed'  BY <1>1, LayoutFixed DEF Bracketed
  <2> QED  BY <1>1, <1>2, <1>3, <1>4, RulesAdvance
<1>9. Scoped'
  <2> SUFFICES ASSUME Aligned(layout)  PROVE Scoped'  BY <1>1, LayoutFixed DEF Scoped
  <2>1. block = Enclosing(layout, pc)  BY <1>1 DEF Scoped
  <2>2. closed = LabelBlock(layout, pc)  BY <1>1, <1>2, <2>1, LabelPlaced DEF closed
  <2>3. \A d \in defs' : d[2] = LabelBlock(layout, d[1])  BY <1>1, <2>2 DEF Scoped
  <2>4. {d[1] : d \in defs'} = {p \in Instr(layout) : p < next}
    <3>1. {d[1] : d \in defs'} = {d[1] : d \in defs} \cup {pc}
      <4>1. <<pc, closed>>[1] = pc  OBVIOUS
      <4>2. \A d : d \in defs' <=> d \in defs \/ d = <<pc, closed>>  BY <1>1
      <4>3. {d[1] : d \in defs'} \subseteq {d[1] : d \in defs} \cup {pc}  BY <4>1, <4>2
      <4>4. {d[1] : d \in defs} \cup {pc} \subseteq {d[1] : d \in defs'}  BY <4>1, <4>2
      <4> QED  BY <4>3, <4>4
    <3>2. \A p \in Instr(layout) : p < next <=> p < pc \/ p = pc
      <4>1. \A p \in Instr(layout) : p \in Nat  BY <1>2, LayoutIs
      <4> QED  BY <1>2, <1>4, <4>1
    <3>3. {d[1] : d \in defs} = {p \in Instr(layout) : p < pc}  BY DEF Scoped
    <3> QED  BY <1>1, <3>1, <3>2, <3>3
  <2>5. block' = Enclosing(layout, next)  BY <1>1, <1>2, <2>2, BlockPassed DEF next
  <2>6. Enclosing(layout, pc)' = Enclosing(layout, next)  BY <1>1 DEF Enclosing, Behind
  <2>7. (\A d \in defs : d[2] = LabelBlock(layout, d[1]))'  BY <1>1, <2>3, LayoutFixed
  <2> QED  BY <1>1, <2>4, <2>5, <2>6, <2>7, LayoutFixed DEF Scoped
<1>10. Remembered'
  <2> SUFFICES ASSUME LoadsUncovered  PROVE Remembered'
    BY <1>1, LayoutFixed DEF Remembered
  <2>1. prevImm' # None => prevImm' \in layout.imm /\ pc' = prevImm' + 2 /\ pending' = <<>>
    <3>1. pc \in layout.imm => layout.len[pc] = 2  BY <1>2, LayoutIs
    <3> QED  BY <1>1, <3>1 DEF next
  <2>2. Loaded # None => pc = Loaded + 2 /\ pc \notin layout.target
    BY DEF Loaded, Remembered
  <2>3. \A h \in hints' : h[1] = h[2] + 2 /\ h[1] \notin layout.target
    BY <1>1, <2>2 DEF Remembered
  <2> QED  BY <1>1, <2>1, <2>3 DEF Remembered
<1> QED  BY <1>5, <1>6, <1>7, <1>8, <1>9, <1>10

\* Over an aligned layout the walk never meets a consumed byte.
LEMMA SkipKeeps == ASSUME IInv, SkipConsumed  PROVE IInv'
<1> USE DEF IInv
<1>1. /\ layout' = layout /\ pc' = pc + 1 /\ pendingStart' = pc + 1
      /\ pending' = <<>> /\ out' = out \o pending /\ pc \in Consumed(layout)
      /\ UNCHANGED <<defs, block, prevImm, hints>>
  BY DEF SkipConsumed
<1>2. ~Aligned(layout)  BY <1>1 DEF InOrder
<1>3. Shape'  BY <1>1, ConcatProperties, EmptySeq, RangeAssumption DEF Shape
<1>4. Queued'  BY <1>1, <1>3 DEF Queued, Shape
<1>5. InOrder' /\ Bracketed' /\ Scoped'
  BY <1>1, <1>2, LayoutFixed DEF InOrder, Bracketed, Scoped
<1>6. Remembered'
  <2> SUFFICES ASSUME LoadsUncovered  PROVE Remembered'
    BY <1>1, LayoutFixed DEF Remembered
  <2>1. prevImm = None  BY <1>1, LoadEnds
  <2> QED  BY <1>1, <2>1, LayoutFixed DEF Remembered
<1> QED  BY <1>3, <1>4, <1>5, <1>6

\* A queued byte ends the list of bytes, wherever the queue is cut.
LEMMA QueueKeeps == ASSUME IInv, QueueData  PROVE IInv'
<1> USE DEF IInv
<1> DEFINE flushed == IF pc \in SegStarts(layout) THEN out \o pending ELSE out
           held    == IF pc \in SegStarts(layout) THEN <<>> ELSE pending
           ends    == pc + 1 \in SegEnds(layout)
<1>1. /\ layout' = layout /\ pc' = pc + 1 /\ pc < End
      /\ pc \notin Instr(layout) \cup Consumed(layout)
      /\ out' = (IF ends THEN flushed \o Append(held, pc) ELSE flushed)
      /\ pending' = (IF ends THEN <<>> ELSE Append(held, pc))
      /\ pendingStart' = (IF ends THEN pc + 1 ELSE StartOf(held))
      /\ prevImm' = (IF held = <<>> THEN None ELSE prevImm)
      /\ marks' = marks \cup Header \cup Footer(pc + 1, out')
      /\ UNCHANGED <<block, defs, hints>>
  BY DEF QueueData, AtPlainByte
<1>2. layout \in Layouts /\ pc \in Nat /\ pc + 1 \in Nat /\ Start \in Nat /\ Start <= pc
  BY RangeAssumption DEF Shape
<1>3. /\ flushed \in Seq(Nat) /\ held \in Seq(Nat) /\ flushed \o held = out \o pending
  BY ConcatProperties, ConcatEmptySeq, EmptySeq DEF Shape
<1>4. held # <<>> => held = pending /\ held = Upto(pendingStart, pc)  BY DEF Queued
<1> HIDE DEF flushed, held, ends
<1>5. /\ Append(held, pc) \in Seq(Nat) /\ Append(held, pc) = held \o <<pc>>
      /\ Append(held, pc) # <<>>
  BY <1>2, <1>3, AppendProperties, AppendIsConcat
<1>6. Upto(pc, pc + 1) = <<pc>>
  <2>1. /\ Upto(pc, pc + 1) \in Seq(Nat) /\ Len(Upto(pc, pc + 1)) = 1
        /\ \A i \in 1..1 : Upto(pc, pc + 1)[i] = pc
    <3> DEFINE next == pc + 1
    <3>1. next \in Nat /\ pc <= next /\ next - pc = 1 /\ \A i \in 1..1 : pc + i - 1 = pc
      BY <1>2
    <3> HIDE DEF next
    <3>2. /\ Upto(pc, next) \in Seq(Nat) /\ Len(Upto(pc, next)) = next - pc
          /\ \A i \in 1..(next - pc) : Upto(pc, next)[i] = pc + i - 1
      BY <1>2, <3>1, UptoIs
    <3>3. /\ Upto(pc, next) \in Seq(Nat) /\ Len(Upto(pc, next)) = 1
          /\ \A i \in 1..1 : Upto(pc, next)[i] = pc
      BY <3>1, <3>2
    <3> QED  BY <3>3 DEF next
  <2>2. <<pc>> \in Seq(Nat) /\ Len(<<pc>>) = 1 /\ \A i \in 1..1 : <<pc>>[i] = pc  BY <1>2
  <2> QED  BY <2>1, <2>2, SeqEqual
<1>7. out' \o pending' = (out \o pending) \o <<pc>>
  <2>1. flushed \o Append(held, pc) = (flushed \o held) \o <<pc>>
    BY <1>2, <1>3, AppendJoins
  <2>2. flushed \o Append(held, pc) \in Seq(Nat)  BY <1>3, <1>5, ConcatProperties
  <2> QED  BY <1>1, <1>3, <2>1, <2>2, ConcatEmptySeq
<1>8. /\ pc + 1 \notin Consumed(layout)
      /\ \A p \in Instr(layout) : ~(pc <= p /\ p < pc + 1)
  BY <1>1, <1>2, DataSpan
<1>9. Shape'
  BY <1>1, <1>2, <1>3, <1>5, ConcatProperties, EmptySeq DEF Shape
<1>10. Queued'
  <2>1. CASE ends  BY <1>1, <1>2, <2>1 DEF Queued
  <2>2. CASE ~ends /\ held = <<>>
    <3>1. pending' = <<pc>> /\ pendingStart' = pc
      BY <1>1, <1>2, <1>5, <2>2, ConcatEmptySeq DEF StartOf
    <3>2. pending' = Upto(pendingStart', pc')  BY <1>1, <1>6, <3>1
    <3>3. pendingStart' \in Nat /\ pendingStart' <= pc'  BY <1>1, <1>2, <3>1
    <3> QED  BY <3>2, <3>3 DEF Queued, Upto
  <2>3. CASE ~ends /\ held # <<>>
    <3>1. pendingStart \in Nat /\ pendingStart <= pc /\ pc <= pc + 1  BY <1>2 DEF Queued
    <3>2. pending' = Upto(pendingStart, pc) \o Upto(pc, pc + 1) /\ pendingStart' = pendingStart
      BY <1>1, <1>4, <1>5, <1>6, <2>3 DEF StartOf
    <3>3. pending' = Upto(pendingStart, pc + 1)  BY <1>2, <3>1, <3>2, UptoJoins
    <3> QED  BY <1>1, <1>2, <3>1, <3>2, <3>3 DEF Queued
  <2> QED  BY <2>1, <2>2, <2>3
<1>11. Aligned(layout) => out' \o pending' = Upto(Start, pc + 1)
  <2>1. pc <= pc + 1  BY <1>2
  <2>2. Upto(Start, pc) \o Upto(pc, pc + 1) = Upto(Start, pc + 1)
    BY <1>2, <2>1, UptoJoins
  <2> QED  BY <1>6, <1>7, <2>2 DEF InOrder
<1>12. InOrder'
  <2>1. pc + 1 <= End  BY <1>1, <1>2, RangeAssumption
  <2> QED  BY <1>1, <1>8, <1>11, <2>1, LayoutFixed DEF InOrder
<1>13. Bracketed'
  <2> SUFFICES ASSUME Aligned(layout)  PROVE Bracketed'  BY <1>1, LayoutFixed DEF Bracketed
  <2>1. pc + 1 \in SegEnds(layout) => out' = Upto(Start, pc + 1)
    BY <1>1, <1>9, <1>11, ConcatEmptySeq DEF ends, Shape
  <2>2. pc < pc + 1 /\ pc + 1 <= End /\ \A x \in Nat : ~(pc < x /\ x < pc + 1)
    BY <1>1, <1>2, RangeAssumption
  <2> QED  BY <1>1, <1>2, <2>1, <2>2, RulesAdvance
<1>14. Scoped'
  <2>1. pc < pc + 1  BY <1>2
  <2> QED  BY <1>1, <1>2, <1>8, <2>1, ScopeStands
<1>15. Remembered'
  <2> SUFFICES ASSUME LoadsUncovered  PROVE Remembered'
    BY <1>1, LayoutFixed DEF Remembered
  <2>1. prevImm' = None
    <3>1. prevImm # None => pending = <<>>  BY DEF Remembered
    <3> QED  BY <1>1, <1>4, <3>1
  <2> QED  BY <1>1, <2>1, LayoutFixed DEF Remembered
<1> QED  BY <1>9, <1>10, <1>12, <1>13, <1>14, <1>15

\* The last flush moves the queue, and the last .bend closes the block.
LEMMA FinishKeeps == ASSUME IInv, Finish  PROVE IInv'
<1> USE DEF IInv
<1>1. /\ pc >= End /\ out' = out \o pending /\ pending' = <<>>
      /\ UNCHANGED <<layout, pc, pendingStart, marks, defs, prevImm, hints>>
  BY DEF Finish
<1>2. out' \in Seq(Nat) /\ out' \o pending' = out \o pending
  BY <1>1, ConcatProperties, ConcatEmptySeq DEF Shape
<1>3. Shape'  BY <1>1, <1>2, EmptySeq DEF Shape
<1>4. Queued'  BY <1>1 DEF Queued
<1>5. InOrder'  BY <1>1, <1>2, LayoutFixed DEF InOrder
<1>6. Bracketed'  BY <1>1, LayoutFixed DEF Bracketed
<1>7. Scoped'
  <2>1. ~(pc < End)  BY <1>1, RangeAssumption DEF Shape
  <2> QED  BY <1>1, <2>1, LayoutFixed DEF Scoped
<1>8. Remembered'  BY <1>1, LayoutFixed DEF Remembered
<1> QED  BY <1>3, <1>4, <1>5, <1>6, <1>7, <1>8

\* The invariant holds throughout.
LEMMA Inductive == Spec => []IInv
<1>1. IInv /\ [Next]_vars => IInv'
  <2> SUFFICES ASSUME IInv, [Next]_vars  PROVE IInv'  OBVIOUS
  <2>1. layout \in Layouts /\ pc \in Nat  BY DEF IInv, Shape
  <2>2. CASE EmitText
    <3>1. layout.text[pc] \in Nat /\ <<pc, layout.text[pc]>> \in Declared(layout)
      BY <2>1, <2>2, LayoutsAssumption DEF EmitText, Declared
    <3> QED  BY <2>2, <3>1, DeclaredKeeps DEF EmitText
  <2>3. CASE EmitRuns
    <3>1. layout.runs[pc] \in Nat /\ <<pc, layout.runs[pc]>> \in Declared(layout)
      BY <2>1, <2>3, LayoutsAssumption DEF EmitRuns, Declared
    <3> QED  BY <2>3, <3>1, DeclaredKeeps DEF EmitRuns
  <2>4. CASE EmitInstruction  BY <2>4, InstructionKeeps
  <2>5. CASE SkipConsumed  BY <2>5, SkipKeeps
  <2>6. CASE QueueData  BY <2>6, QueueKeeps
  <2>7. CASE Finish  BY <2>7, FinishKeeps
  <2>8. CASE UNCHANGED vars
    BY <2>8, LayoutFixed
       DEF vars, IInv, Shape, Queued, InOrder, Bracketed, Scoped, Remembered, Enclosing, Behind
  <2> QED  BY <2>2, <2>3, <2>4, <2>5, <2>6, <2>7, <2>8 DEF Next
<1> QED  BY <1>1, InitKeeps, PTL DEF Spec

-------------------------------------------------------------------------------

\* emit_source writes the bytes of the image before pc once each and in order,
\* queued ones included, and the queue starts at the address printed beside
\* it, whatever the classification and the aligned annotations.
THEOREM BytesAlwaysExact == Spec => []ByteExact
<1>1. IInv => ByteExact  BY DEF IInv, InOrder, Queued, ByteExact
<1> QED  BY <1>1, Inductive, PTL

\* Every segment rule stands where its address is, and at the end those not
\* inside an instruction or a declared run are all there.
THEOREM RulesBracketSegments == Spec => []SegmentsBracketed
<1>1. IInv => SegmentsBracketed
  <2> SUFFICES ASSUME IInv, Aligned(layout)  PROVE SegmentsBracketed
    BY DEF SegmentsBracketed
  <2>1. pc \in Nat /\ End \in Nat  BY RangeAssumption DEF IInv, Shape
  <2>2. ASSUME Done, NEW a \in SegStarts(layout) \ Inside(layout)
        PROVE  <<"header", a, a - Start>> \in marks
    <3>1. a < pc  BY <2>1, <2>2, RangeAssumption DEF Done, SegStarts, Addr
    <3> QED  BY <3>1 DEF IInv, Bracketed
  <2>3. ASSUME Done, NEW a \in SegEnds(layout) \ Inside(layout)
        PROVE  <<"footer", a, a - Start>> \in marks
    <3>1. a <= pc  BY <2>1, <2>3, RangeAssumption DEF Done, SegEnds
    <3> QED  BY <3>1 DEF IInv, Bracketed
  <2> QED  BY <2>2, <2>3 DEF IInv, Bracketed, SegmentsBracketed
<1> QED  BY <1>1, Inductive, PTL

\* Every code label is defined in the .block that label_block spells its
\* references with, and at the end every instruction has its label.
THEOREM LabelsWhereReferred == Spec => []LabelsInScope
<1>1. IInv => LabelsInScope
  <2> SUFFICES ASSUME IInv, Aligned(layout)  PROVE LabelsInScope
    BY DEF LabelsInScope
  <2>1. layout \in Layouts /\ pc \in Nat /\ End \in Nat
    BY RangeAssumption DEF IInv, Shape
  <2>2. ASSUME Done  PROVE {d[1] : d \in defs} = Instr(layout)
    <3>1. \A p \in Instr(layout) : p < pc  BY <2>1, <2>2, LayoutIs DEF Done
    <3> QED  BY <3>1 DEF IInv, Scoped
  <2> QED  BY <2>2 DEF IInv, Scoped, LabelsInScope
<1> QED  BY <1>1, Inductive, PTL

\* A hardware-register comment decodes a store against the instruction right
\* before it, and only where no branch arrives in between.
THEOREM HintsAreSound == Spec => []HintsDecodePrevious
<1>1. IInv => HintsDecodePrevious
  BY DEF IInv, Remembered, LoadsUncovered, HintsDecodePrevious
<1> QED  BY <1>1, Inductive, PTL

(***************************************************************************)
(* DataRuns: what flush_data makes of the queue.  Division first, for the  *)
(* periods of a line.                                                      *)
(***************************************************************************)

LEMMA Dividing ==
  ASSUME NEW L \in Nat \ {0}, NEW j \in Nat
  PROVE  j = L * (j \div L) + (j % L) /\ j % L \in 0 .. L - 1 /\ j \div L \in Nat
<1>1. j = L * (j \div L) + (j % L) OBVIOUS
<1>2. j % L \in 0 .. L - 1 OBVIOUS
<1>3. j \div L \in Nat OBVIOUS
<1> QED BY <1>1, <1>2, <1>3

LEMMA Remainder ==
  ASSUME NEW L \in Nat \ {0}, NEW q \in Nat, NEW r \in 0 .. L - 1 PROVE (L * q + r) % L = r
OBVIOUS

LEMMA MoreTimes ==
  ASSUME NEW L \in Nat \ {0}, NEW q \in Nat, NEW r \in Nat PROVE (L * q + r) % L = r % L
<1> DEFINE d == r \div L
           m == r % L
           e == q + d
<1>1. m \in 0 .. L - 1 /\ d \in Nat /\ r = L * d + m BY Dividing
<1> HIDE DEF d, m
<1>2. e \in Nat /\ L * q + r = L * e + m BY <1>1
<1> HIDE DEF e
<1>3. (L * e + m) % L = m BY <1>1, <1>2, Remainder
<1> QED BY <1>2, <1>3 DEF m

Divides(P, L) == L % P = 0

\* What repeats with a divisor of L repeats with L.
LEMMA ShorterPeriod ==
  ASSUME NEW L \in Nat \ {0}, NEW P \in Nat \ {0}, Divides(P, L), NEW q \in Nat, NEW r \in Nat
  PROVE  (L * q + r) % P = r % P
<1> DEFINE d == L \div P
           e == d * q
<1>1. d \in Nat /\ L = P * d + (L % P) BY Dividing
<1> HIDE DEF d
<1>2. L = P * d BY <1>1 DEF Divides
<1>3. (P * d) * q = P * (d * q) BY <1>1
<1>4. e \in Nat /\ L * q = P * e BY <1>1, <1>2, <1>3
<1> HIDE DEF e
<1>5. (P * e + r) % P = r % P BY <1>4, MoreTimes
<1> QED BY <1>4, <1>5

LEMMA WholeTimes ==
  ASSUME NEW L \in Nat \ {0}, NEW j \in Nat, j % L = 0 PROVE j = (j \div L) * L
<1> DEFINE d == j \div L
<1>1. d \in Nat /\ j = L * d + (j % L) BY Dividing
<1> HIDE DEF d
<1>2. j = d * L BY <1>1
<1> QED BY <1>2 DEF d

(***************************************************************************)
(* Pass 1 cuts the queue into pieces that follow one another.              *)
(***************************************************************************)

Queue == data \in Seq(Nat) /\ cut \in 1 .. Len(data) + 1 /\ row \in 1 .. Len(data) + 1

\* A long run is of one byte.
Uniform(s) == s[1] = "fill" => \A c \in s[2] .. s[3] - 1 : data[c] = data[s[2]]

IsPiece(s) ==
  /\ s \in {"fill", "bytes"} \X Nat \X Nat
  /\ 1 <= s[2] /\ s[2] < s[3] /\ s[3] <= Len(data) + 1 /\ Uniform(s)

Pieces ==
  /\ segs \in Seq({"fill", "bytes"} \X Nat \X Nat)
  /\ \A k \in 1 .. Len(segs) : IsPiece(segs[k])
  /\ \A k \in 1 .. Len(segs) - 1 : segs[k + 1][2] = segs[k][3]
  /\ cut = IF segs = <<>> THEN row ELSE segs[Len(segs)][3]
  /\ segs # <<>> => /\ segs[1][2] <= row /\ row < segs[1][3]
                    /\ segs[1][1] = "fill" => row = segs[1][2]

LEMMA RunEndIs ==
  ASSUME data \in Seq(Nat), NEW a \in 1 .. Len(data)
  PROVE  /\ RunEnd(a) \in a + 1 .. Len(data) + 1
         /\ \A c \in a .. RunEnd(a) - 1 : data[c] = data[a]
<1> DEFINE n == Len(data)
           S == {b \in a + 1 .. n + 1 : b = n + 1 \/ data[b] # data[a]}
           m == Min(S)
<1>1. n \in Nat OBVIOUS
<1>2. n + 1 \in S BY <1>1
<1>3. S \in SUBSET Nat BY <1>1
<1>4. m \in S /\ \A b \in S : m <= b BY <1>2, <1>3, MinIs
<1>5. m \in a + 1 .. n + 1 BY <1>4
<1> HIDE DEF m
<1>6. ASSUME NEW c \in a .. m - 1 PROVE data[c] = data[a]
  <2>1. CASE c = a BY <2>1
  <2>2. CASE c # a
    <3>1. c \in a + 1 .. n + 1 /\ ~(m <= c) BY <1>1, <1>5, <2>2
    <3>2. c \notin S BY <1>4, <3>1
    <3> QED BY <3>1, <3>2
  <2> QED BY <2>1, <2>2
<1>7. RunEnd(a) = m BY DEF RunEnd, m
<1> QED BY <1>5, <1>6, <1>7

LEMMA NextFillIs ==
  ASSUME data \in Seq(Nat), NEW b \in 1 .. Len(data) + 1
  PROVE  NextFill(b) \in b .. Len(data) + 1
<1> DEFINE n == Len(data)
           S == {n + 1} \cup {c \in b .. n : data[c] # data[c - 1] /\ LongRun(c)}
<1>1. n \in Nat OBVIOUS
<1> HIDE DEF n
<1>2. S \subseteq b .. n + 1 BY <1>1 DEF n
<1> HIDE DEF n
<1>3. S \in SUBSET Nat /\ S # {} BY <1>1, <1>2 DEF n
<1> HIDE DEF S
<1>4. Min(S) \in S BY <1>3, MinIs
<1>5. NextFill(b) = Min(S) BY DEF NextFill, S, n
<1> QED BY <1>2, <1>4, <1>5 DEF n

LEMMA PieceAdded ==
  ASSUME Queue, Pieces, NEW kind \in {"fill", "bytes"}, NEW e \in cut + 1 .. Len(data) + 1,
         kind = "fill" => \A c \in cut .. e - 1 : data[c] = data[cut],
         segs' = Append(segs, <<kind, cut, e>>), cut' = e, row' = row, data' = data
  PROVE  Queue' /\ Pieces'
<1> DEFINE n == Len(data)
           m == Len(segs)
           s == <<kind, cut, e>>
           new == Append(segs, s)
           T == {"fill", "bytes"} \X Nat \X Nat
<1>1. n \in Nat /\ m \in Nat /\ cut \in Nat /\ 1 <= cut /\ e \in Nat /\ cut < e /\ e <= n + 1
  BY DEF Queue, Pieces
<1>2. s \in T /\ s[1] = kind /\ s[2] = cut /\ s[3] = e BY <1>1
<1>3. IsPiece(s) BY <1>1, <1>2 DEF IsPiece, Uniform
<1> HIDE DEF s
<1>4. /\ new \in Seq(T) /\ Len(new) = m + 1 /\ new[m + 1] = s /\ new # <<>>
      /\ \A k \in 1 .. m : new[k] = segs[k]
  BY <1>2 DEF Pieces
<1> HIDE DEF new
<1>5. ASSUME NEW k \in 1 .. Len(new) PROVE IsPiece(new[k])
  <2>1. k = m + 1 \/ k \in 1 .. m BY <1>1, <1>4
  <2> QED BY <1>3, <1>4, <2>1 DEF Pieces
<1>6. ASSUME NEW k \in 1 .. Len(new) - 1 PROVE new[k + 1][2] = new[k][3]
  <2>1. k \in 1 .. m /\ (k = m \/ k \in 1 .. m - 1) BY <1>1, <1>4
  <2>2. CASE k = m
    <3>1. segs # <<>> BY <1>1, <2>1
    <3>2. segs[m][3] = cut BY <3>1 DEF Pieces
    <3> QED BY <1>2, <1>4, <2>1, <2>2, <3>2
  <2>3. CASE k \in 1 .. m - 1
    <3>1. k + 1 \in 1 .. m BY <1>1, <2>3
    <3> QED BY <1>4, <2>1, <2>3, <3>1 DEF Pieces
  <2> QED BY <2>1, <2>2, <2>3
<1>7. new[Len(new)][3] = e BY <1>2, <1>4
<1>8. new[1][2] <= row /\ row < new[1][3] /\ (new[1][1] = "fill" => row = new[1][2])
  <2>1. CASE segs = <<>>
    <3>1. m = 0 /\ row = cut BY <2>1 DEF Pieces
    <3> QED BY <1>1, <1>2, <1>4, <3>1
  <2>2. CASE segs # <<>>
    <3>1. 1 \in 1 .. m BY <1>1, <2>2 DEF Pieces
    <3> QED BY <1>4, <2>2, <3>1 DEF Pieces
  <2> QED BY <2>1, <2>2
<1>9. segs' = new BY DEF new, s
<1>10. \A x : IsPiece(x)' <=> IsPiece(x) BY DEF IsPiece, Uniform
<1>11. Queue' BY <1>1 DEF Queue
<1> HIDE DEF T
<1>12. new \in Seq(T) BY <1>4
<1> QED BY <1>4, <1>5, <1>6, <1>7, <1>8, <1>9, <1>10, <1>11, <1>12 DEF Pieces, T

(***************************************************************************)
(* Pass 2 takes the pieces from the front.                                 *)
(***************************************************************************)

\* What is known of the first of the pieces that remain.
LEMMA FirstPiece ==
  ASSUME Queue, Pieces, segs # <<>>
  PROVE  /\ Len(data) \in Nat /\ row \in Nat /\ 1 <= row /\ row < SegEnd
         /\ SegEnd \in Nat /\ SegEnd <= Len(data) + 1
         /\ Kind = "fill" => /\ row = segs[1][2]
                             /\ \A c \in row .. SegEnd - 1 : data[c] = data[row]
<1>1. 1 \in 1 .. Len(segs) /\ Head(segs) = segs[1] BY DEF Pieces
<1>2. IsPiece(segs[1]) /\ row < segs[1][3] /\ (segs[1][1] = "fill" => row = segs[1][2])
  BY <1>1 DEF Pieces
<1>3. segs[1][3] \in Nat /\ segs[1][3] <= Len(data) + 1 /\ Uniform(segs[1])
  BY <1>2 DEF IsPiece
<1>4. Len(data) \in Nat /\ row \in Nat /\ 1 <= row BY DEF Queue
<1>5. SegEnd = segs[1][3] /\ Kind = segs[1][1] BY <1>1 DEF SegEnd, Kind
<1>6. ASSUME Kind = "fill" PROVE \A c \in row .. SegEnd - 1 : data[c] = data[row]
  BY <1>2, <1>3, <1>5, <1>6 DEF Uniform
<1> QED BY <1>2, <1>3, <1>4, <1>5, <1>6

LEMMA PieceTaken ==
  ASSUME Queue, Pieces, segs # <<>>, NEW a \in row + 1 .. SegEnd,
         Kind = "fill" => a = SegEnd, Advance(a), UNCHANGED <<data, cut>>
  PROVE  Queue' /\ Pieces'
<1> DEFINE m == Len(segs)
           rest == Tail(segs)
           T == {"fill", "bytes"} \X Nat \X Nat
<1>1. segs \in Seq(T) /\ m \in Nat /\ 1 \in 1 .. m /\ Head(segs) = segs[1] BY DEF Pieces
<1>2. a \in Nat /\ row < a /\ 1 <= row /\ row \in Nat /\ a <= SegEnd /\ SegEnd <= Len(data) + 1
      /\ Len(data) \in Nat /\ SegEnd \in Nat
  BY FirstPiece
<1>3. Queue'
  <2>1. a \in 1 .. Len(data) + 1 BY <1>2
  <2> QED BY <2>1 DEF Queue, Advance
<1>4. \A x : IsPiece(x)' <=> IsPiece(x) BY DEF IsPiece, Uniform
<1>5. CASE a # SegEnd
  <2>1. segs' = segs /\ row' = a /\ segs[1][1] # "fill" /\ a < segs[1][3]
    BY <1>1, <1>2, <1>5 DEF Advance, Kind, SegEnd
  <2>2. segs[1][2] <= a
    <3>1. segs[1][2] <= row /\ segs[1] \in T BY <1>1 DEF Pieces
    <3> QED BY <1>2, <3>1
  <2> QED BY <1>3, <1>4, <2>1, <2>2 DEF Pieces
<1>6. CASE a = SegEnd
  <2>1. segs' = rest /\ row' = segs[1][3] BY <1>1, <1>6 DEF Advance, SegEnd
  <2>2. rest \in Seq(T) /\ Len(rest) = m - 1 /\ \A k \in 1 .. m - 1 : rest[k] = segs[k + 1]
    BY <1>1
  <2> HIDE DEF rest, T, m
  <2>3. rest = <<>> <=> m = 1
    <3>1. rest = <<>> <=> Len(rest) = 0
      <4>1. \A S : \A s \in Seq(S) : s = <<>> <=> Len(s) = 0 OBVIOUS
      <4> QED BY <2>2, <4>1
    <3> QED BY <1>1, <2>2, <3>1
  <2>4. ASSUME NEW k \in 1 .. Len(rest) PROVE IsPiece(rest[k])
    <3>1. k + 1 \in 1 .. m BY <1>1, <2>2
    <3> QED BY <2>2, <3>1 DEF Pieces, m
  <2>5. ASSUME NEW k \in 1 .. Len(rest) - 1 PROVE rest[k + 1][2] = rest[k][3]
    <3>1. k + 1 \in 1 .. m - 1 /\ k \in 1 .. m - 1 BY <1>1, <2>2
    <3> QED BY <2>2, <3>1 DEF Pieces, m
  <2>6. cut = IF rest = <<>> THEN row' ELSE rest[Len(rest)][3]
    <3>1. cut = segs[m][3] BY <1>1 DEF Pieces, m
    <3>2. CASE m = 1 BY <2>1, <2>3, <3>1, <3>2
    <3>3. CASE m # 1
      <4>1. m - 1 \in 1 .. m - 1 /\ (m - 1) + 1 = m BY <1>1, <3>3
      <4>2. rest[m - 1] = segs[m] BY <2>2, <4>1
      <4> QED BY <2>2, <2>3, <3>1, <3>3, <4>2
    <3> QED BY <3>2, <3>3
  <2>7. ASSUME rest # <<>> PROVE rest[1][2] = row' /\ row' < rest[1][3]
    <3>1. 1 \in 1 .. m - 1 /\ 1 + 1 \in 1 .. m
      <4>1. m # 1 BY <2>3, <2>7
      <4>2. \A j \in Nat : 1 \in 1 .. j /\ j # 1 => 1 \in 1 .. j - 1 /\ 1 + 1 \in 1 .. j OBVIOUS
      <4> QED BY <1>1, <4>1, <4>2
    <3>2. rest[1] = segs[1 + 1] BY <2>2, <3>1
    <3>3. segs[1 + 1][2] = segs[1][3] /\ IsPiece(segs[1 + 1]) BY <3>1 DEF Pieces, m
    <3> QED BY <2>1, <3>2, <3>3 DEF IsPiece
  <2>8. rest # <<>> => row' \in Nat BY <1>2, <1>6, <2>1, <1>1 DEF SegEnd
  <2>9. rest # <<>> => rest[1][2] <= row' BY <2>7, <2>8
  <2>10. cut' = cut /\ rest \in Seq(T) BY <2>2
  <2> QED BY <1>3, <1>4, <2>1, <2>4, <2>5, <2>6, <2>7, <2>9, <2>10 DEF Pieces, T
<1> QED BY <1>5, <1>6

(***************************************************************************)
(* The directives written so far are the rows before row.                  *)
(***************************************************************************)

Directives == [at: Nat, count: Nat, pattern: Seq(Nat)]

\* A directive that assembles to the bytes at its address.
Good(d) ==
  /\ d \in Directives
  /\ Assembled(d) = SubSeq(data, d.at, DirectiveEnd(d) - 1)

\* The good directives that lead from the first byte to r.
Leading(ds, r) ==
  /\ ds \in Seq(Directives)
  /\ \A k \in 1 .. Len(ds) :
       /\ Good(ds[k])
       /\ ds[k].at = (IF k = 1 THEN 1 ELSE DirectiveEnd(ds[k - 1]))
  /\ r = IF ds = <<>> THEN 1 ELSE DirectiveEnd(ds[Len(ds)])

LEMMA OneMore ==
  ASSUME NEW ds, NEW r, Leading(ds, r), NEW d, Good(d), d.at = r
  PROVE  Leading(Append(ds, d), DirectiveEnd(d))
<1> DEFINE m == Len(ds)
           new == Append(ds, d)
<1>1. ds \in Seq(Directives) /\ d \in Directives BY DEF Leading, Good
<1>2. /\ new \in Seq(Directives) /\ m \in Nat /\ Len(new) = m + 1 /\ new[m + 1] = d
      /\ new # <<>> /\ \A k \in 1 .. m : new[k] = ds[k]
  <2> HIDE DEF Directives
  <2>1. \A S : \A s \in Seq(S), x \in S :
          /\ Append(s, x) \in Seq(S) /\ Len(Append(s, x)) = Len(s) + 1 /\ Len(s) \in Nat
          /\ Append(s, x)[Len(s) + 1] = x /\ Append(s, x) # <<>>
          /\ \A k \in 1 .. Len(s) : Append(s, x)[k] = s[k]
    OBVIOUS
  <2> QED BY <1>1, <2>1
<1> HIDE DEF new
<1>3. ASSUME NEW k \in 1 .. Len(new)
      PROVE  Good(new[k]) /\ new[k].at = (IF k = 1 THEN 1 ELSE DirectiveEnd(new[k - 1]))
  <2>1. CASE k = m + 1
    <3>1. CASE m = 0
      <4>1. ds = <<>> BY <1>1, <3>1
      <4> QED BY <1>2, <2>1, <3>1, <4>1 DEF Leading
    <3>2. CASE m # 0
      <4>1. ds # <<>> /\ m \in 1 .. m BY <1>1, <1>2, <3>2
      <4>2. r = DirectiveEnd(ds[m]) /\ new[k - 1] = ds[m] BY <1>2, <2>1, <4>1 DEF Leading
      <4> QED BY <1>2, <2>1, <3>2, <4>2
    <3> QED BY <3>1, <3>2
  <2>2. CASE k \in 1 .. m
    <3>1. k # 1 => k - 1 \in 1 .. m BY <1>2, <2>2
    <3> QED BY <1>2, <2>2, <3>1 DEF Leading
  <2> QED BY <1>2, <2>1, <2>2
<1>4. new[Len(new)] = d BY <1>2
<1> QED BY <1>2, <1>3, <1>4 DEF Leading, new

\* A directive is good if its pattern, repeated, is the bytes it stands for.
LEMMA GoodDirective ==
  ASSUME data \in Seq(Nat), NEW a \in 1 .. Len(data), NEW c \in 1 .. Len(data),
         a + c <= Len(data) + 1, NEW p \in Seq(Nat),
         \A k \in 1 .. c : data[a + k - 1] = p[((k - 1) % Len(p)) + 1]
  PROVE  /\ Good(Directive(a, c, p)) /\ Directive(a, c, p).at = a
         /\ DirectiveEnd(Directive(a, c, p)) = a + c
<1> DEFINE d == Directive(a, c, p)
           n == Len(data)
<1>1. d \in Directives /\ d.at = a /\ d.count = c /\ d.pattern = p BY DEF Directive, Directives
<1>2. n \in Nat /\ a \in Nat /\ c \in Nat /\ 1 <= a /\ 1 <= c /\ a + c <= n + 1 OBVIOUS
<1>3. DirectiveEnd(d) = a + c BY <1>1 DEF DirectiveEnd
<1>4. SubSeq(data, a, a + c - 1) = [k \in 1 .. c |-> data[a + k - 1]]
  <2>1. a + c - 1 \in a .. n /\ (a + c - 1) - a + 1 = c BY <1>2
  <2>2. /\ SubSeq(data, a, a + c - 1) \in Seq(Nat) /\ Len(SubSeq(data, a, a + c - 1)) = c
        /\ \A k \in 1 .. c : SubSeq(data, a, a + c - 1)[k] = data[a + k - 1]
    BY <2>1, SubSeqProperties
  <2>3. \A s \in Seq(Nat) : s = [k \in 1 .. Len(s) |-> s[k]] OBVIOUS
  <2> QED BY <2>2, <2>3
<1>5. Assembled(d) = [k \in 1 .. c |-> p[((k - 1) % Len(p)) + 1]] BY <1>1 DEF Assembled
<1>6. Assembled(d) = SubSeq(data, a, a + c - 1) BY <1>4, <1>5
<1> QED BY <1>1, <1>3, <1>6 DEF Good

(***************************************************************************)
(* The lines of a piece, and those that repeat the one at a.               *)
(***************************************************************************)

\* The piece at hand ends inside the queue.
Ending == data \in Seq(Nat) /\ SegEnd \in Nat /\ SegEnd <= Len(data) + 1

LEMMA LineIs ==
  ASSUME Ending, NEW a \in Nat, 1 <= a, a < SegEnd
  PROVE  /\ LineEnd(a) \in a + 1 .. SegEnd
         /\ a + BytesPerLine <= SegEnd => LineEnd(a) = a + BytesPerLine
         /\ Line(a) \in Seq(Nat) /\ Len(Line(a)) = LineEnd(a) - a
         /\ \A k \in 1 .. LineEnd(a) - a : Line(a)[k] = data[a + k - 1]
<1> DEFINE S == {a + BytesPerLine, SegEnd}
           e == LineEnd(a)
<1>1. BytesPerLine \in Nat /\ BytesPerLine > 0 /\ SegEnd \in Nat /\ SegEnd <= Len(data) + 1
      /\ Len(data) \in Nat /\ data \in Seq(Nat)
  BY SizesAssumption DEF Ending
<1>2. S \in SUBSET Nat /\ S # {} BY <1>1
<1>3. e \in S /\ \A x \in S : e <= x BY <1>2, MinIs DEF LineEnd
<1> HIDE DEF e
<1>4. e \in a + 1 .. SegEnd /\ (a + BytesPerLine <= SegEnd => e = a + BytesPerLine)
  BY <1>1, <1>3
<1>5. e - 1 \in a .. Len(data) /\ (e - 1) - a + 1 = e - a BY <1>1, <1>4
<1>6. \A k \in a .. e - 1 : data[k] \in Nat BY <1>1, <1>5
<1>7. /\ SubSeq(data, a, e - 1) \in Seq(Nat) /\ Len(SubSeq(data, a, e - 1)) = e - a
      /\ \A k \in 1 .. e - a : SubSeq(data, a, e - 1)[k] = data[a + k - 1]
  BY <1>5, <1>6, SubSeqProperties
<1>8. Line(a) = SubSeq(data, a, e - 1) BY DEF Line, e
<1> QED BY <1>4, <1>7, <1>8 DEF e

LEMMA BytesIs ==
  ASSUME Ending, NEW a \in Nat, 1 <= a, a < SegEnd
  PROVE  Good(Bytes(a)) /\ Bytes(a).at = a /\ DirectiveEnd(Bytes(a)) = LineEnd(a)
<1> DEFINE e == LineEnd(a)
           c == e - a
           p == Line(a)
<1>1. /\ e \in a + 1 .. SegEnd /\ p \in Seq(Nat) /\ Len(p) = c
      /\ \A k \in 1 .. c : p[k] = data[a + k - 1]
  BY LineIs
<1> HIDE DEF e, p
<1>2. SegEnd \in Nat /\ SegEnd <= Len(data) + 1 /\ Len(data) \in Nat /\ data \in Seq(Nat)
  BY DEF Ending
<1>3. a \in 1 .. Len(data) /\ c \in 1 .. Len(data) /\ a + c <= Len(data) + 1 /\ a + c = e
      /\ c \in Nat
  BY <1>1, <1>2
<1> HIDE DEF c
<1>4. ASSUME NEW k \in 1 .. c PROVE data[a + k - 1] = p[((k - 1) % Len(p)) + 1]
  <2>1. (k - 1) % c = k - 1 BY <1>3
  <2>2. ((k - 1) % c) + 1 = k BY <2>1
  <2> QED BY <1>1, <2>2
<1>5. /\ Good(Directive(a, c, p)) /\ Directive(a, c, p).at = a
      /\ DirectiveEnd(Directive(a, c, p)) = a + c
  BY <1>1, <1>2, <1>3, <1>4, GoodDirective
<1>6. Bytes(a) = Directive(a, c, p) BY <1>1 DEF Bytes, p
<1> QED BY <1>3, <1>5, <1>6 DEF e

\* The value of a .fill, repeated, is the line it was taken from.
LEMMA FillValueIs ==
  ASSUME NEW chunk \in Seq(Nat), Len(chunk) = BytesPerLine
  PROVE  \E P \in Nat \ {0} :
           /\ Divides(P, BytesPerLine)
           /\ FillValue(chunk) \in Seq(Nat) /\ Len(FillValue(chunk)) = P
           /\ \A k \in 1 .. BytesPerLine : chunk[k] = FillValue(chunk)[((k - 1) % P) + 1]
<1> DEFINE n == Len(chunk)
           fits(p) == \A k \in 1 .. n : chunk[k] = chunk[((k - 1) % p) + 1]
           S == {n} \cup {p \in Periods : fits(p)}
           P == Min(S)
           v == SubSeq(chunk, 1, P)
<1>1. n \in Nat \ {0} /\ n = BytesPerLine BY SizesAssumption
<1>2. \A p \in Periods : p \in 1 .. n /\ n % p = 0 BY <1>1, SizesAssumption
<1> HIDE DEF n
<1>3. n % n = 0 /\ fits(n)
  <2>1. n % n = 0 BY <1>1
  <2>2. ASSUME NEW k \in 1 .. n PROVE chunk[k] = chunk[((k - 1) % n) + 1]
    <3>1. (k - 1) % n = k - 1 BY <1>1
    <3>2. ((k - 1) % n) + 1 = k BY <3>1
    <3> QED BY <3>2
  <2> QED BY <2>1, <2>2
<1>4. \A p \in S : p \in 1 .. n /\ n % p = 0 /\ fits(p) BY <1>1, <1>2, <1>3
<1>5. S \in SUBSET Nat /\ S # {} BY <1>4
<1>6. P \in S BY <1>5, MinIs
<1>7. P \in 1 .. n /\ n % P = 0 /\ fits(P) BY <1>4, <1>6
<1>8. FillValue(chunk) = v BY DEF FillValue, n
<1> HIDE DEF P, S
<1>9. \A k \in 1 .. P : chunk[k] \in Nat BY <1>7, <1>1 DEF n
<1>10. v \in Seq(Nat) /\ Len(v) = P /\ \A k \in 1 .. P : v[k] = chunk[k]
  <2>1. P \in Nat /\ 1 <= P /\ P - 1 + 1 = P /\ \A k \in 1 .. P : 1 + k - 1 = k BY <1>1, <1>7
  <2> QED BY <1>9, <2>1, SubSeqProperties
<1> HIDE DEF v
<1>11. ASSUME NEW k \in 1 .. n PROVE chunk[k] = v[((k - 1) % P) + 1]
  <2> DEFINE r == (k - 1) % P
  <2>1. r \in 0 .. P - 1 BY <1>1, <1>7
  <2>2. chunk[k] = chunk[r + 1] BY <1>7
  <2> HIDE DEF r
  <2>3. r + 1 \in 1 .. P BY <1>1, <1>7, <2>1
  <2>4. chunk[k] = v[r + 1] BY <1>10, <2>2, <2>3
  <2> QED BY <2>4 DEF r
<1>12. P \in Nat \ {0} BY <1>1, <1>7
<1>13. Divides(P, BytesPerLine) BY <1>1, <1>7 DEF Divides
<1> QED BY <1>1, <1>8, <1>10, <1>11, <1>12, <1>13

\* Every full line from a up to SameEnd(a) is the one at a.
LEMMA SameEndIs ==
  ASSUME Ending, NEW a \in Nat, 1 <= a, a + BytesPerLine <= SegEnd
  PROVE  /\ SameEnd(a) \in a .. SegEnd /\ (SameEnd(a) - a) % BytesPerLine = 0
         /\ \A b \in a .. SameEnd(a) - 1 :
              (b - a) % BytesPerLine = 0 => b + BytesPerLine <= SegEnd /\ Line(b) = Line(a)
<1> DEFINE L == BytesPerLine
           n == SegEnd
           S == {b \in a .. n : (b - a) % L = 0 /\ (b + L > n \/ Line(b) # Line(a))}
           j == n - a
           r == j % L
           q == j \div L
           e == Min(S)
<1>1. L \in Nat \ {0} /\ n \in Nat /\ a + L <= n /\ j \in Nat BY SizesAssumption DEF Ending
<1>2. j = L * q + r /\ r \in 0 .. L - 1 /\ q \in Nat BY <1>1, Dividing
<1> HIDE DEF q, r
<1>3. (L * q + 0) % L = 0
  <2>1. 0 \in 0 .. L - 1 BY <1>1
  <2> QED BY <1>1, <1>2, <2>1, Remainder
<1>4. \E m \in Nat : m = L * q /\ m % L = 0 /\ j = m + r BY <1>1, <1>2, <1>3
<1>5. PICK m \in Nat : m % L = 0 /\ j = m + r BY <1>4
<1>6. a + m \in a .. n /\ (a + m) - a = m /\ (a + m) + L > n BY <1>1, <1>2, <1>5
<1> HIDE DEF j
<1>7. a + m \in S BY <1>5, <1>6
<1>8. S \in SUBSET Nat BY <1>1
<1>9. e \in S /\ \A b \in S : e <= b BY <1>7, <1>8, MinIs
<1> HIDE DEF e
<1>10. SameEnd(a) = e BY <1>1 DEF SameEnd, e
<1>11. e \in a .. n /\ (e - a) % L = 0 BY <1>9
<1>12. ASSUME NEW b \in a .. e - 1, (b - a) % L = 0 PROVE b + L <= n /\ Line(b) = Line(a)
  <2>1. b \in a .. n /\ ~(e <= b) BY <1>1, <1>11
  <2>2. ~(b + L > n \/ Line(b) # Line(a)) BY <1>9, <1>12, <2>1
  <2> QED BY <1>1, <2>1, <2>2
<1> QED BY <1>10, <1>11, <1>12

LEMMA Repeated ==
  ASSUME Ending, NEW a \in Nat, 1 <= a, a + BytesPerLine <= SegEnd,
         NEW j \in 0 .. SameEnd(a) - a - 1
  PROVE  data[a + j] = Line(a)[(j % BytesPerLine) + 1]
<1> DEFINE L == BytesPerLine
           e == SameEnd(a)
           r == j % L
           q == j \div L
           b == a + (j - r)
<1>1. L \in Nat \ {0} /\ SegEnd \in Nat BY SizesAssumption DEF Ending
<1>2. e \in a .. SegEnd /\ \A x \in a .. e - 1 : (x - a) % L = 0 =>
        x + L <= SegEnd /\ Line(x) = Line(a)
  BY SameEndIs
<1>3. j \in Nat /\ a + j < e BY <1>1, <1>2
<1>4. j = L * q + r /\ r \in 0 .. L - 1 /\ q \in Nat BY <1>1, <1>3, Dividing
<1> HIDE DEF q, r, e
<1>5. (L * q + 0) % L = 0
  <2>1. 0 \in 0 .. L - 1 BY <1>1
  <2> QED BY <1>1, <1>4, <2>1, Remainder
<1>6. \E m \in Nat : m = L * q /\ m % L = 0 /\ j = m + r BY <1>1, <1>4, <1>5
<1>7. PICK m \in Nat : m % L = 0 /\ j = m + r BY <1>6
<1>8. j - r = m /\ b = a + m /\ b - a = m /\ b \in Nat /\ 1 <= b BY <1>1, <1>4, <1>7
<1>9. b \in a .. e - 1 /\ a + j = b + (r + 1) - 1 BY <1>1, <1>2, <1>3, <1>4, <1>7, <1>8
<1> HIDE DEF b
<1>10. b + L <= SegEnd /\ Line(b) = Line(a) BY <1>2, <1>7, <1>8, <1>9
<1>11. b < SegEnd BY <1>1, <1>8, <1>10
<1>12. LineEnd(b) = b + L /\ \A k \in 1 .. LineEnd(b) - b : Line(b)[k] = data[b + k - 1]
  BY <1>8, <1>10, <1>11, LineIs
<1>13. r + 1 \in 1 .. LineEnd(b) - b BY <1>1, <1>4, <1>8, <1>12
<1>14. Line(b)[r + 1] = data[b + (r + 1) - 1] BY <1>12, <1>13
<1> QED BY <1>9, <1>10, <1>14 DEF r

(***************************************************************************)
(* The directives lead from the first byte to row, and the pieces from     *)
(* there to cut.                                                           *)
(***************************************************************************)

FlushInv == Queue /\ Pieces /\ Leading(directives, row)

LEMMA FlushBegins == ASSUME FlushInit  PROVE FlushInv
<1>1. data \in Seq(Nat) /\ data # <<>> /\ cut = 1 /\ row = 1 /\ segs = <<>> /\ directives = <<>>
  BY DataAssumption DEF FlushInit
<1>2. Len(data) \in Nat BY <1>1
<1>3. Queue BY <1>1, <1>2 DEF Queue
<1>4. Len(segs) = 0 /\ Len(directives) = 0 BY <1>1
<1>5. Pieces BY <1>1, <1>4 DEF Pieces
<1>6. Leading(directives, row) BY <1>1, <1>4 DEF Leading
<1> QED BY <1>3, <1>5, <1>6 DEF FlushInv

LEMMA DataStands ==
  ASSUME data' = data, NEW ds, NEW r, Leading(ds, r) PROVE Leading(ds, r)'
<1>1. \A d : Good(d)' <=> Good(d) BY DEF Good
<1> QED BY <1>1 DEF Leading

LEMMA SplitKeeps == ASSUME FlushInv, SplitFill \/ SplitBytes  PROVE FlushInv'
<1> DEFINE n == Len(data)
           e == RunEnd(cut)
<1>1. Queue /\ Pieces /\ Leading(directives, row) BY DEF FlushInv
<1>2. n \in Nat /\ cut \in 1 .. n /\ data \in Seq(Nat)
  BY <1>1 DEF Queue, SplitFill, SplitBytes
<1>3. e \in cut + 1 .. n + 1 /\ \A c \in cut .. e - 1 : data[c] = data[cut] BY <1>2, RunEndIs
<1> HIDE DEF e
<1>4. data' = data /\ directives' = directives /\ row' = row BY DEF SplitFill, SplitBytes
<1>5. CASE SplitFill
  <2>1. segs' = Append(segs, <<"fill", cut, e>>) /\ cut' = e BY <1>5 DEF SplitFill, e
  <2>2. Queue' /\ Pieces' BY <1>1, <1>3, <1>4, <2>1, PieceAdded
  <2> QED BY <1>1, <1>4, <2>2, DataStands DEF FlushInv
<1>6. CASE SplitBytes
  <2> DEFINE f == NextFill(e)
  <2>1. segs' = Append(segs, <<"bytes", cut, f>>) /\ cut' = f BY <1>6 DEF SplitBytes, e
  <2>2. e \in 1 .. n + 1 BY <1>2, <1>3
  <2>3. f \in e .. n + 1 BY <1>2, <2>2, NextFillIs
  <2> HIDE DEF f
  <2>4. f \in cut + 1 .. n + 1 BY <1>2, <1>3, <2>3
  <2>5. Queue' /\ Pieces' BY <1>1, <1>4, <2>1, <2>4, PieceAdded
  <2> QED BY <1>1, <1>4, <2>5, DataStands DEF FlushInv
<1> QED BY <1>5, <1>6

LEMMA FillKeeps == ASSUME FlushInv, EmitFill  PROVE FlushInv'
<1> DEFINE n == Len(data)
           c == SegEnd - row
           p == <<data[row]>>
           d == Directive(row, c, p)
<1>1. Queue /\ Pieces /\ Leading(directives, row) /\ segs # <<>> /\ Kind = "fill"
  BY DEF FlushInv, EmitFill, Emitting
<1>2. /\ n \in Nat /\ row \in Nat /\ 1 <= row /\ row < SegEnd /\ SegEnd \in Nat /\ SegEnd <= n + 1
      /\ data \in Seq(Nat) /\ \A x \in row .. SegEnd - 1 : data[x] = data[row]
  BY <1>1, FirstPiece DEF Queue
<1>3. row \in 1 .. n /\ c \in 1 .. n /\ c \in Nat /\ row + c <= n + 1 /\ row + c = SegEnd BY <1>2
<1>4. p \in Seq(Nat) /\ Len(p) = 1 /\ p[1] = data[row] BY <1>2, <1>3
<1> HIDE DEF p, c
<1>5. ASSUME NEW k \in 1 .. c PROVE data[row + k - 1] = p[((k - 1) % Len(p)) + 1]
  <2>1. row + k - 1 \in row .. SegEnd - 1 BY <1>2, <1>3
  <2>2. (k - 1) % 1 = 0 BY <1>3
  <2>3. ((k - 1) % Len(p)) + 1 = 1 BY <1>4, <2>2
  <2> QED BY <1>2, <1>4, <2>1, <2>3
<1>6. Good(d) /\ d.at = row /\ DirectiveEnd(d) = SegEnd
  BY <1>2, <1>3, <1>4, <1>5, GoodDirective
<1>7. /\ directives' = Append(directives, d) /\ Advance(SegEnd) /\ UNCHANGED <<data, cut>>
  BY DEF EmitFill, c, p
<1> HIDE DEF d
<1>8. Leading(directives', SegEnd) BY <1>1, <1>6, <1>7, OneMore
<1>9. SegEnd \in row + 1 .. SegEnd BY <1>2
<1>10. Queue' /\ Pieces' BY <1>1, <1>7, <1>9, PieceTaken
<1> QED BY <1>7, <1>8, <1>10 DEF FlushInv, Advance, Leading, Good

LEMMA LineKeeps == ASSUME FlushInv, EmitLine  PROVE FlushInv'
<1> DEFINE e == LineEnd(row)
           d == Bytes(row)
<1>1. Queue /\ Pieces /\ Leading(directives, row) /\ segs # <<>> /\ Kind = "bytes"
  BY DEF FlushInv, EmitLine, Emitting
<1>2. Ending /\ row \in Nat /\ 1 <= row /\ row < SegEnd BY <1>1, FirstPiece DEF Queue, Ending
<1>3. e \in row + 1 .. SegEnd /\ Good(d) /\ d.at = row /\ DirectiveEnd(d) = e
  BY <1>2, LineIs, BytesIs
<1>4. /\ directives' = Append(directives, d) /\ Advance(e) /\ UNCHANGED <<data, cut>>
  BY DEF EmitLine
<1> HIDE DEF d, e
<1>5. Leading(directives', e) BY <1>1, <1>3, <1>4, OneMore
<1>6. Queue' /\ Pieces' BY <1>1, <1>3, <1>4, PieceTaken
<1> QED BY <1>4, <1>5, <1>6 DEF FlushInv, Advance, Leading, Good

\* Three lines at least end three lines on.
LEMMA Thrice ==
  ASSUME NEW L \in Nat \ {0}, NEW R \in Nat, R > 2
  PROVE  R * L >= 3 * L /\ (R - 2) * L = R * L - 2 * L
<1> DEFINE d == R - 3
           e == d * L
<1>1. d \in Nat /\ R = d + 3 /\ R - 2 = d + 1 BY DEF d
<1> HIDE DEF d
<1>2. e \in Nat /\ R * L = e + 3 * L /\ (R - 2) * L = e + L BY <1>1
<1> HIDE DEF e
<1> QED BY <1>2

LEMMA CollapsedIs ==
  ASSUME Ending, NEW a \in Nat, 1 <= a, a < SegEnd, Rows(a) >= MinRows
  PROVE  LET L == BytesPerLine
             e == SameEnd(a)
             c == Middle(a) * L
             mid == Directive(a + L, c, FillValue(Line(a)))
         IN /\ e \in a + 1 .. SegEnd
            /\ Good(Bytes(a)) /\ Bytes(a).at = a /\ DirectiveEnd(Bytes(a)) = a + L
            /\ Good(mid) /\ mid.at = a + L /\ DirectiveEnd(mid) = e - L
            /\ Good(Bytes(e - L)) /\ Bytes(e - L).at = e - L /\ DirectiveEnd(Bytes(e - L)) = e
<1> DEFINE L == BytesPerLine
           n == Len(data)
           e == SameEnd(a)
           R == Rows(a)
           c == (R - 2) * L
           j == e - a
           chunk == Line(a)
           v == FillValue(chunk)
           mid == Directive(a + L, c, v)
<1>1. L \in Nat \ {0} /\ MinRows \in Nat /\ MinRows > 2 /\ SegEnd \in Nat /\ SegEnd <= n + 1
      /\ n \in Nat /\ data \in Seq(Nat)
  BY SizesAssumption DEF Ending
<1>2. a + L <= SegEnd
  <2>1. SUFFICES ASSUME a + L > SegEnd PROVE FALSE BY <1>1
  <2>2. e = a BY <2>1 DEF SameEnd
  <2>3. R = 0 \div L /\ 0 \div L = 0 BY <1>1, <2>2 DEF Rows
  <2> QED BY <1>1, <2>3
<1>3. e \in a .. SegEnd /\ j % L = 0 BY <1>2, SameEndIs
<1>4. R = j \div L BY DEF Rows
<1> HIDE DEF R, e
<1>5. j \in Nat BY <1>1, <1>3
<1> HIDE DEF j
<1>6. R \in Nat /\ j = R * L BY <1>1, <1>3, <1>4, <1>5, Dividing, WholeTimes
<1>7. R > 2 BY <1>1, <1>6 DEF R
<1>8. \E p \in Nat : p = R * L /\ p >= 3 * L /\ c = p - 2 * L
  BY <1>1, <1>5, <1>6, <1>7, Thrice
<1> HIDE DEF c
<1>9. j >= 3 * L /\ c = j - 2 * L BY <1>6, <1>8
<1>10. j = e - a BY DEF j
<1>11. /\ e \in Nat /\ c \in Nat /\ e \in a + 1 .. SegEnd /\ c >= L /\ (a + L) + c = e - L
       /\ a + L \in 1 .. n /\ c \in 1 .. n /\ (a + L) + c <= n + 1
       /\ e - L \in Nat /\ 1 <= e - L /\ e - L < SegEnd /\ (e - L) + L = e
  BY <1>1, <1>3, <1>5, <1>9, <1>10
<1>12. LineEnd(a) = a + L /\ chunk \in Seq(Nat) /\ Len(chunk) = L BY <1>1, <1>2, LineIs
<1>13. LineEnd(e - L) = e BY <1>1, <1>11, LineIs
<1>14. Good(Bytes(a)) /\ Bytes(a).at = a /\ DirectiveEnd(Bytes(a)) = a + L BY <1>12, BytesIs
<1>15. Good(Bytes(e - L)) /\ Bytes(e - L).at = e - L /\ DirectiveEnd(Bytes(e - L)) = e
  BY <1>11, <1>13, BytesIs
<1>16. PICK P \in Nat \ {0} :
         /\ Divides(P, L) /\ v \in Seq(Nat) /\ Len(v) = P
         /\ \A k \in 1 .. L : chunk[k] = v[((k - 1) % P) + 1]
  BY <1>12, FillValueIs
<1>17. \A x \in 0 .. j - 1 : data[a + x] = chunk[(x % L) + 1]
  BY <1>2, Repeated DEF j, e
<1> HIDE DEF v, chunk
<1>18. ASSUME NEW k \in 1 .. c PROVE data[(a + L) + k - 1] = v[((k - 1) % Len(v)) + 1]
  <2> DEFINE m == k - 1
             q == m \div L
             r == m % L
             x == L + m
  <2>1. m \in Nat /\ x \in 0 .. j - 1 /\ (a + L) + k - 1 = a + x BY <1>1, <1>5, <1>9, <1>11
  <2> HIDE DEF m
  <2>2. m = L * q + r /\ r \in 0 .. L - 1 /\ q \in Nat BY <1>1, <2>1, Dividing
  <2>3. (L * 1 + m) % L = r BY <1>1, <2>1, MoreTimes
  <2> HIDE DEF q, r, x
  <2>4. x % L = r BY <1>1, <2>1, <2>3 DEF x
  <2>5. (L * q + r) % P = r % P
    <3>1. q \in Nat /\ r \in Nat BY <1>1, <2>2
    <3>2. L \in Nat \ {0} /\ P \in Nat \ {0} /\ Divides(P, L) BY <1>1, <1>16
    <3> HIDE DEF L
    <3>3. \A Q, X \in Nat : (L * Q + X) % P = X % P BY <3>2, ShorterPeriod
    <3> QED BY <3>1, <3>3
  <2>6. m % P = r % P BY <2>2, <2>5
  <2>7. r + 1 \in 1 .. L /\ (r + 1) - 1 = r BY <1>1, <2>2
  <2>8. data[a + x] = chunk[r + 1] BY <1>17, <2>1, <2>4
  <2>9. chunk[r + 1] = v[(r % P) + 1] BY <1>16, <2>7
  <2>10. data[(a + L) + k - 1] = v[(m % P) + 1] BY <2>1, <2>6, <2>8, <2>9
  <2> QED BY <1>16, <2>10 DEF m
<1>19. Good(mid) /\ mid.at = a + L /\ DirectiveEnd(mid) = (a + L) + c
  BY <1>1, <1>11, <1>16, <1>18, GoodDirective
<1>20. Middle(a) = R - 2 BY DEF Middle, R
<1> QED BY <1>11, <1>14, <1>15, <1>19, <1>20 DEF e, c, v, chunk

LEMMA CollapsedKeeps == ASSUME FlushInv, EmitCollapsed  PROVE FlushInv'
<1> DEFINE L == BytesPerLine
           e == SameEnd(row)
           x == Bytes(row)
           y == Directive(row + L, Middle(row) * L, FillValue(Line(row)))
           z == Bytes(e - L)
<1>1. Queue /\ Pieces /\ Leading(directives, row) /\ segs # <<>> /\ Kind = "bytes"
      /\ Rows(row) >= MinRows
  BY DEF FlushInv, EmitCollapsed, Emitting
<1>2. Ending /\ row \in Nat /\ 1 <= row /\ row < SegEnd BY <1>1, FirstPiece DEF Queue, Ending
<1>3. /\ e \in row + 1 .. SegEnd
      /\ Good(x) /\ x.at = row /\ DirectiveEnd(x) = row + L
      /\ Good(y) /\ y.at = row + L /\ DirectiveEnd(y) = e - L
      /\ Good(z) /\ z.at = e - L /\ DirectiveEnd(z) = e
  BY <1>1, <1>2, CollapsedIs
<1>4. /\ directives' = directives \o <<x, y, z>> /\ Advance(e) /\ UNCHANGED <<data, cut>>
  BY DEF EmitCollapsed
<1> HIDE DEF x, y, z, e
<1>5. directives' = Append(Append(Append(directives, x), y), z)
  <2>1. directives \in Seq(Directives) /\ x \in Directives /\ y \in Directives /\ z \in Directives
    BY <1>1, <1>3 DEF Leading, Good
  <2> HIDE DEF Directives
  <2>2. \A S : \A s \in Seq(S), u, v, w \in S :
          s \o <<u, v, w>> = Append(Append(Append(s, u), v), w)
    OBVIOUS
  <2> QED BY <1>4, <2>1, <2>2
<1>6. Leading(Append(directives, x), row + L) BY <1>1, <1>3, OneMore
<1>7. Leading(Append(Append(directives, x), y), e - L) BY <1>3, <1>6, OneMore
<1>8. Leading(directives', e) BY <1>3, <1>5, <1>7, OneMore
<1>9. Queue' /\ Pieces' BY <1>1, <1>3, <1>4, PieceTaken
<1> QED BY <1>4, <1>8, <1>9 DEF FlushInv, Advance, Leading, Good

LEMMA FlushInductive == FlushSpec => []FlushInv
<1>1. FlushInit => FlushInv BY FlushBegins
<1>2. FlushInv /\ [FlushNext]_flushVars => FlushInv'
  <2> SUFFICES ASSUME FlushInv, [FlushNext]_flushVars PROVE FlushInv' OBVIOUS
  <2>1. CASE SplitFill \/ SplitBytes BY <2>1, SplitKeeps
  <2>2. CASE EmitFill BY <2>2, FillKeeps
  <2>3. CASE EmitLine BY <2>3, LineKeeps
  <2>4. CASE EmitCollapsed BY <2>4, CollapsedKeeps
  <2>5. CASE UNCHANGED flushVars
    BY <2>5 DEF FlushInv, flushVars, Queue, Pieces, IsPiece, Uniform, Leading, Good
  <2> QED BY <2>1, <2>2, <2>3, <2>4, <2>5 DEF FlushNext
<1> QED BY <1>1, <1>2, PTL DEF FlushSpec

\* flush_data loses, repeats and changes no byte of the queue, however it cuts
\* the queue into long runs, lines and stretches of identical lines.
THEOREM DataReproduced == FlushSpec => []Reproduces
<1>1. FlushInv => Reproduces
  <2> SUFFICES ASSUME FlushInv PROVE Reproduces OBVIOUS
  <2> DEFINE m == Len(directives)
  <2>1. /\ directives \in Seq(Directives)
        /\ row = IF directives = <<>> THEN 1 ELSE DirectiveEnd(directives[m])
        /\ \A k \in 1 .. m :
             /\ Good(directives[k])
             /\ directives[k].at = (IF k = 1 THEN 1 ELSE DirectiveEnd(directives[k - 1]))
    BY DEF FlushInv, Leading
  <2>2. DOMAIN directives = 1 .. m BY <2>1
  <2>3. Last(directives) = directives[m] BY DEF Last
  <2>4. WrittenUpTo = row BY <2>1, <2>3 DEF WrittenUpTo
  <2>5. Flushed => row = Len(data) + 1
    BY DEF FlushInv, Flushed, Splitting, Queue, Pieces
  <2> QED BY <2>1, <2>2, <2>4, <2>5 DEF Reproduces, Good
<1> QED BY <1>1, FlushInductive, PTL

(***************************************************************************)
(* BranchText: the recursion of Resolve, one instruction at a time.        *)
(***************************************************************************)

\* The sources before p + 1, of those before p that f has.
Resolved(f, p) ==
  [r \in Reg |->
     CASE p = 0 -> Lhs("from_caller", r, FALSE, 1)
       [] p > 0 /\ Op(p) = Load[r] -> Operand(p)
       [] p > 0 /\ Op(p) = Transfer[r] -> Wrapped(f[p - 1][Other[r]], p)
       [] p > 0 /\ Transforms(p, r) -> Wrapped(f[p - 1][r], p)
       [] p > 0 /\ Op(p) \in Arithmetic /\ r = "A" /\ ~Transforms(p, r) ->
            Lhs("computed_reg", r, FALSE, p + 1)
       [] p > 0 /\ Op(p) = "JSR" -> Lhs("jsr_return", r, FALSE, p + 1)
       [] OTHER -> f[p - 1][r]]

LEMMA ResolvedFrom ==
  ASSUME NEW f, NEW g, NEW p, f[p - 1] = g[p - 1]
  PROVE  Resolved(f, p) = Resolved(g, p)
BY DEF Resolved

LEMMA ResolvedFirst == ASSUME NEW f, NEW g  PROVE Resolved(f, 0) = Resolved(g, 0)
<1>1. \A h : Resolved(h, 0) = [r \in Reg |-> Lhs("from_caller", r, FALSE, 1)]
  <2> TAKE h
  <2>1. ~(0 > 0) OBVIOUS
  <2> QED BY <2>1 DEF Resolved
<1> QED BY <1>1

LEMMA ResolveIs ==
  ASSUME Len(prog) \in Nat
  PROVE  Resolve = [p \in 0..Branch |-> Resolved(Resolve, p)]
<1> DEFINE Reached(n) == \E f : f = [p \in 0..n |-> Resolved(f, p)]
           S == {n \in 0..Branch : ~Reached(n)}
<1>1. Branch \in Nat BY DEF Branch
<1>2. Reached(0)
  <2> DEFINE g == [p \in 0..0 |-> Resolved(<<>>, p)]
  <2>1. \A p \in 0..0 : Resolved(<<>>, p) = Resolved(g, p)
    <3>1. \A p \in 0..0 : p = 0 OBVIOUS
    <3> QED BY <3>1, ResolvedFirst
  <2>2. g = [p \in 0..0 |-> Resolved(g, p)] BY <2>1
  <2> QED BY <2>2
<1>3. ASSUME NEW m \in Nat, Reached(m) PROVE Reached(m + 1)
  <2>1. PICK f : f = [p \in 0..m |-> Resolved(f, p)] BY <1>3
  <2> DEFINE g == [p \in 0..(m + 1) |-> IF p = m + 1 THEN Resolved(f, m + 1) ELSE f[p]]
  <2>2. ASSUME NEW p \in 0..(m + 1) PROVE g[p] = Resolved(g, p)
    <3>1. \A q \in 0..m : g[q] = f[q] BY <1>3
    <3>2. p = 0 \/ (p - 1 \in 0..m /\ g[p - 1] = f[p - 1]) BY <3>1
    <3> HIDE DEF g
    <3>3. Resolved(f, p) = Resolved(g, p)
      <4>1. CASE p = 0 BY <4>1, ResolvedFirst
      <4>2. CASE g[p - 1] = f[p - 1] BY <4>2, ResolvedFrom
      <4> QED BY <3>2, <4>1, <4>2
    <3>4. CASE p = m + 1 BY <3>3, <3>4 DEF g
    <3>5. CASE p # m + 1
      <4>1. p \in 0..m BY <1>3, <3>5
      <4>2. f[p] = Resolved(f, p) BY <2>1, <4>1, Zenon
      <4> QED BY <3>1, <3>3, <4>1, <4>2
    <3> QED BY <3>4, <3>5
  <2>3. g = [p \in 0..(m + 1) |-> Resolved(g, p)]
    <3>1. g = [p \in 0..(m + 1) |-> g[p]] OBVIOUS
    <3> HIDE DEF g
    <3> QED BY <2>2, <3>1
  <2> QED BY <2>3
<1>4. Reached(Branch)
  <2> SUFFICES ASSUME ~Reached(Branch) PROVE FALSE OBVIOUS
  <2>1. Branch \in S /\ S \in SUBSET Nat BY <1>1
  <2>2. Min(S) \in S /\ \A x \in S : Min(S) <= x BY <2>1, MinIs
  <2>3. PICK m \in S : \A x \in S : m <= x BY <2>2
  <2>4. m \in 0..Branch /\ ~Reached(m) BY <2>3
  <2>5. m # 0 BY <1>2, <2>4
  <2>6. m - 1 \in 0..Branch /\ ~(m <= m - 1) /\ m - 1 \in Nat /\ (m - 1) + 1 = m BY <1>1, <2>4, <2>5
  <2>7. m - 1 \notin S BY <2>3, <2>6
  <2>8. Reached(m - 1) BY <2>6, <2>7
  <2> HIDE DEF Reached
  <2>9. Reached((m - 1) + 1) BY <1>3, <2>6, <2>8
  <2> QED BY <2>4, <2>6, <2>9
<1>5. Resolve = CHOOSE f : f = [p \in 0..Branch |-> Resolved(f, p)] BY DEF Resolve, Resolved
<1> QED BY <1>4, <1>5

(***************************************************************************)
(* What a register holds before q, by the program alone.                   *)
(***************************************************************************)

Plain == \A p \in DOMAIN prog : Mode(p) # "abx"

Changes(k, r) ==
  \/ Op(k) \in {Load[r], Transfer[r], "JSR"}
  \/ r = "A" /\ (Op(k) \in Arithmetic \/ (Op(k) \in Shifts /\ Mode(k) = "acc"))
  \/ r = "X" /\ Op(k) \in {"INX", "DEX"}

\* Nothing after p changes r before q.
Kept(r, p, q) == \A k \in p + 1..q - 1 : ~Changes(k, r)

\* The cell c, from a load or from the caller.
HoldsCell(q, r, c) ==
  \E p \in 0..q - 1 :
    /\ Kept(r, p, q)
    /\ IF p = 0 THEN inputs[r] = c /\ c # ""
       ELSE Op(p) = Load[r] /\ Mode(p) = "abs" /\ Arg(p) = c

\* The immediate at p.
HoldsImm(q, r, p) ==
  p \in 1..q - 1 /\ Op(p) = Load[r] /\ Mode(p) = "imm" /\ Kept(r, p, q)

LEMMA PieceIs ==
  ASSUME prog \in Programs
  PROVE  /\ Branch \in Nat /\ Branch > 0 /\ DOMAIN prog = 1..Branch /\ Len(prog) = Branch
         /\ Op(Branch) \in {"BEQ", "BNE", "BMI", "BPL", "BCS", "BCC", "BVS", "BVC"}
         /\ \A p \in 1..Branch : /\ Op(p) \in {"LDA", "LDX"} => Mode(p) \in {"imm", "abs", "abx"}
                                 /\ Op(p) \in {"INX", "DEX"} => Mode(p) = "imp"
                                 /\ Mode(p) = "acc" => Op(p) \in Shifts
<1>1. /\ Len(prog) \in Nat \ {0} /\ DOMAIN prog = 1..Len(prog)
      /\ prog[Len(prog)].op \in {"BEQ", "BNE", "BMI", "BPL", "BCS", "BCC", "BVS", "BVC"}
      /\ prog[Len(prog)].mode = "imp"
      /\ \A p \in 1..(Len(prog) - 1) : prog[p].mode \in Modes(prog[p].op)
  BY ProgramsAssumption
<1>2. Branch \in Nat /\ Branch > 0 /\ Branch = Len(prog) BY <1>1 DEF Branch
<1>3. ASSUME NEW p \in 1..Branch
      PROVE  /\ Op(p) \in {"LDA", "LDX"} => Mode(p) \in {"imm", "abs", "abx"}
             /\ Op(p) \in {"INX", "DEX"} => Mode(p) = "imp"
             /\ Mode(p) = "acc" => Op(p) \in Shifts
  <2>1. CASE p = Branch BY <1>1, <1>2, <2>1 DEF Op, Mode
  <2>2. CASE p # Branch
    <3>1. p \in 1..(Len(prog) - 1) BY <1>2, <2>2
    <3>2. Mode(p) \in Modes(Op(p)) BY <1>1, <3>1 DEF Op, Mode
    <3> QED BY <3>2 DEF Modes, Shifts
  <2> QED BY <2>1, <2>2
<1> QED BY <1>1, <1>2, <1>3 DEF Op

LEMMA KeptOn ==
  ASSUME NEW r, NEW q \in Nat, NEW p \in 0..q - 1
  PROVE  Kept(r, p, q + 1) <=> Kept(r, p, q) /\ (p + 1 <= q => ~Changes(q, r))
<1>1. p \in Nat /\ p + 1 <= q BY DEF Kept
<1>2. \A k : k \in p + 1..(q + 1) - 1 <=> k \in p + 1..q - 1 \/ k = q BY <1>1
<1> QED BY <1>1, <1>2 DEF Kept

LEMMA NoneBetween == ASSUME NEW r, NEW q \in Nat  PROVE Kept(r, q, q + 1)
<1>1. \A k : ~(k \in q + 1..(q + 1) - 1) OBVIOUS
<1> QED BY <1>1 DEF Kept

LEMMA CellOn ==
  ASSUME NEW r \in Reg, NEW q \in Nat, q > 0, NEW c
  PROVE  HoldsCell(q + 1, r, c) <=>
           \/ HoldsCell(q, r, c) /\ ~Changes(q, r)
           \/ Op(q) = Load[r] /\ Mode(q) = "abs" /\ Arg(q) = c
<1> DEFINE From(p) == IF p = 0 THEN inputs[r] = c /\ c # ""
                      ELSE Op(p) = Load[r] /\ Mode(p) = "abs" /\ Arg(p) = c
<1>1. \A p : p \in 0..(q + 1) - 1 <=> p \in 0..q - 1 \/ p = q OBVIOUS
<1>2. \A p \in 0..q - 1 : Kept(r, p, q + 1) <=> Kept(r, p, q) /\ ~Changes(q, r)
  <2> TAKE p \in 0..q - 1
  <2>1. p + 1 <= q OBVIOUS
  <2> QED BY <2>1, KeptOn
<1>3. Kept(r, q, q + 1) BY NoneBetween
<1>4. From(q) <=> Op(q) = Load[r] /\ Mode(q) = "abs" /\ Arg(q) = c
  <2>1. q # 0 OBVIOUS
  <2> QED BY <2>1
<1>5. HoldsCell(q + 1, r, c) <=> \E p \in 0..(q + 1) - 1 : Kept(r, p, q + 1) /\ From(p)
  BY DEF HoldsCell
<1>6. HoldsCell(q, r, c) <=> \E p \in 0..q - 1 : Kept(r, p, q) /\ From(p) BY DEF HoldsCell
<1> HIDE DEF From
<1> QED BY <1>1, <1>2, <1>3, <1>4, <1>5, <1>6

LEMMA CellFirst ==
  ASSUME NEW r \in Reg, NEW c
  PROVE  HoldsCell(1, r, c) <=> inputs[r] = c /\ c # ""
<1>1. \A p : p \in 0..1 - 1 <=> p = 0 OBVIOUS
<1>2. Kept(r, 0, 1)
  <2>1. \A k : ~(k \in 0 + 1..1 - 1) OBVIOUS
  <2> QED BY <2>1 DEF Kept
<1> QED BY <1>1, <1>2 DEF HoldsCell

LEMMA ImmOn ==
  ASSUME NEW r \in Reg, NEW q \in Nat, q > 0, NEW p
  PROVE  HoldsImm(q + 1, r, p) <=>
           \/ HoldsImm(q, r, p) /\ ~Changes(q, r)
           \/ p = q /\ Op(q) = Load[r] /\ Mode(q) = "imm"
<1>1. p \in 1..(q + 1) - 1 <=> p \in 1..q - 1 \/ p = q OBVIOUS
<1>2. p \in 1..q - 1 => (Kept(r, p, q + 1) <=> Kept(r, p, q) /\ ~Changes(q, r))
  <2> SUFFICES ASSUME p \in 1..q - 1 PROVE Kept(r, p, q + 1) <=> Kept(r, p, q) /\ ~Changes(q, r)
    OBVIOUS
  <2>1. p \in 0..q - 1 /\ p + 1 <= q OBVIOUS
  <2> QED BY <2>1, KeptOn
<1>3. p = q => Kept(r, p, q + 1) BY NoneBetween
<1>4. ~(q \in 1..q - 1) OBVIOUS
<1> QED BY <1>1, <1>2, <1>3, <1>4 DEF HoldsImm

(***************************************************************************)
(* What a fact without transforms says, by induction on the program.       *)
(***************************************************************************)

LhsFields == {"kind", "what", "index", "at", "chain", "post", "lost"}
IsLhs(l) == DOMAIN l = LhsFields /\ l.chain \in Seq({prog[k] : k \in DOMAIN prog})

\* The source of r before p + 1 is the variable it holds, or its value on entry.
Direct(p, r, l) ==
  /\ IsLhs(l)
  /\ l.chain = <<>> /\ l.kind = "var" /\ Plain => HoldsCell(p + 1, r, l.what)
  /\ l.chain = <<>> /\ l.kind = "from_caller" => l.what = r /\ Kept(r, 0, p + 1)

LEMMA WrappedIs ==
  ASSUME NEW l, IsLhs(l), NEW p \in DOMAIN prog
  PROVE  /\ IsLhs(Wrapped(l, p))
         /\ Wrapped(l, p).chain = <<>> => Wrapped(l, p).kind \notin {"var", "from_caller"}
<1>1. CASE Opaque(l)
  <2>1. Wrapped(l, p) = [l EXCEPT !.lost = l.lost \/ Op(p) \notin {"TAX", "TXA"}]
    BY <1>1 DEF Wrapped
  <2>2. /\ DOMAIN Wrapped(l, p) = LhsFields /\ Wrapped(l, p).chain = l.chain
        /\ Wrapped(l, p).kind = l.kind
    BY <2>1 DEF IsLhs, LhsFields
  <2> QED BY <1>1, <2>2 DEF IsLhs, Opaque
<1>2. CASE ~Opaque(l)
  <2> DEFINE S == {prog[k] : k \in DOMAIN prog}
             new == <<prog[p]>> \o l.chain
  <2>1. prog[p] \in S /\ l.chain \in Seq(S) BY DEF IsLhs
  <2> HIDE DEF S
  <2>2. new \in Seq(S) /\ new # <<>>
    <3>1. \A T : \A x \in T, s \in Seq(T) : <<x>> \o s \in Seq(T) /\ <<x>> \o s # <<>> OBVIOUS
    <3> QED BY <2>1, <3>1
  <2> HIDE DEF new
  <2>3. Wrapped(l, p) = [l EXCEPT !.chain = new] BY <1>2 DEF Wrapped, new
  <2>4. DOMAIN Wrapped(l, p) = LhsFields /\ Wrapped(l, p).chain = new
    BY <2>3 DEF IsLhs, LhsFields
  <2> QED BY <2>2, <2>4 DEF IsLhs, S
<1> QED BY <1>1, <1>2

LEMMA LhsIs ==
  ASSUME NEW l, NEW kind, NEW what, NEW index, NEW at, l = Lhs(kind, what, index, at)
  PROVE  IsLhs(l) /\ l.kind = kind /\ l.what = what
<1>1. DOMAIN l = LhsFields /\ l.kind = kind /\ l.what = what /\ l.chain = <<>> BY DEF Lhs, LhsFields
<1> QED BY <1>1 DEF IsLhs

LEMMA DirectFirst ==
  ASSUME NEW f, NEW r \in Reg  PROVE Direct(0, r, Resolved(f, 0)[r])
<1>1. Resolved(f, 0)[r] = Lhs("from_caller", r, FALSE, 1)
  <2>1. ~(0 > 0) OBVIOUS
  <2> QED BY <2>1 DEF Resolved
<1>2. Kept(r, 0, 0 + 1) BY NoneBetween
<1> DEFINE l == Lhs("from_caller", r, FALSE, 1)
<1>3. IsLhs(l) /\ l.kind = "from_caller" /\ l.what = r BY LhsIs
<1> HIDE DEF l
<1>4. Direct(0, r, l) BY <1>2, <1>3 DEF Direct
<1> QED BY <1>1, <1>4 DEF l

LEMMA DirectOn ==
  ASSUME prog \in Programs, NEW p \in 1..Branch, NEW f,
         \A r \in Reg : Direct(p - 1, r, f[p - 1][r]), NEW r \in Reg
  PROVE  Direct(p, r, Resolved(f, p)[r])
<1> DEFINE l == Resolved(f, p)[r]
<1> SUFFICES Direct(p, r, l) OBVIOUS
<1>1. /\ Branch \in Nat /\ DOMAIN prog = 1..Branch /\ p \in Nat /\ p > 0 /\ (p - 1) + 1 = p /\ p # 0
      /\ Op(p) \in {"LDA", "LDX"} => Mode(p) \in {"imm", "abs", "abx"}
  BY PieceIs
<1>2. /\ Op(p) = Load[r] => Op(p) \notin {Transfer[r], "JSR"} \cup Arithmetic /\ ~Transforms(p, r)
      /\ Op(p) = Transfer[r] => Op(p) # "JSR" /\ Op(p) \notin Arithmetic /\ ~Transforms(p, r)
      /\ Op(p) = "JSR" => Op(p) \notin Arithmetic /\ ~Transforms(p, r)
  BY DEF Reg, Load, Transfer, Arithmetic, Transforms, Shifts
<1>3. CASE Op(p) = Load[r]
  <2>1. l = Operand(p) BY <1>1, <1>2, <1>3 DEF Resolved
  <2>2. Op(p) \in {"LDA", "LDX"} BY <1>3 DEF Reg, Load
  <2>3. CASE Mode(p) = "imm"
    <3>1. l = Lhs("imm", Arg(p), FALSE, p) BY <2>1, <2>3 DEF Operand
    <3> HIDE DEF l
    <3>2. IsLhs(l) /\ l.kind = "imm" /\ l.what = Arg(p) BY <3>1, LhsIs
    <3> QED BY <3>2 DEF Direct
  <2>4. CASE Mode(p) # "imm"
    <3>1. l = Lhs("var", Arg(p), Mode(p) = "abx", p) BY <2>1, <2>4 DEF Operand
    <3> HIDE DEF l
    <3>2. IsLhs(l) /\ l.kind = "var" /\ l.what = Arg(p) BY <3>1, LhsIs
    <3>3. Plain => Mode(p) = "abs" BY <1>1, <2>2, <2>4 DEF Plain
    <3>4. Plain => HoldsCell(p + 1, r, Arg(p)) BY <1>1, <1>3, <3>3, CellOn
    <3> QED BY <3>2, <3>4 DEF Direct
  <2> QED BY <2>3, <2>4
<1>4. CASE Op(p) = Transfer[r]
  <2>1. l = Wrapped(f[p - 1][Other[r]], p) BY <1>1, <1>2, <1>4 DEF Resolved
  <2>2. Other[r] \in Reg BY DEF Other, Reg
  <2>3. IsLhs(f[p - 1][Other[r]]) BY <2>2 DEF Direct
  <2> QED BY <1>1, <2>1, <2>3, WrappedIs DEF Direct
<1>5. CASE Transforms(p, r)
  <2>1. Op(p) # Load[r] /\ Op(p) # Transfer[r] /\ Op(p) # "JSR" BY <1>2, <1>5
  <2>2. l = Wrapped(f[p - 1][r], p) BY <1>1, <1>5, <2>1 DEF Resolved
  <2>3. IsLhs(f[p - 1][r]) BY DEF Direct
  <2> QED BY <1>1, <2>2, <2>3, WrappedIs DEF Direct
<1>6. CASE Op(p) \in Arithmetic /\ r = "A" /\ ~Transforms(p, r)
  <2>1. Op(p) # Load[r] /\ Op(p) # Transfer[r] /\ Op(p) # "JSR" BY <1>2, <1>6
  <2>2. l = Lhs("computed_reg", r, FALSE, p + 1) BY <1>1, <1>6, <2>1 DEF Resolved
  <2> HIDE DEF l
  <2>3. IsLhs(l) /\ l.kind = "computed_reg" /\ l.what = r BY <2>2, LhsIs
  <2> QED BY <2>3 DEF Direct
<1>7. CASE Op(p) = "JSR"
  <2>1. Op(p) # Load[r] /\ Op(p) # Transfer[r] /\ Op(p) \notin Arithmetic /\ ~Transforms(p, r)
    BY <1>2, <1>7
  <2>2. l = Lhs("jsr_return", r, FALSE, p + 1) BY <1>1, <1>7, <2>1 DEF Resolved
  <2> HIDE DEF l
  <2>3. IsLhs(l) /\ l.kind = "jsr_return" /\ l.what = r BY <2>2, LhsIs
  <2> QED BY <2>3 DEF Direct
<1>8. CASE /\ Op(p) # Load[r] /\ Op(p) # Transfer[r] /\ ~Transforms(p, r) /\ Op(p) # "JSR"
           /\ ~(Op(p) \in Arithmetic /\ r = "A")
  <2>1. l = f[p - 1][r] BY <1>1, <1>8 DEF Resolved
  <2>2. ~Changes(p, r) BY <1>8 DEF Changes, Transforms
  <2>3. Direct(p - 1, r, l) BY <2>1
  <2> HIDE DEF l
  <2>4. \A c : HoldsCell(p, r, c) => HoldsCell(p + 1, r, c) BY <1>1, <2>2, CellOn
  <2>5. Kept(r, 0, p) => Kept(r, 0, p + 1)
    <3>1. 0 \in 0..p - 1 BY <1>1
    <3> QED BY <1>1, <2>2, <3>1, KeptOn
  <2> QED BY <1>1, <2>3, <2>4, <2>5 DEF Direct, l
<1> QED BY <1>3, <1>4, <1>5, <1>6, <1>7, <1>8

LEMMA ResolveDirect ==
  ASSUME prog \in Programs, NEW p \in 0..Branch, NEW r \in Reg
  PROVE  Direct(p, r, Resolve[p][r])
<1> DEFINE AllDirect(n) == \A s \in Reg : Direct(n, s, Resolve[n][s])
           S == {n \in 0..Branch : ~AllDirect(n)}
<1>1. Branch \in Nat /\ Len(prog) \in Nat BY PieceIs
<1>2. \A n \in 0..Branch : Resolve[n] = Resolved(Resolve, n)
  <2>1. Resolve = [n \in 0..Branch |-> Resolved(Resolve, n)] BY <1>1, ResolveIs
  <2> HIDE DEF Resolve
  <2> QED BY <2>1, Zenon
<1>3. AllDirect(0)
  <2>1. 0 \in 0..Branch BY <1>1
  <2> QED BY <1>2, <2>1, DirectFirst
<1>4. ASSUME NEW n \in 1..Branch, AllDirect(n - 1) PROVE AllDirect(n)
  <2>1. n \in 0..Branch BY <1>1
  <2>2. \A s \in Reg : Direct(n, s, Resolved(Resolve, n)[s]) BY <1>4, DirectOn
  <2> QED BY <1>2, <2>1, <2>2
<1> HIDE DEF AllDirect
<1>5. S = {}
  <2> SUFFICES ASSUME S # {} PROVE FALSE OBVIOUS
  <2>1. S \in SUBSET Nat BY <1>1
  <2>2. PICK m \in S : \A x \in S : m <= x BY <2>1, MinIs
  <2>3. m \in 0..Branch /\ ~AllDirect(m) BY <2>2
  <2>4. m # 0 BY <1>3, <2>3
  <2>5. m \in 1..Branch /\ m - 1 \in 0..Branch /\ ~(m <= m - 1) BY <1>1, <2>3, <2>4
  <2>6. AllDirect(m - 1) BY <2>2, <2>5
  <2> QED BY <1>4, <2>3, <2>5, <2>6
<1> QED BY <1>5 DEF AllDirect

\* The compare before the branch is of a register that holds the variable the
\* fact names.
FactStands ==
  Plain /\ fact.chain = <<>> /\ Setter # 0 /\ RhsKind = "imm" /\ FactCell # "" =>
    /\ Setter \in 1..Branch - 1
    /\ \E r \in Reg : Op(Setter) = Compare[r] /\ HoldsCell(Setter, r, FactCell)

LEMMA SetterIs ==
  ASSUME prog \in Programs, Setter # 0  PROVE Setter \in 1..Branch - 1
<1> DEFINE S == {p \in 1..(Branch - 1) : Op(p) \in Setters(Op(Branch))}
<1>1. Setter = Latest(S) BY DEF Setter
<1>2. Branch \in Nat /\ Branch > 0 BY PieceIs
<1> HIDE DEF S
<1>3. S # {} BY <1>1 DEF Latest
<1>4. S \in SUBSET (0..Branch) BY <1>2 DEF S
<1>5. \E p \in S : \A q \in S : q <= p BY <1>2, <1>3, <1>4, MaxIs
<1>6. Latest(S) \in S BY <1>3, <1>5 DEF Latest
<1> QED BY <1>1, <1>6 DEF S

LEMMA BeforeIs ==
  ASSUME NEW b \in Nat, NEW x \in 1..b - 1
  PROVE  x \in Nat /\ x # 0 /\ x - 1 \in 0..b /\ (x - 1) + 1 = x /\ 0 \in 0..x - 1
OBVIOUS

LEMMA FactIs == ASSUME prog \in Programs, fact = FactLhs  PROVE FactStands
<1> SUFFICES ASSUME Plain, fact.chain = <<>>, Setter # 0, RhsKind = "imm", FactCell # ""
             PROVE  /\ Setter \in 1..Branch - 1
                    /\ \E r \in Reg : Op(Setter) = Compare[r] /\ HoldsCell(Setter, r, FactCell)
  BY DEF FactStands
<1> DEFINE s == Setter
<1>1. s \in 1..Branch - 1 /\ Branch \in Nat BY SetterIs, PieceIs
<1>2. Op(s) \in {"CMP", "CPX"}
  <2>1. CASE Op(s) \in {"CMP", "CPX"} BY <2>1
  <2>2. CASE Op(s) \notin {"CMP", "CPX"} BY <2>2 DEF RhsKind
  <2> QED BY <2>1, <2>2
<1>3. PICK r \in Reg : Op(s) = Compare[r] /\ WalkReg(s) = r
  <2>1. CASE Op(s) = "CMP"
    <3>1. WalkReg(s) = "A" BY <2>1 DEF WalkReg
    <3> QED BY <2>1, <3>1 DEF Reg, Compare
  <2>2. CASE Op(s) = "CPX"
    <3>1. WalkReg(s) = "X" BY <2>2 DEF WalkReg, Arithmetic, Shifts
    <3> QED BY <2>2, <3>1 DEF Reg, Compare
  <2> QED BY <1>2, <2>1, <2>2
<1> DEFINE l == Resolve[s - 1][r]
<1>4. s \in Nat /\ s # 0 /\ s - 1 \in 0..Branch /\ (s - 1) + 1 = s /\ 0 \in 0..s - 1
  BY <1>1, BeforeIs
<1>5. Direct(s - 1, r, l) BY <1>4, ResolveDirect
<1>6. FactLhs = [l EXCEPT !.post = PostOp(s)]
  <2>1. Op(s) # "JSR" /\ WalkReg(s) # "" BY <1>2, <1>3 DEF Reg
  <2> QED BY <1>3, <1>4, <2>1 DEF FactLhs
<1> HIDE DEF l, s
<1>7. fact.kind = l.kind /\ fact.what = l.what /\ fact.chain = l.chain
  BY <1>5, <1>6 DEF Direct, IsLhs, LhsFields
<1>8. CASE fact.kind = "var"
  <2>1. FactCell = fact.what BY <1>8 DEF FactCell
  <2>2. HoldsCell(s, r, FactCell) BY <1>4, <1>5, <1>7, <1>8, <2>1 DEF Direct
  <2> QED BY <1>1, <1>3, <2>2 DEF s
<1>9. CASE fact.kind = "from_caller"
  <2>1. FactCell = inputs[fact.what] BY <1>9 DEF FactCell
  <2>2. l.what = r /\ Kept(r, 0, s) BY <1>4, <1>5, <1>7, <1>9 DEF Direct
  <2>3. HoldsCell(s, r, FactCell) BY <1>4, <1>7, <2>1, <2>2 DEF HoldsCell
  <2> QED BY <1>1, <1>3, <2>3 DEF s
<1>10. CASE fact.kind \notin {"var", "from_caller"} BY <1>10 DEF FactCell
<1> QED BY <1>8, <1>9, <1>10

LEMMA FactKept ==
  ASSUME FactStands, UNCHANGED <<prog, inputs, fact>>  PROVE FactStands'
<1>1. Plain' <=> Plain BY DEF Plain, Mode
<1>2. Setter' = Setter BY DEF Setter, Branch, Op
<1>3. Branch' = Branch BY DEF Branch
<1>4. RhsKind' = RhsKind BY <1>2 DEF RhsKind, Op, Mode
<1>5. FactCell' = FactCell BY DEF FactCell
<1>6. \A q, r, c : HoldsCell(q, r, c)' <=> HoldsCell(q, r, c)
  BY DEF HoldsCell, Kept, Changes, Op, Mode, Arg
<1>7. \A p : Op(p)' = Op(p) BY DEF Op
<1> HIDE DEF FactStands
<1> QED BY <1>1, <1>2, <1>3, <1>4, <1>5, <1>6, <1>7 DEF FactStands

(***************************************************************************)
(* The walk of build_imm_substitutions: a provenance is what the register  *)
(* holds, and a name has its reason in the program.                        *)
(***************************************************************************)

Backed(q, r, v) ==
  \/ v = <<>>
  \/ \E c : v = <<"var", c>> /\ HoldsCell(q, r, c)
  \/ \E p : v = <<"imm", Arg(p), p>> /\ HoldsImm(q, r, p)

ProvStands == Plain /\ here <= Branch => \A r \in Reg : Backed(here, r, prov[r])

\* The immediate at p is compared with a register that holds c, or stored in c.
Reason(p, c) ==
  /\ Arg(p) \in Enum[c]
  /\ \/ \E r \in Reg : p \in 1..Branch /\ Op(p) = Compare[r] /\ HoldsCell(p, r, c)
     \/ \E r \in Reg : \E q \in p + 1..Branch - 1 :
          Op(q) = Stores[r] /\ Arg(q) = c /\ HoldsImm(q, r, p)

SubsStand == Plain /\ fact.chain = <<>> => \A p \in DOMAIN subs : Reason(p, subs[p])

LEMMA SeededBacked ==
  ASSUME ProvStands, Plain, here <= Branch, NEW r \in Reg  PROVE Backed(here, r, Seeded[r])
<1>1. Backed(here, r, prov[r]) BY DEF ProvStands
<1>2. CASE here = 1 /\ inputs[r] # "" /\ Enum[inputs[r]] # {}
  <2>1. Seeded[r] = <<"var", inputs[r]>> BY <1>2 DEF Seeded
  <2>2. HoldsCell(here, r, inputs[r]) BY <1>2, CellFirst
  <2> QED BY <2>1, <2>2 DEF Backed
<1>3. CASE ~(here = 1 /\ inputs[r] # "" /\ Enum[inputs[r]] # {})
  <2>1. Seeded[r] = prov[r] BY <1>3 DEF Seeded
  <2> QED BY <1>1, <2>1
<1> QED BY <1>2, <1>3

LEMMA ProvenanceBacked ==
  ASSUME prog \in Programs, ProvStands, Plain, here \in 1..Branch, NEW r \in Reg
  PROVE  Backed(here + 1, r, Provenance(r))
<1>1. /\ Branch \in Nat /\ DOMAIN prog = 1..Branch /\ here \in Nat /\ here > 0 /\ here <= Branch
      /\ Mode(here) # "abx"
      /\ Op(here) \in {"LDA", "LDX"} => Mode(here) \in {"imm", "abs", "abx"}
  BY PieceIs DEF Plain
<1>2. Op(here) = Load[r] => Op(here) \in {"LDA", "LDX"} /\ ~Clears(r)
  BY DEF Reg, Load, Clears, Transfer, Arithmetic, Shifts
<1>3. CASE Op(here) = Load[r] /\ Mode(here) = "imm"
  <2>1. Provenance(r) = <<"imm", Arg(here), here>> BY <1>2, <1>3 DEF Provenance
  <2>2. HoldsImm(here + 1, r, here) BY <1>1, <1>3, ImmOn
  <2> QED BY <2>1, <2>2 DEF Backed
<1>4. CASE Op(here) = Load[r] /\ Mode(here) = "abs"
  <2>1. Provenance(r) = IF Enum[Arg(here)] # {} THEN <<"var", Arg(here)>> ELSE <<>>
    BY <1>2, <1>4 DEF Provenance
  <2>2. HoldsCell(here + 1, r, Arg(here)) BY <1>1, <1>4, CellOn
  <2> QED BY <2>1, <2>2 DEF Backed
<1>5. CASE Op(here) # Load[r] /\ Clears(r)
  <2>1. Provenance(r) = <<>> BY <1>5 DEF Provenance
  <2> QED BY <2>1 DEF Backed
<1>6. CASE Op(here) # Load[r] /\ ~Clears(r)
  <2>1. Provenance(r) = Seeded[r] BY <1>6 DEF Provenance
  <2>2. Backed(here, r, Seeded[r]) BY <1>1, SeededBacked
  <2>3. ~Changes(here, r)
    <3>1. r = "A" \/ r = "X" BY DEF Reg
    <3>2. CASE r = "A" BY <1>1, <1>6, <3>2 DEF Changes, Clears
    <3>3. CASE r = "X" BY <1>1, <1>6, <3>3 DEF Changes, Clears
    <3> QED BY <3>1, <3>2, <3>3
  <2>4. \A c : HoldsCell(here, r, c) => HoldsCell(here + 1, r, c) BY <1>1, <2>3, CellOn
  <2>5. \A p : HoldsImm(here, r, p) => HoldsImm(here + 1, r, p) BY <1>1, <2>3, ImmOn
  <2> QED BY <2>1, <2>2, <2>4, <2>5 DEF Backed
<1> QED BY <1>1, <1>2, <1>3, <1>4, <1>5, <1>6

LEMMA NamesReasoned ==
  ASSUME prog \in Programs, ProvStands, Plain, here \in 1..Branch, NEW n \in Names
  PROVE  Reason(n.at, n.cell)
<1>1. /\ Branch \in Nat /\ here \in Nat /\ here > 0 /\ here <= Branch
      /\ Op(Branch) \in {"BEQ", "BNE", "BMI", "BPL", "BCS", "BCC", "BVS", "BVC"}
  BY PieceIs
<1>2. \A r \in Reg : Backed(here, r, Seeded[r]) BY <1>1, SeededBacked
<1>3. CASE n \in {[at |-> here, cell |-> c] : c \in
                   {c \in Cell : \E r \in Reg : /\ Op(here) = Compare[r] /\ Mode(here) = "imm"
                                                /\ Seeded[r] = <<"var", c>> /\ Arg(here) \in Enum[c]}}
  <2>1. PICK c \in Cell, r \in Reg : /\ n.at = here /\ n.cell = c /\ Op(here) = Compare[r]
                            /\ Seeded[r] = <<"var", c>> /\ Arg(here) \in Enum[c]
    BY <1>3
  <2>2. HoldsCell(here, r, c)
    <3>1. Backed(here, r, <<"var", c>>) BY <1>2, <2>1
    <3> QED BY <3>1 DEF Backed
  <2> QED BY <2>1, <2>2 DEF Reason
<1>4. CASE n \in {[at |-> Seeded[r][3], cell |-> Arg(here)] : r \in
                   {r \in Reg : /\ Op(here) = Stores[r] /\ Mode(here) = "abs"
                                /\ Seeded[r] # <<>> /\ Seeded[r][1] = "imm"
                                /\ Seeded[r][2] \in Enum[Arg(here)]}}
  <2>1. PICK r \in Reg : /\ n.at = Seeded[r][3] /\ n.cell = Arg(here) /\ Op(here) = Stores[r]
                         /\ Seeded[r] # <<>> /\ Seeded[r][1] = "imm"
                         /\ Seeded[r][2] \in Enum[Arg(here)]
    BY <1>4
  <2>2. PICK p : Seeded[r] = <<"imm", Arg(p), p>> /\ HoldsImm(here, r, p) BY <1>2, <2>1 DEF Backed
  <2>3. n.at = p /\ Arg(p) \in Enum[n.cell] BY <2>1, <2>2
  <2>4. here # Branch BY <1>1, <2>1 DEF Reg, Stores
  <2>5. p \in 1..here - 1 BY <2>2 DEF HoldsImm
  <2>6. here \in p + 1..Branch - 1 BY <1>1, <2>4, <2>5
  <2> QED BY <2>1, <2>2, <2>3, <2>6 DEF Reason
<1> QED BY <1>3, <1>4 DEF Names

(***************************************************************************)
(* The processor: what the program alone says a register holds, it holds.  *)
(***************************************************************************)

Fields == {"mem", "regs", "from", "z", "n", "c", "v"}
IsMachine(m) == DOMAIN m = Fields /\ DOMAIN m.from = Reg

LEMMA FlaggedIs ==
  ASSUME NEW m, IsMachine(m), NEW res
  PROVE  IsMachine(Flagged(m, res)) /\ Flagged(m, res).from = m.from
<1> DEFINE new == Flagged(m, res)
<1>1. DOMAIN new = Fields /\ new.from = m.from BY DEF Flagged, IsMachine, Fields
<1> QED BY <1>1 DEF IsMachine

LEMMA RegWrittenIs ==
  ASSUME NEW m, IsMachine(m), NEW res, NEW reg \in Reg, NEW from, NEW r \in Reg
  PROVE  /\ IsMachine(RegWritten(m, reg, res, from))
         /\ RegWritten(m, reg, res, from).from[r] = IF r = reg THEN from ELSE m.from[r]
<1> DEFINE new == RegWritten(m, reg, res, from)
           f == Flagged(m, res)
<1>1. DOMAIN f = Fields /\ f.from = m.from /\ DOMAIN f.from = Reg
  BY FlaggedIs DEF IsMachine
<1> HIDE DEF f
<1>2. new = [f EXCEPT !.regs[reg] = res.val, !.from[reg] = from] BY DEF RegWritten, f
<1>3. DOMAIN new = Fields /\ new.from = [m.from EXCEPT ![reg] = from]
  BY <1>1, <1>2 DEF Fields
<1> HIDE DEF new
<1>4. DOMAIN new.from = Reg /\ new.from[r] = IF r = reg THEN from ELSE m.from[r]
  BY <1>1, <1>3
<1>5. IsMachine(new) BY <1>3, <1>4 DEF IsMachine
<1> QED BY <1>4, <1>5 DEF new

LEMMA AfterIs ==
  ASSUME prog \in Programs, NEW p \in 1..Branch, NEW m, IsMachine(m), NEW r \in Reg
  PROVE  /\ IsMachine(After(p, m))
         /\ ~Changes(p, r) => After(p, m).from[r] = m.from[r]
         /\ Op(p) = Load[r] /\ Mode(p) = "imm" => After(p, m).from[r] = <<"imm", p>>
         /\ Op(p) = Load[r] /\ Mode(p) = "abs" => After(p, m).from[r] = <<"var", Arg(p)>>
<1> DEFINE new == After(p, m)
           w == Value(p, m)
           op == Op(p)
<1>1. (Mode(p) = "acc" => op \in Shifts) /\ (op \in {"INX", "DEX"} => Mode(p) = "imp") BY PieceIs
<1>2. CASE op \in {"LDA", "LDX"}
  <2> DEFINE reg == IF op = "LDA" THEN "A" ELSE "X"
             from == CASE Mode(p) = "imm" -> <<"imm", p>> [] Mode(p) = "abs" -> <<"var", Arg(p)>>
                       [] OTHER -> <<>>
  <2>1. new = RegWritten(m, reg, [val |-> w, carry |-> m.c], from)
    BY <1>1, <1>2 DEF After, Arithmetic, Unary, Up, Down, Shifts
  <2>2. reg \in Reg /\ (r = reg <=> op = Load[r]) BY <1>2 DEF Reg, Load
  <2>3. op # Load[r] => ~(r = reg) BY <2>2
  <2>4. /\ Mode(p) = "imm" => from = <<"imm", p>>
        /\ Mode(p) = "abs" => from = <<"var", Arg(p)>>
    OBVIOUS
  <2> HIDE DEF reg, from, new, op
  <2>5. IsMachine(new) /\ new.from[r] = IF r = reg THEN from ELSE m.from[r]
    BY <2>1, <2>2, RegWrittenIs
  <2> QED BY <2>2, <2>4, <2>5 DEF Changes, new, op
<1>3. CASE op \in {"TXA", "TAX"}
  <2>1. \E reg \in Reg : \E from, res : new = RegWritten(m, reg, res, from) /\ op = Transfer[reg]
    <3>1. CASE op = "TXA"
      <4>1. new = RegWritten(m, "A", [val |-> m.regs["X"], carry |-> m.c], m.from["X"])
        BY <1>1, <3>1 DEF After, Arithmetic, Unary, Up, Down, Shifts
      <4> QED BY <3>1, <4>1 DEF Reg, Transfer
    <3>2. CASE op = "TAX"
      <4>1. new = RegWritten(m, "X", [val |-> m.regs["A"], carry |-> m.c], m.from["A"])
        BY <1>1, <3>2 DEF After, Arithmetic, Unary, Up, Down, Shifts
      <4> QED BY <3>2, <4>1 DEF Reg, Transfer
    <3> QED BY <1>3, <3>1, <3>2
  <2>2. PICK reg \in Reg : \E from, res : new = RegWritten(m, reg, res, from) /\ op = Transfer[reg]
    BY <2>1
  <2> PICK from, res : new = RegWritten(m, reg, res, from) /\ op = Transfer[reg] BY <2>2
  <2>3. op # Load[r] BY <1>3 DEF Reg, Load
  <2> HIDE DEF new
  <2>4. IsMachine(new) /\ new.from[r] = IF r = reg THEN from ELSE m.from[r]
    BY RegWrittenIs
  <2> QED BY <2>2, <2>3, <2>4 DEF Changes, new
<1>4. CASE op \in Arithmetic \/ (op \in Shifts /\ Mode(p) = "acc")
  <2>1. \E from, res : new = RegWritten(m, "A", res, from)
    <3>1. CASE op \in Arithmetic
      <4>1. new = RegWritten(m, "A", Alu(op, m.regs["A"], w, m.c), <<>>)
        BY <1>1, <3>1 DEF After, Arithmetic, Unary, Up, Down, Shifts
      <4> QED BY <4>1
    <3>2. CASE op \in Shifts /\ Mode(p) = "acc"
      <4>1. new = RegWritten(m, "A", Alu(op, m.regs["A"], 0, m.c), <<>>)
        BY <3>2 DEF After, Arithmetic, Shifts, Unary
      <4> QED BY <4>1
    <3> QED BY <1>4, <3>1, <3>2
  <2>2. PICK from, res : new = RegWritten(m, "A", res, from) BY <2>1
  <2>3. op # Load[r] BY <1>4 DEF Reg, Load, Arithmetic, Shifts
  <2>4. "A" \in Reg BY DEF Reg
  <2>5. IsMachine(new) /\ new.from[r] = IF r = "A" THEN from ELSE m.from[r]
    BY <2>2, <2>4, RegWrittenIs
  <2> QED BY <1>4, <2>3, <2>5 DEF Changes
<1>5. CASE op \in {"INX", "DEX"}
  <2>1. new = RegWritten(m, "X", Alu(op, m.regs["X"], 0, m.c), <<>>)
    BY <1>1, <1>5 DEF After, Arithmetic, Unary, Up, Down, Shifts
  <2>2. op # Load[r] /\ "X" \in Reg BY <1>5 DEF Reg, Load
  <2>3. IsMachine(new) /\ new.from[r] = IF r = "X" THEN <<>> ELSE m.from[r]
    BY <2>1, <2>2, RegWrittenIs
  <2> QED BY <1>5, <2>2, <2>3 DEF Changes
<1>6. CASE op \notin {"LDA", "LDX", "TXA", "TAX", "INX", "DEX"} \cup Arithmetic
           /\ ~(op \in Shifts /\ Mode(p) = "acc")
  <2>1. Mode(p) # "acc" \/ op \notin Unary BY <1>1, <1>6 DEF Unary
  <2>2. op # Load[r] BY <1>6 DEF Reg, Load
  <2>3. IsMachine(new) /\ new.from = m.from
    <3>1. CASE op \in Unary /\ Mode(p) = "abs"
      <4> DEFINE res == Alu(op, Value(p, m), 0, m.c)
                 f == Flagged(m, res)
      <4>1. new = [f EXCEPT !.mem[Arg(p)] = res.val]
        BY <1>1, <1>6, <3>1 DEF After, Arithmetic, Unary, Up, Down, Shifts
      <4>2. IsMachine(f) /\ f.from = m.from BY FlaggedIs
      <4> HIDE DEF f
      <4>3. DOMAIN new = Fields /\ new.from = f.from BY <4>1, <4>2 DEF IsMachine, Fields
      <4> QED BY <4>2, <4>3 DEF IsMachine
    <3>2. CASE op \in {"CMP", "CPX"}
      <4>1. \E res : new = Flagged(m, res) BY <1>6, <3>2 DEF After, Unary, Up, Down, Shifts
      <4> QED BY <4>1, FlaggedIs
    <3>3. CASE op = "BIT"
      <4>1. new = [m EXCEPT !.z = (BitAnd(m.regs["A"], w) = 0), !.n = (w >= Top),
                            !.v = (w % Top >= Top \div 2)]
        BY <1>6, <3>3 DEF After, Unary, Up, Down, Shifts
      <4>2. DOMAIN new = Fields /\ new.from = m.from BY <4>1 DEF IsMachine, Fields
      <4> QED BY <4>2 DEF IsMachine
    <3>4. CASE op \in {"STA", "STX"}
      <4>1. \E val : new = [m EXCEPT !.mem[Arg(p)] = val]
        BY <1>6, <3>4 DEF After, Unary, Up, Down, Shifts
      <4>2. DOMAIN new = Fields /\ new.from = m.from BY <4>1 DEF IsMachine, Fields
      <4> QED BY <4>2 DEF IsMachine
    <3>5. CASE op \in {"SEC", "CLC"}
      <4>1. new = [m EXCEPT !.c = (op = "SEC")]
        BY <1>6, <3>5 DEF After, Unary, Up, Down, Shifts
      <4>2. DOMAIN new = Fields /\ new.from = m.from BY <4>1 DEF IsMachine, Fields
      <4> QED BY <4>2 DEF IsMachine
    <3>6. CASE /\ ~(op \in Unary /\ Mode(p) = "abs")
               /\ op \notin {"CMP", "CPX", "BIT", "STA", "STX", "SEC", "CLC"}
      <4>1. new = m BY <1>6, <2>1, <3>6 DEF After
      <4> QED BY <4>1
    <3> QED BY <3>1, <3>2, <3>3, <3>4, <3>5, <3>6
  <2> QED BY <2>2, <2>3
<1> QED BY <1>2, <1>3, <1>4, <1>5, <1>6

Agrees(q, m) ==
  \A r \in Reg :
    /\ \A c : HoldsCell(q, r, c) => m.from[r] = <<"var", c>>
    /\ \A p : HoldsImm(q, r, p) => m.from[r] = <<"imm", p>>

TraceStands ==
  /\ \E S : trace \in Seq(S)
  /\ Len(trace) <= Branch
  /\ \A q \in 1..Len(trace) : IsMachine(trace[q]) /\ (Plain => Agrees(q, trace[q]))

LEMMA EntryIs == ASSUME NEW m \in Entry  PROVE IsMachine(m) /\ Agrees(1, m)
<1>1. PICK mem, regs, b : m = Enter(mem, regs, b)
  <2>1. \E mem \in {mm \in [Cell -> Word] : mm["v"] \in Samples}, regs \in [Reg -> Samples], b \in BOOLEAN :
          m = Enter(mem, regs, b)
    BY DEF Entry
  <2> QED BY <2>1
<1>2. /\ DOMAIN m = Fields
      /\ m.from = [r \in Reg |-> IF inputs[r] = "" THEN <<>> ELSE <<"var", inputs[r]>>]
  BY <1>1 DEF Enter, Fields
<1>3. IsMachine(m) BY <1>2 DEF IsMachine
<1>4. ASSUME NEW r \in Reg, NEW x, HoldsCell(1, r, x) PROVE m.from[r] = <<"var", x>>
  BY <1>2, <1>4, CellFirst
<1>5. ASSUME NEW r \in Reg, NEW p PROVE ~HoldsImm(1, r, p)
  <2>1. ~(p \in 1..1 - 1) OBVIOUS
  <2> QED BY <2>1 DEF HoldsImm
<1> QED BY <1>3, <1>4, <1>5 DEF Agrees

LEMMA ReturnedIs ==
  ASSUME NEW old, IsMachine(old), NEW m \in Returned(old), NEW p \in Nat, p > 0, Op(p) = "JSR"
  PROVE  IsMachine(m) /\ Agrees(p + 1, m)
<1>1. PICK s \in Samples, b \in BOOLEAN : m = Return(old, s, b) BY DEF Returned
<1>2. DOMAIN m = Fields /\ m.from = [r \in Reg |-> <<>>] BY <1>1 DEF Return, IsMachine, Fields
<1>3. IsMachine(m) BY <1>2 DEF IsMachine
<1>4. ASSUME NEW r \in Reg PROVE Changes(p, r) /\ Op(p) # Load[r] BY DEF Changes, Reg, Load
<1>5. \A r \in Reg : (\A x : ~HoldsCell(p + 1, r, x)) /\ (\A q : ~HoldsImm(p + 1, r, q))
  BY <1>4, CellOn, ImmOn
<1> QED BY <1>2, <1>3, <1>5 DEF Agrees

LEMMA AfterAgrees ==
  ASSUME prog \in Programs, NEW p \in 1..Branch, NEW old, IsMachine(old), Plain, Agrees(p, old)
  PROVE  Agrees(p + 1, After(p, old))
<1> DEFINE m == After(p, old)
<1>1. p \in Nat /\ p > 0 BY PieceIs
<1>2. ASSUME NEW r \in Reg
      PROVE  /\ ~Changes(p, r) => m.from[r] = old.from[r]
             /\ Op(p) = Load[r] /\ Mode(p) = "imm" => m.from[r] = <<"imm", p>>
             /\ Op(p) = Load[r] /\ Mode(p) = "abs" => m.from[r] = <<"var", Arg(p)>>
  BY AfterIs
<1> HIDE DEF m
<1>3. ASSUME NEW r \in Reg, NEW c, HoldsCell(p + 1, r, c) PROVE m.from[r] = <<"var", c>>
  <2>1. \/ HoldsCell(p, r, c) /\ ~Changes(p, r)
        \/ Op(p) = Load[r] /\ Mode(p) = "abs" /\ Arg(p) = c
    BY <1>1, <1>3, CellOn
  <2> QED BY <1>2, <2>1 DEF Agrees
<1>4. ASSUME NEW r \in Reg, NEW q, HoldsImm(p + 1, r, q) PROVE m.from[r] = <<"imm", q>>
  <2>1. \/ HoldsImm(p, r, q) /\ ~Changes(p, r)
        \/ q = p /\ Op(p) = Load[r] /\ Mode(p) = "imm"
    BY <1>1, <1>4, ImmOn
  <2> QED BY <1>2, <2>1 DEF Agrees
<1> QED BY <1>3, <1>4 DEF Agrees, m

LEMMA Lengthened ==
  ASSUME NEW S, NEW t \in Seq(S), NEW m
  PROVE  /\ Append(t, m) \in Seq(S \cup {m})
         /\ Len(Append(t, m)) = Len(t) + 1 /\ Append(t, m)[Len(t) + 1] = m
         /\ \A k \in 1..Len(t) : Append(t, m)[k] = t[k]
<1> DEFINE T == S \cup {m}
<1>1. t \in Seq(T)
  <2>1. t \in [1..Len(t) -> T] /\ Len(t) \in Nat OBVIOUS
  <2> HIDE DEF T
  <2>2. \A n \in Nat : \A f \in [1..n -> T] : f \in Seq(T) OBVIOUS
  <2> QED BY <2>1, <2>2
<1>2. m \in T OBVIOUS
<1> HIDE DEF T
<1>3. /\ Append(t, m) \in Seq(T) /\ Len(Append(t, m)) = Len(t) + 1 /\ Append(t, m)[Len(t) + 1] = m
      /\ \A k \in 1..Len(t) : Append(t, m)[k] = t[k]
  BY <1>1, <1>2
<1> QED BY <1>3 DEF T

LEMMA ExecuteKeeps ==
  ASSUME prog \in Programs, TraceStands, Execute  PROVE TraceStands'
<1>1. Branch \in Nat /\ Branch > 0 /\ Branch' = Branch /\ (Plain' <=> Plain)
  BY PieceIs DEF Execute, Branch, Plain, Mode
<1>2. \A q, m : Agrees(q, m)' <=> Agrees(q, m)
  BY DEF Execute, Agrees, HoldsCell, HoldsImm, Kept, Changes, Op, Mode, Arg
<1>3. CASE trace = <<>>
  <2>1. PICK m \in Entry : trace' = <<m>> BY <1>3 DEF Execute
  <2>2. Len(trace') = 1 /\ trace'[1] = m /\ trace' \in Seq({m}) BY <2>1
  <2>3. IsMachine(m) /\ Agrees(1, m) BY EntryIs
  <2>4. \A q \in 1..1 : q = 1 OBVIOUS
  <2> QED BY <1>1, <1>2, <2>2, <2>3, <2>4 DEF TraceStands, IsMachine
<1>4. CASE trace # <<>>
  <2> DEFINE p == Len(trace)
             old == trace[p]
  <2>1. p \in Nat /\ p # 0 /\ p < Branch /\ Last(trace) = old
    <3>1. \A S : \A t \in Seq(S) : Len(t) \in Nat /\ (Len(t) = 0 => t = <<>>) OBVIOUS
    <3> QED BY <1>4, <3>1 DEF TraceStands, Execute, Last
  <2>2. p \in 1..Branch /\ p \in 1..Len(trace) /\ p > 0 BY <1>1, <2>1
  <2>3. PICK m \in (IF Op(p) = "JSR" THEN Returned(old) ELSE {After(p, old)}) :
          trace' = Append(trace, m)
    BY <1>4, <2>1 DEF Execute
  <2> HIDE DEF p, old
  <2>4. IsMachine(old) /\ (Plain => Agrees(p, old)) BY <2>2 DEF TraceStands, p, old
  <2>5. IsMachine(m) /\ (Plain => Agrees(p + 1, m))
    <3>1. CASE Op(p) = "JSR"
      <4>1. m \in Returned(old) BY <2>3, <3>1
      <4> QED BY <2>1, <2>2, <2>4, <3>1, <4>1, ReturnedIs
    <3>2. CASE Op(p) # "JSR"
      <4>1. m = After(p, old) BY <2>3, <3>2
      <4>2. "A" \in Reg BY DEF Reg
      <4>3. IsMachine(m) BY <2>2, <2>4, <4>1, <4>2, AfterIs
      <4> QED BY <2>2, <2>4, <4>1, <4>3, AfterAgrees
    <3> QED BY <3>1, <3>2
  <2>6. /\ \E S : trace' \in Seq(S)
        /\ Len(trace') = p + 1 /\ trace'[p + 1] = m
        /\ \A k \in 1..p : trace'[k] = trace[k]
    <3>1. PICK S : trace \in Seq(S) BY DEF TraceStands
    <3>2. /\ Append(trace, m) \in Seq(S \cup {m})
          /\ Len(Append(trace, m)) = Len(trace) + 1 /\ Append(trace, m)[Len(trace) + 1] = m
          /\ \A k \in 1..Len(trace) : Append(trace, m)[k] = trace[k]
      BY <3>1, Lengthened
    <3> QED BY <2>3, <3>2 DEF p
  <2>7. Len(trace') <= Branch BY <1>1, <2>1, <2>6
  <2>8. ASSUME NEW q \in 1..Len(trace')
        PROVE  IsMachine(trace'[q]) /\ (Plain => Agrees(q, trace'[q]))
    <3>1. q = p + 1 \/ q \in 1..p BY <2>1, <2>6
    <3> QED BY <2>5, <2>6, <3>1 DEF TraceStands, p
  <2> QED BY <1>1, <1>2, <2>6, <2>7, <2>8 DEF TraceStands, IsMachine
<1> QED BY <1>3, <1>4

TextInv ==
  /\ prog \in Programs /\ here \in Nat /\ here > 0
  /\ FactStands /\ ProvStands /\ SubsStand /\ TraceStands

LEMMA TextBegins == ASSUME TextInit  PROVE TextInv
<1>1. prog \in Programs /\ here = 1 /\ fact = FactLhs /\ subs = <<>> /\ trace = <<>>
      /\ \A r \in Reg : prov[r] = <<>>
  BY DEF TextInit
<1>2. FactStands BY <1>1, FactIs
<1>3. ProvStands BY <1>1 DEF ProvStands, Backed
<1>4. SubsStand
  <2>1. DOMAIN subs = {} BY <1>1
  <2> QED BY <2>1 DEF SubsStand
<1>5. TraceStands
  <2>1. trace \in Seq({}) /\ Len(trace) = 0 BY <1>1
  <2>2. Branch \in Nat BY <1>1, PieceIs
  <2> QED BY <2>1, <2>2 DEF TraceStands
<1> QED BY <1>1, <1>2, <1>3, <1>4, <1>5 DEF TextInv

\* The program and what it says of its registers never change.
LEMMA PieceFixed ==
  ASSUME UNCHANGED <<prog, inputs>>
  PROVE  /\ Branch' = Branch /\ (Plain' <=> Plain)
         /\ \A q, r, c : HoldsCell(q, r, c)' <=> HoldsCell(q, r, c)
         /\ \A q, r, p : HoldsImm(q, r, p)' <=> HoldsImm(q, r, p)
         /\ \A p, c : Reason(p, c)' <=> Reason(p, c)
         /\ \A q, r, v : Backed(q, r, v)' <=> Backed(q, r, v)
         /\ \A q, m : Agrees(q, m)' <=> Agrees(q, m)
<1>1. Branch' = Branch /\ (Plain' <=> Plain) BY DEF Branch, Plain, Mode
<1>2. \A p : Op(p)' = Op(p) /\ Mode(p)' = Mode(p) /\ Arg(p)' = Arg(p) BY DEF Op, Mode, Arg
<1>3. \A q, r, c : HoldsCell(q, r, c)' <=> HoldsCell(q, r, c)
  BY DEF HoldsCell, Kept, Changes, Op, Mode, Arg
<1>4. \A q, r, p : HoldsImm(q, r, p)' <=> HoldsImm(q, r, p)
  BY DEF HoldsImm, Kept, Changes, Op, Mode, Arg
<1>5. \A p, c : Reason(p, c)' <=> Reason(p, c) BY <1>1, <1>2, <1>3, <1>4 DEF Reason
<1>6. \A q, r, v : Backed(q, r, v)' <=> Backed(q, r, v) BY <1>2, <1>3, <1>4 DEF Backed
<1>7. \A q, m : Agrees(q, m)' <=> Agrees(q, m) BY <1>3, <1>4 DEF Agrees
<1> QED BY <1>1, <1>3, <1>4, <1>5, <1>6, <1>7

LEMMA TraceKept ==
  ASSUME TraceStands, UNCHANGED <<prog, inputs, trace>>  PROVE TraceStands'
BY PieceFixed DEF TraceStands, IsMachine

\* Names are added, each with its reason.
LEMMA NamesAdded ==
  ASSUME NEW new, \A p \in DOMAIN new : Reason(p, new[p]), \A p \in DOMAIN subs : Reason(p, subs[p])
  PROVE  \A p \in DOMAIN Given(new) : Reason(p, Given(new)[p])
BY DEF Given

LEMMA WalkNamesKeeps == ASSUME TextInv, WalkNames  PROVE TextInv'
<1>1. prog \in Programs /\ here \in Nat /\ here > 0 /\ here <= Branch /\ Branch \in Nat
      /\ FactStands /\ ProvStands /\ SubsStand /\ TraceStands
  BY PieceIs DEF TextInv, WalkNames
<1>2. here \in 1..Branch BY <1>1
<1>3. UNCHANGED <<prog, inputs, fact, trace>> /\ here' = here + 1 BY DEF WalkNames
<1>4. ProvStands'
  <2>1. ASSUME Plain, NEW r \in Reg PROVE Backed(here + 1, r, prov'[r])
    <3>1. prov'[r] = Provenance(r) BY DEF WalkNames
    <3> QED BY <1>1, <1>2, <2>1, <3>1, ProvenanceBacked
  <2> QED BY <1>3, <2>1, PieceFixed DEF ProvStands
<1>5. SubsStand'
  <2> SUFFICES ASSUME Plain, fact.chain = <<>> PROVE \A p \in DOMAIN subs' : Reason(p, subs'[p])
    BY <1>3, PieceFixed DEF SubsStand
  <2> DEFINE new == [q \in {n.at : n \in Names} |-> (CHOOSE n \in Names : n.at = q).cell]
  <2>1. subs' = Given(new) BY DEF WalkNames
  <2>2. ASSUME NEW q \in DOMAIN new PROVE Reason(q, new[q])
    <3>1. PICK n \in Names : n = (CHOOSE k \in Names : k.at = q) /\ n.at = q BY <2>2
    <3>2. new[q] = n.cell BY <3>1
    <3> QED BY <1>1, <1>2, <3>1, <3>2, NamesReasoned
  <2> HIDE DEF new
  <2>3. \A q \in DOMAIN subs : Reason(q, subs[q]) BY <1>1 DEF SubsStand
  <2> QED BY <2>1, <2>2, <2>3, NamesAdded
<1>6. FactStands' BY <1>1, <1>3, FactKept
<1>7. TraceStands' BY <1>1, <1>3, TraceKept
<1> QED BY <1>1, <1>3, <1>4, <1>5, <1>6, <1>7 DEF TextInv

LEMMA SupplementKeeps == ASSUME TextInv, Supplement  PROVE TextInv'
<1>1. prog \in Programs /\ here = Branch + 1 /\ Branch \in Nat
      /\ FactStands /\ ProvStands /\ SubsStand /\ TraceStands
  BY PieceIs DEF TextInv, Supplement
<1>2. UNCHANGED <<prog, inputs, fact, trace>> /\ here' = here + 1 BY DEF Supplement
<1>3. ProvStands'
  <2>1. ~(here' <= Branch') BY <1>1, <1>2, PieceFixed
  <2> QED BY <2>1 DEF ProvStands
<1>4. SubsStand'
  <2> SUFFICES ASSUME Plain, fact.chain = <<>> PROVE \A p \in DOMAIN subs' : Reason(p, subs'[p])
    BY <1>2, PieceFixed DEF SubsStand
  <2>1. \A q \in DOMAIN subs : Reason(q, subs[q]) BY <1>1 DEF SubsStand
  <2>2. CASE subs' = subs BY <2>1, <2>2
  <2>3. CASE subs' # subs
    <3> DEFINE new == [q \in {Setter} |-> FactCell]
    <3>1. /\ subs' = Given(new)
          /\ Setter # 0 /\ RhsKind = "imm" /\ FactCell # "" /\ Arg(Setter) \in Enum[FactCell]
      BY <2>3 DEF Supplement
    <3>2. \E r \in Reg : Setter \in 1..Branch - 1 /\ Op(Setter) = Compare[r] /\ HoldsCell(Setter, r, FactCell)
      BY <1>1, <3>1 DEF FactStands
    <3>3. Setter \in 1..Branch BY <1>1, <3>2
    <3>4. Reason(Setter, FactCell) BY <3>1, <3>2, <3>3 DEF Reason
    <3>5. \A q \in DOMAIN new : Reason(q, new[q]) BY <3>4
    <3> HIDE DEF new
    <3> QED BY <2>1, <3>1, <3>5, NamesAdded
  <2> QED BY <2>2, <2>3
<1>5. FactStands' BY <1>1, <1>2, FactKept
<1>6. TraceStands' BY <1>1, <1>2, TraceKept
<1> QED BY <1>1, <1>2, <1>3, <1>4, <1>5, <1>6 DEF TextInv

LEMMA TextInductive == TextSpec => []TextInv
<1>1. TextInit => TextInv BY TextBegins
<1>2. TextInv /\ [TextNext]_textVars => TextInv'
  <2> SUFFICES ASSUME TextInv, [TextNext]_textVars PROVE TextInv' OBVIOUS
  <2>1. CASE WalkNames BY <2>1, WalkNamesKeeps
  <2>2. CASE Supplement BY <2>2, SupplementKeeps
  <2>3. CASE Comment \/ Execute \/ UNCHANGED textVars
    <3>1. /\ prog \in Programs /\ here \in Nat /\ here > 0 /\ Branch \in Nat
          /\ FactStands /\ ProvStands /\ SubsStand /\ TraceStands
      BY PieceIs DEF TextInv
    <3>2. UNCHANGED <<prog, inputs, fact, prov, subs>>
          /\ (here' = here \/ (here = Branch + 2 /\ here' = here + 1))
      BY <2>3 DEF Comment, Execute, textVars
    <3>3. ProvStands'
      <4>1. CASE here' = here BY <3>1, <3>2, <4>1, PieceFixed DEF ProvStands
      <4>2. CASE here = Branch + 2 /\ here' = here + 1
        <5>1. ~(here' <= Branch') BY <3>1, <3>2, <4>2, PieceFixed
        <5> QED BY <5>1 DEF ProvStands
      <4> QED BY <3>2, <4>1, <4>2
    <3>4. SubsStand' BY <3>1, <3>2, PieceFixed DEF SubsStand
    <3>5. TraceStands'
      <4>1. CASE Execute BY <3>1, <4>1, ExecuteKeeps
      <4>2. CASE trace' = trace BY <3>1, <3>2, <4>2, TraceKept
      <4> QED BY <2>3, <4>1, <4>2 DEF Comment, textVars
    <3>6. FactStands' BY <3>1, <3>2, FactKept
    <3> QED BY <3>1, <3>2, <3>3, <3>4, <3>5, <3>6 DEF TextInv
  <2> QED BY <2>1, <2>2, <2>3 DEF TextNext
<1> QED BY <1>1, <1>2, PTL DEF TextSpec

\* build_imm_substitutions gives a name only where the processor compares the
\* variable's unchanged value with the immediate, or stores it there, in pieces
\* without indexed accesses and without transforms in the fact.
THEOREM NamesAreProven == TextSpec => []NamesProven
<1>1. TextInv => NamesProven
  <2> SUFFICES ASSUME TextInv, \A p \in DOMAIN prog : Mode(p) # "abx", fact.chain = <<>>, AtBranch,
                      NEW p \in DOMAIN subs
               PROVE  Arg(p) \in Enum[subs[p]] /\ Bound(p)
    BY DEF NamesProven, NamesConservative
  <2> DEFINE c == subs[p]
  <2>1. Plain /\ Branch \in Nat /\ Len(trace) = Branch /\ SubsStand /\ TraceStands
    BY PieceIs DEF Plain, TextInv, AtBranch
  <2>2. Reason(p, c) BY <2>1 DEF SubsStand
  <2>3. \A q \in 1..Branch : Agrees(q, trace[q]) BY <2>1 DEF TraceStands
  <2>4. CASE \E r \in Reg : p \in 1..Branch /\ Op(p) = Compare[r] /\ HoldsCell(p, r, c)
    <3>1. PICK r \in Reg : p \in 1..Branch /\ Op(p) = Compare[r] /\ HoldsCell(p, r, c) BY <2>4
    <3>2. trace[p].from[r] = <<"var", c>> BY <2>3, <3>1 DEF Agrees
    <3> QED BY <2>2, <3>1, <3>2 DEF Bound, Reason
  <2>5. CASE \E r \in Reg : \E q \in p + 1..Branch - 1 :
               Op(q) = Stores[r] /\ Arg(q) = c /\ HoldsImm(q, r, p)
    <3>1. PICK r \in Reg : \E q \in p + 1..Branch - 1 :
            Op(q) = Stores[r] /\ Arg(q) = c /\ HoldsImm(q, r, p)
      BY <2>5
    <3>2. PICK q \in p + 1..Branch - 1 : Op(q) = Stores[r] /\ Arg(q) = c /\ HoldsImm(q, r, p)
      BY <3>1
    <3>3. q \in 1..Branch
      <4>1. p \in 1..q - 1 BY <3>2 DEF HoldsImm
      <4> QED BY <2>1, <4>1
    <3>4. trace[q].from[r] = <<"imm", p>> BY <2>3, <3>2, <3>3 DEF Agrees
    <3> QED BY <2>2, <3>2, <3>4 DEF Bound, Reason
  <2> QED BY <2>2, <2>4, <2>5 DEF Reason
<1> QED BY <1>1, TextInductive, PTL

(***************************************************************************)
(* The arithmetic of the processor.                                        *)
(***************************************************************************)

LEMMA WrapIs ==
  ASSUME NEW n \in Nat \ {0}, NEW v \in Int
  PROVE  /\ v % n \in 0..n - 1
         /\ v \in 0..n - 1 => v % n = v
         /\ v = n => v % n = 0
         /\ v = 0 - 1 => v % n = n - 1
         /\ v \in 1 - n..n - 1 => (v % n = 0 <=> v = 0)
OBVIOUS

LEMMA WordIs == Size \in Nat \ {0} /\ 0 \in Word /\ \A v \in Word : v \in Nat /\ v < Size
<1>1. Size \in Nat \ {0} BY WordAssumption
<1> QED BY <1>1 DEF Word

LEMMA WrapWord ==
  ASSUME NEW v \in Int
  PROVE  /\ v % Size \in Word
         /\ v \in Word => v % Size = v
         /\ v = Size => v % Size = 0
         /\ v = 0 - 1 => v % Size = Size - 1
BY WordIs, WrapIs DEF Word

\* One operation of the processor on a register, as a chain has it.
Stepped(i, v) == Alu(i.op, v, IF i.mode = "imm" THEN i.arg ELSE 0, FALSE).val

ChainOp(i) ==
  \/ i.op = "AND" /\ i.mode = "imm" /\ i.arg \in Word
  \/ i.op \in Shifts /\ i.mode = "acc"
  \/ i.op \in {"INX", "DEX", "TAX", "TXA"} /\ i.mode = "imp"

LEMMA AluIs ==
  ASSUME NEW op, NEW v, NEW w, NEW c
  PROVE  /\ Alu(op, v, w, c).val = Outcome(op, v, w, c) % Size
         /\ Alu(op, v, w, c).carry = CarryOut(op, v, w, c)
BY DEF Alu

LEMMA AluWord ==
  ASSUME NEW op, NEW v \in Word, NEW w \in Word, NEW c
  PROVE  Alu(op, v, w, c).val \in Word
<1>1. v \in Int /\ w \in Int BY WordIs
<1>2. Bit(c) \in Int /\ Bit(~c) \in Int BY DEF Bit
<1>3. BitAnd(v, w) \in Int /\ BitXor(v, w) \in Int BY BitsAssumption, WordIs
<1>4. Outcome(op, v, w, c) \in Int
  <2>1. CASE op \in {"AND", "EOR"}
    <3>1. CASE op = "AND" BY <1>3, <3>1 DEF Outcome, Up, Down
    <3>2. CASE op = "EOR" BY <1>3, <3>2 DEF Outcome, Up, Down
    <3> QED BY <2>1, <3>1, <3>2
  <2>2. CASE op \in {"ADC", "SBC"} BY <1>1, <1>2, <2>2 DEF Outcome
  <2>3. CASE op \in Up BY <1>1, <2>3 DEF Outcome, Up
  <2>4. CASE op \in Down BY <1>1, <2>4 DEF Outcome, Up, Down
  <2>5. CASE op \in Shifts BY <1>1, <2>5 DEF Outcome, Up, Down, Shifts
  <2>6. CASE op \notin {"AND", "EOR", "ADC", "SBC"} \cup Shifts \cup Up \cup Down
    BY <1>1, <2>6 DEF Outcome, Shifts
  <2> QED BY <2>1, <2>2, <2>3, <2>4, <2>5, <2>6
<1> QED BY <1>4, AluIs, WrapWord

\* The value does not depend on the carry, unless it is an addition.
LEMMA AluSame ==
  ASSUME NEW op, op \notin {"ADC", "SBC"}, NEW v, NEW w, NEW c, NEW d
  PROVE  Alu(op, v, w, c).val = Alu(op, v, w, d).val
<1>1. Outcome(op, v, w, c) = Outcome(op, v, w, d)
  <2>1. CASE op \in {"AND", "EOR"} BY <2>1 DEF Outcome
  <2>2. CASE op \in Up BY <2>2 DEF Outcome, Up
  <2>3. CASE op \in Down BY <2>3 DEF Outcome, Up, Down
  <2>4. CASE op \in Shifts BY <2>4 DEF Outcome, Up, Down, Shifts
  <2>5. CASE op \notin {"AND", "EOR"} \cup Shifts \cup Up \cup Down BY <2>5 DEF Outcome, Shifts
  <2> QED BY <2>1, <2>2, <2>3, <2>4, <2>5
<1> QED BY <1>1, AluIs

LEMMA AluFresh ==
  ASSUME NEW op, op \notin {"ADC", "SBC"}, NEW v, NEW w, NEW c
  PROVE  Alu(op, v, w, c).val = Alu(op, v, w, FALSE).val
<1> DEFINE no == FALSE
<1> HIDE DEF no
<1>1. Alu(op, v, w, c).val = Alu(op, v, w, no).val BY AluSame
<1> QED BY <1>1 DEF no

\* Nor does it depend on an operand that is not there.
LEMMA AluAlone ==
  ASSUME NEW op, op \notin Arithmetic, NEW v, NEW w, NEW x, NEW c
  PROVE  /\ Alu(op, v, w, c).val = Alu(op, v, x, c).val
         /\ Alu(op, v, w, c).carry = Alu(op, v, x, c).carry
<1>1. Outcome(op, v, w, c) = Outcome(op, v, x, c)
  <2>1. CASE op \in Up BY <2>1 DEF Outcome, Up
  <2>2. CASE op \in Down BY <2>2 DEF Outcome, Up, Down
  <2>3. CASE op \in Shifts BY <2>3 DEF Outcome, Up, Down, Shifts
  <2>4. CASE op \notin Shifts \cup Up \cup Down BY <2>4 DEF Outcome, Shifts, Arithmetic
  <2> QED BY <2>1, <2>2, <2>3, <2>4
<1>2. CarryOut(op, v, w, c) = CarryOut(op, v, x, c) BY DEF CarryOut, Arithmetic
<1> QED BY <1>1, <1>2, AluIs

LEMMA SteppedIs ==
  ASSUME NEW i, ChainOp(i), NEW v \in Word
  PROVE  /\ Stepped(i, v) \in Word
         /\ i.op \in {"TAX", "TXA"} => Stepped(i, v) = v
         /\ i.op = "INX" => Stepped(i, v) = (v + 1) % Size
         /\ i.op = "DEX" => Stepped(i, v) = (v - 1) % Size
<1> DEFINE w == IF i.mode = "imm" THEN i.arg ELSE 0
<1>1. w \in Word BY WordIs DEF ChainOp, Shifts
<1>2. /\ Stepped(i, v) = Alu(i.op, v, w, FALSE).val
      /\ Stepped(i, v) = Outcome(i.op, v, w, FALSE) % Size
  BY DEF Stepped, Alu
<1> HIDE DEF w
<1>3. Stepped(i, v) \in Word BY <1>1, <1>2, AluWord
<1>4. v \in Int /\ v % Size = v BY WordIs, WrapWord
<1>5. /\ i.op \in {"TAX", "TXA"} => Outcome(i.op, v, w, FALSE) = v
      /\ i.op = "INX" => Outcome(i.op, v, w, FALSE) = v + 1
      /\ i.op = "DEX" => Outcome(i.op, v, w, FALSE) = v - 1
  BY DEF Outcome, Up, Down
<1> QED BY <1>2, <1>3, <1>4, <1>5

\* A step up and one down cancel.
LEMMA StepsCancel ==
  ASSUME NEW v \in Word
  PROVE  (((v + 1) % Size) - 1) % Size = v /\ (((v - 1) % Size) + 1) % Size = v
<1>1. v \in Nat /\ v < Size /\ Size \in Nat \ {0} /\ v \in 0..Size - 1 BY WordIs DEF Word
<1>2. (((v + 1) % Size) - 1) % Size = v
  <2>1. CASE v + 1 = Size
    <3>1. v + 1 \in Int /\ 0 - 1 \in Int /\ v = Size - 1 BY <1>1, <2>1
    <3>2. (v + 1) % Size = 0 BY <2>1, <3>1, WrapWord
    <3>3. (0 - 1) % Size = Size - 1 BY <3>1, WrapWord
    <3> QED BY <3>1, <3>2, <3>3
  <2>2. CASE v + 1 # Size
    <3>1. v + 1 \in Int /\ v + 1 \in Word /\ v \in Int /\ (v + 1) - 1 = v BY <1>1, <2>2 DEF Word
    <3>2. (v + 1) % Size = v + 1 /\ v % Size = v BY <3>1, WrapWord
    <3> QED BY <3>1, <3>2
  <2> QED BY <2>1, <2>2
<1>3. (((v - 1) % Size) + 1) % Size = v
  <2>1. CASE v = 0
    <3>1. v - 1 \in Int /\ v - 1 = 0 - 1 /\ Size \in Int /\ (Size - 1) + 1 = Size BY <1>1, <2>1
    <3>2. (v - 1) % Size = Size - 1 BY <3>1, WrapWord
    <3>3. Size % Size = 0 BY <3>1, WrapWord
    <3> QED BY <2>1, <3>1, <3>2, <3>3
  <2>2. CASE v # 0
    <3>1. v - 1 \in Int /\ v - 1 \in Word /\ v \in Int /\ (v - 1) + 1 = v BY <1>1, <2>2 DEF Word
    <3>2. (v - 1) % Size = v - 1 /\ v % Size = v BY <3>1, WrapWord
    <3> QED BY <3>1, <3>2
  <2> QED BY <2>1, <2>2
<1> QED BY <1>2, <1>3

LEMMA InverseSteps ==
  ASSUME NEW i, ChainOp(i), NEW j, ChainOp(j), Cancels(i, j), NEW v \in Word
  PROVE  Stepped(i, Stepped(j, v)) = v
<1>1. (i.op = "INX" /\ j.op = "DEX") \/ (i.op = "DEX" /\ j.op = "INX") BY DEF Cancels
<1>2. Stepped(j, v) \in Word BY SteppedIs
<1>3. CASE i.op = "INX" /\ j.op = "DEX" BY <1>2, <1>3, SteppedIs, StepsCancel
<1>4. CASE i.op = "DEX" /\ j.op = "INX" BY <1>2, <1>4, SteppedIs, StepsCancel
<1> QED BY <1>1, <1>3, <1>4

\* Two steps, or a transfer and anything, may be exchanged.
LEMMA StepsCommute ==
  ASSUME NEW i, ChainOp(i), NEW j, ChainOp(j), NEW v \in Word,
         i.op \in {"TAX", "TXA"} \/ j.op \in {"TAX", "TXA"}
           \/ (i.op \notin ({"AND"} \cup Shifts) /\ j.op \notin ({"AND"} \cup Shifts))
  PROVE  Stepped(i, Stepped(j, v)) = Stepped(j, Stepped(i, v))
<1>1. Stepped(i, v) \in Word /\ Stepped(j, v) \in Word BY SteppedIs
<1>2. CASE i.op \in {"TAX", "TXA"} BY <1>1, <1>2, SteppedIs
<1>3. CASE j.op \in {"TAX", "TXA"} BY <1>1, <1>3, SteppedIs
<1>4. CASE i.op = j.op /\ i.op \in {"INX", "DEX"} BY <1>1, <1>4, SteppedIs
<1>5. CASE Cancels(i, j)
  <2>1. Cancels(j, i) BY <1>5 DEF Cancels
  <2> QED BY <1>5, <2>1, InverseSteps
<1>6. \/ i.op \in {"TAX", "TXA"} \/ j.op \in {"TAX", "TXA"}
      \/ (i.op = j.op /\ i.op \in {"INX", "DEX"}) \/ Cancels(i, j)
  BY DEF ChainOp, Cancels
<1> QED BY <1>2, <1>3, <1>4, <1>5, <1>6

(***************************************************************************)
(* A chain: what it makes of a word, folded or not, in either order.       *)
(***************************************************************************)

\* An operation of the chain and what is behind it.
FoldStep(f, chain, i) ==
  IF i = 0 THEN <<>>
  ELSE IF f[i - 1] # <<>> /\ Cancels(Last(f[i - 1]), chain[i])
       THEN Front(f[i - 1]) ELSE Append(f[i - 1], chain[i])

LEMMA FoldStepFrom ==
  ASSUME NEW f, NEW g, NEW chain, NEW i, i = 0 \/ f[i - 1] = g[i - 1]
  PROVE  FoldStep(f, chain, i) = FoldStep(g, chain, i)
BY DEF FoldStep

LEMMA FoldExists ==
  ASSUME NEW chain, NEW n \in Nat
  PROVE  \E f : f = [i \in 0..n |-> FoldStep(f, chain, i)]
<1> DEFINE Reached(m) == \E f : f = [i \in 0..m |-> FoldStep(f, chain, i)]
           S == {m \in 0..n : ~Reached(m)}
<1>1. Reached(0)
  <2> DEFINE g == [i \in 0..0 |-> <<>>]
  <2>1. \A i \in 0..0 : FoldStep(g, chain, i) = <<>> BY DEF FoldStep
  <2>2. g = [i \in 0..0 |-> FoldStep(g, chain, i)] BY <2>1
  <2> QED BY <2>2
<1>2. ASSUME NEW m \in Nat, Reached(m) PROVE Reached(m + 1)
  <2>1. PICK f : f = [i \in 0..m |-> FoldStep(f, chain, i)] BY <1>2
  <2> DEFINE g == [i \in 0..(m + 1) |-> IF i = m + 1 THEN FoldStep(f, chain, m + 1) ELSE f[i]]
  <2>2. ASSUME NEW i \in 0..(m + 1) PROVE g[i] = FoldStep(g, chain, i)
    <3>1. \A j \in 0..m : g[j] = f[j] BY <1>2
    <3>2. i = 0 \/ (i - 1 \in 0..m /\ g[i - 1] = f[i - 1]) BY <3>1
    <3> HIDE DEF g
    <3>3. FoldStep(f, chain, i) = FoldStep(g, chain, i) BY <3>2, FoldStepFrom
    <3>4. CASE i = m + 1 BY <3>3, <3>4 DEF g
    <3>5. CASE i # m + 1
      <4>1. i \in 0..m BY <1>2, <3>5
      <4>2. f[i] = FoldStep(f, chain, i) BY <2>1, <4>1, Zenon
      <4> QED BY <3>1, <3>3, <4>1, <4>2
    <3> QED BY <3>4, <3>5
  <2>3. g = [i \in 0..(m + 1) |-> FoldStep(g, chain, i)]
    <3>1. g = [i \in 0..(m + 1) |-> g[i]] OBVIOUS
    <3> HIDE DEF g
    <3> QED BY <2>2, <3>1
  <2> QED BY <2>3
<1>3. S = {}
  <2> SUFFICES ASSUME S # {} PROVE FALSE OBVIOUS
  <2>1. S \in SUBSET Nat OBVIOUS
  <2>2. PICK m \in S : \A x \in S : m <= x BY <2>1, MinIs
  <2>3. m \in 0..n /\ ~Reached(m) BY <2>2
  <2>4. m # 0 BY <1>1, <2>3
  <2>5. m - 1 \in 0..n /\ ~(m <= m - 1) /\ m - 1 \in Nat /\ (m - 1) + 1 = m BY <2>3, <2>4
  <2>6. Reached(m - 1) BY <2>2, <2>5
  <2> HIDE DEF Reached
  <2>7. Reached((m - 1) + 1) BY <1>2, <2>5, <2>6
  <2> QED BY <2>3, <2>5, <2>7
<1> QED BY <1>3

\* Folded, an operation at a time.
LEMMA FoldedIs ==
  ASSUME NEW chain, Len(chain) \in Nat
  PROVE  \E f : f = [i \in 0..Len(chain) |-> FoldStep(f, chain, i)] /\ Folded(chain) = f[Len(chain)]
<1> DEFINE fold == CHOOSE f : f = [i \in 0..Len(chain) |-> FoldStep(f, chain, i)]
<1>1. fold = [i \in 0..Len(chain) |-> FoldStep(fold, chain, i)] BY FoldExists
<1>2. Folded(chain) = fold[Len(chain)] BY DEF Folded, FoldStep
<1> QED BY <1>1, <1>2

\* The chain c, newest operation first, makes w of v.
Yields(c, v, w) ==
  \E g \in [0..Len(c) -> Word] :
    g[0] = w /\ g[Len(c)] = v /\ \A i \in 1..Len(c) : g[i - 1] = Stepped(c[i], g[i])

LEMMA NothingYields == ASSUME NEW v \in Word  PROVE Yields(<<>>, v, v)
<1> DEFINE g == [i \in 0..0 |-> v]
<1>1. Len(<<>>) = 0 OBVIOUS
<1>2. g \in [0..0 -> Word] /\ g[0] = v OBVIOUS
<1> HIDE DEF g
<1>3. \A i : ~(i \in 1..0) OBVIOUS
<1> QED BY <1>1, <1>2, <1>3 DEF Yields

LEMMA FrontIs ==
  ASSUME NEW S, NEW s \in Seq(S), s # <<>>
  PROVE  /\ Front(s) \in Seq(S) /\ Len(s) \in Nat \ {0} /\ Len(Front(s)) = Len(s) - 1
         /\ \A i \in 1..Len(s) - 1 : Front(s)[i] = s[i]
         /\ Last(s) = s[Len(s)] /\ Last(s) \in S
<1>1. Len(s) \in Nat \ {0} OBVIOUS
<1>2. Front(s) = SubSeq(s, 1, Len(s) - 1) BY DEF Front
<1>3. SubSeq(s, 1, Len(s) - 1) = [i \in 1..Len(s) - 1 |-> s[i]] BY <1>1
<1>4. \A i \in 1..Len(s) : s[i] \in S OBVIOUS
<1>5. Last(s) = s[Len(s)] BY DEF Last
<1>6. \A n \in Nat : \A h \in [1..n -> S] : h \in Seq(S) /\ Len(h) = n OBVIOUS
<1>7. [i \in 1..Len(s) - 1 |-> s[i]] \in [1..Len(s) - 1 -> S] BY <1>1, <1>4
<1>8. Len(s) - 1 \in Nat /\ Len(s) \in 1..Len(s) BY <1>1
<1>9. Front(s) \in Seq(S) /\ Len(Front(s)) = Len(s) - 1 BY <1>2, <1>3, <1>6, <1>7, <1>8
<1>10. \A i \in 1..Len(s) - 1 : Front(s)[i] = s[i] BY <1>2, <1>3
<1> QED BY <1>1, <1>4, <1>5, <1>8, <1>9, <1>10

LEMMA AppendYields ==
  ASSUME NEW S, NEW kept \in Seq(S), NEW x \in S, NEW v \in Word, NEW w,
         Yields(kept, Stepped(x, v), w)
  PROVE  Yields(Append(kept, x), v, w)
<1> DEFINE n == Len(kept)
           new == Append(kept, x)
<1>1. /\ n \in Nat /\ Len(new) = n + 1 /\ new[n + 1] = x
      /\ \A i \in 1..n : new[i] = kept[i]
  OBVIOUS
<1>2. PICK g \in [0..n -> Word] :
        g[0] = w /\ g[n] = Stepped(x, v) /\ \A i \in 1..n : g[i - 1] = Stepped(kept[i], g[i])
  BY DEF Yields
<1> DEFINE h == [i \in 0..n + 1 |-> IF i = n + 1 THEN v ELSE g[i]]
<1>3. /\ h \in [0..n + 1 -> Word] /\ h[0] = w /\ h[n + 1] = v
      /\ \A i \in 0..n : h[i] = g[i]
  BY <1>1, <1>2
<1> HIDE DEF h, new, n
<1>4. ASSUME NEW i \in 1..n + 1 PROVE h[i - 1] = Stepped(new[i], h[i])
  <2>1. CASE i = n + 1
    <3>1. i - 1 = n /\ n \in 0..n BY <1>1, <2>1
    <3> QED BY <1>1, <1>2, <1>3, <2>1, <3>1
  <2>2. CASE i # n + 1
    <3>1. i \in 1..n /\ i \in 0..n /\ i - 1 \in 0..n BY <1>1, <2>2
    <3> QED BY <1>1, <1>2, <1>3, <3>1
  <2> QED BY <2>1, <2>2
<1> QED BY <1>1, <1>3, <1>4 DEF Yields, new

LEMMA CancelYields ==
  ASSUME NEW S, \A i \in S : ChainOp(i), NEW kept \in Seq(S), kept # <<>>, NEW x \in S, NEW v \in Word,
         NEW w, Cancels(Last(kept), x), Yields(kept, Stepped(x, v), w)
  PROVE  Yields(Front(kept), v, w)
<1> DEFINE n == Len(kept) - 1
           new == Front(kept)
<1>1. /\ n \in Nat /\ Len(kept) = n + 1 /\ Len(new) = n
      /\ \A i \in 1..n : new[i] = kept[i]
      /\ Last(kept) = kept[n + 1] /\ Last(kept) \in S
  BY FrontIs
<1> HIDE DEF n, new
<1>2. PICK g \in [0..n + 1 -> Word] :
        /\ g[0] = w /\ g[n + 1] = Stepped(x, v)
        /\ \A i \in 1..n + 1 : g[i - 1] = Stepped(kept[i], g[i])
  BY <1>1 DEF Yields
<1>3. g[n] = v
  <2>1. n + 1 \in 1..n + 1 /\ (n + 1) - 1 = n BY <1>1
  <2>2. g[n] = Stepped(Last(kept), Stepped(x, v)) BY <1>1, <1>2, <2>1
  <2> QED BY <1>1, <2>2, InverseSteps
<1> DEFINE h == [i \in 0..n |-> g[i]]
<1>4. h \in [0..n -> Word] /\ h[0] = w /\ h[n] = v /\ \A i \in 0..n : h[i] = g[i]
  BY <1>1, <1>2, <1>3
<1> HIDE DEF h
<1>5. ASSUME NEW i \in 1..n PROVE h[i - 1] = Stepped(new[i], h[i])
  <2>1. i \in 1..n + 1 /\ i \in 0..n /\ i - 1 \in 0..n BY <1>1
  <2> QED BY <1>1, <1>2, <1>4, <2>1
<1> QED BY <1>1, <1>4, <1>5 DEF Yields, new

LEMMA FoldedYields ==
  ASSUME NEW S, \A i \in S : ChainOp(i), NEW c \in Seq(S), NEW v, NEW w, Yields(c, v, w)
  PROVE  /\ Folded(c) \in Seq(S) /\ Yields(Folded(c), v, w)
         /\ c # <<>> /\ c[1].op \notin {"INX", "DEX"} => Folded(c) # <<>> /\ Folded(c)[1] = c[1]
<1>1. Len(c) \in Nat /\ \A i \in 1..Len(c) : c[i] \in S OBVIOUS
<1> DEFINE n == Len(c)
<1>2. PICK f : f = [i \in 0..n |-> FoldStep(f, c, i)] /\ Folded(c) = f[n] BY <1>1, FoldedIs
<1>3. \A i \in 0..n : f[i] = FoldStep(f, c, i) BY <1>2, Zenon
<1>4. PICK g \in [0..n -> Word] :
        g[0] = w /\ g[n] = v /\ \A i \in 1..n : g[i - 1] = Stepped(c[i], g[i])
  BY DEF Yields
<1> DEFINE Headed(k) == k > 0 /\ c[1].op \notin {"INX", "DEX"} => f[k] # <<>> /\ f[k][1] = c[1]
           Fine(k) == f[k] \in Seq(S) /\ Yields(f[k], g[k], w) /\ Headed(k)
           Bad == {k \in 0..n : ~Fine(k)}
<1>5. Fine(0)
  <2>1. 0 \in 0..n BY <1>1
  <2>2. f[0] = <<>> BY <1>3, <2>1 DEF FoldStep
  <2>3. Yields(<<>>, g[0], w) BY <1>4, <2>1, NothingYields
  <2>4. <<>> \in Seq(S) /\ ~(0 > 0) OBVIOUS
  <2> QED BY <2>2, <2>3, <2>4
<1>6. ASSUME NEW k \in 1..n, Fine(k - 1) PROVE Fine(k)
  <2> DEFINE kept == f[k - 1]
             x == c[k]
  <2>1. /\ k \in 0..n /\ k # 0 /\ k > 0 /\ x \in S /\ g[k] \in Word /\ g[k - 1] = Stepped(x, g[k])
        /\ k - 1 \in Nat /\ (k = 1 \/ k - 1 > 0)
    BY <1>1, <1>4
  <2>2. kept \in Seq(S) /\ Yields(kept, Stepped(x, g[k]), w) BY <1>6, <2>1
  <2>3. f[k] = IF kept # <<>> /\ Cancels(Last(kept), x) THEN Front(kept) ELSE Append(kept, x)
    BY <1>3, <2>1 DEF FoldStep
  <2>4. k = 1 => kept = <<>>
    <3>1. 0 \in 0..n BY <1>1
    <3>2. f[0] = <<>> BY <1>3, <3>1 DEF FoldStep
    <3> QED BY <3>2
  <2>5. k # 1 => Headed(k - 1) BY <1>6
  <2>6. CASE kept # <<>> /\ Cancels(Last(kept), x)
    <3>1. f[k] = Front(kept) BY <2>3, <2>6
    <3>2. Yields(Front(kept), g[k], w) BY <2>1, <2>2, <2>6, CancelYields
    <3>3. /\ Front(kept) \in Seq(S) /\ Len(kept) \in Nat \ {0} /\ Len(Front(kept)) = Len(kept) - 1
          /\ \A i \in 1..Len(kept) - 1 : Front(kept)[i] = kept[i]
          /\ Last(kept) = kept[Len(kept)]
      BY <2>2, <2>6, FrontIs
    <3>4. ASSUME c[1].op \notin {"INX", "DEX"} PROVE f[k] # <<>> /\ f[k][1] = c[1]
      <4>1. kept[1] = c[1] BY <2>1, <2>4, <2>5, <2>6, <3>4
      <4>2. Last(kept).op \in {"INX", "DEX"} BY <2>6 DEF Cancels
      <4>3. Len(kept) # 1 BY <3>3, <3>4, <4>1, <4>2
      <4>4. \A m \in Nat \ {0} : m # 1 => 1 \in 1..m - 1 /\ m - 1 # 0 OBVIOUS
      <4>5. 1 \in 1..Len(kept) - 1 /\ Len(Front(kept)) # 0 BY <3>3, <4>3, <4>4
      <4>6. Front(kept) # <<>> BY <4>5
      <4> QED BY <3>1, <3>3, <4>1, <4>5, <4>6
    <3> QED BY <3>1, <3>2, <3>3, <3>4
  <2>7. CASE ~(kept # <<>> /\ Cancels(Last(kept), x))
    <3>1. f[k] = Append(kept, x) BY <2>3, <2>7
    <3>2. Yields(Append(kept, x), g[k], w) BY <2>1, <2>2, AppendYields
    <3>3. \A T : \A o \in Seq(T), y \in T :
            /\ Append(o, y) \in Seq(T) /\ Append(o, y) # <<>>
            /\ o = <<>> => Append(o, y)[1] = y
            /\ o # <<>> => Append(o, y)[1] = o[1]
      OBVIOUS
    <3>4. /\ Append(kept, x) \in Seq(S) /\ Append(kept, x) # <<>>
          /\ kept = <<>> => Append(kept, x)[1] = x
          /\ kept # <<>> => Append(kept, x)[1] = kept[1]
      BY <2>1, <2>2, <3>3
    <3>5. ASSUME c[1].op \notin {"INX", "DEX"} PROVE f[k][1] = c[1]
      <4>1. CASE k = 1 BY <2>4, <3>1, <3>4, <4>1
      <4>2. CASE k # 1
        <5>1. kept # <<>> /\ kept[1] = c[1] BY <2>1, <2>5, <3>5, <4>2
        <5> QED BY <3>1, <3>4, <5>1
      <4> QED BY <4>1, <4>2
    <3> QED BY <3>1, <3>2, <3>4, <3>5
  <2> QED BY <2>6, <2>7
<1> HIDE DEF Fine
<1>7. Bad = {}
  <2> SUFFICES ASSUME Bad # {} PROVE FALSE OBVIOUS
  <2>1. Bad \in SUBSET Nat OBVIOUS
  <2>2. PICK k \in Bad : \A j \in Bad : k <= j BY <2>1, MinIs
  <2>3. k \in 0..n /\ ~Fine(k) BY <2>2
  <2>4. k # 0 BY <1>5, <2>3
  <2>5. k \in 1..n /\ k - 1 \in 0..n /\ ~(k <= k - 1) BY <1>1, <2>3, <2>4
  <2>6. Fine(k - 1) BY <2>2, <2>5
  <2> QED BY <1>6, <2>3, <2>5, <2>6
<1>8. Fine(n)
  <2>1. n \in 0..n BY <1>1
  <2> QED BY <1>7, <2>1
<1>9. c # <<>> => n > 0 OBVIOUS
<1> QED BY <1>2, <1>4, <1>8, <1>9 DEF Fine

\* Operations that may be exchanged give the same in either order.
LEMMA EitherOrder ==
  ASSUME NEW S, \A i \in S : ChainOp(i), NEW c \in Seq(S), NEW w, NEW k \in [0..Len(c) -> Word],
         Yields(c, k[0], w), \A i \in 1..Len(c) : k[i] = Stepped(c[i], k[i - 1]),
         \A i, j \in 1..Len(c) : i # j =>
           \A x \in Word : Stepped(c[i], Stepped(c[j], x)) = Stepped(c[j], Stepped(c[i], x))
  PROVE  k[Len(c)] = w
<1> DEFINE n == Len(c)
<1>1. n \in Nat /\ \A i \in 1..n : c[i] \in S OBVIOUS
<1>2. PICK g \in [0..n -> Word] :
        g[0] = w /\ g[n] = k[0] /\ \A i \in 1..n : g[i - 1] = Stepped(c[i], g[i])
  BY DEF Yields
<1> DEFINE Back(h, j) == h \in [0..j -> Word] /\ \A i \in 1..j : h[i - 1] = Stepped(c[i], h[i])
           Forth(h, j) == h \in [0..j -> Word] /\ \A i \in 1..j : h[i] = Stepped(c[i], h[i - 1])
           Same(j) == \A h, f : Back(h, j) /\ Forth(f, j) /\ h[j] = f[0] => h[0] = f[j]
           Bad == {j \in 0..n : ~Same(j)}
<1> HIDE DEF n
<1>3. Same(0) OBVIOUS
<1>4. ASSUME NEW m \in 1..n, Same(m - 1) PROVE Same(m)
  <2> SUFFICES ASSUME NEW h, NEW f, Back(h, m), Forth(f, m), h[m] = f[0] PROVE h[0] = f[m]
    OBVIOUS
  <2> DEFINE p == m - 1
             hh == [i \in 0..p |-> h[i]]
             ff == [i \in 0..p |-> Stepped(c[m], f[i])]
  <2>1. /\ m \in Nat /\ p \in Nat /\ p + 1 = m /\ m \in 1..n /\ m \in 0..m /\ 0 \in 0..m /\ p \in 0..m
        /\ m \in 1..m /\ 0 \in 0..p /\ p \in 0..p
        /\ \A i \in 0..p : i \in 0..m
        /\ \A i \in 1..p : i \in 1..m /\ i \in 1..n /\ i # m /\ i - 1 \in 0..p /\ i \in 0..p
    BY <1>1
  <2>2. ChainOp(c[m]) /\ \A i \in 1..p : ChainOp(c[i]) BY <1>1, <2>1
  <2> HIDE DEF p
  <2>3. Back(hh, p) BY <2>1
  <2>4. Forth(ff, p)
    <3>1. ff \in [0..p -> Word] BY <2>1, <2>2, SteppedIs
    <3>2. ASSUME NEW i \in 1..p PROVE ff[i] = Stepped(c[i], ff[i - 1])
      <4>1. ff[i] = Stepped(c[m], Stepped(c[i], f[i - 1])) BY <2>1
      <4>2. ff[i - 1] = Stepped(c[m], f[i - 1]) BY <2>1
      <4>3. f[i - 1] \in Word BY <2>1
      <4> QED BY <2>1, <4>1, <4>2, <4>3 DEF n
    <3> HIDE DEF ff
    <3> QED BY <3>1, <3>2
  <2>5. hh[p] = ff[0]
    <3>1. h[m - 1] = Stepped(c[m], h[m]) BY <2>1
    <3> QED BY <2>1, <3>1 DEF p
  <2>6. hh[0] = h[0] /\ ff[p] = Stepped(c[m], f[p]) BY <2>1
  <2>7. f[m] = Stepped(c[m], f[p]) BY <2>1 DEF p
  <2> HIDE DEF hh, ff, Back, Forth
  <2>8. Same(p) BY <1>4 DEF p
  <2> QED BY <2>3, <2>4, <2>5, <2>6, <2>7, <2>8
<1> HIDE DEF Same
<1>5. Bad = {}
  <2> SUFFICES ASSUME Bad # {} PROVE FALSE OBVIOUS
  <2>1. Bad \in SUBSET Nat OBVIOUS
  <2>2. PICK m \in Bad : \A j \in Bad : m <= j BY <2>1, MinIs
  <2>3. m \in 0..n /\ ~Same(m) BY <2>2
  <2>4. m # 0 BY <1>3, <2>3
  <2>5. m \in 1..n /\ m - 1 \in 0..n /\ ~(m <= m - 1) BY <1>1, <2>3, <2>4
  <2>6. Same(m - 1) BY <2>2, <2>5
  <2> QED BY <1>4, <2>3, <2>5, <2>6
<1>6. Same(n)
  <2>1. n \in 0..n BY <1>1
  <2> QED BY <1>5, <2>1
<1>7. Back(g, n) /\ Forth(k, n) BY <1>2 DEF n
<1> QED BY <1>2, <1>6, <1>7 DEF Same, n

(***************************************************************************)
(* What a text means, an operation at a time.                              *)
(***************************************************************************)

OperandOf(i) ==
  CASE i.mode = "imm" -> i.arg [] i.mode = "abs" -> trace[Setter].mem[i.arg] [] OTHER -> 0

RunStep(t, f, k) ==
  IF k = 0 THEN [val |-> Source(t.lhs), carry |-> FALSE]
  ELSE Alu(t.ops[k].op, f[k - 1].val, OperandOf(t.ops[k]), t.ops[k].op = "SBC")

LEMMA RunStepFrom ==
  ASSUME NEW f, NEW g, NEW t, NEW k, k = 0 \/ f[k - 1] = g[k - 1]
  PROVE  RunStep(t, f, k) = RunStep(t, g, k)
BY DEF RunStep

LEMMA RunExists ==
  ASSUME NEW t, NEW n \in Nat
  PROVE  \E f : f = [i \in 0..n |-> RunStep(t, f, i)]
<1> DEFINE Reached(m) == \E f : f = [i \in 0..m |-> RunStep(t, f, i)]
           S == {m \in 0..n : ~Reached(m)}
<1>1. Reached(0)
  <2> DEFINE g == [i \in 0..0 |-> RunStep(t, <<>>, 0)]
  <2>1. ASSUME NEW i \in 0..0 PROVE RunStep(t, <<>>, 0) = RunStep(t, g, i)
    <3>1. i = 0 OBVIOUS
    <3> HIDE DEF g
    <3> QED BY <3>1, RunStepFrom
  <2>2. g = [i \in 0..0 |-> RunStep(t, g, i)] BY <2>1
  <2> QED BY <2>2
<1>2. ASSUME NEW m \in Nat, Reached(m) PROVE Reached(m + 1)
  <2>1. PICK f : f = [i \in 0..m |-> RunStep(t, f, i)] BY <1>2
  <2> DEFINE g == [i \in 0..(m + 1) |-> IF i = m + 1 THEN RunStep(t, f, m + 1) ELSE f[i]]
  <2>2. ASSUME NEW i \in 0..(m + 1) PROVE g[i] = RunStep(t, g, i)
    <3>1. \A j \in 0..m : g[j] = f[j] BY <1>2
    <3>2. i = 0 \/ (i - 1 \in 0..m /\ g[i - 1] = f[i - 1]) BY <3>1
    <3> HIDE DEF g
    <3>3. RunStep(t, f, i) = RunStep(t, g, i) BY <3>2, RunStepFrom
    <3>4. CASE i = m + 1 BY <3>3, <3>4 DEF g
    <3>5. CASE i # m + 1
      <4>1. i \in 0..m BY <1>2, <3>5
      <4>2. f[i] = RunStep(t, f, i) BY <2>1, <4>1, Zenon
      <4> QED BY <3>1, <3>3, <4>1, <4>2
    <3> QED BY <3>4, <3>5
  <2>3. g = [i \in 0..(m + 1) |-> RunStep(t, g, i)]
    <3>1. g = [i \in 0..(m + 1) |-> g[i]] OBVIOUS
    <3> HIDE DEF g
    <3> QED BY <2>2, <3>1
  <2> QED BY <2>3
<1>3. S = {}
  <2> SUFFICES ASSUME S # {} PROVE FALSE OBVIOUS
  <2>1. S \in SUBSET Nat OBVIOUS
  <2>2. PICK m \in S : \A x \in S : m <= x BY <2>1, MinIs
  <2>3. m \in 0..n /\ ~Reached(m) BY <2>2
  <2>4. m # 0 BY <1>1, <2>3
  <2>5. m - 1 \in 0..n /\ ~(m <= m - 1) /\ m - 1 \in Nat /\ (m - 1) + 1 = m BY <2>3, <2>4
  <2>6. Reached(m - 1) BY <2>2, <2>5
  <2> HIDE DEF Reached
  <2>7. Reached((m - 1) + 1) BY <1>2, <2>5, <2>6
  <2> QED BY <2>3, <2>5, <2>7
<1> QED BY <1>3

LEMMA MeantIs ==
  ASSUME NEW t, Len(t.ops) \in Nat
  PROVE  \E f : /\ f[0] = [val |-> Source(t.lhs), carry |-> FALSE]
                /\ \A k \in 1..Len(t.ops) :
                     f[k] = Alu(t.ops[k].op, f[k - 1].val, OperandOf(t.ops[k]), t.ops[k].op = "SBC")
                /\ Meant(t) = f[Len(t.ops)]
<1> DEFINE n == Len(t.ops)
           run == CHOOSE f : f = [k \in 0..n |-> RunStep(t, f, k)]
<1>1. run = [k \in 0..n |-> RunStep(t, run, k)] BY RunExists
<1>2. Meant(t) = run[n] BY DEF Meant, RunStep, OperandOf
<1> HIDE DEF run
<1>3. \A k \in 0..n : run[k] = RunStep(t, run, k) BY <1>1, Zenon
<1>4. 0 \in 0..n /\ \A k \in 1..n : k \in 0..n /\ k # 0 OBVIOUS
<1>5. run[0] = [val |-> Source(t.lhs), carry |-> FALSE] BY <1>3, <1>4 DEF RunStep
<1>6. \A k \in 1..n : run[k] = Alu(t.ops[k].op, run[k - 1].val, OperandOf(t.ops[k]), t.ops[k].op = "SBC")
  BY <1>3, <1>4 DEF RunStep
<1> QED BY <1>2, <1>5, <1>6

(***************************************************************************)
(* What an instruction does to the registers, the memory and the flags.    *)
(***************************************************************************)

LEMMA OpIs ==
  ASSUME prog \in Programs, NEW p \in 1..Branch - 1
  PROVE  /\ DOMAIN prog[p] = {"op", "mode", "arg"} /\ Mode(p) \in Modes(Op(p))
         /\ Mode(p) = "imm" => Arg(p) \in Word
         /\ Mode(p) \in {"abs", "abx"} => Arg(p) \in Cell
<1>1. \A k \in 1..(Len(prog) - 1) :
        /\ DOMAIN prog[k] = {"op", "mode", "arg"} /\ prog[k].mode \in Modes(prog[k].op)
        /\ prog[k].mode = "imm" => prog[k].arg \in Word
        /\ prog[k].mode \in {"abs", "abx"} => prog[k].arg \in Cell
  BY ProgramsAssumption
<1>2. p \in 1..(Len(prog) - 1) BY PieceIs
<1> QED BY <1>1, <1>2 DEF Op, Mode, Arg

Target(p) ==
  CASE Op(p) \in {"LDA", "TXA"} \cup Arithmetic \/ (Op(p) \in Shifts /\ Mode(p) = "acc") -> "A"
    [] Op(p) \in {"LDX", "TAX", "INX", "DEX"} -> "X"
    [] OTHER -> ""

\* What the flags Z, N and C show.
Shown(p, m) ==
  CASE Op(p) \in {"LDA", "LDX"} -> [val |-> Value(p, m), carry |-> m.c]
    [] Op(p) = "TXA" -> [val |-> m.regs["X"], carry |-> m.c]
    [] Op(p) = "TAX" -> [val |-> m.regs["A"], carry |-> m.c]
    [] Op(p) \in Arithmetic -> Alu(Op(p), m.regs["A"], Value(p, m), m.c)
    [] Op(p) \in {"INX", "DEX"} -> Alu(Op(p), m.regs["X"], 0, m.c)
    [] Op(p) \in Shifts /\ Mode(p) = "acc" -> Alu(Op(p), m.regs["A"], 0, m.c)
    [] Op(p) \in Shifts \cup {"INC", "DEC"} /\ Mode(p) = "abs" -> Alu(Op(p), Value(p, m), 0, m.c)
    [] Op(p) = "CMP" -> Alu("SBC", m.regs["A"], Value(p, m), TRUE)
    [] Op(p) = "CPX" -> Alu("SBC", m.regs["X"], Value(p, m), TRUE)
    [] OTHER -> m

LEMMA OpKinds ==
  ASSUME prog \in Programs, NEW p \in 1..Branch - 1
  PROVE  \/ Op(p) \in {"LDA", "LDX", "TXA", "TAX", "INX", "DEX", "CMP", "CPX", "BIT", "STA", "STX",
                       "SEC", "CLC", "JSR"} \cup Arithmetic
         \/ Op(p) \in Shifts /\ Mode(p) = "acc"
         \/ Op(p) \in Shifts \cup {"INC", "DEC"} /\ Mode(p) = "abs"
BY OpIs DEF Modes, Shifts, Arithmetic

LEMMA AfterForms ==
  ASSUME prog \in Programs, NEW p \in 1..Branch - 1, NEW m
  PROVE  /\ Target(p) # "" => \E from : After(p, m) = RegWritten(m, Target(p), Shown(p, m), from)
         /\ Op(p) \in Shifts \cup {"INC", "DEC"} /\ Mode(p) = "abs" =>
              After(p, m) = [Flagged(m, Shown(p, m)) EXCEPT !.mem[Arg(p)] = Shown(p, m).val]
         /\ Op(p) \in {"CMP", "CPX"} => After(p, m) = Flagged(m, Shown(p, m))
<1> DEFINE w == Value(p, m)
<1>1. /\ Op(p) \in {"INX", "DEX"} => Mode(p) = "imp"
      /\ Mode(p) = "acc" => Op(p) \in Shifts
  BY OpIs DEF Modes, Shifts
<1>2. CASE Op(p) \in {"LDA", "LDX"}
  <2>1. /\ Target(p) = IF Op(p) = "LDA" THEN "A" ELSE "X"
        /\ Shown(p, m) = [val |-> w, carry |-> m.c]
    BY <1>2 DEF Target, Arithmetic, Shifts, Shown
  <2>2. \E from : After(p, m) = RegWritten(m, IF Op(p) = "LDA" THEN "A" ELSE "X",
                                           [val |-> w, carry |-> m.c], from)
    BY <1>2 DEF After, Arithmetic, Unary, Up, Down, Shifts
  <2> QED BY <1>2, <2>1, <2>2 DEF Shifts
<1>3. CASE Op(p) = "TXA"
  <2>1. Target(p) = "A" /\ Shown(p, m) = [val |-> m.regs["X"], carry |-> m.c]
    BY <1>3 DEF Target, Arithmetic, Shifts, Shown
  <2>2. After(p, m) = RegWritten(m, "A", [val |-> m.regs["X"], carry |-> m.c], m.from["X"])
    BY <1>3 DEF After, Arithmetic, Unary, Up, Down, Shifts
  <2> QED BY <1>3, <2>1, <2>2 DEF Shifts
<1>4. CASE Op(p) = "TAX"
  <2>1. Target(p) = "X" /\ Shown(p, m) = [val |-> m.regs["A"], carry |-> m.c]
    BY <1>4 DEF Target, Arithmetic, Shifts, Shown
  <2>2. After(p, m) = RegWritten(m, "X", [val |-> m.regs["A"], carry |-> m.c], m.from["A"])
    BY <1>4 DEF After, Arithmetic, Unary, Up, Down, Shifts
  <2> QED BY <1>4, <2>1, <2>2 DEF Shifts
<1>5. CASE Op(p) \in Arithmetic
  <2>1. Target(p) = "A" /\ Shown(p, m) = Alu(Op(p), m.regs["A"], w, m.c)
    BY <1>5 DEF Target, Arithmetic, Shifts, Shown
  <2>2. After(p, m) = RegWritten(m, "A", Alu(Op(p), m.regs["A"], w, m.c), <<>>)
    BY <1>5 DEF After, Arithmetic, Unary, Up, Down, Shifts
  <2> QED BY <1>5, <2>1, <2>2 DEF Shifts, Arithmetic
<1>6. CASE Op(p) \in {"INX", "DEX"}
  <2>1. Target(p) = "X" /\ Shown(p, m) = Alu(Op(p), m.regs["X"], 0, m.c)
    BY <1>6 DEF Target, Arithmetic, Shifts, Shown
  <2>2. After(p, m) = RegWritten(m, "X", Alu(Op(p), m.regs["X"], 0, m.c), <<>>)
    BY <1>1, <1>6 DEF After, Arithmetic, Unary, Up, Down, Shifts
  <2> QED BY <1>6, <2>1, <2>2 DEF Shifts
<1>7. CASE Op(p) \in Shifts /\ Mode(p) = "acc"
  <2>1. Target(p) = "A" /\ Shown(p, m) = Alu(Op(p), m.regs["A"], 0, m.c)
    BY <1>7 DEF Target, Arithmetic, Shifts, Shown
  <2>2. After(p, m) = RegWritten(m, "A", Alu(Op(p), m.regs["A"], 0, m.c), <<>>)
    BY <1>7 DEF After, Arithmetic, Unary, Shifts
  <2> QED BY <1>7, <2>1, <2>2 DEF Shifts
<1>8. CASE Op(p) \in Shifts \cup {"INC", "DEC"} /\ Mode(p) = "abs"
  <2>1. Target(p) = "" /\ Shown(p, m) = Alu(Op(p), w, 0, m.c)
    BY <1>8 DEF Target, Arithmetic, Shifts, Shown
  <2> DEFINE res == Alu(Op(p), w, 0, m.c)
  <2>2. After(p, m) = [Flagged(m, res) EXCEPT !.mem[Arg(p)] = res.val]
    BY <1>8 DEF After, Arithmetic, Unary, Up, Down, Shifts
  <2> HIDE DEF res
  <2>3. Op(p) \notin {"CMP", "CPX"} BY <1>8 DEF Shifts
  <2> QED BY <2>1, <2>2, <2>3 DEF res
<1>9. CASE Op(p) = "CMP"
  <2>1. Target(p) = "" /\ Shown(p, m) = Alu("SBC", m.regs["A"], w, TRUE)
    BY <1>9 DEF Target, Arithmetic, Shifts, Shown
  <2>2. After(p, m) = Flagged(m, Alu("SBC", m.regs["A"], w, TRUE))
    BY <1>9 DEF After, Arithmetic, Unary, Up, Down, Shifts
  <2> QED BY <1>9, <2>1, <2>2 DEF Shifts
<1>10. CASE Op(p) = "CPX"
  <2>1. Target(p) = "" /\ Shown(p, m) = Alu("SBC", m.regs["X"], w, TRUE)
    BY <1>10 DEF Target, Arithmetic, Shifts, Shown
  <2>2. After(p, m) = Flagged(m, Alu("SBC", m.regs["X"], w, TRUE))
    BY <1>10 DEF After, Arithmetic, Unary, Up, Down, Shifts
  <2> QED BY <1>10, <2>1, <2>2 DEF Shifts
<1>11. CASE Op(p) \in {"BIT", "STA", "STX", "SEC", "CLC", "JSR"}
  <2>1. Target(p) = "" BY <1>11 DEF Target, Arithmetic, Shifts
  <2> QED BY <1>11, <2>1 DEF Shifts
<1> QED BY <1>2, <1>3, <1>4, <1>5, <1>6, <1>7, <1>8, <1>9, <1>10, <1>11, OpKinds

Typed(m) == IsMachine(m) /\ m.mem \in [Cell -> Word] /\ m.regs \in [Reg -> Word]

LEMMA FlaggedShows ==
  ASSUME NEW m, Typed(m), NEW res
  PROVE  /\ Typed(Flagged(m, res)) /\ Flagged(m, res).regs = m.regs /\ Flagged(m, res).mem = m.mem
         /\ Flagged(m, res).v = m.v /\ Flagged(m, res).c = res.carry
         /\ (Flagged(m, res).z <=> res.val = 0) /\ (Flagged(m, res).n <=> res.val >= Top)
<1> DEFINE new == Flagged(m, res)
           zero == (res.val = 0)
           high == (res.val >= Top)
<1>1. zero \in BOOLEAN /\ high \in BOOLEAN OBVIOUS
<1>2. new = [m EXCEPT !.z = zero, !.n = high, !.c = res.carry] BY DEF Flagged
<1>3. IsMachine(m) /\ IsMachine(new) BY FlaggedIs DEF Typed
<1> HIDE DEF new, zero, high
<1>4. /\ new.regs = m.regs /\ new.mem = m.mem /\ new.v = m.v /\ new.c = res.carry
      /\ new.z = zero /\ new.n = high
  BY <1>2, <1>3 DEF IsMachine, Fields
<1>5. Typed(new) BY <1>3, <1>4 DEF Typed
<1>6. (new.z <=> zero) /\ (new.n <=> high) BY <1>1, <1>4
<1> QED BY <1>4, <1>5, <1>6 DEF new, zero, high

LEMMA RegWrittenShows ==
  ASSUME NEW m, Typed(m), NEW res, res.val \in Word, NEW reg \in Reg, NEW from
  PROVE  /\ Typed(RegWritten(m, reg, res, from))
         /\ \A r \in Reg : RegWritten(m, reg, res, from).regs[r] = IF r = reg THEN res.val ELSE m.regs[r]
         /\ RegWritten(m, reg, res, from).mem = m.mem
         /\ RegWritten(m, reg, res, from).v = m.v /\ RegWritten(m, reg, res, from).c = res.carry
         /\ (RegWritten(m, reg, res, from).z <=> res.val = 0)
         /\ (RegWritten(m, reg, res, from).n <=> res.val >= Top)
<1> DEFINE f == Flagged(m, res)
           new == RegWritten(m, reg, res, from)
<1>1. /\ Typed(f) /\ f.regs = m.regs /\ f.mem = m.mem /\ f.v = m.v /\ f.c = res.carry
      /\ (f.z <=> res.val = 0) /\ (f.n <=> res.val >= Top)
  BY FlaggedShows
<1>2. new = [f EXCEPT !.regs[reg] = res.val, !.from[reg] = from] BY DEF RegWritten
<1>3. IsMachine(f) /\ IsMachine(new) BY <1>1, RegWrittenIs DEF Typed
<1> HIDE DEF f, new
<1>4. /\ new.regs = [f.regs EXCEPT ![reg] = res.val] /\ new.mem = f.mem /\ new.v = f.v /\ new.c = f.c
      /\ new.z = f.z /\ new.n = f.n
  BY <1>2, <1>3 DEF IsMachine, Fields
<1>5. f.regs \in [Reg -> Word] BY <1>1 DEF Typed
<1>6. /\ new.regs \in [Reg -> Word]
      /\ \A r \in Reg : new.regs[r] = IF r = reg THEN res.val ELSE m.regs[r]
  BY <1>1, <1>4, <1>5
<1>7. Typed(new) BY <1>1, <1>3, <1>4, <1>6 DEF Typed
<1> QED BY <1>1, <1>4, <1>6, <1>7 DEF new

LEMMA ValueWord ==
  ASSUME prog \in Programs, NEW p \in 1..Branch - 1, NEW m, Typed(m)
  PROVE  Value(p, m) \in Word
<1>1. 0 \in Word BY WordIs
<1>2. CASE Mode(p) = "imm" BY <1>2, OpIs DEF Value
<1>3. CASE Mode(p) = "abs" BY <1>3, OpIs DEF Value, Typed
<1>4. CASE Mode(p) = "abx"
  <2>1. Arg(p) \in Cell BY <1>4, OpIs
  <2>2. Indexed(Arg(p), m.regs["X"]) \in Cell
    <3>1. \E d \in Cell : d # Arg(p) BY <2>1 DEF Cell
    <3>2. (CHOOSE d \in Cell : d # Arg(p)) \in Cell BY <3>1
    <3> QED BY <2>1, <3>2 DEF Indexed
  <2>3. Value(p, m) = m.mem[Indexed(Arg(p), m.regs["X"])] BY <1>4 DEF Value
  <2> QED BY <2>2, <2>3 DEF Typed
<1>5. CASE Mode(p) \notin {"imm", "abs", "abx"} BY <1>1, <1>5 DEF Value
<1> QED BY <1>2, <1>3, <1>4, <1>5

\* The instructions whose result the flags show.
Shows(p) == Op(p) \notin {"BIT", "STA", "STX", "SEC", "CLC", "JSR"}

LEMMA ShownWord ==
  ASSUME prog \in Programs, NEW p \in 1..Branch - 1, NEW m, Typed(m), Shows(p)
  PROVE  Shown(p, m).val \in Word
<1>1. Value(p, m) \in Word BY ValueWord
<1>2. m.regs["A"] \in Word /\ m.regs["X"] \in Word /\ 0 \in Word BY WordIs DEF Typed, Reg
<1>3. CASE Op(p) \in {"LDA", "LDX"} BY <1>1, <1>3 DEF Shown, Shifts, Arithmetic
<1>4. CASE Op(p) \in {"TXA", "TAX"} BY <1>2, <1>4 DEF Shown, Shifts, Arithmetic
<1>5. CASE Op(p) \in Arithmetic
  <2>1. Shown(p, m) = Alu(Op(p), m.regs["A"], Value(p, m), m.c) BY <1>5 DEF Shown, Arithmetic, Shifts
  <2> QED BY <1>1, <1>2, <2>1, AluWord
<1>6. CASE Op(p) \in {"INX", "DEX"}
  <2>1. Shown(p, m) = Alu(Op(p), m.regs["X"], 0, m.c) BY <1>6 DEF Shown, Arithmetic, Shifts
  <2> QED BY <1>1, <1>2, <2>1, AluWord
<1>7. CASE Op(p) \in Shifts /\ Mode(p) = "acc"
  <2>1. Shown(p, m) = Alu(Op(p), m.regs["A"], 0, m.c) BY <1>7 DEF Shown, Arithmetic, Shifts
  <2> QED BY <1>1, <1>2, <2>1, AluWord
<1>8. CASE Op(p) \in Shifts \cup {"INC", "DEC"} /\ Mode(p) = "abs"
  <2>1. Shown(p, m) = Alu(Op(p), Value(p, m), 0, m.c) BY <1>8 DEF Shown, Arithmetic, Shifts
  <2> QED BY <1>1, <1>2, <2>1, AluWord
<1>9. CASE Op(p) = "CMP"
  <2>1. Shown(p, m) = Alu("SBC", m.regs["A"], Value(p, m), TRUE) BY <1>9 DEF Shown, Arithmetic, Shifts
  <2> QED BY <1>1, <1>2, <2>1, AluWord
<1>10. CASE Op(p) = "CPX"
  <2>1. Shown(p, m) = Alu("SBC", m.regs["X"], Value(p, m), TRUE) BY <1>10 DEF Shown, Arithmetic, Shifts
  <2> QED BY <1>1, <1>2, <2>1, AluWord
<1> QED BY <1>3, <1>4, <1>5, <1>6, <1>7, <1>8, <1>9, <1>10, OpKinds DEF Shows

\* The registers and the flags an instruction leaves.
LEMMA AfterShows ==
  ASSUME prog \in Programs, NEW p \in 1..Branch - 1, NEW m, Typed(m), Shows(p)
  PROVE  /\ Typed(After(p, m))
         /\ \A r \in Reg : After(p, m).regs[r] = IF r = Target(p) THEN Shown(p, m).val ELSE m.regs[r]
         /\ (After(p, m).z <=> Shown(p, m).val = 0) /\ (After(p, m).n <=> Shown(p, m).val >= Top)
         /\ After(p, m).c = Shown(p, m).carry /\ After(p, m).v = m.v
<1> DEFINE res == Shown(p, m)
           new == After(p, m)
<1>1. res.val \in Word BY ShownWord
<1>2. CASE Target(p) # ""
  <2>1. Target(p) \in Reg BY <1>2 DEF Target, Reg
  <2>2. PICK from : new = RegWritten(m, Target(p), res, from) BY <1>2, AfterForms
  <2> HIDE DEF res, new
  <2> QED BY <1>1, <2>1, <2>2, RegWrittenShows DEF res, new
<1>3. CASE Target(p) = ""
  <2>1. \A r \in Reg : r # Target(p) BY <1>3 DEF Reg
  <2>2. CASE Op(p) \in {"CMP", "CPX"}
    <3>1. new = Flagged(m, res) BY <2>2, AfterForms
    <3> HIDE DEF res, new
    <3>2. /\ Typed(new) /\ new.regs = m.regs /\ new.v = m.v /\ new.c = res.carry
          /\ (new.z <=> res.val = 0) /\ (new.n <=> res.val >= Top)
      BY <3>1, FlaggedShows
    <3>3. \A r \in Reg : new.regs[r] = IF r = Target(p) THEN res.val ELSE m.regs[r] BY <2>1, <3>2
    <3> QED BY <3>2, <3>3 DEF res, new
  <2>3. CASE Op(p) \in Shifts \cup {"INC", "DEC"} /\ Mode(p) = "abs"
    <3> DEFINE f == Flagged(m, res)
    <3>1. new = [f EXCEPT !.mem[Arg(p)] = res.val] BY <2>3, AfterForms
    <3>2. Arg(p) \in Cell BY <2>3, OpIs
    <3> HIDE DEF res, new, f
    <3>3. /\ Typed(f) /\ f.regs = m.regs /\ f.v = m.v /\ f.c = res.carry
          /\ (f.z <=> res.val = 0) /\ (f.n <=> res.val >= Top)
      BY FlaggedShows DEF f
    <3>4. /\ DOMAIN new = Fields /\ new.regs = f.regs /\ new.from = f.from /\ new.v = f.v /\ new.c = f.c
          /\ new.z = f.z /\ new.n = f.n /\ new.mem = [f.mem EXCEPT ![Arg(p)] = res.val]
      BY <3>1, <3>3 DEF Typed, IsMachine, Fields
    <3>5. new.mem \in [Cell -> Word] BY <1>1, <3>2, <3>3, <3>4 DEF Typed
    <3>6. Typed(new) BY <3>3, <3>4, <3>5 DEF Typed, IsMachine
    <3> QED BY <2>1, <3>3, <3>4, <3>6 DEF res, new
  <2>4. Op(p) \in {"CMP", "CPX"} \/ (Op(p) \in Shifts \cup {"INC", "DEC"} /\ Mode(p) = "abs")
    <3>1. Op(p) \notin {"LDA", "LDX", "TXA", "TAX", "INX", "DEX"} \cup Arithmetic
          /\ ~(Op(p) \in Shifts /\ Mode(p) = "acc")
      BY <1>3 DEF Target
    <3> QED BY <3>1, OpKinds DEF Shows
  <2> QED BY <2>2, <2>3, <2>4
<1> QED BY <1>2, <1>3

LEMMA AfterOthers ==
  ASSUME prog \in Programs, NEW p \in 1..Branch - 1, NEW m, Typed(m), ~Shows(p), Op(p) # "JSR"
  PROVE  /\ Typed(After(p, m)) /\ After(p, m).regs = m.regs
         /\ Op(p) \in {"STA", "STX"} =>
              /\ After(p, m).z = m.z /\ After(p, m).n = m.n
              /\ After(p, m).c = m.c /\ After(p, m).v = m.v
         /\ Op(p) \in {"SEC", "CLC"} =>
              After(p, m).z = m.z /\ After(p, m).n = m.n /\ After(p, m).v = m.v
         /\ Op(p) = "BIT" =>
              /\ (After(p, m).z <=> BitAnd(m.regs["A"], Value(p, m)) = 0)
              /\ (After(p, m).n <=> Value(p, m) >= Top)
              /\ (After(p, m).v <=> Value(p, m) % Top >= Top \div 2)
              /\ After(p, m).c = m.c
<1> DEFINE new == After(p, m)
           w == Value(p, m)
<1>1. IsMachine(m) /\ m.mem \in [Cell -> Word] /\ m.regs \in [Reg -> Word] BY DEF Typed
<1>2. CASE Op(p) = "BIT"
  <2> DEFINE zero == (BitAnd(m.regs["A"], w) = 0)
             high == (w >= Top)
             over == (w % Top >= Top \div 2)
  <2>1. new = [m EXCEPT !.z = zero, !.n = high, !.v = over]
    BY <1>2 DEF After, Arithmetic, Unary, Up, Down, Shifts
  <2>2. zero \in BOOLEAN /\ high \in BOOLEAN /\ over \in BOOLEAN OBVIOUS
  <2> HIDE DEF zero, high, over, new, w
  <2>3. /\ DOMAIN new = Fields /\ new.regs = m.regs /\ new.mem = m.mem /\ new.from = m.from
        /\ new.z = zero /\ new.n = high /\ new.v = over /\ new.c = m.c
    BY <1>1, <2>1 DEF IsMachine, Fields
  <2>4. Typed(new) BY <1>1, <2>3 DEF Typed, IsMachine
  <2>5. (new.z <=> zero) /\ (new.n <=> high) /\ (new.v <=> over) BY <2>2, <2>3
  <2> QED BY <1>2, <2>3, <2>4, <2>5 DEF zero, high, over, new, w
<1>3. CASE Op(p) \in {"STA", "STX"}
  <2> DEFINE val == m.regs[IF Op(p) = "STA" THEN "A" ELSE "X"]
  <2>1. new = [m EXCEPT !.mem[Arg(p)] = val]
    BY <1>3 DEF After, Arithmetic, Unary, Up, Down, Shifts
  <2>2. val \in Word BY <1>1 DEF Reg
  <2>3. Arg(p) \in Cell
    <3>1. Mode(p) = "abs" BY <1>3, OpIs DEF Modes
    <3> QED BY <3>1, OpIs
  <2> HIDE DEF val, new
  <2>4. /\ DOMAIN new = Fields /\ new.regs = m.regs /\ new.mem = [m.mem EXCEPT ![Arg(p)] = val]
        /\ new.from = m.from /\ new.z = m.z /\ new.n = m.n /\ new.v = m.v /\ new.c = m.c
    BY <1>1, <2>1 DEF IsMachine, Fields
  <2>5. new.mem \in [Cell -> Word] BY <1>1, <2>2, <2>3, <2>4
  <2>6. Typed(new) BY <1>1, <2>4, <2>5 DEF Typed, IsMachine
  <2> QED BY <1>3, <2>4, <2>6 DEF new
<1>4. CASE Op(p) \in {"SEC", "CLC"}
  <2> DEFINE set == (Op(p) = "SEC")
  <2>1. new = [m EXCEPT !.c = set] BY <1>4 DEF After, Arithmetic, Unary, Up, Down, Shifts
  <2> HIDE DEF set, new
  <2>2. /\ DOMAIN new = Fields /\ new.regs = m.regs /\ new.mem = m.mem
        /\ new.from = m.from /\ new.z = m.z /\ new.n = m.n /\ new.v = m.v
    BY <1>1, <2>1 DEF IsMachine, Fields
  <2>3. Typed(new) BY <1>1, <2>2 DEF Typed, IsMachine
  <2> QED BY <1>4, <2>2, <2>3 DEF new
<1> QED BY <1>2, <1>3, <1>4 DEF Shows

\* What sets none of the branch's flags leaves them.
LEMMA FlagsKept ==
  ASSUME prog \in Programs, NEW p \in 1..Branch - 1, NEW m, Typed(m), Op(p) \notin Setters(Op(Branch))
  PROVE  Op(p) # "JSR" /\ (Taken(After(p, m)) <=> Taken(m))
<1> DEFINE b == Op(Branch)
           new == After(p, m)
<1>1. b \in {"BEQ", "BNE", "BMI", "BPL", "BCS", "BCC", "BVS", "BVC"} BY PieceIs
<1>2. Op(p) # "JSR" BY DEF Setters
<1>3. b \in {"BEQ", "BNE", "BMI", "BPL"} => new.z = m.z /\ new.n = m.n
  <2> SUFFICES ASSUME b \in {"BEQ", "BNE", "BMI", "BPL"} PROVE new.z = m.z /\ new.n = m.n OBVIOUS
  <2>1. Op(p) \notin ZeroSetters BY DEF Setters
  <2>2. Op(p) \in {"STA", "STX", "SEC", "CLC"} BY <1>2, <2>1, OpKinds DEF ZeroSetters, Arithmetic, Shifts
  <2>3. ~Shows(p) BY <2>2 DEF Shows
  <2> HIDE DEF new
  <2> QED BY <1>2, <2>2, <2>3, AfterOthers DEF new
<1>4. b \in {"BCS", "BCC"} => new.c = m.c
  <2> SUFFICES ASSUME b \in {"BCS", "BCC"} PROVE new.c = m.c OBVIOUS
  <2>1. Op(p) \notin CarrySetters BY DEF Setters
  <2>2. CASE ~Shows(p)
    <3>1. Op(p) \in {"STA", "STX", "BIT"} BY <1>2, <2>1, <2>2 DEF Shows, CarrySetters
    <3> HIDE DEF new
    <3> QED BY <1>2, <2>2, <3>1, AfterOthers DEF new
  <2>3. CASE Shows(p)
    <3>1. new.c = Shown(p, m).carry BY <2>3, AfterShows
    <3>2. Op(p) \in {"LDA", "LDX", "TXA", "TAX", "INX", "DEX", "AND", "EOR", "INC", "DEC"}
      BY <2>1, <2>3, OpKinds DEF Shows, CarrySetters, Arithmetic, Shifts
    <3>3. CASE Op(p) \in {"LDA", "LDX", "TXA", "TAX"} BY <3>1, <3>3 DEF Shown, Shifts, Arithmetic
    <3>4. CASE Op(p) \in {"AND", "EOR"}
      <4>1. Shown(p, m) = Alu(Op(p), m.regs["A"], Value(p, m), m.c) BY <3>4 DEF Shown, Arithmetic, Shifts
      <4>2. Shown(p, m).carry = CarryOut(Op(p), m.regs["A"], Value(p, m), m.c) BY <4>1, AluIs
      <4> QED BY <3>1, <3>4, <4>2 DEF CarryOut
    <3>5. CASE Op(p) \in {"INX", "DEX"}
      <4>1. Shown(p, m) = Alu(Op(p), m.regs["X"], 0, m.c) BY <3>5 DEF Shown, Arithmetic, Shifts
      <4>2. Shown(p, m).carry = CarryOut(Op(p), m.regs["X"], 0, m.c) BY <4>1, AluIs
      <4> QED BY <3>1, <3>5, <4>2 DEF CarryOut
    <3>6. CASE Op(p) \in {"INC", "DEC"}
      <4>1. Mode(p) = "abs" BY <3>6, OpIs DEF Modes
      <4>2. Shown(p, m) = Alu(Op(p), Value(p, m), 0, m.c) BY <3>6, <4>1 DEF Shown, Arithmetic, Shifts
      <4>3. Shown(p, m).carry = CarryOut(Op(p), Value(p, m), 0, m.c) BY <4>2, AluIs
      <4> QED BY <3>1, <3>6, <4>3 DEF CarryOut
    <3> QED BY <3>2, <3>3, <3>4, <3>5, <3>6
  <2> QED BY <2>2, <2>3
<1>5. b \in {"BVS", "BVC"} => new.v = m.v
  <2> SUFFICES ASSUME b \in {"BVS", "BVC"} PROVE new.v = m.v OBVIOUS
  <2>1. Op(p) # "BIT" BY DEF Setters
  <2>2. CASE Shows(p) BY <2>2, AfterShows
  <2>3. CASE ~Shows(p)
    <3>1. Op(p) \in {"STA", "STX", "SEC", "CLC"} BY <1>2, <2>1, <2>3 DEF Shows
    <3> HIDE DEF new
    <3> QED BY <1>2, <2>3, <3>1, AfterOthers DEF new
  <2> QED BY <2>2, <2>3
<1> HIDE DEF new
<1>6. Taken(new) <=> Taken(m)
  <2>1. CASE b \in {"BEQ", "BNE", "BMI", "BPL"} BY <1>3, <2>1 DEF Taken
  <2>2. CASE b \in {"BCS", "BCC"} BY <1>4, <2>2 DEF Taken
  <2>3. CASE b \in {"BVS", "BVC"} BY <1>5, <2>3 DEF Taken
  <2> QED BY <1>1, <2>1, <2>2, <2>3
<1> QED BY <1>2, <1>6 DEF new

(***************************************************************************)
(* The execution is the processor's, and the comment the fact's.           *)
(***************************************************************************)

Runs ==
  /\ \A q \in 1..Len(trace) : Typed(trace[q])
  /\ \A q \in 1..Len(trace) - 1 : Op(q) # "JSR" => trace[q + 1] = After(q, trace[q])
  /\ trace # <<>> => \A r \in Reg : inputs[r] # "" => trace[1].regs[r] = trace[1].mem[inputs[r]]

Composed ==
  /\ inputs \in Inputs /\ fact = FactLhs
  /\ trace # <<>> => here = Branch + 3
  /\ here = Branch + 3 => text = Condition

LEMMA EntryTyped ==
  ASSUME inputs \in Inputs, NEW m \in Entry
  PROVE  Typed(m) /\ \A r \in Reg : inputs[r] # "" => m.regs[r] = m.mem[inputs[r]]
<1>1. PICK mem, regs, b : /\ mem \in [Cell -> Word] /\ regs \in [Reg -> Samples]
                          /\ m = Enter(mem, regs, b)
  <2>1. \E mem \in {mm \in [Cell -> Word] : mm["v"] \in Samples}, regs \in [Reg -> Samples], b \in BOOLEAN :
          m = Enter(mem, regs, b)
    BY DEF Entry
  <2> QED BY <2>1
<1>2. /\ m.mem = mem
      /\ m.regs = [r \in Reg |-> IF inputs[r] = "" THEN regs[r] ELSE mem[inputs[r]]]
  BY <1>1 DEF Enter
<1>3. IsMachine(m) BY EntryIs
<1>4. \A r \in Reg : inputs[r] \in Cell \cup {""} BY InputsAssumption
<1>5. Samples \subseteq Word BY WordAssumption
<1>6. \A r \in Reg : (IF inputs[r] = "" THEN regs[r] ELSE mem[inputs[r]]) \in Word
  BY <1>1, <1>4, <1>5
<1>7. m.regs \in [Reg -> Word] BY <1>2, <1>6
<1> QED BY <1>1, <1>2, <1>3, <1>7 DEF Typed

LEMMA ReturnedTyped == ASSUME NEW old, Typed(old), NEW m \in Returned(old)  PROVE Typed(m)
<1>1. PICK s \in Samples, b \in BOOLEAN : m = Return(old, s, b) BY DEF Returned
<1>2. DOMAIN old = Fields BY DEF Typed, IsMachine
<1>3. DOMAIN m = Fields /\ m.from = [r \in Reg |-> <<>>] /\ m.mem = old.mem /\ m.regs = [r \in Reg |-> s]
  BY <1>1, <1>2 DEF Return, Fields
<1>4. s \in Word BY WordAssumption
<1> QED BY <1>3, <1>4 DEF Typed, IsMachine

LEMMA AfterTyped ==
  ASSUME prog \in Programs, NEW p \in 1..Branch - 1, NEW m, Typed(m), Op(p) # "JSR"
  PROVE  Typed(After(p, m))
<1>1. CASE Shows(p) BY <1>1, AfterShows
<1>2. CASE ~Shows(p) BY <1>2, AfterOthers
<1> QED BY <1>1, <1>2

LEMMA ExecuteRuns ==
  ASSUME TextInv, inputs \in Inputs, Runs, Execute  PROVE Runs'
<1>1. /\ prog \in Programs /\ Branch \in Nat /\ Branch > 0 /\ TraceStands
      /\ UNCHANGED <<prog, inputs>> /\ Len(trace) < Branch
  BY PieceIs DEF TextInv, Execute
<1>2. \A q : Op(q)' = Op(q) BY <1>1 DEF Op
<1>3. \A q, m : (Typed(m)' <=> Typed(m)) /\ After(q, m)' = After(q, m)
  BY <1>1 DEF Typed, IsMachine, After, Op, Mode, Arg, Value
<1>4. Runs' <=>
        /\ \A q \in 1..Len(trace') : Typed(trace'[q])
        /\ \A q \in 1..Len(trace') - 1 : Op(q) # "JSR" => trace'[q + 1] = After(q, trace'[q])
        /\ trace' # <<>> => \A r \in Reg : inputs[r] # "" => trace'[1].regs[r] = trace'[1].mem[inputs[r]]
  BY <1>1, <1>2, <1>3 DEF Runs
<1>5. CASE trace = <<>>
  <2>1. PICK m \in Entry : trace' = <<m>> BY <1>5 DEF Execute
  <2>2. Len(trace') = 1 /\ trace'[1] = m BY <2>1
  <2>3. (\A q \in 1..1 : q = 1) /\ \A q : ~(q \in 1..1 - 1) OBVIOUS
  <2>4. Typed(m) /\ \A r \in Reg : inputs[r] # "" => m.regs[r] = m.mem[inputs[r]] BY EntryTyped
  <2> QED BY <1>4, <2>2, <2>3, <2>4
<1>6. CASE trace # <<>>
  <2> DEFINE p == Len(trace)
             old == trace[p]
  <2>1. p \in Nat /\ p # 0 /\ Last(trace) = old
    <3>1. \A S : \A t \in Seq(S) : Len(t) \in Nat /\ (Len(t) = 0 => t = <<>>) OBVIOUS
    <3> QED BY <1>1, <1>6, <3>1 DEF TraceStands, Last
  <2>2. p \in 1..Branch - 1 /\ p \in 1..Len(trace) BY <1>1, <2>1
  <2>3. PICK m \in (IF Op(p) = "JSR" THEN Returned(old) ELSE {After(p, old)}) :
          trace' = Append(trace, m)
    BY <1>6, <2>1 DEF Execute
  <2>4. /\ Len(trace') = p + 1 /\ trace'[p + 1] = m
        /\ \A k \in 1..p : trace'[k] = trace[k]
    <3>1. PICK S : trace \in Seq(S) BY <1>1 DEF TraceStands
    <3>2. /\ Len(Append(trace, m)) = Len(trace) + 1 /\ Append(trace, m)[Len(trace) + 1] = m
          /\ \A k \in 1..Len(trace) : Append(trace, m)[k] = trace[k]
      BY <3>1, Lengthened
    <3> QED BY <2>3, <3>2
  <2>5. Typed(old) BY <2>2 DEF Runs
  <2>6. Op(p) # "JSR" => m = After(p, old) BY <2>3
  <2>7. Op(p) = "JSR" => m \in Returned(old) BY <2>3
  <2> HIDE DEF old
  <2>8. Typed(m)
    <3>1. CASE Op(p) = "JSR" BY <2>5, <2>7, <3>1, ReturnedTyped
    <3>2. CASE Op(p) # "JSR" BY <1>1, <2>2, <2>5, <2>6, <3>2, AfterTyped
    <3> QED BY <3>1, <3>2
  <2>9. ASSUME NEW q \in 1..Len(trace') PROVE Typed(trace'[q])
    <3>1. q = p + 1 \/ q \in 1..p BY <2>1, <2>4
    <3> QED BY <2>4, <2>8, <3>1 DEF Runs
  <2>10. ASSUME NEW q \in 1..Len(trace') - 1, Op(q) # "JSR" PROVE trace'[q + 1] = After(q, trace'[q])
    <3>1. q \in 1..p BY <2>1, <2>4
    <3>2. CASE q = p BY <2>4, <2>6, <2>10, <3>1, <3>2 DEF old
    <3>3. CASE q # p
      <4>1. q \in 1..Len(trace) - 1 /\ q + 1 \in 1..p BY <2>1, <3>1, <3>3
      <4> QED BY <2>4, <2>10, <3>1, <4>1 DEF Runs
    <3> QED BY <3>2, <3>3
  <2>11. trace'[1] = trace[1] BY <2>1, <2>4
  <2>12. \A r \in Reg : inputs[r] # "" => trace[1].regs[r] = trace[1].mem[inputs[r]] BY <1>6 DEF Runs
  <2> QED BY <1>4, <2>9, <2>10, <2>11, <2>12
<1> QED BY <1>5, <1>6

LEMMA FixedRuns == ASSUME Runs, UNCHANGED <<prog, inputs, trace>>  PROVE Runs'
<1>1. \A q, m : (Typed(m)' <=> Typed(m)) /\ After(q, m)' = After(q, m) /\ Op(q)' = Op(q)
  BY DEF Typed, IsMachine, After, Op, Mode, Arg, Value
<1> QED BY <1>1 DEF Runs

\* The condition depends on nothing the steps change.
LEMMA ConditionFixed ==
  ASSUME UNCHANGED <<prog, inputs, fact>>  PROVE Condition' = Condition /\ FactLhs' = FactLhs
<1>1. \A p : Op(p)' = Op(p) /\ Mode(p)' = Mode(p) /\ Arg(p)' = Arg(p) BY DEF Op, Mode, Arg
<1>2. Branch' = Branch /\ Setter' = Setter BY DEF Setter, Branch, Op
<1>3. RhsKind' = RhsKind BY <1>1, <1>2 DEF RhsKind
<1>4. Infix' = Infix BY <1>1, <1>2 DEF Infix
<1>5. Semantic' = Semantic BY <1>1, <1>2 DEF Semantic
<1>6. Pivoted(fact)' = Pivoted(fact) BY DEF Pivoted
<1>7. Condition' = Condition
  BY <1>1, <1>2, <1>3, <1>4, <1>5, <1>6
  DEF Condition, Rendered, Steps
<1>8. FactLhs' = FactLhs
  <2>1. Resolve' = Resolve BY DEF Resolve, Branch, Op, Mode, Operand, Arg, Wrapped, Transforms
  <2> HIDE DEF Resolve
  <2> QED BY <1>2, <2>1 DEF FactLhs, WalkReg, PostOp, Operand, Op, Mode, Arg
<1> QED BY <1>7, <1>8

RunInv == Runs /\ Composed

LEMMA RunInductive == TextSpec => []RunInv
<1>1. TextInit => RunInv
  <2> SUFFICES ASSUME TextInit PROVE RunInv OBVIOUS
  <2>1. trace = <<>> /\ here = 1 /\ fact = FactLhs /\ prog \in Programs /\ inputs \in Inputs BY DEF TextInit
  <2>2. Branch \in Nat /\ Branch > 0 BY <2>1, PieceIs
  <2>3. Len(trace) = 0 /\ (\A q : ~(q \in 1..0)) /\ (\A q : ~(q \in 1..0 - 1)) BY <2>1
  <2>4. Runs BY <2>1, <2>3 DEF Runs
  <2>5. here # Branch + 3 BY <2>1, <2>2
  <2> QED BY <2>1, <2>4, <2>5 DEF RunInv, Composed
<1>2. TextInv /\ RunInv /\ [TextNext]_textVars => RunInv'
  <2> SUFFICES ASSUME TextInv, RunInv, [TextNext]_textVars PROVE RunInv' OBVIOUS
  <2>1. prog \in Programs /\ here \in Nat /\ Branch \in Nat /\ Branch > 0 BY PieceIs DEF TextInv
  <2>2. UNCHANGED <<prog, inputs, fact>>
    BY DEF TextNext, WalkNames, Supplement, Comment, Execute, textVars
  <2>3. Condition' = Condition /\ FactLhs' = FactLhs /\ Branch' = Branch BY <2>2, ConditionFixed DEF Branch
  <2>4. Runs'
    <3>1. CASE Execute BY <3>1, ExecuteRuns DEF RunInv, Composed
    <3>2. CASE trace' = trace BY <2>2, <3>2, FixedRuns DEF RunInv
    <3> QED BY <3>1, <3>2 DEF TextNext, WalkNames, Supplement, Comment, textVars
  <2>5. Composed'
    <3>1. CASE WalkNames \/ Supplement
      <4>1. here # Branch + 3 /\ here' # Branch + 3 /\ trace' = trace
        <5>1. CASE WalkNames BY <2>1, <5>1 DEF WalkNames
        <5>2. CASE Supplement
          <6>1. here = Branch + 1 /\ here' = here + 1 /\ trace' = trace BY <5>2, Zenon DEF Supplement
          <6> QED BY <2>1, <6>1
        <5> QED BY <3>1, <5>1, <5>2
      <4> QED BY <2>2, <2>3, <4>1 DEF RunInv, Composed
    <3>2. CASE Comment
      <4>1. here' = Branch + 3 /\ text' = Condition BY <2>1, <3>2 DEF Comment
      <4> QED BY <2>2, <2>3, <4>1 DEF RunInv, Composed
    <3>3. CASE Execute
      <4>1. here = Branch + 3 /\ here' = here /\ text' = text BY <3>3 DEF Execute
      <4> QED BY <2>2, <2>3, <4>1 DEF RunInv, Composed
    <3>4. CASE UNCHANGED textVars BY <2>2, <2>3, <3>4 DEF RunInv, Composed, textVars
    <3> QED BY <3>1, <3>2, <3>3, <3>4 DEF TextNext
  <2> QED BY <2>4, <2>5 DEF RunInv
<1> QED BY <1>1, <1>2, TextInductive, PTL DEF TextSpec

(***************************************************************************)
(* What a source says a register holds, it holds.                          *)
(***************************************************************************)

LEMMA PrependYields ==
  ASSUME NEW S, NEW c \in Seq(S), NEW x \in S, ChainOp(x), NEW v, NEW w, Yields(c, v, w)
  PROVE  Yields(<<x>> \o c, v, Stepped(x, w))
<1> DEFINE n == Len(c)
           new == <<x>> \o c
<1>1. /\ n \in Nat /\ Len(new) = n + 1 /\ new[1] = x
      /\ \A i \in 1..n : new[i + 1] = c[i]
  OBVIOUS
<1>2. PICK g \in [0..n -> Word] : g[0] = w /\ g[n] = v /\ \A i \in 1..n : g[i - 1] = Stepped(c[i], g[i])
  BY DEF Yields
<1>3. Stepped(x, w) \in Word
  <2>1. 0 \in 0..n BY <1>1
  <2>2. w \in Word BY <1>2, <2>1
  <2> QED BY <2>2, SteppedIs
<1> DEFINE h == [i \in 0..n + 1 |-> IF i = 0 THEN Stepped(x, w) ELSE g[i - 1]]
<1> HIDE DEF n, new
<1>4. \A i \in 1..n + 1 : i - 1 \in 0..n BY <1>1
<1>5. h \in [0..n + 1 -> Word]
  <2>1. ASSUME NEW i \in 0..n + 1 PROVE (IF i = 0 THEN Stepped(x, w) ELSE g[i - 1]) \in Word
    <3>1. i = 0 \/ i \in 1..n + 1 BY <1>1
    <3> QED BY <1>2, <1>3, <1>4, <3>1
  <2> QED BY <2>1
<1>6. /\ h[0] = Stepped(x, w)
      /\ \A i \in 1..n + 1 : h[i] = g[i - 1]
  BY <1>1
<1> HIDE DEF h
<1>7. h[n + 1] = v
  <2>1. n + 1 \in 1..n + 1 /\ (n + 1) - 1 = n BY <1>1
  <2> QED BY <1>2, <1>6, <2>1
<1>8. ASSUME NEW i \in 1..n + 1 PROVE h[i - 1] = Stepped(new[i], h[i])
  <2>1. CASE i = 1
    <3>1. i - 1 = 0 /\ i \in 1..n + 1 BY <2>1
    <3> QED BY <1>1, <1>2, <1>6, <2>1, <3>1
  <2>2. CASE i # 1
    <3>1. i - 1 \in 1..n /\ i - 1 \in 1..n + 1 /\ (i - 1) + 1 = i BY <1>1, <2>2
    <3>2. new[i] = c[i - 1] BY <1>1, <3>1
    <3>3. h[i - 1] = g[(i - 1) - 1] /\ h[i] = g[i - 1] BY <1>6, <3>1
    <3>4. g[(i - 1) - 1] = Stepped(c[i - 1], g[i - 1]) BY <1>2, <3>1
    <3> QED BY <3>2, <3>3, <3>4
  <2> QED BY <2>1, <2>2
<1> QED BY <1>1, <1>5, <1>6, <1>7, <1>8 DEF Yields, new

ChainOps == {prog[k] : k \in {k \in 1..Branch - 1 : ChainOp(prog[k])}}

\* The source l, unless it leaves something kept, makes w.
Stands(l, w) ==
  /\ DOMAIN l = LhsFields /\ l.post = ""
  /\ l.kind \in {"var", "imm", "from_caller", "computed_reg", "jsr_return"}
  /\ l.kind = "from_caller" => l.at = 1 /\ l.what \in Reg
  /\ l.chain \in Seq(ChainOps) /\ (Opaque(l) => l.chain = <<>>)
  /\ ~l.lost => Yields(l.chain, Source(l), w)

\* In A, a step of X is never the last transform.
Headed(l, r) == r = "A" /\ l.chain # <<>> => l.chain[1].op \notin {"INX", "DEX"}

LEMMA LhsStands ==
  ASSUME NEW l, NEW kind, NEW what, NEW index, NEW at, l = Lhs(kind, what, index, at),
         kind \in {"var", "imm", "from_caller", "computed_reg", "jsr_return"},
         kind = "from_caller" => at = 1 /\ what \in Reg, Source(l) \in Word
  PROVE  Stands(l, Source(l)) /\ l.chain = <<>>
<1>1. /\ DOMAIN l = LhsFields /\ l.post = "" /\ l.kind = kind /\ l.at = at /\ l.what = what
      /\ l.chain = <<>>
  BY DEF Lhs, LhsFields
<1>2. \A S : <<>> \in Seq(S) OBVIOUS
<1>3. Yields(<<>>, Source(l), Source(l)) BY NothingYields
<1> QED BY <1>1, <1>2, <1>3 DEF Stands

LEMMA WrappedStands ==
  ASSUME NEW p \in 1..Branch - 1, ChainOp(prog[p]), NEW l, NEW w \in Word, Stands(l, w)
  PROVE  /\ Stands(Wrapped(l, p), Stepped(prog[p], w))
         /\ Wrapped(l, p).chain # <<>> => Wrapped(l, p).chain[1] = prog[p]
<1> DEFINE new == Wrapped(l, p)
           x == prog[p]
<1>1. CASE Opaque(l)
  <2>1. new = [l EXCEPT !.lost = l.lost \/ Op(p) \notin {"TAX", "TXA"}] BY <1>1 DEF Wrapped
  <2> DEFINE lost == l.lost \/ Op(p) \notin {"TAX", "TXA"}
  <2>2. new = [l EXCEPT !.lost = lost] BY <2>1
  <2> HIDE DEF lost, new
  <2>3. /\ DOMAIN new = LhsFields /\ new.post = l.post /\ new.kind = l.kind /\ new.at = l.at
        /\ new.what = l.what /\ new.index = l.index /\ new.chain = l.chain /\ new.lost = lost
    BY <2>2 DEF Stands, LhsFields
  <2>4. Source(new) = Source(l) BY <2>3 DEF Source
  <2>5. ~lost => ~l.lost /\ Stepped(x, w) = w
    <3>1. ~lost => ~l.lost /\ x.op \in {"TAX", "TXA"} BY DEF lost, Op
    <3> QED BY <3>1, SteppedIs
  <2>6. ~new.lost => Yields(new.chain, Source(new), Stepped(x, w))
    BY <2>3, <2>4, <2>5 DEF Stands
  <2>7. l.chain = <<>> BY <1>1 DEF Stands
  <2> QED BY <2>3, <2>6, <2>7 DEF Stands, new, Opaque
<1>2. CASE ~Opaque(l)
  <2> DEFINE chain == <<x>> \o l.chain
  <2>1. new = [l EXCEPT !.chain = chain] BY <1>2 DEF Wrapped
  <2>2. x \in ChainOps /\ l.chain \in Seq(ChainOps) BY DEF ChainOps, Stands
  <2> HIDE DEF new, x
  <2>3. chain \in Seq(ChainOps) /\ chain[1] = x
    <3>1. \A T : \A y \in T, s \in Seq(T) : <<y>> \o s \in Seq(T) /\ (<<y>> \o s)[1] = y OBVIOUS
    <3> QED BY <2>2, <3>1
  <2>4. ~l.lost => Yields(chain, Source(l), Stepped(x, w))
    <3> SUFFICES ASSUME ~l.lost PROVE Yields(chain, Source(l), Stepped(x, w)) OBVIOUS
    <3>1. Yields(l.chain, Source(l), w) BY DEF Stands
    <3>2. ChainOp(x) BY DEF x
    <3> QED BY <2>2, <3>1, <3>2, PrependYields
  <2> HIDE DEF chain
  <2>5. /\ DOMAIN new = LhsFields /\ new.post = l.post /\ new.kind = l.kind /\ new.at = l.at
        /\ new.what = l.what /\ new.index = l.index /\ new.lost = l.lost /\ new.chain = chain
    BY <2>1 DEF Stands, LhsFields
  <2>6. Source(new) = Source(l) BY <2>5 DEF Source
  <2>7. ~Opaque(new) BY <1>2, <2>5 DEF Opaque
  <2>8. ~new.lost => Yields(new.chain, Source(new), Stepped(x, w)) BY <2>4, <2>5, <2>6
  <2> QED BY <2>3, <2>5, <2>7, <2>8 DEF Stands, new, x
<1> QED BY <1>1, <1>2

LEMMA OperandSource ==
  ASSUME NEW p, Mode(p) \in {"imm", "abs", "abx"}
  PROVE  /\ Source(Operand(p)) = Value(p, trace[p])
         /\ \E kind \in {"imm", "var"} : \E what, index : Operand(p) = Lhs(kind, what, index, p)
<1> DEFINE l == Operand(p)
<1>1. CASE Mode(p) = "imm"
  <2>1. l = Lhs("imm", Arg(p), FALSE, p) BY <1>1 DEF Operand
  <2> HIDE DEF l
  <2>2. l.kind = "imm" /\ l.what = Arg(p) BY <2>1 DEF Lhs
  <2>3. Source(l) = Arg(p) BY <2>2 DEF Source
  <2> QED BY <1>1, <2>1, <2>3 DEF Value, l
<1>2. CASE Mode(p) # "imm"
  <2> DEFINE indexed == (Mode(p) = "abx")
  <2>1. l = Lhs("var", Arg(p), indexed, p) BY <1>2 DEF Operand
  <2> HIDE DEF indexed, l
  <2>2. l.kind = "var" /\ l.what = Arg(p) /\ l.index = indexed /\ l.at = p BY <2>1 DEF Lhs
  <2>3. Source(l) = trace[p].mem[IF indexed THEN Indexed(Arg(p), trace[p].regs["X"]) ELSE Arg(p)]
    BY <2>2 DEF Source
  <2>4. Value(p, trace[p]) = trace[p].mem[IF indexed THEN Indexed(Arg(p), trace[p].regs["X"]) ELSE Arg(p)]
    BY <1>2 DEF Value, indexed
  <2> QED BY <2>1, <2>3, <2>4 DEF l
<1> QED BY <1>1, <1>2

\* The machine at an instruction of a complete execution, and what follows.
LEMMA MachineIs ==
  ASSUME prog \in Programs, Runs, AtBranch
  PROVE  /\ \A q \in 1..Branch : Typed(trace[q]) /\ trace[q].regs \in [Reg -> Word]
         /\ \A q \in 1..Branch - 1 :
              /\ q \in 1..Branch /\ q + 1 \in 1..Branch
              /\ Op(q) # "JSR" => trace[q + 1] = After(q, trace[q])
<1>1. Branch \in Nat /\ Len(trace) = Branch BY PieceIs DEF AtBranch
<1>2. \A q \in 1..Branch - 1 : q \in 1..Branch /\ q + 1 \in 1..Branch BY <1>1
<1> QED BY <1>1, <1>2 DEF Runs, Typed

SourceOf(p, r, l) == Stands(l, trace[p + 1].regs[r]) /\ Headed(l, r)

LEMMA SourceFirst ==
  ASSUME prog \in Programs, Runs, AtBranch, NEW f, NEW r \in Reg
  PROVE  SourceOf(0, r, Resolved(f, 0)[r])
<1> DEFINE l == Resolved(f, 0)[r]
<1>1. l = Lhs("from_caller", r, FALSE, 1)
  <2>1. ~(0 > 0) OBVIOUS
  <2>2. Resolved(f, 0) = [s \in Reg |-> Lhs("from_caller", s, FALSE, 1)] BY <2>1 DEF Resolved
  <2> QED BY <2>2
<1> HIDE DEF l
<1>2. l.kind = "from_caller" /\ l.what = r /\ l.at = 1 BY <1>1 DEF Lhs
<1>3. Source(l) = trace[1].regs[r] BY <1>2 DEF Source
<1>4. Branch \in Nat /\ Branch > 0 BY PieceIs
<1>5. 1 \in 1..Branch BY <1>4
<1>6. trace[1].regs \in [Reg -> Word] BY <1>5, MachineIs
<1>7. Stands(l, Source(l)) /\ l.chain = <<>> BY <1>1, <1>3, <1>6, LhsStands
<1>8. 0 + 1 = 1 OBVIOUS
<1> QED BY <1>3, <1>7, <1>8 DEF SourceOf, Headed, l

LEMMA RegIs ==
  ASSUME NEW r \in Reg
  PROVE  \/ r = "A" /\ Load[r] = "LDA" /\ Transfer[r] = "TXA" /\ Other[r] = "X"
         \/ r = "X" /\ Load[r] = "LDX" /\ Transfer[r] = "TAX" /\ Other[r] = "A"
BY DEF Reg, Load, Transfer, Other

LEMMA ResolvedIs ==
  ASSUME NEW f, NEW p \in Nat, p > 0, NEW r \in Reg
  PROVE  /\ Op(p) = Load[r] => Resolved(f, p)[r] = Operand(p)
         /\ Op(p) = Transfer[r] => Resolved(f, p)[r] = Wrapped(f[p - 1][Other[r]], p)
         /\ Transforms(p, r) => Resolved(f, p)[r] = Wrapped(f[p - 1][r], p)
         /\ Op(p) \in Arithmetic /\ r = "A" /\ ~Transforms(p, r) =>
              Resolved(f, p)[r] = Lhs("computed_reg", r, FALSE, p + 1)
         /\ Op(p) = "JSR" => Resolved(f, p)[r] = Lhs("jsr_return", r, FALSE, p + 1)
         /\ /\ Op(p) # Load[r] /\ Op(p) # Transfer[r] /\ ~Transforms(p, r) /\ Op(p) # "JSR"
            /\ ~(Op(p) \in Arithmetic /\ r = "A")
            => Resolved(f, p)[r] = f[p - 1][r]
<1>1. /\ Op(p) = Load[r] => Op(p) \notin {Transfer[r], "JSR"} \cup Arithmetic /\ ~Transforms(p, r)
      /\ Op(p) = Transfer[r] => Op(p) # "JSR" /\ Op(p) \notin Arithmetic /\ ~Transforms(p, r)
      /\ Op(p) = "JSR" => Op(p) \notin Arithmetic /\ ~Transforms(p, r)
  BY DEF Reg, Load, Transfer, Arithmetic, Transforms, Shifts
<1>2. p # 0 OBVIOUS
<1>3. CASE Op(p) = Load[r] BY <1>1, <1>2, <1>3 DEF Resolved
<1>4. CASE Op(p) = Transfer[r]
  <2>1. Op(p) # Load[r] BY <1>1, <1>4
  <2> QED BY <1>1, <1>2, <1>4, <2>1 DEF Resolved
<1>5. CASE Transforms(p, r)
  <2>1. Op(p) # Load[r] /\ Op(p) # Transfer[r] /\ Op(p) # "JSR" BY <1>1, <1>5
  <2> QED BY <1>2, <1>5, <2>1 DEF Resolved
<1>6. CASE Op(p) \in Arithmetic /\ r = "A" /\ ~Transforms(p, r)
  <2>1. Op(p) # Load[r] /\ Op(p) # Transfer[r] /\ Op(p) # "JSR" BY <1>1, <1>6
  <2> QED BY <1>2, <1>6, <2>1 DEF Resolved
<1>7. CASE Op(p) = "JSR"
  <2>1. Op(p) # Load[r] /\ Op(p) # Transfer[r] /\ Op(p) \notin Arithmetic /\ ~Transforms(p, r)
    BY <1>1, <1>7
  <2> QED BY <1>2, <1>7, <2>1 DEF Resolved
<1>8. CASE /\ Op(p) # Load[r] /\ Op(p) # Transfer[r] /\ ~Transforms(p, r) /\ Op(p) # "JSR"
           /\ ~(Op(p) \in Arithmetic /\ r = "A")
  BY <1>2, <1>8 DEF Resolved
<1> QED BY <1>3, <1>4, <1>5, <1>6, <1>7, <1>8

LEMMA SourceOn ==
  ASSUME prog \in Programs, Runs, AtBranch, NEW p \in 1..Branch - 1, NEW f,
         \A r \in Reg : SourceOf(p - 1, r, f[p - 1][r]), NEW r \in Reg
  PROVE  SourceOf(p, r, Resolved(f, p)[r])
<1> DEFINE l == Resolved(f, p)[r]
           old == trace[p]
           new == trace[p + 1]
<1>1. p \in Nat /\ p > 0 /\ p # 0 /\ (p - 1) + 1 = p OBVIOUS
<1>2. /\ Typed(old) /\ old.regs \in [Reg -> Word] /\ new.regs \in [Reg -> Word]
      /\ Op(p) # "JSR" => new = After(p, old)
  BY MachineIs
<1>3. \A s \in Reg : Stands(f[p - 1][s], old.regs[s]) /\ Headed(f[p - 1][s], s)
  BY <1>1 DEF SourceOf
<1>4. Mode(p) \in Modes(Op(p)) BY OpIs
<1>5. /\ Op(p) = Load[r] => l = Operand(p)
      /\ Op(p) = Transfer[r] => l = Wrapped(f[p - 1][Other[r]], p)
      /\ Transforms(p, r) => l = Wrapped(f[p - 1][r], p)
      /\ Op(p) \in Arithmetic /\ r = "A" /\ ~Transforms(p, r) => l = Lhs("computed_reg", r, FALSE, p + 1)
      /\ Op(p) = "JSR" => l = Lhs("jsr_return", r, FALSE, p + 1)
      /\ /\ Op(p) # Load[r] /\ Op(p) # Transfer[r] /\ ~Transforms(p, r) /\ Op(p) # "JSR"
         /\ ~(Op(p) \in Arithmetic /\ r = "A")
         => l = f[p - 1][r]
  BY <1>1, ResolvedIs
<1>6. Op(p) # "JSR" /\ Shows(p) =>
        new.regs[r] = IF r = Target(p) THEN Shown(p, old).val ELSE old.regs[r]
  BY <1>2, AfterShows
<1> HIDE DEF l, new, old
<1>7. SUFFICES Stands(l, new.regs[r]) /\ Headed(l, r) BY DEF SourceOf, l, new
<1>8. CASE Op(p) = Load[r]
  <2>1. Op(p) \in {"LDA", "LDX"} /\ Mode(p) \in {"imm", "abs", "abx"} /\ r = Target(p)
    BY <1>4, <1>8, RegIs DEF Modes, Target, Arithmetic, Shifts
  <2>2. l = Operand(p) BY <1>5, <1>8
  <2>3. Shows(p) /\ Op(p) # "JSR" /\ Shown(p, old).val = Value(p, old)
    BY <2>1 DEF Shows, Shown, Arithmetic, Shifts
  <2>4. Source(l) = Value(p, old) BY <2>1, <2>2, OperandSource DEF old
  <2>5. PICK kind \in {"imm", "var"} : \E what, index : l = Lhs(kind, what, index, p)
    BY <2>1, <2>2, OperandSource
  <2>6. PICK what, index : l = Lhs(kind, what, index, p) BY <2>5
  <2>7. new.regs[r] = Value(p, old) BY <1>6, <2>1, <2>3
  <2>8. Value(p, old) \in Word BY <1>2, ValueWord
  <2>9. Source(l) \in Word /\ kind \in {"var", "imm", "from_caller", "computed_reg", "jsr_return"}
        /\ kind # "from_caller"
    BY <2>4, <2>5, <2>8
  <2>10. Stands(l, Source(l)) /\ l.chain = <<>> BY <2>6, <2>9, LhsStands
  <2> QED BY <2>4, <2>7, <2>10 DEF Headed
<1>9. CASE Op(p) = Transfer[r]
  <2>1. /\ Op(p) \in {"TXA", "TAX"} /\ Mode(p) = "imp" /\ r = Target(p) /\ Other[r] \in Reg
        /\ Op(p) # Load[r]
    BY <1>4, <1>9, RegIs DEF Reg, Modes, Target, Arithmetic, Shifts
  <2>2. l = Wrapped(f[p - 1][Other[r]], p) BY <1>5, <1>9, <2>1
  <2>3. Shows(p) /\ Op(p) # "JSR" BY <2>1 DEF Shows
  <2>4. Shown(p, old).val = old.regs[Other[r]]
    BY <1>9, <2>1, RegIs DEF Shown, Arithmetic, Shifts
  <2>5. ChainOp(prog[p]) /\ prog[p].op \in {"TAX", "TXA"} BY <2>1 DEF ChainOp, Op, Mode
  <2>6. old.regs[Other[r]] \in Word BY <1>2, <2>1
  <2>7. Stepped(prog[p], old.regs[Other[r]]) = old.regs[Other[r]] BY <2>5, <2>6, SteppedIs
  <2>8. new.regs[r] = old.regs[Other[r]] BY <1>6, <2>1, <2>3, <2>4
  <2>9. Stands(f[p - 1][Other[r]], old.regs[Other[r]]) BY <1>3, <2>1
  <2>10. /\ Stands(l, Stepped(prog[p], old.regs[Other[r]]))
         /\ l.chain # <<>> => l.chain[1] = prog[p]
    BY <2>2, <2>5, <2>6, <2>9, WrappedStands
  <2> QED BY <2>5, <2>7, <2>8, <2>10 DEF Headed
<1>10. CASE Transforms(p, r)
  <2>1. \/ r = "A" /\ Op(p) = "AND" /\ Mode(p) = "imm" /\ Arg(p) \in Word
        \/ r = "A" /\ Op(p) \in Shifts /\ Mode(p) = "acc"
        \/ r = "X" /\ Op(p) \in {"INX", "DEX"} /\ Mode(p) = "imp"
    BY <1>4, <1>10, OpIs DEF Transforms, Reg, Modes
  <2>2. Op(p) # Load[r] /\ Op(p) # Transfer[r] /\ Op(p) # "JSR" /\ Shows(p)
    BY <2>1 DEF Load, Transfer, Reg, Shifts, Shows
  <2>3. l = Wrapped(f[p - 1][r], p) BY <1>5, <1>10, <2>2
  <2>4. ChainOp(prog[p]) BY <2>1 DEF ChainOp, Op, Mode, Arg
  <2>5. old.regs[r] \in Word /\ Stands(f[p - 1][r], old.regs[r]) BY <1>2, <1>3
  <2>6. /\ Stands(l, Stepped(prog[p], old.regs[r]))
        /\ l.chain # <<>> => l.chain[1] = prog[p]
    BY <2>3, <2>4, <2>5, WrappedStands
  <2>7. r = Target(p) BY <2>1 DEF Target, Arithmetic, Shifts
  <2>8. Shown(p, old).val = Stepped(prog[p], old.regs[r])
    <3>1. CASE Op(p) = "AND" /\ Mode(p) = "imm" /\ r = "A"
      <4>1. Shown(p, old) = Alu("AND", old.regs["A"], Value(p, old), old.c) /\ Value(p, old) = Arg(p)
        BY <3>1 DEF Shown, Value, Arithmetic, Shifts
      <4>2. Stepped(prog[p], old.regs[r]) = Alu("AND", old.regs["A"], Arg(p), FALSE).val
        BY <3>1 DEF Stepped, Op, Mode, Arg
      <4>3. Alu("AND", old.regs["A"], Arg(p), old.c).val = Alu("AND", old.regs["A"], Arg(p), FALSE).val
        BY AluFresh
      <4> QED BY <4>1, <4>2, <4>3
    <3>2. CASE Op(p) \in Shifts /\ Mode(p) = "acc" /\ r = "A"
      <4>1. Shown(p, old) = Alu(Op(p), old.regs["A"], 0, old.c)
        BY <3>2 DEF Shown, Arithmetic, Shifts
      <4>2. Stepped(prog[p], old.regs[r]) = Alu(Op(p), old.regs["A"], 0, FALSE).val
        BY <3>2 DEF Stepped, Op, Mode, Arg
      <4>3. Op(p) \notin {"ADC", "SBC"} BY <3>2 DEF Shifts
      <4>4. Alu(Op(p), old.regs["A"], 0, old.c).val = Alu(Op(p), old.regs["A"], 0, FALSE).val
        BY <4>3, AluFresh
      <4> QED BY <4>1, <4>2, <4>4
    <3>3. CASE Op(p) \in {"INX", "DEX"} /\ Mode(p) = "imp" /\ r = "X"
      <4>1. Shown(p, old) = Alu(Op(p), old.regs["X"], 0, old.c)
        BY <3>3 DEF Shown, Arithmetic, Shifts
      <4>2. Stepped(prog[p], old.regs[r]) = Alu(Op(p), old.regs["X"], 0, FALSE).val
        BY <3>3 DEF Stepped, Op, Mode, Arg
      <4>3. Op(p) \notin {"ADC", "SBC"} BY <3>3
      <4>4. Alu(Op(p), old.regs["X"], 0, old.c).val = Alu(Op(p), old.regs["X"], 0, FALSE).val
        BY <4>3, AluFresh
      <4> QED BY <4>1, <4>2, <4>4
    <3> QED BY <2>1, <3>1, <3>2, <3>3
  <2>9. new.regs[r] = Stepped(prog[p], old.regs[r]) BY <1>6, <2>2, <2>7, <2>8
  <2>10. r = "A" => prog[p].op \notin {"INX", "DEX"} BY <2>1 DEF Op, Shifts
  <2> QED BY <2>6, <2>9, <2>10 DEF Headed
<1>11. CASE (Op(p) \in Arithmetic /\ r = "A" /\ ~Transforms(p, r)) \/ Op(p) = "JSR"
  <2>1. Op(p) # Load[r] /\ Op(p) # Transfer[r] /\ ~Transforms(p, r)
    BY <1>11 DEF Load, Transfer, Reg, Transforms, Arithmetic, Shifts
  <2>2. \E kind \in {"computed_reg", "jsr_return"} : l = Lhs(kind, r, FALSE, p + 1)
    <3>1. CASE Op(p) \in Arithmetic /\ r = "A" BY <1>5, <2>1, <3>1
    <3>2. CASE Op(p) = "JSR"
      <4>1. Op(p) \notin Arithmetic BY <3>2 DEF Arithmetic
      <4> QED BY <1>5, <2>1, <3>2, <4>1
    <3> QED BY <1>11, <3>1, <3>2
  <2>3. PICK kind \in {"computed_reg", "jsr_return"} : l = Lhs(kind, r, FALSE, p + 1) BY <2>2
  <2>4. l.kind = kind /\ l.what = r /\ l.at = p + 1 BY <2>3 DEF Lhs
  <2>5. Source(l) = new.regs[r] BY <2>4 DEF Source, new
  <2>6. new.regs[r] \in Word BY <1>2
  <2>7. kind \in {"var", "imm", "from_caller", "computed_reg", "jsr_return"} /\ kind # "from_caller"
    BY <2>3
  <2>8. Source(l) \in Word BY <2>5, <2>6
  <2>9. Stands(l, Source(l)) /\ l.chain = <<>> BY <2>3, <2>7, <2>8, LhsStands
  <2> QED BY <2>5, <2>9 DEF Headed
<1>12. CASE /\ Op(p) # Load[r] /\ Op(p) # Transfer[r] /\ ~Transforms(p, r)
            /\ ~(Op(p) \in Arithmetic /\ r = "A") /\ Op(p) # "JSR"
  <2>1. l = f[p - 1][r] BY <1>5, <1>12
  <2>2. r # Target(p) BY <1>12, RegIs DEF Target, Transforms
  <2>3. new.regs[r] = old.regs[r]
    <3>1. CASE Shows(p) BY <1>6, <1>12, <2>2, <3>1
    <3>2. CASE ~Shows(p)
      <4>1. new.regs = old.regs BY <1>2, <1>12, <3>2, AfterOthers
      <4> QED BY <4>1
    <3> QED BY <3>1, <3>2
  <2> QED BY <1>3, <2>1, <2>3
<1> QED BY <1>8, <1>9, <1>10, <1>11, <1>12

LEMMA ResolveSource ==
  ASSUME prog \in Programs, Runs, AtBranch, NEW p \in 0..Branch - 1, NEW r \in Reg
  PROVE  SourceOf(p, r, Resolve[p][r])
<1> DEFINE All(n) == \A s \in Reg : SourceOf(n, s, Resolve[n][s])
           S == {n \in 0..Branch - 1 : ~All(n)}
<1>1. Branch \in Nat /\ Branch > 0 /\ Len(prog) \in Nat BY PieceIs
<1>2. \A n \in 0..Branch - 1 : Resolve[n] = Resolved(Resolve, n)
  <2>1. Resolve = [n \in 0..Branch |-> Resolved(Resolve, n)] BY <1>1, ResolveIs
  <2> HIDE DEF Resolve
  <2>2. \A n \in 0..Branch : Resolve[n] = Resolved(Resolve, n) BY <2>1, Zenon
  <2>3. \A n \in 0..Branch - 1 : n \in 0..Branch BY <1>1
  <2> QED BY <2>2, <2>3
<1> HIDE DEF Resolve
<1>3. All(0)
  <2>1. 0 \in 0..Branch - 1 BY <1>1
  <2> QED BY <1>2, <2>1, SourceFirst
<1>4. ASSUME NEW n \in 1..Branch - 1, All(n - 1) PROVE All(n)
  <2>1. n \in 0..Branch - 1 BY <1>1
  <2>2. \A s \in Reg : SourceOf(n, s, Resolved(Resolve, n)[s]) BY <1>4, SourceOn
  <2> QED BY <1>2, <2>1, <2>2
<1>5. S = {}
  <2> SUFFICES ASSUME S # {} PROVE FALSE OBVIOUS
  <2>1. S \in SUBSET Nat BY <1>1
  <2> HIDE DEF All
  <2>2. Min(S) \in S /\ \A x \in S : Min(S) <= x BY <2>1, MinIs
  <2>3. PICK n \in S : \A x \in S : n <= x BY <2>2
  <2>4. n \in 0..Branch - 1 /\ ~All(n) /\ n # 0 BY <1>3, <2>3
  <2>5. n \in 1..Branch - 1 /\ n - 1 \in 0..Branch - 1 /\ ~(n <= n - 1) BY <1>1, <2>4
  <2>6. All(n - 1) BY <2>3, <2>5
  <2> QED BY <1>4, <2>4, <2>5, <2>6
<1>6. All(p) BY <1>5
<1> QED BY <1>6

(***************************************************************************)
(* The fact: the setter is the last to set the flags, and the source makes *)
(* the value it works on.                                                  *)
(***************************************************************************)

LEMMA SetterLast ==
  ASSUME prog \in Programs, Setter # 0
  PROVE  /\ Setter \in 1..Branch - 1 /\ Op(Setter) \in Setters(Op(Branch))
         /\ \A q \in Setter + 1..Branch - 1 : Op(q) \notin Setters(Op(Branch))
<1> DEFINE S == {p \in 1..(Branch - 1) : Op(p) \in Setters(Op(Branch))}
<1>1. Setter = Latest(S) BY DEF Setter
<1>2. Branch \in Nat /\ Branch > 0 BY PieceIs
<1>3. \A p \in S : p \in 1..Branch - 1 /\ Op(p) \in Setters(Op(Branch)) OBVIOUS
<1>4. \A q \in 1..Branch - 1 : Op(q) \in Setters(Op(Branch)) => q \in S OBVIOUS
<1>5. S \in SUBSET (0..Branch) BY <1>2
<1> HIDE DEF S
<1>6. S # {} BY <1>1 DEF Latest
<1>7. \E p \in S : \A q \in S : q <= p BY <1>2, <1>5, <1>6, MaxIs
<1>8. Setter \in S /\ \A q \in S : q <= Setter BY <1>1, <1>6, <1>7 DEF Latest
<1>9. ASSUME NEW q \in Setter + 1..Branch - 1 PROVE Op(q) \notin Setters(Op(Branch))
  <2>1. Setter \in 1..Branch - 1 BY <1>3, <1>8
  <2>2. q \in 1..Branch - 1 /\ ~(q <= Setter) BY <1>2, <2>1
  <2> QED BY <1>4, <1>8, <2>2
<1> QED BY <1>3, <1>8, <1>9

\* The flags the setter leaves are those the branch finds.
LEMMA FlagsLast ==
  ASSUME prog \in Programs, Runs, AtBranch, Setter # 0
  PROVE  Taken(trace[Branch]) <=> Taken(trace[Setter + 1])
<1> DEFINE s == Setter
           Same(q) == Taken(trace[q]) <=> Taken(trace[s + 1])
           S == {q \in s + 1..Branch : ~Same(q)}
<1>1. Branch \in Nat /\ s \in 1..Branch - 1 BY PieceIs, SetterLast
<1>2. ASSUME NEW q \in s + 1..Branch, q # s + 1, Same(q - 1) PROVE Same(q)
  <2>1. q - 1 \in s + 1..Branch - 1 /\ q - 1 \in 1..Branch - 1 /\ (q - 1) + 1 = q BY <1>1, <1>2
  <2>2. Op(q - 1) \notin Setters(Op(Branch)) BY <2>1, SetterLast
  <2>3. Typed(trace[q - 1]) BY <2>1, MachineIs
  <2>4. Op(q - 1) # "JSR" /\ (Taken(After(q - 1, trace[q - 1])) <=> Taken(trace[q - 1]))
    BY <2>1, <2>2, <2>3, FlagsKept
  <2>5. trace[q] = After(q - 1, trace[q - 1]) BY <2>1, <2>4, MachineIs
  <2> QED BY <1>2, <2>4, <2>5
<1>3. S = {}
  <2> SUFFICES ASSUME S # {} PROVE FALSE OBVIOUS
  <2>1. S \in SUBSET Nat /\ s + 1 \notin S BY <1>1
  <2>2. \A q \in S : q \in s + 1..Branch /\ ~Same(q) OBVIOUS
  <2>3. \A q \in s + 1..Branch : q \notin S => Same(q) OBVIOUS
  <2> HIDE DEF Same, S
  <2>4. Min(S) \in S /\ \A x \in S : Min(S) <= x BY <2>1, MinIs
  <2>5. PICK q \in S : \A x \in S : q <= x BY <2>4
  <2>6. q \in s + 1..Branch /\ q # s + 1 BY <2>1, <2>2, <2>5
  <2>7. q - 1 \in s + 1..Branch /\ ~(q <= q - 1) BY <1>1, <2>6
  <2>8. Same(q - 1) BY <2>3, <2>5, <2>7
  <2> QED BY <1>2, <2>2, <2>5, <2>6, <2>8
<1>4. Branch \in s + 1..Branch BY <1>1
<1> QED BY <1>3, <1>4

\* What the setter works on.
Subject(s) == IF WalkReg(s) # "" THEN trace[s].regs[WalkReg(s)] ELSE Value(s, trace[s])

\* The setters of an operand.
LEMMA SetterKinds ==
  ASSUME prog \in Programs, Setter # 0, Op(Setter) \notin {"JSR", "SEC", "CLC"}
  PROVE  /\ Shows(Setter) \/ Op(Setter) = "BIT"
         /\ WalkReg(Setter) \in {"", "A", "X"}
         /\ WalkReg(Setter) = "" =>
              /\ \/ Op(Setter) \in {"LDA", "LDX", "BIT", "INC", "DEC"}
                 \/ Op(Setter) \in Shifts /\ Mode(Setter) = "abs"
              /\ Mode(Setter) \in {"imm", "abs", "abx"}
<1>1. Setter \in 1..Branch - 1 /\ Op(Setter) \in Setters(Op(Branch)) BY SetterLast
<1>2. Op(Setter) \in ZeroSetters \cup CarrySetters \cup {"ADC", "SBC", "BIT"} BY <1>1 DEF Setters
<1>3. Op(Setter) \notin {"STA", "STX"}
  BY <1>2 DEF ZeroSetters, CarrySetters, Arithmetic, Shifts
<1>4. WalkReg(Setter) \in {"", "A", "X"} BY DEF WalkReg
<1>5. ASSUME WalkReg(Setter) = ""
      PROVE  \/ Op(Setter) \in {"LDA", "LDX", "BIT", "INC", "DEC"}
             \/ Op(Setter) \in Shifts /\ Mode(Setter) = "abs"
  <2>1. /\ Op(Setter) \notin Arithmetic \cup {"CMP", "TAX", "CPX", "INX", "DEX", "TXA"}
        /\ ~(Op(Setter) \in Shifts /\ Mode(Setter) = "acc")
    BY <1>5 DEF WalkReg
  <2> QED BY <1>1, <1>3, <2>1, OpKinds
<1>6. WalkReg(Setter) = "" => Mode(Setter) \in {"imm", "abs", "abx"}
  <2>1. Mode(Setter) \in Modes(Op(Setter)) BY <1>1, OpIs
  <2> QED BY <1>5, <2>1 DEF Modes
<1> QED BY <1>3, <1>4, <1>5, <1>6 DEF Shows

\* The fact of the setter reads what the setter works on.
Facing(l) ==
  /\ l.post = PostOp(Setter)
  /\ l.kind \in {"var", "imm", "from_caller", "computed_reg", "jsr_return"}
  /\ l.kind = "from_caller" => l.at = 1 /\ l.what \in Reg
  /\ l.chain \in Seq(ChainOps)
  /\ ~l.lost => Yields(l.chain, Source(l), Subject(Setter))
  /\ WalkReg(Setter) = "A" => Headed(l, "A")
  /\ WalkReg(Setter) = "" => l.chain = <<>>

LEMMA FactFaces ==
  ASSUME prog \in Programs, Runs, AtBranch, Setter # 0, Op(Setter) \notin {"JSR", "SEC", "CLC"}
  PROVE  Facing(FactLhs)
<1> DEFINE s == Setter
           r == WalkReg(s)
<1>1. s \in 1..Branch - 1 /\ Branch \in Nat BY PieceIs, SetterLast
<1>2. ASSUME NEW l, NEW fixed, fixed = [l EXCEPT !.post = PostOp(s)], Stands(l, Subject(s)),
             r = "A" => Headed(l, "A"), r = "" => l.chain = <<>>
      PROVE  Facing(fixed)
  <2>1. /\ fixed.post = PostOp(s) /\ fixed.kind = l.kind /\ fixed.at = l.at /\ fixed.what = l.what
        /\ fixed.chain = l.chain /\ fixed.lost = l.lost /\ fixed.index = l.index
    BY <1>2 DEF Stands, LhsFields
  <2>2. Source(fixed) = Source(l) BY <2>1 DEF Source
  <2> QED BY <1>2, <2>1, <2>2 DEF Facing, Stands, Headed
<1>3. CASE r # ""
  <2>1. r \in Reg BY <1>3, SetterKinds DEF Reg
  <2>2. s - 1 \in 0..Branch - 1 /\ (s - 1) + 1 = s BY <1>1
  <2> DEFINE l == Resolve[s - 1][r]
  <2>3. FactLhs = [l EXCEPT !.post = PostOp(s)] BY <1>3 DEF FactLhs
  <2>4. SourceOf(s - 1, r, l) BY <2>1, <2>2, ResolveSource
  <2> HIDE DEF l
  <2>5. Stands(l, Subject(s)) /\ Headed(l, r) BY <1>3, <2>2, <2>4 DEF SourceOf, Subject
  <2> QED BY <1>2, <1>3, <2>3, <2>5
<1>4. CASE r = ""
  <2>1. Mode(s) \in {"imm", "abs", "abx"} BY <1>4, SetterKinds
  <2> DEFINE l == Operand(s)
  <2>2. FactLhs = [l EXCEPT !.post = PostOp(s)] BY <1>4, <2>1 DEF FactLhs
  <2>3. Source(l) = Subject(s)
    <3>1. Subject(s) = Value(s, trace[s]) BY <1>4 DEF Subject
    <3>2. Source(Operand(s)) = Value(s, trace[s]) BY <2>1, OperandSource
    <3> QED BY <3>1, <3>2
  <2>4. PICK kind \in {"imm", "var"} : \E what, index : l = Lhs(kind, what, index, s)
    BY <2>1, OperandSource
  <2>5. PICK what, index : l = Lhs(kind, what, index, s) BY <2>4
  <2> HIDE DEF l
  <2>6. Typed(trace[s]) BY <1>1, MachineIs
  <2>7. Source(l) \in Word BY <1>1, <1>4, <2>3, <2>6, ValueWord DEF Subject
  <2>8. kind \in {"var", "imm", "from_caller", "computed_reg", "jsr_return"} /\ kind # "from_caller"
    BY <2>4
  <2>9. Stands(l, Source(l)) /\ l.chain = <<>> BY <2>5, <2>7, <2>8, LhsStands
  <2> QED BY <1>2, <1>4, <2>2, <2>3, <2>9
<1> QED BY <1>3, <1>4

(***************************************************************************)
(* The text: what it means is what the setter makes.                       *)
(***************************************************************************)

LEMMA NothingFolds == Folded(<<>>) = <<>>
<1>1. Len(<<>>) = 0 OBVIOUS
<1> DEFINE none == <<>>
<1>2. Len(none) \in Nat BY <1>1
<1> HIDE DEF none
<1>3. PICK f : f = [i \in 0..Len(none) |-> FoldStep(f, none, i)] /\ Folded(none) = f[Len(none)]
  BY <1>2, FoldedIs
<1>4. f[Len(none)] = FoldStep(f, none, Len(none))
  <2>1. Len(none) \in 0..Len(none) BY <1>2
  <2> QED BY <1>3, <2>1, Zenon
<1>5. Folded(none) = <<>> BY <1>1, <1>3, <1>4 DEF none, FoldStep
<1> QED BY <1>5 DEF none

Logic == {"AND"} \cup Shifts

\* The source of a text that is not misread, and its transforms in any order.
Sourced(l) ==
  /\ l.post = PostOp(Setter)
  /\ l.chain \in Seq(ChainOps) /\ Yields(l.chain, Source(l), Subject(Setter))
  /\ \A i, j \in 1..Len(Folded(l.chain)) :
       i # j /\ Folded(l.chain)[i].op \in Logic => Folded(l.chain)[j].op \in {"TAX", "TXA"}
  /\ WalkReg(Setter) = "A" => Headed(l, "A")
  /\ WalkReg(Setter) = "" => l.chain = <<>>

LEMMA SubjectWord == ASSUME NEW l, Sourced(l)  PROVE Subject(Setter) \in Word
<1>1. PICK g \in [0..Len(l.chain) -> Word] : g[0] = Subject(Setter) BY DEF Sourced, Yields
<1>2. Len(l.chain) \in Nat
  <2>1. \A S : \A c \in Seq(S) : Len(c) \in Nat OBVIOUS
  <2> QED BY <2>1 DEF Sourced
<1>3. 0 \in 0..Len(l.chain) BY <1>2
<1> QED BY <1>1, <1>3

LEMMA PivotedSourced ==
  ASSUME prog \in Programs, inputs \in Inputs, Runs, AtBranch, Facing(fact), ~Misread
  PROVE  Sourced(Pivoted(fact))
<1> DEFINE l == fact
           shown == Folded(l.chain)
<1>1. ChainOps \subseteq ChainOps /\ \A i \in ChainOps : ChainOp(i) BY DEF ChainOps
<1>2. ~l.lost BY DEF Misread
<1>3. l.chain \in Seq(ChainOps) /\ Yields(l.chain, Source(l), Subject(Setter)) BY <1>2 DEF Facing
<1>4. shown \in Seq(ChainOps) /\ Yields(shown, Source(l), Subject(Setter)) BY <1>1, <1>3, FoldedYields
<1>5. CASE l.kind = "from_caller" /\ inputs[l.what] # ""
  <2> DEFINE new == Lhs("var", inputs[l.what], FALSE, l.at)
  <2>1. Pivoted(l) = new BY <1>5 DEF Pivoted
  <2>2. Wrappers(l) = <<>> BY <1>5 DEF Misread
  <2>3. l.post = "" /\ shown = <<>>
    <3>1. \A S : \A t \in Seq(S) : t \o <<>> = t /\ \A x : t \o <<x>> # <<>> OBVIOUS
    <3>2. l.post = "" => Wrappers(l) = shown \o <<>> BY DEF Wrappers
    <3>3. l.post # "" => Wrappers(l) = shown \o <<Implied(l.post)>> BY DEF Wrappers
    <3> HIDE DEF shown
    <3> QED BY <1>4, <2>2, <3>1, <3>2, <3>3
  <2>4. Subject(Setter) = Source(l) /\ Subject(Setter) \in Word
    <3>1. Len(<<>>) = 0 OBVIOUS
    <3>2. PICK g \in [0..0 -> Word] : g[0] = Subject(Setter) /\ g[0] = Source(l)
      BY <1>4, <2>3, <3>1 DEF Yields
    <3> QED BY <3>2
  <2>5. Source(l) = trace[1].regs[l.what] BY <1>5 DEF Source, Facing
  <2>6. trace[1].regs[l.what] = trace[1].mem[inputs[l.what]]
    <3>1. Branch \in Nat /\ Branch > 0 /\ Len(trace) = Branch BY PieceIs DEF AtBranch
    <3>2. trace # <<>> BY <3>1
    <3>3. l.what \in Reg BY <1>5 DEF Facing
    <3> QED BY <1>5, <3>2, <3>3 DEF Runs
  <2>7. l.at = 1 BY <1>5 DEF Facing
  <2> HIDE DEF l
  <2>8. /\ new.kind = "var" /\ new.what = inputs[l.what] /\ ~new.index /\ new.at = 1
        /\ new.chain = <<>> /\ new.post = ""
    BY <2>7 DEF Lhs
  <2> HIDE DEF new
  <2>9. Source(new) = trace[1].mem[inputs[l.what]] BY <2>8 DEF Source
  <2>10. Yields(new.chain, Source(new), Subject(Setter))
    BY <2>4, <2>5, <2>6, <2>8, <2>9, NothingYields
  <2>11. Len(Folded(new.chain)) = 0
    <3>1. Len(<<>>) = 0 OBVIOUS
    <3> QED BY <2>8, <3>1, NothingFolds
  <2>12. PostOp(Setter) = "" BY <2>3 DEF Facing, l
  <2>13. new.chain \in Seq(ChainOps)
    <3>1. \A S : <<>> \in Seq(S) OBVIOUS
    <3> QED BY <2>8, <3>1
  <2>14. \A i : ~(i \in 1..0) OBVIOUS
  <2> QED BY <2>1, <2>8, <2>10, <2>11, <2>12, <2>13, <2>14 DEF Sourced, Headed, l
<1>6. CASE ~(l.kind = "from_caller" /\ inputs[l.what] # "")
  <2>1. Pivoted(l) = l BY <1>6 DEF Pivoted
  <2>2. DOMAIN shown = 1..Len(shown) BY <1>4
  <2>3. \A i, j \in DOMAIN shown :
          ~(i # j /\ shown[i].op \in Logic /\ shown[j].op \notin {"TAX", "TXA"})
    BY DEF Misread, Logic
  <2>4. \A i, j \in 1..Len(shown) : i # j /\ shown[i].op \in Logic => shown[j].op \in {"TAX", "TXA"}
    BY <2>2, <2>3
  <2> QED BY <1>3, <2>1, <2>4 DEF Sourced, Facing
<1> QED BY <1>5, <1>6

\* A text that begins with the transforms of its source has made the subject of
\* it after them.
LEMMA MeantChain ==
  ASSUME NEW l, Sourced(l), NEW t, t.lhs = l, Len(t.ops) \in Nat, Len(t.ops) >= Len(Folded(l.chain)),
         \A x \in 1..Len(Folded(l.chain)) : t.ops[x] = Folded(l.chain)[x]
  PROVE  \E f : /\ f[Len(Folded(l.chain))].val = Subject(Setter) /\ Meant(t) = f[Len(t.ops)]
                /\ \A k \in 1..Len(t.ops) :
                     f[k] = Alu(t.ops[k].op, f[k - 1].val, OperandOf(t.ops[k]), t.ops[k].op = "SBC")
<1> DEFINE shown == Folded(l.chain)
           n == Len(shown)
           w == Subject(Setter)
           ops == t.ops
<1>1. \A x \in ChainOps : ChainOp(x) BY DEF ChainOps
<1>2. shown \in Seq(ChainOps) /\ Yields(shown, Source(l), w) BY <1>1, FoldedYields DEF Sourced
<1>3. \A x, y \in 1..n : x # y /\ shown[x].op \in Logic => shown[y].op \in {"TAX", "TXA"}
  BY DEF Sourced
<1>4. t.lhs = l /\ t.ops = ops OBVIOUS
<1>5. /\ n \in Nat /\ Len(ops) \in Nat /\ n <= Len(ops)
      /\ \A x \in 1..n : ops[x] = shown[x] /\ shown[x] \in ChainOps
  <2> HIDE DEF shown
  <2>1. n \in Nat /\ \A x \in 1..n : shown[x] \in ChainOps BY <1>2
  <2> QED BY <2>1 DEF shown
<1> HIDE DEF shown, ops
<1>6. PICK f : /\ f[0] = [val |-> Source(t.lhs), carry |-> FALSE]
               /\ \A k \in 1..Len(t.ops) :
                    f[k] = Alu(t.ops[k].op, f[k - 1].val, OperandOf(t.ops[k]), t.ops[k].op = "SBC")
               /\ Meant(t) = f[Len(t.ops)]
  BY <1>4, <1>5, MeantIs
<1> DEFINE h == [k \in 0..n |-> f[k].val]
<1>7. ASSUME NEW k \in 1..n PROVE f[k].val = Stepped(shown[k], f[k - 1].val)
  <2> DEFINE x == shown[k]
  <2>1. k \in 1..Len(ops) /\ ops[k] = x /\ ChainOp(x) BY <1>1, <1>5
  <2>2. f[k] = Alu(x.op, f[k - 1].val, OperandOf(x), x.op = "SBC") BY <1>4, <1>6, <2>1
  <2>3. OperandOf(x) = IF x.mode = "imm" THEN x.arg ELSE 0
    BY <2>1 DEF ChainOp, OperandOf
  <2>4. x.op \notin {"ADC", "SBC"} BY <2>1 DEF ChainOp, Shifts
  <2> HIDE DEF x
  <2> DEFINE v == f[k - 1].val
             o == OperandOf(x)
             c == (x.op = "SBC")
  <2>5. Alu(x.op, v, o, c).val = Alu(x.op, v, o, FALSE).val
    <3> HIDE DEF v, o, c
    <3> QED BY ONLY <2>4, AluFresh
  <2>6. Alu(x.op, v, o, c).val = Stepped(x, v) BY <2>3, <2>5 DEF Stepped
  <2>7. f[k] = Alu(x.op, v, o, c) BY <2>2
  <2> QED BY ONLY <2>6, <2>7 DEF v, x
<1>8. f[0].val = Source(l) /\ Source(l) \in Word
  <2>1. f[0].val = Source(l) BY <1>4, <1>6
  <2>2. PICK g \in [0..n -> Word] : g[n] = Source(l) BY <1>2 DEF Yields
  <2>3. n \in 0..n BY <1>5
  <2> QED BY <2>1, <2>2, <2>3
<1>9. \A k \in 0..n : f[k].val \in Word
  <2> DEFINE Bad == {k \in 0..n : f[k].val \notin Word}
  <2> SUFFICES ASSUME Bad # {} PROVE FALSE OBVIOUS
  <2>1. Bad \in SUBSET Nat BY <1>5
  <2>2. Min(Bad) \in Bad /\ \A x \in Bad : Min(Bad) <= x BY <2>1, MinIs
  <2>3. PICK k \in Bad : \A x \in Bad : k <= x BY <2>2
  <2>4. k \in 1..n BY <1>5, <1>8, <2>3
  <2>5. k - 1 \in 0..n /\ ~(k <= k - 1) BY <1>5, <2>4
  <2>6. f[k - 1].val \in Word BY <2>3, <2>5
  <2>7. ChainOp(shown[k]) BY <1>1, <1>5, <2>4
  <2>8. f[k].val \in Word BY <1>7, <2>4, <2>6, <2>7, SteppedIs
  <2> QED BY <2>3, <2>8
<1>10. h \in [0..n -> Word] /\ (\A k \in 0..n : h[k] = f[k].val) BY <1>9
<1> HIDE DEF h
<1>11. h[n] = w
  <2>1. 0 \in 0..n /\ \A k \in 1..n : k \in 0..n /\ k - 1 \in 0..n BY <1>5
  <2>2. Yields(shown, h[0], w) BY <1>2, <1>8, <1>10, <2>1
  <2>3. \A k \in 1..n : h[k] = Stepped(shown[k], h[k - 1]) BY <1>7, <1>10, <2>1
  <2>4. ASSUME NEW a \in 1..n, NEW b \in 1..n, a # b, NEW v \in Word
        PROVE  Stepped(shown[a], Stepped(shown[b], v)) = Stepped(shown[b], Stepped(shown[a], v))
    <3>1. ChainOp(shown[a]) /\ ChainOp(shown[b]) BY <1>1, <1>5
    <3>2. \/ shown[a].op \in {"TAX", "TXA"} \/ shown[b].op \in {"TAX", "TXA"}
          \/ (shown[a].op \notin ({"AND"} \cup Shifts) /\ shown[b].op \notin ({"AND"} \cup Shifts))
      BY <1>3, <2>4 DEF Logic
    <3> QED BY <3>1, <3>2, StepsCommute
  <2> HIDE DEF n
  <2>5. h \in [0..Len(shown) -> Word] BY <1>10 DEF n
  <2> QED BY <1>1, <1>2, <2>2, <2>3, <2>4, <2>5, EitherOrder DEF n
<1>12. f[n].val = w
  <2>1. n \in 0..n BY <1>5
  <2> QED BY <1>10, <1>11, <2>1
<1> QED BY <1>6, <1>12 DEF shown

\* Without another operation a text means the subject.
LEMMA MeantAlone ==
  ASSUME NEW l, Sourced(l), NEW form, NEW t, t = Text(form, l, Folded(l.chain) \o <<>>)
  PROVE  Meant(t).val = Subject(Setter)
<1> DEFINE shown == Folded(l.chain)
<1>1. \A x \in ChainOps : ChainOp(x) BY DEF ChainOps
<1>2. shown \in Seq(ChainOps) BY <1>1, FoldedYields DEF Sourced
<1>3. t.lhs = l /\ t.ops = shown \o <<>> BY DEF Text
<1> HIDE DEF shown
<1>4. t.ops = shown /\ Len(shown) \in Nat BY <1>2, <1>3
<1>5. Len(t.ops) \in Nat /\ Len(t.ops) >= Len(shown) /\ \A x \in 1..Len(shown) : t.ops[x] = shown[x]
  BY <1>4
<1>6. PICK f : f[Len(shown)].val = Subject(Setter) /\ Meant(t) = f[Len(t.ops)]
  BY <1>3, <1>5, MeantChain DEF shown
<1> QED BY <1>4, <1>6

\* With one, what it makes of the subject.
LEMMA MeantThen ==
  ASSUME NEW l, Sourced(l), NEW form, NEW i, NEW t, t = Text(form, l, Folded(l.chain) \o <<i>>)
  PROVE  Meant(t) = Alu(i.op, Subject(Setter), OperandOf(i), i.op = "SBC")
<1> DEFINE shown == Folded(l.chain)
           n == Len(shown)
<1>1. \A x \in ChainOps : ChainOp(x) BY DEF ChainOps
<1>2. shown \in Seq(ChainOps) BY <1>1, FoldedYields DEF Sourced
<1>3. t.lhs = l /\ t.ops = shown \o <<i>> BY DEF Text
<1> HIDE DEF shown
<1>4. /\ n \in Nat /\ Len(t.ops) = n + 1 /\ t.ops[n + 1] = i
      /\ \A x \in 1..n : t.ops[x] = shown[x]
  BY <1>2, <1>3
<1>5. /\ Len(t.ops) \in Nat /\ Len(t.ops) >= n
      /\ n + 1 \in 1..Len(t.ops) /\ (n + 1) - 1 = n
  BY <1>4
<1>6. PICK f : /\ f[n].val = Subject(Setter) /\ Meant(t) = f[Len(t.ops)]
               /\ \A k \in 1..Len(t.ops) :
                    f[k] = Alu(t.ops[k].op, f[k - 1].val, OperandOf(t.ops[k]), t.ops[k].op = "SBC")
  <2>1. /\ Len(t.ops) >= Len(Folded(l.chain))
        /\ \A x \in 1..Len(Folded(l.chain)) : t.ops[x] = Folded(l.chain)[x]
    BY <1>4, <1>5 DEF shown
  <2> HIDE DEF n
  <2>2. \E f : /\ f[Len(Folded(l.chain))].val = Subject(Setter) /\ Meant(t) = f[Len(t.ops)]
               /\ \A k \in 1..Len(t.ops) :
                    f[k] = Alu(t.ops[k].op, f[k - 1].val, OperandOf(t.ops[k]), t.ops[k].op = "SBC")
    <3>1. t.lhs = l /\ Len(t.ops) \in Nat BY <1>3, <1>5
    <3> QED BY ONLY Sourced(l), <2>1, <3>1, MeantChain
  <2> QED BY <2>2 DEF n, shown
<1>7. f[n + 1] = Alu(i.op, f[n].val, OperandOf(i), i.op = "SBC") BY <1>4, <1>5, <1>6
<1> QED BY <1>4, <1>6, <1>7

(***************************************************************************)
(* Each form of the text against the flags.                                *)
(***************************************************************************)

Carried == {"BCS", "BCC"}

LEMMA CarryNeeds ==
  ASSUME prog \in Programs, Setter # 0, Op(Branch) \in Carried  PROVE Op(Setter) \in CarrySetters \cup {"JSR"}
<1>1. Op(Setter) \in Setters(Op(Branch)) BY SetterLast
<1> QED BY <1>1 DEF Setters, Carried

\* What the text of a result means, for each kind of setter.
LEMMA ResultMeant ==
  ASSUME prog \in Programs, Runs, AtBranch, Setter # 0,
         Op(Setter) \notin {"JSR", "SEC", "CLC", "CMP", "CPX", "BIT"},
         ~(Op(Setter) \in Shifts /\ Mode(Setter) = "abs"),
         Op(Setter) \in Arithmetic => Mode(Setter) # "abx",
         Op(Setter) \in {"ADC", "SBC"} => trace[Setter].c = (Op(Setter) = "SBC"),
         NEW l, Sourced(l), NEW form, NEW t, t = Text(form, l, Wrappers(l) \o Infix)
  PROVE  /\ Meant(t).val = Shown(Setter, trace[Setter]).val
         /\ Op(Branch) \in Carried => Meant(t).carry = Shown(Setter, trace[Setter]).carry
<1> DEFINE s == Setter
           m == trace[s]
           op == Op(s)
           shown == Folded(l.chain)
<1>1. s \in 1..Branch - 1 /\ op \in Setters(Op(Branch)) BY SetterLast
<1>2. Op(Branch) \in Carried => op \in CarrySetters BY CarryNeeds
<1>3. shown \in Seq(ChainOps)
  <2>1. \A x \in ChainOps : ChainOp(x) BY DEF ChainOps
  <2> QED BY <2>1, FoldedYields DEF Sourced
<1>4. /\ shown \o <<>> = shown
      /\ \A x : (shown \o <<x>>) \o <<>> = shown \o <<x>>
  <2> HIDE DEF shown
  <2>1. \A S : \A u \in Seq(S) : u \o <<>> = u OBVIOUS
  <2>2. shown \o <<>> = shown BY <1>3, <2>1
  <2>3. ASSUME NEW x PROVE (shown \o <<x>>) \o <<>> = shown \o <<x>>
    <3>1. \A S : \A u \in Seq(S) : u \o <<x>> \in Seq(S \cup {x})
      <4> SUFFICES ASSUME NEW S, NEW u \in Seq(S) PROVE u \o <<x>> \in Seq(S \cup {x}) OBVIOUS
      <4>1. u \o <<x>> = Append(u, x) OBVIOUS
      <4> QED BY <4>1, Lengthened
    <3> QED BY <1>3, <2>1, <3>1
  <2> QED BY <2>2, <2>3
<1>5. l.post = PostOp(s) BY DEF Sourced
<1>6. Op(Branch) \notin Carried \/ op \in Arithmetic \cup Shifts
  BY <1>2 DEF CarrySetters, Arithmetic
<1>7. Mode(s) \in Modes(op) BY <1>1, OpIs
<1>8. CASE op \in {"LDA", "LDX", "TAX", "TXA"}
  <2>1. PostOp(s) = "" /\ Infix = <<>> /\ Op(Branch) \notin Carried
    BY <1>6, <1>8 DEF PostOp, Infix, Arithmetic, Shifts
  <2>2. Wrappers(l) \o Infix = shown \o <<>> BY <1>4, <1>5, <2>1 DEF Wrappers
  <2> DEFINE rest == <<>>
  <2> HIDE DEF rest, shown
  <2>3. t = Text(form, l, Folded(l.chain) \o rest) BY <2>2 DEF rest, shown
  <2>4. Meant(t).val = Subject(s)
    <3> QED BY <2>3, MeantAlone DEF rest
  <2>5. Subject(s) = Shown(s, m).val
    <3>1. CASE op \in {"LDA", "LDX"} BY <3>1 DEF Subject, WalkReg, Shown, Arithmetic, Shifts
    <3>2. CASE op = "TAX" BY <3>2 DEF Subject, WalkReg, Shown, Arithmetic, Shifts
    <3>3. CASE op = "TXA" BY <3>3 DEF Subject, WalkReg, Shown, Arithmetic, Shifts
    <3> QED BY <1>8, <3>1, <3>2, <3>3
  <2> QED BY <2>1, <2>4, <2>5
<1>9. CASE op \in {"INX", "DEX", "INC", "DEC"} \cup Shifts
  <2> DEFINE i == Implied(PostOp(s))
             rest == <<i>>
  <2>1. /\ Infix = <<>> /\ Mode(s) = (IF op \in {"INX", "DEX"} THEN "imp"
                                      ELSE IF op \in {"INC", "DEC"} THEN "abs" ELSE "acc")
    BY <1>7, <1>9 DEF Infix, Arithmetic, Shifts, Modes
  <2>2. PostOp(s) = IF op \in {"INX", "INC"} THEN "INC" ELSE IF op \in {"DEX", "DEC"} THEN "DEC" ELSE op
    BY <1>9, <2>1 DEF PostOp, Shifts
  <2>3. PostOp(s) # "" /\ PostOp(s) \notin Arithmetic \cup {"SBC"}
    BY <1>9, <2>2 DEF Arithmetic, Shifts
  <2>4. Wrappers(l) \o Infix = shown \o rest BY <1>4, <1>5, <2>1, <2>3 DEF Wrappers
  <2>5. i.op = PostOp(s) /\ OperandOf(i) = 0 BY DEF Implied, OperandOf
  <2> HIDE DEF i, rest, shown
  <2>6. t = Text(form, l, Folded(l.chain) \o rest) BY <2>4 DEF rest, shown
  <2>7. Meant(t) = Alu(i.op, Subject(s), OperandOf(i), i.op = "SBC") BY <2>6, MeantThen DEF rest
  <2> DEFINE c == (i.op = "SBC")
  <2>8. Meant(t) = Alu(PostOp(s), Subject(s), 0, c) BY <2>5, <2>7
  <2>9. Shown(s, m) = Alu(op, Subject(s), 0, m.c)
    <3>1. CASE op \in {"INX", "DEX"} BY <3>1 DEF Subject, WalkReg, Shown, Arithmetic, Shifts
    <3>2. CASE op \in {"INC", "DEC"} BY <2>1, <3>2 DEF Subject, WalkReg, Shown, Arithmetic, Shifts
    <3>3. CASE op \in Shifts BY <2>1, <3>3 DEF Subject, WalkReg, Shown, Arithmetic, Shifts
    <3> QED BY <1>9, <3>1, <3>2, <3>3
  <2> HIDE DEF c
  <2>10. Outcome(PostOp(s), Subject(s), 0, c) = Outcome(op, Subject(s), 0, m.c)
    <3>1. CASE op \in {"INX", "INC"}
      <4>1. PostOp(s) = "INC" BY <2>2, <3>1
      <4>2. Subject(s) \in Nat BY SubjectWord, WordIs
      <4>3. Outcome("INC", Subject(s), 0, c) = Subject(s) + 1 BY <4>2 DEF Outcome, Up, Down
      <4>4. Outcome(op, Subject(s), 0, m.c) = Subject(s) + 1 BY <3>1, <4>2 DEF Outcome, Up, Down
      <4> QED BY <4>1, <4>3, <4>4
    <3>2. CASE op \in {"DEX", "DEC"} BY <2>2, <3>2 DEF Outcome, Up, Down
    <3>3. CASE op \in Shifts BY <2>2, <3>3 DEF Outcome, Up, Down, Shifts
    <3> QED BY <1>9, <3>1, <3>2, <3>3
  <2>11. op \in Shifts => CarryOut(PostOp(s), Subject(s), 0, c) = CarryOut(op, Subject(s), 0, m.c)
    BY <2>2 DEF CarryOut, Shifts
  <2>12. Op(Branch) \in Carried => op \in Shifts
    BY <1>6, <1>9 DEF Arithmetic
  <2> QED BY <2>8, <2>9, <2>10, <2>11, <2>12, AluIs
<1>10. CASE op \in Arithmetic
  <2> DEFINE i == [prog[s] EXCEPT !.mode = IF @ = "imm" THEN "imm" ELSE "abs"]
             rest == <<i>>
  <2>1. PostOp(s) = "" /\ Infix = rest /\ WalkReg(s) = "A" /\ Mode(s) \in {"imm", "abs"}
    BY <1>7, <1>10 DEF PostOp, Infix, WalkReg, Arithmetic, Shifts, Modes
  <2>2. Wrappers(l) \o Infix = shown \o rest BY <1>4, <1>5, <2>1 DEF Wrappers
  <2>3. i.op = op /\ OperandOf(i) = Value(s, m)
    <3>1. DOMAIN prog[s] = {"op", "mode", "arg"} BY <1>1, OpIs
    <3> QED BY <2>1, <3>1 DEF Op, Mode, Arg, OperandOf, Value
  <2> HIDE DEF i, rest, shown
  <2>4. t = Text(form, l, Folded(l.chain) \o rest) BY <2>2 DEF rest, shown
  <2>5. Meant(t) = Alu(i.op, Subject(s), OperandOf(i), i.op = "SBC") BY <2>4, MeantThen DEF rest
  <2> DEFINE c == (op = "SBC")
  <2>6. Meant(t) = Alu(op, m.regs["A"], Value(s, m), c) BY <2>1, <2>3, <2>5 DEF Subject
  <2>7. Shown(s, m) = Alu(op, m.regs["A"], Value(s, m), m.c) BY <1>10 DEF Shown, Arithmetic, Shifts
  <2>8. op \in {"ADC", "SBC"} => m.c = c OBVIOUS
  <2> HIDE DEF c
  <2>9. CASE op \in {"ADC", "SBC"} BY <2>6, <2>7, <2>8, <2>9
  <2>10. CASE op \notin {"ADC", "SBC"}
    <3>1. Op(Branch) \notin Carried BY <1>2, <1>10, <2>10 DEF CarrySetters, Arithmetic, Shifts
    <3> QED BY <2>6, <2>7, <2>10, <3>1, AluSame
  <2> QED BY <2>9, <2>10
<1>11. op \in {"LDA", "LDX", "TAX", "TXA", "INX", "DEX", "INC", "DEC"} \cup Shifts \cup Arithmetic
  <2>1. Shows(s) BY SetterKinds
  <2> QED BY <1>1, <2>1, OpKinds DEF Shows
<1> QED BY <1>8, <1>9, <1>10, <1>11

\* A comparison shows the difference, and whether there was no borrow.
LEMMA Compared ==
  ASSUME NEW v \in Word, NEW w \in Word
  PROVE  /\ Alu("SBC", v, w, TRUE).val = (v - w) % Size
         /\ Alu("SBC", v, w, TRUE).carry <=> v >= w
         /\ Alu("SBC", v, w, TRUE).val = 0 <=> v = w
<1> DEFINE yes == TRUE
           r == Alu("SBC", v, w, yes)
<1>1. /\ v \in Nat /\ w \in Nat /\ v < Size /\ w < Size /\ Size \in Nat \ {0} /\ v - w \in Int
  BY WordIs
<1>2. Bit(~yes) = 0 BY DEF Bit
<1> HIDE DEF yes
<1>3. r.val = Outcome("SBC", v, w, yes) % Size /\ r.carry = CarryOut("SBC", v, w, yes) BY AluIs
<1> HIDE DEF r
<1>4. Outcome("SBC", v, w, yes) = v - w - Bit(~yes) BY DEF Outcome, Up, Down
<1>5. CarryOut("SBC", v, w, yes) <=> v - w - Bit(~yes) >= 0 BY DEF CarryOut
<1>6. v - w - Bit(~yes) = v - w BY <1>1, <1>2
<1>7. r.val = (v - w) % Size BY <1>3, <1>4, <1>6
<1>8. r.carry <=> v >= w BY <1>1, <1>3, <1>5, <1>6
<1>9. v - w \in 1 - Size..Size - 1 BY <1>1
<1>10. (v - w) % Size = 0 <=> v - w = 0 BY <1>1, <1>9, WrapIs
<1>11. v - w = 0 <=> v = w BY <1>1
<1> QED BY <1>7, <1>8, <1>10, <1>11 DEF r, yes

LEMMA TopIs == Top \in Nat
<1>1. Size \in Nat BY WordIs
<1> QED BY <1>1 DEF Top

\* The phrases for a result.
LEMMA ZeroTrue ==
  ASSUME prog \in Programs, Runs, AtBranch, Setter # 0,
         Op(Setter) \notin {"JSR", "SEC", "CLC", "CMP", "CPX", "BIT"},
         Op(Branch) \notin {"BVC", "BVS"}, NEW r,
         r.val = Shown(Setter, trace[Setter]).val,
         Op(Branch) \in Carried => r.carry = Shown(Setter, trace[Setter]).carry
  PROVE  OfZero(r) <=> Taken(trace[Setter + 1])
<1> DEFINE s == Setter
           m == trace[s]
           new == trace[s + 1]
           b == Op(Branch)
<1>1. s \in 1..Branch - 1 BY SetterLast
<1>2. Shows(s) BY SetterKinds
<1>3. Typed(m) /\ new = After(s, m) BY <1>1, MachineIs
<1>4. r.val \in Word BY <1>1, <1>2, <1>3, ShownWord
<1>5. (new.z <=> r.val = 0) /\ (new.n <=> r.val >= Top) /\ (b \in Carried => new.c = r.carry)
  BY <1>1, <1>2, <1>3, AfterShows
<1>6. r.val \in Nat /\ Top \in Nat BY <1>4, TopIs, WordIs
<1>7. r.val < Top <=> ~(r.val >= Top) BY <1>6
<1>8. b \in {"BEQ", "BNE", "BMI", "BPL"} \cup Carried BY PieceIs DEF Carried
<1> HIDE DEF new, m
<1>9. CASE b \in {"BEQ", "BNE", "BMI", "BPL"} BY <1>5, <1>7, <1>9 DEF OfZero, Taken, new
<1>10. CASE b \in Carried
  <2>1. CASE b = "BCS" BY <1>5, <1>10, <2>1 DEF OfZero, Taken, new
  <2>2. CASE b = "BCC" BY <1>5, <1>10, <2>2 DEF OfZero, Taken, new
  <2> QED BY <1>10, <2>1, <2>2 DEF Carried
<1> QED BY <1>8, <1>9, <1>10

\* The phrases for a comparison.
LEMMA CompareTrue ==
  ASSUME prog \in Programs, Runs, AtBranch, Setter # 0, Op(Setter) \in {"CMP", "CPX"},
         NEW v \in Word, v = Subject(Setter)
  PROVE  OfCompare(v, Value(Setter, trace[Setter])) <=> Taken(trace[Setter + 1])
<1> DEFINE s == Setter
           m == trace[s]
           new == trace[s + 1]
           b == Op(Branch)
           w == Value(s, m)
           r == Alu("SBC", v, w, TRUE)
<1>1. s \in 1..Branch - 1 /\ Op(s) \in Setters(b) BY SetterLast
<1>2. Shows(s) BY SetterKinds
<1>3. Typed(m) /\ new = After(s, m) BY <1>1, MachineIs
<1>4. w \in Word BY <1>1, <1>3, ValueWord
<1>5. Shown(s, m) = r
  <2>1. CASE Op(s) = "CMP" BY <2>1 DEF Shown, Subject, WalkReg, Arithmetic, Shifts
  <2>2. CASE Op(s) = "CPX" BY <2>2 DEF Shown, Subject, WalkReg, Arithmetic, Shifts
  <2> QED BY <2>1, <2>2
<1>6. (new.z <=> Shown(s, m).val = 0) /\ (new.n <=> Shown(s, m).val >= Top) /\ new.c = Shown(s, m).carry
  BY <1>1, <1>2, <1>3, AfterShows
<1>7. r.val = (v - w) % Size /\ (r.carry <=> v >= w) /\ (r.val = 0 <=> v = w) BY <1>4, Compared
<1>8. (new.z <=> v = w) /\ (new.n <=> (v - w) % Size >= Top) /\ (new.c <=> v >= w)
  BY <1>5, <1>6, <1>7
<1>9. /\ (v - w) % Size < Top <=> ~((v - w) % Size >= Top)
      /\ v < w <=> ~(v >= w)
  <2>1. v \in Nat /\ w \in Nat BY <1>4, WordIs
  <2>2. v - w \in Int BY <2>1
  <2>3. (v - w) % Size \in Word BY <2>2, WrapWord
  <2>4. (v - w) % Size \in Nat /\ Top \in Nat BY <2>3, TopIs, WordIs
  <2> HIDE DEF w
  <2> QED BY <2>1, <2>4
<1>10. b \in {"BEQ", "BNE", "BMI", "BPL", "BCS", "BCC"}
  <2>1. b \notin {"BVC", "BVS"} BY <1>1 DEF Setters
  <2> QED BY <2>1, PieceIs
<1> HIDE DEF new, w, r
<1> QED BY <1>8, <1>9, <1>10 DEF OfCompare, Taken, new, w

\* The phrases for BIT.
LEMMA BitTrue ==
  ASSUME prog \in Programs, Runs, AtBranch, Setter # 0, Op(Setter) = "BIT", NEW w,
         w = Value(Setter, trace[Setter])
  PROVE  OfBit(trace[Setter].regs["A"], w) <=> Taken(trace[Setter + 1])
<1> DEFINE s == Setter
           m == trace[s]
           new == trace[s + 1]
           b == Op(Branch)
<1>1. s \in 1..Branch - 1 /\ Op(s) \in Setters(b) BY SetterLast
<1>2. ~Shows(s) BY DEF Shows
<1>3. Typed(m) /\ new = After(s, m) BY <1>1, MachineIs
<1>4. /\ (new.z <=> BitAnd(m.regs["A"], w) = 0) /\ (new.n <=> w >= Top)
      /\ (new.v <=> w % Top >= Top \div 2)
  BY <1>1, <1>2, <1>3, AfterOthers
<1>5. /\ w < Top <=> ~(w >= Top)
      /\ w % Top < Top \div 2 <=> ~(w % Top >= Top \div 2)
  <2>1. w \in Word BY <1>1, <1>3, ValueWord
  <2>2. w \in Nat /\ Size \in Nat \ {0} /\ Size % 4 = 0 BY <2>1, WordIs, WordAssumption
  <2>3. Top \in Nat \ {0}
    <3>1. Size >= 4 BY <2>2
    <3> QED BY <2>2, <3>1 DEF Top
  <2>4. w % Top \in Nat /\ Top \div 2 \in Nat BY <2>2, <2>3
  <2> QED BY <2>2, <2>3, <2>4
<1>6. b \in {"BEQ", "BNE", "BMI", "BPL", "BVS", "BVC"}
  <2>1. b \notin {"BCC", "BCS"} BY <1>1 DEF Setters, CarrySetters, Shifts
  <2> QED BY <2>1, PieceIs
<1> HIDE DEF new, m
<1> QED BY <1>4, <1>5, <1>6 DEF OfBit, Taken, new, m

\* The phrases for a carry, a borrow and the bits of two values.
LEMMA EventTrue ==
  ASSUME prog \in Programs, Runs, AtBranch, Setter # 0, Semantic, Mode(Setter) # "abx"
  PROVE  OfEvent(trace[Setter]) <=> Taken(trace[Setter + 1])
<1> DEFINE s == Setter
           m == trace[s]
           new == trace[s + 1]
           b == Op(Branch)
           op == Op(s)
           a == m.regs["A"]
           w == m.mem[Arg(s)]
           r == Alu(op, a, w, m.c)
<1>1. s \in 1..Branch - 1 BY SetterLast
<1>2. op \in Arithmetic BY DEF Semantic, Arithmetic
<1>3. Shows(s) /\ op # "JSR" BY <1>2 DEF Shows, Arithmetic
<1>4. Typed(m) /\ new = After(s, m) BY <1>1, <1>3, MachineIs
<1>5. Mode(s) = "abs"
  <2>1. Mode(s) \in Modes(op) BY <1>1, OpIs
  <2> QED BY <1>2, <2>1 DEF Semantic, Modes, Arithmetic
<1>6. Value(s, m) = w BY <1>5 DEF Value
<1>7. a \in Word /\ w \in Word
  <2>1. "A" \in Reg BY DEF Reg
  <2> QED BY <1>1, <1>4, <1>6, <2>1, ValueWord DEF Typed
<1>8. Shown(s, m) = r BY <1>2, <1>6 DEF Shown, Arithmetic, Shifts
<1>9. (new.z <=> r.val = 0) /\ new.c = r.carry BY <1>1, <1>3, <1>4, <1>8, AfterShows
<1>10. r.val = Outcome(op, a, w, m.c) % Size /\ r.carry = CarryOut(op, a, w, m.c) BY AluIs
<1>11. a \in Nat /\ w \in Nat BY <1>7, WordIs
<1> HIDE DEF r
<1>12. CASE op = "ADC" /\ b \in Carried
  <2>1. CarryOut(op, a, w, m.c) <=> a + w + Bit(m.c) >= Size BY <1>12 DEF CarryOut
  <2>2. new.c <=> a + w + Bit(m.c) >= Size BY <1>9, <1>10, <2>1
  <2> DEFINE over == a + w + Bit(m.c) >= Size
  <2>3. OfEvent(m) <=> (over = (b = "BCS")) BY <1>12 DEF OfEvent
  <2>4. over \in BOOLEAN OBVIOUS
  <2> HIDE DEF over, new
  <2>5. new.c <=> over BY <2>2 DEF over
  <2>6. CASE b = "BCS" BY <2>3, <2>4, <2>5, <2>6 DEF Taken, new
  <2>7. CASE b = "BCC" BY <2>3, <2>4, <2>5, <2>7 DEF Taken, new
  <2> QED BY <1>12, <2>6, <2>7 DEF Carried
<1>13. CASE op = "SBC" /\ b \in Carried
  <2>1. CarryOut(op, a, w, m.c) <=> a - w - Bit(~m.c) >= 0 BY <1>13 DEF CarryOut
  <2>2. new.c <=> a - w - Bit(~m.c) >= 0 BY <1>9, <1>10, <2>1
  <2> DEFINE under == a - w - Bit(~m.c) < 0
  <2>3. OfEvent(m) <=> (under = (b = "BCC")) BY <1>13 DEF OfEvent
  <2>4. under \in BOOLEAN OBVIOUS
  <2>5. under <=> ~(a - w - Bit(~m.c) >= 0)
    <3>1. Bit(~m.c) \in {0, 1} BY DEF Bit
    <3> HIDE DEF a, w
    <3> QED BY <1>11, <3>1
  <2> HIDE DEF under, new
  <2>6. new.c <=> ~under BY <2>2, <2>5
  <2>7. CASE b = "BCS" BY <2>3, <2>4, <2>6, <2>7 DEF Taken, new
  <2>8. CASE b = "BCC" BY <2>3, <2>4, <2>6, <2>8 DEF Taken, new
  <2> QED BY <1>13, <2>7, <2>8 DEF Carried
<1>14. CASE op = "AND" /\ b \in {"BEQ", "BNE"}
  <2>1. BitAnd(a, w) \in Word BY <1>7, BitsAssumption
  <2>2. Outcome(op, a, w, m.c) = BitAnd(a, w) BY <1>14 DEF Outcome, Up, Down
  <2>3. r.val = BitAnd(a, w) BY <1>10, <2>1, <2>2, WordIs, WrapWord
  <2> DEFINE none == (BitAnd(a, w) = 0)
  <2>4. OfEvent(m) <=> (none = (b = "BEQ")) BY <1>14 DEF OfEvent
  <2>5. none \in BOOLEAN /\ (new.z <=> none) BY <1>9, <2>3
  <2> HIDE DEF none, new
  <2>6. CASE b = "BEQ" BY <2>4, <2>5, <2>6 DEF Taken, new
  <2>7. CASE b = "BNE" BY <2>4, <2>5, <2>7 DEF Taken, new
  <2> QED BY <1>14, <2>6, <2>7
<1>15. CASE op = "EOR" /\ b \in {"BEQ", "BNE"}
  <2>1. BitXor(a, w) \in Word /\ (BitXor(a, w) = 0 <=> a = w) BY <1>7, BitsAssumption
  <2>2. Outcome(op, a, w, m.c) = BitXor(a, w) BY <1>15 DEF Outcome, Up, Down
  <2>3. r.val = BitXor(a, w) BY <1>10, <2>1, <2>2, WordIs, WrapWord
  <2> DEFINE same == (a = w)
  <2>4. OfEvent(m) <=> (same = (b = "BEQ")) BY <1>15 DEF OfEvent
  <2>5. same \in BOOLEAN /\ (new.z <=> same) BY <1>9, <2>1, <2>3
  <2> HIDE DEF same, new
  <2>6. CASE b = "BEQ" BY <2>4, <2>5, <2>6 DEF Taken, new
  <2>7. CASE b = "BNE" BY <2>4, <2>5, <2>7 DEF Taken, new
  <2> QED BY <1>15, <2>6, <2>7
<1> QED BY <1>12, <1>13, <1>14, <1>15 DEF Semantic, Carried

\* What is written beside the branch, for the setter of its flags.
LEMMA ConditionHolds ==
  ASSUME prog \in Programs, inputs \in Inputs, Runs, AtBranch, fact = FactLhs, Setter # 0,
         Op(Setter) \notin {"JSR", "SEC", "CLC"}, ~Misread, text = Condition, text.form # "none"
  PROVE  Holds(text) <=> Taken(trace[Setter + 1])
<1> DEFINE s == Setter
           m == trace[s]
           l == Pivoted(fact)
<1>1. Facing(fact) BY FactFaces
<1>2. Sourced(l) BY <1>1, PivotedSourced
<1>3. text = Rendered(l)
  <2>1. fact.kind # "unknown" /\ fact.kind # "jsr_flag" BY <1>1 DEF Facing
  <2> QED BY <2>1 DEF Condition
<1>4. s \in 1..Branch - 1 /\ (Shows(s) \/ Op(s) = "BIT") BY SetterLast, SetterKinds
<1>5. /\ Op(s) \in Arithmetic => Mode(s) # "abx"
      /\ Op(s) \in {"ADC", "SBC"} => m.c = (Op(s) = "SBC")
      /\ ~(Op(s) \in Shifts /\ Mode(s) = "abs")
  BY DEF Misread
<1> HIDE DEF l
<1>6. Folded(l.chain) \in Seq(ChainOps) /\ l.post = PostOp(s)
  <2>1. \A x \in ChainOps : ChainOp(x) BY DEF ChainOps
  <2> QED BY <1>2, <2>1, FoldedYields DEF Sourced
\* Without an operation of the setter the wrappers are the chain.
<1>7. PostOp(s) = "" => Wrappers(l) = Folded(l.chain) \o <<>> BY <1>6 DEF Wrappers
<1>8. l.chain = <<>> /\ PostOp(s) = "" => Wrappers(l) = <<>>
  <2>1. <<>> \o <<>> = <<>> OBVIOUS
  <2> QED BY <1>7, <2>1, NothingFolds
<1>9. CASE Op(s) = "BIT"
  <2>1. PostOp(s) = "" /\ WalkReg(s) = "" BY <1>9 DEF PostOp, WalkReg, Shifts, Arithmetic
  <2>2. Wrappers(l) = <<>> BY <1>2, <1>8, <2>1 DEF Sourced
  <2>3. ~Steps(l) BY <2>2 DEF Steps
  <2>4. text = Text("bit", l, Wrappers(l))
    <3>1. RhsKind \notin {"imm", "var"} BY <1>9 DEF RhsKind
    <3>2. ~Semantic BY <1>9 DEF Semantic
    <3> QED BY <1>3, <1>9, <2>3, <3>1, <3>2 DEF Rendered
  <2>5. text.form = "bit" BY <2>4 DEF Text
  <2>6. Meant(text).val = Subject(s) BY <1>2, <1>7, <2>1, <2>4, MeantAlone
  <2>7. Subject(s) = Value(s, m) BY <2>1 DEF Subject
  <2>8. OfBit(m.regs["A"], Meant(text).val) <=> Taken(trace[s + 1]) BY <1>9, <2>6, <2>7, BitTrue
  <2> QED BY <2>5, <2>8 DEF Holds
<1>10. CASE Op(s) \in {"CMP", "CPX"}
  <2>1. PostOp(s) = "" /\ RhsKind \in {"imm", "var"}
    BY <1>10 DEF PostOp, RhsKind, Shifts
  <2>2. ~Steps(l) BY <2>1 DEF Steps
  <2>3. text = Text("compare", l, Wrappers(l))
    <3>1. ~Semantic BY <1>10 DEF Semantic
    <3> QED BY <1>3, <1>10, <2>1, <2>2, <3>1 DEF Rendered
  <2>4. text.form = "compare" BY <2>3 DEF Text
  <2>5. Meant(text).val = Subject(s) BY <1>2, <1>7, <2>1, <2>3, MeantAlone
  <2>6. Subject(s) \in Word BY <1>2, SubjectWord
  <2>7. OfCompare(Meant(text).val, Value(s, m)) <=> Taken(trace[s + 1])
    BY <1>10, <2>5, <2>6, CompareTrue
  <2> QED BY <2>4, <2>7 DEF Holds
<1>11. CASE Op(s) \notin {"BIT", "CMP", "CPX"} /\ text = Text("zero", l, Wrappers(l) \o Infix)
  <2>1. text.form = "zero" BY <1>11 DEF Text
  <2>2. /\ Meant(text).val = Shown(s, m).val
        /\ Op(Branch) \in Carried => Meant(text).carry = Shown(s, m).carry
    BY <1>2, <1>5, <1>11, ResultMeant
  <2>3. CASE Op(Branch) \notin {"BVC", "BVS"}
    <3>1. OfZero(Meant(text)) <=> Taken(trace[s + 1]) BY <1>11, <2>2, <2>3, ZeroTrue
    <3> QED BY <2>1, <3>1 DEF Holds
  <2>4. CASE Op(Branch) \in {"BVC", "BVS"}
    <3>1. ~Steps(l) BY <2>4 DEF Steps
    <3>2. RhsKind \notin {"imm", "var"} BY <1>11 DEF RhsKind
    <3>3. ~Semantic BY <2>4 DEF Semantic
    <3>4. text = Silent BY <1>3, <1>11, <2>4, <3>1, <3>2, <3>3 DEF Rendered
    <3>5. Silent.form = "none" BY DEF Silent, Text
    <3> QED BY <3>4, <3>5
  <2> QED BY <2>3, <2>4
<1>12. CASE Op(s) \notin {"BIT", "CMP", "CPX"} /\ Steps(l)
  <2>1. text = Text("zero", l, Wrappers(l)) BY <1>3, <1>12 DEF Rendered
  <2>2. Op(s) \notin Arithmetic
    <3> SUFFICES ASSUME Op(s) \in Arithmetic PROVE FALSE OBVIOUS
    <3>1. PostOp(s) = "" /\ WalkReg(s) = "A" BY DEF PostOp, WalkReg, Arithmetic, Shifts
    <3>2. Headed(l, "A") BY <1>2, <3>1 DEF Sourced
    <3>3. Wrappers(l) # <<>> BY <1>12 DEF Steps
    <3>4. l.chain # <<>> BY <1>8, <3>1, <3>3
    <3>5. l.chain[1].op \notin {"INX", "DEX"} BY <3>2, <3>4 DEF Headed
    <3>6. Folded(l.chain) # <<>> /\ Folded(l.chain)[1] = l.chain[1]
      <4>1. \A x \in ChainOps : ChainOp(x) BY DEF ChainOps
      <4> QED BY <1>2, <3>4, <3>5, <4>1, FoldedYields DEF Sourced
    <3>7. Wrappers(l) = Folded(l.chain)
      <4>1. \A S : \A u \in Seq(S) : u \o <<>> = u OBVIOUS
      <4> QED BY <1>6, <1>7, <3>1, <4>1
    <3>8. 1 \in DOMAIN Wrappers(l)
      <4>1. \A S : \A u \in Seq(S) : u # <<>> => 1 \in DOMAIN u OBVIOUS
      <4> QED BY <1>6, <3>6, <3>7, <4>1
    <3>9. Wrappers(l)[1].op \in Up \cup Down BY <1>12, <3>8 DEF Steps
    <3>10. ChainOp(l.chain[1])
      <4>1. \A S : \A u \in Seq(S) : u # <<>> => u[1] \in S OBVIOUS
      <4>2. l.chain[1] \in ChainOps BY <1>2, <3>4, <4>1 DEF Sourced
      <4> QED BY <4>2 DEF ChainOps
    <3> QED BY <3>5, <3>6, <3>7, <3>9, <3>10 DEF ChainOp, Up, Down, Shifts
  <2>3. Infix = <<>> BY <2>2 DEF Infix
  <2>4. Wrappers(l) \o Infix = Wrappers(l)
    <3>1. \A S : \A u \in Seq(S) : u \o <<>> = u OBVIOUS
    <3>2. \E S : Wrappers(l) \in Seq(S)
      <4>1. CASE l.post = ""
        <5>1. Wrappers(l) = Folded(l.chain) BY <1>6, <1>7, <3>1, <4>1
        <5> QED BY <1>6, <5>1
      <4>2. CASE l.post # ""
        <5> DEFINE x == Implied(l.post)
        <5>1. Wrappers(l) = Folded(l.chain) \o <<x>> BY <4>2 DEF Wrappers
        <5> HIDE DEF x
        <5>2. \A S : \A u \in Seq(S) : u \o <<x>> = Append(u, x) OBVIOUS
        <5>3. Append(Folded(l.chain), x) \in Seq(ChainOps \cup {x}) BY <1>6, Lengthened
        <5> QED BY <1>6, <5>1, <5>2, <5>3
      <4> QED BY <4>1, <4>2
    <3> QED BY <2>3, <3>1, <3>2
  <2> QED BY <1>11, <1>12, <2>1, <2>4
<1>13. CASE Op(s) \notin {"BIT", "CMP", "CPX"} /\ ~Steps(l)
  <2>1. RhsKind \notin {"imm", "var"} BY <1>13 DEF RhsKind
  <2>2. CASE Semantic
    <3>1. text = Text("event", l, <<>>) BY <1>3, <1>13, <2>1, <2>2 DEF Rendered
    <3>2. text.form = "event" BY <3>1 DEF Text
    <3>3. Op(s) \in Arithmetic BY <2>2 DEF Semantic, Arithmetic
    <3>4. OfEvent(m) <=> Taken(trace[s + 1]) BY <1>5, <2>2, <3>3, EventTrue
    <3> QED BY <3>2, <3>4 DEF Holds
  <2>3. CASE ~Semantic
    <3>1. text = IF Op(Branch) \in {"BVC", "BVS"} THEN Silent ELSE Text("zero", l, Wrappers(l) \o Infix)
      BY <1>3, <1>13, <2>1, <2>3 DEF Rendered
    <3>2. Silent.form = "none" BY DEF Silent, Text
    <3>3. text = Text("zero", l, Wrappers(l) \o Infix) BY <3>1, <3>2
    <3> QED BY <1>11, <1>13, <3>3
  <2> QED BY <2>2, <2>3
<1> QED BY <1>9, <1>10, <1>12, <1>13

\* render_condition_from_fact: what the comment beside a branch says is true
\* exactly when the branch is taken, unless its fact is one of Misread's.
THEOREM ConditionsAreTrue == TextSpec => []ConditionTrue
<1>1. TextInv /\ RunInv => ConditionTrue
  <2> SUFFICES ASSUME TextInv, RunInv, AtBranch, text.form # "none", ~Misread
               PROVE  Holds(text) <=> Taken(trace[Branch])
    BY DEF ConditionTrue
  <2>1. prog \in Programs /\ Branch \in Nat /\ Branch > 0 BY PieceIs DEF TextInv
  <2>2. Runs /\ inputs \in Inputs /\ fact = FactLhs BY DEF RunInv, Composed
  <2>3. text = Condition
    <3>1. trace # <<>>
      <4>1. Len(<<>>) = 0 OBVIOUS
      <4> QED BY <2>1, <4>1 DEF AtBranch
    <3> QED BY <3>1 DEF RunInv, Composed
  <2>4. Silent.form = "none" BY DEF Silent, Text
  <2>5. fact.kind # "unknown" BY <2>3, <2>4 DEF Condition
  <2>6. Setter # 0
    <3> SUFFICES ASSUME Setter = 0 PROVE FALSE OBVIOUS
    <3>1. fact = Lhs("unknown", "", FALSE, 1) BY <2>2 DEF FactLhs
    <3> QED BY <2>5, <3>1 DEF Lhs
  <2>7. CASE Op(Setter) = "JSR"
    <3>1. fact = Lhs("jsr_flag", "", FALSE, Branch)
      <4>1. Setter \in 1..Branch - 1 BY <2>1, <2>6, SetterLast
      <4>2. Mode(Setter) = "imp" BY <2>1, <2>7, <4>1, OpIs DEF Modes
      <4>3. WalkReg(Setter) = "" BY <2>7 DEF WalkReg, Arithmetic, Shifts
      <4> QED BY <2>2, <2>6, <2>7, <4>2, <4>3 DEF FactLhs
    <3>2. fact.kind = "jsr_flag" BY <3>1 DEF Lhs
    <3>3. text = Text("flag", fact, <<>>) BY <2>3, <3>2 DEF Condition
    <3>4. text.form = "flag" BY <3>3 DEF Text
    <3> QED BY <3>4 DEF Holds
  <2>8. CASE Op(Setter) \in {"SEC", "CLC"}
    <3>1. Setter \in 1..Branch - 1 BY <2>1, <2>6, SetterLast
    <3>2. Mode(Setter) = "imp" BY <2>1, <2>8, <3>1, OpIs DEF Modes
    <3>3. WalkReg(Setter) = "" BY <2>8 DEF WalkReg, Arithmetic, Shifts
    <3>4. fact = Lhs("unknown", "", FALSE, 1) BY <2>2, <2>6, <2>8, <3>2, <3>3 DEF FactLhs
    <3> QED BY <2>5, <3>4 DEF Lhs
  <2>9. CASE Op(Setter) \notin {"JSR", "SEC", "CLC"}
    <3>1. Holds(text) <=> Taken(trace[Setter + 1]) BY <2>1, <2>2, <2>3, <2>6, <2>9, ConditionHolds
    <3>2. Taken(trace[Branch]) <=> Taken(trace[Setter + 1]) BY <2>1, <2>2, <2>6, FlagsLast
    <3> QED BY <3>1, <3>2
  <2> QED BY <2>7, <2>8, <2>9
<1> QED BY <1>1, TextInductive, RunInductive, PTL
================================================================================
