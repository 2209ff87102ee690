---------------------------- MODULE CmpExec_proofs ----------------------------
(***************************************************************************)
(* What cmp_facts says about a branch is true of every execution that      *)
(* reaches it, for every program and every bound.                          *)
(***************************************************************************)
EXTENDS CmpExec, FiniteSetTheorems, TLAPS

(***************************************************************************)
(* Predecessors.                                                           *)
(***************************************************************************)

LEMMA Addresses ==
  ASSUME prog \in Programs
  PROVE  /\ Len(prog) \in Nat /\ DOMAIN prog = 1 .. Len(prog) /\ IsFiniteSet(DOMAIN prog)
         /\ 0 \notin DOMAIN prog /\ Ended \notin DOMAIN prog
         /\ \A pc \in DOMAIN prog : pc \in Nat /\ pc >= 1
<1>1. Len(prog) \in Nat /\ DOMAIN prog = 1 .. Len(prog) BY ProgramsAssumption
<1>2. IsFiniteSet(1 .. Len(prog)) BY <1>1, FS_Interval
<1> QED BY <1>1, <1>2 DEF Ended

\* A list of a finite set, each element once, holds the whole set.
LEMMA AnyOrder ==
  ASSUME NEW S, IsFiniteSet(S), NEW f \in SetToSeqs(S)
  PROVE  f \in Seq(S) /\ Range(f) = S
<1> DEFINE n == Cardinality(S)
<1>1. n \in Nat  BY FS_CardinalityType
<1>2. f \in [1..n -> S] /\ \A i, j \in 1..n : i # j => f[i] # f[j]  BY DEF SetToSeqs
<1>3. Range(f) \in SUBSET S  BY <1>2 DEF Range
<1>4. f \in Bijection(1..n, Range(f))
  BY <1>2 DEF Bijection, Injection, Surjection, IsInjective, Range
<1>5. IsFiniteSet(1..n) /\ Cardinality(1..n) = n
  BY <1>1, FS_Interval
<1>6. Cardinality(Range(f)) = n  BY <1>4, <1>5, FS_Bijection DEF ExistsBijection
<1>7. Range(f) = S  BY <1>3, <1>6, FS_Subset
<1>8. f \in Seq(S)  BY <1>1, <1>2
<1> QED  BY <1>7, <1>8

\* Whatever order code_in has, the list of predecessors holds just them.
LEMMA ListedAll ==
  ASSUME prog \in Programs, NEW pc \in DOMAIN prog,
         NEW jumps \in SUBSET (DOMAIN prog), NEW preds \in Listed(pc, jumps)
  PROVE  /\ preds \in Seq(DOMAIN prog) /\ Range(preds) = jumps \cup ({FallIn(pc)} \ {0})
<1>1. PICK order \in SetToSeqs(jumps) :
        preds = (IF FallIn(pc) = 0 THEN <<>> ELSE <<FallIn(pc)>>) \o order
  BY DEF Listed
<1>2. jumps \subseteq DOMAIN prog OBVIOUS
<1>3. IsFiniteSet(jumps) BY <1>2, Addresses, FS_Subset
<1>4. order \in Seq(jumps) /\ Range(order) = jumps BY <1>3, AnyOrder
<1>5. order \in Seq(DOMAIN prog) BY <1>2, <1>4
<1>6. FallIn(pc) = 0 \/ FallIn(pc) \in DOMAIN prog BY Addresses DEF FallIn
<1>7. CASE FallIn(pc) = 0
  <2>1. preds = order BY <1>1, <1>5, <1>7
  <2> QED BY <1>4, <1>5, <1>7, <2>1
<1>8. CASE FallIn(pc) # 0
  <2> DEFINE q == FallIn(pc)
  <2>1. q \in DOMAIN prog /\ q # 0 BY <1>6, <1>8
  <2>2. preds = <<q>> \o order BY <1>1, <1>8
  <2> HIDE DEF q
  <2>3. /\ preds \in Seq(DOMAIN prog) /\ Len(preds) = Len(order) + 1 /\ preds[1] = q
        /\ Len(order) \in Nat /\ \A i \in 1 .. Len(order) : preds[i + 1] = order[i]
    BY <1>5, <2>1, <2>2
  <2>4. Range(preds) = {q} \cup Range(order)
    <3>1. \A x \in Range(preds) : x \in {q} \cup Range(order)
      <4> SUFFICES ASSUME NEW i \in 1 .. Len(preds) PROVE preds[i] \in {q} \cup Range(order)
        BY <2>3 DEF Range
      <4>1. CASE i = 1 BY <2>3, <4>1
      <4>2. CASE i # 1
        <5>1. i - 1 \in 1 .. Len(order) /\ preds[i] = order[i - 1] BY <2>3, <4>2
        <5> QED BY <1>5, <5>1 DEF Range
      <4> QED BY <4>1, <4>2
    <3>2. q \in Range(preds) BY <2>3 DEF Range
    <3>3. Range(order) \subseteq Range(preds)
      <4>1. \A i \in 1 .. Len(order) : i + 1 \in 1 .. Len(preds) BY <2>3
      <4>2. DOMAIN order = 1 .. Len(order) /\ DOMAIN preds = 1 .. Len(preds) BY <1>5, <2>3
      <4> QED BY <2>3, <4>1, <4>2 DEF Range
    <3> QED BY <3>1, <3>2, <3>3
  <2> QED BY <1>4, <2>1, <2>3, <2>4 DEF q
<1> QED BY <1>7, <1>8

LEMMA PredsAll ==
  ASSUME prog \in Programs, NEW pc \in DOMAIN prog
  PROVE  /\ \A preds \in Preds(pc) : preds \in Seq(DOMAIN prog) /\ Range(preds) = PredSet(pc)
         /\ \A preds \in OtherPreds(pc) :
              preds \in Seq(DOMAIN prog) /\ PredSet(pc) \ {pc} \subseteq Range(preds)
<1>1. JumpsTo(pc) \in SUBSET (DOMAIN prog) /\ JumpsTo(pc) \ {pc} \in SUBSET (DOMAIN prog) BY DEF JumpsTo
<1> QED BY <1>1, ListedAll DEF Preds, OtherPreds, PredSet

LEMMA PredsInside ==
  ASSUME prog \in Programs, NEW pc \in DOMAIN prog PROVE PredSet(pc) \subseteq DOMAIN prog
BY Addresses DEF PredSet, JumpsTo, FallIn

\* An instruction that runs is a predecessor of the one that runs next.
LEMMA StepsFromPred ==
  ASSUME prog \in Programs, NEW pc \in DOMAIN prog, at = pc, NEW s \in Nexts
  PROVE  s = Ended \/ (s \in DOMAIN prog /\ pc \in PredSet(s)
                       /\ ((s = pc + 1 /\ FallIn(s) = pc) \/ pc \in JumpsTo(s)))
<1>1. pc \in Nat /\ pc >= 1 BY Addresses
<1>2. \A t : Goto(t) = Ended \/ (Goto(t) = t /\ t \in DOMAIN prog) BY DEF Goto
<1>3. CASE s = Goto(pc + 1) /\ Op(pc) \notin Barriers
  <2>1. FallIn(pc + 1) = pc BY <1>1, <1>3 DEF FallIn
  <2> QED BY <1>1, <1>2, <1>3, <2>1 DEF PredSet
<1>4. CASE s = Goto(Arg(pc)) /\ Op(pc) \in Branches \cup {"JMP"}
  BY <1>2, <1>4 DEF PredSet, JumpsTo
<1>5. CASE Op(pc) = "RTS" BY <1>5 DEF Nexts, Branches
<1> QED BY <1>3, <1>4, <1>5 DEF Nexts, Barriers, Branches

(***************************************************************************)
(* The flag setter: between it and the branch nothing sets the flag.       *)
(***************************************************************************)

Flag == BranchFlag(Op(branch))

Between ==
  /\ prog \in Programs /\ branch \in DOMAIN prog /\ setter \in 0 .. branch - 1
  /\ phase \in {"setter", "walk", "done"}
  /\ setter # 0 => \A q \in setter + 1 .. branch - 1 : ~Decides(q)
  /\ setter # 0 => \A q \in setter .. branch - 1 : Op(q) \notin Barriers
  /\ phase # "setter" /\ setter # 0 => Decides(setter)

LastSet ==
  /\ phase # "done" => at = 0
  /\ at # 0 => phase = "done"
  /\ setter # 0 /\ NoArrivals /\ ~Restores /\ at \in setter + 1 .. branch => setBy[Flag] = setter

LEMMA BetweenInit == ExecInit => Between /\ LastSet
<1> SUFFICES ASSUME ExecInit PROVE Between /\ LastSet OBVIOUS
<1>1. prog \in Programs /\ branch \in DOMAIN prog /\ phase = "setter" /\ at = 0 /\ setter = FallIn(branch)
  BY DEF ExecInit, Init
<1>2. branch \in Nat /\ branch >= 1 BY <1>1, Addresses
<1>3. setter \in 0 .. branch - 1 /\ (setter # 0 => setter = branch - 1 /\ Op(setter) \notin Barriers)
  BY <1>1, <1>2 DEF FallIn
<1> QED BY <1>1, <1>2, <1>3 DEF Between, LastSet

\* Every return and every call from the walk leaves it walking or done.
LEMMA PhaseAfter ==
  /\ \A calls, r : Return(calls, r) => phase' \in {"walk", "done"}
  /\ \A calls, frame : Calls(calls, frame) => phase' = "walk"
  /\ \A calls, pc, reg, depth : ResolveLhs(calls, pc, reg, depth) => phase' \in {"walk", "done"}
  /\ \A calls, pc, depth : ResolvePla(calls, pc, depth) => phase' \in {"walk", "done"}
<1>1. \A calls, r : Return(calls, r) => phase' \in {"walk", "done"}
  BY DEF Return
<1>2. \A calls, frame : Calls(calls, frame) => phase' = "walk"
  BY DEF Calls
<1> QED BY <1>1, <1>2 DEF ResolveLhs, ResolvePla

LEMMA WalkPhase == ASSUME Walk PROVE phase = "walk" /\ phase' \in {"walk", "done"}
<1> USE PhaseAfter
<1>1. phase = "walk" BY DEF Walk
<1>2. \A f, e : Push(f, e) => phase' = "walk" BY DEF Push
<1>3. CASE EndWalk
  <2>1. \E r : Return(Below, r) BY <1>3 DEF EndWalk
  <2> QED BY <1>1, <2>1
<1>4. CASE OutOfSteps
  <2>1. \E r : Return(Below, r) BY <1>4 DEF OutOfSteps
  <2> QED BY <1>1, <2>1
<1>5. ASSUME NEW w, Revisit(w) PROVE phase' \in {"walk", "done"} BY <1>2, <1>5 DEF Revisit
<1>6. ASSUME NEW w, LhsStep(w) PROVE phase' \in {"walk", "done"}
  BY <1>2, <1>6 DEF LhsStep, Load, Through, Compute, Pull, Pass, CallReturns, GiveUp
<1>7. ASSUME NEW w, PlaStep(w) PROVE phase' \in {"walk", "done"}
  BY <1>2, <1>7 DEF PlaStep, Pushed, Unmatched, Balance
<1> QED BY <1>1, <1>3, <1>4, <1>5, <1>6, <1>7 DEF Walk

LEMMA SetterStep ==
  ASSUME Between, FindSetter, UNCHANGED <<prog, branch>>
  PROVE  Between'
<1>1. branch \in Nat /\ branch >= 1 BY Addresses DEF Between
<1>2. \A q : Decides(q)' = Decides(q) /\ Op(q)' = Op(q) /\ FallIn(q)' = FallIn(q) BY DEF Decides, Op, FallIn
<1>3. CASE Skip
  <2>1. /\ setter # 0 /\ ~Decides(setter) /\ setter' = FallIn(setter) /\ phase' = phase /\ phase = "setter"
    BY <1>3 DEF Skip, FindSetter
  <2>2. setter \in Nat /\ setter >= 1 BY <1>1, <2>1 DEF Between
  <2>3. setter' # 0 => setter' = setter - 1 /\ setter' >= 1 /\ Op(setter') \notin Barriers
    BY <2>1, <2>2 DEF FallIn
  <2>4. setter' \in 0 .. branch - 1 BY <1>1, <2>2, <2>3 DEF Between
  <2>5. ASSUME setter' # 0
        PROVE  /\ \A q \in setter' + 1 .. branch - 1 : ~Decides(q)
               /\ \A q \in setter' .. branch - 1 : Op(q) \notin Barriers
    <3>1. /\ \A q \in setter' + 1 .. branch - 1 : q = setter \/ q \in setter + 1 .. branch - 1
          /\ \A q \in setter' .. branch - 1 : q = setter' \/ q \in setter .. branch - 1
      BY <1>1, <2>2, <2>3, <2>5
    <3> QED BY <2>1, <2>3, <2>5, <3>1 DEF Between
  <2> QED BY <1>2, <2>1, <2>4, <2>5 DEF Between
<1>4. CASE NoSetter BY <1>1, <1>2, <1>4 DEF NoSetter, Between
<1>5. CASE Found
  <2>1. setter' = setter /\ Decides(setter) BY <1>5 DEF Found
  <2>2. phase' \in {"walk", "done"} BY <1>5, PhaseAfter DEF Found
  <2> QED BY <1>2, <2>1, <2>2 DEF Between
<1> QED BY <1>3, <1>4, <1>5 DEF FindSetter

LEMMA BetweenStep ==
  ASSUME Between, LastSet, [Next]_allVars
  PROVE  Between'
<1>1. CASE Analyze
  <2>1. CASE FindSetter BY <1>1, <2>1, SetterStep DEF Analyze
  <2>2. CASE Walk
    <3>1. setter' = setter /\ prog' = prog /\ branch' = branch BY <1>1, <2>2 DEF Analyze, Walk
    <3>2. \A q : Decides(q)' = Decides(q) /\ Op(q)' = Op(q) BY <3>1 DEF Decides, Op
    <3> QED BY <2>2, <3>1, <3>2, WalkPhase DEF Between
  <2> QED BY <1>1, <2>1, <2>2 DEF Analyze
<1>2. CASE UNCHANGED vars
  <2>1. setter' = setter /\ prog' = prog /\ branch' = branch /\ phase' = phase BY <1>2 DEF vars
  <2>2. \A q : Decides(q)' = Decides(q) /\ Op(q)' = Op(q) BY <2>1 DEF Decides, Op
  <2> QED BY <2>1, <2>2 DEF Between
<1> QED BY <1>1, <1>2 DEF Next, Execute, allVars, vars

LEMMA LastSetStep ==
  ASSUME Between, LastSet, [Next]_allVars
  PROVE  LastSet'
<1>1. CASE Analyze /\ UNCHANGED execVars
  <2>1. phase \in {"setter", "walk"} BY <1>1 DEF Analyze, FindSetter, Walk
  <2>2. at = 0 /\ at' = 0 BY <1>1, <2>1 DEF LastSet, execVars
  <2>3. setter' \in Nat /\ branch' \in Nat
    <3>1. Between' BY BetweenStep
    <3>2. prog' = prog /\ branch' = branch BY <1>1 DEF Analyze
    <3> QED BY <3>1, <3>2, Addresses DEF Between
  <2>4. \A a, b \in Nat : 0 \notin a + 1 .. b OBVIOUS
  <2> QED BY <2>2, <2>3, <2>4 DEF LastSet
<1>2. CASE UNCHANGED allVars
  BY <1>2 DEF allVars, LastSet, Flag, NoArrivals, Restores, JumpsTo, Op, Arg
<1>3. CASE Execute
  <2>1. /\ phase = "done" /\ setter' = setter /\ prog' = prog /\ branch' = branch /\ phase' = phase
    BY <1>3 DEF Execute, vars
  <2>8. Flag' = Flag /\ Restores' = Restores
    BY <2>1 DEF Flag, Restores, Op
  <2> SUFFICES ASSUME setter # 0, NoArrivals', ~Restores, at' \in setter + 1 .. branch
               PROVE  setBy'[Flag] = setter
    BY <2>1, <2>8 DEF LastSet
  <2>2. /\ \A pc \in (setter + 1) .. branch : JumpsTo(pc) = {}
        /\ entry' \notin (setter + 1) .. branch
    BY <2>1 DEF NoArrivals, JumpsTo, Op, Arg
  <2>3. /\ prog \in Programs /\ branch \in DOMAIN prog /\ setter \in 1 .. branch - 1 /\ Decides(setter)
        /\ branch \in Nat /\ DOMAIN prog = 1 .. Len(prog) /\ Len(prog) \in Nat
    BY <2>1, Addresses DEF Between
  <2>4. at' \in DOMAIN prog /\ at' \in Nat /\ at' # Ended BY <2>3 DEF Ended
  <2>5. FallIn(at') = at' - 1 /\ FallIn(at') # 0
    <3>1. at' - 1 \in setter .. branch - 1 /\ at' > 1 BY <2>3, <2>4
    <3>2. Op(at' - 1) \notin Barriers BY <2>3, <3>1 DEF Between
    <3> QED BY <3>1, <3>2 DEF FallIn
  <2>6. CASE Enter
    <3>1. entry' = at' BY <2>6 DEF Enter
    <3> QED BY <2>2, <3>1
  <2>7. CASE Step
    <3>1. at \in DOMAIN prog /\ at' \in Nexts BY <2>7 DEF Step
    <3>2. at' = at + 1 \/ at \in JumpsTo(at') BY <2>3, <2>4, <3>1, StepsFromPred
    <3>3. JumpsTo(at') = {} BY <2>2
    <3>9. NoArrivals
      <4>1. entry' = entry BY <2>7 DEF Step
      <4> QED BY <2>2, <4>1 DEF NoArrivals
    <3>4. at \in setter .. branch - 1 BY <2>3, <3>1, <3>2, <3>3
    <3>5. setBy'[Flag] = IF Flag \in Sets(Op(at)) THEN at ELSE setBy[Flag]
      <4>1. Flag \in {"Z", "C"} BY DEF Flag, BranchFlag
      <4> QED BY <2>7, <4>1 DEF Step
    <3>6. Flag \in {"Z", "C"} BY DEF Flag, BranchFlag
    <3>7. CASE at = setter
      <4>1. Op(at) \in FlagSetters[Flag] \cup {"JSR"} BY <2>3, <3>7 DEF Decides, Flag
      <4>2. Flag \in Sets(Op(at)) BY <3>6, <4>1 DEF Sets
      <4> QED BY <3>5, <3>7, <4>2
    <3>8. CASE at # setter
      <4>1. at \in setter + 1 .. branch - 1 /\ at \in setter + 1 .. branch BY <2>3, <3>4, <3>8
      <4>2. Op(at) \notin FlagSetters[Flag] /\ Op(at) # "JSR" BY <2>3, <4>1 DEF Between, Decides, Flag
      <4>3. Op(at) # "PLP"
        <5>1. CASE Flag = "C" BY <4>2, <5>1 DEF FlagSetters
        <5>2. CASE Flag = "Z"
          <6>1. Op(branch) # "BCC" BY <5>2 DEF Flag, BranchFlag
          <6> QED BY <4>1, <6>1 DEF Restores
        <5> QED BY <3>6, <5>1, <5>2
      <4>4. Flag \notin Sets(Op(at)) BY <4>2, <4>3 DEF Sets
      <4>5. at # 0 BY <2>3, <4>1
      <4> QED BY <2>1, <3>5, <3>9, <4>1, <4>4 DEF LastSet
    <3> QED BY <3>7, <3>8
  <2> QED BY <1>3, <2>6, <2>7 DEF Execute
<1> QED BY <1>1, <1>2, <1>3 DEF Next

\* _find_flag_setter: where nothing jumps in and no PLP stands in between, the
\* flag that the branch tests was last set by the setter found.
THEOREM SetterIsSound == Spec => []SetterSound
<1>1. Between /\ LastSet => SetterSound
  <2> SUFFICES ASSUME Between, LastSet, Done, at = branch, setter # 0, NoArrivals, ~Restores
               PROVE  setBy[BranchFlag(Op(branch))] = setter
    BY DEF SetterSound
  <2>1. branch \in setter + 1 .. branch BY Addresses DEF Between
  <2> QED BY <2>1 DEF LastSet, Flag
<1> QED BY <1>1, BetweenInit, BetweenStep, LastSetStep, PTL DEF Spec

(***************************************************************************)
(* The source: what a claim that a value comes from known sources rests    *)
(* on.  A node is the value a register has after an instruction, or the    *)
(* n-th byte from the top of the stack after it; V is a set of nodes whose *)
(* values are claimed to come from the sources in K.                       *)
(***************************************************************************)

RegNode(pc, reg) == <<"reg", pc, reg>>
StkNode(pc, n) == <<"stk", pc, n>>

\* What reg holds, or what the n-th byte is, when pc is about to run.
Fed(V, K, pc, reg) ==
  IF PredSet(pc) = {} THEN <<"caller", reg>> \in K ELSE \A p \in PredSet(pc) : RegNode(p, reg) \in V
Lies(V, pc, n) == PredSet(pc) # {} /\ \A p \in PredSet(pc) : StkNode(p, n) \in V

RegTold(V, K, pc, reg) ==
  \/ Op(pc) \in Loaders[reg] /\ <<"var", Arg(pc)>> \in K
  \/ Op(pc) \in Transforms[reg] \cup Neutral[reg] /\ Fed(V, K, pc, reg)
  \/ Op(pc) = Transfer[reg] /\ Fed(V, K, pc, Other[reg])
  \/ reg = "A" /\ Op(pc) = "ADC" /\ <<"computed", "A">> \in K
  \/ reg = "A" /\ Op(pc) = "PLA" /\ Lies(V, pc, 1)
  \/ Op(pc) = "JSR" /\ <<"return", Arg(pc), reg>> \in K

\* The place on the stack, before pc, of what is n-th after it.
Before(pc, n) ==
  n + (CASE Op(pc) \in {"PLA", "PLP"} -> 1 [] Op(pc) \in {"PHA", "PHP"} -> -1 [] OTHER -> 0)

StkTold(V, K, pc, n) ==
  \/ Op(pc) = "PHA" /\ Before(pc, n) = 0 /\ Fed(V, K, pc, "A")
  \/ Op(pc) \notin {"TXS", "TSX"} /\ Before(pc, n) # 0 /\ Lies(V, pc, Before(pc, n))

\* Every node of V is explained by nodes of W and sources of K.
Explained(V, W, K) ==
  \A pc \in DOMAIN prog :
    /\ \A reg \in Reg : RegNode(pc, reg) \in V => RegTold(W, K, pc, reg)
    /\ \A n \in Nat \ {0} : StkNode(pc, n) \in V => StkTold(W, K, pc, n)

\* The setter is one whose value is walked for, and V and K answer it.
Asks == setter # 0 /\ (Op(setter) = "PLA" \/ WalkReg(Op(setter)) # "")
Main(V, K) == IF Op(setter) = "PLA" THEN Lies(V, setter, 1) ELSE Fed(V, K, setter, WalkReg(Op(setter)))

\* With the nodes in `work` still to be looked at, the answer rests on K.
Sourced(visited, work, K) ==
  \E V : visited \subseteq V /\ Explained(V, V \cup work, K) /\ Main(V \cup work, K)

LEMMA ToldMore ==
  ASSUME NEW V, NEW W, V \subseteq W, NEW K, NEW L, K \subseteq L
  PROVE  /\ \A pc, reg : Fed(V, K, pc, reg) => Fed(W, L, pc, reg)
         /\ \A pc, n : Lies(V, pc, n) => Lies(W, pc, n)
         /\ \A pc, reg : RegTold(V, K, pc, reg) => RegTold(W, L, pc, reg)
         /\ \A pc, n : StkTold(V, K, pc, n) => StkTold(W, L, pc, n)
         /\ Main(V, K) => Main(W, L)
<1>1. \A pc, reg : Fed(V, K, pc, reg) => Fed(W, L, pc, reg) BY DEF Fed
<1>2. \A pc, n : Lies(V, pc, n) => Lies(W, pc, n) BY DEF Lies
<1> HIDE DEF Fed, Lies
<1>3. \A pc, reg : RegTold(V, K, pc, reg) => RegTold(W, L, pc, reg) BY <1>1, <1>2 DEF RegTold
<1>4. \A pc, n : StkTold(V, K, pc, n) => StkTold(W, L, pc, n) BY <1>1, <1>2 DEF StkTold
<1>5. Main(V, K) => Main(W, L) BY <1>1, <1>2 DEF Main
<1> QED BY <1>1, <1>2, <1>3, <1>4, <1>5

\* Taking nodes off the work, explaining them by what is then there.
LEMMA SourcedGrows ==
  ASSUME NEW vis, NEW work, NEW K, Sourced(vis, work, K),
         NEW vis2, NEW work2, NEW L, K \subseteq L, NEW N,
         work \subseteq work2 \cup N \cup vis, vis2 \subseteq vis \cup N,
         \A V : N \subseteq V /\ work2 \subseteq V => Explained(N, V, L)
  PROVE  Sourced(vis2, work2, L)
<1>1. PICK V : vis \subseteq V /\ Explained(V, V \cup work, K) /\ Main(V \cup work, K) BY DEF Sourced
<1> DEFINE W == V \cup N
           U == W \cup work2
<1>2. V \cup work \subseteq U BY <1>1
<1>3. Explained(N, U, L) OBVIOUS
<1>4. Explained(V, U, L) BY <1>1, <1>2, ToldMore DEF Explained
<1>5. Explained(W, U, L) BY <1>3, <1>4 DEF Explained
<1>6. Main(U, L) BY <1>1, <1>2, ToldMore
<1>7. vis2 \subseteq W BY <1>1
<1> QED BY <1>5, <1>6, <1>7 DEF Sourced

\* Taking off the work what has been visited.
LEMMA SourcedKept ==
  ASSUME NEW vis, NEW work, NEW K, Sourced(vis, work, K),
         NEW vis2, NEW work2, NEW L, K \subseteq L, work \subseteq work2 \cup vis, vis2 \subseteq vis
  PROVE  Sourced(vis2, work2, L)
<1>1. PICK V : vis \subseteq V /\ Explained(V, V \cup work, K) /\ Main(V \cup work, K) BY DEF Sourced
<1>2. V \cup work \subseteq V \cup work2 /\ vis2 \subseteq V BY <1>1
<1>3. Explained(V, V \cup work2, L) BY <1>1, <1>2, ToldMore DEF Explained
<1>4. Main(V \cup work2, L) BY <1>1, <1>2, ToldMore
<1> QED BY <1>2, <1>3, <1>4 DEF Sourced

(***************************************************************************)
(* Sequences as stacks.                                                    *)
(***************************************************************************)

IsList(s) == s \in Seq(Range(s))

LEMMA ListOf ==
  ASSUME NEW S, NEW s \in Seq(S)
  PROVE  /\ IsList(s) /\ Range(s) \subseteq S /\ Len(s) \in Nat /\ DOMAIN s = 1 .. Len(s)
<1>1. Len(s) \in Nat /\ DOMAIN s = 1 .. Len(s) /\ \A i \in 1 .. Len(s) : s[i] \in S OBVIOUS
<1>2. \A i \in 1 .. Len(s) : s[i] \in Range(s) BY <1>1 DEF Range
<1>3. s \in [1 .. Len(s) -> Range(s)] BY <1>1, <1>2
<1>4. s \in Seq(Range(s)) BY <1>1, <1>3
<1> QED BY <1>1, <1>4 DEF IsList, Range

LEMMA Appending ==
  ASSUME NEW s, IsList(s), NEW x
  PROVE  /\ IsList(Append(s, x)) /\ Range(Append(s, x)) = Range(s) \cup {x}
         /\ Append(s, x) # <<>> /\ Front(Append(s, x)) = s /\ Last(Append(s, x)) = x
<1> DEFINE S == Range(s) \cup {x}
           t == Append(s, x)
           n == Len(s)
<1>1. s \in Seq(S) /\ n \in Nat /\ DOMAIN s = 1 .. n BY DEF IsList
<1>2. t \in Seq(S) /\ Len(t) = n + 1 /\ t[n + 1] = x /\ \A i \in 1 .. n : t[i] = s[i] BY <1>1
<1> HIDE DEF t
<1>3. IsList(t) /\ Range(t) \subseteq S /\ DOMAIN t = 1 .. n + 1 BY <1>2, ListOf
<1>4. Range(s) \subseteq Range(t) /\ x \in Range(t)
  <2>1. \A i \in 1 .. n : i \in 1 .. n + 1 BY <1>1
  <2>2. n + 1 \in 1 .. n + 1 BY <1>1
  <2> QED BY <1>1, <1>2, <1>3, <2>1, <2>2 DEF Range
<1>5. Front(t) = s
  <2>1. Front(t) = SubSeq(t, 1, n) BY <1>1, <1>2 DEF Front
  <2>2. SubSeq(t, 1, n) \in Seq(S) /\ Len(SubSeq(t, 1, n)) = n
        /\ \A i \in 1 .. n : SubSeq(t, 1, n)[i] = t[i]
    BY <1>1, <1>2
  <2> QED BY <1>1, <1>2, <2>1, <2>2
<1>6. Last(t) = x /\ t # <<>> BY <1>1, <1>2 DEF Last
<1> QED BY <1>3, <1>4, <1>5, <1>6 DEF t

LEMMA Popping ==
  ASSUME NEW s, IsList(s), s # <<>>
  PROVE  /\ IsList(Front(s)) /\ Range(s) = Range(Front(s)) \cup {Last(s)}
         /\ Len(s) \in Nat /\ Len(s) >= 1 /\ Last(s) = s[Len(s)]
         /\ Len(Front(s)) = Len(s) - 1 /\ \A i \in 1 .. Len(s) - 1 : Front(s)[i] = s[i]
<1> DEFINE S == Range(s)
           n == Len(s)
           f == Front(s)
<1>1. s \in Seq(S) /\ n \in Nat /\ n >= 1 /\ DOMAIN s = 1 .. n BY DEF IsList
<1>2. f = SubSeq(s, 1, n - 1) BY DEF Front
<1>3. f \in Seq(S) /\ Len(f) = n - 1 /\ \A i \in 1 .. n - 1 : f[i] = s[i] BY <1>1, <1>2
<1> HIDE DEF f
<1>4. IsList(f) /\ Range(f) \subseteq S /\ DOMAIN f = 1 .. n - 1 BY <1>1, <1>3, ListOf
<1>5. Last(s) = s[n] /\ s[n] \in S BY <1>1 DEF Last, Range
<1>6. \A x \in S : x \in Range(f) \cup {s[n]}
  <2> SUFFICES ASSUME NEW i \in 1 .. n PROVE s[i] \in Range(f) \cup {s[n]} BY <1>1 DEF Range
  <2>0. \A k \in Nat : \A j \in 1 .. k : j = k \/ j \in 1 .. k - 1 OBVIOUS
  <2>1. i = n \/ i \in 1 .. n - 1 BY <1>1, <2>0
  <2> QED BY <1>3, <1>4, <2>1 DEF Range
<1> QED BY <1>1, <1>3, <1>4, <1>5, <1>6 DEF f

LEMMA Joining ==
  ASSUME NEW s, IsList(s), NEW t, IsList(t)
  PROVE  IsList(s \o t) /\ Range(s \o t) = Range(s) \cup Range(t)
<1> DEFINE S == Range(s) \cup Range(t)
           u == s \o t
           m == Len(s)
           n == Len(t)
<1>1. s \in Seq(S) /\ t \in Seq(S) BY DEF IsList
<1>2. m \in Nat /\ n \in Nat /\ DOMAIN s = 1 .. m /\ DOMAIN t = 1 .. n BY <1>1
<1>3. /\ u \in Seq(S) /\ Len(u) = m + n /\ \A i \in 1 .. m : u[i] = s[i]
      /\ \A i \in 1 .. n : u[m + i] = t[i]
  BY <1>1
<1> HIDE DEF u
<1>4. IsList(u) /\ Range(u) \subseteq S /\ DOMAIN u = 1 .. m + n BY <1>3, ListOf
<1>5. \A i \in 1 .. m : i \in 1 .. m + n BY <1>2
<1>6. \A i \in 1 .. n : m + i \in 1 .. m + n BY <1>2
<1>7. Range(s) \subseteq Range(u) BY <1>2, <1>3, <1>4, <1>5 DEF Range
<1>8. Range(t) \subseteq Range(u) BY <1>2, <1>3, <1>4, <1>6 DEF Range
<1> QED BY <1>4, <1>7, <1>8 DEF u

(***************************************************************************)
(* What the calls under way have visited, have to look at and know.        *)
(***************************************************************************)

Node(f, w) == IF f.kind = "lhs" THEN RegNode(w.pc, w.reg) ELSE StkNode(w.pc, w.pending)
WorkOf(f) == {Node(f, w) : w \in Range(f.work)}
VisitedOf(f) == {IF f.kind = "lhs" THEN RegNode(v[1], v[2]) ELSE StkNode(v[1], v[2]) : v \in f.visited}
KeysOf(f) == IF f.kind = "lhs" THEN {s.key : s \in f.found} ELSE UNION {r.keys : r \in Range(f.found)}

AllWork(calls) == UNION {WorkOf(f) : f \in Range(calls)}
AllVisited(calls) == UNION {VisitedOf(f) : f \in Range(calls)}
AllKeys(calls) == UNION {KeysOf(f) : f \in Range(calls)}

Entry(f, w) == w.pc \in DOMAIN prog /\ (IF f.kind = "lhs" THEN w.reg \in Reg ELSE w.pending \in Nat \ {0})
IsFrame(f) ==
  /\ DOMAIN f = {"kind", "work", "visited", "found", "steps", "depth"}
  /\ f.kind \in {"lhs", "pla"} /\ IsList(f.work) /\ \A w \in Range(f.work) : Entry(f, w)
  /\ f.kind = "pla" => IsList(f.found)

\* The frames below the innermost one wait for a register walk's answer.
Waiting(calls) == IsList(calls) /\ \A f \in Range(calls) : IsFrame(f) /\ f.kind = "pla"

\* A pull that has been answered "unknown" once stays unknown.
Unknowing(f) == f.kind = "pla" /\ \E r \in Range(f.found) : r.kind = "unknown"
Excused(calls) == \E f \in Range(calls) : Unknowing(f)

Walks(calls) ==
  /\ IsList(calls) /\ calls # <<>> /\ IsFrame(Last(calls)) /\ Waiting(Front(calls))

\* The state of the analysis once the walk has begun.
Fine(where, calls, answer, lost) ==
  /\ where = "walk" =>
       /\ Walks(calls)
       /\ lost \/ Excused(calls) \/ Sourced(AllVisited(calls), AllWork(calls), AllKeys(calls))
  /\ where = "done" =>
       lost \/ answer.kind = "unknown" \/ Sourced({}, {}, answer.keys)

LEMMA AppendAll ==
  ASSUME NEW calls, IsList(calls), NEW f
  PROVE  /\ AllWork(Append(calls, f)) = AllWork(calls) \cup WorkOf(f)
         /\ AllVisited(Append(calls, f)) = AllVisited(calls) \cup VisitedOf(f)
         /\ AllKeys(Append(calls, f)) = AllKeys(calls) \cup KeysOf(f)
         /\ Excused(Append(calls, f)) <=> Excused(calls) \/ Unknowing(f)
<1>1. Range(Append(calls, f)) = Range(calls) \cup {f} BY Appending
<1> QED BY <1>1 DEF AllWork, AllVisited, AllKeys, Excused

LEMMA PopAll ==
  ASSUME NEW calls, IsList(calls), calls # <<>>
  PROVE  /\ AllWork(calls) = AllWork(Front(calls)) \cup WorkOf(Last(calls))
         /\ AllVisited(calls) = AllVisited(Front(calls)) \cup VisitedOf(Last(calls))
         /\ AllKeys(calls) = AllKeys(Front(calls)) \cup KeysOf(Last(calls))
         /\ Excused(calls) <=> Excused(Front(calls)) \/ Unknowing(Last(calls))
<1>1. Range(calls) = Range(Front(calls)) \cup {Last(calls)} BY Popping
<1> QED BY <1>1 DEF AllWork, AllVisited, AllKeys, Excused

LEMMA NoneLeft ==
  AllWork(<<>>) = {} /\ AllVisited(<<>>) = {} /\ AllKeys(<<>>) = {} /\ ~Excused(<<>>) /\ IsList(<<>>)
<1>1. Range(<<>>) = {} BY DEF Range
<1> QED BY <1>1 DEF AllWork, AllVisited, AllKeys, Excused, IsList

\* A call pushes its frame.
LEMMA CallFine ==
  ASSUME NEW calls, Waiting(calls), NEW f, IsFrame(f), Calls(calls, f),
         \/ dropped' \/ Excused(calls) \/ Unknowing(f)
         \/ Sourced(AllVisited(calls) \cup VisitedOf(f), AllWork(calls) \cup WorkOf(f),
                    AllKeys(calls) \cup KeysOf(f))
  PROVE  Fine(phase', frames', lhs', dropped')
<1>1. frames' = Append(calls, f) /\ phase' = "walk" BY DEF Calls
<1>2. IsList(calls) BY DEF Waiting
<1>3. Walks(frames') BY <1>1, <1>2, Appending DEF Walks
<1> QED BY <1>1, <1>2, <1>3, AppendAll DEF Fine

\* A return hands its answer to the frame below, or ends the analysis.
LEMMA ReturnFine ==
  ASSUME NEW calls, Waiting(calls), NEW r, Return(calls, r),
         \/ dropped' \/ Excused(calls) \/ r.kind = "unknown"
         \/ Sourced(AllVisited(calls), AllWork(calls), AllKeys(calls) \cup r.keys)
  PROVE  Fine(phase', frames', lhs', dropped')
<1>1. CASE calls = <<>>
  <2>1. phase' = "done" /\ lhs' = r BY <1>1 DEF Return
  <2> QED BY <1>1, <2>1, NoneLeft DEF Fine
<1>2. CASE calls # <<>>
  <2> DEFINE g == Last(calls)
             f == [g EXCEPT !.found = Append(@, r)]
             s == Front(calls)
  <2>1. IsList(calls) /\ IsList(s) /\ Range(calls) = Range(s) \cup {g} BY <1>2, Popping DEF Waiting
  <2>2. IsFrame(g) /\ g.kind = "pla" /\ Waiting(s) BY <2>1 DEF Waiting
  <2>3. IsList(g.found) BY <2>2 DEF IsFrame
  <2>4. IsList(Append(g.found, r)) /\ Range(Append(g.found, r)) = Range(g.found) \cup {r}
    BY <2>3, Appending
  <2>5. /\ f.kind = "pla" /\ f.work = g.work /\ f.visited = g.visited /\ f.found = Append(g.found, r)
        /\ DOMAIN f = DOMAIN g
    BY <2>2 DEF IsFrame
  <2>6. frames' = Append(s, f) /\ phase' = "walk" /\ UNCHANGED lhs
    <3> DEFINE n == Len(calls)
    <3>1. frames' = [calls EXCEPT ![n].found = Append(@, r)] /\ phase' = "walk" /\ UNCHANGED lhs
      BY <1>2 DEF Return
    <3>2. /\ n \in Nat /\ n >= 1 /\ calls[n] = g /\ Len(s) = n - 1 /\ \A i \in 1 .. n - 1 : s[i] = calls[i]
      BY <1>2, <2>1, Popping
    <3>3. frames' = [calls EXCEPT ![n] = f] BY <3>1, <3>2
    <3>4. calls \in Seq(Range(calls)) /\ s \in Seq(Range(s)) BY <2>1 DEF IsList
    <3> HIDE DEF f, s, n
    <3>5. Append(s, f) = [calls EXCEPT ![n] = f]
      <4> DEFINE S == Range(calls) \cup {f}
      <4>1. s \in Seq(S) /\ calls \in Seq(S) BY <2>1, <3>4
      <4>2. f \in S OBVIOUS
      <4> HIDE DEF S
      <4>3. Append(s, f) \in Seq(S) /\ Len(Append(s, f)) = n BY <4>1, <4>2, <3>2
      <4>4. Append(s, f) \in [1 .. n -> S]
        <5>1. \A t \in Seq(S) : t \in [1 .. Len(t) -> S] OBVIOUS
        <5> QED BY <4>3, <5>1
      <4>5. calls \in [1 .. n -> S] BY <4>1 DEF n
      <4>6. [calls EXCEPT ![n] = f] \in [1 .. n -> S] BY <4>2, <4>5
      <4>7. \A i \in 1 .. n : Append(s, f)[i] = IF i = n THEN f ELSE s[i] BY <4>1, <4>2, <3>2
      <4>8. \A i \in 1 .. n : [calls EXCEPT ![n] = f][i] = IF i = n THEN f ELSE calls[i] BY <4>5
      <4>9. \A i \in 1 .. n : i = n \/ i \in 1 .. n - 1 BY <3>2
      <4>10. \A i \in 1 .. n : Append(s, f)[i] = [calls EXCEPT ![n] = f][i] BY <3>2, <4>7, <4>8, <4>9
      <4> QED BY <4>4, <4>6, <4>10
    <3> QED BY <3>1, <3>3, <3>5
  <2> HIDE DEF f, s
  <2>7. /\ WorkOf(f) = WorkOf(g) /\ VisitedOf(f) = VisitedOf(g) /\ KeysOf(f) = KeysOf(g) \cup r.keys
        /\ Unknowing(g) => Unknowing(f)
        /\ r.kind = "unknown" => Unknowing(f)
    <3>1. \A w : Node(f, w) = Node(g, w) BY <2>2, <2>5 DEF Node
    <3>2. WorkOf(f) = WorkOf(g) BY <2>5, <3>1 DEF WorkOf
    <3>3. VisitedOf(f) = VisitedOf(g) BY <2>2, <2>5 DEF VisitedOf
    <3>4. KeysOf(f) = KeysOf(g) \cup r.keys BY <2>2, <2>4, <2>5 DEF KeysOf
    <3>5. (Unknowing(g) => Unknowing(f)) /\ (r.kind = "unknown" => Unknowing(f))
      BY <2>2, <2>4, <2>5 DEF Unknowing
    <3> QED BY <3>2, <3>3, <3>4, <3>5
  <2>8. IsFrame(f)
    BY <2>2, <2>4, <2>5 DEF IsFrame, Entry
  <2>9. /\ AllWork(calls) = AllWork(s) \cup WorkOf(f) /\ AllVisited(calls) = AllVisited(s) \cup VisitedOf(f)
        /\ AllKeys(calls) \cup r.keys = AllKeys(s) \cup KeysOf(f)
        /\ Excused(calls) => Excused(s) \/ Unknowing(f)
    BY <1>2, <2>1, <2>7, PopAll DEF s
  <2>10. Calls(s, f) BY <2>6 DEF Calls
  <2> QED BY <2>2, <2>7, <2>8, <2>9, <2>10, CallFine
<1> QED BY <1>1, <1>2

(***************************************************************************)
(* One iteration of the walk.  N is the node it looks at.                  *)
(***************************************************************************)

Stepping(w) ==
  /\ prog \in Programs /\ phase = "walk" /\ Walks(frames)
  /\ Top.work # <<>> /\ w = Last(Top.work)
  /\ dropped \/ Excused(frames) \/ Sourced(AllVisited(frames), AllWork(frames), AllKeys(frames))

\* What the other entries ask.
Rest == AllWork(Below) \cup WorkOf(Popped)

LEMMA StepFacts ==
  ASSUME NEW w, Stepping(w)
  PROVE  /\ Waiting(Below) /\ IsFrame(Top) /\ Entry(Top, w) /\ w.pc \in DOMAIN prog
         /\ AllWork(frames) = Rest \cup {Node(Top, w)}
         /\ AllVisited(frames) = AllVisited(Below) \cup VisitedOf(Top)
         /\ AllKeys(frames) = AllKeys(Below) \cup KeysOf(Top)
         /\ Excused(frames) <=> Excused(Below) \/ Unknowing(Top)
         /\ IsList(Popped.work) /\ \A e \in Range(Popped.work) : Entry(Top, e)
<1>1. /\ Waiting(Below) /\ IsFrame(Top) /\ IsList(frames) /\ frames # <<>> /\ IsList(Top.work)
  BY DEF Stepping, Walks, Below, Top, IsFrame
<1>2. /\ Popped.work = Front(Top.work) /\ Popped.kind = Top.kind
  BY <1>1 DEF Popped, IsFrame
<1>3. /\ Range(Top.work) = Range(Popped.work) \cup {w} /\ IsList(Popped.work)
  BY <1>1, <1>2, Popping DEF Stepping
<1>4. WorkOf(Top) = WorkOf(Popped) \cup {Node(Top, w)}
  <2>1. \A e : Node(Popped, e) = Node(Top, e) BY <1>2 DEF Node
  <2> QED BY <1>3, <2>1 DEF WorkOf
<1>5. Entry(Top, w) /\ w.pc \in DOMAIN prog /\ \A e \in Range(Popped.work) : Entry(Top, e)
  BY <1>1, <1>3 DEF IsFrame, Entry
<1> QED BY <1>1, <1>3, <1>4, <1>5, PopAll DEF Rest, Below, Top

\* A frame with its last entry taken, with the node visited or not and other
\* entries put on its list.
LEMMA FrameFacts ==
  ASSUME NEW w, Stepping(w), NEW base \in {Popped, Expanded(w)},
         NEW entries, IsList(entries), \A e \in Range(entries) : Entry(Top, e),
         NEW f, f = [base EXCEPT !.work = @ \o entries]
  PROVE  /\ IsFrame(f) /\ KeysOf(f) = KeysOf(Top) /\ Unknowing(f) = Unknowing(Top)
         /\ WorkOf(f) = WorkOf(Popped) \cup {Node(Top, e) : e \in Range(entries)}
         /\ VisitedOf(f) \subseteq VisitedOf(Top) \cup (IF base = Popped THEN {} ELSE {Node(Top, w)})
<1>1. IsFrame(Top) /\ IsList(Popped.work) /\ \A e \in Range(Popped.work) : Entry(Top, e) BY StepFacts
<1>2. /\ DOMAIN base = DOMAIN Top /\ base.kind = Top.kind /\ base.found = Top.found
      /\ base.work = Popped.work
      /\ base.visited = Top.visited \/ (base.visited = Top.visited \cup {Key(w)} /\ base = Expanded(w))
      /\ base = Popped => base.visited = Top.visited
  BY <1>1 DEF Popped, Expanded, IsFrame
<1>3. /\ DOMAIN f = DOMAIN Top /\ f.kind = Top.kind /\ f.found = Top.found
      /\ f.work = Popped.work \o entries /\ f.visited = base.visited
  BY <1>1, <1>2 DEF IsFrame
<1>4. IsList(f.work) /\ Range(f.work) = Range(Popped.work) \cup Range(entries)
  <2>1. IsList(Popped.work) BY <1>1
  <2>2. /\ IsList(Popped.work \o entries)
        /\ Range(Popped.work \o entries) = Range(Popped.work) \cup Range(entries)
    BY <2>1, Joining
  <2> QED BY <1>3, <2>2
<1>5. \A e : Node(f, e) = Node(Top, e) /\ (Entry(f, e) <=> Entry(Top, e)) BY <1>3 DEF Node, Entry
<1>6. IsFrame(f) BY <1>1, <1>3, <1>4, <1>5 DEF IsFrame
<1>7. KeysOf(f) = KeysOf(Top) BY <1>3 DEF KeysOf
<1>8. Unknowing(f) = Unknowing(Top) BY <1>3 DEF Unknowing
<1>9. WorkOf(f) = WorkOf(Popped) \cup {Node(Top, e) : e \in Range(entries)}
  <2>1. \A e : Node(Popped, e) = Node(Top, e) BY <1>1 DEF Node, Popped, IsFrame
  <2> QED BY <1>4, <1>5, <2>1 DEF WorkOf
<1>10. VisitedOf(f) \subseteq VisitedOf(Top) \cup (IF base = Popped THEN {} ELSE {Node(Top, w)})
  <2>1. f.visited = Top.visited => VisitedOf(f) = VisitedOf(Top) BY <1>3 DEF VisitedOf
  <2>2. ASSUME base # Popped, f.visited = Top.visited \cup {Key(w)}
        PROVE  VisitedOf(f) \subseteq VisitedOf(Top) \cup {Node(Top, w)}
    BY <1>3, <2>2 DEF VisitedOf, Key, Node
  <2> QED BY <1>2, <1>3, <2>1, <2>2
<1> QED BY <1>6, <1>7, <1>8, <1>9, <1>10

\* The node looked at is explained by the work that is left.
LEMMA WorkedOff ==
  ASSUME NEW w, Stepping(w), Sourced(AllVisited(frames), AllWork(frames), AllKeys(frames)),
         NEW vis, vis \subseteq AllVisited(frames) \cup {Node(Top, w)},
         NEW work, Rest \subseteq work, NEW K, AllKeys(frames) \subseteq K,
         \A V : Node(Top, w) \in V /\ work \subseteq V =>
                  IF Top.kind = "lhs" THEN RegTold(V, K, w.pc, w.reg) ELSE StkTold(V, K, w.pc, w.pending)
  PROVE  Sourced(vis, work, K)
<1> DEFINE N == {Node(Top, w)}
<1>1. ASSUME NEW V, N \subseteq V, work \subseteq V PROVE Explained(N, V, K)
  <2>1. IF Top.kind = "lhs" THEN RegTold(V, K, w.pc, w.reg) ELSE StkTold(V, K, w.pc, w.pending)
    BY <1>1
  <2>2. ASSUME NEW pc, NEW reg, RegNode(pc, reg) \in N PROVE RegTold(V, K, pc, reg)
    <3>1. RegNode(pc, reg) = Node(Top, w) BY <2>2
    <3>2. Top.kind = "lhs" /\ pc = w.pc /\ reg = w.reg BY <3>1 DEF Node, RegNode, StkNode
    <3> QED BY <2>1, <3>2
  <2>3. ASSUME NEW pc, NEW n, StkNode(pc, n) \in N PROVE StkTold(V, K, pc, n)
    <3>1. StkNode(pc, n) = Node(Top, w) BY <2>3
    <3>2. Top.kind # "lhs" /\ pc = w.pc /\ n = w.pending BY <3>1 DEF Node, RegNode, StkNode
    <3> QED BY <2>1, <3>2
  <2> QED BY <2>2, <2>3 DEF Explained
<1>2. AllWork(frames) \subseteq work \cup N \cup AllVisited(frames) BY StepFacts
<1> HIDE DEF N
<1>3. vis \subseteq AllVisited(frames) \cup N BY DEF N
<1> QED BY <1>1, <1>2, <1>3, SourcedGrows

\* Nothing to do for a node that has been visited.
LEMMA RevisitFine ==
  ASSUME NEW w, Stepping(w), Revisit(w)
  PROVE  Fine(phase', frames', lhs', dropped')
<1> DEFINE f == [Popped EXCEPT !.work = @ \o <<>>]
<1>1. Key(w) \in Top.visited /\ Calls(Below, f) /\ dropped' = dropped BY DEF Revisit, Push
<1>2. /\ IsFrame(f) /\ KeysOf(f) = KeysOf(Top) /\ Unknowing(f) = Unknowing(Top)
      /\ WorkOf(f) = WorkOf(Popped) /\ VisitedOf(f) \subseteq VisitedOf(Top)
  <2>1. Range(<<>>) = {} /\ IsList(<<>>) BY NoneLeft DEF Range
  <2>2. \A e \in Range(<<>>) : Entry(Top, e) BY <2>1
  <2>3. {Node(Top, e) : e \in Range(<<>>)} = {} BY <2>1
  <2> HIDE DEF f
  <2>4. f = [Popped EXCEPT !.work = @ \o <<>>] BY DEF f
  <2>5. /\ IsFrame(f) /\ KeysOf(f) = KeysOf(Top) /\ Unknowing(f) = Unknowing(Top)
        /\ WorkOf(f) = WorkOf(Popped) \cup {Node(Top, e) : e \in Range(<<>>)}
        /\ VisitedOf(f) \subseteq VisitedOf(Top)
    BY <2>1, <2>2, <2>4, FrameFacts
  <2> QED BY <2>3, <2>5
<1>3. Node(Top, w) \in VisitedOf(Top) BY <1>1 DEF Node, VisitedOf, Key
<1> HIDE DEF f
<1>4. ASSUME Sourced(AllVisited(frames), AllWork(frames), AllKeys(frames))
      PROVE  Sourced(AllVisited(Below) \cup VisitedOf(f), AllWork(Below) \cup WorkOf(f),
                     AllKeys(Below) \cup KeysOf(f))
  <2> DEFINE vis == AllVisited(Below) \cup VisitedOf(f)
             work == AllWork(Below) \cup WorkOf(f)
             K == AllKeys(Below) \cup KeysOf(f)
  <2>1. AllWork(frames) \subseteq work \cup AllVisited(frames) BY <1>2, <1>3, StepFacts DEF Rest
  <2>2. vis \subseteq AllVisited(frames) BY <1>2, StepFacts
  <2>3. AllKeys(frames) \subseteq K BY <1>2, StepFacts
  <2> HIDE DEF vis, work, K
  <2>4. Sourced(vis, work, K) BY <1>4, <2>1, <2>2, <2>3, SourcedKept
  <2> QED BY <2>4 DEF vis, work, K
<1> QED BY <1>1, <1>2, <1>4, StepFacts, CallFine DEF Stepping

\* The entries put on a list for the predecessors of an instruction.
LEMMA EntriesAll ==
  ASSUME NEW preds \in Seq(DOMAIN prog), NEW reg, NEW chain
  PROVE  LET es == Entries(preds, reg, chain) IN
         /\ IsList(es)
         /\ \A e \in Range(es) : e.pc \in DOMAIN prog /\ e.pc \in Range(preds) /\ e.reg = reg
         /\ \A p \in Range(preds) : \E e \in Range(es) : e.pc = p /\ e.reg = reg
<1> DEFINE es == Entries(preds, reg, chain)
           E(p) == [pc |-> p, reg |-> reg, chain |-> chain]
           S == {E(p) : p \in DOMAIN prog}
<1>1. /\ Len(preds) \in Nat /\ DOMAIN preds = 1 .. Len(preds)
      /\ \A i \in 1 .. Len(preds) : preds[i] \in DOMAIN prog
  OBVIOUS
<1>2. es = [i \in 1 .. Len(preds) |-> E(preds[i])] BY <1>1 DEF Entries
<1>3. es \in [1 .. Len(preds) -> S] BY <1>1, <1>2
<1>4. es \in Seq(S) BY <1>1, <1>3
<1>5. DOMAIN es = 1 .. Len(preds) /\ \A i \in 1 .. Len(preds) : es[i] = E(preds[i]) BY <1>2
<1>6. \A p : E(p).pc = p /\ E(p).reg = reg OBVIOUS
<1> HIDE DEF es, S, E
<1>7. IsList(es) BY <1>4, ListOf
<1>8. \A e \in Range(es) : e.pc \in DOMAIN prog /\ e.pc \in Range(preds) /\ e.reg = reg
  BY <1>1, <1>5, <1>6 DEF Range
<1>9. \A p \in Range(preds) : \E e \in Range(es) : e.pc = p /\ e.reg = reg
  BY <1>1, <1>5, <1>6 DEF Range
<1> QED BY <1>7, <1>8, <1>9 DEF es

LEMMA PullsAll ==
  ASSUME NEW preds \in Seq(DOMAIN prog), NEW n
  PROVE  LET es == Pulls(preds, n) IN
         /\ IsList(es)
         /\ \A e \in Range(es) : e.pc \in DOMAIN prog /\ e.pending = n
         /\ \A p \in Range(preds) : \E e \in Range(es) : e.pc = p /\ e.pending = n
<1> DEFINE es == Pulls(preds, n)
           E(p) == [pc |-> p, pending |-> n]
           S == {E(p) : p \in DOMAIN prog}
<1>1. /\ Len(preds) \in Nat /\ DOMAIN preds = 1 .. Len(preds)
      /\ \A i \in 1 .. Len(preds) : preds[i] \in DOMAIN prog
  OBVIOUS
<1>2. es = [i \in 1 .. Len(preds) |-> E(preds[i])] BY <1>1 DEF Pulls
<1>3. es \in [1 .. Len(preds) -> S] BY <1>1, <1>2
<1>4. es \in Seq(S) BY <1>1, <1>3
<1>5. DOMAIN es = 1 .. Len(preds) /\ \A i \in 1 .. Len(preds) : es[i] = E(preds[i]) BY <1>2
<1>6. \A p : E(p).pc = p /\ E(p).pending = n OBVIOUS
<1> HIDE DEF es, S, E
<1>7. IsList(es) BY <1>4, ListOf
<1>8. \A e \in Range(es) : e.pc \in DOMAIN prog /\ e.pending = n BY <1>1, <1>5, <1>6 DEF Range
<1>9. \A p \in Range(preds) : \E e \in Range(es) : e.pc = p /\ e.pending = n
  BY <1>1, <1>5, <1>6 DEF Range
<1> QED BY <1>7, <1>8, <1>9 DEF es

\* _resolve_lhs starts with every predecessor, or answers for the caller.
LEMMA ResolveLhsFine ==
  ASSUME prog \in Programs, NEW calls, Waiting(calls), NEW pc \in DOMAIN prog, NEW reg \in Reg,
         NEW depth, ResolveLhs(calls, pc, reg, depth),
         \/ dropped' \/ Excused(calls)
         \/ \A work, K : AllWork(calls) \subseteq work /\ AllKeys(calls) \subseteq K /\ Fed(work, K, pc, reg)
                           => Sourced(AllVisited(calls), work, K)
  PROVE  Fine(phase', frames', lhs', dropped')
<1>1. CASE PredSet(pc) = {}
  <2>1. Return(calls, FromCaller(reg)) BY <1>1 DEF ResolveLhs
  <2> DEFINE K == AllKeys(calls) \cup FromCaller(reg).keys
  <2>2. <<"caller", reg>> \in K BY DEF FromCaller, Answer
  <2>3. Fed(AllWork(calls), K, pc, reg) BY <1>1, <2>2 DEF Fed
  <2> HIDE DEF K
  <2>4. AllKeys(calls) \subseteq K BY DEF K
  <2>5. dropped' \/ Excused(calls) \/ Sourced(AllVisited(calls), AllWork(calls), K) BY <2>3, <2>4
  <2> QED BY <2>1, <2>5, ReturnFine DEF K
<1>2. CASE PredSet(pc) # {}
  <2>1. PICK preds \in Preds(pc) : Calls(calls, LhsFrame(Entries(preds, reg, <<>>), depth))
    BY <1>2 DEF ResolveLhs
  <2> DEFINE es == Entries(preds, reg, <<>>)
             f == LhsFrame(es, depth)
             work == AllWork(calls) \cup WorkOf(f)
             K == AllKeys(calls) \cup KeysOf(f)
  <2>2. preds \in Seq(DOMAIN prog) /\ Range(preds) = PredSet(pc) BY PredsAll
  <2>3. /\ IsList(es) /\ \A e \in Range(es) : e.pc \in DOMAIN prog /\ e.reg = reg
        /\ \A p \in PredSet(pc) : \E e \in Range(es) : e.pc = p /\ e.reg = reg
    BY <2>2, EntriesAll
  <2>4. f = [kind |-> "lhs", work |-> es, visited |-> {}, found |-> {}, steps |-> 0, depth |-> depth]
    BY DEF LhsFrame
  <2>5. Calls(calls, f) BY <2>1
  <2> HIDE DEF es, f
  <2>6. f.kind = "lhs" /\ f.work = es /\ f.visited = {} /\ f.found = {}
        /\ DOMAIN f = {"kind", "work", "visited", "found", "steps", "depth"}
    BY <2>4
  <2>7. IsFrame(f) BY <2>3, <2>6 DEF IsFrame, Entry
  <2>8. KeysOf(f) = {} /\ VisitedOf(f) = {} /\ ~Unknowing(f) BY <2>6 DEF KeysOf, VisitedOf, Unknowing
  <2>9. \A p \in PredSet(pc) : RegNode(p, reg) \in WorkOf(f) BY <2>3, <2>6 DEF WorkOf, Node
  <2>10. Fed(work, K, pc, reg) BY <1>2, <2>9 DEF Fed
  <2>11. AllVisited(calls) \cup VisitedOf(f) = AllVisited(calls) BY <2>8
  <2> HIDE DEF work, K
  <2>12. AllWork(calls) \subseteq work /\ AllKeys(calls) \subseteq K BY DEF work, K
  <2>13. dropped' \/ Excused(calls) \/ Sourced(AllVisited(calls) \cup VisitedOf(f), work, K)
    BY <2>10, <2>11, <2>12
  <2> QED BY <2>5, <2>7, <2>13, CallFine DEF work, K
<1> QED BY <1>1, <1>2

\* _resolve_pla_source starts with every predecessor, or gives up.
LEMMA ResolvePlaFine ==
  ASSUME prog \in Programs, NEW calls, Waiting(calls), NEW pc \in DOMAIN prog,
         NEW depth, ResolvePla(calls, pc, depth),
         \/ dropped' \/ Excused(calls)
         \/ \A work, K : AllWork(calls) \subseteq work /\ AllKeys(calls) \subseteq K /\ Lies(work, pc, 1)
                           => Sourced(AllVisited(calls), work, K)
  PROVE  Fine(phase', frames', lhs', dropped')
<1>1. CASE depth > MaxPlaDepth \/ PredSet(pc) = {}
  <2>1. Return(calls, Unknown) BY <1>1 DEF ResolvePla
  <2>2. Unknown.kind = "unknown" BY DEF Unknown, Answer
  <2> QED BY <2>1, <2>2, ReturnFine
<1>2. CASE ~(depth > MaxPlaDepth \/ PredSet(pc) = {})
  <2>1. PICK preds \in Preds(pc) : Calls(calls, PlaFrame(Pulls(preds, 1), depth))
    BY <1>2 DEF ResolvePla
  <2> DEFINE es == Pulls(preds, 1)
             f == PlaFrame(es, depth)
             work == AllWork(calls) \cup WorkOf(f)
             K == AllKeys(calls) \cup KeysOf(f)
  <2>2. preds \in Seq(DOMAIN prog) /\ Range(preds) = PredSet(pc) BY PredsAll
  <2>3. /\ IsList(es) /\ \A e \in Range(es) : e.pc \in DOMAIN prog /\ e.pending = 1
        /\ \A p \in PredSet(pc) : \E e \in Range(es) : e.pc = p /\ e.pending = 1
    BY <2>2, PullsAll
  <2>4. f = [kind |-> "pla", work |-> es, visited |-> {}, found |-> <<>>, steps |-> 0, depth |-> depth]
    BY DEF PlaFrame
  <2>5. Calls(calls, f) BY <2>1
  <2> HIDE DEF es, f
  <2>6. f.kind = "pla" /\ f.work = es /\ f.visited = {} /\ f.found = <<>>
        /\ DOMAIN f = {"kind", "work", "visited", "found", "steps", "depth"}
    BY <2>4
  <2>7. IsFrame(f) BY <2>3, <2>6, NoneLeft DEF IsFrame, Entry
  <2>8. VisitedOf(f) = {} BY <2>6 DEF VisitedOf
  <2>9. \A p \in PredSet(pc) : StkNode(p, 1) \in WorkOf(f) BY <2>3, <2>6 DEF WorkOf, Node
  <2>10. Lies(work, pc, 1) BY <1>2, <2>9 DEF Lies
  <2>11. AllVisited(calls) \cup VisitedOf(f) = AllVisited(calls) BY <2>8
  <2> HIDE DEF work, K
  <2>12. AllWork(calls) \subseteq work /\ AllKeys(calls) \subseteq K BY DEF work, K
  <2>13. dropped' \/ Excused(calls) \/ Sourced(AllVisited(calls) \cup VisitedOf(f), work, K)
    BY <2>10, <2>11, <2>12
  <2> QED BY <2>5, <2>7, <2>13, CallFine DEF work, K
<1> QED BY <1>1, <1>2

LEMMA PushFine ==
  ASSUME NEW w, Stepping(w), NEW entries, IsList(entries), \A e \in Range(entries) : Entry(Top, e),
         Push(Expanded(w), entries), dropped => dropped',
         \/ dropped'
         \/ \A V : Node(Top, w) \in V /\ (\A e \in Range(entries) : Node(Top, e) \in V) =>
              IF Top.kind = "lhs" THEN RegTold(V, AllKeys(frames), w.pc, w.reg)
                                  ELSE StkTold(V, AllKeys(frames), w.pc, w.pending)
  PROVE  Fine(phase', frames', lhs', dropped')
<1> DEFINE f == [Expanded(w) EXCEPT !.work = @ \o entries]
           vis == AllVisited(Below) \cup VisitedOf(f)
           work == AllWork(Below) \cup WorkOf(f)
           K == AllKeys(Below) \cup KeysOf(f)
<1>1. Calls(Below, f) BY DEF Push
<1> HIDE DEF f
<1>2. /\ IsFrame(f) /\ KeysOf(f) = KeysOf(Top) /\ Unknowing(f) = Unknowing(Top)
      /\ WorkOf(f) = WorkOf(Popped) \cup {Node(Top, e) : e \in Range(entries)}
      /\ VisitedOf(f) \subseteq VisitedOf(Top) \cup {Node(Top, w)}
  <2>1. f = [Expanded(w) EXCEPT !.work = @ \o entries] BY DEF f
  <2> QED BY <2>1, FrameFacts
<1>3. K = AllKeys(frames) BY <1>2, StepFacts
<1>4. vis \subseteq AllVisited(frames) \cup {Node(Top, w)} BY <1>2, StepFacts
<1>5. Rest \subseteq work /\ \A e \in Range(entries) : Node(Top, e) \in work BY <1>2 DEF Rest
<1> HIDE DEF vis, work, K
<1>6. ASSUME Sourced(AllVisited(frames), AllWork(frames), AllKeys(frames)), ~dropped'
      PROVE  Sourced(vis, work, K)
  <2>1. \A V : Node(Top, w) \in V /\ work \subseteq V =>
          IF Top.kind = "lhs" THEN RegTold(V, K, w.pc, w.reg) ELSE StkTold(V, K, w.pc, w.pending)
    BY <1>3, <1>5, <1>6
  <2> QED BY <1>3, <1>4, <1>5, <1>6, <2>1, WorkedOff
<1>7. dropped' \/ Excused(Below) \/ Unknowing(f) \/ Sourced(vis, work, K)
  BY <1>2, <1>6, StepFacts DEF Stepping
<1> QED BY <1>1, <1>2, <1>7, StepFacts, CallFine DEF vis, work, K

\* A register walk that leaves at once: nothing else was left or known.
LEMMA LeaveFine ==
  ASSUME NEW w, Stepping(w), Top.kind = "lhs", NEW r, Return(Below, r), dropped' = (dropped \/ Forgets),
         \A V, K : r.keys \subseteq K => RegTold(V, K, w.pc, w.reg)
  PROVE  Fine(phase', frames', lhs', dropped')
<1> DEFINE K == AllKeys(Below) \cup r.keys
<1>1. ASSUME ~dropped', Sourced(AllVisited(frames), AllWork(frames), AllKeys(frames))
      PROVE  Sourced(AllVisited(Below), AllWork(Below), K)
  <2>1. Popped.work = <<>> /\ Top.found = {} BY <1>1 DEF Forgets
  <2>2. WorkOf(Popped) = {} BY <2>1 DEF WorkOf, Range
  <2>3. KeysOf(Top) = {} BY <2>1 DEF KeysOf
  <2>4. Rest \subseteq AllWork(Below) /\ AllKeys(frames) \subseteq K BY <2>2, <2>3, StepFacts DEF Rest
  <2>5. AllVisited(Below) \subseteq AllVisited(frames) \cup {Node(Top, w)} BY StepFacts
  <2>6. \A V : Node(Top, w) \in V /\ AllWork(Below) \subseteq V =>
          IF Top.kind = "lhs" THEN RegTold(V, K, w.pc, w.reg) ELSE StkTold(V, K, w.pc, w.pending)
    OBVIOUS
  <2> HIDE DEF K
  <2> QED BY <1>1, <2>4, <2>5, <2>6, WorkedOff
<1>2. Unknowing(Top) = FALSE BY DEF Unknowing
<1>3. dropped' \/ Excused(Below) \/ Sourced(AllVisited(Below), AllWork(Below), K)
  BY <1>1, <1>2, StepFacts DEF Stepping
<1> QED BY <1>3, StepFacts, ReturnFine

LEMMA UnknownFine ==
  ASSUME NEW calls, Waiting(calls), Return(calls, Unknown) PROVE Fine(phase', frames', lhs', dropped')
BY ReturnFine DEF Unknown, Answer

\* A register walk that finds a source and goes on.
LEMMA NoteFine ==
  ASSUME NEW w, Stepping(w), Top.kind = "lhs", NEW s,
         Calls(Below, [Expanded(w) EXCEPT !.found = @ \cup {s}]), dropped' = dropped,
         \A V, K : s.key \in K => RegTold(V, K, w.pc, w.reg)
  PROVE  Fine(phase', frames', lhs', dropped')
<1> DEFINE f == [Expanded(w) EXCEPT !.found = @ \cup {s}]
           vis == AllVisited(Below) \cup VisitedOf(f)
           work == AllWork(Below) \cup WorkOf(f)
           K == AllKeys(Below) \cup KeysOf(f)
<1>1. IsFrame(Top) /\ IsList(Popped.work) /\ \A e \in Range(Popped.work) : Entry(Top, e) BY StepFacts
<1>2. /\ DOMAIN f = DOMAIN Top /\ f.kind = "lhs" /\ f.found = Top.found \cup {s}
      /\ f.work = Popped.work /\ f.visited = Top.visited \cup {Key(w)} /\ Popped.kind = "lhs"
  BY <1>1 DEF Popped, Expanded, IsFrame
<1> HIDE DEF f
<1>3. IsFrame(f) BY <1>1, <1>2 DEF IsFrame, Entry
<1>4. KeysOf(f) = KeysOf(Top) \cup {s.key} /\ Unknowing(f) = Unknowing(Top)
  BY <1>2 DEF KeysOf, Unknowing
<1>5. WorkOf(f) = WorkOf(Popped)
  <2>1. \A e : Node(f, e) = Node(Popped, e) BY <1>2 DEF Node
  <2> QED BY <1>2, <2>1 DEF WorkOf
<1>6. VisitedOf(f) = VisitedOf(Top) \cup {Node(Top, w)}
  <2>1. Key(w) = <<w.pc, w.reg>> /\ Node(Top, w) = RegNode(w.pc, w.reg) BY DEF Key, Node
  <2>2. VisitedOf(f) = {RegNode(v[1], v[2]) : v \in Top.visited \cup {Key(w)}} BY <1>2 DEF VisitedOf
  <2>3. VisitedOf(Top) = {RegNode(v[1], v[2]) : v \in Top.visited} BY DEF VisitedOf
  <2>4. Key(w)[1] = w.pc /\ Key(w)[2] = w.reg BY <2>1
  <2> QED BY <2>1, <2>2, <2>3, <2>4
<1>7. vis \subseteq AllVisited(frames) \cup {Node(Top, w)} BY <1>6, StepFacts
<1>8. Rest \subseteq work BY <1>5 DEF Rest
<1>9. AllKeys(frames) \subseteq K /\ s.key \in K BY <1>4, StepFacts
<1> HIDE DEF vis, work, K
<1>10. ASSUME Sourced(AllVisited(frames), AllWork(frames), AllKeys(frames)) PROVE Sourced(vis, work, K)
  <2>1. \A V : Node(Top, w) \in V /\ work \subseteq V =>
          IF Top.kind = "lhs" THEN RegTold(V, K, w.pc, w.reg) ELSE StkTold(V, K, w.pc, w.pending)
    BY <1>9
  <2> QED BY <1>7, <1>8, <1>9, <1>10, <2>1, WorkedOff
<1>11. dropped' \/ Excused(Below) \/ Unknowing(f) \/ Sourced(vis, work, K)
  BY <1>4, <1>10, StepFacts DEF Stepping
<1>12. Calls(Below, f) BY DEF f
<1> QED BY <1>3, <1>11, <1>12, StepFacts, CallFine DEF vis, work, K

LEMMA LoadFine ==
  ASSUME NEW w, Stepping(w), Top.kind = "lhs", Load(w) PROVE Fine(phase', frames', lhs', dropped')
<1> DEFINE s == [key |-> <<"var", Arg(w.pc)>>, chain |-> w.chain]
<1>1. Op(w.pc) \in Loaders[w.reg] /\ Calls(Below, [Expanded(w) EXCEPT !.found = @ \cup {s}])
      /\ dropped' = dropped
  BY DEF Load
<1>2. s.key = <<"var", Arg(w.pc)>> OBVIOUS
<1> HIDE DEF s
<1>3. \A V, K : s.key \in K => RegTold(V, K, w.pc, w.reg) BY <1>1, <1>2 DEF RegTold
<1> QED BY <1>1, <1>3, NoteFine

\* The entries for the predecessors carry the register on.
LEMMA FedByEntries ==
  ASSUME prog \in Programs, NEW pc \in DOMAIN prog, NEW preds \in Seq(DOMAIN prog), NEW reg, NEW chain,
         Top.kind = "lhs", NEW V, \A e \in Range(Entries(preds, reg, chain)) : Node(Top, e) \in V
  PROVE  \A p \in Range(preds) : RegNode(p, reg) \in V
BY EntriesAll DEF Node

LEMMA ThroughFine ==
  ASSUME NEW w, Stepping(w), Top.kind = "lhs", Through(w) PROVE Fine(phase', frames', lhs', dropped')
<1> DEFINE reg == IF Op(w.pc) = Transfer[w.reg] THEN Other[w.reg] ELSE w.reg
<1>1. PICK preds \in Preds(w.pc) : Push(Expanded(w), Entries(preds, reg, Append(w.chain, Op(w.pc))))
  BY DEF Through
<1>2. /\ Op(w.pc) \in Transforms[w.reg] \cup {Transfer[w.reg]}
      /\ dropped' = (dropped \/ PredSet(w.pc) = {})
  BY DEF Through
<1>3. w.pc \in DOMAIN prog /\ w.reg \in Reg /\ prog \in Programs BY StepFacts DEF Entry, Stepping
<1>4. reg \in Reg /\ (Op(w.pc) # Transfer[w.reg] => reg = w.reg) /\ (Op(w.pc) = Transfer[w.reg] => reg = Other[w.reg])
  BY <1>3 DEF Reg, Other
<1> HIDE DEF reg
<1> DEFINE es == Entries(preds, reg, Append(w.chain, Op(w.pc)))
<1>5. preds \in Seq(DOMAIN prog) /\ Range(preds) = PredSet(w.pc) BY <1>1, <1>3, PredsAll
<1>6. IsList(es) /\ \A e \in Range(es) : Entry(Top, e) BY <1>4, <1>5, EntriesAll DEF Entry
<1>7. ASSUME ~dropped', NEW V, \A e \in Range(es) : Node(Top, e) \in V
      PROVE  RegTold(V, AllKeys(frames), w.pc, w.reg)
  <2>1. Fed(V, AllKeys(frames), w.pc, reg) BY <1>2, <1>3, <1>5, <1>7, FedByEntries DEF Fed
  <2> QED BY <1>2, <1>4, <2>1 DEF RegTold
<1> HIDE DEF es
<1>8. Push(Expanded(w), es) BY <1>1 DEF es
<1> QED BY <1>2, <1>6, <1>7, <1>8, PushFine

LEMMA PassFine ==
  ASSUME NEW w, Stepping(w), Top.kind = "lhs", Pass(w) PROVE Fine(phase', frames', lhs', dropped')
<1>1. Op(w.pc) \in Neutral[w.reg] /\ dropped' = dropped BY DEF Pass
<1>2. w.pc \in DOMAIN prog /\ w.reg \in Reg /\ prog \in Programs BY StepFacts DEF Entry, Stepping
<1>3. CASE PredSet(w.pc) = {}
  <2> DEFINE s == [key |-> <<"caller", w.reg>>, chain |-> w.chain]
  <2>1. Calls(Below, [Expanded(w) EXCEPT !.found = @ \cup {s}]) BY <1>3 DEF Pass
  <2>2. s.key = <<"caller", w.reg>> OBVIOUS
  <2> HIDE DEF s
  <2>3. \A V, K : s.key \in K => RegTold(V, K, w.pc, w.reg) BY <1>1, <1>3, <2>2 DEF RegTold, Fed
  <2> QED BY <1>1, <2>1, <2>3, NoteFine
<1>4. CASE PredSet(w.pc) # {}
  <2>1. PICK preds \in OtherPreds(w.pc) : Push(Expanded(w), Entries(preds, w.reg, w.chain))
    BY <1>4 DEF Pass
  <2> DEFINE es == Entries(preds, w.reg, w.chain)
  <2>2. preds \in Seq(DOMAIN prog) /\ PredSet(w.pc) \ {w.pc} \subseteq Range(preds)
    BY <1>2, <2>1, PredsAll
  <2>3. IsList(es) /\ \A e \in Range(es) : Entry(Top, e) BY <1>2, <2>2, EntriesAll DEF Entry
  <2>4. ASSUME NEW V, Node(Top, w) \in V, \A e \in Range(es) : Node(Top, e) \in V
        PROVE  RegTold(V, AllKeys(frames), w.pc, w.reg)
    <3>1. RegNode(w.pc, w.reg) \in V BY <2>4 DEF Node
    <3>2. \A p \in Range(preds) : RegNode(p, w.reg) \in V BY <1>2, <2>2, <2>4, FedByEntries
    <3>3. Fed(V, AllKeys(frames), w.pc, w.reg) BY <1>4, <2>2, <3>1, <3>2 DEF Fed
    <3> QED BY <1>1, <3>3 DEF RegTold
  <2> HIDE DEF es
  <2>5. Push(Expanded(w), es) BY <2>1 DEF es
  <2> QED BY <1>1, <2>3, <2>4, <2>5, PushFine
<1> QED BY <1>3, <1>4

LEMMA PullFine ==
  ASSUME NEW w, Stepping(w), Top.kind = "lhs", Pull(w) PROVE Fine(phase', frames', lhs', dropped')
<1>1. /\ w.reg = "A" /\ Op(w.pc) = "PLA" /\ ResolvePla(Below, w.pc, Top.depth + 1)
      /\ dropped' = (dropped \/ Forgets)
  BY DEF Pull
<1>2. prog \in Programs /\ w.pc \in DOMAIN prog /\ Waiting(Below) BY StepFacts DEF Stepping
<1>3. ASSUME ~dropped', Sourced(AllVisited(frames), AllWork(frames), AllKeys(frames)),
             NEW work, NEW K, AllWork(Below) \subseteq work, AllKeys(Below) \subseteq K, Lies(work, w.pc, 1)
      PROVE  Sourced(AllVisited(Below), work, K)
  <2>1. Popped.work = <<>> /\ Top.found = {} BY <1>1, <1>3 DEF Forgets
  <2>2. WorkOf(Popped) = {} BY <2>1 DEF WorkOf, Range
  <2>3. KeysOf(Top) = {} BY <2>1 DEF KeysOf
  <2>4. Rest \subseteq work /\ AllKeys(frames) \subseteq K BY <1>3, <2>2, <2>3, StepFacts DEF Rest
  <2>5. AllVisited(Below) \subseteq AllVisited(frames) \cup {Node(Top, w)} BY StepFacts
  <2>6. ASSUME NEW V, work \subseteq V PROVE RegTold(V, K, w.pc, w.reg)
    <3>1. Lies(V, w.pc, 1) BY <1>3, <2>6, ToldMore
    <3> QED BY <1>1, <3>1 DEF RegTold
  <2> QED BY <1>3, <2>4, <2>5, <2>6, WorkedOff
<1>4. Unknowing(Top) = FALSE BY DEF Unknowing
<1>5. \/ dropped' \/ Excused(Below)
      \/ \A work, K : AllWork(Below) \subseteq work /\ AllKeys(Below) \subseteq K /\ Lies(work, w.pc, 1)
                        => Sourced(AllVisited(Below), work, K)
  <2>1. ASSUME ~dropped', ~Excused(Below)
        PROVE  Sourced(AllVisited(frames), AllWork(frames), AllKeys(frames))
    BY <1>1, <1>4, <2>1, StepFacts DEF Stepping
  <2> QED BY <1>3, <2>1
<1> QED BY <1>1, <1>2, <1>5, ResolvePlaFine

LEMMA LhsFine ==
  ASSUME NEW w, Stepping(w), LhsStep(w) PROVE Fine(phase', frames', lhs', dropped')
<1>1. Top.kind = "lhs" BY DEF LhsStep
<1>2. CASE Compute(w)
  <2>1. /\ w.reg = "A" /\ Op(w.pc) = "ADC" /\ dropped' = (dropped \/ Forgets)
        /\ Return(Below, Answer("computed_reg", {<<"computed", "A">>}, <<>>))
    BY <1>2 DEF Compute
  <2>2. \A V, K : {<<"computed", "A">>} \subseteq K => RegTold(V, K, w.pc, w.reg) BY <2>1 DEF RegTold
  <2>3. Answer("computed_reg", {<<"computed", "A">>}, <<>>).keys = {<<"computed", "A">>} BY DEF Answer
  <2> QED BY <1>1, <2>1, <2>2, <2>3, LeaveFine
<1>3. CASE CallReturns(w)
  <2> DEFINE k == {<<"return", Arg(w.pc), w.reg>>}
  <2>1. Op(w.pc) = "JSR" /\ dropped' = (dropped \/ Forgets) /\ Return(Below, Answer("jsr_return", k, <<>>))
    BY <1>3 DEF CallReturns
  <2>2. \A V, K : k \subseteq K => RegTold(V, K, w.pc, w.reg) BY <2>1 DEF RegTold
  <2>3. Answer("jsr_return", k, <<>>).keys = k BY DEF Answer
  <2> HIDE DEF k
  <2> QED BY <1>1, <2>1, <2>2, <2>3, LeaveFine
<1>4. CASE GiveUp(w) BY <1>4, StepFacts, UnknownFine DEF GiveUp
<1> QED BY <1>1, <1>2, <1>3, <1>4, LoadFine, ThroughFine, PassFine, PullFine DEF LhsStep

(***************************************************************************)
(* The walk back over the stack.                                           *)
(***************************************************************************)

LEMMA PushedFine ==
  ASSUME NEW w, Stepping(w), Top.kind = "pla", Pushed(w), dropped' = dropped
  PROVE  Fine(phase', frames', lhs', dropped')
<1> DEFINE f == Expanded(w)
           calls == Append(Below, f)
<1>1. Op(w.pc) = "PHA" /\ Pending(w) = 0 /\ ResolveLhs(calls, w.pc, "A", Top.depth + 1) BY DEF Pushed
<1>2. /\ prog \in Programs /\ w.pc \in DOMAIN prog /\ Waiting(Below) /\ IsFrame(Top) /\ "A" \in Reg
      /\ IsList(Popped.work) /\ \A e \in Range(Popped.work) : Entry(Top, e)
  BY StepFacts DEF Stepping, Reg
<1>3. /\ DOMAIN f = DOMAIN Top /\ f.kind = "pla" /\ f.found = Top.found /\ Popped.kind = "pla"
      /\ f.work = Popped.work /\ f.visited = Top.visited \cup {Key(w)}
  BY <1>2 DEF Popped, Expanded, IsFrame
<1> HIDE DEF f
<1>4. IsFrame(f) BY <1>2, <1>3 DEF IsFrame, Entry
<1>5. KeysOf(f) = KeysOf(Top) /\ Unknowing(f) = Unknowing(Top) BY <1>3 DEF KeysOf, Unknowing
<1>6. WorkOf(f) = WorkOf(Popped) BY <1>3 DEF WorkOf, Node
<1>7. VisitedOf(f) \subseteq VisitedOf(Top) \cup {Node(Top, w)}
  <2>1. Key(w) = <<w.pc, w.pending>> /\ Node(Top, w) = StkNode(w.pc, w.pending) BY DEF Key, Node
  <2>2. VisitedOf(f) = {StkNode(v[1], v[2]) : v \in Top.visited \cup {Key(w)}} BY <1>3 DEF VisitedOf
  <2>3. VisitedOf(Top) = {StkNode(v[1], v[2]) : v \in Top.visited} BY DEF VisitedOf
  <2>4. Key(w)[1] = w.pc /\ Key(w)[2] = w.pending BY <2>1
  <2> QED BY <2>1, <2>2, <2>3, <2>4
<1>8. IsList(Below) BY <1>2 DEF Waiting
<1>9. Waiting(calls) BY <1>2, <1>3, <1>4, <1>8, Appending DEF Waiting
<1>10. /\ AllWork(calls) = Rest /\ AllKeys(calls) = AllKeys(frames)
       /\ AllVisited(calls) \subseteq AllVisited(frames) \cup {Node(Top, w)}
       /\ Excused(calls) <=> Excused(frames)
  <2> HIDE DEF f
  <2>1. /\ AllWork(calls) = AllWork(Below) \cup WorkOf(f) /\ AllKeys(calls) = AllKeys(Below) \cup KeysOf(f)
        /\ AllVisited(calls) = AllVisited(Below) \cup VisitedOf(f)
        /\ Excused(calls) <=> Excused(Below) \/ Unknowing(f)
    BY <1>8, AppendAll
  <2> HIDE DEF calls
  <2> QED BY <1>5, <1>6, <1>7, <2>1, StepFacts DEF Rest
<1>11. Before(w.pc, w.pending) = 0 BY <1>1 DEF Before, Pending
<1> HIDE DEF calls
<1>12. ASSUME Sourced(AllVisited(frames), AllWork(frames), AllKeys(frames)),
              NEW work, NEW K, AllWork(calls) \subseteq work, AllKeys(calls) \subseteq K, Fed(work, K, w.pc, "A")
       PROVE  Sourced(AllVisited(calls), work, K)
  <2>1. ASSUME NEW V, work \subseteq V PROVE StkTold(V, K, w.pc, w.pending)
    <3>1. Fed(V, K, w.pc, "A") BY <1>12, <2>1, ToldMore
    <3> QED BY <1>1, <1>11, <3>1 DEF StkTold
  <2> QED BY <1>10, <1>12, <2>1, WorkedOff
<1>13. \/ dropped' \/ Excused(calls)
       \/ \A work, K : AllWork(calls) \subseteq work /\ AllKeys(calls) \subseteq K /\ Fed(work, K, w.pc, "A")
                         => Sourced(AllVisited(calls), work, K)
  BY <1>10, <1>12 DEF Stepping
<1> QED BY <1>1, <1>2, <1>9, <1>13, ResolveLhsFine

LEMMA BalanceFine ==
  ASSUME NEW w, Stepping(w), Top.kind = "pla", Balance(w), dropped' = dropped
  PROVE  Fine(phase', frames', lhs', dropped')
<1> DEFINE n == Pending(w)
<1>1. n # 0 /\ Op(w.pc) \notin {"TXS", "TSX"} /\ PredSet(w.pc) # {} BY DEF Balance
<1>2. w.pc \in DOMAIN prog /\ w.pending \in Nat \ {0} /\ prog \in Programs
  BY StepFacts DEF Entry, Stepping
<1>3. n \in Nat \ {0} /\ n = Before(w.pc, w.pending) BY <1>1, <1>2 DEF Before, Pending
<1> HIDE DEF n
<1>4. PICK preds \in Preds(w.pc) : Push(Expanded(w), Pulls(preds, n)) BY DEF Balance, n
<1>5. preds \in Seq(DOMAIN prog) /\ Range(preds) = PredSet(w.pc) BY <1>2, <1>4, PredsAll
<1> DEFINE es == Pulls(preds, n)
<1>6. /\ IsList(es) /\ \A e \in Range(es) : Entry(Top, e)
      /\ \A p \in PredSet(w.pc) : \E e \in Range(es) : e.pc = p /\ e.pending = n
  BY <1>3, <1>5, PullsAll DEF Entry
<1> HIDE DEF es
<1>7. ASSUME NEW V, \A e \in Range(es) : Node(Top, e) \in V
      PROVE  StkTold(V, AllKeys(frames), w.pc, w.pending)
  <2>1. \A p \in PredSet(w.pc) : StkNode(p, n) \in V BY <1>6, <1>7 DEF Node
  <2>2. Lies(V, w.pc, n) BY <1>1, <2>1 DEF Lies
  <2> QED BY <1>1, <1>3, <2>2 DEF StkTold
<1>8. Push(Expanded(w), es) BY <1>4 DEF es
<1> QED BY <1>6, <1>7, <1>8, PushFine

LEMMA PlaFine ==
  ASSUME NEW w, Stepping(w), PlaStep(w) PROVE Fine(phase', frames', lhs', dropped')
<1>1. Top.kind = "pla" /\ dropped' = dropped BY DEF PlaStep
<1>2. CASE Unmatched(w) BY <1>2, StepFacts, UnknownFine DEF Unmatched
<1> QED BY <1>1, <1>2, PushedFine, BalanceFine DEF PlaStep

(***************************************************************************)
(* The end of a walk.                                                      *)
(***************************************************************************)

\* Answers that agree name the same sources, and never hide an unknown one.
LEMMA AgreedFacts ==
  ASSUME NEW found, IsList(found), ~(Cardinality({r.keys : r \in Range(found)}) > 1),
         Agreed(found).kind # "unknown"
  PROVE  /\ \A r \in Range(found) : r.keys = Agreed(found).keys
         /\ Agreed(found) \in Range(found)
         /\ \A r \in Range(found) : r.kind # "unknown"
<1> DEFINE n == Len(found)
           KS == {r.keys : r \in Range(found)}
           AS == {AnswerKey(found[i]) : i \in DOMAIN found}
<1>1. found # <<>> /\ Cardinality(AS) = 1 /\ Agreed(found) = Head(found)
  BY DEF Agreed, Unknown, Answer
<1>2. n \in Nat /\ n >= 1 /\ DOMAIN found = 1 .. n /\ Head(found) = found[1]
  BY <1>1 DEF IsList
<1>3. Agreed(found) \in Range(found) BY <1>1, <1>2 DEF Range
<1>4. IsFiniteSet(1 .. n) BY <1>2, FS_Interval
<1>5. ASSUME NEW T, NEW g \in [1 .. n -> T], \A t \in T : \E i \in 1 .. n : g[i] = t
      PROVE  IsFiniteSet(T)
  <2>1. g \in Surjection(1 .. n, T) BY <1>5 DEF Surjection
  <2> QED BY <1>4, <2>1, FS_Surjection
<1>6. IsFiniteSet(KS)
  <2> DEFINE g == [i \in 1 .. n |-> found[i].keys]
  <2>1. g \in [1 .. n -> KS] /\ \A t \in KS : \E i \in 1 .. n : g[i] = t BY <1>2 DEF Range
  <2> HIDE DEF g, KS
  <2> QED BY <1>5, <2>1
<1>7. IsFiniteSet(AS)
  <2> DEFINE g == [i \in 1 .. n |-> AnswerKey(found[i])]
  <2>1. g \in [1 .. n -> AS] /\ \A t \in AS : \E i \in 1 .. n : g[i] = t BY <1>2
  <2> HIDE DEF g, AS
  <2> QED BY <1>5, <2>1
<1>8. \A S : IsFiniteSet(S) /\ ~(Cardinality(S) > 1) => \A a, b \in S : a = b
  <2> SUFFICES ASSUME NEW S, IsFiniteSet(S), ~(Cardinality(S) > 1), NEW a \in S, NEW b \in S, a # b
               PROVE  FALSE
    OBVIOUS
  <2>1. Cardinality(S) \in Nat BY FS_CardinalityType
  <2>2. IsFiniteSet(S \ {a}) /\ Cardinality(S \ {a}) = Cardinality(S) - 1 BY FS_RemoveElement
  <2>3. Cardinality(S \ {a}) # 0 BY <2>2, FS_EmptySet
  <2>4. Cardinality(S \ {a}) \in Nat BY <2>2, FS_CardinalityType
  <2> QED BY <2>1, <2>2, <2>3, <2>4
<1>9. \A r \in Range(found) : r.keys = Agreed(found).keys
  <2>1. \A r \in Range(found) : r.keys \in KS OBVIOUS
  <2> HIDE DEF KS
  <2> QED BY <1>3, <1>6, <1>8, <2>1 DEF KS
<1>10. ASSUME NEW r \in Range(found), r.kind = "unknown" PROVE FALSE
  <2>1. AnswerKey(r) = <<"unknown">> BY <1>10 DEF AnswerKey
  <2>2. AnswerKey(r) \in AS /\ AnswerKey(Agreed(found)) \in AS BY <1>1, <1>2 DEF Range
  <2>3. AnswerKey(Agreed(found)) = <<"unknown">> BY <1>1, <1>7, <1>8, <2>1, <2>2
  <2>4. AnswerKey(Agreed(found)) = <<"multi_source">>
        \/ AnswerKey(Agreed(found)) = <<Agreed(found).kind, Agreed(found).keys>>
    BY DEF AnswerKey
  <2> QED BY <2>3, <2>4
<1> QED BY <1>3, <1>9, <1>10

LEMMA EndFine ==
  ASSUME prog \in Programs, Walks(frames), EndWalk,
         dropped \/ Excused(frames) \/ Sourced(AllVisited(frames), AllWork(frames), AllKeys(frames))
  PROVE  Fine(phase', frames', lhs', dropped')
<1> DEFINE r == IF Top.kind = "lhs" THEN Combined(Top.found) ELSE Agreed(Top.found)
<1>1. /\ Top.work = <<>> /\ Return(Below, r)
      /\ dropped' = (dropped \/ (Top.kind = "pla" /\ Cardinality({s.keys : s \in Range(Top.found)}) > 1))
  BY DEF EndWalk
<1>2. Waiting(Below) /\ IsFrame(Top) /\ IsList(frames) /\ frames # <<>> BY DEF Walks, Below, Top
<1>3. /\ AllWork(frames) = AllWork(Below) \cup WorkOf(Top)
      /\ AllVisited(frames) = AllVisited(Below) \cup VisitedOf(Top)
      /\ AllKeys(frames) = AllKeys(Below) \cup KeysOf(Top)
      /\ Excused(frames) <=> Excused(Below) \/ Unknowing(Top)
  BY <1>2, PopAll DEF Below, Top
<1>4. WorkOf(Top) = {} BY <1>1 DEF WorkOf, Range
<1>5. dropped' \/ r.kind = "unknown" \/ (KeysOf(Top) \subseteq r.keys /\ ~Unknowing(Top))
  <2>1. CASE Top.kind = "lhs"
    <3> DEFINE ks == {s.key : s \in Top.found}
    <3>1. r = Combined(Top.found) /\ KeysOf(Top) = ks /\ ~Unknowing(Top) BY <2>1 DEF KeysOf, Unknowing
    <3> HIDE DEF r
    <3>2. CASE ks = {}
      <4>0. ~(Cardinality(ks) > 1)
        <5> HIDE DEF ks
        <5>1. Cardinality(ks) = 0 BY <3>2, FS_EmptySet
        <5> QED BY <5>1
      <4>1. Combined(Top.found) = Unknown BY <3>2, <4>0 DEF Combined
      <4> QED BY <3>1, <4>1 DEF Unknown, Answer
    <3>3. CASE ks # {} /\ Cardinality(ks) > 1
      <4>1. Combined(Top.found) = Answer("multi_source", ks, <<>>) BY <3>3 DEF Combined
      <4> QED BY <3>1, <4>1 DEF Answer
    <3>4. CASE ks # {} /\ ~(Cardinality(ks) > 1)
      <4>1. \E kind, chain : Combined(Top.found) = Answer(kind, ks, chain) BY <3>4 DEF Combined
      <4> QED BY <3>1, <4>1 DEF Answer
    <3> QED BY <3>2, <3>3, <3>4
  <2>2. CASE Top.kind # "lhs"
    <3>1. r = Agreed(Top.found) /\ Top.kind = "pla" /\ IsList(Top.found) BY <1>2, <2>2 DEF IsFrame
    <3> HIDE DEF r
    <3>2. ASSUME ~dropped', r.kind # "unknown" PROVE KeysOf(Top) \subseteq r.keys /\ ~Unknowing(Top)
      <4>1. /\ \A s \in Range(Top.found) : s.keys = r.keys
            /\ \A s \in Range(Top.found) : s.kind # "unknown"
        BY <1>1, <3>1, <3>2, AgreedFacts
      <4> QED BY <2>2, <4>1 DEF KeysOf, Unknowing
    <3> QED BY <3>2
  <2> QED BY <2>1, <2>2
<1> HIDE DEF r
<1>6. ASSUME Sourced(AllVisited(frames), AllWork(frames), AllKeys(frames)), KeysOf(Top) \subseteq r.keys
      PROVE  Sourced(AllVisited(Below), AllWork(Below), AllKeys(Below) \cup r.keys)
  <2> DEFINE K == AllKeys(Below) \cup r.keys
  <2>1. AllKeys(frames) \subseteq K BY <1>3, <1>6
  <2> HIDE DEF K
  <2>2. AllWork(frames) \subseteq AllWork(Below) \cup AllVisited(frames) BY <1>3, <1>4
  <2>3. AllVisited(Below) \subseteq AllVisited(frames) BY <1>3
  <2>4. Sourced(AllVisited(Below), AllWork(Below), K) BY <1>6, <2>1, <2>2, <2>3, SourcedKept
  <2> QED BY <2>4 DEF K
<1>7. \/ dropped' \/ Excused(Below) \/ r.kind = "unknown"
      \/ Sourced(AllVisited(Below), AllWork(Below), AllKeys(Below) \cup r.keys)
  BY <1>1, <1>3, <1>5, <1>6
<1> QED BY <1>1, <1>2, <1>7, ReturnFine

(***************************************************************************)
(* The whole analysis.                                                     *)
(***************************************************************************)

\* Every state of the walk is Fine, and so is the answer to a setter that asks.
Analysed == phase = "walk" \/ (phase = "done" /\ Asks) => Fine(phase, frames, lhs, dropped)

\* Fine of the new state, read in the new state.
LEMMA FineLater ==
  ASSUME prog' = prog, setter' = setter, Fine(phase', frames', lhs', dropped')
  PROVE  Fine(phase, frames, lhs, dropped)'
<1>1. Walks(frames)' <=> Walks(frames') BY DEF Walks, Waiting, IsFrame, Entry
<1>2. /\ \A p : PredSet(p)' = PredSet(p) /\ Op(p)' = Op(p) /\ Arg(p)' = Arg(p)
  BY DEF PredSet, JumpsTo, FallIn, Op, Arg
<1>3. /\ \A V, K, p, reg : Fed(V, K, p, reg)' <=> Fed(V, K, p, reg)
      /\ \A V, p, n : Lies(V, p, n)' <=> Lies(V, p, n)
  BY <1>2 DEF Fed, Lies
<1>4. /\ \A V, K, p, reg : RegTold(V, K, p, reg)' <=> RegTold(V, K, p, reg)
      /\ \A V, K, p, n : StkTold(V, K, p, n)' <=> StkTold(V, K, p, n)
  BY <1>2, <1>3 DEF RegTold, StkTold, Before
<1>5. \A V, W, K : Explained(V, W, K)' <=> Explained(V, W, K) BY <1>4 DEF Explained
<1>6. \A V, K : Main(V, K)' <=> Main(V, K) BY <1>2, <1>3 DEF Main
<1>7. \A v, w, K : Sourced(v, w, K)' <=> Sourced(v, w, K) BY <1>5, <1>6 DEF Sourced
<1> QED BY <1>1, <1>7 DEF Fine, AllWork, AllVisited, AllKeys, Excused, Unknowing, WorkOf, VisitedOf,
  KeysOf, Node

\* The walk starts with the value the setter tests.
LEMMA FoundFine ==
  ASSUME Between, setter # 0, Found, Asks
  PROVE  Fine(phase', frames', lhs', dropped')
<1>1. prog \in Programs /\ setter \in DOMAIN prog
  <2>1. prog \in Programs /\ branch \in DOMAIN prog /\ setter \in 0 .. branch - 1 BY DEF Between
  <2> QED BY <2>1, Addresses
<1>2. Waiting(<<>>) BY NoneLeft DEF Waiting, Range
<1>3. ASSUME NEW work, NEW K, Main(work, K) PROVE Sourced(AllVisited(<<>>), work, K)
  <2> DEFINE V == {}
  <2>1. AllVisited(<<>>) \subseteq V /\ Explained(V, V \cup work, K) /\ Main(V \cup work, K)
    BY <1>3, NoneLeft DEF Explained
  <2> QED BY <2>1 DEF Sourced
<1>4. CASE Op(setter) = "PLA"
  <2>1. ResolvePla(<<>>, setter, 0) BY <1>4 DEF Found, WalkReg, Named
  <2>2. \A work, K : Lies(work, setter, 1) => Main(work, K) BY <1>4 DEF Main
  <2> QED BY <1>1, <1>2, <1>3, <2>1, <2>2, ResolvePlaFine
<1>5. CASE Op(setter) # "PLA"
  <2> DEFINE reg == WalkReg(Op(setter))
  <2>1. reg \in Reg /\ Op(setter) # "JSR" BY <1>5 DEF Asks, WalkReg, Reg
  <2>2. Op(setter) \notin Named BY <1>5 DEF Asks, WalkReg, Named
  <2>3. reg # "" BY <1>5 DEF Asks
  <2> HIDE DEF reg
  <2>4. ResolveLhs(<<>>, setter, WalkReg(Op(setter)), 0) BY <1>5, <2>1, <2>2, <2>3 DEF Found, reg
  <2>5. \A work, K : Fed(work, K, setter, reg) => Main(work, K) BY <1>5 DEF Main, reg
  <2>6. ResolveLhs(<<>>, setter, reg, 0) BY <2>4 DEF reg
  <2> QED BY <1>1, <1>2, <1>3, <2>1, <2>5, <2>6, ResolveLhsFine
<1> QED BY <1>4, <1>5

LEMMA WalkFine ==
  ASSUME Between, Analysed, Walk
  PROVE  Fine(phase', frames', lhs', dropped')
<1>1. /\ prog \in Programs /\ phase = "walk" /\ Walks(frames)
      /\ dropped \/ Excused(frames) \/ Sourced(AllVisited(frames), AllWork(frames), AllKeys(frames))
  BY DEF Between, Analysed, Walk, Fine
<1>2. CASE EndWalk BY <1>1, <1>2, EndFine
<1>3. CASE OutOfSteps
  <2>1. Waiting(Below) BY <1>1 DEF Walks, Below
  <2> QED BY <1>3, <2>1, UnknownFine DEF OutOfSteps
<1>4. CASE Top.work # <<>> /\ LET w == Last(Top.work) IN Revisit(w) \/ LhsStep(w) \/ PlaStep(w)
  <2> DEFINE w == Last(Top.work)
  <2>1. Stepping(w) /\ (Revisit(w) \/ LhsStep(w) \/ PlaStep(w)) BY <1>1, <1>4 DEF Stepping
  <2> HIDE DEF w
  <2> QED BY <2>1, RevisitFine, LhsFine, PlaFine
<1> QED BY <1>2, <1>3, <1>4 DEF Walk

LEMMA AnalysedStep ==
  ASSUME Between, Analysed, [Next]_allVars
  PROVE  Analysed'
<1>1. CASE Analyze
  <2>1. prog' = prog /\ branch' = branch BY <1>1 DEF Analyze
  <2>2. CASE FindSetter /\ Skip BY <2>2 DEF FindSetter, Skip, Analysed
  <2>3. CASE FindSetter /\ NoSetter BY <2>3 DEF FindSetter, NoSetter, Analysed, Asks
  <2>4. CASE FindSetter /\ Found
    <3>1. setter' = setter /\ setter # 0 BY <2>4 DEF FindSetter, Found
    <3>2. Asks' <=> Asks BY <2>1, <3>1 DEF Asks, Op
    <3>3. phase' = "walk" => Asks
      <4>1. ASSUME ~Asks PROVE \E r : Return(<<>>, r)
        <5>1. Op(setter) # "PLA" /\ WalkReg(Op(setter)) = "" BY <3>1, <4>1 DEF Asks
        <5> QED BY <2>4, <5>1 DEF Found
      <4> QED BY <4>1 DEF Return
    <3>4. Asks => Fine(phase', frames', lhs', dropped') BY <2>4, <3>1, FoundFine
    <3> QED BY <2>1, <3>1, <3>2, <3>3, <3>4, FineLater DEF Analysed
  <2>5. CASE Walk
    <3>1. setter' = setter BY <2>5 DEF Walk
    <3> QED BY <2>1, <2>5, <3>1, WalkFine, FineLater DEF Analysed
  <2> QED BY <1>1, <2>2, <2>3, <2>4, <2>5 DEF Analyze, FindSetter
<1>2. CASE UNCHANGED vars
  <2>1. /\ prog' = prog /\ setter' = setter /\ phase' = phase /\ frames' = frames /\ lhs' = lhs
        /\ dropped' = dropped
    BY <1>2 DEF vars
  <2>2. Asks' <=> Asks BY <2>1 DEF Asks, Op
  <2> HIDE DEF Fine
  <2> QED BY <2>1, <2>2, FineLater DEF Analysed
<1> QED BY <1>1, <1>2 DEF Next, Execute, allVars, vars

(***************************************************************************)
(* The execution: what an explained node claims is so.                     *)
(***************************************************************************)

\* The source of the n-th byte from the top is in K; what is not on the stack
\* was pushed before the routine was entered.
Owns(pushed, n, K) ==
  IF n <= Len(pushed) THEN pushed[Len(pushed) + 1 - n].key \in K ELSE <<"below">> \in K

\* A claim that explains itself holds where the execution is.
Borne(V, K) ==
  at \in DOMAIN prog =>
    /\ \A reg \in Reg : Fed(V, K, at, reg) => regs[reg].key \in K
    /\ \A n \in Nat \ {0} : Lies(V, at, n) => Owns(stack, n, K)

IsValue(v) == DOMAIN v = {"key", "chain"}
Values ==
  /\ IsList(stack) /\ \A v \in Range(stack) : IsValue(v)
  /\ DOMAIN regs = Reg /\ \A reg \in Reg : IsValue(regs[reg])

Running ==
  /\ Values
  /\ at = 0 => stack = <<>> /\ \A reg \in Reg : regs[reg] = Value(<<"caller", reg>>)
  /\ phase = "done" => \A V, K : Explained(V, V, K) /\ Overlooked \subseteq K => Borne(V, K)

\* What an instruction leaves in the registers.
Leaves(after) ==
  LET op == Op(at) IN
  /\ DOMAIN after = Reg
  /\ \A reg \in Reg :
       /\ op \in Loaders[reg] => after[reg] = Value(<<"var", Arg(at)>>)
       /\ op \in Transforms[reg] => after[reg] = Through1(regs[reg])
       /\ op = Transfer[reg] => after[reg] = Through1(regs[Other[reg]])
       /\ op \in Neutral[reg] => after[reg] = regs[reg]
       /\ op = "JSR" => after[reg] = Value(<<"return", Arg(at), reg>>)
  /\ op = "ADC" => after["A"] = Value(<<"computed", "A">>)
  /\ op = "PLA" => after["A"] = Pulled
  /\ \A reg \in Reg :
       \/ \E key : after[reg] = Value(key)
       \/ after[reg] = Pulled
       \/ \E r \in Reg : after[reg] = regs[r] \/ after[reg] = Through1(regs[r])

LEMMA RegsFacts ==
  ASSUME DOMAIN regs = Reg
  PROVE  Leaves(RegsAfter)
<1> DEFINE op == Op(at)
<1>1. Reg = {"A", "X"} BY DEF Reg
<1>2. CASE op = "LDA"
  <2>1. RegsAfter = [regs EXCEPT !["A"] = Value(<<"var", Arg(at)>>)] BY <1>2 DEF RegsAfter
  <2> QED
    BY <1>1, <1>2, <2>1 DEF Leaves, Loaders, Transforms, Transfer, Other, Neutral, NeutralToBoth, Branches
<1>3. CASE op = "LDX"
  <2>1. RegsAfter = [regs EXCEPT !["X"] = Value(<<"var", Arg(at)>>)] BY <1>3 DEF RegsAfter
  <2> QED
    BY <1>1, <1>3, <2>1 DEF Leaves, Loaders, Transforms, Transfer, Other, Neutral, NeutralToBoth, Branches
<1>4. CASE op = "LAX"
  <2>1. RegsAfter = [r \in Reg |-> Value(<<"var", Arg(at)>>)] BY <1>4 DEF RegsAfter
  <2> QED
    BY <1>1, <1>4, <2>1 DEF Leaves, Loaders, Transforms, Transfer, Other, Neutral, NeutralToBoth, Branches
<1>5. CASE op \in {"AND", "ASL"}
  <2>1. RegsAfter = [regs EXCEPT !["A"] = Through1(regs["A"])] BY <1>5 DEF RegsAfter
  <2> QED
    BY <1>1, <1>5, <2>1 DEF Leaves, Loaders, Transforms, Transfer, Other, Neutral, NeutralToBoth, Branches
<1>6. CASE op = "INX"
  <2>1. RegsAfter = [regs EXCEPT !["X"] = Through1(regs["X"])] BY <1>6 DEF RegsAfter
  <2> QED
    BY <1>1, <1>6, <2>1 DEF Leaves, Loaders, Transforms, Transfer, Other, Neutral, NeutralToBoth, Branches
<1>7. CASE op = "ADC"
  <2>1. RegsAfter = [regs EXCEPT !["A"] = Value(<<"computed", "A">>)] BY <1>7 DEF RegsAfter
  <2> QED
    BY <1>1, <1>7, <2>1 DEF Leaves, Loaders, Transforms, Transfer, Other, Neutral, NeutralToBoth, Branches
<1>8. CASE op = "TXA"
  <2>1. RegsAfter = [regs EXCEPT !["A"] = Through1(regs["X"])] BY <1>8 DEF RegsAfter
  <2> QED
    BY <1>1, <1>8, <2>1 DEF Leaves, Loaders, Transforms, Transfer, Other, Neutral, NeutralToBoth, Branches
<1>9. CASE op = "TAX"
  <2>1. RegsAfter = [regs EXCEPT !["X"] = Through1(regs["A"])] BY <1>9 DEF RegsAfter
  <2> QED
    BY <1>1, <1>9, <2>1 DEF Leaves, Loaders, Transforms, Transfer, Other, Neutral, NeutralToBoth, Branches
<1>10. CASE op = "TSX"
  <2> DEFINE v == Value(<<"stack pointer">>)
  <2>1. RegsAfter = [regs EXCEPT !["X"] = v] BY <1>10 DEF RegsAfter
  <2>2. \E key : v = Value(key) OBVIOUS
  <2> HIDE DEF v
  <2> QED
    BY <1>1, <1>10, <2>1, <2>2 DEF Leaves, Loaders, Transforms, Transfer, Other, Neutral, NeutralToBoth, Branches
<1>11. CASE op = "PLA"
  <2>1. RegsAfter = [regs EXCEPT !["A"] = Pulled] BY <1>11 DEF RegsAfter
  <2> QED
    BY <1>1, <1>11, <2>1 DEF Leaves, Loaders, Transforms, Transfer, Other, Neutral, NeutralToBoth, Branches
<1>12. CASE op = "JSR"
  <2>1. RegsAfter = [r \in Reg |-> Value(<<"return", Arg(at), r>>)] BY <1>12 DEF RegsAfter
  <2> QED
    BY <1>1, <1>12, <2>1 DEF Leaves, Loaders, Transforms, Transfer, Other, Neutral, NeutralToBoth, Branches
<1>13. CASE op \notin {"LDA", "LDX", "LAX", "AND", "ASL", "INX", "ADC", "TXA", "TAX", "TSX", "PLA", "JSR"}
  <2>1. RegsAfter = regs BY <1>13 DEF RegsAfter
  <2> QED
    BY <1>1, <1>13, <2>1 DEF Leaves, Loaders, Transforms, Transfer, Other, Neutral, NeutralToBoth, Branches
<1> QED BY <1>2, <1>3, <1>4, <1>5, <1>6, <1>7, <1>8, <1>9, <1>10, <1>11, <1>12, <1>13

LEMMA ValueKeys ==
  /\ \A key : IsValue(Value(key)) /\ Value(key).key = key
  /\ \A v : IsValue(v) => IsValue(Through1(v)) /\ Through1(v).key = v.key
<1>1. \A key : IsValue(Value(key)) /\ Value(key).key = key BY DEF IsValue, Value
<1>2. ASSUME NEW v, IsValue(v) PROVE IsValue(Through1(v)) /\ Through1(v).key = v.key
  <2>1. DOMAIN v = {"key", "chain"} BY <1>2 DEF IsValue
  <2> QED BY <2>1 DEF IsValue, Through1
<1> QED BY <1>1, <1>2

LEMMA PulledKey ==
  ASSUME Values, NEW K, Owns(stack, 1, K)
  PROVE  Pulled.key \in K
<1> DEFINE m == Len(stack)
<1>1. m \in Nat /\ IsList(stack) BY DEF Values, IsList
<1>2. CASE stack = <<>>
  <2>1. m = 0 /\ ~(1 <= 0) BY <1>2
  <2>2. <<"below">> \in K BY <2>1 DEF Owns
  <2> QED BY <1>2, <2>2, ValueKeys DEF Pulled
<1>3. CASE stack # <<>>
  <2>1. m >= 1 /\ Last(stack) = stack[m] BY <1>1, <1>3, Popping
  <2>2. 1 <= m /\ m + 1 - 1 = m BY <1>1, <2>1
  <2> HIDE DEF m
  <2>3. stack[m].key \in K BY <2>2 DEF Owns, m
  <2> QED BY <1>3, <2>1, <2>3 DEF Pulled
<1> QED BY <1>2, <1>3

\* A register holds what the told node claims, once the instruction has run.
LEMMA RegsBorne ==
  ASSUME prog \in Programs, Values, at \in DOMAIN prog, NEW V, NEW K, Borne(V, K),
         NEW reg \in Reg, RegTold(V, K, at, reg)
  PROVE  RegsAfter[reg].key \in K
<1>1. Leaves(RegsAfter) BY RegsFacts DEF Values
<1>2. \A r \in Reg : IsValue(regs[r]) /\ (Fed(V, K, at, r) => regs[r].key \in K) BY DEF Values, Borne
<1>3. Other[reg] \in Reg BY DEF Other, Reg
<1>4. CASE Op(at) \in Loaders[reg] /\ <<"var", Arg(at)>> \in K
  <2>1. RegsAfter[reg] = Value(<<"var", Arg(at)>>) BY <1>1, <1>4 DEF Leaves
  <2> QED BY <1>4, <2>1, ValueKeys
<1>5. CASE Op(at) \in Transforms[reg] /\ Fed(V, K, at, reg)
  <2>1. RegsAfter[reg] = Through1(regs[reg]) BY <1>1, <1>5 DEF Leaves
  <2> QED BY <1>2, <1>5, <2>1, ValueKeys
<1>6. CASE Op(at) \in Neutral[reg] /\ Fed(V, K, at, reg)
  <2>1. RegsAfter[reg] = regs[reg] BY <1>1, <1>6 DEF Leaves
  <2> QED BY <1>2, <1>6, <2>1
<1>7. CASE Op(at) = Transfer[reg] /\ Fed(V, K, at, Other[reg])
  <2>1. RegsAfter[reg] = Through1(regs[Other[reg]]) BY <1>1, <1>7 DEF Leaves
  <2> QED BY <1>2, <1>3, <1>7, <2>1, ValueKeys
<1>8. CASE reg = "A" /\ Op(at) = "ADC" /\ <<"computed", "A">> \in K
  <2>1. RegsAfter[reg] = Value(<<"computed", "A">>) BY <1>1, <1>8 DEF Leaves
  <2> QED BY <1>8, <2>1, ValueKeys
<1>9. CASE reg = "A" /\ Op(at) = "PLA" /\ Lies(V, at, 1)
  <2>1. Owns(stack, 1, K) BY <1>9 DEF Borne
  <2>2. RegsAfter[reg] = Pulled BY <1>1, <1>9 DEF Leaves
  <2> QED BY <2>1, <2>2, PulledKey
<1>10. CASE Op(at) = "JSR" /\ <<"return", Arg(at), reg>> \in K
  <2>1. RegsAfter[reg] = Value(<<"return", Arg(at), reg>>) BY <1>1, <1>10 DEF Leaves
  <2> QED BY <1>10, <2>1, ValueKeys
<1> QED BY <1>4, <1>5, <1>6, <1>7, <1>8, <1>9, <1>10 DEF RegTold

\* So does a byte on the stack.
LEMMA StackBorne ==
  ASSUME prog \in Programs, Values, at \in DOMAIN prog, NEW V, NEW K, Borne(V, K),
         NEW n \in Nat \ {0}, StkTold(V, K, at, n)
  PROVE  Owns(StackAfter, n, K)
<1> DEFINE op == Op(at)
           m == Len(stack)
           S == Range(stack)
<1>1. /\ m \in Nat /\ IsList(stack) /\ stack \in Seq(S) /\ DOMAIN stack = 1 .. m
      /\ \A v \in S : IsValue(v)
  BY DEF Values, IsList
<1>2. \A k \in Nat \ {0} :
        Lies(V, at, k) => IF k <= m THEN stack[m + 1 - k].key \in K ELSE <<"below">> \in K
  BY DEF Borne, Owns
<1>7. \A pushed : Owns(pushed, n, K) <=>
        IF n <= Len(pushed) THEN pushed[Len(pushed) + 1 - n].key \in K ELSE <<"below">> \in K
  BY DEF Owns
<1>3. CASE op = "PHA" /\ Before(at, n) = 0 /\ Fed(V, K, at, "A")
  <2> DEFINE v == regs["A"]
  <2>1. v.key \in K BY <1>3 DEF Borne, Reg
  <2>2. n = 1 BY <1>3 DEF Before
  <2>3. StackAfter = Append(stack, v) BY <1>3 DEF StackAfter
  <2> HIDE DEF v
  <2>4. Len(Append(stack, v)) = m + 1 /\ Append(stack, v)[m + 1] = v BY <1>1
  <2>5. m + 1 + 1 - 1 = m + 1 /\ 1 <= m + 1 BY <1>1
  <2>6. Owns(Append(stack, v), 1, K) BY <2>1, <2>4, <2>5 DEF Owns
  <2> QED BY <2>2, <2>3, <2>6
<1>4. CASE op \in {"PHA", "PHP"} /\ Before(at, n) # 0 /\ Lies(V, at, Before(at, n))
  <2>1. Before(at, n) = n - 1 /\ n - 1 \in Nat \ {0} BY <1>4 DEF Before
  <2>2. IF n - 1 <= m THEN stack[m + 1 - (n - 1)].key \in K ELSE <<"below">> \in K BY <1>2, <1>4, <2>1
  <2>3. PICK v : StackAfter = Append(stack, v) BY <1>4 DEF StackAfter
  <2>4. /\ Len(Append(stack, v)) = m + 1
        /\ \A i \in 1 .. m : Append(stack, v)[i] = stack[i]
    BY <1>1
  <2>5. /\ n - 1 <= m <=> n <= m + 1
        /\ n <= m + 1 => m + 1 + 1 - n \in 1 .. m /\ m + 1 - (n - 1) = m + 1 + 1 - n
    BY <1>1, <2>1
  <2> QED BY <1>7, <2>2, <2>3, <2>4, <2>5
<1>5. CASE op \in {"PLA", "PLP"} /\ Lies(V, at, Before(at, n))
  <2>1. Before(at, n) = n + 1 /\ n + 1 \in Nat \ {0} BY <1>5 DEF Before
  <2>2. IF n + 1 <= m THEN stack[m + 1 - (n + 1)].key \in K ELSE <<"below">> \in K BY <1>2, <1>5, <2>1
  <2>3. CASE stack = <<>>
    <3>1. StackAfter = stack /\ m = 0 BY <1>5, <2>3 DEF StackAfter
    <3>2. ~(n <= 0) /\ ~(n + 1 <= 0) BY <2>1
    <3> QED BY <1>7, <2>2, <3>1, <3>2
  <2>4. CASE stack # <<>>
    <3>1. StackAfter = Front(stack) BY <1>5, <2>4 DEF StackAfter
    <3>2. /\ m >= 1 /\ Len(Front(stack)) = m - 1
          /\ \A i \in 1 .. m - 1 : Front(stack)[i] = stack[i]
      BY <1>1, <2>4, Popping
    <3> HIDE DEF m
    <3>3. /\ n + 1 <= m <=> n <= m - 1
          /\ n <= m - 1 => m - 1 + 1 - n \in 1 .. m - 1 /\ m + 1 - (n + 1) = m - 1 + 1 - n
      BY <1>1, <2>1, <3>2
    <3> QED BY <1>7, <2>2, <3>1, <3>2, <3>3
  <2> QED BY <2>3, <2>4
<1>6. CASE op \notin {"PHA", "PHP", "PLA", "PLP", "TXS", "TSX"} /\ Lies(V, at, Before(at, n))
  <2>1. Before(at, n) = n BY <1>6 DEF Before
  <2>2. StackAfter = stack BY <1>6 DEF StackAfter
  <2> QED BY <1>2, <1>6, <1>7, <2>1, <2>2
<1> QED BY <1>3, <1>4, <1>5, <1>6 DEF StkTold

LEMMA ValuesStay ==
  ASSUME Values PROVE  Values' \/ ~(regs' = RegsAfter /\ stack' = StackAfter)
<1> SUFFICES ASSUME regs' = RegsAfter, stack' = StackAfter PROVE Values' OBVIOUS
<1>1. Leaves(RegsAfter) BY RegsFacts DEF Values
<1>2. IsValue(Pulled)
  <2>1. CASE stack = <<>> BY <2>1, ValueKeys DEF Pulled
  <2>2. CASE stack # <<>>
    <3>1. Last(stack) \in Range(stack) BY <2>2, Popping DEF Values
    <3> QED BY <2>2, <3>1 DEF Pulled, Values
  <2> QED BY <2>1, <2>2
<1>3. \A reg \in Reg : IsValue(RegsAfter[reg])
  <2> SUFFICES ASSUME NEW reg \in Reg PROVE IsValue(RegsAfter[reg]) OBVIOUS
  <2>1. \/ \E key : RegsAfter[reg] = Value(key)
        \/ RegsAfter[reg] = Pulled
        \/ \E r \in Reg : RegsAfter[reg] = regs[r] \/ RegsAfter[reg] = Through1(regs[r])
    BY <1>1 DEF Leaves
  <2>2. \A r \in Reg : IsValue(regs[r]) BY DEF Values
  <2> QED BY <1>2, <2>1, <2>2, ValueKeys
<1>4. DOMAIN RegsAfter = Reg BY <1>1 DEF Leaves
<1>5. IsList(stack) /\ \A v \in Range(stack) : IsValue(v) BY DEF Values
<1>6. IsList(StackAfter) /\ \A v \in Range(StackAfter) : IsValue(v)
  <2>1. ASSUME NEW v, IsValue(v), StackAfter = Append(stack, v)
        PROVE IsList(StackAfter) /\ \A u \in Range(StackAfter) : IsValue(u)
    BY <1>5, <2>1, Appending
  <2>2. CASE Op(at) = "PHA"
    <3>1. IsValue(regs["A"]) BY DEF Values, Reg
    <3>2. StackAfter = Append(stack, regs["A"]) BY <2>2 DEF StackAfter
    <3> QED BY <2>1, <3>1, <3>2
  <2>3. CASE Op(at) = "PHP"
    <3>1. StackAfter = Append(stack, Value(<<"status">>)) BY <2>3 DEF StackAfter
    <3> QED BY <2>1, <3>1, ValueKeys
  <2>4. CASE Op(at) \in {"PLA", "PLP"} /\ stack # <<>>
    <3>1. StackAfter = Front(stack) BY <2>4 DEF StackAfter
    <3> QED BY <1>5, <2>4, <3>1, Popping
  <2>5. CASE Op(at) = "TXS"
    <3>1. StackAfter = <<>> /\ Range(<<>>) = {} BY <2>5 DEF StackAfter, Range
    <3> QED BY <3>1, NoneLeft
  <2>6. CASE Op(at) \notin {"PHA", "PHP", "PLA", "PLP", "TXS"} \/ (Op(at) \in {"PLA", "PLP"} /\ stack = <<>>)
    <3>1. StackAfter = stack BY <2>6 DEF StackAfter
    <3> QED BY <1>5, <3>1
  <2> QED BY <2>2, <2>3, <2>4, <2>5, <2>6
<1> HIDE DEF Values
<1> QED BY <1>3, <1>4, <1>6 DEF Values

\* Where the execution goes next, the claims about it are the claims there.
LEMMA BorneNext ==
  ASSUME Between, Values, Step, NEW V, NEW K, Explained(V, V, K), Borne(V, K), NEW s, s = at',
         s \in DOMAIN prog
  PROVE  /\ \A reg \in Reg : Fed(V, K, s, reg) => regs'[reg].key \in K
         /\ \A n \in Nat \ {0} : Lies(V, s, n) => Owns(stack', n, K)
<1>1. prog \in Programs /\ at \in DOMAIN prog /\ at' \in Nexts BY DEF Between, Step
<1>2. regs' = RegsAfter /\ stack' = StackAfter BY DEF Step
<1>3. s # Ended BY <1>1, Addresses
<1>4. at \in PredSet(s) BY <1>1, <1>3, StepsFromPred
<1>5. ASSUME NEW reg \in Reg, Fed(V, K, s, reg) PROVE regs'[reg].key \in K
  <2>1. RegNode(at, reg) \in V BY <1>4, <1>5 DEF Fed
  <2>2. RegTold(V, K, at, reg) BY <1>1, <2>1 DEF Explained
  <2> QED BY <1>1, <1>2, <2>2, RegsBorne
<1>6. ASSUME NEW n \in Nat \ {0}, Lies(V, s, n) PROVE Owns(stack', n, K)
  <2>1. StkNode(at, n) \in V BY <1>4, <1>6 DEF Lies
  <2>2. StkTold(V, K, at, n) BY <1>1, <2>1 DEF Explained
  <2> QED BY <1>1, <1>2, <2>2, StackBorne
<1> QED BY <1>5, <1>6

\* What a claim says of the program does not change with the execution.
LEMMA SameClaims ==
  ASSUME prog' = prog
  PROVE  /\ \A V, W, K : Explained(V, W, K)' <=> Explained(V, W, K)
         /\ \A V, K, p, reg : Fed(V, K, p, reg)' <=> Fed(V, K, p, reg)
         /\ \A V, p, n : Lies(V, p, n)' <=> Lies(V, p, n)
         /\ entry' = entry => Overlooked' = Overlooked
<1>1. /\ \A p : PredSet(p)' = PredSet(p) /\ Op(p)' = Op(p) /\ Arg(p)' = Arg(p)
  BY DEF PredSet, JumpsTo, FallIn, Op, Arg
<1>5. entry' = entry => Overlooked' = Overlooked BY DEF Overlooked, PredSet, JumpsTo, FallIn, Op, Arg, Brought
<1>2. /\ \A V, K, p, reg : Fed(V, K, p, reg)' <=> Fed(V, K, p, reg)
      /\ \A V, p, n : Lies(V, p, n)' <=> Lies(V, p, n)
  BY <1>1 DEF Fed, Lies
<1>3. /\ \A V, K, p, reg : RegTold(V, K, p, reg)' <=> RegTold(V, K, p, reg)
      /\ \A V, K, p, n : StkTold(V, K, p, n)' <=> StkTold(V, K, p, n)
  BY <1>1, <1>2 DEF RegTold, StkTold, Before
<1>4. \A V, W, K : Explained(V, W, K)' <=> Explained(V, W, K) BY <1>3 DEF Explained
<1> QED BY <1>2, <1>4, <1>5

LEMMA RunningInit == ASSUME ExecInit PROVE Running
<1>1. stack = <<>> /\ at = 0 /\ regs = [r \in Reg |-> Value(<<"caller", r>>)] BY DEF ExecInit
<1>2. DOMAIN regs = Reg /\ \A reg \in Reg : regs[reg] = Value(<<"caller", reg>>) BY <1>1
<1>3. \A reg \in Reg : IsValue(regs[reg]) BY <1>2, ValueKeys
<1>4. Range(stack) = {} /\ IsList(stack) BY <1>1, NoneLeft DEF Range
<1>5. phase # "done" BY DEF ExecInit, Init
<1> QED BY <1>1, <1>2, <1>3, <1>4, <1>5 DEF Running, Values

LEMMA RunningStep ==
  ASSUME Between, LastSet, Running, [Next]_allVars
  PROVE  Running'
<1> USE DEF Running
<1>1. CASE Analyze /\ UNCHANGED execVars
  <2>1. UNCHANGED execVars /\ prog' = prog /\ (phase = "setter" \/ phase = "walk")
    BY <1>1 DEF Analyze, FindSetter, Walk
  <2>2. at = 0 BY <2>1 DEF LastSet
  <2>3. at' = 0 /\ regs' = regs /\ stack' = stack BY <2>1, <2>2 DEF execVars
  <2>4. 0 \notin DOMAIN prog BY Addresses DEF Between
  <2>5. \A V, K : Borne(V, K)' BY <2>1, <2>3, <2>4 DEF Borne
  <2>6. Values' BY <2>3 DEF Values, IsValue, IsList
  <2> QED BY <2>2, <2>3, <2>5, <2>6
<1>2. CASE UNCHANGED allVars
  <2>1. /\ prog' = prog /\ at' = at /\ regs' = regs /\ stack' = stack /\ phase' = phase
        /\ entry' = entry
    BY <1>2 DEF allVars
  <2>2. \A V, K : Borne(V, K)' <=> Borne(V, K) BY <2>1, SameClaims DEF Borne, Owns
  <2>3. Values' BY <2>1 DEF Values, IsValue, IsList
  <2>4. Overlooked' = Overlooked BY <2>1, SameClaims DEF Overlooked
  <2> QED BY <2>1, <2>2, <2>3, <2>4, SameClaims
<1>3. CASE Execute
  <2>1. prog' = prog /\ phase' = phase /\ phase = "done" BY <1>3 DEF Execute, vars
  <2>2. CASE Enter
    <3>1. at = 0 /\ at' \in DOMAIN prog /\ entry' = at' /\ regs' = regs /\ stack' = stack BY <2>2 DEF Enter
    <3>3. 0 \notin DOMAIN prog BY Addresses DEF Between
    <3>4. at' # 0 BY <3>1, <3>3
    <3>5. Values' BY <3>1 DEF Values, IsValue, IsList
    <3>6. ASSUME NEW V, NEW K, Overlooked' \subseteq K PROVE Borne(V, K)'
      <4> DEFINE s == at'
      <4>1. \A reg \in Reg : regs'[reg].key = <<"caller", reg>> BY <3>1, ValueKeys
      <4>2. \A n \in Nat \ {0} : ~(n <= Len(stack'))
        <5>1. stack' = <<>> /\ Len(<<>>) = 0 BY <3>1
        <5> QED BY <5>1
      <4>3. CASE PredSet(s) = {}
        <5>1. \A n : ~Lies(V, at, n)' BY <2>1, <4>3 DEF Lies, PredSet, JumpsTo, FallIn, Op, Arg
        <5>2. \A reg \in Reg : Fed(V, K, at, reg)' => <<"caller", reg>> \in K
          BY <2>1, <4>3 DEF Fed, PredSet, JumpsTo, FallIn, Op, Arg
        <5> QED BY <4>1, <5>1, <5>2 DEF Borne
      <4>4. CASE PredSet(s) # {}
        <5>1. Overlooked' = Brought
          BY <2>1, <3>1, <4>4 DEF Overlooked, PredSet, JumpsTo, FallIn, Op, Arg, Brought
        <5>2. <<"below">> \in K /\ \A reg \in Reg : <<"caller", reg>> \in K BY <3>6, <5>1 DEF Brought
        <5> QED BY <4>1, <4>2, <5>2 DEF Borne, Owns
      <4> QED BY <4>3, <4>4
    <3> QED BY <3>4, <3>5, <3>6
  <2>3. CASE Step
    <3>1. at \in DOMAIN prog /\ regs' = RegsAfter /\ stack' = StackAfter BY <2>3 DEF Step
    <3>2. Values' BY <3>1, ValuesStay
    <3>3. at' # 0
      <4>1. prog \in Programs /\ 0 \notin DOMAIN prog BY Addresses DEF Between
      <4>2. at' \in Nexts BY <2>3 DEF Step
      <4>3. at' = Ended \/ at' \in DOMAIN prog BY <3>1, <4>1, <4>2, StepsFromPred
      <4> QED BY <4>1, <4>3 DEF Ended
    <3>5. Overlooked' = Overlooked BY <2>1, <2>3, SameClaims DEF Step
    <3>4. ASSUME NEW V, NEW K, Explained(V, V, K), Overlooked \subseteq K PROVE Borne(V, K)'
      <4>1. Borne(V, K) BY <2>1, <3>4
      <4>2. ASSUME at' \in DOMAIN prog
            PROVE  /\ \A reg \in Reg : Fed(V, K, at, reg)' => regs'[reg].key \in K
                   /\ \A n \in Nat \ {0} : Lies(V, at, n)' => Owns(stack', n, K)
        <5> DEFINE s == at'
        <5>1. /\ \A reg \in Reg : Fed(V, K, s, reg) => regs'[reg].key \in K
              /\ \A n \in Nat \ {0} : Lies(V, s, n) => Owns(stack', n, K)
          <6>1. s \in DOMAIN prog BY <4>2
          <6> HIDE DEF Running
          <6>2. Values BY DEF Running
          <6> QED BY <2>3, <3>4, <4>1, <6>1, <6>2, BorneNext
        <5>2. \A p : PredSet(p)' = PredSet(p) BY <2>1 DEF PredSet, JumpsTo, FallIn, Op, Arg
        <5>3. \A reg \in Reg : Fed(V, K, at, reg)' => Fed(V, K, s, reg)
          BY <2>1 DEF Fed, PredSet, JumpsTo, FallIn, Op, Arg
        <5>4. \A n : Lies(V, at, n)' => Lies(V, s, n)
          BY <2>1 DEF Lies, PredSet, JumpsTo, FallIn, Op, Arg
        <5> QED BY <5>1, <5>3, <5>4
      <4>3. \A n : Owns(stack, n, K)' <=> Owns(stack', n, K) BY DEF Owns
      <4> QED BY <2>1, <4>2, <4>3 DEF Borne
    <3> QED BY <2>1, <3>2, <3>3, <3>4, <3>5, SameClaims
  <2> QED BY <1>3, <2>2, <2>3 DEF Execute
<1> QED BY <1>1, <1>2, <1>3 DEF Next

\* _resolve_lhs, _resolve_pla_source: wherever an execution enters and whatever
\* path it takes to the setter, the value that the setter tests comes from a
\* source that the answer names, unless the answer is unknown or leaves a path
\* out, or the value is one that the caller brought to an entry with
\* predecessors.
THEOREM SourceIsReported == Spec => []SourceReported
<1>1. ExecInit => Analysed BY DEF ExecInit, Init, Analysed
<1>2. Between /\ LastSet /\ Analysed /\ Running => SourceReported
  <2> SUFFICES ASSUME Between, LastSet, Analysed, Running, AtWalked, ~dropped, lhs.kind # "unknown"
               PROVE  Tested.key \in lhs.keys \cup Overlooked
    BY DEF SourceReported
  <2> DEFINE K == lhs.keys \cup Overlooked
  <2>1. phase = "done" /\ at = setter /\ at # 0 /\ Asks BY DEF AtWalked, Done, Asks
  <2>2. setter \in DOMAIN prog
    <3>1. prog \in Programs /\ branch \in DOMAIN prog /\ setter \in 0 .. branch - 1 BY DEF Between
    <3> QED BY <2>1, <3>1, Addresses
  <2>3. Sourced({}, {}, lhs.keys) BY <2>1 DEF Analysed, Fine
  <2>4. PICK V : Explained(V, V \cup {}, lhs.keys) /\ Main(V \cup {}, lhs.keys) BY <2>3 DEF Sourced
  <2>5. V \cup {} = V /\ V \subseteq V /\ lhs.keys \subseteq K /\ Overlooked \subseteq K OBVIOUS
  <2> HIDE DEF K
  <2>6. Explained(V, V, K) /\ Main(V, K) BY <2>4, <2>5, ToldMore DEF Explained
  <2>7. Borne(V, K) /\ Values BY <2>1, <2>5, <2>6 DEF Running
  <2>8. CASE Op(setter) = "PLA"
    <3>1. Lies(V, at, 1) BY <2>1, <2>6, <2>8 DEF Main
    <3>2. Owns(stack, 1, K) BY <2>1, <2>2, <2>7, <3>1 DEF Borne
    <3>3. Pulled.key \in K BY <2>7, <3>2, PulledKey
    <3>4. Tested = Pulled BY <2>8 DEF Tested
    <3> QED BY <3>3, <3>4 DEF K
  <2>9. CASE Op(setter) # "PLA"
    <3>1. WalkReg(Op(setter)) \in Reg BY <2>1, <2>9 DEF Asks, WalkReg, Reg
    <3>2. Fed(V, K, at, WalkReg(Op(setter))) BY <2>1, <2>6, <2>9 DEF Main
    <3>3. regs[WalkReg(Op(setter))].key \in K BY <2>1, <2>2, <2>7, <3>1, <3>2 DEF Borne
    <3> QED BY <2>9, <3>3 DEF Tested, K
  <2> QED BY <2>8, <2>9
<1>3. Between /\ LastSet /\ Analysed /\ Running /\ [Next]_allVars => Analysed' /\ Running'
  BY AnalysedStep, RunningStep
<1> QED BY <1>1, <1>2, <1>3, BetweenInit, BetweenStep, LastSetStep, RunningInit, PTL DEF Spec

(***************************************************************************)
(* The chain: where one way leads to the setter, the transforms reported   *)
(* are those that the value went through.  A link is an entry of the walk; *)
(* its chain is what comes, newest first, between it and the setter.       *)
(***************************************************************************)

\* The chain that the value of reg has still to go through when pc runs: all of
\* it, in K, at the front of the function.
Passed(V, K, pc, reg, chain) ==
  IF PredSet(pc) = {} THEN chain \in K ELSE \A p \in PredSet(pc) : <<p, reg, chain>> \in V

LinkTold(V, K, pc, reg, chain) ==
  \/ Op(pc) \in Loaders[reg] /\ chain \in K
  \/ Op(pc) \in Neutral[reg] /\ Passed(V, K, pc, reg, chain)
  \/ Op(pc) \in Transforms[reg] /\ Passed(V, K, pc, reg, Append(chain, Op(pc)))
  \/ Op(pc) = Transfer[reg] /\ Passed(V, K, pc, Other[reg], Append(chain, Op(pc)))

LinksTold(V, W, K) ==
  \A pc, reg, chain : <<pc, reg, chain>> \in V => LinkTold(W, K, pc, reg, chain)

\* What a link hands to the predecessors of its instruction.
HandsReg(pc, reg) == IF Op(pc) = Transfer[reg] THEN Other[reg] ELSE reg
HandsChain(pc, reg, chain) ==
  IF Op(pc) \in Transforms[reg] \cup {Transfer[reg]} THEN Append(chain, Op(pc)) ELSE chain

\* The only link that the instruction at pc can have.
First(pc, reg, chain) == pc \in PredSet(setter) /\ reg = WalkReg(Op(setter)) /\ chain = <<>>
Handed(V, pc, reg, chain) ==
  \E q, r, c : <<q, r, c>> \in V /\ pc \in PredSet(q) /\ reg = HandsReg(q, r) /\ chain = HandsChain(q, r, c)

IsLink(V, pc, reg, chain) ==
  /\ pc \in 1 .. setter - 1 /\ reg \in Reg /\ IsList(chain)
  /\ First(pc, reg, chain) \/ Handed(V, pc, reg, chain)

MainLink(V) ==
  PredSet(setter) # {} /\ \A p \in PredSet(setter) : <<p, WalkReg(Op(setter)), <<>> >> \in V

\* V is what has been visited, with its chains; the chains found are in K.
Chains(V, visited, work, K) ==
  /\ \A pc, reg : <<pc, reg>> \in visited => \E chain : <<pc, reg, chain>> \in V
  /\ LinksTold(V, V \cup work, K) /\ MainLink(V \cup work)
  /\ \A pc, reg, chain : <<pc, reg, chain>> \in V \cup work => IsLink(V, pc, reg, chain)
  /\ \A pc, r, c, s, d : <<pc, r, c>> \in V \cup work /\ <<pc, s, d>> \in V \cup work => r = s /\ c = d

\* No branch leads out of the way to the setter, no jump back into it.
OneWay == prog \in Programs /\ setter \in DOMAIN prog /\ Unforked

LEMMA Successor ==
  ASSUME OneWay, NEW a \in 1 .. setter, NEW p \in PredSet(a)
  PROVE  /\ p \in 1 .. a - 1 /\ Op(p) # "PLA"
         /\ \A b \in 1 .. setter : p \in PredSet(b) => b = a
<1>1. /\ prog \in Programs /\ setter \in DOMAIN prog /\ DOMAIN prog = 1 .. Len(prog) /\ Len(prog) \in Nat
      /\ setter \in Nat
  BY Addresses DEF OneWay
<1>2. /\ \A pc \in DOMAIN prog : Op(pc) # "PLA" /\ (Op(pc) \in Branches \cup {"JMP"} => Arg(pc) > pc)
      /\ \A pc \in 1 .. setter : Op(pc) \notin Branches
  BY DEF OneWay, Unforked, Jumps
<1>3. ASSUME NEW b \in 1 .. setter, p \in PredSet(b)
      PROVE  /\ p \in 1 .. b - 1 /\ p \in DOMAIN prog
             /\ (b = p + 1 /\ Op(p) \notin Barriers) \/ (Op(p) = "JMP" /\ Arg(p) = b)
  <2>1. CASE p \in JumpsTo(b)
    <3>1. p \in DOMAIN prog /\ Op(p) \in Branches \cup {"JMP"} /\ Arg(p) = b BY <2>1 DEF JumpsTo
    <3>2. b > p BY <1>2, <3>1
    <3>3. p \in 1 .. b - 1 BY <1>1, <3>1, <3>2
    <3>4. p \in 1 .. setter BY <1>1, <3>3
    <3> QED BY <1>2, <3>1, <3>3, <3>4
  <2>2. CASE p \notin JumpsTo(b)
    <3>1. p = FallIn(b) /\ p # 0 BY <1>3, <2>2 DEF PredSet
    <3>2. b > 1 /\ p = b - 1 /\ Op(b - 1) \notin Barriers BY <3>1 DEF FallIn
    <3> QED BY <1>1, <3>2
  <2> QED BY <2>1, <2>2
<1>4. /\ p \in 1 .. a - 1 /\ p \in DOMAIN prog
      /\ (a = p + 1 /\ Op(p) \notin Barriers) \/ (Op(p) = "JMP" /\ Arg(p) = a)
  BY <1>3
<1>5. ASSUME NEW b \in 1 .. setter, p \in PredSet(b) PROVE b = a
  <2>1. (b = p + 1 /\ Op(p) \notin Barriers) \/ (Op(p) = "JMP" /\ Arg(p) = b) BY <1>3, <1>5
  <2> QED BY <1>4, <2>1 DEF Barriers
<1> QED BY <1>2, <1>4, <1>5

LEMMA LinksToldMore ==
  ASSUME NEW V, NEW W, V \subseteq W, NEW K, NEW L, K \subseteq L
  PROVE  \A pc, reg, chain : LinkTold(V, K, pc, reg, chain) => LinkTold(W, L, pc, reg, chain)
<1>1. \A pc, reg, chain : Passed(V, K, pc, reg, chain) => Passed(W, L, pc, reg, chain) BY DEF Passed
<1> HIDE DEF Passed
<1> QED BY <1>1 DEF LinkTold

\* A link is taken off the work, told, and what it hands on is put there.
LEMMA LinkTaken ==
  ASSUME OneWay, NEW vis, NEW work, NEW K, NEW V, Chains(V, vis, work, K),
         NEW pc, NEW reg, NEW chain, <<pc, reg, chain>> \in work,
         NEW rest, work = rest \cup {<<pc, reg, chain>>},
         NEW new, \A x \in new : \E p \in PredSet(pc) : x = <<p, HandsReg(pc, reg), HandsChain(pc, reg, chain)>>,
         NEW L, K \subseteq L,
         LinkTold(V \cup {<<pc, reg, chain>>} \cup rest \cup new, L, pc, reg, chain)
  PROVE  \E W : Chains(W, vis \cup {<<pc, reg>>}, rest \cup new, L)
<1> DEFINE x == <<pc, reg, chain>>
           W == V \cup {x}
           U == W \cup (rest \cup new)
           hr == HandsReg(pc, reg)
           hc == HandsChain(pc, reg, chain)
<1>1. /\ \A q, r : <<q, r>> \in vis => \E c : <<q, r, c>> \in V
      /\ LinksTold(V, V \cup work, K) /\ MainLink(V \cup work)
      /\ \A q, r, c : <<q, r, c>> \in V \cup work => IsLink(V, q, r, c)
      /\ \A q, r, c, s, d : <<q, r, c>> \in V \cup work /\ <<q, s, d>> \in V \cup work => r = s /\ c = d
  BY DEF Chains
<1>2. V \cup work \subseteq U /\ U = V \cup work \cup new OBVIOUS
<1>3. IsLink(V, pc, reg, chain) BY <1>1
<1>4. pc \in 1 .. setter - 1 /\ pc \in 1 .. setter /\ reg \in Reg /\ IsList(chain) /\ setter \in Nat
  <2>1. setter \in Nat BY Addresses DEF OneWay
  <2> QED BY <1>3, <2>1 DEF IsLink
<1>5. hr \in Reg /\ IsList(hc) BY <1>4, Appending DEF HandsReg, HandsChain, Reg, Other
<1>6. \A q, r : <<q, r>> \in vis \cup {<<pc, reg>>} => \E c : <<q, r, c>> \in W BY <1>1
<1>7. LinksTold(W, U, L)
  <2>1. LinkTold(U, L, pc, reg, chain)
    <3>1. U = V \cup {x} \cup rest \cup new OBVIOUS
    <3> QED BY <3>1
  <2> HIDE DEF U
  <2>2. \A q, r, c : <<q, r, c>> \in V => LinkTold(U, L, q, r, c) BY <1>1, <1>2, LinksToldMore DEF LinksTold
  <2> QED BY <2>1, <2>2 DEF LinksTold
<1>8. MainLink(U) BY <1>1, <1>2 DEF MainLink
<1>9. \A q, r, c : IsLink(V, q, r, c) => IsLink(W, q, r, c) BY DEF IsLink, Handed
<1>10. \A p \in PredSet(pc) : IsLink(W, p, hr, hc)
  <2> SUFFICES ASSUME NEW p \in PredSet(pc) PROVE IsLink(W, p, hr, hc) OBVIOUS
  <2>1. p \in 1 .. pc - 1 BY <1>4, Successor
  <2>2. p \in 1 .. setter - 1 BY <1>4, <2>1
  <2>3. Handed(W, p, hr, hc) BY DEF Handed
  <2> QED BY <1>5, <2>2, <2>3 DEF IsLink
<1>11. \A p \in PredSet(pc) : \A r, c : <<p, r, c>> \in V \cup work => r = hr /\ c = hc
  <2> SUFFICES ASSUME NEW p \in PredSet(pc), NEW r, NEW c, <<p, r, c>> \in V \cup work
               PROVE  r = hr /\ c = hc
    OBVIOUS
  <2>1. IsLink(V, p, r, c) BY <1>1
  <2>2. ~First(p, r, c)
    <3>1. setter \in 1 .. setter /\ setter # pc BY <1>4
    <3>2. p \notin PredSet(setter) BY <1>4, <3>1, Successor
    <3> QED BY <3>2 DEF First
  <2>3. PICK q, s, d : /\ <<q, s, d>> \in V /\ p \in PredSet(q)
                       /\ r = HandsReg(q, s) /\ c = HandsChain(q, s, d)
    BY <2>1, <2>2 DEF IsLink, Handed
  <2>4. q \in 1 .. setter
    <3>1. q \in 1 .. setter - 1 BY <1>1, <2>3 DEF IsLink
    <3> QED BY <1>4, <3>1
  <2>5. q = pc BY <1>4, <2>3, <2>4, Successor
  <2>6. s = reg /\ d = chain BY <1>1, <2>3, <2>5
  <2> QED BY <2>3, <2>5, <2>6
<1>12. \A q, r, c : <<q, r, c>> \in U => IsLink(W, q, r, c)
  <2> SUFFICES ASSUME NEW q, NEW r, NEW c, <<q, r, c>> \in U PROVE IsLink(W, q, r, c) OBVIOUS
  <2>1. CASE <<q, r, c>> \in V \cup work BY <1>1, <1>9, <2>1
  <2>2. CASE <<q, r, c>> \in new
    <3>1. PICK p \in PredSet(pc) : <<q, r, c>> = <<p, hr, hc>> BY <2>2
    <3> QED BY <1>10, <3>1
  <2> QED BY <1>2, <2>1, <2>2
<1>13. \A q, r, c, s, d : <<q, r, c>> \in U /\ <<q, s, d>> \in U => r = s /\ c = d
  <2>1. \A q, r, c : <<q, r, c>> \in new => q \in PredSet(pc) /\ r = hr /\ c = hc OBVIOUS
  <2> HIDE DEF hr, hc, U
  <2> QED BY <1>1, <1>2, <1>11, <2>1
<1> HIDE DEF W, U
<1>14. U = W \cup (rest \cup new) BY DEF U
<1>15. Chains(W, vis \cup {<<pc, reg>>}, rest \cup new, L) BY <1>6, <1>7, <1>8, <1>12, <1>13, <1>14 DEF Chains
<1> QED BY <1>15

(***************************************************************************)
(* The walk for one register, the only one there is without a pull.        *)
(***************************************************************************)

LinksOf(entries) == {<<w.pc, w.reg, w.chain>> : w \in Range(entries)}
ChainsOf(f) == {s.chain : s \in f.found}

Linked(f) ==
  /\ DOMAIN f = {"kind", "work", "visited", "found", "steps", "depth"}
  /\ f.kind = "lhs" /\ IsList(f.work)
  /\ IsFiniteSet(ChainsOf(f)) /\ \A s \in f.found : IsList(s.chain)
  /\ \E V : Chains(V, f.visited, LinksOf(f.work), ChainsOf(f))

Exact(where, calls, answer, lost) ==
  /\ where = "walk" => lost \/ \E f : calls = <<f>> /\ Linked(f)
  /\ where = "done" =>
       \/ lost \/ answer.chain = <<>>
       \/ IsList(answer.chain) /\ \E V : Chains(V, {}, {}, {answer.chain})

LinkStep(w) ==
  /\ OneWay /\ phase = "walk" /\ ~dropped /\ Below = <<>> /\ Linked(Top)
  /\ Top.work # <<>> /\ w = Last(Top.work)

LEMMA OneFrame ==
  ASSUME NEW f, frames = <<f>> PROVE Top = f /\ Below = <<>>
<1>1. IsList(<<>>) /\ <<f>> = Append(<<>>, f) BY NoneLeft
<1> QED BY <1>1, Appending DEF Top, Below

\* An answer without a chain says nothing of it.
LEMMA PlainAnswer ==
  ASSUME NEW r, Return(<<>>, r), r.chain = <<>> PROVE Exact(phase', frames', lhs', dropped')
BY DEF Return, Exact

LEMMA NextFrame ==
  ASSUME NEW f, Calls(<<>>, f), Linked(f) PROVE Exact(phase', frames', lhs', dropped')
<1>1. phase' = "walk" /\ frames' = <<f>> BY DEF Calls
<1> QED BY <1>1 DEF Exact

LEMMA LinksJoin ==
  ASSUME NEW s, IsList(s), NEW t, IsList(t)
  PROVE  IsList(s \o t) /\ LinksOf(s \o t) = LinksOf(s) \cup LinksOf(t)
BY Joining DEF LinksOf

LEMMA EntryLinks ==
  ASSUME NEW preds \in Seq(DOMAIN prog), NEW reg, NEW chain
  PROVE  LET es == Entries(preds, reg, chain) IN
         IsList(es) /\ LinksOf(es) = {<<p, reg, chain>> : p \in Range(preds)}
<1> DEFINE es == Entries(preds, reg, chain)
           E(p) == [pc |-> p, reg |-> reg, chain |-> chain]
<1>1. IsList(es) BY EntriesAll
<1>2. DOMAIN es = DOMAIN preds /\ \A i \in DOMAIN preds : es[i] = E(preds[i]) BY DEF Entries
<1>3. \A p : E(p).pc = p /\ E(p).reg = reg /\ E(p).chain = chain OBVIOUS
<1> HIDE DEF es, E
<1>4. \A x : x \in Range(es) <=> \E p \in Range(preds) : x = E(p) BY <1>2 DEF Range
<1>5. LinksOf(es) = {<<p, reg, chain>> : p \in Range(preds)} BY <1>3, <1>4 DEF LinksOf
<1> QED BY <1>1, <1>5 DEF es

LEMMA LinkFacts ==
  ASSUME NEW w, LinkStep(w)
  PROVE  /\ IsList(Popped.work) /\ LinksOf(Top.work) = LinksOf(Popped.work) \cup {<<w.pc, w.reg, w.chain>>}
         /\ w.pc \in 1 .. setter - 1 /\ w.pc \in 1 .. setter /\ w.pc \in DOMAIN prog
         /\ w.reg \in Reg /\ IsList(w.chain)
         /\ prog \in Programs /\ Op(w.pc) # "PLA" /\ w.pc \notin PredSet(w.pc)
<1>1. Linked(Top) /\ Top.work # <<>> /\ w = Last(Top.work) /\ OneWay BY DEF LinkStep
<1>2. IsList(Top.work) /\ Popped.work = Front(Top.work) BY <1>1 DEF Linked, Popped
<1>3. Range(Top.work) = Range(Popped.work) \cup {w} /\ IsList(Popped.work) BY <1>1, <1>2, Popping
<1>4. LinksOf(Top.work) = LinksOf(Popped.work) \cup {<<w.pc, w.reg, w.chain>>} BY <1>3 DEF LinksOf
<1>5. PICK V : Chains(V, Top.visited, LinksOf(Top.work), ChainsOf(Top)) BY <1>1 DEF Linked
<1>6. IsLink(V, w.pc, w.reg, w.chain) BY <1>4, <1>5 DEF Chains
<1>7. /\ prog \in Programs /\ setter \in DOMAIN prog /\ DOMAIN prog = 1 .. Len(prog) /\ Len(prog) \in Nat
  BY <1>1, Addresses DEF OneWay
<1>8. w.pc \in 1 .. setter - 1 /\ w.reg \in Reg /\ IsList(w.chain) BY <1>6 DEF IsLink
<1>9. w.pc \in 1 .. setter /\ w.pc \in DOMAIN prog BY <1>7, <1>8
<1>10. Op(w.pc) # "PLA" BY <1>1, <1>9 DEF OneWay, Unforked
<1>11. w.pc \notin PredSet(w.pc)
  <2>1. w.pc \notin 1 .. w.pc - 1 BY <1>7, <1>9
  <2> QED BY <1>1, <1>9, <2>1, Successor
<1> QED BY <1>3, <1>4, <1>7, <1>8, <1>9, <1>10, <1>11

\* A link that ends a way adds its chain to those found.
LEMMA FoundExact ==
  ASSUME NEW w, LinkStep(w), NEW key,
         Calls(Below, [Expanded(w) EXCEPT !.found = @ \cup {[key |-> key, chain |-> w.chain]}]),
         Op(w.pc) \in Loaders[w.reg] \/ (Op(w.pc) \in Neutral[w.reg] /\ PredSet(w.pc) = {})
  PROVE  Exact(phase', frames', lhs', dropped')
<1> DEFINE s == [key |-> key, chain |-> w.chain]
           f == [Expanded(w) EXCEPT !.found = @ \cup {s}]
<1>1. OneWay /\ Below = <<>> /\ Linked(Top) BY DEF LinkStep
<1>2. s.chain = w.chain OBVIOUS
<1> HIDE DEF s
<1>3. /\ DOMAIN f = DOMAIN Top /\ f.kind = "lhs" /\ f.work = Popped.work
      /\ f.visited = Top.visited \cup {<<w.pc, w.reg>>} /\ f.found = Top.found \cup {s}
  BY <1>1 DEF Linked, Expanded, Popped, Key
<1>4. Calls(Below, f) BY DEF s
<1> HIDE DEF f
<1>5. PICK V : Chains(V, Top.visited, LinksOf(Top.work), ChainsOf(Top)) BY <1>1 DEF Linked
<1> DEFINE L == ChainsOf(f)
           x == <<w.pc, w.reg, w.chain>>
           U == V \cup {x} \cup LinksOf(Popped.work) \cup {}
<1>6. ChainsOf(Top) \subseteq L /\ w.chain \in L BY <1>2, <1>3 DEF ChainsOf
<1>7. LinkTold(U, L, w.pc, w.reg, w.chain) BY <1>6 DEF LinkTold, Passed
<1> HIDE DEF L
<1>8. \E W : Chains(W, Top.visited \cup {<<w.pc, w.reg>>}, LinksOf(Popped.work) \cup {}, L)
  BY <1>1, <1>5, <1>6, <1>7, LinkFacts, LinkTaken
<1>9. LinksOf(Popped.work) \cup {} = LinksOf(Popped.work) OBVIOUS
<1>10. \E W : Chains(W, f.visited, LinksOf(f.work), L) BY <1>3, <1>8, <1>9
<1>11. \A u \in f.found : IsList(u.chain)
  <2>1. IsList(w.chain) BY LinkFacts
  <2> QED BY <1>1, <1>2, <1>3, <2>1 DEF Linked
<1>12. IsList(f.work) BY <1>3, LinkFacts
<1>13. IsFiniteSet(ChainsOf(f))
  <2>1. ChainsOf(f) = ChainsOf(Top) \cup {w.chain} BY <1>2, <1>3 DEF ChainsOf
  <2>2. IsFiniteSet(ChainsOf(Top)) BY <1>1 DEF Linked
  <2> QED BY <2>1, <2>2, FS_AddElement
<1>14. Linked(f) BY <1>1, <1>3, <1>10, <1>11, <1>12, <1>13 DEF Linked, L
<1> QED BY <1>1, <1>4, <1>14, NextFrame

\* A link that goes on puts what it hands on on the list.
LEMMA HandExact ==
  ASSUME NEW w, LinkStep(w), NEW preds \in Seq(DOMAIN prog), Range(preds) = PredSet(w.pc), PredSet(w.pc) # {},
         Push(Expanded(w), Entries(preds, HandsReg(w.pc, w.reg), HandsChain(w.pc, w.reg, w.chain))),
         Op(w.pc) \in Transforms[w.reg] \cup Neutral[w.reg] \cup {Transfer[w.reg]}
  PROVE  Exact(phase', frames', lhs', dropped')
<1> DEFINE hr == HandsReg(w.pc, w.reg)
           hc == HandsChain(w.pc, w.reg, w.chain)
           es == Entries(preds, hr, hc)
           f == [Expanded(w) EXCEPT !.work = @ \o es]
           new == {<<p, hr, hc>> : p \in PredSet(w.pc)}
<1>1. OneWay /\ Below = <<>> /\ Linked(Top) BY DEF LinkStep
<1>2. IsList(es) /\ LinksOf(es) = new BY EntryLinks
<1>3. Calls(Below, f) BY DEF Push
<1> HIDE DEF es
<1>4. /\ DOMAIN f = DOMAIN Top /\ f.kind = "lhs" /\ f.work = Popped.work \o es
      /\ f.visited = Top.visited \cup {<<w.pc, w.reg>>} /\ f.found = Top.found
  BY <1>1 DEF Linked, Expanded, Popped, Key
<1> HIDE DEF f
<1>5. IsList(f.work) /\ LinksOf(f.work) = LinksOf(Popped.work) \cup new
  <2>1. IsList(Popped.work) BY LinkFacts
  <2>2. IsList(Popped.work \o es) /\ LinksOf(Popped.work \o es) = LinksOf(Popped.work) \cup LinksOf(es)
    BY <1>2, <2>1, LinksJoin
  <2> QED BY <1>2, <1>4, <2>2
<1>6. PICK V : Chains(V, Top.visited, LinksOf(Top.work), ChainsOf(Top)) BY <1>1 DEF Linked
<1> DEFINE L == ChainsOf(Top)
           x == <<w.pc, w.reg, w.chain>>
           U == V \cup {x} \cup LinksOf(Popped.work) \cup new
<1>7. \A p \in PredSet(w.pc) : <<p, hr, hc>> \in U OBVIOUS
<1>8. LinkTold(U, L, w.pc, w.reg, w.chain)
  <2> HIDE DEF U, L
  <2>1. Passed(U, L, w.pc, hr, hc)
    <3> HIDE DEF hr, hc
    <3> QED BY <1>7 DEF Passed
  <2>2. CASE Op(w.pc) = Transfer[w.reg] BY <2>1, <2>2 DEF LinkTold, HandsReg, HandsChain
  <2>3. CASE Op(w.pc) # Transfer[w.reg] /\ Op(w.pc) \in Transforms[w.reg]
    BY <2>1, <2>3 DEF LinkTold, HandsReg, HandsChain
  <2>4. CASE Op(w.pc) # Transfer[w.reg] /\ Op(w.pc) \notin Transforms[w.reg]
    BY <2>1, <2>4 DEF LinkTold, HandsReg, HandsChain
  <2> QED BY <2>2, <2>3, <2>4
<1>9. \A y \in new : \E p \in PredSet(w.pc) : y = <<p, HandsReg(w.pc, w.reg), HandsChain(w.pc, w.reg, w.chain)>>
  OBVIOUS
<1> HIDE DEF new, hr, hc
<1>10. \E W : Chains(W, Top.visited \cup {<<w.pc, w.reg>>}, LinksOf(Popped.work) \cup new, L)
  BY <1>1, <1>6, <1>8, <1>9, LinkFacts, LinkTaken
<1>11. ChainsOf(f) = L BY <1>4 DEF ChainsOf
<1>12. \E W : Chains(W, f.visited, LinksOf(f.work), ChainsOf(f)) BY <1>4, <1>5, <1>10, <1>11
<1>13. Linked(f)
  <2>1. IsFiniteSet(ChainsOf(f)) BY <1>1, <1>11 DEF Linked
  <2> QED BY <1>1, <1>4, <1>5, <1>12, <2>1 DEF Linked
<1> QED BY <1>1, <1>3, <1>13, NextFrame

LEMMA RevisitExact ==
  ASSUME NEW w, LinkStep(w), Revisit(w) PROVE Exact(phase', frames', lhs', dropped')
<1> DEFINE f == [Popped EXCEPT !.work = @ \o <<>>]
           x == <<w.pc, w.reg, w.chain>>
           rest == LinksOf(Popped.work)
<1>1. OneWay /\ Below = <<>> /\ Linked(Top) BY DEF LinkStep
<1>2. <<w.pc, w.reg>> \in Top.visited /\ Calls(Below, f) BY <1>1 DEF Revisit, Push, Key, Linked
<1>3. Popped.work \o <<>> = Popped.work
  <2>1. Popped.work \in Seq(Range(Popped.work)) BY LinkFacts DEF IsList
  <2> QED BY <2>1
<1>4. /\ DOMAIN f = DOMAIN Top /\ f.kind = "lhs" /\ f.work = Popped.work /\ f.visited = Top.visited
      /\ f.found = Top.found
  BY <1>1, <1>3 DEF Linked, Popped
<1> HIDE DEF f
<1>5. PICK V : Chains(V, Top.visited, LinksOf(Top.work), ChainsOf(Top)) BY <1>1 DEF Linked
<1>6. LinksOf(Top.work) = rest \cup {x} BY LinkFacts
<1>7. x \in V
  <2>1. PICK chain : <<w.pc, w.reg, chain>> \in V BY <1>2, <1>5 DEF Chains
  <2>2. chain = w.chain BY <1>5, <1>6, <2>1 DEF Chains
  <2> QED BY <2>1, <2>2
<1>8. V \cup LinksOf(Top.work) = V \cup rest BY <1>6, <1>7
<1> HIDE DEF rest
<1>9. Chains(V, Top.visited, rest, ChainsOf(Top)) BY <1>5, <1>8 DEF Chains
<1>10. ChainsOf(f) = ChainsOf(Top) BY <1>4 DEF ChainsOf
<1>11. Linked(f)
  <2>1. IsList(f.work) BY <1>4, LinkFacts
  <2>2. Chains(V, f.visited, LinksOf(f.work), ChainsOf(f)) BY <1>4, <1>9, <1>10 DEF rest
  <2>3. IsFiniteSet(ChainsOf(f)) BY <1>1, <1>10 DEF Linked
  <2> QED BY <1>1, <1>4, <2>1, <2>2, <2>3 DEF Linked
<1> QED BY <1>1, <1>2, <1>11, NextFrame

LEMMA LhsExact ==
  ASSUME NEW w, LinkStep(w), LhsStep(w) PROVE dropped' \/ Exact(phase', frames', lhs', dropped')
<1> SUFFICES ASSUME ~dropped' PROVE Exact(phase', frames', lhs', dropped') OBVIOUS
<1>1. /\ Below = <<>> /\ w.reg \in Reg /\ w.pc \in DOMAIN prog /\ prog \in Programs
      /\ Op(w.pc) # "PLA" /\ w.pc \notin PredSet(w.pc)
  BY LinkFacts DEF LinkStep
<1>2. CASE Load(w)
  <2>1. /\ Op(w.pc) \in Loaders[w.reg]
        /\ Calls(Below, [Expanded(w) EXCEPT !.found = @ \cup {[key |-> <<"var", Arg(w.pc)>>, chain |-> w.chain]}])
    BY <1>2 DEF Load
  <2> QED BY <2>1, FoundExact
<1>3. CASE Through(w)
  <2> DEFINE reg == IF Op(w.pc) = Transfer[w.reg] THEN Other[w.reg] ELSE w.reg
  <2>1. PICK preds \in Preds(w.pc) : Push(Expanded(w), Entries(preds, reg, Append(w.chain, Op(w.pc))))
    BY <1>3 DEF Through
  <2>2. Op(w.pc) \in Transforms[w.reg] \cup {Transfer[w.reg]} /\ PredSet(w.pc) # {} BY <1>3 DEF Through
  <2>3. preds \in Seq(DOMAIN prog) /\ Range(preds) = PredSet(w.pc) BY <1>1, <2>1, PredsAll
  <2>4. HandsReg(w.pc, w.reg) = reg /\ HandsChain(w.pc, w.reg, w.chain) = Append(w.chain, Op(w.pc))
    BY <2>2 DEF HandsReg, HandsChain
  <2> HIDE DEF reg
  <2>5. Push(Expanded(w), Entries(preds, HandsReg(w.pc, w.reg), HandsChain(w.pc, w.reg, w.chain)))
    BY <2>1, <2>4
  <2> QED BY <2>2, <2>3, <2>5, HandExact
<1>4. CASE Pass(w)
  <2>1. Op(w.pc) \in Neutral[w.reg] BY <1>4 DEF Pass
  <2>2. CASE PredSet(w.pc) = {}
    <3>1. Calls(Below, [Expanded(w) EXCEPT !.found = @ \cup {[key |-> <<"caller", w.reg>>, chain |-> w.chain]}])
      BY <1>4, <2>2 DEF Pass
    <3> QED BY <2>1, <2>2, <3>1, FoundExact
  <2>3. CASE PredSet(w.pc) # {}
    <3>1. PICK preds \in OtherPreds(w.pc) : Push(Expanded(w), Entries(preds, w.reg, w.chain))
      BY <1>4, <2>3 DEF Pass
    <3>2. JumpsTo(w.pc) \ {w.pc} = JumpsTo(w.pc) BY <1>1 DEF PredSet
    <3>3. preds \in Preds(w.pc) BY <3>1, <3>2 DEF Preds, OtherPreds
    <3>4. preds \in Seq(DOMAIN prog) /\ Range(preds) = PredSet(w.pc) BY <1>1, <3>3, PredsAll
    <3>5. Op(w.pc) \notin Transforms[w.reg] \cup {Transfer[w.reg]}
      BY <1>1, <2>1 DEF Neutral, NeutralToBoth, Branches, Transforms, Transfer, Reg
    <3>6. HandsReg(w.pc, w.reg) = w.reg /\ HandsChain(w.pc, w.reg, w.chain) = w.chain
      BY <3>5 DEF HandsReg, HandsChain
    <3>7. Push(Expanded(w), Entries(preds, HandsReg(w.pc, w.reg), HandsChain(w.pc, w.reg, w.chain)))
      BY <3>1, <3>6
    <3> QED BY <2>1, <2>3, <3>4, <3>7, HandExact
  <2> QED BY <2>2, <2>3
<1>5. CASE Compute(w)
  <2>1. Return(<<>>, Answer("computed_reg", {<<"computed", "A">>}, <<>>)) BY <1>1, <1>5 DEF Compute
  <2> QED BY <2>1, PlainAnswer DEF Answer
<1>6. CASE CallReturns(w)
  <2>1. Return(<<>>, Answer("jsr_return", {<<"return", Arg(w.pc), w.reg>>}, <<>>))
    BY <1>1, <1>6 DEF CallReturns
  <2> QED BY <2>1, PlainAnswer DEF Answer
<1>7. CASE GiveUp(w)
  <2>1. Return(<<>>, Unknown) BY <1>1, <1>7 DEF GiveUp
  <2> QED BY <2>1, PlainAnswer DEF Unknown, Answer
<1>8. ~Pull(w) BY <1>1 DEF Pull
<1> QED BY <1>2, <1>3, <1>4, <1>5, <1>6, <1>7, <1>8 DEF LhsStep

\* When the walk ends, a chain is reported only if it is the one found.
LEMMA EndExact ==
  ASSUME EndWalk, Below = <<>>, Linked(Top) PROVE Exact(phase', frames', lhs', dropped')
<1> DEFINE r == Combined(Top.found)
           keys == {s.key : s \in Top.found}
           chains == ChainsOf(Top)
<1>1. Top.work = <<>> /\ Top.kind = "lhs" /\ Return(<<>>, r) BY DEF EndWalk, Linked
<1>2. r.chain = <<>> \/ (Cardinality(chains) = 1 /\ chains # {} /\ r.chain = CHOOSE c \in chains : TRUE)
  <2>1. CASE keys = {}
    <3>1. r = Unknown
      <4>1. ~(Cardinality(keys) > 1)
        <5> HIDE DEF keys
        <5> QED BY <2>1, FS_EmptySet
      <4> QED BY <2>1, <4>1 DEF Combined
    <3> QED BY <3>1 DEF Unknown, Answer
  <2>2. CASE keys # {} /\ Cardinality(keys) > 1
    <3>1. r = Answer("multi_source", keys, <<>>) BY <2>2 DEF Combined
    <3> HIDE DEF r
    <3> QED BY <3>1 DEF Answer
  <2>3. CASE keys # {} /\ ~(Cardinality(keys) > 1)
    <3>1. \E kind : r = Answer(kind, keys, IF Cardinality(chains) = 1 THEN CHOOSE c \in chains : TRUE ELSE <<>>)
      BY <2>3 DEF Combined, ChainsOf
    <3>2. chains # {} BY <2>3 DEF ChainsOf
    <3>3. r.chain = IF Cardinality(chains) = 1 THEN CHOOSE c \in chains : TRUE ELSE <<>>
      <4> HIDE DEF r, chains, keys
      <4> QED BY <3>1 DEF Answer
    <3> HIDE DEF r, chains
    <3> QED BY <3>2, <3>3
  <2> QED BY <2>1, <2>2, <2>3
<1> HIDE DEF r
<1>3. CASE r.chain = <<>> BY <1>1, <1>3, PlainAnswer
<1>4. CASE Cardinality(chains) = 1 /\ chains # {} /\ r.chain = CHOOSE c \in chains : TRUE
  <2> DEFINE c == r.chain
  <2>1. c \in chains BY <1>4
  <2>2. PICK V : Chains(V, Top.visited, LinksOf(Top.work), chains) BY DEF Linked
  <2>3. chains = {c}
    <3>1. IsFiniteSet(chains) BY DEF Linked
    <3> HIDE DEF chains, c
    <3> QED BY <1>4, <2>1, <3>1, FS_Singleton
  <2>4. LinksOf(Top.work) = {} BY <1>1 DEF LinksOf, Range
  <2>5. Chains(V, {}, {}, {c}) BY <2>2, <2>3, <2>4 DEF Chains
  <2>6. IsList(c) BY <2>1 DEF Linked, ChainsOf
  <2>7. phase' = "done" /\ lhs' = r BY <1>1 DEF Return
  <2> QED BY <2>5, <2>6, <2>7 DEF Exact
<1> QED BY <1>2, <1>3, <1>4

LEMMA DroppedStays == ASSUME Walk, dropped PROVE dropped'
<1>1. \A w : LhsStep(w) => dropped' BY DEF LhsStep, Load, Through, Compute, Pull, Pass, CallReturns, GiveUp
<1>2. \A w : PlaStep(w) \/ Revisit(w) => dropped' BY DEF PlaStep, Revisit
<1> QED BY <1>1, <1>2 DEF Walk, EndWalk, OutOfSteps

LEMMA WalkExact ==
  ASSUME OneWay, Walk, Exact("walk", frames, lhs, dropped) PROVE Exact(phase', frames', lhs', dropped')
<1>1. CASE dropped BY <1>1, DroppedStays DEF Exact
<1>2. CASE ~dropped
  <2>1. PICK f : frames = <<f>> /\ Linked(f) BY <1>2 DEF Exact
  <2>2. Top = f /\ Below = <<>> BY <2>1, OneFrame
  <2>3. phase = "walk" BY DEF Walk
  <2>4. CASE EndWalk BY <2>1, <2>2, <2>4, EndExact
  <2>5. CASE OutOfSteps
    <3>1. Return(<<>>, Unknown) BY <2>2, <2>5 DEF OutOfSteps
    <3> QED BY <3>1, PlainAnswer DEF Unknown, Answer
  <2>6. CASE Top.work # <<>> /\ LET w == Last(Top.work) IN Revisit(w) \/ LhsStep(w) \/ PlaStep(w)
    <3> DEFINE w == Last(Top.work)
    <3>1. LinkStep(w) BY <1>2, <2>1, <2>2, <2>3, <2>6 DEF LinkStep
    <3>2. Revisit(w) \/ LhsStep(w) \/ PlaStep(w) BY <2>6
    <3>3. Top.kind = "lhs" BY <2>1, <2>2 DEF Linked
    <3> HIDE DEF w
    <3>4. ~PlaStep(w) BY <3>3 DEF PlaStep
    <3> QED BY <3>1, <3>2, <3>4, RevisitExact, LhsExact DEF Exact
  <2> QED BY <2>4, <2>5, <2>6 DEF Walk
<1> QED BY <1>1, <1>2

\* The walk starts at the setter.
LEMMA StartExact ==
  ASSUME OneWay, Found, Asks PROVE Exact(phase', frames', lhs', dropped')
<1> DEFINE reg == WalkReg(Op(setter))
<1>1. prog \in Programs /\ setter \in DOMAIN prog /\ Op(setter) # "PLA" BY DEF OneWay, Unforked
<1>2. reg \in Reg /\ Op(setter) # "JSR" /\ reg # "" BY <1>1 DEF Asks, WalkReg, Reg
<1>3. Op(setter) \notin Named BY <1>1 DEF Asks, WalkReg, Named
<1>4. ResolveLhs(<<>>, setter, WalkReg(Op(setter)), 0)
  <2> HIDE DEF reg
  <2>1. WalkReg(Op(setter)) # "" BY <1>2 DEF reg
  <2> QED BY <1>1, <1>2, <1>3, <2>1 DEF Found
<1>5. ResolveLhs(<<>>, setter, reg, 0) BY <1>4
<1>6. /\ setter \in Nat /\ setter \in 1 .. setter
  BY <1>1, Addresses
<1> HIDE DEF reg
<1>7. CASE PredSet(setter) = {}
  <2>1. Return(<<>>, FromCaller(reg)) BY <1>5, <1>7 DEF ResolveLhs
  <2> QED BY <2>1, PlainAnswer DEF FromCaller, Answer
<1>8. CASE PredSet(setter) # {}
  <2>1. PICK preds \in Preds(setter) : Calls(<<>>, LhsFrame(Entries(preds, reg, <<>>), 0))
    BY <1>5, <1>8 DEF ResolveLhs
  <2> DEFINE es == Entries(preds, reg, <<>>)
             f == LhsFrame(es, 0)
             work == {<<p, reg, <<>> >> : p \in PredSet(setter)}
  <2>2. preds \in Seq(DOMAIN prog) /\ Range(preds) = PredSet(setter) BY <1>1, <2>1, PredsAll
  <2>3. IsList(es) /\ LinksOf(es) = work BY <2>2, EntryLinks
  <2>4. Calls(<<>>, f) BY <2>1
  <2> HIDE DEF es
  <2>5. /\ DOMAIN f = {"kind", "work", "visited", "found", "steps", "depth"} /\ f.kind = "lhs"
        /\ f.work = es /\ f.visited = {} /\ f.found = {}
    BY DEF LhsFrame
  <2> HIDE DEF f
  <2>6. \A p \in PredSet(setter) : IsLink({}, p, reg, <<>>)
    <3>1. \A p \in PredSet(setter) : p \in 1 .. setter - 1 BY <1>6, Successor
    <3>2. IsList(<<>>) BY NoneLeft
    <3> QED BY <1>2, <3>1, <3>2 DEF IsLink, First, reg
  <2>7. Chains({}, {}, work, ChainsOf(f))
    <3>1. {} \cup work = work OBVIOUS
    <3>2. MainLink(work) BY <1>8 DEF MainLink, reg
    <3>3. \A q, r, c : <<q, r, c>> \in work => q \in PredSet(setter) /\ r = reg /\ c = <<>> OBVIOUS
    <3> HIDE DEF work
    <3> QED BY <2>6, <3>1, <3>2, <3>3 DEF Chains, LinksTold
  <2>8. IsFiniteSet(ChainsOf(f))
    <3>1. ChainsOf(f) = {} BY <2>5 DEF ChainsOf
    <3> QED BY <3>1, FS_EmptySet
  <2>9. Linked(f) BY <2>3, <2>5, <2>7, <2>8 DEF Linked
  <2> QED BY <2>4, <2>9, NextFrame
<1> QED BY <1>7, <1>8

\* The whole analysis, as far as chains go.
ChainKept == Unforked /\ Asks /\ phase # "setter" => Exact(phase, frames, lhs, dropped)

LEMMA ExactLater ==
  ASSUME prog' = prog, setter' = setter, Exact(phase', frames', lhs', dropped')
  PROVE  Exact(phase, frames, lhs, dropped)'
<1>1. \A p : PredSet(p)' = PredSet(p) /\ Op(p)' = Op(p) BY DEF PredSet, JumpsTo, FallIn, Op, Arg
<1>2. /\ \A V, K, p, reg, c : LinkTold(V, K, p, reg, c)' <=> LinkTold(V, K, p, reg, c)
      /\ \A V, p, reg, c : IsLink(V, p, reg, c)' <=> IsLink(V, p, reg, c)
      /\ \A V : MainLink(V)' <=> MainLink(V)
  <2>1. \A V, K, p, reg, c : Passed(V, K, p, reg, c)' <=> Passed(V, K, p, reg, c) BY <1>1 DEF Passed
  <2>2. \A V, K, p, reg, c : LinkTold(V, K, p, reg, c)' <=> LinkTold(V, K, p, reg, c)
    BY <1>1, <2>1 DEF LinkTold
  <2>3. \A V, p, reg, c : Handed(V, p, reg, c)' <=> Handed(V, p, reg, c)
    <3>1. /\ \A q, r : HandsReg(q, r)' = HandsReg(q, r)
          /\ \A q, r, c : HandsChain(q, r, c)' = HandsChain(q, r, c)
      BY <1>1 DEF HandsReg, HandsChain
    <3> QED BY <1>1, <3>1 DEF Handed
  <2>4. \A V, p, reg, c : IsLink(V, p, reg, c)' <=> IsLink(V, p, reg, c)
    BY <1>1, <2>3 DEF IsLink, First
  <2>5. \A V : MainLink(V)' <=> MainLink(V) BY <1>1 DEF MainLink
  <2> QED BY <2>2, <2>4, <2>5
<1>3. \A V, W, K : LinksTold(V, W, K)' <=> LinksTold(V, W, K) BY <1>2 DEF LinksTold
<1>4. \A V, vis, work, K : Chains(V, vis, work, K)' <=> Chains(V, vis, work, K) BY <1>2, <1>3 DEF Chains
<1>5. \A f : Linked(f)' <=> Linked(f) BY <1>4 DEF Linked, LinksOf, ChainsOf
<1> QED BY <1>4, <1>5 DEF Exact

LEMMA ChainKeptStep ==
  ASSUME Between, ChainKept, [Next]_allVars PROVE ChainKept'
<1>1. prog' = prog /\ branch' = branch BY DEF Next, Analyze, Execute, vars, allVars
<1>2. CASE setter' # setter \/ phase' = "setter"
  <2>1. CASE FindSetter /\ Skip BY <2>1 DEF FindSetter, Skip, ChainKept
  <2>2. CASE FindSetter /\ NoSetter BY <2>2 DEF NoSetter, ChainKept, Asks
  <2>3. CASE FindSetter /\ Found BY <1>2, <2>3 DEF FindSetter, Found, ChainKept
  <2>4. CASE Walk BY <1>2, <2>4 DEF Walk, ChainKept
  <2>5. CASE UNCHANGED vars BY <1>2, <2>5 DEF vars, ChainKept
  <2> QED BY <2>1, <2>2, <2>3, <2>4, <2>5 DEF Next, Analyze, Execute, FindSetter, vars, allVars
<1>3. CASE setter' = setter /\ phase' # "setter"
  <2>1. (Unforked' <=> Unforked) /\ (Asks' <=> Asks)
    BY <1>1, <1>3 DEF Unforked, Jumps, Asks, Op, Arg
  <2> SUFFICES ASSUME Unforked, Asks PROVE Exact(phase, frames, lhs, dropped)'
    BY <2>1 DEF ChainKept
  <2>2. OneWay
    <3>1. prog \in Programs /\ branch \in DOMAIN prog /\ setter \in 0 .. branch - 1 /\ setter # 0
      BY DEF Between, Asks
    <3>2. setter \in DOMAIN prog BY <3>1, Addresses
    <3> QED BY <3>1, <3>2 DEF OneWay
  <2>3. CASE FindSetter /\ Skip BY <1>3, <2>3 DEF FindSetter, Skip
  <2>4. CASE FindSetter /\ NoSetter BY <1>3, <2>4 DEF NoSetter, Asks
  <2>5. CASE FindSetter /\ Found BY <1>1, <1>3, <2>2, <2>5, StartExact, ExactLater
  <2>6. CASE Walk
    <3>1. phase = "walk" BY <2>6 DEF Walk
    <3>2. Exact("walk", frames, lhs, dropped) BY <3>1 DEF ChainKept
    <3> QED BY <1>1, <1>3, <2>2, <2>6, <3>2, WalkExact, ExactLater
  <2>7. CASE UNCHANGED vars
    <3>1. phase' = phase /\ frames' = frames /\ lhs' = lhs /\ dropped' = dropped BY <2>7 DEF vars
    <3>2. Exact(phase, frames, lhs, dropped) BY <1>3, <3>1 DEF ChainKept
    <3> HIDE DEF Exact
    <3>3. Exact(phase', frames', lhs', dropped') BY <3>1, <3>2
    <3> QED BY <1>1, <1>3, <3>3, ExactLater
  <2> QED BY <2>3, <2>4, <2>5, <2>6, <2>7 DEF Next, Analyze, Execute, FindSetter, vars, allVars
<1> QED BY <1>2, <1>3

(***************************************************************************)
(* The transforms that a value goes through in an execution.               *)
(***************************************************************************)

LEMMA Reversing ==
  ASSUME NEW v, IsList(v), NEW c, IsList(c), NEW x
  PROVE  /\ v \o Reverse(Append(c, x)) = Append(v, x) \o Reverse(c)
         /\ v \o Reverse(<<>>) = v /\ <<>> \o Reverse(c) = Reverse(c)
<1> DEFINE S == Range(v) \cup Range(c) \cup {x}
           m == Len(v)
           n == Len(c)
           cx == Append(c, x)
           vx == Append(v, x)
           rc == Reverse(c)
           rx == Reverse(cx)
<1>1. /\ v \in Seq(S) /\ c \in Seq(S) /\ x \in S /\ Len(v) = m /\ Len(c) = n
      /\ v = [i \in 1 .. m |-> v[i]] /\ \A i \in 1 .. n : c[i] \in S
  BY DEF IsList
<1>0. m \in Nat /\ n \in Nat BY <1>1
<1> HIDE DEF S
<1>2. cx \in Seq(S) /\ Len(cx) = n + 1 /\ cx[n + 1] = x /\ \A i \in 1 .. n : cx[i] = c[i] BY <1>1
<1>3. vx \in Seq(S) /\ Len(vx) = m + 1 /\ vx[m + 1] = x /\ \A i \in 1 .. m : vx[i] = v[i] BY <1>1
<1> HIDE DEF cx, vx
<1>4. \A s \in Seq(S) : /\ Reverse(s) \in Seq(S) /\ Len(Reverse(s)) = Len(s)
                        /\ \A i \in 1 .. Len(s) : Reverse(s)[i] = s[Len(s) - i + 1]
  <2> SUFFICES ASSUME NEW s \in Seq(S)
               PROVE  /\ Reverse(s) \in Seq(S) /\ Len(Reverse(s)) = Len(s)
                      /\ \A i \in 1 .. Len(s) : Reverse(s)[i] = s[Len(s) - i + 1]
    OBVIOUS
  <2>1. Reverse(s) = [i \in 1 .. Len(s) |-> s[(Len(s) - i) + 1]] BY DEF Reverse
  <2>2. \A i \in 1 .. Len(s) : (Len(s) - i) + 1 \in 1 .. Len(s) OBVIOUS
  <2>3. \A i \in 1 .. Len(s) : s[(Len(s) - i) + 1] \in S BY <2>2
  <2>4. Reverse(s) \in [1 .. Len(s) -> S] BY <2>1, <2>3
  <2> QED BY <2>1, <2>4
<1>5. rc \in Seq(S) /\ Len(rc) = n /\ \A i \in 1 .. n : rc[i] = c[n - i + 1] BY <1>1, <1>4
<1>6. rx \in Seq(S) /\ Len(rx) = n + 1 /\ \A i \in 1 .. n + 1 : rx[i] = cx[n + 1 - i + 1] BY <1>2, <1>4
<1> HIDE DEF rc, rx, m, n
<1>13. \A s, t \in Seq(S) : /\ s \o t \in Seq(S) /\ Len(s \o t) = Len(s) + Len(t)
                            /\ \A i \in 1 .. Len(s) : (s \o t)[i] = s[i]
                            /\ \A i \in 1 .. Len(t) : (s \o t)[Len(s) + i] = t[i]
  OBVIOUS
<1> DEFINE left == v \o rx
           right == vx \o rc
<1>7. /\ left \in Seq(S) /\ Len(left) = m + n + 1 /\ \A i \in 1 .. m : left[i] = v[i]
      /\ \A i \in 1 .. n + 1 : left[m + i] = rx[i]
  <2>1. Len(v) + Len(rx) = m + n + 1 BY <1>0, <1>1, <1>6
  <2>2. /\ left \in Seq(S) /\ Len(left) = Len(v) + Len(rx) /\ \A i \in 1 .. Len(v) : left[i] = v[i]
        /\ \A i \in 1 .. Len(rx) : left[Len(v) + i] = rx[i]
    <3>1. v \in Seq(S) /\ rx \in Seq(S) BY <1>1, <1>6
    <3> QED BY <1>13, <3>1
  <2>3. Len(v) = m /\ Len(rx) = n + 1 BY <1>1, <1>6
  <2> HIDE DEF left
  <2> QED BY <2>1, <2>2, <2>3
<1>8. /\ right \in Seq(S) /\ Len(right) = m + n + 1 /\ \A i \in 1 .. m + 1 : right[i] = vx[i]
      /\ \A i \in 1 .. n : right[m + 1 + i] = rc[i]
  <2>1. Len(vx) + Len(rc) = m + n + 1 BY <1>0, <1>3, <1>5
  <2>2. /\ right \in Seq(S) /\ Len(right) = Len(vx) + Len(rc)
        /\ \A i \in 1 .. Len(vx) : right[i] = vx[i]
        /\ \A i \in 1 .. Len(rc) : right[Len(vx) + i] = rc[i]
    <3>1. vx \in Seq(S) /\ rc \in Seq(S) BY <1>3, <1>5
    <3> QED BY <1>13, <3>1
  <2>3. Len(vx) = m + 1 /\ Len(rc) = n BY <1>3, <1>5
  <2> HIDE DEF right
  <2> QED BY <2>1, <2>2, <2>3
<1> HIDE DEF left, right
<1>9. \A i \in 1 .. m + n + 1 : left[i] = right[i]
  <2> SUFFICES ASSUME NEW i \in 1 .. m + n + 1 PROVE left[i] = right[i] OBVIOUS
  <2>1. CASE i <= m
    <3>1. i \in 1 .. m /\ i \in 1 .. m + 1 BY <1>0, <2>1
    <3> QED BY <1>3, <1>7, <1>8, <3>1
  <2>2. CASE i = m + 1
    <3>1. left[m + 1] = rx[1] BY <1>0, <1>7
    <3>2. rx[1] = cx[n + 1]
      <4>1. 1 \in 1 .. n + 1 /\ n + 1 - 1 + 1 = n + 1 BY <1>0
      <4> QED BY <1>6, <4>1
    <3>3. right[m + 1] = vx[m + 1] BY <1>0, <1>8
    <3> QED BY <1>2, <1>3, <2>2, <3>1, <3>2, <3>3
  <2>3. CASE i > m + 1
    <3> DEFINE j == i - m - 1
    <3>1. j \in 1 .. n /\ j + 1 \in 1 .. n + 1 /\ i = m + (j + 1) /\ i = m + 1 + j BY <1>0, <2>3
    <3> HIDE DEF j
    <3>2. left[i] = rx[j + 1] BY <1>7, <3>1
    <3>3. right[i] = rc[j] BY <1>8, <3>1
    <3>4. n + 1 - (j + 1) + 1 = n - j + 1 /\ n - j + 1 \in 1 .. n BY <1>0, <3>1
    <3>5. rx[j + 1] = cx[n - j + 1] BY <1>6, <3>1, <3>4
    <3>6. cx[n - j + 1] = c[n - j + 1] BY <1>2, <3>4
    <3> QED BY <1>5, <3>1, <3>2, <3>3, <3>5, <3>6
  <2> QED BY <1>0, <2>1, <2>2, <2>3
<1>10. left = right
  <2>1. \A s \in Seq(S) : s = [i \in 1 .. Len(s) |-> s[i]] OBVIOUS
  <2>2. left = [i \in 1 .. m + n + 1 |-> left[i]] /\ right = [i \in 1 .. m + n + 1 |-> right[i]]
    BY <1>7, <1>8, <2>1
  <2> QED BY <1>9, <2>2
<1>11. Reverse(<<>>) = <<>>
  <2>1. <<>> \in Seq(S) /\ Len(<<>>) = 0 OBVIOUS
  <2>2. Reverse(<<>>) \in Seq(S) /\ Len(Reverse(<<>>)) = 0 BY <1>4, <2>1
  <2> QED BY <2>2
<1>12. v \o <<>> = v /\ <<>> \o rc = rc BY <1>1, <1>5
<1> QED BY <1>10, <1>11, <1>12 DEF left, right, rx, rc, vx, cx

\* A link holds where the execution is: what the value has gone through, and
\* what it still has to, is the whole chain.
ChainBorne(V, full) ==
  at \in DOMAIN prog =>
    \A reg \in Reg : \A chain :
      IsList(chain) /\ Passed(V, {full}, at, reg, chain) =>
        \/ regs[reg].chain \o Reverse(chain) = Reverse(full)
        \/ regs[reg].key \in Overlooked

ChainLists ==
  /\ \A reg \in Reg : IsList(regs[reg].chain)
  /\ \A v \in Range(stack) : IsList(v.chain)

Threaded ==
  /\ ChainLists
  /\ phase = "done" => \A V, full : IsList(full) /\ LinksTold(V, V, {full}) => ChainBorne(V, full)

LEMMA ValueChains ==
  /\ \A key : Value(key).chain = <<>>
  /\ \A v : IsValue(v) => Through1(v).chain = Append(v.chain, Op(at))
<1>1. \A key : Value(key).chain = <<>> BY DEF Value
<1>2. ASSUME NEW v, IsValue(v) PROVE Through1(v).chain = Append(v.chain, Op(at))
  BY <1>2 DEF IsValue, Through1
<1> QED BY <1>1, <1>2

LEMMA ChainsBorne ==
  ASSUME Values, ChainLists, at \in DOMAIN prog, NEW V, NEW full, IsList(full), ChainBorne(V, full),
         NEW reg \in Reg, NEW chain, IsList(chain), NEW K, K = {full}, LinkTold(V, K, at, reg, chain)
  PROVE  \/ RegsAfter[reg].chain \o Reverse(chain) = Reverse(full)
         \/ RegsAfter[reg].key \in Overlooked
<1> DEFINE longer == Append(chain, Op(at))
<1>1. Leaves(RegsAfter) BY RegsFacts DEF Values
<1>2. \A r \in Reg : IsValue(regs[r]) /\ IsList(regs[r].chain) BY DEF Values, ChainLists
<1>3. \A r \in Reg : \A c :
        IsList(c) /\ Passed(V, {full}, at, r, c) =>
          regs[r].chain \o Reverse(c) = Reverse(full) \/ regs[r].key \in Overlooked
  BY DEF ChainBorne
<1>4. IsList(longer) BY Appending
<1>5. ASSUME NEW r \in Reg, Passed(V, {full}, at, r, longer), RegsAfter[reg] = Through1(regs[r])
      PROVE  \/ RegsAfter[reg].chain \o Reverse(chain) = Reverse(full)
             \/ RegsAfter[reg].key \in Overlooked
  <2>1. RegsAfter[reg].chain = Append(regs[r].chain, Op(at)) BY <1>2, <1>5, ValueChains
  <2>4. RegsAfter[reg].key = regs[r].key BY <1>2, <1>5, ValueKeys
  <2>2. regs[r].chain \o Reverse(longer) = Reverse(full) \/ regs[r].key \in Overlooked BY <1>3, <1>4, <1>5
  <2>3. regs[r].chain \o Reverse(longer) = Append(regs[r].chain, Op(at)) \o Reverse(chain)
    <3> DEFINE v == regs[r].chain
               x == Op(at)
    <3>1. IsList(v) BY <1>2
    <3> HIDE DEF v, x
    <3>2. v \o Reverse(Append(chain, x)) = Append(v, x) \o Reverse(chain) BY <3>1, Reversing
    <3> QED BY <3>2 DEF v, x
  <2> QED BY <2>1, <2>2, <2>3, <2>4
<1>6. CASE Op(at) \in Loaders[reg] /\ chain \in {full}
  <2>1. RegsAfter[reg] = Value(<<"var", Arg(at)>>) /\ chain = full BY <1>1, <1>6 DEF Leaves
  <2>2. RegsAfter[reg].chain = <<>> BY <2>1, ValueChains
  <2>3. <<>> \o Reverse(full) = Reverse(full) BY NoneLeft, Reversing
  <2> QED BY <2>1, <2>2, <2>3
<1>7. CASE Op(at) \in Neutral[reg] /\ Passed(V, {full}, at, reg, chain)
  <2>1. RegsAfter[reg] = regs[reg] BY <1>1, <1>7 DEF Leaves
  <2> QED BY <1>3, <1>7, <2>1
<1>8. CASE Op(at) \in Transforms[reg] /\ Passed(V, {full}, at, reg, longer)
  <2>1. RegsAfter[reg] = Through1(regs[reg]) BY <1>1, <1>8 DEF Leaves
  <2> QED BY <1>5, <1>8, <2>1
<1>9. CASE Op(at) = Transfer[reg] /\ Passed(V, {full}, at, Other[reg], longer)
  <2>1. RegsAfter[reg] = Through1(regs[Other[reg]]) BY <1>1, <1>9 DEF Leaves
  <2>2. Other[reg] \in Reg BY DEF Other, Reg
  <2> QED BY <1>5, <1>9, <2>1, <2>2
<1> QED BY <1>6, <1>7, <1>8, <1>9 DEF LinkTold

LEMMA ChainListsStay ==
  ASSUME Values, ChainLists, regs' = RegsAfter, stack' = StackAfter PROVE ChainLists'
<1>1. Leaves(RegsAfter) BY RegsFacts DEF Values
<1>2. /\ IsList(stack) /\ \A v \in Range(stack) : IsList(v.chain)
      /\ \A r \in Reg : IsValue(regs[r]) /\ IsList(regs[r].chain)
  BY DEF Values, ChainLists
<1>3. \A key : IsList(Value(key).chain) BY ValueChains, NoneLeft
<1>4. IsList(Pulled.chain)
  <2>1. CASE stack = <<>> BY <1>3, <2>1 DEF Pulled
  <2>2. CASE stack # <<>>
    <3>1. Last(stack) \in Range(stack) BY <1>2, <2>2, Popping
    <3> QED BY <1>2, <2>2, <3>1 DEF Pulled
  <2> QED BY <2>1, <2>2
<1>5. ASSUME NEW r \in Reg PROVE IsList(Through1(regs[r]).chain)
  <2>1. Through1(regs[r]).chain = Append(regs[r].chain, Op(at)) BY <1>2, ValueChains
  <2>2. IsList(Append(regs[r].chain, Op(at))) BY <1>2, Appending
  <2> QED BY <2>1, <2>2
<1>6. \A reg \in Reg : IsList(RegsAfter[reg].chain)
  <2> SUFFICES ASSUME NEW reg \in Reg PROVE IsList(RegsAfter[reg].chain) OBVIOUS
  <2>1. \/ \E key : RegsAfter[reg] = Value(key)
        \/ RegsAfter[reg] = Pulled
        \/ \E r \in Reg : RegsAfter[reg] = regs[r] \/ RegsAfter[reg] = Through1(regs[r])
    BY <1>1 DEF Leaves
  <2> QED BY <1>2, <1>3, <1>4, <1>5, <2>1
<1>7. \A v \in Range(StackAfter) : IsList(v.chain)
  <2>1. ASSUME NEW v, IsList(v.chain), StackAfter = Append(stack, v)
        PROVE  \A u \in Range(StackAfter) : IsList(u.chain)
    BY <1>2, <2>1, Appending
  <2>2. CASE Op(at) = "PHA"
    <3>1. IsList(regs["A"].chain) BY <1>2 DEF Reg
    <3>2. StackAfter = Append(stack, regs["A"]) BY <2>2 DEF StackAfter
    <3> QED BY <2>1, <3>1, <3>2
  <2>3. CASE Op(at) = "PHP"
    <3>1. StackAfter = Append(stack, Value(<<"status">>)) BY <2>3 DEF StackAfter
    <3> QED BY <1>3, <2>1, <3>1
  <2>4. CASE Op(at) \in {"PLA", "PLP"} /\ stack # <<>>
    <3>1. StackAfter = Front(stack) BY <2>4 DEF StackAfter
    <3> QED BY <1>2, <2>4, <3>1, Popping
  <2>5. CASE Op(at) = "TXS"
    <3>1. StackAfter = <<>> BY <2>5 DEF StackAfter
    <3>2. Range(<<>>) = {} BY DEF Range
    <3> QED BY <3>1, <3>2
  <2>6. CASE Op(at) \notin {"PHA", "PHP", "PLA", "PLP", "TXS"} \/ (Op(at) \in {"PLA", "PLP"} /\ stack = <<>>)
    <3>1. StackAfter = stack BY <2>6 DEF StackAfter
    <3> QED BY <1>2, <3>1
  <2> QED BY <2>2, <2>3, <2>4, <2>5, <2>6
<1> QED BY <1>6, <1>7 DEF ChainLists

\* What a link says does not change with the execution.
LEMMA SameLinks ==
  ASSUME prog' = prog
  PROVE  /\ \A V, W, K : LinksTold(V, W, K)' <=> LinksTold(V, W, K)
         /\ \A V, K, p, reg, c : Passed(V, K, p, reg, c)' <=> Passed(V, K, p, reg, c)
<1>1. \A p : PredSet(p)' = PredSet(p) /\ Op(p)' = Op(p) BY DEF PredSet, JumpsTo, FallIn, Op, Arg
<1>2. \A V, K, p, reg, c : Passed(V, K, p, reg, c)' <=> Passed(V, K, p, reg, c) BY <1>1 DEF Passed
<1>3. \A V, K, p, reg, c : LinkTold(V, K, p, reg, c)' <=> LinkTold(V, K, p, reg, c)
  BY <1>1, <1>2 DEF LinkTold
<1> QED BY <1>2, <1>3 DEF LinksTold

LEMMA ThreadedStep ==
  ASSUME Between, LastSet, Running, Threaded, [Next]_allVars
  PROVE  Threaded'
<1> USE DEF Threaded
<1>1. CASE Analyze /\ UNCHANGED execVars
  <2>1. UNCHANGED execVars /\ prog' = prog /\ (phase = "setter" \/ phase = "walk")
    BY <1>1 DEF Analyze, FindSetter, Walk
  <2>2. at = 0 BY <2>1 DEF LastSet
  <2>3. at' = 0 /\ regs' = regs /\ stack' = stack BY <2>1, <2>2 DEF execVars
  <2>4. 0 \notin DOMAIN prog BY Addresses DEF Between
  <2>5. \A V, full : ChainBorne(V, full)' BY <2>1, <2>3, <2>4 DEF ChainBorne
  <2> QED BY <2>3, <2>5 DEF ChainLists, IsList
<1>2. CASE UNCHANGED allVars
  <2>1. /\ prog' = prog /\ at' = at /\ regs' = regs /\ stack' = stack /\ phase' = phase
        /\ entry' = entry
    BY <1>2 DEF allVars
  <2>5. Overlooked' = Overlooked BY <2>1, SameClaims
  <2>2. \A V, K, p, reg, c : Passed(V, K, p, reg, c)' <=> Passed(V, K, p, reg, c) BY <2>1, SameLinks
  <2>3. \A V, K, reg, c : Passed(V, K, at, reg, c)' <=> Passed(V, K, at, reg, c)
    BY <2>1 DEF Passed, PredSet, JumpsTo, FallIn, Op, Arg
  <2>4. \A V, full : ChainBorne(V, full)' <=> ChainBorne(V, full) BY <2>1, <2>3, <2>5 DEF ChainBorne, IsList
  <2> QED BY <2>1, <2>4, SameLinks DEF ChainLists, IsList
<1>3. CASE Execute
  <2>1. prog' = prog /\ phase' = phase /\ phase = "done" BY <1>3 DEF Execute, vars
  <2>2. CASE Enter
    <3>1. at = 0 /\ at' \in DOMAIN prog /\ entry' = at' /\ regs' = regs /\ stack' = stack BY <2>2 DEF Enter
    <3>3. \A reg \in Reg : regs'[reg].chain = <<>> /\ regs'[reg].key = <<"caller", reg>>
      BY <3>1, ValueChains, ValueKeys DEF Running
    <3>4. ASSUME NEW V, NEW full, IsList(full) PROVE ChainBorne(V, full)'
      <4>1. CASE PredSet(at') = {}
        <5>1. \A reg, c : Passed(V, {full}, at, reg, c)' => c = full
          BY <2>1, <4>1 DEF Passed, PredSet, JumpsTo, FallIn, Op, Arg
        <5>2. \A reg \in Reg : regs'[reg].chain \o Reverse(full) = Reverse(full) BY <3>3, <3>4, Reversing
        <5> QED BY <5>1, <5>2 DEF ChainBorne
      <4>2. CASE PredSet(at') # {}
        <5>1. Overlooked' = Brought
          BY <2>1, <3>1, <4>2 DEF Overlooked, PredSet, JumpsTo, FallIn, Op, Arg, Brought
        <5>2. \A reg \in Reg : regs'[reg].key \in Overlooked' BY <3>3, <5>1 DEF Brought
        <5> QED BY <5>2 DEF ChainBorne
      <4> QED BY <4>1, <4>2
    <3> QED BY <3>1, <3>4 DEF ChainLists, IsList
  <2>3. CASE Step
    <3>1. at \in DOMAIN prog /\ regs' = RegsAfter /\ stack' = StackAfter /\ at' \in Nexts BY <2>3 DEF Step
    <3>2. Values BY DEF Running
    <3>3. ChainLists' BY <3>1, <3>2, ChainListsStay
    <3>5. Overlooked' = Overlooked BY <2>1, <2>3, SameClaims DEF Step
    <3>4. ASSUME NEW V, NEW full, IsList(full), LinksTold(V, V, {full}) PROVE ChainBorne(V, full)'
      <4>1. ChainBorne(V, full) BY <2>1, <3>4
      <4>2. ASSUME at' \in DOMAIN prog, NEW reg \in Reg, NEW c, IsList(c), Passed(V, {full}, at, reg, c)'
            PROVE  regs'[reg].chain \o Reverse(c) = Reverse(full) \/ regs'[reg].key \in Overlooked
        <5>1. prog \in Programs BY DEF Between
        <5>2. at' # Ended BY <4>2, <5>1, Addresses
        <5>3. at \in PredSet(at') BY <3>1, <5>1, <5>2, StepsFromPred
        <5>4. <<at, reg, c>> \in V
          BY <2>1, <4>2, <5>3 DEF Passed, PredSet, JumpsTo, FallIn, Op, Arg
        <5>5. LinkTold(V, {full}, at, reg, c) BY <3>4, <5>4 DEF LinksTold
        <5>6. IsList(c) /\ reg \in Reg BY <4>2 DEF IsList
        <5>7. ChainLists BY DEF Threaded
        <5> HIDE DEF Threaded
        <5>8. RegsAfter[reg].chain \o Reverse(c) = Reverse(full) \/ RegsAfter[reg].key \in Overlooked
          <6> DEFINE K == {full}
          <6>1. at \in DOMAIN prog /\ IsList(full) BY <3>1, <3>4
          <6>2. K = {full} /\ LinkTold(V, K, at, reg, c) BY <5>5
          <6> HIDE DEF K
          <6> QED BY <3>2, <4>1, <5>6, <5>7, <6>1, <6>2, ChainsBorne
        <5> QED BY <3>1, <5>8
      <4> QED BY <2>1, <3>5, <4>2 DEF ChainBorne, IsList
    <3> QED BY <2>1, <3>3, <3>4, SameLinks DEF IsList
  <2> QED BY <1>3, <2>2, <2>3 DEF Execute
<1> QED BY <1>1, <1>2, <1>3 DEF Next

\* _resolve_lhs: where one way leads from any load to the setter, a chain that
\* is reported is what the tested value went through, newest first, unless the
\* caller brought it to an entry with predecessors.  TransformsInOrder, the
\* order a comment of the code gives, does not hold.
THEOREM ChainIsExact == Spec => []ChainExact
<1>1. ExecInit => ChainKept /\ Threaded
  <2> SUFFICES ASSUME ExecInit PROVE ChainKept /\ Threaded OBVIOUS
  <2>1. stack = <<>> /\ \A reg \in Reg : regs[reg] = Value(<<"caller", reg>>) BY DEF ExecInit
  <2>2. Range(stack) = {} BY <2>1 DEF Range
  <2>3. ChainLists BY <2>1, <2>2, ValueChains, NoneLeft DEF ChainLists
  <2>4. phase = "setter" BY DEF ExecInit, Init
  <2> QED BY <2>3, <2>4 DEF ChainKept, Threaded
<1>2. Between /\ ChainKept /\ Threaded /\ Running => ChainExact
  <2> SUFFICES ASSUME Between, ChainKept, Threaded, Running, AtWalked, Unforked, ~dropped, lhs.chain # <<>>
               PROVE  Tested.chain = Reverse(lhs.chain) \/ Tested.key \in Overlooked
    BY DEF ChainExact, Chained
  <2> DEFINE full == lhs.chain
             reg == WalkReg(Op(setter))
  <2>1. phase = "done" /\ at = setter /\ at # 0 /\ Asks BY DEF AtWalked, Done, Asks
  <2>2. prog \in Programs /\ setter \in DOMAIN prog
    <3>1. prog \in Programs /\ branch \in DOMAIN prog /\ setter \in 0 .. branch - 1 BY DEF Between
    <3> QED BY <2>1, <3>1, Addresses
  <2>3. Op(setter) # "PLA" BY <2>2 DEF Unforked
  <2>4. reg \in Reg BY <2>1, <2>3 DEF Asks, WalkReg, Reg
  <2>5. PICK V : IsList(full) /\ Chains(V, {}, {}, {full}) BY <2>1 DEF ChainKept, Exact
  <2>6. V \cup {} = V OBVIOUS
  <2>7. LinksTold(V, V, {full}) /\ MainLink(V) BY <2>5, <2>6 DEF Chains
  <2>8. ChainBorne(V, full) BY <2>1, <2>5, <2>7 DEF Threaded
  <2>9. Passed(V, {full}, at, reg, <<>>) BY <2>1, <2>7 DEF MainLink, Passed
  <2>10. IsList(<<>>) BY NoneLeft
  <2>11. regs[reg].chain \o Reverse(<<>>) = Reverse(full) \/ regs[reg].key \in Overlooked
    BY <2>1, <2>2, <2>4, <2>8, <2>9, <2>10 DEF ChainBorne
  <2>12. IsList(regs[reg].chain) BY <2>4 DEF Threaded, ChainLists
  <2>13. regs[reg].chain \o Reverse(<<>>) = regs[reg].chain BY <2>10, <2>12, Reversing
  <2>14. Tested = regs[reg] BY <2>3 DEF Tested
  <2> QED BY <2>11, <2>13, <2>14
<1>3. Between /\ LastSet /\ Running /\ ChainKept /\ Threaded /\ [Next]_allVars => ChainKept' /\ Threaded'
  BY ChainKeptStep, ThreadedStep
<1> QED BY <1>1, <1>2, <1>3, BetweenInit, BetweenStep, LastSetStep, RunningInit, RunningStep, PTL DEF Spec
=============================================================================
