---------------------------- MODULE RegExec_proofs ----------------------------
(***************************************************************************)
(* What the register analysis says, and that it is true of every execution,*)
(* for every program, set of registers and depth of calls.  First the      *)
(* tables: SInv says what holds of them while and after the loops compute  *)
(* them.  Then the execution: whatever runs in an activation was walked    *)
(* from a subroutine that the one entered calls (Within), and the frames   *)
(* of the run keep their promises to each other (Frames).                  *)
(***************************************************************************)
EXTENDS RegExec, TLAPS

Phases == {"walk", "clobbers", "inputs", "mustdef", "demand", "done"}
Later == {"inputs", "mustdef", "demand", "done"}

Typed ==
  /\ prog \in Programs /\ phase \in Phases
  /\ seen \in [Entries -> SUBSET Code]
  /\ unc \in [Entries -> BOOLEAN]
  /\ clob \in [Entries -> SUBSET Regs] /\ inputs \in [Entries -> SUBSET Regs]
  /\ must \in [Entries -> SUBSET Regs] /\ demand \in [Entries -> SUBSET Regs]

Direct(e) == UNION {Writes(pc) : pc \in seen[e]}
Solves(f) == \A e \in Entries : f[e] = Direct(e) \cup UNION {f[c] : c \in Callees(e)}

\* What the walk leaves for the loops.
Walked ==
  phase # "walk" =>
    \A e \in Entries :
      /\ e \in seen[e]
      /\ \A pc \in seen[e] : Succs(e, pc) \subseteq seen[e] /\ (Lost(pc) => unc[e])

\* The clobbers are between the direct ones and every solution.
Between ==
  phase # "walk" =>
    /\ \A e \in Entries : Direct(e) \subseteq clob[e]
                          /\ clob[e] \subseteq Direct(e) \cup UNION {clob[c] : c \in Callees(e)}
    /\ \A f \in [Entries -> SUBSET Regs] : Solves(f) => \A e \in Entries : clob[e] \subseteq f[e]

\* A loop that has ended leaves its tables as solutions.
Ended ==
  /\ phase \in Later => ClobbersSettled
  /\ phase \in Later \ {"inputs"} => \A e \in Entries : LiveIn(e) = inputs[e]
  /\ phase \in {"demand", "done"} => \A e \in Entries : DefinedAtExit(e) = must[e]

SInv == Typed /\ Walked /\ Between /\ Ended

(***************************************************************************)
(* The equations depend on nothing else.                                   *)
(***************************************************************************)

LEMMA SameProgram ==
  ASSUME prog' = prog
  PROVE  /\ Code' = Code /\ Smc' = Smc /\ Entries' = Entries
         /\ \A pc : /\ At(pc)' = At(pc) /\ Writes(pc)' = Writes(pc) /\ Reads(pc)' = Reads(pc)
                    /\ Lost(pc)' = Lost(pc) /\ Invoked(pc)' = Invoked(pc)
                    /\ Continues(pc)' = Continues(pc)
                    /\ \A e : Succs(e, pc)' = Succs(e, pc) /\ Calls(e, pc)' = Calls(e, pc)
                              /\ Tails(e, pc)' = Tails(e, pc)
<1>1. Code' = Code BY DEF Code
<1>2. \A pc : At(pc)' = At(pc) BY DEF At
<1>3. Smc' = Smc BY <1>1 DEF Smc
<1>4. JsrTargets' = JsrTargets BY <1>1, <1>2 DEF JsrTargets
<1>5. Entries' = Entries BY <1>1, <1>3, <1>4 DEF Entries
<1>6. \A pc : Resolved(pc)' = Resolved(pc) BY <1>1, <1>2, <1>3 DEF Resolved
<1>7. \A pc : InKernal(pc)' = InKernal(pc) BY <1>1, <1>2, <1>3 DEF InKernal
<1>8. \A pc : Lost(pc)' = Lost(pc) BY <1>2, <1>3, <1>6, <1>7 DEF Lost
<1>9. \A pc : Invoked(pc)' = Invoked(pc) BY <1>2, <1>3, <1>6 DEF Invoked
<1>10. \A pc : Continues(pc)' = Continues(pc) BY <1>2, <1>6 DEF Continues
<1>11. \A pc : Writes(pc)' = Writes(pc) BY <1>2, <1>7 DEF Writes
<1>12. \A pc : Reads(pc)' = Reads(pc) BY <1>2, <1>7, <1>8 DEF Reads
<1>13. \A pc, e : Tails(e, pc)' = Tails(e, pc) BY <1>5, <1>10 DEF Tails
<1>14. \A pc, e : Succs(e, pc)' = Succs(e, pc) BY <1>1, <1>10, <1>13 DEF Succs
<1>15. \A pc, e : Calls(e, pc)' = Calls(e, pc) BY <1>9, <1>13 DEF Calls
<1> QED BY <1>1, <1>2, <1>3, <1>5, <1>8, <1>9, <1>10, <1>11, <1>12, <1>13, <1>14, <1>15

LEMMA SameGraphs ==
  ASSUME prog' = prog, seen' = seen
  PROVE  \A e : Callees(e)' = Callees(e) /\ Direct(e)' = Direct(e)
BY SameProgram DEF Callees, Direct

LEMMA SameWritten ==
  ASSUME prog' = prog, seen' = seen, clob' = clob, unc' = unc
  PROVE  \A e, r : /\ WrittenAfter(e, r)' = WrittenAfter(e, r)
                   /\ WrittenBefore(e, r)' = WrittenBefore(e, r)
<1>1. \A e, pc : NodeWrites(e, pc)' = NodeWrites(e, pc) BY SameProgram DEF NodeWrites
<1>2. \A e, pc : Preds(e, pc)' = Preds(e, pc) BY SameProgram DEF Preds
<1>3. \A e, r : WrittenAfter(e, r)' = WrittenAfter(e, r) BY <1>1, <1>2 DEF WrittenAfter
<1> QED BY <1>2, <1>3 DEF WrittenBefore

LEMMA SameLive ==
  ASSUME prog' = prog, seen' = seen, clob' = clob, unc' = unc, inputs' = inputs
  PROVE  \A e : LiveIn(e)' = LiveIn(e)
<1>1. \A e, pc : NodeReads(e, pc)' = NodeReads(e, pc) BY SameProgram DEF NodeReads
<1> QED BY <1>1, SameWritten DEF LiveIn

LEMMA SameExit ==
  ASSUME prog' = prog, seen' = seen, clob' = clob, unc' = unc, must' = must
  PROVE  \A e : DefinedAtExit(e)' = DefinedAtExit(e)
<1>1. \A e : Exits(e)' = Exits(e) BY SameProgram DEF Exits
<1> QED BY <1>1, SameWritten, SameProgram DEF DefinedAtExit

(***************************************************************************)
(* The graphs.                                                             *)
(***************************************************************************)

LEMMA CallsAreEntries ==
  ASSUME NEW e, NEW pc \in Code PROVE Calls(e, pc) \subseteq Entries
<1>1. Invoked(pc) \subseteq Entries
  <2>1. CASE pc \in Smc
    <3>1. prog.smc[pc] \subseteq Code /\ prog.smc[pc] \subseteq UNION {prog.smc[s] : s \in Smc}
      BY <2>1 DEF Smc
    <3> QED BY <2>1, <3>1 DEF Invoked, Entries, Resolved
  <2>2. CASE pc \notin Smc
    BY <2>2 DEF Invoked, Entries, Resolved, JsrTargets
  <2> QED BY <2>1, <2>2
<1> QED BY <1>1 DEF Calls, Tails

LEMMA ReachedClosed ==
  ASSUME NEW e \in Entries
  PROVE  /\ e \in Reached(e) /\ Reached(e) \subseteq Code
         /\ \A pc \in Reached(e) : Succs(e, pc) \subseteq Reached(e)
<1>1. e \in Code BY DEF Entries
<1>2. e \in Reached(e) /\ Reached(e) \subseteq Code BY <1>1 DEF Reached
<1>3. ASSUME NEW pc \in Reached(e), NEW q \in Succs(e, pc) PROVE q \in Reached(e)
  <2>1. q \in Code BY DEF Succs
  <2>2. ASSUME NEW S \in SUBSET Code, e \in S, \A p \in S : Succs(e, p) \subseteq S PROVE q \in S
    <3>1. pc \in S BY <1>3, <2>2 DEF Reached
    <3> QED BY <2>2, <3>1
  <2> QED BY <2>1, <2>2 DEF Reached
<1> QED BY <1>2, <1>3

LEMMA WritesAreRegs ==
  ASSUME prog \in Programs, NEW pc \in Code
  PROVE  /\ Writes(pc) \subseteq Regs /\ Reads(pc) \subseteq Regs
         /\ At(pc).op \in Ops /\ At(pc).rd \subseteq Regs /\ At(pc).wr \subseteq Regs
         /\ At(pc).op \notin {"plain", "branch"} => At(pc).rd = {} /\ At(pc).wr = {}
         /\ pc \in Nat /\ At(pc).tgt \in Nat
BY ProgramsAssumption, KernalAssumption DEF Writes, Reads, At, Code, InKernal

(***************************************************************************)
(* The tables: SInv is inductive.                                          *)
(***************************************************************************)

LEMMA SInit == ExecInit => SInv
<1> SUFFICES ASSUME Init PROVE SInv BY DEF ExecInit
<1>1. Typed BY DEF Init, Typed, Phases, InitialMust
<1> QED BY <1>1 DEF Init, SInv, Walked, Between, Ended, Later

LEMMA WalkStep == ASSUME SInv, Walk PROVE SInv'
<1>1. prog' = prog /\ prog \in Programs BY DEF Walk, SInv, Typed
<1>2. /\ Code' = Code /\ Entries' = Entries
      /\ \A pc : Writes(pc)' = Writes(pc) /\ Lost(pc)' = Lost(pc)
      /\ \A e, pc : Succs(e, pc)' = Succs(e, pc)
  BY <1>1, SameProgram
<1>3. \A e \in Entries : /\ seen'[e] = Reached(e) /\ seen'[e] \subseteq Code
                         /\ clob'[e] = UNION {Writes(pc) : pc \in Reached(e)}
                         /\ unc'[e] = \E pc \in Reached(e) : Lost(pc)
  BY ReachedClosed DEF Walk, DirectClobbers
<1>4. \A e \in Entries : clob'[e] \subseteq Regs
  <2>1. \A pc \in Code : Writes(pc) \subseteq Regs BY <1>1, WritesAreRegs
  <2>2. \A e \in Entries : Reached(e) \subseteq Code BY ReachedClosed
  <2> SUFFICES ASSUME NEW e \in Entries, NEW r \in clob'[e] PROVE r \in Regs OBVIOUS
  <2>3. r \in UNION {Writes(pc) : pc \in Reached(e)} BY <1>3
  <2>4. PICK pc \in Reached(e) : r \in Writes(pc) BY ONLY <2>3
  <2> QED BY <2>1, <2>2, <2>4
<1>5. Typed'
  <2>1. seen' \in [Entries -> SUBSET Code] BY <1>3 DEF Walk
  <2>2. clob' \in [Entries -> SUBSET Regs] BY <1>4 DEF Walk, DirectClobbers
  <2>3. unc' \in [Entries -> BOOLEAN] BY DEF Walk
  <2> QED BY <1>1, <1>2, <2>1, <2>2, <2>3 DEF Walk, SInv, Typed, Phases
<1>6. Walked'
  <2>1. \A e \in Entries : e \in seen'[e] /\ \A pc \in seen'[e] : Succs(e, pc) \subseteq seen'[e] /\ (Lost(pc) => unc'[e])
    <3>1. \A e \in Entries : /\ e \in Reached(e)
                             /\ \A pc \in Reached(e) : Succs(e, pc) \subseteq Reached(e)
      BY ReachedClosed
    <3> QED BY <1>3, <3>1
  <2> QED BY <1>2, <2>1 DEF Walked
<1>7. \A e \in Entries : Direct(e)' = clob'[e]
  <2> SUFFICES ASSUME NEW e \in Entries PROVE Direct(e)' = clob'[e] OBVIOUS
  <2>1. Direct(e)' = UNION {Writes(pc)' : pc \in seen'[e]} BY DEF Direct
  <2>2. Direct(e)' = UNION {Writes(pc) : pc \in seen'[e]} BY <1>2, <2>1
  <2> QED BY <1>3, <2>2
<1>8. Between'
  <2>1. ASSUME NEW f \in [Entries -> SUBSET Regs], Solves(f)', NEW e \in Entries PROVE clob'[e] \subseteq f[e]
    BY <1>2, <1>7, <2>1 DEF Solves
  <2> QED BY <1>2, <1>7, <2>1 DEF Between
<1>9. Ended' BY DEF Walk, Ended, Later
<1> QED BY <1>5, <1>6, <1>8, <1>9 DEF SInv

LEMMA CalleesAreEntries == ASSUME Typed, NEW e \in Entries PROVE Callees(e) \subseteq Entries
<1>1. seen[e] \subseteq Code BY DEF Typed
<1> QED BY <1>1, CallsAreEntries DEF Callees

LEMMA ClobberStep ==
  ASSUME SInv, NEW e \in Entries, GrowClobbers(e) PROVE SInv'
<1>1. prog' = prog /\ seen' = seen /\ phase' = phase /\ phase = "clobbers" BY DEF GrowClobbers
<1>2. /\ Code' = Code /\ Entries' = Entries
      /\ \A pc : Lost(pc)' = Lost(pc)
      /\ \A d, pc : Succs(d, pc)' = Succs(d, pc)
      /\ \A d : Callees(d)' = Callees(d) /\ Direct(d)' = Direct(d)
  BY <1>1, SameProgram, SameGraphs
<1>3. clob \in [Entries -> SUBSET Regs] /\ unc \in [Entries -> BOOLEAN] BY DEF SInv, Typed
<1>4. \A d \in Entries : Callees(d) \subseteq Entries BY CalleesAreEntries DEF SInv
<1>5. /\ clob' = [clob EXCEPT ![e] = Clobbers(e)] /\ unc' = [unc EXCEPT ![e] = Uncertain(e)]
  BY DEF GrowClobbers
<1>6. Clobbers(e) \subseteq Regs BY <1>3, <1>4 DEF Clobbers
<1>7. Typed'
  <2>1. clob' \in [Entries -> SUBSET Regs] BY <1>3, <1>5, <1>6
  <2>2. Uncertain(e) \in BOOLEAN BY <1>3 DEF Uncertain
  <2>3. unc' \in [Entries -> BOOLEAN] BY <1>3, <1>5, <2>2
  <2> QED BY <1>1, <1>2, <2>1, <2>3 DEF GrowClobbers, SInv, Typed
<1>8. Walked'
  <2>1. \A d \in Entries : unc[d] => unc'[d] BY <1>3, <1>5 DEF Uncertain
  <2> QED BY <1>1, <1>2, <2>1 DEF SInv, Walked
<1>9. Between'
  <2>1. \A d \in Entries : clob[d] \subseteq clob'[d] BY <1>3, <1>5 DEF Clobbers
  <2>2. \A d \in Entries : Direct(d) \subseteq clob[d] /\ clob[d] \subseteq Direct(d) \cup UNION {clob[c] : c \in Callees(d)}
    BY <1>1 DEF SInv, Between
  <2>3. \A d \in Entries : UNION {clob[c] : c \in Callees(d)} \subseteq UNION {clob'[c] : c \in Callees(d)}
    BY <1>4, <2>1
  <2>4. \A d \in Entries : clob'[d] \subseteq clob[d] \cup UNION {clob[c] : c \in Callees(d)}
    BY <1>3, <1>5 DEF Clobbers
  <2>5. ASSUME NEW f \in [Entries -> SUBSET Regs], Solves(f), NEW d \in Entries PROVE clob'[d] \subseteq f[d]
    <3>1. \A c \in Entries : clob[c] \subseteq f[c] BY <1>1, <2>5 DEF SInv, Between
    <3>2. UNION {clob[c] : c \in Callees(d)} \subseteq UNION {f[c] : c \in Callees(d)} BY <1>4, <3>1
    <3> QED BY <2>4, <2>5, <3>1, <3>2 DEF Solves
  <2>6. \A f : Solves(f)' <=> Solves(f) BY <1>2 DEF Solves
  <2> QED BY <1>2, <2>1, <2>2, <2>3, <2>4, <2>5, <2>6 DEF Between
<1>10. Ended' BY <1>1 DEF Ended, Later
<1> QED BY <1>7, <1>8, <1>9, <1>10 DEF SInv

\* What no step after the clobbers changes.
LEMMA StaticsStay ==
  ASSUME SInv, prog' = prog, seen' = seen, clob' = clob, unc' = unc, phase' \in Phases \ {"walk"}, phase # "walk"
  PROVE  Walked' /\ Between' /\ (ClobbersSettled => ClobbersSettled') /\ Entries' = Entries /\ Code' = Code
<1>1. /\ Entries' = Entries /\ Code' = Code /\ \A pc : Lost(pc)' = Lost(pc)
      /\ \A d, pc : Succs(d, pc)' = Succs(d, pc)
      /\ \A d : Callees(d)' = Callees(d) /\ Direct(d)' = Direct(d)
  BY SameProgram, SameGraphs
<1>2. Walked' BY <1>1 DEF SInv, Walked
<1>3. \A f : Solves(f)' <=> Solves(f) BY <1>1 DEF Solves
<1>4. Between' BY <1>1, <1>3 DEF SInv, Between
<1>5. ClobbersSettled => ClobbersSettled' BY <1>1 DEF ClobbersSettled, Clobbers, Uncertain
<1> QED BY <1>1, <1>2, <1>4, <1>5

LEMMA OtherSteps ==
  ASSUME SInv, \/ \E e \in Entries : GrowInputs(e) \/ ShrinkMust(e)
               \/ GrowDemand \/ EndLoop \/ UNCHANGED vars
  PROVE  SInv'
<1>1. CASE \E e \in Entries : GrowInputs(e) \/ ShrinkMust(e)
  <2>1. PICK e \in Entries : GrowInputs(e) \/ ShrinkMust(e) BY <1>1
  <2>2. /\ prog' = prog /\ seen' = seen /\ clob' = clob /\ unc' = unc /\ phase' = phase /\ demand' = demand
        /\ phase \in {"inputs", "mustdef"}
        /\ phase = "mustdef" => inputs' = inputs
    BY <2>1 DEF GrowInputs, ShrinkMust
  <2>3. Walked' /\ Between' /\ (ClobbersSettled => ClobbersSettled') /\ Entries' = Entries /\ Code' = Code
    BY <2>2, StaticsStay DEF Phases
  <2>4. inputs' \in [Entries -> SUBSET Regs] /\ must' \in [Entries -> SUBSET Regs]
    BY <2>1 DEF GrowInputs, ShrinkMust, SInv, Typed, LiveIn, DefinedAtExit
  <2>5. Typed' BY <2>2, <2>3, <2>4 DEF SInv, Typed
  <2>6. Ended'
    <3>1. phase = "mustdef" => \A d \in Entries : LiveIn(d)' = LiveIn(d) BY <2>2, SameLive
    <3> QED BY <2>2, <2>3, <3>1 DEF SInv, Ended, Later
  <2> QED BY <2>3, <2>5, <2>6 DEF SInv
<1>2. CASE GrowDemand
  <2>1. /\ prog' = prog /\ seen' = seen /\ clob' = clob /\ unc' = unc /\ phase' = phase /\ phase = "demand"
        /\ inputs' = inputs /\ must' = must /\ demand' = NextDemand
    BY <1>2 DEF GrowDemand
  <2>2. Walked' /\ Between' /\ (ClobbersSettled => ClobbersSettled') /\ Entries' = Entries /\ Code' = Code
    BY <2>1, StaticsStay DEF Phases
  <2>3. demand' \in [Entries -> SUBSET Regs] BY <2>1 DEF NextDemand, Asked, Asks
  <2>4. Typed' BY <2>1, <2>2, <2>3 DEF SInv, Typed
  <2>5. Ended' BY <2>1, <2>2, SameLive, SameExit DEF SInv, Ended, Later
  <2> QED BY <2>2, <2>4, <2>5 DEF SInv
<1>3. CASE EndLoop
  <2>1. /\ prog' = prog /\ seen' = seen /\ clob' = clob /\ unc' = unc
        /\ inputs' = inputs /\ must' = must /\ demand' = demand
        /\ phase # "walk" /\ phase' \in Phases \ {"walk"} /\ Settled(phase)
        /\ \/ phase = "clobbers" /\ phase' = "inputs"
           \/ phase = "inputs" /\ phase' = "mustdef"
           \/ phase = "mustdef" /\ phase' = "demand"
           \/ phase = "demand" /\ phase' = "done"
    BY <1>3 DEF EndLoop, After, Phases
  <2>2. Walked' /\ Between' /\ (ClobbersSettled => ClobbersSettled') /\ Entries' = Entries /\ Code' = Code
    BY <2>1, StaticsStay
  <2>3. Typed' BY <2>1, <2>2 DEF SInv, Typed
  <2>4. /\ phase = "clobbers" => ClobbersSettled
        /\ phase = "inputs" => \A e \in Entries : LiveIn(e) = inputs[e]
        /\ phase = "mustdef" => \A e \in Entries : DefinedAtExit(e) = must[e]
    BY <2>1 DEF Settled
  <2>5. Ended' BY <2>1, <2>2, <2>4, SameLive, SameExit DEF SInv, Ended, Later
  <2> QED BY <2>2, <2>3, <2>5 DEF SInv
<1>4. CASE UNCHANGED vars
  <2>1. /\ prog' = prog /\ seen' = seen /\ clob' = clob /\ unc' = unc
        /\ inputs' = inputs /\ must' = must /\ demand' = demand /\ phase' = phase
    BY <1>4 DEF vars
  <2>2. Entries' = Entries /\ Code' = Code BY <2>1, SameProgram
  <2>3. Typed' BY <2>1, <2>2 DEF SInv, Typed
  <2>4. CASE phase = "walk" BY <2>1, <2>3, <2>4 DEF SInv, Walked, Between, Ended, Later
  <2>5. CASE phase # "walk"
    <3>1. Walked' /\ Between' /\ (ClobbersSettled => ClobbersSettled')
      BY <2>1, <2>5, StaticsStay DEF SInv, Typed
    <3>2. Ended' BY <2>1, <2>2, <3>1, SameLive, SameExit DEF SInv, Ended, Later
    <3> QED BY <2>3, <3>1, <3>2 DEF SInv
  <2> QED BY <2>4, <2>5
<1> QED BY <1>1, <1>2, <1>3, <1>4

LEMMA SInductive == Spec => []SInv
<1>1. SInv /\ [Next]_allVars => SInv'
  <2> SUFFICES ASSUME SInv, [Next]_allVars PROVE SInv' OBVIOUS
  <2>1. CASE Analyze
    BY <2>1, WalkStep, ClobberStep, OtherSteps DEF Analyze
  <2>2. CASE UNCHANGED vars BY <2>2, OtherSteps
  <2> QED BY <2>1, <2>2 DEF Next, allVars
<1> QED BY <1>1, SInit, PTL DEF Spec

\* The clobbers reported are the least solution of the equations, whatever
\* order the entries were updated in.
THEOREM ClobbersAreLeast == Spec => []ClobbersLeast
<1>1. SInv => ClobbersLeast
  <2> SUFFICES ASSUME SInv, phase \notin {"walk", "clobbers"} PROVE ClobbersLeast BY DEF ClobbersLeast
  <2>1. phase \in Later BY DEF SInv, Typed, Phases, Later
  <2>2. \A e \in Entries : UNION {clob[c] : c \in Callees(e)} \subseteq clob[e]
    BY <2>1 DEF SInv, Ended, ClobbersSettled, Clobbers
  <2>3. Solves(clob) BY <2>2 DEF SInv, Between, Solves
  <2>4. \A f \in [Entries -> SUBSET Regs] : Solves(f) => \A e \in Entries : clob[e] \subseteq f[e]
    BY DEF SInv, Between
  <2>5. \A f : Solves(f) <=> \A e \in Entries :
           f[e] = [d \in Entries |-> UNION {Writes(pc) : pc \in seen[d]}][e] \cup UNION {f[c] : c \in Callees(e)}
    BY DEF Solves, Direct
  <2> QED BY <2>3, <2>4, <2>5 DEF ClobbersLeast
<1> QED BY <1>1, SInductive, PTL

(***************************************************************************)
(* Where the processor goes, and what the analysis makes of it.            *)
(***************************************************************************)

LEMMA ConsFacts ==
  ASSUME NEW s \in Seq(Nat), NEW x \in Nat
  PROVE  /\ <<x>> \o s \in Seq(Nat) /\ Len(<<x>> \o s) = Len(s) + 1
         /\ (<<x>> \o s)[1] = x
         /\ \A k \in 1 .. Len(s) : (<<x>> \o s)[k + 1] = s[k]
OBVIOUS

LEMMA TailFacts ==
  ASSUME NEW s \in Seq(Nat), s # <<>>
  PROVE  /\ Tail(s) \in Seq(Nat) /\ Len(s) \in Nat /\ Len(s) >= 1 /\ Len(Tail(s)) = Len(s) - 1
         /\ Head(s) = s[1] /\ s[1] \in Nat
         /\ \A k \in 1 .. Len(s) - 1 : Tail(s)[k] = s[k + 1]
OBVIOUS

\* A transfer that is neither lost nor misread goes to a callee or, a jump, on.
LEMMA Goes ==
  ASSUME prog \in Programs, NEW pc \in Code, At(pc).op \in {"jsr", "jmp"}, ~Lost(pc), ~Misled(pc)
  PROVE  /\ \A t \in Targets(pc) \cap Code : t \in Invoked(pc) \/ (At(pc).op = "jmp" /\ t \in Continues(pc))
         /\ \A t \in Targets(pc) \ Code : t \in DOMAIN Kernal /\ InKernal(pc) /\ t = At(pc).tgt
<1>1. CASE pc \in Smc
  <2>1. pc \in DOMAIN prog.smc /\ prog.smc[pc] # {} /\ prog.smc[pc] \subseteq Code BY <1>1 DEF Smc
  <2> QED BY <1>1, <2>1 DEF Targets, Invoked
<1>2. CASE pc \notin Smc
  <2>1. pc \notin DOMAIN prog.smc BY <1>2 DEF Misled
  <2>2. Targets(pc) = {At(pc).tgt} BY <2>1 DEF Targets
  <2>3. At(pc).tgt \in Code => At(pc).tgt \in Invoked(pc) \/ (At(pc).op = "jmp" /\ At(pc).tgt \in Continues(pc))
    BY <1>2 DEF Invoked, Continues, Resolved
  <2>4. At(pc).tgt \notin Code => InKernal(pc) BY <1>2 DEF Lost, Resolved
  <2>5. InKernal(pc) => At(pc).tgt \in DOMAIN Kernal BY DEF InKernal
  <2> QED BY <2>2, <2>3, <2>4, <2>5
<1> QED BY <1>1, <1>2

(***************************************************************************)
(* Clobbers: what runs was walked, from a subroutine within the activation.*)
(***************************************************************************)

Running ==
  /\ stack \in Seq(Nat) /\ written \subseteq Regs /\ needed \subseteq Regs /\ misled \in BOOLEAN
  /\ top # None => phase = "done" /\ top \in Entries
  /\ top = None => at = None /\ stack = <<>> /\ written = {} /\ needed = {}

Within == {c \in Entries : \A S \in SUBSET Entries :
             top \in S /\ (\A e \in S : Callees(e) \subseteq S) => c \in S}
Ground == UNION {seen[e] : e \in Within}
Marks == {at} \cup {stack[k] : k \in 1 .. Len(stack)}

CInv ==
  /\ SInv /\ Running
  /\ top # None /\ ~misled /\ ~unc[top] => written \subseteq clob[top] /\ Marks \cap Code \subseteq Ground

LEMMA WithinFacts ==
  ASSUME SInv, phase = "done", top \in Entries
  PROVE  /\ top \in Within /\ Within \subseteq Entries
         /\ \A e \in Within : Callees(e) \subseteq Within
         /\ \A e \in Within : clob[e] \subseteq clob[top] /\ (unc[e] => unc[top])
<1>1. \A e \in Entries : Callees(e) \subseteq Entries BY CalleesAreEntries DEF SInv
<1>2. \A e \in Within : Callees(e) \subseteq Within BY <1>1 DEF Within
<1>3. \A e \in Entries : \A c \in Callees(e) : clob[c] \subseteq clob[e] /\ (unc[c] => unc[e])
  <2>1. \A e \in Entries : Clobbers(e) = clob[e] /\ Uncertain(e) = unc[e]
    BY DEF SInv, Ended, Later, ClobbersSettled
  <2> QED BY <2>1 DEF Clobbers, Uncertain
<1>4. ASSUME NEW e \in Within PROVE clob[e] \subseteq clob[top] /\ (unc[e] => unc[top])
  <2> DEFINE S == {c \in Entries : clob[c] \subseteq clob[top] /\ (unc[c] => unc[top])}
  <2>1. top \in S OBVIOUS
  <2>2. \A c \in S : Callees(c) \subseteq S BY <1>1, <1>3
  <2>3. e \in S BY <2>1, <2>2 DEF Within
  <2> QED BY <2>3
<1> QED BY <1>2, <1>4 DEF Within

LEMMA GroundFacts ==
  ASSUME SInv, phase = "done", top \in Entries, NEW pc \in Ground
  PROVE  /\ pc \in Code
         /\ Continues(pc) \cap Code \subseteq Ground /\ Invoked(pc) \subseteq Ground
         /\ Writes(pc) \subseteq clob[top] /\ (Lost(pc) => unc[top])
<1>1. PICK e \in Within : pc \in seen[e] BY DEF Ground
<1>2. /\ e \in Entries /\ Callees(e) \subseteq Within /\ Within \subseteq Entries
      /\ clob[e] \subseteq clob[top] /\ (unc[e] => unc[top])
  BY WithinFacts
<1>3. pc \in Code BY <1>1, <1>2 DEF SInv, Typed
<1>4. \A d \in Entries : d \in seen[d] BY DEF SInv, Walked
<1>5. Succs(e, pc) \subseteq seen[e] /\ (Lost(pc) => unc[e]) BY <1>1, <1>2 DEF SInv, Walked
<1>6. Calls(e, pc) \subseteq Ground
  <2>1. Calls(e, pc) \subseteq Callees(e) BY <1>1 DEF Callees
  <2> QED BY <1>2, <1>4, <2>1 DEF Ground
<1>7. Continues(pc) \cap Code \subseteq Succs(e, pc) \cup Calls(e, pc) BY DEF Succs, Calls
<1>8. Writes(pc) \subseteq clob[e]
  <2>1. Direct(e) \subseteq clob[e] BY <1>2 DEF SInv, Between
  <2> QED BY <1>1, <2>1 DEF Direct
<1> QED BY <1>1, <1>2, <1>3, <1>5, <1>6, <1>7, <1>8 DEF Ground, Calls

\* The instruction about to run, and what it leads to.
LEMMA CoverStep ==
  ASSUME CInv, Execute, UNCHANGED vars
  PROVE  CInv'
<1>1. /\ prog' = prog /\ phase' = phase /\ seen' = seen /\ clob' = clob /\ unc' = unc
      /\ inputs' = inputs /\ must' = must /\ demand' = demand /\ top' = top
  BY DEF vars, Execute
<1>2. SInv' BY OtherSteps DEF CInv
<1>3. at # None /\ at \in Code /\ top # None /\ prog \in Programs /\ phase = "done" /\ top \in Entries
  BY DEF Execute, CInv, Running, SInv, Typed
<1>4. /\ Writes(at) \subseteq Regs /\ At(at).op \in Ops
      /\ At(at).rd \subseteq Regs /\ At(at).wr \subseteq Regs /\ at \in Nat
  BY <1>3, WritesAreRegs
<1>5. Running'
  <2>1. stack' \in Seq(Nat)
    <3>1. CASE stack' = stack BY <3>1 DEF CInv, Running
    <3>2. CASE stack' = <<at + 1>> \o stack
      BY <1>4, <3>2, ConsFacts DEF CInv, Running
    <3>3. CASE stack # <<>> /\ stack' = Tail(stack)
      BY <3>3, TailFacts DEF CInv, Running
    <3> QED BY <3>1, <3>2, <3>3 DEF Execute, StepLocal, StepReturn, StepCall, StepJump, StepOutside, Return
  <2>2. written' \subseteq Regs /\ needed' \subseteq Regs
    <3>1. CASE UNCHANGED <<written, needed>> BY <3>1 DEF CInv, Running
    <3>2. CASE \E rd, wr \in SUBSET Regs : Effect(rd, wr) BY <3>2 DEF Effect, CInv, Running
    <3>3. \A t \in DOMAIN Kernal : Kernal[t].rd \in SUBSET Regs /\ Kernal[t].wr \in SUBSET Regs
      BY KernalAssumption
    <3> QED BY <1>4, <3>1, <3>2, <3>3 DEF Execute, StepLocal, StepReturn, StepCall, StepJump, StepOutside
  <2>3. misled' \in BOOLEAN BY DEF Execute, CInv, Running
  <2> QED BY <1>1, <1>3, <2>1, <2>2, <2>3, SameProgram DEF Running
<1>6. ASSUME ~unc[top], ~misled' PROVE written' \subseteq clob[top] /\ Marks' \cap Code \subseteq Ground
  <2> ~misled /\ ~Misled(at) BY <1>6 DEF Execute
  <2>1. written \subseteq clob[top] /\ Marks \cap Code \subseteq Ground BY <1>3, <1>6 DEF CInv
  <2>2. at \in Ground BY <1>3, <2>1 DEF Marks
  <2>3. /\ Continues(at) \cap Code \subseteq Ground /\ Invoked(at) \subseteq Ground
        /\ Writes(at) \subseteq clob[top] /\ ~Lost(at)
    BY <1>3, <1>6, <2>2, GroundFacts DEF CInv
  <2>4. stack \in Seq(Nat) BY DEF CInv, Running
  <2>5. \A k \in 1 .. Len(stack) : stack[k] \in Code => stack[k] \in Ground BY <2>1 DEF Marks
  <2>6. ASSUME Return PROVE Marks' \cap Code \subseteq Ground
    <3>1. None \notin Code BY <1>3, ProgramsAssumption DEF None, Code
    <3>2. CASE stack = <<>> BY <2>6, <3>1, <3>2 DEF Return, Marks
    <3>3. CASE stack # <<>>
      <4>1. at' = stack[1] /\ stack' = Tail(stack) BY <2>4, <2>6, <3>3, TailFacts DEF Return
      <4>2. \A k \in 1 .. Len(stack') : k + 1 \in 1 .. Len(stack) /\ stack'[k] = stack[k + 1]
        BY <2>4, <3>3, <4>1, TailFacts
      <4>3. 1 \in 1 .. Len(stack) BY <2>4, <3>3, TailFacts
      <4> QED BY <2>5, <4>1, <4>2, <4>3 DEF Marks
    <3> QED BY <3>2, <3>3
  <2>7. ASSUME stack' = stack, at' \in Code => at' \in Ground PROVE Marks' \cap Code \subseteq Ground
    BY <2>5, <2>7 DEF Marks
  <2>8. CASE StepLocal
    <3>1. at' \in Continues(at) BY <2>8 DEF StepLocal, Continues
    <3>2. written' \subseteq clob[top] BY <2>1, <2>3, <2>8 DEF StepLocal, Effect, Writes
    <3> QED BY <2>3, <2>7, <2>8, <3>1, <3>2 DEF StepLocal
  <2>9. CASE StepReturn BY <2>1, <2>6, <2>9 DEF StepReturn
  <2>10. CASE StepCall
    <3>1. at' \in Ground /\ written' = written /\ stack' = <<at + 1>> \o stack
      BY <1>3, <2>3, <2>10, Goes DEF StepCall
    <3>2. at + 1 \in Continues(at) BY <2>10 DEF StepCall, Continues
    <3>3. \A k \in 1 .. Len(stack') : stack'[k] \in Code => stack'[k] \in Ground
      <4> SUFFICES ASSUME NEW k \in 1 .. Len(stack'), stack'[k] \in Code PROVE stack'[k] \in Ground OBVIOUS
      <4>1. stack'[1] = at + 1 /\ Len(stack') = Len(stack) + 1 /\ Len(stack) \in Nat
            /\ \A j \in 1 .. Len(stack) : stack'[j + 1] = stack[j]
        BY <1>4, <2>4, <3>1, ConsFacts
      <4>2. CASE k = 1 BY <2>3, <3>2, <4>1, <4>2
      <4>3. CASE k # 1
        <5>1. k - 1 \in 1 .. Len(stack) /\ stack'[k] = stack[k - 1] BY <4>1, <4>3
        <5> QED BY <2>5, <5>1
      <4> QED BY <4>2, <4>3
    <3> QED BY <2>1, <3>1, <3>3 DEF Marks
  <2>11. CASE StepJump
    <3>1. at' \in Ground BY <1>3, <2>3, <2>11, Goes DEF StepJump
    <3> QED BY <2>1, <2>7, <2>11, <3>1 DEF StepJump
  <2>12. CASE StepOutside
    <3>1. At(at).op # "ind" BY <2>3 DEF Lost
    <3>2. PICK t \in Targets(at) \ Code : At(at).op \in {"jsr", "jmp"} /\
            ((t \in DOMAIN Kernal /\ Effect(Kernal[t].rd, Kernal[t].wr)) \/ t \notin DOMAIN Kernal)
      BY <2>12, <3>1 DEF StepOutside
    <3>3. t \in DOMAIN Kernal /\ InKernal(at) /\ t = At(at).tgt /\ Effect(Kernal[t].rd, Kernal[t].wr)
      BY <1>3, <2>3, <3>2, Goes
    <3>4. written' \subseteq clob[top] BY <2>1, <2>3, <3>3 DEF Effect, Writes
    <3>5. CASE At(at).op = "jsr"
      <4>1. at' \in Continues(at) /\ stack' = stack BY <2>12, <3>5 DEF StepOutside, Continues
      <4> QED BY <2>3, <2>7, <3>4, <4>1
    <3>6. CASE At(at).op # "jsr" BY <2>6, <2>12, <3>4, <3>6 DEF StepOutside
    <3> QED BY <3>5, <3>6
  <2> QED BY <2>8, <2>9, <2>10, <2>11, <2>12 DEF Execute
<1>7. Ground' = Ground /\ Code' = Code
  <2>1. Within' = Within BY <1>1, SameProgram, SameGraphs DEF Within
  <2> QED BY <1>1, <2>1, SameProgram DEF Ground
<1> QED BY <1>1, <1>2, <1>5, <1>6, <1>7 DEF CInv

LEMMA CInductive == Spec => []CInv
<1>1. ExecInit => CInv
  <2> SUFFICES ASSUME ExecInit PROVE CInv OBVIOUS
  <2>0. misled \in BOOLEAN BY DEF ExecInit
  <2>1. Running BY <2>0 DEF ExecInit, Running
  <2> QED BY <2>1, SInit DEF ExecInit, CInv
<1>2. CInv /\ [Next]_allVars => CInv'
  <2> SUFFICES ASSUME CInv, [Next]_allVars PROVE CInv' OBVIOUS
  <2>1. CASE Analyze /\ UNCHANGED execVars
    <3>1. SInv' BY <2>1, WalkStep, ClobberStep, OtherSteps DEF Analyze, CInv
    <3>2. UNCHANGED <<top, at, stack, written, needed, misled>> BY <2>1 DEF execVars
    <3>3. phase # "done" BY <2>1 DEF Analyze, Walk, GrowClobbers, GrowInputs, ShrinkMust, GrowDemand, EndLoop, After
    <3> QED BY <3>1, <3>2, <3>3 DEF CInv, Running
  <2>2. CASE Execute /\ UNCHANGED vars BY <2>2, CoverStep
  <2>3. CASE (\E e \in Entries : Enter(e)) /\ UNCHANGED vars
    <3>1. PICK e \in Entries : Enter(e) BY <2>3
    <3>2. /\ phase = "done" /\ top' = e /\ at' = e /\ stack' = <<>> /\ written' = {} /\ needed' = {}
          /\ phase' = phase /\ prog' = prog /\ seen' = seen /\ misled' = misled
      BY <2>3, <3>1 DEF Enter, vars, CInv, Running
    <3>3. SInv' BY <2>3, OtherSteps DEF CInv
    <3>4. Entries' = Entries BY <3>2, SameProgram
    <3>5. misled' \in BOOLEAN BY <3>2 DEF CInv, Running
    <3>51. Running' BY <3>2, <3>4, <3>5 DEF Running
    <3>6. Marks' \subseteq Ground'
      <4>1. e \in Within' /\ e \in seen'[e]
        BY <3>2, <3>3, <3>4, WithinFacts DEF SInv, Walked, Within
      <4> QED BY <3>2, <4>1 DEF Marks, Ground
    <3> QED BY <3>2, <3>3, <3>51, <3>6 DEF CInv
  <2>4. CASE UNCHANGED allVars
    <3>1. UNCHANGED vars /\ UNCHANGED <<top, at, stack, written, needed, misled>> BY <2>4 DEF allVars, execVars
    <3>2. SInv' BY <3>1, OtherSteps DEF CInv
    <3>3. prog' = prog /\ seen' = seen /\ clob' = clob /\ unc' = unc /\ phase' = phase BY <3>1 DEF vars
    <3>4. Ground' = Ground /\ Entries' = Entries /\ Code' = Code
      BY <3>1, <3>3, SameProgram, SameGraphs DEF Ground, Within
    <3>5. Marks' = Marks BY <3>1 DEF Marks
    <3> QED BY <3>1, <3>2, <3>3, <3>4, <3>5 DEF CInv, Running
  <2> QED BY <2>1, <2>2, <2>3, <2>4 DEF Next
<1> QED BY <1>1, <1>2, PTL DEF Spec

\* No activation writes a register that the report of its subroutine leaves
\* out, however deep its calls go, unless it passed an unresolved dispatch site
\* whose placeholder operand the walk took for its target.
THEOREM ClobbersCoverRuns == Spec => []ClobbersCover
<1>1. CInv => ClobbersCover BY DEF CInv, Running, ClobbersCover, ClobberedBy
<1> QED BY <1>1, CInductive, PTL

\* The tables of the report and the state of the run keep their types.
THEOREM TypeCorrect == Spec => []TypeOK
<1>1. CInv => TypeOK
  BY DEF CInv, SInv, Typed, Running, TypeOK, Phases, After
<1> QED BY <1>1, CInductive, PTL

(***************************************************************************)
(* Inputs and outputs, where calls are definite.  A register not written   *)
(* since the activation began is open in every frame: the analysis does    *)
(* not take it for written at the instruction the frame has reached.       *)
(***************************************************************************)

Open(e, pc, r) == pc \notin WrittenBefore(e, r)
Called == UNION {Callees(e) : e \in Entries}

\* All that may be read from here on is declared.
Covered == unc[top] /\ Regs \subseteq written \cup inputs[top]

\* E[0] is the subroutine running at a, E[k] the one that s[k] returns into,
\* w is written.  A callee promises its frame what the callee still owes.
Frames(E, s, a, w) ==
  /\ E \in [0 .. Len(s) -> Entries]
  /\ \A k \in 0 .. Len(s) : E[k] \in Called \/ (k = Len(s) /\ E[k] = top)
  /\ a \in Code => a \in seen[E[0]]
  /\ \A k \in 1 .. Len(s) : /\ s[k] - 1 \in seen[E[k]] /\ At(s[k] - 1).op = "jsr"
                            /\ Invoked(s[k] - 1) # {}
  /\ \A r \in Regs \ w :
       /\ a \in Code => Open(E[0], a, r)
       /\ r \in must[top] => r \in must[E[Len(s)]]
       /\ \A k \in 0 .. Len(s) : r \in inputs[E[k]] => r \in inputs[top]
       /\ \A k \in 1 .. Len(s) : /\ Open(E[k], s[k] - 1, r)
                                 /\ \A c \in Invoked(s[k] - 1) : r \in must[c] => r \in must[E[k - 1]]

Kept ==
  /\ needed \subseteq inputs[top]
  /\ IF at = None THEN unc[top] \/ must[top] \subseteq written
                  ELSE Covered \/ \E E : Frames(E, stack, at, written)

DInv == CInv /\ (top # None /\ DefiniteCalls /\ ~misled => Kept)

(***************************************************************************)
(* One frame: e is at pc, r is open there.                                 *)
(***************************************************************************)

Solved == SInv /\ phase = "done" /\ DefiniteCalls

LEMMA OpenEntry == \A e, r : Open(e, e, r)
BY DEF Open, WrittenBefore

LEMMA SolvedFacts ==
  ASSUME Solved, NEW e \in Entries, NEW pc \in seen[e]
  PROVE  /\ pc \in Code /\ e \in seen[e] /\ Succs(e, pc) \subseteq seen[e] /\ (Lost(pc) => unc[e])
         /\ LiveIn(e) = inputs[e] /\ DefinedAtExit(e) = must[e]
         /\ Calls(e, pc) \subseteq Callees(e) /\ Callees(e) \subseteq Entries /\ Callees(e) \subseteq Called
         /\ \A c \in Calls(e, pc) : ~unc[c] /\ clob[c] \subseteq must[c]
         /\ must[e] \subseteq Regs /\ prog \in Programs
<1>1. pc \in Code /\ must[e] \subseteq Regs /\ prog \in Programs BY DEF Solved, SInv, Typed
<1>2. e \in seen[e] /\ Succs(e, pc) \subseteq seen[e] /\ (Lost(pc) => unc[e]) BY DEF Solved, SInv, Walked
<1>3. LiveIn(e) = inputs[e] /\ DefinedAtExit(e) = must[e] BY DEF Solved, SInv, Ended, Later
<1>4. Calls(e, pc) \subseteq Callees(e) BY DEF Callees
<1>5. Callees(e) \subseteq Entries BY CalleesAreEntries DEF Solved, SInv
<1>6. \A c \in Callees(e) : ~unc[c] /\ clob[c] \subseteq must[c] BY DEF Solved, DefiniteCalls
<1> QED BY <1>1, <1>2, <1>3, <1>4, <1>5, <1>6 DEF Called

LEMMA ReadIsInput ==
  ASSUME Solved, NEW e \in Entries, NEW pc \in seen[e], NEW r \in Regs, Open(e, pc, r), r \in NodeReads(e, pc)
  PROVE  r \in inputs[e]
<1>1. r \in LiveIn(e) BY DEF LiveIn, Open
<1> QED BY <1>1, SolvedFacts

LEMMA NotAfter ==
  ASSUME NEW e, NEW pc \in seen[e], NEW r, Open(e, pc, r), r \notin NodeWrites(e, pc)
  PROVE  /\ pc \notin WrittenAfter(e, r)
         /\ \A q \in Succs(e, pc) : Open(e, q, r)
<1>1. ASSUME pc \in WrittenAfter(e, r) PROVE FALSE
  <2>1. PICK D \in SUBSET seen[e] :
          /\ pc \in D
          /\ \A q \in D : \/ r \in NodeWrites(e, q)
                          \/ q # e /\ Preds(e, q) # {} /\ Preds(e, q) \subseteq D
    BY <1>1 DEF WrittenAfter
  <2>2. D \subseteq WrittenAfter(e, r) BY <2>1 DEF WrittenAfter
  <2>3. pc # e /\ Preds(e, pc) # {} /\ Preds(e, pc) \subseteq WrittenAfter(e, r) BY <2>1, <2>2
  <2> QED BY <2>3 DEF Open, WrittenBefore
<1>2. ASSUME NEW q \in Succs(e, pc), ~Open(e, q, r) PROVE FALSE
  <2>1. Preds(e, q) \subseteq WrittenAfter(e, r) BY <1>2 DEF Open, WrittenBefore
  <2>2. pc \in Preds(e, q) BY DEF Preds
  <2> QED BY <1>1, <2>1, <2>2
<1> QED BY <1>1, <1>2

LEMMA ExitOwes ==
  ASSUME Solved, NEW e \in Entries, NEW pc \in Exits(e), NEW r \in must[e], pc \notin WrittenAfter(e, r)
  PROVE  At(pc).op = "jmp" /\ Succs(e, pc) = {} /\ \E c \in Calls(e, pc) : r \in must[c]
<1>1. pc \in seen[e] BY DEF Exits
<1>2. r \in DefinedAtExit(e) BY <1>1, SolvedFacts
<1> QED BY <1>2 DEF DefinedAtExit

\* pc goes on to q, in the same subroutine or, at a tail call, in another.
LEMMA MoveOn ==
  ASSUME Solved, NEW e \in Entries, NEW pc \in seen[e], NEW q \in Continues(pc) \cap Code,
         NEW r \in Regs, Open(e, pc, r), r \notin Writes(pc),
         \A c \in Invoked(pc) : r \notin clob[c]
  PROVE  IF q \in Tails(e, pc)
           THEN (r \in inputs[q] => r \in inputs[e]) /\ (r \in must[e] => r \in must[q])
           ELSE q \in Succs(e, pc) /\ Open(e, q, r)
<1>1. /\ pc \in Code /\ At(pc).op \in Ops
      /\ \A c \in Calls(e, pc) : ~unc[c] /\ clob[c] \subseteq must[c]
  BY SolvedFacts, WritesAreRegs
<1>2. At(pc).op = "branch" => Tails(e, pc) = {} BY DEF Solved, DefiniteCalls
<1>3. Tails(e, pc) \subseteq {q}
  BY <1>1, <1>2 DEF Tails, Continues, Ops
<1>4. r \in NodeWrites(e, pc) => q \in Tails(e, pc) /\ r \in clob[q]
  BY <1>1, <1>3 DEF NodeWrites, Calls
<1>5. CASE q \notin Tails(e, pc)
  <2>1. q \in Succs(e, pc) BY <1>5 DEF Succs
  <2> QED BY <1>4, <1>5, <2>1, NotAfter
<1>6. CASE q \in Tails(e, pc)
  <2>1. q \in Calls(e, pc) BY <1>6 DEF Calls
  <2>2. r \in inputs[q] => r \in NodeReads(e, pc) BY <2>1 DEF NodeReads
  <2>3. r \in inputs[q] => r \in inputs[e] BY <2>2, ReadIsInput
  <2>4. Continues(pc) = {q} BY <1>1, <1>2, <1>6 DEF Continues, Ops
  <2>5. Succs(e, pc) = {} BY <1>6, <2>4 DEF Succs
  <2>6. pc \in Exits(e) BY <2>1, <2>5 DEF Exits
  <2>7. ASSUME r \in must[e], r \notin must[q] PROVE FALSE
    <3>1. r \notin NodeWrites(e, pc) BY <1>1, <1>4, <2>1, <2>7
    <3>2. At(pc).op = "jmp" /\ \E c \in Calls(e, pc) : r \in must[c] BY <2>6, <2>7, <3>1, NotAfter, ExitOwes
    <3>3. Invoked(pc) = {} BY <2>4, <3>2 DEF Continues, Resolved, Invoked
    <3> QED BY <1>3, <2>7, <3>2, <3>3 DEF Calls
  <2> QED BY <1>6, <2>3, <2>7
<1> QED BY <1>5, <1>6

\* A dispatching jump hands over what its subroutine owes.
LEMMA TailIn ==
  ASSUME Solved, NEW e \in Entries, NEW pc \in seen[e], At(pc).op = "jmp",
         NEW d \in Invoked(pc), NEW r \in Regs, Open(e, pc, r), r \in must[e]
  PROVE  r \in must[d]
<1>1. /\ pc \in Code /\ \A c \in Calls(e, pc) : ~unc[c] /\ clob[c] \subseteq must[c]
  BY SolvedFacts
<1>2. /\ ~InKernal(pc) /\ \A c \in Invoked(pc) : must[c] = must[d]
  BY DEF Solved, DefiniteCalls
<1>3. pc \in Smc BY DEF Invoked
<1>4. Continues(pc) = {} BY <1>3 DEF Continues, Resolved
<1>5. Tails(e, pc) = {} /\ Succs(e, pc) = {} /\ Calls(e, pc) = Invoked(pc) BY <1>4 DEF Tails, Succs, Calls
<1>6. pc \in Exits(e) BY <1>5 DEF Exits
<1>7. Writes(pc) = {}
  <2>1. At(pc).wr = {} BY <1>1, WritesAreRegs, SolvedFacts
  <2> QED BY <1>2, <2>1 DEF Writes
<1>8. ASSUME r \notin must[d] PROVE FALSE
  <2>1. \A c \in Calls(e, pc) : r \notin must[c] BY <1>2, <1>5, <1>8
  <2>2. r \notin NodeWrites(e, pc) BY <1>1, <1>7, <2>1 DEF NodeWrites
  <2> QED BY <1>6, <2>1, <2>2, NotAfter, ExitOwes
<1> QED BY <1>8

(***************************************************************************)
(* The frames, through a step, a return and a call.                        *)
(***************************************************************************)

LEMMA Replace ==
  ASSUME NEW s \in Seq(Nat), NEW E, NEW a, NEW b, NEW w, NEW v, w \subseteq v, Frames(E, s, a, w),
         NEW d \in Entries, d \in Called \/ d = E[0],
         b \in Code => b \in seen[d],
         \A r \in Regs \ v : /\ b \in Code => Open(d, b, r)
                             /\ r \in inputs[d] => r \in inputs[E[0]]
                             /\ r \in must[E[0]] => r \in must[d]
  PROVE  Frames([E EXCEPT ![0] = d], s, b, v)
<1> DEFINE F == [E EXCEPT ![0] = d]
<1>1. E \in [0 .. Len(s) -> Entries] /\ Len(s) \in Nat BY DEF Frames
<1>2. /\ F \in [0 .. Len(s) -> Entries] /\ F[0] = d
      /\ \A k \in 1 .. Len(s) : F[k] = E[k] /\ k \in 0 .. Len(s) /\ k - 1 \in 0 .. Len(s)
      /\ \A k \in 2 .. Len(s) : F[k - 1] = E[k - 1]
      /\ 0 \in 0 .. Len(s) /\ Len(s) \in 0 .. Len(s)
  BY <1>1
<1> HIDE DEF F
<1>3. \A k \in 0 .. Len(s) : F[k] \in Called \/ (k = Len(s) /\ F[k] = top)
  <2> SUFFICES ASSUME NEW k \in 0 .. Len(s) PROVE F[k] \in Called \/ (k = Len(s) /\ F[k] = top) OBVIOUS
  <2>1. E[k] \in Called \/ (k = Len(s) /\ E[k] = top) BY DEF Frames
  <2>2. CASE k = 0 BY <1>2, <2>1, <2>2
  <2>3. CASE k # 0 BY <1>1, <1>2, <2>1, <2>3
  <2> QED BY <2>2, <2>3
<1>4. \A k \in 1 .. Len(s) : /\ s[k] - 1 \in seen[F[k]] /\ At(s[k] - 1).op = "jsr" /\ Invoked(s[k] - 1) # {}
  BY <1>2 DEF Frames
<1>5. ASSUME NEW r \in Regs \ v
      PROVE  /\ b \in Code => Open(F[0], b, r)
             /\ r \in must[top] => r \in must[F[Len(s)]]
             /\ \A k \in 0 .. Len(s) : r \in inputs[F[k]] => r \in inputs[top]
             /\ \A k \in 1 .. Len(s) : /\ Open(F[k], s[k] - 1, r)
                                       /\ \A c \in Invoked(s[k] - 1) : r \in must[c] => r \in must[F[k - 1]]
  <2>1. /\ r \in must[top] => r \in must[E[Len(s)]]
        /\ \A k \in 0 .. Len(s) : r \in inputs[E[k]] => r \in inputs[top]
        /\ \A k \in 1 .. Len(s) : /\ Open(E[k], s[k] - 1, r)
                                  /\ \A c \in Invoked(s[k] - 1) : r \in must[c] => r \in must[E[k - 1]]
    BY DEF Frames
  <2>2. /\ b \in Code => Open(d, b, r)
        /\ r \in inputs[d] => r \in inputs[E[0]]
        /\ r \in must[E[0]] => r \in must[d]
    OBVIOUS
  <2>3. r \in must[top] => r \in must[F[Len(s)]]
    <3>1. CASE Len(s) = 0 BY <1>2, <2>1, <2>2, <3>1
    <3>2. CASE Len(s) # 0
      <4>1. Len(s) \in 1 .. Len(s) BY <1>1, <3>2
      <4> QED BY <1>2, <2>1, <4>1
    <3> QED BY <3>1, <3>2
  <2>4. ASSUME NEW k \in 0 .. Len(s) PROVE r \in inputs[F[k]] => r \in inputs[top]
    <3>1. CASE k = 0 BY <1>2, <2>1, <2>2, <3>1
    <3>2. CASE k # 0
      <4>1. k \in 1 .. Len(s) BY <1>1, <3>2
      <4> QED BY <1>2, <2>1, <4>1
    <3> QED BY <3>1, <3>2
  <2>5. ASSUME NEW k \in 1 .. Len(s), NEW c \in Invoked(s[k] - 1), r \in must[c] PROVE r \in must[F[k - 1]]
    <3>1. r \in must[E[k - 1]] BY <2>1, <2>5
    <3>2. CASE k = 1
      <4>1. k - 1 = 0 BY <3>2
      <4> QED BY <1>2, <2>2, <3>1, <4>1
    <3>3. CASE k # 1
      <4>1. k \in 2 .. Len(s) BY <1>1, <3>3
      <4> QED BY <1>2, <3>1, <4>1
    <3> QED BY <3>2, <3>3
  <2> QED BY <1>2, <2>1, <2>2, <2>3, <2>4, <2>5
<1> QED BY <1>2, <1>3, <1>4, <1>5 DEF Frames, F

LEMMA Advance ==
  ASSUME Solved, NEW s \in Seq(Nat), NEW E, NEW pc \in Code, NEW w, NEW v, w \subseteq v,
         Frames(E, s, pc, w), NEW q \in Continues(pc), Writes(pc) \subseteq v,
         \A c \in Invoked(pc) : \A r \in Regs \ v : r \notin clob[c]
  PROVE  \E F : Frames(F, s, q, v)
<1>1. E[0] \in Entries /\ pc \in seen[E[0]]
  <2>1. E \in [0 .. Len(s) -> Entries] /\ 0 \in 0 .. Len(s) BY DEF Frames
  <2> QED BY <2>1 DEF Frames
<1> DEFINE e == E[0]
<1>2. \A r \in Regs \ v : Open(e, pc, r) BY DEF Frames
<1>3. Calls(e, pc) \subseteq Callees(e) /\ Callees(e) \subseteq Entries /\ Callees(e) \subseteq Called
      /\ Succs(e, pc) \subseteq seen[e]
  BY <1>1, SolvedFacts
<1>4. ASSUME NEW r \in Regs \ v, q \in Code
      PROVE  IF q \in Tails(e, pc)
               THEN (r \in inputs[q] => r \in inputs[e]) /\ (r \in must[e] => r \in must[q])
               ELSE q \in Succs(e, pc) /\ Open(e, q, r)
  BY <1>1, <1>2, <1>4, MoveOn
<1>5. CASE q \in Tails(e, pc)
  <2>1. q \in Entries /\ q \in Code /\ q \in Called BY <1>3, <1>5 DEF Tails, Calls, Entries
  <2>2. q \in seen[q] BY <2>1 DEF Solved, SInv, Walked
  <2>3. Frames([E EXCEPT ![0] = q], s, q, v)
    BY <1>4, <1>5, <2>1, <2>2, OpenEntry, Replace
  <2> QED BY <2>3
<1>6. CASE q \notin Tails(e, pc)
  <2>1. q \in Code => q \in seen[e] BY <1>3, <1>6 DEF Succs
  <2>2. \A r \in Regs \ v : q \in Code => Open(e, q, r) BY <1>4, <1>6
  <2>3. Frames([E EXCEPT ![0] = e], s, q, v)
    BY <1>1, <2>1, <2>2, Replace
  <2> QED BY <2>3
<1> QED BY <1>5, <1>6

\* A return leaves the caller's frame at the call.
LEMMA Pop ==
  ASSUME NEW s \in Seq(Nat), s # <<>>, NEW E, NEW a, NEW w, Frames(E, s, a, w)
  PROVE  Frames([k \in 0 .. Len(s) - 1 |-> E[k + 1]], Tail(s), s[1] - 1, w)
<1> DEFINE F == [k \in 0 .. Len(s) - 1 |-> E[k + 1]]
           t == Tail(s)
<1>1. /\ t \in Seq(Nat) /\ Len(s) \in Nat /\ Len(s) >= 1 /\ Len(t) = Len(s) - 1
      /\ \A k \in 1 .. Len(s) - 1 : t[k] = s[k + 1]
  BY TailFacts
<1>2. E \in [0 .. Len(s) -> Entries] BY DEF Frames
<1>3. F \in [0 .. Len(t) -> Entries] /\ \A k \in 0 .. Len(t) : F[k] = E[k + 1] BY <1>1, <1>2
<1>4. /\ \A k \in 0 .. Len(t) : k + 1 \in 0 .. Len(s) /\ k + 1 \in 1 .. Len(s)
      /\ \A k \in 1 .. Len(t) : /\ k + 1 \in 1 .. Len(s) /\ t[k] = s[k + 1] /\ k \in 0 .. Len(t)
                                /\ k - 1 \in 0 .. Len(t) /\ F[k - 1] = E[(k + 1) - 1]
      /\ 1 \in 1 .. Len(s) /\ 0 \in 0 .. Len(t) /\ F[0] = E[1]
      /\ F[Len(t)] = E[Len(s)]
      /\ \A k \in 0 .. Len(t) : k + 1 = Len(s) <=> k = Len(t)
  BY <1>1, <1>3
<1> HIDE DEF F, t
<1>5. \A k \in 0 .. Len(t) : F[k] \in Called \/ (k = Len(t) /\ F[k] = top) BY <1>3, <1>4 DEF Frames
<1>6. s[1] - 1 \in seen[F[0]] BY <1>4 DEF Frames
<1>7. \A k \in 1 .. Len(t) : t[k] - 1 \in seen[F[k]] /\ At(t[k] - 1).op = "jsr" /\ Invoked(t[k] - 1) # {}
  BY <1>3, <1>4 DEF Frames
<1>8. ASSUME NEW r \in Regs \ w
      PROVE  /\ Open(F[0], s[1] - 1, r)
             /\ r \in must[top] => r \in must[F[Len(t)]]
             /\ \A k \in 0 .. Len(t) : r \in inputs[F[k]] => r \in inputs[top]
             /\ \A k \in 1 .. Len(t) : /\ Open(F[k], t[k] - 1, r)
                                       /\ \A c \in Invoked(t[k] - 1) : r \in must[c] => r \in must[F[k - 1]]
  <2>1. /\ r \in must[top] => r \in must[E[Len(s)]]
        /\ \A k \in 0 .. Len(s) : r \in inputs[E[k]] => r \in inputs[top]
        /\ \A k \in 1 .. Len(s) : /\ Open(E[k], s[k] - 1, r)
                                  /\ \A c \in Invoked(s[k] - 1) : r \in must[c] => r \in must[E[k - 1]]
    BY DEF Frames
  <2> QED BY <1>3, <1>4, <2>1
<1> QED BY <1>3, <1>5, <1>6, <1>7, <1>8 DEF Frames, F, t

LEMMA Push ==
  ASSUME Solved, NEW s \in Seq(Nat), NEW E, NEW pc \in Code, NEW w, Frames(E, s, pc, w),
         At(pc).op = "jsr", NEW t \in Invoked(pc)
  PROVE  \E F : Frames(F, <<pc + 1>> \o s, t, w)
<1> DEFINE z == <<pc + 1>> \o s
           F == [k \in 0 .. Len(s) + 1 |-> IF k = 0 THEN t ELSE E[k - 1]]
<1>1. pc \in Nat BY WritesAreRegs DEF Solved, SInv, Typed
<1>2. /\ z \in Seq(Nat) /\ Len(s) \in Nat /\ Len(z) = Len(s) + 1 /\ z[1] = pc + 1
      /\ \A k \in 1 .. Len(s) : z[k + 1] = s[k]
  BY <1>1, ConsFacts
<1>3. E \in [0 .. Len(s) -> Entries] /\ E[0] \in Entries /\ pc \in seen[E[0]] BY <1>2 DEF Frames
<1>4. t \in Entries /\ t \in Called
  <2>1. t \in Calls(E[0], pc) BY DEF Calls
  <2> QED BY <1>3, <2>1, SolvedFacts
<1>5. t \in seen[t] BY <1>4 DEF Solved, SInv, Walked
<1>6. \A c \in Invoked(pc) : must[c] = must[t] BY <1>3 DEF Solved, DefiniteCalls
<1>7. F \in [0 .. Len(z) -> Entries] /\ F[0] = t /\ \A k \in 1 .. Len(z) : F[k] = E[k - 1]
  BY <1>2, <1>3, <1>4
<1>8. /\ \A k \in 1 .. Len(z) : k - 1 \in 0 .. Len(s) /\ (k - 1 = Len(s) <=> k = Len(z))
      /\ \A k \in 2 .. Len(z) : /\ k - 1 \in 1 .. Len(s) /\ z[k] = s[k - 1] /\ F[k - 1] = E[(k - 1) - 1]
      /\ \A k \in 0 .. Len(z) : k = 0 \/ k \in 1 .. Len(z)
      /\ \A k \in 1 .. Len(z) : k = 1 \/ k \in 2 .. Len(z)
      /\ F[1] = E[0] /\ F[1 - 1] = t /\ z[1] - 1 = pc /\ F[Len(z)] = E[Len(s)] /\ 0 # Len(z)
  <2>1. ASSUME NEW k \in 2 .. Len(z) PROVE k - 1 \in 1 .. Len(s) /\ z[k] = s[k - 1] /\ F[k - 1] = E[(k - 1) - 1]
    <3>1. k - 1 \in 1 .. Len(s) /\ k - 1 \in 1 .. Len(z) /\ (k - 1) + 1 = k BY <1>2
    <3> QED BY <1>2, <1>7, <3>1
  <2> HIDE DEF F, z
  <2>2. /\ F[Len(z)] = E[Len(s)] /\ F[1] = E[0] /\ F[1 - 1] = t /\ z[1] - 1 = pc
    <3>1. Len(z) \in 1 .. Len(z) /\ 1 \in 1 .. Len(z) /\ Len(z) - 1 = Len(s) BY <1>2
    <3>2. F[Len(z)] = E[Len(z) - 1] /\ F[1] = E[1 - 1] BY <1>7, <3>1
    <3>3. 1 - 1 = 0 /\ z[1] - 1 = pc BY <1>1, <1>2
    <3> QED BY <1>7, <3>1, <3>2, <3>3
  <2> QED BY <1>2, <2>1, <2>2
<1> HIDE DEF F, z
<1>9. \A k \in 0 .. Len(z) : F[k] \in Called \/ (k = Len(z) /\ F[k] = top)
  <2>1. \A k \in 1 .. Len(z) : E[k - 1] \in Called \/ (k = Len(z) /\ E[k - 1] = top) BY <1>8 DEF Frames
  <2> QED BY <1>4, <1>7, <1>8, <2>1
<1>10. \A k \in 1 .. Len(z) : z[k] - 1 \in seen[F[k]] /\ At(z[k] - 1).op = "jsr" /\ Invoked(z[k] - 1) # {}
  <2>1. \A k \in 2 .. Len(z) : z[k] - 1 \in seen[F[k]] /\ At(z[k] - 1).op = "jsr" /\ Invoked(z[k] - 1) # {}
    <3>1. \A j \in 1 .. Len(s) : s[j] - 1 \in seen[E[j]] /\ At(s[j] - 1).op = "jsr" /\ Invoked(s[j] - 1) # {}
      BY DEF Frames
    <3>2. \A k \in 2 .. Len(z) : F[k] = E[k - 1] BY <1>2, <1>7
    <3> QED BY <1>8, <3>1, <3>2
  <2> QED BY <1>3, <1>8, <2>1
<1>11. ASSUME NEW r \in Regs \ w
       PROVE  /\ t \in Code => Open(F[0], t, r)
              /\ r \in must[top] => r \in must[F[Len(z)]]
              /\ \A k \in 0 .. Len(z) : r \in inputs[F[k]] => r \in inputs[top]
              /\ \A k \in 1 .. Len(z) : /\ Open(F[k], z[k] - 1, r)
                                        /\ \A c \in Invoked(z[k] - 1) : r \in must[c] => r \in must[F[k - 1]]
  <2>1. /\ r \in must[top] => r \in must[E[Len(s)]]
        /\ \A k \in 0 .. Len(s) : r \in inputs[E[k]] => r \in inputs[top]
        /\ \A k \in 1 .. Len(s) : /\ Open(E[k], s[k] - 1, r)
                                  /\ \A c \in Invoked(s[k] - 1) : r \in must[c] => r \in must[E[k - 1]]
        /\ Open(E[0], pc, r)
    BY DEF Frames
  <2>2. r \in inputs[t] => r \in inputs[top]
    <3>1. r \in inputs[t] => r \in NodeReads(E[0], pc) BY DEF NodeReads, Calls
    <3>2. r \in inputs[t] => r \in inputs[E[0]] BY <1>3, <2>1, <3>1, ReadIsInput
    <3> QED BY <1>2, <2>1, <3>2
  <2>3. \A k \in 0 .. Len(z) : r \in inputs[F[k]] => r \in inputs[top] BY <1>7, <1>8, <2>1, <2>2
  <2>4. ASSUME NEW k \in 1 .. Len(z)
        PROVE  /\ Open(F[k], z[k] - 1, r)
               /\ \A c \in Invoked(z[k] - 1) : r \in must[c] => r \in must[F[k - 1]]
    <3>1. CASE k = 1 BY <1>6, <1>8, <2>1, <3>1
    <3>2. CASE k \in 2 .. Len(z)
      <4>1. k - 1 \in 1 .. Len(s) /\ z[k] = s[k - 1] /\ F[k] = E[k - 1] /\ F[k - 1] = E[(k - 1) - 1]
        BY <1>7, <1>8, <3>2
      <4> QED BY <2>1, <4>1
    <3> QED BY <1>8, <3>1, <3>2
  <2> QED BY <1>7, <1>8, <2>1, <2>3, <2>4, OpenEntry
<1>12. Frames(F, z, t, w) BY <1>5, <1>7, <1>9, <1>10, <1>11 DEF Frames
<1> QED BY <1>12 DEF z

\* Code of which nothing is known: only the subroutine entered can hold it.
LEMMA LostCovers ==
  ASSUME Solved, NEW s \in Seq(Nat), NEW E, NEW pc \in Code, NEW w, Frames(E, s, pc, w), Lost(pc)
  PROVE  unc[top] /\ \A r \in Regs \ w : r \in inputs[top]
<1>1. /\ E[0] \in Entries /\ pc \in seen[E[0]] /\ 0 \in 0 .. Len(s)
      /\ E[0] \in Called \/ E[0] = top
  <2>1. E \in [0 .. Len(s) -> Entries] /\ 0 \in 0 .. Len(s) BY DEF Frames
  <2> QED BY <2>1 DEF Frames
<1>2. unc[E[0]] BY <1>1, SolvedFacts
<1>3. E[0] = top BY <1>1, <1>2 DEF Called, Solved, DefiniteCalls
<1>4. At(pc).op # "jmp" BY <1>1 DEF Solved, DefiniteCalls
<1>5. Regs \subseteq NodeReads(E[0], pc) BY <1>4 DEF NodeReads, Reads
<1>6. \A r \in Regs \ w : Open(E[0], pc, r) BY DEF Frames
<1> QED BY <1>1, <1>2, <1>3, <1>5, <1>6, ReadIsInput

(***************************************************************************)
(* The frames are kept by every step of the run.                           *)
(***************************************************************************)

\* A subroutine that owes nothing more returns.
LEMMA Resume ==
  ASSUME Solved, top \in Entries, NEW s \in Seq(Nat), NEW E, NEW pc \in Code, NEW w, Frames(E, s, pc, w),
         \A r \in Regs \ w : r \notin must[E[0]]
  PROVE  /\ s = <<>> => must[top] \subseteq w
         /\ s # <<>> => \E F : Frames(F, Tail(s), Head(s), w)
<1>1. ASSUME s = <<>> PROVE must[top] \subseteq w
  <2>1. must[top] \subseteq Regs BY DEF Solved, SInv, Typed
  <2>2. Len(s) = 0 BY <1>1
  <2>3. \A r \in Regs \ w : r \in must[top] => r \in must[E[0]] BY <2>2 DEF Frames
  <2> QED BY <2>1, <2>3
<1>2. ASSUME s # <<>> PROVE \E F : Frames(F, Tail(s), Head(s), w)
  <2> DEFINE p == s[1] - 1
             F == [k \in 0 .. Len(s) - 1 |-> E[k + 1]]
             c0 == E[1 - 1]
  <2>1. /\ Tail(s) \in Seq(Nat) /\ Head(s) = s[1] /\ s[1] \in Nat /\ Len(s) \in Nat /\ Len(s) >= 1
    BY <1>2, TailFacts
  <2>2. 1 \in 1 .. Len(s) /\ 1 \in 0 .. Len(s) /\ c0 = E[0] /\ p + 1 = s[1] BY <2>1
  <2>3. E[1] \in Entries BY <2>2 DEF Frames
  <2>4. p \in seen[E[1]] /\ At(p).op = "jsr" /\ Invoked(p) # {} BY <2>2 DEF Frames
  <2>5. p \in Code BY <2>3, <2>4, SolvedFacts
  <2>6. \A c \in Invoked(p) : ~unc[c] /\ clob[c] \subseteq must[c]
    BY <2>3, <2>4, SolvedFacts DEF Calls
  <2>7. \A c \in Invoked(p) : \A r \in Regs \ w : r \notin clob[c]
    <3>1. \A r \in Regs \ w : \A c \in Invoked(p) : r \in must[c] => r \in must[c0]
      BY <2>2 DEF Frames
    <3> QED BY <2>2, <2>6, <3>1
  <2>8. Writes(p) \subseteq w
    <3>1. At(p).wr = {} BY <2>4, <2>5, WritesAreRegs DEF Solved, SInv, Typed
    <3>2. ~InKernal(p) BY <2>4 DEF InKernal, Invoked, Resolved
    <3> QED BY <3>1, <3>2 DEF Writes
  <2>9. Frames(F, Tail(s), p, w) BY <1>2, Pop
  <2>10. p + 1 \in Continues(p) BY <2>4 DEF Continues
  <2> HIDE DEF p, F, c0
  <2>11. \E G : Frames(G, Tail(s), p + 1, w) BY <2>1, <2>5, <2>7, <2>8, <2>9, <2>10, Advance
  <2> QED BY <2>1, <2>2, <2>11
<1> QED BY <1>1, <1>2

\* What the instruction at reads was written, or is an input.
LEMMA FrameReads ==
  ASSUME Solved, NEW s \in Seq(Nat), NEW E, NEW pc \in Code, NEW w, Frames(E, s, pc, w),
         NEW r \in NodeReads(E[0], pc) \cap Regs, r \notin w
  PROVE  r \in inputs[top]
<1>1. E[0] \in Entries /\ pc \in seen[E[0]] /\ 0 \in 0 .. Len(s)
  <2>1. E \in [0 .. Len(s) -> Entries] /\ 0 \in 0 .. Len(s) BY DEF Frames
  <2> QED BY <2>1 DEF Frames
<1>2. Open(E[0], pc, r) /\ (r \in inputs[E[0]] => r \in inputs[top]) BY <1>1 DEF Frames
<1> QED BY <1>1, <1>2, ReadIsInput

LEMMA FrameStep ==
  ASSUME CInv, Execute, UNCHANGED vars, DefiniteCalls, ~misled', Kept
  PROVE  /\ needed' \subseteq inputs[top]
         /\ IF at' = None THEN unc[top] \/ must[top] \subseteq written'
            ELSE \/ unc[top] /\ Regs \subseteq written' \cup inputs[top]
                 \/ \E F : Frames(F, stack', at', written')
<1>1. /\ at # None /\ at \in Code /\ top # None /\ prog \in Programs /\ phase = "done" /\ top \in Entries
      /\ stack \in Seq(Nat) /\ written \subseteq Regs /\ needed \subseteq inputs[top]
  BY DEF Execute, CInv, Running, SInv, Typed, Kept
<1> ~Misled(at) BY DEF Execute
<1>2. Solved BY <1>1 DEF Solved, CInv
<1>3. /\ Writes(at) \subseteq Regs /\ Reads(at) \subseteq Regs /\ At(at).op \in Ops
      /\ At(at).rd \subseteq Regs /\ At(at).wr \subseteq Regs /\ at \in Nat /\ at + 1 \in Nat /\ At(at).tgt \in Nat
  BY <1>1, WritesAreRegs
<1>4. \A n \in Nat : n # None BY DEF None
<1>5. CASE Covered
  <2>1. unc[top] /\ Regs \ written \subseteq inputs[top] BY <1>5 DEF Covered
  <2>2. written \subseteq written' /\ needed' \subseteq needed \cup (Regs \ written)
    <3>1. CASE UNCHANGED <<written, needed>> BY <3>1
    <3>2. CASE \E rd, wr \in SUBSET Regs : Effect(rd, wr) BY <3>2 DEF Effect
    <3>3. \A t \in DOMAIN Kernal : Kernal[t].rd \in SUBSET Regs /\ Kernal[t].wr \in SUBSET Regs
      BY KernalAssumption
    <3> QED BY <1>3, <3>1, <3>2, <3>3 DEF Execute, StepLocal, StepReturn, StepCall, StepJump, StepOutside
  <2> QED BY <1>1, <2>1, <2>2
<1>6. CASE \E E : Frames(E, stack, at, written)
  <2>1. PICK E : Frames(E, stack, at, written) BY <1>6
  <2>2. /\ E[0] \in Entries /\ at \in seen[E[0]]
    <3>1. E \in [0 .. Len(stack) -> Entries] /\ 0 \in 0 .. Len(stack) BY <1>1, <2>1 DEF Frames
    <3> QED BY <1>1, <2>1, <3>1 DEF Frames
  <2>3. ASSUME Lost(at) PROVE Covered
    BY <1>1, <1>2, <2>1, <2>3, LostCovers DEF Covered
  <2>4. CASE Lost(at) BY <1>5, <2>3, <2>4
  <2>5. CASE ~Lost(at)
    <3>1. \A r \in Reads(at) \ written : r \in inputs[top]
      BY <1>1, <1>2, <1>3, <2>1, FrameReads DEF NodeReads
    <3>2. CASE StepLocal
      <4>1. At(at).op \in {"plain", "branch"} /\ stack' = stack /\ Effect(At(at).rd, At(at).wr)
        BY <3>2 DEF StepLocal
      <4>2. at' \in Continues(at) /\ at' # None BY <1>3, <1>4, <3>2 DEF StepLocal, Continues
      <4>3. ~InKernal(at) /\ Invoked(at) = {} BY <4>1 DEF InKernal, Invoked
      <4>4. Writes(at) \subseteq written' /\ written \subseteq written'
        BY <4>1, <4>3 DEF Writes, Effect
      <4>5. needed' \subseteq inputs[top] BY <1>1, <3>1, <4>1 DEF Effect, Reads
      <4>6. \E F : Frames(F, stack, at', written')
        BY <1>1, <1>2, <2>1, <4>2, <4>3, <4>4, Advance
      <4> QED BY <4>1, <4>2, <4>5, <4>6
    <3>3. CASE StepReturn
      <4>1. At(at).op = "ret" /\ Return /\ written' = written /\ needed' = needed
        BY <3>3 DEF StepReturn
      <4>2. Continues(at) = {} /\ Invoked(at) = {} /\ ~InKernal(at)
        BY <4>1 DEF Continues, Invoked, InKernal
      <4>3. at \in Exits(E[0]) /\ Calls(E[0], at) = {} BY <2>2, <4>1, <4>2 DEF Exits, Calls, Tails
      <4>4. At(at).wr = {} BY <1>1, <4>1, WritesAreRegs
      <4>5. \A r : r \notin NodeWrites(E[0], at) BY <4>2, <4>3, <4>4 DEF NodeWrites, Writes
      <4>6. \A r \in Regs \ written : r \notin must[E[0]]
        <5>1. \A r \in Regs \ written : Open(E[0], at, r) BY <1>1, <2>1 DEF Frames
        <5>2. \A r \in Regs \ written : at \notin WrittenAfter(E[0], r) BY <2>2, <4>5, <5>1, NotAfter
        <5> QED BY <1>2, <2>2, <4>1, <4>3, <5>2, ExitOwes
      <4>7. CASE stack = <<>>
        <5>1. at' = None BY <4>1, <4>7 DEF Return
        <5>2. must[top] \subseteq written BY <1>1, <1>2, <2>1, <4>6, <4>7, Resume
        <5> QED BY <1>1, <4>1, <5>1, <5>2
      <4>8. CASE stack # <<>>
        <5>1. at' = Head(stack) /\ stack' = Tail(stack) BY <4>1, <4>8 DEF Return
        <5>2. at' # None BY <1>1, <1>4, <4>8, <5>1, TailFacts
        <5>3. \E F : Frames(F, Tail(stack), Head(stack), written)
          BY <1>1, <1>2, <2>1, <4>6, <4>8, Resume
        <5> QED BY <1>1, <4>1, <5>1, <5>2, <5>3
      <4> QED BY <4>7, <4>8
    <3>4. CASE StepCall
      <4>1. /\ At(at).op = "jsr" /\ at' \in Targets(at) \cap Code /\ stack' = <<at + 1>> \o stack
            /\ written' = written /\ needed' = needed
        BY <3>4 DEF StepCall
      <4>2. at' \in Invoked(at) BY <1>1, <2>5, <4>1, Goes
      <4>3. at' # None BY <1>1, <1>4, <4>1, WritesAreRegs
      <4>4. \E F : Frames(F, <<at + 1>> \o stack, at', written)
        BY <1>1, <1>2, <2>1, <4>1, <4>2, Push
      <4> QED BY <1>1, <4>1, <4>3, <4>4
    <3>5. CASE StepJump
      <4>1. /\ At(at).op = "jmp" /\ at' \in Targets(at) \cap Code /\ stack' = stack
            /\ written' = written /\ needed' = needed
        BY <3>5 DEF StepJump
      <4>2. at' # None BY <1>1, <1>4, <4>1, WritesAreRegs
      <4>3. CASE at' \in Invoked(at)
        <5>1. at' \in Calls(E[0], at) BY <4>3 DEF Calls
        <5>2. at' \in Entries /\ at' \in Called BY <1>2, <2>2, <5>1, SolvedFacts
        <5>3. at' \in seen[at'] BY <1>2, <5>2 DEF Solved, SInv, Walked
        <5>4. \A r \in Regs \ written : Open(E[0], at, r) BY <1>1, <2>1 DEF Frames
        <5>5. \A r \in Regs \ written : r \in inputs[at'] => r \in inputs[E[0]]
          <6>1. \A r \in inputs[at'] : r \in NodeReads(E[0], at) BY <5>1 DEF NodeReads
          <6> QED BY <1>2, <2>2, <5>4, <6>1, ReadIsInput
        <5>6. \A r \in Regs \ written : r \in must[E[0]] => r \in must[at']
          BY <1>2, <2>2, <4>1, <4>3, <5>4, TailIn
        <5>7. Frames([E EXCEPT ![0] = at'], stack, at', written)
          BY <1>1, <2>1, <5>2, <5>3, <5>5, <5>6, OpenEntry, Replace
        <5> QED BY <1>1, <4>1, <4>2, <5>7
      <4>4. CASE at' \notin Invoked(at)
        <5>1. at' \in Continues(at) BY <1>1, <2>5, <4>1, <4>4, Goes
        <5>2. Invoked(at) = {} BY <4>1, <5>1 DEF Continues, Invoked, Resolved
        <5>3. ~InKernal(at) /\ At(at).wr = {}
          BY <1>1, <1>2, <2>2, <4>1, WritesAreRegs DEF Solved, DefiniteCalls
        <5>4. Writes(at) \subseteq written BY <5>3 DEF Writes
        <5>5. \E F : Frames(F, stack, at', written)
          BY <1>1, <1>2, <2>1, <5>1, <5>2, <5>4, Advance
        <5> QED BY <1>1, <4>1, <4>2, <5>5
      <4> QED BY <4>3, <4>4
    <3>6. CASE StepOutside
      <4>1. At(at).op # "ind" BY <2>5 DEF Lost
      <4>2. PICK t \in Targets(at) \ Code : At(at).op \in {"jsr", "jmp"} /\
              ((t \in DOMAIN Kernal /\ Effect(Kernal[t].rd, Kernal[t].wr)) \/ t \notin DOMAIN Kernal)
        BY <3>6, <4>1 DEF StepOutside
      <4>3. t \in DOMAIN Kernal /\ InKernal(at) /\ t = At(at).tgt /\ Effect(Kernal[t].rd, Kernal[t].wr)
        BY <1>1, <2>5, <4>2, Goes
      <4>4. At(at).op = "jsr" BY <1>2, <2>2, <4>2, <4>3 DEF Solved, DefiniteCalls
      <4>5. at' = at + 1 /\ stack' = stack /\ at' \in Continues(at) /\ at' # None
        BY <1>3, <1>4, <3>6, <4>4 DEF StepOutside, Continues
      <4>6. Invoked(at) = {} BY <4>3 DEF InKernal, Invoked, Resolved
      <4>7. Writes(at) \subseteq written' /\ written \subseteq written'
        <5>1. At(at).wr = {} BY <1>1, <4>4, WritesAreRegs
        <5> QED BY <4>3, <5>1 DEF Writes, Effect
      <4>8. needed' \subseteq inputs[top] BY <1>1, <3>1, <4>3 DEF Effect, Reads
      <4>9. \E F : Frames(F, stack, at', written')
        BY <1>1, <1>2, <2>1, <4>5, <4>6, <4>7, Advance
      <4> QED BY <4>5, <4>8, <4>9
    <3> QED BY <3>2, <3>3, <3>4, <3>5, <3>6 DEF Execute
  <2> QED BY <2>4, <2>5
<1> QED BY <1>1, <1>5, <1>6 DEF Kept

(***************************************************************************)
(* The invariant of the run, and what it says of the report.               *)
(***************************************************************************)

\* The frames are a matter of the tables and of the subroutine entered.
LEMMA SameFrames ==
  ASSUME UNCHANGED vars, top' = top
  PROVE  /\ DefiniteCalls' = DefiniteCalls
         /\ \A s, a, w : (\E E : Frames(E, s, a, w))' = (\E E : Frames(E, s, a, w))
<1>1. /\ prog' = prog /\ seen' = seen /\ clob' = clob /\ unc' = unc /\ inputs' = inputs /\ must' = must
  BY DEF vars
<1>2. Called' = Called BY <1>1, SameProgram, SameGraphs DEF Called
<1>3. \A e, pc, r : Open(e, pc, r)' = Open(e, pc, r) BY <1>1, SameWritten DEF Open
<1>4. DefiniteCalls' = DefiniteCalls
  <2>1. Entries' = Entries /\ \A e : Callees(e)' = Callees(e) BY <1>1, SameProgram, SameGraphs
  <2>2. \A pc : /\ At(pc)' = At(pc) /\ Lost(pc)' = Lost(pc) /\ Invoked(pc)' = Invoked(pc)
                /\ InKernal(pc)' = InKernal(pc) /\ \A e : Tails(e, pc)' = Tails(e, pc)
    BY <1>1, SameProgram DEF InKernal
  <2> QED BY <1>1, <2>1, <2>2 DEF DefiniteCalls
<1>5. \A E, s, a, w : Frames(E, s, a, w)' = Frames(E, s, a, w)
  BY <1>1, <1>2, <1>3, SameProgram DEF Frames
<1> QED BY <1>4, <1>5

LEMMA KeptStep ==
  ASSUME CInv, Execute, UNCHANGED vars, DefiniteCalls, ~misled', Kept
  PROVE  Kept'
<1>1. top' = top /\ unc' = unc /\ inputs' = inputs /\ must' = must BY DEF Execute, vars
<1>2. \A s, a, w : (\E E : Frames(E, s, a, w))' = (\E E : Frames(E, s, a, w)) BY <1>1, SameFrames
<1> QED BY <1>1, <1>2, FrameStep DEF Kept, Covered

LEMMA DInductive == Spec => []DInv
<1>1. ExecInit => DInv
  <2> SUFFICES ASSUME ExecInit PROVE DInv OBVIOUS
  <2>0. misled \in BOOLEAN BY DEF ExecInit
  <2>1. top = None /\ Running BY <2>0 DEF ExecInit, Running
  <2> QED BY <2>1, SInit DEF ExecInit, CInv, DInv
<1>2. DInv /\ CInv' /\ [Next]_allVars => DInv'
  <2> SUFFICES ASSUME DInv, CInv', [Next]_allVars, top' # None, DefiniteCalls', ~misled' PROVE Kept'
    BY DEF DInv
  <2>1. CASE Analyze /\ UNCHANGED execVars
    <3>1. top' = top BY <2>1 DEF execVars
    <3>2. phase # "done"
      BY <2>1 DEF Analyze, Walk, GrowClobbers, GrowInputs, ShrinkMust, GrowDemand, EndLoop, After
    <3> QED BY <3>1, <3>2 DEF DInv, CInv, Running
  <2>2. CASE Execute /\ UNCHANGED vars
    <3>1. top' = top /\ top # None BY <2>2 DEF Execute, DInv, CInv, Running
    <3>2. DefiniteCalls BY <2>2, <3>1, SameFrames
    <3>3. ~misled BY <2>2 DEF Execute, DInv, CInv, Running
    <3> QED BY <2>2, <3>1, <3>2, <3>3, KeptStep DEF DInv
  <2>3. CASE (\E e \in Entries : Enter(e)) /\ UNCHANGED vars
    <3>1. PICK e \in Entries : Enter(e) BY <2>3
    <3>2. /\ top' = e /\ at' = e /\ stack' = <<>> /\ written' = {} /\ needed' = {} /\ phase = "done"
      BY <3>1 DEF Enter, DInv, CInv, Running
    <3>3. /\ prog' = prog /\ seen' = seen /\ inputs' = inputs /\ must' = must /\ phase' = phase
      BY <2>3 DEF vars
    <3>4. e \in Entries' /\ Entries' = Entries BY <3>3, SameProgram
    <3>5. e \in seen'[e] BY <3>1, <3>2, <3>3 DEF DInv, CInv, SInv, Walked
    <3>6. Len(stack') = 0 BY <3>2
    <3> DEFINE F == [k \in 0 .. 0 |-> e]
    <3>7. Frames(F, stack, at, written)'
      <4>1. F \in [0 .. Len(stack') -> Entries'] /\ F[0] = e BY <3>4, <3>6
      <4>2. \A k \in 0 .. Len(stack') : k = Len(stack') /\ F[k] = top' BY <3>2, <3>6
      <4>3. \A r : Open(e, e, r)' BY DEF Open, WrittenBefore
      <4> HIDE DEF F
      <4>4. 1 .. Len(stack') = {} BY <3>6
      <4> QED BY <3>2, <3>5, <3>6, <4>1, <4>2, <4>3, <4>4 DEF Frames
    <3>8. at' # None BY <3>2, WritesAreRegs DEF None, DInv, CInv, SInv, Typed, Entries
    <3> QED BY <3>2, <3>7, <3>8 DEF Kept
  <2>4. CASE UNCHANGED allVars
    <3>1. UNCHANGED vars /\ UNCHANGED <<top, at, stack, written, needed, misled>> BY <2>4 DEF allVars, execVars
    <3>2. /\ DefiniteCalls
          /\ \A s, a, w : (\E E : Frames(E, s, a, w))' = (\E E : Frames(E, s, a, w))
      BY <3>1, SameFrames
    <3>3. Kept BY <3>1, <3>2 DEF DInv
    <3>4. unc' = unc /\ inputs' = inputs /\ must' = must BY <3>1 DEF vars
    <3> QED BY <3>1, <3>2, <3>3, <3>4 DEF Kept, Covered
  <2> QED BY <2>1, <2>2, <2>3, <2>4 DEF Next
<1> QED BY <1>1, <1>2, CInductive, PTL DEF Spec

\* Where calls are definite, an activation that passed no misread site reads
\* no register that its report does not list as an input, and a certain
\* subroutine returns with every output its report lists written, whatever
\* path it took.
THEOREM InterfaceIsDefinite == Spec => []DefiniteInterface
<1>1. DInv => DefiniteInterface
  <2> SUFFICES ASSUME DInv, top # None, DefiniteCalls, ~misled PROVE InputsCover /\ OutputsHold
    BY DEF DefiniteInterface
  <2>1. Kept BY DEF DInv
  <2>2. InputsCover BY <2>1 DEF Kept, InputsCover
  <2>3. OutputsHold BY <2>1 DEF Kept, OutputsHold, Returned, Outputs
  <2> QED BY <2>2, <2>3
<1> QED BY <1>1, DInductive, PTL
===============================================================================
