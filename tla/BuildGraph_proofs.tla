--------------------------- MODULE BuildGraph_proofs ---------------------------
(***************************************************************************)
(* The three promises of the Makefile, for any number of edits and         *)
(* invocations.  The agenda is always the rest of the goal's recipes, so   *)
(* how many are Done says what the files and the comparisons have          *)
(* established while nothing disturbs the run.                             *)
(***************************************************************************)
EXTENDS BuildGraph, SequenceTheorems, TLAPS

Goals == {"asm", "roundtrip", "lint", "callgraph", "triage", "effects", "ghidra", "verify"}
Names == {"facts", "graph", "effects", "asm", "assemble", "check", "diff", "lint", "triage", "report",
          "export", "compare"}
Emitting == {"asm", "roundtrip", "verify"}
Before == Prerequisites["facts"]

\* How many recipes of the goal have run.
Done == Len(Recipes[goal]) - Len(agenda)

\* The agenda is what is left of the goal.
AgendaIsRest ==
  agenda # <<>> =>
    /\ goal \in Goals /\ Len(agenda) \in 1..Len(Recipes[goal])
    /\ agenda = SubSeq(Recipes[goal], Done + 1, Len(Recipes[goal]))

Shape ==
  /\ DOMAIN ver = Sources /\ DOMAIN file = Targets
  /\ DOMAIN newer = Rebuilt /\ raced \subseteq Targets
  /\ file["facts"].state \in {"absent", "partial", "whole"}
  /\ agenda = <<>> => at = "next"
  /\ exit = "ok" => agenda = <<>>

\* What the facts were computed from is what the sources are, or make sees it.
FactsFresh ==
  file["facts"].state = "whole" /\ "facts" \notin raced =>
    \A s \in Before : file["facts"].of[s] = ver[s] \/ s \in newer["facts"]

\* make has nothing to do for the facts.
FactsKept == file["facts"].state # "absent" /\ newer["facts"] \cap Before = {}

\* What an emission would write now.
Emitted == [src |-> Current("asm"), facts |-> file["facts"].of, ghidra |-> ghidra]

\* The listing is that of the present sources and of the facts that are there.
AsmCurrent ==
  /\ file["asm"] = Whole(Emitted)
  /\ file["facts"].state = "whole" /\ newer["facts"] \cap Before = {}

\* A run that emits, recipe by recipe, while no source is edited.
Progress ==
  calm /\ goal \in Emitting =>
    /\ agenda # <<>> /\ Done >= 1 =>
         FactsKept /\ (Running("facts") => at = "next")
    /\ Running("asm") /\ at # "next" =>
         held = Emitted /\ file["facts"].state = "whole"
    /\ agenda # <<>> /\ Done >= 2 => AsmCurrent \/ (Running("asm") /\ at = "opened")
    /\ exit = "ok" => AsmCurrent

IInv == AgendaIsRest /\ Shape /\ FactsFresh /\ Progress

-------------------------------------------------------------------------------

\* A sequence of recipes that starts with the listing.
MakesListing(s) ==
  s \in Seq(Names) /\ Len(s) >= 2 /\ s[1] = "facts" /\ s[2] = "asm"

\* More recipes behind it do not change that.
LEMMA Continued ==
  ASSUME NEW s, MakesListing(s), NEW t \in Seq(Names)
  PROVE  MakesListing(s \o t)
BY ConcatProperties DEF MakesListing

\* What the goals are made of: the facts come first and the listing second
\* where there is one.
LEMMA GoalRecipes ==
  /\ DOMAIN Recipes = Goals
  /\ \A g \in Goals : Recipes[g] \in Seq(Names) /\ Len(Recipes[g]) >= 1
  /\ \A g \in Emitting : MakesListing(Recipes[g])
  /\ \A g \in Goals : (\E i \in 1..Len(Recipes[g]) : Recipes[g][i] = "asm") => g \in Emitting
<1>1. DOMAIN Recipes = Goals  BY DEF Recipes, Goals
<1>2. /\ Recipes["asm"] = Listing /\ Recipes["roundtrip"] = RoundTrip
      /\ Recipes["lint"] = <<"facts", "graph", "lint">>
      /\ Recipes["callgraph"] = <<"graph">> /\ Recipes["ghidra"] = <<"export">>
      /\ Recipes["triage"] = <<"graph", "triage">> /\ Recipes["effects"] = <<"effects", "report">>
      /\ Recipes["verify"] = Verify
  BY DEF Recipes, Lint
<1>3. MakesListing(Listing)  BY DEF Listing, MakesListing, Names
<1>4. MakesListing(RoundTrip)  
  <2>1. <<"assemble", "check">> \in Seq(Names)  BY DEF Names
  <2> QED  BY <2>1, <1>3, Continued DEF RoundTrip
<1>5. MakesListing(Verify)
  <2>1. /\ <<"diff">> \in Seq(Names) /\ Lint \in Seq(Names)
        /\ <<"export", "compare">> \in Seq(Names) /\ RoundTrip \in Seq(Names)
    BY <1>4 DEF Lint, MakesListing, Names
  <2>2. MakesListing(Listing \o <<"diff">>)  BY <1>3, <2>1, Continued
  <2>3. MakesListing(Listing \o <<"diff">> \o RoundTrip)  BY <2>1, <2>2, Continued
  <2>4. MakesListing(Listing \o <<"diff">> \o RoundTrip \o Lint)  BY <2>1, <2>3, Continued
  <2> QED  BY <2>1, <2>4, Continued DEF Verify
<1>6. \A g \in Emitting : MakesListing(Recipes[g])  BY <1>2, <1>3, <1>4, <1>5 DEF Emitting
<1>7. \A g \in Goals \ Emitting :
        /\ Recipes[g] \in Seq(Names) /\ Len(Recipes[g]) >= 1
        /\ \A i \in 1..Len(Recipes[g]) : Recipes[g][i] # "asm"
  <2> DEFINE ok(q) == q \in Seq(Names) /\ Len(q) >= 1 /\ \A i \in 1..Len(q) : q[i] # "asm"
  <2>1. ok(Recipes["lint"])
    <3>1. <<"facts", "graph", "lint">> \in Seq(Names)  BY DEF Names
    <3> QED  BY <1>2, <3>1
  <2>2. ok(Recipes["callgraph"])
    <3>1. <<"graph">> \in Seq(Names)  BY DEF Names
    <3> QED  BY <1>2, <3>1
  <2>3. ok(Recipes["ghidra"])
    <3>1. <<"export">> \in Seq(Names)  BY DEF Names
    <3> QED  BY <1>2, <3>1
  <2>4. ok(Recipes["triage"])
    <3>1. <<"graph", "triage">> \in Seq(Names)  BY DEF Names
    <3> QED  BY <1>2, <3>1
  <2>5. ok(Recipes["effects"])
    <3>1. <<"effects", "report">> \in Seq(Names)  BY DEF Names
    <3> QED  BY <1>2, <3>1
  <2> QED  BY <2>1, <2>2, <2>3, <2>4, <2>5 DEF Goals, Emitting
<1> QED  BY <1>1, <1>6, <1>7 DEF MakesListing

\* The first recipe of the agenda is the next of the goal, and the rest of the
\* agenda the rest of the goal.
LEMMA Advance ==
  ASSUME AgendaIsRest, agenda # <<>>
  PROVE  /\ Done \in Nat /\ Done < Len(Recipes[goal])
         /\ Head(agenda) = Recipes[goal][Done + 1]
         /\ Tail(agenda) = SubSeq(Recipes[goal], Done + 2, Len(Recipes[goal]))
         /\ Len(Tail(agenda)) = Len(agenda) - 1 /\ Tail(agenda) \in Seq(Names)
<1> DEFINE r == Recipes[goal]
           n == Len(r)
<1>1. goal \in Goals /\ Len(agenda) \in 1..n /\ agenda = SubSeq(r, Done + 1, n)
  BY DEF AgendaIsRest
<1>2. r \in Seq(Names) /\ n \in Nat  BY <1>1, GoalRecipes
<1>3. Done = n - Len(agenda)  BY DEF Done
<1> HIDE DEF r, n
<1>4. Done \in Nat /\ Done < n /\ Done + 1 \in 1..n /\ n \in Done + 1..n
  BY <1>1, <1>2, <1>3
<1>5. Head(agenda) = r[Done + 1] /\ Tail(agenda) = SubSeq(r, (Done + 1) + 1, n)
  BY <1>1, <1>2, <1>4, HeadTailOfSubSeq
<1>6. \A i \in Done + 1..n : r[i] \in Names  BY <1>2, <1>4 DEF n
<1>7. agenda \in Seq(Names)  BY <1>1, <1>4, <1>6, SubSeqProperties
<1>8. Len(Tail(agenda)) = Len(agenda) - 1 /\ Tail(agenda) \in Seq(Names)
  BY <1>7, HeadTailProperties
<1> QED  BY <1>4, <1>5, <1>8 DEF r, n

\* Where the run is, in the terms the invariant uses.
LEMMA Position ==
  ASSUME AgendaIsRest
  PROVE  /\ Running("asm") => goal \in Emitting
         /\ agenda # <<>> => Done \in Nat
         /\ agenda # <<>> /\ goal \in Emitting =>
              /\ Done = 0 => Running("facts")
              /\ Done = 1 => Running("asm")
              /\ Done = 0 => Len(agenda) # 1
<1> SUFFICES ASSUME agenda # <<>>
             PROVE  /\ Running("asm") => goal \in Emitting
                    /\ Done \in Nat
                    /\ goal \in Emitting =>
                         /\ Done = 0 => Running("facts")
                         /\ Done = 1 => Running("asm")
                         /\ Done = 0 => Len(agenda) # 1
  BY DEF Running
<1>1. /\ Done \in Nat /\ Done < Len(Recipes[goal])
      /\ Head(agenda) = Recipes[goal][Done + 1]
  BY Advance
<1>2. goal \in Goals /\ Len(agenda) \in 1..Len(Recipes[goal])  BY DEF AgendaIsRest
<1>3. Len(Recipes[goal]) \in Nat  BY <1>2, GoalRecipes
<1>4. Running("asm") => goal \in Emitting
  BY <1>1, <1>2, <1>3, GoalRecipes DEF Running
<1>5. ASSUME goal \in Emitting
      PROVE  /\ Done = 0 => Running("facts")
             /\ Done = 1 => Running("asm")
             /\ Done = 0 => Len(agenda) # 1
  BY <1>1, <1>2, <1>3, <1>5, GoalRecipes DEF Running, MakesListing, Done
<1> QED  BY <1>1, <1>4, <1>5

\* A recipe that is over leaves the rest of the goal.
LEMMA GoesOn ==
  ASSUME AgendaIsRest, agenda # <<>>, Proceed, goal' = goal
  PROVE  /\ AgendaIsRest'
         /\ agenda' # <<>> => Done' = Done + 1
         /\ agenda' = <<>> => Len(agenda) = 1
<1>1. /\ Done \in Nat /\ Done < Len(Recipes[goal])
      /\ Tail(agenda) = SubSeq(Recipes[goal], Done + 2, Len(Recipes[goal]))
      /\ Len(Tail(agenda)) = Len(agenda) - 1 /\ Tail(agenda) \in Seq(Names)
  BY Advance
<1>2. goal \in Goals /\ Len(agenda) \in 1..Len(Recipes[goal])  BY DEF AgendaIsRest
<1>3. Len(Recipes[goal]) \in Nat /\ Recipes[goal] \in Seq(Names)  BY <1>2, GoalRecipes
<1>4. agenda' = Tail(agenda)  BY DEF Proceed
<1>5. Recipes' = Recipes  BY DEF Recipes, Listing, RoundTrip, Lint, Verify
<1>6. Done' = Done + 1  BY <1>1, <1>2, <1>3, <1>4, <1>5 DEF Done
<1>7. agenda' = <<>> => Len(agenda) = 1
  <2>1. agenda' = <<>> => Len(agenda') = 0  OBVIOUS
  <2>2. Len(agenda') = Len(agenda) - 1  BY <1>1, <1>4
  <2> QED  BY <1>2, <1>3, <2>1, <2>2
<1>8. agenda' # <<>> => Len(agenda') \in 1..Len(Recipes[goal])
  <2>1. agenda' # <<>> => Len(agenda') >= 1  BY <1>1, <1>4
  <2>2. Len(agenda') = Len(agenda) - 1  BY <1>1, <1>4
  <2> QED  BY <1>2, <1>3, <2>1, <2>2
<1>9. AgendaIsRest'
  BY <1>1, <1>2, <1>4, <1>5, <1>6, <1>8 DEF AgendaIsRest
<1> QED  BY <1>6, <1>7, <1>9


\* A recipe that is over and has not touched the facts or the listing.
LEMMA Passes ==
  ASSUME IInv, agenda # <<>>, Proceed, Outside, ~Running("asm"),
         file["facts"]' = file["facts"], file["asm"]' = file["asm"],
         newer["facts"]' = newer["facts"],
         Running("facts") => FactsKept
  PROVE  AgendaIsRest' /\ Progress'
<1>1. UNCHANGED <<goal, ver, ghidra, calm>>  BY DEF Outside
<1>2. AgendaIsRest' /\ (agenda' # <<>> => Done' = Done + 1) /\ (agenda' = <<>> => Len(agenda) = 1)
  BY <1>1, GoesOn DEF IInv
<1>3. at' = "next" /\ (exit' = "ok" => agenda' = <<>>)
  BY DEF Proceed, IInv, Shape
<1>4. /\ Done \in Nat
      /\ goal \in Emitting =>
           (Done = 0 => Running("facts") /\ Len(agenda) # 1) /\ Done # 1
  BY Position DEF IInv
<1>5. ASSUME calm', goal' \in Emitting
      PROVE  /\ FactsKept /\ (Done >= 1 => AsmCurrent)
             /\ agenda' = <<>> => Done >= 1
  <2>1. calm /\ goal \in Emitting  BY <1>1, <1>5
  <2>2. FactsKept  BY <1>4, <2>1 DEF IInv, Progress
  <2>3. Done >= 1 => Done >= 2  BY <1>4, <2>1
  <2>4. Done >= 1 => AsmCurrent  BY <2>1, <2>3 DEF IInv, Progress
  <2>5. agenda' = <<>> => Done >= 1
    <3>1. Done = 0 => Len(agenda) # 1  BY <1>4, <2>1
    <3> QED  BY <1>2, <1>4, <3>1
  <2> QED  BY <2>2, <2>4, <2>5
<1>6. (FactsKept => FactsKept') /\ (AsmCurrent => AsmCurrent')
  BY <1>1 DEF FactsKept, AsmCurrent, Emitted, Current
<1>7. Progress'
  BY <1>1, <1>2, <1>3, <1>4, <1>5, <1>6 DEF Progress
<1> QED  BY <1>2, <1>7

\* After make has stopped there is nothing to run.
LEMMA Stopped ==
  ASSUME NEW status, status # "ok", Stop(status)
  PROVE  AgendaIsRest' /\ Progress' /\ (agenda = <<>> => at = "next")' /\ (exit = "ok" => agenda = <<>>)'
BY DEF Stop, AgendaIsRest, Progress, Running

\* The facts, from the decision to make them to the finished file.
LEMMA FactsKeepIInv ==
  ASSUME IInv, Facts  PROVE IInv'
<1>1. Running("facts") /\ Outside /\ agenda # <<>> /\ ~Running("asm")
  BY DEF Facts, Skip, Compute, Open, Complete, Running
<1>2. CASE Skip("facts")
  <2>1. Proceed /\ UNCHANGED <<file, newer, raced>>  BY <1>2 DEF Skip
  <2>2. FactsKept  BY <1>2 DEF Skip, UpToDate, FactsKept, Before
  <2>3. AgendaIsRest' /\ Progress'  BY <1>1, <2>1, <2>2, Passes
  <2>4. Shape' /\ FactsFresh'  BY <1>1, <2>1 DEF IInv, Shape, FactsFresh, Outside, Proceed
  <2> QED  BY <2>3, <2>4 DEF IInv
<1>3. CASE Compute("facts")
  <2>1. UNCHANGED <<file, newer, raced, ver, goal, calm>> /\ at = "next"
    BY <1>3 DEF Compute, Fail, Outside
  <2>2. FactsFresh'  BY <2>1 DEF IInv, FactsFresh
  <2>3. CASE Fail
    <3>1. AgendaIsRest' /\ Progress' /\ Shape'
      BY <2>1, <2>3, Stopped DEF Fail, IInv, Shape
    <3> QED  BY <2>2, <3>1 DEF IInv
  <2>4. CASE at' = "computed" /\ UNCHANGED <<agenda, exit>>
    <3>1. ~FactsKept  BY <1>3 DEF Compute, UpToDate, FactsKept, Before
    <3>2. calm /\ goal \in Emitting => Done \in Nat /\ ~(Done >= 1)
      BY <1>1, <3>1, Position DEF IInv, Progress
    <3>3. Done' = Done /\ (Running("asm") <=> Running("asm")') /\ AgendaIsRest'
      BY <2>1, <2>4 DEF IInv, AgendaIsRest, Done, Running, Recipes, Listing, RoundTrip, Lint, Verify
    <3>4. exit' # "ok" /\ Shape'  BY <1>1, <2>1, <2>4 DEF IInv, Shape
    <3>5. Progress'  BY <1>1, <2>1, <3>2, <3>3, <3>4 DEF Progress
    <3> QED  BY <2>2, <3>3, <3>4, <3>5 DEF IInv
  <2> QED  BY <1>3, <2>3, <2>4 DEF Compute
<1>4. CASE Open("facts") \/ Complete("facts")
  <2>1. at # "next"  BY <1>4 DEF Open, Complete
  <2>2. calm /\ goal \in Emitting => Done \in Nat /\ ~(Done >= 1)
    BY <1>1, <2>1, Position DEF IInv, Progress
  <2>3. CASE Open("facts")
    <3>1. /\ UNCHANGED <<agenda, goal, calm, ver, exit, raced>> /\ at' = "opened"
          /\ Put("facts", Partial) /\ Touch("facts")
      BY <2>3 DEF Open, Outside
    <3>2. file'["facts"] = Partial  BY <3>1 DEF Put, IInv, Shape, Targets
    <3>3. Done' = Done /\ (Running("asm") <=> Running("asm")') /\ AgendaIsRest'
      BY <3>1 DEF IInv, AgendaIsRest, Done, Running, Recipes, Listing, RoundTrip, Lint, Verify
    <3>4. exit' # "ok" /\ Shape'  BY <1>1, <3>1, <3>2 DEF IInv, Shape, Put, Touch, Partial
    <3>5. Progress'  BY <1>1, <2>2, <3>1, <3>3, <3>4 DEF Progress
    <3>6. FactsFresh'  BY <3>2 DEF FactsFresh, Partial
    <3> QED  BY <3>3, <3>4, <3>5, <3>6 DEF IInv
  <2>4. CASE Complete("facts")
    <3>1. /\ Put("facts", Whole(held)) /\ Touch("facts") /\ Proceed
          /\ UNCHANGED <<goal, calm, ver>>
          /\ raced' = IF held = Current("facts") THEN raced \ {"facts"} ELSE raced \cup {"facts"}
      BY <2>4 DEF Complete, Outside, NowOf
    <3>2. file'["facts"] = Whole(held) /\ newer'["facts"] = {}
      BY <3>1 DEF Put, Touch, IInv, Shape, Targets, Rebuilt
    <3>3. AgendaIsRest' /\ (agenda' # <<>> => Done' = Done + 1) /\ (agenda' = <<>> => Len(agenda) = 1)
      BY <1>1, <3>1, GoesOn DEF IInv
    <3>4. at' = "next" /\ (exit' = "ok" => agenda' = <<>>)
      BY <3>1 DEF Proceed, IInv, Shape
    <3>5. Shape'
      BY <3>1, <3>2, <3>4 DEF IInv, Shape, Put, Touch, Whole, Targets
    <3>6. FactsFresh'
      BY <3>1, <3>2 DEF FactsFresh, Whole, Current, Before, Prerequisites, Reads, Common
    <3>7. FactsKept'  BY <3>2 DEF FactsKept, Whole
    <3>8. calm' /\ goal' \in Emitting => agenda' # <<>> /\ Done' = 1
      <4>1. calm' /\ goal' \in Emitting => Done = 0  BY <2>2, <3>1
      <4>2. goal \in Emitting /\ Done = 0 => Len(agenda) # 1
        BY <1>1, Position DEF IInv
      <4> QED  BY <3>1, <3>3, <4>1, <4>2
    <3>9. Progress'  BY <3>4, <3>7, <3>8 DEF Progress, Shape
    <3> QED  BY <3>3, <3>5, <3>6, <3>9 DEF IInv
  <2> QED  BY <1>4, <2>3, <2>4
<1> QED  BY <1>2, <1>3, <1>4 DEF Facts


\* A recipe that fails, or a kill, ends the run.
LEMMA StopKeepsIInv ==
  ASSUME IInv, NEW status, status # "ok", Stop(status), ver' = ver, raced' = raced, newer' = newer,
         \/ file' = file
         \/ \E t \in Rebuilt : Put(t, Absent)
  PROVE  IInv'
<1>1. AgendaIsRest' /\ Progress' /\ (agenda = <<>> => at = "next")' /\ (exit = "ok" => agenda = <<>>)'
  BY Stopped
<1>2. file' = file \/ file'["facts"] = file["facts"] \/ file'["facts"] = Absent
  BY DEF Put, IInv, Shape, Targets
<1>3. Shape'  BY <1>1, <1>2 DEF IInv, Shape, Put, Absent
<1>4. FactsFresh'  BY <1>2 DEF IInv, FactsFresh, Absent
<1> QED  BY <1>1, <1>3, <1>4 DEF IInv

\* The recipes that have nothing to do with the facts or the listing.
LEMMA OthersKeepIInv ==
  ASSUME IInv,
         \/ Graph \/ Effects \/ Assemble \/ Export \/ Step("check", SameBytes)
         \/ Step("lint", file["graph"].state = "whole")
         \/ Step("triage", file["graph"].state = "whole") \/ Step("report", TRUE)
         \/ Step("diff", file["asm"] = Whole(committed))
         \/ Step("compare", file["fresh"] = Whole(ghidra))
  PROVE  IInv'
<1>1. agenda # <<>> /\ Outside /\ ~Running("asm") /\ ~Running("facts")
  BY DEF Graph, Effects, Skip, Compute, Open, Complete, Assemble, Export, Step, Running
<1>2. UNCHANGED <<ver, ghidra, goal, calm>>  BY <1>1 DEF Outside
<1> DEFINE Reports == {"graph", "effects"}
<1>3. CASE Fail
  <2>1. Stop("failed") /\ UNCHANGED <<file, newer, raced>>  BY <1>3 DEF Fail
  <2> QED  BY <1>2, <2>1, StopKeepsIInv
<1>4. ASSUME Proceed,
             file' = file \/ \E t \in Targets \ {"facts", "asm"} : \E c : Put(t, c),
             newer' = newer \/ \E t \in Reports : Touch(t),
             raced' = raced \/ \E t \in Reports : raced' \in {raced \ {t}, raced \cup {t}}
      PROVE  IInv'
  <2>1. /\ file'["facts"] = file["facts"] /\ file'["asm"] = file["asm"]
        /\ newer'["facts"] = newer["facts"] /\ DOMAIN file' = Targets /\ DOMAIN newer' = Rebuilt
        /\ ("facts" \in raced' <=> "facts" \in raced) /\ raced' \subseteq Targets
    BY <1>4 DEF Put, Touch, IInv, Shape, Targets, Rebuilt
  <2>2. AgendaIsRest' /\ Progress'  BY <1>1, <1>4, <2>1, Passes
  <2>3. Shape' /\ FactsFresh'
    BY <1>2, <1>4, <2>1 DEF IInv, Shape, FactsFresh, Proceed
  <2> QED  BY <2>2, <2>3 DEF IInv
<1>5. ASSUME UNCHANGED <<agenda, exit, raced>>, at' # "next",
             file' = file \/ \E t \in Reports : Put(t, Partial),
             newer' = newer \/ \E t \in Reports : Touch(t)
      PROVE  IInv'
  <2>1. /\ file'["facts"] = file["facts"] /\ file'["asm"] = file["asm"]
        /\ newer'["facts"] = newer["facts"] /\ DOMAIN file' = Targets /\ DOMAIN newer' = Rebuilt
    BY <1>5 DEF Put, Touch, IInv, Shape, Targets, Rebuilt
  <2>2. AgendaIsRest' /\ Done' = Done /\ ~Running("asm")' /\ ~Running("facts")'
    BY <1>1, <1>2, <1>5 DEF IInv, AgendaIsRest, Done, Running, Recipes, Listing, RoundTrip, Lint, Verify
  <2>3. Shape' /\ FactsFresh' /\ exit' # "ok"
    BY <1>1, <1>2, <1>5, <2>1 DEF IInv, Shape, FactsFresh
  <2>4. (FactsKept => FactsKept') /\ (AsmCurrent => AsmCurrent')
    BY <1>2, <2>1 DEF FactsKept, AsmCurrent, Emitted, Current
  <2>5. Progress'
    BY <1>1, <1>2, <1>5, <2>2, <2>3, <2>4 DEF IInv, Progress
  <2> QED  BY <2>2, <2>3, <2>5 DEF IInv
<1>6. ASSUME NEW t \in Reports, Skip(t)  PROVE IInv'
  BY <1>4, <1>6 DEF Skip
<1>7. ASSUME NEW t \in Reports, Compute(t)  PROVE IInv'
  <2>1. Fail \/ (at' = "computed" /\ UNCHANGED <<agenda, exit, file, newer, raced>>)
    BY <1>7 DEF Compute
  <2> QED  BY <1>3, <1>5, <2>1
<1>8. ASSUME NEW t \in Reports, Open(t)  PROVE IInv'
  BY <1>5, <1>8 DEF Open
<1>9. ASSUME NEW t \in Reports, Complete(t)  PROVE IInv'
  <2>1. /\ Put(t, Whole(held)) /\ Touch(t) /\ Proceed
        /\ raced' \in {raced \ {t}, raced \cup {t}}
    BY <1>9 DEF Complete
  <2>2. t \in Targets \ {"facts", "asm"}  BY DEF Targets
  <2> QED  BY <1>4, <2>1, <2>2
<1>10. CASE Assemble
  <2>1. Fail \/ (Put("prg", file["asm"]) /\ Proceed /\ UNCHANGED <<newer, raced>>)
    BY <1>10 DEF Assemble
  <2>2. "prg" \in Targets \ {"facts", "asm"}  BY DEF Targets
  <2> QED  BY <1>3, <1>4, <2>1, <2>2
<1>11. CASE Export
  <2>1. Fail \/ (Put("fresh", Whole(Current("fresh"))) /\ Proceed /\ UNCHANGED <<newer, raced>>)
    BY <1>11 DEF Export
  <2>2. "fresh" \in Targets \ {"facts", "asm"}  BY DEF Targets
  <2> QED  BY <1>3, <1>4, <2>1, <2>2
<1>12. ASSUME NEW recipe, NEW passes, Step(recipe, passes)  PROVE IInv'
  <2>1. Fail \/ (Proceed /\ UNCHANGED <<file, newer, raced>>)  BY <1>12 DEF Step
  <2> QED  BY <1>3, <1>4, <2>1
<1> QED  BY <1>6, <1>7, <1>8, <1>9, <1>10, <1>11, <1>12 DEF Graph, Effects


\* The listing, from reading the facts to the finished file.
LEMMA AsmKeepsIInv ==
  ASSUME IInv, Asm  PROVE IInv'
<1>1. Running("asm") /\ Outside /\ agenda # <<>> /\ ~Running("facts")
  BY DEF Asm, ReadFacts, Open, EmissionFails, Complete, Running
<1>2. UNCHANGED <<ver, ghidra, goal, calm>> /\ goal \in Emitting /\ Done \in Nat /\ Done # 0
  BY <1>1, Position DEF Outside, IInv
<1>3. exit # "ok"  BY <1>1 DEF IInv, Shape
<1>4. CASE EmissionFails \/ (ReadFacts /\ (Fail \/ Stop("unreadable")))
  <2>1. /\ Stop("failed") \/ Stop("unreadable")
        /\ UNCHANGED <<file, newer, raced>>
    BY <1>4 DEF EmissionFails, ReadFacts, Fail, Stop
  <2> QED  BY <1>2, <2>1, StopKeepsIInv
<1>5. CASE ReadFacts /\ ~Fail /\ ~Stop("unreadable")
  <2>1. /\ file["facts"].state # "partial" /\ at = "next" /\ at' = "computed"
        /\ held' = Emitted /\ UNCHANGED <<agenda, exit, file, newer, raced>>
    BY <1>5 DEF ReadFacts, Emitted
  <2>2. AgendaIsRest' /\ Done' = Done /\ Running("asm")' /\ ~Running("facts")'
    BY <1>1, <1>2, <2>1 DEF IInv, AgendaIsRest, Done, Running, Recipes, Listing, RoundTrip, Lint, Verify
  <2>3. Shape' /\ FactsFresh'  BY <1>1, <1>2, <2>1 DEF IInv, Shape, FactsFresh
  <2>4. (FactsKept => FactsKept') /\ (AsmCurrent => AsmCurrent')
    BY <1>2, <2>1 DEF FactsKept, AsmCurrent, Emitted, Current
  <2>5. held' = Emitted'  BY <1>2, <2>1 DEF Current, Emitted
  <2>6. calm => FactsKept /\ (Done >= 2 => AsmCurrent)
    BY <1>1, <1>2, <2>1 DEF IInv, Progress
  <2>7. calm => file'["facts"].state = "whole"
    BY <2>1, <2>6 DEF FactsKept, IInv, Shape
  <2>8. Progress'
    BY <1>2, <1>3, <2>1, <2>2, <2>4, <2>5, <2>6, <2>7 DEF Progress
  <2> QED  BY <2>2, <2>3, <2>8 DEF IInv
<1>6. CASE Open("asm")
  <2>1. /\ UNCHANGED <<agenda, held, exit, raced>> /\ at # "next" /\ at' = "opened"
        /\ Put("asm", Partial) /\ Touch("asm")
    BY <1>6 DEF Open
  <2>2. /\ file'["facts"] = file["facts"] /\ newer'["facts"] = newer["facts"]
        /\ DOMAIN newer' = Rebuilt /\ DOMAIN file' = Targets
    BY <2>1 DEF Put, Touch, IInv, Shape, Targets, Rebuilt
  <2>3. AgendaIsRest' /\ Done' = Done /\ Running("asm")' /\ ~Running("facts")'
    BY <1>1, <1>2, <2>1 DEF IInv, AgendaIsRest, Done, Running, Recipes, Listing, RoundTrip, Lint, Verify
  <2>4. Shape' /\ FactsFresh'  BY <1>1, <1>2, <2>1, <2>2 DEF IInv, Shape, FactsFresh
  <2>5. (FactsKept => FactsKept') /\ Emitted' = Emitted
    BY <1>2, <2>2 DEF FactsKept, Current, Emitted
  <2>6. Progress'
    BY <1>1, <1>2, <1>3, <2>1, <2>2, <2>3, <2>5 DEF IInv, Progress
  <2> QED  BY <2>3, <2>4, <2>6 DEF IInv
<1>7. CASE Complete("asm")
  <2>1. /\ at # "next" /\ Put("asm", Whole(held)) /\ Touch("asm") /\ Proceed
        /\ raced' = raced \ {"asm"} \/ raced' = raced \cup {"asm"}
    BY <1>7 DEF Complete
  <2>2. /\ file'["facts"] = file["facts"] /\ file'["asm"] = Whole(held)
        /\ newer'["facts"] = newer["facts"] /\ DOMAIN newer' = Rebuilt /\ DOMAIN file' = Targets
        /\ ("facts" \in raced' <=> "facts" \in raced) /\ raced' \subseteq Targets
    BY <2>1 DEF Put, Touch, IInv, Shape, Targets, Rebuilt
  <2>3. /\ AgendaIsRest' /\ (agenda' # <<>> => Done' = Done + 1)
        /\ at' = "next" /\ (exit' = "ok" => agenda' = <<>>)
    BY <1>1, <1>2, <1>3, <2>1, GoesOn DEF IInv, Proceed
  <2>4. Shape' /\ FactsFresh'  BY <1>2, <2>2, <2>3 DEF IInv, Shape, FactsFresh
  <2>5. calm => FactsKept /\ held = Emitted /\ file["facts"].state = "whole"
    BY <1>1, <1>2, <2>1 DEF IInv, Progress
  <2>6. calm => FactsKept' /\ AsmCurrent'
    BY <1>2, <2>2, <2>5 DEF FactsKept, AsmCurrent, Emitted, Current
  <2>7. Progress'  BY <1>2, <2>3, <2>6 DEF Progress
  <2> QED  BY <2>3, <2>4, <2>7 DEF IInv
<1> QED  BY <1>4, <1>5, <1>6, <1>7 DEF Asm, ReadFacts, EmissionFails

\* What happens outside the recipes.
LEMMA RestKeepsIInv ==
  ASSUME IInv, Clean \/ Commit \/ Promote \/ Kill \/ (\E g \in DOMAIN Recipes : Make(g))
                 \/ (\E s \in Sources : Edit(s)) \/ UNCHANGED vars
  PROVE  IInv'
<1>1. CASE Clean
  <2>1. /\ agenda = <<>> /\ UNCHANGED <<ver, goal, agenda, at, newer>> /\ exit' = "none"
        /\ file' = [t \in Targets |-> IF t \in Removed THEN Absent ELSE file[t]]
        /\ raced' = raced \ Removed
    BY <1>1 DEF Clean, Idle
  <2>2. file'["facts"] = Absent  BY <2>1 DEF Targets, Removed
  <2> QED
    BY <2>1, <2>2 DEF IInv, AgendaIsRest, Shape, FactsFresh, Progress, Running, Absent
<1>2. CASE Commit \/ Promote
  <2>1. /\ agenda = <<>> /\ UNCHANGED <<ver, goal, agenda, at, file, newer, raced>> /\ exit' = "none"
    BY <1>2 DEF Commit, Promote, Idle
  <2> QED
    BY <2>1 DEF IInv, AgendaIsRest, Shape, FactsFresh, Progress, Running
<1>3. CASE Kill
  <2>1. /\ Stop("killed") /\ UNCHANGED <<ver, newer, raced>>
        /\ file' = file \/ \E t \in Rebuilt : Put(t, Absent)
    BY <1>3 DEF Kill, Outside
  <2> QED  BY <2>1, StopKeepsIInv
<1>4. ASSUME NEW g \in DOMAIN Recipes, Make(g)  PROVE IInv'
  <2>1. /\ agenda = <<>> /\ goal' = g /\ agenda' = Recipes[g] /\ exit' = "none"
        /\ UNCHANGED <<ver, file, newer, at, raced>> /\ at = "next"
    BY <1>4 DEF Make, IInv, Shape
  <2>2. Recipes' = Recipes  BY DEF Recipes, Listing, RoundTrip, Lint, Verify
  <2>3. g \in Goals /\ Recipes[g] \in Seq(Names) /\ Len(Recipes[g]) >= 1
    BY GoalRecipes
  <2>4. Done' = 0  BY <2>1, <2>2, <2>3 DEF Done
  <2>5. SubSeq(Recipes[g], 1, Len(Recipes[g])) = Recipes[g]  BY <2>3
  <2>6. AgendaIsRest'  BY <2>1, <2>2, <2>3, <2>4, <2>5 DEF AgendaIsRest
  <2>7. Shape' /\ FactsFresh'  BY <2>1 DEF IInv, Shape, FactsFresh
  <2>8. Progress'  BY <2>1, <2>4 DEF Progress
  <2> QED  BY <2>6, <2>7, <2>8 DEF IInv
<1>5. ASSUME NEW s \in Sources, Edit(s)  PROVE IInv'
  <2>1. /\ ver' = [ver EXCEPT ![s] = @ + 1] /\ newer' = [t \in Rebuilt |-> newer[t] \cup {s}]
        /\ ~calm' /\ UNCHANGED <<file, goal, agenda, at, exit, raced>>
    BY <1>5 DEF Edit, makeVars
  <2>2. AgendaIsRest'
    BY <2>1 DEF IInv, AgendaIsRest, Done, Recipes, Listing, RoundTrip, Lint, Verify
  <2>3. Shape' /\ Progress'  BY <2>1 DEF IInv, Shape, Progress
  <2>4. \A x \in Before : ver'[x] = ver[x] \/ x \in newer'["facts"]
    BY <2>1 DEF IInv, Shape, Before, Prerequisites, Sources, Rebuilt
  <2>5. newer["facts"] \subseteq newer'["facts"]  BY <2>1 DEF Rebuilt
  <2>6. FactsFresh'  BY <2>1, <2>4, <2>5 DEF IInv, FactsFresh
  <2> QED  BY <2>2, <2>3, <2>6 DEF IInv
<1>6. CASE UNCHANGED vars
  BY <1>6 DEF vars, makeVars, IInv, AgendaIsRest, Shape, FactsFresh, Progress, FactsKept,
    AsmCurrent, Emitted, Current, Done, Running, Recipes, Listing, RoundTrip, Lint, Verify
<1> QED  BY <1>1, <1>2, <1>3, <1>4, <1>5, <1>6

\* The invariant holds at the start and every step keeps it.
LEMMA Inductive == Spec => []IInv
<1>1. Init => IInv
  BY DEF Init, IInv, AgendaIsRest, Shape, FactsFresh, Progress, Running, Absent, Whole, Targets,
    Rebuilt, Emitting
<1>2. IInv /\ [Next]_vars => IInv'
  <2>1. SUFFICES ASSUME IInv, [Next]_vars  PROVE IInv'  OBVIOUS
  <2>2. CASE Recipe
    BY <2>1, <2>2, FactsKeepIInv, OthersKeepIInv, AsmKeepsIInv DEF Recipe
  <2> QED  BY <2>1, <2>2, RestKeepsIInv DEF Next
<1> QED  BY <1>1, <1>2, PTL DEF Spec

\* The goals that emit end with the listing of the present sources: whatever
\* failed, was killed, edited, cleaned or committed before, a make that nothing
\* disturbs rewrites it from facts that no rule calls out of date.
THEOREM ListingIsCurrent == Spec => []ListingCurrent
<1>1. IInv => ListingCurrent
  <2>1. SUFFICES ASSUME IInv, Undisturbed({"asm", "roundtrip", "verify"})
                 PROVE  LET listing == file["asm"].of IN
                        /\ file["asm"].state = "whole" /\ listing.src = Current("asm")
                        /\ "facts" \notin raced =>
                             \A s \in Reads["facts"] \ Unlisted["facts"] : listing.facts[s] = ver[s]
    BY DEF ListingCurrent
  <2>2. AsmCurrent  BY <2>1 DEF Undisturbed, IInv, Progress, Emitting
  <2>3. /\ file["asm"].state = "whole" /\ file["asm"].of.src = Current("asm")
        /\ file["asm"].of.facts = file["facts"].of
    BY <2>2 DEF AsmCurrent, Whole, Emitted
  <2>4. Reads["facts"] \ Unlisted["facts"] \subseteq Before
    BY DEF Reads, Common, Unlisted, Before, Prerequisites
  <2> QED  BY <2>1, <2>2, <2>3, <2>4 DEF IInv, FactsFresh, AsmCurrent
<1> QED  BY <1>1, Inductive, PTL


-------------------------------------------------------------------------------

\* Since a clean that nothing followed, the facts are cut short only while they
\* are written, and are those of the present sources.
CleanFacts ==
  cleaned =>
    /\ exit # "unreadable"
    /\ file["facts"].state = "partial" => Running("facts") /\ at = "opened"
    /\ file["facts"].state = "whole" => file["facts"].of = Current("facts")
    /\ Running("facts") /\ at # "next" => held = Current("facts")

\* Every step keeps that: an edit, a failure or a kill ends the claim.
LEMMA CleanFactsKept ==
  ASSUME IInv, CleanFacts, [Next]_vars  PROVE CleanFacts'
<1>1. SUFFICES ASSUME cleaned'  PROVE CleanFacts'
  BY DEF CleanFacts
<1>2. CASE Clean
  <2>1. file'["facts"] = Absent /\ agenda' = <<>> /\ exit' = "none"
    BY <1>2 DEF Clean, Idle, Targets, Removed
  <2> QED  BY <2>1 DEF CleanFacts, Absent, Running
<1>3. ASSUME cleaned, UNCHANGED <<file, agenda, at, held, exit, ver>>  PROVE CleanFacts'
  BY <1>3 DEF CleanFacts, Running, Current
<1>4. CASE \E g \in DOMAIN Recipes : Make(g)
  <2>1. /\ agenda = <<>> /\ UNCHANGED <<file, at, held, ver, cleaned>> /\ exit' = "none" /\ at = "next"
    BY <1>4 DEF Make, IInv, Shape
  <2> QED  BY <1>1, <2>1 DEF CleanFacts, Running, Current
<1>5. ASSUME NEW s \in Sources, Edit(s)  PROVE CleanFacts'
  BY <1>1, <1>5 DEF Edit
<1>6. CASE Kill \/ Fail
  BY <1>1, <1>6 DEF Kill, Fail
<1>7. CASE Commit \/ Promote
  <2>1. agenda = <<>> /\ UNCHANGED <<file, agenda, at, held, ver, cleaned>> /\ exit' = "none"
    BY <1>7 DEF Commit, Promote, Idle
  <2> QED  BY <1>1, <2>1 DEF CleanFacts, Running, Current
<1>8. ASSUME cleaned, Proceed, at' = "next", ver' = ver, exit # "unreadable",
             \/ file'["facts"] = file["facts"] /\ ~(Running("facts") /\ at = "opened")
             \/ file'["facts"] = Whole(Current("facts"))
      PROVE  CleanFacts'
  <2>1. exit' # "unreadable"  BY <1>8 DEF Proceed
  <2>2. Current("facts")' = Current("facts")  BY <1>8 DEF Current
  <2> QED  BY <1>8, <2>1, <2>2 DEF CleanFacts, Whole
<1>9. ASSUME Recipe, ~Fail  PROVE CleanFacts'
  <2>1. cleaned /\ ver' = ver /\ agenda # <<>>
    BY <1>1, <1>9 DEF Recipe, Facts, Graph, Effects, Asm, Skip, Compute, Open, ReadFacts, EmissionFails,
      Complete, Assemble, Export, Step, Outside, Running, Fail
  <2>2. exit # "unreadable"  BY <2>1 DEF CleanFacts
  <2>3. CASE Facts
    <3>1. CASE Skip("facts")  BY <1>8, <2>1, <2>2, <3>1 DEF Skip, Proceed
    <3>2. CASE Compute("facts")
      <4>1. /\ held' = Current("facts") /\ at = "next"
            /\ UNCHANGED <<agenda, exit, file>>
        BY <1>9, <3>2 DEF Compute
      <4>2. file["facts"].state # "partial"  BY <2>1, <4>1 DEF CleanFacts
      <4> QED  BY <2>1, <2>2, <4>1, <4>2 DEF CleanFacts, Current
    <3>3. CASE Open("facts")
      <4>1. /\ file'["facts"] = Partial /\ at # "next" /\ at' = "opened" /\ Running("facts")
            /\ UNCHANGED <<agenda, held, exit>>
        BY <3>3 DEF Open, Put, IInv, Shape, Targets
      <4> QED  BY <2>1, <2>2, <4>1 DEF CleanFacts, Current, Partial, Running
    <3>4. CASE Complete("facts")
      <4>1. /\ file'["facts"] = Whole(held) /\ at # "next" /\ at' = "next" /\ Running("facts") /\ Proceed
        BY <3>4 DEF Complete, Put, IInv, Shape, Targets, Proceed
      <4>2. held = Current("facts")  BY <2>1, <4>1 DEF CleanFacts
      <4> QED  BY <1>8, <2>1, <2>2, <4>1, <4>2
    <3> QED  BY <2>3, <3>1, <3>2, <3>3, <3>4 DEF Facts
  <2>4. ASSUME ~Running("facts")
        PROVE  file["facts"].state # "partial"
    BY <2>1, <2>4 DEF CleanFacts
  <2>5. ASSUME ~Running("facts"), UNCHANGED <<agenda, exit>>, file'["facts"] = file["facts"]
        PROVE  CleanFacts'
    BY <2>1, <2>2, <2>4, <2>5 DEF CleanFacts, Current, Running
  <2>6. CASE Graph \/ Effects
    <3>1. ~Running("facts")  BY <2>6 DEF Graph, Effects, Skip, Compute, Open, Complete, Running
    <3>2. file'["facts"] = file["facts"]
      BY <1>9, <2>6 DEF Graph, Effects, Skip, Compute, Open, Complete, Put, IInv, Shape, Targets
    <3>3. Proceed \/ UNCHANGED <<agenda, exit>>
      BY <1>9, <2>6 DEF Graph, Effects, Skip, Compute, Open, Complete
    <3> QED  BY <1>8, <2>1, <2>2, <2>5, <3>1, <3>2, <3>3 DEF Proceed
  <2>7. CASE Asm
    <3>1. ~Running("facts")  BY <2>7 DEF Asm, ReadFacts, Open, EmissionFails, Complete, Running
    <3>2. file'["facts"] = file["facts"]
      BY <1>9, <2>7 DEF Asm, ReadFacts, Open, EmissionFails, Complete, Put, IInv, Shape, Targets
    <3>3. Proceed \/ UNCHANGED <<agenda, exit>>
      BY <1>9, <2>4, <2>7, <3>1 DEF Asm, ReadFacts, Open, EmissionFails, Complete
    <3> QED  BY <1>8, <2>1, <2>2, <2>5, <3>1, <3>2, <3>3 DEF Proceed
  <2>8. CASE ~Facts /\ ~Graph /\ ~Effects /\ ~Asm
    <3>1. ~Running("facts") /\ Proceed
      BY <1>9, <2>8 DEF Recipe, Assemble, Export, Step, Running
    <3>2. file'["facts"] = file["facts"]
      BY <1>9, <2>8 DEF Recipe, Assemble, Export, Step, Put, IInv, Shape, Targets
    <3> QED  BY <1>8, <2>1, <2>2, <3>1, <3>2 DEF Proceed
  <2> QED  BY <2>3, <2>6, <2>7, <2>8
<1>10. CASE UNCHANGED vars
  BY <1>1, <1>3, <1>10 DEF vars, makeVars
<1> QED  BY <1>1, <1>2, <1>4, <1>5, <1>6, <1>7, <1>9, <1>10 DEF Next

\* make clean gets past whatever earlier runs and edits have left: no emission
\* meets a file cut short, and one that ends undisturbed writes the listing of
\* the present sources, facts included.
THEOREM CleanAlwaysRecovers == Spec => []CleanRecovers
<1>1. Init => CleanFacts
  BY DEF Init, CleanFacts
<1>2. IInv /\ CleanFacts => CleanRecovers
  <2>1. SUFFICES ASSUME IInv, CleanFacts, cleaned
                 PROVE  /\ exit # "unreadable"
                        /\ Undisturbed({"asm", "roundtrip", "verify"}) => file["asm"] = Whole(CleanListing)
    BY DEF CleanRecovers
  <2>2. ASSUME Undisturbed({"asm", "roundtrip", "verify"})  PROVE AsmCurrent
    BY <2>1, <2>2 DEF Undisturbed, IInv, Progress, Emitting
  <2>3. AsmCurrent => Emitted = CleanListing
    BY <2>1 DEF AsmCurrent, CleanFacts, Emitted, CleanListing
  <2> QED  BY <2>1, <2>2, <2>3 DEF CleanFacts, AsmCurrent
<1>3. IInv /\ CleanFacts /\ [Next]_vars => CleanFacts'  BY CleanFactsKept
<1> QED  BY <1>1, <1>2, <1>3, Inductive, PTL DEF Spec


-------------------------------------------------------------------------------

\* The facts are a function on what their program reads.
FactsTyped ==
  /\ file["facts"].state = "whole" => file["facts"].of = [s \in Reads["facts"] |-> file["facts"].of[s]]
  /\ Running("facts") /\ at # "next" => held = [s \in Reads["facts"] |-> held[s]]

\* What verify has established when it has come so far: the third recipe
\* compares the listing with HEAD, the eleventh exports and the last compares.
Verified ==
  calm /\ goal = "verify" =>
    /\ agenda # <<>> /\ Done >= 3 => committed = Emitted
    /\ agenda # <<>> /\ Done >= 11 => file["fresh"] = Whole(Current("fresh"))
    /\ exit = "ok" => committed = Emitted /\ ghidra = Current("fresh")

\* Two sequences of recipes, one behind the other.
Behind(s, t) ==
  /\ s \o t \in Seq(Names) /\ Len(s \o t) = Len(s) + Len(t)
  /\ \A i \in 1..Len(s) : (s \o t)[i] = s[i]
  /\ \A i \in 1..Len(t) : (s \o t)[Len(s) + i] = t[i]

LEMMA Joined ==
  ASSUME NEW s \in Seq(Names), NEW t \in Seq(Names)  PROVE Behind(s, t)
<1>1. Len(s) \in Nat /\ Len(t) \in Nat  OBVIOUS
<1>2. s \o t \in Seq(Names) /\ Len(s \o t) = Len(s) + Len(t)  BY ConcatProperties
<1>3. \A i \in 1..Len(s) + Len(t) : (s \o t)[i] = IF i <= Len(s) THEN s[i] ELSE t[i - Len(s)]
  BY ConcatProperties
<1>4. \A i \in 1..Len(s) : (s \o t)[i] = s[i]  BY <1>1, <1>3
<1>5. ASSUME NEW i \in 1..Len(t)  PROVE (s \o t)[Len(s) + i] = t[i]
  <2>1. /\ Len(s) + i \in 1..Len(s) + Len(t) /\ ~(Len(s) + i <= Len(s))
        /\ (Len(s) + i) - Len(s) = i
    BY <1>1
  <2> QED  BY <1>3, <2>1
<1> QED  BY <1>2, <1>4, <1>5 DEF Behind

\* Where in verify the comparisons are.
LEMMA VerifyRecipes ==
  /\ Len(Recipes["verify"]) = 12 /\ Recipes["verify"][3] = "diff"
  /\ Recipes["verify"][11] = "export" /\ Recipes["verify"][12] = "compare"
<1> DEFINE one == <<"diff">>
           two == <<"assemble", "check">>
           end == <<"export", "compare">>
           a == Listing \o one
           b == a \o RoundTrip
           c == b \o Lint
<1>1. /\ Listing \in Seq(Names) /\ Len(Listing) = 2 /\ two \in Seq(Names) /\ Len(two) = 2
      /\ one \in Seq(Names) /\ Len(one) = 1 /\ one[1] = "diff"
      /\ Lint \in Seq(Names) /\ Len(Lint) = 3
      /\ end \in Seq(Names) /\ Len(end) = 2 /\ end[1] = "export" /\ end[2] = "compare"
  BY DEF Listing, Lint, Names
<1> HIDE DEF one, two, end
<1>2. RoundTrip \in Seq(Names) /\ Len(RoundTrip) = 4
  <2>1. Behind(Listing, two)  BY <1>1, Joined
  <2>2. RoundTrip = Listing \o two  BY DEF RoundTrip, two
  <2> QED  BY <1>1, <2>1, <2>2 DEF Behind
<1>3. a \in Seq(Names) /\ Len(a) = 3 /\ a[3] = "diff"
  <2>1. Behind(Listing, one)  BY <1>1, Joined
  <2>2. 1 \in 1..Len(one) /\ Len(Listing) + 1 = 3  BY <1>1
  <2> QED  BY <1>1, <2>1, <2>2 DEF Behind
<1> HIDE DEF a
<1>4. b \in Seq(Names) /\ Len(b) = 7 /\ b[3] = "diff"
  <2>1. Behind(a, RoundTrip)  BY <1>2, <1>3, Joined
  <2>2. 3 \in 1..Len(a) /\ Len(a) + Len(RoundTrip) = 7  BY <1>2, <1>3
  <2> QED  BY <1>3, <2>1, <2>2 DEF Behind
<1> HIDE DEF b
<1>5. c \in Seq(Names) /\ Len(c) = 10 /\ c[3] = "diff"
  <2>1. Behind(b, Lint)  BY <1>1, <1>4, Joined
  <2>2. 3 \in 1..Len(b) /\ Len(b) + Len(Lint) = 10  BY <1>1, <1>4
  <2> QED  BY <1>4, <2>1, <2>2 DEF Behind
<1>6. Recipes["verify"] = c \o end  BY DEF Recipes, Verify, a, b, one, end
<1> HIDE DEF c
<1>7. /\ Len(c \o end) = 12 /\ (c \o end)[3] = "diff"
      /\ (c \o end)[11] = "export" /\ (c \o end)[12] = "compare"
  <2>1. Behind(c, end)  BY <1>1, <1>5, Joined
  <2>2. /\ 3 \in 1..Len(c) /\ 1 \in 1..Len(end) /\ 2 \in 1..Len(end)
        /\ Len(c) + 1 = 11 /\ Len(c) + 2 = 12 /\ Len(c) + Len(end) = 12
    BY <1>1, <1>5
  <2> QED  BY <1>1, <1>5, <2>1, <2>2 DEF Behind
<1> QED  BY <1>6, <1>7

\* So when they run.
LEMMA VerifyPosition ==
  ASSUME AgendaIsRest, agenda # <<>>, goal = "verify"
  PROVE  /\ Done \in 0..11
         /\ Done = 2 => Running("diff")
         /\ Done = 10 => Running("export")
         /\ Done = 11 => Running("compare")
         /\ Len(agenda) = 1 => Done = 11
<1>1. Done \in Nat /\ Done < 12 /\ Head(agenda) = Recipes["verify"][Done + 1]
  BY Advance, VerifyRecipes
<1>2. Len(agenda) = 1 => Done = 11  BY VerifyRecipes DEF Done
<1> QED  BY <1>1, <1>2, VerifyRecipes DEF Running

\* Only the completion of the facts changes what they are a function on.
LEMMA FactsTypedKept ==
  ASSUME IInv, FactsTyped, [Next]_vars  PROVE FactsTyped'
<1>1. ASSUME UNCHANGED <<file, at, held>>, agenda' = agenda \/ at = "next"
      PROVE  FactsTyped'
  BY <1>1 DEF FactsTyped, Running
<1>2. ASSUME at' = "next",
             \/ file'["facts"] = file["facts"] \/ file'["facts"] = Absent
             \/ file'["facts"] = Whole(held) /\ Running("facts") /\ at # "next"
      PROVE  FactsTyped'
  BY <1>2 DEF FactsTyped, Absent, Whole
<1>3. CASE Facts /\ ~Fail
  <2>1. CASE Skip("facts")  BY <1>2, <2>1 DEF Skip, Proceed
  <2>2. CASE Compute("facts")
    <3>1. held' = Current("facts") /\ file' = file  BY <1>3, <2>2 DEF Compute
    <3> QED  BY <3>1 DEF FactsTyped, Current
  <2>3. CASE Open("facts")
    <3>1. file'["facts"] = Partial /\ held' = held /\ Running("facts") /\ at # "next"
      BY <2>3 DEF Open, Put, IInv, Shape, Targets
    <3> QED  BY <3>1 DEF FactsTyped, Partial
  <2>4. CASE Complete("facts")
    <3>1. /\ file'["facts"] = Whole(held) /\ Running("facts") /\ at # "next" /\ at' = "next"
      BY <2>4 DEF Complete, Put, IInv, Shape, Targets, Proceed
    <3> QED  BY <1>2, <3>1
  <2> QED  BY <1>3, <2>1, <2>2, <2>3, <2>4 DEF Facts
<1>4. CASE Fail \/ Kill \/ Clean \/ (\E status \in {"unreadable"} : Stop(status) /\ UNCHANGED file)
  <2>1. at' = "next"  BY <1>4 DEF Fail, Kill, Clean, Stop, Idle, IInv, Shape
  <2>2. file'["facts"] = file["facts"] \/ file'["facts"] = Absent
    BY <1>4 DEF Fail, Kill, Clean, Put, Removed, IInv, Shape, Targets
  <2> QED  BY <1>2, <2>1, <2>2
<1>5. ASSUME ~Running("facts"), file'["facts"] = file["facts"], at' = "next" \/ agenda' = agenda
      PROVE  FactsTyped'
  BY <1>5 DEF FactsTyped, Running
<1>6. CASE (Graph \/ Effects) /\ ~Fail
  <2>1. ~Running("facts") /\ (at' = "next" \/ agenda' = agenda)
    BY <1>6 DEF Graph, Effects, Skip, Compute, Open, Complete, Running, Proceed
  <2>2. file'["facts"] = file["facts"]
    BY <1>6 DEF Graph, Effects, Skip, Compute, Open, Complete, Put, IInv, Shape, Targets
  <2> QED  BY <1>5, <2>1, <2>2
<1>7. CASE Asm /\ ~Fail
  <2>1. ~Running("facts") /\ (at' = "next" \/ agenda' = agenda)
    BY <1>7 DEF Asm, ReadFacts, EmissionFails, Open, Complete, Running, Proceed, Stop
  <2>2. file'["facts"] = file["facts"]
    BY <1>7 DEF Asm, ReadFacts, EmissionFails, Open, Complete, Put, IInv, Shape, Targets
  <2> QED  BY <1>5, <2>1, <2>2
<1>8. CASE Recipe /\ ~Fail /\ ~Facts /\ ~Graph /\ ~Effects /\ ~Asm
  <2>1. at' = "next"  BY <1>8 DEF Recipe, Assemble, Export, Step, Proceed
  <2>2. file'["facts"] = file["facts"]
    BY <1>8 DEF Recipe, Assemble, Export, Step, Put, IInv, Shape, Targets
  <2> QED  BY <1>2, <2>1, <2>2
<1>9. CASE (\E g \in DOMAIN Recipes : Make(g)) \/ (\E s \in Sources : Edit(s))
             \/ Commit \/ Promote \/ UNCHANGED vars
  BY <1>1, <1>9 DEF Make, Edit, Commit, Promote, Idle, vars, makeVars, IInv, Shape
<1> QED  BY <1>3, <1>4, <1>6, <1>7, <1>8, <1>9 DEF Next, Recipe


\* From the first comparison on, verify leaves facts and listing as they are.
LEMMA VerifiedKept ==
  ASSUME IInv, Verified, [Next]_vars  PROVE Verified'
<1>1. SUFFICES ASSUME calm', goal' = "verify"
               PROVE  /\ (agenda # <<>> /\ Done >= 3 => committed = Emitted)'
                      /\ (agenda # <<>> /\ Done >= 11 => file["fresh"] = Whole(Current("fresh")))'
                      /\ (exit = "ok" => committed = Emitted /\ ghidra = Current("fresh"))'
  BY DEF Verified
<1>2. Recipes' = Recipes  BY DEF Recipes, Listing, RoundTrip, Lint, Verify
<1>3. CASE (\E status \in {"failed", "unreadable", "killed"} : Stop(status)) \/ Clean \/ Commit \/ Promote
  BY <1>3 DEF Stop, Clean, Commit, Promote, Idle
<1>4. ASSUME NEW g \in DOMAIN Recipes, Make(g)
      PROVE  Verified'
  <2>1. agenda' = Recipes[g] /\ goal' = g /\ exit' = "none"  BY <1>4 DEF Make
  <2>2. Done' = Len(Recipes[g]) - Len(Recipes[g])  BY <1>2, <2>1 DEF Done
  <2>3. Done' = 0  BY <2>2, GoalRecipes
  <2> QED  BY <2>1, <2>3 DEF Verified
<1>5. CASE \E s \in Sources : Edit(s)
  BY <1>1, <1>5 DEF Edit
<1>6. CASE UNCHANGED vars
  BY <1>1, <1>2, <1>6 DEF vars, makeVars, Verified, Done, Emitted, Current
<1>7. ASSUME Recipe, ~(\E status \in {"failed", "unreadable", "killed"} : Stop(status))
      PROVE  Verified'
  <2>1. agenda # <<>> /\ UNCHANGED <<ver, ghidra, committed, goal, calm>>
    BY <1>7 DEF Recipe, Facts, Graph, Effects, Asm, Skip, Compute, Open, ReadFacts, EmissionFails,
      Complete, Assemble, Export, Step, Outside, Running
  <2>2. calm /\ goal = "verify" /\ goal \in Emitting  BY <1>1, <2>1 DEF Emitting
  <2>3. /\ Done \in 0..11
        /\ Done = 2 => Running("diff")
        /\ Done = 10 => Running("export")
        /\ Done = 11 => Running("compare")
        /\ Len(agenda) = 1 => Done = 11
    BY <2>1, <2>2, VerifyPosition DEF IInv
  <2>4. ~Fail  BY <1>7 DEF Fail
  <2>5. Done >= 1 => file'["facts"] = file["facts"]
    <3>1. ASSUME Running("facts"), Done >= 1  PROVE Skip("facts")
      <4>1. FactsKept /\ at = "next"  BY <2>1, <2>2, <3>1 DEF IInv, Progress
      <4>2. UpToDate("facts")  BY <4>1 DEF FactsKept, UpToDate, Before
      <4> QED
        BY <1>7, <3>1, <4>1, <4>2 DEF Recipe, Facts, Graph, Effects, Asm, Skip, Compute, Open, ReadFacts,
          EmissionFails, Complete, Assemble, Export, Step, Running
    <3>2. CASE Running("facts")  BY <3>1, <3>2 DEF Skip
    <3>3. CASE ~Running("facts")
      BY <1>7, <3>3 DEF Recipe, Facts, Graph, Effects, Asm, Skip, Compute, Open, ReadFacts, EmissionFails,
        Complete, Assemble, Export, Step, Put, IInv, Shape, Targets, Fail
    <3> QED  BY <3>2, <3>3
  <2>6. Done >= 1 => Emitted' = Emitted  BY <2>1, <2>5 DEF Emitted, Current
  <2>7. exit # "ok"  BY <2>1 DEF IInv, Shape
  <2>8. Done = 11 => file' = file /\ Proceed /\ file["fresh"] = Whole(ghidra)
    BY <1>7, <2>3, <2>4 DEF Recipe, Facts, Graph, Effects, Asm, Skip, Compute, Open, ReadFacts, EmissionFails,
      Complete, Assemble, Export, Step, Running
  <2>9. CASE Proceed
    <3>1. (agenda' # <<>> => Done' = Done + 1) /\ (agenda' = <<>> => Done = 11)
      BY <2>1, <2>3, <2>9, GoesOn DEF IInv
    <3>2. Done >= 2 => committed = Emitted
      <4>1. CASE Done = 2
        <5>1. file["asm"] = Whole(committed)
          BY <1>7, <2>3, <2>4, <4>1 DEF Recipe, Facts, Graph, Effects, Asm, Skip, Compute, Open, ReadFacts,
            EmissionFails, Complete, Assemble, Export, Step, Running
        <5>2. AsmCurrent  BY <2>1, <2>2, <2>3, <4>1 DEF IInv, Progress, Running
        <5> QED  BY <5>1, <5>2 DEF AsmCurrent, Whole
      <4>2. CASE Done >= 3  BY <2>1, <2>2, <4>2 DEF Verified
      <4> QED  BY <2>3, <4>1, <4>2
    <3>3. Done = 10 => file'["fresh"] = Whole(Current("fresh"))
      BY <1>7, <2>3, <2>4 DEF Recipe, Facts, Graph, Effects, Asm, Skip, Compute, Open, ReadFacts, EmissionFails,
        Complete, Assemble, Export, Step, Running, Put, IInv, Shape, Targets
    <3>4. Done = 11 => ghidra = Current("fresh")
      <4>1. Done = 11 => file["fresh"] = Whole(Current("fresh"))  BY <2>1, <2>2 DEF Verified
      <4> QED  BY <2>8, <4>1 DEF Whole
    <3>5. agenda' # <<>> => Done' \in 1..11
      <4>1. AgendaIsRest'  BY <2>1, <2>9, GoesOn DEF IInv
      <4>2. agenda' # <<>> => Done # 11
        <5>1. Len(agenda) = 12 - Done  BY <2>2, <2>3, VerifyRecipes DEF Done, IInv, AgendaIsRest
        <5>2. Done = 11 => Len(Tail(agenda)) = 0  BY <2>1, <5>1, Advance DEF IInv
        <5>3. Tail(agenda) \in Seq(Names) /\ agenda' = Tail(agenda)
          BY <2>1, <2>9, Advance DEF IInv, Proceed
        <5> QED  BY <5>2, <5>3
      <4> QED  BY <2>3, <3>1, <4>2
    <3>6. Current("fresh")' = Current("fresh")  BY <2>1 DEF Current
    <3>7. (agenda # <<>> /\ Done >= 3 => committed = Emitted)'
      BY <2>1, <2>3, <2>6, <3>1, <3>2
    <3>8. (agenda # <<>> /\ Done >= 11 => file["fresh"] = Whole(Current("fresh")))'
      BY <2>3, <3>1, <3>3, <3>5, <3>6
    <3>9. (exit = "ok" => committed = Emitted /\ ghidra = Current("fresh"))'
      <4>1. exit' = "ok" => Done = 11  BY <2>7, <2>9, <3>1 DEF Proceed
      <4> QED  BY <2>1, <2>6, <3>2, <3>4, <3>6, <4>1
    <3> QED  BY <3>7, <3>8, <3>9 DEF Verified
  <2>10. CASE ~Proceed
    <3>1. UNCHANGED <<agenda, exit>>
      BY <1>7, <2>4, <2>10 DEF Recipe, Facts, Graph, Effects, Asm, Skip, Compute, Open, ReadFacts, EmissionFails,
        Complete, Assemble, Export, Step
    <3>2. Done' = Done  BY <1>2, <2>1, <3>1 DEF Done
    <3>3. Done # 11  BY <2>8, <2>10
    <3> QED  BY <2>1, <2>2, <2>3, <2>6, <2>7, <3>1, <3>2, <3>3 DEF Verified
  <2> QED  BY <2>9, <2>10
<1>8. CASE Kill
  BY <1>3, <1>8 DEF Kill
<1> QED  BY <1>1, <1>3, <1>4, <1>5, <1>6, <1>7, <1>8 DEF Next, Verified

\* A verify that passes, no source edited while it or the making of the facts
\* ran, has shown the listing at HEAD and the committed Ghidra export to be what
\* the sources give, but for facts that dasm6502.py has outdated.
THEOREM VerifyIsSound == Spec => []VerifySound
<1>1. Init => FactsTyped /\ Verified
  BY DEF Init, FactsTyped, Verified, Absent, Whole, Targets, Running
<1>2. IInv /\ FactsTyped /\ [Next]_vars => FactsTyped'  BY FactsTypedKept
<1>3. IInv /\ Verified /\ [Next]_vars => Verified'  BY VerifiedKept
<1>4. IInv /\ FactsTyped /\ Verified => VerifySound
  <2>1. SUFFICES ASSUME IInv, FactsTyped, Verified, Undisturbed({"verify"}), raced = {}
                 PROVE  /\ ghidra = Current("fresh")
                        /\ committed = [CleanListing EXCEPT !.facts["dasm6502"] = committed.facts["dasm6502"]]
    BY DEF VerifySound
  <2>2. committed = Emitted /\ ghidra = Current("fresh")
    BY <2>1 DEF Undisturbed, Verified
  <2>3. AsmCurrent  BY <2>1 DEF Undisturbed, IInv, Progress, Emitting
  <2> DEFINE of == file["facts"].of
  <2>4. of = [s \in Reads["facts"] |-> of[s]] /\ \A s \in Before : of[s] = ver[s]
    BY <2>1, <2>3 DEF FactsTyped, AsmCurrent, IInv, FactsFresh
  <2>5. Reads["facts"] = Before \cup {"dasm6502"}
    BY DEF Reads, Common, Before, Prerequisites
  <2>6. of = [Current("facts") EXCEPT !["dasm6502"] = of["dasm6502"]]
    BY <2>4, <2>5 DEF Current
  <2>7. committed.facts = of  BY <2>2 DEF Emitted
  <2> HIDE DEF of
  <2> QED  BY <2>2, <2>6, <2>7 DEF Emitted, CleanListing, of
<1> QED  BY <1>1, <1>2, <1>3, <1>4, Inductive, PTL DEF Spec

===============================================================================
