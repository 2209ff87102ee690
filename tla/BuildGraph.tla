------------------------------ MODULE BuildGraph ------------------------------
(***************************************************************************)
(* The Makefile: which artefact is made from what, when, and with what     *)
(* left behind by a recipe that fails or is killed.  Sources have versions *)
(* and an artefact the versions it was computed from, so that what two     *)
(* files say can be compared.  A recipe computes from what it reads, then  *)
(* opens its file, then completes it; the sources may be edited meanwhile. *)
(* make, docker, git, the assembler and the linters are external.          *)
(***************************************************************************)
EXTENDS Naturals, Sequences

CONSTANTS MaxEdits, MaxRuns   \* bounds on the edits and the invocations explored

ASSUME BoundsAssumption == MaxEdits \in Nat /\ MaxRuns \in Nat

\* The static image, annotations.toml, entrypoints.json and the programs.
Sources == {"bin", "annotations", "entrypoints", "emit_defmon_source", "dasm6502",
            "cmp_facts", "callgraph", "reg_effects", "ghidra_import"}

\* What the programs read, the modules they import included.
Common == {"bin", "annotations", "entrypoints", "emit_defmon_source", "dasm6502"}
Reads ==
  [facts |-> Common \cup {"cmp_facts", "callgraph"},
   graph |-> Common \cup {"callgraph"},
   effects |-> Common \cup {"reg_effects"},
   asm |-> Common \cup {"callgraph", "reg_effects"},
   fresh |-> Common \cup {"ghidra_import", "callgraph", "cmp_facts"}]

\* Mutant of Prerequisites: a rule forgets the program it runs.
Prerequisites_NoProgram ==
  [facts |-> {"bin", "annotations", "entrypoints", "callgraph", "emit_defmon_source"},
   graph |-> {"bin", "annotations", "callgraph", "emit_defmon_source"},
   effects |-> {"bin", "annotations", "entrypoints", "reg_effects", "emit_defmon_source"}]

\* What the rules of cmp_facts.json, callgraph.json and reg_effects.json name.
Prerequisites ==
  [facts |-> {"bin", "annotations", "entrypoints", "cmp_facts", "callgraph", "emit_defmon_source"},
   graph |-> {"bin", "annotations", "callgraph", "emit_defmon_source"},
   effects |-> {"bin", "annotations", "entrypoints", "reg_effects", "emit_defmon_source"}]

VARIABLES
  ver,        \* a source -> its version
  file,       \* an artefact -> [state, of]
  newer,      \* facts, graph, effects -> the sources modified after it
  ghidra,     \* artefacts/ghidra: the versions it was exported from
  committed,  \* defmon.asm at HEAD
  goal,       \* the goal of the last invocation of make
  agenda,     \* the recipes it has yet to run
  at,         \* where the first of them is: "next", "computed", "opened"
  held,       \* what that recipe computed
  exit,       \* how the last invocation ended
  edits, runs,
  calm,       \* history: no edit since make started
  raced,      \* history: artefacts computed before an edit and completed after it
  cleaned     \* history: no edit, failure or kill since the last clean

makeVars == <<goal, agenda, at, held, exit>>
vars == <<ver, file, newer, ghidra, committed, makeVars, edits, runs, calm, raced, cleaned>>

Targets == {"facts", "graph", "effects", "asm", "fresh", "prg"}
Rebuilt == {"facts", "graph", "effects"}
Absent == [state |-> "absent", of |-> <<>>]
Partial == [state |-> "partial", of |-> <<>>]
Whole(of) == [state |-> "whole", of |-> of]

Current(t) == [s \in Reads[t] |-> ver[s]]

\* The listing that would be emitted from nothing but the sources and the
\* committed Ghidra export.
CleanListing == [src |-> Current("asm"), facts |-> Current("facts"), ghidra |-> ghidra]

Init ==
  /\ ver = [s \in Sources |-> 0] /\ ghidra = Current("fresh")
  /\ committed = CleanListing
  /\ file = [t \in Targets |-> IF t = "asm" THEN Whole(CleanListing) ELSE Absent]
  /\ newer = [t \in Rebuilt |-> {}]
  /\ goal = "none" /\ agenda = <<>> /\ at = "next" /\ held = <<>> /\ exit = "none"
  /\ edits = 0 /\ runs = 0 /\ calm = TRUE /\ raced = {} /\ cleaned = FALSE

------------------------------------------------------------------------------
(* A goal as the recipes make runs for it, prerequisites first.             *)

Listing == <<"facts", "asm">>
RoundTrip == Listing \o <<"assemble", "check">>
Lint == <<"facts", "graph", "lint">>

\* Mutant of Verify: the fresh export is made and not compared.
Verify_NoCompare == Listing \o <<"diff">> \o RoundTrip \o Lint \o <<"export">>

Verify == Listing \o <<"diff">> \o RoundTrip \o Lint \o <<"export", "compare">>

Recipes ==
  [asm |-> Listing, roundtrip |-> RoundTrip, lint |-> Lint, callgraph |-> <<"graph">>,
   triage |-> <<"graph", "triage">>, effects |-> <<"effects", "report">>,
   ghidra |-> <<"export">>, verify |-> Verify]

Make(g) ==
  /\ agenda = <<>> /\ runs < MaxRuns /\ runs' = runs + 1
  /\ goal' = g /\ agenda' = Recipes[g] /\ exit' = "none" /\ calm' = TRUE
  /\ UNCHANGED <<ver, file, newer, ghidra, committed, at, held, edits, raced, cleaned>>

Running(recipe) == agenda # <<>> /\ Head(agenda) = recipe
Outside == UNCHANGED <<ver, ghidra, committed, goal, edits, runs, calm>>

Proceed ==
  /\ agenda' = Tail(agenda) /\ at' = "next" /\ held' = <<>>
  /\ exit' = IF Tail(agenda) = <<>> THEN "ok" ELSE exit

Stop(status) == agenda' = <<>> /\ at' = "next" /\ held' = <<>> /\ exit' = status

\* The recipe fails: make stops, and what it has written stays.
Fail == Stop("failed") /\ cleaned' = FALSE /\ UNCHANGED <<file, newer, raced>>

Put(t, content) == file' = [file EXCEPT ![t] = content]
Touch(t) == newer' = [s \in Rebuilt |-> IF s = t THEN {} ELSE newer[s]]

\* make runs the rule when the file is missing or a prerequisite is newer; a
\* file cut short is a file.
UpToDate(t) == file[t].state # "absent" /\ newer[t] \cap Prerequisites[t] = {}

Skip(t) ==
  /\ Running(t) /\ at = "next" /\ UpToDate(t) /\ Proceed
  /\ Outside /\ UNCHANGED <<file, newer, raced, cleaned>>

Compute(t) ==
  /\ Running(t) /\ at = "next" /\ ~UpToDate(t)
  /\ \/ at' = "computed" /\ held' = Current(t)
        /\ UNCHANGED <<agenda, exit, file, newer, raced, cleaned>>
     \/ Fail
  /\ Outside

\* write_text, or open("w"), truncates the file.
Open(t) ==
  /\ Running(t) /\ at = "computed" /\ at' = "opened"
  /\ Put(t, Partial) /\ Touch(t)
  /\ Outside /\ UNCHANGED <<agenda, held, exit, raced, cleaned>>

NowOf(t) == IF t = "asm" THEN held.src ELSE held

Complete(t) ==
  /\ Running(t) /\ at = "opened"
  /\ Put(t, Whole(held)) /\ Touch(t)
  /\ raced' = IF NowOf(t) = Current(t) THEN raced \ {t} ELSE raced \cup {t}
  /\ Proceed
  /\ Outside /\ UNCHANGED cleaned

------------------------------------------------------------------------------
(* The recipes.                                                             *)

Facts == Skip("facts") \/ Compute("facts") \/ Open("facts") \/ Complete("facts")
Graph == Skip("graph") \/ Compute("graph") \/ Open("graph") \/ Complete("graph")
Effects == Skip("effects") \/ Compute("effects") \/ Open("effects") \/ Complete("effects")

\* emit_defmon_source.main up to its open: the seeds, the expansion, labels,
\* segments, catalogues, annotations, the call graph, load_cmp_facts,
\* reg_effects and the overrides; a loader may refuse what it reads.
ReadFacts ==
  /\ Running("asm") /\ at = "next"
  /\ \/ /\ file["facts"].state # "partial" /\ at' = "computed"
        /\ held' = [src |-> Current("asm"), facts |-> file["facts"].of, ghidra |-> ghidra]
        /\ UNCHANGED <<agenda, exit, file, newer, raced, cleaned>>
     \/ /\ file["facts"].state = "partial" /\ Stop("unreadable")
        /\ UNCHANGED <<file, newer, raced, cleaned>>
     \/ Fail
  /\ Outside

\* The rest of main inside the open file: emit_source may raise.
EmissionFails == Running("asm") /\ at = "opened" /\ Fail /\ Outside

Asm == ReadFacts \/ Open("asm") \/ EmissionFails \/ Complete("asm")

Step(recipe, passes) ==
  /\ Running(recipe) /\ Outside
  /\ \/ passes /\ Proceed /\ UNCHANGED <<file, newer, raced, cleaned>>
     \/ Fail

Assemble ==
  /\ Running("assemble")
  /\ \/ Put("prg", file["asm"]) /\ Proceed /\ UNCHANGED <<newer, raced, cleaned>>
     \/ Fail
  /\ Outside

\* roundtrip_check: load address, length and every byte.
SameBytes == file["prg"].state = "whole" /\ file["prg"].of.src["bin"] = ver["bin"]

Export ==
  /\ Running("export")
  /\ \/ Put("fresh", Whole(Current("fresh"))) /\ Proceed /\ UNCHANGED <<newer, raced, cleaned>>
     \/ Fail
  /\ Outside

Recipe ==
  \/ Facts \/ Graph \/ Effects \/ Asm \/ Assemble \/ Export
  \/ Step("check", SameBytes)
  \/ Step("lint", file["graph"].state = "whole")
  \/ Step("triage", file["graph"].state = "whole")
  \/ Step("report", TRUE)
  \/ Step("diff", file["asm"] = Whole(committed))
  \/ Step("compare", file["fresh"] = Whole(ghidra))

------------------------------------------------------------------------------
(* Everything else that happens to the files.                               *)

\* A kill; on a signal it catches, make deletes the target it was making,
\* unless it is phony, as defmon.asm is.
Kill ==
  /\ agenda # <<>> /\ Stop("killed") /\ cleaned' = FALSE
  /\ \/ UNCHANGED file
     \/ at = "opened" /\ Head(agenda) \in Rebuilt /\ Put(Head(agenda), Absent)
  /\ Outside /\ UNCHANGED <<newer, raced>>

Edit(s) ==
  /\ edits < MaxEdits /\ edits' = edits + 1
  /\ ver' = [ver EXCEPT ![s] = @ + 1]
  /\ newer' = [t \in Rebuilt |-> newer[t] \cup {s}]
  /\ calm' = FALSE /\ cleaned' = FALSE
  /\ UNCHANGED <<file, ghidra, committed, makeVars, runs, raced>>

Idle == agenda = <<>> /\ UNCHANGED <<ver, goal, agenda, at, held, edits, runs>>

\* Mutant of Removed: only the listing goes.
Removed_KeepsBuild == {"asm"}

\* rm -rf build defmon.asm
Removed == {"facts", "graph", "effects", "fresh", "prg", "asm"}

Clean ==
  /\ Idle /\ exit' = "none" /\ calm' = TRUE
  /\ file' = [t \in Targets |-> IF t \in Removed THEN Absent ELSE file[t]]
  /\ raced' = raced \ Removed /\ cleaned' = TRUE
  /\ UNCHANGED <<newer, ghidra, committed>>

Commit ==
  /\ Idle /\ file["asm"].state = "whole" /\ committed' = file["asm"].of
  /\ exit' = "none" /\ UNCHANGED <<file, newer, ghidra, calm, raced, cleaned>>

\* "that promotion is a manual step once a diff has been reviewed"
Promote ==
  /\ Idle /\ file["fresh"].state = "whole" /\ ghidra' = file["fresh"].of
  /\ exit' = "none" /\ UNCHANGED <<file, newer, committed, calm, raced, cleaned>>

Next ==
  \/ \E g \in DOMAIN Recipes : Make(g)
  \/ Recipe \/ Kill \/ Clean \/ Commit \/ Promote
  \/ \E s \in Sources : Edit(s)

Spec == Init /\ [][Next]_vars

------------------------------------------------------------------------------

\* Types: three states of a file, and what the history records.
TypeOK ==
  /\ ver \in [Sources -> 0..MaxEdits] /\ edits \in 0..MaxEdits /\ runs \in 0..MaxRuns
  /\ \A t \in Targets : file[t].state \in {"absent", "partial", "whole"}
  /\ newer \in [Rebuilt -> SUBSET Sources] /\ at \in {"next", "computed", "opened"}
  /\ exit \in {"none", "ok", "failed", "unreadable", "killed"}
  /\ calm \in BOOLEAN /\ raced \subseteq Targets /\ cleaned \in BOOLEAN

Undisturbed(goals) == exit = "ok" /\ calm /\ goal \in goals

\* What the rules do not name although the program reads it.
Unlisted == [facts |-> {"dasm6502"}, graph |-> {"dasm6502", "entrypoints"}, effects |-> {"dasm6502"}]

\* "defmon.asm is regenerated whenever the static image, annotations, the
\* emitter, the disassembler, or the comparison-site facts change": after a
\* make that nothing disturbed the listing is that of the present sources,
\* but for facts that dasm6502.py or an edit during their own build left
\* behind.
ListingCurrent ==
  Undisturbed({"asm", "roundtrip", "verify"}) =>
    LET listing == file["asm"].of IN
    /\ file["asm"].state = "whole" /\ listing.src = Current("asm")
    /\ "facts" \notin raced =>
         \A s \in Reads["facts"] \ Unlisted["facts"] : listing.facts[s] = ver[s]

\* "verify: PASS - all committed artefacts are reproducible from inputs", with
\* the same exceptions: the listing at HEAD is what a clean build would give
\* and the committed Ghidra export is current.
VerifySound ==
  Undisturbed({"verify"}) /\ raced = {} =>
    /\ ghidra = Current("fresh")
    /\ committed = [CleanListing EXCEPT !.facts["dasm6502"] = committed.facts["dasm6502"]]

\* After make clean there are no exceptions, and no file cut short is met.
CleanRecovers ==
  cleaned =>
    /\ exit # "unreadable"
    /\ Undisturbed({"asm", "roundtrip", "verify"}) => file["asm"] = Whole(CleanListing)
==============================================================================
