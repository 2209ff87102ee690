------------------------------- MODULE TuneRuns -------------------------------
(***************************************************************************)
(* The programs that drive defMON in an emulator: the sweep of             *)
(* tools/sweep.py (tunes one by one, all on one port), the worker pool of  *)
(* tools/probe.py (run_per_tune, given sweep_tune as its tune_fn) and the  *)
(* disasm_evidence probe, each over the containers of                      *)
(* tools/_headlessvice.py.  A job is one use of smoke_session: a call of   *)
(* sweep_tune, or the probe.  Docker, VICE and defmon-driver are external: *)
(* each of their calls may raise.                                          *)
(***************************************************************************)
EXTENDS Integers, FiniteSets, SequencesExt

CONSTANTS
  Names,        \* a job -> the name of its tune; names may repeat
  Workers,      \* ctx.workers
  BasePort,
  Plain,        \* all_documented_actions()
  DiskActions,  \* all_documented_disk_actions()
  Spans,        \* the number of RESIDUAL_SPANS
  Pcs           \* an action -> its executed_pcs

ASSUME WorkersAssumption == Workers \in Nat \ {0}
ASSUME PortAssumption == BasePort \in Nat
ASSUME NamesAssumption == Names \in Seq(STRING) /\ Names # <<>>
ASSUME ActionsAssumption == Plain \in Seq(STRING) /\ DiskActions \in Seq(STRING)

VARIABLES
  driver,    \* which program runs (never changes)
  stage,     \* where every job is
  todo,      \* the index of its next action
  captured,  \* the actions it has captured, in order
  failing,   \* the jobs with an exception on its way out
  live,      \* the jobs whose emulator runs
  dirs,      \* the jobs whose state directory exists
  covs,      \* sweep: all_covs
  results,   \* probe: results, a name -> the job it came from, 0 = none
  output,    \* what has been written or returned
  fired      \* disasm_evidence: the disk actions recorded

sessionVars == <<stage, todo, captured, failing, live, dirs>>
vars == <<driver, sessionVars, covs, results, output, fired>>

Jobs == IF driver = "evidence" THEN {1} ELSE DOMAIN Names
Actions == Range(Plain) \cup Range(DiskActions)
Init ==
  /\ driver \in {"sweep", "probe", "evidence"}
  /\ stage = [j \in DOMAIN Names |-> "waiting"] /\ todo = [j \in DOMAIN Names |-> 1]
  /\ captured = [j \in DOMAIN Names |-> <<>>]
  /\ failing = {} /\ live = {} /\ dirs = {}
  /\ covs = <<>> /\ results = [n \in Range(Names) |-> 0] /\ output = <<>>
  /\ fired = {}

\* Mutant of Port: workers share base..base+workers-1, by submission.
Port_ByWorker(j) == BasePort + (IF driver = "probe" THEN (j - 1) % Workers ELSE 0)

Port(j) == BasePort + (IF driver = "probe" THEN j - 1 ELSE 0)

PortFree(j) == \A k \in live : Port(k) # Port(j)

Over == {"returned", "raised", "collected"}

\* Mutant of Busy: a worker whose job raised is lost.
Busy_LosesRaised == {j \in Jobs : j \in failing \/ stage[j] \notin {"waiting"} \cup Over}

Busy == {j \in Jobs : stage[j] \notin {"waiting"} \cup Over}

Go(j, s) == stage' = [stage EXCEPT ![j] = s]
Raise(j, s) == Go(j, s) /\ failing' = failing \cup {j}
Session == UNCHANGED <<driver, covs, results, output, fired>>

------------------------------------------------------------------------------
(* Starting a job: the main loop of the sweep, a free worker of the pool.   *)

Admit(j) ==
  /\ stage[j] = "waiting"
  /\ \A k \in Jobs : k < j => stage[k] # "waiting"
  /\ IF driver = "probe" THEN Cardinality(Busy) < Workers
     ELSE \A k \in Jobs : k < j => stage[k] = "collected"
  /\ dirs' = dirs \cup {j} /\ Go(j, "dir")
  /\ Session /\ UNCHANGED <<todo, captured, failing, live>>

\* _headlessvice_container: the constructor, or a mkdir before it, raises and
\* nothing removes the state directory.
MakeContainer(j) ==
  /\ stage[j] = "dir"
  /\ \/ Go(j, "made") /\ UNCHANGED failing
     \/ Raise(j, "raised")
  /\ Session /\ UNCHANGED <<todo, captured, live, dirs>>

\* smoke_session starts the container, which needs the port (it is not said
\* whether it stops one that did not start); then cursor_load_tune and
\* cov.install, before the try.
Boot(j) ==
  /\ stage[j] = "made"
  /\ \/ PortFree(j) /\ live' = live \cup {j}
        /\ \/ Go(j, IF driver = "evidence" THEN "open" ELSE "plain") /\ UNCHANGED failing
           \/ Raise(j, "stopping")
     \/ (Raise(j, "stopping") \/ Raise(j, "raised")) /\ UNCHANGED live
  /\ Session /\ UNCHANGED <<todo, captured, dirs>>

------------------------------------------------------------------------------
(* sweep_tune.                                                              *)

Advance(j) == todo' = [todo EXCEPT ![j] = @ + 1]

\* Kept for the sweep only: the pool asks no more of a job than how it ended.
Capture(j, a) == captured' = IF driver = "sweep" THEN [captured EXCEPT ![j] = Append(@, a)] ELSE captured

\* One turn of the first loop: state_reset may raise, _per_action may not.
PlainAction(j) ==
  /\ stage[j] = "plain" /\ todo[j] <= Len(Plain)
  /\ \/ Advance(j) /\ (Capture(j, Plain[todo[j]]) \/ UNCHANGED captured) /\ UNCHANGED <<stage, failing>>
     \/ Raise(j, "removing") /\ UNCHANGED <<todo, captured>>
  /\ Session /\ UNCHANGED <<live, dirs>>

\* open_disk_menu; its exception is caught and the disk actions skipped.
OpenMenu(j) ==
  /\ stage[j] = "plain" /\ todo[j] > Len(Plain)
  /\ Go(j, "disk") \/ Go(j, "removing")
  /\ todo' = [todo EXCEPT ![j] = 1]
  /\ Session /\ UNCHANGED <<captured, failing, live, dirs>>

DiskAction(j) ==
  /\ stage[j] = "disk" /\ driver # "evidence"
  /\ IF todo[j] <= Len(DiskActions)
     THEN Advance(j) /\ (Capture(j, DiskActions[todo[j]]) \/ UNCHANGED captured) /\ UNCHANGED stage
     ELSE Go(j, "removing") /\ UNCHANGED <<todo, captured>>
  /\ Session /\ UNCHANGED <<failing, live, dirs>>

\* The finally of the try: cov.remove.
RemoveCoverage(j) ==
  /\ stage[j] = "removing"
  /\ \/ Go(j, "stopping") /\ UNCHANGED failing
     \/ Raise(j, "stopping")
  /\ Session /\ UNCHANGED <<todo, captured, live, dirs>>

\* Mutant of Stop: the directory is removed only if the container stopped.
Stop_NoFinally(j) ==
  /\ stage[j] = "stopping"
  /\ \/ live' = live \ {j} /\ UNCHANGED failing /\ Go(j, IF j \in failing THEN "raised" ELSE "returned")
        /\ dirs' = dirs \ {j}
     \/ Raise(j, "raised") /\ UNCHANGED <<live, dirs>>
  /\ Session /\ UNCHANGED <<todo, captured>>

\* stop_and_clean: whether stop raises or not, the directory goes; an
\* emulator whose stop raised may go on running.
Stop(j) ==
  /\ stage[j] = "stopping"
  /\ dirs' = dirs \ {j}
  /\ \/ live' = live \ {j} /\ UNCHANGED failing /\ Go(j, IF j \in failing THEN "raised" ELSE "returned")
     \/ Raise(j, "raised") /\ UNCHANGED live
  /\ Session /\ UNCHANGED <<todo, captured>>

------------------------------------------------------------------------------
(* The probe disasm_evidence.                                               *)

Evidence(j) ==
  driver = "evidence" /\ UNCHANGED <<driver, captured, live, dirs, covs, results, output>>

\* cov_disk.measure(d.open_disk_menu, ...): an exception is logged.
MeasureOpen(j) ==
  /\ stage[j] = "open" /\ Go(j, "disk") /\ todo' = [todo EXCEPT ![j] = 1]
  /\ Evidence(j) /\ UNCHANGED <<failing, fired>>

\* An action that raises is not recorded.  The menu is opened again after one
\* that is, unless its name is in DISK_MENU_OPENERS; that may raise too, and is
\* ignored.
EvidenceAction(j) ==
  /\ stage[j] = "disk" /\ todo[j] <= Len(DiskActions) /\ Advance(j)
  /\ UNCHANGED fired \/ fired' = fired \cup {DiskActions[todo[j]]}
  /\ Evidence(j) /\ UNCHANGED <<stage, failing>>

\* cov_disk.remove, then a span at a time: install is outside the try, a
\* measurement that raises reads as no hit.
MeasureSpan(j) ==
  /\ \/ stage[j] = "disk" /\ todo[j] > Len(DiskActions) /\ todo' = [todo EXCEPT ![j] = 1]
        /\ Go(j, "spans") /\ UNCHANGED failing
     \/ stage[j] = "disk" /\ todo[j] > Len(DiskActions) /\ Raise(j, "stopping") /\ UNCHANGED todo
     \/ stage[j] = "spans" /\ todo[j] <= Spans /\ Advance(j) /\ UNCHANGED <<stage, failing>>
     \/ stage[j] = "spans" /\ todo[j] <= Spans /\ Raise(j, "stopping") /\ UNCHANGED todo
     \/ stage[j] = "spans" /\ todo[j] > Spans /\ Go(j, "stopping") /\ UNCHANGED <<todo, failing>>
  /\ Evidence(j) /\ UNCHANGED fired

------------------------------------------------------------------------------
(* What becomes of a job, and the output.                                   *)

\* Mutant of Extended: what a tune captured before it failed is kept.
Extended_Partial(j) == covs \o captured[j]

Extended(j) == IF stage[j] = "returned" THEN covs \o captured[j] ELSE covs

\* Mutant of Recorded: results are paired with the tunes in order of completion.
Recorded_InOrder(j) ==
  [results EXCEPT ![Names[1 + Cardinality({k \in Jobs : stage[k] = "collected"})]] = j]

Recorded(j) == [results EXCEPT ![Names[j]] = j]

\* sweep.main extends all_covs in order; run_per_tune takes the futures as they
\* complete and skips those that raised (or returned None, which sweep_tune does not).
Collect(j) ==
  /\ stage[j] \in {"returned", "raised"} /\ Go(j, "collected")
  /\ covs' = IF driver = "sweep" THEN Extended(j) ELSE covs
  /\ results' = IF driver = "probe" /\ stage[j] = "returned" THEN Recorded(j) ELSE results
  /\ UNCHANGED <<driver, todo, captured, failing, live, dirs, output, fired>>

\* aggregate_sweep: how many captures executed each address.
Occurrences(all) ==
  [pc \in UNION Range(Pcs) |-> Cardinality({i \in DOMAIN all : pc \in Pcs[all[i]]})]

Aggregated(all) ==
  [tune_count |-> Len(Names), action_count |-> Len(all), occurrences |-> Occurrences(all)]

\* The output is written, or returned, once all jobs are over; an exception
\* leaves disasm_evidence before its write.
Write ==
  /\ output = <<>> /\ \A j \in Jobs : stage[j] = "collected"
  /\ output' = CASE driver = "sweep" -> <<Aggregated(covs)>>
                 [] driver = "probe" -> <<results>>
                 [] OTHER -> IF failing = {} THEN <<fired>> ELSE <<"raised">>
  /\ UNCHANGED <<driver, sessionVars, covs, results, fired>>

SessionStep(j) ==
  \/ Admit(j) \/ MakeContainer(j) \/ Boot(j)
  \/ PlainAction(j) \/ OpenMenu(j) \/ DiskAction(j) \/ RemoveCoverage(j) \/ Stop(j)
  \/ MeasureOpen(j) \/ EvidenceAction(j) \/ MeasureSpan(j)

Next == (\E j \in Jobs : SessionStep(j) \/ Collect(j)) \/ Write

\* Every call to the emulator returns or raises: some thread can always go on.
Spec == Init /\ [][Next]_vars /\ WF_vars(Next)

------------------------------------------------------------------------------

\* Types: every job is at a known place, and results name jobs.
TypeOK ==
  /\ stage \in [DOMAIN Names -> {"waiting", "dir", "made", "open", "plain", "disk", "spans",
                                 "removing", "stopping"} \cup Over]
  /\ todo \in [DOMAIN Names -> Nat] /\ failing \subseteq Jobs /\ live \subseteq Jobs /\ dirs \subseteq Jobs
  /\ results \in [Range(Names) -> {0} \cup Jobs] /\ fired \subseteq Actions

\* run_per_tune: "a unique port so concurrent headlessvice containers don't
\* collide".  The port a job boots on is free; in the sweep, where all tunes
\* share one, it can only be held by an emulator whose stop raised.
PortsHeld ==
  \A j \in Jobs : stage[j] = "made" /\ ~PortFree(j) =>
    driver = "sweep" /\ \A k \in live : k \in failing /\ stage[k] = "collected"

\* _headlessvice_container: no job leaves its state directory behind, nor
\* removes it under an emulator in use, but for containers that never ran.
StateDirsCleaned ==
  /\ \A j \in dirs : stage[j] \in Over => j \in failing \ live /\ captured[j] = <<>>
  /\ \A j \in live : j \notin dirs => j \in failing /\ stage[j] \in Over

\* sweep.main and aggregate_sweep: a tune counts with all it captured or not
\* at all, and every capture counts once for every address it executed.
TunesWhole ==
  driver = "sweep" /\ output # <<>> =>
    LET whole == UNION {{j} \X DOMAIN captured[j] : j \in Jobs \ failing}
    IN /\ output[1].action_count = Cardinality(whole)
       /\ \A pc \in DOMAIN output[1].occurrences :
            output[1].occurrences[pc] = Cardinality({w \in whole : pc \in Pcs[captured[w[1]][w[2]]]})

\* run_per_tune returns "{tune.name: result} for every tune whose tune_fn
\* returned without raising", whatever the order of completion.
ResultsKept ==
  driver = "probe" /\ output # <<>> =>
    \A n \in Range(Names) :
      LET good == {j \in Jobs \ failing : Names[j] = n}
      IN IF good = {} THEN output[1][n] = 0 ELSE output[1][n] \in good

\* Every job ends and the output is reached, whatever fails.
AllAnswered == <>(output # <<>>)
==============================================================================
