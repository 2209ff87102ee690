---------------------------- MODULE TuneRuns_proofs ----------------------------
(***************************************************************************)
(* For any number of tunes, workers and actions: an emulator never boots   *)
(* on a port another one still uses, but behind one that would not stop,   *)
(* and no state directory is left behind or removed too early; the sweep   *)
(* counts whole tunes and the pool keeps every result.  At the end, the    *)
(* promises of the fetch that provides their disk images.                  *)
(***************************************************************************)
EXTENDS TuneRuns, FetchStatic, FiniteSetTheorems, TLAPS

Fresh == {"waiting", "dir", "made"}
Open == {"dir", "made", "open", "plain", "disk", "spans", "removing", "stopping"}

Typed ==
  /\ driver \in {"sweep", "probe", "evidence"}
  /\ stage \in [DOMAIN Names -> {"waiting"} \cup Open \cup Over]
  /\ DOMAIN captured = DOMAIN Names
  /\ failing \subseteq Jobs /\ live \subseteq Jobs /\ dirs \subseteq Jobs

\* A job that has not booted has no emulator and has captured nothing.
FreshIsIdle == \A j \in Jobs : stage[j] \in Fresh => j \notin live /\ captured[j] = <<>>

\* Without the pool a job starts when the jobs before it are collected.
OneByOne ==
  driver # "probe" =>
    \A j, k \in Jobs : k < j /\ stage[j] # "waiting" => stage[k] = "collected"

\* A job in progress has its state directory.
OpenHasDir == \A j \in Jobs : stage[j] \in Open => j \in dirs

\* An emulator outlives its job only if stopping it raised.
LiveAfterStop == \A j \in live : stage[j] \in Over => j \in failing

LeftBehind == \A j \in dirs : stage[j] \in Over => j \in failing \ live /\ captured[j] = <<>>

IInv == Typed /\ FreshIsIdle /\ OneByOne /\ OpenHasDir /\ LiveAfterStop /\ LeftBehind

LEMMA JobsExist == 1 \in DOMAIN Names /\ DOMAIN Names \subseteq Nat \ {0}
BY NamesAssumption

LEMMA JobsInNames == Jobs \subseteq DOMAIN Names /\ Jobs \subseteq Nat \ {0}
BY JobsExist DEF Jobs

LEMMA InitHolds == Init => IInv
BY JobsInNames DEF Init, IInv, Typed, FreshIsIdle, OneByOne, OpenHasDir, LiveAfterStop, LeftBehind,
   Fresh, Open, Over

\* What an action that moves job j from a stage to another has to respect.
LEMMA Moves ==
  ASSUME IInv, NEW j \in Jobs, NEW s \in {"waiting"} \cup Open \cup Over,
         stage' = [stage EXCEPT ![j] = s], UNCHANGED driver,
         stage[j] # "waiting" \/ driver = "probe" \/ \A k \in Jobs : k < j => stage[k] = "collected",
         stage[j] # "collected", s # "waiting",
         DOMAIN captured' = DOMAIN captured,
         \A k \in Jobs \ {j} : captured'[k] = captured[k]
                               /\ (k \in failing' <=> k \in failing)
                               /\ (k \in live' <=> k \in live) /\ (k \in dirs' <=> k \in dirs),
         failing' \subseteq Jobs, live' \subseteq Jobs, dirs' \subseteq Jobs,
         s \in Fresh => j \notin live' /\ captured'[j] = <<>>,
         s \in Open => j \in dirs',
         j \in live' /\ s \in Over => j \in failing',
         j \in dirs' /\ s \in Over => j \in failing' \ live' /\ captured'[j] = <<>>
  PROVE  IInv'
<1>1. Jobs' = Jobs BY DEF Jobs
<1>2. j \in DOMAIN Names BY JobsInNames
<1>3. stage'[j] = s /\ \A k \in Jobs \ {j} : stage'[k] = stage[k] 
  BY <1>2, JobsInNames DEF IInv, Typed
<1>4. Typed' BY <1>1, <1>2 DEF IInv, Typed
<1>5. FreshIsIdle' BY <1>1, <1>3 DEF IInv, FreshIsIdle
<1>6. OneByOne'
  <2> SUFFICES ASSUME driver # "probe", NEW a \in Jobs, NEW b \in Jobs, b < a, stage'[a] # "waiting"
               PROVE stage'[b] = "collected"
    BY <1>1 DEF OneByOne
  <2>1. stage[b] = "collected" BY <1>3, JobsInNames DEF IInv, OneByOne
  <2> QED BY <2>1, <1>3
<1>7. OpenHasDir' BY <1>1, <1>3 DEF IInv, OpenHasDir
<1>8. LiveAfterStop' BY <1>1, <1>3 DEF IInv, LiveAfterStop
<1>9. LeftBehind' BY <1>1, <1>3 DEF IInv, LeftBehind
<1> QED BY <1>4, <1>5, <1>6, <1>7, <1>8, <1>9 DEF IInv

Running == {"open", "plain", "disk", "spans", "removing", "stopping"}

\* An action within a stage changes at most what the job has captured.
LEMMA Stays ==
  ASSUME IInv, NEW j \in Jobs, stage[j] \in Running,
         UNCHANGED <<driver, stage, failing, live, dirs>>,
         DOMAIN captured' = DOMAIN captured,
         \A k \in Jobs \ {j} : captured'[k] = captured[k]
  PROVE  IInv'
<1>1. Jobs' = Jobs BY DEF Jobs
<1>2. Typed' BY <1>1 DEF IInv, Typed
<1>3. FreshIsIdle' BY <1>1 DEF IInv, FreshIsIdle, Fresh, Running
<1>4. OneByOne' BY <1>1 DEF IInv, OneByOne
<1>5. OpenHasDir' BY <1>1 DEF IInv, OpenHasDir
<1>6. LiveAfterStop' BY <1>1 DEF IInv, LiveAfterStop
<1>7. LeftBehind' BY <1>1 DEF IInv, LeftBehind, Typed, Over, Running
<1> QED BY <1>2, <1>3, <1>4, <1>5, <1>6, <1>7 DEF IInv

LEMMA Captures ==
  ASSUME IInv, NEW j \in Jobs, NEW a, Capture(j, a)
  PROVE  DOMAIN captured' = DOMAIN captured /\ \A k \in Jobs \ {j} : captured'[k] = captured[k]
BY JobsInNames DEF Capture, IInv, Typed

USE DEF Open, Over, Fresh, Running, Session, sessionVars, Go, Raise

LEMMA AdmitKeeps == ASSUME IInv, NEW j \in Jobs, Admit(j) PROVE IInv'
<1> j \notin live /\ captured[j] = <<>> BY DEF Admit, IInv, FreshIsIdle
<1> live \subseteq Jobs /\ failing \subseteq Jobs /\ dirs \subseteq Jobs /\ Jobs' = Jobs
  BY DEF IInv, Typed, Jobs, Admit
<1> QED BY Moves DEF Admit

LEMMA MakeContainerKeeps == ASSUME IInv, NEW j \in Jobs, MakeContainer(j) PROVE IInv'
<1> j \notin live /\ captured[j] = <<>> /\ j \in dirs BY DEF MakeContainer, IInv, FreshIsIdle, OpenHasDir
<1> live \subseteq Jobs /\ failing \subseteq Jobs /\ dirs \subseteq Jobs /\ Jobs' = Jobs
  BY DEF IInv, Typed, Jobs, MakeContainer
<1>1. CASE Go(j, "made") /\ UNCHANGED failing BY <1>1, Moves DEF MakeContainer
<1>2. CASE Raise(j, "raised") BY <1>2, Moves DEF MakeContainer
<1> QED BY <1>1, <1>2 DEF MakeContainer

LEMMA BootKeeps == ASSUME IInv, NEW j \in Jobs, Boot(j) PROVE IInv'
<1> j \notin live /\ captured[j] = <<>> /\ j \in dirs BY DEF Boot, IInv, FreshIsIdle, OpenHasDir
<1> live \subseteq Jobs /\ failing \subseteq Jobs /\ dirs \subseteq Jobs /\ Jobs' = Jobs
  BY DEF IInv, Typed, Jobs, Boot
<1>1. ASSUME live' = live \cup {j}, NEW s \in {"open", "plain"}, Go(j, s), UNCHANGED failing PROVE IInv'
  BY <1>1, Moves DEF Boot
<1>2. ASSUME live' = live \cup {j}, Raise(j, "stopping") PROVE IInv' BY <1>2, Moves DEF Boot
<1>3. ASSUME UNCHANGED live, Raise(j, "stopping") PROVE IInv' BY <1>3, Moves DEF Boot
<1>4. ASSUME UNCHANGED live, Raise(j, "raised") PROVE IInv' BY <1>4, Moves DEF Boot
<1> QED BY <1>1, <1>2, <1>3, <1>4 DEF Boot

LEMMA PlainActionKeeps == ASSUME IInv, NEW j \in Jobs, PlainAction(j) PROVE IInv'
<1> live \subseteq Jobs /\ failing \subseteq Jobs /\ dirs \subseteq Jobs /\ j \in dirs /\ Jobs' = Jobs
  BY DEF IInv, Typed, OpenHasDir, Jobs, PlainAction
<1>1. CASE Capture(j, Plain[todo[j]]) /\ UNCHANGED <<stage, failing>>
  BY <1>1, Captures, Stays DEF PlainAction
<1>2. CASE UNCHANGED captured /\ UNCHANGED <<stage, failing>> BY <1>2, Stays DEF PlainAction
<1>3. CASE Raise(j, "removing") /\ UNCHANGED captured BY <1>3, Moves DEF PlainAction
<1> QED BY <1>1, <1>2, <1>3 DEF PlainAction

LEMMA OpenMenuKeeps == ASSUME IInv, NEW j \in Jobs, OpenMenu(j) PROVE IInv'
<1> live \subseteq Jobs /\ failing \subseteq Jobs /\ dirs \subseteq Jobs /\ j \in dirs /\ Jobs' = Jobs
  BY DEF IInv, Typed, OpenHasDir, Jobs, OpenMenu
<1>1. ASSUME NEW s \in {"disk", "removing"}, Go(j, s) PROVE IInv' BY <1>1, Moves DEF OpenMenu
<1> QED BY <1>1 DEF OpenMenu

LEMMA DiskActionKeeps == ASSUME IInv, NEW j \in Jobs, DiskAction(j) PROVE IInv'
<1> live \subseteq Jobs /\ failing \subseteq Jobs /\ dirs \subseteq Jobs /\ j \in dirs /\ Jobs' = Jobs
  BY DEF IInv, Typed, OpenHasDir, Jobs, DiskAction
<1>1. CASE Capture(j, DiskActions[todo[j]]) /\ UNCHANGED stage BY <1>1, Captures, Stays DEF DiskAction
<1>2. CASE UNCHANGED captured /\ UNCHANGED stage BY <1>2, Stays DEF DiskAction
<1>3. CASE Go(j, "removing") /\ UNCHANGED captured BY <1>3, Moves DEF DiskAction
<1> QED BY <1>1, <1>2, <1>3 DEF DiskAction

LEMMA RemoveCoverageKeeps == ASSUME IInv, NEW j \in Jobs, RemoveCoverage(j) PROVE IInv'
<1> live \subseteq Jobs /\ failing \subseteq Jobs /\ dirs \subseteq Jobs /\ j \in dirs /\ Jobs' = Jobs
  BY DEF IInv, Typed, OpenHasDir, Jobs, RemoveCoverage
<1>1. CASE Go(j, "stopping") /\ UNCHANGED failing BY <1>1, Moves DEF RemoveCoverage
<1>2. CASE Raise(j, "stopping") BY <1>2, Moves DEF RemoveCoverage
<1> QED BY <1>1, <1>2 DEF RemoveCoverage

LEMMA StopKeeps == ASSUME IInv, NEW j \in Jobs, Stop(j) PROVE IInv'
<1> live \subseteq Jobs /\ failing \subseteq Jobs /\ dirs \subseteq Jobs /\ Jobs' = Jobs
  BY DEF IInv, Typed, Jobs, Stop
<1>1. ASSUME live' = live \ {j}, NEW s \in {"raised", "returned"}, Go(j, s), UNCHANGED failing PROVE IInv'
  BY <1>1, Moves DEF Stop
<1>2. CASE Raise(j, "raised") /\ UNCHANGED live BY <1>2, Moves DEF Stop
<1> QED BY <1>1, <1>2 DEF Stop

LEMMA MeasureOpenKeeps == ASSUME IInv, NEW j \in Jobs, MeasureOpen(j) PROVE IInv'
<1> live \subseteq Jobs /\ failing \subseteq Jobs /\ dirs \subseteq Jobs /\ j \in dirs /\ Jobs' = Jobs
  BY DEF IInv, Typed, OpenHasDir, Jobs, MeasureOpen, Evidence
<1> QED BY Moves DEF MeasureOpen, Evidence

LEMMA EvidenceActionKeeps == ASSUME IInv, NEW j \in Jobs, EvidenceAction(j) PROVE IInv'
BY Stays DEF EvidenceAction, Evidence

LEMMA MeasureSpanKeeps == ASSUME IInv, NEW j \in Jobs, MeasureSpan(j) PROVE IInv'
<1> stage[j] \in {"disk", "spans"} BY DEF MeasureSpan
<1> live \subseteq Jobs /\ failing \subseteq Jobs /\ dirs \subseteq Jobs /\ j \in dirs /\ Jobs' = Jobs
  BY DEF IInv, Typed, OpenHasDir, Jobs, MeasureSpan, Evidence
<1>1. ASSUME NEW s \in {"spans", "stopping"}, Go(j, s), UNCHANGED failing PROVE IInv'
  BY <1>1, Moves DEF MeasureSpan, Evidence
<1>2. CASE Raise(j, "stopping") BY <1>2, Moves DEF MeasureSpan, Evidence
<1>3. CASE UNCHANGED <<stage, failing>> BY <1>3, Stays DEF MeasureSpan, Evidence
<1> QED BY <1>1, <1>2, <1>3 DEF MeasureSpan

LEMMA CollectKeeps == ASSUME IInv, NEW j \in Jobs, Collect(j) PROVE IInv'
<1> live \subseteq Jobs /\ failing \subseteq Jobs /\ dirs \subseteq Jobs /\ Jobs' = Jobs
  BY DEF IInv, Typed, Jobs, Collect
<1> j \in live => j \in failing BY DEF IInv, LiveAfterStop, Collect
<1> j \in dirs => j \in failing \ live /\ captured[j] = <<>> BY DEF IInv, LeftBehind, Collect
<1> QED BY Moves DEF Collect

LEMMA Keeps == IInv /\ [Next]_vars => IInv'
<1> SUFFICES ASSUME IInv, [Next]_vars PROVE IInv' OBVIOUS
<1> USE AdmitKeeps, MakeContainerKeeps, BootKeeps, PlainActionKeeps, OpenMenuKeeps, DiskActionKeeps,
        RemoveCoverageKeeps, StopKeeps, MeasureOpenKeeps, EvidenceActionKeeps, MeasureSpanKeeps, CollectKeeps
<1>1. ASSUME NEW j \in Jobs, SessionStep(j) PROVE IInv' BY <1>1 DEF SessionStep
<1>2. ASSUME NEW j \in Jobs, Collect(j) PROVE IInv' BY <1>2
<1>3. CASE UNCHANGED <<driver, stage, captured, failing, live, dirs>>
  BY <1>3 DEF IInv, Typed, FreshIsIdle, OneByOne, OpenHasDir, LiveAfterStop, LeftBehind, Jobs
<1>4. Write => UNCHANGED <<driver, stage, captured, failing, live, dirs>> BY DEF Write
<1>5. UNCHANGED vars => UNCHANGED <<driver, stage, captured, failing, live, dirs>> BY DEF vars
<1> QED BY <1>1, <1>2, <1>3, <1>4, <1>5 DEF Next

LEMMA PortsFollow == IInv => PortsHeld
<1> SUFFICES ASSUME IInv, NEW j \in Jobs, stage[j] = "made", ~PortFree(j)
             PROVE driver = "sweep" /\ \A k \in live : k \in failing /\ stage[k] = "collected"
  BY DEF PortsHeld
<1>1. j \notin live /\ live \subseteq Jobs BY DEF IInv, FreshIsIdle, Typed
<1>2. PICK h \in live : Port(h) = Port(j) BY DEF PortFree
<1>3. h # j /\ h \in Nat /\ j \in Nat /\ h \in Jobs BY <1>1, <1>2, JobsInNames
<1>4. driver # "probe" BY <1>2, <1>3, PortAssumption DEF Port
<1>5. driver # "evidence" BY <1>3 DEF Jobs
<1>6. ASSUME NEW k \in live PROVE k \in failing /\ stage[k] = "collected"
  <2>1. k # j /\ k \in Nat /\ k \in Jobs BY <1>1, JobsInNames
  <2>2. stage[k] # "waiting" BY <2>1 DEF IInv, FreshIsIdle
  <2>3. ~(j < k) BY <2>1, <2>2, <1>4 DEF IInv, OneByOne
  <2>4. stage[k] = "collected" BY <2>1, <2>3, <1>3, <1>4 DEF IInv, OneByOne
  <2> QED BY <2>4 DEF IInv, LiveAfterStop
<1> QED BY <1>4, <1>5, <1>6 DEF IInv, Typed

LEMMA DirsFollow == IInv => StateDirsCleaned
<1> SUFFICES ASSUME IInv PROVE StateDirsCleaned OBVIOUS
<1>1. \A j \in dirs : stage[j] \in {"returned", "raised", "collected"} => j \in failing \ live /\ captured[j] = <<>>
  BY DEF IInv, LeftBehind
<1>2. ASSUME NEW j \in live, j \notin dirs PROVE j \in failing /\ stage[j] \in Over
  <2>1. j \in Jobs /\ stage[j] \in {"waiting"} \cup Open \cup Over BY JobsInNames DEF IInv, Typed
  <2>2. stage[j] \in Over BY <1>2, <2>1 DEF IInv, OpenHasDir, FreshIsIdle
  <2> QED BY <2>2 DEF IInv, LiveAfterStop
<1> QED BY <1>1, <1>2 DEF StateDirsCleaned

LEMMA Inductive == Spec => []IInv
BY InitHolds, Keeps, PTL DEF Spec

\* The port a job boots on is free, whatever the number of tunes and workers,
\* unless the sweep meets an emulator whose stop raised.
THEOREM PortsNeverShared == Spec => []PortsHeld
BY Inductive, PortsFollow, PTL

\* No job leaves its state directory behind or loses it while it runs.
THEOREM DirsAlwaysCleaned == Spec => []StateDirsCleaned
BY Inductive, DirsFollow, PTL

------------------------------------------------------------------------------
(* What the programs answer.                                                *)

Collected == {j \in Jobs : stage[j] = "collected"}

\* A job that returned has raised nothing, one that raised has, and what a job
\* captured is a sequence.
Settled ==
  /\ todo \in [DOMAIN Names -> Nat \ {0}]
  /\ \A j \in Jobs : /\ stage[j] = "returned" => j \notin failing
                     /\ stage[j] = "raised" => j \in failing
                     /\ captured[j] \in Seq(STRING)

Good(n) == {j \in Collected \ failing : Names[j] = n}

\* The results so far name the jobs that returned, whichever came first.
ResultsSoFar ==
  driver = "probe" =>
    /\ DOMAIN results = Range(Names)
    /\ \A n \in Range(Names) : IF Good(n) = {} THEN results[n] = 0 ELSE results[n] \in Good(n)

\* What the tunes collected so far contribute: job, index of the capture.
Whole == UNION {{j} \X DOMAIN captured[j] : j \in Collected \ failing}

\* all_covs lists exactly those captures, each once.
Listing(all, S, f) ==
  f \in Bijection(DOMAIN all, S) /\ \A i \in DOMAIN all : all[i] = captured[f[i][1]][f[i][2]]

CovsSoFar ==
  driver = "sweep" => covs \in Seq(STRING) /\ \E f : Listing(covs, Whole, f)

\* The output is made when no job is left, from what was gathered.
OutputLast ==
  output # <<>> => /\ Collected = Jobs
                   /\ driver = "probe" => output = <<results>>
                   /\ driver = "sweep" => output = <<Aggregated(covs)>>

AInv == IInv /\ Settled /\ ResultsSoFar /\ CovsSoFar /\ OutputLast

LEMMA SeqGrows == \A S : <<>> \in Seq(S) /\ \A s \in Seq(S), e \in S : Append(s, e) \in Seq(S)
OBVIOUS

LEMMA AnswersInit == Init => Settled /\ ResultsSoFar /\ CovsSoFar /\ OutputLast
<1> SUFFICES ASSUME Init PROVE Settled /\ ResultsSoFar /\ CovsSoFar /\ OutputLast
  OBVIOUS
<1>1. Jobs \subseteq DOMAIN Names /\ Collected = {} BY JobsInNames DEF Init, Collected
<1>2. Settled
  <2>1. \A j \in Jobs : stage[j] = "waiting" /\ captured[j] = <<>> BY <1>1 DEF Init
  <2>2. todo \in [DOMAIN Names -> Nat \ {0}] BY DEF Init
  <2>3. <<>> \in Seq(STRING) BY SeqGrows, Zenon
  <2> QED BY <2>1, <2>2, <2>3 DEF Settled
<1>3. ResultsSoFar BY <1>1 DEF Init, ResultsSoFar, Good
<1>4. Listing(<<>>, {}, [i \in {} |-> i])
  BY DEF Listing, Bijection, Injection, Surjection, IsInjective
<1>5. CovsSoFar
  <2>1. Whole = {} /\ covs = <<>> BY <1>1 DEF Init, Whole
  <2>2. Listing(covs, Whole, [i \in {} |-> i]) BY <1>4, <2>1
  <2> QED BY <2>1, <2>2 DEF CovsSoFar
<1>6. OutputLast BY DEF Init, OutputLast
<1> QED BY <1>2, <1>3, <1>5, <1>6

\* What a step of a session leaves alone, and how its own job may end.
OnlyJob(j) ==
  /\ UNCHANGED <<driver, covs, results, output>>
  /\ stage[j] \notin Over /\ stage'[j] # "collected"
  /\ stage'[j] = "returned" => j \notin failing'
  /\ stage'[j] = "raised" => j \in failing'
  /\ captured'[j] \in Seq(STRING)
  /\ todo' \in [DOMAIN Names -> Nat \ {0}]
  /\ \A k \in Jobs \ {j} : /\ stage'[k] = stage[k] /\ captured'[k] = captured[k]
                           /\ k \in failing' <=> k \in failing

LEMMA Captured ==
  ASSUME IInv, Settled, NEW j \in Jobs, NEW a \in STRING, Capture(j, a)
  PROVE  captured'[j] \in Seq(STRING) /\ \A k \in Jobs \ {j} : captured'[k] = captured[k]
<1>1. j \in DOMAIN captured /\ Jobs \subseteq DOMAIN captured /\ captured[j] \in Seq(STRING)
  BY JobsInNames DEF IInv, Typed, Settled
<1>2. Append(captured[j], a) \in Seq(STRING) BY <1>1, SeqGrows, Zenon
<1> HIDE DEF Settled, IInv
<1>3. captured' = [captured EXCEPT ![j] = Append(captured[j], a)] \/ captured' = captured BY DEF Capture
<1> QED BY <1>1, <1>2, <1>3

LEMMA SessionOnlyJob ==
  ASSUME IInv, Settled, NEW j \in Jobs, SessionStep(j)
  PROVE  OnlyJob(j)
<1> USE DEF Session, Evidence, Go, Raise, Over
<1>1. /\ j \in DOMAIN Names /\ Jobs \subseteq DOMAIN Names /\ DOMAIN stage = DOMAIN Names
      /\ todo \in [DOMAIN Names -> Nat \ {0}] /\ captured[j] \in Seq(STRING)
  BY JobsInNames DEF IInv, Typed, Settled
<1>2. Advance(j) => todo' \in [DOMAIN Names -> Nat \ {0}] BY <1>1 DEF Advance
<1>3. CASE Admit(j) BY <1>1, <1>3 DEF Admit, OnlyJob
<1>4. CASE MakeContainer(j) BY <1>1, <1>4 DEF MakeContainer, OnlyJob
<1>5. CASE Boot(j) BY <1>1, <1>5 DEF Boot, OnlyJob
<1>6. CASE PlainAction(j)
  <2>1. Plain[todo[j]] \in STRING BY <1>1, <1>6, ActionsAssumption DEF PlainAction
  <2>2. captured'[j] \in Seq(STRING) /\ \A k \in Jobs \ {j} : captured'[k] = captured[k]
    BY <1>1, <1>6, <2>1, Captured DEF PlainAction
  <2>3. todo' \in [DOMAIN Names -> Nat \ {0}] BY <1>1, <1>2, <1>6 DEF PlainAction
  <2> QED BY <1>1, <1>6, <2>2, <2>3 DEF PlainAction, OnlyJob
<1>7. CASE OpenMenu(j) BY <1>1, <1>7 DEF OpenMenu, OnlyJob
<1>8. CASE DiskAction(j)
  <2>1. todo[j] <= Len(DiskActions) => DiskActions[todo[j]] \in STRING
    BY <1>1, ActionsAssumption
  <2>2. captured'[j] \in Seq(STRING) /\ \A k \in Jobs \ {j} : captured'[k] = captured[k]
    BY <1>1, <1>8, <2>1, Captured DEF DiskAction
  <2>3. todo' \in [DOMAIN Names -> Nat \ {0}] BY <1>1, <1>2, <1>8 DEF DiskAction
  <2> QED BY <1>1, <1>8, <2>2, <2>3 DEF DiskAction, OnlyJob
<1>9. CASE RemoveCoverage(j) BY <1>1, <1>9 DEF RemoveCoverage, OnlyJob
<1>10. CASE Stop(j) BY <1>1, <1>10 DEF Stop, OnlyJob
<1>11. CASE MeasureOpen(j) BY <1>1, <1>11 DEF MeasureOpen, OnlyJob
<1>12. CASE EvidenceAction(j) BY <1>1, <1>2, <1>12 DEF EvidenceAction, OnlyJob
<1>13. CASE MeasureSpan(j)
  <2>1. todo' \in [DOMAIN Names -> Nat \ {0}] BY <1>1, <1>2, <1>13 DEF MeasureSpan
  <2> QED BY <1>1, <1>13, <2>1 DEF MeasureSpan, OnlyJob
<1> QED BY <1>3, <1>4, <1>5, <1>6, <1>7, <1>8, <1>9, <1>10, <1>11, <1>12, <1>13, SessionStep(j) DEF SessionStep

LEMMA OnlyJobKeeps ==
  ASSUME AInv, NEW j \in Jobs, OnlyJob(j)
  PROVE  (Settled /\ ResultsSoFar /\ CovsSoFar /\ OutputLast)'
<1>1. Jobs' = Jobs /\ Collected' = Collected /\ j \notin Collected BY DEF Jobs, Collected, OnlyJob, Over
<1>2. Settled' BY <1>1 DEF AInv, Settled, OnlyJob
<1>3. \A k \in Collected : captured'[k] = captured[k] /\ (k \in failing' <=> k \in failing)
  BY <1>1 DEF Collected, OnlyJob
<1>4. \A n : Good(n)' = Good(n) BY <1>1, <1>3 DEF Good
<1>5. ResultsSoFar' BY <1>4 DEF AInv, ResultsSoFar, OnlyJob
<1>6. (Collected \ failing)' = Collected \ failing BY <1>1, <1>3
<1>7. Whole' = Whole
  <2>1. \A w : w \in Whole <=> \E k \in Collected \ failing : w \in {k} \X DOMAIN captured[k] BY DEF Whole
  <2>2. \A w : w \in Whole' <=> \E k \in (Collected \ failing)' : w \in {k} \X DOMAIN captured'[k] BY DEF Whole
  <2> QED BY <1>3, <1>6, <2>1, <2>2
<1>8. CovsSoFar'
  <2> SUFFICES ASSUME driver = "sweep" PROVE covs \in Seq(STRING) /\ (\E f : Listing(covs, Whole, f))'
    BY <1>7 DEF CovsSoFar, OnlyJob
  <2>1. PICK f : Listing(covs, Whole, f) BY DEF AInv, CovsSoFar
  <2>2. \A i \in DOMAIN covs : f[i] \in Whole BY <2>1 DEF Listing, Bijection, Injection, Surjection
  <2>3. \A i \in DOMAIN covs : f[i][1] \in Collected BY <2>2 DEF Whole
  <2>4. Listing(covs, Whole, f)' BY <1>3, <1>7, <2>1, <2>3 DEF Listing, OnlyJob
  <2> QED BY <2>4 DEF AInv, CovsSoFar
<1>9. OutputLast'
  <2>1. output = <<>> BY <1>1 DEF AInv, OutputLast
  <2> QED BY <2>1 DEF OutputLast, OnlyJob
<1> QED BY <1>2, <1>5, <1>8, <1>9

\* A listing goes on with what one more job captured.
LEMMA ListingGrows ==
  ASSUME NEW all \in Seq(STRING), NEW S, NEW f, Listing(all, S, f), NEW j,
         captured[j] \in Seq(STRING), \A w \in S : w[1] # j
  PROVE  \E g : Listing(all \o captured[j], S \cup ({j} \X DOMAIN captured[j]), g)
<1> DEFINE c == captured[j]
           new == {j} \X DOMAIN c
           more == all \o c
           g == [i \in DOMAIN more |-> IF i <= Len(all) THEN f[i] ELSE <<j, i - Len(all)>>]
<1>1. /\ Len(all) \in Nat /\ Len(c) \in Nat /\ DOMAIN all = 1..Len(all) /\ DOMAIN c = 1..Len(c)
      /\ DOMAIN more = 1..(Len(all) + Len(c))
      /\ \A i \in 1..Len(all) : more[i] = all[i]
      /\ \A i \in (Len(all)+1)..(Len(all) + Len(c)) : more[i] = c[i - Len(all)]
  OBVIOUS
<1> HIDE DEF more
<1>2. /\ DOMAIN f = DOMAIN all /\ \A i \in DOMAIN all : f[i] \in S
      /\ \A i, k \in DOMAIN all : f[i] = f[k] => i = k
      /\ \A w \in S : \E i \in DOMAIN all : f[i] = w
  BY DEF Listing, Bijection, Injection, Surjection, IsInjective
<1>3. \A i \in 1..Len(all) : i \in DOMAIN more /\ g[i] = f[i] BY <1>1
<1>4. \A i \in DOMAIN more \ 1..Len(all) : g[i] = <<j, i - Len(all)>> /\ i - Len(all) \in DOMAIN c BY <1>1
<1>5. \A k \in DOMAIN c : k + Len(all) \in DOMAIN more /\ k + Len(all) \notin 1..Len(all) BY <1>1
<1>6. DOMAIN g = DOMAIN more OBVIOUS
<1> HIDE DEF g
<1>7. \A i \in DOMAIN more : g[i] \in S \cup new
  <2>1. \A k \in DOMAIN c : <<j, k>> \in new OBVIOUS
  <2>2. \A i \in 1..Len(all) : g[i] \in S BY <1>1, <1>2, <1>3
  <2>3. \A i \in DOMAIN more \ 1..Len(all) : g[i] \in new BY <1>4, <2>1
  <2> HIDE DEF new
  <2> QED BY <2>2, <2>3
<1>8. ASSUME NEW i \in DOMAIN more, NEW k \in DOMAIN more, g[i] = g[k] PROVE i = k
  <2>1. CASE i \in 1..Len(all) /\ k \in 1..Len(all) BY <1>1, <1>2, <1>3, <1>8, <2>1
  <2>2. CASE i \notin 1..Len(all) /\ k \notin 1..Len(all)
    <3>1. i - Len(all) = k - Len(all) BY <1>4, <1>8, <2>2
    <3> QED BY <3>1, <1>1
  <2>3. CASE i \in 1..Len(all) /\ k \notin 1..Len(all)
    <3>1. g[i][1] # j BY <1>1, <1>2, <1>3, <2>3
    <3>2. g[k][1] = j BY <1>4, <2>3
    <3> QED BY <3>1, <3>2, <1>8
  <2>4. CASE i \notin 1..Len(all) /\ k \in 1..Len(all)
    <3>1. g[k][1] # j BY <1>1, <1>2, <1>3, <2>4
    <3>2. g[i][1] = j BY <1>4, <2>4
    <3> QED BY <3>1, <3>2, <1>8
  <2> QED BY <2>1, <2>2, <2>3, <2>4
<1>9. ASSUME NEW w \in S \cup new PROVE \E i \in DOMAIN more : g[i] = w
  <2>1. CASE w \in S BY <1>1, <1>2, <1>3, <2>1
  <2>2. CASE w \in new
    <3>1. PICK k \in DOMAIN c : w = <<j, k>> BY <2>2
    <3>2. (k + Len(all)) - Len(all) = k BY <1>1
    <3> QED BY <3>1, <3>2, <1>4, <1>5
  <2> QED BY <2>1, <2>2
<1>10. g \in Bijection(DOMAIN more, S \cup new)
  BY <1>6, <1>7, <1>8, <1>9 DEF Bijection, Injection, Surjection, IsInjective, g
<1>11. \A i \in DOMAIN more : more[i] = captured[g[i][1]][g[i][2]]
  BY <1>1, <1>3, <1>4 DEF Listing
<1> QED BY <1>10, <1>11 DEF Listing, more

LEMMA CollectAnswers ==
  ASSUME AInv, NEW j \in Jobs, Collect(j)
  PROVE  (Settled /\ ResultsSoFar /\ CovsSoFar /\ OutputLast)'
<1>1. /\ j \in DOMAIN Names /\ Jobs \subseteq DOMAIN Names /\ DOMAIN stage = DOMAIN Names
  BY JobsInNames DEF AInv, IInv, Typed
<1>2. Jobs' = Jobs /\ Collected' = Collected \cup {j} /\ j \notin Collected
  BY <1>1 DEF Jobs, Collected, Collect, Go
<1>3. stage[j] = "returned" <=> j \notin failing BY DEF AInv, Settled, Collect, Over
<1>4. Settled' BY <1>1, <1>2 DEF AInv, Settled, Collect, Go
<1>5. ResultsSoFar'
  <2> SUFFICES ASSUME driver = "probe" 
               PROVE /\ DOMAIN results' = Range(Names)
                     /\ \A n \in Range(Names) : IF Good(n)' = {} THEN results'[n] = 0 ELSE results'[n] \in Good(n)'
    BY DEF ResultsSoFar, Collect
  <2>1. \A n : Good(n)' = Good(n) \cup (IF j \in failing \/ Names[j] # n THEN {} ELSE {j})
    BY <1>2 DEF Good, Collect
  <2>2. results' = IF j \notin failing THEN [results EXCEPT ![Names[j]] = j] ELSE results
    BY <1>3 DEF Collect, Recorded
  <2> QED BY <2>1, <2>2 DEF AInv, ResultsSoFar
<1>6. CovsSoFar'
  <2> SUFFICES ASSUME driver = "sweep" PROVE covs' \in Seq(STRING) /\ (\E f : Listing(covs, Whole, f))'
    BY DEF CovsSoFar, Collect
  <2>1. covs \in Seq(STRING) /\ captured[j] \in Seq(STRING) /\ captured' = captured
    BY DEF AInv, CovsSoFar, Settled, Collect
  <2>2. PICK f : Listing(covs, Whole, f) BY DEF AInv, CovsSoFar
  <2>3. Whole' = Whole \cup UNION {{k} \X DOMAIN captured[k] : k \in {j} \ failing}
    BY <1>2 DEF Whole, Collect
  <2>4. CASE j \in failing
    <3>1. covs' = covs /\ Whole' = Whole BY <1>3, <2>3, <2>4 DEF Collect, Extended
    <3> QED BY <2>1, <2>2, <3>1 DEF Listing
  <2>5. CASE j \notin failing
    <3>1. covs' = covs \o captured[j] /\ Whole' = Whole \cup ({j} \X DOMAIN captured[j])
      BY <1>3, <2>3, <2>5 DEF Collect, Extended
    <3>2. \A w \in Whole : w[1] # j BY <1>2 DEF Whole
    <3>3. \E g : Listing(covs', Whole', g) BY <2>1, <2>2, <3>1, <3>2, ListingGrows
    <3> QED BY <2>1, <3>1, <3>3 DEF Listing
  <2> QED BY <2>4, <2>5
<1>7. OutputLast'
  <2>1. output = <<>> BY <1>2 DEF AInv, OutputLast
  <2> QED BY <2>1 DEF OutputLast, Collect
<1> QED BY <1>4, <1>5, <1>6, <1>7

LEMMA AnswersKept == AInv /\ [Next]_vars => AInv'
<1> SUFFICES ASSUME AInv, [Next]_vars PROVE AInv' OBVIOUS
<1>1. IInv' BY Keeps DEF AInv
<1>2. ASSUME NEW j \in Jobs, SessionStep(j) PROVE (Settled /\ ResultsSoFar /\ CovsSoFar /\ OutputLast)'
  BY <1>2, SessionOnlyJob, OnlyJobKeeps DEF AInv
<1>3. ASSUME NEW j \in Jobs, Collect(j) PROVE (Settled /\ ResultsSoFar /\ CovsSoFar /\ OutputLast)'
  BY <1>3, CollectAnswers
<1>4. ASSUME UNCHANGED <<driver, stage, todo, captured, failing, covs, results>>
      PROVE  (Settled /\ ResultsSoFar /\ CovsSoFar)'
  <2>1. Jobs' = Jobs /\ Collected' = Collected BY <1>4 DEF Jobs, Collected
  <2> QED BY <1>4, <2>1 DEF AInv, Settled, ResultsSoFar, CovsSoFar, Good, Whole, Listing
<1>5. CASE Write
  <2>1. UNCHANGED <<driver, stage, todo, captured, failing, covs, results>>
    BY <1>5 DEF Write, sessionVars
  <2>2. Collected' = Jobs' BY <1>5, <2>1 DEF Write, Collected, Jobs
  <2>3. driver = "probe" => output' = <<results'>> BY <1>5, <2>1 DEF Write
  <2>4. driver = "sweep" => output' = <<Aggregated(covs)>> BY <1>5 DEF Write
  <2>5. OutputLast' BY <2>1, <2>2, <2>3, <2>4 DEF OutputLast
  <2>6. (Settled /\ ResultsSoFar /\ CovsSoFar)' BY <1>4, <2>1
  <2> QED BY <1>1, <2>5, <2>6 DEF AInv
<1>6. CASE UNCHANGED vars
  <2>1. UNCHANGED <<driver, stage, todo, captured, failing, covs, results, output>>
    BY <1>6 DEF vars, sessionVars
  <2>2. OutputLast' BY <2>1 DEF AInv, OutputLast, Collected, Jobs
  <2>3. (Settled /\ ResultsSoFar /\ CovsSoFar)' BY <1>4, <2>1
  <2> QED BY <1>1, <2>2, <2>3 DEF AInv
<1> QED BY <1>1, <1>2, <1>3, <1>5, <1>6 DEF Next, AInv

LEMMA AnswersInductive == Spec => []AInv
BY InitHolds, AnswersInit, AnswersKept, PTL DEF Spec, AInv

LEMMA ResultsFollow == AInv => ResultsKept
<1> SUFFICES ASSUME AInv, driver = "probe", output # <<>>, NEW n \in Range(Names)
             PROVE  LET good == {j \in Jobs \ failing : Names[j] = n}
                    IN IF good = {} THEN output[1][n] = 0 ELSE output[1][n] \in good
  BY DEF ResultsKept
<1>1. output[1] = results /\ Collected = Jobs BY DEF AInv, OutputLast
<1>2. {j \in Jobs \ failing : Names[j] = n} = Good(n) BY <1>1 DEF Good
<1> QED BY <1>1, <1>2 DEF AInv, ResultsSoFar

\* Selecting the captures in a listing and in what it lists counts the same.
LEMMA ListingCounts ==
  ASSUME NEW all \in Seq(STRING), NEW S, NEW f, Listing(all, S, f)
  PROVE  /\ Cardinality(S) = Len(all)
         /\ \A T : Cardinality({i \in DOMAIN all : all[i] \in T})
                    = Cardinality({w \in S : captured[w[1]][w[2]] \in T})
<1>1. DOMAIN all = 1..Len(all) /\ Len(all) \in Nat OBVIOUS
<1>2. IsFiniteSet(DOMAIN all) /\ Cardinality(DOMAIN all) = Len(all) BY <1>1, FS_Interval
<1>3. /\ f \in [DOMAIN all -> S]
      /\ \A i, k \in DOMAIN all : f[i] = f[k] => i = k
      /\ \A w \in S : \E i \in DOMAIN all : f[i] = w
  BY DEF Listing, Bijection, Injection, Surjection, IsInjective
<1>4. Cardinality(S) = Len(all)
  BY <1>2, FS_Bijection DEF Listing, ExistsBijection
<1> SUFFICES ASSUME NEW T
             PROVE Cardinality({i \in DOMAIN all : all[i] \in T})
                     = Cardinality({w \in S : captured[w[1]][w[2]] \in T})
  BY <1>4
<1> DEFINE A == {i \in DOMAIN all : all[i] \in T}
           B == {w \in S : captured[w[1]][w[2]] \in T}
           g == [i \in A |-> f[i]]
<1>5. IsFiniteSet(A) BY <1>2, FS_Subset
<1>6. \A i \in A : f[i] \in B BY <1>3 DEF Listing
<1>7. \A w \in B : \E i \in A : f[i] = w BY <1>3 DEF Listing
<1>8. A \subseteq DOMAIN all OBVIOUS
<1> HIDE DEF A, B
<1>9. g \in Bijection(A, B) BY <1>3, <1>6, <1>7, <1>8 DEF Bijection, Injection, Surjection, IsInjective
<1>10. Cardinality(A) = Cardinality(B) BY <1>5, <1>9, FS_Bijection DEF ExistsBijection
<1> QED BY <1>10 DEF A, B

LEMMA TunesFollow == AInv => TunesWhole
<1> SUFFICES ASSUME AInv, driver = "sweep", output # <<>> PROVE TunesWhole
  BY DEF TunesWhole
<1>1. output[1] = Aggregated(covs) /\ Collected = Jobs BY DEF AInv, OutputLast
<1>2. UNION {{j} \X DOMAIN captured[j] : j \in Jobs \ failing} = Whole BY <1>1 DEF Whole
<1>3. PICK f : covs \in Seq(STRING) /\ Listing(covs, Whole, f)
  BY DEF AInv, CovsSoFar
<1>4. output[1].action_count = Cardinality(Whole) BY <1>1, <1>3, ListingCounts DEF Aggregated
<1>5. ASSUME NEW pc \in UNION Range(Pcs)
      PROVE  Occurrences(covs)[pc] = Cardinality({w \in Whole : pc \in Pcs[captured[w[1]][w[2]]]})
  <2> DEFINE A == {i \in DOMAIN covs : pc \in Pcs[covs[i]]}
             B == {w \in Whole : pc \in Pcs[captured[w[1]][w[2]]]}
             T == {covs[i] : i \in A}
  <2>1. A = {i \in DOMAIN covs : covs[i] \in T} OBVIOUS
  <2>2. B = {w \in Whole : captured[w[1]][w[2]] \in T}
    BY <1>3 DEF Listing, Bijection, Injection, Surjection
  <2>3. Cardinality({i \in DOMAIN covs : covs[i] \in T}) = Cardinality({w \in Whole : captured[w[1]][w[2]] \in T})
    <3>1. \A t : Cardinality({i \in DOMAIN covs : covs[i] \in t}) = Cardinality({w \in Whole : captured[w[1]][w[2]] \in t})
      BY <1>3, ListingCounts
    <3> QED BY <3>1, Zenon
  <2> QED BY <2>1, <2>2, <2>3 DEF Occurrences
<1>6. output[1].occurrences = Occurrences(covs) /\ DOMAIN Occurrences(covs) = UNION Range(Pcs)
  BY <1>1 DEF Aggregated, Occurrences
<1> QED BY <1>2, <1>4, <1>5, <1>6 DEF TunesWhole

\* Whatever fails, a tune counts with all it captured or not at all, and every
\* capture counts once for every address it executed.
THEOREM TunesCountWhole == Spec => []TunesWhole
BY AnswersInductive, TunesFollow, PTL

\* The pool returns a result for every name with a tune that returned, made by
\* one of these tunes, whatever the order in which the workers complete.
THEOREM ResultsAllKept == Spec => []ResultsKept
BY AnswersInductive, ResultsFollow, PTL

(***************************************************************************)
(* FetchStatic: the disk images, for any number of runs and interruptions. *)
(* SweepInv says what the shared .zip may hold and who has it open; RunInv *)
(* what fetch_static has established when it is at a stage, unless         *)
(* something excuses a failure.                                            *)
(***************************************************************************)

\* The sweep has the .zip open for writing.
Writing == sweepAt = "zip write" /\ sweepHeld # "absent"

Shape ==
  /\ upstream \in {"good", "bad"} /\ stored \in [Files -> Contents]
  /\ fetchHeld \in Contents /\ culprits \subseteq {"exomizer", "overlap"} /\ crashes \in Nat

SweepInv ==
  /\ stored["zip"] \in {"absent", "partial", upstream}
  /\ Writing => sweepHeld = upstream /\ stored["zip"] # "absent"
  /\ fetchAt = "zip write" => fetchHeld = upstream
  /\ sweepAt = "write" => sweepHeld = upstream
  /\ crashes = 0 =>
       /\ sweepAt # "write" => stored["withtunes"] \in {"absent", upstream}
       /\ sweepAt = "boot" => stored["withtunes"] = upstream

\* What excuses a failure from outside the run, and altogether.
Disturbed == upstream = "bad" \/ culprits # {}
Excused ==
  \/ Disturbed
  \/ /\ ~forced
     /\ \/ before["zip"] = "partial" \/ before["packed"] = "partial"
        \/ before["prg"] \in {"partial", "bad"}

From1 == <<"zip", "d64", "packed", "prg", "bin">>
From2 == <<"d64", "packed", "prg", "bin">>
From3 == <<"packed", "prg", "bin">>
From4 == <<"prg", "bin">>
From5 == <<"bin">>

\* --force has got so far, and what it has unlinked is gone.
Unlinking ==
  fetchAt = "unlink" =>
    /\ forced /\ unlinking \in {From1, From2, From3, From4, From5}
    /\ unlinking # From1 => stored["zip"] = "absent" \/ Disturbed
    /\ unlinking \in {From4, From5} => stored["packed"] = "absent"
    /\ unlinking = From5 => stored["prg"] = "absent"

Unlinked ==
  fetchAt = "check" /\ forced =>
    /\ stored["zip"] = "absent" \/ Disturbed
    /\ stored["packed"] = "absent" /\ stored["prg"] = "absent"

\* The stages up to the packed program, and those that come after the disk.
Early == {"zip", "zip open", "zip write", "d64", "d64 write", "packed"}
Later == {"packed", "packed write", "desfx", "exomizer", "flatten", "bin write"}

\* The disk is checked against its sha, so the packed program is never wrong.
Checked ==
  /\ fetchAt \in Later => stored["d64"] = "good"
  /\ fetchAt = "packed write" => fetchHeld = "good"
  /\ stored["packed"] # "bad"

\* Unless excused, a run past its first check has good files before it.
Sound ==
  ~Excused =>
    /\ fetchAt = "zip" => stored["zip"] # "partial"
    /\ fetchAt = "zip open" => stored["zip"] = "absent"
    /\ fetchAt = "zip write" => ~Writing
    /\ fetchAt = "d64" => stored["zip"] = "good"
    /\ fetchAt = "d64 write" => fetchHeld = "good"
    /\ fetchAt \in Early => stored["packed"] # "partial"
    /\ fetchAt = "desfx" => stored["packed"] = "good"
    /\ fetchAt \in Early \cup {"packed write", "desfx"} => stored["prg"] \in {"absent", "good"}
    /\ fetchAt = "exomizer" => fetchHeld = "good"
    /\ fetchAt = "flatten" => stored["prg"] = "good"
    /\ fetchAt = "bin write" => fetchHeld = "good"

Exits ==
  /\ fetchAt # "idle" => fetchExit = "none"
  /\ fetchExit = "ok" => stored["bin"] = "good"
  /\ fetchExit = "failed" => Excused

RunInv == Unlinking /\ Unlinked /\ Checked /\ Sound /\ Exits
FetchIInv == Shape /\ SweepInv /\ RunInv

-------------------------------------------------------------------------------

\* A step of the run leaves what excuses it.
LEMMA StaysExcused ==
  ASSUME Shape, UNCHANGED <<upstream, forced, before>>, culprits \subseteq culprits'
  PROVE  (Disturbed => Disturbed') /\ (Excused => Excused')
BY DEF Shape, Disturbed, Excused

\* Each stage of a run.
LEMMA FetchKeepsIInv ==
  ASSUME FetchIInv, Fetch  PROVE FetchIInv'
<1>0. /\ UNCHANGED <<upstream, sweepAt, forced, crashes>> /\ fetchAt # "idle"
      /\ stored["zip"] \in Contents /\ stored["d64"] \in Contents
      /\ stored["packed"] \in Contents /\ stored["prg"] \in Contents
  BY DEF Fetch, Fetching, Unlink, CheckBin, FetchZip, OpenZip, ZipWritten, ExtractD64, D64Written,
    ExtractPacked, PackedWritten, RunDesfx, ExomizerSucceeds, ExomizerFails, Flatten, BinWritten,
    FetchIInv, Shape, Files
<1> USE <1>0
<1>1. CASE Unlink
  <2>1. /\ fetchAt = "unlink" /\ Store(Head(unlinking), "absent") /\ unlinking' = Tail(unlinking)
        /\ fetchAt' = (IF Len(unlinking) = 1 THEN "check" ELSE "unlink") /\ UNCHANGED fetchExit
        /\ sweepHeld' = IF Head(unlinking) = "zip" /\ sweepAt = "zip write"
                           THEN "absent" ELSE sweepHeld
        /\ UNCHANGED <<fetchHeld, before, culprits>>
    BY <1>1 DEF Unlink, Fetching, Goto
  <2>2. Excused' = Excused /\ Disturbed' = Disturbed  BY <2>1 DEF Excused, Disturbed
  <2>3. \/ unlinking = From1 /\ Head(unlinking) = "zip" /\ unlinking' = From2 /\ fetchAt' = "unlink"
        \/ unlinking = From2 /\ Head(unlinking) = "d64" /\ unlinking' = From3 /\ fetchAt' = "unlink"
        \/ unlinking = From3 /\ Head(unlinking) = "packed" /\ unlinking' = From4 /\ fetchAt' = "unlink"
        \/ unlinking = From4 /\ Head(unlinking) = "prg" /\ unlinking' = From5 /\ fetchAt' = "unlink"
        \/ unlinking = From5 /\ Head(unlinking) = "bin" /\ fetchAt' = "check"
    <3>1. unlinking \in {From1, From2, From3, From4, From5}
      BY <2>1 DEF FetchIInv, RunInv, Unlinking
    <3>2. /\ Head(From1) = "zip" /\ Tail(From1) = From2 /\ Len(From1) # 1
          /\ Head(From2) = "d64" /\ Tail(From2) = From3 /\ Len(From2) # 1
          /\ Head(From3) = "packed" /\ Tail(From3) = From4 /\ Len(From3) # 1
          /\ Head(From4) = "prg" /\ Tail(From4) = From5 /\ Len(From4) # 1
          /\ Head(From5) = "bin" /\ Len(From5) = 1
      BY DEF From1, From2, From3, From4, From5
    <3>5. CASE unlinking = From1  BY <2>1, <3>2, <3>5
    <3>6. CASE unlinking = From2  BY <2>1, <3>2, <3>6
    <3>7. CASE unlinking = From3  BY <2>1, <3>2, <3>7
    <3>8. CASE unlinking = From4  BY <2>1, <3>2, <3>8
    <3>9. CASE unlinking = From5  BY <2>1, <3>2, <3>9
    <3> QED  BY <3>1, <3>5, <3>6, <3>7, <3>8, <3>9
  <2>4. /\ stored' = [stored EXCEPT ![Head(unlinking)] = "absent"] /\ Head(unlinking) \in Files
        /\ fetchExit' = "none"
    BY <2>1, <2>3 DEF Store, Files, Goto, FetchIInv, RunInv, Exits
  <2>5. Shape' /\ SweepInv'
    BY <2>1, <2>2, <2>3, <2>4 DEF FetchIInv, Shape, SweepInv, Writing, Files, Contents
  <2>6. Checked' /\ Sound' /\ Exits'
    BY <2>1, <2>2, <2>3, <2>4 DEF FetchIInv, Shape, RunInv, Checked, Sound, Exits, Later, Early,
      Files, Contents
  <2>7. /\ From1 # From2 /\ From1 # From3 /\ From1 # From4 /\ From1 # From5 /\ From2 # From4
        /\ From2 # From5 /\ From3 # From4 /\ From3 # From5 /\ From4 # From5
    BY DEF From1, From2, From3, From4, From5
  <2>8. Unlinking' /\ Unlinked'
    BY <2>1, <2>2, <2>3, <2>4, <2>7 DEF FetchIInv, Shape, RunInv, Unlinking, Unlinked, Files
  <2> QED  BY <2>5, <2>6, <2>8 DEF FetchIInv, RunInv
<1>2. CASE CheckBin
  <2>1. /\ fetchAt = "check" /\ before' = stored /\ UNCHANGED <<stored, fetchHeld, sweepHeld, culprits>>
        /\ \/ stored["bin"] = "good" /\ fetchAt' = "idle" /\ fetchExit' = "ok"
           \/ fetchAt' = "zip" /\ fetchExit' = "none"
    BY <1>2 DEF CheckBin, Fetching, Goto, Leave, FetchIInv, RunInv, Exits
  <2>2. Disturbed' = Disturbed  BY <2>1 DEF Disturbed
  <2>3. ~Excused' => /\ ~Disturbed /\ stored["zip"] # "partial" /\ stored["packed"] # "partial"
                     /\ stored["prg"] \in {"absent", "good"}
    BY <2>1, <2>2 DEF Excused, FetchIInv, Shape, RunInv, Unlinked, Files, Contents
  <2> QED
    BY <2>1, <2>3 DEF FetchIInv, Shape, SweepInv, Writing, RunInv, Unlinking, Unlinked, Checked,
      Sound,
      Exits, Later, Early
<1>3. ASSUME UNCHANGED before, culprits \subseteq culprits', fetchAt # "check", fetchAt # "unlink"
      PROVE  /\ Disturbed => Disturbed' 
             /\ Excused => Excused'
  BY <1>3, StaysExcused DEF FetchIInv
<1>4. CASE FetchZip
  <2>1. /\ UNCHANGED <<before, culprits, sweepHeld, stored, fetchHeld, fetchExit>>
        /\ fetchAt = "zip" /\ fetchAt' = IF stored["zip"] = "absent" THEN "zip open" ELSE "d64"
    BY <1>4 DEF FetchZip, Fetching, Goto, Missing
  <2> QED
    BY <2>1, <1>3 DEF FetchIInv, Shape, SweepInv, RunInv, Unlinking, Unlinked, Checked, Sound,
      Exits,
      Writing, Later, Early, Excused, Disturbed
<1>5. CASE OpenZip
  <2>1. /\ UNCHANGED <<before, culprits, sweepHeld, fetchExit>> /\ fetchHeld' = upstream
        /\ fetchAt = "zip open" /\ fetchAt' = "zip write" /\ stored' = [stored EXCEPT !["zip"] = "partial"]
    BY <1>5 DEF OpenZip, Fetching, Goto, BeginWrite, Store
  <2> QED
    BY <2>1, <1>3 DEF FetchIInv, Shape, SweepInv, RunInv, Unlinking, Unlinked, Checked, Sound,
      Exits,
      Writing, Later, Early, Excused, Disturbed, Files, Contents
<1>6. CASE ZipWritten
  <2>1. /\ UNCHANGED <<before, culprits, sweepHeld, fetchExit, fetchHeld>> /\ fetchAt = "zip write" /\ fetchAt' = "d64"
    BY <1>6 DEF ZipWritten, Fetching, Goto
  <2>2. PICK c \in ZipBytes(fetchHeld, sweepAt = "zip write" /\ sweepHeld # "absent") :
          stored' = [stored EXCEPT !["zip"] = c]
    BY <1>6 DEF ZipWritten, Store
  <2>3. c = upstream \/ (Writing /\ c = "partial")
    BY <2>1, <2>2 DEF ZipBytes, Writing, FetchIInv, SweepInv
  <2> QED
    BY <2>1, <2>2, <2>3, <1>3 DEF FetchIInv, Shape, SweepInv, RunInv, Unlinking, Unlinked, Checked,
      Sound,
      Exits, Writing, Later, Early, Excused, Disturbed, Files, Contents
<1>7. CASE ExtractD64
  <2>1. /\ UNCHANGED <<before, culprits, sweepHeld>> /\ fetchAt = "d64"
        /\ \/ stored["d64"] = "good" /\ fetchAt' = "packed" /\ UNCHANGED <<stored, fetchHeld, fetchExit>>
           \/ stored["zip"] = "partial" /\ fetchAt' = "idle" /\ fetchExit' = "failed" /\ UNCHANGED <<stored, fetchHeld>>
           \/ /\ stored' = [stored EXCEPT !["d64"] = "partial"] /\ fetchHeld' = stored["zip"]
              /\ fetchAt' = "d64 write" /\ UNCHANGED fetchExit
    BY <1>7 DEF ExtractD64, Fetching, Goto, Leave, BeginWrite, Store
  <2>2. Shape' /\ SweepInv'
    BY <2>1 DEF FetchIInv, Shape, SweepInv, Writing, RunInv, Checked, Files, Contents
  <2>3. Excused => Excused'  BY <1>3, <2>1
  <2>4. RunInv'
    BY <2>1, <2>3 DEF FetchIInv, Shape, SweepInv, Writing, RunInv, Unlinking, Unlinked, Checked,
      Sound,
      Exits, Later, Early, Files, Contents
  <2> QED  BY <2>2, <2>4 DEF FetchIInv
<1>8. CASE D64Written
  <2>1. /\ UNCHANGED <<before, culprits, sweepHeld, fetchHeld>> /\ fetchAt = "d64 write"
        /\ stored' = [stored EXCEPT !["d64"] = fetchHeld]
        /\ \/ fetchHeld = "good" /\ fetchAt' = "packed" /\ UNCHANGED fetchExit
           \/ fetchHeld # "good" /\ fetchAt' = "idle" /\ fetchExit' = "failed"
    BY <1>8 DEF D64Written, Fetching, Goto, Leave, Store
  <2>2. Shape' /\ SweepInv'
    BY <2>1 DEF FetchIInv, Shape, SweepInv, Writing, RunInv, Checked, Files, Contents
  <2>3. Excused => Excused'  BY <1>3, <2>1
  <2>4. RunInv'
    BY <2>1, <2>3 DEF FetchIInv, Shape, SweepInv, Writing, RunInv, Unlinking, Unlinked, Checked,
      Sound,
      Exits, Later, Early, Files, Contents
  <2> QED  BY <2>2, <2>4 DEF FetchIInv
<1>9. CASE ExtractPacked
  <2>1. /\ UNCHANGED <<before, culprits, sweepHeld, fetchExit>> /\ fetchAt = "packed"
        /\ \/ /\ stored["packed"] = "absent" /\ stored' = [stored EXCEPT !["packed"] = "partial"]
              /\ fetchHeld' = stored["d64"] /\ fetchAt' = "packed write"
           \/ stored["packed"] # "absent" /\ fetchAt' = "desfx" /\ UNCHANGED <<stored, fetchHeld>>
    BY <1>9 DEF ExtractPacked, Fetching, Goto, BeginWrite, Store, Missing
  <2>2. Shape' /\ SweepInv'
    BY <2>1 DEF FetchIInv, Shape, SweepInv, Writing, RunInv, Checked, Files, Contents
  <2>3. Excused => Excused'  BY <1>3, <2>1
  <2>4. RunInv'
    BY <2>1, <2>3 DEF FetchIInv, Shape, SweepInv, Writing, RunInv, Unlinking, Unlinked, Checked,
      Sound,
      Exits, Later, Early, Files, Contents
  <2> QED  BY <2>2, <2>4 DEF FetchIInv
<1>10. CASE PackedWritten
  <2>1. /\ UNCHANGED <<before, culprits, sweepHeld, fetchHeld, fetchExit>> /\ fetchAt = "packed write" /\ fetchAt' = "desfx"
        /\ stored' = [stored EXCEPT !["packed"] = fetchHeld]
    BY <1>10 DEF PackedWritten, Fetching, Goto, Store
  <2>2. Shape' /\ SweepInv'
    BY <2>1 DEF FetchIInv, Shape, SweepInv, Writing, RunInv, Checked, Files, Contents
  <2>3. Excused => Excused'  BY <1>3, <2>1
  <2>4. RunInv'
    BY <2>1, <2>3 DEF FetchIInv, Shape, SweepInv, Writing, RunInv, Unlinking, Unlinked, Checked,
      Sound,
      Exits, Later, Early, Files, Contents
  <2> QED  BY <2>2, <2>4 DEF FetchIInv
<1>11. CASE RunDesfx
  <2>1. /\ UNCHANGED <<before, culprits, sweepHeld, fetchExit>> /\ fetchAt = "desfx"
        /\ \/ /\ stored["prg"] = "absent" /\ stored' = [stored EXCEPT !["prg"] = "partial"]
              /\ fetchHeld' = stored["packed"] /\ fetchAt' = "exomizer"
           \/ stored["prg"] # "absent" /\ fetchAt' = "flatten" /\ UNCHANGED <<stored, fetchHeld>>
    BY <1>11 DEF RunDesfx, Fetching, Goto, BeginWrite, Store, Missing
  <2>2. Shape' /\ SweepInv'
    BY <2>1 DEF FetchIInv, Shape, SweepInv, Writing, RunInv, Checked, Files, Contents
  <2>3. Excused => Excused'  BY <1>3, <2>1
  <2>4. RunInv'
    BY <2>1, <2>3 DEF FetchIInv, Shape, SweepInv, Writing, RunInv, Unlinking, Unlinked, Checked,
      Sound,
      Exits, Later, Early, Files, Contents
  <2> QED  BY <2>2, <2>4 DEF FetchIInv
<1>12. CASE ExomizerSucceeds
  <2>1. /\ UNCHANGED <<before, culprits, sweepHeld, fetchHeld, fetchExit>> /\ fetchAt = "exomizer" /\ fetchAt' = "flatten"
        /\ stored' = [stored EXCEPT !["prg"] = IF fetchHeld = "good" THEN "good" ELSE "bad"]
    BY <1>12 DEF ExomizerSucceeds, Fetching, Goto, Store
  <2>2. Shape' /\ SweepInv'
    BY <2>1 DEF FetchIInv, Shape, SweepInv, Writing, RunInv, Checked, Files, Contents
  <2>3. Excused => Excused'  BY <1>3, <2>1
  <2>4. RunInv'
    BY <2>1, <2>3 DEF FetchIInv, Shape, SweepInv, Writing, RunInv, Unlinking, Unlinked, Checked,
      Sound,
      Exits, Later, Early, Files, Contents
  <2> QED  BY <2>2, <2>4 DEF FetchIInv
<1>13. CASE ExomizerFails
  <2>1. /\ UNCHANGED <<before, sweepHeld, fetchHeld>> /\ fetchAt = "exomizer" /\ fetchAt' = "idle" /\ fetchExit' = "failed"
        /\ \E c \in {"absent", "partial"} : stored' = [stored EXCEPT !["prg"] = c]
        /\ culprits' = culprits \cup (IF fetchHeld = "good" THEN {"exomizer"} ELSE {})
    BY <1>13 DEF ExomizerFails, Fetching, Leave, Store
  <2>2. Excused'  BY <2>1, <1>3 DEF FetchIInv, RunInv, Sound, Excused, Disturbed
  <2>3. Shape'
    BY <2>1 DEF FetchIInv, Shape, Files, Contents
  <2>4. stored'["zip"] = stored["zip"] /\ stored'["withtunes"] = stored["withtunes"]
        /\ stored'["d64"] = stored["d64"] /\ stored'["packed"] = stored["packed"] /\ stored'["bin"] = stored["bin"]
    BY <2>1 DEF FetchIInv, Shape, Files
  <2>5. SweepInv'  BY <2>1, <2>4 DEF FetchIInv, SweepInv, Writing
  <2>6. RunInv'
    BY <2>1, <2>2, <2>4 DEF FetchIInv, RunInv, Unlinking, Unlinked, Checked, Sound, Exits, Later,
      Early
  <2> QED  BY <2>3, <2>5, <2>6 DEF FetchIInv
<1>14. CASE Flatten
  <2>1. /\ UNCHANGED <<before, culprits, sweepHeld>> /\ fetchAt = "flatten"
        /\ \/ /\ stored' = [stored EXCEPT !["bin"] = "partial"] /\ UNCHANGED fetchExit
              /\ fetchHeld' = (IF stored["prg"] = "good" THEN "good" ELSE "bad") /\ fetchAt' = "bin write"
           \/ stored["prg"] # "good" /\ fetchAt' = "idle" /\ fetchExit' = "failed" /\ UNCHANGED <<stored, fetchHeld>>
    BY <1>14 DEF Flatten, Fetching, Goto, Leave, BeginWrite, Store
  <2>2. Shape' /\ SweepInv'
    BY <2>1 DEF FetchIInv, Shape, SweepInv, Writing, RunInv, Checked, Files, Contents
  <2>3. Excused => Excused'  BY <1>3, <2>1
  <2>4. RunInv'
    BY <2>1, <2>3 DEF FetchIInv, Shape, SweepInv, Writing, RunInv, Unlinking, Unlinked, Checked,
      Sound,
      Exits, Later, Early, Files, Contents
  <2> QED  BY <2>2, <2>4 DEF FetchIInv
<1>15. CASE BinWritten
  <2>1. /\ UNCHANGED <<before, culprits, sweepHeld, fetchHeld>> /\ fetchAt = "bin write" /\ fetchAt' = "idle"
        /\ stored' = [stored EXCEPT !["bin"] = fetchHeld]
        /\ fetchExit' = IF fetchHeld = "good" THEN "ok" ELSE "failed"
    BY <1>15 DEF BinWritten, Fetching, Leave, Store
  <2>2. Shape' /\ SweepInv'
    BY <2>1 DEF FetchIInv, Shape, SweepInv, Writing, RunInv, Checked, Files, Contents
  <2>3. Excused => Excused'  BY <1>3, <2>1
  <2>4. RunInv'
    BY <2>1, <2>3 DEF FetchIInv, Shape, SweepInv, Writing, RunInv, Unlinking, Unlinked, Checked,
      Sound,
      Exits, Later, Early, Files, Contents
  <2> QED  BY <2>2, <2>4 DEF FetchIInv
<1> QED
  BY <1>1, <1>2, <1>4, <1>5, <1>6, <1>7, <1>8, <1>9, <1>10, <1>11, <1>12, <1>13, <1>14, <1>15 DEF
    Fetch

\* The sweep, and what ends or starts a run.
LEMMA RestKeepsIInv ==
  ASSUME FetchIInv, (\E force \in BOOLEAN : Start(force)) \/ Crash \/ SweepStart \/ Sweep \/ SweepCrash
               \/ UNCHANGED filesVars
  PROVE  FetchIInv'
<1>0. crashes + 1 \in Nat /\ crashes + 1 # 0 /\ crashes + 1 # crashes  BY DEF FetchIInv, Shape
<1>1. ASSUME NEW force \in BOOLEAN, Start(force)  PROVE FetchIInv'
  <2>1. /\ fetchAt' = (IF force THEN "unlink" ELSE "check") /\ fetchExit' = "none" /\ forced' = force /\ culprits' = {}
        /\ unlinking' = (IF force THEN From1 ELSE <<>>) /\ fetchAt = "idle"
        /\ UNCHANGED <<upstream, stored, fetchHeld, sweepAt, sweepHeld, crashes, before>>
    BY <1>1 DEF Start, ForceOrder, From1, sweepVars
  <2>2. From1 # From4 /\ From1 # From5  BY DEF From1, From4, From5
  <2> QED
    BY <2>1, <2>2 DEF FetchIInv, Shape, SweepInv, RunInv, Unlinking, Unlinked, Checked, Sound,
      Exits,
      Writing, Later, Early
<1>2. CASE Crash
  <2>1. /\ fetchAt' = "idle" /\ fetchExit' = "crashed" /\ crashes' = crashes + 1
        /\ UNCHANGED <<upstream, stored, fetchHeld, sweepAt, sweepHeld, forced, before, culprits>>
    BY <1>2 DEF Crash, Leave, sweepVars
  <2> QED
    BY <1>0, <2>1 DEF FetchIInv, Shape, SweepInv, RunInv, Unlinking, Unlinked, Checked, Sound,
      Exits,
      Writing, Later, Early
<1>3. ASSUME UNCHANGED <<upstream, fetchAt, fetchHeld, unlinking, fetchExit, forced, before>>,
             culprits' = culprits \/ culprits' = culprits \cup {"overlap"},
             \/ UNCHANGED stored
             \/ \E c \in Contents : stored' = [stored EXCEPT !["withtunes"] = c]
             \/ stored' = [stored EXCEPT !["zip"] = "partial"] /\ "overlap" \in culprits'
             \/ /\ Writing
                /\ \E c \in ZipBytes(sweepHeld, fetchAt = "zip write") : stored' = [stored EXCEPT !["zip"] = c],
             Writing' => Writing \/ "overlap" \in culprits', crashes' \in Nat, SweepInv'
      PROVE  FetchIInv'
  <2>1. (Disturbed => Disturbed') /\ (Excused => Excused')
    BY <1>3, StaysExcused DEF FetchIInv
  <2>2. Shape'
    <3>1. Writing => ZipBytes(sweepHeld, fetchAt = "zip write") \subseteq Contents
      BY DEF FetchIInv, Shape, SweepInv, ZipBytes, Contents
    <3>2. stored' = stored \/ \E f \in Files : \E c \in Contents : stored' = [stored EXCEPT ![f] = c]
      BY <1>3, <3>1 DEF Files, Contents
    <3>3. stored' \in [Files -> Contents]  BY <3>2 DEF FetchIInv, Shape
    <3> QED  BY <1>3, <3>3 DEF FetchIInv, Shape
  <2>3. "overlap" \in culprits' => Disturbed' /\ Excused'  BY DEF Disturbed, Excused
  <2>4. \A f \in Files \ {"zip", "withtunes"} : stored'[f] = stored[f]
    BY <1>3 DEF FetchIInv, Shape, Files
  <2>5. stored["zip"] = "absent" => stored'["zip"] = "absent" \/ Disturbed'
    BY <1>3, <2>3 DEF FetchIInv, SweepInv, Shape, Files
  <2>6. Unlinking' /\ Unlinked'
    BY <1>3, <2>1, <2>4, <2>5 DEF FetchIInv, RunInv, Unlinking, Unlinked, Files
  <2>7. Checked' /\ Exits'
    BY <1>3, <2>1, <2>4 DEF FetchIInv, RunInv, Checked, Exits, Files
  <2>8. ~Excused' => \/ stored'["zip"] = stored["zip"]
                     \/ Writing /\ fetchAt # "zip write" /\ stored'["zip"] = "good"
    BY <1>3, <2>1, <2>3 DEF FetchIInv, Shape, SweepInv, RunInv, Sound, Writing, ZipBytes, Files,
      Excused,
      Disturbed
  <2>9. Sound'
    BY <1>3, <2>1, <2>3, <2>4, <2>8 DEF FetchIInv, SweepInv, RunInv, Sound, Files
  <2> QED  BY <1>3, <2>2, <2>6, <2>7, <2>9 DEF FetchIInv, RunInv
<1>4. CASE SweepStart \/ SweepZip \/ SweepFails \/ SweepBoots \/ SweepCrash
  <2>1. /\ UNCHANGED <<upstream, fetchAt, fetchHeld, unlinking, fetchExit, forced, before, culprits, stored, sweepHeld>>
        /\ sweepAt' # "zip write" /\ sweepAt' # "write"
        /\ crashes' = crashes \/ crashes' = crashes + 1
    BY <1>4 DEF SweepStart, SweepZip, SweepFails, SweepBoots, SweepCrash, Sweeping, fetchVars
  <2>2. sweepAt' = "boot" => SweepStart /\ sweepAt = "idle" /\ stored["withtunes"] # "absent" /\ crashes' = crashes
    BY <1>4 DEF SweepStart, SweepZip, SweepFails, SweepBoots, SweepCrash, Sweeping, Missing
  <2>3. crashes' = crashes => sweepAt # "write"
    BY <1>0, <1>4 DEF SweepStart, SweepZip, SweepFails, SweepBoots, SweepCrash, Sweeping
  <2>4. SweepInv'
    BY <1>0, <2>1, <2>2, <2>3 DEF FetchIInv, Shape, SweepInv, Writing
  <2>5. crashes' \in Nat /\ ~Writing'  BY <1>0, <2>1 DEF FetchIInv, Shape, Writing
  <2> QED  BY <1>3, <2>1, <2>4, <2>5
<1>5. CASE SweepOpensZip
  <2>1. /\ UNCHANGED <<upstream, fetchAt, fetchHeld, unlinking, fetchExit, forced, before, crashes>>
        /\ sweepAt = "zip open" /\ sweepAt' = "zip write" /\ sweepHeld' = upstream
        /\ stored' = [stored EXCEPT !["zip"] = "partial"] /\ culprits' = culprits \cup {"overlap"}
    BY <1>5 DEF SweepOpensZip, Sweeping, Store, fetchVars
  <2>2. SweepInv'  BY <2>1 DEF FetchIInv, Shape, SweepInv, Writing, Files
  <2> QED  BY <1>3, <2>1, <2>2 DEF FetchIInv, Shape
<1>6. CASE SweepZipWritten
  <2>1. /\ UNCHANGED <<upstream, fetchAt, fetchHeld, unlinking, fetchExit, forced, before, crashes, sweepHeld, culprits>>
        /\ sweepAt = "zip write" /\ sweepAt' = "extract"
        /\ \/ UNCHANGED stored
           \/ Writing /\ \E c \in ZipBytes(sweepHeld, fetchAt = "zip write") : stored' = [stored EXCEPT !["zip"] = c]
    BY <1>6 DEF SweepZipWritten, Sweeping, Store, fetchVars, Writing
  <2>2. SweepInv'  BY <2>1 DEF FetchIInv, Shape, SweepInv, Writing, Files, ZipBytes
  <2> QED  BY <1>3, <2>1, <2>2 DEF FetchIInv, Shape, Writing
<1>7. CASE SweepExtract
  <2>1. /\ UNCHANGED <<upstream, fetchAt, fetchHeld, unlinking, fetchExit, forced, before, crashes, culprits>>
        /\ sweepAt = "extract" /\ sweepAt' = "write" /\ stored["zip"] \in {"good", "bad"}
        /\ stored' = [stored EXCEPT !["withtunes"] = "partial"] /\ sweepHeld' = stored["zip"]
    BY <1>7 DEF SweepExtract, Sweeping, Store, fetchVars
  <2>2. SweepInv'  BY <2>1 DEF FetchIInv, Shape, SweepInv, Writing, Files
  <2>3. "partial" \in Contents  BY DEF Contents
  <2> QED  BY <1>3, <2>1, <2>2, <2>3 DEF FetchIInv, Shape, Writing
<1>8. CASE SweepWritten
  <2>1. /\ UNCHANGED <<upstream, fetchAt, fetchHeld, unlinking, fetchExit, forced, before, crashes, culprits, sweepHeld>>
        /\ sweepAt = "write" /\ sweepAt' = "boot"
        /\ stored' = [stored EXCEPT !["withtunes"] = sweepHeld]
    BY <1>8 DEF SweepWritten, Sweeping, Store, fetchVars
  <2>2. SweepInv'  BY <2>1 DEF FetchIInv, Shape, SweepInv, Writing, Files
  <2>3. sweepHeld \in Contents  BY <2>1 DEF FetchIInv, Shape, SweepInv, Contents
  <2> QED  BY <1>3, <2>1, <2>2, <2>3 DEF FetchIInv, Shape, Writing
<1>9. CASE UNCHANGED filesVars
  <2>1. /\ UNCHANGED <<upstream, fetchAt, fetchHeld, unlinking, fetchExit, forced, before, crashes, culprits>>
        /\ UNCHANGED <<stored, sweepAt, sweepHeld>>
    BY <1>9 DEF filesVars, fetchVars, sweepVars
  <2>2. SweepInv'  BY <2>1 DEF FetchIInv, SweepInv, Writing
  <2> QED  BY <1>3, <2>1, <2>2 DEF FetchIInv, Shape, Writing
<1> QED  BY <1>1, <1>2, <1>4, <1>5, <1>6, <1>7, <1>8, <1>9 DEF Sweep

\* The invariant holds at the start and every step keeps it.
LEMMA FetchInductive == FetchSpec => []FetchIInv
<1>1. FetchInit => FetchIInv
  BY DEF FetchInit, FetchIInv, Shape, SweepInv, RunInv, Unlinking, Unlinked, Checked, Sound, Exits,
    Writing,
    Later, Early, Files, Contents
<1>2. FetchIInv /\ [FetchNext]_filesVars => FetchIInv'
  BY FetchKeepsIInv, RestKeepsIInv DEF FetchNext
<1> QED  BY <1>1, <1>2, PTL DEF FetchSpec

\* fetch_static exits 0 with the expected image in place only.
THEOREM SuccessIsAlwaysGood == FetchSpec => []SuccessIsGood
<1>1. FetchIInv => SuccessIsGood  BY DEF FetchIInv, RunInv, Exits, SuccessIsGood
<1> QED  BY <1>1, FetchInductive, PTL

\* fetch_static fails for the reasons FailuresExplained lists only.
THEOREM FailuresAreExplained == FetchSpec => []FailuresExplained
<1>1. FetchIInv => FailuresExplained
  BY DEF FetchIInv, RunInv, Exits, FailuresExplained, Excused, Disturbed
<1> QED  BY <1>1, FetchInductive, PTL

\* Without interruptions ensure_withtunes hands over the disk upstream offers.
THEOREM SweepAlwaysBootsUpstream == FetchSpec => []SweepBootsUpstream
<1>1. FetchIInv => SweepBootsUpstream  BY DEF FetchIInv, SweepInv, SweepBootsUpstream
<1> QED  BY <1>1, FetchInductive, PTL
==============================================================================
