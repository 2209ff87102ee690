----------------------------- MODULE FetchStatic -----------------------------
(***************************************************************************)
(* tools/fetch_static.py and the ensure_withtunes of tools/sweep.py: two   *)
(* programs that build their inputs under artefacts/ stage by stage, skip  *)
(* a stage when its file is there, share the downloaded .zip, and may be   *)
(* interrupted anywhere.  write_bytes truncates the file and then fills    *)
(* it: two steps, between which the file is "partial".                     *)
(***************************************************************************)
EXTENDS Naturals, Sequences

CONSTANTS MaxFetches, MaxCrashes   \* bounds on the runs and interruptions explored

Files == {"zip", "d64", "packed", "prg", "bin", "withtunes"}

\* Mutant of ForceOrder: the unpacked program is forgotten.
ForceOrder_KeepsPrg == <<"zip", "d64", "packed", "bin">>

ForceOrder == <<"zip", "d64", "packed", "prg", "bin">>

\* A file is missing, cut short, complete, or complete with other contents.
Contents == {"absent", "partial", "good", "bad"}

VARIABLES
  upstream,    \* what the download yields: "good", or "bad" if upstream changed
  stored,      \* the contents of every file
  fetchAt,     \* fetch_static: where it is,
  fetchHeld,   \* the contents it is writing,
  unlinking,   \* the files --force has yet to unlink,
  forced,      \* whether --force was given,
  fetchExit,   \* and how its last run ended
  sweepAt,     \* ensure_withtunes: where it is,
  sweepHeld,   \* and the contents it is writing
  fetchRuns, crashes,
  before,      \* history: the files when this run passed its first check
  culprits     \* history: what else went wrong during this run

fetchVars == <<fetchAt, fetchHeld, unlinking, fetchExit, forced, before>>
sweepVars == <<sweepAt, sweepHeld>>
filesVars == <<upstream, stored, fetchVars, sweepVars, fetchRuns, crashes, culprits>>

FetchInit ==
  /\ upstream \in {"good", "bad"}
  /\ stored = [f \in Files |-> "absent"] /\ before = stored
  /\ fetchAt = "idle" /\ fetchHeld = "absent" /\ fetchExit = "none"
  /\ unlinking = <<>> /\ forced = FALSE
  /\ sweepAt = "idle" /\ sweepHeld = "absent"
  /\ fetchRuns = 0 /\ crashes = 0 /\ culprits = {}

Missing(f) == stored[f] = "absent"
Store(f, c) == stored' = [stored EXCEPT ![f] = c]

Leave(status) == fetchAt' = "idle" /\ fetchExit' = status
Goto(place) == fetchAt' = place /\ UNCHANGED fetchExit

\* A step of a run of fetch_static.
Fetching(place) == fetchAt = place /\ UNCHANGED <<upstream, sweepAt, forced, fetchRuns, crashes>>

Start(force) ==
  /\ fetchAt = "idle" /\ fetchRuns < MaxFetches /\ fetchRuns' = fetchRuns + 1
  /\ fetchAt' = IF force THEN "unlink" ELSE "check"
  /\ unlinking' = IF force THEN ForceOrder ELSE <<>>
  /\ fetchExit' = "none" /\ forced' = force /\ culprits' = {}
  /\ UNCHANGED <<upstream, stored, fetchHeld, sweepVars, crashes, before>>

\* A program still writing an unlinked file writes to no file any more.
Unlink ==
  /\ Fetching("unlink") /\ Store(Head(unlinking), "absent")
  /\ unlinking' = Tail(unlinking)
  /\ Goto(IF Len(unlinking) = 1 THEN "check" ELSE "unlink")
  /\ sweepHeld' = IF Head(unlinking) = "zip" /\ sweepAt = "zip write"
                     THEN "absent" ELSE sweepHeld
  /\ UNCHANGED <<fetchHeld, before, culprits>>

\* Mutant of CheckBin: an existing image is up to date.
CheckBin_ByExistence ==
  /\ Fetching("check") /\ before' = stored
  /\ IF Missing("bin") THEN Goto("zip") ELSE Leave("ok")
  /\ UNCHANGED <<stored, fetchHeld, unlinking, sweepHeld, culprits>>

CheckBin ==
  /\ Fetching("check") /\ before' = stored
  /\ IF stored["bin"] = "good" THEN Leave("ok") ELSE Goto("zip")
  /\ UNCHANGED <<stored, fetchHeld, unlinking, sweepHeld, culprits>>

\* open(..., "wb"): the file exists and is empty.
BeginWrite(f, c, place) == Store(f, "partial") /\ fetchHeld' = c /\ Goto(place)

FetchZip ==
  /\ Fetching("zip") /\ Goto(IF Missing("zip") THEN "zip open" ELSE "d64")
  /\ UNCHANGED <<stored, fetchHeld, unlinking, sweepHeld, before, culprits>>

OpenZip ==
  /\ Fetching("zip open") /\ BeginWrite("zip", upstream, "zip write")
  /\ UNCHANGED <<unlinking, sweepHeld, before, culprits>>

\* While another writer has the .zip open the bytes may be incomplete.
ZipBytes(c, otherWrites) == {c} \cup (IF otherWrites THEN {"partial"} ELSE {})

ZipWritten ==
  /\ Fetching("zip write") /\ Goto("d64")
  /\ \E c \in ZipBytes(fetchHeld, sweepAt = "zip write" /\ sweepHeld # "absent") : Store("zip", c)
  /\ UNCHANGED <<fetchHeld, unlinking, sweepHeld, before, culprits>>

\* Mutant of ExtractD64: an existing .d64 is trusted.
ExtractD64_ByExistence ==
  /\ Fetching("d64")
  /\ IF ~Missing("d64") THEN Goto("packed") /\ UNCHANGED <<stored, fetchHeld>>
     ELSE IF stored["zip"] = "partial" THEN Leave("failed") /\ UNCHANGED <<stored, fetchHeld>>
     ELSE BeginWrite("d64", stored["zip"], "d64 write")
  /\ UNCHANGED <<unlinking, sweepHeld, before, culprits>>

\* The .d64 is the one stage whose file is trusted for its sha only; a .zip
\* cut short cannot be opened.
ExtractD64 ==
  /\ Fetching("d64")
  /\ IF stored["d64"] = "good" THEN Goto("packed") /\ UNCHANGED <<stored, fetchHeld>>
     ELSE IF stored["zip"] = "partial" THEN Leave("failed") /\ UNCHANGED <<stored, fetchHeld>>
     ELSE BeginWrite("d64", stored["zip"], "d64 write")
  /\ UNCHANGED <<unlinking, sweepHeld, before, culprits>>

D64Written ==
  /\ Fetching("d64 write") /\ Store("d64", fetchHeld)
  /\ IF fetchHeld = "good" THEN Goto("packed") ELSE Leave("failed")
  /\ UNCHANGED <<fetchHeld, unlinking, sweepHeld, before, culprits>>

ExtractPacked ==
  /\ Fetching("packed")
  /\ IF Missing("packed") THEN BeginWrite("packed", stored["d64"], "packed write")
     ELSE Goto("desfx") /\ UNCHANGED <<stored, fetchHeld>>
  /\ UNCHANGED <<unlinking, sweepHeld, before, culprits>>

PackedWritten ==
  /\ Fetching("packed write") /\ Store("packed", fetchHeld) /\ Goto("desfx")
  /\ UNCHANGED <<fetchHeld, unlinking, sweepHeld, before, culprits>>

RunDesfx ==
  /\ Fetching("desfx")
  /\ IF Missing("prg") THEN BeginWrite("prg", stored["packed"], "exomizer")
     ELSE Goto("flatten") /\ UNCHANGED <<stored, fetchHeld>>
  /\ UNCHANGED <<unlinking, sweepHeld, before, culprits>>

\* exomizer: may fail, leaving its output or not; given a file cut short it
\* fails or produces something else.
ExomizerSucceeds ==
  /\ Fetching("exomizer") /\ Store("prg", IF fetchHeld = "good" THEN "good" ELSE "bad")
  /\ Goto("flatten")
  /\ UNCHANGED <<fetchHeld, unlinking, sweepHeld, before, culprits>>

ExomizerFails ==
  /\ Fetching("exomizer") /\ \E c \in {"absent", "partial"} : Store("prg", c)
  /\ Leave("failed")
  /\ culprits' = culprits \cup (IF fetchHeld = "good" THEN {"exomizer"} ELSE {})
  /\ UNCHANGED <<fetchHeld, unlinking, sweepHeld, before>>

\* A program cut short or wrong may be too short or too long to place.
Flatten ==
  /\ Fetching("flatten")
  /\ \/ BeginWrite("bin", IF stored["prg"] = "good" THEN "good" ELSE "bad", "bin write")
     \/ stored["prg"] # "good" /\ Leave("failed") /\ UNCHANGED <<stored, fetchHeld>>
  /\ UNCHANGED <<unlinking, sweepHeld, before, culprits>>

BinWritten ==
  /\ Fetching("bin write") /\ Store("bin", fetchHeld)
  /\ Leave(IF fetchHeld = "good" THEN "ok" ELSE "failed")
  /\ UNCHANGED <<fetchHeld, unlinking, sweepHeld, before, culprits>>

Crash ==
  /\ fetchAt # "idle" /\ crashes < MaxCrashes /\ crashes' = crashes + 1
  /\ Leave("crashed")
  /\ UNCHANGED <<upstream, stored, fetchHeld, unlinking, forced, sweepVars, fetchRuns, before, culprits>>

Fetch ==
  \/ Unlink \/ CheckBin \/ FetchZip \/ OpenZip \/ ZipWritten \/ ExtractD64 \/ D64Written
  \/ ExtractPacked \/ PackedWritten \/ RunDesfx \/ ExomizerSucceeds \/ ExomizerFails
  \/ Flatten \/ BinWritten

------------------------------------------------------------------------------
(* ensure_withtunes                                                          *)

Sweeping(place, next) ==
  /\ sweepAt = place /\ sweepAt' = next
  /\ UNCHANGED <<upstream, fetchVars, crashes>>

\* Mutant of SweepStart: a downloaded .zip counts as an extracted disk.
SweepStart_ZipIsEnough ==
  /\ fetchRuns < MaxFetches /\ fetchRuns' = fetchRuns + 1
  /\ Sweeping("idle", IF Missing("withtunes") /\ Missing("zip") THEN "zip" ELSE "boot")
  /\ UNCHANGED <<stored, sweepHeld, culprits>>

SweepStart ==
  /\ fetchRuns < MaxFetches /\ fetchRuns' = fetchRuns + 1
  /\ Sweeping("idle", IF Missing("withtunes") THEN "zip" ELSE "boot")
  /\ UNCHANGED <<stored, sweepHeld, culprits>>

\* Truncating the .zip may take it away from a run of fetch_static.
SweepZip ==
  /\ Sweeping("zip", IF Missing("zip") THEN "zip open" ELSE "extract")
  /\ UNCHANGED <<stored, sweepHeld, fetchRuns, culprits>>

SweepOpensZip ==
  /\ Sweeping("zip open", "zip write") /\ Store("zip", "partial")
  /\ sweepHeld' = upstream
  /\ culprits' = culprits \cup {"overlap"}
  /\ UNCHANGED fetchRuns

SweepZipWritten ==
  /\ Sweeping("zip write", "extract")
  /\ \/ sweepHeld = "absent" /\ UNCHANGED stored
     \/ sweepHeld # "absent" /\ \E c \in ZipBytes(sweepHeld, fetchAt = "zip write") : Store("zip", c)
  /\ UNCHANGED <<sweepHeld, fetchRuns, culprits>>

SweepExtract ==
  /\ stored["zip"] \in {"good", "bad"}
  /\ Sweeping("extract", "write") /\ Store("withtunes", "partial")
  /\ sweepHeld' = stored["zip"]
  /\ UNCHANGED <<fetchRuns, culprits>>

\* zipfile raises on a .zip cut short or missing, and main does not catch it.
SweepFails ==
  /\ stored["zip"] \in {"absent", "partial"}
  /\ Sweeping("extract", "idle")
  /\ UNCHANGED <<stored, sweepHeld, fetchRuns, culprits>>

SweepWritten ==
  /\ Sweeping("write", "boot") /\ Store("withtunes", sweepHeld)
  /\ UNCHANGED <<sweepHeld, fetchRuns, culprits>>

SweepBoots ==
  /\ Sweeping("boot", "idle") /\ UNCHANGED <<stored, sweepHeld, fetchRuns, culprits>>

SweepCrash ==
  /\ sweepAt # "idle" /\ crashes < MaxCrashes /\ crashes' = crashes + 1
  /\ sweepAt' = "idle"
  /\ UNCHANGED <<upstream, stored, fetchVars, sweepHeld, fetchRuns, culprits>>

Sweep ==
  \/ SweepZip \/ SweepOpensZip \/ SweepZipWritten \/ SweepExtract \/ SweepFails
  \/ SweepWritten \/ SweepBoots

FetchNext ==
  \/ \E force \in BOOLEAN : Start(force)
  \/ Fetch \/ Crash
  \/ SweepStart \/ Sweep \/ SweepCrash

FetchSpec == FetchInit /\ [][FetchNext]_filesVars

------------------------------------------------------------------------------

Places == {"idle", "unlink", "check", "zip", "zip open", "zip write", "d64", "d64 write",
           "packed", "packed write", "desfx", "exomizer", "flatten", "bin write"}

\* Types: both programs are at a known place, and the --force loop is left
\* exactly when its list is used up.
FetchTypeOK ==
  /\ upstream \in {"good", "bad"}
  /\ stored \in [Files -> Contents] /\ before \in [Files -> Contents]
  /\ fetchHeld \in Contents /\ sweepHeld \in Contents
  /\ fetchAt \in Places /\ fetchExit \in {"none", "ok", "failed", "crashed"}
  /\ unlinking \in Seq(Files) /\ (fetchAt = "unlink" => unlinking # <<>>)
  /\ sweepAt \in {"idle", "zip", "zip open", "zip write", "extract", "write", "boot"}
  /\ fetchRuns \in 0 .. MaxFetches /\ crashes \in 0 .. MaxCrashes
  /\ culprits \subseteq {"exomizer", "overlap"}

\* A run that exits 0 leaves the expected image, whatever earlier runs were
\* interrupted at and whatever the sweep does meanwhile.
SuccessIsGood == fetchExit = "ok" => stored["bin"] = "good"

\* A run fails for a reason outside it (the download changed, exomizer
\* failed, the sweep truncated the shared .zip) or because it found a .zip, a
\* packed or an unpacked program that some earlier run left damaged, which
\* --force repairs.  A damaged .d64 or image alone never makes a run fail.
FailuresExplained ==
  fetchExit = "failed" =>
    \/ upstream = "bad" \/ culprits # {}
    \/ /\ ~forced
       /\ \/ before["zip"] = "partial" \/ before["packed"] = "partial"
          \/ before["prg"] \in {"partial", "bad"}

\* Without interruptions the sweep boots the disk upstream offers, even when
\* both programs download the .zip at once.
SweepBootsUpstream ==
  sweepAt = "boot" /\ crashes = 0 => stored["withtunes"] = upstream
==============================================================================
