# Formal models of the undefmon toolchain

The repository disassembles the defMON C64 tracker from its static memory image
and re-emits it as assembler source that assembles back to the same bytes.
Around that core it builds a call graph, a register-effect report, comparison
facts and several lints, it pushes what is known into a Ghidra project and
exports it again, and it drives an emulator to learn which addresses execute.
A Makefile decides which of these run. The modules here model the algorithms of
that toolchain, check them with TLC on small instances, and prove some of the
results with TLAPS for every instance.

Programs are abbreviated below: EM `tools/re/emit_defmon_source.py`, RE
`tools/re/reg_effects.py`, CF `tools/re/cmp_facts.py`, CG
`tools/re/callgraph.py`, TR `tools/re/unreachable_triage.py`, GI
`tools/re/ghidra_import.py`, FS `tools/fetch_static.py`.

## 1. Inventory

| Component | Source | State | Operations | What is hard | What makes it correct |
|---|---|---|---|---|---|
| Code discovery | EM 2082-2194 | the code starts, the round's pending and next sets; then `instr_at`, `consumed` | `expand_code_starts`, `classify` | set order, cyclic code, overlapping decodes, the end of the image | finds exactly the closure of the seeds; no byte decoded twice; an earlier decode wins |
| Byte walk | EM `emit_source` 3974-5065 | `pc`, the queue of data bytes and its start, the open block, the remembered immediate load | one loop iteration per instruction, declared run or byte | five paths that each flush, advance and write rules; runs declared over code | every byte once, in order; rules, scopes and hints right |
| Data directives | EM `flush_data` 4660-4773 | the queue, its pieces, the directives | two passes | thresholds, partial lines, periodic fills | directives reproduce the bytes |
| Conditions and names | EM `build_imm_substitutions`, `render_condition_from_fact` | the provenance of A and X, the names given | one instruction of the walk; one text per branch | transforms in order, carries, stale provenance | the text beside a branch is true, a name is of the right variable |
| Loaders, label precedence, notes | EM 5951-6218 and the `load_*`, `render_*` functions | tables keyed by address | `main` and what it calls | precedence of four sources of labels | a reference resolves to the label that is defined |
| Register effects | RE | per-subroutine graphs and five tables | `_walk_subroutine`, four fixed points | interprocedural order, optimistic and pessimistic start values, self-modified calls | never under-reports |
| Call graph | CG | edge tables, fall-through map, reachable set | `build` (four passes), `_walk_reachable` | duplicates, cycles, operands that are not targets | edges and reachability are what the code does |
| Triage | TR | buckets, roots | `classify` | rebuilt from a JSON report | a bucket means what its description says |
| Comparison facts | CF | flag setters, left-hand sides | backward search from each branch | several arrival paths | a fact holds on every path |
| Static fetch | FS, `Dockerfile` | files under `artefacts/` | five stages, `--force` | interruptions, stages skipped by existence | success means the expected image |
| Sweep, probes | `tools/sweep.py`, `tools/probe.py`, `tools/_headlessvice.py` | ports, state directories, emulators, captures, an aggregate | the sweep, the worker pool, the disk-menu probe | every call may raise; order of completion; clean-up | nothing attributed to the wrong tune, nothing left behind |
| Ghidra import | GI | a Ghidra project that outlives the run | eighteen steps that write or export | crash and re-run over an older state, overlapping units, exports before the end | exports say what the program holds |
| Build graph, round trip | `Makefile`, `tools/roundtrip_check.py` | artefacts and what they were made from | goals, recipes, clean, promotion | stale or truncated intermediate files, edits during a build | the listing and `verify` can be believed |
| Disk images | `tools/d64.py` | none | directory and file chains | damaged chains | terminates, right bytes |
| Disassembler | `tools/re/dasm6502.py` | none | tables, operand formatting | all 256 opcodes | formatting can be assembled back |
| Lints and substitutions | `tools/re/check_*.py`, `substitute_*.py`, `data_region_coverage.py`, `callgraph_check.py` | none | regular expressions over prose, set differences | wording | not behavioural |

Interaction is by function call inside the emitter (discovery, then
classification, then the call graph, then the walk), by JSON files between the
programs, and by the Ghidra project between two runs of the import. Concurrency
exists in four places: programs that share files under `artefacts/`, the
probe's worker pool, the editor beside a running `make`, and kills at any
moment.

## 2. Modules

| Module | Models | Correspondence |
|---|---|---|
| `CodeImage` | what the tools read of the bytes | a decode per address: length (0 = not in `OPS`), flow and operand. Neighbouring decodes are independent, a superset of what bytes can produce |
| `CodeDiscovery` | `expand_code_starts`, `classify` | `Visit` is one iteration over `pending`, `NextRound`/`Expanded` the end of a round, `Accept`/`PassOver` one iteration of the sorted sweep |
| `Closure` | the promise behind every worklist | abstract; implemented by `CodeDiscovery` and by `CallGraph` |
| `EmitWalk` | the `while` loop of `emit_source` | one iteration per step; `out` is the order of the addresses written |
| `DataRuns` | `flush_data` | one iteration of pass 1 or pass 2 per step |
| `BranchText` | `build_imm_substitutions`, the right-hand side and post-op of CF, `render_condition_from_fact` | `WalkNames` is one instruction of the substitution walk, then the supplement pass and the text; beside it the processor executes the piece. A text is kept as its meaning |
| `RegEffects` | `reg_effects.analyze` | one update of one entry per step, in any order; `demand` a whole pass, as in the code. The intraprocedural analyses are stated as greatest or least sets of nodes |
| `RegExec` | the 6502 running the analysed program | external; composed with `RegEffects` to say what "clobbers", "inputs" and "outputs" mean |
| `CallGraph` | `callgraph.build` | passes 1 and 2 a step each, pass 1b and the walk an iteration per step |
| `Triage` | `unreachable_triage.classify` | operators over the finished `CallGraph` |
| `CmpFacts` | `cmp_facts.collect_facts` for one branch | `FindSetter` is an iteration of `_find_flag_setter`; a frame of `frames` is a call of `_resolve_lhs` or `_resolve_pla_source`, `Walk` an iteration of the innermost one's loop. A pull met by a register walk is a tail call, so its frame replaces the walk's |
| `CmpExec` | the 6502 running the program after the answer is known, with the source of every value beside it | external; composed with `CmpFacts` |
| `FetchStatic` | `fetch_static.main` and `sweep.ensure_withtunes` together | a step per file operation; every file write is two steps, with a crash possible in between |
| `TuneRuns` | `sweep.main` and `sweep_tune`, `run_per_tune`, `disasm_evidence`, the container wrapper | a job is one use of `smoke_session`; its `stage` is the point it has reached, every call of the emulator a step that may raise, and `failing` the exception on its way through the clean-up |
| `GhidraProgram` | the Ghidra program | external: code and data units, references, labels and equates, with the API calls the import makes as operators |
| `GhidraImport` | `ghidra_import.main` | one action per step of `main`, in its order (`phase`), and one for each file written at its end; any reference may fail to be added; `Raise` saves the program and ends, `Kill` goes back to what was saved; the next run may read other annotations. Two history variables: `lost`, the instructions typing has cleared in this run, and `failed`, the references it could not add |
| `BuildGraph` | the `Makefile` | a source has a version, an artefact the versions it was made from; a recipe computes, opens its file and completes it in three steps, with edits and kills in between; the agenda is what is left of the goal |

`X_proofs` modules hold theorems about `X` (those about `FetchStatic` are in
`TuneRuns_proofs`, those about `DataRuns` and `BranchText` in
`EmitWalk_proofs`), `MCX` modules and their `.cfg` files the instances for TLC.
Two of these hold several modules side by side: `MCEmitter` the byte walk, the
data directives and the texts, `MCArtefacts` the Makefile and the fetching. In
each behaviour one of the parts is at work (`part`): they share no state at that
level of detail.
Definitions named `..._X` before an operator are wrong variants of it, against
which the properties were tried.

Some abstractions deserve a word. In `RegEffects`, `CmpFacts` and `BranchText`
addresses are instruction indices, so "the next instruction" is `pc + 1`; a
fall off the known code is a fall to an index that is not code. In `EmitWalk`
the lines written are abstracted to the addresses of the bytes they assemble
to, with the segment rules and label definitions recorded beside them; what
makes a line assemble to its bytes is the assembler's and the round-trip
check's business, except for data directives, which `DataRuns` expands.
`BuildGraph` keeps of a file only what it was computed from, so two files with
equal inputs count as equal: the programs are deterministic. `GhidraProgram`
takes the calls as deterministic too, auto-analysis included: code reached from
functions and references, and undefined data where that code writes.

## 3. Runs

| Run | What it shows | Bounds |
|---|---|---|
| `discovery` | expansion is the closure of the in-image seeds, whatever the order; no overlap; a start is lost to an earlier instruction only; it ends | every 4-byte image over 8 decodes of length 0 to 3: room for a 3-byte instruction to overlap, be overlapped, and run off the end, for a back branch and a forward call |
| `emitter` | the walk: byte exactness, rules, scopes, hints; the directives reproduce the queue; the condition is true exactly when the branch is taken, and an immediate gets the name of a variable it is compared with or stored in | the walk: every classification of 5 bytes, one text and one byte run of at most 2 bytes, at most 2 segments, blocks and branch targets, so that each of the six paths is followed by each other. The directives: queues of up to 13 bytes over 2 values, the sizes 16/16/6 scaled to 4/4/3, so that a fill, a collapse, a short last line and all of their orders fit; periods 1 and 2 of a line of 4. The texts: straight pieces of up to 4 instructions and a branch, words of 8 values with samples 0 and 5, two cells, so that a wrap, a sign bit and an indexed access that hits or misses occur |
| `reg_effects` | no activation writes outside the reported clobbers; inputs and outputs can be relied on in definite programs; the clobbers are the least solution | two subroutines of three instructions, two registers, calls two deep: enough for recursion, tail calls, dispatch, KERNAL and unknown code. Two families of three subroutines add a dispatch to callees that write different registers and a way out through the KERNAL on one path; one leaves a dispatch site unresolved, with a placeholder operand that is code |
| `triage` | the walk is a closure, the fall-through map is written once, what the buckets mean | four instruction slots in ten bytes, each accepted or data, with targets that may miss the starts or the image |
| `cmp_facts` | the setter, source and transforms reported are those of every execution | straight code of three operations from a wide choice, diamonds, and stack programs of eight instructions, with loops back into each; every branch of a program is asked about and every address of it entered. The step budget (60) lies above what a register walk of such a program takes and is reached by pulls in loops; stacks of 3 and chains of 3 bound the execution |
| `tune_runs` | ports, state directories, whole tunes, kept results; every job ends and the output is reached | three tunes, two of one name, two workers, two actions a tune and two of the probe: a worker is reused, both results of one name compete, a job fails at each of its calls |
| `ghidra_import` | exports are exact, references current, equates true, structs shown as they are and never lost from the project, regions typed, an instruction taken away by the typing of regions only | two runs with different annotations over one 23-byte program, each killed or raising anywhere, references failing at will; a struct segment overlaid by a later one, stray code reaching into it, three kinds of patched site, a region on an operand byte, two compares that share a name but not a value |
| `artefacts` | the Makefile: when the listing and `verify` can be believed, and that `clean` recovers. The fetching: exit 0 means the expected image; failures are explained; the sweep boots the disk upstream offers | one edit of any source at any moment and three invocations of make: enough to make, disturb, and make again; commits and promotions are free. Three runs of either fetching program, two interruptions: enough for a damaged leftover, its discovery, and its repair |

Four runs show a disagreement between a docstring or a comment and the code,
listed under "findings" in `PROJECT.json`:

| Run | Statement | What the code does |
|---|---|---|
| `reg_inputs` | inputs are never under-reported | a callee that may write a register hides its caller's read of it |
| `reg_placeholder` | a dispatch site that is not resolved stays opaque and its function uncertain | its placeholder operand, where that is code, is followed, and the function reported as certain without what the real target writes |
| `chain_order` | transforms are listed oldest first | the walk goes backwards and appends, so they are listed newest first |
| `ghidra_regions` | an address inside an instruction is not typed | an instruction that starts at another address is not seen, and is cleared |

`reg_inputs` and `reg_placeholder` have programs of their own (the latter JSR
sites with no recorded target, as $D400 and $D40B are); `chain_order` and
`ghidra_regions` take those of `cmp_facts` and `ghidra_import`.

Deadlock checking is off in every configuration: these programs end. The
`TypeOK` definitions state the types of each module. Those of `CodeDiscovery`,
`RegExec` and `GhidraImport` are proved (section 5); the others document the
modules and stay out of the configurations, whose properties relate several
variables.

### Conditions of the properties

Where a statement of the code fails, the passing runs keep the strongest form
that holds, with its condition named:

- `Aligned` (`EmitWalk`): declared runs are not empty, end in the image and
  cover data only, as in the committed annotations.
- `DefiniteCalls` (`RegExec`): callees write what they clobber on every path,
  the callees of one dispatch site all the same registers, no branch is a tail
  call, and no jump leaves the known code, into the KERNAL included. Dropping
  any of them lets `reg_effects` claim too much; section 7 has the cases. A
  weaker form, without the dispatch sites and the KERNAL, had passed TLC on
  programs too small for either and failed in the proof.
- `misled` (`RegExec`): the run has passed a dispatch site that is not resolved
  and whose placeholder operand the walk took for its target. What is claimed of
  clobbers, inputs and outputs holds of a run until then (`reg_placeholder`).
- `Overlooked` (`CmpExec`): a routine may be entered at any address. Where that
  address has predecessors as well, a loop head or the target of a branch, the
  walk follows these, and what the caller brings is not in the answer (CF:577,
  CF:684-694). The docstring (CF:554-556) calls a function entry what has no
  predecessor, which such an entry is not. Of the values that an execution
  entered there brings along, its registers and what lies below its stack,
  nothing is claimed; everything it loads on its way is.
- `NoArrivals`, `Restores` (`CmpExec`): nothing jumps in or enters between setter
  and branch, and no PLP stands there (PLP restores Z but is missing from its
  setters).
- `Unforked`, `dropped` (`CmpExec`, `CmpFacts`): `dropped` records what the
  code throws away. An ALU result, a call or a pull on one path ends the whole
  resolution and what other paths found is forgotten (CF:673); a transfer or
  transform at the very front of a function pushes nothing, so its caller
  source is lost; and pushes that each have several sources compare equal, so
  the first stands for all.
- `lost`, `Failed` (`GhidraImport`): the catalogues are compared when no
  instruction has been cleared since, the references of a site when it is still
  there and only those that could be added. A region that lay in an instruction
  that was cleared need not be typed.
- `Misread` (`BranchText`): the facts whose text leaves something out; each
  case is described in section 7.
- `Undisturbed` (`BuildGraph`): the run ended with exit 0 and no source has
  been edited since it started. `Unlisted` are the inputs a rule does not name.

## 4. Fairness

The analyses are single-threaded programs that run to completion: in
`CodeDiscovery` and `CallGraph` weak fairness of the whole next-state relation
says only that the program keeps executing, and `ImplementsClosure` includes
that the search ends. In `TuneRuns` the same weak fairness says that the
driver, its worker threads and the emulator calls go on; that every call
returns or raises is assumed of the emulator, which is external. It does not
favour a job, and does not have to: the jobs are finite, so `AllAnswered` holds
however they interleave. All other modules state safety only and assume no fairness: their
programs can be interrupted anywhere, and `make` and the import may simply not
be run again.

## 5. Proofs

`CodeDiscovery_proofs`, for every image, seed set and address range
(`RangeAssumption`, `ImagesAssumption`, `SeedsAssumption`):

- `TypeCorrect`: the fall-through is the only successor that may leave the
  image, and by at most reaching `End`.
- `NothingInvented` is inductive by itself: what a visit adds are successors of
  a known start.
- `NothingMissed` is not: it needs `RoundInv`, that everything a visited start
  leads to is already in `code` or waits in `nxt`.
- `DecodedOnce` and `EarlierDecodeWins` rest on `SweepInv`: everything accepted
  lies below everything still to come. It shows that of the three overlap tests
  of `classify` the one on the opcode byte alone decides.
- `ImplementsSearch`: every round is a `Grow` of `Closure`, the last its `Stop`.
- `SearchIsLeastClosed` is about the abstract search alone: it never leaves a
  closed set that holds its roots and is one when it stops. `CodeIsLeastClosed`
  is what follows for the code starts.

`EmitWalk_proofs`, for every image, classification and set of annotations
(`LayoutsAssumption`: instructions lie inside the image and apart, entries are
instructions, an immediate load is two bytes long):

- `BytesAlwaysExact`: over an `Aligned` layout what is written and queued is
  the image before `pc` (`InOrder`). The invariant also needs that `pc` is never
  inside an instruction, so that `SkipConsumed` is never taken: a lemma per kind
  of iteration shows that it ends outside every instruction if it starts so.
- `RulesBracketSegments` counts on `InOrder`: a rule's place is the number of
  bytes before it. What an iteration steps over is inside something, so no
  segment boundary is missed (`Bracketed`).
- `LabelsWhereReferred`: the open block is always that of the last named entry
  passed (`Scoped`), which is what `label_block` works out for a reference.
- `HintsAreSound`: a load that is remembered ends at `pc` and the queue behind
  it is empty (`Remembered`). This holds without `Aligned`.

`GhidraImport_proofs`, for every layout of code, segments and annotations and
any number of runs:

- `TypeCorrect`. The invariant is that both the program at work and the saved
  one are `Sound`, that is, of their types and without overlapping units; a lemma
  per API call shows that it places a unit only where there is room, and each
  step of `main` is a sequence of such calls. Nothing is assumed about how the
  disassembler flows.
- `CodeIsKept` (an action property): no step but the typing of regions takes an
  instruction away. The invariant adds to `Sound` what the work list of each
  step may hold (`IInv`).

What the program and the exports say needs a second invariant on top of that
one, `NInv`. Its parts are about different fields of the program, and a lemma
each shows that a step keeps them; another says what every API call leaves
alone. The tables are assumed to be as the repository has them: segments are
not empty (`SegmentsAssumption`), a struct fits its segment and no other
segment contains its start (`StructsApart`), and a PC has one entry in a table
(`InputsAssumption`).

- `EquatesStayTrue`: `NamesTrue` of the program at work and of the saved one,
  since a kill goes back to the latter.
- `TargetsStayCurrent` is about one site at a time: its references are replaced
  by `ApplyDispatch`, and no later step adds or removes any but that of an
  instruction it clears.
- `StructsAsShown`: a struct starts only where a segment does
  (`StructsInSegments`), and the segments dealt with so far are those whose
  struct stands (`StructsTold`): no later segment, equate, analysis or variable
  removes it, and no instruction reaches into it since units do not overlap.
- `StructsStay` (an action property): a struct that the saved program holds is in
  the program at work (`StructsBack`), through the segments that clear what is
  in their way, too: in the way of a struct there is only that struct
  (`StructsFit`, `StructsInSegments`).
- `RegionsGetTyped`: the regions dealt with so far are bytes, code, or the place
  of an instruction that was cleared (`RegionsDone`); typing one does not untype
  another.
- `CataloguesStayExact`: from its export on a catalogue is what
  would be exported now (`CataloguesKept`), unless code was cleared. The steps
  that come after the exports touch comments, data and functions; that none of
  them changes which bytes are instructions or who writes to them is what the
  proof shows.

`TuneRuns_proofs`, for every number of tunes, workers and actions:

- `PortsNeverShared`: in the pool ports differ by construction, in the sweep
  by order. The invariant relates a job's stage to its emulator: a job that has
  not booted has none, a job that is over has one only if the stop raised, and
  in the sweep one job at a time is under way.
- `DirsAlwaysCleaned`: the same invariant with the directory added.
- `TunesCountWhole`: the captures gathered are, in some order, exactly those of
  the jobs collected that did not fail: there is a bijection from the indices
  of `covs` to pairs of job and capture (`CovsSoFar`). A job that fails in
  the middle adds none, one that returns adds all of its own. Counting
  is then the cardinality of two sets in bijection.
- `ResultsAllKept`: the results so far name, for each tune, a collected job
  that returned (`ResultsSoFar`); a job that raised never overwrites one
  (`Settled` keeps the two outcomes apart).

`BuildGraph_proofs`, for any number of edits and invocations:

- The agenda is always the rest of the goal's recipes (`AgendaIsRest`), so the
  number of recipes `Done` says what has been established: that is `Progress`.
  `FactsFresh` says what a finished `cmp_facts.json` agrees with, namely the
  prerequisites that are not newer than it. `ListingIsCurrent` follows.
- `VerifyIsSound` adds what the two comparisons of `verify` have shown once
  they are behind (`Verified`).
- `CleanAlwaysRecovers` adds that after a clean no file is partial and the
  facts name present versions (`CleanFacts`).

The end of `TuneRuns_proofs`, about `FetchStatic`, for any number of runs and
interruptions:

- `SuccessIsAlwaysGood`, `FailuresAreExplained` and `SweepAlwaysBootsUpstream`.
  The last rests on `SweepInv`, about the sweep and the file it shares. The
  first two need, for each place of the run, what its earlier files hold unless
  something already excuses a failure (`Sound`, with `Excused`), what `--force`
  has yet to delete (`Unlinking`, `Unlinked`), and that a file checked against
  its hash is never a wrong one (`Checked`).

`CallGraph_proofs`, for every image and every set of accepted starts:

- `FallInIsOneToOne`: an entry of `fall_through_in` names a start that pass 1b
  has dealt with and that falls into it (`FallsRecorded`), and accepted
  instructions lie apart, so that no two fall into the same start.
- `WalkImplementsSearch`: the walk implements `Closure`. Every entry, and all
  that the reached starts lead to, is reached or on the list (`WalkInv`); the
  order of the list does not matter.
- `TriageIsRight`: what the triage says of the unreachable starts is true of
  the edges pass 1 has drawn (`EdgesDrawn`).

`RegExec_proofs`, for every program, KERNAL table, number of registers and
depth of calls (`ProgramsAssumption`, `KernalAssumption`), until a run is
`misled`:

- `ClobbersAreLeast` rests on `SInv`, about the tables: what the walk left is
  closed (`Walked`), the clobbers lie between the direct ones and every solution
  (`Between`), and a loop that has ended leaves its tables solved (`Ended`).
- `ClobbersCoverRuns`: the instruction running and every place a call returns
  to were walked from a subroutine that the one entered reaches by calls
  (`Within`, `Ground`), or the one entered is uncertain (`CInv`). A solved
  `clob` does not grow along calls, so what such an instruction writes is
  reported for the one entered. `TypeCorrect` comes with it.
- `InterfaceIsDefinite`: the run has frames (`Frames`), one for each subroutine
  that is under way, though the processor keeps only return addresses and a tail
  call replaces its frame. For each register not yet written since the entry,
  every frame has it open, that is, its own analysis does not take it for
  written where the frame stands; what a frame needs as input, the subroutine
  entered has as input; and what a frame still owes its caller, the frame above
  it owes too. A read of an open register is then a declared input
  (`ReadIsInput`), and a return that owes nothing has written every output
  (`ExitOwes`, `Resume`). `Replace`, `Advance`, `Push` and `Pop` are the four
  things a step does to the frames. Only the subroutine entered can meet code
  of which nothing is known (`LostCovers`).

`CmpExec_proofs`, for every program, every place at which it is entered, and
every bound on the walks, the stack and the chains (`ProgramsAssumption`: a
program is a sequence):

- `SetterIsSound`: what has been skipped stays between setter and branch and
  sets nothing (`Between`), and an execution comes to the branch through the
  setter (`LastSet`).
- `SourceIsReported` has two halves. The analysis (`Analysed`): there is one set
  of nodes, "this register after this instruction" or "the n-th byte from the
  top after it", that holds all that the frames under way have visited, explains
  each of its nodes by itself, by what is still on their lists and by the sources
  found, and answers the setter (`Sourced`). It has to be one set for the whole
  stack of frames: a push met by a pull's walk is answered by a walk for A of
  its own, above it. A pull that has been given "unknown" once is out (`Excused`),
  since its answer can only be "unknown". When the walk ends nothing is left on
  a list, so the set explains itself. The execution (`Running`): such a set is
  right about every state (`Borne`), provided that its sources hold what is
  `Overlooked`: with that the entry itself is right, wherever it is, and each step
  keeps it so. Both predecessor lists, in any order, are
  needed whole, and so is the rule that a visited node is not looked at again:
  it is in the set.
- `ChainIsExact`: the same two halves, with the chain as part of the node
  (`Chains`, `Threaded`). The walk visits a register at an address once,
  whatever the chain, so the invariant also needs that an address has one link
  only: `Successor`, that what precedes two instructions on the way to the
  setter precedes one and the same, is where `Unforked` is used.

The end of `EmitWalk_proofs`, about `DataRuns`, for every queue and all sizes
(`DataAssumption`, `SizesAssumption`: the periods tried divide a line):

- `DataReproduced`: the directives so far lead from the first byte to `row`
  (`Leading`), the pieces of pass 1 from there to `cut` (`Pieces`). A collapsed
  stretch is where bytes could go wrong: its lines are whole multiples of a line
  away from the first and all equal to it (`Repeated`), and a `.fill` repeats
  with a period that divides the line, so that it comes out right from any
  line of the stretch (`ShorterPeriod`), the last one excluded (`CollapsedIs`).

The same module, about `BranchText`, for every set of pieces, inputs, enums and
every word size that is a multiple of four (`WordAssumption`). The pieces
(`ProgramsAssumption`) are straight, end in their branch, and give every
instruction a mode it has (`Modes`) and an operand of that mode: an immediate is
a word, an absolute operand a cell. Of the bitwise operators `BitsAssumption` asks
what an AND and an exclusive or of bytes do: they yield bytes, and the
exclusive or is zero just for equal ones.

- `NamesAreProven`: what the program alone says a register holds before an
  instruction, a cell since a load or the entry (`HoldsCell`) or an immediate
  (`HoldsImm`), is the common ground. The provenance of the walk says no more
  than that (`Backed`), a name already given has its reason in it (`Reason`),
  the fact about the branch names no other cell when it carries no transform
  (`FactStands`), and the processor's registers hold what it says (`Agrees`).
  The third is an induction along the piece: `ResolveIs` unfolds the recursive
  function, and the first instruction at which it could go wrong is a
  contradiction (`ResolveDirect`).

- `ConditionsAreTrue`: beside the fact and the text (`Composed`) the invariant is
  the execution alone (`Runs`): each state follows from the one before, and a
  caller's register holds the cell it is said to. From there it is an argument
  about the state at the setter. The source of a register and its chain make
  the register's value, transform after transform (`Yields`, `ResolveSource`,
  again by the first instruction at which it could fail). Folding away a pair of
  inverse transforms keeps that (`FoldedYields`). The text applies the transforms
  newest first, though, and is right only because those left commute: any two
  steps do, and an AND or a shift is not joined by another transform when the
  fact is not `Misread` (`EitherOrder`, `StepsCommute`). So the text means what
  the setter computed (`MeantAlone`, `MeantThen`, `ResultMeant`), and what is
  left is a case for each form: a result against zero, two operands, the bits of
  a `BIT`, a carry or an overflow (`ConditionHolds`). The flags come from the
  setter unchanged since nothing between it and the branch writes them
  (`FlagsLast`).

The unbounded loops in `Folded`, `Meant` and `Resolve` are recursive functions,
unfolded with a lemma each (`FoldedIs`, `MeantIs`, `ResolveIs`).

Out of the prover's reach: liveness (`AllAnswered`, termination in
`ImplementsClosure`) and everything about ENABLED.

## 6. Not modelled

- The linters and the substitution scripts are regular expressions over prose,
  without state.
- Of the Makefile: `distclean` (it also removes the static image), the unit tests
  at the end of `verify`, and the goals that only start the sweep and the probes.
- `d64.py` is a set of pure functions over one byte string; a cyclic chain is
  cut by the set of visited sectors.
- The loaders of the emitter, the precedence of its four sources of labels and
  the wording of its notes: functions from tables to text. `BuildGraph` has
  `main` as a recipe, with what it reads and how it fails.
- `data_region_coverage.py` and `callgraph_check.py` read the finished graph
  and print; they appear as one recipe of `lint`.
- Operand formatting in `dasm6502.py`: checked byte for byte by the round trip.
- `BranchText` leaves out the EOR and ORA wrappers, indirect modes, Y and step
  comments that span several lines.

## 7. Divergences met

Beside the findings above, reading the code against its comments, docstrings and
help texts turned up the following. The passing runs are stated so that they
hold in spite of them.

Emitter and byte walk:

- EM:3397 says a typo in the annotations fails fast instead of emitting wrong
  bytes. A run declared over, into or past an instruction is accepted, and an
  empty byte run never ends: the loop at EM:4818 advances by its length.
- EM:6126 opens the output before the text is complete, so an error in between
  leaves a cut-short listing (`BuildGraph` shows that the next `make` repairs
  it).

Conditions and names:

- The docstring of `build_imm_substitutions` calls its walk "intentionally
  conservative" and lets any instruction that changes a register clear its
  provenance. An indexed load does not: in `LDA u`, `LDA v,X`, `CMP #1`, `BNE`
  the constant is named as a value of `u` (EM:5340). The supplement pass
  ignores transforms, and neither a join nor a JMP clears the provenance.
- The pivot from "the caller's register" to a declared input drops the
  transforms and the post-op (EM:744), although a comment further on prefers
  silence to a misleading guess.
- The text of a comparison set by an arithmetic instruction drops its index and
  the carry or borrow that comes in (EM:605); shifts of memory are not
  recorded; transforms before a computed value or a call's result are lost.
- `_emit_step_idiom_comment` compares a direction with "step" where the value
  is "stepped", and its predicate key never matches.

Comparison facts:

- CF:528 says transforms are listed oldest first (`chain_order`). The backward
  walk appends them newest first (CF:650) and the renderer, which has it as the
  comment says, applies them in list order (EM:422): `LDA v`, `AND #7`, `ASL` is
  described as `((v << 1) & 7)`. Where the items commute the text is right.
- A function that is entered at a loop head or at the target of a branch has no
  "front" for the walk: the caller's value is missing from the answer
  (`Overlooked`, section 3). Two loads and a caller then read as two loads.
- CF:403 says the search stops where code jumps in. It follows fall-throughs
  only and walks past such places (CF:424).

Register effects, call graph, triage:

- The report's outputs share the cause of `reg_inputs`.
- A dispatch site counts as definite what any of its targets clobbers (RE:320),
  so after a dispatch to callees that write different registers a read of
  either is no input.
- A JMP into the KERNAL "then returns" (RE:288), but `_exit_nodes` does not
  count it as an exit (RE:381): an output that this path does not write is
  claimed all the same.
- RE:486 and RE:622 leave a dispatch site with an unclassified target, or with
  none recorded, opaque and its function uncertain. If the placeholder operand
  happens to be code, it is followed and the function reported as certain
  (RE:264, `reg_placeholder`). $D400 and $D40B are such sites in the committed annotations: their
  placeholder is $D4F6, which is code.
- The call graph's walk also follows JMP (ind) to its pointer's address.
- The triage does not count reachable seeds without inbound edges as reachable
  (TR:107), so what they refer to may be called transitively unreachable.

Sweep and probes:

- The help text says workers use the base port plus 0 to N-1; the ports run to
  the number of tunes minus 1. `run_per_tune` has no caller.
- The sweep counts the tunes selected, failed ones included, and exits with 0
  even if all failed.
- An emulator whose stop raises may keep the port from the tunes that follow.
- A disk action that raises also skips the opening of the menu after it
  (`tools/probe.py` 206-217), so that the next one is fired outside the menu; it
  is recorded with no executed addresses, like one that does nothing.

Ghidra import:

- An exception in the analysis is swallowed: catalogues are then empty and the
  exit code is 0. A kill between two exports leaves files of two runs.
- A site whose annotation loses all its targets keeps its old references. A
  reference that cannot be added is printed and left out (GI:360-367).
- `_trace_writer_imm_value` starts two bytes before the writer, so a one-byte
  instruction in front of it is skipped.
- If the host is not disassembled yet, a JMP gets a call reference.
- `_apply_state_var_types` says that it skips "addresses currently disassembled
  as instructions" (GI:1015) and prints what it skipped "inside instruction". It
  asks for an instruction that starts there, so a region on an operand byte
  clears the instruction around it (`ghidra_regions`). The committed annotations have such
  regions, `v0_row_timer` at $114A for one, the operand of an LDY. The models'
  `lost` records what goes; the catalogues are exported before that and are not
  repaired.
- Two equate sites of one name and different values: the first wins, and the
  order is that of `cmp_facts.json`.

Build:

- `defmon.asm` is declared phony, so it is always emitted again. The rule of
  `cmp_facts.json` does not name `dasm6502.py`, that of `callgraph.json`
  neither `dasm6502.py` nor `entrypoints.json`; `reg_effects.json` does not
  name `dasm6502.py`. `verify` can pass with facts stale in these.
- A JSON file cut short counts as up to date and stops every `make` until
  `make clean`.
- Labels in the committed Ghidra export override renamed seeds until the next
  export and promotion.
- `callgraph_check` passes when `callgraph.json` is missing.
