----------------------------- MODULE GhidraImport -----------------------------
(***************************************************************************)
(* tools/re/ghidra_import.py, main: the steps that push what the           *)
(* repository knows into the Ghidra program, and the exports in between.   *)
(* The program outlives the run: it is saved when the run ends or raises,  *)
(* lost to the last saved state when the process is killed, and the next   *)
(* run, perhaps with other annotations, starts from it.                    *)
(***************************************************************************)
EXTENDS GhidraProgram

CONSTANTS
  Malformed,     \* an annotation key or address that does not parse
  Landmarks, StateLabels,    \* SEED_LANDMARKS, STATE_LABELS: addresses
  Segments,      \* DATA_SEGMENTS: [start, end (exclusive), struct]
  Bands,         \* MEMORY_BANDS
  Inputs,        \* what a run may read: annotations.toml, entrypoints, cmp_facts
  Unreadable,    \* the addresses where disassemble raises
  MaxDecompile,
  MaxRuns        \* bound on the runs explored

ASSUME SegmentsAssumption ==
  \A k \in DOMAIN Segments : Segments[k].start \in Addr /\ Segments[k].end \in Nat
                             /\ Segments[k].start < Segments[k].end
\* DATA_SEGMENTS: a struct fits its segment, and no other segment has its start.
ASSUME StructsApart ==
  \A k \in DOMAIN Segments : Segments[k].struct =>
    /\ Segments[k].start + StructLen <= Segments[k].end
    /\ \A j \in DOMAIN Segments \ {k} : Segments[k].start \notin Segments[j].start .. Segments[j].end - 1
\* A table has one entry for a PC.
ASSUME InputsAssumption ==
  \A a \in Inputs : \A d, e \in a.dispatch : d.pc = e.pc /\ d.pc # Malformed => d = e

VARIABLES
  db, saved,     \* the program, and what is on disk of it
  ann,           \* what this run reads
  todo,          \* what is left of the step at work: seeds, segments, sites, regions
  structs,       \* struct_meta: the segments that got their struct
  out,           \* the files exported
  phase, runs,
  failed,        \* history: the references this run printed as failed
  lost           \* history: the instructions that typing variables cleared in this run
vars == <<db, saved, ann, todo, structs, out, phase, runs, failed, lost>>

Parsed(S) == S \ {Malformed}
Sites(entries) == Parsed({e.pc : e \in entries})
SegmentBytes(s) == s.start .. s.end - 1
InSegment(a) == \E k \in DOMAIN Segments : a \in SegmentBytes(Segments[k])
Label(a, kind) == <<a, kind>>

(******************** the loaders of annotations.toml **********************)
\* Entries that do not parse are dropped, their other fields kept.
LoadDispatch(a) == {[pc |-> e.pc, targets |-> Parsed(e.targets)] :
                      e \in {d \in a.dispatch : d.pc # Malformed}}
LoadBranch(a) == Parsed(a.branch)
LoadOpcode(a) == Parsed(a.opcode)
LoadSignatures(a) == {s \in a.signatures : s.pc # Malformed}
LoadValueNames(a) == {n \in a.names : n.var # Malformed /\ n.value # Malformed}

\* Both tables go to one map, the regions after the functions.
Regions(a) == Parsed(a.regions)
Annotated(a) == Parsed(a.regions) \union Parsed(a.functions)

\* The compares with an immediate whose variable names that value.
EquateSites(a) ==
  {[pc |-> s[1].pc, value |-> s[2].value, name |-> s[2].name] :
     s \in {x \in a.facts \X LoadValueNames(a) :
                     x[1].mode = "imm" /\ x[1].var = x[2].var /\ x[1].value = x[2].value}}

(************************ discovery of patched code ************************)
Writers(p, as) == {r[1] : r \in {w \in p.writes : w[2] \in as}}

\* Mutant of DispatchSites: only the low byte of the operand is looked at.
DispatchSites_LowByte(p) ==
  {<<i, Writers(p, {i + 1})>> : i \in {c \in p.code : /\ Code[c].mnem \in {"JSR", "JMP"}
                                                       /\ Writers(p, {c + 1}) # {}}}

DispatchSites(p) ==
  {<<i, Writers(p, {i + 1, i + 2})>> : i \in {c \in p.code : /\ Code[c].mnem \in {"JSR", "JMP"}
                                                              /\ Writers(p, {c + 1, c + 2}) # {}}}
BranchSites(p) ==
  {<<i, Writers(p, {i + 1})>> : i \in {c \in p.code : /\ Code[c].mnem = "branch"
                                                       /\ Writers(p, {c + 1}) # {}}}

\* The nearest instruction two to seven bytes before the writer is the only
\* one looked at.
TraceImm(p, w) ==
  LET before == {a \in p.code : w - a \in 2 .. 7}
      last == CHOOSE a \in before : \A b \in before : b <= a
  IN  IF before # {} /\ Code[last].mnem = "LD" THEN Code[last].imm ELSE NoData
\* A traced value that is the opcode of another instruction is a candidate.
Candidates(p, i) ==
  {TraceImm(p, w) : w \in Writers(p, {i})} \intersect
    ({"JSR", "JMP", "LD", "ST", "branch", "RTS"} \ {Code[i].mnem})
OpcodeSites(p) == {<<i, Writers(p, {i}), Candidates(p, i)>> :
                     i \in {c \in p.code : Writers(p, {c}) # {}}}

\* An exported catalogue: the annotated and the discovered sites, merged.
Catalogue(annotated, discovered) ==
  [a \in annotated \union {s[1] : s \in discovered} |->
     [annotated |-> a \in annotated, found |-> {s \in discovered : s[1] = a}]]
NoCatalogue == [a \in {} |-> {}]

(************************** the steps of a run *****************************)
Init ==
  /\ db = EmptyProgram /\ saved = EmptyProgram
  /\ ann \in Inputs /\ todo = {} /\ structs = {} /\ runs = 0 /\ phase = "idle"
  /\ failed = {} /\ lost = {}
  /\ out = [dispatch |-> NoCatalogue, branch |-> NoCatalogue, opcode |-> NoCatalogue,
            symbols |-> {}, segments |-> {}, listing |-> {}, decompiled |-> {}]

\* A step of the run: the phase it belongs to and the one it leads to.
Step(from, to) == phase = from /\ phase' = to /\ UNCHANGED <<ann, saved, runs, lost>>

\* Only ApplyDispatch adds references that may fail.
Sure(from, to) == Step(from, to) /\ UNCHANGED failed

Start ==
  /\ phase = "idle" /\ runs < MaxRuns /\ runs' = runs + 1
  /\ ann' \in Inputs
  /\ todo' = {a \in ann'.entrypoints \union Landmarks : a \in Addr}
  /\ structs' = {} /\ failed' = {} /\ lost' = {} /\ phase' = "labels"
  /\ UNCHANGED <<db, saved, out>>

ApplyLabels ==
  /\ Sure("labels", "disassemble")
  /\ db' = [db EXCEPT !.labels = @ \union {Label(a, "landmark") : a \in Landmarks}
                                   \union {Label(a, "state") : a \in StateLabels}]
  /\ UNCHANGED <<todo, structs, out>>

\* The seeds in ascending order; one that fails is passed over.
ForceDisassemble ==
  /\ Sure("disassemble", "disassemble")
  /\ \E pc \in todo :
       /\ \A other \in todo : pc <= other
       /\ todo' = todo \ {pc}
       /\ db' = IF pc \in db.code \union Unreadable THEN db ELSE Disassembled(db, {pc})
  /\ UNCHANGED <<structs, out>>

\* createFunction may raise where nothing is disassembled.
CreateFunctions(p, as) == [p EXCEPT !.funcs = @ \union (as \intersect p.code)]
PromoteLandmarks ==
  /\ todo = {} /\ Sure("disassemble", "segments")
  /\ db' = CreateFunctions(db, Landmarks)
  /\ todo' = DOMAIN Segments
  /\ UNCHANGED <<structs, out>>

\* Mutant of MarkData: whatever is in the segment is cleared.
MarkData_ClearsCode(p, bytes) == CreateUnits(ClearCodeUnits(p, bytes), bytes, "byte")

\* _mark_data_segment: data units of another type that start here are
\* cleared, instructions stay, a byte goes wherever there is room.
MarkData(p, bytes) ==
  CreateUnits(ClearCodeUnits(p, {a \in (DataStarts(p) \intersect bytes) \ p.code :
                                    p.data[a] # "byte"}),
              bytes \ p.code, "byte")

\* The struct array goes at the start of its segment, in place of the data
\* there, unless an instruction starts in it or a unit reaches into it.
StructArea(s) == s.start .. s.start + StructLen - 1
Blocked(p, s) == p.code \intersect StructArea(s) # {}

\* Mutant of Emptied: only the bytes placed before are cleared.
Emptied_Bytes(p, s) ==
  ClearCodeUnits(p, {a \in DataStarts(p) \intersect StructArea(s) : p.data[a] = "byte"})

Emptied(p, s) == ClearCodeUnits(p, DataStarts(p) \intersect StructArea(s))

StructPlaced(p, s) == ~Blocked(p, s) /\ CanCreate(Emptied(p, s), s.start, "struct")
ApplyStruct(p, s) ==
  IF Blocked(p, s) THEN p
  ELSE IF StructPlaced(p, s) THEN CreateData(Emptied(p, s), s.start, "struct")
  ELSE Emptied(p, s)

Upper(s) == s.start + StructLen .. s.end - 1

\* The segments in the order of DATA_SEGMENTS.
MarkSegment ==
  /\ Sure("segments", "segments")
  /\ \E k \in todo :
       /\ \A other \in todo : k <= other
       /\ todo' = todo \ {k}
       /\ LET s == Segments[k]
          IN  IF s.struct
                THEN /\ db' = MarkData(ApplyStruct(db, s), Upper(s))
                     /\ structs' = IF StructPlaced(db, s) THEN structs \union {k} ELSE structs
                ELSE db' = MarkData(db, SegmentBytes(s)) /\ UNCHANGED structs
  /\ UNCHANGED out

SegmentNames ==
  /\ todo = {} /\ Sure("segments", "bands")
  /\ LET starts == {Segments[k].start : k \in DOMAIN Segments}
     IN  db' = [db EXCEPT !.labels = @ \union {Label(a, "segment") : a \in starts},
                          !.plate = [a \in Addr |-> IF a \in starts THEN "segment" ELSE @[a]]]
  /\ UNCHANGED <<todo, structs, out>>

AnnotateBands ==
  /\ Sure("bands", "dispatch")
  /\ db' = [db EXCEPT !.plate = [a \in Addr |-> IF a \in Bands THEN "band" ELSE @[a]]]
  /\ UNCHANGED <<todo, structs, out>>

\* Mutant of Replaced: the references of an earlier run stay.
Replaced_None(sites) == {}

\* Computed references of an annotated site to its targets, in place of the
\* computed references it has; a site without targets is left alone.
Replaced(sites) == {e.pc : e \in {x \in sites : x.targets # {}}}
RefType(pc) == IF pc \in db.code /\ Code[pc].mnem = "JMP" THEN "jump" ELSE "call"
JumpTable(e) == {<<e.pc, t, RefType(e.pc)>> : t \in e.targets}

\* A reference that cannot be added is printed, and the next one is tried.
ApplyDispatch ==
  /\ Step("dispatch", "equates")
  /\ LET sites == LoadDispatch(ann)
         wanted == UNION {JumpTable(e) : e \in sites}
     IN  /\ failed' \in SUBSET wanted
         /\ db' = [db EXCEPT !.calls = {r \in @ : r[1] \notin Replaced(sites)}
                                         \union (wanted \ failed')]
  /\ todo' = EquateSites(ann)
  /\ UNCHANGED <<structs, out>>

\* Mutant of Equatable: the operand is not looked at.
Equatable_Unchecked(p, s) ==
  /\ s.pc \in p.code
  /\ \A v \in p.values : v[1] = s.name => v[2] = s.value

\* A site whose instruction does not hold that value is passed over, and so
\* is one whose name stands for another value.
Equatable(p, s) ==
  /\ s.pc \in p.code /\ Code[s.pc].imm = s.value
  /\ \A v \in p.values : v[1] = s.name => v[2] = s.value
\* The sites in the order of cmp_facts.json: any order.  Of the sites of one
\* operand the first counts.
ApplyEquates ==
  /\ Sure("equates", "equates")
  /\ \E s \in todo :
       /\ todo' = {r \in todo : <<r.pc, r.value>> # <<s.pc, s.value>>}
       /\ db' = IF Equatable(db, s)
                  THEN [db EXCEPT !.values = @ \union {<<s.name, s.value>>},
                                  !.equates = @ \union {<<s.pc, s.name>>}]
                  ELSE db
  /\ UNCHANGED <<structs, out>>

\* An exception of the analysis is printed and the run goes on.
Analyze ==
  /\ todo = {} /\ Sure("equates", "signatures")
  /\ db' \in {Analysed(db), db}
  /\ UNCHANGED <<todo, structs, out>>

ApplySignatures ==
  /\ Sure("signatures", "catalogues")
  /\ LET sigs == LoadSignatures(ann)
         p == CreateFunctions(db, {s.pc : s \in {x \in sigs : x.named}})
     IN  db' = [p EXCEPT !.typed = @ \union (p.funcs \intersect {s.pc : s \in {x \in sigs : x.parses}})]
  /\ UNCHANGED <<todo, structs, out>>

\* The three catalogues are files of their own.
ExportDispatch ==
  /\ Sure("catalogues", "branches")
  /\ out' = [out EXCEPT !.dispatch =
       Catalogue({e.pc : e \in LoadDispatch(ann)}, DispatchSites(db))]
  /\ UNCHANGED <<db, todo, structs>>
ExportBranch ==
  /\ Sure("branches", "opcodes")
  /\ out' = [out EXCEPT !.branch = Catalogue(LoadBranch(ann), BranchSites(db))]
  /\ UNCHANGED <<db, todo, structs>>
ExportOpcode ==
  /\ Sure("opcodes", "plates")
  /\ out' = [out EXCEPT !.opcode = Catalogue(LoadOpcode(ann), OpcodeSites(db))]
  /\ UNCHANGED <<db, todo, structs>>

PushComments ==
  /\ Sure("plates", "types")
  /\ db' = [db EXCEPT !.plate = [a \in Addr |-> IF a \in Annotated(ann) THEN "annotation" ELSE @[a]]]
  /\ todo' = Regions(ann) \intersect Addr
  /\ UNCHANGED <<structs, out>>

\* Mutant of IsVariable: the segments are not looked at.
IsVariable_AnySegment(p, a) == a \notin p.code /\ p.data[a] \in {NoData, "undefined"}

\* A named region outside the segments becomes a byte, unless an instruction
\* or a typed unit starts there.
IsVariable(p, a) == ~InSegment(a) /\ a \notin p.code /\ p.data[a] \in {NoData, "undefined"}

\* Mutant of TypeByte: nothing is cleared first.
TypeByte_Unclear(p, a) == CreateUnits(p, {a}, "byte")

\* What is in the way is cleared first.
TypeByte(p, a) == CreateUnits(ClearCodeUnits(p, {a}), {a}, "byte")

\* The regions in the order of the file: any order.
ApplyTypes ==
  /\ phase = "types"
  /\ \E a \in todo :
       /\ todo' = todo \ {a}
       /\ db' = IF IsVariable(db, a) THEN TypeByte(db, a) ELSE db
  /\ lost' = lost \union (db.code \ db'.code)
  /\ UNCHANGED <<phase, ann, saved, runs, structs, out, failed>>

\* The units of a segment, and the layout of those that got their struct.
SegmentRow(k) == [units |-> DataStarts(db) \intersect SegmentBytes(Segments[k]),
                  struct |-> k \in structs]

\* Three files, written one after the other.
ExportSymbols ==
  /\ todo = {} /\ Sure("types", "rows")
  /\ out' = [out EXCEPT !.symbols = db.labels]
  /\ UNCHANGED <<db, todo, structs>>
ExportSegments ==
  /\ Sure("rows", "listing")
  /\ out' = [out EXCEPT !.segments = [k \in DOMAIN Segments |-> SegmentRow(k)]]
  /\ UNCHANGED <<db, todo, structs>>
ExportListing ==
  /\ Sure("listing", "decompile")
  /\ out' = [out EXCEPT !.listing =
       {<<a, {q[2] : q \in {x \in db.equates : x[1] = a}}>> : a \in db.code}]
  /\ UNCHANGED <<db, todo, structs>>

\* Functions that do not decompile are passed over; the program is saved.
Decompile ==
  /\ phase = "decompile" /\ phase' = "idle" /\ saved' = db
  /\ \E done \in SUBSET db.funcs :
       /\ Cardinality(done) <= MaxDecompile
       /\ out' = [out EXCEPT !.decompiled = @ \union done]
  /\ UNCHANGED <<db, ann, todo, structs, runs, failed, lost>>

\* A step raises, with the program saved on the way out, or the process is
\* killed: the files exported so far stay.
Raise ==
  /\ phase # "idle" /\ phase' = "idle" /\ saved' = db
  /\ UNCHANGED <<db, ann, todo, structs, out, runs, failed, lost>>
Kill ==
  /\ phase # "idle" /\ phase' = "idle" /\ db' = saved
  /\ UNCHANGED <<saved, ann, todo, structs, out, runs, failed, lost>>

Working ==
  \/ Start \/ ApplyLabels \/ ForceDisassemble \/ PromoteLandmarks \/ MarkSegment
  \/ SegmentNames \/ AnnotateBands \/ ApplyDispatch \/ ApplyEquates \/ Analyze
  \/ ApplySignatures \/ ExportDispatch \/ ExportBranch \/ ExportOpcode
  \/ PushComments \/ ApplyTypes \/ ExportSymbols \/ ExportSegments \/ ExportListing \/ Decompile
Next == Working \/ Raise \/ Kill
Spec == Init /\ [][Next]_vars

(******************************* properties ********************************)
IsProgram(p) ==
  /\ DOMAIN p = Fields
  /\ p.code \subseteq {a \in Addr : Code[a] # NoCode}
  /\ p.data \in [Addr -> DataTypes \union {NoData}]

\* The program at work and the one on disk are well formed.
TypeOK == IsProgram(db) /\ IsProgram(saved)

\* A struct layout once on disk stays there, whatever later runs clear in its
\* way, mark, analyse and type, and wherever they stop: what is cleared for
\* the array is always placed again.
StructsLast ==
  [][\A k \in DOMAIN Segments :
       Segments[k].struct /\ saved.data[Segments[k].start] = "struct"
         => saved'.data[Segments[k].start] = "struct"]_vars

\* Segments, structs and the analysis take no instruction away, in whatever
\* segment it is: "real code that the seg-table mis-classified" stays.
InstructionsKept == [][Working /\ ~ApplyTypes => db.code \subseteq db'.code]_vars

\* _apply_state_var_types "skips addresses currently disassembled as
\* instructions - applying data to part of an instruction would clobber it".
InstructionsSkipped == [][ApplyTypes => db.code \subseteq db'.code]_vars

\* When a run has exported everything, the catalogues list the annotated
\* sites and exactly the patched sites of the program as it then is: nothing
\* after their export makes them stale, unless it cleared instructions.
CataloguesExact ==
  phase = "decompile" /\ lost = {} =>
    /\ out.dispatch = Catalogue({e.pc : e \in LoadDispatch(ann)},
         {<<i, Writers(db, {i + 1, i + 2})>> :
            i \in {c \in db.code : Code[c].mnem \in {"JSR", "JMP"} /\ Writers(db, {c + 1, c + 2}) # {}}})
    /\ out.branch = Catalogue(LoadBranch(ann), BranchSites(db))
    /\ out.opcode = Catalogue(LoadOpcode(ann), OpcodeSites(db))

Late == {"equates", "signatures", "catalogues", "branches", "opcodes", "plates", "types", "rows",
         "listing", "decompile"}
Failed(pc) == {r[2] : r \in {x \in failed : x[1] = pc}}

\* A site annotated with targets refers to those of them that could be added
\* and to no other, to the end of the run and however many runs with other
\* annotations went before, unless its instruction was cleared.
TargetsCurrent ==
  phase \in Late =>
    \A e \in LoadDispatch(ann) :
      e.targets # {} /\ e.pc \notin lost => {r[2] : r \in {x \in db.calls : x[1] = e.pc}} = e.targets \ Failed(e.pc)

\* A name is shown only for an operand that holds its value, though the
\* compares may come from a cmp_facts.json made for another image, and a
\* name never stands for two values over the runs.
EquatesTrue ==
  /\ \A q \in db.equates : <<q[2], Code[q[1]].imm>> \in db.values
  /\ \A v, w \in db.values : v[1] = w[1] => v[2] = w[2]

\* segments.json shows the struct layout for the segments that hold it when
\* the run ends, and only for these: no later segment has cleared it, and the
\* listing has no instruction in it.
StructsShown ==
  phase = "decompile" =>
    \A k \in DOMAIN Segments :
      out.segments[k].struct <=> /\ Segments[k].struct
                                 /\ db.data[Segments[k].start] = "struct"
                                 /\ StructArea(Segments[k]) \intersect
                                      UNION {CodeSpan(l[1]) : l \in out.listing} = {}

\* When all is exported every region outside the segments is a byte, whatever
\* data the analysis had put there, or an instruction starts there.  What
\* becomes of a region in the span of an instruction that was cleared is
\* InstructionsSkipped's.
RegionsTyped ==
  phase = "decompile" =>
    \A a \in (Regions(ann) \intersect Addr) \ UNION {CodeSpan(i) : i \in lost} :
      InSegment(a) \/ a \in db.code \/ db.data[a] = "byte"
==============================================================================
