------------------------------- MODULE EmitWalk -------------------------------
(***************************************************************************)
(* The byte walk of emit_source (emit_defmon_source.py): from the first to *)
(* the last address of the image, one iteration of the `while` loop per    *)
(* step, each iteration writing an instruction, a declared text or byte    *)
(* run, or queueing one data byte.  What the assembler will see is         *)
(* abstracted to the order in which image bytes are written, the segment   *)
(* rules around them, and the scope each code label is defined in.         *)
(***************************************************************************)
EXTENDS Integers, Sequences, SequencesExt

CONSTANTS
  Start, End,   \* base and end_excl
  Layouts       \* the classified images and annotations considered

\* A layout holds what the walk is given:
\*   len     instr_at as a function: instruction length, 0 for no instruction
\*   text    [text] entries, address -> encoded length times reps
\*   runs    [byte_runs] entries, address -> encoded length (0 is accepted)
\*   seg     Ghidra segments <<start, end_excl>>
\*   entry   instruction starts with a named annotation (function_blocks)
\*   target  branch_targets, the addresses with an inbound code edge
\*   imm     the LDA/LDX/LDY #imm instructions
ASSUME RangeAssumption == Start \in Nat /\ End \in Nat /\ Start <= End

Addr == Start .. End - 1

VARIABLES
  layout,        \* never changes
  pc,            \* pc
  pending,       \* pending_data, as the addresses of the queued bytes
  pendingStart,  \* pending_start, the address printed beside them
  out,           \* addresses of the bytes written, in file order
  marks,         \* segment rules <<"header"|"footer", address, bytes before it>>
  block,         \* current_block_entry
  defs,          \* code labels defined, <<address, enclosing block>>
  prevImm,       \* prev_imm: the load remembered for the next store
  hints          \* hardware-register comments, <<instruction, load decoded>>

vars == <<layout, pc, pending, pendingStart, out, marks, block, defs, prevImm, hints>>

None == -1   \* no .block open, no load remembered

Instr(l) == {p \in Addr : l.len[p] > 0}
Consumed(l) == UNION {p + 1 .. p + l.len[p] - 1 : p \in Instr(l)}

\* classify keeps instructions inside the image and apart; entries are
\* instructions, and an immediate load is two bytes long.
ASSUME LayoutsAssumption ==
  \A l \in Layouts :
    /\ l.len \in [Addr -> Nat]
    /\ \A p \in Instr(l) : p + l.len[p] <= End
    /\ Instr(l) \cap Consumed(l) = {}
    /\ DOMAIN l.text \subseteq Addr /\ \A a \in DOMAIN l.text : l.text[a] \in Nat
    /\ DOMAIN l.runs \subseteq Addr /\ \A a \in DOMAIN l.runs : l.runs[a] \in Nat
    /\ l.entry \subseteq Instr(l)
    /\ l.imm \subseteq {p \in Instr(l) : l.len[p] = 2}

SegStarts(l) == {s[1] : s \in l.seg} \cap Addr
SegEnds(l) == {s[2] : s \in l.seg} \cap (Start + 1 .. End)

Upto(p, q) == [i \in 1 .. q - p |-> p + i - 1]   \* the addresses p .. q-1

\* Mutant of BlockEnd: a block reaches to the end of the image.
BlockEnd_Image(l, e) == End

\* function_blocks tile the code between named entries.
BlockEnd(l, e) == Min({q \in l.entry : q > e} \cup {End})

\* label_block: the scope every reference assumes for the label at p (None is
\* the top level, where the entries are named).
LabelBlock(l, p) ==
  LET before == {e \in l.entry : e <= p}
  IN IF p \in l.entry \/ before = {} THEN None ELSE Max(before)

Init ==
  /\ layout \in Layouts
  /\ pc = Start /\ pendingStart = Start
  /\ pending = <<>> /\ out = <<>>
  /\ marks = {} /\ defs = {} /\ hints = {}
  /\ block = None /\ prevImm = None

\* Mutant of Header: the rule is written before the queue is flushed.
Header_BeforeFlush ==
  IF pc \in SegStarts(layout) THEN {<<"header", pc, Len(out)>>} ELSE {}

\* The segment rules an iteration from pc to next writes: a header before
\* anything else, after flush_data; a footer when the step ends a segment.
Header == IF pc \in SegStarts(layout) THEN {<<"header", pc, Len(out \o pending)>>} ELSE {}
Footer(next, written) ==
  IF next \in SegEnds(layout) THEN {<<"footer", next, Len(written)>>} ELSE {}

\* Mutant of Written: the bytes overtake the queue.
Written_QueueLast(next) == out \o Upto(pc, next) \o pending

\* flush_data, then the bytes from pc to next.
Written(next) == out \o pending \o Upto(pc, next)

\* A declared run is written whole and stepped over, whatever lies under it.
EmitDeclared(n) ==
  /\ out' = Written(pc + n)
  /\ pending' = <<>>
  /\ pc' = pc + n /\ pendingStart' = pc + n
  /\ marks' = marks \cup Header \cup Footer(pc + n, out')
  /\ UNCHANGED <<layout, block, defs, prevImm, hints>>

EmitText ==
  /\ pc < End /\ pc \in DOMAIN layout.text
  /\ EmitDeclared(layout.text[pc])

EmitRuns ==
  /\ pc < End /\ pc \notin DOMAIN layout.text /\ pc \in DOMAIN layout.runs
  /\ EmitDeclared(layout.runs[pc])

AtPlainByte ==
  pc < End /\ pc \notin DOMAIN layout.text \cup DOMAIN layout.runs

\* Mutant of Loaded: the load survives a branch target.
Loaded_AcrossTargets == prevImm

\* The load this instruction may be decoded against.
Loaded == IF pc \in layout.target THEN None ELSE prevImm

EmitInstruction ==
  LET next   == pc + layout.len[pc]
      closed == IF block # None /\ pc >= BlockEnd(layout, block) THEN None ELSE block
  IN
  /\ AtPlainByte /\ pc \in Instr(layout)
  /\ out' = Written(next)
  /\ pending' = <<>>
  /\ block' = IF pc \in layout.entry THEN pc ELSE closed
  /\ defs' = defs \cup {<<pc, closed>>}
  /\ hints' = IF pc \notin layout.imm /\ Loaded # None
                THEN hints \cup {<<pc, Loaded>>} ELSE hints
  /\ prevImm' = IF pc \in layout.imm THEN pc ELSE None
  /\ marks' = marks \cup Header \cup Footer(next, out')
  /\ pc' = next /\ pendingStart' = next
  /\ UNCHANGED layout

\* "shouldn't reach here": the byte is stepped over, not written.
SkipConsumed ==
  /\ AtPlainByte /\ pc \notin Instr(layout) /\ pc \in Consumed(layout)
  /\ out' = out \o pending
  /\ pending' = <<>>
  /\ marks' = marks \cup Header
  /\ pc' = pc + 1 /\ pendingStart' = pc + 1
  /\ UNCHANGED <<layout, block, defs, prevImm, hints>>

\* Mutant of StartOf: pending_start is left where it was.
StartOf_Stale(queue) == pendingStart

\* pending_start once pc is queued behind `queue`.
StartOf(queue) == IF queue = <<>> THEN pc ELSE pendingStart

QueueData ==
  LET flushed == IF pc \in SegStarts(layout) THEN out \o pending ELSE out
      held    == IF pc \in SegStarts(layout) THEN <<>> ELSE pending
      ends    == pc + 1 \in SegEnds(layout)
  IN
  /\ AtPlainByte /\ pc \notin Instr(layout) \cup Consumed(layout)
  /\ out' = IF ends THEN flushed \o Append(held, pc) ELSE flushed
  /\ pending' = IF ends THEN <<>> ELSE Append(held, pc)
  /\ pendingStart' = IF ends THEN pc + 1
                     ELSE StartOf(held)
  /\ prevImm' = IF held = <<>> THEN None ELSE prevImm
  /\ marks' = marks \cup Header \cup Footer(pc + 1, out')
  /\ pc' = pc + 1
  /\ UNCHANGED <<layout, block, defs, hints>>

\* After the loop: the last flush_data and the last .bend.
Finish ==
  /\ pc >= End /\ (pending # <<>> \/ block # None)
  /\ out' = out \o pending /\ pending' = <<>>
  /\ block' = None
  /\ UNCHANGED <<layout, pc, pendingStart, marks, defs, prevImm, hints>>

Next ==
  \/ EmitText \/ EmitRuns \/ EmitInstruction
  \/ SkipConsumed \/ QueueData \/ Finish

Spec == Init /\ [][Next]_vars

------------------------------------------------------------------------------

Done == pc >= End /\ pending = <<>> /\ block = None

Declared(l) == {<<a, l.text[a]>> : a \in DOMAIN l.text}
          \cup {<<a, l.runs[a]>> : a \in DOMAIN l.runs}

\* What the committed annotations satisfy and nothing in the code checks: a
\* declared run is not empty, ends inside the image and covers only data.
Aligned(l) ==
  \A d \in Declared(l) :
    /\ d[2] > 0 /\ d[1] + d[2] <= End
    /\ (d[1] .. d[1] + d[2] - 1) \cap (Instr(l) \cup Consumed(l)) = {}

\* Types: the walk never runs past Nat, queues only bytes of the image, and
\* only image addresses open blocks or are remembered as loads.
TypeOK ==
  /\ pc \in Nat /\ pendingStart \in Nat
  /\ pending \in Seq(Addr) /\ out \in Seq(Nat)
  /\ marks \subseteq {"header", "footer"} \X (Start .. End) \X Nat
  /\ block \in Addr \cup {None} /\ prevImm \in Addr \cup {None}
  /\ defs \subseteq Addr \X (Addr \cup {None})
  /\ hints \subseteq Addr \X Addr

\* Byte exactness, the point of the emitter: over an aligned layout the bytes
\* written and queued are those of the image before pc, once each, in order,
\* and the queue is the stretch from pending_start, whose addresses are
\* printed beside it, through every flush and segment rule.
ByteExact ==
  /\ Aligned(layout) => pc <= End /\ out \o pending = Upto(Start, pc)
  /\ pending # <<>> => pending = Upto(pendingStart, pc)

\* The addresses an iteration steps over.
Inside(l) ==
  Consumed(l) \cup UNION {d[1] + 1 .. d[1] + d[2] - 1 : d \in Declared(l)}

\* A segment header or footer stands exactly where its address is in the
\* byte stream (no queued byte is overtaken), and at the end none is missing
\* whose address is not inside an instruction or a declared run.
SegmentsBracketed ==
  Aligned(layout) =>
    /\ \A m \in marks : m[3] = m[2] - Start
    /\ Done => {<<"header", a, a - Start>> : a \in SegStarts(layout) \ Inside(layout)}
             \cup {<<"footer", a, a - Start>> : a \in SegEnds(layout) \ Inside(layout)}
             \subseteq marks

\* Every code label is defined in the .block that label_block, from which all
\* references are spelled, says it is in, and at the end none is undefined.
LabelsInScope ==
  Aligned(layout) =>
    /\ \A d \in defs : d[2] = LabelBlock(layout, d[1])
    /\ Done => {d[1] : d \in defs} = Instr(layout)

\* A store is decoded against an immediate only when the load is the very
\* instruction before it and control cannot arrive in between, provided a
\* load is never followed by a declared run.
HintsDecodePrevious ==
  (\A p \in layout.imm : p + 2 \notin DOMAIN layout.text \cup DOMAIN layout.runs) =>
     \A h \in hints : h[1] = h[2] + 2 /\ h[1] \notin layout.target

==============================================================================
