---------------------------- MODULE CodeDiscovery ----------------------------
(***************************************************************************)
(* How emit_defmon_source.py decides which bytes are code:                 *)
(*  - expand_code_starts grows the seeds (trace PCs and SEED_LANDMARKS)    *)
(*    round by round along fall-through and static targets;                *)
(*  - classify then sweeps the result in ascending order and accepts an    *)
(*    instruction unless an accepted one already claims its bytes.         *)
(* One step is one iteration of a loop.  The order in which a round visits *)
(* its set of addresses is Python's set order, hence any order.            *)
(***************************************************************************)
EXTENDS CodeImage

CONSTANTS
  Images,    \* the images considered
  SeedSets   \* the seed sets considered; seeds may lie outside the image

ASSUME ImagesAssumption == Images \subseteq [Addr -> Decode]
ASSUME SeedsAssumption == SeedSets \subseteq SUBSET Nat

VARIABLES
  img,       \* the image (never changes)
  seeds,     \* the seeds handed to expand_code_starts (never change)
  phase,     \* "expand", "classify", then "done"
  code,      \* code: every address found so far
  todo,      \* the part of `pending` this round has yet to visit
  nxt,       \* nxt: what this round has contributed
  rest,      \* the code starts the sorted sweep has yet to consider
  instr,     \* the keys of instr_at
  consumed   \* consumed: operand bytes of the accepted instructions

vars == <<img, seeds, phase, code, todo, nxt, rest, instr, consumed>>

Init ==
  /\ img \in Images
  /\ seeds \in SeedSets
  /\ phase = "expand"
  /\ code = seeds \cap Addr
  /\ todo = code
  /\ nxt = {} /\ rest = {} /\ instr = {} /\ consumed = {}

\* Mutant of Visit: RTS and JMP fall through too.
Visit_AlwaysFallsThrough(p) ==
  /\ phase = "expand" /\ p \in todo
  /\ todo' = todo \ {p}
  /\ nxt' = nxt \cup Successors(img, p) \cup (IF Fits(img, p) THEN {p + img[p].n} ELSE {})
  /\ UNCHANGED <<img, seeds, phase, code, rest, instr, consumed>>

Visit(p) ==
  /\ phase = "expand" /\ p \in todo
  /\ todo' = todo \ {p}
  /\ nxt' = nxt \cup Successors(img, p)
  /\ UNCHANGED <<img, seeds, phase, code, rest, instr, consumed>>

\* Mutant of NextRound: `code |= nxt` runs before `pending = nxt - code`.
NextRound_CodeFirst ==
  /\ phase = "expand" /\ todo = {} /\ nxt \ code # {}
  /\ code' = code \cup nxt
  /\ todo' = nxt \ code'
  /\ nxt' = {}
  /\ UNCHANGED <<img, seeds, phase, rest, instr, consumed>>

NextRound ==
  /\ phase = "expand" /\ todo = {} /\ nxt \ code # {}
  /\ todo' = nxt \ code
  /\ code' = code \cup nxt
  /\ nxt' = {}
  /\ UNCHANGED <<img, seeds, phase, rest, instr, consumed>>

\* Mutant of Expanded: the first round is the last.
Expanded_OneRound ==
  /\ phase = "expand" /\ todo = {}
  /\ phase' = "classify"
  /\ nxt' = {}
  /\ rest' = code
  /\ UNCHANGED <<img, seeds, code, todo, instr, consumed>>

Expanded ==
  /\ phase = "expand" /\ todo = {} /\ nxt \subseteq code
  /\ phase' = "classify"
  /\ nxt' = {}
  /\ rest' = code
  /\ UNCHANGED <<img, seeds, code, todo, instr, consumed>>

\* Mutants of Claimed: the opcode byte itself is not tested; the next byte is
\* tested against every code start.
Claimed_OperandsOnly(p) ==
  \/ Operands(img, p) \cap consumed # {}
  \/ p + 1 < End /\ p + 1 \in instr
Claimed_NextIsStart(p) ==
  \/ p \in consumed
  \/ Operands(img, p) \cap consumed # {}
  \/ p + 1 < End /\ p + 1 \in code

\* classify's three reasons to pass over a start that does decode.
Claimed(p) ==
  \/ p \in consumed
  \/ Operands(img, p) \cap consumed # {}
  \/ p + 1 < End /\ p + 1 \in instr

IsNext(p) == phase = "classify" /\ p \in rest /\ \A q \in rest : p <= q

Accept(p) ==
  /\ IsNext(p)
  /\ Fits(img, p) /\ ~Claimed(p)
  /\ instr' = instr \cup {p}
  /\ consumed' = consumed \cup Operands(img, p)
  /\ rest' = rest \ {p}
  /\ UNCHANGED <<img, seeds, phase, code, todo, nxt>>

PassOver(p) ==
  /\ IsNext(p)
  /\ Fits(img, p) => Claimed(p)
  /\ rest' = rest \ {p}
  /\ UNCHANGED <<img, seeds, phase, code, todo, nxt, instr, consumed>>

Classified ==
  /\ phase = "classify" /\ rest = {}
  /\ phase' = "done"
  /\ UNCHANGED <<img, seeds, code, todo, nxt, rest, instr, consumed>>

Next ==
  \/ \E p \in todo : Visit(p)
  \/ NextRound
  \/ Expanded
  \/ \E p \in rest : Accept(p) \/ PassOver(p)
  \/ Classified

Spec == Init /\ [][Next]_vars

\* A single-threaded program: it keeps taking its next step.
FairSpec == Spec /\ WF_vars(Next)

------------------------------------------------------------------------------

\* Types: code starts never leave Start..End (End itself can be one, by falling
\* off the image), and an instruction never reaches beyond the image.
TypeOK ==
  /\ img \in Images
  /\ seeds \in SeedSets
  /\ phase \in {"expand", "classify", "done"}
  /\ code \subseteq Start .. End
  /\ todo \subseteq code
  /\ nxt \subseteq Start .. End
  /\ rest \subseteq code
  /\ instr \subseteq Addr
  /\ consumed \subseteq Addr

Closed(S) == \A p \in S : Successors(img, p) \subseteq S

\* expand_code_starts invents nothing: whatever it has found lies in every
\* set that holds the in-image seeds and is closed under Successors.
FoundIsReachable ==
  \A C \in SUBSET (Start .. End) :
    seeds \cap Addr \subseteq C /\ Closed(C) => code \cup nxt \subseteq C

\* expand_code_starts misses nothing: once the rounds stop, the code starts
\* are closed under fall-through and static targets, whatever the set order.
ExpansionIsClosed == phase # "expand" => seeds \cap Addr \subseteq code /\ Closed(code)

\* No byte is decoded twice: in address order each accepted instruction ends
\* before the next one begins, and `consumed` is their operands exactly.
NoOverlap ==
  /\ \A p, q \in instr : p < q => p + img[p].n <= q
  /\ consumed = UNION {Operands(img, p) : p \in instr}

\* A start that decodes is passed over only because its own opcode byte is an
\* operand of an accepted, earlier instruction: the two further tests classify
\* makes (an operand byte claimed, the next byte accepted) never decide alone.
LostOnlyToEarlier ==
  \A p \in code \ rest :
    phase # "expand" /\ Fits(img, p) /\ p \notin instr =>
      \E q \in instr : q < p /\ p < q + img[q].n

\* The rounds of expand_code_starts are one way to compute a closure: they
\* implement the abstract search, whose answer does not depend on any order.
Search == INSTANCE Closure WITH
            Node  <- Start .. End,
            roots <- seeds \cap Addr,
            edges <- [p \in Start .. End |-> Successors(img, p)],
            found <- code,
            done  <- phase # "expand"
ImplementsClosure == Search!FairSpec

==============================================================================
