------------------------------- MODULE CmpFacts -------------------------------
(***************************************************************************)
(* tools/re/cmp_facts.py: what a conditional branch tests.  collect_facts  *)
(* searches back from the branch for the instruction that set its flag,    *)
(* then walks back from that setter for the value of the register it       *)
(* consumes.  A frame of `frames` is a call of _resolve_lhs or of          *)
(* _resolve_pla_source, a step one iteration of its loop.  Addresses are   *)
(* instruction indices: pc + n is pc + 1.  Y behaves as X and immediate    *)
(* and indirect operands as variables, so A, X and named operands stand    *)
(* for them; INX stands for DEX, ASL for the other accumulator shifts, ADC *)
(* for the other unnamed arithmetic.                                       *)
(***************************************************************************)
EXTENDS Integers, FiniteSets, SequencesExt

CONSTANTS
  Programs,      \* the classified programs: sequences of [op, arg]
  MaxSkip,       \* max_skip
  MaxWalkSteps,  \* _MAX_WALK_STEPS
  MaxPlaDepth    \* _MAX_PLA_DEPTH

ASSUME ProgramsAssumption == \A p \in Programs : Len(p) \in Nat /\ DOMAIN p = 1 .. Len(p)
ASSUME BoundsAssumption == MaxSkip \in Nat /\ MaxWalkSteps \in Nat /\ MaxPlaDepth \in Nat

VARIABLES
  prog,      \* instr_at (never changes)
  branch,    \* the branch asked about (never changes)
  phase,     \* "setter", "walk", "done"
  setter,    \* setter_pc; while searching, the address looked at; 0 = None
  skipped,   \* skipped
  frames,    \* the calls under way, innermost last
  lhs,       \* the answer
  dropped    \* not in the code: the answer leaves out what some path feeds

vars == <<prog, branch, phase, setter, skipped, frames, lhs, dropped>>

Op(pc) == prog[pc].op
Arg(pc) == prog[pc].arg

Reg == {"A", "X"}
Branches == {"BNE", "BCC"}
BranchFlag(op) == IF op = "BCC" THEN "C" ELSE "Z"
Barriers == {"JMP", "RTS"}

FlagSetters ==
  [Z |-> {"LDA", "LDX", "LAX", "AND", "ADC", "ASL", "INX", "TAX", "TXA", "TSX",
          "CMP", "CPX", "PLA"},
   C |-> {"CMP", "CPX", "ADC", "ASL", "SEC", "PLP"}]

Loaders == [A |-> {"LDA", "LAX"}, X |-> {"LDX", "LAX"}]
Transforms == [A |-> {"AND", "ASL"}, X |-> {"INX"}]
Transfer == [A |-> "TXA", X |-> "TAX"]
Other == [A |-> "X", X |-> "A"]
NeutralToBoth == {"STA", "CMP", "CPX", "PHA", "PHP", "PLP", "TXS", "SEC", "JMP"} \cup Branches
Neutral ==
  [A |-> NeutralToBoth \cup {"LDX", "INX", "TAX"},
   X |-> NeutralToBoth \cup {"LDA", "TXA", "AND", "ADC", "ASL", "PLA"}]

\* graph.fall_through_in: 0 where there is none.
FallIn(pc) == IF pc > 1 /\ Op(pc - 1) \notin Barriers THEN pc - 1 ELSE 0

JumpsTo(pc) == {s \in DOMAIN prog : Op(s) \in Branches \cup {"JMP"} /\ Arg(s) = pc}

\* The list _preds_of returns; code_in comes in the order of a set.
Listed(pc, jumps) ==
  {(IF FallIn(pc) = 0 THEN <<>> ELSE <<FallIn(pc)>>) \o order : order \in SetToSeqs(jumps)}
Preds(pc) == Listed(pc, JumpsTo(pc))
OtherPreds(pc) == Listed(pc, JumpsTo(pc) \ {pc})
PredSet(pc) == JumpsTo(pc) \cup ({FallIn(pc)} \ {0})

------------------------------------------------------------------------------
(* Answers.  A key names a source; a chain lists the transforms met.         *)

Answer(kind, keys, chain) == [kind |-> kind, keys |-> keys, chain |-> chain]
Unknown == Answer("unknown", {}, <<>>)
FromCaller(reg) == Answer("from_caller", {<<"caller", reg>>}, <<>>)
None == Answer("none", {}, <<>>)

\* The end of _resolve_lhs, with _format_resolved.
Combined(found) ==
  LET keys == {s.key : s \in found}
      chains == {s.chain : s \in found}
  IN CASE keys = {} -> Unknown
       [] Cardinality(keys) > 1 -> Answer("multi_source", keys, <<>>)
       [] OTHER ->
            Answer(IF \E k \in keys : k[1] = "caller" THEN "from_caller" ELSE "var", keys,
                   IF Cardinality(chains) = 1 THEN CHOOSE c \in chains : TRUE ELSE <<>>)

\* _source_key_of_lhs: the answers without a single source look alike.
AnswerKey(r) == IF r.kind \in {"multi_source", "unknown"} THEN <<r.kind>> ELSE <<r.kind, r.keys>>

\* The end of _resolve_pla_source.
Agreed(results) ==
  IF results # <<>> /\ Cardinality({AnswerKey(results[i]) : i \in DOMAIN results}) = 1
  THEN Head(results) ELSE Unknown

------------------------------------------------------------------------------
(* Calls and returns.                                                       *)

LhsFrame(entries, depth) ==
  [kind |-> "lhs", work |-> entries, visited |-> {}, found |-> {}, steps |-> 0, depth |-> depth]
PlaFrame(entries, depth) ==
  [kind |-> "pla", work |-> entries, visited |-> {}, found |-> <<>>, steps |-> 0, depth |-> depth]

Return(stack, r) ==
  IF stack = <<>>
  THEN frames' = <<>> /\ lhs' = r /\ phase' = "done"
  ELSE /\ frames' = [stack EXCEPT ![Len(stack)].found = Append(@, r)]
       /\ phase' = "walk" /\ UNCHANGED lhs

Calls(stack, frame) == frames' = Append(stack, frame) /\ phase' = "walk" /\ UNCHANGED lhs

Entries(preds, reg, chain) ==
  [i \in DOMAIN preds |-> [pc |-> preds[i], reg |-> reg, chain |-> chain]]
Pulls(preds, pending) == [i \in DOMAIN preds |-> [pc |-> preds[i], pending |-> pending]]

ResolveLhs(stack, pc, reg, depth) ==
  IF PredSet(pc) = {} THEN Return(stack, FromCaller(reg))
  ELSE \E preds \in Preds(pc) : Calls(stack, LhsFrame(Entries(preds, reg, <<>>), depth))

ResolvePla(stack, pc, depth) ==
  IF depth > MaxPlaDepth \/ PredSet(pc) = {} THEN Return(stack, Unknown)
  ELSE \E preds \in Preds(pc) : Calls(stack, PlaFrame(Pulls(preds, 1), depth))

Init ==
  /\ prog \in Programs
  /\ branch \in {pc \in DOMAIN prog : Op(pc) \in Branches}
  /\ phase = "setter" /\ setter = FallIn(branch) /\ skipped = 0
  /\ frames = <<>> /\ lhs = None /\ dropped = FALSE

------------------------------------------------------------------------------
(* _find_flag_setter, and what collect_facts makes of the setter.           *)

\* Mutant: a call is taken to leave the flags alone.
Decides_NoCalls(pc) == Op(pc) \in FlagSetters[BranchFlag(Op(branch))]

Decides(pc) == Op(pc) \in FlagSetters[BranchFlag(Op(branch))] \cup {"JSR"}

Skip ==
  /\ setter # 0 /\ skipped < MaxSkip
  /\ ~Decides(setter) /\ Op(setter) \notin Barriers
  /\ setter' = FallIn(setter) /\ skipped' = skipped + 1
  /\ UNCHANGED <<phase, frames, lhs, dropped>>

NoSetter ==
  /\ setter # 0 => ~Decides(setter) /\ (Op(setter) \in Barriers \/ skipped = MaxSkip)
  /\ setter' = 0 /\ lhs' = Unknown /\ phase' = "done"
  /\ UNCHANGED <<skipped, frames, dropped>>

\* _reg_for_setter; "" for the setters that test their operand.
WalkReg(op) ==
  CASE op \in {"CMP", "AND", "ADC", "ASL", "TAX"} -> "A"
    [] op \in {"CPX", "INX", "TXA"} -> "X"
    [] OTHER -> ""

Named == {"LDA", "LDX", "LAX"}

Found ==
  /\ setter # 0 /\ Decides(setter)
  /\ CASE Op(setter) = "JSR" -> Return(<<>>, Answer("jsr_flag", {<<"return", Arg(setter)>>}, <<>>))
       [] Op(setter) = "PLA" -> ResolvePla(<<>>, setter, 0)
       [] WalkReg(Op(setter)) # "" -> ResolveLhs(<<>>, setter, WalkReg(Op(setter)), 0)
       [] Op(setter) \in Named -> Return(<<>>, Answer("var", {<<"var", Arg(setter)>>}, <<>>))
       [] OTHER -> Return(<<>>, Unknown)
  /\ UNCHANGED <<setter, skipped, dropped>>

FindSetter == phase = "setter" /\ (Skip \/ NoSetter \/ Found)

------------------------------------------------------------------------------
(* One iteration of a walk pops an entry w of the innermost frame.          *)

Top == Last(frames)
Below == Front(frames)
Popped == [Top EXCEPT !.work = Front(@), !.steps = @ + 1]

Key(w) == IF Top.kind = "lhs" THEN <<w.pc, w.reg>> ELSE <<w.pc, w.pending>>

Expanded(w) == [Popped EXCEPT !.visited = @ \cup {Key(w)}]
Push(frame, entries) == Calls(Below, [frame EXCEPT !.work = @ \o entries])

\* Leaving a walk at once forgets its other paths.
Forgets == Popped.work # <<>> \/ Top.found # {}

EndWalk ==
  /\ Top.work = <<>>
  /\ Return(Below, IF Top.kind = "lhs" THEN Combined(Top.found) ELSE Agreed(Top.found))
  /\ dropped' = (dropped \/ (Top.kind = "pla" /\ Cardinality({r.keys : r \in Range(Top.found)}) > 1))

OutOfSteps ==
  Top.work # <<>> /\ Top.steps >= MaxWalkSteps /\ Return(Below, Unknown) /\ UNCHANGED dropped

Revisit(w) == Key(w) \in Top.visited /\ Push(Popped, <<>>) /\ UNCHANGED dropped

Load(w) ==
  /\ Op(w.pc) \in Loaders[w.reg]
  /\ Calls(Below, [Expanded(w) EXCEPT !.found = @ \cup {[key |-> <<"var", Arg(w.pc)>>, chain |-> w.chain]}])
  /\ UNCHANGED dropped

\* Mutant: the chain holds the last transform only.
Through_LastOnly(w) ==
  /\ Op(w.pc) \in Transforms[w.reg] \cup {Transfer[w.reg]}
  /\ LET reg == IF Op(w.pc) = Transfer[w.reg] THEN Other[w.reg] ELSE w.reg
     IN \E preds \in Preds(w.pc) : Push(Expanded(w), Entries(preds, reg, <<Op(w.pc)>>))
  /\ dropped' = (dropped \/ PredSet(w.pc) = {})

\* A transfer or a transform at the front of a function has nothing to push.
Through(w) ==
  /\ Op(w.pc) \in Transforms[w.reg] \cup {Transfer[w.reg]}
  /\ LET reg == IF Op(w.pc) = Transfer[w.reg] THEN Other[w.reg] ELSE w.reg
     IN \E preds \in Preds(w.pc) : Push(Expanded(w), Entries(preds, reg, Append(w.chain, Op(w.pc))))
  /\ dropped' = (dropped \/ PredSet(w.pc) = {})

Compute(w) ==
  /\ w.reg = "A" /\ Op(w.pc) = "ADC"
  /\ Return(Below, Answer("computed_reg", {<<"computed", "A">>}, <<>>))
  /\ dropped' = (dropped \/ Forgets)

Pull(w) ==
  /\ w.reg = "A" /\ Op(w.pc) = "PLA"
  /\ ResolvePla(Below, w.pc, Top.depth + 1)
  /\ dropped' = (dropped \/ Forgets)

Pass(w) ==
  /\ Op(w.pc) \in Neutral[w.reg]
  /\ IF PredSet(w.pc) = {}
     THEN Calls(Below, [Expanded(w) EXCEPT !.found = @ \cup {[key |-> <<"caller", w.reg>>, chain |-> w.chain]}])
     ELSE \E preds \in OtherPreds(w.pc) : Push(Expanded(w), Entries(preds, w.reg, w.chain))
  /\ UNCHANGED dropped

CallReturns(w) ==
  /\ Op(w.pc) = "JSR"
  /\ Return(Below, Answer("jsr_return", {<<"return", Arg(w.pc), w.reg>>}, <<>>))
  /\ dropped' = (dropped \/ Forgets)

GiveUp(w) ==
  /\ Op(w.pc) \notin Loaders[w.reg] \cup Transforms[w.reg] \cup Neutral[w.reg]
                     \cup {Transfer[w.reg], "JSR"}
  /\ ~(w.reg = "A" /\ Op(w.pc) \in {"ADC", "PLA"})
  /\ Return(Below, Unknown) /\ UNCHANGED dropped

LhsStep(w) ==
  /\ Top.kind = "lhs" /\ Key(w) \notin Top.visited
  /\ Load(w) \/ Through(w) \/ Compute(w) \/ Pull(w) \/ Pass(w) \/ CallReturns(w) \/ GiveUp(w)

\* Mutant: the status pushed and pulled is not counted.
Pending_OnlyA(w) ==
  w.pending + (CASE Op(w.pc) = "PLA" -> 1 [] Op(w.pc) = "PHA" -> -1 [] OTHER -> 0)

\* `pending` after the instruction, going back.
Pending(w) ==
  w.pending + (CASE Op(w.pc) \in {"PLA", "PLP"} -> 1 [] Op(w.pc) \in {"PHA", "PHP"} -> -1 [] OTHER -> 0)

Pushed(w) ==
  /\ Op(w.pc) = "PHA" /\ Pending(w) = 0
  /\ ResolveLhs(Append(Below, Expanded(w)), w.pc, "A", Top.depth + 1)

Unmatched(w) ==
  /\ \/ Op(w.pc) = "PHP" /\ Pending(w) = 0
     \/ Op(w.pc) \in {"TXS", "TSX"}
     \/ PredSet(w.pc) = {} /\ ~(Op(w.pc) = "PHA" /\ Pending(w) = 0)
  /\ Return(Below, Unknown)

Balance(w) ==
  /\ Pending(w) # 0 /\ Op(w.pc) \notin {"TXS", "TSX"} /\ PredSet(w.pc) # {}
  /\ \E preds \in Preds(w.pc) : Push(Expanded(w), Pulls(preds, Pending(w)))

PlaStep(w) ==
  /\ Top.kind = "pla" /\ Key(w) \notin Top.visited
  /\ Pushed(w) \/ Unmatched(w) \/ Balance(w)
  /\ UNCHANGED dropped

Walk ==
  /\ phase = "walk"
  /\ \/ EndWalk
     \/ OutOfSteps
     \/ /\ Top.work # <<>> /\ Top.steps < MaxWalkSteps
        /\ LET w == Last(Top.work) IN Revisit(w) \/ LhsStep(w) \/ PlaStep(w)
  /\ UNCHANGED <<setter, skipped>>

Analyze == (FindSetter \/ Walk) /\ UNCHANGED <<prog, branch>>
==============================================================================
