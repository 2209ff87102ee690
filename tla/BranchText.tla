------------------------------ MODULE BranchText ------------------------------
(***************************************************************************)
(* What tools/re/emit_defmon_source.py writes about a straight piece of    *)
(* code that ends in a conditional branch: the enum names it gives to      *)
(* immediates (build_imm_substitutions) and the condition it puts beside   *)
(* the branch (render_condition_from_fact).  A text is kept as its meaning *)
(* and compared with what the processor does.  Addresses are instruction   *)
(* indices, the branch is the last instruction, a word has Size values,    *)
(* and memory is two cells, so that an index selects one or the other.     *)
(***************************************************************************)
EXTENDS Integers, SequencesExt

CONSTANTS
  Programs,  \* sequences of [op, mode, arg]
  Inputs,    \* register_inputs of the block: functions from Reg to Cell or ""
  Enum,      \* value_names: the values of a cell that have a name
  Size,      \* values of a word (256)
  Samples,   \* the values registers and the cell "v" start with
  BitAnd(_, _), BitXor(_, _)   \* the bits of two words

Reg == {"A", "X"}
Cell == {"u", "v"}
Word == 0..(Size - 1)

ASSUME WordAssumption == Size \in Nat \ {0} /\ Size % 4 = 0 /\ Samples \subseteq Word

ASSUME BitsAssumption ==
  \A v, w \in Word : BitAnd(v, w) \in Word /\ BitXor(v, w) \in Word /\ (BitXor(v, w) = 0 <=> v = w)

ASSUME InputsAssumption == Inputs \subseteq [Reg -> Cell \cup {""}]

\* The addressing modes of the instructions before a branch.
Modes(op) ==
  CASE op \in {"LDA", "LDX", "AND", "EOR", "ADC", "SBC", "CMP"} -> {"imm", "abs", "abx"}
    [] op = "CPX" -> {"imm", "abs"}
    [] op \in {"STA", "STX", "INC", "DEC", "BIT"} -> {"abs"}
    [] op \in {"ASL", "LSR"} -> {"acc", "abs"}
    [] op \in {"INX", "DEX", "TAX", "TXA", "SEC", "CLC", "JSR"} -> {"imp"}
    [] OTHER -> {}

\* A piece is straight: it ends in its only branch.
ASSUME ProgramsAssumption ==
  \A P \in Programs :
    /\ Len(P) \in Nat \ {0} /\ DOMAIN P = 1..Len(P)
    /\ P[Len(P)].op \in {"BEQ", "BNE", "BMI", "BPL", "BCS", "BCC", "BVS", "BVC"}
    /\ P[Len(P)].mode = "imp"
    /\ \A p \in 1..(Len(P) - 1) :
         /\ DOMAIN P[p] = {"op", "mode", "arg"} /\ P[p].mode \in Modes(P[p].op)
         /\ P[p].mode = "imm" => P[p].arg \in Word
         /\ P[p].mode \in {"abs", "abx"} => P[p].arg \in Cell

VARIABLES
  prog,    \* instr_at (never changes)
  inputs,  \* register_inputs (never changes)
  here,    \* the instruction the walk of build_imm_substitutions looks at (pc)
  prov,    \* A, X of that walk: <<>>, <<"imm", value, pc>> or <<"var", cell>>
  subs,    \* subs: pc -> the cell whose name the immediate takes
  fact,    \* the lhs of the branch's entry in cmp_facts (never changes)
  text,    \* cond_text, as its meaning
  trace    \* the execution: the machine before each instruction so far

textVars == <<prog, inputs, here, prov, subs, fact, text, trace>>

Op(p) == prog[p].op
Mode(p) == prog[p].mode
Arg(p) == prog[p].arg
Branch == Len(prog)

------------------------------------------------------------------------------
(* The fact about the branch: collect_facts on straight code.               *)

Load == [A |-> "LDA", X |-> "LDX"]
Transfer == [A |-> "TXA", X |-> "TAX"]
Other == [A |-> "X", X |-> "A"]
Compare == [A |-> "CMP", X |-> "CPX"]
Arithmetic == {"AND", "EOR", "ADC", "SBC"}
Shifts == {"ASL", "LSR"}
ZeroSetters == {"LDA", "LDX", "INX", "DEX", "TAX", "TXA", "CMP", "CPX", "BIT", "INC", "DEC"}
                 \cup Arithmetic \cup Shifts
CarrySetters == {"CMP", "CPX", "ADC", "SBC", "SEC", "CLC"} \cup Shifts

Setters(branch) ==
  {"JSR"} \cup (CASE branch \in {"BCC", "BCS"} -> CarrySetters
                  [] branch \in {"BVC", "BVS"} -> {"ADC", "SBC", "BIT"}
                  [] OTHER -> ZeroSetters)

Latest(ps) == IF ps = {} THEN 0 ELSE CHOOSE p \in ps : \A q \in ps : q <= p
Setter == Latest({p \in 1..(Branch - 1) : Op(p) \in Setters(Op(Branch))})

\* at is where the value can be read; lost: transforms the answer leaves out.
Lhs(kind, what, index, at) ==
  [kind |-> kind, what |-> what, index |-> index, at |-> at,
   chain |-> <<>>, post |-> "", lost |-> FALSE]

Operand(p) ==
  IF Mode(p) = "imm" THEN Lhs("imm", Arg(p), FALSE, p) ELSE Lhs("var", Arg(p), Mode(p) = "abx", p)

Opaque(l) == l.kind \in {"computed_reg", "jsr_return"}
Wrapped(l, p) ==
  IF Opaque(l) THEN [l EXCEPT !.lost = @ \/ Op(p) \notin {"TAX", "TXA"}]
  ELSE [l EXCEPT !.chain = <<prog[p]>> \o @]

Transforms(p, r) ==
  IF r = "A" THEN (Op(p) = "AND" /\ Mode(p) = "imm") \/ (Op(p) \in Shifts /\ Mode(p) = "acc")
  ELSE Op(p) \in {"INX", "DEX"}

\* _resolve_lhs for the value of r before p + 1; chains newest first.
Resolve[p \in 0..Branch] ==
  [r \in Reg |->
     CASE p = 0 -> Lhs("from_caller", r, FALSE, 1)
       [] p > 0 /\ Op(p) = Load[r] -> Operand(p)
       [] p > 0 /\ Op(p) = Transfer[r] -> Wrapped(Resolve[p - 1][Other[r]], p)
       [] p > 0 /\ Transforms(p, r) -> Wrapped(Resolve[p - 1][r], p)
       [] p > 0 /\ Op(p) \in Arithmetic /\ r = "A" /\ ~Transforms(p, r) ->
            Lhs("computed_reg", r, FALSE, p + 1)
       [] p > 0 /\ Op(p) = "JSR" -> Lhs("jsr_return", r, FALSE, p + 1)
       [] OTHER -> Resolve[p - 1][r]]

WalkReg(p) ==
  CASE Op(p) \in Arithmetic \cup {"CMP", "TAX"} \/ (Op(p) \in Shifts /\ Mode(p) = "acc") -> "A"
    [] Op(p) \in {"CPX", "INX", "DEX", "TXA"} -> "X"
    [] OTHER -> ""

PostOp(p) ==
  CASE Op(p) \in {"INX", "INC"} -> "INC"
    [] Op(p) \in {"DEX", "DEC"} -> "DEC"
    [] Op(p) \in Shifts /\ Mode(p) = "acc" -> Op(p)
    [] OTHER -> ""

\* _lhs_from_operand_setter and the register setters; "unknown" for the rest.
FactLhs ==
  IF Setter = 0 THEN Lhs("unknown", "", FALSE, 1)
  ELSE CASE Op(Setter) = "JSR" -> Lhs("jsr_flag", "", FALSE, Branch)
         [] WalkReg(Setter) # "" ->
              [Resolve[Setter - 1][WalkReg(Setter)] EXCEPT !.post = PostOp(Setter)]
         [] Mode(Setter) \in {"imm", "abs", "abx"} /\ WalkReg(Setter) = "" ->
              [Operand(Setter) EXCEPT !.post = PostOp(Setter)]
         [] OTHER -> Lhs("unknown", "", FALSE, 1)

\* _rhs_zero_or_none, _rhs_from_register_setter.
RhsKind ==
  CASE Op(Setter) \in {"CMP", "CPX"} -> IF Mode(Setter) = "imm" THEN "imm" ELSE "var"
    [] Op(Setter) \in Shifts /\ Mode(Setter) # "acc" -> "none"
    [] OTHER -> "zero"

Text(form, l, ops) == [form |-> form, lhs |-> l, ops |-> ops]
Silent == Text("none", Lhs("unknown", "", FALSE, 1), <<>>)

TextInit ==
  /\ prog \in Programs /\ inputs \in Inputs /\ fact = FactLhs
  /\ here = 1 /\ prov = [r \in Reg |-> <<>>] /\ subs = <<>> /\ text = Silent /\ trace = <<>>

------------------------------------------------------------------------------
(* build_imm_substitutions.                                                 *)

\* Function-entry seeds: the piece starts a function.
Seeded ==
  [r \in Reg |-> IF here = 1 /\ inputs[r] # "" /\ Enum[inputs[r]] # {}
                 THEN <<"var", inputs[r]>> ELSE prov[r]]

Stores == [A |-> "STA", X |-> "STX"]

\* The immediates the instruction at here gives a name to.
Names ==
  {[at |-> here, cell |-> c] : c \in
     {c \in Cell : \E r \in Reg : /\ Op(here) = Compare[r] /\ Mode(here) = "imm"
                                  /\ Seeded[r] = <<"var", c>> /\ Arg(here) \in Enum[c]}}
  \cup
  {[at |-> Seeded[r][3], cell |-> Arg(here)] : r \in
     {r \in Reg : /\ Op(here) = Stores[r] /\ Mode(here) = "abs"
                  /\ Seeded[r] # <<>> /\ Seeded[r][1] = "imm" /\ Seeded[r][2] \in Enum[Arg(here)]}}

\* Mutant: a transfer leaves the provenance of its destination.
Clears_NotTransfers(r) ==
  \/ Op(here) \in (IF r = "A" THEN Arithmetic ELSE {"INX", "DEX"}) /\ Mode(here) # "abx"
  \/ Op(here) \in Shifts /\ Mode(here) = "acc" /\ r = "A"
  \/ Op(here) = "JSR"

\* The instructions that clear the provenance of r.
Clears(r) ==
  \/ Op(here) \in {Transfer[r]} \cup (IF r = "A" THEN Arithmetic ELSE {"INX", "DEX"}) /\ Mode(here) # "abx"
  \/ Op(here) \in Shifts /\ Mode(here) = "acc" /\ r = "A"
  \/ Op(here) = "JSR"

Provenance(r) ==
  CASE Op(here) = Load[r] /\ Mode(here) = "imm" -> <<"imm", Arg(here), here>>
    [] Op(here) = Load[r] /\ Mode(here) = "abs" -> IF Enum[Arg(here)] # {} THEN <<"var", Arg(here)>> ELSE <<>>
    [] Clears(r) -> <<>>
    [] OTHER -> Seeded[r]

\* subs with more names.
Given(more) == [p \in DOMAIN more \cup DOMAIN subs |-> IF p \in DOMAIN more THEN more[p] ELSE subs[p]]

WalkNames ==
  /\ here <= Branch
  /\ subs' = Given([p \in {n.at : n \in Names} |-> (CHOOSE n \in Names : n.at = p).cell])
  /\ prov' = [r \in Reg |-> Provenance(r)]
  /\ here' = here + 1
  /\ UNCHANGED <<prog, inputs, fact, text, trace>>

\* The supplement pass: the variable the fact names, whatever its transforms.
FactCell ==
  CASE fact.kind = "var" -> fact.what
    [] fact.kind = "from_caller" -> inputs[fact.what]
    [] OTHER -> ""

Supplement ==
  /\ here = Branch + 1
  /\ subs' = IF /\ Setter # 0 /\ Setter \notin DOMAIN subs /\ RhsKind = "imm" /\ FactCell # ""
                /\ Arg(Setter) \in Enum[FactCell]
             THEN Given([p \in {Setter} |-> FactCell]) ELSE subs
  /\ here' = here + 1
  /\ UNCHANGED <<prog, inputs, prov, fact, text, trace>>

------------------------------------------------------------------------------
(* render_condition_from_fact.  A text is the source and the operations   *)
(* the text applies to it, in order.                                        *)

\* The from_caller pivot; that of an immediate names the operand byte.
Pivoted(l) ==
  IF l.kind = "from_caller" /\ inputs[l.what] # ""
  THEN Lhs("var", inputs[l.what], FALSE, l.at) ELSE l

Up == {"INX", "INC"}
Down == {"DEX", "DEC"}
Cancels(i, j) == {i.op, j.op} = {"INX", "DEX"}

\* Mutant: neighbours cancel when they are equal.
Folded_Equal(chain) ==
  LET fold[i \in 0..Len(chain)] ==
        IF i = 0 THEN <<>>
        ELSE IF /\ fold[i - 1] # <<>> /\ Last(fold[i - 1]).op = chain[i].op
                /\ chain[i].op \in {"INX", "DEX"}
             THEN Front(fold[i - 1]) ELSE Append(fold[i - 1], chain[i])
  IN fold[Len(chain)]

\* _fold_transform_chain.
Folded(chain) ==
  LET fold[i \in 0..Len(chain)] ==
        IF i = 0 THEN <<>>
        ELSE IF fold[i - 1] # <<>> /\ Cancels(Last(fold[i - 1]), chain[i])
             THEN Front(fold[i - 1]) ELSE Append(fold[i - 1], chain[i])
  IN fold[Len(chain)]

Implied(op) == [op |-> op, mode |-> "imp", arg |-> 0]
Wrappers(l) == Folded(l.chain) \o (IF l.post = "" THEN <<>> ELSE <<Implied(l.post)>>)

\* _detect_step_idiom.
Steps(l) ==
  /\ Op(Branch) \in {"BPL", "BMI"} /\ RhsKind = "zero" /\ Wrappers(l) # <<>>
  /\ \E direction \in {Up, Down} : \A i \in DOMAIN Wrappers(l) : Wrappers(l)[i].op \in direction

\* _render_setter_operand: the operand of an arithmetic setter, without its index.
Infix ==
  IF Op(Setter) \notin Arithmetic THEN <<>>
  ELSE <<[prog[Setter] EXCEPT !.mode = IF @ = "imm" THEN "imm" ELSE "abs"]>>

\* _SEMANTIC_BY_SETTER.
Semantic ==
  /\ Mode(Setter) # "imm"
  /\ \/ Op(Setter) \in {"ADC", "SBC"} /\ Op(Branch) \in {"BCC", "BCS"}
     \/ Op(Setter) \in {"AND", "EOR"} /\ Op(Branch) \in {"BEQ", "BNE"}

Rendered(l) ==
  CASE Steps(l) -> Text("zero", l, Wrappers(l))
    [] ~Steps(l) /\ Op(Setter) = "BIT" -> Text("bit", l, Wrappers(l))
    [] ~Steps(l) /\ RhsKind \in {"imm", "var"} -> Text("compare", l, Wrappers(l))
    [] ~Steps(l) /\ Semantic -> Text("event", l, <<>>)
    [] OTHER -> IF Op(Branch) \in {"BVC", "BVS"} THEN Silent ELSE Text("zero", l, Wrappers(l) \o Infix)

Condition ==
  CASE fact.kind = "unknown" -> Silent
    [] fact.kind = "jsr_flag" -> Text("flag", fact, <<>>)
    [] OTHER -> Rendered(Pivoted(fact))

Comment ==
  /\ here = Branch + 2 /\ here' = here + 1
  /\ text' = Condition
  /\ UNCHANGED <<prog, inputs, prov, subs, fact, trace>>

------------------------------------------------------------------------------
(* The processor.  from: the origin of a register's value, where it is the  *)
(* unchanged value of an immediate or of a cell.                            *)

Top == Size \div 2
Bit(b) == IF b THEN 1 ELSE 0
Indexed(c, x) == IF x % 2 = 0 THEN c ELSE CHOOSE d \in Cell : d # c

\* The result of an operation on v and w with the carry c in, and its carry out.
Outcome(op, v, w, c) ==
  CASE op = "AND" -> BitAnd(v, w)
    [] op = "EOR" -> BitXor(v, w)
    [] op = "ADC" -> v + w + Bit(c)
    [] op = "SBC" -> v - w - Bit(~c)
    [] op \in Up -> v + 1
    [] op \in Down -> v - 1
    [] op = "ASL" -> 2 * v
    [] op = "LSR" -> v \div 2
    [] OTHER -> v

CarryOut(op, v, w, c) ==
  CASE op = "ADC" -> v + w + Bit(c) >= Size
    [] op = "SBC" -> v - w - Bit(~c) >= 0
    [] op = "ASL" -> v >= Top
    [] op = "LSR" -> v % 2 = 1
    [] OTHER -> c

Alu(op, v, w, c) == [val |-> Outcome(op, v, w, c) % Size, carry |-> CarryOut(op, v, w, c)]

Value(p, m) ==
  CASE Mode(p) = "imm" -> Arg(p)
    [] Mode(p) = "abs" -> m.mem[Arg(p)]
    [] Mode(p) = "abx" -> m.mem[Indexed(Arg(p), m.regs["X"])]
    [] OTHER -> 0

Flagged(m, r) == [m EXCEPT !.z = (r.val = 0), !.n = (r.val >= Top), !.c = r.carry]
RegWritten(m, reg, r, from) == [Flagged(m, r) EXCEPT !.regs[reg] = r.val, !.from[reg] = from]

Unary == Up \cup Down \cup Shifts

After(p, m) ==
  LET op == Op(p)
      w == Value(p, m)
      Same(val) == [val |-> val, carry |-> m.c]
  IN CASE op \in {"LDA", "LDX"} ->
            RegWritten(m, IF op = "LDA" THEN "A" ELSE "X", Same(w),
                    CASE Mode(p) = "imm" -> <<"imm", p>> [] Mode(p) = "abs" -> <<"var", Arg(p)>> [] OTHER -> <<>>)
       [] op = "TXA" -> RegWritten(m, "A", Same(m.regs["X"]), m.from["X"])
       [] op = "TAX" -> RegWritten(m, "X", Same(m.regs["A"]), m.from["A"])
       [] op \in Arithmetic -> RegWritten(m, "A", Alu(op, m.regs["A"], w, m.c), <<>>)
       [] op \in {"INX", "DEX"} -> RegWritten(m, "X", Alu(op, m.regs["X"], 0, m.c), <<>>)
       [] op \in Unary /\ Mode(p) = "acc" -> RegWritten(m, "A", Alu(op, m.regs["A"], 0, m.c), <<>>)
       [] op \in Unary /\ Mode(p) = "abs" ->
            LET r == Alu(op, w, 0, m.c) IN [Flagged(m, r) EXCEPT !.mem[Arg(p)] = r.val]
       [] op = "CMP" -> Flagged(m, Alu("SBC", m.regs["A"], w, TRUE))
       [] op = "CPX" -> Flagged(m, Alu("SBC", m.regs["X"], w, TRUE))
       [] op = "BIT" -> [m EXCEPT !.z = (BitAnd(m.regs["A"], w) = 0), !.n = (w >= Top),
                                  !.v = (w % Top >= Top \div 2)]
       [] op = "STA" -> [m EXCEPT !.mem[Arg(p)] = m.regs["A"]]
       [] op = "STX" -> [m EXCEPT !.mem[Arg(p)] = m.regs["X"]]
       [] op \in {"SEC", "CLC"} -> [m EXCEPT !.c = (op = "SEC")]
       [] OTHER -> m

\* A routine returns with anything in the registers and the flags.
Return(m, s, b) ==
  [m EXCEPT !.regs = [r \in Reg |-> s], !.from = [r \in Reg |-> <<>>], !.z = b, !.n = b, !.c = b, !.v = b]
Returned(m) == {Return(m, s, b) : s \in Samples, b \in BOOLEAN}

\* The caller honours register_inputs.
Enter(mem, regs, b) ==
  [mem |-> mem, regs |-> [r \in Reg |-> IF inputs[r] = "" THEN regs[r] ELSE mem[inputs[r]]],
   from |-> [r \in Reg |-> IF inputs[r] = "" THEN <<>> ELSE <<"var", inputs[r]>>],
   z |-> b, n |-> b, c |-> b, v |-> b]
Entry ==
  {Enter(mem, regs, b) :
     mem \in {mm \in [Cell -> Word] : mm["v"] \in Samples}, regs \in [Reg -> Samples], b \in BOOLEAN}

Execute ==
  /\ here = Branch + 3 /\ Len(trace) < Branch
  /\ IF trace = <<>> THEN \E m \in Entry : trace' = <<m>>
     ELSE LET p == Len(trace)
          IN \E m \in (IF Op(p) = "JSR" THEN Returned(Last(trace)) ELSE {After(p, Last(trace))}) :
               trace' = Append(trace, m)
  /\ UNCHANGED <<prog, inputs, here, prov, subs, fact, text>>

TextNext == WalkNames \/ Supplement \/ Comment \/ Execute

TextSpec == TextInit /\ [][TextNext]_textVars

------------------------------------------------------------------------------
(* What the texts say.                                                      *)

Source(l) ==
  LET m == trace[l.at]
  IN CASE l.kind = "var" -> m.mem[IF l.index THEN Indexed(l.what, m.regs["X"]) ELSE l.what]
       [] l.kind = "imm" -> l.what
       [] OTHER -> m.regs[l.what]

\* Arithmetic is read without a carry or borrow coming in.
Meant(t) ==
  LET With(i) == CASE i.mode = "imm" -> i.arg [] i.mode = "abs" -> trace[Setter].mem[i.arg] [] OTHER -> 0
      run[k \in 0..Len(t.ops)] ==
        IF k = 0 THEN [val |-> Source(t.lhs), carry |-> FALSE]
        ELSE Alu(t.ops[k].op, run[k - 1].val, With(t.ops[k]), t.ops[k].op = "SBC")
  IN run[Len(t.ops)]

\* The tables of phrases: does one hold of r?
OfZero(r) ==
  LET b == Op(Branch) IN
  CASE b = "BEQ" -> r.val = 0 [] b = "BNE" -> r.val # 0
    [] b = "BMI" -> r.val >= Top [] b = "BPL" -> r.val < Top
    [] b = "BCS" -> r.carry [] b = "BCC" -> ~r.carry

\* Mutant: the phrases of BCC and BCS are exchanged.
OfCompare_Exchanged(l, r) ==
  LET b == Op(Branch) IN
  CASE b = "BEQ" -> l = r [] b = "BNE" -> l # r
    [] b = "BCC" -> l >= r [] b = "BCS" -> l < r
    [] b = "BMI" -> (l - r) % Size >= Top [] b = "BPL" -> (l - r) % Size < Top

OfCompare(l, r) ==
  LET b == Op(Branch) IN
  CASE b = "BEQ" -> l = r [] b = "BNE" -> l # r
    [] b = "BCC" -> l < r [] b = "BCS" -> l >= r
    [] b = "BMI" -> (l - r) % Size >= Top [] b = "BPL" -> (l - r) % Size < Top

OfBit(a, val) ==
  LET b == Op(Branch) IN
  CASE b = "BEQ" -> BitAnd(a, val) = 0 [] b = "BNE" -> BitAnd(a, val) # 0
    [] b = "BMI" -> val >= Top [] b = "BPL" -> val < Top
    [] b = "BVS" -> val % Top >= Top \div 2 [] b = "BVC" -> val % Top < Top \div 2

\* carry, borrow, A & var, A == var, for the machine m before the setter.
OfEvent(m) ==
  LET a == m.regs["A"]
      w == m.mem[Arg(Setter)]
      b == Op(Branch)
  IN CASE Op(Setter) = "ADC" -> (a + w + Bit(m.c) >= Size) = (b = "BCS")
       [] Op(Setter) = "SBC" -> (a - w - Bit(~m.c) < 0) = (b = "BCC")
       [] Op(Setter) = "AND" -> (BitAnd(a, w) = 0) = (b = "BEQ")
       [] Op(Setter) = "EOR" -> (a = w) = (b = "BEQ")

Taken(m) ==
  LET b == Op(Branch) IN
  CASE b = "BEQ" -> m.z [] b = "BNE" -> ~m.z [] b = "BMI" -> m.n [] b = "BPL" -> ~m.n
    [] b = "BCS" -> m.c [] b = "BCC" -> ~m.c [] b = "BVS" -> m.v [] b = "BVC" -> ~m.v

Holds(t) ==
  LET m == trace[Setter] IN
  CASE t.form = "zero" -> OfZero(Meant(t))
    [] t.form = "compare" -> OfCompare(Meant(t).val, Value(Setter, m))
    [] t.form = "bit" -> OfBit(m.regs["A"], Meant(t).val)
    [] t.form = "event" -> OfEvent(m)
    [] t.form = "flag" -> Taken(trace[Branch])

AtBranch == Len(trace) = Branch

\* Facts whose text leaves something out or puts it in another order.
Misread ==
  LET l == fact
      shown == Folded(l.chain)
      logic == {"AND"} \cup Shifts
  IN \* transforms that do not commute are applied newest first
     \/ \E i, j \in DOMAIN shown :
          i # j /\ shown[i].op \in logic /\ shown[j].op \notin {"TAX", "TXA"}
     \* transforms before a computation or a call are not in the fact
     \/ l.lost
     \* the from_caller pivot drops the transforms
     \/ l.kind = "from_caller" /\ inputs[l.what] # "" /\ Wrappers(l) # <<>>
     \* the index of an arithmetic setter is dropped
     \/ Op(Setter) \in Arithmetic /\ Mode(Setter) = "abx"
     \* a carry or borrow comes in
     \/ Op(Setter) \in {"ADC", "SBC"} /\ trace[Setter].c # (Op(Setter) = "SBC")
     \* a shift of memory is not recorded
     \/ Op(Setter) \in Shifts /\ Mode(Setter) = "abs"

\* render_condition_from_fact: apart from those facts, what the comment beside
\* a branch says is true exactly when the branch is taken, through loads,
\* transfers, steps, shifts, and whatever is stored since.
ConditionTrue ==
  AtBranch /\ text.form # "none" /\ ~Misread => (Holds(text) <=> Taken(trace[Branch]))

\* What the name at p says: the compared register holds the value of the
\* variable, or the loaded immediate is stored in it.
Bound(p) ==
  LET Stored(q) == \E r \in Reg : /\ Op(q) = Stores[r] /\ Arg(q) = subs[p]
                                  /\ trace[q].from[r] = <<"imm", p>>
  IN \/ \E r \in Reg : Op(p) = Compare[r] /\ trace[p].from[r] = <<"var", subs[p]>>
     \/ \E q \in (p + 1)..(Branch - 1) : Stored(q)

\* "The walker is intentionally conservative: false positives would rewrite a
\* literal that isn't actually a member of the enum" (build_imm_substitutions).
NamesConservative == AtBranch => \A p \in DOMAIN subs : Arg(p) \in Enum[subs[p]] /\ Bound(p)

\* The same, where no load is indexed and the supplement pass meets no transform.
NamesProven ==
  (\A p \in DOMAIN prog : Mode(p) # "abx") /\ fact.chain = <<>> => NamesConservative

\* Types: a provenance is that of an earlier immediate or of a cell, and only
\* immediates get names.
TextTypeOK ==
  /\ here \in 1..(Branch + 3) /\ Len(trace) <= Branch
  /\ \A r \in Reg : prov[r] = <<>> \/ (prov[r][1] = "imm" /\ prov[r][3] < here)
                      \/ (prov[r][1] = "var" /\ prov[r][2] \in Cell)
  /\ \A p \in DOMAIN subs : p < here /\ Mode(p) = "imm" /\ subs[p] \in Cell
==============================================================================
