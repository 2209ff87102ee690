-------------------------------- MODULE CmpExec --------------------------------
(***************************************************************************)
(* The 6502 running the programs of CmpFacts once the answer is known,     *)
(* from wherever a call, a dispatch or an interrupt enters them, with the  *)
(* origin of every value beside it: what the facts about a branch are      *)
(* facts of.                                                               *)
(***************************************************************************)
EXTENDS CmpFacts

CONSTANTS
  MaxStack,   \* values pushed in one execution
  MaxChain    \* transforms a value goes through

VARIABLES
  at,      \* the program counter; 0 before the execution, Ended after it
  regs,    \* register -> its value: the key of its source, the transforms oldest first
  stack,   \* the values pushed since entry
  entry,   \* the address entered; 0 before
  setBy    \* flag -> the address of the instruction that last set it, 0 = the caller's

execVars == <<at, regs, stack, entry, setBy>>
allVars == <<prog, branch, phase, setter, skipped, frames, lhs, dropped, at, regs, stack, entry, setBy>>

Ended == -1
Value(key) == [key |-> key, chain |-> <<>>]

ExecInit ==
  /\ Init /\ at = 0 /\ stack = <<>> /\ entry = 0
  /\ regs = [r \in Reg |-> Value(<<"caller", r>>)] /\ setBy = [f \in {"Z", "C"} |-> 0]

\* The first instruction of a routine may also be a loop head, the target of
\* a branch or what precedes falls into: any address can be entered.
Enter ==
  /\ at = 0 /\ at' \in DOMAIN prog /\ entry' = at'
  /\ UNCHANGED <<regs, stack, setBy>>

\* What the flags instructions of the processor set, PLP included.
Sets(op) ==
  {f \in {"Z", "C"} : op \in FlagSetters[f] \/ op \in {"PLP", "JSR"}}

Goto(pc) == IF pc \in DOMAIN prog THEN pc ELSE Ended
Nexts ==
  CASE Op(at) = "RTS" -> {Ended}
    [] Op(at) = "JMP" -> {Goto(Arg(at))}
    [] Op(at) \in Branches -> {Goto(Arg(at)), Goto(at + 1)}
    [] OTHER -> {Goto(at + 1)}

Through1(v) == [v EXCEPT !.chain = Append(@, Op(at))]
Pulled == IF stack = <<>> THEN Value(<<"below">>) ELSE Last(stack)

RegsAfter ==
  LET op == Op(at) IN
  CASE op = "LDA" -> [regs EXCEPT !["A"] = Value(<<"var", Arg(at)>>)]
    [] op = "LDX" -> [regs EXCEPT !["X"] = Value(<<"var", Arg(at)>>)]
    [] op = "LAX" -> [r \in Reg |-> Value(<<"var", Arg(at)>>)]
    [] op \in {"AND", "ASL"} -> [regs EXCEPT !["A"] = Through1(@)]
    [] op = "INX" -> [regs EXCEPT !["X"] = Through1(@)]
    [] op = "ADC" -> [regs EXCEPT !["A"] = Value(<<"computed", "A">>)]
    [] op = "TXA" -> [regs EXCEPT !["A"] = Through1(regs["X"])]
    [] op = "TAX" -> [regs EXCEPT !["X"] = Through1(regs["A"])]
    [] op = "TSX" -> [regs EXCEPT !["X"] = Value(<<"stack pointer">>)]
    [] op = "PLA" -> [regs EXCEPT !["A"] = Pulled]
    [] op = "JSR" -> [r \in Reg |-> Value(<<"return", Arg(at), r>>)]
    [] OTHER -> regs

StackAfter ==
  LET op == Op(at) IN
  CASE op = "PHA" -> Append(stack, regs["A"])
    [] op = "PHP" -> Append(stack, Value(<<"status">>))
    [] op \in {"PLA", "PLP"} /\ stack # <<>> -> Front(stack)
    [] op = "TXS" -> <<>>
    [] OTHER -> stack

Step ==
  /\ at \in DOMAIN prog
  /\ regs' = RegsAfter /\ stack' = StackAfter
  /\ \A r \in Reg : Len(regs'[r].chain) <= MaxChain
  /\ Len(stack') <= MaxStack
  /\ setBy' = [f \in {"Z", "C"} |-> IF f \in Sets(Op(at)) THEN at ELSE setBy[f]]
  /\ at' \in Nexts /\ UNCHANGED entry

Execute == phase = "done" /\ (Enter \/ Step) /\ UNCHANGED vars

Next == (Analyze /\ UNCHANGED execVars) \/ Execute

Spec == ExecInit /\ [][Next]_allVars

------------------------------------------------------------------------------

TypeOK ==
  /\ phase \in {"setter", "walk", "done"} /\ setter \in {0} \cup DOMAIN prog
  /\ skipped \in 0..MaxSkip /\ dropped \in BOOLEAN
  /\ phase = "walk" <=> frames # <<>>
  /\ \A i \in DOMAIN frames : frames[i].steps <= MaxWalkSteps
  /\ \A i \in 1..(Len(frames) - 1) : frames[i].kind = "pla"
  /\ lhs.kind \in {"none", "unknown", "var", "from_caller", "computed_reg", "jsr_return",
                   "jsr_flag", "multi_source"}
  /\ at \in {0, Ended} \cup DOMAIN prog /\ entry \in {0} \cup DOMAIN prog /\ setBy \in [{"Z", "C"} -> {0} \cup DOMAIN prog]

Done == phase = "done"

\* The value the answer is about: the register about to be consumed, or the
\* byte about to be pulled.
Tested == IF Op(setter) = "PLA" THEN Pulled ELSE regs[WalkReg(Op(setter))]
AtWalked == Done /\ at # 0 /\ at = setter /\ (WalkReg(Op(setter)) # "" \/ Op(setter) = "PLA")

\* What the caller brings: its registers and what it has pushed.  Where the
\* routine was entered at an address that has predecessors too, _resolve_lhs
\* knows only what those bring.
Brought == {<<"caller", r>> : r \in Reg} \cup {<<"below">>}
Overlooked == IF PredSet(entry) = {} THEN {} ELSE Brought

\* _resolve_lhs, _resolve_pla_source: wherever the routine was entered and
\* whatever path is taken to the setter, through transfers, joins, loops and
\* the stack, the value it tests comes from a source the answer names or was
\* overlooked, unless a path's source was dropped.
SourceReported ==
  AtWalked /\ ~dropped /\ lhs.kind # "unknown" => Tested.key \in lhs.keys \cup Overlooked

Jumps(pc) == Op(pc) \in Branches \cup {"JMP"}

\* Programs where one way leads from any load to the setter.
Unforked ==
  /\ \A pc \in DOMAIN prog : Op(pc) # "PLA" /\ (Jumps(pc) => Arg(pc) > pc)
  /\ \A pc \in 1..setter : Op(pc) \notin Branches

\* A chain is reported for a value that did not come in unnoticed.
Chained == AtWalked /\ Unforked /\ ~dropped /\ lhs.chain # <<>> /\ Tested.key \notin Overlooked

\* There a reported chain is what the value went through, newest first: the
\* walk goes back from the setter and appends what it meets.
ChainExact == Chained => Tested.chain = Reverse(lhs.chain)

\* Source representation: transform_tuple has its items "oldest at the START
\* (entry of the chain, closest to the load) and newest at the END (closest
\* to the setter)".
TransformsInOrder == Chained => Tested.chain = lhs.chain

\* _find_flag_setter: nothing jumps in after the setter, or enters there.
NoArrivals ==
  /\ \A pc \in (setter + 1)..branch : JumpsTo(pc) = {}
  /\ entry \notin (setter + 1)..branch

\* The flag tables leave PLP out of the setters of Z.
Restores == Op(branch) # "BCC" /\ \E pc \in (setter + 1)..branch : Op(pc) = "PLP"

\* Where neither is the case, the flag the branch tests was last set by the
\* setter found, or inside the call found.
SetterSound ==
  Done /\ at = branch /\ setter # 0 /\ NoArrivals /\ ~Restores =>
    setBy[BranchFlag(Op(branch))] = setter

==============================================================================
