------------------------------- MODULE RegExec -------------------------------
(***************************************************************************)
(* The register analysis against the 6502 it speaks about.  When `analyze` *)
(* has finished, any subroutine may be entered; the run follows calls,     *)
(* dispatch sites and branches either way, and records for that activation *)
(* which registers were written and which were read before being written.  *)
(***************************************************************************)
EXTENDS RegEffects, Sequences

CONSTANT MaxDepth   \* bound on the depth of nested calls followed

VARIABLES
  top,       \* the subroutine entered, None before
  at,        \* the instruction about to run, None before and after
  stack,     \* return addresses inside the activation of top
  written,   \* registers written since top was entered
  needed,    \* registers read in that time before being written
  misled     \* whether it passed a site the walk read the placeholder of

execVars == <<top, at, stack, written, needed, misled>>
allVars == <<vars, execVars>>

None == -1

ExecInit ==
  /\ Init
  /\ top = None /\ at = None /\ stack = <<>> /\ written = {} /\ needed = {}
  /\ misled = FALSE

Enter(e) ==
  /\ phase = "done" /\ top = None
  /\ top' = e /\ at' = e
  /\ UNCHANGED <<stack, written, needed, misled>>

Effect(rd, wr) ==
  /\ needed' = needed \cup (rd \ written)
  /\ written' = written \cup wr

Return ==
  IF stack = <<>> THEN at' = None /\ UNCHANGED stack
  ELSE at' = Head(stack) /\ stack' = Tail(stack)

\* Where the processor really goes: a dispatch site to any annotated target,
\* whatever its static operand; where none is recorded, to anything (None).
Targets(pc) ==
  IF pc \notin DOMAIN prog.smc THEN {At(pc).tgt}
  ELSE IF prog.smc[pc] = {} THEN {None} ELSE prog.smc[pc]

\* A site `analyze` drops from smc, whose placeholder operand is the address
\* of code or of a KERNAL vector: the walk takes that for its target.
Misled(pc) ==
  At(pc).op \in {"jsr", "jmp"} /\ pc \in DOMAIN prog.smc \ Smc /\ ~Lost(pc)

StepLocal ==
  /\ At(at).op \in {"plain", "branch"}
  /\ Effect(At(at).rd, At(at).wr)
  /\ at' \in {at + 1} \cup (IF At(at).op = "branch" THEN {At(at).tgt} ELSE {})
  /\ UNCHANGED stack

StepReturn ==
  /\ At(at).op = "ret"
  /\ Return /\ UNCHANGED <<written, needed>>

StepCall ==
  /\ At(at).op = "jsr" /\ Len(stack) < MaxDepth
  /\ \E t \in Targets(at) \cap Code : at' = t
  /\ stack' = <<at + 1>> \o stack
  /\ UNCHANGED <<written, needed>>

StepJump ==
  /\ At(at).op = "jmp"
  /\ \E t \in Targets(at) \cap Code : at' = t
  /\ UNCHANGED <<stack, written, needed>>

\* Code outside the image: a KERNAL routine does what its entry documents,
\* any other code reads and writes what it likes; then it returns.
StepOutside ==
  /\ \/ \E t \in (Targets(at) \ Code) \cap DOMAIN Kernal :
          /\ At(at).op \in {"jsr", "jmp"} /\ Effect(Kernal[t].rd, Kernal[t].wr)
     \/ /\ At(at).op = "ind" \/ (At(at).op \in {"jsr", "jmp"} /\
                                 Targets(at) \ (Code \cup DOMAIN Kernal) # {})
        /\ \E rd, wr \in SUBSET Regs : Effect(rd, wr)
  /\ IF At(at).op = "jsr" THEN at' = at + 1 /\ UNCHANGED stack ELSE Return

Execute ==
  /\ at # None /\ at \in Code
  /\ StepLocal \/ StepReturn \/ StepCall \/ StepJump \/ StepOutside
  /\ misled' = (misled \/ Misled(at))
  /\ UNCHANGED top

Next ==
  \/ Analyze /\ UNCHANGED execVars
  \/ (Execute \/ \E e \in Entries : Enter(e)) /\ UNCHANGED vars

Spec == ExecInit /\ [][Next]_allVars

------------------------------------------------------------------------------

\* Types: every table of the report has a row for every entry and names only
\* registers, whatever the annotations point at.
TypeOK ==
  /\ phase \in {"walk", "done"} \cup DOMAIN After
  /\ seen \in [Entries -> SUBSET Code]
  /\ unc \in [Entries -> BOOLEAN]
  /\ {clob, inputs, must, demand} \subseteq [Entries -> SUBSET Regs]
  /\ top \in Entries \cup {None}
  /\ written \in SUBSET Regs /\ needed \in SUBSET Regs /\ misled \in BOOLEAN

Returned == top # None /\ at = None

\* Clobbers never under-report: no activation writes a register that the
\* report of its subroutine leaves out, through calls, tail calls, dispatch
\* and code outside the image, unless it passed a site the walk misread.
ClobbersCover == top # None /\ ~misled => written \subseteq ClobberedBy(top)

\* A dispatch site that is not resolved stays "opaque" and its function
\* "conservatively uncertain" (analyze), so that clobbers do not under-report
\* there either.
OpaqueCovered == top # None => written \subseteq ClobberedBy(top)

\* "neither clobbers nor inputs UNDER-reports" (module docstring).
InputsCover == top # None => needed \subseteq inputs[top]

\* Outputs are registers the function "DEFINITELY writes before every exit",
\* claimed for certain functions only.
OutputsHold == Returned /\ ~unc[top] => Outputs(top) \subseteq written

\* The programs for which inputs and outputs can be relied on: a subroutine
\* called writes what it clobbers on every path, those of one dispatch site
\* write the same, no branch is a tail call and no jump leaves the known code.
DefiniteCalls ==
  /\ \A e \in Entries : \A c \in Callees(e) : ~unc[c] /\ clob[c] \subseteq must[c]
  /\ \A e \in Entries : \A pc \in seen[e] :
       /\ \A c, d \in Invoked(pc) : must[c] = must[d]
       /\ At(pc).op = "branch" => Tails(e, pc) = {}
       /\ At(pc).op = "jmp" => ~Lost(pc) /\ ~InKernal(pc)

\* There both hold: an activation that passed no misread site reads no
\* undeclared input and returns with every declared output written.
DefiniteInterface ==
  top # None /\ DefiniteCalls /\ ~misled => InputsCover /\ OutputsHold

\* Once its loop has ended, clob solves the equations and is below every
\* other solution: the order of the entries cannot show in the report.
ClobbersLeast ==
  phase \notin {"walk", "clobbers"} =>
    LET direct == [e \in Entries |-> UNION {Writes(pc) : pc \in seen[e]}]
        solves(f) == \A e \in Entries : f[e] = direct[e] \cup UNION {f[c] : c \in Callees(e)}
    IN /\ solves(clob)
       /\ \A f \in [Entries -> SUBSET Regs] :
            solves(f) => \A e \in Entries : clob[e] \subseteq f[e]

==============================================================================
