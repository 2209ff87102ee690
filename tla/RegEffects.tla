------------------------------ MODULE RegEffects ------------------------------
(***************************************************************************)
(* tools/re/reg_effects.py: which registers each subroutine clobbers, reads*)
(* as inputs and returns.  `analyze` walks every subroutine, then iterates *)
(* four systems of equations one after the other.  One step is the walk,   *)
(* one change one iteration of a `for e in entries` loop makes (the order  *)
(* of a frozenset is any order), or the end of a `while changed` loop.     *)
(* Addresses are instruction indices: pc + n is pc + 1.                    *)
(***************************************************************************)
EXTENDS Integers, FiniteSets

CONSTANTS
  Regs,       \* A, X, Y (_ALL)
  Programs,   \* the classified programs considered
  Kernal      \* _KERNAL: vector -> [rd, wr]

\* A program has
\*   code  instr_at: address -> [op, rd, wr, tgt]
\*   fns   the [function] addresses
\*   smc   annotated self-modified JSR/JMP sites -> their targets
Ops == {"plain", "ret", "ind", "jsr", "jmp", "branch"}

\* _READS and _WRITES have no entry for a transfer.
ASSUME ProgramsAssumption ==
  \A p \in Programs :
    /\ DOMAIN p.code \subseteq Nat
    /\ \A pc \in DOMAIN p.code :
         /\ p.code[pc].op \in Ops /\ p.code[pc].tgt \in Nat
         /\ p.code[pc].rd \subseteq Regs /\ p.code[pc].wr \subseteq Regs
         /\ p.code[pc].op \notin {"plain", "branch"} => p.code[pc].rd = {} /\ p.code[pc].wr = {}
ASSUME KernalAssumption ==
  \A v \in DOMAIN Kernal : Kernal[v].rd \subseteq Regs /\ Kernal[v].wr \subseteq Regs

VARIABLES
  prog,      \* the program (never changes)
  phase,     \* which fixed point is being computed
  seen,      \* seen[e]: the instructions _walk_subroutine reached from e
  clob,      \* clob
  unc,       \* unc
  inputs,    \* inputs
  must,      \* mustdef
  demand     \* demand

vars == <<prog, phase, seen, clob, unc, inputs, must, demand>>

Code == DOMAIN prog.code
At(pc) == prog.code[pc]

\* Dispatch sites are resolved only when every annotated target is classified.
Smc == {s \in DOMAIN prog.smc : prog.smc[s] # {} /\ prog.smc[s] \subseteq Code}

JsrTargets == {At(pc).tgt : pc \in {q \in Code : At(q).op = "jsr"}}

Entries == (prog.fns \cup JsrTargets \cup UNION {prog.smc[s] : s \in Smc}) \cap Code

------------------------------------------------------------------------------
(* _walk_subroutine: the node of instruction pc in the graph of entry e.     *)

Resolved(pc) == pc \notin Smc /\ At(pc).tgt \in Code
InKernal(pc) ==
  /\ At(pc).op \in {"jsr", "jmp"} /\ pc \notin Smc /\ At(pc).tgt \notin Code
  /\ At(pc).tgt \in DOMAIN Kernal
Lost(pc) ==   \* a transfer to nowhere known: `uncertain`
  \/ At(pc).op = "ind"
  \/ At(pc).op \in {"jsr", "jmp"} /\ pc \notin Smc /\ ~Resolved(pc) /\ ~InKernal(pc)

Invoked(pc) ==
  IF At(pc).op \in {"jsr", "jmp"} /\ pc \in Smc THEN prog.smc[pc]
  ELSE IF At(pc).op = "jsr" /\ Resolved(pc) THEN {At(pc).tgt} ELSE {}

Continues(pc) ==   \* the destinations given to go()
  CASE At(pc).op \in {"ret", "ind"}   -> {}
    [] At(pc).op \in {"plain", "jsr"} -> {pc + 1}
    [] At(pc).op = "branch"           -> {At(pc).tgt, pc + 1}
    [] At(pc).op = "jmp"              -> IF Resolved(pc) THEN {At(pc).tgt} ELSE {}

Tails(e, pc) == (Continues(pc) \ {e}) \cap Entries
Calls(e, pc) == Invoked(pc) \cup Tails(e, pc)
Succs(e, pc) == (Continues(pc) \ Tails(e, pc)) \cap Code

Reads(pc) ==
  At(pc).rd \cup (IF InKernal(pc) THEN Kernal[At(pc).tgt].rd ELSE {})
            \cup (IF Lost(pc) /\ At(pc).op # "jmp" THEN Regs ELSE {})
Writes(pc) ==
  At(pc).wr \cup (IF InKernal(pc) THEN Kernal[At(pc).tgt].wr ELSE {})

\* The worklist of one walk: the least set with e that is closed under Succs.
Reached(e) ==
  {pc \in Code : \A S \in SUBSET Code :
     e \in S /\ (\A q \in S : Succs(e, q) \subseteq S) => pc \in S}

Callees(e) == UNION {Calls(e, pc) : pc \in seen[e]}

------------------------------------------------------------------------------
(* The equations, from the current values of the variables.                  *)

NodeWrites(e, pc) ==   \* _node_writes
  Writes(pc) \cup UNION {IF unc[c] THEN Regs ELSE clob[c] : c \in Calls(e, pc)}

NodeReads(e, pc) == Reads(pc) \cup UNION {inputs[c] : c \in Calls(e, pc)}

Preds(e, pc) == {q \in seen[e] : pc \in Succs(e, q)}

\* _definite_written, a register at a time: the largest set of nodes each of
\* which writes r or, not being the entry, follows only nodes of the set.
WrittenAfter(e, r) ==
  UNION {D \in SUBSET seen[e] :
           \A pc \in D : \/ r \in NodeWrites(e, pc)
                         \/ pc # e /\ Preds(e, pc) # {} /\ Preds(e, pc) \subseteq D}

\* Mutant of WrittenBefore: some predecessor has written r, not each.
WrittenBefore_Some(e, r) ==
  LET after == WrittenAfter(e, r)
  IN {pc \in seen[e] \ {e} : Preds(e, pc) \cap after # {}}

WrittenBefore(e, r) ==   \* _in_set
  LET after == WrittenAfter(e, r)
  IN {pc \in seen[e] \ {e} : Preds(e, pc) # {} /\ Preds(e, pc) \subseteq after}

LiveIn(e) ==   \* _live_in
  {r \in Regs : \E pc \in seen[e] \ WrittenBefore(e, r) : r \in NodeReads(e, pc)}

Exits(e) ==   \* _exit_nodes
  {pc \in seen[e] : \/ At(pc).op \in {"ret", "ind"}
                    \/ Calls(e, pc) # {} /\ Succs(e, pc) = {}}

DefinedAtExit(e) ==   \* _defined_at_exit
  {r \in Regs :
     LET after == WrittenAfter(e, r) IN
     /\ Exits(e) # {}
     /\ \A pc \in Exits(e) :
          \/ pc \in after
          \/ /\ At(pc).op = "jmp" /\ Calls(e, pc) # {} /\ Succs(e, pc) = {}
             /\ \E c \in Calls(e, pc) : r \in must[c]}

\* _liveness: the least set of nodes r is live into, its exits wanting what
\* e's own callers want.
LiveAt(e, r) ==
  LET out(pc, L) == IF pc \in Exits(e) THEN r \in demand[e]
                    ELSE Succs(e, pc) \cap L # {}
      closed(L)  == \A pc \in seen[e] :
                      r \in NodeReads(e, pc) \/ (out(pc, L) /\ r \notin NodeWrites(e, pc))
                        => pc \in L
  IN {pc \in seen[e] : \A L \in SUBSET seen[e] : closed(L) => pc \in L}

\* What e asks of callee c.
Asks(e, c) ==
  {r \in Regs :
     LET live == LiveAt(e, r) IN
     \E pc \in seen[e] :
       /\ c \in Calls(e, pc)
       /\ IF At(pc).op = "jsr" THEN Succs(e, pc) \cap live # {} ELSE r \in demand[e]}

------------------------------------------------------------------------------

\* mustdef starts from every register.
InitialMust == [e \in Entries |-> Regs]

Init ==
  /\ prog \in Programs
  /\ phase = "walk"
  /\ seen = [e \in Entries |-> {}]
  /\ clob = [e \in Entries |-> {}]
  /\ unc = [e \in Entries |-> FALSE]
  /\ inputs = [e \in Entries |-> {}]
  /\ must = InitialMust
  /\ demand = [e \in Entries |-> {}]

\* dict.fromkeys over what each walk saw written.
DirectClobbers == [e \in Entries |-> UNION {Writes(pc) : pc \in Reached(e)}]

Walk ==
  /\ phase = "walk"
  /\ seen' = [e \in Entries |-> Reached(e)]
  /\ clob' = DirectClobbers
  /\ unc' = [e \in Entries |-> \E pc \in Reached(e) : Lost(pc)]
  /\ phase' = "clobbers"
  /\ UNCHANGED <<prog, inputs, must, demand>>

Clobbers(e) == clob[e] \cup UNION {clob[c] : c \in Callees(e)}

\* Mutant of Uncertain: a caller of an uncertain subroutine stays certain.
Uncertain_Local(e) == unc[e]

Uncertain(e) == unc[e] \/ \E c \in Callees(e) : unc[c]

GrowClobbers(e) ==
  /\ phase = "clobbers"
  /\ Clobbers(e) # clob[e] \/ Uncertain(e) # unc[e]
  /\ clob' = [clob EXCEPT ![e] = Clobbers(e)]
  /\ unc' = [unc EXCEPT ![e] = Uncertain(e)]
  /\ UNCHANGED <<prog, phase, seen, inputs, must, demand>>

GrowInputs(e) ==
  /\ phase = "inputs" /\ LiveIn(e) # inputs[e]
  /\ inputs' = [inputs EXCEPT ![e] = LiveIn(e)]
  /\ UNCHANGED <<prog, phase, seen, clob, unc, must, demand>>

ShrinkMust(e) ==
  /\ phase = "mustdef" /\ DefinedAtExit(e) # must[e]
  /\ must' = [must EXCEPT ![e] = DefinedAtExit(e)]
  /\ UNCHANGED <<prog, phase, seen, clob, unc, inputs, demand>>

\* A whole pass: every caller's requests are gathered before any is stored.
Asked(c) == UNION {Asks(e, c) : e \in Entries}

\* nd
NextDemand == [c \in Entries |-> Asked(c)]

GrowDemand ==
  /\ phase = "demand" /\ \E c \in Entries : Asked(c) # demand[c]
  /\ demand' = NextDemand
  /\ UNCHANGED <<prog, phase, seen, clob, unc, inputs, must>>

\* Mutant of ClobbersSettled: only `unc` is compared.
ClobbersSettled_UncOnly == \A e \in Entries : Uncertain(e) = unc[e]

ClobbersSettled == \A e \in Entries : Clobbers(e) = clob[e] /\ Uncertain(e) = unc[e]

\* A pass that changes nothing ends its loop.
Settled(ph) ==
  CASE ph = "clobbers" -> ClobbersSettled
    [] ph = "inputs"   -> \A e \in Entries : LiveIn(e) = inputs[e]
    [] ph = "mustdef"  -> \A e \in Entries : DefinedAtExit(e) = must[e]
    [] ph = "demand"   -> \A e \in Entries : Asked(e) = demand[e]

After == [clobbers |-> "inputs", inputs |-> "mustdef", mustdef |-> "demand", demand |-> "done"]

EndLoop ==
  /\ phase \in DOMAIN After /\ Settled(phase)
  /\ phase' = After[phase]
  /\ UNCHANGED <<prog, seen, clob, unc, inputs, must, demand>>

Analyze ==
  \/ Walk \/ GrowDemand \/ EndLoop
  \/ \E e \in Entries : GrowClobbers(e) \/ GrowInputs(e) \/ ShrinkMust(e)

\* What the report says of a subroutine.
ClobberedBy(e) == IF unc[e] THEN Regs ELSE clob[e]
Outputs(e) == must[e] \cap demand[e]
==============================================================================
