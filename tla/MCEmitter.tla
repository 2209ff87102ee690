------------------------------- MODULE MCEmitter -------------------------------
(***************************************************************************)
(* The parts of emit_source side by side: the byte walk, what one flush of *)
(* its queue writes, and the names and conditions beside the instructions  *)
(* of a straight piece.  They share no state, flush_data being handed a    *)
(* finished queue and the texts being computed before the walk, so one of  *)
(* them is at work in each behaviour.                                      *)
(*                                                                         *)
(* The walk: every classification of a five-byte image, with at most one   *)
(* text and one byte run of up to two bytes (a byte run may be empty), up  *)
(* to two segments, and blocks, branch targets and immediate loads.        *)
(* The directives: every queue of up to 13 bytes over two values, with     *)
(* lines and long runs of four bytes and three identical lines.            *)
(* The texts: pieces of three or four instructions before the branch, a    *)
(* load of each kind, stores, transforms, calls and carries after it, and  *)
(* every sort of setter with the branches that read it.                    *)
(***************************************************************************)
EXTENDS EmitWalk, DataRuns, BranchText, Bitwise

\* What classify can return: instructions inside the image, no overlap.
Lens == {f \in [0 .. 4 -> 0 .. 3] :
           \A p \in 0 .. 4 : f[p] > 0 =>
              /\ p + f[p] <= 5
              /\ \A q \in p + 1 .. p + f[p] - 1 : f[q] = 0}

AtMostOne(S, n) == {<<>>} \cup UNION {{(a :> k) : k \in n} : a \in S}

LayoutsWith(texts, runs) ==
  {l \in [len : Lens, text : texts, runs : runs,
          seg : {{}, {<<1, 4>>}, {<<0, 2>>, <<2, 5>>}},
          entry : {{}, {0, 2}, {1, 3}}, target : {{}, {2}}, imm : {{}, {0}}] :
     /\ l.entry \cup l.target \subseteq Instr(l)
     /\ \A p \in l.imm : l.len[p] = 2}

MCLayouts == LayoutsWith(AtMostOne({0, 2}, {1, 2}), AtMostOne({1, 2}, {0, 1, 2}))

------------------------------------------------------------------------------

MCData == UNION {[1 .. n -> {0, 1}] : n \in 1 .. 13}

------------------------------------------------------------------------------

MCBitAnd(v, w) == v & w
MCBitXor(v, w) == v ^^ w

I(op, mode, arg) == [op |-> op, mode |-> mode, arg |-> arg]
Implieds(ops) == {Implied(op) : op \in ops}
Accs(ops) == {I(op, "acc", 0) : op \in ops}
On(ops, mode, arg) == {I(op, mode, arg) : op \in ops}

MCEnum == [c \in Cell |-> IF c = "u" THEN {0, 1} ELSE {}]
NoInputs == [r \in Reg |-> ""]
MCInputs == {NoInputs, [NoInputs EXCEPT !["X"] = "u"]}

Tests ==
  {<<s, b>> : s \in On({"CMP", "CPX"}, "imm", 1), b \in Implieds({"BNE", "BCC", "BPL"})}
  \cup {<<s, b>> : s \in Implieds({"INX", "TXA"}) \cup On({"AND"}, "imm", 3), b \in Implieds({"BEQ", "BPL"})}
  \cup {<<s, b>> : s \in Accs(Shifts), b \in Implieds({"BCS", "BNE"})}

Operands ==
  {<<s, b>> : s \in On({"AND", "EOR", "CMP"}, "abs", "v") \cup On({"AND", "LDA", "CMP"}, "abx", "v")
                   \cup On({"LDA"}, "imm", 4) \cup Implieds({"DEX", "TAX"}),
              b \in Implieds({"BNE", "BMI"})}
  \cup {<<s, b>> : s \in On({"ADC", "SBC"}, "abs", "v") \cup On({"ADC", "SBC"}, "imm", 3),
                   b \in Implieds({"BCS", "BEQ"})}
  \cup {<<I("BIT", "abs", "u"), b>> : b \in Implieds({"BEQ", "BMI", "BVS", "BVC"})}
  \cup {<<s, b>> : s \in On({"INC", "DEC", "LSR"}, "abs", "u"), b \in Implieds({"BEQ", "BPL"})}

Loads == On({"LDA", "LDX"}, "abs", "u") \cup On({"LDA"}, "imm", 1)
Steps1 == Implieds({"SEC", "CLC", "INX", "JSR"}) \cup On({"STA"}, "abs", "u")
Steps2 == Implieds({"INX", "DEX", "TAX", "TXA"}) \cup On({"AND"}, "imm", 5) \cup Accs({"ASL"})
            \cup On({"EOR"}, "abs", "v")

MCPrograms ==
  {<<l, a>> \o t : l \in Loads, a \in Steps1, t \in Operands}
  \cup {<<l, a, c>> \o t : l \in {I("LDX", "abs", "u"), I("LDA", "abx", "v")}, a, c \in Steps2, t \in Tests}
  \cup {<<l, a>> \o t : l \in Loads, a \in Steps1 \cup Steps2 \cup {I("STX", "abs", "u")}, t \in Tests}

------------------------------------------------------------------------------

VARIABLE part

\* The state of a part that is not at work.
IdleWalk ==
  /\ layout = [len |-> [p \in 0 .. 4 |-> 0], text |-> <<>>, runs |-> <<>>, seg |-> {},
               entry |-> {}, target |-> {}, imm |-> {}]
  /\ pc = 0 /\ pendingStart = 0 /\ pending = <<>> /\ out = <<>>
  /\ marks = {} /\ defs = {} /\ hints = {} /\ block = None /\ prevImm = None
IdleData == data = <<0>> /\ cut = 1 /\ segs = <<>> /\ row = 1 /\ directives = <<>>
IdleText ==
  /\ prog = <<Implied("BNE")>> /\ inputs = NoInputs /\ fact = FactLhs
  /\ here = 1 /\ prov = [r \in Reg |-> <<>>] /\ subs = <<>> /\ text = Silent /\ trace = <<>>

MCInit ==
  \/ part = "walk" /\ Init /\ IdleData /\ IdleText
  \/ part = "data" /\ FlushInit /\ IdleWalk /\ IdleText
  \/ part = "text" /\ TextInit /\ IdleWalk /\ IdleData

MCNext ==
  \/ part = "walk" /\ Next /\ UNCHANGED <<part, flushVars, textVars>>
  \/ part = "data" /\ FlushNext /\ UNCHANGED <<part, vars, textVars>>
  \/ part = "text" /\ TextNext /\ UNCHANGED <<part, vars, flushVars>>

MCSpec == MCInit /\ [][MCNext]_<<part, vars, flushVars, textVars>>
==============================================================================
