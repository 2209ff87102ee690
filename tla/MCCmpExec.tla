------------------------------- MODULE MCCmpExec -------------------------------
(***************************************************************************)
(* Programs in families: straight code with every pair of operations,      *)
(* loops, diamonds, and pushes and pulls across joins.                     *)
(***************************************************************************)
EXTENDS CmpExec

I(op, arg) == [op |-> op, arg |-> arg]
Ops(ops) == {I(op, 0) : op \in ops}
Lda == {I("LDA", v) : v \in {1, 2}}
Ldx == {I("LDX", 1)}
Jsr == {I("JSR", 0)}
To(op, targets) == {I(op, t) : t \in targets}

Small ==
  {<<a, b, c, s, t, I("RTS", 0)>> :
     a \in Lda \cup Ldx \cup {I("LAX", 2)} \cup Ops({"TXA", "INX", "STA", "PHA"}),
     b \in Lda \cup Jsr \cup Ops({"AND", "ASL", "INX", "TXA", "TAX", "ADC", "TSX", "PLP", "SEC"})
           \cup To("BNE", {4, 5}) \cup To("JMP", {4}),
     c \in Ldx \cup Jsr \cup Ops({"AND", "TXA", "TAX", "INX", "PLA", "STA", "CMP", "PHP"}) \cup To("BCC", {5}),
     s \in Ops({"CMP", "CPX", "TXA", "PLA"}),
     t \in To("BNE", {1, 3, 6}) \cup To("BCC", {4, 6})}

Diamonds ==
  {<<a, I("BNE", 5), b, I("JMP", 6), c, d, s, t>> :
     a \in {I("LDA", 1), I("LAX", 1), I("TXA", 0)},
     b \in {I("LDA", 2), I("AND", 0), I("TXA", 0), I("PHA", 0)},
     c \in {I("STA", 0), I("LDA", 1), I("PHA", 0), I("PHP", 0), I("TAX", 0)},
     d \in {I("STA", 0), I("AND", 0), I("ADC", 0), I("TXS", 0), I("LDX", 1)},
     s \in Ops({"CMP", "CPX", "PLA"}), t \in To("BNE", {1, 6})}

Stacks ==
  {<<I("LDA", 1), I("PHA", 0), a, b, c, d, s, t>> :
     a \in {I("LDA", 2), I("PHP", 0), I("PLA", 0), I("JSR", 0)},
     b \in Ops({"PHA", "STA", "PLP", "PLA"}),
     c \in Ops({"PLA", "PLP", "PHA", "TXA"}) \cup To("BNE", {2, 5}),
     d \in Ops({"PLA", "AND", "STA"}) \cup To("BNE", {3}),
     s \in Ops({"CMP", "PLA"}), t \in To("BNE", {2, 8})}

MCPrograms == Small \cup Diamonds \cup Stacks
==============================================================================
