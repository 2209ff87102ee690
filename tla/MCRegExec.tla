------------------------------ MODULE MCRegExec ------------------------------
(***************************************************************************)
(* Programs of two subroutines and a data byte: F at 0..2, G at 3..5 and   *)
(* address 6 unclassified; and a few longer ones, one family per danger.   *)
(***************************************************************************)
EXTENDS RegExec, TLC

Insn(op, rd, wr, tgt) == [op |-> op, rd |-> rd, wr |-> wr, tgt |-> tgt]
Lda == Insn("plain", {}, {"A"}, 0)
Sta == Insn("plain", {"A"}, {}, 0)
Tax == Insn("plain", {"A"}, {"X"}, 0)
Rts == Insn("ret", {}, {}, 0)
Beq(t) == Insn("branch", {}, {}, t)
Jsr(t) == Insn("jsr", {}, {}, t)
Jmp(t) == Insn("jmp", {}, {}, t)
Ind == Insn("ind", {}, {}, 0)

Vector == 90    \* a KERNAL vector, reading X and writing A
Outside == 91   \* an address of which nothing is known
MCKernal == (Vector :> [rd |-> {"X"}, wr |-> {"A"}])
MCRegs == {"A", "X"}

ProgramsOf(first, second, third, fourth, fifth, sites) ==
  {[code |-> (0 :> a @@ 1 :> b @@ 2 :> c @@ 3 :> d @@ 4 :> f @@ 5 :> Rts),
    fns |-> {0, 3}, smc |-> s] :
     a \in first, b \in second, c \in third, d \in fourth, f \in fifth, s \in sites}

\* Calls, tail calls, recursion, KERNAL and unknown code.
Plain ==
  ProgramsOf({Lda, Jsr(3), Beq(2)}, {Sta, Jsr(Vector), Jsr(0), Jmp(3)},
             {Rts, Sta, Jmp(0)}, {Lda, Tax, Beq(5), Ind},
             {Lda, Sta, Jsr(Outside), Jmp(Vector)}, {<<>>})

\* A dispatch site at 1 with two entries, or with an unclassified target or
\* none recorded and a placeholder operand that is not code.
Dispatch ==
  ProgramsOf({Lda, Sta}, {Jsr(6), Jmp(6)}, {Rts, Sta}, {Tax, Beq(5)}, {Lda, Rts},
             {(1 :> {3, 4}), (1 :> {3, 6}), (1 :> {2, 5}), (1 :> {})})

\* The same site left unresolved, and a placeholder that is code ($D40B) or a
\* KERNAL vector.
Placeholder ==
  ProgramsOf({Lda, Sta}, {Jsr(5), Jmp(3), Jsr(Vector)}, {Rts}, {Tax, Beq(5)}, {Lda, Rts},
             {(1 :> {3, 6}), (1 :> {})})

\* $D400 and $D40B: a JSR with no recorded target.  (Of a self-modified JMP the
\* docstring of the module admits that it under-reports.)
Opaque == {p \in Placeholder : p.code[1] = Jsr(5) /\ p.smc[1] = {}}

\* A dispatch site whose targets write different registers, before a read of
\* either; a subroutine that ends in the KERNAL on one path only.
Stx == Insn("plain", {"X"}, {}, 0)
Lax == Insn("plain", {}, {"A", "X"}, 0)
Differing ==
  {[code |-> (0 :> Jsr(9) @@ 1 :> a @@ 2 :> Rts @@ 3 :> Tax @@ 4 :> Rts @@ 5 :> b @@ 6 :> Rts),
    fns |-> {0}, smc |-> (0 :> {3, 5})] : a \in {Sta, Stx}, b \in {Lda, Tax}}
KernalExit ==
  {[code |-> (0 :> Beq(2) @@ 1 :> a @@ 2 :> b @@ 3 :> Rts @@ 4 :> Jsr(0) @@ 5 :> c @@ 6 :> Rts),
    fns |-> {0, 4}, smc |-> <<>>] : a \in {Jmp(Vector), Tax}, b \in {Lda, Lax}, c \in {Sta, Stx}}

MCPrograms == Plain \cup Dispatch \cup Placeholder \cup Differing \cup KernalExit

\* A caller of a subroutine that calls one which writes A on one path only.
Conditional ==
  {[code |-> (0 :> Jsr(3) @@ 1 :> Sta @@ 2 :> Rts @@ 3 :> Jsr(5) @@ 4 :> Rts
              @@ 5 :> Beq(7) @@ 6 :> Lda @@ 7 :> Rts),
    fns |-> {0, 3, 5}, smc |-> <<>>]}
============================================================================
