------------------------------- MODULE MCTriage -------------------------------
(***************************************************************************)
(* Images of ten bytes: slots at 0, 3 and 6 hold a three-byte instruction  *)
(* or, at 3, a branch, and 9 holds an RTS or a data byte.  Each slot is an *)
(* accepted start or data; data may still decode.                          *)
(***************************************************************************)
EXTENDS Triage

Insn(n, flow, arg) == [n |-> n, flow |-> flow, arg |-> arg]
NoInsn == Insn(0, "next", 0)
Wide(flows, targets) == {Insn(3, f, t) : f \in flows, t \in targets}

Blank == (1 :> NoInsn @@ 2 :> NoInsn @@ 4 :> NoInsn @@ 5 :> NoInsn
          @@ 7 :> NoInsn @@ 8 :> NoInsn @@ 9 :> Insn(1, "stop", 0))

Image(a, b, c) == (0 :> a @@ 3 :> b @@ 6 :> c @@ Blank)

\* The one-byte displacement of a branch from p to t.
Displacement(p, t) == (t - p - 2) % 256

MCInputs ==
  {[img |-> Image(a, b, c), starts |-> s, seeds |-> r] :
     a \in Wide({"refer", "indirect", "jump"}, {3, 6}),
     b \in Wide({"refer"}, {6, 9}) \cup Wide({"call"}, {0, 6, 9}) \cup {Insn(2, "branch", Displacement(3, 0)),
                                                Insn(3, "stop", 0)},
     c \in Wide({"refer", "jump"}, {0, 3, 12}),
     s \in {{0, 3, 6, 9}, {0, 3, 6}, {0, 6, 9}, {0, 3}, {3, 6, 9}}, r \in {{0}, {0, 6}, {3, 20}}}

MCIoBand == {9}
==============================================================================
