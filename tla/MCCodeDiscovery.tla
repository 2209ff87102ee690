--------------------------- MODULE MCCodeDiscovery ---------------------------
(***************************************************************************)
(* Every image of four bytes over a small instruction set, entered at no,  *)
(* one or two seeds, one of which may lie outside the image.               *)
(***************************************************************************)
EXTENDS CodeDiscovery, FiniteSets

Insn(n, flow, arg) == [n |-> n, flow |-> flow, arg |-> arg]

\* Long, short and flow-ending decodes; a branch back by one instruction
\* (displacement -3), a call forward and a jump back.
MCInsns == {Insn(0, "next", 0), Insn(1, "next", 0), Insn(2, "next", 0),
            Insn(3, "next", 0), Insn(1, "stop", 0),
            Insn(2, "branch", 253), Insn(3, "call", 3), Insn(3, "jump", 1)}

MCImages == [0 .. 3 -> MCInsns]
MCSeedSets == {{}, {0}, {1, 2}, {0, 1}, {2, 9}}
==============================================================================
