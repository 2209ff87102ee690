------------------------------ MODULE CodeImage ------------------------------
(***************************************************************************)
(* The static image as tools/re sees it: at every address of Start..End-1  *)
(* the instruction that the byte there would begin.  A byte pattern is     *)
(* abstracted to what the disassembler reads of it: the length in OPS (0   *)
(* for a byte outside the NMOS table), how the opcode affects flow, and    *)
(* the operand.  Decodes at neighbouring addresses are independent, which  *)
(* allows every overlap real bytes can produce.                            *)
(***************************************************************************)
EXTENDS Integers

CONSTANTS
  Start,   \* first address of the image (LOAD_ADDR)
  End      \* first address after the image (END_ADDR_EXCL)

ASSUME RangeAssumption == Start \in Nat /\ End \in Nat /\ Start <= End

Addr == Start .. End - 1

\* "jump" is JMP abs, "indirect" JMP (ind), "call" JSR, "branch" the eight
\* Bxx, "stop" RTS, RTI and BRK; "refer" stands for every other instruction
\* with a 16-bit operand (abs, abx, aby), "next" for the rest.
Flow == {"next", "refer", "stop", "indirect", "jump", "call", "branch"}

Decode == [n : 0 .. 3, flow : Flow, arg : Nat]

Fits(img, p) == p \in Addr /\ img[p].n > 0 /\ p + img[p].n <= End

Operands(img, p) == p + 1 .. p + img[p].n - 1

\* One-byte signed displacement from the end of the branch, modulo 2^16.
BranchTarget(p, off) == (p + 2 + (IF off >= 128 THEN off - 256 ELSE off)) % 65536

StaticTarget(img, p) ==
  CASE img[p].flow \in {"jump", "call"} -> {img[p].arg}
    [] img[p].flow = "branch"           -> {BranchTarget(p, img[p].arg)}
    [] OTHER                            -> {}

FallThrough(img, p) ==
  IF img[p].flow \in {"stop", "indirect", "jump"} THEN {} ELSE {p + img[p].n}

\* What one visit of p contributes; the fall-through is not range-checked,
\* so End itself can be contributed.
Successors(img, p) ==
  IF Fits(img, p) THEN FallThrough(img, p) \cup (StaticTarget(img, p) \cap Addr)
  ELSE {}
==============================================================================
