---------------------------- MODULE GhidraProgram ----------------------------
(***************************************************************************)
(* The program database tools/re/ghidra_import.py works on, as the calls   *)
(* it makes show it: code units (instructions and data) that may not       *)
(* overlap, references, equates.  Ghidra is not part of the repository;    *)
(* the operators below are its API calls, taken as deterministic.          *)
(***************************************************************************)
EXTENDS Naturals, Sequences, FiniteSets

CONSTANTS
  Addr,       \* the addresses from CODE_BASE up to CODE_END_EXCL
  Code,       \* the instruction the bytes at an address decode to, or NoCode
  NoCode,
  NoData,     \* no data unit starts here
  StructLen   \* the length of the struct array

ASSUME AddrAssumption == Addr \subseteq Nat
ASSUME StructAssumption == StructLen \in Nat \ {0}
\* An instruction: its length and mnemonic, where control may go next, what
\* it calls, the addresses it writes and the immediate it holds (or none).
ASSUME CodeAssumption ==
  \A a \in Addr : Code[a] # NoCode => Code[a].len \in Nat \ {0}

DataTypes == {"byte", "undefined", "struct"}
ASSUME NoDataAssumption == NoData \notin DataTypes

\* code: where instructions start.  data: the type of the unit that starts at
\* an address.  calls: computed references <<from, to, type>>.  equates: the
\* operands that carry a name <<pc, name>>; values: the value of each name.
Fields == {"code", "data", "labels", "funcs", "typed", "plate", "writes", "calls",
           "equates", "values"}
NoPlates == [a \in Addr |-> "none"]
EmptyProgram ==
  [code |-> {}, data |-> [a \in Addr |-> NoData], labels |-> {}, funcs |-> {}, typed |-> {},
   plate |-> NoPlates, writes |-> {}, calls |-> {}, equates |-> {}, values |-> {}]

CodeSpan(a) == a .. a + Code[a].len - 1
DataSpan(a, type) == a .. (IF type = "struct" THEN a + StructLen - 1 ELSE a)
DataStarts(p) == {a \in Addr : p.data[a] # NoData}
Occupied(p) == (UNION {CodeSpan(a) : a \in p.code})
                 \union (UNION {DataSpan(a, p.data[a]) : a \in DataStarts(p)})

\* listing.clearCodeUnits(a, a) for the addresses of "as": every unit that
\* contains one goes, whole, and what hung on an instruction goes with it.
ClearCodeUnits(p, as) ==
  LET gone == {i \in p.code : CodeSpan(i) \intersect as # {}}
  IN  [p EXCEPT !.code = @ \ gone,
                !.data = [d \in Addr |->
                   IF @[d] # NoData /\ DataSpan(d, @[d]) \intersect as # {} THEN NoData ELSE @[d]],
                !.writes = {r \in @ : r[1] \notin gone},
                !.calls = {r \in @ : r[1] \notin gone},
                !.equates = {q \in @ : q[1] \notin gone}]

\* createData at one address, which raises when another unit is in the way,
\* and one-byte units at every address of "as" where it does not raise.
CanCreate(p, a, type) == DataSpan(a, type) \subseteq Addr \ Occupied(p)
CreateData(p, a, type) == [p EXCEPT !.data[a] = type]
CreateUnits(p, as, type) ==
  [p EXCEPT !.data = [a \in Addr |-> IF a \in as \ Occupied(p) THEN type ELSE @[a]]]

\* The disassembler follows the flow from the given addresses and leaves out
\* what would overlap a unit.
Fits(p, a) == /\ a \in Addr /\ Code[a] # NoCode
              /\ CodeSpan(a) \subseteq Addr \ Occupied(p)
NoOverlap(p, new) ==
  /\ \A a \in new : Fits(p, a)
  /\ \A a, b \in new : a # b => CodeSpan(a) \intersect CodeSpan(b) = {}
Flow(p, from) ==
  LET Frontier(s) == {a \in from \union (UNION {Code[i].flow : i \in s}) :
                        a \notin s /\ NoOverlap(p, s \union {a})}
      grow[n \in 0 .. Cardinality(Addr)] ==
        IF n = 0 THEN {}
        ELSE LET s == grow[n - 1]
                 f == Frontier(s)
             IN  IF f = {} THEN s ELSE s \union {CHOOSE a \in f : \A b \in f : a <= b}
  IN  grow[Cardinality(Addr)]
Disassembled(p, from) ==
  LET new == Flow(p, from)
  IN  IF NoOverlap(p, new) THEN [p EXCEPT !.code = @ \union new] ELSE p

\* Auto-analysis: code reached from functions and references, the functions
\* called, the references of writing instructions, and undefined data there.
Analysed(p) ==
  LET from == p.funcs \union {r[2] : r \in p.calls} \union (UNION {Code[i].flow : i \in p.code})
      q == Disassembled(p, from)
      stores == {s \in q.code \X Addr : s[2] \in Code[s[1]].stores}
  IN  [CreateUnits(q, {s[2] : s \in stores}, "undefined") EXCEPT
         !.writes = @ \union stores,
         !.funcs = @ \union {t \in q.code : \E i \in q.code : t \in Code[i].calls}]
==============================================================================
