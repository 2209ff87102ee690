---------------------------- MODULE MCGhidraImport ----------------------------
(***************************************************************************)
(* A dispatcher at 5 whose operand, opcode and a branch offset are patched *)
(* by the code before it; a struct segment at 17..20 (two bytes of struct, *)
(* two overlaid by a later segment) that stray code may reach into; runs   *)
(* with other annotations, seeds and compare facts after one another.      *)
(***************************************************************************)
EXTENDS GhidraImport

Ins(len, mnem, imm, flow, calls, stores) ==
  [len |-> len, mnem |-> mnem, imm |-> imm, flow |-> flow, calls |-> calls, stores |-> stores]
Plain(flow) == Ins(1, "RTS", NoData, flow, {}, {})

MCAddr == 0 .. 22
MCCode == [a \in 0..22 |->
  CASE a = 0  -> Ins(2, "LD", "JMP", {2}, {}, {})
    [] a = 2  -> Ins(3, "ST", NoData, {5}, {}, {5})
    [] a = 5  -> Ins(3, "JSR", NoData, {8}, {11}, {})
    [] a = 8  -> Ins(3, "ST", NoData, {11}, {}, {7, 12, 22})
    [] a = 11 -> Ins(2, "branch", NoData, {13, 15}, {}, {})
    [] a = 13 -> Ins(2, "LD", "$01", {15}, {}, {})
    [] a = 15 -> Plain({})
    [] a = 16 -> Ins(2, "LD", "$02", {18}, {}, {})
    [] a = 19 -> Plain({})
    [] OTHER  -> NoCode]
MCSegments == <<[start |-> 17, end |-> 21, struct |-> TRUE],
                [start |-> 19, end |-> 21, struct |-> FALSE]>>

Site(pc, targets) == [pc |-> pc, targets |-> targets]
Name(var, value, name) == [var |-> var, value |-> value, name |-> name]
Sig(pc, named, parses) == [pc |-> pc, named |-> named, parses |-> parses]
Fact(pc, mode, var, value) == [pc |-> pc, mode |-> mode, var |-> var, value |-> value]
NoInput == [dispatch |-> {}, branch |-> {}, opcode |-> {}, functions |-> {}, regions |-> {},
            signatures |-> {}, names |-> {}, facts |-> {}, entrypoints |-> {}]
MCInputs == {
  [NoInput EXCEPT !.entrypoints = {19}, !.regions = {21, 22, 5}, !.functions = {5, 11},
     !.dispatch = {Site(5, {11, 13})}, !.names = {Name(1, "$01", "on")},
     !.facts = {Fact(13, "imm", 1, "$01"), Fact(0, "imm", 1, "$01")}],
  [NoInput EXCEPT !.entrypoints = {15, 16}, !.dispatch = {Site(5, {15}), Site(Malformed, {0})},
     !.names = {Name(1, "$01", "on"), Name(2, "$02", "on"), Name(Malformed, "$02", "off")},
     !.facts = {Fact(0, "mem", 1, "$01"), Fact(13, "imm", 1, "$01"), Fact(16, "imm", 2, "$02")},
     !.branch = {11},
     !.signatures = {Sig(8, TRUE, TRUE), Sig(13, FALSE, TRUE), Sig(0, TRUE, FALSE)},
     !.regions = {22, Malformed}],
  [NoInput EXCEPT !.dispatch = {Site(5, {Malformed}), Site(11, {13})}, !.opcode = {5, 19},
     !.regions = {18, 22, 7, 12}]}
==============================================================================
