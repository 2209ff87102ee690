-------------------------- MODULE GhidraImport_proofs --------------------------
(***************************************************************************)
(* What every run of the import keeps, for every image, annotation file    *)
(* and number of runs.  IInv: the units of the Ghidra program never        *)
(* overlap, and only the typing of a variable takes an instruction away.   *)
(* NInv, on top of it: names, call targets, structs, regions and           *)
(* catalogues say what the program holds, and the structs on disk are in   *)
(* the program at work.  The disassembler is whatever Flow is: only that   *)
(* it places instructions where there is room (NoOverlap) is used.         *)
(***************************************************************************)
EXTENDS GhidraImport, TLAPS

\* The rule of the Ghidra program: no two code units overlap.
Disjoint(p) ==
  /\ \A a, b \in p.code : a # b => CodeSpan(a) \intersect CodeSpan(b) = {}
  /\ \A a \in p.code, b \in DataStarts(p) : CodeSpan(a) \intersect DataSpan(b, p.data[b]) = {}
  /\ \A a, b \in DataStarts(p) : a # b => DataSpan(a, p.data[a]) \intersect DataSpan(b, p.data[b]) = {}
Sound(p) == IsProgram(p) /\ Disjoint(p)

LEMMA SpanHasStart ==
  /\ \A a \in Addr : Code[a] # NoCode => a \in CodeSpan(a)
  /\ \A a \in Addr : \A t : a \in DataSpan(a, t)
BY AddrAssumption, CodeAssumption, StructAssumption DEF CodeSpan, DataSpan

\* A program with the same units is as sound.
LEMMA Frame ==
  ASSUME NEW p, NEW q, Sound(p), DOMAIN q = DOMAIN p, q.code = p.code, q.data = p.data
  PROVE  Sound(q)
BY DEF Sound, IsProgram, Disjoint, DataStarts

\* Clearing takes units away and changes no other.
LEMMA ClearSound ==
  ASSUME NEW p, Sound(p), NEW as
  PROVE  /\ Sound(ClearCodeUnits(p, as))
         /\ ClearCodeUnits(p, as).code = {i \in p.code : CodeSpan(i) \intersect as = {}}
         /\ \A a \in Addr : ClearCodeUnits(p, as).data[a] \in {NoData, p.data[a]}
<1> DEFINE q == ClearCodeUnits(p, as)
<1>1. /\ DOMAIN q = Fields
      /\ q.code = p.code \ {i \in p.code : CodeSpan(i) \intersect as # {}}
      /\ q.data = [d \in Addr |-> IF p.data[d] # NoData /\ DataSpan(d, p.data[d]) \intersect as # {}
                                    THEN NoData ELSE p.data[d]]
  BY DEF ClearCodeUnits, Sound, IsProgram, Fields
<1>2. q.data \in [Addr -> DataTypes \union {NoData}] /\ \A a \in Addr : q.data[a] \in {NoData, p.data[a]}
  BY <1>1 DEF Sound, IsProgram
<1>3. IsProgram(q)
  BY <1>1, <1>2 DEF IsProgram, Sound
<1>4. /\ q.code \subseteq p.code
      /\ DataStarts(q) \subseteq DataStarts(p)
      /\ \A a \in DataStarts(q) : q.data[a] = p.data[a]
  BY <1>1, <1>2 DEF DataStarts
<1>5. Disjoint(q)
  BY <1>4 DEF Disjoint, Sound
<1> QED
  BY <1>1, <1>2, <1>3, <1>5 DEF Sound

\* One-byte units go where no unit is.
LEMMA UnitsSound ==
  ASSUME NEW p, Sound(p), NEW as, NEW type \in {"byte", "undefined"}
  PROVE  Sound(CreateUnits(p, as, type)) /\ CreateUnits(p, as, type).code = p.code
<1> DEFINE q == CreateUnits(p, as, type)
<1>1. /\ DOMAIN q = Fields /\ q.code = p.code
      /\ q.data = [a \in Addr |-> IF a \in as \ Occupied(p) THEN type ELSE p.data[a]]
  BY DEF CreateUnits, Sound, IsProgram, Fields
<1>2. IsProgram(q)
  BY <1>1 DEF IsProgram, Sound, DataTypes
<1>3. type # NoData /\ type # "struct"
  BY NoDataAssumption DEF DataTypes
<1>4. ASSUME NEW a \in DataStarts(q)
      PROVE  \/ a \in DataStarts(p) /\ q.data[a] = p.data[a]
             \/ a \notin Occupied(p) /\ DataSpan(a, q.data[a]) = {a}
  <2>1. a \in Addr /\ a \in Nat
    BY <1>4, AddrAssumption DEF DataStarts
  <2>2. CASE a \in as \ Occupied(p)
    BY <2>1, <2>2, <1>1, <1>3 DEF DataSpan
  <2>3. CASE a \notin as \ Occupied(p)
    BY <2>1, <2>3, <1>1, <1>4 DEF DataStarts
  <2> QED BY <2>2, <2>3
<1>5. /\ \A i \in p.code : CodeSpan(i) \subseteq Occupied(p)
      /\ \A a \in DataStarts(p) : DataSpan(a, p.data[a]) \subseteq Occupied(p)
  BY DEF Occupied
<1>6. ASSUME NEW a \in DataStarts(q), NEW b \in DataStarts(q), a # b
      PROVE  DataSpan(a, q.data[a]) \intersect DataSpan(b, q.data[b]) = {}
  <2>1. CASE a \in DataStarts(p) /\ q.data[a] = p.data[a] /\ b \in DataStarts(p) /\ q.data[b] = p.data[b]
    BY <2>1, <1>6 DEF Sound, Disjoint
  <2>2. CASE a \notin Occupied(p) /\ DataSpan(a, q.data[a]) = {a}
    <3>1. CASE b \in DataStarts(p) /\ q.data[b] = p.data[b]
      BY <2>2, <3>1, <1>5
    <3>2. CASE DataSpan(b, q.data[b]) = {b}
      BY <2>2, <3>2, <1>6
    <3> QED BY <3>1, <3>2, <1>4
  <2>3. CASE b \notin Occupied(p) /\ DataSpan(b, q.data[b]) = {b}
    <3>1. CASE a \in DataStarts(p) /\ q.data[a] = p.data[a]
      BY <2>3, <3>1, <1>5
    <3>2. CASE DataSpan(a, q.data[a]) = {a}
      BY <2>3, <3>2, <1>6
    <3> QED BY <3>1, <3>2, <1>4
  <2> QED BY <2>1, <2>2, <2>3, <1>4
<1>7. ASSUME NEW i \in q.code, NEW b \in DataStarts(q)
      PROVE  CodeSpan(i) \intersect DataSpan(b, q.data[b]) = {}
  <2>1. CASE b \in DataStarts(p) /\ q.data[b] = p.data[b]
    BY <2>1, <1>1, <1>7 DEF Sound, Disjoint
  <2>2. CASE b \notin Occupied(p) /\ DataSpan(b, q.data[b]) = {b}
    BY <2>2, <1>1, <1>5, <1>7
  <2> QED BY <2>1, <2>2, <1>4
<1>8. \A i, j \in q.code : i # j => CodeSpan(i) \intersect CodeSpan(j) = {}
  BY <1>1 DEF Sound, Disjoint
<1>9. Disjoint(q)
  BY <1>6, <1>7, <1>8 DEF Disjoint
<1> QED
  BY <1>1, <1>2, <1>9 DEF Sound

\* And so does the struct array.
LEMMA StructSound ==
  ASSUME NEW p, Sound(p), NEW a \in Addr, CanCreate(p, a, "struct")
  PROVE  Sound(CreateData(p, a, "struct")) /\ CreateData(p, a, "struct").code = p.code
<1> DEFINE q == CreateData(p, a, "struct")
<1>1. /\ DOMAIN q = Fields /\ q.code = p.code
      /\ q.data = [p.data EXCEPT ![a] = "struct"]
  BY DEF CreateData, Sound, IsProgram, Fields
<1>2. /\ q.data \in [Addr -> DataTypes \union {NoData}]
      /\ q.data[a] = "struct"
      /\ \A b \in Addr : b # a => q.data[b] = p.data[b]
  BY <1>1 DEF Sound, IsProgram, DataTypes
<1>3. DataSpan(a, q.data[a]) \intersect Occupied(p) = {}
  BY <1>2 DEF CanCreate
<1>4. /\ \A i \in p.code : CodeSpan(i) \subseteq Occupied(p)
      /\ \A b \in DataStarts(p) : DataSpan(b, p.data[b]) \subseteq Occupied(p)
  BY DEF Occupied
<1>5. \A b \in DataStarts(q) : b = a \/ (b \in DataStarts(p) /\ q.data[b] = p.data[b])
  BY <1>2 DEF DataStarts
<1>6. ASSUME NEW b \in DataStarts(q), NEW c \in DataStarts(q), b # c
      PROVE  DataSpan(b, q.data[b]) \intersect DataSpan(c, q.data[c]) = {}
  <2>1. CASE b # a /\ c # a
    BY <2>1, <1>5, <1>6 DEF Sound, Disjoint
  <2>2. CASE b = a \/ c = a
    BY <2>2, <1>3, <1>4, <1>5, <1>6
  <2> QED BY <2>1, <2>2
<1>7. ASSUME NEW i \in q.code, NEW b \in DataStarts(q)
      PROVE  CodeSpan(i) \intersect DataSpan(b, q.data[b]) = {}
  <2>1. CASE b # a
    BY <2>1, <1>1, <1>5, <1>7 DEF Sound, Disjoint
  <2>2. CASE b = a
    BY <2>2, <1>1, <1>3, <1>4, <1>7
  <2> QED BY <2>1, <2>2
<1> QED
  BY <1>1, <1>2, <1>6, <1>7 DEF Sound, Disjoint, IsProgram

\* The disassembler only adds instructions.
LEMMA DisassembledSound ==
  ASSUME NEW p, Sound(p), NEW from
  PROVE  Sound(Disassembled(p, from)) /\ p.code \subseteq Disassembled(p, from).code
<1> DEFINE new == Flow(p, from)
           q == Disassembled(p, from)
<1> HIDE DEF new
<1>1. CASE ~NoOverlap(p, new)
  BY <1>1 DEF Disassembled, new
<1>2. CASE NoOverlap(p, new)
  <2>1. q = [p EXCEPT !.code = @ \union new]
    BY <1>2 DEF Disassembled, new
  <2>2. DOMAIN q = Fields /\ q.code = p.code \union new /\ q.data = p.data
    BY <2>1 DEF Sound, IsProgram, Fields
  <2>3. \A a \in new : /\ a \in Addr /\ Code[a] # NoCode
                       /\ CodeSpan(a) \intersect Occupied(p) = {}
    BY <1>2 DEF NoOverlap, Fits
  <2>4. /\ \A i \in p.code : CodeSpan(i) \subseteq Occupied(p)
        /\ \A b \in DataStarts(p) : DataSpan(b, p.data[b]) \subseteq Occupied(p)
    BY DEF Occupied
  <2>5. IsProgram(q)
    BY <2>2, <2>3 DEF Sound, IsProgram
  <2>6. DataStarts(q) = DataStarts(p)
    BY <2>2 DEF DataStarts
  <2>7. ASSUME NEW i \in q.code, NEW j \in q.code, i # j
        PROVE  CodeSpan(i) \intersect CodeSpan(j) = {}
    <3>1. CASE i \in p.code /\ j \in p.code
      BY <3>1, <2>7 DEF Sound, Disjoint
    <3>2. CASE i \in new /\ j \in new
      BY <3>2, <2>7, <1>2 DEF NoOverlap
    <3>3. CASE i \in p.code /\ j \in new
      BY <3>3, <2>3, <2>4
    <3>4. CASE i \in new /\ j \in p.code
      BY <3>4, <2>3, <2>4
    <3> QED BY <2>2, <3>1, <3>2, <3>3, <3>4
  <2>8. ASSUME NEW i \in q.code, NEW b \in DataStarts(q)
        PROVE  CodeSpan(i) \intersect DataSpan(b, q.data[b]) = {}
    <3>1. CASE i \in p.code
      BY <3>1, <2>2, <2>6, <2>8 DEF Sound, Disjoint
    <3>2. CASE i \in new
      BY <3>2, <2>2, <2>3, <2>4, <2>6, <2>8
    <3> QED BY <2>2, <3>1, <3>2
  <2>9. Disjoint(q)
    BY <2>2, <2>6, <2>7, <2>8 DEF Sound, Disjoint
  <2> QED BY <2>2, <2>5, <2>9 DEF Sound
<1> QED BY <1>1, <1>2

\* The analysis adds instructions and the undefined data they write.
LEMMA AnalysedSound ==
  ASSUME NEW p, Sound(p)
  PROVE  Sound(Analysed(p)) /\ p.code \subseteq Analysed(p).code
<1> DEFINE from == p.funcs \union {r[2] : r \in p.calls} \union (UNION {Code[i].flow : i \in p.code})
           q == Disassembled(p, from)
           stores == {s \in q.code \X Addr : s[2] \in Code[s[1]].stores}
           u == CreateUnits(q, {s[2] : s \in stores}, "undefined")
<1>1. Sound(q) /\ p.code \subseteq q.code
  BY DisassembledSound
<1>2. Sound(u) /\ u.code = q.code
  BY <1>1, UnitsSound
<1> HIDE DEF u
<1>3. /\ DOMAIN Analysed(p) = DOMAIN u
      /\ Analysed(p).code = u.code /\ Analysed(p).data = u.data
  BY <1>2 DEF Analysed, u, Sound, IsProgram, Fields
<1> QED
  BY <1>1, <1>2, <1>3, Frame

\* A data unit never starts inside an instruction.
LEMMA DataOffCode ==
  ASSUME NEW p, Sound(p), NEW as, as \subseteq DataStarts(p)
  PROVE  \A i \in p.code : CodeSpan(i) \intersect as = {}
BY SpanHasStart DEF Sound, Disjoint, DataStarts

\* A segment that is not structured loses no instruction.
LEMMA MarkDataSound ==
  ASSUME NEW p, Sound(p), NEW bytes
  PROVE  Sound(MarkData(p, bytes)) /\ MarkData(p, bytes).code = p.code
<1> DEFINE as == {a \in (DataStarts(p) \intersect bytes) \ p.code : p.data[a] # "byte"}
           q == ClearCodeUnits(p, as)
<1>1. Sound(q) /\ q.code = {i \in p.code : CodeSpan(i) \intersect as = {}}
  BY ClearSound
<1>2. \A i \in p.code : CodeSpan(i) \intersect as = {}
  BY DataOffCode
<1>3. q.code = p.code
  BY <1>1, <1>2
<1> HIDE DEF q
<1>4. Sound(CreateUnits(q, bytes \ p.code, "byte")) /\ CreateUnits(q, bytes \ p.code, "byte").code = q.code
  BY <1>1, UnitsSound
<1> QED
  BY <1>3, <1>4 DEF MarkData, q

\* Nor does one that is.
LEMMA ApplyStructSound ==
  ASSUME NEW p, Sound(p), NEW s, s.start \in Addr
  PROVE  Sound(ApplyStruct(p, s)) /\ ApplyStruct(p, s).code = p.code
<1> DEFINE as == DataStarts(p) \intersect StructArea(s)
           q == Emptied(p, s)
<1>1. Sound(q) /\ q.code = {i \in p.code : CodeSpan(i) \intersect as = {}}
  BY ClearSound DEF Emptied
<1>2. q.code = p.code
  BY <1>1, DataOffCode
<1> HIDE DEF q
<1>3. CASE Blocked(p, s)
  BY <1>3 DEF ApplyStruct
<1>4. CASE ~Blocked(p, s) /\ StructPlaced(p, s)
  <2>1. CanCreate(q, s.start, "struct")
    BY <1>4 DEF StructPlaced, q
  <2>2. Sound(CreateData(q, s.start, "struct")) /\ CreateData(q, s.start, "struct").code = q.code
    BY <1>1, <2>1, StructSound
  <2> QED BY <1>2, <1>4, <2>2 DEF ApplyStruct, q
<1>5. CASE ~Blocked(p, s) /\ ~StructPlaced(p, s)
  BY <1>1, <1>2, <1>5 DEF ApplyStruct, q
<1> QED BY <1>3, <1>4, <1>5

\* Typing a variable takes away the instructions it is a byte of.
LEMMA TypeByteSound ==
  ASSUME NEW p, Sound(p), NEW a
  PROVE  /\ Sound(TypeByte(p, a))
         /\ TypeByte(p, a).code = {i \in p.code : a \notin CodeSpan(i)}
<1> DEFINE q == ClearCodeUnits(p, {a})
<1>1. Sound(q) /\ q.code = {i \in p.code : CodeSpan(i) \intersect {a} = {}}
  BY ClearSound
<1> HIDE DEF q
<1>2. Sound(CreateUnits(q, {a}, "byte")) /\ CreateUnits(q, {a}, "byte").code = q.code
  BY <1>1, UnitsSound
<1> QED BY <1>1, <1>2 DEF TypeByte, q

(***************************************************************************)
(* The inductive invariant: both programs are sound, and the work left is  *)
(* segments while these are marked and regions while variables are typed.  *)
(***************************************************************************)
IInv == /\ Sound(db) /\ Sound(saved)
        /\ phase = "segments" => todo \subseteq DOMAIN Segments
        /\ phase = "types" => todo \subseteq Regions(ann) \intersect Addr

LEMMA InitSound == Init => IInv
<1> SUFFICES ASSUME Init PROVE IInv
  OBVIOUS
<1>1. Sound(EmptyProgram)
  BY DEF Sound, IsProgram, Disjoint, DataStarts, EmptyProgram, Fields
<1> QED
  BY <1>1 DEF Init, IInv

\* A step that leaves the units alone.
LEMMA Notes ==
  ASSUME IInv, DOMAIN db' = DOMAIN db, db'.code = db.code, db'.data = db.data
  PROVE  Sound(db') /\ db.code \subseteq db'.code
BY Frame DEF IInv

\* Every step of a run keeps the program sound, and its instructions.
LEMMA StepSound ==
  ASSUME IInv, Working
  PROVE  Sound(db') /\ (~ApplyTypes => db.code \subseteq db'.code)
<1> USE DEF IInv
<1>0. DOMAIN db = Fields
  BY DEF Sound, IsProgram
<1>1. CASE UNCHANGED db
  BY <1>1
<1>2. CASE ApplyLabels
  BY <1>2, <1>0, Notes DEF ApplyLabels, Fields
<1>3. CASE ForceDisassemble
  <2>1. PICK pc \in todo : db' = IF pc \in db.code \union Unreadable THEN db
                                 ELSE Disassembled(db, {pc})
    BY <1>3 DEF ForceDisassemble
  <2> QED BY <2>1, DisassembledSound
<1>4. CASE PromoteLandmarks
  BY <1>4, <1>0, Notes DEF PromoteLandmarks, CreateFunctions, Fields
<1>5. CASE MarkSegment
  <2>1. PICK k \in DOMAIN Segments :
          db' = IF Segments[k].struct
                  THEN MarkData(ApplyStruct(db, Segments[k]), Upper(Segments[k]))
                  ELSE MarkData(db, SegmentBytes(Segments[k]))
    BY <1>5 DEF MarkSegment, Sure, Step
  <2> QED BY <2>1, MarkDataSound, ApplyStructSound, SegmentsAssumption
<1>6. CASE SegmentNames
  BY <1>6, <1>0, Notes DEF SegmentNames, Fields
<1>7. CASE AnnotateBands
  BY <1>7, <1>0, Notes DEF AnnotateBands, Fields
<1>8. CASE ApplyDispatch
  BY <1>8, <1>0, Notes DEF ApplyDispatch, Fields
<1>9. CASE ApplyEquates
  BY <1>9, <1>0, Notes DEF ApplyEquates, Fields
<1>10. CASE Analyze
  BY <1>10, AnalysedSound DEF Analyze
<1>11. CASE ApplySignatures
  BY <1>11, <1>0, Notes DEF ApplySignatures, CreateFunctions, Fields
<1>12. CASE PushComments
  BY <1>12, <1>0, Notes DEF PushComments, Fields
<1>13. CASE ApplyTypes
  <2>1. PICK a \in todo : db' = IF IsVariable(db, a) THEN TypeByte(db, a) ELSE db
    BY <1>13 DEF ApplyTypes
  <2> QED BY <1>13, <2>1, TypeByteSound
<1> QED
  BY <1>1, <1>2, <1>3, <1>4, <1>5, <1>6, <1>7, <1>8, <1>9, <1>10, <1>11, <1>12, <1>13
  DEF Working, Start, ExportDispatch, ExportBranch, ExportOpcode, ExportSymbols, ExportSegments, ExportListing, Decompile

\* Segments are marked and variables typed only where they are.
LEMMA TodoStep ==
  ASSUME IInv, [Next]_vars
  PROVE  /\ phase' = "segments" => todo' \subseteq DOMAIN Segments
         /\ phase' = "types" => todo' \subseteq Regions(ann') \intersect Addr
<1> USE DEF IInv, Sure, Step
<1>1. CASE PushComments
  BY <1>1 DEF PushComments
<1>2. CASE ApplyTypes
  BY <1>2 DEF ApplyTypes
<1>3. CASE UNCHANGED vars
  BY <1>3 DEF vars
<1>4. CASE PromoteLandmarks
  BY <1>4 DEF PromoteLandmarks
<1>5. CASE MarkSegment
  BY <1>5 DEF MarkSegment
<1>6. CASE Next /\ ~PushComments /\ ~ApplyTypes /\ ~PromoteLandmarks /\ ~MarkSegment
  <2>1. phase' \notin {"segments", "types"}
    BY <1>6 DEF Next, Working, Start, ApplyLabels, ForceDisassemble, SegmentNames, AnnotateBands,
      ApplyDispatch, ApplyEquates, Analyze, ApplySignatures, ExportDispatch, ExportBranch, ExportOpcode,
      ExportSymbols, ExportSegments, ExportListing, Decompile, Raise, Kill
  <2> QED BY <2>1
<1> QED BY <1>1, <1>2, <1>3, <1>4, <1>5, <1>6

LEMMA SavedStep ==
  ASSUME [Next]_vars
  PROVE  saved' = saved \/ saved' = db
BY DEF Next, Working, Start, ApplyLabels, ForceDisassemble, PromoteLandmarks, MarkSegment, SegmentNames,
  AnnotateBands, ApplyDispatch, ApplyEquates, Analyze, ApplySignatures, ExportDispatch, ExportBranch,
  ExportOpcode, PushComments, ApplyTypes, ExportSymbols, ExportSegments, ExportListing, Decompile, Raise, Kill, Sure, Step, vars

LEMMA Inductive == IInv /\ [Next]_vars => IInv'
<1> SUFFICES ASSUME IInv, [Next]_vars PROVE IInv'
  OBVIOUS
<1>1. Sound(db')
  <2>1. CASE Working
    BY <2>1, StepSound
  <2>2. CASE Raise \/ Kill \/ UNCHANGED vars
    BY <2>2 DEF Raise, Kill, vars, IInv
  <2> QED BY <2>1, <2>2 DEF Next
<1>2. Sound(saved')
  BY SavedStep DEF IInv
<1> QED BY <1>1, <1>2, TodoStep DEF IInv

\* The program at work and the one on disk stay well formed.
THEOREM TypeCorrect == Spec => []TypeOK
<1>1. IInv => TypeOK
  BY DEF IInv, Sound, TypeOK
<1> QED BY <1>1, InitSound, Inductive, PTL DEF Spec

\* No step takes an instruction away but the typing of variables:
\* _mark_data_segment and the structs leave the code in a segment alone.
THEOREM CodeIsKept == Spec => InstructionsKept
<1>1. IInv /\ [Next]_vars => [Working /\ ~ApplyTypes => db.code \subseteq db'.code]_vars
  BY StepSound
<1> QED BY <1>1, InitSound, Inductive, PTL DEF Spec, InstructionsKept

(***************************************************************************)
(* What each operation on a program leaves alone, beside the units.        *)
(***************************************************************************)

LEMMA ClearNotes ==
  ASSUME NEW p, Sound(p), NEW as
  PROVE  LET q == ClearCodeUnits(p, as) gone == p.code \ q.code IN
         /\ q.values = p.values
         /\ q.writes = {r \in p.writes : r[1] \notin gone}
         /\ q.calls = {r \in p.calls : r[1] \notin gone}
         /\ q.equates = {e \in p.equates : e[1] \notin gone}
<1> DEFINE gone == {i \in p.code : CodeSpan(i) \intersect as # {}}
           q == ClearCodeUnits(p, as)
<1>1. /\ q.code = p.code \ gone /\ q.values = p.values
      /\ q.writes = {r \in p.writes : r[1] \notin gone}
      /\ q.calls = {r \in p.calls : r[1] \notin gone}
      /\ q.equates = {e \in p.equates : e[1] \notin gone}
  BY DEF ClearCodeUnits, Sound, IsProgram, Fields
<1>2. p.code \ (p.code \ gone) = gone
  OBVIOUS
<1> QED BY <1>1, <1>2

\* Clearing where units start clears these and no other.
LEMMA ClearStarts ==
  ASSUME NEW p, Sound(p), NEW at, at \subseteq DataStarts(p)
  PROVE  /\ ClearCodeUnits(p, at).code = p.code
         /\ \A a \in Addr : ClearCodeUnits(p, at).data[a] = IF a \in at THEN NoData ELSE p.data[a]
<1>1. ClearCodeUnits(p, at).code = p.code
  <2>1. \A i \in p.code : CodeSpan(i) \intersect at = {}
    BY DataOffCode
  <2>2. ClearCodeUnits(p, at).code = {i \in p.code : CodeSpan(i) \intersect at = {}}
    BY ClearSound
  <2> QED BY <2>1, <2>2
<1>2. ClearCodeUnits(p, at).data = [d \in Addr |-> IF p.data[d] # NoData /\ DataSpan(d, p.data[d]) \intersect at # {}
                                                     THEN NoData ELSE p.data[d]]
  BY DEF ClearCodeUnits, Sound, IsProgram, Fields
<1>3. ASSUME NEW a \in Addr, p.data[a] # NoData
      PROVE  DataSpan(a, p.data[a]) \intersect at # {} <=> a \in at
  <2>1. a \in DataStarts(p)
    BY <1>3 DEF DataStarts
  <2>2. \A b \in at : b \in DataStarts(p) /\ b \in DataSpan(b, p.data[b])
    BY SpanHasStart DEF DataStarts
  <2>3. \A b \in at : b \in DataSpan(a, p.data[a]) => b = a
    BY <2>1, <2>2 DEF Sound, Disjoint
  <2>4. a \in DataSpan(a, p.data[a])
    BY SpanHasStart
  <2> QED BY <2>3, <2>4
<1>4. \A a \in at : p.data[a] # NoData
  BY DEF DataStarts
<1> QED BY <1>1, <1>2, <1>3, <1>4

\* Only data changes where data is created.
LEMMA UnitsNotes ==
  ASSUME NEW p, Sound(p), NEW as, NEW type \in {"byte", "undefined"}
  PROVE  LET q == CreateUnits(p, as, type) IN
         /\ q.values = p.values /\ q.writes = p.writes /\ q.calls = p.calls /\ q.equates = p.equates
         /\ \A a \in Addr : q.data[a] = IF a \in as \ Occupied(p) THEN type ELSE p.data[a]
         /\ \A a \in Addr : p.data[a] # NoData => q.data[a] = p.data[a]
<1> DEFINE q == CreateUnits(p, as, type)
<1>1. /\ q.values = p.values /\ q.writes = p.writes /\ q.calls = p.calls /\ q.equates = p.equates
      /\ q.data = [a \in Addr |-> IF a \in as \ Occupied(p) THEN type ELSE p.data[a]]
  BY DEF CreateUnits, Sound, IsProgram, Fields
<1>2. \A a \in Addr : p.data[a] # NoData => a \in Occupied(p)
  BY SpanHasStart DEF Occupied, DataStarts
<1> QED BY <1>1, <1>2

LEMMA StructNotes ==
  ASSUME NEW p, Sound(p), NEW s \in Addr
  PROVE  LET q == CreateData(p, s, "struct") IN
         /\ q.values = p.values /\ q.writes = p.writes /\ q.calls = p.calls /\ q.equates = p.equates
         /\ \A a \in Addr : q.data[a] = IF a = s THEN "struct" ELSE p.data[a]
BY DEF CreateData, Sound, IsProgram, Fields

LEMMA DisassembledNotes ==
  ASSUME NEW p, Sound(p), NEW from
  PROVE  LET q == Disassembled(p, from) IN
         /\ q.values = p.values /\ q.writes = p.writes /\ q.calls = p.calls /\ q.equates = p.equates
         /\ q.data = p.data
<1> DEFINE new == Flow(p, from)
<1> HIDE DEF new
<1>1. Disassembled(p, from) = IF NoOverlap(p, new) THEN [p EXCEPT !.code = @ \union new] ELSE p
  BY DEF Disassembled, new
<1> QED BY <1>1 DEF Sound, IsProgram, Fields

\* Neither the disassembler nor the analysis places or removes a struct.
SameStructs(p, q) == \A a \in Addr : q.data[a] = "struct" <=> p.data[a] = "struct"

LEMMA UnitsStructs ==
  ASSUME NEW p, Sound(p), NEW at, NEW type \in {"byte", "undefined"}
  PROVE  SameStructs(p, CreateUnits(p, at, type))
<1>1. NoData # "struct" BY NoDataAssumption DEF DataTypes
<1> DEFINE q == CreateUnits(p, at, type)
<1>2. /\ \A a \in Addr : q.data[a] = IF a \in at \ Occupied(p) THEN type ELSE p.data[a]
      /\ \A a \in Addr : p.data[a] # NoData => q.data[a] = p.data[a]
  BY UnitsNotes
<1> HIDE DEF q
<1>3. SameStructs(p, q)
  BY <1>1, <1>2 DEF SameStructs
<1> QED BY <1>3 DEF q

LEMMA AnalysedNotes ==
  ASSUME NEW p, Sound(p)
  PROVE  LET q == Analysed(p) IN
         q.values = p.values /\ q.calls = p.calls /\ q.equates = p.equates /\ SameStructs(p, q)
<1> DEFINE from == p.funcs \union {r[2] : r \in p.calls} \union (UNION {Code[i].flow : i \in p.code})
           q == Disassembled(p, from)
           stores == {s \in q.code \X Addr : s[2] \in Code[s[1]].stores}
           as == {s[2] : s \in stores}
           u == CreateUnits(q, as, "undefined")
<1>1. Sound(q) /\ q.values = p.values /\ q.calls = p.calls /\ q.equates = p.equates /\ q.data = p.data
  BY DisassembledSound, DisassembledNotes
<1>2. Analysed(p) = [u EXCEPT !.writes = @ \union stores,
                              !.funcs = @ \union {t \in q.code : \E i \in q.code : t \in Code[i].calls}]
  BY DEF Analysed
<1> HIDE DEF q, as
<1>3. Sound(u) /\ u.values = q.values /\ u.calls = q.calls /\ u.equates = q.equates /\ SameStructs(q, u)
  BY <1>1, UnitsSound, UnitsNotes, UnitsStructs
<1> HIDE DEF u
<1>4. /\ Analysed(p).values = u.values /\ Analysed(p).calls = u.calls /\ Analysed(p).equates = u.equates
      /\ Analysed(p).data = u.data
  BY <1>2, <1>3 DEF Sound, IsProgram, Fields
<1> QED BY <1>1, <1>3, <1>4 DEF SameStructs

\* Marking data touches neither notes nor structs that start elsewhere.
LEMMA MarkDataNotes ==
  ASSUME NEW p, Sound(p), NEW bytes
  PROVE  LET q == MarkData(p, bytes) IN
         /\ q.values = p.values /\ q.writes = p.writes /\ q.calls = p.calls /\ q.equates = p.equates
         /\ \A a \in Addr : q.data[a] = "struct" => p.data[a] = "struct"
         /\ \A a \in Addr \ bytes : p.data[a] = "struct" => q.data[a] = "struct"
<1> DEFINE as == {a \in (DataStarts(p) \intersect bytes) \ p.code : p.data[a] # "byte"}
           c == ClearCodeUnits(p, as)
           q == CreateUnits(c, bytes \ p.code, "byte")
<1>1. Sound(c) /\ c.code = p.code /\ \A a \in Addr : c.data[a] = IF a \in as THEN NoData ELSE p.data[a]
  BY ClearSound, ClearStarts
<1>2. c.values = p.values /\ c.writes = p.writes /\ c.calls = p.calls /\ c.equates = p.equates
  <2>1. p.code \ c.code = {} BY <1>1
  <2>2. /\ c.values = p.values
        /\ c.writes = {r \in p.writes : r[1] \notin p.code \ c.code}
        /\ c.calls = {r \in p.calls : r[1] \notin p.code \ c.code}
        /\ c.equates = {e \in p.equates : e[1] \notin p.code \ c.code}
    BY ClearNotes
  <2> HIDE DEF c
  <2> QED BY <2>1, <2>2
<1>3. MarkData(p, bytes) = q
  BY DEF MarkData
<1> HIDE DEF c
<1>4. q.values = c.values /\ q.writes = c.writes /\ q.calls = c.calls /\ q.equates = c.equates /\ SameStructs(c, q)
  BY <1>1, UnitsNotes, UnitsStructs
<1>5. NoData # "struct" BY NoDataAssumption DEF DataTypes
<1>6. \A a \in Addr : c.data[a] = "struct" => p.data[a] = "struct"
  BY <1>1, <1>5
<1>7. \A a \in Addr \ bytes : p.data[a] = "struct" => c.data[a] = "struct"
  BY <1>1
<1> HIDE DEF q
<1> QED BY <1>2, <1>3, <1>4, <1>6, <1>7 DEF SameStructs

\* A struct is placed at its start or nowhere, and clears no struct that
\* starts outside its area.
LEMMA ApplyStructNotes ==
  ASSUME NEW p, Sound(p), NEW s, s.start \in Addr
  PROVE  LET q == ApplyStruct(p, s) IN
         /\ q.values = p.values /\ q.writes = p.writes /\ q.calls = p.calls /\ q.equates = p.equates
         /\ q.data[s.start] = "struct" <=> StructPlaced(p, s)
         /\ \A a \in Addr \ {s.start} : q.data[a] = "struct" => p.data[a] = "struct"
         /\ \A a \in Addr \ StructArea(s) : p.data[a] = "struct" => q.data[a] = "struct"
<1> DEFINE as == DataStarts(p) \intersect StructArea(s)
           c == Emptied(p, s)
<1>1. s.start \in StructArea(s)
  <2>1. \A n \in Nat : n \in n .. n + StructLen - 1 BY StructAssumption
  <2> QED BY <2>1, AddrAssumption DEF StructArea
<1>2. NoData # "struct" BY NoDataAssumption DEF DataTypes
<1>3. Sound(c) /\ c.code = p.code /\ \A a \in Addr : c.data[a] = IF a \in as THEN NoData ELSE p.data[a]
  BY ClearSound, ClearStarts DEF Emptied
<1>4. c.values = p.values /\ c.writes = p.writes /\ c.calls = p.calls /\ c.equates = p.equates
  <2>1. p.code \ c.code = {} BY <1>3
  <2>2. /\ c.values = p.values
        /\ c.writes = {r \in p.writes : r[1] \notin p.code \ c.code}
        /\ c.calls = {r \in p.calls : r[1] \notin p.code \ c.code}
        /\ c.equates = {e \in p.equates : e[1] \notin p.code \ c.code}
    BY ClearNotes DEF Emptied
  <2> HIDE DEF c
  <2> QED BY <2>1, <2>2
<1> HIDE DEF c
<1>5. CASE Blocked(p, s)
  <2>1. PICK i \in p.code : i \in StructArea(s) BY <1>5 DEF Blocked
  <2>2. i \in CodeSpan(i) BY SpanHasStart DEF Sound, IsProgram
  <2>3. p.data[s.start] = "struct" => i \in DataSpan(s.start, p.data[s.start])
    BY <2>1 DEF DataSpan, StructArea
  <2>4. p.data[s.start] # "struct"
    BY <2>1, <2>2, <2>3, <1>2 DEF Sound, Disjoint, DataStarts
  <2> QED BY <1>5, <2>4 DEF ApplyStruct, StructPlaced
<1>6. c.data[s.start] # "struct"
  BY <1>1, <1>2, <1>3 DEF DataStarts
<1>7. /\ \A a \in Addr : c.data[a] = "struct" => p.data[a] = "struct"
      /\ \A a \in Addr \ StructArea(s) : c.data[a] = p.data[a]
  BY <1>2, <1>3
<1>8. CASE ~Blocked(p, s) /\ StructPlaced(p, s)
  <2>1. ApplyStruct(p, s) = CreateData(c, s.start, "struct")
    BY <1>8 DEF ApplyStruct, c
  <2>2. LET q == CreateData(c, s.start, "struct") IN
        /\ q.values = c.values /\ q.writes = c.writes /\ q.calls = c.calls /\ q.equates = c.equates
        /\ \A a \in Addr : q.data[a] = IF a = s.start THEN "struct" ELSE c.data[a]
    BY <1>3, StructNotes
  <2> QED BY <1>1, <1>4, <1>7, <1>8, <2>1, <2>2
<1>9. CASE ~Blocked(p, s) /\ ~StructPlaced(p, s)
  <2>1. ApplyStruct(p, s) = c
    BY <1>9 DEF ApplyStruct, c
  <2> QED BY <1>4, <1>6, <1>7, <1>9, <2>1
<1> QED BY <1>5, <1>8, <1>9

\* Typing a variable puts a byte there and clears what contained it, no more.
LEMMA TypeByteNotes ==
  ASSUME NEW p, Sound(p), NEW a \in Addr
  PROVE  LET q == TypeByte(p, a) gone == p.code \ q.code IN
         /\ q.values = p.values
         /\ q.writes = {r \in p.writes : r[1] \notin gone}
         /\ q.calls = {r \in p.calls : r[1] \notin gone}
         /\ q.equates = {e \in p.equates : e[1] \notin gone}
         /\ q.data[a] = "byte"
         /\ \A b \in Addr : q.data[b] = "struct" => p.data[b] = "struct"
         /\ \A b \in Addr : p.data[b] # NoData /\ a \notin DataSpan(b, p.data[b]) => q.data[b] = p.data[b]
<1> DEFINE c == ClearCodeUnits(p, {a})
           q == CreateUnits(c, {a}, "byte")
<1>1. Sound(c) /\ c.code = {i \in p.code : CodeSpan(i) \intersect {a} = {}}
      /\ \A b \in Addr : c.data[b] \in {NoData, p.data[b]}
  BY ClearSound
<1>2. c.data = [d \in Addr |-> IF p.data[d] # NoData /\ DataSpan(d, p.data[d]) \intersect {a} # {}
                                 THEN NoData ELSE p.data[d]]
  BY DEF ClearCodeUnits, Sound, IsProgram, Fields
<1>3. LET gone == p.code \ c.code IN
         /\ c.values = p.values
         /\ c.writes = {r \in p.writes : r[1] \notin gone}
         /\ c.calls = {r \in p.calls : r[1] \notin gone}
         /\ c.equates = {e \in p.equates : e[1] \notin gone}
  BY ClearNotes
<1>4. a \notin Occupied(c)
  BY <1>1, <1>2 DEF Occupied, DataStarts
<1>5. TypeByte(p, a) = q
  BY DEF TypeByte
<1> HIDE DEF c
<1>6. /\ q.values = c.values /\ q.writes = c.writes /\ q.calls = c.calls /\ q.equates = c.equates
      /\ q.code = c.code /\ SameStructs(c, q)
      /\ \A b \in Addr : q.data[b] = IF b \in {a} \ Occupied(c) THEN "byte" ELSE c.data[b]
      /\ \A b \in Addr : c.data[b] # NoData => q.data[b] = c.data[b]
  BY <1>1, UnitsSound, UnitsNotes, UnitsStructs
<1> HIDE DEF q
<1>7. NoData # "struct" BY NoDataAssumption DEF DataTypes
<1>8. \A b \in Addr : q.data[b] = "struct" => p.data[b] = "struct"
  BY <1>1, <1>6, <1>7 DEF SameStructs
<1>9. \A b \in Addr : p.data[b] # NoData /\ a \notin DataSpan(b, p.data[b]) => q.data[b] = p.data[b]
  BY <1>2, <1>6
<1> QED BY <1>3, <1>4, <1>5, <1>6, <1>8, <1>9

(***************************************************************************)
(* What the program and the exports say.                                   *)
(***************************************************************************)

NamesTrue(p) ==
  /\ \A q \in p.equates : <<q[2], Code[q[1]].imm>> \in p.values
  /\ \A v, w \in p.values : v[1] = w[1] => v[2] = w[2]

\* A struct starts where a segment does.
StructsInSegments(p) == \A a \in Addr : p.data[a] = "struct" => \E k \in DOMAIN Segments : a = Segments[k].start

\* What this run says of a segment is how it stands.
Shown(k) == k \in structs <=> Segments[k].struct /\ db.data[Segments[k].start] = "struct"

Marked == {"bands", "dispatch"} \union Late

StructsTold ==
  /\ phase \in {"labels", "disassemble"} => structs = {}
  /\ phase = "segments" => \A k \in DOMAIN Segments : IF k \in todo THEN k \notin structs ELSE Shown(k)
  /\ phase \in Marked => \A k \in DOMAIN Segments : Shown(k)
  /\ phase \in {"listing", "decompile"} => \A k \in DOMAIN Segments : out.segments[k].struct = (k \in structs)
  /\ phase = "decompile" => {l[1] : l \in out.listing} = db.code

Files == {"dispatch", "branch", "opcode", "symbols", "segments", "listing", "decompiled"}

Closing == {"rows", "listing", "decompile"}

\* A catalogue stays exact from its export, unless code is cleared.
CataloguesKept ==
  /\ DOMAIN out = Files
  /\ lost = {} =>
     /\ phase \in {"branches", "opcodes", "plates", "types"} \union Closing =>
          out.dispatch = Catalogue({e.pc : e \in LoadDispatch(ann)}, DispatchSites(db))
     /\ phase \in {"opcodes", "plates", "types"} \union Closing =>
          out.branch = Catalogue(LoadBranch(ann), BranchSites(db))
     /\ phase \in {"plates", "types"} \union Closing =>
          out.opcode = Catalogue(LoadOpcode(ann), OpcodeSites(db))

Done(a) == InSegment(a) \/ a \in db.code \union lost \/ db.data[a] = "byte"

RegionsDone ==
  /\ phase = "types" => \A a \in (Regions(ann) \intersect Addr) \ todo : Done(a)
  /\ phase \in Closing => \A a \in Regions(ann) \intersect Addr : Done(a)

\* A struct lies within the program, and one on disk is in the program at work.
StructsFit(p) == \A a \in Addr : p.data[a] = "struct" => DataSpan(a, "struct") \subseteq Addr
StructsBack ==
  \A k \in DOMAIN Segments :
    Segments[k].struct /\ saved.data[Segments[k].start] = "struct" => db.data[Segments[k].start] = "struct"

LostIsCode == lost \subseteq {a \in Addr : Code[a] # NoCode}

NInv == /\ ann \in Inputs
        /\ NamesTrue(db) /\ NamesTrue(saved) /\ StructsInSegments(db) /\ StructsInSegments(saved)
        /\ StructsFit(db) /\ StructsFit(saved) /\ StructsBack /\ LostIsCode
        /\ TargetsCurrent /\ StructsTold /\ CataloguesKept /\ RegionsDone

LEMMA NInit == Init => NInv
<1> SUFFICES ASSUME Init PROVE NInv OBVIOUS
<1>1. NamesTrue(EmptyProgram) BY DEF NamesTrue, EmptyProgram
<1>2. StructsInSegments(EmptyProgram) /\ StructsFit(EmptyProgram)
  BY NoDataAssumption DEF StructsInSegments, StructsFit, EmptyProgram, DataTypes
<1>3. TargetsCurrent /\ StructsTold /\ CataloguesKept /\ RegionsDone /\ StructsBack /\ LostIsCode
  BY DEF Init, TargetsCurrent, StructsTold, CataloguesKept, RegionsDone, StructsBack, LostIsCode,
    Late, Marked, Files, Closing
<1> QED BY <1>1, <1>2, <1>3 DEF Init, NInv

\* What the actions of a run leave alone in the program.
LEMMA NotesStep ==
  ASSUME IInv, Working
  PROVE  /\ ~ApplyEquates => db'.values = db.values /\ db'.equates \subseteq db.equates
         /\ ~ApplyDispatch /\ ~ApplyTypes => db'.calls = db.calls
         /\ ~MarkSegment /\ ~ApplyTypes => SameStructs(db, db')
<1> USE DEF IInv, SameStructs
<1>0. DOMAIN db = Fields
  BY DEF Sound, IsProgram
<1>1. CASE UNCHANGED db
  BY <1>1
<1>2. CASE ApplyLabels
  BY <1>2, <1>0 DEF ApplyLabels, Fields
<1>3. CASE ForceDisassemble
  <2>1. PICK pc \in todo : db' = IF pc \in db.code \union Unreadable THEN db
                                 ELSE Disassembled(db, {pc})
    BY <1>3 DEF ForceDisassemble
  <2> QED BY <2>1, DisassembledNotes
<1>4. CASE PromoteLandmarks
  BY <1>4, <1>0 DEF PromoteLandmarks, CreateFunctions, Fields
<1>5. CASE MarkSegment
  <2>1. PICK k \in DOMAIN Segments :
          db' = IF Segments[k].struct
                  THEN MarkData(ApplyStruct(db, Segments[k]), Upper(Segments[k]))
                  ELSE MarkData(db, SegmentBytes(Segments[k]))
    BY <1>5 DEF MarkSegment, Sure, Step
  <2>2. \A p : \A b : Sound(p) => LET q == MarkData(p, b) IN
          q.values = p.values /\ q.calls = p.calls /\ q.equates = p.equates
    BY MarkDataNotes
  <2>3. LET q == ApplyStruct(db, Segments[k]) IN
          Sound(q) /\ q.values = db.values /\ q.calls = db.calls /\ q.equates = db.equates
    BY ApplyStructSound, ApplyStructNotes, SegmentsAssumption
  <2>4. db'.values = db.values /\ db'.calls = db.calls /\ db'.equates = db.equates
    BY <2>1, <2>2, <2>3
  <2> QED BY <1>5, <2>4
<1>6. CASE SegmentNames
  BY <1>6, <1>0 DEF SegmentNames, Fields
<1>7. CASE AnnotateBands
  BY <1>7, <1>0 DEF AnnotateBands, Fields
<1>8. CASE ApplyDispatch
  BY <1>8, <1>0 DEF ApplyDispatch, Fields
<1>9. CASE ApplyEquates
  BY <1>9, <1>0 DEF ApplyEquates, Fields
<1>10. CASE Analyze
  BY <1>10, AnalysedNotes DEF Analyze
<1>11. CASE ApplySignatures
  BY <1>11, <1>0 DEF ApplySignatures, CreateFunctions, Fields
<1>12. CASE PushComments
  BY <1>12, <1>0 DEF PushComments, Fields
<1>13. CASE ApplyTypes
  <2>1. PICK a \in Addr : db' = IF IsVariable(db, a) THEN TypeByte(db, a) ELSE db
    BY <1>13 DEF ApplyTypes
  <2>2. db'.values = db.values /\ db'.equates \subseteq db.equates
    BY <2>1, TypeByteNotes
  <2> QED BY <1>13, <2>2
<1> QED
  BY <1>1, <1>2, <1>3, <1>4, <1>5, <1>6, <1>7, <1>8, <1>9, <1>10, <1>11, <1>12, <1>13
  DEF Working, Start, ExportDispatch, ExportBranch, ExportOpcode, ExportSymbols, ExportSegments, ExportListing, Decompile

\* Names: only ApplyEquates gives one, and only to the value it stands for.
LEMMA NamesStep == ASSUME IInv, NInv, Working PROVE NamesTrue(db')
<1>1. CASE ~ApplyEquates
  BY <1>1, NotesStep DEF NInv, NamesTrue
<1>2. CASE ApplyEquates
  <2>0. DOMAIN db = Fields BY DEF IInv, Sound, IsProgram
  <2>1. PICK s : db' = IF Equatable(db, s)
                         THEN [db EXCEPT !.values = @ \union {<<s.name, s.value>>},
                                         !.equates = @ \union {<<s.pc, s.name>>}]
                         ELSE db
    BY <1>2 DEF ApplyEquates
  <2>2. CASE ~Equatable(db, s) BY <2>1, <2>2 DEF NInv
  <2>3. CASE Equatable(db, s)
    <3>1. db'.values = db.values \union {<<s.name, s.value>>} /\ db'.equates = db.equates \union {<<s.pc, s.name>>}
      BY <2>0, <2>1, <2>3 DEF Fields
    <3>2. Code[s.pc].imm = s.value /\ \A v \in db.values : v[1] = s.name => v[2] = s.value
      BY <2>3 DEF Equatable
    <3> QED BY <3>1, <3>2 DEF NInv, NamesTrue
  <2> QED BY <2>2, <2>3
<1> QED BY <1>1, <1>2

\* The step of one segment, as the structs see it.
LEMMA MarkStructs ==
  ASSUME IInv, NEW m \in DOMAIN Segments,
         db' = IF Segments[m].struct
                 THEN MarkData(ApplyStruct(db, Segments[m]), Upper(Segments[m]))
                 ELSE MarkData(db, SegmentBytes(Segments[m]))
  PROVE  /\ Segments[m].struct => (db'.data[Segments[m].start] = "struct" <=> StructPlaced(db, Segments[m]))
         /\ \A k \in DOMAIN Segments \ {m} : Segments[k].struct =>
              (db'.data[Segments[k].start] = "struct" <=> db.data[Segments[k].start] = "struct")
         /\ \A a \in Addr : db'.data[a] = "struct" =>
              \/ db.data[a] = "struct"
              \/ a = Segments[m].start /\ Segments[m].struct /\ StructPlaced(db, Segments[m])
<1> DEFINE s == Segments[m]
           b == ApplyStruct(db, s)
<1>1. /\ s.start \in Addr /\ s.start \in Nat /\ s.end \in Nat /\ s.start < s.end /\ StructLen \in Nat \ {0}
  BY SegmentsAssumption, AddrAssumption, StructAssumption
<1>2. \A k \in DOMAIN Segments \ {m} : Segments[k].struct =>
        Segments[k].start \in Addr \ SegmentBytes(s) /\ Segments[k].start # s.start
  BY <1>1, SegmentsAssumption, StructsApart DEF SegmentBytes
<1>3. CASE ~s.struct
  <2> DEFINE q == MarkData(db, SegmentBytes(s))
  <2>1. /\ \A a \in Addr : q.data[a] = "struct" => db.data[a] = "struct"
        /\ \A a \in Addr \ SegmentBytes(s) : db.data[a] = "struct" => q.data[a] = "struct"
    BY MarkDataNotes DEF IInv
  <2> HIDE DEF q
  <2> QED BY <1>2, <1>3, <2>1 DEF q
<1>4. CASE s.struct
  <2>1. s.start + StructLen <= s.end BY <1>4, StructsApart
  <2>2. StructArea(s) \subseteq SegmentBytes(s) /\ Upper(s) \subseteq SegmentBytes(s)
    BY <1>1, <2>1 DEF StructArea, Upper, SegmentBytes
  <2>3. s.start \notin Upper(s) BY <1>1 DEF Upper
  <2>4. Sound(b) BY <1>1, ApplyStructSound DEF IInv
  <2>5. /\ b.data[s.start] = "struct" <=> StructPlaced(db, s)
        /\ \A a \in Addr \ {s.start} : b.data[a] = "struct" => db.data[a] = "struct"
        /\ \A a \in Addr \ StructArea(s) : db.data[a] = "struct" => b.data[a] = "struct"
    BY <1>1, ApplyStructNotes DEF IInv
  <2> HIDE DEF b
  <2> DEFINE q == MarkData(b, Upper(s))
  <2>6. /\ \A a \in Addr : q.data[a] = "struct" => b.data[a] = "struct"
        /\ \A a \in Addr \ Upper(s) : b.data[a] = "struct" => q.data[a] = "struct"
    BY <2>4, MarkDataNotes
  <2>7. db' = q BY <1>4 DEF b
  <2> HIDE DEF q
  <2>8. db'.data[s.start] = "struct" <=> StructPlaced(db, s)
    BY <1>1, <2>3, <2>5, <2>6, <2>7
  <2>9. ASSUME NEW k \in DOMAIN Segments \ {m}, Segments[k].struct
        PROVE  db'.data[Segments[k].start] = "struct" <=> db.data[Segments[k].start] = "struct"
    BY <1>2, <2>2, <2>5, <2>6, <2>7, <2>9
  <2>10. \A a \in Addr \ {s.start} : db'.data[a] = "struct" => db.data[a] = "struct"
    BY <2>5, <2>6, <2>7
  <2> QED BY <1>4, <2>8, <2>9, <2>10
<1> QED BY <1>3, <1>4

\* A variable is typed outside the segments: no struct is touched.
LEMMA TypesStructs ==
  ASSUME IInv, NInv, ApplyTypes
  PROVE  /\ \A k \in DOMAIN Segments : Segments[k].struct =>
              (db'.data[Segments[k].start] = "struct" <=> db.data[Segments[k].start] = "struct")
         /\ \A a \in Addr : db'.data[a] = "struct" => db.data[a] = "struct"
<1>1. PICK a \in todo : db' = IF IsVariable(db, a) THEN TypeByte(db, a) ELSE db
  BY DEF ApplyTypes
<1>2. a \in Addr /\ a \in Nat
  BY <1>1, AddrAssumption DEF ApplyTypes, IInv
<1>3. CASE ~IsVariable(db, a) BY <1>1, <1>3
<1>4. CASE IsVariable(db, a)
  <2>1. db' = TypeByte(db, a) /\ ~InSegment(a) BY <1>1, <1>4 DEF IsVariable
  <2>2. /\ \A b \in Addr : db'.data[b] = "struct" => db.data[b] = "struct"
        /\ \A b \in Addr : db.data[b] # NoData /\ a \notin DataSpan(b, db.data[b]) => db'.data[b] = db.data[b]
    BY <1>2, <2>1, TypeByteNotes DEF IInv
  <2>3. ASSUME NEW k \in DOMAIN Segments, Segments[k].struct, db.data[Segments[k].start] = "struct"
        PROVE  db'.data[Segments[k].start] = "struct"
    <3> DEFINE s == Segments[k]
    <3>1. s.start \in Addr /\ s.start \in Nat /\ s.end \in Nat /\ s.start + StructLen <= s.end
      BY <2>3, SegmentsAssumption, AddrAssumption, StructsApart
    <3>2. a \notin s.start .. s.end - 1 BY <2>1 DEF InSegment, SegmentBytes
    <3>3. a \notin DataSpan(s.start, "struct") BY <1>2, <3>1, <3>2, StructAssumption DEF DataSpan
    <3>4. NoData # "struct" BY NoDataAssumption DEF DataTypes
    <3> QED BY <2>2, <2>3, <3>1, <3>3, <3>4
  <2> QED BY <2>2, <2>3, SegmentsAssumption
<1> QED BY <1>3, <1>4

\* Where a struct is, it can be placed again: nothing overlaps it.
LEMMA PlacedAgain ==
  ASSUME NEW p, Sound(p), NEW s, s.start \in Addr, p.data[s.start] = "struct",
         DataSpan(s.start, "struct") \subseteq Addr
  PROVE  StructPlaced(p, s)
<1> DEFINE as == DataStarts(p) \intersect StructArea(s)
           c == Emptied(p, s)
<1>1. DataSpan(s.start, "struct") = StructArea(s) BY DEF DataSpan, StructArea
<1>2. s.start \in DataStarts(p) /\ s.start \in as
  BY <1>1, SpanHasStart, NoDataAssumption DEF DataStarts, DataTypes
<1>3. \A i \in p.code : CodeSpan(i) \intersect StructArea(s) = {}
  BY <1>1, <1>2 DEF Sound, Disjoint
<1>4. ~Blocked(p, s)
  BY <1>3, SpanHasStart DEF Blocked, Sound, IsProgram
<1>5. Sound(c) /\ c.code = p.code /\ \A a \in Addr : c.data[a] = IF a \in as THEN NoData ELSE p.data[a]
  BY ClearSound, ClearStarts DEF Emptied
<1> HIDE DEF c
<1>6. \A b \in DataStarts(c) : DataSpan(b, c.data[b]) \intersect StructArea(s) = {}
  <2> SUFFICES ASSUME NEW b \in DataStarts(c) PROVE DataSpan(b, c.data[b]) \intersect StructArea(s) = {}
    OBVIOUS
  <2>1. b \in Addr /\ b \notin as /\ c.data[b] = p.data[b] /\ b \in DataStarts(p)
    BY <1>5 DEF DataStarts
  <2> QED BY <1>1, <1>2, <2>1 DEF Sound, Disjoint
<1>7. StructArea(s) \intersect Occupied(c) = {}
  BY <1>3, <1>5, <1>6 DEF Occupied
<1>8. CanCreate(c, s.start, "struct")
  BY <1>1, <1>7 DEF CanCreate
<1> QED BY <1>4, <1>8 DEF StructPlaced, c

\* No step of a run takes the struct of a segment away.
LEMMA BackStep ==
  ASSUME IInv, NInv, Working, NEW k \in DOMAIN Segments, Segments[k].struct, db.data[Segments[k].start] = "struct"
  PROVE  db'.data[Segments[k].start] = "struct"
<1>0. Segments[k].start \in Addr BY SegmentsAssumption
<1>1. CASE ~MarkSegment /\ ~ApplyTypes
  BY <1>0, <1>1, NotesStep DEF SameStructs
<1>2. CASE ApplyTypes
  BY <1>2, TypesStructs
<1>3. CASE MarkSegment
  <2>1. PICK m \in DOMAIN Segments :
          db' = IF Segments[m].struct
                  THEN MarkData(ApplyStruct(db, Segments[m]), Upper(Segments[m]))
                  ELSE MarkData(db, SegmentBytes(Segments[m]))
    BY <1>3 DEF MarkSegment, IInv, Sure, Step
  <2>2. /\ Segments[m].struct => (db'.data[Segments[m].start] = "struct" <=> StructPlaced(db, Segments[m]))
        /\ \A j \in DOMAIN Segments \ {m} : Segments[j].struct =>
             (db'.data[Segments[j].start] = "struct" <=> db.data[Segments[j].start] = "struct")
    BY <2>1, MarkStructs
  <2>3. CASE k # m BY <2>2, <2>3
  <2>4. CASE k = m
    <3>1. StructPlaced(db, Segments[k]) BY <1>0, PlacedAgain DEF IInv, NInv, StructsFit
    <3> QED BY <2>2, <2>4, <3>1
  <2> QED BY <2>3, <2>4
<1> QED BY <1>1, <1>2, <1>3

LEMMA StructsStep == ASSUME IInv, NInv, Working PROVE StructsInSegments(db') /\ StructsFit(db')
<1>1. CASE ~MarkSegment /\ ~ApplyTypes
  BY <1>1, NotesStep DEF NInv, StructsInSegments, StructsFit, SameStructs
<1>2. CASE ApplyTypes
  BY <1>2, TypesStructs DEF NInv, StructsInSegments, StructsFit
<1>3. CASE MarkSegment
  <2>1. PICK m \in DOMAIN Segments :
          db' = IF Segments[m].struct
                  THEN MarkData(ApplyStruct(db, Segments[m]), Upper(Segments[m]))
                  ELSE MarkData(db, SegmentBytes(Segments[m]))
    BY <1>3 DEF MarkSegment, IInv, Sure, Step
  <2>2. \A a \in Addr : db'.data[a] = "struct" =>
          \/ db.data[a] = "struct"
          \/ a = Segments[m].start /\ Segments[m].struct /\ StructPlaced(db, Segments[m])
    BY <2>1, MarkStructs
  <2>3. StructPlaced(db, Segments[m]) => DataSpan(Segments[m].start, "struct") \subseteq Addr
    BY DEF StructPlaced, CanCreate
  <2> QED BY <2>2, <2>3 DEF NInv, StructsInSegments, StructsFit
<1> QED BY <1>1, <1>2, <1>3

LEMMA LostStep == ASSUME IInv, NInv, Working PROVE LostIsCode'
<1>1. CASE ApplyTypes
  BY <1>1 DEF ApplyTypes, NInv, LostIsCode, IInv, Sound, IsProgram
<1>2. CASE Start
  BY <1>2 DEF Start, LostIsCode
<1>3. CASE Working /\ ~ApplyTypes /\ ~Start
  <2>1. lost' = lost
    BY <1>3 DEF Working, ApplyLabels, ForceDisassemble, PromoteLandmarks, MarkSegment, SegmentNames,
      AnnotateBands, ApplyDispatch, ApplyEquates, Analyze, ApplySignatures, ExportDispatch, ExportBranch,
      ExportOpcode, PushComments, ExportSymbols, ExportSegments, ExportListing, Decompile, Sure, Step
  <2> QED BY <2>1 DEF NInv, LostIsCode
<1> QED BY <1>1, <1>2, <1>3

\* Only the end of a run saves.
LEMMA StructsBackStep == ASSUME IInv, NInv, [Next]_vars PROVE StructsBack'
<1>1. CASE Working /\ ~Decompile
  <2>1. saved' = saved
    BY <1>1 DEF Working, Start, ApplyLabels, ForceDisassemble, PromoteLandmarks, MarkSegment, SegmentNames,
      AnnotateBands, ApplyDispatch, ApplyEquates, Analyze, ApplySignatures, ExportDispatch, ExportBranch,
      ExportOpcode, PushComments, ApplyTypes, ExportSymbols, ExportSegments, ExportListing, Sure, Step
  <2> QED BY <1>1, <2>1, BackStep DEF NInv, StructsBack
<1>2. CASE Decompile \/ Raise \/ Kill
  BY <1>2 DEF Decompile, Raise, Kill, StructsBack
<1>3. CASE UNCHANGED vars
  BY <1>3 DEF vars, NInv, StructsBack
<1> QED BY <1>1, <1>2, <1>3 DEF Next

LEMMA ToldStep == ASSUME IInv, NInv, Working PROVE StructsTold'
<1> USE DEF Sure, Step, Marked, Late
<1>1. ASSUME structs' = structs, \A k \in DOMAIN Segments : Segments[k].struct =>
               (db'.data[Segments[k].start] = "struct" <=> db.data[Segments[k].start] = "struct")
      PROVE  \A k \in DOMAIN Segments : Shown(k) => Shown(k)'
  BY <1>1 DEF Shown
<1>2. ~MarkSegment /\ ~ApplyTypes => \A k \in DOMAIN Segments : Segments[k].struct =>
               (db'.data[Segments[k].start] = "struct" <=> db.data[Segments[k].start] = "struct")
  BY NotesStep, SegmentsAssumption DEF SameStructs
<1>3. CASE Start \/ ApplyLabels \/ ForceDisassemble \/ Decompile
  BY <1>3 DEF NInv, StructsTold, Start, ApplyLabels, ForceDisassemble, Decompile
<1>4. CASE PromoteLandmarks
  BY <1>4 DEF NInv, StructsTold, PromoteLandmarks
<1>5. CASE MarkSegment
  <2>1. PICK m \in todo :
          /\ m \in DOMAIN Segments
          /\ db' = IF Segments[m].struct
                  THEN MarkData(ApplyStruct(db, Segments[m]), Upper(Segments[m]))
                  ELSE MarkData(db, SegmentBytes(Segments[m]))
          /\ todo' = todo \ {m}
          /\ structs' = IF Segments[m].struct /\ StructPlaced(db, Segments[m]) THEN structs \union {m} ELSE structs
    BY <1>5 DEF MarkSegment, IInv
  <2>2. phase = "segments" /\ phase' = "segments" BY <1>5 DEF MarkSegment
  <2>3. /\ Segments[m].struct => (db'.data[Segments[m].start] = "struct" <=> StructPlaced(db, Segments[m]))
        /\ \A k \in DOMAIN Segments \ {m} : Segments[k].struct =>
             (db'.data[Segments[k].start] = "struct" <=> db.data[Segments[k].start] = "struct")
    BY <2>1, MarkStructs
  <2>4. m \notin structs BY <2>1, <2>2 DEF NInv, StructsTold
  <2>5. Shown(m)' BY <2>1, <2>3, <2>4 DEF Shown
  <2>6. ASSUME NEW k \in DOMAIN Segments \ {m} PROVE IF k \in todo' THEN k \notin structs' ELSE Shown(k)'
    <3>1. CASE k \in todo BY <2>1, <2>2, <3>1 DEF NInv, StructsTold
    <3>2. CASE k \notin todo
      <4>1. Shown(k) BY <2>2, <3>2 DEF NInv, StructsTold
      <4> QED BY <2>1, <2>3, <3>2, <4>1 DEF Shown
    <3> QED BY <3>1, <3>2
  <2> QED BY <2>1, <2>2, <2>5, <2>6 DEF StructsTold
<1>6. CASE SegmentNames
  <2>1. \A k \in DOMAIN Segments : Shown(k) BY <1>6 DEF SegmentNames, NInv, StructsTold
  <2>2. \A k \in DOMAIN Segments : Shown(k)'
    BY <1>1, <1>2, <1>6, <2>1 DEF SegmentNames, MarkSegment, ApplyTypes
  <2> QED BY <1>6, <2>2 DEF SegmentNames, StructsTold
<1>7. CASE ApplyTypes
  <2>1. \A k \in DOMAIN Segments : Shown(k) BY <1>7 DEF ApplyTypes, NInv, StructsTold
  <2>2. \A k \in DOMAIN Segments : Shown(k)' BY <1>1, <1>7, <2>1, TypesStructs DEF ApplyTypes
  <2> QED BY <1>7, <2>2 DEF ApplyTypes, StructsTold
<1>8. CASE AnnotateBands \/ ApplyDispatch \/ ApplyEquates \/ Analyze \/ ApplySignatures \/ ExportDispatch
           \/ ExportBranch \/ ExportOpcode \/ PushComments \/ ExportSymbols
  <2>1. phase \in Marked /\ structs' = structs /\ phase' \in Marked \ {"listing", "decompile"}
    BY <1>8 DEF AnnotateBands, ApplyDispatch, ApplyEquates, Analyze, ApplySignatures, ExportDispatch,
      ExportBranch, ExportOpcode, PushComments, ExportSymbols
  <2>2. phase # "segments" /\ (phase = "types" => db' = db)
    BY <1>8 DEF AnnotateBands, ApplyDispatch, ApplyEquates, Analyze, ApplySignatures, ExportDispatch,
      ExportBranch, ExportOpcode, PushComments, ExportSymbols
  <2>3. \A k \in DOMAIN Segments : Shown(k)'
    <3>1. CASE phase = "types" BY <2>1, <2>2, <3>1 DEF NInv, StructsTold, Shown
    <3>2. CASE phase # "types" BY <1>1, <1>2, <2>1, <2>2, <3>2 DEF NInv, StructsTold, MarkSegment, ApplyTypes
    <3> QED BY <3>1, <3>2
  <2> QED BY <2>1, <2>3 DEF StructsTold
<1>9. CASE ExportSegments
  <2>1. \A k \in DOMAIN Segments : Shown(k)
    BY <1>9 DEF ExportSegments, NInv, StructsTold
  <2>2. structs' = structs /\ db' = db /\ phase' = "listing" BY <1>9 DEF ExportSegments
  <2>3. \A k \in DOMAIN Segments : Shown(k)' BY <2>1, <2>2 DEF Shown
  <2>4. out'.segments = [k \in DOMAIN Segments |-> SegmentRow(k)]
    BY <1>9 DEF ExportSegments, NInv, CataloguesKept, Files
  <2>5. \A k \in DOMAIN Segments : out'.segments[k].struct = (k \in structs')
    BY <2>2, <2>4 DEF SegmentRow
  <2> QED BY <2>2, <2>3, <2>5 DEF StructsTold
<1>10. CASE ExportListing
  <2> DEFINE Line(a) == <<a, {q[2] : q \in {x \in db.equates : x[1] = a}}>>
  <2>1. \A k \in DOMAIN Segments : Shown(k) /\ out.segments[k].struct = (k \in structs)
    BY <1>10 DEF ExportListing, NInv, StructsTold
  <2>2. structs' = structs /\ db' = db /\ phase' = "decompile" BY <1>10 DEF ExportListing
  <2>3. \A k \in DOMAIN Segments : Shown(k)' BY <2>1, <2>2 DEF Shown
  <2>4. out'.segments = out.segments /\ out'.listing = {Line(a) : a \in db.code}
    BY <1>10 DEF ExportListing, NInv, CataloguesKept, Files
  <2>5. \A a : Line(a)[1] = a OBVIOUS
  <2> HIDE DEF Line
  <2>6. {l[1] : l \in out'.listing} = db'.code BY <2>2, <2>4, <2>5
  <2> QED BY <2>1, <2>2, <2>3, <2>4, <2>6 DEF StructsTold
<1> QED BY <1>3, <1>4, <1>5, <1>6, <1>7, <1>8, <1>9, <1>10 DEF Working

\* A site of the annotations refers to its targets from ApplyDispatch on.
LEMMA TargetsStep == ASSUME IInv, NInv, Working PROVE TargetsCurrent'
<1> USE DEF Sure, Step, Late
<1>0. DOMAIN db = Fields BY DEF IInv, Sound, IsProgram
<1>1. CASE ApplyDispatch
  <2> DEFINE sites == LoadDispatch(ann)
           wanted == UNION {JumpTable(e) : e \in sites}
  <2>1. /\ db'.calls = {r \in db.calls : r[1] \notin Replaced(sites)} \union (wanted \ failed')
        /\ failed' \subseteq wanted /\ ann' = ann
    BY <1>0, <1>1 DEF ApplyDispatch, Fields
  <2>2. \A d, e \in sites : d.pc = e.pc => d = e
    BY InputsAssumption DEF LoadDispatch, NInv
  <2> SUFFICES ASSUME NEW e \in sites, e.targets # {}
               PROVE {r[2] : r \in {x \in db'.calls : x[1] = e.pc}} =
                       e.targets \ {r[2] : r \in {x \in failed' : x[1] = e.pc}}
    BY <2>1 DEF TargetsCurrent, LoadDispatch, Parsed, Failed
  <2>3. e.pc \in Replaced(sites) BY DEF Replaced
  <2>4. \A x \in wanted : x[1] = e.pc => x \in JumpTable(e)
    <3>1. \A d \in sites : \A x \in JumpTable(d) : x[1] = d.pc BY DEF JumpTable
    <3> HIDE DEF sites
    <3> QED BY <2>2, <3>1
  <2>5. JumpTable(e) \subseteq wanted OBVIOUS
  <2> DEFINE Ref(t) == <<e.pc, t, RefType(e.pc)>>
  <2>6. JumpTable(e) = {Ref(t) : t \in e.targets} BY DEF JumpTable
  <2>7. \A t : Ref(t)[1] = e.pc /\ Ref(t)[2] = t OBVIOUS
  <2> HIDE DEF wanted, Ref, sites
  <2>8. \A x \in wanted : x[1] = e.pc => x[2] \in e.targets /\ x = Ref(x[2])
    BY <2>4, <2>6, <2>7
  <2>9. \A x \in db'.calls : x[1] = e.pc => x \in wanted \ failed'
    BY <2>1, <2>3
  <2>10. ASSUME NEW x \in db'.calls, x[1] = e.pc
         PROVE  x[2] \in e.targets \ {r[2] : r \in {y \in failed' : y[1] = e.pc}}
    <3>1. \A y \in failed' : y[1] = e.pc => y[2] # x[2]
      BY <2>1, <2>8, <2>9, <2>10
    <3> QED BY <2>8, <2>9, <2>10, <3>1
  <2>11. ASSUME NEW t \in e.targets \ {r[2] : r \in {y \in failed' : y[1] = e.pc}}
         PROVE  t \in {r[2] : r \in {x \in db'.calls : x[1] = e.pc}}
    <3>1. Ref(t) \in wanted /\ Ref(t)[1] = e.pc /\ Ref(t)[2] = t BY <2>5, <2>6, <2>7
    <3>2. Ref(t) \notin failed' BY <2>11, <3>1
    <3> QED BY <2>1, <3>1, <3>2
  <2> QED BY <2>10, <2>11
<1>2. CASE ApplyTypes
  <2>1. PICK a \in todo : db' = IF IsVariable(db, a) THEN TypeByte(db, a) ELSE db
    BY <1>2 DEF ApplyTypes
  <2>2. a \in Addr BY <1>2 DEF ApplyTypes, IInv
  <2>3. db'.calls = {r \in db.calls : r[1] \notin db.code \ db'.code}
    <3>1. CASE ~IsVariable(db, a) BY <2>1, <3>1
    <3>2. CASE IsVariable(db, a) BY <2>1, <2>2, <3>2, TypeByteNotes DEF IInv
    <3> QED BY <3>1, <3>2
  <2>4. lost' = lost \union (db.code \ db'.code) /\ UNCHANGED <<ann, failed>> /\ phase = "types"
    BY <1>2 DEF ApplyTypes
  <2> SUFFICES ASSUME NEW e \in LoadDispatch(ann), e.targets # {}, e.pc \notin lost'
               PROVE {r[2] : r \in {x \in db'.calls : x[1] = e.pc}} = e.targets \ Failed(e.pc)
    BY <2>4 DEF TargetsCurrent, LoadDispatch, Parsed, Failed
  <2>5. {x \in db'.calls : x[1] = e.pc} = {x \in db.calls : x[1] = e.pc} BY <2>3, <2>4
  <2>6. {r[2] : r \in {x \in db.calls : x[1] = e.pc}} = e.targets \ Failed(e.pc)
    BY <2>4 DEF NInv, TargetsCurrent
  <2> QED BY <2>5, <2>6
<1>3. CASE Start \/ ApplyLabels \/ ForceDisassemble \/ PromoteLandmarks \/ MarkSegment \/ SegmentNames
           \/ AnnotateBands \/ Decompile
  <2>1. phase' \notin Late
    BY <1>3 DEF Start, ApplyLabels, ForceDisassemble, PromoteLandmarks, MarkSegment, SegmentNames,
      AnnotateBands, Decompile
  <2> QED BY <2>1 DEF TargetsCurrent
<1>4. CASE ApplyEquates \/ Analyze \/ ApplySignatures \/ ExportDispatch \/ ExportBranch \/ ExportOpcode
           \/ PushComments \/ ExportSymbols \/ ExportSegments \/ ExportListing
  <2>1. phase \in Late /\ UNCHANGED <<ann, failed, lost>>
    BY <1>4 DEF ApplyEquates, Analyze, ApplySignatures, ExportDispatch, ExportBranch, ExportOpcode,
      PushComments, ExportSymbols, ExportSegments, ExportListing
  <2>2. ~ApplyDispatch /\ (phase = "types" => ~ApplyTypes \/ UNCHANGED db)
    BY <1>4 DEF ApplyDispatch, ApplyEquates, Analyze, ApplySignatures, ExportDispatch,
      ExportBranch, ExportOpcode, PushComments, ExportSymbols, ExportSegments, ExportListing
  <2>3. db'.calls = db.calls BY <2>2, NotesStep DEF ApplyTypes
  <2> QED BY <2>1, <2>3 DEF NInv, TargetsCurrent, LoadDispatch, Parsed, Failed
<1> QED BY <1>1, <1>2, <1>3, <1>4 DEF Working

\* What a program is patched at is seen from its code and its writes.
LEMMA SameSites ==
  ASSUME NEW p, NEW q, q.code = p.code, q.writes = p.writes
  PROVE  DispatchSites(q) = DispatchSites(p) /\ BranchSites(q) = BranchSites(p) /\ OpcodeSites(q) = OpcodeSites(p)
BY DEF DispatchSites, BranchSites, OpcodeSites, Writers, Candidates, TraceImm

LEMMA CataloguesStep == ASSUME IInv, NInv, Working PROVE CataloguesKept'
<1> USE DEF Sure, Step, Closing
<1>0. DOMAIN db = Fields /\ DOMAIN out = Files BY DEF IInv, Sound, IsProgram, NInv, CataloguesKept
<1>1. CASE Start \/ ApplyLabels \/ ForceDisassemble \/ PromoteLandmarks \/ MarkSegment \/ SegmentNames
           \/ AnnotateBands \/ ApplyDispatch \/ ApplyEquates \/ Analyze \/ ApplySignatures
  <2>1. out' = out /\ phase' \notin {"branches", "opcodes", "plates", "types"} \union Closing
    BY <1>1 DEF Start, ApplyLabels, ForceDisassemble, PromoteLandmarks, MarkSegment, SegmentNames,
      AnnotateBands, ApplyDispatch, ApplyEquates, Analyze, ApplySignatures
  <2> QED BY <1>0, <2>1 DEF CataloguesKept
<1>2. CASE ExportDispatch
  BY <1>0, <1>2 DEF ExportDispatch, CataloguesKept, Files, LoadDispatch, Parsed, DispatchSites, Writers
<1>3. CASE ExportBranch
  <2>1. /\ phase = "branches" /\ phase' = "opcodes" /\ UNCHANGED <<db, ann, lost>>
        /\ out' = [out EXCEPT !.branch = Catalogue(LoadBranch(ann), BranchSites(db))]
    BY <1>3 DEF ExportBranch
  <2>2. DOMAIN out' = Files /\ out'.dispatch = out.dispatch /\ out'.branch = Catalogue(LoadBranch(ann), BranchSites(db))
    BY <1>0, <2>1 DEF Files
  <2> QED BY <2>1, <2>2 DEF CataloguesKept, NInv
<1>4. CASE ExportOpcode
  <2>1. /\ phase = "opcodes" /\ phase' = "plates" /\ UNCHANGED <<db, ann, lost>>
        /\ out' = [out EXCEPT !.opcode = Catalogue(LoadOpcode(ann), OpcodeSites(db))]
    BY <1>4 DEF ExportOpcode
  <2>2. /\ DOMAIN out' = Files /\ out'.dispatch = out.dispatch /\ out'.branch = out.branch
        /\ out'.opcode = Catalogue(LoadOpcode(ann), OpcodeSites(db))
    BY <1>0, <2>1 DEF Files
  <2> QED BY <2>1, <2>2 DEF CataloguesKept, NInv
<1>5. ASSUME UNCHANGED ann, lost' = {} => lost = {} /\ db'.code = db.code /\ db'.writes = db.writes,
             phase \in {"plates", "types", "rows", "listing"},
             DOMAIN out' = Files, out'.dispatch = out.dispatch, out'.branch = out.branch, out'.opcode = out.opcode
      PROVE  CataloguesKept'
  <2> SUFFICES ASSUME lost' = {}
               PROVE  /\ out'.dispatch = Catalogue({e.pc : e \in LoadDispatch(ann')}, DispatchSites(db'))
                      /\ out'.branch = Catalogue(LoadBranch(ann'), BranchSites(db'))
                      /\ out'.opcode = Catalogue(LoadOpcode(ann'), OpcodeSites(db'))
    BY <1>5 DEF CataloguesKept
  <2>1. DispatchSites(db') = DispatchSites(db) /\ BranchSites(db') = BranchSites(db) /\ OpcodeSites(db') = OpcodeSites(db)
    BY <1>5, SameSites
  <2> QED BY <1>5, <2>1 DEF NInv, CataloguesKept
<1>6. CASE PushComments
  BY <1>0, <1>5, <1>6 DEF PushComments, Fields
<1>7. CASE ApplyTypes
  <2>1. PICK a \in todo : db' = IF IsVariable(db, a) THEN TypeByte(db, a) ELSE db
    BY <1>7 DEF ApplyTypes
  <2>2. a \in Addr BY <1>7 DEF ApplyTypes, IInv
  <2>3. db'.code \subseteq db.code /\ db'.writes = {r \in db.writes : r[1] \notin db.code \ db'.code}
    <3>1. CASE ~IsVariable(db, a) BY <2>1, <3>1
    <3>2. CASE IsVariable(db, a)
      BY <2>1, <2>2, <3>2, TypeByteNotes, TypeByteSound DEF IInv
    <3> QED BY <3>1, <3>2
  <2>4. lost' = lost \union (db.code \ db'.code) /\ UNCHANGED <<ann, out>> /\ phase = "types"
    BY <1>7 DEF ApplyTypes
  <2>5. lost' = {} => lost = {} /\ db'.code = db.code /\ db'.writes = db.writes
    BY <2>3, <2>4
  <2> QED BY <1>0, <1>5, <2>4, <2>5
<1>8. CASE ExportSymbols \/ ExportSegments \/ ExportListing
  <2>1. DOMAIN out' = Files /\ out'.dispatch = out.dispatch /\ out'.branch = out.branch /\ out'.opcode = out.opcode
    BY <1>0, <1>8 DEF ExportSymbols, ExportSegments, ExportListing, Files
  <2> QED BY <1>5, <1>8, <2>1 DEF ExportSymbols, ExportSegments, ExportListing
<1>9. CASE Decompile
  BY <1>0, <1>9 DEF Decompile, CataloguesKept, Files
<1> QED BY <1>1, <1>2, <1>3, <1>4, <1>6, <1>7, <1>8, <1>9 DEF Working

LEMMA RegionsStep == ASSUME IInv, NInv, Working PROVE RegionsDone'
<1> USE DEF Sure, Step, Closing
<1>1. CASE ApplyTypes
  <2>1. PICK a \in todo : todo' = todo \ {a} /\ db' = IF IsVariable(db, a) THEN TypeByte(db, a) ELSE db
    BY <1>1 DEF ApplyTypes
  <2>2. a \in Addr BY <1>1 DEF ApplyTypes, IInv
  <2>3. lost' = lost \union (db.code \ db'.code) /\ ann' = ann /\ phase = "types" /\ phase' = "types"
    BY <1>1 DEF ApplyTypes
  <2>4. ASSUME NEW b \in Addr, b # a, Done(b) PROVE Done(b)'
    <3>1. CASE InSegment(b) BY <3>1 DEF Done, InSegment
    <3>2. CASE b \in db.code \union lost BY <2>3, <3>2 DEF Done
    <3>3. CASE db.data[b] = "byte"
      <4>1. NoData # "byte" BY NoDataAssumption DEF DataTypes
      <4>2. a \notin DataSpan(b, "byte") BY <2>4, AddrAssumption DEF DataSpan
      <4>3. CASE ~IsVariable(db, a) BY <2>1, <3>3, <4>3 DEF Done
      <4>4. CASE IsVariable(db, a)
        <5>1. db'.data[b] = "byte" BY <2>1, <2>2, <3>3, <4>1, <4>2, <4>4, TypeByteNotes DEF IInv
        <5> QED BY <5>1 DEF Done
      <4> QED BY <4>3, <4>4
    <3> QED BY <2>4, <3>1, <3>2, <3>3 DEF Done
  <2>5. Done(a)'
    <3>1. CASE IsVariable(db, a)
      <4>1. db'.data[a] = "byte" BY <2>1, <2>2, <3>1, TypeByteNotes DEF IInv
      <4> QED BY <4>1 DEF Done
    <3>2. CASE ~IsVariable(db, a)
      <4>1. db' = db BY <2>1, <3>2
      <4>2. db.data[a] \in DataTypes \union {NoData} BY <2>2 DEF IInv, Sound, IsProgram
      <4>3. db.data[a] = "struct" => InSegment(a)
        <5> SUFFICES ASSUME db.data[a] = "struct" PROVE InSegment(a) OBVIOUS
        <5>1. PICK k \in DOMAIN Segments : a = Segments[k].start BY <2>2 DEF NInv, StructsInSegments
        <5>2. a \in Nat BY <2>2, AddrAssumption
        <5>3. Segments[k].end \in Nat /\ a < Segments[k].end BY <5>1, SegmentsAssumption
        <5>4. a \in SegmentBytes(Segments[k]) BY <5>1, <5>2, <5>3 DEF SegmentBytes
        <5> QED BY <5>4 DEF InSegment
      <4>4. InSegment(a) \/ a \in db.code \/ db.data[a] = "byte"
        BY <3>2, <4>2, <4>3 DEF IsVariable, DataTypes
      <4> QED BY <4>1, <4>4 DEF Done, InSegment
    <3> QED BY <3>1, <3>2
  <2>6. \A b \in (Regions(ann) \intersect Addr) \ todo' : Done(b)'
    BY <2>1, <2>3, <2>4, <2>5 DEF NInv, RegionsDone
  <2> QED BY <2>3, <2>6 DEF RegionsDone, Regions, Parsed
<1>2. CASE ExportSymbols \/ ExportSegments \/ ExportListing
  <2>1. \A b \in Regions(ann) \intersect Addr : Done(b)
    BY <1>2 DEF ExportSymbols, ExportSegments, ExportListing, NInv, RegionsDone
  <2>2. UNCHANGED <<db, lost, ann>> /\ phase' \in Closing
    BY <1>2 DEF ExportSymbols, ExportSegments, ExportListing
  <2> QED BY <2>1, <2>2 DEF RegionsDone, Done, Regions, Parsed, InSegment
<1>3. CASE PushComments
  BY <1>3 DEF PushComments, RegionsDone, Regions, Parsed
<1>4. CASE \/ Start \/ ApplyLabels \/ ForceDisassemble \/ PromoteLandmarks \/ MarkSegment \/ SegmentNames
           \/ AnnotateBands \/ ApplyDispatch \/ ApplyEquates \/ Analyze \/ ApplySignatures
           \/ ExportDispatch \/ ExportBranch \/ ExportOpcode \/ Decompile
  <2>1. phase' \notin {"types"} \union Closing
    BY <1>4 DEF Start, ApplyLabels, ForceDisassemble, PromoteLandmarks, MarkSegment,
      SegmentNames, AnnotateBands, ApplyDispatch, ApplyEquates, Analyze, ApplySignatures,
      ExportDispatch, ExportBranch, ExportOpcode, Decompile
  <2> QED BY <2>1 DEF RegionsDone
<1> QED BY <1>1, <1>2, <1>3, <1>4 DEF Working

LEMMA NInductive == IInv /\ NInv /\ [Next]_vars => NInv'
<1> SUFFICES ASSUME IInv, NInv, [Next]_vars PROVE NInv' OBVIOUS
<1>1. ann' \in Inputs
  BY DEF NInv, Next, Working, Start, ApplyLabels, ForceDisassemble, PromoteLandmarks, MarkSegment, SegmentNames,
    AnnotateBands, ApplyDispatch, ApplyEquates, Analyze, ApplySignatures, ExportDispatch, ExportBranch,
    ExportOpcode, PushComments, ApplyTypes, ExportSymbols, ExportSegments, ExportListing, Decompile, Raise, Kill, Sure, Step, vars
<1>2. NamesTrue(saved') /\ StructsInSegments(saved') /\ StructsFit(saved') /\ StructsBack'
  BY SavedStep, StructsBackStep DEF NInv
<1>3. CASE Working
  BY <1>1, <1>2, <1>3, NamesStep, StructsStep, LostStep, ToldStep, TargetsStep, CataloguesStep, RegionsStep DEF NInv
<1>4. CASE Raise \/ Kill
  <2>1. phase' = "idle" /\ out' = out /\ lost' = lost /\ db' \in {db, saved} BY <1>4 DEF Raise, Kill
  <2>2. TargetsCurrent' /\ StructsTold' /\ RegionsDone' /\ LostIsCode'
    BY <2>1 DEF TargetsCurrent, StructsTold, RegionsDone, Late, Marked, Closing, LostIsCode, NInv
  <2>3. CataloguesKept' BY <2>1 DEF CataloguesKept, Closing, NInv
  <2> QED BY <1>1, <1>2, <2>1, <2>2, <2>3 DEF NInv
<1>5. CASE UNCHANGED vars
  <2>1. UNCHANGED <<db, saved, ann, todo, structs, out, phase, failed, lost>> BY <1>5 DEF vars
  <2>2. NamesTrue(db') /\ StructsInSegments(db') /\ StructsFit(db') /\ LostIsCode' BY <2>1 DEF NInv, LostIsCode
  <2>3. TargetsCurrent' BY <2>1 DEF NInv, TargetsCurrent, LoadDispatch, Parsed, Failed
  <2>4. StructsTold' BY <2>1 DEF NInv, StructsTold, Shown
  <2>5. RegionsDone' BY <2>1 DEF NInv, RegionsDone, Done, InSegment, Regions, Parsed
  <2>6. CataloguesKept' BY <2>1 DEF NInv, CataloguesKept
  <2> QED BY <1>1, <1>2, <2>2, <2>3, <2>4, <2>5, <2>6 DEF NInv
<1> QED BY <1>3, <1>4, <1>5 DEF Next

LEMMA BothHold == Spec => [](IInv /\ NInv)
BY InitSound, NInit, Inductive, NInductive, PTL DEF Spec

LEMMA StructsFollow == IInv /\ NInv => StructsShown
<1> SUFFICES ASSUME IInv, NInv, phase = "decompile", NEW k \in DOMAIN Segments
             PROVE  out.segments[k].struct <=> /\ Segments[k].struct
                                 /\ db.data[Segments[k].start] = "struct"
                                 /\ StructArea(Segments[k]) \intersect
                                      UNION {CodeSpan(l[1]) : l \in out.listing} = {}
  BY DEF StructsShown
<1> DEFINE s == Segments[k]
<1>1. out.segments[k].struct <=> s.struct /\ db.data[s.start] = "struct"
  BY DEF NInv, StructsTold, Shown, Marked, Late
<1>2. ASSUME db.data[s.start] = "struct", NEW i \in db.code PROVE StructArea(s) \intersect CodeSpan(i) = {}
  <2>1. s.start \in DataStarts(db) BY <1>2, SegmentsAssumption, NoDataAssumption DEF DataStarts, DataTypes
  <2>2. DataSpan(s.start, "struct") = StructArea(s) BY DEF DataSpan, StructArea
  <2> QED BY <1>2, <2>1, <2>2 DEF IInv, Sound, Disjoint
<1>3. \A l \in out.listing : l[1] \in db.code
  BY DEF NInv, StructsTold
<1> QED BY <1>1, <1>2, <1>3

LEMMA RegionsFollow == NInv => RegionsTyped
<1> SUFFICES ASSUME NInv, phase = "decompile", NEW a \in Regions(ann) \intersect Addr,
                    \A i \in lost : a \notin CodeSpan(i)
             PROVE  InSegment(a) \/ a \in db.code \/ db.data[a] = "byte"
  BY DEF RegionsTyped
<1>1. Done(a) BY DEF NInv, RegionsDone, Closing
<1>2. a \notin lost BY SpanHasStart DEF NInv, LostIsCode
<1> QED BY <1>1, <1>2 DEF Done

\* The catalogues exported say exactly what is patched when the run ends, for
\* any program and annotations, unless typing a variable cleared code.
THEOREM CataloguesStayExact == Spec => []CataloguesExact
<1>1. NInv => CataloguesExact
  BY DEF NInv, CataloguesKept, CataloguesExact, DispatchSites, Closing
<1> QED BY <1>1, BothHold, PTL

\* A site refers to the targets of its annotation, but for those whose
\* reference failed, and to no other, however many runs went before.
THEOREM TargetsStayCurrent == Spec => []TargetsCurrent
<1>1. NInv => TargetsCurrent BY DEF NInv
<1> QED BY <1>1, BothHold, PTL

\* A name is shown only for an operand that holds its value and stands for
\* one value over all the runs.
THEOREM EquatesStayTrue == Spec => []EquatesTrue
<1>1. NInv => EquatesTrue BY DEF NInv, NamesTrue, EquatesTrue
<1> QED BY <1>1, BothHold, PTL

\* segments.json shows the struct layout for the segments that hold it, and
\* the listing has no instruction in one of these.
THEOREM StructsAsShown == Spec => []StructsShown
BY StructsFollow, BothHold, PTL

\* A struct layout on disk stays there over all later runs.
THEOREM StructsStay == Spec => StructsLast
<1>1. IInv /\ NInv /\ [Next]_vars =>
        [\A k \in DOMAIN Segments :
           Segments[k].struct /\ saved.data[Segments[k].start] = "struct"
             => saved'.data[Segments[k].start] = "struct"]_vars
  BY SavedStep DEF NInv, StructsBack
<1> QED BY <1>1, BothHold, PTL DEF Spec, StructsLast

\* Every region outside the segments ends as a byte or an instruction starts
\* there, unless it was in the span of an instruction that was cleared.
THEOREM RegionsGetTyped == Spec => []RegionsTyped
BY RegionsFollow, BothHold, PTL
==============================================================================
