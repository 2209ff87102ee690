------------------------------- MODULE DataRuns -------------------------------
(***************************************************************************)
(* flush_data of emit_source: the queued data bytes become .byte and .fill *)
(* directives.  Pass 1 cuts out the long runs of one byte; pass 2 writes   *)
(* each piece, the others a line at a time, leaving out the middle of a    *)
(* stretch of identical lines.  One step is one iteration of a loop.       *)
(***************************************************************************)
EXTENDS Integers, Sequences, SequencesExt, FiniteSetsExt

CONSTANTS
  Data,            \* the contents of pending_data considered
  FillThreshold,   \* FILL_BYTE_THRESHOLD (16)
  BytesPerLine,    \* BYTES_PER_LINE (16)
  MinRows,         \* identical lines worth leaving out (6)
  Periods          \* the periods _fill_value tries (1, 2, 4, 8)

ASSUME SizesAssumption ==
  /\ FillThreshold \in Nat \ {0} /\ BytesPerLine \in Nat \ {0}
  /\ MinRows \in Nat /\ MinRows > 2
  /\ Periods \subseteq {p \in 1 .. BytesPerLine : BytesPerLine % p = 0}

ASSUME DataAssumption == Data \subseteq Seq(Nat)

VARIABLES
  data,        \* pending_data
  cut,         \* pass 1: the next byte to look at (i)
  segs,        \* segments: <<kind, first byte, end>>, end excluded
  row,         \* pass 2: the first byte of the next line of the segment
  directives   \* the directives written: [at, count, pattern]

flushVars == <<data, cut, segs, row, directives>>

FlushInit ==
  /\ data \in Data /\ data # <<>>
  /\ cut = 1 /\ segs = <<>> /\ row = 1 /\ directives = <<>>

\* Where the run of equal bytes that covers a ends.
RunEnd(a) == Min({b \in a + 1 .. Len(data) + 1 : b = Len(data) + 1 \/ data[b] # data[a]})

LongRun(a) == RunEnd(a) - a >= FillThreshold

SplitFill ==
  /\ cut <= Len(data) /\ LongRun(cut)
  /\ segs' = Append(segs, <<"fill", cut, RunEnd(cut)>>)
  /\ cut' = RunEnd(cut)
  /\ UNCHANGED <<data, row, directives>>

\* The start of the next long run at or after b, the start of a run.
NextFill(b) ==
  Min({Len(data) + 1} \cup {c \in b .. Len(data) : data[c] # data[c - 1] /\ LongRun(c)})

SplitBytes ==
  /\ cut <= Len(data) /\ ~LongRun(cut)
  /\ segs' = Append(segs, <<"bytes", cut, NextFill(RunEnd(cut))>>)
  /\ cut' = NextFill(RunEnd(cut))
  /\ UNCHANGED <<data, row, directives>>

------------------------------------------------------------------------------
(* Pass 2, over the first of the remaining segments.                         *)

Kind == Head(segs)[1]
SegEnd == Head(segs)[3]

Splitting == cut <= Len(data)
Emitting(kind) == ~Splitting /\ segs # <<>> /\ Kind = kind

Directive(at, count, pattern) == [at |-> at, count |-> count, pattern |-> pattern]

\* _emit_chunk for the line that starts at a.
LineEnd(a) == Min({a + BytesPerLine, SegEnd})
Line(a) == SubSeq(data, a, LineEnd(a) - 1)
Bytes(a) == Directive(a, Len(Line(a)), Line(a))

\* The next line starts at a; past the last one, the next segment begins.
Advance(a) ==
  /\ row' = a
  /\ segs' = IF a = SegEnd THEN Tail(segs) ELSE segs

EmitFill ==
  /\ Emitting("fill")
  /\ directives' = Append(directives, Directive(row, SegEnd - row, <<data[row]>>))
  /\ Advance(SegEnd)
  /\ UNCHANGED <<data, cut>>

\* The end of the full lines from a on that are identical to the one at a.
SameEnd(a) ==
  IF a + BytesPerLine > SegEnd THEN a
  ELSE Min({b \in a .. SegEnd : (b - a) % BytesPerLine = 0 /\
              (b + BytesPerLine > SegEnd \/ Line(b) # Line(a))})
Rows(a) == (SameEnd(a) - a) \div BytesPerLine

EmitLine ==
  /\ Emitting("bytes") /\ Rows(row) < MinRows
  /\ directives' = Append(directives, Bytes(row))
  /\ Advance(LineEnd(row))
  /\ UNCHANGED <<data, cut>>

\* Mutant of FillValue: the largest period tried, whether it fits or not.
FillValue_Largest(chunk) == SubSeq(chunk, 1, Max(Periods))

\* _fill_value: the shortest period tried that fits, or the whole line.
FillValue(chunk) ==
  LET fits(p) == \A k \in 1 .. Len(chunk) : chunk[k] = chunk[((k - 1) % p) + 1]
  IN SubSeq(chunk, 1, Min({Len(chunk)} \cup {p \in Periods : fits(p)}))

\* Mutant of Middle: one line too many is left out.
Middle_OneMore(a) == Rows(a) - 1

\* The lines left out: all but the first and the last.
Middle(a) == Rows(a) - 2

EmitCollapsed ==
  LET first == row
      last  == SameEnd(row) - BytesPerLine
  IN
  /\ Emitting("bytes") /\ Rows(row) >= MinRows
  /\ directives' = directives \o
       <<Bytes(first),
         Directive(first + BytesPerLine, Middle(row) * BytesPerLine, FillValue(Line(row))),
         Bytes(last)>>
  /\ Advance(SameEnd(row))
  /\ UNCHANGED <<data, cut>>

FlushNext == SplitFill \/ SplitBytes \/ EmitFill \/ EmitLine \/ EmitCollapsed

FlushSpec == FlushInit /\ [][FlushNext]_flushVars

------------------------------------------------------------------------------

Flushed == ~Splitting /\ segs = <<>>

\* Types: segments and directives are non-empty and stay inside the queue.
FlushTypeOK ==
  /\ cut \in 1 .. Len(data) + 1 /\ row \in 1 .. Len(data) + 1
  /\ \A s \in ToSet(segs) : s[1] \in {"fill", "bytes"} /\ 1 <= s[2] /\ s[2] < s[3]
                            /\ s[3] <= Len(data) + 1
  /\ \A d \in ToSet(directives) : d.at \in 1 .. Len(data) /\ d.count \in 1 .. Len(data)

\* What the assembler makes of a directive.
Assembled(d) == [k \in 1 .. d.count |-> d.pattern[((k - 1) % Len(d.pattern)) + 1]]

\* Where a directive stops, and the first byte not yet written.
DirectiveEnd(d) == d.at + d.count
WrittenUpTo == IF directives = <<>> THEN 1 ELSE DirectiveEnd(Last(directives))

\* Byte exactness: each directive assembles to the bytes at the address that is
\* printed beside it, each starts where the one before stops, and together they
\* are the first bytes of the queue, all of it at the end.
Reproduces ==
  /\ \A k \in DOMAIN directives :
       /\ Assembled(directives[k]) = SubSeq(data, directives[k].at, DirectiveEnd(directives[k]) - 1)
       /\ directives[k].at = (IF k = 1 THEN 1 ELSE DirectiveEnd(directives[k - 1]))
  /\ WrittenUpTo = row /\ (Flushed => row = Len(data) + 1)
==============================================================================
