-------------------------------- MODULE Diff --------------------------------
(* The diff engine of tools/diff.ts.  A content is the sequence of its      *)
(* lines; a diff is a sequence of hunks, whose lines are marked "+" or "-"  *)
(* as in the text of the program, and "=" where that has a blank.           *)
EXTENDS Integers, Sequences, FiniteSets, SequencesExt, FiniteSetsExt

CONSTANTS LookAhead,  \* how many lines ahead a match is looked for: 20 in the code
          Signs       \* the lines that begin with ++ or -- themselves

ASSUME LookAheadAssumption == LookAhead \in Nat \ {0}

Lesser(a, b) == IF a < b THEN a ELSE b
Greater(a, b) == IF a > b THEN a ELSE b

(* Where a line comes back soon after a place, or 0.                        *)
Ahead(lines, line, from) ==
  LET places == {k \in from + 1..Lesser(from + LookAhead - 1, Len(lines)) : lines[k] = line}
  IN  IF places = {} THEN 0 ELSE Min(places)

Marked(op, lines) == [k \in DOMAIN lines |-> [op |-> op, line |-> lines[k]]]

(* One round of the walk through both contents, which is at line i of the   *)
(* old and line j of the new one.                                           *)
Deleted(old, walk, to) ==
  [i |-> to, j |-> walk.j, edits |-> walk.edits \o Marked("-", SubSeq(old, walk.i, to - 1))]

Inserted(new, walk, to) ==
  [i |-> walk.i, j |-> to, edits |-> walk.edits \o Marked("+", SubSeq(new, walk.j, to - 1))]

Unchanging(old, walk) ==
  [i |-> walk.i + 1, j |-> walk.j + 1, edits |-> walk.edits \o Marked("=", <<old[walk.i]>>)]

Differ(old, new, walk) ==
  LET inNew == Ahead(new, old[walk.i], walk.j)
      inOld == Ahead(old, new[walk.j], walk.i)
  IN  IF inNew # 0 /\ (inOld = 0 \/ inNew - walk.j <= inOld - walk.i) THEN Inserted(new, walk, inNew)
      ELSE IF inOld # 0 THEN Deleted(old, walk, inOld)
      ELSE Inserted(new, Deleted(old, walk, walk.i + 1), walk.j + 1)

Round(old, new, walk) ==
  IF walk.i > Len(old) /\ walk.j > Len(new) THEN walk
  ELSE IF walk.i > Len(old) THEN Inserted(new, walk, walk.j + 1)
  ELSE IF walk.j > Len(new) THEN Deleted(old, walk, walk.i + 1)
  ELSE IF old[walk.i] = new[walk.j] THEN Unchanging(old, walk)
  ELSE Differ(old, new, walk)

(* The edit script: each round takes a line at least.                       *)
Script(old, new) ==
  LET walk[n \in 0..Len(old) + Len(new)] ==
        IF n = 0 THEN [i |-> 1, j |-> 1, edits |-> <<>>] ELSE Round(old, new, walk[n - 1])
  IN  walk[Len(old) + Len(new)].edits

CountBefore(script, first, excluded) == Cardinality({k \in 1..first - 1 : script[k].op # excluded})

CountWithout(lines, excluded) == CountBefore(lines, Len(lines) + 1, excluded)

(* The start of each side counts the lines of the other one.                *)
Hunk(script, first, last) ==
  LET lines == SubSeq(script, first, Lesser(last, Len(script)))
  IN  [oldStart |-> CountBefore(script, first, "-") + 1, oldCount |-> CountWithout(lines, "+"),
       newStart |-> CountBefore(script, first, "+") + 1, newCount |-> CountWithout(lines, "-"),
       lines |-> lines]

(* Changes far enough apart go to hunks of their own.  A hunk that is not   *)
(* the last one has a line less of context at its end.                      *)
MutantLastLine(change, context, isLast) == change + context - 2 + (IF isLast THEN 2 ELSE 0)

LastLine(change, context, isLast) == change + context - 1 + (IF isLast THEN 1 ELSE 0)

Nth(places, n) == CHOOSE k \in places : Cardinality({c \in places : c <= k}) = n

Hunks(script, context) ==
  LET changes == {k \in DOMAIN script : script[k].op # "="}
      ends == {k \in changes : \A c \in changes : c > k => c - k > 2 * context}
      From(n) == Greater(1, Min({c \in changes : n > 1 => c > Nth(ends, n - 1)}) - context)
  IN  [n \in 1..Cardinality(ends) |->
         Hunk(script, From(n), LastLine(Nth(ends, n), context, n = Cardinality(ends)))]

ComputeUnifiedDiff(old, new, context) == Hunks(Script(old, new), context)

LinesOf(hunks) == FlattenSeq([n \in DOMAIN hunks |-> hunks[n].lines])

(* parseDiffStat takes a changed line that begins with two signs itself for *)
(* the name of a file.                                                      *)
ParseDiffStat(hunks) ==
  LET Counted(op) == Len(SelectSeq(LinesOf(hunks), LAMBDA l : l.op = op /\ l.line \notin Signs))
  IN  [insertions |-> Counted("+"), deletions |-> Counted("-")]

(* The places in the new content that the hunks say have changed.           *)
ChangedIn(hunk) ==
  {hunk.newStart - 1 + CountWithout(SubSeq(hunk.lines, 1, k), "-") :
     k \in {k \in DOMAIN hunk.lines : hunk.lines[k].op = "+"}}

ChangedNewLines(hunks) == UNION {ChangedIn(hunks[n]) : n \in DOMAIN hunks}

AnnotateWithHighlights(hunks, highlights) ==
  {h \in highlights : ChangedNewLines(hunks) \cap h.startLine..h.endLine # {}}
=============================================================================
