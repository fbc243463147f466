----------------------------- MODULE Comparison -----------------------------
(* Two contents, written line by line, that are compared.                   *)
EXTENDS Diff

CONSTANTS Lines, Contexts  \* what a line may be, and how many of them frame a change

VARIABLES oldLines, newLines

comparisonVars == <<oldLines, newLines>>

ASSUME ContextsAssumption == Contexts \subseteq Nat

ComparisonInit == oldLines = <<>> /\ newLines = <<>>

AddLine(line) == newLines' = Append(newLines, line) /\ UNCHANGED oldLines
SaveLines == oldLines' = newLines /\ newLines' = <<>>

ComparisonNext == SaveLines \/ \E line \in Lines : AddLine(line)

ComparisonSpec == ComparisonInit /\ [][ComparisonNext]_comparisonVars

-----------------------------------------------------------------------------
(* A script without the lines of one mark is a content: it has as many      *)
(* lines, each at its place.                                                *)
Tells(script, mark, content) ==
  /\ CountWithout(script, mark) = Len(content)
  /\ \A k \in DOMAIN script :
       script[k].op # mark => script[k].line = content[CountBefore(script, k + 1, mark)]

(* Hunks are pieces of a script, in its order and apart from each other,    *)
(* and what is in no hunk is the same in both contents.                     *)
Beyond(first, hunk) == first + Len(hunk.lines)

Covers(hunks, script) ==
  \E first \in [DOMAIN hunks -> DOMAIN script] :
    /\ \A n \in DOMAIN hunks : /\ Beyond(first[n], hunks[n]) <= Len(script) + 1
                              /\ hunks[n].lines = SubSeq(script, first[n], Beyond(first[n], hunks[n]) - 1)
    /\ \A n, m \in DOMAIN hunks : n < m => Beyond(first[n], hunks[n]) <= first[m]
    /\ \A k \in DOMAIN script :
         script[k].op # "=" => \E n \in DOMAIN hunks : first[n] <= k /\ k < Beyond(first[n], hunks[n])

(* A diff of computeUnifiedDiff loses nothing, whatever the contents: what  *)
(* it marks as deleted and inserted makes the new content of the old one,   *)
(* and each of these lines is in one hunk.  Without context the last change *)
(* of a hunk that is not the last one is lost.                              *)
DiffWhole ==
  LET script == Script(oldLines, newLines)
  IN  /\ Tells(script, "+", oldLines) /\ Tells(script, "-", newLines)
      /\ \A context \in Contexts : context > 0 => Covers(Hunks(script, context), script)
=============================================================================
