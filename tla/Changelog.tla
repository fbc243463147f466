------------------------------ MODULE Changelog ------------------------------
(* The queries over the changelog (db.ts).  An entry is a record of its     *)
(* columns; "none" is a column that is NULL, and a revision the contents it *)
(* has, none being <<>>.  A time is the second of the entry; words are the  *)
(* texts a query matches, each with the rank it gives the entry.            *)
EXTENDS Integers, Sequences, FiniteSets, FiniteSetsExt, SequencesExt

CONSTANTS DaySeconds  \* the seconds of a day

ASSUME DayAssumption == DaySeconds \in Nat \ {0}

Day(second) == second \div DaySeconds

(* Times are compared as texts: an entry's has a space between the day and  *)
(* the time of day, and one that a caller spells with a T, or without a     *)
(* time of day, is told apart by its day only.                              *)
AtMost(second, time) ==
  CASE time.form = "spaced" -> second <= time.at
    [] time.form = "iso"    -> Day(second) <= Day(time.at)
    [] time.form = "date"   -> Day(second) < Day(time.at)

AtLeast(second, time) ==
  CASE time.form = "spaced" -> second >= time.at
    [] time.form = "iso"    -> Day(second) > Day(time.at)
    [] time.form = "date"   -> Day(second) >= Day(time.at)

(* buildChangelogWhere: every filter that is given must hold.               *)
Equal == {"file_path", "cluster", "author_instance_id", "author_engine", "author_model",
          "author_engine_type", "author_name", "verification_status"}

Has(filters, name) == name \in DOMAIN filters

Matches(filters, e) ==
  /\ \A c \in Equal \cap DOMAIN filters : e[c] = filters[c]
  /\ Has(filters, "file_prefix") => e.file_path \in filters.file_prefix
  /\ Has(filters, "since") => AtLeast(e.created_at, filters.since)
  /\ Has(filters, "until") => AtMost(e.created_at, filters.until)
  /\ IF Has(filters, "breaking") THEN e.breaking_changes = filters.breaking
     ELSE (Has(filters, "breaking_only") /\ filters.breaking_only) => e.breaking_changes
  /\ Has(filters, "query") => filters.query \in DOMAIN e.words

Where(entries, filters) == {e \in entries : Matches(filters, e)}

(* The order of a page: the best match first when words are looked for, or  *)
(* the newest or the oldest.                                                *)
Precedes(filters, a, b) ==
  LET ranked == Has(filters, "query") /\ Has(filters, "order") /\ filters.order = "relevance"
      later == a.created_at > b.created_at
      newer == later \/ (a.created_at = b.created_at /\ a.id > b.id)
      rank(e) == e.words[filters.query]
  IN  CASE ranked -> \/ rank(a) < rank(b)
                     \/ rank(a) = rank(b) /\ (later \/ (a.created_at = b.created_at /\ a.id < b.id))
        [] Has(filters, "order") /\ filters.order = "asc" -> ~newer
        [] OTHER -> newer

InOrder(S, Op(_, _)) ==
  [i \in 1..Cardinality(S) |-> CHOOSE x \in S : Cardinality({y \in S \ {x} : Op(y, x)}) = i - 1]

Window(s, limit, offset) ==
  SubSeq(s, offset + 1, IF offset + limit < Len(s) THEN offset + limit ELSE Len(s))

QueryAtlasChangelog(entries, filters, limit, offset) ==
  Window(InOrder(Where(entries, filters), LAMBDA a, b : Precedes(filters, a, b)), limit, offset)

Times(S) == {e.created_at : e \in S}

Span(S) == [total |-> Cardinality(S),
            earliest |-> IF S = {} THEN "none" ELSE Min(Times(S)),
            latest |-> IF S = {} THEN "none" ELSE Max(Times(S))]

CountAtlasChangelog(entries, filters) == Span(Where(entries, filters))

(* One row for each value of the column, the largest first; Place orders    *)
(* the values, NULL before the others.                                      *)
GroupColumns == Equal

GroupsOf(entries, filters, column) == {e[column] : e \in Where(entries, filters)}

CountAtlasChangelogGroups(entries, filters, column) ==
  IF column \in GroupColumns THEN Cardinality(GroupsOf(entries, filters, column)) ELSE 0

(* The largest group first, then in the order of the texts, which place     *)
(* stands for.                                                              *)
GroupAtlasChangelog(entries, filters, column, limit, offset, place) ==
  LET SpanOf(key) == Span({e \in Where(entries, filters) : e[column] = key})
      Larger(a, b) == \/ SpanOf(a).total > SpanOf(b).total
                      \/ SpanOf(a).total = SpanOf(b).total /\ place[a] < place[b]
      keys == InOrder(GroupsOf(entries, filters, column), Larger)
  IN  IF column \notin GroupColumns THEN <<>>
      ELSE Window([k \in DOMAIN keys |-> [key |-> keys[k], span |-> SpanOf(keys[k])]], limit, offset)

(* One row for each period in which something was changed.                  *)
PeriodOf(e, bucket) ==
  CASE bucket = "day" -> Day(e.created_at)
    [] bucket = "week" -> Day(e.created_at) \div 7
    [] OTHER -> Day(e.created_at) \div 30

TimelineAtlasChangelog(entries, filters, bucket) ==
  LET found == Where(entries, filters)
      In(p) == {e \in found : PeriodOf(e, bucket) = p}
      Who(e) == IF e.author_name # "none" THEN e.author_name ELSE e.author_instance_id
      Row(p) == [period |-> p, count |-> Cardinality(In(p)),
                 unique_files |-> Cardinality({e.file_path : e \in In(p)}),
                 unique_authors |-> Cardinality({Who(e) : e \in In(p)} \ {"none"}),
                 breaking_count |-> Cardinality({e \in In(p) : e.breaking_changes})]
  IN  InOrder({Row(PeriodOf(e, bucket)) : e \in found}, LAMBDA a, b : a.period < b.period)

(* queryPendingAtlasChangelogForFiles: what no commit of the repository has *)
(* been stamped on, in one order although it is read in chunks of files.    *)
QueryPending(entries, files) ==
  InOrder({e \in entries : e.commit_sha = <<>> /\ e.file_path \in files},
          LAMBDA a, b : \/ a.created_at > b.created_at
                        \/ a.created_at = b.created_at /\ a.id > b.id)
=============================================================================
