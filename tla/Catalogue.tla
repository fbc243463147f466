------------------------------ MODULE Catalogue ------------------------------
(***************************************************************************)
(* The tables of src/src/db.ts that describe the files of a repository:    *)
(* atlas_files, its full-text index atlas_fts, the vectors of files and of *)
(* source chunks, symbols and their references, and the witnesses of a     *)
(* file.  An operation is the sequence of its statements; a crash may come *)
(* between any two of them, but not within a transaction, which is one     *)
(* statement here.  Columns that are only stored and read back are one set *)
(* of words; a hash stands for the content it is the hash of.              *)
(***************************************************************************)
EXTENDS Integers, SequencesExt

CONSTANTS
  Paths,        \* the files, ordered as numbers as ORDER BY file_path does
  Hashes,       \* the contents a file may have
  Records,      \* what writers store: [words, hazards, ranges, patterns, model]
  StopWords,    \* FTS_STOPWORDS and words of one letter
  Exports,      \* the symbols the cross references of a file may name
  MaxIds,       \* bound on the ids atlas_files and its chunks are given
  NoRow,        \* no such row
  Instances, Events, MaxEvents, MaxConfidence, MaxEvidence,  \* witnesses
  Calls         \* the evidence of a witness with the confidence a caller gives it, or NoRow

VARIABLES
  atlasFiles,       \* Paths -> [id, hash, words, hazards, ranges, patterns, model, xrefs, made]
  atlasFts,         \* the documents: [id, words]
  embeddings,       \* the vectors of files: [id, path], path the file it was made of
  chunks,           \* [id, file, path]
  chunkEmbeddings,  \* the vectors of chunks: the chunk it was made of
  left,             \* the vectors that a delete has failed to remove, or that were
                    \* stored when their chunk had gone already, for the property
  listed,           \* the chunks that callers have been handed
  symbols,          \* [file, name]
  references,       \* [file, name, to, count, provenance]
  ids,              \* the last id given out: AUTOINCREMENT never gives one again
  flag,             \* atlas_runtime_flags holds FTS_HAZARDS_REBUILD_FLAG
  todo,             \* the statements of the operation under way that are left
  indexed,          \* the full-text index was rebuilt and no operation was cut since
  events,           \* the calls of recordAtlasFileWitness, for the property
  witnesses         \* [instance -> the witness row of one file]

catalogueVars == <<atlasFiles, atlasFts, embeddings, chunks, chunkEmbeddings, left, listed,
                   symbols, references, ids, flag, todo, indexed, events, witnesses>>

vectors == <<embeddings, chunks, chunkEmbeddings, left, listed>>
searched == <<atlasFts, vectors>>
graph == <<symbols, references>>
others == <<flag, indexed, events, witnesses>>

CallSites == [Exports -> {{f} : f \in Paths}]

(* What a row may hold, which NoRow is not                                  *)
Said(column) == {r[column] : r \in Records} \cup {{}}

Rows ==
  [id : Nat, hash : Hashes, words : Said("words"), hazards : Said("hazards"), ranges : Said("ranges"),
   patterns : Said("patterns"), model : {r.model : r \in Records} \cup {"none"},
   xrefs : CallSites \cup {<<>>}, made : Hashes]

ASSUME CatalogueAssumption == IsFiniteSet(Paths) /\ NoRow \notin Rows

(* What is written of a witness: evidence is what a caller said, of one of  *)
(* the interactions there are.                                              *)
Interactions == {"read", "searched", "edited", "committed", "reviewed", "discussed", "claimed", "other"}

Evidence == {[e EXCEPT !.interaction = i] : e \in Events, i \in Interactions}
WitnessRows ==
  [counts : [Interactions -> Nat], evidence : Seq(Evidence), confidence : Nat, first : {e.at : e \in Events}]

ASSUME WitnessAssumption ==
  /\ \A e \in Events : {"interaction", "event", "at"} \subseteq DOMAIN e
  /\ Calls \subseteq Events \X (Int \cup {NoRow})
  /\ MaxConfidence \in Nat /\ MaxEvidence \in Nat \ {0} /\ NoRow \notin WitnessRows

Stored == {f \in Paths : atlasFiles[f] # NoRow}
Ids == {atlasFiles[f].id : f \in Stored}

CatalogueInit ==
  /\ atlasFiles = [f \in Paths |-> NoRow] /\ atlasFts = {} /\ embeddings = {}
  /\ chunks = {} /\ chunkEmbeddings = {} /\ left = {} /\ listed = {} /\ symbols = {} /\ references = {}
  /\ ids = 0 /\ flag = FALSE /\ todo = <<>> /\ indexed = TRUE
  /\ events = <<>> /\ witnesses = [i \in Instances |-> NoRow]

----------------------------------------------------------------------------
(* The full-text document of a record *)

(* Mutant: only the text-only column is indexed.                           *)
MutantFtsDocumentForRecord(record) ==
  record.words \cup record.hazards \cup record.patterns \cup DOMAIN record.xrefs

(* The hazards of both columns, each once, and the text of the others      *)
FtsDocumentForRecord(record) ==
  record.words \cup record.hazards \cup record.ranges \cup record.patterns \cup DOMAIN record.xrefs

PrepareFtsQuery(words) == words \ StopWords

(* The statements *)

Statement(do, f) == [do |-> do, file |-> f]

PopulateFts(f) == <<Statement("unindex", f), Statement("index", f)>>

(* Two statements for each file that is stored                             *)
Each(statements(_)) ==
  LET order == SetToSeq(Stored)
  IN  [k \in 1..2 * Len(order) |-> statements(order[(k + 1) \div 2])[2 - (k % 2)]]

RebuildFts == <<[do |-> "clear"]>> \o Each(PopulateFts) \o <<[do |-> "rebuilt"]>>

DeleteAtlasFile(f) ==
  <<Statement("unindex", f), Statement("unembed", f), Statement("unembed chunks", f),
    Statement("delete chunks", f), Statement("unlink", f), Statement("forget", f), Statement("remove", f)>>

UpsertFileRecord(f, record, hash) ==
  <<[do |-> "write", file |-> f, row |-> record, hash |-> hash]>> \o PopulateFts(f)

UpsertScanRecord(f, hash) == <<[do |-> "scan", file |-> f, hash |-> hash]>> \o PopulateFts(f)

UpsertEmbedding(f) == <<Statement("unembed", f), Statement("embed", f)>>

(* persistCrossRefs leaves the full-text index to the rebuild that ends a  *)
(* run; invalidation does not.                                             *)
PersistCrossRefs(f, found) ==
  <<[do |-> "cross-reference", file |-> f, found |-> found],
    [do |-> "references", file |-> f, found |-> found]>>

Invalidate(f) == <<[do |-> "invalidate", file |-> f, found |-> <<>>]>> \o PopulateFts(f)

BackfillFile(f) ==
  <<Statement("symbols", f), [do |-> "references", file |-> f, found |-> atlasFiles[f].xrefs]>>

(* backfillSymbolsAndReferencesFromAtlasFiles: only into empty tables      *)
BackfillTables == IF symbols # {} \/ references # {} THEN <<>> ELSE Each(BackfillFile)

(* openAtlasDatabase: the backfill, then the one rebuild of an upgrade     *)
Open == BackfillTables \o IF flag THEN <<>> ELSE RebuildFts \o <<[do |-> "flag"]>>

----------------------------------------------------------------------------
(* What a statement does *)

Doing(what) == todo # <<>> /\ Head(todo).do = what /\ todo' = Tail(todo)

Target == Head(todo).file
Row == atlasFiles[Target]

Unindex ==
  /\ Doing("unindex")
  /\ atlasFts' = IF Row = NoRow THEN atlasFts ELSE {d \in atlasFts : d.id # Row.id}
  /\ UNCHANGED <<atlasFiles, vectors, graph, ids, others>>

Index ==
  /\ Doing("index")
  /\ atlasFts' = IF Row = NoRow THEN atlasFts
                 ELSE atlasFts \cup {[id |-> Row.id, words |-> FtsDocumentForRecord(Row)]}
  /\ UNCHANGED <<atlasFiles, vectors, graph, ids, others>>

Clear ==
  /\ Doing("clear") /\ atlasFts' = {}
  /\ UNCHANGED <<atlasFiles, vectors, graph, ids, others>>

Rebuilt ==
  /\ Doing("rebuilt") /\ indexed' = TRUE
  /\ UNCHANGED <<atlasFiles, searched, graph, ids, flag, events, witnesses>>

Flag ==
  /\ Doing("flag") /\ flag' = TRUE
  /\ UNCHANGED <<atlasFiles, searched, graph, ids, indexed, events, witnesses>>

NewId == ids + 1

(* A row keeps its id; made is the content its extraction was made of.     *)
Write ==
  /\ Doing("write") /\ (Row = NoRow => NewId <= MaxIds)
  /\ ids' = IF Row = NoRow THEN NewId ELSE ids
  /\ LET row == Head(todo).row
     IN  atlasFiles' = [atlasFiles EXCEPT ![Target] =
           [id |-> IF Row = NoRow THEN NewId ELSE Row.id, hash |-> Head(todo).hash, words |-> row.words,
            hazards |-> row.hazards, ranges |-> row.ranges, patterns |-> row.patterns, model |-> row.model,
            xrefs |-> IF Row = NoRow THEN <<>> ELSE Row.xrefs, made |-> Head(todo).hash]]
  /\ UNCHANGED <<searched, graph, others>>

(* The structural columns are new, the extraction survives if the content  *)
(* has not changed; what agents have written always does.                  *)
ScannedRow(row, hash) ==
  IF row.hash = hash THEN row ELSE [row EXCEPT !.hash = hash, !.xrefs = <<>>, !.model = "none"]

EmptyRow(id, hash) ==
  [id |-> id, hash |-> hash, words |-> {}, hazards |-> {}, ranges |-> {}, patterns |-> {},
   model |-> "none", xrefs |-> <<>>, made |-> hash]

ScanRow ==
  /\ Doing("scan") /\ (Row = NoRow => NewId <= MaxIds)
  /\ ids' = IF Row = NoRow THEN NewId ELSE ids
  /\ atlasFiles' = [atlasFiles EXCEPT ![Target] = IF Row = NoRow THEN EmptyRow(NewId, Head(todo).hash)
                                                  ELSE ScannedRow(Row, Head(todo).hash)]
  /\ UNCHANGED <<searched, graph, others>>

(* A vector table may refuse a statement, or not exist: whoever writes one  *)
(* catches the error, warns at most, and goes on.  The row is read again    *)
(* for its id, as getAtlasFileId does.                                      *)
Embed ==
  /\ Doing("embed")
  /\ embeddings' \in
       {embeddings, embeddings \cup {[id |-> atlasFiles[f].id, path |-> f] : f \in Stored \cap {Target}}}
  /\ UNCHANGED <<atlasFiles, atlasFts, chunks, chunkEmbeddings, left, listed, graph, ids, others>>

VectorsOf(f) == {v \in embeddings : f \in Stored /\ v.id = atlasFiles[f].id}

Unembed ==
  /\ Doing("unembed")
  /\ \/ embeddings' = embeddings \ VectorsOf(Target) /\ UNCHANGED left
     \/ left' = left \cup VectorsOf(Target) /\ UNCHANGED embeddings
  /\ UNCHANGED <<atlasFiles, atlasFts, chunks, chunkEmbeddings, listed, graph, ids, others>>

ChunksOf(f) == {c \in chunks : c.path = f}
ChunkVectorsOf(f) == {v \in chunkEmbeddings : \E c \in ChunksOf(f) : c.id = v.id}

(* One delete for each chunk, of which any may fail.                        *)
RemoveChunkVectors(f) ==
  \E failed \in SUBSET ChunkVectorsOf(f) :
    /\ chunkEmbeddings' = (chunkEmbeddings \ ChunkVectorsOf(f)) \cup failed
    /\ left' = left \cup failed

UnembedChunks ==
  /\ Doing("unembed chunks") /\ RemoveChunkVectors(Target)
  /\ UNCHANGED <<atlasFiles, atlasFts, embeddings, chunks, listed, graph, ids, others>>

DeleteChunks ==
  /\ Doing("delete chunks") /\ chunks' = chunks \ ChunksOf(Target)
  /\ UNCHANGED <<atlasFiles, atlasFts, embeddings, chunkEmbeddings, left, listed, graph, ids, others>>

(* The references of a file that is deleted, both ways, then its symbols   *)
Unlink ==
  /\ Doing("unlink")
  /\ references' = {r \in references : r.file # Target /\ r.to # Target}
  /\ UNCHANGED <<atlasFiles, searched, symbols, ids, others>>

Forget ==
  /\ Doing("forget")
  /\ symbols' = {s \in symbols : s.file # Target}
  /\ references' = {r \in references : r.file # Target}
  /\ UNCHANGED <<atlasFiles, searched, ids, others>>

(* Foreign keys take the chunks of a row with it, but not their vectors.   *)
RemoveRow ==
  /\ Doing("remove")
  /\ atlasFiles' = [atlasFiles EXCEPT ![Target] = NoRow]
  /\ chunks' = IF Row = NoRow THEN chunks ELSE {c \in chunks : c.file # Row.id}
  /\ UNCHANGED <<atlasFts, embeddings, chunkEmbeddings, left, listed, graph, ids, others>>

SetXrefs(what) ==
  /\ Doing(what)
  /\ IF Row = NoRow THEN UNCHANGED <<atlasFiles, indexed>>
     ELSE /\ atlasFiles' = [atlasFiles EXCEPT ![Target].xrefs = Head(todo).found]
          /\ indexed' = (indexed /\ what = "invalidate")
  /\ UNCHANGED <<searched, graph, ids, flag, events, witnesses>>

(* upsertSymbolsForFile: the references from the symbols replaced cascade. *)
UpsertSymbols ==
  /\ Doing("symbols")
  /\ symbols' = {s \in symbols : s.file # Target} \cup {[file |-> Target, name |-> s] : s \in Exports}
  /\ references' = {r \in references : r.file # Target}
  /\ UNCHANGED <<atlasFiles, searched, ids, others>>

Kept(f) == {r \in references : r.file # f \/ r.provenance = "ast"}

(* replaceReferencesForFile: one reference for each call site, from a      *)
(* symbol that is stored first; those of the structure phase stay.         *)
ReplaceReferences ==
  /\ Doing("references")
  /\ LET found == Head(todo).found
     IN  /\ symbols' = symbols \cup {[file |-> Target, name |-> s] : s \in DOMAIN found}
         /\ references' = Kept(Target) \cup
              UNION {{[file |-> Target, name |-> s, to |-> f, provenance |-> "inferred"] : f \in found[s]}
                     : s \in DOMAIN found}
  /\ UNCHANGED <<atlasFiles, searched, ids, others>>

Step ==
  \/ Unindex \/ Index \/ Clear \/ Rebuilt \/ Flag \/ Write \/ ScanRow \/ Embed \/ Unembed
  \/ UnembedChunks \/ DeleteChunks \/ Unlink \/ Forget \/ RemoveRow
  \/ SetXrefs("cross-reference") \/ SetXrefs("invalidate") \/ UpsertSymbols \/ ReplaceReferences

----------------------------------------------------------------------------
(* The operations *)

Begin(statements) ==
  /\ todo = <<>> /\ statements # <<>> /\ todo' = statements
  /\ UNCHANGED <<atlasFiles, searched, graph, ids, others>>

(* replaceSourceChunks and the vectors the caller then stores of them; the *)
(* first is one transaction.                                               *)
ReplaceSourceChunks(f) ==
  LET new == [id |-> NewId, file |-> atlasFiles[f].id, path |-> f] IN
  /\ todo = <<>> /\ f \in Stored /\ NewId <= MaxIds
  /\ RemoveChunkVectors(f)
  /\ chunks' = (chunks \ ChunksOf(f)) \cup {new} /\ listed' = listed \cup {new}
  /\ ids' = NewId
  /\ UNCHANGED <<atlasFiles, atlasFts, embeddings, graph, todo, others>>

(* Nobody asks whether the chunk is still there: its id is that of a chunk  *)
(* the caller was handed, before it computed the vector.  Deleting the old  *)
(* vector may fail, and so may storing the new one.                         *)
UpsertSourceChunkEmbedding(chunk) ==
  LET rest == {v \in chunkEmbeddings : v.id # chunk.id} IN
  /\ todo = <<>>
  /\ chunkEmbeddings' \in {chunkEmbeddings, rest, rest \cup {chunk}}
  /\ left' = IF chunk \in chunks THEN left ELSE left \cup {chunk}
  /\ UNCHANGED <<atlasFiles, atlasFts, embeddings, chunks, listed, graph, ids, todo, others>>

(* upsertAstReferences, in one transaction with the symbols it needs       *)
StructurePhase(f, g) ==
  /\ todo = <<>> /\ f \in Stored
  /\ symbols' = symbols \cup {[file |-> f, name |-> s] : s \in Exports}
  /\ references' = references \cup {[file |-> f, name |-> s, to |-> g, provenance |-> "ast"] : s \in Exports}
  /\ UNCHANGED <<atlasFiles, searched, ids, todo, others>>

Cut ==
  /\ todo' = <<>> /\ indexed' = FALSE
  /\ UNCHANGED <<atlasFiles, searched, graph, ids, flag, events, witnesses>>

(* The rebuild of an upgrade throws: that is logged, and the flag not set.  *)
RebuildFails ==
  /\ todo # <<>> /\ Last(todo).do = "flag" /\ Head(todo).do \notin {"symbols", "references"}
  /\ Cut

Crash == todo # <<>> /\ Cut

Operation(f) ==
  \/ \E record \in Records, h \in Hashes : Begin(UpsertFileRecord(f, record, h))
  \/ \E h \in Hashes : Begin(UpsertScanRecord(f, h))
  \/ /\ f \in Stored
     /\ \/ Begin(DeleteAtlasFile(f)) \/ Begin(UpsertEmbedding(f)) \/ Begin(Invalidate(f))
        \/ \E found \in CallSites : Begin(PersistCrossRefs(f, found))

NextFile ==
  \/ \E f \in Paths : Operation(f) \/ ReplaceSourceChunks(f) \/ \E g \in Paths : StructurePhase(f, g)
  \/ Begin(RebuildFts) \/ Begin(Open)
  \/ Step
  \/ \E chunk \in listed : UpsertSourceChunkEmbedding(chunk)
  \/ RebuildFails \/ Crash

----------------------------------------------------------------------------
(* Witnesses: who has read, edited or committed the file *)

NormalizeWitnessInteraction(value) == IF value \in Interactions THEN value ELSE "other"

ConfidenceWeight ==
  [read |-> 2, searched |-> 1, edited |-> 9, committed |-> 12, reviewed |-> 7, discussed |-> 4,
   claimed |-> 3, other |-> 1]

AtMostThe(n, s) == SubSeq(s, 1, IF Len(s) < n THEN Len(s) ELSE n)

SameKey(a, b) == a.interaction = b.interaction /\ a.event = b.event

(* A sequence without what has the key of next: the places that stay are    *)
(* counted, where SelectSeq would recurse over them.                        *)
Others(existing, next) ==
  LET stay == {p \in DOMAIN existing : ~SameKey(existing[p], next)}
  IN  [n \in 1..Cardinality(stay) |->
         existing[CHOOSE p \in stay : Cardinality({q \in stay : q <= p}) = n]]

(* Mutant: the newest evidence goes to the end, and is the first to be cut.*)
MutantMergeWitnessEvidence(existing, next) ==
  AtMostThe(MaxEvidence, Append(Others(existing, next), next))

(* The newest first, one of each interaction, event and tool               *)
MergeWitnessEvidence(existing, next) ==
  AtMostThe(MaxEvidence, <<next>> \o Others(existing, next))

NoWitness(at) ==
  [counts |-> [i \in Interactions |-> 0], evidence |-> <<>>, confidence |-> 0, first |-> at]

(* The confidence a call brings: what its caller says, if that is a number, *)
(* and never less than nothing.                                             *)
ConfidenceDelta(delta, interaction) ==
  IF delta = NoRow THEN ConfidenceWeight[interaction] ELSE IF delta > 0 THEN delta ELSE 0

(* recordAtlasFileWitness, one statement after a read of the row           *)
RecordAtlasFileWitness(instance, input, delta) ==
  /\ Len(events) < MaxEvents
  /\ LET interaction == NormalizeWitnessInteraction(input.interaction)
         existing == IF witnesses[instance] = NoRow THEN NoWitness(input.at) ELSE witnesses[instance]
         confidence == existing.confidence + ConfidenceDelta(delta, interaction)
     IN  witnesses' = [witnesses EXCEPT ![instance] =
           [counts |-> [existing.counts EXCEPT ![interaction] = @ + 1],
            evidence |-> MergeWitnessEvidence(existing.evidence, [input EXCEPT !.interaction = interaction]),
            confidence |-> IF confidence < MaxConfidence THEN confidence ELSE MaxConfidence,
            first |-> existing.first]]
  /\ events' = Append(events, <<instance, input, delta>>)
  /\ UNCHANGED <<atlasFiles, searched, graph, ids, flag, todo, indexed>>

NextWitness ==
  \E instance \in Instances, call \in Calls : RecordAtlasFileWitness(instance, call[1], call[2])

CatalogueSpec == CatalogueInit /\ [][NextFile \/ NextWitness]_catalogueVars

----------------------------------------------------------------------------
(* The reads *)

SearchFts(query) ==
  {f \in Stored : \E d \in atlasFts : d.id = atlasFiles[f].id /\ d.words \cap PrepareFtsQuery(query) # {}}

(* The k nearest vectors are taken first and joined with the files after.  *)
SearchVector(nearest) == {f \in Stored : \E v \in nearest : v.id = atlasFiles[f].id}

SearchSourceChunks(nearest) == {c \in chunks : \E v \in nearest : v.id = c.id}

IsFileComplete(f, hash) ==
  /\ f \in Stored /\ atlasFiles[f].hash = hash /\ atlasFiles[f].words # {}
  /\ atlasFiles[f].model \notin {"none", "scaffold"} /\ DOMAIN atlasFiles[f].xrefs # {}

(* Whatever is deleted, replaced, or cut in the middle, and whatever fails  *)
(* of the vector tables: a vector finds the file or the chunk it was made   *)
(* of and never another, and it finds nothing, and takes a place of the k   *)
(* nearest in vain, only if its delete has failed or it was stored late; no *)
(* document outlives its file and none is stored twice.                     *)
NothingLost ==
  /\ \A v \in embeddings : SearchVector({v}) \in {{v.path}} \cup (IF v \in left THEN {{}} ELSE {})
  /\ \A v \in chunkEmbeddings : SearchSourceChunks({v}) \in {{v}} \cup (IF v \in left THEN {{}} ELSE {})
  /\ \A c \in chunks : c.path \in Stored /\ atlasFiles[c.path].id = c.file
  /\ {d.id : d \in atlasFts} \subseteq Ids
  /\ \A d, e \in atlasFts : d.id = e.id => d = e

(* Between operations, a search finds a file by every word of its record    *)
(* and by no other, whichever of the two hazard columns holds it, from the  *)
(* end of one rebuild until an operation is cut or cross references are     *)
(* stored, which only the next rebuild indexes.                             *)
SearchCurrent ==
  indexed /\ todo = <<>> =>
    \A f \in Stored :
      LET row == atlasFiles[f]
          said == row.words \cup row.hazards \cup row.ranges \cup row.patterns \cup DOMAIN row.xrefs
      IN  \A w \in UNION {r.words \cup r.hazards \cup r.ranges \cup r.patterns : r \in Records} \cup Exports :
            f \in SearchFts({w}) <=> w \in said \ StopWords

(* A file passes for complete only if what was extracted was of its present *)
(* content, whatever scans, commits and cross references come in between.   *)
CompleteIsCurrent ==
  \A f \in Stored, h \in Hashes : IsFileComplete(f, h) => atlasFiles[f].made = h

CatalogueSound == NothingLost /\ SearchCurrent /\ CompleteIsCurrent

(* The calls that were made of an instance, and what each of them said.     *)
CallsOf(instance) == {k \in DOMAIN events : events[k][1] = instance}
Told(k) == [events[k][2] EXCEPT !.interaction = NormalizeWitnessInteraction(@)]
Recent(instance) == {k \in CallsOf(instance) : \A j \in CallsOf(instance) : j > k => ~SameKey(Told(j), Told(k))}

(* One point for each unit of confidence that a call has brought.           *)
Points(instance) ==
  UNION {{k} \X (1..ConfidenceDelta(events[k][3], Told(k).interaction)) : k \in CallsOf(instance)}

(* The evidence is what the newest calls said, the newest first, and what   *)
(* is left out is older than all of it.                                     *)
EvidenceIsNewest(row, instance) ==
  \E shown \in [DOMAIN row.evidence -> Recent(instance)] :
    /\ \A p \in DOMAIN shown : row.evidence[p] = Told(shown[p])
    /\ \A p, q \in DOMAIN shown : p < q => shown[p] > shown[q]
    /\ \A k \in Recent(instance) :
         \/ \E p \in DOMAIN shown : shown[p] = k
         \/ Len(row.evidence) = MaxEvidence /\ \A p \in DOMAIN shown : shown[p] > k

(* A witness row says how often its instance has done what, what it has     *)
(* done last, the newest of each kind first, and since when; its confidence *)
(* is what the calls have brought, up to the limit.                         *)
RowIsFaithful(row, instance) ==
  /\ \A i \in Interactions : row.counts[i] = Cardinality({k \in CallsOf(instance) : Told(k).interaction = i})
  /\ \E k \in CallsOf(instance) : row.first = events[k][2].at /\ \A j \in CallsOf(instance) : k <= j
  /\ LET brought == Cardinality(Points(instance))
     IN  row.confidence = IF brought < MaxConfidence THEN brought ELSE MaxConfidence
  /\ Len(row.evidence) <= MaxEvidence /\ EvidenceIsNewest(row, instance)

WitnessFaithful ==
  \A instance \in Instances :
    IF CallsOf(instance) = {} THEN witnesses[instance] = NoRow ELSE RowIsFaithful(witnesses[instance], instance)
=============================================================================
