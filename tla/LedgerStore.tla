----------------------------- MODULE LedgerStore -----------------------------
(***************************************************************************)
(* FileRuntimeLedgerStore: four files of JSON lines (capability, policy,   *)
(* invocation, compatibility) that any number of processes append to and   *)
(* read without a lock.  A query reads the whole file, filters it and      *)
(* returns a page, the latest record or the first one; the export of the   *)
(* command line reads the files one after the other.                       *)
(***************************************************************************)
EXTENDS JsonLines, FiniteSets, Functions

CONSTANTS
  Writers,     \* processes that append records
  Readers,     \* processes that page through a listing or export records
  Drafts,      \* the records callers build, without id and time
  Times,       \* values of recordedAt, the caller's wall clock
  Listings,    \* list queries: [recordKind, given]
  Lookups,     \* queries for one record: [recordKind, given]
  Exports,     \* exports: [kinds, capability, limit]
  PageSizes,   \* limits of a listing
  MaxRecords,  \* bound on the records built
  MaxTears     \* bound on the appends that are cut short

Kinds == <<"capability", "policy", "invocation", "compatibility">>

\* The command line refuses a limit of 0 (parseLimit); a page of none returns its
\* own start as the next cursor.
ASSUME LedgerStoreAssumption ==
  /\ \A draft \in Drafts : "recordKind" \in DOMAIN draft /\ draft.recordKind \in Range(Kinds)
  /\ \A query \in Listings \cup Lookups : query.recordKind \in Range(Kinds)
  /\ \A e \in Exports : e.limit \in Nat \ {0} /\ \A id, other \in e.capability : id = other
  /\ PageSizes \subseteq Nat \ {0}
  /\ Times \subseteq Nat
  /\ MaxRecords \in Nat /\ MaxTears \in Nat

VARIABLES
  file,         \* per kind: the file's lines
  writer,       \* per writer: the record it is about to append, or NoRecord
  reader,       \* per reader: the listing or export it is busy with
  answers,      \* per lookup: the last record it answered, or NoRecord
  acknowledged, \* records whose append returned
  built,        \* how many records were built
  tears         \* how many appends were cut short

vars == <<file, writer, reader, answers, acknowledged, built, tears>>

NoRecord == [recordId |-> 0]

\* What createLedgerRecordId and the clock add to a draft.
Stamped(draft, id, t) ==
  [field \in DOMAIN draft \cup {"recordId", "recordedAt"} |->
     CASE field = "recordId" -> id
       [] field = "recordedAt" -> t
       [] OTHER -> draft[field]]

Records == {Stamped(draft, id, t) : draft \in Drafts, id \in 1..MaxRecords, t \in Times}

Idle == [job |-> "idle"]

-----------------------------------------------------------------------------
(* Queries.  "given" holds the fields of the query that are defined.        *)

FieldMatches(record, field, value) ==
  CASE field = "since"     -> record.recordedAt >= value
    [] field = "until"     -> record.recordedAt <= value
    [] field = "lifecycle" -> value \in {record.lifecycle, record.identityLifecycle}
    [] field = "revision"  -> value \in {record.toRevision, record.activeRevision, record.policyDigest}
    [] OTHER               -> record[field] = value

\* The records of a kind that fit a query.
Matching(kind, given) ==
  {record \in Records : /\ record.recordKind = kind
                        /\ \A field \in DOMAIN given : FieldMatches(record, field, given[field])}

\* The entries of a sequence that are in a set, in their order.
Among(seq, set) ==
  LET kept[k \in 0..Len(seq)] ==
        IF k = 0 THEN <<>>
        ELSE IF seq[k] \in set THEN Append(kept[k - 1], seq[k]) ELSE kept[k - 1]
  IN  kept[Len(seq)]

Listing(kind, given) == Among(file[kind].lines, Matching(kind, given))

\* Mutant: the next page begins with the last record of this one.
OverlappingPage(records, start, limit) ==
  LET end == IF start + limit < Len(records) THEN start + limit ELSE Len(records)
  IN  [records |-> SubSeq(records, start + 1, end),
       next    |-> IF end < Len(records) THEN end - 1 ELSE 0]

\* A page from the cursor, and the next cursor; 0 stands for none.
ApplyLimit(records, start, limit) ==
  LET end == IF start + limit < Len(records) THEN start + limit ELSE Len(records)
  IN  [records |-> SubSeq(records, start + 1, end),
       next    |-> IF end < Len(records) THEN end ELSE 0]

\* Mutant: the last record of the file, whatever its time.
LastInFile(records) == IF records = <<>> THEN NoRecord ELSE records[Len(records)]

\* The last of the records with the greatest recordedAt.
LatestByRecordedAt(records) ==
  IF records = <<>> THEN NoRecord
  ELSE records[CHOOSE k \in DOMAIN records :
                 \A j \in DOMAIN records :
                   \/ records[j].recordedAt < records[k].recordedAt
                   \/ records[j].recordedAt = records[k].recordedAt /\ j <= k]

\* The records a lookup chooses from: a failed activation is never the active one.
Candidates(lookup) ==
  LET matching == Matching(lookup.recordKind, lookup.given)
  IN  Among(file[lookup.recordKind].lines,
            IF lookup.recordKind = "policy"
            THEN {record \in matching : record.event # "failed_activation"} ELSE matching)

\* getLatestCapabilityRecord, getActivePolicyRecord, getInvocationRecord and
\* getLatestCompatibilityRecord.
Answer(lookup) ==
  LET found == Candidates(lookup)
  IN  IF lookup.recordKind # "invocation" THEN LatestByRecordedAt(found)
      ELSE IF found = <<>> THEN NoRecord ELSE found[1]

\* The files an export reads, in this order: policy records have no Capability.
ExportKinds(export) ==
  Among(Kinds, {kind \in export.kinds : kind = "policy" => export.capability = {}})

ExportGiven(kind, export) ==
  IF export.capability = {} THEN <<>>
  ELSE [capabilityId |-> CHOOSE id \in export.capability : TRUE]

Precedes(a, b) ==
  \/ a.recordedAt < b.recordedAt
  \/ a.recordedAt = b.recordedAt /\ a.recordId < b.recordId

\* A set of records, sorted: each stands after those that precede it.
InOrder(records) ==
  [k \in 1..Cardinality(records) |->
     CHOOSE record \in records :
       Cardinality({other \in records : Precedes(other, record)}) = k - 1]

Slice(records, limit) ==
  SubSeq(records, 1, IF limit < Len(records) THEN limit ELSE Len(records))

\* Mutant: the slice is taken before the records are sorted.
SliceThenSort(records, limit) == InOrder(Range(Slice(records, limit)))

\* Sorted by time, then by id, and cut to the limit.
Exported(records, limit) == Slice(InOrder(Range(records)), limit)

-----------------------------------------------------------------------------
Init ==
  /\ file = [kind \in Range(Kinds) |-> EmptyFile]
  /\ writer = [w \in Writers |-> NoRecord]
  /\ reader = [r \in Readers |-> Idle]
  /\ answers = [lookup \in Lookups |-> NoRecord]
  /\ acknowledged = {}
  /\ built = 0
  /\ tears = 0

\* A caller builds a record: a fresh id, the time of its clock.
Build(w) ==
  /\ writer[w] = NoRecord
  /\ built < MaxRecords
  /\ \E draft \in Drafts, t \in Times :
       writer' = [writer EXCEPT ![w] = Stamped(draft, built + 1, t)]
  /\ built' = built + 1
  /\ UNCHANGED <<file, reader, answers, acknowledged, tears>>

Ends(w) == writer' = [writer EXCEPT ![w] = NoRecord]

\* assertNoRawPayloadOrSecret throws before anything is touched.
Refuse(w) ==
  /\ writer[w] # NoRecord
  /\ writer[w].rawOrSecret
  /\ Ends(w)
  /\ UNCHANGED <<file, reader, answers, acknowledged, built, tears>>

\* The directory or the file cannot be opened: the append throws.
AppendFails(w) ==
  /\ writer[w] # NoRecord
  /\ ~ writer[w].rawOrSecret
  /\ Ends(w)
  /\ UNCHANGED <<file, reader, answers, acknowledged, built, tears>>

AppendRecord(w) ==
  LET record == writer[w]
  IN  /\ record # NoRecord
      /\ ~ record.rawOrSecret
      /\ file' = [file EXCEPT ![record.recordKind] = AppendLine(@, record)]
      /\ acknowledged' = acknowledged \cup {record}
      /\ Ends(w)
      /\ UNCHANGED <<reader, answers, built, tears>>

\* The process dies in the write, or the disk is full and the append throws.
AppendTorn(w) ==
  LET record == writer[w]
  IN  /\ record # NoRecord
      /\ ~ record.rawOrSecret
      /\ tears < MaxTears
      /\ \E torn \in TornAppends(file[record.recordKind], record) :
           file' = [file EXCEPT ![record.recordKind] = torn]
      /\ tears' = tears + 1
      /\ Ends(w)
      /\ UNCHANGED <<reader, answers, acknowledged, built>>

\* Somebody asks for one record; an unreadable file throws and answers nothing.
LookUp(lookup) ==
  /\ Parses(file[lookup.recordKind])
  /\ answers' = [answers EXCEPT ![lookup] = Answer(lookup)]
  /\ UNCHANGED <<file, writer, reader, acknowledged, built, tears>>

BeginListing(r) ==
  /\ reader[r] = Idle
  /\ \E query \in Listings, size \in PageSizes :
       reader' = [reader EXCEPT ![r] =
         [job |-> "list", query |-> query, size |-> size, cursor |-> 0, pages |-> <<>>,
          before |-> acknowledged, phase |-> "busy"]]
  /\ UNCHANGED <<file, writer, answers, acknowledged, built, tears>>

\* Each page reads the file anew, from the cursor the last page returned.
ReadPage(r) ==
  LET query == reader[r].query
      page  == ApplyLimit(Listing(query.recordKind, query.given), reader[r].cursor, reader[r].size)
  IN  /\ reader[r].job = "list"
      /\ reader[r].phase = "busy"
      /\ Parses(file[query.recordKind])
      /\ reader' = [reader EXCEPT ![r].pages = @ \o page.records,
                                  ![r].cursor = page.next,
                                  ![r].phase = IF page.next = 0 THEN "done" ELSE "busy"]
      /\ UNCHANGED <<file, writer, answers, acknowledged, built, tears>>

\* An export ends when there is no file left to read, maybe before the first.
ExportPhase(left) == IF left = <<>> THEN "done" ELSE "busy"

BeginExport(r) ==
  /\ reader[r] = Idle
  /\ \E export \in Exports :
       reader' = [reader EXCEPT ![r] =
         [job |-> "export", export |-> export, left |-> ExportKinds(export), records |-> <<>>,
          before |-> acknowledged, phase |-> ExportPhase(ExportKinds(export))]]
  /\ UNCHANGED <<file, writer, answers, acknowledged, built, tears>>

\* The next file is read; after the last one the records are sorted and cut.
ExportFile(r) ==
  LET kind    == Head(reader[r].left)
      records == reader[r].records \o Listing(kind, ExportGiven(kind, reader[r].export))
  IN  /\ reader[r].job = "export"
      /\ reader[r].phase = "busy"
      /\ Parses(file[kind])
      /\ reader' = [reader EXCEPT
           ![r].left    = Tail(@),
           ![r].records = IF Len(reader[r].left) > 1 THEN records
                          ELSE Exported(records, reader[r].export.limit),
           ![r].phase   = ExportPhase(Tail(reader[r].left))]
      /\ UNCHANGED <<file, writer, answers, acknowledged, built, tears>>

\* An unreadable line makes the whole query throw.
ReadThrows(r) ==
  /\ reader[r] # Idle
  /\ reader[r].phase = "busy"
  /\ ~ Parses(file[IF reader[r].job = "list" THEN reader[r].query.recordKind
                   ELSE Head(reader[r].left)])
  /\ reader' = [reader EXCEPT ![r].phase = "failed"]
  /\ UNCHANGED <<file, writer, answers, acknowledged, built, tears>>

Next ==
  \/ \E w \in Writers : Build(w) \/ Refuse(w) \/ AppendFails(w) \/ AppendRecord(w) \/ AppendTorn(w)
  \/ \E lookup \in Lookups : LookUp(lookup)
  \/ \E r \in Readers :
       BeginListing(r) \/ ReadPage(r) \/ BeginExport(r) \/ ExportFile(r) \/ ReadThrows(r)

Spec == Init /\ [][Next]_vars

-----------------------------------------------------------------------------
ListJobs ==
  [job : {"list"}, query : Listings, size : PageSizes, cursor : Nat, pages : Seq(Records),
   before : SUBSET Records, phase : {"busy", "done", "failed"}]

ExportJobs ==
  [job : {"export"}, export : Exports, left : Seq(Range(Kinds)), records : Seq(Records),
   before : SUBSET Records, phase : {"busy", "done", "failed"}]

\* The types, and what goes with them: a line that is open is there, and an export that
\* is busy has a file to read.
TypeOK ==
  /\ file \in [Range(Kinds) -> LineFiles(Records)]
  /\ \A kind \in Range(Kinds) : file[kind].open => file[kind].lines # <<>>
  /\ writer \in [Writers -> Records \cup {NoRecord}]
  /\ DOMAIN reader = Readers
  /\ \A r \in Readers :
       /\ reader[r] \in {Idle} \cup ListJobs \cup ExportJobs
       /\ reader[r] \in ExportJobs /\ reader[r].phase = "busy" => reader[r].left # <<>>
  /\ answers \in [Lookups -> Records \cup {NoRecord}]
  /\ acknowledged \subseteq Records
  /\ built \in 0..MaxRecords
  /\ tears \in 0..MaxTears

InLedger(record) == record \in Range(file[record.recordKind].lines)

\* An append that returned is kept: a record disappears only by continuing, or being
\* continued by, a line that a torn append left open, so there are never more lost
\* records than torn appends, and without one every file can be read.
LossesAreTears ==
  /\ Cardinality({record \in acknowledged : ~ InLedger(record)}) <= tears
  /\ tears = 0 => \A kind \in Range(Kinds) : Parses(file[kind])

\* A reader that follows the cursors to the end while others append gets every record
\* of its query that was acknowledged before it began, none twice and in file order.
PagesMissNothing ==
  \A r \in Readers : (reader[r].job = "list" /\ reader[r].phase = "done") =>
    LET wanted == reader[r].query
        listed == Range(reader[r].pages)
    IN  /\ Cardinality(listed) = Len(reader[r].pages)
        /\ \A record \in reader[r].before :
             (/\ record.recordKind = wanted.recordKind
              /\ \A f \in DOMAIN wanted.given : FieldMatches(record, f, wanted.given[f]))
               => record \in listed

\* Policy records have no Capability.
Wants(export, record) ==
  /\ record.recordKind \in export.kinds
  /\ export.capability = {} \/ (record.recordKind # "policy"
                                  /\ record.capabilityId \in export.capability)

\* An export that reaches its limit has left out only later records: what was
\* acknowledged before it began and is not in it is not older than anything in it,
\* although the files are read one after the other while others append.
ExportIsOldest ==
  \A r \in Readers : (reader[r].job = "export" /\ reader[r].phase = "done") =>
    LET export == reader[r].export
        got    == Range(reader[r].records)
    IN  \A record \in reader[r].before :
          Wants(export, record) /\ record \notin got =>
            /\ Cardinality(got) = export.limit
            /\ \A other \in got : other.recordedAt <= record.recordedAt

\* Who asks again never hears of an older state: the time of the latest record does not
\* go back, although records reach the file in another order than that of their times,
\* and the record of a request stays the same.
LookupsNeverGoBack ==
  [][\A lookup \in Lookups : answers[lookup] # NoRecord =>
       /\ answers'[lookup] # NoRecord
       /\ lookup.recordKind = "invocation" => answers'[lookup] = answers[lookup]
       /\ lookup.recordKind # "invocation" =>
            answers'[lookup].recordedAt >= answers[lookup].recordedAt]_vars

=============================================================================
