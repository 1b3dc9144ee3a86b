-------------------------- MODULE LedgerStoreProofs --------------------------
(***************************************************************************)
(* For any number of writers, readers, records and torn appends: what an   *)
(* acknowledged record can be lost to, and that listings, exports and      *)
(* lookups miss nothing while others append.  (See LedgerStore.)           *)
(***************************************************************************)
EXTENDS LedgerStore, SequenceTheorems, FiniteSetTheorems, TLAPS

Policies == INSTANCE PolicyEvaluationProofs

-----------------------------------------------------------------------------
(* The inductive invariant.                                                 *)

KindSet == Range(Kinds)

\* The records that are anywhere: on a line, about to be appended, acknowledged, or
\* gathered by an export.
OnFile == (UNION {Range(file[kind].lines) : kind \in KindSet}) \ {Garbage}

Pending == {writer[w] : w \in Writers} \ {NoRecord}

Gathered == UNION {Range(reader[r].records) : r \in {q \in Readers : reader[q] \in ExportJobs}}

Seen == OnFile \cup Pending \cup acknowledged \cup Gathered

\* An id names one record, and the next one to be built has an id of its own.
UniqueIds ==
  /\ \A a \in Seen : a.recordId <= built
  /\ \A a, b \in Seen : a.recordId = b.recordId => a = b

\* A record is appended once, by the process that built it.
AppendedOnce ==
  \A w \in Writers : writer[w] # NoRecord =>
    /\ writer[w] \notin acknowledged \cup OnFile
    /\ \A v \in Writers : writer[v] = writer[w] => v = w

\* The lines of a file: none that is open was acknowledged, each is of the file's kind
\* and stands there once.
Lined(kind) ==
  LET lines == file[kind].lines
  IN  /\ file[kind].open => lines[Len(lines)] \notin acknowledged
      /\ \A k \in DOMAIN lines : lines[k] # Garbage =>
           /\ lines[k].recordKind = kind
           /\ \A j \in DOMAIN lines : lines[j] = lines[k] => j = k

Lost == {record \in acknowledged : ~ InLedger(record)}

OpenFiles == {kind \in KindSet : file[kind].open}

\* A torn append leaves a file open, and closing it may cost one record.
Tally ==
  /\ IsFiniteSet(acknowledged)
  /\ Cardinality(Lost) + Cardinality(OpenFiles) <= tears
  /\ tears = 0 => \A kind \in KindSet : Parses(file[kind])

\* What was lost left a line that no reader gets past.
Kept == \A record \in acknowledged : InLedger(record) \/ ~ Parses(file[record.recordKind])

\* A listing that goes on holds the first records of what it would find now.
Paged(r) ==
  reader[r] \in ListJobs /\ reader[r].phase = "busy" =>
    LET query   == reader[r].query
        listing == Listing(query.recordKind, query.given)
    IN  /\ reader[r].before \subseteq acknowledged
        /\ Parses(file[query.recordKind]) =>
             /\ reader[r].cursor <= Len(listing)
             /\ reader[r].pages = SubSeq(listing, 1, reader[r].cursor)

\* An export that goes on has gathered what it has to, but for the files it has not read.
Gathers(r) ==
  reader[r] \in ExportJobs /\ reader[r].phase = "busy" =>
    /\ reader[r].before \subseteq acknowledged
    /\ \A record \in reader[r].before : Wants(reader[r].export, record) =>
         record \in Range(reader[r].records) \/ record.recordKind \in Range(reader[r].left)

\* What was answered is still there to be answered.
Answers ==
  \A lookup \in Lookups : answers[lookup] # NoRecord /\ Parses(file[lookup.recordKind]) =>
    /\ answers[lookup] \in Range(Candidates(lookup))
    /\ lookup.recordKind = "invocation" => answers[lookup] = Candidates(lookup)[1]

IInv ==
  /\ TypeOK
  /\ UniqueIds
  /\ AppendedOnce
  /\ \A kind \in KindSet : Lined(kind)
  /\ Tally
  /\ Kept
  /\ \A r \in Readers : Paged(r) /\ Gathers(r)
  /\ PagesMissNothing
  /\ ExportIsOldest
  /\ Answers
-----------------------------------------------------------------------------
(* Filters.                                                                 *)

\* The pass of a filter over a sequence, as what it keeps after each entry.
IsPass(seq, set, kept) ==
  /\ kept[0] = <<>>
  /\ \A k \in 1..Len(seq) :
       kept[k] = IF seq[k] \in set THEN Append(kept[k - 1], seq[k]) ELSE kept[k - 1]

\* Among is what a pass keeps at its end, and every step of it is a sequence of entries.
LEMMA AmongPass ==
  ASSUME NEW T, NEW seq \in Seq(T), NEW set
  PROVE  \E kept \in [0..Len(seq) -> Seq(T)] :
           IsPass(seq, set, kept) /\ Among(seq, set) = kept[Len(seq)]
<1> DEFINE n    == Len(seq)
           S    == Seq(T)
           next(x, k) == IF seq[k] \in set THEN Append(x, seq[k]) ELSE x
           step == [x \in S \X (1..n) |-> next(x[1], x[2])]
           Pass(f) == f = [k \in 0..n |-> IF k = 0 THEN <<>>
                                          ELSE IF seq[k] \in set THEN Append(f[k - 1], seq[k])
                                               ELSE f[k - 1]]
           kept == CHOOSE f : Pass(f)
<1>1. n \in Nat /\ <<>> \in S
  OBVIOUS
<1>2. ASSUME NEW x \in S, NEW k \in 1..n
      PROVE  next(x, k) \in S
  BY <1>1, <1>2
<1>3. \E f : Pass(f)
  <2>1. Policies!IsStep(step, n, S)
    BY <1>2 DEF Policies!IsStep
  <2>2. PICK f : Policies!IsFold(f, n, S, <<>>, step)
    <3> HIDE DEF n, S, step
    <3>1. QED
      BY ONLY <1>1, <2>1, Policies!FoldExists
  <2>3. /\ f \in [0..n -> S] /\ f[0] = <<>>
        /\ \A k \in 1..n : f[k] = step[<<f[k - 1], k>>]
    BY <2>2 DEF Policies!IsFold
  <2>4. ASSUME NEW k \in 1..n
        PROVE  f[k] = next(f[k - 1], k)
    <3>1. k - 1 \in 0..n
      BY <1>1
    <3> HIDE DEF n, S, next
    <3>2. f[k - 1] \in S
      BY <2>3, <3>1
    <3>3. QED
      BY <2>3, <3>2
  <2>5. Pass(f)
    <3> HIDE DEF step, S
    <3>1. \A k \in 0..n : k # 0 => k \in 1..n
      BY <1>1
    <3>2. QED
      BY <2>3, <2>4, <3>1
  <2>6. QED
    BY <2>5
<1>4. Pass(kept)
  BY <1>3
<1>5. Among(seq, set) = kept[n]
  BY DEF Among
<1> HIDE DEF kept
<1>6. /\ kept[0] = <<>>
      /\ \A k \in 1..n : kept[k] = next(kept[k - 1], k)
  <2>1. 0 \in 0..n /\ \A k \in 1..n : k \in 0..n /\ k # 0
    BY <1>1
  <2> HIDE DEF n
  <2>2. kept[0] = <<>>
    BY <1>4, <2>1
  <2>3. ASSUME NEW k \in 1..n
        PROVE  kept[k] = next(kept[k - 1], k)
    BY <1>4, <2>1
  <2>4. QED
    BY <2>2, <2>3
<1>7. \A k \in 0..n : kept[k] \in S
  <2> DEFINE Good == {k \in 0..n : kept[k] \in S}
  <2>1. 0 \in Good
    <3>1. 0 \in 0..n
      BY <1>1
    <3> HIDE DEF S, n
    <3>2. QED
      BY <1>1, <1>6, <3>1
  <2>2. ASSUME NEW k \in 1..n, k - 1 \in Good
        PROVE  k \in Good
    <3>1. kept[k - 1] \in S
      BY <2>2
    <3>2. kept[k] \in S
      BY ONLY <1>2, <1>6, <3>1
    <3>3. QED
      BY <3>2
  <2> HIDE DEF Good
  <2>3. \A k \in 0..n : k \in Good
    BY ONLY <1>1, <2>1, <2>2, Policies!InductionUpTo
  <2> USE DEF Good
  <2>4. QED
    BY <2>3
<1>8. kept = [k \in 0..n |-> kept[k]]
  <2> HIDE DEF n
  <2>1. QED
    BY <1>4
<1>9. kept \in [0..n -> S]
  <2> HIDE DEF S, n
  <2>1. QED
    BY <1>7, <1>8
<1>10. IsPass(seq, set, kept)
  BY <1>6 DEF IsPass
<1>11. QED
  BY <1>5, <1>9, <1>10

\* What is kept from a sequence are its entries that are in the set, and one that stands
\* once in the sequence is kept once.
LEMMA AmongMembers ==
  ASSUME NEW T, NEW seq \in Seq(T), NEW set
  PROVE  /\ Among(seq, set) \in Seq(T)
         /\ Range(Among(seq, set)) = Range(seq) \cap set
         /\ (\A i, j \in DOMAIN seq : seq[i] \in set /\ seq[i] = seq[j] => i = j)
              => \A i, j \in DOMAIN Among(seq, set) :
                   Among(seq, set)[i] = Among(seq, set)[j] => i = j
<1> DEFINE n == Len(seq)
           Once == \A i, j \in DOMAIN seq : seq[i] \in set /\ seq[i] = seq[j] => i = j
           Holds(k, s) == /\ s \in Seq(T)
                          /\ Range(s) = {seq[j] : j \in 1..k} \cap set
                          /\ Once => \A i, j \in DOMAIN s : s[i] = s[j] => i = j
<1>1. n \in Nat /\ DOMAIN seq = 1..n
  OBVIOUS
<1>2. PICK kept \in [0..n -> Seq(T)] : IsPass(seq, set, kept) /\ Among(seq, set) = kept[n]
  BY AmongPass
<1> DEFINE Good == {k \in 0..n : Holds(k, kept[k])}
<1>3. 0 \in Good
  <2>1. kept[0] = <<>>
    BY <1>2 DEF IsPass
  <2>2. Holds(0, <<>>)
    BY DEF Range
  <2>3. QED
    BY <1>1, <2>1, <2>2
<1>4. ASSUME NEW k \in 1..n, k - 1 \in Good
      PROVE  k \in Good
  <2> DEFINE s == kept[k - 1]
             m == Len(s)
  <2>1. Holds(k - 1, s)
    BY <1>4
  <2>2. /\ kept[k] = IF seq[k] \in set THEN Append(s, seq[k]) ELSE s
        /\ k \in 0..n
    BY <1>1, <1>2 DEF IsPass
  <2>3. {seq[j] : j \in 1..k} = {seq[j] : j \in 1..(k - 1)} \cup {seq[k]}
    BY <1>1
  <2> HIDE DEF s
  <2>4. CASE seq[k] \notin set
    <3>1. kept[k] = s
      BY <2>2, <2>4
    <3>2. Holds(k, s)
      BY <2>1, <2>3, <2>4
    <3>3. QED
      BY <2>2, <3>1, <3>2
  <2>5. CASE seq[k] \in set
    <3> DEFINE t == Append(s, seq[k])
    <3>1. s \in Seq(T) /\ seq[k] \in T /\ m \in Nat /\ DOMAIN s = 1..m
      BY <1>1, <2>1
    <3>2. /\ t \in Seq(T) /\ DOMAIN t = 1..(m + 1)
          /\ t[m + 1] = seq[k]
          /\ \A i \in 1..m : t[i] = s[i]
      BY <3>1
    <3>3. Range(t) = Range(s) \cup {seq[k]}
      <4>1. \A i \in 1..(m + 1) : i \in 1..m \/ i = m + 1
        BY <3>1
      <4>2. 1..m \subseteq 1..(m + 1) /\ m + 1 \in 1..(m + 1)
        BY <3>1
      <4> HIDE DEF t, m
      <4>3. QED
        BY <3>1, <3>2, <4>1, <4>2 DEF Range
    <3>4. Range(t) = {seq[j] : j \in 1..k} \cap set
      <4> HIDE DEF t
      <4>1. QED
        BY <2>1, <2>3, <2>5, <3>3
    <3>5. ASSUME Once, NEW i \in 1..m
          PROVE  s[i] # seq[k]
      <4>1. s[i] \in Range(s)
        BY <3>1 DEF Range
      <4>2. PICK j \in 1..(k - 1) : s[i] = seq[j]
        BY <2>1, <4>1
      <4>3. j \in 1..n /\ k \in 1..n /\ j # k
        BY <1>1
      <4>4. s[i] \in set
        BY <2>1, <4>1
      <4>5. QED
        BY <1>1, <3>5, <4>2, <4>3, <4>4
    <3>6. ASSUME Once, NEW i \in 1..(m + 1), NEW j \in 1..(m + 1), t[i] = t[j]
          PROVE  i = j
      <4>1. (i \in 1..m \/ i = m + 1) /\ (j \in 1..m \/ j = m + 1)
        BY <3>1
      <4> HIDE DEF t, m
      <4>2. QED
        BY <2>1, <3>1, <3>2, <3>5, <3>6, <4>1
    <3>7. Holds(k, t)
      <4> HIDE DEF t, Once
      <4>1. QED
        BY <3>2, <3>4, <3>6
    <3>8. QED
      BY <2>2, <2>5, <3>7
  <2>6. QED
    BY <2>4, <2>5
<1> HIDE DEF Good
<1>5. \A k \in 0..n : k \in Good
  BY ONLY <1>1, <1>3, <1>4, Policies!InductionUpTo
<1> USE DEF Good
<1>6. Holds(n, Among(seq, set))
  BY <1>1, <1>2, <1>5
<1>7. Range(seq) = {seq[j] : j \in 1..n}
  BY <1>1 DEF Range
<1>8. QED
  BY <1>6, <1>7

\* An entry more in the sequence is at most one more kept.
LEMMA AmongAppend ==
  ASSUME NEW T, NEW seq \in Seq(T), NEW e \in T, NEW set
  PROVE  Among(Append(seq, e), set) =
           IF e \in set THEN Append(Among(seq, set), e) ELSE Among(seq, set)
<1> DEFINE n    == Len(seq)
           long == Append(seq, e)
<1>1. /\ n \in Nat /\ long \in Seq(T) /\ Len(long) = n + 1
      /\ long[n + 1] = e
      /\ \A k \in 1..n : long[k] = seq[k]
  OBVIOUS
<1>2. PICK kept \in [0..n -> Seq(T)] : IsPass(seq, set, kept) /\ Among(seq, set) = kept[n]
  BY AmongPass
<1> HIDE DEF long, n
<1>3. PICK more \in [0..Len(long) -> Seq(T)] :
        IsPass(long, set, more) /\ Among(long, set) = more[Len(long)]
  BY ONLY <1>1, AmongPass
<1> DEFINE Good == {k \in 0..n : more[k] = kept[k]}
<1>4. 0 \in Good
  BY <1>1, <1>2, <1>3 DEF IsPass
<1>5. ASSUME NEW k \in 1..n, k - 1 \in Good
      PROVE  k \in Good
  <2>1. k \in 1..(n + 1) /\ k \in 0..n /\ long[k] = seq[k] /\ more[k - 1] = kept[k - 1]
    BY <1>1, <1>5
  <2>2. more[k] = IF long[k] \in set THEN Append(more[k - 1], long[k]) ELSE more[k - 1]
    BY <1>1, <1>3, <2>1 DEF IsPass
  <2>3. kept[k] = IF seq[k] \in set THEN Append(kept[k - 1], seq[k]) ELSE kept[k - 1]
    BY <1>2 DEF IsPass, n
  <2>4. more[k] = kept[k]
    BY ONLY <2>1, <2>2, <2>3
  <2>5. QED
    BY <2>1, <2>4
<1> HIDE DEF Good
<1>6. \A k \in 0..n : k \in Good
  BY ONLY <1>1, <1>4, <1>5, Policies!InductionUpTo
<1> USE DEF Good
<1>7. more[n] = kept[n]
  BY <1>1, <1>6
<1>8. n + 1 \in 1..(n + 1) /\ (n + 1) - 1 = n
  BY <1>1
<1>9. more[n + 1] = IF e \in set THEN Append(more[n], e) ELSE more[n]
  BY <1>1, <1>3, <1>8 DEF IsPass
<1>10. Among(long, set) = more[n + 1] /\ Among(seq, set) = kept[n]
  BY <1>1, <1>2, <1>3
<1>11. Among(long, set) = IF e \in set THEN Append(Among(seq, set), e) ELSE Among(seq, set)
  BY ONLY <1>7, <1>9, <1>10
<1>12. QED
  BY <1>11 DEF long

-----------------------------------------------------------------------------
(* Records and their order.                                                 *)

\* A record has the fields every query relies on, and is neither of the other values.
LEMMA RecordValues ==
  ASSUME NEW record \in Records
  PROVE  /\ record.recordId \in 1..MaxRecords
         /\ record.recordedAt \in Nat
         /\ record.recordKind \in Range(Kinds)
         /\ record # Garbage /\ record # NoRecord
<1>1. PICK draft \in Drafts, id \in 1..MaxRecords, t \in Times : record = Stamped(draft, id, t)
  BY DEF Records
<1>2. /\ "recordKind" \in DOMAIN draft /\ draft.recordKind \in Range(Kinds)
      /\ t \in Nat
  BY LedgerStoreAssumption
<1>3. /\ DOMAIN record = DOMAIN draft \cup {"recordId", "recordedAt"}
      /\ record.recordId = id /\ record.recordedAt = t
      /\ record.recordKind = draft.recordKind
  BY <1>1, <1>2 DEF Stamped
<1>4. DOMAIN Garbage = {"torn"} /\ DOMAIN NoRecord = {"recordId"}
  BY DEF Garbage, NoRecord
<1>5. QED
  BY <1>2, <1>3, <1>4

\* What a caller builds is a record with its id.
LEMMA StampedRecord ==
  ASSUME NEW draft \in Drafts, NEW id \in 1..MaxRecords, NEW t \in Times
  PROVE  Stamped(draft, id, t) \in Records /\ Stamped(draft, id, t).recordId = id
BY DEF Records, Stamped

\* A finite set of records that their ids tell apart.
Sortable(S) ==
  /\ S \subseteq Records
  /\ IsFiniteSet(S)
  /\ \A a, b \in S : a.recordId = b.recordId => a = b

Below(S, record) == {other \in S : Precedes(other, record)}

\* Of two records one precedes the other, and has fewer records below it.
LEMMA BelowGrows ==
  ASSUME NEW S, Sortable(S), NEW a \in S, NEW b \in S
  PROVE  /\ Cardinality(Below(S, a)) \in 0..(Cardinality(S) - 1)
         /\ a # b => Precedes(a, b) \/ Precedes(b, a)
         /\ Precedes(a, b) => Cardinality(Below(S, a)) < Cardinality(Below(S, b))
<1>1. \A r \in S : r.recordId \in Nat /\ r.recordedAt \in Nat
  BY RecordValues DEF Sortable
<1>2. IsFiniteSet(S) /\ Cardinality(S) \in Nat
  BY FS_CardinalityType DEF Sortable
<1>3. ASSUME NEW r \in S
      PROVE  /\ IsFiniteSet(Below(S, r)) /\ Cardinality(Below(S, r)) \in Nat
             /\ r \notin Below(S, r) /\ Below(S, r) \subseteq S
  <2>1. Below(S, r) \in SUBSET S /\ r \notin Below(S, r)
    BY <1>1 DEF Below, Precedes
  <2>2. IsFiniteSet(Below(S, r))
    BY <1>2, <2>1, FS_Subset
  <2>3. QED
    BY <2>1, <2>2, FS_CardinalityType
<1>4. Cardinality(Below(S, a)) \in 0..(Cardinality(S) - 1)
  <2>1. Below(S, a) \in SUBSET S /\ Below(S, a) # S
    BY <1>3
  <2>2. /\ Cardinality(Below(S, a)) <= Cardinality(S)
        /\ Cardinality(Below(S, a)) # Cardinality(S)
    BY <1>2, <2>1, FS_Subset
  <2>3. QED
    BY <1>2, <1>3, <2>2
<1>5. a # b => Precedes(a, b) \/ Precedes(b, a)
  <2>1. a # b => a.recordId # b.recordId
    BY DEF Sortable
  <2>2. QED
    BY <1>1, <2>1 DEF Precedes
<1>6. ASSUME Precedes(a, b)
      PROVE  Cardinality(Below(S, a)) < Cardinality(Below(S, b))
  <2>1. Below(S, a) \in SUBSET Below(S, b)
    BY <1>1, <1>6 DEF Below, Precedes
  <2>2. a \in Below(S, b) /\ a \notin Below(S, a)
    BY <1>3, <1>6 DEF Below
  <2>3. /\ Cardinality(Below(S, a)) <= Cardinality(Below(S, b))
        /\ Cardinality(Below(S, a)) # Cardinality(Below(S, b))
    BY <1>3, <2>1, <2>2, FS_Subset
  <2>4. QED
    BY <1>3, <2>3
<1>7. QED
  BY <1>4, <1>5, <1>6

\* Every place in the order is that of one record.
LEMMA EveryPlaceIsTaken ==
  ASSUME NEW S, Sortable(S), NEW k \in 1..Cardinality(S)
  PROVE  \E record \in S : Cardinality(Below(S, record)) = k - 1
<1> DEFINE n     == Cardinality(S)
           Place == [record \in S |-> Cardinality(Below(S, record))]
<1>1. IsFiniteSet(S) /\ n \in Nat
  BY FS_CardinalityType DEF Sortable
<1>2. Place \in [S -> 0..(n - 1)]
  BY BelowGrows
<1>3. ASSUME NEW a \in S, NEW b \in S, a # b
      PROVE  Place[a] # Place[b]
  <2>1. Precedes(a, b) \/ Precedes(b, a)
    BY <1>3, BelowGrows
  <2>2. /\ Place[a] \in Int /\ Place[b] \in Int
        /\ Place[a] < Place[b] \/ Place[b] < Place[a]
    BY <1>2, <2>1, BelowGrows
  <2>3. QED
    BY <2>2
<1>4. Place \in Injection(S, 0..(n - 1))
  <2> HIDE DEF Place
  <2>1. QED
    BY <1>2, <1>3 DEF Injection, IsInjective
<1>5. IsFiniteSet(0..(n - 1)) /\ Cardinality(0..(n - 1)) = n
  <2> HIDE DEF n
  <2>1. 0 \in Int /\ n - 1 \in Int
    BY <1>1
  <2>2. /\ IsFiniteSet(0..(n - 1))
        /\ Cardinality(0..(n - 1)) = IF 0 > n - 1 THEN 0 ELSE (n - 1) - 0 + 1
    BY ONLY <2>1, FS_Interval
  <2>3. QED
    BY <1>1, <2>2
<1>6. Place \in Surjection(S, 0..(n - 1))
  <2> HIDE DEF Place, n
  <2>1. Cardinality(S) = n
    BY DEF n
  <2>2. QED
    BY <1>4, <1>5, <2>1, FS_Injection
<1>7. k - 1 \in 0..(n - 1)
  BY <1>1
<1>8. \E record \in S : Place[record] = k - 1
  <2> HIDE DEF Place, n
  <2>1. QED
    BY <1>6, <1>7 DEF Surjection
<1>9. QED
  BY <1>8

\* Sorting lists every record once, at the place of the records below it.
LEMMA InOrderSorts ==
  ASSUME NEW S, Sortable(S)
  PROVE  /\ InOrder(S) \in Seq(S)
         /\ Len(InOrder(S)) = Cardinality(S)
         /\ \A k \in 1..Cardinality(S) : Cardinality(Below(S, InOrder(S)[k])) = k - 1
<1> DEFINE n == Cardinality(S)
<1>1. n \in Nat
  BY FS_CardinalityType DEF Sortable
<1>2. ASSUME NEW k \in 1..n
      PROVE  InOrder(S)[k] \in S /\ Cardinality(Below(S, InOrder(S)[k])) = k - 1
  <2>1. \E record \in S : Cardinality(Below(S, record)) = k - 1
    BY EveryPlaceIsTaken
  <2>2. InOrder(S)[k] = CHOOSE record \in S : Cardinality(Below(S, record)) = k - 1
    BY DEF InOrder, Below
  <2>3. QED
    BY ONLY <2>1, <2>2
<1>3. DOMAIN InOrder(S) = 1..n /\ InOrder(S) = [k \in 1..n |-> InOrder(S)[k]]
  BY DEF InOrder
<1>4. InOrder(S) \in [1..n -> S]
  <2> DEFINE s == InOrder(S)
  <2> HIDE DEF s, n
  <2>1. QED
    BY <1>2, <1>3 DEF s
<1>5. InOrder(S) \in Seq(S) /\ Len(InOrder(S)) = n
  BY <1>1, <1>4
<1>6. QED
  BY <1>2, <1>5

\* A slice holds the first entries, all of them or as many as its limit.
LEMMA SliceOfSequence ==
  ASSUME NEW T, NEW seq \in Seq(T), NEW limit \in Nat \ {0}
  PROVE  \E m \in 0..Len(seq) :
           /\ m = Len(seq) \/ m = limit
           /\ m <= limit
           /\ Slice(seq, limit) \in Seq(T)
           /\ Len(Slice(seq, limit)) = m
           /\ \A k \in 1..m : Slice(seq, limit)[k] = seq[k]
<1> DEFINE m == IF limit < Len(seq) THEN limit ELSE Len(seq)
<1>1. /\ Len(seq) \in Nat /\ m \in 0..Len(seq) /\ (m = Len(seq) \/ m = limit) /\ m <= limit
      /\ \A k \in 1..m : seq[k] \in T
  OBVIOUS
<1>2. Slice(seq, limit) = SubSeq(seq, 1, m)
  BY DEF Slice
<1> HIDE DEF m
<1>3. /\ SubSeq(seq, 1, m) \in Seq(T)
      /\ Len(SubSeq(seq, 1, m)) = m
      /\ \A k \in 1..m : SubSeq(seq, 1, m)[k] = seq[k]
  BY <1>1
<1>4. QED
  BY <1>1, <1>2, <1>3

\* What an export prints are gathered records, and one that it leaves out is not older
\* than any of a full export.
LEMMA ExportedAreOldest ==
  ASSUME NEW records \in Seq(Records), Sortable(Range(records)), NEW limit \in Nat \ {0}
  PROVE  /\ Exported(records, limit) \in Seq(Records)
         /\ Range(Exported(records, limit)) \subseteq Range(records)
         /\ \A record \in Range(records) \ Range(Exported(records, limit)) :
              /\ Cardinality(Range(Exported(records, limit))) = limit
              /\ \A other \in Range(Exported(records, limit)) :
                   other.recordedAt <= record.recordedAt
<1> DEFINE S == Range(records)
           n == Cardinality(S)
           s == InOrder(S)
           e == Exported(records, limit)
<1>1. /\ s \in Seq(S) /\ Len(s) = n /\ n \in Nat
      /\ \A k \in 1..n : Cardinality(Below(S, s[k])) = k - 1
  BY InOrderSorts, FS_CardinalityType DEF Sortable
<1>2. e = Slice(s, limit)
  BY DEF Exported
<1> HIDE DEF s, e, n, S
<1>3. PICK m \in 0..n : /\ m = n \/ m = limit
                        /\ m <= limit
                        /\ e \in Seq(S)
                        /\ Len(e) = m
                        /\ \A k \in 1..m : e[k] = s[k]
  <2>1. PICK m \in 0..Len(s) : /\ m = Len(s) \/ m = limit
                               /\ m <= limit
                               /\ Slice(s, limit) \in Seq(S)
                               /\ Len(Slice(s, limit)) = m
                               /\ \A k \in 1..m : Slice(s, limit)[k] = s[k]
    BY ONLY <1>1, limit \in Nat \ {0}, SliceOfSequence
  <2>2. QED
    BY ONLY <1>1, <1>2, <2>1
<1>4. DOMAIN e = 1..m /\ \A k \in 1..m : k \in 1..n /\ e[k] \in S
  BY <1>1, <1>3
<1>5. Sortable(S) /\ S \subseteq Records
  BY DEF S, Sortable
<1>6. e \in Seq(Records) /\ Range(e) \subseteq S
  BY <1>3, <1>4, <1>5 DEF Range
<1>7. ASSUME NEW record \in S, record \notin Range(e)
      PROVE  /\ Cardinality(Range(e)) = limit
             /\ \A other \in Range(e) : other.recordedAt <= record.recordedAt
  <2>1. \A k \in 1..m : e[k] # record /\ Cardinality(Below(S, e[k])) = k - 1
    BY <1>1, <1>3, <1>4, <1>7 DEF Range
  <2> DEFINE place == Cardinality(Below(S, record))
  <2>2. place \in 0..(n - 1)
    BY <1>5, BelowGrows DEF n
  <2>3. m <= place
    <3>1. SUFFICES ASSUME place < m PROVE FALSE
      BY <1>3, <2>2
    <3>2. place + 1 \in 1..m /\ (place + 1) - 1 = place
      BY <1>3, <2>2, <3>1
    <3>3. e[place + 1] \in S /\ e[place + 1] # record
      BY <1>4, <2>1, <3>2
    <3>4. Cardinality(Below(S, e[place + 1])) = place
      BY <2>1, <3>2
    <3>5. Precedes(record, e[place + 1]) \/ Precedes(e[place + 1], record)
      BY <1>5, <3>3, BelowGrows
    <3>6. QED
      BY <1>5, <2>2, <3>3, <3>4, <3>5, BelowGrows
  <2>4. m = limit
    BY <1>3, <2>2, <2>3
  <2>5. Cardinality(Range(e)) = m
    <3>1. \A i, j \in 1..m : i # j => e[i] # e[j]
      BY <2>1
    <3>2. e \in Injection(1..m, Range(e)) /\ e \in Surjection(1..m, Range(e))
      BY <1>3, <1>4, <3>1 DEF Injection, IsInjective, Surjection, Range
    <3>3. IsFiniteSet(1..m) /\ Cardinality(1..m) = m
      BY <1>3, FS_Interval
    <3>4. QED
      BY <3>2, <3>3, FS_Surjection
  <2>6. ASSUME NEW k \in 1..m
        PROVE  e[k].recordedAt <= record.recordedAt
    <3>1. e[k] \in S /\ e[k] # record /\ Cardinality(Below(S, e[k])) = k - 1
      BY <1>4, <2>1
    <3>2. ~ Precedes(record, e[k])
      <4>1. Precedes(record, e[k]) => place < k - 1
        BY <1>5, <3>1, BelowGrows
      <4>2. k - 1 < m
        BY <1>3
      <4> HIDE DEF place
      <4>3. QED
        BY <1>3, <2>2, <2>3, <4>1, <4>2
    <3>3. Precedes(e[k], record)
      BY <1>5, <3>1, <3>2, BelowGrows
    <3>4. e[k].recordedAt \in Nat /\ record.recordedAt \in Nat
      BY <1>5, <3>1, RecordValues
    <3>5. QED
      BY <3>3, <3>4 DEF Precedes
  <2>7. QED
    BY <1>4, <2>4, <2>5, <2>6 DEF Range
<1>8. QED
  BY <1>6, <1>7 DEF e, S

\* The latest record is one of those given, and none of them is later.
LEMMA LatestIsLatest ==
  ASSUME NEW records \in Seq(Records), records # <<>>
  PROVE  /\ LatestByRecordedAt(records) \in Range(records)
         /\ \A other \in Range(records) :
              other.recordedAt <= LatestByRecordedAt(records).recordedAt
<1> DEFINE n == Len(records)
           Later(k, j) == \/ records[j].recordedAt < records[k].recordedAt
                          \/ records[j].recordedAt = records[k].recordedAt /\ j <= k
           Good == {m \in 0..n : m = 0 \/ \E k \in 1..m : \A j \in 1..m : Later(k, j)}
<1>1. /\ n \in Nat /\ n # 0 /\ DOMAIN records = 1..n
      /\ \A k \in 1..n : records[k] \in Records /\ records[k].recordedAt \in Nat
  BY RecordValues
<1>2. 0 \in Good
  BY <1>1
<1>3. ASSUME NEW m \in 1..n, m - 1 \in Good
      PROVE  m \in Good
  <2>1. m \in 1..m /\ \A j \in 1..m : j \in 1..(m - 1) \/ j = m
    BY <1>1
  <2>2. Later(m, m)
    BY <1>1
  <2>3. CASE m - 1 = 0
    <3>1. \A j \in 1..m : Later(m, j)
      BY <1>1, <2>1, <2>2, <2>3
    <3>2. QED
      BY <1>1, <2>1, <3>1
  <2>4. CASE m - 1 # 0
    <3>1. PICK k \in 1..(m - 1) : \A j \in 1..(m - 1) : Later(k, j)
      BY <1>3, <2>4
    <3>2. k \in 1..m /\ k \in 1..n /\ m \in 1..n /\ k <= m
      BY <1>1
    <3>3. CASE records[m].recordedAt < records[k].recordedAt
      <4>1. \A j \in 1..m : Later(k, j)
        BY <2>1, <3>1, <3>3
      <4>2. QED
        BY <1>1, <3>2, <4>1
    <3>4. CASE ~ (records[m].recordedAt < records[k].recordedAt)
      <4>1. ASSUME NEW j \in 1..(m - 1)
            PROVE  Later(m, j)
        <5>1. j \in 1..n /\ j <= m
          BY <1>1
        <5>2. Later(k, j)
          BY <3>1
        <5>3. QED
          BY <1>1, <3>2, <3>4, <5>1, <5>2
      <4>2. \A j \in 1..m : Later(m, j)
        BY <2>1, <2>2, <4>1
      <4>3. QED
        BY <1>1, <2>1, <4>2
    <3>5. QED
      BY <3>3, <3>4
  <2>5. QED
    BY <2>3, <2>4
<1>4. \E k \in DOMAIN records : \A j \in DOMAIN records : Later(k, j)
  <2> HIDE DEF Good
  <2>1. \A m \in 0..n : m \in Good
    BY ONLY <1>1, <1>2, <1>3, Policies!InductionUpTo
  <2>2. n \in Good
    BY <1>1, <2>1
  <2> USE DEF Good
  <2>3. QED
    BY <1>1, <2>2
<1> DEFINE last == CHOOSE k \in DOMAIN records : \A j \in DOMAIN records : Later(k, j)
<1>5. last \in DOMAIN records /\ \A j \in DOMAIN records : Later(last, j)
  BY <1>4
<1>6. LatestByRecordedAt(records) = records[last]
  BY DEF LatestByRecordedAt
<1> HIDE DEF last
<1>7. \A j \in DOMAIN records : records[j].recordedAt <= records[last].recordedAt
  BY <1>1, <1>5
<1>8. QED
  BY <1>5, <1>6, <1>7 DEF Range

-----------------------------------------------------------------------------
(* Files.                                                                   *)

Line == Records \cup {Garbage}

\* What arrives is on the file's last line, unless it spoiled the open line it went on;
\* a file that parses afterwards parsed before and has one record more.
LEMMA ArrivesLines ==
  ASSUME NEW f \in LineFiles(Records), f.open => f.lines # <<>>,
         NEW line \in Line, NEW open \in BOOLEAN
  PROVE  LET new == Arrives(f, line, open)
             n   == Len(f.lines)
         IN  /\ new \in LineFiles(Records) /\ new.open = open /\ new.lines # <<>>
             /\ ~ f.open => /\ new.lines = Append(f.lines, line)
                            /\ Len(new.lines) = n + 1 /\ new.lines[n + 1] = line
                            /\ \A k \in 1..n : new.lines[k] = f.lines[k]
             /\ f.open => /\ n \in 1..n
                          /\ Len(new.lines) = n /\ new.lines[n] = Garbage
                          /\ \A k \in 1..n : k # n => new.lines[k] = f.lines[k]
             /\ Parses(new) => Parses(f) /\ ~ f.open /\ line \in Records
<1> DEFINE new == Arrives(f, line, open)
           n   == Len(f.lines)
<1>1. /\ f.lines \in Seq(Line)
      /\ n \in Nat
      /\ DOMAIN f.lines = 1..n
  BY DEF LineFiles, Line
<1>2. new.open = open /\ new = [lines |-> new.lines, open |-> open]
  BY DEF Arrives
<1>3. CASE f.open
  <2>1. new.lines = [f.lines EXCEPT ![n] = Garbage]
    BY <1>3 DEF Arrives
  <2>2. n \in 1..n
    BY <1>1, <1>3
  <2>3. Garbage \in Line
    BY DEF Line
  <2>4. /\ new.lines[n] = Garbage /\ DOMAIN new.lines = 1..n
        /\ new.lines \in Seq(Line) /\ new.lines # <<>> /\ Len(new.lines) = n
        /\ \A k \in 1..n : k # n => new.lines[k] = f.lines[k]
    BY <1>1, <2>1, <2>2, <2>3
  <2>5. ~ Parses(new)
    BY <2>2, <2>4 DEF Parses
  <2>6. new \in LineFiles(Records)
    BY <1>2, <2>4 DEF LineFiles, Line
  <2> QED BY <1>2, <1>3, <2>2, <2>4, <2>5, <2>6
<1>4. CASE ~ f.open
  <2>1. new.lines = Append(f.lines, line)
    BY <1>4 DEF Arrives
  <2>2. /\ new.lines \in Seq(Line)
        /\ DOMAIN new.lines = 1..(n + 1) /\ Len(new.lines) = n + 1
        /\ new.lines[n + 1] = line
        /\ \A k \in 1..n : new.lines[k] = f.lines[k]
    BY <1>1, <2>1
  <2>3. new.lines # <<>>
    BY <1>1, <2>2
  <2>4. Parses(new) => Parses(f) /\ line \in Records
    <3>1. n + 1 \in 1..(n + 1) /\ \A k \in 1..n : k \in 1..(n + 1)
      BY <1>1
    <3>2. QED
      BY <1>1, <2>2, <3>1 DEF Parses, Line
  <2>5. new \in LineFiles(Records)
    BY <1>2, <2>2 DEF LineFiles, Line
  <2> QED BY <1>2, <1>4, <2>1, <2>2, <2>3, <2>4, <2>5
<1> QED BY <1>3, <1>4

\* A line of a writer arrives at the file of its record.
Writes(w, line, open) ==
  /\ writer[w] # NoRecord
  /\ line \in {Garbage, writer[w]}
  /\ file' = [file EXCEPT ![writer[w].recordKind] = Arrives(@, line, open)]
  /\ writer' = [writer EXCEPT ![w] = NoRecord]
  /\ UNCHANGED <<reader, answers, built>>

\* An append writes its record.
LEMMA AppendWrites ==
  ASSUME NEW w \in Writers, AppendRecord(w)
  PROVE  /\ Writes(w, writer[w], FALSE)
         /\ acknowledged' = acknowledged \cup {writer[w]}
         /\ tears' = tears
BY DEF AppendRecord, Writes, AppendLine, Ends

\* An append that is torn writes its record or what nobody can read.
LEMMA TornWrites ==
  ASSUME NEW w \in Writers, AppendTorn(w)
  PROVE  /\ \E line \in {Garbage, writer[w]} : Writes(w, line, TRUE)
         /\ acknowledged' = acknowledged
         /\ tears < MaxTears /\ tears' = tears + 1
BY DEF AppendTorn, Writes, TornAppends, Ends

\* A write changes the file of its record's kind only.
LEMMA WriteTypes ==
  ASSUME TypeOK, NEW w \in Writers, NEW line, NEW open \in BOOLEAN, Writes(w, line, open)
  PROVE  LET kind == writer[w].recordKind
         IN  /\ writer[w] \in Records /\ kind \in KindSet /\ line \in Line
             /\ file[kind] \in LineFiles(Records)
             /\ file[kind].open => file[kind].lines # <<>>
             /\ file'[kind] = Arrives(file[kind], line, open)
             /\ \A other \in KindSet \ {kind} : file'[other] = file[other]
             /\ file' \in [KindSet -> LineFiles(Records)]
             /\ \A k \in KindSet : file'[k].open => file'[k].lines # <<>>
<1> DEFINE kind == writer[w].recordKind
<1>1. writer[w] \in Records /\ kind \in KindSet
  BY RecordValues DEF TypeOK, Writes, KindSet
<1>2. line \in Line
  BY <1>1 DEF Line, Writes
<1>3. /\ file \in [KindSet -> LineFiles(Records)]
      /\ \A k \in KindSet : file[k].open => file[k].lines # <<>>
  BY DEF TypeOK, KindSet
<1> HIDE DEF kind
<1>4. file' = [file EXCEPT ![kind] = Arrives(file[kind], line, open)]
  BY DEF Writes, kind
<1>5. Arrives(file[kind], line, open) \in LineFiles(Records) /\ Arrives(file[kind], line, open).lines # <<>>
  BY <1>1, <1>2, <1>3, ArrivesLines
<1>6. QED
  BY <1>1, <1>2, <1>3, <1>4, <1>5 DEF kind

\* Nothing but a write touches a file.
LEMMA OnlyWritesTouchFiles ==
  ASSUME TypeOK, [Next]_vars
  PROVE  \/ file' = file
         \/ \E w \in Writers, open \in BOOLEAN : \E line \in {Garbage, writer[w]} :
              Writes(w, line, open)
<1>1. CASE UNCHANGED vars
  BY <1>1 DEF vars
<1>2. ASSUME NEW w \in Writers, AppendRecord(w)
      PROVE  \E open \in BOOLEAN : Writes(w, writer[w], open)
  BY <1>2, AppendWrites
<1>3. ASSUME NEW w \in Writers, AppendTorn(w)
      PROVE  \E open \in BOOLEAN : \E line \in {Garbage, writer[w]} : Writes(w, line, open)
  BY <1>3, TornWrites
<1>4. ASSUME NEW w \in Writers, Build(w) \/ Refuse(w) \/ AppendFails(w)
      PROVE  file' = file
  BY <1>4 DEF Build, Refuse, AppendFails
<1>5. ASSUME NEW lookup \in Lookups, LookUp(lookup)
      PROVE  file' = file
  BY <1>5 DEF LookUp
<1>6. ASSUME NEW r \in Readers,
             BeginListing(r) \/ ReadPage(r) \/ BeginExport(r) \/ ExportFile(r) \/ ReadThrows(r)
      PROVE  file' = file
  BY <1>6 DEF BeginListing, ReadPage, BeginExport, ExportFile, ReadThrows
<1>7. QED
  BY <1>1, <1>2, <1>3, <1>4, <1>5, <1>6 DEF Next

\* A file that parses after a step parsed before it, and what a filter finds in it is what
\* it found, or one record more at the end.
LEMMA FilesGrow ==
  ASSUME TypeOK, [Next]_vars, NEW kind \in KindSet, Parses(file'[kind]), NEW set
  PROVE  LET old == Among(file[kind].lines, set)
             new == Among(file'[kind].lines, set)
         IN  /\ Parses(file[kind])
             /\ old \in Seq(Line)
             /\ \/ new = old
                \/ \E e \in Line : new = Append(old, e)
<1>1. file[kind] \in LineFiles(Records) /\ file[kind].lines \in Seq(Line)
  BY DEF TypeOK, KindSet, LineFiles, Line
<1>2. Among(file[kind].lines, set) \in Seq(Line)
  BY <1>1, AmongMembers
<1>3. CASE file'[kind] = file[kind]
  BY <1>2, <1>3
<1>4. CASE file'[kind] # file[kind]
  <2>1. PICK w \in Writers, open \in BOOLEAN : \E line \in {Garbage, writer[w]} :
          Writes(w, line, open)
    BY <1>4, OnlyWritesTouchFiles
  <2>2. PICK line \in {Garbage, writer[w]} : Writes(w, line, open)
    BY <2>1
  <2>3. /\ line \in Line
        /\ file[kind].open => file[kind].lines # <<>>
        /\ file'[kind] = Arrives(file[kind], line, open)
    BY <1>4, <2>2, WriteTypes
  <2>4. /\ Parses(file[kind]) /\ ~ file[kind].open
        /\ file'[kind].lines = Append(file[kind].lines, line)
    BY <1>1, <2>3, ArrivesLines
  <2>5. \/ Among(file'[kind].lines, set) = Among(file[kind].lines, set)
        \/ Among(file'[kind].lines, set) = Append(Among(file[kind].lines, set), line)
    BY <1>1, <2>3, <2>4, AmongAppend
  <2>6. QED
    BY <1>2, <2>3, <2>4, <2>5
<1>5. QED
  BY <1>3, <1>4

-----------------------------------------------------------------------------
(* What readers do.                                                         *)

\* A job tells by its name which kind of job it is.
LEMMA JobsByName ==
  ASSUME TypeOK, NEW r \in Readers
  PROVE  /\ reader[r].job = "list" <=> reader[r] \in ListJobs
         /\ reader[r].job = "export" <=> reader[r] \in ExportJobs
         /\ reader[r] # Idle => reader[r] \in ListJobs \cup ExportJobs
         /\ ~ (reader[r] \in ListJobs /\ reader[r] \in ExportJobs)
         /\ reader[r] \in ListJobs => reader[r] # Idle
         /\ reader[r] \in ExportJobs => reader[r] # Idle
<1>1. reader[r] \in {Idle} \cup ListJobs \cup ExportJobs
  BY DEF TypeOK
<1>2. Idle.job = "idle"
  BY DEF Idle
<1>3. QED
  BY <1>1, <1>2 DEF ListJobs, ExportJobs

\* What a query finds are the records of its file that match.
LEMMA ListingTypes ==
  ASSUME TypeOK, NEW kind \in KindSet, NEW given
  PROVE  /\ Listing(kind, given) \in Seq(Records)
         /\ Range(Listing(kind, given)) = Range(file[kind].lines) \cap Matching(kind, given)
         /\ Range(Listing(kind, given)) \subseteq OnFile
<1>1. file[kind].lines \in Seq(Line)
  BY DEF TypeOK, KindSet, LineFiles, Line
<1>2. /\ Listing(kind, given) \in Seq(Line)
      /\ Range(Listing(kind, given)) = Range(file[kind].lines) \cap Matching(kind, given)
  BY <1>1, AmongMembers DEF Listing
<1>3. Matching(kind, given) \subseteq Records
  BY DEF Matching
<1>4. Listing(kind, given) \in Seq(Records)
  <2> DEFINE s == Listing(kind, given)
  <2> HIDE DEF s
  <2>1. s \in Seq(Line) /\ Range(s) \subseteq Records
    BY <1>2, <1>3 DEF s
  <2>2. s \in Seq(Range(s))
    BY <2>1, SeqOfRange
  <2>3. s \in Seq(Records)
    BY <2>1, <2>2
  <2>4. QED
    BY <2>3 DEF s
<1>5. Range(Listing(kind, given)) \subseteq OnFile
  <2>1. \A a \in Records : a # Garbage
    BY RecordValues
  <2>2. Range(file[kind].lines) \ {Garbage} \subseteq OnFile
    BY DEF OnFile
  <2> HIDE DEF Listing
  <2>3. QED
    BY ONLY <1>2, <1>3, <2>1, <2>2
<1>6. QED
  BY <1>2, <1>4, <1>5

\* A lookup chooses from records of its file.
LEMMA CandidatesTypes ==
  ASSUME TypeOK, NEW lookup \in Lookups
  PROVE  /\ lookup.recordKind \in KindSet
         /\ Candidates(lookup) \in Seq(Records)
<1>1. lookup.recordKind \in KindSet
  BY LedgerStoreAssumption DEF KindSet
<1>2. file[lookup.recordKind].lines \in Seq(Line)
  BY <1>1 DEF TypeOK, KindSet, LineFiles, Line
<1> DEFINE matching == Matching(lookup.recordKind, lookup.given)
           set == IF lookup.recordKind = "policy"
                  THEN {record \in matching : record.event # "failed_activation"} ELSE matching
           s   == Among(file[lookup.recordKind].lines, set)
<1>3. set \subseteq Records
  BY DEF Matching
<1>4. Candidates(lookup) = s
  BY DEF Candidates
<1> HIDE DEF set
<1>5. s \in Seq(Line) /\ Range(s) \subseteq Records
  BY <1>2, <1>3, AmongMembers
<1> HIDE DEF s
<1>6. s \in Seq(Records)
  <2>1. s \in Seq(Range(s))
    BY <1>5, SeqOfRange
  <2>2. QED
    BY <1>5, <2>1
<1>7. QED
  BY <1>1, <1>4, <1>6

\* What a lookup answers is one of its candidates, and for a request the first.
LEMMA AnswerIsCandidate ==
  ASSUME TypeOK, NEW lookup \in Lookups
  PROVE  /\ Candidates(lookup) = <<>> => Answer(lookup) = NoRecord
         /\ Candidates(lookup) # <<>> =>
              /\ Answer(lookup) \in Range(Candidates(lookup))
              /\ Answer(lookup) \in Records
              /\ lookup.recordKind = "invocation" => Answer(lookup) = Candidates(lookup)[1]
              /\ lookup.recordKind # "invocation" =>
                   \A other \in Range(Candidates(lookup)) :
                     other.recordedAt <= Answer(lookup).recordedAt
<1> DEFINE found == Candidates(lookup)
<1>1. found \in Seq(Records)
  BY CandidatesTypes
<1>2. Answer(lookup) = IF lookup.recordKind # "invocation" THEN LatestByRecordedAt(found)
                       ELSE IF found = <<>> THEN NoRecord ELSE found[1]
  BY DEF Answer
<1> HIDE DEF found
<1>3. CASE found = <<>>
  <2>1. LatestByRecordedAt(<<>>) = NoRecord
    BY DEF LatestByRecordedAt
  <2>2. QED
    BY <1>2, <1>3, <2>1 DEF found
<1>4. CASE found # <<>>
  <2>1. 1 \in DOMAIN found
    BY <1>1, <1>4
  <2>2. found[1] \in Range(found) /\ Range(found) \subseteq Records
    BY <1>1, <2>1 DEF Range
  <2>3. /\ LatestByRecordedAt(found) \in Range(found)
        /\ \A other \in Range(found) : other.recordedAt <= LatestByRecordedAt(found).recordedAt
    BY <1>1, <1>4, LatestIsLatest
  <2>4. CASE lookup.recordKind = "invocation"
    <3>1. Answer(lookup) = found[1]
      BY <1>2, <1>4, <2>4
    <3>2. QED
      BY <1>4, <2>2, <2>4, <3>1 DEF found
  <2>5. CASE lookup.recordKind # "invocation"
    <3>1. Answer(lookup) = LatestByRecordedAt(found)
      BY <1>2, <2>5
    <3>2. QED
      BY <1>4, <2>2, <2>3, <2>5, <3>1 DEF found
  <2>6. QED
    BY <2>4, <2>5
<1>5. QED
  BY <1>3, <1>4

\* Reading a page adds the next records of what the listing finds now; the last page ends it.
LEMMA PageRead ==
  ASSUME TypeOK, NEW r \in Readers, ReadPage(r)
  PROVE  LET job     == reader[r]
             listing == Listing(job.query.recordKind, job.query.given)
         IN  /\ job \in ListJobs /\ job.phase = "busy"
             /\ job.query.recordKind \in KindSet /\ Parses(file[job.query.recordKind])
             /\ reader' = [reader EXCEPT ![r] = reader'[r]]
             /\ reader'[r] \in ListJobs
             /\ reader'[r].query = job.query /\ reader'[r].before = job.before
             /\ \E end \in 0..Len(listing) :
                  /\ job.cursor <= Len(listing) => job.cursor <= end
                  /\ reader'[r].pages = job.pages \o SubSeq(listing, job.cursor + 1, end)
                  /\ reader'[r].phase = "busy" => reader'[r].cursor = end
                  /\ reader'[r].phase = "done" => end = Len(listing)
<1> DEFINE job     == reader[r]
           listing == Listing(job.query.recordKind, job.query.given)
           end     == IF job.cursor + job.size < Len(listing) THEN job.cursor + job.size
                      ELSE Len(listing)
           page    == ApplyLimit(listing, job.cursor, job.size)
           next    == [job EXCEPT !.pages  = @ \o page.records,
                                  !.cursor = page.next,
                                  !.phase  = IF page.next = 0 THEN "done" ELSE "busy"]
<1>1. job \in ListJobs /\ job.phase = "busy" /\ DOMAIN reader = Readers
  BY JobsByName DEF ReadPage, TypeOK
<1>2. /\ job.query \in Listings /\ job.size \in Nat \ {0} /\ job.cursor \in Nat
      /\ job.pages \in Seq(Records)
  BY <1>1, LedgerStoreAssumption DEF ListJobs
<1>3. job.query.recordKind \in KindSet
  BY <1>2, LedgerStoreAssumption DEF KindSet
<1>4. listing \in Seq(Records) /\ Len(listing) \in Nat
  BY <1>3, ListingTypes
<1>5. reader' = [reader EXCEPT ![r] = next] /\ Parses(file[job.query.recordKind])
  BY DEF ReadPage
<1>6. reader'[r] = next
  BY <1>1, <1>5
<1>7. /\ page.records = SubSeq(listing, job.cursor + 1, end)
      /\ page.next = IF end < Len(listing) THEN end ELSE 0
  BY DEF ApplyLimit
<1> HIDE DEF listing, page
<1>8. /\ end \in 0..Len(listing)
      /\ job.cursor <= Len(listing) => job.cursor <= end
      /\ end < Len(listing) => end # 0
  BY <1>2, <1>4
<1>9. SubSeq(listing, job.cursor + 1, end) \in Seq(Records)
  <2> HIDE DEF end, job
  <2>1. \A i \in (job.cursor + 1)..end : listing[i] \in Records
    BY <1>2, <1>4, <1>8
  <2>2. QED
    BY <1>2, <1>4, <1>8, <2>1, SubSeqProperties
<1> HIDE DEF end
<1>10. page.next \in Nat /\ page.records \in Seq(Records)
  BY <1>4, <1>7, <1>8, <1>9
<1>11. job.pages \o page.records \in Seq(Records)
  <2> HIDE DEF job
  <2>1. QED
    BY <1>2, <1>10
<1>12. next \in ListJobs
  BY <1>1, <1>10, <1>11 DEF ListJobs
<1>13. /\ next.query = job.query /\ next.before = job.before
       /\ next.pages = job.pages \o SubSeq(listing, job.cursor + 1, end)
       /\ next.phase = "busy" => next.cursor = end
       /\ next.phase = "done" => end = Len(listing)
  <2>1. /\ next.query = job.query /\ next.before = job.before
        /\ next.pages = job.pages \o page.records
        /\ next.cursor = page.next
        /\ next.phase = IF page.next = 0 THEN "done" ELSE "busy"
    BY <1>1 DEF ListJobs
  <2> HIDE DEF next
  <2>2. QED
    BY <1>7, <1>8, <2>1
<1> HIDE DEF next
<1>14. QED
  BY <1>1, <1>3, <1>5, <1>6, <1>8, <1>12, <1>13 DEF listing

\* The records of an export and of the file it reads next are records, told apart by
\* their ids.
LEMMA GatheredRecords ==
  ASSUME TypeOK, UniqueIds, NEW r \in Readers, reader[r] \in ExportJobs,
         NEW kind \in KindSet, NEW given
  PROVE  LET all == reader[r].records \o Listing(kind, given)
         IN  /\ all \in Seq(Records)
             /\ Range(all) = Range(reader[r].records) \cup Range(Listing(kind, given))
             /\ Range(all) \subseteq Seen
             /\ Sortable(Range(all))
<1> DEFINE mine == reader[r].records
           found == Listing(kind, given)
           all == mine \o found
<1>1. mine \in Seq(Records)
  BY DEF ExportJobs
<1>2. found \in Seq(Records) /\ Range(found) \subseteq OnFile
  BY ListingTypes
<1>3. Range(mine) \subseteq Gathered
  BY DEF Gathered
<1> HIDE DEF mine, found
<1>4. all \in Seq(Records) /\ Range(all) = Range(mine) \cup Range(found)
  BY <1>1, <1>2, RangeConcatenation
<1>5. Range(all) \subseteq Seen
  BY <1>2, <1>3, <1>4 DEF Seen
<1> HIDE DEF all
<1>6. Range(all) \subseteq Records
  BY <1>4, RangeOfSeq
<1>7. IsFiniteSet(Range(all))
  <2>1. Len(all) \in Nat /\ DOMAIN all = 1..Len(all)
    BY <1>4
  <2>2. IsFiniteSet(1..Len(all))
    BY <2>1, FS_Interval
  <2>3. all \in Surjection(1..Len(all), Range(all))
    BY <1>4, <2>1 DEF Surjection, Range
  <2>4. QED
    BY <2>2, <2>3, FS_Surjection
<1>8. \A a, b \in Range(all) : a.recordId = b.recordId => a = b
  BY <1>5 DEF UniqueIds
<1>9. QED
  BY <1>4, <1>5, <1>6, <1>7, <1>8 DEF Sortable, all, mine, found

\* An export that reads a file has its records too, and after the last file it keeps the
\* oldest of what it gathered.
LEMMA FileExported ==
  ASSUME TypeOK, UniqueIds, NEW r \in Readers, ExportFile(r)
  PROVE  LET job  == reader[r]
             kind == Head(job.left)
             all  == job.records \o Listing(kind, ExportGiven(kind, job.export))
         IN  /\ job \in ExportJobs /\ job.phase = "busy"
             /\ kind \in KindSet /\ Parses(file[kind])
             /\ Range(job.left) = {kind} \cup Range(Tail(job.left))
             /\ reader' = [reader EXCEPT ![r] = reader'[r]]
             /\ reader'[r] \in ExportJobs
             /\ reader'[r].export = job.export /\ reader'[r].before = job.before
             /\ reader'[r].left = Tail(job.left)
             /\ reader'[r].phase = "busy" => /\ reader'[r].left # <<>>
                                             /\ reader'[r].records = all
             /\ reader'[r].phase = "done" => /\ Range(reader'[r].left) = {}
                                             /\ reader'[r].records = Exported(all, job.export.limit)
             /\ Range(reader'[r].records) \subseteq Range(all)
<1> DEFINE job  == reader[r]
           left == job.left
           kind == Head(left)
           all  == job.records \o Listing(kind, ExportGiven(kind, job.export))
           cut  == Exported(all, job.export.limit)
           next == [job EXCEPT !.left    = Tail(left),
                               !.records = IF Len(left) > 1 THEN all ELSE cut,
                               !.phase   = ExportPhase(Tail(left))]
<1>1. job \in ExportJobs /\ job.phase = "busy" /\ DOMAIN reader = Readers
  BY JobsByName DEF ExportFile, TypeOK
<1>2. left # <<>> /\ left \in Seq(KindSet)
  BY <1>1 DEF TypeOK, ExportJobs, KindSet
<1>3. reader' = [reader EXCEPT ![r] = next] /\ Parses(file[kind])
  BY DEF ExportFile
<1>4. reader'[r] = next
  BY <1>1, <1>3
<1>5. job.export.limit \in Nat \ {0}
  BY <1>1, LedgerStoreAssumption DEF ExportJobs
<1>6. kind \in KindSet /\ Tail(left) \in Seq(KindSet) /\ Len(left) \in Nat \ {0}
      /\ Len(Tail(left)) = Len(left) - 1
  <2> HIDE DEF left
  <2>1. QED
    BY <1>2
<1>7. Range(left) = {kind} \cup Range(Tail(left))
  <2>1. /\ DOMAIN left = 1..Len(left) /\ DOMAIN Tail(left) = 1..(Len(left) - 1)
        /\ \A k \in 1..(Len(left) - 1) : Tail(left)[k] = left[k + 1]
        /\ kind = left[1]
    BY <1>2, <1>6
  <2> HIDE DEF left, kind
  <2>2. \A k \in 1..Len(left) : k = 1 \/ (k - 1 \in 1..(Len(left) - 1) /\ (k - 1) + 1 = k)
    BY <1>6
  <2>3. 1 \in 1..Len(left) /\ \A k \in 1..(Len(left) - 1) : k + 1 \in 1..Len(left)
    BY <1>6
  <2>4. ASSUME NEW x \in Range(left) PROVE x \in {kind} \cup Range(Tail(left))
    <3>1. PICK k \in 1..Len(left) : x = left[k]
      BY <2>1, <2>4 DEF Range
    <3>2. CASE k = 1
      BY <2>1, <3>1, <3>2
    <3>3. CASE k # 1
      <4>1. k - 1 \in 1..(Len(left) - 1) /\ (k - 1) + 1 = k
        BY <2>2, <3>3
      <4>2. x = Tail(left)[k - 1]
        BY <2>1, <3>1, <4>1
      <4>3. QED
        BY <2>1, <4>1, <4>2 DEF Range
    <3>4. QED
      BY <3>2, <3>3
  <2>5. QED
    BY <2>1, <2>3, <2>4 DEF Range
<1> HIDE DEF kind, left
<1>8. all \in Seq(Records) /\ Sortable(Range(all))
  BY <1>1, <1>6, GatheredRecords
<1> HIDE DEF all
<1>9. cut \in Seq(Records) /\ Range(cut) \subseteq Range(all)
  <2> DEFINE limit == job.export.limit
  <2> HIDE DEF limit
  <2>1. limit \in Nat \ {0} /\ cut = Exported(all, limit)
    BY <1>5 DEF limit
  <2> HIDE DEF cut
  <2>2. QED
    BY <1>8, <2>1, ExportedAreOldest
<1> HIDE DEF cut
<1>9a. ExportPhase(Tail(left)) = IF Len(left) > 1 THEN "busy" ELSE "done"
  <2>1. Len(Tail(left)) = 0 <=> Tail(left) = <<>>
    BY ONLY <1>6, EmptySeq
  <2>2. QED
    BY <1>6, <2>1 DEF ExportPhase
<1>10. next \in ExportJobs
  BY <1>1, <1>6, <1>8, <1>9, <1>9a DEF ExportJobs, KindSet
<1>11. /\ next.export = job.export /\ next.before = job.before /\ next.left = Tail(left)
       /\ next.records = IF Len(left) > 1 THEN all ELSE cut
       /\ next.phase = IF Len(left) > 1 THEN "busy" ELSE "done"
  BY <1>1, <1>9a DEF ExportJobs
<1> HIDE DEF next
<1>12. /\ Len(left) > 1 => Tail(left) # <<>>
       /\ ~ (Len(left) > 1) => Range(Tail(left)) = {}
  <2>1. Len(left) > 1 => Len(Tail(left)) # 0
    BY <1>6
  <2>2. ~ (Len(left) > 1) => Tail(left) = <<>>
    BY <1>6
  <2>3. Range(<<>>) = {} /\ Len(<<>>) = 0
    BY DEF Range
  <2>4. QED
    BY <2>1, <2>2, <2>3
<1>13. /\ next.phase = "busy" => next.left # <<>> /\ next.records = all
       /\ next.phase = "done" => Range(next.left) = {} /\ next.records = cut
       /\ Range(next.records) \subseteq Range(all)
  BY <1>9, <1>11, <1>12
<1>14. QED
  BY <1>1, <1>3, <1>4, <1>6, <1>7, <1>10, <1>11, <1>13 DEF kind, left, all, cut

\* A reader goes from one job, or one state of it, to another.
Jobs(r) ==
  /\ reader' = [reader EXCEPT ![r] = reader'[r]]
  /\ reader'[r] \in ListJobs \cup ExportJobs
  /\ reader'[r] \in ExportJobs =>
       /\ Range(reader'[r].records) \subseteq Seen
       /\ reader'[r].phase = "busy" => reader'[r].left # <<>>

\* A reader's step changes its own job, which stays a job and holds records that were seen.
LEMMA ReaderSteps ==
  ASSUME TypeOK, UniqueIds, NEW r \in Readers,
         BeginListing(r) \/ ReadPage(r) \/ BeginExport(r) \/ ExportFile(r) \/ ReadThrows(r)
  PROVE  UNCHANGED <<file, writer, answers, acknowledged, built, tears>> /\ Jobs(r)
<1> DEFINE Leaves(job) ==
             /\ reader' = [reader EXCEPT ![r] = job]
             /\ job \in ListJobs \cup ExportJobs
             /\ job \in ExportJobs => /\ Range(job.records) \subseteq Seen
                                      /\ job.phase = "busy" => job.left # <<>>
<1>1. UNCHANGED <<file, writer, answers, acknowledged, built, tears>>
  BY DEF BeginListing, ReadPage, BeginExport, ExportFile, ReadThrows
<1>2. DOMAIN reader = Readers /\ acknowledged \in SUBSET Records
  BY DEF TypeOK
<1>3. ASSUME NEW job \in ListJobs PROVE job \notin ExportJobs
  BY DEF ListJobs, ExportJobs
<1>11. ASSUME NEW job, Leaves(job)
       PROVE  Jobs(r)
  <2>1. reader'[r] = job
    BY <1>2, <1>11
  <2>2. reader' = [reader EXCEPT ![r] = reader'[r]]
    BY ONLY <1>1, <1>11, <2>1
  <2>3. QED
    BY <1>11, <2>1, <2>2 DEF Jobs
<1>4. Range(<<>>) = {} /\ <<>> \in Seq(Records)
  BY DEF Range
<1>5. CASE BeginListing(r)
  <2>1. PICK query \in Listings, size \in PageSizes :
          reader' = [reader EXCEPT ![r] =
            [job |-> "list", query |-> query, size |-> size, cursor |-> 0, pages |-> <<>>,
             before |-> acknowledged, phase |-> "busy"]]
    BY <1>5 DEF BeginListing
  <2> DEFINE job == [job |-> "list", query |-> query, size |-> size, cursor |-> 0, pages |-> <<>>,
                     before |-> acknowledged, phase |-> "busy"]
  <2>2. job \in ListJobs
    BY <1>2, <1>4 DEF ListJobs
  <2> HIDE DEF job
  <2>3. reader' = [reader EXCEPT ![r] = job]
    BY <2>1 DEF job
  <2>4. Leaves(job)
    BY <1>3, <2>2, <2>3
  <2>5. QED
    BY ONLY <1>1, <1>11, <2>4
<1>6. CASE ReadPage(r)
  <2>1. reader' = [reader EXCEPT ![r] = reader'[r]] /\ reader'[r] \in ListJobs
    BY <1>6, PageRead
  <2>2. QED
    BY <1>1, <1>3, <2>1 DEF Jobs
<1>7. CASE BeginExport(r)
  <2>1. PICK export \in Exports :
          reader' = [reader EXCEPT ![r] =
            [job |-> "export", export |-> export, left |-> ExportKinds(export), records |-> <<>>,
             before |-> acknowledged,
             phase |-> IF ExportKinds(export) = <<>> THEN "done" ELSE "busy"]]
    BY <1>7 DEF BeginExport, ExportPhase
  <2>2. ExportKinds(export) \in Seq(Range(Kinds))
    <3>1. Kinds \in Seq(Range(Kinds))
      BY DEF Kinds, Range
    <3>2. QED
      BY <3>1, AmongMembers DEF ExportKinds
  <2> DEFINE job == [job |-> "export", export |-> export, left |-> ExportKinds(export),
                     records |-> <<>>, before |-> acknowledged,
                     phase |-> IF ExportKinds(export) = <<>> THEN "done" ELSE "busy"]
  <2>3. /\ job \in ExportJobs /\ job.records = <<>>
        /\ job.phase = "busy" => job.left # <<>>
    BY <1>2, <1>4, <2>2 DEF ExportJobs
  <2> HIDE DEF job
  <2>4. reader' = [reader EXCEPT ![r] = job]
    BY <2>1 DEF job
  <2>5. Leaves(job)
    BY <1>4, <2>3, <2>4
  <2>6. QED
    BY ONLY <1>1, <1>11, <2>5
<1>8. CASE ExportFile(r)
  <2> DEFINE job  == reader[r]
             kind == Head(job.left)
             given == ExportGiven(kind, job.export)
  <2>1. /\ job \in ExportJobs /\ kind \in KindSet
        /\ reader' = [reader EXCEPT ![r] = reader'[r]] /\ reader'[r] \in ExportJobs
        /\ reader'[r].phase = "busy" => reader'[r].left # <<>>
        /\ Range(reader'[r].records) \subseteq Range(job.records \o Listing(kind, given))
    BY <1>8, FileExported
  <2>2. Range(job.records \o Listing(kind, given)) \subseteq Seen
    BY <2>1, GatheredRecords
  <2>3. QED
    BY <1>1, <2>1, <2>2 DEF Jobs
<1>9. CASE ReadThrows(r)
  <2>1. reader' = [reader EXCEPT ![r].phase = "failed"] /\ reader[r] \in ListJobs \cup ExportJobs
    BY <1>9, JobsByName DEF ReadThrows
  <2> DEFINE job == [reader[r] EXCEPT !.phase = "failed"]
  <2>2. job \in ListJobs \cup ExportJobs /\ job.phase = "failed"
    BY <2>1 DEF ListJobs, ExportJobs
  <2>3. job \in ExportJobs => Range(job.records) \subseteq Seen
    <3>1. job \in ExportJobs => reader[r] \in ExportJobs /\ job.records = reader[r].records
      BY <2>1 DEF ListJobs, ExportJobs
    <3>2. QED
      BY <3>1 DEF Seen, Gathered
  <2> HIDE DEF job
  <2>4. reader' = [reader EXCEPT ![r] = job]
    BY <2>1 DEF job
  <2>5. Leaves(job)
    BY <2>2, <2>3, <2>4
  <2>6. QED
    BY ONLY <1>1, <1>11, <2>5
<1>10. QED
  BY ONLY <1>1, <1>5, <1>6, <1>7, <1>8, <1>9, BeginListing(r) \/ ReadPage(r) \/ BeginExport(r) \/ ExportFile(r) \/ ReadThrows(r)

-----------------------------------------------------------------------------
(* Types and ids.                                                           *)

\* The invariant holds of an empty ledger.
LEMMA InitEstablishes == Init => IInv
<1> SUFFICES ASSUME Init PROVE IInv
  OBVIOUS
<1> USE DEF KindSet
<1>1. /\ \A kind \in KindSet : file[kind] = EmptyFile
      /\ \A w \in Writers : writer[w] = NoRecord
      /\ \A r \in Readers : reader[r] = Idle
      /\ \A lookup \in Lookups : answers[lookup] = NoRecord
      /\ acknowledged = {}
  BY DEF Init
<1>2. Idle \notin ListJobs \cup ExportJobs /\ Idle.job = "idle"
  BY DEF Idle, ListJobs, ExportJobs
<1>3. EmptyFile \in LineFiles(Records) /\ ~ EmptyFile.open /\ EmptyFile.lines = <<>>
  BY DEF EmptyFile, LineFiles
<1>4. TypeOK
  <2>1. /\ file \in [Range(Kinds) -> LineFiles(Records)]
        /\ writer \in [Writers -> Records \cup {NoRecord}]
        /\ DOMAIN reader = Readers
        /\ answers \in [Lookups -> Records \cup {NoRecord}]
    BY <1>3 DEF Init
  <2>2. acknowledged \subseteq Records /\ built \in 0..MaxRecords /\ tears \in 0..MaxTears
    BY LedgerStoreAssumption DEF Init
  <2>3. QED
    BY <1>1, <1>2, <1>3, <2>1, <2>2 DEF TypeOK
<1>5. Parses(EmptyFile)
  BY <1>3 DEF Parses
<1>6. Seen = {}
  <2>1. OnFile = {}
    BY <1>1, <1>3 DEF OnFile, Range
  <2>2. Pending = {}
    BY <1>1 DEF Pending
  <2>3. Gathered = {}
    BY <1>1, <1>2 DEF Gathered
  <2>4. QED
    BY <1>1, <2>1, <2>2, <2>3 DEF Seen
<1>7. UniqueIds /\ AppendedOnce /\ Kept /\ Answers
  BY <1>1, <1>6 DEF UniqueIds, AppendedOnce, Kept, Answers
<1>8. \A kind \in KindSet : Lined(kind)
  BY <1>1, <1>3 DEF Lined
<1>9. Tally
  <2>1. Lost = {} /\ OpenFiles = {}
    BY <1>1, <1>3 DEF Lost, OpenFiles
  <2>2. IsFiniteSet(acknowledged) /\ Cardinality(Lost) = 0 /\ Cardinality(OpenFiles) = 0
    BY <1>1, <2>1, FS_EmptySet
  <2>3. tears = 0
    BY DEF Init
  <2>4. QED
    BY <1>1, <1>5, <2>2, <2>3 DEF Tally
<1>10. \A r \in Readers : Paged(r) /\ Gathers(r)
  BY <1>1, <1>2 DEF Paged, Gathers
<1>11. PagesMissNothing /\ ExportIsOldest
  BY <1>1, <1>2 DEF PagesMissNothing, ExportIsOldest
<1>12. QED
  BY <1>4, <1>7, <1>8, <1>9, <1>10, <1>11 DEF IInv

\* A record that a caller builds.
LEMMA BuildStep ==
  ASSUME TypeOK, NEW w \in Writers, Build(w)
  PROVE  \E record \in Records :
           /\ record.recordId = built + 1
           /\ writer' = [writer EXCEPT ![w] = record]
           /\ built + 1 \in 1..MaxRecords /\ built' = built + 1
           /\ UNCHANGED <<file, reader, answers, acknowledged, tears>>
<1>1. PICK draft \in Drafts, t \in Times :
        writer' = [writer EXCEPT ![w] = Stamped(draft, built + 1, t)]
  BY DEF Build
<1>2. built + 1 \in 1..MaxRecords
  BY LedgerStoreAssumption DEF Build, TypeOK
<1>3. Stamped(draft, built + 1, t) \in Records /\ Stamped(draft, built + 1, t).recordId = built + 1
  BY <1>2, StampedRecord
<1>4. QED
  BY <1>1, <1>2, <1>3 DEF Build

\* Every step keeps the types.
LEMMA TypesKept ==
  ASSUME TypeOK, UniqueIds, [Next]_vars
  PROVE  TypeOK'
<1> USE DEF TypeOK
<1>0. NoRecord \in Records \cup {NoRecord}
  OBVIOUS
<1>1. CASE UNCHANGED vars
  BY <1>1 DEF vars
<1>2. ASSUME NEW w \in Writers, Build(w)
      PROVE  TypeOK'
  <2>1. PICK record \in Records :
          /\ writer' = [writer EXCEPT ![w] = record]
          /\ built + 1 \in 1..MaxRecords /\ built' = built + 1
          /\ UNCHANGED <<file, reader, answers, acknowledged, tears>>
    BY <1>2, BuildStep
  <2>2. built' \in 0..MaxRecords
    BY <2>1
  <2>3. writer' \in [Writers -> Records \cup {NoRecord}]
    BY <2>1
  <2>4. QED
    BY <2>1, <2>2, <2>3
<1>3. ASSUME NEW w \in Writers, Refuse(w) \/ AppendFails(w)
      PROVE  TypeOK'
  <2>1. /\ writer' \in [Writers -> Records \cup {NoRecord}]
        /\ UNCHANGED <<file, reader, answers, acknowledged, built, tears>>
    BY <1>3 DEF Refuse, AppendFails, Ends
  <2>2. QED
    BY <2>1
<1>4. ASSUME NEW w \in Writers, NEW line, NEW open \in BOOLEAN, Writes(w, line, open),
             acknowledged' \subseteq Records, tears' \in 0..MaxTears
      PROVE  TypeOK'
  <2>1. /\ file' \in [Range(Kinds) -> LineFiles(Records)]
        /\ \A k \in Range(Kinds) : file'[k].open => file'[k].lines # <<>>
    BY <1>4, WriteTypes DEF KindSet
  <2>2. /\ writer' \in [Writers -> Records \cup {NoRecord}]
        /\ UNCHANGED <<reader, answers, built>>
    BY <1>4 DEF Writes
  <2>3. QED
    BY <1>4, <2>1, <2>2
<1>5. ASSUME NEW w \in Writers, AppendRecord(w)
      PROVE  TypeOK'
  <2>1. Writes(w, writer[w], FALSE) /\ acknowledged' = acknowledged \cup {writer[w]} /\ tears' = tears
    BY <1>5, AppendWrites
  <2>2. writer[w] \in Records
    BY <2>1, WriteTypes
  <2>3. QED
    BY <1>4, <2>1, <2>2
<1>6. ASSUME NEW w \in Writers, AppendTorn(w)
      PROVE  TypeOK'
  <2>1. PICK line \in {Garbage, writer[w]} : Writes(w, line, TRUE)
    BY <1>6, TornWrites
  <2>2. acknowledged' = acknowledged /\ tears' \in 0..MaxTears
    <3>1. acknowledged' = acknowledged /\ tears < MaxTears /\ tears' = tears + 1
      BY <1>6, TornWrites
    <3>2. QED
      BY <3>1, LedgerStoreAssumption
  <2>3. QED
    BY <1>4, <2>1, <2>2
<1>7. ASSUME NEW lookup \in Lookups, LookUp(lookup)
      PROVE  TypeOK'
  <2>1. Answer(lookup) \in Records \cup {NoRecord}
    BY AnswerIsCandidate
  <2>2. /\ answers' \in [Lookups -> Records \cup {NoRecord}]
        /\ UNCHANGED <<file, writer, reader, acknowledged, built, tears>>
    BY <1>7, <2>1 DEF LookUp
  <2>3. QED
    BY <2>2
<1>8. ASSUME NEW r \in Readers,
             BeginListing(r) \/ ReadPage(r) \/ BeginExport(r) \/ ExportFile(r) \/ ReadThrows(r)
      PROVE  TypeOK'
  <2>1. /\ UNCHANGED <<file, writer, answers, acknowledged, built, tears>>
        /\ reader' = [reader EXCEPT ![r] = reader'[r]]
        /\ reader'[r] \in ListJobs \cup ExportJobs
        /\ reader'[r] \in ExportJobs /\ reader'[r].phase = "busy" => reader'[r].left # <<>>
    BY <1>8, ReaderSteps DEF Jobs
  <2>2. /\ DOMAIN reader' = Readers
        /\ \A q \in Readers : q # r => reader'[q] = reader[q]
    BY <2>1
  <2>3. ASSUME NEW q \in Readers
        PROVE  /\ reader'[q] \in {Idle} \cup ListJobs \cup ExportJobs
               /\ reader'[q] \in ExportJobs /\ reader'[q].phase = "busy" => reader'[q].left # <<>>
    <3>1. CASE q = r
      BY <2>1, <3>1
    <3>2. CASE q # r
      BY <2>2, <3>2
    <3>3. QED
      BY <3>1, <3>2
  <2>4. QED
    BY <2>1, <2>2, <2>3
<1>9. QED
  BY <1>1, <1>2, <1>3, <1>5, <1>6, <1>7, <1>8 DEF Next

\* A write brings no line but its own and what it spoils.
LEMMA WrittenLines ==
  ASSUME TypeOK, NEW w \in Writers, NEW line, NEW open \in BOOLEAN, Writes(w, line, open)
  PROVE  OnFile' \subseteq OnFile \cup {writer[w]}
<1> DEFINE kind == writer[w].recordKind
           f    == file[kind]
           n    == Len(f.lines)
<1>1. /\ kind \in KindSet /\ line \in Line /\ f \in LineFiles(Records)
      /\ f.open => f.lines # <<>>
      /\ file'[kind] = Arrives(f, line, open)
      /\ \A other \in KindSet \ {kind} : file'[other] = file[other]
      /\ line \in {Garbage, writer[w]}
  BY WriteTypes DEF Writes
<1>2. f.lines \in Seq(Line) /\ n \in Nat /\ DOMAIN f.lines = 1..n
  BY <1>1 DEF LineFiles, Line
<1>3. Range(file'[kind].lines) \subseteq Range(f.lines) \cup {Garbage, writer[w]}
  <2>1. file'[kind].lines \in Seq(Line)
    <3>1. file'[kind] \in LineFiles(Records)
      BY <1>1, ArrivesLines
    <3>2. QED
      BY <3>1 DEF LineFiles, Line
  <2> DEFINE new == file'[kind].lines
             m   == Len(new)
  <2>2. DOMAIN new = 1..m /\ m \in Nat
    BY <2>1
  <2>3. CASE f.open
    <3>1. m = n /\ new[n] = Garbage /\ \A k \in 1..n : k # n => new[k] = f.lines[k]
      BY <1>1, <2>3, ArrivesLines
    <3> HIDE DEF new, m
    <3>2. QED
      BY <1>2, <2>2, <3>1 DEF Range, new
  <2>4. CASE ~ f.open
    <3>1. m = n + 1 /\ new[n + 1] = line /\ \A k \in 1..n : new[k] = f.lines[k]
      BY <1>1, <2>4, ArrivesLines
    <3>2. \A k \in 1..(n + 1) : k \in 1..n \/ k = n + 1
      BY <1>2
    <3> HIDE DEF new, m
    <3>3. QED
      BY <1>1, <1>2, <2>2, <3>1, <3>2 DEF Range, new
  <2>5. QED
    BY <2>3, <2>4
<1>4. ASSUME NEW x \in OnFile'
      PROVE  x \in OnFile \cup {writer[w]}
  <2>1. PICK k \in KindSet : x \in Range(file'[k].lines)
    BY DEF OnFile
  <2>2. x # Garbage
    BY DEF OnFile
  <2>3. \A other \in KindSet : Range(file[other].lines) \ {Garbage} \subseteq OnFile
    BY DEF OnFile
  <2>4. CASE k = kind
    BY <1>1, <1>3, <2>1, <2>2, <2>3, <2>4
  <2>5. CASE k # kind
    BY <1>1, <2>1, <2>2, <2>3, <2>5
  <2>6. QED
    BY <2>4, <2>5
<1>5. QED
  BY <1>4

\* No step brings a record that was not seen but Build, whose record has a new id.
LEMMA SeenGrows ==
  ASSUME TypeOK, UniqueIds, [Next]_vars
  PROVE  \/ Seen' \subseteq Seen /\ built' = built
         \/ \E record \in Records : /\ record.recordId = built + 1
                                    /\ built' = built + 1
                                    /\ Seen' \subseteq Seen \cup {record}
<1>0. /\ \A w \in Writers : writer[w] # NoRecord => writer[w] \in Pending
      /\ writer \in [Writers -> Records \cup {NoRecord}]
  BY DEF Pending, TypeOK
<1>1. CASE UNCHANGED vars
  <2>1. OnFile' = OnFile /\ Pending' = Pending /\ Gathered' = Gathered
    BY <1>1 DEF vars, OnFile, Pending, Gathered, ExportJobs
  <2>2. QED
    BY <1>1, <2>1 DEF vars, Seen
<1>2. ASSUME NEW w \in Writers, Build(w)
      PROVE  \E record \in Records : /\ record.recordId = built + 1
                                     /\ built' = built + 1
                                     /\ Seen' \subseteq Seen \cup {record}
  <2>1. PICK record \in Records :
          /\ record.recordId = built + 1
          /\ writer' = [writer EXCEPT ![w] = record]
          /\ built' = built + 1
          /\ UNCHANGED <<file, reader, answers, acknowledged, tears>>
    BY <1>2, BuildStep
  <2>2. Pending' \subseteq Pending \cup {record}
    BY <1>0, <2>1 DEF Pending
  <2>3. OnFile' = OnFile /\ Gathered' = Gathered /\ acknowledged' = acknowledged
    BY <2>1 DEF OnFile, Gathered, ExportJobs
  <2>4. Seen' \subseteq Seen \cup {record}
    BY <2>2, <2>3 DEF Seen
  <2>5. QED
    BY <2>1, <2>4
<1>3. ASSUME NEW w \in Writers, writer' = [writer EXCEPT ![w] = NoRecord],
             OnFile' \subseteq OnFile \cup Pending, acknowledged' \subseteq acknowledged \cup Pending,
             reader' = reader
      PROVE  Seen' \subseteq Seen
  <2>1. Pending' \subseteq Pending
    BY <1>0, <1>3 DEF Pending
  <2>2. Gathered' = Gathered
    BY <1>3 DEF Gathered, ExportJobs
  <2>3. QED
    BY <1>3, <2>1, <2>2 DEF Seen
<1>4. ASSUME NEW w \in Writers, Refuse(w) \/ AppendFails(w)
      PROVE  Seen' \subseteq Seen /\ built' = built
  <2>1. /\ writer' = [writer EXCEPT ![w] = NoRecord]
        /\ UNCHANGED <<file, reader, acknowledged, built>>
    BY <1>4 DEF Refuse, AppendFails, Ends
  <2>2. OnFile' = OnFile
    BY <2>1 DEF OnFile
  <2>3. QED
    BY <1>3, <2>1, <2>2
<1>5. ASSUME NEW w \in Writers, NEW line, NEW open \in BOOLEAN, Writes(w, line, open),
             acknowledged' \subseteq acknowledged \cup {writer[w]}
      PROVE  Seen' \subseteq Seen /\ built' = built
  <2>1. /\ writer' = [writer EXCEPT ![w] = NoRecord] /\ reader' = reader /\ built' = built
        /\ writer[w] \in Pending
    BY <1>0, <1>5 DEF Writes
  <2>2. OnFile' \subseteq OnFile \cup {writer[w]}
    BY <1>5, WrittenLines
  <2>3. QED
    BY <1>3, <1>5, <2>1, <2>2
<1>6. ASSUME NEW w \in Writers, AppendRecord(w)
      PROVE  Seen' \subseteq Seen /\ built' = built
  BY <1>5, <1>6, AppendWrites
<1>7. ASSUME NEW w \in Writers, AppendTorn(w)
      PROVE  Seen' \subseteq Seen /\ built' = built
  BY <1>5, <1>7, TornWrites
<1>8. ASSUME NEW lookup \in Lookups, LookUp(lookup)
      PROVE  Seen' \subseteq Seen /\ built' = built
  <2>1. UNCHANGED <<file, writer, reader, acknowledged, built>>
    BY <1>8 DEF LookUp
  <2>2. OnFile' = OnFile /\ Pending' = Pending /\ Gathered' = Gathered
    BY <2>1 DEF OnFile, Pending, Gathered, ExportJobs
  <2>3. QED
    BY <2>1, <2>2 DEF Seen
<1>9. ASSUME NEW r \in Readers,
             BeginListing(r) \/ ReadPage(r) \/ BeginExport(r) \/ ExportFile(r) \/ ReadThrows(r)
      PROVE  Seen' \subseteq Seen /\ built' = built
  <2>1. /\ UNCHANGED <<file, writer, acknowledged, built>>
        /\ reader' = [reader EXCEPT ![r] = reader'[r]]
        /\ reader'[r] \in ExportJobs => Range(reader'[r].records) \subseteq Seen
    BY <1>9, ReaderSteps DEF Jobs
  <2>2. OnFile' = OnFile /\ Pending' = Pending
    BY <2>1 DEF OnFile, Pending
  <2>3. ASSUME NEW x \in Gathered'
        PROVE  x \in Seen
    <3>1. PICK q \in Readers : reader'[q] \in ExportJobs /\ x \in Range(reader'[q].records)
      BY DEF Gathered, ExportJobs
    <3>2. CASE q = r
      BY <2>1, <3>1, <3>2
    <3>3. CASE q # r
      <4>1. reader'[q] = reader[q]
        <5>1. \A job : reader' = [reader EXCEPT ![r] = job] => reader'[q] = reader[q]
          BY <3>3 DEF TypeOK
        <5>2. QED
          BY ONLY <2>1, <5>1
      <4>2. x \in Gathered
        BY <3>1, <4>1 DEF Gathered
      <4>3. QED
        BY <4>2 DEF Seen
    <3>4. QED
      BY <3>2, <3>3
  <2>4. QED
    BY <2>1, <2>2, <2>3 DEF Seen
<1>10. QED
  BY <1>1, <1>2, <1>4, <1>6, <1>7, <1>8, <1>9 DEF Next

\* Ids stay unique.
LEMMA IdsStayUnique ==
  ASSUME TypeOK, UniqueIds, [Next]_vars
  PROVE  UniqueIds'
<1>1. built \in Nat /\ \A a \in Seen : a.recordId <= built
  BY DEF UniqueIds, TypeOK
<1>2. \A a, b \in Seen : a.recordId = b.recordId => a = b
  BY DEF UniqueIds
<1>3. CASE Seen' \subseteq Seen /\ built' = built
  BY <1>1, <1>2, <1>3 DEF UniqueIds
<1>4. ASSUME NEW record \in Records, record.recordId = built + 1, built' = built + 1,
             Seen' \subseteq Seen \cup {record}
      PROVE  UniqueIds'
  <2>1. Seen \subseteq Records
    <3>1. OnFile \subseteq Records
      <4>1. ASSUME NEW x \in OnFile PROVE x \in Records
        <5>1. PICK kind \in KindSet : x \in Range(file[kind].lines) /\ x # Garbage
          BY DEF OnFile
        <5>2. file[kind].lines \in Seq(Line)
          BY DEF TypeOK, KindSet, LineFiles, Line
        <5>3. x \in Line
          BY <5>1, <5>2, RangeOfSeq
        <5>4. QED
          BY <5>1, <5>3 DEF Line
      <4>2. QED
        BY <4>1
    <3>2. Pending \subseteq Records
      BY DEF Pending, TypeOK
    <3>3. Gathered \subseteq Records
      <4>1. ASSUME NEW q \in Readers, reader[q] \in ExportJobs
            PROVE  Range(reader[q].records) \subseteq Records
        <5>1. reader[q].records \in Seq(Records)
          BY <4>1 DEF ExportJobs
        <5>2. QED
          BY <5>1, RangeOfSeq
      <4>2. QED
        BY <4>1 DEF Gathered
    <3>4. QED
      BY <3>1, <3>2, <3>3 DEF Seen, TypeOK
  <2>2. \A a \in Seen : a.recordId \in Nat /\ a.recordId # built + 1 /\ a.recordId <= built + 1
    <3>1. ASSUME NEW a \in Seen
          PROVE  a.recordId \in Nat
      BY <2>1, RecordValues
    <3>2. QED
      BY <1>1, <3>1
  <2>3. \A a \in Seen' : a.recordId <= built'
    BY <1>1, <1>4, <2>2
  <2>4. \A a, b \in Seen' : a.recordId = b.recordId => a = b
    BY <1>2, <1>4, <2>2
  <2>5. QED
    BY <2>3, <2>4 DEF UniqueIds
<1>5. QED
  BY <1>3, <1>4, SeenGrows

-----------------------------------------------------------------------------
(* What is appended and what is lost.                                       *)

\* How an append, whole or torn, is recorded besides in its file.
Recorded(w, line, open) ==
  \/ ~ open /\ line = writer[w] /\ acknowledged' = acknowledged \cup {writer[w]} /\ tears' = tears
  \/ open /\ acknowledged' = acknowledged /\ tears' = tears + 1

\* What a step can do to the files and their writers.
LEMMA StoreSteps ==
  ASSUME TypeOK, UniqueIds, [Next]_vars
  PROVE  \/ UNCHANGED <<file, writer, acknowledged, tears>>
         \/ \E w \in Writers : Build(w)
         \/ \E w \in Writers : /\ writer' = [writer EXCEPT ![w] = NoRecord]
                               /\ UNCHANGED <<file, acknowledged, tears>>
         \/ \E w \in Writers, open \in BOOLEAN : \E line \in {Garbage, writer[w]} :
              Writes(w, line, open) /\ Recorded(w, line, open)
<1>1. CASE UNCHANGED vars
  BY <1>1 DEF vars
<1>2. ASSUME NEW w \in Writers, Refuse(w) \/ AppendFails(w)
      PROVE  /\ writer' = [writer EXCEPT ![w] = NoRecord]
             /\ UNCHANGED <<file, acknowledged, tears>>
  BY <1>2 DEF Refuse, AppendFails, Ends
<1>3. ASSUME NEW w \in Writers, AppendRecord(w)
      PROVE  Writes(w, writer[w], FALSE) /\ Recorded(w, writer[w], FALSE)
  BY <1>3, AppendWrites DEF Recorded
<1>4. ASSUME NEW w \in Writers, AppendTorn(w)
      PROVE  \E line \in {Garbage, writer[w]} : Writes(w, line, TRUE) /\ Recorded(w, line, TRUE)
  BY <1>4, TornWrites DEF Recorded
<1>5. ASSUME NEW lookup \in Lookups, LookUp(lookup)
      PROVE  UNCHANGED <<file, writer, acknowledged, tears>>
  BY <1>5 DEF LookUp
<1>6. ASSUME NEW r \in Readers,
             BeginListing(r) \/ ReadPage(r) \/ BeginExport(r) \/ ExportFile(r) \/ ReadThrows(r)
      PROVE  UNCHANGED <<file, writer, acknowledged, tears>>
  BY <1>6, ReaderSteps
<1>7. QED
  BY <1>1, <1>2, <1>3, <1>4, <1>5, <1>6 DEF Next

\* The lines of a file are seen, but for garbage.
LEMMA LinesAreOnFile ==
  ASSUME TypeOK, NEW kind \in KindSet, NEW k \in DOMAIN file[kind].lines
  PROVE  /\ file[kind].lines[k] # Garbage => file[kind].lines[k] \in OnFile
         /\ file[kind].lines \in Seq(Line)
BY DEF OnFile, Range, TypeOK, KindSet, LineFiles, Line

\* No record is appended twice.
LEMMA AppendedOnceKept ==
  ASSUME TypeOK, UniqueIds, AppendedOnce, [Next]_vars
  PROVE  AppendedOnce'
<1>0. writer \in [Writers -> Records \cup {NoRecord}]
  BY DEF TypeOK
<1>1. CASE UNCHANGED <<file, writer, acknowledged, tears>>
  BY <1>1 DEF AppendedOnce, OnFile
<1>2. ASSUME NEW w \in Writers, Build(w)
      PROVE  AppendedOnce'
  <2>1. PICK record \in Records :
          /\ record.recordId = built + 1
          /\ writer' = [writer EXCEPT ![w] = record]
          /\ UNCHANGED <<file, acknowledged>>
    BY <1>2, BuildStep
  <2>2. record \notin Seen
    <3>1. built \in Nat /\ ~ (built + 1 <= built)
      BY DEF TypeOK
    <3>2. QED
      BY <2>1, <3>1 DEF UniqueIds
  <2>3. /\ OnFile' = OnFile /\ record \notin acknowledged \cup OnFile
        /\ \A v \in Writers : writer[v] # record
    <3>1. \A v \in Writers : writer[v] # NoRecord => writer[v] \in Seen
      BY DEF Pending, Seen
    <3>2. record # NoRecord
      BY RecordValues
    <3>3. QED
      BY <2>1, <2>2, <3>1, <3>2 DEF Seen, OnFile
  <2>4. ASSUME NEW v \in Writers, writer'[v] # NoRecord
        PROVE  /\ writer'[v] \notin (acknowledged \cup OnFile)'
               /\ \A u \in Writers : writer'[u] = writer'[v] => u = v
    <3>1. CASE v = w
      <4>1. writer'[v] = record /\ \A u \in Writers : u # w => writer'[u] = writer[u]
        BY <1>0, <2>1, <3>1
      <4>2. QED
        BY <2>1, <2>3, <3>1, <4>1
    <3>2. CASE v # w
      <4>1. writer'[v] = writer[v]
        BY <1>0, <2>1, <3>2
      <4>2. /\ writer[v] \notin acknowledged \cup OnFile
            /\ \A u \in Writers : writer[u] = writer[v] => u = v
        BY <2>4, <4>1 DEF AppendedOnce
      <4>3. \A u \in Writers : writer'[u] = IF u = w THEN record ELSE writer[u]
        BY <1>0, <2>1
      <4>4. QED
        BY <2>1, <2>3, <4>1, <4>2, <4>3
    <3>3. QED
      BY <3>1, <3>2
  <2>5. QED
    BY <2>4 DEF AppendedOnce
<1>3. ASSUME NEW w \in Writers, writer' = [writer EXCEPT ![w] = NoRecord],
             \A v \in Writers \ {w} : writer[v] # NoRecord =>
                writer[v] \notin acknowledged' /\ writer[v] \notin OnFile'
      PROVE  AppendedOnce'
  <2>1. \A v \in Writers : writer'[v] = IF v = w THEN NoRecord ELSE writer[v]
    BY <1>0, <1>3
  <2>2. QED
    BY <1>3, <2>1 DEF AppendedOnce
<1>4. ASSUME NEW w \in Writers, writer' = [writer EXCEPT ![w] = NoRecord],
             UNCHANGED <<file, acknowledged, tears>>
      PROVE  AppendedOnce'
  <2>1. OnFile' = OnFile
    BY <1>4 DEF OnFile
  <2>2. QED
    BY <1>3, <1>4, <2>1 DEF AppendedOnce
<1>5. ASSUME NEW w \in Writers, NEW open \in BOOLEAN, NEW line \in {Garbage, writer[w]},
             Writes(w, line, open), Recorded(w, line, open)
      PROVE  AppendedOnce'
  <2>1. OnFile' \subseteq OnFile \cup {writer[w]}
    BY <1>5, WrittenLines
  <2>2. acknowledged' \subseteq acknowledged \cup {writer[w]}
    BY <1>5 DEF Recorded
  <2>3. writer' = [writer EXCEPT ![w] = NoRecord] /\ writer[w] # NoRecord
    BY <1>5 DEF Writes
  <2>4. ASSUME NEW v \in Writers \ {w}, writer[v] # NoRecord
        PROVE  writer[v] \notin acknowledged' /\ writer[v] \notin OnFile'
    <3>1. writer[v] # writer[w] /\ writer[v] \notin acknowledged \cup OnFile
      BY <2>3, <2>4 DEF AppendedOnce
    <3>2. QED
      BY <2>1, <2>2, <3>1
  <2>5. QED
    BY <1>3, <2>3, <2>4
<1>6. QED
  BY <1>1, <1>2, <1>4, <1>5, StoreSteps

\* A write keeps what is known of the lines of every file.
LEMMA WriteKeepsLines ==
  ASSUME TypeOK, AppendedOnce, \A k \in KindSet : Lined(k),
         NEW w \in Writers, NEW open \in BOOLEAN, NEW line \in {Garbage, writer[w]},
         Writes(w, line, open), Recorded(w, line, open), NEW other \in KindSet
  PROVE  Lined(other)'
<1> DEFINE kind == writer[w].recordKind
           f    == file[kind]
           n    == Len(f.lines)
           rec  == writer[w]
<1>1. /\ rec \in Records /\ kind \in KindSet /\ line \in Line /\ f \in LineFiles(Records)
      /\ f.open => f.lines # <<>>
      /\ file'[kind] = Arrives(f, line, open)
      /\ \A k \in KindSet \ {kind} : file'[k] = file[k]
  BY WriteTypes
<1>2. rec \notin acknowledged /\ rec \notin OnFile /\ rec # Garbage
  BY <1>1, RecordValues DEF AppendedOnce, Writes
<1>3. Garbage \notin acknowledged
  BY RecordValues DEF TypeOK
<1>4. CASE other # kind
  <2>1. file'[other] = file[other] /\ Lined(other)
    BY <1>1, <1>4
  <2> DEFINE lines == file[other].lines
  <2>2. file[other].open => lines[Len(lines)] \notin acknowledged'
    <3>1. SUFFICES ASSUME file[other].open PROVE lines[Len(lines)] \notin acknowledged'
      OBVIOUS
    <3>2. lines \in Seq(Line) /\ lines # <<>>
      BY <3>1 DEF TypeOK, KindSet, LineFiles, Line
    <3>3. Len(lines) \in DOMAIN lines
      BY <3>2
    <3>4. lines[Len(lines)] # rec /\ lines[Len(lines)] \notin acknowledged
      BY <1>2, <2>1, <3>1, <3>3, LinesAreOnFile DEF Lined
    <3>5. QED
      BY <3>4 DEF Recorded
  <2>3. QED
    BY <2>1, <2>2 DEF Lined
<1>5. CASE other = kind
  <2> DEFINE old == f.lines
             new == file'[kind].lines
  <2>1. old \in Seq(Line) /\ DOMAIN old = 1..n /\ n \in Nat
    BY <1>1 DEF LineFiles, Line
  <2>2. file'[kind] \in LineFiles(Records) /\ file'[kind].open = open
    BY <1>1, ArrivesLines
  <2>3. new \in Seq(Line) /\ DOMAIN new = 1..Len(new) /\ Len(new) \in Nat
    BY <2>2 DEF LineFiles, Line
  <2>4. /\ \A k \in 1..n : old[k] # Garbage =>
               old[k].recordKind = kind /\ \A j \in 1..n : old[j] = old[k] => j = k
        /\ \A k \in 1..n : old[k] # rec
    <3>1. Lined(kind)
      BY <1>1
    <3>2. QED
      BY <1>1, <1>2, <2>1, <3>1, LinesAreOnFile DEF Lined
  <2>5. CASE f.open
    <3>1. /\ n \in 1..n /\ Len(new) = n /\ new[n] = Garbage
          /\ \A k \in 1..n : k # n => new[k] = old[k]
      BY <1>1, <2>5, ArrivesLines
    <3>2. open => new[Len(new)] \notin acknowledged'
      BY <1>3, <3>1 DEF Recorded
    <3> HIDE DEF new, old
    <3>3. \A k \in DOMAIN new : new[k] # Garbage =>
            new[k].recordKind = kind /\ \A j \in DOMAIN new : new[j] = new[k] => j = k
      BY <2>3, <2>4, <3>1
    <3>4. QED
      BY <1>5, <2>2, <3>2, <3>3 DEF Lined, new
  <2>6. CASE ~ f.open
    <3>1. /\ Len(new) = n + 1 /\ new[n + 1] = line
          /\ \A k \in 1..n : new[k] = old[k]
      BY <1>1, <2>6, ArrivesLines
    <3>2. open => new[Len(new)] \notin acknowledged'
      BY <1>2, <1>3, <3>1 DEF Recorded
    <3>3. \A k \in 1..(n + 1) : k \in 1..n \/ k = n + 1
      BY <2>1
    <3>4. line \in {Garbage, rec}
      OBVIOUS
    <3>5. rec.recordKind = kind
      OBVIOUS
    <3> HIDE DEF new, old, kind, rec, n
    <3>6. \A k \in DOMAIN new : new[k] # Garbage =>
            new[k].recordKind = kind /\ \A j \in DOMAIN new : new[j] = new[k] => j = k
      BY <2>3, <2>4, <3>1, <3>3, <3>4, <3>5
    <3>7. QED
      BY <1>5, <2>2, <3>2, <3>6 DEF Lined, new
  <2>7. QED
    BY <2>5, <2>6
<1>6. QED
  BY <1>4, <1>5

\* What is known of the lines is kept.
LEMMA LinesKept ==
  ASSUME TypeOK, UniqueIds, AppendedOnce, \A k \in KindSet : Lined(k), [Next]_vars
  PROVE  \A kind \in KindSet : Lined(kind)'
<1>1. ASSUME UNCHANGED <<file, acknowledged>>
      PROVE  \A kind \in KindSet : Lined(kind)'
  BY <1>1 DEF Lined
<1>2. ASSUME NEW w \in Writers, Build(w)
      PROVE  UNCHANGED <<file, acknowledged>>
  BY <1>2 DEF Build
<1>3. ASSUME NEW w \in Writers, NEW open \in BOOLEAN, NEW line \in {Garbage, writer[w]},
             Writes(w, line, open), Recorded(w, line, open)
      PROVE  \A kind \in KindSet : Lined(kind)'
  BY <1>3, WriteKeepsLines
<1>4. QED
  BY <1>1, <1>2, <1>3, StoreSteps

\* An acknowledged record that is in its file stays there: what a write spoils was not
\* acknowledged.
LEMMA InLedgerStays ==
  ASSUME TypeOK, \A k \in KindSet : Lined(k),
         NEW w \in Writers, NEW open \in BOOLEAN, NEW line, Writes(w, line, open),
         NEW record \in acknowledged, InLedger(record)
  PROVE  record \in Range(file'[record.recordKind].lines)
<1> DEFINE kind == writer[w].recordKind
           f    == file[kind]
           n    == Len(f.lines)
<1>1. /\ kind \in KindSet /\ line \in Line /\ f \in LineFiles(Records)
      /\ f.open => f.lines # <<>>
      /\ file'[kind] = Arrives(f, line, open)
      /\ \A k \in KindSet \ {kind} : file'[k] = file[k]
  BY WriteTypes
<1>2. record.recordKind \in KindSet /\ record # Garbage
  BY RecordValues DEF TypeOK, KindSet
<1>3. CASE record.recordKind # kind
  BY <1>1, <1>2, <1>3 DEF InLedger
<1>4. CASE record.recordKind = kind
  <2> DEFINE old == f.lines
             new == file'[kind].lines
  <2>1. old \in Seq(Line) /\ DOMAIN old = 1..n /\ n \in Nat
    BY <1>1 DEF LineFiles, Line
  <2>2. file'[kind] \in LineFiles(Records)
    BY <1>1, ArrivesLines
  <2>3. new \in Seq(Line) /\ DOMAIN new = 1..Len(new)
    BY <2>2 DEF LineFiles, Line
  <2>4. PICK k \in 1..n : old[k] = record
    BY <1>4, <2>1 DEF InLedger, Range
  <2>5. f.open => old[n] \notin acknowledged
    BY <1>1 DEF Lined
  <2>6. CASE f.open
    <3>1. Len(new) = n /\ \A j \in 1..n : j # n => new[j] = old[j]
      BY <1>1, <2>6, ArrivesLines
    <3>2. k # n
      BY <2>4, <2>5, <2>6
    <3>3. new[k] = record /\ k \in DOMAIN new
      BY <2>3, <2>4, <3>1, <3>2
    <3> HIDE DEF new
    <3>4. record \in Range(new)
      BY <3>3 DEF Range
    <3>5. QED
      BY <1>4, <3>4 DEF new
  <2>7. CASE ~ f.open
    <3>1. Len(new) = n + 1 /\ \A j \in 1..n : new[j] = old[j]
      BY <1>1, <2>7, ArrivesLines
    <3>2. new[k] = record /\ k \in DOMAIN new
      BY <2>1, <2>3, <2>4, <3>1
    <3> HIDE DEF new
    <3>3. record \in Range(new)
      BY <3>2 DEF Range
    <3>4. QED
      BY <1>4, <3>3 DEF new
  <2>8. QED
    BY <2>6, <2>7
<1>5. QED
  BY <1>3, <1>4

\* A record that is appended whole is in its file, or spoiled an open line and with it
\* the file.
LEMMA AppendedOrSpoiled ==
  ASSUME TypeOK, NEW w \in Writers, NEW open \in BOOLEAN, ~ open, Writes(w, writer[w], open)
  PROVE  LET kind == writer[w].recordKind
         IN  IF file[kind].open THEN ~ Parses(file'[kind])
             ELSE writer[w] \in Range(file'[kind].lines)
<1> DEFINE kind == writer[w].recordKind
           f    == file[kind]
           n    == Len(f.lines)
           new  == file'[kind].lines
<1>1. /\ writer[w] \in Line /\ f \in LineFiles(Records)
      /\ f.open => f.lines # <<>>
      /\ file'[kind] = Arrives(f, writer[w], open)
  BY WriteTypes
<1>2. file'[kind] \in LineFiles(Records)
  BY <1>1, ArrivesLines
<1>3. new \in Seq(Line) /\ DOMAIN new = 1..Len(new) /\ n \in Nat
  BY <1>1, <1>2 DEF LineFiles, Line
<1>4. CASE f.open
  <2>1. ~ Parses(file'[kind])
    BY <1>1, <1>4, ArrivesLines
  <2>2. QED
    BY <1>4, <2>1
<1>5. CASE ~ f.open
  <2>1. Len(new) = n + 1 /\ new[n + 1] = writer[w]
    BY <1>1, <1>5, ArrivesLines
  <2>2. n + 1 \in DOMAIN new
    BY <1>3, <2>1
  <2> HIDE DEF new
  <2>3. writer[w] \in Range(new)
    BY <2>1, <2>2 DEF Range
  <2>4. QED
    BY <1>5, <2>3 DEF new
<1>6. QED
  BY <1>4, <1>5

\* What is lost stays unreadable, and what is not is still in its file.
LEMMA KeptStays ==
  ASSUME TypeOK, UniqueIds, \A k \in KindSet : Lined(k), Kept, [Next]_vars
  PROVE  Kept'
<1>1. ASSUME UNCHANGED <<file, acknowledged>>
      PROVE  Kept'
  BY <1>1 DEF Kept, InLedger
<1>2. ASSUME NEW w \in Writers, Build(w)
      PROVE  UNCHANGED <<file, acknowledged>>
  BY <1>2 DEF Build
<1>3. ASSUME NEW w \in Writers, NEW open \in BOOLEAN, NEW line \in {Garbage, writer[w]},
             Writes(w, line, open), Recorded(w, line, open)
      PROVE  Kept'
  <2>1. ASSUME NEW record \in acknowledged
        PROVE  record \in Range(file'[record.recordKind].lines) \/ ~ Parses(file'[record.recordKind])
    <3>1. CASE InLedger(record)
      BY <1>3, <3>1, InLedgerStays
    <3>2. CASE ~ Parses(file[record.recordKind])
      <4>1. record.recordKind \in KindSet
        BY RecordValues DEF TypeOK, KindSet
      <4>2. QED
        BY <3>2, <4>1, FilesGrow
    <3>3. QED
      BY <3>1, <3>2 DEF Kept
  <2>2. ASSUME NEW record \in acknowledged' \ acknowledged
        PROVE  record \in Range(file'[record.recordKind].lines) \/ ~ Parses(file'[record.recordKind])
    <3>1. record = writer[w] /\ line = writer[w] /\ ~ open
      BY <1>3, <2>2 DEF Recorded
    <3>2. Writes(w, writer[w], open)
      BY <1>3, <3>1
    <3>3. QED
      BY <3>1, <3>2, AppendedOrSpoiled
  <2>3. QED
    BY <2>1, <2>2 DEF Kept, InLedger
<1>4. QED
  BY <1>1, <1>2, <1>3, StoreSteps

\* There are finitely many kinds.
LEMMA KindsAreFinite == IsFiniteSet(KindSet)
<1>1. Kinds \in Surjection(1..4, KindSet)
  BY DEF Kinds, KindSet, Surjection, Range
<1>2. IsFiniteSet(1..4)
  <2>1. 1 \in Int /\ 4 \in Int
    OBVIOUS
  <2>2. QED
    BY ONLY <2>1, FS_Interval
<1>3. QED
  BY <1>1, <1>2, FS_Surjection

\* The files that are open after a write.
LEMMA OpenAfterWrite ==
  ASSUME TypeOK, NEW w \in Writers, NEW open \in BOOLEAN, NEW line, Writes(w, line, open)
  PROVE  OpenFiles' = IF open THEN OpenFiles \cup {writer[w].recordKind}
                      ELSE OpenFiles \ {writer[w].recordKind}
<1> DEFINE kind == writer[w].recordKind
<1>1. /\ kind \in KindSet /\ line \in Line /\ file[kind] \in LineFiles(Records)
      /\ file[kind].open => file[kind].lines # <<>>
      /\ file'[kind] = Arrives(file[kind], line, open)
      /\ \A k \in KindSet \ {kind} : file'[k] = file[k]
  BY WriteTypes
<1> HIDE DEF kind
<1>2. file'[kind].open = open
  BY <1>1, ArrivesLines
<1>3. QED
  BY <1>1, <1>2 DEF OpenFiles, KindSet, kind

\* A write loses at most the record it appends, and only to an open line.
LEMMA LostAfterWrite ==
  ASSUME TypeOK, \A k \in KindSet : Lined(k),
         NEW w \in Writers, NEW open \in BOOLEAN, NEW line, Writes(w, line, open),
         Recorded(w, line, open)
  PROVE  /\ Lost' \subseteq Lost \cup {writer[w]}
         /\ open \/ ~ file[writer[w].recordKind].open => Lost' \subseteq Lost
<1>1. ASSUME NEW record \in acknowledged, record \in Lost'
      PROVE  record \in Lost
  <2>1. record \notin Range(file'[record.recordKind].lines)
    BY <1>1 DEF Lost, InLedger
  <2>2. ~ InLedger(record)
    BY <2>1, InLedgerStays
  <2>3. QED
    BY <2>2 DEF Lost
<1>2. ASSUME NEW record \in Lost', record \notin acknowledged
      PROVE  record = writer[w] /\ ~ open /\ file[writer[w].recordKind].open
  <2>1. record \in acknowledged' /\ record \notin Range(file'[record.recordKind].lines)
    BY DEF Lost, InLedger
  <2>2. record = writer[w] /\ line = writer[w] /\ ~ open
    BY <1>2, <2>1 DEF Recorded
  <2>3. Writes(w, writer[w], open)
    BY <2>2
  <2>4. file[writer[w].recordKind].open
    BY <2>1, <2>2, <2>3, AppendedOrSpoiled
  <2>5. QED
    BY <2>2, <2>4
<1>3. QED
  BY <1>1, <1>2

\* A set grows by at most one with one element.
LEMMA AddingOne ==
  ASSUME NEW S, NEW e, IsFiniteSet(S)
  PROVE  /\ IsFiniteSet(S \cup {e}) /\ Cardinality(S \cup {e}) <= Cardinality(S) + 1
         /\ Cardinality(S \cup {e}) \in Nat
<1>1. Cardinality(S) \in Nat
  BY FS_CardinalityType
<1>2. CASE e \in S
  <2>1. S \cup {e} = S
    BY <1>2
  <2>2. Cardinality(S) <= Cardinality(S) + 1
    BY <1>1
  <2>3. QED
    BY <1>1, <2>1, <2>2, Zenon
<1>3. CASE e \notin S
  <2>1. IsFiniteSet(S \cup {e}) /\ Cardinality(S \cup {e}) = Cardinality(S) + 1
    BY <1>3, FS_AddElement
  <2>2. Cardinality(S) + 1 <= Cardinality(S) + 1 /\ Cardinality(S) + 1 \in Nat
    BY <1>1
  <2>3. QED
    BY <2>1, <2>2, Zenon
<1>4. QED
  BY <1>2, <1>3

\* Losses and open files together are never more than torn appends.
LEMMA TallyKept ==
  ASSUME TypeOK, UniqueIds, \A k \in KindSet : Lined(k), Tally, [Next]_vars
  PROVE  Tally'
<1>0. /\ IsFiniteSet(acknowledged) /\ IsFiniteSet(Lost) /\ IsFiniteSet(OpenFiles)
      /\ Cardinality(Lost) \in Nat /\ Cardinality(OpenFiles) \in Nat
      /\ Cardinality(Lost) + Cardinality(OpenFiles) <= tears /\ tears \in Nat
  <2>1. Lost \in SUBSET acknowledged /\ OpenFiles \in SUBSET KindSet
    BY DEF Lost, OpenFiles
  <2>2. IsFiniteSet(Lost) /\ IsFiniteSet(OpenFiles)
    BY <2>1, KindsAreFinite, FS_Subset DEF Tally
  <2>3. QED
    BY <2>2, FS_CardinalityType DEF Tally, TypeOK
<1>1. ASSUME UNCHANGED <<file, acknowledged, tears>>
      PROVE  Tally'
  <2>1. Lost' = Lost /\ OpenFiles' = OpenFiles
    BY <1>1 DEF Lost, OpenFiles, InLedger, KindSet
  <2>2. QED
    BY <1>1, <2>1 DEF Tally
<1>2. ASSUME NEW w \in Writers, Build(w)
      PROVE  UNCHANGED <<file, acknowledged, tears>>
  BY <1>2 DEF Build
<1>3. ASSUME NEW w \in Writers, NEW open \in BOOLEAN, NEW line \in {Garbage, writer[w]},
             Writes(w, line, open), Recorded(w, line, open)
      PROVE  Tally'
  <2> DEFINE kind == writer[w].recordKind
             rec  == writer[w]
  <2>0. rec \in Records /\ kind \in KindSet
    BY <1>3, WriteTypes
  <2>1. IsFiniteSet(acknowledged')
    BY <1>0, <1>3, FS_AddElement DEF Recorded
  <2>2. /\ OpenFiles' = IF open THEN OpenFiles \cup {kind} ELSE OpenFiles \ {kind}
        /\ Lost' \subseteq Lost \cup {rec}
        /\ open \/ ~ file[kind].open => Lost' \subseteq Lost
    BY <1>3, OpenAfterWrite, LostAfterWrite
  <2> HIDE DEF kind, rec
  <2>3. Cardinality(Lost') + Cardinality(OpenFiles') <= tears'
    <3>1. /\ IsFiniteSet(Lost \cup {rec}) /\ Cardinality(Lost \cup {rec}) <= Cardinality(Lost) + 1
          /\ Cardinality(Lost \cup {rec}) \in Nat
      BY <1>0, AddingOne
    <3>2. CASE open
      <4>1. IsFiniteSet(Lost') /\ Cardinality(Lost') <= Cardinality(Lost)
        BY <1>0, <2>2, <3>2, FS_Subset
      <4>2. OpenFiles' = OpenFiles \cup {kind} /\ tears' = tears + 1
        BY <1>3, <2>2, <3>2 DEF Recorded
      <4>3. Cardinality(OpenFiles') <= Cardinality(OpenFiles) + 1 /\ Cardinality(OpenFiles') \in Nat
        BY <1>0, <4>2, AddingOne
      <4>4. Cardinality(Lost') \in Nat
        BY <4>1, FS_CardinalityType
      <4>5. QED
        BY <1>0, <4>1, <4>2, <4>3, <4>4
    <3>3. CASE ~ open /\ file[kind].open
      <4>1. /\ IsFiniteSet(Lost') /\ Cardinality(Lost') <= Cardinality(Lost) + 1
            /\ Cardinality(Lost') \in Nat
        <5>1. IsFiniteSet(Lost') /\ Cardinality(Lost') <= Cardinality(Lost \cup {rec})
          BY <2>2, <3>1, FS_Subset
        <5>2. Cardinality(Lost') \in Nat
          BY <5>1, FS_CardinalityType
        <5>3. QED
          BY <1>0, <3>1, <5>1, <5>2
      <4>2. OpenFiles' = OpenFiles \ {kind} /\ kind \in OpenFiles /\ tears' = tears
        BY <1>3, <2>0, <2>2, <3>3 DEF Recorded, OpenFiles
      <4>3. Cardinality(OpenFiles') = Cardinality(OpenFiles) - 1
        BY <1>0, <4>2, FS_RemoveElement
      <4>4. QED
        BY <1>0, <4>1, <4>2, <4>3
    <3>4. CASE ~ open /\ ~ file[kind].open
      <4>1. IsFiniteSet(Lost') /\ Cardinality(Lost') <= Cardinality(Lost)
        BY <1>0, <2>2, <3>4, FS_Subset
      <4>2. OpenFiles' = OpenFiles /\ tears' = tears
        BY <1>3, <2>2, <3>4 DEF Recorded, OpenFiles
      <4>3. Cardinality(Lost') \in Nat
        BY <4>1, FS_CardinalityType
      <4>4. QED
        BY <1>0, <4>1, <4>2, <4>3
    <3>5. QED
      BY <3>2, <3>3, <3>4
  <2>4. ASSUME tears' = 0, NEW k \in KindSet
        PROVE  Parses(file'[k])
    <3>1. tears = 0 /\ ~ open /\ line = rec
      BY <1>0, <1>3, <2>4 DEF Recorded, rec
    <3>2. OpenFiles = {}
      BY <1>0, <3>1, FS_EmptySet
    <3>3. Parses(file[k]) /\ ~ file[k].open
      BY <3>1, <3>2 DEF Tally, OpenFiles
    <3>4. /\ line \in Line /\ file[kind] \in LineFiles(Records)
          /\ file[kind].open => file[kind].lines # <<>>
          /\ file'[kind] = Arrives(file[kind], line, open)
          /\ \A other \in KindSet \ {kind} : file'[other] = file[other]
      BY <1>3, WriteTypes DEF kind
    <3>5. CASE k # kind
      BY <3>3, <3>4, <3>5
    <3>6. CASE k = kind
      <4> DEFINE old == file[kind].lines
                 new == file'[kind].lines
                 n   == Len(old)
      <4>1. /\ file'[kind] \in LineFiles(Records) /\ Len(new) = n + 1 /\ new[n + 1] = line
            /\ \A j \in 1..n : new[j] = old[j]
        BY <3>3, <3>4, <3>6, ArrivesLines
      <4>2. /\ old \in Seq(Line) /\ new \in Seq(Line)
            /\ DOMAIN old = 1..n /\ DOMAIN new = 1..(n + 1) /\ n \in Nat
        BY <3>4, <4>1 DEF LineFiles, Line
      <4>3. \A j \in 1..(n + 1) : j \in 1..n \/ j = n + 1
        BY <4>2
      <4>4. line # Garbage
        BY <2>0, <3>1, RecordValues
      <4>5. \A j \in DOMAIN old : old[j] # Garbage
        BY <3>3, <3>6 DEF Parses
      <4> HIDE DEF old, new, n
      <4>6. \A j \in DOMAIN new : new[j] # Garbage
        BY <4>1, <4>2, <4>3, <4>4, <4>5
      <4>7. QED
        BY <3>6, <4>6 DEF Parses, new
    <3>7. QED
      BY <3>5, <3>6
  <2>5. QED
    BY <2>1, <2>3, <2>4 DEF Tally, KindSet
<1>4. QED
  BY <1>1, <1>2, <1>3, StoreSteps


-----------------------------------------------------------------------------
(* What readers are told.                                                   *)

\* A reader's job is changed by its own steps only, which leave the ledger as it is.
LEMMA JobChanges ==
  ASSUME TypeOK, UniqueIds, [Next]_vars, NEW r \in Readers
  PROVE  \/ reader'[r] = reader[r]
         \/ /\ BeginListing(r) \/ ReadPage(r) \/ BeginExport(r) \/ ExportFile(r) \/ ReadThrows(r)
            /\ UNCHANGED <<file, acknowledged>>
<1>1. CASE reader' = reader
  BY <1>1
<1>2. CASE UNCHANGED vars
  BY <1>2 DEF vars
<1>3. ASSUME NEW w \in Writers,
             Build(w) \/ Refuse(w) \/ AppendFails(w) \/ AppendRecord(w) \/ AppendTorn(w)
      PROVE  reader' = reader
  BY <1>3 DEF Build, Refuse, AppendFails, AppendRecord, AppendTorn
<1>4. ASSUME NEW lookup \in Lookups, LookUp(lookup)
      PROVE  reader' = reader
  BY <1>4 DEF LookUp
<1>5. ASSUME NEW q \in Readers, q # r,
             BeginListing(q) \/ ReadPage(q) \/ BeginExport(q) \/ ExportFile(q) \/ ReadThrows(q)
      PROVE  reader'[r] = reader[r]
  <2>1. Jobs(q)
    BY <1>5, ReaderSteps
  <2>2. reader' = [reader EXCEPT ![q] = reader'[q]] /\ DOMAIN reader = Readers
    BY <2>1 DEF Jobs, TypeOK
  <2> DEFINE job == reader'[q]
  <2> HIDE DEF job
  <2>3. reader' = [reader EXCEPT ![q] = job]
    BY <2>2 DEF job
  <2>4. QED
    BY ONLY <1>5, <2>2, <2>3, r \in Readers
<1>6. ASSUME BeginListing(r) \/ ReadPage(r) \/ BeginExport(r) \/ ExportFile(r) \/ ReadThrows(r)
      PROVE  UNCHANGED <<file, acknowledged>>
  BY <1>6, ReaderSteps
<1>7. QED
  BY <1>1, <1>2, <1>3, <1>4, <1>5, <1>6 DEF Next

\* What was acknowledged stays acknowledged.
LEMMA AcknowledgedStays ==
  ASSUME TypeOK, UniqueIds, [Next]_vars
  PROVE  acknowledged \subseteq acknowledged'
<1>1. ASSUME NEW w \in Writers, Build(w)
      PROVE  UNCHANGED acknowledged
  BY <1>1 DEF Build
<1>2. QED
  BY <1>1, StoreSteps DEF Recorded

\* What a filter found in a file that still parses, it finds again, in the same places.
LEMMA FilterGrows ==
  ASSUME TypeOK, [Next]_vars, NEW kind \in KindSet, Parses(file'[kind]), NEW set
  PROVE  LET old == Among(file[kind].lines, set)
             new == Among(file'[kind].lines, set)
         IN  /\ Parses(file[kind])
             /\ old \in Seq(Line) /\ new \in Seq(Line)
             /\ Len(old) <= Len(new)
             /\ \A k \in 1..Len(old) : new[k] = old[k]
             /\ Range(old) \subseteq Range(new)
<1> DEFINE old == Among(file[kind].lines, set)
           new == Among(file'[kind].lines, set)
<1>1. /\ Parses(file[kind]) /\ old \in Seq(Line)
      /\ new = old \/ \E e \in Line : new = Append(old, e)
  BY FilesGrow
<1> HIDE DEF old, new
<1>2. new \in Seq(Line)
  BY <1>1
<1>3. Len(old) <= Len(new) /\ \A k \in 1..Len(old) : new[k] = old[k]
  BY <1>1
<1>4. DOMAIN old = 1..Len(old) /\ DOMAIN new = 1..Len(new) /\ Len(old) \in Nat /\ Len(new) \in Nat
  BY <1>1, <1>2
<1>5. Range(old) \subseteq Range(new)
  BY <1>3, <1>4 DEF Range
<1>6. QED
  BY <1>1, <1>2, <1>3, <1>5 DEF old, new

\* What is acknowledged, of the kind and fits, is in the listing of a file that parses.
LEMMA ListingIsComplete ==
  ASSUME TypeOK, Kept, NEW record \in acknowledged, Parses(file[record.recordKind]),
         NEW given, record \in Matching(record.recordKind, given)
  PROVE  record \in Range(Listing(record.recordKind, given))
<1>1. record.recordKind \in KindSet
  BY RecordValues DEF TypeOK, KindSet
<1>2. record \in Range(file[record.recordKind].lines)
  BY DEF Kept, InLedger
<1>3. QED
  BY <1>1, <1>2, ListingTypes

\* No record is twice in a listing.
LEMMA ListingIsOnce ==
  ASSUME TypeOK, NEW kind \in KindSet, Lined(kind), NEW given
  PROVE  Cardinality(Range(Listing(kind, given))) = Len(Listing(kind, given))
<1> DEFINE lines == file[kind].lines
           set   == Matching(kind, given)
           s     == Listing(kind, given)
<1>1. lines \in Seq(Line)
  BY DEF TypeOK, KindSet, LineFiles, Line
<1>2. \A a \in set : a # Garbage
  BY RecordValues DEF Matching
<1>3. \A i, j \in DOMAIN lines : lines[i] \in set /\ lines[i] = lines[j] => i = j
  BY <1>2 DEF Lined
<1>4. s = Among(lines, set)
  BY DEF Listing
<1> HIDE DEF lines, set, s
<1>5. s \in Seq(Line) /\ \A i, j \in DOMAIN s : s[i] = s[j] => i = j
  BY <1>1, <1>3, <1>4, AmongMembers
<1>6. Len(s) \in Nat /\ DOMAIN s = 1..Len(s) /\ s \in [1..Len(s) -> Range(s)]
  BY <1>5 DEF Range
<1>7. s \in Bijection(1..Len(s), Range(s))
  <2>1. s \in Injection(1..Len(s), Range(s))
    BY <1>5, <1>6 DEF Injection, IsInjective
  <2>2. s \in Surjection(1..Len(s), Range(s))
    BY <1>6 DEF Surjection, Range
  <2>3. QED
    BY <2>1, <2>2 DEF Bijection
<1>8. IsFiniteSet(1..Len(s)) /\ Cardinality(1..Len(s)) = Len(s)
  <2>1. 1 \in Int /\ Len(s) \in Int
    BY <1>6
  <2>2. /\ IsFiniteSet(1..Len(s))
        /\ Cardinality(1..Len(s)) = IF 1 > Len(s) THEN 0 ELSE Len(s) - 1 + 1
    BY ONLY <2>1, FS_Interval
  <2>3. QED
    BY <1>6, <2>2
<1>9. ExistsBijection(1..Len(s), Range(s))
  BY <1>7 DEF ExistsBijection
<1>10. Cardinality(Range(s)) = Len(s)
  BY <1>8, <1>9, FS_Bijection
<1>11. QED
  BY <1>10 DEF s

\* The first records of a listing are what they were.
LEMMA FirstPages ==
  ASSUME NEW S, NEW T, NEW old \in Seq(S), NEW new \in Seq(T), Len(old) <= Len(new),
         \A k \in 1..Len(old) : new[k] = old[k], NEW c \in 0..Len(old)
  PROVE  SubSeq(new, 1, c) = SubSeq(old, 1, c)
<1>1. /\ c \in Int /\ 1 \in Int /\ c - 1 + 1 = c /\ (IF 1 <= c THEN c - 1 + 1 ELSE 0) = c
      /\ \A i \in 1..c : old[i] \in S /\ new[i] \in T /\ new[i] = old[i] /\ 1 + i - 1 = i
  OBVIOUS
<1>2. /\ SubSeq(new, 1, c) \in Seq(T) /\ Len(SubSeq(new, 1, c)) = c
      /\ \A i \in 1..c : SubSeq(new, 1, c)[i] = new[i]
  BY <1>1, SubSeqProperties
<1>3. /\ SubSeq(old, 1, c) \in Seq(S) /\ Len(SubSeq(old, 1, c)) = c
      /\ \A i \in 1..c : SubSeq(old, 1, c)[i] = old[i]
  BY <1>1, SubSeqProperties
<1> DEFINE a == SubSeq(new, 1, c)
           b == SubSeq(old, 1, c)
<1> HIDE DEF a, b
<1>4. /\ a \in Seq(S \cup T) /\ b \in Seq(S \cup T) /\ Len(a) = Len(b)
      /\ \A i \in 1..Len(a) : a[i] = b[i]
  BY <1>1, <1>2, <1>3 DEF a, b
<1>5. a = b
  BY <1>4, SeqEqual
<1>6. QED
  BY <1>5 DEF a, b

\* Two parts of a listing that follow each other are one.
LEMMA NextPage ==
  ASSUME NEW S, NEW s \in Seq(S), NEW c \in 0..Len(s), NEW d \in c..Len(s)
  PROVE  SubSeq(s, 1, c) \o SubSeq(s, c + 1, d) = SubSeq(s, 1, d)
<1> DEFINE a == SubSeq(s, 1, c)
           b == SubSeq(s, c + 1, d)
           e == SubSeq(s, 1, d)
<1>1. /\ c \in Nat /\ d \in Nat /\ c <= d /\ \A i \in 1..d : s[i] \in S
      /\ c + 1 \in Int /\ 1 \in Int
  OBVIOUS
<1>2. a \in Seq(S) /\ Len(a) = c /\ \A i \in 1..c : a[i] = s[i]
  <2>1. \A i \in 1..c : s[i] \in S /\ 1 + i - 1 = i
    BY <1>1
  <2>2. c - 1 + 1 = c /\ (IF 1 <= c THEN c - 1 + 1 ELSE 0) = c
    BY <1>1
  <2>3. QED
    BY <1>1, <2>1, <2>2, SubSeqProperties
<1>3. e \in Seq(S) /\ Len(e) = d /\ \A i \in 1..d : e[i] = s[i]
  <2>1. \A i \in 1..d : s[i] \in S /\ 1 + i - 1 = i
    BY <1>1
  <2>2. d - 1 + 1 = d /\ (IF 1 <= d THEN d - 1 + 1 ELSE 0) = d
    BY <1>1
  <2>3. QED
    BY <1>1, <2>1, <2>2, SubSeqProperties
<1>4. b \in Seq(S) /\ Len(b) = d - c /\ \A i \in 1..(d - c) : b[i] = s[c + i]
  <2>1. \A i \in (c + 1)..d : s[i] \in S
    BY <1>1
  <2>2. /\ d - (c + 1) + 1 = d - c
        /\ (IF c + 1 <= d THEN d - (c + 1) + 1 ELSE 0) = d - c
        /\ \A i \in 1..(d - c) : (c + 1) + i - 1 = c + i
    BY <1>1
  <2>3. QED
    BY <1>1, <2>1, <2>2, SubSeqProperties
<1> HIDE DEF a, b, e
<1>5. /\ a \o b \in Seq(S) /\ Len(a \o b) = d
      /\ \A i \in 1..d : (a \o b)[i] = IF i <= c THEN a[i] ELSE b[i - c]
  <2>1. /\ a \o b \in Seq(S) /\ Len(a \o b) = Len(a) + Len(b)
        /\ \A i \in 1..Len(a) + Len(b) :
             (a \o b)[i] = IF i <= Len(a) THEN a[i] ELSE b[i - Len(a)]
    BY ONLY <1>2, <1>4, ConcatProperties
  <2>2. Len(a) = c /\ Len(a) + Len(b) = d
    BY <1>1, <1>2, <1>4
  <2>3. QED
    BY ONLY <2>1, <2>2
<1>6. ASSUME NEW i \in 1..d PROVE (a \o b)[i] = e[i]
  <2>1. CASE i <= c
    BY <1>1, <1>2, <1>3, <1>5, <2>1
  <2>2. CASE ~ (i <= c)
    <3>1. i - c \in 1..(d - c) /\ c + (i - c) = i
      BY <1>1, <2>2
    <3>2. QED
      BY <1>3, <1>4, <1>5, <2>2, <3>1
  <2>3. QED
    BY <2>1, <2>2
<1>7. a \o b = e
  BY <1>3, <1>5, <1>6, SeqEqual
<1>8. QED
  BY <1>7 DEF a, b, e

\* A listing that goes on still holds the first records of what it would find.
LEMMA PagedKept ==
  ASSUME TypeOK, UniqueIds, [Next]_vars, NEW r \in Readers, Paged(r)
  PROVE  Paged(r)'
<1>0. SUFFICES ASSUME reader'[r] \in ListJobs, reader'[r].phase = "busy"
      PROVE  /\ reader'[r].before \subseteq acknowledged'
             /\ Parses(file'[reader'[r].query.recordKind]) =>
                  LET listing == Among(file'[reader'[r].query.recordKind].lines,
                                       Matching(reader'[r].query.recordKind, reader'[r].query.given))
                  IN  /\ reader'[r].cursor <= Len(listing)
                      /\ reader'[r].pages = SubSeq(listing, 1, reader'[r].cursor)
  BY DEF Paged, Listing
<1>1. CASE reader'[r] = reader[r]
  <2>1. /\ reader[r] \in ListJobs /\ reader[r].phase = "busy"
        /\ reader[r].before \subseteq acknowledged
    BY <1>0, <1>1 DEF Paged
  <2>2. PICK query \in Listings, c \in Nat, pages \in Seq(Records) :
          query = reader[r].query /\ c = reader[r].cursor /\ pages = reader[r].pages
    BY <2>1 DEF ListJobs
  <2>3. PICK kind \in KindSet : kind = query.recordKind
    BY <2>2, LedgerStoreAssumption DEF KindSet
  <2>4. PICK set : set = Matching(kind, query.given)
    OBVIOUS
  <2>5. ASSUME Parses(file'[kind])
        PROVE  /\ c <= Len(Among(file'[kind].lines, set))
               /\ pages = SubSeq(Among(file'[kind].lines, set), 1, c)
    <3> DEFINE old == Among(file[kind].lines, set)
               new == Among(file'[kind].lines, set)
    <3>1. /\ Parses(file[kind]) /\ old \in Seq(Line) /\ new \in Seq(Line)
          /\ Len(old) <= Len(new) /\ \A k \in 1..Len(old) : new[k] = old[k]
      BY <2>5, FilterGrows
    <3>2. c <= Len(old) /\ pages = SubSeq(old, 1, c)
      BY <2>1, <2>2, <2>3, <2>4, <3>1 DEF Paged, Listing
    <3> HIDE DEF old, new
    <3>3. c \in 0..Len(old) /\ c <= Len(new)
      BY <3>1, <3>2
    <3>4. SubSeq(new, 1, c) = SubSeq(old, 1, c)
      BY <3>1, <3>3, FirstPages
    <3>5. QED
      BY <3>2, <3>3, <3>4 DEF new
  <2>6. QED
    BY <1>1, <2>1, <2>2, <2>3, <2>4, <2>5, AcknowledgedStays
<1>2. ASSUME BeginListing(r)
      PROVE  Paged(r)'
  <2>1. PICK query \in Listings, size \in PageSizes :
          reader'[r] = [job |-> "list", query |-> query, size |-> size, cursor |-> 0,
                        pages |-> <<>>, before |-> acknowledged, phase |-> "busy"]
    BY <1>2 DEF BeginListing, TypeOK
  <2>2. UNCHANGED <<file, acknowledged>>
    BY <1>2 DEF BeginListing
  <2>3. query.recordKind \in KindSet
    BY LedgerStoreAssumption DEF KindSet
  <2> DEFINE listing == Listing(query.recordKind, query.given)
  <2>4. listing \in Seq(Records)
    BY <2>3, ListingTypes
  <2>5. Listing(query.recordKind, query.given)' = listing
    BY <2>2 DEF Listing
  <2> HIDE DEF listing
  <2>6. 0 <= Len(listing) /\ SubSeq(listing, 1, 0) = <<>>
    BY <2>4, SubSeqEmpty
  <2>7. QED
    BY <2>1, <2>2, <2>5, <2>6 DEF Paged
<1>3. ASSUME ReadPage(r)
      PROVE  Paged(r)'
  <2>1. PICK query, cursor : query = reader[r].query /\ cursor = reader[r].cursor
    OBVIOUS
  <2> DEFINE listing == Listing(query.recordKind, query.given)
  <2>2. /\ reader[r] \in ListJobs /\ reader[r].phase = "busy"
        /\ query.recordKind \in KindSet /\ Parses(file[query.recordKind])
        /\ reader'[r].query = query /\ reader'[r].before = reader[r].before
    BY <1>3, <2>1, PageRead
  <2>3. PICK end \in 0..Len(listing) :
          /\ cursor <= Len(listing) => cursor <= end
          /\ reader'[r].pages = reader[r].pages \o SubSeq(listing, cursor + 1, end)
          /\ reader'[r].phase = "busy" => reader'[r].cursor = end
    BY <1>3, <2>1, PageRead
  <2>4. UNCHANGED <<file, acknowledged>>
    BY <1>3 DEF ReadPage
  <2>5. Listing(query.recordKind, query.given)' = listing
    BY <2>4 DEF Listing
  <2>6. listing \in Seq(Records) /\ cursor \in Nat
    BY <2>1, <2>2, ListingTypes DEF ListJobs
  <2>7. /\ reader[r].before \subseteq acknowledged /\ cursor <= Len(listing)
        /\ reader[r].pages = SubSeq(listing, 1, cursor)
    BY <2>1, <2>2 DEF Paged
  <2> HIDE DEF listing
  <2>8. /\ cursor \in 0..Len(listing) /\ end \in cursor..Len(listing) /\ end <= Len(listing)
    BY <2>3, <2>6, <2>7
  <2>9. reader'[r].pages = SubSeq(listing, 1, end)
    BY <2>3, <2>6, <2>7, <2>8, NextPage
  <2>10. QED
    BY <2>2, <2>3, <2>4, <2>5, <2>7, <2>8, <2>9 DEF Paged
<1>4. ASSUME BeginExport(r) \/ ExportFile(r)
      PROVE  reader'[r] \notin ListJobs
  <2>1. CASE BeginExport(r)
    <3>1. reader'[r].job = "export"
      BY <2>1 DEF BeginExport, TypeOK
    <3>2. QED
      BY <3>1 DEF ListJobs
  <2>2. CASE ExportFile(r)
    <3>1. reader'[r] \in ExportJobs
      BY <2>2, FileExported
    <3>2. QED
      BY <3>1 DEF ListJobs, ExportJobs
  <2>3. QED
    BY <1>4, <2>1, <2>2
<1>5. ASSUME ReadThrows(r)
      PROVE  reader'[r].phase = "failed"
  BY <1>5, JobsByName DEF ReadThrows, TypeOK, ListJobs, ExportJobs
<1>6. CASE ~ (reader'[r] = reader[r])
  <2>1. Paged(r)'
    BY <1>0, <1>2, <1>3, <1>4, <1>5, <1>6, JobChanges
  <2>2. QED
    BY <1>0, <2>1 DEF Paged, Listing
<1>7. QED
  BY <1>1, <1>6

\* A listing that ends holds every record it was to find, and each once.
LEMMA PagesStayComplete ==
  ASSUME IInv, TypeOK', [Next]_vars
  PROVE  PagesMissNothing'
<1> USE DEF IInv
<1>1. SUFFICES ASSUME NEW r \in Readers, reader'[r].job = "list", reader'[r].phase = "done"
      PROVE  /\ Cardinality(Range(reader'[r].pages)) = Len(reader'[r].pages)
             /\ \A record \in reader'[r].before :
                  (/\ record.recordKind = reader'[r].query.recordKind
                   /\ \A f \in DOMAIN reader'[r].query.given :
                        FieldMatches(record, f, reader'[r].query.given[f]))
                    => record \in Range(reader'[r].pages)
  BY DEF PagesMissNothing
<1>2. CASE reader'[r] = reader[r]
  BY <1>1, <1>2 DEF PagesMissNothing
<1>3. CASE ReadPage(r)
  <2>1. PICK query : query = reader[r].query
    OBVIOUS
  <2> DEFINE listing == Listing(query.recordKind, query.given)
  <2>2. /\ reader[r] \in ListJobs /\ reader[r].phase = "busy"
        /\ query.recordKind \in KindSet /\ Parses(file[query.recordKind])
        /\ reader'[r].query = query /\ reader'[r].before = reader[r].before
        /\ reader'[r].pages = reader[r].pages \o SubSeq(listing, reader[r].cursor + 1, Len(listing))
        /\ reader[r].cursor <= Len(listing) => reader[r].cursor <= Len(listing)
    BY <1>1, <1>3, <2>1, PageRead
  <2>3. /\ reader[r].before \subseteq acknowledged /\ reader[r].cursor <= Len(listing)
        /\ reader[r].pages = SubSeq(listing, 1, reader[r].cursor)
    BY <2>1, <2>2 DEF Paged
  <2>4. listing \in Seq(Records) /\ reader[r].cursor \in Nat
    BY <2>2, ListingTypes DEF ListJobs
  <2>5. reader'[r].pages = listing
    <3> DEFINE c == reader[r].cursor
    <3> HIDE DEF listing, c
    <3>1. c \in 0..Len(listing) /\ Len(listing) \in c..Len(listing)
      BY <2>3, <2>4 DEF c
    <3>2. SubSeq(listing, 1, c) \o SubSeq(listing, c + 1, Len(listing)) = SubSeq(listing, 1, Len(listing))
      BY <2>4, <3>1, NextPage
    <3>3. SubSeq(listing, 1, Len(listing)) = listing
      BY <2>4, SubSeqFull
    <3>4. QED
      BY <2>2, <2>3, <3>2, <3>3 DEF c
  <2>6. Cardinality(Range(listing)) = Len(listing)
    BY <2>2, ListingIsOnce
  <2>7. ASSUME NEW record \in reader[r].before, record.recordKind = query.recordKind,
               \A f \in DOMAIN query.given : FieldMatches(record, f, query.given[f])
        PROVE  record \in Range(listing)
    <3>1. record \in acknowledged /\ record \in Records
      BY <2>3, <2>7 DEF TypeOK
    <3>2. record \in Matching(record.recordKind, query.given)
      BY <2>7, <3>1 DEF Matching
    <3>3. QED
      BY <2>2, <2>7, <3>1, <3>2, ListingIsComplete
  <2> HIDE DEF listing
  <2>8. QED
    BY <2>2, <2>5, <2>6, <2>7
<1>4. ASSUME BeginListing(r) \/ BeginExport(r) \/ ExportFile(r) \/ ReadThrows(r)
      PROVE  FALSE
  <2>1. CASE BeginListing(r)
    <3>1. reader'[r].phase = "busy"
      BY <2>1 DEF BeginListing, TypeOK
    <3>2. QED
      BY <1>1, <3>1
  <2>2. CASE BeginExport(r)
    <3>1. reader'[r].job = "export"
      BY <2>2 DEF BeginExport, TypeOK
    <3>2. QED
      BY <1>1, <3>1
  <2>3. CASE ExportFile(r)
    <3>1. reader'[r] \in ExportJobs
      BY <2>3, FileExported
    <3>2. QED
      BY <1>1, <3>1 DEF ExportJobs
  <2>4. CASE ReadThrows(r)
    <3>1. reader'[r].phase = "failed"
      BY <2>4, JobsByName DEF ReadThrows, TypeOK, ListJobs, ExportJobs
    <3>2. QED
      BY <1>1, <3>1
  <2>5. QED
    BY <1>4, <2>1, <2>2, <2>3, <2>4
<1>5. QED
  BY <1>2, <1>3, <1>4, JobChanges

\* A record an export wants fits the query it puts to the record's file, which is among
\* those it reads.
LEMMA WantedAreSought ==
  ASSUME NEW export \in Exports, NEW record \in Records, Wants(export, record)
  PROVE  /\ record \in Matching(record.recordKind, ExportGiven(record.recordKind, export))
         /\ record.recordKind \in Range(ExportKinds(export))
<1>1. record.recordKind \in KindSet
  BY RecordValues DEF KindSet
<1>2. record \in Matching(record.recordKind, ExportGiven(record.recordKind, export))
  <2>1. CASE export.capability = {}
    <3>1. DOMAIN ExportGiven(record.recordKind, export) = {}
      BY <2>1 DEF ExportGiven
    <3>2. QED
      BY <3>1 DEF Matching
  <2>2. CASE export.capability # {}
    <3>1. record.capabilityId \in export.capability
      BY <2>2 DEF Wants
    <3> DEFINE id == CHOOSE i \in export.capability : TRUE
    <3>2. id \in export.capability /\ id = record.capabilityId
      BY <3>1, LedgerStoreAssumption
    <3>3. ExportGiven(record.recordKind, export) = [capabilityId |-> id]
      BY <2>2 DEF ExportGiven
    <3> HIDE DEF id
    <3>4. FieldMatches(record, "capabilityId", id)
      BY <3>2 DEF FieldMatches
    <3>5. QED
      BY <3>3, <3>4 DEF Matching
  <2>3. QED
    BY <2>1, <2>2
<1>3. record.recordKind \in Range(ExportKinds(export))
  <2>1. Kinds \in Seq(KindSet)
    BY DEF Kinds, KindSet, Range
  <2> DEFINE set == {kind \in export.kinds : kind = "policy" => export.capability = {}}
  <2>2. Range(ExportKinds(export)) = Range(Kinds) \cap set
    BY <2>1, AmongMembers DEF ExportKinds
  <2>3. record.recordKind \in set
    BY DEF Wants
  <2>4. QED
    BY <1>1, <2>2, <2>3 DEF KindSet
<1>4. QED
  BY <1>2, <1>3

\* What an export wants it has, after reading a file, unless it is in a file still to read.
LEMMA FileGathers ==
  ASSUME IInv, NEW r \in Readers, ExportFile(r),
         NEW record \in reader[r].before, Wants(reader[r].export, record)
  PROVE  LET job  == reader[r]
             kind == Head(job.left)
             all  == job.records \o Listing(kind, ExportGiven(kind, job.export))
         IN  record \in Range(all) \/ record.recordKind \in Range(Tail(job.left))
<1> USE DEF IInv
<1> DEFINE job   == reader[r]
           kind  == Head(job.left)
           given == ExportGiven(kind, job.export)
           all   == job.records \o Listing(kind, given)
<1>1. /\ job \in ExportJobs /\ job.phase = "busy" /\ kind \in KindSet /\ Parses(file[kind])
      /\ Range(job.left) = {kind} \cup Range(Tail(job.left))
  BY FileExported
<1>2. Range(all) = Range(job.records) \cup Range(Listing(kind, given))
  BY <1>1, GatheredRecords
<1>3. /\ record \in acknowledged /\ record \in Records
      /\ record \in Range(job.records) \/ record.recordKind \in Range(job.left)
  BY <1>1 DEF Gathers, TypeOK
<1>4. ASSUME record.recordKind = kind
      PROVE  record \in Range(Listing(kind, given))
  <2>1. job.export \in Exports
    BY <1>1 DEF ExportJobs
  <2>2. record \in Matching(record.recordKind, ExportGiven(record.recordKind, job.export))
    BY <1>3, <2>1, WantedAreSought
  <2>3. record \in Matching(record.recordKind, given)
    BY <1>4, <2>2
  <2> HIDE DEF given, kind
  <2>4. record \in Range(Listing(record.recordKind, given))
    BY <1>1, <1>3, <1>4, <2>3, ListingIsComplete
  <2>5. QED
    BY <1>4, <2>4
<1> HIDE DEF kind, given, all, job
<1>5. record \in Range(all) \/ record.recordKind \in Range(Tail(job.left))
  BY <1>1, <1>2, <1>3, <1>4
<1>6. QED
  BY <1>5 DEF kind, given, all, job

\* An export that begins looks for what was acknowledged in the files it is to read.
LEMMA ExportBegins ==
  ASSUME TypeOK, NEW r \in Readers, BeginExport(r)
  PROVE  /\ reader'[r] \in ExportJobs /\ reader'[r].before = acknowledged
         /\ \A record \in acknowledged : Wants(reader'[r].export, record) =>
              record.recordKind \in Range(reader'[r].left)
         /\ reader'[r].phase = "done" => Range(reader'[r].left) = {}
<1>1. PICK export \in Exports :
        reader'[r] = [job |-> "export", export |-> export, left |-> ExportKinds(export),
                      records |-> <<>>, before |-> acknowledged,
                      phase |-> IF ExportKinds(export) = <<>> THEN "done" ELSE "busy"]
  BY DEF BeginExport, ExportPhase, TypeOK
<1>2. ExportKinds(export) \in Seq(Range(Kinds))
  <2>1. Kinds \in Seq(Range(Kinds))
    BY DEF Kinds, Range
  <2>2. QED
    BY <2>1, AmongMembers DEF ExportKinds
<1>3. acknowledged \in SUBSET Records /\ <<>> \in Seq(Records) /\ Range(<<>>) = {}
  BY DEF TypeOK, Range
<1>4. reader'[r] \in ExportJobs
  BY <1>1, <1>2, <1>3 DEF ExportJobs
<1>5. \A record \in acknowledged : Wants(export, record) =>
        record.recordKind \in Range(ExportKinds(export))
  BY <1>3, WantedAreSought
<1>6. QED
  BY <1>1, <1>3, <1>4, <1>5

\* An export that goes on still lacks nothing but what is in files it is to read.
LEMMA GathersKept ==
  ASSUME IInv, [Next]_vars, NEW r \in Readers
  PROVE  Gathers(r)'
<1> USE DEF IInv
<1>0. SUFFICES ASSUME reader'[r] \in ExportJobs, reader'[r].phase = "busy"
      PROVE  /\ reader'[r].before \subseteq acknowledged'
             /\ \A record \in reader'[r].before : Wants(reader'[r].export, record) =>
                  \/ record \in Range(reader'[r].records)
                  \/ record.recordKind \in Range(reader'[r].left)
  BY DEF Gathers
<1>1. CASE reader'[r] = reader[r]
  BY <1>0, <1>1, AcknowledgedStays DEF Gathers
<1>2. CASE BeginExport(r)
  <2>1. acknowledged' = acknowledged
    BY <1>2 DEF BeginExport
  <2>2. QED
    BY <1>2, <2>1, ExportBegins
<1>3. CASE ExportFile(r)
  <2> DEFINE job  == reader[r]
             kind == Head(job.left)
             all  == job.records \o Listing(kind, ExportGiven(kind, job.export))
  <2>1. /\ job \in ExportJobs /\ job.phase = "busy"
        /\ reader'[r].export = job.export /\ reader'[r].before = job.before
        /\ reader'[r].left = Tail(job.left) /\ reader'[r].records = all
    BY <1>0, <1>3, FileExported
  <2>2. acknowledged' = acknowledged /\ job.before \subseteq acknowledged
    BY <1>3, <2>1 DEF ExportFile, Gathers
  <2>3. \A record \in job.before : Wants(job.export, record) =>
          record \in Range(all) \/ record.recordKind \in Range(Tail(job.left))
    BY <1>3, FileGathers
  <2> HIDE DEF all
  <2>4. QED
    BY <2>1, <2>2, <2>3
<1>4. ASSUME BeginListing(r) \/ ReadPage(r) \/ ReadThrows(r)
      PROVE  FALSE
  <2>1. CASE BeginListing(r)
    <3>1. reader'[r].job = "list"
      BY <2>1 DEF BeginListing, TypeOK
    <3>2. QED
      BY <1>0, <3>1 DEF ExportJobs
  <2>2. CASE ReadPage(r)
    <3>1. reader'[r] \in ListJobs
      BY <2>2, PageRead
    <3>2. QED
      BY <1>0, <3>1 DEF ExportJobs, ListJobs
  <2>3. CASE ReadThrows(r)
    <3>1. reader'[r].phase = "failed"
      BY <2>3, JobsByName DEF ReadThrows, TypeOK, ListJobs, ExportJobs
    <3>2. QED
      BY <1>0, <3>1
  <2>4. QED
    BY <1>4, <2>1, <2>2, <2>3
<1>5. QED
  BY <1>1, <1>2, <1>3, <1>4, JobChanges

\* An export that ends has left out later records only.
LEMMA ExportStaysOldest ==
  ASSUME IInv, TypeOK', [Next]_vars
  PROVE  ExportIsOldest'
<1> USE DEF IInv
<1>1. SUFFICES ASSUME NEW r \in Readers, reader'[r].job = "export", reader'[r].phase = "done",
                      NEW record \in reader'[r].before, Wants(reader'[r].export, record),
                      record \notin Range(reader'[r].records)
      PROVE  /\ Cardinality(Range(reader'[r].records)) = reader'[r].export.limit
             /\ \A other \in Range(reader'[r].records) : other.recordedAt <= record.recordedAt
  BY DEF ExportIsOldest
<1>2. CASE reader'[r] = reader[r]
  BY <1>1, <1>2 DEF ExportIsOldest
<1>3. CASE BeginExport(r)
  <2>1. /\ reader'[r].before = acknowledged
        /\ \A other \in acknowledged : Wants(reader'[r].export, other) =>
             other.recordKind \in Range(reader'[r].left)
        /\ Range(reader'[r].left) = {}
    BY <1>1, <1>3, ExportBegins
  <2>2. QED
    BY <1>1, <2>1
<1>4. CASE ExportFile(r)
  <2> DEFINE job  == reader[r]
             kind == Head(job.left)
             all  == job.records \o Listing(kind, ExportGiven(kind, job.export))
             limit == job.export.limit
  <2>1. /\ job \in ExportJobs /\ kind \in KindSet
        /\ reader'[r].export = job.export /\ reader'[r].before = job.before
        /\ reader'[r].left = Tail(job.left) /\ Range(reader'[r].left) = {}
        /\ reader'[r].records = Exported(all, limit)
    BY <1>1, <1>4, FileExported
  <2>2. record \in Range(all) \/ record.recordKind \in Range(Tail(job.left))
    BY <1>1, <1>4, <2>1, FileGathers
  <2>3. all \in Seq(Records) /\ Sortable(Range(all))
    BY <2>1, GatheredRecords
  <2>4. limit \in Nat \ {0}
    BY <2>1, LedgerStoreAssumption DEF ExportJobs
  <2> HIDE DEF all, limit
  <2>5. record \in Range(all) \ Range(Exported(all, limit))
    BY <1>1, <2>1, <2>2
  <2>6. /\ Cardinality(Range(Exported(all, limit))) = limit
        /\ \A other \in Range(Exported(all, limit)) : other.recordedAt <= record.recordedAt
    BY <2>3, <2>4, <2>5, ExportedAreOldest
  <2>7. QED
    BY <2>1, <2>6 DEF limit
<1>5. ASSUME BeginListing(r) \/ ReadPage(r) \/ ReadThrows(r)
      PROVE  FALSE
  <2>1. CASE BeginListing(r)
    <3>1. reader'[r].job = "list"
      BY <2>1 DEF BeginListing, TypeOK
    <3>2. QED
      BY <1>1, <3>1
  <2>2. CASE ReadPage(r)
    <3>1. reader'[r] \in ListJobs
      BY <2>2, PageRead
    <3>2. QED
      BY <1>1, <3>1 DEF ListJobs
  <2>3. CASE ReadThrows(r)
    <3>1. reader'[r].phase = "failed"
      BY <2>3, JobsByName DEF ReadThrows, TypeOK, ListJobs, ExportJobs
    <3>2. QED
      BY <1>1, <3>1
  <2>4. QED
    BY <1>5, <2>1, <2>2, <2>3
<1>6. QED
  BY <1>2, <1>3, <1>4, <1>5, JobChanges

\* What was a candidate still is one, and the first one stays the first.
LEMMA CandidatesStay ==
  ASSUME TypeOK, [Next]_vars, NEW lookup \in Lookups, Parses(file'[lookup.recordKind])
  PROVE  /\ Parses(file[lookup.recordKind])
         /\ Range(Candidates(lookup)) \subseteq Range(Candidates(lookup)')
         /\ Candidates(lookup) # <<>> => Candidates(lookup)'[1] = Candidates(lookup)[1]
<1>1. PICK kind \in KindSet : kind = lookup.recordKind
  BY LedgerStoreAssumption DEF KindSet
<1>2. PICK set : set = IF lookup.recordKind = "policy"
                       THEN {record \in Matching(lookup.recordKind, lookup.given) :
                               record.event # "failed_activation"}
                       ELSE Matching(lookup.recordKind, lookup.given)
  OBVIOUS
<1> DEFINE old == Among(file[kind].lines, set)
           new == Among(file'[kind].lines, set)
<1>3. Candidates(lookup) = old /\ Candidates(lookup)' = new
  BY <1>1, <1>2 DEF Candidates
<1>4. /\ Parses(file[kind]) /\ old \in Seq(Line)
      /\ \A k \in 1..Len(old) : new[k] = old[k]
      /\ Range(old) \subseteq Range(new)
  BY <1>1, FilterGrows
<1> HIDE DEF old, new
<1>5. old # <<>> => 1 \in 1..Len(old)
  BY <1>4
<1>6. QED
  BY <1>1, <1>3, <1>4, <1>5

\* An answer is what it was unless its lookup asks again.
LEMMA AnswerChanges ==
  ASSUME TypeOK, UniqueIds, [Next]_vars, NEW lookup \in Lookups
  PROVE  \/ answers'[lookup] = answers[lookup]
         \/ /\ Parses(file[lookup.recordKind])
            /\ answers'[lookup] = Answer(lookup)
            /\ file' = file
<1>1. CASE UNCHANGED vars
  BY <1>1 DEF vars
<1>2. ASSUME NEW w \in Writers,
             Build(w) \/ Refuse(w) \/ AppendFails(w) \/ AppendRecord(w) \/ AppendTorn(w)
      PROVE  answers' = answers
  BY <1>2 DEF Build, Refuse, AppendFails, AppendRecord, AppendTorn
<1>3. ASSUME NEW other \in Lookups, LookUp(other)
      PROVE  \/ answers'[lookup] = answers[lookup]
             \/ /\ Parses(file[lookup.recordKind])
                /\ answers'[lookup] = Answer(lookup)
                /\ file' = file
  BY <1>3 DEF LookUp, TypeOK
<1>4. ASSUME NEW r \in Readers,
             BeginListing(r) \/ ReadPage(r) \/ BeginExport(r) \/ ExportFile(r) \/ ReadThrows(r)
      PROVE  answers' = answers
  BY <1>4, ReaderSteps
<1>5. QED
  BY <1>1, <1>2, <1>3, <1>4 DEF Next

\* What was answered can still be answered.
LEMMA AnswersKept ==
  ASSUME TypeOK, UniqueIds, Answers, [Next]_vars
  PROVE  Answers'
<1>1. SUFFICES ASSUME NEW lookup \in Lookups, answers'[lookup] # NoRecord,
                      Parses(file'[lookup.recordKind])
      PROVE  /\ answers'[lookup] \in Range(Candidates(lookup)')
             /\ lookup.recordKind = "invocation" => answers'[lookup] = Candidates(lookup)'[1]
  BY DEF Answers
<1>2. CASE answers'[lookup] = answers[lookup]
  <2>1. /\ Parses(file[lookup.recordKind])
        /\ Range(Candidates(lookup)) \subseteq Range(Candidates(lookup)')
        /\ Candidates(lookup) # <<>> => Candidates(lookup)'[1] = Candidates(lookup)[1]
    BY <1>1, CandidatesStay
  <2>2. /\ answers[lookup] \in Range(Candidates(lookup))
        /\ lookup.recordKind = "invocation" => answers[lookup] = Candidates(lookup)[1]
    BY <1>1, <1>2, <2>1 DEF Answers
  <2>3. Candidates(lookup) # <<>>
    BY <2>2 DEF Range
  <2>4. QED
    BY <1>2, <2>1, <2>2, <2>3
<1>3. ASSUME answers'[lookup] = Answer(lookup), file' = file
      PROVE  /\ answers'[lookup] \in Range(Candidates(lookup)')
             /\ lookup.recordKind = "invocation" => answers'[lookup] = Candidates(lookup)'[1]
  <2>1. Candidates(lookup)' = Candidates(lookup)
    BY <1>3 DEF Candidates
  <2>2. /\ Answer(lookup) \in Range(Candidates(lookup))
        /\ lookup.recordKind = "invocation" => Answer(lookup) = Candidates(lookup)[1]
    BY <1>1, <1>3, AnswerIsCandidate
  <2>3. QED
    BY <1>3, <2>1, <2>2
<1>4. QED
  BY <1>2, <1>3, AnswerChanges

-----------------------------------------------------------------------------
(* The theorems.                                                            *)

\* The invariant is inductive.
LEMMA StepPreserves ==
  ASSUME IInv, [Next]_vars
  PROVE  IInv'
<1> USE DEF IInv
<1>1. TypeOK' /\ UniqueIds'
  BY TypesKept, IdsStayUnique
<1>2. AppendedOnce'
  BY AppendedOnceKept
<1>3. \A kind \in KindSet : Lined(kind)'
  BY LinesKept
<1>4. Tally' /\ Kept'
  BY TallyKept, KeptStays
<1>5. \A r \in Readers : Paged(r)' /\ Gathers(r)'
  BY PagedKept, GathersKept
<1>6. PagesMissNothing' /\ ExportIsOldest'
  BY <1>1, PagesStayComplete, ExportStaysOldest
<1>7. Answers'
  BY AnswersKept
<1>8. QED
  BY <1>1, <1>2, <1>3, <1>4, <1>5, <1>6, <1>7

\* In every state of the ledgers the invariant holds.
THEOREM LedgerInvariant == Spec => []IInv
<1>1. IInv /\ [Next]_vars => IInv'
  BY StepPreserves
<1>2. QED
  BY InitEstablishes, <1>1, PTL DEF Spec

\* The ledgers keep their types.
THEOREM StoreTypes == Spec => []TypeOK
<1>1. IInv => TypeOK
  BY DEF IInv
<1>2. QED
  BY LedgerInvariant, <1>1, PTL

\* However many processes append at once, a record whose append returned is lost only to a
\* line that a torn append left open: never more records than torn appends, and without
\* one every file can be read.
THEOREM OnlyTornAppendsLoseRecords == Spec => []LossesAreTears
<1>1. IInv => LossesAreTears
  <2> SUFFICES ASSUME IInv PROVE LossesAreTears
    OBVIOUS
  <2>1. /\ IsFiniteSet(acknowledged) /\ Cardinality(Lost) + Cardinality(OpenFiles) <= tears
        /\ tears = 0 => \A kind \in KindSet : Parses(file[kind])
    BY DEF IInv, Tally
  <2>2. Lost \in SUBSET acknowledged /\ OpenFiles \in SUBSET KindSet /\ tears \in Int
    BY DEF Lost, OpenFiles, IInv, TypeOK
  <2>3. Cardinality(Lost) \in Nat /\ Cardinality(OpenFiles) \in Nat
    BY <2>1, <2>2, KindsAreFinite, FS_Subset, FS_CardinalityType
  <2>4. Cardinality(Lost) <= tears
    BY <2>1, <2>2, <2>3
  <2>5. QED
    BY <2>1, <2>4 DEF LossesAreTears, Lost, KindSet
<1>2. QED
  BY LedgerInvariant, <1>1, PTL

\* A reader that pages to the end while others append gets every record of its query that
\* was acknowledged before it began, and none twice.
THEOREM PagingIsComplete == Spec => []PagesMissNothing
<1>1. IInv => PagesMissNothing
  BY DEF IInv
<1>2. QED
  BY LedgerInvariant, <1>1, PTL

\* An export that is cut at its limit has left out only later records, although it reads
\* file after file while others append.
THEOREM ExportsKeepTheOldest == Spec => []ExportIsOldest
<1>1. IInv => ExportIsOldest
  BY DEF IInv
<1>2. QED
  BY LedgerInvariant, <1>1, PTL

\* Who asks again for a record is never told of an older state.
THEOREM AnswersNeverGoBack == Spec => LookupsNeverGoBack
<1>1. ASSUME IInv, [Next]_vars, NEW lookup \in Lookups, answers[lookup] # NoRecord
      PROVE  /\ answers'[lookup] # NoRecord
             /\ lookup.recordKind = "invocation" => answers'[lookup] = answers[lookup]
             /\ lookup.recordKind # "invocation" =>
                  answers'[lookup].recordedAt >= answers[lookup].recordedAt
  <2>1. CASE answers'[lookup] = answers[lookup]
    <3>1. answers[lookup] \in Records
      BY <1>1 DEF IInv, TypeOK
    <3>2. answers[lookup].recordedAt \in Nat
      BY <3>1, RecordValues
    <3>3. QED
      BY <1>1, <2>1, <3>2
  <2>2. ASSUME Parses(file[lookup.recordKind]), answers'[lookup] = Answer(lookup)
        PROVE  /\ answers'[lookup] # NoRecord
               /\ lookup.recordKind = "invocation" => answers'[lookup] = answers[lookup]
               /\ lookup.recordKind # "invocation" =>
                    answers'[lookup].recordedAt >= answers[lookup].recordedAt
    <3>1. /\ answers[lookup] \in Range(Candidates(lookup))
          /\ lookup.recordKind = "invocation" => answers[lookup] = Candidates(lookup)[1]
      BY <1>1, <2>2 DEF IInv, Answers
    <3>2. Candidates(lookup) # <<>>
      BY <3>1 DEF Range
    <3>3. /\ Answer(lookup) \in Records
          /\ lookup.recordKind = "invocation" => Answer(lookup) = Candidates(lookup)[1]
          /\ lookup.recordKind # "invocation" =>
               answers[lookup].recordedAt <= Answer(lookup).recordedAt
      BY <1>1, <3>1, <3>2, AnswerIsCandidate DEF IInv
    <3>4. Answer(lookup) # NoRecord
      BY <3>3, RecordValues
    <3>5. answers[lookup] \in Records
      BY <1>1 DEF IInv, TypeOK
    <3>6. answers[lookup].recordedAt \in Nat /\ Answer(lookup).recordedAt \in Nat
      BY <3>3, <3>5, RecordValues
    <3>7. QED
      BY <2>2, <3>1, <3>3, <3>4, <3>6
  <2>3. QED
    BY <1>1, <2>1, <2>2, AnswerChanges DEF IInv
<1>2. IInv /\ [Next]_vars =>
        [\A lookup \in Lookups : answers[lookup] # NoRecord =>
           /\ answers'[lookup] # NoRecord
           /\ lookup.recordKind = "invocation" => answers'[lookup] = answers[lookup]
           /\ lookup.recordKind # "invocation" =>
                answers'[lookup].recordedAt >= answers[lookup].recordedAt]_vars
  BY <1>1
<1>3. QED
  BY LedgerInvariant, <1>2, PTL DEF Spec, LookupsNeverGoBack
=============================================================================
