-------------------------- MODULE PolicyLedgerProofs --------------------------
(***************************************************************************)
(* For any number of processes, changes, failures and revisions: the       *)
(* active revision is one the ledger knows, and a torn active file stays   *)
(* torn.  (See PolicyLedger.)                                              *)
(***************************************************************************)
EXTENDS PolicyLedger, SequenceTheorems, TLAPS

-----------------------------------------------------------------------------
(* Values of the files.                                                     *)

\* A change record is never a line that does not parse.
LEMMA ChangeIsNoGarbage ==
  ASSUME NEW record \in ChangeRecord PROVE record # Garbage
<1>1. DOMAIN record = {"kind", "fromRevision", "toRevision"}
  BY DEF ChangeRecord
<1>2. DOMAIN Garbage = {"torn"}
  BY DEF Garbage
<1> QED BY <1>1, <1>2

\* What an active file holds tells the cases apart.
LEMMA ActiveValues ==
  ASSUME NEW r
  PROVE  /\ Active(r) \notin {Missing, Emptied, Torn}
         /\ Active(r).revision = r
         /\ Missing \notin {Emptied, Torn}
<1>1. /\ DOMAIN Active(r) = {"revision"}
      /\ DOMAIN Missing = {"missing"}
      /\ DOMAIN Emptied = {"emptied"}
      /\ DOMAIN Torn = {"torn"}
  BY DEF Active, Missing, Emptied, Torn
<1>2. Active(r).revision = r
  BY DEF Active
<1> QED BY <1>1, <1>2

\* What arrives keeps the file a file of lines; if all of it parses, the line was
\* appended to a file that parsed.
LEMMA ArrivesLines ==
  ASSUME NEW file \in LineFiles(ChangeRecord), file.open => file.lines # <<>>,
         NEW line \in ChangeRecord \cup {Garbage}, NEW open \in BOOLEAN
  PROVE  LET new == Arrives(file, line, open)
         IN  /\ new \in LineFiles(ChangeRecord)
             /\ new.lines # <<>>
             /\ Parses(new) => /\ Parses(file)
                               /\ line # Garbage
                               /\ new.lines = Append(file.lines, line)
<1> DEFINE new == Arrives(file, line, open)
           n   == Len(file.lines)
<1>1. /\ file.lines \in Seq(ChangeRecord \cup {Garbage})
      /\ n \in Nat
      /\ DOMAIN file.lines = 1..n
  BY DEF LineFiles
<1>2. new.open = open
  BY DEF Arrives
<1>3. CASE file.open
  <2>1. new.lines = [file.lines EXCEPT ![n] = Garbage]
    BY <1>3 DEF Arrives
  <2>2. n \in 1..n
    BY <1>1, <1>3
  <2>3. new.lines[n] = Garbage /\ DOMAIN new.lines = 1..n
    BY <1>1, <2>1, <2>2
  <2>4. new.lines \in Seq(ChangeRecord \cup {Garbage}) /\ new.lines # <<>>
    BY <1>1, <2>1, <2>2, <2>3
  <2>5. ~ Parses(new)
    BY <2>2, <2>3 DEF Parses
  <2> QED BY <1>2, <2>4, <2>5 DEF LineFiles, Arrives
<1>4. CASE ~ file.open
  <2>1. new.lines = Append(file.lines, line)
    BY <1>4 DEF Arrives
  <2>2. /\ new.lines \in Seq(ChangeRecord \cup {Garbage})
        /\ DOMAIN new.lines = 1..(n + 1)
        /\ new.lines[n + 1] = line
        /\ \A k \in 1..n : new.lines[k] = file.lines[k]
    BY <1>1, <2>1
  <2>3. new.lines # <<>>
    BY <1>1, <2>2
  <2>4. Parses(new) => Parses(file) /\ line # Garbage
    BY <1>1, <2>2 DEF Parses
  <2> QED BY <1>2, <2>1, <2>2, <2>3, <2>4 DEF LineFiles, Arrives
<1> QED BY <1>3, <1>4

-----------------------------------------------------------------------------
(* The types.                                                               *)

\* Init fits the types.
LEMMA InitTypes == Init => TypeOK
<1> SUFFICES ASSUME Init PROVE TypeOK
  OBVIOUS
<1>1. changes \in LineFiles(ChangeRecord) /\ ~ changes.open
  BY DEF Init, EmptyFile, LineFiles
<1>2. process \in [Processes -> [step : Steps, record : ChangeRecord \cup {NoChange}]]
  BY DEF Init, Steps
<1>3. \A p \in Processes : process[p].step = "idle"
  BY DEF Init
<1>4. active = Missing /\ overlapped = FALSE
  BY DEF Init
<1>5. begun \in 0..MaxChanges /\ failures \in 0..MaxFailures
  BY PolicyLedgerAssumption DEF Init
<1> QED BY <1>1, <1>2, <1>3, <1>4, <1>5 DEF TypeOK

\* A process that goes on with a change record, or with none when it is idle, is one.
LEMMA BecomesTypes ==
  ASSUME TypeOK, NEW p \in Processes, NEW step \in Steps,
         NEW record \in ChangeRecord \cup {NoChange},
         step # "idle" => record \in ChangeRecord,
         Becomes(p, step, record)
  PROVE  /\ process' \in [Processes -> [step : Steps, record : ChangeRecord \cup {NoChange}]]
         /\ \A q \in Processes : process'[q].step # "idle" => process'[q].record \in ChangeRecord
         /\ process'[p] = [step |-> step, record |-> record]
         /\ \A q \in Processes \ {p} : process'[q] = process[q]
BY DEF TypeOK, Becomes

\* A change that begins has a record with the revision that is active.
LEMMA ReadActiveRecord ==
  ASSUME TypeOK, NEW p \in Processes, ReadActive(p)
  PROVE  \E record \in ChangeRecord : /\ WritesActive(record)
                                      /\ record.fromRevision = FromActive
                                      /\ Becomes(p, "append", record)
<1>1. PICK kind \in {"activation", "rollback"}, to \in Revisions :
        Becomes(p, "append", [kind |-> kind, toRevision |-> to, fromRevision |-> FromActive])
  BY DEF ReadActive
<1>2. FromActive \in Revisions \cup {None}
  BY ActiveValues DEF TypeOK, ReadActive, ActiveParses, FromActive
<1> DEFINE record == [kind |-> kind, toRevision |-> to, fromRevision |-> FromActive]
<1>3. /\ record \in ChangeRecord
      /\ WritesActive(record)
      /\ record.fromRevision = FromActive
  BY <1>2 DEF ChangeRecord, Kinds, WritesActive
<1> QED BY <1>1, <1>3

\* A failed activation has a record that comes from nowhere and writes nothing.
LEMMA AttemptRecord ==
  ASSUME NEW p \in Processes, Attempt(p)
  PROVE  \E record \in ChangeRecord : /\ ~ WritesActive(record)
                                      /\ record.fromRevision = None
                                      /\ Becomes(p, "append", record)
<1>1. PICK to \in Revisions :
        Becomes(p, "append", [kind |-> "failed_activation", fromRevision |-> None, toRevision |-> to])
  BY DEF Attempt
<1> DEFINE record == [kind |-> "failed_activation", fromRevision |-> None, toRevision |-> to]
<1>2. /\ record \in ChangeRecord
      /\ ~ WritesActive(record)
      /\ record.fromRevision = None
  BY DEF ChangeRecord, Kinds, WritesActive
<1> QED BY <1>1, <1>2

\* After a record was appended its process writes the active file or is done.
LEMMA AppendChangeGoesOn ==
  ASSUME TypeOK, NEW p \in Processes, AppendChange(p)
  PROVE  /\ process[p].record \in ChangeRecord
         /\ \/ /\ WritesActive(process[p].record)
               /\ Becomes(p, "truncate", process[p].record)
            \/ /\ ~ WritesActive(process[p].record)
               /\ Becomes(p, "idle", NoChange)
BY DEF TypeOK, AppendChange

\* Every step keeps the types.
LEMMA NextTypes == TypeOK /\ [Next]_vars => TypeOK'
<1> SUFFICES ASSUME TypeOK, [Next]_vars PROVE TypeOK'
  OBVIOUS
<1> DEFINE Typed ==
       /\ process' \in [Processes -> [step : Steps, record : ChangeRecord \cup {NoChange}]]
       /\ \A q \in Processes : process'[q].step # "idle" => process'[q].record \in ChangeRecord
<1> /\ "idle" \in Steps /\ "append" \in Steps /\ "truncate" \in Steps /\ "write" \in Steps
    /\ NoChange \in ChangeRecord \cup {NoChange}
  BY DEF Steps
<1>1. CASE UNCHANGED vars
  BY <1>1 DEF TypeOK, vars
<1>2. ASSUME NEW p \in Processes, Begins(p), Typed PROVE TypeOK'
  <2>1. begun' \in 0..MaxChanges
    BY <1>2, PolicyLedgerAssumption DEF TypeOK, Begins
  <2>2. overlapped' \in BOOLEAN
    BY <1>2 DEF TypeOK, Begins
  <2> QED BY <1>2, <2>1, <2>2 DEF TypeOK, Begins
<1>3. ASSUME NEW p \in Processes, Stops(p)
      PROVE  /\ Typed
             /\ failures' \in 0..MaxFailures
             /\ UNCHANGED <<begun, overlapped>>
  <2>1. Typed
    <3>1. Becomes(p, "idle", NoChange)
      BY <1>3 DEF Stops
    <3> QED BY <3>1, BecomesTypes
  <2> QED BY <1>3, <2>1, PolicyLedgerAssumption DEF TypeOK, Stops
<1>4. ASSUME NEW p \in Processes, ReadActive(p) PROVE TypeOK'
  <2>1. Typed
    BY <1>4, ReadActiveRecord, BecomesTypes
  <2> QED BY <1>2, <1>4, <2>1 DEF ReadActive
<1>5. ASSUME NEW p \in Processes, Attempt(p) PROVE TypeOK'
  <2>1. Typed
    BY <1>5, AttemptRecord, BecomesTypes
  <2> QED BY <1>2, <1>5, <2>1 DEF Attempt
<1>6. ASSUME NEW p \in Processes, AppendChange(p) PROVE TypeOK'
  <2>1. Typed
    BY <1>6, AppendChangeGoesOn, BecomesTypes
  <2>2. changes' \in LineFiles(ChangeRecord) /\ changes'.lines # <<>>
    BY <1>6, AppendChangeGoesOn, ArrivesLines DEF TypeOK, AppendChange, AppendLine
  <2> QED BY <1>6, <2>1, <2>2 DEF TypeOK, AppendChange
<1>7. ASSUME NEW p \in Processes, TruncateActive(p) PROVE TypeOK'
  <2>1. process[p].record \in ChangeRecord /\ Becomes(p, "write", process[p].record)
    BY <1>7 DEF TypeOK, TruncateActive
  <2>2. Typed
    BY <2>1, BecomesTypes
  <2> QED BY <1>7, <2>2 DEF TypeOK, TruncateActive
<1>8. ASSUME NEW p \in Processes, WriteActive(p) PROVE TypeOK'
  <2>1. process[p].record \in ChangeRecord
    BY <1>8 DEF TypeOK, WriteActive
  <2>2. active' \in {Missing, Emptied, Torn} \cup {Active(r) : r \in Revisions}
    BY <1>8, <2>1 DEF WriteActive, ChangeRecord
  <2>3. Becomes(p, "idle", NoChange)
    BY <1>8 DEF WriteActive
  <2>4. Typed
    BY <2>3, BecomesTypes
  <2> QED BY <1>8, <2>2, <2>4 DEF TypeOK, WriteActive
<1>9. ASSUME NEW p \in Processes, StopsBetween(p) PROVE TypeOK'
  BY <1>3, <1>9 DEF TypeOK, StopsBetween
<1>10. ASSUME NEW p \in Processes, StopsAppending(p) PROVE TypeOK'
  <2>1. process[p].record \in ChangeRecord
    BY <1>10 DEF TypeOK, StopsAppending
  <2>2. changes' \in LineFiles(ChangeRecord) /\ changes'.lines # <<>>
    <3>1. PICK line \in {Garbage, process[p].record} : changes' = Arrives(changes, line, TRUE)
      BY <1>10 DEF StopsAppending, TornAppends
    <3>2. changes \in LineFiles(ChangeRecord) /\ (changes.open => changes.lines # <<>>)
      BY DEF TypeOK
    <3> QED BY <2>1, <3>1, <3>2, ArrivesLines
  <2>3. Stops(p) /\ UNCHANGED active
    BY <1>10 DEF StopsAppending
  <2> QED BY <1>3, <2>2, <2>3 DEF TypeOK
<1>11. ASSUME NEW p \in Processes, StopsWriting(p) PROVE TypeOK'
  <2>1. Stops(p) /\ UNCHANGED changes /\ active' = Torn
    BY <1>11 DEF StopsWriting
  <2> QED BY <1>3, <2>1 DEF TypeOK
<1> QED BY <1>1, <1>4, <1>5, <1>6, <1>7, <1>8, <1>9, <1>10, <1>11 DEF Next

\* The files and the processes keep their shape, whatever overlaps, fails or dies.
THEOREM PolicyLedgerTypes == Spec => []TypeOK
<1>1. Init => TypeOK
  BY InitTypes
<1>2. TypeOK /\ [Next]_vars => TypeOK'
  BY NextTypes
<1> QED BY <1>1, <1>2, PTL DEF Spec

-----------------------------------------------------------------------------
(* The active revision is recorded.  That says nothing yet of the changes   *)
(* in progress: the invariant adds that what a process is about to write    *)
(* is recorded already, and so is where a record to be appended comes from. *)

Recorded ==
  Parses(changes) =>
    /\ active \in {Missing, Emptied, Torn} \cup {Active(r) : r \in Became}
    /\ \A k \in DOMAIN changes.lines : changes.lines[k].fromRevision \in Became \cup {None}
    /\ \A p \in Processes :
         /\ process[p].step = "append" => process[p].record.fromRevision \in Became \cup {None}
         /\ process[p].step \in {"truncate", "write"} => process[p].record.toRevision \in Became

\* A readable ledger that gets another readable record keeps what became active and
\* adds the record's revision, if it is to become active.
LEMMA BecameGrows ==
  ASSUME TypeOK, NEW line \in ChangeRecord \cup {Garbage}, NEW open \in BOOLEAN,
         changes' = Arrives(changes, line, open), Parses(changes)'
  PROVE  /\ Parses(changes)
         /\ line # Garbage
         /\ changes'.lines = Append(changes.lines, line)
         /\ Became \subseteq Became'
         /\ WritesActive(line) => line.toRevision \in Became'
<1> DEFINE n == Len(changes.lines)
<1>1. changes \in LineFiles(ChangeRecord) /\ (changes.open => changes.lines # <<>>)
  BY DEF TypeOK
<1>2. /\ Parses(changes)
      /\ line # Garbage
      /\ changes'.lines = Append(changes.lines, line)
  BY <1>1, ArrivesLines DEF Parses
<1>3. /\ DOMAIN changes.lines = 1..n
      /\ DOMAIN changes'.lines = 1..(n + 1)
      /\ n \in Nat
      /\ changes'.lines[n + 1] = line
      /\ \A k \in 1..n : changes'.lines[k] = changes.lines[k]
  BY <1>1, <1>2 DEF LineFiles
<1>4. Became \subseteq Became'
  BY <1>3 DEF Became, Activations, WritesActive
<1>5. WritesActive(line) => line.toRevision \in Became'
  BY <1>2, <1>3 DEF Became, Activations, WritesActive
<1> QED BY <1>2, <1>4, <1>5

\* Before the first change nothing is active.
LEMMA InitRecorded == Init => Recorded
<1> SUFFICES ASSUME Init PROVE Recorded
  OBVIOUS
<1>1. active = Missing /\ changes.lines = <<>>
  BY DEF Init, EmptyFile
<1>2. \A p \in Processes : process[p].step = "idle"
  BY DEF Init
<1> QED BY <1>1, <1>2 DEF Recorded

\* Another line is in the ledger while the active file stays as it is: what holds of
\* the line and of the process that wrote it is what there is to show.
LEMMA RecordedAppend ==
  ASSUME TypeOK, Recorded, UNCHANGED active,
         NEW p \in Processes, process[p].step = "append",
         NEW line \in {Garbage, process[p].record}, NEW open \in BOOLEAN,
         changes' = Arrives(changes, line, open),
         NEW step \in {"idle", "truncate"}, NEW record \in ChangeRecord \cup {NoChange},
         step = "truncate" => record = line /\ WritesActive(line),
         step # "idle" => record \in ChangeRecord,
         Becomes(p, step, record)
  PROVE  Recorded'
<1> SUFFICES ASSUME Parses(changes)' PROVE
      /\ active' \in {Missing, Emptied, Torn} \cup {Active(r) : r \in Became'}
      /\ \A k \in DOMAIN changes'.lines : changes'.lines[k].fromRevision \in Became' \cup {None}
      /\ \A q \in Processes :
           /\ process'[q].step = "append" => process'[q].record.fromRevision \in Became' \cup {None}
           /\ process'[q].step \in {"truncate", "write"} => process'[q].record.toRevision \in Became'
  BY DEF Recorded
<1>1. process[p].record \in ChangeRecord
  BY DEF TypeOK
<1>2. /\ Parses(changes)
      /\ line # Garbage
      /\ changes'.lines = Append(changes.lines, line)
      /\ Became \subseteq Became'
      /\ WritesActive(line) => line.toRevision \in Became'
  BY <1>1, BecameGrows
<1>3. active' \in {Missing, Emptied, Torn} \cup {Active(r) : r \in Became'}
  BY <1>2 DEF Recorded
<1>4. ASSUME NEW k \in DOMAIN changes'.lines
      PROVE  changes'.lines[k].fromRevision \in Became' \cup {None}
  <2>1. \/ k \in DOMAIN changes.lines /\ changes'.lines[k] = changes.lines[k]
        \/ changes'.lines[k] = line
    BY <1>2, <1>4 DEF TypeOK, LineFiles
  <2>2. line.fromRevision \in Became \cup {None}
    BY <1>2 DEF Recorded
  <2> QED BY <1>2, <2>1, <2>2 DEF Recorded
<1>5. /\ process'[p] = [step |-> step, record |-> record]
      /\ \A q \in Processes \ {p} : process'[q] = process[q]
  BY BecomesTypes DEF Steps
<1>6. ASSUME NEW q \in Processes
      PROVE  /\ process'[q].step = "append" => process'[q].record.fromRevision \in Became' \cup {None}
             /\ process'[q].step \in {"truncate", "write"} => process'[q].record.toRevision \in Became'
  <2>1. CASE q = p
    BY <1>2, <1>5, <2>1
  <2>2. CASE q # p
    BY <1>2, <1>5, <2>2 DEF Recorded
  <2> QED BY <2>1, <2>2
<1> QED BY <1>3, <1>4, <1>6

\* The ledger stays as it is: what holds of the active file and of the process that
\* moved is what there is to show.
LEMMA RecordedElsewhere ==
  ASSUME TypeOK, Recorded, UNCHANGED changes,
         Parses(changes) => active' \in {Missing, Emptied, Torn} \cup {Active(r) : r \in Became},
         NEW p \in Processes, NEW step \in Steps, NEW record \in ChangeRecord \cup {NoChange},
         step # "idle" => record \in ChangeRecord,
         Parses(changes) =>
           /\ step = "append" => record.fromRevision \in Became \cup {None}
           /\ step \in {"truncate", "write"} => record.toRevision \in Became,
         Becomes(p, step, record)
  PROVE  Recorded'
<1>1. /\ process'[p] = [step |-> step, record |-> record]
      /\ \A q \in Processes \ {p} : process'[q] = process[q]
  BY BecomesTypes
<1>2. Became' = Became
  BY DEF Became, Activations
<1>3. Parses(changes)' <=> Parses(changes)
  BY DEF Parses
<1> SUFFICES ASSUME Parses(changes) PROVE
      /\ active' \in {Missing, Emptied, Torn} \cup {Active(r) : r \in Became}
      /\ \A k \in DOMAIN changes.lines : changes.lines[k].fromRevision \in Became \cup {None}
      /\ \A q \in Processes :
           /\ process'[q].step = "append" => process'[q].record.fromRevision \in Became \cup {None}
           /\ process'[q].step \in {"truncate", "write"} => process'[q].record.toRevision \in Became
  BY <1>2, <1>3 DEF Recorded
<1>4. ASSUME NEW q \in Processes
      PROVE  /\ process'[q].step = "append" => process'[q].record.fromRevision \in Became \cup {None}
             /\ process'[q].step \in {"truncate", "write"} => process'[q].record.toRevision \in Became
  <2>1. CASE q = p
    BY <1>1, <2>1
  <2>2. CASE q # p
    BY <1>1, <2>2 DEF Recorded
  <2> QED BY <2>1, <2>2
<1> QED BY <1>4 DEF Recorded

\* Every step keeps what is recorded, recorded.
LEMMA NextRecorded == TypeOK /\ Recorded /\ [Next]_vars => Recorded'
<1> SUFFICES ASSUME TypeOK, Recorded, [Next]_vars PROVE Recorded'
  OBVIOUS
<1> /\ "idle" \in Steps /\ "append" \in Steps /\ "truncate" \in Steps /\ "write" \in Steps
    /\ NoChange \in ChangeRecord \cup {NoChange}
  BY DEF Steps
<1>1. CASE UNCHANGED vars
  BY <1>1 DEF Recorded, Parses, Became, Activations, vars
<1>2. ASSUME NEW p \in Processes, ReadActive(p) PROVE Recorded'
  <2>1. PICK record \in ChangeRecord : /\ record.fromRevision = FromActive
                                       /\ Becomes(p, "append", record)
    BY <1>2, ReadActiveRecord
  <2>2. Parses(changes) => FromActive \in Became \cup {None}
    BY <1>2, ActiveValues DEF Recorded, ReadActive, ActiveParses, FromActive
  <2>3. UNCHANGED <<changes, active>>
    BY <1>2 DEF ReadActive, Begins
  <2>4. Parses(changes) => active' \in {Missing, Emptied, Torn} \cup {Active(r) : r \in Became}
    BY <2>3 DEF Recorded
  <2> QED BY <2>1, <2>2, <2>3, <2>4, RecordedElsewhere
<1>3. ASSUME NEW p \in Processes, Attempt(p) PROVE Recorded'
  <2>1. PICK record \in ChangeRecord : /\ record.fromRevision = None
                                       /\ Becomes(p, "append", record)
    BY <1>3, AttemptRecord
  <2>2. UNCHANGED <<changes, active>>
    BY <1>3 DEF Attempt, Begins
  <2>3. Parses(changes) => active' \in {Missing, Emptied, Torn} \cup {Active(r) : r \in Became}
    BY <2>2 DEF Recorded
  <2> QED BY <2>1, <2>2, <2>3, RecordedElsewhere
<1>4. ASSUME NEW p \in Processes, AppendChange(p) PROVE Recorded'
  <2>1. /\ process[p].step = "append"
        /\ UNCHANGED active
        /\ changes' = Arrives(changes, process[p].record, FALSE)
    BY <1>4 DEF AppendChange, AppendLine
  <2>2. CASE WritesActive(process[p].record) /\ Becomes(p, "truncate", process[p].record)
    BY <1>4, <2>1, <2>2, AppendChangeGoesOn, RecordedAppend
  <2>3. CASE Becomes(p, "idle", NoChange)
    BY <2>1, <2>3, RecordedAppend
  <2> QED BY <1>4, <2>2, <2>3, AppendChangeGoesOn
<1>5. ASSUME NEW p \in Processes, TruncateActive(p) PROVE Recorded'
  <2>1. /\ process[p].record \in ChangeRecord
        /\ active' = Emptied
        /\ Becomes(p, "write", process[p].record)
        /\ UNCHANGED changes
    BY <1>5 DEF TypeOK, TruncateActive
  <2>2. Parses(changes) => process[p].record.toRevision \in Became
    BY <1>5 DEF Recorded, TruncateActive
  <2> QED BY <2>1, <2>2, RecordedElsewhere
<1>6. ASSUME NEW p \in Processes, WriteActive(p) PROVE Recorded'
  <2>1. /\ active' \in {Active(process[p].record.toRevision), Torn}
        /\ Becomes(p, "idle", NoChange)
        /\ UNCHANGED changes
    BY <1>6 DEF WriteActive
  <2>2. Parses(changes) => process[p].record.toRevision \in Became
    BY <1>6 DEF Recorded, WriteActive
  <2>3. Parses(changes) => active' \in {Missing, Emptied, Torn} \cup {Active(r) : r \in Became}
    BY <2>1, <2>2
  <2> QED BY <2>1, <2>3, RecordedElsewhere
<1>7. ASSUME NEW p \in Processes, StopsBetween(p) PROVE Recorded'
  <2>1. Becomes(p, "idle", NoChange) /\ UNCHANGED <<changes, active>>
    BY <1>7 DEF StopsBetween, Stops
  <2>2. Parses(changes) => active' \in {Missing, Emptied, Torn} \cup {Active(r) : r \in Became}
    BY <2>1 DEF Recorded
  <2> QED BY <2>1, <2>2, RecordedElsewhere
<1>8. ASSUME NEW p \in Processes, StopsAppending(p) PROVE Recorded'
  <2>1. /\ process[p].step = "append"
        /\ UNCHANGED active
        /\ Becomes(p, "idle", NoChange)
    BY <1>8 DEF StopsAppending, Stops
  <2>2. PICK line \in {Garbage, process[p].record} : changes' = Arrives(changes, line, TRUE)
    BY <1>8 DEF StopsAppending, TornAppends
  <2> QED BY <2>1, <2>2, RecordedAppend
<1>9. ASSUME NEW p \in Processes, StopsWriting(p) PROVE Recorded'
  <2>1. Becomes(p, "idle", NoChange) /\ active' = Torn /\ UNCHANGED changes
    BY <1>9 DEF StopsWriting, Stops
  <2> QED BY <2>1, RecordedElsewhere
<1> QED BY <1>1, <1>2, <1>3, <1>4, <1>5, <1>6, <1>7, <1>8, <1>9 DEF Next

\* As long as the ledger can be read, whatever overlaps, fails or dies, the active
\* revision is one that the ledger has as an activation or a rollback.
THEOREM ActiveRevisionIsRecorded == Spec => []RevisionsAreRecorded
<1>1. Init => TypeOK /\ Recorded
  BY InitTypes, InitRecorded
<1>2. TypeOK /\ Recorded /\ [Next]_vars => (TypeOK /\ Recorded)'
  BY NextTypes, NextRecorded
<1>3. Recorded => RevisionsAreRecorded
  BY DEF Recorded, RevisionsAreRecorded
<1> QED BY <1>1, <1>2, <1>3, PTL DEF Spec

-----------------------------------------------------------------------------
(* A torn active file.                                                      *)

\* Who empties or writes the active file has the record of an activation or a rollback.
OnlyWritersWrite ==
  \A p \in Processes :
    process[p].step \in {"truncate", "write"} => WillWrite(process[p].record)

\* A change record is not the empty one of an idle process.
LEMMA ChangeIsAChange ==
  ASSUME NEW record \in ChangeRecord PROVE record # NoChange
BY DEF ChangeRecord, Kinds, NoChange

\* Every step keeps failed activations away from the active file.
LEMMA NextOnlyWritersWrite ==
  TypeOK /\ OnlyWritersWrite /\ [Next]_vars => OnlyWritersWrite'
<1> SUFFICES ASSUME TypeOK, OnlyWritersWrite, [Next]_vars PROVE OnlyWritersWrite'
  OBVIOUS
<1> /\ "idle" \in Steps /\ "append" \in Steps /\ "truncate" \in Steps /\ "write" \in Steps
    /\ NoChange \in ChangeRecord \cup {NoChange}
  BY DEF Steps
<1>1. CASE UNCHANGED vars
  BY <1>1 DEF OnlyWritersWrite, vars
<1>2. ASSUME NEW p \in Processes, NEW step \in Steps, NEW record \in ChangeRecord \cup {NoChange},
             step # "idle" => record \in ChangeRecord,
             step \in {"truncate", "write"} => WillWrite(record),
             Becomes(p, step, record)
      PROVE  OnlyWritersWrite'
  <2>1. /\ process'[p] = [step |-> step, record |-> record]
        /\ \A q \in Processes \ {p} : process'[q] = process[q]
    BY <1>2, BecomesTypes
  <2>2. ASSUME NEW q \in Processes, process'[q].step \in {"truncate", "write"}
        PROVE  WillWrite(process'[q].record)
    BY <1>2, <2>1, <2>2 DEF OnlyWritersWrite
  <2> QED BY <2>2 DEF OnlyWritersWrite, WillWrite, WritesActive
<1>3. ASSUME NEW p \in Processes, ReadActive(p) PROVE OnlyWritersWrite'
  BY <1>2, <1>3, ReadActiveRecord
<1>4. ASSUME NEW p \in Processes, Attempt(p) PROVE OnlyWritersWrite'
  BY <1>2, <1>4, AttemptRecord
<1>5. ASSUME NEW p \in Processes, AppendChange(p) PROVE OnlyWritersWrite'
  BY <1>2, <1>5, AppendChangeGoesOn, ChangeIsAChange DEF WillWrite
<1>6. ASSUME NEW p \in Processes, TruncateActive(p) PROVE OnlyWritersWrite'
  <2>1. process[p].record \in ChangeRecord /\ WillWrite(process[p].record)
    BY <1>6 DEF TypeOK, OnlyWritersWrite, TruncateActive
  <2> QED BY <1>2, <1>6, <2>1 DEF TruncateActive
<1>7. ASSUME NEW p \in Processes, WriteActive(p) PROVE OnlyWritersWrite'
  BY <1>2, <1>7 DEF WriteActive
<1>8. ASSUME NEW p \in Processes, Stops(p) PROVE OnlyWritersWrite'
  BY <1>2, <1>8 DEF Stops
<1> QED BY <1>1, <1>3, <1>4, <1>5, <1>6, <1>7, <1>8
        DEF Next, StopsBetween, StopsAppending, StopsWriting

\* With a torn active file and nobody about to write it, a step does not change that.
LEMMA TornStep ==
  ASSUME TypeOK, OnlyWritersWrite, [Next]_vars,
         ~ ActiveParses, \A p \in Processes : ~ WillWrite(process[p].record)
  PROVE  active' = active /\ \A p \in Processes : ~ WillWrite(process'[p].record)
<1> /\ "idle" \in Steps /\ "append" \in Steps
    /\ NoChange \in ChangeRecord \cup {NoChange}
    /\ ~ WillWrite(NoChange)
  BY DEF Steps, WillWrite
<1>1. \A p \in Processes : process[p].step \notin {"truncate", "write"}
  BY DEF OnlyWritersWrite
<1>2. ASSUME NEW p \in Processes, NEW step \in Steps, NEW record \in ChangeRecord \cup {NoChange},
             step # "idle" => record \in ChangeRecord,
             ~ WillWrite(record), Becomes(p, step, record)
      PROVE  \A q \in Processes : ~ WillWrite(process'[q].record)
  <2>1. /\ process'[p] = [step |-> step, record |-> record]
        /\ \A q \in Processes \ {p} : process'[q] = process[q]
    BY <1>2, BecomesTypes
  <2> QED BY <1>2, <2>1
<1>3. CASE UNCHANGED vars
  BY <1>3 DEF vars
<1>4. ASSUME NEW p \in Processes, Attempt(p)
      PROVE  active' = active /\ \A q \in Processes : ~ WillWrite(process'[q].record)
  <2>1. active' = active
    BY <1>4 DEF Attempt, Begins
  <2>2. PICK record \in ChangeRecord : ~ WritesActive(record) /\ Becomes(p, "append", record)
    BY <1>4, AttemptRecord
  <2>3. ~ WillWrite(record)
    BY <2>2 DEF WillWrite
  <2> QED BY <1>2, <2>1, <2>2, <2>3
<1>5. ASSUME NEW p \in Processes, AppendChange(p)
      PROVE  active' = active /\ \A q \in Processes : ~ WillWrite(process'[q].record)
  <2>1. active' = active /\ ~ WillWrite(process[p].record)
    BY <1>5 DEF AppendChange
  <2>2. Becomes(p, "idle", NoChange)
    BY <1>5, <2>1, AppendChangeGoesOn, ChangeIsAChange DEF WillWrite
  <2> QED BY <1>2, <2>1, <2>2
<1>6. ASSUME NEW p \in Processes, Stops(p), UNCHANGED active
      PROVE  active' = active /\ \A q \in Processes : ~ WillWrite(process'[q].record)
  BY <1>2, <1>6 DEF Stops
<1> QED BY <1>1, <1>3, <1>4, <1>5, <1>6
        DEF Next, ReadActive, TruncateActive, WriteActive, StopsBetween, StopsAppending, StopsWriting

\* Once the active file is torn and no activation is in progress, no later call of the
\* ledger repairs it: every activation and every rollback first reads it and throws.
THEOREM TornForever == Spec => TornStaysTorn
<1>1. Init => TypeOK /\ OnlyWritersWrite
  BY InitTypes DEF Init, OnlyWritersWrite
<1>2. TypeOK /\ OnlyWritersWrite /\ [Next]_vars => (TypeOK /\ OnlyWritersWrite)'
  BY NextTypes, NextOnlyWritersWrite
<1>3. TypeOK /\ OnlyWritersWrite /\ [Next]_vars =>
        [(~ ActiveParses /\ \A p \in Processes : ~ WillWrite(process[p].record))
           => active' = active /\ \A p \in Processes : ~ WillWrite(process'[p].record)]_vars
  BY TornStep
<1> QED BY <1>1, <1>2, <1>3, PTL DEF Spec, TornStaysTorn

-----------------------------------------------------------------------------
(* Changes that neither overlap nor fail.  Their agreement between changes  *)
(* says nothing of a change in progress: the invariant adds that there is   *)
(* one at most, what it has read is still so until it appends its record,   *)
(* and the active file is what its record says from then on, once written.  *)

Agrees == ActiveParses /\ IsRevisionBefore(FromActive, Len(changes.lines) + 1)

Chained == \A k \in Activations : IsRevisionBefore(changes.lines[k].fromRevision, k)

\* What a process that is busy all by itself knows of the files.
InProgress(p) ==
  LET record == process[p].record
      end    == Len(changes.lines) + 1
  IN  /\ process[p].step = "append" =>
           /\ Agrees
           /\ WritesActive(record) => IsRevisionBefore(record.fromRevision, end)
      /\ process[p].step \in {"truncate", "write"} => IsRevisionBefore(record.toRevision, end)
      /\ process[p].step = "write" => active = Emptied

Serial ==
  (~ overlapped /\ failures = 0) =>
    /\ ~ changes.open
    /\ Chained
    /\ \A p, q \in Busy : p = q
    /\ Busy = {} => Agrees
    /\ \A p \in Busy : InProgress(p)

\* A record that is appended to whole lines is the last one from then on, if it is
\* that of an activation or a rollback, and leaves everything before it as it was.
LEMMA AppendedLine ==
  ASSUME TypeOK, ~ changes.open, NEW record \in ChangeRecord,
         changes' = AppendLine(changes, record)
  PROVE  /\ ~ changes'.open
         /\ Len(changes.lines) \in Nat /\ Len(changes'.lines) = Len(changes.lines) + 1
         /\ Activations \subseteq 1..Len(changes.lines)
         /\ Activations' = IF WritesActive(record) THEN Activations \cup {Len(changes'.lines)}
                           ELSE Activations
         /\ changes'.lines[Len(changes'.lines)] = record
         /\ \A k \in 1..Len(changes.lines) : changes'.lines[k] = changes.lines[k]
<1> DEFINE n == Len(changes.lines)
<1>1. changes.lines \in Seq(ChangeRecord \cup {Garbage}) /\ n \in Nat
  BY DEF TypeOK, LineFiles
<1>2. ~ changes'.open /\ changes'.lines = Append(changes.lines, record)
  BY DEF AppendLine, Arrives
<1>3. /\ Len(changes'.lines) = n + 1
      /\ DOMAIN changes.lines = 1..n
      /\ DOMAIN changes'.lines = 1..(n + 1)
      /\ changes'.lines[n + 1] = record
      /\ \A k \in 1..n : changes'.lines[k] = changes.lines[k]
  BY <1>1, <1>2
<1>4. record # Garbage
  BY ChangeIsNoGarbage
<1>5. /\ Activations \subseteq 1..n
      /\ Activations' = {k \in 1..(n + 1) : changes'.lines[k] # Garbage /\ WritesActive(changes'.lines[k])}
  BY <1>3 DEF Activations, WritesActive
<1>6. ASSUME NEW k
      PROVE  k \in Activations' <=> (k \in Activations \/ (k = n + 1 /\ WritesActive(record)))
  <2>1. CASE k \in 1..n
    BY <1>1, <1>3, <1>5, <2>1 DEF Activations
  <2>2. CASE k = n + 1
    BY <1>1, <1>3, <1>4, <1>5, <2>2
  <2>3. CASE k \notin 1..(n + 1)
    <3>1. n + 1 \in 1..(n + 1) /\ 1..n \subseteq 1..(n + 1)
      BY <1>1
    <3>2. k \notin Activations /\ k # n + 1
      BY <1>5, <2>3, <3>1
    <3> QED BY <1>5, <2>3, <3>2
  <2> QED BY <1>1, <2>1, <2>2, <2>3
<1>7. Activations' = IF WritesActive(record) THEN Activations \cup {n + 1} ELSE Activations
  BY <1>6
<1> QED BY <1>1, <1>2, <1>3, <1>5, <1>7

\* What was the revision before a line stays it; behind the record it is the record's
\* revision or what it was before the record.
LEMMA RevisionsBefore ==
  ASSUME TypeOK, ~ changes.open, NEW record \in ChangeRecord,
         changes' = AppendLine(changes, record)
  PROVE  /\ \A r : \A k \in 1..(Len(changes.lines) + 1) :
              IsRevisionBefore(r, k) => IsRevisionBefore(r, k)'
         /\ WritesActive(record) =>
              \A end : end = Len(changes'.lines) + 1 => IsRevisionBefore(record.toRevision, end)'
         /\ ~ WritesActive(record) =>
              \A r : IsRevisionBefore(r, Len(changes.lines) + 1) =>
                       \A end : end = Len(changes'.lines) + 1 => IsRevisionBefore(r, end)'
<1> DEFINE n == Len(changes.lines)
<1>1. /\ n \in Nat /\ Len(changes'.lines) = n + 1
      /\ Activations \subseteq 1..n
      /\ Activations' = IF WritesActive(record) THEN Activations \cup {n + 1} ELSE Activations
      /\ changes'.lines[n + 1] = record
      /\ \A k \in 1..n : changes'.lines[k] = changes.lines[k]
  BY AppendedLine
<1> HIDE DEF n
<1>2. ASSUME NEW r, NEW k \in 1..(n + 1), IsRevisionBefore(r, k)
      PROVE  IsRevisionBefore(r, k)'
  BY <1>1, <1>2 DEF IsRevisionBefore
<1>3. ASSUME WritesActive(record), NEW end, end = n + 2
      PROVE  IsRevisionBefore(record.toRevision, end)'
  BY <1>1, <1>3 DEF IsRevisionBefore
<1>4. ASSUME ~ WritesActive(record), NEW r, IsRevisionBefore(r, n + 1), NEW end, end = n + 2
      PROVE  IsRevisionBefore(r, end)'
  BY <1>1, <1>4 DEF IsRevisionBefore
<1> QED BY <1>1, <1>2, <1>3, <1>4 DEF n

\* Nothing is busy and nothing recorded at the start.
LEMMA InitSerial == Init => Serial
<1> SUFFICES ASSUME Init PROVE Serial
  OBVIOUS
<1>1. active = Missing /\ changes = EmptyFile
  BY DEF Init
<1>2. Busy = {}
  BY DEF Init, Busy
<1>3. Activations = {}
  BY <1>1 DEF Activations, EmptyFile
<1>4. ActiveParses /\ FromActive = None
  BY <1>1, ActiveValues DEF ActiveParses, FromActive
<1> QED BY <1>1, <1>2, <1>3, <1>4 DEF Serial, Chained, Agrees, IsRevisionBefore, EmptyFile

\* Who is busy after a process went on.
LEMMA BusyAfter ==
  ASSUME TypeOK, NEW p \in Processes, NEW step \in Steps,
         NEW record \in ChangeRecord \cup {NoChange},
         step # "idle" => record \in ChangeRecord,
         Becomes(p, step, record)
  PROVE  /\ process'[p] = [step |-> step, record |-> record]
         /\ Busy' = IF step = "idle" THEN Busy \ {p} ELSE Busy \cup {p}
<1>1. /\ process'[p] = [step |-> step, record |-> record]
      /\ \A q \in Processes \ {p} : process'[q] = process[q]
  BY BecomesTypes
<1>2. ASSUME NEW q \in Processes
      PROVE  q \in Busy' <=> IF q = p THEN step # "idle" ELSE q \in Busy
  BY <1>1, <1>2 DEF Busy
<1>3. Busy \subseteq Processes /\ Busy' \subseteq Processes
  BY DEF Busy
<1> QED BY <1>1, <1>2, <1>3

\* A step that fails nothing and overlaps nothing keeps the chain.
LEMMA SerialStep ==
  ASSUME TypeOK, Serial, NEW p \in Processes, ~ overlapped', failures' = 0,
         ReadActive(p) \/ Attempt(p) \/ AppendChange(p) \/ TruncateActive(p) \/ WriteActive(p)
  PROVE  Serial'
<1> DEFINE end    == Len(changes.lines) + 1
           Now    == /\ ~ changes'.open
                     /\ Chained'
                     /\ \A q, r \in Busy' : q = r
                     /\ Busy' = {} => Agrees'
                     /\ \A q \in Busy' : InProgress(q)'
<1> SUFFICES Now
  BY DEF Serial
<1> /\ "idle" \in Steps /\ "append" \in Steps /\ "truncate" \in Steps /\ "write" \in Steps
    /\ NoChange \in ChangeRecord \cup {NoChange}
  BY DEF Steps
<1>1. /\ ~ changes.open
      /\ Chained
      /\ \A q, r \in Busy : q = r
      /\ Busy = {} => Agrees
      /\ \A q \in Busy : InProgress(q)
  BY DEF Serial, ReadActive, Attempt, Begins, AppendChange, TruncateActive, WriteActive
<1>2. ASSUME UNCHANGED changes
      PROVE  /\ ~ changes'.open /\ Chained'
             /\ \A r : \A k : IsRevisionBefore(r, k) => IsRevisionBefore(r, k)'
             /\ end' = end
  BY <1>1, <1>2 DEF Chained, Activations, IsRevisionBefore, WritesActive
<1>3. ASSUME Begins(p), NEW record \in ChangeRecord, Becomes(p, "append", record),
             WritesActive(record) => record.fromRevision = FromActive
      PROVE  Now
  <2>1. Busy = {} /\ UNCHANGED <<changes, active>>
    BY <1>3 DEF Begins
  <2>2. Busy' = {p} /\ process'[p] = [step |-> "append", record |-> record]
    BY <1>3, <2>1, BusyAfter
  <2>3. Agrees /\ Agrees'
    BY <1>1, <1>2, <2>1 DEF Agrees, ActiveParses, FromActive
  <2>4. WritesActive(record) => IsRevisionBefore(record.fromRevision, end)'
    BY <1>2, <1>3, <2>1, <2>3 DEF Agrees
  <2>5. InProgress(p)'
    BY <2>2, <2>3, <2>4 DEF InProgress, WritesActive
  <2> QED BY <1>2, <2>1, <2>2, <2>5
<1>4. CASE ReadActive(p)
  BY <1>3, <1>4, ReadActiveRecord DEF ReadActive
<1>5. CASE Attempt(p)
  BY <1>3, <1>5, AttemptRecord DEF Attempt
<1>6. CASE AppendChange(p)
  <2>0. PICK record : record = process[p].record
    OBVIOUS
  <2>1. process[p].step = "append" /\ changes' = AppendLine(changes, record) /\ UNCHANGED active
    BY <1>6, <2>0 DEF AppendChange
  <2>2. Busy = {p} /\ InProgress(p)
    BY <1>1, <2>1 DEF Busy
  <2>3. Agrees /\ (WritesActive(record) => IsRevisionBefore(record.fromRevision, end))
    BY <2>0, <2>1, <2>2 DEF InProgress
  <2>4. record \in ChangeRecord
    BY <1>6, <2>0, AppendChangeGoesOn
  <2>5. /\ ~ changes'.open
        /\ Len(changes.lines) \in Nat /\ Len(changes'.lines) = end
        /\ Activations \subseteq 1..Len(changes.lines)
        /\ Activations' = IF WritesActive(record) THEN Activations \cup {end} ELSE Activations
        /\ changes'.lines[end] = record
        /\ \A k \in 1..Len(changes.lines) : changes'.lines[k] = changes.lines[k]
    BY <1>1, <2>1, <2>4, AppendedLine
  <2>6. /\ \A r : \A k \in 1..end : IsRevisionBefore(r, k) => IsRevisionBefore(r, k)'
        /\ WritesActive(record) => IsRevisionBefore(record.toRevision, end)'
        /\ ~ WritesActive(record) => \A r : IsRevisionBefore(r, end) => IsRevisionBefore(r, end)'
    BY <1>1, <2>1, <2>4, RevisionsBefore
  <2>7. Chained'
    <3> SUFFICES ASSUME NEW k \in Activations'
                 PROVE  \A r : r = changes'.lines[k].fromRevision => IsRevisionBefore(r, k)'
      BY DEF Chained
    <3>1. CASE k \in Activations
      BY <1>1, <2>5, <2>6, <3>1 DEF Chained
    <3>2. CASE k = end /\ WritesActive(record)
      BY <2>3, <2>5, <2>6, <3>2
    <3> QED BY <2>5, <3>1, <3>2
  <2>8. CASE WritesActive(record)
    <3>1. Becomes(p, "truncate", record)
      BY <1>6, <2>0, <2>8, AppendChangeGoesOn
    <3>2. Busy' = {p} /\ process'[p] = [step |-> "truncate", record |-> record]
      BY <2>2, <2>4, <3>1, BusyAfter
    <3>3. \A r : r = process'[p].record.toRevision => IsRevisionBefore(r, end)'
      BY <2>6, <2>8, <3>2
    <3>4. InProgress(p)'
      BY <3>2, <3>3 DEF InProgress
    <3> QED BY <2>5, <2>7, <3>2, <3>4
  <2>9. CASE ~ WritesActive(record)
    <3>1. Becomes(p, "idle", NoChange)
      BY <1>6, <2>0, <2>9, AppendChangeGoesOn
    <3>2. Busy' = {}
      BY <2>2, <3>1, BusyAfter
    <3>3. FromActive' = FromActive /\ (ActiveParses <=> ActiveParses')
      BY <2>1 DEF FromActive, ActiveParses
    <3>4. Agrees'
      BY <2>3, <2>6, <2>9, <3>3 DEF Agrees
    <3> QED BY <2>5, <2>7, <3>2, <3>4
  <2> QED BY <2>8, <2>9
<1>7. CASE TruncateActive(p)
  <2>1. /\ process[p].step = "truncate" /\ UNCHANGED changes /\ active' = Emptied
        /\ Becomes(p, "write", process[p].record)
    BY <1>7 DEF TruncateActive
  <2>2. Busy = {p} /\ InProgress(p) /\ process[p].record \in ChangeRecord
    BY <1>1, <2>1 DEF Busy, TypeOK
  <2>3. Busy' = {p} /\ process'[p] = [step |-> "write", record |-> process[p].record]
    BY <2>1, <2>2, BusyAfter
  <2>4. IsRevisionBefore(process[p].record.toRevision, end)
    BY <2>1, <2>2 DEF InProgress
  <2>5. \A r : r = process'[p].record.toRevision => IsRevisionBefore(r, end)'
    BY <1>2, <2>1, <2>3, <2>4
  <2>6. InProgress(p)'
    BY <2>1, <2>3, <2>5 DEF InProgress
  <2> QED BY <1>2, <2>1, <2>3, <2>6
<1>8. CASE WriteActive(p)
  <2> DEFINE to == process[p].record.toRevision
  <2>1. process[p].step = "write" /\ UNCHANGED changes /\ Becomes(p, "idle", NoChange)
    BY <1>8 DEF WriteActive
  <2>2. Busy = {p} /\ InProgress(p)
    BY <1>1, <2>1 DEF Busy
  <2>3. active = Emptied /\ IsRevisionBefore(to, end)
    BY <2>1, <2>2 DEF InProgress
  <2>4. active' = Active(to)
    BY <1>8, <2>3 DEF WriteActive
  <2>5. Busy' = {}
    BY <2>1, <2>2, BusyAfter
  <2>6. ActiveParses' /\ FromActive' = to
    BY <2>4, ActiveValues DEF ActiveParses, FromActive
  <2> HIDE DEF to
  <2>7. \A r : r = FromActive' => IsRevisionBefore(r, end)'
    BY <1>2, <2>1, <2>3, <2>6
  <2>8. Agrees'
    BY <2>6, <2>7 DEF Agrees
  <2> QED BY <1>2, <2>1, <2>5, <2>8
<1> QED BY <1>4, <1>5, <1>6, <1>7, <1>8

\* Every step keeps the chain, as long as nothing overlaps or fails.
LEMMA NextSerial == TypeOK /\ Serial /\ [Next]_vars => Serial'
<1> SUFFICES ASSUME TypeOK, Serial, [Next]_vars PROVE Serial'
  OBVIOUS
<1>1. CASE UNCHANGED vars
  BY <1>1 DEF Serial, Chained, Agrees, InProgress, IsRevisionBefore, Activations, WritesActive,
              ActiveParses, FromActive, Busy, vars
<1>2. ASSUME NEW p \in Processes, Stops(p) PROVE Serial'
  <2>1. failures \in Nat /\ failures' = failures + 1
    BY <1>2, PolicyLedgerAssumption DEF Stops, TypeOK
  <2> QED BY <2>1 DEF Serial
<1>3. CASE ~ overlapped' /\ failures' = 0
  BY <1>1, <1>2, <1>3, SerialStep DEF Next, StopsBetween, StopsAppending, StopsWriting
<1>4. CASE ~ (~ overlapped' /\ failures' = 0)
  BY <1>4 DEF Serial
<1> QED BY <1>3, <1>4

\* For any number of processes and revisions: as long as changes neither overlap nor
\* fail, between two of them the active revision is that of the last activation or
\* rollback in the ledger, and each of these started from the one before it.
THEOREM SerialChangesChain == Spec => []SerialChangesAgree
<1>1. Init => TypeOK /\ Serial
  BY InitTypes, InitSerial
<1>2. TypeOK /\ Serial /\ [Next]_vars => (TypeOK /\ Serial)'
  BY NextTypes, NextSerial
<1>3. Serial => SerialChangesAgree
  BY DEF Serial, Agrees, Chained, SerialChangesAgree
<1> QED BY <1>1, <1>2, <1>3, PTL DEF Spec

=============================================================================
