----------------------------- MODULE PolicyLedger -----------------------------
(***************************************************************************)
(* FilePolicyLedger: which revision of a policy set is active, and how it  *)
(* became so.  activate (and rollback, which is activate with another      *)
(* kind) reads the active file, appends a change record to a file of JSON  *)
(* lines and then writes the active file in place; recordFailedActivation  *)
(* only appends.  Any number of processes do so without a lock, a write    *)
(* may fail, and a process may die anywhere.                               *)
(***************************************************************************)
EXTENDS JsonLines

CONSTANTS
  Processes,  \* processes that change or record revisions
  Revisions,  \* revisions of the policy set
  MaxChanges, \* bound on the changes begun
  MaxFailures \* bound on failing writes and dying processes

ASSUME PolicyLedgerAssumption == MaxChanges \in Nat /\ MaxFailures \in Nat

VARIABLES
  changes,    \* the ledger file: lines of change records
  active,     \* the active file: a revision, Missing, Emptied or Torn
  process,    \* per process: where it is and the record it made
  begun,      \* how many changes were begun
  failures,   \* how many writes failed or processes died
  overlapped  \* two changes were in progress at once

vars == <<changes, active, process, begun, failures, overlapped>>

Missing == [missing |-> TRUE]  \* no active file: active() is undefined
Emptied == [emptied |-> TRUE]  \* nothing in it: active() throws
Torn    == [torn |-> TRUE]     \* something that is no JSON: active() throws

Active(revision) == [revision |-> revision]

ActiveParses == active \notin {Emptied, Torn}

None == "none"  \* a revision that is undefined

Kinds == {"activation", "rollback", "failed_activation"}

ChangeRecord ==
  [kind : Kinds, fromRevision : Revisions \cup {None}, toRevision : Revisions]

NoChange == [kind |-> "none", fromRevision |-> None, toRevision |-> None]

Steps == {"idle", "append", "truncate", "write"}

Becomes(p, step, record) == process' = [process EXCEPT ![p] = [step |-> step, record |-> record]]

Busy == {p \in Processes : process[p].step # "idle"}

Init ==
  /\ changes = EmptyFile
  /\ active = Missing
  /\ process = [p \in Processes |-> [step |-> "idle", record |-> NoChange]]
  /\ begun = 0
  /\ failures = 0
  /\ overlapped = FALSE

Begins(p) ==
  /\ process[p].step = "idle"
  /\ begun < MaxChanges
  /\ begun' = begun + 1
  /\ overlapped' = (overlapped \/ Busy # {})
  /\ UNCHANGED <<changes, active, failures>>

FromActive == IF active = Missing THEN None ELSE active.revision

\* activate and rollback: read the active revision and make the record.
ReadActive(p) ==
  /\ ActiveParses
  /\ Begins(p)
  /\ \E kind \in {"activation", "rollback"}, to \in Revisions :
       Becomes(p, "append", [kind |-> kind, toRevision |-> to, fromRevision |-> FromActive])

\* recordFailedActivation: the active file is not even read.
Attempt(p) ==
  /\ Begins(p)
  /\ \E to \in Revisions :
       Becomes(p, "append",
               [kind |-> "failed_activation", fromRevision |-> None, toRevision |-> to])

\* Mutant: a failed activation goes on to the active file like the others.
WritesActiveAlways(record) == TRUE

WritesActive(record) == record.kind # "failed_activation"

\* Mutant: only activations are recorded, a rollback just switches.
AppendActivation(p) ==
  /\ process[p].step = "append"
  /\ changes' = IF process[p].record.kind = "rollback" THEN changes
                ELSE AppendLine(changes, process[p].record)
  /\ IF WritesActive(process[p].record) THEN Becomes(p, "truncate", process[p].record)
     ELSE Becomes(p, "idle", NoChange)
  /\ UNCHANGED <<active, begun, failures, overlapped>>

AppendChange(p) ==
  /\ process[p].step = "append"
  /\ changes' = AppendLine(changes, process[p].record)
  /\ IF WritesActive(process[p].record) THEN Becomes(p, "truncate", process[p].record)
     ELSE Becomes(p, "idle", NoChange)
  /\ UNCHANGED <<active, begun, failures, overlapped>>

\* Writing the active file first empties it.
TruncateActive(p) ==
  /\ process[p].step = "truncate"
  /\ active' = Emptied
  /\ Becomes(p, "write", process[p].record)
  /\ UNCHANGED <<changes, begun, failures, overlapped>>

\* The file is no longer empty when another process that emptied it too has written
\* meanwhile: what is there now is this text, or this text and the end of a longer one.
WriteActive(p) ==
  LET mine == Active(process[p].record.toRevision)
  IN  /\ process[p].step = "write"
      /\ active' \in {mine} \cup (IF active = Emptied THEN {} ELSE {Torn})
      /\ Becomes(p, "idle", NoChange)
      /\ UNCHANGED <<changes, begun, failures, overlapped>>

\* A failing write throws to the caller, a dying process ends: either way the change
\* stops where it is, and what it was writing may be half there.
Stops(p) ==
  /\ process[p].step # "idle"
  /\ failures < MaxFailures
  /\ failures' = failures + 1
  /\ Becomes(p, "idle", NoChange)
  /\ UNCHANGED <<begun, overlapped>>

StopsBetween(p) ==
  /\ Stops(p)
  /\ UNCHANGED <<changes, active>>

StopsAppending(p) ==
  /\ process[p].step = "append"
  /\ Stops(p)
  /\ changes' \in TornAppends(changes, process[p].record)
  /\ UNCHANGED active

StopsWriting(p) ==
  /\ process[p].step = "write"
  /\ Stops(p)
  /\ active' = Torn
  /\ UNCHANGED changes

Next ==
  \E p \in Processes :
    \/ ReadActive(p) \/ Attempt(p)
    \/ AppendChange(p) \/ TruncateActive(p) \/ WriteActive(p)
    \/ StopsBetween(p) \/ StopsAppending(p) \/ StopsWriting(p)

Spec == Init /\ [][Next]_vars

-----------------------------------------------------------------------------
TypeOK ==
  /\ changes \in LineFiles(ChangeRecord)
  /\ changes.open => changes.lines # <<>>
  /\ active \in {Missing, Emptied, Torn} \cup {Active(r) : r \in Revisions}
  /\ process \in [Processes -> [step : Steps, record : ChangeRecord \cup {NoChange}]]
  /\ \A p \in Processes : process[p].step # "idle" => process[p].record \in ChangeRecord
  /\ begun \in 0..MaxChanges
  /\ failures \in 0..MaxFailures
  /\ overlapped \in BOOLEAN

\* The readable lines that made a revision active, and those revisions.
Activations ==
  {k \in DOMAIN changes.lines : changes.lines[k] # Garbage /\ WritesActive(changes.lines[k])}

Became == {changes.lines[k].toRevision : k \in Activations}

\* The revision that the last activation or rollback before a line made active.
IsRevisionBefore(revision, line) ==
  \/ revision = None /\ \A k \in Activations : k >= line
  \/ \E k \in Activations : /\ k < line
                            /\ \A j \in Activations : j < line => j <= k
                            /\ revision = changes.lines[k].toRevision

\* The active revision is never one the ledger does not know: as long as the ledger can
\* be read it holds an activation or rollback to the revision that is active, and to
\* every revision a record says it came from, whatever overlaps, fails or dies.
RevisionsAreRecorded ==
  Parses(changes) =>
    /\ active \in {Missing, Emptied, Torn} \cup {Active(r) : r \in Became}
    /\ \A k \in DOMAIN changes.lines : changes.lines[k].fromRevision \in Became \cup {None}

\* The active file and the ledger disagree only after an overlap or a failure: without
\* them, between changes, the last activation or rollback is the active one, and each
\* started from the one before it; failed activations leave no trace in the chain.
SerialChangesAgree ==
  (~ overlapped /\ failures = 0 /\ Busy = {}) =>
    /\ ActiveParses /\ IsRevisionBefore(FromActive, Len(changes.lines) + 1)
    /\ \A k \in Activations : IsRevisionBefore(changes.lines[k].fromRevision, k)

\* A change that has read the active file and will write it.
WillWrite(record) == record # NoChange /\ WritesActive(record)

\* Nobody repairs a torn active file: once it is torn and no activation is in progress
\* it stays torn and none ever gets going again, since every activation and every
\* rollback begins by reading the file.
TornStaysTorn ==
  [][(~ ActiveParses /\ \A p \in Processes : ~ WillWrite(process[p].record))
       => active' = active /\ \A p \in Processes : ~ WillWrite(process'[p].record)]_vars

=============================================================================
