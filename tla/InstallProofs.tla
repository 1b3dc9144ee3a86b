--------------------------- MODULE InstallProofs ---------------------------
(***************************************************************************)
(* What holds of any number of concurrent installers, versions, registry   *)
(* edits, faults and crashes, and of a load beside them.                   *)
(***************************************************************************)
EXTENDS InstalledLoader, FiniteSetTheorems, TLAPS

\* Where a process stands: --force is what lets it see an installation and go on, the
\* copy is whole before the old installation is touched.
PhaseInv(p) ==
  /\ installer[p].already =>
       /\ installer[p].force
       /\ installer[p].pc \notin {"find", "validate", "prepare", "check"}
  /\ installer[p].pc \in {"remove", "removing"} => installer[p].already
  /\ installer[p].pc \notin {"find", "validate"} \cup Ended =>
       installer[p].validated \in Versions
  /\ installer[p].pc \in {"remove", "removing", "rename"} => Whole(tmp[p])

\* The owner's files are whole; a process that renamed is the owner for as long as nobody
\* replaces what it installed.
OwnerInv ==
  /\ owner # Nobody => Whole(installed)
  /\ ~ Replacing =>
       \A p \in Installers :
         (installer[p].pc = "record" \/ installer[p].reply = "ok") => owner = p

IInv ==
  /\ TypeOK
  /\ \A p \in Installers : PhaseInv(p)
  /\ OwnerInv
  /\ HalfThereOnlyByForce

\* A process has one record, with the version it validated, if it succeeded, and none
\* otherwise; its files are installed without a record only between rename and record.
RecordInv(p) ==
  /\ installer[p].pc # "done" => installer[p].reply = "none"
  /\ installer[p].reply # "ok" => \A i \in 1..Len(ledger) : ledger[i].by # p
  /\ installer[p].reply = "ok" =>
       \E i \in 1..Len(ledger) :
         /\ ledger[i].by = p
         /\ ledger[i].version = installer[p].validated
         /\ \A j \in 1..Len(ledger) : ledger[j].by = p => j = i
  /\ (owner = p /\ installer[p].reply # "ok") =>
       installer[p].pc \in {"record", "crashed"} \/ installer[p].reply = "error"

\* In a registry nobody edits, what is copied and installed is what was validated.
CopyInv(p) ==
  publishes = 0 =>
    /\ installer[p].validated # Absent => installer[p].validated = registry
    /\ installer[p].pc \in {"remove", "removing", "rename"} => tmp[p] = installer[p].validated
    /\ owner = p => installed = installer[p].validated

Accounts ==
  /\ \A p \in Installers : RecordInv(p) /\ CopyInv(p)
  /\ publishes = 0 => installed # Invalid

-----------------------------------------------------------------------------
\* The invariant holds before any installer starts.
LEMMA InitInv == Init => IInv
<1> SUFFICES ASSUME Init PROVE IInv
  OBVIOUS
<1>1. PICK force \in [Installers -> BOOLEAN] :
        installer = [p \in Installers |->
          [pc |-> "find", force |-> force[p], validated |-> Absent, already |-> FALSE,
           reply |-> "none"]]
  BY DEF Init
<1>2. installer \in [Installers -> InstallerState]
  BY <1>1 DEF InstallerState, Stages
<1>3. TypeOK
  BY <1>2, InstallAssumption DEF Init, TypeOK, Entries
<1>4. \A p \in Installers : PhaseInv(p)
  BY <1>1 DEF PhaseInv
<1>5. OwnerInv
  BY <1>1 DEF Init, OwnerInv, Replacing
<1>6. HalfThereOnlyByForce
  BY InstallAssumption DEF Init, HalfThereOnlyByForce
<1> QED
  BY <1>3, <1>4, <1>5, <1>6 DEF IInv

-----------------------------------------------------------------------------
(* What a step of one process does, to the files and to the process.       *)

\* A step of p leaves the registry, the other processes and their copies alone; only its
\* record reaches the ledger, only a removal or its rename changes what is installed.
LEMMA StepEffects ==
  ASSUME TypeOK, NEW p \in Installers, Step(p) \/ Crash(p)
  PROVE  /\ registry' = registry /\ publishes' = publishes
         /\ \A q \in Installers \ {p} : installer'[q] = installer[q] /\ tmp'[q] = tmp[q]
         /\ ledger' = ledger \/ AppendRecord(p)
         /\ \/ installed' = installed /\ owner' = owner
            \/ /\ owner' = Nobody /\ installed' \in {Absent, Partial}
               /\ installer[p].pc \in {"remove", "removing"}
            \/ Rename(p)
<1> USE DEF At, Alone, NoFault, Goto, Return, Becomes, Fault, Step, Crash, Find, FindFails,
      Validate, ValidateFails, Prepare, PrepareFault, Check, AlreadyInstalled, CopyBegin, CopyEnd,
      CopyFails, RemoveBegin, RemoveNothing, RemoveFault, RemoveEnd, RemoveFails, RenameFails,
      Cleanup, CleanupFault, RecordFault
<1>1. registry' = registry /\ publishes' = publishes
  BY DEF Rename, AppendRecord
<1>2. \A q \in Installers \ {p} : installer'[q] = installer[q]
  BY DEF TypeOK, Rename, AppendRecord
<1>3. \A q \in Installers \ {p} : tmp'[q] = tmp[q]
  BY DEF TypeOK, Rename, AppendRecord
<1>4. ledger' = ledger \/ AppendRecord(p)
  BY DEF Rename
<1>5. \/ installed' = installed /\ owner' = owner
      \/ /\ owner' = Nobody /\ installed' \in {Absent, Partial}
         /\ installer[p].pc \in {"remove", "removing"}
      \/ Rename(p)
  BY DEF AppendRecord
<1> QED
  BY <1>1, <1>2, <1>3, <1>4, <1>5

\* The process p goes to pc having read the version and whether the id is installed.
Checked(p, pc, version, already) ==
  /\ installer'[p].pc = pc
  /\ installer'[p].reply = installer[p].reply
  /\ installer'[p].force <=> installer[p].force
  /\ installer'[p].already <=> already
  /\ installer'[p].validated = version

\* The process p goes to pc with the answer reply, and keeps the rest of its state.
Moved(p, pc, reply) ==
  /\ installer'[p].pc = pc
  /\ installer'[p].reply = reply
  /\ installer'[p].force <=> installer[p].force
  /\ installer'[p].already <=> installer[p].already
  /\ installer'[p].validated = installer[p].validated

Stays(p, pc) == Moved(p, pc, installer[p].reply)

\* Going on moves one installer and no other.
LEMMA GotoMoves ==
  ASSUME TypeOK, NEW p \in Installers, NEW pc \in Stages, Goto(p, pc)
  PROVE  Stays(p, pc) /\ installer' \in [Installers -> InstallerState]
<1>1. [installer[p] EXCEPT !.pc = pc] \in InstallerState
  BY DEF TypeOK, InstallerState
<1>2. installer' \in [Installers -> InstallerState]
  BY <1>1 DEF TypeOK, Goto, Becomes
<1>3. Stays(p, pc)
  BY DEF TypeOK, InstallerState, Goto, Becomes, Stays, Moved
<1> QED
  BY <1>2, <1>3

\* Returning ends one installer and moves no other.
LEMMA ReturnMoves ==
  ASSUME TypeOK, NEW p \in Installers, NEW reply \in {"ok", "error"}, Return(p, reply)
  PROVE  Moved(p, "done", reply) /\ installer' \in [Installers -> InstallerState]
<1>1. [installer[p] EXCEPT !.pc = "done", !.reply = reply] \in InstallerState
  BY DEF TypeOK, InstallerState, Stages
<1>2. installer' \in [Installers -> InstallerState]
  BY <1>1 DEF TypeOK, Return, Becomes
<1>3. Moved(p, "done", reply)
  BY DEF TypeOK, InstallerState, Return, Becomes, Moved
<1> QED
  BY <1>2, <1>3

\* The stages, without the definition of their set.
LEMMA StageNames ==
  {"find", "validate", "prepare", "check", "copy", "copying", "remove", "removing", "rename",
   "cleanup", "record", "done", "crashed"} \subseteq Stages
BY DEF Stages

\* What a step makes of the process that takes it.
LEMMA StepMoves ==
  ASSUME TypeOK, NEW p \in Installers, Step(p) \/ Crash(p)
  PROVE  /\ installer' \in [Installers -> InstallerState]
         /\ LET pc == installer[p].pc
            IN \/ pc = "find" /\ Stays(p, "validate")
               \/ /\ pc = "validate" /\ registry \in Versions
                  /\ Checked(p, "prepare", registry, installer[p].already)
               \/ pc = "prepare" /\ Stays(p, "check")
               \/ /\ pc = "check" /\ (installed # Absent => installer[p].force)
                  /\ Checked(p, "copy", installer[p].validated, installed # Absent)
               \/ pc = "copy" /\ Stays(p, "copying")
               \/ /\ pc = "copying" /\ tmp'[p] = registry /\ registry # Absent
                  /\ \/ installer[p].already /\ Stays(p, "remove")
                     \/ ~ installer[p].already /\ Stays(p, "rename")
               \/ pc = "remove" /\ tmp' = tmp /\ Stays(p, "removing")
               \/ pc \in {"remove", "removing"} /\ tmp' = tmp /\ Stays(p, "rename")
               \/ pc = "rename" /\ Rename(p) /\ Stays(p, "record")
               \/ pc = "record" /\ AppendRecord(p) /\ Moved(p, "done", "ok")
               \/ pc \in {"copying", "remove", "removing", "rename"} /\ Stays(p, "cleanup")
               \/ pc \notin Ended /\ Moved(p, "done", "error")
               \/ pc \notin Ended /\ Stays(p, "crashed")
<1> USE DEF At
<1>1. CASE Find(p) \/ Prepare(p)
  BY <1>1, GotoMoves, StageNames DEF Find, Prepare
<1>2. CASE Validate(p)
  <2>1. [installer[p] EXCEPT !.pc = "prepare", !.validated = registry] \in InstallerState
    BY <1>2, StageNames DEF TypeOK, InstallerState, Validate
  <2>2. installer' \in [Installers -> InstallerState]
    BY <1>2, <2>1 DEF Validate, Becomes, TypeOK
  <2>3. Checked(p, "prepare", registry, installer[p].already)
    BY <1>2 DEF Validate, Becomes, TypeOK, InstallerState, Checked
  <2> QED
    BY <1>2, <2>2, <2>3 DEF Validate
<1>3. CASE Check(p)
  <2>1. [installer[p] EXCEPT !.pc = "copy", !.already = (installed # Absent)] \in InstallerState
    BY StageNames DEF TypeOK, InstallerState
  <2>2. installer' \in [Installers -> InstallerState]
    BY <1>3, <2>1 DEF Check, Becomes, TypeOK
  <2>3. Checked(p, "copy", installer[p].validated, installed # Absent)
    BY <1>3 DEF Check, Becomes, TypeOK, InstallerState, Checked
  <2> QED
    BY <1>3, <2>2, <2>3 DEF Check
<1>4. CASE CopyBegin(p)
  BY <1>4, GotoMoves, StageNames DEF CopyBegin
<1>5. CASE CopyEnd(p)
  <2>1. Goto(p, IF installer[p].already THEN "remove" ELSE "rename")
    BY <1>5 DEF CopyEnd
  <2>2. /\ installer' \in [Installers -> InstallerState]
        /\ \/ installer[p].already /\ Stays(p, "remove")
           \/ ~ installer[p].already /\ Stays(p, "rename")
    BY <2>1, GotoMoves, StageNames
  <2>3. tmp'[p] = registry
    BY <1>5 DEF CopyEnd, TypeOK
  <2> QED
    BY <1>5, <2>2, <2>3 DEF CopyEnd
<1>6. CASE RemoveBegin(p) \/ RemoveNothing(p) \/ RemoveEnd(p)
  BY <1>6, GotoMoves, StageNames DEF RemoveBegin, RemoveNothing, RemoveEnd, Alone
<1>7. CASE CopyFails(p) \/ RemoveFault(p) \/ RemoveFails(p) \/ RenameFails(p)
  BY <1>7, GotoMoves, StageNames DEF CopyFails, RemoveFault, RemoveFails, RenameFails
<1>8. CASE Rename(p)
  BY <1>8, GotoMoves, StageNames DEF Rename
<1>9. CASE AppendRecord(p)
  BY <1>9, ReturnMoves DEF AppendRecord
<1>10. CASE \/ FindFails(p) \/ ValidateFails(p) \/ PrepareFault(p) \/ AlreadyInstalled(p)
            \/ Cleanup(p) \/ CleanupFault(p) \/ RecordFault(p)
  BY <1>10, ReturnMoves
  DEF FindFails, ValidateFails, PrepareFault, AlreadyInstalled, Cleanup, CleanupFault,
      RecordFault, Ended
<1>11. CASE Crash(p)
  BY <1>11, GotoMoves, StageNames DEF Crash
<1> QED
  BY <1>1, <1>2, <1>3, <1>4, <1>5, <1>6, <1>7, <1>8, <1>9, <1>10, <1>11 DEF Step

-----------------------------------------------------------------------------
(* The steps keep the invariant.                                           *)

\* The types, over all the steps.
LEMMA TypesKept ==
  ASSUME TypeOK, NEW p \in Installers, PhaseInv(p), Step(p) \/ Crash(p)
  PROVE  TypeOK'
<1> USE DEF At, Alone, NoFault, Fault, Step, Crash, Find, FindFails, Validate, ValidateFails,
      Prepare, PrepareFault, Check, AlreadyInstalled, CopyBegin, CopyEnd, CopyFails, RemoveBegin,
      RemoveNothing, RemoveFault, RemoveEnd, RemoveFails, Rename, RenameFails, Cleanup,
      CleanupFault, RecordFault
<1>1. registry' \in Entries \cup {Absent} /\ publishes' \in 0..MaxPublishes
  BY StepEffects DEF TypeOK
<1>2. tmp' \in [Installers -> Entries \cup {Absent, Partial}]
  BY DEF TypeOK, AppendRecord
<1>3. installed' \in Entries \cup {Absent, Partial} /\ owner' \in Installers \cup {Nobody}
  BY DEF TypeOK, AppendRecord, PhaseInv, Whole
<1>4. faults' \in 0..MaxFaults /\ crashes' \in 0..MaxCrashes
  BY InstallAssumption DEF TypeOK, AppendRecord
<1>5. ledger' \in Seq(LedgerRecord)
  <2>1. CASE AppendRecord(p)
    <3> DEFINE event == IF installer[p].already THEN "updated" ELSE "installed"
    <3>1. installer[p].validated \in Versions
      BY <2>1 DEF AppendRecord, PhaseInv, Ended
    <3>2. [by |-> p, event |-> event, version |-> installer[p].validated] \in LedgerRecord
      BY <3>1 DEF LedgerRecord
    <3> QED
      BY <2>1, <3>2 DEF TypeOK, AppendRecord
  <2> QED
    BY <2>1, StepEffects DEF TypeOK
<1> QED
  BY <1>1, <1>2, <1>3, <1>4, <1>5, StepMoves DEF TypeOK

\* The stages of the process that takes the step.
LEMMA PhaseKept ==
  ASSUME TypeOK, NEW p \in Installers, PhaseInv(p), Step(p) \/ Crash(p)
  PROVE  PhaseInv(p)'
<1> USE DEF Stays, Moved, Checked, PhaseInv, InstallerState, Ended
<1>1. installer[p] \in InstallerState /\ registry \in Entries \cup {Absent}
  BY DEF TypeOK
<1>2. installer'[p].already =>
       /\ installer'[p].force
       /\ installer'[p].pc \notin {"find", "validate", "prepare", "check"}
  BY <1>1, StepMoves
<1>3. installer'[p].pc \in {"remove", "removing"} => installer'[p].already
  BY <1>1, StepMoves
<1>4. installer'[p].pc \notin {"find", "validate"} \cup Ended =>
        installer'[p].validated \in Versions
  BY <1>1, StepMoves
<1>5. installer'[p].pc \in {"remove", "removing", "rename"} => Whole(tmp'[p])
  BY <1>1, StepMoves DEF Whole
<1> QED
  BY <1>2, <1>3, <1>4, <1>5 DEF Whole

\* Nobody stops replacing an installation once it saw it.
LEMMA ReplacingStays ==
  ASSUME TypeOK, NEW p \in Installers, PhaseInv(p), Step(p) \/ Crash(p), Replacing
  PROVE  Replacing'
<1>1. PICK q \in Installers : installer[q].force /\ installer[q].already
  BY DEF Replacing
<1>2. CASE q # p
  BY <1>1, <1>2, StepEffects DEF Replacing
<1>3. CASE q = p
  <2>1. installer'[p].force /\ installer'[p].already
    BY <1>1, <1>3, StepMoves DEF Stays, Moved, Checked, PhaseInv
  <2> QED
    BY <2>1 DEF Replacing
<1> QED
  BY <1>2, <1>3

\* A rename makes its process the owner of a directory that had none; without a
\* replacement nobody takes it from it.
LEMMA OwnerKept ==
  ASSUME IInv, NEW p \in Installers, Step(p) \/ Crash(p)
  PROVE  OwnerInv'
<1>1. installer[p] \in InstallerState /\ PhaseInv(p)
  BY DEF IInv, TypeOK
<1>2. Rename(p) => installed' = tmp[p] /\ owner' = p /\ Whole(tmp[p]) /\ ~ Whole(installed)
  BY InstallAssumption DEF Rename, At, IInv, PhaseInv, Whole, Entries
<1>3. owner' # Nobody => Whole(installed')
  BY <1>2, StepEffects DEF IInv, OwnerInv, Whole
<1>4. ASSUME ~ Replacing',
             NEW q \in Installers, installer'[q].pc = "record" \/ installer'[q].reply = "ok"
      PROVE  owner' = q
  <2>1. ~ Replacing /\ installer[p].pc \notin {"remove", "removing"}
    BY <1>1, <1>4, ReplacingStays DEF IInv, PhaseInv, Replacing
  <2>2. (installer[q].pc = "record" \/ installer[q].reply = "ok") => owner = q
    BY <2>1 DEF IInv, OwnerInv
  <2>3. CASE Rename(p)
    <3>1. owner = Nobody
      BY <1>2, <2>3 DEF IInv, OwnerInv
    <3>2. q = p
      BY <1>4, <2>2, <3>1, StepEffects, InstallAssumption DEF IInv
    <3> QED
      BY <1>2, <2>3, <3>2
  <2>4. CASE ~ Rename(p)
    <3>1. installer[q].pc = "record" \/ installer[q].reply = "ok"
      <4>1. CASE q # p
        BY <1>4, <4>1, StepEffects DEF IInv
      <4>2. CASE q = p
        BY <1>4, <2>4, <4>2, StepMoves DEF IInv, Stays, Moved, Checked
      <4> QED
        BY <4>1, <4>2
    <3> QED
      BY <2>1, <2>2, <2>4, <3>1, StepEffects DEF IInv
  <2> QED
    BY <2>3, <2>4
<1> QED
  BY <1>3, <1>4 DEF OwnerInv, Whole

\* Only a removal leaves a part, and only a replacement removes.
LEMMA HalfKept ==
  ASSUME IInv, NEW p \in Installers, Step(p) \/ Crash(p)
  PROVE  HalfThereOnlyByForce'
<1>1. PhaseInv(p)
  BY DEF IInv
<1>2. HalfThereOnlyByForce' <=> (installed' = Partial => Replacing')
  BY DEF HalfThereOnlyByForce, Replacing
<1>3. Rename(p) => installed' # Partial
  BY InstallAssumption DEF Rename, At, IInv, PhaseInv, Whole, Entries
<1>4. installed' = Partial => Replacing
  BY <1>1, <1>3, StepEffects DEF IInv, HalfThereOnlyByForce, Replacing, PhaseInv
<1> QED
  BY <1>1, <1>2, <1>4, ReplacingStays DEF IInv

\* Every step of an installer keeps the invariant.
LEMMA StepKeeps ==
  ASSUME IInv, NEW p \in Installers, Step(p) \/ Crash(p)
  PROVE  IInv'
<1>1. TypeOK /\ \A q \in Installers : PhaseInv(q)
  BY DEF IInv
<1>2. ASSUME NEW q \in Installers \ {p} PROVE PhaseInv(q)'
  BY <1>1, <1>2, StepEffects DEF PhaseInv, Whole
<1> QED
  BY <1>1, <1>2, TypesKept, PhaseKept, OwnerKept, HalfKept DEF IInv

\* An edit of the registry keeps the invariant.
LEMMA PublishKeeps == ASSUME IInv, Publish PROVE IInv'
<1>1. TypeOK'
  BY InstallAssumption DEF IInv, Publish, TypeOK, Entries
<1> QED
  BY <1>1 DEF IInv, Publish, PhaseInv, OwnerInv, HalfThereOnlyByForce, Whole, Replacing

\* Every step keeps the invariant.
LEMMA NextKeeps == ASSUME IInv, [Next]_vars PROVE IInv'
<1>1. CASE Publish
  BY <1>1, PublishKeeps
<1>2. CASE \E p \in Installers : Step(p) \/ Crash(p)
  BY <1>2, StepKeeps
<1>3. CASE UNCHANGED vars
  BY <1>3 DEF vars, IInv, TypeOK, PhaseInv, OwnerInv, HalfThereOnlyByForce, Whole, Replacing
<1> QED
  BY <1>1, <1>2, <1>3 DEF Next

\* For any number of installers, faults, crashes and edits the invariant holds in every
\* state: removals follow a check, copies are whole before anything is removed, and the
\* files of the owner are whole.
THEOREM InstallInvariant == Spec => []IInv
<1>1. Init => IInv
  BY InitInv
<1>2. IInv /\ [Next]_vars => IInv'
  BY NextKeeps
<1> QED
  BY <1>1, <1>2, PTL DEF Spec

-----------------------------------------------------------------------------
\* Every variable keeps its type (installCapability).
THEOREM InstallTypes == Spec => []TypeOK
<1>1. IInv => TypeOK
  BY DEF IInv
<1> QED
  BY <1>1, InstallInvariant, PTL

\* A first installation is never half there, for any number of installers.
THEOREM FirstInstallIsWhole == Spec => []HalfThereOnlyByForce
<1>1. IInv => HalfThereOnlyByForce
  BY DEF IInv
<1> QED
  BY <1>1, InstallInvariant, PTL

\* Without --force at most one of any number of installers succeeds, and its files stay.
THEOREM OneInstallerSucceeds == Spec => []SuccessStays
<1>1. IInv => SuccessStays
  BY DEF IInv, OwnerInv, SuccessStays, Replacing
<1> QED
  BY <1>1, InstallInvariant, PTL

\* A step replaces or removes a whole installation only by force.
LEMMA StepKeepsInstalled ==
  ASSUME IInv, [Next]_vars, Whole(installed), installed' # installed
  PROVE  \E p \in Installers : /\ installer[p].force
                              /\ installer[p].pc \in {"remove", "removing"}
<1>1. PICK p \in Installers : Step(p) \/ Crash(p)
  BY DEF Next, Publish, vars
<1>2. CASE RemoveBegin(p) \/ RemoveEnd(p) \/ RemoveFails(p)
  BY <1>2 DEF RemoveBegin, RemoveEnd, RemoveFails, At, IInv, PhaseInv
<1>3. CASE Rename(p)
  BY <1>3, InstallAssumption DEF Rename, Whole, Entries
<1> QED
  BY <1>1, <1>2, <1>3
  DEF Step, Crash, Find, FindFails, Validate, ValidateFails, Prepare, PrepareFault, Check,
      AlreadyInstalled, CopyBegin, CopyEnd, CopyFails, RemoveNothing, RemoveFault, RenameFails,
      Cleanup, CleanupFault, AppendRecord, RecordFault, Alone

\* No whole installation is replaced or removed but by a process with --force that is
\* removing it: the stale check of alreadyInstalled never overwrites anything.
THEOREM InstalledIsKept == Spec => KeptWithoutForce
<1>1. IInv /\ [Next]_vars =>
        ((Whole(installed) /\ installed' # installed) =>
           \E p \in Installers : /\ installer[p].force
                                /\ installer[p].pc \in {"remove", "removing"})
  BY StepKeepsInstalled
<1> QED
  BY <1>1, InstallInvariant, PTL DEF Spec, KeptWithoutForce

-----------------------------------------------------------------------------
(* Records and versions.                                                   *)

\* Before any installer starts there are no records and nothing is installed.
LEMMA InitAccounts == Init => Accounts
<1> SUFFICES ASSUME Init PROVE Accounts
  OBVIOUS
<1>1. \A p \in Installers : /\ installer[p].pc = "find"
                            /\ installer[p].validated = Absent
                            /\ installer[p].reply = "none"
  BY DEF Init
<1>2. Len(ledger) = 0
  BY DEF Init
<1>3. \A p \in Installers : RecordInv(p)
  BY <1>1, <1>2, InstallAssumption DEF RecordInv, Init
<1>4. \A p \in Installers : CopyInv(p)
  BY <1>1, InstallAssumption DEF CopyInv, Init
<1>5. installed # Invalid
  BY InstallAssumption DEF Init
<1> QED
  BY <1>3, <1>4, <1>5 DEF Accounts

\* A step that writes no record and takes over no installation keeps the records of q.
LEMMA RecordsUntouched ==
  ASSUME NEW q \in Installers, RecordInv(q), ledger' = ledger, owner' = owner \/ owner' = Nobody,
         installer'[q] = installer[q]
  PROVE  RecordInv(q)'
BY InstallAssumption DEF RecordInv

\* The record of p is appended to a ledger that has none of it.
LEMMA RecordAppended ==
  ASSUME IInv, Accounts, NEW p \in Installers, AppendRecord(p), NEW q \in Installers
  PROVE  RecordInv(q)'
<1> DEFINE event  == IF installer[p].already THEN "updated" ELSE "installed"
           record == [by |-> p, event |-> event, version |-> installer[p].validated]
           n      == Len(ledger)
<1>1. /\ ledger \in Seq(LedgerRecord)
      /\ n \in Nat
      /\ installer[p].validated \in Versions
      /\ RecordInv(q)
      /\ RecordInv(p)
  BY DEF IInv, TypeOK, AppendRecord, At, PhaseInv, Ended, Accounts
<1>2. record \in LedgerRecord /\ record.by = p /\ record.version = installer[p].validated
  BY <1>1 DEF LedgerRecord
<1> HIDE DEF record
<1>3. ledger' = Append(ledger, record)
  BY DEF AppendRecord, record
<1>4. /\ Len(ledger') = n + 1
      /\ ledger'[n + 1] = record
      /\ \A i \in 1..n : ledger'[i] = ledger[i]
  BY <1>1, <1>2, <1>3
<1>5. Moved(p, "done", "ok") /\ installer[p].pc = "record" /\ owner' = owner
  BY ReturnMoves DEF IInv, AppendRecord, At
<1>6. CASE q = p
  <2>1. \A i \in 1..n : ledger[i].by # p
    BY <1>1, <1>5 DEF RecordInv
  <2>2. \A j \in 1..(n + 1) : ledger'[j].by = p => j = n + 1
    BY <1>1, <1>4, <2>1
  <2>3. installer'[p].reply = "ok" /\ installer'[p].pc = "done"
        /\ installer'[p].validated = installer[p].validated
    BY <1>5 DEF Moved
  <2>4. n + 1 \in 1..(n + 1)
    BY <1>1
  <2> HIDE DEF n
  <2> QED
    BY <1>2, <1>4, <1>6, <2>2, <2>3, <2>4 DEF RecordInv
<1>7. CASE q # p
  <2>1. installer'[q] = installer[q]
    BY <1>7, StepEffects DEF IInv, Step
  <2>2. record.by # q
    BY <1>2, <1>7
  <2>3. \A i \in 1..(n + 1) : ledger'[i].by = q => i \in 1..n
    BY <1>1, <1>4, <2>2
  <2>4. \A i \in 1..n : i \in 1..(n + 1)
    BY <1>1
  <2> HIDE DEF n
  <2>5. installer[q].reply # "ok" => \A i \in 1..Len(ledger') : ledger'[i].by # q
    BY <1>1, <1>4, <2>3 DEF RecordInv, n
  <2>6. installer[q].reply = "ok" =>
          \E i \in 1..Len(ledger') :
            /\ ledger'[i].by = q
            /\ ledger'[i].version = installer[q].validated
            /\ \A j \in 1..Len(ledger') : ledger'[j].by = q => j = i
    <3> SUFFICES ASSUME installer[q].reply = "ok"
                 PROVE  \E i \in 1..Len(ledger') :
                          /\ ledger'[i].by = q
                          /\ ledger'[i].version = installer[q].validated
                          /\ \A j \in 1..Len(ledger') : ledger'[j].by = q => j = i
      OBVIOUS
    <3>1. PICK i \in 1..n : /\ ledger[i].by = q
                            /\ ledger[i].version = installer[q].validated
                            /\ \A j \in 1..n : ledger[j].by = q => j = i
      BY <1>1 DEF RecordInv, n
    <3>2. \A j \in 1..(n + 1) : ledger'[j].by = q => j = i
      BY <1>4, <2>3, <3>1
    <3> QED
      BY <1>4, <2>4, <3>1, <3>2
  <2> QED
    BY <1>1, <1>5, <2>1, <2>5, <2>6 DEF RecordInv
<1> QED
  BY <1>6, <1>7

\* Every other step writes no record, and leaves the one that stands.
LEMMA RecordsKept ==
  ASSUME IInv, Accounts, NEW p \in Installers, Step(p) \/ Crash(p), NEW q \in Installers
  PROVE  RecordInv(q)'
<1>1. TypeOK /\ RecordInv(p) /\ RecordInv(q) /\ installer[p].pc \notin Ended
  BY StepMoves DEF IInv, Accounts, Ended
<1>2. CASE AppendRecord(p)
  BY <1>2, RecordAppended
<1>3. CASE ~ AppendRecord(p)
  <2>1. ledger' = ledger
    BY <1>1, <1>3, StepEffects
  <2>2. CASE q # p
    <3>1. installer'[q] = installer[q]
      BY <1>1, <2>2, StepEffects
    <3>2. owner' = q => owner = q
      BY <1>1, <2>2, StepEffects, InstallAssumption DEF Rename
    <3> QED
      BY <1>1, <2>1, <3>1, <3>2 DEF RecordInv
  <2>3. CASE q = p
    <3>1. installer[p].reply = "none"
      BY <1>1 DEF RecordInv, Ended
    <3>2. /\ installer'[p].reply \in {"none", "error"}
          /\ installer'[p].pc # "done" => installer'[p].reply = "none"
      BY <1>1, <1>3, <3>1, StepMoves DEF Stays, Moved, Checked
    <3>3. (owner' = p /\ installer'[p].reply = "none") =>
            installer'[p].pc \in {"record", "crashed"}
      <4>1. CASE Rename(p)
        BY <1>1, <4>1, GotoMoves, StageNames DEF Rename, Stays, Moved
      <4>2. CASE ~ Rename(p)
        <5>1. owner' = p => owner = p
          BY <1>1, <4>2, StepEffects, InstallAssumption
        <5>2. owner = p => installer[p].pc = "record"
          BY <1>1, <3>1 DEF RecordInv, Ended
        <5>3. installer[p].pc = "record" =>
                installer'[p].pc = "crashed" \/ installer'[p].reply = "error"
          BY <1>1, <1>3, StepMoves DEF Stays, Moved
        <5> QED
          BY <5>1, <5>2, <5>3
      <4> QED
        BY <4>1, <4>2
    <3> QED
      BY <1>1, <2>1, <2>3, <3>1, <3>2, <3>3 DEF RecordInv
  <2> QED
    BY <2>2, <2>3
<1> QED
  BY <1>2, <1>3

\* Validated, copied and installed is the same version while the registry stays.
LEMMA CopiesKept ==
  ASSUME IInv, Accounts, NEW p \in Installers, Step(p) \/ Crash(p), NEW q \in Installers
  PROVE  CopyInv(q)' /\ (publishes' = 0 => installed' # Invalid)
<1> SUFFICES ASSUME publishes' = 0
             PROVE  CopyInv(q)' /\ installed' # Invalid
  BY DEF CopyInv
<1>1. /\ TypeOK /\ PhaseInv(p) /\ CopyInv(p) /\ CopyInv(q)
      /\ publishes = 0 /\ registry' = registry
      /\ installed # Invalid
  BY StepEffects DEF IInv, Accounts
<1>2. Rename(p) =>
        /\ installer[p].pc = "rename"
        /\ installed' = tmp[p] /\ owner' = p
        /\ tmp[p] = installer[p].validated
        /\ installer[p].validated \in Versions
  BY <1>1 DEF Rename, At, PhaseInv, CopyInv, Ended
<1>3. installed' # Invalid
  BY <1>1, <1>2, StepEffects, InstallAssumption
<1>4. CASE q # p
  <2>1. installer'[q] = installer[q] /\ tmp'[q] = tmp[q]
    BY <1>1, <1>4, StepEffects
  <2>2. owner' = q => owner = q /\ installed' = installed
    BY <1>1, <1>2, <1>4, StepEffects, InstallAssumption
  <2> QED
    BY <1>1, <1>3, <2>1, <2>2 DEF CopyInv
<1>5. CASE q = p
  <2>1. installer'[p].validated # Absent => installer'[p].validated = registry
    BY <1>1, StepMoves DEF Stays, Moved, Checked, CopyInv
  <2>2. installer'[p].pc \in {"remove", "removing", "rename"} =>
          tmp'[p] = installer'[p].validated
    <3>1. installer[p].pc = "copying" => installer[p].validated = registry
      BY <1>1, InstallAssumption DEF PhaseInv, CopyInv, Ended
    <3> QED
      BY <1>1, <3>1, StepMoves DEF Stays, Moved, Checked, CopyInv
  <2>3. owner' = p => installed' = installer'[p].validated
    <3>1. CASE Rename(p)
      BY <1>1, <1>2, <3>1, GotoMoves, StageNames DEF Rename, Stays, Moved
    <3>2. CASE ~ Rename(p)
      <4>1. owner' = p => owner = p /\ installed' = installed
        BY <1>1, <3>2, StepEffects, InstallAssumption
      <4>2. owner = p => installer[p].pc = "record"
        BY <1>1, StepMoves DEF Accounts, RecordInv, Ended
      <4>3. installer[p].pc = "record" => installer'[p].validated = installer[p].validated
        BY <1>1, StepMoves DEF Stays, Moved
      <4> QED
        BY <1>1, <4>1, <4>2, <4>3 DEF CopyInv
    <3> QED
      BY <3>1, <3>2
  <2> QED
    BY <1>1, <1>3, <1>5, <2>1, <2>2, <2>3 DEF CopyInv
<1> QED
  BY <1>4, <1>5

\* Every step keeps the accounts of records and versions.
LEMMA AccountsKept == ASSUME IInv, Accounts, [Next]_vars PROVE Accounts'
<1>1. CASE Publish
  <2>1. publishes' # 0
    BY <1>1 DEF Publish, IInv, TypeOK
  <2>2. \A p \in Installers : RecordInv(p)'
    BY <1>1 DEF Publish, Accounts, RecordInv
  <2> QED
    BY <2>1, <2>2 DEF Accounts, CopyInv
<1>2. ASSUME NEW p \in Installers, Step(p) \/ Crash(p) PROVE Accounts'
  BY <1>2, RecordsKept, CopiesKept DEF Accounts
<1>3. CASE UNCHANGED vars
  BY <1>3 DEF vars, Accounts, RecordInv, CopyInv
<1> QED
  BY <1>1, <1>2, <1>3 DEF Next

\* The accounts of records and versions are right in every state.
LEMMA InstallAccounts == Spec => [](IInv /\ Accounts)
<1>1. Init => IInv /\ Accounts
  BY InitInv, InitAccounts
<1>2. IInv /\ Accounts /\ [Next]_vars => (IInv /\ Accounts)'
  BY NextKeeps, AccountsKept
<1> QED
  BY <1>1, <1>2, PTL DEF Spec

\* One record for a command that succeeds, none for one that does not.
THEOREM OneRecordEach == Spec => []SuccessIsRecorded
<1>1. Accounts => SuccessIsRecorded
  <2> SUFFICES ASSUME Accounts, NEW p \in Installers
               PROVE  Cardinality({i \in 1..Len(ledger) : ledger[i].by = p}) =
                        (IF installer[p].reply = "ok" THEN 1 ELSE 0)
    BY DEF Accounts, RecordInv, SuccessIsRecorded
  <2> DEFINE records == {i \in 1..Len(ledger) : ledger[i].by = p}
  <2>1. CASE installer[p].reply = "ok"
    <3>1. PICK i \in 1..Len(ledger) :
            /\ ledger[i].by = p
            /\ \A j \in 1..Len(ledger) : ledger[j].by = p => j = i
      BY <2>1 DEF Accounts, RecordInv
    <3>2. records = {i}
      BY <3>1
    <3> QED
      BY <2>1, <3>2, FS_Singleton
  <2>2. CASE installer[p].reply # "ok"
    <3>1. records = {}
      BY <2>2 DEF Accounts, RecordInv
    <3> QED
      BY <2>2, <3>1, FS_EmptySet
  <2> QED
    BY <2>1, <2>2
<1> QED
  BY <1>1, InstallAccounts, PTL

\* While nobody edits the registry, what is installed is what was validated.
THEOREM ValidatedIsInstalled == Spec => []InstalledWasValidated
<1>1. Accounts => InstalledWasValidated
  BY DEF Accounts, CopyInv, InstalledWasValidated
<1> QED
  BY <1>1, InstallAccounts, PTL

-----------------------------------------------------------------------------
(* A load beside the installers.                                           *)

\* A record with the version is one of a command that had succeeded when the load began.
Accounted(version) ==
  loader.succeeded # {} =>
    \E k \in DOMAIN ledger : ledger[k].by \in loader.succeeded /\ ledger[k].version = version

\* Between its two reads, what a load has listed stays whole and in its recorded version.
LoadInv ==
  /\ loader \in [step : {"idle", "listed", "loaded"}, succeeded : SUBSET Installers,
                 found : Entries \cup {Absent}]
  /\ content \in Entries \cup {Absent}
  /\ (~ Replacing /\ publishes = 0) =>
       /\ loader.step = "listed" => Whole(installed) /\ Accounted(installed)
       /\ loader.step = "loaded" => loader.found # Invalid /\ Accounted(loader.found)

\* The loads change nothing the installers see.
LEMMA LoadSpecIsSpec == LoadSpec => Spec
<1>1. LoadInit => Init
  BY DEF LoadInit
<1>2. [LoadNext]_loadVars => [Next]_vars
  BY DEF LoadNext, ListEntries, ReadManifest, loadVars
<1> QED
  BY <1>1, <1>2, PTL DEF LoadSpec, Spec

\* What a command that succeeded has installed is there, with its record, while nobody
\* replaces it.
LEMMA SuccessIsThere ==
  ASSUME IInv, Accounts, ~ Replacing, publishes = 0, NEW p \in Installers,
         installer[p].reply = "ok"
  PROVE  /\ Whole(installed)
         /\ \E k \in DOMAIN ledger : ledger[k].by = p /\ ledger[k].version = installed
<1>1. owner = p
  BY DEF IInv, OwnerInv
<1>2. Whole(installed)
  BY <1>1, InstallAssumption DEF IInv, OwnerInv
<1>3. installed = installer[p].validated
  BY <1>1 DEF Accounts, CopyInv
<1>4. PICK k \in 1..Len(ledger) :
        ledger[k].by = p /\ ledger[k].version = installer[p].validated
  BY DEF Accounts, RecordInv
<1>5. DOMAIN ledger = 1..Len(ledger)
  BY DEF IInv, TypeOK
<1> QED
  BY <1>2, <1>3, <1>4, <1>5

\* The entry is listed: what succeeded before is there.
LEMMA ListKeeps == ASSUME IInv, Accounts, LoadInv, ListEntries PROVE LoadInv'
<1> DEFINE succeeded == {p \in Installers : installer[p].reply = "ok"}
           step      == IF installed = Absent THEN "loaded" ELSE "listed"
<1>1. /\ loader' = [step |-> step, succeeded |-> succeeded, found |-> Absent]
      /\ UNCHANGED vars
      /\ content' = content
  BY DEF ListEntries
<1>2. UNCHANGED <<ledger, installed, installer, publishes>>
  BY <1>1 DEF vars
<1>3. Absent # Invalid /\ ~ Whole(Absent)
  BY InstallAssumption DEF Whole, Entries
<1>4. /\ loader' \in [step : {"idle", "listed", "loaded"}, succeeded : SUBSET Installers,
                      found : Entries \cup {Absent}]
      /\ loader'.step = step /\ loader'.succeeded = succeeded /\ loader'.found = Absent
  BY <1>1
<1>5. ASSUME ~ Replacing, publishes = 0, succeeded # {}
      PROVE  /\ Whole(installed)
             /\ \E k \in DOMAIN ledger :
                  ledger[k].by \in succeeded /\ ledger[k].version = installed
  <2>1. PICK p \in succeeded : TRUE
    BY <1>5
  <2> QED
    BY <1>5, <2>1, SuccessIsThere
<1>6. ASSUME ~ Replacing, publishes = 0 PROVE installed # Partial
  BY <1>6 DEF IInv, HalfThereOnlyByForce, Replacing
<1>7. ASSUME ~ Replacing, publishes = 0, installed # Absent PROVE Whole(installed)
  BY <1>6, <1>7 DEF IInv, TypeOK, Whole
<1> HIDE DEF succeeded
<1>8. (~ Replacing /\ publishes = 0)' => ~ Replacing /\ publishes = 0
  BY <1>2 DEF Replacing
<1>9. CASE installed = Absent
  <2>1. (~ Replacing /\ publishes = 0) => succeeded = {}
    BY <1>3, <1>5, <1>9
  <2> QED
    BY <1>1, <1>2, <1>3, <1>4, <1>8, <1>9, <2>1 DEF LoadInv, Accounted
<1>10. CASE installed # Absent
  <2>1. (~ Replacing /\ publishes = 0) =>
          Whole(installed) /\ (succeeded # {} =>
             \E k \in DOMAIN ledger :
                  ledger[k].by \in succeeded /\ ledger[k].version = installed)
    BY <1>5, <1>7, <1>10
  <2> QED
    BY <1>1, <1>2, <1>4, <1>8, <1>10, <2>1 DEF LoadInv, Accounted, Whole
<1> QED
  BY <1>9, <1>10

\* Its manifest is read: it is the one that was listed.
LEMMA ReadKeeps == ASSUME IInv, Accounts, LoadInv, ReadManifest PROVE LoadInv'
<1>1. PICK found \in ManifestRead : loader' = [loader EXCEPT !.step = "loaded", !.found = found]
  BY DEF ReadManifest
<1>2. /\ loader.step = "listed"
      /\ UNCHANGED <<ledger, installed, installer, publishes, content>>
  BY DEF ReadManifest, vars
<1>3. found \in Entries \cup {Absent}
  BY InstallAssumption DEF ManifestRead, LoadInv, IInv, TypeOK, Whole, Entries
<1>4. /\ loader' \in [step : {"idle", "listed", "loaded"}, succeeded : SUBSET Installers,
                      found : Entries \cup {Absent}]
      /\ loader'.step = "loaded"
      /\ loader'.succeeded = loader.succeeded
      /\ loader'.found = found
  BY <1>1, <1>3 DEF LoadInv
<1>5. ASSUME ~ Replacing, publishes = 0
      PROVE  found = installed /\ found # Invalid /\ Accounted(found)
  <2>1. Whole(installed) /\ Accounted(installed) /\ installed # Invalid
    BY <1>2, <1>5 DEF LoadInv, Accounts
  <2>2. installed # Partial /\ installed # Absent
    BY <2>1, InstallAssumption DEF Whole, Entries
  <2>3. ManifestRead = {installed}
    BY <2>1, <2>2 DEF ManifestRead
  <2>4. found = installed
    BY <2>3
  <2> QED
    BY <2>1, <2>4
<1>6. (~ Replacing /\ publishes = 0)' => ~ Replacing /\ publishes = 0
  BY <1>2 DEF Replacing
<1> QED
  BY <1>2, <1>4, <1>5, <1>6 DEF LoadInv, Accounted

\* What the installers do between the two reads leaves what was listed and its record.
LEMMA InstallersKeepLoad ==
  ASSUME IInv, Accounts, LoadInv, IInv', [Next]_vars, loader' = loader,
         content' = content \/ content' = IF Whole(installed') THEN installed' ELSE content
  PROVE  LoadInv'
<1>1. content' \in Entries \cup {Absent}
  BY DEF LoadInv, Whole
<1>2. CASE Publish
  <2>1. publishes' # 0
    BY <1>2 DEF Publish, IInv, TypeOK
  <2> QED
    BY <1>1, <2>1 DEF LoadInv
<1>3. ASSUME NEW p \in Installers, Step(p) \/ Crash(p) PROVE LoadInv'
  <2> SUFFICES ASSUME ~ Replacing', publishes' = 0
               PROVE  /\ loader.step = "listed" => (Whole(installed) /\ Accounted(installed))'
                      /\ loader.step = "loaded" =>
                           (loader.found # Invalid /\ Accounted(loader.found))'
    BY <1>1 DEF LoadInv
  <2>1. /\ TypeOK /\ PhaseInv(p)
        /\ publishes = 0
        /\ ~ Replacing
        /\ installer[p].pc \notin {"remove", "removing"}
    BY <1>3, StepEffects, ReplacingStays DEF IInv, PhaseInv, Replacing
  <2>2. \A k \in DOMAIN ledger : k \in DOMAIN ledger' /\ ledger'[k] = ledger[k]
    <3>1. CASE AppendRecord(p)
      <4>1. PICK record \in LedgerRecord : ledger' = Append(ledger, record)
        <5>1. installer[p].validated \in Versions
          BY <2>1, <3>1 DEF AppendRecord, At, PhaseInv, Ended
        <5> QED
          BY <3>1, <5>1 DEF AppendRecord, LedgerRecord
      <4> QED
        BY <2>1, <4>1 DEF TypeOK
    <3> QED
      BY <1>3, <2>1, <3>1, StepEffects
  <2>3. \A version : Accounted(version) => Accounted(version)'
    BY <2>2 DEF Accounted
  <2>4. Whole(installed) => installed' = installed
    BY <1>3, <2>1, StepEffects, InstallAssumption DEF Rename, Whole, Entries
  <2> QED
    BY <2>1, <2>2, <2>4 DEF LoadInv, Accounted
<1>4. CASE UNCHANGED vars
  BY <1>1, <1>4 DEF vars, LoadInv, Accounted, Whole, Replacing
<1> QED
  BY <1>2, <1>3, <1>4 DEF Next

\* With a load among the installers all three invariants hold in every state.
LEMMA LoadInvariant == LoadSpec => [](IInv /\ Accounts /\ LoadInv)
<1>1. LoadInit => LoadInv
  BY InstallAssumption DEF LoadInit, Init, LoadInv, Entries
<1>2. IInv /\ Accounts /\ LoadInv /\ [LoadNext]_loadVars /\ (IInv /\ Accounts)' => LoadInv'
  <2> SUFFICES ASSUME IInv, Accounts, LoadInv, [LoadNext]_loadVars, IInv'
               PROVE  LoadInv'
    OBVIOUS
  <2>1. CASE UNCHANGED loadVars
    BY <2>1, InstallersKeepLoad DEF loadVars
  <2>2. CASE Next /\ content' = (IF Whole(installed') THEN installed' ELSE content) /\ UNCHANGED loader
    BY <2>2, InstallersKeepLoad
  <2> QED
    BY <2>1, <2>2, ListKeeps, ReadKeeps DEF LoadNext
<1> QED
  BY <1>1, <1>2, LoadSpecIsSpec, InstallAccounts, PTL DEF LoadSpec

\* What a command has installed is there for whoever loads afterwards, in the version the
\* ledger records, for any number of installers, faults and crashes.
THEOREM LoadsAreRecorded == LoadSpec => []LoadedAsRecorded
<1>1. LoadInv => LoadedAsRecorded
  BY DEF LoadInv, Accounted, LoadedAsRecorded
<1> QED
  BY <1>1, LoadInvariant, PTL

=============================================================================
