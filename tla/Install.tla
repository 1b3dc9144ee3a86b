------------------------------ MODULE Install ------------------------------
(***************************************************************************)
(* `opencap install <id>' (installCapability of packages/runtime/src/      *)
(* index.ts): several processes install the same id from the local         *)
(* registry into installed/<id>, without a lock, while the registry may be *)
(* edited, operations on files fail and processes die.  A user who runs    *)
(* the command again is one more installer.                                *)
(*                                                                         *)
(* A directory is a single value: nothing, a whole copy of a registry      *)
(* entry, or Partial while its files are copied or removed one by one.     *)
(* Ids do not interact: every path holds the id.                           *)
(***************************************************************************)
EXTENDS Integers, Sequences, FiniteSets

CONSTANTS
  Installers,    \* the processes
  Versions,      \* what a valid registry entry can hold
  Invalid,       \* an entry whose manifest does not validate
  Absent,        \* no directory
  Partial,       \* a directory with some of its files
  Nobody,
  MaxPublishes,  \* bound on edits of the registry
  MaxFaults,     \* bound on failing file operations
  MaxCrashes     \* bound on processes that die

ASSUME InstallAssumption ==
  /\ Invalid # Absent /\ Invalid # Partial /\ Absent # Partial
  /\ {Invalid, Absent, Partial} \cap Versions = {}
  /\ Nobody \notin Installers
  /\ {MaxPublishes, MaxFaults, MaxCrashes} \subseteq Nat

VARIABLES
  registry,   \* the entry of the id: a version, Invalid or Absent
  installed,  \* installed/<id>
  owner,      \* the process whose copy installed/<id> is, or Nobody
  tmp,        \* tmp/install-<id>-<nonce> of each process
  installer,  \* the state of each process
  ledger,     \* the records of capability.jsonl
  publishes, faults, crashes

vars == <<registry, installed, owner, tmp, installer, ledger, publishes, faults, crashes>>

Entries == Versions \cup {Invalid}

Whole(dir) == dir \in Entries

Stages ==
  {"find", "validate", "prepare", "check", "copy", "copying", "remove", "removing", "rename",
   "cleanup", "record", "done", "crashed"}

Ended == {"done", "crashed"}

InstallerState ==
  [pc        : Stages,
   force     : BOOLEAN,
   validated : Versions \cup {Absent},
   already   : BOOLEAN,
   reply     : {"none", "ok", "error"}]

LedgerRecord ==
  [by : Installers, event : {"installed", "updated"}, version : Versions]

Init ==
  /\ registry \in Entries \cup {Absent}
  /\ installed \in Versions \cup {Absent}
  /\ owner = Nobody
  /\ tmp = [p \in Installers |-> Absent]
  /\ \E force \in [Installers -> BOOLEAN] :
       installer = [p \in Installers |->
         [pc |-> "find", force |-> force[p], validated |-> Absent, already |-> FALSE,
          reply |-> "none"]]
  /\ ledger = <<>>
  /\ publishes = 0
  /\ faults = 0
  /\ crashes = 0

-----------------------------------------------------------------------------
(* Steps.                                                                  *)

At(p, pc) == installer[p].pc = pc

Becomes(p, s) == installer' = [installer EXCEPT ![p] = s]

Goto(p, pc) == Becomes(p, [installer[p] EXCEPT !.pc = pc])

Return(p, reply) == Becomes(p, [installer[p] EXCEPT !.pc = "done", !.reply = reply])

\* Only the process p changes.
Alone == UNCHANGED <<registry, installed, owner, tmp, ledger, publishes, crashes>>

NoFault == UNCHANGED faults

Fault == faults < MaxFaults /\ faults' = faults + 1

\* Somebody edits the registry: the entry appears, changes, breaks or goes.
Publish ==
  /\ publishes < MaxPublishes
  /\ publishes' = publishes + 1
  /\ registry' \in (Entries \cup {Absent}) \ {registry}
  /\ UNCHANGED <<installed, owner, tmp, installer, ledger, faults, crashes>>

\* findCapabilityDirs found exactly one entry.
Find(p) ==
  /\ At(p, "find")
  /\ registry # Absent
  /\ Goto(p, "validate")
  /\ Alone /\ NoFault

\* No registry, no entry, or a second one somewhere in the tree.
FindFails(p) ==
  /\ At(p, "find")
  /\ Return(p, "error")
  /\ Alone /\ NoFault

\* Mutants: an invalid manifest counts; with --force it does.
RawValidate(p) ==
  /\ At(p, "validate")
  /\ registry \in Entries
  /\ Becomes(p, [installer[p] EXCEPT !.pc = "prepare", !.validated = registry])
  /\ Alone /\ NoFault
ForceSkipsValidation(p) ==
  /\ At(p, "validate")
  /\ registry \in Versions \/ (registry = Invalid /\ installer[p].force)
  /\ Becomes(p, [installer[p] EXCEPT
       !.pc = "prepare", !.validated = IF registry \in Versions THEN registry ELSE Absent])
  /\ Alone /\ NoFault

Validate(p) ==
  /\ At(p, "validate")
  /\ registry \in Versions
  /\ Becomes(p, [installer[p] EXCEPT !.pc = "prepare", !.validated = registry])
  /\ Alone /\ NoFault

\* The manifest is gone, does not validate or has another id.
ValidateFails(p) ==
  /\ At(p, "validate")
  /\ registry \notin Versions
  /\ Return(p, "error")
  /\ Alone /\ NoFault

\* ensureLocalStateDir
Prepare(p) ==
  /\ At(p, "prepare")
  /\ Goto(p, "check")
  /\ Alone /\ NoFault

PrepareFault(p) ==
  /\ At(p, "prepare")
  /\ Fault
  /\ Return(p, "error")
  /\ Alone

\* Mutant: the check does not look at --force.
CheckForgotForce(p) ==
  /\ At(p, "check")
  /\ Becomes(p, [installer[p] EXCEPT !.pc = "copy", !.already = (installed # Absent)])
  /\ Alone /\ NoFault

\* alreadyInstalled is read here, and used until the record is written.
Check(p) ==
  /\ At(p, "check")
  /\ installed # Absent => installer[p].force
  /\ Becomes(p, [installer[p] EXCEPT !.pc = "copy", !.already = (installed # Absent)])
  /\ Alone /\ NoFault

AlreadyInstalled(p) ==
  /\ At(p, "check")
  /\ installed # Absent
  /\ ~ installer[p].force
  /\ Return(p, "error")
  /\ Alone /\ NoFault

\* Mutant: the files of a new id are copied straight to their place.
CopyInPlace(p) ==
  /\ At(p, "copy")
  /\ Goto(p, "copying")
  /\ tmp' = [tmp EXCEPT ![p] = Partial]
  /\ installed' = IF installer[p].already THEN installed ELSE Partial
  /\ UNCHANGED <<registry, owner, ledger, publishes, crashes>>
  /\ NoFault

CopyBegin(p) ==
  /\ At(p, "copy")
  /\ Goto(p, "copying")
  /\ tmp' = [tmp EXCEPT ![p] = Partial]
  /\ UNCHANGED <<registry, installed, owner, ledger, publishes, crashes>>
  /\ NoFault

\* Mutant: the copy is not waited for.
CopyUnawaited(p) ==
  /\ At(p, "copying")
  /\ registry # Absent
  /\ Goto(p, IF installer[p].already THEN "remove" ELSE "rename")
  /\ UNCHANGED <<registry, installed, owner, tmp, ledger, publishes, crashes>>
  /\ NoFault

\* What is copied is what the registry holds by now.
CopyEnd(p) ==
  /\ At(p, "copying")
  /\ registry # Absent
  /\ Goto(p, IF installer[p].already THEN "remove" ELSE "rename")
  /\ tmp' = [tmp EXCEPT ![p] = registry]
  /\ UNCHANGED <<registry, installed, owner, ledger, publishes, crashes>>
  /\ NoFault

CopyFails(p) ==
  /\ At(p, "copying")
  /\ \/ registry = Absent /\ NoFault
     \/ Fault
  /\ Goto(p, "cleanup")
  /\ Alone

\* rm(recursive, force) of the old installation: it lists the directory ...
RemoveBegin(p) ==
  /\ At(p, "remove")
  /\ installed # Absent
  /\ Goto(p, "removing")
  /\ installed' = Partial
  /\ owner' = Nobody
  /\ UNCHANGED <<registry, tmp, ledger, publishes, crashes>>
  /\ NoFault

\* (or finds nothing to remove)
RemoveNothing(p) ==
  /\ At(p, "remove")
  /\ installed = Absent
  /\ Goto(p, "rename")
  /\ Alone /\ NoFault

\* ... and takes away its files and the directory, whoever renamed a new one there.
RemoveEnd(p) ==
  /\ At(p, "removing")
  /\ Goto(p, "rename")
  /\ installed' = Absent
  /\ owner' = Nobody
  /\ UNCHANGED <<registry, tmp, ledger, publishes, crashes>>
  /\ NoFault

\* It fails before it took anything away.
RemoveFault(p) ==
  /\ At(p, "remove")
  /\ Fault
  /\ Goto(p, "cleanup")
  /\ Alone

\* A file operation fails, or the directory is not empty because it is a new one.
RemoveFails(p) ==
  /\ At(p, "removing")
  /\ Fault \/ (Whole(installed) /\ NoFault)
  /\ Goto(p, "cleanup")
  /\ \/ UNCHANGED <<installed, owner>>
     \/ Whole(installed) /\ installed' = Partial /\ owner' = Nobody
  /\ UNCHANGED <<registry, tmp, ledger, publishes, crashes>>

\* Mutant: a rename that replaces what is there.
RenameOver(p) ==
  /\ At(p, "rename")
  /\ Goto(p, "record")
  /\ installed' = tmp[p]
  /\ owner' = p
  /\ tmp' = [tmp EXCEPT ![p] = Absent]
  /\ UNCHANGED <<registry, ledger, publishes, crashes>>
  /\ NoFault

\* A directory can be renamed to nothing or over an empty directory.
Rename(p) ==
  /\ At(p, "rename")
  /\ installed \in {Absent, Partial}
  /\ Goto(p, "record")
  /\ installed' = tmp[p]
  /\ owner' = p
  /\ tmp' = [tmp EXCEPT ![p] = Absent]
  /\ UNCHANGED <<registry, ledger, publishes, crashes>>
  /\ NoFault

\* ENOTEMPTY, or a fault.
RenameFails(p) ==
  /\ At(p, "rename")
  /\ \/ installed # Absent /\ NoFault
     \/ Fault
  /\ Goto(p, "cleanup")
  /\ Alone

\* The catch block removes the copy and throws again.
Cleanup(p) ==
  /\ At(p, "cleanup")
  /\ Return(p, "error")
  /\ tmp' = [tmp EXCEPT ![p] = Absent]
  /\ UNCHANGED <<registry, installed, owner, ledger, publishes, crashes>>
  /\ NoFault

CleanupFault(p) ==
  /\ At(p, "cleanup")
  /\ Fault
  /\ Return(p, "error")
  /\ tmp' \in {tmp, [tmp EXCEPT ![p] = Partial]}
  /\ UNCHANGED <<registry, installed, owner, ledger, publishes, crashes>>

\* The ledger record, with the digest of the manifest that was validated.
AppendRecord(p) ==
  /\ At(p, "record")
  /\ Return(p, "ok")
  /\ ledger' = Append(ledger,
       [by      |-> p,
        event   |-> IF installer[p].already THEN "updated" ELSE "installed",
        version |-> installer[p].validated])
  /\ UNCHANGED <<registry, installed, owner, tmp, publishes, crashes>>
  /\ NoFault

\* Mutant: the failing ledger does not fail the command.
RecordIgnored(p) ==
  /\ At(p, "record")
  /\ Fault
  /\ Return(p, "ok")
  /\ Alone

RecordFault(p) ==
  /\ At(p, "record")
  /\ Fault
  /\ Return(p, "error")
  /\ Alone

Crash(p) ==
  /\ installer[p].pc \notin Ended
  /\ crashes < MaxCrashes
  /\ crashes' = crashes + 1
  /\ Goto(p, "crashed")
  /\ UNCHANGED <<registry, installed, owner, tmp, ledger, publishes, faults>>

-----------------------------------------------------------------------------
Step(p) ==
  \/ Find(p) \/ FindFails(p) \/ Validate(p) \/ ValidateFails(p)
  \/ Prepare(p) \/ PrepareFault(p) \/ Check(p) \/ AlreadyInstalled(p)
  \/ CopyBegin(p) \/ CopyEnd(p) \/ CopyFails(p)
  \/ RemoveBegin(p) \/ RemoveNothing(p) \/ RemoveFault(p) \/ RemoveEnd(p) \/ RemoveFails(p)
  \/ Rename(p) \/ RenameFails(p) \/ Cleanup(p) \/ CleanupFault(p)
  \/ AppendRecord(p) \/ RecordFault(p)

Next == Publish \/ \E p \in Installers : Step(p) \/ Crash(p)

Spec == Init /\ [][Next]_vars

-----------------------------------------------------------------------------
(* Properties.                                                             *)

TypeOK ==
  /\ registry \in Entries \cup {Absent}
  /\ installed \in Entries \cup {Absent, Partial}
  /\ owner \in Installers \cup {Nobody}
  /\ tmp \in [Installers -> Entries \cup {Absent, Partial}]
  /\ installer \in [Installers -> InstallerState]
  /\ ledger \in Seq(LedgerRecord)
  /\ publishes \in 0..MaxPublishes
  /\ faults \in 0..MaxFaults
  /\ crashes \in 0..MaxCrashes

\* Only a forced replacement leaves installed/<id> half there: a first installation
\* shows either nothing or all its files, whatever fails and whoever runs at the same
\* time (the copy goes to tmp/ and is renamed).
HalfThereOnlyByForce ==
  installed = Partial => \E p \in Installers : installer[p].force /\ installer[p].already

\* Nobody replaces or removes a whole installation but a process with --force that
\* saw it and is removing it; in particular a rename never lands on one, also when it
\* appeared after the check (alreadyInstalled is stale by then).
KeptWithoutForce ==
  [][(Whole(installed) /\ installed' # installed) =>
       \E p \in Installers : /\ installer[p].force
                            /\ installer[p].pc \in {"remove", "removing"}]_vars

\* Without --force, a command that succeeded stays the one whose files are installed:
\* of several processes that install the same id at once at most one succeeds.
SuccessStays ==
  (\A q \in Installers : ~ installer[q].force) =>
    \A p \in Installers : installer[p].reply = "ok" => owner = p

\* A command that succeeds has written one record, one that did not succeed none: an
\* installation without a record belongs to a command that is about to write it, told
\* its user that it failed, or died.
SuccessIsRecorded ==
  \A p \in Installers :
    /\ Cardinality({i \in 1..Len(ledger) : ledger[i].by = p}) =
         (IF installer[p].reply = "ok" THEN 1 ELSE 0)
    /\ (owner = p /\ installer[p].reply # "ok") =>
         installer[p].pc \in {"record", "crashed"} \/ installer[p].reply = "error"

\* As long as nobody edits the registry, what is installed is what was validated and
\* recorded, although the manifest is validated before it is copied.
InstalledWasValidated ==
  \A p \in Installers :
    (publishes = 0 /\ owner = p) => installed = installer[p].validated

\* "--force replaces atomically" (cli-contract-v1.md): once every command ended, an
\* installation that one of them found has not vanished.
ReplacedOrKept ==
  (/\ \A p \in Installers : installer[p].pc \in Ended
   /\ \E p \in Installers : installer[p].already) => Whole(installed)

=============================================================================
