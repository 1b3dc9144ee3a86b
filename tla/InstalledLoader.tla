--------------------------- MODULE InstalledLoader ---------------------------
(***************************************************************************)
(* loadInstalledCapabilities beside concurrent installers: a process that  *)
(* lists, invokes or serves Capabilities reads the entries of installed/   *)
(* and then the manifest of each, without a lock.  One load at any time    *)
(* stands for every load; the entries do not interact, so it is that of    *)
(* the one id.                                                             *)
(***************************************************************************)
EXTENDS Install

VARIABLES
  loader,   \* where the load is, who had succeeded before it began, what it found
  content   \* the last whole content of installed/<id>, of which Partial is a rest

loadVars == <<vars, loader, content>>

LoadInit ==
  /\ Init
  /\ loader = [step |-> "idle", succeeded |-> {}, found |-> Absent]
  /\ content = installed

\* installedEntries: a directory with the name is an entry, whatever is in it.
ListEntries ==
  /\ loader.step = "idle"
  /\ loader' = [step      |-> IF installed = Absent THEN "loaded" ELSE "listed",
                succeeded |-> {p \in Installers : installer[p].reply = "ok"},
                found     |-> Absent]
  /\ UNCHANGED <<vars, content>>

\* What validateManifestFile can make of the manifest: that of a whole entry, or of a
\* partial one where it is still there; a missing file is an invalid manifest too.
ManifestRead ==
  CASE Whole(installed)    -> {installed}
    [] installed = Partial -> {content, Invalid}
    [] installed = Absent  -> {Invalid}

\* The entry goes to capabilities or to invalid.
ReadManifest ==
  /\ loader.step = "listed"
  /\ \E found \in ManifestRead : loader' = [loader EXCEPT !.step = "loaded", !.found = found]
  /\ UNCHANGED <<vars, content>>

LoadNext ==
  \/ ListEntries \/ ReadManifest
  \/ /\ Next
     /\ content' = IF Whole(installed') THEN installed' ELSE content
     /\ UNCHANGED loader

LoadSpec == LoadInit /\ [][LoadNext]_loadVars

-----------------------------------------------------------------------------
Replacing == \E p \in Installers : installer[p].force /\ installer[p].already

\* What a command has installed is there for whoever loads afterwards, in the version
\* the ledger records, and no load meets a broken entry, whatever fails, dies or installs
\* at the same time: as long as nobody replaces the installation with --force (a load
\* may then meet the gap between removal and rename, and reports the Capability as
\* invalid or not at all) and nobody edits the registry between validation and copy.
LoadedAsRecorded ==
  (loader.step = "loaded" /\ ~ Replacing /\ publishes = 0) =>
    /\ loader.found # Invalid
    /\ loader.succeeded # {} =>
         \E k \in DOMAIN ledger : /\ ledger[k].by \in loader.succeeded
                                  /\ ledger[k].version = loader.found

=============================================================================
