# OpenCap runtime: specification and proofs

TLA+ models of the OpenCap runtime (`packages/runtime`, `packages/cli`,
`packages/mcp`), the TLC configurations that check them and the TLAPS proofs about
them. Paths below are relative to the repository; `index.ts` alone is
`packages/runtime/src/index.ts`.

## 1. The system

OpenCap installs *Capabilities* (an HTTP request described by a `manifest.yml`) from a
registry directory into a local state directory and invokes them, on behalf of a user
(`opencap invoke`) or of an AI host (MCP tool calls), under a risk policy, with consent
and an audit log.

| Component | State | Operations | Interacts with |
| --- | --- | --- | --- |
| Risk policy (`index.ts` 1737-2112) | `policies.yml`, read once per CLI call, once per MCP server | `loadPolicySet`, `evaluatePolicy` | invocation |
| Invocation (`index.ts` 410-466, 871-1735; `cli` 2260-2387; `mcp` 186-348) | one call: confirmation, plan, result, reply | `invoke`, `routeMcpToolCall`, `executeHttpCapability` | policy, audit log, ledger, provider, user |
| Confirmation (`index.ts` 2115-2386, 2702-2796) | none | `CliConfirmationHandler`, `McpNoElicitationConfirmationHandler`, `confirmWithAudit` | user, audit log |
| SQLite audit log (`index.ts` 2927-3339) | `logs.sqlite`, its lock | `record`, `preflight`, `recent` | every process of the state directory |
| JSON-lines ledgers (`ledger.ts`, `cli` 2862-2908) | `invocation`, `capability`, `policy`, `compatibility` files | append, list, latest, export | invocation, install |
| Install (`index.ts` 3374-3538) | `installed/<id>`, `tmp/`, capability ledger | `installCapability` | registry, other installers, readers of `installed/` |
| Policy ledger (`policy-ledger.ts`) | change records, active revision file | `activate`, `rollback`, `recordFailedActivation` | concurrent activators |
| Policy overrides (`policy-override.ts`) | override records, held by the caller | `applyPolicyOverrides`, `consumePolicyOverride` | policy |
| Retry policy, composition recovery, trust transitions | none (decisions over a history the caller keeps) | `evaluateHttpRetryPolicy`, `evaluateCompositionFailureRecovery`, `evaluateTrustLevelTransition` | their caller's loop |
| Policy tooling (`policy-validator.ts`, `policy-simulation.ts`) | none | `validatePolicyYml`, `simulatePolicyDiff` | risk policy |
| Metrics and usage (`metrics.ts`, `usage-event.ts`) | none | usage event of a row, local summary | audit log |
| Gates (`lifecycle-gate.ts`, `data-egress-policy.ts`, `quota-budget-gate.ts`, `abuse-throttle.ts`, `financial-consent-spend-gate.ts`) | counters held by the caller | one decision function each | not called by CLI or MCP yet |
| CLI file writers (`cli` 532-547, 1357-1381) | scaffold and report files | write all, replace one | file system |
| Spec lints, OpenAPI selection, cards, release evidence, SDK | none | pure functions of documents | - |

What is hard, and where:

- *Processes share files without a lock of their own.* CLI commands are a process each, the
  MCP server is another; they meet on `logs.sqlite` (no busy timeout, so a held lock
  is an immediate error), on `installed/` (rename is the only arbiter) and on the ledgers.
- *A call is a chain of awaits.* Inside the MCP server other calls run between two of
  them; all of SQLite is synchronous and keeps the event loop.
- *Records are written in two places* (row, then ledger record) and, for an
  execution, after the fact.
- *Failure anywhere*: file errors, dying processes, providers that act on a request
  nobody waits for any more.

What makes each component correct: the strictest permission decides and the trace names
it (policy); no request without every gate, at most one, the log true and complete as
far as the answer goes (invocation); the lock never leaks (audit log); nobody
overwrites another's installation and nothing half-written appears (install); what was
acknowledged can be read back, in pages and after a crash elsewhere, and latest means
latest (ledgers); the active revision is a recorded one (policy ledger); a single use of a
single-use override and no override past a safety gate (overrides); the strictest rule
decides and more use never loosens a decision (gates); a level of trust only with the
evidence of every level below (trust); nothing is done twice and no effect is hidden
from review (retry, composition); a change that the tools pass does not loosen what
runs unattended (policy tooling); numbers whose difference from the number of calls is known
(metrics).

## 2. Modules

| Module | Models | Uses |
| --- | --- | --- |
| `PolicyEvaluation` | matching, first-match, strictest permission: the result of `evaluatePolicy`, declaratively | - |
| `PolicyLoop` | the two loops that compute it | `PolicyEvaluation` |
| `Invocation` | a call on either channel, from request to answer, with faults and crashes | `PolicyEvaluation` |
| `GatedExecution` | the abstract promise of an invocation | - |
| `Install` | concurrent `installCapability` | - |
| `InstalledLoader` | `loadInstalledCapabilities` beside the installers | `Install` |
| `JsonLines` | a file of one JSON record per line: append, torn append, parse | - |
| `LedgerStore` | `FileRuntimeLedgerStore` and `opencap ledger export` among writers and readers | `JsonLines` |
| `PolicyLedger` | `FilePolicyLedger`: change records and the active file | `JsonLines` |
| `RetryPolicy` | `evaluateHttpRetryPolicy` | - |
| `CompositionRecovery` | `evaluateCompositionFailureRecovery` | - |
| `Composition` | a host that runs the steps of a composition, its provider and network | the two above |
| `RuntimeGates` | `gateDecisionSemantics`; lifecycle, quota and budget, throttle and financial consent gates | - |
| `DataEgress` | `evaluateDataEgressPolicy` | - |
| `PolicyOverride` | `applyPolicyOverrides`, `consumePolicyOverride`, validation of records | - |
| `TrustTransition` | `evaluateTrustLevelTransition` | - |
| `GatedCalls` | a host whose callers read, decide by all gates and store; reviewers and the clock | the four above |
| `PolicyTooling` | `validatePolicyYml`, `simulatePolicyDiff` against `evaluatePolicy` | `PolicyLoop` |
| `UsageMetrics` | usage events and metrics over the rows of `Invocation` | `Invocation` |
| `PolicyEvaluationProofs` | lemmas about the declarative policy result; least elements, induction up to a number, existence of folds | TLAPS |
| `PolicyLoopProofs`, `InvocationProofs`, `InstallProofs`, `LedgerStoreProofs`, `PolicyLedgerProofs`, `CompositionProofs`, `GatedCallsProofs` | theorems about the module of that name (`PolicyLoopProofs` also about `PolicyTooling`, `InvocationProofs` about the refinement and `UsageMetrics`, `InstallProofs` about `InstalledLoader`) | TLAPS |
| `MC*` | instances for TLC | the above |

`PolicyLoop`: `phase`, `scan`, `current`, `next` are the program counters of
`findIndex` and `reduce`; one action per iteration.

`Invocation`: `call[c]` is one call; its `pc` names the await it stands at.
`InvokeCli`..`AnswerPrompt` are the body of the `invoke` command up to the confirmation,
`CallMcp` that of `routeMcpToolCall`; `PlanFails`..`FetchNetworkError` are
`executeHttpCapability`; `RecordBegin`..`LedgerFault` are
`RuntimeLedgerAuditLogger.record`, reached from five places. An SQLite statement is two
steps (`RecordBegin`/`RecordCommit`, `PreflightBegin`/`PreflightRollback`) between which
another *process* can meet the lock; `CanRun` says that another call of the *same* process
cannot run then. `net` is what the outside world did with the request and is read by
no program step but through an answer. `rows` and `ledger` hold the call's own records.
An exception, which the CLI prints and the MCP host gets as a protocol error, is the
reply `error`; the tool result for a name that no installed Capability has is the reply
`tool_not_found`, an answer of its own that leaves no row. `opencap invoke` throws for such an
id.

`Install`: a directory is absent, whole or `Partial`; removing and copying take two steps
each, the rename one. `owner` (whose copy is installed) is a history variable.
`InstalledLoader` adds one load in two steps, `ListEntries` (the directory is read) and
`ReadManifest`; of a partial entry the manifest may be there or not.

`GatedExecution` is implemented by `Invocation` under the mapping at the end of that
module: `approved`, `sent`, `effect`, `logged` are sets of calls read off `call`, the five
ways of being refused (`Refusals`) are one abstract answer.

`JsonLines`: a file is its complete lines and whether the last one is open (no line feed).
An append continues an open line, which then parses as nothing: `Garbage`. `LedgerStore`
has an action per statement that awaits: building a record (its time is taken then),
appending it, reading a page, reading one of the four files of an export. `answers` (what
a lookup answered last), `acknowledged` and the `before` of a reader are history variables.

`PolicyLedger`: `process[p].step` is the await `activate` stands at: append, truncate,
write. Writing the active file is two steps, the file is empty in between and a write that
is cut short leaves it torn. `overlapped` is a history variable: two changes were
in progress at once.

`Composition`: `at` is the running step, `request` what became of its last request,
`late` the requests given up that may still be performed, `effects` what the provider did.
The host is the one the interfaces of `retry-policy.ts` and `composition-recovery.ts` ask
for: it repeats when `shouldRetry`, with `retryAttempt`, and asks for a decision after every
step. No code in the repository runs compositions yet, so the host is marked external in
`PROJECT.json`; the two decisions are the code's.

`GatedCalls`: a caller takes three steps, `Begin` (it reads overrides, use, level and
lifecycle), `Decide` (all gates on what was read, at the time it is now) and `Finish` (it
counts the call and stores the remaining overrides). The gates are the code's, the host is
external for the same reason.

`PolicyTooling` and `UsageMetrics` add operators and properties to the state machines of
`PolicyLoop` and `Invocation` and are checked in their runs.

## 3. Runs

| Run | Shows | Bounds |
| --- | --- | --- |
| `policy_loop` | loops = declarative result, strictest wins; a change whose simulation is ok loosens nothing, what a valid file runs unattended is scoped | 2 rules over 8 kinds of match, 3 permissions: shadowed rules, rules for one permission only, ties, rules with none, part and all of the boundary |
| `invocation_safety` | ten invariants, what the numbers of `UsageMetrics` count and the refinement | 2 calls out of 14 requests, 3 policy sets, 1 fault, 1 crash |
| `invocation_liveness` | `CallsEnd` | 2 contending calls, 1 fault, 1 crash, 1 policy edit |
| `install` | nobody overwrites, one succeeds, success = record, a load finds what was recorded | 3 installers, 1 load, 2 versions, 1 registry edit, 1 fault, 1 crash |
| `ledger_store` | what was acknowledged is lost only to torn lines, pages miss and repeat nothing, exports leave out only later records, lookups never go back | 2 writers, 1 reader, 3 records at 2 times in 4 files, 1 torn append, pages of 1 |
| `policy_ledger` | active and former revisions are recorded, serial changes form a chain | 3 processes, 4 changes of 2 revisions, 2 failures |
| `composition` | one effect per step, bounded attempts, no effect hidden from review, completed is done | 2 steps and a compensation, 13 kinds of first step, 4 retry policies, 3 statuses |
| `gates` | single use, overrides respect safety, egress order does not matter, use never loosens, levels are earned | 2 callers, 3 calls, 4 requests, 2-3 egress rules, 2 quota or throttle rules, 3 times, 5 reviews |
| `requests_are_audited` | finding 1 | no faults, no crashes |
| `ledger_success_was_performed` | finding 2 | no faults, no crashes |
| `failure_means_answer` | finding 3 | no faults, no crashes |
| `replaced_or_kept` | finding 4 | 2 installers, 1 crash |

Two calls suffice because calls share nothing but the lock, the policy file and the
server; every pair of stages of two calls occurs. Three installers are the least
for a check made stale by a second process whose remains a third one meets. The
safety run leaves the policy file alone (its properties judge a call by the policy it
read); the liveness run edits it. Three records
at two times are the least for a file whose order disagrees with its times and for a
listing that grows behind its cursor; a fourth change in `policy_ledger` comes
after an overlap of three; two failures let the ledger and the active file be torn
in one behaviour. The scenarios of `gates` each let one part grow, because the parts meet only
in the conjunction of their decisions (`Passes`). Symmetry is used only where no
liveness is checked.
Deadlock is not checked: a system whose calls have all ended stops.

Fairness (`FairSpec`): weak fairness of the program steps of each call. A process that can
run is scheduled by the operating system, its event loop serves every ready callback, and
the timer of `executeHttpCapability` fires; the disjunction over a call's steps is one
action, so nothing is assumed about *which* outcome a fetch has. Nothing is assumed of
users, providers, crashes or editors, hence `CallsEnd` stops at the prompt.

Findings: (1) the audit row of a sent request is lost when two processes meet on the
database, with neither fault nor crash; (2) the ledger status `success` is written for the
mere approval of a tool call; (3) a dropped connection is recorded as
`failed_after_request`, which the documents reserve for an answered failure; (4)
`--force` removes before it renames and is not the atomic replacement the CLI contract
promises. What holds although it looks
endangered: about an installed Capability a caller is never told something the log does not
say, since a failing record turns any answer but one into an exception. The one is the refusal
because the log cannot be written, which comes before the request.

What the models brought up and no run of its own shows:

- A tool call that names no installed Capability is answered with the failure `TOOL_NOT_FOUND`
  and leaves neither row nor ledger record (`mcp/src/index.ts:199`), although failures are to be
  logged, too (`error-model-v1.md:90`). `AnswersAreAudited` names it as one of two answers
  without a row.
- The approval of a tool call is counted as an invocation (`metrics.ts:166`) and is a usage event
  with outcome `success` (`usage-event.ts:98`) beside what the call came to, which may be a refusal,
  although the documents take these numbers for calls and successful calls
  (`observability-metrics-v1.md:18`, `usage-metering-v1.md:9`). `CountsAreCallsAndApprovals` says
  by exactly how much they exceed the calls.
- Override records have no priority, the first applicable one wins
  (`policy-override.ts:225`); `docs/运营/policy-incident-runbook.md:39` tells to write a
  `deny_override` of higher priority.
- `redact` lets secrets be resolved in the egress result (`data-egress-policy.ts:241`) and
  not in `gateDecisionSemantics` (`domain.ts:165`) and `runtime-kernel-contract-v1.md:301`.
- An unknown optional step leaves a composition `completed`, and a blocked required step
  is reported instead of a failed one (`composition-recovery.ts:100`);
  `multi-step-execution-boundary.md` wants at least unknown for any unknown step.
  `HiddenEffectIsReviewed` names the exception.
- The first exceeded quota, budget or throttle rule decides: with a warning listed first,
  more use loosens the decision. `MoreUseNeverLoosens` is about policies that list
  stricter rules first.
- The simulation passes neither channel nor host nor trust level, and the validator looks
  only at rules that allow and name a risk. `SimulationSeesRelaxations` and
  `UnattendedIsScoped` say for which files the tools can be relied on.
- The metrics count decisions by row, too (`metrics.ts:135`). The row of an execution says `allow`
  even where the policy asked (`index.ts:1415`), and that of a blocked target says `deny`
  whatever the policy decided (`index.ts:1541`). `CountsAreCallsAndApprovals` says nothing of
  decisions.
- `getActivePolicyRecord` (`ledger.ts:400`) answers with the latest record that is no failed
  activation, so with the record of an override if that is the latest, although an
  override activates no revision.
- A torn active file is never repaired: every activation and rollback begins by reading it
  (theorem `TornForever`).

## 4. Proofs

TLAPS checks these for every value of the constants that the modules' `ASSUME`s allow: types
of requests, policy sets, plans, retry policies, rules and override records (what the
TypeScript types and parsers say of them); MCP calls are neither dry runs nor `--yes`; a
manifest has a permission; a match names no `usage`; the model values differ. Numbers of
processes, callers, rules, permissions, steps, calls, faults and crashes are unbounded; only the
theorem about counts asks for finitely many calls (`UsageAssumption`).

| Module | Theorem | States for all constants |
| --- | --- | --- |
| `PolicyLoopProofs` | `LoopTypes`, `LoopCorrect`, `StrictestWins` | `TypeOK`, `LoopComputesEvaluatePolicy`, `StrictestPermissionWins` |
| | `SimulationIsSound`, `RelaxationsAreSeen` | the simulation for any two files; `SimulationSeesRelaxations` |
| | `UnattendedIsNamed` | `UnattendedIsScoped` |
| `InvocationProofs` | `InvocationTypes`, `RequestsHaveAuthority`, `LockIsReleased` | `TypeOK`, `NoRequestWithoutAuthority`, `NoLockLeaks` |
| | `BlockedIsNeverSent`, `LogIsTruthful`, `ReceiptsAreConsent` | `BlockedRowsNeverSent`, `RowsAreTruthful`, `ConsentIsReal` |
| | `OneRequestAtMost`, `AnswersAreInTheLog` | `AtMostOneRequest`, `AnswersAreAudited` |
| | `ConfirmationComesFirst`, `LedgerFollowsLog` | `McpConfirmationPrecedesRequest`, `LedgerShadowsAudit` |
| | `InvocationImplements` | `ImplementsGatedExecution`, the refinement |
| | `CountsCountCallsAndApprovals` | `CountsAreCallsAndApprovals` |
| `InstallProofs` | `InstallTypes`, `FirstInstallIsWhole`, `OneInstallerSucceeds`, `InstalledIsKept` | `TypeOK`, `HalfThereOnlyByForce`, `SuccessStays`, `KeptWithoutForce` |
| | `OneRecordEach`, `ValidatedIsInstalled`, `LoadsAreRecorded` | `SuccessIsRecorded`, `InstalledWasValidated`, `LoadedAsRecorded` |
| `LedgerStoreProofs` | `StoreTypes`, `OnlyTornAppendsLoseRecords` | types, `LossesAreTears` |
| | `PagingIsComplete`, `ExportsKeepTheOldest` | `PagesMissNothing`, `ExportIsOldest` |
| | `AnswersNeverGoBack` | `LookupsNeverGoBack`, of every step |
| `PolicyLedgerProofs` | `PolicyLedgerTypes`, `ActiveRevisionIsRecorded` | types, `RevisionsAreRecorded` |
| | `SerialChangesChain`, `TornForever` | `SerialChangesAgree`, `TornStaysTorn` |
| `CompositionProofs` | `AttemptsBounded`, `EffectsHappenOnce` | `AttemptsAreBounded`, `EffectOnce` |
| | `EffectsAreReviewed`, `CompletedMeansDone` | `HiddenEffectIsReviewed`, `CompletedIsDone` |
| `GatedCallsProofs` | `LevelsAreEarned`, `OnceIsOnce`, `SafetyGatesHold` | `EveryLevelIsEarned`, `AllowOnceIsOnce`, `OverridesRespectSafety` |
| | `NoRuleHidesAStricter`, `MoreUseIsNotLooser` | `EgressIsStrictest`, `MoreUseNeverLoosens` |

The arguments:

- `PolicyLoopProofs`: the invariant says that the decisions pushed so far are those of the
  declarative definition, that no rule before `scan` matches, and that `current` is the first
  strictest of the decisions before `next`. The lemmas of `PolicyEvaluationProofs` show that
  "first match" and "first strictest" exist and are unique. For the tools: a scenario decides
  its permission as the call does, if no rule asks for what a scenario has not; a decision that
  got looser leaves a finding; and a Capability is decided no looser than its permissions.
- `InvocationProofs`: the invariant records, for each stage, the gates that are behind a call
  that stands there (`NoRequestWithoutAuthority` alone is not inductive: it says nothing of a
  call about to send), and that the holder of the database is inside a transaction.
  The properties of the log look at different stages of a call and none is inductive. `Trail`
  says, stage by stage, what has been written: nothing before the confirmation, only the
  approval while a call executes, an event that is true of the call while it is recorded (`EventFits`), an answer only with the last row and its ledger record.
  Every property is read off `Trail`; the refinement maps each step by the same facts, so that
  `logged` grows only with a row that is recorded and `answer` follows `logged`. For the metrics
  `Counted` adds that a call has at most one row that is not the approval of a call that goes on,
  and none while one is being recorded. So the rows of a kind inject into calls (`CountedAsCalls`),
  and every inequality between counts becomes one of sets of calls. The row that is not the last of
  its call is always the first row of an approved tool call (`IsApprovedTool`), and each of those
  calls has one, so approvals and approved tool calls are equally many (`ApprovalsCounted`): that
  is by how much the rows, the executed ones and the successes exceed the calls, exactly.
- `InstallProofs`: the invariant adds that a removal follows a check that saw an installation
  with `--force`, that the copy is whole before anything is removed, and that the owner's files
  are whole. `Accounts` adds the records (one for each success and none else, with the version
  validated) and, while nobody edits the registry, that copies are of the validated version.
  `LoadInv` says of a load between its two reads that what it has listed is still there.
- `LedgerStoreProofs`: the four properties look at what an append returned, at a reader that is
  done and at a last answer; none says anything of the time in between. The invariant adds that a
  record that is seen anywhere is the only one of its id (`UniqueIds`), that it is appended once
  (`AppendedOnce`) and stands once, in the file of its kind (`Lined`). `Tally` counts a file that a
  torn append left open as a loss to come, so that the append that continues the line, and loses up
  to one acknowledged record, adds no loss the tears do not account for. `Kept` says that a file
  which lost a record never parses again, so a reader that goes on has missed nothing. `Paged`: the
  pages so far are the first records of what the query would find now, because a filter over a file
  that only grows only grows (`AmongAppend`). `Gathers`: what an export has to hold is gathered or
  in a file still to be read; the sorted export is by ranks, and the lemmas show that a rank is taken
  by one record (`Precedes` is a strict order on ids). `Answers`: the last answer is still among the
  candidates of its lookup, from which both "not older" and "the same record" follow.
- `PolicyLedgerProofs`: `RevisionsAreRecorded` says nothing of changes in progress; `Recorded`
  adds that the revision a process is about to write is recorded already, and so is the one a
  record to be appended comes from. A ledger that parses after an append parsed before it and
  only grew (`BecameGrows`). `TornForever` rests on a second invariant: only an activation or
  rollback ever stands at the active file. `Serial` is about changes that neither overlap nor
  fail: one is in progress at most, and what it has read is so until it appends its record.
- `CompositionProofs`: requests of a step are counted against its attempts (`SentInv`), effects
  against requests (`EffectInv`), and what the provider cannot tell apart is sent once
  (`OnceInv`), because the retry policy refuses to repeat it; `TroubleInv` says that a
  compensation runs only after trouble, and that trouble does not go away.
- `GatedCallsProofs`: an egress policy of any length is followed rule by rule; what `used` does
  to the gates is monotone, since an exceeded rule stays exceeded and the first of more rules
  stands no later; `HoldInv` carries what a caller read from step to step, and `TurnInv` says of
  callers that take turns that what was read is still what is stored.

Induction over data. The library's induction theorems take an operator and cannot be cited, so
`PolicyEvaluationProofs` derives induction from the least element of a set (`InductionUpTo`, over
a set instead of a predicate) and, from it, that a function defined by recursion over `0..n`
exists and satisfies its equations (`FoldExists`). The egress pass, the remaining overrides and
the filters of the ledgers (`Among`) are written as such functions and proved about with these
two lemmas.

Only model-checked, and why: `CallsEnd`. Liveness under fairness needs ENABLED, which is beyond
the prover. The four findings are runs with a counterexample and nothing to prove. All other
properties that the runs check are theorems. The inductive invariants were checked with TLC on the
instances of section 3 before they were proved.

## 5. Plan

1. Done: all modules of section 2, and the theorems of section 4 about every module that has
   a state machine.
2. Next, when the code grows: the hosts of `Composition` and `GatedCalls`, external today, become
   modules of the code that calls these functions; a policy set that the MCP server reads anew (the
   hazard of a stale policy has no property, because nothing in the repository says that an edit
   must reach a running server).

## 6. Not modelled

Text: wording, prompts, JSON layout, redaction, digests, host-name classification, version
comparison, YAML; the validator's findings about the form of a file. Pure document functions
(lints, cards, OpenAPI selection, release evidence, SDK types, data classification and
previews): no state and nothing a bounded model adds to their tests. The CLI's scaffold and
report writers: several files written by one process that nothing else reads. Redirects: the
outbound gate judges the first URL, and judging the final one again is a later enhancement of
the code (`outbound-policy-v1.md:140`). Time windows, durations and percentiles of the metrics,
the quality score. The external hosts of `Composition` and `GatedCalls` will have to be replaced
by the repository's code when it calls these functions. `PROJECT.json` lists every component
with its status, the hazards with the properties that cover them, and the source lines of every
definition.
