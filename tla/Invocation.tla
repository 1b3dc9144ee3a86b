----------------------------- MODULE Invocation -----------------------------
(***************************************************************************)
(* One Capability invocation, from the request to the answer, on the two   *)
(* channels of the runtime:                                                *)
(*   cli  `opencap invoke`: a process of its own per call, which reads     *)
(*        policies.yml and may prompt the user (packages/cli/src/index.ts) *)
(*   mcp  a tool call routed by the MCP STDIO server: one process for all  *)
(*        calls, with the policy set it read when it started, and nobody   *)
(*        to prompt (packages/mcp/src/index.ts, routeMcpToolCall)          *)
(* Both go through confirmation, executeHttpCapability and the audit log   *)
(* (packages/runtime/src/index.ts).  The log is one SQLite file opened     *)
(* without a busy timeout: while one process holds it, a statement of      *)
(* another fails at once.  Every row is shadowed by a record of the        *)
(* invocation ledger, a JSON lines file.                                   *)
(*                                                                         *)
(* Synchronous code (all of SQLite) keeps the event loop of its process;   *)
(* between two awaits the other calls of the MCP server can run.           *)
(***************************************************************************)
EXTENDS PolicyEvaluation, FiniteSets

CONSTANTS
  Calls,       \* the invocations
  Requests,    \* what a caller can ask for
  Policies,    \* the policy sets policies.yml can hold
  Unparsable,  \* the content of a policies.yml that does not parse
  NoPolicy,    \* no policy set read yet
  MaxFaults,   \* bound on failing reads and writes (disk, file system)
  MaxCrashes,  \* bound on processes that die
  MaxEdits     \* bound on edits of policies.yml

Unlocked == "unlocked"

Channels == {"cli", "mcp"}

OutboundTargets ==
  {"fixed_https_origin", "templated_path_or_query", "localhost_or_loopback", "arbitrary_url",
   "private_network", "metadata_service", "non_https", "invalid_url"}

\* A request and the installed Capability it names.  `renderable': the URL and
\* body templates render with the input; `credential': what resolveEnvCredential
\* finds for the manifest's auth ("unsupported" stands for the auth types and
\* headers it throws on).
Request ==
  [channel     : Channels,
   capability  : STRING,
   installed   : BOOLEAN,
   permissions : Seq([resource : STRING, action : STRING, risk : Risks]),
   trust       : STRING,
   renderable  : BOOLEAN,
   target      : OutboundTargets,
   credential  : {"none", "resolved", "missing", "unsupported"},
   dryRun      : BOOLEAN,
   assumeYes   : BOOLEAN]

ASSUME InvocationAssumption ==
  /\ Requests \subseteq Request
  /\ \A r \in Requests : r.channel = "mcp" => ~ r.dryRun /\ ~ r.assumeYes
  /\ \A r \in Requests : r.permissions # <<>>   \* minItems of the manifest schema
  /\ \A ps \in Policies : IsPolicySet(ps)
  /\ NoPolicy \notin Policies
  /\ Unparsable \notin Policies
  /\ Unlocked \notin Calls
  /\ {MaxFaults, MaxCrashes, MaxEdits} \subseteq Nat

VARIABLES
  request,     \* the request of each call
  call,        \* the state of each call, see CallState
  policyFile,  \* what policies.yml holds
  session,     \* the policy set of the running MCP server, or NoPolicy
  db,          \* the call whose process holds the audit database, or Unlocked
  faults, crashes, edits

vars == <<request, call, policyFile, session, db, faults, crashes, edits>>

-----------------------------------------------------------------------------
(* What the audit log, the ledger and the caller are told.                 *)

ConfirmationStatuses == {"approved", "denied", "rejected", "confirmation_required"}

HttpStatuses ==
  {"success", "http_error", "timeout", "network_error", "secret_missing",
   "audit_failed", "outbound_blocked"}

Outcomes ==
  {"none", "success", "blocked", "failed_before_request", "failed_after_request",
   "unknown_after_timeout"}

\* An audit event without its identifiers and texts.  An absent requestStarted
\* and an absent response time are FALSE, an absent outcome or receipt "none".
AuditEvent ==
  [status       : {"blocked", "denied", "executed", "dry_run"},
   decision     : Decisions,
   confirmation : ConfirmationStatuses,
   outcome      : Outcomes,
   started      : BOOLEAN,
   responded    : BOOLEAN,
   consent      : {"none", "approved", "rejected", "unavailable"}]

NoEvent == [status |-> "none"]

LedgerStatuses ==
  {"success", "dry_run", "confirmation_required", "denied", "blocked", "failed",
   "unknown_after_timeout"}

Replies ==
  {"none", "success", "failed", "unknown", "dry_run", "blocked", "denied",
   "confirmation_required", "tool_not_found", "error"}

Stages ==
  {"idle", "confirm", "prompt", "execute", "preflight", "preflighting", "send", "fetch",
   "record", "recording", "ledger", "done", "crashed"}

\* How far the request got.  "sent": fetch was called with it, the provider may get
\* it; "performed" and "refused" are the provider's doing.
NetStates == {"unsent", "sent", "performed", "refused"}

CallState ==
  [pc           : Stages,
   policy       : Policies \cup {NoPolicy},
   confirmation : ConfirmationStatuses \cup {"none"},
   prompted     : BOOLEAN,
   audited      : BOOLEAN,                   \* the audit preflight went through
   net          : NetStates,
   result       : HttpStatuses \cup {"none"},
   event        : AuditEvent \cup {NoEvent},  \* to be recorded
   rows         : Seq(AuditEvent),           \* the call's rows of logs.sqlite
   ledger       : Seq(LedgerStatuses),       \* the call's invocation ledger records
   reply        : Replies]

NewCall ==
  [pc |-> "idle", policy |-> NoPolicy, confirmation |-> "none", prompted |-> FALSE,
   audited |-> FALSE, net |-> "unsent", result |-> "none", event |-> NoEvent,
   rows |-> <<>>, ledger |-> <<>>, reply |-> "none"]

Ended == {"done", "crashed"}

\* Mutant: a dropped connection counts as a request that never left.
StartedIfAnswered(result) ==
  result \notin {"secret_missing", "audit_failed", "outbound_blocked", "network_error"}

RequestStarted(result) == result \notin {"secret_missing", "audit_failed", "outbound_blocked"}

\* Mutant: the response time is written whenever the request started.
ResponseAssumed(result) == RequestStarted(result)

ResponseReceived(result) == result \in {"success", "http_error"}

ExecutionOutcome(result) ==
  CASE result = "success" -> "success"
    [] result = "timeout" -> "unknown_after_timeout"
    [] result \in {"outbound_blocked", "audit_failed"} -> "blocked"
    [] result = "secret_missing" -> "failed_before_request"
    [] OTHER -> "failed_after_request"

AuditStatusFromConfirmation(status) ==
  CASE status = "denied" -> "denied"
    [] status = "approved" -> "executed"
    [] OTHER -> "blocked"

\* Mutant: an allowed call gets a receipt as if the user had been asked.
ForgedConsent(decision, status) ==
  IF status = "approved" THEN "approved" ELSE "none"

\* Only a policy that asks gives a consent receipt.
ConsentDecision(decision, status) ==
  IF decision # "ask" THEN "none"
  ELSE CASE status = "approved" -> "approved"
         [] status = "rejected" -> "rejected"
         [] status = "confirmation_required" -> "unavailable"
         [] OTHER -> "none"

InvocationLedgerStatus(event) ==
  IF event.status \in {"dry_run", "denied"} THEN event.status
  ELSE IF event.status = "blocked"
  THEN IF event.confirmation = "confirmation_required" THEN "confirmation_required" ELSE "blocked"
  ELSE CASE event.outcome = "unknown_after_timeout" -> "unknown_after_timeout"
         [] event.outcome \in {"failed_before_request", "failed_after_request"} -> "failed"
         [] OTHER -> "success"

\* Mutants: the HTTP status is returned as it is; a dropped connection is a refusal.
RawStatus(result) == result
DroppedIsBlocked(result) ==
  IF result = "success" THEN "success"
  ELSE IF result = "timeout" THEN "unknown"
  ELSE IF result = "http_error" THEN "failed" ELSE "blocked"

EnvelopeStatus(result) ==
  CASE result = "success" -> "success"
    [] result = "timeout" -> "unknown"
    [] ~ RequestStarted(result) -> "blocked"
    [] OTHER -> "failed"

-----------------------------------------------------------------------------
(* One call.                                                               *)

Process(c) == IF request[c].channel = "mcp" THEN "server" ELSE c

\* Synchronous SQLite code of another call does not hold the event loop of c.
CanRun(c) == db \notin {d \in Calls \ {c} : Process(d) = Process(c)}

DbFree == db = Unlocked

\* evaluatePolicy's input: only the CLI passes the trust level, nobody the host.
PolicyInput(r) ==
  [capabilityId |-> r.capability,
   permissions  |-> r.permissions,
   channel      |-> r.channel,
   host         |-> Undefined,
   trustLevel   |-> IF r.channel = "cli" THEN r.trust ELSE Undefined]

PolicyDecision(ps, r) == EvaluatePolicy(ps, PolicyInput(r)).decision

Decision(c) == PolicyDecision(call[c].policy, request[c])

HasRisk(r, risks) == \E k \in 1..Len(r.permissions) : r.permissions[k].risk \in risks

HasManualOnlyRisk(r) == HasRisk(r, {"financial", "destructive"})

RequiresAuditPreflight(r) == HasRisk(r, Risks \ {"read_only"})

OutboundAllowed(r) == r.target \in {"fixed_https_origin", "templated_path_or_query"}

ConfirmationEvent(decision, status) ==
  [status       |-> AuditStatusFromConfirmation(status),
   decision     |-> decision,
   confirmation |-> status,
   outcome      |-> "none",
   started      |-> FALSE,
   responded    |-> FALSE,
   consent      |-> ConsentDecision(decision, status)]

DryRunEvent(c) ==
  [status       |-> "dry_run",
   decision     |-> Decision(c),
   confirmation |-> IF Decision(c) = "deny" THEN "denied" ELSE "approved",
   outcome      |-> "none",
   started      |-> FALSE,
   responded    |-> FALSE,
   consent      |-> "none"]

OutboundBlockedEvent ==
  [status       |-> "blocked",
   decision     |-> "deny",
   confirmation |-> "denied",
   outcome      |-> "none",
   started      |-> FALSE,
   responded    |-> FALSE,
   consent      |-> "none"]

\* Only the CLI hands the consent receipt to the execution.
ExecutionEvent(c, result) ==
  [status       |-> IF RequestStarted(result) THEN "executed" ELSE "blocked",
   decision     |-> "allow",
   confirmation |-> "approved",
   outcome      |-> ExecutionOutcome(result),
   started      |-> RequestStarted(result),
   responded    |-> ResponseReceived(result),
   consent      |-> IF request[c].channel = "cli"
                    THEN ConsentDecision(Decision(c), call[c].confirmation)
                    ELSE "none"]

\* What the caller is told once the last record is written.
Answer(c) ==
  IF call[c].result # "none" THEN EnvelopeStatus(call[c].result)
  ELSE CASE request[c].dryRun -> "dry_run"
         [] call[c].confirmation = "confirmation_required" -> "confirmation_required"
         [] call[c].confirmation = "denied" /\ request[c].channel = "mcp" -> "denied"
         [] OTHER -> "blocked"

-----------------------------------------------------------------------------
(* Steps.  Each changes one call; the frame conditions are spelled once.   *)

\* The call becomes s; the files, the server and the other calls stay as they are.
Becomes(c, s) ==
  /\ call' = [call EXCEPT ![c] = s]
  /\ UNCHANGED <<request, policyFile, session, crashes, edits>>

\* The call goes to pc, without the database and without a fault.
Goto(c, pc) ==
  /\ Becomes(c, [call[c] EXCEPT !.pc = pc])
  /\ UNCHANGED <<db, faults>>

\* The call returns reply; an exception is the reply "error".
Return(c, reply) == Becomes(c, [call[c] EXCEPT !.pc = "done", !.reply = reply])

\* auditLogger.record(event) is called, with the HTTP result if there is one.
Record(c, result, event) ==
  /\ Becomes(c, [call[c] EXCEPT !.pc = "record", !.result = result, !.event = event])
  /\ UNCHANGED <<db, faults>>

\* A fault of the machine, from the budget.
Fault == faults < MaxFaults /\ faults' = faults + 1

At(c, pc) == call[c].pc = pc /\ CanRun(c)

-----------------------------------------------------------------------------
Init ==
  /\ request \in [Calls -> Requests]
  /\ call = [c \in Calls |-> NewCall]
  /\ policyFile \in Policies
  /\ session = NoPolicy
  /\ db = Unlocked
  /\ faults = 0
  /\ crashes = 0
  /\ edits = 0

\* The user edits policies.yml, maybe into something that does not parse.
EditPolicy ==
  /\ edits < MaxEdits
  /\ edits' = edits + 1
  /\ policyFile' \in (Policies \cup {Unparsable}) \ {policyFile}
  /\ UNCHANGED <<request, call, session, db, faults, crashes>>

\* `opencap serve --mcp': the policy set is read here and never again.
StartServer ==
  /\ session = NoPolicy
  /\ policyFile \in Policies
  /\ session' = policyFile
  /\ UNCHANGED <<request, call, policyFile, db, faults, crashes, edits>>

\* `opencap invoke': the Capability and the policy are loaded.
InvokeCli(c) ==
  /\ At(c, "idle")
  /\ request[c].channel = "cli"
  /\ request[c].installed
  /\ policyFile \in Policies
  /\ Becomes(c, [call[c] EXCEPT !.pc = "confirm", !.policy = policyFile])
  /\ UNCHANGED <<db, faults>>

\* Not installed, or a policies.yml that does not parse.
InvokeCliInvalid(c) ==
  /\ At(c, "idle")
  /\ request[c].channel = "cli"
  /\ ~ request[c].installed \/ policyFile = Unparsable
  /\ Return(c, "error")
  /\ UNCHANGED <<db, faults>>

\* The audit database cannot be opened: another process is committing, or a fault.
InvokeCliNoDatabase(c) ==
  /\ At(c, "idle")
  /\ request[c].channel = "cli"
  /\ \/ db \in Calls /\ call[db].pc = "recording" /\ UNCHANGED faults
     \/ Fault
  /\ Return(c, "error")
  /\ UNCHANGED db

DryRun(c) ==
  /\ At(c, "confirm")
  /\ request[c].dryRun
  /\ request[c].renderable
  /\ Record(c, "none", DryRunEvent(c))

DryRunInvalid(c) ==
  /\ At(c, "confirm")
  /\ request[c].dryRun
  /\ ~ request[c].renderable
  /\ Return(c, "error")
  /\ UNCHANGED <<db, faults>>

\* The CLI has its confirmation: only a refusal is recorded as such.
CliConfirmed(c, status, prompted) ==
  /\ Becomes(c, [call[c] EXCEPT
       !.confirmation = status,
       !.prompted = prompted,
       !.pc = IF status = "approved" THEN "execute" ELSE "record",
       !.event = IF status = "approved" THEN NoEvent ELSE ConfirmationEvent(Decision(c), status)])
  /\ UNCHANGED <<db, faults>>

ConfirmCliByPolicy(c) ==
  /\ At(c, "confirm")
  /\ ~ request[c].dryRun
  /\ \/ Decision(c) = "allow" /\ CliConfirmed(c, "approved", FALSE)
     \/ Decision(c) = "deny" /\ CliConfirmed(c, "denied", FALSE)

\* Mutant: only payments need a person.
AssumeYesDeletes(c) ==
  /\ At(c, "confirm")
  /\ ~ request[c].dryRun
  /\ Decision(c) = "ask"
  /\ request[c].assumeYes
  /\ CliConfirmed(c, IF HasRisk(request[c], {"financial"}) THEN "rejected" ELSE "approved", FALSE)

\* --yes approves, except what only a person may approve.
ConfirmCliAssumeYes(c) ==
  /\ At(c, "confirm")
  /\ ~ request[c].dryRun
  /\ Decision(c) = "ask"
  /\ request[c].assumeYes
  /\ CliConfirmed(c, IF HasManualOnlyRisk(request[c]) THEN "rejected" ELSE "approved", FALSE)

PromptCli(c) ==
  /\ At(c, "confirm")
  /\ ~ request[c].dryRun
  /\ Decision(c) = "ask"
  /\ ~ request[c].assumeYes
  /\ Goto(c, "prompt")

\* The user answers, or never does.
AnswerPrompt(c) ==
  /\ At(c, "prompt")
  /\ \E status \in {"approved", "rejected"} : CliConfirmed(c, status, TRUE)

McpConfirmation(decision) ==
  CASE decision = "allow" -> "approved"
    [] decision = "deny" -> "denied"
    [] OTHER -> "confirmation_required"

\* Mutant: an approved tool call is executed before its confirmation is recorded.
CallMcpUnrecorded(c) ==
  LET decision == PolicyDecision(session, request[c])
      status   == McpConfirmation(decision)
  IN  /\ At(c, "idle")
      /\ request[c].channel = "mcp"
      /\ session # NoPolicy
      /\ request[c].installed
      /\ Becomes(c, [call[c] EXCEPT
           !.policy = session,
           !.confirmation = status,
           !.pc = IF status = "approved" THEN "execute" ELSE "record",
           !.event = ConfirmationEvent(decision, status)])
      /\ UNCHANGED <<db, faults>>

\* A tool call: whatever the confirmation, it is recorded first (confirmWithAudit).
CallMcp(c) ==
  LET decision == PolicyDecision(session, request[c])
      status   == McpConfirmation(decision)
  IN  /\ At(c, "idle")
      /\ request[c].channel = "mcp"
      /\ session # NoPolicy
      /\ request[c].installed
      /\ Becomes(c, [call[c] EXCEPT
           !.policy = session,
           !.confirmation = status,
           !.pc = "record",
           !.event = ConfirmationEvent(decision, status)])
      /\ UNCHANGED <<db, faults>>

\* A tool that no installed Capability has: an ordinary tool result, TOOL_NOT_FOUND,
\* before any policy is evaluated or anything recorded.
CallMcpUnknownTool(c) ==
  /\ At(c, "idle")
  /\ request[c].channel = "mcp"
  /\ session # NoPolicy
  /\ ~ request[c].installed
  /\ Return(c, "tool_not_found")
  /\ UNCHANGED <<db, faults>>

-----------------------------------------------------------------------------
\* executeHttpCapability renders the plan; a template that does not render throws.
PlanFails(c) ==
  /\ At(c, "execute")
  /\ ~ request[c].renderable
  /\ Return(c, "error")
  /\ UNCHANGED <<db, faults>>

OutboundBlocks(c) ==
  /\ At(c, "execute")
  /\ request[c].renderable
  /\ ~ OutboundAllowed(request[c])
  /\ Record(c, "outbound_blocked", OutboundBlockedEvent)

OutboundAllows(c) ==
  /\ At(c, "execute")
  /\ request[c].renderable
  /\ OutboundAllowed(request[c])
  /\ Goto(c, IF RequiresAuditPreflight(request[c]) THEN "preflight" ELSE "send")

\* BEGIN IMMEDIATE and the trial insert.
PreflightBegin(c) ==
  /\ At(c, "preflight")
  /\ DbFree
  /\ Becomes(c, [call[c] EXCEPT !.pc = "preflighting"])
  /\ db' = c
  /\ UNCHANGED faults

\* audit_failed is returned without a record.
AuditFailed(c) ==
  Becomes(c, [call[c] EXCEPT
    !.pc = "done", !.result = "audit_failed", !.reply = EnvelopeStatus("audit_failed")])

PreflightBusy(c) ==
  /\ At(c, "preflight")
  /\ ~ DbFree
  /\ AuditFailed(c)
  /\ UNCHANGED <<db, faults>>

\* Mutant: the catch block does not roll back.
PreflightFaultNoRollback(c) ==
  /\ At(c, "preflighting")
  /\ Fault
  /\ AuditFailed(c)
  /\ UNCHANGED db

PreflightFault(c) ==
  /\ At(c, "preflighting")
  /\ Fault
  /\ db' = Unlocked
  /\ AuditFailed(c)

PreflightRollback(c) ==
  /\ At(c, "preflighting")
  /\ Becomes(c, [call[c] EXCEPT !.pc = "send", !.audited = TRUE])
  /\ db' = Unlocked
  /\ UNCHANGED faults

SecretMissing(c) ==
  /\ At(c, "send")
  /\ request[c].credential = "missing"
  /\ Record(c, "secret_missing", ExecutionEvent(c, "secret_missing"))

SecretUnsupported(c) ==
  /\ At(c, "send")
  /\ request[c].credential = "unsupported"
  /\ Return(c, "error")
  /\ UNCHANGED <<db, faults>>

\* The credential is applied and fetch called, without an await between.
SendRequest(c) ==
  /\ At(c, "send")
  /\ request[c].credential \in {"none", "resolved"}
  /\ Becomes(c, [call[c] EXCEPT !.pc = "fetch", !.net = "sent"])
  /\ UNCHANGED <<db, faults>>

\* The provider acts on a request whether or not anybody still waits for it.
ProviderActs(c) ==
  /\ call[c].net = "sent"
  /\ \E net \in {"performed", "refused"} : Becomes(c, [call[c] EXCEPT !.net = net])
  /\ UNCHANGED <<db, faults>>

FetchEnds(c, result) ==
  /\ At(c, "fetch")
  /\ Record(c, result, ExecutionEvent(c, result))

FetchSuccess(c) == call[c].net = "performed" /\ FetchEnds(c, "success")

FetchHttpError(c) == call[c].net \in {"performed", "refused"} /\ FetchEnds(c, "http_error")

\* Mutant: the abort signal is not handed to fetch.
FetchTimeoutIgnored(c) == call[c].net # "sent" /\ FetchEnds(c, "timeout")

\* The AbortController's timer may fire at any time.
FetchTimeout(c) == FetchEnds(c, "timeout")

\* The connection drops, or the body cannot be read.
FetchNetworkError(c) == FetchEnds(c, "network_error")

-----------------------------------------------------------------------------
RecordBegin(c) ==
  /\ At(c, "record")
  /\ DbFree
  /\ Becomes(c, [call[c] EXCEPT !.pc = "recording"])
  /\ db' = c
  /\ UNCHANGED faults

\* Mutant: a busy log is skipped, the record being best effort.
RecordSkipped(c) ==
  /\ At(c, "record")
  /\ ~ DbFree
  /\ Goto(c, "ledger")

\* SQLITE_BUSY: the exception goes up to the caller.
RecordBusy(c) ==
  /\ At(c, "record")
  /\ ~ DbFree
  /\ Return(c, "error")
  /\ UNCHANGED <<db, faults>>

RecordFault(c) ==
  /\ At(c, "recording")
  /\ Fault
  /\ db' = Unlocked
  /\ Return(c, "error")

RecordCommit(c) ==
  /\ At(c, "recording")
  /\ Becomes(c, [call[c] EXCEPT !.pc = "ledger", !.rows = Append(@, call[c].event)])
  /\ db' = Unlocked
  /\ UNCHANGED faults

\* Mutant: a tool call that was executed is executed again.
ToExecuteAgain(c) == request[c].channel = "mcp" /\ call[c].confirmation = "approved"

\* A tool call that was approved and not yet executed.
ToExecute(c) ==
  /\ request[c].channel = "mcp"
  /\ call[c].confirmation = "approved"
  /\ call[c].result = "none"

\* The ledger record is appended; then the MCP router goes on to the execution,
\* everybody else returns.
LedgerAppend(c) ==
  /\ At(c, "ledger")
  /\ Becomes(c, [call[c] EXCEPT
       !.ledger = Append(@, InvocationLedgerStatus(call[c].event)),
       !.event = NoEvent,
       !.pc = IF ToExecute(c) THEN "execute" ELSE "done",
       !.reply = IF ToExecute(c) THEN "none" ELSE Answer(c)])
  /\ UNCHANGED <<db, faults>>

\* Mutant: a failing ledger does not stop the call.
LedgerFaultIgnored(c) ==
  /\ At(c, "ledger")
  /\ Fault
  /\ Becomes(c, [call[c] EXCEPT
       !.event = NoEvent,
       !.pc = IF ToExecute(c) THEN "execute" ELSE "done",
       !.reply = IF ToExecute(c) THEN "none" ELSE Answer(c)])
  /\ UNCHANGED db

LedgerFault(c) ==
  /\ At(c, "ledger")
  /\ Fault
  /\ Return(c, "error")
  /\ UNCHANGED db

\* A process dies: its calls end where they are, SQLite drops what is uncommitted.
Live(c) == call[c].pc \notin Ended \cup {"idle"}

Die(cs) ==
  /\ crashes < MaxCrashes
  /\ crashes' = crashes + 1
  /\ call' = [c \in Calls |-> IF c \in cs THEN [call[c] EXCEPT !.pc = "crashed"] ELSE call[c]]
  /\ db' = IF db \in cs THEN Unlocked ELSE db
  /\ UNCHANGED <<request, policyFile, faults, edits>>

CrashCli(c) ==
  /\ request[c].channel = "cli"
  /\ Live(c)
  /\ Die({c})
  /\ UNCHANGED session

CrashServer ==
  /\ session # NoPolicy
  /\ session' = NoPolicy
  /\ Die({c \in Calls : request[c].channel = "mcp" /\ Live(c)})

-----------------------------------------------------------------------------
\* What the program does by itself once a call was made.
ProgramStep(c) ==
  \/ DryRun(c) \/ DryRunInvalid(c)
  \/ ConfirmCliByPolicy(c) \/ ConfirmCliAssumeYes(c) \/ PromptCli(c)
  \/ PlanFails(c) \/ OutboundBlocks(c) \/ OutboundAllows(c)
  \/ PreflightBegin(c) \/ PreflightBusy(c) \/ PreflightFault(c) \/ PreflightRollback(c)
  \/ SecretMissing(c) \/ SecretUnsupported(c) \/ SendRequest(c)
  \/ FetchSuccess(c) \/ FetchHttpError(c) \/ FetchTimeout(c)
  \/ RecordBegin(c) \/ RecordBusy(c) \/ RecordFault(c) \/ RecordCommit(c)
  \/ LedgerAppend(c) \/ LedgerFault(c)

\* What callers, users, the provider, the network and the machine may do.
EnvironmentStep(c) ==
  \/ InvokeCli(c) \/ InvokeCliInvalid(c) \/ InvokeCliNoDatabase(c)
  \/ CallMcp(c) \/ CallMcpUnknownTool(c)
  \/ AnswerPrompt(c) \/ ProviderActs(c) \/ FetchNetworkError(c) \/ CrashCli(c)

Next ==
  \/ EditPolicy \/ StartServer \/ CrashServer
  \/ \E c \in Calls : ProgramStep(c) \/ EnvironmentStep(c)

Spec == Init /\ [][Next]_vars

\* A process that runs goes on; the timer of executeHttpCapability ends a fetch
\* nobody answers.  Users, providers and the network owe nothing.
Fairness == \A c \in Calls : WF_vars(ProgramStep(c))

FairSpec == Spec /\ Fairness

-----------------------------------------------------------------------------
(* Properties.                                                             *)

TypeOK ==
  /\ request \in [Calls -> Requests]
  /\ call \in [Calls -> CallState]
  /\ policyFile \in Policies \cup {Unparsable}
  /\ session \in Policies \cup {NoPolicy}
  /\ db \in Calls \cup {Unlocked}
  /\ faults \in 0..MaxFaults
  /\ crashes \in 0..MaxCrashes
  /\ edits \in 0..MaxEdits

Sent(c) == call[c].net # "unsent"

\* The person or the policy that may approve call c did.
Authorised(c) ==
  \/ Decision(c) = "allow"
  \/ /\ Decision(c) = "ask"
     /\ request[c].channel = "cli"
     /\ \/ call[c].prompted
        \/ request[c].assumeYes /\ ~ HasManualOnlyRisk(request[c])

\* A request leaves only for a call that is no dry run, that the policy allows or a
\* person approved (--yes is no person for payments and deletions), whose target
\* passed the outbound policy, whose secret was found and, unless it only reads,
\* after a preflight showed that the audit log can be written: the order of the
\* gates in invoke, routeMcpToolCall and executeHttpCapability.
NoRequestWithoutAuthority ==
  \A c \in Calls : Sent(c) =>
    /\ ~ request[c].dryRun
    /\ call[c].confirmation = "approved" /\ Authorised(c)
    /\ OutboundAllowed(request[c])
    /\ request[c].credential \notin {"missing", "unsupported"}
    /\ RequiresAuditPreflight(request[c]) => call[c].audited

\* What the log calls blocked, denied or a dry run was never sent, not even later,
\* by a call that goes on after the record (the MCP router does after its first).
BlockedRowsNeverSent ==
  \A c \in Calls : \A i \in 1..Len(call[c].rows) :
    call[c].rows[i].status \in {"blocked", "denied", "dry_run"} => ~ Sent(c)

\* The log invents nothing: an outcome it calls a success was performed by the
\* provider, a response time stands only where the provider answered, and a request
\* it calls started was sent (createHttpExecutionEvidence).
RowsAreTruthful ==
  \A c \in Calls : \A i \in 1..Len(call[c].rows) :
    LET row == call[c].rows[i]
    IN  /\ row.outcome = "success" => call[c].net = "performed"
        /\ row.responded => call[c].net \in {"performed", "refused"}
        /\ row.started => Sent(c)

\* A receipt of the user's consent stands only in the log of a CLI call the policy
\* asked about and the user (or --yes) approved: neither a call the policy allowed
\* nor one of the MCP channel, which cannot ask, ever gets one.
ConsentIsReal ==
  \A c \in Calls : \A i \in 1..Len(call[c].rows) :
    call[c].rows[i].consent = "approved" =>
      /\ request[c].channel = "cli"
      /\ Decision(c) = "ask"
      /\ call[c].confirmation = "approved"
      /\ Authorised(c)

\* One invocation makes one request: whatever stage can still lead to a request,
\* none was made and no outcome recorded, also for the calls whose router goes on
\* after a record.
AtMostOneRequest ==
  \A c \in Calls :
    call[c].pc \in {"execute", "preflight", "preflighting", "send"} =>
      /\ ~ Sent(c)
      /\ \A i \in 1..Len(call[c].rows) : call[c].rows[i].outcome = "none"

\* What an audit row stands for, as an answer.
RowAnswer(row) ==
  CASE row.outcome = "success" -> {"success"}
    [] row.outcome = "failed_after_request" -> {"failed"}
    [] row.outcome = "unknown_after_timeout" -> {"unknown"}
    [] row.status = "dry_run" -> {"dry_run"}
    [] row.status \in {"blocked", "denied"} -> {"blocked", "denied", "confirmation_required"}
    [] OTHER -> {}

\* A caller that gets an answer other than an exception is told what the last row
\* of the log says, and the row and its ledger record are written: in particular no
\* "success" without its audit row, whatever fails or holds the database.  Two answers
\* have no such row: the refusal because the log cannot be written, and the answer to a
\* tool call that names no installed Capability (CallMcpUnknownTool), which is a failure
\* although "failures have to be written to the audit log, too" (error-model-v1.md).
AnswersAreAudited ==
  \A c \in Calls :
    /\ call[c].reply \notin {"none", "error"}
    /\ call[c].result # "audit_failed"
    /\ request[c].installed
    =>
      /\ call[c].rows # <<>>
      /\ call[c].reply \in RowAnswer(call[c].rows[Len(call[c].rows)])
      /\ Len(call[c].ledger) = Len(call[c].rows)

\* On the MCP channel the confirmation is in the log and the ledger before the
\* request leaves, so a server that dies meanwhile leaves a trace of every call it
\* made (confirmWithAudit).
McpConfirmationPrecedesRequest ==
  \A c \in Calls : (request[c].channel = "mcp" /\ Sent(c)) =>
    /\ call[c].rows # <<>> /\ call[c].ledger # <<>>
    /\ call[c].rows[1].confirmation = "approved"

\* The ledger is the log's shadow: its records are those of the first rows, and it
\* is behind only while a record is being appended or after that failed or the
\* process died (RuntimeLedgerAuditLogger.record).
LedgerShadowsAudit ==
  \A c \in Calls :
    /\ Len(call[c].ledger) \in {Len(call[c].rows), Len(call[c].rows) - 1}
    /\ \A i \in 1..Len(call[c].ledger) :
         call[c].ledger[i] = InvocationLedgerStatus(call[c].rows[i])
    /\ Len(call[c].ledger) < Len(call[c].rows) =>
         call[c].pc \in {"ledger", "crashed"} \/ call[c].reply = "error"

\* The audit database is held only by a call that is inside a transaction: no
\* failure and no crash leaves it locked for the other processes.
NoLockLeaks ==
  db # Unlocked => call[db].pc \in {"preflighting", "recording"}

\* Every call that was made ends, or waits for the user's answer: contention,
\* faults and a provider that never answers do not leave it hanging.
CallsEnd ==
  \A c \in Calls :
    call[c].pc \notin {"idle", "prompt"} ~> call[c].pc \in Ended \cup {"prompt"}

-----------------------------------------------------------------------------
(* The abstract specification each invocation implements.                  *)

OutcomeLogged(c) == \E i \in 1..Len(call[c].rows) : call[c].rows[i].outcome # "none"

Refusals == {"dry_run", "blocked", "denied", "confirmation_required", "tool_not_found"}

AbstractAnswer(c) ==
  CASE call[c].reply \in Refusals -> "refused"
    [] OTHER -> call[c].reply

Gated == INSTANCE GatedExecution WITH
  approved <- {c \in Calls : call[c].confirmation = "approved"},
  sent     <- {c \in Calls : Sent(c)},
  effect   <- {c \in Calls : call[c].net = "performed"},
  logged   <- {c \in Calls : Sent(c) /\ OutcomeLogged(c)},
  answer   <- [c \in Calls |-> AbstractAnswer(c)]

\* Every invocation, with all its gates, records, faults and crashes, keeps the
\* promises of GatedExecution.
ImplementsGatedExecution == Gated!Spec

-----------------------------------------------------------------------------
(* What the documents say and the code does not do.                        *)

\* "SQLite handles the concurrency of the log" (local-state-v1.md): without faults and
\* crashes, a call that ends after its request left has its outcome in the log.
RequestsAreAudited ==
  \A c \in Calls : (call[c].pc = "done" /\ Sent(c)) => OutcomeLogged(c)

\* The invocation ledger says what happened to a call: a record "success" belongs
\* to a call whose provider returned success.
LedgerSuccessWasPerformed ==
  \A c \in Calls : call[c].pc = "done" =>
    \A i \in 1..Len(call[c].ledger) :
      call[c].ledger[i] = "success" => call[c].net = "performed"

\* failed_after_request is the outcome of a failure the provider answered; a
\* request whose connection dropped is unknown_after_timeout.
FailureMeansAnswer ==
  \A c \in Calls : \A i \in 1..Len(call[c].rows) :
    call[c].rows[i].outcome = "failed_after_request" => call[c].rows[i].responded

=============================================================================
