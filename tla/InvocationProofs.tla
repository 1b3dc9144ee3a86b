-------------------------- MODULE InvocationProofs --------------------------
(***************************************************************************)
(* For every set of calls, requests and policy sets, and every bound: the  *)
(* types, the authority of every request that leaves, the audit lock, what *)
(* the audit log, the ledger and the caller are told about a call, that    *)
(* Invocation implements GatedExecution, and that what UsageMetrics counts *)
(* are calls.  The first invariant says, stage by stage, which gates a     *)
(* call has passed (CallInv); the second, what has been written of it and  *)
(* how that fits what was sent (Trail); the third, that one row at most    *)
(* ends it (Counted).  A step of a call only has to show them for the      *)
(* call's new state (StepOfCall, TrailOfCall, CountOfCall).                *)
(***************************************************************************)
EXTENDS UsageMetrics, PolicyEvaluationProofs, FiniteSetTheorems, TLAPS

\* From a confirmation to the end of the request.
Executing == {"execute", "preflight", "preflighting", "send", "fetch"}

Recording == {"record", "recording", "ledger"}

\* Authorised, of a request and a call state.
AuthorisedBy(r, s) ==
  \/ PolicyDecision(s.policy, r) = "allow"
  \/ /\ PolicyDecision(s.policy, r) = "ask"
     /\ r.channel = "cli"
     /\ s.prompted \/ (r.assumeYes /\ ~ HasManualOnlyRisk(r))

\* The gates a call in state s with request r has passed.
Gates(r, s) ==
  /\ s.pc = "idle" => s = NewCall
  /\ s.pc \in {"confirm", "prompt"} \cup Executing \cup Recording => s.policy \in Policies
  /\ s.pc \in {"confirm", "prompt"} => r.channel = "cli" /\ s.confirmation = "none"
  /\ s.pc = "prompt" => ~ r.dryRun /\ PolicyDecision(s.policy, r) = "ask"
  /\ s.pc \in Recording => s.event \in AuditEvent
  /\ s.confirmation = "approved" => ~ r.dryRun /\ AuthorisedBy(r, s)
  /\ s.pc \in Executing => s.confirmation = "approved"
  /\ s.pc \in Executing \ {"execute"} => OutboundAllowed(r)
  /\ s.pc \in {"send", "fetch"} => (RequiresAuditPreflight(r) => s.audited)
  /\ s.pc = "fetch" => s.net # "unsent"
  /\ s.net # "unsent" =>
       /\ s.confirmation = "approved"
       /\ OutboundAllowed(r)
       /\ r.credential \notin {"missing", "unsupported"}
       /\ RequiresAuditPreflight(r) => s.audited

CallInv(c) == Gates(request[c], call[c])

IInv == TypeOK /\ (\A c \in Calls : CallInv(c)) /\ NoLockLeaks

-----------------------------------------------------------------------------
(* Types.                                                                  *)

\* The strings of the stages and of the network, without their sets' definitions.
LEMMA Members ==
  /\ {"idle", "confirm", "prompt", "execute", "preflight", "preflighting", "send", "fetch",
      "record", "recording", "ledger", "done", "crashed"} \subseteq Stages
  /\ {"unsent", "sent", "performed", "refused"} \subseteq NetStates
  /\ {"approved", "denied", "rejected", "confirmation_required"} = ConfirmationStatuses
  /\ {"allow", "ask", "deny"} = Decisions
BY DEF Stages, NetStates, ConfirmationStatuses, Decisions

\* A request of a call has its fields.
LEMMA RequestTyped ==
  ASSUME NEW r \in Requests, NEW ps \in Policies
  PROVE  PolicyDecision(ps, r) \in Decisions
<1>1. Len(PolicyInput(r).permissions) \in Nat
  BY InvocationAssumption DEF Request, PolicyInput
<1>2. IsPolicySet(ps)
  BY InvocationAssumption
<1>3. QED
  BY <1>1, <1>2, PolicyDecisionTyped DEF PolicyDecision

\* The row of a confirmation is a row.
LEMMA ConfirmationEventTyped ==
  ASSUME NEW decision \in Decisions, NEW status \in ConfirmationStatuses
  PROVE  ConfirmationEvent(decision, status) \in AuditEvent
BY DEF ConfirmationEvent, AuditEvent, AuditStatusFromConfirmation, ConsentDecision,
       ConfirmationStatuses, Outcomes

\* The row of an execution is a row.
LEMMA ExecutionEventTyped ==
  ASSUME NEW c, NEW result \in HttpStatuses
  PROVE  ExecutionEvent(c, result) \in AuditEvent
<1>1. ExecutionOutcome(result) \in Outcomes
  BY DEF ExecutionOutcome, Outcomes, HttpStatuses
<1>2. ConsentDecision(Decision(c), call[c].confirmation)
        \in {"none", "approved", "rejected", "unavailable"}
  BY DEF ConsentDecision
<1>3. RequestStarted(result) \in BOOLEAN /\ ResponseReceived(result) \in BOOLEAN
  BY DEF RequestStarted, ResponseReceived
<1>4. QED
  BY <1>1, <1>2, <1>3, Members DEF ExecutionEvent, AuditEvent

\* The rows of a refusal and of a dry run are rows.
LEMMA OtherEventsTyped ==
  /\ OutboundBlockedEvent \in AuditEvent
  /\ \A c \in Calls : Decision(c) \in Decisions => DryRunEvent(c) \in AuditEvent
BY Members DEF OutboundBlockedEvent, DryRunEvent, AuditEvent, Outcomes

\* What the channels answer to a result is an answer.
LEMMA RepliesTyped ==
  /\ \A result \in HttpStatuses : EnvelopeStatus(result) \in Replies
  /\ \A c \in Calls : call[c].result \in HttpStatuses \cup {"none"} => Answer(c) \in Replies
BY DEF EnvelopeStatus, Replies, HttpStatuses, RequestStarted, Answer

\* The ledger status of a row is a status.
LEMMA LedgerStatusTyped ==
  ASSUME NEW event \in AuditEvent
  PROVE  InvocationLedgerStatus(event) \in LedgerStatuses
<1>1. event.status \in {"blocked", "denied", "executed", "dry_run"}
  BY DEF AuditEvent
<1>2. QED
  BY <1>1 DEF InvocationLedgerStatus, LedgerStatuses

-----------------------------------------------------------------------------
(* One step of one call.                                                   *)

\* A call that takes a typed state with its gates passed keeps the invariant, unless
\* it holds the database and leaves its transaction.
LEMMA StepOfCall ==
  ASSUME IInv, NEW c \in Calls, NEW s \in CallState, Becomes(c, s), Gates(request[c], s),
         faults' \in 0..MaxFaults,
         \/ db' = Unlocked
         \/ db' = c /\ s.pc \in {"preflighting", "recording"}
         \/ db' = db /\ s.pc = call[c].pc
         \/ db' = db /\ call[c].pc \notin {"preflighting", "recording"}
  PROVE  IInv'
<1>1. /\ call \in [Calls -> CallState]
      /\ call' \in [Calls -> CallState]
      /\ call'[c] = s
      /\ \A d \in Calls \ {c} : call'[d] = call[d]
      /\ request' = request
  BY DEF IInv, TypeOK, Becomes
<1>2. TypeOK'
  BY <1>1 DEF IInv, TypeOK, Becomes
<1>3. \A d \in Calls : CallInv(d)'
  BY <1>1 DEF IInv, CallInv
<1>4. NoLockLeaks'
  BY <1>1 DEF IInv, NoLockLeaks, TypeOK
<1>5. QED
  BY <1>2, <1>3, <1>4 DEF IInv

\* A call that goes on to a stage whose gates are behind it keeps the invariant.
LEMMA GotoKeeps ==
  ASSUME IInv, NEW c \in Calls, NEW pc \in Stages, Goto(c, pc),
         call[c].pc \notin {"preflighting", "recording"},
         Gates(request[c], [call[c] EXCEPT !.pc = pc])
  PROVE  IInv'
<1> DEFINE s == [call[c] EXCEPT !.pc = pc]
<1>1. call[c] \in CallState /\ faults \in 0..MaxFaults
  BY DEF IInv, TypeOK
<1>2. s \in CallState
  BY <1>1 DEF CallState
<1>3. Becomes(c, s) /\ db' = db /\ faults' = faults
  BY DEF Goto
<1>4. QED
  BY <1>1, <1>2, <1>3, StepOfCall

\* A call that has returned keeps what it has passed.
LEMMA ReturnKeeps ==
  ASSUME IInv, NEW c \in Calls, NEW reply \in Replies, Return(c, reply),
         faults' \in 0..MaxFaults,
         db' = Unlocked \/ (db' = db /\ call[c].pc \notin {"preflighting", "recording"})
  PROVE  IInv'
<1> DEFINE s == [call[c] EXCEPT !.pc = "done", !.reply = reply]
<1>1. call[c] \in CallState
  BY DEF IInv, TypeOK
<1>2. s \in CallState
  BY <1>1, Members DEF CallState
<1>3. Becomes(c, s)
  BY DEF Return
<1>4. Gates(request[c], s)
  BY <1>1 DEF IInv, CallInv, Gates, CallState, Executing, Recording, AuthorisedBy
<1>5. QED
  BY <1>2, <1>3, <1>4, StepOfCall

\* A call that goes on to record an event keeps the invariant.
LEMMA RecordKeeps ==
  ASSUME IInv, NEW c \in Calls, NEW result \in HttpStatuses \cup {"none"},
         NEW event \in AuditEvent, Record(c, result, event),
         call[c].pc \in ({"confirm"} \cup Executing) \ {"preflighting"}
  PROVE  IInv'
<1> DEFINE s == [call[c] EXCEPT !.pc = "record", !.result = result, !.event = event]
<1>1. call[c] \in CallState /\ faults \in 0..MaxFaults
  BY DEF IInv, TypeOK
<1>2. s \in CallState
  <2>1. "record" \in Stages
    BY Members
  <2>2. QED
    BY <1>1, <2>1 DEF CallState
<1>3. Becomes(c, s) /\ db' = db /\ faults' = faults
  BY DEF Record
<1>4. Gates(request[c], s)
  BY <1>1 DEF IInv, CallInv, Gates, CallState, Executing, Recording, AuthorisedBy
<1>5. call[c].pc \notin {"preflighting", "recording"}
  BY DEF Executing
<1>6. QED
  BY <1>1, <1>2, <1>3, <1>4, <1>5, StepOfCall

-----------------------------------------------------------------------------
(* The steps, stage by stage.                                              *)

\* A fault is counted within its bound.
LEMMA FaultTyped ==
  ASSUME TypeOK, Fault
  PROVE  faults' \in 0..MaxFaults
BY InvocationAssumption DEF TypeOK, Fault

\* `opencap invoke' up to the confirmation.
LEMMA InvokeKeeps ==
  ASSUME IInv, NEW c \in Calls,
         InvokeCli(c) \/ InvokeCliInvalid(c) \/ InvokeCliNoDatabase(c)
  PROVE  IInv'
<1>1. CASE InvokeCli(c)
  <2> DEFINE s == [call[c] EXCEPT !.pc = "confirm", !.policy = policyFile]
  <2>1. call[c] = NewCall /\ call[c] \in CallState /\ faults \in 0..MaxFaults
    BY <1>1 DEF InvokeCli, At, IInv, CallInv, Gates, TypeOK
  <2>2. s \in CallState
    BY <1>1, <2>1, Members DEF InvokeCli, CallState
  <2>3. Becomes(c, s) /\ db' = db /\ faults' = faults
    BY <1>1 DEF InvokeCli
  <2>4. Gates(request[c], s)
    BY <1>1, <2>1 DEF InvokeCli, NewCall, Gates, Executing, Recording
  <2>5. call[c].pc = "idle"
    BY <2>1 DEF NewCall
  <2>6. QED
    BY <2>1, <2>2, <2>3, <2>4, <2>5, StepOfCall
<1>2. CASE InvokeCliInvalid(c)
  BY <1>2, ReturnKeeps DEF InvokeCliInvalid, At, Replies, IInv, TypeOK
<1>3. CASE InvokeCliNoDatabase(c)
  BY <1>3, ReturnKeeps, FaultTyped DEF InvokeCliNoDatabase, At, Replies, IInv, TypeOK
<1>4. QED
  BY <1>1, <1>2, <1>3

\* The confirmation of the CLI, once it is known to be given with authority.
LEMMA CliConfirmedKeeps ==
  ASSUME IInv, NEW c \in Calls, NEW status \in ConfirmationStatuses, NEW prompted \in BOOLEAN,
         CliConfirmed(c, status, prompted),
         call[c].pc \in {"confirm", "prompt"},
         ~ request[c].dryRun,
         status = "approved" => AuthorisedBy(request[c], [call[c] EXCEPT !.prompted = prompted])
  PROVE  IInv'
<1> DEFINE s == [call[c] EXCEPT
              !.confirmation = status,
              !.prompted = prompted,
              !.pc = IF status = "approved" THEN "execute" ELSE "record",
              !.event = IF status = "approved" THEN NoEvent
                        ELSE ConfirmationEvent(Decision(c), status)]
<1>1. call[c] \in CallState /\ request[c] \in Requests /\ faults \in 0..MaxFaults
  BY DEF IInv, TypeOK
<1>2. call[c].policy \in Policies
  BY DEF IInv, CallInv, Gates
<1>3. ConfirmationEvent(Decision(c), status) \in AuditEvent
  BY <1>1, <1>2, RequestTyped, ConfirmationEventTyped DEF Decision
<1>4. s \in CallState
  <2>1. {"execute", "record"} \subseteq Stages
    BY Members
  <2>2. QED
    BY <1>1, <1>3, <2>1 DEF CallState
<1>5. Becomes(c, s) /\ db' = db /\ faults' = faults
  BY DEF CliConfirmed
<1>6. Gates(request[c], s)
  BY <1>1, <1>2, <1>3
  DEF IInv, CallInv, Gates, CallState, Executing, Recording, AuthorisedBy
<1>7. QED
  BY <1>1, <1>4, <1>5, <1>6, StepOfCall

\* What confirmWithAudit does keeps the invariant.
LEMMA ConfirmKeeps ==
  ASSUME IInv, NEW c \in Calls,
         \/ DryRun(c) \/ DryRunInvalid(c) \/ PromptCli(c)
         \/ ConfirmCliByPolicy(c) \/ ConfirmCliAssumeYes(c) \/ AnswerPrompt(c)
  PROVE  IInv'
<1>1. /\ call[c] \in CallState
      /\ request[c] \in Requests
      /\ faults \in 0..MaxFaults
      /\ call[c].pc \in {"confirm", "prompt"} =>
           call[c].policy \in Policies /\ request[c].channel = "cli"
  BY DEF IInv, TypeOK, CallInv, Gates
<1>2. CASE DryRun(c)
  <2>1. DryRunEvent(c) \in AuditEvent
    BY <1>1, <1>2, RequestTyped, OtherEventsTyped DEF DryRun, At, Decision
  <2>2. QED
    BY <1>2, <2>1, RecordKeeps DEF DryRun, At
<1>3. CASE DryRunInvalid(c)
  BY <1>1, <1>3, ReturnKeeps DEF DryRunInvalid, At, Replies
<1>4. CASE PromptCli(c)
  <2>1. Gates(request[c], [call[c] EXCEPT !.pc = "prompt"])
    BY <1>1, <1>4 DEF PromptCli, At, Decision, IInv, CallInv, Gates, CallState,
                      Executing, Recording, AuthorisedBy
  <2>2. QED
    BY <1>1, <1>4, <2>1, GotoKeeps, Members DEF PromptCli, At
<1>5. CASE ConfirmCliByPolicy(c)
  <2>1. CASE Decision(c) = "allow" /\ CliConfirmed(c, "approved", FALSE)
    BY <1>1, <1>5, <2>1, CliConfirmedKeeps, Members
    DEF ConfirmCliByPolicy, At, Decision, AuthorisedBy, CallState
  <2>2. CASE Decision(c) = "deny" /\ CliConfirmed(c, "denied", FALSE)
    BY <1>5, <2>2, CliConfirmedKeeps, Members DEF ConfirmCliByPolicy, At
  <2>3. QED
    BY <1>5, <2>1, <2>2 DEF ConfirmCliByPolicy
<1>6. CASE ConfirmCliAssumeYes(c)
  <2> DEFINE status == IF HasManualOnlyRisk(request[c]) THEN "rejected" ELSE "approved"
  <2>1. status \in ConfirmationStatuses
    BY Members
  <2>2. status = "approved" =>
          AuthorisedBy(request[c], [call[c] EXCEPT !.prompted = FALSE])
    BY <1>1, <1>6 DEF ConfirmCliAssumeYes, At, Decision, AuthorisedBy, CallState
  <2>3. /\ CliConfirmed(c, status, FALSE)
        /\ call[c].pc \in {"confirm", "prompt"}
        /\ ~ request[c].dryRun
    BY <1>6 DEF ConfirmCliAssumeYes, At
  <2> HIDE DEF status
  <2>4. QED
    BY <2>1, <2>2, <2>3, CliConfirmedKeeps
<1>7. CASE AnswerPrompt(c)
  <2>1. PICK status \in {"approved", "rejected"} : CliConfirmed(c, status, TRUE)
    BY <1>7 DEF AnswerPrompt
  <2>2. AuthorisedBy(request[c], [call[c] EXCEPT !.prompted = TRUE])
    BY <1>1, <1>7 DEF AnswerPrompt, At, IInv, CallInv, Gates, AuthorisedBy, CallState
  <2>3. ~ request[c].dryRun /\ call[c].pc \in {"confirm", "prompt"}
    BY <1>7 DEF AnswerPrompt, At, IInv, CallInv, Gates
  <2>4. status \in ConfirmationStatuses
    BY Members
  <2>5. QED
    BY <2>1, <2>2, <2>3, <2>4, CliConfirmedKeeps
<1>8. QED
  BY <1>2, <1>3, <1>4, <1>5, <1>6, <1>7

\* A tool call up to the record of its confirmation.
LEMMA CallMcpKeeps ==
  ASSUME IInv, NEW c \in Calls, CallMcp(c) \/ CallMcpUnknownTool(c)
  PROVE  IInv'
<1>1. CASE CallMcp(c)
  <2> DEFINE decision == PolicyDecision(session, request[c])
             status   == McpConfirmation(decision)
             s        == [call[c] EXCEPT !.policy = session,
                                         !.confirmation = status,
                                         !.pc = "record",
                                         !.event = ConfirmationEvent(decision, status)]
  <2>1. /\ call[c] = NewCall
        /\ call[c] \in CallState
        /\ faults \in 0..MaxFaults
        /\ request[c] \in Requests
        /\ session \in Policies
        /\ request[c].channel = "mcp"
        /\ ~ request[c].dryRun
    BY <1>1, InvocationAssumption DEF CallMcp, At, IInv, CallInv, Gates, TypeOK
  <2>2. decision \in Decisions
    BY <2>1, RequestTyped
  <2>3. status \in ConfirmationStatuses /\ (status = "approved" => decision = "allow")
    BY <2>2, Members DEF McpConfirmation
  <2>4. ConfirmationEvent(decision, status) \in AuditEvent
    BY <2>2, <2>3, ConfirmationEventTyped
  <2>5. Becomes(c, s) /\ db' = db /\ faults' = faults
    BY <1>1 DEF CallMcp
  <2> HIDE DEF decision, status
  <2>6. s \in CallState
    <3>1. "record" \in Stages
      BY Members
    <3>2. QED
      BY <2>1, <2>3, <2>4, <3>1 DEF CallState
  <2>7. Gates(request[c], s)
    BY <2>1, <2>3, <2>4 DEF decision, NewCall, Gates, Executing, Recording, AuthorisedBy
  <2>8. call[c].pc = "idle"
    BY <2>1 DEF NewCall
  <2>9. QED
    BY <2>1, <2>5, <2>6, <2>7, <2>8, StepOfCall
<1>2. CASE CallMcpUnknownTool(c)
  BY <1>2, ReturnKeeps DEF CallMcpUnknownTool, At, Replies, IInv, TypeOK
<1>3. QED
  BY <1>1, <1>2

\* executeHttpCapability before the preflight.
LEMMA PlanKeeps ==
  ASSUME IInv, NEW c \in Calls, PlanFails(c) \/ OutboundBlocks(c) \/ OutboundAllows(c)
  PROVE  IInv'
<1>1. call[c] \in CallState /\ faults \in 0..MaxFaults
  BY DEF IInv, TypeOK
<1>2. CASE PlanFails(c)
  BY <1>1, <1>2, ReturnKeeps DEF PlanFails, At, Replies
<1>3. CASE OutboundBlocks(c)
  BY <1>3, OtherEventsTyped, RecordKeeps DEF OutboundBlocks, At, HttpStatuses, Executing
<1>4. CASE OutboundAllows(c)
  <2> DEFINE pc == IF RequiresAuditPreflight(request[c]) THEN "preflight" ELSE "send"
  <2>1. Gates(request[c], [call[c] EXCEPT !.pc = pc])
    BY <1>1, <1>4
    DEF OutboundAllows, At, IInv, CallInv, Gates, CallState, Executing, Recording, AuthorisedBy
  <2>2. pc \in Stages
    BY Members
  <2>3. Goto(c, pc) /\ call[c].pc = "execute"
    BY <1>4 DEF OutboundAllows, At
  <2> HIDE DEF pc
  <2>4. QED
    BY <2>1, <2>2, <2>3, GotoKeeps
<1>5. QED
  BY <1>2, <1>3, <1>4

\* The audit preflight: the lock is taken for its transaction only.
LEMMA PreflightKeeps ==
  ASSUME IInv, NEW c \in Calls,
         \/ PreflightBegin(c) \/ PreflightBusy(c) \/ PreflightFault(c) \/ PreflightRollback(c)
  PROVE  IInv'
<1>1. call[c] \in CallState /\ faults \in 0..MaxFaults /\ TypeOK
  BY DEF IInv, TypeOK
<1>2. CASE PreflightBegin(c)
  <2> DEFINE s == [call[c] EXCEPT !.pc = "preflighting"]
  <2>1. s \in CallState
    BY <1>1, Members DEF CallState
  <2>2. Gates(request[c], s)
    BY <1>1, <1>2
    DEF PreflightBegin, At, IInv, CallInv, Gates, CallState, Executing, Recording, AuthorisedBy
  <2>3. Becomes(c, s) /\ db' = c /\ faults' = faults
    BY <1>2 DEF PreflightBegin
  <2>4. s.pc = "preflighting"
    BY <1>1 DEF CallState
  <2>5. QED
    BY <1>1, <2>1, <2>2, <2>3, <2>4, StepOfCall
<1>3. CASE PreflightBusy(c) \/ PreflightFault(c)
  <2> DEFINE s == [call[c] EXCEPT !.pc = "done", !.result = "audit_failed",
                                  !.reply = EnvelopeStatus("audit_failed")]
  <2>1. "done" \in Stages /\ "audit_failed" \in HttpStatuses
    BY Members DEF HttpStatuses
  <2>2. s \in CallState
    BY <1>1, <2>1, RepliesTyped DEF CallState
  <2>3. Gates(request[c], s)
    BY <1>1, <1>3
    DEF PreflightBusy, PreflightFault, At, IInv, CallInv, Gates, CallState, Executing,
        Recording, AuthorisedBy
  <2>4. Becomes(c, s) /\ faults' \in 0..MaxFaults
    BY <1>1, <1>3, FaultTyped DEF PreflightBusy, PreflightFault, AuditFailed
  <2>5. db' = Unlocked \/ (db' = db /\ call[c].pc = "preflight")
    BY <1>3 DEF PreflightBusy, PreflightFault, At
  <2>6. QED
    BY <2>2, <2>3, <2>4, <2>5, StepOfCall
<1>4. CASE PreflightRollback(c)
  <2> DEFINE s == [call[c] EXCEPT !.pc = "send", !.audited = TRUE]
  <2>1. s \in CallState
    BY <1>1, Members DEF CallState
  <2>2. Gates(request[c], s)
    BY <1>1, <1>4
    DEF PreflightRollback, At, IInv, CallInv, Gates, CallState, Executing, Recording, AuthorisedBy
  <2>3. Becomes(c, s) /\ db' = Unlocked /\ faults' = faults
    BY <1>4 DEF PreflightRollback
  <2>4. QED
    BY <1>1, <2>1, <2>2, <2>3, StepOfCall
<1>5. QED
  BY <1>2, <1>3, <1>4

\* The secret, the request, the provider and the end of the fetch.
LEMMA RequestKeeps ==
  ASSUME IInv, NEW c \in Calls,
         \/ SecretMissing(c) \/ SecretUnsupported(c) \/ SendRequest(c) \/ ProviderActs(c)
         \/ \E result \in HttpStatuses : FetchEnds(c, result)
  PROVE  IInv'
<1>1. call[c] \in CallState /\ faults \in 0..MaxFaults
  BY DEF IInv, TypeOK
<1>2. CASE SecretMissing(c)
  BY <1>2, ExecutionEventTyped, RecordKeeps DEF SecretMissing, At, HttpStatuses, Executing
<1>3. CASE SecretUnsupported(c)
  BY <1>1, <1>3, ReturnKeeps DEF SecretUnsupported, At, Replies
<1>4. CASE SendRequest(c)
  <2> DEFINE s == [call[c] EXCEPT !.pc = "fetch", !.net = "sent"]
  <2>1. s \in CallState
    <3>1. "fetch" \in Stages /\ "sent" \in NetStates
      BY Members
    <3>2. QED
      BY <1>1, <3>1 DEF CallState
  <2>2. Gates(request[c], s)
    BY <1>1, <1>4
    DEF SendRequest, At, IInv, CallInv, Gates, CallState, Executing, Recording, AuthorisedBy
  <2>3. Becomes(c, s) /\ db' = db /\ faults' = faults /\ call[c].pc = "send"
    BY <1>4 DEF SendRequest, At
  <2>4. QED
    BY <1>1, <2>1, <2>2, <2>3, StepOfCall
<1>5. CASE ProviderActs(c)
  <2>1. PICK net \in {"performed", "refused"} : Becomes(c, [call[c] EXCEPT !.net = net])
    BY <1>5 DEF ProviderActs
  <2> DEFINE s == [call[c] EXCEPT !.net = net]
  <2>2. net \in NetStates
    BY Members
  <2>3. s \in CallState /\ s.pc = call[c].pc
    BY <1>1, <2>2 DEF CallState
  <2>4. Gates(request[c], s)
    BY <1>1, <1>5
    DEF ProviderActs, NewCall, IInv, CallInv, Gates, CallState, Executing, Recording, AuthorisedBy
  <2>5. db' = db /\ faults' = faults
    BY <1>5 DEF ProviderActs
  <2>6. QED
    BY <1>1, <2>1, <2>3, <2>4, <2>5, StepOfCall
<1>6. CASE \E result \in HttpStatuses : FetchEnds(c, result)
  <2>1. PICK result \in HttpStatuses : FetchEnds(c, result)
    BY <1>6
  <2>2. QED
    BY <2>1, ExecutionEventTyped, RecordKeeps DEF FetchEnds, At, Executing
<1>7. QED
  BY <1>2, <1>3, <1>4, <1>5, <1>6

\* The record and its ledger shadow.
LEMMA RecordStepKeeps ==
  ASSUME IInv, NEW c \in Calls,
         \/ RecordBegin(c) \/ RecordBusy(c) \/ RecordFault(c) \/ RecordCommit(c)
         \/ LedgerAppend(c) \/ LedgerFault(c)
  PROVE  IInv'
<1>1. /\ call[c] \in CallState
      /\ faults \in 0..MaxFaults
      /\ TypeOK
      /\ call[c].pc \in Recording => call[c].event \in AuditEvent
  BY DEF IInv, TypeOK, CallInv, Gates
<1>2. CASE RecordBegin(c)
  <2> DEFINE s == [call[c] EXCEPT !.pc = "recording"]
  <2>1. s \in CallState /\ s.pc = "recording"
    BY <1>1, Members DEF CallState
  <2>2. Gates(request[c], s)
    BY <1>1, <1>2
    DEF RecordBegin, At, IInv, CallInv, Gates, CallState, Executing, Recording, AuthorisedBy
  <2>3. Becomes(c, s) /\ db' = c /\ faults' = faults
    BY <1>2 DEF RecordBegin
  <2>4. QED
    BY <1>1, <2>1, <2>2, <2>3, StepOfCall
<1>3. CASE RecordBusy(c)
  BY <1>1, <1>3, ReturnKeeps DEF RecordBusy, At, Replies
<1>4. CASE RecordFault(c)
  BY <1>1, <1>4, ReturnKeeps, FaultTyped DEF RecordFault, Replies
<1>5. CASE RecordCommit(c)
  <2> DEFINE s == [call[c] EXCEPT !.pc = "ledger", !.rows = Append(@, call[c].event)]
  <2>1. Append(call[c].rows, call[c].event) \in Seq(AuditEvent)
    <3>1. call[c].rows \in Seq(AuditEvent) /\ call[c].event \in AuditEvent
      BY <1>1, <1>5 DEF RecordCommit, At, Recording, CallState
    <3>2. QED
      BY ONLY <3>1
  <2>2. s \in CallState
    <3>1. "ledger" \in Stages
      BY Members
    <3>2. QED
      BY <1>1, <2>1, <3>1 DEF CallState
  <2>3. Gates(request[c], s)
    BY <1>1, <1>5
    DEF RecordCommit, At, IInv, CallInv, Gates, CallState, Executing, Recording, AuthorisedBy
  <2>4. Becomes(c, s) /\ db' = Unlocked /\ faults' = faults
    BY <1>5 DEF RecordCommit
  <2>5. QED
    BY <1>1, <2>2, <2>3, <2>4, StepOfCall
<1>6. CASE LedgerAppend(c)
  <2> DEFINE s == [call[c] EXCEPT
                !.ledger = Append(@, InvocationLedgerStatus(call[c].event)),
                !.event = NoEvent,
                !.pc = IF ToExecute(c) THEN "execute" ELSE "done",
                !.reply = IF ToExecute(c) THEN "none" ELSE Answer(c)]
  <2>1. Append(call[c].ledger, InvocationLedgerStatus(call[c].event)) \in Seq(LedgerStatuses)
    <3>1. /\ call[c].ledger \in Seq(LedgerStatuses)
          /\ InvocationLedgerStatus(call[c].event) \in LedgerStatuses
      BY <1>1, <1>6, LedgerStatusTyped DEF LedgerAppend, At, Recording, CallState
    <3>2. QED
      BY ONLY <3>1
  <2>2. Answer(c) \in Replies /\ "none" \in Replies
    BY <1>1, RepliesTyped DEF CallState, Replies
  <2>3. s \in CallState
    <3>1. {"execute", "done"} \subseteq Stages
      BY Members
    <3>2. QED
      BY <1>1, <2>1, <2>2, <3>1 DEF CallState
  <2>4. Gates(request[c], s)
    BY <1>1, <1>6
    DEF LedgerAppend, ToExecute, At, IInv, CallInv, Gates, CallState, Executing, Recording,
        AuthorisedBy
  <2>5. Becomes(c, s) /\ db' = db /\ faults' = faults /\ call[c].pc = "ledger"
    BY <1>6 DEF LedgerAppend, At
  <2>6. QED
    BY <1>1, <2>3, <2>4, <2>5, StepOfCall
<1>7. CASE LedgerFault(c)
  BY <1>1, <1>7, ReturnKeeps, FaultTyped DEF LedgerFault, At, Replies
<1>8. QED
  BY <1>2, <1>3, <1>4, <1>5, <1>6, <1>7

-----------------------------------------------------------------------------
(* Crashes, the rest of the environment, and the theorems.                 *)

\* A process that dies leaves no lock and takes no call past a gate.
LEMMA DieKeeps ==
  ASSUME IInv, NEW cs \in SUBSET Calls, Die(cs), session' \in Policies \cup {NoPolicy}
  PROVE  IInv'
<1>1. \A c \in Calls : call'[c] = IF c \in cs THEN [call[c] EXCEPT !.pc = "crashed"] ELSE call[c]
  BY DEF Die
<1>2. \A c \in Calls : call[c] \in CallState
  BY DEF IInv, TypeOK
<1>3. \A c \in Calls : call'[c] \in CallState
  <2>1. "crashed" \in Stages
    BY Members
  <2>2. ASSUME NEW c \in Calls PROVE [call[c] EXCEPT !.pc = "crashed"] \in CallState
    BY <1>2, <2>1 DEF CallState
  <2>3. QED
    BY <1>1, <1>2, <2>2
<1>4. TypeOK'
  <2>1. call' \in [Calls -> CallState]
    BY <1>3 DEF Die
  <2>2. crashes' \in 0..MaxCrashes
    BY InvocationAssumption DEF Die, IInv, TypeOK
  <2>3. QED
    BY <2>1, <2>2 DEF Die, IInv, TypeOK
<1>5. ASSUME NEW c \in Calls PROVE CallInv(c)'
  <2>1. CallInv(c) /\ request' = request
    BY DEF IInv, Die
  <2>2. CASE c \in cs
    BY <1>1, <1>2, <2>1, <2>2
    DEF CallInv, Gates, CallState, Executing, Recording, AuthorisedBy
  <2>3. CASE c \notin cs
    BY <1>1, <2>1, <2>3 DEF CallInv
  <2>4. QED
    BY <2>2, <2>3
<1>6. NoLockLeaks'
  BY <1>1 DEF Die, IInv, TypeOK, NoLockLeaks
<1>7. QED
  BY <1>4, <1>5, <1>6 DEF IInv

\* The invariant holds before any call begins.
LEMMA InitEstablishes == Init => IInv
<1> SUFFICES ASSUME Init PROVE IInv
  OBVIOUS
<1>1. NewCall \in CallState
  <2>1. "idle" \in Stages /\ "unsent" \in NetStates
    BY Members
  <2>2. "none" \in Replies
    BY DEF Replies
  <2>3. <<>> \in Seq(AuditEvent) /\ <<>> \in Seq(LedgerStatuses)
    OBVIOUS
  <2>4. QED
    BY <2>1, <2>2, <2>3 DEF NewCall, CallState
<1>2. TypeOK
  BY <1>1, InvocationAssumption DEF Init, TypeOK
<1>3. \A c \in Calls : CallInv(c)
  BY DEF Init, CallInv, Gates, NewCall, Executing, Recording
<1>4. NoLockLeaks
  BY DEF Init, NoLockLeaks
<1>5. QED
  BY <1>2, <1>3, <1>4 DEF IInv

\* Every step of every process keeps the invariant.
LEMMA StepPreserves == IInv /\ [Next]_vars => IInv'
<1> SUFFICES ASSUME IInv, [Next]_vars PROVE IInv'
  OBVIOUS
<1>1. CASE EditPolicy
  <2>1. TypeOK'
    BY <1>1, InvocationAssumption DEF EditPolicy, IInv, TypeOK
  <2>2. QED
    BY <1>1, <2>1 DEF EditPolicy, IInv, CallInv, NoLockLeaks
<1>2. CASE StartServer
  <2>1. TypeOK'
    BY <1>2 DEF StartServer, IInv, TypeOK
  <2>2. QED
    BY <1>2, <2>1 DEF StartServer, IInv, CallInv, NoLockLeaks
<1>3. CASE CrashServer
  BY <1>3, DieKeeps DEF CrashServer
<1>4. ASSUME NEW c \in Calls, ProgramStep(c) PROVE IInv'
  <2>1. CASE \/ DryRun(c) \/ DryRunInvalid(c) \/ PromptCli(c)
             \/ ConfirmCliByPolicy(c) \/ ConfirmCliAssumeYes(c)
    BY <2>1, ConfirmKeeps
  <2>2. CASE PlanFails(c) \/ OutboundBlocks(c) \/ OutboundAllows(c)
    BY <2>2, PlanKeeps
  <2>3. CASE PreflightBegin(c) \/ PreflightBusy(c) \/ PreflightFault(c) \/ PreflightRollback(c)
    BY <2>3, PreflightKeeps
  <2>4. CASE SecretMissing(c) \/ SecretUnsupported(c) \/ SendRequest(c)
    BY <2>4, RequestKeeps
  <2>5. CASE FetchSuccess(c) \/ FetchHttpError(c) \/ FetchTimeout(c)
    <3>1. \E result \in HttpStatuses : FetchEnds(c, result)
      BY <2>5 DEF FetchSuccess, FetchHttpError, FetchTimeout, HttpStatuses
    <3>2. QED
      BY <3>1, RequestKeeps
  <2>6. CASE \/ RecordBegin(c) \/ RecordBusy(c) \/ RecordFault(c) \/ RecordCommit(c)
             \/ LedgerAppend(c) \/ LedgerFault(c)
    BY <2>6, RecordStepKeeps
  <2>7. QED
    BY <1>4, <2>1, <2>2, <2>3, <2>4, <2>5, <2>6 DEF ProgramStep
<1>5. ASSUME NEW c \in Calls, EnvironmentStep(c) PROVE IInv'
  <2>1. CASE InvokeCli(c) \/ InvokeCliInvalid(c) \/ InvokeCliNoDatabase(c)
    BY <2>1, InvokeKeeps
  <2>2. CASE CallMcp(c) \/ CallMcpUnknownTool(c)
    BY <2>2, CallMcpKeeps
  <2>3. CASE AnswerPrompt(c)
    BY <2>3, ConfirmKeeps
  <2>4. CASE ProviderActs(c)
    BY <2>4, RequestKeeps
  <2>5. CASE CrashCli(c)
    BY <2>5, DieKeeps DEF CrashCli, IInv, TypeOK
  <2>6. CASE FetchNetworkError(c)
    BY <2>6, RequestKeeps DEF FetchNetworkError, HttpStatuses
  <2>7. QED
    BY <1>5, <2>1, <2>2, <2>3, <2>4, <2>5, <2>6 DEF EnvironmentStep
<1>6. CASE UNCHANGED vars
  BY <1>6 DEF vars, IInv, TypeOK, CallInv, NoLockLeaks
<1>7. QED
  BY <1>1, <1>2, <1>3, <1>4, <1>5, <1>6 DEF Next

\* The invocations keep their types, whatever the requests, policies and bounds.
THEOREM InvocationTypes == Spec => []TypeOK
<1>1. IInv => TypeOK
  BY DEF IInv
<1>2. QED
  BY <1>1, InitEstablishes, StepPreserves, PTL DEF Spec

\* No request ever leaves without authority: not as a dry run, not against the
\* policy, not without a person where the policy asks, not to a blocked target, not
\* without its secret, and not, if it does more than read, without the preflight.
THEOREM RequestsHaveAuthority == Spec => []NoRequestWithoutAuthority
<1>1. IInv => NoRequestWithoutAuthority
  BY DEF IInv, CallInv, Gates, NoRequestWithoutAuthority, Sent, Authorised, AuthorisedBy, Decision
<1>2. QED
  BY <1>1, InitEstablishes, StepPreserves, PTL DEF Spec

\* The audit database is never left locked.
THEOREM LockIsReleased == Spec => []NoLockLeaks
<1>1. IInv => NoLockLeaks
  BY DEF IInv
<1>2. QED
  BY <1>1, InitEstablishes, StepPreserves, PTL DEF Spec


-----------------------------------------------------------------------------
(* What is written of a call.                                               *)

\* Answer, of a request and a call state.
AnswerTo(r, s) ==
  IF s.result # "none" THEN EnvelopeStatus(s.result)
  ELSE CASE r.dryRun -> "dry_run"
         [] s.confirmation = "confirmation_required" -> "confirmation_required"
         [] s.confirmation = "denied" /\ r.channel = "mcp" -> "denied"
         [] OTHER -> "blocked"

\* The event is the approval of a tool call, which goes on after it.
GoesOn(r, s) == r.channel = "mcp" /\ s.confirmation = "approved" /\ s.result = "none"

\* A row says nothing that is not so: it names no effect, answer or request there was
\* not, no refusal of a request that was sent, and no consent that nobody gave.
RowFits(r, s, row) ==
  /\ row.status # "executed" => s.net = "unsent"
  /\ row.outcome = "success" => s.net = "performed"
  /\ row.responded => s.net \in {"performed", "refused"}
  /\ row.started => s.net # "unsent"
  /\ row.consent = "approved" =>
       /\ r.channel = "cli"
       /\ PolicyDecision(s.policy, r) = "ask"
       /\ s.confirmation = "approved"
       /\ AuthorisedBy(r, s)

\* The event to be recorded is that of the call: the confirmation of one that goes on,
\* or what it is to be answered.
EventFits(r, s) ==
  /\ RowFits(r, s, s.event)
  /\ s.result = "none" =>
       /\ s.net = "unsent"
       /\ s.confirmation = "approved" => r.channel = "mcp"
  /\ s.result # "none" => s.result \in HttpStatuses \ {"audit_failed"}
  /\ (s.result # "none" /\ RequestStarted(s.result)) =>
       s.net # "unsent" /\ s.event.outcome # "none"
  /\ (s.result # "none" /\ ~ RequestStarted(s.result)) => s.net = "unsent"
  /\ s.result = "success" => s.net = "performed"
  /\ IF GoesOn(r, s)
     THEN /\ s.event.status = "executed"
          /\ s.event.outcome = "none"
          /\ s.event.confirmation = "approved"
     ELSE AnswerTo(r, s) \in RowAnswer(s.event)

Last(rows) == rows[Len(rows)]

Confirmed(s) ==
  s.rows # <<>> /\ s.ledger # <<>> /\ s.rows[1].confirmation = "approved"

\* The rows and the ledger records of a call.
Written(r, s) ==
  /\ \A i \in 1..Len(s.rows) : RowFits(r, s, s.rows[i])
  /\ Len(s.ledger) \in {Len(s.rows), Len(s.rows) - 1}
  /\ \A i \in 1..Len(s.ledger) : s.ledger[i] = InvocationLedgerStatus(s.rows[i])
  /\ s.pc = "ledger" => Len(s.ledger) = Len(s.rows) - 1 /\ Last(s.rows) = s.event
  /\ Len(s.ledger) < Len(s.rows) => s.pc \in {"ledger", "crashed"} \/ s.reply = "error"

\* How far a call in state s with request r has come and what is written of it.
Trail(r, s) ==
  /\ s.pc # "done" => s.reply = "none"
  /\ s.pc = "done" => s.reply # "none"
  /\ s.pc \in {"idle", "confirm", "prompt"} =>
       s.rows = <<>> /\ s.ledger = <<>> /\ s.result = "none" /\ s.net = "unsent"
  /\ s.pc \in Executing =>
       /\ s.result = "none"
       /\ s.pc # "fetch" => s.net = "unsent"
       /\ \A i \in 1..Len(s.rows) : s.rows[i].status = "executed" /\ s.rows[i].outcome = "none"
  /\ s.pc \in Recording => EventFits(r, s)
  /\ (s.pc \in {"record", "recording"} /\ s.result = "none") => s.rows = <<>>
  /\ (s.pc = "ledger" /\ s.result = "none") => Len(s.rows) = 1
  /\ (r.channel = "mcp" /\ (s.pc \in Executing \/ s.net # "unsent")) => Confirmed(s)
  /\ s.reply = "tool_not_found" => ~ r.installed
  /\ (s.reply \notin {"none", "error", "tool_not_found"} /\ s.result # "audit_failed") =>
       /\ s.rows # <<>>
       /\ s.reply \in RowAnswer(Last(s.rows))
       /\ Len(s.ledger) = Len(s.rows)
  /\ Written(r, s)

Trails == \A c \in Calls : Trail(request[c], call[c])


-----------------------------------------------------------------------------
(* One step of one call.                                                   *)

\* A call that takes a state with a trail leaves the other calls theirs.
LEMMA TrailOfCall ==
  ASSUME IInv, Trails, NEW c \in Calls, NEW s, Becomes(c, s), Trail(request[c], s)
  PROVE  Trails'
<1>1. /\ request' = request
      /\ call'[c] = s
      /\ \A d \in Calls \ {c} : call'[d] = call[d]
  BY DEF IInv, TypeOK, Becomes
<1>2. QED
  BY <1>1 DEF Trails

\* What the types say of one call.
LEMMA CallTyped ==
  ASSUME IInv, NEW c \in Calls
  PROVE  /\ call[c] \in CallState
         /\ request[c] \in Requests
         /\ Gates(request[c], call[c])
         /\ call[c].rows \in Seq(AuditEvent)
         /\ call[c].ledger \in Seq(LedgerStatuses)
         /\ Len(call[c].rows) \in Nat
         /\ Len(call[c].ledger) \in Nat
<1>1. call[c] \in CallState /\ request[c] \in Requests /\ Gates(request[c], call[c])
  BY DEF IInv, TypeOK, CallInv
<1>2. call[c].rows \in Seq(AuditEvent) /\ call[c].ledger \in Seq(LedgerStatuses)
  BY <1>1 DEF CallState
<1>3. QED
  BY <1>1, <1>2

\* An exception ends a call and leaves what is written as it is.
LEMMA ErrorTrail ==
  ASSUME IInv, Trails, NEW c \in Calls, Return(c, "error")
  PROVE  Trails'
<1> DEFINE s == [call[c] EXCEPT !.pc = "done", !.reply = "error"]
<1>1. /\ call[c] \in CallState
      /\ Trail(request[c], call[c])
  BY CallTyped DEF Trails
<1>2. Trail(request[c], s)
  BY <1>1 DEF Trail, Written, Last, Confirmed, RowFits, AuthorisedBy, Executing, Recording, CallState
<1>3. Becomes(c, s)
  BY DEF Return
<1>4. QED
  BY <1>2, <1>3, TrailOfCall

\* A call that moves on between two gates has written nothing new.
LEMMA GotoTrail ==
  ASSUME IInv, Trails, NEW c \in Calls,
         NEW pc \in {"prompt", "preflight", "preflighting", "send", "recording"},
         Becomes(c, [call[c] EXCEPT !.pc = pc]),
         \/ pc = "prompt" /\ call[c].pc = "confirm"
         \/ pc = "recording" /\ call[c].pc = "record"
         \/ pc \in Executing /\ call[c].pc \in Executing \ {"fetch"}
  PROVE  Trails'
<1> DEFINE s == [call[c] EXCEPT !.pc = pc]
<1>1. call[c] \in CallState /\ Trail(request[c], call[c])
  BY CallTyped DEF Trails
<1>2. Trail(request[c], s)
  BY <1>1
  DEF Trail, Written, EventFits, GoesOn, AnswerTo, Last, Confirmed, RowFits, AuthorisedBy,
      Executing, Recording, CallState
<1>3. QED
  BY <1>2, TrailOfCall

\* An event that fits the call is to be recorded.
LEMMA RecordTrail ==
  ASSUME IInv, Trails, NEW c \in Calls, NEW result \in HttpStatuses \cup {"none"},
         NEW event \in AuditEvent, Record(c, result, event),
         call[c].pc \in ({"confirm"} \cup Executing) \ {"preflighting"},
         call[c].pc # "confirm" => result # "none",
         EventFits(request[c],
                   [call[c] EXCEPT !.pc = "record", !.result = result, !.event = event])
  PROVE  Trails'
<1> DEFINE s == [call[c] EXCEPT !.pc = "record", !.result = result, !.event = event]
<1>1. call[c] \in CallState /\ Trail(request[c], call[c])
  BY CallTyped DEF Trails
<1>2. Trail(request[c], s)
  BY <1>1
  DEF Trail, Written, Last, Confirmed, RowFits, AuthorisedBy, Executing, Recording, CallState
<1>3. Becomes(c, s)
  BY DEF Record
<1>4. QED
  BY <1>2, <1>3, TrailOfCall

-----------------------------------------------------------------------------
(* The steps, stage by stage.                                              *)

\* `opencap invoke' up to the confirmation.
LEMMA InvokeTrail ==
  ASSUME IInv, Trails, NEW c \in Calls,
         InvokeCli(c) \/ InvokeCliInvalid(c) \/ InvokeCliNoDatabase(c)
  PROVE  Trails'
<1>1. CASE InvokeCli(c)
  <2> DEFINE s == [call[c] EXCEPT !.pc = "confirm", !.policy = policyFile]
  <2>1. call[c] \in CallState /\ Trail(request[c], call[c]) /\ call[c].pc = "idle"
    BY <1>1, CallTyped DEF Trails, InvokeCli, At
  <2>2. Trail(request[c], s)
    BY <2>1 DEF Trail, Written, Last, Confirmed, Executing, Recording, CallState
  <2>3. Becomes(c, s)
    BY <1>1 DEF InvokeCli
  <2>4. QED
    BY <2>2, <2>3, TrailOfCall
<1>2. CASE InvokeCliInvalid(c) \/ InvokeCliNoDatabase(c)
  BY <1>2, ErrorTrail DEF InvokeCliInvalid, InvokeCliNoDatabase
<1>3. QED
  BY <1>1, <1>2

\* The confirmation of the CLI: an approved call has nothing recorded, another one is
\* recorded as what it is answered.
LEMMA CliConfirmedTrail ==
  ASSUME IInv, Trails, NEW c \in Calls, NEW status \in ConfirmationStatuses,
         NEW prompted \in BOOLEAN,
         CliConfirmed(c, status, prompted), call[c].pc \in {"confirm", "prompt"},
         ~ request[c].dryRun
  PROVE  Trails'
<1> DEFINE s == [call[c] EXCEPT
              !.confirmation = status,
              !.prompted = prompted,
              !.pc = IF status = "approved" THEN "execute" ELSE "record",
              !.event = IF status = "approved" THEN NoEvent
                        ELSE ConfirmationEvent(Decision(c), status)]
<1>1. /\ call[c] \in CallState
      /\ Trail(request[c], call[c])
      /\ Gates(request[c], call[c])
  BY CallTyped DEF Trails
<1>2. request[c].channel = "cli"
  BY <1>1 DEF Gates
<1>3. CASE status = "approved"
  <2>1. Trail(request[c], s)
    BY <1>1, <1>2, <1>3
    DEF Trail, Written, Last, Confirmed, Executing, Recording, CallState
  <2>2. QED
    BY <2>1, TrailOfCall DEF CliConfirmed
<1>4. CASE status # "approved"
  <2> DEFINE event == ConfirmationEvent(Decision(c), status)
  <2>1. /\ event.status \in {"blocked", "denied"}
        /\ event.outcome = "none"
        /\ event.started = FALSE
        /\ event.responded = FALSE
        /\ event.consent # "approved"
    BY <1>4 DEF ConfirmationEvent, AuditStatusFromConfirmation, ConsentDecision,
                ConfirmationStatuses
  <2>2. RowAnswer(event) = {"blocked", "denied", "confirmation_required"}
    BY <2>1 DEF RowAnswer
  <2> HIDE DEF event
  <2> DEFINE t == [call[c] EXCEPT !.confirmation = status, !.prompted = prompted,
                                  !.pc = "record", !.event = event]
  <2>3. s = t
    BY <1>4 DEF event
  <2>4. EventFits(request[c], t)
    BY <1>1, <1>2, <1>4, <2>1, <2>2
    DEF EventFits, RowFits, GoesOn, AnswerTo, Trail, CallState
  <2>5. Trail(request[c], t)
    BY <1>1, <1>2, <2>4
    DEF Trail, Written, Last, Confirmed, Executing, Recording, CallState
  <2>6. QED
    BY <2>3, <2>5, TrailOfCall DEF CliConfirmed
<1>5. QED
  BY <1>3, <1>4

\* A dry run and the stages of the confirmation keep every trail.
LEMMA ConfirmTrail ==
  ASSUME IInv, Trails, NEW c \in Calls,
         \/ DryRun(c) \/ DryRunInvalid(c) \/ PromptCli(c)
         \/ ConfirmCliByPolicy(c) \/ ConfirmCliAssumeYes(c) \/ AnswerPrompt(c)
  PROVE  Trails'
<1>1. /\ call[c] \in CallState
      /\ request[c] \in Requests
      /\ Trail(request[c], call[c])
      /\ Gates(request[c], call[c])
  BY CallTyped DEF Trails
<1>2. CASE DryRun(c)
  <2> DEFINE event == DryRunEvent(c)
             s     == [call[c] EXCEPT !.pc = "record", !.result = "none", !.event = event]
  <2>1. event \in AuditEvent
    BY <1>1, <1>2, RequestTyped, OtherEventsTyped DEF DryRun, At, Decision, Gates
  <2>2. /\ event.status = "dry_run"
        /\ event.outcome = "none"
        /\ event.started = FALSE
        /\ event.responded = FALSE
        /\ event.consent = "none"
    BY DEF DryRunEvent
  <2>3. RowAnswer(event) = {"dry_run"}
    BY <2>2 DEF RowAnswer
  <2>4. /\ call[c].pc = "confirm"
        /\ request[c].dryRun
        /\ Record(c, "none", event)
    BY <1>2 DEF DryRun, At
  <2> HIDE DEF event
  <2>5. EventFits(request[c], s)
    BY <1>1, <2>2, <2>3, <2>4
    DEF EventFits, RowFits, GoesOn, AnswerTo, Trail, Gates, CallState
  <2>6. QED
    BY <2>1, <2>4, <2>5, RecordTrail
<1>3. CASE DryRunInvalid(c)
  BY <1>3, ErrorTrail DEF DryRunInvalid
<1>4. CASE PromptCli(c)
  BY <1>4, GotoTrail DEF PromptCli, At, Goto
<1>5. CASE ConfirmCliByPolicy(c)
  BY <1>5, CliConfirmedTrail, Members DEF ConfirmCliByPolicy, At
<1>6. CASE ConfirmCliAssumeYes(c)
  BY <1>6, CliConfirmedTrail, Members DEF ConfirmCliAssumeYes, At
<1>7. CASE AnswerPrompt(c)
  BY <1>1, <1>7, CliConfirmedTrail, Members DEF AnswerPrompt, At, Gates
<1>8. QED
  BY <1>2, <1>3, <1>4, <1>5, <1>6, <1>7

\* A tool call up to the record of its confirmation.
LEMMA CallMcpTrail ==
  ASSUME IInv, Trails, NEW c \in Calls, CallMcp(c) \/ CallMcpUnknownTool(c)
  PROVE  Trails'
<1>1. CASE CallMcp(c)
  <2> DEFINE decision == PolicyDecision(session, request[c])
             status   == McpConfirmation(decision)
             event    == ConfirmationEvent(decision, status)
             s        == [call[c] EXCEPT !.policy = session,
                                         !.confirmation = status,
                                         !.pc = "record",
                                         !.event = event]
  <2>1. /\ call[c] \in CallState
        /\ request[c] \in Requests
        /\ Trail(request[c], call[c])
        /\ call[c].pc = "idle"
        /\ request[c].channel = "mcp"
        /\ ~ request[c].dryRun
    BY <1>1, CallTyped, InvocationAssumption DEF CallMcp, At, Trails
  <2>2. Becomes(c, s) /\ session \in Policies
    BY <1>1 DEF CallMcp, IInv, TypeOK
  <2>3. decision \in Decisions
    BY <2>1, <2>2, RequestTyped
  <2>4. /\ status = "approved" => decision = "allow"
        /\ status \in {"approved", "denied", "confirmation_required"}
        /\ decision = "ask" => status = "confirmation_required"
    BY <2>3, Members DEF McpConfirmation
  <2>5. /\ event.status = IF status = "approved" THEN "executed"
                          ELSE IF status = "denied" THEN "denied" ELSE "blocked"
        /\ event.confirmation = status
        /\ event.outcome = "none"
        /\ event.started = FALSE
        /\ event.responded = FALSE
        /\ event.consent # "approved"
    BY <2>4 DEF ConfirmationEvent, AuditStatusFromConfirmation, ConsentDecision
  <2>6. status # "approved" => RowAnswer(event) = {"blocked", "denied", "confirmation_required"}
    BY <2>4, <2>5 DEF RowAnswer
  <2> HIDE DEF decision, status, event
  <2>7. EventFits(request[c], s)
    BY <2>1, <2>4, <2>5, <2>6
    DEF EventFits, RowFits, GoesOn, AnswerTo, Trail, CallState
  <2>8. Trail(request[c], s)
    BY <2>1, <2>7 DEF Trail, Written, Last, Confirmed, Executing, Recording, CallState
  <2>9. QED
    BY <2>2, <2>8, TrailOfCall
<1>2. CASE CallMcpUnknownTool(c)
  <2> DEFINE s == [call[c] EXCEPT !.pc = "done", !.reply = "tool_not_found"]
  <2>1. /\ call[c] \in CallState
        /\ Trail(request[c], call[c])
        /\ call[c].pc = "idle"
        /\ ~ request[c].installed
        /\ Becomes(c, s)
    BY <1>2, CallTyped DEF CallMcpUnknownTool, Return, At, Trails
  <2>2. Trail(request[c], s)
    BY <2>1 DEF Trail, Written, Last, Confirmed, Executing, Recording, CallState
  <2>3. QED
    BY <2>1, <2>2, TrailOfCall
<1>3. QED
  BY <1>1, <1>2

\* executeHttpCapability before the preflight.
LEMMA PlanTrail ==
  ASSUME IInv, Trails, NEW c \in Calls, PlanFails(c) \/ OutboundBlocks(c) \/ OutboundAllows(c)
  PROVE  Trails'
<1>1. CASE PlanFails(c)
  BY <1>1, ErrorTrail DEF PlanFails
<1>2. CASE OutboundBlocks(c)
  <2> DEFINE s == [call[c] EXCEPT !.pc = "record", !.result = "outbound_blocked",
                                  !.event = OutboundBlockedEvent]
  <2>1. /\ call[c] \in CallState
        /\ Trail(request[c], call[c])
        /\ call[c].pc = "execute"
    BY <1>2, CallTyped DEF OutboundBlocks, At, Trails
  <2>2. RowAnswer(OutboundBlockedEvent) = {"blocked", "denied", "confirmation_required"}
    BY DEF RowAnswer, OutboundBlockedEvent
  <2>3. EnvelopeStatus("outbound_blocked") = "blocked" /\ ~ RequestStarted("outbound_blocked")
    BY DEF EnvelopeStatus, RequestStarted
  <2>4. EventFits(request[c], s)
    BY <2>1, <2>2, <2>3
    DEF EventFits, RowFits, GoesOn, AnswerTo, Trail, Executing, CallState, HttpStatuses,
        OutboundBlockedEvent
  <2>5. OutboundBlockedEvent \in AuditEvent
    BY OtherEventsTyped
  <2>6. QED
    BY <1>2, <2>1, <2>4, <2>5, RecordTrail DEF OutboundBlocks, HttpStatuses, Executing
<1>3. CASE OutboundAllows(c)
  <2> DEFINE pc == IF RequiresAuditPreflight(request[c]) THEN "preflight" ELSE "send"
  <2>1. pc \in {"preflight", "send"} /\ Goto(c, pc) /\ call[c].pc = "execute"
    BY <1>3 DEF OutboundAllows, At
  <2> HIDE DEF pc
  <2>2. QED
    BY <2>1, GotoTrail DEF Goto, Executing
<1>4. QED
  BY <1>1, <1>2, <1>3

\* The audit preflight: a refusal is answered without a record.
LEMMA PreflightTrail ==
  ASSUME IInv, Trails, NEW c \in Calls,
         \/ PreflightBegin(c) \/ PreflightBusy(c) \/ PreflightFault(c) \/ PreflightRollback(c)
  PROVE  Trails'
<1>1. call[c] \in CallState /\ Trail(request[c], call[c])
  BY CallTyped DEF Trails
<1>2. CASE PreflightBegin(c)
  BY <1>2, GotoTrail DEF PreflightBegin, At, Executing
<1>3. CASE PreflightBusy(c) \/ PreflightFault(c)
  <2> DEFINE s == [call[c] EXCEPT !.pc = "done", !.result = "audit_failed",
                                  !.reply = EnvelopeStatus("audit_failed")]
  <2>1. EnvelopeStatus("audit_failed") = "blocked"
    BY DEF EnvelopeStatus, RequestStarted
  <2>2. call[c].pc \in {"preflight", "preflighting"} /\ Becomes(c, s)
    BY <1>3 DEF PreflightBusy, PreflightFault, AuditFailed, At
  <2>3. Trail(request[c], s)
    BY <1>1, <2>1, <2>2
    DEF Trail, Written, Last, Confirmed, RowFits, AuthorisedBy, Executing, Recording, CallState
  <2>4. QED
    BY <2>2, <2>3, TrailOfCall
<1>4. CASE PreflightRollback(c)
  <2> DEFINE s == [call[c] EXCEPT !.pc = "send", !.audited = TRUE]
  <2>1. call[c].pc = "preflighting" /\ Becomes(c, s)
    BY <1>4 DEF PreflightRollback, At
  <2>2. Trail(request[c], s)
    BY <1>1, <2>1
    DEF Trail, Written, Last, Confirmed, RowFits, AuthorisedBy, Executing, Recording, CallState
  <2>3. QED
    BY <2>1, <2>2, TrailOfCall
<1>5. QED
  BY <1>2, <1>3, <1>4

\* The event of an execution fits a call whose request was sent exactly if its result
\* says so, with the effect and the answer the result claims.
LEMMA ExecutionEventFits ==
  ASSUME NEW c \in Calls, NEW r, NEW s,
         NEW result \in HttpStatuses \ {"audit_failed", "outbound_blocked"},
         request[c] = r, call[c].policy = s.policy, call[c].confirmation = s.confirmation,
         s.event = ExecutionEvent(c, result), s.result = result,
         RequestStarted(result) <=> s.net # "unsent",
         result = "success" => s.net = "performed",
         ResponseReceived(result) => s.net \in {"performed", "refused"},
         s.confirmation = "approved", AuthorisedBy(r, s)
  PROVE  EventFits(r, s)
<1> DEFINE event == ExecutionEvent(c, result)
<1>1. /\ event.status = IF RequestStarted(result) THEN "executed" ELSE "blocked"
      /\ event.outcome = ExecutionOutcome(result)
      /\ event.started = RequestStarted(result)
      /\ event.responded = ResponseReceived(result)
      /\ event.consent = "approved" =>
           r.channel = "cli" /\ PolicyDecision(s.policy, r) = "ask"
  BY DEF ExecutionEvent, ConsentDecision, Decision
<1>2. result \in {"success", "http_error", "timeout", "network_error", "secret_missing"}
  BY DEF HttpStatuses
<1>3. RowFits(r, s, event)
  BY <1>1, <1>2 DEF RowFits, ExecutionOutcome
<1>4. EnvelopeStatus(result) \in RowAnswer(event)
  <2>1. CASE result = "success"
    BY <1>1, <2>1 DEF RowAnswer, ExecutionOutcome, EnvelopeStatus
  <2>2. CASE result \in {"http_error", "network_error"}
    BY <1>1, <2>2 DEF RowAnswer, ExecutionOutcome, EnvelopeStatus, RequestStarted
  <2>3. CASE result = "timeout"
    BY <1>1, <2>3 DEF RowAnswer, ExecutionOutcome, EnvelopeStatus
  <2>4. CASE result = "secret_missing"
    BY <1>1, <2>4 DEF RowAnswer, ExecutionOutcome, EnvelopeStatus, RequestStarted
  <2>5. QED
    BY <1>2, <2>1, <2>2, <2>3, <2>4
<1>5. event.outcome # "none"
  BY <1>1, <1>2 DEF ExecutionOutcome
<1>6. QED
  BY <1>2, <1>3, <1>4, <1>5 DEF EventFits, GoesOn, AnswerTo, HttpStatuses

\* The secret, the request, the provider and the end of the fetch.
LEMMA RequestTrail ==
  ASSUME IInv, Trails, NEW c \in Calls,
         \/ SecretMissing(c) \/ SecretUnsupported(c) \/ SendRequest(c) \/ ProviderActs(c)
         \/ FetchSuccess(c) \/ FetchHttpError(c) \/ FetchTimeout(c) \/ FetchNetworkError(c)
  PROVE  Trails'
<1>1. /\ call[c] \in CallState
      /\ Trail(request[c], call[c])
      /\ Gates(request[c], call[c])
  BY CallTyped DEF Trails
<1>2. ASSUME NEW result \in HttpStatuses \ {"audit_failed", "outbound_blocked"},
             call[c].pc \in {"send", "fetch"},
             RequestStarted(result) <=> call[c].net # "unsent",
             result = "success" => call[c].net = "performed",
             ResponseReceived(result) => call[c].net \in {"performed", "refused"},
             Record(c, result, ExecutionEvent(c, result))
      PROVE  Trails'
  <2> DEFINE event == ExecutionEvent(c, result)
             s     == [call[c] EXCEPT !.pc = "record", !.result = result, !.event = event]
  <2>1. call[c].confirmation = "approved" /\ AuthorisedBy(request[c], call[c])
    BY <1>1, <1>2 DEF Gates, Executing
  <2> HIDE DEF event
  <2>2. /\ s.policy = call[c].policy
        /\ s.confirmation = call[c].confirmation
        /\ s.prompted = call[c].prompted
        /\ s.net = call[c].net
        /\ s.event = event
        /\ s.result = result
    BY <1>1 DEF CallState
  <2>3. AuthorisedBy(request[c], s)
    BY <2>1, <2>2 DEF AuthorisedBy
  <2> HIDE DEF s
  <2>4. EventFits(request[c], s)
    BY <1>2, <2>1, <2>2, <2>3, ExecutionEventFits DEF event
  <2>5. event \in AuditEvent
    BY ExecutionEventTyped DEF event
  <2>6. QED
    <3>1. call[c].pc \in ({"confirm"} \cup Executing) \ {"preflighting"}
      BY <1>2 DEF Executing
    <3>2. result \in HttpStatuses \cup {"none"} /\ result # "none" /\ call[c].pc # "confirm"
      BY <1>2 DEF HttpStatuses
    <3>3. Record(c, result, event)
      BY <1>2 DEF event
    <3>4. EventFits(request[c],
            [call[c] EXCEPT !.pc = "record", !.result = result, !.event = event])
      BY <2>4 DEF s
    <3>5. QED
      BY <2>5, <3>1, <3>2, <3>3, <3>4, RecordTrail
<1>3. CASE SecretMissing(c)
  <2>1. "secret_missing" \in HttpStatuses /\ ~ RequestStarted("secret_missing")
    BY DEF HttpStatuses, RequestStarted
  <2>2. call[c].pc = "send" /\ call[c].net = "unsent"
    BY <1>1, <1>3 DEF SecretMissing, At, Trail, Executing
  <2>3. QED
    BY <1>2, <1>3, <2>1, <2>2 DEF SecretMissing, ResponseReceived
<1>4. CASE SecretUnsupported(c)
  BY <1>4, ErrorTrail DEF SecretUnsupported
<1>5. CASE SendRequest(c)
  <2> DEFINE s == [call[c] EXCEPT !.pc = "fetch", !.net = "sent"]
  <2>1. call[c].pc = "send" /\ Becomes(c, s)
    BY <1>5 DEF SendRequest, At
  <2>2. Trail(request[c], s)
    BY <1>1, <2>1
    DEF Trail, Written, Last, Confirmed, RowFits, AuthorisedBy, Executing, Recording, CallState
  <2>3. QED
    BY <2>1, <2>2, TrailOfCall
<1>6. CASE ProviderActs(c)
  <2>1. PICK net \in {"performed", "refused"} : Becomes(c, [call[c] EXCEPT !.net = net])
    BY <1>6 DEF ProviderActs
  <2> DEFINE s == [call[c] EXCEPT !.net = net]
  <2>2. call[c].net = "sent"
    BY <1>6 DEF ProviderActs
  <2>3. \A row : RowFits(request[c], call[c], row) => RowFits(request[c], s, row)
    BY <1>1, <2>1, <2>2 DEF RowFits, AuthorisedBy, CallState
  <2>4. call[c].pc \in Recording => EventFits(request[c], s)
    BY <1>1, <2>1, <2>2, <2>3
    DEF Trail, EventFits, GoesOn, AnswerTo, CallState
  <2>5. Trail(request[c], s)
    BY <1>1, <2>1, <2>2, <2>3, <2>4
    DEF Trail, Written, Last, Confirmed, Executing, Recording, CallState
  <2>6. QED
    BY <2>1, <2>5, TrailOfCall
<1>7. CASE FetchSuccess(c) \/ FetchHttpError(c) \/ FetchTimeout(c) \/ FetchNetworkError(c)
  <2>1. PICK result \in {"success", "http_error", "timeout", "network_error"} :
          /\ FetchEnds(c, result)
          /\ result = "success" => call[c].net = "performed"
          /\ result = "http_error" => call[c].net \in {"performed", "refused"}
    BY <1>7 DEF FetchSuccess, FetchHttpError, FetchTimeout, FetchNetworkError
  <2>2. call[c].pc = "fetch" /\ call[c].net # "unsent"
    BY <1>1, <2>1 DEF FetchEnds, At, Gates
  <2>3. RequestStarted(result) /\ result \in HttpStatuses
    BY DEF RequestStarted, HttpStatuses
  <2>4. QED
    BY <1>2, <2>1, <2>2, <2>3 DEF FetchEnds, ResponseReceived
<1>8. QED
  BY <1>3, <1>4, <1>5, <1>6, <1>7

\* The row is appended to a log that the ledger had caught up with.
LEMMA RecordCommitTrail ==
  ASSUME IInv, Trails, NEW c \in Calls, RecordCommit(c)
  PROVE  Trails'
<1> DEFINE rows == Append(call[c].rows, call[c].event)
           s    == [call[c] EXCEPT !.pc = "ledger", !.rows = rows]
           n    == Len(call[c].rows)
<1>1. /\ call[c] \in CallState
      /\ Trail(request[c], call[c])
      /\ call[c].pc = "recording"
      /\ Becomes(c, s)
  BY CallTyped DEF Trails, RecordCommit, At
<1>2. /\ call[c].rows \in Seq(AuditEvent)
      /\ n \in Nat
      /\ call[c].event \in AuditEvent
      /\ Len(call[c].ledger) \in Nat
  BY <1>1, CallTyped DEF Gates, Recording
<1>3. /\ Len(rows) = n + 1
      /\ rows # <<>>
      /\ rows[n + 1] = call[c].event
      /\ \A i \in 1..n : rows[i] = call[c].rows[i]
  BY <1>2
<1> HIDE DEF rows
<1>4. /\ s.pc = "ledger"
      /\ s.rows = rows
      /\ s.policy = call[c].policy
      /\ s.confirmation = call[c].confirmation
      /\ s.prompted = call[c].prompted
      /\ s.net = call[c].net
      /\ s.result = call[c].result
      /\ s.event = call[c].event
      /\ s.ledger = call[c].ledger
      /\ s.reply = call[c].reply
  BY <1>1 DEF CallState
<1> HIDE DEF s
<1>5. Len(call[c].ledger) = n /\ call[c].reply = "none"
  BY <1>1, <1>2 DEF Trail, Written
<1>6. EventFits(request[c], s) /\ RowFits(request[c], s, s.event)
  BY <1>1, <1>4 DEF Trail, EventFits, RowFits, GoesOn, AnswerTo, AuthorisedBy, Recording
<1>7. \A i \in 1..n : RowFits(request[c], s, rows[i])
  BY <1>1, <1>3, <1>4 DEF Trail, Written, RowFits, AuthorisedBy
<1>8. Written(request[c], s)
  <2>1. \A i \in 1..Len(rows) : RowFits(request[c], s, rows[i])
    BY <1>2, <1>3, <1>4, <1>6, <1>7
  <2>2. \A i \in 1..n : call[c].ledger[i] = InvocationLedgerStatus(rows[i])
    BY <1>1, <1>3, <1>5 DEF Trail, Written
  <2>3. QED
    BY <1>2, <1>3, <1>4, <1>5, <2>1, <2>2 DEF Written, Last
<1>9. (request[c].channel = "mcp" /\ s.net # "unsent") => Confirmed(s)
  BY <1>1, <1>2, <1>3, <1>4 DEF Trail, Confirmed
<1>10. s.result = "none" => Len(s.rows) = 1
  <2>1. call[c].rows = <<>> => n = 0
    OBVIOUS
  <2>2. s.result = "none" => call[c].rows = <<>>
    BY <1>1, <1>4 DEF Trail
  <2> HIDE DEF n
  <2>3. QED
    BY <1>2, <1>3, <1>4, <2>1, <2>2
<1>11. Trail(request[c], s)
  BY <1>4, <1>5, <1>6, <1>8, <1>9, <1>10 DEF Trail, Executing
<1>12. QED
  BY <1>1, <1>11, TrailOfCall

\* The ledger catches up; the call goes on to its execution or is answered what its
\* last row says.
LEMMA LedgerAppendTrail ==
  ASSUME IInv, Trails, NEW c \in Calls, LedgerAppend(c)
  PROVE  Trails'
<1> DEFINE ledger == Append(call[c].ledger, InvocationLedgerStatus(call[c].event))
           s      == [call[c] EXCEPT
                        !.ledger = ledger,
                        !.event = NoEvent,
                        !.pc = IF ToExecute(c) THEN "execute" ELSE "done",
                        !.reply = IF ToExecute(c) THEN "none" ELSE Answer(c)]
           n      == Len(call[c].rows)
<1>1. /\ call[c] \in CallState
      /\ Trail(request[c], call[c])
      /\ call[c].pc = "ledger"
      /\ Becomes(c, s)
  BY CallTyped DEF Trails, LedgerAppend, At
<1>2. /\ call[c].ledger \in Seq(LedgerStatuses)
      /\ call[c].rows \in Seq(AuditEvent)
      /\ n \in Nat
      /\ Len(call[c].ledger) = n - 1
      /\ Len(call[c].ledger) \in Nat
      /\ Last(call[c].rows) = call[c].event
      /\ call[c].rows # <<>>
  BY <1>1, CallTyped DEF Trail, Written
<1>3. /\ Len(ledger) = n
      /\ ledger # <<>>
      /\ ledger[n] = InvocationLedgerStatus(call[c].rows[n])
      /\ \A i \in 1..(n - 1) : ledger[i] = call[c].ledger[i]
  BY <1>2 DEF Last
<1> HIDE DEF ledger
<1>4. /\ s.pc = IF ToExecute(c) THEN "execute" ELSE "done"
      /\ s.reply = IF ToExecute(c) THEN "none" ELSE Answer(c)
      /\ s.rows = call[c].rows
      /\ s.policy = call[c].policy
      /\ s.confirmation = call[c].confirmation
      /\ s.prompted = call[c].prompted
      /\ s.net = call[c].net
      /\ s.result = call[c].result
      /\ s.ledger = ledger
  BY <1>1 DEF CallState
<1> HIDE DEF s
<1>5. EventFits(request[c], call[c])
  BY <1>1 DEF Trail, Recording
<1>6. Written(request[c], s)
  <2>1. \A i \in 1..n : ledger[i] = InvocationLedgerStatus(call[c].rows[i])
    BY <1>1, <1>2, <1>3 DEF Trail, Written
  <2>2. \A i \in 1..n : RowFits(request[c], s, call[c].rows[i])
    BY <1>1, <1>4 DEF Trail, Written, RowFits, AuthorisedBy
  <2>3. QED
    BY <1>2, <1>3, <1>4, <2>1, <2>2 DEF Written
<1>7. CASE ToExecute(c)
  <2>1. /\ GoesOn(request[c], call[c])
        /\ s.pc = "execute"
        /\ s.reply = "none"
        /\ s.result = "none"
    BY <1>4, <1>7 DEF ToExecute, GoesOn
  <2>2. /\ n = 1
        /\ s.net = "unsent"
        /\ s.rows[1].status = "executed"
        /\ s.rows[1].outcome = "none"
        /\ s.rows[1].confirmation = "approved"
    BY <1>1, <1>2, <1>4, <1>5, <2>1 DEF Trail, EventFits, Last
  <2>3. Confirmed(s)
    BY <1>2, <1>3, <1>4, <2>2 DEF Confirmed
  <2>4. \A i \in 1..Len(s.rows) : s.rows[i].status = "executed" /\ s.rows[i].outcome = "none"
    BY <1>4, <2>2
  <2>5. Trail(request[c], s)
    BY <1>6, <2>1, <2>2, <2>3, <2>4 DEF Trail, Executing, Recording
  <2>6. QED
    BY <1>1, <2>5, TrailOfCall
<1>8. CASE ~ ToExecute(c)
  <2>1. Answer(c) = AnswerTo(request[c], call[c])
    BY DEF Answer, AnswerTo
  <2>2. Answer(c) \in RowAnswer(Last(s.rows))
    BY <1>2, <1>4, <1>5, <1>8, <2>1 DEF EventFits, GoesOn, ToExecute
  <2>3. Answer(c) \notin {"none", "error", "tool_not_found"}
    BY <2>2 DEF RowAnswer
  <2>4. (request[c].channel = "mcp" /\ s.net # "unsent") => Confirmed(s)
    BY <1>1, <1>2, <1>3, <1>4 DEF Trail, Confirmed
  <2>5. Trail(request[c], s)
    BY <1>2, <1>3, <1>4, <1>6, <1>8, <2>2, <2>3, <2>4 DEF Trail, Executing, Recording
  <2>6. QED
    BY <1>1, <2>5, TrailOfCall
<1>9. QED
  BY <1>7, <1>8

\* The record and its ledger shadow.
LEMMA RecordStepTrail ==
  ASSUME IInv, Trails, NEW c \in Calls,
         \/ RecordBegin(c) \/ RecordBusy(c) \/ RecordFault(c) \/ RecordCommit(c)
         \/ LedgerAppend(c) \/ LedgerFault(c)
  PROVE  Trails'
<1>1. CASE RecordBegin(c)
  BY <1>1, GotoTrail DEF RecordBegin, At
<1>2. CASE RecordBusy(c) \/ RecordFault(c) \/ LedgerFault(c)
  BY <1>2, ErrorTrail DEF RecordBusy, RecordFault, LedgerFault
<1>3. QED
  BY <1>1, <1>2, RecordCommitTrail, LedgerAppendTrail

-----------------------------------------------------------------------------
(* Crashes, and the invariant.                                             *)

\* A process that dies leaves what is written.
LEMMA DieTrail ==
  ASSUME IInv, Trails, NEW cs \in SUBSET Calls, Die(cs),
         \A c \in cs : call[c].pc \notin Ended
  PROVE  Trails'
<1> SUFFICES ASSUME NEW c \in Calls PROVE Trail(request[c], call[c])'
  BY DEF Trails
<1>1. /\ call[c] \in CallState
      /\ Trail(request[c], call[c])
      /\ request' = request
      /\ call'[c] = IF c \in cs THEN [call[c] EXCEPT !.pc = "crashed"] ELSE call[c]
  BY CallTyped DEF Trails, Die
<1>2. CASE c \in cs
  <2> DEFINE s == [call[c] EXCEPT !.pc = "crashed"]
  <2>1. call[c].reply = "none"
    BY <1>1, <1>2 DEF Trail, Ended
  <2>2. Trail(request[c], s)
    BY <1>1, <2>1
    DEF Trail, Written, Last, Confirmed, RowFits, AuthorisedBy, Executing, Recording, CallState
  <2>3. QED
    BY <1>1, <1>2, <2>2
<1>3. CASE c \notin cs
  BY <1>1, <1>3
<1>4. QED
  BY <1>2, <1>3

\* A call that has not begun has an empty trail.
LEMMA InitTrails == Init => Trails
<1> SUFFICES ASSUME Init, NEW c \in Calls PROVE Trail(request[c], call[c])
  BY DEF Trails
<1>1. call[c] = NewCall
  BY DEF Init
<1>2. QED
  BY <1>1 DEF NewCall, Trail, Written, Last, Executing, Recording

\* Every step of every process keeps every trail.
LEMMA StepTrails == IInv /\ Trails /\ [Next]_vars => Trails'
<1> SUFFICES ASSUME IInv, Trails, [Next]_vars PROVE Trails'
  OBVIOUS
<1>1. CASE EditPolicy \/ StartServer \/ UNCHANGED vars
  BY <1>1 DEF EditPolicy, StartServer, vars, Trails
<1>2. CASE CrashServer
  BY <1>2, DieTrail DEF CrashServer, Live
<1>3. ASSUME NEW c \in Calls, ProgramStep(c) PROVE Trails'
  BY <1>3, ConfirmTrail, PlanTrail, PreflightTrail, RequestTrail, RecordStepTrail
  DEF ProgramStep
<1>4. ASSUME NEW c \in Calls, EnvironmentStep(c) PROVE Trails'
  <2>1. CASE CrashCli(c)
    BY <2>1, DieTrail DEF CrashCli, Live
  <2>2. QED
    BY <1>4, <2>1, InvokeTrail, CallMcpTrail, ConfirmTrail, RequestTrail DEF EnvironmentStep
<1>5. QED
  BY <1>1, <1>2, <1>3, <1>4 DEF Next

-----------------------------------------------------------------------------
(* The theorems.                                                           *)

\* In every state every call has a trail that fits what it has done.
LEMMA TrailsInvariant == Spec => [](IInv /\ Trails)
<1>1. Init => IInv /\ Trails
  BY InitEstablishes, InitTrails
<1>2. IInv /\ Trails /\ [Next]_vars => (IInv /\ Trails)'
  BY StepPreserves, StepTrails
<1>3. QED
  BY <1>1, <1>2, PTL DEF Spec

\* What the log calls blocked, denied or a dry run was never sent and never will be.
THEOREM BlockedIsNeverSent == Spec => []BlockedRowsNeverSent
<1>1. Trails => BlockedRowsNeverSent
  BY DEF Trails, Trail, Written, RowFits, BlockedRowsNeverSent, Sent
<1>2. QED
  BY <1>1, TrailsInvariant, PTL

\* The log names no effect, no answer and no request that there was not.
THEOREM LogIsTruthful == Spec => []RowsAreTruthful
<1>1. Trails => RowsAreTruthful
  BY DEF Trails, Trail, Written, RowFits, RowsAreTruthful, Sent
<1>2. QED
  BY <1>1, TrailsInvariant, PTL

\* A receipt of consent stands only where the policy asked and somebody approved.
THEOREM ReceiptsAreConsent == Spec => []ConsentIsReal
<1>1. Trails => ConsentIsReal
  <2> SUFFICES ASSUME Trails, NEW c \in Calls, NEW i \in 1..Len(call[c].rows),
                      call[c].rows[i].consent = "approved"
               PROVE  /\ request[c].channel = "cli"
                      /\ Decision(c) = "ask"
                      /\ call[c].confirmation = "approved"
                      /\ Authorised(c)
    BY DEF ConsentIsReal
  <2>1. RowFits(request[c], call[c], call[c].rows[i])
    BY DEF Trails, Trail, Written
  <2>2. QED
    BY <2>1 DEF RowFits, AuthorisedBy, Authorised, Decision
<1>2. QED
  BY <1>1, TrailsInvariant, PTL

\* No stage that can lead to a request is ever reached again after one.
THEOREM OneRequestAtMost == Spec => []AtMostOneRequest
<1>1. Trails => AtMostOneRequest
  BY DEF Trails, Trail, Executing, AtMostOneRequest, Sent
<1>2. QED
  BY <1>1, TrailsInvariant, PTL

\* Whoever gets an answer about an installed Capability, and is not refused for want of a
\* log, is told what the last row of the log says, in log and ledger.
THEOREM AnswersAreInTheLog == Spec => []AnswersAreAudited
<1>1. Trails => AnswersAreAudited
  BY DEF Trails, Trail, Last, AnswersAreAudited
<1>2. QED
  BY <1>1, TrailsInvariant, PTL

\* A tool call is confirmed in the log and the ledger before its request leaves.
THEOREM ConfirmationComesFirst == Spec => []McpConfirmationPrecedesRequest
<1>1. Trails => McpConfirmationPrecedesRequest
  BY DEF Trails, Trail, Confirmed, McpConfirmationPrecedesRequest, Sent
<1>2. QED
  BY <1>1, TrailsInvariant, PTL

\* The ledger is the log's shadow, at most one record behind it.
THEOREM LedgerFollowsLog == Spec => []LedgerShadowsAudit
<1>1. Trails => LedgerShadowsAudit
  BY DEF Trails, Trail, Written, LedgerShadowsAudit
<1>2. QED
  BY <1>1, TrailsInvariant, PTL

-----------------------------------------------------------------------------
(* Invocation implements GatedExecution.  The abstract variables are named  *)
(* here; a step that gives one call another state is an abstract step if    *)
(* what they say of that call changes as one says.                          *)

ApprovedCalls == {c \in Calls : call[c].confirmation = "approved"}
SentCalls     == {c \in Calls : Sent(c)}
EffectCalls   == {c \in Calls : call[c].net = "performed"}
LoggedCalls   == {c \in Calls : Sent(c) /\ OutcomeLogged(c)}
Answers       == [c \in Calls |-> AbstractAnswer(c)]

\* The same of a call state.
IsApproved(s) == s.confirmation = "approved"
IsSent(s)     == s.net # "unsent"
IsEffect(s)   == s.net = "performed"
IsLogged(s)   == IsSent(s) /\ \E i \in 1..Len(s.rows) : s.rows[i].outcome # "none"
AnswerOf(s) == IF s.reply \in Refusals THEN "refused" ELSE s.reply

\* What a step of a call shows of it, where it shows nothing new.
SameApproved(s, t) == IsApproved(s) <=> IsApproved(t)
SameSent(s, t)     == IsSent(s) <=> IsSent(t)
SameEffect(s, t)   == IsEffect(s) <=> IsEffect(t)
SameLogged(s, t)   == IsLogged(s) <=> IsLogged(t)
SameAnswer(s, t)   == AnswerOf(s) = AnswerOf(t)

\* The variables after a step of one call.
LEMMA VariablesAfter ==
  ASSUME IInv, NEW c \in Calls, NEW s, Becomes(c, s)
  PROVE  /\ ApprovedCalls' = IF IsApproved(s) THEN ApprovedCalls \cup {c} ELSE ApprovedCalls \ {c}
         /\ SentCalls' = IF IsSent(s) THEN SentCalls \cup {c} ELSE SentCalls \ {c}
         /\ EffectCalls' = IF IsEffect(s) THEN EffectCalls \cup {c} ELSE EffectCalls \ {c}
         /\ LoggedCalls' = IF IsLogged(s) THEN LoggedCalls \cup {c} ELSE LoggedCalls \ {c}
         /\ Answers' = [Answers EXCEPT ![c] = AnswerOf(s)]
<1>1. /\ call'[c] = s
      /\ \A d \in Calls \ {c} : call'[d] = call[d]
  BY DEF IInv, TypeOK, Becomes
<1>2. ApprovedCalls' = IF IsApproved(s) THEN ApprovedCalls \cup {c} ELSE ApprovedCalls \ {c}
  BY <1>1 DEF ApprovedCalls, IsApproved
<1>3. SentCalls' = IF IsSent(s) THEN SentCalls \cup {c} ELSE SentCalls \ {c}
  BY <1>1 DEF SentCalls, IsSent, Sent
<1>4. EffectCalls' = IF IsEffect(s) THEN EffectCalls \cup {c} ELSE EffectCalls \ {c}
  BY <1>1 DEF EffectCalls, IsEffect
<1>5. LoggedCalls' = IF IsLogged(s) THEN LoggedCalls \cup {c} ELSE LoggedCalls \ {c}
  <2>1. /\ (Sent(c) /\ OutcomeLogged(c))' <=> IsLogged(s)
        /\ \A d \in Calls \ {c} :
             (Sent(d) /\ OutcomeLogged(d))' <=> (Sent(d) /\ OutcomeLogged(d))
    BY <1>1 DEF IsLogged, IsSent, Sent, OutcomeLogged
  <2>2. QED
    BY <2>1 DEF LoggedCalls
<1>6. Answers' = [Answers EXCEPT ![c] = AnswerOf(s)]
  <2>1. /\ AbstractAnswer(c)' = AnswerOf(s)
        /\ \A d \in Calls \ {c} : AbstractAnswer(d)' = AbstractAnswer(d)
    BY <1>1 DEF AbstractAnswer, AnswerOf
  <2>2. QED
    BY <2>1 DEF Answers
<1>7. QED
  BY <1>2, <1>3, <1>4, <1>5, <1>6

\* The variables before it.
LEMMA VariablesBefore ==
  ASSUME NEW c \in Calls
  PROVE  /\ c \in ApprovedCalls <=> IsApproved(call[c])
         /\ c \in SentCalls <=> IsSent(call[c])
         /\ c \in EffectCalls <=> IsEffect(call[c])
         /\ c \in LoggedCalls <=> IsLogged(call[c])
         /\ Answers[c] = AnswerOf(call[c])
         /\ Answers = [Answers EXCEPT ![c] = AnswerOf(call[c])]
BY DEF ApprovedCalls, SentCalls, EffectCalls, LoggedCalls, Answers, IsApproved, IsSent,
       IsEffect, IsLogged, AnswerOf, Sent, OutcomeLogged, AbstractAnswer

\* An abstract step, in the names above.
LEMMA AbstractNext ==
  ASSUME NEW c \in Calls,
         \/ UNCHANGED <<ApprovedCalls, SentCalls, EffectCalls, LoggedCalls, Answers>>
         \/ /\ Answers[c] = "none"
            /\ ApprovedCalls' = ApprovedCalls \cup {c}
            /\ UNCHANGED <<SentCalls, EffectCalls, LoggedCalls, Answers>>
         \/ /\ Answers[c] = "none" /\ c \in ApprovedCalls \ SentCalls
            /\ SentCalls' = SentCalls \cup {c}
            /\ UNCHANGED <<ApprovedCalls, EffectCalls, LoggedCalls, Answers>>
         \/ /\ c \in SentCalls \ EffectCalls
            /\ EffectCalls' = EffectCalls \cup {c}
            /\ UNCHANGED <<ApprovedCalls, SentCalls, LoggedCalls, Answers>>
         \/ /\ Answers[c] = "none" /\ c \in SentCalls
            /\ LoggedCalls' = LoggedCalls \cup {c}
            /\ UNCHANGED <<ApprovedCalls, SentCalls, EffectCalls, Answers>>
         \/ /\ Answers[c] = "none"
            /\ \E a \in {"success", "refused", "failed", "unknown", "error"} :
                 /\ Gated!MayAnswer(c, a)
                 /\ Answers' = [Answers EXCEPT ![c] = a]
            /\ UNCHANGED <<ApprovedCalls, SentCalls, EffectCalls, LoggedCalls>>
  PROVE  [Gated!Next]_(Gated!vars)
BY Zenon DEF Gated!Next, Gated!vars, Gated!Approve, Gated!Send, Gated!Perform, Gated!Log,
       Gated!AnswerCall, Gated!Open, ApprovedCalls, SentCalls, EffectCalls, LoggedCalls, Answers

\* The answer a call in state s may get.
MayBeAnswered(s, a) ==
  \/ a = "success" /\ IsApproved(s) /\ IsSent(s) /\ IsEffect(s) /\ IsLogged(s)
  \/ a = "refused" /\ ~ IsSent(s)
  \/ a \in {"failed", "unknown"} /\ IsSent(s) /\ IsLogged(s)
  \/ a = "error"

\* A step of a call that shows at most one thing, when it may, is an abstract step.
LEMMA StepShows ==
  ASSUME IInv, NEW c \in Calls, NEW s, Becomes(c, s),
         \/ SameApproved(call[c], s)
         \/ AnswerOf(call[c]) = "none" /\ IsApproved(s) /\ SameSent(call[c], s)
            /\ SameEffect(call[c], s) /\ SameLogged(call[c], s) /\ SameAnswer(call[c], s),
         \/ SameSent(call[c], s)
         \/ AnswerOf(call[c]) = "none" /\ IsApproved(call[c]) /\ IsSent(s)
            /\ SameApproved(call[c], s) /\ SameEffect(call[c], s) /\ SameLogged(call[c], s)
            /\ SameAnswer(call[c], s),
         \/ SameEffect(call[c], s)
         \/ IsSent(call[c]) /\ IsEffect(s)
            /\ SameApproved(call[c], s) /\ SameSent(call[c], s) /\ SameLogged(call[c], s)
            /\ SameAnswer(call[c], s),
         \/ SameLogged(call[c], s)
         \/ AnswerOf(call[c]) = "none" /\ IsSent(call[c]) /\ IsLogged(s)
            /\ SameApproved(call[c], s) /\ SameSent(call[c], s) /\ SameEffect(call[c], s)
            /\ SameAnswer(call[c], s),
         \/ SameAnswer(call[c], s)
         \/ AnswerOf(call[c]) = "none" /\ MayBeAnswered(call[c], AnswerOf(s))
            /\ SameApproved(call[c], s) /\ SameSent(call[c], s) /\ SameEffect(call[c], s)
            /\ SameLogged(call[c], s)
  PROVE  [Gated!Next]_(Gated!vars)
<1>1. /\ SameApproved(call[c], s) => ApprovedCalls' = ApprovedCalls
      /\ SameSent(call[c], s) => SentCalls' = SentCalls
      /\ SameEffect(call[c], s) => EffectCalls' = EffectCalls
      /\ SameLogged(call[c], s) => LoggedCalls' = LoggedCalls
      /\ SameAnswer(call[c], s) => Answers' = Answers
  BY VariablesBefore, VariablesAfter
  DEF SameApproved, SameSent, SameEffect, SameLogged, SameAnswer
<1>2. CASE ~ SameApproved(call[c], s)
  BY <1>1, <1>2, VariablesBefore, VariablesAfter, AbstractNext
<1>3. CASE ~ SameSent(call[c], s)
  <2>1. c \in ApprovedCalls \ SentCalls
    BY <1>3, VariablesBefore DEF SameSent
  <2>2. QED
    BY <1>1, <1>3, <2>1, VariablesBefore, VariablesAfter, AbstractNext
<1>4. CASE ~ SameEffect(call[c], s)
  <2>1. c \in SentCalls \ EffectCalls
    BY <1>4, VariablesBefore DEF SameEffect
  <2>2. QED
    BY <1>1, <1>4, <2>1, VariablesBefore, VariablesAfter, AbstractNext
<1>5. CASE ~ SameLogged(call[c], s)
  BY <1>1, <1>5, VariablesBefore, VariablesAfter, AbstractNext
<1>6. CASE ~ SameAnswer(call[c], s)
  <2> DEFINE a == AnswerOf(s)
  <2>1. Answers[c] = "none" /\ MayBeAnswered(call[c], a)
    BY <1>6, VariablesBefore
  <2>2. a \in {"success", "refused", "failed", "unknown", "error"}
    BY <2>1 DEF MayBeAnswered
  <2>3. Gated!MayAnswer(c, a)
    <3>1. /\ c \in ApprovedCalls <=> IsApproved(call[c])
          /\ c \in SentCalls <=> IsSent(call[c])
          /\ c \in EffectCalls <=> IsEffect(call[c])
          /\ c \in LoggedCalls <=> IsLogged(call[c])
      BY VariablesBefore
    <3>2. CASE a = "success"
      BY <2>1, <3>1, <3>2
      DEF MayBeAnswered, Gated!MayAnswer, ApprovedCalls, SentCalls, EffectCalls, LoggedCalls
    <3>3. CASE a = "refused"
      BY <2>1, <3>1, <3>3 DEF MayBeAnswered, Gated!MayAnswer, SentCalls
    <3>4. CASE a \in {"failed", "unknown"}
      BY <2>1, <3>1, <3>4 DEF MayBeAnswered, Gated!MayAnswer, SentCalls, LoggedCalls
    <3>5. CASE a = "error"
      BY <3>5 DEF Gated!MayAnswer
    <3>6. QED
      BY <2>2, <3>2, <3>3, <3>4, <3>5
  <2>4. Answers' = [Answers EXCEPT ![c] = a]
    BY VariablesAfter
  <2>5. UNCHANGED <<ApprovedCalls, SentCalls, EffectCalls, LoggedCalls>>
    BY <1>1, <1>6
  <2> HIDE DEF a
  <2>6. QED
    BY <2>1, <2>2, <2>3, <2>4, <2>5, AbstractNext
<1>7. CASE UNCHANGED <<ApprovedCalls, SentCalls, EffectCalls, LoggedCalls, Answers>>
  BY <1>7, AbstractNext
<1>8. QED
  BY <1>1, <1>2, <1>3, <1>4, <1>5, <1>6, <1>7

\* A step that leaves the confirmation, the network, the log and the answer alone.
LEMMA SilentStep ==
  ASSUME IInv, NEW c \in Calls, NEW s, Becomes(c, s),
         s.confirmation = call[c].confirmation, s.net = call[c].net,
         s.rows = call[c].rows, s.reply = call[c].reply
  PROVE  [Gated!Next]_(Gated!vars)
<1>1. /\ SameApproved(call[c], s) /\ SameSent(call[c], s) /\ SameEffect(call[c], s)
      /\ SameLogged(call[c], s) /\ SameAnswer(call[c], s)
  BY DEF SameApproved, SameSent, SameEffect, SameLogged, SameAnswer, IsApproved, IsSent,
         IsEffect, IsLogged, AnswerOf
<1>2. QED
  BY <1>1, StepShows

\* A step that gives an open call an answer it may get.
LEMMA AnswerStep ==
  ASSUME IInv, NEW c \in Calls, NEW s, Becomes(c, s),
         s.confirmation = call[c].confirmation, s.net = call[c].net, s.rows = call[c].rows,
         call[c].reply = "none", MayBeAnswered(call[c], AnswerOf(s))
  PROVE  [Gated!Next]_(Gated!vars)
<1>1. /\ SameApproved(call[c], s) /\ SameSent(call[c], s) /\ SameEffect(call[c], s)
      /\ SameLogged(call[c], s)
  BY DEF SameApproved, SameSent, SameEffect, SameLogged, IsApproved, IsSent, IsEffect, IsLogged
<1>2. AnswerOf(call[c]) = "none"
  BY DEF AnswerOf, Refusals
<1>3. QED
  BY <1>1, <1>2, StepShows

\* An exception promises nothing.
LEMMA ErrorShows ==
  ASSUME IInv, NEW c \in Calls, Return(c, "error"), call[c].reply = "none"
  PROVE  [Gated!Next]_(Gated!vars)
<1> DEFINE s == [call[c] EXCEPT !.pc = "done", !.reply = "error"]
<1>1. /\ s.confirmation = call[c].confirmation
      /\ s.net = call[c].net
      /\ s.rows = call[c].rows
      /\ s.reply = "error"
  BY CallTyped DEF CallState
<1>2. Becomes(c, s)
  BY DEF Return
<1> HIDE DEF s
<1>3. MayBeAnswered(call[c], AnswerOf(s))
  BY <1>1 DEF MayBeAnswered, AnswerOf, Refusals
<1>4. QED
  BY <1>1, <1>2, <1>3, AnswerStep

\* A confirmation is an approval or shows nothing: the call had none, and has sent nothing.
LEMMA ConfirmationShows ==
  ASSUME IInv, NEW c \in Calls, NEW s, Becomes(c, s),
         call[c].confirmation = "none", s.net = call[c].net, s.rows = call[c].rows,
         call[c].reply = "none", s.reply = "none"
  PROVE  [Gated!Next]_(Gated!vars)
<1>1. SameSent(call[c], s) /\ SameEffect(call[c], s) /\ SameLogged(call[c], s)
  BY DEF SameSent, SameEffect, SameLogged, IsSent, IsEffect, IsLogged
<1>2. SameAnswer(call[c], s) /\ AnswerOf(call[c]) = "none"
  BY DEF SameAnswer, AnswerOf, Refusals
<1>3. IsApproved(s) \/ SameApproved(call[c], s)
  BY DEF IsApproved, SameApproved
<1>4. QED
  BY <1>1, <1>2, <1>3, StepShows

\* A call that is under way has no answer yet.
LEMMA Unanswered ==
  ASSUME IInv, Trails, NEW c \in Calls, call[c].pc # "done"
  PROVE  call[c] \in CallState /\ call[c].reply = "none"
BY CallTyped DEF Trails, Trail

\* The steps up to the confirmation.
LEMMA ConfirmImplements ==
  ASSUME IInv, Trails, NEW c \in Calls,
         \/ InvokeCli(c) \/ InvokeCliInvalid(c) \/ InvokeCliNoDatabase(c)
         \/ CallMcp(c) \/ CallMcpUnknownTool(c)
         \/ DryRun(c) \/ DryRunInvalid(c) \/ PromptCli(c)
         \/ ConfirmCliByPolicy(c) \/ ConfirmCliAssumeYes(c) \/ AnswerPrompt(c)
  PROVE  [Gated!Next]_(Gated!vars)
<1>1. /\ call[c].pc \in {"idle", "confirm", "prompt"}
      /\ call[c] \in CallState
      /\ call[c].reply = "none"
  BY Unanswered
  DEF At, InvokeCli, InvokeCliInvalid, InvokeCliNoDatabase, CallMcp, CallMcpUnknownTool, DryRun,
      DryRunInvalid, PromptCli, ConfirmCliByPolicy, ConfirmCliAssumeYes, AnswerPrompt
<1>2. call[c].confirmation = "none"
  BY <1>1, CallTyped DEF Gates, NewCall
<1>3. CASE InvokeCliInvalid(c) \/ InvokeCliNoDatabase(c) \/ DryRunInvalid(c)
  BY <1>1, <1>3, ErrorShows DEF InvokeCliInvalid, InvokeCliNoDatabase, DryRunInvalid
<1>4. CASE InvokeCli(c)
  BY <1>1, <1>4, SilentStep DEF InvokeCli, CallState
<1>5. CASE DryRun(c)
  BY <1>1, <1>5, SilentStep DEF DryRun, Record, CallState
<1>6. CASE PromptCli(c)
  BY <1>1, <1>6, SilentStep DEF PromptCli, Goto, CallState
<1>7. CASE CallMcp(c)
  BY <1>1, <1>2, <1>7, ConfirmationShows DEF CallMcp, CallState
<1>8. ASSUME NEW status, NEW prompted, CliConfirmed(c, status, prompted)
      PROVE  [Gated!Next]_(Gated!vars)
  BY <1>1, <1>2, <1>8, ConfirmationShows DEF CliConfirmed, CallState
<1>9. CASE ConfirmCliByPolicy(c) \/ ConfirmCliAssumeYes(c) \/ AnswerPrompt(c)
  BY <1>8, <1>9 DEF ConfirmCliByPolicy, ConfirmCliAssumeYes, AnswerPrompt
<1>10. CASE CallMcpUnknownTool(c)
  <2> DEFINE s == [call[c] EXCEPT !.pc = "done", !.reply = "tool_not_found"]
  <2>1. /\ s.confirmation = call[c].confirmation
        /\ s.net = call[c].net
        /\ s.rows = call[c].rows
        /\ s.reply = "tool_not_found"
    BY <1>1 DEF CallState
  <2>2. Becomes(c, s)
    BY <1>10 DEF CallMcpUnknownTool, Return
  <2> HIDE DEF s
  <2>3. ~ IsSent(call[c])
    BY <1>1 DEF Trails, Trail, IsSent
  <2>4. MayBeAnswered(call[c], AnswerOf(s))
    BY <2>1, <2>3 DEF MayBeAnswered, AnswerOf, Refusals
  <2>5. QED
    BY <1>1, <2>1, <2>2, <2>4, AnswerStep
<1>11. QED
  BY <1>3, <1>4, <1>5, <1>6, <1>7, <1>9, <1>10

\* The plan and the preflight: a refusal for want of a log comes before any request.
LEMMA PlanImplements ==
  ASSUME IInv, Trails, NEW c \in Calls,
         \/ PlanFails(c) \/ OutboundBlocks(c) \/ OutboundAllows(c)
         \/ PreflightBegin(c) \/ PreflightBusy(c) \/ PreflightFault(c) \/ PreflightRollback(c)
  PROVE  [Gated!Next]_(Gated!vars)
<1>1. /\ call[c].pc \in {"execute", "preflight", "preflighting"}
      /\ call[c] \in CallState
      /\ call[c].reply = "none"
  BY Unanswered
  DEF At, PlanFails, OutboundBlocks, OutboundAllows, PreflightBegin, PreflightBusy,
      PreflightFault, PreflightRollback
<1>2. call[c].net = "unsent"
  BY <1>1 DEF Trails, Trail, Executing
<1>3. CASE PlanFails(c)
  BY <1>1, <1>3, ErrorShows DEF PlanFails
<1>4. CASE OutboundBlocks(c)
  BY <1>1, <1>4, SilentStep DEF OutboundBlocks, Record, CallState
<1>5. CASE OutboundAllows(c)
  BY <1>1, <1>5, SilentStep DEF OutboundAllows, Goto, CallState
<1>6. CASE PreflightBegin(c)
  BY <1>1, <1>6, SilentStep DEF PreflightBegin, CallState
<1>7. CASE PreflightRollback(c)
  BY <1>1, <1>7, SilentStep DEF PreflightRollback, CallState
<1>8. CASE PreflightBusy(c) \/ PreflightFault(c)
  <2> DEFINE s == [call[c] EXCEPT !.pc = "done", !.result = "audit_failed",
                                  !.reply = EnvelopeStatus("audit_failed")]
  <2>1. s.reply = "blocked"
    BY <1>1 DEF EnvelopeStatus, RequestStarted, CallState
  <2>2. /\ s.confirmation = call[c].confirmation
        /\ s.net = call[c].net
        /\ s.rows = call[c].rows
    BY <1>1 DEF CallState
  <2>3. Becomes(c, s)
    BY <1>8 DEF PreflightBusy, PreflightFault, AuditFailed
  <2> HIDE DEF s
  <2>4. MayBeAnswered(call[c], AnswerOf(s))
    BY <1>2, <2>1 DEF MayBeAnswered, AnswerOf, IsSent, Refusals
  <2>5. QED
    BY <1>1, <2>2, <2>3, <2>4, AnswerStep
<1>9. QED
  BY <1>3, <1>4, <1>5, <1>6, <1>7, <1>8

\* The request leaves once, for an approved call; the effect follows it.
LEMMA RequestImplements ==
  ASSUME IInv, Trails, NEW c \in Calls,
         \/ SecretMissing(c) \/ SecretUnsupported(c) \/ SendRequest(c) \/ ProviderActs(c)
         \/ FetchSuccess(c) \/ FetchHttpError(c) \/ FetchTimeout(c) \/ FetchNetworkError(c)
  PROVE  [Gated!Next]_(Gated!vars)
<1>1. /\ call[c] \in CallState
      /\ Trail(request[c], call[c])
      /\ Gates(request[c], call[c])
  BY CallTyped DEF Trails
<1>2. CASE SecretUnsupported(c)
  BY <1>2, Unanswered, ErrorShows DEF SecretUnsupported, At
<1>3. CASE SecretMissing(c)
  BY <1>1, <1>3, SilentStep DEF SecretMissing, Record, CallState
<1>4. CASE FetchSuccess(c) \/ FetchHttpError(c) \/ FetchTimeout(c) \/ FetchNetworkError(c)
  BY <1>1, <1>4, SilentStep
  DEF FetchSuccess, FetchHttpError, FetchTimeout, FetchNetworkError, FetchEnds, Record, CallState
<1>5. CASE SendRequest(c)
  <2> DEFINE s == [call[c] EXCEPT !.pc = "fetch", !.net = "sent"]
  <2>1. Becomes(c, s) /\ call[c].pc = "send"
    BY <1>5 DEF SendRequest, At
  <2>2. /\ s.confirmation = call[c].confirmation
        /\ s.net = "sent"
        /\ s.rows = call[c].rows
        /\ s.reply = call[c].reply
    BY <1>1 DEF CallState
  <2>3. /\ call[c].net = "unsent"
        /\ call[c].reply = "none"
        /\ call[c].confirmation = "approved"
        /\ \A i \in 1..Len(call[c].rows) : call[c].rows[i].outcome = "none"
    BY <1>1, <2>1 DEF Trail, Gates, Executing
  <2> HIDE DEF s
  <2>4. IsApproved(call[c]) /\ IsSent(s) /\ AnswerOf(call[c]) = "none"
    BY <2>2, <2>3 DEF IsApproved, IsSent, AnswerOf, Refusals
  <2>5. /\ SameApproved(call[c], s) /\ SameEffect(call[c], s) /\ SameLogged(call[c], s)
        /\ SameAnswer(call[c], s)
    BY <2>2, <2>3
    DEF SameApproved, SameEffect, SameLogged, SameAnswer, IsApproved, IsEffect, IsLogged, IsSent,
        AnswerOf
  <2>6. QED
    BY <2>1, <2>4, <2>5, StepShows
<1>6. CASE ProviderActs(c)
  <2>1. PICK net \in {"performed", "refused"} : Becomes(c, [call[c] EXCEPT !.net = net])
    BY <1>6 DEF ProviderActs
  <2> DEFINE s == [call[c] EXCEPT !.net = net]
  <2>2. /\ s.confirmation = call[c].confirmation
        /\ s.net = net
        /\ s.rows = call[c].rows
        /\ s.reply = call[c].reply
        /\ call[c].net = "sent"
    BY <1>1, <1>6 DEF CallState, ProviderActs
  <2> HIDE DEF s
  <2>3. /\ SameApproved(call[c], s) /\ SameSent(call[c], s) /\ SameLogged(call[c], s)
        /\ SameAnswer(call[c], s)
    BY <2>1, <2>2
    DEF SameApproved, SameSent, SameLogged, SameAnswer, IsApproved, IsLogged, IsSent, AnswerOf
  <2>4. SameEffect(call[c], s) \/ (IsSent(call[c]) /\ IsEffect(s))
    BY <2>2 DEF SameEffect, IsSent, IsEffect
  <2>5. Becomes(c, s)
    BY <2>1 DEF s
  <2>6. QED
    BY <2>3, <2>4, <2>5, StepShows
<1>7. QED
  BY <1>2, <1>3, <1>4, <1>5, <1>6

\* The record makes the outcome durable before the answer; the answer is one the
\* approval, the request, the effect and the log support.
LEMMA RecordImplements ==
  ASSUME IInv, Trails, NEW c \in Calls,
         \/ RecordBegin(c) \/ RecordBusy(c) \/ RecordFault(c) \/ RecordCommit(c)
         \/ LedgerAppend(c) \/ LedgerFault(c)
  PROVE  [Gated!Next]_(Gated!vars)
<1>1. /\ call[c] \in CallState
      /\ call[c].reply = "none"
      /\ call[c].pc \in Recording
      /\ Trail(request[c], call[c])
      /\ Gates(request[c], call[c])
  BY CallTyped, Unanswered
  DEF Trails, At, RecordBegin, RecordBusy, RecordFault, RecordCommit, LedgerAppend, LedgerFault,
      Recording
<1>2. CASE RecordBegin(c)
  BY <1>1, <1>2, SilentStep DEF RecordBegin, CallState
<1>3. CASE RecordBusy(c) \/ RecordFault(c) \/ LedgerFault(c)
  BY <1>1, <1>3, ErrorShows DEF RecordBusy, RecordFault, LedgerFault
<1>4. CASE RecordCommit(c)
  <2> DEFINE rows == Append(call[c].rows, call[c].event)
             s    == [call[c] EXCEPT !.pc = "ledger", !.rows = rows]
             n    == Len(call[c].rows)
  <2>1. /\ Becomes(c, s)
        /\ s.confirmation = call[c].confirmation
        /\ s.net = call[c].net
        /\ s.rows = rows
        /\ s.reply = call[c].reply
    BY <1>1, <1>4 DEF RecordCommit, CallState
  <2>2. n \in Nat /\ call[c].rows \in Seq(AuditEvent) /\ call[c].event \in AuditEvent
    BY <1>1, CallTyped DEF Gates
  <2>3. /\ Len(rows) = n + 1
        /\ \A i \in 1..n : rows[i] = call[c].rows[i]
    BY <2>2
  <2> HIDE DEF s, rows
  <2>4. IsLogged(call[c]) => IsLogged(s)
    BY <2>1, <2>2, <2>3 DEF IsLogged, IsSent
  <2>5. SameLogged(call[c], s) \/ (IsSent(call[c]) /\ IsLogged(s))
    BY <2>1, <2>4 DEF SameLogged, IsLogged, IsSent
  <2>6. /\ SameApproved(call[c], s) /\ SameSent(call[c], s) /\ SameEffect(call[c], s)
        /\ SameAnswer(call[c], s)
        /\ AnswerOf(call[c]) = "none"
    BY <1>1, <2>1
    DEF SameApproved, SameSent, SameEffect, SameAnswer, IsApproved, IsSent, IsEffect,
        AnswerOf, Refusals
  <2>7. QED
    BY <2>1, <2>5, <2>6, StepShows
<1>5. CASE LedgerAppend(c)
  <2> DEFINE s == [call[c] EXCEPT
                     !.ledger = Append(@, InvocationLedgerStatus(call[c].event)),
                     !.event = NoEvent,
                     !.pc = IF ToExecute(c) THEN "execute" ELSE "done",
                     !.reply = IF ToExecute(c) THEN "none" ELSE Answer(c)]
  <2>1. Becomes(c, s) /\ call[c].pc = "ledger"
    BY <1>5 DEF LedgerAppend, At
  <2>2. /\ s.confirmation = call[c].confirmation
        /\ s.net = call[c].net
        /\ s.rows = call[c].rows
        /\ s.reply = IF ToExecute(c) THEN "none" ELSE Answer(c)
    BY <1>1 DEF CallState
  <2> HIDE DEF s
  <2>3. CASE ToExecute(c)
    BY <1>1, <2>1, <2>2, <2>3, SilentStep
  <2>4. CASE ~ ToExecute(c)
    <3>1. EventFits(request[c], call[c])
      BY <1>1 DEF Trail
    <3>2. CASE call[c].result = "none"
      <4>1. Answer(c) \in {"dry_run", "blocked", "denied", "confirmation_required"}
        BY <3>2 DEF Answer
      <4>2. ~ IsSent(call[c])
        BY <3>1, <3>2 DEF EventFits, IsSent
      <4>3. MayBeAnswered(call[c], AnswerOf(s))
        BY <2>2, <2>4, <4>1, <4>2 DEF MayBeAnswered, AnswerOf, Refusals
      <4>4. QED
        BY <1>1, <2>1, <2>2, <4>3, AnswerStep
    <3>3. CASE call[c].result # "none" /\ ~ RequestStarted(call[c].result)
      <4>1. Answer(c) = "blocked"
        BY <3>3 DEF Answer, EnvelopeStatus, RequestStarted
      <4>2. ~ IsSent(call[c])
        BY <3>1, <3>3 DEF EventFits, IsSent
      <4>3. MayBeAnswered(call[c], AnswerOf(s))
        BY <2>2, <2>4, <4>1, <4>2 DEF MayBeAnswered, AnswerOf, Refusals
      <4>4. QED
        BY <1>1, <2>1, <2>2, <4>3, AnswerStep
    <3>4. CASE call[c].result # "none" /\ RequestStarted(call[c].result)
      <4>1. /\ Answer(c) \in {"success", "unknown", "failed"}
            /\ Answer(c) = "success" => call[c].result = "success"
        BY <3>4 DEF Answer, EnvelopeStatus
      <4>2. call[c].net # "unsent" /\ call[c].event.outcome # "none"
        BY <3>1, <3>4 DEF EventFits
      <4>3. IsSent(call[c]) /\ IsApproved(call[c])
        BY <1>1, <4>2 DEF IsSent, IsApproved, Gates
      <4>4. IsLogged(call[c])
        <5>1. /\ Len(call[c].ledger) = Len(call[c].rows) - 1
              /\ Last(call[c].rows) = call[c].event
          BY <1>1, <2>1 DEF Trail, Written
        <5>2. Len(call[c].rows) \in Nat /\ Len(call[c].ledger) \in Nat
          BY CallTyped
        <5>3. Len(call[c].rows) \in 1..Len(call[c].rows)
          BY <5>1, <5>2
        <5>4. QED
          BY <4>2, <4>3, <5>1, <5>3 DEF IsLogged, Last
      <4>5. call[c].result = "success" => IsEffect(call[c])
        BY <3>1 DEF EventFits, IsEffect
      <4>6. MayBeAnswered(call[c], AnswerOf(s))
        BY <2>2, <2>4, <4>1, <4>3, <4>4, <4>5 DEF MayBeAnswered, AnswerOf, Refusals
      <4>7. QED
        BY <1>1, <2>1, <2>2, <4>6, AnswerStep
    <3>5. QED
      BY <3>2, <3>3, <3>4
  <2>5. QED
    BY <2>3, <2>4
<1>6. QED
  BY <1>2, <1>3, <1>4, <1>5

\* A step that keeps what every call shows.
LEMMA QuietStep ==
  ASSUME \A c \in Calls : /\ call'[c].confirmation = call[c].confirmation
                          /\ call'[c].net = call[c].net
                          /\ call'[c].rows = call[c].rows
                          /\ call'[c].reply = call[c].reply
  PROVE  UNCHANGED Gated!vars
<1>1. ApprovedCalls' = ApprovedCalls
  BY DEF ApprovedCalls
<1>2. SentCalls' = SentCalls /\ EffectCalls' = EffectCalls
  BY DEF SentCalls, EffectCalls, Sent
<1>3. LoggedCalls' = LoggedCalls
  <2>1. \A c \in Calls : (Sent(c) /\ OutcomeLogged(c))' <=> (Sent(c) /\ OutcomeLogged(c))
    BY DEF Sent, OutcomeLogged
  <2>2. QED
    BY <2>1 DEF LoggedCalls
<1>4. Answers' = Answers
  <2>1. \A c \in Calls : AbstractAnswer(c)' = AbstractAnswer(c)
    BY DEF AbstractAnswer
  <2>2. QED
    BY <2>1 DEF Answers
<1>5. QED
  BY <1>1, <1>2, <1>3, <1>4, Zenon
  DEF Gated!vars, ApprovedCalls, SentCalls, EffectCalls, LoggedCalls, Answers

\* A crash takes calls away and answers nobody.
LEMMA DieImplements ==
  ASSUME IInv, NEW cs \in SUBSET Calls, Die(cs)
  PROVE  UNCHANGED Gated!vars
<1> SUFFICES ASSUME NEW c \in Calls
             PROVE  /\ call'[c].confirmation = call[c].confirmation
                    /\ call'[c].net = call[c].net
                    /\ call'[c].rows = call[c].rows
                    /\ call'[c].reply = call[c].reply
  BY QuietStep
<1>1. call'[c] = IF c \in cs THEN [call[c] EXCEPT !.pc = "crashed"] ELSE call[c]
  BY DEF Die
<1>2. call[c] \in CallState
  BY CallTyped
<1>3. QED
  BY <1>1, <1>2 DEF CallState

\* The initial states map to the initial state of the abstract execution.
LEMMA InitImplements == Init => Gated!Init
<1> SUFFICES ASSUME Init PROVE Gated!Init
  OBVIOUS
<1>1. \A c \in Calls : call[c] = NewCall
  BY DEF Init
<1>2. ApprovedCalls = {} /\ SentCalls = {} /\ EffectCalls = {} /\ LoggedCalls = {}
  BY <1>1 DEF ApprovedCalls, SentCalls, EffectCalls, LoggedCalls, NewCall, Sent
<1>3. Answers = [c \in Calls |-> "none"]
  BY <1>1 DEF Answers, AbstractAnswer, NewCall, Refusals
<1>4. QED
  BY <1>2, <1>3, Zenon
  DEF Gated!Init, ApprovedCalls, SentCalls, EffectCalls, LoggedCalls, Answers

\* Every step maps to an abstract step or a stutter.
LEMMA StepImplements == IInv /\ Trails /\ [Next]_vars => [Gated!Next]_(Gated!vars)
<1> SUFFICES ASSUME IInv, Trails, [Next]_vars PROVE [Gated!Next]_(Gated!vars)
  OBVIOUS
<1>1. CASE EditPolicy \/ StartServer \/ UNCHANGED vars
  <2>1. UNCHANGED Gated!vars
    BY <1>1, QuietStep DEF EditPolicy, StartServer, vars
  <2>2. QED
    BY <2>1
<1>2. CASE CrashServer
  <2>1. UNCHANGED Gated!vars
    BY <1>2, DieImplements DEF CrashServer
  <2>2. QED
    BY <2>1
<1>3. ASSUME NEW c \in Calls, ProgramStep(c) PROVE [Gated!Next]_(Gated!vars)
  BY <1>3, ConfirmImplements, PlanImplements, RequestImplements, RecordImplements
  DEF ProgramStep
<1>4. ASSUME NEW c \in Calls, EnvironmentStep(c) PROVE [Gated!Next]_(Gated!vars)
  <2>1. CASE CrashCli(c)
    <3>1. UNCHANGED Gated!vars
      BY <2>1, DieImplements DEF CrashCli
    <3>2. QED
      BY <3>1
  <2>2. QED
    BY <1>4, <2>1, ConfirmImplements, RequestImplements DEF EnvironmentStep
<1>5. QED
  BY <1>1, <1>2, <1>3, <1>4 DEF Next

\* Every invocation, on either channel, with its gates, records, faults and crashes, keeps
\* the promises of GatedExecution.
THEOREM InvocationImplements == Spec => ImplementsGatedExecution
<1>1. Init => Gated!Init
  BY InitImplements
<1>2. IInv /\ Trails /\ [Next]_vars => [Gated!Next]_(Gated!vars)
  BY StepImplements
<1>3. QED
  BY <1>1, <1>2, TrailsInvariant, PTL DEF Spec, ImplementsGatedExecution, Gated!Spec

-----------------------------------------------------------------------------
(* What is counted.                                                         *)

\* A row is counted as a request exactly if it has the outcome of one, and what is
\* blocked for want of a confirmation or a secret is called so.
RowShape(row) ==
  /\ row.started => row.status = "executed" /\ row.outcome # "none"
  /\ row.outcome \in {"success", "failed_after_request", "unknown_after_timeout"} => row.started
  /\ row.outcome \in {"blocked", "failed_before_request"} => row.status = "blocked"
  /\ row.confirmation = "confirmation_required" => row.status = "blocked" /\ row.outcome = "none"

\* The row that ends a call: not the approval of one that goes on.
IsFinal(row) == row.status # "executed" \/ row.started

\* A tool call that was approved.
IsApprovedTool(r, s) == r.channel = "mcp" /\ s.confirmation = "approved"

\* The rows of a call in state s with request r: there is one final row at most and none
\* while one is recorded, the only other row is the first of an approved tool call, and
\* whoever is told that a confirmation is required has a row that says so.
Counted(r, s) ==
  /\ \A i \in 1..Len(s.rows) : RowShape(s.rows[i])
  /\ \A i, j \in 1..Len(s.rows) : IsFinal(s.rows[i]) /\ IsFinal(s.rows[j]) => i = j
  /\ \A i \in 1..Len(s.rows) : ~ IsFinal(s.rows[i]) <=> (i = 1 /\ IsApprovedTool(r, s))
  /\ s.pc \in {"record", "recording"} =>
       /\ \A i \in 1..Len(s.rows) : ~ IsFinal(s.rows[i])
       /\ (r.channel = "mcp" /\ s.result # "none") => s.rows # <<>>
  /\ s.pc \in Recording =>
       /\ RowShape(s.event)
       /\ (s.result = "none" /\ s.confirmation = "confirmation_required") =>
            s.event.confirmation = "confirmation_required"
  /\ s.reply \in {"success", "failed", "unknown", "confirmation_required"} =>
       s.result # "audit_failed"
  /\ s.reply = "confirmation_required" =>
       Last(s.rows).confirmation = "confirmation_required"

AllCounted == \A c \in Calls : Counted(request[c], call[c])

\* A call that takes a counted state leaves the other calls theirs.
LEMMA CountOfCall ==
  ASSUME IInv, AllCounted, NEW c \in Calls, NEW s, Becomes(c, s), Counted(request[c], s)
  PROVE  AllCounted'
<1>1. /\ request' = request
      /\ call'[c] = s
      /\ \A d \in Calls \ {c} : call'[d] = call[d]
  BY DEF IInv, TypeOK, Becomes
<1>2. QED
  BY <1>1 DEF AllCounted

\* A step that writes nothing and tells of no request leaves the counts as they are.
LEMMA QuietCount ==
  ASSUME NEW r, NEW s, NEW t, Counted(r, s),
         t.rows = s.rows,
         t.confirmation = s.confirmation \/ s.rows = <<>>,
         \/ t.reply \in {"none", "error", "tool_not_found", "blocked"}
         \/ t.reply = s.reply /\ t.result = s.result,
         \/ t.pc \notin Recording
         \/ /\ t.pc = s.pc \/ (t.pc = "recording" /\ s.pc = "record")
            /\ t.event = s.event
            /\ t.result = s.result
            /\ t.confirmation = s.confirmation
  PROVE  Counted(r, t)
<1>1. /\ \A i \in 1..Len(t.rows) : RowShape(t.rows[i])
      /\ \A i, j \in 1..Len(t.rows) : IsFinal(t.rows[i]) /\ IsFinal(t.rows[j]) => i = j
      /\ \A i \in 1..Len(t.rows) : ~ IsFinal(t.rows[i]) <=> (i = 1 /\ IsApprovedTool(r, t))
  BY DEF Counted, IsApprovedTool
<1>2. t.pc \in {"record", "recording"} =>
        /\ \A i \in 1..Len(t.rows) : ~ IsFinal(t.rows[i])
        /\ (r.channel = "mcp" /\ t.result # "none") => t.rows # <<>>
  BY DEF Counted, Recording
<1>3. t.pc \in Recording =>
        /\ RowShape(t.event)
        /\ (t.result = "none" /\ t.confirmation = "confirmation_required") =>
             t.event.confirmation = "confirmation_required"
  BY DEF Counted, Recording
<1>4. /\ t.reply \in {"success", "failed", "unknown", "confirmation_required"} =>
           t.result # "audit_failed"
      /\ t.reply = "confirmation_required" =>
           Last(t.rows).confirmation = "confirmation_required"
  BY DEF Counted, Last
<1>5. QED
  BY <1>1, <1>2, <1>3, <1>4 DEF Counted

\* A call that has nothing final recorded goes on to record an event.
LEMMA RecordCount ==
  ASSUME NEW r, NEW s, NEW t, Counted(r, s),
         t.rows = s.rows, t.reply = "none", t.pc = "record",
         t.confirmation = s.confirmation \/ s.rows = <<>>,
         (r.channel = "mcp" /\ t.result # "none") => s.rows # <<>>,
         \A i \in 1..Len(s.rows) : ~ IsFinal(s.rows[i]),
         RowShape(t.event),
         (t.result = "none" /\ t.confirmation = "confirmation_required") =>
           t.event.confirmation = "confirmation_required"
  PROVE  Counted(r, t)
BY DEF Counted, IsApprovedTool

\* The events have the shape of rows.
LEMMA EventShapes ==
  /\ \A decision, status : status \in ConfirmationStatuses =>
       /\ RowShape(ConfirmationEvent(decision, status))
       /\ ConfirmationEvent(decision, status).confirmation = status
  /\ \A c \in Calls : RowShape(DryRunEvent(c))
  /\ RowShape(OutboundBlockedEvent)
  /\ \A c \in Calls : \A result \in HttpStatuses : RowShape(ExecutionEvent(c, result))
<1>1. ASSUME NEW decision, NEW status \in ConfirmationStatuses
      PROVE  /\ RowShape(ConfirmationEvent(decision, status))
             /\ ConfirmationEvent(decision, status).confirmation = status
  BY DEF RowShape, ConfirmationEvent, AuditStatusFromConfirmation, ConfirmationStatuses
<1>2. ASSUME NEW c \in Calls PROVE RowShape(DryRunEvent(c))
  BY DEF RowShape, DryRunEvent
<1>3. RowShape(OutboundBlockedEvent)
  BY DEF RowShape, OutboundBlockedEvent
<1>4. ASSUME NEW c \in Calls, NEW result \in HttpStatuses
      PROVE  RowShape(ExecutionEvent(c, result))
  <2> DEFINE event == ExecutionEvent(c, result)
  <2>1. /\ event.status = IF RequestStarted(result) THEN "executed" ELSE "blocked"
        /\ event.outcome = ExecutionOutcome(result)
        /\ event.started = RequestStarted(result)
        /\ event.confirmation = "approved"
    BY DEF ExecutionEvent
  <2> HIDE DEF event
  <2>2. RowShape(event)
    BY <2>1 DEF RowShape, ExecutionOutcome, RequestStarted, HttpStatuses
  <2>3. QED
    BY <2>2 DEF event
<1>5. QED
  BY <1>1, <1>2, <1>3, <1>4

\* Before a call records its last event nothing final is recorded of it.
LEMMA NothingFinal ==
  ASSUME IInv, Trails, AllCounted, NEW c \in Calls,
         call[c].pc \in {"idle", "confirm", "prompt"} \cup Executing
  PROVE  /\ \A i \in 1..Len(call[c].rows) : ~ IsFinal(call[c].rows[i])
         /\ call[c].pc \notin Executing => call[c].rows = <<>>
         /\ (call[c].pc \in Executing /\ request[c].channel = "mcp") => call[c].rows # <<>>
         /\ call[c].reply = "none"
         /\ Counted(request[c], call[c])
         /\ call[c] \in CallState
<1>1. /\ Trail(request[c], call[c]) /\ Counted(request[c], call[c])
      /\ call[c] \in CallState
  BY CallTyped DEF Trails, AllCounted
<1>2. /\ call[c].reply = "none"
      /\ call[c].pc \notin Executing => call[c].rows = <<>>
      /\ (call[c].pc \in Executing /\ request[c].channel = "mcp") => call[c].rows # <<>>
  BY <1>1 DEF Trail, Executing, Confirmed
<1>3. CASE call[c].pc \in {"idle", "confirm", "prompt"}
  <2>1. call[c].rows = <<>>
    BY <1>1, <1>3 DEF Trail
  <2>2. QED
    BY <1>1, <1>2, <2>1
<1>4. CASE call[c].pc \in Executing
  BY <1>1, <1>2, <1>4 DEF Trail, Counted, RowShape, IsFinal
<1>5. QED
  BY <1>3, <1>4

-----------------------------------------------------------------------------
(* The steps, stage by stage.                                              *)

\* An exception or an answer about no Capability ends a call and leaves its counts.
LEMMA ErrorCount ==
  ASSUME IInv, AllCounted, NEW c \in Calls, NEW reply \in {"error", "tool_not_found"},
         Return(c, reply)
  PROVE  AllCounted'
<1> DEFINE t == [call[c] EXCEPT !.pc = "done", !.reply = reply]
<1>1. call[c] \in CallState /\ Counted(request[c], call[c])
  BY CallTyped DEF AllCounted
<1>2. /\ t.rows = call[c].rows
      /\ t.confirmation = call[c].confirmation
      /\ t.reply = reply
      /\ t.pc = "done"
  BY <1>1 DEF CallState
<1>3. Becomes(c, t)
  BY DEF Return
<1> HIDE DEF t
<1>4. Counted(request[c], t)
  BY <1>1, <1>2, QuietCount DEF Recording
<1>5. QED
  BY <1>3, <1>4, CountOfCall

\* A call that moves between two stages before its record, without an answer.
LEMMA MoveCount ==
  ASSUME IInv, AllCounted, NEW c \in Calls, NEW t, Becomes(c, t),
         t.rows = call[c].rows, t.confirmation = call[c].confirmation \/ call[c].rows = <<>>,
         t.reply \in {"none", "blocked"}, t.pc \notin Recording
  PROVE  AllCounted'
<1>1. Counted(request[c], call[c])
  BY DEF AllCounted
<1>2. Counted(request[c], t)
  BY <1>1, QuietCount
<1>3. QED
  BY <1>2, CountOfCall

\* The event of an ended stage is to be recorded.
LEMMA RecordsCount ==
  ASSUME IInv, Trails, AllCounted, NEW c \in Calls, NEW result, NEW event,
         Record(c, result, event), RowShape(event),
         call[c].pc \in {"idle", "confirm", "prompt"} \cup Executing,
         call[c].confirmation = "none" \/ result # "none",
         call[c].pc \in Executing \/ result = "none"
  PROVE  AllCounted'
<1> DEFINE t == [call[c] EXCEPT !.pc = "record", !.result = result, !.event = event]
<1>1. /\ \A i \in 1..Len(call[c].rows) : ~ IsFinal(call[c].rows[i])
      /\ (call[c].pc \in Executing /\ request[c].channel = "mcp") => call[c].rows # <<>>
      /\ call[c].reply = "none"
      /\ Counted(request[c], call[c])
      /\ call[c] \in CallState
  BY NothingFinal
<1>2. /\ t.rows = call[c].rows
      /\ t.reply = call[c].reply
      /\ t.pc = "record"
      /\ t.event = event
      /\ t.result = result
      /\ t.confirmation = call[c].confirmation
  BY <1>1 DEF CallState
<1>3. Becomes(c, t)
  BY DEF Record
<1> HIDE DEF t
<1>4. Counted(request[c], t)
  BY <1>1, <1>2, RecordCount
<1>5. QED
  BY <1>3, <1>4, CountOfCall

\* The confirmation of the CLI.
LEMMA CliConfirmedCount ==
  ASSUME IInv, Trails, AllCounted, NEW c \in Calls, NEW status \in ConfirmationStatuses,
         NEW prompted, CliConfirmed(c, status, prompted), call[c].pc \in {"confirm", "prompt"}
  PROVE  AllCounted'
<1> DEFINE event == IF status = "approved" THEN NoEvent ELSE ConfirmationEvent(Decision(c), status)
           t     == [call[c] EXCEPT
                       !.confirmation = status,
                       !.prompted = prompted,
                       !.pc = IF status = "approved" THEN "execute" ELSE "record",
                       !.event = event]
<1>1. /\ \A i \in 1..Len(call[c].rows) : ~ IsFinal(call[c].rows[i])
      /\ call[c].rows = <<>>
      /\ call[c].result = "none"
      /\ request[c].channel = "cli"
      /\ call[c].reply = "none"
      /\ Counted(request[c], call[c])
      /\ call[c] \in CallState
  BY NothingFinal, CallTyped DEF Executing, Trails, Trail, Gates
<1>2. status # "approved" => RowShape(event) /\ event.confirmation = status
  BY EventShapes
<1> HIDE DEF event
<1>3. /\ t.rows = call[c].rows
      /\ t.reply = call[c].reply
      /\ t.pc = IF status = "approved" THEN "execute" ELSE "record"
      /\ t.event = event
      /\ t.result = "none"
      /\ t.confirmation = status
  BY <1>1 DEF CallState
<1>4. Becomes(c, t)
  BY DEF CliConfirmed, event
<1> HIDE DEF t
<1>5. CASE status = "approved"
  BY <1>1, <1>3, <1>4, <1>5, MoveCount DEF Recording
<1>6. CASE status # "approved"
  <2>1. Counted(request[c], t)
    BY <1>1, <1>2, <1>3, <1>6, RecordCount
  <2>2. QED
    BY <1>4, <2>1, CountOfCall
<1>7. QED
  BY <1>5, <1>6

\* The stages up to the confirmation.
LEMMA ConfirmCount ==
  ASSUME IInv, Trails, AllCounted, NEW c \in Calls,
         \/ InvokeCli(c) \/ InvokeCliInvalid(c) \/ InvokeCliNoDatabase(c)
         \/ CallMcp(c) \/ CallMcpUnknownTool(c)
         \/ DryRun(c) \/ DryRunInvalid(c) \/ PromptCli(c)
         \/ ConfirmCliByPolicy(c) \/ ConfirmCliAssumeYes(c) \/ AnswerPrompt(c)
  PROVE  AllCounted'
<1>1. /\ call[c].pc \in {"idle", "confirm", "prompt"}
      /\ \A i \in 1..Len(call[c].rows) : ~ IsFinal(call[c].rows[i])
      /\ call[c].rows = <<>>
      /\ call[c].result = "none"
      /\ call[c].reply = "none"
      /\ Counted(request[c], call[c])
      /\ call[c] \in CallState
  <2>1. call[c].pc \in {"idle", "confirm", "prompt"}
    BY DEF At, InvokeCli, InvokeCliInvalid, InvokeCliNoDatabase, CallMcp, CallMcpUnknownTool,
           DryRun, DryRunInvalid, PromptCli, ConfirmCliByPolicy, ConfirmCliAssumeYes, AnswerPrompt
  <2>2. call[c].result = "none"
    BY <2>1 DEF Trails, Trail
  <2>3. QED
    BY <2>1, <2>2, NothingFinal DEF Executing
<1>2. CASE \/ InvokeCliInvalid(c) \/ InvokeCliNoDatabase(c) \/ CallMcpUnknownTool(c)
           \/ DryRunInvalid(c)
  BY <1>2, ErrorCount
  DEF InvokeCliInvalid, InvokeCliNoDatabase, CallMcpUnknownTool, DryRunInvalid
<1>3. CASE InvokeCli(c)
  BY <1>1, <1>3, MoveCount DEF InvokeCli, Recording, CallState
<1>4. CASE PromptCli(c)
  BY <1>1, <1>4, MoveCount DEF PromptCli, Goto, Recording, CallState
<1>5. CASE DryRun(c)
  <2>1. call[c].confirmation = "none"
    BY <1>5, CallTyped DEF DryRun, At, Gates
  <2>2. QED
    BY <1>1, <1>5, <2>1, EventShapes, RecordsCount DEF DryRun
<1>6. CASE CallMcp(c)
  <2> DEFINE decision == PolicyDecision(session, request[c])
             status   == McpConfirmation(decision)
             event    == ConfirmationEvent(decision, status)
             t        == [call[c] EXCEPT !.policy = session, !.confirmation = status,
                                         !.pc = "record", !.event = event]
  <2>1. status \in ConfirmationStatuses
    BY DEF McpConfirmation, ConfirmationStatuses
  <2>2. RowShape(event) /\ event.confirmation = status
    BY <2>1, EventShapes
  <2>3. Becomes(c, t)
    BY <1>6 DEF CallMcp
  <2> HIDE DEF status, event
  <2>4. /\ t.rows = call[c].rows
        /\ t.reply = call[c].reply
        /\ t.pc = "record"
        /\ t.event = event
        /\ t.result = "none"
        /\ t.confirmation = status
    BY <1>1 DEF CallState
  <2> HIDE DEF t
  <2>5. Counted(request[c], t)
    BY <1>1, <2>2, <2>4, RecordCount
  <2>6. QED
    BY <2>3, <2>5, CountOfCall
<1>7. CASE ConfirmCliByPolicy(c) \/ ConfirmCliAssumeYes(c) \/ AnswerPrompt(c)
  <2>1. PICK status \in ConfirmationStatuses, prompted \in BOOLEAN :
          CliConfirmed(c, status, prompted)
    BY <1>7, Members DEF ConfirmCliByPolicy, ConfirmCliAssumeYes, AnswerPrompt
  <2>2. call[c].pc \in {"confirm", "prompt"}
    BY <1>7 DEF ConfirmCliByPolicy, ConfirmCliAssumeYes, AnswerPrompt, At
  <2>3. QED
    BY <2>1, <2>2, CliConfirmedCount
<1>8. QED
  BY <1>2, <1>3, <1>4, <1>5, <1>6, <1>7

\* The execution up to the record of its result.
LEMMA ExecutionCount ==
  ASSUME IInv, Trails, AllCounted, NEW c \in Calls,
         \/ PlanFails(c) \/ OutboundBlocks(c) \/ OutboundAllows(c)
         \/ PreflightBegin(c) \/ PreflightBusy(c) \/ PreflightFault(c) \/ PreflightRollback(c)
         \/ SecretMissing(c) \/ SecretUnsupported(c) \/ SendRequest(c)
         \/ FetchSuccess(c) \/ FetchHttpError(c) \/ FetchTimeout(c) \/ FetchNetworkError(c)
  PROVE  AllCounted'
<1>1. /\ call[c].pc \in Executing
      /\ call[c].reply = "none"
      /\ call[c] \in CallState
  <2>1. call[c].pc \in Executing
    BY DEF At, PlanFails, OutboundBlocks, OutboundAllows, PreflightBegin, PreflightBusy,
           PreflightFault, PreflightRollback, SecretMissing, SecretUnsupported, SendRequest,
           FetchSuccess, FetchHttpError, FetchTimeout, FetchNetworkError, FetchEnds, Executing
  <2>2. QED
    BY <2>1, NothingFinal
<1>2. CASE PlanFails(c) \/ SecretUnsupported(c)
  BY <1>2, ErrorCount DEF PlanFails, SecretUnsupported
<1>3. CASE OutboundBlocks(c)
  BY <1>1, <1>3, EventShapes, RecordsCount DEF OutboundBlocks
<1>4. CASE OutboundAllows(c)
  <2>1. PICK pc \in {"preflight", "send"} : Goto(c, pc)
    BY <1>4 DEF OutboundAllows
  <2>2. QED
    BY <1>1, <2>1, MoveCount DEF Goto, Recording, CallState
<1>5. CASE PreflightBegin(c)
  BY <1>1, <1>5, MoveCount DEF PreflightBegin, Recording, CallState
<1>6. CASE PreflightRollback(c)
  BY <1>1, <1>6, MoveCount DEF PreflightRollback, Recording, CallState
<1>7. CASE SendRequest(c)
  BY <1>1, <1>7, MoveCount DEF SendRequest, Recording, CallState
<1>8. CASE PreflightBusy(c) \/ PreflightFault(c)
  <2> DEFINE t == [call[c] EXCEPT !.pc = "done", !.result = "audit_failed",
                                  !.reply = EnvelopeStatus("audit_failed")]
  <2>1. EnvelopeStatus("audit_failed") = "blocked"
    BY DEF EnvelopeStatus, RequestStarted
  <2>2. /\ t.rows = call[c].rows
        /\ t.confirmation = call[c].confirmation
        /\ t.reply = "blocked"
        /\ t.pc = "done"
    BY <1>1, <2>1 DEF CallState
  <2>3. Becomes(c, t)
    BY <1>8 DEF PreflightBusy, PreflightFault, AuditFailed
  <2> HIDE DEF t
  <2>4. QED
    BY <2>2, <2>3, MoveCount DEF Recording
<1>9. CASE SecretMissing(c)
  <2>1. "secret_missing" \in HttpStatuses
    BY DEF HttpStatuses
  <2>2. QED
    BY <1>1, <1>9, <2>1, EventShapes, RecordsCount DEF SecretMissing
<1>10. CASE FetchSuccess(c) \/ FetchHttpError(c) \/ FetchTimeout(c) \/ FetchNetworkError(c)
  <2>1. PICK result \in {"success", "http_error", "timeout", "network_error"} :
          FetchEnds(c, result)
    BY <1>10 DEF FetchSuccess, FetchHttpError, FetchTimeout, FetchNetworkError
  <2>2. result \in HttpStatuses /\ result # "none"
    BY DEF HttpStatuses
  <2>3. QED
    BY <1>1, <2>1, <2>2, EventShapes, RecordsCount DEF FetchEnds
<1>11. QED
  BY <1>2, <1>3, <1>4, <1>5, <1>6, <1>7, <1>8, <1>9, <1>10

\* The row of an event: the only final one, unless the call goes on after it.
LEMMA CommitCount ==
  ASSUME IInv, Trails, AllCounted, NEW c \in Calls, RecordCommit(c)
  PROVE  AllCounted'
<1> DEFINE rows == Append(call[c].rows, call[c].event)
           t    == [call[c] EXCEPT !.pc = "ledger", !.rows = rows]
           n    == Len(call[c].rows)
<1>1. /\ call[c] \in CallState
      /\ Trail(request[c], call[c])
      /\ Counted(request[c], call[c])
      /\ call[c].pc = "recording"
      /\ Becomes(c, t)
  BY CallTyped DEF Trails, AllCounted, RecordCommit, At
<1>2. /\ call[c].rows \in Seq(AuditEvent)
      /\ n \in Nat
      /\ call[c].event \in AuditEvent
  BY <1>1, CallTyped DEF Gates, Recording
<1>3. /\ Len(rows) = n + 1
      /\ rows[n + 1] = call[c].event
      /\ \A i \in 1..n : rows[i] = call[c].rows[i]
  BY <1>2
<1> HIDE DEF rows
<1>4. /\ t.pc = "ledger"
      /\ t.rows = rows
      /\ t.event = call[c].event
      /\ t.result = call[c].result
      /\ t.confirmation = call[c].confirmation
      /\ t.reply = "none"
  BY <1>1 DEF CallState, Trail
<1> HIDE DEF t
<1>5. \A i \in 1..Len(rows) : RowShape(rows[i])
  BY <1>1, <1>2, <1>3 DEF Counted, Recording
<1>6. \A i \in 1..Len(rows) : IsFinal(rows[i]) => i = n + 1
  BY <1>1, <1>2, <1>3 DEF Counted
<1>7. ~ IsFinal(call[c].event) <=> (n = 0 /\ IsApprovedTool(request[c], call[c]))
  <2>1. /\ RowShape(call[c].event)
        /\ EventFits(request[c], call[c])
        /\ (request[c].channel = "mcp" /\ call[c].result # "none") => n # 0
        /\ call[c].result = "none" => n = 0
        /\ call[c].event.status \in {"blocked", "denied", "executed", "dry_run"}
    BY <1>1, <1>2 DEF Counted, Trail, Recording, AuditEvent
  <2>2. CASE GoesOn(request[c], call[c])
    BY <2>1, <2>2 DEF GoesOn, IsApprovedTool, EventFits, RowShape, IsFinal
  <2>3. CASE ~ GoesOn(request[c], call[c])
    <3>1. AnswerTo(request[c], call[c]) \in RowAnswer(call[c].event)
      BY <2>1, <2>3 DEF EventFits
    <3>2. IsFinal(call[c].event)
      BY <2>1, <3>1 DEF RowAnswer, RowShape, IsFinal
    <3>3. QED
      BY <2>1, <2>3, <3>2 DEF GoesOn, IsApprovedTool
  <2>4. QED
    BY <2>2, <2>3
<1>8. \A i \in 1..Len(rows) : ~ IsFinal(rows[i]) <=> (i = 1 /\ IsApprovedTool(request[c], t))
  <2>1. IsApprovedTool(request[c], t) <=> IsApprovedTool(request[c], call[c])
    BY <1>4 DEF IsApprovedTool
  <2>2. ASSUME NEW i \in 1..n
        PROVE  ~ IsFinal(rows[i]) <=> (i = 1 /\ IsApprovedTool(request[c], t))
    BY <1>1, <1>3, <2>1 DEF Counted
  <2>3. ~ IsFinal(rows[n + 1]) <=> (n + 1 = 1 /\ IsApprovedTool(request[c], t))
    BY <1>2, <1>3, <1>7, <2>1
  <2>4. QED
    BY <1>2, <1>3, <2>2, <2>3
<1>9. QED
  <2>1. Counted(request[c], t)
    BY <1>1, <1>4, <1>5, <1>6, <1>8 DEF Counted, Recording
  <2>2. QED
    BY <1>1, <2>1, CountOfCall

\* The ledger catches up: the answer is that of the row.
LEMMA AnswerCount ==
  ASSUME IInv, Trails, AllCounted, NEW c \in Calls, LedgerAppend(c)
  PROVE  AllCounted'
<1> DEFINE t == [call[c] EXCEPT
                   !.ledger = Append(@, InvocationLedgerStatus(call[c].event)),
                   !.event = NoEvent,
                   !.pc = IF ToExecute(c) THEN "execute" ELSE "done",
                   !.reply = IF ToExecute(c) THEN "none" ELSE Answer(c)]
<1>1. /\ call[c] \in CallState
      /\ Trail(request[c], call[c])
      /\ Counted(request[c], call[c])
      /\ call[c].pc = "ledger"
      /\ Becomes(c, t)
  BY CallTyped DEF Trails, AllCounted, LedgerAppend, At
<1>2. /\ t.rows = call[c].rows
      /\ t.result = call[c].result
      /\ t.confirmation = call[c].confirmation
      /\ t.pc \in {"execute", "done"}
      /\ t.reply = IF ToExecute(c) THEN "none" ELSE Answer(c)
  BY <1>1 DEF CallState
<1> HIDE DEF t
<1>3. call[c].result # "audit_failed"
  BY <1>1 DEF Trail, EventFits, Recording
<1>4. Answer(c) = "confirmation_required" => Last(t.rows).confirmation = "confirmation_required"
  <2>1. SUFFICES ASSUME Answer(c) = "confirmation_required"
                 PROVE  call[c].event.confirmation = "confirmation_required"
    BY <1>1, <1>2 DEF Trail, Written
  <2>2. call[c].result = "none"
    BY <2>1 DEF Answer, EnvelopeStatus
  <2>3. call[c].confirmation = "confirmation_required"
    BY <2>1, <2>2 DEF Answer
  <2>4. QED
    BY <1>1, <2>2, <2>3 DEF Counted, Recording
<1>5. Counted(request[c], t)
  BY <1>1, <1>2, <1>3, <1>4 DEF Counted, Recording, IsApprovedTool
<1>6. QED
  BY <1>1, <1>5, CountOfCall

\* The record, its ledger shadow, and what the provider does.
LEMMA RecordStepCount ==
  ASSUME IInv, Trails, AllCounted, NEW c \in Calls,
         \/ RecordBegin(c) \/ RecordBusy(c) \/ RecordFault(c) \/ RecordCommit(c)
         \/ LedgerAppend(c) \/ LedgerFault(c) \/ ProviderActs(c)
  PROVE  AllCounted'
<1>1. call[c] \in CallState /\ Counted(request[c], call[c])
  BY CallTyped DEF AllCounted
<1>2. CASE RecordBegin(c)
  <2> DEFINE t == [call[c] EXCEPT !.pc = "recording"]
  <2>1. /\ t.rows = call[c].rows /\ t.reply = call[c].reply /\ t.result = call[c].result
        /\ t.event = call[c].event /\ t.confirmation = call[c].confirmation
        /\ t.pc = "recording" /\ call[c].pc = "record"
    BY <1>1, <1>2 DEF CallState, RecordBegin, At
  <2>2. Becomes(c, t)
    BY <1>2 DEF RecordBegin
  <2> HIDE DEF t
  <2>3. Counted(request[c], t)
    BY <1>1, <2>1, QuietCount
  <2>4. QED
    BY <2>2, <2>3, CountOfCall
<1>3. CASE RecordBusy(c) \/ RecordFault(c) \/ LedgerFault(c)
  BY <1>3, ErrorCount DEF RecordBusy, RecordFault, LedgerFault
<1>4. CASE ProviderActs(c)
  <2>1. PICK net \in {"performed", "refused"} : Becomes(c, [call[c] EXCEPT !.net = net])
    BY <1>4 DEF ProviderActs
  <2> DEFINE t == [call[c] EXCEPT !.net = net]
  <2>2. /\ t.rows = call[c].rows /\ t.reply = call[c].reply /\ t.result = call[c].result
        /\ t.event = call[c].event /\ t.confirmation = call[c].confirmation
        /\ t.pc = call[c].pc
    BY <1>1 DEF CallState
  <2>3. Becomes(c, t)
    BY <2>1
  <2> HIDE DEF t
  <2>4. Counted(request[c], t)
    BY <1>1, <2>2, QuietCount
  <2>5. QED
    BY <2>3, <2>4, CountOfCall
<1>5. QED
  BY <1>2, <1>3, <1>4, CommitCount, AnswerCount

\* A crash counts nothing.
LEMMA DieCount ==
  ASSUME IInv, AllCounted, NEW cs \in SUBSET Calls, Die(cs)
  PROVE  AllCounted'
<1> SUFFICES ASSUME NEW c \in Calls PROVE Counted(request[c], call[c])'
  BY DEF AllCounted
<1>1. /\ call[c] \in CallState
      /\ Counted(request[c], call[c])
      /\ request' = request
      /\ call'[c] = IF c \in cs THEN [call[c] EXCEPT !.pc = "crashed"] ELSE call[c]
  BY CallTyped DEF AllCounted, Die
<1>2. CASE c \in cs
  <2> DEFINE t == [call[c] EXCEPT !.pc = "crashed"]
  <2>1. /\ t.rows = call[c].rows /\ t.reply = call[c].reply /\ t.result = call[c].result
        /\ t.confirmation = call[c].confirmation /\ t.pc \notin Recording
    BY <1>1 DEF CallState, Recording
  <2>2. call'[c] = t
    BY <1>1, <1>2
  <2> HIDE DEF t
  <2>3. Counted(request[c], t)
    BY <1>1, <2>1, QuietCount
  <2>4. QED
    BY <1>1, <2>2, <2>3
<1>3. CASE c \notin cs
  BY <1>1, <1>3
<1>4. QED
  BY <1>2, <1>3

\* Every step of every process keeps the counts of every call.
LEMMA StepCounts == IInv /\ Trails /\ AllCounted /\ [Next]_vars => AllCounted'
<1> SUFFICES ASSUME IInv, Trails, AllCounted, [Next]_vars PROVE AllCounted'
  OBVIOUS
<1>1. CASE EditPolicy \/ StartServer \/ UNCHANGED vars
  BY <1>1 DEF EditPolicy, StartServer, vars, AllCounted
<1>2. CASE CrashServer
  BY <1>2, DieCount DEF CrashServer
<1>3. ASSUME NEW c \in Calls, ProgramStep(c) PROVE AllCounted'
  BY <1>3, ConfirmCount, ExecutionCount, RecordStepCount DEF ProgramStep
<1>4. ASSUME NEW c \in Calls, EnvironmentStep(c) PROVE AllCounted'
  <2>1. CASE CrashCli(c)
    BY <2>1, DieCount DEF CrashCli
  <2>2. QED
    BY <1>4, <2>1, ConfirmCount, ExecutionCount, RecordStepCount DEF EnvironmentStep
<1>5. QED
  BY <1>1, <1>2, <1>3, <1>4 DEF Next

\* In every state the rows of every call are counted once.
LEMMA CountsInvariant == Spec => [](IInv /\ Trails /\ AllCounted)
<1>1. Init => AllCounted
  <2> SUFFICES ASSUME Init, NEW c \in Calls PROVE Counted(request[c], call[c])
    BY DEF AllCounted
  <2>1. call[c] = NewCall
    BY DEF Init
  <2>2. QED
    BY <2>1 DEF NewCall, Counted, Recording
<1>2. Init => IInv /\ Trails
  BY InitEstablishes, InitTrails
<1>3. IInv /\ Trails /\ [Next]_vars => (IInv /\ Trails)'
  BY StepPreserves, StepTrails
<1>4. QED
  BY <1>1, <1>2, <1>3, StepCounts, PTL DEF Spec

-----------------------------------------------------------------------------
(* Counting rows as calls.                                                 *)

\* The places of the rows of the log that end a call.
FinalPlaces == {place \in LogRows : IsFinal(RowAt(place))}

CallsOf(places) == {place[1] : place \in places}

\* A place of the log is a call and the number of one of its rows.
LEMMA PlaceTyped ==
  ASSUME IInv, Trails, AllCounted, NEW place \in LogRows
  PROVE  /\ place[1] \in Calls
         /\ place[2] \in 1..Len(call[place[1]].rows)
         /\ place = <<place[1], place[2]>>
         /\ RowAt(place) = call[place[1]].rows[place[2]]
         /\ RowAt(place) \in AuditEvent
         /\ RowShape(RowAt(place))
         /\ RowFits(request[place[1]], call[place[1]], RowAt(place))
         /\ call[place[1]].pc # "idle"
<1>1. PICK c \in Calls : place \in {<<c, i>> : i \in 1..Len(call[c].rows)}
  BY DEF LogRows
<1>2. PICK i \in 1..Len(call[c].rows) : place = <<c, i>>
  BY <1>1
<1>3. place[1] = c /\ place[2] = i /\ RowAt(place) = call[c].rows[i]
  BY <1>2 DEF RowAt
<1>4. call[c].rows[i] \in AuditEvent
  BY CallTyped
<1>5. RowShape(call[c].rows[i]) /\ RowFits(request[c], call[c], call[c].rows[i])
  BY DEF AllCounted, Counted, Trails, Trail, Written
<1>6. call[c].pc # "idle"
  <2>1. SUFFICES ASSUME call[c].pc = "idle" PROVE FALSE
    OBVIOUS
  <2>2. call[c].rows = <<>>
    BY <2>1 DEF Trails, Trail
  <2>3. QED
    BY <2>2
<1>7. QED
  BY <1>2, <1>3, <1>4, <1>5, <1>6

\* Final rows are as many as the calls they are of.
LEMMA CountedAsCalls ==
  ASSUME IInv, Trails, AllCounted, NEW places \in SUBSET FinalPlaces
  PROVE  /\ IsFiniteSet(places)
         /\ CallsOf(places) \subseteq Calls
         /\ IsFiniteSet(CallsOf(places))
         /\ Cardinality(places) = Cardinality(CallsOf(places))
         /\ Cardinality(places) \in Nat
<1> DEFINE f == [place \in places |-> place[1]]
<1>1. \A place \in places : place \in LogRows /\ IsFinal(RowAt(place))
  BY DEF FinalPlaces
<1>2. CallsOf(places) \subseteq Calls
  BY <1>1, PlaceTyped DEF CallsOf
<1>3. IsFiniteSet(CallsOf(places))
  BY <1>2, FS_Subset, UsageAssumption
<1>4. \A a, b \in places : a[1] = b[1] => a = b
  <2> SUFFICES ASSUME NEW a \in places, NEW b \in places, a[1] = b[1] PROVE a = b
    OBVIOUS
  <2>1. a[2] = b[2]
    BY <1>1, PlaceTyped DEF AllCounted, Counted
  <2>2. QED
    BY <1>1, <2>1, PlaceTyped
<1>5. f \in Injection(places, CallsOf(places))
  BY <1>4 DEF Injection, IsInjective, CallsOf
<1>6. f \in Surjection(places, CallsOf(places))
  BY <1>5 DEF Surjection, CallsOf, Injection
<1> HIDE DEF f
<1>7. IsFiniteSet(places) /\ Cardinality(places) = Cardinality(CallsOf(places))
  BY <1>3, <1>5, <1>6, FS_Injection
<1>8. QED
  BY <1>2, <1>3, <1>7, FS_CardinalityType

\* Two sets of final rows that share none are counted one after the other.
LEMMA CountsAdd ==
  ASSUME IInv, Trails, AllCounted, NEW a \in SUBSET FinalPlaces, NEW b \in SUBSET FinalPlaces,
         a \cap b = {}
  PROVE  Cardinality(a \cup b) = Cardinality(a) + Cardinality(b)
<1>1. IsFiniteSet(a) /\ IsFiniteSet(b) /\ Cardinality(a) \in Nat /\ Cardinality(b) \in Nat
  BY CountedAsCalls
<1>2. Cardinality(a \cap b) = 0
  BY FS_EmptySet
<1>3. Cardinality(a \cup b) = Cardinality(a) + Cardinality(b) - Cardinality(a \cap b)
  BY <1>1, FS_Union
<1>4. QED
  BY <1>1, <1>2, <1>3

\* The rows by what they are counted as.
RequestRows == {place \in LogRows : RowAt(place).started}
BlockedRows == {place \in LogRows : RowAt(place).status = "blocked"}
DeniedRows == {place \in LogRows : RowAt(place).status = "denied"}
DryRunRows == {place \in LogRows : RowAt(place).status = "dry_run"}
OutcomeRows(outcome) == {place \in RequestRows : RowAt(place).outcome = outcome}
ConfirmationRows == {place \in LogRows : RowAt(place).confirmation = "confirmation_required"}
OutboundRows == {place \in LogRows : RowAt(place) = OutboundBlockedEvent}
SecretRows == {place \in LogRows : RowAt(place).outcome = "failed_before_request"}
ExecutedRows == {place \in LogRows : RowAt(place).status = "executed"}
SuccessRows == {place \in LogRows : OutcomeFromAudit(RowAt(place)) = "success"}

\* The rows that do not end their call.
ApprovalRows == {place \in LogRows : ~ IsFinal(RowAt(place))}

\* They all end their call, and those that count as refusals are blocked.
LEMMA CountedRows ==
  ASSUME IInv, Trails, AllCounted
  PROVE  /\ RequestRows \cup BlockedRows \cup DeniedRows \cup DryRunRows \subseteq FinalPlaces
         /\ ConfirmationRows \cup OutboundRows \cup SecretRows \subseteq BlockedRows
         /\ ConfirmationRows \cap OutboundRows = {}
         /\ (ConfirmationRows \cup OutboundRows) \cap SecretRows = {}
         /\ RequestRows \cap (BlockedRows \cup DeniedRows \cup DryRunRows) = {}
<1>1. ASSUME NEW place \in LogRows
      PROVE  RowShape(RowAt(place)) /\ RowAt(place) \in AuditEvent
  BY PlaceTyped
<1>2. RequestRows \cup BlockedRows \cup DeniedRows \cup DryRunRows \subseteq FinalPlaces
  BY DEF RequestRows, BlockedRows, DeniedRows, DryRunRows, FinalPlaces, IsFinal
<1>3. /\ OutboundBlockedEvent.status = "blocked"
      /\ OutboundBlockedEvent.confirmation = "denied"
      /\ OutboundBlockedEvent.outcome = "none"
  BY DEF OutboundBlockedEvent
<1>4. ConfirmationRows \cup OutboundRows \cup SecretRows \subseteq BlockedRows
  BY <1>1, <1>3 DEF ConfirmationRows, OutboundRows, SecretRows, BlockedRows, RowShape
<1>5. /\ ConfirmationRows \cap OutboundRows = {}
      /\ (ConfirmationRows \cup OutboundRows) \cap SecretRows = {}
  BY <1>1, <1>3 DEF ConfirmationRows, OutboundRows, SecretRows, RowShape
<1>6. RequestRows \cap (BlockedRows \cup DeniedRows \cup DryRunRows) = {}
  BY <1>1 DEF RequestRows, BlockedRows, DeniedRows, DryRunRows, RowShape
<1>7. QED
  BY <1>2, <1>4, <1>5, <1>6

\* A request is counted for each row that says one started.
LEMMA RequestsCounted ==
  ASSUME IInv, Trails, AllCounted
  PROVE  UsageRequests = Cardinality(RequestRows)
<1> DEFINE counted == {<<place, 1>> : place \in RequestRows}
           f       == [place \in RequestRows |-> <<place, 1>>]
<1>1. ASSUME NEW place \in LogRows
      PROVE  {<<place, k>> : k \in 1..UsageEvent(RowAt(place)).httpRequestCount}
               = IF RowAt(place).started THEN {<<place, 1>>} ELSE {}
  BY DEF UsageEvent, HttpRequestCount
<1>2. UNION {{<<place, k>> : k \in 1..UsageEvent(RowAt(place)).httpRequestCount} :
               place \in LogRows} = counted
  <2> DEFINE ofPlace(place) == {<<place, k>> : k \in 1..UsageEvent(RowAt(place)).httpRequestCount}
  <2>1. \A place \in LogRows : ofPlace(place) = IF RowAt(place).started THEN {<<place, 1>>} ELSE {}
    BY <1>1
  <2> HIDE DEF ofPlace
  <2>2. UNION {ofPlace(place) : place \in LogRows} = counted
    BY <2>1 DEF RequestRows
  <2>3. QED
    BY <2>2 DEF ofPlace
<1>3. f \in Bijection(RequestRows, counted)
  BY DEF Bijection, Injection, Surjection, IsInjective
<1>4. IsFiniteSet(RequestRows)
  BY CountedRows, CountedAsCalls
<1>5. Cardinality(counted) = Cardinality(RequestRows)
  <2> HIDE DEF f, counted
  <2>1. ExistsBijection(RequestRows, counted)
    BY <1>3 DEF ExistsBijection
  <2>2. QED
    BY <1>4, <2>1, FS_Bijection
<1>6. QED
  BY <1>2, <1>5 DEF UsageRequests

\* The counts of the metrics are those of the rows.
LEMMA MetricsCounted ==
  ASSUME IInv, Trails, AllCounted
  PROVE  /\ ErrorLike(LocalMetricsSummary) = Cardinality(BlockedRows) + Cardinality(DeniedRows)
         /\ LocalMetricsSummary.statusCounts.dry_run = Cardinality(DryRunRows)
         /\ LocalMetricsSummary.confirmationRequiredTotal = Cardinality(ConfirmationRows)
         /\ LocalMetricsSummary.outboundBlockedTotal = Cardinality(OutboundRows)
         /\ LocalMetricsSummary.secretMissingTotal = Cardinality(SecretRows)
         /\ LocalMetricsSummary.invocationsTotal = Cardinality(LogRows)
         /\ LocalMetricsSummary.statusCounts.executed = Cardinality(ExecutedRows)
         /\ UsageSuccesses = Cardinality(SuccessRows)
<1>1. /\ LocalMetricsSummary.statusCounts.blocked = Cardinality(BlockedRows)
      /\ LocalMetricsSummary.statusCounts.denied = Cardinality(DeniedRows)
      /\ LocalMetricsSummary.statusCounts.dry_run = Cardinality(DryRunRows)
      /\ LocalMetricsSummary.statusCounts.executed = Cardinality(ExecutedRows)
  BY DEF LocalMetricsSummary, Rows, BlockedRows, DeniedRows, DryRunRows, ExecutedRows
<1>2. /\ LocalMetricsSummary.confirmationRequiredTotal = Cardinality(ConfirmationRows)
      /\ LocalMetricsSummary.outboundBlockedTotal = Cardinality(OutboundRows)
      /\ LocalMetricsSummary.secretMissingTotal = Cardinality(SecretRows)
  BY DEF LocalMetricsSummary, Rows, ConfirmationRows, OutboundRows, SecretRows, OutboundBlockedRow
<1>3. LocalMetricsSummary.invocationsTotal = Cardinality(LogRows)
  <2>1. {place \in LogRows : TRUE} = LogRows
    OBVIOUS
  <2>2. QED
    BY <2>1 DEF LocalMetricsSummary, Rows
<1>4. UsageSuccesses = Cardinality(SuccessRows)
  BY DEF UsageSuccesses, Rows, UsageEvent, SuccessRows
<1>5. QED
  BY <1>1, <1>2, <1>3, <1>4 DEF ErrorLike

\* The requests with an outcome are counted by their usage events.
LEMMA OutcomesCounted ==
  ASSUME IInv, Trails, AllCounted,
         NEW outcome \in {"success", "failed_after_request", "unknown_after_timeout"}
  PROVE  UsageWith(outcome) = Cardinality(OutcomeRows(outcome))
<1>1. ASSUME NEW place \in LogRows, RowAt(place).started
      PROVE  OutcomeFromAudit(RowAt(place)) = RowAt(place).outcome
  BY <1>1, PlaceTyped DEF OutcomeFromAudit, RowShape
<1>2. {place \in LogRows : /\ UsageEvent(RowAt(place)).requestStarted
                           /\ UsageEvent(RowAt(place)).outcome = outcome}
        = OutcomeRows(outcome)
  BY <1>1 DEF UsageEvent, OutcomeRows, RequestRows
<1>3. QED
  BY <1>2 DEF UsageWith, Rows

\* Calls that are told something have a row that says so.
LEMMA AnsweredRows ==
  ASSUME IInv, Trails, AllCounted
  PROVE  /\ Answered({"success"}) \subseteq CallsOf(OutcomeRows("success"))
         /\ Answered({"failed"}) \subseteq CallsOf(OutcomeRows("failed_after_request"))
         /\ Answered({"unknown"}) \subseteq CallsOf(OutcomeRows("unknown_after_timeout"))
         /\ Answered({"confirmation_required"}) \subseteq CallsOf(ConfirmationRows)
<1>1. ASSUME NEW c \in Calls,
             call[c].reply \in {"success", "failed", "unknown", "confirmation_required"}
      PROVE  \E place \in LogRows :
               /\ place[1] = c
               /\ call[c].reply \in RowAnswer(RowAt(place))
               /\ call[c].reply = "confirmation_required" =>
                    RowAt(place).confirmation = "confirmation_required"
  <2> DEFINE n     == Len(call[c].rows)
             place == <<c, n>>
  <2>1. /\ call[c].rows # <<>>
        /\ call[c].reply \in RowAnswer(Last(call[c].rows))
        /\ call[c].reply = "confirmation_required" =>
             Last(call[c].rows).confirmation = "confirmation_required"
    BY <1>1 DEF Trails, Trail, AllCounted, Counted
  <2>2. n \in 1..n
    BY <2>1, CallTyped
  <2>3. place \in LogRows
    BY <2>2 DEF LogRows
  <2>4. place[1] = c /\ RowAt(place) = Last(call[c].rows)
    BY DEF RowAt, Last
  <2>5. QED
    BY <2>1, <2>3, <2>4
<1>2. ASSUME NEW reply \in {"success", "failed", "unknown"}, NEW place \in LogRows,
             reply \in RowAnswer(RowAt(place))
      PROVE  /\ RowAt(place).started
             /\ RowAt(place).outcome = CASE reply = "success" -> "success"
                                         [] reply = "failed" -> "failed_after_request"
                                         [] OTHER -> "unknown_after_timeout"
  <2>1. RowShape(RowAt(place)) /\ RowAt(place) \in AuditEvent
    BY PlaceTyped
  <2>2. QED
    BY <1>2, <2>1 DEF RowAnswer, RowShape
<1>3. Answered({"success"}) \subseteq CallsOf(OutcomeRows("success"))
  BY <1>1, <1>2 DEF Answered, CallsOf, OutcomeRows, RequestRows
<1>4. Answered({"failed"}) \subseteq CallsOf(OutcomeRows("failed_after_request"))
  BY <1>1, <1>2 DEF Answered, CallsOf, OutcomeRows, RequestRows
<1>5. Answered({"unknown"}) \subseteq CallsOf(OutcomeRows("unknown_after_timeout"))
  BY <1>1, <1>2 DEF Answered, CallsOf, OutcomeRows, RequestRows
<1>6. Answered({"confirmation_required"}) \subseteq CallsOf(ConfirmationRows)
  BY <1>1 DEF Answered, CallsOf, ConfirmationRows
<1>7. QED
  BY <1>3, <1>4, <1>5, <1>6

\* A set of calls that have final rows of a kind is no larger than the number of these rows.
LEMMA NoMoreThanRows ==
  ASSUME IInv, Trails, AllCounted, NEW places \in SUBSET FinalPlaces,
         NEW calls, calls \subseteq CallsOf(places)
  PROVE  Cardinality(calls) <= Cardinality(places)
<1>1. IsFiniteSet(CallsOf(places)) /\ Cardinality(places) = Cardinality(CallsOf(places))
  BY CountedAsCalls
<1>2. QED
  BY <1>1, FS_Subset

\* Rows of some calls that end them are no more than these calls.
LEMMA NoMoreThanCalls ==
  ASSUME IInv, Trails, AllCounted, NEW places \in SUBSET FinalPlaces,
         NEW calls \in SUBSET Calls, CallsOf(places) \subseteq calls
  PROVE  Cardinality(places) <= Cardinality(calls)
<1>1. Cardinality(places) = Cardinality(CallsOf(places)) /\ IsFiniteSet(calls)
  BY CountedAsCalls, FS_Subset, UsageAssumption
<1>2. QED
  BY <1>1, FS_Subset

\* Refusals, dry runs and requests are different rows.
LEMMA KindsAdd ==
  ASSUME IInv, Trails, AllCounted
  PROVE  Cardinality(BlockedRows \cup DeniedRows \cup DryRunRows \cup RequestRows)
           = Cardinality(BlockedRows) + Cardinality(DeniedRows) + Cardinality(DryRunRows)
             + Cardinality(RequestRows)
<1> DEFINE refusals == BlockedRows \cup DeniedRows
           unsent   == refusals \cup DryRunRows
           all      == unsent \cup RequestRows
<1>1. /\ BlockedRows \in SUBSET FinalPlaces /\ DeniedRows \in SUBSET FinalPlaces
      /\ DryRunRows \in SUBSET FinalPlaces /\ RequestRows \in SUBSET FinalPlaces
      /\ refusals \in SUBSET FinalPlaces /\ unsent \in SUBSET FinalPlaces
  BY CountedRows
<1>2. /\ BlockedRows \cap DeniedRows = {}
      /\ refusals \cap DryRunRows = {}
      /\ unsent \cap RequestRows = {}
  BY CountedRows DEF BlockedRows, DeniedRows, DryRunRows
<1>3. Cardinality(refusals) = Cardinality(BlockedRows) + Cardinality(DeniedRows)
  BY <1>1, <1>2, CountsAdd
<1>4. all = BlockedRows \cup DeniedRows \cup DryRunRows \cup RequestRows
  OBVIOUS
<1> HIDE DEF refusals
<1>5. Cardinality(unsent) = Cardinality(refusals) + Cardinality(DryRunRows)
  BY <1>1, <1>2, CountsAdd
<1> HIDE DEF unsent
<1>6. Cardinality(all) = Cardinality(unsent) + Cardinality(RequestRows)
  BY <1>1, <1>2, CountsAdd
<1> HIDE DEF all
<1>7. QED
  BY <1>3, <1>4, <1>5, <1>6

\* They are of different calls, all of which were made.
LEMMA AllAreOfCalls ==
  ASSUME IInv, Trails, AllCounted
  PROVE  Cardinality(BlockedRows) + Cardinality(DeniedRows) + Cardinality(DryRunRows)
           + Cardinality(RequestRows) <= Cardinality(CallsMade)
<1> DEFINE all == BlockedRows \cup DeniedRows \cup DryRunRows \cup RequestRows
<1>1. all \in SUBSET FinalPlaces
  BY CountedRows
<1>2. CallsOf(all) \subseteq CallsMade /\ CallsMade \in SUBSET Calls
  BY <1>1, PlaceTyped DEF CallsOf, FinalPlaces, CallsMade
<1>3. Cardinality(all) = Cardinality(BlockedRows) + Cardinality(DeniedRows)
                         + Cardinality(DryRunRows) + Cardinality(RequestRows)
  BY KindsAdd
<1> HIDE DEF all
<1>4. Cardinality(all) <= Cardinality(CallsMade)
  BY <1>1, <1>2, NoMoreThanCalls
<1>5. QED
  BY <1>3, <1>4

\* What is told of a request is counted as one, and a request that is counted was sent.
LEMMA RequestsAreOfCalls ==
  ASSUME IInv, Trails, AllCounted
  PROVE  /\ Cardinality(Answered({"success", "failed", "unknown"})) <= Cardinality(RequestRows)
         /\ Cardinality(RequestRows) <= Cardinality({c \in Calls : call[c].net # "unsent"})
<1>1. RequestRows \in SUBSET FinalPlaces
  BY CountedRows
<1>2. Answered({"success", "failed", "unknown"}) \subseteq CallsOf(RequestRows)
  BY AnsweredRows DEF Answered, CallsOf, OutcomeRows
<1>3. CallsOf(RequestRows) \subseteq {c \in Calls : call[c].net # "unsent"}
  BY PlaceTyped DEF CallsOf, RequestRows, RowFits
<1>4. QED
  BY <1>1, <1>2, <1>3, NoMoreThanRows, NoMoreThanCalls

\* The reasons of refusals that are counted apart are reasons of different refusals.
LEMMA ReasonsAreOfRefusals ==
  ASSUME IInv, Trails, AllCounted
  PROVE  Cardinality(ConfirmationRows) + Cardinality(OutboundRows) + Cardinality(SecretRows)
           <= Cardinality(BlockedRows) + Cardinality(DeniedRows)
<1> DEFINE asked   == ConfirmationRows \cup OutboundRows
           reasons == asked \cup SecretRows
<1>1. /\ ConfirmationRows \in SUBSET FinalPlaces /\ OutboundRows \in SUBSET FinalPlaces
      /\ SecretRows \in SUBSET FinalPlaces /\ asked \in SUBSET FinalPlaces
      /\ BlockedRows \in SUBSET FinalPlaces /\ DeniedRows \in SUBSET FinalPlaces
      /\ reasons \subseteq BlockedRows
  BY CountedRows
<1>2. ConfirmationRows \cap OutboundRows = {} /\ asked \cap SecretRows = {}
  BY CountedRows
<1>3. Cardinality(asked) = Cardinality(ConfirmationRows) + Cardinality(OutboundRows)
  BY <1>1, <1>2, CountsAdd
<1> HIDE DEF asked
<1>4. Cardinality(reasons) = Cardinality(asked) + Cardinality(SecretRows)
  BY <1>1, <1>2, CountsAdd
<1>5. IsFiniteSet(BlockedRows) /\ Cardinality(BlockedRows) \in Nat /\ Cardinality(DeniedRows) \in Nat
  BY <1>1, CountedAsCalls
<1> HIDE DEF reasons
<1>6. Cardinality(reasons) <= Cardinality(BlockedRows) /\ Cardinality(reasons) \in Nat
  BY <1>1, <1>5, FS_Subset, FS_CardinalityType
<1>7. QED
  BY <1>3, <1>4, <1>5, <1>6

\* The rows that do not end their call are as many as the tool calls whose approval is in
\* the log: each has one, its first.
LEMMA ApprovalsCounted ==
  ASSUME IInv, Trails, AllCounted
  PROVE  /\ IsFiniteSet(ApprovalRows)
         /\ Cardinality(ApprovalRows) = Cardinality(ApprovedToolCalls)
         /\ Cardinality(ApprovedToolCalls) \in Nat
<1> DEFINE first == [c \in ApprovedToolCalls |-> <<c, 1>>]
<1>1. ASSUME NEW c \in ApprovedToolCalls PROVE <<c, 1>> \in ApprovalRows
  <2>1. c \in Calls /\ call[c].rows # <<>> /\ IsApprovedTool(request[c], call[c])
    BY DEF ApprovedToolCalls, IsApprovedTool
  <2>2. 1 \in 1..Len(call[c].rows)
    BY <2>1, CallTyped
  <2>3. ~ IsFinal(call[c].rows[1])
    BY <2>1, <2>2 DEF AllCounted, Counted
  <2>4. <<c, 1>> \in LogRows
    BY <2>1, <2>2 DEF LogRows
  <2>5. QED
    BY <2>3, <2>4 DEF ApprovalRows, RowAt
<1>2. ASSUME NEW place \in ApprovalRows
      PROVE  place[1] \in ApprovedToolCalls /\ place = <<place[1], 1>>
  <2>1. /\ place[1] \in Calls
        /\ place[2] \in 1..Len(call[place[1]].rows)
        /\ place = <<place[1], place[2]>>
        /\ ~ IsFinal(call[place[1]].rows[place[2]])
    BY PlaceTyped DEF ApprovalRows
  <2>2. place[2] = 1 /\ IsApprovedTool(request[place[1]], call[place[1]])
    BY <2>1 DEF AllCounted, Counted
  <2>3. call[place[1]].rows # <<>>
    BY <2>1
  <2>4. QED
    BY <2>1, <2>2, <2>3 DEF ApprovedToolCalls, IsApprovedTool
<1>3. first \in Bijection(ApprovedToolCalls, ApprovalRows)
  BY <1>1, <1>2 DEF Bijection, Injection, Surjection, IsInjective
<1> HIDE DEF first
<1>4. ExistsBijection(ApprovedToolCalls, ApprovalRows)
  BY <1>3 DEF ExistsBijection
<1>5. IsFiniteSet(ApprovedToolCalls)
  BY FS_Subset, UsageAssumption DEF ApprovedToolCalls
<1>6. QED
  BY <1>4, <1>5, FS_Bijection, FS_CardinalityType

\* Rows of which some end their call and the others are approvals.
LEMMA RowsAndApprovals ==
  ASSUME IInv, Trails, AllCounted, NEW places, NEW final \in SUBSET FinalPlaces,
         places = final \cup ApprovalRows
  PROVE  Cardinality(places) = Cardinality(final) + Cardinality(ApprovedToolCalls)
<1>1. /\ IsFiniteSet(final) /\ Cardinality(final) \in Nat
      /\ IsFiniteSet(ApprovalRows)
      /\ Cardinality(ApprovalRows) = Cardinality(ApprovedToolCalls)
      /\ Cardinality(ApprovedToolCalls) \in Nat
  BY CountedAsCalls, ApprovalsCounted
<1>2. final \cap ApprovalRows = {}
  BY DEF FinalPlaces, ApprovalRows
<1>3. Cardinality(final \cap ApprovalRows) = 0
  BY <1>2, FS_EmptySet
<1>4. Cardinality(final \cup ApprovalRows)
        = Cardinality(final) + Cardinality(ApprovalRows) - Cardinality(final \cap ApprovalRows)
  BY <1>1, FS_Union
<1>5. QED
  BY <1>1, <1>3, <1>4

\* The three counts that approvals are in, by what else is in them.
LEMMA ApprovalsAreExtra ==
  ASSUME IInv, Trails, AllCounted
  PROVE  /\ Cardinality(LogRows)
              = Cardinality(BlockedRows) + Cardinality(DeniedRows) + Cardinality(DryRunRows)
                + Cardinality(RequestRows) + Cardinality(ApprovedToolCalls)
         /\ Cardinality(ExecutedRows)
              = Cardinality(RequestRows) + Cardinality(ApprovedToolCalls)
         /\ Cardinality(SuccessRows)
              = Cardinality(OutcomeRows("success")) + Cardinality(ApprovedToolCalls)
<1> DEFINE final == BlockedRows \cup DeniedRows \cup DryRunRows \cup RequestRows
<1>1. ASSUME NEW place \in LogRows
      PROVE  /\ RowShape(RowAt(place))
             /\ RowAt(place).status \in {"blocked", "denied", "executed", "dry_run"}
             /\ RowAt(place).outcome \in Outcomes
             /\ RowAt(place).started \in BOOLEAN
  BY PlaceTyped DEF AuditEvent
<1>2. LogRows = final \cup ApprovalRows
  BY <1>1
  DEF BlockedRows, DeniedRows, DryRunRows, RequestRows, ApprovalRows, IsFinal
<1>3. ExecutedRows = RequestRows \cup ApprovalRows
  BY <1>1 DEF ExecutedRows, RequestRows, ApprovalRows, IsFinal, RowShape
<1>4. SuccessRows = OutcomeRows("success") \cup ApprovalRows
  BY <1>1
  DEF SuccessRows, OutcomeFromAudit, OutcomeRows, RequestRows, ApprovalRows, IsFinal, RowShape,
      Outcomes
<1>5. final \in SUBSET FinalPlaces /\ RequestRows \in SUBSET FinalPlaces
  BY CountedRows
<1>6. OutcomeRows("success") \in SUBSET FinalPlaces
  BY <1>5 DEF OutcomeRows
<1>7. Cardinality(final) = Cardinality(BlockedRows) + Cardinality(DeniedRows)
                           + Cardinality(DryRunRows) + Cardinality(RequestRows)
  BY KindsAdd
<1> HIDE DEF final
<1>8. QED
  BY <1>2, <1>3, <1>4, <1>5, <1>6, <1>7, RowsAndApprovals

\* What the numbers are, for any number of calls: requests and refusals are of calls, one of
\* each, and the three totals count the approval of every approved tool call on top.
THEOREM CountsCountCallsAndApprovals == Spec => []CountsAreCallsAndApprovals
<1>1. ASSUME IInv, Trails, AllCounted PROVE CountsAreCallsAndApprovals
  <2>1. /\ OutcomeRows("success") \in SUBSET FinalPlaces
        /\ OutcomeRows("failed_after_request") \in SUBSET FinalPlaces
        /\ OutcomeRows("unknown_after_timeout") \in SUBSET FinalPlaces
        /\ ConfirmationRows \in SUBSET FinalPlaces
    BY <1>1, CountedRows DEF OutcomeRows
  <2>2. /\ Cardinality(Answered({"success"})) <= UsageWith("success")
        /\ Cardinality(Answered({"failed"})) <= UsageWith("failed_after_request")
        /\ Cardinality(Answered({"unknown"})) <= UsageWith("unknown_after_timeout")
    BY <1>1, <2>1, AnsweredRows, OutcomesCounted, NoMoreThanRows
  <2>3. Cardinality(Answered({"confirmation_required"})) <= Cardinality(ConfirmationRows)
    BY <1>1, <2>1, AnsweredRows, NoMoreThanRows
  <2>4. UsageRequests = Cardinality(RequestRows)
    BY <1>1, RequestsCounted
  <2>5. /\ Cardinality(Answered({"success", "failed", "unknown"})) <= UsageRequests
        /\ UsageRequests <= Cardinality({c \in Calls : call[c].net # "unsent"})
    BY <1>1, <2>4, RequestsAreOfCalls
  <2>6. ErrorLike(LocalMetricsSummary) + LocalMetricsSummary.statusCounts.dry_run + UsageRequests
          <= Cardinality(CallsMade)
    BY <1>1, <2>4, MetricsCounted, AllAreOfCalls
  <2>7. LocalMetricsSummary.confirmationRequiredTotal + LocalMetricsSummary.outboundBlockedTotal
          + LocalMetricsSummary.secretMissingTotal <= ErrorLike(LocalMetricsSummary)
    BY <1>1, MetricsCounted, ReasonsAreOfRefusals
  <2>8. /\ LocalMetricsSummary.invocationsTotal
             = ErrorLike(LocalMetricsSummary) + LocalMetricsSummary.statusCounts.dry_run
               + UsageRequests + Cardinality(ApprovedToolCalls)
        /\ LocalMetricsSummary.statusCounts.executed
             = UsageRequests + Cardinality(ApprovedToolCalls)
    BY <1>1, <2>4, MetricsCounted, ApprovalsAreExtra
  <2>9. UsageSuccesses = UsageWith("success") + Cardinality(ApprovedToolCalls)
    BY <1>1, MetricsCounted, OutcomesCounted, ApprovalsAreExtra
  <2>10. QED
    BY <1>1, <2>2, <2>3, <2>5, <2>6, <2>7, <2>8, <2>9, MetricsCounted
    DEF CountsAreCallsAndApprovals
<1>2. QED
  BY <1>1, CountsInvariant, PTL

=============================================================================
