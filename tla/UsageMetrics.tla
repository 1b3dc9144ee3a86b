---------------------------- MODULE UsageMetrics ----------------------------
(***************************************************************************)
(* What is counted from the rows of the audit log: one usage event per row *)
(* (packages/runtime/src/usage-event.ts), the local metrics (metrics.ts)   *)
(* and the error rate the command line prints.  A tool call that is        *)
(* approved has two rows, its confirmation and its execution.              *)
(***************************************************************************)
EXTENDS Invocation

\* The log holds the rows of finitely many calls.
ASSUME UsageAssumption == IsFiniteSet(Calls)

UsageOutcomes ==
  {"success", "blocked", "failed_before_request", "failed_after_request",
   "unknown_after_timeout", "dry_run"}

\* A row without an outcome that is neither a refusal nor a dry run is a success.
OutcomeFromAudit(row) ==
  CASE row.status = "dry_run" -> "dry_run"
    [] row.status \in {"blocked", "denied"} -> "blocked"
    [] row.status = "executed" /\ row.outcome = "none" -> "success"
    [] OTHER -> row.outcome

\* Mutant: every executed row is taken for a request.
ExecutedIsARequest(row) == IF row.status = "executed" THEN 1 ELSE 0

HttpRequestCount(row) == IF row.started THEN 1 ELSE 0

UsageEvent(row) ==
  [outcome          |-> OutcomeFromAudit(row),
   status           |-> row.status,
   requestStarted   |-> row.started,
   dryRun           |-> row.status = "dry_run",
   httpRequestCount |-> HttpRequestCount(row)]

\* The rows of the log, by their places.
LogRows == UNION {{<<c, i>> : i \in 1..Len(call[c].rows)} : c \in Calls}

RowAt(place) == call[place[1]].rows[place[2]]

Rows(IsCounted(_)) == Cardinality({place \in LogRows : IsCounted(RowAt(place))})

\* The sum of what the events count, as the number of what they count.
UsageRequests ==
  Cardinality(UNION {{<<place, k>> : k \in 1..UsageEvent(RowAt(place)).httpRequestCount} :
                       place \in LogRows})

UsageWith(outcome) ==
  Rows(LAMBDA row : UsageEvent(row).requestStarted /\ UsageEvent(row).outcome = outcome)

UsageSuccesses == Rows(LAMBDA row : UsageEvent(row).outcome = "success")

\* The only event that records the outbound decision is the one that blocks.
OutboundBlockedRow(row) == row = OutboundBlockedEvent

LocalMetricsSummary ==
  [invocationsTotal          |-> Rows(LAMBDA row : TRUE),
   statusCounts              |-> [status \in {"blocked", "denied", "executed", "dry_run"} |->
                                    Rows(LAMBDA row : row.status = status)],
   policyDecisionCounts      |-> [decision \in Decisions |-> Rows(LAMBDA row : row.decision = decision)],
   confirmationRequiredTotal |-> Rows(LAMBDA row : row.confirmation = "confirmation_required"),
   outboundBlockedTotal      |-> Rows(OutboundBlockedRow),
   secretMissingTotal        |-> Rows(LAMBDA row : row.outcome = "failed_before_request")]

\* localMetricsErrorRate, as the numerator over invocationsTotal.
ErrorLike(summary) == summary.statusCounts.blocked + summary.statusCounts.denied

-----------------------------------------------------------------------------
Answered(replies) == {c \in Calls : call[c].reply \in replies}

\* The tool calls whose approval is in the log.
ApprovedToolCalls ==
  {c \in Calls :
     /\ request[c].channel = "mcp"
     /\ call[c].confirmation = "approved"
     /\ call[c].rows # <<>>}

CallsMade == {c \in Calls : call[c].pc # "idle"}

\* What the numbers say of calls although rows are counted.  Every answer that tells of a
\* request is one counted request with that outcome, and no request is counted that was
\* not sent; refusals, dry runs and requests are of different calls.  The invocations, the
\* executed ones and the successes of the usage events are not counts of calls: they
\* count the approval of a tool call, an executed row and a success of its own, on top of
\* what the call came to, be it a request, a refusal or nothing.  Each approved tool call
\* is counted once too often in each of the three, and no other call is in any.  (The
\* decisions are counted by row as well and nothing is said of them here.)
CountsAreCallsAndApprovals ==
  LET summary   == LocalMetricsSummary
      counts    == summary.statusCounts
      approvals == Cardinality(ApprovedToolCalls)
  IN  /\ Cardinality(Answered({"success", "failed", "unknown"})) <= UsageRequests
      /\ UsageRequests <= Cardinality({c \in Calls : call[c].net # "unsent"})
      /\ Cardinality(Answered({"success"})) <= UsageWith("success")
      /\ Cardinality(Answered({"failed"})) <= UsageWith("failed_after_request")
      /\ Cardinality(Answered({"unknown"})) <= UsageWith("unknown_after_timeout")
      /\ ErrorLike(summary) + counts.dry_run + UsageRequests <= Cardinality(CallsMade)
      /\ summary.invocationsTotal
           = ErrorLike(summary) + counts.dry_run + UsageRequests + approvals
      /\ counts.executed = UsageRequests + approvals
      /\ UsageSuccesses = UsageWith("success") + approvals
      /\ Cardinality(Answered({"confirmation_required"})) <= summary.confirmationRequiredTotal
      /\ summary.confirmationRequiredTotal + summary.outboundBlockedTotal
           + summary.secretMissingTotal <= ErrorLike(summary)

=============================================================================
