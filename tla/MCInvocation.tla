---------------------------- MODULE MCInvocation ----------------------------
(***************************************************************************)
(* Instances of Invocation.  Two calls are enough for everything two       *)
(* processes, or two tool calls of one server, can do to each other: they  *)
(* share only the database, the policy file and the server's session.      *)
(***************************************************************************)
EXTENDS UsageMetrics, TLC

CONSTANTS c1, c2

MCCalls == {c1, c2}

MCSymmetry == Permutations(MCCalls)

Permission(risk) == [resource |-> "issue", action |-> "use", risk |-> risk]

Reads == <<Permission("read_only")>>
Writes == <<Permission("read_only"), Permission("write")>>
Deletes == <<Permission("destructive")>>

\* A plain request; the others differ from it in one or two fields.
Cli(permissions) ==
  [channel |-> "cli", capability |-> "cap", installed |-> TRUE, permissions |-> permissions,
   trust |-> "tested", renderable |-> TRUE, target |-> "fixed_https_origin",
   credential |-> "resolved", dryRun |-> FALSE, assumeYes |-> FALSE]

Mcp(permissions) == [Cli(permissions) EXCEPT !.channel = "mcp"]

\* Two processes that both need the database before and after the request.
MCContenders == {Cli(Writes), Mcp(Writes)}

\* The requests that get past every gate a file or a policy does not close.
MCLiveRequests ==
  {Cli(Reads), [Cli(Writes) EXCEPT !.assumeYes = TRUE], Mcp(Reads)} \cup MCContenders

\* One request for every other way an invocation can go.
MCGatedRequests ==
  {[Cli(Writes) EXCEPT !.dryRun = TRUE],
   [Cli(Reads) EXCEPT !.dryRun = TRUE, !.renderable = FALSE],
   [Cli(Deletes) EXCEPT !.assumeYes = TRUE],
   [Cli(Reads) EXCEPT !.installed = FALSE],
   [Cli(Reads) EXCEPT !.credential = "unsupported"],
   [Mcp(Reads) EXCEPT !.installed = FALSE],
   [Mcp(Reads) EXCEPT !.renderable = FALSE],
   [Mcp(Writes) EXCEPT !.credential = "missing"],
   [Mcp(Writes) EXCEPT !.target = "private_network"]}

MCRequests == MCLiveRequests \cup MCGatedRequests

Rule(match, decision) == [match |-> match, decision |-> decision]

AllowAll == [default |-> "allow", rules |-> <<>>]
AskWrites ==
  [default |-> "ask", rules |-> <<Rule([risk |-> "read_only"], "allow")>>]
DenyWrites ==
  [default |-> "allow", rules |-> <<Rule([risk |-> "write"], "deny")>>]

MCPolicies == {AllowAll, AskWrites, DenyWrites}

\* One policy set under which tool calls are executed at once and the CLI prompts.
MCAskCli == {[default |-> "allow", rules |-> <<Rule([channel |-> "cli"], "ask")>>]}

=============================================================================
