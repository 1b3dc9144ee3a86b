--------------------------- MODULE GatedExecution ---------------------------
(***************************************************************************)
(* What an invocation promises its caller, without policies, databases,    *)
(* processes or records:                                                   *)
(*   - the request leaves once, after an approval and before the answer;   *)
(*   - the effect happens at most once, because of that request, possibly  *)
(*     after the answer;                                                   *)
(*   - "success" is answered only when the effect happened and its log     *)
(*     entry is durable; "refused" only when nothing was sent and nothing  *)
(*     ever will be; "unknown" and "failed" only when something was sent.  *)
(*   - "error" promises nothing.                                           *)
(***************************************************************************)
CONSTANT Calls

VARIABLES
  approved,  \* the calls somebody or some policy approved
  sent,      \* the calls whose request left
  effect,    \* the calls whose effect happened
  logged,    \* the calls with a durable log entry of their outcome
  answer     \* what each caller was told

vars == <<approved, sent, effect, logged, answer>>

Open(c) == answer[c] = "none"

Init ==
  /\ approved = {}
  /\ sent = {}
  /\ effect = {}
  /\ logged = {}
  /\ answer = [c \in Calls |-> "none"]

Approve(c) ==
  /\ Open(c)
  /\ approved' = approved \cup {c}
  /\ UNCHANGED <<sent, effect, logged, answer>>

Send(c) ==
  /\ Open(c)
  /\ c \in approved \ sent
  /\ sent' = sent \cup {c}
  /\ UNCHANGED <<approved, effect, logged, answer>>

Perform(c) ==
  /\ c \in sent \ effect
  /\ effect' = effect \cup {c}
  /\ UNCHANGED <<approved, sent, logged, answer>>

Log(c) ==
  /\ Open(c)
  /\ c \in sent
  /\ logged' = logged \cup {c}
  /\ UNCHANGED <<approved, sent, effect, answer>>

MayAnswer(c, a) ==
  CASE a = "success" -> c \in approved \cap sent \cap effect \cap logged
    [] a = "refused" -> c \notin sent
    [] a \in {"failed", "unknown"} -> c \in sent \cap logged
    [] a = "error" -> TRUE

AnswerCall(c) ==
  /\ Open(c)
  /\ \E a \in {"success", "refused", "failed", "unknown", "error"} :
       /\ MayAnswer(c, a)
       /\ answer' = [answer EXCEPT ![c] = a]
  /\ UNCHANGED <<approved, sent, effect, logged>>

Next ==
  \E c \in Calls : Approve(c) \/ Send(c) \/ Perform(c) \/ Log(c) \/ AnswerCall(c)

Spec == Init /\ [][Next]_vars

=============================================================================
