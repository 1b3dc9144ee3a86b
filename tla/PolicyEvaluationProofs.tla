----------------------- MODULE PolicyEvaluationProofs -----------------------
(***************************************************************************)
(* Three lemmas about the naturals, which take sets and functions where    *)
(* the library's take operators: a least element, induction, and the       *)
(* values of a fold; and lemmas about the policy operators: the choices    *)
(* they make exist and are unique, so the result of evaluatePolicy is one  *)
(* of the three decisions for every policy set and list of permissions.    *)
(***************************************************************************)
EXTENDS PolicyEvaluation, WellFoundedInduction, TLAPS

\* Every nonempty set of naturals has a least element.
LEMMA LeastNatural ==
  ASSUME NEW S, S \subseteq Nat, S # {}
  PROVE  \E m \in S : \A n \in S : m <= n
<1>1. \E x \in S : \A y \in S : ~ (<<y, x>> \in OpToRel(<, Nat))
  BY NatLessThanWellFounded, WFMin
<1>2. ASSUME NEW x \in S, NEW y \in S, ~ (<<y, x>> \in OpToRel(<, Nat))
      PROVE  x <= y
  <2>1. x \in Nat /\ y \in Nat
    OBVIOUS
  <2>2. ~ (y < x)
    BY <1>2, <2>1 DEF OpToRel
  <2>3. QED
    BY <2>1, <2>2
<1>3. QED
  BY <1>1, <1>2

\* Induction up to n over a set that holds 0 and with every number below n the next.
LEMMA InductionUpTo ==
  ASSUME NEW n \in Nat, NEW Good, 0 \in Good,
         \A k \in 1..n : k - 1 \in Good => k \in Good
  PROVE  \A k \in 0..n : k \in Good
<1> DEFINE Bad == {k \in 0..n : k \notin Good}
<1>1. SUFFICES ASSUME Bad # {} PROVE FALSE
  OBVIOUS
<1>2. Bad \subseteq Nat
  OBVIOUS
<1>3. PICK m \in Bad : \A k \in Bad : m <= k
  <2> HIDE DEF Bad
  <2>1. QED
    BY <1>1, <1>2, LeastNatural
<1>4. m \in 1..n
  OBVIOUS
<1>5. m - 1 \in 0..n /\ ~ (m <= m - 1)
  BY <1>4
<1>6. m - 1 \in Good
  BY <1>3, <1>5
<1>7. QED
  BY <1>3, <1>4, <1>6

\* A step takes a value and an index to a value; a fold over 1..n starts from base and
\* holds, after each index, what the step makes of the value before it.
IsStep(step, n, S) == \A x \in S, k \in 1..n : step[<<x, k>>] \in S

IsFold(f, n, S, base, step) ==
  /\ f \in [0..n -> S]
  /\ f[0] = base
  /\ \A k \in 1..n : f[k] = step[<<f[k - 1], k>>]

\* Every step has a fold: a loop that the code writes as one, the model may write as a
\* recursive function.
LEMMA FoldExists ==
  ASSUME NEW n \in Nat, NEW S, NEW base \in S, NEW step, IsStep(step, n, S)
  PROVE  \E f : IsFold(f, n, S, base, step)
<1> DEFINE Folds(m, f) == f[0] = base /\ \A k \in 1..m : f[k] = step[<<f[k - 1], k>>]
           Good == {m \in 0..n : \E f \in [0..m -> S] : Folds(m, f)}
<1>1. 0 \in Good
  <2> DEFINE f == [k \in 0..0 |-> base]
  <2>1. f \in [0..0 -> S] /\ Folds(0, f)
    OBVIOUS
  <2> HIDE DEF f, Folds
  <2>2. QED
    BY <2>1
<1>2. ASSUME NEW m \in 1..n, m - 1 \in Good
      PROVE  m \in Good
  <2>1. PICK f \in [0..(m - 1) -> S] : Folds(m - 1, f)
    BY <1>2
  <2> DEFINE g == [k \in 0..m |-> IF k = m THEN step[<<f[m - 1], m>>] ELSE f[k]]
  <2>2. step[<<f[m - 1], m>>] \in S
    BY DEF IsStep
  <2>3. g \in [0..m -> S]
    BY <2>2
  <2>4. g[0] = base
    BY <2>1
  <2>5. ASSUME NEW k \in 1..m
        PROVE  g[k] = step[<<g[k - 1], k>>]
    <3>1. k - 1 \in 0..m /\ k - 1 # m
      OBVIOUS
    <3>2. CASE k = m
      BY <3>1, <3>2
    <3>3. CASE k # m
      <4>1. k \in 1..(m - 1)
        BY <3>3
      <4>2. QED
        BY <2>1, <3>1, <3>3, <4>1
    <3>4. QED
      BY <3>2, <3>3
  <2>6. Folds(m, g)
    BY <2>4, <2>5
  <2> HIDE DEF g, Folds
  <2>7. QED
    BY <2>3, <2>6
<1>3. n \in Good
  <2> HIDE DEF Good
  <2>1. \A k \in 0..n : k \in Good
    BY <1>1, <1>2, InductionUpTo
  <2>2. QED
    BY <2>1
<1>4. QED
  BY <1>3 DEF IsFold

\* A policy set has at most one first match for given facts, so once a scan has
\* found one it is the one EvaluatePermission chooses.
LEMMA FirstMatchIsChosen ==
  ASSUME NEW ps, IsPolicySet(ps), NEW in, NEW permission,
         NEW i, IsFirstMatch(ps, Facts(in, permission), i)
  PROVE  EvaluatePermission(ps, in, permission) = RuleDecision(ps, i)
<1> DEFINE facts == Facts(in, permission)
<1>1. i \in DOMAIN ps.rules
  BY DEF IsFirstMatch, MatchingRules
<1>2. ASSUME NEW j \in DOMAIN ps.rules, IsFirstMatch(ps, facts, j)
      PROVE  j = i
  <2>1. i \in Int /\ j \in Int
    BY <1>1, <1>2 DEF IsPolicySet
  <2>2. i <= j /\ j <= i
    BY <1>2 DEF IsFirstMatch
  <2>3. QED
    BY <2>1, <2>2
<1>3. (CHOOSE j \in DOMAIN ps.rules : IsFirstMatch(ps, facts, j)) = i
  BY <1>1, <1>2
<1>4. MatchingRules(ps, facts) # {}
  BY DEF IsFirstMatch
<1>5. QED
  BY <1>3, <1>4 DEF EvaluatePermission

\* Without a matching rule the default decides.
LEMMA NoMatchIsDefault ==
  ASSUME NEW ps, NEW in, NEW permission,
         MatchingRules(ps, Facts(in, permission)) = {}
  PROVE  EvaluatePermission(ps, in, permission) = DefaultDecision(ps)
BY DEF EvaluatePermission

\* Of n decisions at most one is the first of the strictest.
LEMMA FirstStrictestIsUnique ==
  ASSUME NEW ds, NEW n \in Nat,
         \A j \in 1..n : ds[j].decision \in Decisions,
         NEW k \in 1..n, IsFirstStrictest(ds, n, k),
         NEW l \in 1..n, IsFirstStrictest(ds, n, l)
  PROVE  k = l
<1>1. \A d \in Decisions : Rank[d] \in Nat
  BY DEF Decisions, Rank
<1>2. Rank[ds[k].decision] = Rank[ds[l].decision]
  BY <1>1 DEF IsFirstStrictest
<1>3. ~ (k < l) /\ ~ (l < k)
  BY <1>1, <1>2 DEF IsFirstStrictest
<1>4. QED
  BY <1>3

\* One step of the reduce: what stricterPolicyDecision keeps of the first
\* strictest of n decisions and the next one is the first strictest of n + 1.
LEMMA ReduceKeepsFirstStrictest ==
  ASSUME NEW ds, NEW n \in Nat,
         \A j \in 1..(n + 1) : ds[j].decision \in Decisions,
         NEW k \in 1..n, IsFirstStrictest(ds, n, k)
  PROVE  \E l \in 1..(n + 1) :
            /\ IsFirstStrictest(ds, n + 1, l)
            /\ StricterPolicyDecision(ds[k], ds[n + 1]) = ds[l]
<1>1. \A d \in Decisions : Rank[d] \in Nat
  BY DEF Decisions, Rank
<1>2. \A j \in 1..(n + 1) : Rank[ds[j].decision] \in Nat
  BY <1>1
<1>3. \A j \in 1..(n + 1) : j \in 1..n \/ j = n + 1
  OBVIOUS
<1>4. CASE Rank[ds[n + 1].decision] > Rank[ds[k].decision]
  <2>1. IsFirstStrictest(ds, n + 1, n + 1)
    BY <1>2, <1>3, <1>4 DEF IsFirstStrictest
  <2>2. StricterPolicyDecision(ds[k], ds[n + 1]) = ds[n + 1]
    BY <1>4 DEF StricterPolicyDecision
  <2>3. QED
    BY <2>1, <2>2
<1>5. CASE ~ (Rank[ds[n + 1].decision] > Rank[ds[k].decision])
  <2>1. IsFirstStrictest(ds, n + 1, k)
    BY <1>2, <1>3, <1>5 DEF IsFirstStrictest
  <2>2. StricterPolicyDecision(ds[k], ds[n + 1]) = ds[k]
    BY <1>5 DEF StricterPolicyDecision
  <2>3. QED
    BY <2>1, <2>2
<1>6. QED
  BY <1>4, <1>5

\* The decision of one permission is one of the three decisions.
LEMMA PermissionDecisionTyped ==
  ASSUME NEW ps, IsPolicySet(ps), NEW in, NEW permission
  PROVE  EvaluatePermission(ps, in, permission).decision \in Decisions
<1> DEFINE facts == Facts(in, permission)
           S     == MatchingRules(ps, facts)
<1>1. CASE S = {}
  BY <1>1, NoMatchIsDefault DEF DefaultDecision, IsPolicySet
<1>2. CASE S # {}
  <2>1. S \subseteq Nat /\ S \subseteq DOMAIN ps.rules
    BY DEF MatchingRules, IsPolicySet
  <2>2. PICK i \in S : \A j \in S : i <= j
    BY ONLY <1>2, <2>1, LeastNatural
  <2>3. IsFirstMatch(ps, facts, i)
    BY <2>2 DEF IsFirstMatch
  <2>4. EvaluatePermission(ps, in, permission) = RuleDecision(ps, i)
    BY <2>3, FirstMatchIsChosen
  <2>5. QED
    BY <2>1, <2>2, <2>4 DEF RuleDecision, IsPolicySet
<1>3. QED
  BY <1>1, <1>2

\* Of at least one decision there is a first of the strictest.
LEMMA FirstStrictestExists ==
  ASSUME NEW ds, NEW n \in Nat, n > 0,
         \A j \in 1..n : ds[j].decision \in Decisions
  PROVE  \E k \in 1..n : IsFirstStrictest(ds, n, k)
<1> DEFINE Top(r)  == \A j \in 1..n : Rank[ds[j].decision] <= r
           Best(r) == {k \in 1..n : Rank[ds[k].decision] = r}
<1>1. \A j \in 1..n : Rank[ds[j].decision] \in 1..3
  BY DEF Decisions, Rank
<1>2. \E r \in 1..3 : Top(r) /\ Best(r) # {}
  <2>1. Best(1) # {} \/ Best(2) # {} \/ Best(3) # {}
    BY <1>1
  <2>2. CASE Best(3) # {}
    BY <1>1, <2>2
  <2>3. CASE Best(3) = {} /\ Best(2) # {}
    BY <1>1, <2>3
  <2>4. CASE Best(3) = {} /\ Best(2) = {}
    BY <1>1, <2>1, <2>4
  <2>5. QED
    BY <2>2, <2>3, <2>4
<1>3. PICK r \in 1..3 : Top(r) /\ Best(r) # {}
  BY <1>2
<1>4. PICK k \in Best(r) : \A j \in Best(r) : k <= j
  <2>1. Best(r) \subseteq Nat
    OBVIOUS
  <2> HIDE DEF Best
  <2>2. QED
    BY <1>3, <2>1, LeastNatural
<1>5. \A j \in 1..n : j < k => Rank[ds[j].decision] < Rank[ds[k].decision]
  <2> SUFFICES ASSUME NEW j \in 1..n, j < k
               PROVE  Rank[ds[j].decision] < Rank[ds[k].decision]
    OBVIOUS
  <2>1. Rank[ds[j].decision] # r
    BY <1>4
  <2>2. QED
    BY <1>1, <1>3, <1>4, <2>1
<1>6. QED
  BY <1>1, <1>3, <1>4, <1>5 DEF IsFirstStrictest

\* evaluatePolicy returns one of the three decisions.
LEMMA PolicyDecisionTyped ==
  ASSUME NEW ps, IsPolicySet(ps), NEW in, Len(in.permissions) \in Nat
  PROVE  EvaluatePolicy(ps, in).decision \in Decisions
<1> DEFINE n  == Len(in.permissions)
           ds == PermissionDecisions(ps, in)
<1>1. CASE n = 0
  BY <1>1 DEF EvaluatePolicy, DefaultDecision, IsPolicySet
<1>2. CASE n # 0
  <2>1. \A j \in 1..n : ds[j].decision \in Decisions
    BY PermissionDecisionTyped DEF PermissionDecisions
  <2> HIDE DEF ds
  <2>2. \E k \in 1..n : IsFirstStrictest(ds, n, k)
    BY <1>2, <2>1, FirstStrictestExists
  <2>3. (CHOOSE k \in 1..n : IsFirstStrictest(ds, n, k)) \in 1..n
    BY <2>2
  <2>4. EvaluatePolicy(ps, in) = ds[CHOOSE k \in 1..n : IsFirstStrictest(ds, n, k)]
    BY <1>2 DEF EvaluatePolicy, ds
  <2>5. QED
    BY <2>1, <2>3, <2>4
<1>3. QED
  BY <1>1, <1>2

\* What evaluatePolicy returns is a strictest decision of the permissions: deny as soon
\* as one of them is denied, else ask as soon as one asks, else allow.
LEMMA PolicyDecisionIsStrictest ==
  ASSUME NEW ps, IsPolicySet(ps), NEW in, Len(in.permissions) \in Nat, Len(in.permissions) # 0,
         NEW each, each = {EvaluatePermission(ps, in, in.permissions[k]).decision :
                             k \in 1..Len(in.permissions)}
  PROVE  EvaluatePolicy(ps, in).decision = IF "deny" \in each THEN "deny"
                                           ELSE IF "ask" \in each THEN "ask" ELSE "allow"
<1> DEFINE n  == Len(in.permissions)
           ds == PermissionDecisions(ps, in)
           k  == CHOOSE j \in 1..n : IsFirstStrictest(ds, n, j)
<1>1. \A j \in 1..n : ds[j].decision \in Decisions
  BY PermissionDecisionTyped DEF PermissionDecisions
<1>2. each = {ds[j].decision : j \in 1..n}
  BY DEF PermissionDecisions
<1>3. EvaluatePolicy(ps, in) = ds[k]
  BY DEF EvaluatePolicy
<1> HIDE DEF ds
<1>4. \E j \in 1..n : IsFirstStrictest(ds, n, j)
  <2>1. n \in Nat /\ n > 0
    OBVIOUS
  <2> HIDE DEF n
  <2>2. QED
    BY ONLY <1>1, <2>1, FirstStrictestExists
<1>5. k \in 1..n /\ IsFirstStrictest(ds, n, k)
  BY <1>4
<1> HIDE DEF k
<1>6. \A j \in 1..n : Rank[ds[j].decision] <= Rank[ds[k].decision]
  BY <1>5 DEF IsFirstStrictest
<1>7. Rank["allow"] = 1 /\ Rank["ask"] = 2 /\ Rank["deny"] = 3
  BY DEF Rank
<1> HIDE DEF n
<1>8. ds[k].decision = IF "deny" \in each THEN "deny"
                       ELSE IF "ask" \in each THEN "ask" ELSE "allow"
  <2>1. CASE ds[k].decision = "deny"
    BY <1>2, <1>5, <2>1
  <2>2. CASE ds[k].decision = "ask"
    <3>1. "ask" \in each
      BY <1>2, <1>5, <2>2
    <3>2. \A j \in 1..n : ds[j].decision # "deny"
      BY <1>6, <1>7, <2>2
    <3>3. QED
      BY <1>2, <2>2, <3>1, <3>2
  <2>3. CASE ds[k].decision = "allow"
    <3>1. \A j \in 1..n : ds[j].decision # "deny" /\ ds[j].decision # "ask"
      BY <1>6, <1>7, <2>3
    <3>2. QED
      BY <1>2, <2>3, <3>1
  <2>4. QED
    BY <1>1, <1>5, <2>1, <2>2, <2>3 DEF Decisions
<1>9. QED
  BY <1>3, <1>8

=============================================================================
