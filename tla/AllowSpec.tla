----------------------------- MODULE AllowSpec -----------------------------
(***************************************************************************)
(* What an evaluation of several policies promises: given the decision of  *)
(* every policy on one request, it answers once, and the answer is "yes"   *)
(* exactly when no policy denies and at least one allows.                  *)
(***************************************************************************)
EXTENDS Naturals

CONSTANT MaxPolicies   \* bound: policies attached to one request

ASSUME MaxPoliciesAssumption == MaxPolicies \in Nat

\* policy.Decision.
Decision == {"none", "allow", "deny"}

\* Decisions of the policies on the request.  Decide is a pure function of
\* arguments that nobody writes during the evaluation.
DecisionLists == UNION {[1..n -> Decision] : n \in 0..MaxPolicies}

Allowed(d) ==
    /\ \A i \in DOMAIN d : d[i] # "deny"
    /\ \E i \in DOMAIN d : d[i] = "allow"

Verdict(d) == IF Allowed(d) THEN "yes" ELSE "no"

VARIABLES decisions,  \* what each policy decides
          answer      \* "pending" until the evaluation returns

absVars == <<decisions, answer>>

AbsInit ==
    /\ decisions \in DecisionLists
    /\ answer = "pending"

Answer ==
    /\ answer = "pending"
    /\ answer' = Verdict(decisions)
    /\ UNCHANGED decisions

AbsSpec == AbsInit /\ [][Answer]_absVars
============================================================================
