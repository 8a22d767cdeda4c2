---------------------------- MODULE PolicyOrder ----------------------------
(***************************************************************************)
(* The order of the policies around an operation: sortPolicies and         *)
(* buildExecutionChain of core/pipeline/index.ts.  A policy is a record    *)
(* with its name and its order, a value of Options: a number, or an object *)
(* that names a built-in policy "before" or "after" which it stands.       *)
(* Places are counted in halves, like all numbers of Options.              *)
(***************************************************************************)
EXTENDS Contracts, SequencesExt

BuiltinOrder ==
    [fallback |-> 100, cache |-> 150, retry |-> 200, timeout |-> 400, dedupe |-> 425,
     hedge |-> 450, bulkhead |-> 600]
        @@ ("circuit-breaker" :> 300) @@ ("rate-limiter" :> 500)

\* Number.MAX_SAFE_INTEGER, as far as other places can tell.
Innermost == 1000000

AnchorPlace(anchor) ==
    IF anchor.text \in DOMAIN BuiltinOrder THEN 2 * BuiltinOrder[anchor.text] ELSE Innermost

PolicyOrderValue(order) ==
    CASE IsNumber(order) -> order.halves
      [] IsObject(order) /\ "before" \in DOMAIN order.fields -> AnchorPlace(order.fields.before) - 1
      [] IsObject(order) /\ "after" \in DOMAIN order.fields -> AnchorPlace(order.fields.after) + 1
      [] OTHER -> Innermost

\* compareOrderedPolicies: by place, then by registration.
Precedes(policies, i, j) ==
    LET Place(n) == PolicyOrderValue(policies[n].order) IN
    Place(i) < Place(j) \/ (Place(i) = Place(j) /\ i < j)

SortPolicies(policies) ==
    LET line == SortSeq([n \in DOMAIN policies |-> n], LAMBDA i, j : Precedes(policies, i, j))
    IN [n \in DOMAIN policies |-> policies[line[n]]]

\* What a call goes through from the outside in, when every policy calls next.
BuildExecutionChain(policies) ==
    FoldRight(LAMBDA policy, next : <<policy.name>> \o next, policies, <<"operation">>)
=============================================================================
