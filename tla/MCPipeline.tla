----------------------------- MODULE MCPipeline -----------------------------
(* Registrations of policies for PolicyOrder, and contexts for Contracts.  *)
EXTENDS PolicyOrder

Documented == <<"fallback", "cache", "retry", "circuit-breaker", "timeout", "dedupe", "hedge",
                "rate-limiter", "bulkhead">>

Policy(name, order) == [name |-> name, order |-> order]
Builtin(name) == Policy(name, Number(BuiltinOrder[name]))
Chain(policies) == BuildExecutionChain(SortPolicies(policies))
Without(chain, names) == SelectSeq(chain, LAMBDA name : name \notin names)

BeforeAnchor(anchor) == Object([before |-> anchor])
AfterAnchor(anchor) == Object([after |-> anchor])

Orders ==
    {Undefined, Null, NotFinite, Empty, Array(<<>>), Number(120), Halves(399), Object(<<>>),
     Object([before |-> String("cache"), after |-> String("retry")])}
        \cup {BeforeAnchor(String(name)) : name \in {"retry", "bulkhead", "other"}}
        \cup {AfterAnchor(String(name)) : name \in {"cache", "timeout", "other"}}

\* The table of docs/core/policy-ordering.md: the policies that are configured
\* stand in its order, however they were registered, and the operation is
\* innermost.
ASSUME ChainIsDocumented ==
    \A S \in UNION {kSubset(n, ToSet(Documented)) : n \in {1, 2, 3, 9}} :
    \A line \in IF Cardinality(S) = 9 THEN {Documented, Reverse(Documented)} ELSE SetToSeqs(S) :
        Chain([n \in DOMAIN line |-> Builtin(line[n])])
            = Append(SelectSeq(Documented, LAMBDA name : name \in S), "operation")

\* A policy of the user, wherever it is registered, leaves the others in their
\* order.  If its order is accepted, an anchor is its neighbour, and two such
\* policies of one order stand as they were registered.  If it is not, what
\* the client cannot resolve is put next to the operation.
ASSUME CustomPoliciesFindTheirPlace ==
    LET all == [n \in DOMAIN Documented |-> Builtin(Documented[n])] IN
    \A order \in Orders, at \in 1..(Len(all) + 1) :
        LET mine == <<Policy("first", order), Policy("second", order)>>
            chain == Chain(SubSeq(all, 1, at - 1) \o mine \o SubSeq(all, at, Len(all)))
            Neighbours(m, n) == \E i \in 1..(Len(chain) - 1) : chain[i] = m /\ chain[i + 1] = n
        IN
        order # NotFinite =>
            /\ Without(chain, {"first", "second"}) = Append(Documented, "operation")
            /\ Neighbours("first", "second")
            /\ PolicyOrderOK(order) /\ IsObject(order) =>
                IF "before" \in DOMAIN order.fields
                THEN Neighbours("second", order.fields.before.text)
                ELSE Neighbours(order.fields.after.text, "first")
            /\ ~PolicyOrderOK(order) /\ ~IsObject(order) => Neighbours("second", "operation")

\* Where the budget guard of @resili/llm asks to stand, and what it is there
\* for: within the cache, around all retries.
ASSUME BudgetStandsAroundRetries ==
    \A line \in SetToSeqs({Builtin("cache"), Builtin("retry"), Builtin("fallback"),
                           Policy("llm-budget", BeforeAnchor(String("retry")))}) :
        Chain(line) = <<"fallback", "cache", "llm-budget", "retry", "operation">>
-----------------------------------------------------------------------------
Values == {Undefined, Empty, String("mine"), Number(-3), Number(0), Number(3), Halves(3), NotFinite}

InitFields == {"requestId", "serviceName", "attemptNumber", "startedAt", "deadline", "deadlineMs"}

Inits ==
    {Object([[h \in InitFields |-> Undefined] EXCEPT ![f] = v, ![g] = w]) :
        f, g \in InitFields, v, w \in Values}

Patches ==
    {Object([attemptNumber |-> v, metadata |-> m]) :
        v \in Values, m \in {Undefined, Object([own |-> 1]), Object([tenant |-> 2])}}

\* A fork is the same call: its identity, start, deadline and the metadata
\* that it does not replace stay, and its number is one higher or as asked; a
\* deadline is never before the start of its call unless the caller gave it.
ASSUME ForksAreTheSameCall ==
    \A init \in {i \in Inits : ContextInitOK(i)}, patch \in {p \in Patches : ContextForkPatchOK(p)} :
        LET root == CreateContext(init, Number(7), String("random"))
            ctx == Fork([root EXCEPT !.metadata = [tenant |-> 1, region |-> 1]], patch)
        IN
        /\ IsText(root.requestId) /\ IsText(root.serviceName) /\ IntegerAtLeast(root.attemptNumber, 1)
        /\ root.deadline = NotFinite
            \/ root.deadline = Get(init, "deadline") \/ root.deadline.halves >= root.startedAt.halves
        /\ IntegerAtLeast(ctx.attemptNumber, 1)
        /\ \A f \in DOMAIN root \ {"attemptNumber", "metadata"} : ctx[f] = root[f]
        /\ ctx.metadata.region = 1
        /\ ctx.metadata.tenant \in {1, 2}
        /\ Given(Get(patch, "metadata")) => \A k \in DOMAIN patch.fields.metadata.fields :
                ctx.metadata[k] = patch.fields.metadata.fields[k]
=============================================================================
