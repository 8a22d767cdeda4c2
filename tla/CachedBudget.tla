---------------------------- MODULE CachedBudget ----------------------------
(***************************************************************************)
(* Calls of one LLM client through its cache and its budget guard.  The    *)
(* cache (order 150) is outside the guard (199.5), the retries and the     *)
(* provider are inside.                                                    *)
(*                                                                         *)
(* A call runs without a pause from its lookup to its reservation, then    *)
(* from the answer of the provider to the settlement, then, one await      *)
(* later, to the store.  Between them other calls look up, reserve, settle *)
(* and store.                                                              *)
(***************************************************************************)
EXTENDS Cache, Budget

CONSTANTS
    Calls,
    Requests,       \* [key, scope, model, inputTokens, outputTokens], the tokens estimated
    Responses       \* [kind, model, inputTokens, outputTokens]; a policy or plugin inside
                    \* may answer null or undefined, which has no model

NoRequest == [key |-> "none"]
NoResponse == [kind |-> "none"]
Nobody == "nobody"

ASSUME CallsAssumption ==
    /\ IsFiniteSet(Calls)
    /\ NoRequest \notin Requests /\ NoResponse \notin Responses
    /\ \A r \in Requests : r.scope \in Scopes /\ {r.inputTokens, r.outputTokens} \subseteq Nat
    /\ \A r \in Responses : {r.inputTokens, r.outputTokens} \subseteq Nat

VARIABLES
    phase,          \* "idle", "running" (provider asked), "settled" or "over"
    request,        \* request[c]
    response,       \* response[c], once it is settled
    served,         \* history: the call whose value a hit has returned
    latest,         \* history: latest[k], the call that stored for key k last
    storedAt        \* history: when a call stored its value

vars == <<cacheVars, budgetVars, phase, request, response, served, latest, storedAt>>

Keys == {r.key : r \in Requests}

Init ==
    /\ CacheInit
    /\ BudgetInit
    /\ phase = [c \in Calls |-> "idle"]
    /\ request = [c \in Calls |-> NoRequest]
    /\ response = [c \in Calls |-> NoResponse]
    /\ served = [c \in Calls |-> Nobody]
    /\ latest = [k \in Keys |-> Nobody]
    /\ storedAt = [c \in Calls |-> 0]

Begins(c, r, stage) ==
    /\ phase[c] = "idle"
    /\ phase' = [phase EXCEPT ![c] = stage]
    /\ request' = [request EXCEPT ![c] = r]

\* A hit never gets as far as the budget.
CallHits(c, r) ==
    /\ Begins(c, r, "over")
    /\ \E entry \in ToSet(entries) :
        /\ LookupHits(r.key, entry)
        /\ served' = [served EXCEPT ![c] = entry.value]
    /\ UNCHANGED <<budgetVars, response, latest, storedAt>>

CallAdmitted(c, r) ==
    /\ Begins(c, r, "running")
    /\ LookupMisses(r.key)
    /\ Admit(r)
    /\ UNCHANGED <<response, served, latest, storedAt>>

CallRefused(c, r) ==
    /\ Begins(c, r, "over")
    /\ LookupMisses(r.key)
    /\ Refuse(r)
    /\ UNCHANGED <<response, served, latest, storedAt>>

ProviderAnswers(c, answer) ==
    /\ phase[c] = "running"
    /\ Settle(request[c], Cost(answer))
    /\ phase' = [phase EXCEPT ![c] = "settled"]
    /\ response' = [response EXCEPT ![c] = answer]
    /\ UNCHANGED <<cacheVars, request, served, latest, storedAt>>

\* Every attempt has failed, or the call was aborted: nothing is spent.
ProviderFails(c) ==
    /\ phase[c] = "running"
    /\ Settle(request[c], 0)
    /\ phase' = [phase EXCEPT ![c] = "over"]
    /\ UNCHANGED <<cacheVars, request, response, served, latest, storedAt>>

\* The rest of executeWithCache: the value, whoever else has stored one by
\* now, takes the place of the key.
CallStores(c) ==
    /\ phase[c] = "settled"
    /\ ShouldCacheValue(response[c].kind)
    /\ StoreValue(request[c].key, c)
    /\ phase' = [phase EXCEPT ![c] = "over"]
    /\ latest' = [latest EXCEPT ![request[c].key] = c]
    /\ storedAt' = [storedAt EXCEPT ![c] = clock]
    /\ UNCHANGED <<budgetVars, request, response, served>>

CallSkips(c) ==
    /\ phase[c] = "settled"
    /\ ~ShouldCacheValue(response[c].kind)
    /\ phase' = [phase EXCEPT ![c] = "over"]
    /\ UNCHANGED <<cacheVars, budgetVars, request, response, served, latest, storedAt>>

Next ==
    \/ \E c \in Calls, r \in Requests : CallHits(c, r) \/ CallAdmitted(c, r) \/ CallRefused(c, r)
    \/ \E c \in Calls, answer \in Responses : ProviderAnswers(c, answer)
    \/ \E c \in Calls : ProviderFails(c) \/ CallStores(c) \/ CallSkips(c)
    \/ ClockMoves /\ UNCHANGED <<budgetVars, phase, request, response, served, latest, storedAt>>

Spec == Init /\ [][Next]_vars
-----------------------------------------------------------------------------
(* Properties *)

\* The calls whose answers have been charged to scope s, and those that hold
\* a reservation there.
Charged(s) == {c \in Calls : response[c] # NoResponse /\ request[c].scope = s /\ Guarded(request[c])}
OnTheirWay(s) == {c \in Calls : phase[c] = "running" /\ request[c].scope = s}

CostOf == [c \in Calls |-> IF response[c] = NoResponse THEN 0 ELSE Cost(response[c])]
HeldBy == [c \in Calls |-> IF request[c] = NoRequest THEN 0 ELSE Reservation(request[c])]
Excess == [c \in Calls |-> IF CostOf[c] > HeldBy[c] THEN CostOf[c] - HeldBy[c] ELSE 0]

\* The ledger agrees with the calls: what is reserved are the estimates of the
\* requests on their way and nothing else, what is committed the costs of the
\* answers.  Hits, refusals and failures leave no trace in it.
LedgerBalances ==
    \A s \in Scopes :
        /\ reserved[s] = SumFunctionOnSet(HeldBy, OnTheirWay(s))
        /\ committed[s] = SumFunctionOnSet(CostOf, Charged(s))

\* Spent and reserved together pass the cap by no more than the answers that
\* cost more than was estimated for them, however many calls overlap.
SpendCapped ==
    BudgetOptions.accumulated # NoCap =>
        \A s \in Scopes :
            committed[s] + reserved[s]
                <= BudgetOptions.accumulated + SumFunctionOnSet(Excess, Charged(s))

\* A hit returns the value that was stored last for its own key, and returns
\* it within its time to live, though misses of the key finish in any order.
HitIsCurrent ==
    [][\A c \in Calls : served'[c] # served[c] =>
        /\ served'[c] = latest[request'[c].key]
        /\ clock < storedAt[served'[c]] + CacheOptions.ttl]_vars

\* The cache stays within its capacity, and drops an entry that is still valid
\* only for a newer one of its key or for want of room among valid ones.
LiveEntriesStay ==
    [][/\ Len(entries') <= CacheOptions.maxEntries
       /\ \A entry \in ToSet(entries) \ ToSet(entries') :
            \/ IsExpired(entry)
            \/ \E other \in ToSet(entries') : other.key = entry.key
            \/ /\ Len(entries') = CacheOptions.maxEntries
               /\ \A other \in ToSet(entries') : Live(other)]_vars
=============================================================================
