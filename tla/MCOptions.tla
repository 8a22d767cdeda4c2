----------------------------- MODULE MCOptions -----------------------------
(* Arguments of create for Options: valid objects of options in which any  *)
(* two options are replaced by values of every kind, and arguments that    *)
(* are no objects.                                                         *)
EXTENDS Options

Samples ==
    {Undefined, Null, NotFinite, Function, Empty, Blank, Boolean(TRUE)}
        \cup {Halves(n) : n \in {-2, 0, 1, 2, 4, 6, 201}}

Texts == {String(s) : s \in {"fixed", "exponential", "none", "full", "wait", "reject",
                             "token-bucket", "sliding-window", "key"}}

Nothing(fields) == [f \in fields |-> Undefined]

\* P of the arguments that differ from a base in two options at most, and of
\* those that are no objects.
ForAll(base, values, P(_)) ==
    /\ \A v \in Samples : P(v)
    /\ \A f, g \in DOMAIN base, v, w \in values :
            P(Object([base EXCEPT ![f] = v, ![g] = w]))

Window(type, size, durationMs) ==
    Object([type |-> String(type), size |-> size, durationMs |-> durationMs])

Windows == {Window("count", Number(1), Undefined), Window("count", Halves(3), Undefined),
            Window("time", Undefined, Number(1)), Window("time", Undefined, Number(0))}

ForRetryOptions(P(_)) == ForAll(Nothing(RetryFields), Samples \cup Texts, P)

ForBreakerOptions(P(_)) ==
    ForAll([Nothing(BreakerFields) EXCEPT
                !.window = Window("count", Number(3), Undefined),
                !.minimumThroughput = Number(2)],
           Samples \cup Windows, P)

ForBulkheadOptions(P(_)) ==
    ForAll([maxConcurrent |-> Number(2), maxQueue |-> Number(1),
            queueTimeoutMs |-> Undefined, key |-> Undefined], Samples, P)

ForLimiterOptions(P(_)) ==
    \A strategy \in {Undefined, String("sliding-window")} :
        ForAll([Nothing(LimiterFields) EXCEPT
                    !.limit = Number(2), !.intervalMs = Number(3), !.strategy = strategy],
               Samples \cup {String("wait"), String("reject"), String("token-bucket")}, P)

ForCacheOptions(P(_)) ==
    ForAll([key |-> Function, ttl |-> Number(1), maxEntries |-> Undefined,
            cacheNull |-> Undefined, cacheUndefined |-> Undefined], Samples, P)

\* An empty object of options is the same as none, and so are the defaults
\* when they are spelled out.
ASSUME DefaultsAgree ==
    /\ RetryOptions(Object(Nothing(RetryFields))) = RetryOptions(Undefined)
    /\ BreakerOptions(Object(Nothing(BreakerFields))) = BreakerOptions(Undefined)
    /\ RetryAccepts(Object(Nothing(RetryFields)))
    /\ BreakerAccepts(Object(Nothing(BreakerFields)))
    /\ BreakerAccepts(Object([f \in BreakerFields |->
            IF f \in DOMAIN BreakerDefaults THEN BreakerDefaults[f] ELSE Undefined]))

\* The delay before a retry lies between nothing and maxDelayMs whatever the
\* service asks for, and otherwise does not shrink from retry to retry: this
\* is what the model of the retry loop takes for its Delays.
ASSUME DelaysAreBounded ==
    ForRetryOptions(LAMBDA arg :
        RetryAccepts(arg) /\ AllWhole(RetryOptions(arg)) =>
            LET o == RetryStudied(RetryOptions(arg)) IN
            /\ o.maxAttempts \in Nat \ {0} /\ o.maxTotalDelayMs \in Nat
            /\ \A i \in 0..1, asked \in {Undefined, Number(-5), Number(99999)} :
                /\ ResolveDelayMs(o, asked, i) \in 0..o.maxDelayMs
                /\ ResolveDelayMs(o, Undefined, i) <= ResolveDelayMs(o, Undefined, i + 1))

\* A key that is accepted resolves, unless a resolver fails to.
ASSUME KeysResolve ==
    \A key \in Samples \cup Texts : ~Given(key) \/ KeyOK(key) =>
        IsText(ResolvedKey(key, String("service"), String("answer")))
=============================================================================
