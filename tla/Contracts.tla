----------------------------- MODULE Contracts -----------------------------
(***************************************************************************)
(* What the builder, definePolicy, definePlugin and createContext accept   *)
(* of the objects that a user hands them, and the contexts that are made   *)
(* of those.  Values are those of Options; an X_OK is FALSE where the code *)
(* throws.  A field that an object lacks is undefined, except where "in"   *)
(* is asked.                                                               *)
(***************************************************************************)
EXTENDS Options, Sequences

Array(elements) == [type |-> "array", elements |-> elements]

\* The fields of an object, where an array is one too.
Fields(v) == IF v.type = "object" THEN v.fields ELSE <<>>
IsAnyObject(v) == v.type \in {"object", "array"}
Get(v, f) == IF f \in DOMAIN Fields(v) THEN Fields(v)[f] ELSE Undefined
HasMethods(v, names) == IsAnyObject(v) /\ \A f \in names : IsFunction(Get(v, f))
OptionalMethod(v, f) == Given(Get(v, f)) => IsFunction(Get(v, f))
-----------------------------------------------------------------------------
(* The builder *)

ClassifierOK(v) == HasMethods(v, {"isFailure", "isRetryable"}) /\ OptionalMethod(v, "retryAfter")
StoreOK(v) == HasMethods(v, {"get", "set", "incr", "withLock"})
ClockOK(v) == HasMethods(v, {"now", "setTimeout", "clearTimeout"})
MetricsOK(v) == HasMethods(v, {"counter", "gauge", "histogram"})
EventTypeOK(v) == v.type = "string" /\ v # Empty
HandlerOK(v) == IsFunction(v)
-----------------------------------------------------------------------------
(* Policies *)

BuiltinPolicyName(v) ==
    IsOneOf(v, {"fallback", "cache", "retry", "circuit-breaker", "timeout", "dedupe", "hedge",
                "rate-limiter", "bulkhead"})

\* A number, or exactly one anchor.
PolicyOrderOK(v) ==
    \/ IsNumber(v)
    \/ /\ IsObject(v)
       /\ \E f, g \in {"before", "after"} :
            /\ f \in DOMAIN v.fields /\ g \notin DOMAIN v.fields
            /\ BuiltinPolicyName(v.fields[f])

PolicyFactoryOK(v) ==
    /\ HasMethods(v, {"create"})
    /\ IsText(Get(v, "name")) /\ PolicyOrderOK(Get(v, "order"))

PolicyOK(v) ==
    /\ HasMethods(v, {"execute"})
    /\ IsText(Get(v, "name")) /\ PolicyOrderOK(Get(v, "order"))
-----------------------------------------------------------------------------
(* Plugins *)

DependenciesOK(v) ==
    v.type = "array" /\ \A i \in DOMAIN v.elements : IsText(v.elements[i])

PluginOK(v) ==
    /\ IsObject(v)
    /\ \A f \in {"name", "version", "apiVersion"} : IsText(Get(v, f))
    /\ Given(Get(v, "dependencies")) => DependenciesOK(Get(v, "dependencies"))
    /\ Given(Get(v, "priority")) => IsNumber(Get(v, "priority"))
    /\ IsFunction(Get(v, "setup"))

\* What a setup returned, when it is not undefined.
PluginInstanceOK(v) == IsObject(v) /\ IsText(Get(v, "name")) /\ OptionalMethod(v, "dispose")
\* What orderPlugins reads of an accepted plugin.
PluginStudied(v) ==
    LET dependencies == Or(Get(v, "dependencies"), Array(<<>>)).elements IN
    [name |-> Get(v, "name").text,
     dependencies |-> {dependencies[i].text : i \in DOMAIN dependencies},
     priority |-> Or(Get(v, "priority"), Number(0)).halves]
-----------------------------------------------------------------------------
(* Contexts *)

OptionalText(v) == v \in {Undefined, Null} \/ IsText(v)
OptionalNumber(v) == Given(v) => IsNumber(v)
AttemptNumberOK(v) == Given(v) => IntegerAtLeast(v, 1)
SignalOK(v) == Given(v) => v.type = "signal"
MetadataOK(v) ==
    Given(v) => v.type \in {"object", "map"} /\ "" \notin DOMAIN v.fields

ContextInitOK(v) ==
    /\ \A f \in {"requestId", "operationName", "serviceName"} : OptionalText(Get(v, f))
    /\ AttemptNumberOK(Get(v, "attemptNumber"))
    /\ \A f \in {"deadline", "deadlineMs", "startedAt"} : OptionalNumber(Get(v, f))
    /\ SignalOK(Get(v, "signal"))
    /\ MetadataOK(Get(v, "metadata"))
    /\ Given(Get(v, "deadlineMs")) => NumberAtLeast(Get(v, "deadlineMs"), 0)

ContextForkPatchOK(v) ==
    /\ AttemptNumberOK(Get(v, "attemptNumber"))
    /\ SignalOK(Get(v, "signal"))
    /\ MetadataOK(Get(v, "metadata"))

\* A deadline of its own comes before one counted from the start.
ResolveDeadline(startedAt, deadline, deadlineMs) ==
    CASE Given(deadline) -> deadline
      [] Given(deadlineMs) -> Halves(startedAt.halves + deadlineMs.halves)
      [] OTHER -> NotFinite

Entries(metadata) == IF Given(metadata) THEN metadata.fields ELSE <<>>

\* Later entries of the same key win.
Merge(entries, more) ==
    [k \in DOMAIN entries \cup DOMAIN more |-> IF k \in DOMAIN more THEN more[k] ELSE entries[k]]

\* Signals are the business of RetryTimeout.
CreateContext(init, now, randomId) ==
    LET startedAt == Or(Get(init, "startedAt"), now) IN
    [requestId |-> Or(Get(init, "requestId"), randomId),
     operationName |-> Or(Get(init, "operationName"), String("operation")),
     serviceName |-> Or(Get(init, "serviceName"), String("default")),
     attemptNumber |-> Or(Get(init, "attemptNumber"), Number(1)),
     metadata |-> Entries(Get(init, "metadata")),
     deadline |-> ResolveDeadline(startedAt, Get(init, "deadline"), Get(init, "deadlineMs")),
     startedAt |-> startedAt]

Fork(ctx, patch) ==
    [ctx EXCEPT
        !.attemptNumber = Or(Get(patch, "attemptNumber"), Halves(@.halves + 2)),
        !.metadata = Merge(@, Entries(Get(patch, "metadata")))]
=============================================================================
