------------------------------- MODULE Client -------------------------------
(***************************************************************************)
(* The life of a client: build() of packages/core/src/core/builder, with   *)
(* its plugins and event bus, the calls and destroy() of                   *)
(* packages/core/src/core/client, and what a call does to both in          *)
(* packages/core/src/core/pipeline.                                        *)
(*                                                                         *)
(* A handler runs inside an emission: while `stack` is not empty, only it  *)
(* and what it calls can act.                                              *)
(***************************************************************************)
EXTENDS EventBus, Plugins

CONSTANTS
    Registrations,  \* what the builder may have been given
    Calls,          \* calls; each is also its subscription to RetryStarted
    Users,          \* subscriptions of users and plugins
    MaxRetries      \* bound: retries that are announced

Stats == "stats"    \* the client's own subscription to RetryStarted

ASSUME ClientAssumption ==
    /\ Subscriptions = Calls \cup Users \cup {Stats}
    /\ \A s \in Calls \cup {Stats} : TypeOf[s] = "RetryStarted" /\ HandlerOf[s] = s
    /\ Calls \cap Users = {} /\ Stats \notin Calls \cup Users
    /\ \A s \in Users : HandlerOf[s] # Stats      \* nobody else has that closure

\* The builder keeps its registrations in a list.  Of priorities, which are
\* finite numbers, the order is all that counts.
ASSUME RegistrationsAssumption ==
    \A ps \in Registrations :
        /\ ps \in Seq(ToSet(ps))
        /\ \A i \in DOMAIN ps : ps[i].priority \in Int

VARIABLES
    phase,          \* "building", "failed", "open", "disposing" or "destroyed"
    call,           \* call[c]: "idle", "running", "returning" or "over"
    totals,         \* ClientTotals
    retried         \* history: retries announced while the client counts them

clientVars == <<phase, call, totals, retried>>
vars == <<busVars, pluginVars, clientVars>>

Init ==
    /\ BusInit
    /\ PluginsInit(Registrations)
    /\ phase = "building"
    /\ call = [c \in Calls |-> "idle"]
    /\ totals = [calls |-> 0, successes |-> 0, failures |-> 0, retries |-> 0]
    /\ retried = 0

Exists == phase \in {"open", "disposing", "destroyed"}

\* The handler of Stats.
CountRetry ==
    totals' = IF SetsRunning(Stats) THEN [totals EXCEPT !.retries = @ + 1] ELSE totals
-----------------------------------------------------------------------------
(* build() *)

PluginIsSetUp ==
    /\ phase = "building"
    /\ SetUp
    /\ UNCHANGED <<busVars, clientVars>>

\* The plugins cannot be ordered, a setup throws, or a policy refuses its
\* options.  Instances already made stay as they are.
BuildFails ==
    /\ phase = "building"
    /\ phase' = "failed"
    /\ UNCHANGED <<busVars, pluginVars, call, totals, retried>>

Built ==
    /\ phase = "building"
    /\ Orderable(plugins) /\ installed = Len(plugins)
    /\ phase' = "open"
    /\ On(Stats)
    /\ UNCHANGED <<pluginVars, call, totals, retried>>
-----------------------------------------------------------------------------
(* Users and plugins *)

\* builder.on, ctx.on of a plugin, client.on, from anywhere.
Subscribe(s) ==
    /\ phase # "failed"
    /\ On(s)
    /\ UNCHANGED <<pluginVars, clientVars>>

Unsubscribe(s) ==
    /\ Exists
    /\ Off(s)
    /\ UNCHANGED <<pluginVars, clientVars>>

HandlerDone ==
    /\ HandlerReturns
    /\ CountRetry
    /\ UNCHANGED <<pluginVars, phase, call, retried>>
-----------------------------------------------------------------------------
(* Calls *)

\* #run and execute of the pipeline, up to its first await.
StartCall(c) ==
    /\ Exists
    /\ call[c] = "idle"
    /\ call' = [call EXCEPT ![c] = "running"]
    /\ totals' = [totals EXCEPT !.calls = @ + 1]
    /\ On(c)
    /\ UNCHANGED <<pluginVars, phase, retried>>

\* A policy announces a retry, whether or not anybody is registered.
AnnounceRetry ==
    /\ \E c \in Calls : call[c] = "running"
    /\ stack = <<>>
    /\ retried < MaxRetries
    /\ retried' = IF active[Stats] THEN retried + 1 ELSE retried
    /\ \/ Emit("RetryStarted") /\ CountRetry
       \/ current["RetryStarted"] = 0 /\ UNCHANGED <<busVars, totals>>
    /\ UNCHANGED <<pluginVars, phase, call>>

\* Any other event of a call, which a handler may have started.
Announce(t) ==
    /\ t # "RetryStarted"
    /\ \E c \in Calls : call[c] = "running"
    /\ Emit(t)
    /\ CountRetry
    /\ UNCHANGED <<pluginVars, phase, call, retried>>

\* The finally of the pipeline.
CallSettles(c) ==
    /\ stack = <<>>
    /\ call[c] = "running"
    /\ call' = [call EXCEPT ![c] = "returning"]
    /\ Off(c)
    /\ UNCHANGED <<pluginVars, phase, totals, retried>>

\* Mutant: a failure is passed on uncounted.
CallReturnsUncounted(c) ==
    /\ stack = <<>>
    /\ call[c] = "returning"
    /\ call' = [call EXCEPT ![c] = "over"]
    /\ totals' \in {totals, [totals EXCEPT !.successes = @ + 1]}
    /\ UNCHANGED <<busVars, pluginVars, phase, retried>>

\* The rest of #run.
CallReturns(c) ==
    /\ stack = <<>>
    /\ call[c] = "returning"
    /\ call' = [call EXCEPT ![c] = "over"]
    /\ totals' \in {[totals EXCEPT !.successes = @ + 1], [totals EXCEPT !.failures = @ + 1]}
    /\ UNCHANGED <<busVars, pluginVars, phase, retried>>
-----------------------------------------------------------------------------
(* destroy() *)

\* A second destroy() does nothing.
Destroy ==
    /\ phase = "open"
    /\ phase' = "disposing"
    /\ Off(Stats)
    /\ UNCHANGED <<pluginVars, call, totals, retried>>

InstanceReleased ==
    /\ phase = "disposing"
    /\ stack = <<>>
    /\ DisposeLast("released")
    /\ UNCHANGED <<busVars, clientVars>>

\* A dispose that fails ends the disposal of all the others.
DisposeFails ==
    /\ phase = "disposing"
    /\ stack = <<>>
    /\ DisposeLast("broken")
    /\ phase' = "destroyed"
    /\ Clear
    /\ UNCHANGED <<call, totals, retried>>

Destroyed ==
    /\ phase = "disposing"
    /\ stack = <<>>
    /\ Undisposed = {}
    /\ phase' = "destroyed"
    /\ Clear
    /\ UNCHANGED <<pluginVars, call, totals, retried>>

Next ==
    \/ PluginIsSetUp \/ BuildFails \/ Built
    \/ \E s \in Users : Subscribe(s) \/ Unsubscribe(s)
    \/ HandlerDone
    \/ \E c \in Calls : StartCall(c) \/ CallSettles(c) \/ CallReturns(c)
    \/ AnnounceRetry \/ \E t \in Types : Announce(t)
    \/ Destroy \/ InstanceReleased \/ DisposeFails \/ Destroyed

Spec == Init /\ [][Next]_vars
-----------------------------------------------------------------------------
(* Properties *)

\* The handler of s is in the set that the next emission will use.
Holds(s) ==
    /\ active[s]
    /\ current[TypeOf[s]] = captured[s]
    /\ HandlerOf[s] \in ToSet(members[captured[s]])

\* What becomes of a subscription that holds, or begins, at a step.
KeepsHolding(s) ==
    active'[s] /\ phase' # "destroyed" /\ (Holds(s) \/ ~active[s]) =>
        \/ Holds(s)'
        \/ \E u \in Subscriptions :
            /\ active[u] /\ ~active'[u] /\ TypeOf[u] = TypeOf[s]
            /\ HandlerOf[u] = HandlerOf[s] \/ ~Holds(u)

AllKeepHolding == \A s \in Subscriptions : KeepsHolding(s)

\* A subscription holds from its beginning until its own unsubscribe or the
\* end of the client, whatever sets come and go.  Another unsubscribe ends it
\* in two cases only: both have the same handler, which a set holds once; or
\* that other subscription had itself been ended so, and its unsubscribe drops
\* a set which is not its own (events/index.ts:491).
SubscriptionsHold == [][AllKeepHolding]_vars

\* An emission under way calls nobody twice, and everybody who has been
\* subscribed since it began has been called or is still in line.
LinesExact ==
    \A n \in DOMAIN stack :
        LET line == stack[n].called \o stack[n].todo IN
        /\ Cardinality(ToSet(line)) = Len(line)
        /\ stack[n].due \subseteq ToSet(line)

\* An emission that ends has called everybody who has been subscribed since
\* it began: its running handler is the last.
EndsComplete ==
    Len(stack') < Len(stack) =>
        Head(stack).due \subseteq ToSet(Append(Head(stack).called, Head(Head(stack).todo)))

\* Though handlers subscribe, unsubscribe and emit meanwhile, an emission
\* calls nobody twice, and ends only when everybody who has been subscribed
\* since it began has been called.
DispatchIsExact == []LinesExact /\ [][EndsComplete]_vars

\* What a plugin depends on lives at least as long as its own instance,
\* wherever an installation or a disposal stops.
DependenciesLive ==
    \A i \in DOMAIN plugins :
        instance[plugins[i].name] = "live" =>
            \A d \in plugins[i].dependencies :
                /\ \E n \in 1..installed : Ordered[n].name = d
                /\ instance[d] \notin {"released", "broken"}

\* stats() accounts for every call once, and for every retry announced while
\* the client is open.
StatsAreExact ==
    /\ totals.calls = totals.successes + totals.failures
                      + Cardinality({c \in Calls : call[c] \in {"running", "returning"}})
    /\ phase = "open" /\ stack = <<>> => totals.retries = retried
=============================================================================
