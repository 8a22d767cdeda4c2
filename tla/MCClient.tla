------------------------------ MODULE MCClient ------------------------------
(* Two plugins in a chain and one apart, in an order of registration and   *)
(* with priorities that disagree with the dependencies, and sets of        *)
(* plugins that cannot be ordered.  A handler of retries is subscribed     *)
(* twice; with the client's own and a call's, three listen to retries.     *)
(* One user listens to completed requests.                                 *)
EXTENDS Client, MCPipeline, MCLlmClient

MCPlugin(name, dependencies, priority) ==
    [name |-> name, dependencies |-> dependencies, priority |-> priority]

MCRegistrations == {
    <<MCPlugin("top", {"base"}, 0), MCPlugin("apart", {}, 2), MCPlugin("base", {}, 1)>>,
    <<MCPlugin("top", {"base"}, 0), MCPlugin("base", {"top"}, 0)>>,
    <<MCPlugin("top", {"missing"}, 0)>> }

MCSubscriptions == {"stats", "c1", "u1", "u2", "u3"}
MCHandlerOf == [s \in MCSubscriptions |-> CASE s \in {"u1", "u2"} -> "h" [] OTHER -> s]
MCTypeOf == [s \in MCSubscriptions |-> IF s = "u3" THEN "RequestCompleted" ELSE "RetryStarted"]

\* orderPlugins against its promise: dependencies first, and of two plugins
\* that become ready in the same round the one with the lower priority.
MCSets == {<<MCPlugin("a", da, pa), MCPlugin("b", db, pb), MCPlugin("c", dc, 1)>> :
              da \in SUBSET {"a", "b", "c"}, db \in SUBSET {"a", "b", "c"}, dc \in SUBSET {"a", "b", "c"},
              pa \in {0, 2}, pb \in {1, 2}}

ASSUME \A ps \in MCSets : Orderable(ps) =>
    LET order == OrderPlugins(ps) IN
    /\ ToSet(order) = ToSet(ps)
    /\ \A n \in DOMAIN order : order[n].dependencies \subseteq {order[m].name : m \in 1..(n - 1)}
    /\ \A m, n \in DOMAIN order :
        m < n /\ order[m].dependencies = order[n].dependencies => order[m].priority <= order[n].priority

\* Whatever definePlugin accepts can be ordered with a plugin that it may
\* depend on, unless it depends on anything else or on itself.
ASSUME AcceptedPluginsAreOrdered ==
    \A name, dependency \in {Undefined, Empty, Blank, String("base"), String("mine"), Function},
      priority \in {Undefined, Null, NotFinite, Number(-1), Halves(5), String("high")} :
    \A dependencies \in {Undefined, Null, Array(<<>>), Array(<<dependency>>), Object(<<>>)} :
        LET plugin == Object([name |-> name, version |-> String("1"), apiVersion |-> String("1"),
                              dependencies |-> dependencies, priority |-> priority,
                              setup |-> Function])
            both == <<PluginStudied(plugin), MCPlugin("base", {}, 1)>>
        IN
        PluginOK(plugin) =>
            (Orderable(both) <=> name = String("mine") /\ both[1].dependencies \subseteq {"base"})
=============================================================================
