------------------------------ MODULE Plugins ------------------------------
(***************************************************************************)
(* The plugins of a client: packages/core/src/core/plugins/index.ts        *)
(* (orderPlugins, installPlugins) and createPluginDisposer of              *)
(* packages/core/src/core/builder/index.ts.                                *)
(*                                                                         *)
(* A registration is what orderPlugins reads of it: name, dependencies and *)
(* priority; its index is its place in the sequence of registrations.      *)
(***************************************************************************)
EXTENDS Integers, Sequences, FiniteSets, SequencesExt

VARIABLES
    plugins,        \* the registrations of the builder
    installed,      \* how many of them, in their order, have been set up
    instance        \* instance[name]: "none", "live", "released", or "broken"
                    \* when its dispose has failed

pluginVars == <<plugins, installed, instance>>

Names(ps) == {ps[i].name : i \in DOMAIN ps}

\* The candidates of a round, and those taken already.
Ready(ps, taken) == {i \in DOMAIN ps : ps[i].dependencies \subseteq {ps[j].name : j \in taken}}

\* The indices that the first n rounds of orderPlugins take.
Rounds(ps) ==
    LET taken[n \in 0..Len(ps)] == IF n = 0 THEN {} ELSE Ready(ps, taken[n - 1])
    IN taken

\* validateUniquePluginNames, validatePluginDependencies and the check for cycles.
Orderable(ps) ==
    /\ Cardinality(Names(ps)) = Len(ps)
    /\ \A i \in DOMAIN ps : ps[i].dependencies \subseteq Names(ps)
    /\ Rounds(ps)[Len(ps)] = DOMAIN ps

\* comparePluginRegistration
Outranks(ps, i, j) ==
    \/ ps[i].priority < ps[j].priority
    \/ ps[i].priority = ps[j].priority /\ i < j

\* orderPlugins: by rounds, then by priority, then by index.
Earlier(rounds, i, j) == \E n \in DOMAIN rounds : i \in rounds[n] /\ j \notin rounds[n]

Before(ps, rounds, i, j) ==
    \/ Earlier(rounds, i, j)
    \/ ~Earlier(rounds, j, i) /\ Outranks(ps, i, j)

Place(ps, rounds, i) == Cardinality({j \in DOMAIN ps : Before(ps, rounds, j, i)}) + 1

OrderPlugins(ps) ==
    LET rounds == Rounds(ps)
    IN [n \in DOMAIN ps |-> ps[CHOOSE i \in DOMAIN ps : Place(ps, rounds, i) = n]]

Ordered == OrderPlugins(plugins)

PluginsInit(Registrations) ==
    /\ plugins \in Registrations
    /\ installed = 0
    /\ instance = [name \in Names(plugins) |-> "none"]

\* setupPlugin returns; it may have made an instance.
SetUp ==
    /\ Orderable(plugins)
    /\ installed < Len(plugins)
    /\ installed' = installed + 1
    /\ \E made \in {"none", "live"} :
        instance' = [instance EXCEPT ![Ordered[installed + 1].name] = made]
    /\ UNCHANGED plugins

\* The places of the instances that destroy() has still to dispose.
Undisposed == {n \in 1..installed : instance[Ordered[n].name] = "live"}

\* Mutant: in the order of installation.
DisposeFirst(outcome) ==
    /\ Undisposed # {}
    /\ LET n == CHOOSE n \in Undisposed : \A other \in Undisposed : n <= other
       IN instance' = [instance EXCEPT ![Ordered[n].name] = outcome]
    /\ UNCHANGED <<plugins, installed>>

\* One turn of the loop of createPluginDisposer.
DisposeLast(outcome) ==
    /\ Undisposed # {}
    /\ LET n == CHOOSE n \in Undisposed : \A other \in Undisposed : other <= n
       IN instance' = [instance EXCEPT ![Ordered[n].name] = outcome]
    /\ UNCHANGED <<plugins, installed>>
=============================================================================
