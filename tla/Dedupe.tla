------------------------------- MODULE Dedupe -------------------------------
(***************************************************************************)
(* The dedupe policy: policies/dedupe/index.ts, for one key.  Entries of   *)
(* different keys share nothing but the in-flight gauge.                   *)
(*                                                                         *)
(* The first caller of a key starts a shared execution and registers an    *)
(* entry for it; callers that find the entry attach to it.  An action is   *)
(* the code between two awaits.  The shared operation starts in a          *)
(* microtask of its own, and cleanupEntry runs in one after that of the    *)
(* settle handlers: in both gaps callers come and go.                      *)
(*                                                                         *)
(* The operation may or may not heed the abort of its shared context.  An  *)
(* entry that is cleaned up is referenced by nobody; its identity is then  *)
(* free to stand for a later entry.                                        *)
(***************************************************************************)
EXTENDS Naturals, FiniteSets

CONSTANTS
    Callers,        \* call sites; each makes one call after another
    Entries,        \* identities of InFlightEntry objects
    None            \* the registry has no entry for the key

ASSUME DedupeAssumption ==
    /\ IsFiniteSet(Callers)
    /\ IsFiniteSet(Entries)
    /\ None \notin Entries

VARIABLES
    abortSharedWhenUnused,  \* the option, fixed by create
    registry,               \* the entry registered for the key, or None
    stage,                  \* stage[e]: how far the shared execution of e is
    subscribers,            \* subscribers[e]: the callers attached to e
    activeSubscriberCount,  \* activeSubscriberCount[e]
    sharedAbortIssued,      \* sharedAbortIssued[e]
    gauge,                  \* the in-flight gauge
    phase                   \* phase[c]: what caller c waits for or got

vars == <<abortSharedWhenUnused, registry, stage, subscribers,
          activeSubscriberCount, sharedAbortIssued, gauge, phase>>

\* "free": no such entry.  "settled": the result is out, cleanupEntry is not
\* yet run.
Stages == {"free", "scheduled", "running", "settled"}

Results == {"value", "error", "shared_abort"}

Phases == {"idle", "waiting", "aborted"} \cup Results

Init ==
    /\ abortSharedWhenUnused \in BOOLEAN
    /\ registry = None
    /\ stage = [e \in Entries |-> "free"]
    /\ subscribers = [e \in Entries |-> {}]
    /\ activeSubscriberCount = [e \in Entries |-> 0]
    /\ sharedAbortIssued = [e \in Entries |-> FALSE]
    /\ gauge = 0
    /\ phase = [c \in Callers |-> "idle"]

Unsettled(e) == stage[e] \in {"scheduled", "running"}

\* The entry found for the key, unless it is settled.
Joinable(e) == registry = e /\ Unsettled(e)
-----------------------------------------------------------------------------
(* executeWithDedupe *)

\* createEntry, registry.set, the gauge, startSharedExecution.
Register(e) ==
    /\ ~\E f \in Entries : Joinable(f)
    /\ stage[e] = "free"
    /\ registry' = e
    /\ stage' = [stage EXCEPT ![e] = "scheduled"]
    /\ gauge' = gauge + 1

Attach(c, e) ==
    /\ subscribers' = [subscribers EXCEPT ![e] = @ \cup {c}]
    /\ activeSubscriberCount' = [activeSubscriberCount EXCEPT ![e] = @ + 1]
    /\ phase' = [phase EXCEPT ![c] = "waiting"]
    /\ UNCHANGED sharedAbortIssued

Decremented(n) == IF n > 0 THEN n - 1 ELSE 0

\* The caller leaves entry e, where "left" callers stay.
Detach(c, e, left) ==
    /\ subscribers' = [subscribers EXCEPT ![e] = @ \ {c}]
    /\ activeSubscriberCount' = [activeSubscriberCount EXCEPT ![e] = left]
    /\ phase' = [phase EXCEPT ![c] = "aborted"]

\* The last one out aborts the shared execution.
AbortIfUnused(e, left) ==
    sharedAbortIssued' =
        [sharedAbortIssued EXCEPT ![e] = @ \/ (abortSharedWhenUnused /\ left = 0)]

CountWithout(c, e) ==
    IF c \in subscribers[e]
    THEN Decremented(activeSubscriberCount[e])
    ELSE activeSubscriberCount[e]

\* Mutant: unused work is not aborted.
SettleAbortedKeepsWork(c, e) ==
    Detach(c, e, CountWithout(c, e)) /\ UNCHANGED sharedAbortIssued

\* Mutant: the caller who leaves is still counted, and the last but one to
\* leave aborts the work of the last.
SettleAbortedEarly(c, e) ==
    LET left == CountWithout(c, e)
    IN  Detach(c, e, left) /\ AbortIfUnused(e, Decremented(left))

\* Mutant: the count is decremented for a caller that never attached.
SettleAbortedMiscounts(c, e) ==
    LET left == activeSubscriberCount[e] - 1
    IN  Detach(c, e, left) /\ AbortIfUnused(e, left)

\* settleSubscriber for an aborted caller of an unsettled entry, whether it
\* is attached or not.
SettleAborted(c, e) ==
    LET left == CountWithout(c, e)
    IN  Detach(c, e, left) /\ AbortIfUnused(e, left)

\* A call becomes the owner of a new shared execution.
Own(c, e) ==
    /\ phase[c] = "idle"
    /\ Register(e)
    /\ Attach(c, e)
    /\ UNCHANGED abortSharedWhenUnused

\* The key resolver or an event listener aborts the caller in between.
OwnAborted(c, e) ==
    /\ phase[c] = "idle"
    /\ Register(e)
    /\ SettleAborted(c, e)
    /\ UNCHANGED abortSharedWhenUnused

Join(c, e) ==
    /\ phase[c] = "idle"
    /\ Joinable(e)
    /\ Attach(c, e)
    /\ UNCHANGED <<abortSharedWhenUnused, registry, stage, gauge>>

JoinAborted(c, e) ==
    /\ phase[c] = "idle"
    /\ Joinable(e)
    /\ SettleAborted(c, e)
    /\ UNCHANGED <<abortSharedWhenUnused, registry, stage, gauge>>

\* A call that is aborted on arrival touches nothing.
Refuse(c) ==
    /\ phase[c] = "idle"
    /\ phase' = [phase EXCEPT ![c] = "aborted"]
    /\ UNCHANGED <<abortSharedWhenUnused, registry, stage, subscribers,
                   activeSubscriberCount, sharedAbortIssued, gauge>>

\* onAbort: the signal of an attached caller fires.
CallerAborts(c, e) ==
    /\ c \in subscribers[e]
    /\ Unsettled(e)
    /\ SettleAborted(c, e)
    /\ UNCHANGED <<abortSharedWhenUnused, registry, stage, gauge>>
-----------------------------------------------------------------------------
(* The shared execution *)

\* Mutant: an operation that is aborted before it starts never starts.
OperationStartsUnlessAborted(e) ==
    /\ stage[e] = "scheduled"
    /\ ~sharedAbortIssued[e]
    /\ stage' = [stage EXCEPT ![e] = "running"]
    /\ UNCHANGED <<abortSharedWhenUnused, registry, subscribers,
                   activeSubscriberCount, sharedAbortIssued, gauge, phase>>

\* next(entry.sharedContext), called even if nobody is left.
OperationStarts(e) ==
    /\ stage[e] = "scheduled"
    /\ stage' = [stage EXCEPT ![e] = "running"]
    /\ UNCHANGED <<abortSharedWhenUnused, registry, subscribers,
                   activeSubscriberCount, sharedAbortIssued, gauge, phase>>

\* An operation that heeds the shared abort fails with it.
Possible(e, result) == result = "shared_abort" => sharedAbortIssued[e]

\* Everybody attached gets the answer and is detached.
Answer(e, answer) ==
    /\ phase' = [c \in Callers |-> IF c \in subscribers[e] THEN answer ELSE phase[c]]
    /\ subscribers' = [subscribers EXCEPT ![e] = {}]
    /\ activeSubscriberCount' = [activeSubscriberCount EXCEPT ![e] = 0]

\* Mutant: the subscribers are left to the cleanup.
SettleLeavesSubscribers(e, result) ==
    /\ stage[e] = "running"
    /\ Possible(e, result)
    /\ stage' = [stage EXCEPT ![e] = "settled"]
    /\ UNCHANGED <<abortSharedWhenUnused, registry, subscribers,
                   activeSubscriberCount, sharedAbortIssued, gauge, phase>>

\* settleEntrySuccess, settleEntryFailure: every subscriber gets the result.
Settle(e, result) ==
    /\ stage[e] = "running"
    /\ Possible(e, result)
    /\ stage' = [stage EXCEPT ![e] = "settled"]
    /\ Answer(e, result)
    /\ UNCHANGED <<abortSharedWhenUnused, registry, sharedAbortIssued, gauge>>

\* Left-over subscribers are rejected, and the entry is garbage.
Discard(e) ==
    /\ stage[e] = "settled"
    /\ stage' = [stage EXCEPT ![e] = "free"]
    /\ Answer(e, "aborted")
    /\ sharedAbortIssued' = [sharedAbortIssued EXCEPT ![e] = FALSE]
    /\ UNCHANGED abortSharedWhenUnused

\* Mutant: cleanup removes whatever is registered for the key.
CleanupByKey(e) ==
    Discard(e) /\ gauge' = Decremented(gauge) /\ registry' = None

\* cleanupEntry: the key is freed unless a newer entry holds it.
Cleanup(e) ==
    /\ Discard(e)
    /\ gauge' = Decremented(gauge)
    /\ registry' = IF registry = e THEN None ELSE registry

\* The caller has its answer and may call again.
Return(c) ==
    /\ phase[c] \notin {"idle", "waiting"}
    /\ phase' = [phase EXCEPT ![c] = "idle"]
    /\ UNCHANGED <<abortSharedWhenUnused, registry, stage, subscribers,
                   activeSubscriberCount, sharedAbortIssued, gauge>>

CallerStep(c) ==
    \/ \E e \in Entries :
        \/ Own(c, e) \/ OwnAborted(c, e) \/ Join(c, e) \/ JoinAborted(c, e)
        \/ CallerAborts(c, e)
    \/ Refuse(c) \/ Return(c)

EntryStep(e) ==
    \/ OperationStarts(e)
    \/ \E result \in Results : Settle(e, result)
    \/ Cleanup(e)

Next == (\E c \in Callers : CallerStep(c)) \/ (\E e \in Entries : EntryStep(e))

Spec == Init /\ [][Next]_vars

\* Microtasks run, and the shared operation ends: Settle stands for it.
Fairness == \A e \in Entries : WF_vars(EntryStep(e))

FairSpec == Spec /\ Fairness
-----------------------------------------------------------------------------
(* Properties *)

TypeOK ==
    /\ abortSharedWhenUnused \in BOOLEAN
    /\ registry \in Entries \cup {None}
    /\ stage \in [Entries -> Stages]
    /\ subscribers \in [Entries -> SUBSET Callers]
    /\ activeSubscriberCount \in [Entries -> Nat]
    /\ sharedAbortIssued \in [Entries -> BOOLEAN]
    /\ gauge \in Nat
    /\ phase \in [Callers -> Phases]

\* At most one shared execution of a key is in flight, and it is the one new
\* callers find: an old entry that is still to be cleaned up never takes the
\* registration of its successor away (executeWithDedupe, cleanupEntry).
OneInFlight == \A e \in Entries : Unsettled(e) => registry = e

\* The count decides whether the shared work is still wanted; it is the number
\* of attached callers, whoever aborts when, also in the middle of arriving
\* (attachSubscriber, settleSubscriber).
CountIsSubscribers ==
    \A e \in Entries : activeSubscriberCount[e] = Cardinality(subscribers[e])

\* A waiting caller is attached to exactly one execution that has yet to
\* settle, and only waiting callers are: nobody waits on a dead entry and
\* nobody is answered twice.
WaitersAttached ==
    /\ \A c \in Callers :
        phase[c] = "waiting" => \E e \in Entries : Unsettled(e) /\ c \in subscribers[e]
    /\ \A c \in Callers, e \in Entries :
        c \in subscribers[e] => phase[c] = "waiting" /\ Unsettled(e)
    /\ \A e, f \in Entries : e # f => subscribers[e] \cap subscribers[f] = {}

\* Work that nobody waits for has been told to stop, if the option says so.
UnusedIsAborted ==
    \A e \in Entries :
        abortSharedWhenUnused /\ Unsettled(e) /\ subscribers[e] = {} => sharedAbortIssued[e]

\* Work that is told to stop has not settled, and has just lost its last
\* caller, or never had one.
AbortsOnlyUnused ==
    \A e \in Entries :
        sharedAbortIssued'[e] /\ ~sharedAbortIssued[e] =>
            abortSharedWhenUnused /\ Unsettled(e)' /\ subscribers'[e] = {}

\* Shared work is told to stop when nobody is left who waits for it and the
\* option asks for it, and never while somebody waits for it, nor without the
\* option.  Callers who join afterwards are not spared (CancellationIsOwn).
UnusedWorkIsAborted == []UnusedIsAborted /\ [][AbortsOnlyUnused]_vars

\* The gauge is the number of entries not yet cleaned up, also while a new
\* entry has superseded an old one.
GaugeIsEntries == gauge = Cardinality({e \in Entries : stage[e] # "free"})

\* If operations end, every caller gets an answer.
CallersAnswered == \A c \in Callers : phase[c] = "waiting" ~> phase[c] # "waiting"

\* docs/core/dedupe.md:51: "Each caller's cancellation detaches only that
\* caller."  No caller is answered with the abort others caused.
CancellationIsOwn == \A c \in Callers : phase[c] # "shared_abort"
=============================================================================
