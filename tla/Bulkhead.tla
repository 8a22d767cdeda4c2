------------------------------ MODULE Bulkhead ------------------------------
(***************************************************************************)
(* The bulkhead policy: policies/bulkhead/index.ts.                        *)
(*                                                                         *)
(* A call runs acquire, its operation and release.  The event loop runs    *)
(* one handler at a time, so an action is the code between two awaits:     *)
(*   Admit, Enqueue, Reject    the synchronous part of acquire,            *)
(*   TimerFires                the queue-timeout callback,                 *)
(*   Resume                    the continuation of "await acquire",        *)
(*   Release                   the finally block, with the hand-over.      *)
(* Between the step that grants a slot and Resume other handlers run: the  *)
(* phase "granted" is that window.                                         *)
(*                                                                         *)
(* Durations are abstracted: an armed timer may fire at any moment.        *)
(***************************************************************************)
EXTENDS Naturals, Sequences, FiniteSets

CONSTANTS
    Calls,          \* call sites; each runs one call after another
    Keys,           \* partition keys
    KeyOf,          \* the key a call resolves to
    MaxConcurrent,  \* options.maxConcurrent
    MaxQueue,       \* options.maxQueue
    Timed           \* options.queueTimeoutMs > 0

\* What normalizeOptions accepts, and finitely many callers.
ASSUME BulkheadAssumption ==
    /\ IsFiniteSet(Calls)
    /\ KeyOf \in [Calls -> Keys]
    /\ MaxConcurrent \in Nat \ {0}
    /\ MaxQueue \in Nat
    /\ Timed \in BOOLEAN
    /\ Timed => MaxQueue > 0

VARIABLES
    present,        \* the keys that have an entry in #states
    active,         \* active[k]: the slots of k counted as taken
    queue,          \* queue[k]: the queued requests of k, oldest first
    phase,          \* phase[c]: where call c stands
    settled,        \* settled[c]: the queued request of c has its answer
    timer           \* timer[c]: the queue timeout of c is armed

vars == <<present, active, queue, phase, settled, timer>>

Phases == {"idle", "queued", "granted", "running", "rejected"}

Init ==
    /\ present = {}
    /\ active = [k \in Keys |-> 0]
    /\ queue = [k \in Keys |-> <<>>]
    /\ phase = [c \in Calls |-> "idle"]
    /\ settled = [c \in Calls |-> FALSE]
    /\ timer = [c \in Calls |-> FALSE]
-----------------------------------------------------------------------------
(* acquire *)

\* Fast path: a slot is free.
Admit(c) ==
    LET k == KeyOf[c] IN
    /\ phase[c] = "idle"
    /\ active[k] < MaxConcurrent
    /\ present' = present \cup {k}
    /\ active' = [active EXCEPT ![k] = @ + 1]
    /\ phase' = [phase EXCEPT ![c] = "granted"]
    /\ UNCHANGED <<queue, settled, timer>>

\* Mutant: the queue timeout is never armed.
EnqueueUntimed(c) ==
    LET k == KeyOf[c] IN
    /\ phase[c] = "idle"
    /\ active[k] >= MaxConcurrent
    /\ Len(queue[k]) < MaxQueue
    /\ present' = present \cup {k}
    /\ queue' = [queue EXCEPT ![k] = Append(@, c)]
    /\ phase' = [phase EXCEPT ![c] = "queued"]
    /\ settled' = [settled EXCEPT ![c] = FALSE]
    /\ UNCHANGED <<active, timer>>

\* The pool is full and the queue has room.
Enqueue(c) ==
    LET k == KeyOf[c] IN
    /\ phase[c] = "idle"
    /\ active[k] >= MaxConcurrent
    /\ Len(queue[k]) < MaxQueue
    /\ present' = present \cup {k}
    /\ queue' = [queue EXCEPT ![k] = Append(@, c)]
    /\ phase' = [phase EXCEPT ![c] = "queued"]
    /\ settled' = [settled EXCEPT ![c] = FALSE]
    /\ timer' = [timer EXCEPT ![c] = Timed]
    /\ UNCHANGED active

\* The pool and the queue are full.
Reject(c) ==
    LET k == KeyOf[c] IN
    /\ phase[c] = "idle"
    /\ active[k] >= MaxConcurrent
    /\ Len(queue[k]) >= MaxQueue
    /\ present' = present \cup {k}
    /\ phase' = [phase EXCEPT ![c] = "rejected"]
    /\ UNCHANGED <<active, queue, settled, timer>>
-----------------------------------------------------------------------------
(* The queue timeout.  A timer that finds its request settled returns at   *)
(* once, which changes nothing.                                            *)

\* removeQueuedRequest: splice the request out, wherever it stands.
Without(q, i) == SubSeq(q, 1, i - 1) \o SubSeq(q, i + 1, Len(q))

\* Mutant: the callback gives back a slot the waiter never had.
TimerFiresFreesSlot(c) ==
    LET k == KeyOf[c] IN
    /\ timer[c]
    /\ ~settled[c]
    /\ timer' = [timer EXCEPT ![c] = FALSE]
    /\ settled' = [settled EXCEPT ![c] = TRUE]
    /\ \E i \in DOMAIN queue[k] :
        /\ queue[k][i] = c
        /\ queue' = [queue EXCEPT ![k] = Without(@, i)]
    /\ active' = [active EXCEPT ![k] = @ - 1]
    /\ phase' = [phase EXCEPT ![c] = "rejected"]
    /\ UNCHANGED present

TimerFires(c) ==
    LET k == KeyOf[c] IN
    /\ timer[c]
    /\ ~settled[c]
    /\ timer' = [timer EXCEPT ![c] = FALSE]
    /\ settled' = [settled EXCEPT ![c] = TRUE]
    /\ \E i \in DOMAIN queue[k] :
        /\ queue[k][i] = c
        /\ queue' = [queue EXCEPT ![k] = Without(@, i)]
    /\ phase' = [phase EXCEPT ![c] = "rejected"]
    /\ UNCHANGED <<present, active>>
-----------------------------------------------------------------------------
(* The operation and release *)

\* "await acquire" resumes and the operation starts.
Resume(c) ==
    /\ phase[c] = "granted"
    /\ phase' = [phase EXCEPT ![c] = "running"]
    /\ UNCHANGED <<present, active, queue, settled, timer>>

\* Math.max(0, active - 1)
Decremented(n) == IF n > 0 THEN n - 1 ELSE 0

\* Request i is the first of k that still waits: those before it are settled
\* and the loop of #release shifts them out.
NextWaiter(k, i) ==
    /\ i \in DOMAIN queue[k]
    /\ ~settled[queue[k][i]]
    /\ \A j \in 1..(i - 1) : settled[queue[k][j]]

\* Mutant: the newest waiter is served first.
ReleaseToNewest(c) ==
    LET k == KeyOf[c]
        w == queue[k][Len(queue[k])]
    IN
    /\ phase[c] = "running"
    /\ queue[k] # <<>>
    /\ settled' = [settled EXCEPT ![w] = TRUE]
    /\ timer' = [timer EXCEPT ![w] = FALSE]
    /\ queue' = [queue EXCEPT ![k] = SubSeq(@, 1, Len(@) - 1)]
    /\ phase' = [phase EXCEPT ![c] = "idle", ![w] = "granted"]
    /\ UNCHANGED <<present, active>>

\* Mutant: the slot is freed and the waiter is left for a later release.
ReleaseWithoutHandOver(c) ==
    LET k == KeyOf[c] IN
    /\ phase[c] = "running"
    /\ queue[k] # <<>>
    /\ active' = [active EXCEPT ![k] = Decremented(@)]
    /\ phase' = [phase EXCEPT ![c] = "idle"]
    /\ UNCHANGED <<present, queue, settled, timer>>

\* #release with somebody to hand the slot to: the slot is freed and taken
\* again in one step, and the waiter's timer is cleared.
ReleaseToWaiter(c) ==
    LET k == KeyOf[c]
        left == Decremented(active[k])
    IN
    /\ phase[c] = "running"
    /\ k \in present
    /\ left < MaxConcurrent
    /\ \E i \in DOMAIN queue[k] :
        LET w == queue[k][i] IN
        /\ NextWaiter(k, i)
        /\ settled' = [settled EXCEPT ![w] = TRUE]
        /\ timer' = [timer EXCEPT ![w] = FALSE]
        /\ active' = [active EXCEPT ![k] = left + 1]
        /\ queue' = [queue EXCEPT ![k] = SubSeq(@, i + 1, Len(@))]
        /\ phase' = [phase EXCEPT ![c] = "idle", ![w] = "granted"]
    /\ UNCHANGED present

\* Mutant: the entry of an unused key stays.
ReleaseKeepsEntry(c) ==
    LET k == KeyOf[c] IN
    /\ phase[c] = "running"
    /\ queue[k] = <<>>
    /\ active' = [active EXCEPT ![k] = Decremented(@)]
    /\ phase' = [phase EXCEPT ![c] = "idle"]
    /\ UNCHANGED <<present, queue, settled, timer>>

\* #release with nobody waiting: the last one out removes the entry.
ReleaseSlot(c) ==
    LET k == KeyOf[c]
        left == Decremented(active[k])
    IN
    /\ phase[c] = "running"
    /\ k \in present
    /\ ~\E i \in DOMAIN queue[k] : NextWaiter(k, i)
    /\ queue' = [queue EXCEPT ![k] = <<>>]
    /\ active' = [active EXCEPT ![k] = left]
    /\ present' = IF left = 0 THEN present \ {k} ELSE present
    /\ phase' = [phase EXCEPT ![c] = "idle"]
    /\ UNCHANGED <<settled, timer>>

\* The caller has seen its rejection; the call site may start another call.
Return(c) ==
    /\ phase[c] = "rejected"
    /\ ~timer[c]
    /\ phase' = [phase EXCEPT ![c] = "idle"]
    /\ UNCHANGED <<present, active, queue, settled, timer>>

Step(c) ==
    \/ Admit(c) \/ Enqueue(c) \/ Reject(c)
    \/ TimerFires(c)
    \/ Resume(c) \/ ReleaseToWaiter(c) \/ ReleaseSlot(c)
    \/ Return(c)

Next == \E c \in Calls : Step(c)

Spec == Init /\ [][Next]_vars

\* The event loop runs every pending continuation and every due timer.
\* Nothing makes an operation finish: Release has no fairness.
Fairness == \A c \in Calls : WF_vars(Resume(c)) /\ WF_vars(TimerFires(c))

FairSpec == Spec /\ Fairness
-----------------------------------------------------------------------------
(* Properties *)

TypeOK ==
    /\ present \subseteq Keys
    /\ active \in [Keys -> 0..MaxConcurrent]
    /\ queue \in [Keys -> Seq(Calls)]
    /\ phase \in [Calls -> Phases]
    /\ settled \in [Calls -> BOOLEAN]
    /\ timer \in [Calls -> BOOLEAN]

\* The calls that hold a slot of k.
Holders(k) == {c \in Calls : KeyOf[c] = k /\ phase[c] \in {"granted", "running"}}

\* The counter of a key is the number of calls that hold one of its slots,
\* across hand-over, timeout and release, and never exceeds maxConcurrent:
\* no slot leaks and none is used twice (acquire, #release).
SlotsAccounted ==
    \A k \in Keys :
        /\ active[k] = Cardinality(Holders(k))
        /\ Cardinality(Holders(k)) <= MaxConcurrent

\* The queue of a key holds exactly its waiting calls, each once and
\* unsettled, within maxQueue: a request that timed out or was admitted is
\* gone from the queue, and a waiter is never lost from it.
QueueIsWaiters ==
    /\ \A k \in Keys :
        /\ Len(queue[k]) <= MaxQueue
        /\ \A i, j \in DOMAIN queue[k] : queue[k][i] = queue[k][j] => i = j
        /\ \A i \in DOMAIN queue[k] :
            /\ KeyOf[queue[k][i]] = k
            /\ phase[queue[k][i]] = "queued"
    /\ \A c \in Calls :
        phase[c] = "queued" =>
            /\ ~settled[c]
            /\ timer[c] = Timed
            /\ \E i \in DOMAIN queue[KeyOf[c]] : queue[KeyOf[c]][i] = c
    /\ \A c \in Calls : timer[c] => phase[c] = "queued"

\* Nobody waits while a slot is free: a slot given back goes to a waiter in
\* the same step, so a waiter is never stranded behind an idle pool.
NoIdleSlotWhileQueued ==
    \A k \in Keys : queue[k] # <<>> => active[k] = MaxConcurrent

\* #states has an entry for a key exactly while the key is in use: entries of
\* keys no longer used do not pile up, and the entry whose queue a waiter's
\* timer closes over is never replaced under it.
EntriesMatchUse ==
    \A k \in Keys : k \in present <=> Holders(k) # {}

\* The bulkhead implements the first-come first-served pool of Admission.
Abstract ==
    INSTANCE Admission WITH
        holders <- [k \in Keys |-> Holders(k)],
        line <- queue

AbstractSpec == Abstract!ASpec

\* With a queue timeout every waiter gets an answer, although operations may
\* hang forever; without one the run of the operations decides.
WaiterAnswered ==
    \A c \in Calls : phase[c] = "queued" ~> phase[c] \in {"running", "rejected"}
=============================================================================
