------------------------------- MODULE Hedge -------------------------------
(***************************************************************************)
(* The hedge policy: HedgeCoordinator of policies/hedge/index.ts, which    *)
(* runs one logical call as an original attempt and, after a delay, a      *)
(* second one.  Coordinators of different calls share nothing.             *)
(*                                                                         *)
(* An action is one callback of the coordinator: execute, the hedge timer, *)
(* the microtask that calls next, the handlers of a finished attempt, the  *)
(* finally that releases its context, and the abort listener on the        *)
(* parent.  What an attempt does with the abort of its signal is its own   *)
(* affair: it may fail, succeed, or run on forever.  Metrics and events    *)
(* are left out.                                                           *)
(***************************************************************************)
EXTENDS Naturals

VARIABLES
    abortLosers,    \* the option
    hedgeFits,      \* now + delay is before the deadline of the parent
    parentAborted,  \* the signal of the parent context
    listening,      \* the abort listener on the parent is registered
    timer,          \* the hedge timer is armed
    hedgePossible,  \* #hedgePossible
    stage,          \* stage[a]: how far attempt a is
    aborted,        \* aborted[a]: the controller of attempt a is aborted
    outcome,        \* #settled, and with what
    winner          \* the attempt whose value the caller gets, or 0

options == <<abortLosers, hedgeFits>>
hedgeVars == <<options, parentAborted, listening, timer, hedgePossible,
               stage, aborted, outcome, winner>>

Original == 1
Second == 2
Attempts == {Original, Second}

\* "started": next is not yet called; "settled": the attempt has ended and
\* its context is not yet released.
Stages == {"none", "started", "running", "settled", "released"}

HedgeInit ==
    /\ abortLosers \in BOOLEAN
    /\ hedgeFits \in BOOLEAN
    /\ parentAborted = FALSE
    /\ listening = FALSE
    /\ timer = FALSE
    /\ hedgePossible = TRUE
    /\ stage = [a \in Attempts |-> "none"]
    /\ aborted = [a \in Attempts |-> FALSE]
    /\ outcome = "none"
    /\ winner = 0

\* attempt.state = "running", which it is from its creation.
Active(a) == stage[a] \in {"started", "running"}
ActiveAttempts == {a \in Attempts : Active(a)}

Advance(a, from, to) ==
    /\ stage[a] = from
    /\ stage' = [stage EXCEPT ![a] = to]
-----------------------------------------------------------------------------
(* Settling *)

\* #cleanupTerminal
CleanupTerminal ==
    /\ timer' = FALSE
    /\ listening' = FALSE
    /\ hedgePossible' = FALSE

NoCleanup == UNCHANGED <<timer, listening, hedgePossible>>

\* #abortMatchingAttempts
Abort(S) == aborted' = [a \in Attempts |-> aborted[a] \/ a \in S]

\* #handleParentAbort, if it is registered.
ParentAborts ==
    /\ ~parentAborted
    /\ parentAborted' = TRUE
    /\ IF listening /\ outcome = "none"
       THEN outcome' = "aborted" /\ CleanupTerminal /\ Abort(ActiveAttempts)
       ELSE NoCleanup /\ UNCHANGED <<outcome, aborted>>
    /\ UNCHANGED <<options, stage, winner>>
-----------------------------------------------------------------------------
(* execute, #startAttempt, #scheduleHedge *)

\* The original starts; the hedge is scheduled unless the deadline is nearer.
Execute ==
    /\ outcome = "none"
    /\ ~parentAborted
    /\ listening' = TRUE
    /\ Advance(Original, "none", "started")
    /\ timer' = hedgeFits
    /\ hedgePossible' = hedgeFits
    /\ UNCHANGED <<options, parentAborted, aborted, outcome, winner>>

\* The parent is aborted already: nothing starts.
ExecuteAborted ==
    /\ outcome = "none"
    /\ stage[Original] = "none"
    /\ parentAborted
    /\ outcome' = "aborted"
    /\ NoCleanup
    /\ UNCHANGED <<options, parentAborted, stage, aborted, winner>>

\* Mutant: the timer leaves a hedge possible.
TimerKeepsHedgePossible ==
    /\ timer
    /\ outcome = "none"
    /\ timer' = FALSE
    /\ Advance(Second, "none", "started")
    /\ UNCHANGED <<options, parentAborted, listening, hedgePossible, aborted,
                   outcome, winner>>

\* Mutant: no hedge for an original that still runs.
TimerAwaitsOriginal ==
    /\ timer
    /\ outcome = "none"
    /\ ~Active(Original)
    /\ timer' = FALSE
    /\ hedgePossible' = FALSE
    /\ Advance(Second, "none", "started")
    /\ UNCHANGED <<options, parentAborted, listening, aborted, outcome, winner>>

\* The hedge timer.  Settling clears it, so it finds the call unsettled; the
\* attempt it starts is active, so nothing is exhausted.
TimerFires ==
    /\ timer
    /\ outcome = "none"
    /\ timer' = FALSE
    /\ hedgePossible' = FALSE
    /\ Advance(Second, "none", "started")
    /\ UNCHANGED <<options, parentAborted, listening, aborted, outcome, winner>>

\* The microtask of #runAttempt calls next, whatever happened since.
CallNext(a) ==
    /\ Advance(a, "started", "running")
    /\ NoCleanup
    /\ UNCHANGED <<options, parentAborted, aborted, outcome, winner>>
-----------------------------------------------------------------------------
(* #handleAttemptSuccess, #handleAttemptFailure *)

\* Mutant: a winner leaves the hedge timer and the listener behind.
WinsWithoutCleanup(a) ==
    /\ Advance(a, "running", "settled")
    /\ outcome = "none"
    /\ outcome' = "success"
    /\ winner' = a
    /\ Abort(IF abortLosers THEN ActiveAttempts \ {a} ELSE {})
    /\ NoCleanup
    /\ UNCHANGED <<options, parentAborted>>

\* Mutant: losers are left running.
WinsWithLosers(a) ==
    /\ Advance(a, "running", "settled")
    /\ outcome = "none"
    /\ outcome' = "success"
    /\ winner' = a
    /\ Abort({})
    /\ CleanupTerminal
    /\ UNCHANGED <<options, parentAborted>>

\* #settleSuccess: the first acceptable value.
Wins(a) ==
    /\ Advance(a, "running", "settled")
    /\ outcome = "none"
    /\ outcome' = "success"
    /\ winner' = a
    /\ Abort(IF abortLosers THEN ActiveAttempts \ {a} ELSE {})
    /\ CleanupTerminal
    /\ UNCHANGED <<options, parentAborted>>

Exhausted(a) == ~hedgePossible /\ ActiveAttempts \subseteq {a}

\* Mutant: an attempt that runs on does not count.
FailsForAll(a) ==
    /\ Advance(a, "running", "settled")
    /\ outcome = "none"
    /\ IF ~hedgePossible
       THEN outcome' = "failed" /\ CleanupTerminal
       ELSE NoCleanup /\ UNCHANGED outcome
    /\ UNCHANGED <<options, parentAborted, aborted, winner>>

\* An error, a value that shouldAccept refuses, or shouldAccept throws:
\* #maybeRejectWhenExhausted settles if this was the last hope.
Fails(a) ==
    /\ Advance(a, "running", "settled")
    /\ outcome = "none"
    /\ IF Exhausted(a)
       THEN outcome' = "failed" /\ CleanupTerminal
       ELSE NoCleanup /\ UNCHANGED outcome
    /\ UNCHANGED <<options, parentAborted, aborted, winner>>

\* Mutant: a late value replaces the answer.
EndsLateAndWins(a) ==
    /\ Advance(a, "running", "settled")
    /\ outcome # "none"
    /\ winner' = a
    /\ NoCleanup
    /\ UNCHANGED <<options, parentAborted, aborted, outcome>>

\* The call is settled: the attempt is observed and dropped.
EndsLate(a) ==
    /\ Advance(a, "running", "settled")
    /\ outcome # "none"
    /\ NoCleanup
    /\ UNCHANGED <<options, parentAborted, aborted, outcome, winner>>

\* The finally of #runAttempt.
Release(a) ==
    /\ Advance(a, "settled", "released")
    /\ NoCleanup
    /\ UNCHANGED <<options, parentAborted, aborted, outcome, winner>>

Ends(a) == Wins(a) \/ Fails(a) \/ EndsLate(a)

HedgeNext ==
    \/ ParentAborts \/ Execute \/ ExecuteAborted \/ TimerFires
    \/ \E a \in Attempts : CallNext(a) \/ Ends(a) \/ Release(a)

HedgeSpec == HedgeInit /\ [][HedgeNext]_hedgeVars

\* Timers and microtasks run, and the second attempt ends.  The original may
\* hang: that is what hedging is for.
HedgeFairness ==
    /\ WF_hedgeVars(TimerFires)
    /\ \A a \in Attempts : WF_hedgeVars(CallNext(a)) /\ WF_hedgeVars(Release(a))
    /\ WF_hedgeVars(Ends(Second))

HedgeFairSpec == HedgeSpec /\ HedgeFairness
-----------------------------------------------------------------------------
(* Properties *)

HedgeTypeOK ==
    /\ abortLosers \in BOOLEAN
    /\ hedgeFits \in BOOLEAN
    /\ parentAborted \in BOOLEAN
    /\ listening \in BOOLEAN
    /\ timer \in BOOLEAN
    /\ hedgePossible \in BOOLEAN
    /\ stage \in [Attempts -> Stages]
    /\ aborted \in [Attempts -> BOOLEAN]
    /\ outcome \in {"none", "success", "failed", "aborted"}
    /\ winner \in (IF outcome = "success" THEN Attempts ELSE {0})

Called == stage[Original] # "none"

\* An unsettled call still has something that will settle it: an attempt that
\* runs, or a hedge to come.  Whatever order failures and timer take, it is
\* never left with neither (#maybeRejectWhenExhausted).
NeverStranded == Called /\ outcome = "none" => ActiveAttempts # {} \/ timer

\* An unsettled call watches its parent, so no cancellation is missed; a
\* settled one has given up its timer and listener (#cleanupTerminal).
WatchesParent ==
    /\ Called /\ outcome = "none" => listening /\ ~parentAborted
    /\ outcome # "none" => ~listening /\ ~timer

\* Work goes on for nobody only if abortLosers is off; and no attempt is
\* aborted before the call is settled.
LosersAreAborted ==
    /\ outcome # "none" =>
        \A a \in ActiveAttempts : aborted[a] \/ (outcome = "success" /\ ~abortLosers)
    /\ outcome = "none" => \A a \in Attempts : ~aborted[a]

\* The call fails only after every attempt it could make was made and ended;
\* a hedge is left out for the deadline alone.
FailsExhausted ==
    outcome = "failed" =>
        /\ ActiveAttempts = {}
        /\ stage[Second] = "none" => ~hedgeFits

\* The caller is answered once, and a settled call starts nothing new.
SettledForGood ==
    [][outcome # "none" =>
        /\ outcome' = outcome /\ winner' = winner
        /\ \A a \in Attempts : stage[a] = "none" => stage'[a] = "none"]_hedgeVars

\* A hanging original does not hold the call: once the hedge is scheduled the
\* call is settled, or the second attempt was made and was not acceptable.
HedgeRescues == timer ~> (outcome # "none" \/ stage[Second] = "released")
=============================================================================
