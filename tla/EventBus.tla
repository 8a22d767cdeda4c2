------------------------------ MODULE EventBus ------------------------------
(***************************************************************************)
(* The event bus, packages/core/src/core/events/index.ts (DefaultEventBus, *)
(* createUnsubscribe); the bus of the LLM client is the same but for the   *)
(* flag of an unsubscribe that has been used.                              *)
(*                                                                         *)
(* A listener set is created for the first handler of a type and dropped   *)
(* from #listeners when it is empty.  Every unsubscribe keeps the set of   *)
(* its own subscription: sets are identities here, and `current` is the    *)
(* map #listeners.                                                         *)
(*                                                                         *)
(* Dispatch is synchronous.  Between two handlers nothing runs; a handler  *)
(* may subscribe, unsubscribe and emit: `stack` holds the emissions under  *)
(* way, the innermost first, and the head of todo is the running handler.  *)
(***************************************************************************)
EXTENDS Integers, Sequences, SequencesExt

CONSTANTS
    Subscriptions,  \* calls of on(), each made once
    HandlerOf,      \* the handler it passes
    TypeOf,         \* the type of event
    MaxNesting      \* bound: emissions inside emissions

ASSUME BusAssumption ==
    /\ IsFiniteSet(Subscriptions)
    /\ DOMAIN HandlerOf = Subscriptions /\ DOMAIN TypeOf = Subscriptions
    /\ MaxNesting \in Nat

Types == {TypeOf[s] : s \in Subscriptions}
SetIds == 1..Cardinality(Subscriptions)

VARIABLES
    members,        \* members[i]: the handlers of listener set i, in order
    current,        \* current[t]: the set registered for type t, or 0
    captured,       \* captured[s]: the set of subscription s, or 0
    active,         \* active[s]: its unsubscribe has not been used
    stack           \* the emissions under way: [set, todo, called, due]

busVars == <<members, current, captured, active, stack>>

BusInit ==
    /\ members = [i \in SetIds |-> <<>>]
    /\ current = [t \in Types |-> 0]
    /\ captured = [s \in Subscriptions |-> 0]
    /\ active = [s \in Subscriptions |-> FALSE]
    /\ stack = <<>>

\* on
On(s) ==
    LET unused == CHOOSE i \in SetIds : \A u \in Subscriptions : captured[u] # i
        set == IF current[TypeOf[s]] = 0 THEN unused ELSE current[TypeOf[s]]
    IN /\ captured[s] = 0
       /\ captured' = [captured EXCEPT ![s] = set]
       /\ active' = [active EXCEPT ![s] = TRUE]
       /\ current' = [current EXCEPT ![TypeOf[s]] = set]
       /\ members' = [members EXCEPT ![set] =
                        IF HandlerOf[s] \in ToSet(@) THEN @ ELSE Append(@, HandlerOf[s])]
       /\ UNCHANGED stack

\* The effect of the closure that on() passes to createUnsubscribe.
RemoveHandler(s) ==
    LET left == RemoveFirst(members[captured[s]], HandlerOf[s]) IN
    /\ members' = [members EXCEPT ![captured[s]] = left]
    /\ current' = [current EXCEPT ![TypeOf[s]] = IF left = <<>> THEN 0 ELSE @]
    /\ stack' = [n \in DOMAIN stack |->
                    IF stack[n].set = captured[s]
                    THEN [stack[n] EXCEPT !.due = @ \ {HandlerOf[s]}] ELSE stack[n]]

\* Mutant: createUnsubscribe without its flag.
OffAgain(s) ==
    /\ captured[s] # 0
    /\ active' = [active EXCEPT ![s] = FALSE]
    /\ RemoveHandler(s)
    /\ UNCHANGED captured

\* Mutant: the set is dropped whoever is left in it.
OffDropsSet(s) ==
    /\ active[s]
    /\ active' = [active EXCEPT ![s] = FALSE]
    /\ members' = [members EXCEPT ![captured[s]] = RemoveFirst(@, HandlerOf[s])]
    /\ current' = [current EXCEPT ![TypeOf[s]] = 0]
    /\ UNCHANGED <<captured, stack>>

Off(s) ==
    /\ active[s]
    /\ active' = [active EXCEPT ![s] = FALSE]
    /\ RemoveHandler(s)
    /\ UNCHANGED captured

\* clear.  The sets keep their members, and emissions under way go on.
Clear ==
    /\ current' = [t \in Types |-> 0]
    /\ UNCHANGED <<members, captured, active, stack>>

\* emit, as far as the first handler.  `due` is history: the handlers that
\* have been subscribed since the emission began.
Emit(t) ==
    /\ current[t] # 0
    /\ Len(stack) <= MaxNesting
    /\ stack' = <<[set |-> current[t], todo |-> members[current[t]], called |-> <<>>,
                   due |-> ToSet(members[current[t]])]>> \o stack
    /\ UNCHANGED <<members, current, captured, active>>

\* Mutant: the live list is walked by index, without a snapshot.
ReturnsLive ==
    /\ stack # <<>>
    /\ LET top == Head(stack)
           walked == Append(top.called, Head(top.todo))
           live == members[top.set]
           rest == SubSeq(live, Len(walked) + 1, Len(live))
       IN stack' = IF rest = <<>> THEN Tail(stack)
                   ELSE <<[top EXCEPT !.todo = rest, !.called = walked]>> \o Tail(stack)
    /\ UNCHANGED <<members, current, captured, active>>

\* Mutant: a handler that has unsubscribed ends the loop instead of being
\* passed over.
ReturnsAtFirstGone ==
    /\ stack # <<>>
    /\ LET top == Head(stack)
           left == Tail(top.todo)
       IN stack' = IF left = <<>> \/ Head(left) \notin ToSet(members[top.set]) THEN Tail(stack)
                   ELSE <<[top EXCEPT !.todo = left, !.called = Append(@, Head(top.todo))]>>
                        \o Tail(stack)
    /\ UNCHANGED <<members, current, captured, active>>

\* A handler returns or throws, and the next one of the snapshot that is
\* still subscribed runs.
HandlerReturns ==
    /\ stack # <<>>
    /\ LET top == Head(stack)
           walked == Append(top.called, Head(top.todo))
           Next_(i) == top.todo[i] \in ToSet(members[top.set])
                       /\ \A j \in 2..(i - 1) : top.todo[j] \notin ToSet(members[top.set])
           next == {i \in 2..Len(top.todo) : Next_(i)}
       IN stack' = IF next = {} THEN Tail(stack)
                   ELSE <<[top EXCEPT !.todo = SubSeq(@, CHOOSE i \in next : TRUE, Len(@)),
                                      !.called = walked]>> \o Tail(stack)
    /\ UNCHANGED <<members, current, captured, active>>

\* A handler that an action of the bus has set running.
SetsRunning(h) == Len(stack') >= Len(stack) /\ stack' # <<>> /\ Head(Head(stack').todo) = h
=============================================================================
