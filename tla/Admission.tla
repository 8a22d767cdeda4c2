----------------------------- MODULE Admission -----------------------------
(***************************************************************************)
(* What a keyed bulkhead promises, apart from how it does it: a pool of    *)
(* MaxConcurrent slots per key and a first-come first-served line of at    *)
(* most MaxQueue waiters.  Every step is atomic: a slot that becomes free  *)
(* while somebody waits goes to the head of the line in the same step, so  *)
(* a newcomer can never overtake the line.                                 *)
(*                                                                         *)
(* Bulkhead implements this specification (Bulkhead!Abstract).             *)
(***************************************************************************)
EXTENDS Naturals, Sequences, FiniteSets

CONSTANTS
    Keys,           \* partition keys
    Calls,          \* callers
    MaxConcurrent,  \* slots of one key
    MaxQueue        \* places in the line of one key

VARIABLES
    holders,        \* holders[k]: the callers that hold a slot of k
    line            \* line[k]: the callers that wait for a slot of k

avars == <<holders, line>>

InLine(k, c) == \E i \in DOMAIN line[k] : line[k][i] = c

AInit ==
    /\ holders = [k \in Keys |-> {}]
    /\ line = [k \in Keys |-> <<>>]

\* A free slot goes to a newcomer only when nobody waits for it.
Enter(k, c) ==
    /\ line[k] = <<>>
    /\ c \notin holders[k]
    /\ Cardinality(holders[k]) < MaxConcurrent
    /\ holders' = [holders EXCEPT ![k] = @ \cup {c}]
    /\ UNCHANGED line

\* Waiting is for a full pool only, and the line is bounded.
LineUp(k, c) ==
    /\ c \notin holders[k]
    /\ ~InLine(k, c)
    /\ Cardinality(holders[k]) = MaxConcurrent
    /\ Len(line[k]) < MaxQueue
    /\ line' = [line EXCEPT ![k] = Append(@, c)]
    /\ UNCHANGED holders

\* The slot of a leaving holder goes to the head of the line.
HandOver(k, c) ==
    /\ c \in holders[k]
    /\ line[k] # <<>>
    /\ holders' = [holders EXCEPT ![k] = (@ \ {c}) \cup {Head(line[k])}]
    /\ line' = [line EXCEPT ![k] = Tail(@)]

\* Nobody waits: the slot becomes free.
Vacate(k, c) ==
    /\ c \in holders[k]
    /\ line[k] = <<>>
    /\ holders' = [holders EXCEPT ![k] = @ \ {c}]
    /\ UNCHANGED line

\* A waiter at place i leaves the line; those behind it move up, in order.
GiveUp(k, i) ==
    /\ i \in DOMAIN line[k]
    /\ line' = [line EXCEPT ![k] = SubSeq(@, 1, i - 1) \o SubSeq(@, i + 1, Len(@))]
    /\ UNCHANGED holders

ANext ==
    \E k \in Keys :
        \/ \E c \in Calls : Enter(k, c) \/ LineUp(k, c) \/ HandOver(k, c) \/ Vacate(k, c)
        \/ \E i \in DOMAIN line[k] : GiveUp(k, i)

ASpec == AInit /\ [][ANext]_avars
=============================================================================
