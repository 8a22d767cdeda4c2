---------------------------- MODULE ClientProofs ----------------------------
(***************************************************************************)
(* Theorems about Client, its EventBus and its Plugins, for any            *)
(* subscriptions, handlers, types of events, plugins and calls: a          *)
(* subscription holds until its own unsubscribe or the end of the client;  *)
(* an emission calls everybody it owes a call, and nobody twice; the       *)
(* totals of stats() are exact; plugins are ordered as promised, and what  *)
(* they depend on outlives them.                                           *)
(***************************************************************************)
EXTENDS Client, FiniteSetTheorems, SequenceTheorems,
        WellFoundedInduction, TLAPS

Handlers == {HandlerOf[s] : s \in Subscriptions}

\* A listener set holds a handler once.
NoneTwice(q) == \A i, j \in 1..Len(q) : q[i] = q[j] => i = j

\* The values of the variables of the bus that the properties are about.
BusTypeOK ==
    /\ members \in [SetIds -> Seq(Handlers)]
    /\ \A i \in SetIds : NoneTwice(members[i])
    /\ current \in [Types -> SetIds \cup {0}]
    /\ captured \in [Subscriptions -> SetIds \cup {0}]
    /\ active \in [Subscriptions -> BOOLEAN]

\* A listener set serves one type of event.
SetsHaveOneType ==
    \A s, u \in Subscriptions :
        captured[s] = captured[u] /\ captured[s] # 0 => TypeOf[s] = TypeOf[u]

\* A registered set is that of a subscription to its type.
CurrentIsCaptured ==
    \A t \in Types : current[t] # 0 =>
        \E u \in Subscriptions : captured[u] = current[t] /\ TypeOf[u] = t

ActiveHaveSets == \A s \in Subscriptions : active[s] => captured[s] # 0

IInv ==
    /\ BusTypeOK
    /\ SetsHaveOneType
    /\ CurrentIsCaptured
    /\ ActiveHaveSets
-----------------------------------------------------------------------------
(* The sequences of handlers *)

\* Append keeps what there was and adds the new element.
LEMMA AppendAdds ==
    ASSUME NEW S, NEW q \in Seq(S), NEW e \in S
    PROVE  /\ Append(q, e) \in Seq(S)
           /\ NoneTwice(q) /\ e \notin ToSet(q) => NoneTwice(Append(q, e))
           /\ e \in ToSet(Append(q, e))
           /\ \A h \in ToSet(q) : h \in ToSet(Append(q, e))
BY DEF ToSet, NoneTwice

\* Append adds its element and nothing else.
LEMMA AppendSet ==
    ASSUME NEW S, NEW q \in Seq(S), NEW e \in S
    PROVE  ToSet(Append(q, e)) = ToSet(q) \cup {e}
<1> DEFINE t == Append(q, e)
<1>1. /\ DOMAIN t = 1..(Len(q) + 1) /\ DOMAIN q = 1..Len(q) /\ Len(q) \in Nat
      /\ \A i \in DOMAIN q : t[i] = q[i]
      /\ t[Len(q) + 1] = e
    OBVIOUS
<1> HIDE DEF t
<1>2. {t[i] : i \in DOMAIN t} = {q[i] : i \in DOMAIN q} \cup {e}
    BY <1>1
<1> QED BY <1>2 DEF ToSet, t

\* Set.delete: RemoveFirst keeps every other element of a list in which no
\* element occurs twice.
LEMMA RemoveFirstKeeps ==
    ASSUME NEW S, NEW q \in Seq(S), NoneTwice(q), NEW e
    PROVE  /\ RemoveFirst(q, e) \in Seq(S)
           /\ NoneTwice(RemoveFirst(q, e))
           /\ \A h \in ToSet(q) : h # e => h \in ToSet(RemoveFirst(q, e))
           /\ ToSet(RemoveFirst(q, e)) \subseteq ToSet(q)
<1>1. CASE ~\E i \in 1..Len(q) : q[i] = e
    BY <1>1 DEF RemoveFirst
<1>2. CASE \E i \in 1..Len(q) : q[i] = e
    <2>1. PICK k \in 1..Len(q) : q[k] = e
        BY <1>2
    <2>2. {i \in 1..Len(q) : q[i] = e} = {k}
        BY <2>1 DEF NoneTwice
    <2>3. Min({k}) = k
        BY DEF Min
    <2>4. RemoveFirst(q, e) = SubSeq(q, 1, k - 1) \o SubSeq(q, k + 1, Len(q))
        BY <1>2, <2>2, <2>3 DEF RemoveFirst, SelectInSeq, RemoveAt
    <2> DEFINE a == SubSeq(q, 1, k - 1)
               b == SubSeq(q, k + 1, Len(q))
    <2>5. /\ a \in Seq(S) /\ Len(a) = k - 1
          /\ \A i \in 1..(k - 1) : a[i] = q[i]
        BY SubSeqProperties
    <2>6. /\ b \in Seq(S) /\ Len(b) = Len(q) - k
          /\ \A i \in 1..(Len(q) - k) : b[i] = q[k + i]
        BY SubSeqProperties
    <2> HIDE DEF a, b
    <2>7. PICK c \in Seq(S) : /\ c = a \o b /\ Len(c) = Len(a) + Len(b)
                              /\ \A i \in 1..(Len(a) + Len(b)) :
                                     c[i] = IF i <= Len(a) THEN a[i] ELSE b[i - Len(a)]
        <3>1. /\ a \o b \in Seq(S) /\ Len(a \o b) = Len(a) + Len(b)
              /\ \A i \in 1..(Len(a) + Len(b)) :
                    (a \o b)[i] = IF i <= Len(a) THEN a[i] ELSE b[i - Len(a)]
            BY <2>5, <2>6, ConcatProperties
        <3> QED BY <3>1, Zenon
    <2>8. /\ Len(c) = Len(q) - 1
          /\ \A i \in 1..(k - 1) : c[i] = q[i]
          /\ \A i \in k..(Len(q) - 1) : c[i] = q[i + 1]
        <3>1. Len(c) = Len(q) - 1
            BY <2>5, <2>6, <2>7
        <3>2. ASSUME NEW i \in 1..(k - 1)
              PROVE  c[i] = q[i]
            BY <2>5, <2>6, <2>7
        <3>3. ASSUME NEW i \in k..(Len(q) - 1)
              PROVE  c[i] = q[i + 1]
            <4>1. PICK n \in 1..(Len(q) - k) : n = i - (k - 1)
                OBVIOUS
            <4>2. c[i] = b[n]
                BY <2>5, <2>6, <2>7, <4>1
            <4>3. b[n] = q[k + n] /\ k + n = i + 1
                BY <2>6, <4>1
            <4> QED BY <4>2, <4>3
        <3> QED BY <3>1, <3>2, <3>3
    <2>9. NoneTwice(c)
        BY <2>8 DEF NoneTwice
    <2>10. ASSUME NEW j \in 1..Len(q), q[j] # e
           PROVE  \E n \in 1..Len(c) : c[n] = q[j]
        <3>1. CASE j < k
            BY <2>8, <3>1
        <3>2. CASE j > k
            <4>1. PICK n \in k..(Len(q) - 1) : n + 1 = j
                BY <3>2
            <4>2. c[n] = q[n + 1] /\ n \in 1..Len(c)
                BY <2>8
            <4> QED BY <4>1, <4>2
        <3> QED BY <2>1, <2>10, <3>1, <3>2
    <2>11. ASSUME NEW n \in 1..Len(c)
           PROVE  \E j \in 1..Len(q) : c[n] = q[j]
        <3>1. CASE n < k
            BY <2>8, <3>1
        <3>2. CASE ~(n < k)
            <4>1. PICK j \in 1..Len(q) : j = n + 1
                BY <2>8, <3>2
            <4> QED BY <2>8, <3>2, <4>1
        <3> QED BY <3>1, <3>2
    <2>12. RemoveFirst(q, e) = c
        BY <2>4, <2>7 DEF a, b
    <2>13. \A h \in ToSet(q) : h # e => h \in ToSet(c)
        BY <2>10 DEF ToSet
    <2>14. ToSet(c) \subseteq ToSet(q)
        BY <2>11 DEF ToSet
    <2> QED BY <2>9, <2>12, <2>13, <2>14
<1> QED BY <1>1, <1>2
-----------------------------------------------------------------------------
(* The bus *)

\* As many listener sets as subscriptions are enough: one that has none of
\* its own finds an unused one.
LEMMA UnusedExists ==
    ASSUME BusTypeOK, NEW s \in Subscriptions, captured[s] = 0
    PROVE  \E i \in SetIds : \A u \in Subscriptions : captured[u] # i
<1> DEFINE Others == Subscriptions \ {s}
           Used == {captured[u] : u \in Others}
<1>1. IsFiniteSet(Subscriptions) /\ Cardinality(Subscriptions) \in Nat \ {0}
    <2>1. IsFiniteSet(Subscriptions)
        BY BusAssumption
    <2>2. Cardinality(Subscriptions) \in Nat /\ Cardinality(Subscriptions) # 0
        BY <2>1, FS_CardinalityType, FS_EmptySet
    <2> QED BY <2>1, <2>2
<1>2. IsFiniteSet(Others) /\ Cardinality(Others) = Cardinality(Subscriptions) - 1
    BY <1>1, FS_RemoveElement
<1>3. IsFiniteSet(Used) /\ Cardinality(Used) <= Cardinality(Others)
    <2> DEFINE f == [u \in Others |-> captured[u]]
    <2>1. f \in Surjection(Others, Used)
        BY DEF Surjection
    <2> QED BY <1>2, <2>1, FS_Surjection
<1>4. Cardinality(SetIds) = Cardinality(Subscriptions) /\ IsFiniteSet(SetIds)
    BY <1>1, FS_Interval DEF SetIds
<1>5. PICK i \in SetIds : i \notin Used
    <2>1. CASE SetIds \subseteq Used
        <3>1. Cardinality(SetIds) <= Cardinality(Used)
            BY <1>3, <2>1, FS_Subset
        <3>2. Cardinality(Used) \in Nat
            BY <1>3, FS_CardinalityType
        <3> QED BY <1>1, <1>2, <1>3, <1>4, <3>1, <3>2
    <2> QED BY <2>1
<1>6. i # 0
    BY <1>1 DEF SetIds
<1> QED BY <1>5, <1>6

\* on: the handler is in the set that is registered for its type, and whoever
\* was in a registered set still is.
LEMMA OnKeeps ==
    ASSUME IInv, NEW s \in Subscriptions, On(s)
    PROVE  IInv' /\ \A u \in Subscriptions : KeepsHolding(u)
<1> DEFINE T == TypeOf[s]
           unused == CHOOSE i \in SetIds : \A u \in Subscriptions : captured[u] # i
           set == IF current[T] = 0 THEN unused ELSE current[T]
<1>1. /\ captured[s] = 0 /\ T \in Types
      /\ captured' = [captured EXCEPT ![s] = set]
      /\ active' = [active EXCEPT ![s] = TRUE]
      /\ current' = [current EXCEPT ![T] = set]
      /\ members' = [members EXCEPT ![set] =
                        IF HandlerOf[s] \in ToSet(@) THEN @ ELSE Append(@, HandlerOf[s])]
    BY DEF On, Types
<1>2. unused \in SetIds /\ \A u \in Subscriptions : captured[u] # unused
    BY <1>1, UnusedExists DEF IInv
<1> HIDE DEF unused
<1>3. set \in SetIds /\ set # 0
    BY <1>1, <1>2 DEF IInv, BusTypeOK, SetIds
<1>4. \A u \in Subscriptions : captured[u] = set => TypeOf[u] = T
    BY <1>1, <1>2 DEF IInv, SetsHaveOneType, CurrentIsCaptured
<1>5. current[T] = set \/ (current[T] = 0 /\ \A u \in Subscriptions : captured[u] # set)
    BY <1>2
<1> HIDE DEF set
<1>6. /\ members'[set] \in Seq(Handlers) /\ NoneTwice(members'[set])
      /\ HandlerOf[s] \in ToSet(members'[set])
      /\ \A h \in ToSet(members[set]) : h \in ToSet(members'[set])
    <2>1. /\ members[set] \in Seq(Handlers) /\ NoneTwice(members[set])
          /\ HandlerOf[s] \in Handlers
          /\ members'[set] = IF HandlerOf[s] \in ToSet(members[set]) THEN members[set]
                             ELSE Append(members[set], HandlerOf[s])
        BY <1>1, <1>3 DEF IInv, BusTypeOK, Handlers
    <2> QED BY <2>1, AppendAdds
<1>7. BusTypeOK'
    BY <1>1, <1>3, <1>6 DEF IInv, BusTypeOK
<1>8. SetsHaveOneType'
    BY <1>1, <1>3, <1>4 DEF IInv, BusTypeOK, SetsHaveOneType
<1>9. CurrentIsCaptured'
    BY <1>1, <1>3 DEF IInv, BusTypeOK, CurrentIsCaptured
<1>10. ActiveHaveSets'
    BY <1>1, <1>3 DEF IInv, BusTypeOK, ActiveHaveSets
<1>11. ASSUME NEW u \in Subscriptions, active'[u], Holds(u) \/ ~active[u]
       PROVE  Holds(u)'
    <2>1. CASE u = s
        BY <1>1, <1>6, <1>11, <2>1 DEF IInv, BusTypeOK, Holds
    <2>2. CASE u # s
        <3>1. /\ active[u] /\ captured'[u] = captured[u] /\ captured[u] # 0
              /\ captured[u] \in SetIds
            BY <1>1, <1>11, <2>2 DEF IInv, BusTypeOK, ActiveHaveSets
        <3>2. current[TypeOf[u]] = captured[u] /\ HandlerOf[u] \in ToSet(members[captured[u]])
            BY <1>11, <3>1 DEF Holds
        <3>3. CASE TypeOf[u] = T
            BY <1>1, <1>5, <1>6, <1>11, <3>1, <3>2, <3>3 DEF IInv, BusTypeOK, Holds
        <3>4. CASE TypeOf[u] # T
            BY <1>1, <1>4, <1>11, <3>1, <3>2, <3>4 DEF IInv, BusTypeOK, Types, Holds
        <3> QED BY <3>3, <3>4
    <2> QED BY <2>1, <2>2
<1> QED BY <1>7, <1>8, <1>9, <1>10, <1>11 DEF IInv, KeepsHolding

\* The unsubscribe of a subscription that is active: only its own handler
\* leaves the set, and if that set is registered it stays so as long as it has
\* another.
LEMMA OffKeeps ==
    ASSUME IInv, NEW s \in Subscriptions, Off(s)
    PROVE  IInv' /\ \A u \in Subscriptions : KeepsHolding(u)
<1> DEFINE T == TypeOf[s]
           set == captured[s]
           left == RemoveFirst(members[set], HandlerOf[s])
<1>1. /\ active[s] /\ T \in Types /\ captured' = captured
      /\ active' = [active EXCEPT ![s] = FALSE]
      /\ members' = [members EXCEPT ![set] = left]
      /\ current' = [current EXCEPT ![T] = IF left = <<>> THEN 0 ELSE @]
    BY DEF Off, RemoveHandler, Types
<1>2. set \in SetIds /\ set # 0
    BY <1>1 DEF IInv, BusTypeOK, ActiveHaveSets
<1>3. /\ left \in Seq(Handlers) /\ NoneTwice(left)
      /\ \A h \in ToSet(members[set]) : h # HandlerOf[s] => h \in ToSet(left)
    BY <1>2, RemoveFirstKeeps DEF IInv, BusTypeOK
<1> HIDE DEF left, set
<1>4. BusTypeOK'
    BY <1>1, <1>2, <1>3 DEF IInv, BusTypeOK
<1>5. SetsHaveOneType' /\ ActiveHaveSets'
    BY <1>1 DEF IInv, BusTypeOK, SetsHaveOneType, ActiveHaveSets
<1>6. CurrentIsCaptured'
    BY <1>1 DEF IInv, BusTypeOK, CurrentIsCaptured
<1>7. ASSUME NEW u \in Subscriptions, active'[u], Holds(u) \/ ~active[u],
             TypeOf[u] = T => HandlerOf[u] # HandlerOf[s] /\ Holds(s)
      PROVE  Holds(u)'
    <2>1. active[u] /\ captured[u] # 0 /\ captured[u] \in SetIds
        BY <1>1, <1>7 DEF IInv, BusTypeOK, ActiveHaveSets
    <2>2. current[TypeOf[u]] = captured[u] /\ HandlerOf[u] \in ToSet(members[captured[u]])
        BY <1>7, <2>1 DEF Holds
    <2>3. CASE TypeOf[u] = T
        <3>1. captured[u] = set
            BY <1>7, <2>2, <2>3 DEF Holds, set
        <3>2. HandlerOf[u] \in ToSet(left)
            BY <1>3, <1>7, <2>2, <2>3, <3>1
        <3>3. left # <<>>
            BY <3>2 DEF ToSet
        <3> QED BY <1>1, <1>2, <1>7, <2>2, <2>3, <3>1, <3>2, <3>3 DEF IInv, BusTypeOK, Holds
    <2>4. CASE TypeOf[u] # T
        <3>1. captured[u] # set
            BY <2>1, <2>4 DEF IInv, SetsHaveOneType, set
        <3> QED BY <1>1, <1>7, <2>1, <2>2, <2>4, <3>1 DEF IInv, BusTypeOK, Types, Holds
    <2> QED BY <2>3, <2>4
<1>8. active[s] /\ ~active'[s]
    BY <1>1 DEF IInv, BusTypeOK
<1>9. ASSUME NEW u \in Subscriptions
      PROVE  KeepsHolding(u)
    <2>1. CASE TypeOf[u] = T => HandlerOf[u] # HandlerOf[s] /\ Holds(s)
        BY <1>7, <2>1 DEF KeepsHolding
    <2>2. CASE TypeOf[u] = T /\ (HandlerOf[u] = HandlerOf[s] \/ ~Holds(s))
        BY <1>8, <2>2 DEF KeepsHolding
    <2> QED BY <2>1, <2>2
<1> QED BY <1>4, <1>5, <1>6, <1>9 DEF IInv

\* Nothing else that leaves the listener sets alone disturbs a subscription.
LEMMA SameKeeps ==
    ASSUME IInv, UNCHANGED <<members, current, captured, active>>
    PROVE  IInv' /\ \A u \in Subscriptions : KeepsHolding(u)
<1>1. IInv'
    BY DEF IInv, BusTypeOK, SetsHaveOneType, CurrentIsCaptured, ActiveHaveSets
<1>2. \A u \in Subscriptions : KeepsHolding(u)
    BY DEF KeepsHolding, Holds
<1> QED BY <1>1, <1>2

\* clear ends the client.
LEMMA ClearKeeps ==
    ASSUME IInv, Clear, phase' = "destroyed"
    PROVE  IInv' /\ \A u \in Subscriptions : KeepsHolding(u)
<1>1. IInv'
    BY DEF Clear, IInv, BusTypeOK, SetsHaveOneType, CurrentIsCaptured, ActiveHaveSets
<1>2. \A u \in Subscriptions : KeepsHolding(u)
    BY DEF KeepsHolding
<1> QED BY <1>1, <1>2
-----------------------------------------------------------------------------
(* The client *)

\* A client begins without listeners.
LEMMA IInvInit == Init => IInv
<1> SUFFICES ASSUME Init PROVE IInv
    OBVIOUS
<1>1. BusTypeOK
    BY DEF Init, BusInit, BusTypeOK, NoneTwice
<1>2. SetsHaveOneType /\ CurrentIsCaptured /\ ActiveHaveSets
    BY DEF Init, BusInit, SetsHaveOneType, CurrentIsCaptured, ActiveHaveSets
<1> QED BY <1>1, <1>2 DEF IInv

\* The bus changes by on, off and clear only.
LEMMA BusStep ==
    IInv /\ [Next]_vars => IInv' /\ \A u \in Subscriptions : KeepsHolding(u)
<1> DEFINE Kept == IInv' /\ \A u \in Subscriptions : KeepsHolding(u)
<1> SUFFICES ASSUME IInv, [Next]_vars PROVE Kept
    OBVIOUS
<1>1. ASSUME UNCHANGED <<members, current, captured, active>>
      PROVE  Kept
    BY <1>1, SameKeeps
<1>2. ASSUME NEW s \in Subscriptions, On(s) \/ Off(s)
      PROVE  Kept
    BY <1>2, OnKeeps, OffKeeps
<1>3. ASSUME Clear, phase' = "destroyed"
      PROVE  Kept
    BY <1>3, ClearKeeps
<1> HIDE DEF Kept
<1>4. Calls \cup Users \cup {Stats} = Subscriptions
    BY ClientAssumption
<1>5. CASE UNCHANGED vars
    BY <1>1, <1>5 DEF vars, busVars
<1>6. CASE PluginIsSetUp \/ BuildFails
    BY <1>1, <1>6 DEF PluginIsSetUp, BuildFails, busVars
<1>7. CASE Built \/ Destroy
    BY <1>2, <1>4, <1>7 DEF Built, Destroy
<1>8. ASSUME NEW s \in Users, Subscribe(s) \/ Unsubscribe(s)
      PROVE  Kept
    BY <1>2, <1>4, <1>8 DEF Subscribe, Unsubscribe
<1>9. CASE HandlerDone
    BY <1>1, <1>9 DEF HandlerDone, HandlerReturns
<1>10. ASSUME NEW c \in Calls, StartCall(c) \/ CallSettles(c)
       PROVE  Kept
    BY <1>2, <1>4, <1>10 DEF StartCall, CallSettles
<1>11. ASSUME NEW c \in Calls, CallReturns(c)
       PROVE  Kept
    BY <1>1, <1>11 DEF CallReturns, busVars
<1>12. CASE AnnounceRetry
    BY <1>1, <1>12 DEF AnnounceRetry, Emit, busVars
<1>13. ASSUME NEW t \in Types, Announce(t)
       PROVE  Kept
    BY <1>1, <1>13 DEF Announce, Emit
<1>14. CASE InstanceReleased
    BY <1>1, <1>14 DEF InstanceReleased, busVars
<1>15. CASE DisposeFails \/ Destroyed
    BY <1>3, <1>15 DEF DisposeFails, Destroyed
<1> QED BY <1>5, <1>6, <1>7, <1>8, <1>9, <1>10, <1>11, <1>12, <1>13, <1>14, <1>15 DEF Next

LEMMA IInvStep == IInv /\ [Next]_vars => IInv'
BY BusStep

\* A subscription holds from its beginning until its own unsubscribe or the end
\* of the client, however often the listener set of its type has been dropped
\* and replaced, unless a subscription of the same handler is ended, or one
\* that had been ended so before: every unsubscribe acts once, on the set of
\* its own subscription, but drops whatever set its type then has.
THEOREM SubscriptionsNeverLost == Spec => SubscriptionsHold
<1>1. IInv /\ [Next]_vars => [AllKeepHolding]_vars
    BY BusStep DEF AllKeepHolding
<1> QED BY <1>1, IInvInit, IInvStep, PTL DEF Spec, SubscriptionsHold
-----------------------------------------------------------------------------
(* Dispatch *)

Emission == [set : SetIds, todo : Seq(Handlers), called : Seq(Handlers), due : SUBSET Handlers]

\* A registered set is not empty, so an emission calls somebody.
RegisteredNotEmpty == \A t \in Types : current[t] # 0 => members[current[t]] # <<>>

\* Of an emission under way: nobody is in line or called twice, nobody who has
\* been called is in line, and who is due is one of them and still subscribed.
EmissionExact(e) ==
    /\ e.todo # <<>>
    /\ NoneTwice(e.todo) /\ NoneTwice(e.called)
    /\ ToSet(e.called) \cap ToSet(e.todo) = {}
    /\ e.due \subseteq ToSet(e.called) \cup ToSet(e.todo)
    /\ e.due \subseteq ToSet(members[e.set])

StackExact ==
    /\ stack \in Seq(Emission)
    /\ \A n \in DOMAIN stack : EmissionExact(stack[n])

\* What is on a stack after a push.
LEMMA Pushed ==
    ASSUME NEW S, NEW q \in Seq(S), NEW e \in S
    PROVE  /\ <<e>> \o q \in Seq(S)
           /\ Len(<<e>> \o q) = Len(q) + 1
           /\ (<<e>> \o q)[1] = e
           /\ \A n \in DOMAIN (<<e>> \o q) :
                n = 1 \/ \E m \in DOMAIN q : n = m + 1 /\ (<<e>> \o q)[n] = q[m]
<1>1. PICK c \in Seq(S) : /\ c = <<e>> \o q /\ Len(c) = Len(q) + 1
                          /\ \A i \in 1..(Len(q) + 1) :
                                c[i] = IF i <= 1 THEN e ELSE q[i - 1]
    <2> DEFINE a == <<e>>
    <2>1. a \in Seq(S) /\ Len(a) = 1 /\ a[1] = e
        OBVIOUS
    <2> HIDE DEF a
    <2>2. /\ a \o q \in Seq(S) /\ Len(a \o q) = Len(a) + Len(q)
          /\ \A i \in 1..(Len(a) + Len(q)) :
                (a \o q)[i] = IF i <= Len(a) THEN a[i] ELSE q[i - Len(a)]
        BY <2>1, ConcatProperties
    <2>3. PICK c \in Seq(S) :
             /\ c = a \o q /\ Len(c) = Len(a) + Len(q)
             /\ \A i \in 1..(Len(a) + Len(q)) : c[i] = IF i <= Len(a) THEN a[i] ELSE q[i - Len(a)]
        BY <2>2, Zenon
    <2>4. /\ Len(c) = Len(q) + 1
          /\ \A i \in 1..(Len(q) + 1) : c[i] = IF i <= 1 THEN e ELSE q[i - 1]
        BY <2>1, <2>3
    <2> QED BY <2>3, <2>4 DEF a
<1>2. /\ DOMAIN c = 1..(Len(q) + 1) /\ DOMAIN q = 1..Len(q) /\ Len(q) \in Nat /\ c[1] = e
    BY <1>1
<1>3. ASSUME NEW n \in DOMAIN c, n # 1
      PROVE  \E m \in DOMAIN q : n = m + 1 /\ c[n] = q[m]
    <2>1. PICK m \in DOMAIN q : m = n - 1
        BY <1>2, <1>3
    <2>2. n = m + 1 /\ ~(n <= 1) /\ n \in 1..(Len(q) + 1)
        BY <1>2, <1>3, <2>1
    <2> QED BY <1>1, <2>1, <2>2
<1>4. /\ c \in Seq(S) /\ Len(c) = Len(q) + 1 /\ c[1] = e
      /\ \A n \in DOMAIN c : n = 1 \/ \E m \in DOMAIN q : n = m + 1 /\ c[n] = q[m]
    BY <1>1, <1>2, <1>3
<1> QED BY <1>1, <1>4, Zenon

\* What is on a stack after a pop.
LEMMA Popped ==
    ASSUME NEW S, NEW q \in Seq(S), q # <<>>
    PROVE  /\ Tail(q) \in Seq(S) /\ Len(Tail(q)) = Len(q) - 1
           /\ 1 \in DOMAIN q /\ Head(q) = q[1]
           /\ \A n \in DOMAIN Tail(q) : \E m \in DOMAIN q : m = n + 1 /\ Tail(q)[n] = q[m]
<1>1. /\ Tail(q) \in Seq(S) /\ Len(Tail(q)) = Len(q) - 1
      /\ DOMAIN Tail(q) = 1..(Len(q) - 1) /\ DOMAIN q = 1..Len(q) /\ Len(q) \in Nat
      /\ 1 \in DOMAIN q /\ Head(q) = q[1]
      /\ \A n \in 1..(Len(q) - 1) : Tail(q)[n] = q[n + 1]
    OBVIOUS
<1>2. ASSUME NEW n \in DOMAIN Tail(q) PROVE \E m \in DOMAIN q : m = n + 1 /\ Tail(q)[n] = q[m]
    <2>1. PICK m \in DOMAIN q : m = n + 1
        BY <1>1
    <2> QED BY <1>1, <2>1
<1> QED BY <1>1, <1>2

\* The sets of two sequences that follow each other.
LEMMA SetOfConcat ==
    ASSUME NEW S, NEW a \in Seq(S), NEW b \in Seq(S), NoneTwice(a), NoneTwice(b),
           ToSet(a) \cap ToSet(b) = {}
    PROVE  /\ ToSet(a \o b) = ToSet(a) \cup ToSet(b)
           /\ Cardinality(ToSet(a \o b)) = Len(a \o b)
<1>1. PICK c \in Seq(S) : /\ c = a \o b /\ Len(c) = Len(a) + Len(b)
                          /\ \A i \in 1..(Len(a) + Len(b)) :
                                c[i] = IF i <= Len(a) THEN a[i] ELSE b[i - Len(a)]
    <2>1. /\ a \o b \in Seq(S) /\ Len(a \o b) = Len(a) + Len(b)
          /\ \A i \in 1..(Len(a) + Len(b)) :
                (a \o b)[i] = IF i <= Len(a) THEN a[i] ELSE b[i - Len(a)]
        BY ConcatProperties
    <2> QED BY <2>1, Zenon
<1>2. /\ Len(a) \in Nat /\ Len(b) \in Nat
      /\ DOMAIN a = 1..Len(a) /\ DOMAIN b = 1..Len(b) /\ DOMAIN c = 1..(Len(a) + Len(b))
    BY <1>1
<1>3. ASSUME NEW i \in DOMAIN c
      PROVE  \/ i \in DOMAIN a /\ c[i] = a[i]
             \/ \E j \in DOMAIN b : i = Len(a) + j /\ c[i] = b[j]
    <2>1. CASE i <= Len(a)
        BY <1>1, <1>2, <2>1
    <2>2. CASE ~(i <= Len(a))
        <3>1. PICK j \in DOMAIN b : j = i - Len(a)
            BY <1>2, <2>2
        <3> QED BY <1>1, <1>2, <2>2, <3>1
    <2> QED BY <2>1, <2>2
<1>4. ASSUME NEW i \in DOMAIN a PROVE i \in DOMAIN c /\ c[i] = a[i]
    BY <1>1, <1>2
<1>5. ASSUME NEW j \in DOMAIN b PROVE Len(a) + j \in DOMAIN c /\ c[Len(a) + j] = b[j]
    <2>1. PICK i \in DOMAIN c : i = Len(a) + j
        BY <1>2
    <2>2. i - Len(a) = j /\ ~(i <= Len(a))
        BY <1>2, <2>1
    <2> QED BY <1>1, <1>2, <2>1, <2>2
<1>6. ToSet(c) = ToSet(a) \cup ToSet(b)
    <2>1. ToSet(c) \subseteq ToSet(a) \cup ToSet(b)
        BY <1>3 DEF ToSet
    <2>2. ToSet(a) \subseteq ToSet(c)
        BY <1>4 DEF ToSet
    <2>3. ToSet(b) \subseteq ToSet(c)
        BY <1>5 DEF ToSet
    <2> QED BY <2>1, <2>2, <2>3
<1>7. ASSUME NEW i \in DOMAIN c, NEW j \in DOMAIN c, c[i] = c[j] PROVE i = j
    <2>1. \A x \in DOMAIN a, y \in DOMAIN b : a[x] # b[y]
        BY DEF ToSet
    <2>2. CASE i \in DOMAIN a /\ c[i] = a[i]
        BY <1>2, <1>3, <1>7, <2>1, <2>2 DEF NoneTwice
    <2>3. CASE \E k \in DOMAIN b : i = Len(a) + k /\ c[i] = b[k]
        BY <1>2, <1>3, <1>7, <2>1, <2>3 DEF NoneTwice
    <2> QED BY <1>3, <2>2, <2>3
<1>8. Cardinality(ToSet(c)) = Len(c)
    <2> DEFINE D == 1..Len(c)
               f == [i \in D |-> c[i]]
    <2>1. f \in Bijection(D, ToSet(c))
        <3>1. DOMAIN c = D
            BY <1>1, <1>2
        <3>2. ToSet(c) = {c[i] : i \in D}
            BY <3>1 DEF ToSet
        <3>3. f \in Injection(D, ToSet(c))
            BY <1>7, <3>1, <3>2 DEF Injection, IsInjective
        <3>4. f \in Surjection(D, ToSet(c))
            BY <3>2 DEF Surjection
        <3> QED BY <3>3, <3>4 DEF Bijection
    <2>2. IsFiniteSet(D) /\ Cardinality(D) = Len(c)
        <3>1. 1 \in Int /\ Len(c) \in Int /\ Len(c) \in Nat
            OBVIOUS
        <3>2. /\ IsFiniteSet(1..Len(c))
              /\ Cardinality(1..Len(c)) = IF 1 > Len(c) THEN 0 ELSE Len(c) - 1 + 1
            BY <3>1, FS_Interval
        <3> QED BY <3>1, <3>2
    <2> HIDE DEF D, f
    <2> QED BY <2>1, <2>2, FS_Bijection DEF ExistsBijection
<1> QED BY <1>1, <1>6, <1>8

\* A prefix less, a sequence of distinct elements keeps the others.
LEMMA EndOfLine ==
    ASSUME NEW S, NEW q \in Seq(S), NoneTwice(q), NEW m \in 1..Len(q)
    PROVE  LET rest == SubSeq(q, m, Len(q)) IN
           /\ rest \in Seq(S) /\ rest # <<>> /\ NoneTwice(rest)
           /\ Head(rest) = q[m]
           /\ ToSet(rest) = {q[i] : i \in m..Len(q)}
           /\ ToSet(Tail(rest)) = {q[i] : i \in (m + 1)..Len(q)}
<1> DEFINE rest == SubSeq(q, m, Len(q))
<1>1. /\ rest \in Seq(S) /\ Len(rest) = Len(q) - m + 1
      /\ \A i \in 1..Len(rest) : rest[i] = q[m + i - 1]
    <2>1. m \in 1..Len(q) + 1 /\ Len(q) \in m - 1..Len(q)
        OBVIOUS
    <2> QED BY <2>1, SubSeqProperties
<1>2. Len(q) \in Nat /\ DOMAIN q = 1..Len(q)
    OBVIOUS
<1> HIDE DEF rest
<1>3. DOMAIN rest = 1..(Len(q) - m + 1) /\ rest # <<>>
    BY <1>1, <1>2
<1>4. ASSUME NEW j \in m..Len(q) PROVE \E i \in DOMAIN rest : i = j - m + 1 /\ rest[i] = q[j]
    <2>1. PICK i \in DOMAIN rest : i = j - m + 1
        BY <1>2, <1>3
    <2>2. m + i - 1 = j
        BY <1>2, <2>1
    <2> QED BY <1>1, <1>3, <2>1, <2>2
<1>5. ASSUME NEW i \in DOMAIN rest PROVE \E j \in m..Len(q) : j = m + i - 1 /\ rest[i] = q[j]
    <2>1. PICK j \in m..Len(q) : j = m + i - 1
        BY <1>2, <1>3
    <2>2. i \in 1..Len(rest)
        BY <1>1, <1>3
    <2>3. rest[i] = q[m + i - 1]
        BY <1>1, <2>2
    <2> QED BY <2>1, <2>3
<1>6. NoneTwice(rest)
    <2>1. ASSUME NEW i \in 1..Len(rest), NEW k \in 1..Len(rest), rest[i] = rest[k] PROVE i = k
        <3>1. PICK j \in m..Len(q) : j = m + i - 1 /\ rest[i] = q[j]
            BY <1>1, <1>3, <1>5
        <3>2. PICK l \in m..Len(q) : l = m + k - 1 /\ rest[k] = q[l]
            BY <1>1, <1>3, <1>5
        <3>3. j = l
            <4>1. j \in 1..Len(q) /\ l \in 1..Len(q)
                BY <1>2
            <4>2. q[j] = q[l]
                BY <2>1, <3>1, <3>2
            <4> QED BY <4>1, <4>2 DEF NoneTwice
        <3> QED BY <1>3, <3>1, <3>2, <3>3
    <2> QED BY <2>1 DEF NoneTwice
<1>7. ToSet(rest) = {q[i] : i \in m..Len(q)}
    <2>1. ASSUME NEW x PROVE x \in ToSet(rest) <=> \E i \in m..Len(q) : x = q[i]
        BY <1>4, <1>5 DEF ToSet
    <2> QED BY <2>1
<1>8. Head(rest) = q[m]
    <2>1. 1 \in DOMAIN rest
        BY <1>2, <1>3
    <2>2. rest[1] = q[m]
        BY <1>5, <2>1
    <2> QED BY <1>1, <2>2
<1>9. /\ DOMAIN Tail(rest) = 1..(Len(rest) - 1)
      /\ \A i \in DOMAIN Tail(rest) : Tail(rest)[i] = rest[i + 1] /\ i + 1 \in DOMAIN rest
    BY <1>1, <1>3
<1>10. ASSUME NEW i \in DOMAIN Tail(rest) PROVE \E j \in (m + 1)..Len(q) : Tail(rest)[i] = q[j]
    <2>1. PICK k \in DOMAIN rest : k = i + 1
        BY <1>9
    <2>2. PICK j \in m..Len(q) : j = m + k - 1 /\ rest[k] = q[j]
        BY <1>5
    <2>3. j \in (m + 1)..Len(q)
        BY <1>9, <2>1, <2>2
    <2> QED BY <1>9, <2>1, <2>2, <2>3
<1>11. ASSUME NEW j \in (m + 1)..Len(q) PROVE \E i \in DOMAIN Tail(rest) : Tail(rest)[i] = q[j]
    <2>1. PICK k \in DOMAIN rest : k = j - m + 1 /\ rest[k] = q[j]
        BY <1>4
    <2>2. PICK i \in DOMAIN Tail(rest) : i = k - 1
        BY <1>1, <1>3, <1>9, <2>1
    <2>3. i + 1 = k
        BY <1>3, <2>2
    <2> QED BY <1>9, <2>1, <2>3
<1>12. ToSet(Tail(rest)) = {q[i] : i \in (m + 1)..Len(q)}
    <2>1. ASSUME NEW x PROVE x \in ToSet(Tail(rest)) <=> \E i \in (m + 1)..Len(q) : x = q[i]
        BY <1>10, <1>11 DEF ToSet
    <2> QED BY <2>1
<1> QED BY <1>1, <1>3, <1>6, <1>7, <1>8, <1>12 DEF rest

StackInv == RegisteredNotEmpty /\ StackExact

\* An emission on the stack is typed and exact.
LEMMA StackEntry ==
    ASSUME StackExact, NEW n \in DOMAIN stack
    PROVE  /\ stack[n] \in Emission /\ EmissionExact(stack[n])
           /\ stack[n].set \in SetIds /\ stack[n].due \subseteq Handlers
           /\ stack[n].todo \in Seq(Handlers) /\ stack[n].called \in Seq(Handlers)
<1>1. stack \in Seq(Emission) /\ EmissionExact(stack[n])
    BY DEF StackExact
<1>2. stack[n] \in Emission
    BY <1>1
<1> QED BY <1>1, <1>2 DEF Emission

\* A subscription only adds to a set.
LEMMA StackOn ==
    ASSUME IInv, StackInv, NEW s \in Subscriptions, On(s)
    PROVE  StackInv'
<1> DEFINE T == TypeOf[s]
           unused == CHOOSE i \in SetIds : \A u \in Subscriptions : captured[u] # i
           set == IF current[T] = 0 THEN unused ELSE current[T]
<1>1. /\ captured[s] = 0 /\ T \in Types
      /\ current' = [current EXCEPT ![T] = set]
      /\ members' = [members EXCEPT ![set] =
                        IF HandlerOf[s] \in ToSet(@) THEN @ ELSE Append(@, HandlerOf[s])]
      /\ stack' = stack
    BY DEF On, Types
<1>2. unused \in SetIds
    BY <1>1, UnusedExists DEF IInv
<1> HIDE DEF unused
<1>3. set \in SetIds /\ set # 0 /\ members \in [SetIds -> Seq(Handlers)]
      /\ current \in [Types -> SetIds \cup {0}]
    BY <1>1, <1>2 DEF IInv, BusTypeOK, SetIds
<1> HIDE DEF set
<1>4. /\ members'[set] \in Seq(Handlers)
      /\ HandlerOf[s] \in ToSet(members'[set])
      /\ \A h \in ToSet(members[set]) : h \in ToSet(members'[set])
    <2>1. /\ members[set] \in Seq(Handlers) /\ NoneTwice(members[set])
          /\ HandlerOf[s] \in Handlers
          /\ members'[set] = IF HandlerOf[s] \in ToSet(members[set]) THEN members[set]
                             ELSE Append(members[set], HandlerOf[s])
        BY <1>1, <1>3 DEF IInv, BusTypeOK, Handlers
    <2> QED BY <2>1, AppendAdds
<1>5. members'[set] # <<>>
    BY <1>4 DEF ToSet
<1>6. RegisteredNotEmpty'
    BY <1>1, <1>3, <1>5 DEF StackInv, RegisteredNotEmpty
<1>7. \A i \in SetIds : ToSet(members[i]) \subseteq ToSet(members'[i])
    BY <1>1, <1>3, <1>4
<1>8. ASSUME NEW n \in DOMAIN stack PROVE EmissionExact(stack[n])'
    <2>1. stack[n].set \in SetIds /\ EmissionExact(stack[n]) /\ stack' = stack
        BY <1>1, StackEntry DEF StackInv
    <2> QED BY <1>7, <2>1 DEF EmissionExact
<1> QED BY <1>1, <1>6, <1>8 DEF StackInv, StackExact

\* An unsubscribe takes one handler from a set, and from those who are due.
LEMMA StackOff ==
    ASSUME IInv, StackInv, NEW s \in Subscriptions, Off(s)
    PROVE  StackInv'
<1> DEFINE T == TypeOf[s]
           set == captured[s]
           h == HandlerOf[s]
           left == RemoveFirst(members[set], h)
<1>1. /\ active[s] /\ T \in Types
      /\ members' = [members EXCEPT ![set] = left]
      /\ current' = [current EXCEPT ![T] = IF left = <<>> THEN 0 ELSE @]
      /\ stack' = [n \in DOMAIN stack |->
                    IF stack[n].set = set
                    THEN [stack[n] EXCEPT !.due = @ \ {h}] ELSE stack[n]]
    BY DEF Off, RemoveHandler, Types
<1>2. /\ set \in SetIds /\ set # 0 /\ members \in [SetIds -> Seq(Handlers)]
      /\ current \in [Types -> SetIds \cup {0}]
    BY <1>1 DEF IInv, BusTypeOK, ActiveHaveSets
<1>3. /\ left \in Seq(Handlers)
      /\ \A g \in ToSet(members[set]) : g # h => g \in ToSet(left)
    BY <1>2, RemoveFirstKeeps DEF IInv, BusTypeOK
<1>4. ASSUME NEW t \in Types, current[t] = set PROVE t = T
    <2>1. PICK u \in Subscriptions : captured[u] = set /\ TypeOf[u] = t
        BY <1>2, <1>4 DEF IInv, CurrentIsCaptured
    <2> QED BY <1>2, <2>1 DEF IInv, SetsHaveOneType
<1> HIDE DEF left, set, T, h
<1>5. RegisteredNotEmpty'
    BY <1>1, <1>2, <1>4 DEF StackInv, RegisteredNotEmpty
<1>6. DOMAIN stack' = DOMAIN stack
    BY <1>1
<1>7. ASSUME NEW n \in DOMAIN stack
      PROVE  stack'[n] \in Emission /\ EmissionExact(stack[n])'
    <2> DEFINE e == stack[n]
    <2>1. /\ e \in Emission /\ EmissionExact(e) /\ e.set \in SetIds
          /\ e.due \subseteq Handlers /\ e.todo \in Seq(Handlers) /\ e.called \in Seq(Handlers)
        BY StackEntry DEF StackInv
    <2>2. CASE e.set = set
        <3>1. stack'[n] = [e EXCEPT !.due = @ \ {h}]
            BY <1>1, <2>2
        <3>2. /\ stack'[n] \in Emission
              /\ stack'[n].todo = e.todo /\ stack'[n].called = e.called
              /\ stack'[n].set = set /\ stack'[n].due = e.due \ {h}
            BY <2>1, <2>2, <3>1 DEF Emission
        <3>3. members'[set] = left
            BY <1>1, <1>2
        <3>4. e.due \ {h} \subseteq ToSet(left)
            BY <1>3, <2>1, <2>2 DEF EmissionExact
        <3> QED BY <2>1, <3>2, <3>3, <3>4 DEF EmissionExact
    <2>3. CASE e.set # set
        <3>1. stack'[n] = e /\ members'[e.set] = members[e.set]
            BY <1>1, <1>2, <2>1, <2>3
        <3> QED BY <2>1, <3>1 DEF EmissionExact
    <2> QED BY <2>2, <2>3
<1>8. stack' \in Seq(Emission)
    <2>1. PICK k \in Nat : DOMAIN stack = 1..k
        BY DEF StackInv, StackExact
    <2>2. stack' \in [1..k -> Emission]
        BY <1>1, <1>7, <2>1
    <2> QED BY <2>2
<1> QED BY <1>1, <1>5, <1>6, <1>7, <1>8 DEF StackInv, StackExact

\* An emission begins with all of its set in line.
LEMMA StackEmit ==
    ASSUME IInv, StackInv, NEW t \in Types, Emit(t)
    PROVE  StackInv'
<1> DEFINE q == members[current[t]]
           e == [set |-> current[t], todo |-> q, called |-> <<>>, due |-> ToSet(q)]
<1>1. /\ current[t] # 0 /\ stack' = <<e>> \o stack
      /\ UNCHANGED <<members, current>>
    BY DEF Emit
<1>2. /\ current[t] \in SetIds /\ q \in Seq(Handlers) /\ NoneTwice(q) /\ q # <<>>
    BY <1>1 DEF IInv, BusTypeOK, StackInv, RegisteredNotEmpty
<1>3. ToSet(q) \subseteq Handlers
    BY <1>2 DEF ToSet
<1> HIDE DEF q
<1>4. e \in Emission
    BY <1>2, <1>3 DEF Emission
<1>5. EmissionExact(e)
    BY <1>2 DEF EmissionExact, NoneTwice, ToSet, q
<1>6. stack \in Seq(Emission) /\ <<e>> \in Seq(Emission)
    BY <1>4 DEF StackInv, StackExact
<1> HIDE DEF e
<1>7. /\ stack' \in Seq(Emission) /\ stack'[1] = e
      /\ \A n \in DOMAIN stack' : n = 1 \/ \E m \in DOMAIN stack : n = m + 1 /\ stack'[n] = stack[m]
    BY <1>1, <1>4, <1>6, Pushed
<1>8. ASSUME NEW n \in DOMAIN stack' PROVE EmissionExact(stack'[n])
    <2>1. CASE n = 1
        BY <1>5, <1>7, <2>1
    <2>2. CASE n # 1
        <3>1. PICK m \in DOMAIN stack : stack'[n] = stack[m]
            BY <1>7, <2>2
        <3> QED BY <3>1, StackEntry DEF StackInv
    <2> QED BY <2>1, <2>2
<1>9. \A n \in DOMAIN stack' : EmissionExact(stack[n])'
    BY <1>1, <1>8 DEF EmissionExact
<1> QED BY <1>1, <1>7, <1>9 DEF StackInv, StackExact, RegisteredNotEmpty

\* The next handler of the line: those that are skipped are not subscribed.
LEMMA StackReturns ==
    ASSUME IInv, StackInv, HandlerReturns
    PROVE  StackInv'
<1> DEFINE e == Head(stack)
           walked == Append(e.called, Head(e.todo))
           Next_(i) == e.todo[i] \in ToSet(members[e.set])
                       /\ \A j \in 2..(i - 1) : e.todo[j] \notin ToSet(members[e.set])
           next == {i \in 2..Len(e.todo) : Next_(i)}
           m == CHOOSE i \in next : TRUE
           rest == SubSeq(e.todo, m, Len(e.todo))
           moved == [e EXCEPT !.todo = rest, !.called = walked]
<1>1. /\ stack # <<>>
      /\ stack' = IF next = {} THEN Tail(stack) ELSE <<moved>> \o Tail(stack)
      /\ UNCHANGED <<members, current>>
    BY DEF HandlerReturns
<1>2. stack \in Seq(Emission) /\ 1 \in DOMAIN stack /\ e = stack[1]
    BY <1>1, Popped DEF StackInv, StackExact
<1>3. /\ e \in Emission /\ EmissionExact(e) /\ e.todo \in Seq(Handlers) /\ e.called \in Seq(Handlers)
    BY <1>2, StackEntry DEF StackInv
<1>4. /\ Tail(stack) \in Seq(Emission)
      /\ \A n \in DOMAIN Tail(stack) : EmissionExact(Tail(stack)[n])
    <2>1. /\ Tail(stack) \in Seq(Emission)
          /\ \A n \in DOMAIN Tail(stack) : \E k \in DOMAIN stack : k = n + 1 /\ Tail(stack)[n] = stack[k]
        BY <1>1, <1>2, Popped
    <2>2. ASSUME NEW n \in DOMAIN Tail(stack) PROVE EmissionExact(Tail(stack)[n])
        <3>1. PICK k \in DOMAIN stack : Tail(stack)[n] = stack[k]
            BY <2>1
        <3> QED BY <3>1, StackEntry DEF StackInv
    <2> QED BY <2>1, <2>2
<1>5. CASE next = {}
    <2>1. stack' = Tail(stack)
        BY <1>1, <1>5
    <2>2. \A n \in DOMAIN stack' : EmissionExact(stack[n])'
        BY <1>1, <1>4, <2>1 DEF EmissionExact
    <2> QED BY <1>1, <1>4, <2>1, <2>2 DEF StackInv, StackExact, RegisteredNotEmpty
<1>6. CASE next # {}
    <2>1. m \in 2..Len(e.todo) /\ Next_(m)
        BY <1>6
    <2> HIDE DEF m, next
    <2>2. /\ rest \in Seq(Handlers) /\ rest # <<>> /\ NoneTwice(rest)
          /\ ToSet(rest) = {e.todo[i] : i \in m..Len(e.todo)}
        <3>1. NoneTwice(e.todo) /\ m \in 1..Len(e.todo)
            BY <1>3, <2>1 DEF EmissionExact
        <3> QED BY <1>3, <3>1, EndOfLine
    <2>3. /\ Head(e.todo) = e.todo[1] /\ 1 \in DOMAIN e.todo /\ DOMAIN e.todo = 1..Len(e.todo)
          /\ Len(e.todo) \in Nat
        BY <1>3, <2>1
    <2>4. Head(e.todo) \in Handlers /\ Head(e.todo) \in ToSet(e.todo)
        BY <1>3, <2>3 DEF ToSet
    <2>5. Head(e.todo) \notin ToSet(e.called)
        BY <1>3, <2>4 DEF EmissionExact
    <2>6. /\ walked \in Seq(Handlers) /\ NoneTwice(walked)
          /\ ToSet(walked) = ToSet(e.called) \cup {Head(e.todo)}
        <3>1. walked \in Seq(Handlers) /\ NoneTwice(walked)
            BY <1>3, <2>4, <2>5, AppendAdds DEF EmissionExact
        <3>2. ToSet(walked) = ToSet(e.called) \cup {Head(e.todo)}
            BY <1>3, <2>4, AppendSet
        <3> QED BY <3>1, <3>2
    <2>7. \A i \in m..Len(e.todo) : e.todo[i] # e.todo[1] /\ i \in DOMAIN e.todo
        BY <1>3, <2>1, <2>3 DEF EmissionExact, NoneTwice
    <2>8. ToSet(rest) \subseteq ToSet(e.todo) /\ Head(e.todo) \notin ToSet(rest)
        BY <2>2, <2>3, <2>7 DEF ToSet
    <2>9. ToSet(walked) \cap ToSet(rest) = {}
        BY <1>3, <2>6, <2>8 DEF EmissionExact
    <2>10. ASSUME NEW h \in e.due PROVE h \in ToSet(walked) \cup ToSet(rest)
        <3>1. h \in ToSet(members[e.set]) /\ h \in ToSet(e.called) \cup ToSet(e.todo)
            BY <1>3 DEF EmissionExact
        <3>2. CASE h \in ToSet(e.called)
            BY <2>6, <3>2
        <3>3. CASE h \in ToSet(e.todo)
            <4>1. PICK i \in 1..Len(e.todo) : h = e.todo[i]
                BY <2>3, <3>3 DEF ToSet
            <4>2. i = 1 \/ i \in 2..(m - 1) \/ i \in m..Len(e.todo)
                BY <2>1, <2>3
            <4>3. i \notin 2..(m - 1)
                BY <2>1, <3>1, <4>1
            <4> QED BY <2>2, <2>3, <2>6, <4>1, <4>2, <4>3
        <3> QED BY <3>1, <3>2, <3>3
    <2> HIDE DEF walked, rest
    <2>11. /\ moved \in Emission
           /\ moved.todo = rest /\ moved.called = walked /\ moved.set = e.set /\ moved.due = e.due
        BY <1>3, <2>2, <2>6 DEF Emission
    <2> HIDE DEF moved
    <2>12. EmissionExact(moved)
        BY <1>3, <2>2, <2>6, <2>9, <2>10, <2>11 DEF EmissionExact
    <2>13. /\ stack' \in Seq(Emission) /\ stack'[1] = moved
           /\ \A n \in DOMAIN stack' :
                n = 1 \/ \E k \in DOMAIN Tail(stack) : n = k + 1 /\ stack'[n] = Tail(stack)[k]
        <3>1. PICK tail \in Seq(Emission) : tail = Tail(stack)
            BY <1>4
        <3>2. stack' = <<moved>> \o tail
            BY <1>1, <1>6, <3>1
        <3>3. /\ <<moved>> \o tail \in Seq(Emission) /\ (<<moved>> \o tail)[1] = moved
              /\ \A n \in DOMAIN (<<moved>> \o tail) :
                    n = 1 \/ \E k \in DOMAIN tail : n = k + 1 /\ (<<moved>> \o tail)[n] = tail[k]
            BY <2>11, Pushed
        <3> QED BY <3>1, <3>2, <3>3, Zenon
    <2>14. ASSUME NEW n \in DOMAIN stack' PROVE EmissionExact(stack'[n])
        <3>1. CASE n = 1
            BY <2>12, <2>13, <3>1
        <3>2. CASE n # 1
            <4>1. PICK k \in DOMAIN Tail(stack) : stack'[n] = Tail(stack)[k]
                BY <2>13, <3>2
            <4> QED BY <1>4, <4>1
        <3> QED BY <3>1, <3>2
    <2>15. \A n \in DOMAIN stack' : EmissionExact(stack[n])'
        BY <1>1, <2>14 DEF EmissionExact
    <2> QED BY <1>1, <2>13, <2>15 DEF StackInv, StackExact, RegisteredNotEmpty
<1> QED BY <1>5, <1>6

\* The client uses its bus through these operations only.
LEMMA StackStep == IInv /\ StackInv /\ [Next]_vars => StackInv'
<1> SUFFICES ASSUME IInv, StackInv, [Next]_vars PROVE StackInv'
    OBVIOUS
<1>1. ASSUME UNCHANGED <<members, current, stack>>
      PROVE  StackInv'
    BY <1>1 DEF StackInv, RegisteredNotEmpty, StackExact, EmissionExact
<1>2. ASSUME Clear
      PROVE  StackInv'
    BY <1>2 DEF Clear, StackInv, RegisteredNotEmpty, StackExact, EmissionExact
<1>3. Calls \cup Users \cup {Stats} = Subscriptions
    BY ClientAssumption
<1>4. CASE UNCHANGED vars
    BY <1>1, <1>4 DEF vars, busVars
<1>5. CASE PluginIsSetUp \/ BuildFails \/ InstanceReleased
    BY <1>1, <1>5 DEF PluginIsSetUp, BuildFails, InstanceReleased, busVars
<1>6. CASE Built \/ Destroy
    BY <1>3, <1>6, StackOn, StackOff DEF Built, Destroy
<1>7. ASSUME NEW s \in Users, Subscribe(s) \/ Unsubscribe(s)
      PROVE  StackInv'
    BY <1>3, <1>7, StackOn, StackOff DEF Subscribe, Unsubscribe
<1>8. CASE HandlerDone
    BY <1>8, StackReturns DEF HandlerDone
<1>9. ASSUME NEW c \in Calls, StartCall(c) \/ CallSettles(c) \/ CallReturns(c)
      PROVE  StackInv'
    <2>1. CASE CallReturns(c)
        BY <1>1, <2>1 DEF CallReturns, busVars
    <2> QED BY <1>3, <1>9, <2>1, StackOn, StackOff DEF StartCall, CallSettles
<1>10. CASE AnnounceRetry
    <2>1. "RetryStarted" \in Types
        BY ClientAssumption DEF Types
    <2> QED BY <1>1, <1>10, <2>1, StackEmit DEF AnnounceRetry, busVars
<1>11. ASSUME NEW t \in Types, Announce(t)
       PROVE  StackInv'
    BY <1>11, StackEmit DEF Announce
<1>12. CASE DisposeFails \/ Destroyed
    BY <1>2, <1>12 DEF DisposeFails, Destroyed
<1> QED BY <1>4, <1>5, <1>6, <1>7, <1>8, <1>9, <1>10, <1>11, <1>12 DEF Next

\* No emission is under way when the client begins.
LEMMA StackInit == Init => StackInv
BY DEF Init, BusInit, StackInv, RegisteredNotEmpty, StackExact
-----------------------------------------------------------------------------
(* The client's statistics *)

\* The calls that have begun and are not counted as a success or a failure.
Pending == {c \in Calls : call[c] \in {"running", "returning"}}

CallsCounted ==
    /\ totals \in [calls : Nat, successes : Nat, failures : Nat, retries : Nat]
    /\ call \in [Calls -> {"idle", "running", "returning", "over"}]
    /\ totals.calls = totals.successes + totals.failures + Cardinality(Pending)

\* Nothing is called before build() returns, and no set of listeners is lost.
NotYetBuilt ==
    phase = "building" =>
        /\ stack = <<>> /\ \A c \in Calls : call[c] = "idle"
        /\ retried = 0 /\ totals.retries = 0 /\ captured[Stats] = 0
        /\ \A s \in Subscriptions : captured[s] # 0 => current[TypeOf[s]] = captured[s]

\* The client's handler is in its own set and no other.
StatsInOneSet == \A i \in SetIds : Stats \in ToSet(members[i]) => i = captured[Stats]

\* As long as the client is open, its handler keeps one set registered for all
\* who listen to retries.
StatsListens ==
    phase = "open" =>
        /\ active[Stats] /\ captured[Stats] # 0
        /\ current["RetryStarted"] = captured[Stats]
        /\ Stats \in ToSet(members[captured[Stats]])
        /\ \A s \in Subscriptions :
            TypeOf[s] = "RetryStarted" => captured[s] \in {0, captured[Stats]}

\* Retries are announced outside of handlers.
StatsAtBottom ==
    \A n \in DOMAIN stack : Stats \in ToSet(stack[n].todo) =>
        n = Len(stack) /\ stack[n].set = captured[Stats]

\* The client's handler is in line, and has not been called.
Waiting(line) == \E i \in 2..Len(line) : line[i] = Stats

Awaited == stack # <<>> /\ Waiting(stack[Len(stack)].todo)

\* A retry is counted, or its emission has still to reach the client's handler.
RetriesCounted ==
    phase = "open" =>
        /\ retried \in Nat
        /\ retried = IF Awaited THEN totals.retries + 1 ELSE totals.retries

StatsInv ==
    /\ CallsCounted /\ NotYetBuilt /\ StatsInOneSet
    /\ StatsListens /\ StatsAtBottom /\ RetriesCounted

\* Calls that begin are pending, and leave with a success or a failure.
LEMMA CallsCountedStep == CallsCounted /\ [Next]_vars => CallsCounted'
<1> SUFFICES ASSUME CallsCounted, [Next]_vars PROVE CallsCounted'
    OBVIOUS
<1>1. IsFiniteSet(Pending) /\ Cardinality(Pending) \in Nat
    <2>1. IsFiniteSet(Calls)
        BY BusAssumption, ClientAssumption, FS_Subset
    <2>2. IsFiniteSet(Pending)
        BY <2>1, FS_Subset DEF Pending
    <2> QED BY <2>2, FS_CardinalityType
<1>2. ASSUME UNCHANGED call,
             totals' = totals \/ totals' = [totals EXCEPT !.retries = @ + 1]
      PROVE  CallsCounted'
    <2>1. Pending' = Pending
        BY <1>2 DEF Pending
    <2>2. /\ totals' \in [calls : Nat, successes : Nat, failures : Nat, retries : Nat]
          /\ totals'.calls = totals.calls /\ totals'.successes = totals.successes
          /\ totals'.failures = totals.failures
        BY <1>2 DEF CallsCounted
    <2> QED BY <1>2, <2>1, <2>2 DEF CallsCounted
<1>3. ASSUME CountRetry
      PROVE  totals' = totals \/ totals' = [totals EXCEPT !.retries = @ + 1]
    BY <1>3 DEF CountRetry
<1>4. CASE UNCHANGED vars
    BY <1>2, <1>4 DEF vars, clientVars
<1>5. CASE PluginIsSetUp \/ BuildFails \/ Built \/ Destroy \/ InstanceReleased \/ DisposeFails
           \/ Destroyed
    BY <1>2, <1>5 DEF PluginIsSetUp, BuildFails, Built, Destroy, InstanceReleased, DisposeFails,
                      Destroyed, clientVars
<1>6. ASSUME NEW s \in Users, Subscribe(s) \/ Unsubscribe(s)
      PROVE  CallsCounted'
    BY <1>2, <1>6 DEF Subscribe, Unsubscribe, clientVars
<1>7. CASE HandlerDone \/ AnnounceRetry \/ \E t \in Types : Announce(t)
    BY <1>2, <1>3, <1>7 DEF HandlerDone, AnnounceRetry, Announce
<1>8. ASSUME NEW c \in Calls, StartCall(c)
      PROVE  CallsCounted'
    <2>1. call[c] = "idle" /\ call' = [call EXCEPT ![c] = "running"]
          /\ totals' = [totals EXCEPT !.calls = @ + 1]
        BY <1>8 DEF StartCall
    <2>2. Pending' = Pending \cup {c} /\ c \notin Pending
        BY <2>1 DEF Pending, CallsCounted
    <2>3. Cardinality(Pending') = Cardinality(Pending) + 1
        BY <1>1, <2>2, FS_AddElement
    <2>4. /\ totals' \in [calls : Nat, successes : Nat, failures : Nat, retries : Nat]
          /\ totals'.calls = totals.calls + 1 /\ totals'.successes = totals.successes
          /\ totals'.failures = totals.failures
        BY <2>1 DEF CallsCounted
    <2>5. call' \in [Calls -> {"idle", "running", "returning", "over"}]
        BY <2>1 DEF CallsCounted
    <2> QED BY <1>1, <2>3, <2>4, <2>5 DEF CallsCounted
<1>9. ASSUME NEW c \in Calls, CallSettles(c)
      PROVE  CallsCounted'
    <2>1. call[c] = "running" /\ call' = [call EXCEPT ![c] = "returning"] /\ totals' = totals
        BY <1>9 DEF CallSettles
    <2>2. Pending' = Pending
        BY <2>1 DEF Pending, CallsCounted
    <2> QED BY <2>1, <2>2 DEF CallsCounted
<1>10. ASSUME NEW c \in Calls, CallReturns(c)
       PROVE  CallsCounted'
    <2>1. call[c] = "returning" /\ call' = [call EXCEPT ![c] = "over"]
          /\ totals' \in {[totals EXCEPT !.successes = @ + 1], [totals EXCEPT !.failures = @ + 1]}
        BY <1>10 DEF CallReturns
    <2>2. Pending' = Pending \ {c} /\ c \in Pending
        BY <2>1 DEF Pending, CallsCounted
    <2>3. Cardinality(Pending') = Cardinality(Pending) - 1
        BY <1>1, <2>2, FS_RemoveElement
    <2>4. /\ totals' \in [calls : Nat, successes : Nat, failures : Nat, retries : Nat]
          /\ totals'.calls = totals.calls
          /\ totals'.successes + totals'.failures = totals.successes + totals.failures + 1
        BY <2>1 DEF CallsCounted
    <2>5. call' \in [Calls -> {"idle", "running", "returning", "over"}]
        BY <2>1 DEF CallsCounted
    <2> QED BY <1>1, <2>3, <2>4, <2>5 DEF CallsCounted
<1> QED BY <1>4, <1>5, <1>6, <1>7, <1>8, <1>9, <1>10 DEF Next

\* What a subscription changes.
LEMMA OnEffect ==
    ASSUME IInv, NEW s \in Subscriptions, On(s)
    PROVE  \E set \in SetIds :
           /\ captured[s] = 0 /\ TypeOf[s] \in Types /\ stack' = stack
           /\ captured' = [captured EXCEPT ![s] = set]
           /\ active' = [active EXCEPT ![s] = TRUE]
           /\ current' = [current EXCEPT ![TypeOf[s]] = set]
           /\ current[TypeOf[s]] \in {0, set}
           /\ \A i \in SetIds \ {set} : members'[i] = members[i]
           /\ ToSet(members'[set]) = ToSet(members[set]) \cup {HandlerOf[s]}
<1> DEFINE T == TypeOf[s]
           unused == CHOOSE i \in SetIds : \A u \in Subscriptions : captured[u] # i
           set == IF current[T] = 0 THEN unused ELSE current[T]
<1>1. /\ captured[s] = 0 /\ T \in Types /\ stack' = stack
      /\ captured' = [captured EXCEPT ![s] = set]
      /\ active' = [active EXCEPT ![s] = TRUE]
      /\ current' = [current EXCEPT ![T] = set]
      /\ members' = [members EXCEPT ![set] =
                        IF HandlerOf[s] \in ToSet(@) THEN @ ELSE Append(@, HandlerOf[s])]
    BY DEF On, Types
<1>2. unused \in SetIds
    BY <1>1, UnusedExists DEF IInv
<1>3. current[T] \in {0, set}
    OBVIOUS
<1> HIDE DEF unused
<1>4. set \in SetIds /\ members[set] \in Seq(Handlers) /\ members \in [SetIds -> Seq(Handlers)]
    BY <1>1, <1>2 DEF IInv, BusTypeOK
<1> HIDE DEF set
<1>5. ToSet(members'[set]) = ToSet(members[set]) \cup {HandlerOf[s]}
    <2>1. HandlerOf[s] \in Handlers
        BY DEF Handlers
    <2>2. members'[set] = IF HandlerOf[s] \in ToSet(members[set]) THEN members[set]
                          ELSE Append(members[set], HandlerOf[s])
        BY <1>1, <1>4
    <2> QED BY <1>4, <2>1, <2>2, AppendSet
<1>6. \A i \in SetIds \ {set} : members'[i] = members[i]
    BY <1>1, <1>4
<1> QED BY <1>1, <1>3, <1>4, <1>5, <1>6

\* What an unsubscribe changes.
LEMMA OffEffect ==
    ASSUME IInv, NEW s \in Subscriptions, Off(s)
    PROVE  LET set == captured[s] IN
           /\ set \in SetIds /\ active[s] /\ TypeOf[s] \in Types /\ captured' = captured
           /\ active' = [active EXCEPT ![s] = FALSE]
           /\ \A i \in SetIds \ {set} : members'[i] = members[i]
           /\ ToSet(members'[set]) \subseteq ToSet(members[set])
           /\ \A h \in ToSet(members[set]) : h # HandlerOf[s] => h \in ToSet(members'[set])
           /\ current' = [current EXCEPT ![TypeOf[s]] = IF members'[set] = <<>> THEN 0 ELSE @]
<1> DEFINE set == captured[s]
           left == RemoveFirst(members[set], HandlerOf[s])
<1>1. /\ active[s] /\ TypeOf[s] \in Types /\ captured' = captured
      /\ active' = [active EXCEPT ![s] = FALSE]
      /\ members' = [members EXCEPT ![set] = left]
      /\ current' = [current EXCEPT ![TypeOf[s]] = IF left = <<>> THEN 0 ELSE @]
    BY DEF Off, RemoveHandler, Types
<1>2. set \in SetIds /\ members \in [SetIds -> Seq(Handlers)] /\ NoneTwice(members[set])
    BY <1>1 DEF IInv, BusTypeOK, ActiveHaveSets
<1>3. /\ ToSet(left) \subseteq ToSet(members[set])
      /\ \A h \in ToSet(members[set]) : h # HandlerOf[s] => h \in ToSet(left)
    BY <1>2, RemoveFirstKeeps
<1> HIDE DEF left, set
<1>4. members'[set] = left /\ \A i \in SetIds \ {set} : members'[i] = members[i]
    BY <1>1, <1>2
<1> QED BY <1>1, <1>2, <1>3, <1>4 DEF set

ListensInv == NotYetBuilt /\ StatsInOneSet /\ StatsListens

\* The subscriptions that are not the client's own have other handlers.
LEMMA OtherHandlers ==
    /\ Stats \in Subscriptions /\ TypeOf[Stats] = "RetryStarted" /\ HandlerOf[Stats] = Stats
    /\ \A s \in Subscriptions : s # Stats => HandlerOf[s] # Stats
BY ClientAssumption

\* Nobody's subscription replaces the client's set.
LEMMA ListensOn ==
    ASSUME IInv, ListensInv, NEW s \in Subscriptions, On(s), s # Stats,
           phase' = phase, call' = call \/ phase # "building", UNCHANGED <<totals, retried>>
                                                            \/ phase # "building"
    PROVE  ListensInv'
<1>1. PICK set \in SetIds :
           /\ captured[s] = 0 /\ TypeOf[s] \in Types /\ stack' = stack
           /\ captured' = [captured EXCEPT ![s] = set]
           /\ active' = [active EXCEPT ![s] = TRUE]
           /\ current' = [current EXCEPT ![TypeOf[s]] = set]
           /\ current[TypeOf[s]] \in {0, set}
           /\ \A i \in SetIds \ {set} : members'[i] = members[i]
           /\ ToSet(members'[set]) = ToSet(members[set]) \cup {HandlerOf[s]}
    BY OnEffect
<1>2. /\ captured \in [Subscriptions -> SetIds \cup {0}] /\ active \in [Subscriptions -> BOOLEAN]
      /\ current \in [Types -> SetIds \cup {0}]
      /\ \A u \in Subscriptions : TypeOf[u] \in Types
    BY DEF IInv, BusTypeOK, Types
<1>3. captured'[Stats] = captured[Stats] /\ active'[Stats] = active[Stats]
    BY <1>1, <1>2, OtherHandlers
<1>4. NotYetBuilt'
    BY <1>1, <1>2, <1>3 DEF ListensInv, NotYetBuilt
<1>5. StatsInOneSet'
    BY <1>1, <1>3, OtherHandlers DEF ListensInv, StatsInOneSet
<1>6. StatsListens'
    <2> SUFFICES ASSUME phase = "open" PROVE StatsListens'
        BY DEF StatsListens
    <2>1. /\ active[Stats] /\ captured[Stats] # 0
          /\ current["RetryStarted"] = captured[Stats]
          /\ Stats \in ToSet(members[captured[Stats]])
          /\ \A u \in Subscriptions :
                TypeOf[u] = "RetryStarted" => captured[u] \in {0, captured[Stats]}
        BY DEF ListensInv, StatsListens
    <2>2. captured[Stats] \in SetIds /\ "RetryStarted" \in Types
        BY <1>2, <2>1, OtherHandlers
    <2>3. TypeOf[s] = "RetryStarted" => set = captured[Stats]
        BY <1>1, <2>1
    <2>4. current'["RetryStarted"] = captured[Stats]
        BY <1>1, <1>2, <2>1, <2>2, <2>3
    <2>5. Stats \in ToSet(members'[captured[Stats]])
        BY <1>1, <2>1, <2>2
    <2>6. ASSUME NEW u \in Subscriptions, TypeOf[u] = "RetryStarted"
          PROVE  captured'[u] \in {0, captured[Stats]}
        BY <1>1, <1>2, <2>1, <2>3, <2>6
    <2> QED BY <1>3, <2>1, <2>4, <2>5, <2>6 DEF StatsListens
<1> QED BY <1>4, <1>5, <1>6 DEF ListensInv

\* The client's own subscription takes the set that all who listen to retries
\* are in.
LEMMA ListensBuilt ==
    ASSUME IInv, ListensInv, Built
    PROVE  ListensInv'
<1>1. PICK set \in SetIds :
           /\ captured[Stats] = 0 /\ stack' = stack
           /\ captured' = [captured EXCEPT ![Stats] = set]
           /\ active' = [active EXCEPT ![Stats] = TRUE]
           /\ current' = [current EXCEPT !["RetryStarted"] = set]
           /\ current["RetryStarted"] \in {0, set}
           /\ \A i \in SetIds \ {set} : members'[i] = members[i]
           /\ ToSet(members'[set]) = ToSet(members[set]) \cup {Stats}
    BY OnEffect, OtherHandlers DEF Built
<1>2. /\ captured \in [Subscriptions -> SetIds \cup {0}] /\ active \in [Subscriptions -> BOOLEAN]
      /\ current \in [Types -> SetIds \cup {0}] /\ 0 \notin SetIds
      /\ "RetryStarted" \in Types
    BY OtherHandlers DEF IInv, BusTypeOK, Types, SetIds
<1>3. /\ phase = "building" /\ phase' = "open"
      /\ \A u \in Subscriptions : captured[u] # 0 => current[TypeOf[u]] = captured[u]
    BY DEF Built, ListensInv, NotYetBuilt
<1>4. NotYetBuilt'
    BY <1>3 DEF NotYetBuilt
<1>5. captured'[Stats] = set /\ active'[Stats] /\ current'["RetryStarted"] = set
    BY <1>1, <1>2, OtherHandlers
<1>6. StatsInOneSet'
    BY <1>1, <1>2, <1>5 DEF ListensInv, StatsInOneSet
<1>7. ASSUME NEW u \in Subscriptions, TypeOf[u] = "RetryStarted"
      PROVE  captured'[u] \in {0, set}
    BY <1>1, <1>2, <1>3, <1>7
<1>8. StatsListens'
    BY <1>1, <1>2, <1>5, <1>7 DEF StatsListens
<1> QED BY <1>4, <1>6, <1>8 DEF ListensInv

\* Nobody's unsubscribe drops the client's set as long as the client is open.
LEMMA ListensOff ==
    ASSUME IInv, ListensInv, NEW s \in Subscriptions, Off(s), phase # "building",
           phase' # "building", phase' = "open" => phase = "open" /\ s # Stats
    PROVE  ListensInv'
<1> DEFINE set == captured[s]
<1>1. /\ set \in SetIds /\ active[s] /\ TypeOf[s] \in Types /\ captured' = captured
      /\ active' = [active EXCEPT ![s] = FALSE]
      /\ \A i \in SetIds \ {set} : members'[i] = members[i]
      /\ ToSet(members'[set]) \subseteq ToSet(members[set])
      /\ \A h \in ToSet(members[set]) : h # HandlerOf[s] => h \in ToSet(members'[set])
      /\ current' = [current EXCEPT ![TypeOf[s]] = IF members'[set] = <<>> THEN 0 ELSE @]
    BY OffEffect
<1>2. active \in [Subscriptions -> BOOLEAN] /\ current \in [Types -> SetIds \cup {0}]
    BY DEF IInv, BusTypeOK
<1> HIDE DEF set
<1>3. NotYetBuilt'
    BY DEF NotYetBuilt
<1>4. StatsInOneSet'
    BY <1>1 DEF ListensInv, StatsInOneSet
<1>5. StatsListens'
    <2> SUFFICES ASSUME phase' = "open" PROVE StatsListens'
        BY DEF StatsListens
    <2>1. /\ active[Stats] /\ captured[Stats] # 0 /\ s # Stats
          /\ current["RetryStarted"] = captured[Stats]
          /\ Stats \in ToSet(members[captured[Stats]])
          /\ \A u \in Subscriptions :
                TypeOf[u] = "RetryStarted" => captured[u] \in {0, captured[Stats]}
        BY DEF ListensInv, StatsListens
    <2>2. captured[Stats] \in SetIds
        BY <2>1, OtherHandlers DEF IInv, BusTypeOK
    <2>3. Stats \in ToSet(members'[captured[Stats]])
        BY <1>1, <2>1, <2>2, OtherHandlers
    <2>4. current'["RetryStarted"] = captured[Stats]
        <3>1. CASE TypeOf[s] = "RetryStarted"
            <4>1. set = captured[Stats]
                BY <1>1, <2>1, <3>1 DEF IInv, ActiveHaveSets, set
            <4>2. members'[set] # <<>>
                BY <2>3, <4>1 DEF ToSet
            <4> QED BY <1>1, <1>2, <2>1, <4>2
        <3>2. CASE TypeOf[s] # "RetryStarted"
            BY <1>1, <2>1, <3>2
        <3> QED BY <3>1, <3>2
    <2>5. active'[Stats]
        BY <1>1, <1>2, <2>1, OtherHandlers
    <2> QED BY <1>1, <2>1, <2>3, <2>4, <2>5 DEF StatsListens
<1> QED BY <1>3, <1>4, <1>5 DEF ListensInv

\* The client's handler listens from build() to destroy().
LEMMA ListensStep == IInv /\ ListensInv /\ [Next]_vars => ListensInv'
<1> SUFFICES ASSUME IInv, ListensInv, [Next]_vars PROVE ListensInv'
    OBVIOUS
<1>1. ASSUME UNCHANGED <<members, current, captured, active>>,
             phase' = phase \/ phase' \notin {"building", "open"},
             phase = "building" => UNCHANGED <<stack, call, totals, retried>>
      PROVE  ListensInv'
    BY <1>1 DEF ListensInv, NotYetBuilt, StatsInOneSet, StatsListens
<1>2. phase = "building" => stack = <<>> /\ \A c \in Calls : call[c] = "idle"
    BY DEF ListensInv, NotYetBuilt
<1>3. Calls \cup Users \cup {Stats} = Subscriptions /\ Stats \notin Calls \cup Users
    BY ClientAssumption
<1>4. CASE UNCHANGED vars
    BY <1>1, <1>4 DEF vars, busVars, clientVars
<1>5. CASE PluginIsSetUp \/ BuildFails
    BY <1>1, <1>5 DEF PluginIsSetUp, BuildFails, busVars, clientVars
<1>6. CASE Built
    BY <1>6, ListensBuilt
<1>7. ASSUME NEW s \in Users, Subscribe(s)
      PROVE  ListensInv'
    BY <1>3, <1>7, ListensOn DEF Subscribe, clientVars
<1>8. ASSUME NEW s \in Users, Unsubscribe(s)
      PROVE  ListensInv'
    BY <1>3, <1>8, ListensOff DEF Unsubscribe, Exists, clientVars
<1>9. CASE HandlerDone
    BY <1>1, <1>2, <1>9 DEF HandlerDone, HandlerReturns
<1>10. ASSUME NEW c \in Calls, StartCall(c)
       PROVE  ListensInv'
    BY <1>3, <1>10, ListensOn DEF StartCall, Exists
<1>11. ASSUME NEW c \in Calls, CallSettles(c)
       PROVE  ListensInv'
    BY <1>2, <1>3, <1>11, ListensOff DEF CallSettles
<1>12. ASSUME NEW c \in Calls, CallReturns(c)
       PROVE  ListensInv'
    BY <1>1, <1>2, <1>12 DEF CallReturns, busVars
<1>13. CASE AnnounceRetry \/ \E t \in Types : Announce(t)
    BY <1>1, <1>2, <1>13 DEF AnnounceRetry, Announce, Emit, busVars
<1>14. CASE Destroy
    BY <1>3, <1>14, ListensOff DEF Destroy
<1>15. CASE InstanceReleased
    BY <1>1, <1>15 DEF InstanceReleased, busVars, clientVars
<1>16. ASSUME Clear, phase' = "destroyed"
       PROVE  ListensInv'
    BY <1>16 DEF Clear, ListensInv, NotYetBuilt, StatsInOneSet, StatsListens
<1>17. CASE DisposeFails \/ Destroyed
    BY <1>16, <1>17 DEF DisposeFails, Destroyed
<1> QED BY <1>4, <1>5, <1>6, <1>7, <1>8, <1>9, <1>10, <1>11, <1>12, <1>13, <1>14, <1>15, <1>17
        DEF Next

\* A set of natural numbers has a least element.
LEMMA Least ==
    ASSUME NEW T, T \subseteq Nat, T # {}
    PROVE  \E x \in T : \A y \in T : x <= y
<1> DEFINE R == OpToRel(<, Nat)
<1>1. IsWellFoundedOn(R, Nat)
    BY NatLessThanWellFounded
<1>2. \A x, y \in Nat : x < y => <<x, y>> \in R
    BY DEF OpToRel
<1> HIDE DEF R
<1>3. PICK x \in T : \A y \in T : ~(<<y, x>> \in R)
    BY <1>1, WFMin, Zenon
<1>4. \A y \in T : ~(y < x)
    BY <1>2, <1>3
<1> QED BY <1>3, <1>4

\* A handler that returns ends its emission, if nobody else in line is
\* subscribed, or the first one who is runs next.
LEMMA ReturnEffect ==
    ASSUME IInv, StackInv, HandlerReturns
    PROVE  LET e == stack[1] IN
           /\ 1 \in DOMAIN stack /\ Len(stack) \in Nat
           /\ \/ /\ Len(stack') = Len(stack) - 1
                 /\ \A n \in DOMAIN stack' : n + 1 \in DOMAIN stack /\ stack'[n] = stack[n + 1]
                 /\ \A i \in 2..Len(e.todo) : e.todo[i] \notin ToSet(members[e.set])
              \/ \E m \in 2..Len(e.todo) :
                    /\ e.todo[m] \in ToSet(members[e.set])
                    /\ \A j \in 2..(m - 1) : e.todo[j] \notin ToSet(members[e.set])
                    /\ Len(stack') = Len(stack) /\ stack' # <<>>
                    /\ Head(stack') = stack'[1]
                    /\ stack'[1].set = e.set
                    /\ stack'[1].todo = SubSeq(e.todo, m, Len(e.todo))
                    /\ \A n \in DOMAIN stack' \ {1} : n \in DOMAIN stack /\ stack'[n] = stack[n]
<1> DEFINE e == Head(stack)
           walked == Append(e.called, Head(e.todo))
           Next_(i) == e.todo[i] \in ToSet(members[e.set])
                       /\ \A j \in 2..(i - 1) : e.todo[j] \notin ToSet(members[e.set])
           next == {i \in 2..Len(e.todo) : Next_(i)}
           m == CHOOSE i \in next : TRUE
           rest == SubSeq(e.todo, m, Len(e.todo))
           moved == [e EXCEPT !.todo = rest, !.called = walked]
<1>1. /\ stack # <<>>
      /\ stack' = IF next = {} THEN Tail(stack) ELSE <<moved>> \o Tail(stack)
    BY DEF HandlerReturns
<1>2. stack \in Seq(Emission) /\ 1 \in DOMAIN stack /\ e = stack[1] /\ Len(stack) \in Nat
    <2>1. stack \in Seq(Emission)
        BY DEF StackInv, StackExact
    <2>2. 1 \in DOMAIN stack /\ Head(stack) = stack[1]
        BY <1>1, <2>1, Popped
    <2> QED BY <2>1, <2>2
<1>3. PICK tail \in Seq(Emission) :
           /\ tail = Tail(stack) /\ Len(tail) = Len(stack) - 1
           /\ \A n \in DOMAIN tail : \E k \in DOMAIN stack : k = n + 1 /\ tail[n] = stack[k]
    <2>1. /\ Tail(stack) \in Seq(Emission) /\ Len(Tail(stack)) = Len(stack) - 1
          /\ \A n \in DOMAIN Tail(stack) :
                \E k \in DOMAIN stack : k = n + 1 /\ Tail(stack)[n] = stack[k]
        BY <1>1, <1>2, Popped
    <2> QED BY <2>1, Zenon
<1>4. /\ e \in Emission /\ e.todo \in Seq(Handlers) /\ Len(e.todo) \in Nat
      /\ e.called \in Seq(Handlers) /\ e.todo # <<>>
    <2>1. /\ e \in Emission /\ EmissionExact(e) /\ e.todo \in Seq(Handlers)
          /\ e.called \in Seq(Handlers)
        BY <1>2, StackEntry DEF StackInv
    <2> QED BY <2>1 DEF EmissionExact
<1>5. CASE next = {}
    <2>1. stack' = tail
        BY <1>1, <1>3, <1>5
    <2>2. ASSUME NEW i \in 2..Len(e.todo), e.todo[i] \in ToSet(members[e.set])
          PROVE  FALSE
        <3> DEFINE there == {j \in 2..Len(e.todo) : e.todo[j] \in ToSet(members[e.set])}
        <3>1. there \subseteq Nat /\ there # {}
            BY <2>2
        <3> HIDE DEF there
        <3>2. PICK j \in there : \A k \in there : j <= k
            BY <3>1, Least
        <3>3. j \in 2..Len(e.todo) /\ e.todo[j] \in ToSet(members[e.set])
            BY <3>2 DEF there
        <3>4. ASSUME NEW k \in 2..(j - 1) PROVE e.todo[k] \notin ToSet(members[e.set])
            <4>1. k \in 2..Len(e.todo) /\ ~(j <= k)
                BY <1>4, <3>3
            <4> QED BY <3>2, <4>1 DEF there
        <3>5. j \in next
            BY <3>3, <3>4
        <3> QED BY <1>5, <3>5
    <2>3. ASSUME NEW n \in DOMAIN tail PROVE n + 1 \in DOMAIN stack /\ tail[n] = stack[n + 1]
        BY <1>3
    <2> HIDE DEF next, e
    <2>4. /\ Len(stack') = Len(stack) - 1
          /\ \A n \in DOMAIN stack' : n + 1 \in DOMAIN stack /\ stack'[n] = stack[n + 1]
          /\ \A i \in 2..Len(e.todo) : e.todo[i] \notin ToSet(members[e.set])
        BY <1>3, <2>1, <2>2, <2>3
    <2> QED BY <1>2, <2>4
<1>6. CASE next # {}
    <2>1. m \in 2..Len(e.todo) /\ Next_(m)
        BY <1>6
    <2> HIDE DEF m, next
    <2>2. rest \in Seq(Handlers)
        <3>1. \A i \in m..Len(e.todo) : i \in 1..Len(e.todo)
            BY <1>4, <2>1
        <3>2. \A i \in m..Len(e.todo) : e.todo[i] \in Handlers
            BY <1>4, <3>1
        <3> QED BY <1>4, <2>1, <3>2
    <2>3. walked \in Seq(Handlers)
        <3>1. Head(e.todo) \in Handlers
            BY <1>4
        <3> QED BY <1>4, <3>1
    <2> HIDE DEF rest, walked
    <2>4. moved \in Emission /\ moved.set = e.set /\ moved.todo = rest
        BY <1>4, <2>2, <2>3 DEF Emission
    <2> HIDE DEF moved
    <2>5. PICK q \in Seq(Emission) :
             /\ q = <<moved>> \o tail /\ Len(q) = Len(tail) + 1 /\ q[1] = moved
             /\ \A n \in DOMAIN q : n = 1 \/ \E k \in DOMAIN tail : n = k + 1 /\ q[n] = tail[k]
        <3> DEFINE p == <<moved>> \o tail
        <3>1. /\ p \in Seq(Emission) /\ Len(p) = Len(tail) + 1 /\ p[1] = moved
              /\ \A n \in DOMAIN p : n = 1 \/ \E k \in DOMAIN tail : n = k + 1 /\ p[n] = tail[k]
            BY <2>4, Pushed
        <3> QED BY <3>1, Zenon
    <2>6. stack' = q
        BY <1>1, <1>3, <1>6, <2>5
    <2>7. Len(q) = Len(stack) /\ q # <<>> /\ Head(q) = q[1]
        BY <1>2, <1>3, <2>5
    <2>8. ASSUME NEW n \in DOMAIN q \ {1} PROVE n \in DOMAIN stack /\ q[n] = stack[n]
        <3>1. PICK k \in DOMAIN tail : n = k + 1 /\ q[n] = tail[k]
            BY <2>5
        <3>2. PICK l \in DOMAIN stack : l = k + 1 /\ tail[k] = stack[l]
            BY <1>3
        <3> QED BY <3>1, <3>2
    <2> HIDE DEF e
    <2>9. /\ m \in 2..Len(e.todo)
          /\ e.todo[m] \in ToSet(members[e.set])
          /\ \A j \in 2..(m - 1) : e.todo[j] \notin ToSet(members[e.set])
          /\ Len(stack') = Len(stack) /\ stack' # <<>>
          /\ Head(stack') = stack'[1] /\ stack'[1].set = e.set
          /\ stack'[1].todo = SubSeq(e.todo, m, Len(e.todo))
          /\ \A n \in DOMAIN stack' \ {1} : n \in DOMAIN stack /\ stack'[n] = stack[n]
        BY <2>1, <2>4, <2>5, <2>6, <2>7, <2>8 DEF rest
    <2> QED BY <1>2, <2>9
<1> QED BY <1>5, <1>6

\* A new emission is above all others.
LEMMA EmitEffect ==
    ASSUME IInv, StackInv, NEW t \in Types, Emit(t)
    PROVE  /\ current[t] \in SetIds /\ Len(stack) \in Nat
           /\ Len(stack') = Len(stack) + 1 /\ stack' # <<>> /\ Head(stack') = stack'[1]
           /\ stack'[1].set = current[t] /\ stack'[1].todo = members[current[t]]
           /\ \A n \in DOMAIN stack' \ {1} :
                \E k \in DOMAIN stack : n = k + 1 /\ stack'[n] = stack[k]
<1> DEFINE q == members[current[t]]
           e == [set |-> current[t], todo |-> q, called |-> <<>>, due |-> ToSet(q)]
<1>1. current[t] # 0 /\ stack' = <<e>> \o stack
    BY DEF Emit
<1>2. current[t] \in SetIds /\ q \in Seq(Handlers)
    BY <1>1 DEF IInv, BusTypeOK
<1>3. ToSet(q) \subseteq Handlers
    BY <1>2 DEF ToSet
<1> HIDE DEF q
<1>4. e \in Emission /\ e.set = current[t] /\ e.todo = q
    BY <1>2, <1>3 DEF Emission
<1> HIDE DEF e
<1>5. stack \in Seq(Emission) /\ Len(stack) \in Nat
    BY DEF StackInv, StackExact
<1>6. PICK c \in Seq(Emission) :
         /\ c = <<e>> \o stack /\ Len(c) = Len(stack) + 1 /\ c[1] = e
         /\ \A n \in DOMAIN c : n = 1 \/ \E k \in DOMAIN stack : n = k + 1 /\ c[n] = stack[k]
    <2> DEFINE p == <<e>> \o stack
    <2>1. /\ p \in Seq(Emission) /\ Len(p) = Len(stack) + 1 /\ p[1] = e
          /\ \A n \in DOMAIN p : n = 1 \/ \E k \in DOMAIN stack : n = k + 1 /\ p[n] = stack[k]
        BY <1>4, <1>5, Pushed
    <2> QED BY <2>1, Zenon
<1>7. stack' = c
    BY <1>1, <1>6
<1>8. c # <<>> /\ Head(c) = c[1]
    BY <1>5, <1>6
<1> QED BY <1>2, <1>4, <1>5, <1>6, <1>7, <1>8 DEF q

\* The emission that a handler's return ends has called everybody it owed a
\* call: of those behind that handler in line, nobody is subscribed any more.
LEMMA EndsAfterAll ==
    ASSUME IInv, StackInv, HandlerReturns
    PROVE  EndsComplete
<1> DEFINE e == stack[1]
<1>1. /\ stack # <<>> /\ stack \in Seq(Emission) /\ Head(stack) = e
      /\ 1 \in DOMAIN stack
    BY Popped DEF HandlerReturns, StackInv, StackExact
<1>2. EmissionExact(e) /\ e.todo \in Seq(Handlers) /\ e.called \in Seq(Handlers)
    BY <1>1, StackEntry DEF StackInv
<1>3. Head(e.todo) = e.todo[1] /\ Head(e.todo) \in Handlers /\ DOMAIN e.todo = 1..Len(e.todo)
    BY <1>2 DEF EmissionExact
<1>4. ToSet(Append(e.called, Head(e.todo))) = ToSet(e.called) \cup {e.todo[1]}
    BY <1>2, <1>3, AppendSet
<1>5. ASSUME Len(stack') < Len(stack), NEW h \in e.due
      PROVE  h \in ToSet(e.called) \cup {e.todo[1]}
    <2>1. \A i \in 2..Len(e.todo) : e.todo[i] \notin ToSet(members[e.set])
        BY <1>5, ReturnEffect
    <2>2. h \in ToSet(members[e.set]) /\ h \in ToSet(e.called) \cup ToSet(e.todo)
        BY <1>2 DEF EmissionExact
    <2>3. ASSUME h \in ToSet(e.todo)
          PROVE  h = e.todo[1]
        <3>1. PICK i \in 1..Len(e.todo) : h = e.todo[i]
            BY <1>3, <2>3 DEF ToSet
        <3>2. i = 1 \/ i \in 2..Len(e.todo)
            OBVIOUS
        <3> QED BY <2>1, <2>2, <3>1, <3>2
    <2> QED BY <2>2, <2>3
<1> QED BY <1>1, <1>4, <1>5 DEF EndsComplete

\* Nothing else ends an emission.
LEMMA EndsStep == IInv /\ StackInv /\ [Next]_vars => [EndsComplete]_vars
<1> SUFFICES ASSUME IInv, StackInv, [Next]_vars PROVE EndsComplete
    OBVIOUS
<1>1. ASSUME stack' = stack \/ Len(stack') = Len(stack)
      PROVE  EndsComplete
    <2>1. Len(stack) \in Nat /\ Len(stack') = Len(stack)
        BY <1>1 DEF StackInv, StackExact
    <2> QED BY <2>1 DEF EndsComplete
<1>2. ASSUME NEW s \in Subscriptions, On(s) \/ Off(s)
      PROVE  EndsComplete
    <2>1. CASE On(s)
        BY <1>1, <2>1 DEF On
    <2>2. CASE Off(s)
        <3>1. DOMAIN stack' = DOMAIN stack
            BY <2>2 DEF Off, RemoveHandler
        <3>2. stack \in Seq(Emission) /\ stack' \in Seq(Emission)
            BY <2>2, StackOff DEF StackInv, StackExact
        <3>3. Len(stack') = Len(stack)
            BY <3>1, <3>2
        <3> QED BY <1>1, <3>3
    <2> QED BY <1>2, <2>1, <2>2
<1>3. ASSUME NEW t \in Types, Emit(t)
      PROVE  EndsComplete
    <2>1. Len(stack') = Len(stack) + 1 /\ Len(stack) \in Nat
        BY <1>3, EmitEffect
    <2> QED BY <2>1 DEF EndsComplete
<1>4. Calls \cup Users \cup {Stats} = Subscriptions
    BY ClientAssumption
<1>5. CASE UNCHANGED vars
    BY <1>1, <1>5 DEF vars, busVars
<1>6. CASE PluginIsSetUp \/ BuildFails \/ InstanceReleased
    BY <1>1, <1>6 DEF PluginIsSetUp, BuildFails, InstanceReleased, busVars
<1>7. CASE Built \/ Destroy
    BY <1>2, <1>4, <1>7 DEF Built, Destroy
<1>8. ASSUME NEW s \in Users, Subscribe(s) \/ Unsubscribe(s)
      PROVE  EndsComplete
    BY <1>2, <1>4, <1>8 DEF Subscribe, Unsubscribe
<1>9. CASE HandlerDone
    BY <1>9, EndsAfterAll DEF HandlerDone
<1>10. ASSUME NEW c \in Calls, StartCall(c) \/ CallSettles(c)
       PROVE  EndsComplete
    BY <1>2, <1>4, <1>10 DEF StartCall, CallSettles
<1>11. ASSUME NEW c \in Calls, CallReturns(c)
       PROVE  EndsComplete
    BY <1>1, <1>11 DEF CallReturns, busVars
<1>12. CASE AnnounceRetry
    <2>1. "RetryStarted" \in Types
        BY OtherHandlers DEF Types
    <2> QED BY <1>1, <1>3, <1>12, <2>1 DEF AnnounceRetry, busVars
<1>13. ASSUME NEW t \in Types, Announce(t)
       PROVE  EndsComplete
    BY <1>3, <1>13 DEF Announce
<1>14. CASE DisposeFails \/ Destroyed
    BY <1>1, <1>14 DEF DisposeFails, Destroyed, Clear
<1> QED BY <1>5, <1>6, <1>7, <1>8, <1>9, <1>10, <1>11, <1>12, <1>13, <1>14 DEF Next

\* Whatever handlers do while they are called, emit() calls nobody twice and
\* leaves out nobody who has been subscribed all the time: an emission ends
\* only when all of them have been called.
THEOREM EmissionsAreExact == Spec => DispatchIsExact
<1>1. ASSUME StackInv PROVE LinesExact
    <2>1. ASSUME NEW n \in DOMAIN stack
          PROVE  LET line == stack[n].called \o stack[n].todo IN
                 /\ Cardinality(ToSet(line)) = Len(line)
                 /\ stack[n].due \subseteq ToSet(line)
        <3>1. /\ EmissionExact(stack[n])
              /\ stack[n].todo \in Seq(Handlers) /\ stack[n].called \in Seq(Handlers)
            BY <1>1, StackEntry DEF StackInv
        <3>2. LET line == stack[n].called \o stack[n].todo IN
              /\ ToSet(line) = ToSet(stack[n].called) \cup ToSet(stack[n].todo)
              /\ Cardinality(ToSet(line)) = Len(line)
            BY <3>1, SetOfConcat DEF EmissionExact
        <3> QED BY <3>1, <3>2 DEF EmissionExact
    <2> QED BY <2>1 DEF LinesExact
<1>2. IInv /\ StackInv /\ [Next]_vars => [EndsComplete]_vars
    BY EndsStep
<1> QED BY <1>1, <1>2, IInvInit, IInvStep, StackInit, StackStep, PTL DEF Spec, DispatchIsExact
-----------------------------------------------------------------------------
(* The count of retries *)

LineInv == StatsAtBottom /\ RetriesCounted

\* What is left of a line behind the next handler.
LEMMA RestOfLine ==
    ASSUME NEW q \in Seq(Handlers), NoneTwice(q), NEW m \in 2..Len(q),
           NEW rest, rest = SubSeq(q, m, Len(q))
    PROVE  /\ Head(rest) = q[m] /\ ToSet(rest) \subseteq ToSet(q)
           /\ Waiting(rest) <=> \E i \in (m + 1)..Len(q) : q[i] = Stats
<1>1. /\ rest \in Seq(Handlers) /\ rest # <<>> /\ Head(rest) = q[m]
      /\ ToSet(rest) = {q[i] : i \in m..Len(q)}
      /\ ToSet(Tail(rest)) = {q[i] : i \in (m + 1)..Len(q)}
    <2>1. m \in 1..Len(q)
        OBVIOUS
    <2> QED BY <2>1, EndOfLine
<1>2. Waiting(rest) <=> Stats \in ToSet(Tail(rest))
    <2>1. /\ DOMAIN Tail(rest) = 1..(Len(rest) - 1) /\ Len(rest) \in Nat
          /\ \A i \in 1..(Len(rest) - 1) : Tail(rest)[i] = rest[i + 1]
        BY <1>1
    <2>2. ASSUME NEW i \in 2..Len(rest), rest[i] = Stats PROVE Stats \in ToSet(Tail(rest))
        <3>1. PICK k \in 1..(Len(rest) - 1) : k + 1 = i
            BY <2>1
        <3>2. Tail(rest)[k] = Stats
            BY <2>1, <2>2, <3>1
        <3> QED BY <2>1, <3>2 DEF ToSet
    <2>3. ASSUME NEW k \in 1..(Len(rest) - 1), Tail(rest)[k] = Stats PROVE Waiting(rest)
        <3>1. PICK i \in 2..Len(rest) : k + 1 = i
            BY <2>1
        <3>2. rest[i] = Stats
            BY <2>1, <2>3, <3>1
        <3> QED BY <3>2 DEF Waiting
    <2> QED BY <2>1, <2>2, <2>3 DEF Waiting, ToSet
<1>3. ToSet(rest) \subseteq ToSet(q)
    <2>1. \A i \in m..Len(q) : i \in DOMAIN q
        OBVIOUS
    <2> QED BY <1>1, <2>1 DEF ToSet
<1> QED BY <1>1, <1>2, <1>3

\* Emissions that keep their lines keep the client's place in them.
LEMMA LineKept ==
    ASSUME LineInv, StatsAtBottom', DOMAIN stack' = DOMAIN stack, Len(stack') = Len(stack),
           stack = <<>> <=> stack' = <<>>,
           stack # <<>> => Len(stack) \in DOMAIN stack,
           \A n \in DOMAIN stack : stack'[n].todo = stack[n].todo,
           retried' = retried, totals'.retries = totals.retries,
           phase' = "open" => phase = "open"
    PROVE  LineInv'
<1>1. Awaited' <=> Awaited
    BY DEF Awaited
<1> QED BY <1>1 DEF LineInv, RetriesCounted

\* An unsubscribe changes no line.
LEMMA LineOff ==
    ASSUME IInv, StackInv, LineInv, NEW s \in Subscriptions, Off(s),
           retried' = retried, totals'.retries = totals.retries,
           phase' = "open" => phase = "open"
    PROVE  LineInv'
<1>1. /\ captured' = captured
      /\ stack' = [n \in DOMAIN stack |->
                    IF stack[n].set = captured[s]
                    THEN [stack[n] EXCEPT !.due = @ \ {HandlerOf[s]}] ELSE stack[n]]
    BY DEF Off, RemoveHandler
<1>2. DOMAIN stack' = DOMAIN stack
    BY <1>1
<1>3. ASSUME NEW n \in DOMAIN stack
      PROVE  stack'[n].todo = stack[n].todo /\ stack'[n].set = stack[n].set
    <2>1. stack[n] \in Emission
        BY StackEntry DEF StackInv
    <2> QED BY <1>1, <2>1 DEF Emission
<1>4. /\ stack \in Seq(Emission) /\ stack' \in Seq(Emission)
      /\ Len(stack) \in Nat /\ Len(stack') \in Nat
    <2>1. stack' \in Seq(Emission)
        BY StackOff DEF StackInv, StackExact
    <2> QED BY <2>1 DEF StackInv, StackExact
<1>5. DOMAIN stack = 1..Len(stack) /\ DOMAIN stack' = 1..Len(stack')
    BY <1>4
<1>6. Len(stack') = Len(stack)
    BY <1>2, <1>4, <1>5
<1>7. (stack = <<>> <=> stack' = <<>>) /\ (stack # <<>> => Len(stack) \in DOMAIN stack)
    BY <1>4, <1>5, <1>6
<1>8. StatsAtBottom'
    BY <1>1, <1>2, <1>3, <1>6 DEF LineInv, StatsAtBottom
<1> QED BY <1>2, <1>3, <1>6, <1>7, <1>8, LineKept

\* A subscription changes no line either; the client's own finds none.
LEMMA LineOn ==
    ASSUME IInv, StackInv, LineInv, NEW s \in Subscriptions, On(s),
           retried' = retried, totals'.retries = totals.retries,
           phase' = "open" => phase = "open"
    PROVE  LineInv'
<1>1. PICK set \in SetIds : /\ captured[s] = 0 /\ stack' = stack
                            /\ captured' = [captured EXCEPT ![s] = set]
    BY OnEffect
<1>2. stack \in Seq(Emission) /\ (stack # <<>> => Len(stack) \in DOMAIN stack)
    <2>1. stack \in Seq(Emission)
        BY DEF StackInv, StackExact
    <2> QED BY <2>1
<1>3. ASSUME NEW n \in DOMAIN stack, Stats \in ToSet(stack[n].todo)
      PROVE  n = Len(stack) /\ stack[n].set = captured'[Stats]
    <2>1. n = Len(stack) /\ stack[n].set = captured[Stats] /\ stack[n].set \in SetIds
        BY <1>3, StackEntry DEF StackInv, LineInv, StatsAtBottom
    <2>2. captured[Stats] # 0
        BY <2>1 DEF SetIds
    <2>3. captured'[Stats] = captured[Stats]
        BY <1>1, <2>2, OtherHandlers DEF IInv, BusTypeOK
    <2> QED BY <2>1, <2>3
<1>4. StatsAtBottom'
    BY <1>1, <1>3 DEF StatsAtBottom
<1> QED BY <1>1, <1>2, <1>4, LineKept

\* The line moves on: the client's handler is counted when it comes to the
\* head, and is never left out.
LEMMA LineReturns ==
    ASSUME IInv, StackInv, ListensInv, LineInv, CallsCounted, HandlerDone
    PROVE  LineInv'
<1> DEFINE e == stack[1]
           L == Len(stack)
           Drops == /\ Len(stack') = L - 1
                    /\ \A n \in DOMAIN stack' : n + 1 \in DOMAIN stack /\ stack'[n] = stack[n + 1]
                    /\ \A i \in 2..Len(e.todo) : e.todo[i] \notin ToSet(members[e.set])
           Moves(m) == /\ e.todo[m] \in ToSet(members[e.set])
                       /\ \A j \in 2..(m - 1) : e.todo[j] \notin ToSet(members[e.set])
                       /\ Len(stack') = L /\ stack' # <<>>
                       /\ Head(stack') = stack'[1]
                       /\ stack'[1].set = e.set
                       /\ stack'[1].todo = SubSeq(e.todo, m, Len(e.todo))
                       /\ \A n \in DOMAIN stack' \ {1} : n \in DOMAIN stack /\ stack'[n] = stack[n]
<1>1. /\ HandlerReturns /\ CountRetry /\ phase' = phase /\ retried' = retried
      /\ captured' = captured /\ members' = members
    BY DEF HandlerDone, HandlerReturns
<1>2. /\ 1 \in DOMAIN stack /\ L \in Nat
    BY <1>1, ReturnEffect
<1>2a. Drops \/ \E m \in 2..Len(e.todo) : Moves(m)
    BY <1>1, ReturnEffect
<1>3. /\ e \in Emission /\ EmissionExact(e) /\ e.todo \in Seq(Handlers) /\ NoneTwice(e.todo)
    BY <1>2, StackEntry DEF StackInv, EmissionExact
<1>4. stack' \in Seq(Emission) /\ stack \in Seq(Emission)
    BY <1>1, StackReturns DEF StackInv, StackExact
<1>5. /\ DOMAIN stack = 1..L /\ L >= 1 /\ stack # <<>>
      /\ DOMAIN stack' = 1..Len(stack') /\ Len(stack') \in Nat
      /\ (stack' # <<>> <=> Len(stack') # 0)
    BY <1>2, <1>4
<1>6. /\ \A n \in DOMAIN stack : Stats \in ToSet(stack[n].todo) => n = L /\ stack[n].set = captured[Stats]
      /\ totals.retries \in Nat
    BY DEF LineInv, StatsAtBottom, CallsCounted
<1>7. ASSUME NEW i \in 2..Len(e.todo), e.todo[i] = Stats
      PROVE  /\ L = 1 /\ Stats \in ToSet(e.todo)
             /\ phase = "open" => Stats \in ToSet(members[e.set])
    <2>1. Stats \in ToSet(e.todo)
        BY <1>3, <1>7 DEF ToSet
    <2>2. L = 1 /\ e.set = captured[Stats]
        BY <1>2, <1>6, <2>1
    <2> QED BY <2>1, <2>2 DEF ListensInv, StatsListens
<1>8. totals'.retries = IF SetsRunning(Stats) THEN totals.retries + 1 ELSE totals.retries
    BY <1>1 DEF CountRetry, CallsCounted
<1>9. phase = "open" => retried \in Nat /\ retried = IF Awaited THEN totals.retries + 1 ELSE totals.retries
    BY DEF LineInv, RetriesCounted
<1>10. Awaited <=> Waiting(stack[L].todo)
    BY <1>5 DEF Awaited
<1>11. CASE Drops
    <2>1. totals'.retries = totals.retries
        BY <1>2, <1>8, <1>11 DEF SetsRunning
    <2>2. StatsAtBottom'
        <3>1. ASSUME NEW n \in DOMAIN stack', Stats \in ToSet(stack'[n].todo)
              PROVE  n = Len(stack') /\ stack'[n].set = captured'[Stats]
            <4>1. PICK k \in DOMAIN stack : k = n + 1 /\ stack'[n] = stack[k]
                BY <1>11
            <4>2. k = L /\ stack[k].set = captured[Stats]
                BY <1>6, <3>1, <4>1
            <4>3. n \in Nat /\ L \in Nat /\ Len(stack') = L - 1
                <5>1. Len(stack') \in Nat /\ DOMAIN stack' = 1..Len(stack')
                    BY <1>5
                <5> QED BY <1>2, <1>11, <5>1
            <4>4. n = Len(stack')
                BY <4>1, <4>2, <4>3
            <4> QED BY <1>1, <4>1, <4>2, <4>4
        <3> QED BY <3>1 DEF StatsAtBottom
    <2>3. ASSUME phase = "open" PROVE Awaited' <=> Awaited
        <3>1. CASE L = 1
            <4>1. ~Awaited'
                BY <1>2, <1>5, <1>11, <3>1 DEF Awaited
            <4>2. ~Awaited
                BY <1>7, <1>10, <1>11, <2>3, <3>1 DEF Waiting
            <4> QED BY <4>1, <4>2
        <3>2. CASE L # 1
            <4>1. PICK n \in DOMAIN stack' : n = Len(stack') /\ n + 1 = L
                <5>1. DOMAIN stack' = 1..Len(stack')
                    BY <1>5
                <5>2. Len(stack') \in Nat /\ Len(stack') # 0 /\ Len(stack') + 1 = L
                    BY <1>2, <1>5, <1>11, <3>2
                <5> QED BY <5>1, <5>2
            <4>2. stack'[n] = stack[L] /\ stack' # <<>>
                BY <1>5, <1>11, <4>1
            <4>3. Awaited' <=> Waiting(stack'[n].todo)
                BY <4>1, <4>2 DEF Awaited, Waiting
            <4> QED BY <1>10, <4>2, <4>3
        <3> QED BY <3>1, <3>2
    <2> QED BY <1>1, <1>9, <2>1, <2>2, <2>3 DEF LineInv, RetriesCounted
<1>12. ASSUME NEW m \in 2..Len(e.todo), Moves(m)
       PROVE  LineInv'
    <2> DEFINE rest == stack'[1].todo
    <2>1. /\ Head(rest) = e.todo[m] /\ ToSet(rest) \subseteq ToSet(e.todo)
          /\ Waiting(rest) <=> \E i \in (m + 1)..Len(e.todo) : e.todo[i] = Stats
        <3>1. PICK q \in Seq(Handlers) : q = e.todo
            BY <1>3
        <3>2. NoneTwice(q) /\ m \in 2..Len(q) /\ rest = SubSeq(q, m, Len(q))
            BY <1>3, <1>12, <3>1
        <3>3. /\ Head(rest) = q[m] /\ ToSet(rest) \subseteq ToSet(q)
              /\ Waiting(rest) <=> \E i \in (m + 1)..Len(q) : q[i] = Stats
            BY <3>2, RestOfLine
        <3> QED BY <3>1, <3>3
    <2>2. SetsRunning(Stats) <=> e.todo[m] = Stats
        <3>1. Len(stack') >= Len(stack)
            BY <1>2, <1>12
        <3>2. Head(Head(stack').todo) = e.todo[m]
            BY <1>12, <2>1
        <3> QED BY <1>12, <3>1, <3>2 DEF SetsRunning
    <2>3. StatsAtBottom'
        <3>1. ASSUME NEW n \in DOMAIN stack', Stats \in ToSet(stack'[n].todo)
              PROVE  n = Len(stack') /\ stack'[n].set = captured'[Stats]
            <4>1. CASE n = 1
                BY <1>1, <1>2, <1>6, <1>12, <2>1, <3>1, <4>1
            <4>2. CASE n # 1
                BY <1>1, <1>6, <1>12, <3>1, <4>2
            <4> QED BY <4>1, <4>2
        <3> QED BY <3>1 DEF StatsAtBottom
    <2>4. CASE L # 1
        <3>1. e.todo[m] # Stats
            BY <1>7, <2>4
        <3>2. stack'[L] = stack[L]
            BY <1>5, <1>12, <2>4
        <3>3. Awaited' <=> Awaited
            BY <1>10, <1>12, <3>2 DEF Awaited, Waiting
        <3> QED BY <1>1, <1>8, <1>9, <2>2, <2>3, <3>1, <3>3 DEF LineInv, RetriesCounted
    <2>5. CASE L = 1
        <3>1. /\ Awaited <=> \E i \in 2..Len(e.todo) : e.todo[i] = Stats
              /\ Awaited' <=> \E i \in (m + 1)..Len(e.todo) : e.todo[i] = Stats
            <4>1. Awaited' <=> Waiting(rest)
                BY <1>12, <2>5 DEF Awaited, Waiting
            <4> QED BY <1>10, <2>1, <2>5, <4>1 DEF Waiting
        <3>2. \A i \in (m + 1)..Len(e.todo) : i \in 2..Len(e.todo) /\ e.todo[i] # e.todo[m]
            <4>1. ASSUME NEW i \in (m + 1)..Len(e.todo)
                  PROVE  i \in 1..Len(e.todo) /\ m \in 1..Len(e.todo) /\ i # m /\ i \in 2..Len(e.todo)
                BY <1>3
            <4> QED BY <1>3, <4>1 DEF NoneTwice
        <3>3. CASE e.todo[m] = Stats
            <4>1. Awaited /\ ~Awaited'
                BY <3>1, <3>2, <3>3
            <4> QED BY <1>1, <1>6, <1>8, <1>9, <2>2, <2>3, <3>3, <4>1 DEF LineInv, RetriesCounted
        <3>4. CASE e.todo[m] # Stats
            <4>1. ASSUME phase = "open", NEW i \in 2..Len(e.todo), e.todo[i] = Stats
                  PROVE  i \in (m + 1)..Len(e.todo)
                <5>1. i \notin 2..(m - 1)
                    BY <1>7, <1>12, <4>1
                <5>2. i # m
                    BY <3>4, <4>1
                <5> QED BY <1>3, <5>1, <5>2
            <4>2. phase = "open" => (Awaited' <=> Awaited)
                BY <3>1, <3>2, <4>1
            <4> QED BY <1>1, <1>8, <1>9, <2>2, <2>3, <3>4, <4>2 DEF LineInv, RetriesCounted
        <3> QED BY <3>3, <3>4
    <2> QED BY <2>4, <2>5
<1> HIDE DEF Drops, Moves
<1> QED BY <1>2a, <1>11, <1>12

\* Emissions of other types have no place for the client's handler.
LEMMA LineAnnounce ==
    ASSUME IInv, StackInv, ListensInv, LineInv, CallsCounted, NEW t \in Types, Announce(t)
    PROVE  LineInv'
<1>1. /\ t # "RetryStarted" /\ Emit(t) /\ CountRetry /\ phase' = phase /\ retried' = retried
      /\ captured' = captured
    BY DEF Announce, Emit
<1>2. /\ current[t] \in SetIds /\ Len(stack) \in Nat
      /\ Len(stack') = Len(stack) + 1 /\ stack' # <<>> /\ Head(stack') = stack'[1]
      /\ stack'[1].set = current[t] /\ stack'[1].todo = members[current[t]]
      /\ \A n \in DOMAIN stack' \ {1} :
            \E k \in DOMAIN stack : n = k + 1 /\ stack'[n] = stack[k]
    BY <1>1, EmitEffect
<1>3. Stats \notin ToSet(members[current[t]])
    <2>1. PICK u \in Subscriptions : captured[u] = current[t] /\ TypeOf[u] = t
        BY <1>2 DEF IInv, CurrentIsCaptured, SetIds
    <2>2. current[t] # captured[Stats]
        BY <1>1, <1>2, <2>1, OtherHandlers DEF IInv, SetsHaveOneType, SetIds
    <2> QED BY <1>2, <2>2 DEF ListensInv, StatsInOneSet
<1>4. stack' \in Seq(Emission) /\ stack \in Seq(Emission)
    BY <1>1, StackEmit DEF StackInv, StackExact
<1>5. members[current[t]] \in Seq(Handlers) /\ members[current[t]] # <<>>
    <2>1. current[t] # 0 /\ members[current[t]] \in Seq(Handlers)
        BY <1>2 DEF IInv, BusTypeOK, SetIds
    <2> QED BY <2>1 DEF StackInv, RegisteredNotEmpty
<1>6. \A i \in 1..Len(members[current[t]]) : members[current[t]][i] # Stats
    BY <1>3, <1>5 DEF ToSet
<1>7. ~SetsRunning(Stats)
    <2>1. Head(members[current[t]]) # Stats
        BY <1>5, <1>6
    <2> QED BY <1>2, <2>1 DEF SetsRunning
<1>8. totals'.retries = totals.retries
    BY <1>1, <1>7 DEF CountRetry
<1>9. StatsAtBottom'
    <2>1. ASSUME NEW n \in DOMAIN stack', Stats \in ToSet(stack'[n].todo)
          PROVE  n = Len(stack') /\ stack'[n].set = captured'[Stats]
        <3>1. PICK k \in DOMAIN stack : n = k + 1 /\ stack'[n] = stack[k]
            BY <1>2, <1>3, <2>1
        <3>2. k = Len(stack) /\ stack[k].set = captured[Stats]
            BY <2>1, <3>1 DEF LineInv, StatsAtBottom
        <3> QED BY <1>1, <1>2, <3>1, <3>2
    <2> QED BY <2>1 DEF StatsAtBottom
<1>10. Awaited' <=> Awaited
    <2>1. CASE stack = <<>>
        <3>1. Len(stack') = 1 /\ ~Awaited
            BY <1>2, <2>1 DEF Awaited
        <3>2. ~Waiting(members[current[t]])
            BY <1>5, <1>6 DEF Waiting
        <3> QED BY <1>2, <3>1, <3>2 DEF Awaited, Waiting
    <2>2. CASE stack # <<>>
        <3>1. PICK n \in DOMAIN stack' \ {1} : n = Len(stack') /\ n = Len(stack) + 1
            BY <1>2, <1>4, <2>2
        <3>2. stack'[n] = stack[Len(stack)]
            BY <1>2, <3>1
        <3> QED BY <1>2, <2>2, <3>1, <3>2 DEF Awaited, Waiting
    <2> QED BY <2>1, <2>2
<1> QED BY <1>1, <1>8, <1>9, <1>10 DEF LineInv, RetriesCounted

\* A retry that is announced to nobody is none of an open client: its own
\* handler is registered.
LEMMA LineUnheard ==
    ASSUME LineInv, ListensInv, AnnounceRetry, current["RetryStarted"] = 0, UNCHANGED busVars
    PROVE  LineInv'
<1>1. phase' = phase /\ phase # "open"
    BY DEF AnnounceRetry, ListensInv, StatsListens
<1>2. RetriesCounted'
    BY <1>1 DEF RetriesCounted
<1>3. StatsAtBottom'
    BY DEF LineInv, StatsAtBottom, busVars
<1> QED BY <1>2, <1>3 DEF LineInv

\* A retry that is announced puts the client's handler in line once.
LEMMA LineRetry ==
    ASSUME IInv, StackInv, ListensInv, LineInv, CallsCounted, AnnounceRetry,
           Emit("RetryStarted"), CountRetry
    PROVE  LineInv'
<1> DEFINE q == members[current["RetryStarted"]]
<1>1. /\ Emit("RetryStarted") /\ CountRetry /\ phase' = phase /\ stack = <<>>
      /\ retried' = (IF active[Stats] THEN retried + 1 ELSE retried)
      /\ captured' = captured
    BY DEF AnnounceRetry, Emit
<1>2. "RetryStarted" \in Types
    BY OtherHandlers DEF Types
<1>3. /\ current["RetryStarted"] \in SetIds /\ Len(stack) = 0
      /\ Len(stack') = 1 /\ stack' # <<>> /\ Head(stack') = stack'[1]
      /\ stack'[1].set = current["RetryStarted"] /\ stack'[1].todo = q
    BY <1>1, <1>2, EmitEffect
<1>4. q \in Seq(Handlers) /\ NoneTwice(q) /\ q # <<>>
    <2>1. current["RetryStarted"] # 0 /\ q \in Seq(Handlers) /\ NoneTwice(q)
        BY <1>3 DEF IInv, BusTypeOK, SetIds
    <2> QED BY <1>2, <2>1 DEF StackInv, RegisteredNotEmpty
<1> HIDE DEF q
<1>5. stack' \in Seq(Emission) /\ DOMAIN stack' = {1}
    <2>1. stack' \in Seq(Emission)
        BY <1>1, <1>2, StackEmit DEF StackInv, StackExact
    <2> QED BY <1>3, <2>1
<1>6. StatsAtBottom'
    BY <1>1, <1>3, <1>5 DEF StatsAtBottom, ListensInv, StatsInOneSet, q
<1>7. SetsRunning(Stats) <=> q[1] = Stats
    <2>1. Head(q) = q[1] /\ Len(stack') >= Len(stack)
        BY <1>3, <1>4
    <2> QED BY <1>3, <2>1 DEF SetsRunning
<1>8. Awaited' <=> \E i \in 2..Len(q) : q[i] = Stats
    BY <1>3 DEF Awaited, Waiting
<1>9. totals'.retries = IF q[1] = Stats THEN totals.retries + 1 ELSE totals.retries
    BY <1>1, <1>7 DEF CountRetry, CallsCounted
<1>10. RetriesCounted'
    <2> SUFFICES ASSUME phase = "open" PROVE RetriesCounted'
        BY <1>1 DEF RetriesCounted
    <2>1. active[Stats] /\ Stats \in ToSet(q)
        BY DEF ListensInv, StatsListens, q
    <2>2. retried \in Nat /\ retried = totals.retries /\ totals.retries \in Nat
        BY <1>1 DEF LineInv, RetriesCounted, Awaited, CallsCounted
    <2>3. PICK i \in 1..Len(q) : q[i] = Stats
        BY <1>4, <2>1 DEF ToSet
    <2>4. retried' = retried + 1 /\ Len(q) \in Nat
        BY <1>1, <1>4, <2>1
    <2>5. CASE i = 1
        <3>1. ~Awaited'
            <4>1. \A j \in 2..Len(q) : j \in 1..Len(q) /\ 1 \in 1..Len(q) /\ j # 1
                BY <2>4
            <4> QED BY <1>4, <1>8, <2>3, <2>5, <4>1 DEF NoneTwice
        <3>2. q[1] = Stats
            BY <2>3, <2>5
        <3> QED BY <1>9, <2>2, <2>4, <3>1, <3>2 DEF RetriesCounted
    <2>6. CASE i # 1
        <3>1. i \in 2..Len(q) /\ 1 \in 1..Len(q)
            BY <2>4, <2>6
        <3>2. q[1] # Stats /\ Awaited'
            BY <1>4, <1>8, <2>3, <2>6, <3>1 DEF NoneTwice
        <3> QED BY <1>9, <2>2, <2>4, <3>2 DEF RetriesCounted
    <2> QED BY <2>5, <2>6
<1> QED BY <1>6, <1>10 DEF LineInv

\* Every announced retry is counted, or is about to be.
LEMMA LineStep ==
    IInv /\ StackInv /\ ListensInv /\ LineInv /\ CallsCounted /\ [Next]_vars => LineInv'
<1> SUFFICES ASSUME IInv, StackInv, ListensInv, LineInv, CallsCounted, [Next]_vars
             PROVE  LineInv'
    OBVIOUS
<1>1. ASSUME UNCHANGED <<stack, captured, retried>>, totals'.retries = totals.retries,
             phase' = "open" => phase = "open"
      PROVE  LineInv'
    BY <1>1 DEF LineInv, StatsAtBottom, RetriesCounted, Awaited
<1>2. Calls \cup Users \cup {Stats} = Subscriptions
    BY ClientAssumption
<1>3. CASE UNCHANGED vars
    BY <1>1, <1>3 DEF vars, busVars, clientVars
<1>4. CASE PluginIsSetUp \/ BuildFails \/ InstanceReleased \/ DisposeFails \/ Destroyed
    BY <1>1, <1>4 DEF PluginIsSetUp, BuildFails, InstanceReleased, DisposeFails, Destroyed,
                      Clear, busVars, clientVars
<1>5. CASE Built
    <2>1. phase = "building" /\ On(Stats) /\ retried' = retried /\ totals' = totals
        BY <1>5 DEF Built
    <2>2. stack = <<>> /\ retried = 0 /\ totals.retries = 0
        BY <2>1 DEF ListensInv, NotYetBuilt
    <2>3. stack' = <<>>
        BY <2>1, <2>2 DEF On
    <2> QED BY <2>1, <2>2, <2>3 DEF LineInv, StatsAtBottom, RetriesCounted, Awaited
<1>6. CASE Destroy
    BY <1>2, <1>6, LineOff DEF Destroy
<1>7. ASSUME NEW s \in Users, Subscribe(s) \/ Unsubscribe(s)
      PROVE  LineInv'
    BY <1>2, <1>7, LineOn, LineOff DEF Subscribe, Unsubscribe, clientVars
<1>8. CASE HandlerDone
    BY <1>8, LineReturns
<1>9. ASSUME NEW c \in Calls, StartCall(c)
      PROVE  LineInv'
    <2>1. totals'.retries = totals.retries
        BY <1>9 DEF StartCall, CallsCounted
    <2> QED BY <1>2, <1>9, <2>1, LineOn DEF StartCall
<1>10. ASSUME NEW c \in Calls, CallSettles(c)
       PROVE  LineInv'
    BY <1>2, <1>10, LineOff DEF CallSettles
<1>11. ASSUME NEW c \in Calls, CallReturns(c)
       PROVE  LineInv'
    <2>1. totals'.retries = totals.retries
        BY <1>11 DEF CallReturns, CallsCounted
    <2> QED BY <1>1, <1>11, <2>1 DEF CallReturns, busVars
<1>12. CASE AnnounceRetry
    BY <1>12, LineRetry, LineUnheard DEF AnnounceRetry
<1>13. ASSUME NEW t \in Types, Announce(t)
       PROVE  LineInv'
    BY <1>13, LineAnnounce
<1> QED BY <1>3, <1>4, <1>5, <1>6, <1>7, <1>8, <1>9, <1>10, <1>11, <1>12, <1>13 DEF Next

\* A client begins with nothing to count.
LEMMA StatsInit == Init => CallsCounted /\ ListensInv /\ LineInv
<1> SUFFICES ASSUME Init PROVE CallsCounted /\ ListensInv /\ LineInv
    OBVIOUS
<1>1. CallsCounted
    <2>1. Pending = {}
        BY DEF Init, Pending
    <2> QED BY <2>1, FS_EmptySet DEF Init, CallsCounted
<1>2. ListensInv
    <2>1. StatsInOneSet
        <3>1. \A i \in SetIds : members[i] = <<>>
            BY DEF Init, BusInit
        <3>2. \A i \in SetIds : ToSet(members[i]) = {}
            BY <3>1 DEF ToSet
        <3> QED BY <3>2 DEF StatsInOneSet
    <2>2. NotYetBuilt
        BY OtherHandlers DEF Init, BusInit, NotYetBuilt
    <2> QED BY <2>1, <2>2 DEF Init, ListensInv, StatsListens
<1>3. LineInv
    BY DEF Init, BusInit, LineInv, StatsAtBottom, RetriesCounted
<1> QED BY <1>1, <1>2, <1>3

\* stats() accounts for every call once, and for every retry announced while
\* the client is open, whatever handlers come, go and throw in between.
THEOREM StatsNeverDrift == Spec => []StatsAreExact
<1>1. CallsCounted /\ ListensInv /\ LineInv => StatsAreExact
    BY DEF CallsCounted, Pending, LineInv, RetriesCounted, Awaited, StatsAreExact
<1> QED BY <1>1, IInvInit, IInvStep, StackInit, StackStep, StatsInit, CallsCountedStep,
           ListensStep, LineStep, PTL DEF Spec
-----------------------------------------------------------------------------
(* The order of the plugins *)

\* A set of natural numbers that has 0 and every successor has them all.
LEMMA Induction ==
    ASSUME NEW P, 0 \in P, \A n \in Nat : n \in P => n + 1 \in P
    PROVE  Nat \subseteq P
<1> DEFINE T == {n \in Nat : n \notin P}
<1> SUFFICES ASSUME T # {} PROVE FALSE
    OBVIOUS
<1>1. PICK x \in T : \A y \in T : x <= y
    <2> HIDE DEF T
    <2>1. T \subseteq Nat
        BY DEF T
    <2> QED BY <2>1, Least
<1>2. x # 0
    OBVIOUS
<1>3. PICK p \in Nat : p + 1 = x
    BY <1>2
<1>4. p \notin T
    BY <1>1, <1>3
<1> QED BY <1>3, <1>4

\* One round of orderPlugins after another.
Taking(ps, n, g) == IF n = 0 THEN {} ELSE Ready(ps, g[n - 1])

\* The rounds are what their recursive definition says.
LEMMA RoundsAre ==
    ASSUME NEW ps, Len(ps) \in Nat
    PROVE  Rounds(ps) = [n \in 0..Len(ps) |-> Taking(ps, n, Rounds(ps))]
<1> DEFINE P == {m \in Nat : \E g : g = [n \in 0..m |-> Taking(ps, n, g)]}
<1>1. 0 \in P
    <2> DEFINE g == [n \in 0..0 |-> {}]
    <2>1. g = [n \in 0..0 |-> Taking(ps, n, g)]
        BY DEF Taking
    <2> QED BY <2>1
<1>2. ASSUME NEW m \in Nat, m \in P PROVE m + 1 \in P
    <2>1. PICK g : g = [n \in 0..m |-> Taking(ps, n, g)]
        BY <1>2
    <2> DEFINE h == [n \in 0..(m + 1) |-> Taking(ps, n, g)]
    <2>2. ASSUME NEW n \in 0..(m + 1) PROVE Taking(ps, n, g) = Taking(ps, n, h)
        <3>1. CASE n = 0
            BY <3>1 DEF Taking
        <3>2. CASE n # 0
            <4>1. n - 1 \in 0..m /\ n - 1 \in 0..(m + 1)
                BY <3>2
            <4>2. h[n - 1] = g[n - 1]
                <5>1. h[n - 1] = Taking(ps, n - 1, g)
                    BY <4>1
                <5>2. g[n - 1] = Taking(ps, n - 1, g)
                    BY <2>1, <4>1
                <5> QED BY <5>1, <5>2
            <4> HIDE DEF h
            <4> QED BY <3>2, <4>2 DEF Taking
        <3> QED BY <3>1, <3>2
    <2>3. h = [n \in 0..(m + 1) |-> Taking(ps, n, h)]
        <3> DEFINE k == [n \in 0..(m + 1) |-> Taking(ps, n, h)]
        <3>1. DOMAIN h = DOMAIN k /\ \A n \in 0..(m + 1) : h[n] = k[n]
            BY <2>2
        <3> QED BY <3>1
    <2> HIDE DEF h
    <2> QED BY <2>3
<1>3. Len(ps) \in P
    <2> HIDE DEF P
    <2> QED BY <1>1, <1>2, Induction
<1>4. \E g : g = [n \in 0..Len(ps) |-> Taking(ps, n, g)]
    BY <1>3
<1>5. Rounds(ps) = CHOOSE g : g = [n \in 0..Len(ps) |-> Taking(ps, n, g)]
    BY DEF Rounds, Taking
<1> QED BY <1>4, <1>5

\* A sequence of registrations, as orderPlugins is given.
Registered(ps) ==
    /\ Len(ps) \in Nat /\ DOMAIN ps = 1..Len(ps)
    /\ \A i \in DOMAIN ps : ps[i].priority \in Int

\* What a round has taken stays taken.
LEMMA RoundsGrow ==
    ASSUME NEW ps, Registered(ps)
    PROVE  LET r == Rounds(ps) IN
           /\ DOMAIN r = 0..Len(ps) /\ r[0] = {}
           /\ \A n \in 1..Len(ps) : r[n] = Ready(ps, r[n - 1])
           /\ \A m, n \in 0..Len(ps) : m <= n => r[m] \subseteq r[n]
<1> DEFINE r == Rounds(ps)
           N == Len(ps)
<1>1. N \in Nat /\ r = [n \in 0..N |-> Taking(ps, n, r)]
    BY RoundsAre DEF Registered
<1> HIDE DEF r, N
<1>2. DOMAIN r = 0..N /\ \A n \in 0..N : r[n] = Taking(ps, n, r)
    BY <1>1
<1>3. r[0] = {}
    BY <1>1, <1>2 DEF Taking
<1>4. \A n \in 1..N : r[n] = Ready(ps, r[n - 1])
    BY <1>1, <1>2 DEF Taking
<1>5. \A n \in Nat : n + 1 <= N => r[n] \subseteq r[n + 1]
    <2> DEFINE P == {n \in Nat : n + 1 <= N => r[n] \subseteq r[n + 1]}
    <2>1. 0 \in P
        BY <1>3
    <2>2. ASSUME NEW n \in Nat, n \in P PROVE n + 1 \in P
        <3> SUFFICES ASSUME (n + 1) + 1 <= N PROVE r[n + 1] \subseteq r[(n + 1) + 1]
            OBVIOUS
        <3>1. r[n] \subseteq r[n + 1]
            BY <1>1, <2>2
        <3>2. PICK a \in 1..N : a = n + 1
            BY <1>1
        <3>3. PICK b \in 1..N : b = a + 1
            BY <1>1, <3>2
        <3>4. a - 1 = n /\ b - 1 = a
            BY <3>2, <3>3
        <3>5. r[a] = Ready(ps, r[n]) /\ r[b] = Ready(ps, r[a])
            BY <1>4, <3>4
        <3>6. r[n] \subseteq r[a]
            BY <3>1, <3>2
        <3>7. Ready(ps, r[n]) \subseteq Ready(ps, r[a])
            BY <3>6 DEF Ready
        <3> QED BY <3>2, <3>3, <3>5, <3>7
    <2> HIDE DEF P
    <2>3. Nat \subseteq P
        BY <2>1, <2>2, Induction
    <2> QED BY <2>3 DEF P
<1>6. ASSUME NEW m \in 0..N PROVE \A n \in Nat : m + n <= N => r[m] \subseteq r[m + n]
    <2> DEFINE P == {n \in Nat : m + n <= N => r[m] \subseteq r[m + n]}
    <2>1. 0 \in P
        <3>1. m + 0 = m
            OBVIOUS
        <3> QED BY <3>1
    <2>2. ASSUME NEW n \in Nat, n \in P PROVE n + 1 \in P
        <3> SUFFICES ASSUME m + (n + 1) <= N PROVE r[m] \subseteq r[m + (n + 1)]
            OBVIOUS
        <3>1. PICK k \in Nat : k = m + n
            OBVIOUS
        <3>2. k + 1 = m + (n + 1) /\ m + n <= N
            BY <1>1, <3>1
        <3>3. r[m] \subseteq r[k]
            BY <2>2, <3>1, <3>2
        <3>4. r[k] \subseteq r[k + 1]
            BY <1>5, <3>2
        <3> QED BY <3>2, <3>3, <3>4
    <2> HIDE DEF P
    <2>3. Nat \subseteq P
        BY <2>1, <2>2, Induction
    <2> QED BY <2>3 DEF P
<1>7. ASSUME NEW m \in 0..N, NEW n \in 0..N, m <= n PROVE r[m] \subseteq r[n]
    <2>1. PICK k \in Nat : m + k = n
        <3>1. n - m \in Nat /\ m + (n - m) = n
            BY <1>1, <1>7
        <3> QED BY <3>1
    <2>2. m + k <= N
        BY <1>1, <2>1
    <2> QED BY <1>6, <2>1, <2>2
<1> QED BY <1>2, <1>3, <1>4, <1>7 DEF r, N

\* The sort of orderPlugins is by a strict total order.
LEMMA BeforeIsOrder ==
    ASSUME NEW ps, Registered(ps), NEW i \in DOMAIN ps, NEW j \in DOMAIN ps, NEW k \in DOMAIN ps
    PROVE  LET r == Rounds(ps) IN
           /\ ~Before(ps, r, i, i)
           /\ i # j => Before(ps, r, i, j) \/ Before(ps, r, j, i)
           /\ Before(ps, r, i, j) /\ Before(ps, r, j, k) => Before(ps, r, i, k)
<1> DEFINE r == Rounds(ps)
<1>1. \A m, n \in DOMAIN r : r[m] \subseteq r[n] \/ r[n] \subseteq r[m]
    <2>1. /\ DOMAIN r = 0..Len(ps) /\ Len(ps) \in Nat
          /\ \A m, n \in 0..Len(ps) : m <= n => r[m] \subseteq r[n]
        BY RoundsGrow DEF Registered
    <2> HIDE DEF r
    <2>2. ASSUME NEW m \in 0..Len(ps), NEW n \in 0..Len(ps)
          PROVE  r[m] \subseteq r[n] \/ r[n] \subseteq r[m]
        <3>1. m <= n \/ n <= m
            OBVIOUS
        <3> QED BY <2>1, <3>1
    <2> QED BY <2>1, <2>2
<1> HIDE DEF r
<1>2. /\ \A a, b, c : Earlier(r, a, b) /\ Earlier(r, b, c) => Earlier(r, a, c)
      /\ \A a, b : Earlier(r, a, b) => ~Earlier(r, b, a)
      /\ \A a : ~Earlier(r, a, a)
    BY <1>1 DEF Earlier
<1>3. \A a, b, c : Earlier(r, a, b) => Earlier(r, a, c) \/ Earlier(r, c, b)
    BY <1>1 DEF Earlier
<1>4. /\ i \in Int /\ j \in Int /\ k \in Int
      /\ ps[i].priority \in Int /\ ps[j].priority \in Int /\ ps[k].priority \in Int
    BY DEF Registered
<1>5. /\ ~Outranks(ps, i, i)
      /\ i # j => Outranks(ps, i, j) \/ Outranks(ps, j, i)
      /\ Outranks(ps, i, j) /\ Outranks(ps, j, k) => Outranks(ps, i, k)
    BY <1>4 DEF Outranks
<1>6. ~Before(ps, r, i, i)
    BY <1>2, <1>5 DEF Before
<1>7. i # j => Before(ps, r, i, j) \/ Before(ps, r, j, i)
    BY <1>5 DEF Before
<1>8. Before(ps, r, i, j) /\ Before(ps, r, j, k) => Before(ps, r, i, k)
    BY <1>2, <1>3, <1>5 DEF Before
<1> QED BY <1>6, <1>7, <1>8 DEF r

\* Who comes before has the lower place, and places are those of the list.
LEMMA PlacesInOrder ==
    ASSUME NEW ps, Registered(ps), NEW j \in DOMAIN ps
    PROVE  LET r == Rounds(ps) IN
           /\ Place(ps, r, j) \in DOMAIN ps
           /\ \A i \in DOMAIN ps : Before(ps, r, i, j) => Place(ps, r, i) < Place(ps, r, j)
<1> DEFINE r == Rounds(ps)
           Below(i) == {k \in DOMAIN ps : Before(ps, r, k, i)}
<1>1. DOMAIN ps = 1..Len(ps) /\ Len(ps) \in Nat
    BY DEF Registered
<1>2. IsFiniteSet(DOMAIN ps) /\ Cardinality(DOMAIN ps) = Len(ps)
    <2>1. 1 \in Int /\ Len(ps) \in Int
        BY <1>1
    <2>2. /\ IsFiniteSet(1..Len(ps))
          /\ Cardinality(1..Len(ps)) = IF 1 > Len(ps) THEN 0 ELSE Len(ps) - 1 + 1
        BY <2>1, FS_Interval
    <2> QED BY <1>1, <2>2
<1>3. ASSUME NEW i \in DOMAIN ps
      PROVE  /\ i \notin Below(i)
             /\ \A k \in DOMAIN ps : Before(ps, r, k, i) => Below(k) \subseteq Below(i)
    <2>1. i \notin Below(i)
        BY BeforeIsOrder
    <2>2. ASSUME NEW k \in DOMAIN ps, Before(ps, r, k, i), NEW l \in Below(k) PROVE l \in Below(i)
        BY <2>2, BeforeIsOrder
    <2> QED BY <2>1, <2>2
<1>4. ASSUME NEW i \in DOMAIN ps
      PROVE  /\ IsFiniteSet(Below(i)) /\ Cardinality(Below(i)) \in Nat
             /\ Place(ps, r, i) = Cardinality(Below(i)) + 1
    <2>1. IsFiniteSet(Below(i))
        BY <1>2, FS_Subset
    <2> QED BY <2>1, FS_CardinalityType DEF Place
<1>5. \A i \in DOMAIN ps : Below(i) \subseteq DOMAIN ps
    OBVIOUS
<1>6. \A i, k \in DOMAIN ps : Before(ps, r, i, k) => i \in Below(k)
    OBVIOUS
<1> HIDE DEF Below
<1>7. Place(ps, r, j) \in DOMAIN ps
    <2>1. Below(j) \in SUBSET (DOMAIN ps) /\ Below(j) # DOMAIN ps
        BY <1>3, <1>5
    <2>2. Cardinality(Below(j)) <= Len(ps) /\ Cardinality(Below(j)) # Len(ps)
        BY <1>2, <2>1, FS_Subset
    <2> QED BY <1>1, <1>4, <2>2
<1>8. ASSUME NEW i \in DOMAIN ps, Before(ps, r, i, j)
      PROVE  Place(ps, r, i) < Place(ps, r, j)
    <2>1. Below(i) \in SUBSET Below(j) /\ Below(i) # Below(j)
        BY <1>3, <1>6, <1>8
    <2>2. Cardinality(Below(i)) <= Cardinality(Below(j)) /\ Cardinality(Below(i)) # Cardinality(Below(j))
        BY <1>4, <2>1, FS_Subset
    <2> QED BY <1>4, <2>2
<1> QED BY <1>7, <1>8

\* The promise of orderPlugins: every plugin has one place, after all that it
\* depends on, and of plugins that depend on the same the one with the lower
\* priority comes first.
THEOREM OrderIsRight ==
    ASSUME NEW ps, Registered(ps), Orderable(ps)
    PROVE  LET order == OrderPlugins(ps) IN
           /\ \A n \in DOMAIN ps : \E i \in DOMAIN ps : order[n] = ps[i]
           /\ \A i \in DOMAIN ps : \E n \in DOMAIN ps : order[n] = ps[i]
           /\ \A m, n \in DOMAIN ps : order[m].name = order[n].name => m = n
           /\ \A n \in DOMAIN ps : \A d \in order[n].dependencies :
                \E m \in DOMAIN ps : m < n /\ order[m].name = d
           /\ \A m, n \in DOMAIN ps :
                m < n /\ order[m].dependencies = order[n].dependencies =>
                    order[m].priority <= order[n].priority
<1> DEFINE r == Rounds(ps)
           P(i) == Place(ps, r, i)
           order == OrderPlugins(ps)
           At(n) == CHOOSE i \in DOMAIN ps : P(i) = n
<1>1. DOMAIN ps = 1..Len(ps) /\ Len(ps) \in Nat
    BY DEF Registered
<1>2. IsFiniteSet(DOMAIN ps) /\ Cardinality(DOMAIN ps) = Len(ps)
    <2>1. 1 \in Int /\ Len(ps) \in Int
        BY <1>1
    <2>2. /\ IsFiniteSet(1..Len(ps))
          /\ Cardinality(1..Len(ps)) = IF 1 > Len(ps) THEN 0 ELSE Len(ps) - 1 + 1
        BY <2>1, FS_Interval
    <2> QED BY <1>1, <2>2
<1>3. ASSUME NEW i \in DOMAIN ps
      PROVE  P(i) \in DOMAIN ps /\ P(i) \in Int
    BY <1>1, PlacesInOrder
<1>4. ASSUME NEW i \in DOMAIN ps, NEW j \in DOMAIN ps, P(i) = P(j)
      PROVE  i = j
    <2>1. i # j => Before(ps, r, i, j) \/ Before(ps, r, j, i)
        BY BeforeIsOrder
    <2>2. ~Before(ps, r, i, j) /\ ~Before(ps, r, j, i)
        <3>1. /\ Before(ps, r, i, j) => P(i) < P(j)
              /\ Before(ps, r, j, i) => P(j) < P(i)
            BY PlacesInOrder
        <3> QED BY <1>3, <1>4, <3>1
    <2> QED BY <2>1, <2>2
<1>5. ASSUME NEW i \in DOMAIN ps, NEW d \in ps[i].dependencies
      PROVE  \E j \in DOMAIN ps : P(j) < P(i) /\ ps[j].name = d
    <2> DEFINE T == {n \in Nat : n <= Len(ps) /\ i \in r[n]}
    <2>0. /\ r[0] = {} /\ DOMAIN r = 0..Len(ps)
          /\ \A n \in 1..Len(ps) : r[n] = Ready(ps, r[n - 1])
        BY RoundsGrow
    <2>1. PICK n \in T : \A k \in T : n <= k
        <3>1. Len(ps) \in T
            BY <1>1 DEF Orderable
        <3>2. T \subseteq Nat /\ T # {}
            BY <3>1
        <3> HIDE DEF T
        <3> QED BY <3>2, Least
    <2>2. n \in 1..Len(ps) /\ i \in r[n]
        BY <1>1, <2>0, <2>1
    <2>3. PICK p \in 0..Len(ps) : p + 1 = n
        BY <1>1, <2>2
    <2>4. n - 1 = p
        BY <2>2, <2>3
    <2>5. i \in Ready(ps, r[p])
        BY <2>0, <2>2, <2>4
    <2>6. PICK j \in r[p] : ps[j].name = d
        BY <2>5 DEF Ready
    <2>7. i \notin r[p]
        BY <2>1, <2>3
    <2>8. j \in DOMAIN ps
        <3>1. p # 0
            BY <2>0, <2>6
        <3>2. p \in 1..Len(ps)
            BY <2>3, <3>1
        <3> QED BY <2>0, <2>6, <3>2 DEF Ready
    <2>9. Before(ps, r, j, i)
        BY <2>0, <2>3, <2>6, <2>7 DEF Before, Earlier
    <2> QED BY <2>6, <2>8, <2>9, PlacesInOrder
<1>6. ASSUME NEW i \in DOMAIN ps, NEW j \in DOMAIN ps, ps[i].name = ps[j].name
      PROVE  i = j
    <2> DEFINE f == [k \in DOMAIN ps |-> ps[k].name]
    <2>1. f \in Surjection(DOMAIN ps, Names(ps))
        BY DEF Surjection, Names
    <2>2. Cardinality(Names(ps)) = Cardinality(DOMAIN ps)
        BY <1>2 DEF Orderable
    <2> HIDE DEF f
    <2>3. f \in Injection(DOMAIN ps, Names(ps))
        BY <1>2, <2>1, <2>2, FS_Surjection
    <2>4. \A a, b \in DOMAIN ps : f[a] = f[b] => a = b
        BY <2>3 DEF Injection, IsInjective
    <2> QED BY <1>6, <2>4 DEF f
<1>6a. ASSUME NEW i \in DOMAIN ps, NEW j \in DOMAIN ps, P(i) < P(j),
              ps[i].dependencies = ps[j].dependencies
       PROVE  ps[i].priority <= ps[j].priority
    <2>1. i # j => Before(ps, r, i, j) \/ Before(ps, r, j, i)
        BY BeforeIsOrder
    <2>2. Before(ps, r, j, i) => P(j) < P(i)
        BY PlacesInOrder
    <2>3. Before(ps, r, i, j)
        BY <1>3, <1>6a, <2>1, <2>2
    <2>4. ~Earlier(r, i, j)
        <3>1. /\ DOMAIN r = 0..Len(ps) /\ r[0] = {}
              /\ \A n \in 1..Len(ps) : r[n] = Ready(ps, r[n - 1])
            BY RoundsGrow
        <3>2. ASSUME NEW n \in 0..Len(ps) PROVE i \in r[n] <=> j \in r[n]
            <4>1. CASE n = 0
                BY <3>1, <4>1
            <4>2. CASE n # 0
                <5>1. r[n] = Ready(ps, r[n - 1])
                    BY <1>1, <3>1, <4>2
                <5> HIDE DEF r
                <5> QED BY <1>6a, <5>1 DEF Ready
            <4> QED BY <4>1, <4>2
        <3> QED BY <3>1, <3>2 DEF Earlier
    <2>5. Outranks(ps, i, j)
        BY <2>3, <2>4 DEF Before
    <2>6. ps[i].priority \in Int /\ ps[j].priority \in Int
        BY DEF Registered
    <2> QED BY <2>5, <2>6 DEF Outranks
<1>7. order = [n \in DOMAIN ps |-> ps[At(n)]]
    BY DEF OrderPlugins
<1> DEFINE f == [i \in DOMAIN ps |-> P(i)]
<1>8. f \in Injection(DOMAIN ps, DOMAIN ps)
    BY <1>3, <1>4 DEF Injection, IsInjective
<1> HIDE DEF P, order, r
<1>9. f \in Surjection(DOMAIN ps, DOMAIN ps)
    <2> HIDE DEF f
    <2> QED BY <1>2, <1>8, FS_Injection
<1>10. ASSUME NEW n \in DOMAIN ps
       PROVE  At(n) \in DOMAIN ps /\ P(At(n)) = n
    <2>1. \E i \in DOMAIN ps : f[i] = n
        BY <1>9 DEF Surjection
    <2> QED BY <2>1
<1> HIDE DEF At, f
<1>11. ASSUME NEW n \in DOMAIN ps
       PROVE  order[n] = ps[At(n)]
    BY <1>7
<1>12. ASSUME NEW i \in DOMAIN ps
       PROVE  At(P(i)) = i
    BY <1>3, <1>4, <1>10
<1>13. \A n \in DOMAIN ps : \E i \in DOMAIN ps : order[n] = ps[i]
    BY <1>10, <1>11
<1>14. \A i \in DOMAIN ps : \E n \in DOMAIN ps : order[n] = ps[i]
    BY <1>3, <1>11, <1>12
<1>15. ASSUME NEW m \in DOMAIN ps, NEW n \in DOMAIN ps, order[m].name = order[n].name
       PROVE  m = n
    <2>1. At(m) = At(n)
        BY <1>6, <1>10, <1>11, <1>15
    <2> QED BY <1>10, <2>1
<1>16. ASSUME NEW n \in DOMAIN ps, NEW d \in order[n].dependencies
       PROVE  \E m \in DOMAIN ps : m < n /\ order[m].name = d
    <2>1. At(n) \in DOMAIN ps /\ P(At(n)) = n /\ d \in ps[At(n)].dependencies
        BY <1>10, <1>11, <1>16
    <2>2. PICK j \in DOMAIN ps : P(j) < n /\ ps[j].name = d
        BY <1>5, <2>1
    <2>3. P(j) \in DOMAIN ps /\ order[P(j)].name = d
        BY <1>3, <1>11, <1>12, <2>2
    <2> QED BY <2>2, <2>3
<1>17. ASSUME NEW m \in DOMAIN ps, NEW n \in DOMAIN ps, m < n,
              order[m].dependencies = order[n].dependencies
       PROVE  order[m].priority <= order[n].priority
    BY <1>10, <1>11, <1>6a, <1>17
<1> QED BY <1>13, <1>14, <1>15, <1>16, <1>17 DEF order
-----------------------------------------------------------------------------
(* The plugins *)

\* No plugin is installed that cannot be ordered, those that are not installed
\* have no instance, none is disposed before destroy(), and then the later
\* ones first.
PluginsInv ==
    /\ plugins \in Registrations
    /\ installed \in 0..Len(plugins)
    /\ instance \in [Names(plugins) -> {"none", "live", "released", "broken"}]
    /\ ~Orderable(plugins) =>
        installed = 0 /\ \A name \in Names(plugins) : instance[name] = "none"
    /\ phase \in {"building", "failed", "open"} =>
        \A name \in Names(plugins) : instance[name] \in {"none", "live"}
    /\ Orderable(plugins) =>
        /\ \A n \in DOMAIN plugins : n > installed => instance[Ordered[n].name] = "none"
        /\ \A m, n \in DOMAIN plugins :
            m < n /\ instance[Ordered[m].name] \in {"released", "broken"} =>
                instance[Ordered[n].name] # "live"

\* The registrations are as the builder keeps them.
LEMMA PluginsRegistered ==
    ASSUME plugins \in Registrations
    PROVE  Registered(plugins)
BY RegistrationsAssumption DEF Registered

\* What the order of the plugins is relied on for.
LEMMA OrderedIsRight ==
    ASSUME plugins \in Registrations, Orderable(plugins)
    PROVE  /\ DOMAIN plugins = 1..Len(plugins) /\ Len(plugins) \in Nat
           /\ \A n \in DOMAIN plugins : Ordered[n].name \in Names(plugins)
           /\ \A i \in DOMAIN plugins : \E n \in DOMAIN plugins : Ordered[n] = plugins[i]
           /\ \A m, n \in DOMAIN plugins : Ordered[m].name = Ordered[n].name => m = n
           /\ \A n \in DOMAIN plugins : \A d \in Ordered[n].dependencies :
                \E m \in DOMAIN plugins : m < n /\ Ordered[m].name = d
<1>1. Registered(plugins)
    BY PluginsRegistered
<1>2. /\ \A n \in DOMAIN plugins : \E i \in DOMAIN plugins : Ordered[n] = plugins[i]
      /\ \A i \in DOMAIN plugins : \E n \in DOMAIN plugins : Ordered[n] = plugins[i]
      /\ \A m, n \in DOMAIN plugins : Ordered[m].name = Ordered[n].name => m = n
      /\ \A n \in DOMAIN plugins : \A d \in Ordered[n].dependencies :
            \E m \in DOMAIN plugins : m < n /\ Ordered[m].name = d
    <2> DEFINE order == OrderPlugins(plugins)
    <2>1. /\ \A n \in DOMAIN plugins : \E i \in DOMAIN plugins : order[n] = plugins[i]
          /\ \A i \in DOMAIN plugins : \E n \in DOMAIN plugins : order[n] = plugins[i]
          /\ \A m, n \in DOMAIN plugins : order[m].name = order[n].name => m = n
          /\ \A n \in DOMAIN plugins : \A d \in order[n].dependencies :
                \E m \in DOMAIN plugins : m < n /\ order[m].name = d
        BY <1>1, OrderIsRight
    <2>2. Ordered = order
        BY DEF Ordered
    <2> HIDE DEF order
    <2> QED BY <2>1, <2>2
<1>3. ASSUME NEW n \in DOMAIN plugins PROVE Ordered[n].name \in Names(plugins)
    <2>1. PICK i \in DOMAIN plugins : Ordered[n] = plugins[i]
        BY <1>2
    <2> QED BY <2>1 DEF Names
<1> QED BY <1>1, <1>2, <1>3 DEF Registered

\* The order of the plugins is that of the registrations, which stay.
LEMMA SameOrder ==
    ASSUME plugins' = plugins
    PROVE  /\ Orderable(plugins)' <=> Orderable(plugins)
           /\ Ordered' = Ordered /\ Names(plugins)' = Names(plugins)
BY DEF Orderable, Ordered, OrderPlugins, Names, Rounds, Place, Before, Outranks, Earlier, Ready

\* A plugin whose setup returns has the next place.
LEMMA SetUpKeeps ==
    ASSUME PluginsInv, SetUp, phase = "building", phase' = phase
    PROVE  PluginsInv'
<1>1. /\ Orderable(plugins) /\ installed < Len(plugins) /\ installed' = installed + 1
      /\ plugins' = plugins
    BY DEF SetUp
<1> DEFINE x == Ordered[installed + 1].name
<1>2. PICK made \in {"none", "live"} : instance' = [instance EXCEPT ![x] = made]
    BY DEF SetUp
<1>3. /\ DOMAIN plugins = 1..Len(plugins) /\ Len(plugins) \in Nat
      /\ \A n \in DOMAIN plugins : Ordered[n].name \in Names(plugins)
      /\ \A m, n \in DOMAIN plugins : Ordered[m].name = Ordered[n].name => m = n
    BY <1>1, OrderedIsRight DEF PluginsInv
<1>4. /\ plugins \in Registrations /\ installed \in 0..Len(plugins)
      /\ instance \in [Names(plugins) -> {"none", "live", "released", "broken"}]
      /\ \A name \in Names(plugins) : instance[name] \in {"none", "live"}
      /\ \A n \in DOMAIN plugins : n > installed => instance[Ordered[n].name] = "none"
    BY <1>1 DEF PluginsInv
<1>5. Orderable(plugins)' /\ Ordered' = Ordered
    BY <1>1, SameOrder
<1> HIDE DEF x
<1>6. /\ instance' \in [Names(plugins) -> {"none", "live", "released", "broken"}]
      /\ \A name \in Names(plugins) : instance'[name] \in {"none", "live"}
      /\ \A name \in Names(plugins) : name # x => instance'[name] = instance[name]
    BY <1>2, <1>4
<1>7. ASSUME NEW n \in DOMAIN plugins, n > installed + 1
      PROVE  instance'[Ordered[n].name] = "none"
    <2>1. PICK k \in DOMAIN plugins : k = installed + 1
        BY <1>1, <1>3, <1>4
    <2>2. n # k /\ n > installed
        BY <1>3, <1>4, <1>7, <2>1
    <2>3. Ordered[n].name # x
        BY <1>3, <2>1, <2>2 DEF x
    <2> QED BY <1>3, <1>4, <1>6, <2>2, <2>3
<1>8. installed' \in 0..Len(plugins)
    BY <1>1, <1>3, <1>4
<1>9. \A n \in DOMAIN plugins : instance'[Ordered[n].name] \in {"none", "live"}
    BY <1>3, <1>6
<1>10. Names(plugins)' = Names(plugins)
    BY <1>1 DEF Names
<1> QED BY <1>1, <1>4, <1>5, <1>6, <1>7, <1>8, <1>9, <1>10 DEF PluginsInv

\* The instance that is disposed is the last one there is.
LEMMA DisposeKeeps ==
    ASSUME PluginsInv, NEW outcome \in {"released", "broken"}, DisposeLast(outcome),
           phase' \notin {"building", "failed", "open"}
    PROVE  PluginsInv'
<1> DEFINE last == CHOOSE n \in Undisposed : \A other \in Undisposed : other <= n
           x == Ordered[last].name
<1>1. /\ Undisposed # {} /\ instance' = [instance EXCEPT ![x] = outcome]
      /\ plugins' = plugins /\ installed' = installed
    BY DEF DisposeLast
<1>2. installed \in Nat /\ installed # 0 /\ plugins \in Registrations /\ Orderable(plugins)
    <2>1. installed # 0 /\ plugins \in Registrations
        BY <1>1 DEF Undisposed, PluginsInv
    <2> QED BY <2>1 DEF PluginsInv
<1>3. /\ DOMAIN plugins = 1..Len(plugins) /\ Len(plugins) \in Nat
      /\ \A n \in DOMAIN plugins : Ordered[n].name \in Names(plugins)
      /\ \A m, n \in DOMAIN plugins : Ordered[m].name = Ordered[n].name => m = n
    BY <1>2, OrderedIsRight
<1>4. /\ installed <= Len(plugins)
      /\ instance \in [Names(plugins) -> {"none", "live", "released", "broken"}]
      /\ \A n \in DOMAIN plugins : n > installed => instance[Ordered[n].name] = "none"
      /\ \A m, n \in DOMAIN plugins :
            m < n /\ instance[Ordered[m].name] \in {"released", "broken"} =>
                instance[Ordered[n].name] # "live"
    BY <1>2 DEF PluginsInv
<1>5. \E n \in Undisposed : \A other \in Undisposed : other <= n
    <2> DEFINE T == {k \in 0..installed : installed - k \in Undisposed}
    <2>1. T \subseteq Nat /\ T # {}
        <3>1. PICK n \in 1..installed : n \in Undisposed
            BY <1>1 DEF Undisposed
        <3>2. PICK k \in 0..installed : installed - k = n
            <4>1. installed - n \in 0..installed /\ installed - (installed - n) = n
                BY <1>2
            <4> QED BY <4>1
        <3>3. k \in T
            BY <3>1, <3>2
        <3>4. 0..installed \subseteq Nat
            BY <1>2
        <3> QED BY <3>3, <3>4
    <2> HIDE DEF T
    <2>2. PICK k \in T : \A y \in T : k <= y
        BY <2>1, Least
    <2>3. k \in 0..installed /\ installed - k \in Undisposed
        BY <2>2 DEF T
    <2>4. ASSUME NEW other \in Undisposed PROVE other <= installed - k
        <3>1. other \in 1..installed
            BY DEF Undisposed
        <3>2. installed - other \in 0..installed /\ installed - (installed - other) = other
            BY <1>2, <3>1
        <3>3. k <= installed - other
            BY <2>2, <3>2 DEF T
        <3> QED BY <1>2, <2>3, <3>1, <3>3
    <2> QED BY <2>3, <2>4
<1>6. last \in Undisposed /\ \A other \in Undisposed : other <= last
    BY <1>5
<1> HIDE DEF last
<1>7. last \in 1..installed /\ last \in DOMAIN plugins
    BY <1>2, <1>3, <1>4, <1>6 DEF Undisposed
<1>8. x \in Names(plugins)
    BY <1>3, <1>7
<1>9. Orderable(plugins)' /\ Ordered' = Ordered /\ Names(plugins)' = Names(plugins)
    BY <1>1, <1>2, SameOrder
<1>10. \A n \in DOMAIN plugins : n # last => Ordered[n].name # x
    BY <1>3, <1>7
<1> HIDE DEF x
<1>11. /\ instance' \in [Names(plugins) -> {"none", "live", "released", "broken"}]
       /\ instance'[x] = outcome
       /\ \A name \in Names(plugins) : name # x => instance'[name] = instance[name]
    BY <1>1, <1>4, <1>8
<1>12. ASSUME NEW n \in DOMAIN plugins, n > installed
       PROVE  instance'[Ordered[n].name] = "none"
    <2>1. n # last
        BY <1>2, <1>7, <1>12
    <2> QED BY <1>3, <1>4, <1>10, <1>11, <1>12, <2>1
<1>13. ASSUME NEW m \in DOMAIN plugins, NEW n \in DOMAIN plugins, m < n,
              instance'[Ordered[m].name] \in {"released", "broken"},
              instance'[Ordered[n].name] = "live"
       PROVE  FALSE
    <2>1. n # last
        BY <1>11, <1>13 DEF x
    <2>2. instance[Ordered[n].name] = "live"
        BY <1>3, <1>10, <1>11, <1>13, <2>1
    <2>3. CASE m = last
        <3>1. n \in 1..installed
            BY <1>2, <1>3, <1>4, <2>2
        <3>2. n \in Undisposed
            BY <2>2, <3>1 DEF Undisposed
        <3> QED BY <1>6, <1>7, <1>13, <2>3, <3>1, <3>2
    <2>4. CASE m # last
        <3>1. instance[Ordered[m].name] \in {"released", "broken"}
            BY <1>3, <1>10, <1>11, <1>13, <2>4
        <3> QED BY <1>4, <1>13, <2>2, <3>1
    <2> QED BY <2>3, <2>4
<1> QED BY <1>1, <1>2, <1>4, <1>9, <1>11, <1>12, <1>13 DEF PluginsInv

\* Plugins are set up by build() and disposed by destroy().
LEMMA PluginsStep == PluginsInv /\ [Next]_vars => PluginsInv'
<1> SUFFICES ASSUME PluginsInv, [Next]_vars PROVE PluginsInv'
    OBVIOUS
<1>1. ASSUME UNCHANGED pluginVars,
             phase' = phase \/ phase' \notin {"building", "failed", "open"}
                            \/ phase = "building"
      PROVE  PluginsInv'
    <2>1. plugins' = plugins /\ installed' = installed /\ instance' = instance
        BY <1>1 DEF pluginVars
    <2>2. /\ Orderable(plugins)' <=> Orderable(plugins)
          /\ Ordered' = Ordered /\ Names(plugins)' = Names(plugins)
        BY <2>1, SameOrder
    <2> QED BY <1>1, <2>1, <2>2 DEF PluginsInv
<1>2. CASE UNCHANGED vars
    BY <1>1, <1>2 DEF vars, clientVars
<1>3. CASE PluginIsSetUp
    BY <1>3, SetUpKeeps DEF PluginIsSetUp, clientVars
<1>4. CASE BuildFails \/ Built \/ Destroy \/ Destroyed
    BY <1>1, <1>4 DEF BuildFails, Built, Destroy, Destroyed
<1>5. ASSUME NEW s \in Users, Subscribe(s) \/ Unsubscribe(s)
      PROVE  PluginsInv'
    BY <1>1, <1>5 DEF Subscribe, Unsubscribe, clientVars
<1>6. CASE HandlerDone \/ AnnounceRetry \/ \E t \in Types : Announce(t)
    BY <1>1, <1>6 DEF HandlerDone, AnnounceRetry, Announce
<1>7. ASSUME NEW c \in Calls, StartCall(c) \/ CallSettles(c) \/ CallReturns(c)
      PROVE  PluginsInv'
    BY <1>1, <1>7 DEF StartCall, CallSettles, CallReturns
<1>8. CASE InstanceReleased
    BY <1>8, DisposeKeeps DEF InstanceReleased, clientVars
<1>9. CASE DisposeFails
    BY <1>9, DisposeKeeps DEF DisposeFails
<1> QED BY <1>2, <1>3, <1>4, <1>5, <1>6, <1>7, <1>8, <1>9 DEF Next

\* The builder starts with registrations and no instance.
LEMMA PluginsStart == Init => PluginsInv
<1> SUFFICES ASSUME Init PROVE PluginsInv
    OBVIOUS
<1>1. /\ plugins \in Registrations /\ installed = 0
      /\ instance = [name \in Names(plugins) |-> "none"]
    BY DEF Init, PluginsInit
<1>2. Len(plugins) \in Nat
    BY <1>1, PluginsRegistered DEF Registered
<1>3. Orderable(plugins) => \A n \in DOMAIN plugins : Ordered[n].name \in Names(plugins)
    BY <1>1, OrderedIsRight
<1> QED BY <1>1, <1>2, <1>3 DEF PluginsInv

\* A plugin's dependencies are there before its own instance and are disposed
\* after it, wherever an installation or a disposal stops.
THEOREM DependenciesOutlive == Spec => []DependenciesLive
<1>1. ASSUME PluginsInv PROVE DependenciesLive
    <2>1. ASSUME NEW i \in DOMAIN plugins, instance[plugins[i].name] = "live",
                 NEW d \in plugins[i].dependencies
          PROVE  /\ \E n \in 1..installed : Ordered[n].name = d
                 /\ instance[d] \notin {"released", "broken"}
        <3>1. plugins \in Registrations /\ Orderable(plugins)
            BY <1>1, <2>1 DEF PluginsInv, Names
        <3>2. /\ DOMAIN plugins = 1..Len(plugins) /\ Len(plugins) \in Nat
              /\ \A k \in DOMAIN plugins : \E n \in DOMAIN plugins : Ordered[n] = plugins[k]
              /\ \A n \in DOMAIN plugins : \A e \in Ordered[n].dependencies :
                    \E m \in DOMAIN plugins : m < n /\ Ordered[m].name = e
            BY <3>1, OrderedIsRight
        <3>3. PICK n \in DOMAIN plugins : Ordered[n] = plugins[i]
            BY <3>2
        <3>4. PICK m \in DOMAIN plugins : m < n /\ Ordered[m].name = d
            BY <2>1, <3>2, <3>3
        <3>5. /\ installed \in 0..Len(plugins)
              /\ n > installed => instance[Ordered[n].name] = "none"
              /\ instance[Ordered[m].name] \in {"released", "broken"} =>
                    instance[Ordered[n].name] # "live"
            BY <1>1, <3>1, <3>4 DEF PluginsInv
        <3>6. m \in 1..installed
            <4>1. ~(n > installed)
                BY <2>1, <3>3, <3>5
            <4>2. m \in 1..Len(plugins) /\ n \in 1..Len(plugins)
                BY <3>2
            <4> QED BY <3>2, <3>4, <3>5, <4>1, <4>2
        <3> QED BY <2>1, <3>3, <3>4, <3>5, <3>6
    <2> QED BY <2>1 DEF DependenciesLive
<1> QED BY <1>1, PluginsStart, PluginsStep, PTL DEF Spec
=============================================================================
