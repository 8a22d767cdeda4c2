--------------------------- MODULE BulkheadProofs ---------------------------
(***************************************************************************)
(* Proofs about Bulkhead for every set of calls and keys and every         *)
(* configuration that normalizeOptions accepts.                            *)
(***************************************************************************)
EXTENDS Bulkhead, FiniteSetTheorems, SequenceTheorems, TLAPS

-----------------------------------------------------------------------------
(* Sequences: what removing one place, or the first one, leaves.           *)

\* Removing place i leaves the other elements, in order.
LEMMA WithoutElements ==
    ASSUME NEW S, NEW q \in Seq(S), NEW i \in DOMAIN q
    PROVE  /\ Without(q, i) \in Seq(S)
           /\ Len(Without(q, i)) = Len(q) - 1
           /\ \A j \in 1..(Len(q) - 1) :
                Without(q, i)[j] = IF j < i THEN q[j] ELSE q[j + 1]
<1>1. Len(q) \in Nat /\ i \in 1..Len(q)
  OBVIOUS
<1>2. PICK front : front = SubSeq(q, 1, i - 1)
  OBVIOUS
<1>3. PICK back : back = SubSeq(q, i + 1, Len(q))
  OBVIOUS
<1>4. /\ front \in Seq(S)
      /\ Len(front) = i - 1
      /\ \A j \in 1..(i - 1) : front[j] = q[j]
  BY <1>2
<1>5. /\ back \in Seq(S)
      /\ Len(back) = Len(q) - i
      /\ \A j \in 1..(Len(q) - i) : back[j] = q[j + i]
  BY <1>3
<1>6. PICK r : r = front \o back
  OBVIOUS
<1>7. /\ r \in Seq(S)
      /\ Len(r) = Len(q) - 1
      /\ \A j \in 1..(Len(q) - 1) :
            r[j] = IF j <= i - 1 THEN front[j] ELSE back[j - (i - 1)]
  <2>1. /\ r \in Seq(S)
        /\ Len(r) = Len(front) + Len(back)
        /\ \A j \in 1..(Len(front) + Len(back)) :
              r[j] = IF j <= Len(front) THEN front[j] ELSE back[j - Len(front)]
    BY <1>4, <1>5, <1>6, ConcatProperties
  <2>2. Len(front) = i - 1 /\ Len(front) + Len(back) = Len(q) - 1
    BY <1>1, <1>4, <1>5
  <2>. QED  BY <2>1, <2>2
<1>8. ASSUME NEW j \in 1..(Len(q) - 1)
      PROVE  r[j] = IF j < i THEN q[j] ELSE q[j + 1]
  <2>1. CASE j < i
    BY <2>1, <1>1, <1>4, <1>7
  <2>2. CASE ~(j < i)
    <3>1. /\ j - (i - 1) \in 1..(Len(q) - i)
          /\ (j - (i - 1)) + i = j + 1
          /\ ~(j <= i - 1)
      BY <2>2, <1>1
    <3>. QED  BY <2>2, <3>1, <1>5, <1>7
  <2>. QED  BY <2>1, <2>2
<1>. QED  BY <1>2, <1>3, <1>6, <1>7, <1>8 DEF Without

\* The tail of a queue: its elements move up by one place.
LEMMA TailElements ==
    ASSUME NEW S, NEW q \in Seq(S), q # <<>>
    PROVE  /\ 1 \in DOMAIN q
           /\ SubSeq(q, 2, Len(q)) = Tail(q)
           /\ Tail(q) \in Seq(S)
           /\ Len(Tail(q)) = Len(q) - 1
           /\ \A j \in 1..(Len(q) - 1) : Tail(q)[j] = q[j + 1]
           /\ Head(q) = q[1] /\ q[1] \in S
<1>1. Len(q) \in Nat \ {0} /\ DOMAIN q = 1..Len(q)
  BY EmptySeq, LenProperties
<1>2. SubSeq(q, 2, Len(q)) = Tail(q)
  BY TailIsSubSeq
<1>. QED  BY <1>1, <1>2, HeadTailProperties

-----------------------------------------------------------------------------
(* Types *)

\* The initial state is well formed.
LEMMA InitType == Init => TypeOK
  BY BulkheadAssumption DEF Init, TypeOK, Phases

\* Every step keeps the state well formed.
LEMMA NextType == TypeOK /\ [Next]_vars => TypeOK'
<1> SUFFICES ASSUME TypeOK, [Next]_vars PROVE TypeOK'
  OBVIOUS
<1> USE BulkheadAssumption DEF TypeOK, Phases
<1>1. ASSUME NEW c \in Calls, Admit(c) PROVE TypeOK'
  BY <1>1 DEF Admit
<1>2. ASSUME NEW c \in Calls, Enqueue(c) PROVE TypeOK'
  BY <1>2 DEF Enqueue
<1>3. ASSUME NEW c \in Calls, Reject(c) PROVE TypeOK'
  BY <1>3 DEF Reject
<1>4. ASSUME NEW c \in Calls, TimerFires(c) PROVE TypeOK'
  <2> DEFINE k == KeyOf[c]
  <2>1. PICK i \in DOMAIN queue[k] :
            queue' = [queue EXCEPT ![k] = Without(@, i)]
    BY <1>4 DEF TimerFires
  <2>2. Without(queue[k], i) \in Seq(Calls)
    BY WithoutElements
  <2>3. queue' \in [Keys -> Seq(Calls)]
    BY <2>1, <2>2
  <2>. QED  BY <1>4, <2>3 DEF TimerFires
<1>5. ASSUME NEW c \in Calls, Resume(c) PROVE TypeOK'
  BY <1>5 DEF Resume
<1>6. ASSUME NEW c \in Calls, ReleaseToWaiter(c) PROVE TypeOK'
  <2> DEFINE k == KeyOf[c]
             left == Decremented(active[k])
  <2>1. left \in Nat /\ left < MaxConcurrent
    BY <1>6 DEF ReleaseToWaiter, Decremented
  <2>2. PICK i \in DOMAIN queue[k] :
            /\ settled' = [settled EXCEPT ![queue[k][i]] = TRUE]
            /\ timer' = [timer EXCEPT ![queue[k][i]] = FALSE]
            /\ active' = [active EXCEPT ![k] = left + 1]
            /\ queue' = [queue EXCEPT ![k] = SubSeq(@, i + 1, Len(@))]
            /\ phase' = [phase EXCEPT ![c] = "idle", ![queue[k][i]] = "granted"]
    BY <1>6 DEF ReleaseToWaiter
  <2>3. SubSeq(queue[k], i + 1, Len(queue[k])) \in Seq(Calls)
    OBVIOUS
  <2>4. queue' \in [Keys -> Seq(Calls)]
    BY <2>2, <2>3
  <2>5. active' \in [Keys -> 0..MaxConcurrent]
    BY <2>1, <2>2
  <2>6. /\ phase' \in [Calls -> Phases]
        /\ settled' \in [Calls -> BOOLEAN]
        /\ timer' \in [Calls -> BOOLEAN]
    BY <2>2 DEF Phases
  <2>7. present' = present
    BY <1>6 DEF ReleaseToWaiter
  <2>. QED  BY <2>4, <2>5, <2>6, <2>7
<1>7. ASSUME NEW c \in Calls, ReleaseSlot(c) PROVE TypeOK'
  BY <1>7 DEF ReleaseSlot, Decremented
<1>8. ASSUME NEW c \in Calls, Return(c) PROVE TypeOK'
  BY <1>8 DEF Return
<1>9. CASE UNCHANGED vars
  BY <1>9 DEF vars
<1>. QED
  BY <1>1, <1>2, <1>3, <1>4, <1>5, <1>6, <1>7, <1>8, <1>9 DEF Next, Step

\* The state of the bulkhead is well formed: counters stay in range, the
\* queue holds calls only (acquire, #enqueue, #release).
THEOREM TypeCorrect == Spec => []TypeOK
  BY InitType, NextType, PTL DEF Spec

-----------------------------------------------------------------------------
(* The inductive invariant: slots, queue and entries are only consistent   *)
(* together.  That the counter is right needs the queue to hold only       *)
(* waiting calls, that a release finds a waiter first needs the queue to   *)
(* hold no settled request, and that an entry may be removed needs the     *)
(* counter to be right.                                                    *)

BulkheadInv ==
    /\ TypeOK
    /\ SlotsAccounted
    /\ QueueIsWaiters
    /\ NoIdleSlotWhileQueued
    /\ EntriesMatchUse

\* The holders of a key are finitely many, so they can be counted.
LEMMA HoldersFinite ==
    ASSUME NEW k
    PROVE  IsFiniteSet(Holders(k)) /\ Cardinality(Holders(k)) \in Nat
<1>1. Holders(k) \subseteq Calls
  BY DEF Holders
<1>. QED  BY <1>1, FS_Subset, FS_CardinalityType, BulkheadAssumption

\* A call that holds a slot is counted.
LEMMA HolderCounts ==
    ASSUME BulkheadInv, NEW c \in Calls, phase[c] \in {"granted", "running"}
    PROVE  active[KeyOf[c]] \in 1..MaxConcurrent /\ KeyOf[c] \in present
<1> DEFINE k == KeyOf[c]
<1>1. k \in Keys /\ c \in Holders(k)
  BY BulkheadAssumption DEF Holders
<1>2. Cardinality(Holders(k)) # 0
  BY <1>1, HoldersFinite, FS_EmptySet
<1>. QED
  BY <1>1, <1>2, HoldersFinite, BulkheadAssumption
  DEF BulkheadInv, TypeOK, SlotsAccounted, EntriesMatchUse

\* Queued requests are unsettled, so the first that waits is the head.
LEMMA NextWaiterIsHead ==
    ASSUME BulkheadInv, NEW k \in Keys, NEW i \in DOMAIN queue[k]
    PROVE  NextWaiter(k, i) <=> i = 1
<1>1. queue[k] \in Seq(Calls)
  BY DEF BulkheadInv, TypeOK
<1>2. DOMAIN queue[k] = 1..Len(queue[k]) /\ Len(queue[k]) \in Nat
  BY <1>1
<1>3. \A j \in DOMAIN queue[k] : ~settled[queue[k][j]]
  <2> TAKE j \in DOMAIN queue[k]
  <2>1. queue[k][j] \in Calls
    BY <1>1
  <2>2. phase[queue[k][j]] = "queued"
    BY DEF BulkheadInv, QueueIsWaiters
  <2>. QED  BY <2>1, <2>2 DEF BulkheadInv, QueueIsWaiters
<1>4. 1 \in DOMAIN queue[k] /\ \A j \in 1..(i - 1) : j \in DOMAIN queue[k]
  BY <1>2
<1>5. i # 1 => 1 \in 1..(i - 1)
  BY <1>2
<1>. QED  BY <1>2, <1>3, <1>4, <1>5 DEF NextWaiter

\* With the invariant, a release that finds a waiter gives the slot to the
\* head of the queue and leaves the counter as it is.
LEMMA ReleaseHandsOver ==
    ASSUME BulkheadInv, NEW c \in Calls, ReleaseToWaiter(c)
    PROVE  LET k == KeyOf[c]
               w == queue[k][1]
           IN  /\ phase[c] = "running"
               /\ queue[k] # <<>>
               /\ w \in Calls
               /\ settled' = [settled EXCEPT ![w] = TRUE]
               /\ timer' = [timer EXCEPT ![w] = FALSE]
               /\ active' = active
               /\ queue' = [queue EXCEPT ![k] = Tail(@)]
               /\ phase' = [phase EXCEPT ![c] = "idle", ![w] = "granted"]
               /\ present' = present
<1> DEFINE k == KeyOf[c]
           w == queue[k][1]
<1>1. k \in Keys /\ queue[k] \in Seq(Calls)
  BY BulkheadAssumption DEF BulkheadInv, TypeOK
<1>2. PICK i \in DOMAIN queue[k] :
          /\ NextWaiter(k, i)
          /\ settled' = [settled EXCEPT ![queue[k][i]] = TRUE]
          /\ timer' = [timer EXCEPT ![queue[k][i]] = FALSE]
          /\ active' = [active EXCEPT ![k] = Decremented(active[k]) + 1]
          /\ queue' = [queue EXCEPT ![k] = SubSeq(@, i + 1, Len(@))]
          /\ phase' = [phase EXCEPT ![c] = "idle", ![queue[k][i]] = "granted"]
  BY DEF ReleaseToWaiter
<1>3. i = 1
  BY <1>1, <1>2, NextWaiterIsHead
<1>4. queue[k] # <<>>
  BY <1>1, <1>2
<1>5. w \in Calls
  BY <1>1, <1>2, <1>3
<1>6. queue' = [queue EXCEPT ![k] = Tail(@)]
  <2>1. SubSeq(queue[k], 1 + 1, Len(queue[k])) = Tail(queue[k])
    BY <1>1, <1>4, TailElements
  <2>. QED  BY <1>2, <1>3, <2>1
<1>7. active' = active
  <2>1. active[k] \in 1..MaxConcurrent
    BY HolderCounts DEF ReleaseToWaiter
  <2>2. Decremented(active[k]) + 1 = active[k]
    BY <2>1, BulkheadAssumption DEF Decremented
  <2>. QED  BY <1>1, <1>2, <2>2 DEF BulkheadInv, TypeOK
<1>. QED  BY <1>2, <1>3, <1>4, <1>5, <1>6, <1>7 DEF ReleaseToWaiter

\* A release that finds no waiter finds an empty queue.
LEMMA ReleaseFrees ==
    ASSUME BulkheadInv, NEW c \in Calls, ReleaseSlot(c)
    PROVE  LET k == KeyOf[c]
           IN  /\ phase[c] = "running"
               /\ queue[k] = <<>>
               /\ active[k] \in 1..MaxConcurrent
               /\ active' = [active EXCEPT ![k] = @ - 1]
               /\ queue' = queue
               /\ present' = IF active[k] = 1 THEN present \ {k} ELSE present
               /\ phase' = [phase EXCEPT ![c] = "idle"]
               /\ settled' = settled /\ timer' = timer
<1> DEFINE k == KeyOf[c]
<1>1. k \in Keys /\ queue[k] \in Seq(Calls)
  BY BulkheadAssumption DEF BulkheadInv, TypeOK
<1>2. queue[k] = <<>>
  <2>1. SUFFICES ASSUME queue[k] # <<>> PROVE FALSE
    OBVIOUS
  <2>2. 1 \in DOMAIN queue[k]
    BY <1>1, <2>1, TailElements
  <2>3. NextWaiter(k, 1)
    BY <1>1, <2>2, NextWaiterIsHead
  <2>. QED  BY <2>2, <2>3 DEF ReleaseSlot
<1>3. active[k] \in 1..MaxConcurrent
  BY HolderCounts DEF ReleaseSlot
<1>4. Decremented(active[k]) = active[k] - 1 /\ (active[k] - 1 = 0 <=> active[k] = 1)
  BY <1>3, BulkheadAssumption DEF Decremented
<1>5. queue' = queue
  BY <1>1, <1>2 DEF ReleaseSlot, BulkheadInv, TypeOK
<1>. QED  BY <1>2, <1>3, <1>4, <1>5 DEF ReleaseSlot

-----------------------------------------------------------------------------
(* One lemma per part of the invariant. *)

\* The invariant holds initially.
LEMMA InitInv == Init => BulkheadInv
<1> SUFFICES ASSUME Init PROVE BulkheadInv
  OBVIOUS
<1>1. TypeOK
  BY InitType
<1>2. \A k : Holders(k) = {}
  BY DEF Init, Holders
<1>3. SlotsAccounted /\ EntriesMatchUse
  <2>1. Cardinality({}) = 0
    BY FS_EmptySet
  <2>2. \A k \in Keys : Cardinality(Holders(k)) = 0
    <3> TAKE k \in Keys
    <3>1. Holders(k) = {}
      BY <1>2
    <3>. QED  BY <2>1, <3>1
  <2>. QED
    BY <1>2, <2>2, BulkheadAssumption DEF Init, SlotsAccounted, EntriesMatchUse
<1>4. QueueIsWaiters /\ NoIdleSlotWhileQueued
  BY BulkheadAssumption DEF Init, QueueIsWaiters, NoIdleSlotWhileQueued
<1>. QED  BY <1>1, <1>3, <1>4 DEF BulkheadInv

\* What each step does to the sets of holders.
LEMMA HoldersChange ==
    ASSUME BulkheadInv, NEW c \in Calls
    PROVE  LET k == KeyOf[c] IN
           /\ Admit(c) =>
                /\ c \notin Holders(k)
                /\ Holders(k)' = Holders(k) \cup {c}
                /\ \A j \in Keys : j # k => Holders(j)' = Holders(j)
           /\ Enqueue(c) \/ Reject(c) \/ TimerFires(c) \/ Resume(c) \/ Return(c) =>
                \A j \in Keys : Holders(j)' = Holders(j)
           /\ ReleaseToWaiter(c) =>
                /\ c \in Holders(k)
                /\ queue[k][1] \notin Holders(k)
                /\ Holders(k)' = (Holders(k) \ {c}) \cup {queue[k][1]}
                /\ \A j \in Keys : j # k => Holders(j)' = Holders(j)
           /\ ReleaseSlot(c) =>
                /\ c \in Holders(k)
                /\ Holders(k)' = Holders(k) \ {c}
                /\ \A j \in Keys : j # k => Holders(j)' = Holders(j)
<1> DEFINE k == KeyOf[c]
<1> USE DEF Holders
<1>1. phase \in [Calls -> Phases]
  BY DEF BulkheadInv, TypeOK
<1>2. ASSUME Admit(c)
      PROVE  /\ c \notin Holders(k)
             /\ Holders(k)' = Holders(k) \cup {c}
             /\ \A j \in Keys : j # k => Holders(j)' = Holders(j)
  BY <1>1, <1>2 DEF Admit
<1>3. ASSUME Enqueue(c) \/ Reject(c) \/ Resume(c) \/ Return(c), NEW j \in Keys
      PROVE  Holders(j)' = Holders(j)
  BY <1>1, <1>3 DEF Enqueue, Reject, Resume, Return
<1>4. ASSUME TimerFires(c), NEW j \in Keys
      PROVE  Holders(j)' = Holders(j)
  <2>1. phase[c] = "queued"
    BY <1>4 DEF TimerFires, BulkheadInv, QueueIsWaiters
  <2>. QED  BY <1>1, <1>4, <2>1 DEF TimerFires
<1>5. ASSUME ReleaseToWaiter(c)
      PROVE  /\ c \in Holders(k)
             /\ queue[k][1] \notin Holders(k)
             /\ Holders(k)' = (Holders(k) \ {c}) \cup {queue[k][1]}
             /\ \A j \in Keys : j # k => Holders(j)' = Holders(j)
  <2> DEFINE w == queue[k][1]
  <2>1. /\ phase[c] = "running" /\ w \in Calls
        /\ phase' = [phase EXCEPT ![c] = "idle", ![w] = "granted"]
        /\ queue[k] # <<>>
    BY <1>5, ReleaseHandsOver
  <2>2. k \in Keys /\ 1 \in DOMAIN queue[k]
    BY <2>1, TailElements, BulkheadAssumption DEF BulkheadInv, TypeOK
  <2>3. phase[w] = "queued" /\ KeyOf[w] = k
    BY <2>2 DEF BulkheadInv, QueueIsWaiters
  <2> HIDE DEF w
  <2>4. /\ c # w
        /\ phase'[w] = "granted" /\ phase'[c] = "idle"
        /\ \A d \in Calls : d # w /\ d # c => phase'[d] = phase[d]
    BY <1>1, <2>1, <2>3
  <2>5. c \in Holders(k) /\ w \notin Holders(k)
    BY <2>1, <2>3
  <2>6. Holders(k)' = (Holders(k) \ {c}) \cup {w}
    BY <2>1, <2>3, <2>4
  <2>7. \A j \in Keys : j # k => Holders(j)' = Holders(j)
    BY <2>1, <2>3, <2>4
  <2>. QED  BY <2>5, <2>6, <2>7 DEF w
<1>6. ASSUME ReleaseSlot(c)
      PROVE  /\ c \in Holders(k)
             /\ Holders(k)' = Holders(k) \ {c}
             /\ \A j \in Keys : j # k => Holders(j)' = Holders(j)
  BY <1>1, <1>6, ReleaseFrees
<1> HIDE DEF Holders
<1>. QED  BY <1>2, <1>3, <1>4, <1>5, <1>6

\* Every step keeps the counters equal to the number of holders, and an entry
\* for exactly the keys in use.
LEMMA NextSlots == BulkheadInv /\ [Next]_vars => SlotsAccounted' /\ EntriesMatchUse'
<1> SUFFICES ASSUME BulkheadInv, [Next]_vars
             PROVE  SlotsAccounted' /\ EntriesMatchUse'
  OBVIOUS
<1> DEFINE Count(k) ==
             /\ active[k] = Cardinality(Holders(k))
             /\ Cardinality(Holders(k)) <= MaxConcurrent
             /\ (k \in present <=> Holders(k) # {})
<1>1. /\ \A k \in Keys : Count(k)
      /\ active \in [Keys -> 0..MaxConcurrent]
      /\ present \subseteq Keys
      /\ MaxConcurrent \in Nat \ {0}
      /\ \A c \in Calls : KeyOf[c] \in Keys
  BY BulkheadAssumption DEF BulkheadInv, TypeOK, SlotsAccounted, EntriesMatchUse
<1>2. SUFFICES \A k \in Keys : Count(k)'
  BY DEF SlotsAccounted, EntriesMatchUse
<1>3. ASSUME NEW c \in Calls, Admit(c) PROVE \A j \in Keys : Count(j)'
  <2> DEFINE k == KeyOf[c]
  <2>1. /\ active' = [active EXCEPT ![k] = @ + 1] /\ active[k] < MaxConcurrent
        /\ present' = present \cup {k}
    BY <1>3 DEF Admit
  <2>2. c \notin Holders(k) /\ Holders(k)' = Holders(k) \cup {c}
    BY <1>3, HoldersChange
  <2>3. Cardinality(Holders(k)') = Cardinality(Holders(k)) + 1
    BY <2>2, HoldersFinite, FS_AddElement
  <2>4. Count(k)'
    BY <1>1, <2>1, <2>2, <2>3, HoldersFinite
  <2>5. ASSUME NEW j \in Keys, j # k PROVE Count(j)'
    BY <1>1, <1>3, <2>1, <2>5, HoldersChange
  <2>. QED  BY <2>4, <2>5
<1>4. ASSUME NEW c \in Calls, Enqueue(c) \/ Reject(c) PROVE \A j \in Keys : Count(j)'
  <2> DEFINE k == KeyOf[c]
  <2>1. active' = active /\ present' = present \cup {k} /\ active[k] >= MaxConcurrent
    BY <1>4 DEF Enqueue, Reject
  <2>2. Holders(k) # {}
    <3>1. active[k] = Cardinality(Holders(k)) /\ active[k] # 0
      BY <1>1, <2>1
    <3>. QED  BY <3>1, FS_EmptySet
  <2>3. \A j \in Keys : Holders(j)' = Holders(j)
    BY <1>4, HoldersChange
  <2>. SUFFICES ASSUME NEW j \in Keys PROVE Count(j)'
    OBVIOUS
  <2>4. j \in present' <=> Holders(j)' # {}
    BY <1>1, <2>1, <2>2, <2>3
  <2>. QED  BY <1>1, <2>1, <2>3, <2>4
<1>5. ASSUME NEW c \in Calls, TimerFires(c) \/ Resume(c) \/ Return(c)
      PROVE  \A j \in Keys : Count(j)'
  <2>1. active' = active /\ present' = present
    BY <1>5 DEF TimerFires, Resume, Return
  <2>. QED  BY <1>1, <1>5, <2>1, HoldersChange
<1>6. ASSUME NEW c \in Calls, ReleaseToWaiter(c) PROVE \A j \in Keys : Count(j)'
  <2> DEFINE k == KeyOf[c]
             w == queue[k][1]
  <2>1. active' = active /\ present' = present
    BY <1>6, ReleaseHandsOver
  <2>2. /\ c \in Holders(k) /\ w \notin Holders(k)
        /\ Holders(k)' = (Holders(k) \ {c}) \cup {w}
        /\ \A j \in Keys : j # k => Holders(j)' = Holders(j)
    BY <1>6, HoldersChange
  <2> HIDE DEF w
  <2>3. Cardinality(Holders(k)') = Cardinality(Holders(k))
    <3>1. /\ IsFiniteSet(Holders(k) \ {c})
          /\ Cardinality(Holders(k) \ {c}) = Cardinality(Holders(k)) - 1
      BY <2>2, HoldersFinite, FS_RemoveElement
    <3>2. w \notin Holders(k) \ {c}
      BY <2>2
    <3>3. Cardinality((Holders(k) \ {c}) \cup {w}) = Cardinality(Holders(k) \ {c}) + 1
      BY <3>1, <3>2, FS_AddElement
    <3>. QED  BY <2>2, <3>1, <3>3, HoldersFinite
  <2>. QED  BY <1>1, <2>1, <2>2, <2>3
<1>7. ASSUME NEW c \in Calls, ReleaseSlot(c) PROVE \A j \in Keys : Count(j)'
  <2> DEFINE k == KeyOf[c]
  <2>1. /\ active[k] \in 1..MaxConcurrent
        /\ active' = [active EXCEPT ![k] = @ - 1]
        /\ present' = IF active[k] = 1 THEN present \ {k} ELSE present
    BY <1>7, ReleaseFrees
  <2>2. c \in Holders(k) /\ Holders(k)' = Holders(k) \ {c}
    BY <1>7, HoldersChange
  <2>3. /\ IsFiniteSet(Holders(k)')
        /\ Cardinality(Holders(k)') = Cardinality(Holders(k)) - 1
    BY <2>2, HoldersFinite, FS_RemoveElement
  <2>4. Holders(k)' = {} <=> active[k] = 1
    BY <1>1, <2>3, FS_EmptySet, HoldersFinite
  <2>5. Count(k)'
    BY <1>1, <2>1, <2>2, <2>3, <2>4, HoldersFinite
  <2>6. ASSUME NEW j \in Keys, j # k PROVE Count(j)'
    BY <1>1, <1>7, <2>1, <2>6, HoldersChange
  <2>. QED  BY <2>5, <2>6
<1>8. CASE UNCHANGED vars
  BY <1>1, <1>8 DEF vars, Holders
<1>. QED
  BY <1>3, <1>4, <1>5, <1>6, <1>7, <1>8 DEF Next, Step

\* The queue of k and the phases of the calls, one key at a time.
QueueOf(k) ==
    /\ Len(queue[k]) <= MaxQueue
    /\ \A i, j \in DOMAIN queue[k] : queue[k][i] = queue[k][j] => i = j
    /\ \A i \in DOMAIN queue[k] :
        /\ KeyOf[queue[k][i]] = k
        /\ phase[queue[k][i]] = "queued"

WaiterOf(c) ==
    /\ phase[c] = "queued" =>
        /\ ~settled[c]
        /\ timer[c] = Timed
        /\ \E i \in DOMAIN queue[KeyOf[c]] : queue[KeyOf[c]][i] = c
    /\ timer[c] => phase[c] = "queued"

\* QueueIsWaiters, key by key and call by call.
LEMMA QueueParts ==
    QueueIsWaiters <=> (\A k \in Keys : QueueOf(k)) /\ (\A c \in Calls : WaiterOf(c))
  BY DEF QueueIsWaiters, QueueOf, WaiterOf

\* Every step keeps the queues equal to the waiting calls.
LEMMA NextQueue == BulkheadInv /\ [Next]_vars => QueueIsWaiters'
<1> SUFFICES ASSUME BulkheadInv, [Next]_vars
             PROVE  (\A k \in Keys : QueueOf(k)') /\ (\A d \in Calls : WaiterOf(d)')
  BY DEF QueueIsWaiters, QueueOf, WaiterOf
<1>1. /\ \A k \in Keys : QueueOf(k)
      /\ \A d \in Calls : WaiterOf(d)
      /\ queue \in [Keys -> Seq(Calls)]
      /\ phase \in [Calls -> Phases]
      /\ settled \in [Calls -> BOOLEAN]
      /\ timer \in [Calls -> BOOLEAN]
      /\ MaxQueue \in Nat /\ Timed \in BOOLEAN
      /\ \A d \in Calls : KeyOf[d] \in Keys
  BY QueueParts, BulkheadAssumption DEF BulkheadInv, TypeOK
<1>2. ASSUME NEW k \in Keys
      PROVE  /\ queue[k] \in Seq(Calls) /\ Len(queue[k]) \in Nat
             /\ DOMAIN queue[k] = 1..Len(queue[k])
             /\ \A i \in DOMAIN queue[k] : queue[k][i] \in Calls
  BY <1>1
\* A step of c that leaves the queues alone and moves c between phases other
\* than "queued".
<1>3. ASSUME NEW c \in Calls,
             Admit(c) \/ Reject(c) \/ Resume(c) \/ Return(c) \/ ReleaseSlot(c)
      PROVE  (\A k \in Keys : QueueOf(k)') /\ (\A d \in Calls : WaiterOf(d)')
  <2>1. /\ queue' = queue /\ settled' = settled /\ timer' = timer
        /\ \E p \in Phases \ {"queued"} : phase' = [phase EXCEPT ![c] = p]
        /\ phase[c] # "queued"
    BY <1>3, ReleaseFrees DEF Admit, Reject, Resume, Return, Phases
  <2>2. PICK p \in Phases \ {"queued"} : phase' = [phase EXCEPT ![c] = p]
    BY <2>1
  <2>3. ASSUME NEW k \in Keys PROVE QueueOf(k)'
    BY <1>1, <1>2, <2>1, <2>2 DEF QueueOf
  <2>4. ASSUME NEW d \in Calls PROVE WaiterOf(d)'
    BY <1>1, <2>1, <2>2 DEF WaiterOf
  <2>. QED  BY <2>3, <2>4
<1>4. ASSUME NEW c \in Calls, Enqueue(c)
      PROVE  (\A k \in Keys : QueueOf(k)') /\ (\A d \in Calls : WaiterOf(d)')
  <2> DEFINE k == KeyOf[c]
  <2>1. /\ phase[c] = "idle" /\ Len(queue[k]) < MaxQueue
        /\ queue' = [queue EXCEPT ![k] = Append(@, c)]
        /\ phase' = [phase EXCEPT ![c] = "queued"]
        /\ settled' = [settled EXCEPT ![c] = FALSE]
        /\ timer' = [timer EXCEPT ![c] = Timed]
    BY <1>4 DEF Enqueue
  <2>2. /\ queue'[k] = Append(queue[k], c)
        /\ \A j \in Keys : j # k => queue'[j] = queue[j]
    BY <1>1, <2>1
  <2>3. /\ queue'[k] \in Seq(Calls)
        /\ Len(queue'[k]) = Len(queue[k]) + 1
        /\ DOMAIN queue'[k] = 1..(Len(queue[k]) + 1)
        /\ \A i \in 1..Len(queue[k]) : queue'[k][i] = queue[k][i]
        /\ queue'[k][Len(queue[k]) + 1] = c
    BY <1>1, <1>2, <2>2, AppendProperties
  <2>4. QueueOf(k)'
    <3>1. \A i \in 1..Len(queue[k]) :
            /\ queue[k][i] \in Calls /\ queue[k][i] # c
            /\ KeyOf[queue[k][i]] = k /\ phase'[queue[k][i]] = "queued"
      BY <1>1, <1>2, <2>1 DEF QueueOf
    <3>2. phase'[c] = "queued"
      BY <1>1, <2>1
    <3>3. \A i, j \in 1..Len(queue[k]) : queue[k][i] = queue[k][j] => i = j
      BY <1>1, <1>2 DEF QueueOf
    <3>4. \A i \in 1..(Len(queue[k]) + 1) :
            i \in 1..Len(queue[k]) \/ i = Len(queue[k]) + 1
      BY <1>1, <1>2
    <3>. QED  BY <1>1, <1>2, <2>1, <2>3, <3>1, <3>2, <3>3, <3>4 DEF QueueOf
  <2>5. ASSUME NEW j \in Keys, j # k PROVE QueueOf(j)'
    BY <1>1, <1>2, <2>1, <2>2, <2>5 DEF QueueOf
  <2>6. ASSUME NEW d \in Calls PROVE WaiterOf(d)'
    <3>1. CASE d = c
      <4>1. Len(queue[k]) + 1 \in DOMAIN queue'[k]
        BY <1>1, <1>2, <2>3
      <4>. QED  BY <1>1, <2>1, <2>3, <3>1, <4>1 DEF WaiterOf
    <3>2. CASE d # c
      <4>1. /\ phase'[d] = phase[d] /\ settled'[d] = settled[d] /\ timer'[d] = timer[d]
        BY <1>1, <2>1, <3>2
      <4>2. ASSUME NEW i \in DOMAIN queue[KeyOf[d]]
            PROVE  i \in DOMAIN queue'[KeyOf[d]] /\ queue'[KeyOf[d]][i] = queue[KeyOf[d]][i]
        <5>1. CASE KeyOf[d] # k
          BY <1>1, <2>2, <4>2, <5>1
        <5>2. CASE KeyOf[d] = k
          BY <1>1, <1>2, <2>3, <4>2, <5>2
        <5>. QED  BY <5>1, <5>2
      <4>. QED  BY <1>1, <4>1, <4>2 DEF WaiterOf
    <3>. QED  BY <3>1, <3>2
  <2>. QED  BY <2>4, <2>5, <2>6
<1>5. ASSUME NEW c \in Calls, TimerFires(c)
      PROVE  (\A k \in Keys : QueueOf(k)') /\ (\A d \in Calls : WaiterOf(d)')
  <2> DEFINE k == KeyOf[c]
  <2>1. /\ timer[c]
        /\ timer' = [timer EXCEPT ![c] = FALSE]
        /\ settled' = [settled EXCEPT ![c] = TRUE]
        /\ phase' = [phase EXCEPT ![c] = "rejected"]
    BY <1>5 DEF TimerFires
  <2>2. PICK n \in DOMAIN queue[k] :
          /\ queue[k][n] = c
          /\ queue' = [queue EXCEPT ![k] = Without(@, n)]
    BY <1>5 DEF TimerFires
  <2>3. /\ queue'[k] = Without(queue[k], n)
        /\ \A j \in Keys : j # k => queue'[j] = queue[j]
    BY <1>1, <2>2
  <2>4. /\ queue'[k] \in Seq(Calls)
        /\ Len(queue'[k]) = Len(queue[k]) - 1
        /\ DOMAIN queue'[k] = 1..(Len(queue[k]) - 1)
        /\ \A i \in 1..(Len(queue[k]) - 1) :
              queue'[k][i] = IF i < n THEN queue[k][i] ELSE queue[k][i + 1]
    BY <1>1, <1>2, <2>3, WithoutElements
  <2>5. n \in 1..Len(queue[k]) /\ Len(queue[k]) \in Nat
    BY <1>1, <1>2
  <2>6. QueueOf(k)'
    <3>1. \A i \in 1..Len(queue[k]) : i # n =>
            /\ queue[k][i] \in Calls /\ queue[k][i] # c
            /\ KeyOf[queue[k][i]] = k /\ phase'[queue[k][i]] = "queued"
      BY <1>1, <1>2, <2>1, <2>2 DEF QueueOf
    <3>2. \A i, j \in 1..Len(queue[k]) : queue[k][i] = queue[k][j] => i = j
      BY <1>1, <1>2 DEF QueueOf
    <3>3. ASSUME NEW i \in 1..(Len(queue[k]) - 1)
          PROVE  /\ KeyOf[queue'[k][i]] = k
                 /\ phase'[queue'[k][i]] = "queued"
      <4>1. CASE i < n
        <5>1. i \in 1..Len(queue[k]) /\ i # n
          BY <2>5, <4>1
        <5>2. queue'[k][i] = queue[k][i]
          BY <2>4, <4>1
        <5>. QED  BY <3>1, <5>1, <5>2
      <4>2. CASE ~(i < n)
        <5>1. i + 1 \in 1..Len(queue[k]) /\ i + 1 # n
          BY <2>5, <4>2
        <5>2. queue'[k][i] = queue[k][i + 1]
          BY <2>4, <4>2
        <5>. QED  BY <3>1, <5>1, <5>2
      <4>. QED  BY <4>1, <4>2
    <3>4. ASSUME NEW i \in 1..(Len(queue[k]) - 1), NEW j \in 1..(Len(queue[k]) - 1),
                 queue'[k][i] = queue'[k][j]
          PROVE  i = j
      <4>1. PICK p \in 1..Len(queue[k]) :
              /\ queue'[k][i] = queue[k][p]
              /\ p = IF i < n THEN i ELSE i + 1
        <5>1. CASE i < n
          <6>. i \in 1..Len(queue[k])
            BY <2>5
          <6>. QED  BY <2>4, <5>1
        <5>2. CASE ~(i < n)
          <6>. i + 1 \in 1..Len(queue[k])
            BY <2>5
          <6>. QED  BY <2>4, <5>2
        <5>. QED  BY <5>1, <5>2
      <4>2. PICK q \in 1..Len(queue[k]) :
              /\ queue'[k][j] = queue[k][q]
              /\ q = IF j < n THEN j ELSE j + 1
        <5>1. CASE j < n
          <6>. j \in 1..Len(queue[k])
            BY <2>5
          <6>. QED  BY <2>4, <5>1
        <5>2. CASE ~(j < n)
          <6>. j + 1 \in 1..Len(queue[k])
            BY <2>5
          <6>. QED  BY <2>4, <5>2
        <5>. QED  BY <5>1, <5>2
      <4>3. p = q
        BY <3>2, <3>4, <4>1, <4>2
      <4>. QED  BY <2>5, <4>1, <4>2, <4>3
    <3>5. Len(queue'[k]) <= MaxQueue
      BY <1>1, <2>4, <2>5 DEF QueueOf
    <3>. QED  BY <2>4, <3>3, <3>4, <3>5 DEF QueueOf
  <2>7. ASSUME NEW j \in Keys, j # k PROVE QueueOf(j)'
    BY <1>1, <1>2, <2>1, <2>3, <2>7 DEF QueueOf
  <2>8. ASSUME NEW d \in Calls PROVE WaiterOf(d)'
    <3>1. CASE d = c
      BY <1>1, <2>1, <3>1 DEF WaiterOf
    <3>2. CASE d # c
      <4>1. /\ phase'[d] = phase[d] /\ settled'[d] = settled[d] /\ timer'[d] = timer[d]
        BY <1>1, <2>1, <3>2
      <4>2. ASSUME NEW i \in DOMAIN queue[KeyOf[d]], queue[KeyOf[d]][i] = d
            PROVE  \E j \in DOMAIN queue'[KeyOf[d]] : queue'[KeyOf[d]][j] = d
        <5>1. CASE KeyOf[d] # k
          BY <1>1, <2>3, <4>2, <5>1
        <5>2. CASE KeyOf[d] = k
          <6>1. i # n /\ i \in 1..Len(queue[k])
            BY <1>1, <1>2, <2>2, <3>2, <4>2, <5>2
          <6>2. CASE i < n
            BY <2>4, <2>5, <4>2, <5>2, <6>1, <6>2
          <6>3. CASE ~(i < n)
            <7>1. i - 1 \in 1..(Len(queue[k]) - 1) /\ ~(i - 1 < n) /\ (i - 1) + 1 = i
              BY <2>5, <6>1, <6>3
            <7>. QED  BY <2>4, <4>2, <5>2, <7>1
          <6>. QED  BY <6>2, <6>3
        <5>. QED  BY <5>1, <5>2
      <4>. QED  BY <1>1, <4>1, <4>2 DEF WaiterOf
    <3>. QED  BY <3>1, <3>2
  <2>. QED  BY <2>6, <2>7, <2>8
<1>6. ASSUME NEW c \in Calls, ReleaseToWaiter(c)
      PROVE  (\A k \in Keys : QueueOf(k)') /\ (\A d \in Calls : WaiterOf(d)')
  <2> DEFINE k == KeyOf[c]
  <2>1. PICK w : w = queue[k][1]
    OBVIOUS
  <2>2. /\ phase[c] = "running" /\ queue[k] # <<>> /\ w \in Calls
        /\ settled' = [settled EXCEPT ![w] = TRUE]
        /\ timer' = [timer EXCEPT ![w] = FALSE]
        /\ queue' = [queue EXCEPT ![k] = Tail(@)]
        /\ phase' = [phase EXCEPT ![c] = "idle", ![w] = "granted"]
    BY <1>6, <2>1, ReleaseHandsOver
  <2>3. /\ queue'[k] = Tail(queue[k])
        /\ \A j \in Keys : j # k => queue'[j] = queue[j]
    BY <1>1, <2>2
  <2>4. /\ DOMAIN queue'[k] = 1..(Len(queue[k]) - 1)
        /\ Len(queue'[k]) = Len(queue[k]) - 1
        /\ \A i \in 1..(Len(queue[k]) - 1) : queue'[k][i] = queue[k][i + 1]
        /\ 1 \in DOMAIN queue[k] /\ Len(queue[k]) \in Nat
    BY <1>1, <1>2, <2>2, <2>3, TailElements
  <2>5. /\ phase[w] = "queued" /\ KeyOf[w] = k /\ w # c
        /\ phase'[w] = "granted" /\ phase'[c] = "idle"
        /\ \A d \in Calls : d # w /\ d # c => phase'[d] = phase[d]
    <3>1. phase[w] = "queued" /\ KeyOf[w] = k
      BY <1>1, <2>1, <2>4 DEF QueueOf
    <3>. QED  BY <1>1, <2>2, <3>1
  <2>6. QueueOf(k)'
    <3>1. ASSUME NEW i \in 1..(Len(queue[k]) - 1)
          PROVE  /\ i + 1 \in DOMAIN queue[k] /\ i + 1 # 1
                 /\ queue[k][i + 1] \in Calls
                 /\ queue[k][i + 1] # w
                 /\ KeyOf[queue[k][i + 1]] = k
                 /\ phase[queue[k][i + 1]] = "queued"
      <4>1. i + 1 \in DOMAIN queue[k] /\ i + 1 # 1
        BY <1>1, <1>2, <2>4
      <4>. QED  BY <1>1, <1>2, <2>1, <2>4, <4>1 DEF QueueOf
    <3>2. ASSUME NEW i \in 1..(Len(queue[k]) - 1)
          PROVE  KeyOf[queue'[k][i]] = k /\ phase'[queue'[k][i]] = "queued"
      <4>1. phase'[queue[k][i + 1]] = "queued"
        BY <2>2, <2>5, <3>1
      <4>. QED  BY <2>4, <3>1, <4>1
    <3>3. ASSUME NEW i \in 1..(Len(queue[k]) - 1), NEW j \in 1..(Len(queue[k]) - 1),
                 queue'[k][i] = queue'[k][j]
          PROVE  i = j
      <4>1. queue[k][i + 1] = queue[k][j + 1]
        BY <2>4, <3>3
      <4>2. i + 1 = j + 1
        BY <1>1, <3>1, <4>1 DEF QueueOf
      <4>. QED  BY <4>2
    <3>4. Len(queue'[k]) <= MaxQueue
      BY <1>1, <2>4 DEF QueueOf
    <3>. QED  BY <2>4, <3>2, <3>3, <3>4 DEF QueueOf
  <2>7. ASSUME NEW j \in Keys, j # k PROVE QueueOf(j)'
    <3>1. ASSUME NEW i \in DOMAIN queue[j]
          PROVE  phase'[queue[j][i]] = "queued"
      <4>1. queue[j][i] \in Calls /\ KeyOf[queue[j][i]] = j /\ phase[queue[j][i]] = "queued"
        BY <1>1, <1>2 DEF QueueOf
      <4>. QED  BY <2>2, <2>5, <2>7, <4>1
    <3>. QED  BY <1>1, <2>3, <2>7, <3>1 DEF QueueOf
  <2>8. ASSUME NEW d \in Calls PROVE WaiterOf(d)'
    <3>1. CASE d = w \/ d = c
      BY <1>1, <2>2, <2>5, <3>1 DEF WaiterOf
    <3>2. CASE d # w /\ d # c
      <4>1. /\ phase'[d] = phase[d] /\ settled'[d] = settled[d] /\ timer'[d] = timer[d]
        BY <1>1, <2>2, <2>5, <3>2
      <4>2. ASSUME NEW i \in DOMAIN queue[KeyOf[d]], queue[KeyOf[d]][i] = d
            PROVE  \E j \in DOMAIN queue'[KeyOf[d]] : queue'[KeyOf[d]][j] = d
        <5>1. CASE KeyOf[d] # k
          BY <1>1, <2>3, <4>2, <5>1
        <5>2. CASE KeyOf[d] = k
          <6>1. i # 1 /\ i \in 1..Len(queue[k])
            BY <1>1, <1>2, <2>1, <3>2, <4>2, <5>2
          <6>2. i - 1 \in 1..(Len(queue[k]) - 1) /\ (i - 1) + 1 = i
            BY <2>4, <6>1
          <6>. QED  BY <2>4, <4>2, <5>2, <6>2
        <5>. QED  BY <5>1, <5>2
      <4>. QED  BY <1>1, <4>1, <4>2 DEF WaiterOf
    <3>. QED  BY <3>1, <3>2
  <2>. QED  BY <2>6, <2>7, <2>8
<1>7. CASE UNCHANGED vars
  BY <1>1, <1>7 DEF vars, QueueOf, WaiterOf
<1>. QED
  BY <1>3, <1>4, <1>5, <1>6, <1>7 DEF Next, Step

\* No step leaves a slot idle behind a queue.
LEMMA NextNoIdle == BulkheadInv /\ [Next]_vars => NoIdleSlotWhileQueued'
<1> SUFFICES ASSUME BulkheadInv, [Next]_vars, NEW k \in Keys, queue'[k] # <<>>
             PROVE  active'[k] = MaxConcurrent
  BY DEF NoIdleSlotWhileQueued
<1>1. /\ queue[k] # <<>> => active[k] = MaxConcurrent
      /\ queue \in [Keys -> Seq(Calls)]
      /\ active \in [Keys -> 0..MaxConcurrent]
      /\ MaxConcurrent \in Nat \ {0}
      /\ \A c \in Calls : KeyOf[c] \in Keys
  BY BulkheadAssumption DEF BulkheadInv, TypeOK, NoIdleSlotWhileQueued
<1>2. ASSUME NEW c \in Calls, Admit(c) PROVE active'[k] = MaxConcurrent
  BY <1>1, <1>2 DEF Admit
<1>3. ASSUME NEW c \in Calls, Enqueue(c) PROVE active'[k] = MaxConcurrent
  BY <1>1, <1>3 DEF Enqueue
<1>4. ASSUME NEW c \in Calls, Reject(c) \/ Resume(c) \/ Return(c)
      PROVE  active'[k] = MaxConcurrent
  BY <1>1, <1>4 DEF Reject, Resume, Return
<1>5. ASSUME NEW c \in Calls, TimerFires(c) PROVE active'[k] = MaxConcurrent
  <2>1. active' = active
    BY <1>5 DEF TimerFires
  <2>2. queue[k] # <<>>
    BY <1>1, <1>5 DEF TimerFires
  <2>. QED  BY <1>1, <2>1, <2>2
<1>6. ASSUME NEW c \in Calls, ReleaseToWaiter(c) PROVE active'[k] = MaxConcurrent
  <2>1. active' = active /\ queue' = [queue EXCEPT ![KeyOf[c]] = Tail(@)]
    BY <1>6, ReleaseHandsOver
  <2>2. queue[KeyOf[c]] # <<>>
    BY <1>6, ReleaseHandsOver
  <2>. QED  BY <1>1, <2>1, <2>2
<1>7. ASSUME NEW c \in Calls, ReleaseSlot(c) PROVE active'[k] = MaxConcurrent
  <2>1. /\ queue[KeyOf[c]] = <<>> /\ queue' = queue
        /\ active' = [active EXCEPT ![KeyOf[c]] = @ - 1]
    BY <1>7, ReleaseFrees
  <2>. QED  BY <1>1, <2>1
<1>8. CASE UNCHANGED vars
  BY <1>1, <1>8 DEF vars
<1>. QED
  BY <1>2, <1>3, <1>4, <1>5, <1>6, <1>7, <1>8 DEF Next, Step

\* The invariant is inductive.
LEMMA NextInv == BulkheadInv /\ [Next]_vars => BulkheadInv'
<1> SUFFICES ASSUME BulkheadInv, [Next]_vars PROVE BulkheadInv'
  OBVIOUS
<1>1. TypeOK'
  BY NextType DEF BulkheadInv
<1>. QED  BY <1>1, NextSlots, NextQueue, NextNoIdle DEF BulkheadInv

\* The inductive invariant of the bulkhead: counters, queues, entries and the
\* absence of idle slots hold together, in every state (acquire, #enqueue, the
\* timeout callback, #release).
THEOREM BulkheadInvariant == Spec => []BulkheadInv
  BY InitInv, NextInv, PTL DEF Spec

-----------------------------------------------------------------------------
(* The safety theorems *)

\* The slot counter is the number of calls that hold a slot, and at most
\* maxConcurrent calls hold one (acquire, #release).
THEOREM SlotsNeverLeak == Spec => []SlotsAccounted
<1>1. BulkheadInv => SlotsAccounted
  BY DEF BulkheadInv
<1>. QED  BY <1>1, BulkheadInvariant, PTL

\* A waiting call is in the queue, once and unsettled, and nothing else is
\* (acquire, #enqueue, its timeout callback, #release).
THEOREM NoWaiterLost == Spec => []QueueIsWaiters
<1>1. BulkheadInv => QueueIsWaiters
  BY DEF BulkheadInv
<1>. QED  BY <1>1, BulkheadInvariant, PTL

\* Nobody waits while a slot is free (#release).
THEOREM NoIdleSlot == Spec => []NoIdleSlotWhileQueued
<1>1. BulkheadInv => NoIdleSlotWhileQueued
  BY DEF BulkheadInv
<1>. QED  BY <1>1, BulkheadInvariant, PTL

\* #states holds exactly the keys in use (#getState, #release).
THEOREM EntriesRemoved == Spec => []EntriesMatchUse
<1>1. BulkheadInv => EntriesMatchUse
  BY DEF BulkheadInv
<1>. QED  BY <1>1, BulkheadInvariant, PTL

-----------------------------------------------------------------------------
(* The bulkhead implements the first-come first-served pool.               *)

\* The bulkhead starts as an empty pool.
LEMMA InitImplements == Init => Abstract!AInit
<1> SUFFICES ASSUME Init PROVE Abstract!AInit
  OBVIOUS
<1>1. \A k \in Keys : Holders(k) = {}
  BY DEF Init, Holders
<1>. QED  BY <1>1 DEF Init, Abstract!AInit

\* The instance's copy of Cardinality is Cardinality.
LEMMA SameCardinality == \A S : Abstract!Cardinality(S) = Cardinality(S)
  BY DEF Abstract!Cardinality, Cardinality

\* Every step of the bulkhead is a step of the pool, or none.
LEMMA NextImplements ==
    BulkheadInv /\ [Next]_vars => [Abstract!ANext]_(Abstract!avars)
<1> SUFFICES ASSUME BulkheadInv, [Next]_vars
             PROVE  Abstract!ANext \/ UNCHANGED Abstract!avars
  OBVIOUS
<1> DEFINE H == [k \in Keys |-> Holders(k)]
<1>1. /\ \A k \in Keys : active[k] = Cardinality(Holders(k))
      /\ \A k \in Keys : queue[k] # <<>> => active[k] = MaxConcurrent
      /\ queue \in [Keys -> Seq(Calls)]
      /\ active \in [Keys -> 0..MaxConcurrent]
      /\ MaxConcurrent \in Nat \ {0}
      /\ \A c \in Calls : KeyOf[c] \in Keys
  BY BulkheadAssumption
  DEF BulkheadInv, TypeOK, SlotsAccounted, NoIdleSlotWhileQueued
<1>2. ASSUME NEW c \in Calls, Admit(c) PROVE Abstract!ANext
  <2> DEFINE k == KeyOf[c]
  <2>1. /\ c \notin Holders(k)
        /\ Holders(k)' = Holders(k) \cup {c}
        /\ \A j \in Keys : j # k => Holders(j)' = Holders(j)
    BY <1>2, HoldersChange
  <2>2. queue' = queue /\ active[k] < MaxConcurrent
    BY <1>2 DEF Admit
  <2>3. queue[k] = <<>>
    BY <1>1, <2>2
  <2>4. H' = [H EXCEPT ![k] = @ \cup {c}]
    BY <1>1, <2>1
  <2>5. Abstract!Enter(k, c)
    BY <1>1, <2>1, <2>2, <2>3, <2>4, SameCardinality DEF Abstract!Enter
  <2>. QED  BY <1>1, <2>5 DEF Abstract!ANext
<1>3. ASSUME NEW c \in Calls, Enqueue(c) PROVE Abstract!ANext
  <2> DEFINE k == KeyOf[c]
  <2>1. /\ phase[c] = "idle" /\ active[k] >= MaxConcurrent
        /\ Len(queue[k]) < MaxQueue
        /\ queue' = [queue EXCEPT ![k] = Append(@, c)]
    BY <1>3 DEF Enqueue
  <2>2. c \notin Holders(k) /\ H' = H
    BY <1>3, <2>1, HoldersChange DEF Holders
  <2>3. ~Abstract!InLine(k, c)
    BY <1>1, <2>1 DEF Abstract!InLine, BulkheadInv, QueueIsWaiters
  <2>4. Cardinality(Holders(k)) = MaxConcurrent
    BY <1>1, <2>1
  <2>5. Abstract!LineUp(k, c)
    BY <1>1, <2>1, <2>2, <2>3, <2>4, SameCardinality DEF Abstract!LineUp
  <2>. QED  BY <1>1, <2>5 DEF Abstract!ANext
<1>4. ASSUME NEW c \in Calls, Reject(c) \/ Resume(c) \/ Return(c)
      PROVE  UNCHANGED Abstract!avars
  <2>1. queue' = queue
    BY <1>4 DEF Reject, Resume, Return
  <2>. QED  BY <1>4, <2>1, HoldersChange DEF Abstract!avars
<1>5. ASSUME NEW c \in Calls, TimerFires(c) PROVE Abstract!ANext
  <2> DEFINE k == KeyOf[c]
  <2>1. PICK i \in DOMAIN queue[k] : queue' = [queue EXCEPT ![k] = Without(@, i)]
    BY <1>5 DEF TimerFires
  <2>2. H' = H
    BY <1>5, HoldersChange
  <2>3. Abstract!GiveUp(k, i)
    BY <2>1, <2>2 DEF Abstract!GiveUp, Without
  <2>. QED  BY <1>1, <2>3 DEF Abstract!ANext
<1>6. ASSUME NEW c \in Calls, ReleaseToWaiter(c) PROVE Abstract!ANext
  <2> DEFINE k == KeyOf[c]
  <2>1. queue[k] # <<>> /\ queue' = [queue EXCEPT ![k] = Tail(@)]
    BY <1>6, ReleaseHandsOver
  <2>2. Head(queue[k]) = queue[k][1]
    BY <1>1, <2>1, TailElements
  <2>3. /\ c \in Holders(k)
        /\ Holders(k)' = (Holders(k) \ {c}) \cup {queue[k][1]}
        /\ \A j \in Keys : j # k => Holders(j)' = Holders(j)
    BY <1>6, HoldersChange
  <2>4. H' = [H EXCEPT ![k] = (@ \ {c}) \cup {Head(queue[k])}]
    BY <1>1, <2>2, <2>3
  <2>5. Abstract!HandOver(k, c)
    BY <1>1, <2>1, <2>3, <2>4 DEF Abstract!HandOver
  <2>. QED  BY <1>1, <2>5 DEF Abstract!ANext
<1>7. ASSUME NEW c \in Calls, ReleaseSlot(c) PROVE Abstract!ANext
  <2> DEFINE k == KeyOf[c]
  <2>1. queue[k] = <<>> /\ queue' = queue
    BY <1>7, ReleaseFrees
  <2>2. /\ c \in Holders(k)
        /\ Holders(k)' = Holders(k) \ {c}
        /\ \A j \in Keys : j # k => Holders(j)' = Holders(j)
    BY <1>7, HoldersChange
  <2>3. H' = [H EXCEPT ![k] = @ \ {c}]
    BY <1>1, <2>2
  <2>4. Abstract!Vacate(k, c)
    BY <1>1, <2>1, <2>2, <2>3 DEF Abstract!Vacate
  <2>. QED  BY <1>1, <2>4 DEF Abstract!ANext
<1>8. CASE UNCHANGED vars
  BY <1>8 DEF vars, Holders, Abstract!avars
<1>. QED
  BY <1>2, <1>3, <1>4, <1>5, <1>6, <1>7, <1>8 DEF Next, Step

\* Every behaviour of the bulkhead is one of the first-come first-served
\* pool: no newcomer overtakes the line and a freed slot goes to its head
\* (acquire, #enqueue, #release).
THEOREM Implements == Spec => AbstractSpec
<1>1. BulkheadInv /\ [Next]_vars => [Abstract!ANext]_(Abstract!avars)
  BY NextImplements
<1>. QED
  BY <1>1, InitImplements, BulkheadInvariant, PTL
  DEF Spec, AbstractSpec, Abstract!ASpec
=============================================================================
