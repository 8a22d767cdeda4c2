------------------------------- MODULE Cache -------------------------------
(***************************************************************************)
(* The cache policy, packages/core/src/policies/cache/index.ts: the map of *)
(* one policy instance.  A Map keeps the order of insertion, by which the  *)
(* oldest entry is found; here it is a sequence of entries.                *)
(*                                                                         *)
(* Lookup and store are separate: between them lies the call of `next`.    *)
(***************************************************************************)
EXTENDS Integers, Sequences, SequencesExt

CONSTANTS
    CacheOptions,   \* [ttl, maxEntries, cacheNull, cacheUndefined]
    MaxTime         \* bound: the clock reads 0..MaxTime

\* normalizeOptions, for the options of one instance.
CacheOptionsOK(o) ==
    /\ o.ttl \in Nat \ {0}
    /\ o.maxEntries \in Nat \ {0}
    /\ {o.cacheNull, o.cacheUndefined} \subseteq BOOLEAN

ASSUME CacheAssumption == CacheOptionsOK(CacheOptions) /\ MaxTime \in Nat

VARIABLES
    entries,        \* sequence of [key, value, expiresAt], oldest first
    clock           \* services.clock, which may be set back

cacheVars == <<entries, clock>>

CacheInit == entries = <<>> /\ clock = 0

\* Mutant: an entry is served once more when its time is up.
IsExpiredLate(entry) == clock > entry.expiresAt

IsExpired(entry) == clock >= entry.expiresAt

Live(entry) == ~IsExpired(entry)

EntriesOf(k) == {entry \in ToSet(entries) : entry.key = k}

\* The elements of s that are in `kept`, in their order.  (A recursive
\* function, which unlike SelectSeq can be reasoned about.)
Filtered(s, kept) ==
    LET upTo[n \in 0..Len(s)] ==
            IF n = 0 THEN <<>>
            ELSE IF s[n] \in kept THEN Append(upTo[n - 1], s[n])
            ELSE upTo[n - 1]
    IN upTo[Len(s)]

Without(k) == Filtered(entries, {entry \in ToSet(entries) : entry.key # k})

LiveAmong(s) == Filtered(s, {entry \in ToSet(s) : Live(entry)})

ShouldCacheValue(kind) ==
    CASE kind = "undefined" -> CacheOptions.cacheUndefined
      [] kind = "null" -> CacheOptions.cacheNull
      [] OTHER -> TRUE

\* A lookup that finds `entry`.
LookupHits(k, entry) ==
    /\ entry \in EntriesOf(k)
    /\ Live(entry)
    /\ UNCHANGED cacheVars

\* A lookup that finds nothing, or an expired entry, which it deletes.
LookupMisses(k) ==
    /\ \A entry \in EntriesOf(k) : IsExpired(entry)
    /\ entries' = Without(k)
    /\ UNCHANGED clock

\* Mutant: room is made before the expired entries are gone.
StoreEvictsFirst(k, v) ==
    LET others == Without(k)
        excess == Len(others) - CacheOptions.maxEntries + 1
        kept == IF excess > 0 THEN SubSeq(others, excess + 1, Len(others)) ELSE others
    IN /\ entries' = Append(LiveAmong(kept),
                            [key |-> k, value |-> v, expiresAt |-> clock + CacheOptions.ttl])
       /\ UNCHANGED clock

\* storeValue: the key's own entry goes, then the expired ones, then the
\* oldest until there is room for one.
StoreValue(k, v) ==
    LET live == LiveAmong(Without(k))
        excess == Len(live) - CacheOptions.maxEntries + 1
        kept == IF excess > 0 THEN SubSeq(live, excess + 1, Len(live)) ELSE live
    IN /\ entries' = Append(kept, [key |-> k, value |-> v, expiresAt |-> clock + CacheOptions.ttl])
       /\ UNCHANGED clock

ClockMoves ==
    /\ clock' \in (0..MaxTime) \ {clock}
    /\ UNCHANGED entries
=============================================================================
