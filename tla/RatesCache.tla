---------------------------- MODULE RatesCache -----------------------------
(***************************************************************************)
(* ExchangeRatesCache (src/exchange-rates/cache): a map in insertion order *)
(* with a size and a time to live, kept in order of use.  Its methods run  *)
(* without an await, so each is one action.  The rates are left out.       *)
(***************************************************************************)
EXTENDS Integers, Sequences, FiniteSets, SequencesExt

CONSTANTS Pairs,            \* keys, as buildKey writes them
          maxSize, ttlMs,
          LastMs            \* bound of the clock

ASSUME RatesCacheAssumption ==
    /\ IsFiniteSet(Pairs)
    /\ maxSize \in Nat \ {0} /\ ttlMs \in Nat /\ LastMs \in Nat

VARIABLES lru,              \* the keys of the map, in insertion order
          cachedAt,         \* per key; -1 for a key that is not in the map
          ms,               \* the clock
          usedSince         \* history: per key that should be kept, the other
                            \* keys that were used since; {key} otherwise

cacheVars == <<lru, cachedAt, ms, usedSince>>

CacheInit ==
    /\ lru = <<>>
    /\ cachedAt = [k \in Pairs |-> -1]
    /\ ms = 0
    /\ usedSince = [k \in Pairs |-> {k}]

Cached == ToSet(lru)
Expired(k) == ms - cachedAt[k] > ttlMs
Kept(k) == k \notin usedSince[k]
Use(k) == usedSince' = [j \in Pairs |-> IF j = k THEN {}
                                        ELSE IF Kept(j) THEN usedSince[j] \cup {k} ELSE {j}]
Forget(S) == usedSince' = [j \in Pairs |-> IF j \in S THEN {j} ELSE usedSince[j]]

(* Mutant: a hit leaves the key where it is. *)
getInPlace(k) ==
    /\ k \in Cached
    /\ ~Expired(k)
    /\ Use(k)
    /\ UNCHANGED <<lru, cachedAt, ms>>

get(k) ==
    /\ k \in Cached
    /\ \/ /\ Expired(k)
          /\ lru' = RemoveFirst(lru, k)
          /\ cachedAt' = [cachedAt EXCEPT ![k] = -1]
          /\ Forget({k})
       \/ /\ ~Expired(k)
          /\ lru' = Append(RemoveFirst(lru, k), k)
          /\ Use(k)
          /\ UNCHANGED cachedAt
    /\ UNCHANGED ms

set(k) ==
    LET others == RemoveFirst(lru, k)
        evicts == Len(others) >= maxSize
    IN
    /\ lru' = Append(IF evicts THEN Tail(others) ELSE others, k)
    /\ cachedAt' = [j \in Pairs |-> IF j = k THEN ms
                                    ELSE IF evicts /\ j = Head(others) THEN -1
                                    ELSE cachedAt[j]]
    /\ Use(k)
    /\ UNCHANGED ms

invalidateRate(k) ==
    /\ k \in Cached
    /\ lru' = RemoveFirst(lru, k)
    /\ cachedAt' = [cachedAt EXCEPT ![k] = -1]
    /\ Forget({k})
    /\ UNCHANGED ms

clear ==
    /\ lru # <<>>
    /\ lru' = <<>>
    /\ cachedAt' = [k \in Pairs |-> -1]
    /\ Forget(Pairs)
    /\ UNCHANGED ms

CacheTick ==
    /\ ms < LastMs
    /\ ms' = ms + 1
    /\ UNCHANGED <<lru, cachedAt, usedSince>>

CacheNext ==
    \/ \E k \in Pairs : get(k) \/ set(k) \/ invalidateRate(k)
    \/ clear
    \/ CacheTick

CacheSpec == CacheInit /\ [][CacheNext]_cacheVars

----------------------------------------------------------------------------
(* Type invariant. *)
CacheTypeOK ==
    /\ lru \in BoundedSeq(Pairs, maxSize)
    /\ \A i, j \in DOMAIN lru : lru[i] = lru[j] => i = j
    /\ cachedAt \in [Pairs -> -1..LastMs]
    /\ \A k \in Pairs : k \in Cached <=> cachedAt[k] # -1
    /\ ms \in 0..LastMs
    /\ usedSince \in [Pairs -> SUBSET Pairs]

(* A key that was set or hit, and not removed since, is still in the map   *)
(* as long as fewer than maxSize other keys were used after it: eviction   *)
(* takes the least recently used key, whatever hits, expiries and          *)
(* invalidations came in between.                                          *)
RecentlyUsedStays ==
    \A k \in Pairs : Kept(k) /\ Cardinality(usedSince[k]) < maxSize => k \in Cached
============================================================================
