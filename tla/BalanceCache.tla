--------------------------- MODULE BalanceCache ----------------------------
(***************************************************************************)
(* getWalletBalances and invalidateWalletBalanceCache of UsersService      *)
(* (src/users): a cache with a time to live, filled by one fetch at a time *)
(* that all callers of the process share.  The balance itself is a version *)
(* number.  An invalidation does not stop a fetch under way, which fills   *)
(* the cache with the older balance afterwards.                            *)
(***************************************************************************)
EXTENDS Integers

CONSTANTS Askers,           \* requests for the balances
          LastVersion       \* bound: the balances change so many times

ASSUME BalanceCacheAssumption == LastVersion \in Nat

VARIABLES version,          \* of the balances in the database
          cacheEntry,       \* the cached version; -1: none
          fetching,         \* the step of pendingFetches' fetch, or "none"
          fetched,          \* what its loader has read; -1: nothing yet
          asking,           \* per asker
          got               \* per asker: the version it was given; -1: none

balanceVars == <<version, cacheEntry, fetching, fetched, asking, got>>

Versions == 0..LastVersion

BalanceInit ==
    /\ version = 0
    /\ cacheEntry = -1
    /\ fetching = "none"
    /\ fetched = -1
    /\ asking = [a \in Askers |-> "idle"]
    /\ got = [a \in Askers |-> -1]

balanceChanges ==
    /\ version < LastVersion
    /\ version' = version + 1
    /\ UNCHANGED <<cacheEntry, fetching, fetched, asking, got>>

(* The cache is asked ... *)
getWalletBalances(a) ==
    /\ asking[a] = "idle"
    /\ asking' = [asking EXCEPT ![a] = IF cacheEntry # -1 THEN "done" ELSE "missed"]
    /\ got' = [got EXCEPT ![a] = cacheEntry]
    /\ UNCHANGED <<version, cacheEntry, fetching, fetched>>

(* ... and the answer is the pending fetch, or a new one. *)
joinOrFetch(a) ==
    /\ asking[a] = "missed"
    /\ asking' = [asking EXCEPT ![a] = "joined"]
    /\ fetching' = IF fetching = "none" THEN "load" ELSE fetching
    /\ UNCHANGED <<version, cacheEntry, fetched, got>>

loader ==
    /\ fetching = "load"
    /\ fetched' = version
    /\ fetching' = "set"
    /\ UNCHANGED <<version, cacheEntry, asking, got>>

setCache ==
    /\ fetching = "set"
    /\ cacheEntry' = fetched
    /\ fetching' = "answer"
    /\ UNCHANGED <<version, fetched, asking, got>>

(* The finally block, and everyone who waits for the promise. *)
answer(failed) ==
    /\ IF failed THEN fetching \in {"load", "set"} ELSE fetching = "answer"
    /\ fetching' = "none"
    /\ fetched' = -1
    /\ got' = [a \in Askers |-> IF asking[a] = "joined" /\ ~failed THEN fetched ELSE got[a]]
    /\ asking' = [a \in Askers |-> IF asking[a] = "joined" THEN "done" ELSE asking[a]]
    /\ UNCHANGED <<version, cacheEntry>>

askAgain(a) ==
    /\ asking[a] = "done"
    /\ asking' = [asking EXCEPT ![a] = "idle"]
    /\ got' = [got EXCEPT ![a] = -1]
    /\ UNCHANGED <<version, cacheEntry, fetching, fetched>>

(* After a change of the balances. *)
invalidateWalletBalanceCache ==
    /\ cacheEntry # -1
    /\ cacheEntry' = -1
    /\ UNCHANGED <<version, fetching, fetched, asking, got>>

(* Mutant: the entry is set without a time to live. *)
entryStays == FALSE /\ UNCHANGED balanceVars

entryExpires ==
    /\ cacheEntry # -1
    /\ cacheEntry' = -1
    /\ UNCHANGED <<version, fetching, fetched, asking, got>>

BalanceNext ==
    \/ balanceChanges \/ loader \/ setCache
    \/ invalidateWalletBalanceCache \/ entryExpires
    \/ \E failed \in BOOLEAN : answer(failed)
    \/ \E a \in Askers : getWalletBalances(a) \/ joinOrFetch(a) \/ askAgain(a)

(* The steps that the code and the cache take by themselves: the loader    *)
(* answers or fails, an entry lives for seconds.                           *)
BalanceFairness ==
    /\ WF_balanceVars(loader)
    /\ WF_balanceVars(setCache)
    /\ WF_balanceVars(answer(FALSE))
    /\ WF_balanceVars(entryExpires)
    /\ \A a \in Askers : WF_balanceVars(joinOrFetch(a))

BalanceSpec == BalanceInit /\ [][BalanceNext]_balanceVars /\ BalanceFairness

----------------------------------------------------------------------------
(* Type invariant. *)
BalanceTypeOK ==
    /\ version \in Versions
    /\ cacheEntry \in Versions \cup {-1}
    /\ fetching \in {"none", "load", "set", "answer"}
    /\ fetched \in Versions \cup {-1}
    /\ asking \in [Askers -> {"idle", "missed", "joined", "done"}]
    /\ got \in [Askers -> Versions \cup {-1}]

(* Once the balances stop changing, the cache is current or empty for      *)
(* good: a stale fill dies with its time to live, and no later fetch reads *)
(* an old balance.                                                         *)
EventuallyCurrent == <>[](cacheEntry \in {-1, version})
============================================================================
