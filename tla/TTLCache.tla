------------------------------ MODULE TTLCache ------------------------------
(***************************************************************************)
(* The cache of internal/cache/cache.go: a map with an expiry per entry, a  *)
(* capacity, and the list of keys in the order they were first set. The     *)
(* operators are what one critical section of the cache's mutex does to it; *)
(* Get takes two of them (Hit, then DeleteKey), with the mutex free between.*)
(*                                                                         *)
(* Time is abstracted: an entry is fresh until its time has come, which is  *)
(* a step of the environment (Aged).                                        *)
(***************************************************************************)
EXTENDS Naturals, Sequences, FiniteSets, SequencesExt, Lists

EmptyCache == [m |-> <<>>, order |-> <<>>]

Has(cache, key) == key \in DOMAIN cache.m

Expired(cache, key) == Has(cache, key) /\ cache.m[key].expired

\* Get finds the key, and its time has not come.
Hit(cache, key) == Has(cache, key) /\ ~cache.m[key].expired

Without(cache, keys) == Restrict(cache.m, DOMAIN cache.m \ keys)

\* Mutant: the key stays in the list of keys.
DeleteFromMapOnly(cache, key) ==
    [m |-> Without(cache, {key}), order |-> cache.order]

\* Delete, and the second half of a Get that saw an expired entry.
DeleteKey(cache, key) ==
    [m |-> Without(cache, {key}), order |-> RemoveFirst(cache.order, key)]

\* removeExpiredLocked goes along the list: keys without an entry leave the list,
\* expired ones leave both.
RemoveExpired(cache) ==
    [m |-> Without(cache, {k \in ToSet(cache.order) : Expired(cache, k)}),
     order |-> Kept(cache.order, {n \in 1..Len(cache.order) : Hit(cache, cache.order[n])})]

\* The cache when the first n keys of the list have been taken away.
DropFirst(cache, n) ==
    [m |-> Without(cache, ToSet(SubSeq(cache.order, 1, n))),
     order |-> SubSeq(cache.order, n + 1, Len(cache.order))]

\* How much of the list the eviction loop of Set may have to drop: nothing fits when
\* entries are left that the list does not name, and the loop goes on forever.
Evictions(cache, maxEntries) ==
    {n \in 0..Len(cache.order) :
        Cardinality(DOMAIN DropFirst(cache, n).m) < maxEntries}

\* Set of a new key makes room first; a step with it needs CanSet.
MakeRoom(cache, maxEntries) == DropFirst(cache, Min(Evictions(cache, maxEntries)))

CanSet(cache, key, maxEntries) ==
    Has(cache, key) \/ Evictions(RemoveExpired(cache), maxEntries) # {}

Entry(value) == [value |-> value, expired |-> FALSE]

\* The map with one entry more, or another value in place.
Put(cache, key, value) ==
    [k \in DOMAIN cache.m \cup {key} |-> IF k = key THEN Entry(value) ELSE cache.m[k]]

Set(cache, key, value, maxEntries) ==
    IF Has(cache, key)
    THEN [cache EXCEPT !.m = Put(cache, key, value)]
    ELSE LET room == MakeRoom(RemoveExpired(cache), maxEntries)
         IN  [m |-> Put(room, key, value), order |-> Append(room.order, key)]

\* The time of an entry has come.
Aged(cache, key) == [cache EXCEPT !.m[key].expired = TRUE]

\* What every critical section may rely on: the list names each entry once, and
\* nothing else. The eviction loop of Set ends because of it.
Indexed(cache) ==
    /\ IsInjective(cache.order)
    /\ ToSet(cache.order) = DOMAIN cache.m

Bounded(cache, maxEntries) == Cardinality(DOMAIN cache.m) <= maxEntries
=============================================================================
