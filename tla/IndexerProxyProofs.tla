------------------------- MODULE IndexerProxyProofs -------------------------
(***************************************************************************)
(* Proofs about the indexer proxy with its two caches and the expansion of  *)
(* searches, for any clients, search terms, title rows, stock of the         *)
(* indexers, page limit and capacities of the caches.                       *)
(*                                                                         *)
(* A definition along a list (what a loop keeps, the concatenation of lists, *)
(* the items of the first titles) is a function over its places; what it is  *)
(* at every place is proved by looking at the first place where it would not *)
(* be (LeastNumber).                                                        *)
(***************************************************************************)
EXTENDS IndexerProxy, FiniteSetTheorems, WellFoundedInduction, TLAPS

-----------------------------------------------------------------------------
(* Lists.                                                                   *)

\* Numbers that are not all have a least one: how everything here that is defined
\* along a list is proved.
LEMMA LeastNumber ==
    ASSUME NEW S, S \subseteq Nat, S # {}
    PROVE  \E n \in S : \A m \in S : n <= m
<1>1. PICK n \in S : \A m \in S : ~(<<m, n>> \in OpToRel(<, Nat))
  BY NatLessThanWellFounded, WFMin, Zenon
<1>2. ASSUME NEW m \in S PROVE ~(m < n)
  <2>1. <<m, n>> \in Nat \X Nat
    OBVIOUS
  <2>2. m < n => <<m, n>> \in OpToRel(<, Nat)
    BY <2>1, Zenon DEF OpToRel
  <2> QED BY <1>1, <2>2
<1> QED BY <1>2

\* What Kept has after n places, for the function f that it is made from.
KeptStep(list, places, f, n) ==
    IF n = 0 THEN <<>>
    ELSE IF n \in places THEN Append(f[n - 1], list[n]) ELSE f[n - 1]

\* f is the whole of that function.
KeptUpTo(list, places, f, m) == f = [n \in 0..m |-> KeptStep(list, places, f, n)]

\* There is such a function.
LEMMA KeptExists ==
    ASSUME NEW list, NEW places, NEW L \in Nat
    PROVE  \E f : KeptUpTo(list, places, f, L)
<1> DEFINE bad == {m \in 0..L : ~\E f : KeptUpTo(list, places, f, m)}
<1>1. CASE bad = {}
  BY <1>1
<1>2. CASE bad # {}
  <2>1. PICK b \in bad : \A m \in bad : b <= m
    <3>1. bad \subseteq Nat
      OBVIOUS
    <3> HIDE DEF bad
    <3> QED BY <1>2, <3>1, LeastNumber
  <2>2. CASE b = 0
    <3> DEFINE f == [n \in 0..0 |-> <<>>]
    <3>1. KeptUpTo(list, places, f, 0)
      BY DEF KeptUpTo, KeptStep
    <3> QED BY <2>1, <2>2, <3>1
  <2>3. CASE b # 0
    <3>1. b - 1 \in 0..L /\ b \in 0..L /\ ~(b <= b - 1)
      BY <2>1, <2>3
    <3>2. b - 1 \notin bad
      BY <2>1, <3>1
    <3>3. PICK g : KeptUpTo(list, places, g, b - 1)
      BY <3>1, <3>2
    <3> DEFINE f == [n \in 0..b |-> IF n = b THEN KeptStep(list, places, g, b) ELSE g[n]]
    <3>4. ASSUME NEW n \in 0..b PROVE f[n] = KeptStep(list, places, f, n)
      <4>1. CASE n = 0
        BY <3>1, <3>3, <4>1 DEF KeptUpTo, KeptStep
      <4>2. CASE n # 0
        <5>1. n - 1 \in 0..b /\ n - 1 # b
          BY <3>1, <4>2
        <5>2. f[n - 1] = g[n - 1]
          BY <5>1
        <5>3. KeptStep(list, places, f, n) = KeptStep(list, places, g, n)
          BY <5>2 DEF KeptStep
        <5>4. CASE n = b
          BY <5>3, <5>4
        <5>5. CASE n # b
          <6>1. n \in 0..(b - 1)
            BY <3>1, <5>5
          <6>2. g[n] = KeptStep(list, places, g, n)
            BY <3>3, <6>1 DEF KeptUpTo
          <6> QED BY <5>3, <5>5, <6>2
        <5> QED BY <5>4, <5>5
      <4> QED BY <4>1, <4>2
    <3>5. KeptUpTo(list, places, f, b)
      <4> HIDE DEF f
      <4>1. f = [n \in 0..b |-> f[n]]
        BY DEF f
      <4> QED BY <3>4, <4>1 DEF KeptUpTo
    <3> QED BY <2>1, <3>5
  <2> QED BY <2>2, <2>3
<1> QED BY <1>1, <1>2

\* So that Kept is its last value.
LEMMA KeptIs ==
    ASSUME NEW list, NEW places, Len(list) \in Nat
    PROVE  \E f : /\ KeptUpTo(list, places, f, Len(list))
                  /\ Kept(list, places) = f[Len(list)]
<1> DEFINE f == CHOOSE f : KeptUpTo(list, places, f, Len(list))
<1>1. KeptUpTo(list, places, f, Len(list))
  BY KeptExists
<1>2. Kept(list, places) = f[Len(list)]
  BY DEF Kept, KeptUpTo, KeptStep
<1> QED BY <1>1, <1>2

\* What Kept has is what is at the places, and twice only what the list has twice there.
LEMMA KeptFacts ==
    ASSUME NEW S, NEW list \in Seq(S), NEW places
    PROVE  LET in == {n \in 1..Len(list) : n \in places}
               kept == Kept(list, places)
           IN  /\ kept \in Seq(S)
               /\ {kept[i] : i \in 1..Len(kept)} = {list[n] : n \in in}
               /\ (\A m, n \in in : list[m] = list[n] => m = n) =>
                     \A i, j \in 1..Len(kept) : kept[i] = kept[j] => i = j
<1>1. PICK f : KeptUpTo(list, places, f, Len(list)) /\ Kept(list, places) = f[Len(list)]
  BY KeptIs
<1> DEFINE in(m) == {n \in 1..m : n \in places}
           Good(m) == /\ f[m] \in Seq(S)
                      /\ {f[m][i] : i \in 1..Len(f[m])} = {list[n] : n \in in(m)}
                      /\ (\A k, n \in in(m) : list[k] = list[n] => k = n) =>
                            \A i, j \in 1..Len(f[m]) : f[m][i] = f[m][j] => i = j
           bad == {m \in 0..Len(list) : ~Good(m)}
<1>2. Good(0)
  BY <1>1 DEF KeptUpTo, KeptStep
<1>3. ASSUME NEW m \in 1..Len(list), Good(m - 1) PROVE Good(m)
  <2>1. f[m] = IF m \in places THEN Append(f[m - 1], list[m]) ELSE f[m - 1]
    <3>1. m \in 0..Len(list) /\ m # 0
      OBVIOUS
    <3>2. f[m] = KeptStep(list, places, f, m)
      BY <1>1, <3>1 DEF KeptUpTo
    <3> QED BY <3>1, <3>2 DEF KeptStep
  <2>2. list[m] \in S /\ m - 1 \in Nat /\ 1..m = (1..(m - 1)) \cup {m}
    OBVIOUS
  <2>3. CASE m \notin places
    <3>1. in(m) = in(m - 1)
      BY <2>2, <2>3
    <3> QED BY <1>3, <2>1, <2>3, <3>1
  <2>4. CASE m \in places
    <3> DEFINE g == f[m - 1]
    <3> HIDE DEF g
    <3>1. in(m) = in(m - 1) \cup {m}
      BY <2>2, <2>4
    <3>2. /\ g \in Seq(S) /\ f[m] = Append(g, list[m])
          /\ {g[i] : i \in 1..Len(g)} = {list[n] : n \in in(m - 1)}
      BY <1>3, <2>1, <2>4 DEF g
    <3>3. /\ f[m] \in Seq(S) /\ Len(f[m]) = Len(g) + 1 /\ Len(g) \in Nat
          /\ \A i \in 1..Len(g) : f[m][i] = g[i]
          /\ f[m][Len(g) + 1] = list[m]
      BY <2>2, <3>2
    <3>4. 1..Len(f[m]) = (1..Len(g)) \cup {Len(g) + 1}
      BY <3>3
    <3>5. {f[m][i] : i \in 1..Len(f[m])} = {list[n] : n \in in(m)}
      <4>1. {f[m][i] : i \in 1..Len(f[m])} = {g[i] : i \in 1..Len(g)} \cup {list[m]}
        BY <3>3, <3>4
      <4> QED BY <3>1, <3>2, <4>1
    <3>6. ASSUME \A k, n \in in(m) : list[k] = list[n] => k = n
          PROVE  \A i, j \in 1..Len(f[m]) : f[m][i] = f[m][j] => i = j
      <4>1. \A i, j \in 1..Len(g) : g[i] = g[j] => i = j
        BY <1>3, <3>1, <3>6 DEF g
      <4>2. \A i \in 1..Len(g) : g[i] # list[m]
        <5>1. ASSUME NEW i \in 1..Len(g), g[i] = list[m] PROVE FALSE
          <6>1. PICK n \in in(m - 1) : list[n] = list[m]
            BY <3>2, <5>1
          <6>2. n # m /\ n \in in(m) /\ m \in in(m)
            BY <2>2, <2>4, <6>1
          <6> QED BY <3>6, <6>1, <6>2
        <5> QED BY <5>1
      <4> QED BY <3>3, <3>4, <4>1, <4>2
    <3> QED BY <3>3, <3>5, <3>6
  <2> QED BY <2>3, <2>4
<1>4. CASE bad # {}
  <2>1. PICK b \in bad : \A m \in bad : b <= m
    <3>1. bad \subseteq Nat
      OBVIOUS
    <3> HIDE DEF bad
    <3> QED BY <1>4, <3>1, LeastNumber
  <2>2. b \in 1..Len(list) /\ b - 1 \in 0..Len(list) /\ b - 1 \notin bad
    <3> HIDE DEF Good
    <3>1. b \in 0..Len(list) /\ b # 0 /\ ~(b <= b - 1)
      BY <1>2, <2>1
    <3> QED BY <2>1, <3>1
  <2>3. Good(b - 1)
    BY <2>2
  <2> HIDE DEF Good
  <2> QED BY <1>3, <2>1, <2>2, <2>3
<1>5. CASE bad = {}
  <2>1. Good(Len(list))
    <3> HIDE DEF Good
    <3> QED BY <1>5
  <2> QED BY <1>1, <2>1
<1> QED BY <1>4, <1>5

-----------------------------------------------------------------------------
(* The cache (internal/cache): soundness, and each critical section.        *)

\* The list is a list, the map is a map of entries.
CacheTyped(cache) ==
    /\ cache = [m |-> cache.m, order |-> cache.order]
    /\ cache.order \in Seq(ToSet(cache.order))
    /\ cache.m = [k \in DOMAIN cache.m |-> cache.m[k]]
    /\ \A k \in DOMAIN cache.m :
          cache.m[k] = [value |-> cache.m[k].value, expired |-> cache.m[k].expired]

\* What every critical section leaves behind: a cache in which each key is listed once
\* and that is within its capacity.
Sound(cache, maxEntries) == CacheTyped(cache) /\ Indexed(cache) /\ Bounded(cache, maxEntries)

\* Every entry of one cache has the value that it has in another one.
Within(cache, other) ==
    /\ DOMAIN cache.m \subseteq DOMAIN other.m
    /\ \A k \in DOMAIN cache.m : cache.m[k].value = other.m[k].value

\* The list of a cache is a sequence, and it makes the keys finitely many.
LEMMA KeysAreFinite ==
    ASSUME NEW cache, CacheTyped(cache), Indexed(cache)
    PROVE  /\ IsFiniteSet(DOMAIN cache.m) /\ Cardinality(DOMAIN cache.m) \in Nat
           /\ Len(cache.order) \in Nat /\ DOMAIN cache.order = 1..Len(cache.order)
<1>1. Len(cache.order) \in Nat /\ DOMAIN cache.order = 1..Len(cache.order)
  BY DEF CacheTyped
<1>2. cache.order \in Surjection(1..Len(cache.order), ToSet(cache.order))
  BY <1>1 DEF CacheTyped, Surjection, ToSet
<1>3. IsFiniteSet(1..Len(cache.order))
  BY <1>1, FS_Interval
<1>4. IsFiniteSet(ToSet(cache.order))
  BY <1>2, <1>3, FS_Surjection
<1> QED BY <1>1, <1>4, FS_CardinalityType DEF Indexed

\* Fewer keys are within the capacity too.
LEMMA FewerKeys ==
    ASSUME NEW cache, NEW fewer, NEW maxEntries \in Nat, Sound(cache, maxEntries),
           DOMAIN fewer.m \subseteq DOMAIN cache.m
    PROVE  Bounded(fewer, maxEntries)
<1>1. IsFiniteSet(DOMAIN cache.m) /\ Cardinality(DOMAIN cache.m) <= maxEntries
  BY KeysAreFinite DEF Sound, Bounded
<1>2. /\ Cardinality(DOMAIN fewer.m) \in Nat /\ Cardinality(DOMAIN cache.m) \in Nat
      /\ Cardinality(DOMAIN fewer.m) <= Cardinality(DOMAIN cache.m)
  BY <1>1, FS_Subset, FS_CardinalityType
<1> QED BY <1>1, <1>2 DEF Bounded

\* A cache that is made of a list and the entries it names.
LEMMA NewCache ==
    ASSUME NEW cache, NEW maxEntries \in Nat, Sound(cache, maxEntries), NEW keys,
           NEW order, order \in Seq(ToSet(cache.order)), IsInjective(order),
           ToSet(order) = DOMAIN cache.m \ keys
    PROVE  LET new == [m |-> Without(cache, keys), order |-> order]
           IN  Sound(new, maxEntries) /\ Within(new, cache)
<1> DEFINE new == [m |-> Without(cache, keys), order |-> order]
<1>1. /\ DOMAIN new.m = DOMAIN cache.m \ keys
      /\ \A k \in DOMAIN new.m : new.m[k] = cache.m[k]
      /\ new.m = [k \in DOMAIN new.m |-> new.m[k]]
  <2>1. new.m = Without(cache, keys) /\ CacheTyped(cache)
    BY DEF Sound
  <2>2. ASSUME NEW w, w = Without(cache, keys)
        PROVE  /\ DOMAIN w = DOMAIN cache.m \ keys
               /\ \A k \in DOMAIN w : w[k] = cache.m[k]
               /\ w = [k \in DOMAIN w |-> w[k]]
    BY <2>2 DEF Without, Restrict
  <2> HIDE DEF new
  <2> QED BY <2>1, <2>2
<1>2. order \in Seq(ToSet(order))
  BY DEF ToSet
<1>3. CacheTyped(new)
  BY <1>1, <1>2 DEF CacheTyped, Sound
<1>4. Indexed(new)
  BY <1>1 DEF Indexed
<1>5. Bounded(new, maxEntries)
  BY <1>1, FewerKeys
<1> QED BY <1>1, <1>3, <1>4, <1>5 DEF Sound, Within

\* The first keys of the list are taken away.
LEMMA DropFirstKeeps ==
    ASSUME NEW cache, NEW maxEntries \in Nat, Sound(cache, maxEntries),
           NEW n \in 0..Len(cache.order)
    PROVE  Sound(DropFirst(cache, n), maxEntries) /\ Within(DropFirst(cache, n), cache)
<1> DEFINE s == cache.order
           dropped == ToSet(SubSeq(s, 1, n))
           order == SubSeq(s, n + 1, Len(s))
<1>1. s \in Seq(ToSet(s)) /\ Len(s) \in Nat /\ DOMAIN s = 1..Len(s)
  BY KeysAreFinite DEF Sound, CacheTyped
<1>2. /\ order \in Seq(ToSet(s)) /\ Len(order) = Len(s) - n
      /\ DOMAIN order = 1..(Len(s) - n)
      /\ \A i \in 1..(Len(s) - n) : order[i] = s[n + i]
  BY <1>1
<1>3. dropped = {s[i] : i \in 1..n}
  <2>1. /\ SubSeq(s, 1, n) \in Seq(ToSet(s)) /\ Len(SubSeq(s, 1, n)) = n
        /\ \A i \in 1..n : SubSeq(s, 1, n)[i] = s[i]
    BY <1>1
  <2>2. DOMAIN SubSeq(s, 1, n) = 1..n
    BY <2>1
  <2> QED BY <2>1, <2>2 DEF ToSet
<1>4. IsInjective(s) /\ ToSet(s) = DOMAIN cache.m
  BY DEF Sound, Indexed
<1>5. IsInjective(order)
  <2>1. ASSUME NEW i \in 1..(Len(s) - n), NEW j \in 1..(Len(s) - n), order[i] = order[j]
        PROVE  i = j
    <3>1. n + i \in 1..Len(s) /\ n + j \in 1..Len(s) /\ s[n + i] = s[n + j]
      BY <1>1, <1>2, <2>1
    <3>2. n + i = n + j
      BY <1>1, <1>4, <3>1 DEF IsInjective
    <3> QED BY <1>1, <3>2
  <2> QED BY <1>2, <2>1 DEF IsInjective
<1>6. ToSet(order) = ToSet(s) \ dropped
  <2>1. ASSUME NEW k \in ToSet(order) PROVE k \in ToSet(s) \ dropped
    <3>1. PICK i \in 1..(Len(s) - n) : k = order[i]
      BY <1>2 DEF ToSet
    <3>2. n + i \in 1..Len(s) /\ k = s[n + i]
      BY <1>1, <1>2, <3>1, SMTT(30)
    <3>3. ASSUME NEW j \in 1..n, s[j] = k PROVE FALSE
      <4>1. j = n + i
        BY <1>1, <1>4, <3>2, <3>3 DEF IsInjective
      <4> QED BY <1>1, <3>1, <4>1
    <3> QED BY <1>1, <1>3, <3>2, <3>3 DEF ToSet
  <2>2. ASSUME NEW k \in ToSet(s) \ dropped PROVE k \in ToSet(order)
    <3>1. PICK j \in 1..Len(s) : k = s[j]
      BY <1>1 DEF ToSet
    <3>2. j \notin 1..n
      BY <1>3, <2>2, <3>1
    <3>3. j - n \in 1..(Len(s) - n) /\ n + (j - n) = j
      BY <1>1, <3>2
    <3>4. order[j - n] = k
      BY <1>2, <3>1, <3>3
    <3> QED BY <1>2, <3>3, <3>4 DEF ToSet
  <2> QED BY <2>1, <2>2
<1>7. DropFirst(cache, n) = [m |-> Without(cache, dropped), order |-> order]
  BY DEF DropFirst
<1> HIDE DEF dropped, order
<1> QED BY <1>2, <1>4, <1>5, <1>6, <1>7, NewCache

\* Expired entries are taken away, wherever they are in the list.
LEMMA RemoveExpiredKeeps ==
    ASSUME NEW cache, NEW maxEntries \in Nat, Sound(cache, maxEntries)
    PROVE  Sound(RemoveExpired(cache), maxEntries) /\ Within(RemoveExpired(cache), cache)
<1> DEFINE s == cache.order
           places == {n \in 1..Len(s) : Hit(cache, s[n])}
           expired == {k \in ToSet(s) : Expired(cache, k)}
<1>1. s \in Seq(ToSet(s)) /\ Len(s) \in Nat /\ DOMAIN s = 1..Len(s)
  BY KeysAreFinite DEF Sound, CacheTyped
<1>2. IsInjective(s) /\ ToSet(s) = DOMAIN cache.m
  BY DEF Sound, Indexed
<1>3. {n \in 1..Len(s) : n \in places} = places
  OBVIOUS
<1> DEFINE order == Kept(s, places)
<1>4. /\ order \in Seq(ToSet(s))
      /\ {order[i] : i \in 1..Len(order)} = {s[n] : n \in places}
      /\ \A i, j \in 1..Len(order) : order[i] = order[j] => i = j
  <2>1. \A m, n \in places : s[m] = s[n] => m = n
    BY <1>1, <1>2 DEF IsInjective
  <2> HIDE DEF places
  <2> QED BY <1>1, <1>3, <2>1, KeptFacts, ZenonT(40)
<1>5. RemoveExpired(cache) = [m |-> Without(cache, expired), order |-> order]
  BY DEF RemoveExpired
<1>6. {s[n] : n \in places} = DOMAIN cache.m \ expired
  BY <1>1, <1>2 DEF ToSet, Hit, Expired, Has
<1> HIDE DEF places, expired, order
<1>7. DOMAIN order = 1..Len(order)
  BY <1>4
<1>8. IsInjective(order) /\ ToSet(order) = DOMAIN cache.m \ expired
  BY <1>4, <1>6, <1>7 DEF IsInjective, ToSet
<1> QED BY <1>4, <1>5, <1>8, NewCache

\* One key is taken away.
LEMMA DeleteKeyKeeps ==
    ASSUME NEW cache, NEW maxEntries \in Nat, Sound(cache, maxEntries), NEW key
    PROVE  Sound(DeleteKey(cache, key), maxEntries) /\ Within(DeleteKey(cache, key), cache)
<1> DEFINE s == cache.order
           order == RemoveFirst(s, key)
<1>1. s \in Seq(ToSet(s)) /\ Len(s) \in Nat /\ DOMAIN s = 1..Len(s)
  BY KeysAreFinite DEF Sound, CacheTyped
<1>2. IsInjective(s) /\ ToSet(s) = DOMAIN cache.m
  BY DEF Sound, Indexed
<1>3. CASE \A i \in 1..Len(s) : s[i] # key
  <2>1. order = s
    BY <1>3 DEF RemoveFirst
  <2>2. ToSet(s) = DOMAIN cache.m \ {key}
    BY <1>1, <1>2, <1>3 DEF ToSet
  <2> QED BY <1>1, <1>2, <2>1, <2>2, NewCache DEF DeleteKey
<1>4. CASE \E i \in 1..Len(s) : s[i] = key
  <2>1. PICK i \in 1..Len(s) : s[i] = key
    BY <1>4
  <2>2. SelectInSeq(s, LAMBDA v : v = key) = i
    <3> DEFINE I == {n \in 1..Len(s) : s[n] = key}
    <3>1. I = {i}
      BY <1>1, <1>2, <2>1 DEF IsInjective
    <3>2. Min({i}) = i
      BY <1>1 DEF Min
    <3> QED BY <3>1, <3>2 DEF SelectInSeq
  <2>3. order = SubSeq(s, 1, i - 1) \o SubSeq(s, i + 1, Len(s))
    BY <2>1, <2>2 DEF RemoveFirst, RemoveAt
  <2>4. /\ order \in Seq(ToSet(s)) /\ Len(order) = Len(s) - 1
        /\ \A n \in 1..(Len(s) - 1) : order[n] = IF n < i THEN s[n] ELSE s[n + 1]
    <3> DEFINE front == SubSeq(s, 1, i - 1)
               back == SubSeq(s, i + 1, Len(s))
    <3>1. /\ front \in Seq(ToSet(s)) /\ Len(front) = i - 1
          /\ \A n \in 1..(i - 1) : front[n] = s[n]
      BY <1>1
    <3>2. /\ back \in Seq(ToSet(s)) /\ Len(back) = Len(s) - i
          /\ \A n \in 1..(Len(s) - i) : back[n] = s[i + n]
      BY <1>1
    <3> HIDE DEF front, back
    <3>3. ASSUME NEW n \in 1..(Len(s) - 1)
          PROVE  (front \o back)[n] = IF n < i THEN s[n] ELSE s[n + 1]
      <4>1. CASE n < i
        BY <1>1, <3>1, <3>2, <4>1
      <4>2. CASE ~(n < i)
        <5>1. n - (i - 1) \in 1..(Len(s) - i) /\ i + (n - (i - 1)) = n + 1
          BY <1>1, <4>2
        <5>2. (front \o back)[n] = back[n - (i - 1)]
          BY <1>1, <3>1, <3>2, <4>2, SMTT(30)
        <5> QED BY <3>2, <4>2, <5>1, <5>2
      <4> QED BY <4>1, <4>2
    <3>4. front \o back \in Seq(ToSet(s)) /\ Len(front \o back) = Len(s) - 1
      <4>1. front \o back \in Seq(ToSet(s)) /\ Len(front \o back) = Len(front) + Len(back)
        <5>1. ASSUME NEW S, NEW a \in Seq(S), NEW b \in Seq(S)
              PROVE  a \o b \in Seq(S) /\ Len(a \o b) = Len(a) + Len(b)
          OBVIOUS
        <5> QED BY <3>1, <3>2, <5>1
      <4>2. (i - 1) + (Len(s) - i) = Len(s) - 1
        BY <1>1
      <4> QED BY <3>1, <3>2, <4>1, <4>2
    <3> QED BY <2>3, <3>3, <3>4 DEF front, back
  <2> HIDE DEF order
  <2>5. DOMAIN order = 1..(Len(s) - 1)
    BY <1>1, <2>4
  <2>6. IsInjective(order)
    <3>1. ASSUME NEW a \in 1..(Len(s) - 1), NEW b \in 1..(Len(s) - 1), order[a] = order[b]
          PROVE  a = b
      <4> DEFINE at(n) == IF n < i THEN n ELSE n + 1
      <4>1. at(a) \in 1..Len(s) /\ at(b) \in 1..Len(s) /\ s[at(a)] = s[at(b)]
        BY <1>1, <2>4, <3>1, SMTT(30)
      <4>2. at(a) = at(b)
        BY <1>1, <1>2, <4>1 DEF IsInjective
      <4> QED BY <1>1, <4>2
    <3> QED BY <2>5, <3>1 DEF IsInjective
  <2>7. ToSet(order) = ToSet(s) \ {key}
    <3>1. ASSUME NEW a \in 1..(Len(s) - 1) PROVE order[a] \in ToSet(s) \ {key}
      <4>1. (IF a < i THEN a ELSE a + 1) \in 1..Len(s) \ {i}
        BY <1>1
      <4>2. \A n \in 1..Len(s) \ {i} : s[n] # key
        BY <1>1, <1>2, <2>1 DEF IsInjective
      <4> QED BY <1>1, <2>4, <4>1, <4>2 DEF ToSet
    <3>2. ASSUME NEW n \in 1..Len(s), s[n] # key
          PROVE  \E a \in 1..(Len(s) - 1) : order[a] = s[n]
      <4>1. n # i
        BY <2>1, <3>2
      <4>2. CASE n < i
        <5>1. n \in 1..(Len(s) - 1)
          BY <1>1, <4>2
        <5> QED BY <2>4, <4>2, <5>1
      <4>3. CASE n > i
        <5>1. n - 1 \in 1..(Len(s) - 1) /\ ~(n - 1 < i) /\ (n - 1) + 1 = n
          BY <1>1, <4>3
        <5> QED BY <2>4, <5>1
      <4> QED BY <1>1, <4>1, <4>2, <4>3
    <3>3. ToSet(order) = {order[a] : a \in 1..(Len(s) - 1)} /\ ToSet(s) = {s[n] : n \in 1..Len(s)}
      BY <1>1, <2>5 DEF ToSet
    <3>4. ASSUME NEW k \in ToSet(s) \ {key} PROVE k \in ToSet(order)
      <4>1. PICK n \in 1..Len(s) : s[n] = k
        BY <3>3
      <4> QED BY <3>2, <3>3, <4>1
    <3> QED BY <3>1, <3>3, <3>4
  <2>8. DeleteKey(cache, key) = [m |-> Without(cache, {key}), order |-> order]
    BY DEF DeleteKey, order
  <2> QED BY <1>2, <2>4, <2>6, <2>7, <2>8, NewCache
<1> QED BY <1>3, <1>4

\* There is always enough to drop: the eviction loop of Set ends.
LEMMA EvictionEnds ==
    ASSUME NEW cache, NEW maxEntries \in Nat \ {0}, Sound(cache, maxEntries)
    PROVE  Len(cache.order) \in Evictions(cache, maxEntries)
<1> DEFINE s == cache.order
           dropped == ToSet(SubSeq(s, 1, Len(s)))
<1>1. s \in Seq(ToSet(s)) /\ Len(s) \in Nat /\ DOMAIN s = 1..Len(s)
  BY KeysAreFinite DEF Sound, CacheTyped
<1>2. SubSeq(s, 1, Len(s)) = s
  BY <1>1
<1>3. DOMAIN cache.m \ dropped = {}
  BY <1>2 DEF Sound, Indexed
<1>4. DOMAIN Without(cache, dropped) = DOMAIN cache.m \ dropped
  BY DEF Without, Restrict
<1>5. Cardinality(DOMAIN DropFirst(cache, Len(s)).m) = 0
  BY <1>3, <1>4, FS_EmptySet DEF DropFirst
<1> QED BY <1>1, <1>5 DEF Evictions

\* Set of a sound cache always ends: there is an eviction that makes room.
LEMMA SetIsPossible ==
    ASSUME NEW cache, NEW maxEntries \in Nat \ {0}, Sound(cache, maxEntries), NEW key
    PROVE  CanSet(cache, key, maxEntries)
BY RemoveExpiredKeeps, EvictionEnds DEF CanSet

\* Set puts the value under the key, and brings nothing else back.
LEMMA SetKeeps ==
    ASSUME NEW cache, NEW maxEntries \in Nat \ {0}, Sound(cache, maxEntries), NEW key, NEW value
    PROVE  LET new == Set(cache, key, value, maxEntries)
           IN  /\ Sound(new, maxEntries)
               /\ key \in DOMAIN new.m /\ new.m[key].value = value /\ ~new.m[key].expired
               /\ \A k \in DOMAIN new.m \ {key} :
                     k \in DOMAIN cache.m /\ new.m[k].value = cache.m[k].value
<1>1. ASSUME NEW room, CacheTyped(room)
      PROVE  LET m == Put(room, key, value)
             IN  /\ DOMAIN m = DOMAIN room.m \cup {key}
                 /\ m = [k \in DOMAIN m |-> m[k]]
                 /\ \A k \in DOMAIN m : m[k] = [value |-> m[k].value, expired |-> m[k].expired]
                 /\ m[key].value = value /\ ~m[key].expired
                 /\ \A k \in DOMAIN m \ {key} : m[k] = room.m[k]
  <2>1. ASSUME NEW m, m = Put(room, key, value)
        PROVE  /\ DOMAIN m = DOMAIN room.m \cup {key}
               /\ m = [k \in DOMAIN m |-> m[k]]
               /\ m[key] = [value |-> value, expired |-> FALSE]
               /\ \A k \in DOMAIN m \ {key} : m[k] = room.m[k]
    BY <2>1 DEF Put, Entry
  <2> SUFFICES ASSUME NEW m, m = Put(room, key, value)
               PROVE  /\ DOMAIN m = DOMAIN room.m \cup {key}
                      /\ m = [k \in DOMAIN m |-> m[k]]
                      /\ \A k \in DOMAIN m : m[k] = [value |-> m[k].value, expired |-> m[k].expired]
                      /\ m[key].value = value /\ ~m[key].expired
                      /\ \A k \in DOMAIN m \ {key} : m[k] = room.m[k]
    OBVIOUS
  <2>2. m[key].value = value /\ m[key].expired = FALSE
    BY <2>1
  <2>3. ASSUME NEW k \in DOMAIN m \ {key}
        PROVE  m[k] = [value |-> m[k].value, expired |-> m[k].expired]
    BY <1>1, <2>1 DEF CacheTyped
  <2> QED BY <2>1, <2>2, <2>3
<1>2. CASE Has(cache, key)
  <2> DEFINE m == Put(cache, key, value)
  <2>1. DOMAIN m = DOMAIN cache.m
    BY <1>1, <1>2 DEF Has, Sound
  <2>2. Set(cache, key, value, maxEntries) = [m |-> m, order |-> cache.order]
    <3>1. ASSUME NEW new, new = [cache EXCEPT !.m = m] PROVE new = [m |-> m, order |-> cache.order]
      <4> HIDE DEF m
      <4> QED BY <3>1 DEF Sound, CacheTyped
    <3> QED BY <1>2, <3>1 DEF Set
  <2>3. Sound([m |-> m, order |-> cache.order], maxEntries)
    <3>1. CacheTyped(cache) /\ Indexed(cache) /\ Bounded(cache, maxEntries)
      BY DEF Sound
    <3>2. CacheTyped([m |-> m, order |-> cache.order])
      <4>1. /\ m = [k \in DOMAIN m |-> m[k]]
            /\ \A k \in DOMAIN m : m[k] = [value |-> m[k].value, expired |-> m[k].expired]
        BY <1>1, <3>1
      <4> HIDE DEF m
      <4> QED BY <3>1, <4>1 DEF CacheTyped
    <3> HIDE DEF m
    <3> QED BY <2>1, <3>1, <3>2 DEF Sound, Indexed, Bounded
  <2>4. /\ m[key].value = value /\ ~m[key].expired
        /\ \A k \in DOMAIN m \ {key} : m[k] = cache.m[k]
    BY <1>1 DEF Sound
  <2> HIDE DEF m
  <2> QED BY <1>2, <2>1, <2>2, <2>3, <2>4 DEF Has
<1>3. CASE ~Has(cache, key)
  <2> DEFINE fresh == RemoveExpired(cache)
             room == MakeRoom(fresh, maxEntries)
             m == Put(room, key, value)
  <2>1. Sound(fresh, maxEntries) /\ Within(fresh, cache)
    BY RemoveExpiredKeeps
  <2> HIDE DEF fresh
  <2>2. Min(Evictions(fresh, maxEntries)) \in Evictions(fresh, maxEntries)
    <3>1. Evictions(fresh, maxEntries) # {} /\ Evictions(fresh, maxEntries) \subseteq Nat
      BY <2>1, EvictionEnds, KeysAreFinite DEF Evictions
    <3> HIDE DEF fresh
    <3> QED BY <3>1, LeastNumber DEF Min
  <2>3. /\ Sound(room, maxEntries) /\ Within(room, fresh)
        /\ Cardinality(DOMAIN room.m) < maxEntries
    <3>1. Min(Evictions(fresh, maxEntries)) \in 0..Len(fresh.order)
      BY <2>2 DEF Evictions
    <3> QED BY <2>1, <2>2, <3>1, DropFirstKeeps DEF MakeRoom, Evictions
  <2> HIDE DEF room
  <2>4. key \notin DOMAIN room.m
    BY <1>3, <2>1, <2>3 DEF Within, Has
  <2>5. /\ DOMAIN m = DOMAIN room.m \cup {key}
        /\ m = [k \in DOMAIN m |-> m[k]]
        /\ \A k \in DOMAIN m : m[k] = [value |-> m[k].value, expired |-> m[k].expired]
        /\ m[key].value = value /\ ~m[key].expired
        /\ \A k \in DOMAIN m \ {key} : m[k] = room.m[k]
    BY <1>1, <2>3 DEF Sound
  <2> HIDE DEF m
  <2> DEFINE s == room.order
             order == Append(s, key)
             new == [m |-> m, order |-> order]
  <2>6. Set(cache, key, value, maxEntries) = new
    BY <1>3 DEF Set, fresh, room, m
  <2>7. /\ s \in Seq(ToSet(s)) /\ Len(s) \in Nat /\ DOMAIN s = 1..Len(s) /\ IsInjective(s)
        /\ ToSet(s) = DOMAIN room.m
    BY <2>3, KeysAreFinite DEF Sound, CacheTyped, Indexed
  <2>8. /\ order \in Seq(ToSet(s) \cup {key}) /\ DOMAIN order = (1..Len(s)) \cup {Len(s) + 1}
        /\ order[Len(s) + 1] = key
        /\ \A i \in 1..Len(s) : order[i] = s[i]
    <3>1. s \in Seq(ToSet(s) \cup {key})
      BY <2>7
    <3> QED BY <2>7, <3>1
  <2>9. ToSet(order) = ToSet(s) \cup {key}
    <3> HIDE DEF order
    <3> QED BY <2>7, <2>8 DEF ToSet
  <2>10. IsInjective(order)
    <3>1. \A i \in 1..Len(s) : s[i] # key /\ i # Len(s) + 1
      BY <2>4, <2>7 DEF ToSet
    <3> HIDE DEF order
    <3> QED BY <2>7, <2>8, <3>1 DEF IsInjective
  <2>11. CacheTyped(new)
    <3> HIDE DEF order
    <3> QED BY <2>5, <2>8, <2>9 DEF CacheTyped
  <2>12. Bounded(new, maxEntries)
    <3>1. IsFiniteSet(DOMAIN room.m) /\ Cardinality(DOMAIN room.m) \in Nat
      BY <2>3, KeysAreFinite DEF Sound
    <3>2. Cardinality(DOMAIN room.m \cup {key}) = Cardinality(DOMAIN room.m) + 1
      BY <2>4, <3>1, FS_AddElement
    <3> QED BY <2>3, <2>5, <3>1, <3>2 DEF Bounded
  <2>13. Indexed(new)
    <3> HIDE DEF order
    <3> QED BY <2>5, <2>7, <2>9, <2>10 DEF Indexed
  <2>14. \A k \in DOMAIN m \ {key} : k \in DOMAIN cache.m /\ m[k].value = cache.m[k].value
    BY <2>1, <2>3, <2>5 DEF Within
  <2> QED BY <2>5, <2>6, <2>11, <2>12, <2>13, <2>14 DEF Sound
<1> QED BY <1>2, <1>3

\* The time of an entry comes, and nothing else changes.
LEMMA AgedKeeps ==
    ASSUME NEW cache, NEW maxEntries \in Nat, Sound(cache, maxEntries), NEW key \in DOMAIN cache.m
    PROVE  Sound(Aged(cache, key), maxEntries) /\ Within(Aged(cache, key), cache)
<1> DEFINE m == [cache.m EXCEPT ![key] = [value |-> cache.m[key].value, expired |-> TRUE]]
<1>1. Aged(cache, key) = [m |-> m, order |-> cache.order]
  <2>1. ASSUME NEW e, e = [value |-> cache.m[key].value, expired |-> cache.m[key].expired]
        PROVE  [e EXCEPT !.expired = TRUE] = [value |-> cache.m[key].value, expired |-> TRUE]
    <3>1. ASSUME NEW r, r = [e EXCEPT !.expired = TRUE]
          PROVE  r = [value |-> cache.m[key].value, expired |-> TRUE]
      BY <2>1, <3>1
    <3> QED BY <3>1
  <2>2. [cache.m[key] EXCEPT !.expired = TRUE] = [value |-> cache.m[key].value, expired |-> TRUE]
    BY <2>1 DEF Sound, CacheTyped
  <2>3. ASSUME NEW new, new = [cache EXCEPT !.m = m] PROVE new = [m |-> m, order |-> cache.order]
    <3> HIDE DEF m
    <3> QED BY <2>3 DEF Sound, CacheTyped
  <2>4. Aged(cache, key) = [cache EXCEPT !.m = m]
    BY <2>2 DEF Aged
  <2> QED BY <2>3, <2>4
<1>2. /\ DOMAIN m = DOMAIN cache.m /\ m = [k \in DOMAIN m |-> m[k]]
      /\ m[key] = [value |-> cache.m[key].value, expired |-> TRUE]
      /\ \A k \in DOMAIN m \ {key} : m[k] = cache.m[k]
  BY DEF Sound, CacheTyped
<1> HIDE DEF m
<1>3. \A k \in DOMAIN m : /\ m[k] = [value |-> m[k].value, expired |-> m[k].expired]
                          /\ m[k].value = cache.m[k].value
  BY <1>2 DEF Sound, CacheTyped
<1>4. CacheTyped([m |-> m, order |-> cache.order])
  BY <1>2, <1>3 DEF Sound, CacheTyped
<1> QED BY <1>1, <1>2, <1>3, <1>4 DEF Sound, Indexed, Bounded, Within

\* Clear.
LEMMA EmptyIsSound ==
    ASSUME NEW maxEntries \in Nat PROVE Sound(EmptyCache, maxEntries) /\ DOMAIN EmptyCache.m = {}
<1>1. Cardinality({}) = 0
  BY FS_EmptySet
<1> QED BY <1>1 DEF Sound, CacheTyped, Indexed, Bounded, EmptyCache, IsInjective, ToSet

-----------------------------------------------------------------------------
(* The order of title rows (internal/search).                               *)

\* Of two texts that differ, one is before the other.
LEMMA TextsAreOrdered ==
    ASSUME NEW a \in Seq(Int), NEW b \in Seq(Int), a # b
    PROVE  TextBefore(a, b) \/ TextBefore(b, a)
<1> DEFINE differs == {k \in Nat \ {0} : ~(k <= Len(a) /\ k <= Len(b) /\ a[k] = b[k])}
<1>1. PICK k \in differs : \A m \in differs : k <= m
  <2>1. Len(a) + 1 \in differs /\ differs \subseteq Nat
    OBVIOUS
  <2> HIDE DEF differs
  <2> QED BY <2>1, LeastNumber
<1>2. \A i \in 1..(k - 1) : i <= Len(a) /\ i <= Len(b) /\ a[i] = b[i]
  <2>1. ASSUME NEW i \in 1..(k - 1) PROVE i \notin differs
    BY <1>1
  <2> QED BY <1>1, <2>1
<1>3. k \in Nat \ {0} /\ k <= Len(a) + 1 /\ k <= Len(b) + 1
  <2>1. CASE k = 1
    BY <2>1
  <2>2. CASE k # 1
    BY <1>1, <1>2, <2>2
  <2> QED BY <2>1, <2>2
<1>4. CASE k = Len(a) + 1 /\ k = Len(b) + 1
  <2>1. Len(a) = Len(b) /\ \A i \in 1..Len(a) : a[i] = b[i]
    BY <1>2, <1>4
  <2> QED BY <2>1
<1>5. CASE k = Len(a) + 1 /\ k <= Len(b)
  BY <1>2, <1>3, <1>5 DEF TextBefore
<1>6. CASE k = Len(b) + 1 /\ k <= Len(a)
  BY <1>2, <1>3, <1>6, SMTT(30) DEF TextBefore
<1>7. CASE k <= Len(a) /\ k <= Len(b)
  <2>1. a[k] # b[k] /\ a[k] \in Int /\ b[k] \in Int
    BY <1>1, <1>3, <1>7
  <2>2. a[k] < b[k] \/ b[k] < a[k]
    BY <2>1
  <2> QED BY <1>2, <1>3, <1>7, <2>2 DEF TextBefore
<1> QED BY <1>3, <1>4, <1>5, <1>6, <1>7

\* So it is with keys of the same comparisons.
LEMMA KeysAreOrdered ==
    ASSUME NEW n \in Nat, NEW a, NEW b, DOMAIN a = 1..n, DOMAIN b = 1..n,
           \A k \in 1..n : a[k] \in Seq(Int) /\ b[k] \in Seq(Int),
           NEW d \in 1..n, a[d] # b[d]
    PROVE  KeyBefore(a, b) \/ KeyBefore(b, a)
<1> DEFINE differs == {k \in 1..n : a[k] # b[k]}
<1>1. PICK k \in differs : \A m \in differs : k <= m
  <2>1. d \in differs /\ differs \subseteq Nat
    OBVIOUS
  <2> HIDE DEF differs
  <2> QED BY <2>1, LeastNumber
<1>2. \A i \in 1..(k - 1) : a[i] = b[i]
  BY <1>1
<1>3. TextBefore(a[k], b[k]) \/ TextBefore(b[k], a[k])
  BY <1>1, TextsAreOrdered
<1> QED BY <1>1, <1>2, <1>3 DEF KeyBefore

\* The keys of a row are texts, as many as its kind has, and hold all of its columns.
LEMMA RowKeyFacts ==
    ASSUME NEW domain, NEW r \in Rows(domain)
    PROVE  LET n == IF domain = "sonarr" THEN 6 ELSE 7
               key == RowKey(domain, r)
           IN  /\ DOMAIN key = 1..n
               /\ \A k \in 1..n : key[k] \in Seq(Int)
               /\ key[1] = <<IF r.monitored THEN 0 ELSE 1>>
               /\ domain = "sonarr" => /\ key[2] = <<100 - Len(r.title)>> /\ key[3] = r.title
                                     /\ key[4] = r.main /\ key[5] = r.clean
                                     /\ key[6] = <<r.season + 1>>
               /\ domain # "sonarr" => /\ key[2] = <<r.id>> /\ key[3] = <<r.sno>>
                                     /\ key[4] = r.title /\ key[5] = r.main
                                     /\ key[6] = <<r.year>> /\ key[7] = r.clean
<1> DEFINE m == IF r.monitored THEN 0 ELSE 1
<1>1. /\ r.title \in Seq(Int) /\ r.main \in Seq(Int) /\ r.clean \in Seq(Int) /\ m \in Int
      /\ r.season \in Int /\ r.id \in Int /\ r.sno \in Int /\ r.year \in Int
      /\ 100 - Len(r.title) \in Int /\ r.season + 1 \in Int
  BY DEF Rows, Texts
<1> HIDE DEF m
<1>2. CASE domain = "sonarr"
  <2>1. RowKey(domain, r) = << <<m>>, <<100 - Len(r.title)>>, r.title, r.main, r.clean,
                             <<r.season + 1>> >>
    BY <1>2 DEF RowKey, m
  <2>2. <<m>> \in Seq(Int) /\ <<100 - Len(r.title)>> \in Seq(Int) /\ <<r.season + 1>> \in Seq(Int)
    BY <1>1
  <2> SUFFICES ASSUME NEW key, key = RowKey(domain, r)
               PROVE  /\ DOMAIN key = 1..6
                      /\ \A k \in 1..6 : key[k] \in Seq(Int)
                      /\ key[1] = <<m>> /\ key[2] = <<100 - Len(r.title)>> /\ key[3] = r.title
                      /\ key[4] = r.main /\ key[5] = r.clean /\ key[6] = <<r.season + 1>>
    BY <1>2 DEF m
  <2>3. /\ DOMAIN key = 1..6
        /\ key[1] = <<m>> /\ key[2] = <<100 - Len(r.title)>> /\ key[3] = r.title
        /\ key[4] = r.main /\ key[5] = r.clean /\ key[6] = <<r.season + 1>>
    BY <2>1
  <2>4. \A k \in 1..6 : k = 1 \/ k = 2 \/ k = 3 \/ k = 4 \/ k = 5 \/ k = 6
    OBVIOUS
  <2> QED BY <1>1, <2>2, <2>3, <2>4
<1>3. CASE domain # "sonarr"
  <2>1. RowKey(domain, r) = << <<m>>, <<r.id>>, <<r.sno>>, r.title, r.main, <<r.year>>, r.clean >>
    BY <1>3 DEF RowKey, m
  <2>2. /\ <<m>> \in Seq(Int) /\ <<r.id>> \in Seq(Int)
        /\ <<r.sno>> \in Seq(Int) /\ <<r.year>> \in Seq(Int)
    BY <1>1
  <2> SUFFICES ASSUME NEW key, key = RowKey(domain, r)
               PROVE  /\ DOMAIN key = 1..7
                      /\ \A k \in 1..7 : key[k] \in Seq(Int)
                      /\ key[1] = <<m>> /\ key[2] = <<r.id>> /\ key[3] = <<r.sno>>
                      /\ key[4] = r.title /\ key[5] = r.main
                      /\ key[6] = <<r.year>> /\ key[7] = r.clean
    BY <1>3 DEF m
  <2>3. /\ DOMAIN key = 1..7
        /\ key[1] = <<m>> /\ key[2] = <<r.id>> /\ key[3] = <<r.sno>>
        /\ key[4] = r.title /\ key[5] = r.main
        /\ key[6] = <<r.year>> /\ key[7] = r.clean
    BY <2>1
  <2>4. \A k \in 1..7 : k = 1 \/ k = 2 \/ k = 3 \/ k = 4 \/ k = 5 \/ k = 6 \/ k = 7
    OBVIOUS
  <2> QED BY <1>1, <2>2, <2>3, <2>4
<1> QED BY <1>2, <1>3

\* The keys of a row are all it has: rows that differ have different keys.
LEMMA RowsAreOrdered ==
    ASSUME NEW domain, NEW r \in Rows(domain), NEW q \in Rows(domain), r # q
    PROVE  \/ KeyBefore(RowKey(domain, r), RowKey(domain, q))
           \/ KeyBefore(RowKey(domain, q), RowKey(domain, r))
<1> DEFINE n == IF domain = "sonarr" THEN 6 ELSE 7
           a == RowKey(domain, r)
           b == RowKey(domain, q)
<1>1. \E k \in 1..n : a[k] # b[k]
  <2>1. SUFFICES ASSUME \A k \in 1..n : a[k] = b[k] PROVE FALSE
    OBVIOUS
  <2>2. \A x, y : <<x>> = <<y>> => x = y
    OBVIOUS
  <2>3. r.monitored = q.monitored
    BY <2>1, <2>2, RowKeyFacts DEF Rows
  <2>4. CASE domain = "sonarr"
    <3>1. /\ r.title = q.title /\ r.main = q.main /\ r.clean = q.clean
          /\ r.season + 1 = q.season + 1
      BY <2>1, <2>2, <2>4, RowKeyFacts
    <3> QED BY <2>3, <2>4, <3>1 DEF Rows
  <2>5. CASE domain # "sonarr"
    <3>1. /\ r.title = q.title /\ r.main = q.main /\ r.clean = q.clean
          /\ r.id = q.id /\ r.sno = q.sno /\ r.year = q.year
      BY <2>1, <2>2, <2>5, RowKeyFacts
    <3> QED BY <2>3, <2>5, <3>1 DEF Rows
  <2> QED BY <2>4, <2>5
<1>2. /\ n \in Nat /\ DOMAIN a = 1..n /\ DOMAIN b = 1..n
      /\ \A k \in 1..n : a[k] \in Seq(Int) /\ b[k] \in Seq(Int)
  BY RowKeyFacts
<1> HIDE DEF n, a, b
<1>3. KeyBefore(a, b) \/ KeyBefore(b, a)
  BY <1>1, <1>2, KeysAreOrdered
<1> QED BY <1>3 DEF a, b

\* SetToSeqs lists every element.
LEMMA ListsAll ==
    ASSUME NEW S, IsFiniteSet(S), NEW s \in SetToSeqs(S)
    PROVE  /\ Cardinality(S) \in Nat /\ s \in [1..Cardinality(S) -> S]
           /\ \A i, j \in 1..Cardinality(S) : s[i] = s[j] => i = j
           /\ \A x \in S : \E i \in 1..Cardinality(S) : s[i] = x
<1> DEFINE n == Cardinality(S)
<1>1. n \in Nat
  BY FS_CardinalityType
<1>2. s \in [1..n -> S] /\ \A i, j \in 1..n : s[i] = s[j] => i = j
  BY DEF SetToSeqs
<1>3. s \in Injection(1..n, S)
  BY <1>2 DEF Injection, IsInjective
<1>4. IsFiniteSet(1..n) /\ Cardinality(1..n) = n
  BY <1>1, FS_Interval
<1>5. s \in Surjection(1..n, S)
  BY <1>3, <1>4, FS_Injection
<1> QED BY <1>1, <1>2, <1>5 DEF Surjection

\* There is one order of the rows at most.
LEMMA OneOrdering ==
    ASSUME NEW domain, NEW these, IsFiniteSet(these), these \subseteq Rows(domain),
           NEW s \in Orderings(domain, these), NEW t \in Orderings(domain, these)
    PROVE  s = t
<1> DEFINE n == Cardinality(these)
           differs == {k \in 1..n : s[k] # t[k]}
<1>1. /\ n \in Nat /\ s \in [1..n -> these] /\ t \in [1..n -> these]
      /\ \A i, j \in 1..n : s[i] = s[j] => i = j
      /\ \A i, j \in 1..n : t[i] = t[j] => i = j
      /\ \A x \in these : \E i \in 1..n : s[i] = x
      /\ \A x \in these : \E i \in 1..n : t[i] = x
  BY ListsAll DEF Orderings
<1>2. \A i, j \in 1..n :
         i < j => /\ ~KeyBefore(RowKey(domain, s[j]), RowKey(domain, s[i]))
                  /\ ~KeyBefore(RowKey(domain, t[j]), RowKey(domain, t[i]))
  BY <1>1 DEF Orderings
<1> HIDE DEF n
<1>3. CASE differs # {}
  <2>1. PICK k \in differs : \A m \in differs : k <= m
    <3>1. differs \subseteq Nat
      OBVIOUS
    <3> HIDE DEF differs
    <3> QED BY <1>3, <3>1, LeastNumber
  <2>2. \A i \in 1..n : i < k => s[i] = t[i]
    BY <1>1, <2>1
  <2>3. k \in 1..n /\ s[k] \in these /\ t[k] \in these /\ s[k] # t[k]
    BY <1>1, <2>1
  <2>4. PICK j \in 1..n : t[j] = s[k]
    BY <1>1, <2>3
  <2>5. PICK i \in 1..n : s[i] = t[k]
    BY <1>1, <2>3
  <2>6. k < j
    <3>1. j # k
      BY <2>3, <2>4
    <3>2. ~(j < k)
      BY <1>1, <2>2, <2>3, <2>4, <3>1
    <3> QED BY <1>1, <2>3, <3>1, <3>2
  <2>7. k < i
    <3>1. i # k
      BY <2>3, <2>5
    <3>2. ~(i < k)
      BY <1>1, <2>2, <2>3, <2>5, <3>1
    <3> QED BY <1>1, <2>3, <3>1, <3>2
  <2>8. ~KeyBefore(RowKey(domain, s[k]), RowKey(domain, t[k]))
    BY <1>2, <2>3, <2>4, <2>6
  <2>9. ~KeyBefore(RowKey(domain, t[k]), RowKey(domain, s[k]))
    BY <1>2, <2>3, <2>5, <2>7
  <2> QED BY <2>3, <2>8, <2>9, RowsAreOrdered
<1>4. CASE differs = {}
  <2>1. \A k \in 1..n : s[k] = t[k]
    BY <1>4
  <2>2. s = [k \in 1..n |-> s[k]] /\ t = [k \in 1..n |-> t[k]]
    BY <1>1
  <2> HIDE DEF differs
  <2> QED BY <2>1, <2>2
<1> QED BY <1>3, <1>4

-----------------------------------------------------------------------------
(* Recursion along a list; titles and candidates.                           *)

\* A function over 0..m that step makes from x0, one number after the other.
MadeBy(f, X, x0, step, m) ==
    f \in [0..m -> X] /\ f[0] = x0 /\ \A n \in 1..m : f[n] = step[n][f[n - 1]]

\* Each step stays among the values.
StaysIn(step, X, m) == \A n \in 1..m : \A x \in X : step[n][x] \in X

\* There is one.
LEMMA Recursion ==
    ASSUME NEW X, NEW x0 \in X, NEW L \in Nat, NEW step,
           StaysIn(step, X, L)
    PROVE  \E f : MadeBy(f, X, x0, step, L)
<1> DEFINE Made(f, m) == MadeBy(f, X, x0, step, m)
           bad == {m \in 0..L : ~\E f : Made(f, m)}
<1>1. CASE bad = {}
  <2>1. \E f : Made(f, L)
    BY <1>1
  <2> QED BY <2>1
<1>2. CASE bad # {}
  <2>1. PICK b \in bad : \A m \in bad : b <= m
    <3>1. bad \subseteq Nat
      OBVIOUS
    <3> HIDE DEF bad
    <3> QED BY <1>2, <3>1, LeastNumber
  <2>2. CASE b = 0
    <3> DEFINE f == [n \in 0..0 |-> x0]
    <3>1. Made(f, 0)
      BY DEF MadeBy
    <3> QED BY <2>1, <2>2, <3>1
  <2>3. CASE b # 0
    <3>1. b - 1 \in 0..L /\ b \in 1..L /\ ~(b <= b - 1)
      BY <2>1, <2>3
    <3>2. PICK g : Made(g, b - 1)
      BY <2>1, <3>1
    <3>3. g[b - 1] \in X /\ step[b][g[b - 1]] \in X
      BY <3>1, <3>2 DEF MadeBy, StaysIn
    <3> DEFINE f == [n \in 0..b |-> IF n = b THEN step[b][g[b - 1]] ELSE g[n]]
    <3>4. f \in [0..b -> X] /\ f[0] = x0 /\ f[b] = step[b][g[b - 1]]
          /\ \A n \in 0..(b - 1) : f[n] = g[n]
      BY <3>1, <3>2, <3>3 DEF MadeBy
    <3> HIDE DEF f
    <3>5. \A n \in 1..b : f[n] = step[n][f[n - 1]]
      <4>1. ASSUME NEW n \in 1..b PROVE f[n] = step[n][f[n - 1]]
        <5>1. f[n - 1] = g[n - 1]
          BY <3>1, <3>4
        <5>2. CASE n = b
          BY <3>4, <5>1, <5>2
        <5>3. CASE n # b
          BY <3>1, <3>2, <3>4, <5>1, <5>3 DEF MadeBy
        <5> QED BY <5>2, <5>3
      <4> QED BY <4>1
    <3>6. Made(f, b)
      BY <3>4, <3>5 DEF MadeBy
    <3> QED BY <2>1, <3>6
  <2> QED BY <2>2, <2>3
<1> QED BY <1>1, <1>2

\* FlattenSeq appends one sequence after the other.
LEMMA FlattenIs ==
    ASSUME NEW S, NEW seqs \in Seq(Seq(S))
    PROVE  \E f \in [0..Len(seqs) -> Seq(S)] :
              /\ f[0] = <<>> /\ \A n \in 1..Len(seqs) : f[n] = f[n - 1] \o seqs[n]
              /\ FlattenSeq(seqs) = f[Len(seqs)]
<1> DEFINE L == Len(seqs)
           step == [n \in 1..L |-> [x \in Seq(S) |-> x \o seqs[n]]]
<1>1. L \in Nat /\ \A n \in 1..L : seqs[n] \in Seq(S)
  OBVIOUS
<1> HIDE DEF L
<1>2. <<>> \in Seq(S) /\ \A n \in 1..L : \A x \in Seq(S) :
         step[n][x] = x \o seqs[n] /\ step[n][x] \in Seq(S)
  BY <1>1
<1>3. PICK f \in [0..L -> Seq(S)] : f[0] = <<>> /\ \A n \in 1..L : f[n] = step[n][f[n - 1]]
  <2> HIDE DEF step
  <2>1. StaysIn(step, Seq(S), L)
    BY <1>2 DEF StaysIn
  <2>2. \E f : MadeBy(f, Seq(S), <<>>, step, L)
    BY <1>1, <1>2, <2>1, Recursion
  <2> QED BY <2>2 DEF MadeBy
<1>4. \A n \in 1..L : /\ f[n - 1] \in Seq(S) /\ f[n] = f[n - 1] \o seqs[n]
                      /\ n = 1 => f[n] = seqs[n]
  <2>1. ASSUME NEW n \in 1..L
        PROVE  /\ f[n - 1] \in Seq(S) /\ f[n] = f[n - 1] \o seqs[n]
               /\ n = 1 => f[n] = seqs[n]
    <3>1. n - 1 \in 0..L
      BY <1>1
    <3>2. f[n - 1] \in Seq(S)
      BY <1>3, <3>1
    <3>3. step[n][f[n - 1]] = f[n - 1] \o seqs[n]
      BY <3>2
    <3>4. f[n] = f[n - 1] \o seqs[n]
      BY <1>3, <3>3
    <3>5. n = 1 => f[n - 1] = <<>>
      BY <1>3
    <3>6. <<>> \o seqs[n] = seqs[n]
      BY <1>1
    <3> QED BY <3>2, <3>4, <3>5, <3>6
  <2> QED BY <2>1
<1>5. CASE L = 0
  <2>1. seqs = <<>>
    BY <1>5 DEF L
  <2>2. FlattenSeq(seqs) = f[L]
    BY <1>3, <1>5, <2>1 DEF FlattenSeq, L
  <2> QED BY <1>3, <1>4, <2>2 DEF L
<1>6. CASE L # 0
  <2> DEFINE Flatten(h) == h = [i \in 1..L |-> IF i = 1 THEN seqs[i] ELSE h[i - 1] \o seqs[i]]
             g == [i \in 1..L |-> f[i]]
             h == CHOOSE h : Flatten(h)
  <2>1. Flatten(g)
    <3>1. ASSUME NEW i \in 1..L PROVE g[i] = IF i = 1 THEN seqs[i] ELSE g[i - 1] \o seqs[i]
      <4>1. CASE i = 1
        BY <1>4, <4>1
      <4>2. CASE i # 1
        <5>1. i - 1 \in 1..L
          BY <1>1, <4>2
        <5>2. g[i - 1] = f[i - 1] /\ g[i] = f[i]
          BY <5>1
        <5> QED BY <1>4, <4>2, <5>2
      <4> QED BY <4>1, <4>2
    <3>2. g = [i \in 1..L |-> g[i]]
      OBVIOUS
    <3> HIDE DEF g
    <3> QED BY <3>1, <3>2
  <2>2. Flatten(h)
    <3> HIDE DEF Flatten, g
    <3> QED BY <2>1
  <2>3. FlattenSeq(seqs) = h[L]
    BY <1>1, <1>6 DEF FlattenSeq, L
  <2> HIDE DEF h
  <2> DEFINE bad == {i \in 1..L : h[i] # f[i]}
  <2>4. CASE bad # {}
    <3>1. PICK b \in bad : \A m \in bad : b <= m
      <4>1. bad \subseteq Nat
        OBVIOUS
      <4> HIDE DEF bad
      <4> QED BY <2>4, <4>1, LeastNumber
    <3>2. CASE b = 1
      <4>1. h[1] = seqs[1]
        BY <2>2, <3>1, <3>2
      <4> QED BY <1>4, <3>1, <3>2, <4>1
    <3>3. CASE b # 1
      <4>1. b - 1 \in 1..L /\ b \in 1..L /\ ~(b <= b - 1)
        BY <1>1, <3>1, <3>3
      <4>2. h[b - 1] = f[b - 1]
        BY <3>1, <4>1
      <4>3. h[b] = h[b - 1] \o seqs[b]
        BY <2>2, <3>3, <4>1
      <4> QED BY <1>4, <3>1, <4>1, <4>2, <4>3
    <3> QED BY <3>2, <3>3
  <2>5. CASE bad = {}
    <3>1. h[L] = f[L]
      <4>1. L \in 1..L
        BY <1>1, <1>6
      <4> HIDE DEF Flatten, g
      <4> QED BY <2>5, <4>1
    <3> QED BY <1>3, <1>4, <2>3, <3>1 DEF L
  <2> QED BY <2>4, <2>5
<1> QED BY <1>5, <1>6

\* A concatenation of lists of something is one.
LEMMA FlattenTyped ==
    ASSUME NEW S, NEW seqs \in Seq(Seq(S))
    PROVE  FlattenSeq(seqs) \in Seq(S)
<1>1. PICK f \in [0..Len(seqs) -> Seq(S)] : FlattenSeq(seqs) = f[Len(seqs)]
  BY FlattenIs
<1>2. Len(seqs) \in 0..Len(seqs)
  OBVIOUS
<1> QED BY <1>1, <1>2

\* A text without a word is a text.
LEMMA StripTyped ==
    ASSUME NEW text \in Texts, NEW words
    PROVE  StripLast(text, words) \in Texts
BY DEF StripLast, Texts, Front

\* Some of the texts are texts.
LEMMA UniqueTyped ==
    ASSUME NEW texts \in Seq(Texts)
    PROVE  UniqueNonEmpty(texts) \in Seq(Texts)
BY KeptFacts DEF UniqueNonEmpty

\* What a candidate may be.
CandidateSet == [query : Texts, main : Texts, season : Int, year : Nat]

\* The candidates of a row are candidates.
LEMMA RowCandidatesTyped ==
    ASSUME NEW domain, NEW row \in Rows(domain)
    PROVE  RowCandidates(domain, row) \in Seq(CandidateSet)
<1> DEFINE plain == [query |-> row.title, main |-> row.main,
                     season |-> row.season, year |-> row.year]
           dated == [plain EXCEPT !.query = Append(row.title, row.year)]
<1>1. /\ row.title \in Texts /\ row.main \in Texts /\ row.season \in Int /\ row.year \in Nat
      /\ Append(row.title, row.year) \in Texts
  BY DEF Rows, Texts
<1>2. plain \in CandidateSet
  BY <1>1 DEF CandidateSet
<1>3. dated \in CandidateSet
  <2> HIDE DEF plain
  <2> QED BY <1>1, <1>2 DEF CandidateSet
<1> HIDE DEF plain, dated
<1>4. <<>> \in Seq(CandidateSet) /\ <<plain>> \in Seq(CandidateSet)
      /\ <<dated, plain>> \in Seq(CandidateSet)
  BY <1>2, <1>3
<1> QED BY <1>4 DEF RowCandidates, plain, dated

\* And so are those that a load of the rows comes up with.
LEMMA CandidatesTyped ==
    ASSUME NEW domain, NEW these, IsFiniteSet(these), these \subseteq Rows(domain),
           NEW list \in CandidateLists(domain, these)
    PROVE  list \in Seq(CandidateSet)
<1>1. PICK ordered \in Orderings(domain, these) : list = Candidates(domain, ordered)
  BY DEF CandidateLists
<1>2. ordered \in Seq(these)
  BY ListsAll DEF Orderings
<1> DEFINE lists == [i \in DOMAIN ordered |-> RowCandidates(domain, ordered[i])]
<1>3. lists \in Seq(Seq(CandidateSet))
  <2>1. \A i \in 1..Len(ordered) : RowCandidates(domain, ordered[i]) \in Seq(CandidateSet)
    BY <1>2, RowCandidatesTyped
  <2>2. DOMAIN ordered = 1..Len(ordered) /\ Len(ordered) \in Nat
    BY <1>2
  <2> QED BY <2>1, <2>2
<1> HIDE DEF lists
<1>4. FlattenSeq(lists) \in Seq(CandidateSet)
  BY <1>3, FlattenTyped
<1> QED BY <1>1, <1>4, KeptFacts DEF Candidates, lists

\* The titles of a search are texts, before and after the expansion.
LEMMA SearchTitlesTyped ==
    ASSUME NEW domain, NEW key \in Texts
    PROVE  SearchTitles(domain, key) \in Seq(Texts)
<1>1. RemoveYear(key) \in Texts /\ RemoveEpisode(key) \in Texts
  BY StripTyped DEF RemoveYear, RemoveEpisode
<1>2. <<key, RemoveYear(key)>> \in Seq(Texts) /\ <<RemoveEpisode(key)>> \in Seq(Texts)
  BY <1>1
<1> QED BY <1>2, UniqueTyped DEF SearchTitles

\* The titles of an expanded search are texts.
LEMMA ExpandedTyped ==
    ASSUME NEW domain, NEW key \in Texts, NEW candidates \in Seq(CandidateSet)
    PROVE  ExpandedSearchTitles(domain, key, candidates) \in Seq(Texts)
<1> DEFINE basic == SearchTitles(domain, key)
           at == IF basic = <<>> THEN 0 ELSE Anchor(domain, basic, candidates)
           same == Kept(candidates, {n \in DOMAIN candidates :
                                        SameWork(domain, candidates[at], candidates[n])})
           queries == [i \in DOMAIN same |-> same[i].query]
<1>1. basic \in Seq(Texts)
  BY SearchTitlesTyped
<1>2. same \in Seq(CandidateSet)
  <2> HIDE DEF at
  <2> QED BY KeptFacts
<1>3. queries \in Seq(Texts)
  <2> HIDE DEF same
  <2>1. DOMAIN same = 1..Len(same) /\ Len(same) \in Nat
        /\ \A i \in 1..Len(same) : same[i].query \in Texts
    <3>1. DOMAIN same = 1..Len(same) /\ Len(same) \in Nat
          /\ \A i \in 1..Len(same) : same[i] \in CandidateSet
      BY <1>2
    <3>2. \A c \in CandidateSet : c.query \in Texts
      BY DEF CandidateSet
    <3> QED BY <3>1, <3>2
  <2> QED BY <2>1
<1> HIDE DEF basic, queries
<1>4. basic \o queries \in Seq(Texts)
  BY <1>1, <1>3
<1>5. UniqueNonEmpty(basic \o queries) \in Seq(Texts)
  BY <1>4, UniqueTyped
<1> QED BY <1>1, <1>5 DEF ExpandedSearchTitles, basic, queries

-----------------------------------------------------------------------------
(* The proxy: types and the inductive invariant.                            *)

\* The types of the variables.
ItemSet == Nat \X Texts \X Int

\* The snapshots that may be published.
Snapshots == [revision : Nat \ {0}, search : Nat, source : Nat, candidates : Seq(CandidateSet)]

\* The locals of a request.
Locals ==
    [snapshot : Snapshots \cup {None}, titles : Seq(Texts), slice : Nat, idx : Nat \ {0},
     offset : Int, limit : Nat, from : Int, query : Texts, merged : Seq(ItemSet)]

\* What a client may know of its search.
ReaderStates == [key : Texts \cup {None}, at : Nat, so : {"whole", "torn", "disturbed"}]

\* The places in the code of a request.
Places ==
    {"idle", "result", "dropResult", "plain", "offsets", "dropOffsets", "scan", "send",
     "receive", "store"}

\* An indexer answers with items of its own, and with no more than it was asked for.
LEMMA ItemsTyped ==
    ASSUME NEW source \in Nat, NEW text \in Texts, NEW after \in Int, NEW n \in Nat
    PROVE  LET items == Items(source, text, after, n)
           IN  /\ items \in Seq(ItemSet)
               /\ Len(items) <= n
               /\ \A i \in 1..Len(items) : items[i][1] = source
<1> DEFINE from == Larger(after, 0)
           count == Larger(Smaller(n, Supply(text) - from), 0)
<1>1. Supply(text) \in Nat
  BY StockAssumption DEF Supply
<1>2. from \in Nat /\ count \in Nat /\ count <= n
  BY <1>1 DEF Larger, Smaller
<1>3. Items(source, text, after, n) = [i \in 1..count |-> <<source, text, from + i>>]
  BY DEF Items
<1> HIDE DEF from, count
<1>4. \A i \in 1..count : <<source, text, from + i>> \in ItemSet
  BY <1>2 DEF ItemSet
<1>5. ASSUME NEW items, items = [i \in 1..count |-> <<source, text, from + i>>]
      PROVE  /\ items \in Seq(ItemSet) /\ Len(items) <= n
             /\ \A i \in 1..Len(items) : items[i][1] = source
  <2>1. items \in [1..count -> ItemSet]
    BY <1>4, <1>5
  <2>2. items \in Seq(ItemSet) /\ Len(items) = count
    BY <1>2, <2>1
  <2> QED BY <1>2, <1>5, <2>2
<1> QED BY <1>3, <1>5

\* What is left of an answer are its first items.
LEMMA TrimTyped ==
    ASSUME NEW S, NEW items \in Seq(S), NEW limit \in Nat
    PROVE  LET taken == TrimItems(items, limit)
           IN  /\ taken \in Seq(S) /\ Len(taken) = Smaller(Len(items), limit)
               /\ Len(taken) <= limit /\ Len(taken) <= Len(items)
               /\ \A i \in 1..Len(taken) : taken[i] = items[i]
BY DEF TrimItems, Smaller

\* Queries are texts.
LEMMA QueryTyped ==
    ASSUME NEW key \in Texts, NEW titles \in Seq(Texts), NEW idx \in 1..Len(titles), NEW soFar
    PROVE  QueryFor(key, titles, idx) \in Texts /\ Broadened(key, titles, idx, soFar) \in Texts
<1> DEFINE q == TrimZeroZero(key)
<1>1. q \in Texts /\ titles[idx] \in Texts /\ titles[1] \in Texts
  BY StripTyped DEF TrimZeroZero
<1> HIDE DEF q
<1>2. Len(titles[1]) + 1 \in Nat \ {0} /\ Len(q) \in Nat
  BY <1>1 DEF Texts
<1>3. SubSeq(q, Len(titles[1]) + 1, Len(q)) \in Texts
  BY <1>1, <1>2, SMTT(30) DEF Texts
<1>4. titles[idx] \o SubSeq(q, Len(titles[1]) + 1, Len(q)) \in Texts
  BY <1>1, <1>3 DEF Texts
<1>5. QueryFor(key, titles, idx) \in Texts
  BY <1>1, <1>4 DEF QueryFor, q
<1>6. RemoveSeasonEpisode(QueryFor(key, titles, idx)) \in Texts
  BY <1>5, StripTyped DEF RemoveSeasonEpisode
<1> QED BY <1>5, <1>6 DEF Broadened

\* Min is what its name says.
LEMMA MinIsLeast ==
    ASSUME NEW S, S \subseteq Nat, S # {}
    PROVE  Min(S) \in S /\ \A n \in S : Min(S) <= n
<1>1. \E n \in S : \A m \in S : n <= m
  BY LeastNumber
<1> QED BY <1>1 DEF Min

\* calculateCurrentIndex gives the place of one of the titles.
LEMMA IndexTyped ==
    ASSUME NEW offset \in Int, NEW ends \in Seq(Int), ends # <<>>
    PROVE  CalculateCurrentIndex(offset, ends) \in 1..Len(ends)
<1> DEFINE S == {i \in 1..Len(ends) : ends[i] >= offset}
<1>1. Len(ends) \in Nat \ {0}
  OBVIOUS
<1>2. SelectInSeq(ends, LAMBDA end : end >= offset) = IF S # {} THEN Min(S) ELSE 0
  BY DEF SelectInSeq
<1>3. S # {} => Min(S) \in 1..Len(ends)
  <2>1. SUFFICES ASSUME S # {} PROVE Min(S) \in S
    OBVIOUS
  <2>2. S \subseteq Nat
    OBVIOUS
  <2> HIDE DEF S
  <2> QED BY <2>1, <2>2, MinIsLeast
<1> HIDE DEF S
<1> QED BY <1>1, <1>2, <1>3 DEF CalculateCurrentIndex
-----------------------------------------------------------------------------
\* A list of items of one source.
ItemsOf(list, source) == list \in Seq(ItemSet) /\ \A i \in 1..Len(list) : list[i][1] = source

\* The published snapshot is typed, is the last of those in the history, and has the
\* candidates of the rows in the database.
DataOK ==
    /\ kind \in Kinds /\ rows \in RowSets[kind]
    /\ snapshot \in Snapshots /\ sourceOf \in Seq(Nat)
    /\ Len(sourceOf) = snapshot.revision /\ sourceOf[snapshot.revision] = snapshot.source
    /\ snapshot.candidates \in CandidateLists(kind, rows)

\* Both caches are sound.
CachesOK == Sound(results, MaxResults) /\ Sound(offsets, MaxOffsets)

\* A page under a key is a list of items of the indexer of that revision.
PageOK(key, list) == key[1] \in 1..Len(sourceOf) /\ ItemsOf(list, sourceOf[key[1]])

\* Each cached page is.
PagesOK == \A key \in DOMAIN results.m : PageOK(key, results.m[key].value)

\* The offset cache holds slices.
EntriesOK == \A key \in DOMAIN offsets.m : offsets.m[key].value \in Nat \ {0}

\* The variables of the requests are typed.
RequestsTyped ==
    /\ reader \in [Readers -> ReaderStates]
    /\ pc \in [Readers -> Places]
    /\ local \in [Readers -> Locals]

\* A snapshot that was published some time.
Captured(captured) ==
    /\ captured \in Snapshots
    /\ captured.revision \in 1..Len(sourceOf) /\ captured.source = sourceOf[captured.revision]

\* A request under way is about a search, holds one of the published snapshots, and has
\* merged items of its indexer only; no request, no locals.
RequestOK(r) ==
    /\ reader[r].key \in SearchKeys[kind] \cup {None}
    /\ IF pc[r] = "idle" THEN local[r] = NoLocal
       ELSE /\ reader[r].key # None
            /\ Captured(local[r].snapshot)
            /\ ItemsOf(local[r].merged, local[r].snapshot.source)

\* So is each of them.
RequestsOK == \A r \in Readers : RequestOK(r)

\* A request in its expanded search has titles, a slice of as many elements, and an
\* index within both; one that has not begun it has no slice.
SliceOK(r) ==
    /\ pc[r] \in {"scan", "send", "receive"} =>
          /\ local[r].slice # NoSlice /\ local[r].idx <= Len(local[r].titles)
          /\ Len(slices[local[r].slice]) = Len(local[r].titles)
    /\ pc[r] \in {"offsets", "dropOffsets", "scan", "send", "receive"} => local[r].titles # <<>>
    /\ pc[r] \notin {"scan", "send", "receive", "store"} => local[r].slice = NoSlice

\* The slices in use exist, and are held as that says.
SlicesOK == slices \in [InUse -> Seq(Int)] /\ \A r \in Readers : SliceOK(r)

\* The inductive invariant.
IInv == DataOK /\ CachesOK /\ PagesOK /\ EntriesOK /\ RequestsTyped /\ RequestsOK /\ SlicesOK

\* No locals are typed too.
LEMMA NoLocalTyped == NoLocal \in Locals
BY DEF NoLocal, Locals, NoSlice, Texts

\* What a load comes up with is typed.
LEMMA SnapshotsTyped ==
    ASSUME DataOK, NEW list \in CandidateLists(kind, rows)
    PROVE  list \in Seq(CandidateSet)
BY CandidatesTyped, RowsAssumption DEF DataOK

\* It holds at first.
LEMMA InitOK == Init => IInv
<1> SUFFICES ASSUME Init PROVE IInv
  OBVIOUS
<1> USE DEF Init
<1>1. PICK list \in CandidateLists(kind, rows) :
         snapshot = [revision |-> 1, search |-> 1, source |-> 1, candidates |-> list]
  OBVIOUS
<1>2. list \in Seq(CandidateSet)
  BY <1>1, CandidatesTyped, RowsAssumption
<1>3. snapshot \in Snapshots /\ sourceOf \in Seq(Nat) /\ Len(sourceOf) = 1 /\ sourceOf[1] = 1
      /\ snapshot.revision = 1 /\ snapshot.source = 1 /\ snapshot.candidates = list
  BY <1>1, <1>2 DEF Snapshots
<1>4. DataOK
  BY <1>1, <1>3 DEF DataOK
<1>5. CachesOK /\ DOMAIN results.m = {} /\ DOMAIN offsets.m = {}
  BY EmptyIsSound, LimitsAssumption DEF CachesOK
<1>6. PagesOK /\ EntriesOK
  BY <1>5 DEF PagesOK, EntriesOK
<1>7. RequestsTyped
  <2>1. NoReader \in ReaderStates
    BY DEF NoReader, ReaderStates
  <2> QED BY <2>1, NoLocalTyped DEF RequestsTyped, Places
<1>8. RequestsOK
  BY DEF RequestsOK, RequestOK, NoReader
<1>9. InUse = {}
  BY <1>5 DEF InUse, NoLocal
<1>10. SlicesOK
  <2>1. slices \in [InUse -> Seq(Int)]
    BY <1>9
  <2> QED BY <2>1 DEF SlicesOK, SliceOK, NoLocal, NoSlice
<1> QED BY <1>4, <1>5, <1>6, <1>7, <1>8, <1>10 DEF IInv

\* What has been set in a slice stays for those who hold the same one.
LEMMA SameInUse ==
    ASSUME RequestsTyped, RequestsTyped', offsets' = offsets,
           \A r \in Readers : local'[r].slice = local[r].slice
    PROVE  InUse' = InUse
BY DEF InUse

\* A disturbance changes nothing that the code knows of.
LEMMA DisturbedIs ==
    ASSUME RequestsTyped, NEW some
    PROVE  LET new == Disturbed(some)
           IN  /\ new \in [Readers -> ReaderStates]
               /\ \A r \in Readers : new[r].key = reader[r].key /\ new[r].at = reader[r].at
<1>1. ASSUME NEW r \in Readers
      PROVE  LET new == Disturbed(some)[r]
             IN  new \in ReaderStates /\ new.key = reader[r].key /\ new.at = reader[r].at
  <2>1. reader[r] \in ReaderStates
    BY DEF RequestsTyped
  <2> QED BY <2>1 DEF Disturbed, ReaderStates
<1> QED BY <1>1 DEF Disturbed

-----------------------------------------------------------------------------
(* Each step of a client or a request keeps the invariant.                  *)

\* The parts of the invariant that are about what a step leaves alone.
LEMMA DataKeeps ==
    ASSUME DataOK, UNCHANGED dataVars PROVE DataOK'
BY DEF DataOK, dataVars

\* A request of which nothing changes.
LEMMA RequestKeeps ==
    ASSUME UNCHANGED dataVars, NEW r \in Readers, RequestOK(r),
           reader'[r].key = reader[r].key, pc'[r] = pc[r], local'[r] = local[r]
    PROVE  RequestOK(r)'
BY DEF RequestOK, dataVars, Captured

\* A request whose slice has the same length as before.
LEMMA SliceKeeps ==
    ASSUME NEW r \in Readers, SliceOK(r), pc'[r] = pc[r], local'[r] = local[r],
           local[r].slice # NoSlice => Len(slices'[local[r].slice]) = Len(slices[local[r].slice])
    PROVE  SliceOK(r)'
BY DEF SliceOK

\* Search terms are texts.
LEMMA KeyIsText ==
    ASSUME DataOK, NEW key \in SearchKeys[kind] PROVE key \in Texts /\ key # None
BY KeysAssumption DEF DataOK

\* A client begins a search.
LEMMA StartKeeps ==
    ASSUME IInv, NEW r \in Readers, NEW key \in SearchKeys[kind], StartReading(r, key)
    PROVE  IInv'
<1> USE DEF IInv, StartReading
<1>1. key \in Texts /\ key # None
  BY KeyIsText
<1>2. pc[r] = "idle"
  BY DEF RequestsOK, RequestOK, Reading
<1>3. /\ reader' \in [Readers -> ReaderStates] /\ reader'[r].key = key
      /\ \A q \in Readers \ {r} : reader'[q] = reader[q]
  BY <1>1 DEF RequestsTyped, ReaderStates, NoReader
<1>4. RequestsTyped'
  BY <1>3 DEF RequestsTyped
<1>5. DataOK' /\ CachesOK' /\ PagesOK' /\ EntriesOK'
  BY DataKeeps DEF CachesOK, PagesOK, EntriesOK, PageOK, cacheVars, dataVars
<1>6. RequestsOK'
  <2>1. ASSUME NEW q \in Readers PROVE RequestOK(q)'
    <3>1. CASE q = r
      BY <1>2, <1>3, <3>1 DEF RequestsOK, RequestOK, dataVars
    <3>2. CASE q # r
      BY <1>3, <3>2, RequestKeeps DEF RequestsOK
    <3> QED BY <3>1, <3>2
  <2> QED BY <2>1 DEF RequestsOK
<1>7. SlicesOK'
  <2>1. InUse' = InUse
    BY <1>4, SameInUse DEF cacheVars
  <2> QED BY <2>1 DEF SlicesOK, SliceOK, cacheVars
<1> QED BY <1>4, <1>5, <1>6, <1>7

\* A client leaves its search.
LEMMA StopKeeps ==
    ASSUME IInv, NEW r \in Readers, StopReading(r)
    PROVE  IInv'
<1> USE DEF IInv, StopReading
<1>1. /\ reader' \in [Readers -> ReaderStates] /\ reader'[r].key = None
      /\ \A q \in Readers \ {r} : reader'[q] = reader[q]
  BY DEF RequestsTyped, ReaderStates, NoReader
<1>2. RequestsTyped'
  BY <1>1 DEF RequestsTyped
<1>3. DataOK' /\ CachesOK' /\ PagesOK' /\ EntriesOK'
  BY DataKeeps DEF CachesOK, PagesOK, EntriesOK, PageOK, cacheVars, dataVars
<1>4. RequestsOK'
  <2>1. ASSUME NEW q \in Readers PROVE RequestOK(q)'
    <3>1. CASE q = r
      BY <1>1, <3>1 DEF RequestsOK, RequestOK, dataVars
    <3>2. CASE q # r
      BY <1>1, <3>2, RequestKeeps DEF RequestsOK
    <3> QED BY <3>1, <3>2
  <2> QED BY <2>1 DEF RequestsOK
<1>5. SlicesOK'
  <2>1. InUse' = InUse
    BY <1>2, SameInUse DEF cacheVars
  <2> QED BY <2>1 DEF SlicesOK, SliceOK, cacheVars
<1> QED BY <1>2, <1>3, <1>4, <1>5

\* A request captures the published snapshot.
LEMMA RequestStepKeeps ==
    ASSUME IInv, NEW r \in Readers, Request(r)
    PROVE  IInv'
<1> DEFINE key == reader[r].key
           titles == IF key = <<>> THEN <<>>
                     ELSE ExpandedSearchTitles(kind, TrimZeroZero(key), snapshot.candidates)
<1>1. key \in SearchKeys[kind] /\ key \in Texts /\ key # None
  BY KeyIsText DEF IInv, RequestsOK, RequestOK, Request, Reading
<1>2. titles \in Seq(Texts)
  <2>1. TrimZeroZero(key) \in Texts
    BY <1>1, StripTyped DEF TrimZeroZero
  <2>2. snapshot.candidates \in Seq(CandidateSet)
    BY DEF IInv, DataOK, Snapshots
  <2> QED BY <2>1, <2>2, ExpandedTyped
<1>3. local' = [local EXCEPT ![r].snapshot = snapshot, ![r].titles = titles]
  BY DEF Request
<1> HIDE DEF titles
<1>4. snapshot \in Snapshots
  BY DEF IInv, DataOK
<1> USE DEF IInv
<1>5. /\ local' \in [Readers -> Locals] /\ local'[r].snapshot = snapshot
      /\ local'[r].merged = local[r].merged /\ local'[r].slice = local[r].slice
      /\ \A q \in Readers \ {r} : local'[q] = local[q]
  BY <1>2, <1>3, <1>4, ZenonT(40) DEF RequestsTyped, Locals
<1>6. local[r] = NoLocal /\ local[r].merged = <<>> /\ local[r].slice = NoSlice
  BY DEF RequestsOK, RequestOK, Request, NoLocal
<1>7. RequestsTyped'
  BY <1>5 DEF RequestsTyped, Request, Places
<1>8. pc' \in [Readers -> Places] /\ pc'[r] = "result"
      /\ \A q \in Readers \ {r} : pc'[q] = pc[q]
  BY DEF RequestsTyped, Request, Places
<1>9. DataOK' /\ CachesOK' /\ PagesOK' /\ EntriesOK'
  BY DataKeeps DEF Request, CachesOK, PagesOK, EntriesOK, PageOK, cacheVars, dataVars
<1>10. RequestsOK'
  <2>1. ASSUME NEW q \in Readers PROVE RequestOK(q)'
    <3>1. CASE q = r
      <4>1. ItemsOf(local'[r].merged, local'[r].snapshot.source)
        BY <1>5, <1>6 DEF ItemsOf
      <4>2. Captured(snapshot)' /\ snapshot' = snapshot
        BY DEF DataOK, Captured, Snapshots, Request, dataVars
      <4> QED BY <1>1, <1>5, <1>8, <3>1, <4>1, <4>2 DEF RequestOK, Request, dataVars
    <3>2. CASE q # r
      BY <1>5, <1>8, <3>2, RequestKeeps DEF RequestsOK, Request
    <3> QED BY <3>1, <3>2
  <2> QED BY <2>1 DEF RequestsOK
<1>11. SlicesOK'
  <2>1. InUse' = InUse
    BY <1>5, <1>7, SameInUse DEF Request, cacheVars
  <2>2. ASSUME NEW q \in Readers PROVE SliceOK(q)'
    <3>1. CASE q = r
      BY <1>5, <1>6, <1>8, <3>1 DEF SliceOK
    <3>2. CASE q # r
      BY <1>5, <1>8, <3>2, SliceKeeps DEF SlicesOK, Request, cacheVars
    <3> QED BY <3>1, <3>2
  <2> QED BY <2>1, <2>2 DEF SlicesOK, Request, cacheVars
<1> QED BY <1>7, <1>9, <1>10, <1>11

\* What other requests are does not change.
OthersStay(r) ==
    \A q \in Readers \ {r} :
        reader'[q].key = reader[q].key /\ pc'[q] = pc[q] /\ local'[q] = local[q]

\* What the answer to a request changes.
LEMMA AnswerIs ==
    ASSUME RequestsTyped, NEW r \in Readers, NEW items \in Seq(ItemSet),
           NEW so \in {"whole", "torn", "disturbed"}, Answer(r, items, so)
    PROVE  /\ RequestsTyped' /\ OthersStay(r)
           /\ reader'[r].key = reader[r].key
           /\ pc'[r] = "idle" /\ local'[r] = NoLocal
<1>1. reader[r] \in ReaderStates /\ Len(items) \in Nat
  BY DEF RequestsTyped
<1>2. /\ reader' \in [Readers -> ReaderStates] /\ reader'[r].key = reader[r].key
      /\ \A q \in Readers \ {r} : reader'[q] = reader[q]
  <2> DEFINE n == Len(items)
  <2>1. reader' = [reader EXCEPT ![r].at = @ + n, ![r].so = so] /\ n \in Nat
    BY <1>1 DEF Answer
  <2> HIDE DEF n
  <2> DEFINE new == [reader[r] EXCEPT !.at = reader[r].at + n, !.so = so]
  <2>2. new \in ReaderStates /\ new.key = reader[r].key
    <3>1. reader[r].at + n \in Nat
      BY <1>1, <2>1 DEF ReaderStates
    <3> QED BY <1>1, <3>1 DEF ReaderStates
  <2>3. reader' = [reader EXCEPT ![r] = new]
    BY <1>1, <2>1 DEF RequestsTyped
  <2> HIDE DEF new
  <2> QED BY <2>2, <2>3 DEF RequestsTyped
<1>3. /\ pc' \in [Readers -> Places] /\ pc'[r] = "idle"
      /\ \A q \in Readers \ {r} : pc'[q] = pc[q]
  BY DEF RequestsTyped, Answer, Places
<1>4. /\ local' \in [Readers -> Locals] /\ local'[r] = NoLocal
      /\ \A q \in Readers \ {r} : local'[q] = local[q]
  BY NoLocalTyped DEF RequestsTyped, Answer
<1> QED BY <1>2, <1>3, <1>4 DEF RequestsTyped, OthersStay

\* A request that is over, whatever became of it.
LEMMA OverKeeps ==
    ASSUME RequestsTyped, RequestsOK, UNCHANGED dataVars, NEW r \in Readers, OthersStay(r),
           reader'[r].key = reader[r].key, pc'[r] = "idle", local'[r] = NoLocal
    PROVE  RequestsOK'
<1>1. ASSUME NEW q \in Readers PROVE RequestOK(q)'
  <2>1. CASE q = r
    BY <2>1 DEF RequestsOK, RequestOK, dataVars
  <2>2. CASE q # r
    BY <2>2, RequestKeeps DEF RequestsOK, OthersStay
  <2> QED BY <2>1, <2>2
<1> QED BY <1>1 DEF RequestsOK

\* Only the slices that are referred to are kept, as they are.
LEMMA CollectKeeps ==
    ASSUME SlicesOK, RequestsTyped, RequestsTyped', NEW r \in Readers, OthersStay(r),
           pc'[r] = "idle", local'[r] = NoLocal, offsets' = offsets, Collect(slices)
    PROVE  SlicesOK'
<1>1. InUse' \subseteq InUse
  BY DEF InUse, OthersStay, NoLocal
<1>2. slices' \in [InUse' -> Seq(Int)] /\ \A s \in InUse' : slices'[s] = slices[s]
  BY <1>1 DEF Collect, SlicesOK
<1>3. ASSUME NEW q \in Readers PROVE SliceOK(q)'
  <2>1. CASE q = r
    BY <2>1 DEF SliceOK, NoLocal
  <2>2. CASE q # r
    <3>1. local[q].slice # NoSlice => local[q].slice \in InUse'
      BY <2>2 DEF OthersStay, InUse
    <3> QED BY <1>2, <2>2, <3>1, SliceKeeps DEF SlicesOK, OthersStay
  <2> QED BY <2>1, <2>2
<1> QED BY <1>2, <1>3 DEF SlicesOK

\* The result cache is asked.
LEMMA GetResultKeeps ==
    ASSUME IInv, NEW r \in Readers, GetResult(r)
    PROVE  IInv'
<1> USE DEF IInv
<1>1. UNCHANGED dataVars /\ UNCHANGED cacheVars /\ pc[r] = "result"
  BY DEF GetResult
<1>2. DataOK' /\ CachesOK' /\ PagesOK' /\ EntriesOK'
  BY <1>1, DataKeeps DEF CachesOK, PagesOK, EntriesOK, PageOK, cacheVars, dataVars
<1>3. CASE Hit(results, ResultKey(r))
  <2> DEFINE items == results.m[ResultKey(r)].value
  <2>1. Answer(r, items, "disturbed") /\ items \in Seq(ItemSet)
    BY <1>3 DEF GetResult, Hit, Has, PagesOK, PageOK, ItemsOf
  <2> HIDE DEF items
  <2>2. /\ RequestsTyped' /\ OthersStay(r) /\ reader'[r].key = reader[r].key
        /\ pc'[r] = "idle" /\ local'[r] = NoLocal
    BY <2>1, AnswerIs
  <2>3. RequestsOK'
    BY <1>1, <2>2, OverKeeps
  <2>4. InUse' = InUse
    <3>1. \A q \in Readers : local'[q].slice = local[q].slice
      BY <1>1, <2>2 DEF SlicesOK, SliceOK, OthersStay, NoLocal
    <3> QED BY <1>1, <2>2, <3>1, SameInUse DEF cacheVars
  <2>5. ASSUME NEW q \in Readers PROVE SliceOK(q)'
    <3>1. CASE q = r
      BY <2>2, <3>1 DEF SliceOK, NoLocal
    <3>2. CASE q # r
      BY <1>1, <2>2, <3>2, SliceKeeps DEF SlicesOK, OthersStay, cacheVars
    <3> QED BY <3>1, <3>2
  <2> QED BY <1>1, <1>2, <2>2, <2>3, <2>4, <2>5 DEF SlicesOK, cacheVars
<1>4. CASE ~Hit(results, ResultKey(r))
  <2>1. /\ UNCHANGED <<reader, local>>
        /\ \E place \in {"dropResult", "plain", "offsets"} : pc' = [pc EXCEPT ![r] = place]
        /\ pc'[r] = "offsets" => local[r].titles # <<>>
    BY <1>4 DEF GetResult, AfterResultMiss, RequestsTyped
  <2>2. /\ pc' \in [Readers -> Places] /\ pc'[r] \in {"dropResult", "plain", "offsets"}
        /\ \A q \in Readers \ {r} : pc'[q] = pc[q]
    BY <2>1 DEF RequestsTyped, Places
  <2>3. RequestsTyped'
    BY <2>1, <2>2 DEF RequestsTyped
  <2>4. RequestsOK'
    BY <1>1, <2>1, <2>2 DEF RequestsOK, RequestOK, dataVars, Captured
  <2>5. InUse' = InUse
    BY <1>1, <2>1, <2>3, SameInUse DEF cacheVars
  <2>6. ASSUME NEW q \in Readers PROVE SliceOK(q)'
    <3>1. CASE q = r
      BY <1>1, <2>1, <2>2, <3>1 DEF SlicesOK, SliceOK
    <3>2. CASE q # r
      BY <1>1, <2>1, <2>2, <3>2, SliceKeeps DEF SlicesOK, cacheVars
    <3> QED BY <3>1, <3>2
  <2> QED BY <1>1, <1>2, <2>3, <2>4, <2>5, <2>6 DEF SlicesOK, cacheVars
<1> QED BY <1>3, <1>4

\* Pages that are left are what they were.
LEMMA PagesWithin ==
    ASSUME PagesOK, UNCHANGED dataVars, Within(results', results)
    PROVE  PagesOK'
BY DEF PagesOK, PageOK, Within, dataVars

\* Entries that are left are what they were.
LEMMA EntriesWithin ==
    ASSUME EntriesOK, Within(offsets', offsets)
    PROVE  EntriesOK'
BY DEF EntriesOK, Within

\* The expired entry is deleted, or what took its place.
LEMMA DropResultKeeps ==
    ASSUME IInv, NEW r \in Readers, DropResult(r)
    PROVE  IInv'
<1> USE DEF IInv
<1>1. /\ UNCHANGED <<dataVars, offsets, slices, reader, local>> /\ pc[r] = "dropResult"
      /\ results' = DeleteKey(results, ResultKey(r))
  BY DEF DropResult
<1>2. Sound(results', MaxResults) /\ Within(results', results)
  <2> DEFINE key == ResultKey(r)
  <2> HIDE DEF key
  <2>1. MaxResults \in Nat
    BY LimitsAssumption
  <2>2. results' = DeleteKey(results, key)
    BY <1>1 DEF key
  <2> QED BY <2>1, <2>2, DeleteKeyKeeps DEF CachesOK
<1>3. DataOK' /\ CachesOK' /\ PagesOK' /\ EntriesOK'
  BY <1>1, <1>2, DataKeeps, PagesWithin DEF CachesOK, EntriesOK
<1>4. /\ \E place \in {"plain", "offsets"} : pc' = [pc EXCEPT ![r] = place]
      /\ pc'[r] = "offsets" => local[r].titles # <<>>
  BY DEF DropResult, AfterResultMiss, RequestsTyped
<1>5. /\ pc' \in [Readers -> Places] /\ pc'[r] \in {"plain", "offsets"}
      /\ \A q \in Readers \ {r} : pc'[q] = pc[q]
  BY <1>4 DEF RequestsTyped, Places
<1>6. RequestsTyped'
  BY <1>1, <1>5 DEF RequestsTyped
<1>7. RequestsOK'
  BY <1>1, <1>5 DEF RequestsOK, RequestOK, dataVars, Captured
<1>8. InUse' = InUse
  BY <1>1, <1>6, SameInUse
<1>9. ASSUME NEW q \in Readers PROVE SliceOK(q)'
  <2>1. CASE q = r
    BY <1>1, <1>4, <1>5, <2>1 DEF SlicesOK, SliceOK
  <2>2. CASE q # r
    BY <1>1, <1>5, <2>2, SliceKeeps DEF SlicesOK
  <2> QED BY <2>1, <2>2
<1> QED BY <1>1, <1>3, <1>6, <1>7, <1>8, <1>9 DEF SlicesOK

\* A request fails.
LEMMA UpstreamFailsKeeps ==
    ASSUME IInv, NEW r \in Readers, UpstreamFails(r)
    PROVE  IInv'
<1> USE DEF IInv
<1>1. UNCHANGED <<dataVars, results, offsets, reader>> /\ Collect(slices)
  BY DEF UpstreamFails
<1>2. /\ RequestsTyped' /\ OthersStay(r) /\ reader'[r].key = reader[r].key
      /\ pc'[r] = "idle" /\ local'[r] = NoLocal
  BY <1>1, NoLocalTyped DEF RequestsTyped, Places, OthersStay, UpstreamFails
<1>3. DataOK' /\ CachesOK' /\ PagesOK' /\ EntriesOK'
  BY <1>1, DataKeeps DEF CachesOK, PagesOK, EntriesOK, PageOK, dataVars
<1> QED BY <1>1, <1>2, <1>3, OverKeeps, CollectKeeps

\* A page is stored under the revision that was captured.
LEMMA StoreResultKeeps ==
    ASSUME IInv, NEW r \in Readers, StoreResult(r)
    PROVE  IInv'
<1> USE DEF IInv
<1> DEFINE merged == local[r].merged
           so == IF reader[r].so = "whole" /\ merged # Due(r) THEN "torn" ELSE reader[r].so
           key == ResultKey(r)
<1>1. /\ UNCHANGED <<dataVars, offsets>> /\ Collect(slices) /\ pc[r] = "store"
      /\ Answer(r, merged, so)
      /\ results' = results \/ results' = Set(results, key, merged, MaxResults)
  BY DEF StoreResult, StoreKey
<1>2. ItemsOf(merged, local[r].snapshot.source) /\ Captured(local[r].snapshot)
  BY <1>1 DEF RequestsOK, RequestOK
<1>3. so \in {"whole", "torn", "disturbed"}
  BY DEF RequestsTyped, ReaderStates
<1>4. key[1] = local[r].snapshot.revision
  BY DEF ResultKey
<1> HIDE DEF merged, so, key
<1>5. /\ RequestsTyped' /\ OthersStay(r) /\ reader'[r].key = reader[r].key
      /\ pc'[r] = "idle" /\ local'[r] = NoLocal
  BY <1>1, <1>2, <1>3, AnswerIs DEF ItemsOf
<1>6. /\ Sound(results', MaxResults)
      /\ \A k \in DOMAIN results'.m :
            \/ k \in DOMAIN results.m /\ results'.m[k].value = results.m[k].value
            \/ k = key /\ results'.m[k].value = merged
  <2>1. CASE results' = results
    BY <2>1 DEF CachesOK
  <2>2. CASE results' = Set(results, key, merged, MaxResults)
    BY <2>2, SetKeeps, LimitsAssumption DEF CachesOK
  <2> QED BY <1>1, <2>1, <2>2
<1>7. PageOK(key, merged)
  BY <1>2, <1>4 DEF PageOK, Captured
<1>8. PagesOK'
  <2>1. ASSUME NEW k \in DOMAIN results'.m PROVE PageOK(k, results.m[k].value)'
    <3>1. CASE k = key /\ results'.m[k].value = merged
      BY <1>1, <1>7, <3>1 DEF PageOK, dataVars
    <3>2. CASE k \in DOMAIN results.m /\ results'.m[k].value = results.m[k].value
      BY <1>1, <3>2 DEF PagesOK, PageOK, dataVars
    <3> QED BY <1>6, <2>1, <3>1, <3>2
  <2> QED BY <2>1 DEF PagesOK
<1>9. DataOK' /\ CachesOK' /\ EntriesOK'
  BY <1>1, <1>6, DataKeeps DEF CachesOK, EntriesOK
<1> QED BY <1>1, <1>5, <1>8, <1>9, OverKeeps, CollectKeeps

\* A request without a term is answered.
LEMMA PlainKeeps ==
    ASSUME IInv, NEW r \in Readers, Plain(r)
    PROVE  IInv'
<1> USE DEF IInv
<1> DEFINE items == Items(local[r].snapshot.source, TrimZeroZero(reader[r].key),
                          reader[r].at, PageLimit)
<1>1. /\ UNCHANGED <<dataVars, cacheVars, reader>> /\ pc[r] = "plain"
      /\ local' = [local EXCEPT ![r].merged = items]
  BY DEF Plain
<1>2. Captured(local[r].snapshot) /\ reader[r].key \in Texts /\ reader[r].at \in Nat
  BY <1>1, KeyIsText DEF RequestsOK, RequestOK, RequestsTyped, ReaderStates
<1>3. ItemsOf(items, local[r].snapshot.source)
  <2>1. TrimZeroZero(reader[r].key) \in Texts
    BY <1>2, StripTyped DEF TrimZeroZero
  <2>2. local[r].snapshot.source \in Nat /\ PageLimit \in Nat
    BY <1>2, LimitsAssumption DEF Captured, Snapshots
  <2> QED BY <1>2, <2>1, <2>2, ItemsTyped DEF ItemsOf
<1> HIDE DEF items
<1>4. /\ local' \in [Readers -> Locals] /\ local'[r].merged = items
      /\ local'[r].snapshot = local[r].snapshot /\ local'[r].slice = local[r].slice
      /\ \A q \in Readers \ {r} : local'[q] = local[q]
  BY <1>1, <1>3 DEF RequestsTyped, Locals, ItemsOf
<1>5. /\ pc' \in [Readers -> Places] /\ pc'[r] = "store"
      /\ \A q \in Readers \ {r} : pc'[q] = pc[q]
  BY DEF Plain, RequestsTyped, Places
<1>6. RequestsTyped'
  BY <1>1, <1>4, <1>5 DEF RequestsTyped
<1>7. DataOK' /\ CachesOK' /\ PagesOK' /\ EntriesOK'
  BY <1>1, DataKeeps DEF CachesOK, PagesOK, EntriesOK, PageOK, cacheVars, dataVars
<1>8. RequestsOK'
  <2>1. ASSUME NEW q \in Readers PROVE RequestOK(q)'
    <3>1. CASE q = r
      BY <1>1, <1>3, <1>4, <1>5, <3>1 DEF RequestsOK, RequestOK, dataVars, Captured
    <3>2. CASE q # r
      BY <1>1, <1>4, <1>5, <3>2, RequestKeeps DEF RequestsOK
    <3> QED BY <3>1, <3>2
  <2> QED BY <2>1 DEF RequestsOK
<1>9. SlicesOK'
  <2>1. InUse' = InUse
    BY <1>1, <1>4, <1>6, SameInUse DEF cacheVars
  <2>2. ASSUME NEW q \in Readers PROVE SliceOK(q)'
    <3>1. CASE q = r
      BY <1>5, <3>1 DEF SliceOK
    <3>2. CASE q # r
      BY <1>1, <1>4, <1>5, <3>2, SliceKeeps DEF SlicesOK, cacheVars
    <3> QED BY <3>1, <3>2
  <2> QED BY <1>1, <2>1, <2>2 DEF SlicesOK, cacheVars
<1> QED BY <1>6, <1>7, <1>8, <1>9

\* The title to go on with is found in the slice.
LEMMA ScanKeeps ==
    ASSUME IInv, NEW r \in Readers, Scan(r)
    PROVE  IInv'
<1> USE DEF IInv
<1> DEFINE slice == slices[local[r].slice]
           idx == CalculateCurrentIndex(local[r].offset, slice)
<1>1. /\ UNCHANGED <<dataVars, cacheVars, reader>> /\ pc[r] = "scan"
      /\ local' = [local EXCEPT ![r].idx = idx]
  BY DEF Scan
<1>2. /\ local[r].slice \in InUse /\ slice \in Seq(Int) /\ Len(slice) = Len(local[r].titles)
      /\ local[r].titles # <<>> /\ local[r].titles \in Seq(Texts) /\ local[r].offset \in Int
      /\ local[r].slice # NoSlice
  BY <1>1 DEF SlicesOK, SliceOK, InUse, RequestsTyped, Locals
<1>3. idx \in 1..Len(local[r].titles) /\ idx \in Nat \ {0}
  <2> HIDE DEF slice
  <2>1. slice # <<>>
    BY <1>2
  <2>2. Len(local[r].titles) \in Nat
    BY <1>2
  <2> QED BY <1>2, <2>1, <2>2, IndexTyped
<1> HIDE DEF slice, idx
<1>4. /\ local' \in [Readers -> Locals] /\ local'[r].idx = idx
      /\ local'[r].snapshot = local[r].snapshot /\ local'[r].slice = local[r].slice
      /\ local'[r].merged = local[r].merged /\ local'[r].titles = local[r].titles
      /\ \A q \in Readers \ {r} : local'[q] = local[q]
  BY <1>1, <1>3 DEF RequestsTyped, Locals
<1>5. /\ pc' \in [Readers -> Places] /\ pc'[r] = "send"
      /\ \A q \in Readers \ {r} : pc'[q] = pc[q]
  BY DEF Scan, RequestsTyped, Places
<1>6. RequestsTyped'
  BY <1>1, <1>4, <1>5 DEF RequestsTyped
<1>7. DataOK' /\ CachesOK' /\ PagesOK' /\ EntriesOK'
  BY <1>1, DataKeeps DEF CachesOK, PagesOK, EntriesOK, PageOK, cacheVars, dataVars
<1>8. RequestsOK'
  <2>1. ASSUME NEW q \in Readers PROVE RequestOK(q)'
    <3>1. CASE q = r
      BY <1>1, <1>4, <1>5, <3>1 DEF RequestsOK, RequestOK, dataVars, Captured
    <3>2. CASE q # r
      BY <1>1, <1>4, <1>5, <3>2, RequestKeeps DEF RequestsOK
    <3> QED BY <3>1, <3>2
  <2> QED BY <2>1 DEF RequestsOK
<1>9. SlicesOK'
  <2>1. InUse' = InUse
    BY <1>1, <1>4, <1>6, SameInUse DEF cacheVars
  <2>2. ASSUME NEW q \in Readers PROVE SliceOK(q)'
    <3>1. CASE q = r
      BY <1>1, <1>2, <1>3, <1>4, <1>5, <3>1 DEF SliceOK, cacheVars, slice
    <3>2. CASE q # r
      BY <1>1, <1>4, <1>5, <3>2, SliceKeeps DEF SlicesOK, cacheVars
    <3> QED BY <3>1, <3>2
  <2> QED BY <1>1, <2>1, <2>2 DEF SlicesOK, cacheVars
<1> QED BY <1>6, <1>7, <1>8, <1>9

\* The query for the next title is made.
LEMMA SendKeeps ==
    ASSUME IInv, NEW r \in Readers, Send(r)
    PROVE  IInv'
<1> USE DEF IInv
<1> DEFINE idx == local[r].idx
           before == IF idx = 1 THEN 0 ELSE slices[local[r].slice][idx - 1]
           query == Broadened(reader[r].key, local[r].titles, idx, before)
           from == local[r].offset - before
<1>1. /\ UNCHANGED <<dataVars, cacheVars, reader>> /\ pc[r] = "send"
      /\ local' = [local EXCEPT ![r].query = query, ![r].from = from]
  BY DEF Send
<1>2. /\ local[r].slice \in InUse /\ slices[local[r].slice] \in Seq(Int)
      /\ Len(slices[local[r].slice]) = Len(local[r].titles)
      /\ local[r].titles \in Seq(Texts) /\ local[r].offset \in Int
      /\ local[r].slice # NoSlice /\ idx \in Nat \ {0} /\ idx <= Len(local[r].titles)
  BY <1>1 DEF SlicesOK, SliceOK, InUse, RequestsTyped, Locals
<1>3. before \in Int /\ from \in Int
  <2>1. idx # 1 => idx - 1 \in 1..Len(slices[local[r].slice])
    BY <1>2
  <2>2. before \in Int
    BY <1>2, <2>1
  <2> QED BY <1>2, <2>2
<1>4. query \in Texts
  <2>1. reader[r].key \in Texts
    BY <1>1, KeyIsText DEF RequestsOK, RequestOK
  <2>2. idx \in 1..Len(local[r].titles)
    BY <1>2
  <2> HIDE DEF before
  <2> QED BY <1>2, <2>1, <2>2, QueryTyped
<1> HIDE DEF query, from
<1>5. /\ local' \in [Readers -> Locals]
      /\ local'[r].snapshot = local[r].snapshot /\ local'[r].slice = local[r].slice
      /\ local'[r].merged = local[r].merged /\ local'[r].titles = local[r].titles
      /\ local'[r].idx = local[r].idx
      /\ \A q \in Readers \ {r} : local'[q] = local[q]
  BY <1>1, <1>3, <1>4, ZenonT(40) DEF RequestsTyped, Locals
<1>6. /\ pc' \in [Readers -> Places] /\ pc'[r] = "receive"
      /\ \A q \in Readers \ {r} : pc'[q] = pc[q]
  BY DEF Send, RequestsTyped, Places
<1>7. RequestsTyped'
  BY <1>1, <1>5, <1>6 DEF RequestsTyped
<1>8. DataOK' /\ CachesOK' /\ PagesOK' /\ EntriesOK'
  BY <1>1, DataKeeps DEF CachesOK, PagesOK, EntriesOK, PageOK, cacheVars, dataVars
<1>9. RequestsOK'
  <2>1. ASSUME NEW q \in Readers PROVE RequestOK(q)'
    <3>1. CASE q = r
      BY <1>1, <1>5, <1>6, <3>1 DEF RequestsOK, RequestOK, dataVars, Captured
    <3>2. CASE q # r
      BY <1>1, <1>5, <1>6, <3>2, RequestKeeps DEF RequestsOK
    <3> QED BY <3>1, <3>2
  <2> QED BY <2>1 DEF RequestsOK
<1>10. SlicesOK'
  <2>1. InUse' = InUse
    BY <1>1, <1>5, <1>7, SameInUse DEF cacheVars
  <2>2. ASSUME NEW q \in Readers PROVE SliceOK(q)'
    <3>1. CASE q = r
      BY <1>1, <1>5, <1>6, <3>1 DEF SlicesOK, SliceOK, cacheVars
    <3>2. CASE q # r
      BY <1>1, <1>5, <1>6, <3>2, SliceKeeps DEF SlicesOK, cacheVars
    <3> QED BY <3>1, <3>2
  <2> QED BY <1>1, <2>1, <2>2 DEF SlicesOK, cacheVars
<1> QED BY <1>7, <1>8, <1>9, <1>10

\* A function has no more values than arguments.
LEMMA ImageIsSmall ==
    ASSUME NEW D, IsFiniteSet(D), NEW f, f = [d \in D |-> f[d]]
    PROVE  LET image == {f[d] : d \in D}
           IN  /\ IsFiniteSet(image) /\ Cardinality(image) \in Nat /\ Cardinality(D) \in Nat
               /\ Cardinality(image) <= Cardinality(D)
<1> DEFINE image == {f[d] : d \in D}
<1>1. f \in Surjection(D, image)
  BY DEF Surjection
<1> HIDE DEF image
<1>2. IsFiniteSet(image) /\ Cardinality(image) <= Cardinality(D)
  BY <1>1, FS_Surjection
<1> QED BY <1>2, FS_CardinalityType DEF image

\* Requests and cache together hold fewer slices than there are identities.
LEMMA FreshSlice ==
    ASSUME RequestsTyped, CachesOK, NEW r \in Readers, local[r].slice = NoSlice
    PROVE  Min(Slices \ InUse) \in Slices \ InUse
<1> DEFINE others == Readers \ {r}
           mine == [q \in others |-> local[q].slice]
           held == {mine[q] : q \in others}
           keys == DOMAIN offsets.m
           entry == [key \in keys |-> offsets.m[key].value]
           kept == {entry[key] : key \in keys}
           n == Cardinality(Readers)
<1>1. IsFiniteSet(others) /\ n \in Nat /\ Cardinality(others) = n - 1
  BY ReadersAssumption, FS_RemoveElement, FS_CardinalityType
<1>2. IsFiniteSet(keys) /\ Cardinality(keys) \in Nat /\ Cardinality(keys) <= MaxOffsets
  BY KeysAreFinite DEF CachesOK, Sound, Bounded
<1>3. IsFiniteSet(held) /\ Cardinality(held) \in Nat /\ Cardinality(held) <= n - 1
  <2>1. mine = [q \in others |-> mine[q]]
    OBVIOUS
  <2> HIDE DEF mine, others
  <2> QED BY <1>1, <2>1, ImageIsSmall
<1>4. IsFiniteSet(kept) /\ Cardinality(kept) \in Nat /\ Cardinality(kept) <= MaxOffsets
  <2>1. entry = [key \in keys |-> entry[key]]
    OBVIOUS
  <2> HIDE DEF entry, keys
  <2>2. MaxOffsets \in Nat
    BY LimitsAssumption
  <2> QED BY <1>2, <2>1, <2>2, ImageIsSmall
<1>5. InUse \subseteq held \cup kept
  BY DEF InUse
<1> HIDE DEF held, kept, n
<1>6. /\ IsFiniteSet(held \cup kept) /\ Cardinality(held \cup kept) \in Nat
      /\ Cardinality(held \cup kept) < n + MaxOffsets
  <2>1. IsFiniteSet(held \cup kept) /\ IsFiniteSet(held \cap kept)
    BY <1>3, <1>4, FS_Union, FS_Intersection
  <2>2. Cardinality(held \cup kept) \in Nat /\ Cardinality(held \cap kept) \in Nat
    BY <2>1, FS_CardinalityType
  <2>3. Cardinality(held \cup kept)
          = Cardinality(held) + Cardinality(kept) - Cardinality(held \cap kept)
    BY <1>3, <1>4, FS_Union
  <2>4. MaxOffsets \in Nat
    BY LimitsAssumption
  <2> QED BY <1>1, <1>3, <1>4, <2>1, <2>2, <2>3, <2>4
<1>7. Slices = 1..(n + MaxOffsets) /\ n + MaxOffsets \in Nat
  BY <1>1, LimitsAssumption DEF Slices, n
<1>8. Cardinality(Slices) = n + MaxOffsets
  BY <1>7, FS_Interval
<1>9. Slices \ InUse # {}
  <2>1. SUFFICES ASSUME Slices \subseteq held \cup kept PROVE FALSE
    BY <1>5
  <2>2. Cardinality(Slices) <= Cardinality(held \cup kept)
    BY <1>6, <2>1, FS_Subset
  <2> QED BY <1>6, <1>7, <1>8, <2>2
<1>10. Slices \ InUse \subseteq Nat
  BY <1>7
<1> QED BY <1>9, <1>10, MinIsLeast

\* What a request knows when it has got a slice.
LEMMA ScanningIs ==
    ASSUME RequestsTyped, NEW r \in Readers, NEW slice \in Nat, Scanning(r, slice)
    PROVE  /\ local' \in [Readers -> Locals] /\ pc' \in [Readers -> Places]
           /\ pc'[r] = "scan" /\ local'[r].slice = slice /\ local'[r].idx = 1
           /\ local'[r].snapshot = local[r].snapshot
           /\ local'[r].merged = local[r].merged /\ local'[r].titles = local[r].titles
           /\ local'[r].offset = reader[r].at /\ local'[r].limit = PageLimit
           /\ \A q \in Readers \ {r} : pc'[q] = pc[q] /\ local'[q] = local[q]
<1>1. /\ pc' \in [Readers -> Places] /\ pc'[r] = "scan"
      /\ \A q \in Readers \ {r} : pc'[q] = pc[q]
  BY DEF Scanning, RequestsTyped, Places
<1> DEFINE at == reader[r].at
           l == local[r]
           new == [l EXCEPT !.slice = slice, !.idx = 1, !.offset = at, !.limit = PageLimit]
<1>2. at \in Int /\ PageLimit \in Nat /\ l \in Locals
  BY LimitsAssumption DEF RequestsTyped, ReaderStates
<1>3. local' = [local EXCEPT ![r] = new]
  BY DEF Scanning, RequestsTyped
<1> HIDE DEF at, l
<1>4. /\ new \in Locals /\ new.slice = slice /\ new.idx = 1 /\ new.snapshot = l.snapshot
      /\ new.merged = l.merged /\ new.titles = l.titles
      /\ new.offset = at /\ new.limit = PageLimit
  <2>1. /\ new.slice = slice /\ new.idx = 1 /\ new.snapshot = l.snapshot
        /\ new.merged = l.merged /\ new.titles = l.titles
        /\ new.offset = at /\ new.limit = PageLimit /\ new.from = l.from /\ new.query = l.query
    BY <1>2 DEF Locals
  <2>2. new \in Locals
    <3>1. l.snapshot \in Snapshots \cup {None} /\ l.titles \in Seq(Texts) /\ l.from \in Int
          /\ l.query \in Texts /\ l.merged \in Seq(ItemSet)
      BY <1>2 DEF Locals
    <3>2. 1 \in Nat \ {0}
      OBVIOUS
    <3>3. ASSUME NEW n, n = new
          PROVE  n = [snapshot |-> l.snapshot, titles |-> l.titles, slice |-> slice, idx |-> 1,
                      offset |-> at, limit |-> PageLimit, from |-> l.from, query |-> l.query,
                      merged |-> l.merged]
      BY <1>2, <3>3 DEF Locals
    <3> HIDE DEF new
    <3> QED BY <1>2, <3>1, <3>2, <3>3 DEF Locals
  <2> QED BY <2>1, <2>2
<1> HIDE DEF new
<1> QED BY <1>1, <1>3, <1>4 DEF RequestsTyped, l, at

\* A new slice.
LEMMA ZerosTyped ==
    ASSUME NEW n \in Nat PROVE Zeros(n) \in Seq(Int) /\ Len(Zeros(n)) = n
BY DEF Zeros

\* A request that has a slice now, be it a new one or one that others hold too.
LEMMA HeldKeeps ==
    ASSUME RequestsOK, UNCHANGED dataVars, NEW r \in Readers, OthersStay(r),
           pc[r] # "idle", pc'[r] # "idle", reader'[r].key = reader[r].key,
           local'[r].snapshot = local[r].snapshot,
           ItemsOf(local'[r].merged, local[r].snapshot.source)
    PROVE  RequestsOK'
<1>1. ASSUME NEW q \in Readers PROVE RequestOK(q)'
  <2>1. CASE q = r
    BY <2>1 DEF RequestsOK, RequestOK, dataVars, Captured
  <2>2. CASE q # r
    BY <2>2, RequestKeeps DEF RequestsOK, OthersStay
  <2> QED BY <2>1, <2>2
<1> QED BY <1>1 DEF RequestsOK

\* A request makes itself a new slice.
LEMMA NewSliceKeeps ==
    ASSUME IInv, NEW r \in Readers, pc[r] \in {"offsets", "dropOffsets"}, NewSlice(r),
           UNCHANGED dataVars, results' = results, reader' \in [Readers -> ReaderStates],
           \A q \in Readers : reader'[q].key = reader[q].key,
           Sound(offsets', MaxOffsets), Within(offsets', offsets)
    PROVE  IInv'
<1> USE DEF IInv
<1> DEFINE new == Min(Slices \ InUse)
           zeros == Zeros(Len(local[r].titles))
<1>1. local[r].slice = NoSlice /\ local[r].titles # <<>> /\ local[r].titles \in Seq(Texts)
  BY DEF SlicesOK, SliceOK, RequestsTyped, Locals
<1>2. new \in Slices /\ new \notin InUse
  BY <1>1, FreshSlice
<1>3. new \in Nat /\ new # NoSlice
  <2>1. Cardinality(Readers) + MaxOffsets \in Nat
    BY ReadersAssumption, LimitsAssumption, FS_CardinalityType
  <2> QED BY <1>2, <2>1 DEF Slices, NoSlice
<1>4. /\ Scanning(r, new)
      /\ Collect([s \in InUse \cup {new} |-> IF s = new THEN zeros ELSE slices[s]])
  BY DEF NewSlice
<1>5. zeros \in Seq(Int) /\ Len(zeros) = Len(local[r].titles) /\ Len(local[r].titles) \in Nat \ {0}
  BY <1>1, ZerosTyped
<1> HIDE DEF new, zeros
<1>6. /\ local' \in [Readers -> Locals] /\ pc' \in [Readers -> Places]
      /\ pc'[r] = "scan" /\ local'[r].slice = new /\ local'[r].idx = 1
      /\ local'[r].snapshot = local[r].snapshot
      /\ local'[r].merged = local[r].merged /\ local'[r].titles = local[r].titles
      /\ OthersStay(r)
  BY <1>3, <1>4, ScanningIs DEF OthersStay
<1>7. RequestsTyped'
  BY <1>6 DEF RequestsTyped
<1>8. RequestsOK'
  BY <1>6, HeldKeeps DEF RequestsOK, RequestOK
<1>9. DataOK' /\ CachesOK' /\ PagesOK' /\ EntriesOK'
  BY DataKeeps, EntriesWithin DEF CachesOK, PagesOK, PageOK, dataVars
<1>10. InUse' \subseteq InUse \cup {new} /\ new \in InUse'
  BY <1>3, <1>6 DEF InUse, OthersStay, Within
<1>11. /\ slices' \in [InUse' -> Seq(Int)] /\ slices'[new] = zeros
       /\ \A s \in InUse' \ {new} : slices'[s] = slices[s]
  BY <1>4, <1>5, <1>10 DEF Collect, SlicesOK
<1>12. ASSUME NEW q \in Readers PROVE SliceOK(q)'
  <2>1. CASE q = r
    BY <1>1, <1>3, <1>5, <1>6, <1>11, <2>1 DEF SliceOK
  <2>2. CASE q # r
    <3>1. local[q].slice # NoSlice => local[q].slice \in InUse' \ {new}
      BY <1>2, <1>6, <2>2 DEF OthersStay, InUse
    <3> QED BY <1>6, <1>11, <2>2, <3>1, SliceKeeps DEF SlicesOK, OthersStay
  <2> QED BY <2>1, <2>2
<1> QED BY <1>7, <1>8, <1>9, <1>11, <1>12 DEF SlicesOK

\* Within is reflexive.
LEMMA WithinItself ==
    ASSUME NEW cache PROVE Within(cache, cache)
BY DEF Within

\* The offset cache is asked.
LEMMA GetOffsetsKeeps ==
    ASSUME IInv, NEW r \in Readers, GetOffsets(r)
    PROVE  IInv'
<1> USE DEF IInv
<1> DEFINE key == OffsetKey(r)
           slice == offsets.m[key].value
<1>1. UNCHANGED <<dataVars, results, offsets, reader>> /\ pc[r] = "offsets"
  BY DEF GetOffsets
<1>2. CASE NewSlice(r)
  BY <1>1, <1>2, NewSliceKeeps, WithinItself DEF CachesOK, RequestsTyped
<1>3. CASE /\ Expired(offsets, key) /\ pc' = [pc EXCEPT ![r] = "dropOffsets"]
           /\ UNCHANGED <<slices, local>>
  <2>1. /\ pc' \in [Readers -> Places] /\ pc'[r] = "dropOffsets"
        /\ \A q \in Readers \ {r} : pc'[q] = pc[q]
    BY <1>3 DEF RequestsTyped, Places
  <2>2. RequestsTyped'
    BY <1>1, <1>3, <2>1 DEF RequestsTyped
  <2>3. RequestsOK'
    BY <1>1, <1>3, <2>1 DEF RequestsOK, RequestOK, dataVars, Captured
  <2>4. InUse' = InUse
    BY <1>1, <1>3, <2>2, SameInUse
  <2>5. ASSUME NEW q \in Readers PROVE SliceOK(q)'
    <3>1. CASE q = r
      BY <1>1, <1>3, <2>1, <3>1 DEF SlicesOK, SliceOK
    <3>2. CASE q # r
      BY <1>3, <2>1, <3>2, SliceKeeps DEF SlicesOK
    <3> QED BY <3>1, <3>2
  <2>6. DataOK' /\ CachesOK' /\ PagesOK' /\ EntriesOK'
    BY <1>1, DataKeeps DEF CachesOK, PagesOK, EntriesOK, PageOK, dataVars
  <2> QED BY <1>3, <2>2, <2>3, <2>4, <2>5, <2>6 DEF SlicesOK
<1>4. CASE /\ Hit(offsets, key) /\ Len(slices[slice]) = Len(local[r].titles)
           /\ Scanning(r, slice) /\ UNCHANGED slices
  <2>1. slice \in Nat \ {0} /\ slice \in InUse
    BY <1>4 DEF Hit, Has, EntriesOK, InUse
  <2>2. local[r].titles # <<>> /\ local[r].titles \in Seq(Texts) /\ local[r].slice = NoSlice
    BY <1>1 DEF SlicesOK, SliceOK, RequestsTyped, Locals
  <2>3. Len(slices[slice]) = Len(local[r].titles) /\ Scanning(r, slice) /\ slices' = slices
    BY <1>4
  <2> HIDE DEF slice, key
  <2>4. /\ local' \in [Readers -> Locals] /\ pc' \in [Readers -> Places]
        /\ pc'[r] = "scan" /\ local'[r].slice = slice /\ local'[r].idx = 1
        /\ local'[r].snapshot = local[r].snapshot
        /\ local'[r].merged = local[r].merged /\ local'[r].titles = local[r].titles
        /\ OthersStay(r)
    BY <1>1, <2>1, <2>3, ScanningIs DEF OthersStay
  <2>5. RequestsTyped'
    BY <1>1, <2>4 DEF RequestsTyped
  <2>6. RequestsOK'
    BY <1>1, <2>4, HeldKeeps DEF RequestsOK, RequestOK
  <2>7. DataOK' /\ CachesOK' /\ PagesOK' /\ EntriesOK'
    BY <1>1, DataKeeps DEF CachesOK, PagesOK, EntriesOK, PageOK, dataVars
  <2>8. InUse' = InUse
    <3>1. InUse' \subseteq InUse
      BY <1>1, <2>1, <2>4 DEF InUse, OthersStay
    <3>2. InUse \subseteq InUse'
      BY <1>1, <2>1, <2>2, <2>4 DEF InUse, OthersStay
    <3> QED BY <3>1, <3>2
  <2>9. ASSUME NEW q \in Readers PROVE SliceOK(q)'
    <3>1. CASE q = r
      <4>1. Len(local[r].titles) \in Nat \ {0}
        BY <2>2
      <4> QED BY <2>1, <2>2, <2>3, <2>4, <3>1, <4>1 DEF SliceOK, NoSlice
    <3>2. CASE q # r
      BY <2>3, <2>4, <3>2, SliceKeeps DEF SlicesOK, OthersStay
    <3> QED BY <3>1, <3>2
  <2> QED BY <2>3, <2>5, <2>6, <2>7, <2>8, <2>9 DEF SlicesOK
<1> QED BY <1>2, <1>3, <1>4 DEF GetOffsets

\* Expired offsets are deleted, or what took their place.
LEMMA DropOffsetsKeeps ==
    ASSUME IInv, NEW r \in Readers, DropOffsets(r)
    PROVE  IInv'
<1> DEFINE key == OffsetKey(r)
<1>1. /\ UNCHANGED <<dataVars, results>> /\ pc[r] = "dropOffsets" /\ NewSlice(r)
      /\ offsets' = DeleteKey(offsets, key) /\ reader' = Disturbed(Readers \ {r})
  BY DEF DropOffsets
<1> HIDE DEF key
<1>2. Sound(offsets', MaxOffsets) /\ Within(offsets', offsets)
  <2>1. MaxOffsets \in Nat
    BY LimitsAssumption
  <2> QED BY <1>1, <2>1, DeleteKeyKeeps DEF IInv, CachesOK
<1>3. reader' \in [Readers -> ReaderStates] /\ \A q \in Readers : reader'[q].key = reader[q].key
  BY <1>1, DisturbedIs DEF IInv
<1> QED BY <1>1, <1>2, <1>3, NewSliceKeeps

\* An element written in place.
LEMMA WrittenInPlace ==
    ASSUME NEW D, NEW contents \in [D -> Seq(Int)], NEW s \in D, NEW i \in 1..Len(contents[s]),
           NEW x \in Int
    PROVE  LET new == [contents EXCEPT ![s][i] = x]
           IN  /\ new \in [D -> Seq(Int)]
               /\ \A t \in D : Len(new[t]) = Len(contents[t])
               /\ \A t \in D \ {s} : new[t] = contents[t]
               /\ new[s] = [contents[s] EXCEPT ![i] = x]
<1> DEFINE old == contents[s]
           written == [old EXCEPT ![i] = x]
<1>1. old \in Seq(Int) /\ i \in 1..Len(old)
  OBVIOUS
<1>2. written \in Seq(Int) /\ Len(written) = Len(old)
  <2> HIDE DEF old
  <2> QED BY <1>1
<1>3. [contents EXCEPT ![s][i] = x] = [contents EXCEPT ![s] = written]
  OBVIOUS
<1> HIDE DEF written
<1> QED BY <1>2, <1>3 DEF written

\* What one answer changes: l is the request before it.
Received(l, taken, goesOn) ==
    [snapshot |-> l.snapshot, titles |-> l.titles, slice |-> l.slice,
     idx |-> IF goesOn THEN l.idx + 1 ELSE l.idx,
     offset |-> l.offset + Len(taken), limit |-> l.limit - Len(taken), from |-> 0,
     query |-> <<>>, merged |-> MergeItems(l.merged, taken)]

\* That is typed.
LEMMA ReceivedTyped ==
    ASSUME NEW l \in Locals, NEW taken \in Seq(ItemSet), Len(taken) <= l.limit, NEW goesOn
    PROVE  Received(l, taken, goesOn) \in Locals
<1>1. /\ l.snapshot \in Snapshots \cup {None} /\ l.titles \in Seq(Texts) /\ l.slice \in Nat
      /\ l.idx \in Nat \ {0} /\ l.offset \in Int /\ l.limit \in Nat /\ l.merged \in Seq(ItemSet)
      /\ Len(taken) \in Nat
  BY DEF Locals
<1>2. MergeItems(l.merged, taken) \in Seq(ItemSet) /\ <<>> \in Texts
  BY <1>1 DEF MergeItems, Texts
<1>3. /\ l.offset + Len(taken) \in Int /\ l.limit - Len(taken) \in Nat /\ 0 \in Int
      /\ (IF goesOn THEN l.idx + 1 ELSE l.idx) \in Nat \ {0}
  BY <1>1
<1> QED BY <1>1, <1>2, <1>3 DEF Locals, Received

\* The step in which an answer arrives, by name.
LEMMA ReceiveIs ==
    ASSUME IInv, NEW r \in Readers, Receive(r)
    PROVE  LET l == local[r]
               answered == Items(l.snapshot.source, l.query, l.from, PageLimit)
               taken == TrimItems(answered, l.limit)
               goesOn == l.idx < Len(l.titles) /\ l.limit - Len(taken) > 0
           IN  /\ ItemsOf(taken, l.snapshot.source) /\ Len(taken) <= l.limit /\ Len(taken) \in Nat
               /\ local' = [local EXCEPT ![r] = Received(l, taken, goesOn)]
               /\ pc' = [pc EXCEPT ![r] = IF goesOn THEN "send" ELSE "store"]
               /\ offsets' = Set(offsets, OffsetKey(r), l.slice, MaxOffsets)
               /\ Collect([slices EXCEPT ![l.slice][l.idx] = l.offset + Len(taken)])
               /\ reader' = Disturbed(Readers \ {r})
               /\ UNCHANGED <<dataVars, results>>
               /\ pc[r] = "receive"
<1> DEFINE l == local[r]
           answered == Items(l.snapshot.source, l.query, l.from, PageLimit)
           taken == TrimItems(answered, l.limit)
           goesOn == l.idx < Len(l.titles) /\ l.limit - Len(taken) > 0
<1>1. /\ local' = [local EXCEPT ![r].merged = MergeItems(@, taken),
                                ![r].offset = @ + Len(taken),
                                ![r].limit = l.limit - Len(taken),
                                ![r].idx = IF goesOn THEN @ + 1 ELSE @,
                                ![r].query = <<>>, ![r].from = 0]
      /\ pc' = [pc EXCEPT ![r] = IF goesOn THEN "send" ELSE "store"]
      /\ offsets' = Set(offsets, OffsetKey(r), l.slice, MaxOffsets)
      /\ Collect([slices EXCEPT ![l.slice][l.idx] = l.offset + Len(taken)])
      /\ reader' = Disturbed(Readers \ {r})
      /\ UNCHANGED <<dataVars, results>>
      /\ pc[r] = "receive"
  BY DEF Receive
<1>2. l \in Locals /\ local \in [Readers -> Locals] /\ Captured(l.snapshot)
  BY <1>1 DEF IInv, RequestsTyped, RequestsOK, RequestOK
<1>3. ItemsOf(taken, l.snapshot.source) /\ Len(taken) <= l.limit /\ Len(taken) \in Nat
  <2>1. /\ l.snapshot.source \in Nat /\ l.query \in Texts /\ l.from \in Int /\ PageLimit \in Nat
        /\ l.limit \in Nat
    BY <1>2, LimitsAssumption DEF Captured, Snapshots, Locals
  <2> HIDE DEF l
  <2>2. ItemsOf(answered, l.snapshot.source)
    BY <2>1, ItemsTyped DEF ItemsOf
  <2> HIDE DEF answered
  <2>3. /\ taken \in Seq(ItemSet) /\ Len(taken) <= l.limit /\ Len(taken) <= Len(answered)
        /\ \A i \in 1..Len(taken) : taken[i] = answered[i]
    BY <2>1, <2>2, TrimTyped DEF ItemsOf
  <2> HIDE DEF taken
  <2> QED BY <2>2, <2>3 DEF ItemsOf
<1> HIDE DEF taken, answered, goesOn
<1>4. local' = [local EXCEPT ![r] = Received(l, taken, goesOn)]
  <2> DEFINE merged == MergeItems(l.merged, taken)
             offset == l.offset + Len(taken)
             limit == l.limit - Len(taken)
             idx == IF goesOn THEN l.idx + 1 ELSE l.idx
  <2>1. local' = [local EXCEPT ![r] =
                    [l EXCEPT !.merged = merged, !.offset = offset, !.limit = limit,
                              !.idx = idx, !.query = <<>>, !.from = 0]]
    BY <1>1, <1>2
  <2> HIDE DEF merged, offset, limit, idx, l
  <2>2. ASSUME NEW n, n = [l EXCEPT !.merged = merged, !.offset = offset, !.limit = limit,
                                    !.idx = idx, !.query = <<>>, !.from = 0]
        PROVE  n = [snapshot |-> l.snapshot, titles |-> l.titles, slice |-> l.slice,
                    idx |-> idx, offset |-> offset, limit |-> limit, from |-> 0,
                    query |-> <<>>, merged |-> merged]
    BY <1>2, <2>2 DEF Locals
  <2>3. [l EXCEPT !.merged = merged, !.offset = offset, !.limit = limit,
                  !.idx = idx, !.query = <<>>, !.from = 0] = Received(l, taken, goesOn)
    BY <2>2 DEF Received, merged, offset, limit, idx
  <2> QED BY <2>1, <2>3
<1> QED BY <1>1, <1>3, <1>4 DEF taken, answered, goesOn

\* An answer is merged, an element written in place, the slice put into the cache.
LEMMA ReceiveKeeps ==
    ASSUME IInv, NEW r \in Readers, Receive(r)
    PROVE  IInv'
<1> DEFINE l == local[r]
           key == OffsetKey(r)
<1>1. PICK taken, goesOn :
         /\ ItemsOf(taken, l.snapshot.source) /\ Len(taken) <= l.limit /\ Len(taken) \in Nat
         /\ goesOn \in BOOLEAN
         /\ goesOn = (l.idx < Len(l.titles) /\ l.limit - Len(taken) > 0)
         /\ local' = [local EXCEPT ![r] = Received(l, taken, goesOn)]
         /\ pc' = [pc EXCEPT ![r] = IF goesOn THEN "send" ELSE "store"]
         /\ offsets' = Set(offsets, key, l.slice, MaxOffsets)
         /\ Collect([slices EXCEPT ![l.slice][l.idx] = l.offset + Len(taken)])
         /\ reader' = Disturbed(Readers \ {r})
         /\ UNCHANGED <<dataVars, results>>
         /\ pc[r] = "receive"
  BY ReceiveIs
<1> USE DEF IInv
<1>2. /\ l \in Locals /\ l.slice # NoSlice /\ l.slice \in InUse /\ slices[l.slice] \in Seq(Int)
      /\ Len(slices[l.slice]) = Len(l.titles) /\ l.idx \in 1..Len(slices[l.slice])
      /\ l.titles \in Seq(Texts) /\ l.offset \in Int /\ l.slice \in Nat /\ l.idx \in Nat
  <2>1. l \in Locals
    BY DEF RequestsTyped
  <2>2. l.titles \in Seq(Texts) /\ l.offset \in Int /\ l.slice \in Nat /\ l.idx \in Nat \ {0}
    BY <2>1 DEF Locals
  <2>3. /\ l.slice # NoSlice /\ l.idx <= Len(l.titles)
        /\ Len(slices[l.slice]) = Len(l.titles)
    BY <1>1 DEF SlicesOK, SliceOK
  <2>4. l.slice \in InUse
    BY <2>3 DEF InUse
  <2>5. slices[l.slice] \in Seq(Int)
    BY <2>4 DEF SlicesOK
  <2>6. l.idx \in 1..Len(slices[l.slice])
    BY <2>2, <2>3
  <2> QED BY <2>1, <2>2, <2>3, <2>4, <2>5, <2>6
<1> HIDE DEF key
<1> DEFINE new == Received(l, taken, goesOn)
<1>3. /\ new \in Locals /\ new.snapshot = l.snapshot /\ new.titles = l.titles
      /\ new.slice = l.slice /\ new.merged = MergeItems(l.merged, taken)
      /\ new.idx = IF goesOn THEN l.idx + 1 ELSE l.idx
  <2>1. new \in Locals
    BY <1>1, <1>2, ReceivedTyped DEF ItemsOf
  <2> QED BY <2>1 DEF Received
<1> HIDE DEF new
<1>4. /\ local' \in [Readers -> Locals] /\ local'[r] = new
      /\ pc' \in [Readers -> Places] /\ pc'[r] = IF goesOn THEN "send" ELSE "store"
      /\ \A q \in Readers \ {r} : local'[q] = local[q] /\ pc'[q] = pc[q]
  BY <1>1, <1>3 DEF RequestsTyped, Places, new
<1>5. /\ reader' \in [Readers -> ReaderStates]
      /\ \A q \in Readers : reader'[q].key = reader[q].key
  BY <1>1, DisturbedIs
<1>6. RequestsTyped' /\ OthersStay(r)
  BY <1>4, <1>5 DEF RequestsTyped, OthersStay
<1>7. ItemsOf(MergeItems(l.merged, taken), l.snapshot.source)
  <2>1. ItemsOf(l.merged, l.snapshot.source)
    BY <1>1 DEF RequestsOK, RequestOK
  <2> HIDE DEF l
  <2> QED BY <1>1, <2>1 DEF MergeItems, ItemsOf
<1>8. RequestsOK'
  BY <1>1, <1>3, <1>4, <1>5, <1>6, <1>7, HeldKeeps
<1>9. /\ Sound(offsets', MaxOffsets) /\ key \in DOMAIN offsets'.m
      /\ offsets'.m[key].value = l.slice
      /\ \A k \in DOMAIN offsets'.m \ {key} :
            k \in DOMAIN offsets.m /\ offsets'.m[k].value = offsets.m[k].value
  <2> HIDE DEF l
  <2> QED BY <1>1, SetKeeps, LimitsAssumption DEF CachesOK
<1>10. DataOK' /\ CachesOK' /\ PagesOK'
  BY <1>1, <1>9, DataKeeps DEF CachesOK, PagesOK, PageOK, dataVars
<1>11. EntriesOK'
  <2>1. ASSUME NEW k \in DOMAIN offsets'.m PROVE offsets'.m[k].value \in Nat \ {0}
    <3>1. CASE k = key
      BY <1>2, <1>9, <3>1 DEF NoSlice
    <3>2. CASE k # key
      BY <1>9, <3>2 DEF EntriesOK
    <3> QED BY <3>1, <3>2
  <2> QED BY <2>1 DEF EntriesOK
<1>12. InUse' \subseteq InUse
  <2>1. \A q \in Readers : local'[q].slice = local[q].slice
    BY <1>3, <1>4
  <2>2. \A k \in DOMAIN offsets'.m : offsets'.m[k].value \in InUse
    <3>1. ASSUME NEW k \in DOMAIN offsets'.m PROVE offsets'.m[k].value \in InUse
      <4>1. CASE k = key
        BY <1>2, <1>9, <4>1
      <4>2. CASE k # key
        BY <1>9, <4>2 DEF InUse
      <4> QED BY <4>1, <4>2
    <3> QED BY <3>1
  <2> QED BY <2>1, <2>2 DEF InUse
<1> DEFINE contents == [slices EXCEPT ![l.slice][l.idx] = l.offset + Len(taken)]
<1>13. contents \in [InUse -> Seq(Int)] /\ \A s \in InUse : Len(contents[s]) = Len(slices[s])
  <2>1. l.offset + Len(taken) \in Int
    BY <1>1, <1>2
  <2> QED BY <1>2, <2>1, WrittenInPlace DEF SlicesOK
<1> HIDE DEF contents
<1>14. /\ slices' \in [InUse' -> Seq(Int)]
       /\ \A s \in InUse' : Len(slices'[s]) = Len(slices[s])
  BY <1>1, <1>12, <1>13 DEF Collect, contents
<1>15. ASSUME NEW q \in Readers PROVE SliceOK(q)'
  <2>1. local[q].slice # NoSlice => local[q].slice \in InUse'
    BY <1>3, <1>4 DEF InUse
  <2>2. CASE q = r
    <3>1. l.titles # <<>> /\ l.idx <= Len(l.titles)
      BY <1>1 DEF SlicesOK, SliceOK
    <3>2. new.idx <= Len(l.titles)
      <4>1. goesOn => l.idx + 1 <= Len(l.titles)
        <5>1. Len(l.titles) \in Nat
          BY <1>2
        <5>2. goesOn => l.idx < Len(l.titles)
          BY <1>1
        <5> QED BY <1>2, <5>1, <5>2
      <4> QED BY <1>3, <3>1, <4>1
    <3> QED BY <1>2, <1>3, <1>4, <1>14, <2>1, <2>2, <3>1, <3>2 DEF SliceOK
  <2>3. CASE q # r
    BY <1>4, <1>14, <2>1, <2>3, SliceKeeps DEF SlicesOK
  <2> QED BY <2>2, <2>3
<1> QED BY <1>6, <1>8, <1>10, <1>11, <1>14, <1>15 DEF SlicesOK

-----------------------------------------------------------------------------
(* The environment; what follows from the invariant.                        *)

\* A page expires.
LEMMA ResultExpiresKeeps ==
    ASSUME IInv, NEW key \in DOMAIN results.m, ResultExpires(key)
    PROVE  IInv'
<1> USE DEF IInv
<1>1. UNCHANGED <<dataVars, offsets, slices, requestVars>> /\ results' = Aged(results, key)
  BY DEF ResultExpires
<1>2. Sound(results', MaxResults) /\ Within(results', results)
  BY <1>1, AgedKeeps, LimitsAssumption DEF CachesOK
<1>3. DataOK' /\ CachesOK' /\ PagesOK' /\ EntriesOK'
  BY <1>1, <1>2, DataKeeps, PagesWithin DEF CachesOK, EntriesOK
<1>4. RequestsTyped' /\ RequestsOK'
  BY <1>1 DEF requestVars, RequestsTyped, RequestsOK, RequestOK, dataVars, Captured
<1>5. InUse' = InUse
  BY <1>1 DEF InUse, requestVars
<1>6. SlicesOK'
  BY <1>1, <1>5 DEF SlicesOK, SliceOK, requestVars
<1> QED BY <1>3, <1>4, <1>6

\* The result cache is cleared.
LEMMA ClearResultsKeeps ==
    ASSUME IInv, ClearResults
    PROVE  IInv'
<1> USE DEF IInv
<1>1. UNCHANGED <<dataVars, offsets, slices, requestVars>> /\ results' = EmptyCache
  BY DEF ClearResults
<1>2. Sound(results', MaxResults) /\ DOMAIN results'.m = {}
  BY <1>1, EmptyIsSound, LimitsAssumption
<1>3. DataOK' /\ CachesOK' /\ PagesOK' /\ EntriesOK'
  BY <1>1, <1>2, DataKeeps DEF CachesOK, EntriesOK, PagesOK
<1>4. RequestsTyped' /\ RequestsOK'
  BY <1>1 DEF requestVars, RequestsTyped, RequestsOK, RequestOK, dataVars, Captured
<1>5. InUse' = InUse
  BY <1>1 DEF InUse, requestVars
<1>6. SlicesOK'
  BY <1>1, <1>5 DEF SlicesOK, SliceOK, requestVars
<1> QED BY <1>3, <1>4, <1>6

\* Requests go on when something happens to the offsets.
LEMMA DisturbedKeeps ==
    ASSUME RequestsTyped, RequestsOK, NEW some, reader' = Disturbed(some),
           UNCHANGED <<dataVars, pc, local>>
    PROVE  RequestsTyped' /\ RequestsOK'
<1>1. /\ reader' \in [Readers -> ReaderStates]
      /\ \A q \in Readers : reader'[q].key = reader[q].key
  BY DisturbedIs
<1>2. \A q \in Readers : RequestOK(q)'
  BY <1>1, RequestKeeps DEF RequestsOK
<1> QED BY <1>1, <1>2 DEF RequestsTyped, RequestsOK

\* Offsets expire.
LEMMA OffsetsExpireKeeps ==
    ASSUME IInv, NEW key \in DOMAIN offsets.m, OffsetsExpire(key)
    PROVE  IInv'
<1> USE DEF IInv
<1>1. /\ UNCHANGED <<dataVars, results, slices, pc, local>> /\ offsets' = Aged(offsets, key)
      /\ reader' = Disturbed(Readers)
  BY DEF OffsetsExpire
<1>2. Sound(offsets', MaxOffsets) /\ Within(offsets', offsets)
  BY <1>1, AgedKeeps, LimitsAssumption DEF CachesOK
<1>3. DOMAIN offsets'.m = DOMAIN offsets.m
  <2>1. ASSUME NEW cache, cache = Aged(offsets, key) PROVE DOMAIN cache.m = DOMAIN offsets.m
    BY <2>1 DEF Aged, CachesOK, Sound, CacheTyped
  <2> QED BY <1>1, <2>1
<1>4. DataOK' /\ CachesOK' /\ PagesOK' /\ EntriesOK'
  BY <1>1, <1>2, DataKeeps, EntriesWithin DEF CachesOK, PagesOK, PageOK, dataVars
<1>5. RequestsTyped' /\ RequestsOK'
  BY <1>1, DisturbedKeeps
<1>6. InUse' = InUse
  BY <1>1, <1>2, <1>3 DEF InUse, Within
<1>7. SlicesOK'
  BY <1>1, <1>6 DEF SlicesOK, SliceOK
<1> QED BY <1>4, <1>5, <1>7

\* The offset cache is cleared: the slices stay with those who hold them.
LEMMA ClearOffsetsKeeps ==
    ASSUME IInv, ClearOffsets
    PROVE  IInv'
<1> USE DEF IInv
<1>1. /\ UNCHANGED <<dataVars, results, pc, local>> /\ offsets' = EmptyCache
      /\ reader' = Disturbed(Readers) /\ Collect(slices)
  BY DEF ClearOffsets
<1>2. Sound(offsets', MaxOffsets) /\ DOMAIN offsets'.m = {}
  BY <1>1, EmptyIsSound, LimitsAssumption
<1>3. DataOK' /\ CachesOK' /\ PagesOK' /\ EntriesOK'
  BY <1>1, <1>2, DataKeeps DEF CachesOK, EntriesOK, PagesOK, PageOK, dataVars
<1>4. RequestsTyped' /\ RequestsOK'
  BY <1>1, DisturbedKeeps
<1>5. InUse' \subseteq InUse
  BY <1>1, <1>2 DEF InUse
<1>6. slices' \in [InUse' -> Seq(Int)] /\ \A s \in InUse' : slices'[s] = slices[s]
  BY <1>1, <1>5 DEF Collect, SlicesOK
<1>7. ASSUME NEW q \in Readers PROVE SliceOK(q)'
  <2>1. local[q].slice # NoSlice => local[q].slice \in InUse'
    BY <1>1 DEF InUse
  <2> QED BY <1>1, <1>6, <2>1, SliceKeeps DEF SlicesOK
<1> QED BY <1>3, <1>4, <1>6, <1>7 DEF SlicesOK

\* A new snapshot is published.
LEMMA PublishedKeeps ==
    ASSUME IInv, NEW source \in Nat, sourceOf' = Append(sourceOf, source),
           snapshot' \in Snapshots, snapshot'.revision = snapshot.revision + 1,
           snapshot'.source = source, snapshot'.candidates \in CandidateLists(kind, rows),
           reader' = Disturbed(Readers), UNCHANGED <<kind, rows, cacheVars, pc, local>>
    PROVE  IInv'
<1> USE DEF IInv
<1>1. sourceOf \in Seq(Nat) /\ Len(sourceOf) = snapshot.revision /\ Len(sourceOf) \in Nat
  BY DEF DataOK
<1>2. /\ sourceOf' \in Seq(Nat) /\ Len(sourceOf') = Len(sourceOf) + 1
      /\ sourceOf'[Len(sourceOf) + 1] = source
      /\ \A i \in 1..Len(sourceOf) : i \in 1..Len(sourceOf') /\ sourceOf'[i] = sourceOf[i]
  BY <1>1
<1>3. DataOK'
  BY <1>1, <1>2 DEF DataOK
<1>4. CachesOK' /\ EntriesOK'
  BY DEF CachesOK, EntriesOK, cacheVars
<1>5. PagesOK'
  BY <1>2 DEF PagesOK, PageOK, cacheVars
<1>6. /\ reader' \in [Readers -> ReaderStates]
      /\ \A q \in Readers : reader'[q].key = reader[q].key
  BY DisturbedIs
<1>7. RequestsTyped'
  BY <1>6 DEF RequestsTyped
<1>8. RequestsOK'
  BY <1>2, <1>6 DEF RequestsOK, RequestOK, Captured
<1>9. InUse' = InUse
  BY DEF InUse, cacheVars
<1>10. SlicesOK'
  BY <1>9 DEF SlicesOK, SliceOK, cacheVars
<1> QED BY <1>3, <1>4, <1>5, <1>7, <1>8, <1>10

\* A configuration is published.
LEMMA PublishConfigKeeps ==
    ASSUME IInv, PublishConfig
    PROVE  IInv'
<1>1. snapshot \in Snapshots /\ snapshot.candidates \in CandidateLists(kind, rows)
  BY DEF IInv, DataOK
<1>2. /\ snapshot' \in Snapshots /\ snapshot'.revision = snapshot.revision + 1
      /\ snapshot'.candidates = snapshot.candidates
  <2>1. ASSUME NEW n,
               n = [snapshot EXCEPT !.revision = snapshot.revision + 1,
                                    !.source = snapshot.source + 1]
        PROVE  n = [revision |-> snapshot.revision + 1, search |-> snapshot.search,
                    source |-> snapshot.source + 1, candidates |-> snapshot.candidates]
    BY <1>1, <2>1 DEF Snapshots
  <2>2. snapshot' = [revision |-> snapshot.revision + 1, search |-> snapshot.search,
                     source |-> snapshot.source + 1, candidates |-> snapshot.candidates]
    BY <2>1 DEF PublishConfig
  <2> QED BY <1>1, <2>2 DEF Snapshots
<1>3. snapshot'.source \in Nat
  BY <1>2 DEF Snapshots
<1> QED BY <1>1, <1>2, <1>3, PublishedKeeps DEF PublishConfig

\* Titles are loaded again and published.
LEMMA PublishTitlesKeeps ==
    ASSUME IInv, PublishTitles
    PROVE  IInv'
<1>1. PICK list \in CandidateLists(kind, rows) :
         snapshot' = [snapshot EXCEPT !.revision = @ + 1, !.search = @ + 1, !.candidates = list]
  BY DEF PublishTitles
<1>2. list \in Seq(CandidateSet)
  BY SnapshotsTyped DEF IInv
<1>3. /\ snapshot' \in Snapshots /\ snapshot'.revision = snapshot.revision + 1
      /\ snapshot'.candidates = list /\ snapshot'.source = snapshot.source
      /\ snapshot.source \in Nat
  <2>1. snapshot \in Snapshots
    BY DEF IInv, DataOK
  <2>2. ASSUME NEW n,
               n = [snapshot EXCEPT !.revision = snapshot.revision + 1,
                                    !.search = snapshot.search + 1, !.candidates = list]
        PROVE  n = [revision |-> snapshot.revision + 1, search |-> snapshot.search + 1,
                    source |-> snapshot.source, candidates |-> list]
    BY <2>1, <2>2 DEF Snapshots
  <2>3. snapshot' = [revision |-> snapshot.revision + 1, search |-> snapshot.search + 1,
                     source |-> snapshot.source, candidates |-> list]
    BY <1>1, <2>2
  <2> QED BY <1>2, <2>1, <2>3 DEF Snapshots
<1> QED BY <1>1, <1>3, PublishedKeeps DEF PublishTitles

\* Nothing happens.
LEMMA IInvStutters ==
    ASSUME IInv, UNCHANGED vars
    PROVE  IInv'
<1> USE DEF IInv, vars, cacheVars, dataVars, requestVars
<1>1. InUse' = InUse
  BY DEF InUse
<1>2. DataOK' /\ CachesOK' /\ PagesOK' /\ EntriesOK'
  BY DEF DataOK, CachesOK, PagesOK, PageOK, EntriesOK
<1>3. RequestsTyped' /\ RequestsOK'
  BY DEF RequestsTyped, RequestsOK, RequestOK, Captured
<1>4. SlicesOK'
  BY <1>1 DEF SlicesOK, SliceOK
<1> QED BY <1>2, <1>3, <1>4

\* Every step keeps the invariant.
LEMMA IInvKept == IInv /\ [Next]_vars => IInv'
<1> SUFFICES ASSUME IInv, [Next]_vars PROVE IInv'
  OBVIOUS
<1>1. ASSUME NEW r \in Readers, ReaderStep(r) PROVE IInv'
  BY <1>1, StartKeeps, StopKeeps, RequestStepKeeps, GetResultKeeps, DropResultKeeps,
     PlainKeeps, UpstreamFailsKeeps, StoreResultKeeps, GetOffsetsKeeps, DropOffsetsKeeps,
     ScanKeeps, SendKeeps, ReceiveKeeps, Zenon DEF ReaderStep
<1>2. CASE Environment
  BY <1>2, ResultExpiresKeeps, OffsetsExpireKeeps, ClearResultsKeeps, ClearOffsetsKeeps,
     PublishConfigKeeps, PublishTitlesKeeps DEF Environment
<1>3. CASE UNCHANGED vars
  BY <1>3, IInvStutters
<1> QED BY <1>1, <1>2, <1>3 DEF Next

\* So that it holds forever.
LEMMA SpecKeeps == Spec => []IInv
BY InitOK, IInvKept, PTL DEF Spec

\* Neither cache ever lists a key twice, or one that it does not have, or has one that it
\* does not list, or outgrows its capacity (Get, Set, Delete, Clear of cache.go).
THEOREM CachesAreIndexed == Spec => []CachesStayIndexed
<1>1. IInv => CachesStayIndexed
  BY DEF IInv, CachesOK, Sound, CachesStayIndexed
<1> QED BY <1>1, SpecKeeps, PTL

\* Whoever calls Set gets through its eviction loop, which holds the mutex of the cache.
NobodyIsStuckInSet ==
    \A r \in Readers : /\ CanSet(results, StoreKey(r), MaxResults)
                       /\ CanSet(offsets, OffsetKey(r), MaxOffsets)

\* The eviction loop of Set ends, whatever was read, deleted and cleared before: it never
\* runs out of listed keys while the map is full (setLocked of cache.go).
THEOREM EvictionsEnd == Spec => []NobodyIsStuckInSet
<1>1. IInv => NobodyIsStuckInSet
  BY SetIsPossible, LimitsAssumption DEF IInv, CachesOK, NobodyIsStuckInSet
<1> QED BY <1>1, SpecKeeps, PTL

\* A cached page holds items of the indexer that was published with the revision in its
\* key (handleIndexer computes the key from the snapshot that it has captured).
THEOREM PagesAreOfTheirRevision == Spec => []PagesBelongToTheirRevision
<1>1. IInv => PagesBelongToTheirRevision
  BY DEF IInv, PagesOK, PageOK, ItemsOf, PagesBelongToTheirRevision
<1> QED BY <1>1, SpecKeeps, PTL

\* A load has one outcome.
LEMMA OneList ==
    ASSUME NEW list \in CandidateLists(kind, rows), NEW other \in CandidateLists(kind, rows),
           DataOK
    PROVE  list = other
BY OneOrdering, RowsAssumption DEF DataOK, CandidateLists

\* Publishing the same rows again publishes the same candidates in the same order, for
\* all rows (compareSonarrRows and compareRadarrRows end in the columns that tell rows
\* apart).
THEOREM CandidatesNeverMove == Spec => CandidatesAreStable
<1>1. IInv /\ IInv' /\ [Next]_vars => (rows' = rows => snapshot'.candidates = snapshot.candidates)
  <2> SUFFICES ASSUME IInv, IInv', [Next]_vars PROVE snapshot'.candidates = snapshot.candidates
    OBVIOUS
  <2>1. rows' = rows /\ kind' = kind
    <3>1. ASSUME NEW r \in Readers, ReaderStep(r) PROVE UNCHANGED dataVars
      BY <3>1, Zenon
         DEF ReaderStep, StartReading, StopReading, Request, GetResult, DropResult, Plain,
             UpstreamFails, StoreResult, GetOffsets, DropOffsets, Scan, Send, Receive
    <3>2. CASE Environment
      BY <3>2 DEF Environment, dataVars, ResultExpires, OffsetsExpire, ClearResults,
                  ClearOffsets, PublishConfig, PublishTitles
    <3> QED BY <3>1, <3>2 DEF Next, vars, dataVars
  <2> QED BY <2>1, OneList DEF IInv, DataOK
<1> QED BY <1>1, SpecKeeps, PTL DEF Spec, CandidatesAreStable

-----------------------------------------------------------------------------
(* What a search consists of: the items of its titles, one after the other. *)

\* A text with a word in it keeps one.
LEMMA StripStaysText ==
    ASSUME NEW text \in Texts, text # <<>>, NEW words
    PROVE  StripLast(text, words) # <<>>
<1>1. Len(text) \in Nat /\ (Len(text) > 1 => Len(Front(text)) = Len(text) - 1)
  BY DEF Texts, Front
<1> QED BY <1>1 DEF StripLast

\* What is first and not empty is kept, and nothing that is empty.
LEMMA UniqueStarts ==
    ASSUME NEW texts \in Seq(Texts), Len(texts) > 0, texts[1] # <<>>
    PROVE  /\ UniqueNonEmpty(texts) # <<>>
           /\ UniqueNonEmpty(texts)[1] # <<>>
<1> DEFINE places == {n \in FirstPlaces(texts) : texts[n] # <<>>}
           in == {n \in 1..Len(texts) : n \in places}
           kept == Kept(texts, places)
<1>1. kept \in Seq(Texts) /\ {kept[i] : i \in 1..Len(kept)} = {texts[n] : n \in in}
  BY KeptFacts
<1>2. 1 \in in
  BY DEF FirstPlaces
<1> HIDE DEF kept
<1>3. \E i \in 1..Len(kept) : kept[i] = texts[1]
  <2>1. texts[1] \in {texts[n] : n \in in}
    BY <1>2
  <2> QED BY <1>1, <2>1
<1>4. 1 \in 1..Len(kept)
  BY <1>1, <1>3
<1>5. kept[1] # <<>>
  <2>1. kept[1] \in {texts[n] : n \in in}
    BY <1>1, <1>4
  <2>2. PICK n \in in : kept[1] = texts[n]
    BY <2>1
  <2> QED BY <2>2
<1>6. kept # <<>>
  BY <1>1, <1>4
<1> QED BY <1>5, <1>6 DEF UniqueNonEmpty, kept

\* A search for a text is expanded to one title at least.
LEMMA SomeTitle ==
    ASSUME NEW domain, NEW key \in Texts, key # <<>>, NEW candidates \in Seq(CandidateSet)
    PROVE  ExpandedSearchTitles(domain, key, candidates) # <<>>
<1> DEFINE basic == SearchTitles(domain, key)
           at == IF basic = <<>> THEN 0 ELSE Anchor(domain, basic, candidates)
           same == Kept(candidates, {n \in DOMAIN candidates :
                                        SameWork(domain, candidates[at], candidates[n])})
           queries == [i \in DOMAIN same |-> same[i].query]
<1>1. basic \in Seq(Texts)
  BY SearchTitlesTyped
<1>2. same \in Seq(CandidateSet)
  <2> HIDE DEF at
  <2> QED BY KeptFacts
<1>3. queries \in Seq(Texts)
  <2> HIDE DEF same
  <2>1. DOMAIN same = 1..Len(same) /\ Len(same) \in Nat
        /\ \A i \in 1..Len(same) : same[i].query \in Texts
    <3>1. DOMAIN same = 1..Len(same) /\ Len(same) \in Nat
          /\ \A i \in 1..Len(same) : same[i] \in CandidateSet
      BY <1>2
    <3>2. \A c \in CandidateSet : c.query \in Texts
      BY DEF CandidateSet
    <3> QED BY <3>1, <3>2
  <2> QED BY <2>1
<1>4. basic # <<>> /\ basic[1] # <<>>
  <2>1. RemoveYear(key) \in Texts /\ RemoveEpisode(key) \in Texts /\ RemoveEpisode(key) # <<>>
    BY StripTyped, StripStaysText DEF RemoveYear, RemoveEpisode
  <2>2. /\ <<key, RemoveYear(key)>> \in Seq(Texts) /\ Len(<<key, RemoveYear(key)>>) > 0
        /\ <<key, RemoveYear(key)>>[1] = key
        /\ <<RemoveEpisode(key)>> \in Seq(Texts) /\ Len(<<RemoveEpisode(key)>>) > 0
        /\ <<RemoveEpisode(key)>>[1] = RemoveEpisode(key)
    BY <2>1
  <2>3. CASE domain = "radarr"
    BY <2>2, <2>3, UniqueStarts DEF SearchTitles
  <2>4. CASE domain # "radarr"
    BY <2>1, <2>2, <2>4, UniqueStarts DEF SearchTitles
  <2> QED BY <2>3, <2>4
<1> HIDE DEF basic, queries
<1>5. /\ basic \o queries \in Seq(Texts) /\ Len(basic \o queries) > 0
      /\ (basic \o queries)[1] = basic[1]
  <2>1. Len(basic) \in Nat /\ Len(basic) > 0 /\ Len(queries) \in Nat
    BY <1>1, <1>3, <1>4
  <2> QED BY <1>1, <1>3, <2>1
<1>6. UniqueNonEmpty(basic \o queries) # <<>>
  BY <1>4, <1>5, UniqueStarts
<1> QED BY <1>4, <1>6 DEF ExpandedSearchTitles, basic, queries

-----------------------------------------------------------------------------
\* parts[i]: the items of the first i titles of a search.
IsParts(parts, key, titles, source) ==
    /\ parts \in [0..Len(titles) -> Seq(ItemSet)]
    /\ parts[0] = <<>>
    /\ \A i \in 1..Len(titles) :
          parts[i] = parts[i - 1] \o All(source, Broadened(key, titles, i, Len(parts[i - 1])))

\* They are determined by the search.
Parts(key, titles, source) == CHOOSE parts : IsParts(parts, key, titles, source)

\* All items of a query.
LEMMA AllIs ==
    ASSUME NEW source \in Nat, NEW text \in Texts
    PROVE  /\ Supply(text) \in Nat
           /\ All(source, text) \in Seq(ItemSet) /\ Len(All(source, text)) = Supply(text)
           /\ \A i \in 1..Supply(text) : All(source, text)[i] = <<source, text, i>>
<1> DEFINE n == Supply(text)
<1>1. n \in Nat
  BY StockAssumption DEF Supply
<1>2. Items(source, text, 0, n) \in Seq(ItemSet)
  BY <1>1, ItemsTyped
<1>3. Items(source, text, 0, n) = [i \in 1..n |-> <<source, text, i>>]
  <2> HIDE DEF n
  <2>1. Larger(0, 0) = 0 /\ Larger(Smaller(n, n - 0), 0) = n
    BY <1>1 DEF Larger, Smaller
  <2>2. Items(source, text, 0, n)
          = [i \in 1..Larger(Smaller(n, n - Larger(0, 0)), 0) |->
                <<source, text, Larger(0, 0) + i>>]
    BY DEF Items, n
  <2>3. Items(source, text, 0, n) = [i \in 1..n |-> <<source, text, 0 + i>>]
    BY <2>1, <2>2
  <2> QED BY <1>1, <2>3
<1> HIDE DEF n
<1>4. ASSUME NEW items, items = [i \in 1..n |-> <<source, text, i>>]
      PROVE  Len(items) = n /\ \A i \in 1..n : items[i] = <<source, text, i>>
  BY <1>1, <1>4
<1> QED BY <1>1, <1>2, <1>3, <1>4 DEF All, n

\* And they exist.
LEMMA PartsAre ==
    ASSUME NEW key \in Texts, NEW titles \in Seq(Texts), NEW source \in Nat
    PROVE  IsParts(Parts(key, titles, source), key, titles, source)
<1> DEFINE L == Len(titles)
           next(n, x) == x \o All(source, Broadened(key, titles, n, Len(x)))
           step == [n \in 1..L |-> [x \in Seq(ItemSet) |-> next(n, x)]]
<1>1. L \in Nat /\ <<>> \in Seq(ItemSet)
  OBVIOUS
<1>2. \A n \in 1..L : \A x \in Seq(ItemSet) : next(n, x) \in Seq(ItemSet)
  <2>1. ASSUME NEW n \in 1..L, NEW x \in Seq(ItemSet) PROVE next(n, x) \in Seq(ItemSet)
    <3>1. All(source, Broadened(key, titles, n, Len(x))) \in Seq(ItemSet)
      BY QueryTyped, AllIs
    <3> QED BY <3>1
  <2> QED BY <2>1
<1> HIDE DEF L, next
<1>3. \A n \in 1..L : \A x \in Seq(ItemSet) : step[n][x] = next(n, x)
  OBVIOUS
<1> HIDE DEF step
<1>4. StaysIn(step, Seq(ItemSet), L)
  BY <1>2, <1>3 DEF StaysIn
<1>5. PICK f : MadeBy(f, Seq(ItemSet), <<>>, step, L)
  BY <1>1, <1>4, Recursion
<1>6. f \in [0..L -> Seq(ItemSet)] /\ f[0] = <<>> /\ \A n \in 1..L : f[n] = next(n, f[n - 1])
  <2>1. f \in [0..L -> Seq(ItemSet)] /\ f[0] = <<>> /\ \A n \in 1..L : f[n] = step[n][f[n - 1]]
    BY <1>5 DEF MadeBy
  <2>2. \A n \in 1..L : n - 1 \in 0..L
    BY <1>1
  <2> QED BY <1>3, <2>1, <2>2
<1>7. IsParts(f, key, titles, source)
  BY <1>6 DEF IsParts, next, L
<1> QED BY <1>7 DEF Parts

\* The elements of a concatenation.
LEMMA ConcatIs ==
    ASSUME NEW S, NEW a \in Seq(S), NEW b \in Seq(S)
    PROVE  /\ a \o b \in Seq(S) /\ Len(a \o b) = Len(a) + Len(b)
           /\ \A p \in 1..Len(a) : (a \o b)[p] = a[p]
           /\ \A p \in 1..Len(b) : (a \o b)[Len(a) + p] = b[p]
<1>1. a \o b \in Seq(S) /\ Len(a \o b) = Len(a) + Len(b)
  OBVIOUS
<1>2. \A p \in 1..Len(a) : (a \o b)[p] = a[p]
  OBVIOUS
<1>3. ASSUME NEW p \in 1..Len(b) PROVE (a \o b)[Len(a) + p] = b[p]
  <2>1. /\ Len(a) + p \in 1..(Len(a) + Len(b)) /\ ~(Len(a) + p <= Len(a))
        /\ Len(a) + p - Len(a) = p
    OBVIOUS
  <2> QED BY <2>1
<1> QED BY <1>1, <1>2, <1>3

\* The i-th title adds all items of its query to those of the titles before it.
Joined(parts, key, titles, source, i) ==
    LET query == Broadened(key, titles, i, Len(parts[i - 1]))
    IN  /\ query \in Texts /\ Supply(query) \in Nat
        /\ parts[i] = parts[i - 1] \o All(source, query)
        /\ Len(parts[i]) = Len(parts[i - 1]) + Supply(query)
        /\ \A p \in 1..Len(parts[i - 1]) : parts[i][p] = parts[i - 1][p]
        /\ \A p \in 1..Supply(query) :
              parts[i][Len(parts[i - 1]) + p] = <<source, query, p>>

\* What the parts of a search are.
LEMMA PartsTyped ==
    ASSUME NEW key \in Texts, NEW titles \in Seq(Texts), NEW source \in Nat,
           NEW parts, IsParts(parts, key, titles, source)
    PROVE  /\ \A i \in 0..Len(titles) : parts[i] \in Seq(ItemSet) /\ Len(parts[i]) \in Nat
           /\ parts[0] = <<>> /\ Len(parts[0]) = 0
           /\ \A i \in 1..Len(titles) :
                 /\ i - 1 \in 0..Len(titles) /\ i \in 0..Len(titles)
                 /\ Joined(parts, key, titles, source, i)
<1>1. \A i \in 0..Len(titles) : parts[i] \in Seq(ItemSet) /\ Len(parts[i]) \in Nat
  <2>1. \A i \in 0..Len(titles) : parts[i] \in Seq(ItemSet)
    BY DEF IsParts
  <2> QED BY <2>1
<1>2. parts[0] = <<>>
  BY DEF IsParts
<1>3. ASSUME NEW i \in 1..Len(titles)
      PROVE  /\ i - 1 \in 0..Len(titles) /\ i \in 0..Len(titles)
             /\ Joined(parts, key, titles, source, i)
  <2> DEFINE query == Broadened(key, titles, i, Len(parts[i - 1]))
             a == parts[i - 1]
             b == All(source, query)
  <2>1. i - 1 \in 0..Len(titles) /\ i \in 0..Len(titles)
    OBVIOUS
  <2>2. query \in Texts
    BY QueryTyped
  <2>3. parts[i] = a \o b
    BY DEF IsParts
  <2>4. a \in Seq(ItemSet)
    BY <1>1, <2>1
  <2> HIDE DEF query, a
  <2>5. /\ Supply(query) \in Nat /\ b \in Seq(ItemSet) /\ Len(b) = Supply(query)
        /\ \A p \in 1..Supply(query) : b[p] = <<source, query, p>>
    BY <2>2, AllIs
  <2> HIDE DEF b
  <2>6. /\ Len(a \o b) = Len(a) + Len(b) /\ \A p \in 1..Len(a) : (a \o b)[p] = a[p]
        /\ \A p \in 1..Len(b) : (a \o b)[Len(a) + p] = b[p]
    BY <2>4, <2>5, ConcatIs
  <2> QED BY <2>1, <2>2, <2>3, <2>5, <2>6 DEF a, b, query, Joined
<1> QED BY <1>1, <1>2, <1>3

\* What the first i titles have is the beginning of what more of them have.
LEMMA PartsGrow ==
    ASSUME NEW key \in Texts, NEW titles \in Seq(Texts), NEW source \in Nat,
           NEW parts, IsParts(parts, key, titles, source), NEW i \in 0..Len(titles)
    PROVE  \A m \in i..Len(titles) :
              /\ Len(parts[i]) <= Len(parts[m])
              /\ \A p \in 1..Len(parts[i]) : parts[m][p] = parts[i][p]
<1> DEFINE Good(m) == /\ Len(parts[i]) <= Len(parts[m])
                      /\ \A p \in 1..Len(parts[i]) : parts[m][p] = parts[i][p]
           bad == {m \in i..Len(titles) : ~Good(m)}
<1>1. Len(titles) \in Nat
  OBVIOUS
<1>2. CASE bad # {}
  <2>1. PICK b \in bad : \A m \in bad : b <= m
    <3>1. bad \subseteq Nat
      OBVIOUS
    <3> HIDE DEF bad
    <3> QED BY <1>2, <3>1, LeastNumber
  <2>2. Good(i)
    BY PartsTyped
  <2> HIDE DEF Good
  <2>3. b # i /\ b \in i..Len(titles) /\ b \in 1..Len(titles) /\ b - 1 \in i..Len(titles)
        /\ ~(b <= b - 1)
    BY <1>1, <2>1, <2>2
  <2>4. Good(b - 1)
    BY <2>1, <2>3
  <2> DEFINE query == Broadened(key, titles, b, Len(parts[b - 1]))
  <2>5. /\ Supply(query) \in Nat /\ Len(parts[b]) = Len(parts[b - 1]) + Supply(query)
        /\ \A p \in 1..Len(parts[b - 1]) : parts[b][p] = parts[b - 1][p]
    <3>1. Joined(parts, key, titles, source, b)
      BY <2>3, PartsTyped
    <3> QED BY <3>1 DEF Joined
  <2> HIDE DEF query
  <2>6. Len(parts[i]) \in Nat /\ Len(parts[b - 1]) \in Nat
    <3>1. b - 1 \in 0..Len(titles)
      BY <2>3
    <3> QED BY <3>1, PartsTyped
  <2>7. \A p \in 1..Len(parts[i]) : p \in 1..Len(parts[b - 1])
    BY <2>4, <2>6 DEF Good
  <2>8. Good(b)
    BY <2>4, <2>5, <2>6, <2>7 DEF Good
  <2> QED BY <2>1, <2>8
<1>3. CASE bad = {}
  <2> HIDE DEF Good
  <2>1. \A m \in i..Len(titles) : Good(m)
    BY <1>3
  <2> QED BY <2>1 DEF Good
<1> QED BY <1>2, <1>3

\* The items of the titles, one after the other, are the whole search.
LEMMA WholeIs ==
    ASSUME NEW key \in Texts, NEW titles \in Seq(Texts), titles # <<>>, NEW source \in Nat,
           NEW parts, IsParts(parts, key, titles, source)
    PROVE  Whole(key, titles, source) = parts[Len(titles)]
<1> DEFINE N == Len(titles)
           first == [i \in 1..(N - 1) |-> All(source, QueryFor(key, titles, i))]
           before == FlattenSeq(first)
<1>1. N \in Nat \ {0} /\ N - 1 \in Nat
  OBVIOUS
<1>2. \A i \in 1..(N - 1) : All(source, QueryFor(key, titles, i)) \in Seq(ItemSet)
  <2>1. \A i \in 1..(N - 1) : QueryFor(key, titles, i) \in Texts
    BY <1>1, QueryTyped
  <2> QED BY <2>1, AllIs
<1>3. first \in Seq(Seq(ItemSet)) /\ Len(first) = N - 1
      /\ \A i \in 1..(N - 1) : first[i] = All(source, QueryFor(key, titles, i))
  <2> HIDE DEF N
  <2>1. first \in [1..(N - 1) -> Seq(ItemSet)]
    BY <1>2
  <2>2. \A i \in 1..(N - 1) : first[i] = All(source, QueryFor(key, titles, i))
    OBVIOUS
  <2> HIDE DEF first
  <2> QED BY <1>1, <2>1, <2>2
<1> HIDE DEF first
<1>4. PICK f \in [0..(N - 1) -> Seq(ItemSet)] :
         /\ f[0] = <<>> /\ \A n \in 1..(N - 1) : f[n] = f[n - 1] \o first[n]
         /\ before = f[N - 1]
  <2> HIDE DEF N
  <2>1. \E f \in [0..Len(first) -> Seq(ItemSet)] :
           /\ f[0] = <<>> /\ \A n \in 1..Len(first) : f[n] = f[n - 1] \o first[n]
           /\ FlattenSeq(first) = f[Len(first)]
    <3>1. first \in Seq(Seq(ItemSet))
      BY <1>3
    <3> QED BY <3>1, FlattenIs
  <2>2. Len(first) = N - 1
    BY <1>3
  <2> QED BY <2>1, <2>2
<1> DEFINE bad == {m \in 0..(N - 1) : f[m] # parts[m]}
<1>5. bad = {}
  <2> SUFFICES ASSUME bad # {} PROVE FALSE
    OBVIOUS
  <2>1. PICK b \in bad : \A m \in bad : b <= m
    <3>1. bad \subseteq Nat
      OBVIOUS
    <3> HIDE DEF bad
    <3> QED BY <3>1, LeastNumber
  <2>2. b # 0 /\ b \in 1..(N - 1) /\ b - 1 \in 0..(N - 1) /\ ~(b <= b - 1) /\ b \in 1..N /\ b # N
    <3>1. parts[0] = <<>>
      BY DEF IsParts
    <3> QED BY <1>1, <1>4, <2>1, <3>1
  <2>3. f[b - 1] = parts[b - 1]
    BY <2>1, <2>2
  <2>4. Broadened(key, titles, b, Len(parts[b - 1])) = QueryFor(key, titles, b)
    BY <2>2 DEF Broadened
  <2>5. parts[b] = parts[b - 1] \o All(source, QueryFor(key, titles, b))
    BY <2>2, <2>4 DEF IsParts
  <2>6. f[b] = f[b - 1] \o All(source, QueryFor(key, titles, b))
    BY <1>3, <1>4, <2>2
  <2> QED BY <2>1, <2>3, <2>5, <2>6
<1>6. before = parts[N - 1]
  <2> HIDE DEF before, N
  <2>1. N - 1 \in 0..(N - 1)
    BY <1>1
  <2> QED BY <1>4, <1>5, <2>1
<1>7. N \in 1..N
  BY <1>1
<1>8. parts[N] = parts[N - 1] \o All(source, Broadened(key, titles, N, Len(parts[N - 1])))
  BY <1>7 DEF IsParts
<1>9. Whole(key, titles, source) = before \o All(source, Broadened(key, titles, N, Len(before)))
  BY DEF Whole, first
<1> HIDE DEF before, N
<1> QED BY <1>6, <1>8, <1>9 DEF N

\* The elements of a sequence after the first m, as far as the n-th.
Piece(s, m, n) == SubSeq(s, m + 1, n)

\* The elements of a piece.
LEMMA SubSeqIs ==
    ASSUME NEW S, NEW s \in Seq(S), NEW m \in Nat, NEW n \in Nat, m <= n, n <= Len(s)
    PROVE  LET sub == SubSeq(s, m + 1, n)
           IN  /\ sub = Piece(s, m, n)
               /\ sub \in Seq(S) /\ Len(sub) = n - m /\ \A p \in 1..(n - m) : sub[p] = s[m + p]
<1>1. m + 1 \in Nat /\ m + 1 >= 1 /\ Len(s) \in Nat
  OBVIOUS
<1>2. SubSeq(s, m + 1, n) \in Seq(S)
  BY <1>1
<1>3. Len(SubSeq(s, m + 1, n)) = n - m
  BY <1>1
<1>4. ASSUME NEW p \in 1..(n - m) PROVE SubSeq(s, m + 1, n)[p] = s[m + p]
  <2>1. (m + 1) + p - 1 = m + p
    OBVIOUS
  <2> QED BY <1>1, <2>1
<1> QED BY <1>2, <1>3, <1>4 DEF Piece

\* t is what comes in s after the first n.
Continues(S, s, m, n, t) ==
    /\ s \in Seq(S) /\ t \in Seq(S) /\ m \in Nat /\ n \in Nat /\ m <= n
    /\ n + Len(t) <= Len(s) /\ \A p \in 1..Len(t) : t[p] = s[n + p]

\* A piece of a sequence, and the piece that comes next.
LEMMA SubSeqGrows ==
    ASSUME NEW S, NEW s, NEW m, NEW n, NEW t, Continues(S, s, m, n, t)
    PROVE  Piece(s, m, n) \o t = Piece(s, m, n + Len(t))
<1> DEFINE k == Len(t)
           a == SubSeq(s, m + 1, n)
           c == SubSeq(s, m + 1, n + k)
<1>0. s \in Seq(S) /\ t \in Seq(S) /\ m \in Nat /\ n \in Nat /\ m <= n
  BY DEF Continues
<1>1. k \in Nat /\ n <= Len(s) /\ n + k \in Nat /\ m <= n + k /\ n + k <= Len(s)
  BY <1>0 DEF Continues
<1>2. a \in Seq(S) /\ Len(a) = n - m /\ \A p \in 1..(n - m) : a[p] = s[m + p]
  BY <1>0, <1>1, SubSeqIs
<1>3. c \in Seq(S) /\ Len(c) = (n + k) - m /\ \A p \in 1..((n + k) - m) : c[p] = s[m + p]
  <2> HIDE DEF k
  <2> QED BY <1>0, <1>1, SubSeqIs
<1> HIDE DEF a, c
<1>4. /\ a \o t \in Seq(S) /\ Len(a \o t) = (n - m) + k
      /\ \A p \in 1..(n - m) : (a \o t)[p] = a[p]
      /\ \A p \in 1..k : (a \o t)[(n - m) + p] = t[p]
  <2>1. /\ a \o t \in Seq(S) /\ Len(a \o t) = Len(a) + Len(t)
        /\ \A p \in 1..Len(a) : (a \o t)[p] = a[p]
        /\ \A p \in 1..Len(t) : (a \o t)[Len(a) + p] = t[p]
    <3>1. a \in Seq(S)
      BY <1>2
    <3> QED BY <1>0, <3>1, ConcatIs
  <2> QED BY <1>0, <1>2, <2>1
<1>5. ASSUME NEW p \in 1..((n + k) - m) PROVE (a \o t)[p] = c[p]
  <2>1. CASE p <= n - m
    BY <1>0, <1>1, <1>2, <1>3, <1>4, <2>1
  <2>2. CASE ~(p <= n - m)
    <3> DEFINE q == p - (n - m)
    <3>1. q \in 1..k /\ p = (n - m) + q /\ n + q = m + p
      BY <1>0, <1>1, <2>2
    <3> HIDE DEF q, k
    <3>2. (a \o t)[p] = t[q]
      BY <1>4, <3>1
    <3>3. t[q] = s[n + q]
      BY <1>0, <3>1 DEF k, Continues
    <3> QED BY <1>3, <3>1, <3>2, <3>3
  <2> QED BY <2>1, <2>2
<1>6. Len(a \o t) = Len(c)
  BY <1>0, <1>1, <1>3, <1>4
<1> HIDE DEF k
<1>7. \A p \in 1..Len(c) : (a \o t)[p] = c[p]
  BY <1>3, <1>5
<1>8. a \o t = c
  <2>1. \A v, w \in Seq(S) : Len(v) = Len(w) /\ (\A p \in 1..Len(w) : v[p] = w[p]) => v = w
    OBVIOUS
  <2> QED BY <1>3, <1>4, <1>6, <1>7, <2>1
<1> QED BY <1>8 DEF a, c, k, Piece

\* What an indexer answers: the items of a query from a place on.
LEMMA ItemsAre ==
    ASSUME NEW source, NEW text, NEW from \in Nat, NEW n \in Nat, Supply(text) \in Nat
    PROVE  LET items == Items(source, text, from, n)
               count == IF from >= Supply(text) THEN 0 ELSE Smaller(n, Supply(text) - from)
           IN  /\ count \in Nat /\ count <= n
               /\ items = [i \in 1..count |-> <<source, text, from + i>>]
<1> DEFINE S == Supply(text)
           count == IF from >= S THEN 0 ELSE Smaller(n, S - from)
<1>1. /\ Larger(from, 0) = from /\ Larger(Smaller(n, S - from), 0) = count
      /\ count \in Nat /\ count <= n
  BY DEF Larger, Smaller
<1>2. Items(source, text, from, n)
        = [i \in 1..Larger(Smaller(n, S - Larger(from, 0)), 0) |->
              <<source, text, Larger(from, 0) + i>>]
  BY DEF Items
<1> HIDE DEF count, S
<1>3. Items(source, text, from, n) = [i \in 1..count |-> <<source, text, from + i>>]
  BY <1>1, <1>2
<1> QED BY <1>1, <1>3 DEF count, S

\* The next answer is the next piece of the whole search, as far as the title goes.
GivesNext(key, titles, source, parts, i, at, o, limit) ==
    LET query == Broadened(key, titles, i, Len(parts[i - 1]))
        taken == TrimItems(Items(source, query, o - Len(parts[i - 1]), PageLimit), limit)
        whole == parts[Len(titles)]
    IN  /\ o + Len(taken) <= Len(parts[i])
        /\ Len(taken) < limit => o + Len(taken) = Len(parts[i])
        /\ MergeItems(Piece(whole, at, o), taken) = Piece(whole, at, o + Len(taken))

\* So it is, for whatever title and place.
LEMMA AnswerIsNext ==
    ASSUME NEW key \in Texts, NEW titles \in Seq(Texts), NEW source \in Nat,
           NEW parts, IsParts(parts, key, titles, source), NEW i \in 1..Len(titles),
           NEW at \in Nat, NEW o \in Nat, at <= o,
           Len(parts[i - 1]) <= o, o <= Len(parts[i]),
           NEW limit \in Nat, limit <= PageLimit
    PROVE  GivesNext(key, titles, source, parts, i, at, o, limit)
<1> DEFINE query == Broadened(key, titles, i, Len(parts[i - 1]))
           S == Supply(query)
           start == Len(parts[i - 1])
           from == o - start
           count == IF from >= S THEN 0 ELSE Smaller(PageLimit, S - from)
           answered == Items(source, query, from, PageLimit)
           taken == TrimItems(answered, limit)
           whole == parts[Len(titles)]
<1>1. Joined(parts, key, titles, source, i) /\ i - 1 \in 0..Len(titles) /\ i \in 0..Len(titles)
  BY PartsTyped
<1>2. /\ start \in Nat /\ parts[i] \in Seq(ItemSet) /\ Len(parts[i]) \in Nat
      /\ whole \in Seq(ItemSet) /\ Len(whole) \in Nat
  <2>1. Len(titles) \in 0..Len(titles)
    OBVIOUS
  <2> QED BY <1>1, <2>1, PartsTyped
<1>3. /\ query \in Texts /\ S \in Nat /\ Len(parts[i]) = start + S
      /\ \A p \in 1..S : parts[i][start + p] = <<source, query, p>>
  BY <1>1 DEF Joined
<1>4. /\ Len(parts[i]) <= Len(whole)
      /\ \A p \in 1..Len(parts[i]) : whole[p] = parts[i][p]
  <2>1. Len(titles) \in i..Len(titles)
    OBVIOUS
  <2> QED BY <1>1, <2>1, PartsGrow
<1>5. from \in Nat /\ from <= S /\ o = start + from
  BY <1>2, <1>3
<1>6. PageLimit \in Nat
  BY LimitsAssumption
<1> HIDE DEF query, S, start, from, whole
<1>7. /\ count \in Nat /\ count <= PageLimit
      /\ answered = [p \in 1..count |-> <<source, query, from + p>>]
  BY <1>3, <1>5, <1>6, ItemsAre DEF S
<1>8. answered \in Seq(ItemSet)
  BY <1>3, <1>5, <1>6, ItemsTyped
<1>9. count = (IF PageLimit <= S - from THEN PageLimit ELSE S - from)
  BY <1>3, <1>5, <1>6 DEF Smaller
<1> HIDE DEF count, answered
<1>10. Len(answered) = count /\ \A p \in 1..count : answered[p] = <<source, query, from + p>>
  BY <1>7
<1>11. /\ taken \in Seq(ItemSet) /\ Len(taken) = Smaller(count, limit)
       /\ \A p \in 1..Len(taken) : taken[p] = answered[p]
  BY <1>8, <1>10, TrimTyped
<1> HIDE DEF taken
<1>12. /\ Len(taken) \in Nat /\ Len(taken) <= count /\ from + Len(taken) <= S
       /\ Len(taken) < limit => from + Len(taken) = S
  BY <1>3, <1>5, <1>6, <1>7, <1>9, <1>11 DEF Smaller
<1>13. /\ o + Len(taken) <= Len(parts[i])
       /\ Len(taken) < limit => o + Len(taken) = Len(parts[i])
  BY <1>2, <1>3, <1>5, <1>12
<1>14. ASSUME NEW p \in 1..Len(taken) PROVE taken[p] = whole[o + p]
  <2>1. p \in 1..count /\ from + p \in 1..S /\ o + p = start + (from + p)
        /\ o + p \in 1..Len(parts[i])
    <3>1. p \in Nat \ {0} /\ p <= Len(taken)
      BY <1>12
    <3>2. p <= count /\ from + p <= S /\ o + p <= Len(parts[i])
      BY <1>2, <1>3, <1>5, <1>7, <1>12, <1>13, <3>1
    <3>3. o + p = start + (from + p)
      BY <1>2, <1>5, <3>1
    <3> QED BY <1>2, <1>3, <1>5, <1>7, <3>1, <3>2, <3>3
  <2>2. taken[p] = <<source, query, from + p>>
    BY <1>10, <1>11, <2>1
  <2>3. whole[o + p] = parts[i][o + p]
    BY <1>4, <2>1
  <2>4. parts[i][start + (from + p)] = <<source, query, from + p>>
    BY <1>3, <2>1
  <2> QED BY <2>1, <2>2, <2>3, <2>4
<1>15. o + Len(taken) <= Len(whole)
  BY <1>2, <1>4, <1>12, <1>13
<1>16. Piece(whole, at, o) \o taken = Piece(whole, at, o + Len(taken))
  <2>1. \A p \in 1..Len(taken) : taken[p] = whole[o + p]
    BY <1>14
  <2>2. taken \in Seq(ItemSet)
    BY <1>11
  <2>3. whole \in Seq(ItemSet)
    BY <1>2
  <2>4. Continues(ItemSet, whole, at, o, taken)
    BY <1>15, <2>1, <2>2, <2>3 DEF Continues
  <2> QED BY <2>4, SubSeqGrows, SMTT(30)
<1> QED BY <1>13, <1>16 DEF GivesNext, MergeItems, taken, answered, query, from, start, whole

\* A request without a term: the next page of all items of the one query.
LEMMA PageIsNext ==
    ASSUME NEW source \in Nat, NEW text \in Texts, NEW at \in Nat
    PROVE  LET whole == All(source, text)
           IN  Items(source, text, at, PageLimit)
                 = SubSeq(whole, at + 1, Smaller(at + PageLimit, Len(whole)))
<1> DEFINE S == Supply(text)
           count == IF at >= S THEN 0 ELSE Smaller(PageLimit, S - at)
           whole == All(source, text)
           items == Items(source, text, at, PageLimit)
           upto == Smaller(at + PageLimit, S)
<1>1. /\ S \in Nat /\ whole \in Seq(ItemSet) /\ Len(whole) = S
      /\ \A i \in 1..S : whole[i] = <<source, text, i>>
  BY AllIs
<1>2. PageLimit \in Nat
  BY LimitsAssumption
<1>3. /\ count \in Nat /\ items = [i \in 1..count |-> <<source, text, at + i>>]
  BY <1>1, <1>2, ItemsAre
<1>4. items \in Seq(ItemSet)
  BY <1>2, ItemsTyped
<1> HIDE DEF whole, items, S
<1>5. CASE at >= S
  <2>1. count = 0 /\ upto = S
    BY <1>1, <1>2, <1>5 DEF Smaller
  <2>2. Len(items) = 0
    BY <1>3, <1>4, <2>1
  <2>3. items = <<>>
    BY <1>4, <2>2
  <2>4. SubSeq(whole, at + 1, S) = <<>>
    <3>1. at + 1 > S /\ at + 1 \in Nat
      BY <1>1, <1>5
    <3> QED BY <1>1, <3>1
  <2> QED BY <1>1, <2>1, <2>3, <2>4 DEF items, whole
<1>6. CASE ~(at >= S)
  <2>1. /\ count \in Nat /\ upto \in Nat /\ at <= upto /\ upto <= S /\ upto - at = count
    BY <1>1, <1>2, <1>6 DEF Smaller
  <2> DEFINE sub == SubSeq(whole, at + 1, upto)
  <2> HIDE DEF count, upto
  <2>2. sub \in Seq(ItemSet) /\ Len(sub) = count /\ \A p \in 1..count : sub[p] = whole[at + p]
    BY <1>1, <2>1, SubSeqIs, SMTT(30)
  <2> HIDE DEF sub
  <2>3. Len(items) = count /\ \A p \in 1..count : items[p] = <<source, text, at + p>>
    BY <1>3, <1>4
  <2>4. ASSUME NEW p \in 1..count PROVE items[p] = sub[p]
    <3>1. at + p \in 1..S
      BY <1>1, <2>1
    <3> QED BY <1>1, <2>2, <2>3, <3>1
  <2>5. items = sub
    BY <1>4, <2>2, <2>3, <2>4
  <2> QED BY <1>1, <2>5 DEF items, whole, sub, upto
<1> QED BY <1>5, <1>6

-----------------------------------------------------------------------------
(* Paging through a search that nothing comes between.                      *)

\* How far a slice has got, at least: the titles before some title have given all their
\* items, and that one as many as its element says.
Reached(ends, parts, at) ==
    \E i \in 1..Len(ends) :
        /\ \A k \in 1..(i - 1) : ends[k] = Len(parts[k])
        /\ at <= ends[i] /\ ends[i] <= Len(parts[i])

\* The search of a reader, as the published snapshot has it.
TitlesNow(r) ==
    IF reader[r].key = <<>> THEN <<>>
    ELSE ExpandedSearchTitles(kind, TrimZeroZero(reader[r].key), snapshot.candidates)

\* The items of the first titles of it.
PartsNow(r) == Parts(reader[r].key, TitlesNow(r), snapshot.source)

\* All of its items.
WholeNow(r) == PartsNow(r)[Len(TitlesNow(r))]

\* The key of its offsets.
KeyNow(r) == <<snapshot.search, reader[r].key>>

\* The slice that is cached for it.
Cached(r) == offsets.m[KeyNow(r)].value

\* The offset cache knows how to go on at this place.
Remembered(r, at) ==
    /\ Hit(offsets, KeyNow(r))
    /\ Len(slices[Cached(r)]) = Len(TitlesNow(r))
    /\ Reached(slices[Cached(r)], PartsNow(r), at)

\* For a reader that has had a page.
Tracked(r) == reader[r].at > 0 /\ TitlesNow(r) # <<>> => Remembered(r, reader[r].at)

\* What a request has merged before it asks for the next title.
Gathered(r) ==
    /\ \A k \in 1..(local[r].idx - 1) : slices[local[r].slice][k] = Len(PartsNow(r)[k])
    /\ Len(PartsNow(r)[local[r].idx - 1]) <= local[r].offset
    /\ local[r].offset <= Len(PartsNow(r)[local[r].idx])
    /\ reader[r].at <= local[r].offset
    /\ local[r].limit = PageLimit - (local[r].offset - reader[r].at) /\ local[r].limit > 0
    /\ local[r].merged = Piece(WholeNow(r), reader[r].at, local[r].offset)

\* The query that was sent is for what comes next.
Asked(r) ==
    LET before == Len(PartsNow(r)[local[r].idx - 1])
    IN  /\ local[r].query = Broadened(reader[r].key, TitlesNow(r), local[r].idx, before)
        /\ local[r].from = local[r].offset - before

\* What was merged is what is due.
Finished(r) ==
    IF TitlesNow(r) = <<>>
    THEN local[r].merged
           = Items(snapshot.source, TrimZeroZero(reader[r].key), reader[r].at, PageLimit)
    ELSE /\ reader[r].at <= local[r].offset
         /\ local[r].offset = Smaller(reader[r].at + PageLimit, Len(WholeNow(r)))
         /\ local[r].merged = Piece(WholeNow(r), reader[r].at, local[r].offset)
         /\ Remembered(r, local[r].offset)

\* A request under way, place by place.
Flight(r) ==
    /\ local[r].snapshot = snapshot /\ local[r].titles = TitlesNow(r)
    /\ pc[r] = "plain" => TitlesNow(r) = <<>>
    /\ pc[r] \in {"result", "dropResult", "plain", "offsets", "dropOffsets", "scan"} =>
          local[r].merged = <<>>
    /\ pc[r] = "dropOffsets" => reader[r].at = 0
    /\ pc[r] = "scan" => /\ local[r].offset = reader[r].at /\ local[r].limit = PageLimit
                         /\ reader[r].at > 0 => local[r].slice = Cached(r)
    /\ pc[r] \in {"send", "receive"} => Gathered(r)
    /\ pc[r] = "receive" => Asked(r)
    /\ pc[r] = "store" => Finished(r)

\* An undisturbed reader.
WholeOK(r) ==
    Reading(r) /\ reader[r].so = "whole" => Tracked(r) /\ (pc[r] # "idle" => Flight(r))

\* The inductive invariant for searches that nothing has come between.
PagingInv == \A r \in Readers : reader[r].so # "torn" /\ WholeOK(r)

-----------------------------------------------------------------------------

\* What a reader is reading is typed.
LEMMA NowTyped ==
    ASSUME IInv, NEW r \in Readers, Reading(r)
    PROVE  /\ reader[r].key \in Texts /\ reader[r].at \in Nat
           /\ TitlesNow(r) \in Seq(Texts) /\ (TitlesNow(r) = <<>> => reader[r].key = <<>>)
           /\ snapshot.source \in Nat
           /\ IsParts(PartsNow(r), reader[r].key, TitlesNow(r), snapshot.source)
<1> DEFINE key == reader[r].key
<1>1. key \in Texts /\ reader[r].at \in Nat
  <2>1. key \in SearchKeys[kind] /\ reader[r] \in ReaderStates
    BY DEF IInv, RequestsOK, RequestOK, Reading, RequestsTyped
  <2> QED BY <2>1, KeyIsText DEF IInv, ReaderStates
<1>2. snapshot.candidates \in Seq(CandidateSet) /\ snapshot.source \in Nat
  BY DEF IInv, DataOK, Snapshots
<1>3. TrimZeroZero(key) \in Texts /\ (key # <<>> => TrimZeroZero(key) # <<>>)
  BY <1>1, StripTyped, StripStaysText DEF TrimZeroZero
<1>4. TitlesNow(r) \in Seq(Texts) /\ (TitlesNow(r) = <<>> => key = <<>>)
  <2>1. CASE key = <<>>
    BY <2>1 DEF TitlesNow
  <2>2. CASE key # <<>>
    BY <1>2, <1>3, <2>2, ExpandedTyped, SomeTitle DEF TitlesNow
  <2> QED BY <2>1, <2>2
<1> HIDE DEF key
<1>5. IsParts(PartsNow(r), key, TitlesNow(r), snapshot.source)
  BY <1>1, <1>2, <1>4, PartsAre DEF PartsNow, key
<1> QED BY <1>1, <1>2, <1>4, <1>5 DEF key

\* After an undisturbed page, the scan of the slice finds the title to go on with.
LEMMA ScanFinds ==
    ASSUME NEW ends \in Seq(Int), NEW parts, NEW at \in Nat, at # 0,
           \A i \in 0..Len(ends) : Len(parts[i]) \in Nat, Len(parts[0]) = 0,
           Reached(ends, parts, at)
    PROVE  LET idx == CalculateCurrentIndex(at, ends)
           IN  /\ idx \in 1..Len(ends)
               /\ \A k \in 1..(idx - 1) : ends[k] = Len(parts[k])
               /\ Len(parts[idx - 1]) <= at /\ at <= Len(parts[idx])
<1> DEFINE S == {i \in 1..Len(ends) : ends[i] >= at}
           idx == Min(S)
<1>1. PICK j \in 1..Len(ends) : /\ \A k \in 1..(j - 1) : ends[k] = Len(parts[k])
                                /\ at <= ends[j] /\ ends[j] <= Len(parts[j])
  BY DEF Reached
<1>2. j \in S /\ S \subseteq Nat
  BY <1>1
<1>3. SelectInSeq(ends, LAMBDA end : end >= at) = idx
  BY <1>2 DEF SelectInSeq
<1>4. idx \in S /\ \A n \in S : idx <= n
  <2> HIDE DEF S
  <2> QED BY <1>2, MinIsLeast
<1>5. idx \in 1..Len(ends) /\ idx <= j /\ ends[idx] >= at /\ idx \in Nat \ {0}
      /\ \A k \in 1..(idx - 1) : ~(ends[k] >= at)
  <2>1. \A k \in 1..(idx - 1) : k \in 1..Len(ends) /\ k \notin S
    <3>1. idx \in 1..Len(ends)
      BY <1>4
    <3> HIDE DEF idx, S
    <3> QED BY <1>4, <3>1
  <2>2. idx \in 1..Len(ends) /\ ends[idx] >= at /\ idx <= j
    BY <1>2, <1>4
  <2> HIDE DEF idx
  <2> QED BY <2>1, <2>2
<1>6. CalculateCurrentIndex(at, ends) = idx
  <2> HIDE DEF idx, S
  <2>1. idx # 0
    BY <1>5
  <2> QED BY <1>3, <2>1 DEF CalculateCurrentIndex
<1> HIDE DEF idx, S
<1>7. \A k \in 1..(idx - 1) : ends[k] = Len(parts[k])
  BY <1>1, <1>5
<1>8. at <= Len(parts[idx])
  <2>1. CASE idx = j
    BY <1>1, <2>1
  <2>2. CASE idx # j
    <3>1. idx \in 1..(j - 1)
      BY <1>5, <2>2
    <3> QED BY <1>1, <1>5, <3>1
  <2> QED BY <2>1, <2>2
<1>9. Len(parts[idx - 1]) <= at
  <2>1. CASE idx = 1
    BY <2>1
  <2>2. CASE idx # 1
    <3>1. idx - 1 \in 1..(idx - 1) /\ idx - 1 \in 1..Len(ends)
      BY <1>5, <2>2
    <3>2. ends[idx - 1] = Len(parts[idx - 1]) /\ ~(ends[idx - 1] >= at) /\ ends[idx - 1] \in Int
      BY <1>5, <1>7, <3>1
    <3> QED BY <3>2
  <2> QED BY <2>1, <2>2
<1> QED BY <1>5, <1>6, <1>7, <1>8, <1>9

-----------------------------------------------------------------------------
\* The search of a reader stays the same while nothing is published.
LEMMA NowStays ==
    ASSUME NEW r \in Readers, snapshot' = snapshot, kind' = kind, reader'[r].key = reader[r].key
    PROVE  /\ TitlesNow(r)' = TitlesNow(r) /\ PartsNow(r)' = PartsNow(r)
           /\ WholeNow(r)' = WholeNow(r) /\ KeyNow(r)' = KeyNow(r)
BY DEF TitlesNow, PartsNow, WholeNow, KeyNow

\* No slice that stays in use is written.
SlicesStay == \A s \in InUse : s \in InUse' => slices'[s] = slices[s]

\* The offset cache still knows how to go on with a search.
LEMMA TrackedStays ==
    ASSUME NEW r \in Readers, snapshot' = snapshot, kind' = kind, reader'[r].key = reader[r].key,
           offsets' = offsets, SlicesStay, reader'[r].at = reader[r].at, Tracked(r)
    PROVE  Tracked(r)'
<1>1. /\ TitlesNow(r)' = TitlesNow(r) /\ PartsNow(r)' = PartsNow(r) /\ KeyNow(r)' = KeyNow(r)
      /\ Cached(r)' = Cached(r)
  BY NowStays DEF Cached
<1>2. SUFFICES ASSUME reader[r].at > 0 /\ TitlesNow(r) # <<>> PROVE Tracked(r)'
  BY <1>1 DEF Tracked
<1>3. Remembered(r, reader[r].at)
  BY <1>2 DEF Tracked
<1>4. slices'[Cached(r)] = slices[Cached(r)]
  <2>1. Cached(r) \in InUse /\ Cached(r) \in InUse'
    BY <1>1, <1>3 DEF Remembered, Hit, Has, InUse, Cached
  <2> QED BY <2>1 DEF SlicesStay
<1> QED BY <1>1, <1>3, <1>4 DEF Remembered, Tracked, Hit, Has

\* A request in its course, after a step of which it has not noticed anything.
LEMMA FlightStays ==
    ASSUME SlicesOK, NEW q \in Readers, Flight(q), pc[q] # "idle",
           snapshot' = snapshot, kind' = kind, offsets' = offsets, SlicesStay,
           reader'[q] = reader[q], pc'[q] = pc[q], local'[q] = local[q]
    PROVE  Flight(q)'
<1>1. /\ TitlesNow(q)' = TitlesNow(q) /\ PartsNow(q)' = PartsNow(q) /\ KeyNow(q)' = KeyNow(q)
      /\ WholeNow(q)' = WholeNow(q) /\ Cached(q)' = Cached(q)
  BY NowStays DEF Cached
<1>2. pc[q] \in {"send", "receive"} => Gathered(q)'
  <2>1. SUFFICES ASSUME pc[q] \in {"send", "receive"} PROVE Gathered(q)'
    OBVIOUS
  <2>2. local[q].slice \in InUse /\ local[q].slice \in InUse'
    BY <2>1 DEF SlicesOK, SliceOK, InUse
  <2>3. slices'[local'[q].slice] = slices[local[q].slice]
    BY <2>2 DEF SlicesStay
  <2>4. Gathered(q)
    BY <2>1 DEF Flight
  <2> QED BY <1>1, <2>3, <2>4 DEF Gathered
<1>3. pc[q] = "receive" => Asked(q)'
  BY <1>1 DEF Flight, Asked
<1>4. pc[q] = "store" => Finished(q)'
  <2>1. SUFFICES ASSUME pc[q] = "store" PROVE Finished(q)'
    OBVIOUS
  <2>2. Finished(q)
    BY <2>1 DEF Flight
  <2>3. CASE TitlesNow(q) = <<>>
    BY <1>1, <2>2, <2>3 DEF Finished
  <2>4. CASE TitlesNow(q) # <<>>
    <3>1. Remembered(q, local[q].offset)
      BY <2>2, <2>4 DEF Finished
    <3>2. slices'[Cached(q)] = slices[Cached(q)]
      <4>1. Cached(q) \in InUse /\ Cached(q) \in InUse'
        BY <1>1, <3>1 DEF Remembered, Hit, Has, InUse, Cached
      <4> QED BY <4>1 DEF SlicesStay
    <3>3. Remembered(q, local[q].offset)'
      BY <1>1, <3>1, <3>2 DEF Remembered, Hit, Has
    <3> QED BY <1>1, <2>2, <2>4, <3>3 DEF Finished
  <2> QED BY <2>3, <2>4
<1> QED BY <1>1, <1>2, <1>3, <1>4 DEF Flight

\* A reader of whose search nothing changes.
LEMMA OthersWhole ==
    ASSUME IInv, NEW q \in Readers, WholeOK(q),
           snapshot' = snapshot, kind' = kind, offsets' = offsets, SlicesStay,
           reader'[q] = reader[q], pc'[q] = pc[q], local'[q] = local[q]
    PROVE  WholeOK(q)'
<1>1. SUFFICES ASSUME Reading(q), reader[q].so = "whole"
               PROVE  Tracked(q)' /\ (pc[q] # "idle" => Flight(q)')
  BY DEF WholeOK, Reading
<1>2. Tracked(q) /\ (pc[q] # "idle" => Flight(q))
  BY <1>1 DEF WholeOK
<1> QED BY <1>2, TrackedStays, FlightStays DEF IInv

\* What is disturbed is not undisturbed.
LEMMA DisturbedNotWhole ==
    ASSUME RequestsTyped, NEW some, reader' = Disturbed(some), NEW q \in some, q \in Readers
    PROVE  WholeOK(q)' /\ (reader[q].so # "torn" => reader'[q].so # "torn")
<1>1. reader[q] \in ReaderStates
  BY DEF RequestsTyped
<1>2. CASE Reading(q) /\ reader[q].so = "whole"
  <2>1. reader'[q] = [reader[q] EXCEPT !.so = "disturbed"]
    BY <1>2 DEF Disturbed
  <2>2. reader'[q].so = "disturbed"
    BY <1>1, <2>1 DEF ReaderStates
  <2> QED BY <2>2 DEF WholeOK
<1>3. CASE ~(Reading(q) /\ reader[q].so = "whole")
  <2>1. reader'[q] = reader[q]
    BY <1>3 DEF Disturbed
  <2> QED BY <1>3, <2>1 DEF WholeOK, Reading
<1> QED BY <1>2, <1>3

\* All readers are disturbed.
LEMMA AllDisturbed ==
    ASSUME RequestsTyped, PagingInv, reader' = Disturbed(Readers)
    PROVE  PagingInv'
<1>1. \A q \in Readers : WholeOK(q)' /\ reader'[q].so # "torn"
  BY DisturbedNotWhole DEF PagingInv
<1> QED BY <1>1 DEF PagingInv

-----------------------------------------------------------------------------

\* Nobody reads at first.
LEMMA InitWhole == Init => PagingInv
<1> SUFFICES ASSUME Init PROVE PagingInv
  OBVIOUS
<1>1. \A r \in Readers : reader[r] = NoReader /\ NoReader.key = None /\ NoReader.so = "whole"
  BY DEF Init, NoReader
<1> QED BY <1>1 DEF PagingInv, WholeOK, Reading

\* Steps that change nothing that the search of anyone depends on.
LEMMA NothingHappens ==
    ASSUME IInv, PagingInv, snapshot' = snapshot, kind' = kind, offsets' = offsets, SlicesStay,
           UNCHANGED <<reader, pc, local>>
    PROVE  PagingInv'
<1>1. \A q \in Readers : WholeOK(q)'
  BY OthersWhole DEF PagingInv
<1> QED BY <1>1 DEF PagingInv

\* What comes from outside changes no offsets, or disturbs everyone.
LEMMA EnvironmentWhole ==
    ASSUME IInv, PagingInv, Environment
    PROVE  PagingInv'
<1>1. RequestsTyped
  BY DEF IInv
<1>2. ASSUME NEW key \in DOMAIN results.m, ResultExpires(key) PROVE PagingInv'
  BY <1>2, NothingHappens DEF ResultExpires, dataVars, requestVars, SlicesStay
<1>3. CASE ClearResults
  BY <1>3, NothingHappens DEF ClearResults, dataVars, requestVars, SlicesStay
<1>4. ASSUME NEW key \in DOMAIN offsets.m, OffsetsExpire(key) PROVE PagingInv'
  BY <1>1, <1>4, AllDisturbed DEF OffsetsExpire
<1>5. CASE ClearOffsets
  BY <1>1, <1>5, AllDisturbed DEF ClearOffsets
<1>6. CASE PublishConfig
  BY <1>1, <1>6, AllDisturbed DEF PublishConfig
<1>7. CASE PublishTitles
  BY <1>1, <1>7, AllDisturbed DEF PublishTitles
<1> QED BY <1>2, <1>3, <1>4, <1>5, <1>6, <1>7 DEF Environment

\* A step of one request that others need not notice.
Alone(r) ==
    /\ snapshot' = snapshot /\ kind' = kind /\ offsets' = offsets /\ SlicesStay
    /\ \A q \in Readers \ {r} : reader'[q] = reader[q] /\ pc'[q] = pc[q] /\ local'[q] = local[q]

\* So that only the one that makes the step has to be looked at.
LEMMA AloneWhole ==
    ASSUME IInv, PagingInv, NEW r \in Readers, Alone(r), WholeOK(r)', reader'[r].so # "torn"
    PROVE  PagingInv'
<1>1. ASSUME NEW q \in Readers PROVE WholeOK(q)' /\ reader'[q].so # "torn"
  <2>1. CASE q = r
    BY <2>1
  <2>2. CASE q # r
    BY <2>2, OthersWhole DEF PagingInv, Alone
  <2> QED BY <2>1, <2>2
<1> QED BY <1>1 DEF PagingInv

\* A step after which the place of a reader is the same.
LEMMA PlaceStays ==
    ASSUME NEW r \in Readers, WholeOK(r), Reading(r), reader[r].so = "whole", Alone(r),
           reader'[r].key = reader[r].key, reader'[r].at = reader[r].at
    PROVE  /\ Tracked(r)'
           /\ TitlesNow(r)' = TitlesNow(r) /\ PartsNow(r)' = PartsNow(r)
           /\ WholeNow(r)' = WholeNow(r) /\ KeyNow(r)' = KeyNow(r) /\ Cached(r)' = Cached(r)
<1>1. Tracked(r)
  BY DEF WholeOK
<1> QED BY <1>1, TrackedStays, NowStays DEF Alone, Cached

\* A search begins undisturbed, with nothing read.
LEMMA StartWhole ==
    ASSUME IInv, PagingInv, NEW r \in Readers, NEW key \in SearchKeys[kind], StartReading(r, key)
    PROVE  PagingInv'
<1>1. /\ reader'[r] = [NoReader EXCEPT !.key = key]
      /\ \A q \in Readers \ {r} : reader'[q] = reader[q]
  BY DEF StartReading, IInv, RequestsTyped
<1>2. reader'[r].at = 0 /\ reader'[r].so = "whole"
  BY <1>1 DEF NoReader
<1>3. pc'[r] = "idle"
  BY DEF IInv, RequestsOK, RequestOK, Reading, StartReading
<1>4. Alone(r)
  BY <1>1 DEF Alone, StartReading, dataVars, cacheVars, SlicesStay
<1>5. WholeOK(r)'
  BY <1>2, <1>3 DEF WholeOK, Tracked
<1> QED BY <1>2, <1>4, <1>5, AloneWhole

\* A search that is left is none.
LEMMA StopWhole ==
    ASSUME IInv, PagingInv, NEW r \in Readers, StopReading(r)
    PROVE  PagingInv'
<1>1. reader'[r] = NoReader /\ \A q \in Readers \ {r} : reader'[q] = reader[q]
  BY DEF StopReading, IInv, RequestsTyped
<1>2. reader'[r].key = None /\ reader'[r].so = "whole"
  BY <1>1 DEF NoReader
<1>3. Alone(r)
  BY <1>1 DEF Alone, StopReading, dataVars, cacheVars, SlicesStay
<1>4. WholeOK(r)'
  BY <1>2 DEF WholeOK, Reading
<1> QED BY <1>2, <1>3, <1>4, AloneWhole

\* A request captures what its search is about.
LEMMA RequestWhole ==
    ASSUME IInv, PagingInv, NEW r \in Readers, Request(r)
    PROVE  PagingInv'
<1> DEFINE titles == TitlesNow(r)
<1>1. local' = [local EXCEPT ![r].snapshot = snapshot, ![r].titles = titles]
  BY DEF Request, TitlesNow
<1> HIDE DEF titles
<1>2. local \in [Readers -> Locals] /\ pc \in [Readers -> Places] /\ local[r] = NoLocal
  BY DEF IInv, RequestsTyped, RequestsOK, RequestOK, Request
<1>3. /\ local'[r].snapshot = snapshot /\ local'[r].titles = titles /\ local'[r].merged = <<>>
      /\ pc'[r] = "result"
      /\ \A q \in Readers \ {r} : local'[q] = local[q] /\ pc'[q] = pc[q]
  BY <1>1, <1>2 DEF NoLocal, Request
<1>4. Alone(r) /\ reader' = reader
  BY <1>3 DEF Alone, Request, dataVars, cacheVars, SlicesStay
<1>5. WholeOK(r)'
  <2> SUFFICES ASSUME Reading(r), reader[r].so = "whole" PROVE Tracked(r)' /\ Flight(r)'
    BY <1>4 DEF WholeOK, Reading
  <2>1. Tracked(r)' /\ TitlesNow(r)' = TitlesNow(r)
    BY <1>4, PlaceStays DEF PagingInv
  <2>2. Flight(r)'
    BY <1>3, <1>4, <2>1 DEF Flight, Alone, titles
  <2> QED BY <2>1, <2>2
<1> QED BY <1>4, <1>5, AloneWhole DEF PagingInv

\* A page from the result cache disturbs the search; none leaves it as it is.
LEMMA GetResultWhole ==
    ASSUME IInv, PagingInv, NEW r \in Readers, GetResult(r)
    PROVE  PagingInv'
<1>0. UNCHANGED <<dataVars, cacheVars>> /\ pc[r] = "result"
  BY DEF GetResult
<1>1. CASE Hit(results, ResultKey(r))
  <2> DEFINE n == Len(results.m[ResultKey(r)].value)
  <2>1. /\ reader' = [reader EXCEPT ![r].at = @ + n, ![r].so = "disturbed"]
        /\ pc' = [pc EXCEPT ![r] = "idle"] /\ local' = [local EXCEPT ![r] = NoLocal]
    BY <1>1 DEF GetResult, Answer
  <2> HIDE DEF n
  <2>2. /\ reader'[r].so = "disturbed"
        /\ \A q \in Readers \ {r} : reader'[q] = reader[q] /\ pc'[q] = pc[q] /\ local'[q] = local[q]
    BY <2>1 DEF IInv, RequestsTyped, ReaderStates
  <2>3. Alone(r)
    BY <1>0, <2>2 DEF Alone, dataVars, cacheVars, SlicesStay
  <2>4. WholeOK(r)'
    BY <2>2 DEF WholeOK
  <2> QED BY <2>2, <2>3, <2>4, AloneWhole
<1>2. CASE ~Hit(results, ResultKey(r))
  <2>1. /\ UNCHANGED <<reader, local>> /\ pc'[r] \in {"dropResult", AfterResultMiss(r)}
        /\ \A q \in Readers \ {r} : pc'[q] = pc[q]
    BY <1>2 DEF GetResult, IInv, RequestsTyped
  <2>2. Alone(r)
    BY <1>0, <2>1 DEF Alone, dataVars, cacheVars, SlicesStay
  <2>3. WholeOK(r)'
    <3> SUFFICES ASSUME Reading(r), reader[r].so = "whole" PROVE Tracked(r)' /\ Flight(r)'
      BY <2>1 DEF WholeOK, Reading
    <3>1. Tracked(r)' /\ TitlesNow(r)' = TitlesNow(r)
      BY <2>1, <2>2, PlaceStays DEF PagingInv
    <3>2. Flight(r)
      BY <1>0 DEF PagingInv, WholeOK
    <3>3. Flight(r)'
      BY <1>0, <2>1, <2>2, <3>1, <3>2 DEF Flight, AfterResultMiss, Alone
    <3> QED BY <3>1, <3>3
  <2> QED BY <2>1, <2>2, <2>3, AloneWhole DEF PagingInv
<1> QED BY <1>1, <1>2

\* The result cache has nothing to do with the offsets.
LEMMA DropResultWhole ==
    ASSUME IInv, PagingInv, NEW r \in Readers, DropResult(r)
    PROVE  PagingInv'
<1>1. /\ UNCHANGED <<dataVars, offsets, slices, reader, local>> /\ pc[r] = "dropResult"
      /\ pc'[r] = AfterResultMiss(r) /\ \A q \in Readers \ {r} : pc'[q] = pc[q]
  BY DEF DropResult, IInv, RequestsTyped
<1>2. Alone(r)
  BY <1>1 DEF Alone, dataVars, SlicesStay
<1>3. WholeOK(r)'
  <2> SUFFICES ASSUME Reading(r), reader[r].so = "whole" PROVE Tracked(r)' /\ Flight(r)'
    BY <1>1 DEF WholeOK, Reading
  <2>1. Tracked(r)' /\ TitlesNow(r)' = TitlesNow(r)
    BY <1>1, <1>2, PlaceStays DEF PagingInv
  <2>2. Flight(r)
    BY <1>1 DEF PagingInv, WholeOK
  <2>3. Flight(r)'
    BY <1>1, <1>2, <2>1, <2>2 DEF Flight, AfterResultMiss, Alone
  <2> QED BY <2>1, <2>3
<1> QED BY <1>1, <1>2, <1>3, AloneWhole DEF PagingInv

\* The only query of a request without a term gives what is due.
LEMMA PlainWhole ==
    ASSUME IInv, PagingInv, NEW r \in Readers, Plain(r)
    PROVE  PagingInv'
<1> DEFINE items == Items(local[r].snapshot.source, TrimZeroZero(reader[r].key),
                          reader[r].at, PageLimit)
<1>1. /\ UNCHANGED <<dataVars, cacheVars, reader>> /\ pc[r] = "plain"
      /\ pc' = [pc EXCEPT ![r] = "store"]
      /\ local' = [local EXCEPT ![r].merged = items]
  BY DEF Plain
<1>2. local \in [Readers -> Locals] /\ pc \in [Readers -> Places]
  BY DEF IInv, RequestsTyped
<1> HIDE DEF items
<1>3. /\ local'[r].merged = items /\ pc'[r] = "store"
      /\ local'[r].snapshot = local[r].snapshot /\ local'[r].titles = local[r].titles
      /\ \A q \in Readers \ {r} : local'[q] = local[q] /\ pc'[q] = pc[q]
  BY <1>1, <1>2 DEF Locals
<1>4. Alone(r)
  BY <1>1, <1>3 DEF Alone, dataVars, cacheVars, SlicesStay
<1>5. WholeOK(r)'
  <2> SUFFICES ASSUME Reading(r), reader[r].so = "whole" PROVE Tracked(r)' /\ Flight(r)'
    BY <1>1 DEF WholeOK, Reading
  <2>1. Tracked(r)' /\ TitlesNow(r)' = TitlesNow(r)
    BY <1>1, <1>4, PlaceStays DEF PagingInv
  <2>2. Flight(r)
    BY <1>1 DEF PagingInv, WholeOK
  <2>3. Finished(r)'
    BY <1>1, <1>3, <1>4, <2>1, <2>2 DEF Flight, Finished, Alone, items
  <2>4. Flight(r)'
    BY <1>3, <1>4, <2>1, <2>2, <2>3 DEF Flight, Alone
  <2> QED BY <2>1, <2>4
<1> QED BY <1>1, <1>4, <1>5, AloneWhole DEF PagingInv

\* The slices that are left are as they were.
LEMMA CollectStays ==
    ASSUME Collect(slices) PROVE SlicesStay
BY DEF Collect, SlicesStay

\* A request that fails leaves the offsets that it has recorded.
LEMMA UpstreamFailsWhole ==
    ASSUME IInv, PagingInv, NEW r \in Readers, UpstreamFails(r)
    PROVE  PagingInv'
<1>1. /\ UNCHANGED <<dataVars, offsets, reader>> /\ pc'[r] = "idle"
      /\ \A q \in Readers \ {r} : local'[q] = local[q] /\ pc'[q] = pc[q]
  BY DEF UpstreamFails, IInv, RequestsTyped
<1>2. Alone(r)
  BY <1>1, CollectStays DEF Alone, dataVars, UpstreamFails
<1>3. WholeOK(r)'
  <2> SUFFICES ASSUME Reading(r), reader[r].so = "whole" PROVE Tracked(r)'
    BY <1>1 DEF WholeOK, Reading
  <2> QED BY <1>1, <1>2, PlaceStays DEF PagingInv
<1> QED BY <1>1, <1>2, <1>3, AloneWhole DEF PagingInv

\* The locals of a request that goes on to scan a slice.
LEMMA ScanNext ==
    ASSUME IInv, NEW r \in Readers, NEW slice \in Nat, Scanning(r, slice), Flight(r),
           pc[r] \in {"offsets", "dropOffsets"}, snapshot' = snapshot,
           TitlesNow(r)' = TitlesNow(r), reader'[r].at = reader[r].at,
           reader[r].at > 0 => slice = Cached(r)'
    PROVE  Flight(r)'
<1>1. /\ pc'[r] = "scan" /\ local'[r].slice = slice
      /\ local'[r].snapshot = local[r].snapshot /\ local'[r].merged = local[r].merged
      /\ local'[r].titles = local[r].titles
      /\ local'[r].offset = reader[r].at /\ local'[r].limit = PageLimit
  BY ScanningIs DEF IInv
<1> QED BY <1>1 DEF Flight

\* A new slice is none of those that are in use.
LEMMA NewSliceIs ==
    ASSUME IInv, NEW r \in Readers, pc[r] \in {"offsets", "dropOffsets"}, NewSlice(r)
    PROVE  /\ \E new \in Nat : Scanning(r, new)
           /\ SlicesStay
           /\ \A q \in Readers \ {r} : pc'[q] = pc[q] /\ local'[q] = local[q]
<1> DEFINE new == Min(Slices \ InUse)
           zeros == Zeros(Len(local[r].titles))
<1>1. local[r].slice = NoSlice
  BY DEF IInv, SlicesOK, SliceOK
<1>2. new \in Slices /\ new \notin InUse
  BY <1>1, FreshSlice DEF IInv
<1>3. new \in Nat
  <2>1. Cardinality(Readers) + MaxOffsets \in Nat
    BY ReadersAssumption, LimitsAssumption, FS_CardinalityType
  <2> QED BY <1>2, <2>1 DEF Slices
<1>4. /\ Scanning(r, new)
      /\ Collect([s \in InUse \cup {new} |-> IF s = new THEN zeros ELSE slices[s]])
  BY DEF NewSlice
<1> HIDE DEF new, zeros
<1>5. SlicesStay
  BY <1>2, <1>4 DEF Collect, SlicesStay
<1>6. \A q \in Readers \ {r} : pc'[q] = pc[q] /\ local'[q] = local[q]
  BY <1>3, <1>4, ScanningIs DEF IInv
<1> QED BY <1>3, <1>4, <1>5, <1>6

\* A reader that has had a page finds its slice; one that has not may get any.
LEMMA GetOffsetsWhole ==
    ASSUME IInv, PagingInv, NEW r \in Readers, GetOffsets(r)
    PROVE  PagingInv'
<1> DEFINE key == OffsetKey(r)
           slice == offsets.m[key].value
           fits == Hit(offsets, key) /\ Len(slices[slice]) = Len(local[r].titles)
<1>1. UNCHANGED <<dataVars, results, offsets, reader>> /\ pc[r] = "offsets"
  BY DEF GetOffsets
<1>2. ASSUME Reading(r), reader[r].so = "whole"
      PROVE  /\ Flight(r) /\ key = KeyNow(r) /\ slice = Cached(r)
             /\ reader[r].at > 0 => fits
  <2>1. Tracked(r) /\ Flight(r)
    BY <1>1, <1>2 DEF PagingInv, WholeOK
  <2>2. key = KeyNow(r) /\ slice = Cached(r) /\ local[r].titles = TitlesNow(r)
    BY <2>1 DEF Flight, OffsetKey, KeyNow, Cached
  <2>3. TitlesNow(r) # <<>>
    BY <1>1, <2>2 DEF IInv, SlicesOK, SliceOK
  <2>4. reader[r].at > 0 => fits
    BY <2>1, <2>2, <2>3 DEF Tracked, Remembered
  <2> QED BY <2>1, <2>2, <2>4
<1>3. \/ fits /\ Scanning(r, slice) /\ UNCHANGED slices
      \/ /\ Expired(offsets, key) /\ pc' = [pc EXCEPT ![r] = "dropOffsets"]
         /\ UNCHANGED <<slices, local>>
      \/ ~fits /\ NewSlice(r)
  BY DEF GetOffsets, Hit, Expired
<1>4. fits => ~Expired(offsets, key) /\ slice \in Nat
  BY DEF Hit, Has, Expired, IInv, EntriesOK
<1> HIDE DEF key, slice, fits
<1>5. CASE fits /\ Scanning(r, slice) /\ UNCHANGED slices
  <2>1. \A q \in Readers \ {r} : pc'[q] = pc[q] /\ local'[q] = local[q]
    BY <1>4, <1>5, ScanningIs DEF IInv
  <2>2. Alone(r)
    BY <1>1, <1>5, <2>1 DEF Alone, dataVars, SlicesStay
  <2>3. WholeOK(r)'
    <3> SUFFICES ASSUME Reading(r), reader[r].so = "whole" PROVE Tracked(r)' /\ Flight(r)'
      BY <1>1 DEF WholeOK, Reading
    <3>1. Tracked(r)' /\ TitlesNow(r)' = TitlesNow(r) /\ Cached(r)' = Cached(r)
      BY <1>1, <2>2, PlaceStays DEF PagingInv
    <3>2. Flight(r)'
      BY <1>1, <1>2, <1>4, <1>5, <3>1, ScanNext DEF dataVars
    <3> QED BY <3>1, <3>2
  <2> QED BY <1>1, <2>2, <2>3, AloneWhole DEF PagingInv
<1>6. CASE /\ Expired(offsets, key) /\ pc' = [pc EXCEPT ![r] = "dropOffsets"]
           /\ UNCHANGED <<slices, local>>
  <2>1. pc'[r] = "dropOffsets" /\ \A q \in Readers \ {r} : pc'[q] = pc[q]
    BY <1>6 DEF IInv, RequestsTyped
  <2>2. Alone(r)
    BY <1>1, <1>6, <2>1 DEF Alone, dataVars, SlicesStay
  <2>3. WholeOK(r)'
    <3> SUFFICES ASSUME Reading(r), reader[r].so = "whole" PROVE Tracked(r)' /\ Flight(r)'
      BY <1>1 DEF WholeOK, Reading
    <3>1. Tracked(r)' /\ TitlesNow(r)' = TitlesNow(r)
      BY <1>1, <2>2, PlaceStays DEF PagingInv
    <3>2. ~(reader[r].at > 0) /\ reader[r].at \in Nat
      BY <1>2, <1>4, <1>6 DEF IInv, RequestsTyped, ReaderStates
    <3>3. reader[r].at = 0
      BY <3>2
    <3>4. Flight(r)'
      BY <1>1, <1>2, <1>6, <2>1, <3>1, <3>3 DEF Flight, dataVars
    <3> QED BY <3>1, <3>4
  <2> QED BY <1>1, <2>2, <2>3, AloneWhole DEF PagingInv
<1>7. CASE ~fits /\ NewSlice(r)
  <2>1. PICK new \in Nat : Scanning(r, new)
    BY <1>1, <1>7, NewSliceIs
  <2>2. Alone(r)
    BY <1>1, <1>7, NewSliceIs DEF Alone, dataVars
  <2>3. WholeOK(r)'
    <3> SUFFICES ASSUME Reading(r), reader[r].so = "whole" PROVE Tracked(r)' /\ Flight(r)'
      BY <1>1 DEF WholeOK, Reading
    <3>1. Tracked(r)' /\ TitlesNow(r)' = TitlesNow(r)
      BY <1>1, <2>2, PlaceStays DEF PagingInv
    <3>2. Flight(r)'
      BY <1>1, <1>2, <1>7, <2>1, <3>1, ScanNext DEF dataVars
    <3> QED BY <3>1, <3>2
  <2> QED BY <1>1, <2>2, <2>3, AloneWhole DEF PagingInv
<1> QED BY <1>3, <1>5, <1>6, <1>7

\* A step of one request that disturbs all others.
LEMMA OthersDisturbed ==
    ASSUME IInv, PagingInv, NEW r \in Readers, reader' = Disturbed(Readers \ {r}), WholeOK(r)'
    PROVE  PagingInv'
<1>1. ASSUME NEW q \in Readers PROVE WholeOK(q)' /\ reader'[q].so # "torn"
  <2>1. CASE q = r
    <3>1. reader'[r] = reader[r]
      BY DEF Disturbed
    <3> QED BY <2>1, <3>1 DEF PagingInv
  <2>2. CASE q # r
    BY <2>2, DisturbedNotWhole DEF IInv, PagingInv
  <2> QED BY <2>1, <2>2
<1> QED BY <1>1 DEF PagingInv

\* Only a reader that has had no page finds its offsets expired.
LEMMA DropOffsetsWhole ==
    ASSUME IInv, PagingInv, NEW r \in Readers, DropOffsets(r)
    PROVE  PagingInv'
<1>1. /\ UNCHANGED <<dataVars, results>> /\ pc[r] = "dropOffsets" /\ NewSlice(r)
      /\ reader' = Disturbed(Readers \ {r})
  BY DEF DropOffsets
<1>2. reader'[r] = reader[r]
  BY <1>1 DEF Disturbed
<1>3. PICK new \in Nat : Scanning(r, new)
  BY <1>1, NewSliceIs
<1>4. WholeOK(r)'
  <2> SUFFICES ASSUME Reading(r), reader[r].so = "whole" PROVE Tracked(r)' /\ Flight(r)'
    BY <1>2 DEF WholeOK, Reading
  <2>1. Flight(r) /\ reader[r].at = 0
    BY <1>1 DEF PagingInv, WholeOK, Flight
  <2>2. TitlesNow(r)' = TitlesNow(r)
    BY <1>1, <1>2, NowStays DEF dataVars
  <2>3. Flight(r)'
    BY <1>1, <1>2, <1>3, <2>1, <2>2, ScanNext DEF dataVars
  <2> QED BY <1>2, <2>1, <2>3 DEF Tracked
<1> QED BY <1>1, <1>4, OthersDisturbed

\* Nothing is between a place and itself.
LEMMA PieceIsEmpty ==
    ASSUME NEW S, NEW s \in Seq(S), NEW at \in Nat
    PROVE  Piece(s, at, at) = <<>>
<1>1. at + 1 > at /\ at + 1 \in Nat
  OBVIOUS
<1>2. SubSeq(s, at + 1, at) = <<>>
  BY <1>1
<1> QED BY <1>2 DEF Piece

\* What holds of an undisturbed request that has a slice.
LEMMA SliceIs ==
    ASSUME IInv, PagingInv, NEW r \in Readers, Reading(r), reader[r].so = "whole",
           pc[r] \in {"scan", "send", "receive"}
    PROVE  LET ends == slices[local[r].slice]
           IN  /\ Tracked(r) /\ Flight(r)
               /\ ends \in Seq(Int) /\ Len(ends) = Len(TitlesNow(r)) /\ TitlesNow(r) # <<>>
               /\ local[r].idx \in 1..Len(TitlesNow(r)) /\ Len(TitlesNow(r)) \in Nat \ {0}
               /\ \A i \in 0..Len(TitlesNow(r)) :
                     PartsNow(r)[i] \in Seq(ItemSet) /\ Len(PartsNow(r)[i]) \in Nat
               /\ PartsNow(r)[0] = <<>> /\ Len(PartsNow(r)[0]) = 0
<1>1. Tracked(r) /\ Flight(r)
  BY DEF PagingInv, WholeOK
<1>2. /\ local[r].slice # NoSlice /\ local[r].slice \in InUse
      /\ local[r].idx <= Len(local[r].titles) /\ local[r].titles # <<>>
      /\ Len(slices[local[r].slice]) = Len(local[r].titles)
  BY DEF IInv, SlicesOK, SliceOK, InUse
<1>3. slices[local[r].slice] \in Seq(Int) /\ local[r].idx \in Nat \ {0}
  BY <1>2 DEF IInv, SlicesOK, RequestsTyped, Locals
<1>4. local[r].titles = TitlesNow(r)
  BY <1>1 DEF Flight
<1>5. /\ reader[r].key \in Texts /\ TitlesNow(r) \in Seq(Texts) /\ snapshot.source \in Nat
      /\ IsParts(PartsNow(r), reader[r].key, TitlesNow(r), snapshot.source)
  BY NowTyped
<1>6. Len(TitlesNow(r)) \in Nat \ {0}
  BY <1>2, <1>4, <1>5
<1>7. /\ \A i \in 0..Len(TitlesNow(r)) :
            PartsNow(r)[i] \in Seq(ItemSet) /\ Len(PartsNow(r)[i]) \in Nat
      /\ PartsNow(r)[0] = <<>> /\ Len(PartsNow(r)[0]) = 0
  BY <1>5, PartsTyped
<1> QED BY <1>1, <1>2, <1>3, <1>4, <1>6, <1>7

\* The scan finds the title that the last page ended in, or the one after.
LEMMA ScanWhole ==
    ASSUME IInv, PagingInv, NEW r \in Readers, Scan(r)
    PROVE  PagingInv'
<1> DEFINE ends == slices[local[r].slice]
           idx == CalculateCurrentIndex(local[r].offset, ends)
<1>1. /\ UNCHANGED <<dataVars, cacheVars, reader>> /\ pc[r] = "scan"
      /\ local' = [local EXCEPT ![r].idx = idx]
  BY DEF Scan
<1> HIDE DEF idx
<1>2. /\ local'[r] = [local[r] EXCEPT !.idx = idx] /\ local[r] \in Locals /\ pc'[r] = "send"
      /\ \A q \in Readers \ {r} : local'[q] = local[q] /\ pc'[q] = pc[q]
  BY <1>1 DEF IInv, RequestsTyped, Scan
<1>3. /\ local'[r].idx = idx /\ local'[r].snapshot = local[r].snapshot
      /\ local'[r].titles = local[r].titles /\ local'[r].slice = local[r].slice
      /\ local'[r].offset = local[r].offset /\ local'[r].limit = local[r].limit
      /\ local'[r].merged = local[r].merged
  BY <1>2 DEF Locals
<1>4. Alone(r)
  BY <1>1, <1>2 DEF Alone, dataVars, cacheVars, SlicesStay
<1>5. WholeOK(r)'
  <2> SUFFICES ASSUME Reading(r), reader[r].so = "whole" PROVE Tracked(r)' /\ Flight(r)'
    BY <1>1 DEF WholeOK, Reading
  <2>1. /\ Tracked(r)' /\ TitlesNow(r)' = TitlesNow(r) /\ PartsNow(r)' = PartsNow(r)
        /\ WholeNow(r)' = WholeNow(r)
    BY <1>1, <1>4, PlaceStays DEF PagingInv
  <2> DEFINE titles == TitlesNow(r)
             parts == PartsNow(r)
             at == reader[r].at
  <2>2. /\ Tracked(r) /\ Flight(r)
        /\ ends \in Seq(Int) /\ Len(ends) = Len(titles) /\ titles # <<>>
        /\ Len(titles) \in Nat \ {0}
        /\ \A i \in 0..Len(titles) : parts[i] \in Seq(ItemSet) /\ Len(parts[i]) \in Nat
        /\ parts[0] = <<>> /\ Len(parts[0]) = 0
    BY <1>1, SliceIs
  <2>3. /\ local[r].offset = at /\ local[r].limit = PageLimit /\ local[r].merged = <<>>
        /\ at > 0 => local[r].slice = Cached(r)
    BY <1>1, <2>2 DEF Flight
  <2>4. at \in Nat /\ PageLimit \in Nat \ {0}
    BY LimitsAssumption DEF IInv, RequestsTyped, ReaderStates
  <2>5. /\ \A k \in 1..(idx - 1) : ends[k] = Len(parts[k])
        /\ Len(parts[idx - 1]) <= at /\ at <= Len(parts[idx])
    <3>1. CASE at = 0
      <4>1. idx = 1
        BY <2>3, <3>1 DEF idx, CalculateCurrentIndex
      <4>2. 1 \in 0..Len(titles)
        BY <2>2
      <4>3. Len(parts[1]) \in Nat
        BY <2>2, <4>2
      <4> HIDE DEF parts, ends
      <4> QED BY <2>2, <3>1, <4>1, <4>3
    <3>2. CASE at # 0
      <4>1. Remembered(r, at) /\ ends = slices[Cached(r)]
        BY <2>2, <2>3, <2>4, <3>2 DEF Tracked
      <4>2. Reached(ends, parts, at)
        BY <4>1 DEF Remembered
      <4>3. idx = CalculateCurrentIndex(at, ends)
        BY <2>3 DEF idx
      <4> HIDE DEF parts, ends, titles, at
      <4> QED BY <2>2, <2>4, <3>2, <4>2, <4>3, ScanFinds
    <3> QED BY <3>1, <3>2
  <2>6. local[r].merged = Piece(WholeNow(r), at, at)
    <3>1. Len(titles) \in 0..Len(titles)
      BY <2>2
    <3>2. WholeNow(r) \in Seq(ItemSet)
      BY <2>2, <3>1 DEF WholeNow
    <3> QED BY <2>3, <2>4, <3>2, PieceIsEmpty
  <2>7. PageLimit - (at - at) = PageLimit /\ at <= at /\ PageLimit > 0
    BY <2>4
  <2>8. Gathered(r)'
    <3>1. slices' = slices /\ reader' = reader
      BY <1>1 DEF cacheVars
    <3> HIDE DEF parts, ends, titles, at
    <3>2. /\ \A k \in 1..(local'[r].idx - 1) : slices'[local'[r].slice][k] = Len(PartsNow(r)'[k])
          /\ Len(PartsNow(r)'[local'[r].idx - 1]) <= local'[r].offset
          /\ local'[r].offset <= Len(PartsNow(r)'[local'[r].idx])
          /\ reader'[r].at <= local'[r].offset
      BY <1>3, <2>1, <2>3, <2>5, <2>7, <3>1 DEF parts, ends, at
    <3>3. local'[r].limit = PageLimit - (local'[r].offset - reader'[r].at) /\ local'[r].limit > 0
      BY <1>3, <2>3, <2>7, <3>1 DEF at
    <3>4. local'[r].merged = Piece(WholeNow(r)', reader'[r].at, local'[r].offset)
      BY <1>3, <2>1, <2>3, <2>6, <3>1 DEF at
    <3> QED BY <3>2, <3>3, <3>4 DEF Gathered
  <2>9. Flight(r)'
    BY <1>2, <1>3, <1>4, <2>1, <2>2, <2>8 DEF Flight, Alone
  <2> QED BY <2>1, <2>9
<1> QED BY <1>1, <1>4, <1>5, AloneWhole DEF PagingInv

\* What the slice has of the title before is where that title ends.
LEMMA SendWhole ==
    ASSUME IInv, PagingInv, NEW r \in Readers, Send(r)
    PROVE  PagingInv'
<1> DEFINE idx == local[r].idx
           ends == slices[local[r].slice]
           before == IF idx = 1 THEN 0 ELSE ends[idx - 1]
           query == Broadened(reader[r].key, local[r].titles, idx, before)
           from == local[r].offset - before
<1>1. /\ UNCHANGED <<dataVars, cacheVars, reader>> /\ pc[r] = "send"
      /\ local' = [local EXCEPT ![r].query = query, ![r].from = from]
  BY DEF Send
<1> HIDE DEF query, from
<1>2. /\ local'[r] = [local[r] EXCEPT !.query = query, !.from = from] /\ local[r] \in Locals
      /\ pc'[r] = "receive"
      /\ \A q \in Readers \ {r} : local'[q] = local[q] /\ pc'[q] = pc[q]
  BY <1>1 DEF IInv, RequestsTyped, Send
<1>3. /\ local'[r].query = query /\ local'[r].from = from
      /\ local'[r].idx = idx /\ local'[r].snapshot = local[r].snapshot
      /\ local'[r].titles = local[r].titles /\ local'[r].slice = local[r].slice
      /\ local'[r].offset = local[r].offset /\ local'[r].limit = local[r].limit
      /\ local'[r].merged = local[r].merged
  BY <1>2 DEF Locals
<1>4. Alone(r)
  BY <1>1, <1>2 DEF Alone, dataVars, cacheVars, SlicesStay
<1>5. WholeOK(r)'
  <2> SUFFICES ASSUME Reading(r), reader[r].so = "whole" PROVE Tracked(r)' /\ Flight(r)'
    BY <1>1 DEF WholeOK, Reading
  <2>1. /\ Tracked(r)' /\ TitlesNow(r)' = TitlesNow(r) /\ PartsNow(r)' = PartsNow(r)
        /\ WholeNow(r)' = WholeNow(r)
    BY <1>1, <1>4, PlaceStays DEF PagingInv
  <2>2. /\ Flight(r) /\ idx \in 1..Len(TitlesNow(r)) /\ Len(TitlesNow(r)) \in Nat \ {0}
        /\ Len(PartsNow(r)[0]) = 0 /\ Gathered(r) /\ local[r].titles = TitlesNow(r)
    BY <1>1, SliceIs DEF Flight
  <2>3. before = Len(PartsNow(r)[idx - 1])
    <3>1. CASE idx = 1
      BY <2>2, <3>1
    <3>2. CASE idx # 1
      <4>1. idx - 1 \in 1..(idx - 1)
        BY <2>2, <3>2
      <4> QED BY <2>2, <3>2, <4>1 DEF Gathered
    <3> QED BY <3>1, <3>2
  <2> HIDE DEF before
  <2>4. slices' = slices /\ reader' = reader
    BY <1>1 DEF cacheVars
  <2>5. Asked(r)'
    BY <1>3, <2>1, <2>2, <2>3, <2>4 DEF Asked, query, from
  <2> HIDE DEF idx, ends
  <2>6. Gathered(r)'
    BY <1>3, <2>1, <2>2, <2>4 DEF Gathered, idx
  <2>7. Flight(r)'
    BY <1>2, <1>3, <1>4, <2>1, <2>2, <2>5, <2>6 DEF Flight, Alone
  <2> QED BY <2>1, <2>7
<1> QED BY <1>1, <1>4, <1>5, AloneWhole DEF PagingInv

\* An answer adds the next items, and the element written says how far the title is.
LEMMA ReceiveAdds ==
    ASSUME IInv, PagingInv, NEW r \in Readers, Receive(r), Reading(r), reader[r].so = "whole"
    PROVE  WholeOK(r)'
<1> DEFINE l == local[r]
           answered == Items(l.snapshot.source, l.query, l.from, PageLimit)
           taken == TrimItems(answered, l.limit)
           goesOn == l.idx < Len(l.titles) /\ l.limit - Len(taken) > 0
           titles == TitlesNow(r)
           parts == PartsNow(r)
           whole == WholeNow(r)
           at == reader[r].at
           ends == slices[l.slice]
           n == Len(taken)
           new == [ends EXCEPT ![l.idx] = l.offset + n]
<1>1. /\ ItemsOf(taken, l.snapshot.source) /\ Len(taken) <= l.limit /\ Len(taken) \in Nat
      /\ local' = [local EXCEPT ![r] = Received(l, taken, goesOn)]
      /\ pc' = [pc EXCEPT ![r] = IF goesOn THEN "send" ELSE "store"]
      /\ offsets' = Set(offsets, OffsetKey(r), l.slice, MaxOffsets)
      /\ Collect([slices EXCEPT ![l.slice][l.idx] = l.offset + Len(taken)])
      /\ reader' = Disturbed(Readers \ {r})
      /\ UNCHANGED <<dataVars, results>>
      /\ pc[r] = "receive"
  BY ReceiveIs
<1>2. reader'[r] = reader[r]
  BY <1>1 DEF Disturbed
<1>3. /\ Flight(r) /\ ends \in Seq(Int) /\ Len(ends) = Len(titles) /\ titles # <<>>
      /\ l.idx \in 1..Len(titles) /\ Len(titles) \in Nat \ {0}
      /\ \A i \in 0..Len(titles) : parts[i] \in Seq(ItemSet) /\ Len(parts[i]) \in Nat
  BY <1>1, SliceIs
<1>4. /\ Gathered(r) /\ Asked(r) /\ l.titles = titles /\ l.snapshot = snapshot
  BY <1>1, <1>3 DEF Flight
<1>5. /\ reader[r].key \in Texts /\ at \in Nat /\ titles \in Seq(Texts)
      /\ snapshot.source \in Nat
      /\ IsParts(parts, reader[r].key, titles, snapshot.source)
  BY NowTyped
<1>6. l.limit \in Nat /\ l.offset \in Int /\ PageLimit \in Nat \ {0} /\ l.slice \in InUse
      /\ l.slice # NoSlice
  BY <1>1, LimitsAssumption DEF IInv, RequestsTyped, Locals, SlicesOK, SliceOK, InUse
<1> DEFINE idx == l.idx
           o == l.offset
           limit == l.limit
<1>7. /\ \A k \in 1..(idx - 1) : ends[k] = Len(parts[k])
      /\ Len(parts[idx - 1]) <= o /\ o <= Len(parts[idx])
      /\ at <= o /\ limit = PageLimit - (o - at)
      /\ l.merged = Piece(whole, at, o)
  BY <1>4 DEF Gathered
<1>8. l.query = Broadened(reader[r].key, titles, idx, Len(parts[idx - 1]))
      /\ l.from = o - Len(parts[idx - 1])
  BY <1>4 DEF Asked
<1>9. o \in Nat
  BY <1>5, <1>6, <1>7
<1>10. limit <= PageLimit
  BY <1>5, <1>6, <1>7, <1>9
<1>11. whole = parts[Len(titles)]
  BY DEF WholeNow
<1>12. taken = TrimItems(Items(snapshot.source,
                               Broadened(reader[r].key, titles, idx, Len(parts[idx - 1])),
                               o - Len(parts[idx - 1]), PageLimit), limit)
  BY <1>4, <1>8
<1> HIDE DEF l, titles, parts, whole, at, ends, idx, o, limit, taken, goesOn, new, n
<1>13. /\ o + n <= Len(parts[idx])
       /\ n < limit => o + n = Len(parts[idx])
       /\ MergeItems(Piece(whole, at, o), taken) = Piece(whole, at, o + n)
  <2>1. idx \in 1..Len(titles) /\ limit \in Nat
    BY <1>3, <1>6 DEF idx, limit
  <2>2. GivesNext(reader[r].key, titles, snapshot.source, parts, idx, at, o, limit)
    BY <1>5, <1>7, <1>9, <1>10, <2>1, AnswerIsNext
  <2> QED BY <1>11, <1>12, <2>2 DEF GivesNext, n
<1>14. n \in Nat /\ n <= limit /\ limit \in Nat /\ idx \in 1..Len(titles)
       /\ Len(parts[idx]) \in Nat /\ Len(whole) \in Nat /\ Len(parts[idx]) <= Len(whole)
  <2>1. n \in Nat /\ n <= limit /\ limit \in Nat
    BY <1>1, <1>6 DEF n, limit
  <2>2. idx \in 1..Len(titles) /\ idx \in 0..Len(titles) /\ Len(titles) \in 0..Len(titles)
        /\ Len(titles) \in idx..Len(titles)
    BY <1>3 DEF idx
  <2>3. Len(parts[idx]) <= Len(whole)
    BY <1>5, <1>11, <2>2, PartsGrow
  <2> QED BY <1>3, <1>11, <2>1, <2>2, <2>3
<1>15. /\ at <= o + n /\ o + n \in Nat
       /\ limit - n = PageLimit - ((o + n) - at)
       /\ limit - n > 0 => o + n = Len(parts[idx])
       /\ ~(limit - n > 0) \/ Len(parts[idx]) = Len(whole)
            => o + n = Smaller(at + PageLimit, Len(whole))
  <2> DEFINE m == Len(parts[idx])
             w == Len(whole)
  <2>1. /\ {at, o, n, limit, PageLimit, m, w} \subseteq Nat
        /\ at <= o /\ limit = PageLimit - (o - at) /\ n <= limit /\ o + n <= m /\ m <= w
        /\ n < limit => o + n = m
    BY <1>5, <1>6, <1>7, <1>9, <1>13, <1>14
  <2> HIDE DEF m, w
  <2>2. CASE limit - n > 0
    <3>1. o + n = m /\ at <= o + n /\ limit - n = PageLimit - ((o + n) - at) /\ o + n \in Nat
      BY <2>1, <2>2
    <3>2. m = w => o + n = Smaller(at + PageLimit, w)
      <4>1. at + PageLimit > o + n
        BY <2>1, <2>2
      <4> QED BY <2>1, <3>1, <4>1 DEF Smaller
    <3> QED BY <2>2, <3>1, <3>2 DEF m, w
  <2>3. CASE ~(limit - n > 0)
    <3>1. n = limit /\ o + n = at + PageLimit /\ at + PageLimit <= w
      BY <2>1, <2>3
    <3>2. /\ at <= o + n /\ limit - n = PageLimit - ((o + n) - at) /\ o + n \in Nat
          /\ o + n = Smaller(at + PageLimit, w)
      BY <2>1, <3>1 DEF Smaller
    <3> QED BY <2>3, <3>2 DEF m, w
  <2> QED BY <2>2, <2>3
\* The next state.
<1>16. /\ local'[r] = Received(l, taken, goesOn)
       /\ pc'[r] = IF goesOn THEN "send" ELSE "store"
  BY <1>1 DEF IInv, RequestsTyped
<1>17. /\ local'[r].snapshot = snapshot /\ local'[r].titles = titles /\ local'[r].slice = l.slice
       /\ local'[r].idx = (IF goesOn THEN idx + 1 ELSE idx)
       /\ local'[r].offset = o + n /\ local'[r].limit = limit - n
       /\ local'[r].merged = Piece(whole, at, o + n)
  BY <1>4, <1>7, <1>13, <1>16 DEF Received, idx, o, limit, n
<1>18. /\ TitlesNow(r)' = titles /\ PartsNow(r)' = parts /\ WholeNow(r)' = whole
       /\ KeyNow(r)' = KeyNow(r) /\ reader'[r].at = at
  BY <1>1, <1>2, NowStays DEF dataVars, titles, parts, whole, at
<1>19. OffsetKey(r) = KeyNow(r)
  BY <1>4 DEF OffsetKey, KeyNow, l
<1>20. Hit(offsets', KeyNow(r)') /\ Cached(r)' = l.slice
  <2>1. MaxOffsets \in Nat \ {0} /\ Sound(offsets, MaxOffsets)
    BY LimitsAssumption DEF IInv, CachesOK
  <2> HIDE DEF KeyNow
  <2>2. /\ KeyNow(r) \in DOMAIN offsets'.m /\ offsets'.m[KeyNow(r)].value = l.slice
        /\ ~offsets'.m[KeyNow(r)].expired
    BY <1>1, <1>19, <2>1, SetKeeps
  <2> QED BY <1>18, <2>2 DEF Hit, Has, Cached
<1>21. slices'[l.slice] = new
  <2>1. l.slice \in InUse'
    BY <1>6, <1>17 DEF InUse
  <2>2. /\ slices \in [InUse -> Seq(Int)] /\ l.idx \in 1..Len(slices[l.slice])
        /\ l.offset + Len(taken) \in Int
    BY <1>3, <1>15 DEF IInv, SlicesOK, ends, idx, o, n
  <2>3. [slices EXCEPT ![l.slice][l.idx] = l.offset + Len(taken)][l.slice] = new
    BY <1>6, <2>2, WrittenInPlace DEF new, ends, n
  <2> QED BY <1>1, <2>1, <2>3 DEF Collect
<1>22. /\ Len(new) = Len(titles) /\ new[idx] = o + n
       /\ \A k \in 1..(idx - 1) : new[k] = Len(parts[k])
  <2>1. /\ new = [ends EXCEPT ![idx] = o + n] /\ ends \in Seq(Int) /\ Len(ends) = Len(titles)
    BY <1>3 DEF new, idx, o
  <2>2. idx \in 1..Len(ends) /\ \A k \in 1..(idx - 1) : k \in 1..Len(ends) /\ k # idx
    BY <1>3, <1>14
  <2> QED BY <1>7, <2>1, <2>2
<1>23. \A x \in {at, o + n} : Reached(new, parts, x)
  <2>1. idx \in 1..Len(new) /\ \A x \in {at, o + n} : x <= new[idx]
    BY <1>5, <1>14, <1>15, <1>22
  <2> QED BY <1>13, <1>22, <2>1 DEF Reached
<1>24. Remembered(r, reader[r].at)'
  BY <1>18, <1>20, <1>21, <1>22, <1>23 DEF Remembered
<1>25. Remembered(r, local[r].offset)'
  BY <1>17, <1>18, <1>20, <1>21, <1>22, <1>23 DEF Remembered
<1>26. CASE goesOn
  <2>1. idx < Len(titles) /\ limit - n > 0
    BY <1>4, <1>26 DEF goesOn, idx, limit, n
  <2>2. o + n = Len(parts[idx]) /\ idx + 1 \in 1..Len(titles) /\ idx + 1 - 1 = idx
    BY <1>3, <1>14, <1>15, <2>1
  <2>3. o + n <= Len(parts[idx + 1])
    <3>1. idx \in 0..Len(titles) /\ idx + 1 \in idx..Len(titles)
      BY <1>3, <1>14, <2>2
    <3> QED BY <1>5, <2>2, <3>1, PartsGrow
  <2>4. \A k \in 1..idx : new[k] = Len(parts[k])
    <3>1. \A k \in 1..idx : k = idx \/ k \in 1..(idx - 1)
      BY <1>14
    <3> QED BY <1>22, <2>2, <3>1
  <2>5. Gathered(r)'
    <3>1. local'[r].idx = idx + 1
      BY <1>17, <1>26
    <3>2. /\ \A k \in 1..(local'[r].idx - 1) : slices'[local'[r].slice][k] = Len(PartsNow(r)'[k])
          /\ Len(PartsNow(r)'[local'[r].idx - 1]) <= local'[r].offset
          /\ local'[r].offset <= Len(PartsNow(r)'[local'[r].idx])
          /\ reader'[r].at <= local'[r].offset
      BY <1>14, <1>15, <1>17, <1>18, <1>21, <2>2, <2>3, <2>4, <3>1
    <3>3. local'[r].limit = PageLimit - (local'[r].offset - reader'[r].at) /\ local'[r].limit > 0
      BY <1>15, <1>17, <1>18, <2>1
    <3> QED BY <1>17, <1>18, <3>2, <3>3 DEF Gathered
  <2>6. Flight(r)'
    <3>1. pc'[r] = "send" /\ snapshot' = snapshot
      BY <1>1, <1>16, <1>26 DEF dataVars
    <3> QED BY <1>17, <1>18, <2>5, <3>1 DEF Flight
  <2> QED BY <1>24, <2>6 DEF WholeOK, Tracked
<1>27. CASE ~goesOn
  <2>1. ~(limit - n > 0) \/ Len(parts[idx]) = Len(whole)
    <3>1. ~(limit - n > 0) \/ ~(idx < Len(titles))
      BY <1>4, <1>27 DEF goesOn, idx, limit, n
    <3>2. ~(idx < Len(titles)) => idx = Len(titles)
      BY <1>3, <1>14
    <3> QED BY <1>11, <3>1, <3>2
  <2>2. o + n = Smaller(at + PageLimit, Len(whole))
    BY <1>15, <2>1
  <2>3. Finished(r)'
    <3>1. TitlesNow(r)' # <<>>
      BY <1>3, <1>18 DEF titles
    <3> QED BY <1>15, <1>17, <1>18, <1>25, <2>2, <3>1 DEF Finished
  <2>4. Flight(r)'
    <3>1. pc'[r] = "store" /\ snapshot' = snapshot
      BY <1>1, <1>16, <1>27 DEF dataVars
    <3> QED BY <1>17, <1>18, <2>3, <3>1 DEF Flight
  <2> QED BY <1>24, <2>4 DEF WholeOK, Tracked
<1> QED BY <1>26, <1>27

\* Who receives an answer goes on undisturbed, and disturbs all others.
LEMMA ReceiveWhole ==
    ASSUME IInv, PagingInv, NEW r \in Readers, Receive(r)
    PROVE  PagingInv'
<1>1. reader' = Disturbed(Readers \ {r})
  BY DEF Receive
<1>2. reader'[r] = reader[r]
  BY <1>1 DEF Disturbed
<1>3. WholeOK(r)'
  <2>1. CASE Reading(r) /\ reader[r].so = "whole"
    BY <2>1, ReceiveAdds
  <2>2. CASE ~(Reading(r) /\ reader[r].so = "whole")
    BY <1>2, <2>2 DEF WholeOK, Reading
  <2> QED BY <2>1, <2>2
<1> QED BY <1>1, <1>3, OthersDisturbed

\* What a request that has not been disturbed has merged is what was due.
LEMMA MergedIsDue ==
    ASSUME IInv, PagingInv, NEW r \in Readers, Reading(r), reader[r].so = "whole", pc[r] = "store"
    PROVE  /\ local[r].merged = Due(r)
           /\ TitlesNow(r) # <<>> =>
                 /\ reader[r].at + Len(local[r].merged) = local[r].offset
                 /\ Remembered(r, local[r].offset)
<1> DEFINE key == reader[r].key
           at == reader[r].at
           merged == local[r].merged
           offset == local[r].offset
           titles == TitlesNow(r)
           whole == Whole(key, titles, snapshot.source)
<1>1. Flight(r) /\ Finished(r)
  BY DEF PagingInv, WholeOK, Flight
<1>2. Due(r) = SubSeq(whole, at + 1, Smaller(at + PageLimit, Len(whole)))
  BY <1>1 DEF Due, Flight
<1>3. /\ key \in Texts /\ at \in Nat /\ titles \in Seq(Texts) /\ (titles = <<>> => key = <<>>)
      /\ snapshot.source \in Nat
      /\ IsParts(PartsNow(r), key, titles, snapshot.source)
  BY NowTyped
<1> HIDE DEF key, at, titles
<1>4. CASE titles = <<>>
  <2>1. merged = Items(snapshot.source, TrimZeroZero(key), at, PageLimit)
    BY <1>1, <1>4 DEF Finished, key, at, titles
  <2>2. TrimZeroZero(key) = key
    <3>1. key = <<>> /\ ~(Len(<<>>) > 1)
      BY <1>3, <1>4
    <3> QED BY <3>1 DEF TrimZeroZero, StripLast
  <2>3. whole = All(snapshot.source, key)
    BY <1>4 DEF Whole
  <2> QED BY <1>2, <1>3, <1>4, <2>1, <2>2, <2>3, PageIsNext DEF titles
<1>5. CASE titles # <<>>
  <2>1. whole = WholeNow(r)
    BY <1>3, <1>5, WholeIs DEF WholeNow, titles
  <2>2. /\ at <= offset /\ offset = Smaller(at + PageLimit, Len(whole))
        /\ merged = Piece(whole, at, offset) /\ Remembered(r, offset)
    BY <1>1, <1>5, <2>1 DEF Finished, at, titles
  <2>3. merged = Due(r)
    BY <1>2, <2>2 DEF Piece
  <2>4. at + Len(merged) = offset
    <3>1. whole \in Seq(ItemSet)
      <4>1. Len(titles) \in 0..Len(titles)
        BY <1>3
      <4> QED BY <1>3, <2>1, <4>1, PartsTyped DEF WholeNow, titles
    <3> HIDE DEF whole
    <3>2. Len(whole) \in Nat /\ PageLimit \in Nat
      BY <3>1, LimitsAssumption
    <3>3. offset \in Nat /\ offset <= Len(whole)
      BY <1>3, <2>2, <3>2 DEF Smaller
    <3> HIDE DEF offset
    <3>4. Len(SubSeq(whole, at + 1, offset)) = offset - at
      BY <1>3, <2>2, <3>1, <3>3, SubSeqIs
    <3>5. Len(merged) = offset - at
      BY <2>2, <3>4 DEF Piece
    <3> HIDE DEF merged
    <3> QED BY <1>3, <3>3, <3>5
  <2> QED BY <2>2, <2>3, <2>4 DEF at
<1> QED BY <1>4, <1>5

\* A page that is due is answered, and the next one begins where it ends.
LEMMA StoreResultWhole ==
    ASSUME IInv, PagingInv, NEW r \in Readers, StoreResult(r)
    PROVE  PagingInv'
<1> DEFINE merged == local[r].merged
           n == Len(merged)
           so == IF reader[r].so = "whole" /\ merged # Due(r) THEN "torn" ELSE reader[r].so
<1>1. /\ UNCHANGED <<dataVars, offsets>> /\ Collect(slices) /\ pc[r] = "store"
      /\ Answer(r, merged, so)
  BY DEF StoreResult
<1>2. Reading(r)
  BY <1>1 DEF IInv, RequestsOK, RequestOK, Reading
<1>3. reader[r].so = "whole" => merged = Due(r)
  BY <1>1, <1>2, MergedIsDue
<1>4. so = reader[r].so
  BY <1>3
<1> HIDE DEF so
<1>5. /\ reader' = [reader EXCEPT ![r].at = @ + n, ![r].so = so]
      /\ pc' = [pc EXCEPT ![r] = "idle"] /\ local' = [local EXCEPT ![r] = NoLocal]
  BY <1>1 DEF Answer
<1> HIDE DEF n
<1>6. /\ reader'[r] = [reader[r] EXCEPT !.at = @ + n, !.so = so] /\ reader[r] \in ReaderStates
      /\ pc'[r] = "idle"
      /\ \A q \in Readers \ {r} : reader'[q] = reader[q] /\ pc'[q] = pc[q] /\ local'[q] = local[q]
  BY <1>5 DEF IInv, RequestsTyped
<1>7. reader'[r].key = reader[r].key /\ reader'[r].at = reader[r].at + n
      /\ reader'[r].so = reader[r].so
  BY <1>4, <1>6 DEF ReaderStates
<1>8. Alone(r)
  BY <1>1, <1>6, CollectStays DEF Alone, dataVars
<1>9. WholeOK(r)'
  <2> SUFFICES ASSUME reader[r].so = "whole" PROVE Tracked(r)'
    BY <1>6, <1>7 DEF WholeOK
  <2>1. /\ TitlesNow(r)' = TitlesNow(r) /\ PartsNow(r)' = PartsNow(r) /\ KeyNow(r)' = KeyNow(r)
        /\ Cached(r)' = Cached(r)
    BY <1>7, <1>8, NowStays DEF Alone, Cached
  <2> SUFFICES ASSUME TitlesNow(r) # <<>> PROVE Remembered(r, reader[r].at)'
    BY <2>1 DEF Tracked
  <2>2. reader'[r].at = local[r].offset /\ Remembered(r, local[r].offset)
    BY <1>1, <1>2, <1>7, MergedIsDue DEF n
  <2>3. slices'[Cached(r)] = slices[Cached(r)] /\ offsets' = offsets
    <3>1. Cached(r) \in InUse /\ Cached(r) \in InUse'
      BY <1>8, <2>1, <2>2 DEF Remembered, Hit, Has, InUse, Cached, Alone
    <3> QED BY <1>8, <3>1 DEF SlicesStay, Alone
  <2> QED BY <2>1, <2>2, <2>3 DEF Remembered, Hit, Has
<1>10. reader'[r].so # "torn"
  BY <1>7 DEF PagingInv
<1> QED BY <1>8, <1>9, <1>10, AloneWhole

\* Nothing happens.
LEMMA StuttersWhole ==
    ASSUME IInv, PagingInv, UNCHANGED vars PROVE PagingInv'
BY NothingHappens DEF vars, dataVars, cacheVars, requestVars, SlicesStay

\* Every step keeps it.
LEMMA PagingInvKept == IInv /\ PagingInv /\ [Next]_vars => PagingInv'
<1> SUFFICES ASSUME IInv, PagingInv, [Next]_vars PROVE PagingInv'
  OBVIOUS
<1>1. ASSUME NEW r \in Readers, ReaderStep(r) PROVE PagingInv'
  BY <1>1, StartWhole, StopWhole, RequestWhole, GetResultWhole, DropResultWhole,
     PlainWhole, UpstreamFailsWhole, StoreResultWhole, GetOffsetsWhole, DropOffsetsWhole,
     ScanWhole, SendWhole, ReceiveWhole, Zenon DEF ReaderStep
<1>2. CASE Environment
  BY <1>2, EnvironmentWhole
<1>3. CASE UNCHANGED vars
  BY <1>3, StuttersWhole
<1> QED BY <1>1, <1>2, <1>3 DEF Next

\* A client that pages through a search that nothing comes between gets every item of
\* every title once and in order, page by page: for all titles, stocks, page limits and
\* numbers of clients (executeExpandedSearch with the slice as earlier searches left it).
THEOREM UndisturbedPagesAreWhole == Spec => []UndisturbedSearchIsWhole
<1>1. PagingInv => UndisturbedSearchIsWhole
  BY DEF PagingInv, UndisturbedSearchIsWhole
<1>2. Spec => []PagingInv
  BY InitWhole, PagingInvKept, SpecKeeps, PTL DEF Spec
<1> QED BY <1>1, <1>2, PTL
=============================================================================
