---------------------------- MODULE IndexerProxy ----------------------------
(***************************************************************************)
(* The indexer half of internal/proxy: a request is answered from the       *)
(* result cache or from the upstream indexer; a search with a term is       *)
(* expanded to several titles, whose items are handed out page by page. How *)
(* many items each title has given so far is kept in the offset cache, as a *)
(* Go slice that concurrent requests of one search read and write without a *)
(* lock.                                                                    *)
(*                                                                         *)
(* Readers ask page after page: the next offset is the number of items they *)
(* have got. An item is <<source, text, position>>: the indexer it is from, *)
(* the query it answers, its place. One kind (Sonarr or Radarr) at a time:  *)
(* the path is part of both cache keys, so that the kinds share nothing.    *)
(***************************************************************************)
EXTENDS Integers, TTLCache, SearchExpansion

CONSTANTS
    Readers,       \* clients that page through a search
    None,          \* no value
    Kinds,         \* kinds of search of this instance
    SearchKeys,    \* [Kinds -> set of search terms; <<>> is a request without one]
    RowSets,       \* [Kinds -> set of sets of title rows]
    Stock,         \* [texts -> Nat]: how many items an indexer has for a query
    PageLimit,     \* the limit parameter of the requests
    MinCount,      \* cfg.MinCount
    MaxResults,    \* cfg.ResultCacheMaxEntries
    MaxOffsets,    \* cfg.OffsetCacheMaxEntries
    MaxEvents      \* bound, [Kinds -> Nat]: searches and publications of one run, together

ASSUME LimitsAssumption == {PageLimit, MaxResults, MaxOffsets} \subseteq Nat \ {0}
ASSUME ReadersAssumption == IsFiniteSet(Readers)
ASSUME StockAssumption == \A text \in DOMAIN Stock : Stock[text] \in Nat
ASSUME KeysAssumption == \A k \in Kinds : SearchKeys[k] \subseteq Texts /\ None \notin SearchKeys[k]
ASSUME RowsAssumption ==
    \A k \in Kinds : \A some \in RowSets[k] : IsFiniteSet(some) /\ some \subseteq Rows(k)

VARIABLES
    kind,       \* the kind of search
    rows,       \* the title rows in the database
    snapshot,   \* the published one: [revision, search, source, candidates]
    results,    \* resultCache: <<revision, key, offset>> to a page of items
    offsets,    \* offsetCache: <<search revision, key>> to a slice
    slices,     \* the elements of every slice in use, by the identity of the slice
    sourceOf,   \* history: the indexer of every revision that was published
    searches,   \* how many searches were begun (for the bound only)
    reader,     \* [Readers -> what a client has read of its search]
    pc,         \* [Readers -> where its request stands]
    local       \* [Readers -> the locals of handleIndexer and executeExpandedSearch]

cacheVars == <<results, offsets, slices>>
dataVars == <<kind, rows, snapshot, sourceOf>>
requestVars == <<searches, reader, pc, local>>
vars == <<dataVars, cacheVars, requestVars>>

-----------------------------------------------------------------------------
(* Upstream.                                                                *)

Smaller(a, b) == IF a <= b THEN a ELSE b
Larger(a, b) == IF a >= b THEN a ELSE b

Supply(text) == IF text \in DOMAIN Stock THEN Stock[text] ELSE 0

\* Up to n items of a query, after the first few. A negative offset, which only a race
\* can produce, is taken for none.
Items(source, text, after, n) ==
    LET from == Larger(after, 0)
        count == Larger(Smaller(n, Supply(text) - from), 0)
    IN  [i \in 1..count |-> <<source, text, from + i>>]

All(source, text) == Items(source, text, 0, Supply(text))

\* q with the first title replaced by another one, without the appended "00".
QueryFor(key, titles, idx) ==
    LET q == TrimZeroZero(key)
    IN  IF idx = 1 THEN q
        ELSE titles[idx] \o SubSeq(q, Len(titles[1]) + 1, Len(q))

\* The last of several titles is searched for without season and episode when the
\* others had too little; soFar is what the titles before it gave.
Broadened(key, titles, idx, soFar) ==
    IF Len(titles) > 2 /\ idx = Len(titles) /\ soFar < MinCount
    THEN RemoveSeasonEpisode(QueryFor(key, titles, idx))
    ELSE QueryFor(key, titles, idx)

\* What a search means: all items of all its titles, one after the other.
Whole(key, titles, source) ==
    LET first == [i \in 1..(Len(titles) - 1) |-> All(source, QueryFor(key, titles, i))]
        before == FlattenSeq(first)
        last == Broadened(key, titles, Len(titles), Len(before))
    IN  IF titles = <<>> THEN All(source, key) ELSE before \o All(source, last)

-----------------------------------------------------------------------------
(* Initial states.                                                          *)

NoSlice == 0
Slices == 1..(Cardinality(Readers) + MaxOffsets)

NoLocal ==
    [snapshot |-> None, titles |-> <<>>, slice |-> NoSlice, idx |-> 1,
     offset |-> 0, limit |-> 0, from |-> 0, query |-> <<>>, merged |-> <<>>]

\* so: history, whether every answer of this search so far was the part of it that was
\* due ("whole"), or one was not ("torn"), or something came between ("disturbed").
NoReader == [key |-> None, at |-> 0, so |-> "whole"]

Init ==
    /\ kind \in Kinds
    /\ rows \in RowSets[kind]
    /\ \E list \in CandidateLists(kind, rows) :
          snapshot = [revision |-> 1, search |-> 1, source |-> 1, candidates |-> list]
    /\ sourceOf = <<1>>
    /\ results = EmptyCache
    /\ offsets = EmptyCache
    /\ slices = <<>>
    /\ searches = 0
    /\ reader = [r \in Readers |-> NoReader]
    /\ pc = [r \in Readers |-> "idle"]
    /\ local = [r \in Readers |-> NoLocal]

\* Nobody can tell what is in a slice that neither a request nor the cache refers to:
\* the garbage collector takes it.
InUse ==
    ({local[r].slice : r \in Readers} \ {NoSlice})
      \cup {offsets.m[key].value : key \in DOMAIN offsets.m}

Collect(contents) == slices' = [s \in InUse' |-> contents[s]]

-----------------------------------------------------------------------------
(* A client.                                                                *)

Reading(r) == reader[r].key # None

\* Something happens in the middle of the searches of some readers.
Disturbed(some) ==
    [r \in Readers |-> IF r \in some /\ Reading(r) /\ reader[r].so = "whole"
                       THEN [reader[r] EXCEPT !.so = "disturbed"] ELSE reader[r]]

StartReading(r, key) ==
    /\ ~Reading(r) /\ searches + snapshot.revision <= MaxEvents[kind]
    /\ searches' = searches + 1
    /\ reader' = [reader EXCEPT ![r] = [NoReader EXCEPT !.key = key]]
    /\ UNCHANGED <<dataVars, cacheVars, pc, local>>

StopReading(r) ==
    /\ Reading(r) /\ pc[r] = "idle"
    /\ reader' = [reader EXCEPT ![r] = NoReader]
    /\ UNCHANGED <<dataVars, cacheVars, searches, pc, local>>

-----------------------------------------------------------------------------
(* A request: handleIndexer.                                                *)

\* The key of the result cache and that of the offset cache.
ResultKey(r) == <<local[r].snapshot.revision, reader[r].key, reader[r].at>>
OffsetKey(r) == <<local[r].snapshot.search, reader[r].key>>

\* The request for the next page arrives, or for the last one again when it failed: the
\* published snapshot is captured for all of it. What the search is expanded to follows
\* from the capture: no titles without a search term.
Request(r) ==
    /\ Reading(r) /\ pc[r] = "idle"
    /\ pc' = [pc EXCEPT ![r] = "result"]
    /\ LET key == reader[r].key
           titles == IF key = <<>> THEN <<>>
                     ELSE ExpandedSearchTitles(kind, TrimZeroZero(key), snapshot.candidates)
       IN  local' = [local EXCEPT ![r].snapshot = snapshot, ![r].titles = titles]
    /\ UNCHANGED <<dataVars, cacheVars, searches, reader>>

\* The part of a search that is due to a reader.
Due(r) ==
    LET whole == Whole(reader[r].key, local[r].titles, local[r].snapshot.source)
    IN  SubSeq(whole, reader[r].at + 1, Smaller(reader[r].at + PageLimit, Len(whole)))

\* The answer reaches the client, which moves on by as many items. Pages out of the
\* result cache are as old as they are: they count as a disturbance.
Answer(r, items, so) ==
    /\ reader' = [reader EXCEPT ![r].at = @ + Len(items), ![r].so = so]
    /\ pc' = [pc EXCEPT ![r] = "idle"]
    /\ local' = [local EXCEPT ![r] = NoLocal]

AfterResultMiss(r) == IF local[r].titles = <<>> THEN "plain" ELSE "offsets"

GetResult(r) ==
    /\ pc[r] = "result"
    /\ IF Hit(results, ResultKey(r))
       THEN Answer(r, results.m[ResultKey(r)].value, "disturbed")
       ELSE /\ pc' = [pc EXCEPT ![r] = IF Expired(results, ResultKey(r)) THEN "dropResult"
                                       ELSE AfterResultMiss(r)]
            /\ UNCHANGED <<reader, local>>
    /\ UNCHANGED <<dataVars, cacheVars, searches>>

\* The second half of a Get that saw an expired entry deletes what is there by now.
DropResult(r) ==
    /\ pc[r] = "dropResult"
    /\ results' = DeleteKey(results, ResultKey(r))
    /\ pc' = [pc EXCEPT ![r] = AfterResultMiss(r)]
    /\ UNCHANGED <<dataVars, offsets, slices, searches, reader, local>>

\* A request without a term goes upstream as it is.
Plain(r) ==
    /\ pc[r] = "plain"
    /\ pc' = [pc EXCEPT ![r] = "store"]
    /\ local' = [local EXCEPT ![r].merged =
                    Items(local[r].snapshot.source, TrimZeroZero(reader[r].key),
                          reader[r].at, PageLimit)]
    /\ UNCHANGED <<dataVars, cacheVars, searches, reader>>

\* An upstream call fails, which ends the request with an error: offsets that were
\* recorded stay, the items of other titles are thrown away.
UpstreamFails(r) ==
    /\ pc[r] \in {"plain", "receive"}
    /\ pc' = [pc EXCEPT ![r] = "idle"]
    /\ local' = [local EXCEPT ![r] = NoLocal]
    /\ UNCHANGED <<dataVars, results, offsets, searches, reader>>
    /\ Collect(slices)

\* Mutant: the revision is read again when the answer is stored.
KeyAtTheEnd(r) == <<snapshot.revision, reader[r].key, reader[r].at>>

\* The key under which the answer is stored: computed when the request came.
StoreKey(r) == ResultKey(r)

\* The answer is stored if it is a feed. One without an item is a feed too, but an
\* indexer that has nothing may also answer a document that is none (hasChannel), which
\* is passed on and not stored.
StoreResult(r) ==
    /\ pc[r] = "store"
    /\ \/ /\ CanSet(results, StoreKey(r), MaxResults)
          /\ results' = Set(results, StoreKey(r), local[r].merged, MaxResults)
       \/ /\ local[r].merged = <<>>
          /\ UNCHANGED results
    /\ Answer(r, local[r].merged,
              IF reader[r].so = "whole" /\ local[r].merged # Due(r) THEN "torn" ELSE reader[r].so)
    /\ UNCHANGED <<dataVars, offsets, searches>>
    /\ Collect(slices)

-----------------------------------------------------------------------------
(* An expanded search: executeExpandedSearch.                               *)

Zeros(n) == [i \in 1..n |-> 0]

\* The slice comes from the cache, so that other requests may hold it too, or is new.
Scanning(r, slice) ==
    /\ pc' = [pc EXCEPT ![r] = "scan"]
    /\ local' = [local EXCEPT ![r].slice = slice, ![r].idx = 1,
                              ![r].offset = reader[r].at, ![r].limit = PageLimit]

NewSlice(r) ==
    LET new == Min(Slices \ InUse)
    IN  /\ Scanning(r, new)
        /\ Collect([s \in InUse \cup {new} |-> IF s = new THEN Zeros(Len(local[r].titles)) ELSE slices[s]])

GetOffsets(r) ==
    /\ pc[r] = "offsets"
    /\ UNCHANGED <<dataVars, results, offsets, searches, reader>>
    /\ LET key == OffsetKey(r)
           slice == offsets.m[key].value
       IN  \/ /\ Hit(offsets, key) /\ Len(slices[slice]) = Len(local[r].titles)
              /\ Scanning(r, slice)
              /\ UNCHANGED slices
           \/ /\ Expired(offsets, key)
              /\ pc' = [pc EXCEPT ![r] = "dropOffsets"]
              /\ UNCHANGED <<slices, local>>
           \/ /\ ~Has(offsets, key) \/ (Hit(offsets, key) /\ Len(slices[slice]) # Len(local[r].titles))
              /\ NewSlice(r)

DropOffsets(r) ==
    /\ pc[r] = "dropOffsets"
    /\ offsets' = DeleteKey(offsets, OffsetKey(r))
    /\ NewSlice(r)
    /\ reader' = Disturbed(Readers \ {r})
    /\ UNCHANGED <<dataVars, results, searches>>

\* Mutant: a title that ends exactly at the offset is taken to be done.
FirstBeyond(offset, ends) ==
    IF offset = 0 THEN 1
    ELSE LET at == SelectInSeq(ends, LAMBDA end : end > offset)
         IN  IF at = 0 THEN Len(ends) ELSE at

\* The first title whose items reach up to the offset, else the last title.
CalculateCurrentIndex(offset, ends) ==
    IF offset = 0 THEN 1
    ELSE LET at == SelectInSeq(ends, LAMBDA end : end >= offset)
         IN  IF at = 0 THEN Len(ends) ELSE at

\* Where to go on, by the slice as other requests have left it by now.
Scan(r) ==
    /\ pc[r] = "scan"
    /\ pc' = [pc EXCEPT ![r] = "send"]
    /\ local' = [local EXCEPT ![r].idx =
                    CalculateCurrentIndex(local[r].offset, slices[local[r].slice])]
    /\ UNCHANGED <<dataVars, cacheVars, searches, reader>>

\* The query for the next title is built: the items of the titles before it, as the
\* slice has them now, are taken from the offset.
Send(r) ==
    /\ pc[r] = "send"
    /\ LET idx == local[r].idx
           before == IF idx = 1 THEN 0 ELSE slices[local[r].slice][idx - 1]
       IN  local' = [local EXCEPT
              ![r].query = Broadened(reader[r].key, local[r].titles, idx, before),
              ![r].from = local[r].offset - before]
    /\ pc' = [pc EXCEPT ![r] = "receive"]
    /\ UNCHANGED <<dataVars, cacheVars, searches, reader>>

\* trimXMLItems: the first items up to the limit, which is not 0 here.
TrimItems(items, limit) == SubSeq(items, 1, Smaller(Len(items), limit))

\* mergeXML: the items of both; of feeds without an item one is enough.
MergeItems(merged, items) == merged \o items

\* The answer is trimmed and merged, the element is written in place, and the slice
\* put (back) into the cache.
Receive(r) ==
    /\ pc[r] = "receive"
    /\ CanSet(offsets, OffsetKey(r), MaxOffsets)
    /\ LET l == local[r]
           answered == Items(l.snapshot.source, l.query, l.from, PageLimit)
           taken == TrimItems(answered, l.limit)
           limit == l.limit - Len(taken)
           goesOn == l.idx < Len(local[r].titles) /\ limit > 0
       IN  /\ local' = [local EXCEPT ![r].merged = MergeItems(@, taken),
                                     ![r].offset = @ + Len(taken),
                                     ![r].limit = limit,
                                     ![r].idx = IF goesOn THEN @ + 1 ELSE @,
                                     ![r].query = <<>>, ![r].from = 0]
           /\ pc' = [pc EXCEPT ![r] = IF goesOn THEN "send" ELSE "store"]
           /\ offsets' = Set(offsets, OffsetKey(r), l.slice, MaxOffsets)
           /\ Collect([slices EXCEPT ![l.slice][l.idx] = l.offset + Len(taken)])
    /\ reader' = Disturbed(Readers \ {r})
    /\ UNCHANGED <<dataVars, results, searches>>

-----------------------------------------------------------------------------
(* The environment: time, operators, other parts of the program.            *)

ResultExpires(key) ==
    /\ Hit(results, key)
    /\ results' = Aged(results, key)
    /\ UNCHANGED <<dataVars, offsets, slices, requestVars>>

OffsetsExpire(key) ==
    /\ Hit(offsets, key)
    /\ offsets' = Aged(offsets, key)
    /\ reader' = Disturbed(Readers)
    /\ UNCHANGED <<dataVars, results, slices, searches, pc, local>>

ClearResults ==
    /\ results' = EmptyCache
    /\ UNCHANGED <<dataVars, offsets, slices, requestVars>>

ClearOffsets ==
    /\ offsets' = EmptyCache
    /\ reader' = Disturbed(Readers)
    /\ UNCHANGED <<dataVars, results, searches, pc, local>>
    /\ Collect(slices)

\* The provider publishes: a configuration brings another indexer and advances the
\* revision; titles are loaded again, in the order SQLite has them this time, and
\* advance both.
PublishConfig ==
    /\ searches + snapshot.revision <= MaxEvents[kind]
    /\ snapshot' = [snapshot EXCEPT !.revision = @ + 1, !.source = @ + 1]
    /\ sourceOf' = Append(sourceOf, snapshot'.source)
    /\ reader' = Disturbed(Readers)
    /\ UNCHANGED <<kind, rows, cacheVars, searches, pc, local>>

PublishTitles ==
    /\ searches + snapshot.revision <= MaxEvents[kind]
    /\ \E list \in CandidateLists(kind, rows) :
          snapshot' = [snapshot EXCEPT !.revision = @ + 1, !.search = @ + 1,
                                       !.candidates = list]
    /\ sourceOf' = Append(sourceOf, snapshot.source)
    /\ reader' = Disturbed(Readers)
    /\ UNCHANGED <<kind, rows, cacheVars, searches, pc, local>>

ReaderStep(r) ==
    \/ \E key \in SearchKeys[kind] : StartReading(r, key)
    \/ StopReading(r)
    \/ Request(r) \/ GetResult(r) \/ DropResult(r)
    \/ Plain(r) \/ UpstreamFails(r) \/ StoreResult(r)
    \/ GetOffsets(r) \/ DropOffsets(r) \/ Scan(r) \/ Send(r) \/ Receive(r)

Environment ==
    \/ \E key \in DOMAIN results.m : ResultExpires(key)
    \/ \E key \in DOMAIN offsets.m : OffsetsExpire(key)
    \/ ClearResults \/ ClearOffsets
    \/ PublishConfig \/ PublishTitles

Next == (\E r \in Readers : ReaderStep(r)) \/ Environment

Spec == Init /\ [][Next]_vars

-----------------------------------------------------------------------------
(* Properties.                                                              *)

\* The list of keys of each cache names every entry once and nothing else, and no cache
\* outgrows its capacity, whatever Get, Set, Delete and Clear do between each other's
\* steps. The eviction loop of Set holds the mutex and would never end otherwise.
CachesStayIndexed ==
    /\ Indexed(results) /\ Bounded(results, MaxResults)
    /\ Indexed(offsets) /\ Bounded(offsets, MaxOffsets)

\* A client that pages through a search gets every item of every title once and in
\* order, page by page (executeExpandedSearch), whatever offsets earlier searches, other
\* indexers and failed requests have left in the slice: unless, during its search, another
\* request searches, the offsets or the data change, or a page comes from the result cache.
UndisturbedSearchIsWhole == \A r \in Readers : reader[r].so # "torn"

\* A cached page holds items of the indexer that was published with the revision in its
\* key, also when another one was published while the page was fetched.
PagesBelongToTheirRevision ==
    \A key \in DOMAIN results.m : \A i \in DOMAIN results.m[key].value :
        results.m[key].value[i][1] = sourceOf[key[1]]

\* Loading the same title rows again gives the same candidates, in the same order
\* (internal/search: "The final lexical keys make SQL ties deterministic for offset
\* caching"), whichever order SQLite returns them in.
CandidatesAreStable == [][rows' = rows => snapshot'.candidates = snapshot.candidates]_vars
=============================================================================
