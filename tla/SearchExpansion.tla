--------------------------- MODULE SearchExpansion ---------------------------
(***************************************************************************)
(* How one search becomes several: the candidates that internal/search      *)
(* derives from the title rows, and the titles that the proxy searches for  *)
(* one search term (internal/proxy/search_expansion.go and format.go).      *)
(*                                                                         *)
(* A text is a sequence of words and a word is a number: a name below 90, a *)
(* season ("S01") below 100, an episode below 1900, a year from there on;   *)
(* 100 is the "00" that Sonarr appends. The order of the numbers stands for *)
(* the order of the words.                                                  *)
(***************************************************************************)
EXTENDS Integers, Sequences, FiniteSets, SequencesExt, Lists

Texts == Seq(Nat)
ZeroZero == 100
Seasons == 90..99
Episodes == 100..1899
Years == {word \in Nat : word >= 1900}

\* A text without its last word when that is one of those given; every pattern of the
\* code asks for a blank before the word, so one word alone stays.
StripLast(text, words) ==
    IF Len(text) > 1 /\ Last(text) \in words THEN Front(text) ELSE text

RemoveYear(text) == StripLast(text, Years)
RemoveEpisode(text) == StripLast(text, Episodes)

\* Any number at the end, with the season before it if there is one.
RemoveSeasonEpisode(text) ==
    LET short == StripLast(text, Episodes \cup Years)
    IN  IF short = text THEN text ELSE StripLast(short, Seasons)

TrimZeroZero(text) == StripLast(text, {ZeroZero})

UniqueNonEmpty(texts) == Kept(texts, {n \in FirstPlaces(texts) : texts[n] # <<>>})

-----------------------------------------------------------------------------
(* internal/search: rows to candidates, which are [query, main, season,     *)
(* year]; what a domain does not have is 0, as in the code.                 *)

\* SonarrRow and RadarrRow: the one has no year and no number, the other no season.
Rows(kind) ==
    [main : Texts, title : Texts, clean : Texts, monitored : BOOLEAN,
     season : IF kind = "sonarr" THEN Int ELSE {0},
     year : IF kind = "sonarr" THEN {0} ELSE Nat,
     id : IF kind = "sonarr" THEN {0} ELSE Nat,
     sno : IF kind = "sonarr" THEN {0} ELSE Nat]

\* One key per comparison of the code, most important first.
\* Mutant: rows that tie on the keys of the Java query keep the order they came in.
RowKeyWithoutTies(kind, row) ==
    IF kind = "sonarr"
    THEN << <<IF row.monitored THEN 0 ELSE 1>>, <<100 - Len(row.title)>> >>
    ELSE << <<IF row.monitored THEN 0 ELSE 1>>, <<row.id>>, <<row.sno>> >>

RowKey(kind, row) ==
    IF kind = "sonarr"
    THEN << <<IF row.monitored THEN 0 ELSE 1>>, <<100 - Len(row.title)>>,
            row.title, row.main, row.clean, <<row.season + 1>> >>
    ELSE << <<IF row.monitored THEN 0 ELSE 1>>, <<row.id>>, <<row.sno>>,
            row.title, row.main, <<row.year>>, row.clean >>

TextBefore(a, b) ==
    \E k \in 1..Len(b) :
        /\ k <= Len(a) + 1
        /\ \A i \in 1..(k - 1) : a[i] = b[i]
        /\ k = Len(a) + 1 \/ a[k] < b[k]

KeyBefore(a, b) ==
    \E k \in DOMAIN a :
        /\ \A i \in 1..(k - 1) : a[i] = b[i]
        /\ TextBefore(a[k], b[k])

\* What SortFunc may return: it is not stable, and SQLite returns the rows of these
\* queries in any order, so rows that compare equal come in any order.
Orderings(kind, rows) ==
    {s \in SetToSeqs(rows) :
        \A i, j \in DOMAIN s : i < j => ~KeyBefore(RowKey(kind, s[j]), RowKey(kind, s[i]))}

\* The queries of one row: none for a blank title, and for Radarr the one with the year
\* in front of the plain one.
RowCandidates(kind, row) ==
    LET plain == [query |-> row.title, main |-> row.main,
                  season |-> row.season, year |-> row.year]
        dated == [plain EXCEPT !.query = Append(row.title, row.year)]
        hasYearSuffix == Len(row.title) > 1 /\ Last(row.title) = row.year
    IN  IF row.title = <<>> THEN <<>>
        ELSE IF kind = "radarr" /\ row.year > 0 /\ ~hasYearSuffix THEN <<dated, plain>>
        ELSE <<plain>>

\* SonarrCandidates and RadarrCandidates: the first candidate of each query text.
Candidates(kind, ordered) ==
    LET all == FlattenSeq([i \in DOMAIN ordered |-> RowCandidates(kind, ordered[i])])
    IN  Kept(all, FirstPlaces([i \in DOMAIN all |-> all[i].query]))

\* The lists a load of the snapshot may come up with.
CandidateLists(kind, rows) == {Candidates(kind, ordered) : ordered \in Orderings(kind, rows)}

-----------------------------------------------------------------------------
(* internal/proxy: the titles of one search.                                *)

SearchTitles(kind, key) ==
    IF kind = "radarr" THEN UniqueNonEmpty(<<key, RemoveYear(key)>>)
    ELSE UniqueNonEmpty(<<RemoveEpisode(key)>>)

YearOf(text) == IF Len(text) > 1 /\ Last(text) \in Years THEN Last(text) ELSE 0

\* A year agrees with another one when either is unknown.
YearsAgree(a, b) == a = 0 \/ b = 0 \/ a = b

\* The row that a search is about: [found, c], by the exact query, for Radarr also by
\* the query without the year.
Anchor(kind, basic, candidates) ==
    LET year == IF kind = "radarr" THEN YearOf(basic[1]) ELSE 0
        First(Fits(_)) == SelectInSeq(candidates, Fits)
        exact == [b \in DOMAIN basic |->
                    First(LAMBDA c : c.query = basic[b] /\ YearsAgree(year, c.year))]
        named == SelectInSeq(exact, LAMBDA i : i > 0)
        loose == IF kind = "radarr"
                 THEN First(LAMBDA c : /\ RemoveYear(c.query) = RemoveYear(basic[1])
                                       /\ YearsAgree(year, c.year))
                 ELSE 0
    IN  IF named > 0 THEN exact[named] ELSE loose

SameWork(kind, anchor, c) ==
    /\ c.main = anchor.main
    /\ IF kind = "sonarr"
       THEN anchor.season > 0 => c.season \in {anchor.season, -1}
       ELSE anchor.year > 0 /\ c.year > 0 => c.year = anchor.year

\* expandedSearchTitles.
ExpandedSearchTitles(kind, key, candidates) ==
    LET basic == SearchTitles(kind, key)
        at == IF basic = <<>> THEN 0 ELSE Anchor(kind, basic, candidates)
        same == Kept(candidates, {n \in DOMAIN candidates :
                                     SameWork(kind, candidates[at], candidates[n])})
    IN  IF at = 0 \/ (at > 0 /\ candidates[at].main = <<>>) THEN basic
        ELSE UniqueNonEmpty(basic \o [i \in DOMAIN same |-> same[i].query])
=============================================================================
