--------------------------- MODULE MCIndexerProxy ---------------------------
(* Instances of IndexerProxy for TLC. *)
EXTENDS IndexerProxy, TLC

\* Episode 1 of show 1; film 1 of the year 2024, and a request without a term.
MCSearchKeys == ("sonarr" :> {<<1, 101>>}) @@ ("radarr" :> {<<1, 2024>>, <<>>})

MCMaxEvents == ("sonarr" :> 2) @@ ("radarr" :> 2)

Row(title, season, year, id) ==
    [main |-> <<1>>, title |-> title, clean |-> title, monitored |-> TRUE,
     season |-> season, year |-> year, id |-> id, sno |-> 0]

\* A show with two aliases of the same length for all seasons, one of which names a
\* season, beside an alias of another season; a film with an alias of an unknown year.
MCRowSets ==
    ("sonarr" :> {{Row(<<1>>, 1, 0, 0), Row(<<2, 3>>, -1, 0, 0), Row(<<4, 91>>, -1, 0, 0),
                   Row(<<5>>, 2, 0, 0)}})
      @@ ("radarr" :> {{Row(<<1>>, 0, 2024, 1), Row(<<2>>, 0, 0, 1)}})

\* What the indexers have: three items of the first title, so that it takes two pages, and
\* one of the last, which for the show is found without season and episode only.
MCStock ==
    (<<1, 101>> :> 3) @@ (<<4>> :> 1) @@ (<<>> :> 1)
      @@ (<<1, 2024>> :> 1) @@ (<<1>> :> 3) @@ (<<2>> :> 1)

Symmetry == Permutations(Readers)
=============================================================================
