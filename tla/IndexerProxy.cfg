\* Two clients page through searches of both kinds, with room for one page and one
\* slice in the caches.
SPECIFICATION Spec
CONSTANTS
    Readers = {r1, r2}
    None = None
    Kinds = {"sonarr", "radarr"}
    SearchKeys <- MCSearchKeys
    RowSets <- MCRowSets
    Stock <- MCStock
    PageLimit = 2
    MinCount = 5
    MaxResults = 1
    MaxOffsets = 1
    MaxEvents <- MCMaxEvents
SYMMETRY Symmetry
INVARIANTS
    CachesStayIndexed
    UndisturbedSearchIsWhole
    PagesBelongToTheirRevision
PROPERTIES
    CandidatesAreStable
