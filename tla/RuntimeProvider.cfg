\* Two concurrent handlers and one downloader client; rule and title edits of one
\* domain, configuration updates, clears of every scope and of all caches.
SPECIFICATION FairSpec
CONSTANTS
    Handlers = {h1, h2}
    Clients = {c1}
    None = None
    EditedParts = {"radarrTitles"}
    ClearScopes <- MCClearScopes
    MaxVersion = 3
    MaxPublications = 2
INVARIANTS
    RevisionIdentifiesContent
    AcknowledgedIsVisible
    UnpublishedIsReported
    AdmittedIsCurrent
PROPERTIES
    EveryoneReturns
    ImplementsPublication
