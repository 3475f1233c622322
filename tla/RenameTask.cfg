\* Three torrents, one of them in Transmission, and two titles for one of the others.
SPECIFICATION Spec
CONSTANTS
    Broken = Broken
    Pack = Pack
    Film = Film
    Torrents = {Broken, Pack, Film}
    T1 = T1
    T2 = T2
    Titles = {T1, T2}
    BadTitle = BadTitle
    Raw1 = Raw1
    Raw2 = Raw2
    Ep1 = Ep1
    Ep2 = Ep2
    Nfo = Nfo
    Bases = {Raw1, Raw2, Ep1, Ep2, Nfo}
    Unsafe = Unsafe
    NoEpisode = NoEpisode
    Layouts <- MCLayouts
    Histories <- MCHistories
    RenameFiles = TRUE
    SonarrFormat = TRUE
    Formatted <- MCFormatted
INVARIANTS
    UnfinishedWasReported
PROPERTIES
    SettledFilesStay
    EveryTorrentIsNamed
