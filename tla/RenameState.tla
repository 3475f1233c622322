---------------------------- MODULE RenameState -----------------------------
(* What the rename tasks work on (see RenameTask), and what must be true of it. *)

CONSTANTS
    Torrents,      \* hashes of torrents
    Titles         \* titles of releases that are valid names

VARIABLES
    name,      \* [Torrents -> name of the torrent]
    files,     \* [Torrents -> paths of its files, as qBittorrent lists them]
    task,      \* the run of the scheduler: its locals
    reported   \* history: torrents known to be half renamed: from the start, or by a run
               \* that failed or died

\* Files of a torrent are under the title of a release, and others are not.
HalfRenamed(paths) ==
    \E i, j \in DOMAIN paths : paths[i].folder \in Titles /\ paths[j].folder # paths[i].folder

\* path.Dir is the title: the file was renamed before.
InPlace(title, path) == path.folder = title /\ path.sub = ""

-----------------------------------------------------------------------------
\* A torrent with some files under a new title and others not is one that a run is at,
\* or that a run which ended with an error, or died, left so: no run says that all went
\* well after it renamed a part (renameEvent, run).
UnfinishedWasReported ==
    \A h \in Torrents : HalfRenamed(files[h]) => h \in reported \cup task.touched

\* A file that is in its place under the title that Sonarr's history has first for its
\* torrent is not moved by a run for Sonarr, whatever else the history has: duplicates do
\* not move files back and forth, and a plan over renamed files changes nothing (seen,
\* planFiles).
SettledFilesStay ==
    [][\A h \in Torrents : \A i \in DOMAIN files[h] :
          task.kind = "sonarr" /\ InPlace(task.first[h], files[h][i]) =>
              files'[h][i] = files[h][i]]_files
=============================================================================
