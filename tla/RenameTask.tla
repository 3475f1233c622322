----------------------------- MODULE RenameTask -----------------------------
(***************************************************************************)
(* The rename tasks of internal/tasks/rename: a run reads what Sonarr or    *)
(* Radarr grabbed of late and gives the torrents, and the files of those in *)
(* qBittorrent, the names of the releases. A run keeps nothing: the next    *)
(* one starts from the history and from the names it finds. Calls fail      *)
(* before or after they took effect, a run is cancelled at its deadline or  *)
(* at shutdown, the process dies. The scheduler lets one run go at a time.  *)
(*                                                                         *)
(* qBittorrent is external: it refuses to rename a file that is not there,  *)
(* or to a path that another file of the torrent has.                       *)
(***************************************************************************)
EXTENDS Naturals, Sequences, FiniteSets, SequencesExt, RenameState

CONSTANTS
    BadTitle,      \* a title that is not: it has a slash
    Bases,         \* what files are called before their suffix
    Unsafe,        \* a formatted name that validPath rejects
    NoEpisode,     \* the formatter found no episode
    Layouts,       \* [Torrents -> sequences of files it may have at first]
    Histories,     \* ["sonarr", "radarr" -> set of answers of the history]
    RenameFiles,   \* cfg.Task.RenameFiles
    SonarrFormat,  \* is a format configured?
    Formatted      \* [Bases \cup Titles -> what FormatTokens makes of the name]

\* A path: its first folder (Top if it has none, Outside if it leads out of the torrent),
\* the folders below, and the name: base, number of a subtitle, kind of the suffix.
Top == "top"
Outside == ".."
Kinds == {"sonarr", "radarr"}

ASSUME FormattedAssumption ==
    Formatted \in [Bases \cup Titles -> Bases \cup {Unsafe, NoEpisode}]
ASSUME TitlesAssumption == BadTitle \notin Titles

\* A path has these five parts, and a torrent lists its paths.
IsPath(path) ==
    path = [folder |-> path.folder, sub |-> path.sub, base |-> path.base,
            number |-> path.number, suffix |-> path.suffix]

Listed(paths) == paths \in Seq(ToSet(paths)) /\ \A path \in ToSet(paths) : IsPath(path)

LayoutsAreListed == \A h \in Torrents : \A paths \in Layouts[h] : Listed(paths)

ASSUME LayoutsAssumption == LayoutsAreListed

vars == <<name, files, task, reported>>

Unnamed == "unnamed"

\* at: where the run stands; events: the history, of which next is the one to handle;
\* seen: hashes handled; plan: files to rename. For the properties: first, the first title
\* of each torrent in events; touched, the torrents of which this run moved a file.
NoRun ==
    [at |-> "idle", kind |-> "sonarr", events |-> <<>>, next |-> 1, seen |-> {},
     plan |-> <<>>, failed |-> FALSE, cancelled |-> FALSE,
     first |-> [h \in Torrents |-> Unnamed], touched |-> {}]

Init ==
    /\ name = [h \in Torrents |-> Unnamed]
    /\ files \in [Torrents -> UNION {Layouts[h] : h \in Torrents}]
    /\ \A h \in Torrents : files[h] \in Layouts[h]
    /\ task = NoRun
    /\ reported = {h \in Torrents : HalfRenamed(files[h])}

-----------------------------------------------------------------------------
(* The plan.                                                                *)

\* Every component has to be named, without a backslash or a control character. A
\* formatted name with a slash between two names is valid: a base like any other.
ValidPath(path) == path.folder # Outside /\ path.base # Unsafe

\* The formatter is used for Sonarr, and only if a format is configured.
Formats(kind) == kind = "sonarr" /\ SonarrFormat

\* A name that radarrName or sonarrName replaces.
Renamable(kind, path) ==
    /\ path.suffix \in {"video", "subtitle"}
    /\ Formats(kind) => Formatted[path.base] # NoEpisode

\* The subtitles that get a name are numbered as they are listed.
SubtitleNumber(kind, paths, i) ==
    1 + Cardinality({j \in 1..(i - 1) :
                        paths[j].suffix = "subtitle" /\ Renamable(kind, paths[j])})

NewPath(kind, title, paths, i) ==
    LET moved == [paths[i] EXCEPT !.folder = title]
    IN  IF ~Renamable(kind, paths[i]) THEN moved
        ELSE [moved EXCEPT
                !.base = IF Formats(kind) THEN Formatted[@] ELSE title,
                !.number = IF paths[i].suffix = "subtitle"
                           THEN SubtitleNumber(kind, paths, i) ELSE 0]

\* The answers of filePlan: ErrInvalidPath, or the files to rename.
Invalid == [valid |-> FALSE, renames |-> <<>>]
Plan(renames) == [valid |-> TRUE, renames |-> renames]

\* planFiles: no file is renamed if one has an invalid path, or is in its place; of the
\* files in their place and the new paths that are invalid the first listed decides.
planFiles(kind, title, paths) ==
    LET renames == [i \in 1..Len(paths) |->
                       [old |-> paths[i], new |-> NewPath(kind, title, paths, i)]]
        stops   == {i \in 1..Len(paths) :
                       InPlace(title, paths[i]) \/ ~ValidPath(renames[i].new)}
    IN  IF \E i \in 1..Len(paths) : ~ValidPath(paths[i]) THEN Invalid
        ELSE IF stops = {} THEN Plan(renames)
        ELSE IF InPlace(title, paths[Min(stops)]) THEN Plan(<<>>)
        ELSE Invalid

-----------------------------------------------------------------------------
(* The run.                                                                 *)

\* decodeHistory: rows without a hash, and those of other clients, are no events.
decodeHistory(rows) ==
    SelectSeq(rows, LAMBDA r : r.hash \in Torrents /\ r.client \in {"qbittorrent", "transmission"})

Event == task.events[task.next]
More == task.next <= Len(task.events)

At(place) == task.at = place

\* What is left of the torrents that a run leaves behind is known to be half renamed.
StillHalf(torrents) == {h \in torrents : HalfRenamed(files'[h])}

\* The run is over: its caller gets an error, or does not.
End(failed) ==
    /\ task' = NoRun
    /\ reported' = StillHalf(IF failed THEN reported \cup task.touched ELSE reported)

\* The run with the next event in front.
NextEvent ==
    [task EXCEPT !.at = "loop", !.next = @ + 1, !.plan = <<>>,
                !.touched = @ \cup {h \in Torrents : files'[h] # files[h]}]

\* Mutant: the error is logged.
EventIsLogged == task' = NextEvent /\ reported' = StillHalf(reported)

\* Mutant: the run ends at the first error.
EndAtFirst == task' = NoRun /\ reported' = StillHalf(reported \cup NextEvent.touched)

\* renameEvent returned an error: it is joined to the others and the run goes on.
EventFails ==
    /\ task' = [NextEvent EXCEPT !.failed = TRUE]
    /\ reported' = StillHalf(reported)

Start(kind) ==
    /\ At("idle")
    /\ task' = [NoRun EXCEPT !.at = "fetch", !.kind = kind]
    /\ UNCHANGED <<name, files, reported>>

FirstTitle(events, h) ==
    LET ofH == {i \in 1..Len(events) : events[i].hash = h /\ events[i].title # BadTitle}
    IN  IF ofH = {} THEN Unnamed ELSE events[Min(ofH)].title

Fetch ==
    /\ At("fetch")
    /\ \E rows \in Histories[task.kind] :
          task' = [task EXCEPT !.at = "loop", !.events = decodeHistory(rows),
                             !.first = [h \in Torrents |-> FirstTitle(decodeHistory(rows), h)]]
    /\ UNCHANGED <<name, files, reported>>

\* The configuration or the history cannot be read.
FetchFails ==
    /\ At("fetch")
    /\ UNCHANGED <<name, files>>
    /\ End(TRUE)

\* An invalid title, or for Sonarr a torrent that was handled already.
Skipped(event) ==
    event.title = BadTitle \/ (task.kind = "sonarr" /\ event.hash \in task.seen)

Skip ==
    /\ At("loop") /\ More /\ ~task.cancelled
    /\ Skipped(Event)
    /\ task' = [task EXCEPT !.next = @ + 1]
    /\ UNCHANGED <<name, files, reported>>

\* Mutant: the hashes are not kept.
SeenNothing(event) == {}

Seen(event) == task.seen \cup {event.hash}

Ready(h) ==
    /\ At("loop") /\ More /\ ~task.cancelled
    /\ Event.hash = h /\ ~Skipped(Event)

Take(h) ==
    /\ Ready(h)
    /\ task' = [task EXCEPT
                 !.seen = Seen(Event),
                 !.at = IF Event.client = "qbittorrent" /\ RenameFiles THEN "files" ELSE "rename"]
    /\ UNCHANGED <<name, files, reported>>

\* The deadline or the shutdown is seen before the next event.
Stop ==
    /\ At("loop") /\ More /\ task.cancelled
    /\ UNCHANGED <<name, files>>
    /\ End(TRUE)

Done ==
    /\ At("loop") /\ ~More
    /\ UNCHANGED <<name, files>>
    /\ End(task.failed)

\* The plan is made before anything is changed.
Files(h) ==
    /\ At("files") /\ Event.hash = h
    /\ UNCHANGED <<name, files>>
    /\ LET plan == planFiles(task.kind, Event.title, files[h])
       IN  IF ~plan.valid THEN EventFails
           ELSE task' = [task EXCEPT !.at = "rename", !.plan = plan.renames] /\ UNCHANGED reported

FilesFails ==
    /\ At("files")
    /\ UNCHANGED <<name, files>>
    /\ EventFails

Rename(h) ==
    /\ At("rename") /\ Event.hash = h
    /\ name' = [name EXCEPT ![h] = Event.title]
    /\ UNCHANGED <<files, reported>>
    /\ task' = IF task.plan = <<>> THEN NextEvent ELSE [task EXCEPT !.at = "renameFile"]

\* The call fails, before or after the torrent got its name.
RenameFails ==
    /\ At("rename")
    /\ name' \in {name, [name EXCEPT ![Event.hash] = Event.title]}
    /\ UNCHANGED files
    /\ EventFails

\* What qBittorrent accepts, and makes of the file.
Accepts(paths, rename) ==
    /\ rename.old \in ToSet(paths)
    /\ rename.new \notin ToSet(paths) \ {rename.old}

Renamed(paths, rename) ==
    [i \in DOMAIN paths |-> IF paths[i] = rename.old THEN rename.new ELSE paths[i]]

\* The first file of the plan gets its new path.
Move(h) ==
    /\ ~task.cancelled
    /\ Accepts(files[h], Head(task.plan))
    /\ files' = [files EXCEPT ![h] = Renamed(@, Head(task.plan))]

LastOfPlan == Len(task.plan) = 1

RenameFile(h) ==
    /\ At("renameFile") /\ Event.hash = h
    /\ Move(h)
    /\ task' = IF LastOfPlan THEN NextEvent
              ELSE [task EXCEPT !.plan = Tail(@), !.touched = NextEvent.touched]
    /\ reported' = StillHalf(reported)
    /\ UNCHANGED name

\* The context has ended, qBittorrent refuses, or its answer is lost.
RenameFileFails ==
    /\ At("renameFile")
    /\ UNCHANGED files \/ Move(Event.hash)
    /\ EventFails
    /\ UNCHANGED name

\* The deadline of the run, or the shutdown.
Cancel ==
    /\ task.at \notin {"idle", "dead"} /\ ~task.cancelled
    /\ task' = [task EXCEPT !.cancelled = TRUE]
    /\ UNCHANGED <<name, files, reported>>

\* The process dies, and another one is started.
Die ==
    /\ task.at \notin {"idle", "dead"}
    /\ UNCHANGED <<name, files>>
    /\ task' = [NoRun EXCEPT !.at = "dead"]
    /\ reported' = StillHalf(reported \cup task.touched)

Restart ==
    /\ At("dead")
    /\ task' = NoRun
    /\ UNCHANGED <<name, files, reported>>

Continue ==
    \/ Fetch \/ FetchFails \/ Skip \/ Stop \/ Done
    \/ \E h \in Torrents : Take(h) \/ Files(h) \/ Rename(h) \/ RenameFile(h)
    \/ FilesFails \/ RenameFails \/ RenameFileFails \/ Restart

Next ==
    \/ \E kind \in Kinds : Start(kind)
    \/ Continue \/ Cancel \/ Die

\* The scheduler starts the runs of both kinds again and again, and a run goes on. About
\* the outside: a call for a torrent that is made again and again succeeds at times;
\* deadlines, deaths and failures of the history do not go on forever.
Fairness ==
    /\ WF_vars(Continue)
    /\ \A kind \in Kinds : SF_vars(Start(kind))
    /\ \A h \in Torrents : SF_vars(Files(h)) /\ SF_vars(Rename(h))
    /\ <>[](~At("dead") /\ ~task.cancelled)
    /\ <>[][At("fetch") => ~At("idle")']_vars

Spec == Init /\ [][Next]_vars /\ Fairness

-----------------------------------------------------------------------------
(* Properties: those of RenameState, and this one.                          *)

\* A torrent with valid paths, which the history keeps naming, gets a name at last, also
\* if the torrents before it in the history can never be renamed (run goes on after an
\* error).
EveryTorrentIsNamed ==
    \A h \in Torrents :
        (\A i \in DOMAIN files[h] : ValidPath(NewPath("sonarr", "any", files[h], i))
                                       /\ ValidPath(files[h][i]))
            ~> name[h] # Unnamed
=============================================================================
