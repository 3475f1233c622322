---------------------------- MODULE MCRenameTask ----------------------------
(* Instances of RenameTask for TLC. *)
EXTENDS RenameTask, TLC

CONSTANTS Broken, Pack, Film, T1, T2, Raw1, Raw2, Ep1, Ep2, Nfo

MCFormatted ==
    (Raw1 :> Ep1) @@ (Raw2 :> Ep2) @@ (Ep1 :> Ep1) @@ (Ep2 :> NoEpisode)
      @@ (Nfo :> NoEpisode) @@ (T1 :> Unsafe) @@ (T2 :> NoEpisode)

Path(folder, sub, base, suffix) ==
    [folder |-> folder, sub |-> sub, base |-> base, number |-> 0, suffix |-> suffix]

\* The film is in Transmission, whose files are left alone. The pack has an episode
\* without a folder and a file without an episode; the broken torrent has a file that
\* leads out of it, or its files are below its folder.
MCLayouts ==
    [h \in Torrents |->
        CASE h = Film -> {<<>>}
          [] h = Pack ->
              { << Path(Top, "", Raw1, "video"), Path("old", "", Nfo, "other") >> }
          [] h = Broken ->
              { << Path("old", "", Raw1, "video"), Path(Outside, "", Raw2, "video") >>,
                << Path("old", "subs", Raw1, "subtitle"), Path("old", "subs", Raw2, "video") >> }]

Row(title, hash, client) == [title |-> title, hash |-> hash, client |-> client]

MCHistories ==
    [kind \in Kinds |->
        IF kind = "sonarr"
        THEN { << Row(T1, Broken, "qbittorrent"), Row(T1, Pack, "qbittorrent"),
                  Row(T2, Pack, "qbittorrent") >>,
               << Row(T1, Broken, "qbittorrent"), Row(BadTitle, Pack, "qbittorrent"),
                  Row(T2, Pack, "qbittorrent") >> }
        ELSE { << Row(T1, Broken, "qbittorrent"), Row(T1, Film, "sabnzbd"),
                  Row(T1, "no hash", "qbittorrent"), Row(T1, Film, "transmission") >> }]
=============================================================================
