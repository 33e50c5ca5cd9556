----------------------- MODULE SubtitleFilesProperties -----------------------
(***************************************************************************)
(* What must hold of the files that SubtitleFiles writes, whatever step a  *)
(* crash or an error comes between.                                        *)
(***************************************************************************)
EXTENDS SubtitleFiles

Forms == {"whole", "partial", "synced"}
Texts == {Member[c][v] : c \in Candidates, v \in Videos} \ {NoText}
FileSet == {Nothing} \cup [text : Texts, form : Forms]

\* The state is well-typed: a run is under way exactly while its row is running, and
\* the next additional name it may need is one of those the bound allows for.
TypeOK ==
    /\ settings \in Settings
    /\ rows \in [Ids -> {"none", "running", "failed", "completed", "interrupted"}]
    /\ media \in [Videos -> [slots : [Slots -> FileSet], backup : FileSet]]
    /\ work \in [download : FileSet, output : FileSet]
    /\ packed \in [Keys -> [Videos -> FileSet]]
    /\ manifest \in [Videos -> Keys \cup {NoKey}]
    /\ latest \in [Videos -> FileSet] /\ reborn \subseteq Ids
    /\ \A t \in Ids : rows[t] = "running" <=> run.pc # "idle" /\ run.id = t
    /\ run.used \in 0..settings.attempts /\ run.reference \in 1..References /\ run.slot \in Slots
    /\ run.pc = "placing" /\ run.slot # Main => Beside.slots[run.slot] = Nothing

\* safe_place_subtitle publishes by renaming a finished copy: no crash and no error
\* leaves half a subtitle under a name that a player reads.  What the manifest of a
\* season names for an episode is a finished copy of the pack's file for this very
\* episode, as long as the identifier in its path was not used again.
FilesAreWhole ==
    /\ \A v \in Videos, s \in Slots : media[v].slots[s].form = "partial" => reborn # {}
    /\ \A v \in Videos : manifest[v] # NoKey =>
          LET k == manifest[v]
          IN  packed[k][v] = File(Member[k.candidate][v], "whole") \/ k.id \in reborn

\* With keep_backup the subtitle published last is never lost: whatever breaks off the
\* replacement of it, it is still in place or in the backup.
LatestKept ==
    settings.keepBackup =>
        \A v \in Videos : latest[v] # Nothing => latest[v] \in {media[v].slots[Main], media[v].backup}

\* What is published as synchronised is the text of this attempt, aligned: never what
\* another candidate or another audio stream left at the path of the output.
SyncedIsOwn ==
    run.pc \in {"placing", "replacing", "saving", "publishing"} /\ run.source = "output" =>
        Chosen = File(work.download.text, "synced")

\* Without overwrite no step changes or removes a subtitle that lies beside a video, and an
\* additional subtitle is never put over another one, whatever overwrite says.
NothingOverwritten ==
    [][\A v \in Videos, s \in Slots :
          media[v].slots[s] # Nothing /\ (s # Main \/ ~settings.overwrite)
              => media'[v].slots[s] = media[v].slots[s]]_vars
=============================================================================
