---------------------------- MODULE MCNfoIdentity ----------------------------
(***************************************************************************)
(* One video, the name of which may say which episode it is, two titles    *)
(* that its files may give it, and a task with a retry.                    *)
(***************************************************************************)
EXTENDS NfoIdentityProperties

Nothing == [f \in Files |-> Absent]
MCLibraries ==
    {Nothing,
     [Nothing EXCEPT !["stem"] = Document("movie", "old", NoPlace)],
     [Nothing EXCEPT !["tvshow"] = Document("tvshow", "old", NoPlace)]}
=============================================================================
