------------------------ MODULE LayerStoreContract ------------------------
(***************************************************************************)
(* What LayerTarStore and ManifestStore (lib/storage) promise the rest of  *)
(* makisu: a file is absent, being downloaded or in the store; what is in  *)
(* the store is complete and is not written again; a file may be evicted   *)
(* at any time, and a restart forgets the downloads.                       *)
(***************************************************************************)
CONSTANT Name

VARIABLES
    where,      \* of each name: "absent", "download" or "cache"
    complete    \* the names whose file has all of its content

vars == <<where, complete>>

Init == where = [n \in Name |-> "absent"] /\ complete = {}

CreateDownload(n) ==
    /\ where[n] = "absent"
    /\ where' = [where EXCEPT ![n] = "download"]
    /\ UNCHANGED complete

FinishDownload(n) ==
    /\ where[n] = "download"
    /\ complete' = complete \cup {n}
    /\ UNCHANGED where

(* MoveDownloadFileToStore of a verified file. *)
Store(n) ==
    /\ where[n] = "download"
    /\ n \in complete
    /\ where' = [where EXCEPT ![n] = "cache"]
    /\ UNCHANGED complete

(* LinkStoreFileFrom. *)
Link(n) ==
    /\ where[n] = "absent"
    /\ where' = [where EXCEPT ![n] = "cache"]
    /\ complete' = complete \cup {n}

(* DeleteStoreFile, or eviction. *)
Remove(n) ==
    /\ where[n] # "absent"
    /\ where' = [where EXCEPT ![n] = "absent"]
    /\ complete' = complete \ {n}

Restart ==
    \E kept \in SUBSET {n \in Name : where[n] = "cache"} :
        /\ where' = [n \in Name |-> IF n \in kept THEN "cache" ELSE "absent"]
        /\ complete' = complete \cap kept

Next == \/ \E n \in Name : \/ CreateDownload(n) \/ FinishDownload(n) \/ Store(n)
                           \/ Link(n) \/ Remove(n)
        \/ Restart

Spec == Init /\ [][Next]_vars

=============================================================================
