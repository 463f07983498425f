------------------------- MODULE MCDownloadStorage -------------------------
(* Instances of DownloadStorage for TLC.  Each .cfg gives the sets and the bounds for the     *)
(* question it asks.  Idle fields hold a CHOOSEn account or id, so no symmetry set is declared. *)
EXTENDS DownloadStorage, TLC

FirstSource == CHOOSE v \in Sources : TRUE

(* The sources are alike: nothing is lost when the first an item is given is always the same. *)
FromFirst ==
    used.edits = 0 => \A i \in Ids : items'[i] # NoItem => items'[i].src = FirstSource

(* A bound: the storage that comes back holds a library of the account the program starts with. *)
(* (The accounts are alike; what is left out is that it holds one of an account entered later.) *)
LateAtFirst ==
    away /\ ~away' =>
        \A s \in Scopes \ {AnyScope} : <<manifest[s], index[s]>>' = <<manifest[s], index[s]>>
=============================================================================
