------------------------- MODULE UpdateTransaction -------------------------
(***************************************************************************)
(* What installing an update promises (UpdateInstaller.hpp:37-53,          *)
(* UpdateInstaller.cpp:670-673): the files of the application change to    *)
(* those of the release, all of them, or not at all, and the program says  *)
(* which.  Three things break that: a power cut, which leaves the first    *)
(* files of the release beside the later ones of before, never the other   *)
(* way round; a power cut on a card whose file system cannot sync a folder *)
(* (UpdateInstaller.cpp:536-538), which may leave any of them; and a       *)
(* rollback that fails itself.  After the last two nothing is promised.    *)
(***************************************************************************)
EXTENDS UpdateFiles

VARIABLES files,  \* the release each file is of
          open,   \* an installation is under way
          told,   \* what the user has been told of the last one
          whole,  \* no rollback has failed, no cut has scattered the files
          keeps   \* the card can sync a folder

transactionVars == <<files, open, told, whole, keeps>>

Outcomes == {"nothing", "installed", "kept", "incomplete"}

Init == /\ files = FirstInstall /\ open = FALSE /\ told = "nothing" /\ whole = TRUE
        /\ keeps \in BOOLEAN

Begin == ~open /\ open' = TRUE /\ told' = "nothing" /\ UNCHANGED <<files, whole, keeps>>

Commit ==
    /\ open /\ open' = FALSE
    /\ told' = "installed"
    /\ \E v \in Versions : files' = With(v, Ships[v], files)
    /\ UNCHANGED <<whole, keeps>>

Keep == open /\ open' = FALSE /\ told' = "kept" /\ UNCHANGED <<files, whole, keeps>>

RollbackFails == open /\ whole' = FALSE /\ UNCHANGED <<files, open, told, keeps>>

PowerCut ==
    /\ open /\ open' = FALSE
    /\ told' = "nothing"
    /\ \E v \in Versions, k \in Files :
          files' = With(v, {f \in Ships[v] : f < k}, files) \/ files' = With(v, Ships[v], files)
    /\ UNCHANGED <<whole, keeps>>

CutScatters ==
    /\ ~keeps
    /\ files' \in [Files -> Contents]
    /\ open' = FALSE /\ told' = "nothing" /\ whole' = FALSE
    /\ UNCHANGED keeps

Forget == ~open /\ told' = "nothing" /\ UNCHANGED <<files, open, whole, keeps>>

(* After a rollback that failed, or such a cut, nothing is promised. *)
Adrift == ~whole /\ files' \in [Files -> Contents] /\ open' \in BOOLEAN /\ told' \in Outcomes
          /\ UNCHANGED <<whole, keeps>>

Next == Begin \/ Commit \/ Keep \/ RollbackFails \/ PowerCut \/ CutScatters \/ Forget \/ Adrift

Spec == Init /\ [][Next]_transactionVars
=============================================================================
