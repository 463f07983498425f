----------------------------- MODULE Filtering -----------------------------
(***************************************************************************)
(* What an erase-remove loop leaves of a list: the elements at the         *)
(* positions D, in their order (WatchedSync.cpp and                        *)
(* LibraryCoordinatorHierarchy.cpp erase so).  A recursive function rather *)
(* than SelectSeq, which the provers know nothing about.                   *)
(***************************************************************************)
EXTENDS Naturals, Sequences

Retained(s, D) ==
    LET upTo[n \in 0 .. Len(s)] ==
            IF n = 0 THEN <<>>
            ELSE IF n \in D THEN Append(upTo[n - 1], s[n]) ELSE upTo[n - 1]
    IN upTo[Len(s)]
=============================================================================
