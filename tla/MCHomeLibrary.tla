--------------------------- MODULE MCHomeLibrary ---------------------------
(* HomeLibrary for TLC: the constants are given by the configurations. *)
EXTENDS HomeLibrary

ItemSymmetry == Permutations(Items)

(* Two explorations in one run, so that neither pays for the other's bounds: the data (changes, *)
(* a lost socket and a failure, but not two changes with both of the others, one fetch and no   *)
(* toggle), and the slot, with nothing that changes at the server and two of a second fetch, a  *)
(* toggle, a safety reconcile, a screen.                                                        *)
Bounds == [fetches |-> MaxFetches, toggles |-> MaxToggles, changes |-> MaxChanges,
           drops |-> MaxDrops, safety |-> MaxSafety, screens |-> MaxScreens]
Unused(what) == budget[what] = Bounds[what]
Data ==
    /\ Unused("toggles") /\ Unused("safety") /\ Unused("screens") /\ budget["fetches"] > 0
    /\ Unused("drops") \/ failures = MaxFaults \/ budget["changes"] > 0
Slot ==
    /\ Unused("changes") /\ Unused("drops") /\ failures = MaxFaults
    /\ Cardinality({what \in {"toggles", "safety", "screens"} : ~Unused(what)}
                      \union {what \in {"fetches"} : budget[what] = 0}) <= 2
Focus == Data \/ Slot
=============================================================================
