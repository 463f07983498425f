----------------------------- MODULE MCUpdater -----------------------------
(* Updater for TLC: three releases; the second brings a library of its own, the third drops it. *)
EXTENDS Updater

MCShips == << {1, 3}, {1, 2, 3}, {1, 3} >>
=============================================================================
