---------------------------- MODULE MCCatalogDb ----------------------------
(* CatalogDb for TLC: the constants are given by the configurations. *)
EXTENDS CatalogDb, TLC

AccountSymmetry == Permutations(Accounts)
=============================================================================
