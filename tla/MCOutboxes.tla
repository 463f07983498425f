----------------------------- MODULE MCOutboxes -----------------------------
(* Outboxes for TLC.  The accounts are alike, so nothing is lost when the  *)
(* one that is signed in at the first start, if any, is always the same.   *)
EXTENDS Outboxes

FirstAccount == CHOOSE a \in Accounts : TRUE

MCInit == Init /\ session \in {FirstAccount, NoAccount}

MCFairSpec == MCInit /\ [][Next]_vars /\ Fairness
=============================================================================
