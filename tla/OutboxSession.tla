--------------------------- MODULE OutboxSession ---------------------------
(***************************************************************************)
(* What the outboxes of the application share: the account that is signed  *)
(* in, the main thread, which does one thing at a time, and the bounds.    *)
(***************************************************************************)
EXTENDS Naturals, Sequences

CONSTANTS Accounts, Items, NoAccount,
          MaxRequests, MaxFaults, MaxCrashes   \* bounds: user's acts, failures, crashes

ASSUME OutboxAssumption ==
    NoAccount \notin Accounts /\ {MaxRequests, MaxFaults, MaxCrashes} \subseteq Nat

VARIABLES session,  \* m_session
          main,     \* what the main thread is in the middle of
          used      \* bound: requests, faults and crashes so far

sessionVars == <<session, main, used>>

SignedIn == main = "idle" /\ session # NoAccount

Request == used.requests < MaxRequests /\ used' = [used EXCEPT !.requests = @ + 1]
Fault   == used.faults < MaxFaults /\ used' = [used EXCEPT !.faults = @ + 1]
=============================================================================
