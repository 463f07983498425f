------------------------------ MODULE Outboxes ------------------------------
(***************************************************************************)
(* The two outboxes of the application beside each other: one main thread, *)
(* one signed-in account, the threads that empty them, a program that is   *)
(* killed and started again at any moment, and another device that uses    *)
(* the same accounts.                                                      *)
(***************************************************************************)
EXTENDS WatchedOutbox, PlaybackOutbox

vars == <<sessionVars, watchedVars, playbackVars>>

Init ==
    /\ session \in Accounts \cup {NoAccount}
    /\ main = "recover"
    /\ used = [requests |-> 0, faults |-> 0, crashes |-> 0]
    /\ WatchedInit
    /\ PlaybackInit

WatchedStep(A)  == A /\ UNCHANGED playbackVars
PlaybackStep(A) == A /\ UNCHANGED watchedVars

(* A sign-in that succeeded; nothing wakes the journal's thread. *)
SignIn(a) ==
    /\ main = "idle" /\ session = NoAccount
    /\ Request
    /\ session' = a
    /\ main' = "home"
    /\ UNCHANGED <<watchedVars, playbackVars>>

(* goToHome(), which the start of the program follows with a pass over the journal. *)
GoToHome ==
    /\ main \in {"home", "start"}
    /\ Configured(session)
    /\ Notified
    /\ wake' = (wake \/ main = "start")
    /\ main' = "idle"
    /\ UNCHANGED <<session, used, pending, courier, watched, choice, excused>>
    /\ UNCHANGED <<journal, result, syncer, failed, discarded, position, owed>>

(* logout(): the watched outbox first; the session ends with the journal's mutex. *)
Logout ==
    /\ SignedIn
    /\ main' = "logout"
    /\ holder' = NoAccount
    /\ Notified
    /\ UNCHANGED <<session, used, pending, path, courier, watched, choice, excused, playbackVars>>

SignedOut ==
    /\ main = "logout"
    /\ MutexFree
    /\ session' = NoAccount
    /\ main' = "idle"
    /\ UNCHANGED <<used, watchedVars, playbackVars>>

(* The account is used elsewhere. *)
OtherDevice(a, i, p) ==
    /\ Request
    /\ position' = [position EXCEPT ![a][i] = p]
    /\ UNCHANGED <<session, main, watchedVars, journal, result, syncer, wake, failed, discarded, owed>>

(* The program is killed and started again: the files and the server are what is left. *)
Crash ==
    /\ used.crashes < MaxCrashes
    /\ used' = [used EXCEPT !.crashes = @ + 1]
    /\ main' = "recover"
    /\ path' = NoAccount /\ holder' = NoAccount
    /\ courier' = NoChange /\ nudge' = FALSE
    /\ syncer' = NoSync /\ wake' = FALSE /\ failed' = FALSE
    /\ discarded' = NoSync.entries
    /\ UNCHANGED <<session, pending, watched, choice, excused, journal, result, position, owed>>

Program ==
    \/ PlaybackStep(Ingest) \/ PlaybackStep(DiscardWrite) \/ GoToHome \/ SignedOut

Next ==
    \/ \E a \in Accounts : SignIn(a)
    \/ Logout
    \/ Program
    \/ \E i \in Items, played \in BOOLEAN : WatchedStep(Enqueue(i, played))
    \/ WatchedStep(CourierStep)
    \/ \E i \in Items, p \in Positions : PlaybackStep(Play(i, p))
    \/ \E i \in Items : PlaybackStep(DiscardRead(i))
    \/ PlaybackStep(SyncerStep)
    \/ \E a \in Accounts, i \in Items, p \in Positions : OtherDevice(a, i, p)
    \/ Crash

Spec == Init /\ [][Next]_vars

(* The threads run, waits with a time-out end, and the main thread finishes what it began. *)
Fairness ==
    /\ WF_vars(WatchedStep(CourierStep))
    /\ WF_vars(PlaybackStep(SyncerStep))
    /\ WF_vars(Program)

FairSpec == Spec /\ Fairness

-----------------------------------------------------------------------------
Mains   == {"recover", "start", "home", "idle", "ingest", "discard", "logout"}
Syncing == {"load", "fetch", "submit"}

SessionType == session \in Accounts \cup {NoAccount} /\ main \in Mains

WatchedType ==
    /\ \A a \in Accounts : \A k \in DOMAIN pending[a] :
          /\ pending[a][k] \in [item : Items, played : BOOLEAN]
          /\ \A j \in DOMAIN pending[a] : pending[a][j].item = pending[a][k].item => j = k
    /\ {path, holder} \subseteq Accounts \cup {NoAccount}

Syncers == [pc : Syncing \cup {"wait", "backoff", "begin"}, a : Accounts \cup {NoAccount},
            entries : Journals, todo : SUBSET Items, changed : BOOLEAN, retry : BOOLEAN]

PlaybackType ==
    /\ journal \in [Accounts -> Journals]
    /\ result \in Results \cup {NoEntry}
    /\ syncer \in Syncers
    /\ syncer.pc \in Syncing => syncer.a \in Accounts
    /\ \A i \in syncer.todo : syncer.entries[i] # NoEntry
    /\ discarded \in Journals
    /\ position \in [Accounts -> [Items -> Positions \cup {0}]]
    /\ owed \in [Accounts -> [Items -> Positions \cup {NoPosition}]]

(* The variables have the values their code gives them; an item waits in a file once. *)
TypeOK ==
    SessionType /\ WatchedType /\ PlaybackType /\ {nudge, wake, failed} \subseteq BOOLEAN

(* WatchedSync.hpp: "a send can never pair one account's pending changes with another account's *)
(* credentials", wherever the account is switched while the sender works.                       *)
SessionPaired == courier.pc = "send" => courier.from = courier.holder

(* WatchedSync.hpp: a change "survives going offline or quitting the app" and "the latest choice *)
(* for an item wins": what the user chose last is on the server or waits in that account's file, *)
(* whatever is in flight, fails, is switched or is killed - unless the server refused it for     *)
(* good or a card that failed did not take it or lost it (storeTo() and loadFrom(),              *)
(* WatchedSync.cpp:93-125).                                                                      *)
LatestWins ==
    \A a \in Accounts, i \in Items :
        \/ <<a, i>> \in excused
        \/ watched[a][i] = choice[a][i]
        \/ \E k \in DOMAIN pending[a] : pending[a][k] = Entry(i, choice[a][i])

Left(a, i) ==
    /\ main \in {"ingest", "recover"} /\ session = a
    /\ result # NoEntry /\ result.by = a /\ result.item = i /\ result.final = owed[a][i]

Holds(kept, a, i) == kept[i] # NoEntry /\ kept[i].final = owed[a][i]

(* A position that was watched to and not reported is in the result file or in the journal of   *)
(* the account until it is pushed, discarded by the user or lost by a write or a read that failed. *)
PositionKept ==
    \A a \in Accounts, i \in Items :
        owed[a][i] # NoPosition => Holds(journal[a], a, i) \/ Left(a, i)

(* While an account stays signed in its watched changes are all sent in the end: no nudge that  *)
(* the sender needs is ever lost, whatever it was doing when it came.  Only a file that could   *)
(* not be read when the sender looked has to wait for the next nudge.                           *)
WatchedDrains ==
    \A a \in Accounts :
        <>[](session = a /\ main = "idle") => []<>(pending[a] = <<>> \/ courier.pc = "blind")
=============================================================================
