--------------------------- MODULE WatchedOutbox ---------------------------
(***************************************************************************)
(* WatchedSync (src/src/net/WatchedSync.cpp): "mark watched / unwatched"   *)
(* changes wait in a file of the account, and one thread sends the first   *)
(* of them, without the mutex, until the server takes it or refuses it for *)
(* good.  The latest choice for an item wins.  A change in flight is       *)
(* forgotten in the file it came from, whichever account is signed in by   *)
(* then.                                                                   *)
(***************************************************************************)
EXTENDS OutboxSession, Filtering

VARIABLES
    pending,  \* watched-pending.txt of each account
    path,     \* m_path: whose file it is
    holder,   \* m_session of WatchedSync
    courier,  \* the thread: pc, and the change in flight
    nudge,    \* m_nudge
    watched,  \* the server: what it has taken
    choice,   \* history: the last choice of the user
    excused   \* history: choices the server refused or the card lost or did not take

watchedVars == <<pending, path, holder, courier, nudge, watched, choice, excused>>

NoChange == [pc |-> "look", from |-> NoAccount, holder |-> NoAccount, item |-> "none",
             played |-> FALSE, answer |-> "none"]

WatchedInit ==
    /\ pending = [a \in Accounts |-> <<>>]
    /\ path = NoAccount /\ holder = NoAccount
    /\ courier = NoChange
    /\ nudge = FALSE
    /\ watched = [a \in Accounts |-> [i \in Items |-> FALSE]]
    /\ choice = watched
    /\ excused = {}

Entry(i, played) == [item |-> i, played |-> played]

LatestMutant(q, i, played) == Append(q, Entry(i, played))   \* beside the earlier choice

(* The changes that are not about the item keep their order. *)
Others(q, i) == Retained(q, {k \in DOMAIN q : q[k].item # i})

Latest(q, i, played) == Append(Others(q, i), Entry(i, played))

NotifiedMutant == UNCHANGED nudge   \* left to the next time-out

Notified == nudge' = TRUE

(* A card that fails: loadFrom() takes a file it cannot read for an empty one; storeTo() leaves  *)
(* the file of before, unless the card is full when the stream is closed, which nothing looks    *)
(* at: then the first of the changes are renamed over it, or none.                               *)
Readable(a)     == {pending[a], <<>>}
Storable(a, q)  == {SubSeq(q, 1, n) : n \in 0 .. Len(q)} \cup {pending[a]}

(* The changes of a list that its file has not got after all. *)
Missing(a, q) ==
    {<<a, q[k].item>> : k \in {j \in DOMAIN q : \A m \in DOMAIN pending'[a] : pending'[a][m] # q[j]}}

(* enqueue() *)
Enqueue(i, played) ==
    /\ SignedIn
    /\ used.requests < MaxRequests
    /\ choice' = [choice EXCEPT ![path][i] = played]
    /\ Notified
    /\ \/ Request /\ pending' = [pending EXCEPT ![path] = Latest(@, i, played)]
       \/ /\ used.faults < MaxFaults
          /\ used' = [used EXCEPT !.requests = @ + 1, !.faults = @ + 1]
          /\ \E q \in Readable(path) : \E kept \in Storable(path, Latest(q, i, played)) :
                pending' = [pending EXCEPT ![path] = kept]
    /\ excused' = (excused \ {<<path, i>>}) \cup Missing(path, Latest(pending[path], i, played))
    /\ UNCHANGED <<session, main, path, holder, courier, watched>>

\* The file stays the one of the first account.
ConfiguredMutant(a) == holder' = a /\ path' = (IF path = NoAccount THEN a ELSE path)

(* configure(): the file and the session change in one step. *)
Configured(a) == holder' = a /\ path' = a

(* loop() with the mutex; "blind" is the wait of a thread that could not read what waits. *)
Look ==
    /\ courier.pc = "look"
    /\ LET something == holder # NoAccount /\ pending[path] # <<>> IN
       \/ /\ ~something
          /\ nudge' = FALSE /\ courier' = [NoChange EXCEPT !.pc = "wait"]
          /\ UNCHANGED used
       \/ /\ something
          /\ courier' = [pc |-> "send", from |-> path, holder |-> holder,
                         item |-> Head(pending[path]).item,
                         played |-> Head(pending[path]).played, answer |-> "none"]
          /\ UNCHANGED <<nudge, used>>
       \/ /\ something
          /\ Fault
          /\ nudge' = FALSE /\ courier' = [NoChange EXCEPT !.pc = "blind"]
    /\ UNCHANGED <<session, main, pending, path, holder, watched, choice, excused>>

(* A nudge ends every wait, the time after which a change is tried again one of them. *)
Woken ==
    /\ courier.pc \in {"wait", "blind", "retry"}
    /\ nudge \/ courier.pc = "retry"
    /\ courier' = NoChange
    /\ UNCHANGED <<sessionVars, pending, path, holder, nudge, watched, choice, excused>>

(* The request, without the mutex: taken, refused for good, or failed with or without effect. *)
Send ==
    /\ courier.pc = "send"
    /\ LET a == courier.holder
           taken == [watched EXCEPT ![a][courier.item] = courier.played] IN
       \/ /\ watched' = taken
          /\ courier' = [courier EXCEPT !.pc = "sent", !.answer = "Done"]
          /\ UNCHANGED used
       \/ /\ Fault
          /\ courier' = [courier EXCEPT !.pc = "sent", !.answer = "Drop"]
          /\ UNCHANGED watched
       \/ /\ Fault
          /\ watched' \in {watched, taken}
          /\ courier' = [courier EXCEPT !.pc = "sent", !.answer = "Retry"]
    /\ UNCHANGED <<session, main, pending, path, holder, nudge, choice, excused>>

\* What a newer choice put there meanwhile goes with it.
ForgottenMutant(q) == Others(q, courier.item)

Forgotten(q) == Retained(q, {k \in DOMAIN q : q[k] # Entry(courier.item, courier.played)})

(* The answer, with the mutex again. *)
Answered ==
    /\ courier.pc = "sent"
    /\ \/ /\ courier.answer = "Retry"
          /\ nudge' = FALSE
          /\ courier' = [NoChange EXCEPT !.pc = "retry"]
          /\ UNCHANGED <<pending, used, excused>>
       \/ /\ courier.answer # "Retry"
          /\ courier' = NoChange
          /\ LET a == courier.from
                 waiting == pending[a] IN
             /\ \/ /\ pending' = [pending EXCEPT ![a] = Forgotten(@)]
                   /\ UNCHANGED used
                \/ /\ Fault
                   /\ \E q \in Readable(a) : \E kept \in Storable(a, Forgotten(q)) :
                         pending' = [pending EXCEPT ![a] = kept]
             /\ excused' = excused \cup
                   Missing(a, IF courier.answer = "Drop" THEN waiting ELSE Forgotten(waiting))
          /\ UNCHANGED nudge
    /\ UNCHANGED <<session, main, path, holder, watched, choice>>

CourierStep == Look \/ Woken \/ Send \/ Answered
=============================================================================
