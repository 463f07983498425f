--------------------------- MODULE OutboxesProofs ---------------------------
(***************************************************************************)
(* Proofs about Outboxes, for any accounts, items, positions and bounds.   *)
(*                                                                         *)
(* PositionKept needs what the threads hold in memory to be as good as the *)
(* file: the entries the sync will save (the mutex it holds keeps a new    *)
(* position from getting into the file meanwhile), and those a discarding  *)
(* will write.  It also needs the result file to be the last word on the   *)
(* item it is about, because a restart puts it into the journal again.     *)
(*                                                                         *)
(* LatestWins needs that a file never holds anything but the last choice   *)
(* for an item (unless the card did not take it), that a change waits      *)
(* there until its answer is in or the card has lost it, and that the file's thread is the only writer   *)
(* of what the server has.                                                 *)
(***************************************************************************)
EXTENDS Outboxes, FilteringProofs

(* The file and the session are read in one step, and change in one step. *)
PairInv ==
    /\ SessionPaired
    /\ holder \in {path, NoAccount}
    /\ "pc" \in DOMAIN courier

SyncKeeps ==
    syncer.pc \in {"fetch", "submit"} =>
        \A i \in Items : owed[syncer.a][i] # NoPosition =>
            Holds(syncer.entries, syncer.a, i) \/ Left(syncer.a, i)

DiscardKeeps ==
    main = "discard" =>
        /\ session \in Accounts
        /\ \A i \in Items : owed[session][i] # NoPosition => Holds(discarded, session, i)

ResultIsLast == result # NoEntry => owed[result.by][result.item] \in {NoPosition, result.final}

KeptInv == SessionType /\ PlaybackType /\ PositionKept /\ SyncKeeps /\ DiscardKeeps /\ ResultIsLast

LEMMA EntryOf ==
  ASSUME NEW e \in Entries
  PROVE  /\ e # NoEntry /\ e.final \in Positions
         /\ \A flag \in {"none", "conflict", "missing"} :
               /\ [e EXCEPT !.flag = flag] \in Entries
               /\ [e EXCEPT !.flag = flag].final = e.final
  BY PlaybackAssumption, SMT DEF Entries

(* For every number of accounts and items, a change is sent with the credentials of the account *)
(* whose file it was read from.                                                                 *)
THEOREM SessionAlwaysPaired == Spec => []SessionPaired
<1>1. Init => PairInv
  BY SMT DEF Init, WatchedInit, NoChange, PairInv, SessionPaired
<1>2. PairInv /\ [Next]_vars => PairInv'
  <2> SUFFICES ASSUME PairInv, [Next]_vars PROVE PairInv'
    OBVIOUS
  <2> USE DEF PairInv, SessionPaired
  <2>1. ASSUME UNCHANGED <<path, holder, courier>> PROVE PairInv'
    BY <2>1
  <2>2. ASSUME NEW i \in Items, NEW played \in BOOLEAN, Enqueue(i, played) PROVE PairInv'
    BY <2>1, <2>2 DEF Enqueue
  <2>3. CASE Look
    BY <2>3, SMT DEF Look, NoChange
  <2>4. CASE Woken
    BY <2>4, SMT DEF Woken, NoChange
  <2>5. CASE Send
    <3>1. ASSUME NEW answer, courier' = [courier EXCEPT !.pc = "sent", !.answer = answer]
          PROVE  courier'.pc = "sent" /\ DOMAIN courier' = DOMAIN courier
      BY <3>1, Zenon
    <3>2. courier'.pc = "sent" /\ DOMAIN courier' = DOMAIN courier
      BY <2>5, <3>1 DEF Send
    <3> QED
      BY <2>5, <3>2, Zenon DEF Send
  <2>6. CASE Answered
    BY <2>6, SMT DEF Answered, NoChange
  <2>7. CASE GoToHome
    BY <2>7, SMT DEF GoToHome, Configured
  <2>8. CASE Logout
    BY <2>8, SMT DEF Logout
  <2>9. CASE Crash
    BY <2>9, SMT DEF Crash, NoChange
  <2>10. ASSUME NEW a \in Accounts, SignIn(a) PROVE PairInv'
    BY <2>1, <2>10 DEF SignIn, watchedVars
  <2>11. ASSUME NEW a \in Accounts, NEW i \in Items, NEW q \in Positions, OtherDevice(a, i, q)
         PROVE PairInv'
    BY <2>1, <2>11 DEF OtherDevice, watchedVars
  <2>12. CASE SignedOut
    BY <2>1, <2>12 DEF SignedOut, watchedVars
  <2>13. CASE UNCHANGED vars
    BY <2>1, <2>13 DEF vars, watchedVars
  <2>14. CASE UNCHANGED watchedVars
    BY <2>1, <2>14 DEF watchedVars
  <2> QED
    BY <2>2, <2>3, <2>4, <2>5, <2>6, <2>7, <2>8, <2>9, <2>10, <2>11, <2>12, <2>13, <2>14
    DEF Next, Program, WatchedStep, PlaybackStep, CourierStep
<1> QED
  BY <1>1, <1>2, PTL DEF Spec, PairInv

(***************************************************************************)
(* Positions.                                                              *)
(***************************************************************************)
JournalVars == <<session, main, journal, result, syncer, discarded, position, owed>>

LEMMA Unmoved == KeptInv /\ UNCHANGED JournalVars => KeptInv'
  BY SMT DEF KeptInv, JournalVars, SessionType, PlaybackType, PositionKept, SyncKeeps, DiscardKeeps,
     ResultIsLast, Left, Holds

LEMMA At ==
  ASSUME NEW S, NEW f \in [Accounts -> [Items -> S]], NEW a \in Accounts, NEW i \in Items, NEW v \in S
  PROVE  LET g == [f EXCEPT ![a][i] = v] IN
         /\ g \in [Accounts -> [Items -> S]]
         /\ \A b \in Accounts, j \in Items : g[b][j] = IF b = a /\ j = i THEN v ELSE f[b][j]
  BY SMT

LEMMA PositionAt ==
  ASSUME PlaybackType, NEW a \in Accounts, NEW i \in Items, NEW q \in Positions
  PROVE  [position EXCEPT ![a][i] = q] \in [Accounts -> [Items -> Positions \cup {0}]]
<1> DEFINE S == Positions \cup {0}
<1>1. position \in [Accounts -> [Items -> S]] /\ q \in S
  BY DEF PlaybackType
<1> HIDE DEF S
<1>2. [position EXCEPT ![a][i] = q] \in [Accounts -> [Items -> S]]
  BY <1>1, At
<1> QED BY <1>2 DEF S

LEMMA NoSyncType == NoSync \in Syncers /\ NoSync.entries \in Journals
  BY SMT DEF NoSync, Syncers, Journals

LEMMA InitKept == Init => KeptInv
<1> SUFFICES ASSUME Init PROVE KeptInv
  OBVIOUS
<1>1. SessionType
  BY DEF Init, SessionType, Mains
<1>2. PlaybackType
  <2>1. journal \in [Accounts -> Journals] /\ discarded \in Journals
    BY SMT DEF Init, PlaybackInit, Journals
  <2>2. syncer \in Syncers /\ syncer.pc \notin Syncing /\ syncer.todo = {}
    BY NoSyncType, SMT DEF Init, PlaybackInit, NoSync, Syncing
  <2>3. /\ position \in [Accounts -> [Items -> Positions \cup {0}]]
        /\ owed \in [Accounts -> [Items -> Positions \cup {NoPosition}]]
    BY SMT DEF Init, PlaybackInit
  <2> QED
    BY <2>1, <2>2, <2>3, SMT DEF Init, PlaybackInit, PlaybackType
<1>3. PositionKept /\ SyncKeeps /\ DiscardKeeps /\ ResultIsLast
  BY SMT DEF Init, PlaybackInit, NoSync, PositionKept, SyncKeeps, DiscardKeeps, ResultIsLast
<1> QED
  BY <1>1, <1>2, <1>3 DEF KeptInv

LEMMA PlayKept ==
  ASSUME KeptInv, NEW i \in Items, NEW q \in Positions, Play(i, q)
  PROVE  KeptInv'
<1>1. session \in Accounts /\ main = "idle" /\ main' = "ingest"
  BY DEF Play, SignedIn, KeptInv, SessionType
<1>2. UNCHANGED <<session, journal, syncer, wake, failed, discarded>>
  BY DEF Play
<1>3. \/ result' = NoEntry /\ UNCHANGED owed
      \/ /\ \E b \in Positions \cup {0} : result' = [item |-> i, base |-> b, final |-> q, by |-> session]
         /\ owed' = [owed EXCEPT ![session][i] = q]
  BY <1>1, SMT DEF Play, KeptInv, PlaybackType
<1>4. position' \in [Accounts -> [Items -> Positions \cup {0}]]
  <2>1. position' = position \/ position' = [position EXCEPT ![session][i] = q]
    BY DEF Play
  <2>2. PlaybackType
    BY DEF KeptInv
  <2>3. [position EXCEPT ![session][i] = q] \in [Accounts -> [Items -> Positions \cup {0}]]
    BY <1>1, <2>2, PositionAt
  <2> QED
    BY <2>1, <2>2, <2>3 DEF PlaybackType
<1>5. /\ result' \in Results \cup {NoEntry}
      /\ owed' \in [Accounts -> [Items -> Positions \cup {NoPosition}]]
      /\ \A b \in Accounts, j \in Items :
            owed'[b][j] # NoPosition =>
              \/ owed'[b][j] = owed[b][j]
              \/ Left(b, j)'
      /\ ResultIsLast'
  <2>1. CASE result' = NoEntry /\ UNCHANGED owed
    BY <2>1, SMT DEF KeptInv, PlaybackType, ResultIsLast
  <2>2. CASE /\ \E b \in Positions \cup {0} : result' = [item |-> i, base |-> b, final |-> q, by |-> session]
             /\ owed' = [owed EXCEPT ![session][i] = q]
    <3>1. /\ owed' \in [Accounts -> [Items -> Positions \cup {NoPosition}]]
          /\ \A b \in Accounts, j \in Items :
                owed'[b][j] = IF b = session /\ j = i THEN q ELSE owed[b][j]
      BY <1>1, <2>2, At DEF KeptInv, PlaybackType
    <3>2. /\ result' \in Results /\ result' # NoEntry
          /\ result'.item = i /\ result'.final = q /\ result'.by = session
      BY <1>1, <2>2, PlaybackAssumption, SMT DEF Results
    <3> QED
      BY <1>1, <1>2, <3>1, <3>2, SMT DEF Left, ResultIsLast
  <2> QED
    BY <1>3, <2>1, <2>2
<1>6. ~\E b \in Accounts, j \in Items : Left(b, j)
  BY <1>1 DEF Left
<1>7. SessionType' /\ PlaybackType'
  BY <1>1, <1>2, <1>4, <1>5, SMT DEF KeptInv, SessionType, Mains, PlaybackType
<1>8. PositionKept' /\ SyncKeeps'
  BY <1>2, <1>5, <1>6, SMT DEF KeptInv, PositionKept, SyncKeeps, Holds, PlaybackType, Syncing
<1> QED
  BY <1>1, <1>5, <1>7, <1>8 DEF KeptInv, DiscardKeeps

(* After the sync has given the mutex back the file may be written: the sync holds no entries. *)
LEMMA IngestKept ==
  ASSUME KeptInv, Ingest
  PROVE  KeptInv'
<1>1. /\ main \in {"ingest", "recover"} /\ main' \in {"idle", "start"}
      /\ syncer.pc \notin {"fetch", "submit"}
      /\ UNCHANGED <<session, syncer, discarded, position>>
      /\ result' \in {result, NoEntry}
  BY DEF Ingest, MutexFree
<1>2. CASE session = NoAccount \/ result = NoEntry
  <2>1. UNCHANGED <<journal, owed>>
    BY <1>2, Zenon DEF Ingest
  <2>2. \A b \in Accounts, j \in Items : ~Left(b, j)
    BY <1>2, OutboxAssumption DEF Left
  <2> QED
    BY <1>1, <2>1, <2>2, SMT DEF KeptInv, SessionType, Mains, PlaybackType, PositionKept, SyncKeeps,
       DiscardKeeps, ResultIsLast, Holds
<1>3. CASE session # NoAccount /\ result # NoEntry
  <2>1. /\ session \in Accounts /\ result \in Results
        /\ result.item \in Items /\ result.by \in Accounts /\ result.final \in Positions
    BY <1>3, SMT DEF KeptInv, SessionType, PlaybackType, Results
  <2>2. /\ AsEntry(result) \in Entries /\ AsEntry(result) # NoEntry
        /\ AsEntry(result).final = result.final
    BY <2>1, PlaybackAssumption, SMT DEF AsEntry, Results, Entries
  <2> DEFINE unowed == [owed EXCEPT ![session][result.item] = NoPosition]
             upserted(kept) == [kept EXCEPT ![result.item] = AsEntry(result)]
             theirs == [i \in Items |-> IF i = result.item /\ result.by = session
                                       THEN owed[session][i] ELSE NoPosition]
  <2>3. \/ /\ journal' = [journal EXCEPT ![session] = upserted(journal[session])]
           /\ owed' = IF result.by = session THEN owed ELSE unowed
        \/ /\ journal' = [journal EXCEPT ![session] = upserted(NoSync.entries)]
           /\ owed' = [owed EXCEPT ![session] = theirs]
        \/ /\ UNCHANGED journal
           /\ owed' = IF result.by = session THEN unowed ELSE owed
    BY <1>3, Zenon DEF Ingest, Upsert
  <2>4. /\ unowed \in [Accounts -> [Items -> Positions \cup {NoPosition}]]
        /\ \A b \in Accounts, j \in Items :
              unowed[b][j] = IF b = session /\ j = result.item THEN NoPosition ELSE owed[b][j]
    BY <2>1, At, NoPosition \in Positions \cup {NoPosition} DEF KeptInv, PlaybackType
  <2>10. LET lost == [owed EXCEPT ![session] = theirs] IN
         /\ lost \in [Accounts -> [Items -> Positions \cup {NoPosition}]]
         /\ \A b \in Accounts, j \in Items :
              lost[b][j] = IF b # session \/ (j = result.item /\ result.by = session) THEN owed[b][j]
                           ELSE NoPosition
    BY <2>1, SMT DEF KeptInv, PlaybackType
  <2>5. ASSUME NEW kept \in Journals
        PROVE  LET next == [journal EXCEPT ![session] = upserted(kept)] IN
               /\ next \in [Accounts -> Journals]
               /\ next[session][result.item] = AsEntry(result)
               /\ \A b \in Accounts, j \in Items :
                     b # session \/ (j # result.item /\ kept = journal[session]) => next[b][j] = journal[b][j]
    <3>1. upserted(kept) \in Journals /\ \A j \in Items :
             upserted(kept)[j] = IF j = result.item THEN AsEntry(result) ELSE kept[j]
      BY <2>1, <2>2 DEF Journals
    <3>2. journal \in [Accounts -> Journals]
      BY DEF KeptInv, PlaybackType
    <3> HIDE DEF upserted
    <3> QED BY <2>1, <3>1, <3>2
  <2>11. journal[session] \in Journals /\ NoSync.entries \in Journals
    BY <2>1, NoSyncType DEF KeptInv, PlaybackType
  <2> HIDE DEF unowed, upserted, theirs
  <2>6. SessionType' /\ PlaybackType'
    <3>1. journal' \in [Accounts -> Journals]
      BY <2>3, <2>5, <2>11 DEF KeptInv, PlaybackType
    <3>2. owed' \in [Accounts -> [Items -> Positions \cup {NoPosition}]]
      BY <2>3, <2>4, <2>10 DEF KeptInv, PlaybackType
    <3> QED BY <1>1, <3>1, <3>2, SMT DEF KeptInv, SessionType, Mains, PlaybackType
  <2>7. \A b \in Accounts, j \in Items :
           owed'[b][j] \in {owed[b][j], NoPosition}
    BY <2>3, <2>4, <2>10
  <2>8. ResultIsLast'
    BY <1>1, <2>1, <2>7 DEF KeptInv, ResultIsLast
  <2>9. ASSUME NEW b \in Accounts, NEW j \in Items, owed'[b][j] # NoPosition
        PROVE  Holds(journal[b], b, j)'
    <3>1. owed'[b][j] = owed[b][j]
      BY <2>7, <2>9
    <3>2. Holds(journal[b], b, j) \/ Left(b, j)
      BY <2>9, <3>1 DEF KeptInv, PositionKept
    <3>3. CASE b = session /\ j = result.item /\ result.by = session
      <4>1. \E kept \in Journals : journal' = [journal EXCEPT ![session] = upserted(kept)]
        BY <2>3, <2>4, <2>9, <2>11, <3>3
      <4>2. owed[b][j] = result.final
        BY <1>3, <2>9, <3>1, <3>3 DEF KeptInv, ResultIsLast
      <4>3. journal'[b][j] = AsEntry(result)
        BY <2>5, <3>3, <4>1
      <4> QED BY <2>2, <3>1, <4>2, <4>3 DEF Holds
    <3>5. CASE b = session /\ j = result.item /\ result.by # session
      <4>1. journal' = journal
        BY <2>3, <2>4, <2>9, <2>10, <3>5
      <4> QED BY <3>1, <3>2, <3>5, <4>1 DEF Holds, Left
    <3>4. CASE ~(b = session /\ j = result.item)
      <4>1. journal'[b][j] = journal[b][j]
        <5>1. CASE b # session
          BY <2>3, <2>5, <2>11, <5>1
        <5>2. CASE j # result.item /\ b = session
          <6>1. \/ journal' = [journal EXCEPT ![session] = upserted(journal[session])]
                \/ journal' = journal
            BY <2>3, <2>9, <2>10, <5>2
          <6> QED BY <2>5, <2>11, <5>2, <6>1
        <5> QED BY <3>4, <5>1, <5>2
      <4> QED BY <3>1, <3>2, <3>4, <4>1 DEF Holds, Left
    <3> QED BY <3>3, <3>4, <3>5
  <2> QED
    BY <1>1, <2>6, <2>8, <2>9 DEF KeptInv, PositionKept, SyncKeeps, DiscardKeeps
<1> QED
  BY <1>2, <1>3

LEMMA SyncerFields ==
  ASSUME NEW x \in Syncers
  PROVE  /\ x.pc \in Syncing \cup {"wait", "backoff", "begin"} /\ x.a \in Accounts \cup {NoAccount}
         /\ x.entries \in Journals /\ x.todo \in SUBSET Items
         /\ x.changed \in BOOLEAN /\ x.retry \in BOOLEAN
  BY Zenon DEF Syncers

(* The changes of the sync's memory that its steps make. *)
Loaded(x, kept, todo) ==
  [x EXCEPT !.pc = "fetch", !.entries = kept, !.todo = todo]
Flagged(x, kept, todo) ==
  [x EXCEPT !.entries = kept, !.changed = TRUE, !.todo = todo]
Pushed(x, kept, todo) ==
  [x EXCEPT !.entries = kept, !.changed = TRUE, !.todo = todo, !.pc = "fetch"]
Skipped(x, todo) ==
  [x EXCEPT !.retry = TRUE, !.todo = todo]
Failed(x, todo) ==
  [x EXCEPT !.retry = TRUE, !.todo = todo, !.pc = "fetch"]
Fetched(x, todo) ==
  [x EXCEPT !.pc = "submit", !.todo = todo]

LEMMA SyncLoaded ==
  ASSUME NEW x \in Syncers, NEW kept \in Journals, NEW todo \in SUBSET Items
  PROVE  LET y == Loaded(x, kept, todo) IN
         y \in Syncers /\ y.pc = "fetch" /\ y.a = x.a /\ y.entries = kept /\ y.todo = todo
  BY TRUE \in BOOLEAN, {"fetch", "submit"} \subseteq Syncing, Zenon DEF Syncers, Syncing, Loaded

LEMMA SyncFlagged ==
  ASSUME NEW x \in Syncers, NEW kept \in Journals, NEW todo \in SUBSET Items
  PROVE  LET y == Flagged(x, kept, todo) IN
         y \in Syncers /\ y.pc = x.pc /\ y.a = x.a /\ y.entries = kept /\ y.todo = todo
  BY TRUE \in BOOLEAN, {"fetch", "submit"} \subseteq Syncing, Zenon DEF Syncers, Syncing, Flagged

LEMMA SyncPushed ==
  ASSUME NEW x \in Syncers, NEW kept \in Journals, NEW todo \in SUBSET Items
  PROVE  LET y == Pushed(x, kept, todo) IN
         y \in Syncers /\ y.pc = "fetch" /\ y.a = x.a /\ y.entries = kept /\ y.todo = todo
  BY TRUE \in BOOLEAN, {"fetch", "submit"} \subseteq Syncing, Zenon DEF Syncers, Syncing, Pushed

LEMMA SyncSkipped ==
  ASSUME NEW x \in Syncers, NEW todo \in SUBSET Items
  PROVE  LET y == Skipped(x, todo) IN
         y \in Syncers /\ y.pc = x.pc /\ y.a = x.a /\ y.entries = x.entries /\ y.todo = todo
  BY TRUE \in BOOLEAN, {"fetch", "submit"} \subseteq Syncing, Zenon DEF Syncers, Syncing, Skipped

LEMMA SyncFailed ==
  ASSUME NEW x \in Syncers, NEW todo \in SUBSET Items
  PROVE  LET y == Failed(x, todo) IN
         y \in Syncers /\ y.pc = "fetch" /\ y.a = x.a /\ y.entries = x.entries /\ y.todo = todo
  BY TRUE \in BOOLEAN, {"fetch", "submit"} \subseteq Syncing, Zenon DEF Syncers, Syncing, Failed

LEMMA SyncFetched ==
  ASSUME NEW x \in Syncers, NEW todo \in SUBSET Items
  PROVE  LET y == Fetched(x, todo) IN
         y \in Syncers /\ y.pc = "submit" /\ y.a = x.a /\ y.entries = x.entries /\ y.todo = todo
  BY TRUE \in BOOLEAN, {"fetch", "submit"} \subseteq Syncing, Zenon DEF Syncers, Syncing, Fetched

(* A step of the sync thread that holds no entries, before and after. *)
LEMMA SyncIdleKept ==
  ASSUME KeptInv, UNCHANGED <<session, main, journal, result, discarded, position, owed>>,
         syncer' \in Syncers, syncer'.pc \notin {"fetch", "submit"},
         \A j \in syncer'.todo : syncer'.entries[j] # NoEntry,
         syncer'.pc \in Syncing => syncer'.a \in Accounts
  PROVE  KeptInv'
<1>1. SessionType' /\ PlaybackType'
  BY SMT DEF KeptInv, SessionType, PlaybackType
<1>2. PositionKept' /\ DiscardKeeps' /\ ResultIsLast'
  BY SMT DEF KeptInv, PositionKept, DiscardKeeps, ResultIsLast, Holds, Left
<1> QED
  BY <1>1, <1>2 DEF KeptInv, SyncKeeps

LEMMA SyncLoadKept ==
  ASSUME KeptInv, SyncLoad
  PROVE  KeptInv'
<1>1. /\ syncer \in Syncers /\ syncer.a \in Accounts /\ journal[syncer.a] \in Journals
  BY SMT DEF SyncLoad, KeptInv, PlaybackType, Syncing
<1> DEFINE kept == journal[syncer.a]
<1>0. /\ UNCHANGED <<session, main, journal, result, discarded, position, owed>>
      /\ \/ syncer' = [syncer EXCEPT !.pc = "fetch", !.entries = kept,
                                    !.todo = {i \in Items : Waiting(kept[i])}]
         \/ syncer' = NoSync
  BY Zenon DEF SyncLoad
<1>7. CASE syncer' = NoSync
  <2>1. syncer'.pc \notin Syncing /\ syncer'.todo = {}
    BY <1>7, SMT DEF NoSync, Syncing
  <2> QED BY <1>0, <1>7, <2>1, NoSyncType, SyncIdleKept DEF Syncing
<1>2. SUFFICES ASSUME /\ syncer' = [syncer EXCEPT !.pc = "fetch", !.entries = kept,
                                                  !.todo = {i \in Items : Waiting(kept[i])}]
                      /\ UNCHANGED <<session, main, journal, result, discarded, position, owed>>
               PROVE  KeptInv'
  BY <1>0, <1>7
<1>3. /\ syncer' \in Syncers /\ syncer'.pc = "fetch" /\ syncer'.a = syncer.a /\ syncer'.entries = kept
      /\ \A i \in syncer'.todo : i \in Items /\ kept[i] # NoEntry
  <2> DEFINE todo == {i \in Items : Waiting(kept[i])}
  <2>1. todo \in SUBSET Items /\ kept \in Journals /\ \A i \in todo : kept[i] # NoEntry
    BY <1>1 DEF Waiting
  <2> HIDE DEF todo, kept
  <2>2. syncer' = Loaded(syncer, kept, todo)
    BY <1>2 DEF todo, kept, Loaded
  <2>3. /\ syncer' \in Syncers /\ syncer'.pc = "fetch" /\ syncer'.a = syncer.a
        /\ syncer'.entries = kept /\ syncer'.todo = todo
    BY <1>1, <2>1, <2>2, SyncLoaded
  <2> QED
    BY <2>1, <2>3
<1>4. SessionType' /\ PlaybackType'
  BY <1>1, <1>2, <1>3, SMT DEF KeptInv, SessionType, PlaybackType
<1>5. SyncKeeps'
  BY <1>1, <1>2, <1>3, SMT DEF KeptInv, PositionKept, SyncKeeps, Holds, Left
<1>6. PositionKept' /\ DiscardKeeps' /\ ResultIsLast'
  BY <1>2, SMT DEF KeptInv, PositionKept, DiscardKeeps, ResultIsLast, Holds, Left
<1> QED
  BY <1>4, <1>5, <1>6 DEF KeptInv

(* What the sync makes of the entries it holds: none that is owed goes. *)
LEMMA SyncHoldsKept ==
  ASSUME KeptInv, syncer.pc \in {"fetch", "submit"},
         UNCHANGED <<session, main, journal, result, discarded>>,
         position' \in [Accounts -> [Items -> Positions \cup {0}]],
         owed' \in [Accounts -> [Items -> Positions \cup {NoPosition}]],
         \A b \in Accounts, j \in Items : owed'[b][j] # NoPosition => owed'[b][j] = owed[b][j],
         syncer' \in Syncers, syncer'.pc \in {"fetch", "submit"}, syncer'.a = syncer.a,
         \A j \in syncer'.todo : syncer'.entries[j] # NoEntry,
         \A j \in Items : owed'[syncer.a][j] # NoPosition =>
             \/ syncer'.entries[j] # NoEntry /\ syncer.entries[j] # NoEntry
                /\ syncer'.entries[j].final = syncer.entries[j].final
             \/ syncer.entries[j] # NoEntry /\ syncer.entries[j].final # owed[syncer.a][j]
             \/ syncer'.entries[j] = syncer.entries[j]
  PROVE  KeptInv'
<1>1. syncer.a \in Accounts
  BY SMT DEF KeptInv, PlaybackType, Syncing
<1>2. SessionType' /\ PlaybackType'
  BY <1>1, SMT DEF KeptInv, SessionType, PlaybackType
<1>3. PositionKept'
  BY SMT DEF KeptInv, PositionKept, Holds, Left
<1>4. DiscardKeeps'
  BY SMT DEF KeptInv, DiscardKeeps, Holds
<1>5. ResultIsLast'
  BY SMT DEF KeptInv, PlaybackType, Results, ResultIsLast
<1>6. SyncKeeps'
  BY <1>1, SMT DEF KeptInv, SyncKeeps, Holds, Left
<1> QED
  BY <1>2, <1>3, <1>4, <1>5, <1>6 DEF KeptInv

LEMMA FetchKept ==
  ASSUME KeptInv, NEW i \in Items, FetchPosition(i)
  PROVE  KeptInv'
<1> DEFINE e == syncer.entries[i]
<1>1. /\ syncer \in Syncers /\ syncer.pc = "fetch" /\ i \in syncer.todo /\ e \in Entries
      /\ syncer.entries \in Journals /\ syncer.todo \in SUBSET Items
      /\ \A j \in syncer.todo : syncer.entries[j] # NoEntry
  BY SMT DEF FetchPosition, KeptInv, PlaybackType, Syncers, Journals
<1>2. /\ UNCHANGED <<session, main, journal, result, discarded, position, owed>>
      /\ \/ \E flag \in {"missing", "conflict"} :
               syncer' = [syncer EXCEPT !.entries[i].flag = flag, !.changed = TRUE, !.todo = @ \ {i}]
         \/ syncer' = [syncer EXCEPT !.retry = TRUE, !.todo = @ \ {i}]
         \/ syncer' = [syncer EXCEPT !.pc = "submit", !.todo = @ \cup {i}]
  BY SMT DEF FetchPosition
<1> DEFINE Good(y) ==
      /\ y \in Syncers /\ y.a = syncer.a /\ y.pc \in {"fetch", "submit"}
      /\ \A j \in y.todo : y.entries[j] # NoEntry
      /\ \A j \in Items : (y.entries[j] = NoEntry) = (syncer.entries[j] = NoEntry)
      /\ \A j \in Items : syncer.entries[j] # NoEntry => y.entries[j].final = syncer.entries[j].final
<1>3. Good(syncer')
  <2>1. ASSUME NEW flag \in {"missing", "conflict"},
               syncer' = [syncer EXCEPT !.entries[i].flag = flag, !.changed = TRUE, !.todo = @ \ {i}]
        PROVE  Good(syncer')
    <3>1. [e EXCEPT !.flag = flag] \in Entries /\ [e EXCEPT !.flag = flag] # NoEntry
          /\ [e EXCEPT !.flag = flag].final = e.final
      BY <1>1, EntryOf
    <3> DEFINE kept == [syncer.entries EXCEPT ![i] = [e EXCEPT !.flag = flag]]
    <3>2. kept \in Journals /\ \A j \in Items : kept[j] = IF j = i THEN [e EXCEPT !.flag = flag]
                                                                     ELSE syncer.entries[j]
      BY <1>1, <3>1, SMT DEF Journals
    <3>3. syncer' = Flagged(syncer, kept, syncer.todo \ {i})
      BY <2>1 DEF Flagged
    <3> HIDE DEF kept
    <3>5. syncer.todo \ {i} \in SUBSET Items
      BY <1>1
    <3>4. /\ syncer' \in Syncers /\ syncer'.a = syncer.a /\ syncer'.pc = syncer.pc
          /\ syncer'.todo = syncer.todo \ {i} /\ syncer'.entries = kept
      BY <1>1, <3>2, <3>3, <3>5, SyncFlagged
    <3> QED
      BY <1>1, <3>1, <3>2, <3>4
  <2>2. CASE syncer' = [syncer EXCEPT !.retry = TRUE, !.todo = @ \ {i}]
    <3>1. /\ syncer' \in Syncers /\ syncer'.a = syncer.a /\ syncer'.pc = syncer.pc
          /\ syncer'.todo = syncer.todo \ {i} /\ syncer'.entries = syncer.entries
      <4>1. syncer.todo \ {i} \in SUBSET Items /\ syncer' = Skipped(syncer, syncer.todo \ {i})
        BY <1>1, <2>2 DEF Skipped
      <4> QED BY <1>1, <4>1, SyncSkipped
    <3> QED BY <1>1, <3>1
  <2>3. CASE syncer' = [syncer EXCEPT !.pc = "submit", !.todo = @ \cup {i}]
    <3>1. /\ syncer' \in Syncers /\ syncer'.a = syncer.a /\ syncer'.pc = "submit"
          /\ syncer'.todo = syncer.todo \cup {i} /\ syncer'.entries = syncer.entries
      <4>1. syncer.todo \cup {i} \in SUBSET Items /\ syncer' = Fetched(syncer, syncer.todo \cup {i})
        BY <1>1, <2>3 DEF Fetched
      <4> QED BY <1>1, <4>1, SyncFetched
    <3> QED BY <1>1, <3>1
  <2> QED
    BY <1>2, <2>1, <2>2, <2>3
<1> QED
  BY <1>1, <1>2, <1>3, SyncHoldsKept, Zenon DEF KeptInv, PlaybackType

LEMMA SubmitKept ==
  ASSUME KeptInv, NEW i \in Items, Submit(i)
  PROVE  KeptInv'
<1> DEFINE a == syncer.a  e == syncer.entries[i]
<1>1. /\ syncer \in Syncers /\ syncer.pc = "submit" /\ i \in syncer.todo /\ e \in Entries
      /\ syncer.entries \in Journals /\ syncer.todo \in SUBSET Items
      /\ a \in Accounts
      /\ \A j \in syncer.todo : syncer.entries[j] # NoEntry
  BY SMT DEF Submit, KeptInv, PlaybackType, Syncers, Syncing, Journals
<1>2. UNCHANGED <<session, main, journal, result, discarded>>
  BY DEF Submit
<1>5. syncer.todo \ {i} \in SUBSET Items
  BY <1>1
<1>3. CASE /\ syncer' = [syncer EXCEPT !.entries[i] = NoEntry, !.changed = TRUE, !.todo = @ \ {i}, !.pc = "fetch"]
           /\ position' = [position EXCEPT ![a][i] = e.final]
           /\ owed' = [owed EXCEPT ![a][i] = IF @ = e.final THEN NoPosition ELSE @]
  <2> DEFINE kept == [syncer.entries EXCEPT ![i] = NoEntry]
             left == IF owed[a][i] = e.final THEN NoPosition ELSE owed[a][i]
  <2>1. /\ kept \in Journals
        /\ \A j \in Items : kept[j] = IF j = i THEN NoEntry ELSE syncer.entries[j]
    BY <1>1, SMT DEF Journals
  <2>2. syncer' = Pushed(syncer, kept, syncer.todo \ {i})
    BY <1>3 DEF Pushed
  <2>3. owed' = [owed EXCEPT ![a][i] = left]
    BY <1>3
  <2>4. left \in Positions \cup {NoPosition} /\ left \in {NoPosition, owed[a][i]}
        /\ (left # NoPosition => owed[a][i] # e.final)
    BY <1>1 DEF KeptInv, PlaybackType
  <2> HIDE DEF kept, left
  <2>5. /\ syncer' \in Syncers /\ syncer'.a = a /\ syncer'.pc = "fetch"
        /\ syncer'.todo = syncer.todo \ {i} /\ syncer'.entries = kept
    BY <1>1, <1>5, <2>1, <2>2, SyncPushed
  <2>6. position' \in [Accounts -> [Items -> Positions \cup {0}]]
    BY <1>1, <1>3, EntryOf, PositionAt DEF KeptInv
  <2>7. /\ owed' \in [Accounts -> [Items -> Positions \cup {NoPosition}]]
        /\ \A b \in Accounts, j \in Items :
              owed'[b][j] = IF b = a /\ j = i THEN left ELSE owed[b][j]
    BY <1>1, <2>3, <2>4, At DEF KeptInv, PlaybackType
  <2>8. \A j \in syncer'.todo : syncer'.entries[j] # NoEntry
    BY <1>1, <2>1, <2>5
  <2>9. \A b \in Accounts, j \in Items : owed'[b][j] # NoPosition => owed'[b][j] = owed[b][j]
    BY <2>4, <2>7
  <2>10. \A j \in Items : owed'[a][j] # NoPosition =>
             \/ j = i /\ syncer.entries[j] # NoEntry /\ syncer.entries[j].final # owed[a][j]
             \/ syncer'.entries[j] = syncer.entries[j]
    BY <1>1, <2>1, <2>4, <2>5, <2>7
  <2> QED
    BY <1>1, <1>2, <2>5, <2>6, <2>7, <2>8, <2>9, <2>10, SyncHoldsKept
<1>4. CASE /\ syncer' = [syncer EXCEPT !.retry = TRUE, !.todo = @ \ {i}, !.pc = "fetch"]
           /\ UNCHANGED <<position, owed>>
  <2>1. /\ syncer' \in Syncers /\ syncer'.a = syncer.a /\ syncer'.pc = "fetch"
        /\ syncer'.todo = syncer.todo \ {i} /\ syncer'.entries = syncer.entries
    <3>1. syncer' = Failed(syncer, syncer.todo \ {i})
      BY <1>4 DEF Failed
    <3> QED BY <1>1, <1>5, <3>1, SyncFailed
  <2> QED
    BY <1>1, <1>2, <1>4, <2>1, SyncHoldsKept, Zenon DEF KeptInv, PlaybackType
<1> QED
  BY <1>3, <1>4 DEF Submit

LEMMA SyncEndKept ==
  ASSUME KeptInv, SyncEnd
  PROVE  KeptInv'
<1>1. /\ syncer.pc = "fetch" /\ syncer.a \in Accounts /\ syncer.entries \in Journals
      /\ journal \in [Accounts -> Journals]
  BY SyncerFields, SMT DEF SyncEnd, KeptInv, PlaybackType, Syncing
<1>2. /\ UNCHANGED <<session, main, result, discarded, position, owed>>
      /\ syncer' = NoSync
      /\ journal' \in {journal, [journal EXCEPT ![syncer.a] = syncer.entries]}
  BY DEF SyncEnd
<1>3. /\ journal' \in [Accounts -> Journals]
      /\ \A b \in Accounts : journal'[b] = journal[b] \/ (b = syncer.a /\ journal'[b] = syncer.entries)
  BY <1>1, <1>2, SMT
<1>4. SessionType' /\ PlaybackType' /\ SyncKeeps'
  <2>1. syncer'.pc = "wait" /\ syncer'.todo = {} /\ syncer' \in Syncers
    BY <1>2, NoSyncType, SMT DEF NoSync
  <2> QED
    BY <1>2, <1>3, <2>1, SMT DEF KeptInv, SessionType, PlaybackType, SyncKeeps, Syncing
<1>5. PositionKept'
  <2> SUFFICES ASSUME NEW b \in Accounts, NEW j \in Items, owed[b][j] # NoPosition
               PROVE  (Holds(journal[b], b, j) \/ Left(b, j))'
    BY <1>2 DEF PositionKept
  <2>1. CASE journal'[b] = journal[b]
    BY <1>2, <2>1 DEF KeptInv, PositionKept, Holds, Left
  <2>2. CASE b = syncer.a /\ journal'[b] = syncer.entries
    BY <1>1, <1>2, <2>2 DEF KeptInv, SyncKeeps, Holds, Left
  <2> QED
    BY <1>3, <2>1, <2>2
<1>6. DiscardKeeps' /\ ResultIsLast'
  BY <1>2 DEF KeptInv, DiscardKeeps, ResultIsLast, Holds
<1> QED
  BY <1>4, <1>5, <1>6 DEF KeptInv

(* The steps of the thread that only wait. *)
LEMMA SyncWaitsKept ==
  ASSUME KeptInv, Nudged \/ Rested \/ SyncBegin
  PROVE  KeptInv'
<1> DEFINE Resumed(pc) == [syncer EXCEPT !.pc = pc]
<1>1. syncer \in Syncers /\ \A j \in syncer.todo : syncer.entries[j] # NoEntry
  BY DEF KeptInv, PlaybackType
<1>2. ASSUME NEW pc \in {"begin", "backoff"}
      PROVE  /\ Resumed(pc) \in Syncers /\ Resumed(pc).pc = pc
             /\ Resumed(pc).todo = syncer.todo /\ Resumed(pc).entries = syncer.entries
  BY <1>1, Zenon DEF Syncers
<1>3. UNCHANGED <<session, main, journal, result, discarded, position, owed>>
  BY DEF Nudged, Rested, SyncBegin, sessionVars
<1>4. CASE Nudged \/ Rested
  <2>1. PICK pc \in {"begin", "backoff"} : syncer' = Resumed(pc)
    BY <1>4 DEF Nudged, Rested
  <2>2. /\ syncer' \in Syncers /\ syncer'.pc = pc
        /\ syncer'.todo = syncer.todo /\ syncer'.entries = syncer.entries
    BY <1>2, <2>1
  <2> QED
    BY <1>1, <1>3, <2>2, SyncIdleKept DEF Syncing
<1>5. CASE SyncBegin
  <2>1. CASE syncer' = NoSync
    <3>1. NoSync.pc = "wait" /\ NoSync.todo = {}
      BY DEF NoSync
    <3> QED
      BY <1>3, <2>1, <3>1, NoSyncType, SyncIdleKept DEF Syncing
  <2>2. CASE session # NoAccount /\ syncer' = [NoSync EXCEPT !.pc = "load", !.a = session]
    <3>1. session \in Accounts
      BY <2>2 DEF KeptInv, SessionType
    <3>2. ASSUME NEW x \in Syncers, NEW a \in Accounts
          PROVE  LET y == [x EXCEPT !.pc = "load", !.a = a] IN
                 y \in Syncers /\ y.pc = "load" /\ y.a = a /\ y.todo = x.todo
      BY "load" \in Syncing, Zenon DEF Syncers, Syncing
    <3>3. /\ syncer' \in Syncers /\ syncer'.pc = "load" /\ syncer'.a \in Accounts /\ syncer'.todo = {}
      <4>1. NoSync.todo = {}
        BY DEF NoSync
      <4> QED BY <2>2, <3>1, <3>2, <4>1, NoSyncType
    <3> QED
      BY <1>3, <3>3, SyncIdleKept
  <2> QED
    BY <1>5, <2>1, <2>2 DEF SyncBegin
<1> QED
  BY <1>4, <1>5

LEMMA DiscardReadKept ==
  ASSUME KeptInv, NEW i \in Items, DiscardRead(i)
  PROVE  KeptInv'
<1>1. /\ session \in Accounts /\ main = "idle" /\ main' = "discard"
      /\ UNCHANGED <<session, journal, result, syncer, position>>
      /\ owed' = [owed EXCEPT ![session][i] = NoPosition]
      /\ discarded' = [journal[session] EXCEPT ![i] = NoEntry]
  BY DEF DiscardRead, SignedIn, KeptInv, SessionType
<1>2. /\ owed' \in [Accounts -> [Items -> Positions \cup {NoPosition}]]
      /\ \A b \in Accounts, j \in Items :
            owed'[b][j] = IF b = session /\ j = i THEN NoPosition ELSE owed[b][j]
  BY <1>1, At, NoPosition \in Positions \cup {NoPosition} DEF KeptInv, PlaybackType
<1>3. /\ discarded' \in Journals
      /\ \A j \in Items : discarded'[j] = IF j = i THEN NoEntry ELSE journal[session][j]
  <2>1. journal[session] \in Journals
    BY <1>1 DEF KeptInv, PlaybackType
  <2> QED
    BY <1>1, <2>1, SMT DEF Journals
<1>4. \A b \in Accounts, j \in Items : ~Left(b, j)
  BY <1>1 DEF Left
<1>5. SessionType' /\ PlaybackType'
  BY <1>1, <1>2, <1>3 DEF KeptInv, SessionType, Mains, PlaybackType
<1>6. PositionKept' /\ SyncKeeps'
  BY <1>1, <1>2, <1>4 DEF KeptInv, PositionKept, SyncKeeps, Holds, PlaybackType, Syncing
<1>7. DiscardKeeps'
  BY <1>1, <1>2, <1>3, <1>4 DEF KeptInv, PositionKept, DiscardKeeps, Holds
<1>8. ResultIsLast'
  <2>1. result # NoEntry => result.by \in Accounts /\ result.item \in Items
    BY SMT DEF KeptInv, PlaybackType, Results
  <2> QED
    BY <1>1, <1>2, <2>1 DEF KeptInv, ResultIsLast
<1> QED
  BY <1>5, <1>6, <1>7, <1>8 DEF KeptInv

LEMMA DiscardWriteKept ==
  ASSUME KeptInv, DiscardWrite
  PROVE  KeptInv'
<1>1. /\ session \in Accounts /\ main = "discard" /\ main' = "idle"
      /\ UNCHANGED <<session, result, syncer, position, owed>>
      /\ journal' \in {journal, [journal EXCEPT ![session] = discarded]}
      /\ discarded' = NoSync.entries
  BY DEF DiscardWrite, KeptInv, DiscardKeeps
<1>2. /\ journal' \in [Accounts -> Journals]
      /\ \A b \in Accounts : journal'[b] = journal[b] \/ (b = session /\ journal'[b] = discarded)
  BY <1>1, SMT DEF KeptInv, PlaybackType
<1>3. \A b \in Accounts, j \in Items : ~Left(b, j)
  BY <1>1 DEF Left
<1>4. SessionType' /\ PlaybackType'
  BY <1>1, <1>2, NoSyncType DEF KeptInv, SessionType, Mains, PlaybackType
<1>5. PositionKept'
  BY <1>1, <1>2, <1>3 DEF KeptInv, PositionKept, DiscardKeeps, Holds
<1>6. SyncKeeps' /\ DiscardKeeps' /\ ResultIsLast'
  BY <1>1, <1>3 DEF KeptInv, SyncKeeps, DiscardKeeps, ResultIsLast, Holds, PlaybackType, Syncing
<1> QED
  BY <1>4, <1>5, <1>6 DEF KeptInv

LEMMA CrashKept ==
  ASSUME KeptInv, Crash
  PROVE  KeptInv'
<1>1. /\ main' = "recover" /\ syncer' = NoSync /\ discarded' = NoSync.entries
      /\ UNCHANGED <<session, journal, result, position, owed>>
  BY DEF Crash
<1>2. syncer'.pc = "wait" /\ syncer'.todo = {} /\ syncer' \in Syncers
  BY <1>1, NoSyncType, SMT DEF NoSync
<1>3. SessionType' /\ PlaybackType'
  BY <1>1, <1>2, NoSyncType DEF KeptInv, SessionType, Mains, PlaybackType, Syncing
<1>4. PositionKept'
  BY <1>1 DEF KeptInv, PositionKept, Holds, Left
<1>5. SyncKeeps' /\ DiscardKeeps' /\ ResultIsLast'
  BY <1>1, <1>2 DEF KeptInv, SyncKeeps, DiscardKeeps, ResultIsLast
<1> QED
  BY <1>3, <1>4, <1>5 DEF KeptInv

(* The main thread goes from one of its own steps to another; the account may change with it. *)
LEMMA MainKept ==
  ASSUME KeptInv, UNCHANGED <<journal, result, syncer, discarded, position, owed>>,
         main \notin {"ingest", "recover"}, SessionType', main' # "discard"
  PROVE  KeptInv'
<1>1. \A b \in Accounts, j \in Items : ~Left(b, j)
  BY DEF Left
<1>2. PlaybackType'
  BY DEF KeptInv, PlaybackType
<1>3. PositionKept' /\ SyncKeeps'
  BY <1>1 DEF KeptInv, PositionKept, SyncKeeps, Holds, PlaybackType, Syncing
<1>4. DiscardKeeps' /\ ResultIsLast'
  BY DEF KeptInv, DiscardKeeps, ResultIsLast
<1> QED
  BY <1>2, <1>3, <1>4 DEF KeptInv

LEMMA NextKept == KeptInv /\ [Next]_vars => KeptInv'
<1> SUFFICES ASSUME KeptInv, [Next]_vars PROVE KeptInv'
  OBVIOUS
<1>1. CASE UNCHANGED vars
  BY <1>1, Unmoved DEF vars, sessionVars, playbackVars, JournalVars
<1>2. ASSUME NEW a \in Accounts, SignIn(a) PROVE KeptInv'
  BY <1>2, MainKept DEF SignIn, playbackVars, SessionType, Mains
<1>3. CASE Logout
  BY <1>3, MainKept DEF Logout, SignedIn, playbackVars, KeptInv, SessionType, Mains
<1>4. CASE GoToHome
  BY <1>4, MainKept DEF GoToHome, KeptInv, SessionType, Mains
<1>5. CASE SignedOut
  BY <1>5, MainKept DEF SignedOut, playbackVars, SessionType, Mains
<1>6. ASSUME NEW i \in Items, NEW played \in BOOLEAN, Enqueue(i, played), UNCHANGED playbackVars
      PROVE  KeptInv'
  BY <1>6, Unmoved DEF Enqueue, playbackVars, JournalVars
<1>7. CASE CourierStep /\ UNCHANGED playbackVars
  BY <1>7, Unmoved DEF CourierStep, Look, Woken, Send, Answered, sessionVars, playbackVars, JournalVars
<1>8. ASSUME NEW a \in Accounts, NEW i \in Items, NEW q \in Positions, OtherDevice(a, i, q)
      PROVE  KeptInv'
  <2>1. position' \in [Accounts -> [Items -> Positions \cup {0}]]
    BY <1>8, PositionAt DEF OtherDevice, KeptInv
  <2>2. UNCHANGED <<session, main, journal, result, syncer, discarded, owed>>
    BY <1>8 DEF OtherDevice
  <2>3. SessionType' /\ PlaybackType'
    BY <2>1, <2>2 DEF KeptInv, SessionType, PlaybackType
  <2>4. PositionKept' /\ SyncKeeps' /\ DiscardKeeps' /\ ResultIsLast'
    BY <2>2 DEF KeptInv, PositionKept, SyncKeeps, DiscardKeeps, ResultIsLast, Holds, Left
  <2> QED
    BY <2>3, <2>4 DEF KeptInv
<1>9. CASE Crash
  BY <1>9, CrashKept
<1>10. CASE SyncerStep
  BY <1>10, SyncWaitsKept, SyncLoadKept, SyncEndKept, FetchKept, SubmitKept DEF SyncerStep
<1> QED
  BY <1>1, <1>2, <1>3, <1>4, <1>5, <1>6, <1>7, <1>8, <1>9, <1>10,
     PlayKept, IngestKept, DiscardReadKept, DiscardWriteKept
  DEF Next, Program, WatchedStep, PlaybackStep

(* A position that was watched to is nowhere lost between the player, the two threads that      *)
(* write the journal, a change of the account and a restart, for every number of accounts and   *)
(* items: it waits in the account's journal or in the result file until it is pushed, discarded *)
(* by the user or lost by a write that failed.                                                  *)
THEOREM PositionAlwaysKept == Spec => []PositionKept
<1>1. KeptInv => PositionKept
  BY DEF KeptInv
<1> QED
  BY <1>1, InitKept, NextKept, PTL DEF Spec

(***************************************************************************)
(* Watched changes.                                                        *)
(***************************************************************************)
Change == [item : Items, played : BOOLEAN]

(* What a list holds, and that it holds an item once. *)
In(q)   == {q[k] : k \in DOMAIN q}
Once(q) == \A j, k \in DOMAIN q : q[j].item = q[k].item => j = k

Sending  == {"send", "sent"}
Couriers == [pc : {"look", "wait", "blind", "retry"} \cup Sending, from : Accounts \cup {NoAccount},
             holder : Accounts \cup {NoAccount}, item : Items \cup {"none"}, played : BOOLEAN,
             answer : {"none", "Done", "Drop", "Retry"}]

ChangeType ==
    /\ pending \in [Accounts -> Seq(Change)]
    /\ \A a \in Accounts : Once(pending[a])
    /\ courier \in Couriers
    /\ choice \in [Accounts -> [Items -> BOOLEAN]]
    /\ watched \in [Accounts -> [Items -> BOOLEAN]]
    /\ path \in Accounts \cup {NoAccount}
    /\ holder \in {path, NoAccount}

(* A change in flight is one of the account it was read from. *)
InFlight ==
    courier.pc \in Sending =>
        /\ courier.from \in Accounts /\ courier.item \in Items
        /\ courier.holder = courier.from

(* The watched outbox is at the file of the account whenever the user can do something. *)
PathOf == main \in {"idle", "ingest", "discard", "logout"} /\ session # NoAccount => path = session

(* What waits in a file is the last choice, or the card did not take a later one or lost it. *)
PendingIsChoice ==
    \A a \in Accounts : \A e \in In(pending[a]) :
        e.played = choice[a][e.item] \/ <<a, e.item>> \in excused

(* A change stays in its file while it is sent, unless the card loses it; taken, it is what the *)
(* server has.                                                                                   *)
SentWaits ==
    courier.pc = "send" => \/ <<courier.from, courier.item>> \in excused
                           \/ \E e \in In(pending[courier.from]) : e.item = courier.item
DoneWatched ==
    courier.pc = "sent" => \/ courier.answer \in {"Drop", "Retry"}
                           \/ /\ courier.answer = "Done"
                              /\ watched[courier.from][courier.item] = courier.played

ChangeInv ==
    ChangeType /\ InFlight /\ PathOf /\ PendingIsChoice /\ SentWaits /\ DoneWatched /\ LatestWins

LEMMA WaitsIn ==
  LatestWins <=> \A a \in Accounts, i \in Items :
                    \/ <<a, i>> \in excused
                    \/ watched[a][i] = choice[a][i]
                    \/ Entry(i, choice[a][i]) \in In(pending[a])
  BY DEF LatestWins, In

LEMMA EntryIs ==
  ASSUME NEW i \in Items, NEW p \in BOOLEAN
  PROVE  /\ Entry(i, p) \in Change /\ Entry(i, p).item = i /\ Entry(i, p).played = p
         /\ \A e \in Change : e.item = i /\ e.played = p => e = Entry(i, p)
  BY DEF Entry, Change

(* What the loops that erase leave of a file. *)
LEMMA Erased ==
  ASSUME NEW q \in Seq(Change), Once(q), NEW D, NEW t, t = Retained(q, D)
  PROVE  /\ t \in Seq(Change) /\ Once(t)
         /\ In(t) = {q[k] : k \in D \cap DOMAIN q}
<1>1. /\ t \in Seq(Change)
      /\ \A j \in DOMAIN t : \E k \in DOMAIN q : k \in D /\ t[j] = q[k]
      /\ \A k \in DOMAIN q : k \in D => \E j \in DOMAIN t : t[j] = q[k]
  BY RetainedFacts
<1>2. \A i, j \in DOMAIN t : i < j =>
         \E k, l \in DOMAIN q : k < l /\ {k, l} \subseteq D /\ t[i] = q[k] /\ t[j] = q[l]
  BY RetainedFacts
<1>3. In(t) = {q[k] : k \in D \cap DOMAIN q}
  BY <1>1 DEF In
<1>4. ASSUME NEW i \in DOMAIN t, NEW j \in DOMAIN t, i < j PROVE t[i].item # t[j].item
  <2>1. PICK k \in DOMAIN q, l \in DOMAIN q : k < l /\ t[i] = q[k] /\ t[j] = q[l]
    BY <1>2, <1>4
  <2>2. k # l
    BY <2>1
  <2> QED BY <2>1, <2>2 DEF Once
<1>5. \A i, j \in DOMAIN t : i = j \/ i < j \/ j < i
  BY <1>1
<1>6. Once(t)
  BY <1>4, <1>5 DEF Once
<1> QED BY <1>1, <1>3, <1>6

LEMMA LatestHolds ==
  ASSUME NEW q \in Seq(Change), Once(q), NEW i \in Items, NEW p \in BOOLEAN,
         NEW u, u = Latest(q, i, p)
  PROVE  /\ u \in Seq(Change) /\ Once(u)
         /\ In(u) = {e \in In(q) : e.item # i} \cup {Entry(i, p)}
<1> DEFINE D == {k \in DOMAIN q : q[k].item # i}
           t == Retained(q, D)
<1>1. /\ t \in Seq(Change) /\ Once(t)
      /\ In(t) = {q[k] : k \in D \cap DOMAIN q}
  <2> HIDE DEF D
  <2> QED BY Erased
<1>2. u = Append(t, Entry(i, p))
  BY DEF Latest, Others
<1>3. In(t) = {e \in In(q) : e.item # i}
  BY <1>1 DEF In
<1> HIDE DEF t
<1>4. /\ u \in Seq(Change) /\ Len(u) = Len(t) + 1 /\ u[Len(t) + 1] = Entry(i, p)
      /\ \A k \in 1 .. Len(t) : u[k] = t[k]
      /\ DOMAIN u = 1 .. Len(t) + 1 /\ DOMAIN t = 1 .. Len(t) /\ Len(t) \in Nat
  BY <1>1, <1>2, EntryIs
<1>5. \A k \in DOMAIN u : k \in DOMAIN t \/ k = Len(t) + 1
  BY <1>4
<1>6. DOMAIN t \subseteq DOMAIN u /\ Len(t) + 1 \in DOMAIN u
  BY <1>4
<1>7. In(u) = In(t) \cup {Entry(i, p)}
  BY <1>4, <1>5, <1>6 DEF In
<1>8. \A k \in DOMAIN t : t[k].item # i
  BY <1>3 DEF In
<1>9. Once(u)
  BY <1>1, <1>4, <1>5, <1>8, EntryIs DEF Once
<1> QED BY <1>3, <1>4, <1>7, <1>9

LEMMA ForgottenHolds ==
  ASSUME NEW q \in Seq(Change), Once(q), NEW u, u = Forgotten(q)
  PROVE  /\ u \in Seq(Change) /\ Once(u)
         /\ In(u) = In(q) \ {Entry(courier.item, courier.played)}
<1> DEFINE D == {k \in DOMAIN q : q[k] # Entry(courier.item, courier.played)}
<1>1. u = Retained(q, D)
  BY DEF Forgotten
<1>2. In(q) \ {Entry(courier.item, courier.played)} = {q[k] : k \in D \cap DOMAIN q}
  BY DEF In
<1> HIDE DEF D
<1> QED BY <1>1, <1>2, Erased

(* A beginning of a list. *)
LEMMA TornHolds ==
  ASSUME NEW q \in Seq(Change), Once(q), NEW n \in 0 .. Len(q)
  PROVE  LET t == SubSeq(q, 1, n) IN t \in Seq(Change) /\ Once(t) /\ In(t) \subseteq In(q)
<1> DEFINE t == SubSeq(q, 1, n)
<1>1. t \in Seq(Change) /\ Len(t) = n /\ \A k \in 1 .. n : t[k] = q[k]
  OBVIOUS
<1>2. DOMAIN t = 1 .. n /\ 1 .. n \subseteq DOMAIN q
  BY <1>1
<1> HIDE DEF t
<1> QED BY <1>1, <1>2 DEF In, Once

(* What a card that fails may make of a file that was to hold a list read from it. *)
LEMMA StorableHolds ==
  ASSUME ChangeType, NEW a \in Accounts, NEW q \in Seq(Change), Once(q), NEW u \in Storable(a, q)
  PROVE  u \in Seq(Change) /\ Once(u) /\ (u = pending[a] \/ In(u) \subseteq In(q))
  BY TornHolds DEF Storable, ChangeType

(* What has been missed. *)
LEMMA MissingIs ==
  ASSUME NEW a, NEW q, NEW e \in In(q), e \notin In(pending'[a])
  PROVE  <<a, e.item>> \in Missing(a, q)
<1>1. PICK k \in DOMAIN q : q[k] = e
  BY DEF In
<1>2. \A m \in DOMAIN pending'[a] : pending'[a][m] # q[k]
  BY <1>1 DEF In
<1> QED BY <1>1, <1>2 DEF Missing

LEMMA NothingRead == <<>> \in Seq(Change) /\ Once(<<>>) /\ In(<<>>) = {}
  BY DEF Once, In

(* A file of one account is replaced. *)
LEMMA FileReplaced ==
  ASSUME ChangeType, NEW a \in Accounts, NEW u \in Seq(Change), Once(u),
         pending' = [pending EXCEPT ![a] = u]
  PROVE  /\ pending' \in [Accounts -> Seq(Change)]
         /\ \A b \in Accounts : pending'[b] = IF b = a THEN u ELSE pending[b]
         /\ \A b \in Accounts : Once(pending'[b])
<1>1. pending' \in [Accounts -> Seq(Change)] /\ \A b \in Accounts : pending'[b] = IF b = a THEN u ELSE pending[b]
  BY DEF ChangeType
<1> QED BY <1>1 DEF ChangeType

LEMMA Choices ==
  ASSUME NEW f \in [Accounts -> [Items -> BOOLEAN]], NEW a \in Accounts, NEW i \in Items, NEW p \in BOOLEAN
  PROVE  LET g == [f EXCEPT ![a][i] = p] IN
         /\ g \in [Accounts -> [Items -> BOOLEAN]]
         /\ \A b \in Accounts, j \in Items : g[b][j] = IF b = a /\ j = i THEN p ELSE f[b][j]
  BY SMT

LEMMA ElementOf ==
  ASSUME ChangeType, NEW a \in Accounts, NEW e \in In(pending[a])
  PROVE  e \in Change /\ e.item \in Items /\ e.played \in BOOLEAN /\ e = Entry(e.item, e.played)
<1>1. pending[a] \in Seq(Change) /\ e \in Change
  BY DEF ChangeType, In
<1> QED BY <1>1 DEF Change, Entry

(* The courier at rest, and with an answer. *)
LEMMA NoChangeRests ==
  /\ NoChange \in Couriers /\ NoChange.pc = "look" /\ NoChange.from = NoAccount
  /\ NoChange.holder = NoAccount /\ NoChange.item = "none" /\ NoChange.played = FALSE
  /\ NoChange.answer = "none"
  BY DEF NoChange, Couriers

LEMMA Resting ==
  ASSUME NEW pc \in {"wait", "blind", "retry"}
  PROVE  [NoChange EXCEPT !.pc = pc] \in Couriers /\ [NoChange EXCEPT !.pc = pc].pc = pc
<1>1. [NoChange EXCEPT !.pc = pc] =
        [pc |-> pc, from |-> NoChange.from, holder |-> NoChange.holder, item |-> NoChange.item,
         played |-> NoChange.played, answer |-> NoChange.answer]
  BY NoChangeRests DEF Couriers
<1> QED BY <1>1, NoChangeRests DEF Couriers

LEMMA CourierAnswered ==
  ASSUME courier \in Couriers, NEW answer \in {"Done", "Drop", "Retry"},
         courier' = [courier EXCEPT !.pc = "sent", !.answer = answer]
  PROVE  /\ courier' \in Couriers /\ courier'.pc = "sent" /\ courier'.answer = answer
         /\ courier'.from = courier.from /\ courier'.holder = courier.holder
         /\ courier'.item = courier.item /\ courier'.played = courier.played
<1>1. courier' = [pc |-> "sent", from |-> courier.from, holder |-> courier.holder,
                  item |-> courier.item, played |-> courier.played, answer |-> answer]
  BY DEF Couriers
<1>2. /\ courier.from \in Accounts \cup {NoAccount} /\ courier.holder \in Accounts \cup {NoAccount}
      /\ courier.item \in Items \cup {"none"} /\ courier.played \in BOOLEAN
  BY DEF Couriers
<1> HIDE DEF Couriers
<1>3. courier' \in Couriers
  BY <1>1, <1>2 DEF Couriers, Sending
<1> QED BY <1>1, <1>3

LEMMA InitChange == Init => ChangeInv
<1> SUFFICES ASSUME Init PROVE ChangeInv
  OBVIOUS
<1>1. /\ pending = [a \in Accounts |-> <<>>] /\ courier = NoChange
      /\ watched = [a \in Accounts |-> [i \in Items |-> FALSE]] /\ choice = watched
      /\ path = NoAccount /\ holder = NoAccount /\ main = "recover"
  BY DEF Init, WatchedInit
<1>2. courier \in Couriers /\ courier.pc = "look"
  BY <1>1, SMT DEF NoChange, Couriers, Sending
<1>3. \A a \in Accounts : pending[a] = <<>> /\ In(pending[a]) = {} /\ Once(pending[a])
  <2>1. In(<<>>) = {} /\ Once(<<>>)
    BY DEF In, Once
  <2> QED BY <1>1, <2>1
<1>4. ChangeType
  <2>1. pending \in [Accounts -> Seq(Change)]
    BY <1>1
  <2>2. watched \in [Accounts -> [Items -> BOOLEAN]]
    BY <1>1
  <2> QED BY <1>1, <1>2, <1>3, <2>1, <2>2 DEF ChangeType
<1>5. InFlight /\ PathOf /\ SentWaits /\ DoneWatched
  BY <1>1, <1>2 DEF InFlight, PathOf, SentWaits, DoneWatched, Sending
<1>6. PendingIsChoice /\ LatestWins
  BY <1>1, <1>3 DEF PendingIsChoice, LatestWins
<1> QED BY <1>4, <1>5, <1>6 DEF ChangeInv

(* Nothing of the watched outbox changes, except perhaps the nudge. *)
LEMMA SameChange ==
  ASSUME ChangeInv, PathOf',
         UNCHANGED <<pending, path, holder, courier, watched, choice, excused>>
  PROVE  ChangeInv'
  BY DEF ChangeInv, ChangeType, InFlight, PendingIsChoice, SentWaits, DoneWatched, LatestWins

(* The thread goes to a step at which nothing is in flight; the outbox may change hands. *)
LEMMA RestChange ==
  ASSUME ChangeInv, PathOf', courier' \in Couriers, courier'.pc \notin Sending,
         path' \in Accounts \cup {NoAccount}, holder' \in {path', NoAccount},
         UNCHANGED <<pending, watched, choice, excused>>
  PROVE  ChangeInv'
  BY DEF ChangeInv, ChangeType, InFlight, PendingIsChoice, SentWaits, DoneWatched, LatestWins, Sending

LEMMA EnqueueChange ==
  ASSUME ChangeInv, SessionType, NEW i \in Items, NEW played \in BOOLEAN, Enqueue(i, played)
  PROVE  ChangeInv'
<1> DEFINE a == path
           q == pending[a]
           u == Latest(q, i, played)
           new == Entry(i, played)
<1>1. a \in Accounts
  BY DEF Enqueue, SignedIn, ChangeInv, PathOf, SessionType
<1>2. /\ choice' = [choice EXCEPT ![a][i] = played]
      /\ excused' = (excused \ {<<a, i>>}) \cup Missing(a, u)
      /\ UNCHANGED <<session, main, path, holder, courier, watched>>
  BY Zenon DEF Enqueue
<1>3. ChangeType /\ q \in Seq(Change) /\ Once(q)
  BY <1>1 DEF ChangeInv, ChangeType
<1>4. u \in Seq(Change) /\ Once(u) /\ In(u) = {e \in In(q) : e.item # i} \cup {new}
  BY <1>3, LatestHolds
<1>5. /\ choice' \in [Accounts -> [Items -> BOOLEAN]]
      /\ \A b \in Accounts, j \in Items : choice'[b][j] = IF b = a /\ j = i THEN played ELSE choice[b][j]
  BY <1>1, <1>2, <1>3, Choices DEF ChangeType
<1>6. PathOf' /\ InFlight' /\ DoneWatched'
  BY <1>2 DEF ChangeInv, PathOf, InFlight, DoneWatched
<1>7. PICK w \in Seq(Change) :
         /\ Once(w)
         /\ pending' = [pending EXCEPT ![a] = w]
         /\ w = q \/ In(w) \subseteq In(u)
  <2>1. CASE pending' = [pending EXCEPT ![path] = Latest(@, i, played)]
    <3>1. pending' = [pending EXCEPT ![a] = u]
      BY <2>1
    <3> HIDE DEF u
    <3> QED BY <1>4, <3>1
  <2>2. ASSUME NEW r \in Readable(path), NEW w \in Storable(path, Latest(r, i, played)),
               pending' = [pending EXCEPT ![path] = w]
        PROVE  w \in Seq(Change) /\ Once(w) /\ (w = q \/ In(w) \subseteq In(u))
    <3>1. r \in Seq(Change) /\ Once(r) /\ In(r) \subseteq In(q)
      BY <1>3, <2>2, NothingRead DEF Readable
    <3>2. LET x == Latest(r, i, played) IN
          x \in Seq(Change) /\ Once(x) /\ In(x) = {e \in In(r) : e.item # i} \cup {new}
      BY <3>1, LatestHolds
    <3>3. In(Latest(r, i, played)) \subseteq In(u)
      BY <1>4, <3>1, <3>2
    <3> QED BY <1>1, <1>3, <2>2, <3>2, <3>3, StorableHolds
  <2>3. \/ pending' = [pending EXCEPT ![path] = Latest(@, i, played)]
        \/ \E r \in Readable(path) : \E w \in Storable(path, Latest(r, i, played)) :
              pending' = [pending EXCEPT ![path] = w]
    BY Zenon DEF Enqueue
  <2> QED BY <2>1, <2>2, <2>3
<1> HIDE DEF a, q, u, new
<1>8. /\ pending' \in [Accounts -> Seq(Change)]
      /\ \A b \in Accounts : pending'[b] = IF b = a THEN w ELSE pending[b]
      /\ \A b \in Accounts : Once(pending'[b])
  <2>1. w \in Seq(Change) /\ Once(w) /\ pending' = [pending EXCEPT ![a] = w]
    BY <1>7
  <2> QED BY <1>1, <1>3, <2>1, FileReplaced
<1>9. ChangeType'
  BY <1>2, <1>3, <1>5, <1>8 DEF ChangeType
<1>10. \A e \in In(u) : e \in In(w) \/ <<a, e.item>> \in excused'
  BY <1>1, <1>2, <1>8, MissingIs
<1>11. new.item = i /\ new.played = played /\ new \in In(u)
  BY <1>4, EntryIs DEF new
<1>12. \A b, j : <<b, j>> \in excused /\ ~(b = a /\ j = i) => <<b, j>> \in excused'
  BY <1>2
<1>17. In(pending'[a]) = In(w) /\ In(q) = In(pending[a])
  BY <1>1, <1>8 DEF q, In
<1>16. new \in In(w) \/ <<a, i>> \in excused'
  BY <1>10, <1>11
<1>13. ASSUME NEW b \in Accounts, NEW e \in In(pending'[b])
       PROVE  e.played = choice'[b][e.item] \/ <<b, e.item>> \in excused'
  <2>1. CASE b = a /\ e = new
    BY <1>1, <1>5, <1>11, <2>1
  <2>2. CASE e \in In(pending[b]) /\ ~(b = a /\ e.item = i)
    <3>1. e.item \in Items
      BY <1>3, <2>2, ElementOf
    <3>2. choice'[b][e.item] = choice[b][e.item]
      BY <1>5, <2>2, <3>1
    <3> QED BY <1>12, <2>2, <3>2 DEF ChangeInv, PendingIsChoice
  <2>3. CASE b = a /\ e.item = i /\ e # new /\ w = q
    <3>1. new \notin In(w)
      BY <1>7, <1>8, <1>11, <2>3 DEF Once, In
    <3> QED BY <1>16, <2>3, <3>1
  <2>4. CASE b = a /\ e \in In(u)
    <3>1. e = new \/ (e \in In(q) /\ e.item # i)
      BY <1>4, <2>4
    <3> QED BY <1>17, <2>1, <2>2, <2>4, <3>1
  <2>5. CASE b = a /\ w = q /\ e \in In(q)
    BY <1>17, <2>1, <2>2, <2>3, <2>5
  <2>6. CASE b # a
    <3>1. In(pending'[b]) = In(pending[b])
      BY <1>8, <2>6 DEF In
    <3> QED BY <2>2, <2>6, <3>1
  <2> QED BY <1>7, <1>17, <2>4, <2>5, <2>6
<1>14. SentWaits'
  <2> SUFFICES ASSUME courier.pc = "send"
               PROVE  \/ <<courier.from, courier.item>> \in excused'
                      \/ \E e \in In(pending'[courier.from]) : e.item = courier.item
    BY <1>2 DEF SentWaits
  <2>1. courier.from \in Accounts
    BY DEF ChangeInv, InFlight, Sending
  <2>2. CASE courier.from = a /\ courier.item = i
    BY <1>8, <1>11, <1>16, <2>1, <2>2
  <2>3. CASE ~(courier.from = a /\ courier.item = i)
    <3>1. CASE <<courier.from, courier.item>> \in excused
      BY <1>12, <2>3, <3>1
    <3>2. CASE \E e \in In(pending[courier.from]) : e.item = courier.item
      <4>1. CASE courier.from = a
        BY <1>4, <1>10, <1>17, <2>3, <3>2, <4>1
      <4>2. CASE courier.from # a
        BY <1>8, <2>1, <3>2, <4>2
      <4> QED BY <4>1, <4>2
    <3> QED BY <3>1, <3>2 DEF ChangeInv, SentWaits
  <2> QED BY <2>2, <2>3
<1>15. ASSUME NEW b \in Accounts, NEW j \in Items
       PROVE  \/ <<b, j>> \in excused'
              \/ watched'[b][j] = choice'[b][j]
              \/ Entry(j, choice'[b][j]) \in In(pending'[b])
  <2>1. CASE b = a /\ j = i
    BY <1>5, <1>8, <1>16, <2>1 DEF new
  <2>2. CASE ~(b = a /\ j = i)
    <3>1. choice'[b][j] = choice[b][j] /\ choice[b][j] \in BOOLEAN
      BY <1>3, <1>5, <2>2 DEF ChangeType
    <3>2. Entry(j, choice[b][j]).item = j
      BY <3>1, EntryIs
    <3>3. Entry(j, choice[b][j]) \in In(pending[b]) =>
             Entry(j, choice[b][j]) \in In(pending'[b]) \/ <<b, j>> \in excused'
      <4>1. CASE b = a
        BY <1>4, <1>10, <1>17, <2>2, <3>2, <4>1
      <4>2. CASE b # a
        BY <1>8, <4>2
      <4> QED BY <4>1, <4>2
    <3> QED BY <1>2, <1>12, <2>2, <3>1, <3>3, WaitsIn DEF ChangeInv
  <2> QED BY <2>1, <2>2
<1> QED BY <1>6, <1>9, <1>13, <1>14, <1>15 DEF ChangeInv, PendingIsChoice, LatestWins, In

(* The file and the session are the account's, or nobody's. *)
LEMMA LookChange ==
  ASSUME ChangeInv, Look
  PROVE  ChangeInv'
<1> DEFINE e == Head(pending[path])
<1>1. UNCHANGED <<session, main, pending, path, holder, watched, choice, excused>>
  BY Zenon DEF Look
<1>2. PathOf'
  BY <1>1 DEF ChangeInv, PathOf
<1>3. CASE courier' \in {[NoChange EXCEPT !.pc = "wait"], [NoChange EXCEPT !.pc = "blind"]}
  <2>2. courier' \in Couriers /\ courier'.pc \notin Sending
    BY <1>3, Resting DEF Sending
  <2> QED BY <1>1, <1>2, <2>2, RestChange DEF ChangeInv, ChangeType
<1>4. CASE /\ ~(holder = NoAccount \/ pending[path] = <<>>)
           /\ courier' = [pc |-> "send", from |-> path, holder |-> holder, item |-> e.item,
                          played |-> e.played, answer |-> "none"]
  <2>1. courier' = [pc |-> "send", from |-> path, holder |-> holder, item |-> e.item,
                    played |-> e.played, answer |-> "none"]
    BY <1>4
  <2>2. path \in Accounts /\ holder = path /\ pending[path] \in Seq(Change)
    BY <1>4 DEF ChangeInv, ChangeType
  <2>3. e \in Change /\ e \in In(pending[path])
    <3>1. e = pending[path][1] /\ 1 \in DOMAIN pending[path]
      BY <1>4, <2>2
    <3> HIDE DEF e
    <3> QED BY <2>2, <3>1 DEF In
  <2> HIDE DEF e
  <2>4. e.item \in Items /\ e.played \in BOOLEAN
    BY <2>3 DEF Change
  <2>5. /\ courier' \in Couriers /\ courier'.pc = "send" /\ courier'.from = path
        /\ courier'.holder = path /\ courier'.item = e.item
    BY <2>1, <2>2, <2>4, SMT DEF Couriers, Sending
  <2>6. ChangeType' /\ PendingIsChoice' /\ LatestWins'
    BY <1>1, <2>5 DEF ChangeInv, ChangeType, PendingIsChoice, LatestWins
  <2>7. InFlight' /\ SentWaits' /\ DoneWatched'
    BY <1>1, <2>2, <2>3, <2>4, <2>5 DEF InFlight, SentWaits, DoneWatched
  <2> QED BY <1>2, <2>6, <2>7 DEF ChangeInv
<1> QED BY <1>3, <1>4, Zenon DEF Look

LEMMA WokenChange ==
  ASSUME ChangeInv, Woken
  PROVE  ChangeInv'
<1>1. courier' \in Couriers /\ courier'.pc \notin Sending
  BY SMT DEF Woken, NoChange, Couriers, Sending
<1>2. UNCHANGED <<session, main, pending, path, holder, watched, choice, excused>>
  BY DEF Woken, sessionVars
<1>3. PathOf'
  BY <1>2 DEF ChangeInv, PathOf
<1> QED BY <1>1, <1>2, <1>3, RestChange DEF ChangeInv, ChangeType

LEMMA SendChange ==
  ASSUME ChangeInv, Send
  PROVE  ChangeInv'
<1> DEFINE a == courier.from
           i == courier.item
           p == courier.played
           taken == [watched EXCEPT ![a][i] = p]
<1>1. /\ courier.pc = "send" /\ a \in Accounts /\ i \in Items /\ courier.holder = a
      /\ p \in BOOLEAN /\ ChangeType
  BY DEF Send, ChangeInv, InFlight, ChangeType, Couriers, Sending
<1>2. UNCHANGED <<session, main, pending, path, holder, choice, excused>>
  BY Zenon DEF Send
<1>3. \/ watched' = taken /\ courier' = [courier EXCEPT !.pc = "sent", !.answer = "Done"]
      \/ watched' = watched /\ courier' = [courier EXCEPT !.pc = "sent", !.answer = "Drop"]
      \/ watched' \in {watched, taken} /\ courier' = [courier EXCEPT !.pc = "sent", !.answer = "Retry"]
  <2>1. courier.holder = courier.from
    BY <1>1
  <2> QED BY <2>1, Zenon DEF Send
<1>4. /\ taken \in [Accounts -> [Items -> BOOLEAN]]
      /\ \A b \in Accounts, j \in Items : taken[b][j] = IF b = a /\ j = i THEN p ELSE watched[b][j]
  <2> HIDE DEF a, i, p
  <2> QED BY <1>1, Choices DEF ChangeType
<1> HIDE DEF taken
<1>5. /\ courier' \in Couriers /\ courier'.pc = "sent" /\ courier'.from = a
      /\ courier'.holder = a /\ courier'.item = i /\ courier'.played = p
      /\ courier'.answer \in {"Done", "Drop", "Retry"}
      /\ courier'.answer = "Done" => watched' = taken
  <2>1. courier \in Couriers
    BY <1>1 DEF ChangeType
  <2> QED BY <1>1, <1>3, <2>1, CourierAnswered
<1>6. watched' \in {watched, taken}
  BY <1>3
<1>7. ChangeType' /\ PathOf' /\ InFlight' /\ SentWaits' /\ PendingIsChoice'
  BY <1>1, <1>2, <1>4, <1>5, <1>6
  DEF ChangeInv, ChangeType, PathOf, InFlight, SentWaits, PendingIsChoice
<1>8. DoneWatched'
  BY <1>1, <1>4, <1>5 DEF DoneWatched
<1>9. ASSUME NEW b \in Accounts, NEW j \in Items
      PROVE  \/ <<b, j>> \in excused'
             \/ watched'[b][j] = choice'[b][j]
             \/ Entry(j, choice'[b][j]) \in In(pending'[b])
  <2>1. CASE b = a /\ j = i
    <3>4. CASE <<a, i>> \in excused
      BY <1>2, <2>1, <3>4
    <3>5. SUFFICES ASSUME <<a, i>> \notin excused
                   PROVE  \/ watched'[b][j] = choice'[b][j]
                          \/ Entry(j, choice'[b][j]) \in In(pending'[b])
      BY <3>4
    <3>1. PICK e \in In(pending[a]) : e.item = i
      BY <1>1, <3>5 DEF ChangeInv, SentWaits
    <3>2. e = Entry(i, e.played)
      BY <1>1, <3>1, ElementOf
    <3>3. e.played = choice[a][i] \/ <<a, i>> \in excused
      BY <1>1, <3>1 DEF ChangeInv, PendingIsChoice
    <3> QED BY <1>2, <2>1, <3>1, <3>2, <3>3, <3>5
  <2>2. CASE ~(b = a /\ j = i)
    <3>1. watched'[b][j] = watched[b][j]
      BY <1>4, <1>6, <2>2
    <3> QED BY <1>2, <3>1, WaitsIn DEF ChangeInv
  <2> QED BY <2>1, <2>2
<1>10. LatestWins'
  BY <1>9 DEF LatestWins, In
<1> QED BY <1>7, <1>8, <1>10 DEF ChangeInv

LEMMA AnsweredChange ==
  ASSUME ChangeInv, Answered
  PROVE  ChangeInv'
<1> DEFINE a == courier.from
           i == courier.item
           p == courier.played
           u == Forgotten(pending[a])
<1>1. /\ courier.pc = "sent" /\ a \in Accounts /\ i \in Items /\ p \in BOOLEAN /\ ChangeType
  BY DEF Answered, ChangeInv, InFlight, ChangeType, Couriers, Sending
<1>2. UNCHANGED <<session, main, path, holder, watched, choice>>
  BY Zenon DEF Answered
<1>3. courier' \in Couriers /\ courier'.pc \notin Sending
  <2>1. courier' \in {NoChange, [NoChange EXCEPT !.pc = "retry"]}
    BY Zenon DEF Answered
  <2> QED BY <2>1, Resting, NoChangeRests DEF Sending
<1>4. PathOf'
  BY <1>2 DEF ChangeInv, PathOf
<1>5. CASE UNCHANGED <<pending, excused>>
  BY <1>2, <1>3, <1>4, <1>5, RestChange DEF ChangeInv, ChangeType
<1> DEFINE left == IF courier.answer = "Drop" THEN pending[a] ELSE u
<1>6. ASSUME courier.answer # "Retry", excused' = excused \cup Missing(a, left),
             NEW w \in Seq(Change), Once(w), In(w) \subseteq In(pending[a]),
             pending' = [pending EXCEPT ![a] = w]
      PROVE  ChangeInv'
  <2>1. In(u) = In(pending[a]) \ {Entry(i, p)}
    BY <1>1, ForgottenHolds DEF ChangeType
  <2>3. /\ pending' \in [Accounts -> Seq(Change)]
        /\ \A b \in Accounts : pending'[b] = IF b = a THEN w ELSE pending[b]
        /\ \A b \in Accounts : Once(pending'[b])
    BY <1>1, <1>6, FileReplaced
  <2>4. /\ \A b \in Accounts : In(pending'[b]) \subseteq In(pending[b])
        /\ excused \subseteq excused'
        /\ \A e \in In(left) : e \in In(w) \/ <<a, e.item>> \in excused'
    <3> HIDE DEF left, u
    <3> QED BY <1>1, <1>6, <2>3, MissingIs
  <2>5. ChangeType'
    BY <1>1, <1>2, <1>3, <2>3 DEF ChangeType
  <2>6. InFlight' /\ SentWaits' /\ DoneWatched'
    BY <1>3 DEF InFlight, SentWaits, DoneWatched, Sending
  <2>7. PendingIsChoice'
    BY <1>2, <2>4 DEF ChangeInv, PendingIsChoice
  <2>10. courier.answer \in {"Done", "Drop"}
    BY <1>1, <1>6 DEF ChangeInv, DoneWatched, ChangeType, Couriers
  <2>8. ASSUME NEW b \in Accounts, NEW j \in Items
        PROVE  \/ <<b, j>> \in excused'
               \/ watched'[b][j] = choice'[b][j]
               \/ Entry(j, choice'[b][j]) \in In(pending'[b])
    <3> DEFINE e == Entry(j, choice[b][j])
    <3>1. choice[b][j] \in BOOLEAN /\ e.item = j
      BY <1>1, EntryIs DEF ChangeType
    <3>2. e = Entry(i, p) => j = i /\ choice[b][j] = p
      BY <1>1, <3>1, EntryIs
    <3> HIDE DEF e
    <3>3. CASE e \in In(pending[b])
      <4>1. CASE b # a
        BY <1>2, <2>3, <3>3, <4>1 DEF e
      <4>2. CASE b = a /\ courier.answer = "Done" /\ e = Entry(i, p)
        <5>1. watched[a][i] = p
          BY <1>1, <4>2 DEF ChangeInv, DoneWatched
        <5> QED BY <1>2, <3>2, <4>2, <5>1
      <4>3. CASE b = a /\ ~(courier.answer = "Done" /\ e = Entry(i, p))
        <5>1. e \in In(left)
          BY <2>1, <2>10, <3>3, <4>3
        <5> QED BY <1>2, <2>3, <2>4, <3>1, <4>3, <5>1 DEF e
      <4> QED BY <4>1, <4>2, <4>3
    <3>4. CASE <<b, j>> \in excused \/ watched[b][j] = choice[b][j]
      BY <1>2, <2>4, <3>4
    <3> QED BY <3>3, <3>4, WaitsIn DEF ChangeInv, e
  <2>9. LatestWins'
    BY <2>8 DEF LatestWins, In
  <2> QED BY <1>4, <2>5, <2>6, <2>7, <2>9 DEF ChangeInv
<1>7. ASSUME NEW r \in Readable(a), NEW w \in Storable(a, Forgotten(r))
      PROVE  w \in Seq(Change) /\ Once(w) /\ In(w) \subseteq In(pending[a])
  <2>1. pending[a] \in Seq(Change) /\ Once(pending[a])
    BY <1>1 DEF ChangeType
  <2>2. r \in Seq(Change) /\ Once(r) /\ In(r) \subseteq In(pending[a])
    BY <2>1, <1>7, NothingRead DEF Readable
  <2>3. Forgotten(r) \in Seq(Change) /\ Once(Forgotten(r)) /\ In(Forgotten(r)) \subseteq In(r)
    BY <2>2, ForgottenHolds
  <2> QED BY <1>1, <1>7, <2>1, <2>2, <2>3, StorableHolds
<1>8. u \in Seq(Change) /\ Once(u) /\ In(u) \subseteq In(pending[a])
  BY <1>1, ForgottenHolds DEF ChangeType
<1>9. \/ UNCHANGED <<pending, excused>>
      \/ /\ courier.answer # "Retry" /\ excused' = excused \cup Missing(a, left)
         /\ \/ pending' = [pending EXCEPT ![a] = u]
            \/ \E r \in Readable(a) : \E w \in Storable(a, Forgotten(r)) :
                  pending' = [pending EXCEPT ![a] = w]
  BY Zenon DEF Answered
<1> HIDE DEF u, left
<1> QED BY <1>5, <1>6, <1>7, <1>8, <1>9

(* The main thread; PathOf comes with the step that hands the outbox to the account. *)
LEMMA MainChange ==
  ASSUME ChangeInv, SessionType,
         \/ GoToHome \/ Logout \/ SignedOut \/ Crash
         \/ \E a \in Accounts : SignIn(a)
  PROVE  ChangeInv'
<1>1. CASE GoToHome
  <2>1. /\ path' = session /\ holder' = session /\ session' = session
        /\ UNCHANGED <<pending, courier, watched, choice, excused>>
    BY <1>1, Zenon DEF GoToHome, Configured
  <2>2. PathOf' /\ path' \in Accounts \cup {NoAccount}
    BY <2>1 DEF PathOf, SessionType
  <2> QED BY <2>1, <2>2 DEF ChangeInv, ChangeType, InFlight, PendingIsChoice, SentWaits, DoneWatched, LatestWins
<1>2. CASE Logout
  <2>1. /\ holder' = NoAccount /\ path' = path /\ session' = session /\ main = "idle"
        /\ UNCHANGED <<pending, courier, watched, choice, excused>>
    BY <1>2, Zenon DEF Logout, SignedIn
  <2>2. PathOf'
    BY <2>1 DEF ChangeInv, PathOf
  <2> QED BY <2>1, <2>2 DEF ChangeInv, ChangeType, InFlight, PendingIsChoice, SentWaits, DoneWatched, LatestWins
<1>3. CASE SignedOut
  <2>1. session' = NoAccount /\ UNCHANGED watchedVars
    BY <1>3, Zenon DEF SignedOut
  <2>2. PathOf'
    BY <2>1 DEF PathOf
  <2> QED BY <2>1, <2>2, SameChange DEF watchedVars
<1>4. CASE Crash
  <2>1. /\ holder' = NoAccount /\ path' = NoAccount /\ courier' = NoChange /\ main' = "recover"
        /\ UNCHANGED <<pending, watched, choice, excused>>
    BY <1>4, Zenon DEF Crash
  <2>2. PathOf'
    BY <2>1 DEF PathOf
  <2> QED BY <2>1, <2>2, NoChangeRests, RestChange DEF Sending
<1>5. ASSUME NEW a \in Accounts, SignIn(a) PROVE ChangeInv'
  <2>1. main' = "home" /\ UNCHANGED watchedVars
    BY <1>5, Zenon DEF SignIn
  <2>2. PathOf'
    BY <2>1 DEF PathOf
  <2> QED BY <2>1, <2>2, SameChange DEF watchedVars
<1> QED BY <1>1, <1>2, <1>3, <1>4, <1>5

(* The journal's side: the watched outbox stays, the main thread was or becomes idle. *)
LEMMA JournalChange ==
  ASSUME ChangeInv, UNCHANGED watchedVars,
         \/ Ingest \/ DiscardWrite \/ SyncerStep
         \/ \E i \in Items, p \in Positions : Play(i, p)
         \/ \E i \in Items : DiscardRead(i)
  PROVE  ChangeInv'
<1>1. session' = session
  BY Zenon DEF Ingest, DiscardWrite, SyncerStep, Nudged, Rested, SyncBegin, SyncLoad, SyncEnd,
     FetchPosition, Submit, Play, DiscardRead, sessionVars
<1>2. main' = main \/ main \in {"idle", "ingest", "discard"} \/ session = NoAccount \/ main' = "start"
  <2>1. CASE Ingest
    BY <2>1 DEF Ingest
  <2>2. CASE SyncerStep
    BY <2>2, Zenon DEF SyncerStep, Nudged, Rested, SyncBegin, SyncLoad, SyncEnd, FetchPosition, Submit,
       sessionVars
  <2>3. CASE DiscardWrite
    BY <2>3 DEF DiscardWrite
  <2>4. ASSUME NEW i \in Items, NEW p \in Positions, Play(i, p) PROVE main = "idle"
    BY <2>4, Zenon DEF Play, SignedIn
  <2>5. ASSUME NEW i \in Items, DiscardRead(i) PROVE main = "idle"
    BY <2>5, Zenon DEF DiscardRead, SignedIn
  <2> QED BY <2>1, <2>2, <2>3, <2>4, <2>5
<1>3. PathOf'
  BY <1>1, <1>2 DEF ChangeInv, PathOf, watchedVars
<1> QED BY <1>3, SameChange DEF watchedVars

LEMMA NextChange == ChangeInv /\ KeptInv /\ [Next]_vars => ChangeInv'
<1> SUFFICES ASSUME ChangeInv, KeptInv, [Next]_vars PROVE ChangeInv'
  OBVIOUS
<1>0. SessionType
  BY DEF KeptInv
<1>1. CASE UNCHANGED vars
  <2>1. PathOf'
    BY <1>1 DEF ChangeInv, PathOf, vars, sessionVars, watchedVars
  <2> QED BY <1>1, <2>1, SameChange DEF vars, watchedVars
<1>2. CASE CourierStep
  BY <1>2, LookChange, WokenChange, SendChange, AnsweredChange DEF CourierStep
<1>3. ASSUME NEW a \in Accounts, NEW i \in Items, NEW q \in Positions, OtherDevice(a, i, q)
      PROVE  ChangeInv'
  <2>1. UNCHANGED <<session, main>> /\ UNCHANGED watchedVars
    BY <1>3, Zenon DEF OtherDevice
  <2>2. PathOf'
    BY <2>1 DEF ChangeInv, PathOf, watchedVars
  <2> QED BY <2>1, <2>2, SameChange DEF watchedVars
<1>4. ASSUME NEW i \in Items, NEW played \in BOOLEAN, Enqueue(i, played) PROVE ChangeInv'
  BY <1>0, <1>4, EnqueueChange
<1>5. CASE UNCHANGED watchedVars /\
           \/ Ingest \/ DiscardWrite \/ SyncerStep
           \/ \E i \in Items, p \in Positions : Play(i, p)
           \/ \E i \in Items : DiscardRead(i)
  BY <1>5, JournalChange
<1>6. CASE GoToHome \/ Logout \/ SignedOut \/ Crash \/ \E a \in Accounts : SignIn(a)
  BY <1>0, <1>6, MainChange
<1> QED
  BY <1>1, <1>2, <1>3, <1>4, <1>5, <1>6, Zenon DEF Next, Program, WatchedStep, PlaybackStep

LEMMA AlwaysChange == Spec => [](ChangeInv /\ KeptInv)
<1>1. ChangeInv /\ KeptInv /\ [Next]_vars => (ChangeInv /\ KeptInv)'
  BY NextChange, NextKept
<1> QED BY InitChange, InitKept, <1>1, PTL DEF Spec

(* The latest choice wins, for every number of accounts, items, requests, failures and crashes: *)
(* whatever is in flight, fails, is switched or is killed, what the user chose last is on the   *)
(* server or waits in that account's file, but for what was refused or a card that failed did   *)
(* not take or lost.                                                                            *)
THEOREM LatestAlwaysWins == Spec => []LatestWins
<1>1. ChangeInv /\ KeptInv => LatestWins
  BY DEF ChangeInv
<1> QED BY <1>1, AlwaysChange, PTL

Flags == {nudge, wake, failed} \subseteq BOOLEAN

LEMMA FlagsStep == Flags /\ KeptInv /\ [Next]_vars => Flags'
<1> SUFFICES ASSUME Flags, KeptInv, [Next]_vars PROVE Flags'
  OBVIOUS
<1>1. nudge' \in {TRUE, FALSE, nudge}
  BY Zenon DEF Next, Program, WatchedStep, PlaybackStep, CourierStep, SignIn, Logout, Notified, GoToHome,
     SignedOut, Enqueue, Look, Woken, Send, Answered, OtherDevice, Crash, watchedVars, vars
<1>2. wake' \in {TRUE, FALSE, wake}
  BY Zenon DEF Next, Program, WatchedStep, PlaybackStep, SyncerStep, SignIn, Logout, GoToHome, SignedOut,
     Play, Ingest, DiscardRead, DiscardWrite, Nudged, Rested, SyncBegin, SyncLoad, SyncEnd,
     FetchPosition, Submit, OtherDevice, Crash, playbackVars, vars
<1>3. failed' \in {TRUE, FALSE, failed, syncer.retry}
  BY Zenon DEF Next, Program, WatchedStep, PlaybackStep, SyncerStep, SignIn, Logout, GoToHome, SignedOut,
     Play, Ingest, DiscardRead, DiscardWrite, Nudged, Rested, SyncBegin, SyncLoad, SyncEnd,
     FetchPosition, Submit, OtherDevice, Crash, playbackVars, vars
<1>4. syncer.retry \in BOOLEAN
  BY DEF KeptInv, PlaybackType, Syncers
<1> QED BY <1>1, <1>2, <1>3, <1>4 DEF Flags

(* The variables have their types and no file holds an item twice, for all constants. *)
THEOREM OutboxesTyped == Spec => []TypeOK
<1>1. Init => Flags
  BY DEF Init, WatchedInit, PlaybackInit, Flags
<1>2. Flags /\ (ChangeInv /\ KeptInv) /\ [Next]_vars => Flags'
  BY FlagsStep
<1>3. Flags /\ (ChangeInv /\ KeptInv) => TypeOK
  <2> SUFFICES ASSUME Flags, ChangeInv, KeptInv PROVE TypeOK
    OBVIOUS
  <2>1. ChangeType /\ SessionType /\ PlaybackType
    BY DEF ChangeInv, KeptInv
  <2>2. ASSUME NEW a \in Accounts, NEW k \in DOMAIN pending[a]
        PROVE  /\ pending[a][k] \in [item : Items, played : BOOLEAN]
               /\ \A j \in DOMAIN pending[a] : pending[a][j].item = pending[a][k].item => j = k
    <3>1. pending[a] \in Seq(Change) /\ Once(pending[a])
      BY <2>1 DEF ChangeType
    <3>2. pending[a][k] \in Change
      BY <3>1
    <3> QED BY <3>1, <3>2 DEF Change, Once
  <2>3. {path, holder} \subseteq Accounts \cup {NoAccount}
    BY <2>1 DEF ChangeType
  <2> QED BY <2>1, <2>2, <2>3 DEF TypeOK, WatchedType, Flags
<1> QED BY <1>1, <1>2, <1>3, AlwaysChange, PTL DEF Spec
=============================================================================
