--------------------------- MODULE PlaybackOutbox ---------------------------
(***************************************************************************)
(* The offline playback journal (src/src/playback/                         *)
(* OfflinePlaybackJournal.cpp) and its users in App (AppPlayback.cpp).     *)
(* The player leaves a result file; the main thread puts it into the       *)
(* journal of the account, and again at the next start of the program; a   *)
(* thread pushes the journal to the server with the mutex held from the    *)
(* load to the save.  The discarding of an entry the server says is gone   *)
(* takes no mutex.                                                         *)
(***************************************************************************)
EXTENDS OutboxSession

CONSTANTS NoEntry, NoPosition, Positions

(* What the journal holds of an item, a journal, and what a player leaves. *)
Entries  == [base : Positions \cup {0}, final : Positions, flag : {"none", "conflict", "missing"}]
Journals == [Items -> Entries \cup {NoEntry}]
Results  == [item : Items, base : Positions \cup {0}, final : Positions, by : Accounts]

ASSUME PlaybackAssumption ==
    NoPosition \notin Positions /\ NoEntry \notin Entries \cup Results

VARIABLES
    journal,   \* playback-journal.v1 of each account
    result,    \* playback-result.txt
    syncer,    \* the sync thread: pc, account, entries in memory, items to do, changed
    wake,      \* m_journalWake
    failed,    \* m_journalFailures > 0
    discarded, \* the entries discardMissing() has read and is about to write
    position,  \* the server: the position of each item
    owed       \* history: positions that have not been pushed, discarded or lost to the card

playbackVars == <<journal, result, syncer, wake, failed, discarded, position, owed>>

NoSync == [pc |-> "wait", a |-> NoAccount, entries |-> [i \in Items |-> NoEntry], todo |-> {},
           changed |-> FALSE, retry |-> FALSE]

PlaybackInit ==
    /\ journal = [a \in Accounts |-> [i \in Items |-> NoEntry]]
    /\ result = NoEntry
    /\ syncer = NoSync
    /\ wake = FALSE /\ failed = FALSE
    /\ discarded = [i \in Items |-> NoEntry]
    /\ position = [a \in Accounts |-> [i \in Items |-> 0]]
    /\ owed = [a \in Accounts |-> [i \in Items |-> NoPosition]]

MutexFreeMutant == TRUE   \* the sync gives it up while it talks to the server
MutexFree       == syncer.pc \notin {"fetch", "submit"}

(* An item is played.  The screen reads the result on its second update after the button, which *)
(* is before the player has started: what it finds and removes is the result of the playback    *)
(* before.  The runner removes that file too.  The player may leave one of its own, with what   *)
(* the program last heard of the server's position; one that says the new position has been     *)
(* reported means nothing to the journal and is not told from none.                             *)
Play(i, p) ==
    /\ SignedIn
    /\ Request
    /\ main' = "ingest"
    /\ \/ /\ result' = NoEntry
          /\ \/ position' = [position EXCEPT ![session][i] = p]
             \/ UNCHANGED position
          /\ UNCHANGED owed
       \/ /\ \E b \in {0, position[session][i]} :
                result' = [item |-> i, base |-> b, final |-> p, by |-> session]
          /\ owed' = [owed EXCEPT ![session][i] = p]
          /\ UNCHANGED position
    /\ UNCHANGED <<session, journal, syncer, wake, failed, discarded>>

AsEntry(r) == [base |-> r.base, final |-> r.final, flag |-> "none"]

(* upsert(): a journal that cannot be read is taken for an empty one. *)
Upsert(a, kept) ==
    journal' = [journal EXCEPT ![a] = [kept EXCEPT ![result.item] = AsEntry(result)]]

(* ingestPlaybackResult(): after a playback the file is left where it is, at the start of the   *)
(* program it is removed, whether the journal could be written or not.  Nothing tells whose     *)
(* playback it was: another account's entry for the item is replaced.                           *)
Ingest ==
    /\ main \in {"ingest", "recover"}
    /\ MutexFree
    /\ main' = IF main = "ingest" THEN "idle" ELSE IF session = NoAccount THEN "idle" ELSE "start"
    /\ result' = IF main = "ingest" \/ session = NoAccount THEN result ELSE NoEntry
    /\ LET unowed == [owed EXCEPT ![session][result.item] = NoPosition] IN
       IF session = NoAccount \/ result = NoEntry
       THEN UNCHANGED <<journal, wake, owed, used>>
       ELSE \/ /\ Upsert(session, journal[session])
               /\ wake' = TRUE
               /\ owed' = IF result.by = session THEN owed ELSE unowed
               /\ UNCHANGED used
            \/ /\ Fault
               /\ Upsert(session, NoSync.entries)
               /\ wake' = TRUE
               /\ owed' = [owed EXCEPT ![session] =
                     [i \in Items |-> IF i = result.item /\ result.by = session THEN @[i]
                                     ELSE NoPosition]]
            \/ /\ Fault
               /\ owed' = IF result.by = session THEN unowed ELSE owed
               /\ UNCHANGED <<journal, wake>>
    /\ UNCHANGED <<session, syncer, failed, discarded, position>>

(* The loop: a nudge starts a pass, after a failed one another nudge or some seconds more. *)
Nudged ==
    /\ syncer.pc = "wait" /\ wake
    /\ wake' = FALSE
    /\ syncer' = [syncer EXCEPT !.pc = IF failed THEN "backoff" ELSE "begin"]
    /\ UNCHANGED <<sessionVars, journal, result, failed, discarded, position, owed>>

Rested ==
    /\ syncer.pc = "backoff"
    /\ wake' = FALSE
    /\ syncer' = [syncer EXCEPT !.pc = "begin"]
    /\ UNCHANGED <<sessionVars, journal, result, failed, discarded, position, owed>>

(* The session is copied before the mutex is taken: it may be over by then. *)
SyncBegin ==
    /\ syncer.pc = "begin"
    /\ syncer' = IF session = NoAccount THEN NoSync
                 ELSE [NoSync EXCEPT !.pc = "load", !.a = session]
    /\ UNCHANGED <<sessionVars, journal, result, wake, failed, discarded, position, owed>>

Waiting(e) == e # NoEntry /\ e.flag = "none"

(* A journal that is not there or cannot be read ends the pass. *)
SyncLoad ==
    /\ syncer.pc = "load"
    /\ LET kept == journal[syncer.a] IN
       \/ /\ syncer' = [syncer EXCEPT !.pc = "fetch", !.entries = kept,
                                      !.todo = {i \in Items : Waiting(kept[i])}]
          /\ UNCHANGED used
       \/ /\ (kept = NoSync.entries /\ UNCHANGED used) \/ Fault
          /\ syncer' = NoSync
    /\ UNCHANGED <<session, main, journal, result, wake, failed, discarded, position, owed>>

(* syncOfflinePlaybackEntries(): the server's position first; only what is where the playback *)
(* began is pushed.                                                                           *)
FetchPosition(i) ==
    /\ syncer.pc = "fetch"
    /\ i \in syncer.todo
    /\ LET Passed(s) == syncer' = [s EXCEPT !.todo = @ \ {i}] IN
       \/ /\ Fault
          /\ Passed([syncer EXCEPT !.entries[i].flag = "missing", !.changed = TRUE])
       \/ /\ Fault
          /\ Passed([syncer EXCEPT !.retry = TRUE])
       \/ /\ UNCHANGED used
          /\ IF position[syncer.a][i] = syncer.entries[i].base
             THEN syncer' = [syncer EXCEPT !.pc = "submit", !.todo = @ \cup {i}]
             ELSE Passed([syncer EXCEPT !.entries[i].flag = "conflict", !.changed = TRUE])
    /\ UNCHANGED <<session, main, journal, result, wake, failed, discarded, position, owed>>

Submit(i) ==
    /\ syncer.pc = "submit"
    /\ i \in syncer.todo
    /\ LET Passed(s) == syncer' = [s EXCEPT !.todo = @ \ {i}, !.pc = "fetch"]
           a == syncer.a
           final == syncer.entries[i].final IN
       \/ /\ position' = [position EXCEPT ![a][i] = final]
          /\ owed' = [owed EXCEPT ![a][i] = IF @ = final THEN NoPosition ELSE @]
          /\ Passed([syncer EXCEPT !.entries[i] = NoEntry, !.changed = TRUE])
          /\ UNCHANGED used
       \/ /\ Fault
          /\ Passed([syncer EXCEPT !.retry = TRUE])
          /\ UNCHANGED <<position, owed>>
    /\ UNCHANGED <<session, main, journal, result, wake, failed, discarded>>

SyncEnd ==
    /\ syncer.pc = "fetch"
    /\ syncer.todo = {}
    /\ \/ /\ journal' = IF syncer.changed THEN [journal EXCEPT ![syncer.a] = syncer.entries]
                        ELSE journal
          /\ UNCHANGED used
       \/ Fault /\ UNCHANGED journal
    /\ failed' = syncer.retry
    /\ syncer' = NoSync
    /\ UNCHANGED <<session, main, result, wake, discarded, position, owed>>

(* discardMissing(): a read and a write, and nothing that keeps the sync from coming between. *)
DiscardRead(i) ==
    /\ SignedIn
    /\ journal[session][i] # NoEntry
    /\ journal[session][i].flag = "missing"
    /\ discarded' = [journal[session] EXCEPT ![i] = NoEntry]
    /\ owed' = [owed EXCEPT ![session][i] = NoPosition]
    /\ main' = "discard"
    /\ UNCHANGED <<session, used, journal, result, syncer, wake, failed, position>>

DiscardWrite ==
    /\ main = "discard"
    /\ \/ journal' = [journal EXCEPT ![session] = discarded] /\ UNCHANGED used
       \/ Fault /\ UNCHANGED journal
    /\ main' = "idle"
    /\ discarded' = NoSync.entries
    /\ UNCHANGED <<session, result, syncer, wake, failed, position, owed>>

SyncerStep ==
    \/ Nudged \/ Rested \/ SyncBegin \/ SyncLoad \/ SyncEnd
    \/ \E i \in Items : FetchPosition(i) \/ Submit(i)
=============================================================================
