------------------------- MODULE LibraryCoordinator -------------------------
(***************************************************************************)
(* LibraryCoordinator (src/src/library/LibraryCoordinator*.cpp): everything*)
(* that changes the library catalog of one account goes through it.        *)
(*                                                                         *)
(* Five kinds of operation share one slot: the startup policy, the full    *)
(* population, the daily safety reconcile, the live worker that applies    *)
(* the server's events, and the season/episode (hierarchy) worker.  Each   *)
(* has a thread of its own; requests are admitted under m_startupMutex and *)
(* refused while the slot is taken.  Startup and population hold the slot  *)
(* until Home has consumed their publication; safety and live release it   *)
(* when their work is durable and keep the result for Home.                *)
(*                                                                         *)
(* The cold-start sequence (reservation, claim, handoff) keeps the live    *)
(* worker back until Home's startup and the population that may follow it  *)
(* are over.                                                               *)
(*                                                                         *)
(* The catalog is what it lacks: missed is the set of items whose last     *)
(* change at the server is not in it, hidden the part of missed that was   *)
(* changed before the stored checkpoint, which a query for the changes     *)
(* since the checkpoint does not return.                                   *)
(***************************************************************************)
EXTENDS LiveEvents, Sequences

CONSTANTS NoRequest,
          MaxApply,     \* ids applyLibraryChanges() accepts in one batch (64 in the code)
          MaxHierarchy, \* hierarchy requests that may be queued (8 in the code)
          MaxGen        \* bound: the generation counter stays there

ASSUME LimitAssumption == MaxHierarchy \in Nat /\ MaxApply \in Nat /\ MaxGen \in Nat \ {0}

Workers == {"Startup", "FullPopulation", "SafetyReconcile", "LiveChange"}
Kinds   == Workers \cup {"Hierarchy"}
Phases  == {"Executing", "PublicationPending"}
Free    == [kind |-> "None", phase |-> "Idle"]

VARIABLES
    op,         \* m_operationState: kind and phase of the serialized slot
    seq,        \* the cold-start sequence: reserved, claimed, handoff, owner, demand
    offline,    \* m_manualOfflineMode
    stopped,    \* m_stopped
    gen,        \* m_catalogGeneration
    disk,       \* the stored checkpoint: sync and reconcile times known, generation
    txn,        \* the worker whose top-level sync is open in the catalog, or "None"
    missed,     \* items whose last change is not in the catalog
    hidden,     \* those of missed that were changed before the checkpoint
    excused,    \* history: items whose last event found no socket, no room, or was dropped
    linked,     \* the event socket is connected
    source,     \* LibrarySync's event queue
    queue,      \* m_liveChangeRequests
    barrier,    \* m_liveChangeDrainPendingCatchUp
    batch,      \* the batch the live worker is at
    cancelled,  \* workers whose cancellation token is set
    run,        \* what each worker thread is at
    startup,    \* m_startupResult
    updates,    \* m_fullPopulationUpdates
    ready,      \* workers whose result is retained for Home
    hier,       \* the hierarchy worker: queue, active, pc, accepted, tokens, results, next
    failures    \* bound: requests and statements that may still fail

modeVars    == <<offline, stopped>>
slotVars    == <<op, seq>>
catalogVars == <<gen, disk, txn, missed, hidden, excused>>
eventVars   == <<linked, source, queue, barrier, batch>>
resultVars  == <<startup, updates, ready>>
coordinatorVars == <<modeVars, slotVars, catalogVars, eventVars, resultVars, cancelled, run, hier,
                     failures>>

Modes   == {"SkipFresh", "DeltaCatchUp", "FullReconcile"}
IdleRun == [pc |-> "none", got |-> {}, todo |-> {}, g |-> 0, mode |-> "FullReconcile",
            out |-> "none"]
NoStartup == [mode |-> "FullReconcile", out |-> "failed"]

AtLeast(a, b) == IF a >= b THEN a ELSE b
After(g)      == IF g < MaxGen THEN g + 1 ELSE g

(***************************************************************************)
(* The slot.                                                               *)
(***************************************************************************)
Begun(kind)    == [kind |-> kind, phase |-> "Executing"]
Pending(kind)  == [kind |-> kind, phase |-> "PublicationPending"]

ReleasedMutant(kind) == Free   \* whoever holds it

(* releaseOperation(): only the kind that holds the slot gives it up. *)
Released(kind) == IF op.kind = kind THEN Free ELSE op

AdmittedMutant(kind) ==   \* Hierarchy joins whatever runs
    /\ ~stopped
    /\ op.kind = "None" \/ kind = "Hierarchy"
    /\ kind \in {"SafetyReconcile", "LiveChange"} => kind \notin ready
    /\ kind = "SafetyReconcile" => ~offline
    /\ kind = "Startup" => ~seq.handoff

(* serializedOperationAdmittedLocked(): only the hierarchy may join itself, only the safety     *)
(* reconcile needs the account to be online.                                                    *)
Admitted(kind) ==
    /\ ~stopped
    /\ op.kind = "None" \/ (kind = "Hierarchy" /\ op.kind = kind)
    /\ kind \in {"SafetyReconcile", "LiveChange"} => kind \notin ready
    /\ kind = "SafetyReconcile" => ~offline
    /\ kind = "Startup" => ~seq.handoff

(***************************************************************************)
(* The cold-start sequence.                                                *)
(***************************************************************************)
NoSequence == [reserved |-> FALSE, claimed |-> FALSE, handoff |-> FALSE, owner |-> FALSE,
               demand |-> FALSE]

Demanded(s) == [s EXCEPT !.demand = ~offline \/ s.demand]

Claimed(kind) ==
    IF seq.claimed THEN Demanded(seq)
    ELSE IF seq.handoff
         THEN IF kind = "FullPopulation"
              THEN Demanded([seq EXCEPT !.handoff = FALSE, !.claimed = TRUE])
              ELSE Demanded(seq)
         ELSE Demanded([seq EXCEPT !.claimed = TRUE, !.reserved = FALSE])

HandedOff == Demanded([seq EXCEPT !.claimed = FALSE, !.handoff = TRUE])

SequenceReleasedMutant(token) ==   \* the demand stays armed
    IF token /\ seq.owner /\ ~seq.claimed /\ (seq.reserved \/ seq.handoff)
    THEN [NoSequence EXCEPT !.demand = seq.demand] ELSE seq

(* releaseStartupSequence(token): only the owner's token releases, and only what nobody claimed. *)
SequenceReleased(token) ==
    IF token /\ seq.owner /\ ~seq.claimed /\ (seq.reserved \/ seq.handoff) THEN NoSequence ELSE seq

(* reserveStartupSequence(), before start(). *)
ReservedSequence == Demanded([NoSequence EXCEPT !.owner = TRUE, !.reserved = TRUE])

SetManualOfflineModeMutant ==   \* not armed again on the way back online
    /\ offline' = ~offline
    /\ seq' = [seq EXCEPT !.demand = offline /\ @]

(* Offline nothing defers the live worker; back online, what is still unclaimed does again. *)
SetManualOfflineMode ==
    /\ offline' = ~offline
    /\ seq' = [seq EXCEPT !.demand = offline /\ (@ \/ seq.reserved \/ seq.handoff)]

(***************************************************************************)
(* Requests of a worker.  Admission and the start of the thread are two    *)
(* steps: between them the previous thread is joined without the mutex.    *)
(***************************************************************************)
Admit(kind) ==
    /\ Admitted(kind)
    /\ op' = Begun(kind)
    /\ seq' = Claimed(kind)
    /\ cancelled' = cancelled \ {kind}
    /\ run' = [run EXCEPT ![kind] = [IdleRun EXCEPT !.pc = "join"]]
    /\ updates' = IF kind = "FullPopulation" THEN <<>> ELSE updates

RequestStartup    == /\ Admit("Startup")
                     /\ UNCHANGED <<modeVars, catalogVars, eventVars, startup, ready, hier, failures>>
RequestPopulation == /\ Admit("FullPopulation")
                     /\ UNCHANGED <<modeVars, catalogVars, eventVars, startup, ready, hier, failures>>

(* The gate after the join: a stop in between ends the operation before its thread exists. *)
Launch(kind) ==
    /\ run[kind].pc = "join"
    /\ IF stopped
       THEN /\ run' = [run EXCEPT ![kind] = IdleRun]
            /\ op' = Released(kind)
            /\ seq' = IF seq.claimed THEN NoSequence ELSE seq
            /\ UNCHANGED startup
       ELSE /\ run' = [run EXCEPT ![kind].pc = IF kind = "Startup" THEN "read" ELSE "begin",
                                  ![kind].g = IF kind = "Startup" THEN 0 ELSE After(gen)]
            /\ startup' = IF kind = "Startup" THEN NoStartup ELSE startup
            /\ UNCHANGED slotVars
    /\ UNCHANGED <<modeVars, catalogVars, eventVars, cancelled, updates, ready, hier, failures>>

(* requestSafetyReconcile(): called on the interface thread only, which is also the one that    *)
(* stops the coordinator, so its two halves are one step.  Whether it is due is the clock's.    *)
RequestSafety ==
    /\ Admitted("SafetyReconcile")
    /\ op' = Begun("SafetyReconcile")
    /\ cancelled' = cancelled \ {"SafetyReconcile"}
    /\ run' = [run EXCEPT !["SafetyReconcile"] = [IdleRun EXCEPT !.pc = "read"]]
    /\ UNCHANGED <<modeVars, seq, catalogVars, eventVars, resultVars, hier, failures>>

Cancel(kinds) == cancelled' = cancelled \cup kinds

(***************************************************************************)
(* The steps of a worker.  Each is one call of the database worker or of   *)
(* the server; a cancellation is seen before a step, a fault ends it.      *)
(***************************************************************************)
Fault == failures > 0 /\ failures' = failures - 1

Ended(w, out) == [run EXCEPT ![w].pc = "publish", ![w].out = out]
Goto(w, pc)   == [run EXCEPT ![w].pc = pc]

(* A step that sees its cancellation, or whose request or statement fails.  A page and the      *)
(* cancellation before the finalize abort the open sync, a finalize that fails leaves it open.  *)
Interruptible == {"read", "fetch", "write", "begin", "page", "final", "get", "put"}

GiveUp(w) ==
    /\ run[w].pc \in Interruptible
    /\ ~(w = "Startup" /\ run[w].pc = "read")
    /\ \/ /\ w \in cancelled
          /\ run' = Ended(w, "cancelled")
          /\ txn' = IF run[w].pc \in {"page", "final"} THEN "None" ELSE txn
          /\ UNCHANGED failures
       \/ /\ Fault
          /\ run' = Ended(w, "failed")
          /\ txn' = IF run[w].pc = "page" THEN "None" ELSE txn
    /\ UNCHANGED <<modeVars, slotVars, gen, disk, missed, hidden, excused, eventVars, resultVars,
                   cancelled, hier>>

(* readSyncState, then the startup policy or the choice between catch-up and walk. *)
Policies == IF disk.succ /\ disk.rec /\ disk.gen > 0 THEN Modes ELSE {"FullReconcile"}

ReadStartup ==
    /\ run["Startup"].pc = "read"
    /\ \/ /\ "Startup" \in cancelled
          /\ \E m \in Policies : run' = [Ended("Startup", "cancelled") EXCEPT !["Startup"].mode = m]
          /\ UNCHANGED <<gen, failures>>
       \/ /\ Fault
          /\ run' = Ended("Startup", "ok")
          /\ UNCHANGED gen
       \/ /\ "Startup" \notin cancelled
          /\ gen' = AtLeast(gen, disk.gen)
          /\ \E m \in Policies :
                run' = IF m = "DeltaCatchUp"
                       THEN [run EXCEPT !["Startup"].pc = "fetch", !["Startup"].mode = m,
                                        !["Startup"].g = After(gen')]
                       ELSE [Ended("Startup", "ok") EXCEPT !["Startup"].mode = m]
          /\ UNCHANGED failures
    /\ UNCHANGED <<modeVars, slotVars, disk, txn, missed, hidden, excused, eventVars, resultVars,
                   cancelled, hier>>

ReadState(w) ==
    /\ w \in {"SafetyReconcile", "LiveChange"} \ cancelled
    /\ run[w].pc = "read"
    /\ gen' = AtLeast(gen, disk.gen)
    /\ run' = [run EXCEPT ![w].pc = IF disk.succ THEN "fetch" ELSE "begin", ![w].g = After(gen')]
    /\ UNCHANGED <<modeVars, slotVars, disk, txn, missed, hidden, excused, eventVars, resultVars,
                   cancelled, hier, failures>>

(* catchUpChangedCatalog(): what changed since the checkpoint, its rows, a new checkpoint.      *)
CatchUpFetch(w) ==
    /\ run[w].pc = "fetch"
    /\ w \notin cancelled
    /\ LET changed == missed \ hidden
       IN run' = [run EXCEPT ![w].got = changed, ![w].pc = IF changed = {} THEN "mark" ELSE "write"]
    /\ UNCHANGED <<modeVars, slotVars, catalogVars, eventVars, resultVars, cancelled, hier, failures>>

StoredMutant(ids) == missed' = missed \ ids /\ UNCHANGED hidden

Stored(ids) == missed' = missed \ ids /\ hidden' = hidden \ ids

CatchUpWrite(w) ==
    /\ run[w].pc = "write"
    /\ w \notin cancelled
    /\ Stored(run[w].got)
    /\ run' = Goto(w, "mark")
    /\ UNCHANGED <<modeVars, slotVars, gen, disk, txn, excused, eventVars, resultVars, cancelled,
                   hier, failures>>

(* writeSyncState(): refused when it would take the stored generation or times back.  The       *)
(* checkpoint is dated with the clock: whatever is still missing now is older than it.          *)
Marked(succ, rec, g) ==
    /\ g >= disk.gen
    /\ disk.rec => rec
    /\ disk' = [succ |-> succ, rec |-> rec, gen |-> g]
    /\ hidden' = missed
MarkFails(rec, g) ==
    /\ Fault \/ (UNCHANGED failures /\ (g < disk.gen \/ (disk.rec /\ ~rec)))
    /\ UNCHANGED <<disk, hidden>>

AfterCatchUp(w) ==
    IF w = "Startup" THEN Ended(w, "ok") ELSE Goto(w, IF w = "LiveChange" THEN "get" ELSE "begin")

CatchUpMark(w) ==
    /\ run[w].pc = "mark"
    /\ \/ /\ Marked(TRUE, disk.rec, run[w].g)
          /\ gen' = AtLeast(gen, run[w].g)
          /\ run' = AfterCatchUp(w)
          /\ UNCHANGED failures
       \/ /\ MarkFails(disk.rec, run[w].g)
          /\ run' = Ended(w, "failed")
          /\ UNCHANGED gen
    /\ UNCHANGED <<modeVars, slotVars, txn, missed, excused, eventVars, resultVars, cancelled, hier>>

(* The authoritative walk of the population and of reconcileAuthoritativeMembership(): begin,   *)
(* pages, finalize, checkpoint.  A begin discards whatever sync was open.                       *)
WalkBegin(w) ==
    /\ run[w].pc = "begin"
    /\ w \notin cancelled
    /\ txn' = w
    /\ run' = [run EXCEPT ![w].pc = "page", ![w].todo = Items]
    /\ UNCHANGED <<modeVars, slotVars, gen, disk, missed, hidden, excused, eventVars, resultVars,
                   cancelled, hier, failures>>

WalkPage(w) ==
    /\ run[w].pc = "page"
    /\ w \notin cancelled
    /\ \E i \in run[w].todo :
        /\ Stored({i})
        /\ run' = [run EXCEPT ![w].todo = @ \ {i},
                              ![w].pc = IF run[w].todo = {i} THEN "final" ELSE "page"]
    /\ updates' = IF w = "FullPopulation" THEN Append(updates, "page") ELSE updates
    /\ UNCHANGED <<modeVars, slotVars, gen, disk, txn, excused, eventVars, startup, ready, cancelled,
                   hier, failures>>

(* finalizeTopLevelSync() refuses a sync that is not the open one. *)
WalkFinalize(w) ==
    /\ run[w].pc = "final"
    /\ w \notin cancelled
    /\ IF txn = w
       THEN /\ txn' = "None"
            /\ gen' = AtLeast(gen, run[w].g)
            /\ run' = Goto(w, "walked")
       ELSE /\ run' = Ended(w, "failed")
            /\ UNCHANGED <<txn, gen>>
    /\ UNCHANGED <<modeVars, slotVars, disk, missed, hidden, excused, eventVars, resultVars, cancelled,
                   hier, failures>>

(* The walk is committed: its checkpoint is written whether or not it is cancelled by now.  For *)
(* the population and the safety reconcile the operation has succeeded even if this fails.      *)
WalkMark(w) ==
    /\ run[w].pc = "walked"
    /\ \/ /\ Marked(TRUE, TRUE, run[w].g)
          /\ run' = IF w = "LiveChange" THEN Goto(w, "get") ELSE Ended(w, "ok")
          /\ UNCHANGED failures
       \/ /\ MarkFails(TRUE, run[w].g)
          /\ run' = Ended(w, IF w = "LiveChange" THEN "failed" ELSE "ok")
    /\ UNCHANGED <<modeVars, slotVars, gen, txn, missed, excused, eventVars, resultVars, cancelled,
                   hier>>

(***************************************************************************)
(* Publications.                                                           *)
(***************************************************************************)
PublishStartupMutant ==   \* the phase is not advanced
    /\ run["Startup"].pc = "publish"
    /\ startup' = [mode |-> run["Startup"].mode, out |-> run["Startup"].out]
    /\ run' = [run EXCEPT !["Startup"] = IdleRun]
    /\ UNCHANGED <<modeVars, slotVars, catalogVars, eventVars, updates, ready, cancelled, hier, failures>>

PublishStartup ==
    /\ run["Startup"].pc = "publish"
    /\ startup' = [mode |-> run["Startup"].mode, out |-> run["Startup"].out]
    /\ op' = IF op.kind = "Startup" THEN Pending("Startup") ELSE op
    /\ run' = [run EXCEPT !["Startup"] = IdleRun]
    /\ UNCHANGED <<modeVars, seq, catalogVars, eventVars, updates, ready, cancelled, hier, failures>>

PublishPopulation ==
    /\ run["FullPopulation"].pc = "publish"
    /\ updates' = Append(updates, run["FullPopulation"].out)
    /\ op' = IF op.kind = "FullPopulation" THEN Pending("FullPopulation") ELSE op
    /\ run' = [run EXCEPT !["FullPopulation"] = IdleRun]
    /\ UNCHANGED <<modeVars, seq, catalogVars, eventVars, startup, ready, cancelled, hier, failures>>

PublishSafety ==
    /\ run["SafetyReconcile"].pc = "publish"
    /\ ready' = ready \cup {"SafetyReconcile"}
    /\ op' = Released("SafetyReconcile")
    /\ run' = [run EXCEPT !["SafetyReconcile"] = IdleRun]
    /\ UNCHANGED <<modeVars, seq, catalogVars, eventVars, startup, updates, cancelled, hier, failures>>

(* takeStartupSyncResult(): the slot is free, and the sequence goes on as a handoff exactly     *)
(* when Home will ask for the population.                                                       *)
PopulationExpected(r) ==
    (r.mode = "FullReconcile" /\ r.out = "ok") \/ (r.mode = "DeltaCatchUp" /\ r.out = "failed")

TakeStartup ==
    /\ op = Pending("Startup")
    /\ op' = Free
    /\ seq' = IF PopulationExpected(startup) THEN HandedOff ELSE NoSequence
    /\ UNCHANGED <<modeVars, catalogVars, eventVars, resultVars, cancelled, run, hier, failures>>

TakeUpdateMutant ==   \* the sequence is not finished
    /\ updates # <<>>
    /\ updates' = Tail(updates)
    /\ op' = IF Len(updates) = 1 /\ op = Pending("FullPopulation") THEN Free ELSE op
    /\ UNCHANGED <<modeVars, seq, catalogVars, eventVars, startup, ready, cancelled, run, hier, failures>>

(* takeFullPopulationUpdate(): the last one gives the slot and the sequence back. *)
TakeUpdate ==
    /\ updates # <<>>
    /\ updates' = Tail(updates)
    /\ IF Len(updates) = 1 /\ op = Pending("FullPopulation")
       THEN op' = Free /\ seq' = NoSequence
       ELSE UNCHANGED slotVars
    /\ UNCHANGED <<modeVars, catalogVars, eventVars, startup, ready, cancelled, run, hier, failures>>

(* takeLiveChangeResult(), takeSafetyReconcileResult(): the slot was released with the publication. *)
TakeReady(kind) ==
    /\ kind \in ready
    /\ ready' = ready \ {kind}
    /\ op' = IF kind = "LiveChange" THEN Released(kind) ELSE op
    /\ UNCHANGED <<modeVars, seq, catalogVars, eventVars, startup, updates, cancelled, run, hier,
                   failures>>

(***************************************************************************)
(* The live worker: drain the source, claim a batch, apply it.             *)
(***************************************************************************)
LiveDrain ==
    /\ run["LiveChange"].pc = "none"
    /\ ~barrier /\ ~stopped
    /\ source # EmptyQueue
    /\ source' = EmptyQueue
    /\ \E kept \in Kept(queue, source.ids) :
        LET q == Pushed(queue, source, kept)
            lost == source.ids \ q.ids
        IN /\ queue' = q
           /\ barrier' = (lost # {})
           /\ excused' = excused \cup lost
    /\ UNCHANGED <<modeVars, slotVars, gen, disk, txn, missed, hidden, linked, batch, resultVars,
                   cancelled, run, hier, failures>>

LiveClaim ==
    /\ run["LiveChange"].pc = "none"
    /\ ~seq.demand
    /\ Admitted("LiveChange")
    /\ queue # EmptyQueue
    /\ batch' = queue
    /\ queue' = EmptyQueue
    /\ barrier' = (barrier \/ queue.catchUp)
    /\ op' = Begun("LiveChange")
    /\ cancelled' = cancelled \ {"LiveChange"}
    /\ run' = [run EXCEPT !["LiveChange"] =
                  [IdleRun EXCEPT !.pc = IF queue.catchUp THEN "read" ELSE "get"]]
    /\ UNCHANGED <<modeVars, seq, catalogVars, linked, source, resultVars, hier, failures>>

(* applyLibraryChanges(): the items of the batch, their rows.  A batch of too many ids, which  *)
(* the queues are large enough to hold, is refused.                                             *)
LiveGet ==
    /\ run["LiveChange"].pc = "get"
    /\ "LiveChange" \notin cancelled
    /\ run' = IF Cardinality(batch.ids) > MaxApply
              THEN Ended("LiveChange", "failed")
              ELSE [run EXCEPT !["LiveChange"].pc = "put", !["LiveChange"].got = batch.ids,
                               !["LiveChange"].g = IF @ = 0 THEN After(gen) ELSE @]
    /\ UNCHANGED <<modeVars, slotVars, catalogVars, eventVars, resultVars, cancelled, hier, failures>>

LivePut ==
    /\ run["LiveChange"].pc = "put"
    /\ "LiveChange" \notin cancelled
    /\ Stored(run["LiveChange"].got)
    /\ gen' = AtLeast(gen, run["LiveChange"].g)
    /\ run' = Ended("LiveChange", "ok")
    /\ UNCHANGED <<modeVars, slotVars, disk, txn, excused, eventVars, resultVars, cancelled, hier,
                   failures>>

RequeuedMutant(ok) == FALSE   \* a failed catch-up batch is dropped too

Requeued(ok) == batch.catchUp /\ ~ok /\ ~stopped

(* The end of a batch.  A catch-up batch that failed goes back with the flag raised; a plain    *)
(* batch that failed is gone.  The result is kept, the slot free.                               *)
LivePublish ==
    LET ok == run["LiveChange"].out = "ok" IN
    /\ run["LiveChange"].pc = "publish"
    /\ IF Requeued(ok)
       THEN \E kept \in Kept(queue, batch.ids) :
                /\ queue' = MarkCatchUp(Pushed(queue, batch, kept))
                /\ excused' = excused \cup (batch.ids \ queue'.ids)
       ELSE /\ UNCHANGED queue
            /\ excused' = IF ok \/ batch.catchUp THEN excused ELSE excused \cup batch.ids
    /\ barrier' = IF batch.catchUp THEN ~ok ELSE barrier
    /\ batch' = EmptyQueue
    /\ ready' = ready \cup {"LiveChange"}
    /\ op' = Released("LiveChange")
    /\ run' = [run EXCEPT !["LiveChange"] = IdleRun]
    /\ UNCHANGED <<modeVars, seq, gen, disk, txn, missed, hidden, linked, source, startup, updates,
                   cancelled, hier, failures>>

(***************************************************************************)
(* The server and its event socket (JellyfinLibraryEventSocket).  An item  *)
(* that changes reaches the source queue only while the socket is there;   *)
(* the loss of the connection leaves the catch-up flag.                    *)
(***************************************************************************)
ServerChange(i) ==
    /\ missed' = missed \cup {i}
    /\ hidden' = hidden \ {i}
    /\ run' = [w \in Workers |-> [run[w] EXCEPT !.got = @ \ {i}]]
    /\ IF linked
       THEN \E kept \in Kept(source, {i}) :
                /\ source' = Pushed(source, [ids |-> {i}, catchUp |-> FALSE], kept)
                /\ excused' = IF i \in source'.ids THEN excused \ {i} ELSE excused \cup {i}
       ELSE /\ excused' = excused \cup {i}
            /\ UNCHANGED source
    /\ UNCHANGED <<modeVars, slotVars, gen, disk, txn, linked, queue, barrier, batch, resultVars,
                   cancelled, hier, failures>>

SocketDown ==
    /\ linked
    /\ linked' = FALSE
    /\ source' = MarkCatchUp(source)
    /\ UNCHANGED <<modeVars, slotVars, catalogVars, queue, barrier, batch, resultVars, cancelled, run,
                   hier, failures>>

SocketUp ==
    /\ ~linked /\ ~stopped
    /\ linked' = TRUE
    /\ UNCHANGED <<modeVars, slotVars, catalogVars, source, queue, barrier, batch, resultVars,
                   cancelled, run, hier, failures>>

Step(w) ==
    \/ GiveUp(w)
    \/ ReadState(w)
    \/ CatchUpFetch(w) \/ CatchUpWrite(w) \/ CatchUpMark(w)
    \/ WalkBegin(w) \/ WalkPage(w) \/ WalkFinalize(w) \/ WalkMark(w)
    \/ w \in {"Startup", "FullPopulation"} /\ Launch(w)
    \/ w = "Startup" /\ (ReadStartup \/ PublishStartup)
    \/ w = "FullPopulation" /\ PublishPopulation
    \/ w = "SafetyReconcile" /\ PublishSafety
    \/ w = "LiveChange" /\ (LiveDrain \/ LiveClaim \/ LiveGet \/ LivePut \/ LivePublish)
=============================================================================
