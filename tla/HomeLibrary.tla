---------------------------- MODULE HomeLibrary ----------------------------
(***************************************************************************)
(* Home's side of the library (HomeLibraryController and HomeScreen in     *)
(* src/src/ui/screens): the fetch thread that runs the startup policy, the *)
(* population it may call for, and the interface thread, which starts the  *)
(* fetch, takes the results the coordinator retains, asks for the daily    *)
(* reconcile and the season prefetch, toggles manual offline mode, and     *)
(* tears Home down.  With it, series and season screens that ask for one   *)
(* hierarchy walk, the server, and the end of the session.                 *)
(***************************************************************************)
EXTENDS LibraryHierarchy

CONSTANTS MaxFetches, MaxToggles, MaxChanges, MaxDrops, MaxSafety, MaxScreens, MaxFaults

VARIABLES
    fetch,   \* the fetch thread: pc, its cancellation flag, policy, outcome, generation
    home,    \* the home screen: phase, pending wishes, what it waits for
    budget   \* bound: how often each input may still happen

vars == <<coordinatorVars, fetch, home, budget>>

(* The coordinator as AppSession::configureCatalogScopeForSession() leaves it for a new Home:   *)
(* started, with the cold-start sequence reserved when the session is online.                   *)
Init ==
    /\ offline \in BOOLEAN
    /\ stopped = FALSE
    /\ op = Free
    /\ seq = [ReservedSequence EXCEPT !.demand = ~offline]
    /\ gen = 0
    /\ disk \in {[succ |-> FALSE, rec |-> FALSE, gen |-> 0], [succ |-> TRUE, rec |-> TRUE, gen |-> 1]}
    /\ txn = "None"
    /\ missed = IF disk.succ THEN {} ELSE Items
    /\ hidden = {} /\ excused = {}
    /\ linked = TRUE
    /\ source = EmptyQueue /\ queue = EmptyQueue /\ batch = EmptyQueue
    /\ barrier = FALSE
    /\ cancelled = {}
    /\ run = [w \in Workers |-> IdleRun]
    /\ startup = NoStartup /\ updates = <<>> /\ ready = {}
    /\ hier = NoHierarchy
    /\ failures = MaxFaults
    /\ fetch = [pc |-> "idle", cancel |-> FALSE, off |-> FALSE, mode |-> "FullReconcile",
                failed |-> FALSE, force |-> FALSE, g |-> 0]
    /\ home = [phase |-> "open", wanted |-> FALSE, offline |-> FALSE, task |-> 0, safety |-> FALSE,
               screens |-> {}, snapshot |-> FALSE]
    /\ budget = [fetches |-> MaxFetches, toggles |-> MaxToggles, changes |-> MaxChanges,
                 drops |-> MaxDrops, safety |-> MaxSafety, screens |-> MaxScreens]

Spend(what) == budget[what] > 0 /\ budget' = [budget EXCEPT ![what] = @ - 1]

(***************************************************************************)
(* The fetch thread (HomeLibraryController::fetchWorker).                  *)
(***************************************************************************)
StartedFetch == [fetch EXCEPT !.pc = "begun", !.cancel = FALSE, !.off = offline, !.failed = FALSE,
                        !.mode = "FullReconcile", !.force = FALSE]
Fetching(pc) == fetch' = [fetch EXCEPT !.pc = pc]
Finished(failed) == [fetch EXCEPT !.pc = "done", !.failed = failed, !.g = gen']

FetchOffline ==
    /\ fetch.pc = "begun" /\ fetch.off
    /\ Fetching("done")
    /\ UNCHANGED <<coordinatorVars, home, budget>>

FetchStartup ==
    /\ fetch.pc = "begun" /\ ~fetch.off
    /\ IF Admitted("Startup")
       THEN RequestStartup /\ Fetching("spawn")
       ELSE UNCHANGED coordinatorVars /\ fetch' = [fetch EXCEPT !.pc = "ask", !.force = TRUE]
    /\ UNCHANGED <<home, budget>>

(* startStartupSync() has returned; a cancellation it could not see is passed on. *)
FetchSpawned(kind, from, to) ==
    /\ fetch.pc = from
    /\ run[kind].pc # "join"
    /\ Cancel(IF fetch.cancel THEN {kind} ELSE {})
    /\ Fetching(to)
    /\ UNCHANGED <<modeVars, slotVars, catalogVars, eventVars, resultVars, run, hier, failures, home,
                   budget>>

FetchPolicy ==
    /\ fetch.pc = "wait"
    /\ TakeStartup
    /\ LET r == startup
           walk == r.mode = "FullReconcile" \/ (r.mode = "DeltaCatchUp" /\ r.out = "failed")
       IN fetch' = IF walk THEN [fetch EXCEPT !.pc = "ask", !.mode = r.mode, !.force = TRUE]
                   ELSE [Finished(FALSE) EXCEPT !.mode = r.mode]
    /\ UNCHANGED <<home, budget>>

(* The wait ends without a result: stopped, or the slot is not the startup's any more. *)
FetchNoPolicy ==
    /\ fetch.pc = "wait"
    /\ op # Pending("Startup")
    /\ stopped \/ op # Begun("Startup")
    /\ fetch' = [fetch EXCEPT !.pc = "ask", !.force = TRUE]
    /\ UNCHANGED <<coordinatorVars, home, budget>>

FetchAsk ==
    /\ fetch.pc = "ask"
    /\ IF Admitted("FullPopulation")
       THEN RequestPopulation /\ Fetching("launch")
       ELSE UNCHANGED coordinatorVars /\ fetch' = Finished(TRUE)
    /\ UNCHANGED <<home, budget>>

FetchConsume ==
    /\ fetch.pc = "consume"
    /\ TakeUpdate
    /\ fetch' = IF Head(updates) = "page" THEN fetch ELSE Finished(Head(updates) # "ok")
    /\ UNCHANGED <<home, budget>>

FetchNoUpdate ==
    /\ fetch.pc = "consume"
    /\ updates = <<>>
    /\ stopped \/ op # Begun("FullPopulation")
    /\ UNCHANGED coordinatorVars
    /\ fetch' = Finished(TRUE)
    /\ UNCHANGED <<home, budget>>

FetchStep ==
    \/ FetchOffline \/ FetchStartup
    \/ FetchSpawned("Startup", "spawn", "wait") \/ FetchPolicy \/ FetchNoPolicy
    \/ FetchAsk \/ FetchSpawned("FullPopulation", "launch", "consume")
    \/ FetchConsume \/ FetchNoUpdate

(***************************************************************************)
(* The interface thread.                                                   *)
(***************************************************************************)
Open == home.phase = "open"

StartFetch ==
    /\ Open /\ fetch.pc = "idle"
    /\ Spend("fetches")
    /\ fetch' = StartedFetch
    /\ UNCHANGED <<coordinatorVars, home>>

(* finishFetch(): what the fetch brought, the fetch a toggle asked for, and the season prefetch *)
(* when the fetch found shows for it.  A cancelled fetch leaves the presentation alone.         *)
Presented(shown) ==
    [home EXCEPT !.offline = shown, !.wanted = FALSE, !.snapshot = @ \/ (fetch.off /\ ~fetch.cancel)]
Prefetches == /\ ~fetch.failed /\ ~fetch.off /\ ~fetch.cancel
              /\ home.task = 0
              /\ hier.next <= MaxScreens + MaxFetches

ApplyFetch ==
    /\ Open /\ fetch.pc = "done"
    /\ fetch' = IF home.wanted THEN StartedFetch ELSE [fetch EXCEPT !.pc = "idle"]
    /\ \E shown \in IF fetch.cancel THEN {home.offline}
                     ELSE IF fetch.off THEN {TRUE}
                     ELSE IF fetch.failed THEN BOOLEAN ELSE {FALSE} :
        \/ /\ Prefetches
           /\ RequestHierarchy("Home", fetch.g, fetch.force)
           /\ home' = [Presented(shown) EXCEPT !.task = hier.next]
        \/ home' = Presented(shown) /\ UNCHANGED coordinatorVars
    /\ UNCHANGED budget

(* cancelFetch(): the fetch's flag, the tokens of its two operations, Home's hierarchy requests. *)
CancelFetch(kinds) ==
    /\ Cancel({"Startup", "FullPopulation"} \cup kinds)
    /\ Settled(HomeDropped)

(* The offline row of Settings.  Entering offline mode may be served from the last offline      *)
(* snapshot; otherwise a fetch runs now, or after the one that is being cancelled.              *)
ToggleOffline ==
    /\ Open /\ ~stopped
    /\ Spend("toggles")
    /\ SetManualOfflineMode
    /\ CancelFetch({})
    /\ \/ /\ fetch.pc = "idle"
          /\ fetch' = [StartedFetch EXCEPT !.off = ~offline]
          /\ UNCHANGED home
       \/ /\ fetch.pc # "idle"
          /\ fetch' = [fetch EXCEPT !.cancel = TRUE]
          /\ home' = [home EXCEPT !.wanted = TRUE]
       \/ /\ ~offline /\ home.snapshot
          /\ fetch' = [fetch EXCEPT !.cancel = TRUE]
          /\ home' = [home EXCEPT !.offline = TRUE]
    /\ UNCHANGED <<stopped, catalogVars, eventVars, resultVars, run, failures>>

TakeLive ==
    /\ Open /\ ~offline /\ ~home.offline
    /\ TakeReady("LiveChange")
    /\ UNCHANGED <<fetch, home, budget>>

TakeSafety ==
    /\ Open /\ home.safety
    /\ TakeReady("SafetyReconcile")
    /\ home' = [home EXCEPT !.safety = FALSE]
    /\ UNCHANGED <<fetch, budget>>

RequestMaintenance ==
    /\ Open
    /\ Spend("safety")
    /\ RequestSafety
    /\ home' = [home EXCEPT !.safety = TRUE]
    /\ UNCHANGED fetch

ConsumePrefetch ==
    /\ Open /\ home.task # 0
    /\ TakeHierarchy(home.task)
    /\ home' = IF \E r \in hier'.accepted : r.id = home.task THEN home ELSE [home EXCEPT !.task = 0]
    /\ UNCHANGED <<fetch, budget>>

(* A series or season screen: asks, waits for the one result, or is left before it arrives. *)
OpenScreen ==
    /\ Open /\ Spend("screens")
    /\ home' = [home EXCEPT !.screens = @ \cup {hier.next}]
    /\ RequestHierarchy("Screen", gen, FALSE)
    /\ UNCHANGED fetch

ScreenResult(id) ==
    /\ TakeHierarchy(id)
    /\ home' = [home EXCEPT !.screens = @ \ {id}]
    /\ UNCHANGED <<fetch, budget>>

LeaveScreen(id) ==
    /\ CancelHierarchyRequest(id)
    /\ home' = [home EXCEPT !.screens = @ \ {id}]
    /\ UNCHANGED <<fetch, budget>>

(* ~HomeScreen: every worker of Home is asked to stop, the fetch thread joined, then the        *)
(* sequence it may never have claimed is given back.  The coordinator lives on in music mode.   *)
CloseBegin ==
    /\ Open
    /\ home' = [home EXCEPT !.phase = "closing", !.task = 0, !.wanted = FALSE, !.safety = FALSE]
    /\ CancelFetch({"LiveChange", "SafetyReconcile"})
    /\ fetch' = [fetch EXCEPT !.cancel = TRUE]
    /\ UNCHANGED <<modeVars, seq, catalogVars, eventVars, resultVars, run, failures, budget>>

CloseEnd ==
    /\ home.phase = "closing"
    /\ fetch.pc \in {"idle", "done"}
    /\ home' = [home EXCEPT !.phase = "closed"]
    /\ fetch' = [fetch EXCEPT !.pc = "idle"]
    /\ seq' = SequenceReleased(TRUE)
    /\ UNCHANGED <<modeVars, op, catalogVars, eventVars, resultVars, cancelled, run, hier, failures,
                   budget>>

Stop == StopBegin /\ UNCHANGED <<fetch, home, budget>>

Server ==
    /\ ~stopped
    /\ \/ \E i \in Items : ServerChange(i) /\ Spend("changes")
       \/ SocketDown /\ Spend("drops")
    /\ UNCHANGED <<fetch, home>>

Reconnect == SocketUp /\ UNCHANGED <<fetch, home, budget>>

Worker(w) == Step(w) /\ UNCHANGED <<fetch, home, budget>>
Walker    == HierarchyStep /\ UNCHANGED <<fetch, home, budget>>

Frame == ApplyFetch \/ TakeLive \/ TakeSafety \/ ConsumePrefetch

Screen == \E id \in home.screens : ScreenResult(id)

Next ==
    \/ \E w \in Workers : Worker(w)
    \/ Walker
    \/ FetchStep
    \/ Frame \/ Screen
    \/ StartFetch \/ ToggleOffline \/ RequestMaintenance
    \/ OpenScreen \/ \E id \in home.screens : LeaveScreen(id)
    \/ CloseBegin \/ CloseEnd \/ Stop
    \/ Server \/ Reconnect

Spec == Init /\ [][Next]_vars

(* Every thread runs on; the interface thread comes round to each of its takes, and a destructor *)
(* that has begun ends.  Nothing is assumed of the user, the server or the network.              *)
Fairness ==
    /\ \A w \in Workers : WF_vars(Worker(w))
    /\ WF_vars(Walker) /\ WF_vars(FetchStep)
    /\ WF_vars(ApplyFetch) /\ WF_vars(TakeLive) /\ WF_vars(TakeSafety) /\ WF_vars(ConsumePrefetch)
    /\ WF_vars(Screen) /\ WF_vars(CloseEnd)

FairSpec == Spec /\ Fairness

(***************************************************************************)
(* Properties.                                                             *)
(***************************************************************************)
Ticket == [ids : SUBSET Items, catchUp : BOOLEAN]

(* The types of the state: one record per thread, sets of items, the slot with its phase.       *)
TypeOK ==
    /\ op \in {Free} \cup [kind : Kinds, phase : Phases]
    /\ seq \in [reserved : BOOLEAN, claimed : BOOLEAN, handoff : BOOLEAN, owner : BOOLEAN,
                demand : BOOLEAN]
    /\ offline \in BOOLEAN /\ stopped \in BOOLEAN /\ linked \in BOOLEAN /\ barrier \in BOOLEAN
    /\ gen \in Nat
    /\ disk \in [succ : BOOLEAN, rec : BOOLEAN, gen : Nat]
    /\ txn \in Workers \cup {"None"}
    /\ missed \subseteq Items /\ hidden \subseteq missed /\ excused \subseteq Items
    /\ {source, queue, batch} \subseteq Ticket
    /\ cancelled \subseteq Workers /\ ready \subseteq {"SafetyReconcile", "LiveChange"}
    /\ \A w \in Workers : run[w].got \subseteq Items /\ run[w].todo \subseteq Items
    /\ ToSet(hier.queue) \cup hier.accepted \subseteq Request

(* One mutation at a time (LibraryCoordinator.hpp, the serialized operation): a worker that is  *)
(* between its admission and its publication owns the slot, executing, and the hierarchy worker *)
(* owns it whenever it has something to do.                                                     *)
Exclusive ==
    /\ \A w \in Workers : run[w].pc # "none" => op = Begun(w)
    /\ hier.queue # <<>> \/ hier.active # NoRequest => op = Begun("Hierarchy")

(* A walk finalizes, or aborts, the top-level sync it began: no other worker's begin replaced   *)
(* it, although the catalog only remembers one.                                                 *)
OwnTransaction ==
    \A w \in Workers : run[w].pc \in {"page", "final"} => txn = w

(* The slot is never lost: whoever holds it is a thread that still runs, or a result whose      *)
(* consumer is still waiting for it.                                                            *)
SlotHeld ==
    stopped \/
    CASE op.kind = "None"           -> TRUE
      [] op.kind = "Startup"        -> run["Startup"].pc # "none" \/ fetch.pc \in {"spawn", "wait"}
      [] op.kind = "FullPopulation" -> run["FullPopulation"].pc # "none"
                                         \/ (fetch.pc \in {"launch", "consume"} /\ updates # <<>>)
      [] op.kind \in {"SafetyReconcile", "LiveChange"} -> run[op.kind].pc # "none"
      [] op.kind = "Hierarchy"      -> \/ hier.queue # <<>> \/ hier.active # NoRequest
                                       \/ Ids(hier.results) \cap (home.screens \cup {home.task}) # {}

(* The demand that keeps the live worker back always belongs to a sequence that can still end:  *)
(* a claim is the running startup or population, a handoff is Home's on its way to ask for the  *)
(* population.                                                                                  *)
DemandOwned ==
    /\ seq.demand => seq.reserved \/ seq.handoff \/ seq.claimed
    /\ seq.claimed => op.kind \in {"Startup", "FullPopulation"}

(* "without letting its results reserve the request slot forever" (cancelHierarchy): Home waits *)
(* for a season prefetch only while the coordinator still knows the request.                    *)
PrefetchTracked == home.task # 0 => stopped \/ \E r \in hier.accepted : r.id = home.task

(* Every change of an item that a later catch-up will not find (it is older than the stored     *)
(* checkpoint) is on its way to the catalog: queued, or in the batch being applied.  The        *)
(* exceptions are named: its event met no connection, a full queue, or a batch that failed.     *)
Accounted ==
    ~stopped => hidden \subseteq source.ids \cup queue.ids \cup batch.ids \cup excused

(* "A live event cannot claim the serialized slot ahead of startup" (AppSession.cpp:110): while *)
(* the session is online, no live batch is claimed before the reserved, claimed or handed-off   *)
(* sequence is over, whichever way offline mode was toggled meanwhile.                          *)
ColdStartFirst == [][LiveClaim => offline \/ ~(seq.reserved \/ seq.handoff \/ seq.claimed)]_vars

(* The fetch thread's waits end: startup and population publish, or the stop is seen.           *)
WaitsEnd == fetch.pc \in {"spawn", "wait", "launch", "consume"} ~> fetch.pc \in {"idle", "done", "ask"}

(* While a home screen is there, online, showing an online library, what the live worker has    *)
(* queued is taken up, unless the fetch left the population unasked (the handoff) or a          *)
(* publication waits for a consumer who is not coming.                                          *)
LiveServed ==
    (queue # EmptyQueue) ~> \/ queue = EmptyQueue \/ stopped \/ offline \/ home.offline
                            \/ ~Open \/ seq.handoff \/ seq.reserved

(* "Keep the catch-up barrier queued until the whole transferred batch completes successfully"  *)
(* (LibraryCoordinatorLive.cpp:303-308) promises that it does complete: while Home is there,    *)
(* online, and requests do not fail for ever, the barrier that stops the drain is lifted.       *)
BarrierLifted ==
    barrier ~> ~barrier \/ stopped \/ offline \/ home.offline \/ ~Open \/ seq.handoff \/ seq.reserved
=============================================================================
