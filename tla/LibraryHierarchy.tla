-------------------------- MODULE LibraryHierarchy --------------------------
(***************************************************************************)
(* The hierarchy worker of LibraryCoordinator                              *)
(* (src/src/library/LibraryCoordinatorHierarchy.cpp): the seasons and      *)
(* episodes of shows.  Unlike the other kinds it may be asked again while  *)
(* it owns the slot, has a mutex of its own (m_hierarchyMutex), and gives  *)
(* the slot back when nothing is queued, active or published, whichever of *)
(* the worker, a consumer and a cancellation comes last.                   *)
(*                                                                         *)
(* A request of the home screen (HomePrefetch) walks several shows and     *)
(* ends with a checkpoint; one of a series or season screen is one walk.   *)
(***************************************************************************)
EXTENDS LibraryCoordinator, SequencesExt, Filtering

Request == [id : Nat, kind : {"Home", "Screen"}, g : Nat, force : BOOLEAN]

(* The empty active request of the worker is none. *)
ASSUME RequestAssumption == NoRequest \notin Request

NoHierarchy == [queue |-> <<>>, active |-> NoRequest, pc |-> "idle", accepted |-> {},
                results |-> <<>>, tokens |-> {}, next |-> 1]

Drained(h) == h.queue = <<>> /\ h.active = NoRequest /\ h.results = <<>>

SettledMutant(h) == hier' = h /\ UNCHANGED op   \* the slot is kept

(* Every path that may have been the last one: the new state, and the slot it leaves. *)
Settled(h) == hier' = h /\ op' = IF Drained(h) THEN Released("Hierarchy") ELSE op

Ids(requests) == {r.id : r \in ToSet(requests)}
Alive(id)     == id \notin hier.tokens

HomeAccepted == \E r \in hier.accepted : r.kind = "Home"

(* requestHierarchy(), requestSeriesSeasons(), requestSeasonEpisodes().  A refused request      *)
(* changes nothing.  Two refusals need no guard: a screen asks for a series or season nobody     *)
(* waits for, and Home never asks with a generation below that of its last request, both being   *)
(* m_catalogGeneration as some fetch of its ended, which only grows.                             *)
RequestHierarchy(kind, g, force) ==
    LET request == [id |-> hier.next, kind |-> kind, g |-> g, force |-> force] IN
    /\ Admitted("Hierarchy")
    /\ Len(hier.queue) < MaxHierarchy
    /\ kind = "Home" => g > 0 /\ ~HomeAccepted
    /\ hier' = [hier EXCEPT !.queue = Append(@, request), !.accepted = @ \cup {request},
                            !.next = @ + 1]
    /\ op' = Begun("Hierarchy")
    /\ UNCHANGED <<modeVars, seq, catalogVars, eventVars, resultVars, cancelled, run, failures>>

HierarchyTake ==
    /\ ~stopped
    /\ hier.pc = "idle" /\ hier.queue # <<>>
    /\ hier' = [hier EXCEPT !.queue = Tail(@), !.active = Head(hier.queue), !.pc = "walk"]
    /\ UNCHANGED <<modeVars, slotVars, catalogVars, eventVars, resultVars, cancelled, run, failures>>

(* publish(): nothing of a request that is not accepted any more. *)
Published(h, terminal) ==
    IF h.active \in h.accepted
    THEN [h EXCEPT !.results = Append(@, [id |-> h.active.id, kind |-> h.active.kind,
                                          terminal |-> terminal])]
    ELSE h

(* One show of a home request is published on its own. *)
HierarchyShow ==
    /\ hier.pc = "walk" /\ hier.active.kind = "Home" /\ Alive(hier.active.id)
    /\ hier' = [Published(hier, FALSE) EXCEPT !.pc = "mark"]
    /\ UNCHANGED <<modeVars, slotVars, catalogVars, eventVars, resultVars, cancelled, run, failures>>

(* The terminal publication without a checkpoint: a screen's request, a failure, a cancellation. *)
HierarchyEndWalk ==
    /\ \/ hier.pc = "walk" /\ hier.active.kind = "Screen" /\ UNCHANGED failures
       \/ hier.pc \in {"walk", "mark"} /\ Fault
       \/ hier.pc \in {"walk", "mark"} /\ ~Alive(hier.active.id) /\ UNCHANGED failures
    /\ hier' = [Published(hier, TRUE) EXCEPT !.pc = "end"]
    /\ UNCHANGED <<modeVars, slotVars, catalogVars, eventVars, resultVars, cancelled, run>>

(* The checkpoint of a home request, under the generation it was asked with.  Without a forced  *)
(* reconcile its reconcile time is 0, which the store refuses once one is recorded.             *)
HierarchyMark ==
    /\ hier.pc = "mark" /\ Alive(hier.active.id)
    /\ \/ Marked(TRUE, hier.active.force, hier.active.g) /\ UNCHANGED failures
       \/ MarkFails(hier.active.force, hier.active.g)
    /\ hier' = [Published(hier, TRUE) EXCEPT !.pc = "end"]
    /\ UNCHANGED <<modeVars, slotVars, gen, txn, missed, excused, eventVars, resultVars, cancelled,
                   run>>

HierarchyEnd ==
    /\ hier.pc = "end"
    /\ Settled([hier EXCEPT !.active = NoRequest, !.pc = "idle"])
    /\ UNCHANGED <<modeVars, seq, catalogVars, eventVars, resultVars, cancelled, run, failures>>

(* takeHierarchyResult(): the oldest result of the request; the terminal one ends it. *)
TakeHierarchy(id) ==
    /\ id \in Ids(hier.results)
    /\ LET at == SelectInSeq(hier.results, LAMBDA r : r.id = id)
           taken == [hier EXCEPT !.results = RemoveAt(@, at)]
       IN IF hier.results[at].terminal
          THEN Settled([taken EXCEPT !.accepted = {r \in @ : r.id # id}])
          ELSE hier' = taken /\ UNCHANGED op
    /\ UNCHANGED <<modeVars, seq, catalogVars, eventVars, resultVars, cancelled, run, failures>>

(* cancelHierarchyRequest() for a screen that leaves, cancelHierarchy() for Home: the tokens,   *)
(* and everything of those requests that has not reached its consumer.                          *)
Dropped(requests) ==
    LET gone == {r.id : r \in requests}
        kept(s) == Retained(s, {k \in DOMAIN s : s[k].id \notin gone})
    IN [hier EXCEPT !.tokens = @ \cup gone, !.accepted = @ \ requests,
                    !.queue = kept(@), !.results = kept(@)]

CancelHierarchyRequest(id) ==
    LET mine == {r \in hier.accepted : r.id = id} IN
    /\ mine # {}
    /\ Settled(Dropped(mine))
    /\ UNCHANGED <<modeVars, seq, catalogVars, eventVars, resultVars, cancelled, run, failures>>

HomeDropped == Dropped({r \in hier.accepted : r.kind = "Home"})

(* stop(): what is queued ends as a cancelled result, what is active gets its token. *)
HierarchyStopped ==
    [hier EXCEPT !.queue = <<>>,
                 !.tokens = @ \cup Ids(hier.queue)
                              \cup (IF hier.active = NoRequest THEN {} ELSE {hier.active.id}),
                 !.results = @ \o [i \in DOMAIN hier.queue |->
                                     [id |-> hier.queue[i].id, kind |-> hier.queue[i].kind,
                                      terminal |-> TRUE]]]

StopBegin ==
    /\ ~stopped
    /\ stopped' = TRUE
    /\ cancelled' = Workers
    /\ hier' = HierarchyStopped
    /\ UNCHANGED <<offline, slotVars, catalogVars, eventVars, resultVars, run, failures>>

HierarchyStep == HierarchyTake \/ HierarchyShow \/ HierarchyEndWalk \/ HierarchyMark \/ HierarchyEnd
=============================================================================
