------------------------- MODULE HomeLibraryProofs -------------------------
(***************************************************************************)
(* Proofs about HomeLibrary, for any items, limits and bounds: who owns    *)
(* the slot, the open sync of the catalog, and the cold-start sequence.    *)
(***************************************************************************)
EXTENDS HomeLibrary, FilteringProofs

Sequence == [reserved : BOOLEAN, claimed : BOOLEAN, handoff : BOOLEAN, owner : BOOLEAN,
             demand : BOOLEAN]

(* The fields the steps assign exist, so that an EXCEPT does what it says. *)
Shape ==
    /\ DOMAIN run = Workers
    /\ \A w \in Workers : "pc" \in DOMAIN run[w]
    /\ {"queue", "active", "results"} \subseteq DOMAIN hier
    /\ seq \in Sequence
    /\ offline \in BOOLEAN

(* A live result is retained only once its batch is over: taking it cannot end another batch. *)
ReadyIdle == "LiveChange" \in ready => run["LiveChange"].pc = "none"

(* Online, a sequence nobody has claimed keeps the live worker back. *)
DemandArmed == ~offline /\ (seq.reserved \/ seq.handoff) => seq.demand

SlotInv == Exclusive /\ OwnTransaction /\ ReadyIdle
IInv    == Shape /\ SlotInv /\ DemandOwned /\ DemandArmed

(* The worker w goes on: the other workers stay where they are. *)
Advances(w) ==
    /\ DOMAIN run' = Workers
    /\ \A v \in Workers : "pc" \in DOMAIN run'[v]
    /\ \A v \in Workers \ {w} : run'[v].pc = run[v].pc

LEMMA Kinded ==
  /\ \A k : Begun(k).kind = k /\ Pending(k).kind = k /\ Begun(k) # Free /\ Begun(k) # Pending(k)
  /\ \A k, l : Begun(k) = Begun(l) => k = l
  /\ Free.kind = "None" /\ "None" \notin Kinds /\ "Hierarchy" \notin Workers
  BY SMT DEF Begun, Pending, Free, Kinds, Workers

(* Nothing these invariants speak of has changed. *)
LEMMA Frame0 ==
  ASSUME IInv, UNCHANGED <<op, seq, offline, txn, ready, run>>,
         hier'.queue = hier.queue, hier'.active = hier.active,
         {"queue", "active", "results"} \subseteq DOMAIN hier'
  PROVE  IInv'
  BY DEF IInv, Shape, SlotInv, Exclusive, OwnTransaction, ReadyIdle, DemandOwned, DemandArmed

(* A step of a worker that is at work and goes on, or comes to its publication. *)
LEMMA WorkStep ==
  ASSUME IInv, NEW w \in Workers, run[w].pc # "none", Advances(w),
         run'[w].pc \in {"page", "final"} => txn' = w,
         UNCHANGED <<op, seq, offline, ready, hier>>
  PROVE  IInv'
<1>1. op = Begun(w) /\ \A v \in Workers \ {w} : run[v].pc = "none"
  BY Kinded DEF IInv, SlotInv, Exclusive
<1>2. Exclusive'
  BY <1>1, Kinded DEF Advances, IInv, SlotInv, Exclusive
<1>3. OwnTransaction'
  BY <1>1 DEF Advances, OwnTransaction
<1>4. ReadyIdle'
  BY <1>1 DEF Advances, IInv, SlotInv, ReadyIdle, Workers
<1>. QED
  BY <1>2, <1>3, <1>4 DEF IInv, SlotInv, Advances, Shape, DemandOwned, DemandArmed

(* A worker that ends gives up the slot, or leaves it to a publication of its kind. *)
LEMMA EndStep ==
  ASSUME IInv, NEW w \in Workers, run[w].pc # "none", Advances(w), run'[w].pc = "none",
         op'.kind = w \/ (op' = Free /\ w \notin {"Startup", "FullPopulation"}),
         UNCHANGED <<seq, offline, hier>>
  PROVE  IInv'
<1>1. op = Begun(w) /\ \A v \in Workers : run'[v].pc = "none"
  BY Kinded DEF IInv, SlotInv, Exclusive, Advances
<1>2. hier.queue = <<>> /\ hier.active = NoRequest
  BY <1>1, Kinded DEF IInv, SlotInv, Exclusive
<1>3. SlotInv'
  BY <1>1, <1>2 DEF SlotInv, Exclusive, OwnTransaction, ReadyIdle, Workers
<1>4. DemandOwned'
  BY <1>1, Kinded DEF IInv, DemandOwned
<1>. QED
  BY <1>3, <1>4 DEF IInv, Shape, Advances, DemandArmed

(***************************************************************************)
(* The workers.                                                            *)
(***************************************************************************)
LEMMA Moves ==
  ASSUME Shape, NEW w \in Workers, NEW r, "pc" \in DOMAIN r, run' = [run EXCEPT ![w] = r]
  PROVE  Advances(w) /\ run'[w] = r
  BY DEF Shape, Advances

LEMMA GiveUpInv ==
  ASSUME IInv, NEW w \in Workers, GiveUp(w)
  PROVE  IInv'
<1>1. run[w].pc # "none"
  BY DEF GiveUp, Interruptible
<1>2. Advances(w) /\ run'[w].pc = "publish"
  BY DEF GiveUp, Ended, IInv, Shape, Advances
<1>. QED
  BY <1>1, <1>2, WorkStep DEF GiveUp, slotVars, modeVars, resultVars

LEMMA ReadInv ==
  ASSUME IInv, ReadStartup \/ \E w \in Workers : ReadState(w)
  PROVE  IInv'
<1>1. CASE ReadStartup
  <2>. DEFINE w == "Startup"
  <2>1. w \in Workers /\ run[w].pc = "read" /\ UNCHANGED <<op, seq, offline, ready, hier>>
    BY <1>1 DEF ReadStartup, slotVars, modeVars, resultVars, Workers
  <2>2. \/ \E m : run' = [Ended(w, "cancelled") EXCEPT ![w].mode = m]
        \/ run' = Ended(w, "ok")
        \/ \E m, g : run' = [run EXCEPT ![w].pc = "fetch", ![w].mode = m, ![w].g = g]
        \/ \E m : run' = [Ended(w, "ok") EXCEPT ![w].mode = m]
    BY <1>1, Zenon DEF ReadStartup
  <2>. HIDE DEF w
  <2>3. Advances(w) /\ run'[w].pc \in {"publish", "fetch"}
    BY <2>1, <2>2 DEF Ended, IInv, Shape, Advances
  <2>. QED
    BY <2>1, <2>3, WorkStep
<1>2. ASSUME NEW w \in Workers, ReadState(w) PROVE IInv'
  <2>1. Advances(w) /\ run'[w].pc \in {"fetch", "begin"}
    BY <1>2 DEF ReadState, IInv, Shape, Advances
  <2>. QED
    BY <1>2, <2>1, WorkStep DEF ReadState, slotVars, modeVars, resultVars
<1>. QED
  BY <1>1, <1>2

LEMMA CatchUpInv ==
  ASSUME IInv, NEW w \in Workers, CatchUpFetch(w) \/ CatchUpWrite(w) \/ CatchUpMark(w)
  PROVE  IInv'
<1>1. CASE CatchUpFetch(w)
  <2>1. Advances(w) /\ run'[w].pc \in {"mark", "write"}
    BY <1>1 DEF CatchUpFetch, IInv, Shape, Advances
  <2>. QED
    BY <1>1, <2>1, WorkStep DEF CatchUpFetch, slotVars, modeVars, resultVars
<1>2. CASE CatchUpWrite(w)
  <2>1. Advances(w) /\ run'[w].pc = "mark"
    BY <1>2 DEF CatchUpWrite, Goto, IInv, Shape, Advances
  <2>. QED
    BY <1>2, <2>1, WorkStep DEF CatchUpWrite, slotVars, modeVars, resultVars
<1>3. CASE CatchUpMark(w)
  <2>1. Advances(w) /\ run'[w].pc \in {"publish", "get", "begin"}
    BY <1>3 DEF CatchUpMark, AfterCatchUp, Ended, Goto, IInv, Shape, Advances
  <2>. QED
    BY <1>3, <2>1, WorkStep DEF CatchUpMark, slotVars, modeVars, resultVars
<1>. QED
  BY <1>1, <1>2, <1>3

LEMMA WalkInv ==
  ASSUME IInv, NEW w \in Workers, WalkBegin(w) \/ WalkPage(w) \/ WalkFinalize(w) \/ WalkMark(w)
  PROVE  IInv'
<1>1. CASE WalkBegin(w)
  <2>1. Advances(w) /\ txn' = w
    BY <1>1 DEF WalkBegin, IInv, Shape, Advances
  <2>. QED
    BY <1>1, <2>1, WorkStep DEF WalkBegin, slotVars, modeVars, resultVars
<1>2. CASE WalkPage(w)
  <2>1. Advances(w) /\ txn' = w
    BY <1>2 DEF WalkPage, IInv, Shape, Advances, SlotInv, OwnTransaction
  <2>. QED
    BY <1>2, <2>1, WorkStep DEF WalkPage, slotVars, modeVars
<1>3. CASE WalkFinalize(w)
  <2>1. Advances(w) /\ run'[w].pc \in {"walked", "publish"}
    BY <1>3 DEF WalkFinalize, Ended, Goto, IInv, Shape, Advances
  <2>. QED
    BY <1>3, <2>1, WorkStep DEF WalkFinalize, slotVars, modeVars, resultVars
<1>4. CASE WalkMark(w)
  <2>1. Advances(w) /\ run'[w].pc \in {"get", "publish"}
    BY <1>4 DEF WalkMark, Ended, Goto, IInv, Shape, Advances
  <2>. QED
    BY <1>4, <2>1, WorkStep DEF WalkMark, slotVars, modeVars, resultVars
<1>. QED
  BY <1>1, <1>2, <1>3, <1>4

LEMMA PublishInv ==
  ASSUME IInv, PublishStartup \/ PublishPopulation \/ PublishSafety \/ LivePublish
  PROVE  IInv'
<1>. "pc" \in DOMAIN IdleRun /\ IdleRun.pc = "none"
  BY DEF IdleRun
<1>1. CASE PublishStartup
  <2>1. "Startup" \in Workers /\ op.kind = "Startup"
    BY <1>1, Kinded DEF PublishStartup, Workers, IInv, SlotInv, Exclusive
  <2>. QED
    BY <1>1, <2>1, Moves, EndStep, Kinded DEF PublishStartup, IInv, modeVars
<1>2. CASE PublishPopulation
  <2>1. "FullPopulation" \in Workers /\ op.kind = "FullPopulation"
    BY <1>2, Kinded DEF PublishPopulation, Workers, IInv, SlotInv, Exclusive
  <2>. QED
    BY <1>2, <2>1, Moves, EndStep, Kinded DEF PublishPopulation, IInv, modeVars
<1>3. CASE PublishSafety
  <2>1. "SafetyReconcile" \in Workers /\ op.kind = "SafetyReconcile"
    BY <1>3, Kinded DEF PublishSafety, Workers, IInv, SlotInv, Exclusive
  <2>. QED
    BY <1>3, <2>1, Moves, EndStep DEF PublishSafety, Released, IInv, modeVars
<1>4. CASE LivePublish
  <2>1. "LiveChange" \in Workers /\ op.kind = "LiveChange"
    BY <1>4, Kinded DEF LivePublish, Workers, IInv, SlotInv, Exclusive
  <2>. QED
    BY <1>4, <2>1, Moves, EndStep DEF LivePublish, Released, IInv, modeVars
<1>. QED
  BY <1>1, <1>2, <1>3, <1>4

(* A free slot is taken: nobody is at work, and the worker that starts is the only one then. *)
LEMMA TakenSlot ==
  ASSUME IInv, NEW w \in Workers, op.kind = "None", op' = Begun(w),
         Advances(w), run'[w].pc \notin {"page", "final"},
         w = "LiveChange" => w \notin ready,
         UNCHANGED <<ready, hier>>
  PROVE  SlotInv'
<1>1. \A v \in Workers : run[v].pc = "none"
  BY Kinded DEF IInv, SlotInv, Exclusive, Kinds
<1>2. hier.queue = <<>> /\ hier.active = NoRequest
  BY Kinded DEF IInv, SlotInv, Exclusive, Kinds
<1>. QED
  BY <1>1, <1>2 DEF SlotInv, Exclusive, OwnTransaction, ReadyIdle, Advances, Workers

LEMMA DemandedSequence ==
  ASSUME NEW s \in Sequence, offline \in BOOLEAN
  PROVE  /\ Demanded(s) \in Sequence
         /\ Demanded(s).reserved = s.reserved /\ Demanded(s).claimed = s.claimed
         /\ Demanded(s).handoff = s.handoff
         /\ ~offline => Demanded(s).demand
  BY DEF Demanded, Sequence

LEMMA AdmitInv ==
  ASSUME IInv, NEW w \in {"Startup", "FullPopulation"}, Admit(w),
         UNCHANGED <<modeVars, ready, hier>>
  PROVE  IInv'
<1>0. w \in Workers
  BY DEF Workers
<1>1. op.kind = "None"
  BY Kinded DEF Admit, Admitted
<1>2. Advances(w) /\ run'[w].pc = "join"
  <2>. DEFINE r == [IdleRun EXCEPT !.pc = "join"]
  <2>1. "pc" \in DOMAIN r /\ r.pc = "join"
    BY DEF IdleRun
  <2>2. run' = [run EXCEPT ![w] = r]
    BY DEF Admit
  <2>. QED
    BY <1>0, <2>1, <2>2, Moves DEF IInv
<1>3. SlotInv'
  BY <1>0, <1>1, <1>2, TakenSlot DEF Admit
<1>4. ~seq.claimed
  BY <1>1 DEF IInv, DemandOwned
<1>5. /\ seq'.claimed /\ ~seq'.handoff
      /\ ~offline /\ seq'.reserved => seq'.demand
      /\ seq' \in Sequence
  <2>1. seq' = Claimed(w) /\ (w = "Startup" => ~seq.handoff)
    BY DEF Admit, Admitted
  <2>2. CASE seq.handoff
    <3>. DEFINE s == [seq EXCEPT !.handoff = FALSE, !.claimed = TRUE]
    <3>1. s \in Sequence /\ s.claimed /\ ~s.handoff
      BY DEF IInv, Shape, Sequence
    <3>2. seq' = Demanded(s)
      BY <1>4, <2>1, <2>2 DEF Claimed
    <3>. QED
      BY <3>1, <3>2, DemandedSequence DEF IInv, Shape
  <2>3. CASE ~seq.handoff
    <3>. DEFINE s == [seq EXCEPT !.claimed = TRUE, !.reserved = FALSE]
    <3>1. s \in Sequence /\ s.claimed /\ ~s.handoff
      BY <2>3 DEF IInv, Shape, Sequence
    <3>2. seq' = Demanded(s)
      BY <1>4, <2>1, <2>3 DEF Claimed
    <3>. QED
      BY <3>1, <3>2, DemandedSequence DEF IInv, Shape
  <2>. QED
    BY <2>2, <2>3
<1>6. op'.kind = w
  BY Kinded DEF Admit
<1>. QED
  BY <1>2, <1>3, <1>5, <1>6 DEF IInv, Shape, Advances, DemandOwned, DemandArmed, modeVars

LEMMA NoSequenceFacts ==
  /\ NoSequence \in Sequence
  /\ ~NoSequence.claimed /\ ~NoSequence.demand /\ ~NoSequence.reserved /\ ~NoSequence.handoff
  BY DEF NoSequence, Sequence

(* The gate after the join: the thread starts, or a stop has come first. *)
LEMMA LaunchInv ==
  ASSUME IInv, NEW w \in {"Startup", "FullPopulation"}, Launch(w)
  PROVE  IInv'
<1>0. w \in Workers /\ run[w].pc = "join"
  BY DEF Workers, Launch
<1>1. CASE ~stopped
  <2>1. Advances(w) /\ run'[w].pc \in {"read", "begin"}
    BY <1>0, <1>1 DEF Launch, IInv, Shape, Advances
  <2>. QED
    BY <1>0, <1>1, <2>1, WorkStep DEF Launch, slotVars, modeVars
<1>2. CASE stopped
  <2>1. op = Begun(w) /\ op' = Free /\ run' = [run EXCEPT ![w] = IdleRun]
    BY <1>0, <1>2, Kinded DEF Launch, Released, IInv, SlotInv, Exclusive
  <2>2. Advances(w) /\ run'[w].pc = "none"
    <3>1. "pc" \in DOMAIN IdleRun /\ IdleRun.pc = "none"
      BY DEF IdleRun
    <3>. QED
      BY <1>0, <2>1, <3>1, Moves DEF IInv
  <2>3. \A v \in Workers : run'[v].pc = "none"
    BY <2>1, <2>2, Kinded DEF IInv, SlotInv, Exclusive, Advances
  <2>4. hier'.queue = <<>> /\ hier'.active = NoRequest
    BY <1>0, <2>1, Kinded DEF Launch, IInv, SlotInv, Exclusive
  <2>5. SlotInv'
    BY <2>3, <2>4 DEF SlotInv, Exclusive, OwnTransaction, ReadyIdle, Workers
  <2>6. DemandOwned' /\ DemandArmed' /\ seq' \in Sequence
    <3>1. UNCHANGED offline /\ seq' = IF seq.claimed THEN NoSequence ELSE seq
      BY <1>2 DEF Launch, modeVars
    <3>. QED
      BY <3>1, NoSequenceFacts DEF IInv, Shape, DemandOwned, DemandArmed
  <2>. QED
    BY <2>2, <2>5, <2>6 DEF Launch, modeVars, IInv, Shape, Advances
<1>. QED
  BY <1>1, <1>2

(* The safety reconcile and the live batch take the slot outside the cold-start sequence. *)
LEMMA OutsideSequence ==
  ASSUME IInv, RequestSafety \/ LiveClaim
  PROVE  IInv'
<1>1. \E w \in {"SafetyReconcile", "LiveChange"} : \E r :
         /\ op.kind = "None" /\ op' = Begun(w) /\ w \notin ready
         /\ run' = [run EXCEPT ![w] = r] /\ "pc" \in DOMAIN r /\ r.pc \in {"read", "get"}
         /\ UNCHANGED <<seq, offline, ready, hier>>
  <2>1. CASE RequestSafety
    <3>. DEFINE r == [IdleRun EXCEPT !.pc = "read"]
    <3>1. "pc" \in DOMAIN r /\ r.pc = "read"
      BY DEF IdleRun
    <3>. QED
      BY <2>1, <3>1, Kinded DEF RequestSafety, Admitted, modeVars, resultVars
  <2>2. CASE LiveClaim
    <3>. DEFINE r == [IdleRun EXCEPT !.pc = IF queue.catchUp THEN "read" ELSE "get"]
    <3>1. "pc" \in DOMAIN r /\ r.pc \in {"read", "get"}
      BY DEF IdleRun
    <3>. QED
      BY <2>2, <3>1, Kinded DEF LiveClaim, Admitted, modeVars, resultVars
  <2>. QED
    BY <2>1, <2>2
<1>2. PICK w \in {"SafetyReconcile", "LiveChange"} : \E r :
         /\ op.kind = "None" /\ op' = Begun(w) /\ w \notin ready
         /\ run' = [run EXCEPT ![w] = r] /\ "pc" \in DOMAIN r /\ r.pc \in {"read", "get"}
         /\ UNCHANGED <<seq, offline, ready, hier>>
  BY <1>1
<1>3. w \in Workers /\ Advances(w) /\ run'[w].pc \in {"read", "get"}
  BY <1>2, Moves DEF IInv, Workers
<1>4. SlotInv'
  BY <1>2, <1>3, TakenSlot
<1>5. ~seq.claimed
  BY <1>2 DEF IInv, DemandOwned
<1>. QED
  BY <1>2, <1>3, <1>4, <1>5 DEF IInv, Shape, Advances, DemandOwned, DemandArmed

(***************************************************************************)
(* The takes of Home.                                                      *)
(***************************************************************************)
LEMMA HandedBack ==
  ASSUME IInv, NEW w \in Workers, op = Pending(w), op' = Free,
         UNCHANGED <<offline, txn, ready, run, hier>>,
         DemandOwned', DemandArmed', seq' \in Sequence
  PROVE  IInv'
<1>1. \A v \in Workers : run[v].pc = "none"
  BY Kinded DEF IInv, SlotInv, Exclusive
<1>2. hier.queue = <<>> /\ hier.active = NoRequest
  BY Kinded DEF IInv, SlotInv, Exclusive
<1>3. SlotInv'
  BY <1>1, <1>2 DEF SlotInv, Exclusive, OwnTransaction, ReadyIdle, Workers
<1>. QED
  BY <1>3 DEF IInv, Shape

LEMMA TakeInv ==
  ASSUME IInv, TakeStartup \/ TakeUpdate \/ \E k \in {"LiveChange", "SafetyReconcile"} : TakeReady(k)
  PROVE  IInv'
<1>. USE NoSequenceFacts
<1>. "Startup" \in Workers /\ "FullPopulation" \in Workers
  BY DEF Workers
<1>1. CASE TakeStartup
  <2>. DEFINE s == [seq EXCEPT !.claimed = FALSE, !.handoff = TRUE]
  <2>1. s \in Sequence /\ ~s.claimed /\ s.handoff
    BY DEF IInv, Shape, Sequence
  <2>2. seq' = Demanded(s) \/ seq' = NoSequence
    BY <1>1 DEF TakeStartup, HandedOff
  <2>3. seq' \in Sequence /\ DemandOwned' /\ DemandArmed'
    BY <1>1, <2>1, <2>2, DemandedSequence
       DEF TakeStartup, modeVars, IInv, Shape, DemandOwned, DemandArmed
  <2>. QED
    BY <1>1, <2>3, HandedBack DEF TakeStartup, modeVars, catalogVars, resultVars
<1>2. CASE TakeUpdate
  <2>1. CASE Len(updates) = 1 /\ op = Pending("FullPopulation")
    <3>1. seq' \in Sequence /\ DemandOwned' /\ DemandArmed'
      BY <1>2, <2>1 DEF TakeUpdate, DemandOwned, DemandArmed
    <3>. QED
      BY <1>2, <2>1, <3>1, HandedBack DEF TakeUpdate, modeVars, catalogVars
  <2>2. CASE ~(Len(updates) = 1 /\ op = Pending("FullPopulation"))
    <3>1. UNCHANGED <<op, seq, offline, txn, ready, run, hier>>
      BY <1>2, <2>2 DEF TakeUpdate, modeVars, catalogVars, slotVars
    <3>. QED
      BY <3>1, Frame0 DEF IInv, Shape
  <2>. QED
    BY <2>1, <2>2
<1>3. ASSUME NEW k \in {"LiveChange", "SafetyReconcile"}, TakeReady(k) PROVE IInv'
  <2>1. /\ UNCHANGED <<seq, offline, txn, run, hier>>
        /\ op' = op \/ (op.kind = "LiveChange" /\ run["LiveChange"].pc = "none" /\ op' = Free)
        /\ ready' \subseteq ready
    BY <1>3 DEF TakeReady, Released, IInv, SlotInv, ReadyIdle, modeVars, catalogVars
  <2>2. SlotInv'
    BY <2>1, Kinded DEF IInv, SlotInv, Exclusive, OwnTransaction, ReadyIdle
  <2>3. DemandOwned' /\ DemandArmed'
    BY <2>1 DEF IInv, DemandOwned, DemandArmed
  <2>. QED
    BY <2>1, <2>2, <2>3 DEF IInv, Shape
<1>. QED
  BY <1>1, <1>2, <1>3

(***************************************************************************)
(* Steps that leave every worker where it is.                              *)
(***************************************************************************)
LEMMA EventInv ==
  ASSUME IInv,
         LiveDrain \/ SocketDown \/ SocketUp \/ \E i \in Items : ServerChange(i)
  PROVE  IInv'
<1>1. CASE LiveDrain \/ SocketDown \/ SocketUp
  <2>1. UNCHANGED <<op, seq, offline, txn, ready, run, hier>>
    BY <1>1 DEF LiveDrain, SocketDown, SocketUp, slotVars, modeVars, resultVars, catalogVars
  <2>. QED
    BY <2>1, Frame0 DEF IInv, Shape
<1>2. ASSUME NEW i \in Items, ServerChange(i) PROVE IInv'
  <2>1. /\ UNCHANGED <<op, seq, offline, txn, ready, hier>>
        /\ run' = [w \in Workers |-> [run[w] EXCEPT !.got = @ \ {i}]]
    BY <1>2 DEF ServerChange, slotVars, modeVars, resultVars
  <2>2. /\ DOMAIN run' = Workers
        /\ \A w \in Workers : "pc" \in DOMAIN run'[w] /\ run'[w].pc = run[w].pc
    BY <2>1 DEF IInv, Shape
  <2>3. "LiveChange" \in Workers
    BY DEF Workers
  <2>. QED
    BY <2>1, <2>2, <2>3 DEF IInv, Shape, SlotInv, Exclusive, OwnTransaction, ReadyIdle, DemandOwned,
                           DemandArmed
<1>. QED
  BY <1>1, <1>2

(***************************************************************************)
(* The hierarchy.                                                          *)
(***************************************************************************)
(* The hierarchy worker has no less to do than before only by what it was already asked. *)
Smaller(h) ==
    /\ {"queue", "active", "results"} \subseteq DOMAIN h
    /\ h.queue # <<>> \/ h.active # NoRequest => hier.queue # <<>> \/ hier.active # NoRequest

LEMMA HierarchyKeeps ==
  ASSUME IInv, Smaller(hier'), UNCHANGED <<op, seq, offline, txn, ready, run>>
  PROVE  IInv'
  BY DEF Smaller, IInv, Shape, SlotInv, Exclusive, OwnTransaction, ReadyIdle, DemandOwned, DemandArmed

LEMMA SettledSlot ==
  ASSUME IInv, NEW h, Smaller(h), Settled(h), UNCHANGED <<txn, ready, run>>
  PROVE  /\ SlotInv' /\ {"queue", "active", "results"} \subseteq DOMAIN hier'
         /\ seq.claimed => op'.kind \in {"Startup", "FullPopulation"}
<1>1. \/ op' = op
      \/ op.kind = "Hierarchy" /\ op' = Free /\ h.queue = <<>> /\ h.active = NoRequest
  BY DEF Settled, Drained, Released
<1>2. hier' = h
  BY DEF Settled
<1>3. op.kind = "Hierarchy" => \A w \in Workers : run[w].pc = "none"
  BY Kinded DEF IInv, SlotInv, Exclusive
<1>. QED
  BY <1>1, <1>2, <1>3 DEF Smaller, IInv, SlotInv, Exclusive, OwnTransaction, ReadyIdle, DemandOwned

LEMMA SettledInv ==
  ASSUME IInv, NEW h, Smaller(h), Settled(h), UNCHANGED <<seq, offline, txn, ready, run>>
  PROVE  IInv'
  BY SettledSlot DEF IInv, Shape, DemandOwned, DemandArmed

LEMMA DroppedSmaller ==
  ASSUME IInv, NEW requests
  PROVE  Smaller(Dropped(requests))
<1>. DEFINE D == {k \in DOMAIN hier.queue : hier.queue[k].id \notin {r.id : r \in requests}}
<1>1. /\ {"queue", "active", "results"} \subseteq DOMAIN Dropped(requests)
      /\ Dropped(requests).active = hier.active
      /\ Dropped(requests).queue = Retained(hier.queue, D)
  BY DEF Dropped, IInv, Shape
<1>. HIDE DEF D
<1>. QED
  BY <1>1, NothingRetained DEF Smaller

LEMMA PublishedSame ==
  ASSUME IInv, NEW terminal
  PROVE  /\ DOMAIN Published(hier, terminal) = DOMAIN hier
         /\ Published(hier, terminal).queue = hier.queue
         /\ Published(hier, terminal).active = hier.active
  BY DEF Published, IInv, Shape

LEMMA HierarchyStepInv ==
  ASSUME IInv, HierarchyStep
  PROVE  IInv'
<1>1. CASE HierarchyTake
  <2>1. Smaller(hier') /\ UNCHANGED <<op, seq, offline, txn, ready, run>>
    BY <1>1 DEF HierarchyTake, Smaller, IInv, Shape, slotVars, modeVars, catalogVars, resultVars
  <2>. QED
    BY <2>1, HierarchyKeeps
<1>2. CASE HierarchyShow \/ HierarchyEndWalk \/ HierarchyMark
  <2>1. \E terminal \in BOOLEAN : \E pc : hier' = [Published(hier, terminal) EXCEPT !.pc = pc]
    BY <1>2 DEF HierarchyShow, HierarchyEndWalk, HierarchyMark
  <2>2. Smaller(hier')
    BY <2>1, PublishedSame DEF Smaller, IInv, Shape
  <2>3. UNCHANGED <<op, seq, offline, txn, ready, run>>
    BY <1>2 DEF HierarchyShow, HierarchyEndWalk, HierarchyMark, slotVars, modeVars, catalogVars, resultVars
  <2>. QED
    BY <2>2, <2>3, HierarchyKeeps
<1>3. CASE HierarchyEnd
  <2>. DEFINE h == [hier EXCEPT !.active = NoRequest, !.pc = "idle"]
  <2>1. Smaller(h)
    BY DEF Smaller, IInv, Shape
  <2>2. Settled(h) /\ UNCHANGED <<seq, offline, txn, ready, run>>
    BY <1>3 DEF HierarchyEnd, modeVars, catalogVars, resultVars
  <2>. HIDE DEF h
  <2>. QED
    BY <2>1, <2>2, SettledInv
<1>. QED
  BY <1>1, <1>2, <1>3 DEF HierarchyStep

LEMMA RequestHierarchyInv ==
  ASSUME IInv, NEW kind, NEW g, NEW force, RequestHierarchy(kind, g, force)
  PROVE  IInv'
<1>1. op.kind \in {"None", "Hierarchy"} /\ op' = Begun("Hierarchy")
  BY DEF RequestHierarchy, Admitted
<1>2. \A w \in Workers : run[w].pc = "none"
  BY <1>1, Kinded DEF IInv, SlotInv, Exclusive, Kinds
<1>3. UNCHANGED <<seq, offline, txn, ready, run>>
  BY DEF RequestHierarchy, modeVars, catalogVars, resultVars
<1>4. {"queue", "active", "results"} \subseteq DOMAIN hier'
  BY DEF RequestHierarchy, IInv, Shape
<1>5. SlotInv'
  BY <1>1, <1>2, <1>3 DEF IInv, SlotInv, Exclusive, OwnTransaction, ReadyIdle
<1>6. ~seq.claimed
  BY <1>1 DEF IInv, DemandOwned
<1>. QED
  BY <1>3, <1>4, <1>5, <1>6 DEF IInv, Shape, DemandOwned, DemandArmed

LEMMA TakeHierarchyInv ==
  ASSUME IInv, NEW id, TakeHierarchy(id) \/ CancelHierarchyRequest(id)
  PROVE  IInv'
<1>1. UNCHANGED <<seq, offline, txn, ready, run>>
  BY DEF TakeHierarchy, CancelHierarchyRequest, modeVars, catalogVars, resultVars
<1>2. CASE TakeHierarchy(id)
  <2>1. \E h : /\ DOMAIN h = DOMAIN hier /\ h.queue = hier.queue /\ h.active = hier.active
               /\ Settled(h) \/ (hier' = h /\ UNCHANGED op)
    BY <1>2 DEF TakeHierarchy, IInv, Shape
  <2>2. PICK h : /\ DOMAIN h = DOMAIN hier /\ h.queue = hier.queue /\ h.active = hier.active
                 /\ Settled(h) \/ (hier' = h /\ UNCHANGED op)
    BY <2>1
  <2>3. Smaller(h)
    BY <2>2 DEF Smaller, IInv, Shape
  <2>. QED
    BY <1>1, <2>2, <2>3, SettledInv, HierarchyKeeps
<1>3. CASE CancelHierarchyRequest(id)
  BY <1>1, <1>3, DroppedSmaller, SettledInv DEF CancelHierarchyRequest
<1>. QED
  BY <1>2, <1>3

LEMMA StopBeginInv ==
  ASSUME IInv, StopBegin
  PROVE  IInv'
<1>1. UNCHANGED <<op, seq, offline, txn, ready, run>>
  BY DEF StopBegin, slotVars, catalogVars, resultVars
<1>2. Smaller(hier')
  BY DEF StopBegin, HierarchyStopped, Smaller, IInv, Shape
<1>. QED
  BY <1>1, <1>2, HierarchyKeeps

(***************************************************************************)
(* Home.                                                                   *)
(***************************************************************************)
LEMMA WorkerInv ==
  ASSUME IInv, NEW w \in Workers, Worker(w)
  PROVE  IInv'
<1>1. CASE w \in {"Startup", "FullPopulation"} /\ Launch(w)
  BY <1>1, LaunchInv
<1>2. CASE w = "LiveChange" /\ (LiveGet \/ LivePut)
  <2>1. run[w].pc \in {"get", "put"} /\ UNCHANGED <<op, seq, offline, ready, hier>>
    BY <1>2 DEF LiveGet, LivePut, slotVars, modeVars, resultVars
  <2>2. Advances(w) /\ run'[w].pc \in {"publish", "put"}
    BY <1>2 DEF LiveGet, LivePut, Ended, IInv, Shape, Advances
  <2>. QED
    BY <2>1, <2>2, WorkStep
<1>. QED
  BY <1>1, <1>2, GiveUpInv, ReadInv, CatchUpInv, WalkInv, PublishInv, EventInv, OutsideSequence
     DEF Worker, Step

LEMMA StillInv ==
  ASSUME IInv, UNCHANGED <<op, seq, offline, txn, ready, run, hier>>
  PROVE  IInv'
  BY Frame0 DEF IInv, Shape

LEMMA RequestInv ==
  ASSUME IInv, RequestStartup \/ RequestPopulation
  PROVE  IInv'
  BY AdmitInv DEF RequestStartup, RequestPopulation

LEMMA FetchInv ==
  ASSUME IInv, FetchStep
  PROVE  IInv'
<1>1. CASE FetchOffline \/ FetchNoPolicy \/ FetchNoUpdate
  BY <1>1, StillInv DEF FetchOffline, FetchNoPolicy, FetchNoUpdate, coordinatorVars, slotVars, modeVars,
                        catalogVars, resultVars
<1>2. CASE FetchStartup
  BY <1>2, StillInv, RequestInv DEF FetchStartup, coordinatorVars, slotVars, modeVars, catalogVars,
                                    resultVars
<1>3. CASE FetchAsk
  BY <1>3, StillInv, RequestInv DEF FetchAsk, coordinatorVars, slotVars, modeVars, catalogVars, resultVars
<1>4. ASSUME NEW kind, NEW from, NEW to, FetchSpawned(kind, from, to) PROVE IInv'
  BY <1>4, StillInv DEF FetchSpawned, slotVars, modeVars, catalogVars, resultVars
<1>5. CASE FetchPolicy \/ FetchConsume
  BY <1>5, TakeInv DEF FetchPolicy, FetchConsume
<1>. QED
  BY <1>1, <1>2, <1>3, <1>4, <1>5 DEF FetchStep

LEMMA FrameInv ==
  ASSUME IInv, Frame
  PROVE  IInv'
<1>1. CASE ApplyFetch
  <2>1. \/ \E g, force : RequestHierarchy("Home", g, force)
        \/ UNCHANGED coordinatorVars
    BY <1>1 DEF ApplyFetch
  <2>. QED
    BY <2>1, RequestHierarchyInv, StillInv DEF coordinatorVars, slotVars, modeVars, catalogVars, resultVars
<1>2. CASE TakeLive \/ TakeSafety
  BY <1>2, TakeInv DEF TakeLive, TakeSafety
<1>3. CASE ConsumePrefetch
  BY <1>3, TakeHierarchyInv DEF ConsumePrefetch
<1>. QED
  BY <1>1, <1>2, <1>3 DEF Frame

LEMMA ToggleInv ==
  ASSUME IInv, ToggleOffline
  PROVE  IInv'
<1>1. Settled(HomeDropped) /\ Smaller(HomeDropped) /\ UNCHANGED <<txn, ready, run>>
  BY DroppedSmaller DEF ToggleOffline, CancelFetch, HomeDropped, catalogVars, resultVars
<1>2. offline' = ~offline /\ seq' = [seq EXCEPT !.demand = offline /\ (@ \/ seq.reserved \/ seq.handoff)]
  BY DEF ToggleOffline, SetManualOfflineMode
<1>3. /\ seq' \in Sequence /\ offline' \in BOOLEAN
      /\ seq'.claimed = seq.claimed /\ seq'.reserved = seq.reserved /\ seq'.handoff = seq.handoff
      /\ seq'.demand = (offline /\ (seq.demand \/ seq.reserved \/ seq.handoff))
  BY <1>2 DEF IInv, Shape, Sequence
<1>4. SlotInv' /\ Shape'
  BY <1>1, <1>3, SettledSlot DEF IInv, Shape
<1>5. DemandOwned' /\ DemandArmed'
  BY <1>1, <1>2, <1>3, SettledSlot DEF IInv, Shape, DemandOwned, DemandArmed
<1>. QED
  BY <1>4, <1>5 DEF IInv

LEMMA CloseInv ==
  ASSUME IInv, CloseBegin \/ CloseEnd
  PROVE  IInv'
<1>1. CASE CloseBegin
  BY <1>1, DroppedSmaller, SettledInv
     DEF CloseBegin, CancelFetch, HomeDropped, modeVars, catalogVars, resultVars
<1>2. CASE CloseEnd
  <2>1. UNCHANGED <<op, offline, txn, ready, run, hier>>
    BY <1>2 DEF CloseEnd, modeVars, catalogVars, resultVars
  <2>2. seq' = seq \/ seq' = NoSequence
    BY <1>2 DEF CloseEnd, SequenceReleased
  <2>. QED
    BY <2>1, <2>2, NoSequenceFacts DEF IInv, Shape, SlotInv, Exclusive, OwnTransaction, ReadyIdle,
                                       DemandOwned, DemandArmed
<1>. QED
  BY <1>1, <1>2

LEMMA NextInv == IInv /\ [Next]_vars => IInv'
<1> SUFFICES ASSUME IInv, [Next]_vars PROVE IInv'
  OBVIOUS
<1>1. CASE UNCHANGED vars
  BY <1>1, StillInv DEF vars, coordinatorVars, slotVars, modeVars, catalogVars, resultVars
<1>2. CASE Walker
  BY <1>2, HierarchyStepInv DEF Walker
<1>3. CASE StartFetch
  BY <1>3, StillInv DEF StartFetch, coordinatorVars, slotVars, modeVars, catalogVars, resultVars
<1>4. CASE RequestMaintenance
  BY <1>4, OutsideSequence DEF RequestMaintenance
<1>5. CASE OpenScreen \/ \E id \in home.screens : LeaveScreen(id)
  BY <1>5, RequestHierarchyInv, TakeHierarchyInv DEF OpenScreen, LeaveScreen
<1>6. CASE Screen
  BY <1>6, TakeHierarchyInv DEF Screen, ScreenResult
<1>7. CASE Stop
  BY <1>7, StopBeginInv DEF Stop
<1>8. CASE Server \/ Reconnect
  BY <1>8, EventInv DEF Server, Reconnect
<1>. QED
  BY <1>1, <1>2, <1>3, <1>4, <1>5, <1>6, <1>7, <1>8, WorkerInv, FetchInv, FrameInv, ToggleInv, CloseInv
     DEF Next

LEMMA InitInv == Init => IInv
<1> SUFFICES ASSUME Init PROVE IInv
  OBVIOUS
<1>. DEFINE s == [NoSequence EXCEPT !.owner = TRUE, !.reserved = TRUE]
<1>1. s \in Sequence /\ s.reserved /\ ~s.claimed /\ ~s.handoff
  BY DEF NoSequence, Sequence
<1>2. /\ Demanded(s) \in Sequence /\ Demanded(s).reserved /\ ~Demanded(s).claimed
      /\ ~Demanded(s).handoff
  BY <1>1, DemandedSequence DEF Init
<1>3. seq = [Demanded(s) EXCEPT !.demand = ~offline]
  BY DEF Init, ReservedSequence
<1>4. seq \in Sequence /\ seq.reserved /\ ~seq.claimed /\ seq.demand = ~offline
  BY <1>2, <1>3 DEF Sequence, Init
<1>5. Shape
  BY <1>4 DEF Shape, Init, IdleRun, NoHierarchy
<1>6. SlotInv
  BY DEF Init, IdleRun, NoHierarchy, SlotInv, Exclusive, OwnTransaction, ReadyIdle, Workers
<1>7. DemandOwned /\ DemandArmed
  BY <1>4 DEF DemandOwned, DemandArmed
<1>. QED
  BY <1>5, <1>6, <1>7 DEF IInv

LEMMA AlwaysIInv == Spec => []IInv
  BY InitInv, NextInv, PTL DEF Spec

(* For every number of items, requests and faults: two workers are never at work together, and  *)
(* the hierarchy is not at work beside one of them.                                             *)
THEOREM AlwaysExclusive == Spec => []Exclusive
<1>1. IInv => Exclusive
  BY DEF IInv, SlotInv
<1>. QED
  BY AlwaysIInv, <1>1, PTL

(* For every value of the constants, a walk that is under way finds the sync it began: the      *)
(* catalog, which remembers one, has not been given another meanwhile.                          *)
THEOREM AlwaysOwnTransaction == Spec => []OwnTransaction
<1>1. IInv => OwnTransaction
  BY DEF IInv, SlotInv
<1>. QED
  BY AlwaysIInv, <1>1, PTL

(* For every value of the constants, the demand that keeps the live worker back belongs to a    *)
(* sequence that can still end.                                                                 *)
THEOREM AlwaysDemandOwned == Spec => []DemandOwned
<1>1. IInv => DemandOwned
  BY DEF IInv
<1>. QED
  BY AlwaysIInv, <1>1, PTL

(* For every value of the constants, no live batch is claimed ahead of the cold start while the *)
(* session is online, whichever way offline mode is toggled.                                    *)
THEOREM AlwaysColdStartFirst == Spec => ColdStartFirst
<1>1. IInv /\ [Next]_vars => [LiveClaim => offline \/ ~(seq.reserved \/ seq.handoff \/ seq.claimed)]_vars
  BY DEF IInv, DemandOwned, DemandArmed, LiveClaim, Admitted
<1>. QED
  BY AlwaysIInv, <1>1, PTL DEF Spec, ColdStartFirst
=============================================================================
