----------------------- MODULE DownloadStorageProofs -----------------------
(***************************************************************************)
(* Proofs about DownloadStorage, for every value of its constants.         *)
(*                                                                         *)
(* The inductive invariant is the type invariant, the count of outstanding *)
(* removals (BusyExact) and QueuesOK.  None of the three is inductive      *)
(* without the others: a count is decremented when a removal is done, and  *)
(* stays a natural number because the removal was counted; the removal is  *)
(* still at the head of its queue when its second half runs, because       *)
(* nothing else shortens a queue meanwhile.                                *)
(***************************************************************************)
EXTENDS DownloadStorage, TLAPS

(* Between the two halves of a removal it stays queued, and a storage thread at rest holds none. *)
QueuesOK ==
    /\ job.op = "unlink" => p.removals[job.scope][job.id] # <<>>
    /\ ~p.on => p.removals = NoRemovals

IInv == TypeOK /\ BusyExact /\ QueuesOK

(***************************************************************************)
(* Types of the records the actions build.                                 *)
(***************************************************************************)
LEMMA EditType == ASSUME used \in Used, Edit \/ Fault \/ NoFault PROVE used' \in Used
  BY BoundsAssumption, SMT DEF Used, Edit, Fault, NoFault

LEMMA NothingOwedType == NothingOwed \in Owed
  BY SMT DEF Owed, NothingOwed, NoFinals, NoRemovals, NoPatches, FinalQueues, RemovalQueues, ScopeIds

LEMMA NoFinalType == NoFinal \in [on : BOOLEAN, scope : Scopes, left : SUBSET Ids,
                                  listed : SUBSET Ids, merged : BOOLEAN, ok : BOOLEAN]
  BY ScopesAssumption, SMT DEF NoFinal, AnyScope

LEMMA IdlePassType == IdlePass \in Pass
  BY ScopesAssumption, SMT DEF Pass, IdlePass, NoFinal, AnyScope, NoFinals, NoRemovals, NoPatches,
     FinalQueues, RemovalQueues, ScopeIds

LEMMA NoJobType == NoJob \in Job
  BY ScopesAssumption, BoundsAssumption, SMT DEF Job, NoJob, AnyScope, AnyId

LEMMA QueueType ==
  ASSUME NEW q \in RemovalQueues, NEW s \in Scopes, NEW i \in Ids, NEW v \in Seq(Removals)
  PROVE  [q EXCEPT ![s][i] = v] \in RemovalQueues
  BY SMT DEF RemovalQueues

LEMMA QueueAt ==
  ASSUME NEW q \in RemovalQueues, NEW s \in Scopes, NEW i \in Ids, NEW v,
         NEW t \in Scopes, NEW j \in Ids
  PROVE  [q EXCEPT ![s][i] = v][t][j] = IF t = s /\ j = i THEN v ELSE q[t][j]
  BY SMT DEF RemovalQueues

LEMMA QueueSet ==
  ASSUME NEW q \in RemovalQueues, NEW s \in Scopes, NEW i \in Ids, NEW v \in Seq(Removals),
         NEW r, r = [q EXCEPT ![s][i] = v]
  PROVE  r[s][i] = v
  BY SMT DEF RemovalQueues

LEMMA CountType ==
  ASSUME NEW b \in [Scopes -> [Ids -> Nat]], NEW s \in Scopes, NEW i \in Ids, NEW n \in Nat
  PROVE  [b EXCEPT ![s][i] = n] \in [Scopes -> [Ids -> Nat]]
  BY Zenon

LEMMA CountAt ==
  ASSUME NEW b \in [Scopes -> [Ids -> Nat]], NEW s \in Scopes, NEW i \in Ids, NEW n
  PROVE  [b EXCEPT ![s][i] = n][s][i] = n
  BY Zenon

LEMMA ScopeIdsType ==
  ASSUME NEW g \in ScopeIds, NEW s \in Scopes, NEW D \in SUBSET Ids
  PROVE  [g EXCEPT ![s] = D] \in ScopeIds
  BY Zenon DEF ScopeIds

(* Two fields of an item change. *)
LEMMA ItemChange ==
  ASSUME NEW lib \in Library, NEW i \in Ids, lib[i] # NoItem, NEW it \in Item
  PROVE  [lib EXCEPT ![i] = it] \in Library /\ lib[i] \in Item
  BY Zenon DEF Library

LEMMA OwedWrite ==
  ASSUME NEW o \in Owed, NEW D \in SUBSET Ids
  PROVE  /\ [o EXCEPT !.ids = @ \cup D, !.index = TRUE] \in Owed
         /\ [o EXCEPT !.ids = @ \cup D, !.index = TRUE].removals = o.removals
  BY Zenon DEF Owed

LEMMA OwedFields ==
  ASSUME NEW o \in Owed
  PROVE  /\ o.finals \in FinalQueues /\ o.removals \in RemovalQueues
         /\ o.patches \in ScopeIds /\ o.ids \in SUBSET Ids /\ o.rescans \in SUBSET Ids
         /\ o.rescanAll \in BOOLEAN /\ o.index \in BOOLEAN /\ o.load \in BOOLEAN
  BY Zenon DEF Owed

LEMMA PassFields ==
  ASSUME NEW q \in Pass
  PROVE  /\ q.on \in BOOLEAN /\ q.scope \in Scopes /\ q.current \in BOOLEAN
         /\ q.finals \in FinalQueues /\ q.retryFinals \in FinalQueues
         /\ q.final.scope \in Scopes /\ q.final.left \in SUBSET Ids /\ q.final.listed \in SUBSET Ids
         /\ q.removals \in RemovalQueues /\ q.patches \in ScopeIds
         /\ q.loaded \in BOOLEAN /\ q.load \in BOOLEAN
         /\ q.rescans \in SUBSET Ids /\ q.ids \in SUBSET Ids /\ q.retryIds \in SUBSET Ids
         /\ q.index \in BOOLEAN /\ q.retryIndex \in BOOLEAN
  BY Zenon DEF Pass

LEMMA AppendType ==
  ASSUME NEW q \in Seq(Removals), NEW w \in Removals
  PROVE  Append(q, w) \in Seq(Removals) /\ Len(Append(q, w)) = Len(q) + 1
  BY SMT

LEMMA TailType ==
  ASSUME NEW q \in Seq(Removals), q # <<>>
  PROVE  Tail(q) \in Seq(Removals) /\ Len(Tail(q)) = Len(q) - 1 /\ Len(q) > 0
  BY SMT

LEMMA ConcatType ==
  ASSUME NEW q \in Seq(Removals), NEW r \in Seq(Removals)
  PROVE  q \o r \in Seq(Removals) /\ Len(q \o r) = Len(q) + Len(r)
  BY SMT

LEMMA BytesType ==
  ASSUME NEW b \in [Scopes -> [Ids -> Sources \cup {NoBytes}]], NEW s \in Scopes, NEW i \in Ids,
         NEW v \in Sources \cup {NoBytes}
  PROVE  [b EXCEPT ![s][i] = v] \in [Scopes -> [Ids -> Sources \cup {NoBytes}]]
  BY Zenon

LEMMA ManifestType ==
  ASSUME NEW m \in [Scopes -> Library], NEW s \in Scopes, NEW i \in Ids, NEW v \in Item \cup {NoItem}
  PROVE  [m EXCEPT ![s][i] = v] \in [Scopes -> Library]
  BY Zenon DEF Library

LEMMA ReadType ==
  ASSUME DiskOK, NEW s \in Scopes
  PROVE  /\ ReadIds(s) \in SUBSET Ids
         /\ ReadItems(s) \in Library /\ ScanItems(s) \in Library
  <1>1. ReadIds(s) \in SUBSET Ids
    BY Zenon DEF DiskOK, ReadIds, IndexUsable, OnDisk, IdsOf
  <1>2. ReadItems(s) \in Library /\ ScanItems(s) \in Library
    BY SMT DEF DiskOK, ReadItems, ScanItems, Library
  <1>3. QED
    BY <1>1, <1>2

LEMMA LenType == ASSUME NEW q \in Seq(Removals) PROVE Len(q) \in Nat
  BY SMT

LEMMA Swap == ASSUME NEW m \in Nat, NEW n \in Nat PROVE m + n = n + m
  BY SMT

LEMMA OneMore ==
  ASSUME NEW m \in Nat, NEW n \in Nat
  PROVE  (m + n) + 1 = (m + 1) + n /\ (m + n) + 1 \in Nat
  BY SMT

LEMMA OneLess ==
  ASSUME NEW m \in Nat, NEW n \in Nat, n > 0
  PROVE  (m + n) - 1 = m + (n - 1) /\ (m + n) - 1 \in Nat
  BY SMT

LEMMA SwapZero == ASSUME NEW m \in Nat, NEW n \in Nat PROVE m + n = (n + m) + 0
  BY SMT

LEMMA EmptyType == <<>> \in Seq(Removals) /\ Len(<<>>) = 0
  BY SMT

LEMMA FinalsType ==
  ASSUME NEW q \in FinalQueues, NEW s \in Scopes, NEW v \in Seq(FinalWrite)
  PROVE  [q EXCEPT ![s] = v] \in FinalQueues
  BY SMT DEF FinalQueues

LEMMA FinalTailType ==
  ASSUME NEW q \in Seq(FinalWrite), q # <<>>
  PROVE  Tail(q) \in Seq(FinalWrite) /\ Head(q) \in FinalWrite
  BY SMT

LEMMA FinalAppendType ==
  ASSUME NEW q \in Seq(FinalWrite), NEW f \in FinalWrite
  PROVE  Append(q, f) \in Seq(FinalWrite)
  BY SMT

LEMMA FinalConcatType ==
  ASSUME NEW q \in FinalQueues, NEW r \in FinalQueues
  PROVE  [s \in Scopes |-> q[s] \o r[s]] \in FinalQueues
  BY SMT DEF FinalQueues

(* An action that leaves the queues of removals alone preserves what the counts say of them. *)
LEMMA QueueFrame ==
  ASSUME BusyExact, QueuesOK, UNCHANGED busy,
         owed'.removals = owed.removals, p'.removals = p.removals, p'.on = p.on,
         job'.op = "unlink" => UNCHANGED job
  PROVE  BusyExact' /\ QueuesOK'
  BY Zenon DEF BusyExact, QueuesOK

(* A removal queued by a request: one more to do, one more counted. *)
LEMMA RemovalQueued ==
  ASSUME IInv, NEW i \in Ids, NEW what \in Removals, QueueRemoval(i)
  PROVE  /\ WithRemoval(owed, i, what) \in Owed
         /\ busy' \in [Scopes -> [Ids -> Nat]]
         /\ owed'.removals = WithRemoval(owed, i, what).removals /\ UNCHANGED <<p, job>>
              => BusyExact' /\ QueuesOK'
  <1> DEFINE q == owed.removals
             v == Append(q[scope][i], what)
  <1>0. scope \in Scopes /\ owed \in Owed
    BY DEF IInv, TypeOK, MemoryOK, WorkOK
  <1>1. scope \in Scopes /\ owed \in Owed /\ q \in RemovalQueues /\ q[scope][i] \in Seq(Removals)
    BY <1>0, OwedFields DEF RemovalQueues
  <1>2. v \in Seq(Removals) /\ Len(v) = Len(q[scope][i]) + 1
    BY <1>1, AppendType
  <1>3. [q EXCEPT ![scope][i] = v] \in RemovalQueues
    BY <1>1, <1>2, QueueType
  <1>4. owed.ids \in SUBSET Ids
    BY <1>1, OwedFields
  <1>5. WithRemoval(owed, i, what) \in Owed
    BY <1>1, <1>3, <1>4, Zenon DEF Owed, WithRemoval
  <1>6. WithRemoval(owed, i, what).removals = [q EXCEPT ![scope][i] = v]
    BY <1>1, Zenon DEF WithRemoval, Owed
  <1>7. busy' \in [Scopes -> [Ids -> Nat]]
    BY <1>1, SMT DEF QueueRemoval, IInv, TypeOK, MemoryOK, WorkOK
  <1>8. ASSUME owed'.removals = WithRemoval(owed, i, what).removals, UNCHANGED <<p, job>>
        PROVE  BusyExact' /\ QueuesOK'
    <2>1. owed'.removals = [q EXCEPT ![scope][i] = v]
      BY <1>6, <1>8
    <2>2. p \in Pass /\ p.removals \in RemovalQueues
      BY Zenon DEF IInv, TypeOK, WorkOK, Pass
    <2>3. ASSUME NEW s \in Scopes, NEW j \in Ids
          PROVE  busy'[s][j] = Len(owed'.removals[s][j]) + Len(p'.removals[s][j])
      <3>1. busy[s][j] = Len(q[s][j]) + Len(p.removals[s][j])
        BY DEF IInv, BusyExact
      <3>2. q[s][j] \in Seq(Removals) /\ p.removals[s][j] \in Seq(Removals)
        BY <1>1, <2>2 DEF RemovalQueues
      <3>3. CASE s = scope /\ j = i
        <4>1. owed'.removals[s][j] = v
          BY <3>3, <2>1, <1>1 DEF RemovalQueues
        <4>2. busy'[s][j] = busy[s][j] + 1
          BY <3>3, <1>1 DEF QueueRemoval, IInv, TypeOK, WorkOK
        <4>3. Len(owed'.removals[s][j]) = Len(q[s][j]) + 1
          BY <4>1, <1>2, <3>3
        <4>4. Len(q[s][j]) \in Nat /\ Len(p.removals[s][j]) \in Nat
          BY <3>2
        <4>5. p'.removals[s][j] = p.removals[s][j]
          BY <1>8
        <4>6. QED
          BY <4>2, <4>3, <4>4, <4>5, <3>1, OneMore
      <3>4. CASE ~(s = scope /\ j = i)
        <4>1. owed'.removals[s][j] = q[s][j]
          BY <3>4, <2>1, <1>1, QueueAt
        <4>2. busy'[s][j] = busy[s][j]
          BY <3>4, <1>1, SMT DEF QueueRemoval, IInv, TypeOK, WorkOK
        <4>3. QED
          BY <4>1, <4>2, <3>1, <1>8
      <3>5. QED
        BY <3>3, <3>4
    <2>4. QED
      BY <2>3, <1>8, Zenon DEF BusyExact, QueuesOK, IInv
  <1>9. QED
    BY <1>5, <1>7, <1>8

(* What a new library in memory starts as. *)
LEMMA StartType ==
  ASSUME NEW s \in Scopes, StartScope(s)
  PROVE  /\ scope' \in Scopes /\ items' \in Library
         /\ loading' \in BOOLEAN /\ fresh' \in BOOLEAN
         /\ indexedIds' \subseteq Ids
  BY Zenon DEF StartScope, Empty, Library

(***************************************************************************)
(* One lemma per action.                                                   *)
(***************************************************************************)
LEMMA ConfigureInv == ASSUME IInv, NEW s \in Scopes, Configure(s) PROVE IInv'
  <1> USE DEF IInv, TypeOK, Configure
  <1>1. MemoryOK'
    <2>1. CASE s = scope
      BY <2>1, Zenon DEF MemoryOK
    <2>2. CASE s # scope
      BY <2>2, StartType, Zenon DEF MemoryOK
    <2>3. QED
      BY <2>1, <2>2
  <1>2. owed' \in Owed
    <2>1. owed \in Owed /\ scope \in Scopes /\ items \in Library /\ loading \in BOOLEAN
      BY DEF MemoryOK, WorkOK
    <2>2. CASE s = scope
      BY <2>1, <2>2
    <2>3. CASE s # scope
      <3> DEFINE f == [items |-> items, complete |-> ~loading]
                 v == IF IdsOf(items) = {} THEN owed.finals[scope] ELSE Append(owed.finals[scope], f)
      <3>1. f \in FinalWrite
        BY <2>1 DEF FinalWrite
      <3>2. owed.finals \in FinalQueues /\ owed.finals[scope] \in Seq(FinalWrite)
        BY <2>1, OwedFields DEF FinalQueues
      <3>3. v \in Seq(FinalWrite)
        BY <3>1, <3>2, FinalAppendType
      <3>4. [owed.finals EXCEPT ![scope] = v] \in FinalQueues
        BY <2>1, <3>2, <3>3, FinalsType
      <3>5. owed' = [owed EXCEPT !.finals = [owed.finals EXCEPT ![scope] = v],
                                 !.ids = {}, !.rescans = {}, !.load = TRUE]
        BY <2>1, <2>3, Zenon DEF Owed
      <3> HIDE DEF v
      <3>6. QED
        BY <2>1, <3>4, <3>5, Zenon DEF Owed
    <2>4. QED
      BY <2>2, <2>3
  <1>3. p' \in Pass /\ p'.removals = p.removals /\ p'.on = p.on
    BY Zenon DEF WorkOK, Pass
  <1>4. owed'.removals = owed.removals
    BY Zenon DEF WorkOK, Owed
  <1>5. WorkOK'
    BY <1>2, <1>3, Zenon DEF WorkOK, Transfer
  <1>6. DiskOK' /\ HistoryOK' /\ used' \in Used
    <2>1. HistoryOK'
      <3>1. scope \in Scopes /\ forgotten \in ScopeIds /\ deleteRequested \in SUBSET Ids
        BY Zenon DEF MemoryOK, HistoryOK
      <3>2. forgotten[scope] \cup deleteRequested \in SUBSET Ids
        BY <3>1, Zenon DEF ScopeIds
      <3>3. forgotten' \in ScopeIds
        BY <3>1, <3>2, ScopeIdsType, Zenon
      <3>4. QED
        BY <3>3, Zenon DEF HistoryOK, disk
    <2>2. DiskOK' /\ used' \in Used
      BY BoundsAssumption, SMT DEF DiskOK, disk, Used
    <2>3. QED
      BY <2>1, <2>2
  <1>7. BusyExact' /\ QueuesOK'
    BY <1>3, <1>4, QueueFrame
  <1>8. QED
    BY <1>1, <1>5, <1>6, <1>7

LEMMA EnqueueInv ==
  ASSUME IInv, NEW i \in Ids, NEW src \in Sources, Enqueue(i, src) PROVE IInv'
  <1> USE DEF IInv, TypeOK, Enqueue
  <1>1. MemoryOK'
    BY SMT DEF MemoryOK, Library, Item, States
  <1>2. owed' \in Owed /\ owed'.removals = owed.removals
    BY Zenon DEF WorkOK, Owed
  <1>3. WorkOK'
    BY <1>2, Zenon DEF WorkOK
  <1>4. DiskOK' /\ HistoryOK' /\ used' \in Used
    BY EditType, Zenon DEF MemoryOK, DiskOK, disk, ScopeIds, HistoryOK, history
  <1>5. BusyExact' /\ QueuesOK'
    BY <1>2, QueueFrame
  <1>6. QED
    BY <1>1, <1>3, <1>4, <1>5

LEMMA SetStateInv ==
  ASSUME IInv, NEW i \in Ids, NEW st \in States, SetState(i, st) PROVE IInv'
  <1> USE DEF IInv, TypeOK, SetState
  <1>1. MemoryOK'
    BY SMT DEF MemoryOK, Library, Item, Live
  <1>2. owed' \in Owed /\ owed'.removals = owed.removals
    BY Zenon DEF WorkOK, Owed
  <1>3. WorkOK'
    BY <1>2, Zenon DEF WorkOK
  <1>4. DiskOK' /\ HistoryOK' /\ used' \in Used
    BY EditType, Zenon DEF DiskOK, disk, HistoryOK, history
  <1>5. BusyExact' /\ QueuesOK'
    BY <1>2, QueueFrame
  <1>6. QED
    BY <1>1, <1>3, <1>4, <1>5

(* What the user has erased is taken out of the history. *)
LEMMA UnwantedType ==
  ASSUME IInv, NEW i \in Ids, Unwanted(i), UNCHANGED leftover PROVE HistoryOK'
  <1>1. scope \in Scopes /\ library \in ScopeIds /\ forgotten \in ScopeIds /\ leftover \in ScopeIds
    BY DEF IInv, TypeOK, MemoryOK, HistoryOK
  <1>2. library[scope] \ {i} \in SUBSET Ids /\ forgotten[scope] \ {i} \in SUBSET Ids
    BY <1>1, Zenon DEF ScopeIds
  <1>3. library' \in ScopeIds /\ forgotten' \in ScopeIds
    BY <1>1, <1>2, ScopeIdsType, Zenon DEF Unwanted
  <1>4. QED
    BY <1>1, <1>3 DEF HistoryOK

LEMMA EraseRunningInv ==
  ASSUME IInv, NEW i \in Ids, EraseRunning(i) PROVE IInv'
  <1> USE DEF IInv, TypeOK, EraseRunning
  <1>1. MemoryOK'
    BY SMT DEF MemoryOK, Library, Item, States, Live
  <1>2. owed' \in Owed /\ owed'.removals = owed.removals
    BY Zenon DEF WorkOK, Owed
  <1>3. WorkOK'
    BY <1>2, Zenon DEF WorkOK
  <1>7. HistoryOK'
    BY UnwantedType, Zenon DEF disk
  <1>4. DiskOK' /\ HistoryOK' /\ used' \in Used
    BY <1>7, EditType, Zenon DEF DiskOK, disk
  <1>5. BusyExact' /\ QueuesOK'
    BY <1>2, QueueFrame
  <1>6. QED
    BY <1>1, <1>3, <1>4, <1>5

(* What Forget and DiscardBytes change. *)
LEMMA ForgetType ==
  ASSUME IInv, NEW i \in Ids, Forget(i), UNCHANGED <<p, job>>
  PROVE  /\ owed' \in Owed /\ busy' \in [Scopes -> [Ids -> Nat]]
         /\ items' \in Library /\ indexedIds' \subseteq Ids
         /\ BusyExact' /\ QueuesOK'
  <1> DEFINE w == WithRemoval(owed, i, "item")
  <1>1. QueueRemoval(i) /\ owed' = [w EXCEPT !.index = TRUE] /\ "item" \in Removals
    BY DEF Forget, Removals
  <1>2. w \in Owed
    BY <1>1, RemovalQueued
  <1> HIDE DEF w
  <1>3. owed' \in Owed /\ owed'.removals = w.removals
    BY <1>1, <1>2, Zenon DEF Owed
  <1>4. items' \in Library /\ indexedIds' \subseteq Ids
    BY SMT DEF Forget, IInv, TypeOK, MemoryOK, Library
  <1>5. QED
    BY <1>1, <1>3, <1>4, RemovalQueued DEF w

LEMMA DiscardType ==
  ASSUME IInv, NEW i \in Ids, NEW D \in SUBSET Ids, DiscardBytes(i, D), UNCHANGED <<p, job>>
  PROVE  /\ owed' \in Owed /\ busy' \in [Scopes -> [Ids -> Nat]]
         /\ BusyExact' /\ QueuesOK'
  <1> DEFINE w == WithRemoval(owed, i, "bytes")
  <1>1. QueueRemoval(i) /\ owed' = [w EXCEPT !.ids = @ \cup D] /\ "bytes" \in Removals
    BY DEF DiscardBytes, Removals
  <1>2. w \in Owed
    BY <1>1, RemovalQueued
  <1> HIDE DEF w
  <1>3. owed' \in Owed /\ owed'.removals = w.removals
    BY <1>1, <1>2, Zenon DEF Owed
  <1>4. QED
    BY <1>1, <1>3, RemovalQueued DEF w

LEMMA EraseInv == ASSUME IInv, NEW i \in Ids, Erase(i) PROVE IInv'
  <1>1. Forget(i) /\ UNCHANGED <<p, job>>
    BY DEF Erase
  <1>2. MemoryOK' /\ WorkOK'
    BY <1>1, ForgetType, Zenon DEF IInv, TypeOK, MemoryOK, WorkOK, Erase
  <1>5. HistoryOK'
    BY UnwantedType, Zenon DEF disk, Erase
  <1>3. DiskOK' /\ HistoryOK' /\ used' \in Used
    BY <1>5, EditType, Zenon DEF IInv, TypeOK, DiskOK, disk, Erase
  <1>4. QED
    BY <1>1, <1>2, <1>3, ForgetType DEF IInv, TypeOK

LEMMA RedownloadInv ==
  ASSUME IInv, NEW i \in Ids, NEW src \in Sources, Redownload(i, src) PROVE IInv'
  <1>1. DiscardBytes(i, {i}) /\ {i} \in SUBSET Ids /\ UNCHANGED <<p, job>>
    BY DEF Redownload
  <1>2. items' \in Library
    <2> DEFINE it == [items[i] EXCEPT !.st = "Queued", !.src = src]
    <2>1. items \in Library /\ items[i] # NoItem
      BY DEF IInv, TypeOK, MemoryOK, Redownload, Live
    <2>2. items[i] \in Item
      BY <2>1, Zenon DEF Library
    <2>3. it \in Item
      BY <2>2, Zenon DEF Item, States
    <2>4. items' = [items EXCEPT ![i] = it]
      BY <2>1, Zenon DEF Redownload, Library
    <2> HIDE DEF it
    <2>5. QED
      BY <2>1, <2>3, <2>4, ItemChange
  <1>3. MemoryOK' /\ WorkOK'
    BY <1>1, <1>2, DiscardType, Zenon DEF IInv, TypeOK, MemoryOK, WorkOK, Redownload
  <1>4. DiskOK' /\ HistoryOK' /\ used' \in Used
    BY EditType, Zenon DEF IInv, TypeOK, DiskOK, disk, Redownload, HistoryOK, history
  <1>5. QED
    BY <1>1, <1>3, <1>4, DiscardType DEF IInv, TypeOK
LEMMA ReconcileChangedInv ==
  ASSUME IInv, NEW i \in Ids, NEW src \in Sources, ReconcileChanged(i, src) PROVE IInv'
  <1> USE DEF ReconcileChanged
  <1>1. items' \in Library
    BY SMT DEF IInv, TypeOK, MemoryOK, Library, Item, States, Live
  <1>2. DiskOK' /\ HistoryOK' /\ used' \in Used /\ reconciled' \subseteq Ids
    BY EditType, Zenon DEF IInv, TypeOK, WorkOK, DiskOK, disk, HistoryOK, history
  <1>3. CASE UNCHANGED <<owed, busy>>
    <2>1. MemoryOK' /\ WorkOK'
      BY <1>1, <1>2, <1>3, Zenon DEF IInv, TypeOK, MemoryOK, WorkOK
    <2>2. BusyExact' /\ QueuesOK'
      BY <1>3, QueueFrame DEF IInv
    <2>3. QED
      BY <1>2, <2>1, <2>2 DEF IInv, TypeOK
  <1>4. CASE DiscardBytes(i, {})
    <2>1. UNCHANGED <<p, job>> /\ {} \in SUBSET Ids
      OBVIOUS
    <2>2. MemoryOK' /\ WorkOK'
      BY <1>1, <1>2, <1>4, <2>1, DiscardType, Zenon DEF IInv, TypeOK, MemoryOK, WorkOK
    <2>3. QED
      BY <1>2, <1>4, <2>1, <2>2, DiscardType DEF IInv, TypeOK
  <1>5. QED
    BY <1>3, <1>4

LEMMA ReconcileEndInv == ASSUME IInv, ReconcileEnd PROVE IInv'
  <1> USE DEF IInv, TypeOK, ReconcileEnd
  <1>1. owed' \in Owed /\ owed'.removals = owed.removals
    BY Zenon DEF WorkOK, Owed
  <1>2. MemoryOK' /\ WorkOK' /\ DiskOK' /\ HistoryOK' /\ used' \in Used
    BY <1>1, Zenon DEF WorkOK, MemoryOK, DiskOK, memory, disk, HistoryOK, history
  <1>3. BusyExact' /\ QueuesOK'
    BY <1>1, QueueFrame
  <1>4. QED
    BY <1>2, <1>3

LEMMA TransferStartInv == ASSUME IInv, NEW i \in Ids, TransferStart(i) PROVE IInv'
  <1> USE DEF IInv, TypeOK, TransferStart
  <1>1. items' \in Library /\ xfer' \in Transfer
    BY SMT DEF MemoryOK, Library, Item, States, Live, Transfer
  <1>2. owed' \in Owed /\ owed'.removals = owed.removals
    BY Zenon DEF WorkOK, Owed
  <1>3. MemoryOK' /\ WorkOK' /\ DiskOK' /\ HistoryOK' /\ used' \in Used
    BY <1>1, <1>2, Zenon DEF WorkOK, MemoryOK, DiskOK, disk, HistoryOK, history
  <1>4. BusyExact' /\ QueuesOK'
    BY <1>2, QueueFrame
  <1>5. QED
    BY <1>3, <1>4

LEMMA TransferDiscoverInv == ASSUME IInv, TransferDiscover PROVE IInv'
  <1> USE DEF IInv, TypeOK, TransferDiscover
  <1>1. xfer \in Transfer /\ xfer' \in Transfer /\ xfer.id \in Ids
    BY Zenon DEF WorkOK, Transfer, TransferOwner
  <1>2. items' \in Library
    <2> DEFINE i  == xfer.id
               it == [items[i] EXCEPT !.counted = TRUE, !.st = IF @ = "Queued" THEN "Downloading" ELSE @]
    <2>1. items \in Library /\ items[i] # NoItem
      BY DEF MemoryOK, TransferOwner, Live
    <2>2. items[i] \in Item
      BY <1>1, <2>1, Zenon DEF Library
    <2>3. it \in Item
      BY <2>2, Zenon DEF Item, States
    <2>4. items' = [items EXCEPT ![i] = it]
      BY <1>1, <2>1, Zenon DEF Published, Library
    <2> HIDE DEF it
    <2>5. QED
      BY <1>1, <2>1, <2>3, <2>4, ItemChange
  <1>3. owed' \in Owed /\ owed'.removals = owed.removals
    BY <1>1, Zenon DEF WorkOK, Owed, Published
  <1>4. MemoryOK' /\ WorkOK' /\ DiskOK' /\ HistoryOK' /\ used' \in Used
    BY <1>1, <1>2, <1>3, Zenon DEF WorkOK, MemoryOK, DiskOK, disk, HistoryOK, history
  <1>5. BusyExact' /\ QueuesOK'
    BY <1>3, QueueFrame
  <1>6. QED
    BY <1>4, <1>5

LEMMA TransferFileInv == ASSUME IInv, TransferSegment \/ TransferValidate PROVE IInv'
  <1> USE DEF IInv, TypeOK, TransferSegment, TransferValidate
  <1>1. xfer \in Transfer /\ xfer' \in Transfer
    BY Zenon DEF WorkOK, Transfer
  <1>2. bytes' \in [Scopes -> [Ids -> Sources \cup {NoBytes}]]
    <2>1. xfer.scope \in Scopes /\ xfer.id \in Ids /\ xfer.src \in Sources \cup {NoBytes}
      BY <1>1, Zenon DEF Transfer
    <2>2. QED
      <3>1. [bytes EXCEPT ![xfer.scope][xfer.id] = xfer.src]
              \in [Scopes -> [Ids -> Sources \cup {NoBytes}]]
        BY <2>1, BytesType, Zenon DEF DiskOK
      <3>2. QED
        BY <3>1, Zenon DEF DiskOK, disk
  <1>3. MemoryOK' /\ WorkOK' /\ DiskOK' /\ HistoryOK' /\ used' \in Used
    BY <1>1, <1>2, Zenon DEF WorkOK, MemoryOK, DiskOK, disk, memory, HistoryOK, history
  <1>4. BusyExact' /\ QueuesOK'
    BY QueueFrame
  <1>5. QED
    BY <1>3, <1>4

LEMMA TransferEndInv == ASSUME IInv, TransferEnd PROVE IInv'
  <1> DEFINE i == xfer.id
  <1>1. xfer \in Transfer /\ xfer.id \in Ids /\ xfer.scope \in Scopes
    BY Zenon DEF IInv, TypeOK, WorkOK, Transfer, TransferEnd
  <1>2. UNCHANGED <<p, job, reconciled, manifest, index, away, leftover, history, used>> /\ xfer' = NoXfer
    BY DEF TransferEnd
  <1>3. bytes' \in [Scopes -> [Ids -> Sources \cup {NoBytes}]]
    <2>1. bytes \in [Scopes -> [Ids -> Sources \cup {NoBytes}]]
      BY DEF IInv, TypeOK, DiskOK
    <2>2. [bytes EXCEPT ![xfer.scope][xfer.id] = NoBytes]
             \in [Scopes -> [Ids -> Sources \cup {NoBytes}]]
      BY <1>1, <2>1, BytesType, Zenon
    <2>3. QED
      BY <2>1, <2>2, Zenon DEF TransferEnd, TransferStopped, TransferDeleted, TransferStale,
         TransferComplete, TransferUndiscovered, TransferAborted, TransferFailed
  <1>4. DiskOK' /\ HistoryOK' /\ used' \in Used
    BY <1>2, <1>3, Zenon DEF IInv, TypeOK, DiskOK, HistoryOK, history
  <1>5. CASE TransferDeleted
    <2>1. Forget(xfer.id) /\ UNCHANGED <<p, job>>
      BY <1>2, <1>5 DEF TransferDeleted
    <2>2. deleteRequested' \subseteq Ids
      BY <1>5, Zenon DEF TransferDeleted, IInv, TypeOK, MemoryOK
    <2>3. MemoryOK' /\ WorkOK'
      BY <1>1, <1>2, <1>5, <2>1, <2>2, ForgetType, Zenon
         DEF IInv, TypeOK, MemoryOK, WorkOK, TransferDeleted
    <2>4. QED
      BY <1>1, <1>4, <2>1, <2>3, ForgetType DEF IInv, TypeOK
  <1>6. CASE TransferStopped \/ TransferStale \/ TransferAborted
    <2>1. UNCHANGED <<memory, owed, busy>>
      BY <1>6 DEF TransferStopped, TransferStale, TransferAborted
    <2>2. MemoryOK' /\ WorkOK'
      BY <1>2, <2>1, Zenon DEF IInv, TypeOK, MemoryOK, WorkOK, memory
    <2>3. BusyExact' /\ QueuesOK'
      BY <1>2, <2>1, QueueFrame DEF IInv
    <2>4. QED
      BY <1>4, <2>2, <2>3 DEF IInv, TypeOK
  <1>7. CASE TransferComplete \/ TransferUndiscovered \/ TransferFailed
    <2> USE <1>7 DEF TransferComplete, TransferUndiscovered, TransferFailed
    <2>1. items' \in Library
      BY <1>1, SMT DEF IInv, TypeOK, MemoryOK, Library, Item, States, TransferOwner, Live, Failed
    <2>2. owed' \in Owed /\ owed'.removals = owed.removals
      <3>1. owed \in Owed
        BY DEF IInv, TypeOK, WorkOK
      <3>2. CASE owed' = [owed EXCEPT !.ids = @ \cup {xfer.id}]
        BY <1>1, <3>1, <3>2, Zenon DEF Owed
      <3>3. CASE owed' = [owed EXCEPT !.ids = @ \cup {xfer.id}, !.rescans = @ \cup {xfer.id}]
        BY <1>1, <3>1, <3>3, Zenon DEF Owed
      <3>4. QED
        BY <3>2, <3>3
    <2>3. MemoryOK' /\ WorkOK'
      BY <1>2, <2>1, <2>2, Zenon DEF IInv, TypeOK, MemoryOK, WorkOK
    <2>4. BusyExact' /\ QueuesOK'
      BY <1>2, <2>2, QueueFrame DEF IInv
    <2>5. QED
      BY <1>4, <2>3, <2>4 DEF IInv, TypeOK
  <1>8. QED
    BY <1>5, <1>6, <1>7 DEF TransferEnd
LEMMA TakeWorkInv == ASSUME IInv, TakeWork PROVE IInv'
  <1> USE DEF IInv, TypeOK, TakeWork
  <1>1. owed \in Owed /\ p \in Pass /\ items \in Library /\ scope \in Scopes
    BY DEF MemoryOK, WorkOK
  <1>2. p' \in Pass /\ p'.removals = owed.removals /\ p'.on = TRUE
    <2>1. owed.rescans \cup (IF owed.rescanAll THEN IdsOf(items) ELSE {}) \in SUBSET Ids
      BY <1>1, OwedFields DEF IdsOf
    <2>2. QED
      BY <1>1, <2>1, OwedFields, IdlePassType, Zenon DEF Pass
  <1>3. owed' \in Owed /\ owed'.removals = NoRemovals
    BY <1>1, NothingOwedType, Zenon DEF Left, Owed, NothingOwed
  <1>4. MemoryOK' /\ WorkOK' /\ DiskOK' /\ HistoryOK' /\ used' \in Used
    BY <1>2, <1>3, Zenon DEF WorkOK, MemoryOK, DiskOK, disk, memory, HistoryOK, history
  <1>5. p.removals = NoRemovals /\ job.op # "unlink"
    <2>1. p.removals = NoRemovals
      BY DEF QueuesOK
    <2>2. job.scope \in Scopes /\ job.id \in Ids
      BY Zenon DEF WorkOK, Job
    <2>3. QED
      BY <2>1, <2>2 DEF QueuesOK, NoRemovals
  <1>6. BusyExact'
    <2>1. ASSUME NEW s \in Scopes, NEW i \in Ids
          PROVE  busy'[s][i] = Len(owed'.removals[s][i]) + Len(p'.removals[s][i])
      <3>1. owed'.removals[s][i] = p.removals[s][i] /\ p'.removals[s][i] = owed.removals[s][i]
        BY <1>2, <1>3, <1>5
      <3>2. owed.removals[s][i] \in Seq(Removals) /\ p.removals[s][i] \in Seq(Removals)
        BY <1>1, OwedFields, PassFields DEF RemovalQueues
      <3>3. busy[s][i] = Len(owed.removals[s][i]) + Len(p.removals[s][i])
        BY DEF BusyExact
      <3>4. QED
        BY <3>1, <3>2, <3>3, LenType, Swap
    <2>2. QED
      BY <2>1 DEF BusyExact
  <1>7. QueuesOK'
    BY <1>2, <1>5 DEF QueuesOK
  <1>8. QED
    BY <1>4, <1>6, <1>7

LEMMA FinalBeginInv == ASSUME IInv, NEW s \in Scopes, FinalBegin(s) PROVE IInv'
  <1> USE DEF IInv, TypeOK, FinalBegin
  <1> DEFINE f == Head(p.finals[s])
             FinalType == [on : BOOLEAN, scope : Scopes, left : SUBSET Ids,
                           listed : SUBSET Ids, merged : BOOLEAN, ok : BOOLEAN]
             Started == [NoFinal EXCEPT !.on = TRUE, !.scope = s, !.left = IdsOf(f.items)]
  <1>1. p \in Pass /\ ReadIds(s) \in SUBSET Ids
    BY ReadType DEF WorkOK
  <1>2. Started \in FinalType
    <2>1. IdsOf(f.items) \in SUBSET Ids
      BY DEF IdsOf
    <2>2. QED
      BY <2>1, NoFinalType, Zenon
  <1> HIDE DEF Started
  <1>3. PICK x \in FinalType : p' = [p EXCEPT !.final = x]
    <2>1. CASE p' = [p EXCEPT !.final =
                      [Started EXCEPT !.listed = IF f.complete THEN {} ELSE ReadIds(s)]]
      BY <1>1, <1>2, <2>1, Zenon
    <2>2. CASE p' = [p EXCEPT !.final = [Started EXCEPT !.merged = FALSE, !.ok = FALSE]]
      BY <1>2, <2>2, Zenon
    <2>3. QED
      BY <2>1, <2>2 DEF Started
  <1>4. p' \in Pass /\ p'.removals = p.removals /\ p'.on = p.on
    BY <1>1, <1>3, Zenon DEF Pass
  <1>5. MemoryOK' /\ WorkOK' /\ DiskOK' /\ HistoryOK'
    BY <1>4, Zenon DEF WorkOK, MemoryOK, DiskOK, disk, memory, HistoryOK, history
  <1>6. used' \in Used
    BY EditType
  <1>7. BusyExact' /\ QueuesOK'
    BY <1>4, QueueFrame
  <1>8. QED
    BY <1>5, <1>6, <1>7

LEMMA FinalManifestInv ==
  ASSUME IInv, NEW s \in Scopes, NEW i \in Ids, FinalManifest(s, i) PROVE IInv'
  <1> USE DEF IInv, TypeOK, FinalManifest
  <1>1. p \in Pass /\ p.finals[s] \in Seq(FinalWrite) /\ p.finals[s] # <<>>
    BY PassFields DEF WorkOK, AtFinals, FinalQueues
  <1>2. Head(p.finals[s]).items[i] \in Item \cup {NoItem}
    <2>1. Head(p.finals[s]) \in FinalWrite
      BY <1>1, FinalTailType
    <2>2. QED
      BY <2>1, Zenon DEF FinalWrite, Library
  <1>3. p' \in Pass /\ p'.removals = p.removals /\ p'.on = p.on
    <2>1. CASE p' = [p EXCEPT !.final.left = @ \ {i}, !.final.listed = @ \cup {i}]
      BY <1>1, <2>1, Zenon DEF Pass
    <2>2. CASE p' = [p EXCEPT !.final.left = @ \ {i}, !.final.ok = FALSE]
      BY <1>1, <2>2, Zenon DEF Pass
    <2>3. QED
      BY <2>1, <2>2
  <1>4. manifest' \in [Scopes -> Library]
    <2>1. [manifest EXCEPT ![s][i] = Head(p.finals[s]).items[i]] \in [Scopes -> Library]
      BY <1>2, ManifestType, Zenon DEF DiskOK
    <2>2. QED
      BY <2>1, Zenon DEF DiskOK
  <1>5. MemoryOK' /\ WorkOK' /\ DiskOK' /\ HistoryOK'
    BY <1>3, <1>4, Zenon DEF WorkOK, MemoryOK, DiskOK, memory, HistoryOK, history
  <1>6. used' \in Used
    BY EditType
  <1>7. BusyExact' /\ QueuesOK'
    BY <1>3, QueueFrame
  <1>8. QED
    BY <1>5, <1>6, <1>7

LEMMA FinalIndexInv == ASSUME IInv, NEW s \in Scopes, FinalIndex(s) PROVE IInv'
  <1> USE DEF IInv, TypeOK, FinalIndex
  <1>1. p \in Pass /\ p.finals[s] \in Seq(FinalWrite) /\ p.finals[s] # <<>>
        /\ p.retryFinals[s] \in Seq(FinalWrite) /\ p.final.listed \in SUBSET Ids
    BY PassFields DEF WorkOK, AtFinals, FinalQueues
  <1>2. PICK ok : p' = [p EXCEPT !.finals[s] = Tail(@), !.final = NoFinal,
                        !.retryFinals[s] = KeptIf(~ok, Head(p.finals[s]), @)]
    OBVIOUS
  <1>3. p' \in Pass /\ p'.removals = p.removals /\ p'.on = p.on
    <2> DEFINE t == Tail(p.finals[s])
               k == KeptIf(~ok, Head(p.finals[s]), p.retryFinals[s])
    <2>1. t \in Seq(FinalWrite) /\ k \in Seq(FinalWrite)
      BY <1>1, FinalTailType, FinalAppendType DEF KeptIf
    <2>2. p' = [p EXCEPT !.finals[s] = t, !.final = NoFinal, !.retryFinals[s] = k]
      BY <1>2, Zenon
    <2> HIDE DEF t, k
    <2>3. [p.finals EXCEPT ![s] = t] \in FinalQueues /\ [p.retryFinals EXCEPT ![s] = k] \in FinalQueues
      BY <1>1, <2>1, PassFields, FinalsType
    <2>4. QED
      BY <1>1, <2>2, <2>3, NoFinalType, Zenon DEF Pass
  <1>4. index' \in [Scopes -> {NoIndex, BadIndex} \cup SUBSET Ids]
    BY <1>1, Zenon DEF DiskOK
  <1>5. MemoryOK' /\ WorkOK' /\ DiskOK' /\ HistoryOK'
    BY <1>3, <1>4, Zenon DEF WorkOK, MemoryOK, DiskOK, memory, HistoryOK, history
  <1>6. used' \in Used
    BY EditType DEF NoFault
  <1>7. BusyExact' /\ QueuesOK'
    BY <1>3, QueueFrame
  <1>8. QED
    BY <1>5, <1>6, <1>7
(* A removal that is done leaves its queue, and the count goes down by it. *)
LEMMA DoneType ==
  ASSUME IInv, NEW s \in Scopes, NEW i \in Ids, RemovalDone(s, i), p.on,
         p.removals[s][i] # <<>>, job'.op # "unlink"
  PROVE  /\ owed' \in Owed /\ p' \in Pass /\ busy' \in [Scopes -> [Ids -> Nat]]
         /\ BusyExact' /\ QueuesOK'
  <1> USE DEF RemovalDone
  <1> DEFINE q == p.removals
             t == Tail(q[s][i])
  <1>1. owed \in Owed /\ p \in Pass /\ busy \in [Scopes -> [Ids -> Nat]]
    BY DEF IInv, TypeOK, WorkOK
  <1>2. q \in RemovalQueues /\ q[s][i] \in Seq(Removals) /\ p.patches \in ScopeIds
        /\ owed.removals \in RemovalQueues
    BY <1>1, PassFields, OwedFields DEF RemovalQueues
  <1>3. t \in Seq(Removals) /\ Len(t) = Len(q[s][i]) - 1 /\ Len(q[s][i]) > 0
    BY <1>2, TailType
  <1>4. [q EXCEPT ![s][i] = t] \in RemovalQueues
    BY <1>2, <1>3, QueueType, Zenon
  <1>5. p' \in Pass /\ p'.removals = [q EXCEPT ![s][i] = t] /\ p'.on = p.on
    <2> DEFINE d == IF Head(q[s][i]) = "item" THEN p.patches[s] \cup {i} ELSE p.patches[s]
    <2>1. d \in SUBSET Ids
      BY <1>2, Zenon DEF ScopeIds
    <2>2. [p.patches EXCEPT ![s] = d] \in ScopeIds
      BY <1>2, <2>1, Zenon DEF ScopeIds
    <2>3. p' = [p EXCEPT !.removals = [q EXCEPT ![s][i] = t], !.patches = [p.patches EXCEPT ![s] = d]]
      BY <1>1, Zenon DEF Pass
    <2> HIDE DEF t, d
    <2>4. QED
      BY <1>1, <1>4, <2>2, <2>3, Zenon DEF Pass
  <1>6. owed' \in Owed /\ owed'.removals = owed.removals
    <2>1. CASE UNCHANGED owed
      BY <1>1, <2>1
    <2>2. CASE owed' = [owed EXCEPT !.ids = @ \cup {i}, !.index = TRUE]
      <3>1. {i} \in SUBSET Ids
        OBVIOUS
      <3>2. QED
        BY <1>1, <2>2, <3>1, OwedWrite
    <2>3. QED
      BY <2>1, <2>2
  <1>7. ASSUME NEW u \in Scopes, NEW j \in Ids
        PROVE  /\ busy'[u][j] \in Nat
               /\ busy'[u][j] = Len(owed'.removals[u][j]) + Len(p'.removals[u][j])
    <2>1. busy[u][j] = Len(owed.removals[u][j]) + Len(q[u][j]) /\ busy[u][j] \in Nat
      BY <1>1 DEF IInv, BusyExact
    <2>2. Len(owed.removals[u][j]) \in Nat /\ Len(q[u][j]) \in Nat
      BY <1>2, LenType DEF RemovalQueues
    <2>3. CASE u = s /\ j = i
      <3>1. busy'[u][j] = busy[u][j] - 1
        BY <1>1, <2>3, CountAt
      <3>2. p'.removals[u][j] = t
        <4> HIDE DEF t, q
        <4>1. p'.removals[s][i] = t
          BY <1>2, <1>3, <1>5, QueueSet
        <4>2. QED
          BY <2>3, <4>1
      <3>3. Len(p'.removals[u][j]) = Len(q[u][j]) - 1 /\ Len(q[u][j]) > 0
        BY <1>3, <2>3, <3>2
      <3>4. busy'[u][j] = (Len(owed.removals[u][j]) + Len(q[u][j])) - 1
        BY <2>1, <3>1
      <3>5. busy'[u][j] = Len(owed.removals[u][j]) + (Len(q[u][j]) - 1) /\ busy'[u][j] \in Nat
        BY <2>2, <3>3, <3>4, OneLess
      <3>6. QED
        BY <1>6, <3>3, <3>5
    <2>4. CASE ~(u = s /\ j = i)
      <3>1. busy'[u][j] = busy[u][j]
        BY <1>1, <2>4, Zenon
      <3>2. p'.removals[u][j] = q[u][j]
        BY <1>2, <1>5, <2>4, QueueAt
      <3>3. QED
        BY <1>6, <2>1, <3>1, <3>2
    <2>5. QED
      BY <2>3, <2>4
  <1>8. busy' \in [Scopes -> [Ids -> Nat]]
    <2>1. busy' = [busy EXCEPT ![s][i] = busy[s][i] - 1] /\ busy'[s][i] \in Nat
      BY <1>7
    <2>2. busy'[s][i] = busy[s][i] - 1
      BY <1>1, <2>1, CountAt
    <2>3. busy[s][i] - 1 \in Nat
      BY <2>1, <2>2
    <2>4. QED
      BY <1>1, <2>1, <2>3, CountType
  <1>9. QED
    BY <1>5, <1>6, <1>7, <1>8, Zenon DEF BusyExact, QueuesOK

(* A removal that fails and those behind it go back to the owed ones: none more, none less. *)
LEMMA HeldType ==
  ASSUME IInv, NEW s \in Scopes, NEW i \in Ids, HoldBack(s, i), p.on, job'.op # "unlink"
  PROVE  /\ owed' \in Owed /\ p' \in Pass /\ busy' \in [Scopes -> [Ids -> Nat]]
         /\ BusyExact' /\ QueuesOK'
  <1> DEFINE q == p.removals
             r == owed.removals
             t == q[s][i] \o r[s][i]
  <1>1. owed \in Owed /\ p \in Pass /\ busy \in [Scopes -> [Ids -> Nat]]
    BY DEF IInv, TypeOK, WorkOK
  <1>2. q \in RemovalQueues /\ r \in RemovalQueues
        /\ q[s][i] \in Seq(Removals) /\ r[s][i] \in Seq(Removals)
    BY <1>1, PassFields, OwedFields DEF RemovalQueues
  <1>3. t \in Seq(Removals) /\ Len(t) = Len(q[s][i]) + Len(r[s][i])
    BY <1>2, ConcatType
  <1>4. [r EXCEPT ![s][i] = t] \in RemovalQueues /\ [q EXCEPT ![s][i] = <<>>] \in RemovalQueues
    BY <1>2, <1>3, EmptyType, QueueType, Zenon
  <1>5. p' \in Pass /\ p'.removals = [q EXCEPT ![s][i] = <<>>] /\ p'.on = p.on
    <2>1. p' = [p EXCEPT !.removals = [q EXCEPT ![s][i] = <<>>]]
      BY <1>1, Zenon DEF Pass, HoldBack
    <2>2. QED
      BY <1>1, <1>4, <2>1, Zenon DEF Pass
  <1>6. owed' \in Owed /\ owed'.removals = [r EXCEPT ![s][i] = t]
    <2>1. owed' = [owed EXCEPT !.removals = [r EXCEPT ![s][i] = t]]
      BY <1>1, Zenon DEF Owed, HoldBack
    <2> HIDE DEF t
    <2>2. QED
      BY <1>1, <1>4, <2>1, Zenon DEF Owed
  <1>7. ASSUME NEW u \in Scopes, NEW j \in Ids
        PROVE  busy'[u][j] = Len(owed'.removals[u][j]) + Len(p'.removals[u][j])
    <2>1. busy'[u][j] = Len(r[u][j]) + Len(q[u][j])
      BY DEF IInv, BusyExact, HoldBack
    <2>2. Len(r[u][j]) \in Nat /\ Len(q[u][j]) \in Nat
      BY <1>2, LenType DEF RemovalQueues
    <2>3. CASE u = s /\ j = i
      <3>1. owed'.removals[u][j] = t /\ p'.removals[u][j] = <<>>
        <4> HIDE DEF t, q, r
        <4>1. owed'.removals[s][i] = t
          BY <1>2, <1>3, <1>6, QueueSet
        <4>2. p'.removals[s][i] = <<>>
          BY <1>2, <1>5, SMT DEF RemovalQueues
        <4>3. QED
          BY <2>3, <4>1, <4>2
      <3>2. Len(owed'.removals[u][j]) = Len(q[u][j]) + Len(r[u][j]) /\ Len(p'.removals[u][j]) = 0
        BY <1>3, <2>3, <3>1, EmptyType
      <3>3. QED
        BY <2>1, <2>2, <3>2, SwapZero
    <2>4. CASE ~(u = s /\ j = i)
      <3>1. owed'.removals[u][j] = r[u][j] /\ p'.removals[u][j] = q[u][j]
        BY <1>2, <1>5, <1>6, <2>4, QueueAt
      <3>2. QED
        BY <2>1, <3>1
    <2>5. QED
      BY <2>3, <2>4
  <1>8. QED
    BY <1>1, <1>5, <1>6, <1>7, Zenon DEF BusyExact, QueuesOK, HoldBack

LEMMA RemoveBytesInv == ASSUME IInv, NEW s \in Scopes, NEW i \in Ids, RemoveBytes(s, i) PROVE IInv'
  <1> USE DEF RemoveBytes
  <1>1. p.on /\ job.op = "none" /\ p.removals[s][i] # <<>>
    BY DEF AtRemovals, Idle
  <1>2. bytes' \in [Scopes -> [Ids -> Sources \cup {NoBytes}]]
    <2>1. [bytes EXCEPT ![s][i] = NoBytes] \in [Scopes -> [Ids -> Sources \cup {NoBytes}]]
      BY BytesType, Zenon DEF IInv, TypeOK, DiskOK
    <2>2. QED
      BY <2>1, Zenon DEF IInv, TypeOK, DiskOK, Cleared, LeftThere
  <1>3. xfer' \in Transfer \cup {NoXfer}
    <2>1. CASE UNCHANGED xfer
      BY <2>1 DEF IInv, TypeOK, WorkOK
    <2>2. CASE xfer # NoXfer /\ xfer' = [xfer EXCEPT !.phase = "cut"]
      BY <2>2, Zenon DEF IInv, TypeOK, WorkOK, Transfer
    <2>3. QED
      BY <2>1, <2>2 DEF Cleared, LeftThere, Fetching
  <1>10. HistoryOK'
    <2>1. library' \in ScopeIds /\ forgotten' \in ScopeIds /\ leftover \in ScopeIds
          /\ leftover[s] \in SUBSET Ids
      BY Zenon DEF IInv, TypeOK, HistoryOK, history, ScopeIds
    <2>2. [leftover EXCEPT ![s] = leftover[s] \ {i}] \in ScopeIds
          /\ [leftover EXCEPT ![s] = leftover[s] \cup {i}] \in ScopeIds
      BY <2>1, ScopeIdsType, Zenon
    <2>3. leftover' \in ScopeIds
      <3>1. CASE Cleared(s, i)
        BY <2>2, <3>1 DEF Cleared
      <3>2. CASE LeftThere(s, i)
        BY <2>1, <2>2, <3>2, Zenon DEF LeftThere
      <3>3. CASE UNCHANGED leftover
        BY <2>1, <3>3
      <3>4. QED
        BY <3>1, <3>2, <3>3
    <2>4. QED
      BY <2>1, <2>3 DEF HistoryOK
  <1>4. MemoryOK' /\ DiskOK' /\ HistoryOK' /\ reconciled' \subseteq Ids
    BY <1>2, <1>10, Zenon DEF IInv, TypeOK, MemoryOK, WorkOK, DiskOK, memory
  <1>5. used' \in Used
    BY EditType DEF IInv, TypeOK
  <1>6. job \in Job
    BY DEF IInv, TypeOK, WorkOK
  <1>7. CASE job' = [NoJob EXCEPT !.op = "unlink", !.scope = s, !.id = i] /\ UNCHANGED <<p, owed, busy>>
    <2>1. job' \in Job /\ job'.scope = s /\ job'.id = i
      BY <1>7, NoJobType, Zenon DEF Job
    <2>2. WorkOK'
      BY <1>3, <1>4, <1>7, <2>1, Zenon DEF IInv, TypeOK, WorkOK
    <2>3. BusyExact' /\ QueuesOK'
      BY <1>1, <1>7, <2>1, Zenon DEF IInv, BusyExact, QueuesOK
    <2>4. QED
      BY <1>4, <1>5, <2>2, <2>3 DEF IInv, TypeOK
  <1>8. CASE (RemovalDone(s, i) \/ HoldBack(s, i)) /\ UNCHANGED job
    <2>1. owed' \in Owed /\ p' \in Pass /\ busy' \in [Scopes -> [Ids -> Nat]]
          /\ BusyExact' /\ QueuesOK'
      BY <1>1, <1>8, DoneType, HeldType
    <2>2. WorkOK'
      BY <1>3, <1>4, <1>6, <1>8, <2>1 DEF WorkOK
    <2>3. QED
      BY <1>4, <1>5, <2>1, <2>2 DEF IInv, TypeOK
  <1>9. QED
    BY <1>7, <1>8

LEMMA RemoveManifestInv == ASSUME IInv, RemoveManifest PROVE IInv'
  <1> USE DEF RemoveManifest
  <1> DEFINE s == job.scope
             i == job.id
  <1>1. job \in Job /\ s \in Scopes /\ i \in Ids
    BY Zenon DEF IInv, TypeOK, WorkOK, Job
  <1>2. p.removals[s][i] # <<>> /\ p.on
    <2>1. p.removals[s][i] # <<>>
      BY DEF IInv, QueuesOK
    <2>2. NoRemovals[s][i] = <<>>
      BY <1>1 DEF NoRemovals
    <2>3. QED
      BY <2>1, <2>2 DEF IInv, QueuesOK
  <1>3. manifest' \in [Scopes -> Library]
    <2>1. [manifest EXCEPT ![s][i] = NoItem] \in [Scopes -> Library]
      BY <1>1, ManifestType, Zenon DEF IInv, TypeOK, DiskOK
    <2>2. QED
      BY <2>1, Zenon DEF IInv, TypeOK, DiskOK
  <1>4. job' \in Job /\ job'.op # "unlink"
    <2>1. NoJob.op = "none"
      BY DEF NoJob
    <2>2. QED
      BY <2>1, NoJobType
  <1>5. RemovalDone(s, i) \/ HoldBack(s, i)
    OBVIOUS
  <1>6. owed' \in Owed /\ p' \in Pass /\ busy' \in [Scopes -> [Ids -> Nat]]
        /\ BusyExact' /\ QueuesOK'
    BY <1>1, <1>2, <1>4, <1>5, DoneType, HeldType
  <1>7. MemoryOK' /\ WorkOK' /\ DiskOK' /\ HistoryOK'
    BY <1>3, <1>4, <1>6, Zenon DEF IInv, TypeOK, MemoryOK, WorkOK, DiskOK, memory, HistoryOK, history
  <1>8. used' \in Used
    BY EditType DEF IInv, TypeOK
  <1>9. QED
    BY <1>6, <1>7, <1>8 DEF IInv, TypeOK
LEMMA PatchIndexInv == ASSUME IInv, NEW s \in Scopes, PatchIndex(s) PROVE IInv'
  <1> USE DEF PatchIndex
  <1>1. p \in Pass /\ owed \in Owed /\ p.patches \in ScopeIds /\ owed.patches \in ScopeIds
    BY PassFields, OwedFields DEF IInv, TypeOK, WorkOK
  <1>2. p' \in Pass /\ p'.removals = p.removals /\ p'.on = p.on
    <2>1. CASE p' = [p EXCEPT !.patches[s] = {}, !.index = TRUE]
      BY <1>1, <2>1, Zenon DEF Pass, ScopeIds
    <2>2. CASE p' = [p EXCEPT !.patches[s] = {}]
      BY <1>1, <2>2, Zenon DEF Pass, ScopeIds
    <2>3. QED
      BY <2>1, <2>2
  <1>3. owed' \in Owed /\ owed'.removals = owed.removals
    <2>1. CASE UNCHANGED owed
      BY <1>1, <2>1
    <2>2. CASE owed' = [owed EXCEPT !.patches[s] = @ \cup p.patches[s]]
      BY <1>1, <2>2, Zenon DEF Owed, ScopeIds
    <2>3. QED
      BY <2>1, <2>2
  <1>4. index' \in [Scopes -> {NoIndex, BadIndex} \cup SUBSET Ids]
    <2>1. index \in [Scopes -> {NoIndex, BadIndex} \cup SUBSET Ids]
      BY DEF IInv, TypeOK, DiskOK
    <2>2. CASE UNCHANGED index
      BY <2>1, <2>2
    <2>3. CASE ReadStatus(s) = "Loaded" /\ index' = [index EXCEPT ![s] = @ \ p.patches[s]]
      <3>1. index[s] \in SUBSET Ids
        BY <2>1, <2>3, Zenon DEF ReadStatus, IndexUsable
      <3>2. QED
        BY <2>1, <2>3, <3>1, Zenon
    <2>4. QED
      BY <2>2, <2>3
  <1>5. MemoryOK' /\ WorkOK' /\ DiskOK' /\ HistoryOK'
    BY <1>2, <1>3, <1>4, Zenon DEF IInv, TypeOK, MemoryOK, WorkOK, DiskOK, memory, HistoryOK, history
  <1>6. used' \in Used
    BY EditType DEF IInv, TypeOK
  <1>7. BusyExact' /\ QueuesOK'
    BY <1>2, <1>3, QueueFrame DEF IInv
  <1>8. QED
    BY <1>5, <1>6, <1>7 DEF IInv, TypeOK

LEMMA TakeLoadsInv == ASSUME IInv, TakeLoads PROVE IInv'
  <1> USE DEF IInv, TypeOK, TakeLoads
  <1>1. p \in Pass /\ owed \in Owed /\ p.retryFinals \in FinalQueues /\ owed.finals \in FinalQueues
        /\ owed.load \in BOOLEAN
    BY PassFields, OwedFields DEF WorkOK
  <1>2. NoFinals \in FinalQueues
    BY SMT DEF NoFinals, FinalQueues
  <1>3. p' \in Pass /\ p'.removals = p.removals /\ p'.on = p.on
    BY <1>1, <1>2, Zenon DEF Pass
  <1>4. [s \in Scopes |-> p.retryFinals[s] \o owed.finals[s]] \in FinalQueues
    BY <1>1, FinalConcatType
  <1>5. owed' \in Owed /\ owed'.removals = owed.removals
    BY <1>1, <1>4, Zenon DEF Owed
  <1>6. MemoryOK' /\ WorkOK' /\ DiskOK' /\ HistoryOK' /\ used' \in Used
    BY <1>3, <1>5, Zenon DEF MemoryOK, WorkOK, DiskOK, memory, disk, HistoryOK, history
  <1>7. BusyExact' /\ QueuesOK'
    BY <1>3, <1>5, QueueFrame
  <1>8. QED
    BY <1>6, <1>7

(* A merge of what a read found keeps the library one. *)
LEMMA MergedType ==
  ASSUME NEW found \in Library, items \in Library
  PROVE  Merged(found) \in Library /\ MergedIds(found) \in SUBSET Ids
  <1>1. ASSUME NEW it \in Item PROVE Requeued(it) \in Item
    BY Zenon DEF Requeued, Item, States
  <1>2. QED
    BY <1>1, SMT DEF Merged, MergedIds, IdsOf, Library

LEMMA RunLoadInv == ASSUME IInv, RunLoad PROVE IInv'
  <1> DEFINE mine     == owed.finals[scope]
             have     == mine # <<>>
             complete == \A n \in 1..Len(mine) : mine[n].complete
             pending  == IF have THEN mine[Len(mine)].items ELSE Empty
             read     == ~(have /\ complete)
             found    == [i \in Ids |-> IF pending[i] # NoItem THEN pending[i]
                                        ELSE IF read THEN ReadItems(scope)[i] ELSE NoItem]
  <1>1. p \in Pass /\ owed \in Owed /\ scope \in Scopes /\ items \in Library /\ indexedIds \in SUBSET Ids
        /\ owed.finals \in FinalQueues /\ owed.ids \in SUBSET Ids
    BY OwedFields DEF IInv, TypeOK, WorkOK, MemoryOK
  <1>2. found \in Library
    <2>1. pending \in Library
      <3>1. CASE have
        <4>1. mine \in Seq(FinalWrite) /\ mine # <<>>
          BY <1>1, <3>1 DEF FinalQueues
        <4>2. mine[Len(mine)] \in FinalWrite
          BY <4>1, SMT
        <4>3. QED
          BY <3>1, <4>2, Zenon DEF FinalWrite
      <3>2. CASE ~have
        BY <3>2, Zenon DEF Empty, Library
      <3>3. QED
        BY <3>1, <3>2
    <2>2. ReadItems(scope) \in Library
      BY <1>1, ReadType DEF IInv, TypeOK
    <2> HIDE DEF pending, read
    <2>3. QED
      BY <2>1, <2>2, Zenon DEF Library
  <1> HIDE DEF found
  <1>3. Merged(found) \in Library /\ MergedIds(found) \in SUBSET Ids
    BY <1>1, <1>2, MergedType
  <1>4. p' = [p EXCEPT !.load = FALSE] /\ UNCHANGED <<scope, deleteRequested, busy, job,
                                                     xfer, reconciled, disk, history>>
    BY DEF RunLoad
  <1>5. /\ items' = Merged(found) \/ UNCHANGED items
        /\ indexedIds' = indexedIds \cup (MergedIds(found) \ IdsOf(pending)) \/ UNCHANGED indexedIds
        /\ loading' = FALSE \/ UNCHANGED loading
        /\ fresh' = (read => ReadStatus(scope) = "NewScope") \/ UNCHANGED fresh
        /\ lateScan' = FALSE \/ UNCHANGED lateScan
        /\ NoFault \/ Fault
        /\ \/ owed' = [owed EXCEPT !.finals[scope] = <<>>,
                         !.ids = @ \cup (MergedIds(found) \cap IdsOf(pending)),
                         !.rescanAll = TRUE, !.index = TRUE]
           \/ owed' = [owed EXCEPT !.load = TRUE]
    BY Zenon DEF RunLoad, found
  <1>6. p' \in Pass /\ p'.removals = p.removals /\ p'.on = p.on
    BY <1>1, <1>4, Zenon DEF Pass
  <1>7. owed' \in Owed /\ owed'.removals = owed.removals
    <2>1. CASE owed' = [owed EXCEPT !.load = TRUE]
      BY <1>1, <2>1, Zenon DEF Owed
    <2>2. CASE owed' = [owed EXCEPT !.finals[scope] = <<>>,
                          !.ids = @ \cup (MergedIds(found) \cap IdsOf(pending)),
                          !.rescanAll = TRUE, !.index = TRUE]
      <3>1. owed.ids \cup (MergedIds(found) \cap IdsOf(pending)) \in SUBSET Ids
        BY <1>1, <1>3
      <3>2. <<>> \in Seq(FinalWrite)
        BY SMT
      <3>3. [owed.finals EXCEPT ![scope] = <<>>] \in FinalQueues
        BY <1>1, <3>2, FinalsType
      <3>4. QED
        BY <1>1, <2>2, <3>1, <3>3, Zenon DEF Owed
    <2>3. QED
      BY <1>5, <2>1, <2>2
  <1>8. MemoryOK'
    <2>1. loading' \in BOOLEAN /\ fresh' \in BOOLEAN /\ lateScan' \in BOOLEAN
      BY <1>5, Zenon DEF IInv, TypeOK, MemoryOK
    <2>2. items' \in Library /\ indexedIds' \subseteq Ids
      BY <1>1, <1>3, <1>5
    <2>3. QED
      BY <1>4, <2>1, <2>2, Zenon DEF IInv, TypeOK, MemoryOK
  <1>9. WorkOK' /\ DiskOK' /\ HistoryOK'
    BY <1>4, <1>6, <1>7, Zenon DEF IInv, TypeOK, WorkOK, DiskOK, disk, HistoryOK, history
  <1>10. used' \in Used
    BY <1>5, EditType DEF IInv, TypeOK
  <1>11. BusyExact' /\ QueuesOK'
    BY <1>4, <1>6, <1>7, QueueFrame DEF IInv
  <1>12. QED
    BY <1>8, <1>9, <1>10, <1>11 DEF IInv, TypeOK

LEMMA RescanInv ==
  ASSUME IInv, NEW i \in Ids, RescanCopy(i) \/ RescanRead PROVE IInv'
  <1> USE DEF IInv, TypeOK, RescanCopy, RescanRead
  <1>1. p \in Pass /\ job \in Job /\ items \in Library
    BY DEF WorkOK, MemoryOK
  <1>2. p' \in Pass /\ p'.removals = p.removals /\ p'.on = p.on
    <2>1. CASE p' = [p EXCEPT !.rescans = @ \ {i}]
      BY <1>1, <2>1, Zenon DEF Pass
    <2>2. CASE UNCHANGED p
      BY <1>1, <2>2
    <2>3. QED
      BY <2>1, <2>2
  <1>3. job' \in Job /\ job'.op # "unlink"
    <2>1. NoJob.op = "none" /\ NoJob \in Job
      BY NoJobType DEF NoJob
    <2>2. CASE job' = NoJob
      BY <2>1, <2>2
    <2>3. CASE job' = [NoJob EXCEPT !.op = "rescan", !.id = i, !.item = items[i]]
      BY <1>1, <2>1, <2>3, Zenon DEF Job, Library
    <2>4. CASE job' = [job EXCEPT !.op = "scanned", !.flag = job.item.counted /\ bytes[p.scope][job.id] # NoBytes]
      BY <1>1, <2>4, Zenon DEF Job
    <2>5. QED
      BY <2>2, <2>3, <2>4
  <1>4. MemoryOK' /\ WorkOK' /\ DiskOK' /\ HistoryOK' /\ used' \in Used
    BY <1>2, <1>3, Zenon DEF MemoryOK, WorkOK, DiskOK, memory, disk, HistoryOK, history
  <1>5. BusyExact' /\ QueuesOK'
    BY <1>2, <1>3, QueueFrame
  <1>6. QED
    BY <1>4, <1>5

LEMMA RescanMergeInv == ASSUME IInv, RescanMerge PROVE IInv'
  <1> USE DEF IInv, TypeOK, RescanMerge
  <1> DEFINE i == job.id
             found == IF job.flag /\ job.item.st # "UpdateAvailable" THEN "Complete" ELSE job.item.st
  <1>1. p \in Pass /\ owed \in Owed /\ items \in Library /\ i \in Ids
    BY Zenon DEF WorkOK, MemoryOK, Job
  <1>2. items' \in Library
    <2>1. CASE UNCHANGED items
      BY <1>1, <2>1
    <2>2. CASE Live(i) /\ found # job.item.st /\ items' = [items EXCEPT ![i].st = found]
      <3>1. found = "Complete" /\ found \in States
        BY <2>2, Zenon DEF States
      <3>2. items[i] \in Item
        BY <1>1, <2>2, Zenon DEF Live, Library
      <3> HIDE DEF found, i
      <3>3. [items[i] EXCEPT !.st = found] \in Item
        BY <3>1, <3>2, Zenon DEF Item
      <3>4. QED
        BY <1>1, <2>2, <3>3, Zenon DEF Library
    <2>3. QED
      BY <2>1, <2>2 DEF Rescannable
  <1>3. owed' \in Owed /\ owed'.removals = owed.removals
    <2>1. CASE UNCHANGED owed
      BY <1>1, <2>1
    <2>2. CASE owed' = [owed EXCEPT !.ids = @ \cup {i}]
      BY <1>1, <2>2, Zenon DEF Owed
    <2>3. QED
      BY <2>1, <2>2
  <1>4. NoJob.op = "none" /\ NoJob \in Job
    BY NoJobType DEF NoJob
  <1>5. MemoryOK' /\ WorkOK' /\ DiskOK' /\ HistoryOK' /\ used' \in Used
    BY <1>2, <1>3, <1>4, Zenon DEF MemoryOK, WorkOK, DiskOK, disk, HistoryOK, history
  <1>6. BusyExact' /\ QueuesOK'
    BY <1>3, <1>4, QueueFrame
  <1>7. QED
    BY <1>5, <1>6
LEMMA PersistCopyInv == ASSUME IInv, NEW i \in Ids, PersistCopy(i) PROVE IInv'
  <1> USE DEF IInv, TypeOK, PersistCopy
  <1>1. p \in Pass /\ job \in Job /\ items \in Library
    BY DEF WorkOK, MemoryOK
  <1>2. p' \in Pass /\ p'.removals = p.removals /\ p'.on = p.on
    <2>1. CASE p' = [p EXCEPT !.ids = @ \ {i}]
      BY <1>1, <2>1, Zenon DEF Pass
    <2>2. CASE UNCHANGED p
      BY <1>1, <2>2
    <2>3. QED
      BY <2>1, <2>2
  <1>3. job' \in Job /\ job'.op # "unlink"
    <2>1. NoJob.op = "none" /\ NoJob \in Job
      BY NoJobType DEF NoJob
    <2>2. CASE job' = NoJob
      BY <2>1, <2>2
    <2>3. CASE job' = [job EXCEPT !.op = "manifest", !.id = i, !.item = items[i]]
      BY <1>1, <2>3, Zenon DEF Job, Library
    <2>4. QED
      BY <2>2, <2>3
  <1>4. MemoryOK' /\ WorkOK' /\ DiskOK' /\ HistoryOK' /\ used' \in Used
    BY <1>2, <1>3, Zenon DEF MemoryOK, WorkOK, DiskOK, memory, disk, HistoryOK, history
  <1>5. BusyExact' /\ QueuesOK'
    BY <1>2, <1>3, QueueFrame
  <1>6. QED
    BY <1>4, <1>5

(* A round of a write stays within the rounds there are. *)
LEMMA NextRoundType ==
  ASSUME job \in Job, RoundsLeft
  PROVE  job.round + 1 \in 0 .. MaxRounds - 1
  <1>1. job.round \in 0 .. MaxRounds - 1
    BY Zenon DEF Job
  <1>2. QED
    BY <1>1, BoundsAssumption, SMT DEF RoundsLeft

LEMMA PersistWriteInv == ASSUME IInv, PersistWrite PROVE IInv'
  <1> DEFINE i == job.id
             newly == i \notin indexedIds
  <1>1. p \in Pass /\ job \in Job /\ owed \in Owed /\ i \in Ids /\ job.item \in Item \cup {NoItem}
        /\ job.op = "manifest" /\ indexedIds \in SUBSET Ids
    BY Zenon DEF IInv, TypeOK, WorkOK, MemoryOK, Job, PersistWrite
  <1>2. UNCHANGED <<scope, items, loading, fresh, lateScan, deleteRequested,
                    busy, xfer, reconciled, index, bytes, away, leftover, history>>
    BY DEF PersistWrite
  <1>3. manifest' \in [Scopes -> Library]
    <2>1. [manifest EXCEPT ![p.scope][job.id] = job.item] \in [Scopes -> Library]
      BY <1>1, PassFields, ManifestType, Zenon DEF IInv, TypeOK, DiskOK
    <2>2. QED
      BY <2>1, Zenon DEF IInv, TypeOK, DiskOK, PersistWrite
  <1>4. indexedIds' \subseteq Ids
    BY <1>1, Zenon DEF PersistWrite, PersistWritten
  <1>5. owed' \in Owed /\ owed'.removals = owed.removals
    <2>1. CASE UNCHANGED owed
      BY <1>1, <2>1
    <2>2. CASE owed' = [owed EXCEPT !.ids = @ \cup {i}]
      BY <1>1, <2>2, Zenon DEF Owed
    <2>3. QED
      BY <2>1, <2>2, Zenon DEF PersistWrite, PersistWritten
  <1>6. p' \in Pass /\ p'.removals = p.removals /\ p'.on = p.on
    <2>1. CASE p' = [p EXCEPT !.ids = @ \ {i}]
      BY <1>1, <2>1, Zenon DEF Pass
    <2>2. CASE p' = [p EXCEPT !.ids = @ \ {i}, !.index = @ \/ newly]
      BY <1>1, <2>2, Zenon DEF Pass
    <2>3. CASE p' = [p EXCEPT !.index = @ \/ newly]
      BY <1>1, <2>3, Zenon DEF Pass
    <2>4. CASE p' = [p EXCEPT !.ids = @ \ {i},
                            !.retryIds = IF scope = p.scope /\ Live(i) THEN @ \cup {i} ELSE @]
      BY <1>1, <2>4, Zenon DEF Pass
    <2>5. QED
      BY <2>1, <2>2, <2>3, <2>4, Zenon DEF PersistWrite, PersistWritten
  <1>7. job' \in Job /\ job'.op # "unlink"
    <2>1. NoJob.op = "none" /\ NoJob \in Job
      BY NoJobType DEF NoJob
    <2>2. CASE job' = NoJob
      BY <2>1, <2>2
    <2>3. CASE RoundsLeft /\ job' = [job EXCEPT !.op = "none", !.round = @ + 1]
      <3>1. job.round + 1 \in 0 .. MaxRounds - 1
        BY <1>1, <2>3, NextRoundType
      <3>2. QED
        BY <1>1, <2>3, <3>1, Zenon DEF Job
    <2>4. QED
      BY <2>2, <2>3, Zenon DEF PersistWrite, PersistWritten
  <1>8. MemoryOK' /\ WorkOK' /\ DiskOK' /\ HistoryOK'
    BY <1>2, <1>3, <1>4, <1>5, <1>6, <1>7, Zenon DEF IInv, TypeOK, MemoryOK, WorkOK, DiskOK, HistoryOK, history
  <1>9. used' \in Used
    BY EditType DEF IInv, TypeOK, PersistWrite
  <1>10. BusyExact' /\ QueuesOK'
    BY <1>2, <1>5, <1>6, <1>7, QueueFrame DEF IInv
  <1>11. QED
    BY <1>8, <1>9, <1>10 DEF IInv, TypeOK

(* How the index stage goes on after a step of it. *)
LEMMA IndexNextType ==
  ASSUME IInv, NEW more \in Owed, more.removals = owed.removals,
         \/ IndexDone /\ owed' = more
         \/ IndexOwed /\ owed' = more
         \/ IndexAgain(more)
  PROVE  /\ p' \in Pass /\ p'.removals = p.removals /\ p'.on = p.on
         /\ job' \in Job /\ job'.op # "unlink"
         /\ owed' \in Owed /\ owed'.removals = owed.removals
  <1> USE DEF IndexDone, IndexOwed, IndexAgain
  <1>1. p \in Pass /\ job \in Job
    BY DEF IInv, TypeOK, WorkOK
  <1>2. p' \in Pass /\ p'.removals = p.removals /\ p'.on = p.on
    <2>1. CASE p' = [p EXCEPT !.index = FALSE]
      BY <1>1, <2>1, Zenon DEF Pass
    <2>2. CASE p' = [p EXCEPT !.index = FALSE, !.retryIndex = TRUE]
      BY <1>1, <2>2, Zenon DEF Pass
    <2>3. CASE UNCHANGED p
      BY <1>1, <2>3
    <2>4. QED
      BY <2>1, <2>2, <2>3
  <1>3. job' \in Job /\ job'.op # "unlink"
    <2>1. NoJob.op = "none" /\ NoJob \in Job
      BY NoJobType DEF NoJob
    <2>2. CASE job' = NoJob
      BY <2>1, <2>2
    <2>3. CASE RoundsLeft /\ job' = [NoJob EXCEPT !.round = job.round + 1]
      <3>1. job.round + 1 \in 0 .. MaxRounds - 1
        BY <1>1, <2>3, NextRoundType
      <3>2. QED
        BY <2>1, <2>3, <3>1, Zenon DEF Job
    <2>4. QED
      BY <2>2, <2>3
  <1>4. owed' \in Owed /\ owed'.removals = owed.removals
    <2>1. [more EXCEPT !.index = TRUE] \in Owed /\ [more EXCEPT !.index = TRUE].removals = more.removals
      BY Zenon DEF Owed
    <2>2. QED
      BY <2>1
  <1>5. QED
    BY <1>2, <1>3, <1>4

LEMMA IndexCopyInv == ASSUME IInv, IndexCopy PROVE IInv'
  <1> USE DEF IndexCopy
  <1>1. p \in Pass /\ job \in Job /\ owed \in Owed
    BY DEF IInv, TypeOK, WorkOK
  <1>2. p' \in Pass /\ p'.removals = p.removals /\ p'.on = p.on /\ job' \in Job /\ job'.op # "unlink"
    <2>1. CASE IndexDone
      BY <1>1, <2>1, IndexNextType
    <2>2. CASE /\ job' = [job EXCEPT !.op = IF lateScan THEN "late" ELSE IF fresh THEN "fresh" ELSE "index",
                                     !.ids = Listed]
               /\ UNCHANGED p
      <3>1. Listed \in SUBSET Ids
        BY DEF Listed, IInv, TypeOK, MemoryOK
      <3>2. QED
        BY <1>1, <2>2, <3>1, Zenon DEF Job
    <2>3. QED
      BY <2>1, <2>2
  <1>3. MemoryOK' /\ WorkOK' /\ DiskOK' /\ HistoryOK' /\ used' \in Used
    BY <1>2, Zenon DEF IInv, TypeOK, MemoryOK, WorkOK, DiskOK, memory, disk, HistoryOK, history
  <1>4. BusyExact' /\ QueuesOK'
    BY <1>2, QueueFrame DEF IInv
  <1>5. QED
    BY <1>3, <1>4 DEF IInv, TypeOK

LEMMA IndexWriteInv == ASSUME IInv, IndexWrite PROVE IInv'
  <1> USE DEF IndexWrite
  <1>1. p \in Pass /\ job \in Job /\ owed \in Owed /\ job.ids \in SUBSET Ids
    BY Zenon DEF IInv, TypeOK, WorkOK, Job
  <1>2. /\ p' \in Pass /\ p'.removals = p.removals /\ p'.on = p.on
        /\ job' \in Job /\ job'.op # "unlink"
        /\ owed' \in Owed /\ owed'.removals = owed.removals
    BY <1>1, IndexNextType
  <1>3. index' \in [Scopes -> {NoIndex, BadIndex} \cup SUBSET Ids]
    BY <1>1, Zenon DEF IInv, TypeOK, DiskOK
  <1>4. MemoryOK' /\ WorkOK' /\ DiskOK' /\ HistoryOK'
    BY <1>2, <1>3, Zenon DEF IInv, TypeOK, MemoryOK, WorkOK, DiskOK, memory, HistoryOK, history
  <1>5. used' \in Used
    BY EditType DEF IInv, TypeOK
  <1>6. BusyExact' /\ QueuesOK'
    BY <1>2, QueueFrame DEF IInv
  <1>7. QED
    BY <1>4, <1>5, <1>6 DEF IInv, TypeOK

LEMMA IndexLookInv == ASSUME IInv, IndexLook PROVE IInv'
  <1> USE DEF IndexLook
  <1>1. p \in Pass /\ job \in Job /\ owed \in Owed
    BY DEF IInv, TypeOK, WorkOK
  <1>2. /\ p' \in Pass /\ p'.removals = p.removals /\ p'.on = p.on
        /\ job' \in Job /\ job'.op # "unlink"
    <2>1. CASE IndexDone \/ IndexOwed
      BY <1>1, <2>1, IndexNextType
    <2>2. CASE UNCHANGED p /\ \E b \in BOOLEAN : job' = [job EXCEPT !.op = "create", !.flag = b]
      BY <1>1, <2>2, Zenon DEF Job
    <2>3. QED
      BY <2>1, <2>2, Zenon
  <1>3. MemoryOK' /\ WorkOK' /\ DiskOK' /\ HistoryOK'
    BY <1>2, Zenon DEF IInv, TypeOK, MemoryOK, WorkOK, DiskOK, memory, disk, HistoryOK, history
  <1>4. used' \in Used
    BY EditType DEF IInv, TypeOK
  <1>5. BusyExact' /\ QueuesOK'
    BY <1>2, QueueFrame DEF IInv
  <1>6. QED
    BY <1>3, <1>4, <1>5 DEF IInv, TypeOK

LEMMA IndexCreateInv == ASSUME IInv, IndexCreate PROVE IInv'
  <1> USE DEF IndexCreate
  <1>1. p \in Pass /\ job \in Job /\ owed \in Owed /\ job.ids \in SUBSET Ids
    BY Zenon DEF IInv, TypeOK, WorkOK, Job
  <1>2. PICK more \in Owed : /\ more.removals = owed.removals
                             /\ \/ IndexDone /\ owed' = more
                                \/ IndexOwed /\ owed' = more
                                \/ IndexAgain(more)
    <2>1. /\ [owed EXCEPT !.index = TRUE] \in Owed
          /\ [owed EXCEPT !.index = TRUE].removals = owed.removals
          /\ [owed EXCEPT !.load = TRUE, !.index = TRUE] \in Owed
          /\ [owed EXCEPT !.load = TRUE, !.index = TRUE].removals = owed.removals
      BY <1>1, Zenon DEF Owed
    <2>2. CASE IndexDone /\ Reload
      BY <1>1, <2>1, <2>2, Zenon DEF Reload
    <2>3. CASE Established
      BY <1>1, <2>1, <2>3, Zenon DEF Established
    <2>4. CASE IndexOwed /\ UNCHANGED owed
      BY <1>1, <2>4
    <2>5. QED
      BY <2>2, <2>3, <2>4
  <1>3. /\ p' \in Pass /\ p'.removals = p.removals /\ p'.on = p.on
        /\ job' \in Job /\ job'.op # "unlink"
        /\ owed' \in Owed /\ owed'.removals = owed.removals
    BY <1>2, IndexNextType
  <1>4. index' \in [Scopes -> {NoIndex, BadIndex} \cup SUBSET Ids]
    BY <1>1, Zenon DEF IInv, TypeOK, DiskOK
  <1>5. loading' \in BOOLEAN /\ fresh' \in BOOLEAN /\ lateScan' \in BOOLEAN
    BY Zenon DEF IInv, TypeOK, MemoryOK, Reload, Established
  <1>6. MemoryOK' /\ WorkOK' /\ DiskOK' /\ HistoryOK'
    BY <1>3, <1>4, <1>5, Zenon DEF IInv, TypeOK, MemoryOK, WorkOK, DiskOK, HistoryOK, history
  <1>7. used' \in Used
    BY EditType DEF IInv, TypeOK
  <1>8. BusyExact' /\ QueuesOK'
    BY <1>3, QueueFrame DEF IInv
  <1>9. QED
    BY <1>6, <1>7, <1>8 DEF IInv, TypeOK

LEMMA IndexLateScanInv == ASSUME IInv, IndexLateScan PROVE IInv'
  <1> USE DEF IndexLateScan
  <1>1. p \in Pass /\ job \in Job /\ owed \in Owed /\ scope \in Scopes /\ items \in Library
        /\ indexedIds \in SUBSET Ids
    BY DEF IInv, TypeOK, WorkOK, MemoryOK
  <1>2. /\ p' \in Pass /\ p'.removals = p.removals /\ p'.on = p.on
        /\ job' \in Job /\ job'.op # "unlink"
        /\ owed' \in Owed /\ owed'.removals = owed.removals
    BY <1>1, IndexNextType
  <1>3. ScanItems(scope) \in Library
    BY <1>1, ReadType DEF IInv, TypeOK
  <1>4. items' \in Library /\ indexedIds' \subseteq Ids
    BY <1>1, <1>3, MergedType
  <1>5. MemoryOK' /\ WorkOK' /\ DiskOK' /\ HistoryOK'
    BY <1>2, <1>4, Zenon DEF IInv, TypeOK, MemoryOK, WorkOK, DiskOK, disk, HistoryOK, history
  <1>6. used' \in Used
    BY EditType DEF IInv, TypeOK
  <1>7. BusyExact' /\ QueuesOK'
    BY <1>2, QueueFrame DEF IInv
  <1>8. QED
    BY <1>5, <1>6, <1>7 DEF IInv, TypeOK

LEMMA EndPassInv == ASSUME IInv, EndPass PROVE IInv'
  <1> USE DEF EndPass
  <1>1. p \in Pass /\ owed \in Owed /\ p.removals \in RemovalQueues
    BY PassFields DEF IInv, TypeOK, WorkOK
  <1>2. p.removals = NoRemovals
    <2>1. ASSUME NEW s \in Scopes, NEW i \in Ids PROVE p.removals[s][i] = <<>>
      <3>1. Keys(p.removals) = {}
        BY DEF AtIndex
      <3>2. <<s, i>> \in Scopes \X Ids /\ <<s, i>> \notin Keys(p.removals)
        BY <3>1
      <3>3. <<s, i>>[1] = s /\ <<s, i>>[2] = i
        OBVIOUS
      <3>4. QED
        BY <3>2, <3>3, Zenon DEF Keys
    <2>2. QED
      BY <1>1, <2>1, SMT DEF RemovalQueues, NoRemovals
  <1>3. p' \in Pass /\ p'.removals = NoRemovals /\ job' \in Job /\ job'.op = "none"
    BY IdlePassType, NoJobType DEF IdlePass, NoJob
  <1>4. owed' \in Owed /\ owed'.removals = owed.removals
    <2>1. p.retryIds \in SUBSET Ids /\ p.retryIndex \in BOOLEAN
      BY <1>1, PassFields
    <2>2. CASE owed' = [owed EXCEPT !.ids = @ \cup p.retryIds, !.index = @ \/ p.retryIndex]
      BY <1>1, <2>1, <2>2, Zenon DEF Owed
    <2>3. CASE UNCHANGED owed
      BY <1>1, <2>3
    <2>4. QED
      BY <2>2, <2>3
  <1>5. MemoryOK' /\ WorkOK' /\ DiskOK' /\ HistoryOK' /\ used' \in Used
    BY <1>3, <1>4, Zenon DEF IInv, TypeOK, MemoryOK, WorkOK, DiskOK, memory, disk, HistoryOK, history
  <1>6. BusyExact' /\ QueuesOK'
    BY <1>2, <1>3, <1>4, Zenon DEF IInv, BusyExact, QueuesOK
  <1>7. QED
    BY <1>5, <1>6 DEF IInv, TypeOK

LEMMA ReappearInv == ASSUME IInv, Reappear PROVE IInv'
  <1> USE DEF Reappear
  <1>1. PICK s \in Scopes, src \in Sources :
          LET old == {i \in LateIds : manifest[s][i] = NoItem} IN
          /\ manifest' = [manifest EXCEPT ![s] = [i \in Ids |->
                 IF i \in old THEN [st |-> "Complete", src |-> src, counted |-> TRUE] ELSE @[i]]]
          /\ bytes' = [bytes EXCEPT ![s] = [i \in Ids |-> IF i \in old THEN src ELSE @[i]]]
          /\ index' \in {index, [index EXCEPT ![s] = LateIds]}
          /\ library' = [library EXCEPT ![s] =
                 @ \cup {i \in old : ~(s = scope /\ i \in deleteRequested)}]
    OBVIOUS
  <1>2. [st |-> "Complete", src |-> src, counted |-> TRUE] \in Item
    BY DEF Item, States
  <1>3. manifest' \in [Scopes -> Library]
    <2> DEFINE m == [i \in Ids |-> IF i \in {j \in LateIds : manifest[s][j] = NoItem}
                                   THEN [st |-> "Complete", src |-> src, counted |-> TRUE] ELSE manifest[s][i]]
    <2>1. m \in Library
      <3>1. manifest[s] \in Library
        BY DEF IInv, TypeOK, DiskOK
      <3>2. ASSUME NEW i \in Ids PROVE manifest[s][i] \in Item \cup {NoItem}
        BY <3>1 DEF Library
      <3>3. ASSUME NEW i \in Ids
            PROVE  (IF i \in {j \in LateIds : manifest[s][j] = NoItem}
                    THEN [st |-> "Complete", src |-> src, counted |-> TRUE] ELSE manifest[s][i])
                     \in Item \cup {NoItem}
        BY <1>2, <3>2, Zenon
      <3>4. QED
        BY <3>3, Zenon DEF Library
    <2>2. manifest' = [manifest EXCEPT ![s] = m]
      BY <1>1
    <2> HIDE DEF m
    <2>3. QED
      BY <2>1, <2>2, Zenon DEF IInv, TypeOK, DiskOK
  <1>4. bytes' \in [Scopes -> [Ids -> Sources \cup {NoBytes}]]
    <2> DEFINE b == [i \in Ids |-> IF i \in {j \in LateIds : manifest[s][j] = NoItem}
                                   THEN src ELSE bytes[s][i]]
    <2>1. b \in [Ids -> Sources \cup {NoBytes}]
      <3>1. bytes[s] \in [Ids -> Sources \cup {NoBytes}]
        BY DEF IInv, TypeOK, DiskOK
      <3>2. ASSUME NEW i \in Ids PROVE bytes[s][i] \in Sources \cup {NoBytes}
        BY <3>1
      <3>3. ASSUME NEW i \in Ids
            PROVE  (IF i \in {j \in LateIds : manifest[s][j] = NoItem} THEN src ELSE bytes[s][i])
                     \in Sources \cup {NoBytes}
        BY <3>2, Zenon
      <3>4. QED
        BY <3>3, Zenon
    <2>2. bytes' = [bytes EXCEPT ![s] = b]
      BY <1>1
    <2> HIDE DEF b
    <2>3. QED
      BY <2>1, <2>2, Zenon DEF IInv, TypeOK, DiskOK
  <1>5. index' \in [Scopes -> {NoIndex, BadIndex} \cup SUBSET Ids]
    <2>1. LateIds \in {NoIndex, BadIndex} \cup SUBSET Ids
      BY LateAssumption
    <2>2. index \in [Scopes -> {NoIndex, BadIndex} \cup SUBSET Ids]
      BY DEF IInv, TypeOK, DiskOK
    <2>3. [index EXCEPT ![s] = LateIds] \in [Scopes -> {NoIndex, BadIndex} \cup SUBSET Ids]
      BY <2>1, <2>2, Zenon
    <2>4. QED
      BY <1>1, <2>2, <2>3
  <1>6. HistoryOK'
    BY <1>1, LateAssumption, Zenon DEF IInv, TypeOK, ScopeIds, HistoryOK, history
  <1>7. MemoryOK' /\ WorkOK' /\ DiskOK' /\ used' \in Used
    BY <1>3, <1>4, <1>5, Zenon DEF IInv, TypeOK, MemoryOK, WorkOK, DiskOK, memory
  <1>8. BusyExact' /\ QueuesOK'
    BY QueueFrame DEF IInv
  <1>9. QED
    BY <1>6, <1>7, <1>8 DEF IInv, TypeOK

(* A new process owes nothing and counts nothing. *)
LEMMA NothingCounted ==
  ASSUME busy = [s \in Scopes |-> [i \in Ids |-> 0]],
         owed.removals = NoRemovals, p.removals = NoRemovals, job.op = "none"
  PROVE  BusyExact /\ QueuesOK /\ busy \in [Scopes -> [Ids -> Nat]]
  <1>1. ASSUME NEW s \in Scopes, NEW i \in Ids
        PROVE  busy[s][i] = Len(owed.removals[s][i]) + Len(p.removals[s][i])
    <2>1. busy[s][i] = 0 /\ NoRemovals[s][i] = <<>>
      BY DEF NoRemovals
    <2>2. Len(owed.removals[s][i]) = 0 /\ Len(p.removals[s][i]) = 0
      BY <2>1, EmptyType
    <2>3. 0 + 0 = 0
      BY SMT
    <2>4. QED
      BY <2>1, <2>2, <2>3
  <1>2. busy \in [Scopes -> [Ids -> Nat]]
    BY SMT
  <1>3. QED
    BY <1>1, <1>2, Zenon DEF BusyExact, QueuesOK

LEMMA StartOwedType ==
  /\ [NothingOwed EXCEPT !.load = TRUE] \in Owed
  /\ [NothingOwed EXCEPT !.load = TRUE].removals = NoRemovals
  <1>1. NothingOwed.removals = NoRemovals
    BY DEF NothingOwed
  <1>2. QED
    BY <1>1, NothingOwedType, Zenon DEF Owed

LEMMA CrashInv == ASSUME IInv, NEW s \in Scopes, Crash(s) PROVE IInv'
  <1> USE DEF Crash
  <1>1. p'.removals = NoRemovals /\ p' \in Pass /\ job'.op = "none" /\ job' \in Job
    BY IdlePassType, NoJobType DEF IdlePass, NoJob
  <1>2. owed' \in Owed /\ owed'.removals = NoRemovals
    BY StartOwedType
  <1>3. BusyExact' /\ QueuesOK' /\ busy' \in [Scopes -> [Ids -> Nat]]
    <2>1. ASSUME NEW u \in Scopes, NEW i \in Ids
          PROVE  busy'[u][i] = Len(owed'.removals[u][i]) + Len(p'.removals[u][i])
      <3>1. busy'[u][i] = 0 /\ NoRemovals[u][i] = <<>>
        BY DEF NoRemovals
      <3>2. Len(owed'.removals[u][i]) = 0 /\ Len(p'.removals[u][i]) = 0
        BY <1>1, <1>2, <3>1, EmptyType
      <3>3. 0 + 0 = 0
        BY SMT
      <3>4. QED
        BY <3>1, <3>2, <3>3
    <2>2. busy' \in [Scopes -> [Ids -> Nat]]
      BY SMT
    <2>3. QED
      BY <1>1, <2>1, <2>2, Zenon DEF BusyExact, QueuesOK
  <1>4. MemoryOK' /\ WorkOK' /\ DiskOK'
    BY <1>1, <1>2, <1>3, StartType, Zenon DEF IInv, TypeOK, MemoryOK, WorkOK, DiskOK, disk
  <1>5. HistoryOK'
    <2>1. library' \in ScopeIds
      BY ReadType, Zenon DEF IInv, TypeOK, ScopeIds
    <2>2. forgotten' \in ScopeIds
      BY SMT DEF NoPatches, ScopeIds
    <2>3. QED
      BY <2>1, <2>2, Zenon DEF IInv, TypeOK, HistoryOK, disk
  <1>6. used' \in Used
    BY BoundsAssumption, SMT DEF IInv, TypeOK, Used
  <1>7. QED
    BY <1>3, <1>4, <1>5, <1>6 DEF IInv, TypeOK
(***************************************************************************)
(* The initial state and the steps of Next, put together.                  *)
(***************************************************************************)
LEMMA InitInv == ASSUME Init PROVE IInv
  <1> USE DEF Init
  <1>1. p.removals = NoRemovals /\ p \in Pass /\ job.op = "none" /\ job \in Job
    BY IdlePassType, NoJobType DEF IdlePass, NoJob
  <1>2. owed \in Owed /\ owed.removals = NoRemovals
    BY StartOwedType
  <1>3. BusyExact /\ QueuesOK /\ busy \in [Scopes -> [Ids -> Nat]]
    BY <1>1, <1>2, NothingCounted, Zenon
  <1>4. Empty \in Library /\ AnyScope \in Scopes
    BY ScopesAssumption, Zenon DEF Empty, Library, AnyScope
  <1>5. MemoryOK
    BY <1>4, Zenon DEF MemoryOK
  <1>6. WorkOK
    BY <1>1, <1>2, <1>3, Zenon DEF WorkOK
  <1>7. DiskOK
    <2>1. away \in BOOLEAN
      BY Zenon
    <2>2. manifest \in [Scopes -> Library]
      BY <1>4, Zenon
    <2>3. index \in [Scopes -> {NoIndex, BadIndex} \cup SUBSET Ids]
      BY Zenon
    <2>4. bytes \in [Scopes -> [Ids -> Sources \cup {NoBytes}]]
      BY SMT
    <2>5. QED
      BY <2>1, <2>2, <2>3, <2>4 DEF DiskOK
  <1>8. HistoryOK
    BY SMT DEF NoPatches, ScopeIds, HistoryOK
  <1>9. used \in Used
    BY BoundsAssumption, SMT DEF Used
  <1>10. QED
    BY <1>3, <1>5, <1>6, <1>7, <1>8, <1>9 DEF IInv, TypeOK

LEMMA UserInv == ASSUME IInv, UserStep PROVE IInv'
  <1>1. ASSUME NEW s \in Scopes, Configure(s) PROVE IInv'
    BY <1>1, ConfigureInv
  <1>2. ASSUME NEW i \in Ids, Pause(i) \/ Resume(i) PROVE IInv'
    BY <1>2, SetStateInv DEF Pause, Resume, States
  <1>3. ASSUME NEW i \in Ids, EraseRunning(i) \/ Erase(i) PROVE IInv'
    BY <1>3, EraseRunningInv, EraseInv
  <1>4. ASSUME NEW i \in Ids, NEW src \in Sources, Enqueue(i, src) \/ Redownload(i, src)
        PROVE  IInv'
    BY <1>4, EnqueueInv, RedownloadInv
  <1>5. QED
    BY <1>1, <1>2, <1>3, <1>4, Zenon DEF UserStep

LEMMA StorageInv == ASSUME IInv, StorageStep PROVE IInv'
  <1>1. CASE TakeWork \/ TakeLoads \/ RunLoad \/ EndPass
    BY <1>1, TakeWorkInv, TakeLoadsInv, RunLoadInv, EndPassInv
  <1>2. CASE RemoveManifest \/ PersistWrite
    BY <1>2, RemoveManifestInv, PersistWriteInv
  <1>3. CASE RescanRead \/ RescanMerge
    <2>1. PICK i \in Ids : TRUE
      BY ScopesAssumption
    <2>2. CASE RescanRead
      BY <2>1, <2>2, RescanInv
    <2>3. QED
      BY <1>3, <2>2, RescanMergeInv
  <1>4. CASE IndexCopy \/ IndexWrite \/ IndexLook \/ IndexCreate \/ IndexLateScan
    BY <1>4, IndexCopyInv, IndexWriteInv, IndexLookInv, IndexCreateInv, IndexLateScanInv
  <1>5. ASSUME NEW i \in Ids, PersistCopy(i) \/ RescanCopy(i) PROVE IInv'
    BY <1>5, PersistCopyInv, RescanInv
  <1>6. ASSUME NEW s \in Scopes, FinalBegin(s) \/ FinalIndex(s) \/ PatchIndex(s) PROVE IInv'
    BY <1>6, FinalBeginInv, FinalIndexInv, PatchIndexInv
  <1>7. ASSUME NEW s \in Scopes, NEW i \in Ids, FinalManifest(s, i) \/ RemoveBytes(s, i)
        PROVE  IInv'
    BY <1>7, FinalManifestInv, RemoveBytesInv
  <1>8. QED
    BY <1>1, <1>2, <1>3, <1>4, <1>5, <1>6, <1>7, Zenon DEF StorageStep

LEMMA NextInv == ASSUME IInv, [Next]_vars PROVE IInv'
  <1>1. CASE UserStep
    BY <1>1, UserInv
  <1>2. CASE ReconcilerStep
    BY <1>2, ReconcileEndInv, ReconcileChangedInv DEF ReconcilerStep
  <1>3. CASE TransferStep
    BY <1>3, TransferStartInv, TransferDiscoverInv, TransferFileInv, TransferEndInv
       DEF TransferStep
  <1>4. CASE StorageStep
    BY <1>4, StorageInv
  <1>5. CASE Reappear \/ \E s \in Scopes : Crash(s)
    BY <1>5, ReappearInv, CrashInv
  <1>6. CASE UNCHANGED vars
    BY <1>6, Zenon DEF vars, memory, disk, IInv, TypeOK, MemoryOK, WorkOK, DiskOK,
       HistoryOK, history, BusyExact, QueuesOK
  <1>7. QED
    BY <1>1, <1>2, <1>3, <1>4, <1>5, <1>6 DEF Next

(***************************************************************************)
(* The theorems.                                                           *)
(***************************************************************************)

(* Every state of the storage protocol keeps the types of its variables, for any number of   *)
(* accounts, ids and sources and any bounds: no queue, pass record or file is ever of a kind *)
(* the code does not handle.                                                                 *)
THEOREM TypeCorrect == Spec => []TypeOK
  <1>1. IInv => TypeOK
    BY DEF IInv
  <1>2. QED
    BY <1>1, InitInv, NextInv, PTL DEF Spec

(* m_removing counts exactly the outstanding removals of every id of every account           *)
(* (requestRemoveLocked raises it, a removal that went through lowers it): through account   *)
(* switches, passes that fail and are owed again, and restarts, an id is never left busy      *)
(* with nothing to remove and never free while a removal of it may still run.                *)
THEOREM BusyAlwaysExact == Spec => []BusyExact
  <1>1. IInv => BusyExact
    BY DEF IInv
  <1>2. QED
    BY <1>1, InitInv, NextInv, PTL DEF Spec
=============================================================================
