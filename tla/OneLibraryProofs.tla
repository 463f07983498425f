-------------------------- MODULE OneLibraryProofs --------------------------
(***************************************************************************)
(* Proofs about DownloadStorage with one account, through any number of    *)
(* ids, sources, requests, new sessions of the account and failing disk    *)
(* operations, and any interleaving of the interface, the reconciler, the  *)
(* transfer and the storage thread.                                        *)
(*                                                                         *)
(* What is proved is about the disk: whose bytes an item stands on, which  *)
(* manifests there are, what they say and what the index lists.  None of   *)
(* it is inductive.  OneInv says why each holds while work is outstanding: *)
(* the disk and the memory may disagree about an id only while a piece of  *)
(* work for it is still owed, taken, in the middle of being done, or to be *)
(* owed again.                                                             *)
(*                                                                         *)
(* A second account, a crash and storage that comes back break parts of    *)
(* OneInv: an account that is left has its items in its final writes and   *)
(* on disk only, and a crash forgets the removals that were owed.  Those   *)
(* cases are left to the runs.                                             *)
(***************************************************************************)
EXTENDS DownloadStorageProofs

(* One account, in one life of the process, on storage that is there from the start. *)
OneLibrary ==
    /\ MaxCrashes = 0
    /\ LateIds = {}
    /\ \A s \in Scopes, t \in Scopes : s = t

(***************************************************************************)
(* The invariant.                                                          *)
(***************************************************************************)
(* An item whose whole removal is queued, for a later pass or in this one. *)
Has(q, what) == \E n \in 1 .. Len(q) : q[n] = what
Going(i) == Has(owed.removals[scope][i], "item") \/ Has(p.removals[scope][i], "item")

(* An item whose manifest somebody has been asked to write. *)
Asked(i) == i \in owed.ids \cup p.ids \cup p.retryIds
Pending(i) == Asked(i) \/ Going(i)

(* No account is left, so there is nothing to write for one. *)
Quiet ==
    /\ ~away
    /\ owed.finals = NoFinals /\ p.finals = NoFinals /\ p.retryFinals = NoFinals
    /\ ~p.on => p = IdlePass

(* A disk operation in progress is part of a pass that still holds the work it is for. *)
Working ==
    /\ job.op # "none" => p.on
    /\ job.op = "manifest" => job.id \in p.ids
    /\ job.op \in {"index", "late", "fresh", "create"} => p.index

(* A library that is not read yet is going to be; only live items are held to be indexed. *)
Loads ==
    /\ loading => owed.load \/ p.load
    /\ p.load => p.loaded
    /\ indexedIds \subseteq IdsOf(items)

(* A manifest, there or being written, belongs to a live item or to one that is going. *)
Owned == \A i \in Ids : manifest[scope][i] # NoItem => Live(i) \/ Going(i)
Writing == job.op = "manifest" => Live(job.id) \/ Going(job.id)

(* The job of unlinking a manifest stands for the whole removal at the head of its queue. *)
Unlinking == job.op = "unlink" => Head(p.removals[scope][job.id]) = "item"

(* A removal of the files of an id is still to come: it is queued, and not the one whose files *)
(* have been seen to.                                                                           *)
Unlinks(i) == job.op = "unlink" /\ job.id = i
Awaits(i)  == busy[scope][i] > (IF Unlinks(i) THEN 1 ELSE 0)

(* The bytes of an id, and those a transfer of it is about to add, are of its live item's source. *)
Fetches(i) == xfer # NoXfer /\ xfer.phase = "fetching" /\ xfer.id = i
Good(i) ==
    /\ bytes[scope][i] = NoBytes \/ (Live(i) /\ bytes[scope][i] = items[i].src)
    /\ Fetches(i) => Live(i) /\ items[i].src = xfer.src

(* So they are unless a removal of them is to come, or a whole removal has left them there. *)
Files == \A i \in Ids : Awaits(i) \/ Good(i) \/ i \in leftover[scope]

(* A live item that is not pending has a manifest and is held to be indexed ... *)
Written == \A i \in Ids : Live(i) => \/ manifest[scope][i] # NoItem /\ i \in indexedIds
                                     \/ Pending(i)

(* ... and the manifest says what memory says, or the reconciler has yet to ask for it.  (A *)
(* new session drops what the reconciler has noted, so this holds of one session only.)     *)
Latest == MaxSwitches = 0 =>
    \A i \in Ids : Live(i) =>
        \/ SameItem(manifest[scope][i], items[i])
        \/ Pending(i)
        \/ i \in reconciled /\ items[i].st # "Downloading"

(* An index that is there lists what is held to be indexed, unless it is to be written again, *)
(* the library to be read again, or it was read as empty and has got nothing since.           *)
IndexRight ==
    \/ index[scope] \in {NoIndex, BadIndex}
    \/ index[scope] = indexedIds
    \/ owed.index \/ p.index \/ p.retryIndex
    \/ loading
    \/ fresh /\ indexedIds = {}

OneInv ==
    /\ OneLibrary
    /\ Quiet /\ Working /\ Loads
    /\ Owned /\ Writing
    /\ Unlinking /\ Files
    /\ Written /\ Latest
    /\ IndexRight
    /\ NoResurrection

(***************************************************************************)
(* One account.                                                            *)
(***************************************************************************)
LEMMA Sole ==
  ASSUME IInv, IInv', OneLibrary
  PROVE  /\ \A s \in Scopes : s = scope
         /\ scope \in Scopes /\ scope' = scope
         /\ p.scope = scope /\ p'.scope = scope
         /\ job.scope = scope
         /\ xfer # NoXfer => xfer.scope = scope
  <1>1. scope \in Scopes /\ scope' \in Scopes
    BY DEF IInv, TypeOK, MemoryOK
  <1>2. \A s \in Scopes : s = scope
    BY <1>1 DEF OneLibrary
  <1>3. p.scope \in Scopes /\ p'.scope \in Scopes
    BY Zenon DEF IInv, TypeOK, WorkOK, Pass
  <1>4. job.scope \in Scopes /\ (xfer # NoXfer => xfer.scope \in Scopes)
    BY Zenon DEF IInv, TypeOK, WorkOK, Job, Transfer
  <1>5. QED
    BY <1>1, <1>2, <1>3, <1>4

(* A removal that is owed marks the id busy. *)
LEMMA GoingBusy ==
  ASSUME IInv, NEW i \in Ids, Going(i)
  PROVE  IsBusy(scope, i)
  <1>1. scope \in Scopes /\ owed.removals[scope][i] \in Seq(Removals)
        /\ p.removals[scope][i] \in Seq(Removals)
    BY OwedFields, PassFields DEF IInv, TypeOK, MemoryOK, WorkOK, RemovalQueues
  <1>2. busy[scope][i] = Len(owed.removals[scope][i]) + Len(p.removals[scope][i])
    BY <1>1 DEF IInv, BusyExact
  <1>3. Len(owed.removals[scope][i]) \in Nat /\ Len(p.removals[scope][i]) \in Nat
    BY <1>1, LenType
  <1>4. Len(owed.removals[scope][i]) > 0 \/ Len(p.removals[scope][i]) > 0
    <2>1. ASSUME NEW m \in Nat, NEW n \in 1 .. m PROVE m > 0
      BY SMT
    <2>2. QED
      BY <1>3, <2>1, Zenon DEF Going, Has
  <1>5. ASSUME NEW m \in Nat, NEW n \in Nat, m > 0 \/ n > 0 PROVE m + n > 0
    BY <1>5, SMT
  <1>6. busy[scope][i] > 0
    BY <1>2, <1>3, <1>4, <1>5, Zenon
  <1>7. QED
    BY <1>6 DEF IsBusy

LEMMA GoingSame ==
  ASSUME scope' = scope, owed'.removals = owed.removals, p'.removals = p.removals
  PROVE  \A i \in Ids : Going(i)' <=> Going(i)
  BY Zenon DEF Going, Has

(* Nothing that is on disk is brought back by a read of it. *)
LEMMA NothingMerged ==
  ASSUME IInv, Owned, NEW found \in Library,
         \A i \in Ids : found[i] = manifest[scope][i] \/ found[i] = NoItem
  PROVE  MergedIds(found) = {} /\ Merged(found) = items
  <1>1. ASSUME NEW i \in Ids, found[i] # NoItem PROVE ~Mergeable(i)
    <2>1. manifest[scope][i] # NoItem
      BY <1>1
    <2>2. Live(i) \/ Going(i)
      BY <2>1 DEF Owned
    <2>3. QED
      BY <2>2, GoingBusy DEF Mergeable
  <1>2. MergedIds(found) = {}
    BY <1>1, Zenon DEF MergedIds, IdsOf
  <1>3. items \in [Ids -> Item \cup {NoItem}]
    BY DEF IInv, TypeOK, MemoryOK, Library
  <1>4. Merged(found) = [i \in Ids |-> items[i]]
    BY <1>2, Zenon DEF Merged
  <1>5. QED
    BY <1>2, <1>3, <1>4, Zenon

(***************************************************************************)
(* What leaves a part of the invariant alone.                              *)
(***************************************************************************)
LEMMA ThreadFrame ==
  ASSUME Quiet, Working, Loads, UNCHANGED <<p, job, away, loading>>,
         owed'.finals = owed.finals, owed'.load = owed.load,
         indexedIds' \subseteq IdsOf(items')
  PROVE  Quiet' /\ Working' /\ Loads'
  BY Zenon DEF Quiet, Working, Loads, IdsOf

LEMMA ManifestFrame ==
  ASSUME Owned, Writing, scope' = scope, UNCHANGED manifest, job \in Job,
         job'.op = "manifest" => job' = job,
         \A j \in Ids : Live(j) \/ Going(j) => Live(j)' \/ Going(j)'
  PROVE  Owned' /\ Writing'
  <1>1. job.id \in Ids
    BY Zenon DEF Job
  <1>2. Owned'
    BY Zenon DEF Owned
  <1>3. Writing'
    BY <1>1, Zenon DEF Writing
  <1>4. QED
    BY <1>2, <1>3

(* The item of an id keeps its source. *)
KeepsSource(j) == Live(j)' /\ items'[j].src = items[j].src

LEMMA FilesFrame ==
  ASSUME Unlinking, Files, scope' = scope, UNCHANGED <<bytes, leftover>>,
         job'.op = "unlink" => job' = job /\ p'.removals = p.removals,
         \A j \in Ids : /\ Awaits(j) => Awaits(j)'
                        /\ Live(j) => KeepsSource(j) \/ Awaits(j)'
                        /\ Fetches(j)' => Fetches(j) /\ xfer'.src = xfer.src
  PROVE  Unlinking' /\ Files'
  <1>1. Unlinking'
    BY Zenon DEF Unlinking
  <1>2. ASSUME NEW i \in Ids, ~Awaits(i)', i \notin leftover[scope] PROVE Good(i)'
    <2>1. Good(i) /\ (Live(i) => KeepsSource(i))
      BY <1>2 DEF Files
    <2>2. bytes'[scope][i] = NoBytes \/ (Live(i)' /\ bytes'[scope][i] = items'[i].src)
      BY <2>1 DEF Good, KeepsSource
    <2>3. Fetches(i)' => Live(i)' /\ items'[i].src = xfer'.src
      BY <2>1 DEF Good, KeepsSource
    <2>4. QED
      BY <2>2, <2>3 DEF Good
  <1>3. QED
    BY <1>1, <1>2 DEF Files

(* What no step but a removal done takes from an id. *)
LEMMA StillAwaited ==
  ASSUME busy \in [Scopes -> [Ids -> Nat]], scope \in Scopes, scope' = scope, UNCHANGED busy,
         job'.op = "unlink" => job' = job
  PROVE  \A j \in Ids : Awaits(j) => Awaits(j)'
  <1>1. ASSUME NEW j \in Ids, Awaits(j) PROVE Awaits(j)'
    <2>1. busy[scope][j] \in Nat /\ busy'[scope'][j] = busy[scope][j]
      OBVIOUS
    <2>2. Unlinks(j)' => Unlinks(j)
      BY DEF Unlinks
    <2>3. QED
      BY <1>1, <2>1, <2>2, SMT DEF Awaits
  <1>2. QED
    BY <1>1

(* An id that is not asked for anew is as it was. *)
Untouched(j) ==
    /\ items'[j] = items[j]
    /\ manifest'[scope][j] = manifest[scope][j]
    /\ j \in indexedIds => j \in indexedIds'
    /\ MaxSwitches = 0 /\ j \in reconciled /\ items[j].st # "Downloading" => j \in reconciled'
    /\ Pending(j) => Pending(j)'

(* An id whose item the reconciler has changed and not yet asked to write. *)
Noted(j) ==
    /\ Live(j) /\ items'[j].st # "Downloading" /\ j \in reconciled'
    /\ manifest'[scope][j] = manifest[scope][j]
    /\ j \in indexedIds => j \in indexedIds'
    /\ Pending(j) => Pending(j)'

LEMMA SavedFrame ==
  ASSUME Written, Latest, scope' = scope,
         \A j \in Ids : Live(j)' => Untouched(j) \/ Noted(j) \/ Pending(j)'
  PROVE  Written' /\ Latest'
  <1>1. ASSUME NEW j \in Ids, Live(j)', ~Pending(j)'
        PROVE  /\ manifest'[scope][j] # NoItem /\ j \in indexedIds'
               /\ MaxSwitches = 0 =>
                    \/ SameItem(manifest'[scope][j], items'[j])
                    \/ j \in reconciled' /\ items'[j].st # "Downloading"
    <2>1. (Untouched(j) \/ Noted(j)) /\ Live(j) /\ ~Pending(j)
      BY <1>1 DEF Untouched, Noted, Live
    <2>2. manifest[scope][j] # NoItem /\ j \in indexedIds
      BY <2>1 DEF Written
    <2>3. manifest'[scope][j] # NoItem /\ j \in indexedIds'
      BY <2>1, <2>2 DEF Untouched, Noted
    <2>4. CASE Noted(j)
      BY <2>3, <2>4 DEF Noted
    <2>5. CASE Untouched(j)
      <3>1. MaxSwitches = 0 => \/ SameItem(manifest[scope][j], items[j])
                               \/ j \in reconciled /\ items[j].st # "Downloading"
        BY <2>1 DEF Latest
      <3>2. QED
        BY <2>3, <2>5, <3>1 DEF Untouched
    <2>6. QED
      BY <2>1, <2>4, <2>5
  <1>2. QED
    BY <1>1, Zenon DEF Written, Latest

LEMMA IndexFrame ==
  ASSUME IndexRight, scope' = scope, UNCHANGED <<index, indexedIds, loading, fresh>>,
         owed.index => owed'.index,
         p.index \/ p.retryIndex => p'.index \/ p'.retryIndex \/ owed'.index
  PROVE  IndexRight'
  BY Zenon DEF IndexRight

LEMMA NoneNew ==
  ASSUME NoResurrection, scope' = scope,
         UNCHANGED <<history, deleteRequested>>,
         \A j \in Ids : Live(j)' => Live(j)
  PROVE  NoResurrection'
  BY Zenon DEF NoResurrection, IdsOf, Live, history

(***************************************************************************)
(* One lemma per action: requests.                                         *)
(***************************************************************************)
(* What the frames ask of a state. *)
LEMMA Typed ==
  ASSUME IInv
  PROVE  /\ p \in Pass /\ owed \in Owed /\ job \in Job /\ xfer \in Transfer \cup {NoXfer}
         /\ items \in Library /\ scope \in Scopes /\ indexedIds \in SUBSET Ids
         /\ manifest \in [Scopes -> Library]
         /\ bytes \in [Scopes -> [Ids -> Sources \cup {NoBytes}]]
         /\ busy \in [Scopes -> [Ids -> Nat]]
         /\ index \in [Scopes -> {NoIndex, BadIndex} \cup SUBSET Ids]
         /\ library \in ScopeIds /\ forgotten \in ScopeIds /\ leftover \in ScopeIds
  BY DEF IInv, TypeOK, MemoryOK, WorkOK, DiskOK, HistoryOK

LEMMA OneConfigure ==
  ASSUME IInv, IInv', OneInv, NEW s \in Scopes, Configure(s) PROVE OneInv'
  <1>1. s = scope /\ scope' = scope
    BY Sole DEF OneInv
  <1>2. UNCHANGED <<scope, items, loading, fresh, indexedIds, owed, lateScan, busy, job, disk>>
        /\ p' = [p EXCEPT !.current = FALSE]
        /\ deleteRequested' = {} /\ reconciled' = {}
        /\ library' = library /\ forgotten' = [forgotten EXCEPT ![scope] = @ \cup deleteRequested]
        /\ xfer' = IF xfer = NoXfer THEN xfer ELSE [xfer EXCEPT !.current = FALSE]
    BY <1>1 DEF Configure
  <1>3. /\ p'.on = p.on /\ p'.finals = p.finals /\ p'.retryFinals = p.retryFinals
        /\ p'.removals = p.removals /\ p'.ids = p.ids /\ p'.retryIds = p.retryIds
        /\ p'.index = p.index /\ p'.retryIndex = p.retryIndex
        /\ p'.load = p.load /\ p'.loaded = p.loaded
    BY <1>2, Typed, Zenon DEF Pass
  <1>4. p = IdlePass => p' = IdlePass
    <2>1. IdlePass \in Pass /\ IdlePass.current = FALSE
      BY IdlePassType DEF IdlePass
    <2>2. ASSUME NEW q \in Pass, q.current = FALSE PROVE [q EXCEPT !.current = FALSE] = q
      BY <2>2, Zenon DEF Pass
    <2>3. QED
      BY <1>2, <2>1, <2>2
  <1>5. Quiet' /\ Working' /\ Loads'
    BY <1>2, <1>3, <1>4, Zenon DEF OneInv, Quiet, Working, Loads, IdsOf, disk
  <1>6. \A j \in Ids : (Going(j)' <=> Going(j)) /\ (Live(j)' <=> Live(j))
    BY <1>2, <1>3, GoingSame DEF Live
  <1>7. Owned' /\ Writing'
    BY <1>2, <1>6, Typed, ManifestFrame DEF OneInv, disk
  <1>8. Unlinking' /\ Files'
    <2>1. xfer' # NoXfer =>
            /\ xfer # NoXfer /\ xfer'.id = xfer.id /\ xfer'.src = xfer.src
            /\ xfer'.phase = xfer.phase
      BY <1>2, Typed, Zenon DEF Transfer
    <2>2. UNCHANGED <<bytes, leftover, job, busy>> /\ p'.removals = p.removals
      BY <1>2, <1>3 DEF disk
    <2>3. \A j \in Ids : Awaits(j) => Awaits(j)'
      BY <1>1, <2>2, Typed, StillAwaited
    <2>4. \A j \in Ids : /\ Live(j) => KeepsSource(j)
                         /\ Fetches(j)' => Fetches(j) /\ xfer'.src = xfer.src
      BY <1>2, <2>1, Zenon DEF KeepsSource, Live, Fetches
    <2>5. QED
      BY <1>1, <2>2, <2>3, <2>4, FilesFrame DEF OneInv
  <1>9. Written' /\ Latest'
    <2>1. MaxSwitches # 0
      BY BoundsAssumption, SMT DEF Configure, IInv, TypeOK, Used
    <2>2. \A j \in Ids : Untouched(j)
      BY <1>2, <1>3, <1>6, <2>1, Zenon DEF Untouched, Pending, Asked, disk
    <2>3. QED
      BY <1>1, <2>2, SavedFrame DEF OneInv
  <1>10. IndexRight'
    BY <1>2, <1>3, IndexFrame DEF OneInv, disk
  <1>11. NoResurrection'
    <2>1. forgotten'[scope] = forgotten[scope] \cup deleteRequested
      BY <1>2, Typed, Zenon DEF ScopeIds
    <2>2. UNCHANGED <<items, library>> /\ scope' = scope
      BY <1>1, <1>2
    <2>3. QED
      BY <2>1, <2>2, Zenon DEF OneInv, NoResurrection, IdsOf
  <1>12. QED
    BY <1>5, <1>7, <1>8, <1>9, <1>10, <1>11 DEF OneInv, OneLibrary

(* Manifests are asked for, and nothing else is owed anew. *)
LEMMA AskMore ==
  ASSUME NEW o \in Owed, NEW D \in SUBSET Ids, NEW n, n = [o EXCEPT !.ids = @ \cup D]
  PROVE  /\ n.ids = o.ids \cup D
         /\ n.finals = o.finals /\ n.load = o.load /\ n.removals = o.removals /\ n.index = o.index
  BY Zenon DEF Owed

AsksFor(i) ==
    /\ owed'.ids = owed.ids \cup {i}
    /\ owed'.finals = owed.finals /\ owed'.load = owed.load
    /\ owed'.removals = owed.removals /\ owed'.index = owed.index

(* The item of one id changes, and its manifest is asked for. *)
LEMMA ItemAsked ==
  ASSUME IInv, IInv', OneInv, NEW i \in Ids, NEW it \in Item,
         items' = [items EXCEPT ![i] = it], AsksFor(i),
         UNCHANGED <<scope, loading, fresh, indexedIds, p, job, reconciled, away, manifest, index>>
  PROVE  /\ Quiet' /\ Working' /\ Loads' /\ Owned' /\ Writing'
         /\ Written' /\ Latest' /\ IndexRight'
         /\ items'[i] = it /\ Live(i)'
         /\ \A j \in Ids : j # i => items'[j] = items[j] /\ (Live(j)' <=> Live(j))
  <1> USE DEF AsksFor
  <1>1. /\ items'[i] = it /\ Live(i)'
        /\ \A j \in Ids : j # i => items'[j] = items[j] /\ (Live(j)' <=> Live(j))
    <2>1. it # NoItem
      BY SentinelsAssumption
    <2>2. items' = [items EXCEPT ![i] = it] /\ items \in [Ids -> Item \cup {NoItem}]
      BY Typed DEF Library
    <2>3. QED
      BY <2>1, <2>2, Zenon DEF Live
  <1>2. indexedIds' \subseteq IdsOf(items')
    BY <1>1, Zenon DEF OneInv, Loads, IdsOf, Live
  <1>3. Quiet' /\ Working' /\ Loads'
    BY <1>2, ThreadFrame DEF OneInv
  <1>4. \A j \in Ids : Going(j)' <=> Going(j)
    BY GoingSame
  <1>5. Owned' /\ Writing'
    BY <1>1, <1>4, Typed, ManifestFrame DEF OneInv
  <1>6. Written' /\ Latest'
    <2>1. \A j \in Ids : Pending(j) => Pending(j)'
      BY <1>4 DEF Pending, Asked
    <2>2. Pending(i)'
      BY DEF Pending, Asked
    <2>3. \A j \in Ids : j # i => Untouched(j)
      BY <1>1, <2>1, Zenon DEF Untouched
    <2>4. QED
      BY <2>2, <2>3, SavedFrame DEF OneInv
  <1>7. IndexRight'
    BY IndexFrame DEF OneInv
  <1>8. QED
    BY <1>1, <1>3, <1>5, <1>6, <1>7

(* The transfer goes on as it was or ends, and what it fetches is what it fetched. *)
LEMMA SameFetch ==
  ASSUME xfer' = xfer \/ xfer' = NoXfer
  PROVE  \A j \in Ids : Fetches(j)' => Fetches(j) /\ xfer'.src = xfer.src
  BY Zenon DEF Fetches

(* So it is when a request changes the state of an item, or adds one. *)
LEMMA OneRequest ==
  ASSUME IInv, IInv', OneInv, NEW i \in Ids, NEW it \in Item,
         items' = [items EXCEPT ![i] = it], AsksFor(i),
         Live(i) => it.src = items[i].src,
         \A j \in Ids : Fetches(j)' => Fetches(j) /\ xfer'.src = xfer.src,
         UNCHANGED <<scope, loading, fresh, indexedIds, p, job, reconciled, busy, disk>>
  PROVE  /\ Quiet' /\ Working' /\ Loads' /\ Owned' /\ Writing'
         /\ Unlinking' /\ Files' /\ Written' /\ Latest' /\ IndexRight'
  <1>1. /\ Quiet' /\ Working' /\ Loads' /\ Owned' /\ Writing'
        /\ Written' /\ Latest' /\ IndexRight'
        /\ items'[i] = it /\ Live(i)'
        /\ \A j \in Ids : j # i => items'[j] = items[j] /\ (Live(j)' <=> Live(j))
    BY ItemAsked DEF disk
  <1>2. \A j \in Ids : Live(j) => KeepsSource(j)
    BY <1>1 DEF KeepsSource
  <1>3. UNCHANGED <<bytes, leftover>> /\ \A j \in Ids : Awaits(j) => Awaits(j)'
    BY Typed, StillAwaited DEF disk
  <1>4. Unlinking' /\ Files'
    BY <1>2, <1>3, FilesFrame DEF OneInv
  <1>5. QED
    BY <1>1, <1>4

LEMMA OneEnqueue ==
  ASSUME IInv, IInv', OneInv, NEW i \in Ids, NEW src \in Sources, Enqueue(i, src) PROVE OneInv'
  <1> DEFINE it == [st |-> "Queued", src |-> src, counted |-> FALSE]
  <1>1. it \in Item
    BY DEF Item, States
  <1>2. items' = [items EXCEPT ![i] = it] /\ ~Live(i)
    BY DEF Enqueue
  <1>3. /\ Quiet' /\ Working' /\ Loads' /\ Owned' /\ Writing'
        /\ Unlinking' /\ Files' /\ Written' /\ Latest' /\ IndexRight'
    <2>1. AsksFor(i)
      BY Typed, AskMore DEF Enqueue, AsksFor
    <2> HIDE DEF it
    <2>2. QED
      BY <1>1, <1>2, <2>1, SameFetch, OneRequest DEF Enqueue
  <1>4. NoResurrection'
    <2>1. /\ library' = [library EXCEPT ![scope] = @ \cup {i}]
          /\ UNCHANGED <<scope, deleteRequested, forgotten>>
      BY DEF Enqueue
    <2>2. library'[scope] = library[scope] \cup {i}
      BY <2>1, Typed, Zenon DEF ScopeIds
    <2>3. \A j \in Ids : j # i => items'[j] = items[j]
      BY <1>2, Typed, Zenon DEF Library
    <2>4. QED
      BY <2>1, <2>2, <2>3, Zenon DEF OneInv, NoResurrection, IdsOf
  <1>5. QED
    BY <1>3, <1>4 DEF OneInv, OneLibrary

(* A state of a live item is set. *)
LEMMA StateSet ==
  ASSUME items \in Library, NEW i \in Ids, Live(i), NEW st \in States
  PROVE  /\ [items[i] EXCEPT !.st = st] \in Item
         /\ [items[i] EXCEPT !.st = st].src = items[i].src
         /\ [items EXCEPT ![i].st = st] = [items EXCEPT ![i] = [items[i] EXCEPT !.st = st]]
  <1>1. items[i] \in Item
    BY DEF Library, Live
  <1>2. QED
    BY <1>1, Zenon DEF Item

LEMMA OneSetState ==
  ASSUME IInv, IInv', OneInv, NEW i \in Ids, NEW st \in States, SetState(i, st) PROVE OneInv'
  <1> DEFINE it == [items[i] EXCEPT !.st = st]
  <1>1. it \in Item /\ it.src = items[i].src /\ items' = [items EXCEPT ![i] = it]
    BY Typed, StateSet DEF SetState
  <1>2. Live(i) /\ \A j \in Ids : Live(j)' => Live(j)
    BY <1>1, Typed, Zenon DEF SetState, Live, Library
  <1> HIDE DEF it
  <1>3. /\ Quiet' /\ Working' /\ Loads' /\ Owned' /\ Writing'
        /\ Unlinking' /\ Files' /\ Written' /\ Latest' /\ IndexRight'
    <2>1. AsksFor(i)
      BY Typed, AskMore DEF SetState, AsksFor
    <2>2. QED
      BY <1>1, <2>1, SameFetch, OneRequest DEF SetState
  <1>4. NoResurrection'
    BY <1>2, NoneNew DEF OneInv, SetState
  <1>5. QED
    BY <1>3, <1>4 DEF OneInv, OneLibrary

LEMMA OneEraseRunning ==
  ASSUME IInv, IInv', OneInv, NEW i \in Ids, EraseRunning(i) PROVE OneInv'
  <1> DEFINE it == [items[i] EXCEPT !.st = "Paused"]
  <1>1. it \in Item /\ it.src = items[i].src /\ items' = [items EXCEPT ![i] = it]
    <2>1. "Paused" \in States
      BY DEF States
    <2>2. QED
      BY <2>1, Typed, StateSet DEF EraseRunning
  <1>2. Live(i) /\ \A j \in Ids : Live(j)' => Live(j)
    BY <1>1, Typed, Zenon DEF EraseRunning, Live, Library
  <1> HIDE DEF it
  <1>3. /\ Quiet' /\ Working' /\ Loads' /\ Owned' /\ Writing'
        /\ Unlinking' /\ Files' /\ Written' /\ Latest' /\ IndexRight'
    <2>1. AsksFor(i)
      BY Typed, AskMore DEF EraseRunning, AsksFor
    <2>2. QED
      BY <1>1, <2>1, SameFetch, OneRequest DEF EraseRunning
  <1>4. NoResurrection'
    <2>1. UNCHANGED scope /\ deleteRequested' = deleteRequested \cup {i} /\ Unwanted(i)
      BY DEF EraseRunning
    <2>2. library'[scope] = library[scope] \ {i} /\ forgotten'[scope] = forgotten[scope] \ {i}
      BY <2>1, Typed, Zenon DEF Unwanted, ScopeIds
    <2>3. QED
      BY <1>2, <2>1, <2>2, Zenon DEF OneInv, NoResurrection, IdsOf, Live
  <1>5. QED
    BY <1>3, <1>4 DEF OneInv, OneLibrary

(* A removal whose files have been seen to still marks its id busy. *)
LEMMA UnlinkBusy ==
  ASSUME IInv, IInv', OneLibrary, NEW i \in Ids, Unlinks(i)
  PROVE  IsBusy(scope, i)
  <1>1. p.removals[scope][i] # <<>> /\ scope \in Scopes
    BY Sole, Zenon DEF Unlinks, IInv, QueuesOK
  <1>2. p.removals[scope][i] \in Seq(Removals) /\ owed.removals[scope][i] \in Seq(Removals)
    BY <1>1, Typed, OwedFields, PassFields DEF RemovalQueues
  <1>3. busy[scope][i] = Len(owed.removals[scope][i]) + Len(p.removals[scope][i])
    BY <1>1 DEF IInv, BusyExact
  <1>4. Len(p.removals[scope][i]) \in Nat \ {0} /\ Len(owed.removals[scope][i]) \in Nat
    BY <1>1, <1>2, SMT
  <1>5. ASSUME NEW m \in Nat, NEW n \in Nat \ {0} PROVE m + n > 0
    BY SMT
  <1>6. QED
    BY <1>3, <1>4, <1>5, Zenon DEF IsBusy

(* A removal is queued: one of its id is to come, and of any id of which one was. *)
LEMMA QueuedMore ==
  ASSUME IInv, IInv', OneLibrary, UNCHANGED <<scope, p, job>>, NEW i \in Ids, NEW what \in Removals, QueueRemoval(i),
         owed'.removals = WithRemoval(owed, i, what).removals
  PROVE  /\ \A j \in Ids : /\ Going(j) => Going(j)'
                           /\ Awaits(j) => Awaits(j)'
                           /\ j = i => Awaits(j)'
         /\ what = "item" => Going(i)'
  <1> DEFINE q == owed.removals
             v == Append(q[scope][i], what)
  <1>1. q \in RemovalQueues /\ scope \in Scopes /\ q[scope][i] \in Seq(Removals)
    BY Typed, OwedFields DEF RemovalQueues
  <1>2. owed'.removals = [q EXCEPT ![scope][i] = v]
    BY Typed, Zenon DEF WithRemoval, Owed
  <1>3. \A j \in Ids : owed'.removals[scope][j] = IF j = i THEN v ELSE q[scope][j]
    <2>1. ASSUME NEW j \in Ids
          PROVE  owed'.removals[scope][j] = IF j = i THEN v ELSE q[scope][j]
      <3> HIDE DEF v, q
      <3>1. [q EXCEPT ![scope][i] = v][scope][j] = IF j = i THEN v ELSE q[scope][j]
        BY <1>1, Zenon DEF RemovalQueues
      <3>2. QED
        BY <1>2, <3>1
    <2>2. QED
      BY <2>1
  <1>4. /\ Len(v) = Len(q[scope][i]) + 1 /\ Len(q[scope][i]) \in Nat
        /\ v[Len(v)] = what /\ \A n \in 1 .. Len(q[scope][i]) : v[n] = q[scope][i][n]
    BY <1>1, SMT
  <1>5. Has(v, what) /\ (Has(q[scope][i], "item") => Has(v, "item"))
    <2> HIDE DEF v, q
    <2>1. QED
      BY <1>4, SMT DEF Has
  <1>6. \A j \in Ids : Going(j) => Going(j)'
    <2> HIDE DEF v
    <2>1. QED
      BY <1>3, <1>5, Zenon DEF Going
  <1>7. what = "item" => Going(i)'
    <2> HIDE DEF v
    <2>1. QED
      BY <1>3, <1>5, Zenon DEF Going
  <1>8. \A j \in Ids : busy'[scope][j] = IF j = i THEN busy[scope][j] + 1 ELSE busy[scope][j]
    BY <1>1, Typed, Zenon DEF QueueRemoval
  <1>9. \A j \in Ids : busy[scope][j] \in Nat
    BY <1>1, Typed
  <1>10. ASSUME NEW j \in Ids
         PROVE  (Awaits(j) => Awaits(j)') /\ (j = i => Awaits(j)')
    <2>1. Unlinks(j)' <=> Unlinks(j)
      BY DEF Unlinks
    <2>2. Unlinks(j) => busy[scope][j] > 0
      BY UnlinkBusy DEF IsBusy
    <2>3. QED
      BY <1>8, <1>9, <2>1, <2>2, SMT DEF Awaits
  <1>11. QED
    BY <1>6, <1>7, <1>10

(* Gone from memory: its files, its manifest and its place in the index are owed a removal. *)
LEMMA OneForget ==
  ASSUME IInv, IInv', OneInv, NEW i \in Ids, Forget(i), xfer' = xfer \/ xfer' = NoXfer,
         UNCHANGED <<scope, loading, fresh, p, job, reconciled, away, manifest, bytes, leftover, index>>
  PROVE  /\ Quiet' /\ Working' /\ Loads' /\ Owned' /\ Writing'
         /\ Unlinking' /\ Files' /\ Written' /\ Latest' /\ IndexRight'
         /\ \A j \in Ids : (j = i => ~Live(j)') /\ (j # i => items'[j] = items[j])
  <1>1. QueueRemoval(i) /\ indexedIds' = indexedIds \ {i} /\ "item" \in Removals
    BY DEF Forget, Removals
  <1>2. /\ owed'.ids = owed.ids \ {i} /\ owed'.index
        /\ owed'.finals = owed.finals /\ owed'.load = owed.load
        /\ owed'.removals = WithRemoval(owed, i, "item").removals
    BY Typed, Zenon DEF Forget, WithRemoval, Owed
  <1>3. \A j \in Ids : (j = i => ~Live(j)') /\ (j # i => items'[j] = items[j])
    BY Typed, Zenon DEF Forget, Live, Library
  <1>4. /\ \A j \in Ids : /\ Going(j) => Going(j)'
                          /\ Awaits(j) => Awaits(j)'
                          /\ j = i => Awaits(j)'
        /\ Going(i)'
    BY <1>1, <1>2, QueuedMore DEF OneInv
  <1>5. indexedIds' \subseteq IdsOf(items')
    BY <1>1, <1>3, Zenon DEF OneInv, Loads, IdsOf
  <1>6. Quiet' /\ Working' /\ Loads'
    BY <1>2, <1>5, ThreadFrame DEF OneInv
  <1>7. Owned' /\ Writing'
    <2>1. \A j \in Ids : Live(j) \/ Going(j) => Live(j)' \/ Going(j)'
      BY <1>3, <1>4 DEF Live
    <2>2. QED
      BY <2>1, Typed, ManifestFrame DEF OneInv
  <1>8. Unlinking' /\ Files'
    <2>1. \A j \in Ids : Live(j) => KeepsSource(j) \/ Awaits(j)'
      BY <1>3, <1>4, Zenon DEF KeepsSource, Live
    <2>2. QED
      BY <1>4, <2>1, SameFetch, FilesFrame DEF OneInv
  <1>9. Written' /\ Latest'
    <2>1. \A j \in Ids : j # i => Untouched(j)
      BY <1>1, <1>2, <1>3, <1>4, Zenon DEF Untouched, Pending, Asked
    <2>2. \A j \in Ids : Live(j)' => Untouched(j)
      BY <1>3, <2>1
    <2>3. QED
      BY <2>2, SavedFrame DEF OneInv
  <1>10. IndexRight'
    BY <1>2 DEF IndexRight
  <1>11. QED
    BY <1>3, <1>6, <1>7, <1>8, <1>9, <1>10

LEMMA OneErase == ASSUME IInv, IInv', OneInv, NEW i \in Ids, Erase(i) PROVE OneInv'
  <1>1. /\ Quiet' /\ Working' /\ Loads' /\ Owned' /\ Writing'
        /\ Unlinking' /\ Files' /\ Written' /\ Latest' /\ IndexRight'
        /\ \A j \in Ids : (j = i => ~Live(j)') /\ (j # i => items'[j] = items[j])
    BY OneForget DEF Erase, disk
  <1>2. NoResurrection'
    <2>1. UNCHANGED scope /\ deleteRequested' = deleteRequested \ {i} /\ Unwanted(i)
      BY DEF Erase
    <2>2. library'[scope] = library[scope] \ {i} /\ forgotten'[scope] = forgotten[scope] \ {i}
      BY <2>1, Typed, Zenon DEF Unwanted, ScopeIds
    <2>3. QED
      BY <1>1, <2>1, <2>2, Zenon DEF OneInv, NoResurrection, IdsOf, Live
  <1>3. QED
    BY <1>1, <1>2 DEF OneInv, OneLibrary

(* The item of an id changes: its source only with a removal of its bytes, and then its manifest *)
(* is asked for or the reconciler will ask for it.                                                *)
LEMMA OneReplaced ==
  ASSUME IInv, IInv', OneInv, NEW i \in Ids, NEW it \in Item, NEW write \in SUBSET Ids,
         Live(i), items' = [items EXCEPT ![i] = it], it.st # "Downloading",
         \/ DiscardBytes(i, write)
         \/ it.src = items[i].src /\ write = {} /\ UNCHANGED <<owed, busy>>,
         i \in write \/ i \in reconciled',
         reconciled \subseteq reconciled',
         UNCHANGED <<scope, loading, fresh, lateScan, indexedIds, deleteRequested,
                     p, job, xfer, disk, history>>
  PROVE  OneInv'
  <1>1. /\ owed'.ids = owed.ids \cup write
        /\ owed'.finals = owed.finals /\ owed'.load = owed.load /\ owed'.index = owed.index
    <2>1. CASE DiscardBytes(i, write)
      BY <2>1, Typed, Zenon DEF DiscardBytes, WithRemoval, Owed
    <2>2. CASE write = {} /\ UNCHANGED owed
      BY <2>2
    <2>3. QED
      BY <2>1, <2>2
  <1>2. \A j \in Ids : /\ Going(j) => Going(j)'
                       /\ Awaits(j) => Awaits(j)'
                       /\ j = i => Awaits(j)' \/ it.src = items[i].src
    <2>1. CASE DiscardBytes(i, write)
      <3>1. QueueRemoval(i) /\ "bytes" \in Removals
        BY <2>1 DEF DiscardBytes, Removals
      <3>2. owed'.removals = WithRemoval(owed, i, "bytes").removals
        BY <2>1, Typed, Zenon DEF DiscardBytes, WithRemoval, Owed
      <3>3. QED
        BY <3>1, <3>2, QueuedMore DEF OneInv
    <2>2. CASE it.src = items[i].src /\ UNCHANGED <<owed, busy>>
      BY <2>2, Typed, StillAwaited, GoingSame
    <2>3. QED
      BY <2>1, <2>2
  <1>3. items'[i] = it /\ \A j \in Ids : (Live(j)' <=> Live(j)) /\ (j # i => items'[j] = items[j])
    <2>1. it # NoItem
      BY SentinelsAssumption
    <2>2. QED
      BY <2>1, Typed, Zenon DEF Live, Library
  <1>4. indexedIds' \subseteq IdsOf(items')
    BY <1>3, Zenon DEF OneInv, Loads, IdsOf, Live
  <1>5. Quiet' /\ Working' /\ Loads'
    BY <1>1, <1>4, ThreadFrame DEF OneInv, disk
  <1>6. Owned' /\ Writing'
    <2>1. \A j \in Ids : Live(j) \/ Going(j) => Live(j)' \/ Going(j)'
      BY <1>2, <1>3
    <2>2. QED
      BY <2>1, Typed, ManifestFrame DEF OneInv, disk
  <1>7. Unlinking' /\ Files'
    <2>1. \A j \in Ids : Live(j) => KeepsSource(j) \/ Awaits(j)'
      BY <1>2, <1>3, Zenon DEF KeepsSource
    <2>2. QED
      BY <1>2, <2>1, SameFetch, FilesFrame DEF OneInv, disk
  <1>8. Written' /\ Latest'
    <2>1. \A j \in Ids : Pending(j) => Pending(j)'
      BY <1>1, <1>2, Zenon DEF Pending, Asked
    <2>2. \A j \in Ids : j # i => Untouched(j)
      BY <1>3, <2>1, Zenon DEF Untouched, disk
    <2>3. Noted(i) \/ Pending(i)'
      <3>1. CASE i \in write
        BY <1>1, <3>1 DEF Pending, Asked
      <3>2. CASE i \in reconciled'
        BY <1>3, <2>1, <3>2, Zenon DEF Noted, disk
      <3>3. QED
        BY <3>1, <3>2
    <2>4. QED
      BY <2>2, <2>3, SavedFrame DEF OneInv
  <1>9. IndexRight'
    BY <1>1, IndexFrame DEF OneInv, disk
  <1>10. NoResurrection'
    BY <1>3, NoneNew DEF OneInv
  <1>11. QED
    BY <1>5, <1>6, <1>7, <1>8, <1>9, <1>10 DEF OneInv, OneLibrary

(* A live item starts again from another source. *)
LEMMA SourceSet ==
  ASSUME items \in Library, NEW i \in Ids, Live(i), NEW src \in Sources
  PROVE  /\ [items[i] EXCEPT !.st = "Queued", !.src = src] \in Item
         /\ [items[i] EXCEPT !.st = "Queued", !.src = src].st # "Downloading"
         /\ [items EXCEPT ![i].st = "Queued", ![i].src = src]
              = [items EXCEPT ![i] = [items[i] EXCEPT !.st = "Queued", !.src = src]]
  <1>1. items[i] \in Item /\ "Queued" \in States
    BY DEF Library, Live, States
  <1>2. QED
    BY <1>1, Zenon DEF Item

LEMMA OneRedownload ==
  ASSUME IInv, IInv', OneInv, NEW i \in Ids, NEW src \in Sources, Redownload(i, src) PROVE OneInv'
  <1> DEFINE it == [items[i] EXCEPT !.st = "Queued", !.src = src]
  <1>1. it \in Item /\ it.st # "Downloading" /\ {i} \in SUBSET Ids
    BY Typed, SourceSet DEF Redownload
  <1>2. items' = [items EXCEPT ![i] = it]
    BY Typed, SourceSet DEF Redownload
  <1> HIDE DEF it
  <1>3. QED
    BY <1>1, <1>2, OneReplaced DEF Redownload

LEMMA OneReconcileChanged ==
  ASSUME IInv, IInv', OneInv, NEW i \in Ids, NEW src \in Sources, ReconcileChanged(i, src)
  PROVE  OneInv'
  <1>1. {} \in SUBSET Ids /\ Live(i) /\ reconciled' = reconciled \cup {i}
    BY DEF ReconcileChanged
  <1>2. CASE items' = [items EXCEPT ![i].st = "UpdateAvailable"] /\ UNCHANGED <<owed, busy>>
    <2> DEFINE it == [items[i] EXCEPT !.st = "UpdateAvailable"]
    <2>1. "UpdateAvailable" \in States
      BY DEF States
    <2>2. it \in Item /\ it.src = items[i].src /\ items' = [items EXCEPT ![i] = it]
      BY <1>1, <1>2, <2>1, Typed, StateSet
    <2>3. it.st # "Downloading"
      <3>1. items[i] \in Item
        BY <1>1, Typed DEF Live, Library
      <3>2. QED
        BY <3>1, Zenon DEF Item
    <2> HIDE DEF it
    <2>4. QED
      BY <1>1, <1>2, <2>2, <2>3, OneReplaced DEF ReconcileChanged
  <1>3. CASE items' = [items EXCEPT ![i].st = "Queued", ![i].src = src] /\ DiscardBytes(i, {})
    <2> DEFINE it == [items[i] EXCEPT !.st = "Queued", !.src = src]
    <2>1. it \in Item /\ it.st # "Downloading"
      BY <1>1, Typed, SourceSet
    <2>2. items' = [items EXCEPT ![i] = it]
      BY <1>1, <1>3, Typed, SourceSet
    <2> HIDE DEF it
    <2>3. QED
      BY <1>1, <1>3, <2>1, <2>2, OneReplaced DEF ReconcileChanged
  <1>4. QED
    BY <1>2, <1>3 DEF ReconcileChanged

LEMMA OneReconcileEnd == ASSUME IInv, IInv', OneInv, ReconcileEnd PROVE OneInv'
  <1> DEFINE D == {i \in reconciled : Live(i) /\ items[i].st # "Downloading"}
  <1>1. UNCHANGED <<memory, busy, p, job, xfer, disk, history, used>> /\ reconciled' = {}
    BY DEF ReconcileEnd
  <1>2. /\ owed'.ids = owed.ids \cup D
        /\ owed'.finals = owed.finals /\ owed'.load = owed.load
        /\ owed'.removals = owed.removals /\ owed'.index = owed.index
    <2>1. D \in SUBSET Ids
      BY DEF IInv, TypeOK, WorkOK
    <2>2. owed' = [owed EXCEPT !.ids = @ \cup D]
      BY DEF ReconcileEnd
    <2> HIDE DEF D
    <2>3. QED
      BY <2>1, <2>2, Typed, AskMore
  <1>3. \A j \in Ids : (Going(j)' <=> Going(j)) /\ (Live(j)' <=> Live(j))
    BY <1>1, <1>2, GoingSame DEF Live, memory
  <1>4. Quiet' /\ Working' /\ Loads'
    <2>1. indexedIds' \subseteq IdsOf(items')
      BY <1>1 DEF OneInv, Loads, IdsOf, memory
    <2>2. QED
      BY <1>1, <1>2, <2>1, ThreadFrame DEF OneInv, memory, disk
  <1>5. Owned' /\ Writing'
    BY <1>1, <1>3, Typed, ManifestFrame DEF OneInv, memory, disk
  <1>6. Unlinking' /\ Files'
    <2>1. UNCHANGED <<bytes, leftover, scope, busy, job, xfer, p>>
      BY <1>1 DEF memory, disk
    <2>2. \A j \in Ids : (Awaits(j) => Awaits(j)') /\ (Live(j) => KeepsSource(j))
      BY <1>1, <2>1, Typed, StillAwaited, Zenon DEF KeepsSource, Live, memory
    <2>3. QED
      BY <2>1, <2>2, SameFetch, FilesFrame DEF OneInv
  <1>7. Written' /\ Latest'
    <2>1. ASSUME NEW j \in Ids, Live(j)' PROVE Untouched(j) \/ Pending(j)'
      <3>1. CASE j \in D
        BY <1>2, <3>1 DEF Pending, Asked
      <3>2. CASE j \notin reconciled \/ items[j].st = "Downloading"
        BY <1>1, <1>2, <1>3, <3>2, Zenon DEF Untouched, Pending, Asked, memory, disk
      <3>3. QED
        BY <1>3, <2>1, <3>1, <3>2
    <2>2. QED
      BY <1>1, <2>1, SavedFrame DEF OneInv, memory
  <1>8. IndexRight'
    BY <1>1, <1>2, IndexFrame DEF OneInv, memory, disk
  <1>9. NoResurrection'
    BY <1>1, <1>3, NoneNew DEF OneInv, memory
  <1>10. QED
    BY <1>4, <1>5, <1>6, <1>7, <1>8, <1>9 DEF OneInv, OneLibrary


(***************************************************************************)
(* One lemma per action: transfers.                                        *)
(***************************************************************************)
LEMMA OneTransferStart ==
  ASSUME IInv, IInv', OneInv, NEW i \in Ids, TransferStart(i) PROVE OneInv'
  <1> DEFINE it == [items[i] EXCEPT !.st = "Downloading"]
  <1>1. it \in Item /\ it.src = items[i].src /\ items' = [items EXCEPT ![i] = it]
    <2>1. "Downloading" \in States
      BY DEF States
    <2>2. QED
      BY <2>1, Typed, StateSet DEF TransferStart
  <1>2. AsksFor(i)
    BY Typed, AskMore DEF TransferStart, AsksFor
  <1> HIDE DEF it
  <1>3. xfer'.phase = "starting"
    BY DEF TransferStart
  <1>4. /\ Quiet' /\ Working' /\ Loads' /\ Owned' /\ Writing'
        /\ Unlinking' /\ Files' /\ Written' /\ Latest' /\ IndexRight'
    <2>1. \A j \in Ids : ~Fetches(j)'
      BY <1>3 DEF Fetches
    <2>2. QED
      BY <1>1, <1>2, <2>1, OneRequest DEF TransferStart
  <1>5. \A j \in Ids : Live(j)' => Live(j)
    BY <1>1, Typed, Zenon DEF TransferStart, Live, Library
  <1>6. NoResurrection'
    BY <1>5, NoneNew DEF OneInv, TransferStart
  <1>7. QED
    BY <1>4, <1>6 DEF OneInv, OneLibrary

(* Nothing but files and the transfer changes. *)
FilesOnly == UNCHANGED <<memory, owed, busy, p, job, reconciled, manifest, index, away, leftover, history>>

LEMMA OneFilesOnly ==
  ASSUME IInv, OneInv, FilesOnly
  PROVE  /\ Quiet' /\ Working' /\ Loads' /\ Owned' /\ Writing'
         /\ Written' /\ Latest' /\ IndexRight' /\ NoResurrection'
  <1> USE DEF FilesOnly, memory
  <1>1. Quiet' /\ Working' /\ Loads'
    <2>1. indexedIds' \subseteq IdsOf(items')
      BY DEF OneInv, Loads, IdsOf
    <2>2. QED
      BY <2>1, ThreadFrame DEF OneInv
  <1>2. \A j \in Ids : (Going(j)' <=> Going(j)) /\ (Live(j)' <=> Live(j))
    BY GoingSame DEF Live
  <1>3. Owned' /\ Writing'
    BY <1>2, Typed, ManifestFrame DEF OneInv
  <1>4. Written' /\ Latest'
    <2>1. \A j \in Ids : Untouched(j)
      BY <1>2, Zenon DEF Untouched, Pending, Asked
    <2>2. QED
      BY <2>1, SavedFrame DEF OneInv
  <1>5. IndexRight'
    BY IndexFrame DEF OneInv
  <1>6. NoResurrection'
    BY <1>2, NoneNew DEF OneInv
  <1>7. QED
    BY <1>1, <1>3, <1>4, <1>5, <1>6

LEMMA OneSegment == ASSUME IInv, IInv', OneInv, TransferSegment PROVE OneInv'
  <1>1. /\ Quiet' /\ Working' /\ Loads' /\ Owned' /\ Writing'
        /\ Written' /\ Latest' /\ IndexRight' /\ NoResurrection'
    BY OneFilesOnly DEF TransferSegment, FilesOnly
  <1>2. /\ xfer # NoXfer /\ xfer.phase = "fetching" /\ xfer.scope = scope /\ xfer.id \in Ids
        /\ UNCHANGED <<scope, items, busy, p, job, leftover>>
        /\ xfer' = [xfer EXCEPT !.phase = "renamed"]
    BY Sole, Typed, Zenon DEF OneInv, TransferSegment, memory, Transfer
  <1>3. \A j \in Ids : bytes'[scope][j] = IF j = xfer.id THEN xfer.src ELSE bytes[scope][j]
    BY <1>2, Typed, Zenon DEF TransferSegment
  <1>4. xfer'.phase = "renamed"
    BY <1>2, Typed, Zenon DEF Transfer
  <1>5. Unlinking'
    BY <1>2, Zenon DEF OneInv, Unlinking
  <1>6. \A j \in Ids : Awaits(j) => Awaits(j)'
    BY <1>2, Typed, StillAwaited
  <1>7. ASSUME NEW j \in Ids PROVE Awaits(j)' \/ Good(j)' \/ j \in leftover'[scope]
    <2>1. Awaits(j) \/ Good(j) \/ j \in leftover[scope]
      BY DEF OneInv, Files
    <2>2. ~Fetches(j)'
      BY <1>4 DEF Fetches
    <2>3. CASE Good(j) /\ j = xfer.id
      BY <1>2, <1>3, <2>2, <2>3 DEF Good, Fetches, Live
    <2>4. CASE Good(j) /\ j # xfer.id
      BY <1>2, <1>3, <2>2, <2>4 DEF Good, Live
    <2>5. QED
      BY <1>2, <1>6, <2>1, <2>3, <2>4
  <1>8. QED
    BY <1>1, <1>2, <1>5, <1>7 DEF OneInv, OneLibrary, Files

LEMMA OneValidate == ASSUME IInv, IInv', OneInv, TransferValidate PROVE OneInv'
  <1>1. /\ Quiet' /\ Working' /\ Loads' /\ Owned' /\ Writing'
        /\ Written' /\ Latest' /\ IndexRight' /\ NoResurrection'
    BY OneFilesOnly DEF TransferValidate, FilesOnly, disk
  <1>2. xfer # NoXfer /\ xfer'.phase \in {"validated", "invalid"}
    BY Typed, Zenon DEF TransferValidate, Transfer
  <1>3. UNCHANGED <<scope, items, busy, p, job, bytes, leftover>>
    BY DEF TransferValidate, memory, disk
  <1>4. \A j \in Ids : /\ Awaits(j) => Awaits(j)'
                       /\ Live(j) => KeepsSource(j)
                       /\ ~Fetches(j)'
    BY <1>2, <1>3, Typed, StillAwaited DEF KeepsSource, Live, Fetches
  <1>5. Unlinking' /\ Files'
    BY <1>3, <1>4, FilesFrame DEF OneInv
  <1>6. QED
    BY <1>1, <1>5 DEF OneInv, OneLibrary

(* The item of a transfer gets a state and a count of segments. *)
LEMMA CountSet ==
  ASSUME items \in Library, NEW i \in Ids, Live(i), NEW st \in States, NEW c \in BOOLEAN
  PROVE  LET it == [items[i] EXCEPT !.st = st, !.counted = c] IN
         it \in Item /\ it.src = items[i].src
  <1>1. items[i] \in Item
    BY DEF Library, Live
  <1>2. QED
    BY <1>1, Zenon DEF Item

LEMMA OneDiscover == ASSUME IInv, IInv', OneInv, TransferDiscover PROVE OneInv'
  <1>1. /\ xfer # NoXfer /\ xfer \in Transfer /\ xfer.id \in Ids
        /\ Live(xfer.id) /\ items[xfer.id].src = xfer.src
        /\ UNCHANGED <<scope, loading, fresh, indexedIds, deleteRequested, busy, p, job, reconciled,
                       disk, history>>
        /\ xfer' = [xfer EXCEPT !.phase = "fetching"]
    BY Typed, Zenon DEF TransferDiscover, TransferOwner, SameSource, Transfer
  <1>2. PICK i \in Ids : i = xfer.id
    BY <1>1
  <1>3. PICK st \in States : st = IF items[i].st = "Queued" THEN "Downloading" ELSE items[i].st
    <2>1. items[i] \in Item
      BY <1>1, <1>2, Typed DEF Live, Library
    <2>2. QED
      BY <2>1, Zenon DEF Item, States
  <1> DEFINE it == [items[i] EXCEPT !.st = st, !.counted = TRUE]
  <1>4. it \in Item /\ it.src = items[i].src
    BY <1>1, <1>2, Typed, CountSet
  <1>5. items' = [items EXCEPT ![i] = it]
    BY <1>1, <1>2, <1>3, Typed, Zenon DEF TransferDiscover, Published, Library, Live, Item
  <1>6. AsksFor(i)
    BY <1>2, Typed, AskMore DEF TransferDiscover, Published, AsksFor
  <1> HIDE DEF it
  <1>7. /\ Quiet' /\ Working' /\ Loads' /\ Owned' /\ Writing'
        /\ Written' /\ Latest' /\ IndexRight'
        /\ items'[i] = it /\ Live(i)'
        /\ \A j \in Ids : j # i => items'[j] = items[j] /\ (Live(j)' <=> Live(j))
    BY <1>1, <1>4, <1>5, <1>6, ItemAsked DEF disk
  <1>8. Unlinking'
    BY <1>1, Zenon DEF OneInv, Unlinking
  <1>9. UNCHANGED <<bytes, leftover>> /\ \A j \in Ids : Awaits(j) => Awaits(j)'
    BY <1>1, Typed, StillAwaited DEF disk
  <1>10. xfer'.id = xfer.id /\ xfer'.src = xfer.src
    BY <1>1, Zenon DEF Transfer
  <1>11. ASSUME NEW j \in Ids PROVE Awaits(j)' \/ Good(j)' \/ j \in leftover'[scope]
    <2>1. Awaits(j) \/ Good(j) \/ j \in leftover[scope]
      BY DEF OneInv, Files
    <2>2. CASE Good(j) /\ j = i
      BY <1>1, <1>2, <1>4, <1>7, <1>9, <1>10, <2>2 DEF Good, Fetches
    <2>3. CASE Good(j) /\ j # i
      BY <1>1, <1>2, <1>7, <1>9, <1>10, <2>3 DEF Good, Fetches
    <2>4. QED
      BY <1>9, <2>1, <2>2, <2>3
  <1>12. Files'
    BY <1>1, <1>11 DEF Files
  <1>13. \A j \in Ids : Live(j)' => Live(j)
    BY <1>1, <1>2, <1>7
  <1>14. NoResurrection'
    BY <1>1, <1>13, NoneNew DEF OneInv
  <1>15. QED
    BY <1>7, <1>8, <1>12, <1>14 DEF OneInv, OneLibrary

(* The item of a transfer as it ends: only its state and its count are changed. *)
EndsAs(st, c) == items' = [items EXCEPT ![xfer.id] = [items[xfer.id] EXCEPT !.st = st, !.counted = c]]

LEMMA EndsWell ==
  ASSUME items \in Library, xfer.id \in Ids, Live(xfer.id),
         TransferComplete \/ TransferUndiscovered \/ TransferFailed
  PROVE  \E st \in States, c \in BOOLEAN : EndsAs(st, c)
  <1> DEFINE it == items[xfer.id]
  <1>1. it \in Item /\ it.st \in States /\ it.counted \in BOOLEAN
    BY Zenon DEF Library, Live, Item
  <1>2. CASE TransferComplete
    <2>1. EndsAs("Complete", TRUE)
      BY <1>1, <1>2, Zenon DEF TransferComplete, EndsAs, Library, Item
    <2>2. QED
      BY <2>1 DEF States
  <1>3. CASE UNCHANGED items
    <2>1. EndsAs(it.st, it.counted)
      BY <1>1, <1>3, Zenon DEF EndsAs, Library, Item
    <2>2. QED
      BY <1>1, <2>1, Zenon
  <1>4. CASE items' = Failed
    <2> DEFINE st == IF it.st = "Paused" THEN it.st ELSE "Failed"
    <2>1. EndsAs(st, it.counted)
      BY <1>1, <1>4, Zenon DEF Failed, EndsAs, Library, Item
    <2>2. st \in States
      BY <1>1 DEF States
    <2>3. QED
      BY <1>1, <2>1, <2>2, Zenon
  <1>5. QED
    BY <1>2, <1>3, <1>4 DEF TransferUndiscovered, TransferFailed

LEMMA OneTransferEnd == ASSUME IInv, IInv', OneInv, TransferEnd PROVE OneInv'
  <1>1. /\ xfer # NoXfer /\ xfer \in Transfer /\ xfer.id \in Ids /\ xfer.scope = scope
        /\ xfer' = NoXfer
        /\ UNCHANGED <<p, job, reconciled, manifest, index, away, leftover, history, used>>
    BY Sole, Typed, Zenon DEF OneInv, TransferEnd, Transfer
  <1>2. PICK i \in Ids : i = xfer.id
    BY <1>1
  <1>3. \A j \in Ids : ~Fetches(j)'
    BY <1>1 DEF Fetches
  <1>4. CASE TransferStopped \/ TransferStale \/ TransferAborted
    <2>1. UNCHANGED <<memory, owed, busy>>
      BY <1>4 DEF TransferStopped, TransferStale, TransferAborted
    <2>2. /\ Quiet' /\ Working' /\ Loads' /\ Owned' /\ Writing'
          /\ Written' /\ Latest' /\ IndexRight' /\ NoResurrection'
      BY <1>1, <2>1, OneFilesOnly DEF FilesOnly
    <2>3. \A j \in Ids : bytes'[scope][j] = bytes[scope][j] \/ bytes'[scope][j] = NoBytes
      <3>1. CASE UNCHANGED bytes
        BY <3>1
      <3>2. CASE bytes' = [bytes EXCEPT ![xfer.scope][xfer.id] = NoBytes]
        BY <1>1, <3>2, Typed, Zenon
      <3>3. QED
        BY <1>4, <3>1, <3>2 DEF TransferStopped, TransferStale, TransferAborted
    <2>4. UNCHANGED <<scope, items>> /\ \A j \in Ids : Awaits(j) => Awaits(j)'
      BY <1>1, <2>1, Typed, StillAwaited DEF memory
    <2>5. Unlinking'
      BY <1>1, <2>4, Zenon DEF OneInv, Unlinking
    <2>6. ASSUME NEW j \in Ids PROVE Awaits(j)' \/ Good(j)' \/ j \in leftover'[scope]
      <3>1. Awaits(j) \/ Good(j) \/ j \in leftover[scope]
        BY DEF OneInv, Files
      <3>2. Good(j) => Good(j)'
        BY <1>3, <2>3, <2>4 DEF Good, Live
      <3>3. QED
        BY <1>1, <2>4, <3>1, <3>2
    <2>7. QED
      BY <2>2, <2>4, <2>5, <2>6 DEF OneInv, OneLibrary, Files
  <1>5. CASE TransferDeleted
    <2>1. /\ Forget(i) /\ deleteRequested' = deleteRequested \ {i}
          /\ UNCHANGED <<scope, loading, fresh, bytes>>
      BY <1>2, <1>5 DEF TransferDeleted
    <2>2. /\ Quiet' /\ Working' /\ Loads' /\ Owned' /\ Writing'
          /\ Unlinking' /\ Files' /\ Written' /\ Latest' /\ IndexRight'
          /\ \A j \in Ids : (j = i => ~Live(j)') /\ (j # i => items'[j] = items[j])
      BY <1>1, <2>1, OneForget
    <2>3. NoResurrection'
      BY <1>1, <2>1, <2>2, Zenon DEF OneInv, NoResurrection, IdsOf, Live, history
    <2>4. QED
      BY <2>2, <2>3 DEF OneInv, OneLibrary
  <1>6. CASE TransferComplete \/ TransferUndiscovered \/ TransferFailed
    <2>1. Live(i)
      BY <1>2, <1>6 DEF TransferComplete, TransferUndiscovered, TransferFailed, TransferOwner
    <2>2. PICK st \in States, c \in BOOLEAN : EndsAs(st, c)
      BY <1>1, <1>2, <1>6, <2>1, Typed, EndsWell
    <2> DEFINE it == [items[i] EXCEPT !.st = st, !.counted = c]
    <2>3. it \in Item /\ it.src = items[i].src /\ items' = [items EXCEPT ![i] = it]
      BY <1>2, <2>1, <2>2, Typed, CountSet DEF EndsAs
    <2>4. AsksFor(i)
      <3>1. PICK R \in SUBSET Ids :
               owed' = [owed EXCEPT !.ids = @ \cup {i}, !.rescans = @ \cup R]
        <4>1. CASE TransferFailed
          BY <1>2, <4>1 DEF TransferFailed
        <4>2. CASE TransferComplete \/ TransferUndiscovered
          <5>1. owed' = [owed EXCEPT !.ids = @ \cup {i}, !.rescans = @ \cup {}]
            BY <1>2, <4>2, Typed, Zenon DEF TransferComplete, TransferUndiscovered, Owed
          <5>2. QED
            BY <5>1
        <4>3. QED
          BY <1>6, <4>1, <4>2
      <3>2. QED
        BY <3>1, Typed, Zenon DEF AsksFor, Owed
    <2>5. UNCHANGED <<scope, loading, fresh, indexedIds, deleteRequested, busy, bytes>>
      BY <1>6 DEF TransferComplete, TransferUndiscovered, TransferFailed
    <2> HIDE DEF it
    <2>6. \A j \in Ids : Live(j)' => Live(j)
      BY <2>1, <2>3, Typed, Zenon DEF Live, Library
    <2>7. /\ Quiet' /\ Working' /\ Loads' /\ Owned' /\ Writing'
          /\ Unlinking' /\ Files' /\ Written' /\ Latest' /\ IndexRight'
      BY <1>1, <1>3, <2>3, <2>4, <2>5, OneRequest DEF disk
    <2>8. NoResurrection'
      BY <1>1, <2>5, <2>6, NoneNew DEF OneInv
    <2>9. QED
      BY <2>7, <2>8 DEF OneInv, OneLibrary
  <1>7. QED
    BY <1>4, <1>5, <1>6 DEF TransferEnd


(***************************************************************************)
(* One lemma per action: the storage thread.                               *)
(***************************************************************************)
(* The parts of the pass and of the owed work that removals leave alone. *)
PassKept ==
    /\ p'.on = p.on /\ p'.finals = p.finals /\ p'.retryFinals = p.retryFinals
    /\ p'.ids = p.ids /\ p'.retryIds = p.retryIds
    /\ p'.index = p.index /\ p'.retryIndex = p.retryIndex
    /\ p'.load = p.load /\ p'.loaded = p.loaded
OwedKept ==
    /\ owed.ids \subseteq owed'.ids
    /\ owed'.finals = owed.finals /\ owed'.load = owed.load
    /\ owed.index => owed'.index

(* A step of the pass that leaves memory alone, and no job behind. *)
LEMMA ThreadStep ==
  ASSUME Quiet, Working, Loads, p.on, PassKept, OwedKept, UNCHANGED <<away, loading, items, indexedIds>>,
         job'.op \in {"none", "unlink", "rescan", "scanned"}
  PROVE  Quiet' /\ Working' /\ Loads'
  <1>1. job'.op \notin {"index", "late", "fresh", "create", "manifest"}
    OBVIOUS
  <1>2. QED
    BY <1>1, Zenon DEF Quiet, Working, Loads, PassKept, OwedKept, IdsOf

LEMMA IndexStep ==
  ASSUME IndexRight, scope' = scope, PassKept, OwedKept,
         UNCHANGED <<index, indexedIds, loading, fresh>>
  PROVE  IndexRight'
  BY IndexFrame DEF PassKept, OwedKept

(* Queues without their head. *)
LEMMA TailHas ==
  ASSUME NEW q \in Seq(Removals), q # <<>>
  PROVE  Has(q, "item") /\ Head(q) # "item" => Has(Tail(q), "item")
  <1> SUFFICES ASSUME Has(q, "item"), Head(q) # "item" PROVE Has(Tail(q), "item")
    OBVIOUS
  <1>1. PICK n \in 1 .. Len(q) : q[n] = "item"
    BY DEF Has
  <1>2. Len(q) \in Nat /\ Head(q) = q[1] /\ Len(Tail(q)) = Len(q) - 1
        /\ \A m \in 1 .. Len(q) - 1 : Tail(q)[m] = q[m + 1]
    BY SMT
  <1>3. n # 1
    BY <1>1, <1>2
  <1>4. n - 1 \in 1 .. Len(q) - 1 /\ (n - 1) + 1 = n
    BY <1>1, <1>2, <1>3, SMT
  <1>5. Tail(q)[n - 1] = "item"
    BY <1>1, <1>2, <1>4
  <1>6. QED
    BY <1>2, <1>4, <1>5 DEF Has

LEMMA ConcatHas ==
  ASSUME NEW q \in Seq(Removals), NEW r \in Seq(Removals)
  PROVE  Has(q, "item") \/ Has(r, "item") => Has(q \o r, "item")
  <1>1. /\ Len(q) \in Nat /\ Len(r) \in Nat /\ Len(q \o r) = Len(q) + Len(r)
        /\ \A n \in 1 .. Len(q) : (q \o r)[n] = q[n]
        /\ \A n \in 1 .. Len(r) : (q \o r)[Len(q) + n] = r[n]
    BY SMT
  <1>2. ASSUME Has(q, "item") PROVE Has(q \o r, "item")
    <2>1. PICK n \in 1 .. Len(q) : q[n] = "item"
      BY <1>2 DEF Has
    <2>2. n \in 1 .. Len(q \o r)
      BY <1>1, <2>1, SMT
    <2>3. QED
      BY <1>1, <2>1, <2>2 DEF Has
  <1>3. ASSUME Has(r, "item") PROVE Has(q \o r, "item")
    <2>1. PICK n \in 1 .. Len(r) : r[n] = "item"
      BY <1>3 DEF Has
    <2>2. Len(q) + n \in 1 .. Len(q \o r)
      BY <1>1, <2>1, SMT
    <2>3. (q \o r)[Len(q) + n] = "item"
      BY <1>1, <2>1
    <2>4. QED
      BY <2>2, <2>3 DEF Has
  <1>4. QED
    BY <1>2, <1>3

(* A removal is done: the other ids are as they were, a live item is asked for anew. *)
LEMMA DoneKeeps ==
  ASSUME IInv, NEW i \in Ids, RemovalDone(scope, i), UNCHANGED <<scope, items>>,
         p.removals[scope][i] # <<>>
  PROVE  /\ PassKept /\ OwedKept /\ (Live(i) => i \in owed'.ids)
         /\ owed'.removals = owed.removals
         /\ \A j \in Ids : j # i => /\ Going(j)' <=> Going(j)
                                    /\ busy'[scope][j] = busy[scope][j]
         /\ busy'[scope][i] = busy[scope][i] - 1
         /\ Head(p.removals[scope][i]) # "item" => (Going(i) => Going(i)')
  <1> DEFINE q == p.removals
             t == Tail(q[scope][i])
  <1>1. q \in RemovalQueues /\ scope \in Scopes /\ q[scope][i] \in Seq(Removals) /\ p.patches \in ScopeIds
    BY Typed, PassFields DEF RemovalQueues
  <1>2. p'.removals = [q EXCEPT ![scope][i] = t] /\ PassKept
    BY Typed, Zenon DEF RemovalDone, Pass, PassKept
  <1>3. \A j \in Ids : p'.removals[scope][j] = IF j = i THEN t ELSE q[scope][j]
    <2>1. ASSUME NEW j \in Ids PROVE p'.removals[scope][j] = IF j = i THEN t ELSE q[scope][j]
      <3> HIDE DEF t, q
      <3>1. [q EXCEPT ![scope][i] = t][scope][j] = IF j = i THEN t ELSE q[scope][j]
        BY <1>1, Zenon DEF RemovalQueues
      <3>2. QED
        BY <1>2, <3>1
    <2>2. QED
      BY <2>1
  <1>4. OwedKept /\ (Live(i) => i \in owed'.ids) /\ owed'.removals = owed.removals
    <2>1. CASE AddedBack(scope, i)
      <3>1. owed' = [owed EXCEPT !.ids = @ \cup {i}, !.index = TRUE]
        BY <2>1 DEF RemovalDone
      <3>2. QED
        BY <3>1, Typed, Zenon DEF OwedKept, Owed
    <2>2. CASE ~AddedBack(scope, i)
      BY <2>2, Zenon DEF RemovalDone, OwedKept, AddedBack
    <2>3. QED
      BY <2>1, <2>2
  <1>5. /\ \A j \in Ids : j # i => busy'[scope][j] = busy[scope][j]
        /\ busy'[scope][i] = busy[scope][i] - 1
    BY <1>1, Typed, Zenon DEF RemovalDone
  <1>6. \A j \in Ids : j # i => (Going(j)' <=> Going(j))
    BY <1>3, <1>4, Zenon DEF Going
  <1>7. Head(q[scope][i]) # "item" => (Going(i) => Going(i)')
    <2>1. Has(q[scope][i], "item") /\ Head(q[scope][i]) # "item" => Has(t, "item")
      BY <1>1, TailHas
    <2> HIDE DEF t
    <2>2. QED
      BY <1>3, <1>4, <2>1, Zenon DEF Going
  <1>8. QED
    BY <1>2, <1>3, <1>4, <1>5, <1>6, <1>7

(* A removal is held back: it goes on, for every id. *)
LEMMA HeldKeeps ==
  ASSUME IInv, NEW i \in Ids, HoldBack(scope, i), UNCHANGED <<scope, items>>
  PROVE  /\ PassKept /\ OwedKept
         /\ \A j \in Ids : Going(j) => Going(j)'
         /\ UNCHANGED busy
  <1> DEFINE q == p.removals
             r == owed.removals
             t == q[scope][i] \o r[scope][i]
  <1>1. /\ q \in RemovalQueues /\ r \in RemovalQueues /\ scope \in Scopes
        /\ q[scope][i] \in Seq(Removals) /\ r[scope][i] \in Seq(Removals)
    BY Typed, PassFields, OwedFields DEF RemovalQueues
  <1>2. /\ p'.removals = [q EXCEPT ![scope][i] = <<>>] /\ PassKept
        /\ owed'.removals = [r EXCEPT ![scope][i] = t] /\ OwedKept
    BY Typed, Zenon DEF HoldBack, Pass, PassKept, Owed, OwedKept
  <1>3. ASSUME NEW j \in Ids
        PROVE  /\ p'.removals[scope][j] = IF j = i THEN <<>> ELSE q[scope][j]
               /\ owed'.removals[scope][j] = IF j = i THEN t ELSE r[scope][j]
    <2> HIDE DEF t, q, r
    <2>1. [q EXCEPT ![scope][i] = <<>>][scope][j] = IF j = i THEN <<>> ELSE q[scope][j]
      BY <1>1, Zenon DEF RemovalQueues
    <2>2. [r EXCEPT ![scope][i] = t][scope][j] = IF j = i THEN t ELSE r[scope][j]
      BY <1>1, Zenon DEF RemovalQueues
    <2>3. QED
      BY <1>2, <2>1, <2>2
  <1>4. Has(q[scope][i], "item") \/ Has(r[scope][i], "item") => Has(t, "item")
    BY <1>1, ConcatHas
  <1>5. \A j \in Ids : Going(j) => Going(j)'
    <2> HIDE DEF t
    <2>1. QED
      BY <1>3, <1>4, Zenon DEF Going
  <1>6. UNCHANGED busy
    BY DEF HoldBack
  <1>7. QED
    BY <1>2, <1>3, <1>5, <1>6

(* The files of an id have been seen to: they are gone and no transfer of it is about to add to *)
(* them, or it is known that they were left.                                                     *)
Seen(i) ==
    /\ \A j \in Ids : /\ j # i => bytes'[scope][j] = bytes[scope][j]
                      /\ j # i => (j \in leftover'[scope] <=> j \in leftover[scope])
                      /\ Fetches(j)' => Fetches(j) /\ xfer'.src = xfer.src
    /\ i \in leftover'[scope] \/ (bytes'[scope][i] = NoBytes /\ ~Fetches(i)')

LEMMA FilesSeenTo ==
  ASSUME IInv, IInv', OneInv, NEW i \in Ids, Cleared(scope, i) \/ LeftThere(scope, i)
  PROVE  Seen(i)
  <1>1. scope \in Scopes /\ (xfer # NoXfer => xfer \in Transfer /\ xfer.scope = scope)
    BY Sole, Typed DEF OneInv
  <1>2. Fetching(scope, i) <=> Fetches(i)
    BY <1>1 DEF Fetching, Fetches
  <1>3. CASE Cleared(scope, i)
    <2>1. \A j \in Ids : bytes'[scope][j] = IF j = i THEN NoBytes ELSE bytes[scope][j]
      BY <1>1, <1>3, Typed, Zenon DEF Cleared
    <2>2. \A j \in Ids : j # i => (j \in leftover'[scope] <=> j \in leftover[scope])
      BY <1>1, <1>3, Typed, Zenon DEF Cleared, ScopeIds
    <2>3. CASE Fetches(i)
      <3>1. xfer' = [xfer EXCEPT !.phase = "cut"] /\ xfer \in Transfer
        BY <1>1, <1>2, <1>3, <2>3 DEF Cleared, Fetches
      <3>2. xfer'.phase = "cut"
        BY <3>1, Zenon DEF Transfer
      <3>3. \A j \in Ids : ~Fetches(j)'
        BY <3>2 DEF Fetches
      <3>4. QED
        BY <2>1, <2>2, <3>3 DEF Seen
    <2>4. CASE ~Fetches(i)
      <3>1. xfer' = xfer
        BY <1>2, <1>3, <2>4 DEF Cleared
      <3>2. QED
        BY <2>1, <2>2, <2>4, <3>1 DEF Seen, Fetches
    <2>5. QED
      BY <2>3, <2>4
  <1>4. CASE LeftThere(scope, i)
    <2>1. UNCHANGED <<bytes, xfer>> /\ \A j \in Ids : Fetches(j)' <=> Fetches(j)
      BY <1>4 DEF LeftThere, Fetches
    <2>2. /\ \A j \in Ids : j # i => (j \in leftover'[scope] <=> j \in leftover[scope])
          /\ bytes[scope][i] # NoBytes \/ Fetches(i) => i \in leftover'[scope]
      BY <1>1, <1>2, <1>4, Typed, Zenon DEF LeftThere, ScopeIds
    <2>3. QED
      BY <2>1, <2>2 DEF Seen
  <1>5. QED
    BY <1>3, <1>4

LEMMA SeenFiles ==
  ASSUME Files, NEW i \in Ids, Seen(i), UNCHANGED <<scope, items>>,
         \A j \in Ids : j # i /\ Awaits(j) => Awaits(j)'
  PROVE  Files'
  <1>1. ASSUME NEW j \in Ids PROVE Awaits(j)' \/ Good(j)' \/ j \in leftover'[scope]
    <2>1. CASE j = i
      BY <2>1 DEF Seen, Good
    <2>2. CASE j # i
      BY <2>2 DEF Files, Seen, Good, Live
    <2>3. QED
      BY <2>1, <2>2
  <1>2. QED
    BY <1>1 DEF Files

LEMMA OneRemoveBytes ==
  ASSUME IInv, IInv', OneInv, NEW s \in Scopes, NEW i \in Ids, RemoveBytes(s, i) PROVE OneInv'
  <1>1. /\ s = scope /\ p.on /\ job.op = "none" /\ p.removals[scope][i] # <<>>
        /\ UNCHANGED <<scope, items, loading, fresh, indexedIds, deleteRequested,
                       reconciled, manifest, index, away, history>>
    BY Sole DEF OneInv, RemoveBytes, AtRemovals, Idle, memory
  <1>2. \A j \in Ids : (Live(j)' <=> Live(j)) /\ (Live(j) => KeepsSource(j))
    BY <1>1 DEF Live, KeepsSource
  <1>3. NoResurrection'
    BY <1>1, <1>2, NoneNew DEF OneInv
  <1>4. CASE /\ Head(p.removals[scope][i]) = "item"
             /\ Cleared(scope, i) \/ LeftThere(scope, i)
             /\ job' = [NoJob EXCEPT !.op = "unlink", !.scope = scope, !.id = i]
             /\ UNCHANGED <<p, owed, busy>>
    <2>1. job'.op = "unlink" /\ job'.id = i
      BY <1>1, <1>4, Typed, NoJobType, Zenon DEF Job
    <2>2. PassKept /\ OwedKept
      BY <1>4 DEF PassKept, OwedKept
    <2>3. Quiet' /\ Working' /\ Loads'
      BY <1>1, <2>1, <2>2, ThreadStep DEF OneInv
    <2>4. \A j \in Ids : Going(j)' <=> Going(j)
      BY <1>1, <1>4, GoingSame
    <2>5. Owned' /\ Writing'
      BY <1>1, <1>2, <2>1, <2>4, Typed, ManifestFrame DEF OneInv
    <2>6. Unlinking'
      BY <1>1, <1>4, <2>1, Zenon DEF Unlinking
    <2>7. Files'
      <3>1. \A j \in Ids : j # i /\ Awaits(j) => Awaits(j)'
        BY <1>1, <1>4, <2>1, Zenon DEF Awaits, Unlinks
      <3>2. QED
        BY <1>1, <1>4, <3>1, FilesSeenTo, SeenFiles DEF OneInv
    <2>10. Written' /\ Latest'
      <3>1. \A j \in Ids : Untouched(j)
        BY <1>1, <1>4, <2>4, Zenon DEF Untouched, Pending, Asked
      <3>2. QED
        BY <1>1, <3>1, SavedFrame DEF OneInv
    <2>11. IndexRight'
      BY <1>1, <2>2, IndexStep DEF OneInv
    <2>12. QED
      BY <1>3, <2>3, <2>5, <2>6, <2>7, <2>10, <2>11 DEF OneInv, OneLibrary
  <1>5. CASE /\ Head(p.removals[scope][i]) # "item"
             /\ Cleared(scope, i)
             /\ RemovalDone(scope, i) /\ UNCHANGED job
    <2>1. /\ PassKept /\ OwedKept
          /\ owed'.removals = owed.removals
          /\ \A j \in Ids : j # i => /\ Going(j)' <=> Going(j)
                                     /\ busy'[scope][j] = busy[scope][j]
          /\ Going(i) => Going(i)'
      BY <1>1, <1>5, DoneKeeps
    <2>2. Quiet' /\ Working' /\ Loads'
      BY <1>1, <1>5, <2>1, ThreadStep DEF OneInv
    <2>3. \A j \in Ids : Going(j) => Going(j)'
      BY <2>1
    <2>4. Owned' /\ Writing'
      BY <1>1, <1>2, <1>5, <2>3, Typed, ManifestFrame DEF OneInv
    <2>5. Unlinking'
      BY <1>1, <1>5 DEF Unlinking
    <2>6. Files'
      <3>1. \A j \in Ids : j # i /\ Awaits(j) => Awaits(j)'
        BY <1>1, <1>5, <2>1, Zenon DEF Awaits, Unlinks
      <3>2. QED
        BY <1>1, <1>5, <3>1, FilesSeenTo, SeenFiles DEF OneInv
    <2>9. Written' /\ Latest'
      <3>1. \A j \in Ids : Untouched(j)
        BY <1>1, <2>1, <2>3, Zenon DEF Untouched, Pending, Asked, PassKept, OwedKept
      <3>2. QED
        BY <1>1, <3>1, SavedFrame DEF OneInv
    <2>10. IndexRight'
      BY <1>1, <2>1, IndexStep DEF OneInv
    <2>11. QED
      BY <1>3, <2>2, <2>4, <2>5, <2>6, <2>9, <2>10 DEF OneInv, OneLibrary
  <1>6. CASE HoldBack(scope, i) /\ UNCHANGED <<bytes, leftover, xfer, job>>
    <2>1. /\ PassKept /\ OwedKept /\ UNCHANGED busy
          /\ \A j \in Ids : Going(j) => Going(j)'
      BY <1>1, <1>6, HeldKeeps
    <2>2. Quiet' /\ Working' /\ Loads'
      BY <1>1, <1>6, <2>1, ThreadStep DEF OneInv
    <2>3. Owned' /\ Writing'
      BY <1>1, <1>2, <1>6, <2>1, Typed, ManifestFrame DEF OneInv
    <2>4. Unlinking' /\ Files'
      <3>1. \A j \in Ids : Awaits(j) => Awaits(j)'
        BY <1>1, <1>6, <2>1, Typed, StillAwaited
      <3>2. QED
        BY <1>1, <1>2, <1>6, <3>1, SameFetch, FilesFrame DEF OneInv
    <2>5. Written' /\ Latest'
      <3>1. \A j \in Ids : Untouched(j)
        BY <1>1, <2>1, Zenon DEF Untouched, Pending, Asked, PassKept, OwedKept
      <3>2. QED
        BY <1>1, <3>1, SavedFrame DEF OneInv
    <2>6. IndexRight'
      BY <1>1, <2>1, IndexStep DEF OneInv
    <2>7. QED
      BY <1>3, <2>2, <2>3, <2>4, <2>5, <2>6 DEF OneInv, OneLibrary
  <1>7. QED
    BY <1>1, <1>4, <1>5, <1>6 DEF RemoveBytes

LEMMA OneRemoveManifest == ASSUME IInv, IInv', OneInv, RemoveManifest PROVE OneInv'
  <1>1. /\ job.op = "unlink" /\ job.scope = scope /\ job' = NoJob
        /\ UNCHANGED <<scope, items, loading, fresh, indexedIds, deleteRequested,
                       xfer, reconciled, index, bytes, away, leftover, history>>
    BY Sole DEF OneInv, RemoveManifest, memory
  <1>2. PICK i \in Ids : i = job.id
    BY Typed, Zenon DEF Job
  <1>3. p.on /\ p.removals[scope][i] # <<>> /\ Head(p.removals[scope][i]) = "item"
    BY <1>1, <1>2 DEF OneInv, Working, Unlinking, IInv, QueuesOK
  <1>4. job'.op = "none"
    BY <1>1 DEF NoJob
  <1>5. \A j \in Ids : (Live(j)' <=> Live(j)) /\ (Live(j) => KeepsSource(j))
    BY <1>1 DEF Live, KeepsSource
  <1>6. NoResurrection'
    BY <1>1, <1>5, NoneNew DEF OneInv
  <1>7. \A j \in Ids : j # i => manifest'[scope][j] = manifest[scope][j]
    <2>1. CASE manifest' = [manifest EXCEPT ![scope][i] = NoItem]
      BY <2>1, Typed, Zenon DEF Library
    <2>2. CASE UNCHANGED manifest
      BY <2>2
    <2>3. QED
      BY <1>1, <1>2, <2>1, <2>2, Zenon DEF RemoveManifest
  <1>8. CASE RemovalDone(scope, i) /\ manifest' = [manifest EXCEPT ![scope][i] = NoItem]
    <2>1. /\ PassKept /\ OwedKept /\ (Live(i) => i \in owed'.ids)
          /\ \A j \in Ids : j # i => /\ Going(j)' <=> Going(j)
                                     /\ busy'[scope][j] = busy[scope][j]
          /\ busy'[scope][i] = busy[scope][i] - 1
      BY <1>1, <1>3, <1>8, DoneKeeps
    <2>2. Quiet' /\ Working' /\ Loads'
      BY <1>1, <1>3, <1>4, <2>1, ThreadStep DEF OneInv
    <2>3. manifest'[scope][i] = NoItem
      BY <1>8, Typed, Zenon DEF Library
    <2>4. Owned' /\ Writing'
      <3>1. Owned'
        <4>1. ASSUME NEW j \in Ids, manifest'[scope][j] # NoItem PROVE Live(j)' \/ Going(j)'
          BY <1>5, <1>7, <2>1, <2>3, <4>1 DEF OneInv, Owned
        <4>2. QED
          BY <1>1, <4>1, Zenon DEF Owned
      <3>2. QED
        BY <1>4, <3>1 DEF Writing
    <2>5. ASSUME NEW j \in Ids, Awaits(j) PROVE Awaits(j)'
      <3>1. ~Unlinks(j)' /\ (Unlinks(j) <=> j = i) /\ busy[scope][j] \in Nat /\ busy[scope][i] \in Nat
        BY <1>1, <1>2, <1>4, Typed DEF Unlinks
      <3>2. QED
        BY <1>1, <2>1, <2>5, <3>1, SMT DEF Awaits
    <2>6. Unlinking' /\ Files'
      BY <1>1, <1>4, <1>5, <2>5, SameFetch, FilesFrame DEF OneInv
    <2>8. Written' /\ Latest'
      <3>1. ASSUME NEW j \in Ids, Live(j)' PROVE Untouched(j) \/ Pending(j)'
        <4>1. CASE j = i
          BY <1>5, <2>1, <3>1, <4>1, Zenon DEF Pending, Asked
        <4>2. CASE j # i
          BY <1>1, <1>7, <2>1, <4>2, Zenon DEF Untouched, Pending, Asked, PassKept, OwedKept
        <4>3. QED
          BY <4>1, <4>2
      <3>2. QED
        BY <1>1, <3>1, SavedFrame DEF OneInv
    <2>9. IndexRight'
      BY <1>1, <2>1, IndexStep DEF OneInv
    <2>10. QED
      BY <1>6, <2>2, <2>4, <2>6, <2>8, <2>9 DEF OneInv, OneLibrary
  <1>9. CASE HoldBack(scope, i)
    <2>1. /\ PassKept /\ OwedKept /\ UNCHANGED busy
          /\ \A j \in Ids : Going(j) => Going(j)'
      BY <1>1, <1>9, HeldKeeps
    <2>2. Quiet' /\ Working' /\ Loads'
      BY <1>1, <1>3, <1>4, <2>1, ThreadStep DEF OneInv
    <2>3. Going(i)'
      <3>1. p.removals[scope][i] \in Seq(Removals)
        BY Typed, PassFields DEF RemovalQueues
      <3>2. Has(p.removals[scope][i], "item")
        BY <1>3, <3>1, SMT DEF Has
      <3>3. QED
        BY <2>1, <3>2 DEF Going
    <2>4. Owned' /\ Writing'
      <3>1. Owned'
        <4>1. ASSUME NEW j \in Ids, manifest'[scope][j] # NoItem PROVE Live(j)' \/ Going(j)'
          <5>1. CASE j = i
            BY <2>3, <5>1
          <5>2. CASE j # i
            BY <1>5, <1>7, <2>1, <4>1, <5>2 DEF OneInv, Owned
          <5>3. QED
            BY <5>1, <5>2
        <4>2. QED
          BY <1>1, <4>1, Zenon DEF Owned
      <3>2. QED
        BY <1>4, <3>1 DEF Writing
    <2>5. Unlinking' /\ Files'
      <3>1. \A j \in Ids : Awaits(j) => Awaits(j)'
        BY <1>1, <1>4, <2>1, Typed, StillAwaited
      <3>2. QED
        BY <1>1, <1>4, <1>5, <3>1, SameFetch, FilesFrame DEF OneInv
    <2>6. Written' /\ Latest'
      <3>1. ASSUME NEW j \in Ids PROVE Untouched(j) \/ Pending(j)'
        <4>1. CASE j = i
          BY <2>3, <4>1 DEF Pending
        <4>2. CASE j # i
          BY <1>1, <1>7, <2>1, <4>2, Zenon DEF Untouched, Pending, Asked, PassKept, OwedKept
        <4>3. QED
          BY <4>1, <4>2
      <3>2. QED
        BY <1>1, <3>1, SavedFrame DEF OneInv
    <2>7. IndexRight'
      BY <1>1, <2>1, IndexStep DEF OneInv
    <2>8. QED
      BY <1>6, <2>2, <2>4, <2>5, <2>6, <2>7 DEF OneInv, OneLibrary
  <1>10. QED
    BY <1>1, <1>2, <1>8, <1>9, Zenon DEF RemoveManifest

(* Steps that leave the items, the files and the removals as they are. *)
LEMMA OneBookkeeping ==
  ASSUME IInv, OneInv,
         UNCHANGED <<scope, items, deleteRequested, busy, xfer, bytes, leftover, history>>,
         owed'.removals = owed.removals, p'.removals = p.removals,
         job'.op = "unlink" => job' = job
  PROVE  /\ Unlinking' /\ Files' /\ NoResurrection'
         /\ \A j \in Ids : (Live(j)' <=> Live(j)) /\ (Going(j)' <=> Going(j))
  <1>1. \A j \in Ids : (Live(j)' <=> Live(j)) /\ (Live(j) => KeepsSource(j))
    BY DEF Live, KeepsSource
  <1>2. \A j \in Ids : Awaits(j) => Awaits(j)'
    BY Typed, StillAwaited
  <1>3. Unlinking' /\ Files'
    BY <1>1, <1>2, SameFetch, FilesFrame DEF OneInv
  <1>4. NoResurrection'
    BY <1>1, NoneNew DEF OneInv
  <1>5. QED
    BY <1>1, <1>3, <1>4, GoingSame

(* Among them those that leave the manifests alone and forget nobody who asked. *)
LEMMA OneNothingWritten ==
  ASSUME IInv, OneInv,
         UNCHANGED <<scope, items, indexedIds, reconciled, manifest>>,
         owed'.removals = owed.removals, p'.removals = p.removals,
         \A j \in Ids : Asked(j) /\ Live(j) => Asked(j)',
         job'.op = "manifest" => job' = job
  PROVE  Owned' /\ Writing' /\ Written' /\ Latest'
  <1>1. \A j \in Ids : (Live(j)' <=> Live(j)) /\ (Going(j)' <=> Going(j))
    BY GoingSame DEF Live
  <1>2. Owned' /\ Writing'
    BY <1>1, Typed, ManifestFrame DEF OneInv
  <1>3. \A j \in Ids : Live(j)' => Untouched(j)
    BY <1>1, Zenon DEF Untouched, Pending
  <1>4. QED
    BY <1>2, <1>3, SavedFrame DEF OneInv

LEMMA OnePatchIndex ==
  ASSUME IInv, IInv', OneInv, NEW s \in Scopes, PatchIndex(s) PROVE OneInv'
  <1>1. /\ s = scope /\ p.on /\ job.op = "none"
        /\ UNCHANGED <<scope, items, loading, fresh, indexedIds, deleteRequested, busy,
                       job, xfer, reconciled, manifest, bytes, away, leftover, history>>
    BY Sole DEF OneInv, PatchIndex, AtPatches, AtRemovals, Idle, memory
  <1>2. /\ p'.on = p.on /\ p'.finals = p.finals /\ p'.retryFinals = p.retryFinals
        /\ p'.ids = p.ids /\ p'.retryIds = p.retryIds /\ p'.removals = p.removals
        /\ p.index => p'.index
        /\ p'.retryIndex = p.retryIndex /\ p'.load = p.load /\ p'.loaded = p.loaded
    <2>1. CASE p' = [p EXCEPT !.patches[s] = {}, !.index = TRUE]
      BY <2>1, Typed, Zenon DEF Pass
    <2>2. CASE p' = [p EXCEPT !.patches[s] = {}]
      BY <2>2, Typed, Zenon DEF Pass
    <2>3. QED
      BY <2>1, <2>2 DEF PatchIndex
  <1>3. /\ owed'.ids = owed.ids /\ owed'.finals = owed.finals /\ owed'.removals = owed.removals
        /\ owed'.load = owed.load /\ owed'.index = owed.index
    <2>1. CASE UNCHANGED owed
      BY <2>1
    <2>2. CASE owed' = [owed EXCEPT !.patches[s] = @ \cup p.patches[s]]
      BY <2>2, Typed, Zenon DEF Owed
    <2>3. QED
      BY <2>1, <2>2 DEF PatchIndex
  <1>4. Quiet' /\ Working' /\ Loads'
    BY <1>1, <1>2, <1>3, Zenon DEF OneInv, Quiet, Working, Loads, IdsOf
  <1>5. Unlinking' /\ Files' /\ NoResurrection'
    BY <1>1, <1>2, <1>3, OneBookkeeping
  <1>6. Owned' /\ Writing' /\ Written' /\ Latest'
    BY <1>1, <1>2, <1>3, OneNothingWritten DEF Asked
  <1>7. IndexRight'
    <2>1. CASE loading
      BY <1>1, <2>1 DEF IndexRight
    <2>2. CASE ~loading
      <3>1. UNCHANGED index
        BY <1>1, <2>2 DEF PatchIndex
      <3>2. QED
        BY <1>1, <1>2, <1>3, <3>1, IndexFrame DEF OneInv
    <2>3. QED
      BY <2>1, <2>2
  <1>8. QED
    BY <1>4, <1>5, <1>6, <1>7 DEF OneInv, OneLibrary

LEMMA OneTakeWork == ASSUME IInv, IInv', OneInv, TakeWork PROVE OneInv'
  <1>1. /\ ~p.on /\ p = IdlePass /\ job.op = "none"
        /\ UNCHANGED <<scope, items, loading, fresh, indexedIds, deleteRequested, busy,
                       job, xfer, reconciled, manifest, index, bytes, away, leftover, history>>
    BY DEF OneInv, Quiet, Working, TakeWork, memory, disk
  <1>2. /\ p'.on /\ p'.finals = owed.finals /\ p'.retryFinals = NoFinals
        /\ p'.ids = owed.ids /\ p'.retryIds = {} /\ p'.removals = owed.removals
        /\ p'.index = owed.index /\ ~p'.retryIndex /\ ~p'.load
    <2>1. IdlePass \in Pass /\ IdlePass.retryFinals = NoFinals /\ IdlePass.retryIds = {}
          /\ ~IdlePass.retryIndex /\ ~IdlePass.load
      BY IdlePassType DEF IdlePass
    <2>2. QED
      BY <2>1, Zenon DEF TakeWork, Pass
  <1>3. /\ p.ids = {} /\ p.retryIds = {} /\ p.removals = NoRemovals /\ ~p.load
        /\ ~p.index /\ ~p.retryIndex
    BY <1>1 DEF IdlePass
  <1>4. /\ owed'.ids = {} /\ owed'.finals = NoFinals /\ owed'.removals = NoRemovals
        /\ owed'.load = owed.load
    <2>1. NothingOwed \in Owed /\ NothingOwed.ids = {} /\ NothingOwed.finals = NoFinals
          /\ NothingOwed.removals = NoRemovals
      BY NothingOwedType DEF NothingOwed
    <2>2. QED
      BY <2>1, Zenon DEF TakeWork, Left, Owed
  <1>5. Quiet' /\ Working' /\ Loads'
    BY <1>1, <1>2, <1>3, <1>4, Zenon DEF OneInv, Quiet, Working, Loads, IdsOf
  <1>7. \A j \in Ids : (Live(j)' <=> Live(j)) /\ (Live(j) => KeepsSource(j))
    BY <1>1 DEF Live, KeepsSource
  <1>8. \A j \in Ids : Going(j)' <=> Going(j)
    BY <1>1, <1>2, <1>3, <1>4, Zenon DEF Going
  <1>9. \A j \in Ids : Awaits(j) => Awaits(j)'
    BY <1>1, Typed, StillAwaited
  <1>10. Unlinking' /\ Files'
    BY <1>1, <1>7, <1>9, SameFetch, FilesFrame DEF OneInv
  <1>11. Owned' /\ Writing'
    BY <1>1, <1>7, <1>8, Typed, ManifestFrame DEF OneInv
  <1>12. Written' /\ Latest'
    <2>1. \A j \in Ids : Untouched(j)
      BY <1>1, <1>2, <1>3, <1>8, Zenon DEF Untouched, Pending, Asked
    <2>2. QED
      BY <1>1, <2>1, SavedFrame DEF OneInv
  <1>13. IndexRight'
    BY <1>1, <1>2, <1>3, Zenon DEF OneInv, IndexRight
  <1>14. NoResurrection'
    BY <1>1, <1>7, NoneNew DEF OneInv
  <1>15. QED
    BY <1>5, <1>10, <1>11, <1>12, <1>13, <1>14 DEF OneInv, OneLibrary

LEMMA OneTakeLoads == ASSUME IInv, IInv', OneInv, TakeLoads PROVE OneInv'
  <1>1. /\ p.on /\ ~p.loaded /\ ~p.load /\ job.op = "none"
        /\ UNCHANGED <<scope, items, loading, fresh, indexedIds, deleteRequested, busy,
                       job, xfer, reconciled, manifest, index, bytes, away, leftover, history>>
    BY DEF OneInv, Loads, TakeLoads, AtLoads, AtPatches, AtRemovals, Idle, memory, disk
  <1>2. /\ p'.on = p.on /\ p'.finals = p.finals /\ p'.retryFinals = NoFinals
        /\ p'.ids = p.ids /\ p'.retryIds = p.retryIds /\ p'.removals = p.removals
        /\ p'.index = p.index /\ p'.retryIndex = p.retryIndex
        /\ p'.load = owed.load /\ p'.loaded
    BY Typed, Zenon DEF TakeLoads, Pass
  <1>3. /\ owed'.ids = owed.ids /\ owed'.removals = owed.removals /\ owed'.index = owed.index
        /\ owed'.finals = [s \in Scopes |-> p.retryFinals[s] \o owed.finals[s]]
    BY Typed, Zenon DEF TakeLoads, Owed
  <1>4. owed'.finals = NoFinals
    <2>1. p.retryFinals = NoFinals /\ owed.finals = NoFinals
      BY DEF OneInv, Quiet
    <2>2. \A s \in Scopes : NoFinals[s] = <<>>
      BY DEF NoFinals
    <2>3. <<>> \o <<>> = <<>>
      BY SMT
    <2>4. QED
      BY <1>3, <2>1, <2>2, <2>3 DEF NoFinals
  <1>5. Quiet' /\ Working' /\ Loads'
    BY <1>1, <1>2, <1>4, Zenon DEF OneInv, Quiet, Working, Loads, IdsOf
  <1>6. Unlinking' /\ Files' /\ NoResurrection'
    BY <1>1, <1>2, <1>3, OneBookkeeping
  <1>7. Owned' /\ Writing' /\ Written' /\ Latest'
    BY <1>1, <1>2, <1>3, OneNothingWritten DEF Asked
  <1>8. IndexRight'
    BY <1>1, <1>2, <1>3, IndexFrame DEF OneInv
  <1>9. QED
    BY <1>5, <1>6, <1>7, <1>8 DEF OneInv, OneLibrary

(* No account is left, so no final write is owed. *)
LEMMA NoFinalWrites ==
  ASSUME OneInv, NEW s \in Scopes PROVE ~AtFinals(s)
  BY DEF OneInv, Quiet, AtFinals, NoFinals

LEMMA OneRunLoad == ASSUME IInv, IInv', OneInv, RunLoad PROVE OneInv'
  <1> DEFINE mine     == owed.finals[scope]
             have     == mine # <<>>
             complete == \A n \in 1..Len(mine) : mine[n].complete
             pending  == IF have THEN mine[Len(mine)].items ELSE Empty
             read     == ~(have /\ complete)
             found    == [i \in Ids |-> IF pending[i] # NoItem THEN pending[i]
                                        ELSE IF read THEN ReadItems(scope)[i] ELSE NoItem]
  <1>1. scope \in Scopes /\ owed.finals = NoFinals /\ ~have
    BY Typed DEF OneInv, Quiet, NoFinals
  <1>2. pending = Empty
    BY <1>1
  <1>3. \/ /\ items' = Merged(found)
           /\ indexedIds' = indexedIds \cup (MergedIds(found) \ IdsOf(pending))
           /\ loading' = FALSE
           /\ owed' = [owed EXCEPT !.finals[scope] = <<>>,
                                   !.ids = @ \cup (MergedIds(found) \cap IdsOf(pending)),
                                   !.rescanAll = TRUE, !.index = TRUE]
        \/ /\ owed' = [owed EXCEPT !.load = TRUE]
           /\ UNCHANGED <<items, indexedIds, loading, fresh, lateScan>>
    BY Zenon DEF RunLoad
  <1>4. MergedIds(found) = {} /\ Merged(found) = items
    <2>1. \A i \in Ids : pending[i] = NoItem
      BY <1>2 DEF Empty
    <2>2. \A i \in Ids : ReadItems(scope)[i] = manifest[scope][i] \/ ReadItems(scope)[i] = NoItem
      BY Zenon DEF ReadItems
    <2> HIDE DEF pending, read
    <2>3. \A i \in Ids : found[i] = manifest[scope][i] \/ found[i] = NoItem
      BY <2>1, <2>2, Zenon
    <2>4. \A i \in Ids : manifest[scope][i] \in Item \cup {NoItem}
      BY <1>1, Typed DEF Library
    <2>5. found \in [Ids -> Item \cup {NoItem}]
      BY <2>1, <2>2, <2>4
    <2> HIDE DEF found
    <2>6. QED
      BY <2>3, <2>5, NothingMerged DEF OneInv, Library
  <1> HIDE DEF found, pending, read, have, complete, mine
  <1>5. /\ p.on /\ p.loaded /\ p.load /\ job.op = "none"
        /\ UNCHANGED <<scope, deleteRequested, busy, job, xfer, reconciled,
                       manifest, index, bytes, away, leftover, history>>
        /\ p' = [p EXCEPT !.load = FALSE]
    BY Zenon DEF RunLoad, AtLoads, AtPatches, AtRemovals, Idle, disk
  <1>6. UNCHANGED <<items, indexedIds>>
    BY <1>3, <1>4
  <1>7. /\ owed'.ids = owed.ids /\ owed'.finals = NoFinals /\ owed'.removals = owed.removals
        /\ owed.index => owed'.index
        /\ \/ loading' = FALSE /\ owed'.index
           \/ owed'.load /\ UNCHANGED <<loading, fresh>>
    <2>1. CASE owed' = [owed EXCEPT !.load = TRUE] /\ UNCHANGED <<loading, fresh>>
      BY <1>1, <2>1, Typed, Zenon DEF Owed
    <2>2. CASE /\ loading' = FALSE
               /\ owed' = [owed EXCEPT !.finals[scope] = <<>>,
                                   !.ids = @ \cup (MergedIds(found) \cap IdsOf(pending)),
                                   !.rescanAll = TRUE, !.index = TRUE]
      <3>1. owed'.finals = [NoFinals EXCEPT ![scope] = <<>>] /\ owed'.index
            /\ owed'.removals = owed.removals
            /\ owed'.ids = owed.ids \cup (MergedIds(found) \cap IdsOf(pending))
        BY <1>1, <2>2, Typed, Zenon DEF Owed
      <3>2. [NoFinals EXCEPT ![scope] = <<>>] = NoFinals
        BY DEF NoFinals
      <3>3. QED
        BY <1>4, <2>2, <3>1, <3>2
    <2>3. QED
      BY <1>3, <2>1, <2>2
  <1>8. /\ p'.on = p.on /\ p'.finals = p.finals /\ p'.retryFinals = p.retryFinals
        /\ p'.ids = p.ids /\ p'.retryIds = p.retryIds /\ p'.removals = p.removals
        /\ p'.index = p.index /\ p'.retryIndex = p.retryIndex
        /\ ~p'.load
    BY <1>5, Typed, Zenon DEF Pass
  <1>9. Quiet' /\ Working' /\ Loads'
    BY <1>1, <1>5, <1>6, <1>7, <1>8, Zenon DEF OneInv, Quiet, Working, Loads, IdsOf
  <1>10. Unlinking' /\ Files' /\ NoResurrection'
    BY <1>5, <1>6, <1>7, <1>8, OneBookkeeping
  <1>11. Owned' /\ Writing' /\ Written' /\ Latest'
    BY <1>5, <1>6, <1>7, <1>8, OneNothingWritten DEF Asked
  <1>12. IndexRight'
    BY <1>5, <1>6, <1>7, <1>8, IndexFrame DEF IndexRight, OneInv
  <1>13. QED
    BY <1>9, <1>10, <1>11, <1>12 DEF OneInv, OneLibrary

LEMMA OneRescanCopy == ASSUME IInv, IInv', OneInv, NEW i \in Ids, RescanCopy(i) PROVE OneInv'
  <1>1. /\ p.on /\ UNCHANGED <<scope, items, loading, fresh, indexedIds, deleteRequested, owed, busy,
                               xfer, reconciled, manifest, index, bytes, away, leftover, history>>
    BY DEF RescanCopy, AtRescans, AtLoads, AtPatches, AtRemovals, memory, disk
  <1>2. PassKept /\ p'.removals = p.removals
    BY Typed, Zenon DEF RescanCopy, Pass, PassKept
  <1>3. job'.op \in {"none", "rescan"}
    <2>1. NoJob \in Job /\ NoJob.op = "none"
      BY NoJobType DEF NoJob
    <2>2. [NoJob EXCEPT !.op = "rescan", !.id = i, !.item = items[i]].op = "rescan"
      BY <2>1, Zenon DEF Job
    <2>3. QED
      BY <2>1, <2>2 DEF RescanCopy
  <1>4. OwedKept
    BY <1>1 DEF OwedKept
  <1>5. Quiet' /\ Working' /\ Loads' /\ IndexRight'
    BY <1>1, <1>2, <1>3, <1>4, ThreadStep, IndexStep DEF OneInv
  <1>6. Unlinking' /\ Files' /\ NoResurrection'
    BY <1>1, <1>2, <1>3, OneBookkeeping
  <1>7. Owned' /\ Writing' /\ Written' /\ Latest'
    BY <1>1, <1>2, <1>3, OneNothingWritten DEF Asked, PassKept
  <1>8. QED
    BY <1>5, <1>6, <1>7 DEF OneInv, OneLibrary

LEMMA OneRescanRead == ASSUME IInv, IInv', OneInv, RescanRead PROVE OneInv'
  <1>1. /\ p.on /\ UNCHANGED <<scope, items, loading, fresh, indexedIds, deleteRequested, owed, busy,
                               p, xfer, reconciled, manifest, index, bytes, away, leftover, history>>
    BY DEF OneInv, Working, RescanRead, memory, disk
  <1>2. job'.op = "scanned"
    BY Typed, Zenon DEF RescanRead, Job
  <1>3. OwedKept /\ PassKept
    BY <1>1 DEF OwedKept, PassKept
  <1>4. Quiet' /\ Working' /\ Loads' /\ IndexRight'
    BY <1>1, <1>2, <1>3, ThreadStep, IndexStep DEF OneInv
  <1>5. Unlinking' /\ Files' /\ NoResurrection'
    BY <1>1, <1>2, OneBookkeeping
  <1>6. Owned' /\ Writing' /\ Written' /\ Latest'
    BY <1>1, <1>2, OneNothingWritten DEF Asked
  <1>7. QED
    BY <1>4, <1>5, <1>6 DEF OneInv, OneLibrary

(* A step that ends the rescan of an item, as it leaves everything but that item. *)
LEMMA OneJobEnds ==
  ASSUME IInv, OneInv, job.op = "scanned", job' = NoJob,
         UNCHANGED <<scope, items, loading, fresh, indexedIds, deleteRequested, owed, busy,
                     p, xfer, reconciled, manifest, index, bytes, away, leftover, history>>
  PROVE  OneInv'
  <1>1. p.on
    BY DEF OneInv, Working
  <1>2. job'.op = "none"
    BY DEF NoJob
  <1>3. OwedKept /\ PassKept
    BY DEF OwedKept, PassKept
  <1>4. Quiet' /\ Working' /\ Loads' /\ IndexRight'
    BY <1>1, <1>2, <1>3, ThreadStep, IndexStep DEF OneInv
  <1>5. Unlinking' /\ Files' /\ NoResurrection'
    BY <1>2, OneBookkeeping
  <1>6. Owned' /\ Writing' /\ Written' /\ Latest'
    BY <1>2, OneNothingWritten DEF Asked
  <1>7. QED
    BY <1>4, <1>5, <1>6 DEF OneInv, OneLibrary

LEMMA OneRescanMerge == ASSUME IInv, IInv', OneInv, RescanMerge PROVE OneInv'
  <1>1. /\ job.op = "scanned" /\ job' = NoJob /\ p.on
        /\ UNCHANGED <<scope, loading, fresh, indexedIds, deleteRequested, busy,
                       p, xfer, reconciled, manifest, index, bytes, away, leftover, history>>
    BY DEF OneInv, Working, RescanMerge, disk
  <1>2. CASE UNCHANGED <<items, owed>>
    BY <1>1, <1>2, OneJobEnds
  <1>3. ASSUME NEW i \in Ids, NEW st \in States, Live(i),
               items' = [items EXCEPT ![i].st = st], owed' = [owed EXCEPT !.ids = @ \cup {i}]
        PROVE  OneInv'
    <2> DEFINE it == [items[i] EXCEPT !.st = st]
    <2>1. it \in Item /\ it.src = items[i].src /\ items' = [items EXCEPT ![i] = it]
      BY <1>3, Typed, StateSet
    <2>2. /\ items'[i] = it /\ Live(i)'
          /\ \A j \in Ids : j # i => items'[j] = items[j] /\ (Live(j)' <=> Live(j))
      <3>1. it # NoItem
        BY <2>1, SentinelsAssumption
      <3>2. items \in [Ids -> Item \cup {NoItem}]
        BY Typed DEF Library
      <3> HIDE DEF it
      <3>3. QED
        BY <2>1, <3>1, <3>2, Zenon DEF Live
    <2> HIDE DEF it
    <2>3. AsksFor(i)
      BY <1>3, Typed, AskMore DEF AsksFor
    <2>4. job'.op = "none"
      BY <1>1 DEF NoJob
    <2>5. OwedKept /\ PassKept /\ p'.removals = p.removals
      BY <1>1, <2>3 DEF OwedKept, PassKept, AsksFor
    <2>6. Quiet' /\ Working' /\ Loads'
      <3>1. indexedIds' \subseteq IdsOf(items')
        BY <1>1, <2>2, Zenon DEF OneInv, Loads, IdsOf, Live
      <3>2. QED
        BY <1>1, <2>4, <2>5, <3>1, Zenon DEF OneInv, Quiet, Working, Loads, PassKept, OwedKept
    <2>7. \A j \in Ids : (Going(j)' <=> Going(j))
      BY <1>1, <2>3, GoingSame DEF AsksFor
    <2>8. Owned' /\ Writing'
      BY <1>1, <2>2, <2>4, <2>7, Typed, ManifestFrame DEF OneInv
    <2>9. Unlinking' /\ Files'
      <3>1. \A j \in Ids : Live(j) => KeepsSource(j)
        BY <1>1, <2>1, <2>2 DEF KeepsSource
      <3>2. \A j \in Ids : Awaits(j) => Awaits(j)'
        BY <1>1, <2>4, Typed, StillAwaited
      <3>3. QED
        BY <1>1, <2>4, <3>1, <3>2, SameFetch, FilesFrame DEF OneInv
    <2>10. Written' /\ Latest'
      <3>1. \A j \in Ids : Pending(j) => Pending(j)'
        BY <1>1, <2>3, <2>7 DEF Pending, Asked, AsksFor
      <3>2. Pending(i)'
        BY <2>3 DEF Pending, Asked, AsksFor
      <3>3. \A j \in Ids : j # i => Untouched(j)
        BY <1>1, <2>2, <3>1, Zenon DEF Untouched
      <3>4. QED
        BY <1>1, <3>2, <3>3, SavedFrame DEF OneInv
    <2>11. IndexRight'
      BY <1>1, <2>5, IndexStep DEF OneInv
    <2>12. NoResurrection'
      BY <1>1, <1>3, <2>2, NoneNew DEF OneInv
    <2>13. QED
      BY <2>6, <2>8, <2>9, <2>10, <2>11, <2>12 DEF OneInv, OneLibrary
  <1>4. CASE ~UNCHANGED <<items, owed>>
    <2> DEFINE found == IF job.flag /\ job.item.st # "UpdateAvailable"
                        THEN "Complete" ELSE job.item.st
    <2>1. /\ Rescannable(job.id) /\ items[job.id].st = job.item.st
          /\ items' = [items EXCEPT ![job.id].st = found]
          /\ owed' = [owed EXCEPT !.ids = @ \cup {job.id}]
      BY <1>4 DEF RescanMerge
    <2>2. job.id \in Ids /\ Live(job.id)
      BY <2>1, Typed, Zenon DEF Rescannable, Job
    <2>3. found \in States
      <3>1. items[job.id] \in Item
        BY <2>2, Typed DEF Live, Library
      <3>2. items[job.id].st \in States
        BY <3>1 DEF Item
      <3>3. QED
        BY <2>1, <3>2 DEF States
    <2> HIDE DEF found
    <2>4. QED
      BY <1>3, <2>1, <2>2, <2>3
  <1>5. QED
    BY <1>2, <1>4

LEMMA OnePersistCopy == ASSUME IInv, IInv', OneInv, NEW i \in Ids, PersistCopy(i) PROVE OneInv'
  <1>1. /\ p.on /\ i \in p.ids /\ p.scope = scope
        /\ UNCHANGED <<scope, items, loading, fresh, indexedIds, deleteRequested, owed, busy,
                       xfer, reconciled, manifest, index, bytes, away, leftover, history>>
    BY Sole DEF OneInv, PersistCopy, AtManifests, AtRescans, AtLoads, AtPatches, AtRemovals,
                memory, disk
  <1>2. CASE Live(i)
    <2>1. job' = [job EXCEPT !.op = "manifest", !.id = i, !.item = items[i]] /\ UNCHANGED p
      BY <1>1, <1>2 DEF PersistCopy
    <2>2. job'.op = "manifest" /\ job'.id = i
      BY <2>1, Typed, Zenon DEF Job
    <2>3. Quiet' /\ Working' /\ Loads'
      BY <1>1, <2>1, <2>2, Zenon DEF OneInv, Quiet, Working, Loads, IdsOf
    <2>4. /\ Unlinking' /\ Files' /\ NoResurrection'
          /\ \A j \in Ids : (Live(j)' <=> Live(j)) /\ (Going(j)' <=> Going(j))
      BY <1>1, <2>1, <2>2, OneBookkeeping
    <2>5. Owned'
      BY <1>1, <2>4, Zenon DEF OneInv, Owned
    <2>6. Writing'
      BY <1>1, <1>2, <2>2, Zenon DEF Writing, Live
    <2>7. \A j \in Ids : Untouched(j)
      BY <1>1, <2>1, <2>4, Zenon DEF Untouched, Pending, Asked
    <2>8. Written' /\ Latest'
      BY <1>1, <2>7, SavedFrame DEF OneInv
    <2>9. IndexRight'
      BY <1>1, <2>1, IndexFrame DEF OneInv
    <2>10. QED
      BY <2>3, <2>4, <2>5, <2>6, <2>8, <2>9 DEF OneInv, OneLibrary
  <1>3. CASE ~Live(i)
    <2>1. job' = NoJob /\ p' = [p EXCEPT !.ids = @ \ {i}]
      BY <1>1, <1>3 DEF PersistCopy
    <2>2. job'.op = "none"
      BY <2>1 DEF NoJob
    <2>3. /\ p'.on = p.on /\ p'.finals = p.finals /\ p'.retryFinals = p.retryFinals
          /\ p'.ids = p.ids \ {i} /\ p'.retryIds = p.retryIds /\ p'.removals = p.removals
          /\ p'.index = p.index /\ p'.retryIndex = p.retryIndex
          /\ p'.load = p.load /\ p'.loaded = p.loaded
      BY <2>1, Typed, Zenon DEF Pass
    <2>4. Quiet' /\ Working' /\ Loads'
      BY <1>1, <2>2, <2>3, Zenon DEF OneInv, Quiet, Working, Loads, IdsOf
    <2>5. Unlinking' /\ Files' /\ NoResurrection'
      BY <1>1, <2>2, <2>3, OneBookkeeping
    <2>6. Owned' /\ Writing' /\ Written' /\ Latest'
      <3>1. \A j \in Ids : Asked(j) /\ Live(j) => Asked(j)'
        BY <1>1, <1>3, <2>3 DEF Asked
      <3>2. QED
        BY <1>1, <2>2, <2>3, <3>1, OneNothingWritten
    <2>7. IndexRight'
      BY <1>1, <2>3, IndexFrame DEF OneInv
    <2>8. QED
      BY <2>4, <2>5, <2>6, <2>7 DEF OneInv, OneLibrary
  <1>4. QED
    BY <1>2, <1>3

(* A manifest has been written: its item is asked for again unless it is the one written. *)
LEMMA OneWritten ==
  ASSUME IInv, OneInv, NEW i \in Ids, NEW it \in Item \cup {NoItem}, Live(i) \/ Going(i),
         p.on, job'.op = "none", scope \in Scopes,
         UNCHANGED <<scope, items, loading, fresh, deleteRequested, busy, xfer, reconciled,
                     index, bytes, away, leftover, history>>,
         manifest' = [manifest EXCEPT ![scope][i] = it],
         p'.on, p'.finals = p.finals, p'.retryFinals = p.retryFinals, p'.removals = p.removals,
         p'.retryIds = p.retryIds, p'.load = p.load, p'.loaded = p.loaded,
         p.ids \ {i} \subseteq p'.ids, p.index => p'.index, p'.retryIndex = p.retryIndex,
         owed'.finals = owed.finals, owed'.removals = owed.removals, owed'.load = owed.load,
         owed'.index = owed.index, owed.ids \subseteq owed'.ids,
         Live(i) => /\ indexedIds' = indexedIds \cup {i}
                    /\ i \notin indexedIds => p'.index
                    /\ items[i] = it \/ i \in p'.ids \cup owed'.ids,
         ~Live(i) => indexedIds' = indexedIds
  PROVE  OneInv'
  <1>1. /\ Unlinking' /\ Files' /\ NoResurrection'
        /\ \A j \in Ids : (Live(j)' <=> Live(j)) /\ (Going(j)' <=> Going(j))
    BY OneBookkeeping
  <1>2. indexedIds' \subseteq IdsOf(items')
    BY DEF OneInv, Loads, IdsOf, Live
  <1>3. Quiet' /\ Working' /\ Loads'
    BY <1>2, Zenon DEF OneInv, Quiet, Working, Loads
  <1>4. /\ manifest'[scope][i] = it
        /\ \A j \in Ids : j # i => manifest'[scope][j] = manifest[scope][j]
    BY Typed, Zenon DEF Library
  <1>5. Owned'
    <2>1. ASSUME NEW j \in Ids, manifest'[scope][j] # NoItem PROVE Live(j)' \/ Going(j)'
      BY <1>1, <1>4, <2>1 DEF OneInv, Owned
    <2>2. QED
      BY <2>1, Zenon DEF Owned
  <1>6. Writing'
    BY DEF Writing
  <1>7. Written' /\ Latest'
    <2>1. ASSUME NEW j \in Ids, j # i PROVE Untouched(j)
      BY <1>1, <1>4, <2>1 DEF Untouched, Pending, Asked
    <2>2. CASE ~Live(i) \/ i \in p'.ids \cup owed'.ids
      <3>1. Live(i)' => Pending(i)'
        BY <1>1, <2>2 DEF Pending, Asked
      <3>2. QED
        BY <2>1, <3>1, SavedFrame DEF OneInv
    <2>3. CASE Live(i) /\ items[i] = it
      <3>1. /\ manifest'[scope][i] = items'[i] /\ manifest'[scope][i] # NoItem
            /\ i \in indexedIds'
        BY <1>4, <2>3 DEF Live
      <3>2. SameItem(manifest'[scope][i], items'[i])
        BY <3>1 DEF SameItem
      <3>3. ASSUME NEW j \in Ids, Live(j)', ~Pending(j)'
            PROVE  /\ manifest'[scope][j] # NoItem /\ j \in indexedIds'
                   /\ MaxSwitches = 0 =>
                        \/ SameItem(manifest'[scope][j], items'[j])
                        \/ j \in reconciled' /\ items'[j].st # "Downloading"
        <4>1. CASE j = i
          BY <3>1, <3>2, <4>1
        <4>2. CASE j # i
          <5>1. Untouched(j) /\ Live(j) /\ ~Pending(j)
            BY <2>1, <3>3, <4>2 DEF Untouched, Live
          <5>2. manifest[scope][j] # NoItem /\ j \in indexedIds
            BY <5>1 DEF OneInv, Written
          <5>3. MaxSwitches = 0 => \/ SameItem(manifest[scope][j], items[j])
                                   \/ j \in reconciled /\ items[j].st # "Downloading"
            BY <5>1 DEF OneInv, Latest
          <5>4. QED
            BY <5>1, <5>2, <5>3 DEF Untouched
        <4>3. QED
          BY <4>1, <4>2
      <3>4. QED
        BY <3>3, Zenon DEF Written, Latest
    <2>4. QED
      BY <2>2, <2>3
  <1>8. IndexRight'
    <2>1. CASE indexedIds' = indexedIds
      BY <2>1, IndexFrame DEF OneInv
    <2>2. CASE p'.index
      BY <2>2 DEF IndexRight
    <2>3. QED
      BY <2>1, <2>2
  <1>9. QED
    BY <1>1, <1>3, <1>5, <1>6, <1>7, <1>8 DEF OneInv, OneLibrary

LEMMA OnePersistWrite == ASSUME IInv, IInv', OneInv, PersistWrite PROVE OneInv'
  <1>1. PICK i \in Ids : i = job.id
    BY Typed, Zenon DEF Job
  <1>2. /\ p.on /\ i \in p.ids /\ p.scope = scope /\ scope \in Scopes
        /\ Live(i) \/ Going(i)
        /\ UNCHANGED <<scope, items, loading, fresh, deleteRequested, busy, xfer, reconciled,
                       index, bytes, away, leftover, history>>
    BY <1>1, Sole DEF OneInv, Working, Writing, PersistWrite
  <1>3. NoJob.op = "none" /\ [job EXCEPT !.op = "none", !.round = @ + 1].op = "none"
    BY Typed, Zenon DEF NoJob, Job
  <1>4. CASE /\ manifest' = [manifest EXCEPT ![p.scope][job.id] = job.item]
             /\ PersistWritten
    <2> DEFINE newly == i \notin indexedIds
    <2>1. /\ job.item \in Item \cup {NoItem}
          /\ manifest' = [manifest EXCEPT ![scope][i] = job.item]
      BY <1>1, <1>2, <1>4, Typed, Zenon DEF Job
    <2>2. /\ p'.on /\ p'.finals = p.finals /\ p'.retryFinals = p.retryFinals
          /\ p'.removals = p.removals /\ p'.retryIds = p.retryIds /\ p'.load = p.load
          /\ p'.loaded = p.loaded /\ p'.retryIndex = p.retryIndex
          /\ p.ids \ {i} \subseteq p'.ids /\ (p.index => p'.index)
          /\ Live(i) /\ newly => p'.index
      <3>1. CASE p' = [p EXCEPT !.ids = @ \ {i}] /\ ~Live(i)
        <4>1. p'.ids = p.ids \ {i}
          BY <3>1, Typed, Zenon DEF Pass
        <4>2. QED
          BY <1>2, <3>1, <4>1, Typed, Zenon DEF Pass
      <3>2. CASE p' = [p EXCEPT !.ids = @ \ {i}, !.index = @ \/ newly]
        <4>1. p'.ids = p.ids \ {i} /\ p'.index = (p.index \/ newly)
          BY <3>2, Typed, Zenon DEF Pass
        <4>2. QED
          BY <1>2, <3>2, <4>1, Typed, Zenon DEF Pass
      <3>3. CASE p' = [p EXCEPT !.index = @ \/ newly]
        <4>1. p'.ids = p.ids /\ p'.index = (p.index \/ newly)
          BY <3>3, Typed, Zenon DEF Pass
        <4>2. p.ids \ {i} \subseteq p.ids
          OBVIOUS
        <4>3. QED
          BY <1>2, <3>3, <4>1, <4>2, Typed, Zenon DEF Pass
      <3>4. QED
        BY <1>1, <1>2, <1>4, <3>1, <3>2, <3>3, Zenon DEF PersistWritten
    <2>3. /\ owed'.finals = owed.finals /\ owed'.removals = owed.removals
          /\ owed'.load = owed.load /\ owed'.index = owed.index
          /\ owed.ids \subseteq owed'.ids
      <3>1. CASE UNCHANGED owed
        BY <3>1
      <3>2. CASE owed' = [owed EXCEPT !.ids = @ \cup {i}]
        BY <3>2, Typed, AskMore
      <3>3. QED
        BY <1>1, <1>4, <3>1, <3>2, Zenon DEF PersistWritten
    <2>4. job'.op = "none"
      BY <1>3, <1>4, Zenon DEF PersistWritten
    <2>5. Live(i) => /\ indexedIds' = indexedIds \cup {i}
                     /\ items[i] = job.item \/ i \in p'.ids \cup owed'.ids
      <3>1. ASSUME owed' = [owed EXCEPT !.ids = @ \cup {i}] PROVE i \in owed'.ids
        BY <3>1, Typed, AskMore
      <3>2. ASSUME p' = [p EXCEPT !.index = @ \/ newly] PROVE i \in p'.ids
        BY <1>2, <3>2, Typed, Zenon DEF Pass
      <3>3. QED
        BY <1>1, <1>2, <1>4, <3>1, <3>2, Zenon DEF PersistWritten
    <2>6. ~Live(i) => indexedIds' = indexedIds
      BY <1>1, <1>4, Zenon DEF PersistWritten
    <2>7. QED
      BY <1>2, <2>1, <2>2, <2>3, <2>4, <2>5, <2>6, OneWritten
  <1>5. CASE /\ job' = NoJob
             /\ p' = [p EXCEPT !.ids = @ \ {job.id},
                               !.retryIds = IF scope = p.scope /\ Live(job.id)
                                            THEN @ \cup {job.id} ELSE @]
             /\ UNCHANGED <<manifest, indexedIds, owed>>
    <2>1. /\ p'.on /\ p'.finals = p.finals /\ p'.retryFinals = p.retryFinals
          /\ p'.removals = p.removals /\ p'.load = p.load
          /\ p'.loaded = p.loaded /\ p'.index = p.index /\ p'.retryIndex = p.retryIndex
      BY <1>2, <1>5, Typed, Zenon DEF Pass
    <2>2. p'.ids = p.ids \ {i} /\ p'.retryIds = IF Live(i) THEN p.retryIds \cup {i} ELSE p.retryIds
      BY <1>1, <1>2, <1>5, Typed, Zenon DEF Pass
    <2>3. job'.op = "none"
      BY <1>3, <1>5
    <2>4. Quiet' /\ Working' /\ Loads'
      BY <1>2, <1>5, <2>1, <2>3, Zenon DEF OneInv, Quiet, Working, Loads, IdsOf
    <2>5. Unlinking' /\ Files' /\ NoResurrection'
      BY <1>2, <1>5, <2>1, <2>3, OneBookkeeping
    <2>6. Owned' /\ Writing' /\ Written' /\ Latest'
      <3>1. \A j \in Ids : Asked(j) /\ Live(j) => Asked(j)'
        BY <1>5, <2>2 DEF Asked
      <3>2. QED
        BY <1>2, <1>5, <2>1, <2>3, <3>1, OneNothingWritten
    <2>7. IndexRight'
      BY <1>2, <1>5, <2>1, IndexFrame DEF OneInv
    <2>8. QED
      BY <2>4, <2>5, <2>6, <2>7 DEF OneInv, OneLibrary
  <1>6. QED
    BY <1>4, <1>5, Zenon DEF PersistWrite

(* What the work on the index leaves alone in the pass. *)
PassHeld ==
    /\ p'.on = p.on /\ p'.finals = p.finals /\ p'.retryFinals = p.retryFinals
    /\ p'.ids = p.ids /\ p'.retryIds = p.retryIds /\ p'.removals = p.removals
    /\ p'.load = p.load /\ p'.loaded = p.loaded
OwedHeld ==
    /\ owed'.ids = owed.ids /\ owed'.finals = owed.finals /\ owed'.removals = owed.removals

(* The index is done with, or owed again at the end of the pass. *)
LEMMA IndexEnds ==
  ASSUME IInv, IndexDone \/ IndexOwed
  PROVE  PassHeld /\ job'.op = "none" /\ (IndexOwed => p'.retryIndex)
  <1>1. job'.op = "none"
    BY DEF IndexDone, IndexOwed, NoJob
  <1>2. CASE p' = [p EXCEPT !.index = FALSE]
    <2>1. PassHeld
      BY <1>2, Typed, Zenon DEF Pass, PassHeld
    <2>2. ASSUME IndexOwed PROVE p'.retryIndex
      BY <2>2, Typed, Zenon DEF IndexOwed, Pass
    <2>3. QED
      BY <1>1, <2>1, <2>2
  <1>3. CASE IndexOwed
    <2>1. PassHeld /\ p'.retryIndex
      BY <1>3, Typed, Zenon DEF Pass, PassHeld, IndexOwed
    <2>2. QED
      BY <1>1, <2>1
  <1>4. QED
    BY <1>2, <1>3 DEF IndexDone

(* It is written again in this pass, or owed to a later one. *)
LEMMA IndexRepeats ==
  ASSUME IInv, NEW more \in Owed, IndexAgain(more)
  PROVE  /\ PassHeld /\ job'.op = "none"
         /\ p' = p \/ owed'.index
         /\ owed'.ids = more.ids /\ owed'.finals = more.finals
         /\ owed'.removals = more.removals /\ owed'.load = more.load
         /\ more.index => owed'.index
  <1>1. CASE RoundsLeft
    <2>1. job' = [NoJob EXCEPT !.round = job.round + 1] /\ owed' = more /\ p' = p
      BY <1>1 DEF IndexAgain
    <2>2. job'.op = "none"
      BY <2>1 DEF NoJob
    <2>3. QED
      BY <2>1, <2>2 DEF PassHeld
  <1>2. CASE ~RoundsLeft
    <2>1. IndexDone /\ owed' = [more EXCEPT !.index = TRUE]
      BY <1>2 DEF IndexAgain
    <2>2. PassHeld /\ job'.op = "none"
      BY <2>1, IndexEnds
    <2>3. /\ owed'.ids = more.ids /\ owed'.finals = more.finals
          /\ owed'.removals = more.removals /\ owed'.load = more.load
          /\ owed'.index
      BY <2>1, Zenon DEF Owed
    <2>4. QED
      BY <2>2, <2>3
  <1>3. QED
    BY <1>1, <1>2

(* A step of the work on the index disturbs nothing but what is said of the index. *)
LEMMA OneIndexWork ==
  ASSUME IInv, OneInv, p.on, PassHeld, OwedHeld,
         UNCHANGED <<scope, items, indexedIds, deleteRequested, busy, xfer, reconciled, manifest,
                     bytes, away, leftover, history>>,
         job'.op \in {"none", "index", "late", "fresh", "create"},
         job'.op = "none" \/ p'.index,
         owed'.load \/ (UNCHANGED loading /\ owed'.load = owed.load),
         IndexRight'
  PROVE  OneInv'
  <1>1. job'.op # "manifest" /\ job'.op # "unlink"
    OBVIOUS
  <1>2. Quiet' /\ Working' /\ Loads'
    <2>1. Quiet'
      BY DEF OneInv, Quiet, PassHeld, OwedHeld
    <2>2. Working'
      BY <1>1, Zenon DEF Working, PassHeld
    <2>3. Loads'
      BY DEF OneInv, Loads, IdsOf, PassHeld
    <2>4. QED
      BY <2>1, <2>2, <2>3
  <1>3. Unlinking' /\ Files' /\ NoResurrection'
    BY <1>1, OneBookkeeping DEF PassHeld, OwedHeld
  <1>4. Owned' /\ Writing' /\ Written' /\ Latest'
    BY <1>1, OneNothingWritten DEF Asked, PassHeld, OwedHeld
  <1>5. QED
    BY <1>2, <1>3, <1>4 DEF OneInv, OneLibrary

LEMMA AllListed == ASSUME OneInv, indexedIds \in SUBSET Ids PROVE Listed = indexedIds
  BY DEF OneInv, Loads, IdsOf, Listed, Live

LEMMA OneIndexCopy == ASSUME IInv, IInv', OneInv, IndexCopy PROVE OneInv'
  <1>1. /\ p.on /\ p.index /\ p.scope = scope
        /\ UNCHANGED <<scope, items, loading, fresh, indexedIds, deleteRequested, owed, busy,
                       xfer, reconciled, manifest, index, bytes, away, leftover, history>>
    BY Sole DEF OneInv, IndexCopy, AtIndex, memory, disk
  <1>2. OwedHeld
    BY <1>1 DEF OwedHeld
  <1>3. CASE loading \/ (fresh /\ Listed = {})
    <2>1. PassHeld /\ job'.op = "none"
      BY <1>3, IndexEnds DEF IndexCopy
    <2>2. IndexRight'
      BY <1>1, <1>3, Typed, AllListed DEF IndexRight
    <2>3. QED
      BY <1>1, <1>2, <2>1, <2>2, OneIndexWork
  <1>4. CASE ~(loading \/ (fresh /\ Listed = {}))
    <2>1. /\ UNCHANGED p
          /\ job' = [job EXCEPT !.op = IF lateScan THEN "late"
                                       ELSE IF fresh THEN "fresh" ELSE "index", !.ids = Listed]
      BY <1>1, <1>4 DEF IndexCopy
    <2>2. job'.op \in {"index", "late", "fresh"}
      BY <2>1, Typed, Zenon DEF Job
    <2>3. PassHeld
      BY <2>1 DEF PassHeld
    <2>4. IndexRight'
      BY <1>1, <2>1, IndexFrame DEF OneInv
    <2>5. QED
      BY <1>1, <1>2, <2>1, <2>2, <2>3, <2>4, OneIndexWork
  <1>5. QED
    BY <1>3, <1>4

LEMMA OneIndexWrite == ASSUME IInv, IInv', OneInv, IndexWrite PROVE OneInv'
  <1>1. /\ p.on /\ p.index /\ p.scope = scope /\ scope \in Scopes
        /\ UNCHANGED <<scope, items, loading, fresh, indexedIds, deleteRequested, busy,
                       xfer, reconciled, manifest, bytes, away, leftover, history>>
    BY Sole DEF OneInv, Working, IndexWrite, memory
  <1>2. CASE index' = [index EXCEPT ![p.scope] = job.ids] /\ Listed = job.ids
             /\ IndexDone /\ UNCHANGED owed
    <2>1. PassHeld /\ job'.op = "none" /\ OwedHeld
      BY <1>2, IndexEnds DEF OwedHeld
    <2>2. index'[scope] = indexedIds
      BY <1>1, <1>2, Typed, AllListed
    <2>3. IndexRight'
      BY <1>1, <2>2 DEF IndexRight
    <2>4. QED
      BY <1>1, <1>2, <2>1, <2>3, OneIndexWork
  <1>3. CASE IndexAgain(owed)
    <2>1. /\ PassHeld /\ job'.op = "none" /\ OwedHeld /\ owed'.load = owed.load
          /\ p' = p \/ owed'.index
      BY <1>3, Typed, IndexRepeats DEF OwedHeld
    <2>2. IndexRight'
      BY <1>1, <2>1 DEF IndexRight
    <2>3. QED
      BY <1>1, <2>1, <2>2, OneIndexWork
  <1>4. CASE IndexOwed /\ UNCHANGED owed
    <2>1. PassHeld /\ job'.op = "none" /\ OwedHeld /\ p'.retryIndex
      BY <1>4, IndexEnds DEF OwedHeld
    <2>2. IndexRight'
      BY <2>1 DEF IndexRight
    <2>3. QED
      BY <1>1, <1>4, <2>1, <2>2, OneIndexWork
  <1>5. QED
    BY <1>1, <1>2, <1>3, <1>4 DEF IndexWrite

LEMMA OneIndexLook == ASSUME IInv, IInv', OneInv, IndexLook PROVE OneInv'
  <1>1. /\ p.on /\ p.index /\ p.scope = scope
        /\ UNCHANGED <<scope, items, loading, fresh, indexedIds, deleteRequested, owed, busy,
                       xfer, reconciled, manifest, index, bytes, away, leftover, history>>
    BY Sole DEF OneInv, Working, IndexLook, memory, disk
  <1>2. OwedHeld
    BY <1>1 DEF OwedHeld
  <1>3. CASE IndexOwed
    <2>1. PassHeld /\ job'.op = "none" /\ p'.retryIndex
      BY <1>3, IndexEnds
    <2>2. IndexRight'
      BY <2>1 DEF IndexRight
    <2>3. QED
      BY <1>1, <1>2, <2>1, <2>2, OneIndexWork
  <1>4. CASE ~IndexOwed
    <2>1. UNCHANGED p /\ \E b \in BOOLEAN : job' = [job EXCEPT !.op = "create", !.flag = b]
      BY <1>1, <1>4 DEF IndexLook
    <2>2. job'.op = "create" /\ PassHeld
      BY <2>1, Typed, Zenon DEF Job, PassHeld
    <2>3. IndexRight'
      BY <1>1, <2>1, IndexFrame DEF OneInv
    <2>4. QED
      BY <1>1, <1>2, <2>1, <2>2, <2>3, OneIndexWork
  <1>5. QED
    BY <1>3, <1>4

LEMMA OneIndexCreate == ASSUME IInv, IInv', OneInv, IndexCreate PROVE OneInv'
  <1>1. /\ p.on /\ p.index /\ p.scope = scope /\ scope \in Scopes
        /\ UNCHANGED <<scope, items, indexedIds, deleteRequested, busy,
                       xfer, reconciled, manifest, bytes, away, leftover, history>>
    BY Sole DEF OneInv, Working, IndexCreate
  <1>2. CASE IndexDone /\ Reload
    <2>1. PassHeld /\ job'.op = "none"
      BY <1>2, IndexEnds
    <2>2. loading' /\ owed' = [owed EXCEPT !.load = TRUE, !.index = TRUE]
      BY <1>1, <1>2 DEF Reload
    <2>3. OwedHeld /\ owed'.load /\ owed'.index
      BY <2>2, Typed, Zenon DEF Owed, OwedHeld
    <2>4. IndexRight'
      BY <2>3 DEF IndexRight
    <2>5. QED
      BY <1>1, <2>1, <2>3, <2>4, OneIndexWork
  <1>3. CASE Established /\ UNCHANGED loading
    <2> DEFINE more == [owed EXCEPT !.index = TRUE]
    <2>1. /\ more \in Owed /\ more.index /\ more.ids = owed.ids /\ more.finals = owed.finals
          /\ more.removals = owed.removals /\ more.load = owed.load
      BY Typed, Zenon DEF Owed
    <2>2. (IndexDone /\ owed' = more) \/ IndexAgain(more)
      BY <1>1, <1>3, Zenon DEF Established
    <2> HIDE DEF more
    <2>3. PassHeld /\ job'.op = "none" /\ OwedHeld /\ owed'.load = owed.load /\ owed'.index
      BY <2>1, <2>2, IndexEnds, IndexRepeats DEF OwedHeld
    <2>4. IndexRight'
      BY <2>3 DEF IndexRight
    <2>5. QED
      BY <1>1, <1>3, <2>3, <2>4, OneIndexWork
  <1>4. CASE IndexOwed /\ UNCHANGED <<loading, owed>>
    <2>1. PassHeld /\ job'.op = "none" /\ OwedHeld /\ p'.retryIndex
      BY <1>4, IndexEnds DEF OwedHeld
    <2>2. IndexRight'
      BY <2>1 DEF IndexRight
    <2>3. QED
      BY <1>1, <1>4, <2>1, <2>2, OneIndexWork
  <1>5. QED
    BY <1>2, <1>3, <1>4, Zenon DEF IndexCreate

LEMMA OneIndexLateScan == ASSUME IInv, IInv', OneInv, IndexLateScan PROVE OneInv'
  <1>1. /\ p.on /\ p.index /\ p.scope = scope /\ scope \in Scopes
        /\ UNCHANGED <<scope, loading, fresh, deleteRequested, busy,
                       xfer, reconciled, manifest, index, bytes, away, leftover, history>>
    BY Sole DEF OneInv, Working, IndexLateScan, disk
  <1>2. MergedIds(ScanItems(scope)) = {} /\ Merged(ScanItems(scope)) = items
    <2>1. \A i \in Ids : ScanItems(scope)[i] = manifest[scope][i]
      BY Zenon DEF ScanItems
    <2>2. ScanItems(scope) \in Library
      BY <1>1, Typed DEF ScanItems, Library
    <2>3. QED
      BY <2>1, <2>2, NothingMerged DEF OneInv
  <1>3. CASE /\ items' = Merged(ScanItems(scope))
             /\ indexedIds' = indexedIds \cup MergedIds(ScanItems(scope))
             /\ IndexAgain(owed)
    <2>1. UNCHANGED <<items, indexedIds>>
      BY <1>2, <1>3
    <2>2. /\ PassHeld /\ job'.op = "none" /\ OwedHeld /\ owed'.load = owed.load
          /\ (p' = p \/ owed'.index) /\ (owed.index => owed'.index)
      BY <1>3, Typed, IndexRepeats DEF OwedHeld
    <2>3. IndexRight'
      BY <1>1, <2>2 DEF IndexRight
    <2>4. QED
      BY <1>1, <2>1, <2>2, <2>3, OneIndexWork
  <1>4. CASE IndexOwed /\ UNCHANGED <<items, indexedIds, owed>>
    <2>1. PassHeld /\ job'.op = "none" /\ OwedHeld /\ p'.retryIndex
      BY <1>4, IndexEnds DEF OwedHeld
    <2>2. IndexRight'
      BY <2>1 DEF IndexRight
    <2>3. QED
      BY <1>1, <1>4, <2>1, <2>2, OneIndexWork
  <1>5. QED
    BY <1>1, <1>3, <1>4 DEF IndexLateScan

LEMMA OneEndPass == ASSUME IInv, IInv', OneInv, EndPass PROVE OneInv'
  <1>1. /\ p.on /\ ~p.index /\ ~p.load /\ p.ids = {} /\ p.scope = scope /\ scope \in Scopes
        /\ Keys(p.removals) = {} /\ p' = IdlePass /\ job' = NoJob
        /\ UNCHANGED <<scope, items, loading, fresh, indexedIds, deleteRequested, busy,
                       xfer, reconciled, manifest, index, bytes, away, leftover, history>>
    BY Sole DEF OneInv, EndPass, AtIndex, memory, disk
  <1>2. /\ owed'.ids = owed.ids \cup p.retryIds /\ owed'.index = (owed.index \/ p.retryIndex)
        /\ owed'.finals = owed.finals /\ owed'.removals = owed.removals /\ owed'.load = owed.load
    BY <1>1, Typed, Zenon DEF EndPass, Owed
  <1>3. /\ ~IdlePass.on /\ IdlePass.finals = NoFinals /\ IdlePass.retryFinals = NoFinals
        /\ IdlePass.removals = NoRemovals /\ IdlePass.ids = {} /\ IdlePass.retryIds = {}
        /\ ~IdlePass.load /\ ~IdlePass.index /\ ~IdlePass.retryIndex
        /\ NoJob.op = "none"
    BY DEF IdlePass, NoJob
  <1>4. p'.removals = p.removals
    <2>1. p.removals \in RemovalQueues
      BY Typed, PassFields
    <2>2. \A s \in Scopes, i \in Ids : p.removals[s][i] = <<>>
      <3>1. ASSUME NEW s \in Scopes, NEW i \in Ids, p.removals[s][i] # <<>>
            PROVE  <<s, i>> \in Keys(p.removals)
        BY <3>1 DEF Keys
      <3>2. QED
        BY <1>1, <3>1
    <2>3. p.removals = NoRemovals
      BY <2>1, <2>2, SMT DEF RemovalQueues, NoRemovals
    <2>4. QED
      BY <1>1, <1>3, <2>3
  <1>5. Quiet' /\ Working' /\ Loads'
    BY <1>1, <1>2, <1>3, Zenon DEF OneInv, Quiet, Working, Loads, IdsOf
  <1>6. Unlinking' /\ Files' /\ NoResurrection'
    BY <1>1, <1>2, <1>3, <1>4, OneBookkeeping
  <1>7. Owned' /\ Writing' /\ Written' /\ Latest'
    <2>1. \A j \in Ids : Asked(j) => Asked(j)'
      BY <1>1, <1>2 DEF Asked
    <2>2. QED
      BY <1>1, <1>2, <1>3, <1>4, <2>1, OneNothingWritten
  <1>8. IndexRight'
    BY <1>1, <1>2, IndexFrame DEF OneInv
  <1>9. QED
    BY <1>5, <1>6, <1>7, <1>8 DEF OneInv, OneLibrary

(***************************************************************************)
(* Init and Next.                                                          *)
(***************************************************************************)
LEMMA OneInit == ASSUME OneLibrary, Init PROVE OneInv
  <1>1. /\ ~IdlePass.on /\ IdlePass.finals = NoFinals /\ IdlePass.retryFinals = NoFinals
        /\ ~IdlePass.load /\ NoJob.op = "none"
    BY DEF IdlePass, NoJob
  <1>2. owed.load /\ owed.finals = NoFinals
    BY DEF Init, NothingOwed
  <1>3. \A i \in Ids : items[i] = NoItem /\ manifest[scope][i] = NoItem
                       /\ bytes[scope][i] = NoBytes /\ index[scope] = NoIndex
    <2>1. scope \in Scopes
      BY ScopesAssumption, Zenon DEF Init, AnyScope
    <2>2. QED
      BY <2>1, Zenon DEF Init, Empty
  <1>4. Quiet /\ Working /\ Loads
    BY <1>1, <1>2, Zenon DEF Init, OneLibrary, Quiet, Working, Loads, IdsOf
  <1>5. Owned /\ Writing /\ Unlinking
    BY <1>1, <1>3, Zenon DEF Init, Owned, Writing, Unlinking
  <1>6. Files
    BY <1>3 DEF Init, Files, Good, Fetches
  <1>7. Written /\ Latest /\ NoResurrection
    BY <1>3, Zenon DEF Written, Latest, NoResurrection, Live, IdsOf
  <1>8. IndexRight
    BY DEF Init, IndexRight
  <1>9. QED
    BY <1>4, <1>5, <1>6, <1>7, <1>8 DEF OneInv

LEMMA OneUser == ASSUME IInv, IInv', OneInv, UserStep PROVE OneInv'
  <1>1. "Paused" \in States /\ "Queued" \in States
    BY DEF States
  <1>2. ASSUME NEW i \in Ids, Pause(i) \/ Resume(i) PROVE OneInv'
    BY <1>1, <1>2, OneSetState DEF Pause, Resume
  <1>3. QED
    BY <1>2, OneConfigure, OneEraseRunning, OneErase, OneEnqueue, OneRedownload, Zenon DEF UserStep

LEMMA OneStorage == ASSUME IInv, IInv', OneInv, StorageStep PROVE OneInv'
  <1>1. CASE TakeWork \/ RemoveManifest \/ TakeLoads \/ RunLoad
             \/ RescanRead \/ RescanMerge \/ PersistWrite
    BY <1>1, OneTakeWork, OneRemoveManifest, OneTakeLoads, OneRunLoad, OneRescanRead,
       OneRescanMerge, OnePersistWrite, Zenon
  <1>2. CASE IndexCopy \/ IndexWrite \/ IndexLook \/ IndexCreate \/ IndexLateScan \/ EndPass
    BY <1>2, OneIndexCopy, OneIndexWrite, OneIndexLook, OneIndexCreate, OneIndexLateScan,
       OneEndPass, Zenon
  <1>3. CASE \E i \in Ids : RescanCopy(i) \/ PersistCopy(i)
    BY <1>3, OneRescanCopy, OnePersistCopy, Zenon
  <1>4. CASE \E s \in Scopes : FinalBegin(s) \/ FinalIndex(s) \/ \E i \in Ids : FinalManifest(s, i)
    <2>1. PICK s \in Scopes : AtFinals(s)
      BY <1>4, Zenon DEF FinalBegin, FinalIndex, FinalManifest
    <2>2. QED
      BY <2>1, NoFinalWrites
  <1>5. CASE \E s \in Scopes : PatchIndex(s) \/ \E i \in Ids : RemoveBytes(s, i)
    BY <1>5, OnePatchIndex, OneRemoveBytes, Zenon
  <1>6. QED
    BY <1>1, <1>2, <1>3, <1>4, <1>5, Zenon DEF StorageStep

LEMMA OneNext == ASSUME IInv, OneInv, [Next]_vars PROVE OneInv'
  <1>1. IInv'
    BY NextInv
  <1>2. CASE UserStep
    BY <1>1, <1>2, OneUser
  <1>3. CASE ReconcilerStep
    BY <1>1, <1>3, OneReconcileEnd, OneReconcileChanged DEF ReconcilerStep
  <1>4. CASE TransferStep
    BY <1>1, <1>4, OneTransferStart, OneDiscover, OneSegment, OneValidate, OneTransferEnd
       DEF TransferStep
  <1>5. CASE StorageStep
    BY <1>1, <1>5, OneStorage
  <1>6. ~Reappear
    BY DEF OneInv, Quiet, Reappear
  <1>7. \A s \in Scopes : ~Crash(s)
    <2>1. used.crashes \in Nat /\ MaxCrashes = 0
      BY BoundsAssumption DEF IInv, TypeOK, Used, OneInv, OneLibrary
    <2>2. ~(used.crashes < MaxCrashes)
      BY <2>1
    <2>3. QED
      BY <2>2 DEF Crash
  <1>8. CASE UNCHANGED vars
    <2>1. /\ UNCHANGED <<scope, items, loading, fresh, lateScan, indexedIds,
                         deleteRequested, owed, busy, p, job, xfer, reconciled>>
          /\ UNCHANGED <<manifest, index, bytes, away, leftover, history, used>>
      BY <1>8 DEF vars, memory, disk
    <2>2. job'.op = "unlink" => job' = job
      BY <2>1
    <2>3. Unlinking' /\ Files' /\ NoResurrection'
      BY <2>1, <2>2, OneBookkeeping
    <2>4. Owned' /\ Writing' /\ Written' /\ Latest'
      BY <2>1, OneNothingWritten DEF Asked
    <2>5. Quiet' /\ Working' /\ Loads' /\ IndexRight'
      BY <2>1, Zenon DEF OneInv, Quiet, Working, Loads, IndexRight, IdsOf
    <2>6. QED
      BY <2>3, <2>4, <2>5 DEF OneInv, OneLibrary
  <1>9. QED
    BY <1>2, <1>3, <1>4, <1>5, <1>6, <1>7, <1>8 DEF Next

(* What is settled has no work left for any id. *)
LEMMA NothingLeft ==
  ASSUME IInv, OneInv, Settled
  PROVE  /\ \A i \in Ids : ~Asked(i) /\ ~Going(i)
         /\ ~loading /\ ~owed.index /\ ~p.index /\ ~p.retryIndex
  <1>1. owed = NothingOwed /\ p = IdlePass
    BY DEF Settled, HasWork, OneInv, Quiet
  <1>2. /\ owed.ids = {} /\ owed.removals = NoRemovals /\ ~owed.index /\ ~owed.load
        /\ p.ids = {} /\ p.retryIds = {} /\ p.removals = NoRemovals
        /\ ~p.index /\ ~p.retryIndex /\ ~p.load
    BY <1>1 DEF NothingOwed, IdlePass
  <1>3. \A i \in Ids : NoRemovals[scope][i] = <<>>
    BY Typed DEF NoRemovals
  <1>4. ~Has(<<>>, "item")
    BY DEF Has
  <1>5. QED
    BY <1>2, <1>3, <1>4 DEF Asked, Going, OneInv, Loads

LEMMA DiskSettled ==
  ASSUME IInv, OneInv, Settled
  PROVE  /\ OnDisk(scope) = IdsOf(items)
         /\ ~(fresh /\ items = Empty) => ReadIds(scope) = IdsOf(items)
         /\ MaxSwitches = 0 =>
               \A i \in IdsOf(items) : SameItem(manifest[scope][i], items[i])
  <1>1. /\ \A i \in Ids : ~Pending(i)
        /\ ~loading /\ ~owed.index /\ ~p.index /\ ~p.retryIndex
    BY NothingLeft DEF Pending
  <1>2. \A i \in Ids : manifest[scope][i] # NoItem <=> items[i] # NoItem
    BY <1>1 DEF OneInv, Owned, Written, Pending, Live
  <1>3. OnDisk(scope) = IdsOf(items)
    BY <1>2, Zenon DEF OnDisk, IdsOf
  <1>4. indexedIds = IdsOf(items)
    <2>1. \A i \in Ids : items[i] # NoItem => i \in indexedIds
      BY <1>1 DEF OneInv, Written, Live
    <2>2. indexedIds \subseteq IdsOf(items)
      BY DEF OneInv, Loads
    <2>3. QED
      BY <2>1, <2>2 DEF IdsOf
  <1>5. ASSUME ~(fresh /\ items = Empty) PROVE ReadIds(scope) = IdsOf(items)
    <2>1. CASE fresh /\ indexedIds = {}
      <3>1. \A i \in Ids : items[i] = NoItem
        BY <1>4, <2>1, Zenon DEF IdsOf
      <3>2. items \in [Ids -> Item \cup {NoItem}]
        BY Typed DEF Library
      <3>3. items = Empty
        BY <3>1, <3>2 DEF Empty
      <3>4. QED
        BY <1>5, <2>1, <3>3
    <2>2. CASE index[scope] \in {NoIndex, BadIndex}
      BY <1>3, <2>2 DEF ReadIds, IndexUsable
    <2>3. CASE index[scope] = indexedIds
      BY <1>3, <1>4, <2>3 DEF ReadIds, IndexUsable
    <2>4. QED
      BY <1>1, <2>1, <2>2, <2>3 DEF OneInv, IndexRight
  <1>6. ASSUME MaxSwitches = 0, NEW i \in IdsOf(items)
        PROVE  SameItem(manifest[scope][i], items[i])
    <2>1. i \in Ids /\ Live(i) /\ ~Pending(i) /\ reconciled = {}
      BY <1>1 DEF IdsOf, Live, Settled
    <2>2. QED
      BY <1>6, <2>1 DEF OneInv, Latest
  <1>7. QED
    BY <1>3, <1>5, <1>6

(* Nothing but the start of a transfer makes one. *)
LEMMA OnlyStarts ==
  ASSUME IInv, [Next]_vars, xfer = NoXfer, xfer' # NoXfer
  PROVE  \E i \in Ids : TransferStart(i)
  <1>1. xfer' # xfer
    OBVIOUS
  <1>2. ~UserStep
    BY <1>1, Zenon DEF UserStep, Configure, Pause, Resume, SetState, EraseRunning, Erase, Enqueue,
                       Redownload
  <1>3. ~ReconcilerStep
    BY <1>1, Zenon DEF ReconcilerStep, ReconcileEnd, ReconcileChanged
  <1>4. ~(TransferDiscover \/ TransferSegment \/ TransferValidate \/ TransferEnd)
    BY Zenon DEF TransferDiscover, TransferOwner, TransferSegment, TransferValidate, TransferEnd
  <1>5. ~StorageStep
    <2>1. ~(TakeWork \/ RemoveManifest \/ TakeLoads \/ RunLoad)
      BY <1>1, Zenon DEF TakeWork, RemoveManifest, TakeLoads, RunLoad
    <2>2. ~(RescanRead \/ RescanMerge \/ PersistWrite)
      BY <1>1, Zenon DEF RescanRead, RescanMerge, PersistWrite
    <2>3. ~(IndexCopy \/ IndexWrite \/ IndexLook \/ IndexCreate \/ IndexLateScan \/ EndPass)
      BY <1>1, Zenon DEF IndexCopy, IndexWrite, IndexLook, IndexCreate, IndexLateScan, EndPass
    <2>4. ~\E i \in Ids : RescanCopy(i) \/ PersistCopy(i)
      BY <1>1, Zenon DEF RescanCopy, PersistCopy
    <2>5. ~\E s \in Scopes : FinalBegin(s) \/ FinalIndex(s) \/ PatchIndex(s)
                             \/ \E i \in Ids : FinalManifest(s, i)
      BY <1>1, Zenon DEF FinalBegin, FinalIndex, PatchIndex, FinalManifest
    <2>6. ~\E s \in Scopes, i \in Ids : RemoveBytes(s, i)
      BY <1>1, Zenon DEF RemoveBytes, Cleared, LeftThere, Fetching
    <2>7. QED
      BY <2>1, <2>2, <2>3, <2>4, <2>5, <2>6, Zenon DEF StorageStep
  <1>6. ~Reappear /\ \A s \in Scopes : ~Crash(s)
    BY <1>1, Zenon DEF Reappear, Crash
  <1>7. ~UNCHANGED vars
    BY <1>1 DEF vars
  <1>8. QED
    BY <1>2, <1>3, <1>4, <1>5, <1>6, <1>7, Zenon DEF Next, TransferStep

(***************************************************************************)
(* The theorems.                                                           *)
(***************************************************************************)
LEMMA OneAlways == ASSUME OneLibrary PROVE Spec => [](IInv /\ OneInv)
  <1>1. Init => IInv /\ OneInv
    BY InitInv, OneInit
  <1>2. IInv /\ OneInv /\ [Next]_vars => (IInv /\ OneInv)'
    BY NextInv, OneNext
  <1>3. QED
    BY <1>1, <1>2, PTL DEF Spec

(* The files of an id with no removal outstanding are good, or were left by one. *)
LEMMA UnbusyFiles ==
  ASSUME IInv, OneInv, NEW i \in Ids, ~IsBusy(scope, i), i \notin leftover[scope]
  PROVE  bytes[scope][i] = NoBytes \/ (Live(i) /\ bytes[scope][i] = items[i].src)
  <1>1. busy[scope][i] \in Nat /\ ~(busy[scope][i] > 0)
    BY Typed DEF IsBusy
  <1>2. ~Awaits(i)
    BY <1>1, SMT DEF Awaits
  <1>3. QED
    BY <1>2 DEF OneInv, Files, Good

(* With one account, a finished download whose removals are done stands on bytes of its own  *)
(* source or on none: whatever order a redownload, a changed source, a deletion, a transfer  *)
(* (DownloadManagerTransfer.cpp) and the passes that remove the old bytes come in, and       *)
(* however often those passes fail.  Not so where removeItem (DownloadStore.cpp:857-883) has *)
(* reported the item removed and left its files: those ids are named (leftover).             *)
THEOREM NeverMixed == ASSUME OneLibrary PROVE Spec => []NoMixedSources
  <1>1. IInv /\ OneInv => NoMixedSources
    BY UnbusyFiles, Zenon DEF NoMixedSources
  <1>2. QED
    BY <1>1, OneAlways, PTL

(* With one account, what the user has erased does not come back: not from a manifest whose  *)
(* removal failed and is owed again, nor from a load, a late scan of the storage or a        *)
(* manifest that was being written (mergeLoadedLocked takes nothing that is being removed).  *)
(* What comes back by configure() dropping the flag of a deletion under a running transfer   *)
(* (DownloadManager.cpp:97) is named (forgotten).                                            *)
THEOREM NothingResurrected == ASSUME OneLibrary PROVE Spec => []NoResurrection
  <1>1. IInv /\ OneInv => NoResurrection
    BY DEF OneInv
  <1>2. QED
    BY <1>1, OneAlways, PTL

(* With one account, when persisterLoop owes nothing, the manifests on disk are those of the *)
(* live items: none is left of an erased one and none has been passed over, through failing  *)
(* writes, failing removals and rounds of a write that run out.                              *)
THEOREM NoneOrphaned == ASSUME OneLibrary PROVE Spec => []NoOrphans
  <1>1. IInv /\ OneInv => NoOrphans
    BY DiskSettled DEF NoOrphans
  <1>2. QED
    BY <1>1, OneAlways, PTL

(* With one account and one session, when persisterLoop owes nothing, the next start reads   *)
(* back from disk, through the index or without it, the items of memory, each as memory has  *)
(* it.                                                                                        *)
THEOREM SettlesRight == ASSUME OneLibrary, MaxSwitches = 0 PROVE Spec => []SettledDisk
  <1>1. IInv /\ OneInv => SettledDisk
    BY DiskSettled DEF SettledDisk
  <1>2. QED
    BY <1>1, OneAlways, PTL

(* With one account, a transfer starts over no bytes or over bytes of the source it fetches: *)
(* an item is not startable while a removal of its old bytes is outstanding.  What a removal *)
(* of the item left there (DownloadStore.cpp:857-883) is excepted by name (leftover).        *)
THEOREM StartsOverNothing == ASSUME OneLibrary PROVE Spec => StartsClean
  <1>1. IInv /\ OneInv /\ [Next]_vars
          => [xfer = NoXfer /\ xfer' # NoXfer /\ xfer'.id \notin leftover[scope]
                => bytes[scope][xfer'.id] \in {xfer'.src, NoBytes}]_vars
    <2> SUFFICES ASSUME IInv, OneInv, [Next]_vars, xfer = NoXfer, xfer' # NoXfer,
                        xfer'.id \notin leftover[scope]
                 PROVE  bytes[scope][xfer'.id] \in {xfer'.src, NoBytes}
      OBVIOUS
    <2>1. PICK i \in Ids : TransferStart(i)
      BY OnlyStarts
    <2>2. xfer'.id = i /\ xfer'.src = items[i].src /\ ~IsBusy(scope, i)
      BY <2>1 DEF TransferStart, Startable
    <2>3. bytes[scope][i] = NoBytes \/ bytes[scope][i] = items[i].src
      BY <2>2, UnbusyFiles
    <2>4. QED
      BY <2>2, <2>3
  <1>2. QED
    BY <1>1, OneAlways, PTL DEF Spec, StartsClean
=============================================================================
