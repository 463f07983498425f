-------------------------- MODULE DownloadStorage --------------------------
(***************************************************************************)
(* The durable library of downloads: DownloadManager's storage protocol    *)
(* (src/src/download/DownloadManager.cpp) over DownloadStore's files       *)
(* (src/src/download/DownloadStore.cpp).                                   *)
(*                                                                         *)
(* Memory is the authority.  The interface threads change it under m_mutex *)
(* and *request* disk work; one storage thread (persisterLoop) takes all   *)
(* owed work in one swap and runs a pass over it in a fixed order:         *)
(*   1 final writes of accounts that were left    2 removals               *)
(*   3 corrections of the index of other accounts 4 loads                  *)
(*   5 rescans of segment files   6 manifests     7 the index              *)
(* dropping the mutex around every disk operation.  What fails stays owed. *)
(*                                                                         *)
(* An action is one stretch of code under the mutex, together with the     *)
(* disk operation just before it: manifests and the index are written by   *)
(* this one thread only, so the disk operation commutes with whatever the  *)
(* other threads do between it and the lock.                               *)
(*                                                                         *)
(* The transfer worker and the source reconciler appear with one step per  *)
(* publication; a download is one segment.                                 *)
(***************************************************************************)
EXTENDS Naturals, Sequences, FiniteSets

CONSTANTS Scopes,      \* accounts (DownloadStore::scopeKey)
          Ids,         \* item ids
          Sources,     \* identities a server gives an item's media (mediaSourceId + etag)
          NoItem, NoBytes, NoIndex, BadIndex, NoXfer,
          LateIds,     \* manifests on storage that was away at start-up
          MaxRounds,   \* convergence rounds of one write (8 in the code)
          MaxEdits,    \* bound: requests of the user and publications of the other threads
          MaxSwitches, \* bound: calls of configure()
          MaxFaults,   \* bound: failing disk operations
          MaxCrashes   \* bound: crashes and power cuts

States == {"Queued", "Downloading", "Paused", "Failed", "Complete", "UpdateAvailable"}
Item   == [st : States, src : Sources, counted : BOOLEAN]   \* counted: hlsSegmentCount > 0

ASSUME SentinelsAssumption ==
    /\ NoItem \notin Item
    /\ NoBytes \notin Sources
ASSUME ScopesAssumption == Scopes # {} /\ Ids # {}
ASSUME LateAssumption == LateIds \subseteq Ids
ASSUME BoundsAssumption ==
    /\ MaxRounds \in Nat \ {0}
    /\ {MaxEdits, MaxSwitches, MaxFaults, MaxCrashes} \subseteq Nat

(* A library: what it holds for each id. *)
Library    == [Ids -> Item \cup {NoItem}]
Empty      == [i \in Ids |-> NoItem]
IdsOf(lib) == {i \in Ids : lib[i] # NoItem}

(* Final writes are queued per scope, removals (of a whole item or of its bytes only) per scope *)
(* and id.  (What the code's two deques order is never looked at across scopes.)                *)
Removals   == {"item", "bytes"}
NoFinals   == [s \in Scopes |-> <<>>]
NoRemovals == [s \in Scopes |-> [i \in Ids |-> <<>>]]
NoPatches  == [s \in Scopes |-> {}]

VARIABLES
    \* -- memory, guarded by m_mutex
    scope, items, loading, fresh, lateScan, indexedIds, deleteRequested,
    \* -- work owed to the disk, guarded by m_mutex
    owed, busy,
    \* -- the storage thread: its pass and the disk operation it is in the middle of
    p, job,
    \* -- the transfer in progress; ids a reconciler pass has touched and not yet asked to write
    xfer, reconciled,
    \* -- the disk
    manifest, index, bytes, away,
    \* -- history: the ids the user has put into each account's library and not erased; those
    \*    whose deletion configure() forgot; those whose files outlived the removal of the item
    library, forgotten, leftover,
    \* -- what is used of the bounds
    used

memory == <<scope, items, loading, fresh, lateScan, indexedIds, deleteRequested>>
disk   == <<manifest, index, bytes, away, leftover>>
history == <<library, forgotten>>
vars   == <<memory, owed, busy, p, job, xfer, reconciled, disk, history, used>>

(***************************************************************************)
(* Owed work, and the record a pass keeps of it.                           *)
(***************************************************************************)
NothingOwed == [finals |-> NoFinals, removals |-> NoRemovals, patches |-> NoPatches, ids |-> {},
                rescans |-> {}, rescanAll |-> FALSE, index |-> FALSE, load |-> FALSE]

Keys(q) == {k \in Scopes \X Ids : q[k[1]][k[2]] # <<>>}

HasWork == owed # NothingOwed

AnyScope == CHOOSE s \in Scopes : TRUE   \* what a field of an idle thread holds
AnyId    == CHOOSE i \in Ids : TRUE
NoFinal == [on |-> FALSE, scope |-> AnyScope, left |-> {}, listed |-> {}, merged |-> TRUE, ok |-> TRUE]

(* generation and load tokens are only ever compared with the current ones, so a flag that a *)
(* bump of the counter lowers stands for each: p.current, p.load.                             *)
IdlePass == [on |-> FALSE, scope |-> AnyScope, current |-> FALSE, finals |-> NoFinals, final |-> NoFinal,
             retryFinals |-> NoFinals, removals |-> NoRemovals, patches |-> NoPatches,
             loaded |-> FALSE, load |-> FALSE, rescans |-> {}, ids |-> {}, retryIds |-> {},
             index |-> FALSE, retryIndex |-> FALSE]

NoJob == [op |-> "none", scope |-> AnyScope, id |-> AnyId,
          item |-> NoItem, ids |-> {}, flag |-> FALSE, round |-> 0]
Idle  == job.op = "none"

Live(i)      == items[i] # NoItem
IsBusy(s, i) == busy[s][i] > 0

(* A disk operation fails only while the bound on failures allows it. *)
Fault   == used.faults < MaxFaults /\ used' = [used EXCEPT !.faults = @ + 1]
NoFault == UNCHANGED used
Edit    == used.edits < MaxEdits /\ used' = [used EXCEPT !.edits = @ + 1]

(***************************************************************************)
(* DownloadStore: what a read of a scope finds.                            *)
(***************************************************************************)
OnDisk(s) == IdsOf(manifest[s])

(* The index is used only if it is there, is not damaged and every manifest it names is there; *)
(* otherwise the manifests are the truth.                                                      *)
IndexUsable(s) == /\ index[s] \notin {NoIndex, BadIndex}
                  /\ index[s] \subseteq OnDisk(s)
ReadStatus(s) == IF IndexUsable(s) THEN "Loaded"
                 ELSE IF OnDisk(s) = {} THEN "NewScope" ELSE "Rebuilt"
ReadIds(s)    == IF IndexUsable(s) THEN index[s] ELSE OnDisk(s)
ReadItems(s)  == [i \in Ids |-> IF i \in ReadIds(s) THEN manifest[s][i] ELSE NoItem]
ScanItems(s)  == [i \in Ids |-> manifest[s][i]]

(***************************************************************************)
(* configure(): a new session.  The same account only gets a new           *)
(* generation; another account gets the previous one's items handed to     *)
(* the storage thread and a load of its own.                               *)
(***************************************************************************)
StartScope(s) ==
    /\ scope' = s
    /\ items' = Empty
    /\ indexedIds' = {}
    /\ loading' = TRUE
    /\ fresh' = FALSE

Configure(s) ==
    /\ used.switches < MaxSwitches
    /\ used' = [used EXCEPT !.switches = @ + 1]
    /\ deleteRequested' = {}
    /\ forgotten' = [forgotten EXCEPT ![scope] = @ \cup deleteRequested]
    /\ reconciled' = {}
    /\ xfer' = IF xfer = NoXfer THEN xfer ELSE [xfer EXCEPT !.current = FALSE]
    /\ \/ /\ s = scope
          /\ p' = [p EXCEPT !.current = FALSE]
          /\ UNCHANGED <<scope, items, loading, fresh, indexedIds, owed>>
       \/ /\ s # scope
          /\ StartScope(s)
          /\ owed' = [owed EXCEPT
                !.finals[scope] = IF IdsOf(items) = {} THEN @
                                  ELSE Append(@, [items |-> items, complete |-> ~loading]),
                !.ids = {}, !.rescans = {}, !.load = TRUE]
          /\ p' = [p EXCEPT !.current = FALSE, !.load = FALSE]
    /\ UNCHANGED <<lateScan, busy, job, disk, library>>

Init ==
    /\ scope = AnyScope   \* the accounts are all alike
    /\ items = Empty /\ indexedIds = {} /\ deleteRequested = {}
    /\ loading = TRUE /\ fresh = FALSE /\ lateScan = FALSE
    /\ owed = [NothingOwed EXCEPT !.load = TRUE]
    /\ busy = [s \in Scopes |-> [i \in Ids |-> 0]]
    /\ p = IdlePass
    /\ job = NoJob
    /\ xfer = NoXfer
    /\ reconciled = {}
    /\ manifest = [s \in Scopes |-> Empty]
    /\ index = [s \in Scopes |-> NoIndex]
    /\ bytes = [s \in Scopes |-> [i \in Ids |-> NoBytes]]
    /\ away = (LateIds # {})
    /\ library = NoPatches /\ forgotten = NoPatches /\ leftover = NoPatches
    /\ used = [edits |-> 0, switches |-> 0, faults |-> 0, crashes |-> 0]

(***************************************************************************)
(* Requests of the user.                                                   *)
(***************************************************************************)
QueueRemovalMutant(i) ==   \* the id is not marked busy
    /\ UNCHANGED busy

QueueRemoval(i) ==
    /\ busy' = [busy EXCEPT ![scope][i] = @ + 1]

\* requestRemoveLocked's changes of the owed work; a whole removal supersedes an owed write.
WithRemoval(o, i, what) ==
    [o EXCEPT !.removals[scope][i] = Append(@, what),
              !.ids = IF what = "item" THEN @ \ {i} ELSE @]

DiscardBytesMutant(i, write) ==   \* the old bytes are left where they are
    /\ owed' = [owed EXCEPT !.ids = @ \cup write]
    /\ UNCHANGED <<busy>>

(* The source has changed: its bytes are owed a removal, and the manifests of some ids a write. *)
DiscardBytes(i, write) ==
    /\ QueueRemoval(i)
    /\ owed' = [WithRemoval(owed, i, "bytes") EXCEPT !.ids = @ \cup write]

Enqueue(i, src) ==
    /\ Edit
    /\ ~Live(i)
    /\ items' = [items EXCEPT ![i] = [st |-> "Queued", src |-> src, counted |-> FALSE]]
    /\ owed' = [owed EXCEPT !.ids = @ \cup {i}]
    /\ library' = [library EXCEPT ![scope] = @ \cup {i}]
    /\ UNCHANGED <<scope, loading, fresh, lateScan, indexedIds, deleteRequested,
                   busy, p, job, xfer, reconciled, disk, forgotten>>

SetState(i, st) ==
    /\ Edit
    /\ Live(i)
    /\ items[i].st \notin {"Complete", st}
    /\ items' = [items EXCEPT ![i].st = st]
    /\ owed' = [owed EXCEPT !.ids = @ \cup {i}]
    /\ UNCHANGED <<scope, loading, fresh, lateScan, indexedIds, deleteRequested,
                   busy, p, job, xfer, reconciled, disk, history>>
Pause(i)  == SetState(i, "Paused")
Resume(i) == SetState(i, "Queued")

(* redownload(): the available source becomes the item's source; its old bytes are queued for *)
(* removal and the manifest for writing.                                                       *)
Redownload(i, src) ==
    /\ Edit
    /\ Live(i)
    /\ items[i].st = "UpdateAvailable"
    /\ src # items[i].src
    /\ items' = [items EXCEPT ![i].st = "Queued", ![i].src = src]
    /\ DiscardBytes(i, {i})
    /\ UNCHANGED <<scope, loading, fresh, lateScan, indexedIds, deleteRequested,
                   p, job, xfer, reconciled, disk, history>>

(* History: the user has erased the item. *)
Unwanted(i) ==
    /\ library' = [library EXCEPT ![scope] = @ \ {i}]
    /\ forgotten' = [forgotten EXCEPT ![scope] = @ \ {i}]

(* erase() of an item whose transfer is running only flags it: the transfer removes it. *)
EraseRunning(i) ==
    /\ Edit
    /\ Live(i)
    /\ items[i].st = "Downloading"
    /\ deleteRequested' = deleteRequested \cup {i}
    /\ items' = [items EXCEPT ![i].st = "Paused"]
    /\ owed' = [owed EXCEPT !.ids = @ \cup {i}]
    /\ Unwanted(i)
    /\ UNCHANGED <<scope, loading, fresh, lateScan, indexedIds,
                   busy, p, job, xfer, reconciled, disk>>

(* Gone from memory at once; the files, the manifest and the index entry are owed. *)
Forget(i) ==
    /\ items' = [items EXCEPT ![i] = NoItem]
    /\ indexedIds' = indexedIds \ {i}
    /\ QueueRemoval(i)
    /\ owed' = [WithRemoval(owed, i, "item") EXCEPT !.index = TRUE]

Erase(i) ==
    /\ Edit
    /\ Live(i)
    /\ items[i].st # "Downloading"
    /\ Forget(i)
    /\ deleteRequested' = deleteRequested \ {i}
    /\ Unwanted(i)
    /\ UNCHANGED <<scope, loading, fresh, lateScan, p, job, xfer, reconciled, disk>>

(***************************************************************************)
(* The reconciler: the server now offers another source.  A finished       *)
(* download is only marked; an unfinished one starts again from the new    *)
(* source, its bytes queued for removal.  The manifests of a reconciler    *)
(* pass are asked for at its end.                                          *)
(***************************************************************************)
ReconcileChanged(i, src) ==
    /\ Edit
    /\ Live(i)
    /\ items[i].st # "Downloading"
    /\ src # items[i].src
    /\ reconciled' = reconciled \cup {i}
    /\ \/ /\ items[i].st \in {"Complete", "UpdateAvailable"}
          /\ items' = [items EXCEPT ![i].st = "UpdateAvailable"]
          /\ UNCHANGED <<owed, busy>>
       \/ /\ items[i].st \notin {"Complete", "UpdateAvailable"}
          /\ items' = [items EXCEPT ![i].st = "Queued", ![i].src = src]
          /\ DiscardBytes(i, {})
    /\ UNCHANGED <<scope, loading, fresh, lateScan, indexedIds, deleteRequested,
                   p, job, xfer, disk, history>>

ReconcileEnd ==
    /\ reconciled # {}
    /\ reconciled' = {}
    /\ owed' = [owed EXCEPT !.ids =
                  @ \cup {i \in reconciled : Live(i) /\ items[i].st # "Downloading"}]
    /\ UNCHANGED <<memory, busy, p, job, xfer, disk, history, used>>

(***************************************************************************)
(* The transfer worker.                                                    *)
(***************************************************************************)
StartableMutant(i) == items[i].st = "Queued"   \* not waiting for the removals of the id
Startable(i) == items[i].st = "Queued" /\ ~IsBusy(scope, i)

TransferStart(i) ==
    /\ xfer = NoXfer
    /\ Live(i)
    /\ Startable(i)
    /\ items' = [items EXCEPT ![i].st = "Downloading"]
    /\ xfer' = [id |-> i, scope |-> scope, src |-> items[i].src, current |-> TRUE,
                phase |-> "starting"]
    /\ owed' = [owed EXCEPT !.ids = @ \cup {i}]
    /\ UNCHANGED <<scope, loading, fresh, lateScan, indexedIds, deleteRequested,
                   busy, p, job, reconciled, disk, history, used>>

TransferOwner == xfer # NoXfer /\ xfer.current /\ Live(xfer.id)
SameSource    == items[xfer.id].src = xfer.src
Deletable     == TransferOwner /\ xfer.id \in deleteRequested   \* by the next to look at the flag

(* publishTransferProgress(): a resumed item is Downloading again, a paused one stays paused. *)
Published ==
    /\ items' = [items EXCEPT ![xfer.id].counted = TRUE,
                              ![xfer.id].st = IF @ = "Queued" THEN "Downloading" ELSE @]
    /\ owed' = [owed EXCEPT !.ids = @ \cup {xfer.id}]

(* The playlist tells how many segments there are. *)
TransferDiscover ==
    /\ TransferOwner /\ SameSource
    /\ xfer.phase = "starting"
    /\ Published
    /\ xfer' = [xfer EXCEPT !.phase = "fetching"]
    /\ UNCHANGED <<scope, loading, fresh, lateScan, indexedIds, deleteRequested,
                   busy, p, job, reconciled, disk, history, used>>

(* The segment is fetched unless a file of its name is there already.  (A removal that runs *)
(* meanwhile takes the partial file with it: the rename fails, see Cleared.)                *)
TransferSegment ==
    /\ xfer # NoXfer
    /\ xfer.phase = "fetching"
    /\ bytes[xfer.scope][xfer.id] = NoBytes
    /\ bytes' = [bytes EXCEPT ![xfer.scope][xfer.id] = xfer.src]
    /\ xfer' = [xfer EXCEPT !.phase = "renamed"]
    /\ UNCHANGED <<memory, owed, busy, p, job, reconciled, manifest, index, away, leftover,
                   history, used>>

(* The whole-download check, with no lock held. *)
TransferValidate ==
    /\ xfer # NoXfer
    /\ LET there == bytes[xfer.scope][xfer.id] # NoBytes IN
       /\ xfer.phase = "renamed" \/ (xfer.phase = "fetching" /\ there)
       /\ xfer' = [xfer EXCEPT !.phase = IF there THEN "validated" ELSE "invalid"]
    /\ UNCHANGED <<memory, owed, busy, p, job, reconciled, disk, history, used>>

(***************************************************************************)
(* How a transfer ends.                                                    *)
(***************************************************************************)
(* Another session or account owns the library, or the item is gone. *)
TransferStopped ==
    /\ ~TransferOwner
    /\ UNCHANGED <<memory, owed, busy, bytes>>

TransferDeleted ==
    /\ Deletable
    /\ xfer.phase # "starting"
    /\ deleteRequested' = deleteRequested \ {xfer.id}
    /\ Forget(xfer.id)
    /\ UNCHANGED <<scope, loading, fresh, lateScan, bytes>>

(* The item was given another source: a file just renamed is the old source's. *)
TransferStale ==
    /\ TransferOwner /\ ~SameSource
    /\ xfer.id \notin deleteRequested \/ xfer.phase \in {"starting", "renamed"}
    /\ bytes' = IF xfer.phase = "renamed"
                THEN [bytes EXCEPT ![xfer.scope][xfer.id] = NoBytes] ELSE bytes
    /\ UNCHANGED <<memory, owed, busy>>

(* Validated against the files, the download is complete whatever happened to its state. *)
TransferComplete ==
    /\ TransferOwner /\ SameSource
    /\ ~Deletable
    /\ xfer.phase = "validated"
    /\ items' = [items EXCEPT ![xfer.id].st = "Complete", ![xfer.id].counted = TRUE]
    /\ owed' = [owed EXCEPT !.ids = @ \cup {xfer.id}]
    /\ UNCHANGED <<scope, loading, fresh, lateScan, indexedIds, deleteRequested, busy, bytes>>

Failed == [items EXCEPT ![xfer.id].st = IF @ = "Paused" THEN @ ELSE "Failed"]

(* There is no playlist: nothing looks at a deletion or at the files. *)
TransferUndiscovered ==
    /\ TransferOwner /\ SameSource
    /\ xfer.phase = "starting"
    /\ items' = Failed
    /\ owed' = [owed EXCEPT !.ids = @ \cup {xfer.id}]
    /\ UNCHANGED <<scope, loading, fresh, lateScan, indexedIds, deleteRequested,
                   busy, bytes>>

(* Aborted before a segment, the item being Downloading no more: nothing is asked for. *)
TransferAborted ==
    /\ TransferOwner
    /\ ~Deletable
    /\ xfer.phase = "fetching" /\ items[xfer.id].st # "Downloading"
    /\ UNCHANGED <<memory, owed, busy, bytes>>

(* The segment failed, was aborted while it came, or was gone when the download was checked: *)
(* the files are to be read again.                                                           *)
TransferFailed ==
    /\ TransferOwner
    /\ ~Deletable
    /\ xfer.phase \in {"fetching", "cut"} \/ (xfer.phase = "invalid" /\ SameSource)
    /\ \/ items' = Failed
       \/ /\ xfer.phase # "invalid" /\ items[xfer.id].st # "Downloading"
          /\ UNCHANGED items
    /\ owed' = [owed EXCEPT !.ids = @ \cup {xfer.id}, !.rescans = @ \cup {xfer.id}]
    /\ UNCHANGED <<scope, loading, fresh, lateScan, indexedIds, deleteRequested, busy, bytes>>

TransferEnd ==
    /\ xfer # NoXfer
    /\ xfer' = NoXfer
    /\ \/ TransferStopped \/ TransferDeleted \/ TransferStale \/ TransferComplete
       \/ TransferUndiscovered \/ TransferAborted \/ TransferFailed
    /\ UNCHANGED <<p, job, reconciled, manifest, index, away, leftover, history, used>>

(***************************************************************************)
(* The storage thread.  A pass takes everything owed in one swap.          *)
(***************************************************************************)
LeftMutant == [NothingOwed EXCEPT !.load = owed.load, !.rescanAll = owed.rescanAll]  \* not reset
LeftLoadMutant == NothingOwed   \* a load is dropped with the rest
Left == [NothingOwed EXCEPT !.load = owed.load]   \* a load is taken later, see TakeLoads

TakeWork ==
    /\ ~p.on
    /\ HasWork
    /\ p' = [IdlePass EXCEPT
                !.on = TRUE, !.scope = scope, !.current = TRUE,
                !.finals = owed.finals, !.removals = owed.removals,
                !.patches = owed.patches, !.ids = owed.ids,
                !.rescans = owed.rescans \cup (IF owed.rescanAll THEN IdsOf(items) ELSE {}),
                !.index = owed.index]
    /\ owed' = Left
    /\ UNCHANGED <<memory, busy, job, xfer, reconciled, disk, history, used>>

(* Which stage the pass is in: the first with anything left to do. *)
AtFinals(s) == p.on /\ Idle /\ p.finals[s] # <<>>
AtRemovals  == p.on /\ Idle /\ p.finals = NoFinals
AtPatches   == AtRemovals /\ Keys(p.removals) = {}
AtLoads     == AtPatches /\ p.patches = NoPatches
AtRescans   == AtLoads /\ p.loaded /\ ~p.load
AtManifests == AtRescans /\ p.rescans = {}
AtIndex     == p.on /\ p.finals = NoFinals /\ Keys(p.removals) = {} /\ p.patches = NoPatches
               /\ p.loaded /\ ~p.load /\ p.rescans = {} /\ p.ids = {}

(* 1. A previous account's items are written whole, then its index.  If its library had not *)
(* been read yet, what the disk lists stays listed.                                          *)
FinalBegin(s) ==
    LET f       == Head(p.finals[s])
        Started == [NoFinal EXCEPT !.on = TRUE, !.scope = s, !.left = IdsOf(f.items)] IN
    /\ AtFinals(s)
    /\ ~p.final.on
    /\ \/ /\ NoFault
          /\ p' = [p EXCEPT !.final =
                      [Started EXCEPT !.listed = IF f.complete THEN {} ELSE ReadIds(s)]]
       \/ /\ ~f.complete /\ Fault
          /\ p' = [p EXCEPT !.final = [Started EXCEPT !.merged = FALSE, !.ok = FALSE]]
    /\ UNCHANGED <<memory, owed, busy, job, xfer, reconciled, disk, history>>

FinalManifest(s, i) ==
    /\ AtFinals(s)
    /\ p.final.on /\ p.final.scope = s
    /\ i \in p.final.left
    /\ \/ /\ NoFault
          /\ manifest' = [manifest EXCEPT ![s][i] = Head(p.finals[s]).items[i]]
          /\ p' = [p EXCEPT !.final.left = @ \ {i}, !.final.listed = @ \cup {i}]
       \/ /\ Fault
          /\ p' = [p EXCEPT !.final.left = @ \ {i}, !.final.ok = FALSE]
          /\ UNCHANGED manifest
    /\ UNCHANGED <<memory, owed, busy, job, xfer, reconciled, index, bytes, away, leftover, history>>

\* A final write that did not go through whole is kept for the next pass.
KeptIfMutant(failed, f, q) == q   \* dropped
KeptIf(failed, f, q) == IF failed THEN Append(q, f) ELSE q

FinalIndex(s) ==
    LET Written(ok) == [p EXCEPT !.finals[s] = Tail(@), !.final = NoFinal,
                                 !.retryFinals[s] = KeptIf(~ok, Head(p.finals[s]), @)] IN
    /\ AtFinals(s)
    /\ p.final.on /\ p.final.scope = s /\ p.final.left = {}
    /\ \/ /\ p.final.merged
          /\ NoFault
          /\ index' = [index EXCEPT ![s] = p.final.listed]
          /\ p' = Written(p.final.ok)
       \/ /\ p.final.merged
          /\ Fault
          /\ UNCHANGED index
          /\ p' = Written(FALSE)
       \/ /\ ~p.final.merged
          /\ UNCHANGED <<index, used>>
          /\ p' = Written(FALSE)
    /\ UNCHANGED <<memory, owed, busy, job, xfer, reconciled, manifest, bytes, away, leftover, history>>

(* 2. Removals, in order within a scope+id.  A removal that fails holds back the later ones *)
(* of its scope+id and they stay owed.                                                       *)
AddedBackMutant(s, i) == FALSE   \* what was added back meanwhile is not written again
AddedBack(s, i) == s = scope /\ Live(i)   \* while the old files were going

RemovalDone(s, i) ==
    /\ busy' = [busy EXCEPT ![s][i] = @ - 1]
    /\ p' = [p EXCEPT !.removals[s][i] = Tail(@),
                      !.patches[s] = IF Head(p.removals[s][i]) = "item" THEN @ \cup {i} ELSE @]
    /\ owed' = IF AddedBack(s, i)
               THEN [owed EXCEPT !.ids = @ \cup {i}, !.index = TRUE] ELSE owed

HoldBackMutant(s, i) ==   \* the later ones are forgotten
    /\ owed' = [owed EXCEPT !.removals[s][i] = <<Head(p.removals[s][i])>> \o @]
    /\ p' = [p EXCEPT !.removals[s][i] = <<>>]
    /\ UNCHANGED busy

HoldBack(s, i) ==
    /\ owed' = [owed EXCEPT !.removals[s][i] = p.removals[s][i] \o @]
    /\ p' = [p EXCEPT !.removals[s][i] = <<>>]
    /\ UNCHANGED busy

Fetching(s, i) == xfer # NoXfer /\ xfer.scope = s /\ xfer.id = i /\ xfer.phase = "fetching"

\* The partial file of a transfer of the id goes too.
Cleared(s, i) ==
    /\ bytes' = [bytes EXCEPT ![s][i] = NoBytes]
    /\ xfer' = IF Fetching(s, i) THEN [xfer EXCEPT !.phase = "cut"] ELSE xfer
    /\ leftover' = [leftover EXCEPT ![s] = @ \ {i}]

(* removeItem() looks for the segments the manifest on disk counts: none of an item that was    *)
(* never written since its playlist was read.                                                   *)
Counted(s, i) == manifest[s][i] # NoItem /\ manifest[s][i].counted

(* What it does not look for or cannot unlink stays, and nobody is told. *)
LeftThere(s, i) ==
    /\ leftover' = [leftover EXCEPT ![s] =
          IF bytes[s][i] # NoBytes \/ Fetching(s, i) THEN @ \cup {i} ELSE @]
    /\ UNCHANGED <<bytes, xfer>>

RemoveBytes(s, i) ==
    /\ AtRemovals
    /\ p.removals[s][i] # <<>>
    /\ \/ /\ Head(p.removals[s][i]) = "item"
          /\ \/ Counted(s, i) /\ NoFault /\ Cleared(s, i)
             \/ ~Counted(s, i) /\ NoFault /\ LeftThere(s, i)
             \/ Counted(s, i) /\ Fault /\ LeftThere(s, i)
          /\ job' = [NoJob EXCEPT !.op = "unlink", !.scope = s, !.id = i]
          /\ UNCHANGED <<p, owed, busy>>
       \/ /\ Head(p.removals[s][i]) = "bytes"
          /\ NoFault
          /\ Cleared(s, i)
          /\ RemovalDone(s, i)
          /\ UNCHANGED job
       \/ /\ Fault
          /\ HoldBack(s, i)
          /\ UNCHANGED <<bytes, leftover, xfer, job>>
    /\ UNCHANGED <<memory, reconciled, manifest, index, away, history>>

RemoveManifest ==
    LET s == job.scope
        i == job.id IN
    /\ job.op = "unlink"
    /\ job' = NoJob
    /\ \/ /\ NoFault
          /\ manifest' = [manifest EXCEPT ![s][i] = NoItem]
          /\ RemovalDone(s, i)
       \/ /\ Fault   \* not gone, or gone but storage cannot be read to tell
          /\ \/ manifest' = [manifest EXCEPT ![s][i] = NoItem]
             \/ UNCHANGED manifest
          /\ HoldBack(s, i)
    /\ UNCHANGED <<memory, xfer, reconciled, index, bytes, away, leftover, history>>

(* 3. Removed ids leave the index: the live account's is written in stage 7, another's is *)
(* corrected on disk.                                                                      *)
PatchIndex(s) ==
    /\ AtPatches
    /\ p.patches[s] # {}
    /\ \/ /\ s = scope /\ ~loading
          /\ p' = [p EXCEPT !.patches[s] = {}, !.index = TRUE]
          /\ UNCHANGED <<index, owed, used>>
       \/ /\ ~(s = scope /\ ~loading)
          /\ p' = [p EXCEPT !.patches[s] = {}]
          /\ \/ /\ NoFault
                /\ index' = IF ReadStatus(s) = "Loaded"
                            THEN [index EXCEPT ![s] = @ \ p.patches[s]] ELSE index
                /\ UNCHANGED owed
             \/ /\ Fault
                /\ owed' = [owed EXCEPT !.patches[s] = @ \cup p.patches[s]]
                /\ UNCHANGED index
    /\ UNCHANGED <<memory, busy, job, xfer, reconciled, manifest, bytes, away, leftover, history>>

(* 4. The load that is wanted now.  Final writes that failed are owed again first, so that *)
(* the load of their account finds them.                                                   *)
TakeLoads ==
    /\ AtLoads
    /\ ~p.loaded
    /\ p' = [p EXCEPT !.loaded = TRUE, !.load = owed.load, !.retryFinals = NoFinals]
    /\ owed' = [owed EXCEPT !.load = FALSE, !.finals = [s \in Scopes |-> p.retryFinals[s] \o @[s]]]
    /\ UNCHANGED <<memory, busy, job, xfer, reconciled, disk, history, used>>

Requeued(it) == IF it.st = "Downloading" THEN [it EXCEPT !.st = "Queued"] ELSE it

\* mergeLoadedLocked takes what is neither live nor being removed.
MergeableMutant(i) == ~Live(i)   \* an id being removed is taken too
Mergeable(i) == ~Live(i) /\ ~IsBusy(scope, i)

MergedIds(found) == {i \in IdsOf(found) : Mergeable(i)}
Merged(found) == [i \in Ids |-> IF i \in MergedIds(found) THEN Requeued(found[i]) ELSE items[i]]

RunLoad ==
    LET mine     == owed.finals[scope]
        have     == mine # <<>>
        complete == \A n \in 1..Len(mine) : mine[n].complete
        pending  == IF have THEN mine[Len(mine)].items ELSE Empty
        read     == ~(have /\ complete)
        found    == [i \in Ids |-> IF pending[i] # NoItem THEN pending[i]
                                   ELSE IF read THEN ReadItems(scope)[i] ELSE NoItem] IN
    /\ AtLoads /\ p.loaded
    /\ p.load
    /\ p' = [p EXCEPT !.load = FALSE]
    /\ \/ /\ NoFault
          /\ items' = Merged(found)
          /\ indexedIds' = indexedIds \cup (MergedIds(found) \ IdsOf(pending))
          /\ loading' = FALSE
          /\ fresh' = (read => ReadStatus(scope) = "NewScope")
          /\ lateScan' = FALSE
          /\ owed' = [owed EXCEPT
                !.finals[scope] = <<>>,
                !.ids = @ \cup (MergedIds(found) \cap IdsOf(pending)),
                !.rescanAll = TRUE, !.index = TRUE]
       \/ /\ read /\ Fault   \* a library that cannot be read is not an empty one
          /\ owed' = [owed EXCEPT !.load = TRUE]
          /\ UNCHANGED <<items, indexedIds, loading, fresh, lateScan>>
    /\ UNCHANGED <<scope, deleteRequested, busy, job, xfer, reconciled, disk, history>>

(* 5. Rescans: a copy of the item, its files, then a merge into the live item where that has *)
(* not changed meanwhile.                                                                     *)
Rescannable(i) ==
    /\ p.current /\ scope = p.scope
    /\ ~IsBusy(scope, i)
    /\ Live(i) /\ items[i].st # "Downloading"

RescanCopy(i) ==
    /\ AtRescans
    /\ i \in p.rescans
    /\ p' = [p EXCEPT !.rescans = @ \ {i}]
    /\ job' = IF Rescannable(i)
              THEN [NoJob EXCEPT !.op = "rescan", !.id = i, !.item = items[i]] ELSE NoJob
    /\ UNCHANGED <<memory, owed, busy, xfer, reconciled, disk, history, used>>

RescanRead ==
    /\ job.op = "rescan"
    /\ job' = [job EXCEPT !.op = "scanned", !.flag = job.item.counted /\ bytes[p.scope][job.id] # NoBytes]
    /\ UNCHANGED <<memory, owed, busy, p, xfer, reconciled, disk, history, used>>

RescanMerge ==
    LET i     == job.id
        found == IF job.flag /\ job.item.st # "UpdateAvailable" THEN "Complete" ELSE job.item.st
    IN
    /\ job.op = "scanned"
    /\ job' = NoJob
    /\ IF Rescannable(i) /\ items[i].st = job.item.st /\ found # job.item.st
       THEN /\ items' = [items EXCEPT ![i].st = found]
            /\ owed' = [owed EXCEPT !.ids = @ \cup {i}]
       ELSE UNCHANGED <<items, owed>>
    /\ UNCHANGED <<scope, loading, fresh, lateScan, indexedIds, deleteRequested,
                   busy, p, xfer, reconciled, disk, history, used>>

(* 6. Manifests: a copy under the lock, the write, then a comparison with the live item; a *)
(* newer state is written too, up to MaxRounds times.                                       *)
PersistCopy(i) ==
    /\ AtManifests
    /\ i \in p.ids
    /\ job.round = 0 \/ job.id = i
    /\ IF scope = p.scope /\ Live(i)
       THEN /\ job' = [job EXCEPT !.op = "manifest", !.id = i, !.item = items[i]]
            /\ UNCHANGED p
       ELSE /\ job' = NoJob
            /\ p' = [p EXCEPT !.ids = @ \ {i}]
    /\ UNCHANGED <<memory, owed, busy, xfer, reconciled, disk, history, used>>

RoundsLeftMutant == job.round < MaxRounds   \* one too many
RoundsLeft == job.round + 1 < MaxRounds

PersistWritten ==
    LET i == job.id
        newly == i \notin indexedIds IN
    IF ~(scope = p.scope /\ Live(i))
    THEN /\ job' = NoJob
         /\ p' = [p EXCEPT !.ids = @ \ {i}]
         /\ UNCHANGED <<indexedIds, owed>>
    ELSE /\ indexedIds' = indexedIds \cup {i}
         /\ IF items[i] = job.item
            THEN /\ job' = NoJob
                 /\ p' = [p EXCEPT !.ids = @ \ {i}, !.index = @ \/ newly]
                 /\ UNCHANGED owed
            ELSE IF RoundsLeft
            THEN /\ job' = [job EXCEPT !.op = "none", !.round = @ + 1]
                 /\ p' = [p EXCEPT !.index = @ \/ newly]
                 /\ UNCHANGED owed
            ELSE /\ job' = NoJob
                 /\ p' = [p EXCEPT !.ids = @ \ {i}, !.index = @ \/ newly]
                 /\ owed' = [owed EXCEPT !.ids = @ \cup {i}]

PersistWrite ==
    /\ job.op = "manifest"
    /\ \/ /\ NoFault
          /\ manifest' = [manifest EXCEPT ![p.scope][job.id] = job.item]
          /\ PersistWritten
       \/ /\ Fault
          /\ job' = NoJob
          /\ p' = [p EXCEPT !.ids = @ \ {job.id},
                            !.retryIds = IF scope = p.scope /\ Live(job.id)
                                         THEN @ \cup {job.id} ELSE @]
          /\ UNCHANGED <<manifest, indexedIds, owed>>
    /\ UNCHANGED <<scope, items, loading, fresh, lateScan, deleteRequested,
                   busy, xfer, reconciled, index, bytes, away, leftover, history>>

(* 7. The index: the live ids that have a manifest, copied under the lock; written, and *)
(* written again while that set keeps changing.                                          *)
Listed == {i \in indexedIds : Live(i)}

IndexDone == job' = NoJob /\ p' = [p EXCEPT !.index = FALSE]
IndexOwed == job' = NoJob /\ p' = [p EXCEPT !.index = FALSE, !.retryIndex = TRUE]
\* The next round, or a later pass when the rounds have run out (more: what else is owed now).
IndexAgain(more) ==
    IF RoundsLeft
    THEN /\ job' = [NoJob EXCEPT !.round = job.round + 1]
         /\ owed' = more
         /\ UNCHANGED p
    ELSE IndexDone /\ owed' = [more EXCEPT !.index = TRUE]

IndexCopy ==
    /\ AtIndex /\ Idle
    /\ p.index
    /\ IF scope # p.scope \/ loading \/ (fresh /\ Listed = {})
       THEN IndexDone
       ELSE /\ job' = [job EXCEPT !.op = IF lateScan THEN "late"
                                         ELSE IF fresh THEN "fresh" ELSE "index",
                                  !.ids = Listed]
            /\ UNCHANGED p
    /\ UNCHANGED <<memory, owed, busy, xfer, reconciled, disk, history, used>>

IndexWrite ==
    /\ job.op = "index"
    /\ \/ /\ NoFault
          /\ index' = [index EXCEPT ![p.scope] = job.ids]
          /\ IF scope # p.scope \/ Listed = job.ids
             THEN IndexDone /\ UNCHANGED owed ELSE IndexAgain(owed)
       \/ /\ Fault
          /\ IF scope # p.scope THEN IndexDone ELSE IndexOwed
          /\ UNCHANGED <<index, owed>>
    /\ UNCHANGED <<memory, busy, xfer, reconciled, manifest, bytes, away, leftover, history>>

(* The library was read as "nothing there": what storage holds by now is looked at again and *)
(* only an index that does not exist is created.                                              *)
IndexLook ==
    /\ job.op = "fresh"
    /\ \/ /\ NoFault
          /\ IF scope # p.scope THEN IndexDone
             ELSE LET foreign == \E i \in ReadIds(scope) : ~Live(i) /\ ~IsBusy(scope, i) IN
                  /\ job' = [job EXCEPT !.op = "create",
                                        !.flag = ReadStatus(scope) = "Loaded" \/ foreign]
                  /\ UNCHANGED p
       \/ Fault /\ IndexOwed
    /\ UNCHANGED <<memory, owed, busy, xfer, reconciled, disk, history>>

Reload ==
    IF scope = p.scope
    THEN /\ loading' = TRUE /\ fresh' = FALSE
         /\ owed' = [owed EXCEPT !.load = TRUE, !.index = TRUE]
    ELSE UNCHANGED <<loading, fresh, owed>>

Established ==
    IF scope # p.scope
    THEN IndexDone /\ UNCHANGED <<fresh, lateScan, owed>>
    ELSE /\ fresh' = FALSE /\ lateScan' = TRUE
         /\ LET more == [owed EXCEPT !.index = TRUE] IN
            IF Listed = job.ids THEN IndexDone /\ owed' = more ELSE IndexAgain(more)

IndexCreate ==
    LET s == p.scope IN
    /\ job.op = "create"
    /\ \/ /\ job.flag \/ index[s] # NoIndex
          /\ NoFault
          /\ IndexDone
          /\ Reload
          /\ UNCHANGED <<index, lateScan>>
       \/ /\ ~job.flag /\ index[s] = NoIndex
          /\ NoFault
          /\ index' = [index EXCEPT ![s] = job.ids]
          /\ Established
          /\ UNCHANGED loading
       \/ /\ ~job.flag /\ index[s] = NoIndex
          /\ Fault
          /\ index' \in {index, [index EXCEPT ![s] = BadIndex]}
          /\ IndexOwed
          /\ UNCHANGED <<loading, fresh, lateScan, owed>>
    /\ UNCHANGED <<scope, items, indexedIds, deleteRequested,
                   busy, xfer, reconciled, manifest, bytes, away, leftover, history>>

(* Manifests may sit beside an index created without them: they are merged before the index *)
(* is written again.                                                                          *)
IndexLateScan ==
    /\ job.op = "late"
    /\ \/ /\ NoFault
          /\ IF scope # p.scope
             THEN IndexDone /\ UNCHANGED <<items, indexedIds, lateScan, owed>>
             ELSE /\ items' = Merged(ScanItems(scope))
                  /\ indexedIds' = indexedIds \cup MergedIds(ScanItems(scope))
                  /\ lateScan' = FALSE
                  /\ IndexAgain(owed)
       \/ Fault /\ IndexOwed /\ UNCHANGED <<items, indexedIds, lateScan, owed>>
    /\ UNCHANGED <<scope, loading, fresh, deleteRequested,
                   busy, xfer, reconciled, disk, history>>


(* The end of a pass: what failed is owed again while its account is the current one. *)
EndPass ==
    /\ AtIndex /\ Idle
    /\ ~p.index
    /\ p' = IdlePass
    /\ job' = NoJob
    /\ owed' = IF scope = p.scope
               THEN [owed EXCEPT !.ids = @ \cup p.retryIds, !.index = @ \/ p.retryIndex]
               ELSE owed
    /\ UNCHANGED <<memory, busy, xfer, reconciled, disk, history, used>>

(***************************************************************************)
(* The environment.                                                        *)
(***************************************************************************)
(* Storage that was away at start-up is there again, with the library it holds.  (What has *)
(* been given an index meanwhile was there.  An item that comes back in the middle of its   *)
(* own removal is left out: the item removed and the item found are the same id.)           *)
Reappear ==
    /\ away
    /\ away' = FALSE
    /\ \E s \in Scopes, src \in Sources :
         LET old == {i \in LateIds : manifest[s][i] = NoItem} IN
         /\ index[s] = NoIndex
         /\ \A i \in LateIds : ~IsBusy(s, i) /\ i \notin p.patches[s] \cup owed.patches[s]
         /\ manifest' = [manifest EXCEPT ![s] = [i \in Ids |->
                IF i \in old THEN [st |-> "Complete", src |-> src, counted |-> TRUE] ELSE @[i]]]
         /\ bytes' = [bytes EXCEPT ![s] = [i \in Ids |-> IF i \in old THEN src ELSE @[i]]]
         /\ index' \in {index, [index EXCEPT ![s] = LateIds]}
         /\ library' = [library EXCEPT ![s] =
                @ \cup {i \in old : ~(s = scope /\ i \in deleteRequested)}]
    /\ UNCHANGED <<memory, owed, busy, p, job, xfer, reconciled, leftover, forgotten, used>>

(* The process dies; the next one reads what is on disk.  Only that can be asked for then. *)
Crash(s) ==
    /\ used.crashes < MaxCrashes
    /\ used' = [used EXCEPT !.crashes = @ + 1]
    /\ StartScope(s)
    /\ lateScan' = FALSE /\ deleteRequested' = {}
    /\ owed' = [NothingOwed EXCEPT !.load = TRUE]
    /\ busy' = [t \in Scopes |-> [i \in Ids |-> 0]]
    /\ p' = IdlePass /\ job' = NoJob
    /\ xfer' = NoXfer /\ reconciled' = {}
    /\ library' = [t \in Scopes |-> ReadIds(t)]
    /\ forgotten' = NoPatches
    /\ UNCHANGED disk

UserStep ==
    \/ \E s \in Scopes : Configure(s)
    \/ \E i \in Ids :
         \/ Pause(i) \/ Resume(i) \/ EraseRunning(i) \/ Erase(i)
         \/ \E src \in Sources : Enqueue(i, src) \/ Redownload(i, src)

ReconcilerStep == ReconcileEnd \/ \E i \in Ids, src \in Sources : ReconcileChanged(i, src)

TransferStep ==
    \/ \E i \in Ids : TransferStart(i)
    \/ TransferDiscover \/ TransferSegment \/ TransferValidate \/ TransferEnd

StorageStep ==
    \/ TakeWork \/ RemoveManifest \/ TakeLoads \/ RunLoad
    \/ RescanRead \/ RescanMerge \/ PersistWrite
    \/ IndexCopy \/ IndexWrite \/ IndexLook \/ IndexCreate \/ IndexLateScan \/ EndPass
    \/ \E i \in Ids : RescanCopy(i) \/ PersistCopy(i)
    \/ \E s \in Scopes : \/ FinalBegin(s) \/ FinalIndex(s) \/ PatchIndex(s)
                         \/ \E i \in Ids : FinalManifest(s, i) \/ RemoveBytes(s, i)

Next == UserStep \/ ReconcilerStep \/ TransferStep \/ StorageStep \/ Reappear
        \/ \E s \in Scopes : Crash(s)

(* The storage thread is always scheduled. *)
Fairness == WF_vars(StorageStep)

Spec == Init /\ [][Next]_vars /\ Fairness

(***************************************************************************)
(* Properties.                                                             *)
(***************************************************************************)
FinalWrite == [items : Library, complete : BOOLEAN]
FinalQueues == [Scopes -> Seq(FinalWrite)]
RemovalQueues == [Scopes -> [Ids -> Seq(Removals)]]
ScopeIds == [Scopes -> SUBSET Ids]

Owed == [finals : FinalQueues, removals : RemovalQueues, patches : ScopeIds,
         ids : SUBSET Ids, rescans : SUBSET Ids, rescanAll : BOOLEAN,
         index : BOOLEAN, load : BOOLEAN]
Pass == [on : BOOLEAN, scope : Scopes, current : BOOLEAN, finals : FinalQueues,
         final : [on : BOOLEAN, scope : Scopes, left : SUBSET Ids, listed : SUBSET Ids,
                  merged : BOOLEAN, ok : BOOLEAN],
         retryFinals : FinalQueues, removals : RemovalQueues, patches : ScopeIds,
         loaded : BOOLEAN, load : BOOLEAN, rescans : SUBSET Ids, ids : SUBSET Ids,
         retryIds : SUBSET Ids, index : BOOLEAN, retryIndex : BOOLEAN]
Job  == [op : {"none", "unlink", "rescan", "scanned", "manifest", "index", "late", "fresh",
               "create"},
         scope : Scopes, id : Ids, item : Item \cup {NoItem}, ids : SUBSET Ids,
         flag : BOOLEAN, round : 0 .. MaxRounds - 1]
Transfer == [id : Ids, scope : Scopes, src : Sources, current : BOOLEAN,
             phase : {"starting", "fetching", "cut", "renamed", "validated", "invalid"}]

Used == [edits : 0 .. MaxEdits, switches : 0 .. MaxSwitches,
         faults : 0 .. MaxFaults, crashes : 0 .. MaxCrashes]

MemoryOK ==
    /\ scope \in Scopes
    /\ items \in Library
    /\ loading \in BOOLEAN /\ fresh \in BOOLEAN /\ lateScan \in BOOLEAN
    /\ indexedIds \subseteq Ids
    /\ deleteRequested \subseteq Ids

WorkOK ==
    /\ owed \in Owed
    /\ busy \in [Scopes -> [Ids -> Nat]]
    /\ p \in Pass
    /\ job \in Job
    /\ xfer \in Transfer \cup {NoXfer}
    /\ reconciled \subseteq Ids

DiskOK ==
    /\ manifest \in [Scopes -> Library]
    /\ index \in [Scopes -> {NoIndex, BadIndex} \cup SUBSET Ids]
    /\ bytes \in [Scopes -> [Ids -> Sources \cup {NoBytes}]]
    /\ away \in BOOLEAN

HistoryOK == library \in ScopeIds /\ forgotten \in ScopeIds /\ leftover \in ScopeIds

(* The type of every variable. *)
TypeOK == MemoryOK /\ WorkOK /\ DiskOK /\ HistoryOK /\ used \in Used

Settled == ~HasWork /\ ~p.on /\ xfer = NoXfer /\ reconciled = {}

(* A manifest that says Downloading stands for a queued item: it is read back as one. *)
SameItem(a, b) == a # NoItem /\ b # NoItem /\ Requeued(a) = Requeued(b)

(* Whenever nothing is owed, a read of the current account (which trusts its index if that is *)
(* usable) finds exactly the live items, each as memory has it.  (A library that was read as empty and *)
(* has got nothing since has not been looked at again.)                                        *)
SettledDisk ==
    Settled /\ ~(fresh /\ items = Empty) =>
               /\ ReadIds(scope) = IdsOf(items)
               /\ \A i \in IdsOf(items) : SameItem(manifest[scope][i], items[i])

(* Whenever nothing is owed, no manifest is left of anything that is not live, and none has *)
(* been passed over.                                                                         *)
NoOrphans == Settled /\ ~(fresh /\ items = Empty) => OnDisk(scope) = IdsOf(items)

(* An id with removal work outstanding stays busy until the last of it is done, across account *)
(* switches and failed passes, and no longer.                                                  *)
BusyExact ==
    \A s \in Scopes, i \in Ids :
        busy[s][i] = Len(owed.removals[s][i]) + Len(p.removals[s][i])

(* What the user erased never comes back: whatever is live, the user has put there, or has   *)
(* just erased under a running transfer that is going to remove it.  It does come back when  *)
(* configure() drops the flag of such a deletion (DownloadManager.cpp:97): forgotten.        *)
NoResurrection == IdsOf(items) \subseteq library[scope] \cup deleteRequested \cup forgotten[scope]

(* What the user put into a library and did not erase is held somewhere: in memory, in a final *)
(* write still owed, or in a manifest.                                                         *)
InFinals(i, q) == \E n \in 1 .. Len(q) : q[n].items[i] # NoItem
NothingLost ==
    \A s \in Scopes : \A i \in library[s] :
        \/ s = scope /\ Live(i)
        \/ manifest[s][i] # NoItem
        \/ InFinals(i, owed.finals[s]) \/ InFinals(i, p.finals[s]) \/ InFinals(i, p.retryFinals[s])

(* A finished download never stands on another source's bytes, unless a removal of them is    *)
(* still outstanding, or removeItem() has left them and reported the item removed             *)
(* (DownloadStore.cpp:857-883): leftover.                                                     *)
NoMixedSources ==
    \A i \in Ids \ leftover[scope] : Live(i) /\ items[i].st = "Complete" /\ ~IsBusy(scope, i)
                       => bytes[scope][i] \in {items[i].src, NoBytes}

(* A transfer never starts over bytes of another source, unless removeItem() has left them. *)
StartsClean ==
    [][xfer = NoXfer /\ xfer' # NoXfer /\ xfer'.id \notin leftover[scope]
           => bytes[scope][xfer'.id] \in {xfer'.src, NoBytes}]_vars

(* Work that is owed gets done: when the requests stop, the storage thread ends up owing nothing. *)
EventuallySettled == <>[](~HasWork /\ ~p.on)
=============================================================================
