----------------------------- MODULE CatalogDb -----------------------------
(***************************************************************************)
(* The catalog database: one worker thread owns the SQLite connection of   *)
(* the account in use; every other thread leaves commands in bounded       *)
(* queues and waits for the answer.  A change of account raises an epoch   *)
(* and leaves a scope command, which the worker takes before any other.    *)
(*                                                                         *)
(* An action is one critical section of m_mutex, or one transaction on the *)
(* file, together with what the thread does alone before it.               *)
(***************************************************************************)
EXTENDS Integers, Sequences, FiniteSets

CONSTANTS
    Accounts, NoAccount,
    Readers,        \* the calls of screens and of the download planner
    Walker,         \* the thread of the authoritative walk
    PageCount,      \* pages of one walk
    MaxPendingJobs, \* kMaxPendingJobs, 32 in the code
    MaxAttempts,    \* kPageTransactionMaxAttempts, 3 in the code
    MaxEpochs,      \* bounds of the model: changes of account,
    MaxAsks,        \* reads and walks together,
    MaxFaults,      \* failing statements and file operations,
    MaxLaunches     \* launches after a crash or an exit

ASSUME Names == NoAccount \notin Accounts /\ Walker \notin Readers
ASSUME Limits == /\ {MaxPendingJobs, MaxAttempts, PageCount} \subseteq Nat \ {0}
                 /\ {MaxEpochs, MaxAsks, MaxFaults, MaxLaunches} \subseteq Nat

VARIABLES
    ui,            \* the main thread: what it is doing about the account
    requested,     \* m_requestedEpoch, m_requestedScopeKey
    owners,        \* history: the account of every epoch of this process
    scopeCommands, \* m_scopeCommands
    ready,         \* m_scopeConfigured and m_scopeReady, which change together
    db,            \* m_db: the account whose file is open
    active,        \* m_activeTopLevelSyncGeneration
    staged,        \* the TEMP tables of the connection
    queue,         \* m_queryCommands .. m_topLevelSyncCommands: the callers waiting
    call,          \* the command of each caller and its answer
    worker,        \* the worker thread and its locals
    walk,          \* the walk and its locals
    file,          \* per account, the catalog and its .migrating twin
    used           \* what has been consumed of the bounds

vars == <<ui, requested, owners, scopeCommands, ready, db, active, staged, queue, call, worker,
          walk, file, used>>
scope == <<requested, owners, scopeCommands>>
connection == <<ready, db, active, staged>>

Callers == Readers \union {Walker}
Pages == 1 .. PageCount

\* The queues, in the order the worker looks at them.
Classes == <<"query", "syncState", "mediaPage", "pageUpsert", "topLevelSync">>
QueueNames == {Classes[i] : i \in DOMAIN Classes}
ClassOf(kind) ==
    CASE kind \in {"readState", "writeState"} -> "syncState"
      [] kind \in {"begin", "finalize", "abort"} -> "topLevelSync"
      [] OTHER -> kind
NoCall == [at |-> "none", kind |-> "none", epoch |-> 0, sync |-> 0, page |-> 0,
           cancelled |-> FALSE, answer |-> "none", source |-> NoAccount]
IdleWorker == [at |-> "idle", epoch |-> 0, account |-> NoAccount, caller |-> Walker, attempt |-> 0]
\* sync and known outlive a walk: m_transactionGeneration, m_catalogGeneration.
NoWalk == [at |-> "off", id |-> 0, epoch |-> 0, sync |-> 0, known |-> 0, generation |-> 0,
           page |-> 0, cancelled |-> FALSE]

\* A catalog: version 0 is a file that is not there; rows are the pages its
\* library holds, each with the walk that brought it; keyed says that those rows
\* have their organizational_sort_key, which a walk writes with every row.
NoFile == [version |-> 0, keyed |-> TRUE, migrating |-> FALSE, library |-> {}, checkpoint |-> 0,
           dated |-> 0]
OldFile == [NoFile EXCEPT !.version = 2, !.keyed = FALSE, !.library = {0} \X Pages,
                          !.checkpoint = 1]

Stopping == ui.at = "quit"
\* m_pendingJobs.
Pending == Cardinality({c \in Callers : call[c].at = "queued"})
Fault == used.faults < MaxFaults /\ used' = [used EXCEPT !.faults = @ + 1]
NoFault == UNCHANGED used
AsksLeft == used.reads + used.walks < MaxAsks

----------------------------------------------------------------------------
\* The main thread: configureScope(), deconfigureScope(), the destructor.

RequestedMutant(account) ==   \* the command of an earlier epoch is not dropped
    /\ requested' = [epoch |-> requested.epoch + 1, account |-> account]
    /\ owners' = Append(owners, account)
    /\ scopeCommands' = Append(scopeCommands, requested')
    /\ ready' = FALSE

Requested(account) ==
    /\ requested' = [epoch |-> requested.epoch + 1, account |-> account]
    /\ owners' = Append(owners, account)
    /\ scopeCommands' = <<requested'>>
    /\ ready' = FALSE

\* The threads of the coordinator have been joined.
Joined == walk.at = "off" /\ ui.at \in {"out", "leaving"}

ConfigureScope(a) ==
    /\ Joined /\ used.epochs < MaxEpochs
    /\ Requested(a)
    /\ ui' = [at |-> "in"] /\ walk' = NoWalk
    /\ used' = [used EXCEPT !.epochs = @ + 1]
    /\ UNCHANGED <<db, active, staged, queue, call, worker, file>>

DeconfigureScope ==
    /\ Joined /\ ui.at = "leaving"
    /\ Requested(NoAccount)
    /\ ui' = [at |-> "out"]
    /\ UNCHANGED <<db, active, staged, queue, call, worker, walk, file, used>>

\* LibraryCoordinator::stop() up to its joins.
StopCoordinator ==
    /\ ui.at = "in"
    /\ ui' = [at |-> "leaving"]
    /\ walk' = [walk EXCEPT !.cancelled = TRUE]
    /\ UNCHANGED <<scope, connection, queue, call, worker, file, used>>

DestroyMutant ==   \* the queues are cleared, nobody is told
    /\ ui.at = "out"
    /\ ui' = [at |-> "quit"]
    /\ queue' = [class \in QueueNames |-> <<>>]
    /\ scopeCommands' = <<>>
    /\ UNCHANGED <<requested, owners, connection, call, worker, walk, file, used>>

\* ~CatalogDb: what is queued is answered, what runs is waited for.
Destroy ==
    /\ ui.at = "out"
    /\ ui' = [at |-> "quit"]
    /\ queue' = [class \in QueueNames |-> <<>>]
    /\ scopeCommands' = <<>>
    /\ call' = [c \in Callers |-> IF call[c].at = "queued"
                                  THEN [NoCall EXCEPT !.at = "answered", !.answer = "stopped"]
                                  ELSE call[c]]
    /\ UNCHANGED <<requested, owners, connection, worker, walk, file, used>>

\* A new process: what was in memory and in the TEMP tables is gone.
Launch ==
    /\ used.launches < MaxLaunches
    /\ ui' = [at |-> "out"]
    /\ requested' = [epoch |-> 0, account |-> NoAccount]
    /\ owners' = <<>> /\ scopeCommands' = <<>>
    /\ ready' = FALSE /\ db' = NoAccount /\ active' = 0 /\ staged' = {}
    /\ queue' = [class \in QueueNames |-> <<>>]
    /\ call' = [c \in Callers |-> NoCall]
    /\ worker' = IdleWorker /\ walk' = NoWalk
    /\ used' = [used EXCEPT !.launches = @ + 1]
    /\ UNCHANGED file

----------------------------------------------------------------------------
\* The callers: getSeasons(), readMediaPage(), readSyncState() and the others.

\* The top-level commands are queued whatever the length of the queue.
Enqueued(c, command) ==
    LET class == ClassOf(command.kind)
        full == class # "topLevelSync" /\ Pending >= MaxPendingJobs
    IN  IF full
        THEN /\ call' = [call EXCEPT ![c] = [NoCall EXCEPT !.at = "answered", !.answer = "full"]]
             /\ UNCHANGED queue
        ELSE /\ call' = [call EXCEPT ![c] = [command EXCEPT !.at = "queued"]]
             /\ queue' = [queue EXCEPT ![class] = Append(@, c)]

\* A screen keeps the LibraryQuery, and with it the epoch, it was opened with.
Read(c, kind, epoch) ==
    /\ call[c].at \in {"none", "answered"} /\ AsksLeft /\ ~Stopping
    /\ epoch \in DOMAIN owners /\ owners[epoch] \in Accounts
    /\ Enqueued(c, [NoCall EXCEPT !.kind = kind, !.epoch = epoch])
    /\ used' = [used EXCEPT !.reads = @ + 1]
    /\ UNCHANGED <<ui, scope, connection, worker, walk, file>>

Cancel(c) ==
    /\ call[c].at \in {"queued", "running"} /\ ~call[c].cancelled
    /\ call' = [call EXCEPT ![c].cancelled = TRUE]
    /\ UNCHANGED <<ui, scope, connection, queue, worker, walk, file, used>>

----------------------------------------------------------------------------
\* The worker: the scope command first, then the classes in their order.

Foremost(class) ==
    /\ queue[class] # <<>>
    /\ \E i \in DOMAIN Classes : /\ class = Classes[i]
                                 /\ \A j \in 1 .. i - 1 : queue[Classes[j]] = <<>>

\* The command at the head of a queue becomes the one the worker is at work on.
Takes(class) ==
    LET c == Head(queue[class])
    IN  /\ worker' = [IdleWorker EXCEPT !.at = class, !.caller = c]
        /\ call' = [call EXCEPT ![c].at = "running"]
        /\ queue' = [queue EXCEPT ![class] = Tail(@)]

TakeScope ==
    /\ worker.at = "idle" /\ ~Stopping /\ scopeCommands # <<>>
    /\ worker' = [IdleWorker EXCEPT !.at = "scope", !.epoch = Head(scopeCommands).epoch,
                                    !.account = Head(scopeCommands).account]
    /\ scopeCommands' = Tail(scopeCommands)
    /\ UNCHANGED <<ui, requested, owners, connection, queue, call, walk, file, used>>

TakeCommandMutant ==   \* the queues before the scope command
    /\ worker.at = "idle" /\ ~Stopping
    /\ \E class \in QueueNames : Foremost(class) /\ Takes(class)
    /\ UNCHANGED <<ui, scope, connection, walk, file, used>>

TakeCommand ==
    /\ worker.at = "idle" /\ ~Stopping /\ scopeCommands = <<>>
    /\ \E class \in QueueNames : Foremost(class) /\ Takes(class)
    /\ UNCHANGED <<ui, scope, connection, walk, file, used>>

WorkerExit ==
    /\ worker.at = "idle" /\ Stopping
    /\ worker' = [IdleWorker EXCEPT !.at = "exited"]
    /\ db' = NoAccount /\ staged' = {}
    /\ UNCHANGED <<ui, scope, ready, active, queue, call, walk, file, used>>

\* processScopeCommand(), openConnection(), bootstrapFreshDatabaseForWorker().
CurrentMutant == ~Stopping   \* the epoch is not looked at again
Current == ~Stopping /\ worker.epoch = requested.epoch
OpenFails == worker' = IdleWorker
Opening(at) == worker' = [worker EXCEPT !.at = at]

ProcessScope ==
    /\ worker.at = "scope"
    /\ IF worker.epoch # requested.epoch
       THEN OpenFails /\ UNCHANGED connection
       ELSE /\ ready' = FALSE /\ db' = NoAccount /\ active' = 0 /\ staged' = {}
            /\ IF worker.account = NoAccount THEN OpenFails ELSE Opening("inspect")
    /\ UNCHANGED <<ui, scope, queue, call, walk, file, used>>

\* A catalog that is not there is made under another name.
InspectPath ==
    /\ worker.at = "inspect"
    /\ LET a == worker.account
       IN  \/ ~Current /\ OpenFails /\ UNCHANGED file /\ NoFault
           \/ Current /\ file[a].version # 0 /\ Opening("schema") /\ UNCHANGED file /\ NoFault
           \/ /\ Current /\ file[a].version = 0 /\ NoFault
              /\ Opening("promote") /\ file' = [file EXCEPT ![a].migrating = TRUE]
           \/ Current /\ Fault /\ OpenFails /\ UNCHANGED file
    /\ UNCHANGED <<ui, scope, connection, queue, call, walk>>

PromoteCatalog ==
    /\ worker.at = "promote"
    /\ LET a == worker.account
       IN  \/ /\ Current /\ NoFault /\ Opening("schema")
              /\ file' = [file EXCEPT ![a] = [NoFile EXCEPT !.version = 3]]
           \/ ~Current /\ NoFault /\ OpenFails /\ file' = [file EXCEPT ![a].migrating = FALSE]
           \/ /\ Current /\ Fault /\ OpenFails
              /\ \E left \in BOOLEAN : file' = [file EXCEPT ![a].migrating = left]
    /\ UNCHANGED <<ui, scope, connection, queue, call, walk>>

\* ensureSchema(): the version is committed, the keys are still to be written.
EnsureSchema ==
    /\ worker.at = "schema"
    /\ LET a == worker.account
       IN  \/ file[a].version = 3 /\ NoFault /\ Opening("publish") /\ UNCHANGED file
           \/ /\ file[a].version = 2 /\ NoFault
              /\ Opening("backfill") /\ file' = [file EXCEPT ![a].version = 3]
           \/ Fault /\ OpenFails /\ UNCHANGED file
    /\ UNCHANGED <<ui, scope, connection, queue, call, walk>>

\* A row that cannot be read ends the loop as the last row does; a key that
\* cannot be written ends the opening.
Backfill ==
    /\ worker.at = "backfill"
    /\ \/ /\ NoFault /\ Opening("publish")
          /\ file' = [file EXCEPT ![worker.account].keyed = TRUE]
       \/ Fault /\ (Opening("publish") \/ OpenFails) /\ UNCHANGED file
    /\ UNCHANGED <<ui, scope, connection, queue, call, walk>>

\* A temporary file that an earlier launch left goes first, or nothing is opened.
PublishScope ==
    /\ worker.at = "publish"
    /\ OpenFails
    /\ \/ /\ NoFault /\ file' = [file EXCEPT ![worker.account].migrating = FALSE]
          /\ IF Current
             THEN ready' = TRUE /\ db' = worker.account
             ELSE UNCHANGED <<ready, db>>
       \/ /\ file[worker.account].migrating /\ Fault
          /\ UNCHANGED <<ready, db>>
          /\ \E left \in BOOLEAN : file' = [file EXCEPT ![worker.account].migrating = left]
    /\ UNCHANGED <<ui, scope, active, staged, queue, call, walk>>

----------------------------------------------------------------------------
\* The worker: commands.

Command == call[worker.caller]
Answered(answer) ==
    /\ call' = [call EXCEPT ![worker.caller] =
                   [NoCall EXCEPT !.at = "answered", !.epoch = Command.epoch, !.answer = answer,
                                  !.source = db]]
    /\ worker' = IdleWorker
Goes(at) == worker' = [worker EXCEPT !.at = at] /\ UNCHANGED call

\* The cancellation of the walk reaches its first command and its pages only: the
\* catch-up detaches it from the checkpoint, and the last checkpoint has LibrarySync's
\* own, which is set after the walk's thread was joined.
Cancelled ==
    IF worker.caller = Walker
    THEN walk.cancelled /\ (walk.at = "state" \/ Command.kind = "pageUpsert")
    ELSE Command.cancelled
ValidMutant == ready   \* whoever's command it is
Valid == ready /\ Command.epoch = requested.epoch
Refused == IF Cancelled THEN "cancelled" ELSE "rejected"
Usable == Valid /\ ~Cancelled

\* processHierarchyQuery() looks at its scope before it reads and after,
\* processMediaPage() before, and at its cancellation while it reads.
StartQuery ==
    /\ worker.at = "query"
    /\ IF Usable
       THEN (Goes("query rows") /\ NoFault) \/ (Fault /\ Answered("failed"))
       ELSE Answered(Refused) /\ NoFault
    /\ UNCHANGED <<ui, scope, connection, queue, walk, file>>

StartMediaPage ==
    /\ worker.at = "mediaPage"
    /\ IF Valid
       THEN (Goes("page rows") /\ NoFault) \/ (Fault /\ Answered("failed"))
       ELSE Answered("rejected") /\ NoFault
    /\ UNCHANGED <<ui, scope, connection, queue, walk, file>>

EndRead ==
    /\ \/ worker.at = "query rows" /\ Answered(IF Usable THEN "ok" ELSE Refused)
       \/ worker.at = "page rows" /\ Answered(IF Cancelled THEN "cancelled" ELSE "ok")
    /\ UNCHANGED <<ui, scope, connection, queue, walk, file, used>>

\* processSyncState(), which reads the stored checkpoint in one row.
ReadState ==
    /\ worker.at = "syncState" /\ Command.kind = "readState"
    /\ IF Usable
       THEN (Answered("ok") /\ NoFault) \/ (Fault /\ Answered("failed"))
       ELSE Answered(Refused) /\ NoFault
    /\ UNCHANGED <<ui, scope, connection, queue, walk, file>>

\* processSyncState(): a checkpoint that goes back is refused.
StartStateWrite ==
    /\ worker.at = "syncState" /\ Command.kind = "writeState"
    /\ IF ~Valid
       THEN Answered("rejected") /\ NoFault
       ELSE IF walk.generation < file[db].checkpoint
            THEN Answered("failed") /\ NoFault
            ELSE (Goes("update") /\ NoFault) \/ (Fault /\ Answered("failed"))
    /\ UNCHANGED <<ui, scope, connection, queue, walk, file>>

EndStateWrite ==
    /\ worker.at = "update"
    /\ IF ~Valid
       THEN Answered("rejected") /\ UNCHANGED file /\ NoFault
       ELSE \/ /\ NoFault /\ Answered("ok")
               /\ file' = [file EXCEPT ![db].checkpoint = walk.generation,
                           ![db].dated = IF walk.at = "checkpoint" THEN walk.id ELSE @]
            \/ Fault /\ Answered("failed") /\ UNCHANGED file
    /\ UNCHANGED <<ui, scope, connection, queue, walk>>

\* processMediaPageUpsert(): a page of a walk goes to the TEMP tables; the page
\* of a catch-up has no sync and changes rows only.
StartPage ==
    /\ worker.at = "pageUpsert"
    /\ IF ~Usable
       THEN Answered(Refused)
       ELSE IF Command.sync \in {0, active} THEN Goes("attempt") ELSE Answered("rejected")
    /\ UNCHANGED <<ui, scope, connection, queue, walk, file, used>>

\* attemptMediaPageUpsert() up to its last look at the scope.
AttemptPage ==
    /\ worker.at = "attempt"
    /\ IF Usable THEN Goes("commit") ELSE Answered(Refused)
    /\ UNCHANGED <<ui, scope, connection, queue, walk, file, used>>

\* BUSY, LOCKED and FULL are tried again; the last attempt ends the loop.
Retried ==
    IF worker.attempt + 1 < MaxAttempts
    THEN worker' = [worker EXCEPT !.at = "attempt", !.attempt = @ + 1] /\ UNCHANGED call
    ELSE Answered("failed")

Staged ==
    IF Command.sync = 0 THEN staged ELSE staged \union {<<Command.sync, walk.id, Command.page>>}

PageResultMutant ==   \* a page that was rolled back counts as written
    \/ Answered("ok") /\ NoFault /\ staged' = Staged
    \/ Fault /\ (Retried \/ Answered("ok")) /\ UNCHANGED staged

PageResult ==
    \/ Answered("ok") /\ NoFault /\ staged' = Staged
    \/ Fault /\ (Retried \/ Answered("failed")) /\ UNCHANGED staged

CommitPage ==
    /\ worker.at = "commit"
    /\ PageResult
    /\ UNCHANGED <<ui, scope, ready, db, active, queue, walk, file>>

\* processTopLevelSync(), under m_mutex from its check to its answer.
Begin ==
    \/ Answered("ok") /\ staged' = {} /\ active' = Command.sync /\ NoFault
    \/ Fault /\ Answered("failed") /\ staged' \in {staged, {}} /\ UNCHANGED active

Finalize ==
    IF active # Command.sync
    THEN Answered("rejected") /\ UNCHANGED <<file, staged, active, used>>
    ELSE \/ /\ Answered("ok")
            /\ file' = [file EXCEPT ![db].keyed = TRUE, ![db].library =
                           {<<row[2], row[3]>> : row \in {s \in staged : s[1] = Command.sync}}]
            /\ active' = 0
            /\ (staged' = {} /\ NoFault) \/ (UNCHANGED staged /\ Fault)
         \/ Fault /\ Answered("failed") /\ UNCHANGED <<file, staged, active>>

Abort ==
    /\ active' = IF active = Command.sync THEN 0 ELSE active
    /\ (Answered("ok") /\ NoFault) \/ (Fault /\ Answered("failed"))

TopLevelSync ==
    /\ worker.at = "topLevelSync"
    /\ IF ~Valid
       THEN Answered("rejected") /\ UNCHANGED <<file, staged, active, used>>
       ELSE \/ Command.kind = "begin" /\ Begin /\ UNCHANGED file
            \/ Command.kind = "finalize" /\ Finalize
            \/ Command.kind = "abort" /\ Abort /\ UNCHANGED <<file, staged>>
    /\ UNCHANGED <<ui, scope, ready, db, queue, walk>>

----------------------------------------------------------------------------
\* The walk: requestSafetyReconcile() and reconcileAuthoritativeMembership().

Answer == call[Walker].answer
Replied(at) == walk.at = at /\ call[Walker].at = "answered"
Asks(kind, w) ==
    /\ walk' = w
    /\ Enqueued(Walker, [NoCall EXCEPT !.kind = kind, !.epoch = w.epoch, !.page = w.page,
                                       !.sync = IF w.at = "changes" THEN 0 ELSE w.sync])
Stops(w) == walk' = [w EXCEPT !.at = "off"] /\ UNCHANGED <<queue, call>>
Begins(w) == Asks("begin", [w EXCEPT !.at = "begin", !.sync = @ + 1])
Gives(w) == Asks("abort", [w EXCEPT !.at = "abort"])
Larger(m, n) == IF m < n THEN n ELSE m

StartWalk ==
    /\ ui.at = "in" /\ walk.at = "off" /\ AsksLeft
    /\ Asks("readState", [walk EXCEPT !.at = "state", !.id = used.walks + 1, !.page = 0,
                                      !.epoch = requested.epoch])
    /\ used' = [used EXCEPT !.walks = @ + 1]
    /\ UNCHANGED <<ui, scope, connection, worker, file>>

\* A stored checkpoint is brought up to date first: what has changed is written
\* as one page, if anything has, and the checkpoint is read again and dated.
CatchesUp(w) ==
    \/ Asks("pageUpsert", [w EXCEPT !.at = "changes"])
    \/ Asks("readState", [w EXCEPT !.at = "date"])

\* The server is asked in between, and may not answer.
WalkState ==
    /\ Replied("state")
    /\ LET stored == file[call[Walker].source].checkpoint
           known == Larger(walk.known, stored)
           seeded == [walk EXCEPT !.known = known, !.sync = Larger(@, stored),
                                  !.generation = known + 1]
       IN  \/ Answer # "ok" /\ Stops(walk)
           \/ Answer = "ok" /\ Stops(seeded)
           \/ /\ Answer = "ok" /\ ~walk.cancelled
              /\ IF stored = 0 THEN Begins(seeded) ELSE CatchesUp(seeded)
    /\ UNCHANGED <<ui, scope, connection, worker, file, used>>

WalkCatchUp ==
    /\ \/ Replied("changes") /\ Answer = "ok" /\ Asks("readState", [walk EXCEPT !.at = "date"])
       \/ Replied("date") /\ Answer = "ok" /\ Asks("writeState", [walk EXCEPT !.at = "dated"])
       \/ (Replied("changes") \/ Replied("date")) /\ Answer # "ok" /\ Stops(walk)
    /\ UNCHANGED <<ui, scope, connection, worker, file, used>>

WalkDated ==
    /\ Replied("dated")
    /\ LET dated == [walk EXCEPT !.known = Larger(@, walk.generation)]
       IN  \/ Answer # "ok" /\ Stops(walk)
           \/ Answer = "ok" /\ Stops(dated)
           \/ Answer = "ok" /\ ~walk.cancelled /\ Begins(dated)
    /\ UNCHANGED <<ui, scope, connection, worker, file, used>>

\* One page after the other, then the commit; any failure gives the sync up.
NextPage(w) ==
    IF w.page < PageCount
    THEN Asks("pageUpsert", [w EXCEPT !.at = "page", !.page = @ + 1])
    ELSE Asks("finalize", [w EXCEPT !.at = "finalize"])

WalkBegin ==
    /\ Replied("begin")
    /\ \/ Answer # "ok" /\ Stops(walk)
       \/ Answer = "ok" /\ ~walk.cancelled /\ NextPage(walk)
       \/ Answer = "ok" /\ Gives(walk)
    /\ UNCHANGED <<ui, scope, connection, worker, file, used>>

WalkPage ==
    /\ Replied("page")
    /\ \/ Answer = "ok" /\ ~walk.cancelled /\ NextPage(walk)
       \/ Gives(walk)
    /\ UNCHANGED <<ui, scope, connection, worker, file, used>>

WalkFinalizeMutant ==   \* whatever became of the commit
    /\ Replied("finalize")
    /\ Asks("writeState", [walk EXCEPT !.at = "checkpoint", !.known = Larger(@, walk.generation)])
    /\ UNCHANGED <<ui, scope, connection, worker, file, used>>

\* The checkpoint follows the commit, cancelled or not.
WalkFinalize ==
    /\ Replied("finalize")
    /\ IF Answer = "ok"
       THEN Asks("writeState", [walk EXCEPT !.at = "checkpoint",
                                            !.known = Larger(@, walk.generation)])
       ELSE Stops(walk)
    /\ UNCHANGED <<ui, scope, connection, worker, file, used>>

WalkEnd ==
    /\ Replied("checkpoint") \/ Replied("abort")
    /\ Stops(walk)
    /\ UNCHANGED <<ui, scope, connection, worker, file, used>>

----------------------------------------------------------------------------
Init ==
    /\ ui = [at |-> "out"]
    /\ requested = [epoch |-> 0, account |-> NoAccount]
    /\ owners = <<>> /\ scopeCommands = <<>>
    /\ ready = FALSE /\ db = NoAccount /\ active = 0 /\ staged = {}
    /\ queue = [class \in QueueNames |-> <<>>]
    /\ call = [c \in Callers |-> NoCall]
    /\ worker = IdleWorker /\ walk = NoWalk
    /\ file \in [Accounts -> {NoFile, OldFile}]
    /\ used = [epochs |-> 0, reads |-> 0, walks |-> 0, faults |-> 0, launches |-> 0]

UiStep ==
    \/ \E a \in Accounts : ConfigureScope(a)
    \/ DeconfigureScope \/ StopCoordinator \/ Destroy \/ Launch

ReaderStep ==
    \E c \in Readers :
        \/ Cancel(c)
        \/ \E kind \in {"query", "mediaPage"}, epoch \in 1 .. requested.epoch : Read(c, kind, epoch)

ScopeStep ==
    \/ TakeScope \/ ProcessScope \/ InspectPath \/ PromoteCatalog
    \/ EnsureSchema \/ Backfill \/ PublishScope

CommandStep ==
    \/ TakeCommand \/ StartQuery \/ StartMediaPage \/ EndRead
    \/ ReadState \/ StartStateWrite \/ EndStateWrite
    \/ StartPage \/ AttemptPage \/ CommitPage \/ TopLevelSync

WorkerStep == ScopeStep \/ CommandStep \/ WorkerExit

WalkStep == WalkState \/ WalkCatchUp \/ WalkDated \/ WalkBegin \/ WalkPage \/ WalkFinalize \/ WalkEnd

Next == UiStep \/ ReaderStep \/ WorkerStep \/ StartWalk \/ WalkStep

Spec == Init /\ [][Next]_vars

----------------------------------------------------------------------------
Owners == Accounts \union {NoAccount}
Scopes == [epoch : Nat, account : Owners]
Kinds == {"none", "query", "mediaPage", "readState", "writeState", "pageUpsert", "begin",
          "finalize", "abort"}
Answers == {"none", "ok", "failed", "rejected", "cancelled", "full", "stopped"}
Calls == [at : {"none", "queued", "running", "answered"}, kind : Kinds, epoch : Nat, sync : Nat,
          page : Nat, cancelled : BOOLEAN, answer : Answers, source : Owners]
ScopeStages == {"scope", "inspect", "promote", "schema", "backfill", "publish"}
CommandStages == {"query", "query rows", "mediaPage", "page rows", "syncState", "update",
                  "pageUpsert", "attempt", "commit", "topLevelSync"}
WorkerStates == [at : {"idle", "exited"} \union ScopeStages \union CommandStages, epoch : Nat,
                 account : Owners, caller : Callers, attempt : Nat]
WalkStages == {"off", "state", "changes", "date", "dated", "begin", "page", "finalize",
               "checkpoint", "abort"}
Walks == [at : WalkStages, id : Nat, epoch : Nat, sync : Nat, known : Nat, generation : Nat,
          page : Nat, cancelled : BOOLEAN]
Catalogs == [version : {0, 2, 3}, keyed : BOOLEAN, migrating : BOOLEAN,
             library : SUBSET (Nat \X Pages), checkpoint : Nat, dated : Nat]
Use == [epochs : Nat, reads : Nat, walks : Nat, faults : Nat, launches : Nat]
TypeOK ==
    /\ ui \in [at : {"out", "in", "leaving", "quit"}]
    /\ requested \in Scopes
    /\ owners \in Seq(Owners) /\ Len(owners) = requested.epoch
    /\ scopeCommands \in Seq(Scopes) /\ Len(scopeCommands) <= 1
    /\ ready \in BOOLEAN /\ db \in Owners
    /\ active \in Nat /\ staged \subseteq (Nat \X Nat \X Pages)
    /\ queue \in [QueueNames -> Seq(Callers)]
    /\ call \in [Callers -> Calls]
    /\ worker \in WorkerStates
    /\ walk \in Walks
    /\ file \in [Accounts -> Catalogs]
    /\ used \in Use

\* A scope that is ready is the account asked for last, open in a finished
\* file, with nothing left of its making (openConnection()'s second look at
\* the epoch, CatalogDbSchema.cpp:286).
ReadyFile ==
    ready => /\ db = requested.account /\ db \in Accounts
             /\ file[db].version = 3 /\ ~file[db].migrating

\* What a caller gets as an answer comes from the account its command was made
\* for, however many accounts came in between.
OwnAccount ==
    \A c \in Callers : call[c].answer = "ok" => call[c].source = owners[call[c].epoch]

\* A library is all the pages of one walk, or none: no page that failed, was
\* refused or belongs to another sync is missing from it or mixed into it.
LibraryWhole ==
    \A a \in Accounts : \/ file[a].library = {}
                        \/ \E id \in 0 .. used.walks : file[a].library = {id} \X Pages

\* The checkpoint never dates a walk whose library was not committed
\* (LibraryCoordinatorMaintenance.cpp:162-165).
CheckpointBehind ==
    \A a \in Accounts : file[a].dated > 0 =>
        \E row \in file[a].library : row[1] >= file[a].dated

\* A command for the account in use is refused only when it was cancelled or
\* the opening of that account has been tried and has failed: not because the
\* worker came to it before the scope command, nor by an inactive sync.
NotTurnedAway ==
    [][\A c \in Callers :
          call[c].at = "running" /\ call[c]'.answer = "rejected" /\ call[c].epoch = requested.epoch
          => ~ready /\ scopeCommands = <<>>]_vars

\* Nobody waits for nobody: while a command is not answered the worker can go
\* on, in a sign-out and at the end of the program too (the destructor's
\* fulfillStoppedCommands()), and the walk a sign-out joins can go on or waits
\* for such a command.
NobodyStuck ==
    /\ (\E c \in Callers : call[c].at \in {"queued", "running"}) => ENABLED WorkerStep
    /\ walk.at # "off" => ENABLED (WorkerStep \/ WalkStep)

\* The rows of a catalog that is ready have their sort keys: the diagnostic at
\* CatalogDbSchema.cpp:256 says of an opening that skips the backfill that it
\* does so because "schema_has_canonical_keys".
KeysCanonical == ready => file[db].keyed
=============================================================================
