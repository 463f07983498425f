-------------------------- MODULE CatalogDbProofs --------------------------
(***************************************************************************)
(* Proofs about CatalogDb, for any accounts, readers, limits and bounds.   *)
(***************************************************************************)
EXTENDS CatalogDb, TLAPS

----------------------------------------------------------------------------
(* Types *)

LEMMA QueueList == QueueNames = {"query", "syncState", "mediaPage", "pageUpsert", "topLevelSync"}
<1>1. DOMAIN Classes = 1 .. 5
  BY DEF Classes
<1>2. /\ Classes[1] = "query" /\ Classes[2] = "syncState" /\ Classes[3] = "mediaPage"
      /\ Classes[4] = "pageUpsert" /\ Classes[5] = "topLevelSync"
  BY DEF Classes
<1>3. QED
  BY <1>1, <1>2 DEF QueueNames

LEMMA ClassType ==
  ASSUME NEW kind \in Kinds, kind # "none"
  PROVE  ClassOf(kind) \in QueueNames
  BY QueueList DEF ClassOf, Kinds

LEMMA Samples == NoCall \in Calls /\ IdleWorker \in WorkerStates /\ NoWalk \in Walks
                 /\ NoFile \in Catalogs /\ OldFile \in Catalogs
<1>1. NoCall \in Calls
  BY DEF NoCall, Calls, Kinds, Answers, Owners
<1>2. IdleWorker \in WorkerStates
  BY DEF IdleWorker, WorkerStates, Callers, Owners
<1>3. NoWalk \in Walks
  BY DEF NoWalk, Walks, WalkStages
<1>4. NoFile \in Catalogs
  BY DEF NoFile, Catalogs
<1>5. OldFile \in Catalogs
  <2>1. {0} \X Pages \in SUBSET (Nat \X Pages)
    OBVIOUS
  <2>2. QED
    BY <2>1, <1>4 DEF OldFile, Catalogs
<1>6. QED
  BY <1>1, <1>2, <1>3, <1>4, <1>5

LEMMA EnqueuedType ==
  ASSUME TypeOK, NEW c \in Callers, NEW command \in Calls, command.kind # "none",
         Enqueued(c, command)
  PROVE  call' \in [Callers -> Calls] /\ queue' \in [QueueNames -> Seq(Callers)]
<1>1. ClassOf(command.kind) \in QueueNames
  BY ClassType DEF Calls
<1>2. /\ [NoCall EXCEPT !.at = "answered", !.answer = "full"] \in Calls
      /\ [command EXCEPT !.at = "queued"] \in Calls
  BY Samples DEF Calls, Answers
<1>3. call \in [Callers -> Calls] /\ queue \in [QueueNames -> Seq(Callers)]
  BY DEF TypeOK
<1>4. Append(queue[ClassOf(command.kind)], c) \in Seq(Callers)
  BY <1>1, <1>3
<1>5. \/ /\ call' = [call EXCEPT ![c] = [NoCall EXCEPT !.at = "answered", !.answer = "full"]]
         /\ queue' = queue
      \/ /\ call' = [call EXCEPT ![c] = [command EXCEPT !.at = "queued"]]
         /\ queue' = [queue EXCEPT ![ClassOf(command.kind)] = Append(@, c)]
  BY Zenon DEF Enqueued
<1>6. QED
  BY <1>1, <1>2, <1>3, <1>4, <1>5

LEMMA AnsweredType ==
  ASSUME TypeOK, NEW answer \in Answers, Answered(answer)
  PROVE  call' \in [Callers -> Calls] /\ worker' \in WorkerStates
<1>1. Command \in Calls
  BY DEF Command, TypeOK, WorkerStates
<1>2. [NoCall EXCEPT !.at = "answered", !.epoch = Command.epoch, !.answer = answer, !.source = db]
        \in Calls
  BY <1>1, Samples DEF Calls, TypeOK
<1>3. QED
  BY <1>2, Samples DEF Answered, TypeOK

LEMMA GoesType ==
  ASSUME TypeOK, NEW at \in CommandStages, Goes(at)
  PROVE  call' \in [Callers -> Calls] /\ worker' \in WorkerStates
  BY DEF Goes, TypeOK, WorkerStates

LEMMA AsksType ==
  ASSUME TypeOK, NEW kind \in Kinds, kind # "none", NEW w \in Walks, Asks(kind, w)
  PROVE  /\ call' \in [Callers -> Calls] /\ queue' \in [QueueNames -> Seq(Callers)]
         /\ walk' \in Walks
<1> DEFINE command == [NoCall EXCEPT !.kind = kind, !.epoch = w.epoch, !.page = w.page,
                                     !.sync = IF w.at = "changes" THEN 0 ELSE w.sync]
<1>1. command \in Calls /\ command.kind # "none"
  BY Samples DEF Calls, Walks, NoCall
<1>2. Walker \in Callers /\ Enqueued(Walker, command) /\ walk' = w
  BY DEF Asks, Callers
<1>3. QED
  BY <1>1, <1>2, EnqueuedType

LEMMA RequestedType ==
  ASSUME TypeOK, NEW account \in Owners, Requested(account)
  PROVE  /\ requested' \in Scopes /\ owners' \in Seq(Owners) /\ Len(owners') = requested'.epoch
         /\ scopeCommands' \in Seq(Scopes) /\ Len(scopeCommands') <= 1 /\ ready' \in BOOLEAN
<1>1. requested' \in Scopes
  BY DEF Requested, TypeOK, Scopes
<1>2. owners' \in Seq(Owners) /\ Len(owners') = Len(owners) + 1
  BY DEF Requested, TypeOK
<1>3. scopeCommands' = <<requested'>> /\ ready' = FALSE /\ requested'.epoch = requested.epoch + 1
  BY DEF Requested
<1>4. <<requested'>> \in Seq(Scopes) /\ Len(<<requested'>>) = 1
  BY <1>1
<1>5. Len(owners) = requested.epoch /\ Len(owners) \in Nat
  BY DEF TypeOK
<1>6. Len(owners') = requested'.epoch
  BY <1>2, <1>3, <1>5
<1>7. scopeCommands' \in Seq(Scopes) /\ Len(scopeCommands') <= 1
  BY <1>3, <1>4
<1>8. QED
  BY <1>1, <1>2, <1>3, <1>6, <1>7

LEMMA Counted ==
  ASSUME used \in Use
  PROVE  /\ [used EXCEPT !.epochs = @ + 1] \in Use /\ [used EXCEPT !.reads = @ + 1] \in Use
         /\ [used EXCEPT !.walks = @ + 1] \in Use /\ [used EXCEPT !.faults = @ + 1] \in Use
         /\ [used EXCEPT !.launches = @ + 1] \in Use
<1>1. /\ used.epochs + 1 \in Nat /\ used.reads + 1 \in Nat /\ used.walks + 1 \in Nat
      /\ used.faults + 1 \in Nat /\ used.launches + 1 \in Nat
  BY DEF Use
<1>2. QED
  BY <1>1 DEF Use

LEMMA UiType == ASSUME TypeOK, UiStep PROVE TypeOK'
<1>1. ASSUME NEW a \in Accounts, ConfigureScope(a) PROVE TypeOK'
  <2>1. a \in Owners /\ Requested(a)
    BY <1>1 DEF ConfigureScope, Owners
  <2>2. used' \in Use
    BY <1>1, Counted DEF ConfigureScope, TypeOK
  <2>3. QED
    BY <1>1, <2>1, <2>2, RequestedType, Samples DEF ConfigureScope, TypeOK
<1>2. CASE DeconfigureScope
  <2>1. NoAccount \in Owners /\ Requested(NoAccount)
    BY <1>2 DEF DeconfigureScope, Owners
  <2>2. QED
    BY <1>2, <2>1, RequestedType DEF DeconfigureScope, TypeOK
<1>3. CASE StopCoordinator
  BY <1>3 DEF StopCoordinator, TypeOK, scope, connection, Walks
<1>4. CASE Destroy
  <2>1. call' \in [Callers -> Calls]
    <3>1. [NoCall EXCEPT !.at = "answered", !.answer = "stopped"] \in Calls
      BY Samples DEF Calls, Answers
    <3>2. QED
      BY <1>4, <3>1 DEF Destroy, TypeOK
  <2>2. QED
    BY <1>4, <2>1 DEF Destroy, TypeOK, connection
<1>5. CASE Launch
  <2>1. used' \in Use
    BY <1>5, Counted DEF Launch, TypeOK
  <2>2. requested' \in Scopes /\ owners' \in Seq(Owners) /\ Len(owners') = requested'.epoch
    BY <1>5 DEF Launch, Scopes, Owners
  <2>3. scopeCommands' \in Seq(Scopes) /\ Len(scopeCommands') <= 1 /\ ui' \in [at : {"out"}]
    BY <1>5 DEF Launch
  <2>4. /\ ready' \in BOOLEAN /\ db' \in Owners /\ active' \in Nat
        /\ staged' \subseteq (Nat \X Nat \X Pages)
    BY <1>5 DEF Launch, Owners
  <2>5. /\ queue' \in [QueueNames -> Seq(Callers)] /\ call' \in [Callers -> Calls]
        /\ worker' \in WorkerStates /\ walk' \in Walks /\ file' \in [Accounts -> Catalogs]
    BY <1>5, Samples DEF Launch, TypeOK
  <2>6. QED
    BY <2>1, <2>2, <2>3, <2>4, <2>5 DEF TypeOK
<1>6. QED
  BY <1>1, <1>2, <1>3, <1>4, <1>5 DEF UiStep

LEMMA ReaderType == ASSUME TypeOK, ReaderStep PROVE TypeOK'
<1>1. ASSUME NEW c \in Readers, Cancel(c) PROVE TypeOK'
  <2>1. call' \in [Callers -> Calls]
    BY <1>1 DEF Cancel, TypeOK, Calls, Callers
  <2>2. QED
    BY <1>1, <2>1 DEF Cancel, TypeOK, scope, connection
<1>2. ASSUME NEW c \in Readers, NEW kind \in {"query", "mediaPage"},
             NEW epoch \in 1 .. requested.epoch, Read(c, kind, epoch)
      PROVE  TypeOK'
  <2> DEFINE command == [NoCall EXCEPT !.kind = kind, !.epoch = epoch]
  <2>1. epoch \in Nat
    BY DEF TypeOK, Scopes
  <2>2. command \in Calls /\ command.kind # "none"
    BY <2>1, Samples DEF Calls, NoCall, Kinds
  <2>3. Enqueued(c, command) /\ c \in Callers
    BY <1>2 DEF Read, Callers
  <2>4. used' \in Use
    BY <1>2, Counted DEF Read, TypeOK
  <2>5. QED
    BY <1>2, <2>2, <2>3, <2>4, EnqueuedType DEF Read, TypeOK, scope, connection
<1>3. QED
  BY <1>1, <1>2 DEF ReaderStep

(* A file of which one account's catalog is replaced by another. *)
LEMMA OneFile ==
  ASSUME TypeOK, NEW a, DOMAIN file' = Accounts, a \in Accounts => file'[a] \in Catalogs,
         \A k \in Accounts \ {a} : file'[k] = file[k], file' = [k \in Accounts |-> file'[k]]
  PROVE  file' \in [Accounts -> Catalogs]
  BY DEF TypeOK

LEMMA FileType ==
  ASSUME TypeOK, NEW a,
         \/ file' = file
         \/ \E b \in BOOLEAN : file' = [file EXCEPT ![a].migrating = b]
         \/ file' = [file EXCEPT ![a].version = 3]
         \/ file' = [file EXCEPT ![a].keyed = TRUE]
         \/ \E c \in Catalogs : file' = [file EXCEPT ![a] = c]
  PROVE  file' \in [Accounts -> Catalogs]
<1>1. file \in [Accounts -> Catalogs]
  BY DEF TypeOK
<1>2. ASSUME NEW b \in BOOLEAN, file' = [file EXCEPT ![a].migrating = b]
      PROVE  file' \in [Accounts -> Catalogs]
  <2>1. a \in Accounts => file[a] \in Catalogs /\ file'[a] = [file[a] EXCEPT !.migrating = b]
    BY <1>1, <1>2
  <2>2. a \in Accounts => file'[a] \in Catalogs
    BY <2>1 DEF Catalogs
  <2>3. QED
    BY <1>1, <1>2, <2>2, OneFile
<1>3. CASE file' = [file EXCEPT ![a].version = 3]
  <2>1. a \in Accounts => file[a] \in Catalogs /\ file'[a] = [file[a] EXCEPT !.version = 3]
    BY <1>1, <1>3
  <2>2. a \in Accounts => file'[a] \in Catalogs
    BY <2>1 DEF Catalogs
  <2>3. QED
    BY <1>1, <1>3, <2>2, OneFile
<1>4. CASE file' = [file EXCEPT ![a].keyed = TRUE]
  <2>1. a \in Accounts => file[a] \in Catalogs /\ file'[a] = [file[a] EXCEPT !.keyed = TRUE]
    BY <1>1, <1>4
  <2>2. a \in Accounts => file'[a] \in Catalogs
    BY <2>1 DEF Catalogs
  <2>3. QED
    BY <1>1, <1>4, <2>2, OneFile
<1>5. ASSUME NEW c \in Catalogs, file' = [file EXCEPT ![a] = c]
      PROVE  file' \in [Accounts -> Catalogs]
  BY <1>1, <1>5
<1>6. QED
  BY <1>1, <1>2, <1>3, <1>4, <1>5

LEMMA ScopeType == ASSUME TypeOK, ScopeStep PROVE TypeOK'
<1> USE DEF OpenFails, Opening, Fault, NoFault
<1>1. CASE TakeScope
  <2>1. scopeCommands \in Seq(Scopes) /\ scopeCommands # <<>>
    BY <1>1 DEF TakeScope, TypeOK
  <2>2. Head(scopeCommands) \in Scopes /\ Tail(scopeCommands) \in Seq(Scopes)
        /\ Len(Tail(scopeCommands)) = Len(scopeCommands) - 1
    BY <2>1
  <2>3. worker' \in WorkerStates
    BY <1>1, <2>2, Samples DEF TakeScope, WorkerStates, ScopeStages, Scopes
  <2>4. scopeCommands' \in Seq(Scopes) /\ Len(scopeCommands') <= 1
    BY <1>1, <2>1, <2>2 DEF TakeScope, TypeOK
  <2>5. QED
    BY <1>1, <2>3, <2>4 DEF TakeScope, TypeOK, connection
<1>2. CASE ProcessScope
  <2>1. worker' \in WorkerStates
    BY <1>2, Samples DEF ProcessScope, TypeOK, WorkerStates, ScopeStages
  <2>2. /\ ready' \in BOOLEAN /\ db' \in Owners /\ active' \in Nat
        /\ staged' \subseteq (Nat \X Nat \X Pages)
    <3>1. CASE worker.epoch = requested.epoch
      <4>1. ready' = FALSE /\ db' = NoAccount /\ active' = 0 /\ staged' = {}
        BY <1>2, <3>1 DEF ProcessScope
      <4>2. QED
        BY <4>1 DEF Owners
    <3>2. CASE worker.epoch # requested.epoch
      BY <1>2, <3>2 DEF ProcessScope, connection, TypeOK
    <3>3. QED
      BY <3>1, <3>2
  <2>3. QED
    BY <1>2, <2>1, <2>2 DEF ProcessScope, TypeOK, scope
<1>3. CASE InspectPath
  <2>1. worker' \in WorkerStates
    BY <1>3, Samples DEF InspectPath, TypeOK, WorkerStates, ScopeStages
  <2>2. used' \in Use
    BY <1>3, Counted DEF InspectPath, TypeOK
  <2>3. file' \in [Accounts -> Catalogs]
    <3>1. \/ file' = file
          \/ file' = [file EXCEPT ![worker.account].migrating = TRUE]
      BY Zenon, <1>3 DEF InspectPath
    <3>2. QED
      BY <3>1, FileType
  <2>4. QED
    BY <1>3, <2>1, <2>2, <2>3 DEF InspectPath, TypeOK, scope, connection
<1>4. CASE PromoteCatalog
  <2>1. worker' \in WorkerStates
    BY <1>4, Samples DEF PromoteCatalog, TypeOK, WorkerStates, ScopeStages
  <2>2. used' \in Use
    BY <1>4, Counted DEF PromoteCatalog, TypeOK
  <2>3. file' \in [Accounts -> Catalogs]
    <3>1. [NoFile EXCEPT !.version = 3] \in Catalogs
      BY Samples DEF Catalogs
    <3>2. \/ file' = [file EXCEPT ![worker.account] = [NoFile EXCEPT !.version = 3]]
          \/ \E b \in BOOLEAN : file' = [file EXCEPT ![worker.account].migrating = b]
      BY Zenon, <1>4 DEF PromoteCatalog
    <3>3. QED
      BY <3>1, <3>2, FileType
  <2>4. QED
    BY <1>4, <2>1, <2>2, <2>3 DEF PromoteCatalog, TypeOK, scope, connection
<1>5. CASE EnsureSchema
  <2>1. worker' \in WorkerStates
    BY <1>5, Samples DEF EnsureSchema, TypeOK, WorkerStates, ScopeStages
  <2>2. used' \in Use
    BY <1>5, Counted DEF EnsureSchema, TypeOK
  <2>3. file' \in [Accounts -> Catalogs]
    <3>1. file' = file \/ file' = [file EXCEPT ![worker.account].version = 3]
      BY Zenon, <1>5 DEF EnsureSchema
    <3>2. QED
      BY <3>1, FileType
  <2>4. QED
    BY <1>5, <2>1, <2>2, <2>3 DEF EnsureSchema, TypeOK, scope, connection
<1>6. CASE Backfill
  <2>1. worker' \in WorkerStates
    BY <1>6, Samples DEF Backfill, TypeOK, WorkerStates, ScopeStages
  <2>2. used' \in Use
    BY <1>6, Counted DEF Backfill, TypeOK
  <2>3. file' \in [Accounts -> Catalogs]
    <3>1. file' = file \/ file' = [file EXCEPT ![worker.account].keyed = TRUE]
      BY Zenon, <1>6 DEF Backfill
    <3>2. QED
      BY <3>1, FileType
  <2>4. QED
    BY <1>6, <2>1, <2>2, <2>3 DEF Backfill, TypeOK, scope, connection
<1>7. CASE PublishScope
  <2>1. worker' \in WorkerStates /\ ready' \in BOOLEAN /\ db' \in Owners
    BY <1>7, Samples DEF PublishScope, TypeOK, WorkerStates
  <2>2. file' \in [Accounts -> Catalogs]
    <3>1. \E b \in BOOLEAN : file' = [file EXCEPT ![worker.account].migrating = b]
      BY <1>7, Zenon DEF PublishScope
    <3>2. QED
      BY <3>1, FileType
  <2>3. used' \in Use
    BY <1>7, Counted DEF PublishScope, TypeOK
  <2>4. QED
    BY <1>7, <2>1, <2>2, <2>3 DEF PublishScope, TypeOK, scope
<1>8. QED
  BY <1>1, <1>2, <1>3, <1>4, <1>5, <1>6, <1>7 DEF ScopeStep

LEMMA StaysOrAnswers ==
  ASSUME TypeOK,
         (\E at \in CommandStages : Goes(at)) \/ (\E answer \in Answers : Answered(answer))
  PROVE  call' \in [Callers -> Calls] /\ worker' \in WorkerStates
  BY AnsweredType, GoesType

(* How a command step ends: it goes on, answers, or tries its page again. *)
LEMMA ReadEnds ==
  ASSUME StartQuery \/ StartMediaPage \/ EndRead \/ ReadState \/ StartPage \/ AttemptPage
         \/ StartStateWrite
  PROVE  /\ (\E at \in CommandStages : Goes(at)) \/ (\E answer \in Answers : Answered(answer))
         /\ UNCHANGED <<ui, scope, connection, queue, walk, file>>
         /\ used' = used \/ used' = [used EXCEPT !.faults = @ + 1]
<1> USE DEF Fault, NoFault, CommandStages, Answers, Refused
<1>1. CASE StartQuery
  BY <1>1 DEF StartQuery
<1>2. CASE StartMediaPage
  BY <1>2 DEF StartMediaPage
<1>3. CASE EndRead
  BY <1>3 DEF EndRead
<1>4. CASE ReadState
  BY <1>4 DEF ReadState
<1>5. CASE StartPage
  BY <1>5 DEF StartPage
<1>6. CASE AttemptPage
  BY <1>6 DEF AttemptPage
<1>7. CASE StartStateWrite
  BY <1>7 DEF StartStateWrite
<1>8. QED
  BY <1>1, <1>2, <1>3, <1>4, <1>5, <1>6, <1>7

(* The page of a walk that is about to be committed is one of the walk's pages. *)
PageKnown == worker.at = "commit" => Command.sync = 0 \/ Command.page \in Pages

LEMMA CommandType == ASSUME TypeOK, PageKnown, CommandStep PROVE TypeOK'
<1>1. CASE TakeCommand
  <2>1. PICK class \in QueueNames : Foremost(class) /\ Takes(class)
    BY <1>1 DEF TakeCommand
  <2>2. queue[class] \in Seq(Callers) /\ queue[class] # <<>>
    BY <2>1 DEF Foremost, TypeOK
  <2>3. Head(queue[class]) \in Callers /\ Tail(queue[class]) \in Seq(Callers)
    BY <2>2
  <2>4. worker' = [IdleWorker EXCEPT !.at = class, !.caller = Head(queue[class])]
    BY <2>1 DEF Takes
  <2>5. worker' \in WorkerStates
    BY <2>3, <2>4, QueueList, Samples DEF WorkerStates, CommandStages
  <2>6. call' \in [Callers -> Calls]
    BY <2>1, <2>3 DEF Takes, TypeOK, Calls
  <2>7. queue' \in [QueueNames -> Seq(Callers)]
    BY <2>1, <2>3 DEF Takes, TypeOK
  <2>8. QED
    BY <1>1, <2>5, <2>6, <2>7 DEF TakeCommand, TypeOK, scope, connection
<1>2. CASE StartQuery \/ StartMediaPage \/ EndRead \/ ReadState \/ StartPage \/ AttemptPage
           \/ StartStateWrite
  <2>1. call' \in [Callers -> Calls] /\ worker' \in WorkerStates
    BY <1>2, ReadEnds, StaysOrAnswers
  <2>2. used' \in Use
    BY <1>2, ReadEnds, Counted DEF TypeOK
  <2>3. UNCHANGED <<ui, scope, connection, queue, walk, file>>
    BY <1>2, ReadEnds
  <2>4. QED
    BY <2>1, <2>2, <2>3 DEF TypeOK, scope, connection
<1>3. CASE EndStateWrite
  <2>1. \E answer \in Answers : Answered(answer)
    BY <1>3 DEF EndStateWrite, Answers
  <2>2. call' \in [Callers -> Calls] /\ worker' \in WorkerStates
    BY <2>1, AnsweredType
  <2>3. used' \in Use
    BY <1>3, Counted DEF EndStateWrite, TypeOK, Fault, NoFault
  <2>4. file' \in [Accounts -> Catalogs]
    <3>1. CASE file' = file
      BY <3>1 DEF TypeOK
    <3>2. CASE file' = [file EXCEPT ![db].checkpoint = walk.generation,
                        ![db].dated = IF walk.at = "checkpoint" THEN walk.id ELSE @]
      <4>1. walk.generation \in Nat /\ walk.id \in Nat /\ file \in [Accounts -> Catalogs]
        BY DEF TypeOK, Walks
      <4>2. db \in Accounts =>
              /\ file[db] \in Catalogs
              /\ file'[db] = [file[db] EXCEPT !.checkpoint = walk.generation,
                              !.dated = IF walk.at = "checkpoint" THEN walk.id ELSE @]
        BY <3>2, <4>1
      <4>3. db \in Accounts => file'[db] \in Catalogs
        BY <4>1, <4>2 DEF Catalogs
      <4>4. QED
        BY <3>2, <4>1, <4>3, OneFile
    <3>3. QED
      BY <1>3, <3>1, <3>2, Zenon DEF EndStateWrite
  <2>5. QED
    BY <1>3, <2>2, <2>3, <2>4 DEF EndStateWrite, TypeOK, scope, connection
<1>4. CASE CommitPage
  <2>1. \/ \E answer \in Answers : Answered(answer)
        \/ worker' = [worker EXCEPT !.at = "attempt", !.attempt = @ + 1] /\ UNCHANGED call
    BY <1>4 DEF CommitPage, PageResult, Retried, Answers
  <2>2. call' \in [Callers -> Calls] /\ worker' \in WorkerStates
    <3>1. CASE \E answer \in Answers : Answered(answer)
      BY <3>1, AnsweredType
    <3>2. CASE worker' = [worker EXCEPT !.at = "attempt", !.attempt = @ + 1] /\ UNCHANGED call
      <4>1. worker \in WorkerStates /\ call' \in [Callers -> Calls]
        BY <3>2 DEF TypeOK
      <4>2. worker.attempt + 1 \in Nat
        BY <4>1 DEF WorkerStates
      <4>3. QED
        BY <3>2, <4>1, <4>2 DEF WorkerStates, CommandStages
    <3>3. QED
      BY <2>1, <3>1, <3>2
  <2>3. used' \in Use
    BY <1>4, Counted DEF CommitPage, PageResult, TypeOK, Fault, NoFault
  <2>4. staged' \subseteq (Nat \X Nat \X Pages)
    <3>1. /\ Command.sync \in Nat /\ walk.id \in Nat /\ staged \subseteq (Nat \X Nat \X Pages)
          /\ Command.sync = 0 \/ Command.page \in Pages
      BY <1>4 DEF CommitPage, PageKnown, TypeOK, Command, Calls, WorkerStates, Walks
    <3>2. staged' = staged \/ staged' = Staged
      BY <1>4 DEF CommitPage, PageResult
    <3>3. QED
      BY <3>1, <3>2 DEF Staged
  <2>5. QED
    BY <1>4, <2>2, <2>3, <2>4 DEF CommitPage, TypeOK, scope
<1>5. CASE TopLevelSync
  <2>1. \E answer \in Answers : Answered(answer)
    BY <1>5 DEF TopLevelSync, Begin, Finalize, Abort, Answers
  <2>2. call' \in [Callers -> Calls] /\ worker' \in WorkerStates
    BY <2>1, AnsweredType
  <2>3. used' \in Use
    BY <1>5, Counted, Zenon DEF TopLevelSync, Begin, Finalize, Abort, TypeOK, Fault, NoFault
  <2>4. active' \in Nat /\ staged' \subseteq (Nat \X Nat \X Pages)
    <3>1. Command.sync \in Nat
      BY DEF TypeOK, Command, Calls, WorkerStates
    <3>2. active' \in {active, Command.sync, 0} /\ staged' \in {staged, {}}
      BY <1>5 DEF TopLevelSync, Begin, Finalize, Abort
    <3>3. QED
      BY <3>1, <3>2 DEF TypeOK
  <2>5. file' \in [Accounts -> Catalogs]
    <3> DEFINE library == {<<row[2], row[3]>> : row \in {s \in staged : s[1] = Command.sync}}
    <3>1. CASE file' = file
      BY <3>1 DEF TypeOK
    <3>2. CASE file' = [file EXCEPT ![db].keyed = TRUE, ![db].library = library]
      <4>1. file \in [Accounts -> Catalogs]
        BY DEF TypeOK
      <4>2. library \subseteq (Nat \X Pages)
        BY DEF TypeOK
      <4> HIDE DEF library
      <4>3. db \in Accounts =>
              /\ file[db] \in Catalogs
              /\ file'[db] = [file[db] EXCEPT !.keyed = TRUE, !.library = library]
        BY <3>2, <4>1
      <4>4. db \in Accounts => file'[db] \in Catalogs
        BY <4>2, <4>3 DEF Catalogs
      <4>5. QED
        BY <3>2, <4>1, <4>4, OneFile
    <3>3. QED
      BY <1>5, <3>1, <3>2, Zenon DEF TopLevelSync, Finalize
  <2>6. QED
    BY <1>5, <2>2, <2>3, <2>4, <2>5 DEF TopLevelSync, TypeOK, scope
<1>6. QED
  BY <1>1, <1>2, <1>3, <1>4, <1>5 DEF CommandStep

LEMMA WalkEdits ==
  ASSUME NEW w \in Walks
  PROVE  /\ \A at \in WalkStages : [w EXCEPT !.at = at] \in Walks
         /\ [w EXCEPT !.at = "begin", !.sync = @ + 1] \in Walks
         /\ [w EXCEPT !.at = "page", !.page = @ + 1] \in Walks
         /\ \A n \in Nat : [w EXCEPT !.known = n] \in Walks
         /\ \A n \in Nat : [w EXCEPT !.at = "checkpoint", !.known = n] \in Walks
         /\ \A k, m, n \in Nat : [w EXCEPT !.known = k, !.sync = m, !.generation = n] \in Walks
         /\ \A id, epoch \in Nat :
               [w EXCEPT !.at = "state", !.id = id, !.page = 0, !.epoch = epoch] \in Walks
<1>1. /\ w.id \in Nat /\ w.epoch \in Nat /\ w.sync \in Nat /\ w.sync + 1 \in Nat
      /\ w.known \in Nat /\ w.generation \in Nat /\ w.page \in Nat /\ w.page + 1 \in Nat
      /\ w.cancelled \in BOOLEAN /\ w.at \in WalkStages
  BY DEF Walks
<1>2. w = [at |-> w.at, id |-> w.id, epoch |-> w.epoch, sync |-> w.sync, known |-> w.known,
           generation |-> w.generation, page |-> w.page, cancelled |-> w.cancelled]
  BY DEF Walks
<1>3. QED
  BY <1>1, <1>2 DEF Walks, WalkStages

LEMMA WalkAt ==
  ASSUME NEW w \in Walks, NEW at \in WalkStages
  PROVE  LET v == [w EXCEPT !.at = at]
         IN  /\ v \in Walks /\ v.at = at /\ v.page = w.page /\ v.sync = w.sync
             /\ v.epoch = w.epoch /\ v.id = w.id
<1>1. [w EXCEPT !.at = at] \in Walks
  BY WalkEdits
<1>2. w = [at |-> w.at, id |-> w.id, epoch |-> w.epoch, sync |-> w.sync, known |-> w.known,
           generation |-> w.generation, page |-> w.page, cancelled |-> w.cancelled]
  BY DEF Walks
<1>3. [w EXCEPT !.at = at] =
        [at |-> at, id |-> w.id, epoch |-> w.epoch, sync |-> w.sync, known |-> w.known,
         generation |-> w.generation, page |-> w.page, cancelled |-> w.cancelled]
  BY <1>2
<1>4. QED
  BY <1>1, <1>3

LEMMA LargerNat == ASSUME NEW m \in Nat, NEW n \in Nat PROVE Larger(m, n) \in Nat
  BY DEF Larger

(* The command the walk waits for in each of its places. *)
KindAt(at) ==
    CASE at \in {"state", "date"} -> "readState"
      [] at \in {"dated", "checkpoint"} -> "writeState"
      [] at \in {"changes", "page"} -> "pageUpsert"
      [] OTHER -> at

(* The pages come one after the other, within a sync. *)
Placed(w) ==
    /\ w.page \in 0 .. PageCount
    /\ w.at \in {"state", "changes", "date", "dated", "begin"} => w.page = 0
    /\ w.at = "page" => w.page > 0
    /\ w.at = "finalize" => w.page = PageCount
    /\ w.at \in {"begin", "page", "finalize"} => w.sync > 0

(* What a step of the walk does: it ends, or asks the catalog for the next thing. *)
Follows(w) == w \in Walks /\ w.epoch = walk.epoch /\ w.id = walk.id
Advances(w) ==
    /\ w.at \in {"page", "finalize"} =>
          /\ walk.at \in {"begin", "page"} /\ Answer = "ok" /\ w.sync = walk.sync
          /\ w.at = "page" => w.page = walk.page + 1
          /\ w.at = "finalize" => w.page = walk.page
    /\ w.at = "checkpoint" => walk.at = "finalize" /\ Answer = "ok"
WalkEnds == \E w : Follows(w) /\ w.page \in 0 .. PageCount /\ Stops(w)
WalkAsks ==
    \E w : Follows(w) /\ w.at # "off" /\ Placed(w) /\ Advances(w) /\ Asks(KindAt(w.at), w)

LEMMA KindAtKinds ==
  ASSUME NEW at \in WalkStages \ {"off"}
  PROVE  KindAt(at) \in Kinds \ {"none"}
  BY DEF KindAt, Kinds, WalkStages

(* What was told the walk comes from an account's catalog. *)
SourceKnown == Answer = "ok" => call[Walker].source \in Accounts

LEMMA WalkGoes ==
  ASSUME NEW w, Follows(w), w.page \in 0 .. PageCount
  PROVE  /\ Stops(w) => WalkEnds
         /\ Begins(w) /\ w.page = 0 => WalkAsks
         /\ CatchesUp(w) /\ w.page = 0 => WalkAsks
         /\ Gives(w) => WalkAsks
         /\ NextPage(w) /\ w = walk /\ w.at \in {"begin", "page"} /\ w.sync > 0 /\ Answer = "ok"
              => WalkAsks
<1>1. /\ w.sync \in Nat /\ w.page \in Nat /\ PageCount \in Nat /\ PageCount > 0
      /\ w \in Walks /\ w.at \in WalkStages
  BY Limits DEF Follows, Walks
<1>2. Stops(w) => WalkEnds
  BY DEF WalkEnds
<1>3. ASSUME Begins(w), w.page = 0 PROVE WalkAsks
  <2> DEFINE v == [w EXCEPT !.at = "begin", !.sync = @ + 1]
  <2>1. /\ v \in Walks /\ v.at = "begin" /\ v.page = 0 /\ v.sync = w.sync + 1 /\ v.epoch = w.epoch
        /\ v.id = w.id
    BY <1>1, <1>3, WalkEdits DEF Walks
  <2>2. Asks(KindAt(v.at), v)
    BY <1>3, <2>1 DEF Begins, KindAt
  <2> HIDE DEF v
  <2>3. QED
    BY <1>1, <2>1, <2>2 DEF WalkAsks, Follows, Placed, Advances
<1>4. ASSUME CatchesUp(w), w.page = 0 PROVE WalkAsks
  <2>1. ASSUME NEW at \in {"changes", "date"}, Asks(KindAt(at), [w EXCEPT !.at = at]) PROVE WalkAsks
    <3> DEFINE v == [w EXCEPT !.at = at]
    <3>0. at \in WalkStages
      BY DEF WalkStages
    <3>1. v \in Walks /\ v.at = at /\ v.page = 0 /\ v.epoch = w.epoch /\ v.id = w.id
      BY <1>1, <1>4, <3>0, WalkAt
    <3>2. Asks(KindAt(v.at), v)
      BY <2>1, <3>1
    <3> HIDE DEF v
    <3>3. QED
      BY <1>1, <3>1, <3>2 DEF WalkAsks, Follows, Placed, Advances
  <2>2. QED
    BY <1>4, <2>1 DEF CatchesUp, KindAt
<1>5. ASSUME Gives(w) PROVE WalkAsks
  <2> DEFINE v == [w EXCEPT !.at = "abort"]
  <2>1. v \in Walks /\ v.at = "abort" /\ v.page = w.page /\ v.epoch = w.epoch /\ v.id = w.id
    BY <1>1, WalkAt DEF WalkStages
  <2>2. Asks(KindAt(v.at), v)
    BY <1>5, <2>1 DEF Gives, KindAt
  <2> HIDE DEF v
  <2>3. QED
    BY <1>1, <2>1, <2>2 DEF WalkAsks, Follows, Placed, Advances
<1>6. ASSUME NextPage(w), w = walk, w.at \in {"begin", "page"}, w.sync > 0, Answer = "ok"
      PROVE  WalkAsks
  <2>1. CASE w.page < PageCount
    <3> DEFINE v == [w EXCEPT !.at = "page", !.page = @ + 1]
    <3>1. /\ v \in Walks /\ v.at = "page" /\ v.page = w.page + 1 /\ v.sync = w.sync
          /\ v.epoch = w.epoch /\ v.id = w.id
      BY <1>1, WalkEdits DEF Walks
    <3>2. Asks(KindAt(v.at), v)
      BY <1>6, <2>1, <3>1 DEF NextPage, KindAt
    <3> HIDE DEF v
    <3>3. QED
      BY <1>1, <1>6, <2>1, <3>1, <3>2 DEF WalkAsks, Follows, Placed, Advances
  <2>2. CASE ~(w.page < PageCount)
    <3> DEFINE v == [w EXCEPT !.at = "finalize"]
    <3>1. /\ v \in Walks /\ v.at = "finalize" /\ v.page = w.page /\ v.sync = w.sync
          /\ v.epoch = w.epoch /\ v.id = w.id
      BY <1>1, WalkAt DEF WalkStages
    <3>2. Asks(KindAt(v.at), v)
      BY <1>6, <2>2, <3>1 DEF NextPage, KindAt
    <3> HIDE DEF v
    <3>3. QED
      BY <1>1, <1>6, <2>2, <3>1, <3>2 DEF WalkAsks, Follows, Placed, Advances
  <2>3. QED
    BY <2>1, <2>2
<1>7. QED
  BY <1>2, <1>3, <1>4, <1>5, <1>6

LEMMA WalkMoves ==
  ASSUME TypeOK, SourceKnown, Placed(walk), WalkStep
  PROVE  WalkEnds \/ WalkAsks
<1>1. /\ walk \in Walks /\ Follows(walk) /\ walk.page \in 0 .. PageCount /\ walk.known \in Nat
      /\ walk.sync \in Nat /\ walk.generation \in Nat /\ walk.page \in Nat
  BY DEF TypeOK, Follows, Placed, Walks
<1>2. CASE WalkState
  <2> DEFINE stored == file[call[Walker].source].checkpoint
             known == Larger(walk.known, stored)
             seeded == [walk EXCEPT !.known = known, !.sync = Larger(@, stored),
                                    !.generation = known + 1]
  <2>1. walk.at = "state" /\ walk.page = 0
    BY <1>2 DEF WalkState, Replied, Placed
  <2>2. \/ Stops(walk)
        \/ Answer = "ok" /\ (Stops(seeded) \/ Begins(seeded) \/ CatchesUp(seeded))
    BY <1>2, Zenon DEF WalkState
  <2>3. ASSUME Answer = "ok" PROVE Follows(seeded) /\ seeded.page = 0
    <3>1. stored \in Nat
      BY <2>3 DEF SourceKnown, TypeOK, Catalogs
    <3> HIDE DEF stored
    <3>2. known \in Nat /\ Larger(walk.sync, stored) \in Nat
      BY <1>1, <3>1, LargerNat, Zenon
    <3>3. seeded = [walk EXCEPT !.known = known, !.sync = Larger(walk.sync, stored),
                                !.generation = known + 1]
      BY <1>1 DEF Walks
    <3>4. seeded.page = walk.page /\ seeded.epoch = walk.epoch /\ seeded.id = walk.id
      BY <1>1 DEF Walks
    <3> HIDE DEF known
    <3>5. seeded \in Walks
      <4>1. known + 1 \in Nat
        BY <3>2
      <4>2. QED
        BY <1>1, <3>2, <3>3, <4>1, WalkEdits, Zenon
    <3> HIDE DEF seeded
    <3>6. QED
      BY <2>1, <3>4, <3>5 DEF Follows
  <2> HIDE DEF seeded
  <2>4. QED
    BY <1>1, <2>2, <2>3, WalkGoes, Limits
<1>3. CASE WalkCatchUp
  <2>1. walk.page = 0
    BY <1>3 DEF WalkCatchUp, Replied, Placed
  <2>2. ASSUME NEW at \in {"date", "dated"}, Asks(KindAt(at), [walk EXCEPT !.at = at])
        PROVE  WalkAsks
    <3> DEFINE v == [walk EXCEPT !.at = at]
    <3>0. at \in WalkStages
      BY DEF WalkStages
    <3>1. v \in Walks /\ v.at = at /\ v.page = 0 /\ v.epoch = walk.epoch /\ v.id = walk.id
      BY <1>1, <2>1, <3>0, WalkAt
    <3>2. Asks(KindAt(v.at), v)
      BY <2>2, <3>1
    <3> HIDE DEF v
    <3>3. QED
      BY <3>1, <3>2, Limits DEF WalkAsks, Follows, Placed, Advances
  <2>3. KindAt("date") = "readState" /\ KindAt("dated") = "writeState"
    BY DEF KindAt
  <2>4. Stops(walk) \/ \E at \in {"date", "dated"} : Asks(KindAt(at), [walk EXCEPT !.at = at])
    BY <1>3, <2>3 DEF WalkCatchUp
  <2>5. QED
    BY <1>1, <2>2, <2>4, WalkGoes
<1>4. CASE WalkDated
  <2> DEFINE dated == [walk EXCEPT !.known = Larger(@, walk.generation)]
  <2>1. walk.page = 0
    BY <1>4 DEF WalkDated, Replied, Placed
  <2>2. dated.page = 0 /\ dated.epoch = walk.epoch /\ dated.id = walk.id
    BY <1>1, <2>1 DEF Walks
  <2>3. dated \in Walks
    <3>1. Larger(walk.known, walk.generation) \in Nat
      BY <1>1, LargerNat
    <3>2. dated = [walk EXCEPT !.known = Larger(walk.known, walk.generation)]
      BY <1>1 DEF Walks
    <3>3. QED
      BY <1>1, <3>1, <3>2, WalkEdits, Zenon
  <2>4. Stops(walk) \/ Stops(dated) \/ Begins(dated)
    BY <1>4, Zenon DEF WalkDated
  <2> HIDE DEF dated
  <2>5. Follows(dated)
    BY <2>2, <2>3 DEF Follows
  <2>6. QED
    BY <1>1, <2>2, <2>4, <2>5, WalkGoes, Limits
<1>5. CASE WalkBegin \/ WalkPage
  <2>1. walk.at \in {"begin", "page"} /\ walk.sync > 0
    BY <1>5 DEF WalkBegin, WalkPage, Replied, Placed
  <2>2. Stops(walk) \/ (Answer = "ok" /\ NextPage(walk)) \/ Gives(walk)
    BY <1>5 DEF WalkBegin, WalkPage
  <2>3. QED
    BY <1>1, <2>1, <2>2, WalkGoes
<1>6. CASE WalkFinalize
  <2> DEFINE v == [walk EXCEPT !.at = "checkpoint", !.known = Larger(@, walk.generation)]
  <2>1. walk.at = "finalize"
    BY <1>6 DEF WalkFinalize, Replied
  <2>2. Stops(walk) \/ (Answer = "ok" /\ Asks("writeState", v))
    BY <1>6 DEF WalkFinalize
  <2>3. /\ v.at = "checkpoint" /\ v.page = walk.page /\ v.epoch = walk.epoch /\ v.id = walk.id
    BY <1>1 DEF Walks
  <2>4. v \in Walks
    <3>1. Larger(walk.known, walk.generation) \in Nat
      BY <1>1, LargerNat
    <3>2. v = [walk EXCEPT !.at = "checkpoint", !.known = Larger(walk.known, walk.generation)]
      BY <1>1 DEF Walks
    <3>3. QED
      BY <1>1, <3>1, <3>2, WalkEdits, Zenon
  <2>5. KindAt("checkpoint") = "writeState"
    BY DEF KindAt
  <2> HIDE DEF v
  <2>6. Answer = "ok" /\ Asks("writeState", v) => WalkAsks
    BY <1>1, <2>1, <2>3, <2>4, <2>5 DEF WalkAsks, Follows, Placed, Advances
  <2>7. QED
    BY <1>1, <2>2, <2>6, WalkGoes
<1>7. CASE WalkEnd
  BY <1>1, <1>7, WalkGoes DEF WalkEnd
<1>8. QED
  BY <1>2, <1>3, <1>4, <1>5, <1>6, <1>7 DEF WalkStep

LEMMA WalkType ==
  ASSUME TypeOK, SourceKnown, Placed(walk), StartWalk \/ WalkStep
  PROVE  TypeOK'
<1>1. CASE StartWalk
  <2> DEFINE w == [walk EXCEPT !.at = "state", !.id = used.walks + 1, !.page = 0,
                               !.epoch = requested.epoch]
  <2>1. used.walks + 1 \in Nat /\ requested.epoch \in Nat /\ walk \in Walks
    BY DEF TypeOK, Use, Scopes
  <2>2. w \in Walks
    BY <2>1, WalkEdits
  <2>3. Asks("readState", w) /\ "readState" \in Kinds
    BY <1>1 DEF StartWalk, Kinds
  <2>4. used' \in Use
    BY <1>1, Counted DEF StartWalk, TypeOK
  <2> HIDE DEF w
  <2>5. QED
    BY <1>1, <2>2, <2>3, <2>4, AsksType DEF StartWalk, TypeOK, scope, connection
<1>2. CASE WalkStep
  <2>1. UNCHANGED <<ui, scope, connection, worker, file, used>>
    BY <1>2 DEF WalkStep, WalkState, WalkCatchUp, WalkDated, WalkBegin, WalkPage, WalkFinalize,
                WalkEnd
  <2>2. /\ call' \in [Callers -> Calls] /\ queue' \in [QueueNames -> Seq(Callers)]
        /\ walk' \in Walks
    <3>1. CASE WalkEnds
      <4>1. PICK w : Follows(w) /\ Stops(w)
        BY <3>1 DEF WalkEnds
      <4>2. [w EXCEPT !.at = "off"] \in Walks
        BY <4>1, WalkEdits DEF WalkStages, Follows
      <4>3. QED
        BY <4>1, <4>2 DEF Stops, TypeOK
    <3>2. CASE WalkAsks
      <4>1. PICK w : Follows(w) /\ w.at # "off" /\ Asks(KindAt(w.at), w)
        BY <3>2 DEF WalkAsks
      <4>2. w \in Walks /\ w.at \in WalkStages \ {"off"}
        BY <4>1 DEF Follows, Walks
      <4>3. QED
        BY <4>1, <4>2, KindAtKinds, AsksType
    <3>3. QED
      BY <1>2, <3>1, <3>2, WalkMoves
  <2>3. QED
    BY <2>1, <2>2 DEF TypeOK, scope, connection
<1>3. QED
  BY <1>1, <1>2

----------------------------------------------------------------------------
(* Scopes: whose file is open. *)

(* The account of the last change is the one asked for, and there is one exactly while *)
(* somebody is signed in.                                                              *)
LastOwner ==
    /\ requested.epoch = 0 => requested.account = NoAccount
    /\ requested.epoch > 0 => owners[requested.epoch] = requested.account
    /\ ui.at \in {"out", "quit"} <=> requested.account = NoAccount

(* A scope command that waits is the last one, and nothing is open until it is done. *)
Waiting == scopeCommands # <<>> =>
    /\ scopeCommands = <<requested>> /\ requested.epoch > 0 /\ ~ready

(* The worker opens the file of the epoch it was sent for. *)
InScope ==
    /\ worker.at \in ScopeStages =>
          /\ worker.epoch \in 1 .. requested.epoch /\ worker.account = owners[worker.epoch]
          /\ worker.epoch = requested.epoch => ~ready /\ scopeCommands = <<>>
    /\ worker.at \in ScopeStages \ {"scope"} => worker.account \in Accounts /\ ~ready
    /\ worker.at \in {"backfill", "publish"} => file[worker.account].version = 3

ScopeInv == LastOwner /\ Waiting /\ InScope /\ ReadyFile

(* A step of the worker at a command, or at nothing. *)
LEMMA ScopeFrame ==
  ASSUME TypeOK, ScopeInv, UNCHANGED <<ui, scope, ready>>, worker'.at \notin ScopeStages,
         ready => /\ db' = db
                  /\ \A a \in Accounts : /\ file'[a].version = file[a].version
                                        /\ file'[a].migrating = file[a].migrating
  PROVE  ScopeInv'
<1>1. LastOwner' /\ Waiting'
  BY DEF ScopeInv, LastOwner, Waiting, scope
<1>2. InScope'
  BY DEF InScope, ScopeStages
<1>3. ReadyFile'
  BY DEF ScopeInv, ReadyFile, scope
<1>4. QED
  BY <1>1, <1>2, <1>3 DEF ScopeInv

(* A step of another thread. *)
LEMMA ScopeSame ==
  ASSUME ScopeInv, UNCHANGED <<ui, scope, ready, db, worker, file>>
  PROVE  ScopeInv'
  BY DEF ScopeInv, LastOwner, Waiting, InScope, ReadyFile, scope

LEMMA RequestedScope ==
  ASSUME TypeOK, ScopeInv, NEW account \in Owners, Requested(account), UNCHANGED <<worker, file>>,
         ui'.at \in {"out", "quit"} <=> account = NoAccount
  PROVE  ScopeInv'
<1>1. requested' = [epoch |-> requested.epoch + 1, account |-> account] /\ ready' = FALSE
      /\ scopeCommands' = <<requested'>>
  BY DEF Requested
<1>2. requested.epoch \in Nat /\ Len(owners) = requested.epoch
  BY DEF TypeOK, Scopes
<1>3. /\ owners'[requested.epoch + 1] = account
      /\ \A e \in 1 .. requested.epoch : owners'[e] = owners[e]
  BY <1>2 DEF Requested, TypeOK
<1>4. LastOwner' /\ Waiting' /\ ReadyFile'
  BY <1>1, <1>2, <1>3 DEF LastOwner, Waiting, ReadyFile
<1>5. InScope'
  BY <1>1, <1>2, <1>3 DEF ScopeInv, InScope, TypeOK
<1>6. QED
  BY <1>4, <1>5 DEF ScopeInv

LEMMA UiScope == ASSUME TypeOK, ScopeInv, UiStep PROVE ScopeInv'
<1>1. ASSUME NEW a \in Accounts, ConfigureScope(a) PROVE ScopeInv'
  BY <1>1, RequestedScope, Names DEF ConfigureScope, Owners
<1>2. CASE DeconfigureScope
  BY <1>2, RequestedScope DEF DeconfigureScope, Owners
<1>3. CASE StopCoordinator
  BY <1>3 DEF StopCoordinator, ScopeInv, LastOwner, Waiting, InScope, ReadyFile, scope, connection
<1>4. CASE Destroy
  BY <1>4 DEF Destroy, ScopeInv, LastOwner, Waiting, InScope, ReadyFile, connection
<1>5. CASE Launch
  BY <1>5 DEF Launch, ScopeInv, LastOwner, Waiting, InScope, ReadyFile, IdleWorker, ScopeStages
<1>6. QED
  BY <1>1, <1>2, <1>3, <1>4, <1>5 DEF UiStep

(* The worker drops what it was opening, or goes on with it. *)
LEMMA StageScope ==
  ASSUME TypeOK, ScopeInv, worker.at \in ScopeStages \ {"scope"}, UNCHANGED <<ui, scope, ready>>,
         OpenFails \/ \E at \in ScopeStages \ {"scope"} :
                         Opening(at) /\ (at \in {"backfill", "publish"} =>
                                             file'[worker.account].version = 3)
  PROVE  ScopeInv'
<1>1. LastOwner' /\ Waiting'
  BY DEF ScopeInv, LastOwner, Waiting, scope
<1>2. ReadyFile'
  BY DEF ScopeInv, InScope, ReadyFile
<1>3. ASSUME OpenFails PROVE InScope'
  BY <1>3 DEF OpenFails, IdleWorker, InScope, ScopeStages
<1>4. ASSUME NEW at \in ScopeStages \ {"scope"}, Opening(at),
             at \in {"backfill", "publish"} => file'[worker.account].version = 3
      PROVE  InScope'
  <2>1. /\ worker'.at = at /\ worker'.epoch = worker.epoch /\ worker'.account = worker.account
    BY <1>4 DEF Opening, TypeOK, WorkerStates
  <2>2. QED
    BY <1>4, <2>1 DEF ScopeInv, InScope, scope
<1>5. QED
  BY <1>1, <1>2, <1>3, <1>4 DEF ScopeInv

LEMMA StepsScope == ASSUME TypeOK, ScopeInv, ScopeStep PROVE ScopeInv'
<1>1. CASE TakeScope
  <2>1. /\ scopeCommands = <<requested>> /\ requested.epoch > 0 /\ ~ready /\ requested.epoch \in Nat
    BY <1>1 DEF TakeScope, ScopeInv, Waiting, TypeOK, Scopes
  <2>2. Head(scopeCommands) = requested /\ scopeCommands' = <<>>
    BY <1>1, <2>1 DEF TakeScope
  <2>3. /\ worker'.at = "scope" /\ worker'.epoch = requested.epoch
        /\ worker'.account = requested.account
    BY <1>1, <2>2 DEF TakeScope, IdleWorker
  <2>4. LastOwner' /\ Waiting' /\ ReadyFile'
    BY <1>1, <2>1, <2>2 DEF TakeScope, ScopeInv, LastOwner, Waiting, ReadyFile, connection
  <2>5. InScope'
    BY <1>1, <2>1, <2>2, <2>3 DEF TakeScope, ScopeInv, LastOwner, InScope, connection
  <2>6. QED
    BY <2>4, <2>5 DEF ScopeInv
<1>2. CASE ProcessScope
  <2>1. LastOwner' /\ Waiting' /\ ReadyFile'
    BY <1>2 DEF ProcessScope, ScopeInv, LastOwner, Waiting, ReadyFile, scope, connection
  <2>2. CASE worker.epoch = requested.epoch /\ worker.account # NoAccount
    <3>1. /\ worker'.at = "inspect" /\ worker'.epoch = worker.epoch
          /\ worker'.account = worker.account /\ ~ready'
      BY <1>2, <2>2 DEF ProcessScope, Opening, TypeOK, WorkerStates
    <3>2. worker.account \in Accounts
      BY <2>2 DEF TypeOK, WorkerStates, Owners
    <3>3. QED
      BY <1>2, <2>1, <3>1, <3>2 DEF ProcessScope, ScopeInv, InScope, scope, ScopeStages
  <2>3. CASE ~(worker.epoch = requested.epoch /\ worker.account # NoAccount)
    <3>1. worker' = IdleWorker
      BY <1>2, <2>3 DEF ProcessScope, OpenFails
    <3>2. QED
      BY <2>1, <3>1 DEF ScopeInv, InScope, IdleWorker, ScopeStages
  <2>4. QED
    BY <2>2, <2>3
<1>3. CASE InspectPath
  BY <1>3, StageScope DEF InspectPath, ScopeStages, connection
<1>4. CASE PromoteCatalog
  BY <1>4, StageScope DEF PromoteCatalog, ScopeStages, connection
<1>5. CASE EnsureSchema
  <2>1. worker.account \in Accounts
    BY <1>5 DEF EnsureSchema, ScopeInv, InScope, ScopeStages
  <2>2. file' = [file EXCEPT ![worker.account].version = 3]
          => file'[worker.account].version = 3
    BY <2>1 DEF TypeOK, Catalogs
  <2>3. OpenFails \/ (Opening("publish") /\ file'[worker.account].version = 3)
        \/ (Opening("backfill") /\ file'[worker.account].version = 3)
    BY <1>5, <2>2 DEF EnsureSchema
  <2>4. QED
    BY <1>5, <2>3, StageScope DEF EnsureSchema, ScopeStages, connection
<1>6. CASE Backfill
  <2>1. worker.account \in Accounts /\ file[worker.account].version = 3
    BY <1>6 DEF Backfill, ScopeInv, InScope, ScopeStages
  <2>2. OpenFails \/ (Opening("publish") /\ file'[worker.account].version = 3)
    BY <1>6, <2>1 DEF Backfill, TypeOK, Catalogs
  <2>3. QED
    BY <1>6, <2>2, StageScope DEF Backfill, ScopeStages, connection
<1>7. CASE PublishScope
  <2>1. /\ worker.account \in Accounts /\ file[worker.account].version = 3 /\ ~ready
        /\ worker.epoch \in 1 .. requested.epoch /\ worker.account = owners[worker.epoch]
        /\ worker.epoch = requested.epoch => scopeCommands = <<>>
    BY <1>7 DEF PublishScope, ScopeInv, InScope, ScopeStages
  <2>2. ASSUME file' = [file EXCEPT ![worker.account].migrating = FALSE], Current,
               db' = worker.account
        PROVE  /\ worker.epoch = requested.epoch /\ db' = worker.account
               /\ file'[db'].version = 3 /\ ~file'[db'].migrating
    BY <2>1, <2>2 DEF TypeOK, Catalogs, Current
  <2>3. ready' => /\ worker.epoch = requested.epoch /\ db' = worker.account
                  /\ file'[db'].version = 3 /\ ~file'[db'].migrating
    <3>1. CASE ready' = ready
      BY <2>1, <3>1
    <3>2. CASE /\ file' = [file EXCEPT ![worker.account].migrating = FALSE]
               /\ Current /\ db' = worker.account
      BY <2>2, <3>2
    <3>3. QED
      BY <1>7, <3>1, <3>2 DEF PublishScope
  <2>4. LastOwner' /\ requested.epoch \in Nat
    BY <1>7 DEF PublishScope, ScopeInv, LastOwner, scope, TypeOK, Scopes
  <2>5. Waiting'
    BY <1>7, <2>1, <2>3 DEF PublishScope, ScopeInv, Waiting, scope
  <2>6. ReadyFile'
    BY <1>7, <2>1, <2>3, <2>4 DEF PublishScope, ScopeInv, LastOwner, ReadyFile, scope
  <2>7. InScope'
    BY <1>7 DEF PublishScope, OpenFails, InScope, IdleWorker, ScopeStages
  <2>8. QED
    BY <2>4, <2>5, <2>6, <2>7 DEF ScopeInv
<1>8. QED
  BY <1>1, <1>2, <1>3, <1>4, <1>5, <1>6, <1>7 DEF ScopeStep

(* Where an answer or a step of a command leaves the worker. *)
LEMMA WorkerAt ==
  ASSUME TypeOK
  PROVE  /\ \A at \in CommandStages : Goes(at) => worker'.at = at
         /\ \A answer : Answered(answer) => worker'.at = "idle"
         /\ worker' = [worker EXCEPT !.at = "attempt", !.attempt = @ + 1] => worker'.at = "attempt"
<1>1. worker \in WorkerStates
  BY DEF TypeOK
<1>2. ASSUME NEW at \in CommandStages, Goes(at) PROVE worker'.at = at
  BY <1>1, <1>2 DEF Goes, WorkerStates
<1>3. ASSUME NEW answer, Answered(answer) PROVE worker'.at = "idle"
  BY <1>3 DEF Answered, IdleWorker
<1>4. worker' = [worker EXCEPT !.at = "attempt", !.attempt = @ + 1] => worker'.at = "attempt"
  BY <1>1 DEF WorkerStates
<1>5. QED
  BY <1>2, <1>3, <1>4

LEMMA CommandScope ==
  ASSUME TypeOK, ScopeInv, CommandStep \/ WorkerExit
  PROVE  ScopeInv'
<1>1. CASE TakeCommand
  <2>1. worker'.at \notin ScopeStages
    BY <1>1, QueueList DEF TakeCommand, Takes, IdleWorker, ScopeStages
  <2>2. QED
    BY <1>1, <2>1, ScopeFrame DEF TakeCommand, connection
<1>2. CASE StartQuery \/ StartMediaPage \/ EndRead \/ ReadState \/ StartPage \/ AttemptPage
           \/ StartStateWrite
  <2>1. worker'.at \notin ScopeStages
    BY <1>2, ReadEnds, WorkerAt DEF ScopeStages, CommandStages
  <2>2. QED
    BY <1>2, <2>1, ReadEnds, ScopeFrame DEF connection
<1>3. CASE EndStateWrite
  <2>1. worker'.at = "idle"
    BY <1>3 DEF EndStateWrite, Answered, IdleWorker
  <2>2. \A a \in Accounts : /\ file'[a].version = file[a].version
                           /\ file'[a].migrating = file[a].migrating
    BY <1>3 DEF EndStateWrite, TypeOK, Catalogs
  <2>3. QED
    BY <1>3, <2>1, <2>2, ScopeFrame DEF EndStateWrite, connection, ScopeStages
<1>4. CASE CommitPage
  <2>1. worker'.at \in {"idle", "attempt"}
    BY <1>4, WorkerAt DEF CommitPage, PageResult, Retried
  <2>2. QED
    BY <1>4, <2>1, ScopeFrame DEF CommitPage, ScopeStages
<1>5. CASE TopLevelSync
  <2>1. worker'.at = "idle"
    BY <1>5 DEF TopLevelSync, Begin, Finalize, Abort, Answered, IdleWorker
  <2>2. \A a \in Accounts : /\ file'[a].version = file[a].version
                           /\ file'[a].migrating = file[a].migrating
    <3>1. file \in [Accounts -> Catalogs]
      BY DEF TypeOK
    <3>2. \/ file' = file
          \/ \E library : file' = [file EXCEPT ![db].keyed = TRUE, ![db].library = library]
      BY <1>5, Zenon DEF TopLevelSync, Finalize
    <3>3. QED
      BY <3>1, <3>2 DEF Catalogs
  <2>3. QED
    BY <1>5, <2>1, <2>2, ScopeFrame DEF TopLevelSync, ScopeStages
<1>6. CASE WorkerExit
  <2>1. ~ready /\ worker'.at = "exited"
    BY <1>6, Names DEF WorkerExit, Stopping, ScopeInv, LastOwner, ReadyFile, IdleWorker
  <2>2. QED
    BY <1>6, <2>1, ScopeFrame DEF WorkerExit, ScopeStages
<1>7. QED
  BY <1>1, <1>2, <1>3, <1>4, <1>5, <1>6 DEF CommandStep

LEMMA OtherScope == ASSUME ScopeInv, ReaderStep \/ StartWalk \/ WalkStep PROVE ScopeInv'
<1>1. UNCHANGED <<ui, scope, ready, db, worker, file>>
  BY DEF ReaderStep, Cancel, Read, StartWalk, WalkStep, WalkState, WalkCatchUp, WalkDated,
         WalkBegin, WalkPage, WalkFinalize, WalkEnd, connection
<1>2. QED
  BY <1>1, ScopeSame
----------------------------------------------------------------------------
(* Commands: who waits, who is served, and whose account answers. *)

OfAccount(epoch) == epoch \in 1 .. requested.epoch /\ owners[epoch] \in Accounts

(* A queue holds commands of its class that wait, each once. *)
Queued ==
    \A class \in QueueNames : \A i \in DOMAIN queue[class] :
        /\ call[queue[class][i]].at = "queued" /\ ClassOf(call[queue[class][i]].kind) = class
        /\ \A j \in DOMAIN queue[class] : queue[class][i] = queue[class][j] => i = j

(* The commands the worker can be at work on in each of its places. *)
Serves(at) ==
    CASE at \in {"query", "query rows"} -> {"query"}
      [] at \in {"mediaPage", "page rows"} -> {"mediaPage"}
      [] at = "syncState" -> {"readState", "writeState"}
      [] at = "update" -> {"writeState"}
      [] at \in {"pageUpsert", "attempt", "commit"} -> {"pageUpsert"}
      [] OTHER -> {"begin", "finalize", "abort"}

(* A command is taken after the scope command of its epoch, and the file it reads or *)
(* writes once its scope has been looked at stays that of its account.               *)
Served == worker.at \in CommandStages =>
    /\ Command.at = "running" /\ Command.kind \in Serves(worker.at)
    /\ Command.epoch = requested.epoch => scopeCommands = <<>>
    /\ worker.at \in {"page rows", "commit"} => db = owners[Command.epoch]

Asking(c) ==
    /\ call[c].at \in {"queued", "running"} =>
          /\ call[c].answer = "none" /\ OfAccount(call[c].epoch)
          /\ c \in Readers => call[c].kind \in {"query", "mediaPage"}
    /\ call[c].at = "none" => call[c].answer = "none"
    /\ call[c].answer = "ok" => OfAccount(call[c].epoch) /\ call[c].source = owners[call[c].epoch]

CallInv == Queued /\ Served /\ \A c \in Callers : Asking(c)

(* The worker is not at a command afterwards. *)
CallFrame ==
    UNCHANGED <<requested, owners, queue, call>> /\ worker'.at \notin CommandStages

LEMMA FrameCalls == ASSUME CallInv, CallFrame PROVE CallInv'
<1>1. Queued'
  BY DEF CallInv, CallFrame, Queued
<1>2. Served'
  BY DEF CallFrame, Served
<1>3. (\A c \in Callers : Asking(c))'
  BY DEF CallInv, CallFrame, Asking, OfAccount
<1>4. QED
  BY <1>1, <1>2, <1>3 DEF CallInv

LEMMA RequestedCalls ==
  ASSUME TypeOK, CallInv, NEW account, Requested(account), UNCHANGED <<db, queue, call, worker>>
  PROVE  CallInv'
<1>1. /\ requested.epoch \in Nat /\ requested'.epoch = requested.epoch + 1
      /\ \A e \in 1 .. requested.epoch : owners'[e] = owners[e]
  BY DEF Requested, TypeOK, Scopes
<1>2. \A e : OfAccount(e) => OfAccount(e)' /\ owners'[e] = owners[e] /\ e # requested'.epoch
  BY <1>1 DEF OfAccount
<1>3. Queued'
  BY DEF CallInv, Queued
<1>4. (\A c \in Callers : Asking(c))'
  BY <1>2 DEF CallInv, Asking
<1>5. Served'
  <2>1. worker.caller \in Callers
    BY DEF TypeOK, WorkerStates
  <2>2. worker.at \in CommandStages => OfAccount(Command.epoch)
    BY <2>1 DEF CallInv, Served, Asking, Command
  <2>3. QED
    BY <1>2, <2>2 DEF CallInv, Served, Command
<1>6. QED
  BY <1>3, <1>4, <1>5 DEF CallInv

LEMMA EnqueuedCalls ==
  ASSUME TypeOK, CallInv, NEW c \in Callers, call[c].at \in {"none", "answered"},
         NEW command \in Calls, command.kind # "none", command.answer = "none",
         OfAccount(command.epoch), c \in Readers => command.kind \in {"query", "mediaPage"},
         Enqueued(c, command), UNCHANGED <<scope, db, worker>>
  PROVE  CallInv'
<1> DEFINE class == ClassOf(command.kind)
           full == [NoCall EXCEPT !.at = "answered", !.answer = "full"]
           asked == [command EXCEPT !.at = "queued"]
<1>1. class \in QueueNames
  BY ClassType DEF Calls
<1>2. /\ asked.at = "queued" /\ asked.kind = command.kind /\ asked.epoch = command.epoch
      /\ asked.answer = "none"
  BY DEF Calls
<1>3. full.at = "answered" /\ full.answer = "full"
  BY DEF NoCall
<1>4. \/ call' = [call EXCEPT ![c] = full] /\ queue' = queue
      \/ call' = [call EXCEPT ![c] = asked] /\ queue' = [queue EXCEPT ![class] = Append(@, c)]
  BY Zenon DEF Enqueued
<1>5. call \in [Callers -> Calls] /\ queue \in [QueueNames -> Seq(Callers)]
  BY DEF TypeOK
<1> HIDE DEF class, full, asked
<1>6. \A k \in Callers \ {c} : call'[k] = call[k]
  BY <1>4, <1>5
<1>7. call'[c] = full \/ call'[c] = asked
  BY <1>4, <1>5
<1>8. (\A k \in Callers : Asking(k))'
  BY <1>2, <1>3, <1>6, <1>7 DEF CallInv, Asking, OfAccount, scope
<1>9. Served'
  BY <1>6 DEF CallInv, Served, Command, TypeOK, WorkerStates, scope
<1>10. \A k \in QueueNames : \A i \in DOMAIN queue[k] :
          queue[k][i] \in Callers \ {c} /\ call'[queue[k][i]] = call[queue[k][i]]
  BY <1>5, <1>6 DEF CallInv, Queued
<1>11. Queued'
  <2>1. CASE queue' = queue
    BY <1>10, <2>1 DEF CallInv, Queued
  <2>2. CASE call' = [call EXCEPT ![c] = asked] /\ queue' = [queue EXCEPT ![class] = Append(@, c)]
    <3>1. \A k \in QueueNames \ {class} : queue'[k] = queue[k]
      BY <1>5, <2>2
    <3>2. queue'[class] = Append(queue[class], c) /\ queue[class] \in Seq(Callers)
      BY <1>1, <1>5, <2>2
    <3>3. call'[c].at = "queued" /\ ClassOf(call'[c].kind) = class
      BY <1>2, <1>5, <2>2 DEF class
    <3>4. ASSUME NEW k \in QueueNames, k # class, NEW i \in DOMAIN queue'[k]
          PROVE  /\ call'[queue'[k][i]].at = "queued" /\ ClassOf(call'[queue'[k][i]].kind) = k
                 /\ \A j \in DOMAIN queue'[k] : queue'[k][i] = queue'[k][j] => i = j
      BY <1>10, <3>1, <3>4 DEF CallInv, Queued
    <3>5. ASSUME NEW i \in DOMAIN queue'[class]
          PROVE  /\ call'[queue'[class][i]].at = "queued"
                 /\ ClassOf(call'[queue'[class][i]].kind) = class
                 /\ \A j \in DOMAIN queue'[class] : queue'[class][i] = queue'[class][j] => i = j
      <4>1. /\ DOMAIN queue[class] = 1 .. Len(queue[class]) /\ Len(queue[class]) \in Nat
            /\ DOMAIN queue'[class] = 1 .. Len(queue[class]) + 1
            /\ queue'[class][Len(queue[class]) + 1] = c
            /\ \A j \in 1 .. Len(queue[class]) : queue'[class][j] = queue[class][j]
        BY <3>2
      <4>2. CASE i = Len(queue[class]) + 1
        <5>1. \A j \in 1 .. Len(queue[class]) : queue'[class][j] # c
          BY <1>1, <1>10, <4>1
        <5>2. QED
          BY <3>3, <4>1, <4>2, <5>1
      <4>3. CASE i \in 1 .. Len(queue[class])
        <5>1. /\ call[queue[class][i]].at = "queued" /\ ClassOf(call[queue[class][i]].kind) = class
              /\ \A j \in DOMAIN queue[class] : queue[class][i] = queue[class][j] => i = j
          BY <1>1, <4>1, <4>3 DEF CallInv, Queued
        <5>2. queue[class][i] # c /\ call'[queue[class][i]] = call[queue[class][i]]
          BY <1>1, <1>10, <4>1, <4>3
        <5>3. queue'[class][i] = queue[class][i]
          BY <4>1, <4>3
        <5>4. \A j \in DOMAIN queue'[class] :
                 \/ j \in DOMAIN queue[class] /\ queue'[class][j] = queue[class][j]
                 \/ queue'[class][j] = c
          BY <4>1
        <5>5. \A j \in DOMAIN queue'[class] : queue'[class][i] = queue'[class][j] => i = j
          BY <5>1, <5>2, <5>3, <5>4
        <5>6. QED
          BY <5>1, <5>2, <5>3, <5>5
      <4>4. QED
        BY <4>1, <4>2, <4>3
    <3>6. QED
      BY <3>4, <3>5 DEF Queued
  <2>3. QED
    BY <1>4, <2>1, <2>2
<1>12. QED
  BY <1>8, <1>9, <1>11 DEF CallInv

LEMMA UiCalls == ASSUME TypeOK, CallInv, UiStep PROVE CallInv'
<1>1. CASE (\E a \in Accounts : ConfigureScope(a)) \/ DeconfigureScope
  BY <1>1, RequestedCalls DEF ConfigureScope, DeconfigureScope
<1>2. CASE StopCoordinator
  BY <1>2 DEF StopCoordinator, CallInv, Queued, Served, Asking, OfAccount, Command, scope,
              connection
<1>3. CASE Destroy
  <2> DEFINE stopped == [NoCall EXCEPT !.at = "answered", !.answer = "stopped"]
  <2>1. stopped.at = "answered" /\ stopped.answer = "stopped"
    BY DEF NoCall
  <2>2. \A c \in Callers : call'[c] = IF call[c].at = "queued" THEN stopped ELSE call[c]
    BY <1>3 DEF Destroy
  <2> HIDE DEF stopped
  <2>3. Queued'
    BY <1>3 DEF Destroy, Queued
  <2>4. (\A c \in Callers : Asking(c))'
    BY <1>3, <2>1, <2>2 DEF Destroy, CallInv, Asking, OfAccount
  <2>5. Served'
    BY <1>3, <2>2 DEF Destroy, CallInv, Served, Command, TypeOK, WorkerStates, connection
  <2>6. QED
    BY <2>3, <2>4, <2>5 DEF CallInv
<1>4. CASE Launch
  <2>1. Queued' /\ Served'
    BY <1>4 DEF Launch, Queued, Served, IdleWorker, CommandStages
  <2>2. \A c \in Callers : call'[c].at = "none" /\ call'[c].answer = "none"
    BY <1>4 DEF Launch, NoCall
  <2>3. QED
    BY <2>1, <2>2 DEF CallInv, Asking
<1>5. QED
  BY <1>1, <1>2, <1>3, <1>4 DEF UiStep

LEMMA ReaderCalls == ASSUME TypeOK, CallInv, ReaderStep PROVE CallInv'
<1>1. ASSUME NEW c \in Readers, Cancel(c) PROVE CallInv'
  <2>1. call' = [call EXCEPT ![c].cancelled = TRUE] /\ call \in [Callers -> Calls]
    BY <1>1 DEF Cancel, TypeOK
  <2>2. \A k \in Callers : /\ call'[k].at = call[k].at /\ call'[k].kind = call[k].kind
                           /\ call'[k].epoch = call[k].epoch /\ call'[k].answer = call[k].answer
                           /\ call'[k].source = call[k].source
    BY <2>1 DEF Calls
  <2>3. Queued'
    BY <1>1, <2>2 DEF Cancel, CallInv, Queued, TypeOK
  <2>4. Served' /\ (\A k \in Callers : Asking(k))'
    BY <1>1, <2>2 DEF Cancel, CallInv, Served, Command, Asking, OfAccount, TypeOK, WorkerStates,
                      scope, connection
  <2>5. QED
    BY <2>3, <2>4 DEF CallInv
<1>2. ASSUME NEW c \in Readers, NEW kind \in {"query", "mediaPage"},
             NEW epoch \in 1 .. requested.epoch, Read(c, kind, epoch)
      PROVE  CallInv'
  <2> DEFINE command == [NoCall EXCEPT !.kind = kind, !.epoch = epoch]
  <2>1. epoch \in Nat /\ OfAccount(epoch) /\ c \in Callers
    BY <1>2 DEF Read, OfAccount, TypeOK, Scopes, Callers
  <2>2. /\ command \in Calls /\ command.kind = kind /\ command.epoch = epoch
        /\ command.answer = "none"
    BY <2>1, Samples DEF Calls, NoCall, Kinds
  <2>3. /\ Enqueued(c, command) /\ call[c].at \in {"none", "answered"}
        /\ UNCHANGED <<scope, db, worker>>
    BY <1>2 DEF Read, connection
  <2> HIDE DEF command
  <2>4. QED
    BY <2>1, <2>2, <2>3, EnqueuedCalls
<1>3. QED
  BY <1>1, <1>2 DEF ReaderStep

LEMMA GoesCalls ==
  ASSUME TypeOK, CallInv, worker.at \in CommandStages, UNCHANGED <<scope, db, queue, call>>,
         worker'.at \in CommandStages, worker'.caller = worker.caller,
         Command.kind \in Serves(worker'.at),
         worker'.at \in {"page rows", "commit"} => db = owners[Command.epoch]
  PROVE  CallInv'
<1>1. Queued'
  BY DEF CallInv, Queued
<1>2. Served'
  BY DEF CallInv, Served, Command, scope
<1>3. (\A c \in Callers : Asking(c))'
  BY DEF CallInv, Asking, OfAccount, scope
<1>4. QED
  BY <1>1, <1>2, <1>3 DEF CallInv

LEMMA AnsweredCalls ==
  ASSUME TypeOK, CallInv, worker.at \in CommandStages, NEW answer \in Answers, Answered(answer),
         UNCHANGED <<scope, queue>>, answer = "ok" => db = owners[Command.epoch]
  PROVE  CallInv'
<1> DEFINE told == [NoCall EXCEPT !.at = "answered", !.epoch = Command.epoch, !.answer = answer,
                                  !.source = db]
<1>1. told.at = "answered" /\ told.epoch = Command.epoch /\ told.answer = answer /\ told.source = db
  BY DEF NoCall
<1>2. call' = [call EXCEPT ![worker.caller] = told] /\ worker' = IdleWorker
  BY Zenon DEF Answered
<1>3. call \in [Callers -> Calls] /\ worker.caller \in Callers
      /\ queue \in [QueueNames -> Seq(Callers)]
  BY DEF TypeOK, WorkerStates
<1>4. Command.at = "running" /\ OfAccount(Command.epoch)
  BY <1>3 DEF CallInv, Served, Asking, Command
<1> HIDE DEF told
<1>5. call'[worker.caller] = told /\ \A k \in Callers \ {worker.caller} : call'[k] = call[k]
  BY <1>2, <1>3
<1>6. Served'
  BY <1>2 DEF Served, IdleWorker, CommandStages
<1>7. (\A c \in Callers : Asking(c))'
  BY <1>1, <1>4, <1>5 DEF CallInv, Asking, OfAccount, scope
<1>8. \A k \in QueueNames : \A i \in DOMAIN queue[k] : call'[queue[k][i]] = call[queue[k][i]]
  BY <1>3, <1>4, <1>5 DEF CallInv, Queued, Command
<1>9. Queued'
  BY <1>8 DEF CallInv, Queued
<1>10. QED
  BY <1>6, <1>7, <1>9 DEF CallInv

(* A scope that is valid for a command is that of the account the command was made for. *)
LEMMA ValidOwner ==
  ASSUME TypeOK, ScopeInv, CallInv, worker.at \in CommandStages, Valid
  PROVE  db = owners[Command.epoch]
<1>1. worker.caller \in Callers
  BY DEF TypeOK, WorkerStates
<1>2. OfAccount(Command.epoch)
  BY <1>1 DEF CallInv, Served, Asking, Command
<1>3. QED
  BY <1>2 DEF Valid, ScopeInv, ReadyFile, LastOwner, OfAccount, TypeOK, Scopes
LEMMA TakeCalls == ASSUME TypeOK, CallInv, TakeCommand PROVE CallInv'
<1>1. PICK class \in QueueNames : Foremost(class) /\ Takes(class)
  BY DEF TakeCommand
<1>2. /\ queue[class] \in Seq(Callers) /\ queue[class] # <<>>
      /\ call \in [Callers -> Calls] /\ queue \in [QueueNames -> Seq(Callers)]
  BY <1>1 DEF Foremost, TypeOK
<1> DEFINE c == Head(queue[class])
<1>3. /\ c \in Callers /\ c = queue[class][1] /\ 1 \in DOMAIN queue[class]
      /\ Tail(queue[class]) \in Seq(Callers)
      /\ \A i \in DOMAIN Tail(queue[class]) :
            i + 1 \in DOMAIN queue[class] /\ i \in Nat \ {0}
            /\ Tail(queue[class])[i] = queue[class][i + 1]
  BY <1>2
<1>4. /\ worker' = [IdleWorker EXCEPT !.at = class, !.caller = c]
      /\ call' = [call EXCEPT ![c].at = "running"]
      /\ queue' = [queue EXCEPT ![class] = Tail(@)]
  BY <1>1 DEF Takes
<1> HIDE DEF c
<1>5. /\ call[c].at = "queued" /\ ClassOf(call[c].kind) = class /\ Asking(c)
  BY <1>3 DEF CallInv, Queued
<1>6. /\ \A k \in Callers \ {c} : call'[k] = call[k]
      /\ call'[c] = [call[c] EXCEPT !.at = "running"]
  BY <1>2, <1>3, <1>4
<1>7. /\ call'[c].at = "running" /\ call'[c].kind = call[c].kind
      /\ call'[c].epoch = call[c].epoch /\ call'[c].answer = call[c].answer
      /\ call'[c].source = call[c].source
  BY <1>2, <1>3, <1>6 DEF Calls
<1>8. worker'.at = class /\ worker'.caller = c
  BY <1>4 DEF IdleWorker
<1>9. (\A k \in Callers : Asking(k))'
  <2>1. UNCHANGED <<requested, owners>> /\ \A k \in Callers : Asking(k)
    BY DEF TakeCommand, CallInv, scope
  <2>2. ASSUME NEW k \in Callers PROVE Asking(k)'
    <3>1. CASE k = c
      BY <1>5, <1>7, <2>1, <3>1 DEF Asking, OfAccount
    <3>2. CASE k # c
      BY <1>6, <2>1, <3>2 DEF Asking, OfAccount
    <3>3. QED
      BY <3>1, <3>2
  <2>3. QED
    BY <2>2
<1>10. Served'
  <2>1. call[c].kind \in Kinds /\ call[c].kind # "none"
    BY <1>1, <1>2, <1>3, <1>5, QueueList DEF Calls, ClassOf
  <2>2. call[c].kind \in Serves(class)
    BY <1>1, <1>5, <2>1, QueueList DEF ClassOf, Serves, Kinds
  <2>3. scopeCommands' = <<>> /\ class \notin {"page rows", "commit"}
    BY <1>1, QueueList DEF TakeCommand, scope
  <2>4. QED
    BY <1>7, <1>8, <2>2, <2>3 DEF Served, Command
<1>11. Queued'
  <2>1. \A k \in QueueNames \ {class} : queue'[k] = queue[k]
    BY <1>2, <1>4
  <2>2. queue'[class] = Tail(queue[class])
    BY <1>1, <1>2, <1>4
  <2>3. ASSUME NEW k \in QueueNames, NEW i \in DOMAIN queue'[k]
        PROVE  /\ call'[queue'[k][i]].at = "queued" /\ ClassOf(call'[queue'[k][i]].kind) = k
               /\ \A j \in DOMAIN queue'[k] : queue'[k][i] = queue'[k][j] => i = j
    <3>1. CASE k # class
      <4>1. /\ call[queue[k][i]].at = "queued" /\ ClassOf(call[queue[k][i]].kind) = k
            /\ queue[k][i] \in Callers
            /\ \A j \in DOMAIN queue[k] : queue[k][i] = queue[k][j] => i = j
        BY <1>2, <2>1, <3>1 DEF CallInv, Queued
      <4>2. queue[k][i] # c
        BY <1>5, <3>1, <4>1
      <4>3. QED
        BY <1>6, <2>1, <3>1, <4>1, <4>2
    <3>2. CASE k = class
      <4>1. i + 1 \in DOMAIN queue[class] /\ i \in Nat \ {0} /\ queue'[k][i] = queue[class][i + 1]
        BY <1>3, <2>2, <3>2
      <4>2. /\ call[queue[class][i + 1]].at = "queued"
            /\ ClassOf(call[queue[class][i + 1]].kind) = class
            /\ queue[class][i + 1] \in Callers
            /\ \A j \in DOMAIN queue[class] : queue[class][i + 1] = queue[class][j] => i + 1 = j
        BY <1>2, <4>1 DEF CallInv, Queued
      <4>3. queue[class][i + 1] # c
        BY <1>3, <4>1, <4>2
      <4>4. \A j \in DOMAIN queue'[k] : queue'[k][i] = queue'[k][j] => i = j
        <5>1. ASSUME NEW j \in DOMAIN queue'[k], queue'[k][i] = queue'[k][j] PROVE i = j
          <6>1. j + 1 \in DOMAIN queue[class] /\ j \in Nat /\ queue'[k][j] = queue[class][j + 1]
            BY <1>3, <2>2, <3>2
          <6>2. i + 1 = j + 1
            BY <4>1, <4>2, <5>1, <6>1
          <6>3. QED
            BY <4>1, <6>1, <6>2
        <5>2. QED
          BY <5>1
      <4>5. QED
        BY <1>6, <3>2, <4>1, <4>2, <4>3, <4>4
    <3>3. QED
      BY <3>1, <3>2
  <2>4. QED
    BY <2>3 DEF Queued
<1>12. QED
  BY <1>9, <1>10, <1>11 DEF CallInv

(* A step that leaves the command where it is, or answers it. *)
LEMMA Steps ==
  ASSUME TypeOK, NEW at \in CommandStages, Goes(at)
  PROVE  worker'.at = at /\ worker'.caller = worker.caller /\ UNCHANGED call
<1>1. worker \in WorkerStates
  BY DEF TypeOK
<1>2. QED
  BY <1>1 DEF Goes, WorkerStates

LEMMA CommandCalls ==
  ASSUME TypeOK, ScopeInv, CallInv, CommandStep \/ WorkerExit \/ ScopeStep
  PROVE  CallInv'
<1>1. CASE TakeCommand
  BY <1>1, TakeCalls
<1>2. CASE WorkerExit \/ ScopeStep
  <2>1. UNCHANGED <<requested, owners, queue, call>>
    BY <1>2 DEF WorkerExit, ScopeStep, TakeScope, ProcessScope, InspectPath, PromoteCatalog,
                EnsureSchema, Backfill, PublishScope, scope
  <2>2. worker'.at \notin CommandStages
    <3>1. worker \in WorkerStates
      BY DEF TypeOK
    <3>2. worker' = IdleWorker \/ worker'.at \in ScopeStages \union {"exited"}
      BY <1>2, <3>1 DEF WorkerExit, ScopeStep, TakeScope, ProcessScope, InspectPath,
              PromoteCatalog, EnsureSchema, Backfill, PublishScope, OpenFails, Opening, IdleWorker,
              ScopeStages, WorkerStates
    <3>3. IdleWorker.at = "idle"
      BY DEF IdleWorker
    <3>4. worker'.at \in ScopeStages \union {"exited", "idle"}
      BY <3>2, <3>3
    <3>5. QED
      BY <3>4 DEF ScopeStages, CommandStages
  <2>3. QED
    BY <2>1, <2>2, FrameCalls DEF CallFrame
<1>3. ASSUME worker.at \in CommandStages, NEW answer \in Answers \ {"ok"}, Answered(answer),
             UNCHANGED <<scope, queue>>
      PROVE  CallInv'
  BY <1>3, AnsweredCalls
<1>4. ASSUME worker.at \in CommandStages, Answered("ok"), UNCHANGED <<scope, queue>>,
             Valid \/ worker.at \in {"page rows", "commit"}
      PROVE  CallInv'
  BY <1>4, AnsweredCalls, ValidOwner DEF Answers, CallInv, Served
<1>5. CASE StartQuery
  <2>1. CASE Goes("query rows")
    BY <1>5, <2>1, Steps, GoesCalls
       DEF StartQuery, CommandStages, CallInv, Served, Serves, connection
  <2>2. CASE \E answer \in Answers \ {"ok"} : Answered(answer)
    BY <1>3, <1>5, <2>2 DEF StartQuery, CommandStages
  <2>3. QED
    BY <1>5, <2>1, <2>2 DEF StartQuery, Refused, Answers
<1>6. CASE StartMediaPage
  <2>1. CASE Goes("page rows") /\ Valid
    BY <1>6, <2>1, Steps, GoesCalls, ValidOwner
       DEF StartMediaPage, CommandStages, CallInv, Served, Serves, connection
  <2>2. CASE \E answer \in Answers \ {"ok"} : Answered(answer)
    BY <1>3, <1>6, <2>2 DEF StartMediaPage, CommandStages
  <2>3. QED
    BY <1>6, <2>1, <2>2 DEF StartMediaPage, Answers
<1>7. CASE EndRead
  <2>1. worker.at \in CommandStages /\ UNCHANGED <<scope, queue>>
    BY <1>7 DEF EndRead, CommandStages
  <2>2. \/ Answered("ok") /\ (Valid \/ worker.at = "page rows")
        \/ \E answer \in Answers \ {"ok"} : Answered(answer)
    BY <1>7 DEF EndRead, Usable, Refused, Answers
  <2>3. QED
    BY <1>3, <1>4, <2>1, <2>2
<1>8. CASE ReadState
  <2>1. worker.at \in CommandStages /\ UNCHANGED <<scope, queue>>
    BY <1>8 DEF ReadState, CommandStages
  <2>2. \/ Answered("ok") /\ Valid
        \/ \E answer \in Answers \ {"ok"} : Answered(answer)
    BY <1>8 DEF ReadState, Usable, Refused, Answers
  <2>3. QED
    BY <1>3, <1>4, <2>1, <2>2
<1>9. CASE StartStateWrite
  <2>1. CASE Goes("update")
    BY <1>9, <2>1, Steps, GoesCalls
       DEF StartStateWrite, CommandStages, Serves, connection
  <2>2. CASE \E answer \in Answers \ {"ok"} : Answered(answer)
    BY <1>3, <1>9, <2>2 DEF StartStateWrite, CommandStages
  <2>3. QED
    BY <1>9, <2>1, <2>2 DEF StartStateWrite, Answers
<1>10. CASE EndStateWrite
  <2>1. worker.at \in CommandStages /\ UNCHANGED <<scope, queue>>
    BY <1>10 DEF EndStateWrite, CommandStages
  <2>2. \/ Answered("ok") /\ Valid
        \/ \E answer \in Answers \ {"ok"} : Answered(answer)
    BY <1>10 DEF EndStateWrite, Answers
  <2>3. QED
    BY <1>3, <1>4, <2>1, <2>2
<1>11. CASE StartPage
  <2>1. CASE Goes("attempt")
    BY <1>11, <2>1, Steps, GoesCalls
       DEF StartPage, CommandStages, CallInv, Served, Serves, connection
  <2>2. CASE \E answer \in Answers \ {"ok"} : Answered(answer)
    BY <1>3, <1>11, <2>2 DEF StartPage, CommandStages
  <2>3. QED
    BY <1>11, <2>1, <2>2 DEF StartPage, Refused, Answers
<1>12. CASE AttemptPage
  <2>1. CASE Goes("commit") /\ Valid
    BY <1>12, <2>1, Steps, GoesCalls, ValidOwner
       DEF AttemptPage, CommandStages, CallInv, Served, Serves, connection
  <2>2. CASE \E answer \in Answers \ {"ok"} : Answered(answer)
    BY <1>3, <1>12, <2>2 DEF AttemptPage, CommandStages
  <2>3. QED
    BY <1>12, <2>1, <2>2 DEF AttemptPage, Usable, Refused, Answers
<1>13. CASE CommitPage
  <2>1. worker.at \in CommandStages /\ UNCHANGED <<scope, queue, db>>
    BY <1>13 DEF CommitPage, CommandStages
  <2>2. CASE worker' = [worker EXCEPT !.at = "attempt", !.attempt = @ + 1] /\ UNCHANGED call
    <3>1. worker \in WorkerStates
      BY DEF TypeOK
    <3>2. worker'.at = "attempt" /\ worker'.caller = worker.caller
      BY <2>2, <3>1 DEF WorkerStates
    <3>3. QED
      BY <1>13, <2>1, <2>2, <3>2, GoesCalls DEF CommitPage, CommandStages, CallInv, Served, Serves
  <2>3. CASE Answered("ok") \/ Answered("failed")
    BY <1>3, <1>4, <1>13, <2>1, <2>3 DEF CommitPage, Answers
  <2>4. QED
    BY <1>13, <2>2, <2>3 DEF CommitPage, PageResult, Retried
<1>14. CASE TopLevelSync
  <2>1. worker.at \in CommandStages /\ UNCHANGED <<scope, queue>>
    BY <1>14 DEF TopLevelSync, CommandStages
  <2>2. \/ Answered("ok") /\ Valid
        \/ \E answer \in Answers \ {"ok"} : Answered(answer)
    BY <1>14 DEF TopLevelSync, Begin, Finalize, Abort, Answers
  <2>3. QED
    BY <1>3, <1>4, <2>1, <2>2
<1>15. QED
  BY <1>1, <1>2, <1>5, <1>6, <1>7, <1>8, <1>9, <1>10, <1>11, <1>12, <1>13, <1>14 DEF CommandStep
----------------------------------------------------------------------------
(* The walk: what it waits for. *)

(* A walk waits for a command of its own, for the account in use, and has had an answer *)
(* to the last one when it is over.                                                     *)
Talk ==
    /\ walk.at = "off" => call[Walker].at \in {"none", "answered"}
    /\ walk.at # "off" =>
          /\ ui.at \in {"in", "leaving"} /\ walk.epoch = requested.epoch /\ walk.id = used.walks
          /\ call[Walker].at # "none"
          /\ call[Walker].at \in {"queued", "running"} =>
                /\ call[Walker].kind = KindAt(walk.at) /\ call[Walker].epoch = walk.epoch
                /\ call[Walker].page = walk.page
                /\ call[Walker].sync = IF walk.at = "changes" THEN 0 ELSE walk.sync
    /\ Placed(walk)

(* What the worker does to the command of the walk. *)
Heard ==
    \/ call'[Walker] = call[Walker]
    \/ call[Walker].at = "queued" /\ call'[Walker] = [call[Walker] EXCEPT !.at = "running"]
    \/ call[Walker].at = "running" /\ call'[Walker].at = "answered"

LEMMA AnsweredHeard ==
  ASSUME TypeOK, CallInv, worker.at \in CommandStages, NEW answer, Answered(answer)
  PROVE  /\ Heard
         /\ worker.caller # Walker => call'[Walker] = call[Walker]
         /\ worker.caller = Walker =>
               /\ call[Walker].at = "running" /\ call'[Walker].at = "answered"
               /\ call'[Walker].answer = answer
<1> DEFINE told == [NoCall EXCEPT !.at = "answered", !.epoch = Command.epoch, !.answer = answer,
                                  !.source = db]
<1>1. told.at = "answered" /\ told.answer = answer
  BY DEF NoCall
<1>2. call' = [call EXCEPT ![worker.caller] = told]
  BY Zenon DEF Answered
<1>3. call \in [Callers -> Calls] /\ worker.caller \in Callers /\ Walker \in Callers
  BY DEF TypeOK, WorkerStates, Callers
<1>4. call[worker.caller].at = "running"
  BY DEF CallInv, Served, Command
<1> HIDE DEF told
<1>5. QED
  BY <1>1, <1>2, <1>3, <1>4 DEF Heard

LEMMA CommandHeard == ASSUME TypeOK, CallInv, CommandStep PROVE Heard
<1>1. CASE TakeCommand
  <2>1. PICK class \in QueueNames : Foremost(class) /\ Takes(class)
    BY <1>1 DEF TakeCommand
  <2>2. /\ queue[class] \in Seq(Callers) /\ queue[class] # <<>> /\ Walker \in Callers
        /\ call \in [Callers -> Calls]
    BY <2>1 DEF Foremost, TypeOK, Callers
  <2>3. /\ Head(queue[class]) \in Callers /\ Head(queue[class]) = queue[class][1]
        /\ 1 \in DOMAIN queue[class]
    BY <2>2
  <2>4. call[Head(queue[class])].at = "queued"
    BY <2>3 DEF CallInv, Queued
  <2>5. call' = [call EXCEPT ![Head(queue[class])].at = "running"]
    BY <2>1 DEF Takes
  <2>6. QED
    BY <2>2, <2>3, <2>4, <2>5 DEF Heard
<1>2. CASE CommandStep /\ ~TakeCommand
  <2>1. worker.at \in CommandStages
    BY <1>2 DEF CommandStep, StartQuery, StartMediaPage, EndRead, ReadState, StartStateWrite,
                EndStateWrite, StartPage, AttemptPage, CommitPage, TopLevelSync, CommandStages
  <2>2. UNCHANGED call \/ \E answer : Answered(answer)
    <3>1. CASE StartQuery \/ StartMediaPage \/ EndRead \/ ReadState \/ StartPage \/ AttemptPage
               \/ StartStateWrite
      BY <3>1, ReadEnds DEF Goes
    <3>2. CASE EndStateWrite
      BY <3>2 DEF EndStateWrite
    <3>3. CASE CommitPage
      BY <3>3 DEF CommitPage, PageResult, Retried
    <3>4. CASE TopLevelSync
      BY <3>4 DEF TopLevelSync, Begin, Finalize, Abort
    <3>5. QED
      BY <1>2, <3>1, <3>2, <3>3, <3>4 DEF CommandStep
  <2>3. QED
    BY <2>1, <2>2, AnsweredHeard DEF Heard
<1>3. QED
  BY <1>1, <1>2

LEMMA WorkerKeeps ==
  ASSUME TypeOK, CallInv, WorkerStep
  PROVE  UNCHANGED <<ui, requested, owners, walk>> /\ used'.walks = used.walks /\ Heard
<1>1. UNCHANGED <<ui, requested, owners, walk>>
  BY DEF WorkerStep, ScopeStep, CommandStep, WorkerExit, TakeScope, ProcessScope, InspectPath,
         PromoteCatalog, EnsureSchema, Backfill, PublishScope, TakeCommand, StartQuery,
         StartMediaPage, EndRead, ReadState, StartStateWrite, EndStateWrite, StartPage, AttemptPage,
         CommitPage, TopLevelSync, scope
<1>2. used' = used \/ used' = [used EXCEPT !.faults = @ + 1]
  BY Zenon DEF WorkerStep, ScopeStep, CommandStep, WorkerExit, TakeScope, ProcessScope, InspectPath,
         PromoteCatalog, EnsureSchema, Backfill, PublishScope, TakeCommand, StartQuery,
         StartMediaPage, EndRead, ReadState, StartStateWrite, EndStateWrite, StartPage, AttemptPage,
         CommitPage, PageResult, TopLevelSync, Begin, Finalize, Abort, Fault, NoFault
<1>3. used'.walks = used.walks
  BY <1>2 DEF TypeOK, Use
<1>4. Heard
  <2>1. CASE CommandStep
    BY <2>1, CommandHeard
  <2>2. CASE ScopeStep \/ WorkerExit
    BY <2>2 DEF ScopeStep, WorkerExit, TakeScope, ProcessScope, InspectPath, PromoteCatalog,
                EnsureSchema, Backfill, PublishScope, Heard
  <2>3. QED
    BY <2>1, <2>2 DEF WorkerStep
<1>5. QED
  BY <1>1, <1>3, <1>4

(* The walk asks: its command waits, or was turned away by a full queue. *)
LEMMA AsksCall ==
  ASSUME TypeOK, NEW kind \in Kinds \ {"none"}, NEW w \in Walks, Asks(kind, w)
  PROVE  /\ walk' = w
         /\ \/ call'[Walker].at = "answered" /\ call'[Walker].answer = "full"
            \/ /\ call'[Walker].at = "queued" /\ call'[Walker].kind = kind
               /\ call'[Walker].epoch = w.epoch /\ call'[Walker].page = w.page
               /\ call'[Walker].sync = IF w.at = "changes" THEN 0 ELSE w.sync
         /\ CallInv /\ call[Walker].at \in {"none", "answered"} /\ OfAccount(w.epoch)
            /\ UNCHANGED <<scope, db, worker>> => CallInv'
<1> DEFINE command == [NoCall EXCEPT !.kind = kind, !.epoch = w.epoch, !.page = w.page,
                                     !.sync = IF w.at = "changes" THEN 0 ELSE w.sync]
           full == [NoCall EXCEPT !.at = "answered", !.answer = "full"]
           asked == [command EXCEPT !.at = "queued"]
<1>1. /\ command \in Calls /\ command.kind = kind /\ command.answer = "none"
      /\ command.epoch = w.epoch
  BY Samples DEF Calls, Walks, NoCall
<1>2. Walker \in Callers /\ Enqueued(Walker, command) /\ walk' = w
  BY DEF Asks, Callers
<1>3. call' = [call EXCEPT ![Walker] = full] \/ call' = [call EXCEPT ![Walker] = asked]
  BY <1>2, Zenon DEF Enqueued
<1>4. full.at = "answered" /\ full.answer = "full"
  BY DEF NoCall
<1>5. /\ asked.at = "queued" /\ asked.kind = kind /\ asked.epoch = w.epoch /\ asked.page = w.page
      /\ asked.sync = IF w.at = "changes" THEN 0 ELSE w.sync
  BY DEF NoCall
<1>6. call'[Walker] = full \/ call'[Walker] = asked
  BY <1>2, <1>3 DEF TypeOK
<1> HIDE DEF command, full, asked
<1>7. CallInv /\ call[Walker].at \in {"none", "answered"} /\ OfAccount(w.epoch)
        /\ UNCHANGED <<scope, db, worker>> => CallInv'
  BY <1>1, <1>2, EnqueuedCalls, Names
<1>8. QED
  BY <1>2, <1>4, <1>5, <1>6, <1>7

LEMMA UiTalk == ASSUME TypeOK, Talk, UiStep PROVE Talk'
<1>1. Walker \in Callers /\ call \in [Callers -> Calls] /\ walk \in Walks
  BY DEF TypeOK, Callers
<1>2. NoWalk.at = "off" /\ Placed(NoWalk)
  BY Limits DEF NoWalk, Placed
<1>3. CASE (\E a \in Accounts : ConfigureScope(a)) \/ DeconfigureScope
  BY <1>2, <1>3 DEF ConfigureScope, DeconfigureScope, Joined, Talk
<1>4. CASE StopCoordinator
  <2>1. walk' = [walk EXCEPT !.cancelled = TRUE] /\ UNCHANGED <<requested, call, used>>
        /\ ui'.at = "leaving" /\ ui.at = "in"
    BY <1>4 DEF StopCoordinator, scope
  <2>2. /\ walk'.at = walk.at /\ walk'.id = walk.id /\ walk'.epoch = walk.epoch
        /\ walk'.sync = walk.sync /\ walk'.page = walk.page
    BY <1>1, <2>1 DEF Walks
  <2>3. QED
    BY <2>1, <2>2 DEF Talk, Placed
<1>5. CASE Destroy
  <2>1. walk.at = "off" /\ walk' = walk
    BY <1>5 DEF Destroy, Talk
  <2>2. call'[Walker].at \in {"none", "answered"}
    BY <1>1, <1>5, <2>1 DEF Destroy, Talk, NoCall
  <2>3. QED
    BY <2>1, <2>2 DEF Talk
<1>6. CASE Launch
  <2>1. walk' = NoWalk /\ call'[Walker].at = "none"
    BY <1>1, <1>6 DEF Launch, NoCall
  <2>2. QED
    BY <1>2, <2>1 DEF Talk
<1>7. QED
  BY <1>3, <1>4, <1>5, <1>6 DEF UiStep

(* A reader does nothing to the command of the walk. *)
LEMMA ReaderApart ==
  ASSUME TypeOK, ReaderStep
  PROVE  /\ call'[Walker] = call[Walker] /\ used'.walks = used.walks
         /\ UNCHANGED <<ui, scope, connection, worker, walk, file>>
<1>1. call \in [Callers -> Calls] /\ Walker \in Callers /\ Walker \notin Readers
  BY Names DEF TypeOK, Callers
<1>2. UNCHANGED <<ui, scope, connection, worker, walk, file>>
  BY DEF ReaderStep, Cancel, Read
<1>3. used' = used \/ used' = [used EXCEPT !.reads = @ + 1]
  BY DEF ReaderStep, Cancel, Read
<1>4. PICK c \in Readers : call' = call \/ \E v : call' = [call EXCEPT ![c] = v]
  BY Zenon DEF ReaderStep, Cancel, Read, Enqueued
<1>5. QED
  BY <1>1, <1>2, <1>3, <1>4 DEF TypeOK, Use

LEMMA WorkerTalk ==
  ASSUME TypeOK, Talk, UNCHANGED <<ui, requested, walk>>, used'.walks = used.walks, Heard
  PROVE  Talk'
<1>1. call[Walker] \in Calls
  BY DEF TypeOK, Callers
<1>2. CASE call'[Walker] = call[Walker]
  BY <1>2 DEF Talk, Placed
<1>3. CASE call[Walker].at = "queued" /\ call'[Walker] = [call[Walker] EXCEPT !.at = "running"]
  <2>1. /\ call'[Walker].at = "running" /\ call'[Walker].kind = call[Walker].kind
        /\ call'[Walker].epoch = call[Walker].epoch /\ call'[Walker].page = call[Walker].page
        /\ call'[Walker].sync = call[Walker].sync
    BY <1>1, <1>3 DEF Calls
  <2>2. QED
    BY <1>3, <2>1 DEF Talk, Placed
<1>4. CASE call[Walker].at = "running" /\ call'[Walker].at = "answered"
  BY <1>4 DEF Talk, Placed
<1>5. QED
  BY <1>2, <1>3, <1>4 DEF Heard

LEMMA StepReplied ==
  ASSUME WalkStep
  PROVE  /\ call[Walker].at = "answered" /\ walk.at # "off"
         /\ UNCHANGED <<ui, scope, connection, worker, file, used>>
  BY DEF WalkStep, WalkState, WalkCatchUp, WalkDated, WalkBegin, WalkPage, WalkFinalize, WalkEnd,
         Replied

LEMMA SignedIn ==
  ASSUME TypeOK, ScopeInv, ui.at \in {"in", "leaving"}
  PROVE  OfAccount(requested.epoch) /\ requested.account = owners[requested.epoch]
         /\ requested.account \in Accounts
<1>1. requested.account # NoAccount /\ requested.account \in Owners /\ requested.epoch \in Nat
  BY DEF ScopeInv, LastOwner, TypeOK, Scopes
<1>2. QED
  BY <1>1 DEF ScopeInv, LastOwner, OfAccount, Owners

LEMMA WalkTalk ==
  ASSUME TypeOK, ScopeInv, CallInv, SourceKnown, Talk, StartWalk \/ WalkStep
  PROVE  Talk' /\ CallInv'
<1>1. CASE StartWalk
  <2> DEFINE w == [walk EXCEPT !.at = "state", !.id = used.walks + 1, !.page = 0,
                               !.epoch = requested.epoch]
  <2>1. used.walks + 1 \in Nat /\ requested.epoch \in Nat /\ walk \in Walks
    BY DEF TypeOK, Use, Scopes
  <2>2. /\ w \in Walks /\ w.at = "state" /\ w.page = 0 /\ w.epoch = requested.epoch
        /\ w.id = used.walks + 1
    BY <2>1, WalkEdits DEF Walks
  <2>3. Asks("readState", w) /\ "readState" \in Kinds \ {"none"}
    BY <1>1 DEF StartWalk, Kinds
  <2> HIDE DEF w
  <2>4. /\ ui.at = "in" /\ walk.at = "off" /\ UNCHANGED <<ui, scope, db, worker>>
        /\ used'.walks = used.walks + 1
    BY <1>1 DEF StartWalk, connection, TypeOK, Use
  <2>5. KindAt("state") = "readState" /\ Placed(w)
    BY <2>2, Limits DEF KindAt, Placed
  <2>6. Talk'
    BY <2>2, <2>3, <2>4, <2>5, AsksCall DEF Talk, scope
  <2>7. CallInv'
    BY <2>2, <2>3, <2>4, AsksCall, SignedIn DEF Talk
  <2>8. QED
    BY <2>6, <2>7
<1>2. CASE WalkStep /\ WalkEnds
  <2>1. PICK w : Follows(w) /\ w.page \in 0 .. PageCount /\ Stops(w)
    BY <1>2 DEF WalkEnds
  <2>2. walk'.at = "off" /\ walk'.page = w.page /\ UNCHANGED <<queue, call>>
    BY <2>1, WalkAt DEF Stops, Follows, WalkStages
  <2>3. Talk'
    BY <1>2, <2>1, <2>2, StepReplied DEF Talk, Placed
  <2>4. CallInv'
    BY <1>2, <2>2, StepReplied
       DEF CallInv, Queued, Served, Asking, OfAccount, Command, scope, connection
  <2>5. QED
    BY <2>3, <2>4
<1>3. CASE WalkStep /\ WalkAsks
  <2>1. PICK w : Follows(w) /\ w.at # "off" /\ Placed(w) /\ Asks(KindAt(w.at), w)
    BY <1>3 DEF WalkAsks
  <2>2. w \in Walks /\ w.at \in WalkStages \ {"off"} /\ w.epoch = walk.epoch /\ w.id = walk.id
    BY <2>1 DEF Follows, Walks
  <2>3. KindAt(w.at) \in Kinds \ {"none"}
    BY <2>2, KindAtKinds
  <2>4. /\ call[Walker].at = "answered" /\ walk.at # "off"
        /\ UNCHANGED <<ui, scope, db, worker, used>>
    BY <1>3, StepReplied DEF connection
  <2>5. ui.at \in {"in", "leaving"} /\ walk.epoch = requested.epoch /\ walk.id = used.walks
    BY <2>4 DEF Talk
  <2>6. Talk'
    BY <2>1, <2>2, <2>3, <2>4, <2>5, AsksCall DEF Talk, scope
  <2>7. CallInv'
    BY <2>1, <2>2, <2>3, <2>4, <2>5, AsksCall, SignedIn
  <2>8. QED
    BY <2>6, <2>7
<1>4. QED
  BY <1>1, <1>2, <1>3, WalkMoves DEF Talk
----------------------------------------------------------------------------
(* The walk: its sync, its pages and their commit. *)

Well == call[Walker].at = "answered" /\ Answer = "ok"
SyncOpen ==
    \/ walk.at = "begin" /\ Well
    \/ walk.at = "page"
    \/ walk.at = "finalize" /\ call[Walker].at # "answered"

(* While a sync is open the tables of the connection hold the pages of this walk that *)
(* were answered, and nothing else under this sync.                                   *)
Open == SyncOpen =>
    /\ ready /\ active = walk.sync
    /\ \A row \in staged : row[1] = walk.sync => row[2] = walk.id /\ row[3] <= walk.page
    /\ \A p \in Pages : \/ p < walk.page
                        \/ p = walk.page /\ (Well \/ walk.at = "finalize")
          => <<walk.sync, walk.id, p>> \in staged

(* The library of a walk that was told of its commit stays the one it committed. *)
Told == (walk.at = "finalize" /\ Well) \/ walk.at = "checkpoint"
Kept == Told =>
    ready /\ requested.account \in Accounts /\ file[requested.account].library = {walk.id} \X Pages

(* Walks are numbered: no row and no date is of a walk to come. *)
Numbered ==
    \A a \in Accounts : /\ file[a].dated <= used.walks
                        /\ \A row \in file[a].library : row[1] <= used.walks

Data == Numbered /\ LibraryWhole /\ CheckpointBehind

(* A step that has nothing to do with the sync of the walk. *)
LEMMA WalkFrame ==
  ASSUME Open, Kept, UNCHANGED <<ready, active, staged, requested>>,
         walk'.at = walk.at, walk'.id = walk.id, walk'.sync = walk.sync, walk'.page = walk.page,
         Well' => Well, call[Walker].at = "answered" => call'[Walker].at = "answered",
         \A a \in Accounts : file'[a].library = file[a].library
  PROVE  Open' /\ Kept'
<1>1. SyncOpen' => SyncOpen
  BY DEF SyncOpen
<1>2. Open'
  BY <1>1 DEF Open
<1>3. Kept'
  BY DEF Kept, Told
<1>4. QED
  BY <1>2, <1>3

LEMMA UiOpen == ASSUME TypeOK, Talk, Open, Kept, UiStep PROVE Open' /\ Kept'
<1>1. CASE walk'.at = "off"
  BY <1>1 DEF Open, SyncOpen, Kept, Told
<1>2. CASE StopCoordinator
  <2>1. walk' = [walk EXCEPT !.cancelled = TRUE] /\ UNCHANGED <<scope, connection, call, file>>
    BY <1>2 DEF StopCoordinator
  <2>2. /\ walk'.at = walk.at /\ walk'.id = walk.id /\ walk'.sync = walk.sync
        /\ walk'.page = walk.page
    BY <2>1 DEF TypeOK, Walks
  <2>3. QED
    BY <2>1, <2>2, WalkFrame DEF scope, connection, Well, Answer
<1>3. CASE (\E a \in Accounts : ConfigureScope(a)) \/ DeconfigureScope \/ Launch
  BY <1>1, <1>3 DEF ConfigureScope, DeconfigureScope, Joined, Launch, NoWalk
<1>4. CASE Destroy
  BY <1>1, <1>4 DEF Destroy, Talk
<1>5. QED
  BY <1>2, <1>3, <1>4 DEF UiStep

LEMMA ReaderOpen == ASSUME TypeOK, Open, Kept, ReaderStep PROVE Open' /\ Kept'
  BY ReaderApart, WalkFrame DEF scope, connection, Well, Answer

(* While the worker opens a file no sync is open. *)
LEMMA ScopeOpen == ASSUME ScopeInv, Open, Kept, ScopeStep PROVE Open' /\ Kept'
<1>1. UNCHANGED <<walk, call, requested>>
  BY DEF ScopeStep, TakeScope, ProcessScope, InspectPath, PromoteCatalog, EnsureSchema, Backfill,
         PublishScope, scope
<1>2. CASE ready
  <2>1. TakeScope \/ (ProcessScope /\ worker.epoch # requested.epoch)
    BY <1>2 DEF ScopeStep, ProcessScope, InspectPath, PromoteCatalog, EnsureSchema, Backfill,
                PublishScope, ScopeInv, InScope, ScopeStages
  <2>2. UNCHANGED <<connection, file>>
    BY <2>1 DEF TakeScope, ProcessScope
  <2>3. QED
    BY <1>1, <2>2, WalkFrame DEF connection, Well, Answer
<1>3. CASE ~ready
  BY <1>1, <1>3 DEF Open, SyncOpen, Kept, Told, Well, Answer
<1>4. QED
  BY <1>2, <1>3

LEMMA ExitOpen == ASSUME Talk, WorkerExit PROVE Open' /\ Kept'
<1>1. walk.at = "off" /\ walk' = walk
  BY DEF WorkerExit, Stopping, Talk
<1>2. QED
  BY <1>1 DEF Open, SyncOpen, Kept, Told

(* The worker is at a command of the walk. *)
LEMMA WalkerServed ==
  ASSUME TypeOK, CallInv, Talk, worker.at \in CommandStages,
         Command.kind \notin {"query", "mediaPage"}
  PROVE  /\ worker.caller = Walker /\ call[Walker].at = "running" /\ walk.at # "off"
         /\ Command.kind = KindAt(walk.at) /\ Command.page = walk.page
         /\ Command.sync = IF walk.at = "changes" THEN 0 ELSE walk.sync
         /\ Command.epoch = requested.epoch
         /\ ui.at \in {"in", "leaving"} /\ walk.id = used.walks
<1>1. worker.caller \in Callers /\ Command.at = "running" /\ Asking(worker.caller)
  BY DEF TypeOK, WorkerStates, CallInv, Served
<1>2. worker.caller = Walker
  BY <1>1 DEF Asking, Command, Callers
<1>3. QED
  BY <1>1, <1>2 DEF Talk, Command

(* The page the worker is about to commit is one of the walk, or a catch-up's. *)
LEMMA PageServed ==
  ASSUME TypeOK, CallInv, Talk, worker.at \in {"pageUpsert", "attempt", "commit"}
  PROVE  /\ worker.caller = Walker /\ call[Walker].at = "running"
         /\ \/ walk.at = "changes" /\ Command.sync = 0
            \/ /\ walk.at = "page" /\ Command.sync = walk.sync /\ walk.sync # 0
               /\ Command.page = walk.page /\ walk.page \in Pages
<1>1. worker.at \in CommandStages
  BY DEF CommandStages
<1>2. Command.kind = "pageUpsert"
  BY <1>1 DEF CallInv, Served, Serves
<1>3. walk.at \in {"changes", "page"}
  BY <1>1, <1>2, WalkerServed DEF KindAt, TypeOK, Walks, WalkStages
<1>4. /\ worker.caller = Walker /\ call[Walker].at = "running" /\ Command.page = walk.page
      /\ Command.sync = IF walk.at = "changes" THEN 0 ELSE walk.sync
  BY <1>1, <1>2, WalkerServed
<1>5. walk.at = "page" => walk.page \in Pages /\ walk.sync > 0
  BY Limits DEF Talk, Placed, Pages
<1>6. QED
  BY <1>3, <1>4, <1>5

LEMMA PagesKnown == ASSUME TypeOK, CallInv, Talk PROVE PageKnown
  BY PageServed DEF PageKnown

LEMMA SourcesKnown == ASSUME CallInv PROVE SourceKnown
  BY DEF SourceKnown, Answer, CallInv, Asking, OfAccount, Callers

(* The place of the walk, when the worker is at another command of it. *)
LEMMA PlaceServed ==
  ASSUME TypeOK, CallInv, Talk, worker.at \in {"syncState", "update", "topLevelSync"}
  PROVE  /\ worker.caller = Walker /\ call[Walker].at = "running"
         /\ worker.at = "topLevelSync" => /\ walk.at \in {"begin", "finalize", "abort"}
                                          /\ Command.kind = walk.at /\ Command.sync = walk.sync
         /\ worker.at # "topLevelSync" => walk.at \in {"state", "date", "dated", "checkpoint"}
<1>1. worker.at \in CommandStages
  BY DEF CommandStages
<1>2. /\ worker.at = "topLevelSync" => Command.kind \in {"begin", "finalize", "abort"}
      /\ worker.at # "topLevelSync" => Command.kind \in {"readState", "writeState"}
  BY <1>1 DEF CallInv, Served, Serves
<1>3. QED
  BY <1>1, <1>2, WalkerServed DEF KindAt, TypeOK, Walks, WalkStages

(* The rows of the sync that is committed are all the pages of the walk. *)
LEMMA Complete ==
  ASSUME TypeOK, Talk, Open, walk.at = "finalize", call[Walker].at = "running"
  PROVE  /\ ready /\ active = walk.sync
         /\ {<<row[2], row[3]>> : row \in {s \in staged : s[1] = walk.sync}} = {walk.id} \X Pages
<1>1. SyncOpen /\ walk.page = PageCount /\ walk.id \in Nat /\ walk.sync \in Nat /\ PageCount \in Nat
  BY Limits DEF SyncOpen, Talk, Placed, TypeOK, Walks
<1>2. /\ ready /\ active = walk.sync
      /\ \A row \in staged : row[1] = walk.sync => row[2] = walk.id
      /\ \A p \in Pages : <<walk.sync, walk.id, p>> \in staged
  BY <1>1 DEF Open, Pages
<1>3. staged \subseteq (Nat \X Nat \X Pages)
  BY DEF TypeOK
<1>4. ASSUME NEW row \in {<<r[2], r[3]>> : r \in {s \in staged : s[1] = walk.sync}}
      PROVE  row \in {walk.id} \X Pages
  BY <1>2, <1>3
<1>5. ASSUME NEW p \in Pages
      PROVE  <<walk.id, p>> \in {<<r[2], r[3]>> : r \in {s \in staged : s[1] = walk.sync}}
  <2>1. <<walk.sync, walk.id, p>> \in {s \in staged : s[1] = walk.sync}
    BY <1>2
  <2>2. <<walk.sync, walk.id, p>>[2] = walk.id /\ <<walk.sync, walk.id, p>>[3] = p
    OBVIOUS
  <2>3. QED
    BY <2>1, <2>2
<1>6. QED
  BY <1>2, <1>4, <1>5

LEMMA TopLevelOpen ==
  ASSUME TypeOK, ScopeInv, CallInv, Talk, Open, Kept, TopLevelSync
  PROVE  Open' /\ Kept'
<1>1. /\ worker.at = "topLevelSync" /\ worker.at \in CommandStages /\ UNCHANGED <<ready, db, walk>>
      /\ requested' = requested
  BY DEF TopLevelSync, CommandStages, scope
<1>2. /\ worker.caller = Walker /\ call[Walker].at = "running" /\ Command.kind = walk.at
      /\ walk.at \in {"begin", "finalize", "abort"} /\ Command.sync = walk.sync
      /\ walk.at # "off" => ui.at \in {"in", "leaving"}
  BY <1>1, PlaceServed DEF Talk
<1>3. \A answer : Answered(answer) => call'[Walker].at = "answered" /\ call'[Walker].answer = answer
  BY <1>1, <1>2, AnsweredHeard
<1>4. call'[Walker].at = "answered"
  BY <1>3 DEF TopLevelSync, Begin, Finalize, Abort
<1>5. CASE walk.at = "abort"
  BY <1>1, <1>5 DEF Open, SyncOpen, Kept, Told
<1>6. CASE walk.at = "begin"
  <2>1. \/ ~Well'
        \/ Valid /\ staged' = {} /\ active' = walk.sync
    BY <1>2, <1>3, <1>6 DEF TopLevelSync, Begin, Well, Answer
  <2>2. walk.page = 0
    BY <1>6 DEF Talk, Placed
  <2>3. Open'
    BY <1>1, <1>6, <2>1, <2>2, Limits DEF Open, SyncOpen, Valid, Pages
  <2>4. Kept'
    BY <1>1, <1>6 DEF Kept, Told
  <2>5. QED
    BY <2>3, <2>4
<1>7. CASE walk.at = "finalize"
  <2>1. Open'
    BY <1>1, <1>4, <1>7 DEF Open, SyncOpen
  <2>2. requested.account \in Accounts
    BY <1>2, <1>7, SignedIn
  <2>3. \/ ~Well'
        \/ /\ Valid /\ active = walk.sync
           /\ file' = [file EXCEPT ![db].keyed = TRUE, ![db].library =
                        {<<row[2], row[3]>> : row \in {s \in staged : s[1] = walk.sync}}]
    <3>1. ~Valid => Answered("rejected")
      BY <1>1 DEF TopLevelSync
    <3>2. Valid => Finalize
      BY <1>2, <1>7 DEF TopLevelSync
    <3>3. Finalize =>
            \/ Answered("rejected") \/ Answered("failed")
            \/ /\ active = Command.sync
               /\ file' = [file EXCEPT ![db].keyed = TRUE, ![db].library =
                            {<<row[2], row[3]>> : row \in {s \in staged : s[1] = Command.sync}}]
      BY Zenon DEF Finalize
    <3>4. Answered("rejected") \/ Answered("failed") => ~Well'
      BY <1>3 DEF Well, Answer
    <3>5. {<<row[2], row[3]>> : row \in {s \in staged : s[1] = Command.sync}}
            = {<<row[2], row[3]>> : row \in {s \in staged : s[1] = walk.sync}}
      BY <1>2
    <3>6. CASE Valid /\ Well'
      BY <1>2, <3>2, <3>3, <3>4, <3>5, <3>6, Zenon
    <3>7. QED
      BY <3>1, <3>4, <3>6
  <2>4. CASE Well'
    <3>1. /\ ready /\ db = requested.account /\ file \in [Accounts -> Catalogs]
          /\ file' = [file EXCEPT ![db].keyed = TRUE, ![db].library = {walk.id} \X Pages]
      BY <1>2, <1>7, <2>3, <2>4, Complete DEF Valid, ScopeInv, ReadyFile, TypeOK
    <3>2. file'[requested.account].library = {walk.id} \X Pages
      BY <2>2, <3>1 DEF Catalogs
    <3>3. QED
      BY <1>1, <2>1, <2>2, <3>1, <3>2 DEF Kept
  <2>5. CASE ~Well'
    BY <1>1, <1>7, <2>1, <2>5 DEF Kept, Told
  <2>6. QED
    BY <2>4, <2>5
<1>8. QED
  BY <1>2, <1>5, <1>6, <1>7

LEMMA CommitOpen ==
  ASSUME TypeOK, CallInv, Talk, Open, Kept, CommitPage
  PROVE  Open' /\ Kept'
<1>1. worker.at = "commit" /\ worker.at \in CommandStages /\ UNCHANGED <<ready, active, walk, file>>
      /\ requested' = requested
  BY DEF CommitPage, CommandStages, scope
<1>2. /\ worker.caller = Walker /\ call[Walker].at = "running"
      /\ \/ walk.at = "changes"
         \/ /\ walk.at = "page" /\ Command.sync = walk.sync /\ walk.sync # 0
            /\ Command.page = walk.page /\ walk.page \in Pages
  BY <1>1, PageServed
<1>3. /\ \A answer : Answered(answer) => call'[Walker].at = "answered"
                                         /\ call'[Walker].answer = answer
  BY <1>1, <1>2, AnsweredHeard
<1>4. CASE walk.at = "changes"
  BY <1>1, <1>4 DEF Open, SyncOpen, Kept, Told
<1>5. CASE walk.at = "page"
  <2>1. Kept'
    BY <1>1, <1>5 DEF Kept, Told
  <2>2. SyncOpen /\ ~Well
    BY <1>2, <1>5 DEF SyncOpen, Well
  <2>3. \/ staged' = staged \union {<<walk.sync, walk.id, walk.page>>}
        \/ ~Well' /\ staged' = staged
    BY <1>2, <1>3, <1>5 DEF CommitPage, PageResult, Staged, Retried, Well, Answer
  <2>4. /\ walk.page \in Nat /\ \A row \in staged' : row \in staged
                                  \/ row = <<walk.sync, walk.id, walk.page>>
    BY <2>3 DEF TypeOK, Walks
  <2>5. Open'
    BY <1>1, <1>5, <2>2, <2>3, <2>4 DEF Open
  <2>6. QED
    BY <2>1, <2>5
<1>6. QED
  BY <1>2, <1>4, <1>5

LEMMA CommandOpen ==
  ASSUME TypeOK, ScopeInv, CallInv, Talk, Open, Kept, CommandStep
  PROVE  Open' /\ Kept'
<1>1. CASE TakeCommand
  <2>1. Heard /\ UNCHANGED <<ready, active, staged, requested, walk, file>>
    BY <1>1, CommandHeard DEF TakeCommand, scope, connection
  <2>2. call[Walker].at = "answered" => call'[Walker] = call[Walker]
    BY <2>1 DEF Heard
  <2>3. Well' => Well
    <3>1. worker.at \notin CommandStages
      BY <1>1 DEF TakeCommand, CommandStages
    <3>2. call[Walker] \in Calls
      BY DEF TypeOK, Callers
    <3>3. call[Walker].at = "queued" => (call'[Walker] = [call[Walker] EXCEPT !.at = "running"]
                                         => call'[Walker].at = "running")
      BY <3>2 DEF Calls
    <3>4. PICK c : call' = [call EXCEPT ![c].at = "running"]
      BY <1>1 DEF TakeCommand, Takes
    <3>5. call'[Walker] = call[Walker] \/ call'[Walker] = [call[Walker] EXCEPT !.at = "running"]
      BY <3>4 DEF TypeOK, Callers
    <3>6. call'[Walker] = call[Walker] \/ call'[Walker].at = "running"
      BY <3>2, <3>5 DEF Calls
    <3>7. QED
      BY <3>6 DEF Well, Answer
  <2>4. QED
    BY <2>1, <2>2, <2>3, WalkFrame
<1>2. CASE StartQuery \/ StartMediaPage \/ EndRead \/ ReadState \/ StartPage \/ AttemptPage
           \/ StartStateWrite
  <2>1. worker.at \in CommandStages /\ Heard
        /\ UNCHANGED <<ready, active, staged, requested, walk, file>>
    BY <1>2, CommandHeard, ReadEnds
       DEF StartQuery, StartMediaPage, EndRead, ReadState, StartPage, AttemptPage, StartStateWrite,
           CommandStages, scope, connection, CommandStep
  <2>2. CASE call'[Walker] = call[Walker]
    BY <2>1, <2>2, WalkFrame DEF Well, Answer
  <2>3. CASE worker.caller = Walker /\ \E answer \in Answers \ {"ok"} : Answered(answer)
    <3>1. /\ call[Walker].at = "running" /\ call'[Walker].at = "answered" /\ ~Well'
      BY <2>1, <2>3, AnsweredHeard DEF Well, Answer
    <3>2. QED
      BY <2>1, <3>1, WalkFrame
  <2>4. CASE ReadState
    <3>1. walk.at \in {"state", "date", "dated", "checkpoint"} /\ call[Walker].at = "running"
      BY <2>4, PlaceServed DEF ReadState
    <3>2. walk.at # "checkpoint"
      <4>1. Command.kind = "readState" /\ worker.caller = Walker
        BY <2>4, PlaceServed DEF ReadState
      <4>2. QED
        BY <2>1, <4>1, WalkerServed DEF KindAt
    <3>3. QED
      BY <2>1, <3>1, <3>2 DEF Open, SyncOpen, Kept, Told
  <2>5. CASE worker.caller # Walker /\ \E answer : Answered(answer)
    BY <2>1, <2>2, <2>5, AnsweredHeard
  <2>6. CASE EndRead
    <3>1. worker.caller # Walker
      <4>1. Command.kind \in {"query", "mediaPage"}
        BY <2>1, <2>6 DEF EndRead, CallInv, Served, Serves
      <4>2. worker.caller = Walker =>
               call[Walker].at = "running" /\ call[Walker].kind = Command.kind
        BY <2>1 DEF CallInv, Served, Command
      <4>3. walk.at \in WalkStages
        BY DEF TypeOK, Walks
      <4>4. QED
        BY <4>1, <4>2, <4>3 DEF Talk, KindAt, WalkStages
    <3>2. QED
      BY <2>5, <2>6, <3>1 DEF EndRead
  <2>7. CASE \E at : Goes(at)
    BY <2>2, <2>7 DEF Goes
  <2>8. CASE StartQuery \/ StartMediaPage \/ StartPage \/ AttemptPage \/ StartStateWrite
    <3>1. (\E at : Goes(at)) \/ \E answer \in Answers \ {"ok"} : Answered(answer)
      BY <2>8 DEF StartQuery, StartMediaPage, StartPage, AttemptPage, StartStateWrite, Refused,
                  Answers
    <3>2. QED
      BY <2>3, <2>5, <2>7, <3>1
  <2>9. QED
    BY <1>2, <2>4, <2>6, <2>8
<1>3. CASE EndStateWrite
  <2>1. /\ worker.at = "update" /\ worker.at \in CommandStages
        /\ UNCHANGED <<ready, active, staged, requested, walk>>
    BY <1>3 DEF EndStateWrite, CommandStages, scope, connection
  <2>2. walk.at \in {"state", "date", "dated", "checkpoint"} /\ call[Walker].at = "running"
    BY <2>1, PlaceServed
  <2>3. \A a \in Accounts : file'[a].library = file[a].library
    <3>1. file \in [Accounts -> Catalogs]
      BY DEF TypeOK
    <3>2. \/ file' = file
          \/ \E m, n : file' = [file EXCEPT ![db].checkpoint = m, ![db].dated = n]
      BY <1>3, Zenon DEF EndStateWrite
    <3>3. ASSUME NEW m, NEW n, file' = [file EXCEPT ![db].checkpoint = m, ![db].dated = n],
                 NEW a \in Accounts
          PROVE  file'[a].library = file[a].library
      <4>1. file'[a] = file[a] \/ file'[a] = [file[a] EXCEPT !.checkpoint = m, !.dated = n]
        BY <3>1, <3>3
      <4>2. QED
        BY <3>1, <4>1 DEF Catalogs
    <3>4. QED
      BY <3>2, <3>3
  <2>4. QED
    BY <2>1, <2>2, <2>3 DEF Open, SyncOpen, Kept, Told
<1>4. CASE CommitPage
  BY <1>4, CommitOpen
<1>5. CASE TopLevelSync
  BY <1>5, TopLevelOpen
<1>6. QED
  BY <1>1, <1>2, <1>3, <1>4, <1>5 DEF CommandStep

LEMMA WalkOpen ==
  ASSUME TypeOK, SourceKnown, Talk, Open, Kept, StartWalk \/ WalkStep
  PROVE  Open' /\ Kept'
<1>1. CASE StartWalk
  <2>1. walk'.at = "state"
    BY <1>1 DEF StartWalk, Asks, TypeOK, Walks
  <2>2. QED
    BY <2>1 DEF Open, SyncOpen, Kept, Told
<1>2. CASE WalkEnds
  <2>1. walk'.at = "off"
    BY <1>2, WalkAt DEF WalkEnds, Stops, Follows, WalkStages
  <2>2. QED
    BY <2>1 DEF Open, SyncOpen, Kept, Told
<1>3. CASE WalkStep /\ WalkAsks
  <2>1. PICK w : Follows(w) /\ w.at # "off" /\ Placed(w) /\ Advances(w) /\ Asks(KindAt(w.at), w)
    BY <1>3 DEF WalkAsks
  <2>2. w \in Walks /\ w.at \in WalkStages \ {"off"} /\ w.id = walk.id
    BY <2>1 DEF Follows, Walks
  <2>3. /\ call[Walker].at = "answered" /\ UNCHANGED <<requested, ready, active, staged, file>>
    BY <1>3, StepReplied DEF scope, connection
  <2>4. walk' = w /\ ~Well'
    BY <2>1, <2>2, KindAtKinds, AsksCall DEF Well, Answer
  <2>5. CASE w.at = "page" \/ w.at = "finalize"
    <3>1. SyncOpen /\ Well /\ w.sync = walk.sync
      BY <2>1, <2>3, <2>5 DEF Advances, SyncOpen, Well
    <3>2. /\ ready /\ active = walk.sync
          /\ \A row \in staged : row[1] = walk.sync => row[2] = walk.id /\ row[3] <= walk.page
          /\ \A p \in Pages : p <= walk.page => <<walk.sync, walk.id, p>> \in staged
      BY <3>1 DEF Open, Pages, TypeOK, Walks
    <3>3. /\ w.page \in {walk.page, walk.page + 1} /\ walk.page \in Nat
          /\ w.at = "finalize" => w.page = walk.page
          /\ w.at = "page" => w.page = walk.page + 1
      BY <2>1, <2>5 DEF Advances, TypeOK, Walks
    <3>4. \A row \in staged : row[3] \in Nat
      BY DEF TypeOK, Pages
    <3>5. Open'
      BY <2>2, <2>3, <2>4, <2>5, <3>1, <3>2, <3>3, <3>4 DEF Open, Pages
    <3>6. Kept'
      BY <2>4, <2>5 DEF Kept, Told
    <3>7. QED
      BY <3>5, <3>6
  <2>6. CASE w.at = "checkpoint"
    <3>1. Told
      BY <2>1, <2>3, <2>6 DEF Advances, Told, Well
    <3>2. QED
      BY <2>2, <2>3, <2>4, <2>6, <3>1 DEF Kept, Open, SyncOpen
  <2>7. CASE w.at \notin {"page", "finalize", "checkpoint"}
    BY <2>4, <2>7 DEF Kept, Open, SyncOpen, Told
  <2>8. QED
    BY <2>5, <2>6, <2>7
<1>4. QED
  BY <1>1, <1>2, <1>3, WalkMoves DEF Talk
----------------------------------------------------------------------------
(* What the catalogs hold. *)

LEMMA DataFrame ==
  ASSUME TypeOK, Data, used'.walks \in Nat, used'.walks >= used.walks,
         \A a \in Accounts : \/ file'[a].library = file[a].library /\ file'[a].dated = file[a].dated
                             \/ file'[a].library = {} /\ file'[a].dated = 0
  PROVE  Data'
<1>1. /\ used.walks \in Nat
      /\ \A a \in Accounts : /\ file[a].dated \in Nat
                             /\ \A row \in file[a].library : row[1] \in Nat
  BY DEF TypeOK, Use, Catalogs
<1>2. Numbered'
  BY <1>1 DEF Data, Numbered
<1>3. LibraryWhole'
  <2>1. \A id \in 0 .. used.walks : id \in 0 .. used'.walks
    BY <1>1
  <2>2. QED
    BY <2>1 DEF Data, LibraryWhole
<1>4. CheckpointBehind'
  BY DEF Data, CheckpointBehind
<1>5. QED
  BY <1>2, <1>3, <1>4 DEF Data

LEMMA ScopeData == ASSUME TypeOK, Data, ScopeStep, used'.walks = used.walks PROVE Data'
<1>1. file \in [Accounts -> Catalogs] /\ used.walks \in Nat
  BY DEF TypeOK, Use
<1>2. \/ file' = file
      \/ \E b : file' = [file EXCEPT ![worker.account].migrating = b]
      \/ \E b : file' = [file EXCEPT ![worker.account].version = b]
      \/ \E b : file' = [file EXCEPT ![worker.account].keyed = b]
      \/ file' = [file EXCEPT ![worker.account] = [NoFile EXCEPT !.version = 3]]
  BY Zenon DEF ScopeStep, TakeScope, ProcessScope, InspectPath, PromoteCatalog, EnsureSchema,
               Backfill, PublishScope
<1>3. [NoFile EXCEPT !.version = 3].library = {} /\ [NoFile EXCEPT !.version = 3].dated = 0
  BY DEF NoFile
<1>4. ASSUME NEW a \in Accounts
      PROVE  \/ file'[a].library = file[a].library /\ file'[a].dated = file[a].dated
             \/ file'[a].library = {} /\ file'[a].dated = 0
  <2>1. \/ file'[a] = file[a]
        \/ \E b : file'[a] = [file[a] EXCEPT !.migrating = b]
        \/ \E b : file'[a] = [file[a] EXCEPT !.version = b]
        \/ \E b : file'[a] = [file[a] EXCEPT !.keyed = b]
        \/ file'[a] = [NoFile EXCEPT !.version = 3]
    <3>1. ASSUME NEW b, file' = [file EXCEPT ![worker.account].migrating = b]
          PROVE  file'[a] = file[a] \/ file'[a] = [file[a] EXCEPT !.migrating = b]
      BY <1>1, <3>1
    <3>2. ASSUME NEW b, file' = [file EXCEPT ![worker.account].version = b]
          PROVE  file'[a] = file[a] \/ file'[a] = [file[a] EXCEPT !.version = b]
      BY <1>1, <3>2
    <3>3. ASSUME NEW b, file' = [file EXCEPT ![worker.account].keyed = b]
          PROVE  file'[a] = file[a] \/ file'[a] = [file[a] EXCEPT !.keyed = b]
      BY <1>1, <3>3
    <3>4. ASSUME NEW c, file' = [file EXCEPT ![worker.account] = c]
          PROVE  file'[a] = file[a] \/ file'[a] = c
      BY <1>1, <3>4
    <3>5. QED
      BY <1>2, <3>1, <3>2, <3>3, <3>4, Zenon
  <2>2. file[a] \in Catalogs
    BY <1>1
  <2>3. QED
    BY <1>3, <2>1, <2>2 DEF Catalogs
<1>5. QED
  BY <1>1, <1>4, DataFrame

(* The date follows the commit of its walk. *)
LEMMA DatedData ==
  ASSUME TypeOK, ScopeInv, CallInv, Talk, Kept, Data, EndStateWrite, used'.walks = used.walks
  PROVE  Data'
<1>1. file \in [Accounts -> Catalogs] /\ used.walks \in Nat /\ walk.id \in Nat
  BY DEF TypeOK, Use, Walks
<1>2. /\ worker.caller = Walker /\ call[Walker].at = "running"
      /\ walk.at \in {"state", "date", "dated", "checkpoint"}
  BY PlaceServed DEF EndStateWrite
<1>3. walk.id = used.walks
  BY <1>2 DEF Talk
<1>4. CASE file' = file
  BY <1>1, <1>4, DataFrame
<1>5. CASE Valid /\ file' = [file EXCEPT ![db].checkpoint = walk.generation,
                             ![db].dated = IF walk.at = "checkpoint" THEN walk.id ELSE @]
  <2>1. db = requested.account /\ db \in Accounts
    BY <1>5 DEF Valid, ScopeInv, ReadyFile
  <2>2. \A a \in Accounts \ {db} : file'[a] = file[a]
    BY <1>1, <1>5
  <2>3. /\ file'[db].library = file[db].library
        /\ file'[db].dated = IF walk.at = "checkpoint" THEN walk.id ELSE file[db].dated
    BY <1>1, <1>5, <2>1 DEF Catalogs
  <2>4. CASE walk.at # "checkpoint"
    BY <1>1, <2>2, <2>3, <2>4, DataFrame
  <2>5. CASE walk.at = "checkpoint"
    <3>1. file[db].library = {walk.id} \X Pages /\ 1 \in Pages
      BY <2>1, <2>5, Limits DEF Kept, Told, Pages
    <3>2. <<walk.id, 1>> \in file'[db].library /\ <<walk.id, 1>>[1] >= file'[db].dated
      BY <1>1, <2>3, <2>5, <3>1
    <3>3. Numbered'
      BY <1>1, <1>3, <2>2, <2>3, <2>5 DEF Data, Numbered
    <3>4. LibraryWhole'
      BY <2>2, <2>3 DEF Data, LibraryWhole
    <3>5. CheckpointBehind'
      BY <2>2, <3>2 DEF Data, CheckpointBehind
    <3>6. QED
      BY <3>3, <3>4, <3>5 DEF Data
  <2>6. QED
    BY <2>4, <2>5
<1>6. QED
  BY <1>4, <1>5, Zenon DEF EndStateWrite

(* A library is replaced by the pages of the walk in hand. *)
LEMMA CommittedData ==
  ASSUME TypeOK, ScopeInv, CallInv, Talk, Open, Data, TopLevelSync, used'.walks = used.walks
  PROVE  Data'
<1>1. file \in [Accounts -> Catalogs] /\ used.walks \in Nat /\ walk.id \in Nat
  BY DEF TypeOK, Use, Walks
<1>2. /\ worker.caller = Walker /\ call[Walker].at = "running" /\ Command.kind = walk.at
      /\ Command.sync = walk.sync /\ walk.at # "off"
  BY PlaceServed DEF TopLevelSync
<1>3. walk.id = used.walks
  BY <1>2 DEF Talk
<1>4. CASE file' = file
  BY <1>1, <1>4, DataFrame
<1>5. CASE /\ Valid /\ walk.at = "finalize"
           /\ file' = [file EXCEPT ![db].keyed = TRUE, ![db].library =
                          {<<row[2], row[3]>> : row \in {s \in staged : s[1] = Command.sync}}]
  <2>1. db \in Accounts
    BY <1>5 DEF Valid, ScopeInv, ReadyFile
  <2>2. {<<row[2], row[3]>> : row \in {s \in staged : s[1] = Command.sync}} = {walk.id} \X Pages
    BY <1>2, <1>5, Complete
  <2>3. file' = [file EXCEPT ![db].keyed = TRUE, ![db].library = {walk.id} \X Pages]
    BY <1>5, <2>2, Zenon
  <2>4. \A a \in Accounts \ {db} : file'[a] = file[a]
    BY <1>1, <2>3
  <2>5. file'[db].library = {walk.id} \X Pages /\ file'[db].dated = file[db].dated
    BY <1>1, <2>1, <2>3 DEF Catalogs
  <2>6. file[db].dated \in Nat /\ file[db].dated <= used.walks
    BY <1>1, <2>1 DEF Catalogs, Data, Numbered
  <2>7. Numbered'
    BY <1>1, <1>3, <2>4, <2>5, <2>6 DEF Data, Numbered
  <2>8. LibraryWhole'
    BY <1>1, <1>3, <2>4, <2>5 DEF Data, LibraryWhole
  <2>9. CheckpointBehind'
    <3>1. 1 \in Pages
      BY Limits DEF Pages
    <3>2. <<walk.id, 1>> \in file'[db].library /\ <<walk.id, 1>>[1] >= file'[db].dated
      BY <1>1, <1>3, <2>5, <2>6, <3>1
    <3>3. QED
      BY <2>4, <3>2 DEF Data, CheckpointBehind
  <2>10. QED
    BY <2>7, <2>8, <2>9 DEF Data
<1>6. QED
  BY <1>2, <1>4, <1>5, Zenon DEF TopLevelSync, Finalize

LEMMA WorkerData ==
  ASSUME TypeOK, ScopeInv, CallInv, Talk, Open, Kept, Data, WorkerStep, used'.walks = used.walks
  PROVE  Data'
<1>1. CASE ScopeStep
  BY <1>1, ScopeData
<1>2. CASE EndStateWrite
  BY <1>2, DatedData
<1>3. CASE TopLevelSync
  BY <1>3, CommittedData
<1>4. CASE file' = file
  BY <1>4, DataFrame DEF TypeOK, Use
<1>5. QED
  BY <1>1, <1>2, <1>3, <1>4
     DEF WorkerStep, CommandStep, WorkerExit, TakeCommand, StartQuery, StartMediaPage, EndRead,
         ReadState, StartStateWrite, StartPage, AttemptPage, CommitPage

LEMMA OtherData ==
  ASSUME TypeOK, Data, UiStep \/ ReaderStep \/ StartWalk \/ WalkStep
  PROVE  Data'
<1>1. file' = file
  BY DEF UiStep, ConfigureScope, DeconfigureScope, StopCoordinator, Destroy, Launch, ReaderStep,
         Cancel, Read, StartWalk, WalkStep, WalkState, WalkCatchUp, WalkDated, WalkBegin, WalkPage,
         WalkFinalize, WalkEnd
<1>2. \/ used' = used
      \/ used' = [used EXCEPT !.epochs = @ + 1] \/ used' = [used EXCEPT !.launches = @ + 1]
      \/ used' = [used EXCEPT !.reads = @ + 1] \/ used' = [used EXCEPT !.walks = @ + 1]
  BY DEF UiStep, ConfigureScope, DeconfigureScope, StopCoordinator, Destroy, Launch, ReaderStep,
         Cancel, Read, StartWalk, WalkStep, WalkState, WalkCatchUp, WalkDated, WalkBegin, WalkPage,
         WalkFinalize, WalkEnd
<1>3. used'.walks \in Nat /\ used'.walks >= used.walks
  BY <1>2 DEF TypeOK, Use
<1>4. QED
  BY <1>1, <1>3, DataFrame

----------------------------------------------------------------------------
(* The inductive invariant. *)

IInv == TypeOK /\ ScopeInv /\ CallInv /\ Talk /\ Open /\ Kept /\ Data

LEMMA Initially == Init => IInv
<1> SUFFICES ASSUME Init PROVE IInv
  OBVIOUS
<1>1. TypeOK
  <2>1. ui \in [at : {"out", "in", "leaving", "quit"}] /\ requested \in Scopes
    BY DEF Init, Scopes, Owners
  <2>2. /\ owners \in Seq(Owners) /\ Len(owners) = requested.epoch
        /\ scopeCommands \in Seq(Scopes) /\ Len(scopeCommands) <= 1
    BY DEF Init
  <2>3. /\ ready \in BOOLEAN /\ db \in Owners /\ active \in Nat
        /\ staged \subseteq (Nat \X Nat \X Pages)
    BY DEF Init, Owners
  <2>4. /\ queue \in [QueueNames -> Seq(Callers)] /\ call \in [Callers -> Calls]
        /\ worker \in WorkerStates /\ walk \in Walks /\ file \in [Accounts -> Catalogs]
    BY Samples DEF Init
  <2>5. used \in Use
    BY DEF Init, Use
  <2>6. QED
    BY <2>1, <2>2, <2>3, <2>4, <2>5 DEF TypeOK
<1>2. ScopeInv
  BY DEF Init, ScopeInv, LastOwner, Waiting, InScope, ReadyFile, IdleWorker, ScopeStages
<1>3. CallInv
  <2>1. Queued /\ Served
    BY DEF Init, Queued, Served, IdleWorker, CommandStages
  <2>2. \A c \in Callers : call[c].at = "none" /\ call[c].answer = "none"
    BY DEF Init, NoCall
  <2>3. QED
    BY <2>1, <2>2 DEF CallInv, Asking
<1>4. Talk /\ Open /\ Kept
  <2>1. walk.at = "off" /\ walk.page = 0 /\ call[Walker].at = "none"
    BY DEF Init, NoWalk, NoCall, Callers
  <2>2. QED
    BY <2>1, Limits DEF Talk, Placed, Open, SyncOpen, Kept, Told
<1>5. Data
  <2>1. \A a \in Accounts : file[a] = NoFile \/ file[a] = OldFile
    BY DEF Init
  <2>2. NoFile.library = {} /\ NoFile.dated = 0
    BY DEF NoFile
  <2>3. OldFile.library = {0} \X Pages /\ OldFile.dated = 0
    BY DEF OldFile, NoFile
  <2>4. used.walks = 0
    BY DEF Init
  <2>5. \A a \in Accounts : /\ file[a].dated = 0
                            /\ file[a].library = {} \/ file[a].library = {0} \X Pages
    BY <2>1, <2>2, <2>3
  <2>6. QED
    BY <2>4, <2>5 DEF Data, Numbered, LibraryWhole, CheckpointBehind
<1>6. QED
  BY <1>1, <1>2, <1>3, <1>4, <1>5 DEF IInv

LEMMA Inductive == IInv /\ [Next]_vars => IInv'
<1> SUFFICES ASSUME IInv, [Next]_vars PROVE IInv'
  OBVIOUS
<1>1. TypeOK /\ ScopeInv /\ CallInv /\ Talk /\ Open /\ Kept /\ Data
  BY DEF IInv
<1>2. PageKnown /\ SourceKnown
  BY <1>1, PagesKnown, SourcesKnown
<1>3. CASE UiStep
  <2>1. TypeOK' /\ ScopeInv'
    BY <1>1, <1>3, UiType, UiScope
  <2>2. CallInv' /\ Talk'
    BY <1>1, <1>3, UiCalls, UiTalk
  <2>3. Open' /\ Kept' /\ Data'
    BY <1>1, <1>3, UiOpen, OtherData
  <2>4. QED
    BY <2>1, <2>2, <2>3 DEF IInv
<1>4. CASE ReaderStep
  <2>1. TypeOK' /\ ScopeInv'
    BY <1>1, <1>4, ReaderType, OtherScope
  <2>2. CallInv'
    BY <1>1, <1>4, ReaderCalls
  <2>3. Talk'
    BY <1>1, <1>4, ReaderApart, WorkerTalk DEF Heard, scope
  <2>4. Open' /\ Kept' /\ Data'
    BY <1>1, <1>4, ReaderOpen, OtherData
  <2>5. QED
    BY <2>1, <2>2, <2>3, <2>4 DEF IInv
<1>5. CASE WorkerStep
  <2>1. TypeOK'
    <3>1. CASE ScopeStep
      BY <1>1, <3>1, ScopeType
    <3>2. CASE CommandStep
      BY <1>1, <1>2, <3>2, CommandType
    <3>3. CASE WorkerExit
      <4>1. [IdleWorker EXCEPT !.at = "exited"] \in WorkerStates
        BY Samples DEF WorkerStates
      <4>2. QED
        BY <1>1, <3>3, <4>1 DEF WorkerExit, TypeOK, Owners, scope
    <3>4. QED
      BY <1>5, <3>1, <3>2, <3>3 DEF WorkerStep
  <2>2. ScopeInv' /\ CallInv'
    BY <1>1, <1>5, StepsScope, CommandScope, CommandCalls DEF WorkerStep
  <2>3. Talk'
    BY <1>1, <1>5, WorkerKeeps, WorkerTalk
  <2>4. Open' /\ Kept'
    BY <1>1, <1>5, ScopeOpen, CommandOpen, ExitOpen DEF WorkerStep
  <2>5. Data'
    BY <1>1, <1>5, WorkerKeeps, WorkerData
  <2>6. QED
    BY <2>1, <2>2, <2>3, <2>4, <2>5 DEF IInv
<1>6. CASE StartWalk \/ WalkStep
  <2>1. TypeOK' /\ ScopeInv'
    BY <1>1, <1>2, <1>6, WalkType, OtherScope DEF Talk
  <2>2. CallInv' /\ Talk'
    BY <1>1, <1>2, <1>6, WalkTalk
  <2>3. Open' /\ Kept' /\ Data'
    BY <1>1, <1>2, <1>6, WalkOpen, OtherData
  <2>4. QED
    BY <2>1, <2>2, <2>3 DEF IInv
<1>7. CASE UNCHANGED vars
  <2>1. /\ UNCHANGED <<ui, scope, ready, db, active, staged>>
        /\ UNCHANGED <<queue, call, worker, walk, file, used>>
    BY <1>7 DEF vars, scope
  <2>2. TypeOK' /\ ScopeInv'
    BY <1>1, <2>1, ScopeSame DEF TypeOK, scope
  <2>3. CallInv'
    BY <1>1, <2>1 DEF CallInv, Queued, Served, Asking, OfAccount, Command, scope
  <2>4. Talk'
    BY <1>1, <2>1 DEF Talk, Placed, scope
  <2>5. Open' /\ Kept'
    BY <1>1, <2>1, WalkFrame DEF Well, Answer, scope
  <2>6. Data'
    BY <1>1, <2>1, DataFrame DEF TypeOK, Use
  <2>7. QED
    BY <2>2, <2>3, <2>4, <2>5, <2>6 DEF IInv
<1>8. QED
  BY <1>3, <1>4, <1>5, <1>6, <1>7 DEF Next

LEMMA Invariance == Spec => []IInv
  BY Initially, Inductive, PTL DEF Spec

(* Every variable keeps its type: the queues hold callers, the epochs of the process each *)
(* have their account, and at most one scope command waits.                              *)
THEOREM TypeCorrect == Spec => []TypeOK
<1>1. IInv => TypeOK
  BY DEF IInv
<1>2. QED
  BY <1>1, Invariance, PTL

(* The file that is open is that of the account asked for last, finished: openConnection() *)
(* and its second look at the epoch, whatever changes of account come while it works.      *)
THEOREM FileReady == Spec => []ReadyFile
<1>1. IInv => ReadyFile
  BY DEF IInv, ScopeInv
<1>2. QED
  BY <1>1, Invariance, PTL

(* An answer comes from the catalog of the account its command was made for, through any *)
(* number of changes of account: the checks of the process*() handlers are enough.       *)
THEOREM AnswerOwned == Spec => []OwnAccount
<1>1. IInv => OwnAccount
  BY DEF IInv, CallInv, Asking, OwnAccount
<1>2. QED
  BY <1>1, Invariance, PTL

(* A library holds all the pages of one walk or nothing, after any failures, retries,   *)
(* cancellations, changes of account and crashes: finalizeTopLevelSync() commits        *)
(* what processMediaPageUpsert() staged for this walk and sync, complete.               *)
THEOREM WholeLibrary == Spec => []LibraryWhole
<1>1. IInv => LibraryWhole
  BY DEF IInv, Data
<1>2. QED
  BY <1>1, Invariance, PTL

(* The checkpoint dates no walk whose library was not committed: what *)
(* reconcileAuthoritativeMembership() relies on when it writes it.    *)
THEOREM CheckpointFollows == Spec => []CheckpointBehind
<1>1. IInv => CheckpointBehind
  BY DEF IInv, Data
<1>2. QED
  BY <1>1, Invariance, PTL
----------------------------------------------------------------------------
(* Whom the worker turns away. *)

(* What a command step tells its caller. *)
LEMMA Rejecting ==
  ASSUME TypeOK, CallInv, Talk, Open, CommandStep, ~TakeCommand,
         call'[worker.caller].answer = "rejected", call[worker.caller].answer # "rejected"
  PROVE  ~Valid
<1>1. worker.at \in CommandStages
  BY DEF CommandStep, StartQuery, StartMediaPage, EndRead, ReadState, StartStateWrite,
         EndStateWrite, StartPage, AttemptPage, CommitPage, TopLevelSync, CommandStages
<1>2. ASSUME NEW answer, Answered(answer) PROVE answer = "rejected"
  <2>1. call \in [Callers -> Calls] /\ worker.caller \in Callers
    BY DEF TypeOK, WorkerStates
  <2>2. call'[worker.caller].answer = answer
    BY <1>2, <2>1 DEF Answered, NoCall
  <2>3. QED
    BY <2>2
<1>3. call' # call
  OBVIOUS
<1>4. CASE StartQuery
  BY <1>2, <1>3, <1>4 DEF StartQuery, Usable, Refused, Goes
<1>5. CASE StartMediaPage
  BY <1>2, <1>3, <1>5 DEF StartMediaPage, Goes
<1>6. CASE EndRead
  BY <1>2, <1>3, <1>6 DEF EndRead, Usable, Refused
<1>7. CASE ReadState
  BY <1>2, <1>3, <1>7 DEF ReadState, Usable, Refused
<1>8. CASE StartStateWrite
  BY <1>2, <1>3, <1>8 DEF StartStateWrite, Goes
<1>9. CASE EndStateWrite
  BY <1>2, <1>3, <1>9 DEF EndStateWrite
<1>10. CASE StartPage
  <2>1. CASE Usable
    <3>1. Command.sync \in {0, active}
      BY <1>10, PageServed DEF StartPage, Open, SyncOpen
    <3>2. QED
      BY <1>3, <1>10, <2>1, <3>1 DEF StartPage, Goes
  <2>2. CASE ~Usable
    BY <1>2, <1>10, <2>2 DEF StartPage, Usable, Refused
  <2>3. QED
    BY <2>1, <2>2
<1>11. CASE AttemptPage
  BY <1>2, <1>3, <1>11 DEF AttemptPage, Usable, Refused, Goes
<1>12. CASE CommitPage
  BY <1>2, <1>3, <1>12 DEF CommitPage, PageResult, Retried
<1>13. CASE TopLevelSync
  <2>1. /\ call[Walker].at = "running" /\ Command.kind = walk.at /\ Command.sync = walk.sync
    BY <1>13, PlaceServed DEF TopLevelSync
  <2>2. walk.at = "finalize" => active = Command.sync
    BY <2>1, Complete
  <2>3. QED
    BY <1>2, <1>13, <2>1, <2>2 DEF TopLevelSync, Begin, Finalize, Abort
<1>14. QED
  BY <1>4, <1>5, <1>6, <1>7, <1>8, <1>9, <1>10, <1>11, <1>12, <1>13 DEF CommandStep

LEMMA TurnedAway ==
  ASSUME IInv, Next, NEW c \in Callers, call[c].at = "running", call'[c].answer = "rejected",
         call[c].epoch = requested.epoch
  PROVE  ~ready /\ scopeCommands = <<>>
<1>1. TypeOK /\ CallInv /\ Talk /\ Open /\ call \in [Callers -> Calls]
  BY DEF IInv, TypeOK
<1>2. call[c].answer = "none" /\ call'[c] # call[c]
  BY <1>1 DEF CallInv, Asking
<1>3. /\ NoCall.answer = "none"
      /\ [NoCall EXCEPT !.at = "answered", !.answer = "stopped"].answer = "stopped"
  BY DEF NoCall
<1>4. ~UiStep
  <2>1. UiStep => \/ call' = call
                  \/ call'[c] \in {call[c], NoCall,
                                   [NoCall EXCEPT !.at = "answered", !.answer = "stopped"]}
    BY DEF UiStep, ConfigureScope, DeconfigureScope, StopCoordinator, Destroy, Launch
  <2>2. QED
    BY <1>2, <1>3, <2>1
(* A caller that is served asks for nothing else. *)
<1>5. ASSUME NEW k \in Callers, NEW v, k # c, call' = [call EXCEPT ![k] = v] PROVE FALSE
  BY <1>1, <1>2, <1>5
<1>6. ~ReaderStep
  <2>1. ASSUME NEW k \in Readers, Cancel(k) PROVE FALSE
    <3>1. call'[c] = call[c] \/ call'[c] = [call[c] EXCEPT !.cancelled = TRUE]
      BY <1>1, <2>1 DEF Cancel
    <3>2. QED
      BY <1>1, <1>2, <3>1 DEF Calls
  <2>2. ASSUME NEW k \in Readers, NEW kind, NEW epoch, Read(k, kind, epoch) PROVE FALSE
    <3>1. k # c /\ k \in Callers
      BY <2>2 DEF Read, Callers
    <3>2. \E v : call' = [call EXCEPT ![k] = v]
      BY <2>2, Zenon DEF Read, Enqueued
    <3>3. QED
      BY <1>5, <3>1, <3>2
  <2>3. QED
    BY <2>1, <2>2 DEF ReaderStep
<1>7. ~(StartWalk \/ WalkStep)
  <2>1. ASSUME StartWalk \/ WalkStep PROVE Walker # c
    BY <1>1, <2>1, StepReplied DEF StartWalk, Talk
  <2>2. ASSUME StartWalk \/ WalkStep
        PROVE  call' = call \/ \E v : call' = [call EXCEPT ![Walker] = v]
    BY <2>2, Zenon
       DEF StartWalk, WalkStep, WalkState, WalkCatchUp, WalkDated, WalkBegin, WalkPage,
           WalkFinalize, WalkEnd, Begins, CatchesUp, Gives, NextPage, Stops, Asks, Enqueued
  <2>3. QED
    BY <1>2, <1>5, <2>1, <2>2 DEF Callers
<1>8. CommandStep
  <2>1. ScopeStep \/ WorkerExit => call' = call
    BY DEF ScopeStep, TakeScope, ProcessScope, InspectPath, PromoteCatalog, EnsureSchema, Backfill,
           PublishScope, WorkerExit
  <2>2. QED
    BY <1>2, <1>4, <1>6, <1>7, <2>1 DEF Next, WorkerStep
<1>9. ~TakeCommand
  <2>1. TakeCommand => \E k : call' = [call EXCEPT ![k].at = "running"]
    BY DEF TakeCommand, Takes
  <2>2. TakeCommand => call'[c] = call[c] \/ call'[c] = [call[c] EXCEPT !.at = "running"]
    BY <1>1, <2>1
  <2>3. QED
    BY <1>1, <1>2, <2>2 DEF Calls
<1>10. worker.at \in CommandStages /\ c = worker.caller
  <2>1. worker.at \in CommandStages
    BY <1>8, <1>9
       DEF CommandStep, StartQuery, StartMediaPage, EndRead, ReadState, StartStateWrite,
           EndStateWrite, StartPage, AttemptPage, CommitPage, TopLevelSync, CommandStages
  <2>2. call' = call \/ \E answer : Answered(answer)
    <3>1. CASE StartQuery \/ StartMediaPage \/ EndRead \/ ReadState \/ StartPage \/ AttemptPage
               \/ StartStateWrite
      BY <3>1, ReadEnds DEF Goes
    <3>2. CASE EndStateWrite
      BY <3>2 DEF EndStateWrite
    <3>3. CASE CommitPage
      BY <3>3 DEF CommitPage, PageResult, Retried
    <3>4. CASE TopLevelSync
      BY <3>4 DEF TopLevelSync, Begin, Finalize, Abort
    <3>5. QED
      BY <1>8, <1>9, <3>1, <3>2, <3>3, <3>4 DEF CommandStep
  <2>3. \E v : call' = [call EXCEPT ![worker.caller] = v]
    BY <1>2, <2>2, Zenon DEF Answered
  <2>4. QED
    BY <1>1, <1>5, <2>1, <2>3 DEF TypeOK, WorkerStates
<1>11. ~Valid
  BY <1>1, <1>2, <1>8, <1>9, <1>10, Rejecting
<1>12. QED
  BY <1>1, <1>10, <1>11 DEF Valid, Command, CallInv, Served

(* A caller with a command for the account in use is refused only if the opening of that *)
(* account has been tried and has failed: workerLoop() takes the scope command first, and *)
(* a page or a commit of a walk always finds its own sync active.                         *)
THEOREM NobodyTurnedAway == Spec => NotTurnedAway
<1> DEFINE Heeded ==
      \A c \in Callers :
          call[c].at = "running" /\ call[c]'.answer = "rejected" /\ call[c].epoch = requested.epoch
          => ~ready /\ scopeCommands = <<>>
<1>1. IInv /\ [Next]_vars => [Heeded]_vars
  <2>1. ASSUME IInv, Next PROVE Heeded
    BY <2>1, TurnedAway
  <2> HIDE DEF Heeded
  <2>2. QED
    BY <2>1
<1>2. Spec => [][Heeded]_vars
  BY <1>1, Invariance, PTL DEF Spec
<1>3. QED
  BY <1>2 DEF NotTurnedAway
=============================================================================
