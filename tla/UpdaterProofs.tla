---------------------------- MODULE UpdaterProofs ----------------------------
(***************************************************************************)
(* Proofs about Updater, for any number of files, releases and attempts    *)
(* and any bounds.                                                         *)
(***************************************************************************)
EXTENDS Updater, WellFoundedInduction, TLAPS

(***************************************************************************)
(* The worker's memory after its steps.                                    *)
(***************************************************************************)
Moved(w, pc)        == [w EXCEPT !.pc = pc]
Offered(w, v)       == [w EXCEPT !.pc = "wait", !.v = v]
Retried(w)          == [w EXCEPT !.tries = @ + 1]
BackedUp(w, s)      == [w EXCEPT !.pc = "replace", !.saved = s]
Replaced(w, d)      == [w EXCEPT !.pc = "sync", !.done = d]
Restored(w, d)      == [w EXCEPT !.done = d]
NotRestored(w, d)   == [w EXCEPT !.done = d, !.failed = TRUE]

Same(w, x) == x.v = w.v /\ x.tries = w.tries /\ x.saved = w.saved

LEMMA MovedIs ==
  ASSUME NEW w \in Worker, NEW pc \in Pcs
  PROVE  LET x == Moved(w, pc) IN
         x \in Worker /\ x.pc = pc /\ x.done = w.done /\ x.failed = w.failed /\ Same(w, x)
  BY Zenon DEF Worker, Moved, Same

LEMMA OfferedIs ==
  ASSUME NEW w \in Worker, NEW v \in Versions
  PROVE  LET x == Offered(w, v) IN
         x \in Worker /\ x.pc = "wait" /\ x.v = v /\ x.done = w.done /\ x.saved = w.saved
  BY "wait" \in Pcs, Zenon DEF Worker, Offered, Pcs

LEMMA RetriedIs ==
  ASSUME NEW w \in Worker, w.tries + 1 \in 0 .. MaxAttempts
  PROVE  LET x == Retried(w) IN
         x \in Worker /\ x.pc = w.pc /\ x.v = w.v /\ x.done = w.done /\ x.saved = w.saved
  BY Zenon DEF Worker, Retried

LEMMA BackedUpIs ==
  ASSUME NEW w \in Worker, NEW s \in [Files -> Contents]
  PROVE  LET x == BackedUp(w, s) IN
         x \in Worker /\ x.pc = "replace" /\ x.v = w.v /\ x.done = w.done /\ x.saved = s
  BY "replace" \in Pcs, Zenon DEF Worker, BackedUp, Pcs

LEMMA ReplacedIs ==
  ASSUME NEW w \in Worker, NEW d \in SUBSET Files
  PROVE  LET x == Replaced(w, d) IN
         x \in Worker /\ x.pc = "sync" /\ x.done = d /\ Same(w, x)
  BY "sync" \in Pcs, Zenon DEF Worker, Replaced, Pcs, Same

LEMMA RestoredIs ==
  ASSUME NEW w \in Worker, NEW d \in SUBSET Files
  PROVE  /\ LET x == Restored(w, d) IN x \in Worker /\ x.pc = w.pc /\ x.done = d /\ Same(w, x)
         /\ LET x == NotRestored(w, d) IN x \in Worker /\ x.pc = w.pc /\ x.done = d /\ Same(w, x)
  BY TRUE \in BOOLEAN, Zenon DEF Worker, Restored, NotRestored, Same

LEMMA NoWorkerIs == NoWorker \in Worker /\ NoWorker.pc = "none" /\ NoWorker.done = {}
  BY ShipsAssumption, AttemptsAssumption, SMT DEF NoWorker, Worker, Pcs, Versions, Files, Contents

LEMMA BackUpIs ==
  ASSUME NEW v, app \in [Files -> Contents]
  PROVE  BackUp(v) \in [Files -> Contents]
  BY ShipsAssumption, SMT DEF BackUp, Contents

(***************************************************************************)
(* Types.  Snapshots and Flags are parts of TypeOK.                        *)
(***************************************************************************)
Snapshots == [stage : Stages, error : {"none", "kept", "incomplete"}]
Flags     == cancelled \in BOOLEAN /\ confirm \in BOOLEAN /\ closing \in BOOLEAN /\ asked \in BOOLEAN
Disk      == /\ app \in [Files -> Contents] /\ durable \in [Files -> SUBSET Contents]
             /\ broken \in BOOLEAN /\ syncs \in BOOLEAN
Net       == part \in [Versions -> Parts] /\ server \in Versions /\ version \in Contents

LEMMA TypeParts ==
  TypeOK <=> Disk /\ Net /\ worker \in Worker /\ snapshot \in Snapshots /\ shown \in Stages /\ Flags
  BY Zenon DEF TypeOK, Disk, Net, Snapshots, Flags

LEMMA StageIs ==
  /\ \A s \in Stages : Stage(s) \in Snapshots /\ Stage(s).stage = s
  /\ \A how \in {"none", "kept", "incomplete"} : [stage |-> "Error", error |-> how] \in Snapshots
  BY SMT DEF Stage, Snapshots, Stages

LEMMA FailedIs ==
  ASSUME worker \in Worker, NEW how \in {"none", "kept", "incomplete"}, Failed(how)
  PROVE  /\ snapshot' \in Snapshots /\ snapshot' = [stage |-> "Error", error |-> how]
         /\ worker' = Moved(worker, "exit")
         /\ worker' \in Worker
  BY StageIs, MovedIs, "exit" \in Pcs DEF Failed, To, Moved, Pcs

LEMMA SyncedIs ==
  ASSUME NEW f, NEW v, Synced(f, v)
  PROVE  \/ syncs /\ durable' = [durable EXCEPT ![f] = {v}]
         \/ ~syncs /\ durable' = [durable EXCEPT ![f] = durable[f] \cup {v}]
  BY Zenon DEF Synced

LEMMA Constants == 1 \in Versions /\ Versions \subseteq Contents /\ Binary \in Files
                   /\ \A v \in Versions : Ships[v] \subseteq Files
  BY ShipsAssumption, SMT DEF Versions, Contents, Binary, Files

LEMMA InitTyped == Init => TypeOK
<1> SUFFICES ASSUME Init PROVE TypeOK
  OBVIOUS
<1>1. Disk
  <2>1. app \in [Files -> Contents]
    BY Constants, ShipsAssumption, SMT DEF Init, FirstInstall, With, Contents
  <2>2. durable \in [Files -> SUBSET Contents]
    BY <2>1, Zenon DEF Init
  <2> QED
    BY <2>1, <2>2, Zenon DEF Init, Disk
<1>2. Net
  BY Constants, SMT DEF Init, Net, Parts
<1> QED
  BY <1>1, <1>2, NoWorkerIs, StageIs, TypeParts, Zenon DEF Init, Flags, Stages

(* The steps of the user, of the server and of the power. *)
LEMMA OutsideTyped ==
  ASSUME TypeOK, UserStep \/ Publish \/ Cut
  PROVE  TypeOK'
<1>1. Disk /\ Net /\ worker \in Worker /\ snapshot \in Snapshots /\ shown \in Stages /\ Flags
  BY TypeParts
<1> SUFFICES (Disk /\ Net /\ worker \in Worker /\ snapshot \in Snapshots /\ shown \in Stages /\ Flags)'
  BY TypeParts, PTL
<1>2. CASE Frame
  BY <1>1, <1>2, SMT DEF Frame, diskVars, Disk, Net, Flags, Snapshots
<1>3. CASE CheckForUpdates
  <2>1. worker' \in Worker
    BY <1>3, NoWorkerIs, MovedIs, "start" \in Pcs DEF CheckForUpdates, Moved, Pcs
  <2> QED
    BY <1>1, <1>3, <2>1, StageIs, Zenon DEF CheckForUpdates, Reset, diskVars, Disk, Net, Flags, Stages
<1>4. CASE ConfirmInstall
  BY <1>1, <1>4, Zenon DEF ConfirmInstall, diskVars, Disk, Net, Flags
<1>5. CASE Close
  BY <1>1, <1>5, Zenon DEF Close, diskVars, Disk, Net, Flags
<1>6. CASE Closed
  <2>1. version' \in Contents
    BY <1>1, <1>6, Constants DEF Closed, Disk, Net
  <2> QED
    BY <1>1, <1>6, <2>1, StageIs, Zenon DEF Closed, diskVars, Disk, Net, Flags, Stages
<1>7. CASE Publish
  <2>1. server' \in Versions
    BY <1>1, <1>7, ShipsAssumption, SMT DEF Publish, Net, Versions
  <2> QED
    BY <1>1, <1>7, <2>1, Zenon DEF Publish, diskVars, uiVars, Disk, Net, Flags
<1>8. CASE Cut
  <2>1. /\ app' \in [Files -> Contents] /\ durable' \in [Files -> SUBSET Contents]
        /\ broken' \in BOOLEAN
    <3>1. broken' = (broken \/ (~syncs /\ app' # app))
      BY <1>8, Zenon DEF Cut
    <3> QED
      BY <1>1, <1>8, <3>1, SMT DEF Cut, Disk
  <2>2. part' \in [Versions -> Parts] /\ version' \in Contents
    BY <1>1, <1>8, <2>1, Constants, SMT DEF Cut, Net, Parts, Worker
  <2> QED
    BY <1>1, <1>8, <2>1, <2>2, NoWorkerIs, StageIs, Zenon DEF Cut, Disk, Net, Flags, Stages
<1> QED
  BY <1>2, <1>3, <1>4, <1>5, <1>6, <1>7, <1>8 DEF UserStep

LEMMA WorkerTyped ==
  ASSUME TypeOK, WorkerStep
  PROVE  TypeOK'
<1>1. Disk /\ Net /\ worker \in Worker /\ snapshot \in Snapshots /\ shown \in Stages /\ Flags
  BY TypeParts
<1> SUFFICES (Disk /\ Net /\ worker \in Worker /\ snapshot \in Snapshots /\ shown \in Stages /\ Flags)'
  BY TypeParts, PTL
<1>2. /\ worker.v \in Versions /\ worker.done \in SUBSET Files
      /\ worker.saved \in [Files -> Contents] /\ worker.tries \in 0 .. MaxAttempts
  BY <1>1, Zenon DEF Worker
<1>3. ASSUME NEW pc \in Pcs PROVE To(pc) => worker' \in Worker
  BY <1>1, MovedIs DEF To, Moved
<1>4. ASSUME NEW how \in {"none", "kept", "incomplete"}
      PROVE  Failed(how) => worker' \in Worker /\ snapshot' \in Snapshots
  BY <1>1, FailedIs
<1>5. ASSUME NEW s \in Stages PROVE Stage(s) \in Snapshots
  BY StageIs
<1>6. CASE Start \/ AwaitConfirmation \/ RemoveArchive \/ Exit \/ Undone
  <2>1. worker' \in Worker /\ snapshot' \in Snapshots
    BY <1>1, <1>3, <1>4, <1>5, <1>6, NoWorkerIs, SMT
    DEF Start, AwaitConfirmation, RemoveArchive, Exit, Undone, Stages, Pcs
  <2>2. Flags'
    BY <1>1, <1>6, Zenon DEF Start, AwaitConfirmation, RemoveArchive, Exit, Undone, uiVars, Flags
  <2>3. part' \in [Versions -> Parts]
    BY <1>1, <1>2, <1>6, SMT DEF Start, AwaitConfirmation, RemoveArchive, Exit, Undone, diskVars, Net, Parts
  <2> QED
    BY <1>1, <1>6, <2>1, <2>2, <2>3, Zenon
    DEF Start, AwaitConfirmation, RemoveArchive, Exit, Undone, uiVars, diskVars, Disk, Net
<1>7. CASE Fetch
  <2>1. worker' \in Worker /\ snapshot' \in Snapshots
    <3>1. Offered(worker, server) \in Worker
      BY <1>1, OfferedIs DEF Net
    <3>2. \/ Failed("none")
          \/ snapshot' = Stage("UpToDate") /\ To("exit")
          \/ snapshot' = Stage("Available") /\ worker' = Offered(worker, server)
      BY <1>7, Zenon DEF Fetch, Offered
    <3> QED
      BY <1>3, <1>4, <1>5, <3>1, <3>2, SMT DEF Stages, Pcs
  <2> QED
    BY <1>1, <1>7, <2>1, Zenon DEF Fetch, uiVars, diskVars, Disk, Net, Flags
<1>8. CASE DownloadBegin \/ Verify
  <2>1. worker' \in Worker /\ snapshot' \in Snapshots
    BY <1>1, <1>3, <1>4, <1>5, <1>8, SMT DEF DownloadBegin, Verify, Verifying, Stages, Pcs
  <2>2. part' \in [Versions -> Parts]
    BY <1>1, <1>2, <1>8, SMT DEF DownloadBegin, Verify, diskVars, Net, Parts
  <2> QED
    BY <1>1, <1>8, <2>1, <2>2, Zenon DEF DownloadBegin, Verify, uiVars, diskVars, Disk, Net, Flags
<1>9. CASE Transfer
  <2>1. part' \in [Versions -> Parts]
    <3>1. ASSUME NEW q \in Parts PROVE [part EXCEPT ![worker.v] = q] \in [Versions -> Parts]
      BY <1>1, <1>2, Zenon DEF Net
    <3>2. Received(part[worker.v]) \subseteq Parts /\ Interrupted(part[worker.v]) \subseteq Parts
      BY <1>1, <1>2, SMT DEF Net, Received, Interrupted, Parts
    <3> QED
      BY <1>1, <1>9, <3>1, <3>2 DEF Transfer, Net
  <2>2. worker' \in Worker /\ snapshot' \in Snapshots
    <3>1. \/ Failed("none")
          \/ Verifying
          \/ TriesLeft /\ worker' = Retried(worker) /\ UNCHANGED snapshot
      BY <1>9 DEF Transfer, Retried
    <3>2. TriesLeft => worker.tries + 1 \in 0 .. MaxAttempts
      BY <1>2, AttemptsAssumption, SMT DEF TriesLeft
    <3> QED
      BY <1>1, <1>3, <1>4, <1>5, <3>1, <3>2, RetriedIs DEF Verifying, Stages, Pcs
  <2> QED
    BY <1>1, <1>9, <2>1, <2>2, Zenon DEF Transfer, uiVars, Disk, Net, Flags
<1>10. ASSUME NEW from \in Pcs, NEW to \in Pcs, StageArchive(from, to)
       PROVE (Disk /\ Net /\ worker \in Worker /\ snapshot \in Snapshots /\ shown \in Stages /\ Flags)'
  <2>1. worker' \in Worker /\ snapshot' \in Snapshots
    BY <1>1, <1>3, <1>4, <1>10 DEF StageArchive
  <2> QED
    BY <1>1, <1>10, <2>1, Zenon DEF StageArchive, uiVars, diskVars, Disk, Net, Flags
<1>11. CASE BackUpFiles
  <2>1. worker' \in Worker /\ snapshot' \in Snapshots
    <3>1. Failed("kept") \/ (worker' = BackedUp(worker, BackUp(worker.v)) /\ UNCHANGED snapshot)
      BY <1>11 DEF BackUpFiles, BackedUp
    <3> QED
      BY <1>1, <1>4, <3>1, BackedUpIs, BackUpIs DEF Disk
  <2> QED
    BY <1>1, <1>11, <2>1, Zenon DEF BackUpFiles, uiVars, diskVars, Disk, Net, Flags
<1>12. ASSUME NEW f \in Files, Replace(f) \/ SyncFolder(f) \/ Undo(f)
       PROVE (Disk /\ Net /\ worker \in Worker /\ snapshot \in Snapshots /\ shown \in Stages /\ Flags)'
  <2> DEFINE v == worker.v  old == worker.saved[f]
  <2>1. v \in Contents /\ old \in Contents
    BY <1>2, Constants
  <2>2. app' \in [Files -> Contents]
    BY <1>1, <1>12, <2>1, SMT DEF Disk, Replace, SyncFolder, Undo
  <2>3. durable' \in [Files -> SUBSET Contents]
    <3>1. /\ durable[f] \cup {v} \in SUBSET Contents /\ durable[f] \cup {old} \in SUBSET Contents
          /\ {v} \in SUBSET Contents /\ {old} \in SUBSET Contents
      BY <1>1, <2>1 DEF Disk
    <3>2. ASSUME NEW s \in SUBSET Contents
          PROVE  [durable EXCEPT ![f] = s] \in [Files -> SUBSET Contents]
      BY <1>1, Zenon DEF Disk
    <3> HIDE DEF v, old
    <3>3. \/ durable' = durable
          \/ durable' = [durable EXCEPT ![f] = durable[f] \cup {v}]
          \/ durable' = [durable EXCEPT ![f] = durable[f] \cup {old}]
          \/ durable' = [durable EXCEPT ![f] = {v}]
          \/ durable' = [durable EXCEPT ![f] = {old}]
      BY <1>12, SyncedIs, Zenon DEF Replace, SyncFolder, Undo, v, old
    <3> QED
      BY <1>1, <3>1, <3>2, <3>3 DEF Disk
  <2>4. worker' \in Worker
    <3>1. worker.done \cup {f} \in SUBSET Files /\ worker.done \ {f} \in SUBSET Files
      BY <1>2
    <3>2. \/ To("undo") \/ To("clean") \/ To("replace")
          \/ worker' = Replaced(worker, worker.done \cup {f})
          \/ worker' = Restored(worker, worker.done \ {f})
          \/ worker' = NotRestored(worker, worker.done \ {f})
      BY <1>12, Zenon DEF Replace, SyncFolder, Undo, Replaced, Restored, NotRestored
    <3> QED
      BY <1>1, <1>3, <3>1, <3>2, ReplacedIs, RestoredIs DEF Pcs
  <2>5. snapshot' \in Snapshots /\ broken' \in BOOLEAN
    BY <1>1, <1>5, <1>12, Zenon DEF Disk, Replace, SyncFolder, Undo, Stages
  <2> QED
    BY <1>1, <1>12, <2>2, <2>3, <2>4, <2>5, Zenon DEF Replace, SyncFolder, Undo, uiVars, Disk, Net, Flags
<1> QED
  BY <1>6, <1>7, <1>8, <1>9, <1>10, <1>11, <1>12 DEF WorkerStep, Pcs

LEMMA StutterTyped ==
  ASSUME TypeOK, UNCHANGED vars
  PROVE  TypeOK'
  BY TypeParts, Zenon DEF TypeOK, vars, diskVars, uiVars

LEMMA NextTyped == TypeOK /\ [Next]_vars => TypeOK'
  BY OutsideTyped, WorkerTyped, StutterTyped DEF Next

(* Whatever the number of files, releases and attempts and whatever fails or is cut off, no     *)
(* variable of the update leaves its set; a download is never begun more often than is allowed. *)
THEOREM TypeCorrect == Spec => []TypeOK
  BY InitTyped, NextTyped, PTL DEF Spec

(***************************************************************************)
(* A raised flag is a confirmation of this check, or the cancellation that *)
(* the worker looks at first.                                              *)
(***************************************************************************)
FlagInv == confirm = TRUE => asked = TRUE \/ cancelled = TRUE

LEMMA FlagKept == FlagInv /\ [Next]_vars => FlagInv'
<1> SUFFICES ASSUME FlagInv, [Next]_vars PROVE FlagInv'
  OBVIOUS
<1>1. CASE UNCHANGED <<confirm, asked, cancelled>>
  BY <1>1 DEF FlagInv
<1>2. CASE WorkerStep
  <2>1. UNCHANGED uiVars \/ AwaitConfirmation
    BY <1>2, Zenon DEF WorkerStep, Start, Fetch, DownloadBegin, Transfer, Verify, StageArchive, BackUpFiles,
       Replace, SyncFolder, Undo, Undone, RemoveArchive, Exit
  <2>2. CASE AwaitConfirmation
    BY <2>2 DEF AwaitConfirmation, FlagInv
  <2> QED
    BY <1>1, <2>1, <2>2 DEF uiVars
<1>3. CASE UserStep \/ Publish \/ Cut
  BY <1>3 DEF UserStep, Frame, CheckForUpdates, Reset, ConfirmInstall, Close, Closed, Publish, Cut,
     uiVars, FlagInv
<1> QED
  BY <1>1, <1>2, <1>3 DEF Next, vars, uiVars

(* For all constants, and however late the interface sees a stage: an update is never downloaded *)
(* on a confirmation that belongs to another check.                                              *)
THEOREM AlwaysConfirmed == Spec => Confirmed
<1>1. Init => FlagInv
  BY DEF Init, FlagInv
<1>2. ASSUME TypeOK, FlagInv, [Next]_vars, snapshot'.stage = "Downloading", snapshot.stage # "Downloading"
      PROVE  asked
  <2>1. \A s : Stage(s).stage = s
    BY SMT DEF Stage
  <2>2. \A how : Failed(how) => snapshot'.stage = "Error"
    BY SMT DEF Failed
  <2>3. snapshot' # snapshot /\ \A s : snapshot' = Stage(s) => s = "Downloading"
    BY <1>2, <2>1
  <2>4. AwaitConfirmation
    <3>1. /\ snapshot' # snapshot /\ \A how : ~Failed(how)
          /\ \A s : snapshot' = Stage(s) => s = "Downloading"
      BY <1>2, <2>2, <2>3
    <3>2. ~Start /\ ~Fetch /\ ~DownloadBegin
      BY <3>1 DEF Start, Fetch, DownloadBegin, Verifying
    <3>3. ~Transfer /\ ~Verify
      BY <3>1 DEF Transfer, Verify, Verifying
    <3>4. ~BackUpFiles /\ ~Undone /\ ~RemoveArchive /\ ~Exit /\ \A from, to : ~StageArchive(from, to)
      BY <3>1 DEF BackUpFiles, Undone, RemoveArchive, Exit, StageArchive
    <3>5. \A f \in Files : ~Replace(f) /\ ~SyncFolder(f) /\ ~Undo(f)
      BY <3>1 DEF Replace, SyncFolder, Undo
    <3>6. ~UserStep /\ ~Publish /\ ~Cut
      BY <3>1 DEF UserStep, Frame, CheckForUpdates, ConfirmInstall, Close, Closed, Publish, Cut
    <3> QED
      BY <1>2, <3>1, <3>2, <3>3, <3>4, <3>5, <3>6 DEF Next, WorkerStep, vars
  <2>5. confirm = TRUE /\ ~cancelled
    BY <1>2, <2>2, <2>4, TypeParts, Zenon DEF AwaitConfirmation, Woken, Flags
  <2> QED
    BY <1>2, <2>5 DEF FlagInv
<1> QED
  BY <1>1, <1>2, InitTyped, NextTyped, FlagKept, PTL DEF Spec, Confirmed

(***************************************************************************)
(* NeverBehind.  An installation replaces files in the order of the plan,  *)
(* so that at any moment the files done are the first ones, and all of     *)
(* them but the newest are on the card for certain.  Base is what was      *)
(* there before; what a power cut leaves is in order because Base was and  *)
(* no file of it is newer than the release that is installed.  On a card   *)
(* that cannot sync a folder (CertainInv fails there) only a cut that      *)
(* takes nothing back leaves what is promised.                             *)
(***************************************************************************)
Base(f) == IF Replacing /\ f \in Ships[worker.v] THEN worker.saved[f] ELSE app[f]

Early == {"none", "start", "fetch", "wait", "space", "transfer", "verify", "plan", "extract", "check", "backup"}
Chosen == {"wait", "space", "transfer", "verify", "plan", "extract", "check", "backup", "replace", "sync", "undo"}

BaseInv ==
    /\ Base(Binary) \in Versions
    /\ \A f \in Ships[Base(Binary)] : Base(f) >= Base(Binary)
    /\ \A f \in Files : Base(f) <= server
    /\ worker.pc \in Chosen => worker.v <= server /\ \A f \in Files : Base(f) <= worker.v
    /\ worker.pc \in Early => worker.done = {}

CertainInv ==
    /\ ~Replacing => \A f \in Files : durable[f] = {app[f]}
    /\ Replacing =>
          /\ \A f \in Files \ worker.done : durable[f] = {Base(f)}
          /\ \A f \in worker.done :
                /\ durable[f] \subseteq {Base(f), worker.v}
                /\ worker.pc = "replace" => durable[f] = {worker.v}
                /\ \A g \in Ships[worker.v] : g < f => durable[g] = {worker.v}

OrderInv ==
    /\ Replacing =>
          /\ \A f \in Files \ worker.done : app[f] = Base(f)
          /\ \A f \in worker.done :
                /\ f \in Ships[worker.v] /\ app[f] = worker.v
                /\ \A g \in Ships[worker.v] : g < f => g \in worker.done
    /\ \A f \in Files : app[f] \in durable[f]
    /\ syncs => CertainInv

DiskInv == ~broken => BaseInv /\ OrderInv

Sound(h) ==
    /\ h[Binary] \in Versions
    /\ \A f \in Ships[h[Binary]] : h[f] >= h[Binary]
    /\ \A f \in Files : h[f] <= server

(* What a power cut may leave is in order, and so is what is there now. *)
LEMMA CutSound ==
  ASSUME TypeOK, BaseInv, OrderInv, NEW h \in [Files -> Contents], \A f \in Files : h[f] \in durable[f],
         syncs \/ h = app
  PROVE  Sound(h)
<1>1. /\ app \in [Files -> Contents] /\ worker.v \in Versions /\ worker.saved \in [Files -> Contents]
      /\ server \in Versions /\ worker.done \in SUBSET Files
  BY TypeParts, Zenon DEF Disk, Net, Worker
<1>2. CASE ~Replacing
  <2>1. \A f \in Files : h[f] = app[f] /\ Base(f) = app[f]
    BY <1>2 DEF OrderInv, CertainInv, Base
  <2> QED
    BY <2>1, Constants DEF BaseInv, Sound
<1>3. CASE Replacing
  <2>1. worker.v <= server /\ \A f \in Files : Base(f) <= worker.v /\ Base(f) \in Nat
    BY <1>1, <1>3, ShipsAssumption, SMT DEF BaseInv, Replacing, Chosen, Base, Contents
  <2>2. \A f \in Files : h[f] \in {Base(f), worker.v} /\ (f \notin worker.done => h[f] = Base(f))
    BY <1>3 DEF OrderInv, CertainInv
  <2>3. CASE h[Binary] = Base(Binary)
    <3>1. \A f \in Ships[h[Binary]] : h[f] >= h[Binary]
      BY <1>1, <2>1, <2>2, <2>3, Constants, SMT DEF BaseInv, Versions
    <3> QED
      BY <1>1, <2>1, <2>2, <2>3, <3>1, SMT DEF BaseInv, Sound, Versions
  <2>4. CASE h[Binary] = worker.v /\ Binary \in worker.done
    <3>1. \A f \in Ships[worker.v] : h[f] = worker.v
      <4> SUFFICES ASSUME NEW f \in Ships[worker.v] PROVE h[f] = worker.v
        OBVIOUS
      <4>1. f \in Files /\ (f = Binary \/ f < Binary)
        BY <1>1, Constants, ShipsAssumption, SMT DEF Files, Binary
      <4> QED
        BY <1>3, <2>4, <4>1 DEF OrderInv, CertainInv
    <3> QED
      BY <1>1, <2>1, <2>2, <2>4, <3>1, SMT DEF BaseInv, Sound, Versions
  <2> QED
    BY <2>2, <2>3, <2>4, Constants
<1> QED
  BY <1>2, <1>3

LEMMA InOrderNow == TypeOK /\ DiskInv => NeverBehind
  BY CutSound, TypeParts DEF DiskInv, OrderInv, Disk, Sound, NeverBehind

LEMMA InitInOrder == Init => DiskInv
<1> SUFFICES ASSUME Init PROVE DiskInv
  OBVIOUS
<1>1. worker.pc = "none" /\ worker.done = {} /\ server = 1 /\ ~Replacing
  BY NoWorkerIs, SMT DEF Init, Replacing, NoWorker
<1>2. \A f \in Files : app[f] = IF f \in Ships[1] THEN 1 ELSE 0
  BY Constants, SMT DEF Init, FirstInstall, With
<1>3. \A f \in Files : durable[f] = {app[f]}
  BY DEF Init
<1>4. Binary \in Ships[1] /\ Ships[1] \subseteq Files
  BY Constants, ShipsAssumption
<1> QED
  BY <1>1, <1>2, <1>3, <1>4, Constants, SMT DEF DiskInv, BaseInv, OrderInv, CertainInv, Base, Chosen

(* Steps that leave the files alone, outside the replacement. *)
LEMMA QuietKept ==
  ASSUME TypeOK, DiskInv, UNCHANGED <<app, durable, syncs, broken>>, server' \in Versions, server <= server',
         ~Replacing, worker' \in Worker,
         worker'.pc \in Chosen => worker.pc \in Chosen /\ worker'.v = worker.v,
         worker'.pc \in Early => worker'.done = {},
         ~Replacing'
  PROVE  DiskInv'
<1>1. app \in [Files -> Contents] /\ server \in Versions
  BY TypeParts DEF Disk, Net
<1>2. \A f \in Files : Base(f) = app[f] /\ Base(f)' = app[f] /\ app[f] \in Nat
  BY <1>1, ShipsAssumption DEF Base, Contents
<1>3. Binary \in Files /\ \A v \in Versions : Ships[v] \subseteq Files
  BY Constants
<1>4. ~broken => \A f \in Files : app[f] <= server'
  BY <1>1, <1>2, SMT DEF DiskInv, BaseInv, Versions
<1>5. ~broken /\ worker'.pc \in Chosen => worker'.v <= server'
  <2>1. worker'.v \in Versions
    BY Zenon DEF Worker
  <2> QED
    BY <1>1, <2>1, SMT DEF DiskInv, BaseInv, Versions
<1> QED
  BY <1>1, <1>2, <1>3, <1>4, <1>5 DEF DiskInv, BaseInv, OrderInv, CertainInv

LEMMA FetchInOrder ==
  ASSUME TypeOK, DiskInv, Fetch
  PROVE  DiskInv'
<1>1. worker \in Worker /\ app \in [Files -> Contents] /\ server \in Versions
  BY TypeParts DEF Disk, Net
<1>2. /\ UNCHANGED <<app, durable, syncs, broken, server>>
      /\ worker.pc = "fetch" /\ ~Replacing
  BY DEF Fetch, At, diskVars, Replacing
<1>3. CASE worker' = Moved(worker, "exit")
  <2>1. worker' \in Worker /\ worker'.pc = "exit"
    BY <1>1, <1>3, MovedIs DEF Pcs
  <2> QED
    BY <1>1, <1>2, <2>1, QuietKept, SMT DEF Chosen, Early, Replacing, Versions
<1>4. CASE worker' = Offered(worker, server)
  <2>1. worker' \in Worker /\ worker'.pc = "wait" /\ worker'.v = server /\ worker'.done = worker.done
    BY <1>1, <1>4, OfferedIs
  <2>2. ~Replacing'
    BY <2>1 DEF Replacing
  <2>3. \A f \in Files : Base(f)' = app[f] /\ Base(f) = app[f]
    BY <1>2, <2>2 DEF Base
  <2> QED
    BY <1>1, <1>2, <2>1, <2>2, <2>3, Constants, SMT DEF DiskInv, BaseInv, OrderInv, CertainInv, Chosen, Early, Versions
<1> QED
  BY <1>3, <1>4 DEF Fetch, Failed, To, Moved, Offered

(* The worker's other steps up to the replacement, and those after it. *)
LEMMA WorkerQuiet ==
  ASSUME TypeOK, DiskInv,
         \/ Start \/ AwaitConfirmation \/ DownloadBegin \/ Transfer \/ Verify
         \/ StageArchive("plan", "extract") \/ StageArchive("extract", "check")
         \/ StageArchive("check", "backup") \/ RemoveArchive \/ Exit
  PROVE  DiskInv'
<1>1. worker \in Worker /\ server \in Versions
  BY TypeParts DEF Net
<1>2. UNCHANGED <<app, durable, syncs, broken, server>>
  BY Zenon DEF Start, AwaitConfirmation, DownloadBegin, Transfer, Verify, StageArchive, RemoveArchive, Exit,
     diskVars
<1>3. \/ worker' = NoWorker
      \/ worker' = Moved(worker, "exit")
      \/ worker.pc \in {"start", "wait", "space", "transfer", "verify", "plan", "extract", "check"}
         /\ TypeOK'
         /\ \/ worker.pc = "start" /\ worker' = Moved(worker, "fetch")
            \/ worker.pc # "start" /\ worker' = Retried(worker)
            \/ worker.pc # "start"
               /\ \E pc \in {"space", "transfer", "verify", "plan", "extract", "check", "backup"} :
                      worker' = Moved(worker, pc)
  <2>1. CASE Start \/ AwaitConfirmation \/ DownloadBegin
    BY <2>1, WorkerTyped, Zenon DEF WorkerStep, Start, AwaitConfirmation, DownloadBegin, Verifying, At,
       Failed, To, Moved
  <2>2. CASE Transfer \/ Verify
    BY <2>2, WorkerTyped, Zenon DEF WorkerStep, Transfer, Verify, Verifying, At, Failed, To, Moved, Retried
  <2>3. CASE StageArchive("plan", "extract") \/ StageArchive("extract", "check")
             \/ StageArchive("check", "backup")
    BY <2>3, WorkerTyped, Zenon DEF WorkerStep, StageArchive, At, Failed, To, Moved
  <2>4. CASE RemoveArchive \/ Exit
    BY <2>4, Zenon DEF RemoveArchive, Exit, To, Moved
  <2> QED
    BY <2>1, <2>2, <2>3, <2>4
<1>4. ~Replacing
  BY SMT DEF Start, AwaitConfirmation, DownloadBegin, Transfer, Verify, StageArchive, RemoveArchive, Exit, At,
     Replacing
<1>5. CASE worker' = NoWorker
  BY <1>1, <1>2, <1>4, <1>5, NoWorkerIs, QuietKept, SMT DEF Chosen, Early, Replacing, Versions
<1>6. CASE worker' = Moved(worker, "exit")
  <2>1. worker' \in Worker /\ worker'.pc = "exit"
    BY <1>1, <1>6, MovedIs DEF Pcs
  <2> QED
    BY <1>1, <1>2, <1>4, <2>1, QuietKept, SMT DEF Chosen, Early, Replacing, Versions
<1>7. CASE worker.pc = "start" /\ worker' = Moved(worker, "fetch")
  <2>1. worker' \in Worker /\ worker'.pc = "fetch" /\ worker'.done = worker.done
    BY <1>1, <1>7, MovedIs DEF Pcs
  <2>2. ~broken => worker.done = {}
    BY <1>7 DEF DiskInv, BaseInv, Early
  <2>3. CASE broken
    BY <1>2, <2>3 DEF DiskInv
  <2> QED
    BY <1>1, <1>2, <1>4, <2>1, <2>2, <2>3, QuietKept, SMT DEF Chosen, Early, Replacing, Versions
<1>8. CASE /\ worker.pc \in {"wait", "space", "transfer", "verify", "plan", "extract", "check"}
           /\ worker' \in Worker /\ worker'.v = worker.v /\ worker'.done = worker.done
           /\ worker'.pc \in {"wait", "space", "transfer", "verify", "plan", "extract", "check", "backup"}
  <2>1. ~broken => worker.done = {}
    BY <1>8 DEF DiskInv, BaseInv, Early
  <2>2. CASE broken
    BY <1>2, <2>2 DEF DiskInv
  <2> QED
    BY <1>1, <1>2, <1>4, <1>8, <2>1, <2>2, QuietKept, SMT DEF Chosen, Early, Replacing, Versions
<1>9. ASSUME NEW pc \in {"space", "transfer", "verify", "plan", "extract", "check", "backup"},
             worker' = Moved(worker, pc)
      PROVE  worker' \in Worker /\ worker'.v = worker.v /\ worker'.done = worker.done /\ worker'.pc = pc
  BY <1>1, <1>9, MovedIs DEF Pcs, Same
<1>10. ASSUME TypeOK', worker' = Retried(worker)
       PROVE  worker' \in Worker /\ worker'.v = worker.v /\ worker'.done = worker.done /\ worker'.pc = worker.pc
  <2>1. worker' \in Worker
    BY <1>10 DEF TypeOK
  <2>2. Retried(worker).v = worker.v /\ Retried(worker).done = worker.done /\ Retried(worker).pc = worker.pc
    BY <1>1, Zenon DEF Worker, Retried
  <2> QED
    BY <1>10, <2>1, <2>2
<1> QED
  BY <1>3, <1>5, <1>6, <1>7, <1>8, <1>9, <1>10

(* The types of what the replacement reads. *)
LEMMA Replacement ==
  ASSUME TypeOK
  PROVE  /\ worker \in Worker /\ app \in [Files -> Contents] /\ durable \in [Files -> SUBSET Contents]
         /\ worker.v \in Versions /\ worker.done \in SUBSET Files /\ worker.saved \in [Files -> Contents]
         /\ Ships[worker.v] \subseteq Files /\ server \in Versions
         /\ \A f \in Files : app[f] \in Nat /\ worker.saved[f] \in Nat /\ Base(f) \in Nat
<1>1. /\ worker \in Worker /\ app \in [Files -> Contents] /\ durable \in [Files -> SUBSET Contents]
      /\ server \in Versions
  BY TypeParts DEF Disk, Net
<1>2. worker.v \in Versions /\ worker.done \in SUBSET Files /\ worker.saved \in [Files -> Contents]
  BY <1>1, Zenon DEF Worker
<1>3. \A f \in Files : app[f] \in Nat /\ worker.saved[f] \in Nat
  BY <1>1, <1>2, ShipsAssumption, SMT DEF Contents
<1> QED
  BY <1>1, <1>2, <1>3, Constants DEF Base

LEMMA BackUpInOrder ==
  ASSUME TypeOK, DiskInv, BackUpFiles
  PROVE  DiskInv'
<1>1. /\ worker \in Worker /\ app \in [Files -> Contents] /\ server \in Versions
      /\ Ships[worker.v] \subseteq Files
  BY Replacement
<1>2. UNCHANGED <<app, durable, syncs, broken, server>> /\ worker.pc = "backup" /\ ~Replacing
  BY DEF BackUpFiles, At, diskVars, Replacing
<1>3. CASE worker' = Moved(worker, "exit")
  <2>1. worker' \in Worker /\ worker'.pc = "exit"
    BY <1>1, <1>3, MovedIs DEF Pcs
  <2> QED
    BY <1>1, <1>2, <2>1, QuietKept, SMT DEF Chosen, Early, Replacing, Versions
<1>4. CASE worker' = BackedUp(worker, BackUp(worker.v))
  <2>1. /\ worker'.pc = "replace" /\ worker'.v = worker.v /\ worker'.done = worker.done
        /\ worker'.saved = BackUp(worker.v)
    BY <1>1, <1>4, BackedUpIs, BackUpIs
  <2>2. \A f \in Ships[worker.v] : BackUp(worker.v)[f] = app[f]
    BY <1>1 DEF BackUp
  <2>3. \A f \in Files : Base(f)' = app[f] /\ Base(f) = app[f]
    BY <1>2, <2>1, <2>2 DEF Base
  <2>4. Replacing'
    BY <2>1 DEF Replacing
  <2> QED
    BY <1>1, <1>2, <2>1, <2>3, <2>4, Constants, SMT DEF DiskInv, BaseInv, OrderInv, CertainInv, Chosen, Early
<1> QED
  BY <1>3, <1>4 DEF BackUpFiles, Failed, To, Moved, BackedUp

(* The base does not change while files are replaced. *)
LEMMA BaseStays ==
  ASSUME TypeOK, BaseInv, UNCHANGED server, Replacing, Replacing', worker'.v = worker.v,
         worker'.saved = worker.saved,
         \A f \in Files : f \notin Ships[worker.v] => app'[f] = app[f]
  PROVE  BaseInv' /\ \A f \in Files : Base(f)' = Base(f)
<1>1. \A f \in Files : Base(f)' = Base(f)
  BY DEF Base
<1>2. worker.pc \in Chosen /\ worker'.pc \in Chosen /\ worker'.pc \notin Early
  BY DEF Replacing, Chosen, Early
<1> QED
  BY <1>1, <1>2, Constants DEF BaseInv

LEMMA ReplaceInOrder ==
  ASSUME TypeOK, DiskInv, NEW f \in Files, Replace(f)
  PROVE  DiskInv'
<1> DEFINE v == worker.v  done == worker.done
<1>1. /\ worker \in Worker /\ app \in [Files -> Contents] /\ durable \in [Files -> SUBSET Contents]
      /\ done \in SUBSET Files /\ Ships[v] \subseteq Files
  BY Replacement
<1>2. /\ worker.pc = "replace" /\ Replacing /\ f \in Ships[v] \ done
      /\ \A g \in Ships[v] \ done : f <= g
      /\ UNCHANGED <<server, broken, syncs>>
  BY DEF Replace, At, Replacing, InOrder
<1>3. SUFFICES ASSUME ~broken, BaseInv, OrderInv PROVE BaseInv' /\ OrderInv'
  BY <1>2 DEF DiskInv
<1>4. CASE /\ app' = [app EXCEPT ![f] = v]
           /\ durable' = [durable EXCEPT ![f] = @ \cup {v}]
           /\ worker' = Replaced(worker, done \cup {f})
  <2>1. /\ worker'.pc = "sync" /\ worker'.done = done \cup {f} /\ worker'.v = v
        /\ worker'.saved = worker.saved
    BY <1>1, <1>4, ReplacedIs DEF Same
  <2>2. \A g \in Files : app'[g] = (IF g = f THEN v ELSE app[g])
                         /\ durable'[g] = (IF g = f THEN durable[f] \cup {v} ELSE durable[g])
    BY <1>1, <1>4
  <2>3. Replacing' /\ BaseInv' /\ \A g \in Files : Base(g)' = Base(g)
    BY <1>2, <1>3, <2>1, <2>2, BaseStays DEF Replacing
  <2>4. \A g \in Ships[v] : g < f => g \in done
    BY <1>1, <1>2, SMT DEF Files
  <2> QED
    BY <1>1, <1>2, <1>3, <2>1, <2>2, <2>3, <2>4 DEF OrderInv, CertainInv
<1>5. CASE UNCHANGED <<app, durable, syncs>> /\ worker' = Moved(worker, "undo")
  <2>1. /\ worker'.pc = "undo" /\ worker'.done = done /\ worker'.v = v /\ worker'.saved = worker.saved
    BY <1>1, <1>5, MovedIs DEF Pcs, Same
  <2>2. Replacing' /\ BaseInv' /\ \A g \in Files : Base(g)' = Base(g)
    BY <1>2, <1>3, <1>5, <2>1, BaseStays DEF Replacing
  <2> QED
    BY <1>1, <1>2, <1>3, <1>5, <2>1, <2>2 DEF OrderInv, CertainInv
<1> QED
  BY <1>4, <1>5, Zenon DEF Replace, To, Moved, Replaced

LEMMA SyncInOrder ==
  ASSUME TypeOK, DiskInv, NEW f \in Files, SyncFolder(f)
  PROVE  DiskInv'
<1> DEFINE v == worker.v  done == worker.done
<1>1. /\ worker \in Worker /\ app \in [Files -> Contents] /\ durable \in [Files -> SUBSET Contents]
      /\ done \in SUBSET Files /\ Ships[v] \subseteq Files /\ v \in Versions /\ server \in Versions
  BY Replacement
<1>2. /\ worker.pc = "sync" /\ Replacing /\ f \in done
      /\ \A g \in done : g <= f
      /\ UNCHANGED <<app, server, broken, syncs>>
  BY DEF SyncFolder, At, Replacing, Newest
<1>3. SUFFICES ASSUME ~broken, BaseInv, OrderInv PROVE BaseInv' /\ OrderInv'
  BY <1>2 DEF DiskInv
<1>4. f \in Ships[v] /\ \A g \in done : g # f => g < f
  BY <1>1, <1>2, <1>3, SMT DEF OrderInv, CertainInv, Files
<1>5. CASE /\ Synced(f, v)
           /\ \/ done # Ships[v] /\ worker' = Moved(worker, "replace")
              \/ done = Ships[v] /\ worker' = Moved(worker, "clean")
  <2>1. \A g \in Files : durable'[g] = IF g # f THEN durable[g] ELSE IF syncs THEN {v} ELSE durable[f] \cup {v}
    <3> HIDE DEF v
    <3>1. \/ syncs /\ durable' = [durable EXCEPT ![f] = {v}]
          \/ ~syncs /\ durable' = [durable EXCEPT ![f] = durable[f] \cup {v}]
      BY <1>5, SyncedIs, Zenon
    <3> QED
      BY <1>1, <3>1
  <2>2. \A g \in done : (syncs => durable'[g] = {v}) /\ g \in Ships[v] /\ app[g] = v
    BY <1>1, <1>2, <1>3, <1>4, <2>1 DEF OrderInv, CertainInv
  <2>5. \A g \in Files : app[g] \in durable'[g]
    BY <1>1, <1>2, <1>3, <2>1, <2>2 DEF OrderInv
  <2>3. CASE done # Ships[v] /\ worker' = Moved(worker, "replace")
    <3>1. /\ worker'.pc = "replace" /\ worker'.done = done /\ worker'.v = v /\ worker'.saved = worker.saved
      BY <1>1, <2>3, MovedIs DEF Pcs, Same
    <3>2. Replacing' /\ BaseInv' /\ \A g \in Files : Base(g)' = Base(g)
      BY <1>2, <1>3, <3>1, BaseStays DEF Replacing
    <3> QED
      BY <1>1, <1>2, <1>3, <2>1, <2>2, <2>5, <3>1, <3>2 DEF OrderInv, CertainInv
  <2>4. CASE done = Ships[v] /\ worker' = Moved(worker, "clean")
    <3>1. worker'.pc = "clean" /\ ~Replacing'
      BY <1>1, <2>4, MovedIs DEF Pcs, Same, Replacing
    <3>2. \A g \in Files : Base(g)' = app[g] /\ (g \notin Ships[v] => Base(g) = app[g])
      BY <1>2, <3>1 DEF Base
    <3>3. \A g \in Files : app[g] <= server
      <4>1. v <= server
        BY <1>2, <1>3 DEF BaseInv, Chosen
      <4> QED
        BY <1>3, <2>2, <2>4, <3>2, <4>1 DEF BaseInv
    <3>4. \A g \in Ships[v] : app[g] = v
      BY <2>2, <2>4
    <3>5. Binary \in Ships[v]
      BY <1>1, ShipsAssumption
    <3>6. BaseInv'
      BY <1>1, <1>2, <3>1, <3>2, <3>3, <3>4, <3>5, Constants, SMT DEF BaseInv, Chosen, Early, Versions
    <3>7. OrderInv'
      BY <1>1, <1>2, <1>3, <2>1, <2>2, <2>4, <2>5, <3>1, <3>2 DEF OrderInv, CertainInv
    <3> QED
      BY <3>6, <3>7
  <2> QED
    BY <1>5, <2>3, <2>4
<1>6. CASE durable' = durable /\ worker' = Moved(worker, "undo")
  <2>1. /\ worker'.pc = "undo" /\ worker'.done = done /\ worker'.v = v /\ worker'.saved = worker.saved
    BY <1>1, <1>6, MovedIs DEF Pcs, Same
  <2>2. Replacing' /\ BaseInv' /\ \A g \in Files : Base(g)' = Base(g)
    BY <1>2, <1>3, <2>1, BaseStays DEF Replacing
  <2> QED
    BY <1>1, <1>2, <1>3, <1>6, <2>1, <2>2 DEF OrderInv, CertainInv
<1> QED
  BY <1>5, <1>6, Zenon DEF SyncFolder, To, Moved

LEMMA UndoInOrder ==
  ASSUME TypeOK, DiskInv, NEW f \in Files, Undo(f)
  PROVE  DiskInv'
<1> DEFINE v == worker.v  done == worker.done  old == worker.saved[f]
<1>1. /\ worker \in Worker /\ app \in [Files -> Contents] /\ durable \in [Files -> SUBSET Contents]
      /\ done \in SUBSET Files /\ Ships[v] \subseteq Files
  BY Replacement
<1>2. /\ worker.pc = "undo" /\ Replacing /\ f \in done
      /\ \A g \in done : g <= f
      /\ UNCHANGED <<server, syncs>>
  BY DEF Undo, At, Replacing, Newest
<1>3. CASE broken' = TRUE
  BY <1>3 DEF DiskInv
<1>4. CASE /\ app' = [app EXCEPT ![f] = old]
           /\ Synced(f, old)
           /\ worker' = Restored(worker, done \ {f})
           /\ UNCHANGED broken
  <2>1. SUFFICES ASSUME ~broken, BaseInv, OrderInv PROVE BaseInv' /\ OrderInv'
    BY <1>4 DEF DiskInv
  <2>2. /\ worker'.pc = "undo" /\ worker'.done = done \ {f} /\ worker'.v = v
        /\ worker'.saved = worker.saved
    BY <1>1, <1>2, <1>4, RestoredIs DEF Same
  <2>3. \A g \in Files : app'[g] = (IF g = f THEN old ELSE app[g])
                         /\ durable'[g] = (IF g # f THEN durable[g] ELSE
                                             IF syncs THEN {old} ELSE durable[f] \cup {old})
    <3>1. \/ syncs /\ durable' = [durable EXCEPT ![f] = {old}]
          \/ ~syncs /\ durable' = [durable EXCEPT ![f] = durable[f] \cup {old}]
      BY <1>4, SyncedIs, Zenon
    <3>2. \A g \in Files : app'[g] = (IF g = f THEN old ELSE app[g])
      BY <1>1, <1>4
    <3>3. \A g \in Files : durable'[g] = (IF g # f THEN durable[g] ELSE
                                             IF syncs THEN {old} ELSE durable[f] \cup {old})
      BY <1>1, <3>1
    <3> QED
      BY <3>2, <3>3
  <2>4. f \in Ships[v] /\ Base(f) = old /\ \A g \in done : g # f => g < f
    BY <1>1, <1>2, <2>1, SMT DEF OrderInv, CertainInv, Base, Files
  <2>5. Replacing' /\ BaseInv' /\ \A g \in Files : Base(g)' = Base(g)
    BY <1>2, <2>1, <2>2, <2>3, <2>4, BaseStays DEF Replacing
  <2>6. \A g \in Files \ (done \ {f}) : app'[g] = Base(g) /\ (syncs => durable'[g] = {Base(g)})
    BY <1>2, <2>1, <2>3, <2>4 DEF OrderInv, CertainInv
  <2>8. \A g \in Files : app'[g] \in durable'[g]
    BY <1>1, <2>1, <2>3 DEF OrderInv
  <2>7. \A g \in done \ {f} : \A k \in Ships[v] : k < g => k # f
    BY <1>1, <2>4, SMT DEF Files
  <2> QED
    BY <1>1, <1>2, <2>1, <2>2, <2>3, <2>5, <2>6, <2>7, <2>8 DEF OrderInv, CertainInv
<1> QED
  BY <1>3, <1>4, Zenon DEF Undo, Restored

LEMMA UndoneInOrder ==
  ASSUME TypeOK, DiskInv, Undone
  PROVE  DiskInv'
<1>1. /\ worker \in Worker /\ app \in [Files -> Contents] /\ server \in Versions
  BY Replacement
<1>2. /\ worker.pc = "undo" /\ Replacing /\ worker.done = {}
      /\ UNCHANGED <<app, durable, syncs, broken, server>> /\ worker' = Moved(worker, "exit")
  BY DEF Undone, At, diskVars, Replacing, Failed, To, Moved
<1>3. worker'.pc = "exit" /\ ~Replacing'
  BY <1>1, <1>2, MovedIs DEF Pcs, Replacing
<1>4. \A f \in Files : Base(f)' = app[f]
  BY <1>2, <1>3 DEF Base
<1>5. ~broken => \A f \in Files : Base(f) = app[f] /\ (syncs => durable[f] = {app[f]})
  BY <1>2 DEF DiskInv, OrderInv, CertainInv
<1> QED
  BY <1>2, <1>3, <1>4, <1>5, Constants DEF DiskInv, BaseInv, OrderInv, CertainInv, Chosen, Early

(* The user, the server and the power. *)
LEMMA OutsideInOrder ==
  ASSUME TypeOK, DiskInv, UserStep \/ Publish \/ Cut
  PROVE  DiskInv'
<1>1. worker \in Worker /\ server \in Versions /\ app \in [Files -> Contents]
  BY Replacement
<1>2. CASE Frame \/ ConfirmInstall \/ Close \/ Closed
  <2>1. UNCHANGED <<app, durable, syncs, broken, server, worker>>
    BY <1>2 DEF Frame, ConfirmInstall, Close, Closed, diskVars
  <2>2. \A f : Base(f)' = Base(f)
    BY <2>1 DEF Base, Replacing
  <2> QED
    BY <2>1, <2>2 DEF DiskInv, BaseInv, OrderInv, CertainInv, Replacing
<1>3. CASE Publish
  <2>1. UNCHANGED <<app, durable, syncs, broken, worker>> /\ server' \in Versions /\ server' = server + 1
    BY <1>1, <1>3, ShipsAssumption, SMT DEF Publish, diskVars, Versions
  <2>2. \A f : Base(f)' = Base(f)
    BY <2>1 DEF Base, Replacing
  <2>3. \A n \in Nat : n <= server => n <= server'
    BY <1>1, <2>1, SMT DEF Versions
  <2>4. worker.v \in Nat /\ \A f \in Files : Base(f) \in Nat
    BY Replacement, SMT DEF Versions
  <2> QED
    BY <2>1, <2>2, <2>3, <2>4 DEF DiskInv, BaseInv, OrderInv, CertainInv, Replacing
<1>4. CASE CheckForUpdates
  <2>1. /\ UNCHANGED <<app, durable, syncs, broken, server>> /\ worker.pc = "none"
        /\ worker' = Moved(NoWorker, "start")
    BY <1>4 DEF CheckForUpdates, diskVars, Moved
  <2>2. worker' \in Worker /\ worker'.pc = "start" /\ worker'.done = {}
    BY <2>1, NoWorkerIs, MovedIs DEF Pcs
  <2> QED
    BY <1>1, <2>1, <2>2, QuietKept, SMT DEF Chosen, Early, Replacing, Versions
<1>5. CASE Cut
  <2>7. broken' = (broken \/ (~syncs /\ app' # app))
    BY <1>5, Zenon DEF Cut
  <2>1. SUFFICES ASSUME ~broken, BaseInv, OrderInv, syncs \/ app' = app PROVE BaseInv' /\ OrderInv'
    BY <2>7 DEF DiskInv
  <2>2. app' \in [Files -> Contents] /\ \A f \in Files : app'[f] \in durable[f]
    BY <1>5 DEF Cut
  <2>3. Sound(app')
    BY <2>1, <2>2, CutSound
  <2>4. /\ worker'.pc = "none" /\ worker'.done = {} /\ ~Replacing' /\ server' = server
        /\ \A f \in Files : durable'[f] = {app'[f]}
    BY <1>5, NoWorkerIs DEF Cut, Replacing
  <2>5. \A f \in Files : Base(f)' = app'[f]
    BY <2>4 DEF Base
  <2>6. BaseInv'
    BY <2>3, <2>4, <2>5, Constants DEF BaseInv, Sound, Chosen
  <2> QED
    BY <2>4, <2>6 DEF OrderInv, CertainInv
<1> QED
  BY <1>2, <1>3, <1>4, <1>5 DEF UserStep

LEMMA NextInOrder == TypeOK /\ DiskInv /\ [Next]_vars => DiskInv'
<1> SUFFICES ASSUME TypeOK, DiskInv, [Next]_vars PROVE DiskInv'
  OBVIOUS
<1>1. CASE UNCHANGED vars
  <2>1. UNCHANGED <<app, durable, syncs, broken, server, worker>>
    BY <1>1 DEF vars, diskVars
  <2>2. \A f : Base(f)' = Base(f)
    BY <2>1 DEF Base, Replacing
  <2> QED
    BY <2>1, <2>2 DEF DiskInv, BaseInv, OrderInv, CertainInv, Replacing
<1>2. CASE WorkerStep
  BY <1>2, FetchInOrder, WorkerQuiet, BackUpInOrder, ReplaceInOrder, SyncInOrder, UndoInOrder, UndoneInOrder
  DEF WorkerStep
<1>3. CASE UserStep \/ Publish \/ Cut
  BY <1>3, OutsideInOrder
<1> QED
  BY <1>1, <1>2, <1>3 DEF Next

(* For every number of files and releases and whatever files each release has: no binary is ever *)
(* started beside a file of its release that is older than it, at whichever step the power went, *)
(* as long as no undo step has failed and no cut has taken back a rename on a card that cannot   *)
(* sync a folder.                                                                                *)
THEOREM BinaryNeverAhead == Spec => []NeverBehind
  BY InitTyped, NextTyped, InitInOrder, NextInOrder, InOrderNow, PTL DEF Spec

(***************************************************************************)
(* The transaction.                                                        *)
(***************************************************************************)
LEMMA Least ==
  ASSUME NEW S, S \subseteq Nat, S # {}
  PROVE  \E n \in S : \A m \in S : n <= m
<1>1. PICK n \in S : \A m \in S : ~ (<<m, n>> \in OpToRel(<, Nat))
  BY NatLessThanWellFounded, WFMin, Zenon
<1>2. \A m \in S : ~(m < n)
  BY <1>1 DEF OpToRel
<1> QED
  BY <1>2

Mapped ==
    /\ Before \in [Files -> Contents] /\ \A f \in Files : Before[f] = Base(f)
    /\ ~Replacing => Before = app
    /\ Told \in Transaction!Outcomes
    /\ Installing \in BOOLEAN

(* What the user is told of the other stages. *)
ToldOf ==
    /\ \A s : snapshot = Stage(s) /\ s # "ReadyToRestart" => Told = "nothing"
    /\ snapshot = Stage("ReadyToRestart") => Told = "installed"
    /\ snapshot = [stage |-> "Error", error |-> "none"] => Told = "nothing"
    /\ snapshot = [stage |-> "Error", error |-> "kept"] => Told = "kept"

LEMMA MappingIs == TypeOK => Mapped /\ ToldOf
<1> SUFFICES ASSUME TypeOK PROVE Mapped /\ ToldOf
  OBVIOUS
<1>1. app \in [Files -> Contents] /\ worker.saved \in [Files -> Contents] /\ snapshot \in Snapshots
  BY Replacement, TypeParts
<1>2. Told \in Transaction!Outcomes
  BY <1>1, SMT DEF Told, Transaction!Outcomes, Snapshots
<1>3. Installing \in BOOLEAN
  BY Zenon DEF Installing, Replacing
<1>4. ToldOf
  BY SMT DEF ToldOf, Told, Stage
<1> QED
  BY <1>1, <1>2, <1>3, <1>4 DEF Mapped, Before, Base

LEMMA MappingNext == TypeOK' => Mapped' /\ ToldOf'
  BY MappingIs, PTL

TransactionStep == [Transaction!Next]_(Transaction!transactionVars)

LEMMA UnseenStep ==
  ASSUME UNCHANGED <<Before, Installing, Told, broken, syncs>>
  PROVE  TransactionStep
  BY Zenon DEF TransactionStep, Transaction!transactionVars

LEMMA ForgetStep ==
  ASSUME Mapped, Mapped', UNCHANGED <<app, broken, syncs>>, ~Installing, ~Installing', Told' \in {"nothing", Told}
  PROVE  TransactionStep
<1>1. Before' = Before /\ Installing' = Installing
  BY DEF Mapped, Installing
<1>2. CASE Told' = "nothing"
  BY <1>1, <1>2, Zenon DEF TransactionStep, Transaction!Next, Transaction!Forget
<1>3. CASE Told' = Told
  BY <1>1, <1>3, UnseenStep
<1> QED
  BY <1>2, <1>3

LEMMA BeginStep ==
  ASSUME Mapped, Mapped', UNCHANGED <<app, broken, syncs>>, ~Installing, Installing', ~Replacing', Told' = "nothing"
  PROVE  TransactionStep
<1>1. Before' = Before /\ Installing' = TRUE
  BY Zenon DEF Mapped, Installing
<1> QED
  BY <1>1, Zenon DEF TransactionStep, Transaction!Next, Transaction!Begin

LEMMA KeepStep ==
  ASSUME Mapped', UNCHANGED <<Before, broken, syncs>>, Installing, ~Installing', Told' = "kept"
  PROVE  TransactionStep
<1>1. Installing' = FALSE
  BY Zenon DEF Mapped
<1> QED
  BY <1>1, Zenon DEF TransactionStep, Transaction!Next, Transaction!Keep

(* Once a rollback has failed the transaction allows everything. *)
LEMMA AdriftStep ==
  ASSUME Mapped', broken = TRUE, broken' = TRUE, UNCHANGED syncs
  PROVE  TransactionStep
<1>1. Transaction!Files = Files /\ Transaction!Contents = Contents
  BY DEF Transaction!Files, Transaction!Contents, Files, Contents
<1>2. ~(~broken) /\ (~broken') = (~broken)
  OBVIOUS
<1>3. Before' \in [Files -> Contents] /\ Installing' \in BOOLEAN /\ Told' \in Transaction!Outcomes
  BY DEF Mapped
<1>4. Transaction!Adrift
  BY <1>1, <1>2, <1>3, Zenon DEF Transaction!Adrift
<1> QED
  BY <1>4, Zenon DEF TransactionStep, Transaction!Next

LEMMA CommitStep ==
  ASSUME TypeOK, TypeOK', OrderInv, Replacing, ~Installing', UNCHANGED <<app, broken, syncs>>,
         worker.done = Ships[worker.v], snapshot' = Stage("ReadyToRestart")
  PROVE  TransactionStep
<1> DEFINE v == worker.v
<1>1. Mapped /\ Mapped' /\ ToldOf' /\ app \in [Files -> Contents] /\ v \in Versions /\ Ships[v] \subseteq Files
  BY MappingIs, MappingNext, Replacement
<1>2. ~Replacing' /\ Installing = TRUE /\ Installing' = FALSE
  BY <1>1, Zenon DEF Installing, Mapped
<1>3. Before' = app
  BY <1>1, <1>2 DEF Mapped
<1>4. \A f \in Files : app[f] = IF f \in Ships[v] THEN v ELSE Before[f]
  BY <1>1 DEF OrderInv, CertainInv, Mapped
<1>5. app = Transaction!With(v, Ships[v], Before)
  BY <1>1, <1>4, SMT DEF Transaction!With, Transaction!Files, Files
<1>6. Told' = "installed" /\ (~broken)' = ~broken
  BY <1>1 DEF ToldOf
<1>7. v \in Transaction!Versions
  BY <1>1 DEF Transaction!Versions, Versions
<1> HIDE DEF v
<1>8. Transaction!Commit
  BY <1>2, <1>3, <1>5, <1>6, <1>7, Zenon DEF Transaction!Commit
<1> QED
  BY <1>8, Zenon DEF TransactionStep, Transaction!Next

LEMMA RollbackFailsStep ==
  ASSUME UNCHANGED <<Before, Told, syncs>>, Installing, Installing', broken' = TRUE
  PROVE  TransactionStep
<1>1. Installing = TRUE /\ Installing' = TRUE
  BY Zenon DEF Installing, Replacing
<1>2. (~broken)' = FALSE
  OBVIOUS
<1> QED
  BY <1>1, <1>2, Zenon DEF TransactionStep, Transaction!Next, Transaction!RollbackFails

LEMMA CutIs ==
  ASSUME TypeOK, Cut
  PROVE  /\ worker'.pc = "none" /\ snapshot' = Stage("Idle") /\ UNCHANGED syncs
         /\ syncs \/ app' = app => UNCHANGED broken
         /\ ~(syncs \/ app' = app) => broken' = TRUE
<1>1. broken' = (broken \/ (~syncs /\ app' # app)) /\ broken \in BOOLEAN
  BY TypeParts, Zenon DEF Cut, Disk
<1> QED
  BY <1>1, NoWorkerIs, Zenon DEF Cut

(* One that takes back renames where no folder can be synced may leave anything. *)
LEMMA ScatterStep ==
  ASSUME TypeOK, TypeOK', Cut, ~(syncs \/ app' = app)
  PROVE  TransactionStep
<1>1. Mapped' /\ ToldOf' /\ syncs = FALSE
  BY MappingNext, TypeParts DEF Disk
<1>2. worker'.pc = "none" /\ snapshot' = Stage("Idle") /\ UNCHANGED syncs /\ broken' = TRUE
  BY CutIs
<1>3. Installing' = FALSE /\ Told' = "nothing" /\ (~broken)' = FALSE
  BY <1>1, <1>2 DEF Installing, Replacing, Mapped, ToldOf
<1>4. Transaction!Files = Files /\ Transaction!Contents = Contents
  BY DEF Transaction!Files, Transaction!Contents, Files, Contents
<1>5. Before' \in [Files -> Contents]
  BY <1>1 DEF Mapped
<1>6. Transaction!CutScatters
  BY <1>1, <1>2, <1>3, <1>4, <1>5, Zenon DEF Transaction!CutScatters
<1> QED
  BY <1>6, Zenon DEF TransactionStep, Transaction!Next

(* A power cut during the replacement leaves a beginning of the release. *)
LEMMA CutStep ==
  ASSUME TypeOK, TypeOK', OrderInv, Replacing, Cut, syncs \/ app' = app
  PROVE  TransactionStep
<1> DEFINE v == worker.v
           S == {f \in Ships[v] : app'[f] # v}
<1>1. /\ Mapped /\ Mapped' /\ ToldOf' /\ v \in Versions /\ Ships[v] \subseteq Files
      /\ app' \in [Files -> Contents]
  BY MappingIs, MappingNext, Replacement DEF Cut
<1>2. /\ Installing = TRUE /\ Installing' = FALSE /\ ~Replacing' /\ Told' = "nothing"
      /\ (~broken)' = ~broken /\ UNCHANGED syncs
  <2>1. worker'.pc = "none" /\ snapshot' = Stage("Idle") /\ UNCHANGED <<broken, syncs>>
    BY CutIs
  <2> QED
    BY <1>1, <2>1, SMT DEF Installing, Replacing, Mapped, ToldOf
<1>3. Before' = app'
  BY <1>1, <1>2 DEF Mapped
<1>4. ASSUME NEW f \in Files
      PROVE  /\ app'[f] \in {Before[f], v}
             /\ f \notin Ships[v] => app'[f] = Before[f]
             /\ f \notin worker.done => app'[f] = Before[f]
  <2>1. app'[f] \in durable[f] /\ Before[f] = Base(f)
    BY <1>1 DEF Cut, Mapped
  <2>2. f \notin worker.done => app'[f] = Base(f)
    BY <2>1 DEF OrderInv, CertainInv
  <2>3. f \in worker.done => app'[f] \in {Base(f), v} /\ f \in Ships[v]
    BY <2>1 DEF OrderInv, CertainInv
  <2> QED
    BY <2>1, <2>2, <2>3
<1>5. v \in Transaction!Versions
  BY <1>1 DEF Transaction!Versions, Versions
<1>6. \/ app' = Transaction!With(v, Ships[v], Before)
      \/ \E k \in Transaction!Files : app' = Transaction!With(v, {f \in Ships[v] : f < k}, Before)
  <2>1. CASE S = {}
    <3>1. \A f \in Files : app'[f] = IF f \in Ships[v] THEN v ELSE Before[f]
      BY <1>4, <2>1
    <3> QED
      BY <1>1, <3>1, SMT DEF Transaction!With, Transaction!Files, Files
  <2>2. CASE S # {}
    <3>1. S \subseteq Nat
      BY <1>1, SMT DEF Files
    <3>2. PICK k \in S : \A f \in S : k <= f
      BY <2>2, <3>1, Least
    <3>3. k \in Files /\ k \in Ships[v] /\ app'[k] # v
      BY <1>1, <3>2
    <3>4. ASSUME NEW f \in Ships[v], f < k PROVE app'[f] = v
      BY <1>1, <3>2, <3>3, <3>4, SMT DEF Files
    <3>5. ASSUME NEW f \in Ships[v], ~(f < k) PROVE app'[f] = Before[f]
      <4>1. CASE f \notin worker.done
        BY <1>1, <1>4, <4>1
      <4>2. CASE f \in worker.done
        <5>1. f # k => k < f
          BY <1>1, <3>3, <3>5, SMT DEF Files
        <5>2. f # k => app[k] = v /\ (syncs => durable[k] = {v})
          BY <3>3, <4>2, <5>1 DEF OrderInv, CertainInv
        <5>3. app'[k] \in durable[k]
          BY <3>3 DEF Cut
        <5>4. f = k
          BY <3>3, <5>2, <5>3
        <5> QED
          BY <1>4, <3>3, <5>4
      <4> QED
        BY <4>1, <4>2
    <3>6. \A f \in Files : app'[f] = IF f \in {g \in Ships[v] : g < k} THEN v ELSE Before[f]
      BY <1>4, <3>4, <3>5
    <3>7. app' = Transaction!With(v, {g \in Ships[v] : g < k}, Before)
      BY <1>1, <3>6, SMT DEF Transaction!With, Transaction!Files, Files
    <3>8. k \in Transaction!Files
      BY <3>3 DEF Transaction!Files, Files
    <3> QED
      BY <3>7, <3>8
  <2> QED
    BY <2>1, <2>2
<1>7. 1 \in Transaction!Files
  BY ShipsAssumption, SMT DEF Transaction!Files
<1> HIDE DEF v, S
<1>8. \E u \in Transaction!Versions, k \in Transaction!Files :
         \/ Before' = Transaction!With(u, {f \in Ships[u] : f < k}, Before)
         \/ Before' = Transaction!With(u, Ships[u], Before)
  BY <1>3, <1>5, <1>6, <1>7
<1>9. Transaction!PowerCut
  BY <1>2, <1>8, Zenon DEF Transaction!PowerCut
<1> QED
  BY <1>9, Zenon DEF TransactionStep, Transaction!Next

(* One that finds no replacement under way changes no file. *)
LEMMA QuietCutStep ==
  ASSUME TypeOK, TypeOK', OrderInv, ~Replacing, Cut, syncs \/ app' = app
  PROVE  TransactionStep
<1>1. /\ Mapped /\ Mapped' /\ ToldOf' /\ app \in [Files -> Contents] /\ app' \in [Files -> Contents]
  BY MappingIs, MappingNext, Replacement DEF Cut
<1>2. worker'.pc = "none" /\ snapshot' = Stage("Idle") /\ UNCHANGED <<broken, syncs>>
  BY CutIs
<1>3. ~Replacing' /\ ~Installing' /\ Told' = "nothing"
  BY <1>1, <1>2 DEF Installing, Replacing, ToldOf
<1>4. \A f \in Files : app'[f] = app[f]
  BY DEF Cut, OrderInv, CertainInv
<1>5. app' = app
  BY <1>1, <1>4, SMT
<1>6. CASE ~Installing
  BY <1>1, <1>2, <1>3, <1>5, <1>6, ForgetStep
<1>7. CASE Installing
  <2>1. Before \in [Files -> Contents] /\ Before' = Before
    BY <1>1, <1>3, <1>5 DEF Mapped
  <2>2. 1 \in Transaction!Files /\ 1 \in Transaction!Versions
    BY ShipsAssumption, SMT DEF Transaction!Files, Transaction!Versions
  <2>3. \A f \in Ships[1] : ~(f < 1)
    BY ShipsAssumption, SMT DEF Versions, Files
  <2>4. Before' = Transaction!With(1, {f \in Ships[1] : f < 1}, Before)
    BY <2>1, <2>3, SMT DEF Transaction!With, Transaction!Files, Files
  <2>5. Installing = TRUE /\ Installing' = FALSE /\ (~broken)' = ~broken /\ UNCHANGED syncs
    BY <1>1, <1>2, <1>3, <1>7 DEF Mapped
  <2>6. Transaction!PowerCut
    BY <1>3, <2>2, <2>4, <2>5, Zenon DEF Transaction!PowerCut
  <2> QED
    BY <2>6, Zenon DEF TransactionStep, Transaction!Next
<1> QED
  BY <1>6, <1>7

(* What an undo could not do is remembered by the worker only when it has happened. *)
FailedInv == worker.failed = TRUE => broken = TRUE

LEMMA FailedKept == TypeOK /\ FailedInv /\ [Next]_vars => FailedInv'
<1> SUFFICES ASSUME TypeOK, FailedInv, [Next]_vars PROVE FailedInv'
  OBVIOUS
<1>1. worker \in Worker
  BY Replacement
<1>2. CASE broken' = broken /\ worker'.failed \in {worker.failed, FALSE}
  BY <1>2 DEF FailedInv
<1>3. CASE broken' = TRUE
  BY <1>3 DEF FailedInv
<1>4. NoWorker.failed = FALSE
  BY SMT DEF NoWorker
<1>5. ASSUME NEW pc \in Pcs PROVE Moved(worker, pc).failed = worker.failed
  BY <1>1, MovedIs
<1>6. CASE UserStep \/ Publish \/ Cut \/ UNCHANGED vars
  <2>1. \/ UNCHANGED broken /\ (worker' = worker \/ worker' = Moved(NoWorker, "start"))
        \/ worker' = NoWorker /\ worker'.failed = FALSE
    BY <1>4, <1>6, Zenon DEF UserStep, Frame, CheckForUpdates, ConfirmInstall, Close, Closed, Publish, Cut, vars,
       diskVars, Moved
  <2>2. Moved(NoWorker, "start").failed = FALSE
    BY <1>4, MovedIs, NoWorkerIs DEF Pcs
  <2> QED
    BY <1>2, <2>1, <2>2 DEF FailedInv
<1>7. CASE \E f \in Files : Replace(f) \/ SyncFolder(f) \/ Undo(f)
  <2>1. PICK f \in Files : Replace(f) \/ SyncFolder(f) \/ Undo(f)
    BY <1>7
  <2>2. CASE Replace(f) \/ SyncFolder(f)
    <3>1. \/ \E pc \in Pcs : worker' = Moved(worker, pc)
          \/ worker' = Replaced(worker, worker.done \cup {f})
      BY <2>2, Zenon DEF Replace, SyncFolder, To, Moved, Replaced, Pcs
    <3>2. Replaced(worker, worker.done \cup {f}).failed = worker.failed
      BY <1>1, Zenon DEF Worker, Replaced
    <3>3. UNCHANGED broken
      BY <2>2, Zenon DEF Replace, SyncFolder
    <3> QED
      BY <1>2, <1>5, <3>1, <3>2, <3>3
  <2>3. CASE Undo(f)
    <3>1. Restored(worker, worker.done \ {f}).failed = worker.failed
      BY <1>1, Zenon DEF Worker, Restored
    <3>2. broken' = TRUE \/ (UNCHANGED broken /\ worker' = Restored(worker, worker.done \ {f}))
      BY <2>3, Zenon DEF Undo, Restored
    <3> QED
      BY <1>2, <1>3, <3>1, <3>2
  <2> QED
    BY <2>1, <2>2, <2>3
<1>8. CASE \/ Start \/ Fetch \/ AwaitConfirmation \/ DownloadBegin \/ Transfer \/ Verify
           \/ StageArchive("plan", "extract") \/ StageArchive("extract", "check")
           \/ StageArchive("check", "backup") \/ BackUpFiles \/ Undone \/ RemoveArchive \/ Exit
  <2>1. \/ \E pc \in Pcs : worker' = Moved(worker, pc)
        \/ worker' = NoWorker
        \/ worker' = Offered(worker, server)
        \/ worker' = Retried(worker)
        \/ worker' = BackedUp(worker, BackUp(worker.v))
    <3>1. \A how : Failed(how) => worker' = Moved(worker, "exit")
      BY Zenon DEF Failed, To, Moved
    <3>2. \A pc : To(pc) => worker' = Moved(worker, pc)
      BY Zenon DEF To, Moved
    <3>3. CASE Start \/ Fetch \/ AwaitConfirmation
      BY <3>1, <3>2, <3>3, Zenon DEF Start, Fetch, AwaitConfirmation, Offered, Pcs
    <3>4. CASE DownloadBegin \/ Transfer \/ Verify
      BY <3>1, <3>2, <3>4, Zenon DEF DownloadBegin, Transfer, Verify, Verifying, Retried, Pcs
    <3>5. CASE \/ StageArchive("plan", "extract") \/ StageArchive("extract", "check")
               \/ StageArchive("check", "backup") \/ BackUpFiles
      BY <3>1, <3>2, <3>5, Zenon DEF StageArchive, BackUpFiles, BackedUp, Pcs
    <3>6. CASE Undone \/ RemoveArchive \/ Exit
      BY <3>1, <3>2, <3>6, Zenon DEF Undone, RemoveArchive, Exit, Pcs
    <3> QED
      BY <1>8, <3>3, <3>4, <3>5, <3>6
  <2>2. /\ Offered(worker, server).failed = worker.failed /\ Retried(worker).failed = worker.failed
        /\ BackedUp(worker, BackUp(worker.v)).failed = worker.failed
    BY <1>1, Zenon DEF Worker, Offered, Retried, BackedUp
  <2>3. UNCHANGED broken
    BY <1>8, Zenon DEF Start, Fetch, AwaitConfirmation, DownloadBegin, Transfer, Verify, StageArchive,
       BackUpFiles, Undone, RemoveArchive, Exit, diskVars
  <2> QED
    BY <1>2, <1>4, <1>5, <2>1, <2>2, <2>3
<1> QED
  BY <1>6, <1>7, <1>8, Zenon DEF Next, WorkerStep

(* The steps, one by one. *)
LEMMA SameBefore ==
  ASSUME Mapped, Mapped', \A f \in Files : Base(f)' = Base(f)
  PROVE  Before' = Before
  BY SMT DEF Mapped

LEMMA OutsideStep ==
  ASSUME TypeOK, TypeOK', OrderInv, UserStep \/ Publish \/ Cut
  PROVE  TransactionStep
<1>1. Mapped /\ Mapped' /\ ToldOf'
  BY MappingIs, MappingNext
<1>2. CASE Frame \/ ConfirmInstall \/ Close \/ Publish
  <2>1. UNCHANGED <<app, broken, syncs, worker, snapshot>>
    BY <1>2, Zenon DEF Frame, ConfirmInstall, Close, Publish, diskVars
  <2>2. UNCHANGED <<Before, Installing, Told>>
    BY <2>1 DEF Before, Installing, Replacing, Told
  <2> QED
    BY <2>1, <2>2, UnseenStep
<1>3. CASE CheckForUpdates \/ Closed
  <2>1. /\ UNCHANGED <<app, broken, syncs>> /\ snapshot' = Stage("Idle") /\ worker.pc = "none"
        /\ worker' = worker \/ worker' = Moved(NoWorker, "start")
    BY <1>3, Zenon DEF CheckForUpdates, Closed, diskVars, Moved
  <2>2. ~Installing /\ ~Installing'
    BY <2>1, NoWorkerIs, MovedIs, "start" \in Pcs DEF Installing, Replacing, Pcs
  <2> QED
    BY <1>1, <2>1, <2>2, ForgetStep DEF ToldOf
<1>4. CASE Cut
  BY <1>4, CutStep, QuietCutStep, ScatterStep
<1> QED
  BY <1>2, <1>3, <1>4 DEF UserStep

(* Before the archive is verified and after the installation. *)
LEMMA AsideStep ==
  ASSUME TypeOK, TypeOK',
         Start \/ Fetch \/ AwaitConfirmation \/ DownloadBegin \/ Transfer \/ Verify \/ RemoveArchive \/ Exit
  PROVE  TransactionStep
<1>1. Mapped /\ Mapped' /\ ToldOf' /\ worker \in Worker
  BY MappingIs, MappingNext, Replacement
<1>2. UNCHANGED <<app, broken, syncs>> /\ ~Installing
  <2>1. UNCHANGED <<app, broken, syncs>>
    BY Zenon DEF Start, Fetch, AwaitConfirmation, DownloadBegin, Transfer, Verify, RemoveArchive, Exit, diskVars
  <2>2. worker.pc \in {"start", "fetch", "wait", "space", "transfer", "verify", "clean", "exit"}
    BY Zenon DEF Start, Fetch, AwaitConfirmation, DownloadBegin, Transfer, Verify, RemoveArchive, Exit, At
  <2> QED
    BY <2>1, <2>2 DEF Installing, Replacing
<1>3. \/ /\ \/ worker' = NoWorker
            \/ worker' = Offered(worker, server)
            \/ worker' = Retried(worker) /\ worker.pc = "transfer"
            \/ \E pc \in {"exit", "fetch", "space", "transfer", "verify"} : worker' = Moved(worker, pc)
         /\ \/ UNCHANGED snapshot
            \/ snapshot' = [stage |-> "Error", error |-> "none"]
            \/ \E s \in Stages \ {"ReadyToRestart"} : snapshot' = Stage(s)
      \/ snapshot' = Stage("Installing") /\ worker' = Moved(worker, "plan")
  <2>1. Failed("none") => snapshot' = [stage |-> "Error", error |-> "none"] /\ worker' = Moved(worker, "exit")
    BY Zenon DEF Failed, To, Moved
  <2>2. \A pc : To(pc) => worker' = Moved(worker, pc)
    BY Zenon DEF To, Moved
  <2>3. {"Checking", "UpToDate", "Available", "Downloading", "Verifying"} \subseteq Stages \ {"ReadyToRestart"}
    BY SMT DEF Stages
  <2>4. CASE Start \/ AwaitConfirmation
    BY <2>1, <2>2, <2>3, <2>4 DEF Start, AwaitConfirmation
  <2>5. CASE Fetch
    <3>1. \/ Failed("none")
          \/ snapshot' = Stage("UpToDate") /\ To("exit")
          \/ snapshot' = Stage("Available") /\ worker' = Offered(worker, server)
      BY <2>5, Zenon DEF Fetch, Offered
    <3> QED
      BY <2>1, <2>2, <2>3, <3>1
  <2>6. CASE DownloadBegin \/ Transfer
    BY <2>1, <2>2, <2>3, <2>6 DEF DownloadBegin, Transfer, Verifying, Retried, At
  <2>7. CASE Verify
    BY <2>1, <2>2, <2>3, <2>7 DEF Verify
  <2>8. CASE RemoveArchive \/ Exit
    <3>1. UNCHANGED snapshot /\ (worker' = Moved(worker, "exit") \/ worker' = NoWorker)
      BY <2>2, <2>8, Zenon DEF RemoveArchive, Exit
    <3> QED
      BY <3>1
  <2> QED
    BY <2>4, <2>5, <2>6, <2>7, <2>8
<1>4. CASE snapshot' = Stage("Installing") /\ worker' = Moved(worker, "plan")
  <2>1. worker'.pc = "plan"
    BY <1>1, <1>4, MovedIs DEF Pcs
  <2>2. Installing' /\ ~Replacing' /\ Told' = "nothing"
    BY <1>1, <1>4, <2>1 DEF Installing, Replacing, ToldOf
  <2> QED
    BY <1>1, <1>2, <2>2, BeginStep
<1>5. CASE /\ \/ worker' = NoWorker
              \/ worker' = Offered(worker, server)
              \/ worker' = Retried(worker) /\ worker.pc = "transfer"
              \/ \E pc \in {"exit", "fetch", "space", "transfer", "verify"} : worker' = Moved(worker, pc)
           /\ \/ UNCHANGED snapshot
              \/ snapshot' = [stage |-> "Error", error |-> "none"]
              \/ \E s \in Stages \ {"ReadyToRestart"} : snapshot' = Stage(s)
  <2>1. worker'.pc \in {"none", "wait", "exit", "fetch", "space", "transfer", "verify"}
    <3>1. Retried(worker).pc = worker.pc
      BY <1>1, Zenon DEF Worker, Retried
    <3>2. Offered(worker, server).pc = "wait"
      BY <1>1, OfferedIs, Replacement
    <3>3. \A pc \in {"exit", "fetch", "space", "transfer", "verify"} : Moved(worker, pc).pc = pc
      BY <1>1, MovedIs DEF Pcs
    <3> QED
      BY <1>5, <3>1, <3>2, <3>3, NoWorkerIs
  <2>2. ~Installing'
    BY <2>1 DEF Installing, Replacing
  <2>3. Told' \in {"nothing", Told}
    BY <1>1, <1>5 DEF ToldOf, Told
  <2> QED
    BY <1>1, <1>2, <2>2, <2>3, ForgetStep
<1> QED
  BY <1>3, <1>4, <1>5

(* From the archive to the copies. *)
LEMMA StageStep ==
  ASSUME TypeOK, TypeOK',
         \/ StageArchive("plan", "extract") \/ StageArchive("extract", "check")
         \/ StageArchive("check", "backup") \/ BackUpFiles
  PROVE  TransactionStep
<1>1. Mapped /\ Mapped' /\ ToldOf' /\ worker \in Worker /\ app \in [Files -> Contents]
      /\ Ships[worker.v] \subseteq Files
  BY MappingIs, MappingNext, Replacement
<1>2. UNCHANGED <<app, broken, syncs>> /\ worker.pc \in {"plan", "extract", "check", "backup"}
  BY Zenon DEF StageArchive, BackUpFiles, diskVars, At
<1>3. Installing /\ ~Replacing /\ Before = app
  BY <1>1, <1>2 DEF Installing, Replacing, Mapped
<1>4. CASE Failed("kept")
  <2>1. worker'.pc = "exit" /\ Told' = "kept"
    BY <1>1, <1>4, FailedIs, MovedIs DEF ToldOf, Pcs
  <2>2. ~Installing' /\ ~Replacing'
    BY <2>1 DEF Installing, Replacing
  <2> QED
    BY <1>1, <1>2, <1>3, <2>1, <2>2, KeepStep DEF Mapped
<1>5. CASE UNCHANGED snapshot /\ \E pc \in {"extract", "check", "backup"} : worker' = Moved(worker, pc)
  <2>1. worker'.pc \in {"extract", "check", "backup"}
    BY <1>1, <1>5, MovedIs DEF Pcs
  <2>2. Installing' /\ ~Replacing' /\ Told' = Told
    BY <1>5, <2>1 DEF Installing, Replacing, Told
  <2>3. Installing' = Installing /\ Before' = Before
    BY <1>1, <1>2, <1>3, <2>2 DEF Mapped
  <2> QED
    BY <1>2, <2>2, <2>3, UnseenStep
<1>6. CASE UNCHANGED snapshot /\ worker' = BackedUp(worker, BackUp(worker.v))
  <2>1. /\ worker'.pc = "replace" /\ worker'.v = worker.v /\ worker'.saved = BackUp(worker.v)
    BY <1>1, <1>6, BackedUpIs, BackUpIs
  <2>2. \A f \in Files : Base(f)' = Base(f)
    BY <1>1, <1>2, <1>3, <2>1 DEF Base, BackUp
  <2>3. Installing' /\ Told' = Told
    BY <1>6, <2>1 DEF Installing, Replacing, Told
  <2>4. Installing' = Installing
    BY <1>1, <1>3, <2>3 DEF Mapped
  <2> QED
    BY <1>1, <1>2, <2>2, <2>3, <2>4, SameBefore, UnseenStep
<1> QED
  BY <1>4, <1>5, <1>6, Zenon DEF StageArchive, BackUpFiles, To, Moved, BackedUp

(* The replacement and its undoing. *)
LEMMA ReplacementStep ==
  ASSUME TypeOK, TypeOK', FailedInv, broken = FALSE, BaseInv, OrderInv,
         Undone \/ \E f \in Files : Replace(f) \/ SyncFolder(f) \/ Undo(f)
  PROVE  TransactionStep
<1>1. /\ Mapped /\ Mapped' /\ ToldOf' /\ worker \in Worker /\ worker.done \in SUBSET Files
      /\ app \in [Files -> Contents]
  BY MappingIs, MappingNext, Replacement
<1>2. Replacing /\ Installing
  BY Zenon DEF Undone, Replace, SyncFolder, Undo, At, Replacing, Installing
<1>3. CASE Undone
  <2>1. /\ UNCHANGED <<app, broken, syncs>> /\ worker.done = {} /\ worker' = Moved(worker, "exit")
        /\ snapshot' = [stage |-> "Error", error |-> "kept"]
    <3>1. worker.failed = FALSE
      BY <1>1 DEF FailedInv, Worker
    <3> QED
      BY <1>3, <3>1, Zenon DEF Undone, Failed, To, Moved, diskVars
  <2>2. ~Installing' /\ ~Replacing' /\ Told' = "kept"
    BY <1>1, <2>1, MovedIs DEF Installing, Replacing, Pcs, ToldOf
  <2>3. \A f \in Files : Base(f)' = Base(f)
    BY <1>2, <2>1, <2>2 DEF OrderInv, CertainInv, Base
  <2> QED
    BY <1>1, <1>2, <2>1, <2>2, <2>3, SameBefore, KeepStep
<1>4. ASSUME NEW f \in Files, Replace(f) \/ SyncFolder(f) \/ Undo(f), Replacing', Same(worker, worker'),
             UNCHANGED snapshot
      PROVE  TransactionStep
  <2>1. f \in Ships[worker.v] \/ UNCHANGED app
    BY <1>2, <1>4 DEF OrderInv, CertainInv, Replace, SyncFolder, Undo
  <2>2. \A g \in Files : g \notin Ships[worker.v] => app'[g] = app[g]
    BY <1>1, <1>4, <2>1 DEF Replace, SyncFolder, Undo
  <2>3. Before' = Before
    BY <1>1, <1>2, <1>4, <2>2, BaseStays, SameBefore DEF Replace, SyncFolder, Undo, Same
  <2>4. Installing' /\ Installing' = Installing /\ Told' = Told
    BY <1>1, <1>2, <1>4 DEF Installing, Told, Mapped
  <2>5. (broken' = broken \/ broken' = TRUE) /\ UNCHANGED syncs
    BY <1>4, Zenon DEF Replace, SyncFolder, Undo
  <2> QED
    BY <1>2, <2>3, <2>4, <2>5, UnseenStep, RollbackFailsStep
<1>5. ASSUME NEW f \in Files, Replace(f) \/ SyncFolder(f) \/ Undo(f)
      PROVE  \/ Replacing' /\ Same(worker, worker') /\ UNCHANGED snapshot
             \/ /\ worker.done = Ships[worker.v] /\ UNCHANGED <<app, broken, syncs>>
                /\ snapshot' = Stage("ReadyToRestart") /\ worker' = Moved(worker, "clean")
  <2>1. /\ worker.done \cup {f} \in SUBSET Files /\ worker.done \ {f} \in SUBSET Files
    BY <1>1, <1>5
  <2>2. CASE Replace(f)
    <3>1. /\ UNCHANGED snapshot
          /\ worker' = Replaced(worker, worker.done \cup {f}) \/ worker' = Moved(worker, "undo")
      BY <2>2, Zenon DEF Replace, To, Moved, Replaced
    <3> QED
      BY <1>1, <2>1, <3>1, ReplacedIs, MovedIs DEF Replacing, Pcs
  <2>3. CASE SyncFolder(f)
    <3>1. \/ UNCHANGED snapshot /\ (worker' = Moved(worker, "replace") \/ worker' = Moved(worker, "undo"))
          \/ /\ worker.done = Ships[worker.v] /\ UNCHANGED <<app, broken, syncs>>
             /\ snapshot' = Stage("ReadyToRestart") /\ worker' = Moved(worker, "clean")
      BY <2>3, Zenon DEF SyncFolder, To, Moved
    <3> QED
      BY <1>1, <3>1, MovedIs DEF Replacing, Pcs
  <2>4. CASE Undo(f)
    <3>1. /\ UNCHANGED snapshot /\ worker.pc = "undo"
          /\ \/ worker' = Restored(worker, worker.done \ {f})
             \/ worker' = NotRestored(worker, worker.done \ {f})
      BY <2>4, Zenon DEF Undo, At, Restored, NotRestored
    <3> QED
      BY <1>1, <2>1, <3>1, RestoredIs DEF Replacing
  <2> QED
    BY <1>5, <2>2, <2>3, <2>4
<1>6. ASSUME worker.done = Ships[worker.v], UNCHANGED <<app, broken, syncs>>,
             snapshot' = Stage("ReadyToRestart"), worker' = Moved(worker, "clean")
      PROVE  TransactionStep
  <2>1. ~Installing'
    BY <1>1, <1>6, MovedIs DEF Installing, Replacing, Pcs
  <2> QED
    BY <1>2, <1>6, <2>1, CommitStep
<1> QED
  BY <1>3, <1>4, <1>5, <1>6

LEMMA StepRefines ==
  TypeOK /\ TypeOK' /\ FailedInv /\ DiskInv /\ [Next]_vars => TransactionStep
<1> SUFFICES ASSUME TypeOK, TypeOK', FailedInv, DiskInv, [Next]_vars PROVE TransactionStep
  OBVIOUS
<1>1. CASE UNCHANGED vars
  <2>1. UNCHANGED <<app, broken, syncs, worker, snapshot>>
    BY <1>1 DEF vars, diskVars
  <2>2. UNCHANGED <<Before, Installing, Told>>
    BY <2>1 DEF Before, Installing, Replacing, Told
  <2> QED
    BY <2>1, <2>2, UnseenStep
<1>2. CASE Next /\ broken = TRUE
  <2>1. broken' = TRUE /\ UNCHANGED syncs
    <3>1. CASE UserStep \/ Publish \/ Cut
      BY <1>2, <3>1, Zenon DEF UserStep, Frame, CheckForUpdates, ConfirmInstall, Close, Closed, Publish, Cut,
         diskVars
    <3>2. CASE WorkerStep
      BY <1>2, <3>2, Zenon DEF WorkerStep, Start, Fetch, AwaitConfirmation, DownloadBegin, Transfer, Verify,
         StageArchive, BackUpFiles, Replace, SyncFolder, Undo, Undone, RemoveArchive, Exit, diskVars
    <3> QED
      BY <1>2, <3>1, <3>2 DEF Next
  <2> QED
    BY <1>2, <2>1, MappingNext, AdriftStep
<1>3. CASE Next /\ broken = FALSE
  <2>1. BaseInv /\ OrderInv
    BY <1>3 DEF DiskInv
  <2>2. CASE UserStep \/ Publish \/ Cut
    BY <2>1, <2>2, OutsideStep
  <2>3. CASE WorkerStep
    BY <1>3, <2>1, <2>3, AsideStep, StageStep, ReplacementStep DEF WorkerStep
  <2> QED
    BY <1>3, <2>2, <2>3 DEF Next
<1>4. broken \in BOOLEAN
  BY TypeParts DEF Disk
<1> QED
  BY <1>1, <1>2, <1>3, <1>4

LEMMA InitRefines == Init => Transaction!Init
<1> SUFFICES ASSUME Init PROVE Transaction!Init
  OBVIOUS
<1>1. worker.pc = "none" /\ snapshot = Stage("Idle") /\ broken = FALSE /\ app = FirstInstall
  BY NoWorkerIs DEF Init
<1>2. Mapped /\ ToldOf
  BY InitTyped, MappingIs
<1>3. Installing = FALSE /\ Before = FirstInstall /\ Told = "nothing" /\ (~broken) = TRUE
  BY <1>1, <1>2 DEF Installing, Replacing, Mapped, ToldOf
<1>4. Transaction!FirstInstall = FirstInstall
  BY DEF Transaction!FirstInstall, FirstInstall, Transaction!With, With, Transaction!Files, Files
<1> QED
  BY <1>3, <1>4, InitTyped, TypeParts DEF Transaction!Init, Disk

(* An installation is a transaction, for every number of files and releases: every behaviour of *)
(* the updater is one of UpdateTransaction, so that whatever fails or is cut off, the files are  *)
(* those of the release or those of before and the user is told which; a power cut leaves the    *)
(* first files of the release; and only a rollback that fails itself, or a cut on a card that    *)
(* cannot sync a folder, leaves anything else.                                                   *)
THEOREM InstallsAsTransaction == Spec => AllOrNothing
<1>1. Init => FailedInv
  BY SMT DEF Init, NoWorker, FailedInv
<1>2. TypeOK /\ TypeOK' /\ FailedInv /\ DiskInv /\ [Next]_vars
        => [Transaction!Next]_(Transaction!transactionVars)
  BY StepRefines DEF TransactionStep
<1> QED
  BY <1>1, <1>2, InitTyped, NextTyped, InitInOrder, NextInOrder, FailedKept, InitRefines, PTL
  DEF Spec, AllOrNothing, Transaction!Spec
=============================================================================
