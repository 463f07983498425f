------------------------------ MODULE Updater ------------------------------
(***************************************************************************)
(* The over-the-air update: UpdateManager (src/src/update/                 *)
(* UpdateManager.cpp), whose worker thread checks, waits for the user's    *)
(* confirmation, downloads and verifies an archive, and installUpdate()    *)
(* (UpdateInstaller.cpp), which stages it and replaces the application's   *)
(* files one by one, the binary last, undoing what it did when a step      *)
(* fails.  The interface thread sees the stage a frame late.               *)
(*                                                                         *)
(* durable is what a power cut may leave of each file: a rename counts for *)
(* certain once its folder has been synced.  (copyFile() syncs contents    *)
(* before the rename.)  Some file systems, FAT among them, cannot sync a   *)
(* folder; fsyncDir() takes that for success, and no rename is certain.    *)
(***************************************************************************)
EXTENDS UpdateFiles

CONSTANTS MaxAttempts,                      \* transfers of one download (3 in the code)
          MaxChecks, MaxFaults, MaxCuts     \* bounds: checks, failing steps, power cuts

ASSUME AttemptsAssumption == {MaxAttempts, MaxChecks, MaxFaults, MaxCuts} \subseteq Nat

VARIABLES
    app,        \* the release each file in the application folder is of
    durable,    \* the releases each may be of after a power cut
    syncs,      \* whether the card's file system can sync a folder
    part,       \* update-download/: the partial archive of each release
    server,     \* the release on offer
    version,    \* VERSION_STR of the running program
    worker,     \* the worker thread
    snapshot,   \* m_snapshot: stage, and which way it failed
    shown,      \* m_updateSnapshot: the stage as of the last frame
    cancelled,  \* m_cancelled
    confirm,    \* m_confirmInstall
    closing,    \* the destructor is joining the worker
    asked,      \* history: the user has confirmed since the last check began
    broken,     \* history: a file could not be restored, or its restoring not synced, or a
                \* power cut has taken back a rename on a card that cannot sync a folder
    used        \* bound: checks, faults and cuts so far

diskVars == <<app, durable, syncs, part, broken>>
uiVars   == <<shown, cancelled, confirm, closing, asked>>
vars == <<diskVars, server, version, worker, snapshot, uiVars, used>>

(* update-download/: nothing, a beginning of the archive, all of it, or other bytes. *)
Parts  == {"none", "some", "whole", "wrong"}
Stages == {"Idle", "Checking", "UpToDate", "Available", "Downloading", "Verifying",
           "Installing", "ReadyToRestart", "Error"}

NoWorker == [pc |-> "none", v |-> 1, tries |-> 0, done |-> {},
             saved |-> [f \in Files |-> 0], failed |-> FALSE]
Stage(s) == [stage |-> s, error |-> "none"]

Init ==
    /\ app = FirstInstall
    /\ durable = [f \in Files |-> {app[f]}] /\ syncs \in BOOLEAN
    /\ part = [v \in Versions |-> "none"]
    /\ server = 1 /\ version = 1
    /\ worker = NoWorker
    /\ snapshot = Stage("Idle") /\ shown = "Idle"
    /\ cancelled = FALSE /\ confirm = FALSE /\ closing = FALSE
    /\ asked = FALSE /\ broken = FALSE
    /\ used = [checks |-> 0, faults |-> 0, cuts |-> 0]

Fault   == used.faults < MaxFaults /\ used' = [used EXCEPT !.faults = @ + 1]
NoFault == UNCHANGED used

(***************************************************************************)
(* The interface thread.                                                   *)
(***************************************************************************)
Frame ==
    /\ ~closing
    /\ shown' = snapshot.stage
    /\ UNCHANGED <<diskVars, server, version, worker, snapshot, cancelled, confirm, closing, asked,
                   used>>

ResetMutant == cancelled' = FALSE /\ UNCHANGED confirm   \* the last confirmation is still there
Reset       == cancelled' = FALSE /\ confirm' = FALSE

(* checkForUpdates(): nothing while a worker is busy. *)
CheckForUpdates ==
    /\ ~closing
    /\ shown \in {"Idle", "UpToDate", "Error"}
    /\ worker.pc = "none"
    /\ used.checks < MaxChecks
    /\ used' = [used EXCEPT !.checks = @ + 1]
    /\ worker' = [NoWorker EXCEPT !.pc = "start"]
    /\ snapshot' = Stage("Idle")
    /\ Reset
    /\ asked' = FALSE
    /\ UNCHANGED <<diskVars, server, version, shown, closing>>

ConfirmInstall ==
    /\ ~closing
    /\ shown = "Available"
    /\ confirm' = TRUE
    /\ asked' = TRUE
    /\ UNCHANGED <<diskVars, server, version, worker, snapshot, shown, cancelled, closing, used>>

(* ~HomeScreen and ~UpdateManager: cancel(), then the join. *)
Close ==
    /\ ~closing
    /\ closing' = TRUE
    /\ cancelled' = TRUE /\ confirm' = TRUE
    /\ UNCHANGED <<diskVars, server, version, worker, snapshot, shown, asked, used>>

(* The join returns: another home screen of this program, or the program started anew. *)
Closed ==
    /\ closing
    /\ worker.pc = "none"
    /\ version' \in {version, app[Binary]}
    /\ snapshot' = Stage("Idle") /\ shown' = "Idle"
    /\ cancelled' = FALSE /\ confirm' = FALSE /\ closing' = FALSE /\ asked' = FALSE
    /\ UNCHANGED <<diskVars, server, worker, used>>

(***************************************************************************)
(* The worker: check, confirmation, download, verification.                *)
(***************************************************************************)
At(pc)  == worker.pc = pc
To(pc)  == worker' = [worker EXCEPT !.pc = pc]
Failed(how) == snapshot' = [stage |-> "Error", error |-> how] /\ To("exit")

Start ==
    /\ At("start")
    /\ IF cancelled THEN Failed("none") ELSE snapshot' = Stage("Checking") /\ To("fetch")
    /\ UNCHANGED <<diskVars, server, version, uiVars, used>>

(* The manifest may be missing, malformed, or ask for a stepwise update. *)
Fetch ==
    /\ At("fetch")
    /\ \/ Fault /\ Failed("none")
       \/ NoFault /\ cancelled /\ Failed("none")
       \/ /\ NoFault /\ ~cancelled
          /\ server <= version
          /\ snapshot' = Stage("UpToDate") /\ To("exit")
       \/ /\ NoFault /\ ~cancelled
          /\ server > version
          /\ snapshot' = Stage("Available")
          /\ worker' = [worker EXCEPT !.pc = "wait", !.v = server]
    /\ UNCHANGED <<diskVars, server, version, uiVars>>

WokenMutant == confirm /\ ~cancelled   \* a cancellation does not end the wait
Woken       == confirm \/ cancelled

AwaitConfirmation ==
    /\ At("wait")
    /\ Woken
    /\ IF cancelled THEN Failed("none") /\ UNCHANGED confirm
       ELSE confirm' = FALSE /\ snapshot' = Stage("Downloading") /\ To("space")
    /\ UNCHANGED <<diskVars, server, version, shown, cancelled, closing, asked, used>>

Verifying == snapshot' = Stage("Verifying") /\ To("verify")

(* The card may be full; a partial archive of the right size is taken as it is. *)
DownloadBegin ==
    /\ At("space")
    /\ \/ Fault /\ Failed("none")
       \/ NoFault /\ part[worker.v] \in {"whole", "wrong"} /\ Verifying
       \/ NoFault /\ part[worker.v] # "whole" /\ To("transfer") /\ UNCHANGED snapshot
    /\ UNCHANGED <<diskVars, server, version, uiVars>>

(* downloadToFile() with a resume point.  A server may ignore the range: the file is then       *)
(* truncated and read again, but if the connection breaks first the new bytes stand after the   *)
(* old ones.                                                                                    *)
Received(p) == IF p = "wrong" THEN {"wrong", "whole"} ELSE {"whole"}
Interrupted(p) ==
    CASE p = "none"  -> {"none", "some", "whole"}
      [] p = "some"  -> {"some", "whole", "wrong", "none"}
      [] p = "whole" -> {"whole", "none"}
      [] p = "wrong" -> {"wrong", "some", "none"}

TriesLeftMutant == worker.tries <= MaxAttempts   \* one too many
TriesLeft       == worker.tries < MaxAttempts

Transfer ==
    /\ At("transfer")
    /\ LET v == worker.v IN
       \/ /\ NoFault
          /\ cancelled \/ ~TriesLeft
          /\ Failed("none") /\ UNCHANGED part
       \/ /\ NoFault /\ TriesLeft /\ ~cancelled
          /\ \E p \in Received(part[v]) : part' = [part EXCEPT ![v] = p]
          /\ Verifying
       \/ /\ (NoFault /\ cancelled) \/ Fault
          /\ TriesLeft
          /\ \E p \in Interrupted(part[v]) : part' = [part EXCEPT ![v] = p]
          /\ IF cancelled THEN Failed("none")
             ELSE worker' = [worker EXCEPT !.tries = @ + 1] /\ UNCHANGED snapshot
    /\ UNCHANGED <<app, durable, syncs, broken, server, version, uiVars>>

(* What does not match is removed; a cancelled or failed reading leaves it for the next time. *)
Verify ==
    /\ At("verify")
    /\ \/ Fault /\ Failed("none") /\ UNCHANGED part
       \/ NoFault /\ cancelled /\ Failed("none") /\ UNCHANGED part
       \/ /\ NoFault
          /\ part[worker.v] # "whole"
          /\ part' = [part EXCEPT ![worker.v] = "none"]
          /\ Failed("none")
       \/ /\ NoFault /\ ~cancelled
          /\ part[worker.v] = "whole"
          /\ snapshot' = Stage("Installing") /\ To("plan")
          /\ UNCHANGED part
    /\ UNCHANGED <<app, durable, syncs, broken, server, version, uiVars>>

(***************************************************************************)
(* installUpdate().                                                        *)
(***************************************************************************)
(* The listing and the plan, the extraction, the look at the binary: an archive may be refused  *)
(* at each, and each ends with a look at the cancellation.                                      *)
StageArchive(from, to) ==
    /\ At(from)
    /\ \/ Fault /\ Failed("kept")
       \/ NoFault /\ cancelled /\ Failed("kept")
       \/ NoFault /\ ~cancelled /\ To(to) /\ UNCHANGED snapshot
    /\ UNCHANGED <<diskVars, server, version, uiVars>>

BackUpMutant(v) == [f \in Files |-> IF f = Binary THEN app[f] ELSE 0]   \* the binary only
BackUp(v)       == [f \in Files |-> IF f \in Ships[v] THEN app[f] ELSE 0]

(* From here on a cancellation is ignored. *)
BackUpFiles ==
    /\ At("backup")
    /\ \/ Fault /\ Failed("kept")
       \/ /\ NoFault
          /\ worker' = [worker EXCEPT !.pc = "replace", !.saved = BackUp(worker.v)]
          /\ UNCHANGED snapshot
    /\ UNCHANGED <<diskVars, server, version, uiVars>>

InOrder(f)    == \A g \in Ships[worker.v] \ worker.done : f <= g
NewestMutant(f) == \A g \in worker.done : f <= g   \* the oldest
Newest(f)     == \A g \in worker.done : g <= f

Replace(f) ==
    /\ At("replace")
    /\ f \in Ships[worker.v] \ worker.done /\ InOrder(f)
    /\ \/ /\ NoFault
          /\ app' = [app EXCEPT ![f] = worker.v]
          /\ durable' = [durable EXCEPT ![f] = @ \cup {worker.v}]
          /\ worker' = [worker EXCEPT !.pc = "sync", !.done = @ \cup {f}]
       \/ /\ Fault
          /\ To("undo")
          /\ UNCHANGED <<app, durable>>
    /\ UNCHANGED <<syncs, part, broken, server, version, snapshot, uiVars>>

(* fsyncDir() has returned true. *)
Synced(f, v)  == durable' = [durable EXCEPT ![f] = IF syncs THEN {v} ELSE @ \cup {v}]

SyncFolder(f) ==
    /\ At("sync")
    /\ f \in worker.done /\ Newest(f)
    /\ \/ /\ NoFault
          /\ Synced(f, worker.v)
          /\ IF worker.done = Ships[worker.v]
             THEN snapshot' = Stage("ReadyToRestart") /\ To("clean")
             ELSE To("replace") /\ UNCHANGED snapshot
       \/ /\ Fault
          /\ To("undo")
          /\ UNCHANGED <<durable, snapshot>>
    /\ UNCHANGED <<app, syncs, part, broken, server, version, uiVars>>

(* rollback(): newest first; what cannot be undone is told, the folder's sync is not looked at. *)
Undo(f) ==
    /\ At("undo")
    /\ f \in worker.done /\ Newest(f)
    /\ LET old == worker.saved[f] IN
       \/ /\ NoFault
          /\ app' = [app EXCEPT ![f] = old]
          /\ Synced(f, old)
          /\ worker' = [worker EXCEPT !.done = @ \ {f}]
          /\ UNCHANGED broken
       \/ /\ Fault
          /\ app' = [app EXCEPT ![f] = old]
          /\ durable' = [durable EXCEPT ![f] = @ \cup {old}]
          /\ worker' = [worker EXCEPT !.done = @ \ {f}]
          /\ broken' = TRUE
       \/ /\ Fault
          /\ worker' = [worker EXCEPT !.done = @ \ {f}, !.failed = TRUE]
          /\ broken' = TRUE
          /\ UNCHANGED <<app, durable>>
    /\ UNCHANGED <<syncs, part, server, version, snapshot, uiVars>>

Undone ==
    /\ At("undo")
    /\ worker.done = {}
    /\ Failed(IF worker.failed THEN "incomplete" ELSE "kept")
    /\ UNCHANGED <<diskVars, server, version, uiVars, used>>

RemoveArchive ==
    /\ At("clean")
    /\ part' = [part EXCEPT ![worker.v] = "none"]
    /\ To("exit")
    /\ UNCHANGED <<app, durable, syncs, broken, server, version, snapshot, uiVars, used>>

Exit ==
    /\ At("exit")
    /\ worker' = NoWorker
    /\ UNCHANGED <<diskVars, server, version, snapshot, uiVars, used>>

WorkerStep ==
    \/ Start \/ Fetch \/ AwaitConfirmation
    \/ DownloadBegin \/ Transfer \/ Verify
    \/ StageArchive("plan", "extract") \/ StageArchive("extract", "check")
    \/ StageArchive("check", "backup") \/ BackUpFiles
    \/ \E f \in Files : Replace(f) \/ SyncFolder(f) \/ Undo(f)
    \/ Undone \/ RemoveArchive \/ Exit

(***************************************************************************)
(* The environment.                                                        *)
(***************************************************************************)
(* A newer release; one that is on offer is not withdrawn. *)
Publish ==
    /\ server < LastVersion
    /\ server' = server + 1
    /\ UNCHANGED <<diskVars, version, worker, snapshot, uiVars, used>>

(* The power goes; the program is started again from what the card holds. *)
Cut ==
    /\ used.cuts < MaxCuts
    /\ used' = [used EXCEPT !.cuts = @ + 1]
    /\ app' \in {g \in [Files -> Contents] : \A f \in Files : g[f] \in durable[f]}
    /\ durable' = [f \in Files |-> {app'[f]}]
    /\ broken' = (broken \/ (~syncs /\ app' # app))
    /\ \E p \in IF At("transfer") THEN {part[worker.v], "some", "wrong"} ELSE {part[worker.v]} :
          part' = [part EXCEPT ![worker.v] = p]
    /\ version' = app'[Binary]
    /\ worker' = NoWorker
    /\ snapshot' = Stage("Idle") /\ shown' = "Idle"
    /\ cancelled' = FALSE /\ confirm' = FALSE /\ closing' = FALSE /\ asked' = FALSE
    /\ UNCHANGED <<syncs, server>>

UserStep == Frame \/ CheckForUpdates \/ ConfirmInstall \/ Close \/ Closed

Next == WorkerStep \/ UserStep \/ Publish \/ Cut

Spec == Init /\ [][Next]_vars

(* The worker thread is scheduled and the join of a destructor returns when it is over; *)
(* nothing is assumed of the user or the server.                                        *)
FairSpec == Spec /\ WF_vars(WorkerStep) /\ WF_vars(Closed)

(***************************************************************************)
(* Properties.                                                             *)
(***************************************************************************)
Pcs == {"none", "start", "fetch", "wait", "space", "transfer", "verify", "plan", "extract", "check",
        "backup", "replace", "sync", "undo", "clean", "exit"}
Worker == [pc : Pcs, v : Versions, tries : 0 .. MaxAttempts, done : SUBSET Files,
           saved : [Files -> Contents], failed : BOOLEAN]

(* The type of every variable. *)
TypeOK ==
    /\ app \in [Files -> Contents]
    /\ durable \in [Files -> SUBSET Contents]
    /\ part \in [Versions -> Parts]
    /\ server \in Versions /\ version \in Contents
    /\ worker \in Worker
    /\ snapshot \in [stage : Stages, error : {"none", "kept", "incomplete"}]
    /\ shown \in Stages
    /\ {cancelled, confirm, closing, asked, broken, syncs} \subseteq BOOLEAN

(* "replacing miyoofin LAST" (UpdateInstaller.hpp:44-45): whenever the program is started, after  *)
(* a power cut at any step of any installation or rollback too, no file its release came with is  *)
(* older than the binary, unless an undo step of a rollback has failed or the card cannot sync a  *)
(* folder (fsyncDir(), UpdateInstaller.cpp:526-541) and a cut has taken back a rename there.      *)
NeverBehind ==
    ~broken => \A f \in Ships[app[Binary]] : app[f] >= app[Binary]

(* An installation is a transaction (UpdateTransaction): all the files of the release, or all     *)
(* those of before, and the user is told which; a power cut leaves the first files of the         *)
(* release, and only a rollback that fails or a cut on a card that cannot sync a folder, anything *)
(* else.                                                                                          *)
Replacing  == worker.pc \in {"replace", "sync", "undo"}
Installing == Replacing \/ worker.pc \in {"plan", "extract", "check", "backup"}

Before == [f \in Files |-> IF Replacing /\ f \in Ships[worker.v] THEN worker.saved[f] ELSE app[f]]

Told == IF snapshot.stage = "ReadyToRestart" THEN "installed"
        ELSE IF snapshot.error = "none" THEN "nothing" ELSE snapshot.error

Transaction == INSTANCE UpdateTransaction WITH
    files <- Before, open <- Installing, told <- Told, whole <- ~broken, keeps <- syncs

AllOrNothing == Transaction!Spec

(* Nothing is downloaded that the user has not confirmed since this check began ("If a newer      *)
(* version is found the worker pauses at Available until confirmInstall() is called",             *)
(* UpdateManager.hpp:89-90), although the interface sees stages a frame late and a confirmation   *)
(* or cancellation of an earlier check leaves its flag raised.                                    *)
Confirmed ==
    [][snapshot'.stage = "Downloading" /\ snapshot.stage # "Downloading" => asked]_vars

(* The interface thread, joining the worker in a destructor, is never held for good.              *)
JoinReturns == closing ~> ~closing
=============================================================================
