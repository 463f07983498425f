------------------------- MODULE LibraryKeptProofs -------------------------
(***************************************************************************)
(* Proofs about HomeLibrary: what the library keeps.                       *)
(*                                                                         *)
(* Three results, for every number of items, fetches, screens, faults and  *)
(* queued requests: the state keeps its types (AlwaysTypeOK), no change of *)
(* the server is lost on its way to the catalog unless it is one of the    *)
(* named exceptions (AlwaysAccounted), and the slot is never lost          *)
(* (AlwaysSlotHeld).  Each rests on an invariant of its own (Typed,        *)
(* AccountInv, HeldInv); the facts about what an action does to one part   *)
(* of the state are stated once, ahead of them.                            *)
(***************************************************************************)
EXTENDS HomeLibraryProofs

(***************************************************************************)
(* The types of the state.                                                 *)
(***************************************************************************)
Outs == {"none", "ok", "failed", "cancelled"}
Pcs  == Interruptible \cup {"none", "join", "mark", "walked", "publish"}

RunRecord  == [pc : Pcs, got : SUBSET Items, todo : SUBSET Items, g : Nat, mode : Modes, out : Outs]
Disk       == [succ : BOOLEAN, rec : BOOLEAN, gen : Nat]
Publication == [id : Nat, kind : {"Home", "Screen"}, terminal : BOOLEAN]
Hierarchy  == [queue : Seq(Request), active : Request \cup {NoRequest},
               pc : {"idle", "walk", "mark", "end"}, accepted : SUBSET Request,
               results : Seq(Publication), tokens : SUBSET Nat, next : Nat]
Fetch      == [pc : {"idle", "begun", "spawn", "wait", "ask", "launch", "consume", "done"},
               cancel : BOOLEAN, off : BOOLEAN, mode : Modes, failed : BOOLEAN, force : BOOLEAN,
               g : Nat]
Home       == [phase : {"open", "closing", "closed"}, wanted : BOOLEAN, offline : BOOLEAN, task : Nat,
               safety : BOOLEAN, screens : SUBSET Nat, snapshot : BOOLEAN]

SlotTyped ==
    /\ op \in {Free} \cup [kind : Kinds, phase : Phases]
    /\ stopped \in BOOLEAN
CatalogTyped ==
    /\ gen \in Nat /\ disk \in Disk /\ txn \in Workers \cup {"None"}
    /\ missed \subseteq Items /\ hidden \subseteq missed /\ excused \subseteq Items
EventTyped ==
    /\ linked \in BOOLEAN /\ barrier \in BOOLEAN
    /\ source \in Ticket /\ queue \in Ticket /\ batch \in Ticket
ResultTyped ==
    /\ startup \in [mode : Modes, out : Outs]
    /\ updates \in Seq(Outs \cup {"page"})
    /\ ready \subseteq {"SafetyReconcile", "LiveChange"}
    /\ cancelled \subseteq Workers
RunTyped  == run \in [Workers -> RunRecord]
HierTyped == hier \in Hierarchy /\ (hier.pc # "idle" => hier.active \in Request)
HomeTyped == fetch \in Fetch /\ home \in Home

Typed == SlotTyped /\ CatalogTyped /\ EventTyped /\ ResultTyped /\ RunTyped /\ HierTyped /\ HomeTyped

(***************************************************************************)
(* What the steps do to the state of a worker.                             *)
(***************************************************************************)
(* f is run but for the worker w. *)
Alone(f, w) == f \in [Workers -> RunRecord] /\ \A v \in Workers \ {w} : f[v] = run[v]

LEMMA Replaced ==
  ASSUME RunTyped, NEW w \in Workers, NEW r \in RunRecord, NEW f, f = [run EXCEPT ![w] = r]
  PROVE  Alone(f, w) /\ f[w] = r
  BY DEF RunTyped, Alone

LEMMA Idle ==
  /\ IdleRun \in RunRecord
  /\ IdleRun.pc = "none" /\ IdleRun.got = {} /\ IdleRun.todo = {} /\ IdleRun.g = 0
  /\ IdleRun.mode = "FullReconcile" /\ IdleRun.out = "none"
  BY DEF IdleRun, RunRecord, Pcs, Modes, Outs

LEMMA IdleAt ==
  ASSUME NEW pc \in Pcs
  PROVE  /\ [IdleRun EXCEPT !.pc = pc] \in RunRecord
         /\ [IdleRun EXCEPT !.pc = pc].pc = pc
         /\ [IdleRun EXCEPT !.pc = pc].mode = "FullReconcile"
         /\ [IdleRun EXCEPT !.pc = pc].out = "none"
         /\ [IdleRun EXCEPT !.pc = pc].got = {}
         /\ [IdleRun EXCEPT !.pc = pc].todo = {}
  BY Idle DEF RunRecord

LEMMA EndedFacts ==
  ASSUME RunTyped, NEW w \in Workers, NEW out \in Outs, NEW f, f = Ended(w, out)
  PROVE  /\ Alone(f, w)
         /\ f[w].pc = "publish" /\ f[w].out = out
         /\ f[w].mode = run[w].mode /\ f[w].got = run[w].got /\ f[w].todo = run[w].todo
         /\ f[w].g = run[w].g
  BY DEF Ended, RunTyped, Alone, RunRecord, Pcs

LEMMA GotoFacts ==
  ASSUME RunTyped, NEW w \in Workers, NEW pc \in Pcs, NEW f, f = Goto(w, pc)
  PROVE  /\ Alone(f, w)
         /\ f[w].pc = pc /\ f[w].out = run[w].out
         /\ f[w].mode = run[w].mode /\ f[w].got = run[w].got /\ f[w].todo = run[w].todo
         /\ f[w].g = run[w].g
  BY DEF Goto, RunTyped, Alone, RunRecord

Dated(w, pc, g) == [run EXCEPT ![w].pc = pc, ![w].g = g]
Found(w, pc, got) == [run EXCEPT ![w].got = got, ![w].pc = pc]

LEMMA DatedFacts ==
  ASSUME RunTyped, NEW w \in Workers, NEW pc \in Pcs, NEW g \in Nat, NEW f, f = Dated(w, pc, g)
  PROVE  /\ Alone(f, w)
         /\ f[w].pc = pc /\ f[w].g = g /\ f[w].out = run[w].out
         /\ f[w].mode = run[w].mode /\ f[w].got = run[w].got /\ f[w].todo = run[w].todo
  BY DEF Dated, RunTyped, Alone, RunRecord

LEMMA FoundFacts ==
  ASSUME RunTyped, NEW w \in Workers, NEW pc \in Pcs, NEW got \in SUBSET Items, NEW f,
         f = Found(w, pc, got)
  PROVE  /\ Alone(f, w)
         /\ f[w].pc = pc /\ f[w].got = got /\ f[w].out = run[w].out /\ f[w].mode = run[w].mode
  BY DEF Found, RunTyped, Alone, RunRecord

LEMMA Generations ==
  ASSUME NEW a \in Nat, NEW b \in Nat
  PROVE  AtLeast(a, b) \in Nat /\ After(a) \in Nat
  BY LimitAssumption DEF AtLeast, After

LEMMA GiveUpFacts ==
  ASSUME RunTyped, NEW w \in Workers, GiveUp(w)
  PROVE  /\ Alone(run', w) /\ run'[w].pc = "publish" /\ run'[w].out \in {"failed", "cancelled"}
         /\ run'[w].mode = run[w].mode
         /\ txn' \in {txn, "None"}
<1>1. PICK out \in {"failed", "cancelled"} : run' = Ended(w, out)
  BY DEF GiveUp
<1>2. out \in Outs
  BY DEF Outs
<1>3. txn' \in {txn, "None"}
  BY DEF GiveUp
<1>. QED
  BY <1>1, <1>2, <1>3, EndedFacts

LEMMA ReadStartupFacts ==
  ASSUME RunTyped, gen \in Nat, disk \in Disk, ReadStartup
  PROVE  /\ Alone(run', "Startup") /\ gen' \in Nat
         /\ run'["Startup"].pc \in {"publish", "fetch"}
         /\ run'["Startup"].out # "none" \/ run'["Startup"].pc = "fetch"
         /\ run'["Startup"].pc = "fetch" => disk.succ
         /\ run'["Startup"].mode \notin {"FullReconcile", run["Startup"].mode} => disk.succ
<1>. DEFINE w == "Startup"
<1>0. w \in Workers /\ run["Startup"].pc = "read"
  BY DEF Workers, ReadStartup
<1>1. \A m \in Policies : m \in Modes /\ (m # "FullReconcile" => disk.succ)
  BY DEF Policies, Modes, Disk
<1>2. CASE run' = Ended(w, "ok") /\ UNCHANGED gen
  BY <1>0, <1>2, EndedFacts DEF Outs
<1>3. ASSUME NEW m \in Policies, NEW out \in {"ok", "cancelled"},
             run' = [Ended(w, out) EXCEPT ![w].mode = m], gen' \in Nat
      PROVE  /\ Alone(run', w) /\ run'[w].pc = "publish" /\ run'[w].out = out /\ run'[w].mode = m
  <2>. DEFINE f == Ended(w, out)
  <2>1. Alone(f, w) /\ f[w].pc = "publish" /\ f[w].out = out
    BY <1>0, EndedFacts DEF Outs
  <2>2. m \in Modes /\ run' = [f EXCEPT ![w].mode = m]
    BY <1>1, <1>3
  <2>. HIDE DEF f, w
  <2>. QED
    BY <1>0, <2>1, <2>2 DEF Alone, RunRecord
<1>4. ASSUME NEW g \in Nat, run' = [run EXCEPT ![w].pc = "fetch", ![w].mode = "DeltaCatchUp", ![w].g = g]
      PROVE  Alone(run', w) /\ run'[w].pc = "fetch" /\ run'[w].mode = "DeltaCatchUp"
  <2>. HIDE DEF w
  <2>. DEFINE pc == "fetch"
              m  == "DeltaCatchUp"
  <2>1. pc \in Pcs /\ m \in Modes /\ run' = [run EXCEPT ![w].pc = pc, ![w].mode = m, ![w].g = g]
    BY <1>4 DEF Pcs, Interruptible, Modes
  <2>. HIDE DEF pc, m
  <2>2. Alone(run', w) /\ run'[w].pc = pc /\ run'[w].mode = m
    BY <1>0, <2>1 DEF Alone, RunTyped, RunRecord
  <2>. QED
    BY <2>2 DEF pc, m
<1>5. CASE \E m \in Policies : run' = [Ended(w, "cancelled") EXCEPT ![w].mode = m] /\ UNCHANGED gen
  BY <1>1, <1>3, <1>5
<1>6. CASE gen' = AtLeast(gen, disk.gen) /\ \E m \in Policies :
                run' = IF m = "DeltaCatchUp"
                       THEN [run EXCEPT ![w].pc = "fetch", ![w].mode = m, ![w].g = After(gen')]
                       ELSE [Ended(w, "ok") EXCEPT ![w].mode = m]
  <2>1. gen' \in Nat /\ After(gen') \in Nat
    BY <1>6, Generations DEF Disk
  <2>2. PICK m \in Policies :
                run' = IF m = "DeltaCatchUp"
                       THEN [run EXCEPT ![w].pc = "fetch", ![w].mode = m, ![w].g = After(gen')]
                       ELSE [Ended(w, "ok") EXCEPT ![w].mode = m]
    BY <1>6
  <2>3. CASE m = "DeltaCatchUp"
    BY <1>1, <1>4, <2>1, <2>2, <2>3
  <2>4. CASE m # "DeltaCatchUp"
    BY <1>1, <1>3, <2>1, <2>2, <2>4
  <2>. QED
    BY <2>3, <2>4
<1>. QED
  BY <1>2, <1>5, <1>6, Zenon DEF ReadStartup

LEMMA ReadStateFacts ==
  ASSUME RunTyped, gen \in Nat, disk \in Disk, NEW w \in Workers, ReadState(w)
  PROVE  /\ Alone(run', w) /\ gen' \in Nat
         /\ run'[w].pc \in {"fetch", "begin"} /\ (run'[w].pc = "fetch" => disk.succ)
         /\ run'[w].mode = run[w].mode /\ run'[w].out = run[w].out
<1>1. gen' \in Nat /\ After(gen') \in Nat
  BY Generations DEF ReadState, Disk
<1>2. PICK pc : /\ run' = [run EXCEPT ![w].pc = pc, ![w].g = After(gen')]
                /\ pc = IF disk.succ THEN "fetch" ELSE "begin"
  BY DEF ReadState
<1>3. pc \in Pcs /\ pc \in {"fetch", "begin"} /\ (pc = "fetch" => disk.succ)
  BY <1>2 DEF Pcs, Interruptible
<1>4. PICK g \in Nat : run' = Dated(w, pc, g)
  BY <1>1, <1>2 DEF Dated
<1>5. /\ Alone(run', w) /\ run'[w].pc = pc
      /\ run'[w].mode = run[w].mode /\ run'[w].out = run[w].out
  BY <1>3, <1>4, DatedFacts
<1>. QED
  BY <1>1, <1>3, <1>5

LEMMA CatchUpFacts ==
  ASSUME RunTyped, CatalogTyped, NEW w \in Workers,
         CatchUpFetch(w) \/ CatchUpWrite(w) \/ CatchUpMark(w)
  PROVE  /\ Alone(run', w) /\ run'[w].mode = run[w].mode
         /\ CatchUpFetch(w) => run'[w].pc \in {"mark", "write"}
         /\ CatchUpWrite(w) => run'[w].pc = "mark"
         /\ CatchUpMark(w) =>
               \/ run'[w].pc = "publish" /\ run'[w].out = "failed"
               \/ run'[w].pc = "publish" /\ run'[w].out = "ok" /\ w = "Startup"
               \/ run'[w].pc \in {"get", "begin"}
<1>1. CASE CatchUpFetch(w)
  <2>0. missed \ hidden \in SUBSET Items
    BY DEF CatalogTyped
  <2>1. PICK pc \in {"mark", "write"}, got \in SUBSET Items : run' = Found(w, pc, got)
    BY <1>1, <2>0 DEF CatchUpFetch, Found
  <2>2. pc \in Pcs
    BY DEF Pcs, Interruptible
  <2>3. Alone(run', w) /\ run'[w].pc = pc /\ run'[w].mode = run[w].mode
    BY <2>1, <2>2, FoundFacts
  <2>4. run[w].pc = "fetch"
    BY <1>1 DEF CatchUpFetch
  <2>. QED
    BY <2>3, <2>4 DEF CatchUpWrite, CatchUpMark
<1>2. CASE CatchUpWrite(w)
  <2>1. run[w].pc = "write" /\ Alone(run', w) /\ run'[w].mode = run[w].mode /\ run'[w].pc = "mark"
    BY <1>2, GotoFacts DEF CatchUpWrite, Pcs
  <2>. QED
    BY <2>1 DEF CatchUpFetch, CatchUpMark
<1>3. CASE CatchUpMark(w)
  <2>0. run[w].pc = "mark"
    BY <1>3 DEF CatchUpMark
  <2>1. CASE run' = Ended(w, "failed") \/ (run' = Ended(w, "ok") /\ w = "Startup")
    BY <2>0, <2>1, EndedFacts DEF Outs, CatchUpFetch, CatchUpWrite
  <2>2. CASE \E pc \in {"get", "begin"} : run' = Goto(w, pc)
    BY <2>0, <2>2, GotoFacts DEF Pcs, Interruptible, CatchUpFetch, CatchUpWrite
  <2>. QED
    BY <1>3, <2>1, <2>2 DEF CatchUpMark, AfterCatchUp
<1>. QED
  BY <1>1, <1>2, <1>3

LEMMA WalkFacts ==
  ASSUME RunTyped, NEW w \in Workers,
         WalkBegin(w) \/ WalkPage(w) \/ WalkFinalize(w) \/ WalkMark(w)
  PROVE  /\ Alone(run', w) /\ run'[w].mode = run[w].mode
         /\ WalkBegin(w) => run'[w].pc = "page" /\ run'[w].todo = Items
         /\ WalkPage(w) => \E i \in run[w].todo :
               /\ Stored({i}) /\ run'[w].todo = run[w].todo \ {i}
               /\ run'[w].pc = IF run[w].todo = {i} THEN "final" ELSE "page"
         /\ WalkFinalize(w) =>
               \/ run'[w].pc = "publish" /\ run'[w].out = "failed"
               \/ run'[w].pc = "walked"
         /\ WalkMark(w) =>
               \/ /\ run'[w].pc = "publish" /\ run'[w].out \in {"ok", "failed"}
                  /\ w = "LiveChange" => run'[w].out = "failed"
               \/ run'[w].pc = "get" /\ w = "LiveChange"
<1>1. CASE WalkBegin(w)
  <2>1. run' = [run EXCEPT ![w].pc = "page", ![w].todo = Items] /\ run[w].pc = "begin"
    BY <1>1 DEF WalkBegin
  <2>2. Alone(run', w) /\ run'[w].mode = run[w].mode /\ run'[w].pc = "page" /\ run'[w].todo = Items
    BY <2>1 DEF Alone, RunTyped, RunRecord, Pcs, Interruptible
  <2>. QED
    BY <2>1, <2>2 DEF WalkPage, WalkFinalize, WalkMark
<1>2. CASE WalkPage(w)
  <2>1. PICK i \in run[w].todo :
          /\ Stored({i})
          /\ run' = [run EXCEPT ![w].todo = @ \ {i},
                                ![w].pc = IF run[w].todo = {i} THEN "final" ELSE "page"]
    BY <1>2 DEF WalkPage
  <2>2. /\ Alone(run', w) /\ run'[w].mode = run[w].mode /\ run'[w].todo = run[w].todo \ {i}
        /\ run'[w].pc = IF run[w].todo = {i} THEN "final" ELSE "page"
    BY <2>1 DEF Alone, RunTyped, RunRecord, Pcs, Interruptible
  <2>3. run[w].pc = "page"
    BY <1>2 DEF WalkPage
  <2>. QED
    BY <2>1, <2>2, <2>3 DEF WalkBegin, WalkFinalize, WalkMark
<1>3. CASE WalkFinalize(w)
  <2>0. run[w].pc = "final"
    BY <1>3 DEF WalkFinalize
  <2>1. CASE run' = Ended(w, "failed")
    BY <2>0, <2>1, EndedFacts DEF Outs, WalkBegin, WalkPage, WalkMark
  <2>2. CASE run' = Goto(w, "walked")
    BY <2>0, <2>2, GotoFacts DEF Pcs, WalkBegin, WalkPage, WalkMark
  <2>. QED
    BY <1>3, <2>1, <2>2 DEF WalkFinalize
<1>4. CASE WalkMark(w)
  <2>0. run[w].pc = "walked"
    BY <1>4 DEF WalkMark
  <2>1. CASE \E out \in {"ok", "failed"} : run' = Ended(w, out) /\ (w = "LiveChange" => out = "failed")
    BY <2>0, <2>1, EndedFacts DEF Outs, WalkBegin, WalkPage, WalkFinalize
  <2>2. CASE run' = Goto(w, "get") /\ w = "LiveChange"
    BY <2>0, <2>2, GotoFacts DEF Pcs, Interruptible, WalkBegin, WalkPage, WalkFinalize
  <2>. QED
    BY <1>4, <2>1, <2>2 DEF WalkMark
<1>. QED
  BY <1>1, <1>2, <1>3, <1>4

LEMMA LaunchFacts ==
  ASSUME RunTyped, gen \in Nat, NEW w \in {"Startup", "FullPopulation"}, Launch(w)
  PROVE  /\ Alone(run', w) /\ run[w].pc = "join"
         /\ ~stopped => /\ run'[w].pc \in {"read", "begin"} /\ run'[w].mode = run[w].mode
                        /\ startup' = IF w = "Startup" THEN NoStartup ELSE startup
<1>0. w \in Workers /\ run[w].pc = "join"
  BY DEF Workers, Launch
<1>1. CASE stopped
  BY <1>0, <1>1, Idle, Replaced DEF Launch
<1>2. CASE ~stopped
  <2>1. After(gen) \in Nat /\ "read" \in Pcs /\ "begin" \in Pcs
    BY Generations DEF Pcs, Interruptible
  <2>2. PICK pc \in {"read", "begin"}, g \in Nat : run' = Dated(w, pc, g)
    BY <1>2, <2>1 DEF Launch, Dated
  <2>3. Alone(run', w) /\ run'[w].pc = pc /\ run'[w].mode = run[w].mode
    BY <1>0, <2>1, <2>2, DatedFacts
  <2>. QED
    BY <1>0, <1>2, <2>3 DEF Launch
<1>. QED
  BY <1>1, <1>2

(* A worker starts from nothing. *)
LEMMA StartFacts ==
  ASSUME RunTyped, NEW w \in Workers, NEW pc \in Pcs, run' = [run EXCEPT ![w] = [IdleRun EXCEPT !.pc = pc]]
  PROVE  /\ Alone(run', w) /\ run'[w].pc = pc /\ run'[w].mode = "FullReconcile" /\ run'[w].out = "none"
         /\ run'[w].got = {} /\ run'[w].todo = {}
<1>. DEFINE r == [IdleRun EXCEPT !.pc = pc]
<1>1. /\ r \in RunRecord /\ r.pc = pc /\ r.mode = "FullReconcile" /\ r.out = "none"
      /\ r.got = {} /\ r.todo = {}
  BY IdleAt
<1>2. run' = [run EXCEPT ![w] = r]
  OBVIOUS
<1>. HIDE DEF r
<1>3. Alone(run', w) /\ run'[w] = r
  BY <1>1, <1>2 DEF RunTyped, Alone
<1>. QED
  BY <1>1, <1>3

LEMMA EndFacts ==
  ASSUME RunTyped, NEW w \in Workers, run' = [run EXCEPT ![w] = IdleRun]
  PROVE  /\ Alone(run', w) /\ run'[w].pc = "none" /\ run'[w].mode = "FullReconcile"
         /\ run'[w].out = "none" /\ run'[w].got = {} /\ run'[w].todo = {}
  BY Idle, Replaced

LEMMA LiveClaimFacts ==
  ASSUME RunTyped, LiveClaim
  PROVE  /\ Alone(run', "LiveChange") /\ run'["LiveChange"].pc \in {"read", "get"}
         /\ run'["LiveChange"].mode = "FullReconcile"
<1>1. PICK pc \in {"read", "get"} : run' = [run EXCEPT !["LiveChange"] = [IdleRun EXCEPT !.pc = pc]]
  BY DEF LiveClaim
<1>2. pc \in Pcs /\ "LiveChange" \in Workers
  BY DEF Pcs, Interruptible, Workers
<1>. QED
  BY <1>1, <1>2, StartFacts

LEMMA LiveGetFacts ==
  ASSUME RunTyped, gen \in Nat, batch \in Ticket, LiveGet
  PROVE  /\ Alone(run', "LiveChange")
         /\ \/ run'["LiveChange"].pc = "publish" /\ run'["LiveChange"].out = "failed"
            \/ run'["LiveChange"].pc = "put" /\ run'["LiveChange"].got = batch.ids
<1>. DEFINE w == "LiveChange"
<1>0. w \in Workers /\ batch.ids \in SUBSET Items /\ run[w].pc = "get"
  BY DEF Workers, Ticket, LiveGet
<1>1. CASE run' = Ended(w, "failed")
  BY <1>0, <1>1, EndedFacts DEF Outs
<1>2. CASE run' = [run EXCEPT !["LiveChange"].pc = "put", !["LiveChange"].got = batch.ids,
                              !["LiveChange"].g = IF @ = 0 THEN After(gen) ELSE @]
  <2>1. After(gen) \in Nat /\ run[w].g \in Nat
    BY <1>0, Generations DEF RunTyped, RunRecord
  <2>2. PICK g \in Nat : g = IF run[w].g = 0 THEN After(gen) ELSE run[w].g
    BY <2>1
  <2>3. run' = [run EXCEPT !["LiveChange"].pc = "put", !["LiveChange"].got = batch.ids,
                           !["LiveChange"].g = g]
    BY <1>2, <2>2, <1>0 DEF RunTyped, RunRecord
  <2>. DEFINE pc == "put"
              got == batch.ids
  <2>4. pc \in Pcs /\ got \in SUBSET Items /\ run' = [run EXCEPT ![w].pc = pc, ![w].got = got, ![w].g = g]
    BY <1>0, <2>3 DEF Pcs, Interruptible
  <2>. HIDE DEF pc, got, w
  <2>5. Alone(run', w) /\ run'[w].pc = pc /\ run'[w].got = got
    BY <1>0, <2>4 DEF Alone, RunTyped, RunRecord
  <2>. QED
    BY <2>5 DEF pc, got, w
<1>. QED
  BY <1>1, <1>2 DEF LiveGet

LEMMA LivePutFacts ==
  ASSUME RunTyped, LivePut
  PROVE  /\ Alone(run', "LiveChange")
         /\ run'["LiveChange"].pc = "publish" /\ run'["LiveChange"].out = "ok"
<1>1. "LiveChange" \in Workers /\ "ok" \in Outs /\ run' = Ended("LiveChange", "ok")
  BY DEF Workers, Outs, LivePut
<1>. QED
  BY <1>1, EndedFacts

LEMMA ServerFacts ==
  ASSUME RunTyped, NEW i \in Items, ServerChange(i)
  PROVE  /\ RunTyped'
         /\ \A w \in Workers : /\ run'[w].pc = run[w].pc /\ run'[w].todo = run[w].todo
                               /\ run'[w].mode = run[w].mode /\ run'[w].out = run[w].out
                               /\ run'[w].got = run[w].got \ {i}
<1>1. run' = [w \in Workers |-> [run[w] EXCEPT !.got = @ \ {i}]]
  BY DEF ServerChange
<1>2. ASSUME NEW w \in Workers
      PROVE  /\ run'[w] \in RunRecord
             /\ run'[w].pc = run[w].pc /\ run'[w].todo = run[w].todo
             /\ run'[w].mode = run[w].mode /\ run'[w].out = run[w].out
             /\ run'[w].got = run[w].got \ {i}
  BY <1>1 DEF RunTyped, RunRecord
<1>3. run' \in [Workers -> RunRecord]
  BY <1>1, <1>2, Zenon
<1>. QED
  BY <1>2, <1>3 DEF RunTyped

(***************************************************************************)
(* The tickets of the event queues.                                        *)
(***************************************************************************)
LEMMA Tickets ==
  ASSUME NEW q \in Ticket, NEW b \in Ticket, NEW kept \in Kept(q, b.ids)
  PROVE  /\ Pushed(q, b, kept) \in Ticket /\ Pushed(q, b, kept).ids = q.ids \cup kept
         /\ MarkCatchUp(q) \in Ticket /\ MarkCatchUp(q).ids = q.ids
         /\ kept \subseteq b.ids
  BY DEF Ticket, Kept, Pushed, MarkCatchUp

LEMMA Emptied == EmptyQueue \in Ticket /\ EmptyQueue.ids = {}
  BY DEF Ticket, EmptyQueue

LEMMA Marking == ASSUME NEW q \in Ticket PROVE MarkCatchUp(q) \in Ticket /\ MarkCatchUp(q).ids = q.ids
  BY DEF Ticket, MarkCatchUp

LEMMA MarkedTyped ==
  ASSUME CatalogTyped, NEW g \in Nat, NEW rec \in BOOLEAN,
         Marked(TRUE, rec, g) \/ MarkFails(rec, g), UNCHANGED <<txn, missed, excused>>, gen' \in Nat
  PROVE  CatalogTyped'
<1>1. disk' \in Disk /\ hidden' \in {hidden, missed}
  <2>1. CASE Marked(TRUE, rec, g)
    BY <2>1 DEF Marked, Disk
  <2>2. CASE MarkFails(rec, g)
    BY <2>2 DEF MarkFails, CatalogTyped
  <2>. QED
    BY <2>1, <2>2
<1>. QED
  BY <1>1 DEF CatalogTyped

LEMMA StoredTyped ==
  ASSUME CatalogTyped, NEW ids, Stored(ids), UNCHANGED <<disk, txn, excused>>, gen' \in Nat
  PROVE  CatalogTyped'
  BY DEF CatalogTyped, Stored

(* A step of a worker that leaves the slot, the events, the results and the hierarchy alone. *)
LEMMA WorkTyped ==
  ASSUME Typed, NEW w \in Workers, Alone(run', w), CatalogTyped',
         updates' \in Seq(Outs \cup {"page"}),
         UNCHANGED <<op, stopped, eventVars, startup, ready, cancelled, hier, fetch, home>>
  PROVE  Typed'
  BY DEF Typed, Alone, SlotTyped, EventTyped, ResultTyped, RunTyped, HierTyped, HomeTyped, eventVars

LEMMA WorkersTyped ==
  ASSUME Typed, NEW w \in Workers, UNCHANGED <<fetch, home>>,
         \/ GiveUp(w) \/ ReadState(w) \/ CatchUpFetch(w) \/ CatchUpWrite(w) \/ CatchUpMark(w)
         \/ WalkBegin(w) \/ WalkPage(w) \/ WalkFinalize(w) \/ WalkMark(w)
         \/ (w = "Startup" /\ ReadStartup)
  PROVE  Typed'
<1>. RunTyped /\ CatalogTyped /\ gen \in Nat /\ disk \in Disk /\ disk.rec \in BOOLEAN
  BY DEF Typed, CatalogTyped, Disk
<1>. updates \in Seq(Outs \cup {"page"})
  BY DEF Typed, ResultTyped
<1>g. run[w].g \in Nat /\ AtLeast(gen, run[w].g) \in Nat
  BY Generations DEF RunTyped, RunRecord
<1>1. CASE GiveUp(w)
  <2>1. Alone(run', w) /\ txn' \in {txn, "None"}
    BY <1>1, GiveUpFacts
  <2>2. UNCHANGED <<gen, disk, missed, hidden, excused, op, stopped, eventVars, startup, updates, ready, cancelled, hier>>
    BY <1>1 DEF GiveUp, modeVars, slotVars, resultVars
  <2>3. CatalogTyped'
    BY <2>1, <2>2 DEF CatalogTyped
  <2>. QED
    BY <2>1, <2>2, <2>3, WorkTyped
<1>2. CASE ReadState(w)
  <2>1. Alone(run', w) /\ gen' \in Nat
    BY <1>2, ReadStateFacts
  <2>2. UNCHANGED <<disk, txn, missed, hidden, excused, op, stopped, eventVars, startup, updates, ready, cancelled, hier>>
    BY <1>2 DEF ReadState, modeVars, slotVars, resultVars
  <2>3. CatalogTyped'
    BY <2>1, <2>2 DEF CatalogTyped
  <2>. QED
    BY <2>1, <2>2, <2>3, WorkTyped
<1>3. CASE w = "Startup" /\ ReadStartup
  <2>1. Alone(run', w) /\ gen' \in Nat
    BY <1>3, ReadStartupFacts
  <2>2. UNCHANGED <<disk, txn, missed, hidden, excused, op, stopped, eventVars, startup, updates, ready, cancelled, hier>>
    BY <1>3 DEF ReadStartup, modeVars, slotVars, resultVars
  <2>3. CatalogTyped'
    BY <2>1, <2>2 DEF CatalogTyped
  <2>. QED
    BY <2>1, <2>2, <2>3, WorkTyped
<1>4. CASE CatchUpFetch(w)
  <2>1. Alone(run', w)
    BY <1>4, CatchUpFacts
  <2>2. UNCHANGED <<catalogVars, op, stopped, eventVars, startup, updates, ready, cancelled, hier>>
    BY <1>4 DEF CatchUpFetch, modeVars, slotVars, resultVars
  <2>3. CatalogTyped'
    BY <2>2 DEF CatalogTyped, catalogVars
  <2>. QED
    BY <2>1, <2>2, <2>3, WorkTyped
<1>5. CASE CatchUpWrite(w)
  <2>1. Alone(run', w)
    BY <1>5, CatchUpFacts
  <2>2. UNCHANGED <<gen, disk, txn, excused, op, stopped, eventVars, startup, updates, ready, cancelled, hier>>
    BY <1>5 DEF CatchUpWrite, modeVars, slotVars, resultVars
  <2>3. CatalogTyped'
    BY <1>5, <2>2, StoredTyped DEF CatchUpWrite
  <2>. QED
    BY <2>1, <2>2, <2>3, WorkTyped
<1>6. CASE CatchUpMark(w)
  <2>1. Alone(run', w)
    BY <1>6, CatchUpFacts
  <2>2. UNCHANGED <<txn, missed, excused, op, stopped, eventVars, startup, updates, ready, cancelled, hier>>
    BY <1>6 DEF CatchUpMark, modeVars, slotVars, resultVars
  <2>3. gen' \in Nat /\ (Marked(TRUE, disk.rec, run[w].g) \/ MarkFails(disk.rec, run[w].g))
    BY <1>6, <1>g DEF CatchUpMark
  <2>4. CatalogTyped'
    BY <1>g, <2>2, <2>3, MarkedTyped
  <2>. QED
    BY <2>1, <2>2, <2>4, WorkTyped
<1>7. CASE WalkBegin(w)
  <2>1. Alone(run', w)
    BY <1>7, WalkFacts
  <2>2. /\ UNCHANGED <<gen, disk, missed, hidden, excused, op, stopped, eventVars, startup, updates, ready, cancelled, hier>>
        /\ txn' = w
    BY <1>7 DEF WalkBegin, modeVars, slotVars, resultVars
  <2>3. CatalogTyped'
    BY <2>2 DEF CatalogTyped
  <2>. QED
    BY <2>1, <2>2, <2>3, WorkTyped
<1>8. CASE WalkPage(w)
  <2>1. Alone(run', w) /\ \E i : Stored({i})
    BY <1>8, WalkFacts
  <2>2. /\ UNCHANGED <<gen, disk, txn, excused, op, stopped, eventVars, startup, ready, cancelled, hier>>
        /\ updates' = updates \/ updates' = Append(updates, "page")
    BY <1>8 DEF WalkPage, modeVars, slotVars
  <2>3. CatalogTyped'
    BY <2>1, <2>2, StoredTyped
  <2>4. updates' \in Seq(Outs \cup {"page"})
    BY <2>2
  <2>. QED
    BY <2>1, <2>2, <2>3, <2>4, WorkTyped
<1>9. CASE WalkFinalize(w)
  <2>1. Alone(run', w)
    BY <1>9, WalkFacts
  <2>2. UNCHANGED <<disk, missed, hidden, excused, op, stopped, eventVars, startup, updates, ready, cancelled, hier>>
    BY <1>9 DEF WalkFinalize, modeVars, slotVars, resultVars
  <2>3. CatalogTyped'
    BY <1>9, <1>g, <2>2 DEF WalkFinalize, CatalogTyped
  <2>. QED
    BY <2>1, <2>2, <2>3, WorkTyped
<1>10. CASE WalkMark(w)
  <2>1. Alone(run', w)
    BY <1>10, WalkFacts
  <2>2. UNCHANGED <<gen, txn, missed, excused, op, stopped, eventVars, startup, updates, ready, cancelled, hier>>
    BY <1>10 DEF WalkMark, modeVars, slotVars, resultVars
  <2>3. Marked(TRUE, TRUE, run[w].g) \/ MarkFails(TRUE, run[w].g)
    BY <1>10 DEF WalkMark
  <2>4. CatalogTyped'
    BY <1>g, <2>2, <2>3, MarkedTyped
  <2>. QED
    BY <2>1, <2>2, <2>4, WorkTyped
<1>. QED
  BY <1>1, <1>2, <1>3, <1>4, <1>5, <1>6, <1>7, <1>8, <1>9, <1>10

LEMMA SlotKinds ==
  /\ Free \in {Free} \cup [kind : Kinds, phase : Phases]
  /\ \A k \in Kinds : /\ Begun(k) \in {Free} \cup [kind : Kinds, phase : Phases]
                      /\ Pending(k) \in {Free} \cup [kind : Kinds, phase : Phases]
  /\ Workers \subseteq Kinds /\ "Hierarchy" \in Kinds
  /\ \A k : Released(k) \in {op, Free}
  BY DEF Begun, Pending, Phases, Kinds, Released

(* The steps of a worker that begin, launch or end its operation. *)
LEMMA OperationTyped ==
  ASSUME Typed, NEW w \in Workers, Alone(run', w),
         op' \in {op, Free, Begun(w), Pending(w)},
         startup' \in [mode : Modes, out : Outs],
         updates' \in Seq(Outs \cup {"page"}),
         ready' \subseteq {"SafetyReconcile", "LiveChange"}, cancelled' \subseteq Workers,
         EventTyped', CatalogTyped',
         UNCHANGED <<stopped, hier>>, HomeTyped'
  PROVE  Typed'
<1>1. SlotTyped'
  BY SlotKinds DEF Typed, SlotTyped
<1>. QED
  BY <1>1 DEF Typed, Alone, ResultTyped, RunTyped, HierTyped

LEMMA OperationsTyped ==
  ASSUME Typed, HomeTyped',
         \/ \E w \in {"Startup", "FullPopulation"} : Launch(w)
         \/ PublishStartup \/ PublishPopulation \/ PublishSafety \/ RequestSafety
         \/ RequestStartup \/ RequestPopulation
  PROVE  Typed'
<1>0. RunTyped /\ gen \in Nat /\ "join" \in Pcs /\ "read" \in Pcs
  BY DEF Typed, CatalogTyped, Pcs, Interruptible
<1>1. /\ startup \in [mode : Modes, out : Outs] /\ updates \in Seq(Outs \cup {"page"})
      /\ ready \subseteq {"SafetyReconcile", "LiveChange"} /\ cancelled \subseteq Workers
      /\ <<>> \in Seq(Outs \cup {"page"}) /\ NoStartup \in [mode : Modes, out : Outs]
  BY DEF Typed, ResultTyped, NoStartup, Modes, Outs
<1>2. ASSUME UNCHANGED <<eventVars, catalogVars>> PROVE EventTyped' /\ CatalogTyped'
  BY <1>2 DEF Typed, EventTyped, CatalogTyped, eventVars, catalogVars
<1>3. ASSUME NEW w \in {"Startup", "FullPopulation"}, Launch(w) PROVE Typed'
  <2>1. Alone(run', w) /\ w \in Workers
    BY <1>0, <1>3, LaunchFacts DEF Workers
  <2>2. UNCHANGED <<stopped, eventVars, catalogVars, cancelled, updates, ready, hier>>
    BY <1>3 DEF Launch, modeVars
  <2>3. op' \in {op, Free} /\ startup' \in {startup, NoStartup}
    BY <1>3, SlotKinds DEF Launch, slotVars
  <2>. QED
    BY <1>1, <1>2, <2>1, <2>2, <2>3, OperationTyped
<1>4. CASE PublishStartup
  <2>1. "Startup" \in Workers
    BY DEF Workers
  <2>2. Alone(run', "Startup")
    BY <1>0, <1>4, <2>1, EndFacts DEF PublishStartup
  <2>3. run["Startup"].mode \in Modes /\ run["Startup"].out \in Outs
    BY <1>0, <2>1 DEF RunTyped, RunRecord
  <2>4. /\ UNCHANGED <<stopped, eventVars, catalogVars, cancelled, updates, ready, hier>>
        /\ op' \in {op, Pending("Startup")} /\ startup' \in [mode : Modes, out : Outs]
    BY <1>4, <2>3 DEF PublishStartup, modeVars
  <2>. QED
    BY <1>1, <1>2, <2>1, <2>2, <2>4, OperationTyped
<1>5. CASE PublishPopulation
  <2>1. "FullPopulation" \in Workers
    BY DEF Workers
  <2>2. Alone(run', "FullPopulation")
    BY <1>0, <1>5, <2>1, EndFacts DEF PublishPopulation
  <2>3. run["FullPopulation"].out \in Outs
    BY <1>0, <2>1 DEF RunTyped, RunRecord
  <2>4. /\ UNCHANGED <<stopped, eventVars, catalogVars, cancelled, startup, ready, hier>>
        /\ op' \in {op, Pending("FullPopulation")}
        /\ updates' = Append(updates, run["FullPopulation"].out)
    BY <1>5 DEF PublishPopulation, modeVars
  <2>5. updates' \in Seq(Outs \cup {"page"})
    BY <1>1, <2>3, <2>4
  <2>. QED
    BY <1>1, <1>2, <2>1, <2>2, <2>4, <2>5, OperationTyped
<1>6. CASE PublishSafety
  <2>1. "SafetyReconcile" \in Workers
    BY DEF Workers
  <2>2. Alone(run', "SafetyReconcile")
    BY <1>0, <1>6, <2>1, EndFacts DEF PublishSafety
  <2>3. /\ UNCHANGED <<stopped, eventVars, catalogVars, cancelled, startup, updates, hier>>
        /\ op' \in {op, Free} /\ ready' = ready \cup {"SafetyReconcile"}
    BY <1>6, SlotKinds DEF PublishSafety, modeVars
  <2>. QED
    BY <1>1, <1>2, <2>1, <2>2, <2>3, OperationTyped
<1>7. CASE RequestSafety
  <2>1. "SafetyReconcile" \in Workers
    BY DEF Workers
  <2>2. Alone(run', "SafetyReconcile")
    BY <1>0, <1>7, <2>1, StartFacts DEF RequestSafety
  <2>3. /\ UNCHANGED <<stopped, eventVars, catalogVars, startup, updates, ready, hier>>
        /\ op' = Begun("SafetyReconcile") /\ cancelled' \subseteq cancelled
    BY <1>7 DEF RequestSafety, modeVars, resultVars
  <2>. QED
    BY <1>1, <1>2, <2>1, <2>2, <2>3, OperationTyped
<1>8. ASSUME NEW w \in {"Startup", "FullPopulation"}, Admit(w),
             UNCHANGED <<modeVars, catalogVars, eventVars, startup, ready, hier>>
      PROVE  Typed'
  <2>1. w \in Workers
    BY DEF Workers
  <2>2. Alone(run', w)
    BY <1>0, <1>8, <2>1, StartFacts DEF Admit
  <2>3. /\ UNCHANGED <<stopped, eventVars, catalogVars, startup, ready, hier>>
        /\ op' = Begun(w) /\ cancelled' \subseteq cancelled /\ updates' \in {updates, <<>>}
    BY <1>8 DEF Admit, modeVars
  <2>. QED
    BY <1>1, <1>2, <2>1, <2>2, <2>3, OperationTyped
<1>. QED
  BY <1>3, <1>4, <1>5, <1>6, <1>7, <1>8 DEF RequestStartup, RequestPopulation

LEMMA LiveTyped ==
  ASSUME Typed, HomeTyped', LiveDrain \/ LiveClaim \/ LiveGet \/ LivePut \/ LivePublish
  PROVE  Typed'
<1>0. RunTyped /\ CatalogTyped /\ gen \in Nat /\ "LiveChange" \in Workers
  BY DEF Typed, CatalogTyped, Workers
<1>1. /\ startup \in [mode : Modes, out : Outs] /\ updates \in Seq(Outs \cup {"page"})
      /\ ready \subseteq {"SafetyReconcile", "LiveChange"} /\ cancelled \subseteq Workers
  BY DEF Typed, ResultTyped
<1>2. /\ source \in Ticket /\ queue \in Ticket /\ batch \in Ticket
      /\ source.ids \subseteq Items /\ batch.ids \subseteq Items /\ queue.ids \subseteq Items
      /\ batch.catchUp \in BOOLEAN /\ queue.catchUp \in BOOLEAN
      /\ barrier \in BOOLEAN /\ linked \in BOOLEAN
  BY DEF Typed, EventTyped, Ticket
<1>3. CASE LiveDrain
  <2>1. PICK kept \in Kept(queue, source.ids) :
            /\ queue' = Pushed(queue, source, kept)
            /\ barrier' = (source.ids \ queue'.ids # {})
            /\ excused' = excused \cup (source.ids \ queue'.ids)
    BY <1>3 DEF LiveDrain
  <2>2. queue' \in Ticket
    BY <1>2, <2>1, Tickets
  <2>3. source' = EmptyQueue /\ UNCHANGED <<op, stopped, gen, disk, txn, missed, hidden, linked, batch, startup,
                                            updates, ready, cancelled, run, hier>>
    BY <1>3 DEF LiveDrain, modeVars, slotVars, resultVars
  <2>4. EventTyped'
    BY <1>2, <2>1, <2>2, <2>3, Emptied DEF EventTyped
  <2>5. CatalogTyped'
    BY <1>0, <1>2, <2>1, <2>3 DEF CatalogTyped
  <2>6. Alone(run', "LiveChange")
    BY <1>0, <2>3 DEF RunTyped, Alone
  <2>. QED
    BY <1>0, <1>1, <2>3, <2>4, <2>5, <2>6, OperationTyped
<1>4. CASE LiveClaim
  <2>1. Alone(run', "LiveChange")
    BY <1>0, <1>4, LiveClaimFacts
  <2>2. /\ UNCHANGED <<stopped, catalogVars, linked, source, startup, updates, ready, hier>>
        /\ op' = Begun("LiveChange") /\ cancelled' \subseteq cancelled
        /\ batch' = queue /\ queue' = EmptyQueue /\ barrier' = (barrier \/ queue.catchUp)
    BY <1>4 DEF LiveClaim, modeVars, resultVars
  <2>3. EventTyped' /\ CatalogTyped'
    BY <1>0, <1>2, <2>2, Emptied DEF EventTyped, CatalogTyped, catalogVars
  <2>. QED
    BY <1>0, <1>1, <2>1, <2>2, <2>3, OperationTyped
<1>5. CASE LiveGet
  <2>1. Alone(run', "LiveChange")
    BY <1>0, <1>2, <1>5, LiveGetFacts
  <2>2. UNCHANGED <<op, stopped, catalogVars, eventVars, startup, updates, ready, cancelled, hier>>
    BY <1>5 DEF LiveGet, modeVars, slotVars, resultVars
  <2>3. EventTyped' /\ CatalogTyped'
    BY <1>0, <2>2 DEF Typed, EventTyped, CatalogTyped, catalogVars, eventVars
  <2>. QED
    BY <1>0, <1>1, <2>1, <2>2, <2>3, OperationTyped
<1>6. CASE LivePut
  <2>1. Alone(run', "LiveChange")
    BY <1>0, <1>6, LivePutFacts
  <2>2. UNCHANGED <<op, stopped, disk, txn, excused, eventVars, startup, updates, ready, cancelled, hier>>
    BY <1>6 DEF LivePut, modeVars, slotVars, resultVars
  <2>3. gen' \in Nat
    BY <1>0, <1>6, Generations DEF LivePut, RunTyped, RunRecord
  <2>4. CatalogTyped'
    BY <1>0, <1>6, <2>2, <2>3, StoredTyped DEF LivePut
  <2>5. EventTyped'
    BY <2>2 DEF Typed, EventTyped, eventVars
  <2>. QED
    BY <1>0, <1>1, <2>1, <2>2, <2>4, <2>5, OperationTyped
<1>7. CASE LivePublish
  <2>1. Alone(run', "LiveChange")
    BY <1>0, <1>7, EndFacts DEF LivePublish
  <2>2. /\ UNCHANGED <<stopped, gen, disk, txn, missed, hidden, linked, source, startup, updates, cancelled, hier>>
        /\ op' \in {op, Free} /\ ready' = ready \cup {"LiveChange"}
        /\ batch' = EmptyQueue
        /\ barrier' \in {barrier, TRUE, FALSE}
    BY <1>7, SlotKinds DEF LivePublish, modeVars
  <2>3. queue' \in Ticket /\ excused' \subseteq excused \cup batch.ids
    <3>1. CASE Requeued(run["LiveChange"].out = "ok")
      <4>1. PICK kept \in Kept(queue, batch.ids) :
                /\ queue' = MarkCatchUp(Pushed(queue, batch, kept))
                /\ excused' = excused \cup (batch.ids \ queue'.ids)
        BY <1>7, <3>1 DEF LivePublish
      <4>2. Pushed(queue, batch, kept) \in Ticket
        BY <1>2, Tickets
      <4>. QED
        BY <4>1, <4>2, Marking
    <3>2. CASE ~Requeued(run["LiveChange"].out = "ok")
      BY <1>2, <1>7, <3>2 DEF LivePublish
    <3>. QED
      BY <3>1, <3>2
  <2>4. EventTyped'
    BY <1>2, <2>2, <2>3, Emptied DEF EventTyped
  <2>5. CatalogTyped'
    BY <1>0, <1>2, <2>2, <2>3 DEF CatalogTyped
  <2>. QED
    BY <1>0, <1>1, <2>1, <2>2, <2>4, <2>5, OperationTyped
<1>. QED
  BY <1>3, <1>4, <1>5, <1>6, <1>7

(* SelectInSeq finds the first position whose element is of the request. *)
LEMMA FirstOf ==
  ASSUME NEW S, NEW s \in Seq(S), NEW id, \E k \in DOMAIN s : s[k].id = id,
         NEW at, at = SelectInSeq(s, LAMBDA r : r.id = id)
  PROVE  at \in DOMAIN s /\ s[at].id = id /\ \A k \in DOMAIN s : s[k].id = id => at <= k
<1>. DEFINE I == {i \in 1 .. Len(s) : s[i].id = id}
<1>1. I # {} /\ I \in SUBSET Nat /\ I \subseteq DOMAIN s
  OBVIOUS
<1>2. at = Min(I)
  BY <1>1 DEF SelectInSeq
<1>3. \E m \in I : \A n \in I : m <= n
  <2>. HIDE DEF I
  <2>. QED BY <1>1, LeastNumber
<1>4. at \in I /\ \A n \in I : at <= n
  <2>. HIDE DEF I
  <2>. QED BY <1>2, <1>3 DEF Min
<1>5. DOMAIN s = 1 .. Len(s)
  OBVIOUS
<1>6. at \in 1 .. Len(s) /\ s[at].id = id /\ \A n \in 1 .. Len(s) : s[n].id = id => at <= n
  <2>. HIDE DEF I
  <2>1. \A n : n \in I <=> n \in 1 .. Len(s) /\ s[n].id = id
    BY DEF I
  <2>. QED BY <1>4, <2>1, Zenon
<1>. QED
  BY <1>5, <1>6, Zenon

LEMMA Removed ==
  ASSUME NEW S, NEW s \in Seq(S), NEW at \in DOMAIN s, NEW t, t = RemoveAt(s, at)
  PROVE  /\ t \in Seq(S) /\ Len(t) = Len(s) - 1
         /\ \A k \in 1 .. Len(s) - 1 : t[k] = IF k < at THEN s[k] ELSE s[k + 1]
<1>. DEFINE a == SubSeq(s, 1, at - 1)
            b == SubSeq(s, at + 1, Len(s))
<1>1. Len(s) \in Nat /\ at \in 1 .. Len(s)
  OBVIOUS
<1>2. a \in Seq(S) /\ Len(a) = at - 1 /\ \A k \in 1 .. at - 1 : a[k] = s[k]
  BY <1>1
<1>3. b \in Seq(S) /\ Len(b) = Len(s) - at /\ \A k \in 1 .. Len(s) - at : b[k] = s[at + k]
  BY <1>1
<1>4. t = a \o b
  BY DEF RemoveAt
<1>. HIDE DEF a, b
<1>5. t \in Seq(S) /\ Len(t) = Len(s) - 1
  BY <1>1, <1>2, <1>3, <1>4
<1>6. ASSUME NEW k \in 1 .. Len(s) - 1 PROVE t[k] = IF k < at THEN s[k] ELSE s[k + 1]
  <2>1. CASE k < at
    BY <1>1, <1>2, <1>3, <1>4, <2>1
  <2>2. CASE ~(k < at)
    <3>1. t[k] = b[k - (at - 1)]
      BY <1>1, <1>2, <1>3, <1>4, <2>2
    <3>2. k - (at - 1) \in 1 .. Len(s) - at /\ at + (k - (at - 1)) = k + 1
      BY <1>1, <2>2
    <3>. QED
      BY <1>3, <2>2, <3>1, <3>2
  <2>. QED
    BY <2>1, <2>2
<1>. QED
  BY <1>5, <1>6

(***************************************************************************)
(* What the steps do to the hierarchy worker's state.                      *)
(***************************************************************************)
LEMMA HierarchyFields ==
  ASSUME HierTyped
  PROVE  /\ hier.queue \in Seq(Request) /\ hier.active \in Request \cup {NoRequest}
         /\ hier.pc \in {"idle", "walk", "mark", "end"} /\ hier.accepted \subseteq Request
         /\ hier.results \in Seq(Publication) /\ hier.tokens \subseteq Nat /\ hier.next \in Nat
  BY DEF HierTyped, Hierarchy

(* The request that is queued. *)
Asked(kind, g, force) == [id |-> hier.next, kind |-> kind, g |-> g, force |-> force]

LEMMA RequestFacts ==
  ASSUME HierTyped, NEW kind \in {"Home", "Screen"}, NEW g \in Nat, NEW force \in BOOLEAN,
         RequestHierarchy(kind, g, force), NEW request, request = Asked(kind, g, force)
  PROVE  /\ request \in Request /\ request.id = hier.next /\ request.kind = kind
         /\ hier' = [queue |-> Append(hier.queue, request), active |-> hier.active, pc |-> hier.pc,
                     accepted |-> hier.accepted \cup {request}, results |-> hier.results,
                     tokens |-> hier.tokens, next |-> hier.next + 1]
         /\ HierTyped'
<1>1. request \in Request /\ request.id = hier.next /\ request.kind = kind
  BY HierarchyFields DEF Asked, Request
<1>2. hier' = [hier EXCEPT !.queue = Append(@, request), !.accepted = @ \cup {request},
                           !.next = @ + 1]
  BY DEF RequestHierarchy, Asked
<1>3. hier' = [queue |-> Append(hier.queue, request), active |-> hier.active, pc |-> hier.pc,
               accepted |-> hier.accepted \cup {request}, results |-> hier.results,
               tokens |-> hier.tokens, next |-> hier.next + 1]
  BY <1>2 DEF HierTyped, Hierarchy
<1>4. Append(hier.queue, request) \in Seq(Request)
  BY <1>1, HierarchyFields
<1>5. hier' \in Hierarchy
  BY <1>1, <1>3, <1>4, HierarchyFields DEF Hierarchy
<1>6. HierTyped'
  BY <1>3, <1>5 DEF HierTyped
<1>. QED
  BY <1>1, <1>3, <1>6

LEMMA TakeFacts ==
  ASSUME HierTyped, HierarchyTake
  PROVE  /\ hier.queue # <<>> /\ Head(hier.queue) \in Request
         /\ hier' = [queue |-> Tail(hier.queue), active |-> Head(hier.queue), pc |-> "walk",
                     accepted |-> hier.accepted, results |-> hier.results,
                     tokens |-> hier.tokens, next |-> hier.next]
         /\ HierTyped'
<1>1. hier.queue # <<>> /\ Head(hier.queue) \in Request /\ Tail(hier.queue) \in Seq(Request)
  BY HierarchyFields DEF HierarchyTake
<1>2. hier' = [queue |-> Tail(hier.queue), active |-> Head(hier.queue), pc |-> "walk",
               accepted |-> hier.accepted, results |-> hier.results,
               tokens |-> hier.tokens, next |-> hier.next]
  BY DEF HierarchyTake, HierTyped, Hierarchy
<1>3. hier' \in Hierarchy
  BY <1>1, <1>2, HierarchyFields DEF Hierarchy
<1>. QED
  BY <1>1, <1>2, <1>3 DEF HierTyped

(* What the worker publishes of the active request. *)
Shown(terminal) ==
    IF hier.active \in hier.accepted
    THEN Append(hier.results, [id |-> hier.active.id, kind |-> hier.active.kind, terminal |-> terminal])
    ELSE hier.results

LEMMA PublishedFacts ==
  ASSUME HierTyped, NEW terminal \in BOOLEAN, NEW pc \in {"mark", "end"}, hier.pc # "idle",
         hier' = [Published(hier, terminal) EXCEPT !.pc = pc]
  PROVE  /\ hier' = [queue |-> hier.queue, active |-> hier.active, pc |-> pc,
                     accepted |-> hier.accepted, results |-> Shown(terminal),
                     tokens |-> hier.tokens, next |-> hier.next]
         /\ HierTyped'
<1>1. hier.active \in Request
  BY DEF HierTyped
<1>2. [id |-> hier.active.id, kind |-> hier.active.kind, terminal |-> terminal] \in Publication
  BY <1>1 DEF Request, Publication
<1>3. Shown(terminal) \in Seq(Publication)
  BY <1>2, HierarchyFields DEF Shown
<1>4. Published(hier, terminal) = [hier EXCEPT !.results = Shown(terminal)]
  BY DEF Published, Shown, HierTyped, Hierarchy
<1>. DEFINE h == [queue |-> hier.queue, active |-> hier.active, pc |-> pc,
                  accepted |-> hier.accepted, results |-> Shown(terminal),
                  tokens |-> hier.tokens, next |-> hier.next]
<1>5. hier' = h
  BY <1>4 DEF HierTyped, Hierarchy
<1>6. h \in Hierarchy /\ h.active \in Request
  BY <1>1, <1>3, HierarchyFields DEF Hierarchy
<1>. HIDE DEF h
<1>7. HierTyped'
  BY <1>5, <1>6, Zenon DEF HierTyped
<1>. QED
  BY <1>5, <1>7 DEF h

LEMMA WalkerFacts ==
  ASSUME HierTyped, HierarchyShow \/ HierarchyEndWalk \/ HierarchyMark
  PROVE  /\ hier.pc \in {"walk", "mark"}
         /\ \E terminal \in BOOLEAN, pc \in {"mark", "end"} :
               /\ pc = IF terminal THEN "end" ELSE "mark"
               /\ ~terminal => HierarchyShow
               /\ hier' = [queue |-> hier.queue, active |-> hier.active, pc |-> pc,
                           accepted |-> hier.accepted, results |-> Shown(terminal),
                           tokens |-> hier.tokens, next |-> hier.next]
         /\ HierTyped'
<1>1. hier.pc \in {"walk", "mark"}
  BY DEF HierarchyShow, HierarchyEndWalk, HierarchyMark
<1>2. \E terminal \in BOOLEAN, pc \in {"mark", "end"} :
               /\ pc = IF terminal THEN "end" ELSE "mark"
               /\ ~terminal => HierarchyShow
               /\ hier' = [Published(hier, terminal) EXCEPT !.pc = pc]
  <2>1. CASE HierarchyShow
    BY <2>1 DEF HierarchyShow
  <2>2. CASE HierarchyEndWalk \/ HierarchyMark
    BY <2>2 DEF HierarchyEndWalk, HierarchyMark
  <2>. QED
    BY <2>1, <2>2
<1>3. PICK terminal \in BOOLEAN, pc \in {"mark", "end"} :
               /\ pc = IF terminal THEN "end" ELSE "mark"
               /\ ~terminal => HierarchyShow
               /\ hier' = [Published(hier, terminal) EXCEPT !.pc = pc]
  BY <1>2
<1>4. /\ hier' = [queue |-> hier.queue, active |-> hier.active, pc |-> pc,
                  accepted |-> hier.accepted, results |-> Shown(terminal),
                  tokens |-> hier.tokens, next |-> hier.next]
      /\ HierTyped'
  BY <1>1, <1>3, PublishedFacts
<1>. QED
  BY <1>1, <1>3, <1>4

LEMMA EndFactsOfWalk ==
  ASSUME HierTyped, HierarchyEnd
  PROVE  /\ hier.pc = "end"
         /\ hier' = [queue |-> hier.queue, active |-> NoRequest, pc |-> "idle",
                     accepted |-> hier.accepted, results |-> hier.results,
                     tokens |-> hier.tokens, next |-> hier.next]
         /\ op' = IF Drained(hier') THEN Released("Hierarchy") ELSE op
         /\ HierTyped'
<1>1. /\ hier' = [hier EXCEPT !.active = NoRequest, !.pc = "idle"]
      /\ op' = IF Drained(hier') THEN Released("Hierarchy") ELSE op
      /\ hier.pc = "end"
  BY DEF HierarchyEnd, Settled
<1>2. hier' = [queue |-> hier.queue, active |-> NoRequest, pc |-> "idle",
               accepted |-> hier.accepted, results |-> hier.results,
               tokens |-> hier.tokens, next |-> hier.next]
  BY <1>1 DEF HierTyped, Hierarchy
<1>3. hier' \in Hierarchy
  BY <1>2, HierarchyFields DEF Hierarchy
<1>. QED
  BY <1>1, <1>2, <1>3 DEF HierTyped

(* The first result of the request, and the results without it. *)
At(id) == SelectInSeq(hier.results, LAMBDA r : r.id = id)

LEMMA TakenFacts ==
  ASSUME HierTyped, NEW id, TakeHierarchy(id)
  PROVE  LET at == At(id)
             results == RemoveAt(hier.results, at)
             over == hier.results[at].terminal
         IN /\ at \in DOMAIN hier.results /\ hier.results[at].id = id
            /\ \A k \in DOMAIN hier.results : hier.results[k].id = id => at <= k
            /\ hier' = [queue |-> hier.queue, active |-> hier.active, pc |-> hier.pc,
                        accepted |-> IF over THEN {r \in hier.accepted : r.id # id} ELSE hier.accepted,
                        results |-> results, tokens |-> hier.tokens, next |-> hier.next]
            /\ op' = IF over /\ Drained(hier') THEN Released("Hierarchy") ELSE op
            /\ HierTyped'
<1>. DEFINE at == At(id)
            results == RemoveAt(hier.results, at)
            over == hier.results[at].terminal
            taken == [hier EXCEPT !.results = results]
            left == {r \in hier.accepted : r.id # id}
<1>1. at \in DOMAIN hier.results /\ hier.results[at].id = id
      /\ \A k \in DOMAIN hier.results : hier.results[k].id = id => at <= k
  <2>1. \E k \in DOMAIN hier.results : hier.results[k].id = id
    BY DEF TakeHierarchy, Ids, ToSet
  <2>. QED
    BY <2>1, HierarchyFields, FirstOf DEF At
<1>2. IF over THEN Settled([taken EXCEPT !.accepted = {r \in @ : r.id # id}])
      ELSE hier' = taken /\ UNCHANGED op
  BY DEF TakeHierarchy, At
<1>3. results \in Seq(Publication)
  BY <1>1, HierarchyFields, Removed
<1>. HIDE DEF results, at
<1>4. taken = [queue |-> hier.queue, active |-> hier.active, pc |-> hier.pc,
               accepted |-> hier.accepted,
               results |-> results, tokens |-> hier.tokens, next |-> hier.next]
  BY DEF HierTyped, Hierarchy
<1>5. [taken EXCEPT !.accepted = {r \in @ : r.id # id}]
        = [queue |-> hier.queue, active |-> hier.active, pc |-> hier.pc,
           accepted |-> left,
           results |-> results, tokens |-> hier.tokens, next |-> hier.next]
  <2>. HIDE DEF taken
  <2>. QED BY <1>4
<1>6. /\ hier' = [queue |-> hier.queue, active |-> hier.active, pc |-> hier.pc,
                  accepted |-> IF over THEN left ELSE hier.accepted,
                  results |-> results, tokens |-> hier.tokens, next |-> hier.next]
      /\ op' = IF over /\ Drained(hier') THEN Released("Hierarchy") ELSE op
  <2>. HIDE DEF taken
  <2>1. CASE over
    BY <1>2, <1>5, <2>1 DEF Settled
  <2>2. CASE ~over
    BY <1>2, <1>4, <2>2
  <2>. QED
    BY <2>1, <2>2
<1>7. hier' \in Hierarchy
  BY <1>3, <1>6, HierarchyFields DEF Hierarchy
<1>8. HierTyped'
  BY <1>6, <1>7 DEF HierTyped
<1>. QED
  BY <1>1, <1>6, <1>8 DEF at, results

(* The positions of what does not belong to the requests that are gone. *)
Left(s, gone) == {k \in DOMAIN s : s[k].id \notin gone}

LEMMA DroppedFacts ==
  ASSUME HierTyped, NEW requests \in SUBSET hier.accepted, NEW h, h = Dropped(requests)
  PROVE  LET gone == {r.id : r \in requests}
         IN /\ h = [queue |-> Retained(hier.queue, Left(hier.queue, gone)), active |-> hier.active,
                    pc |-> hier.pc, accepted |-> hier.accepted \ requests,
                    results |-> Retained(hier.results, Left(hier.results, gone)),
                    tokens |-> hier.tokens \cup gone, next |-> hier.next]
            /\ h \in Hierarchy /\ (h.pc # "idle" => h.active \in Request)
<1>. DEFINE gone == {r.id : r \in requests}
            g == [queue |-> Retained(hier.queue, Left(hier.queue, gone)), active |-> hier.active,
                  pc |-> hier.pc, accepted |-> hier.accepted \ requests,
                  results |-> Retained(hier.results, Left(hier.results, gone)),
                  tokens |-> hier.tokens \cup gone, next |-> hier.next]
<1>1. gone \subseteq Nat
  BY HierarchyFields DEF Request
<1>. HIDE DEF gone
<1>2. /\ Retained(hier.queue, Left(hier.queue, gone)) \in Seq(Request)
      /\ Retained(hier.results, Left(hier.results, gone)) \in Seq(Publication)
  BY HierarchyFields, RetainedFacts
<1>3. h = g
  BY DEF Dropped, Left, HierTyped, Hierarchy, gone
<1>4. g \in Hierarchy /\ (g.pc # "idle" => g.active \in Request)
  BY <1>1, <1>2, HierarchyFields DEF Hierarchy, HierTyped
<1>. QED
  BY <1>3, <1>4 DEF gone

LEMMA SettledFacts ==
  ASSUME NEW h, Settled(h)
  PROVE  hier' = h /\ op' = IF Drained(h) THEN Released("Hierarchy") ELSE op
  BY DEF Settled

LEMMA GoneFacts ==
  ASSUME HierTyped, NEW requests \in SUBSET hier.accepted, Settled(Dropped(requests))
  PROVE  LET gone == {r.id : r \in requests}
         IN /\ hier' = [queue |-> Retained(hier.queue, Left(hier.queue, gone)), active |-> hier.active,
                        pc |-> hier.pc, accepted |-> hier.accepted \ requests,
                        results |-> Retained(hier.results, Left(hier.results, gone)),
                        tokens |-> hier.tokens \cup gone, next |-> hier.next]
            /\ op' = IF Drained(hier') THEN Released("Hierarchy") ELSE op
            /\ HierTyped'
<1>1. PICK h : h = Dropped(requests)
  OBVIOUS
<1>2. hier' = h /\ op' = IF Drained(h) THEN Released("Hierarchy") ELSE op
  BY <1>1, SettledFacts
<1>3. h \in Hierarchy /\ (h.pc # "idle" => h.active \in Request)
  BY <1>1, DroppedFacts
<1>4. HierTyped'
  BY <1>2, <1>3, Zenon DEF HierTyped
<1>. QED
  BY <1>1, <1>2, <1>4, DroppedFacts

LEMMA StopFacts ==
  ASSUME HierTyped, StopBegin
  PROVE  HierTyped' /\ stopped'
<1>. DEFINE ended == [i \in DOMAIN hier.queue |->
                         [id |-> hier.queue[i].id, kind |-> hier.queue[i].kind, terminal |-> TRUE]]
            tokens == hier.tokens \cup Ids(hier.queue)
                         \cup (IF hier.active = NoRequest THEN {} ELSE {hier.active.id})
            h == [queue |-> <<>>, active |-> hier.active, pc |-> hier.pc, accepted |-> hier.accepted,
                  results |-> hier.results \o ended, tokens |-> tokens, next |-> hier.next]
<1>1. \A k \in DOMAIN hier.queue : hier.queue[k] \in Request
  BY HierarchyFields
<1>2. Ids(hier.queue) \subseteq Nat /\ (hier.active # NoRequest => hier.active.id \in Nat)
  BY <1>1, HierarchyFields DEF Ids, ToSet, Request
<1>3. tokens \subseteq Nat
  BY <1>2, HierarchyFields
<1>4. ended \in Seq(Publication)
  <2>1. DOMAIN hier.queue = 1 .. Len(hier.queue) /\ Len(hier.queue) \in Nat
    BY HierarchyFields
  <2>2. \A k \in DOMAIN hier.queue : ended[k] \in Publication
    BY <1>1 DEF Request, Publication
  <2>3. ended \in [1 .. Len(hier.queue) -> Publication]
    BY <2>1, <2>2, Zenon
  <2>. HIDE DEF ended
  <2>. QED
    BY <2>1, <2>3
<1>5. hier' = [hier EXCEPT !.queue = <<>>, !.tokens = tokens, !.results = @ \o ended]
  BY DEF StopBegin, HierarchyStopped
<1>. HIDE DEF ended, tokens
<1>6. hier' = h
  BY <1>5 DEF HierTyped, Hierarchy
<1>7. hier.results \o ended \in Seq(Publication) /\ <<>> \in Seq(Request)
  BY <1>4, HierarchyFields
<1>8. h \in Hierarchy /\ (h.pc # "idle" => h.active \in Request)
  BY <1>3, <1>7, HierarchyFields DEF Hierarchy, HierTyped
<1>. HIDE DEF h
<1>9. HierTyped'
  BY <1>6, <1>8, Zenon DEF HierTyped
<1>. QED
  BY <1>9 DEF StopBegin

(***************************************************************************)
(* The types of every step.                                                *)
(***************************************************************************)
LEMMA HierStepTyped ==
  ASSUME Typed, HierTyped', HomeTyped', CatalogTyped',
         op' \in {op, Free, Begun("Hierarchy")}, stopped' \in BOOLEAN, cancelled' \subseteq Workers,
         UNCHANGED <<eventVars, resultVars, run>>
  PROVE  Typed'
<1>1. SlotTyped'
  BY SlotKinds DEF Typed, SlotTyped
<1>. QED
  BY <1>1 DEF Typed, EventTyped, ResultTyped, RunTyped, eventVars, resultVars

LEMMA CatalogKept == ASSUME Typed, UNCHANGED catalogVars PROVE CatalogTyped'
  BY DEF Typed, CatalogTyped, catalogVars

LEMMA Quiet ==
  ASSUME Typed, HomeTyped', cancelled' \subseteq Workers, stopped' \in BOOLEAN,
         UNCHANGED <<op, catalogVars, eventVars, resultVars, run, hier>>
  PROVE  Typed'
<1>1. HierTyped' /\ CatalogTyped'
  BY CatalogKept DEF Typed, HierTyped
<1>. QED
  BY <1>1, HierStepTyped

LEMMA WalkerTyped ==
  ASSUME Typed, HomeTyped', HierarchyStep
  PROVE  Typed'
<1>0. HierTyped /\ CatalogTyped /\ cancelled \subseteq Workers /\ stopped \in BOOLEAN /\ gen \in Nat
  BY DEF Typed, SlotTyped, ResultTyped, CatalogTyped
<1>1. CASE HierarchyTake
  <2>1. HierTyped'
    BY <1>0, <1>1, TakeFacts
  <2>. QED
    BY <1>0, <1>1, <2>1, CatalogKept, HierStepTyped DEF HierarchyTake, modeVars, slotVars
<1>2. CASE HierarchyShow \/ HierarchyEndWalk
  <2>1. HierTyped'
    BY <1>0, <1>2, WalkerFacts
  <2>. QED
    BY <1>0, <1>2, <2>1, CatalogKept, HierStepTyped
       DEF HierarchyShow, HierarchyEndWalk, modeVars, slotVars
<1>3. CASE HierarchyMark
  <2>1. HierTyped' /\ hier.active \in Request
    BY <1>0, <1>3, WalkerFacts DEF HierTyped
  <2>2. hier.active.force \in BOOLEAN /\ hier.active.g \in Nat
    BY <2>1 DEF Request
  <2>3. CatalogTyped'
    BY <1>0, <1>3, <2>2, MarkedTyped DEF HierarchyMark
  <2>. QED
    BY <1>0, <1>3, <2>1, <2>3, HierStepTyped DEF HierarchyMark, modeVars, slotVars
<1>4. CASE HierarchyEnd
  <2>1. HierTyped' /\ op' \in {op, Free}
    BY <1>0, <1>4, EndFactsOfWalk, SlotKinds
  <2>. QED
    BY <1>0, <1>4, <2>1, CatalogKept, HierStepTyped DEF HierarchyEnd, modeVars
<1>. QED
  BY <1>1, <1>2, <1>3, <1>4 DEF HierarchyStep

LEMMA RequestTyped ==
  ASSUME Typed, HomeTyped', NEW kind \in {"Home", "Screen"}, NEW g \in Nat, NEW force \in BOOLEAN,
         RequestHierarchy(kind, g, force)
  PROVE  Typed'
<1>0. HierTyped /\ CatalogTyped /\ cancelled \subseteq Workers /\ stopped \in BOOLEAN
  BY DEF Typed, SlotTyped, ResultTyped
<1>1. HierTyped'
  BY <1>0, RequestFacts
<1>. QED
  BY <1>0, <1>1, CatalogKept, HierStepTyped DEF RequestHierarchy, modeVars

LEMMA TakeHierarchyTyped ==
  ASSUME Typed, HomeTyped', NEW id, TakeHierarchy(id) \/ CancelHierarchyRequest(id)
  PROVE  Typed'
<1>0. HierTyped /\ CatalogTyped /\ cancelled \subseteq Workers /\ stopped \in BOOLEAN
  BY DEF Typed, SlotTyped, ResultTyped
<1>1. HierTyped' /\ op' \in {op, Free}
  <2>1. CASE TakeHierarchy(id)
    BY <1>0, <2>1, TakenFacts, SlotKinds
  <2>2. CASE CancelHierarchyRequest(id)
    <3>. DEFINE mine == {r \in hier.accepted : r.id = id}
    <3>1. Settled(Dropped(mine)) /\ mine \in SUBSET hier.accepted
      BY <2>2 DEF CancelHierarchyRequest
    <3>. HIDE DEF mine
    <3>. QED
      BY <1>0, <3>1, GoneFacts, SlotKinds
  <2>. QED
    BY <2>1, <2>2
<1>2. UNCHANGED <<modeVars, catalogVars, eventVars, resultVars, cancelled, run>>
  BY DEF TakeHierarchy, CancelHierarchyRequest
<1>. QED
  BY <1>0, <1>1, <1>2, CatalogKept, HierStepTyped DEF modeVars

(* Home takes what is retained for it. *)
LEMMA TakesTyped ==
  ASSUME Typed, HomeTyped', TakeStartup \/ TakeUpdate \/ \E k : TakeReady(k)
  PROVE  Typed'
<1>1. /\ UNCHANGED <<stopped, catalogVars, eventVars, startup, cancelled, run, hier>>
      /\ op' \in {op, Free}
      /\ updates' \in {updates, Tail(updates)} /\ (updates' = updates \/ updates # <<>>)
      /\ ready' \subseteq ready
  BY SlotKinds DEF TakeStartup, TakeUpdate, TakeReady, modeVars, resultVars, slotVars
<1>2. updates' \in Seq(Outs \cup {"page"})
  BY <1>1 DEF Typed, ResultTyped
<1>3. SlotTyped' /\ ResultTyped' /\ HierTyped' /\ CatalogTyped'
  BY <1>1, <1>2, CatalogKept, SlotKinds DEF Typed, SlotTyped, ResultTyped, HierTyped
<1>. QED
  BY <1>1, <1>3 DEF Typed, EventTyped, RunTyped, eventVars

LEMMA FetchFields ==
  ASSUME Typed
  PROVE  /\ gen \in Nat /\ offline \in BOOLEAN => fetch.g \in Nat
         /\ fetch.force \in BOOLEAN /\ fetch.g \in Nat /\ fetch.off \in BOOLEAN
         /\ startup.mode \in Modes
  BY DEF Typed, HomeTyped, Fetch, ResultTyped

LEMMA FetchTyped ==
  ASSUME Typed, offline \in BOOLEAN, FetchStep
  PROVE  Typed'
<1>0. /\ fetch \in Fetch /\ HomeTyped /\ startup.mode \in Modes /\ gen \in Nat
      /\ cancelled \subseteq Workers /\ stopped \in BOOLEAN
  BY DEF Typed, HomeTyped, ResultTyped, CatalogTyped, SlotTyped
<1>1. ASSUME NEW pc, pc \in {"idle", "begun", "spawn", "wait", "ask", "launch", "consume", "done"}
      PROVE  [fetch EXCEPT !.pc = pc] \in Fetch
  BY <1>0, <1>1 DEF Fetch
<1>2. CASE FetchOffline
  <2>1. fetch' \in Fetch /\ UNCHANGED <<coordinatorVars, home>>
    BY <1>1, <1>2 DEF FetchOffline, Fetching
  <2>. QED
    BY <1>0, <2>1, Quiet DEF HomeTyped, coordinatorVars, slotVars, modeVars
<1>3. CASE FetchStartup
  <2>1. CASE Admitted("Startup")
    <3>1. fetch' \in Fetch /\ UNCHANGED home /\ RequestStartup
      BY <1>1, <1>3, <2>1 DEF FetchStartup, Fetching
    <3>. QED
      BY <1>0, <3>1, OperationsTyped DEF HomeTyped
  <2>2. CASE ~Admitted("Startup")
    <3>1. fetch' \in Fetch /\ UNCHANGED <<coordinatorVars, home>>
      BY <1>0, <1>3, <2>2 DEF FetchStartup, Fetch
    <3>. QED
      BY <1>0, <3>1, Quiet DEF HomeTyped, coordinatorVars, slotVars, modeVars
  <2>. QED
    BY <2>1, <2>2
<1>4. ASSUME NEW kind \in {"Startup", "FullPopulation"}, NEW from, NEW to \in {"wait", "consume"},
             FetchSpawned(kind, from, to)
      PROVE  Typed'
  <2>1. fetch' \in Fetch /\ UNCHANGED home
    BY <1>1, <1>4 DEF FetchSpawned, Fetching
  <2>2. cancelled' \subseteq Workers
    BY <1>0, <1>4 DEF FetchSpawned, Cancel, Workers
  <2>3. UNCHANGED <<op, stopped, catalogVars, eventVars, resultVars, run, hier>>
    BY <1>4 DEF FetchSpawned, slotVars, modeVars
  <2>. QED
    BY <1>0, <2>1, <2>2, <2>3, Quiet DEF HomeTyped
<1>5. CASE FetchPolicy
  <2>1. TakeStartup /\ UNCHANGED home /\ gen' = gen
    BY <1>5 DEF FetchPolicy, TakeStartup, catalogVars
  <2>2. fetch' \in Fetch
    BY <1>0, <1>5, <2>1 DEF FetchPolicy, Finished, Fetch
  <2>. QED
    BY <1>0, <2>1, <2>2, TakesTyped DEF HomeTyped
<1>6. CASE FetchNoPolicy
  <2>1. fetch' \in Fetch /\ UNCHANGED <<coordinatorVars, home>>
    BY <1>0, <1>6 DEF FetchNoPolicy, Fetch
  <2>. QED
    BY <1>0, <2>1, Quiet DEF HomeTyped, coordinatorVars, slotVars, modeVars
<1>7. CASE FetchAsk
  <2>1. CASE Admitted("FullPopulation")
    <3>1. fetch' \in Fetch /\ UNCHANGED home /\ RequestPopulation
      BY <1>1, <1>7, <2>1 DEF FetchAsk, Fetching
    <3>. QED
      BY <1>0, <3>1, OperationsTyped DEF HomeTyped
  <2>2. CASE ~Admitted("FullPopulation")
    <3>1. UNCHANGED <<coordinatorVars, home>> /\ fetch' = Finished(TRUE)
      BY <1>7, <2>2 DEF FetchAsk
    <3>2. gen' = gen
      BY <3>1 DEF coordinatorVars, catalogVars
    <3>3. fetch' \in Fetch
      BY <1>0, <3>1, <3>2 DEF Finished, Fetch
    <3>. QED
      BY <1>0, <3>1, <3>3, Quiet DEF HomeTyped, coordinatorVars, slotVars, modeVars
  <2>. QED
    BY <2>1, <2>2
<1>8. CASE FetchConsume
  <2>1. TakeUpdate /\ UNCHANGED home /\ gen' = gen
    BY <1>8 DEF FetchConsume, TakeUpdate, catalogVars
  <2>2. \E b \in BOOLEAN : fetch' \in {fetch, Finished(b)}
    BY <1>8 DEF FetchConsume
  <2>3. fetch' \in Fetch
    BY <1>0, <2>1, <2>2 DEF Finished, Fetch
  <2>. QED
    BY <1>0, <2>1, <2>3, TakesTyped DEF HomeTyped
<1>9. CASE FetchNoUpdate
  <2>1. UNCHANGED <<coordinatorVars, home>> /\ fetch' = Finished(TRUE)
    BY <1>9 DEF FetchNoUpdate
  <2>2. gen' = gen
    BY <2>1 DEF coordinatorVars, catalogVars
  <2>3. fetch' \in Fetch
    BY <1>0, <2>1, <2>2 DEF Finished, Fetch
  <2>. QED
    BY <1>0, <2>1, <2>3, Quiet DEF HomeTyped, coordinatorVars, slotVars, modeVars
<1>. QED
  BY <1>2, <1>3, <1>4, <1>5, <1>6, <1>7, <1>8, <1>9 DEF FetchStep

LEMMA StartedTyped ==
  ASSUME fetch \in Fetch, offline \in BOOLEAN
  PROVE  StartedFetch \in Fetch /\ [StartedFetch EXCEPT !.off = ~offline] \in Fetch
         /\ [fetch EXCEPT !.cancel = TRUE] \in Fetch /\ [fetch EXCEPT !.pc = "idle"] \in Fetch
         /\ StartedFetch.pc = "begun" /\ [StartedFetch EXCEPT !.off = ~offline].pc = "begun"
  BY DEF StartedFetch, Fetch, Modes

LEMMA ApplyTyped ==
  ASSUME Typed, offline \in BOOLEAN, ApplyFetch
  PROVE  Typed'
<1>0. fetch \in Fetch /\ home \in Home /\ cancelled \subseteq Workers /\ stopped \in BOOLEAN
      /\ fetch.force \in BOOLEAN /\ fetch.g \in Nat
  BY DEF Typed, HomeTyped, ResultTyped, SlotTyped, Fetch
<1>1. fetch' \in Fetch
  BY <1>0, StartedTyped DEF ApplyFetch
<1>2. hier.next \in Nat
  BY HierarchyFields DEF Typed
<1>3. ASSUME NEW shown \in BOOLEAN
      PROVE  Presented(shown) \in Home /\ [Presented(shown) EXCEPT !.task = hier.next] \in Home
  BY <1>0, <1>2 DEF Presented, Home
<1>4. PICK shown \in BOOLEAN :
        \/ /\ RequestHierarchy("Home", fetch.g, fetch.force)
           /\ home' = [Presented(shown) EXCEPT !.task = hier.next]
        \/ home' = Presented(shown) /\ UNCHANGED coordinatorVars
  <2>1. home.offline \in BOOLEAN
    BY <1>0 DEF Home
  <2>. QED
    BY <2>1 DEF ApplyFetch
<1>5. HomeTyped'
  BY <1>1, <1>3, <1>4 DEF HomeTyped
<1>. QED
  BY <1>0, <1>4, <1>5, RequestTyped, Quiet DEF coordinatorVars, slotVars, modeVars

LEMMA FrameTyped ==
  ASSUME Typed, offline \in BOOLEAN, Frame \/ Screen
  PROVE  Typed'
<1>0. fetch \in Fetch /\ home \in Home /\ HomeTyped
  BY DEF Typed, HomeTyped
<1>1. CASE TakeLive \/ TakeSafety
  <2>1. home' \in Home /\ UNCHANGED fetch /\ \E k : TakeReady(k)
    BY <1>0, <1>1 DEF TakeLive, TakeSafety, Home
  <2>. QED
    BY <1>0, <2>1, TakesTyped DEF HomeTyped
<1>2. CASE ConsumePrefetch
  <2>1. home' \in Home /\ UNCHANGED fetch /\ \E id : TakeHierarchy(id)
    BY <1>0, <1>2 DEF ConsumePrefetch, Home
  <2>. QED
    BY <1>0, <2>1, TakeHierarchyTyped DEF HomeTyped
<1>3. CASE Screen
  <2>1. home' \in Home /\ UNCHANGED fetch /\ \E id : TakeHierarchy(id)
    BY <1>0, <1>3 DEF Screen, ScreenResult, Home
  <2>. QED
    BY <1>0, <2>1, TakeHierarchyTyped DEF HomeTyped
<1>. QED
  BY <1>1, <1>2, <1>3, ApplyTyped DEF Frame

(* Home's own requests of the hierarchy are dropped, and tokens set. *)
LEMMA CancelTyped ==
  ASSUME Typed, HomeTyped', NEW kinds \in SUBSET Workers, CancelFetch(kinds),
         UNCHANGED <<stopped, catalogVars, eventVars, resultVars, run>>
  PROVE  Typed'
<1>1. cancelled' \subseteq Workers /\ Settled(HomeDropped)
  BY DEF CancelFetch, Cancel, Typed, ResultTyped, Workers
<1>2. HierTyped' /\ op' \in {op, Free}
  <2>1. {r \in hier.accepted : r.kind = "Home"} \in SUBSET hier.accepted
    OBVIOUS
  <2>. QED
    BY <1>1, <2>1, GoneFacts, SlotKinds DEF HomeDropped, Typed
<1>. QED
  BY <1>1, <1>2, CatalogKept, HierStepTyped DEF Typed, SlotTyped

LEMMA ScreenTyped ==
  ASSUME Typed, offline \in BOOLEAN,
         \/ StartFetch \/ ToggleOffline \/ RequestMaintenance \/ OpenScreen
         \/ CloseBegin \/ CloseEnd \/ Stop
         \/ \E id \in home.screens : LeaveScreen(id)
  PROVE  Typed'
<1>0. /\ fetch \in Fetch /\ home \in Home /\ HomeTyped /\ HierTyped /\ CatalogTyped
      /\ cancelled \subseteq Workers /\ stopped \in BOOLEAN
      /\ gen \in Nat /\ hier.next \in Nat
  BY HierarchyFields DEF Typed, HomeTyped, ResultTyped, SlotTyped, CatalogTyped
<1>. USE StartedTyped
<1>1. CASE StartFetch
  <2>1. HomeTyped' /\ UNCHANGED coordinatorVars
    BY <1>0, <1>1 DEF StartFetch, HomeTyped
  <2>. QED
    BY <1>0, <2>1, Quiet DEF coordinatorVars, slotVars, modeVars
<1>2. CASE ToggleOffline
  <2>1. [home EXCEPT !.wanted = TRUE] \in Home /\ [home EXCEPT !.offline = TRUE] \in Home
    BY <1>0 DEF Home
  <2>2. HomeTyped'
    BY <1>0, <1>2, <2>1 DEF ToggleOffline, HomeTyped
  <2>. QED
    BY <1>2, <2>2, CancelTyped DEF ToggleOffline
<1>3. CASE RequestMaintenance
  <2>1. home' \in Home /\ UNCHANGED fetch /\ RequestSafety
    BY <1>0, <1>3 DEF RequestMaintenance, Home
  <2>. QED
    BY <1>0, <2>1, OperationsTyped DEF HomeTyped
<1>4. CASE OpenScreen
  <2>1. home' \in Home /\ UNCHANGED fetch /\ RequestHierarchy("Screen", gen, FALSE)
    BY <1>0, <1>4 DEF OpenScreen, Home
  <2>. QED
    BY <1>0, <2>1, RequestTyped DEF HomeTyped
<1>5. CASE \E id \in home.screens : LeaveScreen(id)
  <2>1. home' \in Home /\ UNCHANGED fetch /\ \E id : CancelHierarchyRequest(id)
    BY <1>0, <1>5 DEF LeaveScreen, Home
  <2>. QED
    BY <1>0, <2>1, TakeHierarchyTyped DEF HomeTyped
<1>6. CASE CloseBegin
  <2>1. home' \in Home
    BY <1>0, <1>6 DEF CloseBegin, Home
  <2>2. HomeTyped'
    BY <1>0, <1>6, <2>1 DEF CloseBegin, HomeTyped
  <2>3. {"LiveChange", "SafetyReconcile"} \in SUBSET Workers
    BY DEF Workers
  <2>. QED
    BY <1>6, <2>2, <2>3, CancelTyped DEF CloseBegin, modeVars
<1>7. CASE CloseEnd
  <2>1. home' \in Home
    BY <1>0, <1>7 DEF CloseEnd, Home
  <2>2. HomeTyped'
    BY <1>0, <1>7, <2>1 DEF CloseEnd, HomeTyped
  <2>. QED
    BY <1>0, <1>7, <2>2, Quiet DEF CloseEnd, modeVars
<1>8. CASE Stop
  <2>1. StopBegin /\ HomeTyped' /\ HierTyped'
    BY <1>0, <1>8, StopFacts DEF Stop, HomeTyped
  <2>. QED
    BY <1>0, <2>1, CatalogKept, HierStepTyped DEF StopBegin, slotVars
<1>. QED
  BY <1>1, <1>2, <1>3, <1>4, <1>5, <1>6, <1>7, <1>8

LEMMA ServerTyped ==
  ASSUME Typed, Server \/ Reconnect
  PROVE  Typed'
<1>0. /\ source \in Ticket /\ queue \in Ticket /\ batch \in Ticket /\ RunTyped /\ CatalogTyped
      /\ barrier \in BOOLEAN /\ linked \in BOOLEAN
  BY DEF Typed, EventTyped
<1>1. CASE SocketDown \/ SocketUp
  <2>1. source' \in Ticket
    BY <1>0, <1>1, Marking DEF SocketDown, SocketUp
  <2>2. UNCHANGED <<op, stopped, catalogVars, queue, barrier, batch, resultVars, cancelled, run, hier, fetch, home>>
        /\ linked' \in BOOLEAN
    BY <1>1 DEF SocketDown, SocketUp, Server, Reconnect, modeVars, slotVars
  <2>3. EventTyped'
    BY <1>0, <2>1, <2>2 DEF EventTyped
  <2>. QED
    BY <2>2, <2>3, CatalogKept DEF Typed, SlotTyped, ResultTyped, RunTyped, HierTyped, HomeTyped, resultVars
<1>2. ASSUME NEW i \in Items, ServerChange(i) PROVE Typed'
  <2>1. RunTyped'
    BY <1>0, <1>2, ServerFacts
  <2>2. UNCHANGED <<op, stopped, gen, disk, txn, linked, queue, barrier, batch, resultVars, cancelled, hier, fetch, home>>
    BY <1>2 DEF ServerChange, Server, Reconnect, SocketUp, modeVars, slotVars
  <2>. DEFINE new == [ids |-> {i}, catchUp |-> FALSE]
  <2>3. source' \in Ticket /\ excused' \subseteq Items
    <3>1. CASE linked
      <4>1. new \in Ticket /\ new.ids = {i}
        BY DEF Ticket
      <4>2. PICK kept \in Kept(source, {i}) : source' = Pushed(source, new, kept)
        BY <1>2, <3>1 DEF ServerChange
      <4>. HIDE DEF new
      <4>3. source' \in Ticket
        BY <1>0, <4>1, <4>2, Tickets
      <4>. QED
        BY <1>0, <1>2, <3>1, <4>3 DEF ServerChange, CatalogTyped
    <3>2. CASE ~linked
      BY <1>0, <1>2, <3>2 DEF ServerChange, CatalogTyped
    <3>. QED
      BY <3>1, <3>2
  <2>4. CatalogTyped'
    BY <1>0, <1>2, <2>2, <2>3 DEF ServerChange, CatalogTyped
  <2>5. EventTyped'
    BY <1>0, <2>2, <2>3 DEF EventTyped
  <2>. QED
    BY <2>1, <2>2, <2>4, <2>5 DEF Typed, SlotTyped, ResultTyped, HierTyped, HomeTyped, resultVars
<1>. QED
  BY <1>1, <1>2 DEF Server, Reconnect

LEMMA NextTyped == Typed /\ IInv /\ [Next]_vars => Typed'
<1> SUFFICES ASSUME Typed, IInv, [Next]_vars PROVE Typed'
  OBVIOUS
<1>0. offline \in BOOLEAN /\ HomeTyped /\ cancelled \subseteq Workers /\ stopped \in BOOLEAN
  BY DEF IInv, Shape, Typed, ResultTyped, SlotTyped
<1>1. CASE UNCHANGED vars
  BY <1>0, <1>1, Quiet DEF HomeTyped, vars, coordinatorVars, slotVars, modeVars
<1>2. CASE Walker
  BY <1>0, <1>2, WalkerTyped DEF Walker, HomeTyped
<1>3. ASSUME NEW w \in Workers, Worker(w) PROVE Typed'
  <2>1. HomeTyped' /\ UNCHANGED <<fetch, home>> /\ Step(w)
    BY <1>0, <1>3 DEF Worker, HomeTyped
  <2>. QED
    BY <2>1, WorkersTyped, OperationsTyped, LiveTyped DEF Step
<1>. QED
  BY <1>0, <1>1, <1>2, <1>3, FetchTyped, FrameTyped, ScreenTyped, ServerTyped DEF Next

LEMMA InitTyped == Init => Typed
<1> SUFFICES ASSUME Init PROVE Typed
  OBVIOUS
<1>1. SlotTyped /\ CatalogTyped /\ EventTyped
  <2>1. SlotTyped /\ EventTyped
    BY SlotKinds, Emptied DEF Init, SlotTyped, EventTyped
  <2>2. disk \in Disk
    <3>1. /\ [succ |-> FALSE, rec |-> FALSE, gen |-> 0] \in Disk
          /\ [succ |-> TRUE, rec |-> TRUE, gen |-> 1] \in Disk
      BY DEF Disk
    <3>. QED
      BY <3>1 DEF Init
  <2>3. missed \subseteq Items /\ hidden = {} /\ excused = {} /\ gen = 0 /\ txn = "None"
    BY DEF Init
  <2>. QED
    BY <2>1, <2>2, <2>3 DEF CatalogTyped
<1>2. ResultTyped
  BY DEF Init, ResultTyped, NoStartup, Modes, Outs, Workers
<1>3. RunTyped
  BY Idle DEF Init, RunTyped
<1>4. HierTyped
  BY DEF Init, HierTyped, Hierarchy, NoHierarchy
<1>5. HomeTyped
  BY DEF Init, HomeTyped, Fetch, Home, Modes
<1>. QED
  BY <1>1, <1>2, <1>3, <1>4, <1>5 DEF Typed

LEMMA AlwaysTyped == Spec => [](Typed /\ IInv)
<1>1. Init => Typed /\ IInv
  BY InitTyped, InitInv
<1>2. (Typed /\ IInv) /\ [Next]_vars => (Typed /\ IInv)'
  BY NextTyped, NextInv
<1>. QED
  BY <1>1, <1>2, PTL DEF Spec

(* For every value of the constants, the state keeps its types: the slot, the catalog, the      *)
(* queues, the records of the threads and of the hierarchy worker.                              *)
THEOREM AlwaysTypeOK == Spec => []TypeOK
<1>1. Typed /\ IInv => TypeOK
  <2> SUFFICES ASSUME Typed, IInv PROVE TypeOK
    OBVIOUS
  <2>1. \A w \in Workers : run[w].got \subseteq Items /\ run[w].todo \subseteq Items
    BY DEF Typed, RunTyped, RunRecord
  <2>2. ToSet(hier.queue) \cup hier.accepted \subseteq Request
    BY HierarchyFields DEF Typed, ToSet
  <2>3. SlotTyped /\ CatalogTyped /\ EventTyped /\ ResultTyped /\ seq \in Sequence /\ offline \in BOOLEAN
    BY DEF Typed, IInv, Shape
  <2>. QED
    BY <2>1, <2>2, <2>3 DEF TypeOK, SlotTyped, CatalogTyped, EventTyped, ResultTyped, Sequence, Disk
<1>. QED
  BY AlwaysTyped, <1>1, PTL

(***************************************************************************)
(* What the catalog lacks and nothing on its way will bring.               *)
(***************************************************************************)
OnTheWay   == source.ids \cup queue.ids \cup excused
Coming     == source.ids \cup queue.ids \cup batch.ids \cup excused
Unaccounted == missed \ Coming
Whole      == missed \subseteq Coming

Walking(w) ==
    /\ run[w].pc = "page" => Unaccounted \subseteq run[w].todo
    /\ run[w].pc \in {"final", "walked"} => Whole
    /\ run[w].pc \in {"fetch", "write", "mark"} => disk.succ
Reported ==
    /\ run["FullPopulation"].pc = "publish" /\ run["FullPopulation"].out = "ok" => Whole
    /\ run["Startup"].mode # "FullReconcile" => Whole
Announced ==
    /\ startup.mode # "FullReconcile" => Whole
    /\ \A k \in DOMAIN updates : updates[k] = "ok" => Whole
Fetched == fetch.pc = "done" /\ ~fetch.off /\ ~fetch.failed => Whole
Prefetched ==
    /\ \A k \in DOMAIN hier.queue : hier.queue[k].kind = "Home" => Whole
    /\ hier.pc # "idle" /\ hier.active.kind = "Home" => Whole
    /\ hier.pc = "mark" => hier.active.kind = "Home"
Served == Fetched /\ Prefetched
Applied ==
    /\ run["LiveChange"].pc = "none" => batch = EmptyQueue
    /\ run["LiveChange"].pc = "put" => missed \cap batch.ids \subseteq run["LiveChange"].got \cup OnTheWay
    /\ run["LiveChange"].pc = "publish" /\ run["LiveChange"].out = "ok"
          => missed \cap batch.ids \subseteq OnTheWay
AccountInv ==
    /\ hidden \subseteq Coming
    /\ disk.succ => Whole
    /\ \A w \in Workers : Walking(w)
    /\ Reported /\ Announced /\ Served /\ Applied

(* The catalog lacks no more than before, and what was on its way still is. *)
Shrinks ==
    /\ source' = source /\ queue' = queue /\ batch' = batch /\ excused' = excused
    /\ missed' \subseteq missed

LEMMA Shrunk ==
  ASSUME Shrinks
  PROVE  /\ Coming' = Coming /\ OnTheWay' = OnTheWay /\ Unaccounted' \subseteq Unaccounted
         /\ Whole => Whole'
  BY DEF Shrinks, Coming, OnTheWay, Unaccounted, Whole

(* A step of the worker w on the catalog. *)
LEMMA WorkAccount ==
  ASSUME AccountInv, Typed, NEW w \in Workers, Alone(run', w), Shrinks, hidden' \subseteq Coming,
         disk.succ => disk'.succ, disk'.succ => Whole,
         Walking(w)',
         w = "FullPopulation" /\ run'[w].pc = "publish" /\ run'[w].out = "ok" => Whole,
         w = "Startup" /\ run'[w].mode # "FullReconcile" => Whole,
         w = "LiveChange" => Applied',
         updates' \in {updates, Append(updates, "page")},
         UNCHANGED <<startup, hier, fetch>>
  PROVE  AccountInv'
<1>1. Whole => Whole'
  BY Shrunk
<1>2. \A v \in Workers : Walking(v)'
  <2>1. ASSUME NEW v \in Workers, v # w PROVE Walking(v)'
    <3>1. run'[v] = run[v] /\ Walking(v)
      BY <2>1 DEF Alone, AccountInv
    <3>. QED
      BY <1>1, <3>1, Shrunk DEF Walking
  <2>. QED
    BY <2>1
<1>3. Reported'
  <2>1. "FullPopulation" \in Workers /\ "Startup" \in Workers /\ "FullPopulation" # "Startup"
    BY DEF Workers
  <2>. QED
    BY <1>1, <2>1 DEF Alone, AccountInv, Reported
<1>4. Announced'
  <2>1. \A k \in DOMAIN updates' : updates'[k] = "ok" => \E j \in DOMAIN updates : updates[j] = "ok"
    BY DEF Typed, ResultTyped
  <2>. QED
    BY <1>1, <2>1 DEF AccountInv, Announced
<1>5. Served'
  BY <1>1 DEF AccountInv, Served, Fetched, Prefetched
<1>6. Applied'
  <2>1. CASE w # "LiveChange"
    <3>1. run'["LiveChange"] = run["LiveChange"]
      BY <2>1 DEF Alone, Workers
    <3>. QED
      BY <3>1, Shrunk DEF AccountInv, Applied, Shrinks
  <2>. QED
    BY <2>1
<1>7. hidden' \subseteq Coming' /\ (disk'.succ => Whole')
  BY <1>1, Shrunk
<1>. QED
  BY <1>2, <1>3, <1>4, <1>5, <1>6, <1>7 DEF AccountInv

LEMMA LiveGoesOn ==
  ASSUME run'["LiveChange"].pc \notin {"none", "put"},
         run'["LiveChange"].pc = "publish" => run'["LiveChange"].out # "ok"
  PROVE  Applied'
  BY DEF Applied

LEMMA StoredShrinks ==
  ASSUME NEW ids, Stored(ids), AccountInv, UNCHANGED <<source, queue, batch, excused, disk>>
  PROVE  /\ Shrinks /\ hidden' \subseteq Coming
         /\ (disk.succ => disk'.succ) /\ (disk'.succ => Whole)
         /\ missed' = missed \ ids
  BY DEF Stored, Shrinks, AccountInv

LEMMA MarkShrinks ==
  ASSUME NEW g, NEW rec, Marked(TRUE, rec, g) \/ MarkFails(rec, g), AccountInv, Whole,
         UNCHANGED <<source, queue, batch, excused, missed>>
  PROVE  /\ Shrinks /\ hidden' \subseteq Coming
         /\ (disk.succ => disk'.succ) /\ (disk'.succ => Whole)
<1>1. CASE Marked(TRUE, rec, g)
  BY <1>1 DEF Marked, Shrinks, AccountInv, Whole
<1>2. CASE MarkFails(rec, g)
  BY <1>2 DEF MarkFails, Shrinks, AccountInv, Whole
<1>. QED
  BY <1>1, <1>2

LEMMA StillShrinks ==
  ASSUME AccountInv, UNCHANGED <<source, queue, batch, excused, missed, hidden, disk>>
  PROVE  /\ Shrinks /\ hidden' \subseteq Coming
         /\ (disk.succ => disk'.succ) /\ (disk'.succ => Whole)
  BY DEF Shrinks, AccountInv

LEMMA WorkersAccount ==
  ASSUME AccountInv, Typed, NEW w \in Workers, UNCHANGED fetch,
         \/ GiveUp(w) \/ ReadState(w) \/ CatchUpFetch(w) \/ CatchUpWrite(w) \/ CatchUpMark(w)
         \/ WalkBegin(w) \/ WalkPage(w) \/ WalkFinalize(w) \/ WalkMark(w)
         \/ (w = "Startup" /\ ReadStartup)
  PROVE  AccountInv'
<1>. RunTyped /\ CatalogTyped /\ gen \in Nat /\ disk \in Disk /\ missed \subseteq Items
  BY DEF Typed, CatalogTyped
<1>. Walking(w) /\ (disk.succ => Whole) /\ (run["Startup"].mode # "FullReconcile" => Whole)
  BY DEF AccountInv, Reported
<1>1. CASE GiveUp(w)
  <2>1. /\ Alone(run', w) /\ run'[w].pc = "publish" /\ run'[w].out \in {"failed", "cancelled"}
        /\ run'[w].mode = run[w].mode
    BY <1>1, GiveUpFacts
  <2>2. UNCHANGED <<disk, missed, hidden, excused, source, queue, batch, startup, updates, hier>>
    BY <1>1 DEF GiveUp, eventVars, resultVars
  <2>3. Walking(w)' /\ (w = "LiveChange" => Applied')
    BY <2>1, LiveGoesOn DEF Walking
  <2>. QED
    BY <2>1, <2>2, <2>3, StillShrinks, WorkAccount
<1>2. CASE ReadState(w)
  <2>1. /\ Alone(run', w) /\ run'[w].pc \in {"fetch", "begin"} /\ (run'[w].pc = "fetch" => disk.succ)
        /\ run'[w].mode = run[w].mode
    BY <1>2, ReadStateFacts
  <2>2. UNCHANGED <<disk, missed, hidden, excused, source, queue, batch, startup, updates, hier>>
    BY <1>2 DEF ReadState, eventVars, resultVars
  <2>3. Walking(w)' /\ (w = "LiveChange" => Applied')
    BY <2>1, <2>2, LiveGoesOn DEF Walking
  <2>. QED
    BY <2>1, <2>2, <2>3, StillShrinks, WorkAccount
<1>3. CASE w = "Startup" /\ ReadStartup
  <2>1. /\ Alone(run', w) /\ run'[w].pc \in {"publish", "fetch"} /\ (run'[w].pc = "fetch" => disk.succ)
        /\ run'[w].mode \notin {"FullReconcile", run["Startup"].mode} => disk.succ
    BY <1>3, ReadStartupFacts
  <2>2. UNCHANGED <<disk, missed, hidden, excused, source, queue, batch, startup, updates, hier>>
    BY <1>3 DEF ReadStartup, eventVars, resultVars
  <2>3. Walking(w)' /\ w # "LiveChange" /\ w # "FullPopulation"
    BY <1>3, <2>1, <2>2 DEF Walking
  <2>4. run'[w].mode # "FullReconcile" => Whole
    BY <1>3, <2>1
  <2>. QED
    BY <2>1, <2>2, <2>3, <2>4, StillShrinks, WorkAccount
<1>4. CASE CatchUpFetch(w)
  <2>1. Alone(run', w) /\ run'[w].pc \in {"mark", "write"} /\ run'[w].mode = run[w].mode
    BY <1>4, CatchUpFacts
  <2>2. /\ UNCHANGED <<disk, missed, hidden, excused, source, queue, batch, startup, updates, hier>>
        /\ run[w].pc = "fetch"
    BY <1>4 DEF CatchUpFetch, catalogVars, eventVars, resultVars
  <2>3. Walking(w)' /\ (w = "LiveChange" => Applied')
    BY <2>1, <2>2, LiveGoesOn DEF Walking
  <2>. QED
    BY <2>1, <2>2, <2>3, StillShrinks, WorkAccount
<1>5. CASE CatchUpWrite(w)
  <2>1. Alone(run', w) /\ run'[w].pc = "mark" /\ run'[w].mode = run[w].mode
    BY <1>5, CatchUpFacts
  <2>2. /\ UNCHANGED <<disk, excused, source, queue, batch, startup, updates, hier>>
        /\ run[w].pc = "write" /\ Stored(run[w].got)
    BY <1>5 DEF CatchUpWrite, eventVars, resultVars
  <2>3. Walking(w)' /\ (w = "LiveChange" => Applied')
    BY <2>1, <2>2, LiveGoesOn DEF Walking
  <2>. QED
    BY <2>1, <2>2, <2>3, StoredShrinks, WorkAccount
<1>6. CASE CatchUpMark(w)
  <2>1. /\ Alone(run', w) /\ run'[w].mode = run[w].mode
        /\ \/ run'[w].pc = "publish" /\ run'[w].out = "failed"
           \/ run'[w].pc = "publish" /\ run'[w].out = "ok" /\ w = "Startup"
           \/ run'[w].pc \in {"get", "begin"}
    BY <1>6, CatchUpFacts
  <2>2. /\ UNCHANGED <<missed, excused, source, queue, batch, startup, updates, hier>>
        /\ run[w].pc = "mark" /\ (Marked(TRUE, disk.rec, run[w].g) \/ MarkFails(disk.rec, run[w].g))
    BY <1>6 DEF CatchUpMark, eventVars, resultVars
  <2>3. Walking(w)' /\ (w = "LiveChange" => Applied') /\ Whole
    BY <2>1, <2>2, LiveGoesOn DEF Walking
  <2>4. w = "FullPopulation" => ~(run'[w].pc = "publish" /\ run'[w].out = "ok")
    BY <2>1
  <2>. QED
    BY <2>1, <2>2, <2>3, <2>4, MarkShrinks, WorkAccount
<1>7. CASE WalkBegin(w)
  <2>1. Alone(run', w) /\ run'[w].pc = "page" /\ run'[w].todo = Items /\ run'[w].mode = run[w].mode
    BY <1>7, WalkFacts
  <2>2. UNCHANGED <<disk, missed, hidden, excused, source, queue, batch, startup, updates, hier>>
    BY <1>7 DEF WalkBegin, eventVars, resultVars
  <2>3. Walking(w)' /\ (w = "LiveChange" => Applied')
    BY <2>1, <2>2, LiveGoesOn DEF Walking, Unaccounted
  <2>. QED
    BY <2>1, <2>2, <2>3, StillShrinks, WorkAccount
<1>8. CASE WalkPage(w)
  <2>1. Alone(run', w) /\ run'[w].mode = run[w].mode /\ run[w].pc = "page"
    BY <1>8, WalkFacts DEF WalkPage
  <2>2. PICK i \in run[w].todo :
               /\ Stored({i}) /\ run'[w].todo = run[w].todo \ {i}
               /\ run'[w].pc = IF run[w].todo = {i} THEN "final" ELSE "page"
    BY <1>8, WalkFacts
  <2>3. /\ UNCHANGED <<disk, excused, source, queue, batch, startup, hier>>
        /\ updates' \in {updates, Append(updates, "page")}
    BY <1>8 DEF WalkPage, eventVars
  <2>4. missed' = missed \ {i} /\ Coming' = Coming
    BY <2>2, <2>3, StoredShrinks, Shrunk
  <2>5. Unaccounted' = Unaccounted \ {i} /\ Unaccounted \subseteq run[w].todo
    BY <2>1, <2>4 DEF Unaccounted, Walking
  <2>6. run[w].todo = {i} => Whole'
    BY <2>5 DEF Unaccounted, Whole
  <2>7. Walking(w)' /\ (w = "LiveChange" => Applied')
    BY <2>2, <2>5, <2>6, LiveGoesOn DEF Walking
  <2>8. run'[w].pc # "publish"
    BY <2>2
  <2>. QED
    BY <2>1, <2>2, <2>3, <2>7, <2>8, StoredShrinks, WorkAccount
<1>9. CASE WalkFinalize(w)
  <2>1. /\ Alone(run', w) /\ run'[w].mode = run[w].mode
        /\ \/ run'[w].pc = "publish" /\ run'[w].out = "failed"
           \/ run'[w].pc = "walked"
    BY <1>9, WalkFacts
  <2>2. /\ UNCHANGED <<disk, missed, hidden, excused, source, queue, batch, startup, updates, hier>>
        /\ run[w].pc = "final"
    BY <1>9 DEF WalkFinalize, eventVars, resultVars
  <2>3. Walking(w)' /\ (w = "LiveChange" => Applied')
    BY <2>1, <2>2, StillShrinks, Shrunk, LiveGoesOn DEF Walking
  <2>. QED
    BY <2>1, <2>2, <2>3, StillShrinks, WorkAccount
<1>10. CASE WalkMark(w)
  <2>1. /\ Alone(run', w) /\ run'[w].mode = run[w].mode
        /\ \/ /\ run'[w].pc = "publish" /\ run'[w].out \in {"ok", "failed"}
              /\ w = "LiveChange" => run'[w].out = "failed"
           \/ run'[w].pc = "get" /\ w = "LiveChange"
    BY <1>10, WalkFacts
  <2>2. /\ UNCHANGED <<missed, excused, source, queue, batch, startup, updates, hier>>
        /\ run[w].pc = "walked" /\ (Marked(TRUE, TRUE, run[w].g) \/ MarkFails(TRUE, run[w].g))
    BY <1>10 DEF WalkMark, eventVars, resultVars
  <2>3. Walking(w)' /\ (w = "LiveChange" => Applied') /\ Whole
    BY <2>1, <2>2, LiveGoesOn DEF Walking
  <2>. QED
    BY <2>1, <2>2, <2>3, MarkShrinks, WorkAccount
<1>. QED
  BY <1>1, <1>2, <1>3, <1>4, <1>5, <1>6, <1>7, <1>8, <1>9, <1>10

(* A step that leaves the workers where they are. *)
LEMMA RestAccount ==
  ASSUME AccountInv, Shrinks, hidden' \subseteq Coming, disk.succ => disk'.succ, disk'.succ => Whole,
         UNCHANGED run, Announced', Served'
  PROVE  AccountInv'
<1>1. Whole => Whole'
  BY Shrunk
<1>2. \A v \in Workers : Walking(v)'
  BY <1>1, Shrunk DEF AccountInv, Walking
<1>3. Reported' /\ Applied'
  BY <1>1, Shrunk DEF AccountInv, Reported, Applied, Shrinks
<1>4. hidden' \subseteq Coming' /\ (disk'.succ => Whole')
  BY <1>1, Shrunk
<1>. QED
  BY <1>2, <1>3, <1>4 DEF AccountInv

(* A step by which the operation of the worker w begins or ends. *)
LEMMA EdgeAccount ==
  ASSUME AccountInv, Typed, NEW w \in Workers, Alone(run', w),
         UNCHANGED <<missed, hidden, disk, source, queue, batch, excused>>,
         run'[w].pc \in {"none", "join", "read", "begin", "get"},
         run'[w].mode \in {"FullReconcile", run[w].mode},
         w = "LiveChange" => run'[w].pc # "none",
         Announced', Served'
  PROVE  AccountInv'
<1>0. Shrinks /\ hidden' \subseteq Coming /\ (disk.succ => disk'.succ) /\ (disk'.succ => Whole)
  BY StillShrinks
<1>1. Whole => Whole'
  BY <1>0, Shrunk
<1>2. ASSUME NEW v \in Workers PROVE Walking(v)'
  <2>1. CASE v = w
    BY <2>1 DEF Walking
  <2>2. CASE v # w
    <3>1. run'[v] = run[v] /\ Walking(v)
      BY <2>2 DEF Alone, AccountInv
    <3>. QED
      BY <1>0, <1>1, <3>1, Shrunk DEF Walking
  <2>. QED
    BY <2>1, <2>2
<1>3. Reported'
  <2>1. "FullPopulation" \in Workers /\ "Startup" \in Workers
    BY DEF Workers
  <2>. QED
    BY <1>1, <2>1 DEF Alone, AccountInv, Reported
<1>4. Applied'
  <2>1. CASE w # "LiveChange"
    <3>1. run'["LiveChange"] = run["LiveChange"]
      BY <2>1 DEF Alone, Workers
    <3>. QED
      BY <1>0, <3>1, Shrunk DEF AccountInv, Applied, Shrinks
  <2>2. CASE w = "LiveChange"
    BY <2>2 DEF Applied
  <2>. QED
    BY <2>1, <2>2
<1>5. hidden' \subseteq Coming' /\ (disk'.succ => Whole')
  BY <1>0, <1>1, Shrunk
<1>. QED
  BY <1>2, <1>3, <1>4, <1>5 DEF AccountInv

LEMMA WholeKept ==
  ASSUME UNCHANGED <<missed, source, queue, batch, excused>>
  PROVE  Whole' <=> Whole
  BY DEF Whole, Coming

LEMMA ServedKept ==
  ASSUME AccountInv, UNCHANGED <<missed, source, queue, batch, excused>>, UNCHANGED <<fetch, hier>>
  PROVE  Served'
  BY WholeKept DEF AccountInv, Served, Fetched, Prefetched

LEMMA AnnouncedKept ==
  ASSUME AccountInv, UNCHANGED <<missed, source, queue, batch, excused>>, UNCHANGED <<startup, updates>>
  PROVE  Announced'
  BY WholeKept DEF AccountInv, Announced

LEMMA OperationsAccount ==
  ASSUME AccountInv, Typed, Served',
         \/ \E w \in {"Startup", "FullPopulation"} : Launch(w) /\ ~stopped
         \/ PublishStartup \/ PublishPopulation \/ PublishSafety \/ RequestSafety
         \/ RequestStartup \/ RequestPopulation
  PROVE  AccountInv'
<1>0. RunTyped /\ gen \in Nat /\ "join" \in Pcs /\ "read" \in Pcs
      /\ updates \in Seq(Outs \cup {"page"})
  BY DEF Typed, CatalogTyped, ResultTyped, Pcs, Interruptible
<1>. /\ "Startup" \in Workers /\ "FullPopulation" \in Workers /\ "SafetyReconcile" \in Workers
     /\ "Startup" # "LiveChange" /\ "FullPopulation" # "LiveChange" /\ "SafetyReconcile" # "LiveChange"
  BY DEF Workers
<1>1. ASSUME NEW w \in {"Startup", "FullPopulation"}, Launch(w), ~stopped PROVE AccountInv'
  <2>1. /\ Alone(run', w) /\ w \in Workers
        /\ run'[w].pc \in {"read", "begin"} /\ run'[w].mode = run[w].mode
        /\ startup' \in {NoStartup, startup}
    BY <1>0, <1>1, LaunchFacts
  <2>2. UNCHANGED <<missed, hidden, disk, source, queue, batch, excused, updates>>
    BY <1>1 DEF Launch, catalogVars, eventVars
  <2>3. Announced'
    BY <2>1, <2>2, WholeKept DEF Announced, AccountInv, NoStartup
  <2>. QED
    BY <1>1, <2>1, <2>2, <2>3, EdgeAccount
<1>2. CASE PublishStartup
  <2>1. Alone(run', "Startup") /\ run'["Startup"].pc = "none" /\ run'["Startup"].mode = "FullReconcile"
    BY <1>0, <1>2, EndFacts DEF PublishStartup
  <2>2. UNCHANGED <<missed, hidden, disk, source, queue, batch, excused, updates>>
        /\ startup'.mode = run["Startup"].mode
    BY <1>2 DEF PublishStartup, catalogVars, eventVars
  <2>3. Announced'
    BY <2>2, WholeKept DEF Announced, AccountInv, Reported
  <2>. QED
    BY <2>1, <2>2, <2>3, EdgeAccount
<1>3. CASE PublishPopulation
  <2>1. /\ Alone(run', "FullPopulation") /\ run'["FullPopulation"].pc = "none"
        /\ run'["FullPopulation"].mode = "FullReconcile"
    BY <1>0, <1>3, EndFacts DEF PublishPopulation
  <2>2. /\ UNCHANGED <<missed, hidden, disk, source, queue, batch, excused, startup>>
        /\ updates' = Append(updates, run["FullPopulation"].out)
        /\ run["FullPopulation"].pc = "publish"
    BY <1>3 DEF PublishPopulation, catalogVars, eventVars
  <2>3. \A k \in DOMAIN updates' : \/ k \in DOMAIN updates /\ updates'[k] = updates[k]
                                   \/ updates'[k] = run["FullPopulation"].out
    BY <1>0, <2>2
  <2>4. Announced'
    BY <2>2, <2>3, WholeKept DEF Announced, AccountInv, Reported
  <2>. QED
    BY <2>1, <2>2, <2>4, EdgeAccount
<1>4. CASE PublishSafety
  <2>1. /\ Alone(run', "SafetyReconcile") /\ run'["SafetyReconcile"].pc = "none"
        /\ run'["SafetyReconcile"].mode = "FullReconcile"
    BY <1>0, <1>4, EndFacts DEF PublishSafety
  <2>2. UNCHANGED <<missed, hidden, disk, source, queue, batch, excused, startup, updates>>
    BY <1>4 DEF PublishSafety, catalogVars, eventVars
  <2>. QED
    BY <2>1, <2>2, AnnouncedKept, EdgeAccount
<1>5. CASE RequestSafety
  <2>1. /\ Alone(run', "SafetyReconcile") /\ run'["SafetyReconcile"].pc = "read"
        /\ run'["SafetyReconcile"].mode = "FullReconcile"
    BY <1>0, <1>5, StartFacts DEF RequestSafety
  <2>2. UNCHANGED <<missed, hidden, disk, source, queue, batch, excused, startup, updates>>
    BY <1>5 DEF RequestSafety, catalogVars, eventVars, resultVars
  <2>. QED
    BY <2>1, <2>2, AnnouncedKept, EdgeAccount
<1>6. ASSUME NEW w \in {"Startup", "FullPopulation"}, Admit(w),
             UNCHANGED <<catalogVars, eventVars, startup>>
      PROVE  AccountInv'
  <2>1. Alone(run', w) /\ run'[w].pc = "join" /\ run'[w].mode = "FullReconcile"
    <3>1. run' = [run EXCEPT ![w] = [IdleRun EXCEPT !.pc = "join"]] /\ w \in Workers
      BY <1>6 DEF Admit
    <3>. QED
      BY <1>0, <3>1, StartFacts
  <2>2. /\ UNCHANGED <<missed, hidden, disk, source, queue, batch, excused, startup>>
        /\ updates' \in {updates, <<>>}
    BY <1>6 DEF Admit, catalogVars, eventVars
  <2>3. Announced'
    BY <2>2, WholeKept DEF Announced, AccountInv
  <2>. QED
    BY <1>6, <2>1, <2>2, <2>3, EdgeAccount
<1>. QED
  BY <1>1, <1>2, <1>3, <1>4, <1>5, <1>6 DEF RequestStartup, RequestPopulation

(***************************************************************************)
(* The live worker moves what is on its way.                               *)
(***************************************************************************)
(* What was on its way stays so, wherever it is kept; the catalog lacks no more. *)
LEMMA LiveAccount ==
  ASSUME AccountInv, Typed, Alone(run', "LiveChange"),
         missed' \subseteq missed, missed' \cap Coming \subseteq Coming', hidden' \subseteq hidden, hidden' \subseteq missed',
         UNCHANGED <<disk, startup, updates, hier, fetch>>,
         run'["LiveChange"].pc \in {"none", "read", "get", "put", "publish"},
         Applied'
  PROVE  AccountInv'
<1>1. (Whole => Whole') /\ Unaccounted' \subseteq Unaccounted /\ hidden' \subseteq Coming'
  BY DEF Whole, Unaccounted, AccountInv
<1>2. ASSUME NEW v \in Workers PROVE Walking(v)'
  <2>1. CASE v = "LiveChange"
    BY <2>1 DEF Walking
  <2>2. CASE v # "LiveChange"
    <3>1. run'[v] = run[v] /\ Walking(v)
      BY <2>2 DEF Alone, AccountInv
    <3>. QED
      BY <1>1, <3>1 DEF Walking
  <2>. QED
    BY <2>1, <2>2
<1>3. Reported' /\ Announced' /\ Served'
  <2>1. run'["Startup"] = run["Startup"] /\ run'["FullPopulation"] = run["FullPopulation"]
    BY DEF Alone, Workers
  <2>. QED
    BY <1>1, <2>1 DEF AccountInv, Reported, Announced, Served, Fetched, Prefetched
<1>4. disk'.succ => Whole'
  BY <1>1 DEF AccountInv
<1>. QED
  BY <1>1, <1>2, <1>3, <1>4 DEF AccountInv

LEMMA LiveStepsAccount ==
  ASSUME AccountInv, Typed, ~stopped, UNCHANGED fetch,
         LiveDrain \/ LiveClaim \/ LiveGet \/ LivePut \/ LivePublish
  PROVE  AccountInv'
<1>0. /\ RunTyped /\ CatalogTyped /\ gen \in Nat /\ "LiveChange" \in Workers /\ Applied
      /\ source \in Ticket /\ queue \in Ticket /\ batch \in Ticket /\ hidden \subseteq missed
  BY DEF Typed, CatalogTyped, EventTyped, Workers, AccountInv
<1>1. CASE LiveDrain
  <2>1. PICK kept \in Kept(queue, source.ids) :
            /\ queue' = Pushed(queue, source, kept)
            /\ excused' = excused \cup (source.ids \ queue'.ids)
    BY <1>1 DEF LiveDrain
  <2>2. queue'.ids = queue.ids \cup kept
    BY <1>0, <2>1, Tickets
  <2>3. /\ source' = EmptyQueue /\ run["LiveChange"].pc = "none"
        /\ UNCHANGED <<disk, missed, hidden, batch, startup, updates, run, hier>>
    BY <1>1 DEF LiveDrain, resultVars
  <2>4. Coming \subseteq Coming'
    BY <2>1, <2>2, <2>3 DEF Coming
  <2>5. Alone(run', "LiveChange") /\ Applied'
    BY <1>0, <2>3 DEF RunTyped, Alone, Applied
  <2>. QED
    BY <1>0, <2>3, <2>4, <2>5, LiveAccount
<1>2. CASE LiveClaim
  <2>1. Alone(run', "LiveChange") /\ run'["LiveChange"].pc \in {"read", "get"}
    BY <1>0, <1>2, LiveClaimFacts
  <2>2. /\ UNCHANGED <<missed, hidden, disk, excused, source, startup, updates, hier>>
        /\ batch' = queue /\ queue' = EmptyQueue /\ run["LiveChange"].pc = "none"
    BY <1>2 DEF LiveClaim, catalogVars, resultVars
  <2>3. Coming \subseteq Coming'
    BY <1>0, <2>2, Emptied DEF Coming, Applied
  <2>4. Applied'
    BY <2>1 DEF Applied
  <2>. QED
    BY <1>0, <2>1, <2>2, <2>3, <2>4, LiveAccount
<1>3. CASE LiveGet
  <2>1. /\ Alone(run', "LiveChange")
        /\ \/ run'["LiveChange"].pc = "publish" /\ run'["LiveChange"].out = "failed"
           \/ run'["LiveChange"].pc = "put" /\ run'["LiveChange"].got = batch.ids
    BY <1>0, <1>3, LiveGetFacts
  <2>2. UNCHANGED <<missed, hidden, disk, source, queue, batch, excused, startup, updates, hier>>
    BY <1>3 DEF LiveGet, catalogVars, eventVars, resultVars
  <2>3. Coming' = Coming /\ Applied'
    BY <2>1, <2>2 DEF Coming, Applied
  <2>. QED
    BY <1>0, <2>1, <2>2, <2>3, LiveAccount
<1>4. CASE LivePut
  <2>1. /\ Alone(run', "LiveChange") /\ run'["LiveChange"].pc = "publish" /\ run'["LiveChange"].out = "ok"
    BY <1>0, <1>4, LivePutFacts
  <2>2. /\ UNCHANGED <<disk, source, queue, batch, excused, startup, updates, hier>>
        /\ run["LiveChange"].pc = "put"
        /\ missed' = missed \ run["LiveChange"].got /\ hidden' = hidden \ run["LiveChange"].got
    BY <1>4 DEF LivePut, eventVars, resultVars, Stored
  <2>3. Coming' = Coming /\ Applied'
    BY <1>0, <2>1, <2>2 DEF Coming, OnTheWay, Applied
  <2>4. missed' \subseteq missed /\ hidden' \subseteq hidden /\ hidden' \subseteq missed'
    BY <1>0, <2>2
  <2>. QED
    BY <1>0, <2>1, <2>2, <2>3, <2>4, LiveAccount
<1>5. CASE LivePublish
  <2>1. Alone(run', "LiveChange") /\ run'["LiveChange"].pc = "none"
    BY <1>0, <1>5, EndFacts DEF LivePublish
  <2>2. /\ UNCHANGED <<disk, missed, hidden, source, startup, updates, hier>>
        /\ run["LiveChange"].pc = "publish" /\ batch' = EmptyQueue
    BY <1>5 DEF LivePublish
  <2>3. missed \cap Coming \subseteq Coming'
    <3>1. CASE run["LiveChange"].out = "ok"
      <4>1. queue' = queue /\ excused' = excused
        BY <1>5, <3>1 DEF LivePublish, Requeued
      <4>2. missed \cap batch.ids \subseteq OnTheWay
        BY <1>0, <2>2, <3>1 DEF Applied
      <4>. QED
        BY <2>2, <4>1, <4>2 DEF Coming, OnTheWay
    <3>2. CASE run["LiveChange"].out # "ok" /\ batch.catchUp
      <4>1. PICK kept \in Kept(queue, batch.ids) :
                /\ queue' = MarkCatchUp(Pushed(queue, batch, kept))
                /\ excused' = excused \cup (batch.ids \ queue'.ids)
        BY <1>5, <3>2 DEF LivePublish, Requeued
      <4>2. queue'.ids = queue.ids \cup kept
        BY <1>0, <4>1, Tickets, Marking
      <4>. QED
        BY <2>2, <4>1, <4>2 DEF Coming
    <3>3. CASE run["LiveChange"].out # "ok" /\ ~batch.catchUp
      <4>1. queue' = queue /\ excused' = excused \cup batch.ids
        BY <1>5, <3>3 DEF LivePublish, Requeued
      <4>. QED
        BY <2>2, <4>1 DEF Coming
    <3>. QED
      BY <3>1, <3>2, <3>3
  <2>4. Applied'
    BY <2>1, <2>2 DEF Applied
  <2>. QED
    BY <1>0, <2>1, <2>2, <2>3, <2>4, LiveAccount
<1>. QED
  BY <1>1, <1>2, <1>3, <1>4, <1>5

LEMMA ServerAccount ==
  ASSUME AccountInv, Typed, UNCHANGED fetch, SocketDown \/ SocketUp \/ \E i \in Items : ServerChange(i)
  PROVE  AccountInv'
<1>0. /\ RunTyped /\ source \in Ticket
  BY DEF Typed, EventTyped
<1>1. CASE SocketDown \/ SocketUp
  <2>1. source'.ids = source.ids
    BY <1>0, <1>1, Marking DEF SocketDown, SocketUp
  <2>2. UNCHANGED <<missed, hidden, disk, excused, queue, batch, startup, updates, run, hier>>
    BY <1>1 DEF SocketDown, SocketUp, catalogVars, resultVars
  <2>3. Coming' = Coming /\ OnTheWay' = OnTheWay /\ Unaccounted' = Unaccounted /\ (Whole' <=> Whole)
    BY <2>1, <2>2 DEF Coming, OnTheWay, Unaccounted, Whole
  <2>4. \A w \in Workers : Walking(w)'
    BY <2>2, <2>3 DEF AccountInv, Walking
  <2>. QED
    BY <2>2, <2>3, <2>4 DEF AccountInv, Reported, Announced, Served, Fetched, Prefetched, Applied
<1>2. ASSUME NEW i \in Items, ServerChange(i) PROVE AccountInv'
  <2>1. \A w \in Workers : /\ run'[w].pc = run[w].pc /\ run'[w].todo = run[w].todo
                           /\ run'[w].mode = run[w].mode /\ run'[w].out = run[w].out
                           /\ run'[w].got = run[w].got \ {i}
    BY <1>0, <1>2, ServerFacts
  <2>2. /\ UNCHANGED <<disk, queue, batch, startup, updates, hier>>
        /\ missed' = missed \cup {i} /\ hidden' = hidden \ {i}
    BY <1>2 DEF ServerChange, resultVars
  <2>3. source.ids \cup excused \cup {i} \subseteq source'.ids \cup excused'
    <3>. DEFINE new == [ids |-> {i}, catchUp |-> FALSE]
    <3>1. CASE linked
      <4>1. new \in Ticket /\ new.ids = {i}
        BY DEF Ticket
      <4>2. PICK kept \in Kept(source, {i}) : source' = Pushed(source, new, kept)
        BY <1>2, <3>1 DEF ServerChange
      <4>3. excused' = IF i \in source'.ids THEN excused \ {i} ELSE excused \cup {i}
        BY <1>2, <3>1 DEF ServerChange
      <4>. HIDE DEF new
      <4>4. source'.ids = source.ids \cup kept
        BY <1>0, <4>1, <4>2, Tickets
      <4>. QED
        BY <4>3, <4>4
    <3>2. CASE ~linked
      BY <1>2, <3>2 DEF ServerChange
    <3>. QED
      BY <3>1, <3>2
  <2>4. Coming \cup {i} \subseteq Coming' /\ OnTheWay \cup {i} \subseteq OnTheWay'
    BY <2>2, <2>3 DEF Coming, OnTheWay
  <2>5. Unaccounted' \subseteq Unaccounted /\ (Whole => Whole') /\ hidden' \subseteq Coming'
    BY <2>2, <2>4 DEF Unaccounted, Whole, AccountInv
  <2>6. \A w \in Workers : Walking(w)'
    BY <2>1, <2>2, <2>5 DEF AccountInv, Walking
  <2>7. "LiveChange" \in Workers /\ "FullPopulation" \in Workers /\ "Startup" \in Workers
    BY DEF Workers
  <2>8. Applied'
    BY <2>1, <2>2, <2>4, <2>7 DEF AccountInv, Applied
  <2>9. Reported'
    BY <2>1, <2>5, <2>7 DEF AccountInv, Reported
  <2>. QED
    BY <2>2, <2>5, <2>6, <2>8, <2>9 DEF AccountInv, Announced, Served, Fetched, Prefetched
<1>. QED
  BY <1>1, <1>2

LEMMA HierarchyAccount ==
  ASSUME AccountInv, Typed, UNCHANGED fetch, HierarchyStep
  PROVE  AccountInv'
<1>0. HierTyped /\ hier.queue \in Seq(Request)
  BY HierarchyFields DEF Typed
<1>1. CASE HierarchyTake
  <2>1. /\ hier.queue # <<>> /\ hier'.queue = Tail(hier.queue) /\ hier'.active = Head(hier.queue)
        /\ hier'.pc = "walk"
    BY <1>0, <1>1, TakeFacts
  <2>2. UNCHANGED <<missed, hidden, disk, source, queue, batch, excused, run, startup, updates>>
    BY <1>1 DEF HierarchyTake, catalogVars, eventVars, resultVars
  <2>3. \A k \in DOMAIN hier'.queue : \E j \in DOMAIN hier.queue : hier'.queue[k] = hier.queue[j]
    <3>1. \A k \in DOMAIN hier'.queue : k + 1 \in DOMAIN hier.queue /\ hier'.queue[k] = hier.queue[k + 1]
      BY <1>0, <2>1
    <3>. QED
      BY <3>1, Zenon
  <2>4. 1 \in DOMAIN hier.queue /\ Head(hier.queue) = hier.queue[1]
    BY <1>0, <2>1
  <2>5. Served'
    BY <2>1, <2>2, <2>3, <2>4, WholeKept DEF AccountInv, Served, Fetched, Prefetched
  <2>. QED
    BY <2>2, <2>5, StillShrinks, AnnouncedKept, RestAccount
<1>2. CASE HierarchyShow \/ HierarchyEndWalk \/ HierarchyMark
  <2>1. /\ hier.pc \in {"walk", "mark"} /\ hier'.queue = hier.queue /\ hier'.active = hier.active
        /\ hier'.pc = "mark" => HierarchyShow
    BY <1>0, <1>2, WalkerFacts
  <2>2. /\ UNCHANGED <<missed, source, queue, batch, excused, run, startup, updates>>
        /\ \/ UNCHANGED <<hidden, disk>>
           \/ HierarchyMark
    BY <1>2 DEF HierarchyShow, HierarchyEndWalk, HierarchyMark, catalogVars, eventVars, resultVars
  <2>3. Served'
    BY <2>1, <2>2, WholeKept DEF AccountInv, Served, Fetched, Prefetched, HierarchyShow
  <2>4. CASE UNCHANGED <<hidden, disk>>
    BY <2>2, <2>3, <2>4, StillShrinks, AnnouncedKept, RestAccount
  <2>5. CASE HierarchyMark
    <3>1. Whole
      BY <2>5 DEF HierarchyMark, AccountInv, Served, Prefetched
    <3>2. Marked(TRUE, hier.active.force, hier.active.g) \/ MarkFails(hier.active.force, hier.active.g)
      BY <2>5 DEF HierarchyMark
    <3>. QED
      BY <2>2, <2>3, <3>1, <3>2, MarkShrinks, AnnouncedKept, RestAccount
  <2>. QED
    BY <2>2, <2>4, <2>5
<1>3. CASE HierarchyEnd
  <2>1. hier'.queue = hier.queue /\ hier'.pc = "idle"
    BY <1>0, <1>3, EndFactsOfWalk
  <2>2. UNCHANGED <<missed, hidden, disk, source, queue, batch, excused, run, startup, updates>>
    BY <1>3 DEF HierarchyEnd, catalogVars, eventVars, resultVars
  <2>3. Served'
    BY <2>1, <2>2, WholeKept DEF AccountInv, Served, Fetched, Prefetched
  <2>. QED
    BY <2>2, <2>3, StillShrinks, AnnouncedKept, RestAccount
<1>. QED
  BY <1>1, <1>2, <1>3 DEF HierarchyStep

LEMMA RequestPrefetched ==
  ASSUME AccountInv, Typed, NEW kind \in {"Home", "Screen"}, NEW g \in Nat, NEW force \in BOOLEAN,
         RequestHierarchy(kind, g, force), kind = "Home" => Whole
  PROVE  /\ Prefetched'
         /\ UNCHANGED <<missed, hidden, disk, source, queue, batch, excused, run, startup, updates>>
<1>0. HierTyped /\ hier.queue \in Seq(Request)
  BY HierarchyFields DEF Typed
<1>1. UNCHANGED <<missed, hidden, disk, source, queue, batch, excused, run, startup, updates>>
  BY DEF RequestHierarchy, catalogVars, eventVars, resultVars
<1>. DEFINE request == Asked(kind, g, force)
<1>2. /\ request.kind = kind /\ hier'.queue = Append(hier.queue, request)
      /\ hier'.active = hier.active /\ hier'.pc = hier.pc
  BY <1>0, RequestFacts
<1>. HIDE DEF request
<1>3. \A k \in DOMAIN hier'.queue : \/ k \in DOMAIN hier.queue /\ hier'.queue[k] = hier.queue[k]
                                    \/ hier'.queue[k] = request
  BY <1>0, <1>2
<1>. QED
  BY <1>1, <1>2, <1>3, WholeKept DEF AccountInv, Served, Prefetched

LEMMA GonePrefetched ==
  ASSUME AccountInv, Typed, NEW requests \in SUBSET hier.accepted, Settled(Dropped(requests)),
         UNCHANGED <<missed, source, queue, batch, excused>>
  PROVE  Prefetched'
<1>0. HierTyped /\ hier.queue \in Seq(Request)
  BY HierarchyFields DEF Typed
<1>. DEFINE gone == {r.id : r \in requests}
            D == Left(hier.queue, gone)
<1>a. hier' = [queue |-> Retained(hier.queue, D), active |-> hier.active,
               pc |-> hier.pc, accepted |-> hier.accepted \ requests,
               results |-> Retained(hier.results, Left(hier.results, gone)),
               tokens |-> hier.tokens \cup gone, next |-> hier.next]
  BY <1>0, GoneFacts
<1>. HIDE DEF gone, D
<1>1. hier'.queue = Retained(hier.queue, D) /\ hier'.active = hier.active /\ hier'.pc = hier.pc
  BY <1>a
<1>2. \A k \in DOMAIN hier'.queue : \E j \in DOMAIN hier.queue : hier'.queue[k] = hier.queue[j]
  BY <1>0, <1>1, RetainedFacts
<1>. QED
  BY <1>1, <1>2, WholeKept DEF AccountInv, Served, Prefetched

LEMMA TakePrefetched ==
  ASSUME AccountInv, Typed, NEW id, TakeHierarchy(id) \/ CancelHierarchyRequest(id)
  PROVE  /\ Prefetched'
         /\ UNCHANGED <<missed, hidden, disk, source, queue, batch, excused, run, startup, updates>>
<1>0. HierTyped
  BY DEF Typed
<1>1. UNCHANGED <<missed, hidden, disk, source, queue, batch, excused, run, startup, updates>>
  BY DEF TakeHierarchy, CancelHierarchyRequest, catalogVars, eventVars, resultVars
<1>2. CASE TakeHierarchy(id)
  <2>1. hier'.queue = hier.queue /\ hier'.active = hier.active /\ hier'.pc = hier.pc
    BY <1>0, <1>2, TakenFacts
  <2>. QED
    BY <1>1, <2>1, WholeKept DEF AccountInv, Served, Prefetched
<1>3. CASE CancelHierarchyRequest(id)
  <2>. DEFINE mine == {r \in hier.accepted : r.id = id}
  <2>1. Settled(Dropped(mine)) /\ mine \in SUBSET hier.accepted
    BY <1>3 DEF CancelHierarchyRequest
  <2>. HIDE DEF mine
  <2>. QED
    BY <1>1, <2>1, GonePrefetched
<1>. QED
  BY <1>1, <1>2, <1>3

LEMMA CancelPrefetched ==
  ASSUME AccountInv, Typed, NEW kinds, CancelFetch(kinds),
         UNCHANGED <<missed, source, queue, batch, excused>>
  PROVE  Prefetched'
<1>. DEFINE mine == {r \in hier.accepted : r.kind = "Home"}
<1>1. mine \in SUBSET hier.accepted /\ Settled(Dropped(mine))
  BY DEF CancelFetch, HomeDropped
<1>. HIDE DEF mine
<1>. QED
  BY <1>1, GonePrefetched

LEMMA QuietAccount ==
  ASSUME AccountInv, UNCHANGED <<missed, hidden, disk, source, queue, batch, excused, run, startup>>,
         Announced', Served'
  PROVE  AccountInv'
  BY StillShrinks, RestAccount

LEMMA TakesAnnounced ==
  ASSUME AccountInv, Typed, TakeStartup \/ TakeUpdate \/ \E k : TakeReady(k)
  PROVE  /\ Announced' /\ Prefetched'
         /\ UNCHANGED <<missed, hidden, disk, source, queue, batch, excused, run, startup>>
<1>1. /\ UNCHANGED <<missed, hidden, disk, source, queue, batch, excused, run, startup, hier>>
      /\ updates' \in {updates, Tail(updates)} /\ (updates' = updates \/ updates # <<>>)
  BY DEF TakeStartup, TakeUpdate, TakeReady, catalogVars, eventVars, resultVars
<1>2. ASSUME NEW k \in DOMAIN updates' PROVE \E j \in DOMAIN updates : updates'[k] = updates[j]
  <2>1. CASE updates' = updates
    BY <2>1
  <2>2. CASE updates # <<>> /\ updates' = Tail(updates)
    <3>1. k + 1 \in DOMAIN updates /\ updates'[k] = updates[k + 1]
      BY <1>2, <2>2 DEF Typed, ResultTyped
    <3>. QED
      BY <3>1
  <2>. QED
    BY <1>1, <2>1, <2>2
<1>. QED
  BY <1>1, <1>2, WholeKept DEF AccountInv, Announced, Served, Prefetched

LEMMA FetchAccount ==
  ASSUME AccountInv, Typed, FetchStep
  PROVE  AccountInv'
<1>0. /\ fetch \in Fetch /\ updates \in Seq(Outs \cup {"page"})
      /\ Prefetched /\ Announced
  BY DEF Typed, HomeTyped, ResultTyped, AccountInv, Served
<1>1. ASSUME NEW pc, pc \in {"begun", "spawn", "wait", "ask", "launch", "consume"}, fetch'.pc = pc
      PROVE  Fetched'
  BY <1>1 DEF Fetched
<1>2. ASSUME UNCHANGED <<missed, hidden, disk, source, queue, batch, excused, run, startup, updates, hier>>, Fetched'
      PROVE  AccountInv'
  BY <1>0, <1>2, WholeKept, AnnouncedKept, QuietAccount DEF Served, Prefetched
<1>3. ASSUME UNCHANGED <<catalogVars, eventVars, hier>>, Fetched' PROVE Served'
  <2>1. UNCHANGED <<missed, source, queue, batch, excused, hier>>
    BY <1>3 DEF catalogVars, eventVars
  <2>. QED
    BY <1>0, <1>3, <2>1, WholeKept DEF Served, Prefetched
<1>4. CASE FetchOffline
  <2>1. fetch'.off = TRUE
    BY <1>0, <1>4 DEF FetchOffline, Fetching, Fetch
  <2>2. Fetched'
    BY <2>1 DEF Fetched
  <2>. QED
    BY <1>2, <1>4, <2>2 DEF FetchOffline, coordinatorVars, catalogVars, eventVars, resultVars
<1>5. CASE FetchStartup
  <2>1. CASE Admitted("Startup")
    <3>1. fetch'.pc = "spawn" /\ RequestStartup
      BY <1>0, <1>5, <2>1 DEF FetchStartup, Fetching, Fetch
    <3>2. UNCHANGED <<catalogVars, eventVars, hier>>
      BY <3>1 DEF RequestStartup
    <3>. QED
      BY <1>1, <1>3, <3>1, <3>2, OperationsAccount
  <2>2. CASE ~Admitted("Startup")
    <3>1. fetch'.pc = "ask" /\ UNCHANGED coordinatorVars
      BY <1>0, <1>5, <2>2 DEF FetchStartup, Fetch
    <3>. QED
      BY <1>1, <1>2, <3>1 DEF coordinatorVars, catalogVars, eventVars, resultVars
  <2>. QED
    BY <2>1, <2>2
<1>6. ASSUME NEW kind, NEW from, NEW to \in {"wait", "consume"}, FetchSpawned(kind, from, to)
      PROVE  AccountInv'
  <2>1. fetch'.pc = to
    BY <1>0, <1>6 DEF FetchSpawned, Fetching, Fetch
  <2>. QED
    BY <1>1, <1>2, <1>6, <2>1 DEF FetchSpawned, catalogVars, eventVars, resultVars
<1>7. CASE FetchPolicy
  <2>1. TakeStartup /\ gen' = gen
    BY <1>7 DEF FetchPolicy, TakeStartup, catalogVars
  <2>2. \/ fetch'.pc = "ask"
        \/ startup.mode # "FullReconcile"
    BY <1>0, <1>7 DEF FetchPolicy, Fetch
  <2>3. Prefetched' /\ Announced'
        /\ UNCHANGED <<missed, hidden, disk, source, queue, batch, excused, run, startup>>
    BY <2>1, TakesAnnounced
  <2>4. Fetched'
    BY <1>0, <2>2, <2>3, WholeKept DEF Fetched, Announced
  <2>. QED
    BY <2>3, <2>4, QuietAccount DEF Served
<1>8. CASE FetchNoPolicy
  <2>1. fetch'.pc = "ask" /\ UNCHANGED coordinatorVars
    BY <1>0, <1>8 DEF FetchNoPolicy, Fetch
  <2>. QED
    BY <1>1, <1>2, <2>1 DEF coordinatorVars, catalogVars, eventVars, resultVars
<1>9. CASE FetchAsk
  <2>1. CASE Admitted("FullPopulation")
    <3>1. fetch'.pc = "launch" /\ RequestPopulation
      BY <1>0, <1>9, <2>1 DEF FetchAsk, Fetching, Fetch
    <3>2. UNCHANGED <<catalogVars, eventVars, hier>>
      BY <3>1 DEF RequestPopulation
    <3>. QED
      BY <1>1, <1>3, <3>1, <3>2, OperationsAccount
  <2>2. CASE ~Admitted("FullPopulation")
    <3>1. fetch'.failed = TRUE /\ UNCHANGED coordinatorVars
      BY <1>0, <1>9, <2>2 DEF FetchAsk, Finished, Fetch
    <3>2. Fetched'
      BY <3>1 DEF Fetched
    <3>. QED
      BY <1>2, <3>1, <3>2 DEF coordinatorVars, catalogVars, eventVars, resultVars
  <2>. QED
    BY <2>1, <2>2
<1>10. CASE FetchConsume
  <2>1. TakeUpdate /\ updates # <<>> /\ fetch.pc = "consume"
    BY <1>10 DEF FetchConsume, TakeUpdate
  <2>2. \/ fetch' = fetch
        \/ fetch'.failed = (Head(updates) # "ok")
    BY <1>0, <1>10 DEF FetchConsume, Finished, Fetch
  <2>3. 1 \in DOMAIN updates /\ Head(updates) = updates[1]
    BY <1>0, <2>1
  <2>4. Prefetched' /\ Announced'
        /\ UNCHANGED <<missed, hidden, disk, source, queue, batch, excused, run, startup>>
    BY <2>1, TakesAnnounced
  <2>5. Fetched'
    BY <1>0, <2>1, <2>2, <2>3, <2>4, WholeKept DEF Fetched, Announced
  <2>. QED
    BY <2>4, <2>5, QuietAccount DEF Served
<1>11. CASE FetchNoUpdate
  <2>1. fetch'.failed = TRUE /\ UNCHANGED coordinatorVars
    BY <1>0, <1>11 DEF FetchNoUpdate, Finished, Fetch
  <2>2. Fetched'
    BY <2>1 DEF Fetched
  <2>. QED
    BY <1>2, <2>1, <2>2 DEF coordinatorVars, catalogVars, eventVars, resultVars
<1>. QED
  BY <1>4, <1>5, <1>6, <1>7, <1>8, <1>9, <1>10, <1>11 DEF FetchStep

LEMMA FrameAccount ==
  ASSUME AccountInv, Typed, Frame \/ Screen
  PROVE  AccountInv'
<1>0. fetch \in Fetch /\ fetch.g \in Nat /\ fetch.force \in BOOLEAN
  BY DEF Typed, HomeTyped, Fetch
<1>1. CASE ApplyFetch
  <2>1. Fetched'
    <3>1. fetch'.pc \in {"begun", "idle"}
      BY <1>0, <1>1 DEF ApplyFetch, StartedFetch, Fetch
    <3>. QED
      BY <3>1 DEF Fetched
  <2>2. CASE UNCHANGED coordinatorVars
    <3>1. UNCHANGED <<missed, hidden, disk, source, queue, batch, excused, run, startup, updates, hier>>
      BY <2>2 DEF coordinatorVars, catalogVars, eventVars, resultVars
    <3>2. Prefetched'
      BY <3>1, WholeKept DEF AccountInv, Served, Prefetched
    <3>. QED
      BY <2>1, <3>1, <3>2, AnnouncedKept, QuietAccount DEF Served
  <2>3. CASE Prefetches /\ RequestHierarchy("Home", fetch.g, fetch.force)
    <3>1. Whole
      BY <1>1, <2>3 DEF ApplyFetch, Prefetches, AccountInv, Served, Fetched
    <3>2. Prefetched' /\ UNCHANGED <<missed, hidden, disk, source, queue, batch, excused, run, startup, updates>>
      BY <1>0, <2>3, <3>1, RequestPrefetched
    <3>. QED
      BY <2>1, <3>2, AnnouncedKept, QuietAccount DEF Served
  <2>. QED
    BY <1>1, <2>2, <2>3 DEF ApplyFetch
<1>2. CASE TakeLive \/ TakeSafety
  <2>1. UNCHANGED fetch /\ \E k : TakeReady(k)
    BY <1>2 DEF TakeLive, TakeSafety
  <2>2. /\ Announced' /\ Prefetched'
        /\ UNCHANGED <<missed, hidden, disk, source, queue, batch, excused, run, startup>>
    BY <2>1, TakesAnnounced
  <2>3. Fetched'
    BY <2>1, <2>2, WholeKept DEF AccountInv, Served, Fetched
  <2>. QED
    BY <2>2, <2>3, QuietAccount DEF Served
<1>3. CASE ConsumePrefetch \/ Screen
  <2>1. UNCHANGED fetch /\ \E id : TakeHierarchy(id)
    BY <1>3 DEF ConsumePrefetch, Screen, ScreenResult
  <2>2. Prefetched' /\ UNCHANGED <<missed, hidden, disk, source, queue, batch, excused, run, startup, updates>>
    BY <2>1, TakePrefetched
  <2>3. Fetched'
    BY <2>1, <2>2, WholeKept DEF AccountInv, Served, Fetched
  <2>. QED
    BY <2>2, <2>3, AnnouncedKept, QuietAccount DEF Served
<1>. QED
  BY <1>1, <1>2, <1>3 DEF Frame

LEMMA ScreenAccount ==
  ASSUME AccountInv, Typed,
         \/ StartFetch \/ ToggleOffline \/ RequestMaintenance \/ OpenScreen
         \/ CloseBegin \/ CloseEnd
         \/ \E id \in home.screens : LeaveScreen(id)
  PROVE  AccountInv'
<1>0. fetch \in Fetch /\ gen \in Nat /\ Fetched /\ Prefetched
  BY DEF Typed, HomeTyped, CatalogTyped, AccountInv, Served
<1>1. ASSUME UNCHANGED <<missed, hidden, disk, source, queue, batch, excused, run, startup, updates>>,
             fetch' = fetch \/ fetch'.pc \in {"idle", "begun"} \/ fetch' = [fetch EXCEPT !.cancel = TRUE],
             Prefetched'
      PROVE  AccountInv'
  <2>1. fetch' = [fetch EXCEPT !.cancel = TRUE]
          => fetch'.pc = fetch.pc /\ fetch'.off = fetch.off /\ fetch'.failed = fetch.failed
    BY <1>0 DEF Fetch
  <2>2. Fetched'
    BY <1>0, <1>1, <2>1, WholeKept DEF Fetched
  <2>. QED
    BY <1>1, <2>2, AnnouncedKept, QuietAccount DEF Served
<1>2. StartedFetch.pc = "begun" /\ [StartedFetch EXCEPT !.off = ~offline].pc = "begun"
      /\ [fetch EXCEPT !.pc = "idle"].pc = "idle"
  BY <1>0 DEF StartedFetch, Fetch
<1>3. CASE StartFetch \/ CloseEnd
  <2>1. /\ UNCHANGED <<missed, hidden, disk, source, queue, batch, excused, run, startup, updates, hier>>
        /\ fetch'.pc \in {"idle", "begun"}
    BY <1>2, <1>3 DEF StartFetch, CloseEnd, coordinatorVars, catalogVars, eventVars, resultVars
  <2>2. Prefetched'
    BY <1>0, <2>1, WholeKept DEF Prefetched
  <2>. QED
    BY <1>1, <2>1, <2>2
<1>4. CASE ToggleOffline \/ CloseBegin
  <2>1. \E kinds : CancelFetch(kinds)
    BY <1>4 DEF ToggleOffline, CloseBegin
  <2>2. UNCHANGED <<missed, hidden, disk, source, queue, batch, excused, run, startup, updates>>
    BY <1>4 DEF ToggleOffline, CloseBegin, catalogVars, eventVars, resultVars
  <2>3. fetch'.pc = "begun" \/ fetch' = [fetch EXCEPT !.cancel = TRUE]
    BY <1>2, <1>4 DEF ToggleOffline, CloseBegin
  <2>4. Prefetched'
    BY <2>1, <2>2, CancelPrefetched
  <2>. QED
    BY <1>1, <2>2, <2>3, <2>4
<1>5. CASE RequestMaintenance
  <2>1. UNCHANGED <<fetch, hier, catalogVars, eventVars>> /\ RequestSafety
    BY <1>5 DEF RequestMaintenance, RequestSafety
  <2>2. Served'
    BY <2>1, ServedKept DEF catalogVars, eventVars
  <2>. QED
    BY <2>1, <2>2, OperationsAccount
<1>6. CASE OpenScreen
  <2>1. UNCHANGED fetch /\ RequestHierarchy("Screen", gen, FALSE)
    BY <1>6 DEF OpenScreen
  <2>. QED
    BY <1>0, <1>1, <2>1, RequestPrefetched
<1>7. CASE \E id \in home.screens : LeaveScreen(id)
  <2>1. UNCHANGED fetch /\ \E id : CancelHierarchyRequest(id)
    BY <1>7 DEF LeaveScreen
  <2>. QED
    BY <1>1, <2>1, TakePrefetched
<1>. QED
  BY <1>3, <1>4, <1>5, <1>6, <1>7

(* Until the session is stopped. *)
KeptAccounted == ~stopped => AccountInv

LEMMA NextAccount == KeptAccounted /\ Typed /\ [Next]_vars => KeptAccounted'
<1> SUFFICES ASSUME KeptAccounted, Typed, [Next]_vars, ~stopped' PROVE AccountInv'
  BY DEF KeptAccounted
<1>1. CASE UNCHANGED vars
  <2>1. UNCHANGED <<missed, hidden, disk, source, queue, batch, excused, run, startup, updates, hier, fetch, stopped>>
    BY <1>1 DEF vars, coordinatorVars, modeVars, catalogVars, eventVars, resultVars
  <2>. QED
    BY <2>1, ServedKept, AnnouncedKept, QuietAccount DEF KeptAccounted
<1>2. CASE Stop
  BY <1>2 DEF Stop, StopBegin
<1>3. CASE Walker
  <2>1. HierarchyStep /\ UNCHANGED fetch /\ stopped' = stopped
    BY <1>3 DEF Walker, HierarchyStep, HierarchyTake, HierarchyShow, HierarchyEndWalk, HierarchyMark,
                HierarchyEnd, modeVars
  <2>. QED
    BY <2>1, HierarchyAccount DEF KeptAccounted
<1>4. CASE Server \/ Reconnect
  <2>1. /\ SocketDown \/ SocketUp \/ \E i \in Items : ServerChange(i)
        /\ UNCHANGED fetch
    BY <1>4 DEF Server, Reconnect
  <2>2. stopped' = stopped
    BY <2>1 DEF SocketDown, SocketUp, ServerChange, modeVars
  <2>. QED
    BY <2>1, <2>2, ServerAccount DEF KeptAccounted
<1>5. ASSUME NEW w \in Workers, Worker(w) PROVE AccountInv'
  <2>1. Step(w) /\ UNCHANGED fetch
    BY <1>5 DEF Worker
  <2>2. stopped' = stopped
    BY <2>1 DEF Step, GiveUp, ReadState, CatchUpFetch, CatchUpWrite, CatchUpMark, WalkBegin, WalkPage,
                WalkFinalize, WalkMark, Launch, ReadStartup, PublishStartup, PublishPopulation,
                PublishSafety, LiveDrain, LiveClaim, LiveGet, LivePut, LivePublish, modeVars
  <2>3. AccountInv /\ ~stopped
    BY <2>2 DEF KeptAccounted
  <2>4. CASE \/ w \in {"Startup", "FullPopulation"} /\ Launch(w)
             \/ PublishStartup \/ PublishPopulation \/ PublishSafety
    <3>1. UNCHANGED <<hier, catalogVars, eventVars>>
      BY <2>4 DEF Launch, PublishStartup, PublishPopulation, PublishSafety
    <3>2. Served'
      BY <2>1, <2>3, <3>1, ServedKept DEF catalogVars, eventVars
    <3>. QED
      BY <2>3, <2>4, <3>2, OperationsAccount
  <2>. QED
    BY <2>1, <2>3, <2>4, WorkersAccount, LiveStepsAccount DEF Step
<1>6. CASE FetchStep
  <2>1. stopped' = stopped
    BY <1>6 DEF FetchStep, FetchOffline, FetchStartup, FetchSpawned, FetchPolicy, FetchNoPolicy, FetchAsk,
                FetchConsume, FetchNoUpdate, RequestStartup, RequestPopulation, TakeStartup, TakeUpdate,
                coordinatorVars, modeVars
  <2>. QED
    BY <1>6, <2>1, FetchAccount DEF KeptAccounted
<1>7. CASE Frame \/ Screen
  <2>1. stopped' = stopped
    BY <1>7 DEF Frame, Screen, ApplyFetch, TakeLive, TakeSafety, ConsumePrefetch, ScreenResult,
                RequestHierarchy, TakeReady, TakeHierarchy, coordinatorVars, modeVars
  <2>. QED
    BY <1>7, <2>1, FrameAccount DEF KeptAccounted
<1>8. CASE \/ StartFetch \/ ToggleOffline \/ RequestMaintenance \/ OpenScreen
           \/ CloseBegin \/ CloseEnd
           \/ \E id \in home.screens : LeaveScreen(id)
  <2>1. stopped' = stopped
    BY <1>8 DEF StartFetch, ToggleOffline, RequestMaintenance, OpenScreen, CloseBegin, CloseEnd, LeaveScreen,
                RequestSafety, RequestHierarchy, CancelHierarchyRequest, coordinatorVars, modeVars
  <2>. QED
    BY <1>8, <2>1, ScreenAccount DEF KeptAccounted
<1>. QED
  BY <1>1, <1>2, <1>3, <1>4, <1>5, <1>6, <1>7, <1>8 DEF Next

LEMMA InitAccount == Init => KeptAccounted
<1> SUFFICES ASSUME Init PROVE AccountInv
  BY DEF KeptAccounted
<1>1. /\ hidden = {} /\ batch = EmptyQueue /\ updates = <<>>
      /\ startup.mode = "FullReconcile"
      /\ \A w \in Workers : run[w].pc = "none" /\ run[w].mode = "FullReconcile"
      /\ fetch.pc = "idle" /\ hier.pc = "idle" /\ hier.queue = <<>>
      /\ disk.succ => missed = {}
  BY DEF Init, IdleRun, NoStartup, NoHierarchy
<1>2. disk.succ => Whole
  BY <1>1 DEF Whole
<1>3. "LiveChange" \in Workers /\ "FullPopulation" \in Workers /\ "Startup" \in Workers
  BY DEF Workers
<1>. QED
  BY <1>1, <1>2, <1>3 DEF AccountInv, Walking, Reported, Announced, Served, Fetched, Prefetched, Applied

LEMMA AlwaysKept == Spec => []KeptAccounted
<1>1. KeptAccounted /\ (Typed /\ IInv) /\ [Next]_vars => KeptAccounted'
  BY NextAccount
<1>. QED
  BY <1>1, InitAccount, AlwaysTyped, PTL DEF Spec

(* For every value of the constants: until the session is stopped, a change that is older than  *)
(* the stored checkpoint, and so will not be found by a later catch-up, is queued, in the batch *)
(* being applied, or one of those that met no connection, no room or a batch that failed.       *)
THEOREM AlwaysAccounted == Spec => []Accounted
<1>1. KeptAccounted => Accounted
  BY DEF KeptAccounted, AccountInv, Accounted, Coming
<1>. QED
  BY AlwaysKept, <1>1, PTL

(***************************************************************************)
(* Who holds the slot.                                                     *)
(***************************************************************************)
(* Startup and population belong to the fetch thread, which does not leave before its slot is   *)
(* given back; a slot that executes has a worker at work.                                       *)
Owned ==
    /\ op.kind = "Startup" => fetch.pc \in {"spawn", "wait"}
    /\ op.kind = "FullPopulation" => fetch.pc \in {"launch", "consume"}
    /\ \A w \in Workers : op = Begun(w) => run[w].pc # "none"
    /\ op.phase = "PublicationPending" => op.kind \in {"Startup", "FullPopulation"}

(* The updates of a population are pages; the one that is none comes last, with the publication. *)
Updated ==
    /\ op = Begun("FullPopulation") => \A k \in DOMAIN updates : updates[k] = "page"
    /\ op = Pending("FullPopulation") =>
          /\ updates # <<>>
          /\ \A k \in DOMAIN updates : updates[k] = "page" <=> k # Len(updates)

AtWork == hier.pc \in {"walk", "mark"}

(* Every request has a number of its own. *)
Numbered ==
    /\ \A r \in hier.accepted : r.id < hier.next
    /\ \A k \in DOMAIN hier.queue : hier.queue[k].id < hier.next
    /\ hier.pc # "idle" => hier.active.id < hier.next
Distinct ==
    /\ \A j, k \in DOMAIN hier.queue : hier.queue[j].id = hier.queue[k].id => j = k
    /\ \A k \in DOMAIN hier.queue : hier.pc # "idle" => hier.active.id # hier.queue[k].id
    /\ \A r \in hier.accepted, k \in DOMAIN hier.queue : r.id = hier.queue[k].id => r = hier.queue[k]
    /\ \A r \in hier.accepted : hier.pc # "idle" /\ r.id = hier.active.id => r = hier.active

(* A result belongs to a request that is still accepted; nothing follows a terminal one, and    *)
(* after one that is not, a terminal one has come or the worker is still at it.                 *)
Expected == \A k \in DOMAIN hier.results : \E r \in hier.accepted :
                r.id = hier.results[k].id /\ r.kind = hier.results[k].kind
Terminal ==
    /\ \A k \in DOMAIN hier.results : hier.results[k].kind = "Screen" => hier.results[k].terminal
    /\ \A j, k \in DOMAIN hier.results :
          j < k /\ hier.results[j].terminal => hier.results[k].id # hier.results[j].id
    /\ \A k \in DOMAIN hier.results :
          AtWork /\ hier.results[k].terminal => hier.results[k].id # hier.active.id
    /\ \A k \in DOMAIN hier.results :
          ~hier.results[k].terminal =>
             \/ AtWork /\ hier.active.id = hier.results[k].id
             \/ \E j \in DOMAIN hier.results :
                   hier.results[j].terminal /\ hier.results[j].id = hier.results[k].id
Unstarted == \A j \in DOMAIN hier.queue, k \in DOMAIN hier.results :
                hier.queue[j].id # hier.results[k].id

Requests == Numbered /\ Distinct /\ Expected /\ Terminal /\ Unstarted

(* The consumers: a request of a screen is waited for by that screen, Home's only one by Home.  *)
Awaited ==
    /\ \A id \in home.screens : id < hier.next
    /\ \A r \in hier.accepted : r.kind = "Screen" => r.id \in home.screens
    /\ \A r \in hier.accepted : r.kind = "Home" => r.id = home.task /\ r.id \notin home.screens

Busy == op.kind = "Hierarchy" => ~Drained(hier)

HeldInv == Owned /\ Updated /\ Requests /\ Awaited /\ Busy

(***************************************************************************)
(* The requests and results of the hierarchy worker.                       *)
(***************************************************************************)
LEMMA Identities ==
  ASSUME HierTyped
  PROVE  /\ hier.next \in Nat
         /\ \A r \in hier.accepted : r.id \in Nat
         /\ \A k \in DOMAIN hier.queue : hier.queue[k] \in Request /\ hier.queue[k].id \in Nat
         /\ \A k \in DOMAIN hier.results : /\ hier.results[k].id \in Nat
                                           /\ hier.results[k].terminal \in BOOLEAN
         /\ hier.pc # "idle" => hier.active.id \in Nat
         /\ DOMAIN hier.queue = 1 .. Len(hier.queue) /\ Len(hier.queue) \in Nat
         /\ DOMAIN hier.results = 1 .. Len(hier.results) /\ Len(hier.results) \in Nat
<1>1. \A k \in DOMAIN hier.queue : hier.queue[k] \in Request
  BY HierarchyFields
<1>2. \A k \in DOMAIN hier.results : hier.results[k] \in Publication
  BY HierarchyFields
<1>3. \A r \in Request : r.id \in Nat
  BY DEF Request
<1>4. \A p \in Publication : p.id \in Nat /\ p.terminal \in BOOLEAN
  BY DEF Publication
<1>. QED
  BY <1>1, <1>2, <1>3, <1>4, HierarchyFields DEF HierTyped

LEMMA RequestHeld ==
  ASSUME HierTyped, Requests, NEW kind \in {"Home", "Screen"}, NEW g \in Nat, NEW force \in BOOLEAN,
         RequestHierarchy(kind, g, force)
  PROVE  Requests' /\ ~Drained(hier')
<1>. DEFINE request == Asked(kind, g, force)
<1>1. /\ request \in Request /\ request.id = hier.next
      /\ hier' = [queue |-> Append(hier.queue, request), active |-> hier.active, pc |-> hier.pc,
                  accepted |-> hier.accepted \cup {request}, results |-> hier.results,
                  tokens |-> hier.tokens, next |-> hier.next + 1]
  BY RequestFacts
<1>. HIDE DEF request
<1>2. /\ hier'.queue = Append(hier.queue, request) /\ hier'.active = hier.active
      /\ hier'.pc = hier.pc /\ hier'.accepted = hier.accepted \cup {request}
      /\ hier'.results = hier.results /\ hier'.next = hier.next + 1
  BY <1>1
<1>3. \A k \in DOMAIN hier'.queue :
         \/ k \in DOMAIN hier.queue /\ hier'.queue[k] = hier.queue[k]
         \/ k = Len(hier.queue) + 1 /\ hier'.queue[k] = request
  BY <1>1, <1>2, HierarchyFields
<1>4. hier'.queue # <<>>
  BY <1>1, <1>2, HierarchyFields
<1>. USE Identities
<1>5. Numbered'
  BY <1>1, <1>2, <1>3 DEF Requests, Numbered
<1>6. Distinct'
  <2>1. \A j, k \in DOMAIN hier'.queue : hier'.queue[j].id = hier'.queue[k].id => j = k
    BY <1>1, <1>3 DEF Requests, Numbered, Distinct
  <2>2. \A k \in DOMAIN hier'.queue : hier'.pc # "idle" => hier'.active.id # hier'.queue[k].id
    BY <1>1, <1>2, <1>3 DEF Requests, Numbered, Distinct
  <2>3. \A r \in hier'.accepted, k \in DOMAIN hier'.queue :
           r.id = hier'.queue[k].id => r = hier'.queue[k]
    BY <1>1, <1>2, <1>3 DEF Requests, Numbered, Distinct
  <2>4. \A r \in hier'.accepted : hier'.pc # "idle" /\ r.id = hier'.active.id => r = hier'.active
    BY <1>1, <1>2 DEF Requests, Numbered, Distinct
  <2>. QED
    BY <2>1, <2>2, <2>3, <2>4 DEF Distinct
<1>7. Expected'
  BY <1>2, Zenon DEF Requests, Expected
<1>8. Terminal'
  BY <1>2 DEF Requests, Terminal, AtWork
<1>9. Unstarted'
  BY <1>1, <1>2, <1>3 DEF Requests, Numbered, Expected, Unstarted
<1>. QED
  BY <1>4, <1>5, <1>6, <1>7, <1>8, <1>9 DEF Requests, Drained

LEMMA TakeHeld ==
  ASSUME HierTyped, Requests, HierarchyTake
  PROVE  Requests' /\ ~Drained(hier')
<1>1. /\ hier.queue # <<>> /\ hier.pc = "idle"
      /\ hier' = [queue |-> Tail(hier.queue), active |-> Head(hier.queue), pc |-> "walk",
                  accepted |-> hier.accepted, results |-> hier.results,
                  tokens |-> hier.tokens, next |-> hier.next]
  BY TakeFacts DEF HierarchyTake
<1>2. /\ hier'.queue = Tail(hier.queue) /\ hier'.active = hier.queue[1]
      /\ hier'.pc = "walk" /\ hier'.accepted = hier.accepted
      /\ hier'.results = hier.results /\ hier'.next = hier.next /\ 1 \in DOMAIN hier.queue
  BY <1>1, HierarchyFields
<1>3. \A k \in DOMAIN hier'.queue :
         k \in Nat \ {0} /\ k + 1 \in DOMAIN hier.queue /\ hier'.queue[k] = hier.queue[k + 1]
  BY <1>1, <1>2, HierarchyFields
<1>. USE Identities
<1>4. Numbered'
  BY <1>2, <1>3 DEF Requests, Numbered
<1>5. Distinct'
  <2>1. \A j, k \in DOMAIN hier'.queue : hier'.queue[j].id = hier'.queue[k].id => j = k
    BY <1>3 DEF Requests, Distinct
  <2>2. \A k \in DOMAIN hier'.queue : hier'.active.id # hier'.queue[k].id
    BY <1>2, <1>3 DEF Requests, Distinct
  <2>3. \A r \in hier'.accepted, k \in DOMAIN hier'.queue :
           r.id = hier'.queue[k].id => r = hier'.queue[k]
    BY <1>2, <1>3 DEF Requests, Distinct
  <2>4. \A r \in hier'.accepted : r.id = hier'.active.id => r = hier'.active
    BY <1>2 DEF Requests, Distinct
  <2>. QED
    BY <2>1, <2>2, <2>3, <2>4 DEF Distinct
<1>6. Expected'
  BY <1>2 DEF Requests, Expected
<1>7. Terminal'
  BY <1>1, <1>2 DEF Requests, Terminal, AtWork, Unstarted
<1>8. Unstarted'
  BY <1>2, <1>3 DEF Requests, Unstarted
<1>9. hier'.active # NoRequest
  BY <1>2, RequestAssumption
<1>. QED
  BY <1>4, <1>5, <1>6, <1>7, <1>8, <1>9 DEF Requests, Drained

LEMMA WalkerHeld ==
  ASSUME HierTyped, Requests, HierarchyShow \/ HierarchyEndWalk \/ HierarchyMark
  PROVE  Requests' /\ ~Drained(hier')
<1>1. PICK terminal \in BOOLEAN, pc \in {"mark", "end"} :
               /\ pc = IF terminal THEN "end" ELSE "mark"
               /\ ~terminal => HierarchyShow
               /\ hier' = [queue |-> hier.queue, active |-> hier.active, pc |-> pc,
                           accepted |-> hier.accepted, results |-> Shown(terminal),
                           tokens |-> hier.tokens, next |-> hier.next]
  BY WalkerFacts
<1>2. /\ hier'.queue = hier.queue /\ hier'.active = hier.active
      /\ hier'.pc = pc /\ hier'.accepted = hier.accepted
      /\ hier'.results = Shown(terminal) /\ hier'.next = hier.next
  BY <1>1
<1>3. /\ AtWork /\ hier.pc # "idle" /\ hier'.pc # "idle"
      /\ AtWork' <=> ~terminal
      /\ ~terminal => hier.active.kind = "Home"
  BY <1>1, <1>2, WalkerFacts DEF AtWork, HierarchyShow
<1>. DEFINE mine == hier.active \in hier.accepted
            new == Len(hier.results) + 1
<1>4. ~mine => hier'.results = hier.results
  BY <1>2 DEF Shown
<1>. DEFINE p == [id |-> hier.active.id, kind |-> hier.active.kind, terminal |-> terminal]
<1>5. p.id = hier.active.id /\ p.kind = hier.active.kind /\ p.terminal = terminal
  OBVIOUS
<1>6. mine => hier'.results = Append(hier.results, p)
  BY <1>2 DEF Shown
<1>. HIDE DEF p
<1>7. /\ \A k \in DOMAIN hier'.results :
            \/ k \in DOMAIN hier.results /\ hier'.results[k] = hier.results[k]
            \/ mine /\ k = new /\ hier'.results[k] = p
      /\ \A k \in DOMAIN hier.results : k \in DOMAIN hier'.results /\ hier'.results[k] = hier.results[k]
      /\ mine => new \in DOMAIN hier'.results /\ hier'.results[new] = p
  BY <1>4, <1>6, HierarchyFields
<1>8. /\ \A k \in DOMAIN hier.results : k < new
      /\ new \in Nat /\ \A k \in DOMAIN hier'.results : k \in Nat
  BY <1>7, Identities
<1>. HIDE DEF new
<1>. USE Identities
<1>9. Numbered' /\ Distinct'
  BY <1>2, <1>3 DEF Requests, Numbered, Distinct
<1>10. Expected'
  BY <1>2, <1>5, <1>7 DEF Requests, Expected
<1>11. Unstarted'
  BY <1>2, <1>3, <1>5, <1>7 DEF Requests, Unstarted, Distinct
<1>12. Terminal'
  <2>1. \A k \in DOMAIN hier'.results :
           hier'.results[k].kind = "Screen" => hier'.results[k].terminal
    BY <1>3, <1>5, <1>7 DEF Requests, Terminal
  <2>2. ASSUME NEW j \in DOMAIN hier'.results, NEW k \in DOMAIN hier'.results,
               j < k, hier'.results[j].terminal
        PROVE  hier'.results[k].id # hier'.results[j].id
    <3>1. j \in DOMAIN hier.results /\ hier'.results[j] = hier.results[j]
      BY <1>7, <1>8, <2>2
    <3>. QED
      BY <1>3, <1>5, <1>7, <2>2, <3>1 DEF Requests, Terminal
  <2>3. \A k \in DOMAIN hier'.results :
           AtWork' /\ hier'.results[k].terminal => hier'.results[k].id # hier'.active.id
    BY <1>2, <1>3, <1>5, <1>7 DEF Requests, Terminal
  <2>4. ASSUME NEW k \in DOMAIN hier'.results, ~hier'.results[k].terminal
        PROVE  \/ AtWork' /\ hier'.active.id = hier'.results[k].id
               \/ \E j \in DOMAIN hier'.results :
                     hier'.results[j].terminal /\ hier'.results[j].id = hier'.results[k].id
    <3>1. CASE hier'.results[k] = p
      BY <1>2, <1>3, <1>5, <2>4, <3>1
    <3>2. CASE k \in DOMAIN hier.results /\ hier'.results[k] = hier.results[k]
      <4>1. CASE hier.active.id = hier.results[k].id
        <5>1. mine
          BY <1>3, <3>2, <4>1 DEF Requests, Expected, Distinct
        <5>. QED
          BY <1>2, <1>3, <1>5, <1>7, <3>2, <4>1, <5>1
      <4>2. CASE \E j \in DOMAIN hier.results :
                    hier.results[j].terminal /\ hier.results[j].id = hier.results[k].id
        BY <1>7, <3>2, <4>2
      <4>. QED
        BY <2>4, <3>2, <4>1, <4>2 DEF Requests, Terminal
    <3>. QED
      BY <1>7, <3>1, <3>2
  <2>. QED
    BY <2>1, <2>2, <2>3, <2>4 DEF Terminal
<1>13. hier'.active # NoRequest
  BY <1>2, <1>3, RequestAssumption DEF HierTyped
<1>. QED
  BY <1>9, <1>10, <1>11, <1>12, <1>13 DEF Requests, Drained

LEMMA EndHeld ==
  ASSUME HierTyped, Requests, HierarchyEnd
  PROVE  Requests'
<1>1. /\ hier.pc = "end"
      /\ hier' = [queue |-> hier.queue, active |-> NoRequest, pc |-> "idle",
                  accepted |-> hier.accepted, results |-> hier.results,
                  tokens |-> hier.tokens, next |-> hier.next]
  BY EndFactsOfWalk
<1>2. /\ hier'.queue = hier.queue /\ hier'.pc = "idle" /\ hier'.accepted = hier.accepted
      /\ hier'.results = hier.results /\ hier'.next = hier.next /\ ~AtWork /\ ~AtWork'
  BY <1>1 DEF AtWork
<1>3. Numbered' /\ Distinct'
  BY <1>2 DEF Requests, Numbered, Distinct
<1>4. Expected'
  BY <1>2, Zenon DEF Requests, Expected
<1>5. Terminal' /\ Unstarted'
  BY <1>2 DEF Requests, Terminal, Unstarted
<1>. QED
  BY <1>3, <1>4, <1>5 DEF Requests

LEMMA TakenHeld ==
  ASSUME HierTyped, Requests, NEW id, TakeHierarchy(id)
  PROVE  /\ Requests' /\ hier'.accepted \subseteq hier.accepted /\ hier'.next = hier.next
         /\ Drained(hier') => op' # Begun("Hierarchy")
         /\ \E r \in hier.accepted : /\ r.id = id
                                     /\ r.kind = "Screen" =>
                                           \A a \in hier'.accepted : a.id # id
<1>. DEFINE at == At(id)
            over == hier.results[at].terminal
<1>1. /\ at \in DOMAIN hier.results /\ hier.results[at].id = id
      /\ \A k \in DOMAIN hier.results : hier.results[k].id = id => at <= k
      /\ hier' = [queue |-> hier.queue, active |-> hier.active, pc |-> hier.pc,
                  accepted |-> IF over THEN {r \in hier.accepted : r.id # id} ELSE hier.accepted,
                  results |-> RemoveAt(hier.results, at), tokens |-> hier.tokens,
                  next |-> hier.next]
      /\ op' = IF over /\ Drained(hier') THEN Released("Hierarchy") ELSE op
  BY TakenFacts
<1>. HIDE DEF at
<1>2. /\ hier'.queue = hier.queue /\ hier'.active = hier.active /\ hier'.pc = hier.pc
      /\ hier'.accepted = IF over THEN {r \in hier.accepted : r.id # id} ELSE hier.accepted
      /\ hier'.results = RemoveAt(hier.results, at) /\ hier'.next = hier.next
  BY <1>1
<1>3. /\ Len(hier'.results) = Len(hier.results) - 1 /\ DOMAIN hier'.results = 1 .. Len(hier'.results)
      /\ \A k \in 1 .. Len(hier.results) - 1 :
            hier'.results[k] = IF k < at THEN hier.results[k] ELSE hier.results[k + 1]
  <2>1. /\ hier'.results \in Seq(Publication)
        /\ Len(hier'.results) = Len(hier.results) - 1
        /\ \A k \in 1 .. Len(hier.results) - 1 :
              hier'.results[k] = IF k < at THEN hier.results[k] ELSE hier.results[k + 1]
    BY <1>1, <1>2, HierarchyFields, Removed
  <2>. QED
    BY <2>1
<1>. USE Identities
<1>4. at \in Nat /\ 1 <= at /\ at <= Len(hier.results)
  BY <1>1
<1>. DEFINE old(k) == IF k < at THEN k ELSE k + 1
            new(j) == IF j < at THEN j ELSE j - 1
<1>5. \A k \in DOMAIN hier'.results : /\ old(k) \in DOMAIN hier.results /\ old(k) # at
                                      /\ hier'.results[k] = hier.results[old(k)]
  BY <1>3, <1>4
<1>6. \A j, k \in DOMAIN hier'.results : j < k => old(j) < old(k)
  BY <1>3, <1>4
<1>7. \A j \in DOMAIN hier.results :
         j # at => new(j) \in DOMAIN hier'.results /\ hier'.results[new(j)] = hier.results[j]
  <2> SUFFICES ASSUME NEW j \in DOMAIN hier.results, j # at
               PROVE  new(j) \in DOMAIN hier'.results /\ hier'.results[new(j)] = hier.results[j]
    OBVIOUS
  <2>1. new(j) \in 1 .. Len(hier.results) - 1 /\ old(new(j)) = j
    BY <1>4
  <2>. QED
    BY <1>3, <2>1
<1>. HIDE DEF old, new
(* What remains of the request, once its terminal result is gone, is nothing. *)
<1>8. ASSUME over, NEW j \in DOMAIN hier.results, j # at PROVE hier.results[j].id # id
  <2>1. CASE at < j
    BY <1>1, <1>8, <2>1 DEF Requests, Terminal
  <2>2. CASE ~(at < j)
    BY <1>1, <1>4, <1>8, <2>2
  <2>. QED
    BY <2>1, <2>2
<1>9. hier'.accepted \subseteq hier.accepted
  BY <1>2
<1>10. Numbered' /\ Distinct'
  BY <1>2, <1>9 DEF Requests, Numbered, Distinct
<1>11. Expected'
  <2> SUFFICES ASSUME NEW k \in DOMAIN hier'.results
               PROVE  \E r \in hier'.accepted : /\ r.id = hier'.results[k].id
                                                /\ r.kind = hier'.results[k].kind
    BY DEF Expected
  <2>1. PICK r \in hier.accepted : /\ r.id = hier.results[old(k)].id
                                   /\ r.kind = hier.results[old(k)].kind
    BY <1>5 DEF Requests, Expected
  <2>2. r \in hier'.accepted
    BY <1>2, <1>5, <1>8, <2>1
  <2>. QED
    BY <1>5, <2>1, <2>2
<1>12. Terminal'
  <2>1. \A k \in DOMAIN hier'.results :
           hier'.results[k].kind = "Screen" => hier'.results[k].terminal
    BY <1>5 DEF Requests, Terminal
  <2>2. \A j, k \in DOMAIN hier'.results :
           j < k /\ hier'.results[j].terminal => hier'.results[k].id # hier'.results[j].id
    BY <1>5, <1>6 DEF Requests, Terminal
  <2>3. \A k \in DOMAIN hier'.results :
           AtWork' /\ hier'.results[k].terminal => hier'.results[k].id # hier'.active.id
    BY <1>2, <1>5 DEF Requests, Terminal, AtWork
  <2>4. ASSUME NEW k \in DOMAIN hier'.results, ~hier'.results[k].terminal
        PROVE  \/ AtWork' /\ hier'.active.id = hier'.results[k].id
               \/ \E j \in DOMAIN hier'.results :
                     hier'.results[j].terminal /\ hier'.results[j].id = hier'.results[k].id
    <3>1. CASE AtWork /\ hier.active.id = hier.results[old(k)].id
      BY <1>2, <1>5, <2>4, <3>1 DEF AtWork
    <3>2. ASSUME NEW j \in DOMAIN hier.results, hier.results[j].terminal,
                 hier.results[j].id = hier.results[old(k)].id
          PROVE  \E i \in DOMAIN hier'.results :
                     hier'.results[i].terminal /\ hier'.results[i].id = hier'.results[k].id
      <4>1. j # at
        BY <1>1, <1>5, <1>8, <3>2
      <4>. QED
        BY <1>5, <1>7, <3>2, <4>1
    <3>. QED
      BY <1>5, <2>4, <3>1, <3>2 DEF Requests, Terminal
  <2>. QED
    BY <2>1, <2>2, <2>3, <2>4 DEF Terminal
<1>13. Unstarted'
  BY <1>2, <1>5 DEF Requests, Unstarted
<1>14. Drained(hier') => op' # Begun("Hierarchy")
  <2>1. CASE over
    BY <1>1, <2>1, Kinded DEF Released
  <2>2. CASE ~over
    <3>1. CASE AtWork
      <4>1. hier'.active # NoRequest
        BY <1>2, <3>1, RequestAssumption DEF HierTyped, AtWork
      <4>. QED
        BY <4>1 DEF Drained
    <3>2. CASE \E j \in DOMAIN hier.results : hier.results[j].terminal
      <4>1. hier'.results # <<>>
        BY <1>3, <1>7, <2>2, <3>2
      <4>. QED
        BY <4>1 DEF Drained
    <3>. QED
      BY <1>1, <2>2, <3>1, <3>2 DEF Requests, Terminal
  <2>. QED
    BY <2>1, <2>2
<1>15. \E r \in hier.accepted : /\ r.id = id
                                /\ r.kind = "Screen" => \A a \in hier'.accepted : a.id # id
  <2>1. PICK r \in hier.accepted : r.id = id /\ r.kind = hier.results[at].kind
    BY <1>1 DEF Requests, Expected
  <2>2. r.kind = "Screen" => over
    BY <1>1, <2>1 DEF Requests, Terminal
  <2>. QED
    BY <1>2, <2>1, <2>2
<1>. QED
  BY <1>2, <1>9, <1>10, <1>11, <1>12, <1>13, <1>14, <1>15 DEF Requests

LEMMA GoneHeld ==
  ASSUME HierTyped, Requests, NEW requests \in SUBSET hier.accepted, Settled(Dropped(requests))
  PROVE  /\ Requests' /\ hier'.accepted = hier.accepted \ requests /\ hier'.next = hier.next
         /\ Drained(hier') => op' # Begun("Hierarchy")
<1>. DEFINE gone == {r.id : r \in requests}
<1>1. /\ hier' = [queue |-> Retained(hier.queue, Left(hier.queue, gone)), active |-> hier.active,
                  pc |-> hier.pc, accepted |-> hier.accepted \ requests,
                  results |-> Retained(hier.results, Left(hier.results, gone)),
                  tokens |-> hier.tokens \cup gone, next |-> hier.next]
      /\ op' = IF Drained(hier') THEN Released("Hierarchy") ELSE op
      /\ HierTyped'
  BY GoneFacts
<1>2. \A r \in requests : r.id \in gone
  OBVIOUS
<1>. HIDE DEF gone
<1>3. /\ hier'.queue = Retained(hier.queue, Left(hier.queue, gone))
      /\ hier'.active = hier.active /\ hier'.pc = hier.pc
      /\ hier'.accepted = hier.accepted \ requests
      /\ hier'.results = Retained(hier.results, Left(hier.results, gone))
      /\ hier'.next = hier.next
  BY <1>1
<1>. USE Identities
<1>4. /\ \A j \in DOMAIN hier'.queue : \E k \in DOMAIN hier.queue : hier'.queue[j] = hier.queue[k]
      /\ \A i, j \in DOMAIN hier'.queue : i < j =>
            \E k, l \in DOMAIN hier.queue : /\ k < l /\ hier'.queue[i] = hier.queue[k]
                                            /\ hier'.queue[j] = hier.queue[l]
  <2>. DEFINE t == hier'.queue
              s == hier.queue
  <2>1. s \in Seq(Request) /\ t = Retained(s, Left(s, gone))
    BY <1>3, HierarchyFields
  <2>. HIDE DEF s, t
  <2>2. /\ \A j \in DOMAIN t : \E k \in DOMAIN s : k \in Left(s, gone) /\ t[j] = s[k]
        /\ \A i, j \in DOMAIN t : i < j =>
              \E k, l \in DOMAIN s : k < l /\ {k, l} \subseteq Left(s, gone) /\ t[i] = s[k] /\ t[j] = s[l]
    BY <2>1, RetainedFacts
  <2>. QED
    BY <2>2, Zenon DEF s, t
<1>5. /\ \A j \in DOMAIN hier'.results :
            \E k \in DOMAIN hier.results : /\ hier.results[k].id \notin gone
                                           /\ hier'.results[j] = hier.results[k]
      /\ \A k \in DOMAIN hier.results : hier.results[k].id \notin gone =>
            \E j \in DOMAIN hier'.results : hier'.results[j] = hier.results[k]
      /\ \A i, j \in DOMAIN hier'.results : i < j =>
            \E k, l \in DOMAIN hier.results : /\ k < l /\ hier'.results[i] = hier.results[k]
                                              /\ hier'.results[j] = hier.results[l]
  <2>. DEFINE t == hier'.results
              s == hier.results
  <2>1. s \in Seq(Publication) /\ t = Retained(s, Left(s, gone))
    BY <1>3, HierarchyFields
  <2>. HIDE DEF s, t
  <2>2. /\ \A j \in DOMAIN t : \E k \in DOMAIN s : k \in Left(s, gone) /\ t[j] = s[k]
        /\ \A k \in DOMAIN s : k \in Left(s, gone) => \E j \in DOMAIN t : t[j] = s[k]
        /\ \A i, j \in DOMAIN t : i < j =>
              \E k, l \in DOMAIN s : k < l /\ {k, l} \subseteq Left(s, gone) /\ t[i] = s[k] /\ t[j] = s[l]
    BY <2>1, RetainedFacts
  <2>3. \A k \in DOMAIN s : k \in Left(s, gone) <=> s[k].id \notin gone
    BY DEF Left
  <2>4. \A j \in DOMAIN t : \E k \in DOMAIN s : s[k].id \notin gone /\ t[j] = s[k]
    BY <2>2, <2>3, Zenon
  <2>5. \A k \in DOMAIN s : s[k].id \notin gone => \E j \in DOMAIN t : t[j] = s[k]
    BY <2>2, <2>3, Zenon
  <2>6. \A i, j \in DOMAIN t : i < j => \E k, l \in DOMAIN s : k < l /\ t[i] = s[k] /\ t[j] = s[l]
    BY <2>2, Zenon
  <2>. QED
    BY <2>4, <2>5, <2>6, Zenon DEF s, t
<1>6. Numbered'
  BY <1>3, <1>4 DEF Requests, Numbered
<1>7. Distinct'
  <2>1. \A i, j \in DOMAIN hier'.queue : i < j => hier'.queue[i].id # hier'.queue[j].id
    BY <1>4 DEF Requests, Distinct
  <2>2. \A i, j \in DOMAIN hier'.queue : i < j \/ j < i \/ i = j
    <3>1. hier'.queue \in Seq(Request)
      BY <1>1 DEF HierTyped, Hierarchy
    <3>. QED
      BY <3>1
  <2>3. \A k \in DOMAIN hier'.queue : hier'.pc # "idle" => hier'.active.id # hier'.queue[k].id
    BY <1>3, <1>4 DEF Requests, Distinct
  <2>4. \A r \in hier'.accepted, k \in DOMAIN hier'.queue :
           r.id = hier'.queue[k].id => r = hier'.queue[k]
    BY <1>3, <1>4 DEF Requests, Distinct
  <2>5. \A r \in hier'.accepted : hier'.pc # "idle" /\ r.id = hier'.active.id => r = hier'.active
    BY <1>3 DEF Requests, Distinct
  <2>6. \A j, k \in DOMAIN hier'.queue : hier'.queue[j].id = hier'.queue[k].id => j = k
    BY <2>1, <2>2
  <2>. QED
    BY <2>3, <2>4, <2>5, <2>6 DEF Distinct
<1>8. Expected'
  <2> SUFFICES ASSUME NEW j \in DOMAIN hier'.results
               PROVE  \E r \in hier'.accepted : /\ r.id = hier'.results[j].id
                                                /\ r.kind = hier'.results[j].kind
    BY DEF Expected
  <2>1. PICK k \in DOMAIN hier.results : /\ hier.results[k].id \notin gone
                                         /\ hier'.results[j] = hier.results[k]
    BY <1>5
  <2>2. PICK r \in hier.accepted : r.id = hier.results[k].id /\ r.kind = hier.results[k].kind
    BY DEF Requests, Expected
  <2>3. r \in hier'.accepted
    BY <1>2, <1>3, <2>1, <2>2
  <2>. QED
    BY <2>1, <2>2, <2>3
<1>9. Terminal'
  <2>1. \A k \in DOMAIN hier'.results :
           hier'.results[k].kind = "Screen" => hier'.results[k].terminal
    BY <1>5 DEF Requests, Terminal
  <2>2. ASSUME NEW i \in DOMAIN hier'.results, NEW j \in DOMAIN hier'.results,
               i < j, hier'.results[i].terminal
        PROVE  hier'.results[j].id # hier'.results[i].id
    <3>1. PICK k \in DOMAIN hier.results, l \in DOMAIN hier.results :
              k < l /\ hier'.results[i] = hier.results[k] /\ hier'.results[j] = hier.results[l]
      BY <1>5, <2>2
    <3>. QED
      BY <2>2, <3>1 DEF Requests, Terminal
  <2>3. \A k \in DOMAIN hier'.results :
           AtWork' /\ hier'.results[k].terminal => hier'.results[k].id # hier'.active.id
    BY <1>3, <1>5 DEF Requests, Terminal, AtWork
  <2>4. ASSUME NEW j \in DOMAIN hier'.results, ~hier'.results[j].terminal
        PROVE  \/ AtWork' /\ hier'.active.id = hier'.results[j].id
               \/ \E i \in DOMAIN hier'.results :
                     hier'.results[i].terminal /\ hier'.results[i].id = hier'.results[j].id
    <3>1. PICK k \in DOMAIN hier.results : /\ hier.results[k].id \notin gone
                                           /\ hier'.results[j] = hier.results[k]
      BY <1>5
    <3>2. CASE AtWork /\ hier.active.id = hier.results[k].id
      BY <1>3, <3>1, <3>2 DEF AtWork
    <3>3. CASE \E l \in DOMAIN hier.results :
                  hier.results[l].terminal /\ hier.results[l].id = hier.results[k].id
      <4>1. PICK l \in DOMAIN hier.results :
                hier.results[l].terminal /\ hier.results[l].id = hier.results[k].id
        BY <3>3
      <4>2. PICK i \in DOMAIN hier'.results : hier'.results[i] = hier.results[l]
        BY <1>5, <3>1, <4>1
      <4>. QED
        BY <3>1, <4>1, <4>2
    <3>. QED
      BY <2>4, <3>1, <3>2, <3>3 DEF Requests, Terminal
  <2>. QED
    BY <2>1, <2>2, <2>3, <2>4 DEF Terminal
<1>10. Unstarted'
  BY <1>4, <1>5 DEF Requests, Unstarted
<1>11. Drained(hier') => op' # Begun("Hierarchy")
  BY <1>1, Kinded DEF Released
<1>. QED
  BY <1>3, <1>6, <1>7, <1>8, <1>9, <1>10, <1>11 DEF Requests

(***************************************************************************)
(* The consumers, and the steps that leave some part alone.                *)
(***************************************************************************)
LEMMA Slots ==
  ASSUME SlotTyped
  PROVE  /\ op.kind \in Kinds => op \in {Begun(op.kind), Pending(op.kind)}
         /\ op.kind = "Startup" => op \in {Begun("Startup"), Pending("Startup")}
         /\ op.kind = "FullPopulation" => op \in {Begun("FullPopulation"), Pending("FullPopulation")}
         /\ Begun(op.kind).phase = "Executing" /\ Free.phase = "Idle"
  BY DEF SlotTyped, Begun, Pending, Free, Kinds, Workers, Phases

LEMMA QuietRequests ==
  ASSUME Requests, Awaited, UNCHANGED hier,
         home'.screens = home.screens, home'.task = home.task
  PROVE  Requests' /\ Awaited'
  BY DEF Requests, Numbered, Distinct, Expected, Terminal, Unstarted, AtWork, Awaited

(* Neither the slot's worker nor its consumer moves. *)
LEMMA SlotKept ==
  ASSUME Owned, Updated, op' \in {op, Free, Begun("Hierarchy")}, UNCHANGED <<run, updates>>,
         fetch'.pc = fetch.pc \/ fetch.pc \notin {"spawn", "wait", "launch", "consume"}
  PROVE  Owned' /\ Updated'
<1>1. CASE op' = op
  BY <1>1 DEF Owned, Updated
<1>2. CASE op' = Free
  BY <1>2 DEF Owned, Updated, Free, Begun, Pending
<1>3. CASE op' = Begun("Hierarchy")
  BY <1>3 DEF Owned, Updated, Begun, Pending, Workers
<1>. QED
  BY <1>1, <1>2, <1>3

LEMMA QuietHeld ==
  ASSUME HeldInv, UNCHANGED hier, home'.screens = home.screens, home'.task = home.task,
         Owned', Updated', op'.kind = "Hierarchy" => op' = op
  PROVE  HeldInv'
  BY QuietRequests DEF HeldInv, Busy, Drained

(***************************************************************************)
(* The steps that ask for a walk, take a result or drop a request.         *)
(***************************************************************************)
LEMMA RequestAwaited ==
  ASSUME HierTyped, Awaited, NEW kind \in {"Home", "Screen"}, NEW g \in Nat, NEW force \in BOOLEAN,
         RequestHierarchy(kind, g, force),
         home'.screens = IF kind = "Screen" THEN home.screens \cup {hier.next} ELSE home.screens,
         home'.task = IF kind = "Home" THEN hier.next ELSE home.task,
         home.screens \subseteq Nat, Numbered
  PROVE  Awaited'
<1>. DEFINE request == Asked(kind, g, force)
<1>1. /\ request.id = hier.next /\ request.kind = kind
      /\ hier' = [queue |-> Append(hier.queue, request), active |-> hier.active, pc |-> hier.pc,
                  accepted |-> hier.accepted \cup {request}, results |-> hier.results,
                  tokens |-> hier.tokens, next |-> hier.next + 1]
  BY RequestFacts
<1>. HIDE DEF request
<1>2. hier'.accepted = hier.accepted \cup {request} /\ hier'.next = hier.next + 1
      /\ hier.next \in Nat
  BY <1>1, Identities
<1>3. kind = "Home" => \A r \in hier.accepted : r.kind # "Home"
  BY DEF RequestHierarchy, HomeAccepted
<1>4. \A id \in home'.screens : id < hier'.next
  BY <1>2 DEF Awaited
<1>5. hier.next \notin home.screens
  BY <1>2 DEF Awaited
<1>6. \A r \in hier'.accepted : r.kind = "Screen" => r.id \in home'.screens
  BY <1>1, <1>2 DEF Awaited
<1>7. \A r \in hier'.accepted : r.kind = "Home" => r.id = home'.task /\ r.id \notin home'.screens
  <2> SUFFICES ASSUME NEW r \in hier'.accepted, r.kind = "Home"
               PROVE  r.id = home'.task /\ r.id \notin home'.screens
    OBVIOUS
  <2>1. CASE r = request
    BY <1>1, <1>5, <2>1
  <2>2. CASE r \in hier.accepted
    <3>1. kind = "Screen" /\ r.id = home.task /\ r.id \notin home.screens
      BY <1>3, <2>2 DEF Awaited
    <3>2. r.id # hier.next
      BY <1>2, <2>2, Identities DEF Numbered
    <3>. QED
      BY <3>1, <3>2
  <2>. QED
    BY <1>2, <2>1, <2>2
<1>. QED
  BY <1>4, <1>6, <1>7 DEF Awaited

(* Nothing is asked for; whoever stops waiting has no request left. *)
LEMMA FewerAwaited ==
  ASSUME Awaited, hier'.accepted \subseteq hier.accepted, hier'.next = hier.next,
         home'.screens \subseteq home.screens,
         \A r \in hier'.accepted : r.kind = "Screen" => r.id \in home'.screens \/ r.id \notin home.screens,
         home'.task = home.task \/ \A r \in hier'.accepted : r.kind # "Home"
  PROVE  Awaited'
  BY DEF Awaited

(* A step of the hierarchy worker or of its consumers, as the slot sees it. *)
LEMMA HierarchyHeld ==
  ASSUME HeldInv, Typed, Requests', Awaited',
         op' \in {op, Released("Hierarchy"), Begun("Hierarchy")},
         Drained(hier') => op' # Begun("Hierarchy"),
         UNCHANGED <<run, updates>>,
         fetch'.pc = fetch.pc \/ fetch.pc \notin {"spawn", "wait", "launch", "consume"}
  PROVE  HeldInv'
<1>1. op' \in {op, Free, Begun("Hierarchy")}
  BY DEF Released
<1>2. Owned' /\ Updated'
  BY <1>1, SlotKept DEF HeldInv
<1>3. op'.kind = "Hierarchy" => op' = Begun("Hierarchy")
  <2>1. op.kind = "Hierarchy" => op = Begun("Hierarchy")
    BY Slots DEF Typed, HeldInv, Owned, Kinds, Pending
  <2>. QED
    BY <1>1, <2>1, Kinded
<1>4. Busy'
  BY <1>3 DEF Busy
<1>. QED
  BY <1>2, <1>4 DEF HeldInv

LEMMA ApplyHeld ==
  ASSUME HeldInv, Typed, NEW kind \in {"Home", "Screen"}, NEW g \in Nat, NEW force \in BOOLEAN,
         RequestHierarchy(kind, g, force),
         home'.screens = IF kind = "Screen" THEN home.screens \cup {hier.next} ELSE home.screens,
         home'.task = IF kind = "Home" THEN hier.next ELSE home.task,
         fetch'.pc = fetch.pc \/ fetch.pc \notin {"spawn", "wait", "launch", "consume"}
  PROVE  HeldInv'
<1>1. HierTyped /\ Requests /\ Awaited /\ Numbered /\ home.screens \subseteq Nat
  BY DEF HeldInv, Requests, Typed, HomeTyped, Home
<1>2. Requests' /\ ~Drained(hier') /\ Awaited'
  BY <1>1, RequestHeld, RequestAwaited
<1>3. op' = Begun("Hierarchy") /\ UNCHANGED <<run, updates>>
  BY DEF RequestHierarchy, resultVars
<1>. QED
  BY <1>2, <1>3, HierarchyHeld

LEMMA WalkHeld ==
  ASSUME HeldInv, Typed, Walker
  PROVE  HeldInv'
<1>0. HierTyped /\ Requests /\ Awaited /\ UNCHANGED <<fetch, home>> /\ HierarchyStep
  BY DEF HeldInv, Typed, Walker
<1>1. CASE HierarchyTake \/ HierarchyShow \/ HierarchyEndWalk \/ HierarchyMark
  <2>1. Requests' /\ ~Drained(hier')
    BY <1>0, <1>1, TakeHeld, WalkerHeld
  <2>2. UNCHANGED <<op, run, updates>>
    BY <1>1 DEF HierarchyTake, HierarchyShow, HierarchyEndWalk, HierarchyMark, slotVars, resultVars
  <2>3. hier'.accepted = hier.accepted /\ hier'.next = hier.next
    <3>1. CASE HierarchyTake
      BY <1>0, <3>1, TakeFacts
    <3>2. CASE HierarchyShow \/ HierarchyEndWalk \/ HierarchyMark
      BY <1>0, <3>2, WalkerFacts
    <3>. QED
      BY <1>1, <3>1, <3>2
  <2>4. Awaited'
    BY <1>0, <2>3 DEF Awaited
  <2>. QED
    BY <1>0, <2>1, <2>2, <2>4, HierarchyHeld
<1>2. CASE HierarchyEnd
  <2>1. /\ Requests' /\ hier'.accepted = hier.accepted /\ hier'.next = hier.next
        /\ op' = IF Drained(hier') THEN Released("Hierarchy") ELSE op
    BY <1>0, <1>2, EndHeld, EndFactsOfWalk
  <2>2. Awaited'
    BY <1>0, <2>1 DEF Awaited
  <2>3. Drained(hier') => op' # Begun("Hierarchy")
    BY <2>1, Kinded DEF Released
  <2>4. UNCHANGED <<run, updates>>
    BY <1>2 DEF HierarchyEnd, resultVars
  <2>. QED
    BY <1>0, <2>1, <2>2, <2>3, <2>4, HierarchyHeld
<1>. QED
  BY <1>0, <1>1, <1>2 DEF HierarchyStep

(* Home takes a result of its prefetch, or a screen the one it waits for. *)
LEMMA ResultHeld ==
  ASSUME HeldInv, Typed, ConsumePrefetch \/ Screen
  PROVE  HeldInv'
<1>0. HierTyped /\ Requests /\ Awaited /\ home \in Home
  BY DEF HeldInv, Typed, HomeTyped
<1>1. ASSUME NEW id, TakeHierarchy(id)
      PROVE  /\ Requests' /\ hier'.accepted \subseteq hier.accepted /\ hier'.next = hier.next
             /\ Drained(hier') => op' # Begun("Hierarchy")
             /\ \E r \in hier.accepted : /\ r.id = id
                                         /\ r.kind = "Screen" => \A a \in hier'.accepted : a.id # id
             /\ op' \in {op, Released("Hierarchy")} /\ UNCHANGED <<run, updates>>
  <2>1. op' \in {op, Released("Hierarchy")} /\ UNCHANGED <<run, updates>>
    BY <1>0, <1>1, TakenFacts DEF TakeHierarchy, resultVars
  <2>. QED
    BY <1>0, <1>1, <2>1, TakenHeld
<1>2. CASE ConsumePrefetch
  <2>1. TakeHierarchy(home.task) /\ UNCHANGED fetch
        /\ home' = IF \E r \in hier'.accepted : r.id = home.task THEN home ELSE [home EXCEPT !.task = 0]
    BY <1>2 DEF ConsumePrefetch
  <2>2. home'.screens = home.screens
    BY <1>0, <2>1 DEF Home
  <2>3. home'.task = home.task \/ \A r \in hier'.accepted : r.kind # "Home"
    BY <1>0, <1>1, <2>1 DEF Awaited
  <2>4. Awaited'
    BY <1>0, <1>1, <2>1, <2>2, <2>3, FewerAwaited
  <2>. QED
    BY <1>1, <2>1, <2>4, HierarchyHeld
<1>3. ASSUME NEW id \in home.screens, ScreenResult(id)
      PROVE  HeldInv'
  <2>1. TakeHierarchy(id) /\ UNCHANGED fetch /\ home' = [home EXCEPT !.screens = @ \ {id}]
    BY <1>3 DEF ScreenResult
  <2>2. home'.screens = home.screens \ {id} /\ home'.task = home.task
    BY <1>0, <2>1 DEF Home
  <2>3. PICK r \in hier.accepted : r.id = id /\ (r.kind = "Screen" => \A a \in hier'.accepted : a.id # id)
    BY <1>1, <2>1
  <2>4. \A a \in hier'.accepted : a.id # id
    <3>1. r.kind \in {"Home", "Screen"}
      BY <1>0, HierarchyFields DEF Request
    <3>. QED
      BY <1>0, <1>3, <2>3, <3>1 DEF Awaited
  <2>5. Awaited'
    BY <1>0, <1>1, <2>1, <2>2, <2>4, FewerAwaited
  <2>. QED
    BY <1>1, <2>1, <2>5, HierarchyHeld
<1>. QED
  BY <1>2, <1>3 DEF Screen

(* A screen that leaves, and Home's own requests when its fetch is cancelled. *)
LEMMA DropHeld ==
  ASSUME HeldInv, Typed, NEW requests \in SUBSET hier.accepted, Settled(Dropped(requests)),
         UNCHANGED <<run, updates>>,
         home'.screens \subseteq home.screens,
         \A r \in hier.accepted \ requests :
            r.kind = "Screen" => r.id \in home'.screens \/ r.id \notin home.screens,
         home'.task = home.task \/ \A r \in hier.accepted \ requests : r.kind # "Home",
         fetch'.pc = fetch.pc \/ fetch.pc \notin {"spawn", "wait", "launch", "consume"}
  PROVE  HeldInv'
<1>0. HierTyped /\ Requests /\ Awaited
  BY DEF HeldInv, Typed
<1>1. /\ Requests' /\ hier'.accepted = hier.accepted \ requests /\ hier'.next = hier.next
      /\ Drained(hier') => op' # Begun("Hierarchy")
  BY <1>0, GoneHeld
<1>2. op' \in {op, Released("Hierarchy")}
  BY <1>0, GoneFacts
<1>3. Awaited'
  BY <1>0, <1>1, FewerAwaited
<1>. QED
  BY <1>1, <1>2, <1>3, HierarchyHeld

(***************************************************************************)
(* The workers and the fetch thread.                                       *)
(***************************************************************************)
(* The worker w moves while it holds the slot. *)
LEMMA WorkingHeld ==
  ASSUME HeldInv, Typed, IInv, NEW w \in Workers, run[w].pc # "none",
         Alone(run', w), run'[w].pc # "none", UNCHANGED <<op, hier, fetch, home>>,
         updates' = updates \/ (w = "FullPopulation" /\ updates' = Append(updates, "page"))
  PROVE  HeldInv'
<1>1. op = Begun(w)
  BY DEF IInv, SlotInv, Exclusive
<1>2. Owned'
  BY DEF HeldInv, Owned, Alone
<1>3. Updated'
  <2>1. CASE updates' = updates
    BY <2>1 DEF HeldInv, Updated
  <2>2. CASE w = "FullPopulation" /\ updates' = Append(updates, "page")
    <3>1. \A k \in DOMAIN updates : updates[k] = "page"
      BY <1>1, <2>2 DEF HeldInv, Updated
    <3>2. updates \in Seq(Outs \cup {"page"})
      BY DEF Typed, ResultTyped
    <3>3. \A k \in DOMAIN updates' : updates'[k] = "page"
      BY <2>2, <3>1, <3>2
    <3>4. op' # Pending("FullPopulation")
      BY <1>1, <2>2, Kinded
    <3>. QED
      BY <3>3, <3>4 DEF Updated
  <2>. QED
    BY <2>1, <2>2
<1>. QED
  BY <1>2, <1>3, QuietHeld

LEMMA WorkersHeld ==
  ASSUME HeldInv, Typed, IInv, NEW w \in Workers, UNCHANGED <<fetch, home>>,
         \/ GiveUp(w) \/ ReadState(w) \/ CatchUpFetch(w) \/ CatchUpWrite(w) \/ CatchUpMark(w)
         \/ WalkBegin(w) \/ WalkPage(w) \/ WalkFinalize(w) \/ WalkMark(w)
         \/ (w = "Startup" /\ ReadStartup)
         \/ (w = "LiveChange" /\ (LiveGet \/ LivePut))
  PROVE  HeldInv'
<1>0. RunTyped /\ CatalogTyped /\ gen \in Nat /\ disk \in Disk /\ batch \in Ticket
  BY DEF Typed, CatalogTyped, EventTyped
<1>1. run[w].pc # "none"
  BY DEF GiveUp, Interruptible, ReadState, CatchUpFetch, CatchUpWrite, CatchUpMark, WalkBegin,
         WalkPage, WalkFinalize, WalkMark, ReadStartup, LiveGet, LivePut
<1>2. UNCHANGED <<op, hier>>
  BY DEF GiveUp, ReadState, CatchUpFetch, CatchUpWrite, CatchUpMark, WalkBegin,
         WalkPage, WalkFinalize, WalkMark, ReadStartup, LiveGet, LivePut, slotVars
<1>3. updates' = updates \/ (w = "FullPopulation" /\ updates' = Append(updates, "page"))
  BY DEF GiveUp, ReadState, CatchUpFetch, CatchUpWrite, CatchUpMark, WalkBegin,
         WalkPage, WalkFinalize, WalkMark, ReadStartup, LiveGet, LivePut, resultVars
<1>4. Alone(run', w) /\ run'[w].pc # "none"
  <2>1. CASE GiveUp(w)
    BY <1>0, <2>1, GiveUpFacts
  <2>2. CASE ReadState(w)
    BY <1>0, <2>2, ReadStateFacts
  <2>3. CASE CatchUpFetch(w) \/ CatchUpWrite(w) \/ CatchUpMark(w)
    BY <1>0, <2>3, CatchUpFacts
  <2>4. CASE WalkBegin(w) \/ WalkPage(w) \/ WalkFinalize(w) \/ WalkMark(w)
    BY <2>4, <1>0, WalkFacts
  <2>5. CASE w = "Startup" /\ ReadStartup
    BY <1>0, <2>5, ReadStartupFacts
  <2>6. CASE w = "LiveChange" /\ (LiveGet \/ LivePut)
    BY <1>0, <2>6, LiveGetFacts, LivePutFacts
  <2>. QED
    BY <2>1, <2>2, <2>3, <2>4, <2>5, <2>6
<1>. QED
  BY <1>1, <1>2, <1>3, <1>4, WorkingHeld

LEMMA LaunchHeld ==
  ASSUME HeldInv, Typed, IInv, ~stopped, NEW w \in {"Startup", "FullPopulation"}, Launch(w),
         UNCHANGED <<fetch, home>>
  PROVE  HeldInv'
<1>1. w \in Workers /\ RunTyped /\ gen \in Nat
  BY DEF Workers, Typed, CatalogTyped
<1>2. Alone(run', w) /\ run[w].pc = "join" /\ run'[w].pc \in {"read", "begin"}
  BY <1>1, LaunchFacts
<1>3. UNCHANGED <<op, hier, updates>>
  BY DEF Launch, slotVars
<1>. QED
  BY <1>1, <1>2, <1>3, WorkingHeld

(* The publication of a worker: it stays in the slot for Home, or leaves it. *)
LEMMA PublishHeld ==
  ASSUME HeldInv, Typed, IInv, NEW w \in Workers, run[w].pc = "publish", UNCHANGED <<hier, fetch, home>>,
         run' = [run EXCEPT ![w] = IdleRun],
         \/ w = "Startup" /\ op' = (IF op.kind = w THEN Pending(w) ELSE op) /\ UNCHANGED updates
         \/ /\ w = "FullPopulation" /\ op' = IF op.kind = w THEN Pending(w) ELSE op
            /\ updates' = Append(updates, run[w].out)
         \/ w \in {"SafetyReconcile", "LiveChange"} /\ op' = Released(w) /\ UNCHANGED updates
  PROVE  HeldInv'
<1>1. op = Begun(w) /\ op.kind = w
  BY Kinded DEF IInv, SlotInv, Exclusive
<1>2. CASE w = "Startup"
  <2>1. op' = Pending("Startup") /\ op'.kind = "Startup" /\ op'.phase = "PublicationPending"
    BY <1>1, <1>2 DEF Pending
  <2>2. Owned'
    BY <1>1, <1>2, <2>1, Kinded DEF HeldInv, Owned
  <2>3. Updated'
    BY <2>1 DEF Updated, Begun, Pending
  <2>. QED
    BY <2>1, <2>2, <2>3, QuietHeld
<1>3. CASE w = "FullPopulation"
  <2>1. /\ op' = Pending("FullPopulation") /\ op'.kind = "FullPopulation"
        /\ updates' = Append(updates, run[w].out)
    BY <1>1, <1>3 DEF Pending
  <2>2. Owned'
    BY <1>1, <1>3, <2>1, Kinded DEF HeldInv, Owned
  <2>3. updates \in Seq(Outs \cup {"page"}) /\ run[w].out \in Outs /\ "page" \notin Outs
    BY DEF Typed, ResultTyped, RunTyped, RunRecord, Outs
  <2>4. \A k \in DOMAIN updates : updates[k] = "page"
    BY <1>1, <1>3 DEF HeldInv, Updated
  <2>5. updates' # <<>> /\ \A k \in DOMAIN updates' : updates'[k] = "page" <=> k # Len(updates')
    BY <2>1, <2>3, <2>4
  <2>6. Updated'
    BY <2>1, <2>5, Kinded DEF Updated
  <2>. QED
    BY <2>1, <2>2, <2>6, QuietHeld
<1>4. CASE w \in {"SafetyReconcile", "LiveChange"}
  <2>1. op' = Free /\ UNCHANGED updates /\ op'.kind = "None" /\ op'.phase = "Idle"
    BY <1>1, <1>4 DEF Released, Free
  <2>2. Owned' /\ Updated'
    BY <2>1, Kinded DEF Owned, Updated
  <2>. QED
    BY <2>1, <2>2, QuietHeld
<1>. QED
  BY <1>2, <1>3, <1>4 DEF Workers

(* A worker is admitted: the fetch thread waits for startup and population. *)
LEMMA AdmitHeld ==
  ASSUME HeldInv, Typed, NEW w \in Workers, op' = Begun(w), UNCHANGED hier,
         home'.screens = home.screens, home'.task = home.task,
         Alone(run', w), run'[w].pc # "none",
         w = "Startup" => fetch'.pc = "spawn",
         w = "FullPopulation" => fetch'.pc = "launch" /\ updates' = <<>>
  PROVE  HeldInv'
<1>1. Owned'
  BY Kinded DEF Owned, Begun
<1>2. Updated'
  BY Kinded DEF Updated
<1>. QED
  BY <1>1, <1>2, Kinded, QuietHeld

LEMMA StepHeld ==
  ASSUME HeldInv, Typed, IInv, ~stopped, NEW w \in Workers, Worker(w)
  PROVE  HeldInv'
<1>0. RunTyped /\ UNCHANGED <<fetch, home>> /\ Step(w) /\ "read" \in Pcs
  BY DEF Typed, Worker, Pcs, Interruptible
<1>1. CASE \/ GiveUp(w) \/ ReadState(w) \/ CatchUpFetch(w) \/ CatchUpWrite(w) \/ CatchUpMark(w)
           \/ WalkBegin(w) \/ WalkPage(w) \/ WalkFinalize(w) \/ WalkMark(w)
           \/ (w = "Startup" /\ ReadStartup)
           \/ (w = "LiveChange" /\ (LiveGet \/ LivePut))
  BY <1>0, <1>1, WorkersHeld
<1>2. CASE w \in {"Startup", "FullPopulation"} /\ Launch(w)
  BY <1>0, <1>2, LaunchHeld
<1>3. CASE w = "Startup" /\ PublishStartup
  BY <1>0, <1>3, PublishHeld DEF PublishStartup
<1>4. CASE w = "FullPopulation" /\ PublishPopulation
  BY <1>0, <1>4, PublishHeld DEF PublishPopulation
<1>5. CASE w = "SafetyReconcile" /\ PublishSafety
  BY <1>0, <1>5, PublishHeld DEF PublishSafety
<1>6. CASE w = "LiveChange" /\ LivePublish
  BY <1>0, <1>6, PublishHeld DEF LivePublish
<1>7. CASE w = "LiveChange" /\ LiveDrain
  <2>1. UNCHANGED <<op, run, updates, hier>>
    BY <1>7 DEF LiveDrain, slotVars, resultVars
  <2>2. Owned' /\ Updated'
    BY <1>0, <2>1, SlotKept DEF HeldInv
  <2>. QED
    BY <1>0, <2>1, <2>2, QuietHeld
<1>8. CASE w = "LiveChange" /\ LiveClaim
  <2>1. op' = Begun(w) /\ UNCHANGED <<hier, updates>>
    BY <1>8 DEF LiveClaim, resultVars
  <2>2. Alone(run', w) /\ run'[w].pc # "none"
    BY <1>0, <1>8, LiveClaimFacts
  <2>. QED
    BY <1>0, <1>8, <2>1, <2>2, AdmitHeld
<1>. QED
  BY <1>0, <1>1, <1>2, <1>3, <1>4, <1>5, <1>6, <1>7, <1>8 DEF Step

LEMMA FetchHeld ==
  ASSUME HeldInv, Typed, IInv, ~stopped, FetchStep
  PROVE  HeldInv'
<1>0. /\ fetch \in Fetch /\ RunTyped /\ SlotTyped /\ "join" \in Pcs
      /\ "Startup" \in Workers /\ "FullPopulation" \in Workers
      /\ updates \in Seq(Outs \cup {"page"})
  BY DEF Typed, HomeTyped, ResultTyped, Pcs, Interruptible, Workers
<1>1. UNCHANGED home
  BY DEF FetchStep, FetchOffline, FetchStartup, FetchSpawned, FetchPolicy, FetchNoPolicy, FetchAsk,
         FetchConsume, FetchNoUpdate
(* The coordinator's part of the slot stays, and so does whose turn it is. *)
<1>2. ASSUME UNCHANGED <<op, run, updates, hier>>,
             op.kind = "Startup" => fetch'.pc \in {"spawn", "wait"},
             op.kind = "FullPopulation" => fetch'.pc \in {"launch", "consume"}
      PROVE  HeldInv'
  <2>1. Owned' /\ Updated'
    BY <1>2 DEF HeldInv, Owned, Updated
  <2>. QED
    BY <1>1, <1>2, <2>1, QuietHeld
<1>3. CASE FetchOffline
  <2>1. UNCHANGED <<op, run, updates, hier>> /\ fetch.pc = "begun"
    BY <1>3 DEF FetchOffline, coordinatorVars, slotVars, resultVars
  <2>. QED
    BY <1>2, <2>1 DEF HeldInv, Owned
<1>4. CASE FetchStartup
  <2>1. CASE Admitted("Startup")
    <3>1. Admit("Startup") /\ UNCHANGED hier /\ fetch'.pc = "spawn"
      BY <1>0, <1>4, <2>1 DEF FetchStartup, RequestStartup, Fetching, Fetch
    <3>2. Alone(run', "Startup") /\ run'["Startup"].pc = "join"
      BY <1>0, <3>1, StartFacts DEF Admit
    <3>. QED
      BY <1>0, <1>1, <3>1, <3>2, AdmitHeld DEF Admit
  <2>2. CASE ~Admitted("Startup")
    <3>1. UNCHANGED <<op, run, updates, hier>> /\ fetch.pc = "begun"
      BY <1>4, <2>2 DEF FetchStartup, coordinatorVars, slotVars, resultVars
    <3>. QED
      BY <1>2, <3>1 DEF HeldInv, Owned
  <2>. QED
    BY <2>1, <2>2
<1>5. ASSUME NEW kind, NEW from, NEW to, FetchSpawned(kind, from, to),
             (from = "spawn" /\ to = "wait") \/ (from = "launch" /\ to = "consume")
      PROVE  HeldInv'
  <2>1. UNCHANGED <<op, run, updates, hier>> /\ fetch.pc = from
    BY <1>5 DEF FetchSpawned, slotVars, resultVars
  <2>2. fetch'.pc = to
    BY <1>0, <1>5 DEF FetchSpawned, Fetching, Fetch
  <2>. QED
    BY <1>2, <1>5, <2>1, <2>2 DEF HeldInv, Owned
<1>6. CASE FetchPolicy
  <2>1. /\ op' = Free /\ UNCHANGED <<updates, hier>>
    BY <1>6 DEF FetchPolicy, TakeStartup, resultVars
  <2>2. Owned' /\ Updated' /\ op'.kind # "Hierarchy"
    BY <2>1, Kinded DEF Owned, Updated, Free, Begun, Pending
  <2>. QED
    BY <1>1, <2>1, <2>2, QuietHeld
<1>7. CASE FetchNoPolicy
  <2>1. UNCHANGED <<op, run, updates, hier>> /\ fetch.pc = "wait" /\ op.kind # "Startup"
    BY <1>0, <1>7, Slots DEF FetchNoPolicy, coordinatorVars, slotVars, resultVars
  <2>. QED
    BY <1>2, <2>1 DEF HeldInv, Owned
<1>8. CASE FetchAsk
  <2>1. CASE Admitted("FullPopulation")
    <3>1. Admit("FullPopulation") /\ UNCHANGED hier /\ fetch'.pc = "launch"
      BY <1>0, <1>8, <2>1 DEF FetchAsk, RequestPopulation, Fetching, Fetch
    <3>2. Alone(run', "FullPopulation") /\ run'["FullPopulation"].pc = "join"
      BY <1>0, <3>1, StartFacts DEF Admit
    <3>. QED
      BY <1>0, <1>1, <3>1, <3>2, AdmitHeld DEF Admit
  <2>2. CASE ~Admitted("FullPopulation")
    <3>1. UNCHANGED <<op, run, updates, hier>> /\ fetch.pc = "ask"
      BY <1>8, <2>2 DEF FetchAsk, coordinatorVars, slotVars, resultVars
    <3>. QED
      BY <1>2, <3>1 DEF HeldInv, Owned
  <2>. QED
    BY <2>1, <2>2
<1>9. CASE FetchConsume
  <2>1. /\ updates # <<>> /\ updates' = Tail(updates) /\ UNCHANGED <<run, hier>>
        /\ op' = IF Len(updates) = 1 /\ op = Pending("FullPopulation") THEN Free ELSE op
        /\ fetch.pc = "consume"
        /\ Head(updates) = "page" => fetch' = fetch
    BY <1>9 DEF FetchConsume, TakeUpdate, slotVars
  <2>2. /\ 1 \in DOMAIN updates /\ Head(updates) = updates[1] /\ Len(updates) \in Nat
        /\ Len(updates') = Len(updates) - 1
        /\ \A k \in DOMAIN updates' : /\ k \in 1 .. Len(updates') /\ k + 1 \in DOMAIN updates
                                      /\ updates'[k] = updates[k + 1]
    BY <1>0, <2>1
  <2>3. op.kind \notin {"Startup"}
    BY <2>1 DEF HeldInv, Owned
  <2>4. op'.kind = "FullPopulation" => op' = op /\ Head(updates) = "page"
    <3> SUFFICES ASSUME op'.kind = "FullPopulation" PROVE op' = op /\ Head(updates) = "page"
      OBVIOUS
    <3>1. op' = op /\ op \in {Begun("FullPopulation"), Pending("FullPopulation")}
      BY <1>0, <2>1, Kinded, Slots
    <3>2. CASE op = Begun("FullPopulation")
      BY <2>2, <3>1, <3>2 DEF HeldInv, Updated
    <3>3. CASE op = Pending("FullPopulation")
      <4>1. 1 # Len(updates)
        BY <2>1, <3>1, <3>3, Kinded
      <4>. QED
        BY <2>2, <3>1, <3>3, <4>1 DEF HeldInv, Updated
    <3>. QED
      BY <3>1, <3>2, <3>3
  <2>5. op' \in {op, Free}
    BY <2>1
  <2>6. Owned'
    BY <2>1, <2>3, <2>4, <2>5, Kinded DEF HeldInv, Owned, Free
  <2>7. Updated'
    <3>1. CASE op' = Begun("FullPopulation")
      <4>1. op = op'
        BY <2>5, <3>1, Kinded
      <4>2. \A k \in DOMAIN updates' : updates'[k] = "page"
        BY <2>2, <3>1, <4>1 DEF HeldInv, Updated
      <4>. QED
        BY <3>1, <4>2, Kinded DEF Updated
    <3>2. CASE op' = Pending("FullPopulation")
      <4>1. op = Pending("FullPopulation") /\ Len(updates) # 1
        BY <2>1, <3>2, Kinded
      <4>2. updates' # <<>>
        BY <2>1, <2>2, <4>1
      <4>3. \A k \in DOMAIN updates' : updates'[k] = "page" <=> k # Len(updates')
        BY <2>2, <4>1 DEF HeldInv, Updated
      <4>. QED
        BY <3>2, <4>2, <4>3, Kinded DEF Updated
    <3>. QED
      BY <3>1, <3>2 DEF Updated
  <2>. QED
    BY <1>1, <2>1, <2>5, <2>6, <2>7, Kinded, QuietHeld
<1>10. CASE FetchNoUpdate
  <2>1. UNCHANGED <<op, run, updates, hier>> /\ fetch.pc = "consume" /\ op.kind # "FullPopulation"
    <3>1. /\ UNCHANGED <<op, run, updates, hier>> /\ fetch.pc = "consume" /\ updates = <<>>
          /\ op # Begun("FullPopulation")
      BY <1>10 DEF FetchNoUpdate, coordinatorVars, slotVars, resultVars
    <3>2. op # Pending("FullPopulation")
      BY <3>1 DEF HeldInv, Updated
    <3>. QED
      BY <1>0, <3>1, <3>2, Slots
  <2>. QED
    BY <1>2, <2>1 DEF HeldInv, Owned
<1>. QED
  BY <1>3, <1>4, <1>5, <1>6, <1>7, <1>8, <1>9, <1>10 DEF FetchStep

(* Neither the hierarchy nor the updates nor a worker: a slot that stays or is given up. *)
LEMMA AsideHeld ==
  ASSUME HeldInv, op' \in {op, Free}, UNCHANGED <<run, updates, hier>>,
         home'.screens = home.screens, home'.task = home.task,
         fetch'.pc = fetch.pc \/ fetch.pc \notin {"spawn", "wait", "launch", "consume"}
  PROVE  HeldInv'
<1>1. Owned' /\ Updated'
  BY SlotKept DEF HeldInv
<1>. QED
  BY <1>1, Kinded, QuietHeld

LEMMA FrameHeld ==
  ASSUME HeldInv, Typed, Frame \/ Screen
  PROVE  HeldInv'
<1>0. /\ fetch \in Fetch /\ home \in Home /\ fetch.force \in BOOLEAN /\ fetch.g \in Nat
  BY FetchFields DEF Typed, HomeTyped
<1>1. CASE ApplyFetch
  <2>1. fetch.pc = "done"
    BY <1>1 DEF ApplyFetch
  <2>2. PICK shown :
          \/ /\ RequestHierarchy("Home", fetch.g, fetch.force)
             /\ home' = [Presented(shown) EXCEPT !.task = hier.next]
          \/ home' = Presented(shown) /\ UNCHANGED coordinatorVars
    BY <1>1 DEF ApplyFetch
  <2>3. CASE RequestHierarchy("Home", fetch.g, fetch.force)
               /\ home' = [Presented(shown) EXCEPT !.task = hier.next]
    <3>1. home'.screens = home.screens /\ home'.task = hier.next
      BY <1>0, <2>3 DEF Presented, Home
    <3>. QED
      BY <1>0, <2>1, <2>3, <3>1, ApplyHeld
  <2>4. CASE home' = Presented(shown) /\ UNCHANGED coordinatorVars
    <3>1. home'.screens = home.screens /\ home'.task = home.task
      BY <1>0, <2>4 DEF Presented, Home
    <3>2. UNCHANGED <<op, run, updates, hier>>
      BY <2>4 DEF coordinatorVars, slotVars, resultVars
    <3>. QED
      BY <2>1, <3>1, <3>2, AsideHeld
  <2>. QED
    BY <2>2, <2>3, <2>4
<1>2. CASE TakeLive \/ TakeSafety
  <2>1. /\ op' \in {op, Free} /\ UNCHANGED <<run, updates, hier>>
        /\ UNCHANGED fetch /\ (UNCHANGED home \/ home' = [home EXCEPT !.safety = FALSE])
    BY <1>2 DEF TakeLive, TakeSafety, TakeReady, Released
  <2>2. home'.screens = home.screens /\ home'.task = home.task
    BY <1>0, <2>1 DEF Home
  <2>. QED
    BY <2>1, <2>2, AsideHeld
<1>3. CASE ConsumePrefetch \/ Screen
  BY <1>3, ResultHeld
<1>. QED
  BY <1>1, <1>2, <1>3 DEF Frame

LEMMA ScreenHeld ==
  ASSUME HeldInv, Typed, ~stopped',
         \/ StartFetch \/ ToggleOffline \/ RequestMaintenance \/ OpenScreen
         \/ CloseBegin \/ CloseEnd \/ Stop
         \/ \E id \in home.screens : LeaveScreen(id)
  PROVE  HeldInv'
<1>0. /\ fetch \in Fetch /\ home \in Home /\ RunTyped /\ gen \in Nat /\ "read" \in Pcs
      /\ "SafetyReconcile" \in Workers
  BY DEF Typed, HomeTyped, CatalogTyped, Pcs, Interruptible, Workers
<1>. DEFINE mine == {r \in hier.accepted : r.kind = "Home"}
<1>1. CASE StartFetch
  <2>1. UNCHANGED <<op, run, updates, hier, home>> /\ fetch.pc = "idle"
    BY <1>1 DEF StartFetch, coordinatorVars, slotVars, resultVars
  <2>. QED
    BY <2>1, AsideHeld
<1>2. CASE ToggleOffline
  <2>1. /\ Settled(Dropped(mine)) /\ UNCHANGED <<run, updates>>
    BY <1>2 DEF ToggleOffline, CancelFetch, HomeDropped, resultVars
  <2>2. home' \in {home, [home EXCEPT !.wanted = TRUE], [home EXCEPT !.offline = TRUE]}
        /\ (fetch' = [fetch EXCEPT !.cancel = TRUE] \/ fetch.pc = "idle")
    BY <1>2 DEF ToggleOffline
  <2>3. /\ home'.screens = home.screens /\ home'.task = home.task
        /\ fetch'.pc = fetch.pc \/ fetch.pc = "idle"
    BY <1>0, <2>2 DEF Home, Fetch
  <2>4. mine \in SUBSET hier.accepted /\ \A r \in hier.accepted \ mine : r.kind # "Home"
    OBVIOUS
  <2>. HIDE DEF mine
  <2>. QED
    BY <2>1, <2>3, <2>4, DropHeld
<1>3. CASE RequestMaintenance
  <2>1. /\ UNCHANGED fetch /\ home' = [home EXCEPT !.safety = TRUE]
        /\ op' = Begun("SafetyReconcile") /\ UNCHANGED <<updates, hier>>
        /\ run' = [run EXCEPT !["SafetyReconcile"] = [IdleRun EXCEPT !.pc = "read"]]
    BY <1>3 DEF RequestMaintenance, RequestSafety, resultVars
  <2>2. home'.screens = home.screens /\ home'.task = home.task
    BY <1>0, <2>1 DEF Home
  <2>3. Alone(run', "SafetyReconcile") /\ run'["SafetyReconcile"].pc = "read"
    BY <1>0, <2>1, StartFacts
  <2>. QED
    BY <1>0, <2>1, <2>2, <2>3, AdmitHeld
<1>4. CASE OpenScreen
  <2>1. /\ RequestHierarchy("Screen", gen, FALSE) /\ UNCHANGED fetch
        /\ home' = [home EXCEPT !.screens = @ \cup {hier.next}]
    BY <1>4 DEF OpenScreen
  <2>2. home'.screens = home.screens \cup {hier.next} /\ home'.task = home.task
    BY <1>0, <2>1 DEF Home
  <2>. QED
    BY <1>0, <2>1, <2>2, ApplyHeld
<1>5. ASSUME NEW id \in home.screens, LeaveScreen(id) PROVE HeldInv'
  <2>. DEFINE his == {r \in hier.accepted : r.id = id}
  <2>1. /\ Settled(Dropped(his)) /\ UNCHANGED <<run, updates, fetch>>
        /\ home' = [home EXCEPT !.screens = @ \ {id}]
    BY <1>5 DEF LeaveScreen, CancelHierarchyRequest, resultVars
  <2>2. home'.screens = home.screens \ {id} /\ home'.task = home.task
    BY <1>0, <2>1 DEF Home
  <2>3. his \in SUBSET hier.accepted /\ \A r \in hier.accepted \ his : r.id # id
    OBVIOUS
  <2>. HIDE DEF his
  <2>4. \A r \in hier.accepted \ his : r.id \in home'.screens \/ r.id \notin home.screens
    BY <2>2, <2>3
  <2>. QED
    BY <2>1, <2>2, <2>3, <2>4, DropHeld
<1>6. CASE CloseBegin
  <2>1. /\ Settled(Dropped(mine)) /\ UNCHANGED <<run, updates>>
        /\ fetch' = [fetch EXCEPT !.cancel = TRUE]
        /\ home' = [home EXCEPT !.phase = "closing", !.task = 0, !.wanted = FALSE, !.safety = FALSE]
    BY <1>6 DEF CloseBegin, CancelFetch, HomeDropped, resultVars
  <2>2. home'.screens = home.screens /\ fetch'.pc = fetch.pc
    BY <1>0, <2>1 DEF Home, Fetch
  <2>3. mine \in SUBSET hier.accepted /\ \A r \in hier.accepted \ mine : r.kind # "Home"
    OBVIOUS
  <2>4. \A r \in hier.accepted : r.kind = "Screen" => r.id \in home'.screens \/ r.id \notin home.screens
    BY <2>2
  <2>. HIDE DEF mine
  <2>. QED
    BY <2>1, <2>2, <2>3, <2>4, DropHeld
<1>7. CASE CloseEnd
  <2>1. /\ UNCHANGED <<op, run, updates, hier>> /\ home' = [home EXCEPT !.phase = "closed"]
        /\ fetch.pc \in {"idle", "done"}
    BY <1>7 DEF CloseEnd, resultVars
  <2>2. home'.screens = home.screens /\ home'.task = home.task
    BY <1>0, <2>1 DEF Home
  <2>. QED
    BY <2>1, <2>2, AsideHeld
<1>8. CASE Stop
  BY <1>8 DEF Stop, StopBegin
<1>. QED
  BY <1>1, <1>2, <1>3, <1>4, <1>5, <1>6, <1>7, <1>8

LEMMA ServerHeld ==
  ASSUME HeldInv, Typed, Server \/ Reconnect
  PROVE  HeldInv'
<1>1. RunTyped /\ UNCHANGED <<op, updates, hier, fetch, home>>
  BY DEF Server, Reconnect, ServerChange, SocketDown, SocketUp, slotVars, resultVars, Typed
<1>2. \A w \in Workers : run'[w].pc = run[w].pc
  <2>1. CASE SocketDown \/ SocketUp
    BY <2>1 DEF SocketDown, SocketUp
  <2>2. CASE \E i \in Items : ServerChange(i)
    BY <1>1, <2>2, ServerFacts
  <2>. QED
    BY <2>1, <2>2 DEF Server, Reconnect
<1>3. Owned' /\ Updated'
  BY <1>1, <1>2 DEF HeldInv, Owned, Updated
<1>. QED
  BY <1>1, <1>3, QuietHeld

LEMMA NextHeld == Typed /\ IInv /\ (stopped \/ HeldInv) /\ [Next]_vars => (stopped \/ HeldInv)'
<1> SUFFICES ASSUME Typed, IInv, stopped \/ HeldInv, [Next]_vars, ~stopped'
             PROVE  HeldInv'
  OBVIOUS
<1>1. ~stopped
  <2>1. ASSUME NEW w \in Workers, Worker(w) PROVE stopped' = stopped
    BY <2>1 DEF Worker, Step, GiveUp, ReadState, CatchUpFetch, CatchUpWrite, CatchUpMark, WalkBegin,
         WalkPage, WalkFinalize, WalkMark, Launch, ReadStartup, PublishStartup, PublishPopulation,
         PublishSafety, LiveDrain, LiveClaim, LiveGet, LivePut, LivePublish, modeVars
  <2>2. ASSUME FetchStep PROVE stopped' = stopped
    BY <2>2 DEF FetchStep, FetchOffline, FetchStartup, FetchSpawned, FetchPolicy, FetchNoPolicy,
         FetchAsk, FetchConsume, FetchNoUpdate, RequestStartup, RequestPopulation, TakeStartup,
         TakeUpdate, coordinatorVars, modeVars
  <2>3. ASSUME Walker \/ Frame \/ Screen PROVE stopped' = stopped
    BY <2>3 DEF Walker, HierarchyStep, HierarchyTake, HierarchyShow, HierarchyEndWalk, HierarchyMark,
         HierarchyEnd, Frame, Screen, ApplyFetch, TakeLive, TakeSafety, ConsumePrefetch, TakeReady,
         ScreenResult, TakeHierarchy, RequestHierarchy, coordinatorVars, modeVars
  <2>4. ASSUME \/ StartFetch \/ ToggleOffline \/ RequestMaintenance \/ OpenScreen
               \/ CloseBegin \/ CloseEnd \/ \E id \in home.screens : LeaveScreen(id)
               \/ Server \/ Reconnect
        PROVE  stopped' = stopped
    BY <2>4 DEF StartFetch, ToggleOffline, RequestMaintenance, OpenScreen, CloseBegin, CloseEnd,
         LeaveScreen, Server, Reconnect, RequestSafety, RequestHierarchy, CancelHierarchyRequest,
         ServerChange, SocketDown, SocketUp, coordinatorVars, modeVars
  <2>5. Stop => stopped'
    BY DEF Stop, StopBegin
  <2>. QED
    BY <2>1, <2>2, <2>3, <2>4, <2>5 DEF Next, vars, coordinatorVars, modeVars
<1>2. HeldInv
  BY <1>1
<1>3. CASE UNCHANGED vars
  BY <1>2, <1>3, AsideHeld DEF vars, coordinatorVars, slotVars, resultVars
<1>. QED
  BY <1>1, <1>2, <1>3, StepHeld, WalkHeld, FetchHeld, FrameHeld, ScreenHeld, ServerHeld DEF Next

LEMMA InitHeld == Init => HeldInv
<1> SUFFICES ASSUME Init PROVE HeldInv
  OBVIOUS
<1>1. Owned /\ Updated /\ Busy
  BY Kinded DEF Init, Owned, Updated, Busy, Free, Begun, Pending
<1>2. Requests
  BY DEF Init, NoHierarchy, Requests, Numbered, Distinct, Expected, Terminal, Unstarted
<1>3. Awaited
  BY DEF Init, NoHierarchy, Awaited
<1>. QED
  BY <1>1, <1>2, <1>3 DEF HeldInv

(* For every value of the constants, the slot is never lost: whoever holds it is a thread that  *)
(* still runs, or a result whose consumer still waits for it.                                   *)
THEOREM AlwaysSlotHeld == Spec => []SlotHeld
<1>1. Typed /\ (stopped \/ HeldInv) => SlotHeld
  <2> SUFFICES ASSUME Typed, HeldInv, ~stopped PROVE SlotHeld
    BY DEF SlotHeld
  <2>1. op.kind \in Kinds \/ op.kind = "None"
    BY DEF Typed, SlotTyped, Free
  <2>2. CASE op.kind = "Startup"
    BY <2>2 DEF SlotHeld, HeldInv, Owned
  <2>3. CASE op.kind = "FullPopulation"
    <3>1. op \in {Begun("FullPopulation"), Pending("FullPopulation")} /\ "FullPopulation" \in Workers
      BY <2>3, Slots DEF Typed, Workers
    <3>. QED
      BY <2>3, <3>1 DEF SlotHeld, HeldInv, Owned, Updated
  <2>4. CASE op.kind \in {"SafetyReconcile", "LiveChange"}
    <3>1. op.kind \in Workers /\ op = Begun(op.kind)
      BY <2>4, Slots DEF Typed, HeldInv, Owned, Kinds, Workers, Pending
    <3>2. run[op.kind].pc # "none"
      BY <3>1 DEF HeldInv, Owned
    <3>. QED
      BY <2>4, <3>2 DEF SlotHeld
  <2>5. CASE op.kind = "Hierarchy"
    <3>1. CASE hier.results = <<>>
      BY <2>5, <3>1 DEF SlotHeld, HeldInv, Busy, Drained
    <3>2. CASE hier.results # <<>>
      <4>1. 1 \in DOMAIN hier.results
        BY <3>2, HierarchyFields DEF Typed
      <4>2. hier.results[1].id \in Ids(hier.results)
        BY <4>1 DEF Ids, ToSet
      <4>3. PICK r \in hier.accepted : r.id = hier.results[1].id
        BY <4>1 DEF HeldInv, Requests, Expected
      <4>4. r.kind \in {"Home", "Screen"}
        BY HierarchyFields DEF Typed, Request
      <4>5. hier.results[1].id \in home.screens \cup {home.task}
        BY <4>3, <4>4 DEF HeldInv, Awaited
      <4>. QED
        BY <2>5, <4>2, <4>5 DEF SlotHeld
    <3>. QED
      BY <3>1, <3>2
  <2>6. CASE op.kind = "None"
    BY <2>6 DEF SlotHeld
  <2>. QED
    BY <2>1, <2>2, <2>3, <2>4, <2>5, <2>6 DEF Kinds, Workers
<1>2. Init => Typed /\ IInv /\ (stopped \/ HeldInv)
  BY InitTyped, InitInv, InitHeld
<1>3. (Typed /\ IInv /\ (stopped \/ HeldInv)) /\ [Next]_vars
        => (Typed /\ IInv /\ (stopped \/ HeldInv))'
  BY NextTyped, NextInv, NextHeld
<1>. QED
  BY <1>1, <1>2, <1>3, PTL DEF Spec
=============================================================================
