----------------------------- MODULE AppService -----------------------------
(***************************************************************************)
(* The application service (app/app.go, app/edge.go, app/sim.go) and the   *)
(* engine loops it owns (exposure/engine.go): the watchlist with its one   *)
(* custom slot, the stream switch, the built-in simulator, the 5-minute    *)
(* checkpoint and Close.  Each action is one critical section of           *)
(* Service.mu, except where the code computes or waits outside it.         *)
(*                                                                         *)
(* A book, a snapshot and a stored state are the version of the data they  *)
(* were made from: 0 is none, 1 the seeded or restored chain.              *)
(***************************************************************************)
EXTENDS Integers, Sequences, FiniteSets

CONSTANTS
  Operators,   \* concurrent requests of the GUI
  Defaults,    \* tickers of the configured watchlist
  Others,      \* tickers the custom slot may take
  MaxVersion,  \* bound: versions of a book
  MaxRequests, \* bound: watchlist edits, promotions and stream switches
  MaxSims,     \* bound: simulators started
  MaxComputing \* bound: engine loops inside a recompute at one time

ASSUME AppAssumption ==
  /\ IsFiniteSet(Defaults) /\ Defaults # {} /\ Defaults \cap Others = {}
  /\ MaxVersion \in Nat \ {0} /\ MaxRequests \in Nat
  /\ MaxSims \in Nat /\ MaxComputing \in Nat
  /\ "close" \notin Operators

VARIABLES
  order, handles, active,
  streams,      \* the connected ones
  connectedAt,  \* it is not zero
  cancelSim,    \* the simulator whose cancel function the service holds, 0: nil
  sims,         \* simulators ever started: what each is doing
  pc,           \* SetStream of each operator, and Close
  run, toStart, \* Run: not called, launching engines, in its loop
  computing,    \* recompute of each engine loop between Latest and Store
  stored,       \* the saved state of each ticker
  orphans,      \* engine loops of each ticker whose handle left the map uncanceled
  replaced,     \* history: how often a ticker's handle was replaced by a new one
  external, closed,
  crashed,      \* a goroutine panicked in WaitGroup.Wait
  requests

watchVars == <<order, handles, active>>
simVars == <<cancelSim, sims>>
runVars == <<run, toStart>>
strayVars == <<orphans, replaced>>
vars == <<watchVars, streams, connectedAt, simVars, pc, runVars, computing,
          stored, external, strayVars, closed, crashed, requests>>

-----------------------------------------------------------------------------

Tickers == Defaults \cup Others
Streams == {"underlying", "options"}
Closer == "close"
Callers == Operators \cup {Closer}

\* tickerHandle: loops counts the engine loops running on it, cancel is its
\* cancel function.
Handle == [custom : BOOLEAN, book : 0..MaxVersion, snap : 0..MaxVersion,
           cancel : BOOLEAN, loops : Nat]

NewHandle(custom, book) ==
  [custom |-> custom, book |-> book, snap |-> 0, cancel |-> FALSE, loops |-> 0]

Nothing == [t \in {} |-> 0]
Listed == {order[k] : k \in 1..Len(order)}
Connected == streams # {}
Alive == {s \in DOMAIN sims : sims[s].pc # "gone"}
AllIdle == \A o \in Callers : pc[o] = "idle"

TypeOK ==
  /\ order \in Seq(Tickers) /\ active \in Tickers
  /\ DOMAIN handles \subseteq Tickers
  /\ \A t \in DOMAIN handles : handles[t] \in Handle
  /\ streams \subseteq Streams /\ connectedAt \in BOOLEAN
  /\ DOMAIN sims \subseteq 1..MaxSims /\ cancelSim \in {0} \cup Alive
  /\ \A s \in DOMAIN sims : sims[s].pc \in {"loop", "tick", "gone"}
  /\ pc \in [Callers -> {"idle", "wait", "woken", "relock", "done"}]
  /\ run \in {"off", "starting", "on"} /\ toStart \subseteq Tickers
  /\ DOMAIN computing \subseteq Tickers
  /\ stored \in [Tickers -> [chain : 0..MaxVersion, snap : 0..MaxVersion]]
  /\ orphans \in [Tickers -> Nat] /\ replaced \in [Tickers -> 0..MaxRequests]
  /\ external \in BOOLEAN /\ closed \in BOOLEAN /\ crashed \in BOOLEAN
  /\ requests \in 0..MaxRequests

\* What New leaves: every configured ticker with a seeded book, or an empty one
\* where the saved chain could not price (module BootRestore).
Init ==
  /\ \E b \in [Defaults -> {0, 1}] : handles = [t \in Defaults |-> NewHandle(FALSE, b[t])]
  /\ order \in [1..Cardinality(Defaults) -> Defaults] /\ Listed = Defaults
  /\ active = order[1]
  /\ streams = {} /\ connectedAt = FALSE /\ cancelSim = 0 /\ sims = Nothing
  /\ pc = [o \in Callers |-> "idle"] /\ run = "off" /\ toStart = {}
  /\ computing = Nothing /\ stored = [t \in Tickers |-> [chain |-> 0, snap |-> 0]]
  /\ orphans = [t \in Tickers |-> 0] /\ replaced = [t \in Tickers |-> 0]
  /\ external \in BOOLEAN /\ closed = FALSE /\ crashed = FALSE
  /\ requests = 0

-----------------------------------------------------------------------------
(* Engine loops: Run, startEngineLocked, and the two recomputes.           *)

\* Mutant: a handle that already has a loop gets a second one.
StartedAlways(h) == [h EXCEPT !.cancel = TRUE, !.loops = @ + 1]

\* startEngineLocked under a non-nil rootCtx: a handle with a cancel function
\* already runs.
Started(h) == IF h.cancel THEN h ELSE [h EXCEPT !.cancel = TRUE, !.loops = @ + 1]

StartedIfRunning(h) == IF run # "off" THEN Started(h) ELSE h

RunService ==
  /\ run = "off" /\ run' = "starting" /\ toStart' = Listed
  /\ UNCHANGED <<watchVars, streams, connectedAt, simVars, pc, computing, stored,
                 external, strayVars, closed, crashed, requests>>

StartEngine(t) ==
  /\ run = "starting" /\ t \in toStart /\ toStart' = toStart \ {t}
  /\ handles' = IF t \in DOMAIN handles THEN [handles EXCEPT ![t] = Started(@)]
                ELSE handles
  /\ UNCHANGED <<order, active, streams, connectedAt, simVars, pc, run,
                 computing, stored, external, strayVars, closed, crashed, requests>>

EnginesStarted ==
  /\ run = "starting" /\ toStart = {} /\ run' = "on"
  /\ UNCHANGED <<watchVars, streams, connectedAt, simVars, pc, toStart, computing,
                 stored, external, strayVars, closed, crashed, requests>>

\* RecomputeLevels and RecomputeFlip of an engine loop read the book first ...
EngineReads(t) ==
  /\ t \in DOMAIN handles /\ handles[t].loops > 0 /\ handles[t].book > 0
  /\ t \notin DOMAIN computing /\ Cardinality(DOMAIN computing) < MaxComputing
  /\ computing' = [u \in DOMAIN computing \cup {t} |->
                     IF u = t THEN handles[t].book ELSE computing[u]]
  /\ UNCHANGED <<watchVars, streams, connectedAt, simVars, pc, runVars, stored,
                 external, strayVars, closed, crashed, requests>>

\* ... and store the snapshot they computed from it.
EngineStores(t) ==
  /\ t \in DOMAIN computing
  /\ handles' = [handles EXCEPT ![t].snap = computing[t]]
  /\ computing' = [u \in DOMAIN computing \ {t} |-> computing[u]]
  /\ UNCHANGED <<order, active, streams, connectedAt, simVars, pc, runVars,
                 stored, external, strayVars, closed, crashed, requests>>

-----------------------------------------------------------------------------
(* The watchlist.  Nobody reads the engine of a handle that left the map:  *)
(* its unfinished recompute is forgotten.  Its loop ends when the handle   *)
(* was canceled and otherwise runs on, an orphan.                          *)

Forget(gone) == [u \in DOMAIN computing \ gone |-> computing[u]]

SetActiveTicker(t) ==
  /\ ~closed /\ t \in DOMAIN handles /\ active # t /\ active' = t
  /\ UNCHANGED <<order, handles, streams, connectedAt, simVars, pc, runVars,
                 computing, stored, external, strayVars, closed, crashed, requests>>

OldCustoms == {t \in Listed : handles[t].custom}

\* Mutant: the old custom entry leaves the map and stays in the order.
OrderKept == order

\* slices.DeleteFunc(order, handles[t].cfg.Custom)
OrderWithoutCustom ==
  LET kept[k \in 0..Len(order)] ==
        IF k = 0 THEN <<>>
        ELSE IF handles[order[k]].custom THEN kept[k - 1]
        ELSE Append(kept[k - 1], order[k])
  IN kept[Len(order)]

\* addHandle overwrites the entry of t, if it has one: the custom ticker itself or
\* a default one.  Only another custom ticker's loop is canceled.
Orphaned(t) == IF t \in DOMAIN handles THEN handles[t].loops ELSE 0
Replaces(t) == IF t \in DOMAIN handles THEN 1 ELSE 0

\* The chain generator cannot fail for a guessed entry (its spot and volatility
\* are positive), so addHandle's error return is not reached.
SetCustomTicker(t) ==
  LET gone == OldCustoms \ {t} IN
  /\ ~closed /\ requests < MaxRequests /\ requests' = requests + 1
  /\ order' = Append(OrderWithoutCustom, t)
  /\ handles' = [u \in (DOMAIN handles \ gone) \cup {t} |->
                   IF u = t THEN StartedIfRunning(NewHandle(TRUE, 1)) ELSE handles[u]]
  /\ orphans' = [orphans EXCEPT ![t] = @ + Orphaned(t)]
  /\ replaced' = [replaced EXCEPT ![t] = @ + Replaces(t)]
  /\ computing' = Forget(gone \cup {t})
  /\ active' = t
  /\ UNCHANGED <<streams, connectedAt, simVars, pc, runVars, stored, external,
                 closed, crashed>>

\* A version of the data: the next one, or the same when a tick changed nothing.
Versions(v) == {v} \cup ({v + 1} \cap (0..MaxVersion))

SlotFree == OldCustoms = {}

\* ApplyChain for a ticker with a handle ...
ApplyChain(t) ==
  /\ external /\ ~closed /\ t \in DOMAIN handles
  /\ \E v \in Versions(handles[t].book) \ {0} :
       handles' = [handles EXCEPT ![t].book = v]
  /\ UNCHANGED <<order, active, streams, connectedAt, simVars, pc, runVars,
                 computing, stored, external, strayVars, closed, crashed, requests>>

\* ... and for one the free slot takes; a chain the book refuses leaves the new
\* handle with an empty book.
PromoteChain(t) ==
  /\ external /\ ~closed /\ t \notin DOMAIN handles /\ SlotFree
  /\ requests < MaxRequests /\ requests' = requests + 1
  /\ \E v \in {0, 1} :
       handles' = [u \in DOMAIN handles \cup {t} |->
                     IF u = t THEN StartedIfRunning(NewHandle(TRUE, v)) ELSE handles[u]]
  /\ order' = Append(order, t)
  /\ UNCHANGED <<active, streams, connectedAt, simVars, pc, runVars, computing,
                 stored, external, strayVars, closed, crashed>>

ApplySpot(t) ==
  /\ external /\ ~closed /\ t \in DOMAIN handles /\ handles[t].book > 0
  /\ \E v \in Versions(handles[t].book) : handles' = [handles EXCEPT ![t].book = v]
  /\ UNCHANGED <<order, active, streams, connectedAt, simVars, pc, runVars,
                 computing, stored, external, strayVars, closed, crashed, requests>>

-----------------------------------------------------------------------------
(* Saving: saveStateLocked over the handles as hs gives them.              *)

\* Mutant: a ticker saved before is not saved again.
SaveableOnce(h, t) == h.snap > 0 /\ h.book > 0 /\ stored[t].chain = 0

\* if !hasSnap || !ok { continue }
Saveable(h, t) == h.snap > 0 /\ h.book > 0

Saved(hs) ==
  [t \in Tickers |-> IF t \in Listed /\ Saveable(hs[t], t)
                       THEN [chain |-> hs[t].book, snap |-> hs[t].snap]
                       ELSE stored[t]]

\* h.eng.RecomputeLevels() for every listed ticker: an empty book computes
\* nothing.  The engine loops do not take the mutex: those in late store what they
\* computed after it and before the save.
Recomputed(late) ==
  [t \in DOMAIN handles |->
     [handles[t] EXCEPT
        !.snap = IF t \in late THEN computing[t]
                 ELSE IF t \in Listed /\ handles[t].book > 0 THEN handles[t].book
                 ELSE @]]

\* publish: the live checkpoint, PersistEvery after the last save.
Checkpoint ==
  /\ run = "on" /\ ~closed /\ Connected
  /\ stored' = Saved(handles)
  /\ UNCHANGED <<watchVars, streams, connectedAt, simVars, pc, runVars, computing,
                 external, strayVars, closed, crashed, requests>>

-----------------------------------------------------------------------------
(* SetStream.  Disconnecting the last stream cancels the simulator, waits  *)
(* for it with the mutex released, takes the mutex again and freezes.      *)

StartSim ==
  IF cancelSim # 0 \/ external THEN UNCHANGED simVars
  ELSE LET s == Cardinality(DOMAIN sims) + 1 IN
       /\ s <= MaxSims
       /\ cancelSim' = s
       /\ sims' = [k \in DOMAIN sims \cup {s} |->
                     IF k = s THEN [pc |-> "loop", canceled |-> FALSE, names |-> {}]
                     ELSE sims[k]]

Connect(o, ids) ==
  /\ pc[o] = "idle" /\ ~closed /\ requests < MaxRequests
  /\ requests' = requests + 1
  /\ streams' = streams \cup ids /\ connectedAt' = TRUE
  /\ StartSim
  /\ UNCHANGED <<watchVars, pc, runVars, computing, stored, external, strayVars,
                 closed, crashed>>

\* One of two streams goes: the service stays connected.
DropOne(o, ids) ==
  /\ pc[o] = "idle" /\ ~closed /\ requests < MaxRequests
  /\ streams \ ids # {}
  /\ requests' = requests + 1
  /\ streams' = streams \ ids /\ connectedAt' = TRUE
  /\ StartSim
  /\ UNCHANGED <<watchVars, pc, runVars, computing, stored, external, strayVars,
                 closed, crashed>>

\* SetStream's freeze and Close's last save, under the mutex.  Without a store
\* (Close is through) nothing is saved.
FreezeBooks ==
  \E late \in SUBSET DOMAIN computing :
    /\ handles' = Recomputed(late) /\ computing' = Forget(late)
    /\ stored' = IF pc[Closer] = "done" THEN stored ELSE Saved(handles')

FinalSave ==
  \E late \in SUBSET DOMAIN computing :
    /\ handles' = [t \in DOMAIN handles |->
                     [Recomputed(late)[t] EXCEPT !.loops = IF t \in Listed THEN 0 ELSE @]]
    /\ computing' = Forget(late)
    /\ stored' = Saved(handles')

\* stopSimLocked up to simWG.Wait(), which returns at once when no simulator is
\* left to wait for.
StopSim(o) ==
  /\ cancelSim # 0 /\ cancelSim' = 0
  /\ sims' = [sims EXCEPT ![cancelSim].canceled = TRUE]
  /\ pc' = [pc EXCEPT ![o] = IF Alive = {} THEN "relock" ELSE "wait"]

\* The last stream goes while a simulator runs ...
DropLast(o, ids) ==
  /\ pc[o] = "idle" /\ ~closed /\ requests < MaxRequests
  /\ streams \ ids = {}
  /\ requests' = requests + 1 /\ streams' = {}
  /\ StopSim(o)
  /\ UNCHANGED <<watchVars, connectedAt, runVars, computing, stored, external, strayVars,
                 closed, crashed>>

\* ... or while none does: the mutex is never given up.
DropLastNoSim(o, ids) ==
  /\ pc[o] = "idle" /\ ~closed /\ requests < MaxRequests
  /\ streams \ ids = {} /\ cancelSim = 0
  /\ requests' = requests + 1 /\ streams' = {} /\ connectedAt' = FALSE
  /\ FreezeBooks
  /\ UNCHANGED <<order, active, simVars, pc, runVars, external, strayVars,
                 closed, crashed>>

\* Back from simWG.Wait(): a group that counts again by then panics ("WaitGroup
\* is reused before previous Wait has returned"), and SetStream's deferred
\* Unlock of a mutex it does not hold ends the process.
WaitReturns(o) ==
  /\ pc[o] = "woken"
  /\ IF Alive = {} THEN pc' = [pc EXCEPT ![o] = "relock"] /\ UNCHANGED crashed
     ELSE crashed' = TRUE /\ UNCHANGED pc
  /\ UNCHANGED <<watchVars, streams, connectedAt, simVars, runVars, computing, stored,
                 external, strayVars, closed, requests>>

\* SetStream with the mutex again: it does not look at streams or closed.
Freeze(o) ==
  /\ pc[o] = "relock" /\ pc' = [pc EXCEPT ![o] = "idle"]
  /\ FreezeBooks /\ connectedAt' = FALSE
  /\ UNCHANGED <<order, active, streams, simVars, runVars, external, strayVars,
                 closed, crashed, requests>>

BeginClose ==
  /\ ~closed /\ closed' = TRUE
  /\ StopSim(Closer)
  /\ UNCHANGED <<watchVars, streams, connectedAt, runVars, computing, stored,
                 external, strayVars, crashed, requests>>

CloseNoSim ==
  /\ ~closed /\ closed' = TRUE /\ cancelSim = 0
  /\ pc' = [pc EXCEPT ![Closer] = "done"]
  /\ FinalSave
  /\ UNCHANGED <<order, active, streams, connectedAt, simVars, runVars,
                 external, strayVars, crashed, requests>>

EndClose ==
  /\ pc[Closer] = "relock" /\ pc' = [pc EXCEPT ![Closer] = "done"]
  /\ FinalSave
  /\ UNCHANGED <<order, active, streams, connectedAt, simVars, runVars,
                 external, strayVars, closed, crashed, requests>>

-----------------------------------------------------------------------------
(* simulate                                                                *)

SimPc(s, p) == [sims EXCEPT ![s].pc = p]

\* simWG.Done(): the last simulator releases everyone in Wait.
Exit(s) ==
  /\ sims' = SimPc(s, "gone")
  /\ pc' = [o \in Callers |-> IF pc[o] = "wait" /\ Alive = {s} THEN "woken" ELSE pc[o]]

\* A tick that finds the service closed or disconnected ends the simulator.
SimStops(s) ==
  /\ s \in Alive /\ sims[s].pc = "loop" /\ (closed \/ ~Connected)
  /\ Exit(s)
  /\ UNCHANGED <<watchVars, streams, connectedAt, cancelSim, runVars, computing, stored,
                 external, strayVars, closed, crashed, requests>>

\* A tick copies the ticker names under the mutex.  The select may take a tick
\* that fell due although the context is canceled.
SimReads(s) ==
  /\ s \in Alive /\ sims[s].pc = "loop" /\ ~closed /\ Connected
  /\ sims' = [sims EXCEPT ![s].pc = "tick", ![s].names = Listed]
  /\ UNCHANGED <<watchVars, streams, connectedAt, cancelSim, pc, runVars, computing,
                 stored, external, strayVars, closed, crashed, requests>>

\* Mutant: stopSimLocked waits without giving the mutex up.
MutexHeldByWaiter == \A o \in Callers : pc[o] # "wait"

MutexFree == TRUE

\* Every named ticker's chain is stamped, walked, drifted and applied; the
\* update counter then needs the mutex again.
SimApplies(s) ==
  /\ s \in Alive /\ sims[s].pc = "tick" /\ MutexFree
  /\ \E b \in [DOMAIN handles -> 0..MaxVersion] :
       /\ \A t \in DOMAIN handles :
            b[t] \in IF t \in sims[s].names /\ handles[t].book > 0
                       THEN Versions(handles[t].book) ELSE {handles[t].book}
       /\ handles' = [t \in DOMAIN handles |-> [handles[t] EXCEPT !.book = b[t]]]
  /\ sims' = SimPc(s, "loop")
  /\ UNCHANGED <<order, active, streams, connectedAt, cancelSim, pc, runVars,
                 computing, stored, external, strayVars, closed, crashed, requests>>

\* case <-ctx.Done()
SimCanceled(s) ==
  /\ s \in Alive /\ sims[s].pc = "loop" /\ sims[s].canceled
  /\ Exit(s)
  /\ UNCHANGED <<watchVars, streams, connectedAt, cancelSim, runVars, computing, stored,
                 external, strayVars, closed, crashed, requests>>

-----------------------------------------------------------------------------

Watchlist ==
  \/ \E t \in Tickers : \/ SetActiveTicker(t) \/ SetCustomTicker(t)
                         \/ ApplyChain(t) \/ PromoteChain(t) \/ ApplySpot(t)

EngineLoops ==
  \/ RunService \/ EnginesStarted \/ Checkpoint
  \/ \E t \in Tickers : StartEngine(t) \/ EngineReads(t) \/ EngineStores(t)

StreamIds == {{"underlying"}, {"options"}, Streams}

StreamSwitch ==
  \/ \E o \in Operators, ids \in StreamIds :
       Connect(o, ids) \/ DropOne(o, ids) \/ DropLast(o, ids) \/ DropLastNoSim(o, ids)
  \/ \E o \in Operators : Freeze(o)
  \/ \E o \in Callers : WaitReturns(o)
  \/ BeginClose \/ CloseNoSim \/ EndClose

Simulate ==
  \E s \in 1..MaxSims : SimStops(s) \/ SimReads(s) \/ SimApplies(s) \/ SimCanceled(s)

Next == ~crashed /\ (Watchlist \/ EngineLoops \/ StreamSwitch \/ Simulate)

\* The goroutines of the service and of its callers run on; a select over a due
\* tick and a canceled context takes each often enough.
Fairness ==
  /\ \A o \in Callers : WF_vars(~crashed /\ WaitReturns(o))
  /\ \A o \in Operators : WF_vars(~crashed /\ Freeze(o))
  /\ \A s \in 1..MaxSims : /\ WF_vars(~crashed /\ SimApplies(s))
                           /\ SF_vars(~crashed /\ SimCanceled(s))

Spec == Init /\ [][Next]_vars /\ Fairness

-----------------------------------------------------------------------------
(* Properties.                                                             *)

\* Every listed ticker has a handle, which publish, saveStateLocked and
\* watchlistLocked dereference without looking (app.go:483, 588, 708), and the
\* free slot holds at most one ticker, through edits racing promotions.
WatchlistSound ==
  /\ Listed \subseteq DOMAIN handles /\ active \in Listed
  /\ Cardinality({t \in DOMAIN handles : handles[t].custom}) <= 1

\* The engine loops of a ticker: its handle's and the orphaned ones.
LoopsOf(t) == orphans[t] + IF t \in DOMAIN handles THEN handles[t].loops ELSE 0

\* Once Run is in its loop every listed ticker's handle has exactly one engine
\* loop, whichever of Run, SetCustomTicker and ApplyChain came to it first
\* (app.go:432-441, 466-475); and a ticker has no loop more than one and those of
\* its handles that SetCustomTicker overwrote (app.go:557-565).
OneLoopEach ==
  /\ \A t \in DOMAIN handles : handles[t].loops <= 1
  /\ run = "on" /\ ~closed => \A t \in Listed : handles[t].loops = 1
  /\ \A t \in Tickers : LoopsOf(t) <= 1 + replaced[t]

\* When no request is under way and nothing is connected, no simulator is left
\* and what the store holds of every ticker that moved is its final book
\* (app.go:610-613, 641-651), however the switches of two operators interleave.
FrozenIsSaved ==
  AllIdle /\ ~Connected /\ ~external =>
    /\ Alive = {}
    /\ \A t \in Listed : handles[t].book > 1 => stored[t].chain = handles[t].book

\* A disconnect returns (the mutex is released across the wait, app.go:683-686)
\* unless somebody connects again meanwhile.
DisconnectReturns ==
  \A o \in Operators : pc[o] = "wait" ~> pc[o] = "idle" \/ Connected \/ crashed

\* "it replaces the previous custom entry (its engine is stopped; its DB rows are
\* kept)" (app.go:535-536).
OldEngineStopped == \A t \in Tickers : LoopsOf(t) <= 1

\* "Safe for concurrent use" (app.go:110).
SafeForConcurrentUse == ~crashed

\* "Freeze the engine output at the final book state so the saved snapshot is
\* exactly what the UI keeps showing - no last-tick race between the async
\* recompute cadence and the persist" (app.go:641-643).
SavedSnapshotFinal ==
  AllIdle /\ ~Connected /\ ~external =>
    \A t \in Listed : handles[t].book > 1 => stored[t].snap = handles[t].book
=============================================================================
