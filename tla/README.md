# GEX Suite: TLA+ verification project

This directory holds a TLA+ development for the GEX Suite: modules that model
its concurrent and failure-prone parts, TLC configurations that check them on
small instances, and TLAPS proofs of the most important invariants for every
value of the constants. `PROJECT.json` is the machine-readable index: which
definition stands for which source lines, which run checks what, the mutants
that show each property can fail, the findings and the hazards.

## 1. Inventory of the system

Three processes: a **C# edge** (`edge/src/GexEdge`) next to the broker's TWS, a
**Go core** (`core`, command `gexctl serve`), and a **browser dashboard**
(`core/internal/httpui/static`). The edge connects to the core over one TCP
connection with JSON lines; the browser polls and posts to the core over HTTP
and listens to server-sent events. Money is involved: every regulatory snapshot
the edge requests costs about one cent, and a full-chain pass is thousands of
them, so *who may start a pass, how often, and whether it can be stopped* is
the behaviour that matters most.

| Component | State | Operations | What is hard | What makes it correct |
|---|---|---|---|---|
| Sweep control, core (`edge/server.go`, `edge/sweep_policy.go`) | roster, lastPass, connections | SetSweeps, ClearSweeps, onSweepDone, EnforceSweepWindows, push on change and on hello | pushes copy the roster outside the lock that orders them; window check before install; restart | cap, fail-closed, sticky shutoff, edge converges to the roster |
| Sweep control, edge (`TwsFeed.cs`, `CoreConnection.cs`, `Program.cs`) | `_passCts`, pass tasks | OnCoreSweepSet, CancelPass, PassOnceAsync, sweep_done | overlapping tasks of one ticker, answers out of order, handler attached after hello | one pass per arming, a kill reaches every live pass |
| Sweeper panel (`app.js`) | last view | toggle, kill, poll | posts the full set computed from a stale view | only the clicked ticker is armed |
| Line budget (`TwsFeed.cs`, `Throttling.cs`, `Budget.cs`) | lines used, gates, per-request registrations | RunPassAsync, FinishSnapshot, watchdog, OI rotation | two finishers of one snapshot, cancellation between registration and send | lines and slots are conserved and come back |
| Store write queue (`store/store.go`) | channel, flushMu, closed | Submit, Enqueue, flush, FlushAndWait, Close | several flushers, failing batch, Close racing a send | honest answers, channel order, nobody waits in vain |
| Master data log (`store/masterlog.go`, exporter of `cmd/gexctl/serve.go`) | Data_Points, cursor, CSV file | SubmitDataPoints, ExportMasterCSV, touchCursor | restart between file append and cursor advance, append cut inside a line | no row skipped but those a cut spoilt, one header, cursor only advances |
| Ingest core (`edge/ingest.go`, `vendoroi.go`) | working chain, contract index, pending rows, placeholders | onChain, onSpot, onOptComp, ApplyVendorOI, FlushAll | re-discovery against late events, publication outside the lock, write errors reported later | index and chain agree, book equals the working chain, no computation row before its contract, no data point lost uncounted |
| Application service (`app/app.go`, `edge.go`, `sim.go`) | handles, watchlist order, streams, simulator, engine loops | SetStream, SetCustomTicker, ApplyChain, checkpoint, Close | lock released across a wait, a handle overwritten while its loop runs | sound watchlist, one loop per handle, saved state is the final one |
| Shutdown (`serve.go`, `Server.Close`) | WaitGroup, journal | signal, HTTP drain, edge close, service close | two callers of Close, handlers that block in Scan | the process ends, nothing arrives after the last save |
| Boot restore, schema (`store/boot.go`, `migrate.go`, `app.go`) | tables | save, crash, migrate, LoadBootState, restoreBootState | rows of one save in several batches or refused, midnight, old id schemes | a clean restart finds its book, nothing untradable is restored |
| Hedge module (`app/hedge.go`, `store/hedge.go`, `hedge/`) | pair, legs, statistics cache, benchmark spot | SetHedgePair, AddPosition, DeletePosition, refresh, boot | state of the old pair after a switch; writes nobody waits for | beta and price belong to the pair shown, stored legs are those shown |
| Exposure engine (`exposure/aggregate.go`, `engine.go`, `rootfind`) | published snapshot | ComputeSnapshot, FindFlip, engine loop | ties, several classes of one expiry, Brent's step control | every contract counted once, independent of order; a flip is a sign change |
| Market types, selection (`market/`) | - | SelectedExpiriesByClass | boundaries of dates and classes | nearest dates kept, classes independent of each other |
| Diagnostics, journal (`edge/diag.go`, `journal.go`) | counters, lastSeq, journal file | observeSeq, record | one sequence expectation for all connections; a failing write | a dispatched line is in the journal unless its write failed |
| Numerics (`garch`, `volblend`, `solver`) | - | real-valued functions | floating point | out of TLC's reach |
| HTTP, wire format, CLI tools | - | I/O and encoding | - | not modelled |

Interactions: browser -> core (`POST /api/sweeps`, full set) -> edge
(`sweep_set`, full set) -> core (`sweep_done`, one ticker) -> browser (poll);
edge -> core data events -> ingest -> book (shared, locked) -> engine -> hub ->
browser; ingest, service and exporter -> store queue -> SQLite; exporter -> CSV.

## 2. Modules and how they correspond to the code

| Module | Stands for | Composed with / checked through |
|---|---|---|
| `SweepControl` | roster, push, panel and edge tasks | `MCSweepControl`, `SweepControl_proofs` |
| `StoreWriter` | write queue of the store | refines `TaskStore`; `MCStoreWriter`, `StoreWriter_proofs` |
| `TaskStore` | what the store promises (abstract) | instantiated by `StoreWriter` |
| `MasterLog` | data log, CSV export | `StoreWriter_proofs` |
| `EdgeLines` | snapshot slots and market data lines | `MCEdgeLines`, `EdgeLines_proofs` |
| `Ingest` | ingest core, vendor open interest, its side of store and book | `MCIngest`, `Ingest_proofs` |
| `AppService` | service, simulator, engine loops | `MCAppService`, `AppService_proofs` |
| `ServeShutdown` | signal to exit, journal, `Server.Close` | `ServeShutdown_proofs` |
| `BootRestore` | saves, crash, migration, boot | `MCBootRestore`, `ServeShutdown_proofs` |
| `HedgeState` | hedge panel and its rows | `MCHedgeState`, `HedgeState_proofs` |
| `Exposure`, `ExpirySelection`, `SweepWindows`, `FlipSearch` | pure algorithms | `Algorithms` (inputs as constants), `MCAlgorithms`, `Algorithms_proofs` |

**SweepControl** models browser pages, core and edge together, since the
interesting failures need all three. Core goroutines (a POST handler per page,
a reader per connection, the monitor) share `roster`. A push is split as in the
code: snapshot the connections (`pushSweeps`), copy the roster
(`SweepRoster()`), send the copy (`connWriter.send`). `down` is the TCP stream
to the edge (FIFO), `dones` a bag per connection, because every `sweep_done` is
sent by its own `Task.Run`. On the edge `pass[t][n]` are the `PassOnceAsync`
tasks of a ticker (`n` only names them) and `passCts[t]` the registered one.
`OnCoreSweepSet` includes the part of `PassOnceAsync` before its first await:
coverage and window refusals happen there. The day has five windows. `TwsDrop`
is the only reconnect the edge performs: when the *core* dies its read loop ends
silently and the edge keeps going until the TWS socket closes. The page's own
"window closed" refusal is left out: the core repeats it. `armed` and `ran` are
history variables.

**StoreWriter** models the write queue. A caller is identified with its task:
Submitters wait on the answer, Savers call FlushAndWait, Posters forget. `flush`
is split into draining, begin, commit or abort, and `completeBatch`; `enqueue`
into its closed check and its send. Begin on a closed database fails.
`committed`, `failed`, `accepted` are history variables. **TaskStore** is what a
caller may rely on: one total order of accepted tasks, each applied once or not
at all, effects in that order, a failure takes everything outstanding with it.
`AtomicTasks` states that StoreWriter implements it, with the log mapped to
`accepted` and the applied and lost tasks to `committed` and `failed`.

**MasterLog** models the export. Ids are consecutive, so the table is a number
`points`. The CSV is kept as the set of rows that can be read back. The CSV
writer hands out 4096-byte blocks, so a cut append (disk full, process killed)
writes some whole lines and possibly a fragment of the next one, of a row or of
the header; the first line of the next append continues that fragment and cannot
be read (`glued`). `glued`, `tears` (cuts inside a line) and `headCut` (one hit
the header) are history variables. Loss of written data by power failure (the
file is not fsynced, SQLite runs with synchronous=NORMAL) is not modelled.

**EdgeLines** models one run of the feed: slots of the sweep gate, lines of the
accountant, the OI rotation and the underlying lines. FinishSnapshot is two
atomic TryRemove steps and may be executed by the EReader thread and the watchdog
at once. The pacer is reduced to what it may do to its caller: return a token
without looking at the cancellation token, or throw from its delay. A rotation
that finds no line takes and returns its pool slot within one step. Teardown of
a run (ResetUsed, fresh gates) is left out.

**Ingest** models one underlying. An action is one critical section of
`Core.mu`; the publication of a discovered chain, the application of a spot and
the submission of pending rows happen outside it and are steps of their own, so
handlers of two connections, the vendor loop and the flush loop interleave as
they do in the code. A row of the chain has an id (an exchange Con_Id or a
placeholder, here a negative number) and an open interest. The store is a
bounded queue whose batches commit or fail as a whole. A data point is named by
the event that made it: a spot, a computation or a heartbeat. `issued` (which
contract a placeholder was given to), `lag` (why the book may differ), `faulted`,
`accepted` (every data point taken), `lost` (the batches of points that were
refused or failed) and `failed` (other refused and failed writes, which bump the same counter)
are history variables.

**AppService** has one action per critical section of `Service.mu`. A book, a
snapshot and a stored state are the version of the data they were made from.
`stopSimLocked` gives the lock up while it waits for the simulator: the waiting
request keeps its place in `pc`, other requests go on. An engine loop reads a
book in one step and publishes in another. SetCustomTicker with the present
custom ticker or a default one overwrites its handle without cancelling the loop:
`orphans` counts the loops that go on without a handle, `replaced` how often it
happened. A save's writes always arrive here; the ones that are refused or fail
are in BootRestore. `crashed` stands for the panic of a reused WaitGroup.

**ServeShutdown** has the main goroutine, the goroutine of `startEdgeStack`, the
accept loop and one handler per connection. `wg` counts as the code's WaitGroup
does. `Server.Close` is idempotent and has two callers. A handler journals a
line, then dispatches it, also when the write failed: `torn` says that a part of a
record is at the end of the file, to which the next one joins, and `spoilt` are
the lines lost either way. `svc.Close` and `Store.Close` are one step here; their
inside is in AppService and StoreWriter.

**BootRestore** keeps rows by Con_Id; a session queues writes as the code does
and ends by Close or by a crash with a prefix of the queue committed. Any write may
be refused and any batch may fail, up to `MaxLosses` times; saveStateLocked only
logs it, and Close goes on with what is left (`saved` is then empty: nothing is
promised of the next start). The boot is
migration, LoadBootState, ChainSnapshots, restoreBootState and seeding.

**HedgeState** holds the pair, legs, the statistics cached per ET session, the
benchmark's spot and what the read model shows. Prices are the ticker they
belong to and whether they are stale; histories are what ComputeStats makes of
them.

**Exposure**, **ExpirySelection** and **SweepWindows** are operators without
state; **FlipSearch** is a small state machine, since the profile is drawn as it
is evaluated. Interpolation steps of Brent's method are abstracted to any step
its acceptance test admits.

The other `MC*` modules only add model values and symmetry sets. Definitions
marked `Mutant:` are variants of the definition below them, used to show that a
property can fail; no specification uses them.

## 3. Runs

All bounds are constants of the modules and are named there. Deadlock checking
is off where bounded clicks, callers or events let the system come to rest.

| Run | Checks | Instance and why it is enough |
|---|---|---|
| `sweep_concurrent` | InFlightCap, KillReaches | 2 pages, 2 tickers, cap 1, 2 clicks, 2 tasks per ticker: two full-set POSTs and a late push suffice to exceed a cap that is not enforced on set semantics; a delayed push re-registers a ticker beside its aborted task |
| `sweep_lifecycle` | NothingAutoArms, StickyShutoff (liveness) | an index ticker armed once; core restart, second connection and the closing of its window, each at any point, also between the check and the install of the POST |
| `store_queue` | TypeOK, ReplyHonest, NoOrphanWaiter, SaverTaskOver, AtomicTasks (refinement), AnsweredWhileOpen (liveness) | 4 tasks, queue of 2 (so it fills), two flushers, one failure, Close |
| `master_export` | SkipsAreTorn, HeaderOnce, CursorNeverRewinds, EventuallyExported (liveness) | 4 rows, 2 faults, 2 restarts: an export may fail, be cut between or inside lines, twice in a row too, and be restarted, and still meet rows of a later insert |
| `lines_account` | LinesBalance, SlotBalance, SlotsReturn and PassEnds (liveness) | 2 passes for 1 slot, 3 lines, 2 rotations, 1 underlying: account and gate both run out, TWS may never answer, either pass may be aborted |
| `ingest_chain` | IndexInverse, PlaceholderForever, BookCurrent, RefsWithoutFault, PointsAccounted, OiSurvives | 2 connections, 2 contracts, 2 Con_Ids, 3 events, queue of 2, 1 failure: a discovery, its re-discovery by another connection and one late event cover the ways rows move; patches reach FlushPatches |
| `app_service` | WatchlistSound, OneLoopEach, FrozenIsSaved, DisconnectReturns (liveness) | 2 operators, 1 default and 1 other ticker, 3 requests, 2 simulators: a second request inside the wait of the first, and a restart of the simulator |
| `serve_shutdown` | NoHandlerAfterClose, JournalWhole, ShutdownEnds (liveness) | a remote connection and the simulator's, 2 lines each, 2 failing journal writes: a connection accepted as the listener closes, one mid-line or idle, a record that joins a part of another one |
| `boot_restore` | CleanRestartKeepsBook, RestoredTradable | a listed and an unlisted ticker, 2 contracts of which one expires at midnight, 3 events, 3 boots, 1 loss: save, crash, boot, save again, boot on the next day, with a write or a batch lost anywhere |
| `hedge_state` | StatsForPair, ReloadIsCurrent | 3 tickers (default, custom, neither), 2 legs, 1 edit, 2 half days: a pair change across a rollover, a leg deleted after a failed write |
| `hedge_bench` | TargetUsesBenchmark, expected to be violated | as `hedge_state` |
| `algorithms` | FlipIsSignChange, CountedOnce, OrderIrrelevant, SelectionStable, ReopensWhenTold | every chain of up to 3 contracts over 2 strikes, rights, classes and expiries, in every order; every small listing of two classes, alone and together; ten days of windows to the second around each boundary; every profile on 4 grid points |

`hedge_bench` is the one recorded finding: after the pair was changed, the hedge
target is sized with the old benchmark's price, since `setHedgePairLocked` keeps
`benchSpot`, `benchSpotMs` and `benchSeed`.

### Sentences of the code's comments that do not hold as they stand

Each is a definition next to the properties of its module. Put in the INVARIANT
or PROPERTY line of the named configuration, TLC returns a counterexample.

| Definition (configuration) | Sentence | What TLC shows |
|---|---|---|
| SweepControl.Converged (`sweep_concurrent`) | "must converge to the authoritative roster, never keep a stale one" | a copy taken before a kill is sent after it |
| SweepControl.RunsOnce (`sweep_concurrent`) | "The edge runs it once" | a push in transit lists a ticker that has just finished and is run again |
| SweepControl.ArmsOnlyClicked (`sweep_concurrent` with MaxTickers = 2) | "nothing re-arms ... behind a deliberate button click" | a stale page re-arms a finished ticker by clicking another |
| StoreWriter.Answered (`store_queue`) | "one buffered value, nil on commit, the task error ... on failure" | a send after the last flush is never answered |
| StoreWriter.DurableHonest (`store_queue`) | "the id must be durable before the caller reports it" | the rolled-back batch is invisible to AddPosition |
| MasterLog.NeverSkip (`master_export`) | "never skip" (masterlog.go:116-117) | a row glued to a fragment is lost, the cursor passes it |
| EdgeLines.AbortReleases (`lines_account`) | "release through the existing FinishSnapshot/watchdog path" | cancellation in the pacer leaks slot and line |
| Ingest.RefsAlways (`ingest_chain`) | "so computation-log inserts satisfy their foreign key" (ingest.go:35-36) | a contract counts as persisted although its batch failed; later computation rows go out without it |
| AppService.SafeForConcurrentUse (`app_service`) | "Safe for concurrent use" (app.go:110) | a stream is switched on while a disconnect still waits: the WaitGroup is reused before Wait returned (app.go:695) |
| AppService.OldEngineStopped (`app_service`) | "it replaces the previous custom entry (its engine is stopped ...)" (app.go:535-536) | SetCustomTicker with the present custom ticker or a default one overwrites the handle and leaves its engine loop running (app.go:557-565) |
| AppService.SavedSnapshotFinal (`app_service`) | "the saved snapshot is exactly what the UI keeps showing" (app.go:641-643) | an engine loop that read the book before the freeze publishes after it |
| BootRestore.BootAlways (`boot_restore`) | "DB reload on boot = crash recovery" (boot.go:11-14) | contract rows of a ticker discovered outside the watchlist, or of one whose price row was refused, are stored without that row; every later boot is refused |
| BootRestore.RestoredIsSaved (`boot_restore`) | "the saved snapshot the GUI renders ... including after a restart" (app.go:699-702) | rows of the seeded chain and of a discovery share the ticker's synthetic ids: what the discovery did not overwrite stays, and a contract is restored twice |
| BootRestore.RestoredOiIsOwn (`boot_restore`) | "latest-OI joined" (boot.go:40) | vendor open interest saved under a placeholder stays in the table (a row without one writes none, store.go:339); the next session numbers its contracts differently and the boot after it joins the value to another contract |
| Algorithms.WallsTraded (`algorithms`) | "never a bogus level at a strike that only the other side trades" (aggregate.go:270-271) | the wall falls on a strike where only the other side is listed |
| ServeShutdown.ShutdownSaves (`serve_shutdown`) | "shutting down - saving state" (serve.go:230) | a connected remote edge that stays silent keeps Close waiting |
| ServeShutdown.EveryLineJournaled (`serve_shutdown`) | "every wire line as received" (journal.go:11-12) | a failed write is logged and its line dispatched (server.go:420-423) |
| ServeShutdown.NothingLeftBehind (`serve_shutdown`) | "FlushAll ... (used by Run, Close paths, ...)" (ingest.go:205-206) | lines dispatched after the Run loop's last flush are not flushed by Close |

PassEnds excludes exactly the state AbortReleases exhibits: with a leaked slot a
later pass may wait for ever. BookCurrent likewise excludes a refused or
overtaken publication, named by `lag`, and RefsWithoutFault a refused or failed
write. SkipsAreTorn, JournalWhole and OneLoopEach bound what NeverSkip,
EveryLineJournaled and OldEngineStopped exhibit: one row for a cut, two lines for
a failed write, one loop for an overwritten handle. CleanRestartKeepsBook speaks of
a Close that lost nothing and, of rows without open interest, only of those under
exchange ids, which no two contracts share (RestoredOiIsOwn).

Observations that have no definition of their own:

* The second answer of an aborted pass can retire its successor's entry; a push
  handled before `OnSweepSet` is assigned is lost; a token the pacer grants after
  a cancellation still fires one snapshot.
* `Reason` is documented to be empty when a pass is allowed, and says "closed" of
  an index ticker whose window is open (sweep_policy.go:157-173); its callers ask
  only about blocked ones.
* vendoroi.go:33-36 says TWS-delivered open interest always wins; ApplyVendorOI
  overwrites it.
* The order of states in hedge.go:9-10 is not the order the code tests them in,
  and its `no_beta` cannot be reached.
* Close of the service does not wait for the simulator when a SetStream already
  does.
* Lines that do not parse are dispatched nowhere and not journaled; the journal
  may order lines of two connections differently from their dispatch.
* The exporter's final pass on shutdown is not awaited by main.

### Fairness

* SweepControl (`CoreFairness`): started goroutines go on, the monitor's
  20-second ticker fires. Clicks, drops, restarts and the clock are not fair.
* StoreWriter: weak fairness of callers and of Close once called; strong fairness
  of each flusher, since `sync.Mutex` hands over to starved waiters.
* MasterLog: weak fairness of the export steps (the five-minute timer). Faults
  and crashes are bounded by their constants, so a fault-free export follows.
* EdgeLines: weak fairness of tasks and watchdogs, strong fairness of entering
  the gate (`SemaphoreSlim` serves its waiters in turn). TWS's own
  `tickSnapshotEnd` is not fair.
* AppService: a request that has begun goes on; a simulator goroutine goes on,
  and its `select` takes the cancelled context eventually although its ticker may
  be ready each time (Go selects at random: strong fairness). Requests, edge
  events and Close are not fair.
* ServeShutdown: the process's goroutines go on, and the in-process simulator
  hangs up once the context is done. The signal and the remote edges are not
  fair; ShutdownEnds assumes that the remote edges go.

## 4. Proofs

The `*_proofs` modules hold TLAPS proofs for all values of the constants that
satisfy the named assumptions (`SweepAssumption`, `StoreAssumption`,
`MasterAssumption`, `LinesAssumption`, `IngestAssumption`, `ShutdownAssumption`,
`BootAssumption`, `HedgeAssumption`, `AppAssumption`, `FlipAssumption`,
`AlgoAssumption`), which TLC evaluates on every run. Every invariance proof has
one step per action of `Next`. `StoreWriter_proofs` also holds the theorems about
the exporter of the same store, and `ServeShutdown_proofs` those about the
restart that follows a shutdown.

Where the model computes with a recursive function (the filtered watchlist, the
writes of a transaction, the tasks of a save, the two passes over a chain), the
proof first shows that a
function with that equation exists and then what it computes, both by the least
position at which the claim fails (lemma `Least`, from the well-foundedness of
the naturals).

* **SweepControl**: `TypeCorrect`; `KillAlwaysReaches` (KillReaches is inductive
  given typing: a new task takes a free name, and `finally` removes only its own
  registration); `CapHolds` with `CapInv`, which adds that every POST between
  check and install is within the cap; `FailClosed` with `ArmInv`, which adds
  that everything on its way - copies held by pushes, messages in transit,
  answers, running passes - stays within `armed` while the edge's connection
  belongs to this incarnation of the core.
* **StoreWriter**: `TypeCorrect`, and `RepliesAreHonest`, `NoWaiterOrphaned`,
  `SaverTaskIsOver` from one inductive invariant `WriterInv`: the lock holder is
  the only flusher under way (`LockInv`); unsent tasks are nowhere (`FreshInv`);
  queued tasks and those of an unfinished batch are neither committed nor
  answered (`QueueInv`, `BatchInv`); a saver's sent task is queued, in a batch
  or over (`SaverInv`). `SaverTaskIsOver` needs `QueueDepth <= BatchRows` (4096
  and 10000 in the code): one flush takes everything queued before it.
  `ImplementsTaskStore` is the refinement: `OrderInv` cuts the abstract log into
  what is over, the batch of the flusher under way and the queue, so a commit is
  the application of a prefix of what is outstanding and an abort gives up all
  of it; every other step is an acceptance or a stutter.
* **MasterLog**: `LogTypeCorrect`; `CursorMonotone` with `ExportInv` (a running
  export's `lastId` is the cursor); `NothingElseSkipped` and `HeaderWrittenOnce`
  with `SkipInv`, wherever appends are cut: every row up to what the running
  export has written is readable or glued, a fragment at the end of the file is a
  cut that has glued nothing yet, and a cut of the header leaves a file that is
  not empty, so no later append writes one.
* **EdgeLines**: `TypeCorrect` (with: a rotation that frees holds a lease);
  `SlotsConserved` with `SlotInv`, by cardinality arguments over the set of
  snapshots; `LinesConserved` with `LineInv`: no snapshot holds a line before it
  passed the gate and no rotation leases beyond its target; the leases of all
  rotations are counted as one set, so an allocation or a free of one of them
  changes the sum by as many as it takes from or gives back to the budget.
* **Ingest**: `IndexIsInverse` and `PlaceholdersForever` from `IdInv`: ids of
  rows are distinct, the index is their inverse, every placeholder held is one
  that was issued, for that contract, and within the counter, so a new one
  is fresh. `OpenInterestSurvives` follows from it
  step by step. `BookIsCurrent` from `BookInv`, which says what the book may
  lack while a handler is between the lock and the book. `ReferencesHold` from
  `RefInv`, which extends the ordering of the queue to what is pending and held
  by the flush loop: without a fault every id about to be logged is stored or
  queued ahead. `PointsAreAccounted` from two halves: where the points are
  (pending, held, queued, stored and lost points are disjoint, are together the
  accepted ones, and are numbered by the events, so a new one is in none), and
  how many losses are counted (each refused or failed batch raises the error
  counter or fills an error channel that is still to be drained; draining moves
  it from one to the other).
* **ServeShutdown**: `TypeCorrect`; `CloseDrains` with `CloseInv`: the counter of
  the WaitGroup is the number of live handlers plus the accept loop, and a
  connection just accepted is still covered by the accept loop's own count;
  `JournalIsWhole` with `JournalInv`: the journal closes only after a returned
  Close, so behind the last handler; a failed write spoils its own line and, if
  it left a part of it behind, one more.
* **BootRestore**: `BootRestoresTradable` needs no invariant: only `BootOk`
  brings the service up, and the migration removes only what the restore drops
  anyway. `RestartKeepsBook` from `OwnInv` and `SavedInv`: books, working chains,
  queued writes and database keep a ticker's rows under ids that name it, so in
  the transaction of a Close a later write never touches the rows of an earlier
  one; behind it the database has every row of `saved` with its open interest,
  and neither the migration nor a refused boot takes one away. A Close that lost a
  write promises nothing, and losses before it do not matter, since its save
  writes every row again. That a row without open interest comes back with none,
  or with one reported earlier for that very contract, needs its id to be an
  exchange id: only this contract ever wrote under it.
* **HedgeState**: `BetaIsOfPair` with `CacheInv`: statistics whose session
  key is today's are those of the present pair, and no key is ahead of the clock.
  `ReloadAlwaysCurrent` with `LegInv` and `PairInv`: while no write was lost, the
  legs list the stored rows and the pair is the queued one or else the stored one;
  a finite set of ids has one ascending sequence only, so the reload returns the
  legs in the order of the panel.
* **AppService**: `WatchlistAlwaysSound` with `ListInv` (order, handles and free
  slot, and what the engine loops are computing); `OneLoopAlways` with `CallInv`
  and `LoopInv`, which ties the number of loops of a handle to its cancel
  function and to how far Run has come, and `OrphanInv`, by which every loop
  without a handle is one that was overwritten; `FrozenAlwaysSaved` with `SimInv` (while a
  simulator lives its cancel function is held, and then something is connected,
  or a disconnect waits for it) and `SaveInv` (at rest the store has the final
  books).
* **Algorithms**: `FlipChangesSign` with `ProfileInv` and `SearchInv`: the three
  points of the search stay in the bracket nearest the spot, and two of them lie
  on different sides of zero, whatever steps interpolation proposes.
  `SelectionIsStable`, because every pick is a minimum and a subset that keeps a
  minimum has the same one, and what a class keeps is computed from its own dates
  alone (`DatesAlone`); `ReopeningIsRight`, by arithmetic on weekdays and
  seconds. `EveryContractCounted` and `OrderNeverMatters` rest on a theory of
  finite sums: the fold behind the library's `SumFunction` exists for every
  finite family of integers and does not depend on which element it takes first,
  so a sum may be split by a key or renamed by a bijection (`TotalByKey`,
  `TotalRenamed`). Every accumulator of ComputeSnapshot's pass is then shown to
  be a sum over a set of positions (`SumsAre`), and so is what blendedVols keeps
  of a strike (`StrikeQuotesAre`); a reordered chain only renames these sets. The
  quote that stands for a strike is not a sum: it does not depend on the order
  because an identity is listed once, so a strike has one call and one put in a
  group, and the call's quote wins from either side (with two quoted calls at one
  strike the last one listed would win). `LevelsAreExtreme` states what the levels
  are called for (`LevelsExtreme`: walls at the greatest call and the least put of
  the book and of each class, the ATM reference at the quoted strike nearest the
  spot, ties to the lower strike): a finite set of strikes has a sorted sequence
  (`SortExists`), and the scan's best is at a position no later key beats
  (`FirstBestLeads`). It is a definition next to the others and holds on the
  instance of `algorithms` too. The six hold for chains of any length
  and for any set of profile values, strikes, classes, listings, days and
  instants.

Only model-checked: every liveness property (StickyShutoff, AnsweredWhileOpen,
EventuallyExported, SlotsReturn, PassEnds, DisconnectReturns, ShutdownEnds), since
fairness is beyond the prover. Every invariant and every action property of a
passing run is also a theorem.

## 5. What is not modelled, and why

* **Event hub and SSE** (`app/hub.go`): lossy by design, every broadcast carries
  the whole read model and the next tick repeats it.
* **Sequence gaps, latencies, anomaly ring** (`edge/diag.go`): reporting only; no
  decision of the program depends on them.
* **Numerics** (`garch`, `volblend`, `solver`, hedge regression, Greeks):
  real-valued; TLC and the provers have no usable reals here. Where control
  depends on a number (sign of a profile, acceptance of a step), it is a choice.
* **HTTP routing, host guard, rendering; wire format; CSV import; schema creation
  and additive column migrations; flags and one-shot commands**: I/O and
  conversions without state shared with other parts.
* **TWS discovery callbacks** and the data the simulators generate: adapters to
  the IB API and test data.

Worth adding next: teardown and restart of one run of the edge feed in EdgeLines;
several underlyings in Ingest, which share the Run loop and the store queue; an
abstract single-roster specification for the core's side of SweepControl.
