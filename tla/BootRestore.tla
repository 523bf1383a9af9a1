---------------------------- MODULE BootRestore ----------------------------
(***************************************************************************)
(* What a session leaves in the database and what the next one makes of    *)
(* it: contract rows written by the ingest core and by saveStateLocked     *)
(* (store/store.go, app/app.go), a crash or a clean Close, the migration's *)
(* cleanup (store/migrate.go), LoadBootState and ChainSnapshots            *)
(* (store/boot.go), and restoreBootState with the seeding of New           *)
(* (app/app.go).                                                           *)
(*                                                                         *)
(* Rows are keyed by Con_Id: the exchange's id of a contract, or the n-th  *)
(* synthetic id of a ticker's namespace, which the seed generator and the  *)
(* edge's placeholders both number from one.  An open interest is the      *)
(* contract it was reported for, "seed" when it was generated.  A write    *)
(* may be refused by a full queue and a batch may fail; both are logged    *)
(* and the session, or its Close, goes on.                                 *)
(***************************************************************************)
EXTENDS Integers, Sequences, FiniteSets

CONSTANTS
  Listed,      \* tickers of the configured watchlist
  Unlisted,    \* tickers only the free slot can hold
  Identities,  \* contracts of a ticker
  Dailies,     \* the contracts that expire on day 0; the others expire on day 2
  MaxDay, MaxEvents, MaxBoots, MaxQueue, \* bounds
  MaxLosses    \* bound: refused writes and failed batches

ASSUME BootAssumption ==
  /\ IsFiniteSet(Identities) /\ Dailies \subseteq Identities
  /\ Listed \cap Unlisted = {} /\ IsFiniteSet(Listed \cup Unlisted)
  /\ MaxDay \in Nat /\ MaxEvents \in Nat /\ MaxBoots \in Nat /\ MaxQueue \in Nat
  /\ MaxLosses \in Nat

VARIABLES
  serving, day,
  custom,   \* the free slot: a ticker, "free", or "flag" when -custom filled it
  book,     \* the service's book of each ticker: Con_Id -> row
  chain,    \* the ingest core's working chain of each ticker
  nextSyn,  \* its placeholder counters
  queue,    \* write tasks not committed
  db,       \* committed rows
  saved,    \* history: the books of a Close that wrote them all and that nothing
            \* was written after
  refused,  \* history: New returned an error
  events, boots, losses

bootVars == <<serving, day, custom, book, chain, nextSyn, queue, db, saved, refused,
              events, boots, losses>>

-----------------------------------------------------------------------------

Tickers == Listed \cup Unlisted
Con(t, i) == <<"con", t, i>>
Syn(t, n) == <<"syn", t, n>>

\* ConIdMatchesTicker: an exchange id always does.
Belongs(id, t) == id[1] = "con" \/ id[2] = t

Empty == [id \in {} |-> 0]
Row(i, oi) == [i |-> i, oi |-> oi]
Dte(i) == (IF i \in Dailies THEN 0 ELSE 2) - day

Override(f, g) ==
  [x \in DOMAIN f \cup DOMAIN g |-> IF x \in DOMAIN g THEN g[x] ELSE f[x]]
Without(f, S) == [x \in DOMAIN f \ S |-> f[x]]

IsRows(rows) ==
  \A id \in DOMAIN rows : /\ rows[id].i \in Identities
                          /\ rows[id].oi \in Identities \cup {"none", "seed"}

BootTypeOK ==
  /\ serving \in BOOLEAN /\ day \in 0..MaxDay /\ refused \in BOOLEAN
  /\ custom \in Unlisted \cup {"free", "flag"}
  /\ \A t \in Tickers : IsRows(book[t]) /\ IsRows(chain[t]) /\ IsRows(saved[t])
  /\ nextSyn \in [Tickers -> Nat]
  /\ Len(queue) <= MaxQueue
  /\ db.under \subseteq Tickers
  /\ events \in 0..MaxEvents /\ boots \in 0..MaxBoots /\ losses \in 0..MaxLosses

NoBooks == [t \in Tickers |-> Empty]

\* An empty database, or one an older synthetic-id scheme wrote: a row of one
\* ticker under an id of another's namespace, with its open interest.
LegacyDb ==
  {[under |-> {t}, rows |-> [id \in {Syn(u, 1)} |-> [t |-> t, i |-> i]],
    oi |-> [id \in {Syn(u, 1)} |-> i]] : t \in Listed, u \in Unlisted, i \in Identities}

BootInit ==
  /\ serving = FALSE /\ day = 0 /\ custom = "free"
  /\ book = NoBooks /\ chain = NoBooks /\ saved = NoBooks
  /\ nextSyn = [t \in Tickers |-> 0] /\ queue = <<>>
  /\ db \in {[under |-> {}, rows |-> Empty, oi |-> Empty]} \cup LegacyDb
  /\ refused = FALSE /\ events = 0 /\ boots = 0 /\ losses = 0

-----------------------------------------------------------------------------
(* The writes.  The writer empties the queue between any two of them, so   *)
(* each one may be refused on its own; how full the queue is then is the   *)
(* subject of modules StoreWriter and Ingest.                              *)

UnderTask(t) == [kind |-> "under", t |-> t, rows |-> Empty]
RowsTask(t, rows) == [kind |-> "rows", t |-> t, rows |-> rows]

Enqueue(ts) == Len(queue \o ts) <= MaxQueue /\ queue' = queue \o ts

Lossy(lost) ==
  IF lost THEN losses < MaxLosses /\ losses' = losses + 1 ELSE UNCHANGED losses

\* The ingest core's single write: taken, or refused and counted there.
Persist(t, rows) ==
  \/ Enqueue(<<RowsTask(t, rows)>>) /\ Lossy(FALSE)
  \/ UNCHANGED queue /\ Lossy(TRUE)

\* Mutant: the open interest of a contract that has one is not written.
OiWrittenNone(rows) == {}

\* if c.OpenInterest > 0
OiWritten(rows) == {id \in DOMAIN rows : rows[id].oi # "none"}

\* UpsertUnderlying, UpsertContractsSource.  The open interest is keyed by
\* Con_Id and date; the latest one is kept here.
Executed(d, task) ==
  IF task.kind = "under"
    THEN [under |-> d.under \cup {task.t}, rows |-> d.rows, oi |-> d.oi]
    ELSE [under |-> d.under,
          rows |-> Override(d.rows, [id \in DOMAIN task.rows |->
                                       [t |-> task.t, i |-> task.rows[id].i]]),
          oi |-> Override(d.oi, [id \in OiWritten(task.rows) |-> task.rows[id].oi])]

ExecutedAll(d, ts) ==
  LET after[n \in 0..Len(ts)] == IF n = 0 THEN d ELSE Executed(after[n - 1], ts[n])
  IN after[Len(ts)]

\* One transaction of the writer (module StoreWriter).
Commit(n) ==
  /\ n <= Len(queue)
  /\ db' = ExecutedAll(db, SubSeq(queue, 1, n))
  /\ queue' = SubSeq(queue, n + 1, Len(queue))
  /\ saved' = NoBooks
  /\ UNCHANGED <<serving, day, custom, book, chain, nextSyn, refused, events, boots, losses>>

\* A transaction fails: the queue is drained with it.
Abort ==
  /\ queue # <<>> /\ queue' = <<>> /\ Lossy(TRUE)
  /\ UNCHANGED <<serving, day, custom, book, chain, nextSyn, db, saved, refused, events,
                 boots>>

-----------------------------------------------------------------------------
(* The session: the edge's events and the service's saves.                 *)

InService(t) == t \in Listed \/ t = custom

\* Service.ApplyChain: a ticker without a handle takes the free slot or is
\* refused, and the ingest core keeps its chain all the same.
Apply(t, rows) ==
  /\ custom' = IF ~InService(t) /\ custom = "free" THEN t ELSE custom
  /\ book' = IF InService(t) \/ custom = "free" THEN [book EXCEPT ![t] = rows] ELSE book

Event == serving /\ events < MaxEvents /\ events' = events + 1

Numberings(S) ==
  {f \in [S -> 1..Cardinality(S)] : \A i, j \in S : f[i] = f[j] => i = j}

IdOf(rows, i) == CHOOSE id \in DOMAIN rows : rows[id].i = i
Contracts(rows) == {rows[id].i : id \in DOMAIN rows}

\* onChain: the kept contracts; a re-discovery carries rows over and persists.
Discover(t, kept, f) ==
  LET carried == {id \in DOMAIN chain[t] : chain[t][id].i \in kept}
      bare == kept \ Contracts(chain[t])
      new == Override([id \in carried |-> chain[t][id]],
                      [id \in {Syn(t, nextSyn[t] + f[i]) : i \in bare} |->
                         Row(CHOOSE i \in bare : Syn(t, nextSyn[t] + f[i]) = id, "none")])
  IN
  /\ Event /\ f \in Numberings(bare)
  /\ chain' = [chain EXCEPT ![t] = new]
  /\ nextSyn' = [nextSyn EXCEPT ![t] = @ + Cardinality(bare)]
  /\ IF chain[t] = Empty THEN UNCHANGED <<queue, losses>> ELSE Persist(t, new)
  /\ Apply(t, new)
  /\ UNCHANGED <<serving, day, db, saved, refused, boots>>

\* onOptComp: a computation resolves contract i and its row is persisted.
Resolve(t, i, oi) ==
  LET new == Override(Without(chain[t], {IdOf(chain[t], i)}),
                      [id \in {Con(t, i)} |-> Row(i, oi)])
  IN
  /\ Event /\ i \in Contracts(chain[t])
  /\ oi \in {chain[t][IdOf(chain[t], i)].oi, i}
  /\ chain' = [chain EXCEPT ![t] = new]
  /\ Persist(t, [id \in {Con(t, i)} |-> new[id]])
  /\ Apply(t, new)
  /\ UNCHANGED <<serving, day, nextSyn, db, saved, refused, boots>>

\* ApplyVendorOI: open interest by contract, placeholders included.
VendorOI(t, i) ==
  LET new == [chain[t] EXCEPT ![IdOf(chain[t], i)].oi = i] IN
  /\ Event /\ i \in Contracts(chain[t])
  /\ chain' = [chain EXCEPT ![t] = new]
  /\ Apply(t, new)
  /\ UNCHANGED <<serving, day, nextSyn, queue, db, saved, refused, boots, losses>>

Due(t) == InService(t) /\ book[t] # Empty

\* The writes of a save that may be refused, which saveStateLocked only logs.
Refusable == {"under", "rows"} \X {t \in Tickers : Due(t)}

\* saveStateLocked of one ticker: underlying before contracts.
SaveTasks(t, lost) ==
  IF Due(t) THEN (IF <<"under", t>> \in lost THEN <<>> ELSE <<UnderTask(t)>>)
                 \o (IF <<"rows", t>> \in lost THEN <<>> ELSE <<RowsTask(t, book[t])>>)
  ELSE <<>>

SaveSeqs(order, lost) ==
  LET after[n \in 0..Len(order)] ==
        IF n = 0 THEN <<>> ELSE after[n - 1] \o SaveTasks(order[n], lost)
  IN after[Len(order)]

\* The watchlist with the free slot last.
Orders ==
  {q \in [1..Cardinality(Tickers) -> Tickers] :
     /\ \A t \in Tickers : \E k \in DOMAIN q : q[k] = t
     /\ \A k, l \in DOMAIN q : q[k] \in Unlisted /\ q[l] \in Listed => l < k}

\* A checkpoint or a disconnect.
Save ==
  /\ Event
  /\ \E q \in Orders, lost \in SUBSET Refusable :
       Enqueue(SaveSeqs(q, lost)) /\ Lossy(lost # {})
  /\ UNCHANGED <<serving, day, custom, book, chain, nextSyn, db, saved, refused, boots>>

Stopped == /\ serving' = FALSE /\ queue' = <<>> /\ custom' = "free"
           /\ book' = NoBooks /\ chain' = NoBooks
           /\ nextSyn' = [t \in Tickers |-> 0]

\* Service.Close: save, flush, close.  Writes may be refused, and the batches
\* that are left may fail from some write on; Close does not look at either.
Close ==
  /\ serving
  /\ \E q \in Orders, lost \in SUBSET Refusable :
       LET left == queue \o SaveSeqs(q, lost) IN
       \E n \in 0..Len(left) :
         /\ Lossy(lost # {} \/ n < Len(left))
         /\ db' = ExecutedAll(db, SubSeq(left, 1, n))
         /\ saved' = IF lost = {} /\ n = Len(left)
                       THEN [t \in Tickers |-> IF InService(t) THEN book[t] ELSE Empty]
                       ELSE NoBooks
  /\ Stopped
  /\ UNCHANGED <<day, refused, events, boots>>

Crash ==
  /\ serving /\ Stopped
  /\ UNCHANGED <<day, db, saved, refused, events, boots, losses>>

NextDay ==
  /\ ~serving /\ day < MaxDay /\ day' = day + 1
  /\ UNCHANGED <<serving, custom, book, chain, nextSyn, queue, db, saved, refused, events,
                 boots, losses>>

-----------------------------------------------------------------------------
(* The next session's start.                                               *)

Foreign == {id \in DOMAIN db.rows : ~Belongs(id, db.rows[id].t)}

\* migrate, v5: foreign synthetic rows go, children first, in one transaction.
Migrated ==
  [under |-> db.under, rows |-> Without(db.rows, Foreign), oi |-> Without(db.oi, Foreign)]

\* LoadBootState: the contracts of t joined with their latest open interest.
Loaded(d, t) ==
  [id \in {id \in DOMAIN d.rows : d.rows[id].t = t} |->
     Row(d.rows[id].i, IF id \in DOMAIN d.oi THEN d.oi[id] ELSE "none")]

\* Mutant: contracts of an older session come back after their expiry.
KeptExpired(d, t) == Loaded(d, t)

\* restoreBootState: own ids only, and nothing that expired.
Kept(d, t) ==
  LET all == Loaded(d, t) IN
  [id \in {id \in DOMAIN all : Belongs(id, t) /\ Dte(all[id].i) >= 0} |-> all[id]]

\* Nothing beyond same-day expiry cannot price: an empty book.
Restored(rows) ==
  IF \E id \in DOMAIN rows : Dte(rows[id].i) >= 1 THEN rows ELSE Empty

\* addHandle's generated chain.
Seed(t, f) ==
  [id \in {Syn(t, f[i]) : i \in Identities} |->
     Row(CHOOSE i \in Identities : Syn(t, f[i]) = id, "seed")]

\* ChainSnapshots: contracts without an Underlying_Prices row.
Orphaned(d) == {d.rows[id].t : id \in DOMAIN d.rows} \ d.under

\* The unknown tickers with rows, of which one is pulled back into the slot.
Candidates(d) == {t \in Unlisted : Kept(d, t) # Empty}

Booted(d, f, t) ==
  IF Kept(d, t) # Empty THEN Restored(Kept(d, t)) ELSE Seed(t, f)

BootOk(flag, slot, f) ==
  LET d == Migrated IN
  /\ ~serving /\ boots < MaxBoots /\ boots' = boots + 1 /\ Orphaned(d) = {}
  /\ slot \in IF flag THEN {"flag"}
              ELSE IF Candidates(d) = {} THEN {"free"} ELSE Candidates(d)
  /\ serving' = TRUE /\ db' = d /\ custom' = slot
  /\ book' = [t \in Tickers |-> IF t \in Listed THEN Booted(d, f, t)
                                ELSE IF t = slot THEN Restored(Kept(d, t))
                                ELSE Empty]
  /\ UNCHANGED <<day, chain, nextSyn, queue, saved, refused, events, losses>>

\* New closes the store again and returns the error.
BootRefused ==
  /\ ~serving /\ boots < MaxBoots /\ boots' = boots + 1 /\ Orphaned(Migrated) # {}
  /\ db' = Migrated /\ refused' = TRUE
  /\ UNCHANGED <<serving, day, custom, book, chain, nextSyn, queue, saved, events, losses>>

BootNext ==
  \/ \E flag \in BOOLEAN, slot \in Unlisted \cup {"free", "flag"},
        f \in Numberings(Identities) : BootOk(flag, slot, f)
  \/ BootRefused \/ Close \/ Crash \/ NextDay \/ Save \/ Abort
  \/ \E n \in 1..MaxQueue : Commit(n)
  \/ \E t \in Tickers, kept \in (SUBSET Identities) \ {{}} :
       \E f \in Numberings(kept \ Contracts(chain[t])) : Discover(t, kept, f)
  \/ \E t \in Tickers, i \in Identities :
       VendorOI(t, i) \/ \E oi \in Identities \cup {"none", "seed"} : Resolve(t, i, oi)

BootSpec == BootInit /\ [][BootNext]_bootVars

-----------------------------------------------------------------------------
(* Properties.                                                             *)

Boots == ~serving /\ serving'

\* "a restart reloads historical state from the local DB file" (boot.go:11-12):
\* after a Close whose writes were all taken and committed, and behind which
\* nothing was written, each ticker the next session serves has every contract of
\* its old book that can still be priced, with the open interest it had.  A row
\* that had none gets none or, under the exchange's id, one reported earlier for
\* that very contract (store.go:339 writes none, boot.go:76-78 joins the latest by
\* Con_Id).  Under a synthetic id, which every session gives out anew, it may get
\* what another contract had: RestoredOiIsOwn.
CleanRestartKeepsBook ==
  [][Boots => \A t \in Tickers : (t \in Listed \/ t = custom') =>
       \A id \in DOMAIN Restored(saved[t]) :
         Dte(saved[t][id].i) >= 0 =>
           /\ id \in DOMAIN book'[t] /\ book'[t][id].i = saved[t][id].i
           /\ saved[t][id].oi # "none" => book'[t][id].oi = saved[t][id].oi
           /\ saved[t][id].oi = "none" /\ id[1] = "con"
                => book'[t][id].oi \in {"none", saved[t][id].i}]_bootVars

\* "expired rows never re-enter the model" and rows with foreign ids are dropped
\* (app.go:250-254, 277-278): whatever a session or an older scheme left behind, a
\* restored book has neither, and never only contracts it cannot price.
RestoredTradable ==
  [][Boots => \A t \in Tickers :
       /\ \A id \in DOMAIN book'[t] :
            Belongs(id, t) /\ (book'[t][id].oi # "seed" => Dte(book'[t][id].i) >= 0)
       /\ Kept(db, t) # Empty /\ t \in Listed /\ Restored(Kept(db, t)) = Empty
            => book'[t] = Empty]_bootVars

\* "latest-OI joined" (boot.go:40): no contract comes back with the open interest
\* of another one.
RestoredOiIsOwn ==
  [][Boots => \A t \in Tickers : \A id \in DOMAIN book'[t] :
       book'[t][id].oi \in {"none", "seed", book'[t][id].i}]_bootVars

\* "DB reload on boot = crash recovery" (boot.go:11-14): what a session left, the
\* next one starts from.
BootAlways == ~refused

OnceEach(rows) == \A id, id2 \in DOMAIN rows : rows[id].i = rows[id2].i => id = id2

\* "the saved snapshot the GUI renders without a live feed, including after a
\* restart" (app.go:699-702): a book that had every contract once has it once
\* after a clean restart.
RestoredIsSaved ==
  [][Boots => \A t \in Tickers :
       saved[t] # Empty /\ OnceEach(saved[t]) => OnceEach(book'[t])]_bootVars
=============================================================================
