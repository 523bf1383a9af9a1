------------------------------- MODULE Ingest -------------------------------
(***************************************************************************)
(* The ingest core (edge/ingest.go, edge/vendoroi.go) for one underlying:  *)
(* connection handlers discover and re-discover its chain, patch contracts *)
(* into it and move its spot; the vendor open-interest loop patches it     *)
(* too; the Run loop flushes the working chain to the book and the pending *)
(* rows to the store.  Everything happens under Core.mu except the         *)
(* publication of a discovered chain, the application of a spot and the    *)
(* submission of the pending rows, which are steps of their own here.      *)
(*                                                                         *)
(* A contract's identity (class, expiry, right, strike) is a model value;  *)
(* a chain maps the identities the selection kept to rows.                 *)
(***************************************************************************)
EXTENDS Integers, Sequences, FiniteSets

CONSTANTS
  Conns,         \* edge connections, one handler goroutine each
  Identities,    \* contracts of the underlying
  RealIds,       \* the exchange's Con_Ids (positive; placeholders are negative)
  Spots,         \* underlying prices
  FlushPatches,  \* Config.FlushPatches (512)
  QueueDepth,    \* capacity of the store's task queue (4096)
  MaxEvents,     \* bound: wire events and vendor refreshes
  MaxFailures    \* bound: write transactions that fail

ASSUME IngestAssumption ==
  /\ IsFiniteSet(Identities)
  /\ RealIds \cap Int = {} /\ Spots \subseteq Nat \ {0}
  /\ FlushPatches \in Nat \ {0} /\ QueueDepth \in Nat
  /\ MaxEvents \in Nat /\ MaxFailures \in Nat

VARIABLES
  known,      \* the ticker has a tickerIngest
  chain,      \* its working chain: identity -> row
  spot,       \* chain.Spot
  byCon,      \* Con_Id -> identity (the code keeps the row's index)
  persisted,  \* Con_Ids whose Option_Contracts row was enqueued
  pending, patchCount, nextSyn,
  pub,        \* what each handler still does outside the lock
  book,       \* the InMemoryBook entry, NoBook before the first chain
  lag,        \* history: why the book is not the working chain, if it is not
  pendLogs, pendPoints,
  flusher,    \* FlushAll between its critical section and its submissions
  tasks,      \* the store's queue
  db,         \* committed rows: contracts, computation rows, data points
  errChans,   \* done channels that hold an error nobody has drained yet
  writeErrs,  \* Diagnostics.writeErrs
  accepted,   \* history: every data point a handler ever appended
  lost,       \* history: batches of data points that will never be stored
  failed,     \* history: other rows refused or aborted that the code notices
  faulted,    \* history: an enqueue was refused or a transaction failed
  issued,     \* history: placeholder id -> the identity it was stamped on
  events, failures  \* bounded counters

chainVars == <<known, chain, spot, byCon, persisted, pending, patchCount,
               nextSyn, issued>>
bookVars == <<book, lag>>
rowVars == <<pendLogs, pendPoints, accepted>>
storeVars == <<tasks, db, errChans, writeErrs, lost, failed, faulted, failures>>
vars == <<chainVars, pub, bookVars, rowVars, flusher, storeVars, events>>

-----------------------------------------------------------------------------

OiSources == {"none", "tws", "vendor"}

\* market.Contract: iv stands for every quoted field, ok for "the book's
\* validateContract accepts it", terms for multiplier, settlement, exchange.
Row == [id : Int \cup RealIds, oi : OiSources, iv : 0..1, ok : BOOLEAN, terms : 0..1]

IsChain(ch) ==
  /\ DOMAIN ch \subseteq Identities /\ ch = [i \in DOMAIN ch |-> ch[i]]
  /\ \A i \in DOMAIN ch : ch[i] \in Row
NoRows == [i \in {} |-> 0]
NoBook == [rows |-> NoRows, spot |-> 0]

Idle == [pc |-> "idle"]
Quiet == \A c \in Conns : pub[c] = Idle

Ids(ch) == {ch[i].id : i \in DOMAIN ch}
RowOf(ch) == [k \in Ids(ch) |-> CHOOSE i \in DOMAIN ch : ch[i].id = k]

TypeOK ==
  /\ known \in BOOLEAN
  /\ IsChain(chain) /\ spot \in Spots \cup {0}
  /\ persisted \subseteq RealIds /\ pending \in BOOLEAN
  /\ patchCount \in 0..FlushPatches /\ nextSyn \in Nat
  /\ \A c \in Conns : /\ pub[c].pc \in {"idle", "copy", "apply", "spot"}
                      /\ pub[c].pc \in {"copy", "apply"} => IsChain(pub[c].rows)
  /\ IsChain(book.rows) /\ book.spot \in Spots \cup {0}
  /\ lag \in {"none", "refused", "overtaken"}
  /\ pendLogs \subseteq RealIds /\ pendPoints \subseteq 1..MaxEvents
  /\ flusher.pc \in {"idle", "logs", "points"}
  /\ Len(tasks) <= QueueDepth
  /\ accepted \subseteq 1..MaxEvents /\ UNION lost \subseteq 1..MaxEvents
  /\ errChans \in Nat /\ writeErrs \in Nat /\ failed \in Nat
  /\ faulted \in BOOLEAN /\ events \in 0..MaxEvents /\ failures \in 0..MaxFailures

Init ==
  /\ known = FALSE /\ chain = NoRows /\ spot = 0 /\ byCon = NoRows
  /\ persisted = {} /\ pending = FALSE /\ patchCount = 0 /\ nextSyn = 0
  /\ issued = NoRows
  /\ pub = [c \in Conns |-> Idle]
  /\ book = NoBook /\ lag = "none"
  /\ pendLogs = {} /\ pendPoints = {} /\ accepted = {}
  /\ flusher = [pc |-> "idle", logs |-> {}, points |-> {}]
  /\ tasks = <<>> /\ db = [cons |-> {}, logs |-> {}, points |-> {}]
  /\ errChans = 0 /\ writeErrs = 0 /\ lost = {} /\ failed = 0 /\ faulted = FALSE
  /\ events = 0 /\ failures = 0

-----------------------------------------------------------------------------
(* Dispatch.  An event before hello, a malformed one, one of an unknown    *)
(* type, or one for a ticker without a chain is rejected and changes       *)
(* nothing: Event is the rest, up to the bound.                            *)

Event(c) ==
  /\ pub[c] = Idle /\ events < MaxEvents
  /\ events' = events + 1

\* enqueue on the store's channel: refused when it is full.
Enqueued(t) == Len(tasks) < QueueDepth /\ tasks' = Append(tasks, t)
Refused == Len(tasks) >= QueueDepth /\ UNCHANGED tasks

\* A data point appended under the lock.
Pends(e) == pendPoints' = pendPoints \cup {e} /\ accepted' = accepted \cup {e}

(* InMemoryBook.ApplyChainSnapshot behind Service.ApplyChain: one row that *)
(* fails validation refuses the chain.  A closed service or a full         *)
(* watchlist refuses it in the same way (module AppService).               *)
BookTakes(rows) == \A i \in DOMAIN rows : rows[i].ok

\* publishLocked under the lock: the book becomes the working chain.
Apply(rows, sp) ==
  IF BookTakes(rows)
    THEN book' = [rows |-> rows, spot |-> sp] /\ lag' = "none"
    ELSE book' = book /\ lag' = "refused"

-----------------------------------------------------------------------------
(* onChain and adoptChainLocked.  The kept set is what SelectedExpiries-   *)
(* ByClass and FilterChain leave of the universe (module ExpirySelection). *)

Carried(kept) == IF known THEN kept \cap DOMAIN chain ELSE {}
Bare(kept) == kept \ Carried(kept)

\* The order in which bare rows are numbered: any order of the listing.
Numberings(S) ==
  {f \in [S -> 1..Cardinality(S)] : \A i, j \in S : f[i] = f[j] => i = j}

FreshRow(id) == [id |-> id, oi |-> "none", iv |-> 0, ok |-> TRUE, terms |-> 0]

\* Mutant: the placeholder counter restarts with every discovery.
AdoptedFromOne(kept, f) ==
  [i \in kept |-> IF i \in Carried(kept) THEN [chain[i] EXCEPT !.terms = 0]
                  ELSE FreshRow(-f[i])]

\* Mutant: the carry-over keeps the id and forgets the open interest.
AdoptedNoOi(kept, f) ==
  [i \in kept |-> IF i \in Carried(kept)
                    THEN [chain[i] EXCEPT !.terms = 0, !.oi = "none"]
                  ELSE FreshRow(-(nextSyn + f[i]))]

\* Surviving rows keep id, open interest and quotes; multiplier, settlement
\* and exchange are those of the new listing.
Adopted(kept, f) ==
  [i \in kept |-> IF i \in Carried(kept) THEN [chain[i] EXCEPT !.terms = 0]
                  ELSE FreshRow(-(nextSyn + f[i]))]

\* A handler about to copy the array that is being replaced keeps the old one.
Detached(c) ==
  [d \in Conns |-> IF d # c /\ pub[d].pc = "copy" /\ pub[d].live
                     THEN [pub[d] EXCEPT !.live = FALSE, !.rows = chain]
                     ELSE pub[d]]

\* The caller of UpsertContractsSource sees the refusal: bumpWriteFailed.
ContractsRefused ==
  faulted' = TRUE /\ failed' = failed + 1 /\ writeErrs' = writeErrs + 1

OnChain(c, kept, sp, f) ==
  LET new == Adopted(kept, f) IN
  /\ Event(c)
  /\ chain' = new /\ spot' = sp
  /\ byCon' = RowOf(new)
  /\ known' = TRUE /\ persisted' = {} /\ pending' = FALSE /\ patchCount' = 0
  /\ nextSyn' = nextSyn + Cardinality(Bare(kept))
  /\ issued' = [k \in DOMAIN issued \cup {new[i].id : i \in Bare(kept)} |->
                  IF k \in DOMAIN issued THEN issued[k]
                  ELSE CHOOSE i \in Bare(kept) : new[i].id = k]
  /\ pub' = [Detached(c) EXCEPT
                ![c] = [pc |-> "copy", live |-> TRUE, rows |-> new, spot |-> sp]]
  /\ IF ~known THEN UNCHANGED <<tasks, faulted, failed, writeErrs>>
     ELSE \/ /\ Enqueued([kind |-> "contracts", rows |-> new])
             /\ UNCHANGED <<faulted, failed, writeErrs>>
          \/ Refused /\ ContractsRefused
  /\ UNCHANGED <<bookVars, rowVars, flusher, db, errChans, lost, failures>>

(* publishLocked, called by onChain after it gave the lock up: first the   *)
(* copy, which reads the rows as other handlers have patched them since,   *)
(* then ApplyChain.  The copy races those handlers row by row; a mixture   *)
(* of old and new rows differs from the working chain as an overtaken      *)
(* publication does, so one atomic copy stands for it.                     *)
CopyChain(c) ==
  /\ pub[c].pc = "copy"
  /\ pub' = [pub EXCEPT ![c] = [pc |-> "apply", spot |-> pub[c].spot,
                                rows |-> IF pub[c].live THEN chain ELSE pub[c].rows]]
  /\ UNCHANGED <<chainVars, bookVars, rowVars, flusher, storeVars, events>>

Current(rows, sp) == rows = chain /\ sp = spot

ApplyChain(c) ==
  LET p == pub[c] IN
  /\ p.pc = "apply"
  /\ IF BookTakes(p.rows)
       THEN /\ book' = [rows |-> p.rows, spot |-> p.spot]
            /\ lag' = IF Current(p.rows, p.spot) THEN "none" ELSE "overtaken"
       ELSE book' = book /\ lag' = "refused"
  /\ pub' = [pub EXCEPT ![c] = Idle]
  /\ UNCHANGED <<chainVars, rowVars, flusher, storeVars, events>>

-----------------------------------------------------------------------------
(* onSpot: the working chain under the lock, the book outside it, and the  *)
(* data point under the lock again.  The spot_sub tickers without a chain  *)
(* belong to module HedgeState.                                            *)

OnSpot(c, sp) ==
  /\ Event(c) /\ known
  /\ spot' = sp
  /\ pub' = [pub EXCEPT ![c] = [pc |-> "spot", spot |-> sp, event |-> events']]
  /\ UNCHANGED <<known, chain, byCon, persisted, pending, patchCount, nextSyn, issued,
                 bookVars, rowVars, flusher, storeVars>>

\* A book without a chain refuses a spot.
ApplySpot(c) ==
  LET sp == pub[c].spot IN
  /\ pub[c].pc = "spot"
  /\ IF book # NoBook
       THEN /\ book' = [book EXCEPT !.spot = sp]
            /\ lag' = IF sp # spot THEN "overtaken" ELSE lag
            /\ Pends(pub[c].event)
       ELSE /\ lag' = "refused" /\ UNCHANGED <<book, pendPoints, accepted>>
  /\ pub' = [pub EXCEPT ![c] = Idle]
  /\ UNCHANGED <<chainVars, pendLogs, flusher, storeVars, events>>

-----------------------------------------------------------------------------
(* onStatus: the edge's heartbeat is kept as one data point.               *)

OnStatus(c) ==
  /\ Event(c) /\ Pends(events')
  /\ UNCHANGED <<chainVars, pub, bookVars, pendLogs, flusher, storeVars>>

-----------------------------------------------------------------------------
(* onOptComp: one computation for the contract the wire calls con and      *)
(* describes as i.  The whole handler runs under the lock.                 *)

Kinds == {"quote", "oi", "und", "amend", "bad"}

\* "quote" carries bid and ask, "bad" a pair the book refuses, "oi" an open
\* interest, "und" another underlying price, "amend" another multiplier, settlement
\* or exchange, which is looked at only when the Con_Id is already known.
Patched(row, con, kind) ==
  [row EXCEPT !.id = con, !.iv = 1 - row.iv,
              !.ok = IF kind \in {"quote", "bad"} THEN kind = "quote" ELSE row.ok,
              !.oi = IF kind = "oi" THEN "tws" ELSE row.oi,
              !.terms = IF kind = "amend" /\ con \in DOMAIN byCon THEN 1 - row.terms
                        ELSE row.terms]

\* Mutant: the placeholder's entry stays in byCon.
ReindexKeepsOld(i, con) ==
  [k \in DOMAIN byCon \cup {con} |-> IF k = con THEN i ELSE byCon[k]]

\* delete(byCon, old id); byCon[con] = i
Reindex(i, con) ==
  [k \in (DOMAIN byCon \ {chain[i].id}) \cup {con} |-> IF k = con THEN i ELSE byCon[k]]

\* A known Con_Id must describe its own row, an unknown one a selected row.
Resolves(con, i) ==
  IF con \in DOMAIN byCon THEN byCon[con] = i ELSE i \in DOMAIN chain

\* Mutant: a chain with any stored contract is taken as stored.
NeedsUpsertOnce(con, held) == held = {}

NeedsUpsert(con, held) == con \notin held

\* Mutant: a computation patches the working chain without marking it pending.
PatchedPending == pending

PendingAfterPatch == TRUE

OnOptComp(c, con, i, kind) ==
  LET new == [chain EXCEPT ![i] = Patched(chain[i], con, kind)]
      amended == kind = "amend" /\ con \in DOMAIN byCon
      held == IF amended THEN persisted \ {con} ELSE persisted
      full == patchCount + 1 >= FlushPatches
  IN
  /\ Event(c) /\ known /\ Resolves(con, i)
  /\ chain' = new /\ byCon' = Reindex(i, con)
  /\ spot' \in IF kind = "und" THEN Spots \ {spot} ELSE {spot}
  /\ pending' = (PendingAfterPatch /\ ~full)
  /\ patchCount' = IF full THEN 0 ELSE patchCount + 1
  /\ IF full THEN Apply(new, spot') ELSE UNCHANGED bookVars
  /\ \/ /\ ~NeedsUpsert(con, held) /\ persisted' = held
        /\ UNCHANGED <<tasks, faulted, failed, writeErrs>>
     \/ /\ NeedsUpsert(con, held) /\ persisted' = held \cup {con}
        /\ Enqueued([kind |-> "contracts", rows |-> [j \in {i} |-> new[i]]])
        /\ UNCHANGED <<faulted, failed, writeErrs>>
     \/ /\ NeedsUpsert(con, held) /\ persisted' = held
        /\ Refused /\ ContractsRefused
  /\ pendLogs' = pendLogs \cup {con} /\ Pends(events')
  /\ UNCHANGED <<known, nextSyn, issued, pub, flusher, db, errChans, lost, failures>>

(* ApplyVendorOI: open interest for the matched contracts, published at once. *)
ApplyVendorOI(matched) ==
  LET new == [i \in DOMAIN chain |->
                IF i \in matched THEN [chain[i] EXCEPT !.oi = "vendor"] ELSE chain[i]]
  IN
  /\ known /\ matched # {} /\ events < MaxEvents /\ events' = events + 1
  /\ chain' = new /\ pending' = FALSE /\ patchCount' = 0
  /\ Apply(new, spot)
  /\ UNCHANGED <<known, spot, byCon, persisted, nextSyn, issued, pub, rowVars,
                 flusher, storeVars>>

-----------------------------------------------------------------------------
(* Run: FlushAll, then the drains.                                         *)

FlushAll ==
  /\ flusher.pc = "idle"
  /\ pending \/ pendLogs # {} \/ pendPoints # {}
  /\ IF pending THEN Apply(chain, spot) /\ pending' = FALSE /\ patchCount' = 0
     ELSE UNCHANGED <<bookVars, pending, patchCount>>
  /\ flusher' = [pc |-> "logs", logs |-> pendLogs, points |-> pendPoints]
  /\ pendLogs' = {} /\ pendPoints' = {}
  /\ UNCHANGED <<known, chain, spot, byCon, persisted, nextSyn, issued, pub,
                 accepted, storeVars, events>>

NotFlushing == [pc |-> "idle", logs |-> {}, points |-> {}]

\* Mutant: a refused submission of the computation rows is not counted.
LogsRefusedCount == 0

\* bumpWriteFailed
LogsRefused == 1

\* A refused log batch makes FlushAll return: the points it took are gone.
SubmitLogs ==
  /\ flusher.pc = "logs"
  /\ \/ /\ IF flusher.logs = {} THEN UNCHANGED tasks
           ELSE Enqueued([kind |-> "logs", ids |-> flusher.logs])
        /\ flusher' = [flusher EXCEPT !.pc = "points", !.logs = {}]
        /\ UNCHANGED <<writeErrs, lost, failed, faulted>>
     \/ /\ flusher.logs # {} /\ Refused
        /\ writeErrs' = writeErrs + LogsRefused /\ faulted' = TRUE
        /\ IF flusher.points = {} THEN failed' = failed + 1 /\ UNCHANGED lost
           ELSE lost' = lost \cup {flusher.points} /\ UNCHANGED failed
        /\ flusher' = NotFlushing
  /\ UNCHANGED <<chainVars, pub, bookVars, rowVars, db, errChans, failures, events>>

SubmitPoints ==
  /\ flusher.pc = "points"
  /\ \/ /\ IF flusher.points = {} THEN UNCHANGED tasks
           ELSE Enqueued([kind |-> "points", pts |-> flusher.points])
        /\ UNCHANGED <<writeErrs, lost, faulted>>
     \/ /\ flusher.points # {} /\ Refused
        /\ writeErrs' = writeErrs + 1 /\ faulted' = TRUE
        /\ lost' = lost \cup {flusher.points}
  /\ flusher' = NotFlushing
  /\ UNCHANGED <<chainVars, pub, bookVars, rowVars, db, errChans, failed, failures,
                 events>>

\* drainLogErrors, drainPointErrors
DrainErrors ==
  /\ flusher.pc = "idle" /\ errChans > 0
  /\ writeErrs' = writeErrs + errChans /\ errChans' = 0
  /\ UNCHANGED <<chainVars, pub, bookVars, rowVars, flusher, tasks, db, lost,
                 failed, faulted, failures, events>>

-----------------------------------------------------------------------------
(* The store's writer (module StoreWriter): the queue in one transaction,  *)
(* all of it or none; a failed one drains the queue.                       *)

TasksOf(kind) == {k \in 1..Len(tasks) : tasks[k].kind = kind}
QueuedBatches == {tasks[k].pts : k \in TasksOf("points")}
QueuedPoints == UNION QueuedBatches
ContractsBefore(k) ==
  UNION {Ids(tasks[j].rows) : j \in {j \in TasksOf("contracts") : j < k}}

\* Option_Computation_Logs.Con_Id REFERENCES Option_Contracts
RefsHold(k) == tasks[k].ids \subseteq db.cons \cup ContractsBefore(k)
BatchRuns == \A k \in TasksOf("logs") : RefsHold(k)

CommitBatch ==
  /\ tasks # <<>> /\ BatchRuns
  /\ db' = [cons |-> db.cons \cup ContractsBefore(Len(tasks) + 1),
            logs |-> db.logs \cup UNION {tasks[k].ids : k \in TasksOf("logs")},
            points |-> db.points \cup QueuedPoints]
  /\ tasks' = <<>>
  /\ UNCHANGED <<chainVars, pub, bookVars, rowVars, flusher, errChans,
                 writeErrs, lost, failed, faulted, failures, events>>

\* Contract tasks have no done channel: their loss is not noticed.
AbortBatch ==
  /\ tasks # <<>>
  /\ \/ ~BatchRuns /\ UNCHANGED failures
     \/ failures < MaxFailures /\ failures' = failures + 1
  /\ errChans' = errChans + Cardinality(TasksOf("logs") \cup TasksOf("points"))
  /\ lost' = lost \cup QueuedBatches
  /\ failed' = failed + Cardinality(TasksOf("logs"))
  /\ tasks' = <<>> /\ faulted' = TRUE
  /\ UNCHANGED <<chainVars, pub, bookVars, rowVars, flusher, db, writeErrs, events>>

HandlerStep(c) ==
  \/ CopyChain(c) \/ ApplyChain(c) \/ ApplySpot(c) \/ OnStatus(c)
  \/ \E kept \in (SUBSET Identities) \ {{}}, sp \in Spots :
       \E f \in Numberings(Bare(kept)) : OnChain(c, kept, sp, f)
  \/ \E sp \in Spots : OnSpot(c, sp)
  \/ \E con \in RealIds, i \in Identities, kind \in Kinds : OnOptComp(c, con, i, kind)

Next ==
  \/ \E c \in Conns : HandlerStep(c)
  \/ \E matched \in SUBSET DOMAIN chain : ApplyVendorOI(matched)
  \/ FlushAll \/ SubmitLogs \/ SubmitPoints \/ DrainErrors
  \/ CommitBatch \/ AbortBatch

Spec == Init /\ [][Next]_vars

-----------------------------------------------------------------------------
(* Properties.                                                             *)

\* byCon is the exact inverse of the working chain's Con_Ids, through
\* resolutions, id swaps and re-discoveries: no two rows share an id and no
\* stale id finds a row (ingest.go:746-757, 576-585).
IndexInverse ==
  /\ DOMAIN byCon = Ids(chain)
  /\ \A i \in DOMAIN chain : byCon[chain[i].id] = i

\* "a re-discovery can never reissue an id an unresolved row still holds"
\* (ingest.go:131-134): a placeholder names one contract for the whole session.
PlaceholderForever ==
  \A i \in DOMAIN chain : chain[i].id \notin RealIds =>
    chain[i].id \in DOMAIN issued /\ issued[chain[i].id] = i

\* "a mid-session re-discovery must not zero the book while OI re-arrives"
\* (ingest.go:513-515): a row that stays keeps its open interest.
OiSurvives ==
  [][\A i \in DOMAIN chain \cap DOMAIN chain' :
       chain[i].oi # "none" => chain'[i].oi # "none"]_vars

\* With nothing pending and no handler outside the lock the book is the working
\* chain, unless the last publication was refused or an older one overtook it
\* (ingest.go:429-437, 705, 851-865): no accepted patch is lost in any other way.
BookCurrent ==
  Quiet /\ ~pending /\ known /\ lag = "none" => book = [rows |-> chain, spot |-> spot]

\* "so computation-log inserts satisfy their foreign key" (ingest.go:35-37):
\* a computation row is queued behind its contract's row, as long as no enqueue
\* was refused and no transaction failed.
RefsWithoutFault == faulted \/ \A k \in TasksOf("logs") : RefsHold(k)

\* Every data point a handler appended is in exactly one place: pending, with
\* the flusher, queued, stored, or in a batch that was lost.  And every lost
\* batch has a write error of its own, counted in the diagnostics or about to be
\* drained: the errors are no fewer than the lost batches and the other rows
\* the code saw fail (ingest.go:216-285, 605-610, 711-716, 836-844).
PointsAccounted ==
  /\ accepted = pendPoints \cup flusher.points \cup QueuedPoints \cup db.points
                  \cup UNION lost
  /\ pendPoints \cap (flusher.points \cup QueuedPoints \cup db.points \cup UNION lost) = {}
  /\ flusher.points \cap (QueuedPoints \cup db.points \cup UNION lost) = {}
  /\ QueuedPoints \cap (db.points \cup UNION lost) = {} /\ db.points \cap UNION lost = {}
  /\ Cardinality(lost) + failed <= writeErrs + errChans

\* "ContractSink persists resolved contract identities (Option_Contracts) so
\* computation-log inserts satisfy their foreign key" (ingest.go:35-36).
RefsAlways == \A k \in TasksOf("logs") : RefsHold(k)
=============================================================================
