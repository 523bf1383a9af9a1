----------------------------- MODULE HedgeState -----------------------------
(***************************************************************************)
(* The hedge module (app/hedge.go, store/hedge.go, hedge/legs.go): the     *)
(* pair, the manually entered legs and their stored rows, the statistics   *)
(* cached per ET session, the benchmark spot, and the read model that      *)
(* recomputeHedgeLocked rebuilds on every read.  Prices are the ticker they belong to    *)
(* and whether they are older than hedgeStaleAfter; a daily history is     *)
(* what ComputeStats makes of it; a leg is its row id.  What a leg holds,  *)
(* its Greeks and the share counts are left out.                           *)
(***************************************************************************)
EXTENDS Naturals, Sequences, FiniteSets, SequencesExt

CONSTANTS
  Tickers, Defaults,   \* every symbol, those that always have a handle
  Customs,             \* those the free slot may take
  None,
  Seed,                \* the pair of the command line, None without one
  MaxLegs, MaxClock,   \* bounds: legs entered and half days passed
  MaxEdits             \* bound: pairs set and histories loaded

Pairs == {p \in Tickers \X Tickers : p[1] # p[2]}

ASSUME HedgeAssumption ==
  /\ Defaults \cup Customs \subseteq Tickers /\ Defaults \cap Customs = {}
  /\ None \notin Tickers \cup Pairs /\ Seed \in Pairs \cup {None}
  /\ MaxLegs \in Nat /\ MaxClock \in Nat /\ MaxEdits \in Nat

VARIABLES
  watch,       \* handles: the age of each book, "none" when it is empty
  external,    \* the edge feeds the books, not the built-in simulator
  pair, stats, session,
  bench, benchSeed,      \* benchSpot: whose price and its age; benchSeed: whose seed
  legs, rows, lastId,    \* hedgeLegs, table Positions, its AUTOINCREMENT counter
  queued, storedPair,    \* Hedge_Pair: the write in the queue, the row
  hist,                  \* Daily_Closes
  clock,                 \* half days passed
  faulted,               \* history: a write was lost
  entered, edits

memVars == <<pair, stats, session, bench, benchSeed, legs>>
dbVars == <<rows, lastId, queued, storedPair, hist, faulted>>
clockVars == <<clock, external>>
bounds == <<entered, edits>>
vars == <<watch, memVars, dbVars, clockVars, bounds>>

\* USSession(now): the session key and whether the market is open.
day == 1 + clock \div 2
regular == clock % 2 = 1

Ages == {"none", "fresh", "old"}
Histories == {"none", "short", "flat", "long"}
NoStats == [ok |-> FALSE, n |-> "none", of |-> None]
NoSpot == [of |-> None, age |-> "none"]
Blank == [state |-> "no_pair", pair |-> None, beta |-> None, spotOf |-> None]

-----------------------------------------------------------------------------
(* Statistics: loadHedgeStatsLocked over DailyCloses, AlignByDate and      *)
(* ComputeStats.                                                           *)

\* The shared sessions of two histories.
Overlap(a, b) ==
  IF "none" \in {hist[a], hist[b]} THEN "none"
  ELSE IF "short" \in {hist[a], hist[b]} THEN "short" ELSE "long"

\* A short overlap still has a beta; a series without variance has none.
LoadedStats(p) ==
  IF p = None THEN NoStats
  ELSE [ok |-> Overlap(p[1], p[2]) # "none" /\ "flat" \notin {hist[p[1]], hist[p[2]]},
        n |-> Overlap(p[1], p[2]), of |-> p]

-----------------------------------------------------------------------------
(* recomputeHedgeLocked                                                    *)

HasBook(t) == t \in DOMAIN watch /\ watch[t] # "none"

\* The benchmark's own book when it has one, else the spot-only feed.
BenchNow == IF HasBook(pair[2]) THEN [of |-> pair[2], age |-> watch[pair[2]]] ELSE bench

Stale == regular /\ "old" \in {watch[pair[1]], BenchNow.age}

\* The early returns in the order the code has them; the share count cannot
\* fail once there is a benchmark spot.
StateOf(st) ==
  IF legs = <<>> THEN "no_positions"
  ELSE IF ~HasBook(pair[1]) THEN "no_asset_feed"
  ELSE IF ~st.ok \/ st.n # "long" THEN "insufficient_history"
  ELSE IF BenchNow.of = None THEN "no_bench_feed"
  ELSE IF Stale THEN "stale_feed" ELSE "ok"

\* A recompute when the cached session is ses: the statistics it goes on with.
StatsFrom(ses, p) == IF ses # day THEN LoadedStats(p) ELSE stats

\* hedgeCache after a recompute now, which is what Hedge() answers.
Shown ==
  IF pair = None THEN Blank
  ELSE LET st == StatsFrom(session, pair)
           s == StateOf(st)
           priced == s \notin {"no_positions", "no_asset_feed"} IN
       [state |-> s, pair |-> pair, beta |-> IF st.ok THEN st.of ELSE None,
        spotOf |-> IF priced THEN BenchNow.of ELSE None]

RecomputeFrom(ses) == session' = day /\ stats' = StatsFrom(ses, pair')

\* Hedge() and publish().
Recompute ==
  /\ UNCHANGED <<watch, pair, bench, benchSeed, legs, dbVars, clockVars, bounds>>
  /\ RecomputeFrom(session)

-----------------------------------------------------------------------------
(* Operator requests.                                                      *)

\* Mutant: the statistics of the old pair are kept until the next session.
SessionKept == session

SessionAfterPair == 0

\* SaveHedgePair only enqueues.
SetHedgePair(p) ==
  /\ edits < MaxEdits /\ edits' = edits + 1
  /\ p \in Pairs /\ p[1] \in DOMAIN watch
  /\ pair' = p /\ queued' = p
  /\ UNCHANGED <<watch, bench, benchSeed, legs, rows, lastId, storedPair, hist,
                 faulted, clockVars, entered>>
  /\ RecomputeFrom(SessionAfterPair)

\* The queue drained into one transaction.
Drained == queued' = None /\ storedPair' = IF queued = None THEN storedPair ELSE queued

\* A batch that fails takes the queued pair with it; nobody is told.
DrainFails == queued' = None /\ storedPair' = storedPair /\ faulted' = TRUE

\* FlushAndWait came back: committed, failed before the INSERT ran (id 0), or
\* failed after it (an id the next INSERT will be given again).
AddPosition ==
  /\ pair # None /\ entered < MaxLegs /\ entered' = entered + 1
  /\ \/ /\ lastId' = lastId + 1 /\ legs' = Append(legs, lastId + 1)
        /\ rows' = rows \cup {lastId + 1}
        /\ Drained /\ UNCHANGED faulted
     \/ /\ \E id \in {0, lastId + 1} : legs' = Append(legs, id)
        /\ DrainFails /\ UNCHANGED <<rows, lastId>>
  /\ UNCHANGED <<watch, pair, bench, benchSeed, hist, clockVars, edits>>
  /\ RecomputeFrom(session)

\* Mutant: the leg after the one named is cut out.
CutNext(k) == RemoveAt(legs, IF k < Len(legs) THEN k + 1 ELSE k)

Cut(k) == RemoveAt(legs, k)

\* The first leg with that id leaves, whether or not a row did.
DeletePosition(id) ==
  /\ \E k \in 1..Len(legs) :
       /\ legs[k] = id /\ \A j \in 1..(k - 1) : legs[j] # id
       /\ legs' = Cut(k)
  /\ \/ rows' = rows \ {id} /\ Drained /\ UNCHANGED faulted
     \/ DrainFails /\ UNCHANGED rows
  /\ UNCHANGED <<watch, pair, bench, benchSeed, lastId, hist, clockVars, bounds>>
  /\ RecomputeFrom(session)

\* The write loop's 50 ms flush.
Flush ==
  /\ queued # None
  /\ (Drained /\ UNCHANGED faulted) \/ DrainFails
  /\ UNCHANGED <<watch, memVars, rows, lastId, hist, clockVars, bounds>>

\* gexctl load-closes, another process on the same file.
LoadCloses(t, h) ==
  /\ edits < MaxEdits /\ edits' = edits + 1
  /\ h # hist[t] /\ h # "none" /\ hist' = [hist EXCEPT ![t] = h]
  /\ UNCHANGED <<watch, memVars, rows, lastId, queued, storedPair, faulted,
                 clockVars, entered>>

-----------------------------------------------------------------------------
(* Feeds and the clock.                                                    *)

\* A chain or a tick reaches a handle, or the free slot changes.
BookMoves(w) ==
  /\ w # watch /\ Defaults \subseteq DOMAIN w
  /\ \/ \E t \in DOMAIN watch : w = [watch EXCEPT ![t] = "fresh"]
     \/ /\ DOMAIN w # DOMAIN watch
        /\ \E t \in Customs, a \in {"none", "fresh"} :
             w = [u \in Defaults \cup {t} |-> IF u = t THEN a ELSE watch[u]]
  /\ watch' = w
  /\ UNCHANGED <<memVars, dbVars, clockVars, bounds>>

\* ApplySpot for the spot-only benchmark.
BenchSpot ==
  /\ external /\ pair # None /\ pair[2] \notin DOMAIN watch
  /\ bench' = [of |-> pair[2], age |-> "fresh"]
  /\ UNCHANGED <<watch, pair, stats, session, benchSeed, legs, dbVars,
                 clockVars, bounds>>

\* The built-in simulator walks the last spot around the first seed it drew.
BenchWalk ==
  /\ ~external /\ pair # None /\ pair[2] \notin DOMAIN watch
  /\ benchSeed' = IF benchSeed = None THEN pair[2] ELSE benchSeed
  /\ bench' = [of |-> benchSeed', age |-> "fresh"]
  /\ UNCHANGED <<watch, pair, stats, session, legs, dbVars, clockVars, bounds>>

Aged(a) == IF a = "fresh" THEN "old" ELSE a

MinutePasses ==
  /\ watch' = [t \in DOMAIN watch |-> Aged(watch[t])]
  /\ bench' = [bench EXCEPT !.age = Aged(@)]
  /\ clock' \in {clock, clock + 1} /\ clock' <= MaxClock
  /\ UNCHANGED <<pair, stats, session, benchSeed, legs, dbVars, external, bounds>>

-----------------------------------------------------------------------------
(* Boot, on what the last Close or a crash left.                           *)

\* ORDER BY id: every row once, in ascending order.
ById(set) ==
  CHOOSE s \in [1..Cardinality(set) -> set] :
    /\ \A r \in set : \E i \in DOMAIN s : s[i] = r
    /\ \A i, j \in DOMAIN s : i < j => s[i] < s[j]

\* New: the stored pair, or the flags' on a database without one.
Boot(stored) ==
  /\ watch' = [t \in Defaults |-> "fresh"]
  /\ pair' = IF stored = None /\ Seed # None /\ Seed[1] \in Defaults THEN Seed ELSE stored
  /\ queued' = IF pair' # stored THEN pair' ELSE None
  /\ storedPair' = stored
  /\ legs' = ById(rows)
  /\ stats' = NoStats /\ session' = 0
  /\ bench' = NoSpot /\ benchSeed' = None
  /\ UNCHANGED <<rows, lastId, hist, clockVars, bounds>>

\* Close flushes the queue; a crash loses it.
Restart == Boot(IF queued = None THEN storedPair ELSE queued) /\ UNCHANGED faulted

Crash == Boot(storedPair) /\ UNCHANGED faulted

Init ==
  /\ watch = [t \in Defaults |-> "fresh"]
  /\ pair = None /\ queued = None /\ storedPair = None
  /\ stats = NoStats /\ session = 0 /\ bench = NoSpot /\ benchSeed = None
  /\ legs = <<>> /\ rows = {} /\ lastId = 0
  /\ \E h \in {"none", "long"} : hist = [t \in Tickers |-> h]
  /\ clock = 0 /\ external \in BOOLEAN /\ faulted = FALSE
  /\ entered = 0 /\ edits = 0

Next ==
  \/ Recompute \/ Flush \/ BenchSpot \/ BenchWalk \/ MinutePasses
  \/ Restart \/ Crash
  \/ \E p \in Pairs : SetHedgePair(p)
  \/ AddPosition
  \/ \E k \in 1..Len(legs) : DeletePosition(legs[k])
  \/ \E t \in Tickers, h \in Histories : LoadCloses(t, h)
  \/ \E t \in Defaults \cup Customs : \E w \in [Defaults \cup {t} -> Ages] : BookMoves(w)

Spec == Init /\ [][Next]_vars

-----------------------------------------------------------------------------
(* Properties.                                                             *)

\* The beta on the panel, and so the sign and the size of the hedge, is that of
\* the pair on the panel, through pair changes, restarts and session rollovers
\* (hedge.go:125 "force a stats reload for the new pair", 238-241).
StatsForPair == Shown.beta # None => Shown.beta = Shown.pair

\* While no write was lost, a boot at any moment, after a Close or a crash,
\* finds the legs the panel holds, in its order, and after a Close its pair
\* (hedge.go:146-157, 184-189; store/hedge.go:36, 56).
ReloadIsCurrent ==
  ~faulted => /\ legs = ById(rows)
              /\ pair = IF queued = None THEN storedPair ELSE queued

\* "benchmark spot: the handle's L1 when the benchmark happens to be a
\* watchlist ticker, else the spot-only feed" (hedge.go:280-281): a target is
\* sized with the price of the benchmark it names.
TargetUsesBenchmark == Shown.state \in {"ok", "stale_feed"} => Shown.spotOf = Shown.pair[2]
=============================================================================
