-------------------------- MODULE HedgeState_proofs --------------------------
(***************************************************************************)
(* The cached statistics, the legs and the pair of the hedge module, for   *)
(* any set of tickers, any number of legs, sessions, restarts and pair     *)
(* changes.                                                                *)
(***************************************************************************)
EXTENDS HedgeState, FiniteSetTheorems, WellFoundedInduction, TLAPS

\* The cache is of this or an earlier session, and one of this session is of
\* the pair in force.
CacheInv ==
  /\ clock \in Nat /\ session \in Nat /\ session <= day
  /\ session = day /\ stats.ok => stats.of = pair

LEMMA DayFacts == \A n \in Nat : 1 + n \div 2 \in Nat \ {0} /\ n \div 2 <= (n + 1) \div 2
OBVIOUS

\* A reload caches the statistics of the pair it is given.
LEMMA LoadedFor == \A p : LoadedStats(p).ok => LoadedStats(p).of = p
<1> TAKE p
<1>1. CASE p = None BY <1>1 DEF LoadedStats, NoStats
<1>2. CASE p # None BY <1>2 DEF LoadedStats
<1> QED BY <1>1, <1>2

\* Any recompute, from a cached session that is not ahead.
LEMMA RecomputeInv ==
  ASSUME CacheInv, UNCHANGED clock, NEW ses, RecomputeFrom(ses),
         ses = day => ses = session /\ pair' = pair
  PROVE  CacheInv'
<1>1. day' = day /\ day \in Nat BY DayFacts DEF day, CacheInv
<1>2. session' = day /\ stats' = IF ses # day THEN LoadedStats(pair') ELSE stats
  BY DEF RecomputeFrom, StatsFrom
<1>3. CASE ses # day
  <2>1. stats' = LoadedStats(pair') BY <1>2, <1>3
  <2>2. LoadedStats(pair').ok => LoadedStats(pair').of = pair'
    BY LoadedFor
  <2> QED BY <1>1, <1>2, <2>1, <2>2 DEF CacheInv
<1>4. CASE ses = day
  BY <1>1, <1>2, <1>4 DEF CacheInv
<1> QED BY <1>3, <1>4

LEMMA CacheStep == CacheInv /\ [Next]_vars => CacheInv'
<1> SUFFICES ASSUME CacheInv, [Next]_vars PROVE CacheInv'
  OBVIOUS
<1>1. CASE Recompute
  BY <1>1, RecomputeInv DEF Recompute, clockVars
<1>2. ASSUME NEW p \in Pairs, SetHedgePair(p) PROVE CacheInv'
  <2>1. UNCHANGED clock /\ RecomputeFrom(0)
    BY <1>2 DEF SetHedgePair, clockVars, SessionAfterPair
  <2>2. 0 # day BY DayFacts DEF day, CacheInv
  <2> QED BY <2>1, <2>2, RecomputeInv
<1>3. CASE AddPosition
  BY <1>3, RecomputeInv DEF AddPosition, clockVars
<1>4. ASSUME NEW id, DeletePosition(id) PROVE CacheInv'
  BY <1>4, RecomputeInv DEF DeletePosition, clockVars
<1>5. CASE MinutePasses
  <2>1. UNCHANGED <<pair, stats, session>> /\ clock' \in {clock, clock + 1}
    BY <1>5 DEF MinutePasses
  <2>2. CASE clock' = clock BY <2>1, <2>2 DEF CacheInv, day
  <2>3. CASE clock' = clock + 1
    <3>1. day' = day \/ day' = day + 1 BY <2>3 DEF CacheInv, day
    <3>2. day \in Nat /\ clock' \in Nat BY <2>3, DayFacts DEF CacheInv, day
    <3> QED BY <2>1, <3>1, <3>2 DEF CacheInv
  <2> QED BY <2>1, <2>2, <2>3
<1>6. CASE Restart \/ Crash
  <2>1. UNCHANGED clock /\ session' = 0 BY <1>6 DEF Restart, Crash, Boot, clockVars
  <2>2. day' = day /\ day \in Nat \ {0} BY <2>1, DayFacts DEF day, CacheInv
  <2> QED BY <2>1, <2>2 DEF CacheInv
<1>7. CASE \/ Flush \/ BenchSpot \/ BenchWalk \/ UNCHANGED vars
           \/ \E t \in Tickers, h \in Histories : LoadCloses(t, h)
           \/ \E t \in Defaults \cup Customs :
                \E w \in [Defaults \cup {t} -> Ages] : BookMoves(w)
  <2>1. UNCHANGED <<clock, pair, stats, session>>
    BY <1>7 DEF Flush, BenchSpot, BenchWalk, LoadCloses, BookMoves, vars, memVars, clockVars
  <2> QED BY <2>1 DEF CacheInv, day
<1> QED BY <1>1, <1>2, <1>3, <1>4, <1>5, <1>6, <1>7 DEF Next

\* A panel never shows a beta of another pair, whatever pairs were set before
\* and wherever the session rolled over (hedge.go:121-127, 236-246).
THEOREM BetaIsOfPair == Spec => []StatsForPair
<1>1. Init => CacheInv
  <2> SUFFICES ASSUME Init PROVE CacheInv
    OBVIOUS
  <2>1. clock = 0 /\ session = 0 /\ 1 + 0 \div 2 = 1 BY DEF Init
  <2> QED BY <2>1 DEF CacheInv, day
<1>2. CacheInv => StatsForPair
  <2> SUFFICES ASSUME CacheInv, Shown.beta # None PROVE Shown.beta = Shown.pair
    BY DEF StatsForPair
  <2> DEFINE st == StatsFrom(session, pair)
  <2>1. pair # None BY DEF Shown, Blank
  <2>2. Shown.beta = (IF st.ok THEN st.of ELSE None) /\ Shown.pair = pair
    BY <2>1 DEF Shown
  <2>3. st.ok => st.of = pair
    BY LoadedFor DEF StatsFrom, CacheInv
  <2> QED BY <2>2, <2>3
<1> QED BY <1>1, <1>2, CacheStep, PTL DEF Spec

-----------------------------------------------------------------------------
(* The legs.  There is one ascending sequence of a set: two that differ    *)
(* differ first somewhere, and the smaller id there is missing from one.   *)

LEMMA Least ==
  ASSUME NEW S, S \subseteq Nat, S # {}
  PROVE  \E m \in S : \A n \in S : m <= n
<1>1. IsWellFoundedOn(OpToRel(<, Nat), Nat) BY NatLessThanWellFounded
<1>2. PICK m \in S : \A n \in S : ~(<<n, m>> \in OpToRel(<, Nat)) BY <1>1, WFMin
<1>3. \A n \in S : n \in Nat /\ m \in Nat /\ ~(n < m) BY <1>2 DEF OpToRel
<1> QED BY <1>3

\* s lists every member of set, in ascending order.
Lists(s, set) ==
  /\ s \in [1..Cardinality(set) -> set]
  /\ \A r \in set : \E i \in DOMAIN s : s[i] = r
  /\ \A i, j \in DOMAIN s : i < j => s[i] < s[j]

\* If two such sequences agree below k, the one cannot have the smaller id at k.
LEMMA NoSmaller ==
  ASSUME NEW S \in SUBSET Nat, NEW n \in Nat, NEW s \in [1..n -> S], NEW t \in [1..n -> S],
         \A i, j \in 1..n : i < j => s[i] < s[j], \A i, j \in 1..n : i < j => t[i] < t[j],
         \A r \in S : \E i \in 1..n : t[i] = r,
         NEW k \in 1..n, \A i \in 1..(k - 1) : s[i] = t[i]
  PROVE  ~(s[k] < t[k])
<1> SUFFICES ASSUME s[k] < t[k] PROVE FALSE OBVIOUS
<1>1. PICK j \in 1..n : t[j] = s[k] OBVIOUS
<1>2. s[k] \in Nat /\ t[k] \in Nat /\ s[j] \in Nat OBVIOUS
<1>3. CASE j < k
  <2>1. s[j] = t[j] /\ s[j] < s[k] BY <1>3
  <2> QED BY <1>1, <1>2, <2>1
<1>4. CASE j = k BY <1>1, <1>2, <1>4
<1>5. CASE k < j
  <2>1. t[k] < t[j] BY <1>5
  <2> QED BY <1>1, <1>2, <2>1
<1> QED BY <1>3, <1>4, <1>5

LEMMA ListsUnique ==
  ASSUME NEW S \in SUBSET Nat, IsFiniteSet(S), NEW s, NEW t, Lists(s, S), Lists(t, S)
  PROVE  s = t
<1> DEFINE n == Cardinality(S)
           Differ == {k \in 1..n : s[k] # t[k]}
<1>1. n \in Nat BY FS_CardinalityType
<1> HIDE DEF n
<1>2. s \in [1..n -> S] /\ t \in [1..n -> S] BY DEF Lists, n
<1>3. /\ \A i, j \in 1..n : i < j => s[i] < s[j] /\ t[i] < t[j]
      /\ \A r \in S : (\E i \in 1..n : t[i] = r) /\ \E i \in 1..n : s[i] = r
  BY <1>2 DEF Lists
<1>4. Differ = {}
  <2> SUFFICES ASSUME Differ # {} PROVE FALSE OBVIOUS
  <2>1. PICK k \in Differ : \A m \in Differ : k <= m
    <3>1. Differ \subseteq Nat BY <1>1
    <3> HIDE DEF Differ
    <3> QED BY <3>1, Least
  <2>2. k \in 1..n /\ s[k] # t[k] OBVIOUS
  <2>3. \A i \in 1..(k - 1) : s[i] = t[i]
    <3> TAKE i \in 1..(k - 1)
    <3>1. i \in 1..n /\ ~(k <= i) BY <1>1, <2>2
    <3> QED BY <2>1, <3>1
  <2>4. ~(s[k] < t[k]) BY <1>1, <1>2, <1>3, <2>2, <2>3, NoSmaller
  <2>5. ~(t[k] < s[k]) BY <1>1, <1>2, <1>3, <2>2, <2>3, NoSmaller
  <2>6. s[k] \in Nat /\ t[k] \in Nat BY <1>2, <2>2
  <2> QED BY <2>2, <2>4, <2>5, <2>6
<1>5. \A k \in 1..n : s[k] = t[k] BY <1>4
<1> HIDE DEF Differ
<1>6. s = [k \in 1..n |-> s[k]] /\ t = [k \in 1..n |-> t[k]] BY <1>2
<1>7. [k \in 1..n |-> s[k]] = [k \in 1..n |-> t[k]] BY <1>5, Zenon
<1> QED BY <1>6, <1>7, Zenon

LEMMA ByIdIs ==
  ASSUME NEW S \in SUBSET Nat, IsFiniteSet(S), NEW s, Lists(s, S)
  PROVE  s = ById(S)
<1>1. Lists(ById(S), S) BY DEF ById, Lists
<1> QED BY <1>1, ListsUnique

\* While no write was lost the legs are the rows in id order, and ids only grow.
LegInv ==
  ~faulted => /\ lastId \in Nat /\ rows \in SUBSET (1..lastId) /\ IsFiniteSet(rows)
              /\ Lists(legs, rows)

\* ... and the pair on the panel is the one that a flush would store.
PairInv == ~faulted => pair = IF queued = None THEN storedPair ELSE queued

LEMMA LegsStay == ASSUME LegInv, UNCHANGED <<legs, rows, lastId, faulted>> PROVE LegInv'
BY DEF LegInv, Lists

\* The next id is above every row.
LEMMA LegAdded ==
  ASSUME LegInv, ~faulted, lastId' = lastId + 1, legs' = Append(legs, lastId + 1),
         rows' = rows \cup {lastId + 1}
  PROVE  LegInv'
<1> DEFINE n == Cardinality(rows)
           new == lastId + 1
<1>1. lastId \in Nat /\ rows \subseteq 1..lastId /\ IsFiniteSet(rows) /\ Lists(legs, rows)
  BY DEF LegInv
<1>2. n \in Nat /\ new \notin rows /\ new \in Nat BY <1>1, FS_CardinalityType
<1>3. IsFiniteSet(rows') /\ Cardinality(rows') = n + 1
  BY <1>1, <1>2, FS_AddElement
<1> HIDE DEF n
<1>4. legs \in [1..n -> rows] BY <1>1 DEF Lists, n
<1>5. legs \in Seq(rows) /\ Len(legs) = n BY <1>2, <1>4
<1>6. legs' \in Seq(rows') /\ Len(legs') = n + 1
  BY <1>5
<1>7. legs'[n + 1] = new /\ \A i \in 1..n : legs'[i] = legs[i] /\ legs[i] \in rows
  BY <1>4, <1>5
<1>8. DOMAIN legs' = 1..(n + 1) /\ legs' \in [1..(n + 1) -> rows']
  <2>1. \A i \in 1..Len(legs') : legs'[i] \in rows' BY <1>6
  <2>2. DOMAIN legs' = 1..Len(legs') /\ legs' = [i \in 1..Len(legs') |-> legs'[i]] BY <1>6
  <2> QED BY <1>6, <2>1, <2>2
<1>9. \A r \in rows' : \E i \in 1..(n + 1) : legs'[i] = r
  <2>1. \A r \in rows : \E i \in 1..n : legs[i] = r BY <1>1, <1>4 DEF Lists
  <2>2. n + 1 \in 1..(n + 1) /\ \A i \in 1..n : i \in 1..(n + 1) BY <1>2
  <2> QED BY <1>7, <2>1, <2>2
<1>10. \A i, j \in 1..(n + 1) : i < j => legs'[i] < legs'[j]
  <2> SUFFICES ASSUME NEW i \in 1..(n + 1), NEW j \in 1..(n + 1), i < j PROVE legs'[i] < legs'[j]
    OBVIOUS
  <2>0. i \in 1..n BY <1>2
  <2>1. legs'[i] = legs[i] /\ legs[i] \in 1..lastId BY <1>1, <1>7, <2>0
  <2>2. CASE j = n + 1
    <3>1. legs'[j] = lastId + 1 BY <1>7, <2>2
    <3>2. \A x \in 1..lastId : x < lastId + 1 BY <1>1
    <3> QED BY <2>1, <3>1, <3>2
  <2>3. CASE j # n + 1
    <3>1. j \in 1..n BY <1>2, <2>3
    <3>2. legs[i] < legs[j] BY <1>1, <1>4, <2>0, <3>1 DEF Lists
    <3> QED BY <1>7, <2>1, <3>1, <3>2
  <2> QED BY <2>2, <2>3
<1>11. rows' \subseteq 1..lastId' /\ lastId' \in Nat BY <1>1
<1> QED BY <1>3, <1>8, <1>9, <1>10, <1>11 DEF LegInv, Lists

\* slices.Delete and the DELETE of the same id.
LEMMA LegCut ==
  ASSUME LegInv, ~faulted, NEW k \in 1..Len(legs), legs' = RemoveAt(legs, k),
         rows' = rows \ {legs[k]}, lastId' = lastId
  PROVE  LegInv'
<1> DEFINE n == Cardinality(rows)
<1>1. lastId \in Nat /\ rows \subseteq 1..lastId /\ IsFiniteSet(rows) /\ Lists(legs, rows)
  BY DEF LegInv
<1>2. n \in Nat /\ legs \in [1..n -> rows] BY <1>1, FS_CardinalityType DEF Lists
<1>3. legs \in Seq(rows) /\ Len(legs) = n BY <1>2
<1>4. legs[k] \in rows /\ k \in 1..n BY <1>3
<1>5. IsFiniteSet(rows') /\ Cardinality(rows') = n - 1
  BY <1>1, <1>4, FS_RemoveElement
<1> HIDE DEF n
<1>6. /\ legs' \in Seq(rows) /\ Len(legs') = n - 1
      /\ \A i \in 1..(n - 1) : legs'[i] = IF i < k THEN legs[i] ELSE legs[i + 1]
  <2> DEFINE low == SubSeq(legs, 1, k - 1)
             high == SubSeq(legs, k + 1, n)
  <2>1. legs' = low \o high BY <1>3 DEF RemoveAt
  <2>2. low \in Seq(rows) /\ Len(low) = k - 1 /\ \A i \in 1..(k - 1) : low[i] = legs[i]
    BY <1>2, <1>3, <1>4
  <2>3. high \in Seq(rows) /\ Len(high) = n - k /\ \A i \in 1..(n - k) : high[i] = legs[k + i]
    BY <1>2, <1>3, <1>4
  <2> HIDE DEF low, high
  <2>4. legs' \in Seq(rows) /\ Len(legs') = n - 1 BY <1>2, <1>4, <2>1, <2>2, <2>3
  <2>5. ASSUME NEW i \in 1..(n - 1) PROVE legs'[i] = IF i < k THEN legs[i] ELSE legs[i + 1]
    <3>1. CASE i < k
      <4>1. i \in 1..Len(low) BY <1>4, <2>2, <3>1
      <4> QED BY <2>1, <2>2, <2>3, <3>1, <4>1
    <3>2. CASE ~(i < k)
      <4>1. i - (k - 1) \in 1..(n - k) /\ k + (i - (k - 1)) = i + 1 BY <1>2, <1>4, <3>2
      <4>2. legs'[i] = high[i - (k - 1)]
        BY <1>2, <1>4, <2>1, <2>2, <2>3, <3>2, <4>1
      <4> QED BY <2>3, <3>2, <4>1, <4>2
    <3> QED BY <3>1, <3>2
  <2> QED BY <2>4, <2>5
<1>7. \A i, j \in 1..n : i < j => legs[i] < legs[j]
  BY <1>1, <1>2 DEF Lists
<1>8. \A i \in 1..n : legs[i] \in Nat /\ (i # k => legs[i] # legs[k])
  <2> TAKE i \in 1..n
  <2>1. legs[i] \in rows /\ legs[k] \in rows /\ rows \subseteq Nat BY <1>1, <1>2, <1>4
  <2>2. i < k \/ i = k \/ k < i BY <1>4
  <2>3. i < k => legs[i] < legs[k] BY <1>4, <1>7
  <2>4. k < i => legs[k] < legs[i] BY <1>4, <1>7
  <2>5. \A x, y \in Nat : x < y => x # y OBVIOUS
  <2> QED BY <2>1, <2>2, <2>3, <2>4, <2>5
<1>9. \A i \in 1..(n - 1) : legs'[i] \in rows'
  <2> TAKE i \in 1..(n - 1)
  <2>1. i \in 1..n /\ i + 1 \in 1..n BY <1>2
  <2>2. CASE i < k BY <1>2, <1>6, <1>8, <2>1, <2>2
  <2>3. CASE ~(i < k)
    <3>1. i + 1 # k /\ legs'[i] = legs[i + 1] BY <1>4, <1>6, <2>1, <2>3
    <3> QED BY <1>2, <1>8, <2>1, <3>1
  <2> QED BY <2>2, <2>3
<1>10. DOMAIN legs' = 1..(n - 1) /\ legs' \in [1..(n - 1) -> rows']
  BY <1>2, <1>6, <1>9
<1>11. \A r \in rows' : \E i \in 1..(n - 1) : legs'[i] = r
  <2> TAKE r \in rows'
  <2>1. PICK i \in 1..n : legs[i] = r BY <1>1, <1>2 DEF Lists
  <2>2. i # k BY <2>1
  <2>3. CASE i < k
    <3>1. i \in 1..(n - 1) BY <1>2, <1>4, <2>3
    <3> QED BY <1>6, <2>1, <2>3, <3>1
  <2>4. CASE k < i
    <3>1. i - 1 \in 1..(n - 1) /\ ~(i - 1 < k) /\ (i - 1) + 1 = i BY <1>2, <1>4, <2>4
    <3> QED BY <1>6, <2>1, <3>1
  <2> QED BY <1>4, <2>2, <2>3, <2>4
<1>12. \A i, j \in 1..(n - 1) : i < j => legs'[i] < legs'[j]
  <2> SUFFICES ASSUME NEW i \in 1..(n - 1), NEW j \in 1..(n - 1), i < j PROVE legs'[i] < legs'[j]
    OBVIOUS
  <2>1. {i, i + 1, j, j + 1} \subseteq 1..n /\ i < j + 1 /\ i + 1 < j + 1 BY <1>2
  <2>2. legs[i] < legs[j] /\ legs[i] < legs[j + 1] /\ legs[i + 1] < legs[j + 1]
    BY <1>7, <2>1
  <2>3. ~(i < k) => ~(j < k) BY <1>4
  <2> QED BY <1>6, <2>2, <2>3
<1> QED BY <1>1, <1>5, <1>10, <1>11, <1>12 DEF LegInv, Lists

LEMMA LegStep == LegInv /\ [Next]_vars => LegInv'
<1> SUFFICES ASSUME LegInv, [Next]_vars PROVE LegInv' OBVIOUS
<1>1. CASE faulted' BY <1>1 DEF LegInv
<1>2. CASE AddPosition /\ ~faulted'
  <2>1. UNCHANGED faulted /\ lastId' = lastId + 1 /\ legs' = Append(legs, lastId + 1)
        /\ rows' = rows \cup {lastId + 1}
    BY <1>2 DEF AddPosition, DrainFails
  <2> QED BY <1>2, <2>1, LegAdded
<1>3. ASSUME NEW id, DeletePosition(id), ~faulted' PROVE LegInv'
  <2>1. UNCHANGED <<faulted, lastId>> /\ rows' = rows \ {id}
    BY <1>3 DEF DeletePosition, DrainFails
  <2>2. PICK k \in 1..Len(legs) : legs[k] = id /\ legs' = RemoveAt(legs, k)
    BY <1>3 DEF DeletePosition, Cut
  <2> QED BY <1>3, <2>1, <2>2, LegCut
<1>4. CASE (Restart \/ Crash) /\ ~faulted'
  <2>1. UNCHANGED <<rows, lastId, faulted>> /\ legs' = ById(rows)
    BY <1>4 DEF Restart, Crash, Boot
  <2>2. rows \in SUBSET Nat /\ IsFiniteSet(rows) /\ Lists(legs, rows) BY <1>4, <2>1 DEF LegInv
  <2>3. legs' = legs BY <2>1, <2>2, ByIdIs
  <2> QED BY <2>1, <2>3, LegsStay
<1>5. CASE Flush /\ ~faulted'
  BY <1>5, LegsStay DEF Flush, DrainFails, memVars
<1>6. CASE \/ Recompute \/ BenchSpot \/ BenchWalk \/ MinutePasses \/ UNCHANGED vars
           \/ \E p \in Pairs : SetHedgePair(p)
           \/ \E t \in Tickers, h \in Histories : LoadCloses(t, h)
           \/ \E t \in Defaults \cup Customs :
                \E w \in [Defaults \cup {t} -> Ages] : BookMoves(w)
  <2>1. UNCHANGED <<legs, rows, lastId, faulted>>
    BY <1>6 DEF Recompute, BenchSpot, BenchWalk, MinutePasses, vars, SetHedgePair, LoadCloses,
       BookMoves, memVars, dbVars
  <2> QED BY <2>1, LegsStay
<1> QED BY <1>1, <1>2, <1>3, <1>4, <1>5, <1>6 DEF Next

LEMMA PairStep == PairInv /\ [Next]_vars => PairInv'
<1> SUFFICES ASSUME PairInv, [Next]_vars PROVE PairInv' OBVIOUS
<1>1. CASE faulted' BY <1>1 DEF PairInv
<1>2. ASSUME NEW p \in Pairs, SetHedgePair(p) PROVE PairInv'
  BY <1>2, HedgeAssumption DEF SetHedgePair, PairInv
<1>3. ASSUME Drained, UNCHANGED <<pair, faulted>> PROVE PairInv'
  BY <1>3 DEF Drained, PairInv
<1>4. CASE (AddPosition \/ Flush \/ \E k \in 1..Len(legs) : DeletePosition(legs[k])) /\ ~faulted'
  <2>1. Drained /\ UNCHANGED <<pair, faulted>>
    BY <1>4 DEF AddPosition, Flush, DeletePosition, DrainFails, memVars
  <2> QED BY <1>3, <2>1
<1>5. ASSUME NEW stored, Boot(stored) PROVE PairInv'
  BY <1>5 DEF Boot, PairInv
<1>6. CASE \/ Recompute \/ BenchSpot \/ BenchWalk \/ MinutePasses \/ UNCHANGED vars
           \/ \E t \in Tickers, h \in Histories : LoadCloses(t, h)
           \/ \E t \in Defaults \cup Customs :
                \E w \in [Defaults \cup {t} -> Ages] : BookMoves(w)
  <2>1. UNCHANGED <<pair, queued, storedPair, faulted>>
    BY <1>6 DEF Recompute, BenchSpot, BenchWalk, MinutePasses, vars, LoadCloses,
       BookMoves, memVars, dbVars
  <2> QED BY <2>1 DEF PairInv
<1> QED BY <1>1, <1>2, <1>4, <1>5, <1>6 DEF Next, Restart, Crash

\* While no write was lost, a boot at any moment finds the legs the panel holds, in
\* its order, and after a Close its pair (hedge.go:146-189, store/hedge.go:36, 56),
\* through any number of entries, deletions, flushes, crashes and restarts.
THEOREM ReloadAlwaysCurrent == Spec => []ReloadIsCurrent
<1>1. Init => LegInv /\ PairInv
  <2> SUFFICES ASSUME Init PROVE LegInv /\ PairInv OBVIOUS
  <2>1. legs = <<>> /\ rows = {} /\ lastId = 0 BY DEF Init
  <2>2. IsFiniteSet(rows) /\ Cardinality(rows) = 0 BY <2>1, FS_EmptySet
  <2>3. legs \in [1..0 -> rows] /\ DOMAIN legs = {} BY <2>1
  <2> QED BY <2>1, <2>2, <2>3 DEF LegInv, Lists, PairInv, Init
<1>2. LegInv /\ PairInv => ReloadIsCurrent
  <2> SUFFICES ASSUME LegInv, PairInv, ~faulted
               PROVE  legs = ById(rows) /\ pair = IF queued = None THEN storedPair ELSE queued
    BY DEF ReloadIsCurrent
  <2>1. rows \in SUBSET Nat /\ IsFiniteSet(rows) /\ Lists(legs, rows) BY DEF LegInv
  <2> QED BY <2>1, ByIdIs DEF PairInv
<1> QED BY <1>1, <1>2, LegStep, PairStep, PTL DEF Spec
=============================================================================
