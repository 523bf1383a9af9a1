-------------------------- MODULE AppService_proofs --------------------------
(***************************************************************************)
(* The watchlist, the engine loops and the saved state of the application  *)
(* service, for any number of operators, tickers, simulators and requests. *)
(***************************************************************************)
EXTENDS AppService, FiniteSetTheorems, WellFoundedInduction, TLAPS

-----------------------------------------------------------------------------
(* slices.DeleteFunc.  A recursive function is what its equation says only *)
(* once a function that satisfies the equation is shown to exist; both     *)
(* that and what it computes go by the least position where they fail.     *)

LEMMA Least ==
  ASSUME NEW S, S \subseteq Nat, S # {}
  PROVE  \E m \in S : \A n \in S : m <= n
<1>1. IsWellFoundedOn(OpToRel(<, Nat), Nat) BY NatLessThanWellFounded
<1>2. PICK m \in S : \A n \in S : ~(<<n, m>> \in OpToRel(<, Nat)) BY <1>1, WFMin
<1>3. \A n \in S : n \in Nat /\ m \in Nat /\ ~ (n < m)
  BY <1>2 DEF OpToRel
<1> QED BY <1>3

\* What slices.DeleteFunc leaves after the first n entries.
Kept(n, f) ==
  f = [k \in 0..n |-> IF k = 0 THEN <<>>
                      ELSE IF handles[order[k]].custom THEN f[k - 1]
                      ELSE Append(f[k - 1], order[k])]

LEMMA KeptExists == ASSUME order \in Seq(Tickers) PROVE \E f : Kept(Len(order), f)
<1> DEFINE Bad == {n \in 0..Len(order) : ~\E f : Kept(n, f)}
<1>1. SUFFICES ASSUME Bad # {} PROVE FALSE
  <2>1. Len(order) \in 0..Len(order) OBVIOUS
  <2> QED BY <2>1
<1>2. PICK n \in Bad : \A m \in Bad : n <= m
  <2>1. Bad \subseteq Nat OBVIOUS
  <2> HIDE DEF Bad
  <2> QED BY <2>1, <1>1, Least
<1>3. n # 0
  <2>1. Kept(0, [k \in 0..0 |-> <<>>]) BY DEF Kept
  <2> QED BY <2>1
<1>4. n - 1 \in 0..Len(order) /\ n - 1 \notin Bad
  BY <1>2, <1>3
<1>5. PICK f : Kept(n - 1, f)
  BY <1>4
<1> DEFINE g == [k \in 0..n |->
                   IF k # n THEN f[k]
                   ELSE IF handles[order[n]].custom THEN f[n - 1]
                   ELSE Append(f[n - 1], order[n])]
<1>6. Kept(n, g)
  <2>1. \A k \in 0..(n-1) : f[k] = IF k = 0 THEN <<>>
                      ELSE IF handles[order[k]].custom THEN f[k - 1]
                      ELSE Append(f[k - 1], order[k])
    BY <1>5 DEF Kept
  <2>2. ASSUME NEW k \in 0..n
        PROVE  g[k] = IF k = 0 THEN <<>>
                      ELSE IF handles[order[k]].custom THEN g[k - 1]
                      ELSE Append(g[k - 1], order[k])
    <3>1. CASE k = n
      <4>1. g[n - 1] = f[n - 1] /\ n - 1 \in 0..n BY <1>3, <1>2
      <4> QED BY <3>1, <4>1, <1>3
    <3>2. CASE k # n /\ k # 0
      <4>1. g[k] = f[k] /\ g[k-1] = f[k-1] /\ k \in 0..(n-1) BY <3>2
      <4> QED BY <4>1, <2>1, <3>2
    <3>3. CASE k # n /\ k = 0
      <4>1. g[k] = f[k] /\ k \in 0..(n-1) BY <3>3
      <4> QED BY <4>1, <2>1, <3>3
    <3> QED BY <3>1, <3>2, <3>3
  <2> HIDE DEF g
  <2>3. DOMAIN g = 0..n /\ g = [k \in DOMAIN g |-> g[k]] BY DEF g
  <2> QED BY <2>2, <2>3 DEF Kept
<1> QED BY <1>6


LEMMA OrderFiltered ==
  ASSUME order \in Seq(Tickers)
  PROVE  /\ OrderWithoutCustom \in Seq(Tickers)
         /\ {OrderWithoutCustom[k] : k \in 1..Len(OrderWithoutCustom)}
              = {t \in Listed : ~handles[t].custom}
<1> DEFINE f == CHOOSE f : Kept(Len(order), f)
<1>1. Kept(Len(order), f) BY KeptExists
<1>2. OrderWithoutCustom = f[Len(order)]
  BY DEF OrderWithoutCustom, Kept
<1> HIDE DEF f
<1>a. /\ f[0] = <<>>
      /\ \A k \in 1..Len(order) :
           f[k] = IF handles[order[k]].custom THEN f[k - 1] ELSE Append(f[k - 1], order[k])
  <2>1. /\ 0 \in 0..Len(order)
        /\ \A k \in 1..Len(order) : k \in 0..Len(order) /\ k # 0
    OBVIOUS
  <2> QED BY <1>1, <2>1 DEF Kept
<1> DEFINE Elems(s) == {s[k] : k \in 1..Len(s)}
           Upto(n) == {order[k] : k \in {j \in 1..n : ~handles[order[j]].custom}}
           Good(n) == f[n] \in Seq(Tickers) /\ Elems(f[n]) = Upto(n)
           Bad == {n \in 0..Len(order) : ~Good(n)}
<1>3. Bad = {}
  <2>1. SUFFICES ASSUME Bad # {} PROVE FALSE
    OBVIOUS
  <2>2. PICK n \in Bad : \A m \in Bad : n <= m
    <3>1. Bad \subseteq Nat OBVIOUS
    <3> HIDE DEF Bad
    <3> QED BY <2>1, <3>1, Least
  <2>3. n \in 0..Len(order) /\ ~Good(n)
    OBVIOUS
  <2>4. CASE n = 0
    <3>1. Elems(<<>>) = {} /\ Upto(0) = {} /\ <<>> \in Seq(Tickers)
      OBVIOUS
    <3>2. Good(0) BY <1>a, <3>1
    <3> QED BY <2>3, <2>4, <3>2
  <2>5. CASE n # 0
    <3>1. n - 1 \in 0..Len(order) /\ n \in 1..Len(order) /\ order[n] \in Tickers
      BY <2>3, <2>5
    <3>2. Good(n - 1)
      <4>1. n - 1 < n BY <3>1
      <4> HIDE DEF Good
      <4> QED BY <2>2, <3>1, <4>1
    <3>3. f[n] = IF handles[order[n]].custom THEN f[n - 1] ELSE Append(f[n - 1], order[n])
      BY <1>a, <3>1
    <3>4. Upto(n) = IF handles[order[n]].custom THEN Upto(n - 1)
                    ELSE Upto(n - 1) \cup {order[n]}
      <4>1. 1..n = (1..(n - 1)) \cup {n} BY <3>1
      <4> QED BY <4>1
    <3>5. \A s \in Seq(Tickers), t \in Tickers : Elems(Append(s, t)) = Elems(s) \cup {t}
      <4> TAKE s \in Seq(Tickers), t \in Tickers
      <4>1. Len(Append(s, t)) = Len(s) + 1 /\ Append(s, t)[Len(s) + 1] = t
            /\ \A k \in 1..Len(s) : Append(s, t)[k] = s[k]
        OBVIOUS
      <4>2. Len(s) \in Nat OBVIOUS
      <4>3. 1..(Len(s) + 1) = (1..Len(s)) \cup {Len(s) + 1} BY <4>2
      <4> QED BY <4>1, <4>3
    <3>6. Append(f[n - 1], order[n]) \in Seq(Tickers)
      BY <3>1, <3>2
    <3> HIDE DEF Elems, Upto
    <3>7. Good(n)
      BY <3>1, <3>2, <3>3, <3>4, <3>5, <3>6
    <3> QED BY <2>3, <3>7
  <2> QED BY <2>4, <2>5
<1>4. Good(Len(order))
  <2>1. Len(order) \in 0..Len(order) OBVIOUS
  <2> HIDE DEF Good
  <2> QED BY <1>3, <2>1
<1>5. Upto(Len(order)) = {t \in Listed : ~handles[t].custom}
  BY DEF Listed
<1> QED BY <1>2, <1>4, <1>5

-----------------------------------------------------------------------------
(* Types.                                                                  *)

Shape == [custom : BOOLEAN, book : Nat, snap : Nat, cancel : BOOLEAN, loops : Nat]

\* The watchlist and the handles name the same tickers, and whoever computes does
\* so from a book of one of them.
ListInv ==
  /\ order \in Seq(Tickers) /\ active \in Listed
  /\ handles \in [Listed -> Shape]
  /\ \A t, u \in Listed : handles[t].custom /\ handles[u].custom => t = u
  /\ DOMAIN computing \subseteq Listed
  /\ \A t \in DOMAIN computing : computing[t] \in Nat \ {0}

\* A step that leaves the watchlist alone ...
SameList ==
  /\ UNCHANGED <<order, active>> /\ handles' \in [Listed -> Shape]
  /\ \A t \in Listed : handles'[t].custom = handles[t].custom

\* ... and the engine loops too: it changes books and snapshots.
BooksMove ==
  /\ SameList
  /\ \A t \in Listed : /\ handles'[t].cancel = handles[t].cancel
                       /\ handles'[t].loops = handles[t].loops

LEMMA ListedTickers == ASSUME order \in Seq(Tickers) PROVE Listed \subseteq Tickers
BY DEF Listed

LEMMA BookSet ==
  ASSUME ListInv, NEW t \in Listed, NEW v \in Nat, UNCHANGED <<order, active>>,
         handles' = [handles EXCEPT ![t].book = v]
  PROVE  BooksMove
BY DEF ListInv, BooksMove, SameList, Shape

LEMMA SnapSet ==
  ASSUME ListInv, NEW t \in Listed, NEW v \in Nat, UNCHANGED <<order, active>>,
         handles' = [handles EXCEPT ![t].snap = v]
  PROVE  BooksMove
BY DEF ListInv, BooksMove, SameList, Shape

LEMMA VersionsNat == \A v \in Nat : Versions(v) \subseteq Nat
BY DEF Versions

\* The freeze, also with engine loops that store late.
LEMMA RecomputedFacts ==
  ASSUME ListInv, NEW late \in SUBSET DOMAIN computing
  PROVE  /\ Recomputed(late) \in [Listed -> Shape]
         /\ \A t \in Listed :
              LET r == Recomputed(late)[t] IN
              /\ r.custom = handles[t].custom /\ r.cancel = handles[t].cancel
              /\ r.loops = handles[t].loops /\ r.book = handles[t].book
              /\ r.book > 0 => r.snap > 0
<1>1. DOMAIN handles = Listed /\ \A t \in late : computing[t] \in Nat \ {0}
  BY DEF ListInv
<1>2. ASSUME NEW t \in Listed
      PROVE  /\ Recomputed(late)[t] =
                  [handles[t] EXCEPT !.snap = IF t \in late THEN computing[t]
                     ELSE IF t \in Listed /\ handles[t].book > 0 THEN handles[t].book ELSE @]
             /\ handles[t] \in Shape
  BY <1>1 DEF Recomputed, ListInv
<1>3. ASSUME NEW t \in Listed PROVE Recomputed(late)[t] \in Shape
  <2> DEFINE n == IF t \in late THEN computing[t]
                  ELSE IF t \in Listed /\ handles[t].book > 0 THEN handles[t].book
                  ELSE handles[t].snap
  <2>1. handles[t] \in Shape /\ Recomputed(late)[t] = [handles[t] EXCEPT !.snap = n]
    BY <1>2
  <2>2. n \in Nat BY <1>1, <2>1 DEF Shape
  <2> HIDE DEF n
  <2> QED BY <2>1, <2>2 DEF Shape
<1>4. Recomputed(late) = [t \in Listed |-> Recomputed(late)[t]]
  BY <1>1 DEF Recomputed
<1>5. Recomputed(late) \in [Listed -> Shape]
  BY <1>3, <1>4
<1> QED BY <1>1, <1>2, <1>5 DEF Shape

LEMMA FreezeMoves ==
  ASSUME ListInv, FreezeBooks, UNCHANGED <<order, active>>
  PROVE  BooksMove /\ \A t \in Listed : /\ handles'[t].book = handles[t].book
                                        /\ handles'[t].book > 0 => handles'[t].snap > 0
BY RecomputedFacts DEF FreezeBooks, BooksMove, SameList

\* startEngineLocked, on a handle that may run already.
LEMMA StartedFacts ==
  ASSUME NEW h \in Shape
  PROVE  /\ Started(h) \in Shape
         /\ Started(h).custom = h.custom /\ Started(h).book = h.book
         /\ Started(h).cancel
         /\ Started(h).loops = IF h.cancel THEN h.loops ELSE h.loops + 1
<1> DEFINE n == h.loops + 1
           g == [h EXCEPT !.cancel = TRUE, !.loops = n]
<1>1. n \in Nat /\ h.cancel \in BOOLEAN BY DEF Shape
<1>2. Started(h) = IF h.cancel THEN h ELSE g BY DEF Started
<1> HIDE DEF n
<1>3. /\ g \in Shape /\ g.custom = h.custom /\ g.book = h.book
      /\ g.cancel = TRUE /\ g.loops = n
  BY <1>1 DEF Shape
<1> HIDE DEF g
<1>4. CASE h.cancel BY <1>2, <1>4
<1>5. CASE ~h.cancel BY <1>2, <1>3, <1>5 DEF n
<1> QED BY <1>4, <1>5

\* addHandle and startEngineLocked: the handle of a ticker that joins the list.
LEMMA FreshHandle ==
  ASSUME NEW v \in Nat
  PROVE  LET h == StartedIfRunning(NewHandle(TRUE, v)) IN
         /\ h \in Shape /\ h.custom /\ h.book = v
         /\ run # "off" => h.cancel /\ h.loops = 1
         /\ run = "off" => ~h.cancel /\ h.loops = 0
<1> DEFINE n == NewHandle(TRUE, v)
<1>1. n \in Shape /\ n.custom = TRUE /\ n.book = v /\ n.loops = 0 /\ n.cancel = FALSE
  BY DEF NewHandle, Shape
<1> HIDE DEF n
<1>2. Started(n) \in Shape /\ Started(n).custom /\ Started(n).book = v
      /\ Started(n).cancel /\ Started(n).loops = 1
  BY <1>1, StartedFacts
<1>3. StartedIfRunning(n) = IF run # "off" THEN Started(n) ELSE n BY DEF StartedIfRunning
<1>4. CASE run # "off" BY <1>2, <1>3, <1>4 DEF n
<1>5. CASE run = "off" BY <1>1, <1>3, <1>5 DEF n
<1> QED BY <1>4, <1>5

\* SetCustomTicker's and PromoteChain's new watchlist.
LEMMA CustomListed ==
  ASSUME ListInv, NEW t \in Tickers, SetCustomTicker(t)
  PROVE  /\ order' \in Seq(Tickers)
         /\ Listed' = {u \in Listed : ~handles[u].custom} \cup {t}
         /\ handles' \in [Listed' -> Shape]
         /\ handles'[t] = StartedIfRunning(NewHandle(TRUE, 1))
         /\ \A u \in Listed' \ {t} : u \in Listed /\ handles'[u] = handles[u]
<1> DEFINE rest == OrderWithoutCustom
<1>1. /\ rest \in Seq(Tickers)
      /\ {rest[k] : k \in 1..Len(rest)} = {u \in Listed : ~handles[u].custom}
  BY OrderFiltered DEF ListInv
<1>2. order' = Append(rest, t) BY DEF SetCustomTicker
<1> HIDE DEF rest
<1>3. /\ order' \in Seq(Tickers) /\ Len(order') = Len(rest) + 1 /\ order'[Len(rest) + 1] = t
      /\ Len(rest) \in Nat /\ \A k \in 1..Len(rest) : order'[k] = rest[k]
  BY <1>1, <1>2
<1>4. 1..(Len(rest) + 1) = (1..Len(rest)) \cup {Len(rest) + 1} BY <1>3
<1>5. Listed' = {u \in Listed : ~handles[u].custom} \cup {t}
  <2>1. Listed' = {order'[k] : k \in 1..(Len(rest) + 1)} BY <1>3 DEF Listed
  <2>2. {order'[k] : k \in 1..(Len(rest) + 1)} = {rest[k] : k \in 1..Len(rest)} \cup {t}
    BY <1>3, <1>4
  <2> QED BY <1>1, <2>1, <2>2
<1> DEFINE dom == (DOMAIN handles \ (OldCustoms \ {t})) \cup {t}
<1>6. DOMAIN handles = Listed /\ \A u \in Listed : handles[u].custom \in BOOLEAN /\ handles[u] \in Shape
  BY DEF ListInv, Shape
<1>7. dom = Listed'
  BY <1>5, <1>6 DEF OldCustoms
<1>8. handles' = [u \in dom |-> IF u = t THEN StartedIfRunning(NewHandle(TRUE, 1)) ELSE handles[u]]
  BY DEF SetCustomTicker
<1>9. StartedIfRunning(NewHandle(TRUE, 1)) \in Shape
  BY FreshHandle
<1> HIDE DEF dom
<1>10. \A u \in Listed' \ {t} : u \in Listed /\ handles'[u] = handles[u]
  BY <1>5, <1>7, <1>8
<1>11. handles'[t] = StartedIfRunning(NewHandle(TRUE, 1))
  BY <1>5, <1>7, <1>8
<1>12. handles' \in [Listed' -> Shape]
  BY <1>6, <1>7, <1>8, <1>9, <1>10
<1> QED BY <1>3, <1>5, <1>10, <1>11, <1>12

LEMMA PromotedListed ==
  ASSUME ListInv, NEW t \in Tickers, PromoteChain(t)
  PROVE  /\ order' \in Seq(Tickers) /\ Listed' = Listed \cup {t} /\ t \notin Listed
         /\ handles' \in [Listed' -> Shape]
         /\ \E v \in {0, 1} : handles'[t] = StartedIfRunning(NewHandle(TRUE, v))
         /\ \A u \in Listed : ~handles[u].custom /\ handles'[u] = handles[u]
<1>1. order' = Append(order, t) /\ order \in Seq(Tickers) BY DEF PromoteChain, ListInv
<1>3. /\ order' \in Seq(Tickers) /\ Len(order') = Len(order) + 1 /\ order'[Len(order) + 1] = t
      /\ Len(order) \in Nat /\ \A k \in 1..Len(order) : order'[k] = order[k]
  BY <1>1
<1>4. 1..(Len(order) + 1) = (1..Len(order)) \cup {Len(order) + 1} BY <1>3
<1>5. Listed' = Listed \cup {t}
  BY <1>3, <1>4 DEF Listed
<1>6. DOMAIN handles = Listed /\ \A u \in Listed : handles[u] \in Shape /\ handles[u].custom \in BOOLEAN
  BY DEF ListInv, Shape
<1>7. PICK v \in {0, 1} :
        handles' = [u \in Listed \cup {t} |->
                      IF u = t THEN StartedIfRunning(NewHandle(TRUE, v)) ELSE handles[u]]
  BY <1>6 DEF PromoteChain
<1>8. StartedIfRunning(NewHandle(TRUE, v)) \in Shape
  BY FreshHandle
<1>9. t \notin Listed /\ \A u \in Listed : ~handles[u].custom
  BY <1>6 DEF PromoteChain, SlotFree, OldCustoms
<1> QED BY <1>3, <1>5, <1>6, <1>7, <1>8, <1>9

-----------------------------------------------------------------------------
(* The watchlist.                                                          *)

\* No recompute starts.
ComputingShrinks ==
  /\ DOMAIN computing' \subseteq DOMAIN computing
  /\ \A t \in DOMAIN computing' : computing'[t] = computing[t]

LEMMA ForgetShrinks == ASSUME NEW gone, computing' = Forget(gone) PROVE ComputingShrinks
BY DEF Forget, ComputingShrinks

LEMMA FinalSaveFacts ==
  ASSUME ListInv, FinalSave, UNCHANGED <<order, active>>
  PROVE  /\ SameList /\ ComputingShrinks
         /\ \A t \in Listed : handles'[t].cancel = handles[t].cancel /\ handles'[t].loops = 0
<1>1. PICK late \in SUBSET DOMAIN computing :
        /\ handles' = [t \in DOMAIN handles |->
                        [Recomputed(late)[t] EXCEPT !.loops = IF t \in Listed THEN 0 ELSE @]]
        /\ computing' = Forget(late)
  BY DEF FinalSave
<1>2. DOMAIN handles = Listed BY DEF ListInv
<1>3. ASSUME NEW t \in Listed
      PROVE  /\ handles'[t] \in Shape /\ handles'[t].custom = handles[t].custom
             /\ handles'[t].cancel = handles[t].cancel /\ handles'[t].loops = 0
  <2> DEFINE r == Recomputed(late)[t]
  <2>1. r \in Shape /\ r.custom = handles[t].custom /\ r.cancel = handles[t].cancel
    BY RecomputedFacts
  <2>2. handles'[t] = [r EXCEPT !.loops = 0]
    BY <1>1, <1>2
  <2> HIDE DEF r
  <2> QED BY <2>1, <2>2 DEF Shape
<1>4. handles' = [t \in Listed |-> handles'[t]]
  BY <1>1, <1>2
<1>5. handles' \in [Listed -> Shape] BY <1>3, <1>4
<1>6. ComputingShrinks BY <1>1, ForgetShrinks
<1> QED BY <1>3, <1>5, <1>6 DEF SameList

LEMMA SameListKeeps == ASSUME ListInv, SameList, ComputingShrinks PROVE ListInv'
<1>1. Listed' = Listed BY DEF SameList, Listed
<1> QED BY <1>1 DEF ListInv, SameList, ComputingShrinks

LEMMA BookSteps ==
  ASSUME ListInv, NEW t \in Tickers, ApplyChain(t) \/ ApplySpot(t)
  PROVE  BooksMove /\ ComputingShrinks
<1>1. t \in Listed /\ handles[t].book \in Nat BY DEF ListInv, ApplyChain, ApplySpot, Shape
<1>2. PICK v \in Versions(handles[t].book) : handles' = [handles EXCEPT ![t].book = v]
  BY DEF ApplyChain, ApplySpot
<1>3. v \in Nat BY <1>1, VersionsNat
<1>4. UNCHANGED <<order, active, computing>> BY DEF ApplyChain, ApplySpot
<1> QED BY <1>1, <1>2, <1>3, <1>4, BookSet DEF ComputingShrinks

LEMMA StoreStep ==
  ASSUME ListInv, NEW t \in Tickers, EngineStores(t)
  PROVE  BooksMove /\ ComputingShrinks
<1>1. t \in Listed /\ computing[t] \in Nat BY DEF ListInv, EngineStores
<1>2. handles' = [handles EXCEPT ![t].snap = computing[t]] /\ UNCHANGED <<order, active>>
  BY DEF EngineStores
<1>3. BooksMove BY <1>1, <1>2, SnapSet
<1> QED BY <1>3 DEF EngineStores, ComputingShrinks

LEMMA SimStep ==
  ASSUME ListInv, NEW s \in 1..MaxSims, SimApplies(s)
  PROVE  BooksMove /\ ComputingShrinks
<1>1. PICK books \in [DOMAIN handles -> 0..MaxVersion] :
        handles' = [t \in DOMAIN handles |-> [handles[t] EXCEPT !.book = books[t]]]
  BY DEF SimApplies
<1>2. DOMAIN handles = Listed /\ UNCHANGED <<order, active, computing>>
  BY DEF ListInv, SimApplies
<1>3. ASSUME NEW t \in Listed
      PROVE  /\ handles'[t] \in Shape /\ handles'[t].custom = handles[t].custom
             /\ handles'[t].cancel = handles[t].cancel /\ handles'[t].loops = handles[t].loops
  <2>1. handles[t] \in Shape /\ books[t] \in Nat /\ handles'[t] = [handles[t] EXCEPT !.book = books[t]]
    BY <1>1, <1>2 DEF ListInv
  <2> QED BY <2>1 DEF Shape
<1>4. handles' = [t \in Listed |-> handles'[t]] BY <1>1, <1>2
<1>5. handles' \in [Listed -> Shape] BY <1>3, <1>4
<1> QED BY <1>2, <1>3, <1>5 DEF BooksMove, SameList, ComputingShrinks

LEMMA StartStep ==
  ASSUME ListInv, NEW t \in Tickers, StartEngine(t)
  PROVE  /\ SameList /\ ComputingShrinks
         /\ \A u \in Listed \ {t} : handles'[u] = handles[u]
         /\ t \in Listed => handles'[t] = Started(handles[t])
<1>1. DOMAIN handles = Listed /\ UNCHANGED <<order, active, computing>>
  BY DEF ListInv, StartEngine
<1>2. CASE t \in Listed
  <2>1. handles[t] \in Shape BY <1>2 DEF ListInv
  <2>2. Started(handles[t]) \in Shape /\ Started(handles[t]).custom = handles[t].custom
    BY <2>1, StartedFacts
  <2>3. handles' = [handles EXCEPT ![t] = Started(handles[t])] BY <1>1, <1>2 DEF StartEngine
  <2> QED BY <1>1, <1>2, <2>2, <2>3 DEF ListInv, SameList, ComputingShrinks
<1>3. CASE t \notin Listed
  <2>1. handles' = handles BY <1>1, <1>3 DEF StartEngine
  <2> QED BY <1>1, <1>3, <2>1 DEF ListInv, SameList, ComputingShrinks
<1> QED BY <1>2, <1>3

LEMMA FreezeStep ==
  ASSUME ListInv, FreezeBooks, UNCHANGED <<order, active>>
  PROVE  BooksMove /\ ComputingShrinks
BY FreezeMoves, ForgetShrinks DEF FreezeBooks

\* A step on neither the watchlist, nor the handles, nor the recomputes.
LEMMA ListStutters ==
  ASSUME ListInv, UNCHANGED <<order, active, handles, computing>>
  PROVE  BooksMove /\ ComputingShrinks
BY DEF ListInv, BooksMove, SameList, ComputingShrinks

LEMMA ListInit == Init => ListInv
<1> SUFFICES ASSUME Init PROVE ListInv OBVIOUS
<1>1. PICK n \in Nat : n = Cardinality(Defaults) /\ n # 0
  <2>1. Cardinality(Defaults) \in Nat BY AppAssumption, FS_CardinalityType
  <2>2. Cardinality(Defaults) # 0 BY AppAssumption, FS_EmptySet
  <2> QED BY <2>1, <2>2
<1>2. order \in [1..n -> Defaults] /\ Listed = Defaults /\ active = order[1]
  BY <1>1 DEF Init
<1>3. order \in Seq(Tickers) /\ Len(order) = n /\ 1 \in 1..n
  BY <1>1, <1>2 DEF Tickers
<1>4. active \in Listed BY <1>2, <1>3
<1>5. PICK books \in [Defaults -> {0, 1}] : handles = [t \in Defaults |-> NewHandle(FALSE, books[t])]
  BY DEF Init
<1>6. ASSUME NEW t \in Defaults
      PROVE  /\ handles[t] \in Shape /\ handles[t].custom = FALSE /\ handles[t].loops = 0
             /\ handles[t].cancel = FALSE
  <2>1. books[t] \in Nat /\ handles[t] = NewHandle(FALSE, books[t]) BY <1>5
  <2>2. \A w \in Nat : LET h == NewHandle(FALSE, w) IN
          h \in Shape /\ h.custom = FALSE /\ h.loops = 0 /\ h.cancel = FALSE
    BY DEF NewHandle, Shape
  <2> QED BY <2>1, <2>2
<1>7. handles \in [Defaults -> Shape] BY <1>5, <1>6
<1>8. computing = Nothing /\ DOMAIN Nothing = {} BY DEF Init, Nothing
<1> QED BY <1>2, <1>3, <1>4, <1>6, <1>7, <1>8 DEF ListInv

LEMMA ListStep == ListInv /\ [Next]_vars => ListInv'
<1> SUFFICES ASSUME ListInv, [Next]_vars PROVE ListInv' OBVIOUS
<1> USE SameListKeeps
<1>1. ASSUME NEW t \in Tickers, SetActiveTicker(t) PROVE ListInv'
  BY <1>1 DEF SetActiveTicker, ListInv, Listed
<1>2. ASSUME NEW t \in Tickers, SetCustomTicker(t) PROVE ListInv'
  <2>1. active' = t /\ computing' = Forget((OldCustoms \ {t}) \cup {t})
    BY <1>2 DEF SetCustomTicker
  <2>2. \A u, w \in Listed' : handles'[u].custom /\ handles'[w].custom => u = w
    BY <1>2, CustomListed
  <2>3. DOMAIN computing' \subseteq Listed' /\ \A u \in DOMAIN computing' : computing'[u] \in Nat \ {0}
    BY <1>2, <2>1, CustomListed DEF ListInv, Forget, OldCustoms
  <2>4. order' \in Seq(Tickers) /\ handles' \in [Listed' -> Shape] /\ active' \in Listed'
    BY <1>2, <2>1, CustomListed
  <2> QED BY <2>2, <2>3, <2>4 DEF ListInv
<1>3. ASSUME NEW t \in Tickers, ApplyChain(t) \/ ApplySpot(t) PROVE ListInv'
  BY <1>3, BookSteps DEF BooksMove
<1>4. ASSUME NEW t \in Tickers, PromoteChain(t) PROVE ListInv'
  <2>1. UNCHANGED <<active, computing>> BY <1>4 DEF PromoteChain
  <2>2. \A u, w \in Listed' : handles'[u].custom /\ handles'[w].custom => u = w
    BY <1>4, PromotedListed
  <2> QED BY <1>4, <2>1, <2>2, PromotedListed DEF ListInv
<1>5. CASE RunService \/ EnginesStarted \/ Checkpoint
  <2>1. UNCHANGED <<order, active, handles, computing>>
    BY <1>5 DEF RunService, EnginesStarted, Checkpoint, watchVars
  <2> QED BY <2>1, ListStutters DEF BooksMove
<1>6. ASSUME NEW t \in Tickers, StartEngine(t) PROVE ListInv'
  BY <1>6, StartStep
<1>7. ASSUME NEW t \in Tickers, EngineReads(t) PROVE ListInv'
  <2>1. /\ UNCHANGED <<order, active, handles>> /\ t \in Listed
        /\ handles[t].book \in Nat \ {0}
        /\ computing' = [u \in DOMAIN computing \cup {t} |->
                           IF u = t THEN handles[t].book ELSE computing[u]]
    BY <1>7 DEF EngineReads, watchVars, ListInv, Shape
  <2>2. Listed' = Listed BY <2>1 DEF Listed
  <2>3. DOMAIN computing' \subseteq Listed /\ \A u \in DOMAIN computing' : computing'[u] \in Nat \ {0}
    BY <2>1 DEF ListInv
  <2> QED BY <2>1, <2>2, <2>3 DEF ListInv
<1>8. ASSUME NEW t \in Tickers, EngineStores(t) PROVE ListInv'
  BY <1>8, StoreStep DEF BooksMove
<1>9. ASSUME NEW o \in Operators, NEW ids \in StreamIds,
             Connect(o, ids) \/ DropOne(o, ids) \/ DropLast(o, ids)
      PROVE  ListInv'
  <2>1. UNCHANGED <<order, active, handles, computing>>
    BY <1>9 DEF Connect, DropOne, DropLast, watchVars
  <2> QED BY <2>1, ListStutters DEF BooksMove
<1>10. ASSUME NEW o \in Operators, NEW ids \in StreamIds, DropLastNoSim(o, ids) PROVE ListInv'
  BY <1>10, FreezeStep DEF BooksMove, DropLastNoSim
<1>11. ASSUME NEW o \in Operators, Freeze(o) PROVE ListInv'
  BY <1>11, FreezeStep DEF BooksMove, Freeze
<1>12. ASSUME NEW o \in Callers, WaitReturns(o) PROVE ListInv'
  <2>1. UNCHANGED <<order, active, handles, computing>>
    BY <1>12 DEF WaitReturns, watchVars
  <2> QED BY <2>1, ListStutters DEF BooksMove
<1>13. CASE BeginClose
  <2>1. UNCHANGED <<order, active, handles, computing>>
    BY <1>13 DEF BeginClose, watchVars
  <2> QED BY <2>1, ListStutters DEF BooksMove
<1>14. CASE CloseNoSim \/ EndClose
  BY <1>14, FinalSaveFacts DEF CloseNoSim, EndClose
<1>15. ASSUME NEW s \in 1..MaxSims, SimStops(s) \/ SimReads(s) \/ SimCanceled(s) PROVE ListInv'
  <2>1. UNCHANGED <<order, active, handles, computing>>
    BY <1>15 DEF SimStops, SimReads, SimCanceled, watchVars
  <2> QED BY <2>1, ListStutters DEF BooksMove
<1>16. ASSUME NEW s \in 1..MaxSims, SimApplies(s) PROVE ListInv'
  BY <1>16, SimStep DEF BooksMove
<1>17. CASE UNCHANGED vars
  <2>1. UNCHANGED <<order, active, handles, computing>>
    BY <1>17 DEF vars, watchVars
  <2> QED BY <2>1, ListStutters DEF BooksMove
<1> QED BY <1>1, <1>2, <1>3, <1>4, <1>5, <1>6, <1>7, <1>8, <1>9, <1>10, <1>11, <1>12,
           <1>13, <1>14, <1>15, <1>16, <1>17
        DEF Next, Watchlist, EngineLoops, StreamSwitch, Simulate

\* The index, the map and the free slot agree after every interleaving of edits,
\* promotions and engine steps (app.go:338-420), for any watchlist.
THEOREM WatchlistAlwaysSound == Spec => []WatchlistSound
<1>1. ListInv => WatchlistSound
  <2> SUFFICES ASSUME ListInv PROVE WatchlistSound OBVIOUS
  <2> DEFINE C == {t \in DOMAIN handles : handles[t].custom}
  <2>1. DOMAIN handles = Listed /\ active \in Listed BY DEF ListInv
  <2>2. Cardinality(C) <= 1
    <3>1. CASE C = {} BY <3>1, FS_EmptySet
    <3>2. CASE C # {}
      <4>1. PICK t \in C : TRUE BY <3>2
      <4>2. C = {t} BY <2>1, <4>1 DEF ListInv
      <4>3. Cardinality({t}) = 1 BY FS_Singleton
      <4> QED BY <4>2, <4>3
    <3> QED BY <3>1, <3>2
  <2> QED BY <2>1, <2>2 DEF WatchlistSound
<1> QED BY <1>1, ListInit, ListStep, PTL DEF Spec

-----------------------------------------------------------------------------
(* The callers of SetStream and Close.                                     *)

PcTypes == {"idle", "wait", "woken", "relock", "done"}

\* Whoever is in Close has set closed before.
CallInv ==
  /\ pc \in [Callers -> PcTypes] /\ closed \in BOOLEAN
  /\ pc[Closer] # "idle" => closed

LEMMA CallInit == Init => CallInv
BY DEF Init, CallInv, PcTypes, Callers, Closer

LEMMA OperatorsCall ==
  Closer \in Callers /\ \A o \in Operators : o \in Callers /\ o # Closer
BY AppAssumption DEF Callers, Closer

LEMMA CallStep == CallInv /\ [Next]_vars => CallInv'
<1> SUFFICES ASSUME CallInv, [Next]_vars PROVE CallInv' OBVIOUS
<1> USE OperatorsCall
<1>1. CASE UNCHANGED <<pc, closed>> BY <1>1 DEF CallInv
<1>2. ASSUME NEW o \in Operators, NEW ids \in StreamIds, DropLast(o, ids) PROVE CallInv'
  BY <1>2 DEF DropLast, StopSim, CallInv, PcTypes
<1>3. ASSUME NEW o \in Operators, Freeze(o) PROVE CallInv'
  BY <1>3 DEF Freeze, CallInv, PcTypes
<1>4. ASSUME NEW o \in Callers, WaitReturns(o) PROVE CallInv'
  BY <1>4 DEF WaitReturns, CallInv, PcTypes
<1>5. CASE BeginClose
  BY <1>5 DEF BeginClose, StopSim, CallInv, PcTypes
<1>6. CASE CloseNoSim
  BY <1>6 DEF CloseNoSim, CallInv, PcTypes
<1>7. CASE EndClose
  BY <1>7 DEF EndClose, CallInv, PcTypes
<1>8. ASSUME NEW s \in 1..MaxSims, SimStops(s) \/ SimCanceled(s) PROVE CallInv'
  <2>1. closed' = closed /\ \E told : pc' = [o \in Callers |-> IF pc[o] = "wait" /\ told THEN "woken" ELSE pc[o]]
    BY <1>8 DEF SimStops, SimCanceled, Exit
  <2> QED BY <2>1 DEF CallInv, PcTypes
<1>9. ASSUME NEW s \in 1..MaxSims, SimReads(s) \/ SimApplies(s) PROVE CallInv'
  BY <1>1, <1>9 DEF SimReads, SimApplies
<1>10. CASE Watchlist
  BY <1>1, <1>10 DEF Watchlist, SetActiveTicker, SetCustomTicker, ApplyChain, PromoteChain, ApplySpot
<1>11. CASE EngineLoops
  BY <1>1, <1>11 DEF EngineLoops, RunService, EnginesStarted, Checkpoint, StartEngine,
     EngineReads, EngineStores
<1>12. ASSUME NEW o \in Operators, NEW ids \in StreamIds,
              Connect(o, ids) \/ DropOne(o, ids) \/ DropLastNoSim(o, ids)
       PROVE  CallInv'
  BY <1>1, <1>12 DEF Connect, DropOne, DropLastNoSim
<1>13. CASE UNCHANGED vars BY <1>1, <1>13 DEF vars
<1> QED BY <1>2, <1>3, <1>4, <1>5, <1>6, <1>7, <1>8, <1>9, <1>10, <1>11, <1>12, <1>13
        DEF Next, StreamSwitch, Simulate

-----------------------------------------------------------------------------
(* The engine loops.                                                       *)

\* A handle with a cancel function runs one loop until Close stops it, and Run has
\* given one to every listed ticker it no longer has to start.
LoopInv ==
  /\ run \in {"off", "starting", "on"}
  /\ \A t \in Listed : /\ handles[t].loops \in {0, 1}
                       /\ ~handles[t].cancel => handles[t].loops = 0
                       /\ ~closed /\ handles[t].cancel => handles[t].loops = 1
                       /\ run = "starting" /\ t \notin toStart => handles[t].cancel
                       /\ run = "on" => handles[t].cancel

LEMMA LoopsStay ==
  ASSUME ListInv, LoopInv, BooksMove, UNCHANGED <<run, toStart>>, closed' = closed \/ closed'
  PROVE  LoopInv'
<1>1. Listed' = Listed BY DEF BooksMove, SameList, Listed
<1>2. ~closed' => ~closed BY DEF LoopInv
<1> QED BY <1>1, <1>2 DEF LoopInv, BooksMove

LEMMA LoopInit == Init => LoopInv
<1> SUFFICES ASSUME Init PROVE LoopInv OBVIOUS
<1>1. PICK books \in [Defaults -> {0, 1}] : handles = [t \in Defaults |-> NewHandle(FALSE, books[t])]
  BY DEF Init
<1>2. ASSUME NEW t \in Defaults PROVE handles[t].loops = 0 /\ handles[t].cancel = FALSE
  BY <1>1 DEF NewHandle
<1>3. run = "off" /\ Listed = Defaults BY DEF Init
<1> QED BY <1>2, <1>3 DEF LoopInv

LEMMA LoopStep == ListInv /\ CallInv /\ LoopInv /\ [Next]_vars => LoopInv'
<1> SUFFICES ASSUME ListInv, CallInv, LoopInv, [Next]_vars PROVE LoopInv' OBVIOUS
<1>1. CASE UNCHANGED <<order, active, handles, computing, run, toStart, closed>>
  BY <1>1, ListStutters, LoopsStay
<1>2. ASSUME NEW t \in Tickers, SetActiveTicker(t) PROVE LoopInv'
  BY <1>2 DEF SetActiveTicker, runVars, LoopInv, Listed
<1>3. ASSUME NEW t \in Tickers, SetCustomTicker(t) PROVE LoopInv'
  <2>1. UNCHANGED <<run, toStart, closed>> BY <1>3 DEF SetCustomTicker, runVars
  <2>2. /\ t \in Listed' /\ handles'[t] = StartedIfRunning(NewHandle(TRUE, 1))
        /\ \A u \in Listed' \ {t} : u \in Listed /\ handles'[u] = handles[u]
    BY <1>3, CustomListed
  <2>3. /\ run # "off" => handles'[t].cancel /\ handles'[t].loops = 1
        /\ run = "off" => ~handles'[t].cancel /\ handles'[t].loops = 0
    BY <2>2, FreshHandle, 1 \in Nat, Zenon
  <2> QED BY <2>1, <2>2, <2>3 DEF LoopInv
<1>4. ASSUME NEW t \in Tickers, PromoteChain(t) PROVE LoopInv'
  <2>1. UNCHANGED <<run, toStart, closed>> BY <1>4 DEF PromoteChain, runVars
  <2>2. PICK v \in {0, 1} : handles'[t] = StartedIfRunning(NewHandle(TRUE, v))
    BY <1>4, PromotedListed
  <2>3. \A u \in Listed' \ {t} : u \in Listed /\ handles'[u] = handles[u]
    BY <1>4, PromotedListed
  <2>4. /\ run # "off" => handles'[t].cancel /\ handles'[t].loops = 1
        /\ run = "off" => ~handles'[t].cancel /\ handles'[t].loops = 0
    BY <2>2, FreshHandle, 0 \in Nat, 1 \in Nat, Zenon
  <2> QED BY <2>1, <2>3, <2>4 DEF LoopInv
<1>5. ASSUME NEW t \in Tickers, ApplyChain(t) \/ ApplySpot(t) PROVE LoopInv'
  BY <1>5, BookSteps, LoopsStay DEF ApplyChain, ApplySpot, runVars
<1>6. CASE RunService
  <2>1. UNCHANGED <<order, handles, closed>> /\ run = "off" /\ run' = "starting" /\ toStart' = Listed
    BY <1>6 DEF RunService, watchVars
  <2>2. Listed' = Listed BY <2>1 DEF Listed
  <2> QED BY <2>1, <2>2 DEF LoopInv
<1>7. CASE EnginesStarted
  <2>1. UNCHANGED <<order, handles, closed>> /\ run = "starting" /\ run' = "on" /\ toStart = {}
    BY <1>7 DEF EnginesStarted, watchVars
  <2>2. Listed' = Listed BY <2>1 DEF Listed
  <2> QED BY <2>1, <2>2 DEF LoopInv
<1>8. ASSUME NEW t \in Tickers, StartEngine(t) PROVE LoopInv'
  <2>1. /\ UNCHANGED <<order, closed, run>> /\ run = "starting" /\ toStart' = toStart \ {t}
    BY <1>8 DEF StartEngine
  <2>2. Listed' = Listed BY <2>1 DEF Listed
  <2>3. ASSUME t \in Listed
        PROVE  /\ handles'[t].cancel /\ handles'[t].loops \in {0, 1}
               /\ ~closed => handles'[t].loops = 1
    <3>1. handles'[t] = Started(handles[t]) /\ handles[t] \in Shape
      BY <1>8, <2>3, StartStep DEF ListInv
    <3>2. handles'[t].cancel /\ handles'[t].loops = IF handles[t].cancel THEN handles[t].loops ELSE handles[t].loops + 1
      BY <3>1, StartedFacts
    <3> QED BY <2>3, <3>2 DEF LoopInv
  <2>4. \A u \in Listed \ {t} : handles'[u] = handles[u] BY <1>8, StartStep
  <2> QED BY <2>1, <2>2, <2>3, <2>4 DEF LoopInv
<1>9. ASSUME NEW t \in Tickers, EngineStores(t) PROVE LoopInv'
  BY <1>9, StoreStep, LoopsStay DEF EngineStores, runVars
<1>10. ASSUME NEW t \in Tickers, EngineReads(t) \/ Checkpoint PROVE LoopInv'
  <2>1. UNCHANGED <<order, handles, run, toStart, closed>>
    BY <1>10 DEF EngineReads, Checkpoint, watchVars, runVars
  <2>2. Listed' = Listed BY <2>1 DEF Listed
  <2> QED BY <2>1, <2>2 DEF LoopInv
<1>11. ASSUME NEW o \in Operators, NEW ids \in StreamIds,
              Connect(o, ids) \/ DropOne(o, ids) \/ DropLast(o, ids)
       PROVE  LoopInv'
  BY <1>1, <1>11 DEF Connect, DropOne, DropLast, watchVars, runVars
<1>12. ASSUME NEW o \in Operators, NEW ids \in StreamIds, DropLastNoSim(o, ids) PROVE LoopInv'
  BY <1>12, FreezeStep, LoopsStay DEF DropLastNoSim, runVars
<1>13. ASSUME NEW o \in Operators, Freeze(o) PROVE LoopInv'
  BY <1>13, FreezeStep, LoopsStay DEF Freeze, runVars
<1>14. ASSUME NEW o \in Callers, WaitReturns(o) PROVE LoopInv'
  BY <1>1, <1>14 DEF WaitReturns, watchVars, runVars
<1>15. CASE BeginClose
  <2>1. UNCHANGED <<order, active, handles, computing, run, toStart>> /\ closed'
    BY <1>15 DEF BeginClose, watchVars, runVars
  <2> QED BY <2>1, ListStutters, LoopsStay
<1>16. CASE CloseNoSim \/ EndClose
  <2>1. UNCHANGED <<order, active, run, toStart>> /\ closed' /\ FinalSave
    BY <1>16 DEF CloseNoSim, EndClose, runVars, CallInv
  <2>2. Listed' = Listed BY <2>1 DEF Listed
  <2>3. \A t \in Listed : handles'[t].cancel = handles[t].cancel /\ handles'[t].loops = 0
    BY <2>1, FinalSaveFacts
  <2> QED BY <2>1, <2>2, <2>3 DEF LoopInv
<1>17. ASSUME NEW s \in 1..MaxSims, SimStops(s) \/ SimReads(s) \/ SimCanceled(s) PROVE LoopInv'
  BY <1>1, <1>17 DEF SimStops, SimReads, SimCanceled, watchVars, runVars
<1>18. ASSUME NEW s \in 1..MaxSims, SimApplies(s) PROVE LoopInv'
  BY <1>18, SimStep, LoopsStay DEF SimApplies, runVars
<1>19. CASE UNCHANGED vars BY <1>1, <1>19 DEF vars, watchVars, runVars
<1>20. Listed \subseteq Tickers /\ active \in Tickers BY ListedTickers DEF ListInv
<1> QED BY <1>2, <1>3, <1>4, <1>5, <1>6, <1>7, <1>8, <1>9, <1>10, <1>11, <1>12, <1>13,
           <1>14, <1>15, <1>16, <1>17, <1>18, <1>19, <1>20
        DEF Next, Watchlist, EngineLoops, StreamSwitch, Simulate

\* An orphan comes from a handle that was overwritten, and no handle has two loops
\* to leave behind.
OrphanInv ==
  /\ orphans \in [Tickers -> Nat] /\ replaced \in [Tickers -> Nat]
  /\ \A t \in Tickers : orphans[t] <= replaced[t]

LEMMA OrphanInit == Init => OrphanInv
BY DEF Init, OrphanInv

LEMMA OrphanStep == ListInv /\ LoopInv /\ OrphanInv /\ [Next]_vars => OrphanInv'
<1> SUFFICES ASSUME ListInv, LoopInv, OrphanInv, [Next]_vars PROVE OrphanInv' OBVIOUS
<1>1. CASE UNCHANGED strayVars BY <1>1 DEF OrphanInv, strayVars
<1>2. ASSUME NEW t \in Tickers, SetCustomTicker(t) PROVE OrphanInv'
  <2> DEFINE n == Orphaned(t)
             m == Replaces(t)
  <2>1. DOMAIN handles = Listed BY DEF ListInv
  <2>2. n \in {0, 1} /\ m \in {0, 1} /\ n <= m
    <3>1. CASE t \in Listed
      <4>1. n = handles[t].loops /\ m = 1 BY <2>1, <3>1 DEF Orphaned, Replaces
      <4>2. handles[t].loops \in {0, 1} BY <3>1 DEF LoopInv
      <4> QED BY <4>1, <4>2
    <3>2. CASE t \notin Listed BY <2>1, <3>2 DEF Orphaned, Replaces
    <3> QED BY <3>1, <3>2
  <2>3. /\ orphans' = [orphans EXCEPT ![t] = orphans[t] + n]
        /\ replaced' = [replaced EXCEPT ![t] = replaced[t] + m]
    BY <1>2 DEF SetCustomTicker
  <2> HIDE DEF n, m
  <2> QED BY <2>2, <2>3 DEF OrphanInv
<1>3. ASSUME NEW t \in Tickers,
             SetActiveTicker(t) \/ ApplyChain(t) \/ PromoteChain(t) \/ ApplySpot(t)
      PROVE  UNCHANGED strayVars
  BY <1>3 DEF SetActiveTicker, ApplyChain, PromoteChain, ApplySpot
<1>4. CASE EngineLoops
  BY <1>1, <1>4 DEF EngineLoops, RunService, EnginesStarted, Checkpoint, StartEngine,
                    EngineReads, EngineStores
<1>5. CASE StreamSwitch
  BY <1>1, <1>5 DEF StreamSwitch, Connect, DropOne, DropLast, DropLastNoSim, Freeze,
                    WaitReturns, BeginClose, CloseNoSim, EndClose
<1>6. CASE Simulate
  BY <1>1, <1>6 DEF Simulate, SimStops, SimReads, SimApplies, SimCanceled
<1>7. CASE UNCHANGED vars BY <1>1, <1>7 DEF vars
<1> QED BY <1>1, <1>2, <1>3, <1>4, <1>5, <1>6, <1>7 DEF Next, Watchlist

\* Once Run is in its loop every listed ticker's handle has exactly one engine
\* loop, whoever came to it first, and a ticker has no loops beside it except one
\* for each of its handles that SetCustomTicker overwrote (app.go:432-475, 557-565).
THEOREM OneLoopAlways == Spec => []OneLoopEach
<1>1. ListInv /\ LoopInv /\ OrphanInv => OneLoopEach
  <2> SUFFICES ASSUME ListInv, LoopInv, OrphanInv PROVE OneLoopEach OBVIOUS
  <2>1. /\ DOMAIN handles = Listed
        /\ \A t \in Listed : handles[t].loops \in {0, 1}
        /\ run = "on" /\ ~closed => \A t \in Listed : handles[t].loops = 1
    BY DEF ListInv, LoopInv
  <2>2. ASSUME NEW t \in Tickers PROVE LoopsOf(t) <= 1 + replaced[t]
    <3> DEFINE n == IF t \in DOMAIN handles THEN handles[t].loops ELSE 0
    <3>1. n \in {0, 1} BY <2>1
    <3>2. LoopsOf(t) = orphans[t] + n BY DEF LoopsOf
    <3> HIDE DEF n
    <3> QED BY <3>1, <3>2 DEF OrphanInv
  <2>3. \A t \in DOMAIN handles : handles[t].loops <= 1 BY <2>1
  <2> QED BY <2>1, <2>2, <2>3, Zenon DEF OneLoopEach
<1> QED BY <1>1, ListInit, ListStep, CallInit, CallStep, LoopInit, LoopStep, OrphanInit,
           OrphanStep, PTL DEF Spec

-----------------------------------------------------------------------------
(* The simulators and the saved state.                                     *)

SimShape == [pc : {"loop", "tick", "gone"}, canceled : BOOLEAN, names : SUBSET Tickers]

\* A simulator that is left is one the service can cancel, or one that somebody
\* waits for; and the service holds a simulator only while a stream is connected.
SimInv ==
  /\ IsFiniteSet(DOMAIN sims) /\ sims \in [DOMAIN sims -> SimShape]
  /\ cancelSim \in {0} \cup DOMAIN sims
  /\ Alive # {} => cancelSim # 0 \/ \E o \in Callers : pc[o] = "wait"
  /\ cancelSim # 0 => Connected

LEMMA SimInit == Init => SimInv
<1> SUFFICES ASSUME Init PROVE SimInv OBVIOUS
<1>1. sims = Nothing /\ cancelSim = 0 /\ DOMAIN Nothing = {} /\ Nothing = [t \in {} |-> 0]
  BY DEF Init, Nothing
<1>2. sims \in [DOMAIN sims -> SimShape] BY <1>1
<1> QED BY <1>1, <1>2, FS_EmptySet DEF SimInv, Alive

\* What a simulator is doing changes, and nobody else's.
OneSim(s) ==
  /\ DOMAIN sims' = DOMAIN sims /\ sims' \in [DOMAIN sims -> SimShape]
  /\ \A k \in DOMAIN sims \ {s} : sims'[k] = sims[k]

LEMMA SimMoves ==
  ASSUME SimInv, NEW s \in DOMAIN sims, NEW p \in {"loop", "tick", "gone"},
         sims' = [sims EXCEPT ![s].pc = p]
  PROVE  OneSim(s) /\ sims'[s].pc = p
BY DEF SimInv, SimShape, OneSim

LEMMA SimCopies ==
  ASSUME SimInv, NEW s \in DOMAIN sims, NEW n \in SUBSET Tickers,
         sims' = [sims EXCEPT ![s].pc = "tick", ![s].names = n]
  PROVE  OneSim(s)
BY DEF SimInv, SimShape, OneSim

LEMMA SimStopped ==
  ASSUME SimInv, NEW s \in DOMAIN sims, sims' = [sims EXCEPT ![s].canceled = TRUE]
  PROVE  OneSim(s) /\ Alive' = Alive
<1>1. OneSim(s) /\ sims'[s].pc = sims[s].pc BY DEF SimInv, SimShape, OneSim
<1> QED BY <1>1 DEF OneSim, Alive

\* The calls wait and return as before.
LEMMA SimWalks ==
  ASSUME SimInv, NEW s \in Alive, OneSim(s), UNCHANGED <<cancelSim, pc, streams>>
  PROVE  SimInv'
<1>1. Alive' \subseteq Alive BY DEF Alive, OneSim
<1> QED BY <1>1 DEF SimInv, Connected, OneSim

LEMMA SimStays == ASSUME SimInv, UNCHANGED <<sims, cancelSim, pc, streams>> PROVE SimInv'
BY DEF SimInv, Alive, Connected

\* simWG.Done()
LEMMA ExitStep ==
  ASSUME SimInv, CallInv, NEW s \in Alive, Exit(s), UNCHANGED <<cancelSim, streams>>
  PROVE  SimInv' /\ (AllIdle' => AllIdle)
<1>1. OneSim(s) /\ sims'[s].pc = "gone"
  BY SimMoves DEF Exit, SimPc, Alive
<1>2. Alive' = Alive \ {s} BY <1>1 DEF Alive, OneSim
<1>3. pc' = [o \in Callers |-> IF pc[o] = "wait" /\ Alive = {s} THEN "woken" ELSE pc[o]]
  BY DEF Exit
<1>4. AllIdle' => AllIdle BY <1>3 DEF AllIdle
<1>5. Alive' # {} => \A o \in Callers : pc'[o] = pc[o]
  BY <1>2, <1>3
<1> QED BY <1>1, <1>2, <1>4, <1>5 DEF SimInv, OneSim, Connected

\* stopSimLocked up to the wait.
LEMMA StopStep ==
  ASSUME SimInv, CallInv, NEW o \in Callers, StopSim(o)
  PROVE  SimInv' /\ ~AllIdle'
<1>1. OneSim(cancelSim) /\ Alive' = Alive BY SimStopped DEF StopSim, SimInv
<1>2. pc'[o] = IF Alive = {} THEN "relock" ELSE "wait" BY DEF StopSim, CallInv
<1>3. ~AllIdle' BY <1>2 DEF AllIdle
<1>4. cancelSim' = 0 BY DEF StopSim
<1> QED BY <1>1, <1>2, <1>3, <1>4 DEF SimInv, OneSim

LEMMA StartSimStep ==
  ASSUME SimInv, StartSim, pc' = pc, streams' # {}
  PROVE  SimInv'
<1>1. CASE UNCHANGED <<cancelSim, sims>>
  BY <1>1 DEF SimInv, Alive, Connected
<1>2. CASE ~(cancelSim # 0 \/ external)
  <2> DEFINE s == Cardinality(DOMAIN sims) + 1
             new == [pc |-> "loop", canceled |-> FALSE, names |-> {}]
  <2>1. s \in Nat \ {0} BY FS_CardinalityType DEF SimInv
  <2>2. /\ cancelSim' = s
        /\ sims' = [k \in DOMAIN sims \cup {s} |-> IF k = s THEN new ELSE sims[k]]
    BY <1>2 DEF StartSim
  <2>3. new \in SimShape BY DEF SimShape
  <2>4. IsFiniteSet(DOMAIN sims \cup {s}) BY FS_AddElement DEF SimInv
  <2> HIDE DEF s, new
  <2>5. sims' \in [DOMAIN sims \cup {s} -> SimShape]
    BY <2>2, <2>3 DEF SimInv
  <2> QED BY <2>1, <2>2, <2>4, <2>5 DEF SimInv, Connected
<1> QED BY <1>1, <1>2 DEF StartSim, simVars

LEMMA SimInvStep == ListInv /\ CallInv /\ SimInv /\ [Next]_vars => SimInv'
<1> SUFFICES ASSUME ListInv, CallInv, SimInv, [Next]_vars PROVE SimInv' OBVIOUS
<1> USE OperatorsCall
<1>1. CASE Watchlist
  BY <1>1, SimStays DEF Watchlist, SetActiveTicker, SetCustomTicker, ApplyChain, PromoteChain,
     ApplySpot, simVars
<1>2. CASE EngineLoops
  BY <1>2, SimStays DEF EngineLoops, RunService, EnginesStarted, Checkpoint, StartEngine,
     EngineReads, EngineStores, simVars
<1>3. ASSUME NEW o \in Operators, NEW ids \in StreamIds, Connect(o, ids) \/ DropOne(o, ids)
      PROVE  SimInv'
  <2>1. StartSim /\ pc' = pc BY <1>3 DEF Connect, DropOne
  <2>2. streams' # {} BY <1>3 DEF Connect, DropOne, StreamIds, Streams
  <2> QED BY <2>1, <2>2, StartSimStep
<1>4. ASSUME NEW o \in Operators, NEW ids \in StreamIds, DropLast(o, ids) PROVE SimInv'
  BY <1>4, StopStep DEF DropLast
<1>5. ASSUME NEW o \in Operators, NEW ids \in StreamIds, DropLastNoSim(o, ids) PROVE SimInv'
  BY <1>5 DEF DropLastNoSim, simVars, SimInv, Alive
<1>6. ASSUME NEW o \in Operators, Freeze(o) PROVE SimInv'
  <2>1. /\ UNCHANGED <<sims, cancelSim, streams>>
        /\ pc[o] = "relock" /\ pc' = [pc EXCEPT ![o] = "idle"]
    BY <1>6 DEF Freeze, simVars
  <2>2. \A who \in Callers : pc[who] = "wait" => pc'[who] = "wait" BY <2>1 DEF CallInv
  <2> QED BY <2>1, <2>2 DEF SimInv, Alive, Connected
<1>7. ASSUME NEW o \in Callers, WaitReturns(o) PROVE SimInv'
  <2>1. /\ UNCHANGED <<sims, cancelSim, streams>>
        /\ pc[o] = "woken" /\ pc' \in {pc, [pc EXCEPT ![o] = "relock"]}
    BY <1>7 DEF WaitReturns, simVars
  <2>2. \A who \in Callers : pc[who] = "wait" => pc'[who] = "wait" BY <2>1 DEF CallInv
  <2> QED BY <2>1, <2>2 DEF SimInv, Alive, Connected
<1>8. CASE BeginClose BY <1>8, StopStep DEF BeginClose
<1>9. CASE CloseNoSim \/ EndClose
  <2>1. /\ UNCHANGED <<sims, cancelSim, streams>>
        /\ pc' = [pc EXCEPT ![Closer] = "done"] /\ pc[Closer] # "wait"
    BY <1>9 DEF CloseNoSim, EndClose, simVars, CallInv
  <2>2. \A who \in Callers : pc[who] = "wait" => pc'[who] = "wait" BY <2>1 DEF CallInv
  <2> QED BY <2>1, <2>2 DEF SimInv, Alive, Connected
<1>10. ASSUME NEW s \in 1..MaxSims, SimStops(s) \/ SimCanceled(s) PROVE SimInv'
  BY <1>10, ExitStep DEF SimStops, SimCanceled
<1>11. ASSUME NEW s \in 1..MaxSims, SimReads(s) PROVE SimInv'
  <2>1. s \in Alive /\ s \in DOMAIN sims BY <1>11 DEF SimReads, Alive
  <2>2. OneSim(s)
    BY <1>11, <2>1, SimCopies, ListedTickers DEF SimReads, ListInv
  <2> QED BY <1>11, <2>1, <2>2, SimWalks DEF SimReads
<1>12. ASSUME NEW s \in 1..MaxSims, SimApplies(s) PROVE SimInv'
  <2>1. s \in Alive /\ s \in DOMAIN sims BY <1>12 DEF SimApplies, Alive
  <2>2. OneSim(s) BY <1>12, <2>1, SimMoves DEF SimApplies, SimPc
  <2> QED BY <1>12, <2>1, <2>2, SimWalks DEF SimApplies
<1>13. CASE UNCHANGED vars BY <1>13, SimStays DEF vars, simVars
<1> QED BY <1>1, <1>2, <1>3, <1>4, <1>5, <1>6, <1>7, <1>8, <1>9, <1>10, <1>11, <1>12, <1>13
        DEF Next, StreamSwitch, Simulate

\* No request is under way and nothing is connected.
AtRest == AllIdle /\ ~Connected /\ ~external

\* The store holds the book of every ticker that moved.
SaveInv ==
  AtRest => \A t \in Listed : handles[t].book > 1 => stored[t].chain = handles[t].book

LEMMA RestHasNoSim == ASSUME SimInv, AtRest PROVE Alive = {}
BY DEF SimInv, AtRest, AllIdle

LEMMA SaveInit == Init => SaveInv
<1> SUFFICES ASSUME Init PROVE SaveInv OBVIOUS
<1>1. PICK books \in [Defaults -> {0, 1}] : handles = [t \in Defaults |-> NewHandle(FALSE, books[t])]
  BY DEF Init
<1>2. ASSUME NEW t \in Defaults PROVE handles[t].book \in {0, 1}
  BY <1>1 DEF NewHandle
<1>3. Listed = Defaults BY DEF Init
<1> QED BY <1>2, <1>3 DEF SaveInv

\* Nothing moves a listed book at rest.
LEMMA SavedStays ==
  ASSUME SaveInv, AtRest' => AtRest, UNCHANGED <<order, stored>>,
         \A t \in Listed : handles'[t].book = handles[t].book
  PROVE  SaveInv'
<1>1. Listed' = Listed BY DEF Listed
<1> QED BY <1>1 DEF SaveInv

\* The freeze: a listed ticker with a book has a snapshot when it is saved.
LEMMA FreezeSaves ==
  ASSUME ListInv, FreezeBooks, UNCHANGED <<order, active>>, AtRest' => pc[Closer] # "done"
  PROVE  SaveInv'
<1> SUFFICES ASSUME AtRest', NEW t \in Listed', handles'[t].book > 1
             PROVE  stored'[t].chain = handles'[t].book
  BY DEF SaveInv
<1>1. stored' = Saved(handles') BY DEF FreezeBooks
<1>2. t \in Listed /\ t \in Tickers BY ListedTickers DEF Listed, ListInv
<1>3. handles'[t].book \in Nat BY <1>2, FreezeMoves DEF BooksMove, SameList, Shape
<1>4. handles'[t].snap > 0 /\ handles'[t].book > 0
  BY <1>2, <1>3, FreezeMoves
<1>5. stored'[t] = [chain |-> handles'[t].book, snap |-> handles'[t].snap]
  BY <1>1, <1>2, <1>4 DEF Saved, Saveable
<1> QED BY <1>5

LEMMA SaveStep ==
  ListInv /\ CallInv /\ SimInv /\ SaveInv /\ [Next]_vars => SaveInv'
<1> SUFFICES ASSUME ListInv, CallInv, SimInv, SaveInv, [Next]_vars PROVE SaveInv' OBVIOUS
<1> USE OperatorsCall
<1>1. CASE UNCHANGED <<order, handles, stored>> /\ (AtRest' => AtRest)
  BY <1>1, SavedStays
<1>2. CASE ~AtRest' BY <1>2 DEF SaveInv
<1>3. ASSUME UNCHANGED <<pc, streams, external>> PROVE AtRest' = AtRest
  BY <1>3 DEF AtRest, AllIdle, Connected
<1>4. ASSUME NEW t \in Tickers, SetActiveTicker(t) PROVE SaveInv'
  BY <1>1, <1>3, <1>4 DEF SetActiveTicker
<1>5. ASSUME NEW t \in Tickers, SetCustomTicker(t) PROVE SaveInv'
  <2>1. AtRest' = AtRest /\ stored' = stored BY <1>3, <1>5 DEF SetCustomTicker
  <2>2. /\ handles'[t] = StartedIfRunning(NewHandle(TRUE, 1))
        /\ \A u \in Listed' \ {t} : u \in Listed /\ handles'[u] = handles[u]
    BY <1>5, CustomListed
  <2>3. handles'[t].book = 1 BY <2>2, FreshHandle, 1 \in Nat, Zenon
  <2>4. SUFFICES ASSUME AtRest', NEW u \in Listed', handles'[u].book > 1
                PROVE  stored'[u].chain = handles'[u].book
    BY DEF SaveInv
  <2>5. u # t BY <2>3, <2>4
  <2>6. u \in Listed /\ handles'[u] = handles[u] BY <2>2, <2>5
  <2>7. AtRest BY <2>1, <2>4
  <2> QED BY <2>1, <2>4, <2>6, <2>7 DEF SaveInv
<1>6. ASSUME NEW t \in Tickers, ApplyChain(t) \/ PromoteChain(t) \/ ApplySpot(t)
      PROVE  SaveInv'
  <2>1. external /\ external' = external BY <1>6 DEF ApplyChain, PromoteChain, ApplySpot
  <2>2. ~AtRest' BY <2>1 DEF AtRest
  <2> QED BY <1>2, <2>2
<1>7. CASE RunService \/ EnginesStarted
  BY <1>1, <1>3, <1>7 DEF RunService, EnginesStarted, watchVars
<1>8. CASE Checkpoint
  <2>1. ~AtRest' BY <1>8 DEF Checkpoint, AtRest, Connected
  <2> QED BY <1>2, <2>1
<1>9. ASSUME NEW t \in Tickers, StartEngine(t) PROVE SaveInv'
  <2>1. UNCHANGED <<order, stored>> /\ AtRest' = AtRest BY <1>3, <1>9 DEF StartEngine
  <2>2. ASSUME NEW u \in Listed PROVE handles'[u].book = handles[u].book
    <3>1. CASE u # t BY <1>9, <3>1, StartStep
    <3>2. CASE u = t
      <4>1. handles'[t] = Started(handles[t]) /\ handles[t] \in Shape
        BY <1>9, <3>2, StartStep DEF ListInv
      <4> QED BY <3>2, <4>1, StartedFacts
    <3> QED BY <3>1, <3>2
  <2> QED BY <2>1, <2>2, SavedStays
<1>10. ASSUME NEW t \in Tickers, EngineReads(t) PROVE SaveInv'
  BY <1>1, <1>3, <1>10 DEF EngineReads, watchVars
<1>11. ASSUME NEW t \in Tickers, EngineStores(t) PROVE SaveInv'
  <2>1. UNCHANGED <<order, stored>> /\ AtRest' = AtRest BY <1>3, <1>11 DEF EngineStores
  <2>2. handles' = [handles EXCEPT ![t].snap = computing[t]] BY <1>11 DEF EngineStores
  <2>3. \A u \in Listed : handles'[u].book = handles[u].book
    BY <2>2 DEF ListInv, Shape
  <2> QED BY <2>1, <2>3, SavedStays
<1>12. ASSUME NEW o \in Operators, NEW ids \in StreamIds, Connect(o, ids) \/ DropOne(o, ids)
       PROVE  SaveInv'
  <2>1. ~AtRest' BY <1>12 DEF Connect, DropOne, StreamIds, Streams, AtRest, Connected
  <2> QED BY <1>2, <2>1
<1>13. ASSUME NEW o \in Operators, NEW ids \in StreamIds, DropLast(o, ids) PROVE SaveInv'
  <2>1. ~AtRest' BY <1>13, StopStep DEF DropLast, AtRest
  <2> QED BY <1>2, <2>1
<1>14. ASSUME NEW o \in Operators, NEW ids \in StreamIds, DropLastNoSim(o, ids) PROVE SaveInv'
  <2>1. FreezeBooks /\ UNCHANGED <<order, active, pc>> BY <1>14 DEF DropLastNoSim
  <2>2. AtRest' => pc[Closer] = "idle" BY <2>1 DEF AtRest, AllIdle
  <2> QED BY <2>1, <2>2, FreezeSaves
<1>15. ASSUME NEW o \in Operators, Freeze(o) PROVE SaveInv'
  <2>1. /\ FreezeBooks /\ UNCHANGED <<order, active>>
        /\ pc' = [pc EXCEPT ![o] = "idle"]
    BY <1>15 DEF Freeze
  <2>2. AtRest' => pc[Closer] = "idle" BY <2>1 DEF AtRest, AllIdle, CallInv
  <2> QED BY <2>1, <2>2, FreezeSaves
<1>16. ASSUME NEW o \in Callers, WaitReturns(o) PROVE SaveInv'
  <2>1. /\ UNCHANGED <<order, handles, stored, streams, external>>
        /\ pc' \in {pc, [pc EXCEPT ![o] = "relock"]}
    BY <1>16 DEF WaitReturns, watchVars
  <2>2. AllIdle' => AllIdle BY <2>1 DEF AllIdle, CallInv
  <2> QED BY <1>1, <2>1, <2>2 DEF AtRest, Connected
<1>17. CASE BeginClose
  <2>1. ~AtRest' BY <1>17, StopStep DEF BeginClose, AtRest
  <2> QED BY <1>2, <2>1
<1>18. CASE CloseNoSim \/ EndClose
  <2>1. pc' = [pc EXCEPT ![Closer] = "done"] BY <1>18 DEF CloseNoSim, EndClose
  <2>2. ~AtRest' BY <2>1 DEF AtRest, AllIdle, CallInv
  <2> QED BY <1>2, <2>2
<1>19. ASSUME NEW s \in 1..MaxSims, SimStops(s) \/ SimCanceled(s) PROVE SaveInv'
  <2>1. /\ UNCHANGED <<order, handles, stored, streams, external, cancelSim>>
        /\ s \in Alive /\ Exit(s)
    BY <1>19 DEF SimStops, SimCanceled, watchVars
  <2>2. AllIdle' => AllIdle BY <2>1, ExitStep
  <2> QED BY <1>1, <2>1, <2>2 DEF AtRest, Connected
<1>20. ASSUME NEW s \in 1..MaxSims, SimReads(s) PROVE SaveInv'
  BY <1>1, <1>3, <1>20 DEF SimReads, watchVars
<1>21. ASSUME NEW s \in 1..MaxSims, SimApplies(s) PROVE SaveInv'
  <2>1. AtRest' = AtRest /\ Alive # {} BY <1>3, <1>21 DEF SimApplies
  <2> QED BY <1>2, <2>1, RestHasNoSim
<1>22. CASE UNCHANGED vars BY <1>1, <1>3, <1>22 DEF vars, watchVars
<1> QED BY <1>4, <1>5, <1>6, <1>7, <1>8, <1>9, <1>10, <1>11, <1>12, <1>13, <1>14, <1>15,
           <1>16, <1>17, <1>18, <1>19, <1>20, <1>21, <1>22
        DEF Next, Watchlist, EngineLoops, StreamSwitch, Simulate

\* Whenever no request is under way and nothing is connected, no simulator is left
\* and the store holds the final book of every ticker that moved, however any
\* number of switches, edits and simulators interleave (app.go:610-651).
THEOREM FrozenAlwaysSaved == Spec => []FrozenIsSaved
<1>1. SimInv /\ SaveInv => FrozenIsSaved
  BY RestHasNoSim DEF SaveInv, FrozenIsSaved, AtRest
<1> QED BY <1>1, ListInit, ListStep, CallInit, CallStep, SimInit, SimInvStep, SaveInit, SaveStep,
           PTL DEF Spec
=============================================================================
