-------------------------- MODULE Algorithms_proofs --------------------------
(***************************************************************************)
(* The pure functions for any input: the flip search, the expiry selection,*)
(* the sweep windows, the sums and the levels of the exposure engine.      *)
(***************************************************************************)
EXTENDS Algorithms, FiniteSetTheorems, WellFoundedInduction, TLAPS

\* Induction over numbers, in the form the proofs below use it: the least failure.
LEMMA Least ==
  ASSUME NEW S, S \subseteq Nat, S # {}
  PROVE  \E m \in S : \A n \in S : m <= n
<1>1. IsWellFoundedOn(OpToRel(<, Nat), Nat) BY NatLessThanWellFounded
<1>2. PICK m \in S : \A n \in S : ~(<<n, m>> \in OpToRel(<, Nat)) BY <1>1, WFMin
<1>3. \A n \in S : n \in Nat /\ m \in Nat /\ ~ (n < m)
  BY <1>2 DEF OpToRel
<1> QED BY <1>3

-----------------------------------------------------------------------------
(* The flip that RecomputeFlip puts on a snapshot: FindFlip's search, with *)
(* any grid, spot, tolerance and profile.                                  *)

\* The profile is defined on the grid and wherever the search evaluated it.
ProfileInv ==
  /\ Grid \subseteq DOMAIN known /\ DOMAIN known \subseteq Int
  /\ known \in [DOMAIN known -> Int]

\* A bracket nearest the spot that holds the three points of the search.
Holds(x) ==
  /\ Nearest(x) /\ x \in Grid
  /\ {a, b, c} \subseteq x..(x + Width) /\ {a, b, c} \subseteq DOMAIN known

\* Of the point with the smaller magnitude, the one before and the trailing one, two
\* lie on different sides; a root that was returned has the other side close by.
SearchInv ==
  /\ phase \in {"loop", "root", "best"} => \E x \in Grid : Holds(x)
  /\ phase = "loop" /\ Positive(b) = Positive(c) => Positive(a) # Positive(b)
  /\ phase = "root" =>
       \/ known[b] = 0
       \/ \E x \in DOMAIN known : /\ Abs(x - b) <= 2 * Tol
                                  /\ Positive(x) # Positive(b)

LEMMA GridInt == ASSUME FlipAssumption PROVE Grid \subseteq Int
<1>1. \A i, w \in Int : i * w \in Int OBVIOUS
<1> QED BY <1>1 DEF Grid, FlipAssumption

\* The points after the exchange: b and c on different sides.
LEMMA Exchanged ==
  ASSUME FlipAssumption, ProfileInv, SearchInv, phase = "loop", NEW x \in Grid, Holds(x)
  PROVE  LET p == Swap(Trail) IN
         /\ {p.a, p.b, p.c} \subseteq x..(x + Width) /\ {p.a, p.b, p.c} \subseteq DOMAIN known
         /\ Positive(p.b) # Positive(p.c)
<1> DEFINE t == Trail
           p == Swap(t)
<1>1. t.c \in {a, c} /\ Positive(t.c) # Positive(b)
  BY DEF Trail, SearchInv
<1> HIDE DEF t
<1>2. p = IF Abs(known[t.c]) < Abs(known[b])
          THEN [a |-> b, b |-> t.c, c |-> b] ELSE [a |-> a, b |-> b, c |-> t.c]
  BY DEF Swap
<1> HIDE DEF p
<1>3. {p.a, p.b, p.c} \subseteq {a, b, c} /\ Positive(p.b) # Positive(p.c)
  BY <1>1, <1>2
<1> QED BY <1>3 DEF Holds, p, t

\* A step towards c and not beyond it, lengthened to the tolerance or not.
LEMMA MovedBetween ==
  ASSUME FlipAssumption, NEW lo \in Int, NEW hi \in Int, NEW p, p.b \in lo..hi, p.c \in lo..hi,
         ~(Abs(p.c - p.b) <= 2 * Tol), NEW step \in Int,
         p.c - p.b > 0 => 0 <= step /\ step <= p.c - p.b,
         p.c - p.b < 0 => step <= 0 /\ p.c - p.b <= step
  PROVE  Moved(p, step) \in lo..hi
<1> DEFINE by == IF Abs(step) > Tol THEN step ELSE Sign(p.c - p.b) * Tol
<1>1. p.b \in Int /\ p.c \in Int /\ Tol \in Nat \ {0} BY DEF FlipAssumption
<1>2. Moved(p, step) = p.b + by BY DEF Moved
<1>3. CASE p.c - p.b > 0
  <2>1. Sign(p.c - p.b) = 1 /\ p.c - p.b > 2 * Tol BY <1>1, <1>3 DEF Sign, Abs
  <2>2. by \in Int /\ 0 <= by /\ by <= p.c - p.b BY <1>1, <1>3, <2>1
  <2> HIDE DEF by
  <2> QED BY <1>1, <1>2, <2>2
<1>4. CASE p.c - p.b < 0
  <2>1. Sign(p.c - p.b) = -1 /\ p.b - p.c > 2 * Tol BY <1>1, <1>4 DEF Sign, Abs
  <2>2. by \in Int /\ by <= 0 /\ p.c - p.b <= by BY <1>1, <1>4, <2>1
  <2> HIDE DEF by
  <2> QED BY <1>1, <1>2, <2>2
<1>5. p.c - p.b # 0 BY <1>1 DEF Abs
<1> QED BY <1>1, <1>3, <1>4, <1>5

\* A step the tests let through stays between b and c.
LEMMA StaysBetween ==
  ASSUME FlipAssumption, NEW lo \in Int, NEW hi \in Int, NEW p, p.b \in lo..hi, p.c \in lo..hi,
         ~(Abs(p.c - p.b) <= 2 * Tol), NEW t, NEW s \in Steps(p, t)
  PROVE  Moved(p, s[1]) \in lo..hi
<1> DEFINE gap == p.c - p.b
           step == s[1]
<1>1. p.b \in Int /\ p.c \in Int /\ gap \in Int /\ Tol \in Nat \ {0} BY DEF FlipAssumption
<1>2. CASE s = <<gap \div 2, gap \div 2>>
  <2>1. step = gap \div 2 /\ step \in Int BY <1>1, <1>2
  <2>2. (gap > 0 => 0 <= step /\ step <= gap) /\ (gap < 0 => step <= 0 /\ gap <= step)
    BY <1>1, <2>1
  <2> HIDE DEF step
  <2> QED BY <2>1, <2>2, MovedBetween DEF step
<1>3. CASE step \in (-2 * Width)..(2 * Width) /\ Inside(step, gap, t.e)
  <2>1. step \in Int BY <1>3 DEF FlipAssumption
  <2>2. Sign(step) = Sign(gap) /\ 4 * Abs(step) < 3 * Abs(gap) - 2 * Tol
    BY <1>3 DEF Inside
  <2> HIDE DEF step, gap
  <2>3. (gap > 0 => 0 <= step /\ step <= gap) /\ (gap < 0 => step <= 0 /\ gap <= step)
    BY <1>1, <2>1, <2>2 DEF Abs, Sign
  <2> QED BY <2>1, <2>3, MovedBetween DEF step, gap
<1>4. s = <<gap \div 2, gap \div 2>>
      \/ (step \in (-2 * Width)..(2 * Width) /\ Inside(step, gap, t.e))
  BY DEF Steps
<1> QED BY <1>2, <1>3, <1>4

\* A new value leaves the nearest bracket what it was.
LEMMA NearestStays ==
  ASSUME ProfileInv, NEW x, Nearest(x),
         \A y \in DOMAIN known : y \in DOMAIN known' /\ known'[y] = known[y]
  PROVE  Nearest(x)'
<1>1. \A y \in Grid : known'[y] = known[y] BY DEF ProfileInv
<1>2. Brackets' = Brackets BY <1>1 DEF Brackets, Positive, Grid
<1> QED BY <1>2 DEF Nearest, Off, Abs

LEMMA IterateStep ==
  ASSUME FlipAssumption, ProfileInv, SearchInv, Iterate
  PROVE  ProfileInv' /\ SearchInv'
<1> DEFINE t == Trail
           p == Swap(t)
<1>1. phase = "loop" /\ phase' = "loop" /\ ~Converged(p) BY DEF Iterate
<1>2. PICK s \in Steps(p, t) :
        /\ a' = p.b /\ b' = Moved(p, s[1]) /\ c' = p.c
        /\ \E v \in Values :
             known' = [x \in DOMAIN known \cup {b'} |->
                           IF x \in DOMAIN known THEN known[x] ELSE v]
  BY DEF Iterate
<1>3. PICK x \in Grid : Holds(x) BY <1>1 DEF SearchInv
<1>4. /\ {p.a, p.b, p.c} \subseteq x..(x + Width) /\ {p.a, p.b, p.c} \subseteq DOMAIN known
      /\ Positive(p.b) # Positive(p.c)
  BY <1>1, <1>3, Exchanged
<1>5. x \in Int /\ x + Width \in Int BY GridInt DEF FlipAssumption
<1>6. ~(Abs(p.c - p.b) <= 2 * Tol) BY <1>1 DEF Converged
<1> HIDE DEF p, t
<1>7. b' \in x..(x + Width) BY <1>2, <1>4, <1>5, <1>6, StaysBetween
<1>8. /\ DOMAIN known' = DOMAIN known \cup {b'} /\ known' \in [DOMAIN known' -> Int]
      /\ \A y \in DOMAIN known : known'[y] = known[y]
  BY <1>2 DEF ProfileInv, FlipAssumption
<1>9. ProfileInv'
  <2>1. b' \in Int BY <1>5, <1>7
  <2> QED BY <1>8, <2>1 DEF ProfileInv, Grid
<1>10. Holds(x)'
  <2>1. Nearest(x)' BY <1>3, <1>8, NearestStays DEF Holds
  <2>2. {a', b', c'} \subseteq x..(x + Width) BY <1>2, <1>4, <1>7
  <2>3. {a', b', c'} \subseteq DOMAIN known' BY <1>2, <1>4, <1>8
  <2> QED BY <2>1, <2>2, <2>3 DEF Holds, Grid
<1>11. Positive(a)' # Positive(c)'
  <2>1. known'[a'] = known[p.b] /\ known'[c'] = known[p.c]
    BY <1>2, <1>4, <1>8
  <2> QED BY <1>4, <2>1 DEF Positive
<1> QED BY <1>1, <1>9, <1>10, <1>11 DEF SearchInv, Grid, Positive

LEMMA ReturnStep ==
  ASSUME FlipAssumption, ProfileInv, SearchInv, Return
  PROVE  ProfileInv' /\ SearchInv'
<1> DEFINE p == Swap(Trail)
<1>1. phase = "loop" /\ phase' = "root" /\ Converged(p) /\ known' = known
      /\ a' = p.a /\ b' = p.b /\ c' = p.c
  BY DEF Return
<1>2. PICK x \in Grid : Holds(x) BY <1>1 DEF SearchInv
<1>3. /\ {p.a, p.b, p.c} \subseteq x..(x + Width) /\ {p.a, p.b, p.c} \subseteq DOMAIN known
      /\ Positive(p.b) # Positive(p.c)
  BY <1>1, <1>2, Exchanged
<1> HIDE DEF p
<1>4. ProfileInv' BY <1>1 DEF ProfileInv, Grid
<1>5. Holds(x)'
  <2>1. Nearest(x)' BY <1>1, <1>2, NearestStays DEF Holds
  <2> QED BY <1>1, <1>3, <2>1 DEF Holds, Grid
<1>6. PICK q \in DOMAIN known, r \in DOMAIN known : q = p.c /\ r = p.b BY <1>3
<1>7. Positive(q)' = Positive(q) /\ Positive(b)' = Positive(r)
  BY <1>1, <1>6 DEF Positive
<1>8. known[r] = 0 \/ Abs(q - r) <= 2 * Tol BY <1>1, <1>6 DEF Converged
<1>9. known'[b'] = 0 \/ (Abs(q - b') <= 2 * Tol /\ q \in DOMAIN known')
  BY <1>1, <1>6, <1>8
<1>10. Positive(q)' # Positive(b)' BY <1>3, <1>6, <1>7
<1>11. \/ known'[b'] = 0
       \/ \E y \in DOMAIN known' : /\ Abs(y - b') <= 2 * Tol
                                   /\ Positive(y)' # Positive(b)'
  BY <1>9, <1>10
<1> QED BY <1>1, <1>4, <1>5, <1>11 DEF SearchInv, Grid, Positive, Abs

LEMMA EnterStep ==
  ASSUME FlipAssumption, ProfileInv, SearchInv, Enter
  PROVE  ProfileInv' /\ SearchInv'
<1>1. PICK x \in Grid :
        /\ Nearest(x) /\ a' = x
        /\ IF known[x] = 0 THEN b' = x /\ phase' = "root"
           ELSE IF known[x + Width] = 0 THEN b' = x + Width /\ phase' = "root"
           ELSE b' = x + Width /\ phase' = "loop"
        /\ c' = x + Width
  BY DEF Enter
<1>2. known' = known BY DEF Enter
<1>3. ProfileInv' BY <1>2 DEF ProfileInv, Grid
<1>4. x + Width \in Grid /\ Positive(x) # Positive(x + Width)
  BY <1>1 DEF Nearest, Brackets
<1>5. x \in Int /\ Width \in Nat BY GridInt DEF FlipAssumption
<1>6. Holds(x)'
  <2>1. Nearest(x)' BY <1>1, <1>2, NearestStays
  <2>2. {x, x + Width} \subseteq x..(x + Width) BY <1>5
  <2>3. {x, x + Width} \subseteq DOMAIN known' BY <1>2, <1>4 DEF ProfileInv
  <2>4. {a', b', c'} \subseteq {x, x + Width} BY <1>1
  <2> QED BY <2>1, <2>2, <2>3, <2>4 DEF Holds, Grid
<1>7. phase' = "loop" => b' = x + Width /\ c' = x + Width /\ a' = x BY <1>1
<1>8. phase' = "root" => known'[b'] = 0 BY <1>1, <1>2
<1> QED BY <1>2, <1>3, <1>4, <1>6, <1>7, <1>8 DEF SearchInv, Grid, Positive

\* A flip on the panel is a sign change of the known in the bracket nearest the spot,
\* whatever the profile does between grid points and whatever interpolation proposes
\* (brent.go:36-107, aggregate.go:308-340).
THEOREM FlipChangesSign == AlgoSpec => []FlipIsSignChange
<1>1. AlgoInit => ProfileInv /\ SearchInv
  <2> SUFFICES ASSUME AlgoInit PROVE ProfileInv /\ SearchInv OBVIOUS
  <2>1. phase \in {"scan", "none"} BY DEF AlgoInit, FlipInit, Idle
  <2>2. CASE FlipInit
    <3>1. known \in [Grid -> Values] BY <2>2 DEF FlipInit
    <3> QED BY <2>1, <3>1, GridInt, FlipAssumption DEF ProfileInv, SearchInv, FlipAssumption
  <2>3. CASE Idle
    <3>1. known = [x \in Grid |-> 0] BY <2>3 DEF Idle
    <3> QED BY <2>1, <3>1, GridInt, FlipAssumption DEF ProfileInv, SearchInv, FlipAssumption
  <2> QED BY <2>2, <2>3 DEF AlgoInit
<1>2. ProfileInv /\ SearchInv /\ [FlipNext /\ UNCHANGED input]_<<flipVars, input>>
        => ProfileInv' /\ SearchInv'
  <2> SUFFICES ASSUME ProfileInv, SearchInv, FlipNext \/ UNCHANGED flipVars
               PROVE  ProfileInv' /\ SearchInv'
    OBVIOUS
  <2>1. CASE NoFlip
    BY <2>1 DEF NoFlip, ProfileInv, SearchInv, Grid
  <2>2. ASSUME UNCHANGED <<known, a, b, c>>, phase' = phase \/ (phase = "loop" /\ phase' = "best")
        PROVE  ProfileInv' /\ SearchInv'
    <3>1. ProfileInv' BY <2>2 DEF ProfileInv, Grid
    <3>2. \A x \in Grid : Holds(x) => Holds(x)'
      BY <2>2, NearestStays DEF Holds, Grid
    <3> QED BY <2>2, <3>1, <3>2 DEF SearchInv, Grid, Positive, Abs
  <2>3. CASE GiveUp BY <2>2, <2>3 DEF GiveUp
  <2>4. CASE UNCHANGED flipVars BY <2>2, <2>4 DEF flipVars
  <2> QED BY <2>1, <2>3, <2>4, EnterStep, ReturnStep, IterateStep, FlipAssumption DEF FlipNext
<1>3. ProfileInv /\ SearchInv => FlipIsSignChange
  BY DEF SearchInv, Holds, FlipIsSignChange
<1> QED BY <1>1, <1>2, <1>3, PTL DEF AlgoSpec

-----------------------------------------------------------------------------
(* Which expiries adoptChainLocked keeps (market/select.go).  All of a     *)
(* selection hangs on minima: a subset that keeps the minimum of a set has *)
(* the same minimum.                                                       *)

\* The two names of FiniteSets' operator.
LEMMA SameCount == \A S : ES!Cardinality(S) = Cardinality(S)
BY DEF ES!Cardinality, Cardinality

LEMMA MinFacts ==
  ASSUME NEW S \in SUBSET Nat, S # {}
  PROVE  ES!Min(S) \in S /\ ES!Min(S) \in Nat /\ \A n \in S : ES!Min(S) <= n
<1>1. \E m \in S : \A n \in S : m <= n BY Least
<1> QED BY <1>1 DEF ES!Min

LEMMA MinIs ==
  ASSUME NEW S \in SUBSET Nat, NEW m \in S, \A n \in S : m <= n
  PROVE  ES!Min(S) = m
<1>1. ES!Min(S) \in S /\ ES!Min(S) <= m /\ m <= ES!Min(S) BY MinFacts
<1>2. ES!Min(S) \in Nat /\ m \in Nat BY <1>1
<1> QED BY <1>1, <1>2

LEMMA MinOfPart ==
  ASSUME NEW S \in SUBSET Nat, NEW R \in SUBSET S, ES!Min(S) \in R
  PROVE  ES!Min(R) = ES!Min(S)
<1>1. S # {} /\ \A n \in R : ES!Min(S) <= n BY MinFacts
<1> QED BY <1>1, MinIs

\* FirstOf(S) survives in every part of S that keeps it.
LEMMA FirstOfPart ==
  ASSUME NEW S \in SUBSET Nat, NEW R \in SUBSET S, ES!FirstOf(S) \subseteq R
  PROVE  ES!FirstOf(R) = ES!FirstOf(S)
<1>1. CASE S = {} BY <1>1 DEF ES!FirstOf
<1>2. CASE S # {}
  <2>1. ES!Min(S) \in R BY <1>2 DEF ES!FirstOf
  <2>2. ES!Min(R) = ES!Min(S) /\ R # {} BY <2>1, MinOfPart
  <2> QED BY <1>2, <2>2 DEF ES!FirstOf
<1> QED BY <1>1, <1>2

Fridays(set) == {u \in set : ES!Friday(u)}

\* No Friday is before the closest date: the nearest one is the first one.
LEMMA PrimaryIs ==
  ASSUME NEW V \in SUBSET Nat, V # {}
  PROVE  ES!Primary(V) = IF Fridays(V) = {} THEN ES!Min(V) ELSE ES!Min(Fridays(V))
<1> DEFINE closest == ES!Min(V)
           F == {u \in V : ES!Friday(u)}
           near == {u \in F : \A v \in F : ES!Distance(u, closest) <= ES!Distance(v, closest)}
<1>1. ES!Primary(V) = IF F = {} THEN closest ELSE ES!Min(near)
  BY DEF ES!Primary
<1>2. CASE F = {} BY <1>1, <1>2 DEF Fridays
<1>3. CASE F # {}
  <2>1. closest \in Nat /\ \A u \in F : u \in Nat /\ closest <= u BY MinFacts
  <2>2. F \in SUBSET Nat OBVIOUS
  <2> DEFINE f == ES!Min(F)
  <2>3. f \in F /\ \A v \in F : f <= v BY <1>3, <2>2, MinFacts
  <2> HIDE DEF f, F, closest
  <2>4. \A u \in F : ES!Distance(u, closest) = u - closest
    <3> TAKE u \in F
    <3>1. u \in Nat /\ closest \in Nat /\ closest <= u BY <2>1
    <3>2. ES!Distance(u, closest) = IF u < closest THEN closest - u ELSE u - closest
      BY DEF ES!Distance
    <3> QED BY <3>1, <3>2
  <2>5. f \in near
    <3>1. \A v \in F : f - closest <= v - closest BY <2>1, <2>3
    <3> QED BY <2>3, <2>4, <3>1
  <2>6. near \subseteq F OBVIOUS
  <2>7. ES!Min(near) = f BY <2>2, <2>5, <2>6, MinOfPart DEF f
  <2> QED BY <1>1, <1>3, <2>7 DEF f, F, Fridays
<1> QED BY <1>2, <1>3

\* The pick from a set of live dates.
Pick(V) ==
  {ES!Min(V), ES!Primary(V)}
    \cup ES!FirstOf({u \in V : u > ES!NextFrom(V) /\ ES!Friday(u)})
    \cup ES!FirstOf({u \in V : ES!Monthly(u)})

LEMMA FirstOfIn == ASSUME NEW S \in SUBSET Nat PROVE ES!FirstOf(S) \subseteq S
BY MinFacts DEF ES!FirstOf

LEMMA PrimaryIn == ASSUME NEW V \in SUBSET Nat, V # {} PROVE ES!Primary(V) \in V
<1>1. Fridays(V) \subseteq V /\ Fridays(V) \in SUBSET Nat BY DEF Fridays
<1>2. CASE Fridays(V) = {} BY <1>2, PrimaryIs, MinFacts
<1>3. CASE Fridays(V) # {}
  <2>1. ES!Primary(V) = ES!Min(Fridays(V)) /\ ES!Min(Fridays(V)) \in Fridays(V)
    BY <1>1, <1>3, PrimaryIs, MinFacts
  <2> QED BY <1>1, <2>1
<1> QED BY <1>2, <1>3

LEMMA PickIn == ASSUME NEW V \in SUBSET Nat, V # {} PROVE Pick(V) \subseteq V /\ Pick(V) # {}
<1> DEFINE A == {u \in V : u > ES!NextFrom(V) /\ ES!Friday(u)}
           B == {u \in V : ES!Monthly(u)}
<1>1. ES!FirstOf(A) \subseteq V /\ ES!FirstOf(B) \subseteq V
  <2>1. A \in SUBSET Nat /\ B \in SUBSET Nat /\ A \subseteq V /\ B \subseteq V OBVIOUS
  <2> HIDE DEF A, B
  <2> QED BY <2>1, FirstOfIn
<1>2. ES!Min(V) \in V /\ ES!Primary(V) \in V BY MinFacts, PrimaryIn
<1> QED BY <1>1, <1>2 DEF Pick

\* Picking again from the pick changes nothing.
LEMMA PickAgain == ASSUME NEW V \in SUBSET Nat, V # {} PROVE Pick(Pick(V)) = Pick(V)
<1> DEFINE W == Pick(V)
           After(S) == {u \in S : u > ES!NextFrom(S) /\ ES!Friday(u)}
           Months(S) == {u \in S : ES!Monthly(u)}
<1>1. W \subseteq V /\ W # {} /\ W \in SUBSET Nat BY PickIn
<1>2. \A S : Pick(S) = {ES!Min(S), ES!Primary(S)} \cup ES!FirstOf(After(S)) \cup ES!FirstOf(Months(S))
  BY DEF Pick
<1>3. ES!Min(V) \in W /\ ES!Primary(V) \in W BY <1>2
<1>4. ES!FirstOf(After(V)) \subseteq W /\ ES!FirstOf(Months(V)) \subseteq W BY <1>2
<1> HIDE DEF W
<1>5. ES!Min(W) = ES!Min(V) BY <1>1, <1>3, MinOfPart
<1>6. ES!Primary(W) = ES!Primary(V)
  <2>1. Fridays(W) \subseteq Fridays(V) /\ Fridays(V) \in SUBSET Nat BY <1>1 DEF Fridays
  <2>2. CASE Fridays(V) = {}
    <3>1. Fridays(W) = {} BY <2>1, <2>2
    <3> QED BY <1>1, <1>5, <2>2, <3>1, PrimaryIs
  <2>3. CASE Fridays(V) # {}
    <3>1. ES!Primary(V) = ES!Min(Fridays(V)) BY <2>3, PrimaryIs
    <3>2. ES!Min(Fridays(V)) \in Fridays(V) BY <2>1, <2>3, MinFacts
    <3>3. ES!Min(Fridays(V)) \in Fridays(W) BY <1>3, <3>1, <3>2 DEF Fridays
    <3>4. ES!Min(Fridays(W)) = ES!Min(Fridays(V)) BY <2>1, <3>3, MinOfPart
    <3>5. Fridays(W) # {} BY <3>3
    <3> QED BY <1>1, <3>1, <3>4, <3>5, PrimaryIs
  <2> QED BY <2>2, <2>3
<1>7. After(W) = After(V) \cap W /\ Months(W) = Months(V) \cap W
  BY <1>1, <1>6 DEF ES!NextFrom
<1>8. After(V) \in SUBSET Nat /\ Months(V) \in SUBSET Nat OBVIOUS
<1>9. ES!FirstOf(After(V)) \subseteq After(V) /\ ES!FirstOf(Months(V)) \subseteq Months(V)
  BY <1>8, FirstOfIn
<1> HIDE DEF After, Months
<1>10. ES!FirstOf(After(W)) = ES!FirstOf(After(V)) BY <1>4, <1>7, <1>8, <1>9, FirstOfPart
<1>11. ES!FirstOf(Months(W)) = ES!FirstOf(Months(V)) BY <1>4, <1>7, <1>8, <1>9, FirstOfPart
<1> QED BY <1>2, <1>5, <1>6, <1>10, <1>11 DEF W

LEMMA SelectIs ==
  ASSUME NEW D, NEW today
  PROVE  ES!SelectExpiries(D, today) =
           IF {u \in D : u >= today} = {} THEN {} ELSE Pick({u \in D : u >= today})
BY DEF ES!SelectExpiries, Pick

\* Every set with one member at most counts one at most, and a finite one with two
\* counts two at least.
LEMMA TwoMembers ==
  ASSUME NEW S, Cardinality(S) >= 2 PROVE \E x, y \in S : x # y
<1> SUFFICES ASSUME \A x, y \in S : x = y PROVE FALSE OBVIOUS
<1>1. CASE S = {} BY <1>1, FS_EmptySet
<1>2. CASE S # {}
  <2>1. PICK x \in S : TRUE BY <1>2
  <2>2. S = {x} BY <2>1
  <2>3. Cardinality({x}) = 1 BY FS_Singleton
  <2> QED BY <2>2, <2>3
<1> QED BY <1>1, <1>2

LEMMA CountTwo ==
  ASSUME NEW S, IsFiniteSet(S), NEW x \in S, NEW y \in S, x # y PROVE Cardinality(S) >= 2
<1>1. IsFiniteSet({x}) /\ Cardinality({x}) = 1 BY FS_Singleton
<1>2. IsFiniteSet({x} \cup {y}) /\ Cardinality({x} \cup {y}) = 2
  <2>1. y \notin {x} OBVIOUS
  <2>2. IsFiniteSet({x} \cup {y}) /\ Cardinality({x} \cup {y}) = Cardinality({x}) + 1
    BY <1>1, <2>1, FS_AddElement
  <2> QED BY <1>1, <2>2
<1>3. {x} \cup {y} \subseteq S OBVIOUS
<1>4. Cardinality({x} \cup {y}) <= Cardinality(S) BY <1>3, FS_Subset
<1>5. Cardinality(S) \in Nat BY FS_CardinalityType
<1> QED BY <1>2, <1>4, <1>5

\* One more element counts one more at most.
LEMMA AddOne ==
  ASSUME NEW S, IsFiniteSet(S), NEW n \in Nat, Cardinality(S) <= n, NEW x
  PROVE  IsFiniteSet(S \cup {x}) /\ Cardinality(S \cup {x}) <= n + 1
<1>1. Cardinality(S) \in Nat BY FS_CardinalityType
<1>2. CASE x \in S
  <2>1. S \cup {x} = S BY <1>2
  <2>2. Cardinality(S) <= n + 1 BY <1>1
  <2> QED BY <2>1, <2>2
<1>3. CASE x \notin S
  <2>1. IsFiniteSet(S \cup {x}) /\ Cardinality(S \cup {x}) = Cardinality(S) + 1
    BY <1>3, FS_AddElement
  <2> QED BY <1>1, <2>1
<1> QED BY <1>2, <1>3

LEMMA AddFirst ==
  ASSUME NEW S, IsFiniteSet(S), NEW n \in Nat, Cardinality(S) <= n, NEW T
  PROVE  IsFiniteSet(S \cup ES!FirstOf(T)) /\ Cardinality(S \cup ES!FirstOf(T)) <= n + 1
<1>1. CASE T = {}
  <2>1. S \cup ES!FirstOf(T) = S BY <1>1 DEF ES!FirstOf
  <2>2. Cardinality(S) \in Nat BY FS_CardinalityType
  <2>3. Cardinality(S) <= n + 1 BY <2>2
  <2> QED BY <2>1, <2>3
<1>2. CASE T # {}
  <2>1. ES!FirstOf(T) = {ES!Min(T)} BY <1>2 DEF ES!FirstOf
  <2> QED BY <2>1, AddOne
<1> QED BY <1>1, <1>2

LEMMA AtMostFour == ASSUME NEW V PROVE IsFiniteSet(Pick(V)) /\ Cardinality(Pick(V)) <= 4
<1> DEFINE A == {u \in V : u > ES!NextFrom(V) /\ ES!Friday(u)}
           B == {u \in V : ES!Monthly(u)}
           one == {ES!Min(V)}
           two == one \cup {ES!Primary(V)}
           three == two \cup ES!FirstOf(A)
<1>1. IsFiniteSet(one) /\ Cardinality(one) <= 1
  <2>1. IsFiniteSet(one) /\ Cardinality(one) = 1 BY FS_Singleton
  <2> HIDE DEF one
  <2> QED BY <2>1
<1>2. IsFiniteSet(two) /\ Cardinality(two) <= 2
  <2> HIDE DEF one
  <2>1. IsFiniteSet(two) /\ Cardinality(two) <= 1 + 1 BY <1>1, AddOne
  <2> QED BY <2>1
<1> HIDE DEF two
<1>3. IsFiniteSet(three) /\ Cardinality(three) <= 3
  <2> HIDE DEF A
  <2> QED BY <1>2, AddFirst
<1> HIDE DEF three
<1>4. IsFiniteSet(three \cup ES!FirstOf(B)) /\ Cardinality(three \cup ES!FirstOf(B)) <= 4
  <2> HIDE DEF B
  <2> QED BY <1>3, AddFirst
<1>5. Pick(V) = three \cup ES!FirstOf(B) BY DEF Pick, three, two
<1> QED BY <1>4, <1>5

\* The pick of live dates with two Fridays has two.
LEMMA TwoFridays ==
  ASSUME NEW V \in SUBSET Nat, Cardinality(Fridays(V)) >= 2
  PROVE  Cardinality(Fridays(Pick(V))) >= 2
<1>1. PICK x, y \in Fridays(V) : x # y BY TwoMembers
<1> DEFINE p == ES!Primary(V)
           A == {u \in V : u > ES!NextFrom(V) /\ ES!Friday(u)}
<1>2. V # {} /\ Fridays(V) # {} /\ Fridays(V) \in SUBSET Nat BY <1>1 DEF Fridays
<1>3. p = ES!Min(Fridays(V)) BY <1>2, PrimaryIs
<1>4. p \in Fridays(V) /\ p <= x /\ p <= y /\ p \in Nat BY <1>1, <1>2, <1>3, MinFacts
<1> HIDE DEF p
<1>5. PICK z \in Fridays(V) : p < z
  <2>1. x \in Nat /\ y \in Nat BY <1>1, <1>2
  <2>2. p < x \/ p < y BY <1>1, <1>4, <2>1
  <2> QED BY <1>1, <2>2
<1>6. z \in A /\ A \in SUBSET Nat /\ A \subseteq Fridays(V)
  BY <1>2, <1>4, <1>5 DEF Fridays, ES!NextFrom, p
<1>7. ES!FirstOf(A) = {ES!Min(A)} /\ ES!Min(A) \in A BY <1>6, MinFacts DEF ES!FirstOf
<1>8. p < ES!Min(A)
  <2>1. \A u \in A : p < u BY <1>4 DEF ES!NextFrom, p
  <2> QED BY <1>7, <2>1
<1>9. {p, ES!Min(A)} \subseteq Fridays(Pick(V))
  <2>1. p \in Pick(V) /\ ES!FirstOf(A) \subseteq Pick(V) BY DEF Pick, p
  <2>2. ES!Friday(p) /\ ES!Friday(ES!Min(A)) BY <1>4, <1>6, <1>7 DEF Fridays
  <2> HIDE DEF A
  <2> QED BY <1>7, <2>1, <2>2 DEF Fridays
<1>10. IsFiniteSet(Fridays(Pick(V)))
  <2>1. Fridays(Pick(V)) \subseteq Pick(V) BY DEF Fridays
  <2> QED BY <2>1, AtMostFour, FS_Subset
<1>11. p # ES!Min(A)
  <2>1. ES!Min(A) \in Nat BY <1>6, <1>7
  <2> HIDE DEF A
  <2> QED BY <1>4, <1>8, <2>1
<1> HIDE DEF A
<1> QED BY <1>9, <1>10, <1>11, CountTwo

LEMMA DatesKept ==
  ASSUME NEW chain, NEW today, NEW k
  PROVE  ES!DatesOf(ES!SelectedExpiriesByClass(chain, today), k)
           = ES!DatesOf(chain, k) \cap ES!SelectExpiries(ES!DatesOf(chain, k), today)
BY DEF ES!DatesOf, ES!SelectedExpiriesByClass

\* The other classes of a listing do not enter the pick of a class.
LEMMA DatesAlone ==
  ASSUME NEW chain, NEW today, NEW others, NEW k
  PROVE  ES!DatesOf(ES!SelectedExpiriesByClass(ES!Only(chain, others \cup {k}), today), k)
           = ES!DatesOf(ES!SelectedExpiriesByClass(chain, today), k)
<1>1. ES!DatesOf(ES!Only(chain, others \cup {k}), k) = ES!DatesOf(chain, k)
  BY DEF ES!DatesOf, ES!Only
<1> DEFINE part == ES!Only(chain, others \cup {k})
<1>2. ES!DatesOf(ES!SelectedExpiriesByClass(part, today), k)
        = ES!DatesOf(part, k) \cap ES!SelectExpiries(ES!DatesOf(part, k), today)
  BY DatesKept
<1>3. ES!DatesOf(ES!SelectedExpiriesByClass(chain, today), k)
        = ES!DatesOf(chain, k) \cap ES!SelectExpiries(ES!DatesOf(chain, k), today)
  BY DatesKept
<1> HIDE DEF part
<1>4. ES!DatesOf(part, k) = ES!DatesOf(chain, k) BY <1>1 DEF part
<1>5. ES!DatesOf(ES!SelectedExpiriesByClass(part, today), k)
        = ES!DatesOf(ES!SelectedExpiriesByClass(chain, today), k)
  BY <1>2, <1>3, <1>4, Zenon
<1> QED BY <1>5 DEF part

LEMMA StableSelection ==
  ASSUME NEW Class, NEW chain \in SUBSET (Class \X Nat), NEW today \in Nat
  PROVE  ES!SelectionStable(chain, today)
<1> DEFINE kept == ES!SelectedExpiriesByClass(chain, today)
           D(k) == ES!DatesOf(chain, k)
           live(k) == {u \in D(k) : u >= today}
           pick(k) == ES!DatesOf(kept, k)
<1>1. \A k : live(k) \in SUBSET Nat BY DEF ES!DatesOf
<1>2. \A k : pick(k) = IF live(k) = {} THEN {} ELSE Pick(live(k))
  <2> TAKE k
  <2>1. pick(k) = D(k) \cap ES!SelectExpiries(D(k), today) BY DatesKept
  <2>2. ES!SelectExpiries(D(k), today) = IF live(k) = {} THEN {} ELSE Pick(live(k))
    BY SelectIs
  <2>3. live(k) \subseteq D(k) OBVIOUS
  <2>4. live(k) # {} => Pick(live(k)) \subseteq live(k) BY <1>1, PickIn
  <2> HIDE DEF D, live, pick
  <2> QED BY <2>1, <2>2, <2>3, <2>4
<1>3. kept \subseteq chain BY DEF ES!SelectedExpiriesByClass
<1>4. \A x \in kept : x[2] \in pick(x[1]) BY DEF ES!DatesOf
\* Once more, on a day by which nothing of it expired.
<1>5. ASSUME NEW later \in Nat, \A x \in kept : x[2] >= later
      PROVE  ES!SelectedExpiriesByClass(kept, later) = kept
  <2>1. ASSUME NEW k PROVE ES!SelectExpiries(pick(k), later) = pick(k)
    <3>1. \A u \in pick(k) : u >= later BY <1>5 DEF ES!DatesOf
    <3>2. {u \in pick(k) : u >= later} = pick(k) BY <3>1
    <3>3. ES!SelectExpiries(pick(k), later) = IF pick(k) = {} THEN {} ELSE Pick(pick(k))
      BY <3>2, SelectIs
    <3> HIDE DEF pick, live
    <3>4. CASE live(k) = {} BY <1>2, <3>3, <3>4
    <3>5. CASE live(k) # {}
      <4>1. pick(k) = Pick(live(k)) /\ pick(k) # {} BY <1>1, <1>2, <3>5, PickIn
      <4>2. Pick(pick(k)) = pick(k) BY <1>1, <3>5, <4>1, PickAgain
      <4> QED BY <3>3, <4>1, <4>2
    <3> QED BY <3>4, <3>5
  <2>2. ES!SelectedExpiriesByClass(kept, later)
          = {x \in kept : x[2] \in ES!SelectExpiries(pick(x[1]), later)}
    BY DEF ES!SelectedExpiriesByClass
  <2> HIDE DEF kept, pick
  <2> QED BY <1>4, <2>1, <2>2
<1>6. \A x \in kept : x[2] \in Nat /\ x[2] >= today
  <2> TAKE x \in kept
  <2>1. x[2] \in pick(x[1]) /\ x \in Class \X Nat BY <1>3, <1>4
  <2>2. pick(x[1]) \subseteq live(x[1])
    <3> HIDE DEF pick, live
    <3>1. CASE live(x[1]) = {} BY <1>2, <3>1
    <3>2. CASE live(x[1]) # {} BY <1>1, <1>2, <3>2, PickIn
    <3> QED BY <3>1, <3>2
  <2> HIDE DEF pick
  <2> QED BY <2>1, <2>2
<1>7. ES!SelectedExpiriesByClass(kept, today) = kept BY <1>5, <1>6
<1>8. (\A x \in kept : x[2] > today) => ES!SelectedExpiriesByClass(kept, today + 1) = kept
  <2> SUFFICES ASSUME \A x \in kept : x[2] > today
               PROVE  ES!SelectedExpiriesByClass(kept, today + 1) = kept
    OBVIOUS
  <2>1. today + 1 \in Nat /\ \A x \in kept : x[2] >= today + 1
    <3> HIDE DEF kept
    <3> QED BY <1>6
  <2> QED BY <1>5, <2>1
<1>9. ASSUME NEW k
      PROVE  /\ pick(k) \subseteq live(k) /\ Cardinality(pick(k)) <= 4
             /\ live(k) # {} => ES!Min(live(k)) \in pick(k)
             /\ Cardinality(Fridays(live(k))) >= 2 => Cardinality(Fridays(pick(k))) >= 2
  <2> HIDE DEF pick, live
  <2>1. CASE live(k) = {}
    <3>1. pick(k) = {} /\ Fridays(live(k)) = {} BY <1>2, <2>1 DEF Fridays
    <3>2. Cardinality({}) = 0 BY FS_EmptySet
    <3> QED BY <2>1, <3>1, <3>2
  <2>2. CASE live(k) # {}
    <3>1. pick(k) = Pick(live(k)) BY <1>2, <2>2
    <3>2. ES!Min(live(k)) \in pick(k) BY <3>1 DEF Pick
    <3> QED BY <1>1, <2>2, <3>1, <3>2, PickIn, AtMostFour, TwoFridays
  <2> QED BY <2>1, <2>2
<1>10. ASSUME NEW k
       PROVE  /\ pick(k) \subseteq live(k) /\ ES!Cardinality(pick(k)) <= 4
              /\ live(k) # {} => ES!Min(live(k)) \in pick(k)
              /\ ES!Cardinality({u \in live(k) : ES!Friday(u)}) >= 2
                   => ES!Cardinality({u \in pick(k) : ES!Friday(u)}) >= 2
              /\ \A others \in SUBSET ES!Classes(chain) :
                   ES!DatesOf(ES!SelectedExpiriesByClass(ES!Only(chain, others \cup {k}), today), k)
                     = pick(k)
  <2>1. \A others \in SUBSET ES!Classes(chain) :
          ES!DatesOf(ES!SelectedExpiriesByClass(ES!Only(chain, others \cup {k}), today), k)
            = pick(k)
    BY DatesAlone
  <2> HIDE DEF pick, live
  <2> QED BY <1>9, <2>1, SameCount DEF Fridays
<1> QED BY <1>7, <1>8, <1>10, Zenon DEF ES!SelectionStable

\* What a step of the search leaves alone.
InputInv ==
  /\ input[1] = "chain" => input[2] \in Chains /\ input[3] \in Spots
  /\ input[1] = "listing" => input[2] \in Listings /\ input[3] \in Days
  /\ input[1] = "instant" => input[2] \in BOOLEAN /\ input[3] \in Instants

LEMMA InputAlways == AlgoSpec => []InputInv
<1>1. AlgoInit => InputInv BY DEF AlgoInit, InputInv
<1>2. InputInv /\ [FlipNext /\ UNCHANGED input]_<<flipVars, input>> => InputInv'
  BY DEF InputInv
<1> QED BY <1>1, <1>2, PTL DEF AlgoSpec

\* Selecting again from what was selected keeps all of it, also on a later day
\* before the first of it expires; every class keeps its nearest live date, four
\* dates at most, and two Fridays where it has them; and what a class keeps depends on
\* no other class (select.go:13-26, 184-242), for any classes, dates and day.
THEOREM SelectionIsStable == AlgoSpec => []SelectionStable
<1>1. InputInv => SelectionStable
  <2> SUFFICES ASSUME NEW list \in Listings, NEW today \in Days
               PROVE  ES!SelectionStable(list, today)
    BY DEF InputInv, SelectionStable
  <2> DEFINE Class == {x[1] : x \in list}
  <2>1. list \in SUBSET (Class \X Nat) BY AlgoAssumption
  <2>2. today \in Nat BY AlgoAssumption
  <2> HIDE DEF Class
  <2> QED BY <2>1, <2>2, StableSelection
<1> QED BY <1>1, InputAlways, PTL

-----------------------------------------------------------------------------
(* The windows: what the panel says of a ticker outside them.              *)

\* The opening is inside the window.
LEMMA WindowBounds ==
  /\ SW!indexOpen = 33600 /\ SW!indexLast = 58199
  /\ SW!allOpen = 29700 /\ SW!allClose = 66600
BY DEF SW!indexOpen, SW!indexLast, SW!allOpen, SW!allClose

\* No three days in a row are a weekend.
LEMMA WeekdayAhead ==
  ASSUME NEW day \in Nat PROVE \E u \in (day + 1)..(day + 3) : ~SW!Weekend(u)
<1>1. ~(\A k \in {1, 2, 3} : (day + k) % 7 \in {5, 6})
  <2> SUFFICES ASSUME (day + 1) % 7 \in {5, 6}, (day + 3) % 7 \in {5, 6} PROVE FALSE OBVIOUS
  <2> QED OBVIOUS
<1>2. PICK k \in {1, 2, 3} : ~((day + k) % 7 \in {5, 6}) BY <1>1
<1>3. day + k \in (day + 1)..(day + 3) BY <1>2
<1> QED BY <1>2, <1>3 DEF SW!Weekend

\* The days NextOpen looks at, and the earliest of them.
LEMMA NextOpenFacts ==
  ASSUME NEW index \in BOOLEAN, NEW day \in Nat, NEW s \in Nat
  PROVE  \E m \in day..(day + 7) :
           /\ SW!NextOpen(index, <<day, s>>) = <<m, SW!Opens(index)>>
           /\ ~SW!Weekend(m) /\ (day < m \/ (day = m /\ s < SW!Opens(index)))
           /\ \A u \in day..(m - 1) :
                SW!Weekend(u) \/ (u = day /\ SW!Opens(index) <= s)
<1> DEFINE open == SW!Opens(index)
           now == <<day, s>>
           days == {u \in now[1]..(now[1] + 7) :
                      SW!CandidateDay(u) /\ SW!Before(now, <<u, open>>)}
<1>0. open \in Nat BY WindowBounds DEF SW!Opens
<1> HIDE DEF open
<1>1. \A u \in Nat : SW!Before(now, <<u, open>>) <=> (day < u \/ (day = u /\ s < open))
  BY DEF SW!Before
<1>2. days # {}
  <2>1. PICK u \in (day + 1)..(day + 3) : ~SW!Weekend(u) BY WeekdayAhead
  <2>2. u \in day..(day + 7) /\ day < u /\ u \in Nat BY <2>1
  <2>3. SW!Before(now, <<u, open>>) BY <1>1, <2>2
  <2>4. u \in days BY <2>1, <2>2, <2>3 DEF SW!CandidateDay
  <2> QED BY <2>4
<1>3. days \subseteq Nat OBVIOUS
<1>4. SW!NextOpen(index, now) = <<SW!Min(days), open>>
  BY <1>2 DEF SW!NextOpen, open
<1> DEFINE m == SW!Min(days)
<1>5. m \in days /\ \A u \in days : m <= u
  <2> HIDE DEF days
  <2>1. \E x \in days : \A y \in days : x <= y BY <1>2, <1>3, Least
  <2> QED BY <2>1 DEF SW!Min
<1>6. m \in day..(day + 7) /\ ~SW!Weekend(m) /\ SW!Before(now, <<m, open>>)
  <2> HIDE DEF m
  <2> QED BY <1>5 DEF SW!CandidateDay
<1>7. \A u \in day..(m - 1) : SW!Weekend(u) \/ (u = day /\ open <= s)
  <2> HIDE DEF m
  <2> TAKE u \in day..(m - 1)
  <2>1. u \in day..(day + 7) /\ u \in Nat /\ ~(m <= u) BY <1>6
  <2>2. u \notin days BY <1>5, <2>1
  <2>3. SW!Weekend(u) \/ ~SW!Before(now, <<u, open>>)
    BY <2>1, <2>2 DEF SW!CandidateDay
  <2> QED BY <1>0, <1>1, <2>1, <2>3
<1> HIDE DEF m, days
<1>8. m \in Nat BY <1>6
<1>9. day < m \/ (day = m /\ s < open) BY <1>1, <1>6, <1>8
<1> QED BY <1>4, <1>6, <1>7, <1>9 DEF m, open

LEMMA RightReopening ==
  ASSUME NEW index \in BOOLEAN, NEW day \in Nat, NEW s \in Nat,
         NEW instants \in SUBSET (Nat \X Nat)
  PROVE  SW!ReopensWhenTold(index, <<day, s>>, instants)
<1> SUFFICES ASSUME ~SW!TickerAllowed(index, day, s)
             PROVE  LET at == SW!NextOpen(index, <<day, s>>) IN
                    /\ SW!Reason(index, <<day, s>>) # ""
                    /\ SW!Before(<<day, s>>, at) /\ SW!TickerAllowed(index, at[1], at[2])
                    /\ \A x \in instants :
                         SW!Before(<<day, s>>, x) /\ SW!Before(x, at) => ~SW!TickerAllowed(index, x[1], x[2])
  BY DEF SW!ReopensWhenTold
<1> DEFINE open == SW!Opens(index)
<1>0. open \in Nat BY WindowBounds DEF SW!Opens
<1>1. PICK m \in day..(day + 7) :
           /\ SW!NextOpen(index, <<day, s>>) = <<m, open>>
           /\ ~SW!Weekend(m) /\ (day < m \/ (day = m /\ s < open))
           /\ \A u \in day..(m - 1) : SW!Weekend(u) \/ (u = day /\ open <= s)
  BY NextOpenFacts
<1>2. SW!Reason(index, <<day, s>>) # ""
  BY WindowBounds DEF SW!Reason, SW!TickerAllowed
<1>3. SW!Before(<<day, s>>, <<m, open>>) BY <1>1 DEF SW!Before
<1>4. SW!TickerAllowed(index, m, open)
  BY <1>1, WindowBounds DEF SW!TickerAllowed, SW!Opens
<1>5. ASSUME NEW x \in instants, SW!Before(<<day, s>>, x), SW!Before(x, <<m, open>>),
             SW!TickerAllowed(index, x[1], x[2])
      PROVE  FALSE
  <2> DEFINE xd == x[1]
             xs == x[2]
  <2>1. xd \in Nat /\ xs \in Nat OBVIOUS
  <2>2. /\ day < xd \/ (day = xd /\ s < xs)
        /\ xd < m \/ (xd = m /\ xs < open)
    BY <1>5 DEF SW!Before
  <2>3. ~SW!Weekend(xd) /\ open <= xs
    BY <1>5 DEF SW!TickerAllowed, SW!Opens
  <2> HIDE DEF xd, xs, open
  <2>4. m \in Nat /\ xd < m BY <1>0, <1>1, <2>1, <2>2, <2>3
  <2>5. xd \in day..(m - 1) BY <2>1, <2>2, <2>4
  <2>6. xd = day /\ open <= s BY <1>1, <2>3, <2>5
  <2>7. s < xs BY <2>2, <2>6
  <2>8. SW!TickerAllowed(index, day, s)
    BY <1>5, <2>1, <2>6, <2>7, WindowBounds DEF SW!TickerAllowed, SW!Opens, xd, xs, open
  <2> QED BY <2>8
<1> HIDE DEF open
<1>6. <<m, open>>[1] = m /\ <<m, open>>[2] = open OBVIOUS
<1>7. \A x \in instants : SW!Before(<<day, s>>, x) /\ SW!Before(x, <<m, open>>)
                          => ~SW!TickerAllowed(index, x[1], x[2])
  BY <1>5
<1>8. SW!NextOpen(index, <<day, s>>) = <<m, open>> BY <1>1
<1> QED BY <1>2, <1>3, <1>4, <1>6, <1>7, <1>8, Zenon

\* A ticker outside its window is given a reason, and the time the panel names is the
\* first second at which the window lets it sweep: at every day, second and class, over
\* nights and weekends (sweep_policy.go:157-198).
THEOREM ReopeningIsRight == AlgoSpec => []ReopensWhenTold
<1>1. InputInv => ReopensWhenTold
  <2> SUFFICES ASSUME NEW index \in BOOLEAN, NEW now \in Instants
               PROVE  SW!ReopensWhenTold(index, now, Instants)
    BY DEF InputInv, ReopensWhenTold
  <2>1. PICK day \in Nat, s \in Nat : now = <<day, s>> BY AlgoAssumption
  <2>2. Instants \in SUBSET (Nat \X Nat) BY AlgoAssumption
  <2>3. SW!ReopensWhenTold(index, <<day, s>>, Instants) BY <2>2, RightReopening
  <2> QED BY <2>1, <2>3
<1> QED BY <1>1, InputAlways, PTL

-----------------------------------------------------------------------------
(* Sums over finite sets.  The library's fold takes the members away in an *)
(* order of its own choice.                                                *)

Chosen(S) == CHOOSE x \in S : TRUE

Summing(w, s) ==
  s = [S \in SUBSET DOMAIN w |-> IF S = {} THEN 0 ELSE w[Chosen(S)] + s[S \ {Chosen(S)}]]

\* The sum of the values of a function.
Total(w) == EX!SumFunction(w)

Less(w, x) == [y \in DOMAIN w \ {x} |-> w[y]]

LEMMA TotalIs == ASSUME NEW w PROVE Total(w) = (CHOOSE s : Summing(w, s))[DOMAIN w]
BY DEF Total, EX!SumFunction, EX!SumFunctionOnSet, EX!FoldFunctionOnSet, EX!MapThenFoldSet,
       Summing, Chosen

LEMMA ChosenIn == ASSUME NEW S, S # {} PROVE Chosen(S) \in S
BY DEF Chosen

\* One member less.
LEMMA OneLess ==
  ASSUME NEW S, IsFiniteSet(S), NEW x \in S
  PROVE  /\ IsFiniteSet(S \ {x}) /\ Cardinality(S \ {x}) = Cardinality(S) - 1
         /\ Cardinality(S) \in Nat /\ Cardinality(S) # 0 /\ Cardinality(S \ {x}) \in Nat
<1>1. IsFiniteSet(S \ {x}) /\ Cardinality(S \ {x}) = Cardinality(S) - 1
  BY FS_RemoveElement
<1>2. Cardinality(S) \in Nat /\ Cardinality(S \ {x}) \in Nat BY <1>1, FS_CardinalityType
<1> QED BY <1>1, <1>2

\* The fold exists: on the sets of at most n members, for every n.
Partial(w, n, s) ==
  s = [S \in {T \in SUBSET DOMAIN w : Cardinality(T) <= n} |->
         IF S = {} THEN 0 ELSE w[Chosen(S)] + s[S \ {Chosen(S)}]]

LEMMA PartialExists ==
  ASSUME NEW w, IsFiniteSet(DOMAIN w), NEW n \in Nat PROVE \E s : Partial(w, n, s)
<1> DEFINE D == DOMAIN w
           Bad == {m \in Nat : ~\E s : Partial(w, m, s)}
<1>1. SUFFICES ASSUME Bad # {} PROVE FALSE OBVIOUS
<1>2. PICK m \in Bad : \A k \in Bad : m <= k
  <2>1. Bad \subseteq Nat OBVIOUS
  <2> HIDE DEF Bad
  <2> QED BY <2>1, <1>1, Least
<1>3. ASSUME NEW S \in SUBSET D
      PROVE  IsFiniteSet(S) /\ Cardinality(S) \in Nat /\ (Cardinality(S) = 0 <=> S = {})
  BY FS_Subset, FS_CardinalityType, FS_EmptySet
<1>4. m # 0
  <2> DEFINE f == [S \in {T \in SUBSET D : Cardinality(T) <= 0} |-> 0]
  <2>1. Partial(w, 0, f)
    <3>1. \A S \in SUBSET D : Cardinality(S) <= 0 => S = {} BY <1>3
    <3> QED BY <3>1 DEF Partial
  <2> QED BY <2>1
<1>5. m - 1 \in Nat /\ m - 1 \notin Bad BY <1>2, <1>4
<1>6. PICK s : Partial(w, m - 1, s) BY <1>5
<1> DEFINE Low == {T \in SUBSET D : Cardinality(T) <= m - 1}
           High == {T \in SUBSET D : Cardinality(T) <= m}
           f == [S \in High |-> IF S \in Low THEN s[S]
                                ELSE w[Chosen(S)] + s[S \ {Chosen(S)}]]
<1>7. ASSUME NEW S \in High, S # {}
      PROVE  S \ {Chosen(S)} \in Low /\ f[S \ {Chosen(S)}] = s[S \ {Chosen(S)}]
  <2>1. IsFiniteSet(S) /\ Cardinality(S) \in Nat /\ Chosen(S) \in S BY <1>3, <1>7, ChosenIn
  <2>2. Cardinality(S \ {Chosen(S)}) = Cardinality(S) - 1 BY <2>1, OneLess
  <2>3. S \ {Chosen(S)} \in Low BY <2>1, <2>2
  <2>4. Low \subseteq High BY <1>3
  <2> HIDE DEF Low, High
  <2> QED BY <2>3, <2>4
<1>8. \A S \in Low : s[S] = IF S = {} THEN 0 ELSE w[Chosen(S)] + s[S \ {Chosen(S)}]
  BY <1>6 DEF Partial
<1>9. {} \in Low BY <1>2, <1>4, FS_EmptySet
<1>10. ASSUME NEW S \in High
       PROVE  f[S] = IF S = {} THEN 0 ELSE w[Chosen(S)] + f[S \ {Chosen(S)}]
  <2> HIDE DEF Low, High
  <2>1. f[S] = IF S = {} THEN 0 ELSE w[Chosen(S)] + s[S \ {Chosen(S)}] BY <1>8, <1>9
  <2> HIDE DEF f
  <2> QED BY <2>1, <1>7
<1>11. Partial(w, m, f)
  <2> f = [S \in High |-> f[S]] OBVIOUS
  <2> HIDE DEF f
  <2> QED BY <1>10 DEF Partial
<1> QED BY <1>11, <1>2

LEMMA FoldExists == ASSUME NEW w, IsFiniteSet(DOMAIN w) PROVE \E s : Summing(w, s)
<1> DEFINE n == Cardinality(DOMAIN w)
<1>1. n \in Nat BY FS_CardinalityType
<1>2. PICK s : Partial(w, n, s)
  <2> HIDE DEF n
  <2> QED BY <1>1, PartialExists
<1>3. \A S \in SUBSET DOMAIN w : Cardinality(S) <= n BY FS_Subset
<1>4. {T \in SUBSET DOMAIN w : Cardinality(T) <= n} = SUBSET DOMAIN w
  <2> HIDE DEF n
  <2> QED BY <1>3
<1> HIDE DEF n
<1> QED BY <1>2, <1>4 DEF Partial, Summing

\* What the fold says of a set does not depend on the rest of the domain.
LEMMA FoldsAgree ==
  ASSUME NEW w, NEW v, IsFiniteSet(DOMAIN w), DOMAIN v \subseteq DOMAIN w,
         \A x \in DOMAIN v : v[x] = w[x],
         NEW s, Summing(w, s), NEW t, Summing(v, t)
  PROVE  \A S \in SUBSET DOMAIN v : s[S] = t[S]
<1> DEFINE Bad == {n \in Nat : \E S \in SUBSET DOMAIN v : Cardinality(S) = n /\ s[S] # t[S]}
<1>1. ASSUME NEW S \in SUBSET DOMAIN v PROVE IsFiniteSet(S) /\ Cardinality(S) \in Nat
  BY FS_Subset, FS_CardinalityType
<1>2. SUFFICES ASSUME Bad # {} PROVE FALSE BY <1>1
<1>3. PICK n \in Bad : \A k \in Bad : n <= k
  <2>1. Bad \subseteq Nat OBVIOUS
  <2> HIDE DEF Bad
  <2> QED BY <2>1, <1>2, Least
<1>4. PICK S \in SUBSET DOMAIN v : Cardinality(S) = n /\ s[S] # t[S] BY <1>3
<1>5. s[S] = IF S = {} THEN 0 ELSE w[Chosen(S)] + s[S \ {Chosen(S)}]
  BY <1>4 DEF Summing
<1>6. t[S] = IF S = {} THEN 0 ELSE v[Chosen(S)] + t[S \ {Chosen(S)}]
  BY <1>4 DEF Summing
<1>7. S # {} BY <1>4, <1>5, <1>6
<1>8. Chosen(S) \in S BY <1>7, ChosenIn
<1>9. Cardinality(S \ {Chosen(S)}) = n - 1 /\ n - 1 \in Nat BY <1>1, <1>4, <1>8, OneLess
<1>10. S \ {Chosen(S)} \in SUBSET DOMAIN v BY <1>8
<1>11. n - 1 \notin Bad BY <1>3, <1>9
<1>12. s[S \ {Chosen(S)}] = t[S \ {Chosen(S)}] BY <1>9, <1>10, <1>11
<1>13. v[Chosen(S)] = w[Chosen(S)] BY <1>8, <1>4
<1> QED BY <1>4, <1>5, <1>6, <1>7, <1>12, <1>13

LEMMA TotalEmpty == ASSUME NEW w, DOMAIN w = {} PROVE Total(w) = 0
<1>1. IsFiniteSet(DOMAIN w) BY FS_EmptySet
<1> DEFINE s == CHOOSE s : Summing(w, s)
<1>2. Summing(w, s) BY <1>1, FoldExists
<1>3. Total(w) = s[{}] BY TotalIs
<1> HIDE DEF s
<1>4. {} \in SUBSET DOMAIN w OBVIOUS
<1> QED BY <1>2, <1>3, <1>4 DEF Summing

LEMMA TotalPick ==
  ASSUME NEW w, IsFiniteSet(DOMAIN w), DOMAIN w # {}
  PROVE  Total(w) = w[Chosen(DOMAIN w)] + Total(Less(w, Chosen(DOMAIN w)))
<1> DEFINE x == Chosen(DOMAIN w)
           v == Less(w, x)
           s == CHOOSE s : Summing(w, s)
           t == CHOOSE t : Summing(v, t)
<1>1. Summing(w, s) BY FoldExists
<1>2. DOMAIN v = DOMAIN w \ {x} /\ \A y \in DOMAIN v : v[y] = w[y] BY DEF Less
<1>3. IsFiniteSet(DOMAIN v) BY <1>2, FS_Subset
<1>4. Summing(v, t)
  <2> HIDE DEF v
  <2> QED BY <1>3, FoldExists
<1>5. Total(w) = s[DOMAIN w] /\ Total(v) = t[DOMAIN v] BY TotalIs
<1> HIDE DEF s, t
<1>6. s[DOMAIN w] = w[x] + s[DOMAIN w \ {x}] BY <1>1 DEF Summing
<1>7. s[DOMAIN v] = t[DOMAIN v]
  <2> HIDE DEF v, x
  <2> QED BY <1>1, <1>2, <1>4, FoldsAgree
<1> HIDE DEF v, x
<1> QED BY <1>5, <1>6, <1>7, <1>2 DEF v, x

\* A finite family of integers.
Family(D, w) == IsFiniteSet(D) /\ w \in [D -> Int]

LEMMA LessFamily ==
  ASSUME NEW D, NEW w, Family(D, w), NEW x \in D
  PROVE  /\ Family(D \ {x}, Less(w, x)) /\ w[x] \in Int
         /\ Cardinality(D \ {x}) = Cardinality(D) - 1
         /\ Cardinality(D) \in Nat /\ Cardinality(D \ {x}) \in Nat
         /\ \A y \in D \ {x} : Less(w, x)[y] = w[y]
<1>1. IsFiniteSet(D) /\ w \in [D -> Int] /\ DOMAIN w = D BY DEF Family
<1>2. Less(w, x) = [y \in D \ {x} |-> w[y]] BY <1>1 DEF Less
<1>3. Less(w, x) \in [D \ {x} -> Int] BY <1>1, <1>2
<1> QED BY <1>1, <1>2, <1>3, OneLess DEF Family

LEMMA TotalInt == ASSUME NEW D, NEW w, Family(D, w) PROVE Total(w) \in Int
<1> DEFINE Bad == {n \in Nat : \E E, v : Family(E, v) /\ Cardinality(E) = n /\ Total(v) \notin Int}
<1>1. Cardinality(D) \in Nat BY FS_CardinalityType DEF Family
<1>2. SUFFICES ASSUME Bad # {} PROVE FALSE BY <1>1
<1>3. PICK n \in Bad : \A k \in Bad : n <= k
  <2>1. Bad \subseteq Nat OBVIOUS
  <2> HIDE DEF Bad
  <2> QED BY <2>1, <1>2, Least
<1>4. PICK E, v : Family(E, v) /\ Cardinality(E) = n /\ Total(v) \notin Int BY <1>3
<1>5. IsFiniteSet(E) /\ DOMAIN v = E BY <1>4 DEF Family
<1>6. E # {}
  <2>1. DOMAIN v = {} => Total(v) = 0 BY TotalEmpty
  <2>2. 0 \in Int OBVIOUS
  <2> QED BY <1>4, <1>5, <2>1, <2>2
<1> DEFINE x == Chosen(E)
<1>7. x \in E BY <1>6, ChosenIn
<1>8. Total(v) = v[x] + Total(Less(v, x)) BY <1>5, <1>6, TotalPick
<1> HIDE DEF x
<1>9. /\ Family(E \ {x}, Less(v, x)) /\ v[x] \in Int
      /\ Cardinality(E \ {x}) = n - 1 /\ n - 1 \in Nat
  BY <1>4, <1>7, LessFamily
<1>10. n - 1 \notin Bad BY <1>3, <1>9
<1>11. Total(Less(v, x)) \in Int BY <1>9, <1>10
<1> QED BY <1>4, <1>8, <1>9, <1>11

LEMMA LessTwice ==
  ASSUME NEW w, NEW x, NEW y PROVE Less(Less(w, x), y) = Less(Less(w, y), x)
<1>1. (DOMAIN w \ {x}) \ {y} = (DOMAIN w \ {y}) \ {x} OBVIOUS
<1>2. Less(Less(w, x), y) = [z \in (DOMAIN w \ {x}) \ {y} |-> w[z]] BY DEF Less
<1>3. Less(Less(w, y), x) = [z \in (DOMAIN w \ {y}) \ {x} |-> w[z]] BY DEF Less
<1> QED BY <1>1, <1>2, <1>3

\* Any member may be taken away first.
LEMMA TotalTake ==
  ASSUME NEW D, NEW w, Family(D, w), NEW x \in D
  PROVE  Total(w) = w[x] + Total(Less(w, x))
<1> DEFINE Bad == {n \in Nat : \E E, v : /\ Family(E, v) /\ Cardinality(E) = n
                                         /\ \E y \in E : Total(v) # v[y] + Total(Less(v, y))}
<1>1. Cardinality(D) \in Nat BY FS_CardinalityType DEF Family
<1>2. SUFFICES ASSUME Bad # {} PROVE FALSE BY <1>1
<1>3. PICK n \in Bad : \A k \in Bad : n <= k
  <2>1. Bad \subseteq Nat OBVIOUS
  <2> HIDE DEF Bad
  <2> QED BY <2>1, <1>2, Least
<1>4. PICK E, v : /\ Family(E, v) /\ Cardinality(E) = n
                  /\ \E y \in E : Total(v) # v[y] + Total(Less(v, y))
  BY <1>3
<1>5. PICK y \in E : Total(v) # v[y] + Total(Less(v, y)) BY <1>4
<1>6. IsFiniteSet(E) /\ DOMAIN v = E BY <1>4 DEF Family
<1> DEFINE z == Chosen(E)
<1>7. z \in E BY <1>5, ChosenIn
<1>8. Total(v) = v[z] + Total(Less(v, z)) BY <1>5, <1>6, TotalPick
<1> HIDE DEF z
<1>9. y # z BY <1>5, <1>8
<1>10. /\ Family(E \ {z}, Less(v, z)) /\ v[z] \in Int /\ Cardinality(E \ {z}) = n - 1
       /\ n - 1 \in Nat /\ Less(v, z)[y] = v[y]
  <2> HIDE DEF Bad
  <2>1. y \in E \ {z} BY <1>5, <1>9
  <2>2. /\ Family(E \ {z}, Less(v, z)) /\ v[z] \in Int
        /\ Cardinality(E \ {z}) = Cardinality(E) - 1 /\ Cardinality(E \ {z}) \in Nat
        /\ \A u \in E \ {z} : Less(v, z)[u] = v[u]
    <3>1. Family(E, v) BY <1>4
    <3> QED BY <3>1, <1>7, LessFamily
  <2> QED BY <2>1, <2>2, <1>4
<1>11. /\ Family(E \ {y}, Less(v, y)) /\ v[y] \in Int /\ Cardinality(E \ {y}) = n - 1
       /\ Less(v, y)[z] = v[z]
  <2>1. z \in E \ {y} BY <1>7, <1>9
  <2> QED BY <2>1, <1>4, <1>5, LessFamily
<1>12. n - 1 \notin Bad BY <1>3, <1>10
<1>13. Total(Less(v, z)) = v[y] + Total(Less(Less(v, z), y))
  <2>1. y \in E \ {z} BY <1>5, <1>9
  <2> QED BY <2>1, <1>10, <1>12
<1>14. Total(Less(v, y)) = v[z] + Total(Less(Less(v, y), z))
  <2>1. z \in E \ {y} BY <1>7, <1>9
  <2> QED BY <2>1, <1>10, <1>11, <1>12
<1>15. Less(Less(v, z), y) = Less(Less(v, y), z) BY LessTwice
<1> DEFINE r == Total(Less(Less(v, z), y))
<1>16. r \in Int
  <2>1. Family((E \ {z}) \ {y}, Less(Less(v, z), y)) BY <1>5, <1>9, <1>10, LessFamily
  <2> QED BY <2>1, TotalInt
<1>17. Total(Less(v, z)) = v[y] + r /\ Total(Less(v, y)) = v[z] + r BY <1>13, <1>14, <1>15
<1> HIDE DEF r
<1> QED BY <1>5, <1>8, <1>10, <1>11, <1>16, <1>17

\* The sum of w over the set I, when I is a finite set of places of w.
On(w, I) == [x \in I |-> w[x]]

LEMMA OnFamily ==
  ASSUME NEW D, NEW w, Family(D, w), NEW I \in SUBSET D
  PROVE  Family(I, On(w, I)) /\ Total(On(w, I)) \in Int
<1>1. IsFiniteSet(I) BY FS_Subset DEF Family
<1>2. On(w, I) \in [I -> Int] BY DEF On, Family
<1> QED BY <1>1, <1>2, TotalInt DEF Family

LEMMA OnTake ==
  ASSUME NEW D, NEW w, Family(D, w), NEW I \in SUBSET D, NEW x \in I
  PROVE  Total(On(w, I)) = w[x] + Total(On(w, I \ {x}))
<1>1. Family(I, On(w, I)) BY OnFamily
<1>2. Less(On(w, I), x) = On(w, I \ {x}) /\ On(w, I)[x] = w[x] BY DEF Less, On
<1> QED BY <1>1, <1>2, TotalTake

LEMMA OnAdd ==
  ASSUME NEW D, NEW w, Family(D, w), NEW I \in SUBSET D, NEW x \in D, x \notin I
  PROVE  Total(On(w, I \cup {x})) = Total(On(w, I)) + w[x]
<1>1. I \cup {x} \in SUBSET D /\ (I \cup {x}) \ {x} = I OBVIOUS
<1>2. Total(On(w, I \cup {x})) = w[x] + Total(On(w, I)) BY <1>1, OnTake
<1>3. w[x] \in Int /\ Total(On(w, I)) \in Int BY OnFamily DEF Family
<1> QED BY <1>2, <1>3

LEMMA OnEmpty == ASSUME NEW w PROVE Total(On(w, {})) = 0
BY TotalEmpty DEF On

\* The members of I whose key is g.
Part(key, I, g) == {x \in I : key[x] = g}

\* The sum over each key.
ByKey(w, key, I) == [g \in {key[x] : x \in I} |-> Total(On(w, Part(key, I, g)))]

LEMMA ByKeyFamily ==
  ASSUME NEW D, NEW w, Family(D, w), NEW key, NEW I \in SUBSET D
  PROVE  Family({key[x] : x \in I}, ByKey(w, key, I))
<1>1. IsFiniteSet(I) BY FS_Subset DEF Family
<1>2. IsFiniteSet({key[x] : x \in I})
  <2> DEFINE f == [x \in I |-> key[x]]
  <2>1. f \in Surjection(I, {key[x] : x \in I}) BY DEF Surjection
  <2> HIDE DEF f
  <2> QED BY <1>1, <2>1, FS_Surjection
<1>3. \A g : Part(key, I, g) \in SUBSET D BY DEF Part
<1>4. \A g : Total(On(w, Part(key, I, g))) \in Int BY <1>3, OnFamily
<1> QED BY <1>2, <1>4 DEF Family, ByKey

\* A sum is the sum of its sums by key, whatever the key.
LEMMA TotalByKey ==
  ASSUME NEW D, NEW w, Family(D, w), NEW key, NEW K \in SUBSET D
  PROVE  Total(On(w, K)) = Total(ByKey(w, key, K))
<1> DEFINE Bad == {n \in Nat : \E I \in SUBSET D : /\ Cardinality(I) = n
                                   /\ Total(On(w, I)) # Total(ByKey(w, key, I))}
<1>1. ASSUME NEW I \in SUBSET D PROVE IsFiniteSet(I) /\ Cardinality(I) \in Nat
  BY FS_Subset, FS_CardinalityType DEF Family
<1>2. SUFFICES ASSUME Bad # {} PROVE FALSE BY <1>1
<1>3. PICK n \in Bad : \A k \in Bad : n <= k
  <2>1. Bad \subseteq Nat OBVIOUS
  <2> HIDE DEF Bad
  <2> QED BY <2>1, <1>2, Least
<1>4. PICK I \in SUBSET D : /\ Cardinality(I) = n
                            /\ Total(On(w, I)) # Total(ByKey(w, key, I))
  BY <1>3
<1>5. I # {}
  <2>1. DOMAIN ByKey(w, key, {}) = {} BY DEF ByKey
  <2>2. Total(ByKey(w, key, {})) = 0 BY <2>1, TotalEmpty
  <2> QED BY <1>4, <2>2, OnEmpty
<1>6. PICK x : x \in I BY <1>5
<1> DEFINE J == I \ {x}
           g == key[x]
           f == ByKey(w, key, I)
           h == ByKey(w, key, J)
<1>7. J \in SUBSET D /\ Cardinality(J) = n - 1 /\ n - 1 \in Nat BY <1>1, <1>4, <1>6, OneLess
<1>8. Total(On(w, J)) = Total(h)
  <2>1. n - 1 \notin Bad BY <1>3, <1>7
  <2> HIDE DEF J
  <2> QED BY <2>1, <1>7 DEF J
<1>9. Total(On(w, I)) = w[x] + Total(On(w, J)) BY <1>6, OnTake
<1>10. w[x] \in Int BY <1>6, <1>4 DEF Family
<1>11. Family(DOMAIN f, f) /\ Family(DOMAIN h, h)
       /\ DOMAIN f = {key[y] : y \in I} /\ DOMAIN h = {key[y] : y \in J}
  <2>1. DOMAIN f = {key[y] : y \in I} /\ DOMAIN h = {key[y] : y \in J} BY DEF ByKey
  <2>2. Family({key[y] : y \in I}, f) BY ByKeyFamily
  <2>3. Family({key[y] : y \in J}, h) BY <1>7, ByKeyFamily
  <2> HIDE DEF f, h, J
  <2> QED BY <2>1, <2>2, <2>3
<1>12. DOMAIN f = DOMAIN h \cup {g} BY <1>6, <1>11
<1>13. ASSUME NEW u \in DOMAIN h, u # g PROVE f[u] = h[u]
  <2>1. Part(key, I, u) = Part(key, J, u) BY <1>13, <1>6 DEF Part
  <2> QED BY <2>1, <1>12, <1>13 DEF ByKey
<1>14. f[g] = w[x] + Total(On(w, Part(key, J, g)))
  <2>1. Part(key, I, g) \in SUBSET D /\ x \in Part(key, I, g) BY <1>6 DEF Part
  <2>2. Part(key, I, g) \ {x} = Part(key, J, g) BY DEF Part
  <2>3. f[g] = Total(On(w, Part(key, I, g))) BY <1>6 DEF ByKey
  <2>4. Total(On(w, Part(key, I, g))) = w[x] + Total(On(w, Part(key, I, g) \ {x}))
    <3> HIDE DEF f, h, g, J, Bad
    <3> QED BY <2>1, OnTake
  <2> QED BY <2>2, <2>3, <2>4
<1>15. Less(f, g) = Less(h, g)
  <2>1. DOMAIN f \ {g} = DOMAIN h \ {g} BY <1>12
  <2> HIDE DEF f, h, g
  <2> QED BY <2>1, <1>13 DEF Less
<1>16. Total(f) = f[g] + Total(Less(f, g))
  <2>1. g \in DOMAIN f BY <1>12
  <2> HIDE DEF f, g
  <2> QED BY <2>1, <1>11, TotalTake
<1>17. Total(h) = Total(On(w, Part(key, J, g))) + Total(Less(h, g))
  <2>1. CASE g \in DOMAIN h
    <3>1. h[g] = Total(On(w, Part(key, J, g))) BY <2>1, <1>11 DEF ByKey
    <3>2. Total(h) = h[g] + Total(Less(h, g))
      <4> HIDE DEF h, g
      <4> QED BY <2>1, <1>11, TotalTake
    <3> QED BY <3>1, <3>2
  <2>2. CASE g \notin DOMAIN h
    <3>1. Part(key, J, g) = {} BY <2>2, <1>11 DEF Part
    <3>2. Total(On(w, Part(key, J, g))) = 0 BY <3>1, OnEmpty
    <3>3. Less(h, g) = h
      <4>1. DOMAIN h \ {g} = DOMAIN h BY <2>2
      <4>2. h = [u \in DOMAIN h |-> h[u]] BY DEF ByKey
      <4> HIDE DEF h, g
      <4> QED BY <4>1, <4>2 DEF Less
    <3>4. Total(h) \in Int
      <4> HIDE DEF h
      <4> QED BY <1>11, TotalInt
    <3> HIDE DEF h, g
    <3> QED BY <3>2, <3>3, <3>4
  <2> QED BY <2>1, <2>2
<1>18. Total(On(w, Part(key, J, g))) \in Int
  <2>1. Part(key, J, g) \in SUBSET D BY DEF Part
  <2> QED BY <2>1, OnFamily
<1>19. Total(Less(h, g)) \in Int
  <2> HIDE DEF h, g
  <2>1. CASE g \in DOMAIN h BY <2>1, <1>11, LessFamily, TotalInt
  <2>2. CASE g \notin DOMAIN h
    <3>1. DOMAIN h \ {g} = DOMAIN h BY <2>2
    <3>2. h = [u \in DOMAIN h |-> h[u]] BY <1>11 DEF Family
    <3>3. Less(h, g) = h BY <3>1, <3>2 DEF Less
    <3> QED BY <3>3, <1>11, TotalInt
  <2> QED BY <2>1, <2>2
<1> HIDE DEF f, h, g, J
<1>20. Total(f) = w[x] + Total(h) BY <1>10, <1>14, <1>15, <1>16, <1>17, <1>18, <1>19
<1> QED BY <1>20, <1>9, <1>8, <1>4 DEF f

\* A sum does not depend on how its terms are numbered.
LEMMA TotalRenamed ==
  ASSUME NEW D, NEW w, Family(D, w), NEW N, NEW p \in [N -> D], IsFiniteSet(N),
         \A x, y \in N : p[x] = p[y] => x = y, NEW I \in SUBSET N
  PROVE  Total([x \in I |-> w[p[x]]]) = Total(On(w, {p[x] : x \in I}))
<1> DEFINE R(T) == {p[x] : x \in T}
           F(T) == [x \in T |-> w[p[x]]]
           Bad == {n \in Nat : \E T \in SUBSET N : /\ Cardinality(T) = n
                                   /\ Total(F(T)) # Total(On(w, R(T)))}
<1>1. ASSUME NEW T \in SUBSET N PROVE IsFiniteSet(T) /\ Cardinality(T) \in Nat
  BY FS_Subset, FS_CardinalityType
<1>2. SUFFICES ASSUME Bad # {} PROVE FALSE BY <1>1
<1>3. PICK n \in Bad : \A k \in Bad : n <= k
  <2>1. Bad \subseteq Nat OBVIOUS
  <2> HIDE DEF Bad
  <2> QED BY <2>1, <1>2, Least
<1>4. PICK T \in SUBSET N : Cardinality(T) = n /\ Total(F(T)) # Total(On(w, R(T)))
  BY <1>3
<1>5. T # {}
  <2>1. DOMAIN F({}) = {} OBVIOUS
  <2>2. Total(F({})) = 0 BY <2>1, TotalEmpty
  <2>3. R({}) = {} OBVIOUS
  <2>4. Total(On(w, R({}))) = 0 BY <2>3, OnEmpty
  <2> QED BY <1>4, <2>2, <2>4
<1>6. PICK x : x \in T BY <1>5
<1>7. /\ T \ {x} \in SUBSET N /\ Cardinality(T \ {x}) = n - 1 /\ n - 1 \in Nat
  BY <1>1, <1>4, <1>6, OneLess
<1>8. Total(F(T \ {x})) = Total(On(w, R(T \ {x})))
  <2>1. n - 1 \notin Bad
    <3>1. n \in Nat OBVIOUS
    <3> HIDE DEF Bad
    <3> QED BY <3>1, <1>3, <1>7
  <2> HIDE DEF F, R
  <2> QED BY <2>1, <1>7
<1>9. R(T \ {x}) = R(T) \ {p[x]} BY <1>6
<1>10. Total(On(w, R(T))) = w[p[x]] + Total(On(w, R(T \ {x})))
  <2>1. R(T) \in SUBSET D /\ p[x] \in R(T) BY <1>6
  <2> HIDE DEF R
  <2> QED BY <2>1, <1>9, OnTake
<1>11. Total(F(T)) = w[p[x]] + Total(F(T \ {x}))
  <2>1. F(T) \in [T -> Int] BY DEF Family
  <2>2. Family(T, F(T)) BY <2>1, <1>1 DEF Family
  <2>3. F(T)[x] = w[p[x]] /\ Less(F(T), x) = F(T \ {x}) BY <1>6 DEF Less
  <2> HIDE DEF F
  <2> QED BY <2>2, <2>3, <1>6, TotalTake
<1> QED BY <1>4, <1>8, <1>10, <1>11

\* A sum over two parts.
LEMMA TotalSplit ==
  ASSUME NEW D, NEW w, Family(D, w), NEW K \in SUBSET D, NEW L, NEW M,
         K = L \cup M, L \cap M = {}
  PROVE  Total(On(w, K)) = Total(On(w, L)) + Total(On(w, M))
<1> DEFINE Bad == {n \in Nat : \E I \in SUBSET D : /\ Cardinality(I) = n
                     /\ Total(On(w, I)) # Total(On(w, I \cap L)) + Total(On(w, I \ L))}
<1>1. ASSUME NEW I \in SUBSET D PROVE IsFiniteSet(I) /\ Cardinality(I) \in Nat
  BY FS_Subset, FS_CardinalityType DEF Family
<1>2. SUFFICES ASSUME Bad # {} PROVE FALSE
  <2>1. Total(On(w, K)) = Total(On(w, K \cap L)) + Total(On(w, K \ L)) BY <1>1
  <2>2. K \cap L = L /\ K \ L = M OBVIOUS
  <2> QED BY <2>1, <2>2
<1>3. PICK n \in Bad : \A k \in Bad : n <= k
  <2>1. Bad \subseteq Nat OBVIOUS
  <2> HIDE DEF Bad
  <2> QED BY <2>1, <1>2, Least
<1>4. PICK I \in SUBSET D : /\ Cardinality(I) = n
                     /\ Total(On(w, I)) # Total(On(w, I \cap L)) + Total(On(w, I \ L))
  BY <1>3
<1>5. I # {}
  <2>1. {} \cap L = {} /\ {} \ L = {} OBVIOUS
  <2>2. Total(On(w, {})) = 0 BY OnEmpty
  <2> QED BY <1>4, <2>1, <2>2
<1>6. PICK x : x \in I BY <1>5
<1> DEFINE J == I \ {x}
<1>7. J \in SUBSET D /\ Cardinality(J) = n - 1 /\ n - 1 \in Nat BY <1>1, <1>4, <1>6, OneLess
<1>8. n - 1 \notin Bad
  <2>1. n \in Nat OBVIOUS
  <2> HIDE DEF Bad
  <2> QED BY <2>1, <1>3, <1>7
<1>9. Total(On(w, J)) = Total(On(w, J \cap L)) + Total(On(w, J \ L))
  <2> HIDE DEF J
  <2> QED BY <1>7, <1>8
<1>10. Total(On(w, I)) = w[x] + Total(On(w, J)) BY <1>6, OnTake
<1>11. w[x] \in Int /\ Total(On(w, J \cap L)) \in Int /\ Total(On(w, J \ L)) \in Int
  <2>1. J \cap L \in SUBSET D /\ J \ L \in SUBSET D OBVIOUS
  <2>2. w[x] \in Int BY <1>4, <1>6 DEF Family
  <2> HIDE DEF J
  <2> QED BY <2>1, <2>2, OnFamily
<1>12. CASE x \in L
  <2>1. I \cap L \in SUBSET D /\ x \in I \cap L /\ (I \cap L) \ {x} = J \cap L /\ I \ L = J \ L
    BY <1>6, <1>12
  <2>2. Total(On(w, I \cap L)) = w[x] + Total(On(w, J \cap L)) BY <2>1, OnTake
  <2> HIDE DEF J, Bad
  <2>3. Total(On(w, I)) = Total(On(w, I \cap L)) + Total(On(w, I \ L))
    <3>1. Total(On(w, I \ L)) = Total(On(w, J \ L)) BY <2>1
    <3> QED BY <3>1, <2>2, <1>9, <1>10, <1>11
  <2> QED BY <2>3, <1>4
<1>13. CASE x \notin L
  <2>1. I \ L \in SUBSET D /\ x \in I \ L /\ (I \ L) \ {x} = J \ L /\ I \cap L = J \cap L
    BY <1>6, <1>13
  <2>2. Total(On(w, I \ L)) = w[x] + Total(On(w, J \ L)) BY <2>1, OnTake
  <2> HIDE DEF J, Bad
  <2>3. Total(On(w, I)) = Total(On(w, I \cap L)) + Total(On(w, I \ L))
    <3>1. Total(On(w, I \cap L)) = Total(On(w, J \cap L)) BY <2>1
    <3> QED BY <3>1, <2>2, <1>9, <1>10, <1>11
  <2> QED BY <2>3, <1>4
<1> QED BY <1>12, <1>13

-----------------------------------------------------------------------------
(* ComputeSnapshot: the pass over the contracts leaves sums over sets of   *)
(* contracts, whatever the order they came in.                             *)

IsChain(chain) ==
  /\ Len(chain) \in Nat
  /\ \A i \in 1..Len(chain) : /\ chain[i].gex \in Int /\ chain[i].iv \in Int
                              /\ chain[i].strike \in Int

\* The places of a chain.
Places(chain) == 1..Len(chain)

Gex(chain) == [i \in 1..Len(chain) |-> chain[i].gex]
Net(chain, I) == Total(On(Gex(chain), I))

\* The exposure of a set of contracts of one strike, the curve and the
\* accumulator of any set of contracts, and a table of accumulators by key.
AtStrike(chain, K) ==
  [call |-> Net(chain, {i \in K : chain[i].right = "C"}),
   put |-> Net(chain, {i \in K : chain[i].right # "C"}), net |-> Net(chain, K)]

Strikes(chain, I, k) == {i \in I : chain[i].strike = k}
Curve(chain, I) ==
  [k \in {chain[i].strike : i \in I} |-> AtStrike(chain, Strikes(chain, I, k))]

Acc(chain, I) ==
  [total |-> Net(chain, I), curve |-> Curve(chain, I),
   calls |-> \E i \in I : chain[i].right = "C", puts |-> \E i \in I : chain[i].right # "C"]

Table(chain, key, I) == [g \in {key[i] : i \in I} |-> Acc(chain, Part(key, I, g))]

LEMMA GexFamily == ASSUME NEW chain, IsChain(chain) PROVE Family(Places(chain), Gex(chain))
<1>1. IsFiniteSet(1..Len(chain))
  <2>1. Len(chain) \in Int /\ 1 \in Int BY DEF IsChain
  <2> QED BY <2>1, FS_Interval
<1> QED BY <1>1 DEF Family, Gex, IsChain, Places

LEMMA NetEmpty == ASSUME NEW chain PROVE Net(chain, {}) = 0
BY OnEmpty DEF Net

LEMMA NetAdd ==
  ASSUME NEW chain, IsChain(chain), NEW I \in SUBSET Places(chain), NEW n \in Places(chain),
         n \notin I
  PROVE  Net(chain, I \cup {n}) = Net(chain, I) + chain[n].gex
<1>1. Gex(chain)[n] = chain[n].gex BY DEF Gex, Places
<1>2. Family(Places(chain), Gex(chain)) BY GexFamily
<1> QED BY <1>1, <1>2, OnAdd DEF Net

LEMMA NetInt ==
  ASSUME NEW chain, IsChain(chain), NEW I \in SUBSET Places(chain) PROVE Net(chain, I) \in Int
BY GexFamily, OnFamily DEF Net

LEMMA NetByKey ==
  ASSUME NEW chain, IsChain(chain), NEW I \in SUBSET Places(chain), NEW key
  PROVE  Net(chain, I) = Total(ByKey(Gex(chain), key, I))
<1>1. Family(Places(chain), Gex(chain)) BY GexFamily
<1> QED BY <1>1, TotalByKey DEF Net

LEMMA NetSplit ==
  ASSUME NEW chain, IsChain(chain), NEW I \in SUBSET Places(chain), NEW L, NEW M,
         I = L \cup M, L \cap M = {}
  PROVE  Net(chain, I) = Net(chain, L) + Net(chain, M)
<1>1. Family(Places(chain), Gex(chain)) BY GexFamily
<1> QED BY <1>1, TotalSplit DEF Net

Zero == [call |-> 0, put |-> 0, net |-> 0]

LEMMA CurveAt ==
  ASSUME NEW chain, NEW I, NEW k
  PROVE  EX!At(Curve(chain, I), k, Zero) = AtStrike(chain, Strikes(chain, I, k))
<1>1. CASE k \in {chain[i].strike : i \in I} BY <1>1 DEF Curve, EX!At
<1>2. CASE k \notin {chain[i].strike : i \in I}
  <2>1. Strikes(chain, I, k) = {} BY <1>2 DEF Strikes
  <2>2. {i \in {} : chain[i].right = "C"} = {} /\ {i \in {} : chain[i].right # "C"} = {} OBVIOUS
  <2>3. AtStrike(chain, {}) = Zero BY <2>2, NetEmpty DEF AtStrike, Zero
  <2>4. EX!At(Curve(chain, I), k, Zero) = Zero BY <1>2 DEF Curve, EX!At
  <2> QED BY <2>1, <2>3, <2>4
<1> QED BY <1>1, <1>2

LEMMA StrikeStep ==
  ASSUME NEW chain, IsChain(chain), NEW J \in SUBSET Places(chain), NEW n \in Places(chain),
         n \notin J
  PROVE  AtStrike(chain, J \cup {n}) =
           [call |-> AtStrike(chain, J).call + IF chain[n].right = "C" THEN chain[n].gex ELSE 0,
            put |-> AtStrike(chain, J).put + IF chain[n].right = "C" THEN 0 ELSE chain[n].gex,
            net |-> AtStrike(chain, J).net + chain[n].gex]
<1> DEFINE Calls(I) == {i \in I : chain[i].right = "C"}
           Puts(I) == {i \in I : chain[i].right # "C"}
<1>1. Net(chain, J \cup {n}) = Net(chain, J) + chain[n].gex BY NetAdd
<1>2. Net(chain, Calls(J \cup {n})) =
        Net(chain, Calls(J)) + IF chain[n].right = "C" THEN chain[n].gex ELSE 0
  <2>0. Calls(J) \in SUBSET Places(chain) /\ n \notin Calls(J) OBVIOUS
  <2>1. CASE chain[n].right = "C"
    <3>1. Calls(J \cup {n}) = Calls(J) \cup {n} BY <2>1
    <3> HIDE DEF Calls
    <3> QED BY <2>0, <2>1, <3>1, NetAdd
  <2>2. CASE chain[n].right # "C"
    <3>1. Calls(J \cup {n}) = Calls(J) BY <2>2
    <3> HIDE DEF Calls
    <3> QED BY <2>0, <2>2, <3>1, NetInt
  <2> QED BY <2>1, <2>2
<1>3. Net(chain, Puts(J \cup {n})) =
        Net(chain, Puts(J)) + IF chain[n].right = "C" THEN 0 ELSE chain[n].gex
  <2>0. Puts(J) \in SUBSET Places(chain) /\ n \notin Puts(J) OBVIOUS
  <2>1. CASE chain[n].right # "C"
    <3>1. Puts(J \cup {n}) = Puts(J) \cup {n} BY <2>1
    <3> HIDE DEF Puts
    <3> QED BY <2>0, <2>1, <3>1, NetAdd
  <2>2. CASE chain[n].right = "C"
    <3>1. Puts(J \cup {n}) = Puts(J) BY <2>2
    <3> HIDE DEF Puts
    <3> QED BY <2>0, <2>2, <3>1, NetInt
  <2> QED BY <2>1, <2>2
<1>4. /\ AtStrike(chain, J) = [call |-> Net(chain, Calls(J)), put |-> Net(chain, Puts(J)),
                               net |-> Net(chain, J)]
      /\ AtStrike(chain, J \cup {n}) =
           [call |-> Net(chain, Calls(J \cup {n})), put |-> Net(chain, Puts(J \cup {n})),
            net |-> Net(chain, J \cup {n})]
  BY DEF AtStrike
<1> HIDE DEF Calls, Puts
<1>5. /\ AtStrike(chain, J).call = Net(chain, Calls(J))
      /\ AtStrike(chain, J).put = Net(chain, Puts(J)) /\ AtStrike(chain, J).net = Net(chain, J)
  BY <1>4
<1> QED BY <1>1, <1>2, <1>3, <1>4, <1>5, Zenon

LEMMA CurveStep ==
  ASSUME NEW chain, IsChain(chain), NEW J \in SUBSET Places(chain), NEW n \in Places(chain),
         n \notin J
  PROVE  EX!Bump(Curve(chain, J), chain[n]) = Curve(chain, J \cup {n})
<1> DEFINE k == chain[n].strike
           I == J \cup {n}
           se == AtStrike(chain, Strikes(chain, J, k))
           new == [call |-> se.call + IF chain[n].right = "C" THEN chain[n].gex ELSE 0,
                   put |-> se.put + IF chain[n].right = "C" THEN 0 ELSE chain[n].gex,
                   net |-> se.net + chain[n].gex]
<1>1. EX!Bump(Curve(chain, J), chain[n]) = EX!Put(Curve(chain, J), k, new)
  <2>1. EX!At(Curve(chain, J), k, [call |-> 0, put |-> 0, net |-> 0]) = se BY CurveAt DEF Zero
  <2> HIDE DEF se
  <2> QED BY <2>1 DEF EX!Bump
<1>2. new = AtStrike(chain, Strikes(chain, I, k))
  <2>1. Strikes(chain, I, k) = Strikes(chain, J, k) \cup {n} BY DEF Strikes
  <2>2. Strikes(chain, J, k) \in SUBSET Places(chain) /\ n \notin Strikes(chain, J, k)
    BY DEF Strikes
  <2> QED BY <2>1, <2>2, StrikeStep
<1>3. \A u : u # k => Strikes(chain, I, u) = Strikes(chain, J, u) BY DEF Strikes
<1>4. {chain[i].strike : i \in I} = {chain[i].strike : i \in J} \cup {k} OBVIOUS
<1> HIDE DEF k, I, new
<1> QED BY <1>1, <1>2, <1>3, <1>4 DEF Curve, EX!Put, I

LEMMA AccEmpty == ASSUME NEW chain PROVE Acc(chain, {}) = EX!Empty
<1>1. {chain[i].strike : i \in {}} = {} OBVIOUS
<1>2. Curve(chain, {}) = EX!NoCurve BY <1>1 DEF Curve, EX!NoCurve
<1> QED BY <1>2, NetEmpty DEF Acc, EX!Empty

LEMMA AccStep ==
  ASSUME NEW chain, IsChain(chain), NEW J \in SUBSET Places(chain), NEW n \in Places(chain),
         n \notin J
  PROVE  EX!Add(Acc(chain, J), chain[n]) = Acc(chain, J \cup {n})
<1>1. Net(chain, J \cup {n}) = Net(chain, J) + chain[n].gex BY NetAdd
<1>2. EX!Bump(Curve(chain, J), chain[n]) = Curve(chain, J \cup {n}) BY CurveStep
<1>3. (\E i \in J \cup {n} : chain[i].right = "C")
        = ((\E i \in J : chain[i].right = "C") \/ chain[n].right = "C")
  OBVIOUS
<1>4. (\E i \in J \cup {n} : chain[i].right # "C")
        = ((\E i \in J : chain[i].right # "C") \/ chain[n].right # "C")
  OBVIOUS
<1> QED BY <1>1, <1>2, <1>3, <1>4 DEF Acc, EX!Add

LEMMA TableStep ==
  ASSUME NEW chain, IsChain(chain), NEW J \in SUBSET Places(chain), NEW n \in Places(chain),
         n \notin J, NEW key
  PROVE  EX!Put(Table(chain, key, J), key[n],
                EX!Add(EX!At(Table(chain, key, J), key[n], EX!Empty), chain[n]))
           = Table(chain, key, J \cup {n})
<1> DEFINE g == key[n]
           I == J \cup {n}
<1>1. EX!At(Table(chain, key, J), g, EX!Empty) = Acc(chain, Part(key, J, g))
  <2>1. CASE g \in {key[i] : i \in J} BY <2>1 DEF Table, EX!At
  <2>2. CASE g \notin {key[i] : i \in J}
    <3>1. Part(key, J, g) = {} BY <2>2 DEF Part
    <3>2. EX!At(Table(chain, key, J), g, EX!Empty) = EX!Empty BY <2>2 DEF Table, EX!At
    <3> QED BY <3>1, <3>2, AccEmpty
  <2> QED BY <2>1, <2>2
<1>2. EX!Add(Acc(chain, Part(key, J, g)), chain[n]) = Acc(chain, Part(key, I, g))
  <2>1. Part(key, I, g) = Part(key, J, g) \cup {n} BY DEF Part
  <2>2. Part(key, J, g) \in SUBSET Places(chain) /\ n \notin Part(key, J, g) BY DEF Part
  <2> HIDE DEF g
  <2>3. EX!Add(Acc(chain, Part(key, J, g)), chain[n]) = Acc(chain, Part(key, J, g) \cup {n})
    BY <2>2, AccStep
  <2> QED BY <2>1, <2>3
<1>3. \A u : u # g => Part(key, I, u) = Part(key, J, u) BY DEF Part
<1>4. {key[i] : i \in I} = {key[i] : i \in J} \cup {g} OBVIOUS
<1> HIDE DEF g, I
<1> QED BY <1>1, <1>2, <1>3, <1>4 DEF Table, EX!Put, g, I

ExpiryKeys(chain) == [i \in 1..Len(chain) |-> <<chain[i].expiry, chain[i].class>>]
ClassKeys(chain) == [i \in 1..Len(chain) |-> chain[i].class]
Live(chain, today, n) == {i \in 1..n : EX!Priced(chain[i], today)}

\* What the pass has summed up over the contracts I.
State(chain, I) ==
  [book |-> Acc(chain, I), expiries |-> Table(chain, ExpiryKeys(chain), I),
   classes |-> IF EX!MultiClass(chain) THEN Table(chain, ClassKeys(chain), I) ELSE EX!NoCurve]

LEMMA StateEmpty ==
  ASSUME NEW chain
  PROVE  State(chain, {}) = [book |-> EX!Empty, expiries |-> EX!NoCurve, classes |-> EX!NoCurve]
<1>1. ASSUME NEW key PROVE Table(chain, key, {}) = EX!NoCurve
  <2>1. {key[i] : i \in {}} = {} OBVIOUS
  <2> QED BY <2>1 DEF Table, EX!NoCurve
<1> QED BY <1>1, AccEmpty DEF State

LEMMA StateStep ==
  ASSUME NEW chain, IsChain(chain), NEW J \in SUBSET Places(chain), NEW n \in Places(chain),
         n \notin J
  PROVE  EX!Count(State(chain, J), chain[n], EX!MultiClass(chain)) = State(chain, J \cup {n})
<1> DEFINE s == State(chain, J)
           multi == EX!MultiClass(chain)
<1>1. EX!Add(s.book, chain[n]) = Acc(chain, J \cup {n}) BY AccStep DEF State
<1>2. EX!Put(s.expiries, EX!ExpiryKey(chain[n]),
             EX!Add(EX!At(s.expiries, EX!ExpiryKey(chain[n]), EX!Empty), chain[n]))
        = Table(chain, ExpiryKeys(chain), J \cup {n})
  <2>1. ExpiryKeys(chain)[n] = EX!ExpiryKey(chain[n]) BY DEF ExpiryKeys, EX!ExpiryKey, Places
  <2>2. s.expiries = Table(chain, ExpiryKeys(chain), J) BY DEF State
  <2> HIDE DEF s
  <2> QED BY <2>1, <2>2, TableStep
<1>3. EX!Put(Table(chain, ClassKeys(chain), J), chain[n].class,
             EX!Add(EX!At(Table(chain, ClassKeys(chain), J), chain[n].class, EX!Empty), chain[n]))
        = Table(chain, ClassKeys(chain), J \cup {n})
  <2>1. ClassKeys(chain)[n] = chain[n].class BY DEF ClassKeys, Places
  <2> QED BY <2>1, TableStep
<1>4. s.classes = IF multi THEN Table(chain, ClassKeys(chain), J) ELSE EX!NoCurve BY DEF State
<1>5. State(chain, J \cup {n}) =
        [book |-> Acc(chain, J \cup {n}), expiries |-> Table(chain, ExpiryKeys(chain), J \cup {n}),
         classes |-> IF multi THEN Table(chain, ClassKeys(chain), J \cup {n}) ELSE EX!NoCurve]
  BY DEF State
<1> HIDE DEF s, multi
<1>6. CASE multi
  <2>1. EX!Put(s.classes, chain[n].class,
               EX!Add(EX!At(s.classes, chain[n].class, EX!Empty), chain[n]))
          = Table(chain, ClassKeys(chain), J \cup {n})
    BY <1>3, <1>4, <1>6
  <2> QED BY <1>1, <1>2, <2>1, <1>5, <1>6 DEF EX!Count, s, multi
<1>7. CASE ~multi
  <2>1. s.classes = EX!NoCurve BY <1>4, <1>7
  <2> QED BY <1>1, <1>2, <2>1, <1>5, <1>7 DEF EX!Count, s, multi
<1> QED BY <1>6, <1>7

LEMMA LiveStep ==
  ASSUME NEW chain, IsChain(chain), NEW today, NEW n \in 1..Len(chain)
  PROVE  /\ Live(chain, today, n - 1) \in SUBSET Places(chain)
         /\ n \notin Live(chain, today, n - 1)
         /\ Live(chain, today, n) = IF EX!Priced(chain[n], today)
                                      THEN Live(chain, today, n - 1) \cup {n}
                                      ELSE Live(chain, today, n - 1)
<1>1. n - 1 \in Nat /\ Len(chain) \in Nat /\ 1..n = (1..(n - 1)) \cup {n} BY DEF IsChain
<1>2. \A i \in 1..(n - 1) : i \in 1..Len(chain) /\ i # n BY <1>1
<1> QED BY <1>1, <1>2 DEF Live, Places

LEMMA SumsAre ==
  ASSUME NEW chain, IsChain(chain), NEW today
  PROVE  EX!Sums(chain, today) = State(chain, Live(chain, today, Len(chain)))
<1> DEFINE N == Len(chain)
           F(n) == State(chain, Live(chain, today, n))
           Pass(f) == f = [i \in 0..N |->
             IF i = 0 THEN [book |-> EX!Empty, expiries |-> EX!NoCurve, classes |-> EX!NoCurve]
             ELSE IF EX!Priced(chain[i], today)
                    THEN EX!Count(f[i - 1], chain[i], EX!MultiClass(chain))
             ELSE f[i - 1]]
<1>1. EX!Sums(chain, today) = (CHOOSE f : Pass(f))[N] BY DEF EX!Sums
<1>2. F(0) = [book |-> EX!Empty, expiries |-> EX!NoCurve, classes |-> EX!NoCurve]
  <2>1. Live(chain, today, 0) = {} BY DEF Live
  <2> QED BY <2>1, StateEmpty
<1>3. ASSUME NEW n \in 1..N
      PROVE  F(n) = IF EX!Priced(chain[n], today)
                      THEN EX!Count(F(n - 1), chain[n], EX!MultiClass(chain)) ELSE F(n - 1)
  <2>1. CASE EX!Priced(chain[n], today)
    <3>1. Live(chain, today, n) = Live(chain, today, n - 1) \cup {n} BY <2>1, LiveStep
    <3>2. /\ Live(chain, today, n - 1) \in SUBSET Places(chain)
          /\ n \notin Live(chain, today, n - 1)
      BY LiveStep
    <3>3. n \in Places(chain) BY DEF Places
    <3> QED BY <2>1, <3>1, <3>2, <3>3, StateStep
  <2>2. CASE ~EX!Priced(chain[n], today)
    <3>1. Live(chain, today, n) = Live(chain, today, n - 1) BY <2>2, LiveStep
    <3> QED BY <2>2, <3>1
  <2> QED BY <2>1, <2>2
<1>4. N \in Nat BY DEF IsChain
<1> HIDE DEF F, N
<1>5. \E f : Pass(f)
  <2> DEFINE f == [i \in 0..N |-> F(i)]
  <2>1. ASSUME NEW i \in 0..N, i # 0 PROVE i \in 1..N /\ i - 1 \in 0..N BY <1>4, <2>1
  <2>2. Pass(f) BY <1>2, <1>3, <2>1
  <2> QED BY <2>2
<1>6. Pass(CHOOSE f : Pass(f))
  <2> HIDE DEF Pass
  <2> QED BY <1>5
<1> DEFINE f == CHOOSE f : Pass(f)
<1> HIDE DEF f
<1>7. Pass(f) BY <1>6 DEF f
<1> DEFINE Bad == {n \in 0..N : f[n] # F(n)}
<1>8. Bad = {}
  <2> SUFFICES ASSUME Bad # {} PROVE FALSE OBVIOUS
  <2>1. Bad \subseteq Nat BY <1>4
  <2>2. PICK n \in Bad : \A k \in Bad : n <= k
    <3> HIDE DEF Bad
    <3> QED BY <2>1, Least
  <2>3. n \in 0..N /\ f[n] # F(n) BY <2>2
  <2>4. n # 0 BY <2>3, <1>2, <1>7
  <2>5. n \in 1..N /\ n - 1 \in 0..N /\ n - 1 \notin Bad BY <1>4, <2>2, <2>3, <2>4
  <2>6. f[n - 1] = F(n - 1) BY <2>5
  <2>7. f[n] = IF EX!Priced(chain[n], today)
                 THEN EX!Count(f[n - 1], chain[n], EX!MultiClass(chain)) ELSE f[n - 1]
    BY <1>7, <2>3, <2>4
  <2> QED BY <2>3, <2>5, <2>6, <2>7, <1>3
<1>9. N \in 0..N BY <1>4
<1>10. f[N] = F(N) BY <1>8, <1>9
<1> QED BY <1>1, <1>10 DEF f, F, N

\* The sum of the properties is the sum of the lemmas.
LEMMA NetOfIs ==
  ASSUME NEW chain, NEW I \in SUBSET Places(chain) PROVE EX!NetOf(chain, I) = Net(chain, I)
<1>1. [i \in I |-> chain[i].gex] = On(Gex(chain), I) BY DEF On, Gex, Places
<1> QED BY <1>1 DEF EX!NetOf, Net, Total

\* ComputeSnapshot counts every contract once everywhere, whatever the chain.
LEMMA EveryContractOnce ==
  ASSUME NEW chain, IsChain(chain), NEW today PROVE EX!CountedOnce(chain, today)
<1> DEFINE live == Live(chain, today, Len(chain))
           s == EX!ComputeSnapshot(chain, today)
           keys == ExpiryKeys(chain)
           kinds == ClassKeys(chain)
<1>1. live \in SUBSET Places(chain) BY DEF Live, Places
<1>2. /\ s.total = Net(chain, live) /\ s.perStrike = Curve(chain, live)
      /\ s.perExpiry = Table(chain, keys, live)
      /\ EX!MultiClass(chain) => s.classes = Table(chain, kinds, live)
  <2>1. EX!Sums(chain, today) = State(chain, live) BY SumsAre
  <2>2. /\ State(chain, live).book = Acc(chain, live)
        /\ State(chain, live).expiries = Table(chain, keys, live)
        /\ EX!MultiClass(chain) => State(chain, live).classes = Table(chain, kinds, live)
        /\ Acc(chain, live).total = Net(chain, live) /\ Acc(chain, live).curve = Curve(chain, live)
    BY DEF State, Acc
  <2> HIDE DEF live, keys, kinds
  <2> QED BY <2>1, <2>2 DEF EX!ComputeSnapshot
<1>4. ASSUME NEW I \in SUBSET Places(chain) PROVE EX!NetOf(chain, I) = Net(chain, I)
  BY NetOfIs
<1>5. ASSUME NEW key PROVE EX!SumOf(Table(chain, key, live)) = Net(chain, live)
  <2> HIDE DEF live
  <2>1. \A g : Acc(chain, Part(key, live, g)).total = Net(chain, Part(key, live, g)) BY DEF Acc
  <2>2. [g \in DOMAIN Table(chain, key, live) |-> Table(chain, key, live)[g].total]
          = ByKey(Gex(chain), key, live)
    BY <2>1 DEF Table, ByKey, Net
  <2>3. Net(chain, live) = Total(ByKey(Gex(chain), key, live)) BY <1>1, NetByKey
  <2> QED BY <2>2, <2>3 DEF EX!SumOf, Total
<1>6. live = {i \in 1..Len(chain) : EX!Priced(chain[i], today)} BY DEF Live
<1>7. \A i \in live : keys[i] = <<chain[i].expiry, chain[i].class>>
  <2> HIDE DEF live
  <2> QED BY <1>1 DEF ExpiryKeys, Places
<1> HIDE DEF live, s, keys, kinds
<1>a. \A i \in live : kinds[i] = chain[i].class
  BY <1>1 DEF ClassKeys, Places, kinds
<1>8. /\ s.total = EX!NetOf(chain, live) /\ s.total = EX!SumOf(s.perExpiry)
      /\ EX!MultiClass(chain) => s.total = EX!SumOf(s.classes)
  BY <1>1, <1>2, <1>4, <1>5
<1>9. DOMAIN s.perExpiry = {<<chain[i].expiry, chain[i].class>> : i \in live}
  <2>1. DOMAIN s.perExpiry = {keys[i] : i \in live} BY <1>2 DEF Table
  <2> QED BY <2>1, <1>7
<1>10. ASSUME NEW g \in DOMAIN s.perExpiry
       PROVE  s.perExpiry[g].total =
                EX!NetOf(chain, {i \in live : <<chain[i].expiry, chain[i].class>> = g})
  <2>1. s.perExpiry[g].total = Net(chain, Part(keys, live, g)) BY <1>2 DEF Table, Acc
  <2>2. Part(keys, live, g) = {i \in live : <<chain[i].expiry, chain[i].class>> = g}
    BY <1>7 DEF Part
  <2>3. Part(keys, live, g) \in SUBSET Places(chain) BY <1>1 DEF Part
  <2> QED BY <2>1, <2>2, <2>3, <1>4
<1>11. DOMAIN s.perStrike = {chain[i].strike : i \in live} BY <1>2 DEF Curve
<1>12. ASSUME NEW k \in DOMAIN s.perStrike
       PROVE  /\ s.perStrike[k].net = s.perStrike[k].call + s.perStrike[k].put
              /\ s.perStrike[k].net = EX!NetOf(chain, {i \in live : chain[i].strike = k})
  <2> DEFINE K == Strikes(chain, live, k)
             L == {i \in K : chain[i].right = "C"}
             M == {i \in K : chain[i].right # "C"}
  <2>1. s.perStrike[k] = AtStrike(chain, K) BY <1>2 DEF Curve
  <2>2. K \in SUBSET Places(chain) /\ K = {i \in live : chain[i].strike = k}
    BY <1>1 DEF Strikes
  <2>3. K = L \cup M /\ L \cap M = {} OBVIOUS
  <2>4. AtStrike(chain, K) = [call |-> Net(chain, L), put |-> Net(chain, M), net |-> Net(chain, K)]
    BY DEF AtStrike
  <2> HIDE DEF K, L, M
  <2>5. Net(chain, K) = Net(chain, L) + Net(chain, M) BY <2>2, <2>3, NetSplit
  <2>6. EX!NetOf(chain, K) = Net(chain, K) BY <2>2, <1>4
  <2>7. /\ s.perStrike[k].net = Net(chain, K) /\ s.perStrike[k].call = Net(chain, L)
        /\ s.perStrike[k].put = Net(chain, M)
    BY <2>1, <2>4
  <2> QED BY <2>2, <2>5, <2>6, <2>7, Zenon
<1>13. ASSUME EX!MultiClass(chain)
       PROVE  /\ DOMAIN s.classes = {chain[i].class : i \in live}
              /\ \A k \in DOMAIN s.classes :
                   s.classes[k].total = EX!NetOf(chain, {i \in live : chain[i].class = k})
  <2>1. s.classes = Table(chain, kinds, live) BY <1>2, <1>13
  <2>2. DOMAIN s.classes = {kinds[i] : i \in live} BY <2>1 DEF Table
  <2>3. DOMAIN s.classes = {chain[i].class : i \in live} BY <2>2, <1>a
  <2>4. ASSUME NEW k \in DOMAIN s.classes
        PROVE  s.classes[k].total = EX!NetOf(chain, {i \in live : chain[i].class = k})
    <3>1. s.classes[k].total = Net(chain, Part(kinds, live, k)) BY <2>1 DEF Table, Acc
    <3>2. Part(kinds, live, k) = {i \in live : chain[i].class = k} BY <1>a DEF Part
    <3>3. Part(kinds, live, k) \in SUBSET Places(chain) BY <1>1 DEF Part
    <3> QED BY <3>1, <3>2, <3>3, <1>4
  <2> QED BY <2>3, <2>4
<1> QED BY <1>6, <1>8, <1>9, <1>10, <1>11, <1>12, <1>13 DEF EX!CountedOnce, s

-----------------------------------------------------------------------------
(* The same contracts in another order.                                    *)

Reordered(chain, other, p) ==
  /\ p \in [Places(chain) -> Places(chain)]
  /\ \A x, y \in Places(chain) : p[x] = p[y] => x = y
  /\ \A y \in Places(chain) : \E x \in Places(chain) : p[x] = y
  /\ other = [i \in 1..Len(chain) |-> chain[p[i]]]

\* Where the contracts of I stand in the first chain.
Image(p, I) == {p[i] : i \in I}

LEMMA MovedChain ==
  ASSUME NEW chain, IsChain(chain), NEW other, NEW p, Reordered(chain, other, p)
  PROVE  /\ Len(other) = Len(chain) /\ Places(other) = Places(chain) /\ IsChain(other)
         /\ \A i \in Places(chain) : p[i] \in Places(chain) /\ other[i] = chain[p[i]]
         /\ \A I \in SUBSET Places(chain) : Image(p, I) \in SUBSET Places(chain)
         /\ Image(p, Places(chain)) = Places(chain)
<1>1. Len(chain) \in Nat BY DEF IsChain
<1>2. \A i \in 1..Len(chain) : p[i] \in 1..Len(chain) BY DEF Reordered, Places
<1>3. other = [i \in 1..Len(chain) |-> chain[p[i]]] BY DEF Reordered
<1>4. Len(other) = Len(chain) BY <1>1, <1>3
<1>5. \A i \in 1..Len(chain) : other[i] = chain[p[i]] BY <1>3
<1>6. IsChain(other) BY <1>1, <1>2, <1>4, <1>5 DEF IsChain
<1>7. /\ \A I \in SUBSET Places(chain) : Image(p, I) \in SUBSET Places(chain)
      /\ Image(p, Places(chain)) = Places(chain)
  BY DEF Image, Reordered
<1> QED BY <1>2, <1>4, <1>5, <1>6, <1>7 DEF Places

\* Any sum over the contracts.
LEMMA TotalMoved ==
  ASSUME NEW chain, IsChain(chain), NEW other, NEW p, Reordered(chain, other, p),
         NEW w, Family(Places(chain), w), NEW v, \A i \in Places(chain) : v[i] = w[p[i]],
         NEW I \in SUBSET Places(chain)
  PROVE  Total(On(v, I)) = Total(On(w, Image(p, I)))
<1>1. IsFiniteSet(Places(chain)) BY DEF Family
<1>2. On(v, I) = [x \in I |-> w[p[x]]] BY DEF On
<1>3. Total([x \in I |-> w[p[x]]]) = Total(On(w, {p[x] : x \in I}))
  BY <1>1, TotalRenamed DEF Reordered
<1> QED BY <1>2, <1>3 DEF Image

LEMMA NetMoved ==
  ASSUME NEW chain, IsChain(chain), NEW other, NEW p, Reordered(chain, other, p),
         NEW I \in SUBSET Places(chain)
  PROVE  Net(other, I) = Net(chain, Image(p, I))
<1>1. Family(Places(chain), Gex(chain)) BY GexFamily
<1>2. \A i \in Places(chain) : Gex(other)[i] = Gex(chain)[p[i]]
  BY MovedChain DEF Gex, Places
<1> QED BY <1>1, <1>2, TotalMoved DEF Net

LEMMA StrikesMoved ==
  ASSUME NEW chain, IsChain(chain), NEW other, NEW p, Reordered(chain, other, p),
         NEW I \in SUBSET Places(chain)
  PROVE  \A k : /\ Strikes(other, I, k) \in SUBSET Places(chain)
                /\ Image(p, Strikes(other, I, k)) = Strikes(chain, Image(p, I), k)
<1>1. \A i \in I : other[i] = chain[p[i]] BY MovedChain
<1> QED BY <1>1 DEF Image, Strikes

LEMMA CurveMoved ==
  ASSUME NEW chain, IsChain(chain), NEW other, NEW p, Reordered(chain, other, p),
         NEW I \in SUBSET Places(chain)
  PROVE  Curve(other, I) = Curve(chain, Image(p, I))
<1>1. ASSUME NEW K \in SUBSET Places(chain)
      PROVE  AtStrike(other, K) = AtStrike(chain, Image(p, K))
  <2> DEFINE L == {i \in K : other[i].right = "C"}
             M == {i \in K : other[i].right # "C"}
             L1 == {i \in Image(p, K) : chain[i].right = "C"}
             M1 == {i \in Image(p, K) : chain[i].right # "C"}
  <2>1. \A i \in K : other[i] = chain[p[i]] BY MovedChain
  <2>2. Image(p, L) = L1 /\ Image(p, M) = M1 BY <2>1 DEF Image
  <2>3. L \in SUBSET Places(chain) /\ M \in SUBSET Places(chain) OBVIOUS
  <2>4. /\ AtStrike(other, K) =
             [call |-> Net(other, L), put |-> Net(other, M), net |-> Net(other, K)]
        /\ AtStrike(chain, Image(p, K)) =
             [call |-> Net(chain, L1), put |-> Net(chain, M1), net |-> Net(chain, Image(p, K))]
    BY DEF AtStrike
  <2> HIDE DEF L, M, L1, M1
  <2>5. Net(other, L) = Net(chain, L1) /\ Net(other, M) = Net(chain, M1)
    BY <2>2, <2>3, NetMoved
  <2>6. Net(other, K) = Net(chain, Image(p, K)) BY NetMoved
  <2> QED BY <2>4, <2>5, <2>6
<1>2. \A k : AtStrike(other, Strikes(other, I, k))
               = AtStrike(chain, Strikes(chain, Image(p, I), k))
  <2> TAKE k
  <2> DEFINE K == Strikes(other, I, k)
  <2>1. K \in SUBSET Places(chain) /\ Image(p, K) = Strikes(chain, Image(p, I), k) BY StrikesMoved
  <2> HIDE DEF K
  <2>2. AtStrike(other, K) = AtStrike(chain, Strikes(chain, Image(p, I), k)) BY <1>1, <2>1
  <2> QED BY <2>2 DEF K
<1>3. {other[i].strike : i \in I} = {chain[i].strike : i \in Image(p, I)}
  <2>1. \A i \in I : other[i] = chain[p[i]] BY MovedChain
  <2> QED BY <2>1 DEF Image
<1> QED BY <1>2, <1>3 DEF Curve

LEMMA AccMoved ==
  ASSUME NEW chain, IsChain(chain), NEW other, NEW p, Reordered(chain, other, p),
         NEW I \in SUBSET Places(chain)
  PROVE  Acc(other, I) = Acc(chain, Image(p, I))
<1>1. \A i \in I : other[i] = chain[p[i]] BY MovedChain
<1>2. (\E i \in I : other[i].right = "C") = (\E i \in Image(p, I) : chain[i].right = "C")
  BY <1>1 DEF Image
<1>3. (\E i \in I : other[i].right # "C") = (\E i \in Image(p, I) : chain[i].right # "C")
  BY <1>1 DEF Image
<1>4. Net(other, I) = Net(chain, Image(p, I)) BY NetMoved
<1>5. Curve(other, I) = Curve(chain, Image(p, I)) BY CurveMoved
<1> QED BY <1>2, <1>3, <1>4, <1>5 DEF Acc

LEMMA TableMoved ==
  ASSUME NEW chain, IsChain(chain), NEW other, NEW p, Reordered(chain, other, p),
         NEW key, NEW moved, \A i \in Places(chain) : moved[i] = key[p[i]],
         NEW I \in SUBSET Places(chain)
  PROVE  Table(other, moved, I) = Table(chain, key, Image(p, I))
<1>1. {moved[i] : i \in I} = {key[i] : i \in Image(p, I)} BY DEF Image
<1>2. ASSUME NEW g
      PROVE  Acc(other, Part(moved, I, g)) = Acc(chain, Part(key, Image(p, I), g))
  <2> DEFINE K == Part(moved, I, g)
  <2>1. K \in SUBSET Places(chain) /\ Image(p, K) = Part(key, Image(p, I), g)
    BY DEF Part, Image
  <2> HIDE DEF K
  <2>2. Acc(other, K) = Acc(chain, Image(p, K)) BY <2>1, AccMoved
  <2> QED BY <2>1, <2>2 DEF K
<1> QED BY <1>1, <1>2 DEF Table

LEMMA SumsMoved ==
  ASSUME NEW chain, IsChain(chain), NEW other, NEW p, Reordered(chain, other, p), NEW today
  PROVE  EX!Sums(other, today) = EX!Sums(chain, today)
<1> DEFINE I == Live(other, today, Len(other))
           J == Live(chain, today, Len(chain))
<1>1. /\ Len(other) = Len(chain) /\ Places(other) = Places(chain) /\ IsChain(other)
      /\ \A i \in Places(chain) : p[i] \in Places(chain) /\ other[i] = chain[p[i]]
      /\ Image(p, Places(chain)) = Places(chain)
  BY MovedChain
<1>2. I \in SUBSET Places(chain) BY <1>1 DEF Live, Places
<1>3. Image(p, I) = J
  <2>1. I = {i \in Places(chain) : EX!Priced(chain[p[i]], today)} BY <1>1 DEF Live, Places
  <2>2. J = {i \in Places(chain) : EX!Priced(chain[i], today)} BY DEF Live, Places
  <2> HIDE DEF I, J
  <2> QED BY <2>1, <2>2, <1>1 DEF Image
<1> HIDE DEF I, J
<1>4. EX!MultiClass(other) = EX!MultiClass(chain)
  <2>1. EX!ClassesOf(other) = {chain[p[i]].class : i \in Places(chain)}
    BY <1>1 DEF EX!ClassesOf, Places
  <2>2. EX!ClassesOf(chain) = {chain[i].class : i \in Places(chain)} BY DEF EX!ClassesOf, Places
  <2>3. EX!ClassesOf(other) = EX!ClassesOf(chain) BY <2>1, <2>2, <1>1 DEF Image
  <2> QED BY <2>3 DEF EX!MultiClass
<1>5. Acc(other, I) = Acc(chain, J) BY <1>2, <1>3, AccMoved
<1>6. Table(other, ExpiryKeys(other), I) = Table(chain, ExpiryKeys(chain), J)
  <2>1. \A i \in Places(chain) : ExpiryKeys(other)[i] = ExpiryKeys(chain)[p[i]]
    BY <1>1 DEF ExpiryKeys, Places
  <2> QED BY <2>1, <1>2, <1>3, TableMoved
<1>7. Table(other, ClassKeys(other), I) = Table(chain, ClassKeys(chain), J)
  <2>1. \A i \in Places(chain) : ClassKeys(other)[i] = ClassKeys(chain)[p[i]]
    BY <1>1 DEF ClassKeys, Places
  <2> QED BY <2>1, <1>2, <1>3, TableMoved
<1>8. State(other, I) = State(chain, J) BY <1>4, <1>5, <1>6, <1>7 DEF State
<1>9. EX!Sums(other, today) = State(other, I) BY <1>1, SumsAre DEF I
<1>10. EX!Sums(chain, today) = State(chain, J) BY SumsAre DEF J
<1> QED BY <1>8, <1>9, <1>10

-----------------------------------------------------------------------------
(* blendedVols: the quote that stands for a strike.  A quoted call stands  *)
(* for it wherever it is listed, else a quoted put.                        *)

Ivs(chain) == [i \in 1..Len(chain) |-> chain[i].iv]
Ones(chain) == [i \in 1..Len(chain) |-> 1]

CallQuotes(chain, K) ==
  {chain[i].quote : i \in {j \in K : chain[j].right = "C" /\ chain[j].quote # "none"}}
PutQuotes(chain, K) ==
  {chain[i].quote : i \in {j \in K : chain[j].right # "C" /\ chain[j].quote # "none"}}

Standing(chain, K) ==
  IF CallQuotes(chain, K) # {} THEN Chosen(CallQuotes(chain, K))
  ELSE IF PutQuotes(chain, K) # {} THEN Chosen(PutQuotes(chain, K)) ELSE "none"

QuoteAt(chain, K) ==
  [sum |-> Total(On(Ivs(chain), K)), n |-> Total(On(Ones(chain), K)),
   quote |-> Standing(chain, K)]

Quotes(chain, I) ==
  [k \in {chain[i].strike : i \in I} |-> QuoteAt(chain, Strikes(chain, I, k))]

\* A chain lists an identity once.
Distinct(chain) ==
  /\ \A i \in Places(chain) : chain[i].right \in {"C", "P"}
  /\ \A i, j \in Places(chain) :
       /\ chain[i].strike = chain[j].strike /\ chain[i].right = chain[j].right
       /\ chain[i].class = chain[j].class /\ chain[i].expiry = chain[j].expiry
       => i = j

LEMMA IvFamilies ==
  ASSUME NEW chain, IsChain(chain)
  PROVE  /\ Family(Places(chain), Ivs(chain)) /\ Family(Places(chain), Ones(chain))
         /\ \A i \in Places(chain) : Ivs(chain)[i] = chain[i].iv /\ Ones(chain)[i] = 1
<1>1. IsFiniteSet(1..Len(chain))
  <2>1. Len(chain) \in Int /\ 1 \in Int BY DEF IsChain
  <2> QED BY <2>1, FS_Interval
<1> QED BY <1>1 DEF Family, Ivs, Ones, IsChain, Places

LEMMA SingleChosen == ASSUME NEW v PROVE Chosen({v}) = v
BY DEF Chosen

\* The quotes of one strike: at most a call's and a put's.
LEMMA StandingStep ==
  ASSUME NEW chain, IsChain(chain), NEW K \in SUBSET Places(chain), NEW n \in Places(chain),
         n \notin K, \A i \in K \cup {n} : chain[i].right \in {"C", "P"},
         \A i, j \in K \cup {n} : chain[i].right = chain[j].right => i = j
  PROVE  EX!Represent(Standing(chain, K), chain[n]) = Standing(chain, K \cup {n})
<1> DEFINE A == CallQuotes(chain, K)
           B == PutQuotes(chain, K)
           A1 == CallQuotes(chain, K \cup {n})
           B1 == PutQuotes(chain, K \cup {n})
           q == chain[n].quote
<1>1. "none" \notin A /\ "none" \notin B BY DEF CallQuotes, PutQuotes
<1>2. CASE q = "none"
  <2>1. A1 = A /\ B1 = B BY <1>2 DEF CallQuotes, PutQuotes
  <2> HIDE DEF A, B, A1, B1
  <2>2. Standing(chain, K \cup {n}) = Standing(chain, K) BY <2>1 DEF Standing, A, B, A1, B1
  <2> QED BY <2>2, <1>2 DEF EX!Represent
<1>3. CASE q # "none" /\ chain[n].right = "C"
  <2>1. A1 = {q} BY <1>3 DEF CallQuotes
  <2> HIDE DEF A1
  <2>2. Standing(chain, K \cup {n}) = q BY <2>1, SingleChosen DEF Standing, A1
  <2> QED BY <2>2, <1>3 DEF EX!Represent
<1>4. CASE q # "none" /\ chain[n].right # "C"
  <2>1. A1 = A BY <1>4 DEF CallQuotes
  <2>2. B = {} /\ B1 = {q}
    <3>1. \A i \in K : chain[i].right = "C" BY <1>4
    <3> QED BY <3>1, <1>4 DEF PutQuotes
  <2> HIDE DEF A, B, A1, B1
  <2>3. CASE A = {}
    <3>1. Standing(chain, K) = "none" BY <2>3, <2>2 DEF Standing, A, B
    <3>2. Standing(chain, K \cup {n}) = q
      BY <2>1, <2>2, <2>3, SingleChosen DEF Standing, A1, B1
    <3> QED BY <3>1, <3>2 DEF EX!Represent
  <2>4. CASE A # {}
    <3>1. Standing(chain, K) = Chosen(A) /\ Standing(chain, K \cup {n}) = Chosen(A)
      BY <2>1, <2>4 DEF Standing, A, A1
    <3>2. Chosen(A) # "none" BY <2>4, <1>1, ChosenIn
    <3> QED BY <3>1, <3>2, <1>4 DEF EX!Represent
  <2> QED BY <2>3, <2>4
<1> QED BY <1>2, <1>3, <1>4

LEMMA QuotesAt ==
  ASSUME NEW chain, NEW I, NEW k
  PROVE  EX!At(Quotes(chain, I), k, EX!Unquoted) = QuoteAt(chain, Strikes(chain, I, k))
<1>1. CASE k \in {chain[i].strike : i \in I} BY <1>1 DEF Quotes, EX!At
<1>2. CASE k \notin {chain[i].strike : i \in I}
  <2>1. Strikes(chain, I, k) = {} BY <1>2 DEF Strikes
  <2>2. CallQuotes(chain, {}) = {} /\ PutQuotes(chain, {}) = {} BY DEF CallQuotes, PutQuotes
  <2>3. Standing(chain, {}) = "none" BY <2>2 DEF Standing
  <2>4. QuoteAt(chain, {}) = EX!Unquoted BY <2>3, OnEmpty DEF QuoteAt, EX!Unquoted
  <2>5. EX!At(Quotes(chain, I), k, EX!Unquoted) = EX!Unquoted BY <1>2 DEF Quotes, EX!At
  <2> QED BY <2>1, <2>4, <2>5
<1> QED BY <1>1, <1>2

\* The contracts of a group that quote a volatility, among the first n.
Quoting(chain, group, n) ==
  {i \in 1..n : chain[i].iv > 0 /\ <<chain[i].expiry, chain[i].class>> = group}

LEMMA QuotesStep ==
  ASSUME NEW chain, IsChain(chain), Distinct(chain), NEW group, NEW J \in SUBSET Places(chain),
         NEW n \in Places(chain), n \notin J,
         \A i \in J \cup {n} : <<chain[i].expiry, chain[i].class>> = group
  PROVE  EX!Quote(Quotes(chain, J), chain[n]) = Quotes(chain, J \cup {n})
<1> DEFINE k == chain[n].strike
           I == J \cup {n}
           K == Strikes(chain, J, k)
           new == [sum |-> QuoteAt(chain, K).sum + chain[n].iv, n |-> QuoteAt(chain, K).n + 1,
                   quote |-> EX!Represent(QuoteAt(chain, K).quote, chain[n])]
<1>1. EX!Quote(Quotes(chain, J), chain[n]) = EX!Put(Quotes(chain, J), k, new)
  <2>1. EX!At(Quotes(chain, J), k, EX!Unquoted) = QuoteAt(chain, K) BY QuotesAt
  <2> QED BY <2>1 DEF EX!Quote
<1>2. new = QuoteAt(chain, Strikes(chain, I, k))
  <2>1. Strikes(chain, I, k) = K \cup {n} BY DEF Strikes
  <2>2. K \in SUBSET Places(chain) /\ n \notin K BY DEF Strikes
  <2>3. \A i \in K \cup {n} : chain[i].strike = k /\ i \in J \cup {n} /\ i \in Places(chain)
    BY DEF Strikes
  <2> HIDE DEF K, k
  <2>4. Total(On(Ivs(chain), K \cup {n})) = Total(On(Ivs(chain), K)) + chain[n].iv
    BY <2>2, IvFamilies, OnAdd
  <2>5. Total(On(Ones(chain), K \cup {n})) = Total(On(Ones(chain), K)) + 1
    BY <2>2, IvFamilies, OnAdd
  <2>6. EX!Represent(Standing(chain, K), chain[n]) = Standing(chain, K \cup {n})
    <3>1. \A i \in K \cup {n} : chain[i].right \in {"C", "P"} BY <2>3 DEF Distinct
    <3>2. \A i, j \in K \cup {n} : chain[i].right = chain[j].right => i = j
      <4>1. \A i \in K \cup {n} : <<chain[i].expiry, chain[i].class>> = group BY <2>3
      <4>2. \A i, j \in K \cup {n} :
              chain[i].class = chain[j].class /\ chain[i].expiry = chain[j].expiry
        BY <4>1
      <4> QED BY <4>2, <2>3 DEF Distinct
    <3> QED BY <2>2, <3>1, <3>2, StandingStep
  <2>7. /\ QuoteAt(chain, K).sum = Total(On(Ivs(chain), K))
        /\ QuoteAt(chain, K).n = Total(On(Ones(chain), K))
        /\ QuoteAt(chain, K).quote = Standing(chain, K)
    BY DEF QuoteAt
  <2>8. QuoteAt(chain, K \cup {n}) =
          [sum |-> Total(On(Ivs(chain), K \cup {n})), n |-> Total(On(Ones(chain), K \cup {n})),
           quote |-> Standing(chain, K \cup {n})]
    BY DEF QuoteAt
  <2> QED BY <2>1, <2>4, <2>5, <2>6, <2>7, <2>8
<1>3. \A u : u # k => Strikes(chain, I, u) = Strikes(chain, J, u) BY DEF Strikes
<1>4. {chain[i].strike : i \in I} = {chain[i].strike : i \in J} \cup {k} OBVIOUS
<1> HIDE DEF k, I, new
<1> QED BY <1>1, <1>2, <1>3, <1>4 DEF Quotes, EX!Put, I

LEMMA QuotingStep ==
  ASSUME NEW chain, IsChain(chain), NEW group, NEW n \in 1..Len(chain)
  PROVE  /\ Quoting(chain, group, n - 1) \in SUBSET Places(chain)
         /\ n \notin Quoting(chain, group, n - 1)
         /\ Quoting(chain, group, n) =
              IF chain[n].iv > 0 /\ <<chain[n].expiry, chain[n].class>> = group
                THEN Quoting(chain, group, n - 1) \cup {n} ELSE Quoting(chain, group, n - 1)
         /\ \A i \in Quoting(chain, group, n) : <<chain[i].expiry, chain[i].class>> = group
<1>1. n - 1 \in Nat /\ Len(chain) \in Nat /\ 1..n = (1..(n - 1)) \cup {n} BY DEF IsChain
<1>2. \A i \in 1..(n - 1) : i \in 1..Len(chain) /\ i # n BY <1>1
<1> QED BY <1>1, <1>2 DEF Quoting, Places

LEMMA StrikeQuotesAre ==
  ASSUME NEW chain, IsChain(chain), Distinct(chain), NEW group
  PROVE  EX!StrikeQuotes(chain, group) = Quotes(chain, Quoting(chain, group, Len(chain)))
<1> DEFINE N == Len(chain)
           Taken(i) == chain[i].iv > 0 /\ <<chain[i].expiry, chain[i].class>> = group
           F(n) == Quotes(chain, Quoting(chain, group, n))
           Pass(f) == f = [i \in 0..N |->
             IF i = 0 THEN EX!NoCurve
             ELSE IF chain[i].iv > 0 /\ <<chain[i].expiry, chain[i].class>> = group
                    THEN EX!Quote(f[i - 1], chain[i])
             ELSE f[i - 1]]
<1>1. EX!StrikeQuotes(chain, group) = (CHOOSE f : Pass(f))[N] BY DEF EX!StrikeQuotes
<1>2. F(0) = EX!NoCurve
  <2>1. Quoting(chain, group, 0) = {} BY DEF Quoting
  <2>2. {chain[i].strike : i \in {}} = {} OBVIOUS
  <2> QED BY <2>1, <2>2 DEF Quotes, EX!NoCurve
<1>3. ASSUME NEW n \in 1..N
      PROVE  F(n) = IF Taken(n) THEN EX!Quote(F(n - 1), chain[n]) ELSE F(n - 1)
  <2> DEFINE J == Quoting(chain, group, n - 1)
  <2>1. J \in SUBSET Places(chain) /\ n \notin J /\ n \in Places(chain)
    BY QuotingStep DEF Places
  <2>2. CASE Taken(n)
    <3>1. Quoting(chain, group, n) = J \cup {n} BY <2>2, QuotingStep
    <3>2. \A i \in J \cup {n} : <<chain[i].expiry, chain[i].class>> = group
      BY <3>1, QuotingStep
    <3> HIDE DEF J
    <3>3. EX!Quote(Quotes(chain, J), chain[n]) = Quotes(chain, J \cup {n})
      BY <2>1, <3>2, QuotesStep
    <3> QED BY <2>2, <3>1, <3>3 DEF J
  <2>3. CASE ~Taken(n)
    <3>1. Quoting(chain, group, n) = J BY <2>3, QuotingStep
    <3> QED BY <2>3, <3>1
  <2> QED BY <2>2, <2>3
<1>4. N \in Nat BY DEF IsChain
<1> HIDE DEF F, N
<1>5. \E f : Pass(f)
  <2> DEFINE f == [i \in 0..N |-> F(i)]
  <2>1. ASSUME NEW i \in 0..N, i # 0 PROVE i \in 1..N /\ i - 1 \in 0..N BY <1>4, <2>1
  <2>2. Pass(f) BY <1>2, <1>3, <2>1
  <2> QED BY <2>2
<1>6. Pass(CHOOSE f : Pass(f))
  <2> HIDE DEF Pass
  <2> QED BY <1>5
<1> DEFINE f == CHOOSE f : Pass(f)
<1> HIDE DEF f
<1>7. Pass(f) BY <1>6 DEF f
<1> DEFINE Bad == {n \in 0..N : f[n] # F(n)}
<1>8. Bad = {}
  <2> SUFFICES ASSUME Bad # {} PROVE FALSE OBVIOUS
  <2>1. Bad \subseteq Nat BY <1>4
  <2>2. PICK n \in Bad : \A k \in Bad : n <= k
    <3> HIDE DEF Bad
    <3> QED BY <2>1, Least
  <2>3. n \in 0..N /\ f[n] # F(n) BY <2>2
  <2>4. n # 0 BY <2>3, <1>2, <1>7
  <2>5. n \in 1..N /\ n - 1 \in 0..N /\ n - 1 \notin Bad BY <1>4, <2>2, <2>3, <2>4
  <2>6. f[n - 1] = F(n - 1) BY <2>5
  <2>7. f[n] = IF Taken(n) THEN EX!Quote(f[n - 1], chain[n]) ELSE f[n - 1]
    BY <1>7, <2>3, <2>4
  <2> QED BY <2>3, <2>5, <2>6, <2>7, <1>3
<1>9. N \in 0..N BY <1>4
<1>10. f[N] = F(N) BY <1>8, <1>9
<1> QED BY <1>1, <1>10 DEF f, F, N

LEMMA QuotesMoved ==
  ASSUME NEW chain, IsChain(chain), NEW other, NEW p, Reordered(chain, other, p),
         NEW I \in SUBSET Places(chain)
  PROVE  Quotes(other, I) = Quotes(chain, Image(p, I))
<1>1. ASSUME NEW K \in SUBSET Places(chain) PROVE QuoteAt(other, K) = QuoteAt(chain, Image(p, K))
  <2>1. \A i \in K : other[i] = chain[p[i]] BY MovedChain
  <2>2. /\ CallQuotes(other, K) = CallQuotes(chain, Image(p, K))
        /\ PutQuotes(other, K) = PutQuotes(chain, Image(p, K))
    BY <2>1 DEF CallQuotes, PutQuotes, Image
  <2>3. /\ Places(other) = Places(chain) /\ IsChain(other)
        /\ \A i \in Places(chain) : p[i] \in Places(chain) /\ other[i] = chain[p[i]]
    BY MovedChain
  <2>4. /\ \A i \in Places(chain) : Ivs(other)[i] = Ivs(chain)[p[i]]
        /\ \A i \in Places(chain) : Ones(other)[i] = Ones(chain)[p[i]]
    <3>1. \A i \in Places(other) : Ivs(other)[i] = other[i].iv /\ Ones(other)[i] = 1
      BY <2>3, IvFamilies
    <3>2. \A i \in Places(chain) : Ivs(chain)[i] = chain[i].iv /\ Ones(chain)[i] = 1
      BY IvFamilies
    <3> QED BY <2>3, <3>1, <3>2
  <2>5. Family(Places(chain), Ivs(chain)) /\ Family(Places(chain), Ones(chain)) BY IvFamilies
  <2>6. Total(On(Ivs(other), K)) = Total(On(Ivs(chain), Image(p, K))) BY <2>4, <2>5, TotalMoved
  <2>7. Total(On(Ones(other), K)) = Total(On(Ones(chain), Image(p, K))) BY <2>4, <2>5, TotalMoved
  <2> QED BY <2>2, <2>6, <2>7 DEF QuoteAt, Standing
<1>2. \A k : QuoteAt(other, Strikes(other, I, k)) = QuoteAt(chain, Strikes(chain, Image(p, I), k))
  <2> TAKE k
  <2> DEFINE K == Strikes(other, I, k)
  <2>1. K \in SUBSET Places(chain) /\ Image(p, K) = Strikes(chain, Image(p, I), k) BY StrikesMoved
  <2> HIDE DEF K
  <2>2. QuoteAt(other, K) = QuoteAt(chain, Strikes(chain, Image(p, I), k)) BY <1>1, <2>1
  <2> QED BY <2>2 DEF K
<1>3. {other[i].strike : i \in I} = {chain[i].strike : i \in Image(p, I)}
  <2>1. \A i \in I : other[i] = chain[p[i]] BY MovedChain
  <2> QED BY <2>1 DEF Image
<1> QED BY <1>2, <1>3 DEF Quotes

LEMMA StrikeQuotesMoved ==
  ASSUME NEW chain, IsChain(chain), Distinct(chain), NEW other, NEW p, Reordered(chain, other, p),
         NEW group
  PROVE  EX!StrikeQuotes(other, group) = EX!StrikeQuotes(chain, group)
<1> DEFINE I == Quoting(other, group, Len(other))
           J == Quoting(chain, group, Len(chain))
           Taken(x) == x.iv > 0 /\ <<x.expiry, x.class>> = group
<1>1. /\ Len(other) = Len(chain) /\ Places(other) = Places(chain) /\ IsChain(other)
      /\ \A i \in Places(chain) : p[i] \in Places(chain) /\ other[i] = chain[p[i]]
      /\ Image(p, Places(chain)) = Places(chain)
  BY MovedChain
<1>2. I \in SUBSET Places(chain) BY <1>1 DEF Quoting, Places
<1>3. Image(p, I) = J
  <2>1. I = {i \in Places(chain) : Taken(chain[p[i]])} BY <1>1 DEF Quoting, Places
  <2>2. J = {i \in Places(chain) : Taken(chain[i])} BY DEF Quoting, Places
  <2> HIDE DEF I, J, Taken
  <2> QED BY <2>1, <2>2, <1>1 DEF Image
<1>4. Distinct(other)
  <2>1. \A i, j \in Places(chain) : p[i] = p[j] => i = j BY DEF Reordered
  <2>2. ASSUME NEW i \in Places(chain), NEW j \in Places(chain),
               chain[p[i]].strike = chain[p[j]].strike, chain[p[i]].right = chain[p[j]].right,
               chain[p[i]].class = chain[p[j]].class, chain[p[i]].expiry = chain[p[j]].expiry
        PROVE  i = j
    <3>1. p[i] = p[j] BY <1>1, <2>2 DEF Distinct
    <3> QED BY <2>1, <3>1
  <2> QED BY <1>1, <2>2 DEF Distinct
<1> HIDE DEF I, J
<1>5. Quotes(other, I) = Quotes(chain, J) BY <1>2, <1>3, QuotesMoved
<1>6. EX!StrikeQuotes(other, group) = Quotes(other, I) BY <1>1, <1>4, StrikeQuotesAre DEF I
<1>7. EX!StrikeQuotes(chain, group) = Quotes(chain, J) BY StrikeQuotesAre DEF J
<1> QED BY <1>5, <1>6, <1>7

\* ComputeSnapshot and the ATM reference of every group are the same in any order.
LEMMA AnyOrder ==
  ASSUME NEW chain, IsChain(chain), Distinct(chain), NEW today, NEW spot
  PROVE  EX!OrderIrrelevant(chain, today, spot)
<1> SUFFICES ASSUME NEW p \in EX!Bijection(1..Len(chain), 1..Len(chain))
             PROVE  LET other == [i \in 1..Len(chain) |-> chain[p[i]]] IN
                    /\ EX!ComputeSnapshot(other, today) = EX!ComputeSnapshot(chain, today)
                    /\ \A i \in 1..Len(chain) :
                         LET g == <<chain[i].expiry, chain[i].class>> IN
                         EX!AtmRef(other, g, spot) = EX!AtmRef(chain, g, spot)
  BY DEF EX!OrderIrrelevant
<1> DEFINE other == [i \in 1..Len(chain) |-> chain[p[i]]]
<1>1. Reordered(chain, other, p)
  BY DEF Reordered, Places, EX!Bijection, EX!Injection, EX!Surjection, EX!IsInjective
<1> HIDE DEF other
<1>2. EX!Sums(other, today) = EX!Sums(chain, today) BY <1>1, SumsMoved
<1>3. EX!ComputeSnapshot(other, today) = EX!ComputeSnapshot(chain, today)
  BY <1>2 DEF EX!ComputeSnapshot
<1>4. ASSUME NEW g PROVE EX!AtmRef(other, g, spot) = EX!AtmRef(chain, g, spot)
  <2>1. EX!StrikeQuotes(other, g) = EX!StrikeQuotes(chain, g) BY <1>1, StrikeQuotesMoved
  <2> QED BY <2>1 DEF EX!AtmRef
<1> QED BY <1>3, <1>4 DEF other

-----------------------------------------------------------------------------
(* The extremes.  findWalls and the second pass of blendedVols go through  *)
(* sorted strikes and keep the first that no later one beats.              *)

\* s lists every member of S once, in ascending order.
Sorts(s, n, S) ==
  /\ s \in [1..n -> S]
  /\ \A k \in S : \E i \in 1..n : s[i] = k
  /\ \A i, j \in 1..n : i < j => s[i] < s[j]

\* A finite set of integers that is not empty has a greatest member.
LEMMA Greatest ==
  ASSUME NEW S, IsFiniteSet(S), S \subseteq Int, S # {} PROVE \E m \in S : \A k \in S : k <= m
<1> DEFINE Bad == {n \in Nat : \E T : /\ IsFiniteSet(T) /\ T \subseteq Int /\ T # {}
                                      /\ Cardinality(T) = n /\ ~\E m \in T : \A k \in T : k <= m}
<1>1. Cardinality(S) \in Nat BY FS_CardinalityType
<1>2. SUFFICES ASSUME Bad # {} PROVE FALSE BY <1>1
<1>3. PICK n \in Bad : \A k \in Bad : n <= k
  <2>1. Bad \subseteq Nat OBVIOUS
  <2> HIDE DEF Bad
  <2> QED BY <2>1, <1>2, Least
<1>4. PICK T : /\ IsFiniteSet(T) /\ T \subseteq Int /\ T # {} /\ Cardinality(T) = n
               /\ ~\E m \in T : \A k \in T : k <= m
  BY <1>3
<1>5. PICK x \in T : TRUE BY <1>4
<1> DEFINE R == T \ {x}
<1>6. IsFiniteSet(R) /\ Cardinality(R) = n - 1 /\ n - 1 \in Nat BY <1>4, <1>5, OneLess
<1>7. R \subseteq Int /\ x \in Int BY <1>4, <1>5
<1>8. R # {} BY <1>4, <1>5, <1>7
<1>9. n - 1 \notin Bad BY <1>3, <1>6
<1>10. PICK m \in R : \A k \in R : k <= m
  <2> HIDE DEF R
  <2> QED BY <1>6, <1>7, <1>8, <1>9
<1>11. m \in T /\ m \in Int /\ \A k \in T : k \in Int /\ (k = x \/ k <= m) BY <1>4, <1>10
<1>12. CASE x <= m BY <1>4, <1>11, <1>12
<1>13. CASE ~(x <= m)
  <2>1. \A k \in T : k <= x BY <1>7, <1>11, <1>13
  <2> QED BY <1>4, <1>5, <2>1
<1> QED BY <1>12, <1>13

LEMMA SortExists ==
  ASSUME NEW S, IsFiniteSet(S), S \subseteq Int PROVE \E s : Sorts(s, Cardinality(S), S)
<1> DEFINE Bad == {n \in Nat : \E T : /\ IsFiniteSet(T) /\ T \subseteq Int
                                      /\ Cardinality(T) = n /\ ~\E s : Sorts(s, n, T)}
<1>1. Cardinality(S) \in Nat BY FS_CardinalityType
<1>2. SUFFICES ASSUME Bad # {} PROVE FALSE BY <1>1
<1>3. PICK n \in Bad : \A k \in Bad : n <= k
  <2>1. Bad \subseteq Nat OBVIOUS
  <2> HIDE DEF Bad
  <2> QED BY <2>1, <1>2, Least
<1>4. PICK T : /\ IsFiniteSet(T) /\ T \subseteq Int /\ Cardinality(T) = n /\ ~\E s : Sorts(s, n, T)
  BY <1>3
<1>5. n \in Nat /\ T # {}
  <2>1. n \in Nat BY <1>3
  <2>2. ASSUME T = {} PROVE FALSE
    <3>1. n = 0 BY <1>4, <2>2, FS_EmptySet
    <3>2. Sorts([i \in 1..0 |-> 0], 0, {}) BY DEF Sorts
    <3> QED BY <1>4, <2>2, <3>1, <3>2
  <2> QED BY <2>1, <2>2
<1>6. PICK m \in T : \A k \in T : k <= m BY <1>4, <1>5, Greatest
<1> DEFINE R == T \ {m}
<1>7. IsFiniteSet(R) /\ Cardinality(R) = n - 1 /\ n - 1 \in Nat BY <1>4, <1>6, OneLess
<1>8. R \subseteq Int /\ m \in Int /\ n - 1 \notin Bad BY <1>3, <1>4, <1>6, <1>7
<1>9. PICK s : Sorts(s, n - 1, R)
  <2> HIDE DEF R
  <2> QED BY <1>7, <1>8
<1>10. \A k \in R : k \in T /\ k \in Int /\ k < m BY <1>4, <1>6, <1>8
<1>11. /\ s \in [1..(n - 1) -> R] /\ \A k \in R : \E i \in 1..(n - 1) : s[i] = k
       /\ \A i, j \in 1..(n - 1) : i < j => s[i] < s[j]
  BY <1>9 DEF Sorts
<1> DEFINE t == [i \in 1..n |-> IF i = n THEN m ELSE s[i]]
<1>12. /\ n \in 1..n /\ t[n] = m
       /\ \A i \in 1..n : i = n \/ (i \in 1..(n - 1) /\ t[i] = s[i])
       /\ \A i \in 1..(n - 1) : i \in 1..n /\ t[i] = s[i]
  BY <1>5, <1>7
<1>13. t \in [1..n -> T]
  <2>1. \A i \in 1..n : t[i] \in T BY <1>6, <1>10, <1>11, <1>12
  <2> QED BY <2>1
<1> HIDE DEF t
<1>14. \A k \in T : \E i \in 1..n : t[i] = k
  <2> TAKE k \in T
  <2>1. CASE k = m BY <1>12, <2>1
  <2>2. CASE k # m
    <3>1. PICK i \in 1..(n - 1) : s[i] = k BY <1>11, <2>2
    <3> QED BY <1>12, <3>1
  <2> QED BY <2>1, <2>2
<1>15. ASSUME NEW i \in 1..n, NEW j \in 1..n, i < j PROVE t[i] < t[j]
  <2>1. i \in 1..(n - 1) /\ t[i] = s[i] BY <1>5, <1>12, <1>15
  <2>2. s[i] \in R BY <2>1, <1>11
  <2>3. CASE j = n BY <2>1, <2>2, <2>3, <1>10, <1>12
  <2>4. CASE j # n BY <2>1, <2>4, <1>11, <1>12, <1>15
  <2> QED BY <2>3, <2>4
<1>16. Sorts(t, n, T) BY <1>13, <1>14, <1>15 DEF Sorts
<1> QED BY <1>4, <1>16

LEMMA AscendingSorts ==
  ASSUME NEW S, IsFiniteSet(S), S \subseteq Int
  PROVE  Sorts(EX!Ascending(S), Cardinality(S), S)
<1> DEFINE n == Cardinality(S)
           Q(s) == /\ s \in [1..n -> S]
                   /\ \A k \in S : \E i \in DOMAIN s : s[i] = k
                   /\ \A i, j \in DOMAIN s : i < j => s[i] < s[j]
<1>1. n = EX!Cardinality(S) BY DEF EX!Cardinality, Cardinality
<1>2. PICK s : Sorts(s, n, S) BY SortExists
<1> HIDE DEF n
<1>3. Q(s) BY <1>2 DEF Sorts
<1>4. EX!Ascending(S) = CHOOSE x : Q(x) BY <1>1, Zenon DEF EX!Ascending
<1>5. Q(EX!Ascending(S))
  <2> HIDE DEF Q
  <2> QED BY <1>3, <1>4
<1> QED BY <1>5 DEF Sorts, n

\* The first best of the first n keys.
Scan(keys, value, n, f) ==
  f = [i \in 1..n |-> IF i = 1 \/ value[keys[i]] > value[f[i - 1]] THEN keys[i] ELSE f[i - 1]]

LEMMA ScanExists ==
  ASSUME NEW keys, NEW value, NEW n \in Nat PROVE \E f : Scan(keys, value, n, f)
<1> DEFINE Bad == {m \in Nat : ~\E f : Scan(keys, value, m, f)}
<1>1. SUFFICES ASSUME Bad # {} PROVE FALSE OBVIOUS
<1>2. PICK m \in Bad : \A k \in Bad : m <= k
  <2>1. Bad \subseteq Nat OBVIOUS
  <2> HIDE DEF Bad
  <2> QED BY <2>1, <1>1, Least
<1>3. m # 0
  <2>1. Scan(keys, value, 0, [i \in 1..0 |-> 0]) BY DEF Scan
  <2> QED BY <2>1
<1>4. m \in Nat /\ m - 1 \in Nat /\ m - 1 \notin Bad BY <1>2, <1>3
<1>5. PICK f : Scan(keys, value, m - 1, f) BY <1>4
<1> DEFINE g == [i \in 1..m |->
                   IF i # m THEN f[i]
                   ELSE IF m = 1 \/ value[keys[m]] > value[f[m - 1]] THEN keys[m] ELSE f[m - 1]]
<1>6. \A i \in 1..(m - 1) :
        f[i] = IF i = 1 \/ value[keys[i]] > value[f[i - 1]] THEN keys[i] ELSE f[i - 1]
  BY <1>5 DEF Scan
<1>7. ASSUME NEW i \in 1..m
      PROVE  g[i] = IF i = 1 \/ value[keys[i]] > value[g[i - 1]] THEN keys[i] ELSE g[i - 1]
  <2>1. CASE i = m /\ i = 1 BY <2>1
  <2>2. CASE i = m /\ i # 1
    <3>1. i - 1 \in 1..m /\ i - 1 # m BY <1>4, <2>2
    <3>2. g[i - 1] = f[m - 1] BY <3>1, <2>2
    <3> QED BY <2>2, <3>2
  <2>3. CASE i # m /\ i = 1 BY <2>3, <1>4, <1>6
  <2>4. CASE i # m /\ i # 1
    <3>1. i - 1 \in 1..m /\ i - 1 # m /\ i \in 1..(m - 1) BY <1>4, <2>4
    <3>2. g[i - 1] = f[i - 1] /\ g[i] = f[i] BY <3>1, <2>4
    <3> QED BY <2>4, <3>1, <3>2, <1>6
  <2> QED BY <2>1, <2>2, <2>3, <2>4
<1>8. Scan(keys, value, m, g)
  <2>1. g = [i \in 1..m |-> g[i]] OBVIOUS
  <2> HIDE DEF g
  <2> QED BY <2>1, <1>7 DEF Scan
<1> QED BY <1>2, <1>8

\* No key beats lead, and of its equals it is the lowest.
Leads(value, lead) ==
  /\ lead \in DOMAIN value
  /\ \A k \in DOMAIN value : value[k] <= value[lead] /\ (value[k] = value[lead] => lead <= k)

LEMMA FirstBestLeads ==
  ASSUME NEW K, IsFiniteSet(K), K \subseteq Int, K # {}, NEW value \in [K -> Int]
  PROVE  Leads(value, EX!FirstBest(value))
<1> DEFINE n == Cardinality(K)
           keys == EX!Ascending(K)
           f == CHOOSE f : Scan(keys, value, n, f)
<1>1. n \in Nat /\ n # 0 BY FS_CardinalityType, FS_EmptySet
<1>2. Sorts(keys, n, K) BY AscendingSorts
<1> HIDE DEF n, keys
<1>3. /\ keys \in [1..n -> K] /\ \A k \in K : \E i \in 1..n : keys[i] = k
      /\ \A i, j \in 1..n : i < j => keys[i] < keys[j]
  BY <1>2 DEF Sorts
<1>4. Len(keys) = n BY <1>1, <1>3
<1>5. Scan(keys, value, n, f) BY <1>1, ScanExists
<1>6. DOMAIN value = K OBVIOUS
<1>7. EX!FirstBest(value) = f[n] BY <1>4, <1>6 DEF EX!FirstBest, keys, Scan
<1> HIDE DEF f
<1>8. \A i \in 1..n : f[i] = IF i = 1 \/ value[keys[i]] > value[f[i - 1]] THEN keys[i] ELSE f[i - 1]
  BY <1>5 DEF Scan
<1>9. \A i \in 1..n : keys[i] \in K /\ keys[i] \in Int /\ value[keys[i]] \in Int BY <1>3
\* The best of the first i keys is one of them, and no other of them beats it.
<1> DEFINE Good(i) == \E m \in 1..i : /\ f[i] = keys[m]
                                      /\ \A j \in 1..i : /\ value[keys[j]] <= value[keys[m]]
                                                         /\ j < m => value[keys[j]] < value[keys[m]]
           Bad == {i \in 1..n : ~Good(i)}
<1>10. Good(1)
  <2>1. 1 \in 1..n BY <1>1
  <2>2. f[1] = keys[1] BY <1>8, <2>1
  <2>3. value[keys[1]] \in Int BY <1>9, <2>1
  <2> QED BY <2>2, <2>3
<1>11. ASSUME NEW i \in 1..n, i # 1, Good(i - 1) PROVE Good(i)
  <2>1. i - 1 \in 1..n /\ i \in Nat /\ 1..(i - 1) \subseteq 1..n BY <1>1, <1>11
  <2>2. PICK m \in 1..(i - 1) :
          /\ f[i - 1] = keys[m]
          /\ \A j \in 1..(i - 1) : /\ value[keys[j]] <= value[keys[m]]
                                   /\ j < m => value[keys[j]] < value[keys[m]]
    BY <1>11
  <2>3. m \in 1..n /\ value[keys[m]] \in Int /\ value[keys[i]] \in Int BY <2>1, <1>9
  <2>4. \A j \in 1..i : j = i \/ j \in 1..(i - 1) BY <2>1
  <2>5. \A j \in 1..(i - 1) : value[keys[j]] \in Int BY <2>1, <1>9
  <2>6. CASE value[keys[i]] > value[keys[m]]
    <3>1. f[i] = keys[i] BY <1>8, <2>2, <2>6
    <3>2. \A j \in 1..(i - 1) : value[keys[j]] < value[keys[i]] BY <2>2, <2>3, <2>5, <2>6
    <3>3. ASSUME NEW j \in 1..i
          PROVE  /\ value[keys[j]] <= value[keys[i]]
                 /\ j < i => value[keys[j]] < value[keys[i]]
      <4>1. CASE j = i BY <4>1, <2>1, <2>3
      <4>2. CASE j \in 1..(i - 1) BY <4>2, <3>2, <2>3, <2>5
      <4> QED BY <4>1, <4>2, <2>4
    <3>4. i \in 1..i BY <2>1
    <3> QED BY <3>1, <3>3, <3>4
  <2>7. CASE ~(value[keys[i]] > value[keys[m]])
    <3>1. f[i] = keys[m] BY <1>8, <1>11, <2>2, <2>7
    <3>2. value[keys[i]] <= value[keys[m]] /\ ~(i < m) BY <2>1, <2>3, <2>7
    <3>3. ASSUME NEW j \in 1..i
          PROVE  /\ value[keys[j]] <= value[keys[m]]
                 /\ j < m => value[keys[j]] < value[keys[m]]
      <4>1. CASE j = i BY <4>1, <3>2
      <4>2. CASE j \in 1..(i - 1) BY <4>2, <2>2
      <4> QED BY <4>1, <4>2, <2>4
    <3>4. m \in 1..i BY <2>1
    <3> QED BY <3>1, <3>3, <3>4
  <2> QED BY <2>6, <2>7
<1> HIDE DEF Good
<1>12. Bad = {}
  <2> SUFFICES ASSUME Bad # {} PROVE FALSE OBVIOUS
  <2>1. PICK i \in Bad : \A k \in Bad : i <= k
    <3>1. Bad \subseteq Nat BY <1>1
    <3> HIDE DEF Bad
    <3> QED BY <3>1, Least
  <2>2. i \in 1..n /\ ~Good(i) /\ i # 1 BY <1>10, <2>1
  <2>3. i - 1 \in 1..n /\ i - 1 \notin Bad BY <1>1, <2>1, <2>2
  <2> QED BY <2>2, <2>3, <1>11
<1>13. Good(n)
  <2>1. n \in 1..n BY <1>1
  <2> QED BY <2>1, <1>12
<1>14. PICK m \in 1..n : /\ f[n] = keys[m]
                         /\ \A j \in 1..n : /\ value[keys[j]] <= value[keys[m]]
                                            /\ j < m => value[keys[j]] < value[keys[m]]
  BY <1>13 DEF Good
<1>15. ASSUME NEW k \in K
       PROVE  value[k] <= value[keys[m]] /\ (value[k] = value[keys[m]] => keys[m] <= k)
  <2>1. PICK j \in 1..n : keys[j] = k BY <1>3
  <2>2. value[k] \in Int /\ value[keys[m]] \in Int /\ keys[m] \in Int /\ k \in Int BY <1>9, <2>1
  <2>3. value[k] = value[keys[m]] => ~(j < m) BY <1>14, <2>1, <2>2
  <2>4. j = m \/ m < j => keys[m] <= k BY <1>3, <2>1, <2>2
  <2>5. j < m \/ j = m \/ m < j BY <1>1
  <2> QED BY <1>14, <2>1, <2>3, <2>4, <2>5
<1>16. keys[m] \in K BY <1>9
<1> QED BY <1>6, <1>7, <1>14, <1>15, <1>16 DEF Leads

LEMMA StrikesFinite ==
  ASSUME NEW chain, NEW I, IsFiniteSet(I) PROVE IsFiniteSet({chain[i].strike : i \in I})
<1> DEFINE K == {chain[i].strike : i \in I}
           f == [i \in I |-> chain[i].strike]
<1>1. f \in Surjection(I, K) BY DEF Surjection
<1> HIDE DEF f, K
<1>2. IsFiniteSet(K) BY <1>1, FS_Surjection
<1> QED BY <1>2 DEF K

\* The walls of an accumulator.
LEMMA AccWalls ==
  ASSUME NEW chain, IsChain(chain), NEW I \in SUBSET Places(chain)
  PROVE  EX!WallsOf(chain, I, EX!CallWall(Acc(chain, I)), EX!PutWall(Acc(chain, I)))
<1> DEFINE K == {chain[i].strike : i \in I}
           Calls(k) == {i \in I : chain[i].strike = k /\ chain[i].right = "C"}
           Puts(k) == {i \in I : chain[i].strike = k /\ chain[i].right # "C"}
           acc == Acc(chain, I)
           call == EX!CallWall(acc)
           put == EX!PutWall(acc)
<1>1. IsFiniteSet(I) /\ IsFiniteSet(K)
  <2>1. IsFiniteSet(Places(chain)) BY GexFamily DEF Family
  <2>2. IsFiniteSet(I) BY <2>1, FS_Subset
  <2> QED BY <2>2, StrikesFinite
<1>2. K \subseteq Int
  <2>1. \A i \in I : chain[i].strike \in Int BY DEF IsChain, Places
  <2> QED BY <2>1
<1>3. \A k : /\ Calls(k) = {i \in Strikes(chain, I, k) : chain[i].right = "C"}
             /\ Puts(k) = {i \in Strikes(chain, I, k) : chain[i].right # "C"}
             /\ Calls(k) \in SUBSET Places(chain) /\ Puts(k) \in SUBSET Places(chain)
  BY DEF Strikes
<1>4. /\ DOMAIN acc.curve = K
      /\ \A k \in K : acc.curve[k].call = Net(chain, Calls(k)) /\ acc.curve[k].put = Net(chain, Puts(k))
  <2>1. acc.curve = Curve(chain, I) BY DEF Acc
  <2>2. \A k \in K : Curve(chain, I)[k] = AtStrike(chain, Strikes(chain, I, k)) BY DEF Curve
  <2>3. \A k : AtStrike(chain, Strikes(chain, I, k)).call = Net(chain, Calls(k))
    BY <1>3 DEF AtStrike
  <2>4. \A k : AtStrike(chain, Strikes(chain, I, k)).put = Net(chain, Puts(k))
    BY <1>3 DEF AtStrike
  <2>5. DOMAIN Curve(chain, I) = K BY DEF Curve
  <2> HIDE DEF K, Calls, Puts, acc
  <2> QED BY <2>1, <2>2, <2>3, <2>4, <2>5
<1>5. /\ acc.calls = \E i \in I : chain[i].right = "C"
      /\ acc.puts = \E i \in I : chain[i].right # "C"
  BY DEF Acc
<1>6. \A k : Net(chain, Calls(k)) \in Int /\ Net(chain, Puts(k)) \in Int BY <1>3, NetInt
<1>7. \A k : /\ EX!NetOf(chain, Calls(k)) = Net(chain, Calls(k))
             /\ EX!NetOf(chain, Puts(k)) = Net(chain, Puts(k))
  BY <1>3, NetOfIs
<1>8. (\E i \in I : TRUE) => K # {} OBVIOUS
<1>9. /\ call.has = \E i \in I : chain[i].right = "C"
      /\ call.has =>
           /\ call.strike \in K /\ call.best = EX!NetOf(chain, Calls(call.strike))
           /\ \A k \in K : /\ EX!NetOf(chain, Calls(k)) <= call.best
                           /\ EX!NetOf(chain, Calls(k)) = call.best => call.strike <= k
  <2>1. CASE ~acc.calls
    <3>1. call.has = FALSE BY <2>1 DEF EX!CallWall, EX!NoWall
    <3>2. ~\E i \in I : chain[i].right = "C" BY <2>1, <1>5
    <3> HIDE DEF call, K, Calls
    <3> QED BY <3>1, <3>2
  <2>2. CASE acc.calls
    <3> DEFINE value == [k \in DOMAIN acc.curve |-> acc.curve[k].call]
               lead == EX!FirstBest(value)
    <3>1. call = [strike |-> lead, has |-> TRUE, best |-> acc.curve[lead].call]
      BY <2>2 DEF EX!CallWall
    <3>2. value = [k \in K |-> Net(chain, Calls(k))] BY <1>4
    <3>3. value \in [K -> Int] BY <3>2, <1>6
    <3>4. K # {} BY <2>2, <1>5, <1>8
    <3> HIDE DEF value, K, Calls, Puts, acc
    <3>5. Leads(value, lead) BY <1>1, <1>2, <3>3, <3>4, FirstBestLeads
    <3> HIDE DEF lead
    <3>6. /\ lead \in K
          /\ \A k \in K : value[k] <= value[lead] /\ (value[k] = value[lead] => lead <= k)
      BY <3>3, <3>5 DEF Leads
    <3>7. call.has = TRUE /\ call.strike = lead /\ call.best = Net(chain, Calls(lead))
      <4> HIDE DEF call
      <4> QED BY <3>1, <3>6, <1>4
    <3>8. \A k \in K : value[k] = Net(chain, Calls(k)) BY <3>2
    <3> HIDE DEF call
    <3> QED BY <2>2, <1>5, <1>7, <3>6, <3>7, <3>8
  <2> QED BY <2>1, <2>2
<1>10. /\ put.has = \E i \in I : chain[i].right # "C"
       /\ put.has =>
            /\ put.strike \in K /\ put.best = EX!NetOf(chain, Puts(put.strike))
            /\ \A k \in K : /\ EX!NetOf(chain, Puts(k)) >= put.best
                            /\ EX!NetOf(chain, Puts(k)) = put.best => put.strike <= k
  <2>1. CASE ~acc.puts
    <3>1. put.has = FALSE BY <2>1 DEF EX!PutWall, EX!NoWall
    <3>2. ~\E i \in I : chain[i].right # "C" BY <2>1, <1>5
    <3> HIDE DEF put, K, Puts
    <3> QED BY <3>1, <3>2
  <2>2. CASE acc.puts
    <3> DEFINE value == [k \in DOMAIN acc.curve |-> -acc.curve[k].put]
               lead == EX!FirstBest(value)
    <3>1. put = [strike |-> lead, has |-> TRUE, best |-> acc.curve[lead].put]
      BY <2>2 DEF EX!PutWall
    <3>2. value = [k \in K |-> -Net(chain, Puts(k))] BY <1>4
    <3>3. value \in [K -> Int]
      <4> HIDE DEF Puts, K, value
      <4>0. \A x \in Int : -x \in Int OBVIOUS
      <4>1. \A k \in K : -Net(chain, Puts(k)) \in Int BY <1>6, <4>0
      <4> QED BY <3>2, <4>1
    <3>4. K # {} BY <2>2, <1>5, <1>8
    <3> HIDE DEF value, K, Calls, Puts, acc
    <3>5. Leads(value, lead) BY <1>1, <1>2, <3>3, <3>4, FirstBestLeads
    <3> HIDE DEF lead
    <3>6. /\ lead \in K
          /\ \A k \in K : value[k] <= value[lead] /\ (value[k] = value[lead] => lead <= k)
      BY <3>3, <3>5 DEF Leads
    <3>7. put.has = TRUE /\ put.strike = lead /\ put.best = Net(chain, Puts(lead))
      <4> HIDE DEF put
      <4> QED BY <3>1, <3>6, <1>4
    <3>8. \A k \in K : value[k] = -Net(chain, Puts(k)) BY <3>2
    <3>9. \A k \in K : /\ Net(chain, Puts(k)) >= Net(chain, Puts(lead))
                       /\ Net(chain, Puts(k)) = Net(chain, Puts(lead)) => lead <= k
      BY <1>6, <3>6, <3>8
    <3> HIDE DEF put
    <3> QED BY <2>2, <1>5, <1>7, <3>6, <3>7, <3>9
  <2> QED BY <2>1, <2>2
<1> HIDE DEF call, put
<1> QED BY <1>9, <1>10 DEF EX!WallsOf, call, put, acc

LEMMA NearestIs ==
  ASSUME NEW chain, IsChain(chain), Distinct(chain), NEW group, NEW spot \in Int
  PROVE  EX!NearestQuoted(chain, group, spot)
<1> DEFINE I == Quoting(chain, group, Len(chain))
           K == {chain[i].strike : i \in I}
           m == EX!StrikeQuotes(chain, group)
           value == [k \in DOMAIN m |-> -EX!Abs(k - spot)]
           lead == EX!FirstBest(value)
<1>1. I \in SUBSET Places(chain) BY DEF Quoting, Places
<1>2. I = {j \in 1..Len(chain) :
             chain[j].iv > 0 /\ <<chain[j].expiry, chain[j].class>> = group}
  BY DEF Quoting
<1> HIDE DEF I
<1>3. IsFiniteSet(K)
  <2>1. IsFiniteSet(Places(chain)) BY GexFamily DEF Family
  <2>2. IsFiniteSet(I) BY <1>1, <2>1, FS_Subset
  <2> QED BY <2>2, StrikesFinite
<1>4. K \subseteq Int
  <2>1. \A i \in I : chain[i].strike \in Int BY <1>1 DEF IsChain, Places
  <2> QED BY <2>1
<1>5. DOMAIN m = K
  <2>1. m = Quotes(chain, I) BY StrikeQuotesAre DEF I
  <2> QED BY <2>1 DEF Quotes
<1> HIDE DEF K
<1>6. SUFFICES ASSUME K # {}
               PROVE  \E k \in K :
                        /\ EX!AtmRef(chain, group, spot) = m[k]
                        /\ \A x \in K : /\ EX!Abs(k - spot) <= EX!Abs(x - spot)
                                        /\ EX!Abs(k - spot) = EX!Abs(x - spot) => k <= x
  BY <1>2 DEF EX!NearestQuoted, K
<1>7. EX!AtmRef(chain, group, spot) = m[lead] BY <1>5, <1>6 DEF EX!AtmRef, EX!AtmStrike
<1> HIDE DEF m
<1>8. \A k \in K : EX!Abs(k - spot) \in Int BY <1>4 DEF EX!Abs
<1>9. value \in [K -> Int] /\ \A k \in K : value[k] = -EX!Abs(k - spot)
  <2>1. \A k \in K : -EX!Abs(k - spot) \in Int BY <1>8
  <2> QED BY <1>5, <2>1
<1> HIDE DEF value
<1>10. Leads(value, lead) BY <1>3, <1>4, <1>6, <1>9, FirstBestLeads
<1> HIDE DEF lead
<1>11. lead \in K /\ \A x \in K : value[x] <= value[lead] /\ (value[x] = value[lead] => lead <= x)
  BY <1>9, <1>10 DEF Leads
<1>12. \A x \in K : /\ EX!Abs(lead - spot) <= EX!Abs(x - spot)
                    /\ EX!Abs(lead - spot) = EX!Abs(x - spot) => lead <= x
  BY <1>8, <1>9, <1>11
<1> QED BY <1>7, <1>11, <1>12

\* findWalls and blendedVols find the extremes, whatever the chain.
LEMMA ExtremeLevels ==
  ASSUME NEW chain, IsChain(chain), Distinct(chain), NEW today, NEW spot \in Int
  PROVE  EX!LevelsExtreme(chain, today, spot)
<1> DEFINE live == Live(chain, today, Len(chain))
           kinds == ClassKeys(chain)
           s == EX!ComputeSnapshot(chain, today)
<1>1. live \in SUBSET Places(chain) /\ live = {i \in 1..Len(chain) : EX!Priced(chain[i], today)}
  BY DEF Live, Places
<1> HIDE DEF live
<1>2. EX!Sums(chain, today) = State(chain, live) BY SumsAre DEF live
<1>3. /\ State(chain, live).book = Acc(chain, live)
      /\ State(chain, live).classes =
           IF EX!MultiClass(chain) THEN Table(chain, kinds, live) ELSE EX!NoCurve
  BY DEF State
<1>4. s.call = EX!CallWall(Acc(chain, live)) /\ s.put = EX!PutWall(Acc(chain, live))
  BY <1>2, <1>3 DEF EX!ComputeSnapshot
<1>5. EX!WallsOf(chain, live, s.call, s.put) BY <1>1, <1>4, AccWalls
<1>6. ASSUME NEW g \in DOMAIN s.classWalls
      PROVE  EX!WallsOf(chain, {i \in live : chain[i].class = g},
                        s.classWalls[g][1], s.classWalls[g][2])
  <2> DEFINE classes == State(chain, live).classes
             I == Part(kinds, live, g)
  <2>1. s.classWalls = [k \in DOMAIN classes |-> <<EX!CallWall(classes[k]), EX!PutWall(classes[k])>>]
    BY <1>2 DEF EX!ComputeSnapshot
  <2>2. g \in DOMAIN classes BY <1>6, <2>1
  <2>3. classes = Table(chain, kinds, live) BY <1>3, <2>2 DEF EX!NoCurve
  <2>4. classes[g] = Acc(chain, I) BY <2>2, <2>3 DEF Table
  <2>5. I \in SUBSET Places(chain) /\ I = {i \in live : chain[i].class = g}
    <3>1. \A i \in live : kinds[i] = chain[i].class BY <1>1 DEF ClassKeys, Places
    <3> HIDE DEF kinds
    <3> QED BY <1>1, <3>1 DEF Part
  <2> HIDE DEF classes, I, s
  <2>6. /\ s.classWalls[g][1] = EX!CallWall(Acc(chain, I))
        /\ s.classWalls[g][2] = EX!PutWall(Acc(chain, I))
    BY <2>1, <2>2, <2>4
  <2>7. EX!WallsOf(chain, I, EX!CallWall(Acc(chain, I)), EX!PutWall(Acc(chain, I)))
    BY <2>5, AccWalls
  <2> QED BY <2>5, <2>6, <2>7
<1> HIDE DEF s
<1>7. \A i \in 1..Len(chain) : EX!NearestQuoted(chain, <<chain[i].expiry, chain[i].class>>, spot)
  BY NearestIs
<1> QED BY <1>1, <1>5, <1>6, <1>7 DEF EX!LevelsExtreme, s

-----------------------------------------------------------------------------
(* The chains of the model.                                                *)

LEMMA ChainFacts ==
  ASSUME NEW chain \in Chains PROVE IsChain(chain) /\ Distinct(chain)
<1>1. PICK ids \in Rosters : chain \in
        {[k \in 1..Len(ids) |->
             EX!Contract(ids[k][1], ids[k][2], ids[k][3], ids[k][4],
                         IF ids[k][2] = "C" THEN xs[k][1] ELSE -xs[k][1],
                         xs[k][2], Quoted(ids[k], xs[k]))] : xs \in [1..Len(ids) -> Data]}
  BY DEF Chains
<1>2. PICK xs \in [1..Len(ids) -> Data] : chain =
        [k \in 1..Len(ids) |->
             EX!Contract(ids[k][1], ids[k][2], ids[k][3], ids[k][4],
                         IF ids[k][2] = "C" THEN xs[k][1] ELSE -xs[k][1],
                         xs[k][2], Quoted(ids[k], xs[k]))]
  BY <1>1
<1>3. PICK S \in SUBSET Identities : IsFiniteSet(S) /\ ids = EX!SetToSeq(S) BY DEF Rosters
<1> DEFINE n == Cardinality(S)
<1>4. n \in Nat /\ ExistsBijection(1..n, S) BY <1>3, FS_CardinalityType
<1>5. PICK f \in [1..n -> S] : \A x, y \in 1..n : f[x] = f[y] => x = y
  <2>1. PICK f : f \in Bijection(1..n, S) BY <1>4 DEF ExistsBijection
  <2> QED BY <2>1 DEF Bijection, Injection, IsInjective
<1>6. n = EX!Cardinality(S) BY DEF EX!Cardinality, Cardinality
<1> HIDE DEF n
<1>7. ids = CHOOSE g \in [1..n -> S] : EX!IsInjective(g) BY <1>3, <1>6 DEF EX!SetToSeq
<1>8. \E g \in [1..n -> S] : EX!IsInjective(g)
  <2>1. EX!IsInjective(f) BY <1>5 DEF EX!IsInjective
  <2> QED BY <2>1
<1>9. ids \in [1..n -> S] /\ EX!IsInjective(ids)
  <2> DEFINE Q(g) == g \in [1..n -> S] /\ EX!IsInjective(g)
  <2>1. \E g : Q(g) BY <1>8
  <2>2. ids = CHOOSE g : Q(g) BY <1>7, Zenon
  <2> HIDE DEF Q
  <2>3. Q(ids) BY <2>1, <2>2
  <2> QED BY <2>3 DEF Q
<1>10. Len(ids) = n BY <1>9, <1>4
<1>11. \A x, y \in 1..n : ids[x] = ids[y] => x = y
  <2>1. DOMAIN ids = 1..n BY <1>9
  <2> QED BY <1>9, <2>1 DEF EX!IsInjective
<1>12. Len(chain) = n
  <2>1. chain \in [1..n -> {chain[k] : k \in 1..n}] BY <1>2, <1>10
  <2> QED BY <2>1, <1>4
<1>13. ASSUME NEW k \in 1..n
       PROVE  /\ chain[k].strike = ids[k][1] /\ chain[k].right = ids[k][2]
              /\ chain[k].class = ids[k][3] /\ chain[k].expiry = ids[k][4]
              /\ chain[k].gex = IF ids[k][2] = "C" THEN xs[k][1] ELSE -xs[k][1]
              /\ chain[k].iv = xs[k][2]
  BY <1>2, <1>10 DEF EX!Contract
<1>14. ASSUME NEW k \in 1..n
       PROVE  /\ ids[k] = <<ids[k][1], ids[k][2], ids[k][3], ids[k][4]>>
              /\ ids[k][1] \in Int /\ ids[k][2] \in {"C", "P"} /\ xs[k][1] \in Int /\ xs[k][2] \in Int
  <2>1. ids[k] \in Identities /\ xs[k] \in Data BY <1>9, <1>10
  <2> QED BY <2>1, AlgoAssumption
<1>15. \A k \in 1..n : chain[k].gex \in Int /\ chain[k].iv \in Int
  <2> TAKE k \in 1..n
  <2>1. -xs[k][1] \in Int BY <1>14
  <2> QED BY <2>1, <1>13, <1>14
<1>16. \A k \in 1..n : chain[k].right \in {"C", "P"} /\ chain[k].strike \in Int BY <1>13, <1>14
<1>17. ASSUME NEW x \in 1..n, NEW y \in 1..n,
              chain[x].strike = chain[y].strike, chain[x].right = chain[y].right,
              chain[x].class = chain[y].class, chain[x].expiry = chain[y].expiry
       PROVE  x = y
  <2>1. ids[x] = <<ids[x][1], ids[x][2], ids[x][3], ids[x][4]>> BY <1>14
  <2>2. ids[y] = <<ids[y][1], ids[y][2], ids[y][3], ids[y][4]>> BY <1>14
  <2>3. /\ ids[x][1] = ids[y][1] /\ ids[x][2] = ids[y][2]
        /\ ids[x][3] = ids[y][3] /\ ids[x][4] = ids[y][4]
    BY <1>13, <1>17
  <2>4. ids[x] = ids[y] BY <2>1, <2>2, <2>3
  <2> QED BY <2>4, <1>11
<1> QED BY <1>4, <1>12, <1>15, <1>16, <1>17 DEF IsChain, Distinct, Places

\* ComputeSnapshot counts every contract once in the totals, in its strike, in its expiry
\* and class and in its class, and none it does not price; the strike's net is its calls
\* plus its puts (aggregate.go:88-196), for any contracts, numbers and length of chain.
THEOREM EveryContractCounted == AlgoSpec => []CountedOnce
<1>1. InputInv => CountedOnce
  <2> SUFFICES ASSUME NEW chain \in Chains PROVE EX!CountedOnce(chain, 1)
    BY DEF InputInv, CountedOnce
  <2> QED BY ChainFacts, EveryContractOnce
<1> QED BY <1>1, InputAlways, PTL

\* The snapshot and the ATM reference of every expiry and class are functions of what the
\* chain lists, for every order it may be listed in, any contracts, spot and length of
\* chain (aggregate.go:88-196, 222-266, 386-449).
THEOREM OrderNeverMatters == AlgoSpec => []OrderIrrelevant
<1>1. InputInv => OrderIrrelevant
  <2> SUFFICES ASSUME NEW chain \in Chains, NEW spot \in Spots
               PROVE  EX!OrderIrrelevant(chain, 1, spot)
    BY DEF InputInv, OrderIrrelevant
  <2> QED BY ChainFacts, AnyOrder
<1> QED BY <1>1, InputAlways, PTL

\* The walls of the book and of each class are the strikes with the greatest call and the
\* least put exposure, the ATM strike of each expiry and class the quoted one nearest the
\* spot, ties to the lower strike (aggregate.go:268-288, 435-465), for any contracts, spot
\* and length of chain.
THEOREM LevelsAreExtreme == AlgoSpec => []LevelsExtreme
<1>1. InputInv => LevelsExtreme
  <2> SUFFICES ASSUME NEW chain \in Chains, NEW spot \in Spots
               PROVE  EX!LevelsExtreme(chain, 1, spot)
    BY DEF InputInv, LevelsExtreme
  <2>1. spot \in Int BY AlgoAssumption
  <2> QED BY <2>1, ChainFacts, ExtremeLevels
<1> QED BY <1>1, InputAlways, PTL
=============================================================================
