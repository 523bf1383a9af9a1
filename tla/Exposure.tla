------------------------------ MODULE Exposure ------------------------------
(***************************************************************************)
(* The aggregation of exposure/aggregate.go.  A contract carries its       *)
(* signed gamma exposure ready made (calls are not negative, puts are not  *)
(* positive: DealerQty times a gamma); DEX, VEX and CHEX are summed at the *)
(* same places and left out.                                               *)
(***************************************************************************)
EXTENDS Integers, Sequences, SequencesExt, FiniteSetsExt

Contract(strike, right, class, expiry, gex, iv, quote) ==
  [strike |-> strike, right |-> right, class |-> class, expiry |-> expiry,
   gex |-> gex, iv |-> iv, quote |-> quote]

ClassesOf(chain) == {chain[i].class : i \in 1..Len(chain)}
MultiClass(chain) == Cardinality(ClassesOf(chain)) > 1

\* dte < 1: outside the model's horizon.
Priced(c, today) == c.expiry - today >= 1

-----------------------------------------------------------------------------
(* ComputeSnapshot: one pass over the contracts.                           *)

NoCurve == [k \in {} |-> 0]
At(f, k, empty) == IF k \in DOMAIN f THEN f[k] ELSE empty
Put(f, k, v) == [x \in DOMAIN f \cup {k} |-> IF x = k THEN v ELSE f[x]]

\* se.CallGEX or se.PutGEX, and se.NetGEX, of the contract's strike.
Bump(curve, c) ==
  LET se == At(curve, c.strike, [call |-> 0, put |-> 0, net |-> 0]) IN
  Put(curve, c.strike,
      [call |-> se.call + IF c.right = "C" THEN c.gex ELSE 0,
       put |-> se.put + IF c.right = "C" THEN 0 ELSE c.gex,
       net |-> se.net + c.gex])

\* expiryAcc and classAcc.
Empty == [total |-> 0, curve |-> NoCurve, calls |-> FALSE, puts |-> FALSE]

Add(acc, c) ==
  [total |-> acc.total + c.gex, curve |-> Bump(acc.curve, c),
   calls |-> acc.calls \/ c.right = "C", puts |-> acc.puts \/ c.right # "C"]

\* Mutant: the key of the per-expiry table forgets the class.
ExpiryOnlyKey(c) == <<c.expiry, "">>

ExpiryKey(c) == <<c.expiry, c.class>>

\* What one contract adds to the book, to its expiry and to its class.
Count(s, c, multiClass) ==
  [book |-> Add(s.book, c),
   expiries |-> Put(s.expiries, ExpiryKey(c), Add(At(s.expiries, ExpiryKey(c), Empty), c)),
   classes |-> IF multiClass THEN Put(s.classes, c.class, Add(At(s.classes, c.class, Empty), c))
                             ELSE s.classes]

Sums(chain, today) ==
  LET pass[i \in 0..Len(chain)] ==
        IF i = 0 THEN [book |-> Empty, expiries |-> NoCurve, classes |-> NoCurve]
        ELSE IF Priced(chain[i], today) THEN Count(pass[i - 1], chain[i], MultiClass(chain))
        ELSE pass[i - 1]
  IN pass[Len(chain)]

NoWall == [strike |-> 0, has |-> FALSE, best |-> 0]

\* The members of a set of strikes, sorted.
Ascending(set) ==
  CHOOSE s \in [1..Cardinality(set) -> set] :
    /\ \A k \in set : \E i \in DOMAIN s : s[i] = k
    /\ \A i, j \in DOMAIN s : i < j => s[i] < s[j]

\* Over the keys ascending, the best so far is replaced by a strictly better one.
FirstBest(value) ==
  LET keys == Ascending(DOMAIN value)
      best[i \in 1..Len(keys)] ==
        IF i = 1 \/ value[keys[i]] > value[best[i - 1]] THEN keys[i] ELSE best[i - 1]
  IN best[Len(keys)]

\* findWalls: the greatest call and the least put.
CallWall(acc) ==
  IF ~acc.calls THEN NoWall
  ELSE LET k == FirstBest([x \in DOMAIN acc.curve |-> acc.curve[x].call])
       IN [strike |-> k, has |-> TRUE, best |-> acc.curve[k].call]

PutWall(acc) ==
  IF ~acc.puts THEN NoWall
  ELSE LET k == FirstBest([x \in DOMAIN acc.curve |-> -acc.curve[x].put])
       IN [strike |-> k, has |-> TRUE, best |-> acc.curve[k].put]

\* RegimeFor: zero counts as negative.
Regime(total) == IF total > 0 THEN "POSITIVE_GAMMA" ELSE "NEGATIVE_GAMMA"

ComputeSnapshot(chain, today) ==
  LET s == Sums(chain, today) IN
  [ok |-> DOMAIN s.book.curve # {}, total |-> s.book.total, perStrike |-> s.book.curve,
   perExpiry |-> s.expiries, classes |-> s.classes, regime |-> Regime(s.book.total),
   call |-> CallWall(s.book), put |-> PutWall(s.book),
   classWalls |-> [k \in DOMAIN s.classes |-> <<CallWall(s.classes[k]), PutWall(s.classes[k])>>]]

-----------------------------------------------------------------------------
(* blendedVols: the quote that stands for a strike, and the strike that    *)
(* stands for an expiry.                                                   *)

\* Mutant: the quote seen last represents the strike.
RepresentLast(q, c) == c.quote

\* A first or an unquoted entry is replaced, a quoted call replaces a quoted put.
Represent(q, c) ==
  IF q = "none" \/ (c.right = "C" /\ c.quote # "none") THEN c.quote ELSE q

\* What a contract adds to the quote of its strike; the IVs are averaged.
Unquoted == [sum |-> 0, n |-> 0, quote |-> "none"]

Quote(m, c) ==
  LET q == At(m, c.strike, Unquoted) IN
  Put(m, c.strike, [sum |-> q.sum + c.iv, n |-> q.n + 1, quote |-> Represent(q.quote, c)])

\* Pass 1: per (expiry, class) and strike, over the contracts with an IV.
StrikeQuotes(chain, group) ==
  LET pass[i \in 0..Len(chain)] ==
        IF i = 0 THEN NoCurve
        ELSE IF chain[i].iv > 0 /\ <<chain[i].expiry, chain[i].class>> = group
               THEN Quote(pass[i - 1], chain[i])
        ELSE pass[i - 1]
  IN pass[Len(chain)]

Abs(n) == IF n < 0 THEN -n ELSE n

\* Pass 2: the quoted strike nearest the spot, ties to the lower one; the groups
\* without a quoted IV have none and price at the anchor.
AtmStrike(quotes, spot) == FirstBest([k \in DOMAIN quotes |-> -Abs(k - spot)])

AtmRef(chain, group, spot) ==
  LET m == StrikeQuotes(chain, group) IN
  IF DOMAIN m = {} THEN Unquoted ELSE m[AtmStrike(m, spot)]

-----------------------------------------------------------------------------
(* What the results are compared with: definitions over the set of         *)
(* contracts, without an order.                                            *)

NetOf(chain, at) == SumFunction([i \in at |-> chain[i].gex])

SumOf(f) == SumFunction([k \in DOMAIN f |-> f[k].total])

\* Every contract is counted once in the totals, once in its strike, once in
\* the table of its expiry and class and, on a chain of several classes, once in
\* its class, so that AM and PM listings of one date are neither blended nor lost
\* (aggregate.go:39-43, 87-196).
CountedOnce(chain, today) ==
  LET s == ComputeSnapshot(chain, today)
      live == {i \in 1..Len(chain) : Priced(chain[i], today)} IN
  /\ s.total = NetOf(chain, live)
  /\ s.total = SumOf(s.perExpiry)
  /\ DOMAIN s.perExpiry = {<<chain[i].expiry, chain[i].class>> : i \in live}
  /\ \A g \in DOMAIN s.perExpiry :
       s.perExpiry[g].total =
         NetOf(chain, {i \in live : <<chain[i].expiry, chain[i].class>> = g})
  /\ MultiClass(chain) =>
       /\ s.total = SumOf(s.classes)
       /\ DOMAIN s.classes = {chain[i].class : i \in live}
       /\ \A k \in DOMAIN s.classes :
            s.classes[k].total = NetOf(chain, {i \in live : chain[i].class = k})
  /\ DOMAIN s.perStrike = {chain[i].strike : i \in live}
  /\ \A k \in DOMAIN s.perStrike :
       /\ s.perStrike[k].net = s.perStrike[k].call + s.perStrike[k].put
       /\ s.perStrike[k].net = NetOf(chain, {i \in live : chain[i].strike = k})

\* The walls, the curves, the ATM reference and with it every volatility depend
\* on what the chain holds and not on the order it lists it in: a chain adopted
\* again, or read back from the database, shows the same levels
\* (aggregate.go:222-266, 397-449).
OrderIrrelevant(chain, today, spot) ==
  \A p \in Bijection(1..Len(chain), 1..Len(chain)) :
    LET other == [i \in 1..Len(chain) |-> chain[p[i]]] IN
    /\ ComputeSnapshot(other, today) = ComputeSnapshot(chain, today)
    /\ \A i \in 1..Len(chain) :
         LET g == <<chain[i].expiry, chain[i].class>> IN
         AtmRef(other, g, spot) = AtmRef(chain, g, spot)

\* The walls of the contracts at the given places: a side has one if it is listed
\* there at all, at the strike with its greatest (calls) or least (puts) exposure, of
\* several such strikes at the lowest.
WallsOf(chain, at, call, put) ==
  LET strikes == {chain[i].strike : i \in at}
      Calls(k) == NetOf(chain, {i \in at : chain[i].strike = k /\ chain[i].right = "C"})
      Puts(k) == NetOf(chain, {i \in at : chain[i].strike = k /\ chain[i].right # "C"}) IN
  /\ call.has = \E i \in at : chain[i].right = "C"
  /\ call.has =>
       /\ call.strike \in strikes /\ call.best = Calls(call.strike)
       /\ \A k \in strikes : /\ Calls(k) <= call.best
                             /\ Calls(k) = call.best => call.strike <= k
  /\ put.has = \E i \in at : chain[i].right # "C"
  /\ put.has =>
       /\ put.strike \in strikes /\ put.best = Puts(put.strike)
       /\ \A k \in strikes : /\ Puts(k) >= put.best
                             /\ Puts(k) = put.best => put.strike <= k

\* The strike that stands for a group is the quoted one nearest the spot, the lower of
\* two; a group with a quoted volatility has one.
NearestQuoted(chain, group, spot) ==
  LET quoted == {chain[i].strike : i \in {j \in 1..Len(chain) :
                   chain[j].iv > 0 /\ <<chain[j].expiry, chain[j].class>> = group}} IN
  quoted # {} =>
    \E k \in quoted :
      /\ AtmRef(chain, group, spot) = StrikeQuotes(chain, group)[k]
      /\ \A x \in quoted : /\ Abs(k - spot) <= Abs(x - spot)
                           /\ Abs(k - spot) = Abs(x - spot) => k <= x

\* "Call Wall = argmax per-strike call GEX, Put Wall = argmin per-strike put GEX", for
\* the book and for each class, and "quoted strike nearest spot, ties to the lower
\* strike" for each expiry and class (aggregate.go:268-271, 435-436).
LevelsExtreme(chain, today, spot) ==
  LET s == ComputeSnapshot(chain, today)
      live == {i \in 1..Len(chain) : Priced(chain[i], today)} IN
  /\ WallsOf(chain, live, s.call, s.put)
  /\ \A g \in DOMAIN s.classWalls :
       WallsOf(chain, {i \in live : chain[i].class = g}, s.classWalls[g][1], s.classWalls[g][2])
  /\ \A i \in 1..Len(chain) :
       NearestQuoted(chain, <<chain[i].expiry, chain[i].class>>, spot)

\* "never a bogus level at a strike that only the other side trades"
\* (aggregate.go:270-271).
WallsTraded(chain, today) ==
  LET s == ComputeSnapshot(chain, today)
      Trades(k, right) == \E i \in 1..Len(chain) : chain[i].strike = k /\ chain[i].right = right IN
  /\ s.call.has => Trades(s.call.strike, "C")
  /\ s.put.has => Trades(s.put.strike, "P")
=============================================================================
