--------------------------- MODULE ExpirySelection ---------------------------
(***************************************************************************)
(* SelectExpiries and SelectedExpiriesByClass of market/select.go.  A date *)
(* is a day number; day 0 is a Saturday and the first of a month, so that  *)
(* the weekday and the day of the month are both arithmetic.  A chain is   *)
(* the set of its (class, expiry) pairs: strikes do not matter here.       *)
(***************************************************************************)
EXTENDS Integers, FiniteSets, FiniteSetsExt

MonthDays == 30

Friday(d) == d % 7 = 6
DayOfMonth(d) == 1 + (d % MonthDays)
Monthly(d) == Friday(d) /\ DayOfMonth(d) \in 15..21

Distance(d, e) == IF d < e THEN e - d ELSE d - e

\* The array Friday nearest to the closest date, the earlier of two, and the
\* closest date itself when the array has no Friday.
Primary(valid) ==
  LET closest == Min(valid)
      fridays == {d \in valid : Friday(d)} IN
  IF fridays = {} THEN closest
  ELSE Min({d \in fridays : \A e \in fridays : Distance(d, closest) <= Distance(e, closest)})

\* Mutant: the second Friday is counted from the closest date.
AfterClosest(valid) == Min(valid)

NextFrom(valid) == Primary(valid)

FirstOf(set) == IF set = {} THEN {} ELSE {Min(set)}

\* An empty pick is the error return.
SelectExpiries(dates, today) ==
  LET valid == {d \in dates : d >= today} IN
  IF valid = {} THEN {}
  ELSE {Min(valid), Primary(valid)}
         \cup FirstOf({d \in valid : d > NextFrom(valid) /\ Friday(d)})
         \cup FirstOf({d \in valid : Monthly(d)})

Classes(chain) == {c[1] : c \in chain}
DatesOf(chain, class) == {c[2] : c \in {x \in chain : x[1] = class}}

\* A class whose dates are all past is skipped.
SelectedExpiriesByClass(chain, today) ==
  {c \in chain : c[2] \in SelectExpiries(DatesOf(chain, c[1]), today)}

-----------------------------------------------------------------------------

\* The listing of some of the classes.
Only(chain, classes) == {c \in chain : c[1] \in classes}

\* Selecting again from what was selected changes nothing, also on the next day
\* unless a date expired.  Every class with a live date keeps its nearest one and
\* at most four, none past, and two Fridays where it lists two.  And one class's
\* listing never moves the pick of another: whichever other classes are listed
\* beside it, a class is left with the same dates (select.go:13-26, 184-242).
SelectionStable(chain, today) ==
  LET kept == SelectedExpiriesByClass(chain, today) IN
  /\ SelectedExpiriesByClass(kept, today) = kept
  /\ (\A c \in kept : c[2] > today) => SelectedExpiriesByClass(kept, today + 1) = kept
  /\ \A k \in Classes(chain) :
       LET live == {d \in DatesOf(chain, k) : d >= today}
           pick == DatesOf(kept, k) IN
       /\ pick \subseteq live /\ Cardinality(pick) <= 4
       /\ live # {} => Min(live) \in pick
       /\ Cardinality({d \in live : Friday(d)}) >= 2 => Cardinality({d \in pick : Friday(d)}) >= 2
       /\ \A others \in SUBSET Classes(chain) :
            DatesOf(SelectedExpiriesByClass(Only(chain, others \cup {k}), today), k) = pick
=============================================================================
