---------------------------- MODULE SweepWindows ----------------------------
(***************************************************************************)
(* The sweep windows of edge/sweep_policy.go as the GUI reads them: when a *)
(* ticker is allowed, why not, and when it opens again.  An instant is a   *)
(* day number (day 0 is a Monday) and a second of the day in ET; days have *)
(* 24 hours here.                                                          *)
(***************************************************************************)
EXTENDS Integers, FiniteSets, FiniteSetsExt

allOpen == 8 * 3600 + 15 * 60
allClose == 18 * 3600 + 30 * 60
indexOpen == 9 * 3600 + 20 * 60
indexLast == 16 * 3600 + 9 * 60 + 59

Weekend(day) == day % 7 \in {5, 6}

TickerAllowed(index, day, s) ==
  /\ ~Weekend(day)
  /\ IF index THEN indexOpen <= s /\ s <= indexLast ELSE allOpen <= s /\ s < allClose

Opens(index) == IF index THEN indexOpen ELSE allOpen

Before(x, y) == x[1] < y[1] \/ (x[1] = y[1] /\ x[2] < y[2])

\* Mutant: weekends are not skipped.
CandidateDayAny(day) == TRUE

CandidateDay(day) == ~Weekend(day)

\* The first opening after now on the next eight days, now without one.
NextOpen(index, now) ==
  LET days == {d \in now[1]..(now[1] + 7) :
                 CandidateDay(d) /\ Before(now, <<d, Opens(index)>>)} IN
  IF days = {} THEN now ELSE <<Min(days), Opens(index)>>

\* Reason: an index ticker is told it is closed whenever it is not before its
\* opening, also while it is open.
Reason(index, now) ==
  IF Weekend(now[1]) THEN "weekend"
  ELSE IF index THEN IF now[2] < indexOpen THEN "opens" ELSE "closed"
  ELSE IF now[2] < allOpen \/ now[2] >= allClose THEN "blocked" ELSE ""

-----------------------------------------------------------------------------

\* A blocked row is given a reason and the right reopening time: the ticker is
\* allowed at that instant, and at no instant before it, over nights and weekends
\* and to the second (sweep_policy.go:172-198, 157-170).
ReopensWhenTold(index, now, instants) ==
  ~TickerAllowed(index, now[1], now[2]) =>
    LET at == NextOpen(index, now) IN
    /\ Reason(index, now) # ""
    /\ Before(now, at) /\ TickerAllowed(index, at[1], at[2])
    /\ \A x \in instants :
         Before(now, x) /\ Before(x, at) => ~TickerAllowed(index, x[1], x[2])
=============================================================================
