----------------------------- MODULE FlipSearch -----------------------------
(***************************************************************************)
(* FindFlip (exposure/aggregate.go) and rootfind.FindRoot: the scan of the *)
(* gamma profile for the sign change nearest the spot and Brent's method   *)
(* inside it.  Spots are integers, the profile is any function: a value is *)
(* drawn when a point is first evaluated and kept.  What interpolation     *)
(* proposes is abstracted to any step its acceptance test lets through.    *)
(***************************************************************************)
EXTENDS Integers, FiniteSets

CONSTANTS
  Points,   \* grid points of the profile (81)
  Width,    \* distance of two grid points
  Spot,
  Values,   \* of the profile; what counts is their sign and the order of their sizes
  Tol,      \* tol1, at least one unit
  MaxIter   \* DefaultMaxIter (100)

ASSUME FlipAssumption ==
  /\ Points \in Nat \ {0, 1} /\ Width \in Nat \ {0} /\ Tol \in Nat \ {0}
  /\ Spot \in 0..((Points - 1) * Width) /\ Values \subseteq Int /\ MaxIter \in Nat

VARIABLES
  known,         \* the profile where it has been evaluated
  phase,         \* "scan", "loop", then "root", "best" or "none"
  a, b, c,       \* points of FindRoot; fa, fb, fc are known there
  d, e,          \* the last two steps
  iter

flipVars == <<known, phase, a, b, c, d, e, iter>>

Grid == {i * Width : i \in 0..(Points - 1)}
Abs(n) == IF n < 0 THEN -n ELSE n
Positive(x) == known[x] > 0

FlipInit ==
  /\ known \in [Grid -> Values]
  /\ phase = "scan" /\ a = 0 /\ b = 0 /\ c = 0 /\ d = 0 /\ e = 0 /\ iter = 0

-----------------------------------------------------------------------------
(* FindFlip                                                                *)

Brackets == {x \in Grid : x + Width \in Grid /\ Positive(x) # Positive(x + Width)}

\* Distance of a bracket's middle to the spot, doubled.
Off(x) == Abs(2 * x + Width - 2 * Spot)

\* d < nearest: the first of two brackets at the same distance.
Nearest(x) ==
  /\ x \in Brackets
  /\ \A y \in Brackets : Off(x) < Off(y) \/ (Off(x) = Off(y) /\ x <= y)

\* No sign change anywhere: HasFlip stays false.
NoFlip ==
  /\ phase = "scan" /\ Brackets = {} /\ phase' = "none"
  /\ UNCHANGED <<known, a, b, c, d, e, iter>>

\* FindRoot's entry: a zero at an end is the root.  The bracket has a sign
\* change, so fa * fb > 0 (ErrNoBracket) is not met.
Enter ==
  /\ phase = "scan"
  /\ \E x \in Grid :
       /\ Nearest(x)
       /\ a' = x
       /\ IF known[x] = 0 THEN b' = x /\ phase' = "root"
          ELSE IF known[x + Width] = 0 THEN b' = x + Width /\ phase' = "root"
          ELSE b' = x + Width /\ phase' = "loop"
       /\ c' = x + Width /\ d' = Width /\ e' = Width
  /\ UNCHANGED <<known, iter>>

-----------------------------------------------------------------------------
(* FindRoot's loop                                                         *)

\* b and c are made to bracket the root: c trails on the other side ...
Trail ==
  IF Positive(b) = Positive(c) THEN [c |-> a, d |-> b - a, e |-> b - a]
  ELSE [c |-> c, d |-> d, e |-> e]

\* ... and b has the smaller magnitude.
Swap(t) ==
  IF Abs(known[t.c]) < Abs(known[b]) THEN [a |-> b, b |-> t.c, c |-> b]
  ELSE [a |-> a, b |-> b, c |-> t.c]

Sign(n) == IF n < 0 THEN -1 ELSE 1

\* Mutant: the inverted parenthesization, which accepts interpolants outside.
InsideInverted(step, gap, last) ==
  /\ Sign(step) = Sign(gap) /\ Abs(step) <= 2 * Abs(gap)
  /\ 4 * Abs(step) > 3 * Abs(gap) - 2 * Tol

\* 2p < min(3*xm*q - |tol1*q|, |e*q|) for the step p/q, with gap = 2*xm.
Inside(step, gap, last) ==
  /\ Sign(step) = Sign(gap)
  /\ 4 * Abs(step) < 3 * Abs(gap) - 2 * Tol /\ 2 * Abs(step) < Abs(last)

\* The next two steps: interpolation when its test allows it, else bisection.
Steps(p, t) ==
  LET gap == p.c - p.b
      half == gap \div 2 IN
  {<<half, half>>} \cup
  IF Abs(t.e) >= Tol /\ Abs(known[p.a]) > Abs(known[p.b])
    THEN {<<step, t.d>> : step \in {s \in (-2 * Width)..(2 * Width) : Inside(s, gap, t.e)}}
    ELSE {}

\* A step shorter than the tolerance is lengthened to it, towards c.
Moved(p, step) == p.b + IF Abs(step) > Tol THEN step ELSE Sign(p.c - p.b) * Tol

Converged(p) == Abs(p.c - p.b) <= 2 * Tol \/ known[p.b] = 0

Return ==
  /\ phase = "loop" /\ iter < MaxIter
  /\ LET p == Swap(Trail) IN
     /\ Converged(p)
     /\ a' = p.a /\ b' = p.b /\ c' = p.c
  /\ phase' = "root" /\ UNCHANGED <<known, d, e, iter>>

Iterate ==
  /\ phase = "loop" /\ iter < MaxIter /\ iter' = iter + 1
  /\ LET t == Trail
         p == Swap(t) IN
     /\ ~Converged(p)
     /\ \E s \in Steps(p, t) :
          /\ d' = s[1] /\ e' = s[2]
          /\ a' = p.b /\ b' = Moved(p, s[1]) /\ c' = p.c
          /\ \E v \in Values :
               known' = [x \in DOMAIN known \cup {b'} |->
                           IF x \in DOMAIN known THEN known[x] ELSE v]
  /\ UNCHANGED phase

\* maxIter exhausted: b as it is.
GiveUp ==
  /\ phase = "loop" /\ iter = MaxIter /\ phase' = "best"
  /\ UNCHANGED <<known, a, b, c, d, e, iter>>

FlipNext == NoFlip \/ Enter \/ Return \/ Iterate \/ GiveUp

FlipSpec == FlipInit /\ [][FlipNext]_flipVars

-----------------------------------------------------------------------------

\* A flip is only reported where the profile really changes sign: the root the
\* search converged to is a zero or has a point of the other sign within twice
\* the tolerance, and it, or the estimate after the last iteration, lies in the
\* bracket nearest the spot, whatever the profile does there and whatever
\* interpolation proposes (brent.go:36-47, 99-107; aggregate.go:308-340).
FlipIsSignChange ==
  /\ phase = "root" =>
       \/ known[b] = 0
       \/ \E x \in DOMAIN known : Abs(x - b) <= 2 * Tol /\ Positive(x) # Positive(b)
  /\ phase \in {"root", "best"} => \E x \in Grid : Nearest(x) /\ b \in x..(x + Width)
=============================================================================
