---------------------------- MODULE MCAlgorithms ----------------------------
(***************************************************************************)
(* The inputs of the pure functions for TLC.                               *)
(***************************************************************************)
EXTENDS Algorithms

\* Two sizes on either side of zero.
SmallValues == -2..2

\* Two strikes, both rights, two classes; expiry 1 is today.
SmallIdentities == {1, 3} \X {"C", "P"} \X {"SPX", "SPXW"} \X {1, 2}
SmallData == {<<0, 0, FALSE>>, <<1, 1, FALSE>>, <<2, 2, TRUE>>}
SmallSpots == {1, 2}

SmallListings == SUBSET ({"SPX", "SPXW"} \X {9, 10, 13, 15, 20, 27})
SmallDays == {10, 13}

Seconds == {0, SW!allOpen - 1, SW!allOpen, SW!indexOpen - 1, SW!indexOpen, SW!indexLast,
            SW!indexLast + 1, SW!allClose - 1, SW!allClose}
SmallInstants == (0..9) \X Seconds
=============================================================================
