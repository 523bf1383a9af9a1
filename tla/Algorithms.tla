----------------------------- MODULE Algorithms -----------------------------
(***************************************************************************)
(* The pure functions of exposure, market and edge/sweep_policy.go: an     *)
(* initial state is an input, and the invariants compare the function's    *)
(* value with what it must be.  The flip search runs on profiles of its    *)
(* own.                                                                    *)
(***************************************************************************)
EXTENDS FlipSearch, Sequences, FiniteSets

EX == INSTANCE Exposure
ES == INSTANCE ExpirySelection
SW == INSTANCE SweepWindows

CONSTANTS
  Identities, Data, Spots,  \* of ComputeSnapshot: contracts, their numbers, spots
  MaxContracts,    \* the longest chain
  Listings, Days,  \* of SelectedExpiriesByClass: sets of (class, expiry), days
  Instants         \* of NextOpen: (day, second) pairs

ASSUME AlgoAssumption ==
  /\ \A list \in Listings : \A x \in list : x = <<x[1], x[2]>> /\ x[2] \in Nat
  /\ \A id \in Identities :
       id = <<id[1], id[2], id[3], id[4]>> /\ id[1] \in Int /\ id[2] \in {"C", "P"}
  /\ \A x \in Data : x[1] \in Int /\ x[2] \in Int
  /\ Spots \subseteq Int
  /\ Days \subseteq Nat /\ Instants \subseteq Nat \X Nat

VARIABLE input

Quoted(id, x) == IF x[3] THEN id[2] ELSE "none"

\* The lists of contracts: an identity (strike, right, class, expiry) is listed at
\* most once.
Rosters ==
  {EX!SetToSeq(set) :
     set \in {S \in SUBSET Identities : IsFiniteSet(S) /\ Cardinality(S) <= MaxContracts}}

\* An identity with its exposure, its volatility and whether it is quoted.
Chains ==
  UNION {{[k \in 1..Len(ids) |->
             EX!Contract(ids[k][1], ids[k][2], ids[k][3], ids[k][4],
                         IF ids[k][2] = "C" THEN xs[k][1] ELSE -xs[k][1],
                         xs[k][2], Quoted(ids[k], xs[k]))] : xs \in [1..Len(ids) -> Data]} :
           ids \in Rosters}

\* An idle search: its variables play no part.
Idle ==
  /\ known = [x \in Grid |-> 0] /\ phase = "none"
  /\ a = 0 /\ b = 0 /\ c = 0 /\ d = 0 /\ e = 0 /\ iter = 0

AlgoInit ==
  \/ FlipInit /\ input = <<"profile">>
  \/ /\ Idle
     /\ \/ \E chain \in Chains, spot \in Spots : input = <<"chain", chain, spot>>
        \/ \E list \in Listings, today \in Days : input = <<"listing", list, today>>
        \/ \E index \in BOOLEAN, now \in Instants : input = <<"instant", index, now>>

AlgoSpec == AlgoInit /\ [][FlipNext /\ UNCHANGED input]_<<flipVars, input>>

-----------------------------------------------------------------------------

\* ComputeSnapshot counts every contract once everywhere (Exposure).
CountedOnce == input[1] = "chain" => EX!CountedOnce(input[2], 1)

\* The levels do not depend on the order of the chain (Exposure).
OrderIrrelevant == input[1] = "chain" => EX!OrderIrrelevant(input[2], 1, input[3])

\* The walls and the ATM strike are the extremes they are named for (Exposure).
LevelsExtreme == input[1] = "chain" => EX!LevelsExtreme(input[2], 1, input[3])

\* Expiry selection is stable and keeps what it must (ExpirySelection).
SelectionStable == input[1] = "listing" => ES!SelectionStable(input[2], input[3])

\* A blocked row reopens when the panel says so (SweepWindows).
ReopensWhenTold == input[1] = "instant" => SW!ReopensWhenTold(input[2], input[3], Instants)

\* Walls only at strikes their own side trades (Exposure).
WallsTraded == input[1] = "chain" => EX!WallsTraded(input[2], 1)
=============================================================================
