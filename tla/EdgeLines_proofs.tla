-------------------------- MODULE EdgeLines_proofs --------------------------
(***************************************************************************)
(* Conservation of slots and lines, for any number of passes, contracts,   *)
(* slots and lines, and with the watchdog and tickSnapshotEnd racing.      *)
(***************************************************************************)
EXTENDS EdgeLines, FiniteSetTheorems, TLAPS

-----------------------------------------------------------------------------
(* Types.  A loop that is freeing lines still holds one.                   *)

FreeingInv == \A r \in Rotators : rot[r] = "free" => leased[r] > 0

TypeInv == TypeOK /\ FreeingInv

LEMMA TypeInvStep == TypeInv /\ [Next]_vars => TypeInv'
<1> SUFFICES ASSUME TypeInv, [Next]_vars PROVE TypeInv'
  OBVIOUS
<1> USE DEF TypeInv, passVars, accountVars, oiVars
<1>1. ASSUME NEW p \in Passes, StartPass(p) \/ CancelPass(p) \/ PassReturns(p) PROVE TypeInv'
  <2>1. /\ pass' \in [Passes -> {"off", "run", "cancelled", "ended"}]
        /\ UNCHANGED <<snap, fin, accountVars, oiVars>>
    BY <1>1 DEF TypeOK, StartPass, CancelPass, PassReturns
  <2> QED BY <2>1 DEF TypeOK, FreeingInv
<1>2. ASSUME NEW s \in Snaps, EnterGate(s) \/ SnapStep(s) PROVE TypeInv'
  <2>1. /\ snap' \in [Snaps -> {"new", "gated", "paced", "sent", "skipped", "dropped"}]
        /\ UNCHANGED <<pass, fin, oiVars>>
    BY <1>2 DEF TypeOK, EnterGate, SnapStep, GateCancelled, Register, SkipContract,
                PacerCancelled, SendSnapshot
  <2>2. lineHeld' \subseteq Snaps /\ slotHeld' \subseteq Snaps /\ used' \in Nat /\ gate' \in Nat
    BY <1>2, SMTT(30) DEF TypeOK, EnterGate, SnapStep, GateCancelled, Register, SkipContract,
                PacerCancelled, SendSnapshot
  <2> QED BY <2>1, <2>2 DEF TypeOK, FreeingInv
<1>3. ASSUME NEW w \in Finishers, NEW s \in Snaps, FinishBegins(w, s) \/ Finish(w, s)
      PROVE TypeInv'
  <2>1. /\ fin' \in [Finishers -> [Snaps -> {"idle", "line", "slot", "done"}]]
        /\ UNCHANGED <<pass, snap, oiVars>>
    BY <1>3 DEF TypeOK, FinishBegins, Finish, FinishLine, FinishSlot
  <2>2. lineHeld' \subseteq Snaps /\ slotHeld' \subseteq Snaps /\ used' \in Nat /\ gate' \in Nat
    BY <1>3, SMTT(30) DEF TypeOK, FinishBegins, Finish, FinishLine, FinishSlot
  <2> QED BY <2>1, <2>2 DEF TypeOK, FreeingInv
<1>4. ASSUME NEW u \in Underlyings, SubscribeUnderlying(u) PROVE TypeInv'
  BY <1>4 DEF TypeOK, FreeingInv, SubscribeUnderlying
<1>5. ASSUME NEW r \in Rotators, LeaseLine(r) PROVE TypeInv'
  BY <1>5 DEF TypeOK, FreeingInv, LeaseLine
<1>6. ASSUME NEW r \in Rotators, StopLeasing(r) PROVE TypeInv'
  BY <1>6 DEF TypeOK, FreeingInv, StopLeasing
<1>7. ASSUME NEW r \in Rotators, FreeLine(r) PROVE TypeInv'
  <2>1. leased[r] \in Nat /\ leased[r] > 0
    BY <1>7 DEF TypeOK, FreeingInv, FreeLine
  <2>2. leased' \in [Rotators -> Nat] /\ rot' \in [Rotators -> {"lease", "free"}] /\ FreeingInv'
    BY <1>7, <2>1 DEF TypeOK, FreeingInv, FreeLine
  <2> QED BY <1>7, <2>2 DEF TypeOK, FreeLine
<1>8. CASE UNCHANGED vars
  BY <1>8 DEF TypeOK, FreeingInv, vars
<1> QED BY <1>1, <1>2, <1>3, <1>4, <1>5, <1>6, <1>7, <1>8 DEF Next

LEMMA InitTyped == Init => TypeInv
<1> SUFFICES ASSUME Init PROVE TypeInv
  OBVIOUS
<1>1. /\ used \in Nat /\ gate \in Nat /\ oiGate \in Nat /\ leased \in [Rotators -> Nat]
      /\ lineHeld \subseteq Snaps /\ slotHeld \subseteq Snaps /\ l1 \subseteq Underlyings
  BY LinesAssumption DEF Init
<1>2. /\ pass \in [Passes -> {"off", "run", "cancelled", "ended"}]
      /\ snap \in [Snaps -> {"new", "gated", "paced", "sent", "skipped", "dropped"}]
      /\ fin \in [Finishers -> [Snaps -> {"idle", "line", "slot", "done"}]]
      /\ rot \in [Rotators -> {"lease", "free"}]
  BY DEF Init
<1>3. FreeingInv
  BY DEF Init, FreeingInv
<1> QED BY <1>1, <1>2, <1>3 DEF TypeOK, TypeInv

\* No counter goes below zero and every variable keeps its type
\* (Throttling.cs:80-117, TwsFeed.cs:736-874).
THEOREM TypeCorrect == Spec => []TypeOK
<1>1. TypeInv => TypeOK
  BY DEF TypeInv
<1> QED BY <1>1, InitTyped, TypeInvStep, PTL DEF Spec

-----------------------------------------------------------------------------
(* The gate.                                                               *)

Gated == {s \in Snaps : snap[s] = "gated"}

\* A registered snapshot has left the gate's waiting room for good.
SlotInv ==
  /\ gate + Cardinality(slotHeld) + Cardinality(Gated) = SweepInFlight
  /\ \A s \in slotHeld : snap[s] \notin {"new", "gated"}

LEMMA SnapsFinite ==
  ASSUME NEW S, S \subseteq Snaps
  PROVE  IsFiniteSet(S) /\ Cardinality(S) \in Nat
<1>1. IsFiniteSet(1..ChainSize)
  BY LinesAssumption, FS_Interval
<1>2. IsFiniteSet(Snaps)
  BY <1>1, LinesAssumption, FS_Product DEF Snaps
<1> QED BY <1>2, FS_Subset, FS_CardinalityType

LEMMA GatedFacts ==
  ASSUME TypeOK
  PROVE  /\ IsFiniteSet(Gated) /\ Cardinality(Gated) \in Nat
         /\ IsFiniteSet(slotHeld) /\ Cardinality(slotHeld) \in Nat
         /\ gate \in Nat /\ SweepInFlight \in Nat
BY SnapsFinite, LinesAssumption DEF TypeOK, Gated

LEMMA SlotInvStep == TypeOK /\ SlotInv /\ [Next]_vars => SlotInv'
<1> SUFFICES ASSUME TypeOK, SlotInv, [Next]_vars PROVE SlotInv'
  OBVIOUS
<1> USE GatedFacts
<1>1. ASSUME NEW s \in Snaps, EnterGate(s) PROVE SlotInv'
  <2>1. Gated' = Gated \cup {s} /\ s \notin Gated
    BY <1>1 DEF EnterGate, Gated, TypeOK
  <2>2. Cardinality(Gated') = Cardinality(Gated) + 1
    BY <2>1, FS_AddElement
  <2>3. gate' = gate - 1 /\ slotHeld' = slotHeld
    BY <1>1 DEF EnterGate
  <2>4. \A u \in slotHeld : snap'[u] \notin {"new", "gated"}
    BY <1>1 DEF EnterGate, SlotInv, TypeOK
  <2> QED BY <2>2, <2>3, <2>4 DEF SlotInv
<1>2. ASSUME NEW s \in Snaps, Register(s) PROVE SlotInv'
  <2>1. Gated' = Gated \ {s} /\ s \in Gated /\ s \notin slotHeld
    BY <1>2 DEF Register, Gated, TypeOK, SlotInv
  <2>2. Cardinality(Gated') = Cardinality(Gated) - 1
    BY <2>1, FS_RemoveElement
  <2>3. slotHeld' = slotHeld \cup {s} /\ gate' = gate
    BY <1>2 DEF Register
  <2>4. Cardinality(slotHeld') = Cardinality(slotHeld) + 1
    BY <2>1, <2>3, FS_AddElement
  <2>5. \A u \in slotHeld' : snap'[u] \notin {"new", "gated"}
    BY <1>2 DEF Register, SlotInv, TypeOK
  <2> QED BY <2>2, <2>3, <2>4, <2>5 DEF SlotInv
<1>3. ASSUME NEW s \in Snaps, SkipContract(s) PROVE SlotInv'
  <2>1. Gated' = Gated \ {s} /\ s \in Gated
    BY <1>3 DEF SkipContract, Gated, TypeOK
  <2>2. Cardinality(Gated') = Cardinality(Gated) - 1
    BY <2>1, FS_RemoveElement
  <2>3. slotHeld' = slotHeld /\ gate' = gate + 1
    BY <1>3 DEF SkipContract
  <2>4. \A u \in slotHeld : snap'[u] \notin {"new", "gated"}
    BY <1>3 DEF SkipContract, SlotInv, TypeOK
  <2> QED BY <2>2, <2>3, <2>4 DEF SlotInv
<1>4. ASSUME NEW s \in Snaps, GateCancelled(s) \/ PacerCancelled(s) \/ SendSnapshot(s)
      PROVE SlotInv'
  <2>1. Gated' = Gated /\ slotHeld' = slotHeld /\ gate' = gate
    BY <1>4 DEF GateCancelled, PacerCancelled, SendSnapshot, Gated, TypeOK, accountVars
  <2>2. \A u \in slotHeld : snap'[u] \notin {"new", "gated"}
    BY <1>4 DEF GateCancelled, PacerCancelled, SendSnapshot, SlotInv, TypeOK
  <2> QED BY <2>1, <2>2 DEF SlotInv
<1>5. ASSUME NEW w \in Finishers, NEW s \in Snaps, FinishSlot(w, s) PROVE SlotInv'
  <2>1. slotHeld' = slotHeld \ {s} /\ snap' = snap /\ Gated' = Gated
        /\ gate' = IF s \in slotHeld THEN gate + 1 ELSE gate
    BY <1>5 DEF FinishSlot, Gated
  <2>2. Cardinality(slotHeld') = IF s \in slotHeld THEN Cardinality(slotHeld) - 1
                                                   ELSE Cardinality(slotHeld)
    BY <2>1, FS_RemoveElement
  <2> QED BY <2>1, <2>2 DEF SlotInv
<1>6. CASE UNCHANGED <<snap, slotHeld, gate>>
  BY <1>6 DEF SlotInv, Gated
<1>7. ASSUME NEW p \in Passes, StartPass(p) \/ CancelPass(p) \/ PassReturns(p) PROVE SlotInv'
  BY <1>6, <1>7 DEF StartPass, CancelPass, PassReturns, accountVars
<1>8. ASSUME NEW w \in Finishers, NEW s \in Snaps, FinishBegins(w, s) \/ FinishLine(w, s)
      PROVE SlotInv'
  BY <1>6, <1>8 DEF FinishBegins, FinishLine, accountVars
<1>9. ASSUME NEW u \in Underlyings, SubscribeUnderlying(u) PROVE SlotInv'
  BY <1>6, <1>9 DEF SubscribeUnderlying, passVars
<1>10. ASSUME NEW r \in Rotators, LeaseLine(r) \/ StopLeasing(r) \/ FreeLine(r) PROVE SlotInv'
  BY <1>6, <1>10 DEF LeaseLine, StopLeasing, FreeLine, passVars, accountVars
<1>11. CASE UNCHANGED vars
  BY <1>6, <1>11 DEF vars, passVars, accountVars
<1> QED BY <1>1, <1>2, <1>3, <1>4, <1>5, <1>7, <1>8, <1>9, <1>10, <1>11
        DEF Next, SnapStep, Finish

\* No slot of the sweep gate is created or returned twice, whichever of
\* tickSnapshotEnd and the watchdog finishes a snapshot first
\* (TwsFeed.cs:736-803).
THEOREM SlotsConserved == Spec => []SlotBalance
<1>1. Init => SlotInv
  <2> SUFFICES ASSUME Init PROVE SlotInv
    OBVIOUS
  <2>1. Gated = {} /\ slotHeld = {} /\ gate = SweepInFlight
    BY DEF Init, Gated
  <2> QED BY <2>1, FS_EmptySet, LinesAssumption DEF SlotInv
<1>2. SlotInv => SlotBalance
  BY DEF SlotInv, SlotBalance, Gated
<1> QED BY <1>1, <1>2, TypeCorrect, SlotInvStep, PTL DEF Spec
-----------------------------------------------------------------------------
(* The account.                                                            *)

\* A snapshot registers once, and a rotation leases no more than its share, so
\* that Leases counts all it holds.
LineInv ==
  /\ LinesBalance
  /\ \A s \in lineHeld : snap[s] \notin {"new", "gated"}
  /\ \A r \in Rotators : leased[r] <= Target

LEMMA TargetNat == Rotators # {} => Target \in Nat \ {0}
<1> SUFFICES ASSUME Rotators # {} PROVE Target \in Nat \ {0}
  OBVIOUS
<1>1. Cardinality(Rotators) \in Nat /\ Cardinality(Rotators) # 0
  BY LinesAssumption, FS_CardinalityType, FS_EmptySet
<1>2. OiLines \div Cardinality(Rotators) \in Int
  BY <1>1, LinesAssumption
<1> QED BY <1>2 DEF Target

LEMMA LeasesFinite == IsFiniteSet(Leases) /\ TotalLeased \in Nat
<1>1. CASE Rotators = {}
  <2>1. Leases = {} BY <1>1 DEF Leases
  <2> QED BY <2>1, FS_EmptySet DEF TotalLeased
<1>2. CASE Rotators # {}
  <2>1. IsFiniteSet(1..Target) BY <1>2, TargetNat, FS_Interval
  <2>2. IsFiniteSet(Rotators \X (1..Target)) BY <2>1, LinesAssumption, FS_Product
  <2>3. Leases \in SUBSET (Rotators \X (1..Target)) BY DEF Leases
  <2> QED BY <2>2, <2>3, FS_Subset, FS_CardinalityType DEF TotalLeased
<1> QED BY <1>1, <1>2

LEMMA AccountFacts ==
  ASSUME TypeOK
  PROVE  /\ IsFiniteSet(lineHeld) /\ Cardinality(lineHeld) \in Nat
         /\ IsFiniteSet(l1) /\ Cardinality(l1) \in Nat
         /\ IsFiniteSet(Leases) /\ TotalLeased \in Nat
         /\ used \in Nat /\ oiGate \in Nat /\ Capacity \in Nat /\ OiLines \in Nat
<1>1. IsFiniteSet(l1) /\ Cardinality(l1) \in Nat
  BY LinesAssumption, FS_Subset, FS_CardinalityType DEF TypeOK
<1> QED BY <1>1, SnapsFinite, LeasesFinite, LinesAssumption DEF TypeOK

\* A lease more and a lease less.
LEMMA LeaseCounted ==
  ASSUME TypeOK, NEW r \in Rotators, leased[r] < Target,
         leased' = [leased EXCEPT ![r] = @ + 1]
  PROVE  TotalLeased' = TotalLeased + 1
<1> DEFINE new == <<r, leased[r] + 1>>
<1>1. leased \in [Rotators -> Nat] /\ Target \in Nat BY TargetNat DEF TypeOK
<1>2. new \notin Leases BY <1>1 DEF Leases
<1>3. Leases' = Leases \cup {new}
  <2>1. ASSUME NEW q \in Rotators, NEW k \in 1..Target
        PROVE  k <= leased'[q] <=> k <= leased[q] \/ <<q, k>> = new
    BY <1>1
  <2> QED BY <2>1, <1>1 DEF Leases, Target
<1> QED BY <1>2, <1>3, LeasesFinite, FS_AddElement DEF TotalLeased

LEMMA LeaseUncounted ==
  ASSUME TypeOK, NEW r \in Rotators, leased[r] > 0, leased[r] <= Target,
         leased' = [leased EXCEPT ![r] = @ - 1]
  PROVE  TotalLeased' = TotalLeased - 1 /\ TotalLeased > 0
<1> DEFINE old == <<r, leased[r]>>
<1>1. leased \in [Rotators -> Nat] /\ Target \in Nat BY TargetNat DEF TypeOK
<1>2. old \in Leases BY <1>1 DEF Leases
<1>3. Leases' = Leases \ {old}
  <2>1. ASSUME NEW q \in Rotators, NEW k \in 1..Target
        PROVE  k <= leased'[q] <=> k <= leased[q] /\ <<q, k>> # old
    BY <1>1
  <2> QED BY <2>1, <1>1 DEF Leases, Target
<1>4. TotalLeased # 0 BY <1>2, LeasesFinite, FS_EmptySet DEF TotalLeased
<1>5. Cardinality(Leases \ {old}) = Cardinality(Leases) - 1
  <2> HIDE DEF old
  <2> QED BY <1>2, LeasesFinite, FS_RemoveElement
<1> QED BY <1>3, <1>4, <1>5, LeasesFinite DEF TotalLeased

LEMMA LineInvStep == TypeInv /\ LineInv /\ [Next]_vars => LineInv'
<1> SUFFICES ASSUME TypeInv, LineInv, [Next]_vars PROVE LineInv'
  OBVIOUS
<1>0. TypeOK BY DEF TypeInv
<1> USE <1>0, AccountFacts
<1>a. ASSUME UNCHANGED leased PROVE TotalLeased' = TotalLeased
  BY <1>a DEF TotalLeased, Leases, Target
<1>1. ASSUME NEW s \in Snaps, Register(s) PROVE LineInv'
  <2>1. s \notin lineHeld /\ lineHeld' = lineHeld \cup {s} /\ used' = used + 1 /\ used < Capacity
        /\ UNCHANGED <<leased, oiGate, l1>>
    BY <1>1 DEF Register, LineInv, TryAcquire, oiVars
  <2>2. Cardinality(lineHeld') = Cardinality(lineHeld) + 1
    BY <2>1, FS_AddElement
  <2>3. \A u \in lineHeld' : snap'[u] \notin {"new", "gated"}
    BY <1>1 DEF Register, LineInv, TypeOK
  <2>4. LinesBalance'
    BY <2>1, <2>2, <1>a DEF LineInv, LinesBalance
  <2> QED BY <2>1, <2>3, <2>4 DEF LineInv, Target
<1>2. ASSUME NEW s \in Snaps, NEW w \in Finishers, FinishLine(w, s) PROVE LineInv'
  <2>1. lineHeld' = lineHeld \ {s} /\ UNCHANGED <<leased, oiGate, l1, snap>>
        /\ used' = IF s \in lineHeld /\ used > 0 THEN used - 1 ELSE used
    BY <1>2 DEF FinishLine, oiVars
  <2>2. Cardinality(lineHeld') = IF s \in lineHeld THEN Cardinality(lineHeld) - 1
                                                   ELSE Cardinality(lineHeld)
    BY <2>1, FS_RemoveElement
  <2>3. s \in lineHeld => Cardinality(lineHeld) # 0
    BY FS_EmptySet
  <2>4. LinesBalance'
    BY <2>1, <2>2, <2>3, <1>a DEF LineInv, LinesBalance
  <2> QED BY <2>1, <2>4 DEF LineInv, Target
<1>3. ASSUME NEW u \in Underlyings, SubscribeUnderlying(u) PROVE LineInv'
  <2>1. u \notin l1 /\ l1' = l1 \cup {u} /\ used' = used + 1 /\ used < Capacity
        /\ UNCHANGED <<leased, oiGate, lineHeld, snap>>
    BY <1>3 DEF SubscribeUnderlying, TryAcquire, passVars
  <2>2. Cardinality(l1') = Cardinality(l1) + 1
    BY <2>1, FS_AddElement
  <2>3. LinesBalance'
    BY <2>1, <2>2, <1>a DEF LineInv, LinesBalance
  <2> QED BY <2>1, <2>3 DEF LineInv, Target
<1>4. ASSUME NEW r \in Rotators, LeaseLine(r) PROVE LineInv'
  <2>1. leased[r] < Target /\ leased' = [leased EXCEPT ![r] = @ + 1]
        /\ oiGate' = oiGate - 1 /\ used' = used + 1 /\ used < Capacity
        /\ UNCHANGED <<lineHeld, l1, snap>>
    BY <1>4 DEF LeaseLine, TryAcquire, passVars
  <2>2. TotalLeased' = TotalLeased + 1 BY <2>1, LeaseCounted
  <2>3. LinesBalance' BY <2>1, <2>2 DEF LineInv, LinesBalance
  <2>4. \A q \in Rotators : leased'[q] <= Target
    BY <2>1, TargetNat DEF LineInv, TypeOK
  <2> QED BY <2>1, <2>3, <2>4 DEF LineInv, Target
<1>5. ASSUME NEW r \in Rotators, FreeLine(r) PROVE LineInv'
  <2>1. leased[r] > 0 /\ leased[r] <= Target /\ leased' = [leased EXCEPT ![r] = @ - 1]
        /\ oiGate' = oiGate + 1 /\ used' = (IF used > 0 THEN used - 1 ELSE used)
        /\ UNCHANGED <<lineHeld, l1, snap>>
    BY <1>5 DEF FreeLine, passVars, TypeInv, FreeingInv, LineInv
  <2>2. TotalLeased' = TotalLeased - 1 /\ TotalLeased > 0 BY <2>1, LeaseUncounted
  <2>3. LinesBalance' BY <2>1, <2>2 DEF LineInv, LinesBalance
  <2>4. \A q \in Rotators : leased'[q] <= Target
    BY <2>1, TargetNat DEF LineInv, TypeOK
  <2> QED BY <2>1, <2>3, <2>4 DEF LineInv, Target
<1>6. ASSUME UNCHANGED <<lineHeld, used, oiGate, leased, l1>>,
             \A s \in lineHeld : snap'[s] \notin {"new", "gated"}
      PROVE LineInv'
  BY <1>6, <1>a DEF LineInv, LinesBalance, Target
<1>7. ASSUME NEW s \in Snaps,
             EnterGate(s) \/ GateCancelled(s) \/ SkipContract(s) \/ PacerCancelled(s)
               \/ SendSnapshot(s)
      PROVE LineInv'
  <2>1. UNCHANGED <<lineHeld, used, oiGate, leased, l1>>
    BY <1>7 DEF EnterGate, GateCancelled, SkipContract, PacerCancelled, SendSnapshot,
                accountVars, oiVars
  <2>2. \A u \in lineHeld : snap'[u] \notin {"new", "gated"}
    BY <1>7 DEF EnterGate, GateCancelled, SkipContract, PacerCancelled, SendSnapshot,
                LineInv, TypeOK
  <2> QED BY <2>1, <2>2, <1>6
<1>8. CASE UNCHANGED <<lineHeld, used, oiGate, leased, l1, snap>>
  BY <1>8, <1>6 DEF LineInv
<1>9. ASSUME NEW p \in Passes, StartPass(p) \/ CancelPass(p) \/ PassReturns(p) PROVE LineInv'
  BY <1>8, <1>9 DEF StartPass, CancelPass, PassReturns, accountVars, oiVars
<1>10. ASSUME NEW w \in Finishers, NEW s \in Snaps, FinishBegins(w, s) \/ FinishSlot(w, s)
       PROVE LineInv'
  BY <1>8, <1>10 DEF FinishBegins, FinishSlot, accountVars, oiVars
<1>11. ASSUME NEW r \in Rotators, StopLeasing(r) PROVE LineInv'
  BY <1>8, <1>11 DEF StopLeasing, passVars, accountVars
<1>12. CASE UNCHANGED vars
  BY <1>8, <1>12 DEF vars, passVars, accountVars, oiVars
<1> QED BY <1>1, <1>2, <1>3, <1>4, <1>5, <1>7, <1>9, <1>10, <1>11, <1>12
        DEF Next, SnapStep, Finish

\* The accountant never believes in more or fewer lines than snapshots, rotations
\* and underlyings hold, and the account and the OI pool are never exceeded, for
\* any number of passes, rotations and lines (Throttling.cs:80-91,
\* TwsFeed.cs:780-874).
THEOREM LinesConserved == Spec => []LinesBalance
<1>1. Init => LineInv
  <2> SUFFICES ASSUME Init PROVE LineInv
    OBVIOUS
  <2>1. \A r \in Rotators : leased[r] = 0 /\ leased[r] <= Target
    BY TargetNat DEF Init
  <2>2. Leases = {}
    BY <2>1 DEF Leases
  <2>3. /\ lineHeld = {} /\ l1 = {} /\ used = 0 /\ oiGate = OiLines /\ TotalLeased = 0
        /\ Cardinality(lineHeld) = 0 /\ Cardinality(l1) = 0
    BY <2>2, FS_EmptySet DEF Init, TotalLeased
  <2> QED BY <2>1, <2>3, LinesAssumption DEF LineInv, LinesBalance
<1>2. LineInv => LinesBalance
  BY DEF LineInv
<1>3. Init => TypeInv
  BY InitTyped
<1> QED BY <1>1, <1>2, <1>3, TypeInvStep, LineInvStep, PTL DEF Spec
=============================================================================
