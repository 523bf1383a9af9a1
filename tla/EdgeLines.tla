------------------------------ MODULE EdgeLines ------------------------------
(***************************************************************************)
(* Market-data lines and snapshot slots of the C# edge (TwsFeed.cs,        *)
(* Throttling.cs, Budget.cs).  Every pass snapshots its whole chain        *)
(* through one shared gate of SweepInFlight slots; a snapshot takes a      *)
(* line of the account's LineAccountant, registers, waits for the message  *)
(* pacer and is sent.  Slot and line go back in FinishSnapshot, called by  *)
(* the EReader thread (tickSnapshotEnd) and by a 30-second watchdog, which *)
(* may run at the same time.  The open-interest rotation and the permanent *)
(* underlying lines draw on the same account.                              *)
(***************************************************************************)
EXTENDS Integers, FiniteSets

CONSTANTS
  Passes,         \* pass tasks, each with its own CancellationToken
  ChainSize,      \* contracts of a pass
  Rotators,       \* OI rotation loops, one per ticker
  Underlyings,    \* tickers whose L1 line may be subscribed
  Capacity,       \* LineAccountant capacity (100)
  SweepInFlight,  \* slots of the sweep gate (6)
  OiLines,        \* slots of the OI gate (40)
  MayCancel       \* whether the roster drops a pass that is running

Snaps == Passes \X (1..ChainSize)
Finishers == {"ereader", "watchdog"}

ASSUME LinesAssumption ==
  /\ IsFiniteSet(Passes) /\ IsFiniteSet(Rotators) /\ IsFiniteSet(Underlyings)
  /\ ChainSize \in Nat /\ Capacity \in Nat /\ OiLines \in Nat
  /\ SweepInFlight \in Nat \ {0} /\ MayCancel \in BOOLEAN

VARIABLES
  pass,      \* each pass: "off", "run", "cancelled" or "ended"
  snap,      \* each snapshot of a pass
  fin,       \* progress of FinishSnapshot per caller and snapshot
  lineHeld,  \* _lineHeld
  slotHeld,  \* _snapshotDone
  used,      \* LineAccountant._used
  gate,      \* free slots of _sweepGate
  oiGate,    \* free slots of _oiGate
  rot,       \* each rotation loop: "lease" or "free"
  leased,    \* lines each rotation loop holds
  l1         \* underlyings whose line is up

passVars == <<pass, snap, fin>>
accountVars == <<lineHeld, slotHeld, used, gate>>
oiVars == <<oiGate, rot, leased, l1>>
vars == <<passVars, accountVars, oiVars>>

Target == IF OiLines \div Cardinality(Rotators) > 1
          THEN OiLines \div Cardinality(Rotators) ELSE 1

TypeOK ==
  /\ pass \in [Passes -> {"off", "run", "cancelled", "ended"}]
  /\ snap \in [Snaps -> {"new", "gated", "paced", "sent", "skipped", "dropped"}]
  /\ fin \in [Finishers -> [Snaps -> {"idle", "line", "slot", "done"}]]
  /\ lineHeld \subseteq Snaps /\ slotHeld \subseteq Snaps
  /\ used \in Nat /\ gate \in Nat /\ oiGate \in Nat
  /\ rot \in [Rotators -> {"lease", "free"}] /\ leased \in [Rotators -> Nat]
  /\ l1 \subseteq Underlyings

Init ==
  /\ pass = [p \in Passes |-> "off"]
  /\ snap = [s \in Snaps |-> "new"]
  /\ fin = [w \in Finishers |-> [s \in Snaps |-> "idle"]]
  /\ lineHeld = {} /\ slotHeld = {} /\ used = 0
  /\ gate = SweepInFlight /\ oiGate = OiLines
  /\ rot = [r \in Rotators |-> "lease"] /\ leased = [r \in Rotators |-> 0]
  /\ l1 = {}

-----------------------------------------------------------------------------
(* RunPassAsync: one task per contract.                                    *)

StartPass(p) ==
  /\ pass[p] = "off"
  /\ pass' = [pass EXCEPT ![p] = "run"]
  /\ UNCHANGED <<snap, fin, accountVars, oiVars>>

CancelPass(p) ==
  /\ MayCancel /\ pass[p] = "run"
  /\ pass' = [pass EXCEPT ![p] = "cancelled"]
  /\ UNCHANGED <<snap, fin, accountVars, oiVars>>

\* gate.WaitAsync(ct)
EnterGate(s) ==
  /\ snap[s] = "new" /\ pass[s[1]] = "run" /\ gate > 0
  /\ gate' = gate - 1
  /\ snap' = [snap EXCEPT ![s] = "gated"]
  /\ UNCHANGED <<pass, fin, lineHeld, slotHeld, used, oiVars>>

\* A cancelled wait throws before anything is held.
GateCancelled(s) ==
  /\ snap[s] = "new" /\ pass[s[1]] = "cancelled"
  /\ snap' = [snap EXCEPT ![s] = "dropped"]
  /\ UNCHANGED <<pass, fin, accountVars, oiVars>>

TryAcquire == used < Capacity

Register(s) ==
  /\ snap[s] = "gated" /\ TryAcquire
  /\ used' = used + 1
  /\ lineHeld' = lineHeld \cup {s} /\ slotHeld' = slotHeld \cup {s}
  /\ snap' = [snap EXCEPT ![s] = "paced"]
  /\ UNCHANGED <<pass, fin, gate, oiVars>>

\* Mutant: the skipped contract keeps its slot.
SkipKeepsSlot(s) ==
  /\ snap[s] = "gated"
  /\ snap' = [snap EXCEPT ![s] = "skipped"]
  /\ UNCHANGED <<pass, fin, accountVars, oiVars>>

\* The budget is spent or TWS is not connected: finally releases the slot.
SkipContract(s) ==
  /\ snap[s] = "gated"
  /\ gate' = gate + 1
  /\ snap' = [snap EXCEPT ![s] = "skipped"]
  /\ UNCHANGED <<pass, fin, lineHeld, slotHeld, used, oiVars>>

\* Task.Delay(wait, ct) inside the pacer throws; the slot is no longer owned by
\* this task, so finally keeps it.
PacerCancelled(s) ==
  /\ snap[s] = "paced" /\ pass[s[1]] = "cancelled"
  /\ snap' = [snap EXCEPT ![s] = "dropped"]
  /\ UNCHANGED <<pass, fin, accountVars, oiVars>>

\* The pacer grants a token, without looking at ct; reqMktData, and the watchdog
\* is started.
SendSnapshot(s) ==
  /\ snap[s] = "paced"
  /\ snap' = [snap EXCEPT ![s] = "sent"]
  /\ UNCHANGED <<pass, fin, accountVars, oiVars>>

PassReturns(p) ==
  /\ pass[p] \in {"run", "cancelled"}
  /\ \A i \in 1..ChainSize : snap[<<p, i>>] \in {"sent", "skipped", "dropped"}
  /\ pass' = [pass EXCEPT ![p] = "ended"]
  /\ UNCHANGED <<snap, fin, accountVars, oiVars>>

-----------------------------------------------------------------------------
(* FinishSnapshot, by tickSnapshotEnd (which may never come) and by the    *)
(* watchdog.  Each TryRemove is atomic, the function is not.               *)

\* Mutant: no watchdog, a snapshot ends only when TWS says so.
FinishByTwsOnly(w, s) ==
  /\ snap[s] = "sent" /\ fin[w][s] = "idle" /\ w = "ereader"
  /\ fin' = [fin EXCEPT ![w][s] = "line"]
  /\ UNCHANGED <<pass, snap, accountVars, oiVars>>

FinishBegins(w, s) ==
  /\ snap[s] = "sent" /\ fin[w][s] = "idle"
  /\ fin' = [fin EXCEPT ![w][s] = "line"]
  /\ UNCHANGED <<pass, snap, accountVars, oiVars>>

\* Mutant: the line is released by every caller.
FinishLineTwice(w, s) ==
  /\ fin[w][s] = "line"
  /\ lineHeld' = lineHeld \ {s}
  /\ used' = IF used > 0 THEN used - 1 ELSE used
  /\ fin' = [fin EXCEPT ![w][s] = "slot"]
  /\ UNCHANGED <<pass, snap, slotHeld, gate, oiVars>>

FinishLine(w, s) ==
  /\ fin[w][s] = "line"
  /\ lineHeld' = lineHeld \ {s}
  /\ used' = IF s \in lineHeld /\ used > 0 THEN used - 1 ELSE used
  /\ fin' = [fin EXCEPT ![w][s] = "slot"]
  /\ UNCHANGED <<pass, snap, slotHeld, gate, oiVars>>

\* Mutant: the slot is released by every caller.
FinishSlotTwice(w, s) ==
  /\ fin[w][s] = "slot"
  /\ slotHeld' = slotHeld \ {s}
  /\ gate' = gate + 1
  /\ fin' = [fin EXCEPT ![w][s] = "done"]
  /\ UNCHANGED <<pass, snap, lineHeld, used, oiVars>>

FinishSlot(w, s) ==
  /\ fin[w][s] = "slot"
  /\ slotHeld' = slotHeld \ {s}
  /\ gate' = IF s \in slotHeld THEN gate + 1 ELSE gate
  /\ fin' = [fin EXCEPT ![w][s] = "done"]
  /\ UNCHANGED <<pass, snap, lineHeld, used, oiVars>>

-----------------------------------------------------------------------------
(* The rest of the account: underlying lines and the OI rotation.          *)

SubscribeUnderlying(u) ==
  /\ u \notin l1 /\ TryAcquire
  /\ used' = used + 1
  /\ l1' = l1 \cup {u}
  /\ UNCHANGED <<passVars, lineHeld, slotHeld, gate, oiGate, rot, leased>>

LeaseLine(r) ==
  /\ rot[r] = "lease" /\ leased[r] < Target /\ oiGate > 0 /\ TryAcquire
  /\ oiGate' = oiGate - 1 /\ used' = used + 1
  /\ leased' = [leased EXCEPT ![r] = @ + 1]
  /\ UNCHANGED <<passVars, lineHeld, slotHeld, gate, rot, l1>>

\* The share is leased, the pool is empty, or the account is: hold, then free.
StopLeasing(r) ==
  /\ rot[r] = "lease" /\ leased[r] > 0
  /\ leased[r] = Target \/ oiGate = 0 \/ ~TryAcquire
  /\ rot' = [rot EXCEPT ![r] = "free"]
  /\ UNCHANGED <<passVars, accountVars, oiGate, leased, l1>>

FreeLine(r) ==
  /\ rot[r] = "free"
  /\ leased' = [leased EXCEPT ![r] = @ - 1]
  /\ used' = IF used > 0 THEN used - 1 ELSE used
  /\ oiGate' = oiGate + 1
  /\ rot' = [rot EXCEPT ![r] = IF leased[r] = 1 THEN "lease" ELSE "free"]
  /\ UNCHANGED <<passVars, lineHeld, slotHeld, gate, l1>>

SnapStep(s) ==
  \/ GateCancelled(s) \/ Register(s) \/ SkipContract(s)
  \/ PacerCancelled(s) \/ SendSnapshot(s)

Finish(w, s) == FinishLine(w, s) \/ FinishSlot(w, s)

Next ==
  \/ \E p \in Passes : StartPass(p) \/ CancelPass(p) \/ PassReturns(p)
  \/ \E s \in Snaps : EnterGate(s) \/ SnapStep(s)
  \/ \E w \in Finishers, s \in Snaps : FinishBegins(w, s) \/ Finish(w, s)
  \/ \E u \in Underlyings : SubscribeUnderlying(u)
  \/ \E r \in Rotators : LeaseLine(r) \/ StopLeasing(r) \/ FreeLine(r)

Spec == Init /\ [][Next]_vars

\* Tasks run, the pacer refills, SemaphoreSlim is first come first served, and
\* every watchdog fires; a tickSnapshotEnd need not come.
FairSpec ==
  /\ Spec
  /\ \A s \in Snaps : SF_vars(EnterGate(s)) /\ WF_vars(SnapStep(s))
  /\ \A s \in Snaps : WF_vars(FinishBegins("watchdog", s))
  /\ \A w \in Finishers, s \in Snaps : WF_vars(Finish(w, s))
  /\ \A p \in Passes : WF_vars(PassReturns(p))
  /\ \A r \in Rotators : WF_vars(StopLeasing(r)) /\ WF_vars(FreeLine(r))

-----------------------------------------------------------------------------
(* Properties.                                                             *)

\* The lines leased by all rotations, one by one.
Leases == {l \in Rotators \X (1..Target) : l[2] <= leased[l[1]]}
TotalLeased == Cardinality(Leases)

\* The accountant's number is the number of lines really held, by snapshots,
\* rotations and underlyings, and never exceeds the account, although a
\* watchdog and a late tickSnapshotEnd may both finish the same snapshot
\* (Throttling.cs:80-91, TwsFeed.cs:780-803); the OI pool is never
\* oversubscribed and every lease holds "BOTH an OI gate slot and an accountant
\* line" (TwsFeed.cs:808-811, 824-826).
LinesBalance ==
  /\ used = Cardinality(lineHeld) + TotalLeased + Cardinality(l1)
  /\ used <= Capacity
  /\ oiGate + TotalLeased = OiLines

\* "the gate slot travels with the snapshot" (TwsFeed.cs:733-735): free slots,
\* slots of tasks before registration and slots of registered snapshots make up
\* the gate, so at most SweepInFlight snapshots are ever in flight.
SlotBalance ==
  gate + Cardinality(slotHeld) + Cardinality({s \in Snaps : snap[s] = "gated"}) = SweepInFlight

\* Every snapshot that was sent gives its slot back, also one that TWS never ends
\* and one of a cancelled pass (TwsFeed.cs:780-804, the watchdog).
SlotsReturn == \A s \in Snaps : snap[s] = "sent" ~> s \notin slotHeld

\* A slot no one will release: its task was cancelled in the pacer.
Leaked(s) == snap[s] = "dropped" /\ s \in slotHeld

\* A started pass ends, however many contracts of all passes compete for the
\* slots, unless an abort has leaked one of them (TwsFeed.cs:736-778).
PassEnds ==
  \A p \in Passes : pass[p] = "run" ~> (pass[p] = "ended" \/ \E s \in Snaps : Leaked(s))

\* An abort gives back whatever the pass holds: "in-flight snapshot slots and lines
\* release through the existing FinishSnapshot/watchdog path" (TwsFeed.cs:609-611).
AbortReleases == \A s \in Snaps : s \in slotHeld ~> s \notin slotHeld
=============================================================================
