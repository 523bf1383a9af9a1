------------------------ MODULE SweepControl_proofs ------------------------
(***************************************************************************)
(* Safety of SweepControl for every watchlist, every number of pages,      *)
(* connections, restarts and concurrent passes.                            *)
(***************************************************************************)
EXTENDS SweepControl, FiniteSetTheorems, TLAPS

-----------------------------------------------------------------------------
(* Types.                                                                  *)

LEMMA SetSweepsType ==
  ASSUME TypeOK, NEW o \in Operators, NEW set \in SUBSET Tickers,
         NEW t \in Tickers \cup {None}, SetSweeps(o, set, t)
  PROVE  /\ pc' \in [Threads -> PCs]
         /\ want' \in [Threads -> SUBSET Tickers]
         /\ add' \in [Threads -> Tickers \cup {None}]
         /\ view' \in [Operators -> SUBSET Tickers]
<1>1. o \in Threads
  BY DEF Threads
<1>2. CASE SetSweepsChecked(o, set, t)
  BY <1>1, <1>2 DEF TypeOK, SetSweepsChecked, PCs
<1>3. CASE SetSweepsRefused(o)
  BY <1>1, <1>3 DEF TypeOK, SetSweepsRefused
<1> QED BY <1>2, <1>3 DEF SetSweeps

LEMMA PushRestType ==
  ASSUME TypeOK, NEW p \in Threads, NEW rest \in SUBSET Conns, PushRest(p, rest)
  PROVE  /\ pc' \in [Threads -> PCs]
         /\ todo' \in [Threads -> SUBSET Conns]
         /\ view' \in [Operators -> SUBSET Tickers]
BY DEF TypeOK, PushRest, PCs

LEMMA SendSweepDoneType ==
  ASSUME TypeOK, NEW set, NEW ok, SendSweepDone(set, ok)
  PROVE  dones' \in [Conns -> DoneBag]
<1> DEFINE bump == [t \in Tickers |-> [b \in BOOLEAN |->
                      IF t \in set /\ b = ok THEN dones[session][t][b] + 1
                                             ELSE dones[session][t][b]]]
<1>1. CASE session \notin conns
  BY <1>1 DEF TypeOK, SendSweepDone
<1>2. CASE session \in conns
  <2>1. session \in Conns /\ dones \in [Conns -> DoneBag]
    BY <1>2 DEF TypeOK
  <2>2. bump \in DoneBag
    BY <2>1 DEF DoneBag
  <2>3. dones' = [dones EXCEPT ![session] = bump]
    BY <1>2 DEF SendSweepDone
  <2> QED BY <2>1, <2>2, <2>3
<1> QED BY <1>1, <1>2

LEMMA LowestFreeSlot ==
  ASSUME NEW t \in Tickers, LowestFree(t) \in FreeSlots(t)
  PROVE  LowestFree(t) \in Slots
BY DEF FreeSlots

LEMMA PushSendSeq ==
  ASSUME NEW s \in Seq(SUBSET Tickers), NEW e \in SUBSET Tickers
  PROVE  /\ Append(s, e) \in Seq(SUBSET Tickers)
         /\ s # <<>> => Tail(s) \in Seq(SUBSET Tickers) /\ Head(s) \in SUBSET Tickers
OBVIOUS

LEMMA NoDonesType == NoDones \in DoneBag
BY DEF NoDones, DoneBag

LEMMA TaskFacts ==
  /\ FreeTask \in PassTask /\ [stage |-> "run", cancelled |-> FALSE] \in PassTask
  /\ \A k \in PassTask : /\ [k EXCEPT !.cancelled = TRUE] \in PassTask
                         /\ [k EXCEPT !.stage = "fin"] \in PassTask
BY DEF FreeTask, PassTask, Stages

LEMMA ThreadFacts ==
  /\ Operators \subseteq Threads /\ Conns \subseteq Threads /\ Monitor \in Threads
  /\ Conns \subseteq 0..MaxConns /\ 0 \notin Conns
  /\ Slots \subseteq 0..MaxLive /\ 0 \notin Slots
BY SweepAssumption DEF Threads, Conns, Slots

\* Every variable keeps its type.
LEMMA TypeOKStep ==
  TypeOK /\ [Next]_vars => TypeOK'
<1> SUFFICES ASSUME TypeOK, [Next]_vars PROVE TypeOK'
  OBVIOUS
<1> USE ThreadFacts
<1>1. ASSUME NEW o \in Operators, Kill(o) PROVE TypeOK'
  <2>1. SetSweeps(o, {}, None)
    BY <1>1 DEF Kill
  <2>2. /\ pc' \in [Threads -> PCs] /\ want' \in [Threads -> SUBSET Tickers]
        /\ add' \in [Threads -> Tickers \cup {None}] /\ view' \in [Operators -> SUBSET Tickers]
    BY <2>1, SetSweepsType
  <2> QED BY <1>1, <2>2, SMTT(30) DEF TypeOK, Kill, coreVars, edgeVars
<1>2. ASSUME NEW o \in Operators, PollSweeps(o) PROVE TypeOK'
  BY <1>2 DEF TypeOK, PollSweeps, coreVars, threadVars, edgeVars
<1>3. ASSUME NEW o \in Operators, InstallRoster(o) PROVE TypeOK'
  BY <1>3 DEF TypeOK, InstallRoster, edgeVars, PCs
<1>4. ASSUME NEW o \in Operators, NEW t \in Tickers, ToggleSweep(o, t) PROVE TypeOK'
  <2>1. view[o] \ {t} \in SUBSET Tickers /\ view[o] \cup {t} \in SUBSET Tickers
    BY DEF TypeOK
  <2>2. SetSweeps(o, view[o] \ {t}, None) \/ SetSweeps(o, view[o] \cup {t}, t)
    BY <1>4 DEF ToggleSweep
  <2>3. /\ pc' \in [Threads -> PCs] /\ want' \in [Threads -> SUBSET Tickers]
        /\ add' \in [Threads -> Tickers \cup {None}] /\ view' \in [Operators -> SUBSET Tickers]
    BY <2>1, <2>2, SetSweepsType
  <2> QED BY <1>4, <2>3, SMTT(30) DEF TypeOK, ToggleSweep, coreVars, edgeVars
<1>5. ASSUME NEW p \in Threads, PushSnapshot(p) PROVE TypeOK'
  BY <1>5, PushRestType DEF TypeOK, PushSnapshot, coreVars, edgeVars
<1>6. ASSUME NEW p \in Threads, PushSend(p) PROVE TypeOK'
  <2>1. PushRest(p, todo[p] \ {cur[p]}) /\ todo[p] \ {cur[p]} \in SUBSET Conns
    BY <1>6 DEF PushSend, TypeOK
  <2>2. /\ pc' \in [Threads -> PCs] /\ todo' \in [Threads -> SUBSET Conns]
        /\ view' \in [Operators -> SUBSET Tickers]
    BY <2>1, PushRestType
  <2>3. down' \in Seq(SUBSET Tickers)
    BY <1>6, PushSendSeq DEF TypeOK, PushSend
  <2>4. cur' \in [Threads -> 0..MaxConns] /\ copy' \in [Threads -> SUBSET Tickers]
    BY <1>6, SweepAssumption, SMTT(30) DEF TypeOK, PushSend
  <2> QED BY <1>6, <2>2, <2>3, <2>4 DEF TypeOK, PushSend, coreVars
<1>7. ASSUME NEW p \in Threads, NEW c \in Conns, PushCopy(p, c) PROVE TypeOK'
  BY <1>7 DEF TypeOK, PushCopy, coreVars, edgeVars, PCs
<1>8. ASSUME NEW c \in Conns, OnHello(c) PROVE TypeOK'
  BY <1>8 DEF TypeOK, OnHello, edgeVars, PCs
<1>9. ASSUME NEW c \in Conns, ConnClosed(c) PROVE TypeOK'
  BY <1>9, NoDonesType DEF TypeOK, ConnClosed, threadVars, edgeVars
<1>10. ASSUME NEW c \in Conns, NEW t \in Tickers, NEW ok \in BOOLEAN, OnSweepDone(c, t, ok)
       PROVE TypeOK'
  <2>1. dones' \in [Conns -> DoneBag]
    BY <1>10, SMTT(30) DEF TypeOK, OnSweepDone, DoneBag
  <2>2. pc' \in [Threads -> PCs]
    BY <1>10 DEF TypeOK, OnSweepDone, PCs
  <2> QED BY <1>10, <2>1, <2>2 DEF TypeOK, OnSweepDone, edgeVars
<1>11. CASE EnforceSweepWindows
  BY <1>11 DEF TypeOK, EnforceSweepWindows, edgeVars, PCs
<1>12. CASE Tick
  <2>1. clock \in 0..4
    BY DEF TypeOK
  <2>2. clock < LastClock /\ clock' = clock + 1
    BY <1>12 DEF Tick
  <2>3. clock' \in 0..4
    BY <2>1, <2>2, SweepAssumption, SMTT(30)
  <2> QED BY <1>12, <2>3, ZenonT(30) DEF TypeOK, Tick, coreVars, threadVars, edgeVars
<1>13. CASE CoreRestart
  <2>1. dones' \in [Conns -> DoneBag]
    BY <1>13, NoDonesType DEF CoreRestart
  <2>2. pc' \in [Threads -> PCs]
    BY <1>13 DEF CoreRestart, PCs
  <2>3. /\ want' \in [Threads -> SUBSET Tickers] /\ add' \in [Threads -> Tickers \cup {None}]
        /\ todo' \in [Threads -> SUBSET Conns] /\ cur' \in [Threads -> 0..MaxConns]
        /\ copy' \in [Threads -> SUBSET Tickers]
    BY <1>13, SweepAssumption DEF CoreRestart
  <2>4. /\ roster' \subseteq Tickers /\ lastPass' \subseteq Tickers /\ armed' \subseteq Tickers
        /\ conns' \subseteq Conns /\ hello' \subseteq Conns /\ restarts' \in Nat
    BY <1>13 DEF CoreRestart, TypeOK
  <2> QED BY <1>13, <2>1, <2>2, <2>3, <2>4 DEF TypeOK, CoreRestart, edgeVars
<1>14. CASE Connect
  <2>1. session + 1 \in 0..MaxConns /\ session + 1 \in Conns
    BY <1>14, SweepAssumption DEF TypeOK, Connect, Conns
  <2>2. down' \in Seq(SUBSET Tickers)
    BY <1>14 DEF Connect
  <2> QED BY <1>14, <2>1, <2>2 DEF TypeOK, Connect, threadVars
<1>15. CASE Attach
  BY <1>15 DEF TypeOK, Attach, coreVars, threadVars
<1>16. CASE DropUnattached
  BY <1>16, PushSendSeq DEF TypeOK, DropUnattached, coreVars, threadVars
<1>17. CASE TwsDrop
  <2>1. down' \in Seq(SUBSET Tickers)
    BY <1>17 DEF TwsDrop
  <2>2. pass' \in [Tickers -> [Slots -> PassTask]]
    BY <1>17, TaskFacts DEF TwsDrop
  <2>3. passCts' \in [Tickers -> 0..MaxLive]
    BY <1>17, SweepAssumption DEF TwsDrop
  <2> QED BY <1>17, <2>1, <2>2, <2>3 DEF TypeOK, TwsDrop, coreVars, threadVars
<1>18. CASE EdgeReceive
  <2> DEFINE slot == [t \in Tickers |-> LowestFree(t)]
  <2>1. PICK wanted \in Clamp(Head(down)) : OnCoreSweepSet(wanted, slot)
    BY <1>18 DEF EdgeReceive
  <2>2. Head(down) \in SUBSET Tickers /\ down' \in Seq(SUBSET Tickers)
    BY <1>18, PushSendSeq DEF TypeOK, EdgeReceive
  <2>3. wanted \in SUBSET Tickers
    BY <2>2 DEF Clamp
  <2>4. dones' \in [Conns -> DoneBag]
    BY <2>1, SendSweepDoneType DEF OnCoreSweepSet
  <2>5. pass' \in [Tickers -> [Slots -> PassTask]]
    BY <2>1, TaskFacts DEF OnCoreSweepSet, TypeOK
  <2>6. passCts' \in [Tickers -> 0..MaxLive]
    <3> DEFINE begun == {t \in wanted : passCts[t] = 0 /\ t \in Covered /\ TickerAllowed(t)}
    <3>1. \A t \in begun : slot[t] \in FreeSlots(t)
      BY <2>1 DEF OnCoreSweepSet
    <3>2. \A t \in begun : slot[t] \in 0..MaxLive
      BY <3>1 DEF FreeSlots
    <3>3. passCts' = [t \in Tickers |-> IF passCts[t] # 0 /\ t \notin wanted THEN 0
                                        ELSE IF t \in begun THEN slot[t] ELSE passCts[t]]
      BY <2>1 DEF OnCoreSweepSet
    <3> HIDE DEF begun, slot
    <3> QED BY <3>2, <3>3, SweepAssumption DEF TypeOK
  <2>7. ran' \subseteq Tickers
    BY <2>1, <2>3 DEF OnCoreSweepSet, TypeOK
  <2> QED BY <1>18, <2>2, <2>4, <2>5, <2>6, <2>7 DEF TypeOK, EdgeReceive, threadVars
<1>19. ASSUME NEW t \in Tickers, NEW n \in Slots, PassReturns(t, n) PROVE TypeOK'
  <2>1. pass' \in [Tickers -> [Slots -> PassTask]]
    BY <1>19, TaskFacts DEF TypeOK, PassReturns, PassBodyEnds
  <2> QED BY <1>19, <2>1 DEF TypeOK, PassReturns, coreVars, threadVars
<1>20. ASSUME NEW t \in Tickers, NEW n \in Slots, PassFinally(t, n) PROVE TypeOK'
  <2>1. pass' \in [Tickers -> [Slots -> PassTask]]
    BY <1>20, TaskFacts DEF TypeOK, PassFinally
  <2>2. passCts' \in [Tickers -> 0..MaxLive]
    BY <1>20, SweepAssumption DEF TypeOK, PassFinally
  <2> QED BY <1>20, <2>1, <2>2 DEF TypeOK, PassFinally, coreVars, threadVars
<1>21. ASSUME NEW t \in Tickers, NEW n \in Slots, NEW ok \in BOOLEAN, PassAnswers(t, n, ok)
       PROVE TypeOK'
  <2>1. dones' \in [Conns -> DoneBag]
    BY <1>21, SendSweepDoneType DEF PassAnswers
  <2>2. pass' \in [Tickers -> [Slots -> PassTask]]
    BY <1>21, TaskFacts DEF TypeOK, PassAnswers, PassBodyEnds
  <2> QED BY <1>21, <2>1, <2>2 DEF TypeOK, PassAnswers, threadVars
<1>22. CASE UNCHANGED vars
  BY <1>22 DEF TypeOK, vars, coreVars, threadVars, edgeVars
<1> QED BY <1>1, <1>2, <1>3, <1>4, <1>5, <1>6, <1>7, <1>8, <1>9, <1>10, <1>11, <1>12, <1>13,
           <1>14, <1>15, <1>16, <1>17, <1>18, <1>19, <1>20, <1>21, <1>22
           DEF Next, PushStep, PassStep

LEMMA TypeOKInit ==
  Init => TypeOK
<1> SUFFICES ASSUME Init PROVE TypeOK
  OBVIOUS
<1>1. dones \in [Conns -> DoneBag]
  BY NoDonesType DEF Init
<1>2. pass \in [Tickers -> [Slots -> PassTask]]
  BY TaskFacts DEF Init
<1>3. down \in Seq(SUBSET Tickers)
  BY DEF Init
<1>4. /\ passCts \in [Tickers -> 0..MaxLive] /\ cur \in [Threads -> 0..MaxConns]
      /\ session \in 0..MaxConns /\ clock \in 0..4
  BY SweepAssumption DEF Init
<1>5. /\ pc \in [Threads -> PCs] /\ want \in [Threads -> SUBSET Tickers]
      /\ add \in [Threads -> Tickers \cup {None}] /\ todo \in [Threads -> SUBSET Conns]
      /\ copy \in [Threads -> SUBSET Tickers] /\ view \in [Operators -> SUBSET Tickers]
  BY DEF Init, PCs
<1> QED BY <1>1, <1>2, <1>3, <1>4, <1>5 DEF Init, TypeOK

\* The pages, the core's goroutines and the edge's tasks keep every variable
\* within its type (the state declared in server.go:60-110 and TwsFeed.cs:585).
THEOREM TypeCorrect == Spec => []TypeOK
<1> QED BY TypeOKInit, TypeOKStep, PTL DEF Spec

-----------------------------------------------------------------------------
(* A kill reaches every pass that is still spending.  With the types this  *)
(* is inductive as it stands: a task is only begun for a ticker that has   *)
(* no registered task, and a registration is only cleared by the task it   *)
(* names or together with that task's cancellation.                        *)

LEMMA EdgeReceiveKillReaches ==
  ASSUME TypeOK, KillReaches, EdgeReceive PROVE KillReaches'
<1> DEFINE slot == [t \in Tickers |-> LowestFree(t)]
<1>1. PICK wanted \in Clamp(Head(down)) : OnCoreSweepSet(wanted, slot)
  BY DEF EdgeReceive
<1> DEFINE begun == {t \in wanted : passCts[t] = 0 /\ t \in Covered /\ TickerAllowed(t)}
           dropped == {t \in Tickers : passCts[t] # 0 /\ t \notin wanted}
<1>2. pass' = [t \in Tickers |-> [n \in Slots |->
                IF t \in dropped /\ n = passCts[t] THEN [pass[t][n] EXCEPT !.cancelled = TRUE]
                ELSE IF t \in begun /\ n = slot[t] THEN [stage |-> "run", cancelled |-> FALSE]
                ELSE pass[t][n]]]
  BY <1>1 DEF OnCoreSweepSet
<1>3. passCts' = [t \in Tickers |-> IF t \in dropped THEN 0
                                    ELSE IF t \in begun THEN slot[t] ELSE passCts[t]]
  BY <1>1 DEF OnCoreSweepSet
<1> SUFFICES ASSUME NEW t \in Tickers, NEW n \in Slots, Live(t, n)'
             PROVE  passCts'[t] = n
  BY DEF KillReaches
<1>4. pass[t][n] \in PassTask /\ passCts[t] \in 0..MaxLive /\ n # 0
  BY ThreadFacts DEF TypeOK
<1>5. Live(t, n) => passCts[t] = n
  BY DEF KillReaches
<1>6. CASE t \in dropped
  <2>1. n # passCts[t]
    BY <1>2, <1>4, <1>6 DEF Live, PassTask
  <2>2. pass'[t][n] = pass[t][n]
    BY <1>2, <1>6, <2>1
  <2> QED BY <1>5, <2>1, <2>2 DEF Live
<1>7. CASE t \in begun /\ t \notin dropped
  <2>1. n # slot[t] => pass'[t][n] = pass[t][n]
    BY <1>2, <1>7
  <2>2. n = slot[t]
    BY <1>4, <1>5, <1>7, <2>1 DEF Live
  <2> QED BY <1>3, <1>7, <2>2
<1>8. CASE t \notin begun /\ t \notin dropped
  <2>1. pass'[t][n] = pass[t][n] /\ passCts'[t] = passCts[t]
    BY <1>2, <1>3, <1>8
  <2> QED BY <1>5, <2>1 DEF Live
<1> QED BY <1>6, <1>7, <1>8

LEMMA PassStepKillReaches ==
  ASSUME TypeOK, KillReaches, NEW t \in Tickers, NEW n \in Slots, PassStep(t, n)
  PROVE  KillReaches'
<1>1. pass[t][n] \in PassTask /\ n # 0
  BY ThreadFacts DEF TypeOK
<1>2. CASE PassFinally(t, n)
  <2>1. pass' = [pass EXCEPT ![t][n] = FreeTask]
    BY <1>2 DEF PassFinally
  <2>2. passCts' = IF passCts[t] = n THEN [passCts EXCEPT ![t] = 0] ELSE passCts
    BY <1>2 DEF PassFinally
  <2> SUFFICES ASSUME NEW u \in Tickers, NEW m \in Slots, Live(u, m)'
               PROVE  passCts'[u] = m
    BY DEF KillReaches
  <2>3. ~(u = t /\ m = n)
    BY <2>1 DEF Live, FreeTask, TypeOK
  <2>4. Live(u, m)
    BY <2>1, <2>3 DEF Live, TypeOK
  <2>5. passCts[u] = m
    BY <2>4 DEF KillReaches
  <2> QED BY <2>2, <2>3, <2>5 DEF TypeOK
<1>3. CASE PassBodyEnds(t, n) /\ passCts' = passCts
  <2>1. pass' = [pass EXCEPT ![t][n].stage = "fin"] /\ pass[t][n].stage = "run"
    BY <1>3 DEF PassBodyEnds
  <2> SUFFICES ASSUME NEW u \in Tickers, NEW m \in Slots, Live(u, m)'
               PROVE  passCts'[u] = m
    BY DEF KillReaches
  <2>2. Live(u, m)
    BY <1>1, <2>1 DEF Live, TypeOK, PassTask
  <2> QED BY <1>3, <2>2 DEF KillReaches
<1> QED BY <1>2, <1>3 DEF PassStep, PassReturns, PassAnswers

LEMMA KillReachesStep ==
  TypeOK /\ KillReaches /\ [Next]_vars => KillReaches'
<1> SUFFICES ASSUME TypeOK, KillReaches, [Next]_vars PROVE KillReaches'
  OBVIOUS
<1>1. CASE UNCHANGED <<pass, passCts>>
  BY <1>1 DEF KillReaches, Live
<1>2. CASE TwsDrop
  BY <1>2 DEF TwsDrop, KillReaches, Live, FreeTask
<1>3. CASE EdgeReceive
  BY <1>3, EdgeReceiveKillReaches
<1>4. ASSUME NEW t \in Tickers, NEW n \in Slots, PassStep(t, n) PROVE KillReaches'
  BY <1>4, PassStepKillReaches
<1>5. ASSUME NEW o \in Operators, Kill(o) \/ PollSweeps(o) \/ InstallRoster(o)
      PROVE UNCHANGED <<pass, passCts>>
  BY <1>5 DEF Kill, PollSweeps, InstallRoster, edgeVars
<1>6. ASSUME NEW o \in Operators, NEW t \in Tickers, ToggleSweep(o, t)
      PROVE UNCHANGED <<pass, passCts>>
  BY <1>6 DEF ToggleSweep, edgeVars
<1>7. ASSUME NEW p \in Threads, PushStep(p) PROVE UNCHANGED <<pass, passCts>>
  BY <1>7 DEF PushStep, PushSnapshot, PushCopy, PushSend, edgeVars
<1>8. ASSUME NEW c \in Conns, OnHello(c) \/ ConnClosed(c) PROVE UNCHANGED <<pass, passCts>>
  BY <1>8 DEF OnHello, ConnClosed, edgeVars
<1>9. ASSUME NEW c \in Conns, NEW t \in Tickers, NEW ok \in BOOLEAN, OnSweepDone(c, t, ok)
      PROVE UNCHANGED <<pass, passCts>>
  BY <1>9 DEF OnSweepDone, edgeVars
<1>10. CASE EnforceSweepWindows \/ Tick \/ CoreRestart
  BY <1>1, <1>10 DEF EnforceSweepWindows, Tick, CoreRestart, edgeVars
<1>11. CASE Connect \/ Attach \/ DropUnattached
  BY <1>1, <1>11 DEF Connect, Attach, DropUnattached
<1>12. CASE UNCHANGED vars
  BY <1>1, <1>12 DEF vars, edgeVars
<1> QED BY <1>1, <1>2, <1>3, <1>4, <1>5, <1>6, <1>7, <1>8, <1>9, <1>10, <1>11, <1>12 DEF Next

\* Whatever order pushes, cancellations and finally blocks come in, the task
\* that has not been cancelled is the one _passCts names, so the next removal of
\* its ticker from the roster aborts it (TwsFeed.cs:590-621, 697-702).
THEOREM KillAlwaysReaches == Spec => []KillReaches
<1>1. Init => KillReaches
  BY DEF Init, KillReaches, Live, FreeTask
<1> QED BY <1>1, TypeCorrect, KillReachesStep, PTL DEF Spec

-----------------------------------------------------------------------------
(* The cap on both sides of the wire.  What makes it inductive is that a   *)
(* POST waiting to install was validated as a whole.                       *)

Registered == {t \in Tickers : passCts[t] # 0}

WantCap == \A p \in Threads : pc[p] = "install" => Cardinality(want[p]) <= MaxTickers

CapInv == WantCap /\ InFlightCap

LEMMA SmallerSet ==
  ASSUME NEW S, NEW T, T \subseteq Tickers, S \subseteq T, Cardinality(T) <= MaxTickers
  PROVE  Cardinality(S) <= MaxTickers
<1>1. IsFiniteSet(T)
  BY SweepAssumption, FS_Subset
<1>2. Cardinality(S) <= Cardinality(T) /\ IsFiniteSet(S)
  BY <1>1, FS_Subset
<1>3. Cardinality(S) \in Nat /\ Cardinality(T) \in Nat
  BY <1>1, <1>2, FS_CardinalityType
<1> QED BY <1>2, <1>3, SweepAssumption

LEMMA SetSweepsCap ==
  ASSUME TypeOK, WantCap, NEW o \in Operators, NEW set, NEW t, SetSweeps(o, set, t)
  PROVE  WantCap'
<1> o \in Threads
  BY DEF Threads
<1>1. CASE SetSweepsChecked(o, set, t) /\ ValidateRoster(set)
  BY <1>1 DEF SetSweepsChecked, ValidateRoster, WantCap, TypeOK
<1>2. CASE SetSweepsRefused(o)
  BY <1>2 DEF SetSweepsRefused, WantCap
<1> QED BY <1>1, <1>2 DEF SetSweeps

LEMMA EdgeReceiveCap ==
  ASSUME TypeOK, EdgeReceive
  PROVE  Cardinality(Registered') <= MaxTickers
<1> DEFINE slot == [t \in Tickers |-> LowestFree(t)]
<1>1. PICK wanted \in Clamp(Head(down)) : OnCoreSweepSet(wanted, slot)
  BY DEF EdgeReceive
<1>2. Head(down) \in SUBSET Tickers
  BY PushSendSeq DEF TypeOK, EdgeReceive
<1>3. wanted \subseteq Tickers /\ Cardinality(wanted) <= MaxTickers
  BY <1>2 DEF Clamp
<1>4. Registered' \subseteq wanted
  BY <1>1 DEF OnCoreSweepSet, Registered
<1> QED BY <1>3, <1>4, SmallerSet

LEMMA CapStep ==
  TypeOK /\ CapInv /\ [Next]_vars => CapInv'
<1> SUFFICES ASSUME TypeOK, CapInv, [Next]_vars PROVE CapInv'
  OBVIOUS
<1> USE ThreadFacts
<1>0. /\ WantCap /\ Cardinality(roster) <= MaxTickers /\ Cardinality(Registered) <= MaxTickers
      /\ roster \subseteq Tickers /\ Registered \subseteq Tickers
  BY DEF CapInv, InFlightCap, Registered, TypeOK
<1>a. ASSUME WantCap', Cardinality(roster') <= MaxTickers, Registered' \subseteq Registered
      PROVE CapInv'
  <2>1. Cardinality(Registered') <= MaxTickers
    BY <1>a, <1>0, SmallerSet
  <2> QED BY <1>a, <2>1 DEF CapInv, InFlightCap, Registered
<1>b. ASSUME roster' \subseteq roster PROVE Cardinality(roster') <= MaxTickers
  BY <1>b, <1>0, SmallerSet
<1>c. ASSUME UNCHANGED passCts PROVE Registered' \subseteq Registered
  BY <1>c DEF Registered
<1>1. ASSUME NEW o \in Operators, Kill(o) \/ (\E t \in Tickers : ToggleSweep(o, t)) PROVE CapInv'
  <2>1. WantCap'
    BY <1>1, <1>0, SetSweepsCap DEF Kill, ToggleSweep
  <2>2. UNCHANGED <<roster, passCts>>
    BY <1>1 DEF Kill, ToggleSweep, coreVars, edgeVars
  <2> QED BY <2>1, <2>2, <1>0, <1>a, <1>c
<1>2. ASSUME NEW o \in Operators, PollSweeps(o) PROVE CapInv'
  <2>1. UNCHANGED <<pc, want, roster, passCts>>
    BY <1>2 DEF PollSweeps, coreVars, edgeVars, threadVars
  <2> QED BY <2>1, <1>0, <1>a, <1>c DEF WantCap
<1>3. ASSUME NEW o \in Operators, InstallRoster(o) PROVE CapInv'
  <2>1. WantCap'
    BY <1>3, <1>0 DEF InstallRoster, WantCap, TypeOK
  <2>2. Cardinality(roster') <= MaxTickers
    BY <1>3, <1>0 DEF InstallRoster, WantCap
  <2> QED BY <1>3, <2>1, <2>2, <1>a, <1>c DEF InstallRoster, edgeVars
<1>4. ASSUME NEW p \in Threads, PushStep(p) PROVE CapInv'
  <2>1. WantCap'
    BY <1>4, <1>0, SMTT(30) DEF PushStep, PushSnapshot, PushCopy, PushSend, PushRest, WantCap, TypeOK
  <2>2. UNCHANGED <<roster, passCts>>
    BY <1>4 DEF PushStep, PushSnapshot, PushCopy, PushSend, coreVars, edgeVars
  <2> QED BY <2>1, <2>2, <1>0, <1>a, <1>c
<1>5. ASSUME NEW c \in Conns, OnHello(c) \/ ConnClosed(c) PROVE CapInv'
  <2>1. WantCap'
    BY <1>5, <1>0, SMTT(30) DEF OnHello, ConnClosed, WantCap, TypeOK, threadVars
  <2>2. UNCHANGED <<roster, passCts>>
    BY <1>5 DEF OnHello, ConnClosed, edgeVars
  <2> QED BY <2>1, <2>2, <1>0, <1>a, <1>c
<1>6. ASSUME NEW c \in Conns, NEW t \in Tickers, NEW ok \in BOOLEAN, OnSweepDone(c, t, ok)
      PROVE CapInv'
  <2>1. WantCap'
    BY <1>6, <1>0 DEF OnSweepDone, WantCap, TypeOK
  <2>2. roster' \subseteq roster /\ UNCHANGED passCts
    BY <1>6 DEF OnSweepDone, edgeVars
  <2> QED BY <2>1, <2>2, <1>a, <1>b, <1>c
<1>7. CASE EnforceSweepWindows
  <2>1. WantCap'
    BY <1>7, <1>0 DEF EnforceSweepWindows, WantCap, TypeOK
  <2>2. roster' \subseteq roster /\ UNCHANGED passCts
    BY <1>7 DEF EnforceSweepWindows, edgeVars
  <2> QED BY <2>1, <2>2, <1>a, <1>b, <1>c
<1>8. CASE CoreRestart
  <2>1. WantCap'
    BY <1>8 DEF CoreRestart, WantCap
  <2>2. roster' \subseteq roster /\ UNCHANGED passCts
    BY <1>8 DEF CoreRestart, edgeVars
  <2> QED BY <2>1, <2>2, <1>a, <1>b, <1>c
<1>9. CASE Tick \/ Connect \/ Attach \/ DropUnattached \/ UNCHANGED vars
  <2>1. UNCHANGED <<pc, want, roster, passCts>>
    BY <1>9 DEF Tick, Connect, Attach, DropUnattached, vars, coreVars, edgeVars, threadVars
  <2> QED BY <2>1, <1>0, <1>a, <1>c DEF WantCap
<1>10. CASE TwsDrop
  <2>1. UNCHANGED <<pc, want, roster>> /\ Registered' \subseteq Registered
    BY <1>10 DEF TwsDrop, Registered, coreVars, threadVars
  <2> QED BY <2>1, <1>0, <1>a DEF WantCap
<1>11. CASE EdgeReceive
  <2>1. UNCHANGED <<pc, want, roster>>
    BY <1>11 DEF EdgeReceive, threadVars
  <2>2. Cardinality(Registered') <= MaxTickers
    BY <1>11, EdgeReceiveCap
  <2> QED BY <2>1, <2>2, <1>0 DEF CapInv, InFlightCap, WantCap, Registered
<1>12. ASSUME NEW t \in Tickers, NEW n \in Slots, PassStep(t, n) PROVE CapInv'
  <2>1. UNCHANGED <<pc, want, roster>>
    BY <1>12 DEF PassStep, PassReturns, PassFinally, PassAnswers, coreVars, threadVars
  <2>2. Registered' \subseteq Registered
    BY <1>12 DEF PassStep, PassReturns, PassFinally, PassAnswers, Registered, TypeOK
  <2> QED BY <2>1, <2>2, <1>0, <1>a DEF WantCap
<1> QED BY <1>1, <1>2, <1>3, <1>4, <1>5, <1>6, <1>7, <1>8, <1>9, <1>10, <1>11, <1>12 DEF Next

\* Neither the core's roster nor the edge's registered passes ever exceed
\* SweepMaxTickers, for any interleaving of POSTs, pushes, reconnects and
\* restarts (sweep_policy.go:228-246, SweepPolicy.cs:38-51).
THEOREM CapHolds == Spec => []InFlightCap
<1>1. Init => CapInv
  <2> SUFFICES ASSUME Init PROVE CapInv
    OBVIOUS
  <2>1. {t \in Tickers : passCts[t] # 0} = {} /\ roster = {} /\ WantCap
    BY DEF Init, WantCap
  <2> QED BY <2>1, FS_EmptySet, SweepAssumption, SMTT(30) DEF CapInv, InFlightCap
<1>2. CapInv => InFlightCap
  BY DEF CapInv
<1> QED BY <1>1, <1>2, TypeCorrect, CapStep, PTL DEF Spec

-----------------------------------------------------------------------------
(* Fail-closed.  Everything that can start or report a pass on a live      *)
(* connection (roster copies about to be sent, pushes in transit, tasks,   *)
(* registrations, sweep_dones) names armed tickers only; a disconnected    *)
(* edge holds nothing, so a fresh connection brings nothing from an        *)
(* earlier incarnation of the core.                                        *)

CopiesArmed == \A p \in Threads : copy[p] \subseteq armed

DonesArmed == \A c \in Conns, t \in Tickers, ok \in BOOLEAN : dones[c][t][ok] > 0 => t \in armed

DownArmed == \A i \in 1..Len(down) : down[i] \subseteq armed

PassesArmed ==
  \A t \in Tickers : passCts[t] # 0 \/ (\E n \in Slots : pass[t][n].stage # "free") => t \in armed

Disconnected == down = <<>> /\ \A t \in Tickers : /\ passCts[t] = 0
                                                  /\ \A n \in Slots : pass[t][n].stage = "free"

ArmInv ==
  /\ roster \subseteq armed /\ lastPass \subseteq armed
  /\ CopiesArmed /\ DonesArmed
  /\ session \in conns => DownArmed /\ PassesArmed
  /\ ~edgeUp => Disconnected
  /\ conns \subseteq 1..session

LEMMA ArmImplies == TypeOK /\ ArmInv => NothingAutoArms
BY DEF ArmInv, PassesArmed, NothingAutoArms, Live

\* The steps that touch neither the edge nor the messages in transit.
LEMMA ArmFrame ==
  ASSUME TypeOK, ArmInv, UNCHANGED <<down, pass, passCts, session, edgeUp, conns, dones, copy>>,
         armed \subseteq armed', roster' \subseteq armed', lastPass' \subseteq armed'
  PROVE  ArmInv'
<1>1. CopiesArmed' /\ DonesArmed'
  BY DEF ArmInv, CopiesArmed, DonesArmed
<1>2. (session \in conns)' => DownArmed' /\ PassesArmed'
  BY DEF ArmInv, DownArmed, PassesArmed
<1>3. (~edgeUp)' => Disconnected'
  BY DEF ArmInv, Disconnected
<1> QED BY <1>1, <1>2, <1>3 DEF ArmInv

LEMMA SendSweepDoneArmed ==
  ASSUME TypeOK, DonesArmed, NEW set, NEW ok, SendSweepDone(set, ok),
         session \in conns => set \subseteq armed, UNCHANGED armed
  PROVE  DonesArmed'
<1>1. CASE session \notin conns
  BY <1>1 DEF SendSweepDone, DonesArmed
<1>2. CASE session \in conns
  <2> SUFFICES ASSUME NEW c \in Conns, NEW t \in Tickers, NEW b \in BOOLEAN, dones'[c][t][b] > 0
               PROVE  t \in armed
    BY DEF DonesArmed
  <2>1. session \in Conns
    BY <1>2 DEF TypeOK
  <2>2. t \in set \/ dones'[c][t][b] = dones[c][t][b]
    BY <1>2, <2>1 DEF SendSweepDone, TypeOK
  <2> QED BY <1>2, <2>2 DEF DonesArmed
<1> QED BY <1>1, <1>2

LEMMA PushSendArmed ==
  ASSUME TypeOK, ArmInv, NEW p \in Threads, PushSend(p) PROVE ArmInv'
<1>1. UNCHANGED <<roster, lastPass, dones, conns, session, edgeUp, pass, passCts, armed>>
  BY DEF PushSend, coreVars
<1>2. CopiesArmed'
  BY <1>1 DEF PushSend, ArmInv, CopiesArmed, TypeOK
<1>3. DonesArmed' /\ (PassesArmed <=> PassesArmed')
  BY <1>1 DEF ArmInv, DonesArmed, PassesArmed
<1>4. CASE down' = down
  BY <1>1, <1>2, <1>3, <1>4 DEF ArmInv, DownArmed, Disconnected
<1>5. CASE edgeUp /\ session \in conns /\ down' = Append(down, copy[p])
  <2>1. down \in Seq(SUBSET Tickers) /\ copy[p] \in SUBSET Tickers /\ copy[p] \subseteq armed
    BY DEF TypeOK, ArmInv, CopiesArmed
  <2>2. DownArmed
    BY <1>5 DEF ArmInv
  <2>3. DownArmed'
    BY <1>1, <1>5, <2>1, <2>2 DEF DownArmed
  <2> QED BY <1>1, <1>2, <1>3, <1>5, <2>3 DEF ArmInv
<1> QED BY <1>4, <1>5 DEF PushSend

LEMMA EdgeReceiveArmed ==
  ASSUME TypeOK, ArmInv, EdgeReceive PROVE ArmInv'
<1> DEFINE slot == [t \in Tickers |-> LowestFree(t)]
<1>1. PICK wanted \in Clamp(Head(down)) : OnCoreSweepSet(wanted, slot)
  BY DEF EdgeReceive
<1> DEFINE added   == {t \in wanted : passCts[t] = 0}
           refused == {t \in added : t \notin Covered \/ ~TickerAllowed(t)}
           begun   == added \ refused
           dropped == {t \in Tickers : passCts[t] # 0 /\ t \notin wanted}
<1>2. /\ UNCHANGED <<roster, lastPass, copy, conns, session, edgeUp, armed>>
      /\ edgeUp /\ down # <<>> /\ down' = Tail(down)
  BY DEF EdgeReceive, threadVars
<1>3. SendSweepDone(dropped \cup refused, FALSE)
  BY <1>1 DEF OnCoreSweepSet
<1>4. \A t \in Tickers : passCts'[t] # 0 => t \in wanted
  BY <1>1 DEF OnCoreSweepSet
<1>5. \A t \in Tickers, n \in Slots :
         pass'[t][n].stage # "free" => t \in wanted \/ pass[t][n].stage # "free"
  BY <1>1 DEF OnCoreSweepSet, TypeOK, PassTask
<1>6. down \in Seq(SUBSET Tickers) /\ Head(down) = down[1] /\ 1 \in 1..Len(down)
  BY <1>2 DEF TypeOK
<1>7. wanted \subseteq down[1]
  BY <1>6 DEF Clamp
<1>8. CASE session \in conns
  <2>1. DownArmed /\ PassesArmed
    BY <1>8 DEF ArmInv
  <2>2. wanted \subseteq armed
    BY <1>6, <1>7, <2>1 DEF DownArmed
  <2>3. dropped \cup refused \subseteq armed
    BY <2>1, <2>2 DEF PassesArmed
  <2>4. DonesArmed'
    BY <1>2, <1>3, <2>3, SendSweepDoneArmed DEF ArmInv
  <2>5. PassesArmed'
    BY <1>2, <1>4, <1>5, <2>1, <2>2 DEF PassesArmed
  <2>6. DownArmed'
    BY <1>2, <1>6, <2>1 DEF DownArmed
  <2> QED BY <1>2, <2>4, <2>5, <2>6 DEF ArmInv, CopiesArmed
<1>9. CASE session \notin conns
  <2>1. DonesArmed'
    BY <1>2, <1>3, <1>9, SendSweepDoneArmed DEF ArmInv
  <2> QED BY <1>2, <1>9, <2>1 DEF ArmInv, CopiesArmed
<1> QED BY <1>8, <1>9

LEMMA PassStepArmed ==
  ASSUME TypeOK, ArmInv, NEW t \in Tickers, NEW n \in Slots, PassStep(t, n) PROVE ArmInv'
<1>1. /\ UNCHANGED <<roster, lastPass, copy, conns, session, edgeUp, armed, down>>
      /\ pass[t][n].stage # "free"
  BY DEF PassStep, PassReturns, PassFinally, PassAnswers, PassBodyEnds, coreVars, threadVars
<1>2. edgeUp
  BY <1>1 DEF ArmInv, Disconnected
<1>3. session \in conns => t \in armed
  BY <1>1 DEF ArmInv, PassesArmed
<1>4. DonesArmed'
  <2>1. CASE UNCHANGED dones
    BY <1>1, <2>1 DEF ArmInv, DonesArmed
  <2>2. ASSUME NEW ok \in BOOLEAN, SendSweepDone({t}, ok) PROVE DonesArmed'
    BY <1>1, <1>3, <2>2, SendSweepDoneArmed DEF ArmInv
  <2> QED BY <2>1, <2>2 DEF PassStep, PassReturns, PassFinally, PassAnswers, coreVars
<1>5. \A u \in Tickers : /\ passCts'[u] # 0 => passCts[u] # 0
                         /\ \A m \in Slots : pass'[u][m].stage # "free" => pass[u][m].stage # "free"
  <2>1. CASE PassFinally(t, n)
    BY <2>1 DEF PassFinally, TypeOK, FreeTask
  <2>2. CASE PassBodyEnds(t, n) /\ passCts' = passCts
    BY <2>2 DEF PassBodyEnds, TypeOK, PassTask
  <2> QED BY <2>1, <2>2 DEF PassStep, PassReturns, PassAnswers
<1>6. PassesArmed => PassesArmed'
  BY <1>1, <1>5 DEF PassesArmed
<1> QED BY <1>1, <1>2, <1>4, <1>6 DEF ArmInv, CopiesArmed, DownArmed

LEMMA ArmStep ==
  TypeOK /\ ArmInv /\ [Next]_vars => ArmInv'
<1> SUFFICES ASSUME TypeOK, ArmInv, [Next]_vars PROVE ArmInv'
  OBVIOUS
<1> USE ThreadFacts
<1>0. roster \subseteq armed /\ lastPass \subseteq armed
  BY DEF ArmInv
<1>1. ASSUME NEW o \in Operators,
             Kill(o) \/ PollSweeps(o) \/ (\E t \in Tickers : ToggleSweep(o, t))
      PROVE ArmInv'
  BY <1>0, <1>1, ArmFrame DEF Kill, PollSweeps, ToggleSweep, coreVars, threadVars, edgeVars
<1>2. ASSUME NEW o \in Operators, InstallRoster(o) PROVE ArmInv'
  BY <1>0, <1>2, ArmFrame DEF InstallRoster, edgeVars
<1>3. ASSUME NEW p \in Threads, PushSnapshot(p) PROVE ArmInv'
  BY <1>0, <1>3, ArmFrame DEF PushSnapshot, coreVars, edgeVars
<1>4. ASSUME NEW p \in Threads, NEW c \in Conns, PushCopy(p, c) PROVE ArmInv'
  <2>1. CopiesArmed'
    BY <1>4 DEF PushCopy, ArmInv, CopiesArmed, TypeOK, coreVars
  <2>2. UNCHANGED <<coreVars, edgeVars, armed>>
    BY <1>4 DEF PushCopy
  <2> QED BY <2>1, <2>2
          DEF ArmInv, DonesArmed, DownArmed, PassesArmed, Disconnected, coreVars, edgeVars
<1>5. ASSUME NEW p \in Threads, PushSend(p) PROVE ArmInv'
  BY <1>5, PushSendArmed
<1>6. ASSUME NEW c \in Conns, OnHello(c) PROVE ArmInv'
  BY <1>0, <1>6, ArmFrame DEF OnHello, edgeVars
<1>7. ASSUME NEW c \in Conns, ConnClosed(c) PROVE ArmInv'
  <2>1. DonesArmed'
    BY <1>7 DEF ConnClosed, ArmInv, DonesArmed, NoDones, TypeOK
  <2>2. UNCHANGED <<roster, lastPass, copy, edgeVars, armed>> /\ conns' \subseteq conns
    BY <1>7 DEF ConnClosed, threadVars
  <2> QED BY <2>1, <2>2 DEF ArmInv, CopiesArmed, DownArmed, PassesArmed, Disconnected, edgeVars
<1>8. ASSUME NEW c \in Conns, NEW t \in Tickers, NEW ok \in BOOLEAN, OnSweepDone(c, t, ok)
      PROVE ArmInv'
  <2>1. UNCHANGED <<copy, conns, edgeVars, armed>>
    BY <1>8 DEF OnSweepDone
  <2>2. t \in armed
    BY <1>8 DEF OnSweepDone, ArmInv, DonesArmed
  <2>3. roster' \subseteq armed /\ lastPass' \subseteq armed
    BY <1>0, <1>8, <2>2 DEF OnSweepDone
  <2>4. \A d \in Conns, u \in Tickers, b \in BOOLEAN : dones'[d][u][b] > 0 => dones[d][u][b] > 0
    BY <1>8, SMTT(30) DEF OnSweepDone, TypeOK, DoneBag
  <2>5. DonesArmed'
    BY <2>1, <2>4 DEF ArmInv, DonesArmed
  <2> QED BY <2>1, <2>3, <2>5
          DEF ArmInv, CopiesArmed, DownArmed, PassesArmed, Disconnected, edgeVars
<1>9. CASE EnforceSweepWindows
  BY <1>0, <1>9, ArmFrame DEF EnforceSweepWindows, edgeVars
<1>10. CASE Tick \/ Attach \/ UNCHANGED vars
  BY <1>0, <1>10, ArmFrame DEF Tick, Attach, vars, coreVars, threadVars, edgeVars
<1>11. CASE CoreRestart
  <2>1. CopiesArmed' /\ DonesArmed'
    BY <1>11 DEF CoreRestart, CopiesArmed, DonesArmed, NoDones
  <2>2. conns' = {} /\ roster' = {} /\ lastPass' = {} /\ UNCHANGED edgeVars
    BY <1>11 DEF CoreRestart
  <2> QED BY <2>1, <2>2 DEF ArmInv, Disconnected, edgeVars
<1>12. CASE Connect
  <2>1. Disconnected /\ UNCHANGED <<roster, lastPass, dones, copy, pass, passCts, armed>>
    BY <1>12 DEF Connect, ArmInv, threadVars
  <2>2. DownArmed' /\ PassesArmed'
    BY <1>12, <2>1 DEF Connect, Disconnected, DownArmed, PassesArmed
  <2>3. conns' \subseteq 1..session'
    BY <1>12 DEF Connect, ArmInv, TypeOK
  <2> QED BY <1>12, <2>1, <2>2, <2>3 DEF Connect, ArmInv, CopiesArmed, DonesArmed
<1>13. CASE DropUnattached
  <2>1. /\ UNCHANGED <<coreVars, copy, session, edgeUp, pass, passCts, armed>>
        /\ edgeUp /\ down # <<>> /\ down' = Tail(down)
    BY <1>13 DEF DropUnattached, threadVars
  <2>2. DownArmed => DownArmed'
    <3>1. down \in Seq(SUBSET Tickers)
      BY DEF TypeOK
    <3> QED BY <2>1, <3>1 DEF DownArmed
  <2> QED BY <2>1, <2>2 DEF ArmInv, CopiesArmed, DonesArmed, PassesArmed, coreVars
<1>14. CASE TwsDrop
  <2>1. UNCHANGED <<coreVars, copy, session, armed>>
    BY <1>14 DEF TwsDrop, threadVars
  <2>2. Disconnected' /\ DownArmed' /\ PassesArmed'
    BY <1>14 DEF TwsDrop, Disconnected, DownArmed, PassesArmed, FreeTask
  <2> QED BY <2>1, <2>2 DEF ArmInv, CopiesArmed, DonesArmed, coreVars
<1>15. CASE EdgeReceive
  BY <1>15, EdgeReceiveArmed
<1>16. ASSUME NEW t \in Tickers, NEW n \in Slots, PassStep(t, n) PROVE ArmInv'
  BY <1>16, PassStepArmed
<1> QED BY <1>1, <1>2, <1>3, <1>4, <1>5, <1>6, <1>7, <1>8, <1>9, <1>10, <1>11, <1>12, <1>13,
           <1>14, <1>15, <1>16 DEF Next, PushStep

\* No pass and no roster entry exists on a connection to this core unless a
\* POST armed its ticker since the core booted, across TWS drops, reconnects
\* and core restarts (sweep_policy.go:12-16).
THEOREM FailClosed == Spec => []NothingAutoArms
<1>1. Init => ArmInv
  BY DEF Init, ArmInv, CopiesArmed, DonesArmed, Disconnected, NoDones, FreeTask
<1> QED BY <1>1, TypeCorrect, ArmStep, ArmImplies, PTL DEF Spec
=============================================================================
