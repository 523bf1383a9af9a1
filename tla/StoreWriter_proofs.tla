------------------------- MODULE StoreWriter_proofs -------------------------
(***************************************************************************)
(* Safety of the single-writer queue for any number of callers, any queue  *)
(* depth and any number of failing transactions; and the exporter's        *)
(* contract for any number of rows, faults and crashes, wherever an append *)
(* is cut.                                                                 *)
(***************************************************************************)
EXTENDS StoreWriter, MasterLog, Integers, FiniteSetTheorems, TLAPS

-----------------------------------------------------------------------------
(* Sequences and constants.                                                *)

LEMMA ElemsEmpty == Elems(<<>>) = {}
BY DEF Elems

LEMMA ElemsAppend ==
  ASSUME NEW s \in Seq(Tasks), NEW e \in Tasks
  PROVE  /\ Append(s, e) \in Seq(Tasks) /\ Len(Append(s, e)) = Len(s) + 1
         /\ Elems(Append(s, e)) = Elems(s) \cup {e}
BY DEF Elems

LEMMA ElemsType ==
  ASSUME NEW s \in Seq(Tasks) PROVE Elems(s) \subseteq Tasks
BY DEF Elems

LEMMA CallerFacts ==
  /\ Submitters \subseteq Tasks /\ Savers \subseteq Tasks /\ Savers \subseteq Flushers
  /\ WriteLoop \in Flushers /\ WriteLoop \notin Tasks /\ None \notin Flushers
  /\ \A f \in Flushers : f = WriteLoop \/ f \in Savers
  /\ Submitters \cap Savers = {} /\ None # "nil" /\ None # "err"
BY StoreAssumption DEF Tasks, Flushers

\* The batch budget exceeds the queue's depth, so a flush takes everything.
LEMMA FlushTakesAll ==
  ASSUME TypeOK, NEW f \in Flushers, NEW last \in BOOLEAN, FlushBegin(f, last)
  PROVE  batch' = [batch EXCEPT ![f] = queue] /\ queue' = <<>>
<1> DEFINE n == IF Len(queue) > BatchRows THEN BatchRows ELSE Len(queue)
<1>1. queue \in Seq(Tasks) /\ Len(queue) \in Nat /\ n = Len(queue)
  BY StoreAssumption DEF TypeOK
<1>2. SubSeq(queue, 1, Len(queue)) = queue /\ SubSeq(queue, Len(queue) + 1, Len(queue)) = <<>>
  BY <1>1
<1>3. /\ batch' = [batch EXCEPT ![f] = SubSeq(queue, 1, n)]
      /\ queue' = SubSeq(queue, n + 1, Len(queue))
  BY DEF FlushBegin
<1> QED BY <1>1, <1>2, <1>3

-----------------------------------------------------------------------------
(* Types.                                                                  *)

LEMMA TypeOKStep == TypeOK /\ [Next]_vars => TypeOK'
<1> SUFFICES ASSUME TypeOK, [Next]_vars PROVE TypeOK'
  OBVIOUS
<1> USE CallerFacts
<1>1. ASSUME NEW t \in Tasks, CheckClosed(t) PROVE TypeOK'
  BY <1>1 DEF TypeOK, CheckClosed, flushVars, histVars, PCs
<1>2. ASSUME NEW t \in Tasks, SendTask(t) PROVE TypeOK'
  <2>1. queue' \in Seq(Tasks) /\ Len(queue') <= QueueDepth /\ accepted' \in Seq(Tasks)
    BY <1>2, ElemsAppend, StoreAssumption DEF TypeOK, SendTask
  <2>2. pc' \in [Tasks -> PCs]
    BY <1>2 DEF TypeOK, SendTask, AfterSend, PCs
  <2> QED BY <1>2, <2>1, <2>2 DEF TypeOK, SendTask, flushVars
<1>3. ASSUME NEW t \in Tasks, QueueFull(t) PROVE TypeOK'
  BY <1>3 DEF TypeOK, QueueFull, flushVars, histVars, PCs
<1>4. ASSUME NEW t \in Tasks, Receive(t) PROVE TypeOK'
  BY <1>4 DEF TypeOK, Receive, flushVars, histVars, PCs
<1>5. ASSUME NEW t \in Tasks, FlushAndWaitReturns(t) PROVE TypeOK'
  BY <1>5 DEF TypeOK, FlushAndWaitReturns, flushVars, histVars, PCs
<1>6. ASSUME NEW f \in Flushers, NEW last \in BOOLEAN, FlushBegin(f, last) PROVE TypeOK'
  <2>1. batch' = [batch EXCEPT ![f] = queue] /\ queue' = <<>>
    BY <1>6, FlushTakesAll
  <2>2. batch' \in [Flushers -> Seq(Tasks)]
    BY <2>1 DEF TypeOK
  <2>3. queue' \in Seq(Tasks) /\ Len(queue') <= QueueDepth
    BY <2>1, StoreAssumption
  <2> QED BY <1>6, <2>2, <2>3 DEF TypeOK, FlushBegin, callVars, histVars, Stages
<1>7. ASSUME NEW f \in Flushers, NEW last \in BOOLEAN, FlushEmpty(f, last) PROVE TypeOK'
  BY <1>7 DEF TypeOK, FlushEmpty, histVars, PCs
<1>8. ASSUME NEW f \in Flushers, BeginTx(f) PROVE TypeOK'
  BY <1>8 DEF TypeOK, BeginTx, callVars, histVars, Stages
<1>9. ASSUME NEW f \in Flushers, Commit(f) PROVE TypeOK'
  <2>1. Elems(batch[f]) \subseteq Tasks
    BY ElemsType DEF TypeOK
  <2> QED BY <1>9, <2>1 DEF TypeOK, Commit, callVars, Stages
<1>10. ASSUME NEW f \in Flushers, Abort(f) PROVE TypeOK'
  BY <1>10 DEF TypeOK, Abort, callVars, histVars, Stages
<1>11. ASSUME NEW f \in Flushers, CompleteCommitted(f) PROVE TypeOK'
  <2>1. batch' \in [Flushers -> Seq(Tasks)] /\ reply' \in [Tasks -> {None, "nil", "err"}]
    BY <1>11 DEF TypeOK, CompleteCommitted, FlushReturns, Notify
  <2>2. pc' \in [Tasks -> PCs] /\ stage' \in [Flushers -> Stages]
    BY <1>11 DEF TypeOK, CompleteCommitted, FlushReturns, PCs, Stages
  <2> QED BY <1>11, <2>1, <2>2 DEF TypeOK, CompleteCommitted, FlushReturns
<1>12. ASSUME NEW f \in Flushers, CompleteAborted(f) PROVE TypeOK'
  <2>1. batch' \in [Flushers -> Seq(Tasks)] /\ reply' \in [Tasks -> {None, "nil", "err"}]
    BY <1>12 DEF TypeOK, CompleteAborted, FlushReturns, Notify
  <2>2. pc' \in [Tasks -> PCs] /\ stage' \in [Flushers -> Stages]
    BY <1>12 DEF TypeOK, CompleteAborted, FlushReturns, PCs, Stages
  <2>3. failed' \subseteq Tasks
    BY <1>12, ElemsType DEF TypeOK, CompleteAborted
  <2>4. queue' \in Seq(Tasks) /\ Len(queue') <= QueueDepth
    BY <1>12, StoreAssumption DEF CompleteAborted
  <2> QED BY <1>12, <2>1, <2>2, <2>3, <2>4 DEF TypeOK, CompleteAborted, FlushReturns
<1>13. CASE CloseMark \/ CloseStop \/ CloseDb \/ UNCHANGED vars
  BY <1>13, ZenonT(30) DEF TypeOK, CloseMark, CloseStop, CloseDb, vars, callVars, flushVars, histVars
<1> QED BY <1>1, <1>2, <1>3, <1>4, <1>5, <1>6, <1>7, <1>8, <1>9, <1>10, <1>11, <1>12, <1>13
        DEF Next, CallerStep, FlushStep

\* The queue never exceeds its depth and every variable keeps its type
\* (store.go:36-58).
THEOREM TypeCorrect == Spec => []TypeOK
<1>1. Init => TypeOK
  <2> SUFFICES ASSUME Init PROVE TypeOK
    OBVIOUS
  <2>1. queue \in Seq(Tasks) /\ Len(queue) <= QueueDepth /\ accepted \in Seq(Tasks)
    BY StoreAssumption DEF Init
  <2>2. stage \in [Flushers -> Stages] /\ pc \in [Tasks -> PCs]
    BY DEF Init, Stages, PCs
  <2>3. batch \in [Flushers -> Seq(Tasks)] /\ reply \in [Tasks -> {None, "nil", "err"}]
    BY DEF Init
  <2> QED BY <2>1, <2>2, <2>3 DEF Init, TypeOK
<1> QED BY <1>1, TypeOKStep, PTL DEF Spec

-----------------------------------------------------------------------------
(* Where a task is, and what is known of it there.                         *)

Fresh == {"start", "send", "refused"}

\* flushMu admits one flush at a time.
LockInv ==
  \A f \in Flushers : /\ stage[f] # "idle" => flushMu = f
                      /\ stage[f] = "idle" => batch[f] = <<>>

FreshInv ==
  \A t \in Tasks : pc[t] \in Fresh =>
    /\ t \notin Elems(queue) /\ t \notin committed /\ t \notin failed /\ reply[t] = None
    /\ \A f \in Flushers : t \notin Elems(batch[f])

QueueInv ==
  \A t \in Elems(queue) : /\ t \notin committed /\ reply[t] = None
                          /\ \A f \in Flushers : t \notin Elems(batch[f])

BatchInv ==
  \A f \in Flushers : \A t \in Elems(batch[f]) :
    reply[t] = None /\ (t \in committed <=> stage[f] = "committed")

\* A saver's task, from its acceptance on.
SaverInv ==
  \A t \in Savers :
    /\ pc[t] = "flush" => t \in Held \cup committed \cup failed
    /\ stage[t] # "idle" => pc[t] = "flush" /\ t \in Elems(batch[t]) \cup committed \cup failed
    /\ pc[t] \notin Fresh \cup {"flush"} => t \in committed \cup failed

WriterInv ==
  LockInv /\ FreshInv /\ QueueInv /\ BatchInv /\ SaverInv /\ ReplyHonest /\ NoOrphanWaiter

LEMMA HeldCases ==
  \A t : t \in Held <=> t \in Elems(queue) \/ \E f \in Flushers : t \in Elems(batch[f])
BY DEF Held

\* Steps that move no task: a caller changes its own control state only.
LEMMA MoveCaller ==
  ASSUME TypeOK, WriterInv, NEW t \in Tasks, NEW v,
         UNCHANGED <<queue, reply, flushVars, histVars>>,
         pc' = [pc EXCEPT ![t] = v],
         \/ pc[t] \in Fresh /\ v \in Fresh
         \/ pc[t] \in {"await", "poll"} /\ v \in {"ok", "error"}
  PROVE  WriterInv'
<1> USE CallerFacts DEF flushVars, histVars
<1>1. LockInv' /\ QueueInv' /\ BatchInv' /\ ReplyHonest'
  BY DEF WriterInv, LockInv, QueueInv, BatchInv, ReplyHonest
<1>2. FreshInv'
  BY DEF WriterInv, FreshInv, TypeOK, Fresh
<1>3. NoOrphanWaiter'
  BY DEF WriterInv, NoOrphanWaiter, Held, TypeOK, Fresh
<1>4. SaverInv'
  BY DEF WriterInv, SaverInv, Held, TypeOK, Fresh
<1> QED BY <1>1, <1>2, <1>3, <1>4 DEF WriterInv

LEMMA SendInv ==
  ASSUME TypeOK, WriterInv, NEW t \in Tasks, SendTask(t) PROVE WriterInv'
<1> USE CallerFacts
<1>1. /\ Elems(queue') = Elems(queue) \cup {t} /\ pc[t] = "send"
      /\ pc' = [pc EXCEPT ![t] = AfterSend(t)]
      /\ UNCHANGED <<reply, flushMu, stage, batch, committed, failed>>
  BY ElemsAppend DEF SendTask, TypeOK, flushVars
<1>2. /\ t \notin Elems(queue) /\ t \notin committed /\ t \notin failed /\ reply[t] = None
      /\ \A f \in Flushers : t \notin Elems(batch[f])
  BY <1>1 DEF WriterInv, FreshInv, Fresh
<1>3. LockInv' /\ BatchInv' /\ ReplyHonest'
  BY <1>1 DEF WriterInv, LockInv, BatchInv, ReplyHonest
<1>4. FreshInv'
  BY <1>1 DEF WriterInv, FreshInv, TypeOK, AfterSend, Fresh
<1>5. QueueInv'
  BY <1>1, <1>2 DEF WriterInv, QueueInv
<1>6. Held' = Held \cup {t}
  BY <1>1 DEF Held
<1>7. NoOrphanWaiter'
  BY <1>1, <1>6 DEF WriterInv, NoOrphanWaiter, TypeOK
<1>8. SaverInv'
  BY <1>1, <1>6 DEF WriterInv, SaverInv, TypeOK, AfterSend, Fresh
<1> QED BY <1>3, <1>4, <1>5, <1>7, <1>8 DEF WriterInv

LEMMA FlushBeginInv ==
  ASSUME TypeOK, WriterInv, NEW f \in Flushers, NEW last \in BOOLEAN, FlushBegin(f, last)
  PROVE  WriterInv'
<1> USE CallerFacts
<1>1. /\ batch' = [batch EXCEPT ![f] = queue] /\ Elems(queue') = {}
      /\ flushMu = None /\ flushMu' = f /\ stage' = [stage EXCEPT ![f] = "drained"]
      /\ f \in Savers => pc[f] = "flush"
      /\ UNCHANGED <<pc, reply, committed, failed>>
  BY FlushTakesAll, ElemsEmpty DEF FlushBegin, LockFree, WantsFlush, callVars, histVars
<1>2. \A g \in Flushers : stage[g] = "idle" /\ Elems(batch[g]) = {}
  BY <1>1, ElemsEmpty DEF WriterInv, LockInv
<1>3. \A g \in Flushers : Elems(batch'[g]) = IF g = f THEN Elems(queue) ELSE {}
  BY <1>1, <1>2 DEF TypeOK
<1>4. LockInv'
  BY <1>1, <1>2 DEF WriterInv, LockInv, TypeOK
<1>5. Held' = Held
  BY <1>1, <1>2, <1>3 DEF Held
<1>6. FreshInv' /\ QueueInv'
  BY <1>1, <1>3 DEF WriterInv, FreshInv, QueueInv
<1>7. BatchInv'
  BY <1>1, <1>3 DEF WriterInv, QueueInv, BatchInv, TypeOK
<1>8. ReplyHonest' /\ NoOrphanWaiter'
  BY <1>1, <1>5 DEF WriterInv, ReplyHonest, NoOrphanWaiter
<1>9. SaverInv'
  <2> SUFFICES ASSUME NEW t \in Savers
               PROVE  /\ pc[t] = "flush" => t \in Held \cup committed \cup failed
                      /\ stage'[t] # "idle" =>
                           pc[t] = "flush" /\ t \in Elems(batch'[t]) \cup committed \cup failed
                      /\ pc[t] \notin Fresh \cup {"flush"} => t \in committed \cup failed
    BY <1>1, <1>5 DEF SaverInv
  <2>1. stage'[t] # "idle" => t = f
    BY <1>1, <1>2 DEF TypeOK
  <2>2. t = f => pc[t] = "flush" /\ t \in Elems(queue) \cup committed \cup failed
    BY <1>1, <1>2, HeldCases DEF WriterInv, SaverInv
  <2> QED BY <1>3, <2>1, <2>2 DEF WriterInv, SaverInv
<1> QED BY <1>4, <1>6, <1>7, <1>8, <1>9 DEF WriterInv

LEMMA FlushEmptyInv ==
  ASSUME TypeOK, WriterInv, NEW f \in Flushers, NEW last \in BOOLEAN, FlushEmpty(f, last)
  PROVE  WriterInv'
<1> USE CallerFacts
<1>1. /\ queue = <<>> /\ flushMu = None
      /\ pc' = [t \in Tasks |-> IF t = f THEN "poll" ELSE pc[t]]
      /\ f \in Savers => pc[f] = "flush"
      /\ UNCHANGED <<queue, reply, flushMu, stage, batch, committed, failed>>
  BY DEF FlushEmpty, LockFree, WantsFlush, histVars
<1>2. \A g \in Flushers : stage[g] = "idle" /\ Elems(batch[g]) = {}
  BY <1>1, ElemsEmpty DEF WriterInv, LockInv
<1>3. Held = {}
  BY <1>1, <1>2, ElemsEmpty DEF Held
<1>4. LockInv' /\ QueueInv' /\ BatchInv' /\ ReplyHonest'
  BY <1>1 DEF WriterInv, LockInv, QueueInv, BatchInv, ReplyHonest
<1>5. FreshInv'
  BY <1>1 DEF WriterInv, FreshInv, Fresh
<1>6. NoOrphanWaiter'
  BY <1>1 DEF WriterInv, NoOrphanWaiter, Held
<1>7. SaverInv'
  BY <1>1, <1>2, <1>3 DEF WriterInv, SaverInv, Held, Fresh
<1> QED BY <1>4, <1>5, <1>6, <1>7 DEF WriterInv

LEMMA CommitInv ==
  ASSUME TypeOK, WriterInv, NEW f \in Flushers, Commit(f) PROVE WriterInv'
<1> USE CallerFacts
<1>1. /\ stage[f] = "tx" /\ stage' = [stage EXCEPT ![f] = "committed"]
      /\ committed' = committed \cup Elems(batch[f])
      /\ UNCHANGED <<queue, pc, reply, flushMu, batch, failed>>
  BY DEF Commit, callVars
<1>2. flushMu = f /\ \A g \in Flushers : g # f => Elems(batch[g]) = {}
  BY <1>1, ElemsEmpty DEF WriterInv, LockInv
<1>3. LockInv'
  BY <1>1 DEF WriterInv, LockInv, TypeOK
<1>4. FreshInv' /\ QueueInv'
  BY <1>1 DEF WriterInv, FreshInv, QueueInv
<1>5. BatchInv'
  BY <1>1, <1>2 DEF WriterInv, BatchInv, TypeOK
<1>6. ReplyHonest'
  BY <1>1 DEF WriterInv, ReplyHonest, BatchInv
<1>7. NoOrphanWaiter' /\ Held' = Held
  BY <1>1 DEF WriterInv, NoOrphanWaiter, Held
<1>8. SaverInv'
  BY <1>1, <1>7 DEF WriterInv, SaverInv, TypeOK
<1> QED BY <1>3, <1>4, <1>5, <1>6, <1>7, <1>8 DEF WriterInv

LEMMA OpenTxInv ==
  ASSUME TypeOK, WriterInv, NEW f \in Flushers, BeginTx(f) \/ Abort(f) PROVE WriterInv'
<1> USE CallerFacts
<1>1. PICK v \in {"tx", "aborted"} : stage' = [stage EXCEPT ![f] = v]
  BY DEF BeginTx, Abort
<1>2. /\ stage[f] \in {"drained", "tx"}
      /\ UNCHANGED <<queue, pc, reply, flushMu, batch, committed, failed>>
  BY DEF BeginTx, Abort, callVars, histVars
<1>3. LockInv'
  BY <1>1, <1>2 DEF WriterInv, LockInv, TypeOK
<1>4. FreshInv' /\ QueueInv' /\ ReplyHonest' /\ NoOrphanWaiter' /\ Held' = Held
  BY <1>2 DEF WriterInv, FreshInv, QueueInv, ReplyHonest, NoOrphanWaiter, Held
<1>5. BatchInv'
  BY <1>1, <1>2 DEF WriterInv, BatchInv, TypeOK
<1>6. SaverInv'
  BY <1>1, <1>2, <1>4 DEF WriterInv, SaverInv, TypeOK
<1> QED BY <1>3, <1>4, <1>5, <1>6 DEF WriterInv

\* What the end of a flush does to the tasks it answers, set: they leave the
\* queue and the batches, they are over, and the submitters among them know.
LEMMA CompleteInv ==
  ASSUME TypeOK, WriterInv, NEW f \in Flushers, NEW set, NEW a \in {"nil", "err"},
         stage[f] # "idle", FlushReturns(f), Notify(set, a),
         set = IF a = "nil" THEN Elems(batch[f]) ELSE Elems(batch[f]) \cup Elems(queue),
         Elems(queue') = IF a = "nil" THEN Elems(queue) ELSE {},
         a = "nil" => stage[f] = "committed", a = "err" => stage[f] # "committed",
         failed' = IF a = "nil" THEN failed ELSE failed \cup set
  PROVE  WriterInv'
<1> USE CallerFacts
<1>1. /\ flushMu' = None /\ stage' = [stage EXCEPT ![f] = "idle"]
      /\ batch' = [batch EXCEPT ![f] = <<>>] /\ UNCHANGED committed
      /\ pc' = [t \in Tasks |-> IF t = f THEN "poll" ELSE pc[t]]
      /\ reply' = [t \in Tasks |-> IF t \in set \cap Submitters THEN a ELSE reply[t]]
  BY DEF FlushReturns, Notify
<1>2. flushMu = f /\ \A g \in Flushers : g # f => stage[g] = "idle" /\ batch[g] = <<>>
  BY DEF WriterInv, LockInv
<1>3. \A g \in Flushers : batch'[g] = <<>> /\ Elems(batch'[g]) = {} /\ stage'[g] = "idle"
  BY <1>1, <1>2, ElemsEmpty DEF TypeOK
<1>4. Held \subseteq Held' \cup set
  BY <1>2, <1>3, HeldCases, ElemsEmpty DEF Held
<1>5. set \subseteq committed \cup failed'
  BY DEF WriterInv, BatchInv
<1>6. set \cap committed # {} => a = "nil"
  BY DEF WriterInv, BatchInv, QueueInv
<1>7. a = "nil" => set \subseteq committed
  BY DEF WriterInv, BatchInv
<1>8. \A t \in Tasks : t \in set => reply[t] = None
  BY DEF WriterInv, BatchInv, QueueInv
<1>9. LockInv' /\ BatchInv'
  BY <1>3 DEF LockInv, BatchInv
<1>10. f \in Savers => pc[f] = "flush" /\ f \in set \cup committed \cup failed
  BY DEF WriterInv, SaverInv
<1>11. FreshInv'
  <2> SUFFICES ASSUME NEW t \in Tasks, pc'[t] \in Fresh
               PROVE  /\ t \notin Elems(queue') /\ t \notin committed /\ t \notin failed'
                      /\ reply'[t] = None
    BY <1>1, <1>3 DEF FreshInv
  <2>1. pc[t] \in Fresh
    BY <1>1 DEF Fresh
  <2>2. t \notin set /\ t \notin Elems(queue) /\ t \notin committed /\ t \notin failed
        /\ reply[t] = None
    BY <2>1 DEF WriterInv, FreshInv
  <2> QED BY <1>1, <2>2
<1>12. QueueInv'
  <2> SUFFICES ASSUME NEW t \in Elems(queue') PROVE t \notin committed /\ reply'[t] = None
    BY <1>1, <1>3 DEF QueueInv
  <2>1. t \in Elems(queue) /\ t \notin set /\ t \in Tasks
    BY ElemsType DEF WriterInv, QueueInv, TypeOK
  <2> QED BY <1>1, <2>1 DEF WriterInv, QueueInv
<1>13. ReplyHonest'
  BY <1>1, <1>6, <1>7 DEF WriterInv, ReplyHonest
<1>14. NoOrphanWaiter'
  <2> SUFFICES ASSUME NEW t \in Submitters, pc'[t] = "await", reply'[t] = None
               PROVE  t \in Held'
    BY DEF NoOrphanWaiter
  <2>1. pc[t] = "await" /\ t \notin set /\ reply[t] = None
    BY <1>1, StoreAssumption
  <2> QED BY <1>4, <2>1 DEF WriterInv, NoOrphanWaiter
<1>15. SaverInv'
  <2> SUFFICES ASSUME NEW t \in Savers
               PROVE  /\ pc'[t] = "flush" => t \in Held' \cup committed \cup failed'
                      /\ pc'[t] \notin Fresh \cup {"flush"} => t \in committed \cup failed'
    BY <1>1, <1>3 DEF SaverInv
  <2>1. failed \subseteq failed'
    OBVIOUS
  <2>2. CASE t = f
    BY <1>1, <1>5, <1>10, <2>1, <2>2
  <2>3. CASE t # f
    <3>1. pc'[t] = pc[t]
      BY <1>1, <2>3
    <3> QED BY <1>4, <1>5, <2>1, <3>1 DEF WriterInv, SaverInv
  <2> QED BY <2>2, <2>3
<1> QED BY <1>9, <1>11, <1>12, <1>13, <1>14, <1>15 DEF WriterInv

LEMMA WriterStep == TypeOK /\ WriterInv /\ [Next]_vars => WriterInv'
<1> SUFFICES ASSUME TypeOK, WriterInv, [Next]_vars PROVE WriterInv'
  OBVIOUS
<1> USE CallerFacts
<1>1. ASSUME NEW t \in Tasks, CheckClosed(t) \/ QueueFull(t) PROVE WriterInv'
  <2>1. PICK v \in Fresh : pc' = [pc EXCEPT ![t] = v]
    BY <1>1 DEF CheckClosed, QueueFull, Fresh
  <2>2. pc[t] \in Fresh /\ UNCHANGED <<queue, reply, flushVars, histVars>>
    BY <1>1 DEF CheckClosed, QueueFull, Fresh
  <2> QED BY <2>1, <2>2, MoveCaller
<1>2. ASSUME NEW t \in Tasks, SendTask(t) PROVE WriterInv'
  BY <1>2, SendInv
<1>3. ASSUME NEW t \in Tasks, Receive(t) PROVE WriterInv'
  <2>1. PICK v \in {"ok", "error"} : pc' = [pc EXCEPT ![t] = v]
    BY <1>3 DEF Receive
  <2>2. pc[t] = "await" /\ reply[t] # None /\ UNCHANGED <<queue, reply, flushVars, histVars>>
    BY <1>3 DEF Receive
  <2> QED BY <2>1, <2>2, MoveCaller
<1>4. ASSUME NEW t \in Tasks, FlushAndWaitReturns(t) PROVE WriterInv'
  <2>1. pc[t] = "poll" /\ pc' = [pc EXCEPT ![t] = "ok"]
        /\ UNCHANGED <<queue, reply, flushVars, histVars>>
    BY <1>4 DEF FlushAndWaitReturns
  <2> QED BY <2>1, MoveCaller
<1>5. ASSUME NEW f \in Flushers, NEW last \in BOOLEAN, FlushBegin(f, last) PROVE WriterInv'
  BY <1>5, FlushBeginInv
<1>6. ASSUME NEW f \in Flushers, NEW last \in BOOLEAN, FlushEmpty(f, last) PROVE WriterInv'
  BY <1>6, FlushEmptyInv
<1>7. ASSUME NEW f \in Flushers, BeginTx(f) \/ Abort(f) PROVE WriterInv'
  BY <1>7, OpenTxInv
<1>8. ASSUME NEW f \in Flushers, Commit(f) PROVE WriterInv'
  BY <1>8, CommitInv
<1>9. ASSUME NEW f \in Flushers, CompleteCommitted(f) PROVE WriterInv'
  <2>1. /\ stage[f] = "committed" /\ FlushReturns(f) /\ Notify(Elems(batch[f]), "nil")
        /\ UNCHANGED <<queue, failed>>
    BY <1>9 DEF CompleteCommitted
  <2> QED BY <2>1, CompleteInv
<1>10. ASSUME NEW f \in Flushers, CompleteAborted(f) PROVE WriterInv'
  <2>1. /\ stage[f] = "aborted" /\ FlushReturns(f)
        /\ Notify(Elems(batch[f]) \cup Elems(queue), "err")
        /\ failed' = failed \cup (Elems(batch[f]) \cup Elems(queue)) /\ Elems(queue') = {}
    BY <1>10, ElemsEmpty DEF CompleteAborted
  <2> QED BY <2>1, CompleteInv
<1>11. CASE CloseMark \/ CloseStop \/ CloseDb \/ UNCHANGED vars
  <2>1. UNCHANGED <<queue, pc, reply, flushMu, stage, batch, committed, failed>>
    BY <1>11 DEF CloseMark, CloseStop, CloseDb, vars, callVars, flushVars, histVars
  <2> QED BY <2>1 DEF WriterInv, LockInv, FreshInv, QueueInv, BatchInv, SaverInv, ReplyHonest,
                      NoOrphanWaiter, Held
<1> QED BY <1>1, <1>2, <1>3, <1>4, <1>5, <1>6, <1>7, <1>8, <1>9, <1>10, <1>11
        DEF Next, CallerStep, FlushStep

LEMMA WriterInvariant == Spec => []WriterInv
<1>1. Init => WriterInv
  BY ElemsEmpty, CallerFacts DEF Init, WriterInv, LockInv, FreshInv, QueueInv, BatchInv,
     SaverInv, ReplyHonest, NoOrphanWaiter, Fresh
<1> QED BY <1>1, TypeCorrect, WriterStep, PTL DEF Spec

\* The done channel of Submit never lies, whichever batch-mate failed and
\* whoever flushed (store.go:126-211).
THEOREM RepliesAreHonest == Spec => []ReplyHonest
<1>1. WriterInv => ReplyHonest
  BY DEF WriterInv
<1> QED BY <1>1, WriterInvariant, PTL

\* A caller blocked on its channel always has its task in the queue or in a
\* running flush: completeBatch forgets nobody (store.go:166-211).
THEOREM NoWaiterOrphaned == Spec => []NoOrphanWaiter
<1>1. WriterInv => NoOrphanWaiter
  BY DEF WriterInv
<1> QED BY <1>1, WriterInvariant, PTL

\* FlushAndWait does not return while its caller's task is in anybody's batch
\* (store.go:126-128, 351-360).
THEOREM SaverTaskIsOver == Spec => []SaverTaskOver
<1>1. WriterInv => SaverTaskOver
  BY DEF WriterInv, SaverInv, SaverTaskOver, Fresh
<1> QED BY <1>1, WriterInvariant, PTL

-----------------------------------------------------------------------------
(* The queue implements the abstract store: the tasks that are not over    *)
(* are the running flush's batch followed by the queue, in log order.      *)

Offset(log, live, q) == Len(log) - Len(live) - Len(q)

\* The log is what is over, then live, then q.
Ordered(log, live, q, over) ==
  LET o == Offset(log, live, q) IN
  /\ o \in Nat
  /\ \A k \in 1..Len(live) : log[o + k] = live[k]
  /\ \A k \in 1..Len(q) : log[o + Len(live) + k] = q[k]
  /\ \A k \in 1..Len(log) : log[k] \in over <=> k <= o

LEMMA OrderedSend ==
  ASSUME NEW log \in Seq(Tasks), NEW live \in Seq(Tasks), NEW q \in Seq(Tasks), NEW over,
         NEW t \in Tasks, Ordered(log, live, q, over), t \notin over
  PROVE  Ordered(Append(log, t), live, Append(q, t), over)
<1> DEFINE o == Offset(log, live, q)
<1>1. /\ Append(log, t) \in Seq(Tasks) /\ Len(Append(log, t)) = Len(log) + 1
      /\ \A k \in 1..Len(log) : Append(log, t)[k] = log[k]
      /\ Append(log, t)[Len(log) + 1] = t
  OBVIOUS
<1>2. /\ Append(q, t) \in Seq(Tasks) /\ Len(Append(q, t)) = Len(q) + 1
      /\ \A k \in 1..Len(q) : Append(q, t)[k] = q[k]
      /\ Append(q, t)[Len(q) + 1] = t
  OBVIOUS
<1>3. /\ Len(log) \in Nat /\ Len(live) \in Nat /\ Len(q) \in Nat /\ o \in Nat
      /\ o + Len(live) + Len(q) = Len(log)
      /\ Offset(Append(log, t), live, Append(q, t)) = o
  BY <1>1, <1>2 DEF Ordered, Offset
<1> HIDE DEF o
<1>4. ASSUME NEW k \in 1..Len(live) PROVE Append(log, t)[o + k] = live[k]
  BY <1>1, <1>3, SMTT(30) DEF Ordered, o
<1>5. ASSUME NEW k \in 1..Len(Append(q, t))
      PROVE  Append(log, t)[o + Len(live) + k] = Append(q, t)[k]
  <2>1. CASE k \in 1..Len(q) BY <1>1, <1>2, <1>3, <2>1, SMTT(30) DEF Ordered, o
  <2>2. CASE k = Len(q) + 1 BY <1>1, <1>2, <1>3, <2>2, SMTT(30)
  <2>3. k \in 1..Len(q) \/ k = Len(q) + 1
    <3>1. k \in 1..Len(q) + 1 BY <1>2
    <3> QED BY <1>3, <3>1
  <2> QED BY <2>1, <2>2, <2>3
<1>6. ASSUME NEW k \in 1..Len(Append(log, t))
      PROVE  Append(log, t)[k] \in over <=> k <= o
  <2>1. CASE k \in 1..Len(log) BY <1>1, <1>3, <2>1 DEF Ordered, o
  <2>2. CASE k = Len(log) + 1 BY <1>1, <1>3, <2>2
  <2> QED BY <1>1, <1>3, <2>1, <2>2
<1> QED BY <1>3, <1>4, <1>5, <1>6 DEF Ordered

LEMMA OrderedTake ==
  ASSUME NEW log \in Seq(Tasks), NEW q \in Seq(Tasks), NEW over,
         Ordered(log, <<>>, q, over)
  PROVE  Ordered(log, q, <<>>, over)
BY DEF Ordered, Offset

\* Log positions of what is not over.
Open(log, over) == {k \in 1..Len(log) : log[k] \notin over}
OpenUpTo(log, over, k) == {log[j] : j \in {i \in Open(log, over) : i <= k}}
AllOpen(log, over) == {log[j] : j \in Open(log, over)}

\* The outstanding tasks, as the abstract store sees them.
LEMMA OrderedOutstanding ==
  ASSUME NEW log \in Seq(Tasks), NEW live \in Seq(Tasks), NEW q \in Seq(Tasks), NEW over,
         Ordered(log, live, q, over)
  PROVE  /\ OpenUpTo(log, over, Offset(log, live, q) + Len(live)) = Elems(live)
         /\ AllOpen(log, over) = Elems(live) \cup Elems(q)
         /\ live # <<>> => Offset(log, live, q) + Len(live) \in Open(log, over)
<1> DEFINE o == Offset(log, live, q)
           out == Open(log, over)
<1>1. /\ Len(log) \in Nat /\ Len(live) \in Nat /\ Len(q) \in Nat /\ o \in Nat
      /\ o + Len(live) + Len(q) = Len(log)
  BY DEF Ordered, Offset
<1>2. \A k : k \in out <=> k \in o + 1..Len(log)
  BY <1>1 DEF Ordered, Open
<1>3. \A k \in 1..Len(live) : log[o + k] = live[k]
  BY DEF Ordered
<1>4. \A k \in 1..Len(q) : log[o + Len(live) + k] = q[k]
  BY DEF Ordered
<1> HIDE DEF o, out
<1>5. \A j \in o + 1..o + Len(live) : j - o \in 1..Len(live) /\ log[j] = live[j - o]
  BY <1>1, <1>3
<1>6. \A j \in o + Len(live) + 1..Len(log) :
        j - o - Len(live) \in 1..Len(q) /\ log[j] = q[j - o - Len(live)]
  BY <1>1, <1>4
<1>7. {log[j] : j \in {i \in out : i <= o + Len(live)}} = Elems(live)
  <2>1. {i \in out : i <= o + Len(live)} = o + 1..o + Len(live) BY <1>1, <1>2
  <2>2. \A k \in 1..Len(live) : o + k \in o + 1..o + Len(live) BY <1>1
  <2> QED BY <1>3, <1>5, <2>1, <2>2 DEF Elems
<1>8. {log[j] : j \in out} = Elems(live) \cup Elems(q)
  <2>1. \A k \in 1..Len(live) : o + k \in out BY <1>1, <1>2
  <2>2. \A k \in 1..Len(q) : o + Len(live) + k \in out BY <1>1, <1>2
  <2>3. \A j \in out : j \in o + 1..o + Len(live) \/ j \in o + Len(live) + 1..Len(log)
    BY <1>1, <1>2
  <2>4. {log[j] : j \in out} \subseteq Elems(live) \cup Elems(q)
    BY <1>5, <1>6, <2>3 DEF Elems
  <2>5. Elems(live) \subseteq {log[j] : j \in out} BY <1>3, <2>1 DEF Elems
  <2>6. Elems(q) \subseteq {log[j] : j \in out} BY <1>4, <2>2 DEF Elems
  <2> QED BY <2>4, <2>5, <2>6
<1>9. live # <<>> => o + Len(live) \in out
  <2>1. live # <<>> => Len(live) # 0 OBVIOUS
  <2> QED BY <1>1, <1>2, <2>1
<1> QED BY <1>7, <1>8, <1>9 DEF o, out, OpenUpTo, AllOpen

\* The batch is over; nothing of the queue is.
LEMMA OrderedDone ==
  ASSUME NEW log \in Seq(Tasks), NEW live \in Seq(Tasks), NEW q \in Seq(Tasks), NEW over,
         Ordered(log, live, q, over), Elems(live) \cap Elems(q) = {}
  PROVE  Ordered(log, <<>>, q, over \cup Elems(live))
<1> DEFINE o == Offset(log, live, q)
           p == Offset(log, <<>>, q)
<1>1. /\ Len(log) \in Nat /\ Len(live) \in Nat /\ Len(q) \in Nat /\ o \in Nat
      /\ p = o + Len(live) /\ p + Len(q) = Len(log)
  BY DEF Ordered, Offset
<1>2. /\ \A k \in 1..Len(live) : log[o + k] = live[k]
      /\ \A k \in 1..Len(q) : log[o + Len(live) + k] = q[k]
      /\ \A k \in 1..Len(log) : log[k] \in over <=> k <= o
  BY DEF Ordered
<1> HIDE DEF o, p
<1>3. ASSUME NEW k \in 1..Len(log) PROVE log[k] \in over \cup Elems(live) <=> k <= p
  <2>1. CASE k <= o BY <1>1, <1>2, <2>1
  <2>2. CASE k > o /\ k <= p
    <3>1. k - o \in 1..Len(live) /\ log[o + (k - o)] = live[k - o] /\ o + (k - o) = k
      BY <1>1, <1>2, <2>2, SMTT(30)
    <3> QED BY <2>2, <3>1 DEF Elems
  <2>3. CASE k > p
    <3>1. k - p \in 1..Len(q) /\ log[p + (k - p)] = q[k - p] /\ p + (k - p) = k
      BY <1>1, <1>2, <2>3, SMTT(30)
    <3>2. log[k] \in Elems(q) BY <3>1 DEF Elems
    <3>3. log[k] \notin over BY <1>1, <1>2, <2>3
    <3> QED BY <1>1, <2>3, <3>2, <3>3
  <2> QED BY <1>1, <2>1, <2>2, <2>3
<1>4. \A k \in 1..Len(q) : log[p + Len(<<>>) + k] = q[k] BY <1>1, <1>2
<1> QED BY <1>1, <1>3, <1>4 DEF Ordered, p

\* The batch and the queue are over.
LEMMA OrderedAll ==
  ASSUME NEW log \in Seq(Tasks), NEW live \in Seq(Tasks), NEW q \in Seq(Tasks), NEW over,
         Ordered(log, live, q, over)
  PROVE  Ordered(log, <<>>, <<>>, over \cup Elems(live) \cup Elems(q))
<1>1. AllOpen(log, over) = Elems(live) \cup Elems(q) BY OrderedOutstanding
<1>2. \A k \in 1..Len(log) : log[k] \in over \cup Elems(live) \cup Elems(q)
  BY <1>1 DEF AllOpen, Open
<1>3. Offset(log, <<>>, <<>>) = Len(log) /\ Len(log) \in Nat BY DEF Offset
<1> QED BY <1>2, <1>3 DEF Ordered

Running == {"drained", "tx", "aborted"}

\* The batch whose transaction is still to be decided.
Live == IF flushMu # None /\ stage[flushMu] \in Running THEN batch[flushMu] ELSE <<>>

OrderInv ==
  /\ Ordered(accepted, Live, queue, committed \cup failed)
  /\ \A f \in Flushers : stage[f] # "idle" => batch[f] # <<>>
  /\ \A t \in Tasks : pc[t] \in Fresh => t \notin Elems(accepted)

LEMMA LiveFacts ==
  ASSUME TypeOK, LockInv
  PROVE  /\ Live \in Seq(Tasks)
         /\ \A f \in Flushers : stage[f] \in Running => Live = batch[f]
         /\ \A f \in Flushers : stage[f] = "committed" => Live = <<>>
         /\ flushMu = None => Live = <<>>
         /\ (\A f \in Flushers : stage[f] \notin Running) => Live = <<>>
BY CallerFacts DEF Live, TypeOK, LockInv, Running

avars == <<accepted, committed, failed>>

\* Steps of callers that accept nothing, and of Close.
LEMMA OrderFrame ==
  ASSUME OrderInv, UNCHANGED <<accepted, queue, flushMu, stage, batch, committed, failed>>,
         \A t \in Tasks : pc'[t] \in Fresh => pc[t] \in Fresh
  PROVE  OrderInv' /\ UNCHANGED avars
BY DEF OrderInv, Live, avars

LEMMA OrderSend ==
  ASSUME TypeOK, WriterInv, OrderInv, NEW t \in Tasks, SendTask(t)
  PROVE  OrderInv' /\ TS!Accept(t)
<1>1. /\ accepted' = Append(accepted, t) /\ queue' = Append(queue, t) /\ pc[t] = "send"
      /\ pc' = [pc EXCEPT ![t] = AfterSend(t)]
      /\ UNCHANGED <<flushMu, stage, batch, committed, failed>>
      /\ accepted \in Seq(Tasks) /\ queue \in Seq(Tasks)
  BY DEF SendTask, flushVars, TypeOK
<1>2. t \notin committed \cup failed /\ t \notin Elems(accepted)
  BY <1>1 DEF WriterInv, FreshInv, OrderInv, Fresh
<1>3. Live' = Live /\ Live \in Seq(Tasks)
  BY <1>1, LiveFacts DEF Live, WriterInv
<1>4. Ordered(accepted', Live, queue', committed \cup failed)
  BY <1>1, <1>2, <1>3, OrderedSend DEF OrderInv
<1>5. Elems(accepted') = Elems(accepted) \cup {t} BY <1>1, ElemsAppend
<1>6. \A u \in Tasks : pc'[u] \in Fresh => u # t /\ pc[u] \in Fresh
  BY <1>1, CallerFacts DEF TypeOK, AfterSend, Fresh
<1>7. OrderInv'
  BY <1>1, <1>3, <1>4, <1>5, <1>6 DEF OrderInv
<1>8. TS!Accept(t)
  BY <1>1, <1>2 DEF TS!Accept, Elems
<1> QED BY <1>7, <1>8

LEMMA OrderFlush ==
  ASSUME TypeOK, WriterInv, OrderInv, NEW f \in Flushers, NEW last \in BOOLEAN,
         FlushBegin(f, last)
  PROVE  OrderInv' /\ UNCHANGED avars
<1>1. /\ flushMu = None /\ flushMu' = f /\ stage' = [stage EXCEPT ![f] = "drained"]
      /\ queue # <<>> /\ UNCHANGED <<accepted, committed, failed, pc>>
  BY DEF FlushBegin, LockFree, histVars, callVars
<1>2. batch' = [batch EXCEPT ![f] = queue] /\ queue' = <<>> BY FlushTakesAll
<1>3. Live = <<>> BY <1>1, LiveFacts DEF WriterInv
<1>4. Live' = queue
  BY <1>1, <1>2, CallerFacts DEF Live, TypeOK, Running
<1>5. Ordered(accepted, queue, <<>>, committed \cup failed)
  BY <1>3, OrderedTake DEF OrderInv, TypeOK
<1>6. \A g \in Flushers : stage'[g] # "idle" => batch'[g] # <<>>
  BY <1>1, <1>2 DEF OrderInv, TypeOK
<1> QED BY <1>1, <1>2, <1>4, <1>5, <1>6 DEF OrderInv, avars

LEMMA OrderMove ==
  ASSUME TypeOK, WriterInv, OrderInv, NEW f \in Flushers, BeginTx(f) \/ Abort(f)
  PROVE  OrderInv' /\ UNCHANGED avars
<1>1. /\ stage[f] \in Running
      /\ \E v \in {"tx", "aborted"} : stage' = [stage EXCEPT ![f] = v]
      /\ UNCHANGED <<accepted, queue, flushMu, batch, committed, failed, pc>>
  BY DEF BeginTx, Abort, Running, histVars, callVars
<1>2. flushMu = f BY <1>1 DEF WriterInv, LockInv, Running
<1>3. stage'[f] \in Running /\ \A g \in Flushers \ {f} : stage'[g] = stage[g]
  BY <1>1 DEF TypeOK, Running
<1>4. Live' = Live BY <1>1, <1>2, <1>3 DEF Live
<1>5. \A g \in Flushers : stage'[g] # "idle" => batch'[g] # <<>>
  BY <1>1, <1>3 DEF OrderInv, Running
<1> QED BY <1>1, <1>4, <1>5 DEF OrderInv, avars

LEMMA OrderCommit ==
  ASSUME TypeOK, WriterInv, OrderInv, NEW f \in Flushers, Commit(f)
  PROVE  OrderInv' /\ \E k \in 1..Len(accepted) : TS!Apply(k)
<1> DEFINE over == committed \cup failed
           k == Offset(accepted, Live, queue) + Len(Live)
<1>1. /\ stage[f] = "tx" /\ stage' = [stage EXCEPT ![f] = "committed"]
      /\ committed' = committed \cup Elems(batch[f])
      /\ UNCHANGED <<accepted, queue, flushMu, batch, failed, pc>>
  BY DEF Commit, callVars
<1>2. Live = batch[f] /\ Live \in Seq(Tasks) /\ flushMu = f /\ Live # <<>>
  BY <1>1, LiveFacts DEF WriterInv, LockInv, Running, OrderInv
<1>3. accepted \in Seq(Tasks) /\ queue \in Seq(Tasks) /\ Ordered(accepted, Live, queue, over)
  BY DEF TypeOK, OrderInv
<1>4. Live' = <<>>
  BY <1>1, <1>2, CallerFacts DEF Live, TypeOK, Running
<1>5. Elems(Live) \cap Elems(queue) = {}
  BY <1>2 DEF WriterInv, QueueInv
<1>6. committed' \cup failed' = over \cup Elems(Live) BY <1>1, <1>2
<1>7. Ordered(accepted, <<>>, queue, over \cup Elems(Live))
  BY <1>2, <1>3, <1>5, OrderedDone
<1>8. \A g \in Flushers : stage'[g] # "idle" => batch'[g] # <<>>
  BY <1>1 DEF OrderInv, TypeOK
<1>9. OrderInv'
  BY <1>1, <1>4, <1>6, <1>7, <1>8 DEF OrderInv
<1>10. k \in Open(accepted, over) /\ OpenUpTo(accepted, over, k) = Elems(Live)
  BY <1>2, <1>3, OrderedOutstanding
<1> HIDE DEF k
<1>11. TS!Apply(k)
  BY <1>1, <1>2, <1>10 DEF TS!Apply, TS!Outstanding, Open, OpenUpTo
<1> QED BY <1>9, <1>10, <1>11 DEF Open

LEMMA OrderComplete ==
  ASSUME TypeOK, WriterInv, OrderInv, NEW f \in Flushers, CompleteCommitted(f)
  PROVE  OrderInv' /\ UNCHANGED avars
<1>1. /\ stage[f] = "committed" /\ flushMu' = None /\ stage' = [stage EXCEPT ![f] = "idle"]
      /\ batch' = [batch EXCEPT ![f] = <<>>]
      /\ pc' = [t \in Tasks |-> IF t = f THEN "poll" ELSE pc[t]]
      /\ UNCHANGED <<accepted, committed, failed, queue>>
  BY DEF CompleteCommitted, FlushReturns
<1>2. Live = <<>> BY <1>1, LiveFacts DEF WriterInv
<1>3. Live' = <<>> BY <1>1 DEF Live
<1>4. \A g \in Flushers : stage'[g] # "idle" => batch'[g] # <<>>
  BY <1>1 DEF OrderInv, TypeOK
<1>5. \A t \in Tasks : pc'[t] \in Fresh => pc[t] \in Fresh
  BY <1>1 DEF Fresh
<1> QED BY <1>1, <1>2, <1>3, <1>4, <1>5 DEF OrderInv, avars

LEMMA OrderAbort ==
  ASSUME TypeOK, WriterInv, OrderInv, NEW f \in Flushers, CompleteAborted(f)
  PROVE  OrderInv' /\ TS!GiveUp
<1> DEFINE over == committed \cup failed
<1>1. /\ stage[f] = "aborted" /\ flushMu' = None /\ stage' = [stage EXCEPT ![f] = "idle"]
      /\ batch' = [batch EXCEPT ![f] = <<>>] /\ queue' = <<>>
      /\ pc' = [t \in Tasks |-> IF t = f THEN "poll" ELSE pc[t]]
      /\ failed' = failed \cup Elems(batch[f]) \cup Elems(queue)
      /\ UNCHANGED <<accepted, committed>>
  BY DEF CompleteAborted, FlushReturns
<1>2. Live = batch[f] /\ Live \in Seq(Tasks) /\ Live # <<>>
  BY <1>1, LiveFacts DEF WriterInv, Running, OrderInv
<1>3. accepted \in Seq(Tasks) /\ queue \in Seq(Tasks) /\ Ordered(accepted, Live, queue, over)
  BY DEF TypeOK, OrderInv
<1>4. Live' = <<>> BY <1>1 DEF Live
<1>5. committed' \cup failed' = over \cup Elems(Live) \cup Elems(queue) BY <1>1, <1>2
<1>6. Ordered(accepted, <<>>, <<>>, over \cup Elems(Live) \cup Elems(queue))
  BY <1>2, <1>3, OrderedAll
<1>7. \A g \in Flushers : stage'[g] # "idle" => batch'[g] # <<>>
  BY <1>1 DEF OrderInv, TypeOK
<1>8. \A t \in Tasks : pc'[t] \in Fresh => pc[t] \in Fresh
  BY <1>1 DEF Fresh
<1>9. OrderInv'
  BY <1>1, <1>4, <1>5, <1>6, <1>7, <1>8 DEF OrderInv
<1>10. AllOpen(accepted, over) = Elems(Live) \cup Elems(queue)
       /\ Offset(accepted, Live, queue) + Len(Live) \in Open(accepted, over)
  BY <1>2, <1>3, OrderedOutstanding
<1>11. TS!GiveUp
  BY <1>1, <1>2, <1>10 DEF TS!GiveUp, TS!Outstanding, Open, AllOpen
<1> QED BY <1>9, <1>11

LEMMA OrderStep ==
  TypeOK /\ WriterInv /\ OrderInv /\ [Next]_vars => OrderInv' /\ [TS!Next]_avars
<1> SUFFICES ASSUME TypeOK, WriterInv, OrderInv, [Next]_vars
             PROVE  OrderInv' /\ [TS!Next]_avars
  OBVIOUS
<1>1. ASSUME NEW t \in Tasks,
             \/ CheckClosed(t) \/ QueueFull(t) \/ Receive(t) \/ FlushAndWaitReturns(t)
      PROVE  OrderInv' /\ UNCHANGED avars
  <2>1. UNCHANGED <<accepted, queue, flushMu, stage, batch, committed, failed>>
    BY <1>1 DEF CheckClosed, QueueFull, Receive, FlushAndWaitReturns, flushVars, histVars
  <2>2. \/ pc[t] \in Fresh /\ \E v : pc' = [pc EXCEPT ![t] = v]
        \/ pc' = [pc EXCEPT ![t] = "ok"] \/ pc' = [pc EXCEPT ![t] = "error"]
    BY <1>1 DEF CheckClosed, QueueFull, Receive, FlushAndWaitReturns, Fresh
  <2>3. \A u \in Tasks : pc'[u] \in Fresh => pc[u] \in Fresh
    BY <2>2 DEF TypeOK, Fresh
  <2> QED BY <2>1, <2>3, OrderFrame
<1>2. ASSUME NEW t \in Tasks, SendTask(t) PROVE OrderInv' /\ TS!Next
  BY <1>2, OrderSend DEF TS!Next
<1>3. ASSUME NEW f \in Flushers, NEW last \in BOOLEAN,
             FlushBegin(f, last) \/ FlushEmpty(f, last)
      PROVE  OrderInv' /\ UNCHANGED avars
  <2>1. CASE FlushBegin(f, last) BY <2>1, OrderFlush
  <2>2. CASE FlushEmpty(f, last)
    <3>1. /\ UNCHANGED <<accepted, queue, flushMu, stage, batch, committed, failed>>
          /\ \A t \in Tasks : pc'[t] \in Fresh => pc[t] \in Fresh
      BY <2>2 DEF FlushEmpty, histVars, Fresh
    <3> QED BY <3>1, OrderFrame
  <2> QED BY <1>3, <2>1, <2>2
<1>4. ASSUME NEW f \in Flushers, BeginTx(f) \/ Abort(f) \/ CompleteCommitted(f)
      PROVE  OrderInv' /\ UNCHANGED avars
  BY <1>4, OrderMove, OrderComplete
<1>5. ASSUME NEW f \in Flushers, Commit(f) \/ CompleteAborted(f) PROVE OrderInv' /\ TS!Next
  BY <1>5, OrderCommit, OrderAbort DEF TS!Next
<1>6. CASE CloseMark \/ CloseStop \/ CloseDb \/ UNCHANGED vars
  <2>1. UNCHANGED <<accepted, queue, flushMu, stage, batch, committed, failed, pc>>
    BY <1>6 DEF CloseMark, CloseStop, CloseDb, vars, callVars, flushVars, histVars
  <2> QED BY <2>1, OrderFrame
<1> QED BY <1>1, <1>2, <1>3, <1>4, <1>5, <1>6 DEF Next, CallerStep, FlushStep

\* The queue, its flushers and their transactions implement the abstract store
\* for any number of callers and flushers: one order, each task once or not at
\* all, and a failure takes all that is outstanding (store.go:120-211).
THEOREM ImplementsTaskStore == Spec => AtomicTasks
<1>1. Init => OrderInv /\ TS!Init
  <2> SUFFICES ASSUME Init PROVE OrderInv /\ TS!Init
    OBVIOUS
  <2>1. Live = <<>> /\ accepted = <<>> /\ queue = <<>>
        /\ committed \cup failed = {} /\ Elems(accepted) = {}
    BY ElemsEmpty DEF Init, Live
  <2>2. Ordered(accepted, Live, queue, committed \cup failed)
    BY <2>1 DEF Ordered, Offset
  <2> QED BY <2>1, <2>2 DEF Init, OrderInv, TS!Init
<1> QED BY <1>1, OrderStep, TypeCorrect, WriterInvariant, PTL
        DEF Spec, AtomicTasks, TS!Spec, avars

-----------------------------------------------------------------------------
(* The CSV exporter (MasterLog).                                           *)

LEMMA WriteLinesType ==
  ASSUME LogTypeOK, NEW lines \in Int, WriteLines(lines)
  PROVE  headers' \in Nat /\ readable' \subseteq 1..MaxRows /\ glued' \subseteq 1..MaxRows
<1>1. HeaderLines \in {0, 1}
  BY DEF HeaderLines
<1>2. headers \in Nat /\ headers' = headers + (IF lines > 0 THEN HeaderLines ELSE 0)
  BY DEF LogTypeOK, WriteLines
<1>3. headers' \in Nat
  BY <1>1, <1>2
<1>4. /\ readable' \subseteq readable \cup (lastId + 1)..top
      /\ glued' \subseteq glued \cup (lastId + 1)..top
  BY DEF WriteLines
<1>5. /\ lastId \in Nat /\ top \in 0..MaxRows
      /\ readable \subseteq 1..MaxRows /\ glued \subseteq 1..MaxRows
  BY MasterAssumption DEF LogTypeOK
<1>6. readable' \subseteq 1..MaxRows /\ glued' \subseteq 1..MaxRows
  BY <1>4, <1>5, MasterAssumption
<1> QED BY <1>3, <1>6

LEMMA LogTypeOKStep == LogTypeOK /\ [LogNext]_logVars => LogTypeOK'
<1> SUFFICES ASSUME LogTypeOK, [LogNext]_logVars PROVE LogTypeOK'
  OBVIOUS
<1> USE MasterAssumption DEF dbVars, csvVars, exportVars
<1>1. ASSUME NEW k \in 1..MaxRows, InsertPoints(k) PROVE LogTypeOK'
  BY <1>1 DEF LogTypeOK, InsertPoints
<1>2. CASE StartExport \/ ReadCursor \/ ReadRows \/ NothingToExport
  BY <1>2 DEF LogTypeOK, StartExport, ReadCursor, ReadRows, NothingToExport
<1>3. CASE AppendRows
  <2>1. export = "append" /\ WriteLines(HeaderLines + top - lastId)
    BY <1>3 DEF AppendRows
  <2>2. HeaderLines + top - lastId \in Int
    BY DEF HeaderLines, LogTypeOK
  <2>3. headers' \in Nat /\ readable' \subseteq 1..MaxRows /\ glued' \subseteq 1..MaxRows
    BY <2>1, <2>2, WriteLinesType
  <2> QED BY <1>3, <2>3 DEF LogTypeOK, AppendRows
<1>4. ASSUME NEW lines \in 0..MaxRows, NEW inside \in BOOLEAN, CutAppend(lines, inside)
      PROVE LogTypeOK'
  <2>1. headers' \in Nat /\ readable' \subseteq 1..MaxRows /\ glued' \subseteq 1..MaxRows
    BY <1>4, WriteLinesType DEF CutAppend
  <2>2. file' \in {"empty", "clean", "torn"} /\ tears' \in Nat /\ headCut' \in BOOLEAN
    BY <1>4 DEF CutAppend, Tear, LogTypeOK
  <2> QED BY <1>4, <2>1, <2>2 DEF LogTypeOK, CutAppend
<1>5. CASE AdvanceCursor \/ TouchCursor
  BY <1>5 DEF LogTypeOK, AdvanceCursor, TouchCursor
<1>6. CASE QueryFails
  BY <1>6 DEF LogTypeOK, QueryFails
<1>7. CASE Crash
  <2>1. crashes' \in 0..MaxCrashes /\ lastId' \in 0..MaxRows /\ top' \in 0..MaxRows
    BY <1>7 DEF LogTypeOK, Crash
  <2>2. touches' \in BOOLEAN
    BY <1>7 DEF Crash
  <2> QED BY <1>7, <2>1, <2>2 DEF LogTypeOK, Crash
<1>8. CASE UNCHANGED logVars
  BY <1>8 DEF LogTypeOK, logVars
<1> QED BY <1>1, <1>2, <1>3, <1>4, <1>5, <1>6, <1>7, <1>8 DEF LogNext, ExportStep

\* Every variable keeps its type (masterlog.go:118-185).
THEOREM LogTypeCorrect == LogSpec => []LogTypeOK
<1>1. LogInit => LogTypeOK
  <2> SUFFICES ASSUME LogInit PROVE LogTypeOK
    OBVIOUS
  <2>1. touches \in BOOLEAN
    BY DEF LogInit
  <2>2. 0 \in 0..MaxRows /\ 0 \in 0..MaxFaults /\ 0 \in 0..MaxCrashes
    BY MasterAssumption
  <2> QED BY <2>1, <2>2 DEF LogInit, LogTypeOK
<1> QED BY <1>1, LogTypeOKStep, PTL DEF LogSpec

-----------------------------------------------------------------------------
(* What the exporter's local variables mean at each of its steps.          *)

ExportInv ==
  /\ cursor <= points
  /\ export \in {"rows", "append", "advance"} => lastId = cursor
  /\ export \in {"append", "advance"} => cursor < top /\ top <= points

LEMMA ExportInvStep == LogTypeOK /\ ExportInv /\ [LogNext]_logVars => ExportInv'
<1> SUFFICES ASSUME LogTypeOK, ExportInv, [LogNext]_logVars PROVE ExportInv'
  OBVIOUS
<1> USE MasterAssumption DEF dbVars, csvVars, exportVars
<1>1. ASSUME NEW k \in 1..MaxRows, InsertPoints(k) PROVE ExportInv'
  BY <1>1 DEF LogTypeOK, ExportInv, InsertPoints
<1>2. CASE StartExport \/ ReadCursor \/ ReadRows \/ NothingToExport \/ AppendRows
  BY <1>2 DEF LogTypeOK, ExportInv, StartExport, ReadCursor, ReadRows, NothingToExport, AppendRows
<1>3. ASSUME NEW lines \in 0..MaxRows, NEW inside \in BOOLEAN, CutAppend(lines, inside)
      PROVE ExportInv'
  BY <1>3 DEF ExportInv, CutAppend
<1>4. CASE AdvanceCursor \/ TouchCursor \/ QueryFails \/ Crash \/ UNCHANGED logVars
  BY <1>4 DEF ExportInv, AdvanceCursor, TouchCursor, QueryFails, Crash, logVars
<1> QED BY <1>1, <1>2, <1>3, <1>4 DEF LogNext, ExportStep

LEMMA ExportInvariant == LogSpec => []ExportInv
<1>1. LogInit => ExportInv
  BY DEF LogInit, ExportInv
<1> QED BY <1>1, LogTypeCorrect, ExportInvStep, PTL DEF LogSpec

\* The committed cursor never moves back, whatever crashes between the steps of
\* an export and whenever a queued touchCursor runs (masterlog.go:172-229).
THEOREM CursorMonotone == LogSpec => CursorNeverRewinds
<1>1. LogTypeOK /\ ExportInv /\ [LogNext]_logVars => [cursor' >= cursor]_logVars
  <2> SUFFICES ASSUME LogTypeOK, ExportInv, LogNext PROVE cursor' >= cursor
    BY DEF logVars
  <2>1. cursor \in Nat /\ (export = "advance" => top \in Nat /\ cursor < top)
    BY MasterAssumption DEF LogTypeOK, ExportInv
  <2>2. CASE AdvanceCursor
    BY <2>1, <2>2 DEF AdvanceCursor
  <2>3. CASE cursor' = cursor
    BY <2>1, <2>3
  <2> QED BY <2>2, <2>3 DEF LogNext, ExportStep, InsertPoints, StartExport, ReadCursor, ReadRows,
            NothingToExport, TouchCursor, AppendRows, CutAppend, QueryFails, Crash, dbVars
<1> QED BY <1>1, LogTypeCorrect, ExportInvariant, PTL DEF LogSpec, CursorNeverRewinds

-----------------------------------------------------------------------------
(* Nothing is skipped but the lines of fragments, and each of those is paid *)
(* for by a cut: a fragment at the end of the file has not spoilt its row   *)
(* yet.                                                                     *)

SkipInv ==
  /\ 1..cursor \subseteq readable \cup glued
  /\ export = "advance" => (cursor + 1)..top \subseteq readable \cup glued
  /\ IsFiniteSet(glued)
  /\ Cardinality(glued) + (IF file = "torn" THEN 1 ELSE 0) <= tears
  /\ headers = IF file = "empty" \/ headCut THEN 0 ELSE 1
  /\ file = "empty" => ~headCut

\* Writing lines loses nothing that was there and spoils at most the one row
\* behind a fragment; the rest of the lines is readable.
LEMMA WriteLinesInv ==
  ASSUME LogTypeOK, SkipInv, NEW lines \in Int, WriteLines(lines)
  PROVE  /\ readable \subseteq readable' /\ glued \subseteq glued'
         /\ \A i \in (lastId + 1)..top :
              i - lastId + HeaderLines <= lines => i \in readable' \cup glued'
         /\ IsFiniteSet(glued') /\ Cardinality(glued') \in Nat /\ Cardinality(glued) \in Nat
         /\ Cardinality(glued') <= Cardinality(glued) + (IF file = "torn" THEN 1 ELSE 0)
         /\ file = "torn" /\ lines <= 0 => glued' = glued
<1> DEFINE got == {i \in (lastId + 1)..top : i - lastId + HeaderLines <= lines}
           spoilt == IF file = "torn" THEN got \cap {lastId + 1} ELSE {}
<1>1. /\ readable' = readable \cup (got \ spoilt) /\ glued' = glued \cup spoilt
      /\ HeaderLines \in {0, 1} /\ (HeaderLines = 1 <=> file = "empty")
      /\ lastId \in Nat /\ top \in Nat
  BY MasterAssumption DEF WriteLines, HeaderLines, LogTypeOK
<1>2. spoilt \subseteq got /\ (spoilt = {} \/ (spoilt = {lastId + 1} /\ file = "torn"))
  OBVIOUS
<1>3. IsFiniteSet(glued) /\ Cardinality(glued) \in Nat
  BY FS_CardinalityType DEF SkipInv
<1>4. /\ IsFiniteSet(glued \cup {lastId + 1})
      /\ Cardinality(glued \cup {lastId + 1}) \in {Cardinality(glued), Cardinality(glued) + 1}
  BY <1>3, FS_AddElement
<1>5. /\ IsFiniteSet(glued') /\ Cardinality(glued') \in Nat
      /\ Cardinality(glued') <= Cardinality(glued) + (IF file = "torn" THEN 1 ELSE 0)
  <2>1. CASE spoilt = {}
    <3>1. glued' = glued
      BY <1>1, <2>1
    <3> QED BY <1>3, <3>1
  <2>2. CASE spoilt = {lastId + 1} /\ file = "torn"
    <3>1. glued' = glued \cup {lastId + 1}
      BY <1>1, <2>2
    <3> HIDE DEF spoilt
    <3> QED BY <1>3, <1>4, <2>2, <3>1
  <2> QED BY <1>2, <2>1, <2>2
<1>6. \A i \in (lastId + 1)..top :
        i - lastId + HeaderLines <= lines => i \in readable' \cup glued'
  BY <1>1
<1>7. file = "torn" /\ lines <= 0 => glued' = glued
  <2>1. lines <= 0 => got = {}
    BY <1>1
  <2> QED BY <1>1, <2>1
<1> QED BY <1>1, <1>3, <1>5, <1>6, <1>7

LEMMA SkipInvStep ==
  LogTypeOK /\ ExportInv /\ SkipInv /\ [LogNext]_logVars => SkipInv'
<1> SUFFICES ASSUME LogTypeOK, ExportInv, SkipInv, [LogNext]_logVars PROVE SkipInv'
  OBVIOUS
<1>0. tears \in Nat /\ headCut \in BOOLEAN /\ headers \in Nat
  BY DEF LogTypeOK
<1>1. CASE AppendRows
  <2>1. /\ export = "append" /\ WriteLines(HeaderLines + top - lastId)
        /\ file' = "clean" /\ UNCHANGED <<cursor, top, tears, headCut>>
    BY <1>1 DEF AppendRows, dbVars
  <2>2. lastId = cursor /\ cursor < top /\ cursor \in Nat /\ top \in Nat
    BY <2>1, MasterAssumption DEF ExportInv, LogTypeOK
  <2>3. HeaderLines \in {0, 1} /\ (HeaderLines = 1 <=> file = "empty")
    BY DEF HeaderLines
  <2>4. HeaderLines + top - lastId \in Int
    BY <2>2, <2>3
  <2>5. /\ readable \subseteq readable' /\ glued \subseteq glued'
        /\ \A i \in (lastId + 1)..top :
             i - lastId + HeaderLines <= HeaderLines + top - lastId
               => i \in readable' \cup glued'
        /\ IsFiniteSet(glued') /\ Cardinality(glued') \in Nat /\ Cardinality(glued) \in Nat
        /\ Cardinality(glued') <= Cardinality(glued) + (IF file = "torn" THEN 1 ELSE 0)
    BY <2>1, <2>4, WriteLinesInv
  <2>6. (cursor' + 1)..top' \subseteq readable' \cup glued'
    BY <2>1, <2>2, <2>3, <2>5
  <2>7. 1..cursor' \subseteq readable' \cup glued'
    BY <2>1, <2>5 DEF SkipInv
  <2>8. Cardinality(glued') <= tears'
    BY <1>0, <2>1, <2>5 DEF SkipInv
  <2>9. headers' = IF headCut' THEN 0 ELSE 1
    BY <1>0, <2>1, <2>2, <2>3 DEF WriteLines, SkipInv
  <2> QED BY <1>0, <2>1, <2>5, <2>6, <2>7, <2>8, <2>9 DEF SkipInv
<1>2. ASSUME NEW lines \in 0..MaxRows, NEW inside \in BOOLEAN, CutAppend(lines, inside)
      PROVE SkipInv'
  <2>1. /\ WriteLines(lines) /\ Tear(lines, inside) /\ export' = "idle" /\ UNCHANGED cursor
    BY <1>2 DEF CutAppend, dbVars
  <2>2. /\ readable \subseteq readable' /\ glued \subseteq glued'
        /\ IsFiniteSet(glued') /\ Cardinality(glued') \in Nat /\ Cardinality(glued) \in Nat
        /\ Cardinality(glued') <= Cardinality(glued) + (IF file = "torn" THEN 1 ELSE 0)
        /\ file = "torn" /\ lines <= 0 => glued' = glued
    BY <2>1, WriteLinesInv
  <2>3. Cardinality(glued') + (IF file' = "torn" THEN 1 ELSE 0) <= tears'
    <3>1. /\ file' = IF inside THEN "torn" ELSE IF lines > 0 THEN "clean" ELSE file
          /\ tears' = tears + (IF inside THEN 1 ELSE 0)
      BY <2>1 DEF Tear
    <3>2. Cardinality(glued) + (IF file = "torn" THEN 1 ELSE 0) <= tears
      BY DEF SkipInv
    <3>3. CASE inside
      BY <1>0, <2>2, <3>1, <3>2, <3>3
    <3>4. CASE ~inside /\ lines > 0
      BY <1>0, <2>2, <3>1, <3>2, <3>4
    <3>5. CASE ~inside /\ ~(lines > 0)
      <4>1. file' = file /\ tears' = tears /\ lines <= 0
        BY <1>0, <3>1, <3>5
      <4>2. CASE file = "torn"
        BY <1>0, <2>2, <3>2, <4>1, <4>2
      <4>3. CASE file # "torn"
        BY <1>0, <2>2, <3>2, <4>1, <4>3
      <4> QED BY <4>2, <4>3
    <3> QED BY <3>3, <3>4, <3>5
  <2>4. headers' = IF file' = "empty" \/ headCut' THEN 0 ELSE 1
    BY <1>0, <2>1, MasterAssumption DEF WriteLines, Tear, HeaderLines, SkipInv
  <2>5. file' = "empty" => ~headCut'
    BY <1>0, <2>1, MasterAssumption DEF Tear, SkipInv
  <2>6. 1..cursor' \subseteq readable' \cup glued'
    BY <2>1, <2>2 DEF SkipInv
  <2> QED BY <2>1, <2>2, <2>3, <2>4, <2>5, <2>6 DEF SkipInv
<1>3. CASE AdvanceCursor
  <2>1. export = "advance" /\ cursor' = top /\ export' = "idle" /\ UNCHANGED csvVars
    BY <1>3 DEF AdvanceCursor
  <2>2. cursor \in Nat /\ top \in Nat /\ 1..cursor \subseteq readable \cup glued
        /\ (cursor + 1)..top \subseteq readable \cup glued
    BY <2>1, MasterAssumption DEF LogTypeOK, SkipInv
  <2>3. 1..top \subseteq readable \cup glued
    BY <2>2
  <2> QED BY <2>1, <2>3 DEF SkipInv, csvVars
<1>4. ASSUME NEW k \in 1..MaxRows, InsertPoints(k) PROVE SkipInv'
  BY <1>4 DEF SkipInv, InsertPoints, csvVars, exportVars
<1>5. CASE \/ StartExport \/ ReadCursor \/ ReadRows \/ NothingToExport
           \/ TouchCursor \/ QueryFails \/ Crash \/ UNCHANGED logVars
  BY <1>5 DEF SkipInv, StartExport, ReadCursor, ReadRows, NothingToExport,
     TouchCursor, QueryFails, Crash, logVars, dbVars, csvVars, exportVars
<1> QED BY <1>1, <1>2, <1>3, <1>4, <1>5 DEF LogNext, ExportStep

LEMMA SkipInvariant == LogSpec => []SkipInv
<1>1. LogInit => SkipInv
  <2>1. IsFiniteSet({}) /\ Cardinality({}) = 0
    BY FS_EmptySet
  <2> QED BY <2>1 DEF LogInit, SkipInv
<1> QED BY <1>1, LogTypeCorrect, ExportInvariant, SkipInvStep, PTL DEF LogSpec

\* Whatever fails, wherever an append is cut and whenever the process restarts,
\* a row the cursor has passed is readable in the CSV or shares the line of a
\* fragment, one row for each cut inside a line (masterlog.go:112-213).
THEOREM NothingElseSkipped == LogSpec => []SkipsAreTorn
<1>1. LogTypeOK /\ SkipInv => SkipsAreTorn
  <2> SUFFICES ASSUME LogTypeOK, SkipInv PROVE SkipsAreTorn
    OBVIOUS
  <2>1. Cardinality(glued) \in Nat /\ tears \in Nat
    BY FS_CardinalityType DEF SkipInv, LogTypeOK
  <2> QED BY <2>1 DEF SkipInv, SkipsAreTorn
<1> QED BY <1>1, LogTypeCorrect, SkipInvariant, PTL

\* A file with content has one header, or none if its very line was cut
\* (masterlog.go:194-206).
THEOREM HeaderWrittenOnce == LogSpec => []HeaderOnce
<1>1. SkipInv => HeaderOnce
  BY DEF SkipInv, HeaderOnce
<1> QED BY <1>1, SkipInvariant, PTL
=============================================================================
