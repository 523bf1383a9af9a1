----------------------------- MODULE StoreWriter -----------------------------
(***************************************************************************)
(* The store's single-writer queue (store/store.go): callers enqueue       *)
(* tasks on a bounded channel, whoever holds flushMu drains it into one    *)
(* transaction, and completeBatch answers every task.  Close marks the     *)
(* store closed, releases the write loop and closes the database.          *)
(*                                                                         *)
(* A caller issues one task and is identified with it.  Submitters use     *)
(* Submit and receive (masterlog.go query, the exporter's reads), Savers   *)
(* use Enqueue and FlushAndWait (hedge.go AddPosition, DeletePosition),    *)
(* Posters use Enqueue and forget (UpsertContracts, SaveSnapshot, ...).    *)
(***************************************************************************)
EXTENDS Naturals, Sequences, FiniteSets

CONSTANTS
  Submitters, Savers, Posters,
  WriteLoop,    \* the writer goroutine
  None,         \* nobody, no answer
  QueueDepth,   \* capacity of the tasks channel (4096)
  BatchRows,    \* defaultBatchRows (10000)
  MaxFailures,  \* bound: transactions that fail while the database is open
  MayClose      \* whether Close is called

Tasks == Submitters \cup Savers \cup Posters
Flushers == Savers \cup {WriteLoop}

ASSUME StoreAssumption ==
  /\ Submitters \cap Savers = {} /\ Posters \cap (Submitters \cup Savers) = {}
  /\ WriteLoop \notin Tasks /\ None \notin Tasks \cup {WriteLoop, "nil", "err"}
  /\ QueueDepth \in Nat \ {0} /\ BatchRows \in Nat /\ QueueDepth <= BatchRows
  /\ MaxFailures \in Nat /\ MayClose \in BOOLEAN

VARIABLES
  closed, stopCh,  \* Store.closed, stopCh has been closed
  dbOpen,          \* Store.db
  loop,            \* writeLoop: "loop", in its last flush, or "exited"
  queue,           \* the tasks channel
  flushMu,         \* holder of flushMu, None when free
  stage, batch,    \* flush() of each flusher: where it is and what it took
  pc,              \* control state of each caller
  reply,           \* the buffered done channel of each task
  failures,        \* bounded counter
  accepted,        \* history: tasks in the order the channel took them
  committed, failed  \* history: tasks whose transaction committed, was abandoned

callVars == <<pc, reply>>
flushVars == <<flushMu, stage, batch, loop>>
histVars == <<accepted, committed, failed>>
vars == <<closed, stopCh, dbOpen, queue, callVars, flushVars, failures, histVars>>

Stages == {"idle", "drained", "tx", "committed", "aborted"}
PCs == {"start", "send", "await", "flush", "poll", "ok", "error", "refused"}

Elems(s) == {s[i] : i \in 1..Len(s)}

TypeOK ==
  /\ closed \in BOOLEAN /\ stopCh \in BOOLEAN /\ dbOpen \in BOOLEAN
  /\ loop \in {"loop", "final", "exited"}
  /\ queue \in Seq(Tasks) /\ Len(queue) <= QueueDepth
  /\ flushMu \in Flushers \cup {None}
  /\ stage \in [Flushers -> Stages] /\ batch \in [Flushers -> Seq(Tasks)]
  /\ pc \in [Tasks -> PCs] /\ reply \in [Tasks -> {None, "nil", "err"}]
  /\ failures \in Nat
  /\ accepted \in Seq(Tasks) /\ committed \subseteq Tasks /\ failed \subseteq Tasks

Init ==
  /\ closed = FALSE /\ stopCh = FALSE /\ dbOpen = TRUE /\ loop = "loop"
  /\ queue = <<>> /\ flushMu = None
  /\ stage = [f \in Flushers |-> "idle"] /\ batch = [f \in Flushers |-> <<>>]
  /\ pc = [t \in Tasks |-> "start"] /\ reply = [t \in Tasks |-> None]
  /\ failures = 0
  /\ accepted = <<>> /\ committed = {} /\ failed = {}

-----------------------------------------------------------------------------
(* enqueue: the closed flag is read under mu, the send happens outside it. *)

CheckClosed(t) ==
  /\ pc[t] = "start"
  /\ pc' = [pc EXCEPT ![t] = IF closed THEN "refused" ELSE "send"]
  /\ UNCHANGED <<closed, stopCh, dbOpen, queue, reply, flushVars, failures, histVars>>

AfterSend(t) == IF t \in Submitters THEN "await" ELSE IF t \in Savers THEN "flush" ELSE "ok"

\* Mutant: the channel is unbounded.
SendTaskUnbounded(t) ==
  /\ pc[t] = "send"
  /\ queue' = Append(queue, t)
  /\ accepted' = Append(accepted, t)
  /\ pc' = [pc EXCEPT ![t] = AfterSend(t)]
  /\ UNCHANGED <<closed, stopCh, dbOpen, reply, flushVars, failures, committed, failed>>

SendTask(t) ==
  /\ pc[t] = "send" /\ Len(queue) < QueueDepth
  /\ queue' = Append(queue, t)
  /\ accepted' = Append(accepted, t)
  /\ pc' = [pc EXCEPT ![t] = AfterSend(t)]
  /\ UNCHANGED <<closed, stopCh, dbOpen, reply, flushVars, failures, committed, failed>>

QueueFull(t) ==
  /\ pc[t] = "send" /\ Len(queue) = QueueDepth
  /\ pc' = [pc EXCEPT ![t] = "refused"]
  /\ UNCHANGED <<closed, stopCh, dbOpen, queue, reply, flushVars, failures, histVars>>

\* query(): <-ch
Receive(t) ==
  /\ pc[t] = "await" /\ reply[t] # None
  /\ pc' = [pc EXCEPT ![t] = IF reply[t] = "nil" THEN "ok" ELSE "error"]
  /\ UNCHANGED <<closed, stopCh, dbOpen, queue, reply, flushVars, failures, histVars>>

-----------------------------------------------------------------------------
(* flush, called by the write loop on a tick, by the write loop once more  *)
(* after stopCh (last), and by FlushAndWait.                               *)

WantsFlush(f, last) ==
  /\ f \in Savers => pc[f] = "flush" /\ ~last
  /\ f = WriteLoop => loop = "loop" /\ (last => stopCh)

\* Mutant: flush no longer waits for flushMu.
LockNotTaken == TRUE

\* flushMu.Lock() returns
LockFree == flushMu = None

FlushBegin(f, last) ==
  LET n == IF Len(queue) > BatchRows THEN BatchRows ELSE Len(queue) IN
  /\ LockFree /\ stage[f] = "idle" /\ WantsFlush(f, last) /\ queue # <<>>
  /\ flushMu' = f
  /\ batch' = [batch EXCEPT ![f] = SubSeq(queue, 1, n)]
  /\ queue' = SubSeq(queue, n + 1, Len(queue))
  /\ stage' = [stage EXCEPT ![f] = "drained"]
  /\ loop' = IF last THEN "final" ELSE loop
  /\ UNCHANGED <<closed, stopCh, dbOpen, callVars, failures, histVars>>

\* An empty queue ends the flush at once; a plain tick then changes nothing.
FlushEmpty(f, last) ==
  /\ LockFree /\ stage[f] = "idle" /\ WantsFlush(f, last) /\ queue = <<>>
  /\ f \in Savers \/ last
  /\ pc' = [t \in Tasks |-> IF t = f THEN "poll" ELSE pc[t]]
  /\ loop' = IF last THEN "exited" ELSE loop
  /\ UNCHANGED <<closed, stopCh, dbOpen, queue, reply, flushMu, stage, batch, failures, histVars>>

BeginTx(f) ==
  /\ stage[f] = "drained" /\ dbOpen
  /\ stage' = [stage EXCEPT ![f] = "tx"]
  /\ UNCHANGED <<closed, stopCh, dbOpen, queue, callVars, flushMu, batch, loop, failures, histVars>>

\* Every task of the batch ran and the commit succeeded.
Commit(f) ==
  /\ stage[f] = "tx"
  /\ stage' = [stage EXCEPT ![f] = "committed"]
  /\ committed' = committed \cup Elems(batch[f])
  /\ UNCHANGED <<closed, stopCh, dbOpen, queue, callVars, flushMu, batch, loop, failures,
                 accepted, failed>>

\* Begin failed, a task returned an error (Rollback), or the commit failed.
Abort(f) ==
  /\ \/ stage[f] = "drained" /\ ~dbOpen /\ UNCHANGED failures
     \/ /\ stage[f] \in {"drained", "tx"} /\ failures < MaxFailures
        /\ failures' = failures + 1
  /\ stage' = [stage EXCEPT ![f] = "aborted"]
  /\ UNCHANGED <<closed, stopCh, dbOpen, queue, callVars, flushMu, batch, loop, histVars>>

Notify(set, answer) ==
  reply' = [t \in Tasks |-> IF t \in set \cap Submitters THEN answer ELSE reply[t]]

\* The flush returns: flushMu is free again.
FlushReturns(f) ==
  /\ flushMu' = None
  /\ stage' = [stage EXCEPT ![f] = "idle"]
  /\ batch' = [batch EXCEPT ![f] = <<>>]
  /\ pc' = [t \in Tasks |-> IF t = f THEN "poll" ELSE pc[t]]
  /\ loop' = IF f = WriteLoop /\ loop = "final" THEN "exited" ELSE loop
  /\ UNCHANGED <<closed, stopCh, dbOpen, failures, accepted, committed>>

CompleteCommitted(f) ==
  /\ stage[f] = "committed"
  /\ Notify(Elems(batch[f]), "nil")
  /\ FlushReturns(f)
  /\ UNCHANGED <<queue, failed>>

\* Mutant: the drained backlog is dropped without an answer.
CompleteAbortedSilently(f) ==
  /\ stage[f] = "aborted"
  /\ Notify(Elems(batch[f]), "err")
  /\ failed' = failed \cup Elems(batch[f]) \cup Elems(queue)
  /\ queue' = <<>>
  /\ FlushReturns(f)

\* Mutant: the tasks drained behind the failed batch are answered nil.
CompleteAbortedDrainsNil(f) ==
  /\ stage[f] = "aborted"
  /\ reply' = [t \in Tasks |-> IF t \in Elems(batch[f]) \cap Submitters THEN "err"
                              ELSE IF t \in Elems(queue) \cap Submitters THEN "nil" ELSE reply[t]]
  /\ failed' = failed \cup Elems(batch[f]) \cup Elems(queue)
  /\ queue' = <<>>
  /\ FlushReturns(f)

\* Fault-stop: the whole backlog fails with the batch.
CompleteAborted(f) ==
  /\ stage[f] = "aborted"
  /\ Notify(Elems(batch[f]) \cup Elems(queue), "err")
  /\ failed' = failed \cup Elems(batch[f]) \cup Elems(queue)
  /\ queue' = <<>>
  /\ FlushReturns(f)

\* FlushAndWait returns once it has seen the queue empty, or after five
\* seconds; AddPosition then reports the row as stored.
FlushAndWaitReturns(t) ==
  /\ pc[t] = "poll"
  /\ pc' = [pc EXCEPT ![t] = "ok"]
  /\ UNCHANGED <<closed, stopCh, dbOpen, queue, reply, flushVars, failures, histVars>>

-----------------------------------------------------------------------------
(* Close.                                                                  *)

CloseMark ==
  /\ MayClose /\ ~closed
  /\ closed' = TRUE
  /\ UNCHANGED <<stopCh, dbOpen, queue, callVars, flushVars, failures, histVars>>

CloseStop ==
  /\ closed /\ ~stopCh
  /\ stopCh' = TRUE
  /\ UNCHANGED <<closed, dbOpen, queue, callVars, flushVars, failures, histVars>>

CloseDb ==
  /\ loop = "exited" /\ dbOpen
  /\ dbOpen' = FALSE
  /\ UNCHANGED <<closed, stopCh, queue, callVars, flushVars, failures, histVars>>

CallerStep(t) ==
  CheckClosed(t) \/ SendTask(t) \/ QueueFull(t) \/ Receive(t) \/ FlushAndWaitReturns(t)

FlushStep(f) ==
  \/ \E last \in BOOLEAN : FlushBegin(f, last) \/ FlushEmpty(f, last)
  \/ BeginTx(f) \/ Commit(f) \/ Abort(f) \/ CompleteCommitted(f) \/ CompleteAborted(f)

Next ==
  \/ \E t \in Tasks : CallerStep(t)
  \/ \E f \in Flushers : FlushStep(f)
  \/ CloseMark \/ CloseStop \/ CloseDb

Spec == Init /\ [][Next]_vars

\* The ticker fires every 50 ms, goroutines run, and Close, once called, goes on.
\* A lock that is free again and again is eventually taken by each who waits.
FairSpec ==
  /\ Spec
  /\ \A t \in Tasks : WF_vars(CallerStep(t))
  /\ \A f \in Flushers : SF_vars(FlushStep(f))
  /\ WF_vars(CloseStop) /\ WF_vars(CloseDb)

-----------------------------------------------------------------------------
(* Properties.                                                             *)

Held == Elems(queue) \cup UNION {Elems(batch[f]) : f \in Flushers}

\* Submit's channel tells the truth (store.go:220-222): nil only for a task
\* whose transaction committed, an error only for one that will never commit,
\* also for tasks failed by a batch-mate or drained behind it.
ReplyHonest ==
  \A t \in Submitters : /\ reply[t] = "nil" => t \in committed
                        /\ reply[t] = "err" => t \notin committed

\* Nobody waits on an answer that no one owes: a Submit caller blocked on its
\* channel has its task in the queue or in the batch of a running flush
\* (store.go:120-125: "every task notified through its done channel").
NoOrphanWaiter ==
  \A t \in Submitters : pc[t] = "await" /\ reply[t] = None => t \in Held

TS == INSTANCE TaskStore WITH log <- accepted, applied <- committed, lost <- failed

\* The queue, its flushers and their transactions implement the abstract store:
\* tasks take effect once, in the order the channel took them, whoever flushes,
\* and a failed batch takes all that is outstanding with it and nothing that
\* took effect (store.go:120-125; a contract row precedes the computation rows
\* that reference it).
AtomicTasks == TS!Spec

\* When FlushAndWait returns, its caller's own task is over, although the task
\* may have been taken by a flush of the write loop still under way
\* (store.go:44, flushMu; hedge.go:56 "report it only once durable").
SaverTaskOver ==
  \A t \in Savers : pc[t] \in {"poll", "ok"} => t \in committed \cup failed

\* While the store is open every accepted Submit is answered, although batches
\* fail and other flushers hold flushMu (store.go:126-211).
AnsweredWhileOpen ==
  \A t \in Submitters : pc[t] = "await" ~> (pc[t] \in {"ok", "error"} \/ closed)

\* Every accepted Submit is answered: "one buffered value, nil on commit, the
\* task error ... on failure" (store.go:220-222), also across Close.
Answered == \A t \in Submitters : pc[t] = "await" ~> pc[t] \in {"ok", "error"}

\* "the id must be durable before the caller reports it" (hedge.go:36): a saver
\* that reports success has its row committed.
DurableHonest == \A t \in Savers : pc[t] = "ok" => t \in committed
=============================================================================
