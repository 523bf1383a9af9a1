---------------------------- MODULE ServeShutdown ----------------------------
(***************************************************************************)
(* How gexctl serve stops (cmd/gexctl/serve.go, edge.go): a signal cancels *)
(* the context; the main goroutine drains HTTP, closes the edge server and *)
(* then the service, while the stack's own goroutine closes the edge       *)
(* server too and then the journal.  Server.Close (edge/server.go) waits   *)
(* on a WaitGroup that counts the accept loop and the connection handlers. *)
(* Each handler journals a line and then dispatches it (journal.go), also  *)
(* when the write failed, which is only logged; the core's Run loop        *)
(* flushes what was dispatched until the context ends.  A line is its      *)
(* connection and its number there.                                        *)
(***************************************************************************)
EXTENDS Integers, FiniteSets

CONSTANTS
  Remote,     \* connections of edge processes
  InProcess,  \* connections of the built-in edge simulator
  MaxLines,         \* bound: lines an edge sends
  MaxWriteFailures  \* bound: journal writes that fail

Edges == Remote \cup InProcess

ASSUME ShutdownAssumption ==
  /\ IsFiniteSet(Remote) /\ IsFiniteSet(InProcess)
  /\ MaxLines \in Nat /\ MaxWriteFailures \in Nat
  /\ {"accept", "exited"} \cap Edges = {}

VARIABLES
  signalled,  \* ctx is done
  main,       \* the main goroutine
  watcher,    \* the goroutine that waits for ctx.Done() in startEdgeStack
  done,       \* Server.done is closed and so is the listener
  wg,         \* Server.wg
  acc,        \* acceptLoop: in Accept, exited, or the connection it just accepted
  up,         \* the edge's end of each connection is open
  h,          \* the core's end: none, in the backlog, its handler
  journaled,  \* lines that can be read back from the journal
  dispatched, \* lines of each connection that were dispatched
  journalOpen,
  torn,       \* the journal ends in a part of a line
  spoilt,     \* history: lines whose write failed on the open journal, or that
              \* were written behind the part such a write left
  writeFailures,  \* bounded counter
  unflushed,  \* something was dispatched after the last FlushAll
  running     \* Core.Run has not returned

serverVars == <<done, wg, acc, up, h>>
journalVars == <<journaled, journalOpen, torn, spoilt, writeFailures>>
lineVars == <<journalVars, dispatched, unflushed, running>>
vars == <<signalled, main, watcher, serverVars, lineVars>>

Handled == {e \in Edges : h[e] \in {"reading", "recorded"}}

TypeOK ==
  /\ signalled \in BOOLEAN /\ done \in BOOLEAN /\ wg \in Int
  /\ main \in {"serving", "drain", "close", "wait", "returned", "ended"}
  /\ watcher \in {"select", "close", "wait", "returned"}
  /\ acc \in {"accept", "exited"} \cup Edges
  /\ up \in [Edges -> BOOLEAN]
  /\ h \in [Edges -> {"none", "backlog", "accepted", "reading", "recorded"}]
  /\ journaled \subseteq Edges \X Nat /\ spoilt \subseteq Edges \X Nat
  /\ dispatched \in [Edges -> Nat]
  /\ journalOpen \in BOOLEAN /\ torn \in BOOLEAN /\ writeFailures \in 0..MaxWriteFailures
  /\ unflushed \in BOOLEAN /\ running \in BOOLEAN

-----------------------------------------------------------------------------
(* The edge server.                                                        *)

\* Mutant: the accept loop itself is not counted.
AcceptLoopUncounted == 0

\* s.wg.Add(1) in Listen, s.wg.Done() of acceptLoop
AcceptLoopCounted == 1

Init ==
  /\ signalled = FALSE /\ main = "serving" /\ watcher = "select"
  /\ done = FALSE /\ wg = AcceptLoopCounted /\ acc = "accept"
  /\ up = [e \in Edges |-> FALSE] /\ h = [e \in Edges |-> "none"]
  /\ journaled = {} /\ dispatched = [e \in Edges |-> 0]
  /\ journalOpen = TRUE /\ torn = FALSE /\ spoilt = {} /\ writeFailures = 0
  /\ unflushed = FALSE /\ running = TRUE

\* A connection is dialled once; the simulator dials under the context.
Dial(e) ==
  /\ ~done /\ h[e] = "none" /\ ~up[e] /\ dispatched[e] = 0
  /\ e \in InProcess => ~signalled
  /\ up' = [up EXCEPT ![e] = TRUE] /\ h' = [h EXCEPT ![e] = "backlog"]
  /\ UNCHANGED <<signalled, main, watcher, done, wg, acc, lineVars>>

\* An edge closes its connection whenever it likes; the simulator surely does
\* when the context ends (Fairness).
HangUp(e) ==
  /\ up[e]
  /\ up' = [up EXCEPT ![e] = FALSE]
  /\ UNCHANGED <<signalled, main, watcher, done, wg, acc, h, lineVars>>

\* ln.Accept() returns a connection ...
Accept(e) ==
  /\ acc = "accept" /\ ~done /\ h[e] = "backlog"
  /\ acc' = e /\ h' = [h EXCEPT ![e] = "accepted"]
  /\ UNCHANGED <<signalled, main, watcher, done, wg, up, lineVars>>

\* ... s.wg.Add(1); go s.handleConn(conn), also when Close came in between ...
Spawn(e) ==
  /\ acc = e /\ h[e] = "accepted"
  /\ acc' = "accept" /\ wg' = wg + 1 /\ h' = [h EXCEPT ![e] = "reading"]
  /\ UNCHANGED <<signalled, main, watcher, done, up, lineVars>>

\* Mutant: acceptLoop never looks at done.
AcceptErrorIgnored == FALSE

\* case <-s.done: return
AcceptErrorEnds == done

\* ... or an error, which ends the loop once the server is closed.
AcceptFails ==
  /\ acc = "accept" /\ done /\ AcceptErrorEnds
  /\ acc' = "exited" /\ wg' = wg - AcceptLoopCounted
  /\ UNCHANGED <<signalled, main, watcher, done, up, h, lineVars>>

(* handleConn: a line is journaled, then dispatched; a journal that fails  *)
(* is logged and the line is dispatched all the same.                      *)

Line(e) == <<e, dispatched[e] + 1>>

\* j.f.Write of a whole record; behind a part of a record it joins that line.
Written(e) ==
  /\ journalOpen /\ torn' = FALSE
  /\ journaled' = IF torn THEN journaled ELSE journaled \cup {Line(e)}
  /\ spoilt' = IF torn THEN spoilt \cup {Line(e)} ELSE spoilt
  /\ UNCHANGED writeFailures

\* The disk is full: nothing of the record gets out, or a part of it.
WriteFails(e) ==
  /\ journalOpen /\ writeFailures < MaxWriteFailures
  /\ writeFailures' = writeFailures + 1
  /\ torn' \in {torn, TRUE} /\ spoilt' = spoilt \cup {Line(e)}
  /\ UNCHANGED journaled

\* os.ErrClosed
WriteAfterClose == ~journalOpen /\ UNCHANGED <<journaled, torn, spoilt, writeFailures>>

Record(e) ==
  /\ h[e] = "reading" /\ up[e] /\ dispatched[e] < MaxLines
  /\ h' = [h EXCEPT ![e] = "recorded"]
  /\ Written(e) \/ WriteFails(e) \/ WriteAfterClose
  /\ UNCHANGED <<signalled, main, watcher, done, wg, acc, up, dispatched, journalOpen,
                 unflushed, running>>

Dispatch(e) ==
  /\ h[e] = "recorded" /\ h' = [h EXCEPT ![e] = "reading"]
  /\ dispatched' = [dispatched EXCEPT ![e] = @ + 1] /\ unflushed' = TRUE
  /\ UNCHANGED <<signalled, main, watcher, done, wg, acc, up, journalVars, running>>

\* Scan ends only with the connection: the handler does not look at done.
HandlerReturns(e) ==
  /\ h[e] = "reading" /\ ~up[e]
  /\ h' = [h EXCEPT ![e] = "none"] /\ wg' = wg - 1
  /\ UNCHANGED <<signalled, main, watcher, done, acc, up, lineVars>>

\* closeOnce: close(done), ln.Close(), which resets what is in the backlog.
CloseServer ==
  /\ done' = TRUE
  /\ up' = [e \in Edges |-> up[e] /\ (done \/ h[e] # "backlog")]
  /\ h' = [e \in Edges |-> IF ~done /\ h[e] = "backlog" THEN "none" ELSE h[e]]
  /\ UNCHANGED <<wg, acc>>

-----------------------------------------------------------------------------
(* Core.Run: the last FlushAll is the one that sees the context end.       *)

FlushAll ==
  /\ running /\ unflushed /\ unflushed' = FALSE
  /\ UNCHANGED <<signalled, main, watcher, serverVars, journalVars, dispatched,
                 running>>

LastFlush ==
  /\ running /\ signalled /\ running' = FALSE /\ unflushed' = FALSE
  /\ UNCHANGED <<signalled, main, watcher, serverVars, journalVars, dispatched>>

-----------------------------------------------------------------------------
(* startEdgeStack's goroutine.                                             *)

WatcherWakes ==
  /\ watcher = "select" /\ signalled /\ watcher' = "close"
  /\ UNCHANGED <<signalled, main, serverVars, lineVars>>

WatcherCloses ==
  /\ watcher = "close" /\ watcher' = "wait" /\ CloseServer
  /\ UNCHANGED <<signalled, main, lineVars>>

WatcherReturns ==
  /\ watcher = "wait" /\ wg = 0 /\ watcher' = "returned"
  /\ UNCHANGED <<signalled, main, serverVars, lineVars>>

\* Mutant: the journal is closed while Close still waits.
JournalClosesEarly == watcher \in {"wait", "returned"}

\* journal.Close() after srv.Close()
JournalCloses == watcher = "returned"

CloseJournal ==
  /\ JournalCloses /\ journalOpen /\ journalOpen' = FALSE
  /\ UNCHANGED <<signalled, main, watcher, serverVars, journaled, torn, spoilt,
                 writeFailures, dispatched, unflushed, running>>

-----------------------------------------------------------------------------
(* cmdServe from its select on.                                            *)

Signal ==
  /\ ~signalled /\ signalled' = TRUE
  /\ UNCHANGED <<main, watcher, serverVars, lineVars>>

\* The HTTP listener fails: svc.Close() and an error exit, the edge server as it is.
HttpFails ==
  /\ main = "serving" /\ main' = "ended"
  /\ UNCHANGED <<signalled, watcher, serverVars, lineVars>>

MainWakes ==
  /\ main = "serving" /\ signalled /\ main' = "drain"
  /\ UNCHANGED <<signalled, watcher, serverVars, lineVars>>

\* httpSrv.Shutdown returns, after three seconds at the latest.
HttpDrained ==
  /\ main = "drain" /\ main' = "close"
  /\ UNCHANGED <<signalled, watcher, serverVars, lineVars>>

MainCloses ==
  /\ main = "close" /\ main' = "wait" /\ CloseServer
  /\ UNCHANGED <<signalled, watcher, lineVars>>

MainReturns ==
  /\ main = "wait" /\ wg = 0 /\ main' = "returned"
  /\ UNCHANGED <<signalled, watcher, serverVars, lineVars>>

\* svc.Close(): state saved, store flushed and closed (AppService, StoreWriter).
SvcClose ==
  /\ main = "returned" /\ main' = "ended"
  /\ UNCHANGED <<signalled, watcher, serverVars, lineVars>>

MainStep == MainWakes \/ HttpDrained \/ MainCloses \/ MainReturns \/ SvcClose
WatcherStep == WatcherWakes \/ WatcherCloses \/ WatcherReturns \/ CloseJournal
HandlerStep(e) == Spawn(e) \/ Dispatch(e) \/ HandlerReturns(e)

Step ==
  \/ Signal \/ HttpFails \/ MainStep \/ WatcherStep
  \/ AcceptFails \/ FlushAll \/ LastFlush
  \/ \E e \in Edges : Dial(e) \/ HangUp(e) \/ Accept(e) \/ Record(e) \/ HandlerStep(e)

\* The process is gone once main returned.
Next == main # "ended" /\ Step

\* Goroutines run on, and the simulator's closes its connection after a signal.
\* Signals, remote edges and the lines they send are not fair.
Fairness ==
  /\ WF_vars(main # "ended" /\ MainStep) /\ WF_vars(main # "ended" /\ WatcherStep)
  /\ WF_vars(main # "ended" /\ AcceptFails)
  /\ \A e \in Edges : WF_vars(main # "ended" /\ HandlerStep(e))
  /\ \A e \in InProcess : WF_vars(main # "ended" /\ signalled /\ HangUp(e))

Spec == Init /\ [][Next]_vars /\ Fairness

-----------------------------------------------------------------------------
(* Properties.                                                             *)

\* "Close stops accepting and waits for connection handlers to drain"
\* (server.go:349): when Close has returned to either of its callers, no handler
\* is left and none can start, so no event reaches the service while or after
\* its state is saved for the last time (serve.go:236-241), also when a
\* connection was accepted just as the listener closed.
NoHandlerAfterClose ==
  main = "returned" \/ watcher = "returned" => Handled = {} /\ acc = "exited"

\* The journal is "the forensic record of an edge session" (journal.go:11), as far
\* as the disk lets it: up to the end of the last connection, whatever the two
\* closers do, every line that was dispatched is in it, except a line whose own
\* write failed on the open journal or ran into the part a failed write left
\* (server.go:420-423 logs either and dispatches) - two lines for a failed write
\* at most.  No line is dispatched after the journal was closed.
JournalWhole ==
  /\ \A e \in Edges, n \in 1..MaxLines :
       n <= dispatched[e] => <<e, n>> \in journaled \cup spoilt
  /\ Cardinality(spoilt) <= 2 * writeFailures

\* The shutdown comes to its end, state saved, once the remote edges have gone;
\* the simulator's connection does not hold it up (serve.go:227-241).
ShutdownEnds ==
  <>signalled /\ <>[](\A e \in Remote : ~up[e]) => <>(main = "ended")

\* "shutting down - saving state" (serve.go:230): a signal ends the process.
ShutdownSaves == signalled ~> main = "ended"

\* "every wire line as received" (journal.go:11-12), taken literally.
EveryLineJournaled ==
  \A e \in Edges, n \in 1..MaxLines : n <= dispatched[e] => <<e, n>> \in journaled

\* "FlushAll ... (used by Run, Close paths, ...)" (ingest.go:205-206): at the end
\* nothing that was dispatched is left unflushed.
NothingLeftBehind == main = "ended" => ~unflushed
=============================================================================
