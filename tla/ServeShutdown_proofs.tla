------------------------ MODULE ServeShutdown_proofs ------------------------
(***************************************************************************)
(* Safety of the shutdown for any number of connections and lines: what    *)
(* Server.Close promises its two callers, and the journal.  Then safety of *)
(* the restart behind it, for any tickers, contracts, sessions and days:   *)
(* what the next boot makes of the database.                               *)
(***************************************************************************)
EXTENDS ServeShutdown, BootRestore, FiniteSetTheorems, WellFoundedInduction, TLAPS

-----------------------------------------------------------------------------
(* Types.                                                                  *)

LEMMA EdgeFacts ==
  /\ IsFiniteSet(Edges) /\ "accept" \notin Edges /\ "exited" \notin Edges
BY ShutdownAssumption, FS_Union DEF Edges

LEMMA TypeOKStep == TypeOK /\ [Next]_vars => TypeOK'
<1> SUFFICES ASSUME TypeOK, [Next]_vars PROVE TypeOK'
  OBVIOUS
<1> USE DEF TypeOK
<1>1. CASE Signal BY <1>1, SMTT(30) DEF Signal, serverVars, lineVars, journalVars
<1>2. CASE HttpFails BY <1>2, SMTT(30) DEF HttpFails, serverVars, lineVars, journalVars
<1>3. CASE MainWakes \/ HttpDrained \/ MainReturns \/ SvcClose
  BY <1>3, SMTT(30) DEF MainWakes, HttpDrained, MainReturns, SvcClose, serverVars, lineVars, journalVars
<1>4. CASE MainCloses BY <1>4, SMTT(30) DEF MainCloses, CloseServer, lineVars, journalVars
<1>5. CASE WatcherWakes \/ WatcherReturns
  BY <1>5, SMTT(30) DEF WatcherWakes, WatcherReturns, serverVars, lineVars, journalVars
<1>6. CASE WatcherCloses BY <1>6, SMTT(30) DEF WatcherCloses, CloseServer, lineVars, journalVars
<1>7. CASE CloseJournal BY <1>7, ZenonT(30) DEF CloseJournal, serverVars
<1>8. CASE AcceptFails
  BY <1>8, SMTT(30) DEF AcceptFails, AcceptLoopCounted, lineVars, journalVars
<1>9. CASE FlushAll \/ LastFlush BY <1>9, ZenonT(30) DEF FlushAll, LastFlush, serverVars, journalVars
<1>10. ASSUME NEW e \in Edges, Dial(e) \/ HangUp(e) PROVE TypeOK'
  <2>1. up' \in [Edges -> BOOLEAN]
    BY <1>10, ZenonT(30) DEF Dial, HangUp
  <2> QED BY <1>10, <2>1, SMTT(30) DEF Dial, HangUp, lineVars, journalVars
<1>11. ASSUME NEW e \in Edges, Accept(e) \/ Spawn(e) PROVE TypeOK'
  BY <1>11, SMTT(30) DEF Accept, Spawn, lineVars, journalVars
<1>12. ASSUME NEW e \in Edges, Record(e) PROVE TypeOK'
  <2>1. Line(e) \in Edges \X Nat
    BY <1>12 DEF Line
  <2>2. journaled' \subseteq Edges \X Nat /\ spoilt' \subseteq Edges \X Nat
    BY <1>12, <2>1 DEF Record, Written, WriteFails, WriteAfterClose
  <2>3. torn' \in BOOLEAN
    BY <1>12, ZenonT(30) DEF Record, Written, WriteFails, WriteAfterClose
  <2>4. writeFailures' \in 0..MaxWriteFailures
    <3>1. \/ writeFailures' = writeFailures
          \/ writeFailures < MaxWriteFailures /\ writeFailures' = writeFailures + 1
      BY <1>12, ZenonT(30) DEF Record, Written, WriteFails, WriteAfterClose
    <3>2. writeFailures \in 0..MaxWriteFailures
      OBVIOUS
    <3> HIDE DEF TypeOK
    <3> QED BY <3>1, <3>2, ShutdownAssumption
  <2> QED BY <1>12, <2>2, <2>3, <2>4, SMTT(30) DEF Record
<1>13. ASSUME NEW e \in Edges, Dispatch(e) PROVE TypeOK'
  BY <1>13, SMTT(30) DEF Dispatch, journalVars
<1>14. ASSUME NEW e \in Edges, HandlerReturns(e) PROVE TypeOK'
  BY <1>14, SMTT(30) DEF HandlerReturns, lineVars, journalVars
<1>15. CASE UNCHANGED vars
  BY <1>15, SMTT(30) DEF vars, serverVars, lineVars, journalVars
<1> QED
  BY <1>1, <1>2, <1>3, <1>4, <1>5, <1>6, <1>7, <1>8, <1>9, <1>10, <1>11, <1>12,
     <1>13, <1>14, <1>15 DEF Next, Step, MainStep, WatcherStep, HandlerStep

LEMMA TypeOKInit == Init => TypeOK
<1> SUFFICES ASSUME Init PROVE TypeOK
  OBVIOUS
<1>1. up \in [Edges -> BOOLEAN] /\ dispatched \in [Edges -> Nat]
  BY DEF Init
<1>2. h \in [Edges -> {"none", "backlog", "accepted", "reading", "recorded"}]
  BY DEF Init
<1>3. wg \in Int BY DEF Init, AcceptLoopCounted
<1>4. writeFailures \in 0..MaxWriteFailures BY ShutdownAssumption DEF Init
<1> QED BY <1>1, <1>2, <1>3, <1>4, ZenonT(30) DEF Init, TypeOK

\* Every reachable state of the shutdown is well typed.
THEOREM TypeCorrect == Spec => []TypeOK
BY TypeOKInit, TypeOKStep, PTL DEF Spec

-----------------------------------------------------------------------------
(* The WaitGroup counts the accept loop and the handlers, so that a Wait   *)
(* that returns finds neither, and only the accept loop starts handlers.   *)

Counted ==
  wg = (IF acc = "exited" THEN 0 ELSE 1) + Cardinality(Handled)

CloseInv == Counted /\ NoHandlerAfterClose

LEMMA HandledFinite == Handled \subseteq Edges /\ IsFiniteSet(Handled)
                       /\ Cardinality(Handled) \in Nat
<1>1. Handled \subseteq Edges BY DEF Handled
<1> QED BY <1>1, EdgeFacts, FS_Subset, FS_CardinalityType

\* A step that leaves handlers, accept loop and WaitGroup alone, and lets neither
\* caller of Close return, keeps the invariant.
LEMMA Untouched ==
  ASSUME CloseInv, Handled' = Handled, acc' = acc, wg' = wg,
         main' = "returned" => main = "returned",
         watcher' = "returned" => watcher = "returned"
  PROVE  CloseInv'
BY DEF CloseInv, Counted, NoHandlerAfterClose

\* Wait returns.
LEMMA WaitOver ==
  ASSUME CloseInv, wg = 0 PROVE Handled = {} /\ acc = "exited"
<1>1. Cardinality(Handled) = 0 /\ acc = "exited"
  BY HandledFinite DEF CloseInv, Counted
<1> QED BY <1>1, HandledFinite, FS_EmptySet

LEMMA CloseStep == TypeOK /\ CloseInv /\ [Next]_vars => CloseInv'
<1> SUFFICES ASSUME TypeOK, CloseInv, [Next]_vars PROVE CloseInv'
  OBVIOUS
<1>1. CASE \/ Signal \/ HttpFails \/ MainWakes \/ HttpDrained \/ SvcClose
           \/ WatcherWakes \/ CloseJournal \/ FlushAll \/ LastFlush \/ UNCHANGED vars
  <2>1. Handled' = Handled /\ acc' = acc /\ wg' = wg
    BY <1>1 DEF Signal, HttpFails, MainWakes, HttpDrained, SvcClose, WatcherWakes,
                CloseJournal, FlushAll, LastFlush, vars, serverVars, Handled
  <2>2. (main' = "returned" => main = "returned")
        /\ (watcher' = "returned" => watcher = "returned")
    BY <1>1, SMTT(30) DEF Signal, HttpFails, MainWakes, HttpDrained, SvcClose,
                WatcherWakes, CloseJournal, FlushAll, LastFlush, vars
  <2> QED BY <2>1, <2>2, Untouched
<1>2. CASE MainCloses \/ WatcherCloses
  <2>2. CloseServer BY <1>2 DEF MainCloses, WatcherCloses
  <2>3. Handled' = Handled /\ acc' = acc /\ wg' = wg
    BY <2>2, SMTT(30) DEF CloseServer, Handled, TypeOK
  <2>4. (main' = "returned" => main = "returned")
        /\ (watcher' = "returned" => watcher = "returned")
    BY <1>2 DEF MainCloses, WatcherCloses
  <2> QED BY <2>3, <2>4, Untouched
<1>3. CASE MainReturns \/ WatcherReturns
  <2>1. Handled = {} /\ acc = "exited"
    BY <1>3, WaitOver DEF MainReturns, WatcherReturns
  <2>2. Handled' = Handled /\ acc' = acc /\ wg' = wg
    BY <1>3 DEF MainReturns, WatcherReturns, serverVars, Handled
  <2> QED BY <2>1, <2>2 DEF CloseInv, Counted, NoHandlerAfterClose
<1>4. CASE AcceptFails
  <2>1. Handled' = Handled /\ acc = "accept" /\ acc' = "exited" /\ wg' = wg - 1
        /\ main' = main /\ watcher' = watcher
    BY <1>4 DEF AcceptFails, Handled, AcceptLoopCounted
  <2> QED BY <2>1, HandledFinite, SMTT(30) DEF CloseInv, Counted, NoHandlerAfterClose, TypeOK
<1>5. ASSUME NEW e \in Edges, Dial(e) \/ HangUp(e) \/ Record(e) \/ Dispatch(e)
      PROVE  CloseInv'
  <2>1. Handled' = Handled
    BY <1>5, SMTT(30) DEF Dial, HangUp, Record, Dispatch, Handled, TypeOK
  <2>2. acc' = acc /\ wg' = wg /\ main' = main /\ watcher' = watcher
    BY <1>5 DEF Dial, HangUp, Record, Dispatch
  <2> QED BY <2>1, <2>2, Untouched
<1>6. ASSUME NEW e \in Edges, Accept(e) PROVE CloseInv'
  <2>1. Handled' = Handled
    BY <1>6, SMTT(30) DEF Accept, Handled, TypeOK
  <2>2. acc = "accept" /\ acc' # "exited" /\ wg' = wg /\ main' = main /\ watcher' = watcher
    BY <1>6, EdgeFacts DEF Accept
  <2> QED BY <2>1, <2>2 DEF CloseInv, Counted, NoHandlerAfterClose
<1>7. ASSUME NEW e \in Edges, Spawn(e) PROVE CloseInv'
  <2>1. e \notin Handled /\ Handled' = Handled \cup {e}
    BY <1>7, SMTT(30) DEF Spawn, Handled, TypeOK
  <2>2. Cardinality(Handled') = Cardinality(Handled) + 1
    BY <2>1, HandledFinite, FS_AddElement
  <2>3. acc # "exited" /\ acc' = "accept" /\ wg' = wg + 1 /\ main' = main
        /\ watcher' = watcher
    BY <1>7, EdgeFacts DEF Spawn
  <2> QED BY <2>2, <2>3, HandledFinite, SMTT(30) DEF CloseInv, Counted, NoHandlerAfterClose
<1>8. ASSUME NEW e \in Edges, HandlerReturns(e) PROVE CloseInv'
  <2>1. e \in Handled /\ Handled' = Handled \ {e}
    BY <1>8, SMTT(30) DEF HandlerReturns, Handled, TypeOK
  <2>2. Cardinality(Handled') = Cardinality(Handled) - 1
    BY <2>1, HandledFinite, FS_RemoveElement
  <2>3. acc' = acc /\ wg' = wg - 1 /\ main' = main /\ watcher' = watcher
    BY <1>8 DEF HandlerReturns
  <2>4. ~(main = "returned" \/ watcher = "returned")
    BY <2>1 DEF CloseInv, NoHandlerAfterClose
  <2> QED BY <2>2, <2>3, <2>4, HandledFinite, SMTT(30) DEF CloseInv, Counted, NoHandlerAfterClose
<1> QED
  BY <1>1, <1>2, <1>3, <1>4, <1>5, <1>6, <1>7, <1>8
     DEF Next, Step, MainStep, WatcherStep, HandlerStep

LEMMA CloseInit == Init => CloseInv
<1> SUFFICES ASSUME Init PROVE CloseInv
  OBVIOUS
<1>1. Handled = {} BY DEF Init, Handled
<1>2. Cardinality(Handled) = 0 BY <1>1, FS_EmptySet
<1> QED BY <1>2 DEF Init, CloseInv, Counted, NoHandlerAfterClose, AcceptLoopCounted

LEMMA CloseInvariant == Spec => []CloseInv
<1>1. TypeOK /\ CloseInv /\ [Next]_vars => CloseInv' BY CloseStep
<1> QED BY <1>1, CloseInit, TypeCorrect, PTL DEF Spec

\* When Server.Close has returned to main or to the stack's goroutine, no handler
\* is left and none can start, however many connections were accepted, dialled or
\* closed while it waited (server.go:349-375).
THEOREM CloseDrains == Spec => []NoHandlerAfterClose
<1>1. CloseInv => NoHandlerAfterClose BY DEF CloseInv
<1> QED BY <1>1, CloseInvariant, PTL

-----------------------------------------------------------------------------
(* The journal is closed only after Close returned, so a handler always    *)
(* finds it open; the line it is about to dispatch is in the journal or    *)
(* spoilt, and the part of a line at the end has one more to spoil.        *)

JournalInv ==
  /\ journalOpen \/ watcher = "returned"
  /\ \A e \in Edges, n \in Nat :
       (1 <= n /\ n <= dispatched[e]) \/ (n = dispatched[e] + 1 /\ h[e] = "recorded")
         => <<e, n>> \in journaled \cup spoilt
  /\ IsFiniteSet(spoilt)
  /\ Cardinality(spoilt) + (IF torn THEN 1 ELSE 0) <= 2 * writeFailures

LEMMA JournalKept ==
  ASSUME JournalInv, journalOpen' = journalOpen,
         watcher = "returned" => watcher' = "returned",
         journaled' = journaled, spoilt' = spoilt, torn' = torn,
         writeFailures' = writeFailures, dispatched' = dispatched,
         \A e \in Edges : h'[e] = "recorded" => h[e] = "recorded"
  PROVE  JournalInv'
BY DEF JournalInv

\* One write: the line is in the journal or spoilt, and nothing leaves either.
LEMMA JournalWrite ==
  ASSUME TypeOK, JournalInv, NEW e \in Edges, Record(e), journalOpen
  PROVE  /\ journaled \subseteq journaled' /\ spoilt \subseteq spoilt'
         /\ Line(e) \in journaled' \cup spoilt'
         /\ IsFiniteSet(spoilt')
         /\ Cardinality(spoilt') + (IF torn' THEN 1 ELSE 0) <= 2 * writeFailures'
<1>1. IsFiniteSet(spoilt) /\ Cardinality(spoilt) \in Nat /\ writeFailures \in Nat
      /\ torn \in BOOLEAN
  BY FS_CardinalityType, ShutdownAssumption DEF JournalInv, TypeOK
<1>2. /\ IsFiniteSet(spoilt \cup {Line(e)})
      /\ Cardinality(spoilt \cup {Line(e)}) \in {Cardinality(spoilt), Cardinality(spoilt) + 1}
  BY <1>1, FS_AddElement
<1>3. Cardinality(spoilt) + (IF torn THEN 1 ELSE 0) <= 2 * writeFailures
  BY DEF JournalInv
<1>4. CASE Written(e) /\ torn
  <2>1. /\ spoilt' = spoilt \cup {Line(e)} /\ ~torn' /\ writeFailures' = writeFailures
        /\ journaled' = journaled
    BY <1>4 DEF Written
  <2> QED BY <1>1, <1>2, <1>3, <1>4, <2>1
<1>5. CASE Written(e) /\ ~torn
  <2>1. /\ spoilt' = spoilt /\ ~torn' /\ writeFailures' = writeFailures
        /\ journaled' = journaled \cup {Line(e)}
    BY <1>5 DEF Written
  <2> QED BY <1>1, <1>3, <1>5, <2>1
<1>6. CASE WriteFails(e)
  <2>1. /\ spoilt' = spoilt \cup {Line(e)} /\ writeFailures' = writeFailures + 1
        /\ journaled' = journaled
    BY <1>6 DEF WriteFails
  <2>2. Cardinality(spoilt') <= 2 * writeFailures + 1 /\ Cardinality(spoilt') \in Nat
    BY <1>1, <1>2, <1>3, <2>1
  <2> QED BY <1>1, <1>2, <2>1, <2>2
<1> QED BY <1>4, <1>5, <1>6 DEF Record, WriteAfterClose

LEMMA JournalStep == TypeOK /\ CloseInv /\ JournalInv /\ [Next]_vars => JournalInv'
<1> SUFFICES ASSUME TypeOK, CloseInv, JournalInv, [Next]_vars PROVE JournalInv'
  OBVIOUS
<1>1. CASE \/ Signal \/ HttpFails \/ MainWakes \/ HttpDrained \/ SvcClose \/ MainReturns
           \/ WatcherWakes \/ WatcherReturns \/ FlushAll \/ LastFlush \/ AcceptFails
           \/ UNCHANGED vars
  <2>1. h' = h /\ UNCHANGED journalVars /\ dispatched' = dispatched
    BY <1>1 DEF Signal, HttpFails, MainWakes, HttpDrained, SvcClose, MainReturns,
                WatcherWakes, WatcherReturns, FlushAll, LastFlush, AcceptFails, vars,
                serverVars, lineVars, journalVars
  <2>2. watcher = "returned" => watcher' = "returned"
    BY <1>1 DEF Signal, HttpFails, MainWakes, HttpDrained, SvcClose, MainReturns,
                WatcherWakes, WatcherReturns, FlushAll, LastFlush, AcceptFails, vars
  <2> QED BY <2>1, <2>2, JournalKept DEF journalVars
<1>2. CASE MainCloses \/ WatcherCloses
  <2>1. UNCHANGED journalVars /\ dispatched' = dispatched
        /\ (watcher = "returned" => watcher' = "returned") /\ CloseServer
    BY <1>2 DEF MainCloses, WatcherCloses, lineVars
  <2>2. \A e \in Edges : h'[e] = "recorded" => h[e] = "recorded"
    BY <2>1, SMTT(30) DEF CloseServer, TypeOK
  <2> QED BY <2>1, <2>2, JournalKept DEF journalVars
<1>3. CASE CloseJournal
  BY <1>3 DEF CloseJournal, JournalCloses, JournalInv, serverVars
<1>4. ASSUME NEW e \in Edges,
             Dial(e) \/ HangUp(e) \/ Accept(e) \/ Spawn(e) \/ HandlerReturns(e)
      PROVE  JournalInv'
  <2>1. UNCHANGED journalVars /\ dispatched' = dispatched
        /\ watcher' = watcher
    BY <1>4 DEF Dial, HangUp, Accept, Spawn, HandlerReturns, lineVars
  <2>2. \A d \in Edges : h'[d] = "recorded" => h[d] = "recorded"
    BY <1>4, SMTT(30) DEF Dial, HangUp, Accept, Spawn, HandlerReturns, TypeOK
  <2> QED BY <2>1, <2>2, JournalKept DEF journalVars
<1>5. ASSUME NEW e \in Edges, Record(e) PROVE JournalInv'
  <2>1. e \in Handled
    BY <1>5 DEF Record, Handled
  <2>2. journalOpen
    BY <2>1 DEF JournalInv, CloseInv, NoHandlerAfterClose
  <2>3. /\ journaled \subseteq journaled' /\ spoilt \subseteq spoilt'
        /\ Line(e) \in journaled' \cup spoilt' /\ IsFiniteSet(spoilt')
        /\ Cardinality(spoilt') + (IF torn' THEN 1 ELSE 0) <= 2 * writeFailures'
    BY <1>5, <2>2, JournalWrite
  <2>4. /\ dispatched' = dispatched /\ journalOpen' /\ h[e] = "reading"
        /\ \A d \in Edges : d # e => h'[d] = h[d]
    BY <1>5, <2>2 DEF Record, TypeOK
  <2>5. ASSUME NEW d \in Edges, NEW n \in Nat,
               (1 <= n /\ n <= dispatched'[d]) \/ (n = dispatched'[d] + 1 /\ h'[d] = "recorded")
        PROVE  <<d, n>> \in journaled' \cup spoilt'
    <3>1. CASE d = e /\ n = dispatched[e] + 1
      BY <2>3, <3>1 DEF Line
    <3>2. CASE ~(d = e /\ n = dispatched[e] + 1)
      <4>1. <<d, n>> \in journaled \cup spoilt
        BY <2>4, <2>5, <3>2 DEF JournalInv
      <4> QED BY <2>3, <4>1
    <3> QED BY <3>1, <3>2
  <2> QED BY <2>3, <2>4, <2>5 DEF JournalInv
<1>6. ASSUME NEW e \in Edges, Dispatch(e) PROVE JournalInv'
  <2>1. /\ UNCHANGED journalVars /\ watcher' = watcher /\ h[e] = "recorded"
        /\ dispatched'[e] = dispatched[e] + 1 /\ h'[e] = "reading"
        /\ \A d \in Edges : d # e => h'[d] = h[d] /\ dispatched'[d] = dispatched[d]
    BY <1>6 DEF Dispatch, TypeOK
  <2>2. dispatched[e] \in Nat
    BY DEF TypeOK
  <2>3. ASSUME NEW d \in Edges, NEW n \in Nat,
               (1 <= n /\ n <= dispatched'[d]) \/ (n = dispatched'[d] + 1 /\ h'[d] = "recorded")
        PROVE  <<d, n>> \in journaled \cup spoilt
    <3>1. CASE d = e
      <4>1. n = dispatched[e] + 1 \/ (1 <= n /\ n <= dispatched[e])
        BY <2>1, <2>2, <2>3, <3>1
      <4> QED BY <2>1, <3>1, <4>1 DEF JournalInv
    <3>2. CASE d # e
      BY <2>1, <2>3, <3>2 DEF JournalInv
    <3> QED BY <3>1, <3>2
  <2> QED BY <2>1, <2>3 DEF JournalInv, journalVars
<1> QED
  BY <1>1, <1>2, <1>3, <1>4, <1>5, <1>6
     DEF Next, Step, MainStep, WatcherStep, HandlerStep

\* Every line that was dispatched is in the journal, but for the two at most that
\* each failed write costs, whatever connections do while the two closers race
\* (journal.go:42-55, server.go:420-423, cmd/gexctl/edge.go:66-72).
THEOREM JournalIsWhole == Spec => []JournalWhole
<1>1. Init => JournalInv
  <2>1. IsFiniteSet({}) /\ Cardinality({}) = 0
    BY FS_EmptySet
  <2> QED BY <2>1 DEF Init, JournalInv
<1>2. TypeOK /\ JournalInv => JournalWhole
  <2> SUFFICES ASSUME TypeOK, JournalInv PROVE JournalWhole
    OBVIOUS
  <2>1. Cardinality(spoilt) <= 2 * writeFailures
    <3>1. Cardinality(spoilt) \in Nat /\ writeFailures \in Nat
      BY FS_CardinalityType, ShutdownAssumption DEF JournalInv, TypeOK
    <3> QED BY <3>1 DEF JournalInv
  <2>2. \A n \in 1..MaxLines : n \in Nat /\ 1 <= n
    BY ShutdownAssumption
  <2> QED BY <2>1, <2>2 DEF JournalInv, JournalWhole
<1> QED BY <1>1, <1>2, JournalStep, TypeCorrect, CloseInvariant, PTL DEF Spec

-----------------------------------------------------------------------------
(* What a start makes of the rows it finds, for any database and any day.  *)

\* Rows that may be in the book of t.
Tradable(rows, t) ==
  \A id \in DOMAIN rows : Belongs(id, t) /\ (rows[id].oi # "seed" => Dte(rows[id].i) >= 0)

LEMMA EmptyTradable == \A t : Tradable(Empty, t)
BY DEF Tradable, Empty

LEMMA KeptTradable == ASSUME NEW d, NEW t PROVE Tradable(Kept(d, t), t)
<1>1. \A id \in DOMAIN Kept(d, t) :
        Belongs(id, t) /\ Dte(Loaded(d, t)[id].i) >= 0 /\ Kept(d, t)[id] = Loaded(d, t)[id]
  BY DEF Kept
<1> QED BY <1>1 DEF Tradable

LEMMA RestoredRows ==
  ASSUME NEW rows, NEW t, Tradable(rows, t) PROVE Tradable(Restored(rows), t)
BY EmptyTradable DEF Restored

\* Seeded rows are numbered in the ticker's own namespace.
LEMMA SeedTradable == ASSUME NEW t, NEW f PROVE Tradable(Seed(t, f), t)
<1>1. ASSUME NEW id \in DOMAIN Seed(t, f) PROVE Belongs(id, t)
  <2>1. PICK i \in Identities : id = Syn(t, f[i]) BY <1>1 DEF Seed
  <2> QED BY <2>1 DEF Belongs, Syn
<1>2. \A id \in DOMAIN Seed(t, f) : Seed(t, f)[id].oi = "seed"
  BY DEF Seed, Row
<1> QED BY <1>1, <1>2 DEF Tradable

LEMMA MigratedParts ==
  /\ Migrated.rows = [id \in DOMAIN db.rows \ Foreign |-> db.rows[id]]
  /\ Migrated.oi = [id \in DOMAIN db.oi \ Foreign |-> db.oi[id]]
BY DEF Migrated, Without

\* The migration removes only what the restore would not keep.
LEMMA MigratedKept == ASSUME NEW t PROVE Kept(Migrated, t) = Kept(db, t)
<1> DEFINE all == Loaded(db, t)
           new == Loaded(Migrated, t)
           S == {id \in DOMAIN all : Belongs(id, t) /\ Dte(all[id].i) >= 0}
           N == {id \in DOMAIN new : Belongs(id, t) /\ Dte(new[id].i) >= 0}
<1>1. /\ DOMAIN all = {id \in DOMAIN db.rows : db.rows[id].t = t}
      /\ DOMAIN new = {id \in DOMAIN Migrated.rows : Migrated.rows[id].t = t}
  BY DEF Loaded
<1>2. DOMAIN new = DOMAIN all \ Foreign BY <1>1, MigratedParts
<1>3. \A id \in DOMAIN all : Belongs(id, t) => id \notin Foreign
  BY <1>1 DEF Foreign
<1>4. \A id \in DOMAIN new : new[id] = all[id]
  <2> TAKE id \in DOMAIN new
  <2>1. id \in DOMAIN db.rows \ Foreign /\ id \in DOMAIN all BY <1>1, <1>2
  <2>2. Migrated.rows[id] = db.rows[id] BY <2>1, MigratedParts
  <2>3. (id \in DOMAIN Migrated.oi <=> id \in DOMAIN db.oi)
        /\ (id \in DOMAIN db.oi => Migrated.oi[id] = db.oi[id])
    BY <2>1, MigratedParts
  <2> QED BY <1>1, <2>1, <2>2, <2>3 DEF Loaded
<1>5. Kept(db, t) = [id \in S |-> all[id]] /\ Kept(Migrated, t) = [id \in N |-> new[id]]
  BY DEF Kept
<1> HIDE DEF all, new
<1>6. S = N /\ \A id \in S : all[id] = new[id] BY <1>2, <1>3, <1>4
<1> HIDE DEF S, N
<1> QED BY <1>5, <1>6

\* Only BootOk brings the service up.
LEMMA OnlyBootBoots ==
  ASSUME [BootNext]_bootVars, Boots
  PROVE  \E flag \in BOOLEAN, slot \in Unlisted \cup {"free", "flag"},
            f \in Numberings(Identities) : BootOk(flag, slot, f)
<1>1. ~serving /\ serving' BY DEF Boots
<1>2. ASSUME BootRefused \/ Close \/ Crash \/ NextDay \/ Save \/ Abort \/ UNCHANGED bootVars
      PROVE  FALSE
  BY <1>1, <1>2 DEF BootRefused, Close, Crash, Stopped, NextDay, Save, Abort, bootVars
<1>3. ASSUME NEW n \in 1..MaxQueue, Commit(n) PROVE FALSE BY <1>1, <1>3 DEF Commit
<1>4. ASSUME NEW t \in Tickers, NEW kept, NEW f, Discover(t, kept, f) PROVE FALSE
  BY <1>1, <1>4 DEF Discover
<1>5. ASSUME NEW t \in Tickers, NEW i \in Identities, VendorOI(t, i) PROVE FALSE
  BY <1>1, <1>5 DEF VendorOI
<1>6. ASSUME NEW t \in Tickers, NEW i \in Identities, NEW oi, Resolve(t, i, oi) PROVE FALSE
  BY <1>1, <1>6 DEF Resolve
<1> QED BY <1>2, <1>3, <1>4, <1>5, <1>6 DEF BootNext

\* The book of a ticker after a start.
LEMMA BootedBook ==
  ASSUME [BootNext]_bootVars, Boots, NEW t \in Tickers
  PROVE  \E f : book'[t] = IF t \in Listed
                           THEN IF Kept(db, t) # Empty THEN Restored(Kept(db, t)) ELSE Seed(t, f)
                           ELSE IF t = custom' THEN Restored(Kept(db, t)) ELSE Empty
<1>1. PICK flag \in BOOLEAN, slot \in Unlisted \cup {"free", "flag"},
           f \in Numberings(Identities) : BootOk(flag, slot, f)
  BY OnlyBootBoots
<1>2. custom' = slot
      /\ book'[t] = IF t \in Listed THEN Booted(Migrated, f, t)
                    ELSE IF t = slot THEN Restored(Kept(Migrated, t)) ELSE Empty
  BY <1>1 DEF BootOk
<1>3. Kept(Migrated, t) = Kept(db, t) BY MigratedKept
<1> QED BY <1>2, <1>3 DEF Booted

\* Whatever a session or an older scheme left behind, a restored book has no
\* expired row and no row under a foreign id, and never only rows that cannot be
\* priced (app.go:250-254, 277-278).
THEOREM BootRestoresTradable == BootSpec => RestoredTradable
<1>1. ASSUME [BootNext]_bootVars, Boots, NEW t \in Tickers
      PROVE  /\ Tradable(book'[t], t)
             /\ Kept(db, t) # Empty /\ t \in Listed /\ Restored(Kept(db, t)) = Empty
                  => book'[t] = Empty
  <2>1. PICK f : book'[t] = IF t \in Listed
                   THEN IF Kept(db, t) # Empty THEN Restored(Kept(db, t)) ELSE Seed(t, f)
                   ELSE IF t = custom' THEN Restored(Kept(db, t)) ELSE Empty
    BY <1>1, BootedBook
  <2>2. Tradable(Restored(Kept(db, t)), t) /\ Tradable(Seed(t, f), t) /\ Tradable(Empty, t)
    BY KeptTradable, RestoredRows, SeedTradable, EmptyTradable
  <2> QED BY <2>1, <2>2
<1>2. [BootNext]_bootVars =>
        [Boots => \A t \in Tickers :
           /\ \A id \in DOMAIN book'[t] :
                Belongs(id, t) /\ (book'[t][id].oi # "seed" => Dte(book'[t][id].i) >= 0)
           /\ Kept(db, t) # Empty /\ t \in Listed /\ Restored(Kept(db, t)) = Empty
                => book'[t] = Empty]_bootVars
  BY <1>1, Zenon DEF Tradable
<1> QED BY <1>2, PTL DEF BootSpec, RestoredTradable

-----------------------------------------------------------------------------
(* A transaction, write by write: by the least write at which it fails.    *)

LEMMA Least ==
  ASSUME NEW S, S \subseteq Nat, S # {}
  PROVE  \E m \in S : \A n \in S : m <= n
<1>1. IsWellFoundedOn(OpToRel(<, Nat), Nat) BY NatLessThanWellFounded
<1>2. PICK m \in S : \A n \in S : ~(<<n, m>> \in OpToRel(<, Nat)) BY <1>1, WFMin
<1>3. \A n \in S : n \in Nat /\ m \in Nat /\ ~(n < m) BY <1>2 DEF OpToRel
<1> QED BY <1>3

\* The database after each of the first n writes of ts.
Steps(d, ts, n, f) == f = [k \in 0..n |-> IF k = 0 THEN d ELSE Executed(f[k - 1], ts[k])]

LEMMA StepsExist == ASSUME NEW d, NEW ts, NEW len \in Nat PROVE \E f : Steps(d, ts, len, f)
<1> DEFINE Bad == {n \in Nat : ~\E f : Steps(d, ts, n, f)}
<1>1. SUFFICES ASSUME Bad # {} PROVE FALSE OBVIOUS
<1>2. PICK n \in Bad : \A m \in Bad : n <= m
  <2>1. Bad \subseteq Nat OBVIOUS
  <2> HIDE DEF Bad
  <2> QED BY <1>1, <2>1, Least
<1>3. n # 0
  <2>1. Steps(d, ts, 0, [k \in 0..0 |-> d]) BY DEF Steps
  <2> QED BY <2>1
<1>4. PICK f : Steps(d, ts, n - 1, f) BY <1>2, <1>3
<1> DEFINE g == [k \in 0..n |-> IF k # n THEN f[k] ELSE Executed(f[n - 1], ts[n])]
<1>5. \A k \in 0..(n - 1) : f[k] = IF k = 0 THEN d ELSE Executed(f[k - 1], ts[k])
  BY <1>4 DEF Steps
<1>6. ASSUME NEW k \in 0..n PROVE g[k] = IF k = 0 THEN d ELSE Executed(g[k - 1], ts[k])
  <2>1. CASE k = n
    <3>1. g[n - 1] = f[n - 1] /\ n - 1 \in 0..n BY <1>2, <1>3
    <3> QED BY <1>3, <2>1, <3>1
  <2>2. CASE k # n /\ k # 0
    <3>1. g[k] = f[k] /\ g[k - 1] = f[k - 1] /\ k \in 0..(n - 1) BY <2>2
    <3> QED BY <1>5, <2>2, <3>1
  <2>3. CASE k # n /\ k = 0
    <3>1. g[k] = f[k] /\ k \in 0..(n - 1) BY <2>3
    <3> QED BY <1>5, <2>3, <3>1
  <2> QED BY <2>1, <2>2, <2>3
<1> HIDE DEF g
<1>7. g = [k \in 0..n |-> g[k]] BY DEF g
<1>8. Steps(d, ts, n, g) BY <1>6, <1>7 DEF Steps
<1> QED BY <1>2, <1>8

LEMMA ExecutedSteps ==
  ASSUME NEW d, NEW ts, Len(ts) \in Nat
  PROVE  \E f : /\ f[0] = d /\ \A k \in 1..Len(ts) : f[k] = Executed(f[k - 1], ts[k])
                /\ ExecutedAll(d, ts) = f[Len(ts)]
<1> DEFINE F == CHOOSE f : Steps(d, ts, Len(ts), f)
<1>1. Steps(d, ts, Len(ts), F) BY StepsExist
<1>2. ExecutedAll(d, ts) = F[Len(ts)] BY DEF ExecutedAll, Steps
<1> HIDE DEF F
<1>3. \A k \in 0..Len(ts) : F[k] = IF k = 0 THEN d ELSE Executed(F[k - 1], ts[k])
  BY <1>1 DEF Steps
<1>4. F[0] = d BY <1>3
<1>5. \A k \in 1..Len(ts) : F[k] = Executed(F[k - 1], ts[k]) BY <1>3
<1> QED BY <1>2, <1>4, <1>5

-----------------------------------------------------------------------------
(* The writes of a save.                                                   *)

Savings(order, lost, n, f) ==
  f = [k \in 0..n |-> IF k = 0 THEN <<>> ELSE f[k - 1] \o SaveTasks(order[k], lost)]

LEMMA SavingsExist ==
  ASSUME NEW order, NEW lost, NEW len \in Nat PROVE \E f : Savings(order, lost, len, f)
<1> DEFINE Bad == {n \in Nat : ~\E f : Savings(order, lost, n, f)}
<1>1. SUFFICES ASSUME Bad # {} PROVE FALSE OBVIOUS
<1>2. PICK n \in Bad : \A m \in Bad : n <= m
  <2>1. Bad \subseteq Nat OBVIOUS
  <2> HIDE DEF Bad
  <2> QED BY <1>1, <2>1, Least
<1>3. n # 0
  <2>1. Savings(order, lost, 0, [k \in 0..0 |-> <<>>]) BY DEF Savings
  <2> QED BY <2>1
<1>4. PICK f : Savings(order, lost, n - 1, f) BY <1>2, <1>3
<1> DEFINE g == [k \in 0..n |-> IF k # n THEN f[k] ELSE f[n - 1] \o SaveTasks(order[n], lost)]
<1>5. \A k \in 0..(n - 1) : f[k] = IF k = 0 THEN <<>> ELSE f[k - 1] \o SaveTasks(order[k], lost)
  BY <1>4 DEF Savings
<1>6. ASSUME NEW k \in 0..n PROVE g[k] = IF k = 0 THEN <<>> ELSE g[k - 1] \o SaveTasks(order[k], lost)
  <2>1. CASE k = n
    <3>1. g[n - 1] = f[n - 1] /\ n - 1 \in 0..n BY <1>2, <1>3
    <3> QED BY <1>3, <2>1, <3>1
  <2>2. CASE k # n /\ k # 0
    <3>1. g[k] = f[k] /\ g[k - 1] = f[k - 1] /\ k \in 0..(n - 1) BY <2>2
    <3> QED BY <1>5, <2>2, <3>1
  <2>3. CASE k # n /\ k = 0
    <3>1. g[k] = f[k] /\ k \in 0..(n - 1) BY <2>3
    <3> QED BY <1>5, <2>3, <3>1
  <2> QED BY <2>1, <2>2, <2>3
<1> HIDE DEF g
<1>7. g = [k \in 0..n |-> g[k]] BY DEF g
<1>8. Savings(order, lost, n, g) BY <1>6, <1>7 DEF Savings
<1> QED BY <1>2, <1>8

\* What saveStateLocked may write, and must.
SaveWrites == {UnderTask(t) : t \in Tickers} \cup {RowsTask(t, book[t]) : t \in Tickers}

LEMMA TasksOfOne ==
  ASSUME NEW t \in Tickers, NEW lost
  PROVE  /\ SaveTasks(t, lost) \in Seq(SaveWrites)
         /\ Due(t) /\ lost = {} => /\ Len(SaveTasks(t, lost)) = 2
                                  /\ SaveTasks(t, lost)[2] = RowsTask(t, book[t])
<1> DEFINE under == IF <<"under", t>> \in lost THEN <<>> ELSE <<UnderTask(t)>>
           rows == IF <<"rows", t>> \in lost THEN <<>> ELSE <<RowsTask(t, book[t])>>
<1>1. UnderTask(t) \in SaveWrites /\ RowsTask(t, book[t]) \in SaveWrites BY DEF SaveWrites
<1>2. under \in Seq(SaveWrites) /\ rows \in Seq(SaveWrites) BY <1>1
<1>3. SaveTasks(t, lost) = IF Due(t) THEN under \o rows ELSE <<>> BY DEF SaveTasks
<1>4. lost = {} => under = <<UnderTask(t)>> /\ rows = <<RowsTask(t, book[t])>> OBVIOUS
<1> HIDE DEF under, rows
<1>5. SaveTasks(t, lost) \in Seq(SaveWrites) BY <1>2, <1>3
<1>6. ASSUME Due(t), lost = {}
      PROVE  Len(SaveTasks(t, lost)) = 2 /\ SaveTasks(t, lost)[2] = RowsTask(t, book[t])
  <2> DEFINE u == UnderTask(t)
             r == RowsTask(t, book[t])
  <2>1. SaveTasks(t, lost) = <<u>> \o <<r>> BY <1>3, <1>4, <1>6
  <2>2. r = RowsTask(t, book[t]) OBVIOUS
  <2> HIDE DEF u, r
  <2>3. <<u>> \in Seq({u, r}) /\ <<r>> \in Seq({u, r}) OBVIOUS
  <2>4. Len(<<u>> \o <<r>>) = 2 BY <2>3
  <2>5. (<<u>> \o <<r>>)[2] = r BY <2>3
  <2> QED BY <2>1, <2>2, <2>4, <2>5
<1> QED BY <1>5, <1>6

LEMMA AllSaved ==
  ASSUME NEW q \in Orders, NEW lost
  PROVE  /\ SaveSeqs(q, lost) \in Seq(SaveWrites)
         /\ lost = {} => \A t \in Tickers : Due(t) =>
              \E j \in 1..Len(SaveSeqs(q, lost)) : SaveSeqs(q, lost)[j] = RowsTask(t, book[t])
<1> DEFINE N == Cardinality(Tickers)
<1>1. N \in Nat BY BootAssumption, FS_CardinalityType DEF Tickers
<1>2. q \in [1..N -> Tickers] /\ \A t \in Tickers : \E k \in DOMAIN q : q[k] = t BY DEF Orders
<1> HIDE DEF N
<1>3. q \in Seq(Tickers) /\ Len(q) = N BY <1>1, <1>2
<1> DEFINE F == CHOOSE f : Savings(q, lost, N, f)
<1>4. Savings(q, lost, N, F) BY <1>1, SavingsExist
<1>5. SaveSeqs(q, lost) = F[N] BY <1>3 DEF SaveSeqs, Savings
<1> HIDE DEF F
<1>6. \A k \in 0..N : F[k] = IF k = 0 THEN <<>> ELSE F[k - 1] \o SaveTasks(q[k], lost)
  BY <1>4 DEF Savings
<1> DEFINE Good(n) == /\ F[n] \in Seq(SaveWrites)
                      /\ \A k \in 1..n : Due(q[k]) /\ lost = {} =>
                           \E j \in 1..Len(F[n]) : F[n][j] = RowsTask(q[k], book[q[k]])
           Bad == {n \in 0..N : ~Good(n)}
<1>7. Good(0)
  <2>1. F[0] = <<>> BY <1>1, <1>6
  <2>2. <<>> \in Seq(SaveWrites) OBVIOUS
  <2> QED BY <2>1, <2>2
<1>8. ASSUME NEW n \in 1..N, Good(n - 1) PROVE Good(n)
  <2> DEFINE s == F[n - 1]
             u == SaveTasks(q[n], lost)
  <2>1. F[n] = s \o u
    <3>1. n \in 0..N /\ n # 0 BY <1>1
    <3> HIDE DEF u, s
    <3> QED BY <1>6, <3>1 DEF s, u
  <2>2. s \in Seq(SaveWrites) BY <1>8
  <2>3. q[n] \in Tickers BY <1>2
  <2>4. u \in Seq(SaveWrites) /\ (Due(q[n]) /\ lost = {} => Len(u) = 2 /\ u[2] = RowsTask(q[n], book[q[n]]))
    BY <2>3, TasksOfOne
  <2> HIDE DEF u
  <2>5. \A k \in 1..(n - 1) : Due(q[k]) /\ lost = {} =>
          \E j \in 1..Len(s) : s[j] = RowsTask(q[k], book[q[k]])
    BY <1>8
  <2> HIDE DEF s
  <2>6. /\ s \o u \in Seq(SaveWrites) /\ Len(s \o u) = Len(s) + Len(u)
        /\ \A j \in 1..Len(s) : (s \o u)[j] = s[j]
        /\ \A j \in 1..Len(u) : (s \o u)[Len(s) + j] = u[j]
    BY <2>2, <2>4
  <2>7. Len(s) \in Nat /\ Len(u) \in Nat BY <2>2, <2>4
  <2>8. ASSUME NEW k \in 1..n, Due(q[k]), lost = {}
        PROVE  \E j \in 1..Len(s \o u) : (s \o u)[j] = RowsTask(q[k], book[q[k]])
    <3>1. CASE k = n
      <4>0. Len(u) = 2 /\ u[2] = RowsTask(q[k], book[q[k]]) BY <2>4, <2>8, <3>1
      <4>1. 2 \in 1..Len(u) /\ Len(s) + 2 \in 1..Len(s \o u)
        <5>1. Len(s \o u) = Len(s) + 2 BY <2>6, <4>0
        <5> HIDE DEF Good, Bad
        <5> QED BY <2>7, <4>0, <5>1
      <4>2. (s \o u)[Len(s) + 2] = RowsTask(q[k], book[q[k]])
        BY <2>6, <4>0, <4>1
      <4> QED BY <4>1, <4>2
    <3>2. CASE k # n
      <4>1. k \in 1..(n - 1) BY <3>2
      <4>2. PICK j \in 1..Len(s) : s[j] = RowsTask(q[k], book[q[k]]) BY <2>5, <2>8, <4>1
      <4>3. j \in 1..Len(s \o u) BY <2>6, <2>7
      <4> QED BY <2>6, <4>2, <4>3
    <3> QED BY <3>1, <3>2
  <2> QED BY <2>1, <2>6, <2>8
<1>9. Bad = {}
  <2> SUFFICES ASSUME Bad # {} PROVE FALSE OBVIOUS
  <2>1. Bad \subseteq Nat BY <1>1
  <2>2. PICK n \in Bad : \A m \in Bad : n <= m
    <3> HIDE DEF Bad
    <3> QED BY <2>1, Least
  <2> HIDE DEF Good
  <2>3. n # 0 /\ n \in 0..N BY <1>7
  <2>4. n \in 1..N /\ n - 1 \in 0..N /\ n - 1 \in Nat BY <1>1, <2>3
  <2>5. Good(n - 1) BY <2>2, <2>4
  <2> QED BY <1>8, <2>4, <2>5
<1>10. Good(N)
  <2> HIDE DEF Good
  <2> QED BY <1>1, <1>9
<1>11. ASSUME NEW t \in Tickers, Due(t), lost = {}
       PROVE  \E j \in 1..Len(F[N]) : F[N][j] = RowsTask(t, book[t])
  <2>1. PICK k \in 1..N : q[k] = t BY <1>2
  <2> QED BY <1>10, <1>11, <2>1
<1> QED BY <1>5, <1>10, <1>11

-----------------------------------------------------------------------------
(* Whose rows they are.                                                    *)

\* An exchange id names its ticker as a synthetic id does, and its contract too.
Own(rows, t) ==
  \A id \in DOMAIN rows :
    id[2] = t /\ (id[1] = "con" => rows[id].i = id[3] /\ rows[id].oi \in {"none", id[3]})
OwnTask(task) == task.kind # "under" => Own(task.rows, task.t)
OwnDb(d) ==
  /\ \A id \in DOMAIN d.rows : id[1] = "con" => id[2] = d.rows[id].t /\ d.rows[id].i = id[3]
  /\ \A id \in DOMAIN d.oi : id[1] = "con" => d.oi[id] = id[3]
\* A working chain has no open interest of an earlier session.
Reported(rows) == \A id \in DOMAIN rows : rows[id].oi \in {"none", rows[id].i}
OwnAll(ts) == (\E S : ts \in Seq(S)) /\ \A k \in 1..Len(ts) : OwnTask(ts[k])

\* Books, working chains, queued writes and database keep each ticker's rows under
\* its own ids; only synthetic ids of an older scheme may be foreign.  Under an
\* exchange id there is no other contract's open interest.
OwnInv ==
  /\ DOMAIN book = Tickers /\ DOMAIN chain = Tickers
  /\ \A t \in Tickers : Own(book[t], t) /\ Own(chain[t], t) /\ Reported(chain[t])
  /\ OwnAll(queue) /\ OwnDb(db)

LEMMA OwnEmpty == (\A t : Own(Empty, t)) /\ Reported(Empty)
BY DEF Own, Reported, Empty

LEMMA OwnJoin == ASSUME NEW ts, NEW us, OwnAll(ts), OwnAll(us) PROVE OwnAll(ts \o us)
<1>1. PICK S : ts \in Seq(S) BY DEF OwnAll
<1>2. PICK T : us \in Seq(T) BY DEF OwnAll
<1>3. ts \in Seq(S \cup T) /\ us \in Seq(S \cup T) BY <1>1, <1>2
<1>4. ts \o us \in Seq(S \cup T) /\ Len(ts \o us) = Len(ts) + Len(us)
  BY <1>3
<1>5. ASSUME NEW k \in 1..Len(ts \o us) PROVE OwnTask((ts \o us)[k])
  <2>1. (ts \o us)[k] = IF k <= Len(ts) THEN ts[k] ELSE us[k - Len(ts)] BY <1>3, <1>4
  <2>2. k <= Len(ts) => k \in 1..Len(ts) BY <1>3
  <2>3. ~(k <= Len(ts)) => k - Len(ts) \in 1..Len(us) BY <1>3, <1>4
  <2> QED BY <2>1, <2>2, <2>3 DEF OwnAll
<1> QED BY <1>4, <1>5 DEF OwnAll

LEMMA OwnPart ==
  ASSUME NEW ts, OwnAll(ts), NEW m \in Nat, NEW n \in Nat, m >= 1, n <= Len(ts)
  PROVE  OwnAll(SubSeq(ts, m, n))
<1>1. PICK S : ts \in Seq(S) BY DEF OwnAll
<1>2. SubSeq(ts, m, n) \in Seq(S) BY <1>1
<1>3. ASSUME NEW k \in 1..Len(SubSeq(ts, m, n)) PROVE OwnTask(SubSeq(ts, m, n)[k])
  <2>1. SubSeq(ts, m, n)[k] = ts[m + k - 1] /\ m + k - 1 \in 1..Len(ts) BY <1>1
  <2> QED BY <2>1 DEF OwnAll
<1> QED BY <1>2, <1>3 DEF OwnAll

LEMMA OwnOne == ASSUME NEW t, NEW rows, Own(rows, t) PROVE OwnAll(<<RowsTask(t, rows)>>)
<1>1. OwnTask(RowsTask(t, rows)) BY DEF OwnTask, RowsTask
<1> DEFINE task == RowsTask(t, rows)
<1> HIDE DEF task
<1>2. <<task>> \in Seq({task}) /\ Len(<<task>>) = 1 /\ <<task>>[1] = task OBVIOUS
<1>3. \A k \in 1..Len(<<task>>) : OwnTask(<<task>>[k]) BY <1>1, <1>2 DEF task
<1> QED BY <1>2, <1>3 DEF OwnAll, task

LEMMA OwnSaves ==
  ASSUME \A t \in Tickers : Own(book[t], t), NEW q \in Orders, NEW lost
  PROVE  OwnAll(SaveSeqs(q, lost))
<1>1. SaveSeqs(q, lost) \in Seq(SaveWrites) BY AllSaved
<1>2. \A task \in SaveWrites : OwnTask(task)
  BY DEF SaveWrites, OwnTask, UnderTask, RowsTask
<1> QED BY <1>1, <1>2 DEF OwnAll

LEMMA ExecutedParts ==
  ASSUME NEW d, NEW task
  PROVE  /\ task.kind = "under" => /\ Executed(d, task).rows = d.rows
                                   /\ Executed(d, task).oi = d.oi
         /\ task.kind # "under" =>
              /\ DOMAIN Executed(d, task).rows = DOMAIN d.rows \cup DOMAIN task.rows
              /\ \A id \in DOMAIN task.rows :
                   /\ Executed(d, task).rows[id].t = task.t
                   /\ Executed(d, task).rows[id].i = task.rows[id].i
              /\ \A id \in DOMAIN d.rows \ DOMAIN task.rows :
                   Executed(d, task).rows[id] = d.rows[id]
              /\ DOMAIN Executed(d, task).oi = DOMAIN d.oi \cup OiWritten(task.rows)
              /\ \A id \in OiWritten(task.rows) :
                   Executed(d, task).oi[id] = task.rows[id].oi
              /\ \A id \in DOMAIN d.oi \ OiWritten(task.rows) :
                   Executed(d, task).oi[id] = d.oi[id]
<1>1. CASE task.kind = "under" BY <1>1 DEF Executed
<1>2. CASE task.kind # "under" BY <1>2 DEF Executed, Override
<1> QED BY <1>1, <1>2

LEMMA ExecutedOwn ==
  ASSUME NEW d, NEW task, OwnDb(d), OwnTask(task) PROVE OwnDb(Executed(d, task))
<1>1. CASE task.kind = "under" BY <1>1, ExecutedParts DEF OwnDb
<1>2. CASE task.kind # "under"
  <2>1. Own(task.rows, task.t) BY <1>2 DEF OwnTask
  <2>2. \A id \in OiWritten(task.rows) :
          id \in DOMAIN task.rows /\ task.rows[id].oi # "none"
    BY DEF OiWritten
  <2>3. \A id \in DOMAIN Executed(d, task).rows :
          id[1] = "con" => id[2] = Executed(d, task).rows[id].t
                           /\ Executed(d, task).rows[id].i = id[3]
    BY <1>2, <2>1, ExecutedParts DEF OwnDb, Own
  <2>4. \A id \in DOMAIN Executed(d, task).oi :
          id[1] = "con" => Executed(d, task).oi[id] = id[3]
    BY <1>2, <2>1, <2>2, ExecutedParts DEF OwnDb, Own
  <2> QED BY <2>3, <2>4 DEF OwnDb
<1> QED BY <1>1, <1>2

LEMMA ExecutedAllOwn ==
  ASSUME NEW d, NEW ts, OwnDb(d), OwnAll(ts) PROVE OwnDb(ExecutedAll(d, ts))
<1>1. Len(ts) \in Nat BY DEF OwnAll
<1>2. PICK f : /\ f[0] = d /\ \A k \in 1..Len(ts) : f[k] = Executed(f[k - 1], ts[k])
               /\ ExecutedAll(d, ts) = f[Len(ts)]
  BY <1>1, ExecutedSteps
<1> DEFINE Bad == {n \in 0..Len(ts) : ~OwnDb(f[n])}
<1>3. Bad = {}
  <2> SUFFICES ASSUME Bad # {} PROVE FALSE OBVIOUS
  <2>1. Bad \subseteq Nat BY <1>1
  <2>2. PICK n \in Bad : \A m \in Bad : n <= m
    <3> HIDE DEF Bad
    <3> QED BY <2>1, Least
  <2>3. n # 0 BY <1>2
  <2>4. n \in 1..Len(ts) /\ n - 1 \in 0..Len(ts) BY <1>1, <2>2, <2>3
  <2>5. OwnDb(f[n - 1])
    <3>1. ~(n <= n - 1) BY <2>4
    <3> QED BY <2>2, <2>4, <3>1
  <2>6. OwnTask(ts[n]) BY <2>4 DEF OwnAll
  <2> QED BY <1>2, <2>2, <2>4, <2>5, <2>6, ExecutedOwn
<1>4. Len(ts) \in 0..Len(ts) BY <1>1
<1> QED BY <1>2, <1>3, <1>4

LEMMA MigratedOwn == ASSUME OwnDb(db) PROVE OwnDb(Migrated)
BY MigratedParts DEF OwnDb

LEMMA RestoredOwn == ASSUME OwnDb(db), NEW t PROVE Own(Restored(Kept(db, t)), t)
<1>1. ASSUME NEW id \in DOMAIN Kept(db, t)
      PROVE  id[2] = t /\ (id[1] = "con" => /\ Kept(db, t)[id].i = id[3]
                                            /\ Kept(db, t)[id].oi \in {"none", id[3]})
  <2>1. Belongs(id, t) /\ id \in DOMAIN db.rows /\ db.rows[id].t = t BY DEF Kept, Loaded
  <2>2. Kept(db, t)[id] = Row(db.rows[id].i, IF id \in DOMAIN db.oi THEN db.oi[id] ELSE "none")
    BY <2>1 DEF Kept, Loaded
  <2>3. Kept(db, t)[id].i = db.rows[id].i
        /\ Kept(db, t)[id].oi = IF id \in DOMAIN db.oi THEN db.oi[id] ELSE "none"
    BY <2>2 DEF Row
  <2> QED BY <2>1, <2>3 DEF OwnDb, Belongs
<1> QED BY <1>1, OwnEmpty DEF Own, Restored

LEMMA SeedOwn == ASSUME NEW t, NEW f PROVE Own(Seed(t, f), t)
BY DEF Own, Seed, Syn

\* Every step keeps the rows with their tickers.
LEMMA AppliedOwn ==
  ASSUME OwnInv, NEW t \in Tickers, NEW rows, Own(rows, t), Reported(rows), Apply(t, rows),
         chain' = [chain EXCEPT ![t] = rows]
  PROVE  /\ DOMAIN book' = Tickers /\ DOMAIN chain' = Tickers
         /\ \A u \in Tickers : Own(book'[u], u) /\ Own(chain'[u], u) /\ Reported(chain'[u])
<1>1. book' = book \/ book' = [book EXCEPT ![t] = rows] BY DEF Apply
<1> QED BY <1>1 DEF OwnInv

LEMMA OwnInit == BootInit => OwnInv
<1> SUFFICES ASSUME BootInit PROVE OwnInv OBVIOUS
<1>1. /\ DOMAIN book = Tickers /\ DOMAIN chain = Tickers
      /\ \A t \in Tickers : Own(book[t], t) /\ Own(chain[t], t) /\ Reported(chain[t])
  BY OwnEmpty DEF BootInit, NoBooks
<1>2. OwnAll(queue)
  <2>1. queue = <<>> BY DEF BootInit
  <2>2. queue \in Seq({}) /\ Len(queue) = 0 BY <2>1
  <2> QED BY <2>2 DEF OwnAll
<1>3. OwnDb(db)
  <2>1. CASE db = [under |-> {}, rows |-> Empty, oi |-> Empty] BY <2>1 DEF OwnDb, Empty
  <2>2. CASE db \in LegacyDb
    <3>1. PICK t \in Listed, u \in Unlisted, i \in Identities :
            db = [under |-> {t}, rows |-> [id \in {Syn(u, 1)} |-> [t |-> t, i |-> i]],
                  oi |-> [id \in {Syn(u, 1)} |-> i]]
      BY <2>2 DEF LegacyDb
    <3>2. DOMAIN db.rows = {Syn(u, 1)} /\ DOMAIN db.oi = {Syn(u, 1)} BY <3>1
    <3>3. Syn(u, 1)[1] # "con" BY DEF Syn
    <3> QED BY <3>2, <3>3 DEF OwnDb
  <2> QED BY <2>1, <2>2 DEF BootInit
<1> QED BY <1>1, <1>2, <1>3 DEF OwnInv

LEMMA OwnStopped == ASSUME Stopped, OwnDb(db)' PROVE OwnInv'
<1>1. \A t \in Tickers : Own(book'[t], t) /\ Own(chain'[t], t) /\ Reported(chain'[t])
  BY OwnEmpty DEF Stopped, NoBooks
<1>2. DOMAIN book' = Tickers /\ DOMAIN chain' = Tickers BY DEF Stopped, NoBooks
<1>3. OwnAll(queue)'
  <2>1. queue' = <<>> BY DEF Stopped
  <2>2. queue' \in Seq({}) /\ Len(queue') = 0 BY <2>1
  <2> QED BY <2>2 DEF OwnAll
<1> QED BY <1>1, <1>2, <1>3 DEF OwnInv, Tickers

LEMMA OwnStep == OwnInv /\ [BootNext]_bootVars => OwnInv'
<1> SUFFICES ASSUME OwnInv, [BootNext]_bootVars PROVE OwnInv' OBVIOUS
<1>0. OwnDb(db) /\ OwnAll(queue) BY DEF OwnInv
<1>1. ASSUME NEW flag \in BOOLEAN, NEW slot, NEW f, BootOk(flag, slot, f) PROVE OwnInv'
  <2>1. db' = Migrated /\ UNCHANGED <<chain, queue>> /\ DOMAIN book' = Tickers
        /\ \A t \in Tickers : book'[t] = IF t \in Listed THEN Booted(Migrated, f, t)
                                          ELSE IF t = slot THEN Restored(Kept(Migrated, t))
                                          ELSE Empty
    BY <1>1 DEF BootOk
  <2>2. ASSUME NEW t \in Tickers PROVE Own(book'[t], t)
    <3>1. Kept(Migrated, t) = Kept(db, t) BY MigratedKept
    <3>2. Own(Restored(Kept(db, t)), t) /\ Own(Seed(t, f), t) /\ Own(Empty, t)
      BY <1>0, RestoredOwn, SeedOwn, OwnEmpty
    <3> QED BY <2>1, <3>1, <3>2 DEF Booted
  <2>3. OwnDb(db') BY <1>0, <2>1, MigratedOwn
  <2>4. OwnAll(queue') BY <1>0, <2>1
  <2> QED BY <2>1, <2>2, <2>3, <2>4 DEF OwnInv, Tickers
<1>2. CASE BootRefused
  <2>1. OwnDb(db') BY <1>0, <1>2, MigratedOwn DEF BootRefused
  <2> QED BY <1>2, <2>1 DEF BootRefused, OwnInv, Tickers
<1>3. CASE Close
  <2>1. PICK q \in Orders, lost \in SUBSET Refusable :
          \E n \in 0..Len(queue \o SaveSeqs(q, lost)) :
            db' = ExecutedAll(db, SubSeq(queue \o SaveSeqs(q, lost), 1, n))
    BY <1>3, Zenon DEF Close
  <2> DEFINE left == queue \o SaveSeqs(q, lost)
  <2>2. OwnAll(SaveSeqs(q, lost)) BY OwnSaves DEF OwnInv
  <2>3. OwnAll(left) BY <1>0, <2>2, OwnJoin
  <2>4. PICK n \in 0..Len(left) : db' = ExecutedAll(db, SubSeq(left, 1, n)) BY <2>1
  <2> HIDE DEF left
  <2>5. Len(left) \in Nat /\ n \in Nat /\ n <= Len(left) BY <2>3 DEF OwnAll
  <2>6. OwnAll(SubSeq(left, 1, n)) BY <2>3, <2>5, OwnPart
  <2>7. OwnDb(db') BY <1>0, <2>4, <2>6, ExecutedAllOwn
  <2> QED BY <1>3, <2>7, OwnStopped DEF Close
<1>4. CASE Crash
  <2>1. OwnDb(db') BY <1>0, <1>4 DEF Crash
  <2> QED BY <1>4, <2>1, OwnStopped DEF Crash
<1>5. CASE NextDay \/ UNCHANGED bootVars
  BY <1>5 DEF NextDay, bootVars, OwnInv, Tickers
<1>6. CASE Save
  <2>1. PICK q \in Orders, lost \in SUBSET Refusable : queue' = queue \o SaveSeqs(q, lost)
    BY <1>6 DEF Save, Enqueue
  <2>2. OwnAll(SaveSeqs(q, lost)) BY OwnSaves DEF OwnInv
  <2>3. OwnAll(queue') BY <1>0, <2>1, <2>2, OwnJoin
  <2> QED BY <1>6, <2>3 DEF Save, OwnInv, Tickers
<1>7. ASSUME NEW n \in 1..MaxQueue, Commit(n) PROVE OwnInv'
  <2>1. n <= Len(queue) /\ Len(queue) \in Nat /\ n \in Nat BY <1>0, <1>7 DEF Commit, OwnAll
  <2>2. OwnAll(SubSeq(queue, 1, n)) /\ OwnAll(SubSeq(queue, n + 1, Len(queue)))
    BY <1>0, <2>1, OwnPart
  <2>3. OwnDb(db') BY <1>0, <1>7, <2>2, ExecutedAllOwn DEF Commit
  <2> QED BY <1>7, <2>2, <2>3 DEF Commit, OwnInv, Tickers
<1>8. ASSUME NEW t \in Tickers, NEW kept, NEW f, Discover(t, kept, f) PROVE OwnInv'
  <2> DEFINE carried == {id \in DOMAIN chain[t] : chain[t][id].i \in kept}
             bare == kept \ Contracts(chain[t])
             fresh == {Syn(t, nextSyn[t] + f[i]) : i \in bare}
             new == Override([id \in carried |-> chain[t][id]],
                             [id \in fresh |->
                                Row(CHOOSE i \in bare : Syn(t, nextSyn[t] + f[i]) = id, "none")])
  <2>1. /\ chain' = [chain EXCEPT ![t] = new] /\ Apply(t, new) /\ db' = db
        /\ queue' = queue \/ queue' = queue \o <<RowsTask(t, new)>>
    BY <1>8 DEF Discover, Persist, Enqueue
  <2>2. Own(new, t) /\ Reported(new)
    <3>1. DOMAIN new = carried \cup fresh BY DEF Override
    <3>2. \A id \in fresh : id[2] = t /\ id[1] # "con" /\ new[id].oi = "none"
      BY DEF Syn, Override, Row
    <3>3. \A id \in carried : id \notin fresh => new[id] = chain[t][id] BY DEF Override
    <3>4. \A id \in carried : id \in DOMAIN chain[t] OBVIOUS
    <3>5. Own(chain[t], t) /\ Reported(chain[t]) BY DEF OwnInv
    <3> HIDE DEF new, carried, fresh
    <3> QED BY <3>1, <3>2, <3>3, <3>4, <3>5 DEF Own, Reported
  <2> HIDE DEF new
  <2>3. OwnAll(queue') BY <1>0, <2>1, <2>2, OwnOne, OwnJoin
  <2>4. OwnDb(db') BY <1>0, <2>1
  <2> QED BY <2>1, <2>2, <2>3, <2>4, AppliedOwn DEF OwnInv, Tickers
<1>9. ASSUME NEW t \in Tickers, NEW i \in Identities, VendorOI(t, i) PROVE OwnInv'
  <2> DEFINE new == [chain[t] EXCEPT ![IdOf(chain[t], i)].oi = i]
  <2>1. chain' = [chain EXCEPT ![t] = new] /\ Apply(t, new) /\ db' = db /\ queue' = queue
    BY <1>9 DEF VendorOI
  <2>2. Own(new, t) /\ Reported(new)
    <3> DEFINE at == IdOf(chain[t], i)
    <3>1. at \in DOMAIN chain[t] /\ chain[t][at].i = i
      BY <1>9 DEF VendorOI, Contracts, IdOf
    <3>2. \A id \in DOMAIN chain[t] : id # at => new[id] = chain[t][id] OBVIOUS
    <3>3. DOMAIN new = DOMAIN chain[t] OBVIOUS
    <3>4. new[at] = [chain[t][at] EXCEPT !.oi = i] BY <3>1
    <3>5. Own(chain[t], t) /\ Reported(chain[t]) BY DEF OwnInv
    <3> HIDE DEF new, at
    <3>6. new[at].i = i /\ new[at].oi = i BY <3>1, <3>4, <3>5
    <3> QED BY <3>1, <3>2, <3>3, <3>5, <3>6 DEF Own, Reported
  <2> HIDE DEF new
  <2>3. OwnAll(queue') /\ OwnDb(db') BY <1>0, <2>1
  <2> QED BY <2>1, <2>2, <2>3, AppliedOwn DEF OwnInv, Tickers
<1>10. ASSUME NEW t \in Tickers, NEW i \in Identities, NEW oi, Resolve(t, i, oi) PROVE OwnInv'
  <2> DEFINE new == Override(Without(chain[t], {IdOf(chain[t], i)}),
                             [id \in {Con(t, i)} |-> Row(i, oi)])
             one == [id \in {Con(t, i)} |-> new[id]]
  <2>1. /\ chain' = [chain EXCEPT ![t] = new] /\ Apply(t, new) /\ db' = db
        /\ queue' = queue \/ queue' = queue \o <<RowsTask(t, one)>>
    BY <1>10 DEF Resolve, Persist, Enqueue
  <2>2. Own(new, t) /\ Own(one, t) /\ Reported(new)
    <3> DEFINE at == IdOf(chain[t], i)
    <3>1. /\ DOMAIN new \subseteq DOMAIN chain[t] \cup {Con(t, i)}
          /\ DOMAIN one = {Con(t, i)} /\ one[Con(t, i)] = new[Con(t, i)]
          /\ new[Con(t, i)] = Row(i, oi)
          /\ \A id \in DOMAIN new : id # Con(t, i) => new[id] = chain[t][id]
      BY DEF Override, Without
    <3>2. Con(t, i)[2] = t /\ Con(t, i)[3] = i BY DEF Con
    <3>3. at \in DOMAIN chain[t] /\ chain[t][at].i = i /\ oi \in {chain[t][at].oi, i}
      BY <1>10 DEF Resolve, Contracts, IdOf
    <3>4. Own(chain[t], t) /\ Reported(chain[t]) BY DEF OwnInv
    <3>5. new[Con(t, i)].i = i /\ new[Con(t, i)].oi \in {"none", i}
      BY <3>1, <3>3, <3>4 DEF Row, Reported
    <3> HIDE DEF new, one, at
    <3> QED BY <3>1, <3>2, <3>4, <3>5 DEF Own, Reported
  <2> HIDE DEF new, one
  <2>3. OwnAll(queue') BY <1>0, <2>1, <2>2, OwnOne, OwnJoin
  <2>4. OwnDb(db') BY <1>0, <2>1
  <2> QED BY <2>1, <2>2, <2>3, <2>4, AppliedOwn DEF OwnInv, Tickers
<1>11. CASE Abort
  <2>1. OwnAll(queue')
    <3>1. queue' = <<>> BY <1>11 DEF Abort
    <3>2. queue' \in Seq({}) /\ Len(queue') = 0 BY <3>1
    <3> QED BY <3>2 DEF OwnAll
  <2> QED BY <1>11, <2>1 DEF Abort, OwnInv, Tickers
<1> QED BY <1>1, <1>2, <1>3, <1>4, <1>5, <1>6, <1>7, <1>8, <1>9, <1>10, <1>11 DEF BootNext

-----------------------------------------------------------------------------
(* What a Close leaves.                                                    *)

\* The rows are in the database as rows of t, and with their open interest.
Has(d, t, rows) ==
  \A id \in DOMAIN rows :
    /\ id \in DOMAIN d.rows /\ d.rows[id].t = t /\ d.rows[id].i = rows[id].i
    /\ rows[id].oi # "none" => id \in DOMAIN d.oi /\ d.oi[id] = rows[id].oi

\* The books of a Close, until something is written behind it.
SavedInv == \A t \in Tickers : Own(saved[t], t) /\ Has(db, t, saved[t])

LEMMA ExecutedWrites ==
  ASSUME NEW d, NEW t, NEW rows PROVE Has(Executed(d, RowsTask(t, rows)), t, rows)
<1> DEFINE task == RowsTask(t, rows)
<1>1. task.kind # "under" /\ task.t = t /\ task.rows = rows BY DEF RowsTask
<1> HIDE DEF task
<1>2. \A id \in DOMAIN rows : rows[id].oi # "none" => id \in OiWritten(rows) BY DEF OiWritten
<1> QED BY <1>1, <1>2, ExecutedParts DEF Has, task

\* Later writes are of other tickers, or the same again.
LEMMA ExecutedKeeps ==
  ASSUME NEW d, NEW t, NEW rows, Own(rows, t), Has(d, t, rows), NEW task \in SaveWrites,
         rows = book[t], \A u \in Tickers : Own(book[u], u)
  PROVE  Has(Executed(d, task), t, rows)
<1>1. PICK u \in Tickers : task = UnderTask(u) \/ task = RowsTask(u, book[u]) BY DEF SaveWrites
<1>2. CASE task = UnderTask(u)
  <2>1. task.kind = "under" BY <1>2 DEF UnderTask
  <2> QED BY <2>1, ExecutedParts DEF Has
<1>3. CASE task = RowsTask(u, book[u]) /\ u = t BY <1>3, ExecutedWrites
<1>4. CASE task = RowsTask(u, book[u]) /\ u # t
  <2>1. task.kind # "under" /\ task.rows = book[u] BY <1>4 DEF RowsTask
  <2>2. \A id \in DOMAIN rows : id \notin DOMAIN book[u] BY <1>4 DEF Own
  <2>3. OiWritten(book[u]) \subseteq DOMAIN book[u] BY DEF OiWritten
  <2> QED BY <2>1, <2>2, <2>3, ExecutedParts DEF Has
<1> QED BY <1>1, <1>2, <1>3, <1>4

LEMMA ClosedHas ==
  ASSUME OwnInv, NEW q \in Orders, NEW t \in Tickers, Due(t)
  PROVE  Has(ExecutedAll(db, queue \o SaveSeqs(q, {})), t, book[t])
<1> DEFINE saves == SaveSeqs(q, {})
           ts == queue \o saves
           base == Len(queue)
           has(d) == Has(d, t, book[t])
<1>1. /\ saves \in Seq(SaveWrites)
      /\ \E j \in 1..Len(saves) : saves[j] = RowsTask(t, book[t])
  BY AllSaved
<1>2. PICK S : queue \in Seq(S) BY DEF OwnInv, OwnAll
<1> HIDE DEF saves
<1>3. PICK j \in 1..Len(saves) : saves[j] = RowsTask(t, book[t]) BY <1>1
<1>4. queue \in Seq(S \cup SaveWrites) /\ saves \in Seq(S \cup SaveWrites) BY <1>1, <1>2
<1>5. /\ Len(ts) = base + Len(saves) /\ base \in Nat /\ Len(saves) \in Nat /\ Len(ts) \in Nat
      /\ \A k \in 1..Len(saves) : ts[base + k] = saves[k]
  BY <1>4
<1> HIDE DEF ts, base
<1>6. PICK f : /\ f[0] = db /\ \A k \in 1..Len(ts) : f[k] = Executed(f[k - 1], ts[k])
               /\ ExecutedAll(db, ts) = f[Len(ts)]
  <2>1. Len(ts) \in Nat BY <1>5
  <2> HIDE DEF has
  <2> QED BY <2>1, ExecutedSteps, ZenonT(60)
<1> DEFINE first == base + j
           Bad == {n \in first..Len(ts) : ~has(f[n])}
<1>7. has(f[first])
  <2>1. first \in 1..Len(ts) /\ ts[first] = saves[j] BY <1>5
  <2> HIDE DEF first
  <2>2. f[first] = Executed(f[first - 1], saves[j]) BY <1>6, <2>1
  <2> QED BY <1>3, <2>2, ExecutedWrites
<1>8. Bad = {}
  <2> SUFFICES ASSUME Bad # {} PROVE FALSE OBVIOUS
  <2>1. Bad \subseteq Nat BY <1>5
  <2>2. PICK n \in Bad : \A m \in Bad : n <= m
    <3> HIDE DEF Bad
    <3> QED BY <2>1, Least
  <2>3. n # first /\ n \in first..Len(ts) BY <1>7
  <2>4. /\ n \in 1..Len(ts) /\ n - 1 \in first..Len(ts) /\ ~(n <= n - 1)
        /\ n - base \in 1..Len(saves)
    <3> HIDE DEF Bad
    <3> QED BY <1>5, <2>3
  <2>5. has(f[n - 1]) BY <2>2, <2>4
  <2>6. ts[n] = saves[n - base]
    <3>1. base + (n - base) = n BY <1>5, <2>4
    <3> QED BY <1>5, <2>4, <3>1
  <2>7. ts[n] \in SaveWrites BY <1>1, <2>4, <2>6
  <2>8. Own(book[t], t) /\ \A u \in Tickers : Own(book[u], u) BY DEF OwnInv
  <2>9. has(Executed(f[n - 1], ts[n])) BY <2>5, <2>7, <2>8, ExecutedKeeps
  <2> QED BY <1>6, <2>2, <2>4, <2>9
<1>9. Len(ts) \in first..Len(ts) BY <1>5
<1> QED BY <1>6, <1>8, <1>9 DEF ts, saves

LEMMA SavedEmpty == ASSUME saved' = NoBooks PROVE SavedInv'
BY OwnEmpty DEF SavedInv, NoBooks, Has, Empty, Tickers

LEMMA SavedMigrated ==
  ASSUME SavedInv, saved' = saved, db' = Migrated PROVE SavedInv'
<1>1. ASSUME NEW t \in Tickers PROVE Own(saved[t], t) /\ Has(Migrated, t, saved[t])
  <2>1. Own(saved[t], t) /\ Has(db, t, saved[t]) BY DEF SavedInv
  <2>2. \A id \in DOMAIN saved[t] : id \notin Foreign
    BY <2>1 DEF Own, Has, Foreign, Belongs
  <2> QED BY <2>1, <2>2, MigratedParts DEF Has
<1> QED BY <1>1 DEF SavedInv, Tickers

LEMMA SavedInit == BootInit => SavedInv
BY OwnEmpty DEF BootInit, SavedInv, NoBooks, Has, Empty

LEMMA SavedStep == OwnInv /\ SavedInv /\ [BootNext]_bootVars => SavedInv'
<1> SUFFICES ASSUME OwnInv, SavedInv, [BootNext]_bootVars PROVE SavedInv' OBVIOUS
<1>0. ASSUME UNCHANGED <<db, saved>> PROVE SavedInv' BY <1>0 DEF SavedInv, Tickers
<1>1. ASSUME NEW flag \in BOOLEAN, NEW slot, NEW f, BootOk(flag, slot, f) PROVE SavedInv'
  BY <1>1, SavedMigrated DEF BootOk
<1>2. CASE BootRefused BY <1>2, SavedMigrated DEF BootRefused
<1>3. CASE Close
  <2>0. PICK q \in Orders, lost \in SUBSET Refusable :
          LET left == queue \o SaveSeqs(q, lost) IN
          \E n \in 0..Len(left) :
            /\ db' = ExecutedAll(db, SubSeq(left, 1, n))
            /\ saved' = IF lost = {} /\ n = Len(left)
                          THEN [t \in Tickers |-> IF InService(t) THEN book[t] ELSE Empty]
                          ELSE NoBooks
    BY <1>3, Zenon DEF Close
  <2> DEFINE left == queue \o SaveSeqs(q, lost)
  <2>1. CASE saved' = NoBooks BY <2>1, SavedEmpty
  <2>2. CASE saved' # NoBooks
    <3>0. /\ lost = {} /\ db' = ExecutedAll(db, SubSeq(left, 1, Len(left)))
          /\ saved' = [t \in Tickers |-> IF InService(t) THEN book[t] ELSE Empty]
      BY <2>0, <2>2
    <3>1. db' = ExecutedAll(db, queue \o SaveSeqs(q, {}))
      <4>1. OwnAll(SaveSeqs(q, lost)) BY OwnSaves DEF OwnInv
      <4>2. OwnAll(left) BY <4>1, OwnJoin DEF OwnInv
      <4>3. SubSeq(left, 1, Len(left)) = left
        <5> HIDE DEF left
        <5> QED BY <4>2 DEF OwnAll
      <4> QED BY <3>0, <4>3
    <3>2. ASSUME NEW t \in Tickers PROVE Own(saved'[t], t) /\ Has(db', t, saved'[t])
      <4>1. saved'[t] = IF InService(t) THEN book[t] ELSE Empty BY <3>0
      <4>2. CASE Due(t)
        <5>1. saved'[t] = book[t] BY <4>1, <4>2 DEF Due
        <5> QED BY <3>1, <4>2, <5>1, ClosedHas DEF OwnInv
      <4>3. CASE ~Due(t)
        <5>1. saved'[t] = Empty BY <4>1, <4>3 DEF Due
        <5> QED BY <5>1, OwnEmpty DEF Has, Empty
      <4> QED BY <4>2, <4>3
    <3> QED BY <3>2 DEF SavedInv, Tickers
  <2> QED BY <2>1, <2>2
<1>4. CASE Crash \/ NextDay \/ Save \/ Abort \/ UNCHANGED bootVars
  BY <1>0, <1>4 DEF Crash, NextDay, Save, Abort, bootVars
<1>5. ASSUME NEW n \in 1..MaxQueue, Commit(n) PROVE SavedInv' BY <1>5, SavedEmpty DEF Commit
<1>6. ASSUME NEW t \in Tickers, NEW kept, NEW f, Discover(t, kept, f) PROVE SavedInv'
  BY <1>0, <1>6 DEF Discover
<1>7. ASSUME NEW t \in Tickers, NEW i \in Identities, VendorOI(t, i) PROVE SavedInv'
  BY <1>0, <1>7 DEF VendorOI
<1>8. ASSUME NEW t \in Tickers, NEW i \in Identities, NEW oi, Resolve(t, i, oi) PROVE SavedInv'
  BY <1>0, <1>8 DEF Resolve
<1> QED BY <1>1, <1>2, <1>3, <1>4, <1>5, <1>6, <1>7, <1>8 DEF BootNext

DayInv == day \in Nat

LEMMA DayInit == BootInit => DayInv
BY DEF BootInit, DayInv

LEMMA DayStep == DayInv /\ [BootNext]_bootVars => DayInv'
<1> SUFFICES ASSUME day \in Nat, [BootNext]_bootVars PROVE day' \in Nat BY DEF DayInv
<1>1. ASSUME NEW flag \in BOOLEAN, NEW slot, NEW f, BootOk(flag, slot, f) PROVE day' = day
  BY <1>1 DEF BootOk
<1>2. ASSUME BootRefused \/ Close \/ Crash \/ Save \/ Abort \/ UNCHANGED bootVars
      PROVE  day' = day
  BY <1>2 DEF BootRefused, Close, Crash, Save, Abort, bootVars
<1>3. CASE NextDay BY <1>3 DEF NextDay
<1>4. ASSUME NEW n \in 1..MaxQueue, Commit(n) PROVE day' = day BY <1>4 DEF Commit
<1>5. ASSUME NEW t \in Tickers, NEW kept, NEW f, Discover(t, kept, f) PROVE day' = day
  BY <1>5 DEF Discover
<1>6. ASSUME NEW t \in Tickers, NEW i \in Identities, VendorOI(t, i) PROVE day' = day
  BY <1>6 DEF VendorOI
<1>7. ASSUME NEW t \in Tickers, NEW i \in Identities, NEW oi, Resolve(t, i, oi) PROVE day' = day
  BY <1>7 DEF Resolve
<1> QED BY <1>1, <1>2, <1>3, <1>4, <1>5, <1>6, <1>7 DEF BootNext

\* A row that a start keeps.
LEMMA KeptHas ==
  ASSUME NEW t, NEW rows, Own(rows, t), Has(db, t, rows), NEW id \in DOMAIN rows,
         Dte(rows[id].i) >= 0
  PROVE  /\ id \in DOMAIN Kept(db, t) /\ Kept(db, t)[id].i = rows[id].i
         /\ rows[id].oi # "none" => Kept(db, t)[id].oi = rows[id].oi
<1> DEFINE all == Loaded(db, t)
<1>1. /\ id \in DOMAIN db.rows /\ db.rows[id].t = t /\ db.rows[id].i = rows[id].i
      /\ rows[id].oi # "none" => id \in DOMAIN db.oi /\ db.oi[id] = rows[id].oi
  BY DEF Has
<1>2. /\ id \in DOMAIN all /\ all[id].i = rows[id].i
      /\ rows[id].oi # "none" => all[id].oi = rows[id].oi
  BY <1>1 DEF Loaded, Row
<1>3. Belongs(id, t) BY DEF Own, Belongs
<1> HIDE DEF all
<1>4. id \in DOMAIN Kept(db, t) /\ Kept(db, t)[id] = all[id] BY <1>2, <1>3 DEF Kept, all
<1> QED BY <1>2, <1>4

\* After a Close whose writes all went through, and behind which nothing was
\* written, the next session has every contract of the old book that can still be
\* priced, with the open interest it had; where it had none, an exchange id brings
\* back none or its own contract's (boot.go:11-14, 76-78, store.go:339).  Boots that
\* fail and days that pass in between do not matter.
THEOREM RestartKeepsBook == BootSpec => CleanRestartKeepsBook
<1>1. ASSUME OwnInv, SavedInv, DayInv, [BootNext]_bootVars, Boots, NEW t \in Tickers,
             t \in Listed \/ t = custom', NEW id \in DOMAIN Restored(saved[t]), Dte(saved[t][id].i) >= 0
      PROVE  /\ id \in DOMAIN book'[t] /\ book'[t][id].i = saved[t][id].i
             /\ saved[t][id].oi # "none" => book'[t][id].oi = saved[t][id].oi
             /\ saved[t][id].oi = "none" /\ id[1] = "con"
                  => book'[t][id].oi \in {"none", saved[t][id].i}
  <2>1. Own(saved[t], t) /\ Has(db, t, saved[t]) BY <1>1 DEF SavedInv
  <2>2. PICK far \in DOMAIN saved[t] : Dte(saved[t][far].i) >= 1
    BY <1>1 DEF Restored, Empty
  <2>3. id \in DOMAIN saved[t] BY <1>1, <2>2 DEF Restored
  <2>4. Dte(saved[t][far].i) >= 0
    <3>1. Dte(saved[t][far].i) \in Int BY <1>1 DEF Dte, DayInv
    <3> QED BY <2>2, <3>1
  <2>5. far \in DOMAIN Kept(db, t) /\ Kept(db, t)[far].i = saved[t][far].i
    BY <2>1, <2>4, KeptHas
  <2>6. Kept(db, t) # Empty BY <2>5 DEF Empty
  <2>7. Restored(Kept(db, t)) = Kept(db, t) BY <2>2, <2>5 DEF Restored
  <2>8. book'[t] = Kept(db, t) BY <1>1, <2>6, <2>7, BootedBook
  <2>9. /\ id \in DOMAIN book'[t] /\ book'[t][id].i = saved[t][id].i
        /\ saved[t][id].oi # "none" => book'[t][id].oi = saved[t][id].oi
    BY <1>1, <2>1, <2>3, <2>8, KeptHas
  <2>10. Own(book'[t], t)
    BY <1>1, <2>7, <2>8, RestoredOwn DEF OwnInv
  <2>11. id[1] = "con" => book'[t][id].i = id[3] /\ book'[t][id].oi \in {"none", id[3]}
    BY <2>9, <2>10 DEF Own
  <2> QED BY <2>9, <2>11
<1>2. OwnInv /\ SavedInv /\ DayInv /\ [BootNext]_bootVars =>
        [Boots => \A t \in Tickers : (t \in Listed \/ t = custom') =>
           \A id \in DOMAIN Restored(saved[t]) :
             Dte(saved[t][id].i) >= 0 =>
               /\ id \in DOMAIN book'[t] /\ book'[t][id].i = saved[t][id].i
               /\ saved[t][id].oi # "none" => book'[t][id].oi = saved[t][id].oi
               /\ saved[t][id].oi = "none" /\ id[1] = "con"
                    => book'[t][id].oi \in {"none", saved[t][id].i}]_bootVars
  BY <1>1, Zenon
<1> QED BY <1>2, DayInit, DayStep, OwnInit, OwnStep, SavedInit, SavedStep, PTL
        DEF BootSpec, CleanRestartKeepsBook
=============================================================================
