---------------------------- MODULE SweepControl ----------------------------
(***************************************************************************)
(* One-pass snapshot sweeps: the GUI panel (static/assets/app.js), the     *)
(* core's authoritative roster (edge/server.go, edge/sweep_policy.go) and  *)
(* the billing process (edge/src/GexEdge/TwsFeed.cs, CoreConnection.cs).   *)
(*                                                                         *)
(* A browser POSTs the full in-flight set; the core installs it under      *)
(* sweepsMu and then, outside that lock, pushes the roster to every        *)
(* connection; the edge starts one pass per added ticker, aborts the       *)
(* removed ones and answers sweep_done, which retires the roster entry.    *)
(* Every push is modelled in the three steps the code takes: snapshot the  *)
(* connections, copy the roster, send the copy.                            *)
(***************************************************************************)
EXTENDS Naturals, Sequences, FiniteSets

CONSTANTS
  Tickers,       \* the watchlist
  IndexTickers,  \* those with the tighter session window (SPX, NDX)
  Covered,       \* tickers this edge was started with (--tickers)
  Operators,     \* browser pages with the sweeper panel open
  Monitor,       \* the RunSweepMonitor goroutine
  None,          \* no ticker
  MaxTickers,    \* SweepMaxTickers, mirrored by the edge
  MaxLive,       \* bound: pass tasks of one ticker alive on the edge at once
  MaxClicks,     \* bound: POSTs by all operators
  MaxConns,      \* bound: edge connections over the run, the last one lasts
  MaxRestarts,   \* bound: core restarts
  StartClocks,   \* windows of the trading day the run may begin in
  LastClock      \* bound: the window of the day the run ends in

Conns == 1..MaxConns
Threads == Operators \cup Conns \cup {Monitor}
Slots == 1..MaxLive

ASSUME SweepAssumption ==
  /\ IndexTickers \subseteq Tickers /\ Covered \subseteq Tickers
  /\ IsFiniteSet(Tickers) /\ None \notin Tickers
  /\ MaxTickers \in Nat /\ MaxLive \in Nat
  /\ MaxClicks \in Nat /\ MaxConns \in Nat /\ MaxRestarts \in Nat
  /\ StartClocks \subseteq 0..4 /\ LastClock \in 0..4
  /\ Operators \cap Conns = {} /\ Monitor \notin Operators \cup Conns

VARIABLES
  roster,    \* Server.sweepRoster
  lastPass,  \* tickers stamped in Server.lastPass
  clock,     \* window of the ET trading day, see TickerAllowed
  conns,     \* Server.conns
  hello,     \* connections whose hello is still to be read by the core
  dones,     \* sweep_done messages on their way, a bag per connection
  pc, want, add, todo, cur, copy,  \* control state of the core's goroutines
  view,      \* the pending set each page last rendered (S.sweeps)
  session,   \* the edge's latest connection (0 before the first)
  edgeUp,    \* the edge holds that connection
  attached,  \* conn.OnSweepSet has been assigned
  down,      \* sweep_set messages on their way to the edge
  pass,      \* PassOnceAsync tasks of each ticker
  passCts,   \* TwsFeed._passCts: the registered task of a ticker, 0 if none
  clicks, restarts,  \* bounded counters
  armed,     \* history: tickers installed since the core booted
  ran        \* history: tickers whose pass began since they were last armed

coreVars == <<roster, lastPass, conns, hello, dones>>
threadVars == <<pc, want, add, todo, cur, copy>>
edgeVars == <<session, edgeUp, attached, down, pass, passCts>>
vars == <<coreVars, threadVars, edgeVars, clock, view, clicks, restarts, armed, ran>>

PCs == {"idle", "install", "snap", "push", "send"}
Stages == {"free", "run", "fin"}
PassTask == [stage: Stages, cancelled: BOOLEAN]
FreeTask == [stage |-> "free", cancelled |-> FALSE]
DoneBag == [Tickers -> [BOOLEAN -> Nat]]
NoDones == [t \in Tickers |-> [ok \in BOOLEAN |-> 0]]

TypeOK ==
  /\ roster \subseteq Tickers /\ lastPass \subseteq Tickers
  /\ clock \in 0..4
  /\ conns \subseteq Conns /\ hello \subseteq Conns
  /\ dones \in [Conns -> DoneBag]
  /\ pc \in [Threads -> PCs]
  /\ want \in [Threads -> SUBSET Tickers]
  /\ add \in [Threads -> Tickers \cup {None}]
  /\ todo \in [Threads -> SUBSET Conns]
  /\ cur \in [Threads -> 0..MaxConns]
  /\ copy \in [Threads -> SUBSET Tickers]
  /\ view \in [Operators -> SUBSET Tickers]
  /\ session \in 0..MaxConns
  /\ edgeUp \in BOOLEAN /\ attached \in BOOLEAN
  /\ down \in Seq(SUBSET Tickers)
  /\ pass \in [Tickers -> [Slots -> PassTask]]
  /\ passCts \in [Tickers -> 0..MaxLive]
  /\ clicks \in Nat /\ restarts \in Nat
  /\ armed \subseteq Tickers /\ ran \subseteq Tickers

Init ==
  /\ roster = {} /\ lastPass = {} /\ conns = {} /\ hello = {}
  /\ dones = [c \in Conns |-> NoDones]
  /\ clock \in StartClocks
  /\ pc = [p \in Threads |-> "idle"]
  /\ want = [p \in Threads |-> {}]
  /\ add = [p \in Threads |-> None]
  /\ todo = [p \in Threads |-> {}]
  /\ cur = [p \in Threads |-> 0]
  /\ copy = [p \in Threads |-> {}]
  /\ view = [o \in Operators |-> {}]
  /\ session = 0 /\ edgeUp = FALSE /\ attached = FALSE /\ down = <<>>
  /\ pass = [t \in Tickers |-> [n \in Slots |-> FreeTask]]
  /\ passCts = [t \in Tickers |-> 0]
  /\ clicks = 0 /\ restarts = 0
  /\ armed = {} /\ ran = {}

-----------------------------------------------------------------------------
(* Shutoff windows.  One trading day is five windows: 0 before 08:15,      *)
(* 1 until 09:20, 2 until 16:10, 3 until 18:30, 4 after.                   *)

TickerAllowed(t) == IF t \in IndexTickers THEN clock = 2 ELSE clock \in 1..3

Tick ==
  /\ clock < LastClock
  /\ clock' = clock + 1
  /\ UNCHANGED <<coreVars, threadVars, edgeVars, view, clicks, restarts, armed, ran>>

-----------------------------------------------------------------------------
(* The GUI.  A click computes the full set from the page's last view.      *)

ValidateRoster(set) == Cardinality(set) <= MaxTickers

SetSweepsChecked(o, set, t) ==
  /\ pc' = [pc EXCEPT ![o] = "install"]
  /\ want' = [want EXCEPT ![o] = set]
  /\ add' = [add EXCEPT ![o] = t]
  /\ UNCHANGED view

\* 409: the roster is untouched and the page polls again.
SetSweepsRefused(o) ==
  /\ view' = [view EXCEPT ![o] = roster]
  /\ UNCHANGED <<pc, want, add>>

SetSweeps(o, set, t) ==
  IF ValidateRoster(set) /\ \A u \in set : TickerAllowed(u)
  THEN SetSweepsChecked(o, set, t)
  ELSE SetSweepsRefused(o)

ToggleSweep(o, t) ==
  /\ pc[o] = "idle" /\ clicks < MaxClicks
  /\ \/ t \in view[o] /\ SetSweeps(o, view[o] \ {t}, None)
     \/ /\ t \notin view[o] /\ Cardinality(view[o]) < MaxTickers
        /\ SetSweeps(o, view[o] \cup {t}, t)
  /\ clicks' = clicks + 1
  /\ UNCHANGED <<coreVars, todo, cur, copy, edgeVars, clock, restarts, armed, ran>>

Kill(o) ==
  /\ pc[o] = "idle" /\ clicks < MaxClicks
  /\ SetSweeps(o, {}, None)
  /\ clicks' = clicks + 1
  /\ UNCHANGED <<coreVars, todo, cur, copy, edgeVars, clock, restarts, armed, ran>>

\* Only the next click reads the view, so after the last one a page rests.
PollSweeps(o) ==
  /\ view[o] # roster /\ clicks < MaxClicks
  /\ view' = [view EXCEPT ![o] = roster]
  /\ UNCHANGED <<coreVars, threadVars, edgeVars, clock, clicks, restarts, armed, ran>>

-----------------------------------------------------------------------------
(* The core: SetSweeps' critical section, then the push.                   *)

\* Mutant: the POST is treated as a delta instead of the full in-flight set.
InstallRosterAsDelta(o) ==
  /\ pc[o] = "install"
  /\ roster' = roster \cup want[o]
  /\ armed' = armed \cup want[o]
  /\ ran' = ran \ (want[o] \ roster)
  /\ pc' = [pc EXCEPT ![o] = "snap"]
  /\ want' = [want EXCEPT ![o] = {}]
  /\ add' = [add EXCEPT ![o] = None]
  /\ UNCHANGED <<lastPass, conns, hello, dones, todo, cur, copy, edgeVars,
                 clock, view, clicks, restarts>>

InstallRoster(o) ==
  /\ pc[o] = "install"
  /\ roster' = want[o]
  /\ armed' = armed \cup want[o]
  /\ ran' = ran \ (want[o] \ roster)
  /\ pc' = [pc EXCEPT ![o] = "snap"]
  /\ want' = [want EXCEPT ![o] = {}]
  /\ add' = [add EXCEPT ![o] = None]
  /\ UNCHANGED <<lastPass, conns, hello, dones, todo, cur, copy, edgeVars,
                 clock, view, clicks, restarts>>

\* Thread p has pushed to all but the connections in rest.  A POST whose push
\* is over answers with a fresh view.
PushRest(p, rest) ==
  /\ todo' = [todo EXCEPT ![p] = rest]
  /\ pc' = [pc EXCEPT ![p] = IF rest = {} THEN "idle" ELSE "push"]
  /\ view' = [o \in Operators |-> IF o = p /\ rest = {} THEN roster ELSE view[o]]

PushSnapshot(p) ==
  /\ pc[p] = "snap"
  /\ PushRest(p, conns)
  /\ UNCHANGED <<coreVars, want, add, cur, copy, edgeVars, clock, clicks, restarts, armed, ran>>

PushCopy(p, c) ==
  /\ pc[p] = "push" /\ c \in todo[p]
  /\ cur' = [cur EXCEPT ![p] = c]
  /\ copy' = [copy EXCEPT ![p] = roster]
  /\ pc' = [pc EXCEPT ![p] = "send"]
  /\ UNCHANGED <<coreVars, want, add, todo, edgeVars, clock, view, clicks, restarts, armed, ran>>

\* A write to a connection the edge has left is lost.
PushSend(p) ==
  /\ pc[p] = "send"
  /\ down' = IF edgeUp /\ cur[p] = session /\ session \in conns
             THEN Append(down, copy[p]) ELSE down
  /\ cur' = [cur EXCEPT ![p] = 0]
  /\ copy' = [copy EXCEPT ![p] = {}]
  /\ PushRest(p, todo[p] \ {cur[p]})
  /\ UNCHANGED <<coreVars, want, add, session, edgeUp, attached, pass, passCts, clock,
                 clicks, restarts, armed, ran>>

OnSweepDone(c, t, ok) ==
  /\ c \in conns /\ c \notin hello /\ pc[c] = "idle" /\ dones[c][t][ok] > 0
  /\ dones' = [dones EXCEPT ![c][t][ok] = @ - 1]
  /\ lastPass' = IF ok THEN lastPass \cup {t} ELSE lastPass
  /\ roster' = roster \ {t}
  /\ pc' = IF t \in roster THEN [pc EXCEPT ![c] = "snap"] ELSE pc
  /\ UNCHANGED <<conns, hello, want, add, todo, cur, copy, edgeVars, clock, view, clicks,
                 restarts, armed, ran>>

\* Mutant: the monitor acts only at the end of the day, not when the tighter
\* index window closes.
EnforceAtDayEndOnly ==
  /\ pc[Monitor] = "idle" /\ clock = 4 /\ roster # {}
  /\ roster' = {}
  /\ pc' = [pc EXCEPT ![Monitor] = "snap"]
  /\ UNCHANGED <<lastPass, conns, hello, dones, want, add, todo, cur, copy, edgeVars, clock,
                 view, clicks, restarts, armed, ran>>

EnforceSweepWindows ==
  LET kept == {t \in roster : TickerAllowed(t)} IN
  /\ pc[Monitor] = "idle" /\ kept # roster
  /\ roster' = kept
  /\ pc' = [pc EXCEPT ![Monitor] = "snap"]
  /\ UNCHANGED <<lastPass, conns, hello, dones, want, add, todo, cur, copy, edgeVars, clock,
                 view, clicks, restarts, armed, ran>>

\* push-on-hello, to this connection only
OnHello(c) ==
  /\ c \in hello /\ pc[c] = "idle"
  /\ hello' = hello \ {c}
  /\ todo' = [todo EXCEPT ![c] = {c}]
  /\ pc' = [pc EXCEPT ![c] = "push"]
  /\ UNCHANGED <<roster, lastPass, conns, dones, want, add, cur, copy, edgeVars, clock, view,
                 clicks, restarts, armed, ran>>

\* The read loop ends; what it has not read is lost.
ConnClosed(c) ==
  /\ c \in conns /\ pc[c] = "idle" /\ ~(edgeUp /\ c = session)
  /\ conns' = conns \ {c} /\ hello' = hello \ {c}
  /\ dones' = [dones EXCEPT ![c] = NoDones]
  /\ UNCHANGED <<roster, lastPass, threadVars, edgeVars, clock, view, clicks, restarts, armed, ran>>

\* The core process dies and boots with an empty roster and no connection.
CoreRestart ==
  /\ restarts < MaxRestarts
  /\ restarts' = restarts + 1
  /\ roster' = {} /\ lastPass' = {} /\ conns' = {} /\ hello' = {}
  /\ dones' = [c \in Conns |-> NoDones]
  /\ pc' = [p \in Threads |-> "idle"]
  /\ want' = [p \in Threads |-> {}]
  /\ add' = [p \in Threads |-> None]
  /\ todo' = [p \in Threads |-> {}]
  /\ cur' = [p \in Threads |-> 0]
  /\ copy' = [p \in Threads |-> {}]
  /\ armed' = {}
  /\ UNCHANGED <<edgeVars, clock, view, clicks, ran>>

-----------------------------------------------------------------------------
(* The edge.  Program.Main connects, sends hello, and only then assigns    *)
(* OnSweepSet; a push handled before that is dropped.                      *)

Connect ==
  /\ ~edgeUp /\ session < MaxConns
  /\ session' = session + 1
  /\ edgeUp' = TRUE /\ attached' = FALSE /\ down' = <<>>
  /\ conns' = conns \cup {session + 1}
  /\ hello' = hello \cup {session + 1}
  /\ UNCHANGED <<roster, lastPass, dones, threadVars, pass, passCts, clock, view, clicks,
                 restarts, armed, ran>>

Attach ==
  /\ edgeUp /\ ~attached
  /\ attached' = TRUE
  /\ UNCHANGED <<coreVars, threadVars, session, edgeUp, down, pass, passCts, clock, view,
                 clicks, restarts, armed, ran>>

DropUnattached ==
  /\ edgeUp /\ ~attached /\ down # <<>>
  /\ down' = Tail(down)
  /\ UNCHANGED <<coreVars, threadVars, session, edgeUp, attached, pass, passCts, clock, view,
                 clicks, restarts, armed, ran>>

\* Mutant: the feed, and the passes it runs, outlive the connection.
TwsDropKeepsPasses ==
  /\ edgeUp /\ session < MaxConns
  /\ edgeUp' = FALSE /\ attached' = FALSE /\ down' = <<>>
  /\ UNCHANGED <<coreVars, threadVars, session, pass, passCts, clock, view, clicks, restarts,
                 armed, ran>>

\* The TWS socket dies: Program disposes feed and connection and reconnects
\* with a fresh TwsFeed, so every pass task is abandoned without a sweep_done.
TwsDrop ==
  /\ edgeUp /\ session < MaxConns
  /\ edgeUp' = FALSE /\ attached' = FALSE /\ down' = <<>>
  /\ pass' = [t \in Tickers |-> [n \in Slots |-> FreeTask]]
  /\ passCts' = [t \in Tickers |-> 0]
  /\ UNCHANGED <<coreVars, threadVars, session, clock, view, clicks, restarts, armed, ran>>

\* SendSweepDone for one ticker set: each message is its own Task.Run, so
\* they reach the core in any order; none arrives on a dead connection.
SendSweepDone(set, ok) ==
  dones' = IF session \in conns
           THEN [dones EXCEPT ![session] =
                   [t \in Tickers |->
                      [b \in BOOLEAN |-> IF t \in set /\ b = ok THEN @[t][b] + 1 ELSE @[t][b]]]]
           ELSE dones

\* SweepPolicy.Clamp: at most MaxTickers distinct tickers of the push.
Clamp(set) ==
  {s \in SUBSET set : /\ Cardinality(s) <= MaxTickers
                      /\ s = set \/ Cardinality(s) = MaxTickers}

FreeSlots(t) == {n \in Slots : pass[t][n].stage = "free"}

OnCoreSweepSet(wanted, slot) ==
  LET dropped == {t \in Tickers : passCts[t] # 0 /\ t \notin wanted}
      added   == {t \in wanted : passCts[t] = 0}
      refused == {t \in added : t \notin Covered \/ ~TickerAllowed(t)}
      begun   == added \ refused
  IN
  /\ \A t \in begun : slot[t] \in FreeSlots(t)
  /\ pass' = [t \in Tickers |-> [n \in Slots |->
                IF t \in dropped /\ n = passCts[t] THEN [pass[t][n] EXCEPT !.cancelled = TRUE]
                ELSE IF t \in begun /\ n = slot[t] THEN [stage |-> "run", cancelled |-> FALSE]
                ELSE pass[t][n]]]
  /\ passCts' = [t \in Tickers |-> IF t \in dropped THEN 0
                                   ELSE IF t \in begun THEN slot[t] ELSE passCts[t]]
  /\ SendSweepDone(dropped \cup refused, FALSE)
  /\ ran' = ran \cup begun

LowestFree(t) == IF FreeSlots(t) = {} THEN 0
                 ELSE CHOOSE n \in FreeSlots(t) : \A m \in FreeSlots(t) : n <= m

EdgeReceive ==
  /\ edgeUp /\ attached /\ down # <<>>
  /\ down' = Tail(down)
  /\ \E wanted \in Clamp(Head(down)) :
        OnCoreSweepSet(wanted, [t \in Tickers |-> LowestFree(t)])
  /\ UNCHANGED <<roster, lastPass, conns, hello, threadVars, session, edgeUp, attached, clock,
                 view, clicks, restarts, armed>>

-----------------------------------------------------------------------------
(* One PassOnceAsync task: bounded waits for discovery and for TWS, the    *)
(* pass itself, then the finally block.                                    *)

PassBodyEnds(t, n) ==
  /\ pass[t][n].stage = "run"
  /\ pass' = [pass EXCEPT ![t][n].stage = "fin"]

\* ok: at least one snapshot fired.  Otherwise a wait ran out, nothing fired, or
\* cancellation surfaced in the second wait or in RunPassAsync, which answers
\* "aborted" a second time.
PassAnswers(t, n, ok) ==
  /\ PassBodyEnds(t, n)
  /\ SendSweepDone({t}, ok)
  /\ UNCHANGED <<roster, lastPass, conns, hello, threadVars, session, edgeUp, attached, down,
                 passCts, clock, view, clicks, restarts, armed, ran>>

\* Cancelled while waiting for discovery: CancelPass already answered.
PassReturns(t, n) ==
  /\ pass[t][n].cancelled
  /\ PassBodyEnds(t, n)
  /\ UNCHANGED <<coreVars, threadVars, session, edgeUp, attached, down, passCts, clock, view,
                 clicks, restarts, armed, ran>>

\* Mutant: finally removes by key, whichever task is registered.
PassFinallyByKey(t, n) ==
  /\ pass[t][n].stage = "fin"
  /\ pass' = [pass EXCEPT ![t][n] = FreeTask]
  /\ passCts' = [passCts EXCEPT ![t] = 0]
  /\ UNCHANGED <<coreVars, threadVars, session, edgeUp, attached, down, clock, view, clicks,
                 restarts, armed, ran>>

\* finally: remove only our own registration.
PassFinally(t, n) ==
  /\ pass[t][n].stage = "fin"
  /\ pass' = [pass EXCEPT ![t][n] = FreeTask]
  /\ passCts' = IF passCts[t] = n THEN [passCts EXCEPT ![t] = 0] ELSE passCts
  /\ UNCHANGED <<coreVars, threadVars, session, edgeUp, attached, down, clock, view, clicks,
                 restarts, armed, ran>>

PassStep(t, n) ==
  \/ PassReturns(t, n) \/ PassFinally(t, n)
  \/ \E ok \in BOOLEAN : PassAnswers(t, n, ok)

PushStep(p) ==
  \/ PushSnapshot(p) \/ PushSend(p)
  \/ \E c \in Conns : PushCopy(p, c)

Next ==
  \/ \E o \in Operators :
       \/ Kill(o) \/ PollSweeps(o) \/ InstallRoster(o)
       \/ \E t \in Tickers : ToggleSweep(o, t)
  \/ \E p \in Threads : PushStep(p)
  \/ \E c \in Conns :
       \/ OnHello(c) \/ ConnClosed(c)
       \/ \E t \in Tickers, ok \in BOOLEAN : OnSweepDone(c, t, ok)
  \/ EnforceSweepWindows \/ Tick \/ CoreRestart
  \/ Connect \/ Attach \/ DropUnattached \/ TwsDrop \/ EdgeReceive
  \/ \E t \in Tickers, n \in Slots : PassStep(t, n)

Spec == Init /\ [][Next]_vars

\* What the Go runtime keeps moving: started goroutines and the monitor's
\* ticker.  Clicks, drops, restarts and the time of day need not happen.
CoreFairness ==
  /\ \A p \in Threads : WF_vars(PushStep(p))
  /\ \A o \in Operators : WF_vars(InstallRoster(o))
  /\ WF_vars(EnforceSweepWindows)

CoreSpec == Spec /\ CoreFairness

-----------------------------------------------------------------------------
(* Properties.                                                             *)

Live(t, n) == pass[t][n].stage # "free" /\ ~pass[t][n].cancelled

\* The cap holds on both sides of the wire: the core's roster and the edge's
\* registered passes never exceed SweepMaxTickers (sweep_policy.go:46,
\* SweepPolicy.cs:12), whatever stale roster an operator posts or a late push
\* carries.
InFlightCap ==
  /\ Cardinality(roster) <= MaxTickers
  /\ Cardinality({t \in Tickers : passCts[t] # 0}) <= MaxTickers

\* A kill can reach every pass that is still spending: a task that has not been
\* cancelled is the one registered in _passCts, although an aborted task of the
\* same ticker may still be unwinding beside it (TwsFeed.cs:697-702).
KillReaches == \A t \in Tickers, n \in Slots : Live(t, n) => passCts[t] = n

\* Fail-closed (sweep_policy.go:12-16): an edge connected to this incarnation of
\* the core runs only what a POST armed since this core booted; nothing survives
\* a core restart plus a reconnect, nothing starts by itself.
NothingAutoArms ==
  /\ roster \subseteq armed
  /\ lastPass \subseteq armed
  /\ session \in conns => \A t \in Tickers, n \in Slots : Live(t, n) => t \in armed

\* Sticky shutoff (server.go:218-243): once a ticker's window has closed for the
\* day, the roster is rid of it for good, even when a POST that was checked
\* before the close is installed after it.
StickyShutoff ==
  \A t \in Tickers :
    (clock = 4 \/ (t \in IndexTickers /\ clock = 3)) ~> [](t \notin roster)

\* The edge converges to the authoritative roster, "never keep a stale one"
\* (server.go:275-277): when no push is under way and nothing is in transit, no
\* live pass runs for a ticker the roster does not list.
Quiet ==
  /\ \A p \in Threads : pc[p] = "idle"
  /\ hello = {} /\ down = <<>> /\ dones = [c \in Conns |-> NoDones]
  /\ session \in conns
Converged ==
  Quiet => \A t \in Tickers, n \in Slots :
             (Live(t, n) /\ pass[t][n].stage # "fin") => t \in roster

\* "The edge runs it once" (sweep_policy.go:17): a pass that already began for
\* the current arming of its ticker is not begun again.
RunsOnce ==
  [][\A t \in Tickers : (passCts'[t] # 0 /\ passCts'[t] # passCts[t]) => t \notin ran]_vars

\* "nothing re-arms ... behind a deliberate button click" (sweep_policy.go:18-19):
\* an installed POST adds at most the ticker whose button was pressed.
ArmsOnlyClicked ==
  [][\A o \in Operators : InstallRoster(o) => want[o] \ roster \subseteq {add[o]}]_vars
=============================================================================
