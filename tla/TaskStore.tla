----------------------------- MODULE TaskStore -----------------------------
(***************************************************************************)
(* What the store promises its callers (store.go:1-14, 120-125): a task is *)
(* accepted into one total order, and from then on it takes effect exactly *)
(* once or not at all.  Effects appear in that order, a prefix of what is  *)
(* outstanding at a time; a failure takes everything outstanding with it.  *)
(* Who flushes, in how many transactions and under which lock is not seen. *)
(***************************************************************************)
EXTENDS Naturals, Sequences

CONSTANT Tasks

VARIABLES
  log,      \* tasks in the order they were accepted
  applied,  \* those whose effects are in the database
  lost      \* those given up

Outstanding == {k \in 1..Len(log) : log[k] \notin applied \cup lost}

Init == log = <<>> /\ applied = {} /\ lost = {}

Accept(t) ==
  /\ \A k \in 1..Len(log) : log[k] # t
  /\ log' = Append(log, t) /\ UNCHANGED <<applied, lost>>

\* The oldest outstanding tasks up to k, all at once.
Apply(k) ==
  /\ k \in Outstanding
  /\ applied' = applied \cup {log[j] : j \in {i \in Outstanding : i <= k}}
  /\ UNCHANGED <<log, lost>>

GiveUp ==
  /\ Outstanding # {}
  /\ lost' = lost \cup {log[k] : k \in Outstanding}
  /\ UNCHANGED <<log, applied>>

Next == (\E t \in Tasks : Accept(t)) \/ (\E k \in 1..Len(log) : Apply(k)) \/ GiveUp

Spec == Init /\ [][Next]_<<log, applied, lost>>
=============================================================================
