----------------------------- MODULE ChangeChannel -----------------------------
(***************************************************************************)
(* What the control path promises to those who change the life expectancy: *)
(*                                                                         *)
(*   - changes are put in force one by one, oldest first, each once and    *)
(*     with the value accepted for it;                                     *)
(*   - while the channel is connected, a change is lost only when Limit of *)
(*     them are on the way already, or when the server stops, which loses  *)
(*     the oldest ones; a disconnection loses the newest ones;             *)
(*   - nothing else puts a value in force but the start of the server, and *)
(*     that is the default or one that was accepted no later than the last *)
(*     one applied: never one that is still on the way.                    *)
(*                                                                         *)
(* There are no threads, queues, sockets, calls or signals here:           *)
(* ControlPath is shown to implement this.                                 *)
(***************************************************************************)
EXTENDS Integers, Sequences, FiniteSets

CONSTANTS
  Range,        \* the values that are accepted
  DefaultLife,  \* the value in force without a change
  Limit         \* number of changes the channel has room for at least

VARIABLES
  accepted,   \* the value of each change so far
  pending,    \* the numbers of the changes on the way
  applied,    \* the number of the last change that was put in force
  inForce,    \* the value in force
  connected,  \* whether the channel leads to a server
  up          \* whether the server runs

vars == <<accepted, pending, applied, inForce, connected, up>>

Init ==
  /\ accepted = <<>> /\ pending = {} /\ applied = 0
  /\ inForce = DefaultLife
  /\ connected = FALSE /\ up = FALSE

Accept(v) ==
  /\ v \in Range
  /\ accepted' = Append(accepted, v)
  /\ pending' = pending \cup {Len(accepted) + 1}
  /\ UNCHANGED <<applied, inForce, connected, up>>

Apply(k) ==
  /\ up
  /\ k \in pending /\ \A j \in pending : k <= j
  /\ applied' = k /\ inForce' = accepted[k]
  /\ pending' = pending \ {k}
  /\ UNCHANGED <<accepted, connected, up>>

Connect ==
  /\ connected' = TRUE
  /\ UNCHANGED <<accepted, pending, applied, inForce, up>>

\* Of the changes on the way the newest ones may be lost.
Disconnect ==
  /\ connected' = FALSE
  /\ pending' \subseteq pending
  /\ \A j \in pending', k \in pending \ pending' : j < k
  /\ UNCHANGED <<accepted, applied, inForce, up>>

Drop ==
  /\ ~ connected
  /\ pending' \subseteq pending
  /\ UNCHANGED <<accepted, applied, inForce, connected, up>>

Overflow ==
  /\ Cardinality(pending) >= Limit
  /\ \E k \in pending : pending' = pending \ {k}
  /\ UNCHANGED <<accepted, applied, inForce, connected, up>>

Start ==
  /\ ~ up /\ up' = TRUE
  /\ inForce' \in {DefaultLife} \cup {accepted[i] : i \in 1..applied}
  /\ UNCHANGED <<accepted, pending, applied, connected>>

\* Of the changes on the way the oldest ones may be lost.
Stop ==
  /\ up /\ up' = FALSE
  /\ pending' \subseteq pending
  /\ \A j \in pending \ pending', k \in pending' : j < k
  /\ UNCHANGED <<accepted, applied, inForce, connected>>

Next ==
  \/ \E v \in Range : Accept(v)
  \/ \E k \in pending : Apply(k)
  \/ Connect \/ Disconnect \/ Drop \/ Overflow
  \/ Start \/ Stop

Spec == Init /\ [][Next]_vars
=============================================================================
