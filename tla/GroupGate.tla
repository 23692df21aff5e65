------------------------------ MODULE GroupGate ------------------------------
(***************************************************************************)
(* What core.sync.barrier.Barrier promises: "a barrier across which        *)
(* threads may only travel in groups of a specific size".                  *)
(***************************************************************************)
EXTENDS Integers, FiniteSets

CONSTANTS Threads, Limit

VARIABLES
  waiting,    \* the threads of the group that is being collected
  released    \* the threads of complete groups that have not returned yet

Init ==
  /\ waiting = {}
  /\ released = {}

Collect(t) ==
  /\ t \notin waiting \cup released
  /\ Cardinality(waiting) + 1 < Limit
  /\ waiting' = waiting \cup {t}
  /\ UNCHANGED released

\* the thread that completes the group does not wait itself
Complete(t) ==
  /\ t \notin waiting \cup released
  /\ Cardinality(waiting) + 1 = Limit
  /\ waiting' = {}
  /\ released' = released \cup waiting

Return(t) ==
  /\ t \in released
  /\ released' = released \ {t}
  /\ UNCHANGED waiting

Next == \E t \in Threads : Collect(t) \/ Complete(t) \/ Return(t)

Spec == Init /\ [][Next]_<<waiting, released>>
=============================================================================
