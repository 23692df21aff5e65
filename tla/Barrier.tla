------------------------------- MODULE Barrier -------------------------------
(***************************************************************************)
(* core.sync.barrier.Barrier.  wait() runs under m_lock and gives it up    *)
(* only in m_cond.wait(), so it is one step up to there.  Any number of    *)
(* threads may share the barrier, more than m_limit included.              *)
(***************************************************************************)
EXTENDS Integers, FiniteSets

CONSTANTS
  Threads,
  m_limit,
  GroupModulus   \* m_group is a uint: 2^32 in the code

ASSUME ThreadsAssumption == IsFiniteSet(Threads)
ASSUME LimitAssumption == m_limit \in Nat \ {0}
ASSUME GroupModulusAssumption == GroupModulus \in Nat \ {0, 1}

VARIABLES
  m_group,
  m_count,
  pc,        \* "idle", "asleep" in m_cond.wait(), "woken" out of it
  group      \* the local variable of wait()

vars == <<m_group, m_count, pc, group>>

(* m_count counts down from the limit and never stays at zero.              *)
TypeOK ==
  /\ m_group \in 0 .. GroupModulus - 1
  /\ m_count \in 1 .. m_limit
  /\ pc \in [Threads -> {"idle", "asleep", "woken"}]
  /\ group \in [Threads -> 0 .. GroupModulus - 1]

InWait == {t \in Threads : pc[t] # "idle"}
Waiting == {t \in InWait : group[t] = m_group}
Released == {t \in InWait : group[t] # m_group}

Init ==
  /\ m_group = 0
  /\ m_count = m_limit
  /\ pc = [t \in Threads |-> "idle"]
  /\ group = [t \in Threads |-> 0]

NextGroup == (m_group + 1) % GroupModulus

(* A bound on scheduling, not on the barrier: a thread that was released    *)
(* runs before the barrier has gone through all of its 2^32 group numbers.  *)
NotLapped == \A t \in Released : group[t] # NextGroup

\* mutant: notify in place of notifyAll
TripNotifyOne(t) ==
  /\ m_group' = NextGroup
  /\ m_count' = m_limit
  /\ \/ InWait = {} /\ UNCHANGED pc
     \/ \E u \in InWait : pc' = [pc EXCEPT ![u] = "woken"]
  /\ UNCHANGED group

\* the last thread of a group: m_cond.notifyAll(), and wait() returns
Trip(t) ==
  /\ m_group' = NextGroup
  /\ m_count' = m_limit
  /\ pc' = [u \in Threads |-> IF pc[u] = "asleep" THEN "woken" ELSE pc[u]]
  /\ UNCHANGED group

Wait(t) ==
  /\ pc[t] = "idle"
  /\ \/ /\ m_count - 1 = 0
        /\ NotLapped
        /\ Trip(t)
     \/ /\ m_count - 1 # 0
        /\ m_count' = m_count - 1
        /\ group' = [group EXCEPT ![t] = m_group]
        /\ pc' = [pc EXCEPT ![t] = "asleep"]
        /\ UNCHANGED m_group

\* mutant: "if" in place of "while"
ResumeUnchecked(t) ==
  /\ pc[t] = "woken"
  /\ pc' = [pc EXCEPT ![t] = "idle"]
  /\ UNCHANGED <<m_group, m_count, group>>

\* the loop: wait again, or return
Resume(t) ==
  /\ pc[t] = "woken"
  /\ pc' = [pc EXCEPT ![t] = IF group[t] = m_group THEN "asleep" ELSE "idle"]
  /\ UNCHANGED <<m_group, m_count, group>>

SpuriousWakeup(t) ==
  /\ pc[t] = "asleep"
  /\ pc' = [pc EXCEPT ![t] = "woken"]
  /\ UNCHANGED <<m_group, m_count, group>>

Next == \E t \in Threads : Wait(t) \/ Resume(t) \/ SpuriousWakeup(t)

Spec == Init /\ [][Next]_vars

(* A woken thread gets m_lock back in the end.                              *)
FairSpec == Spec /\ \A t \in Threads : WF_vars(Resume(t))

-----------------------------------------------------------------------------
(* m_count is exactly the number of threads the current group still lacks,  *)
(* although threads of earlier groups may not have left wait() yet.         *)
CountExact == m_count = m_limit - Cardinality(Waiting)

(* No released thread sleeps: notifyAll reached every thread of its group.  *)
ReleasedAwake == \A t \in Released : pc[t] = "woken"

(* A thread whose group is complete returns from wait(), even when faster   *)
(* threads are collecting, or completing, the next groups.                  *)
ReleasedReturn ==
  \A t \in Threads : t \in Released ~> pc[t] = "idle"

(* Threads pass in groups of m_limit, and nobody passes alone.              *)
Gate == INSTANCE GroupGate WITH Limit <- m_limit, waiting <- Waiting, released <- Released
ImplementsGroupGate == Gate!Spec
=============================================================================
