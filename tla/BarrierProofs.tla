--------------------------- MODULE BarrierProofs ---------------------------
(***************************************************************************)
(* Barrier for any number of threads, any limit and any width of m_group.  *)
(* The key fact is CountExact: with it, the test --m_count == 0 means that *)
(* the group being collected lacks exactly one thread.                     *)
(***************************************************************************)
EXTENDS Barrier, FiniteSetTheorems, TLAPS

IInv == TypeOK /\ CountExact /\ ReleasedAwake

(* The next group number is a group number, and a different one.            *)
LEMMA NextGroupType ==
  ASSUME TypeOK
  PROVE  NextGroup \in 0 .. GroupModulus - 1 /\ NextGroup # m_group
  BY GroupModulusAssumption DEF TypeOK, NextGroup

\* The threads of the current group are finitely many.
LEMMA WaitingFinite == IsFiniteSet(Waiting) /\ Cardinality(Waiting) \in Nat
  BY ThreadsAssumption, FS_Subset, FS_CardinalityType DEF Waiting, InWait

(* What each step does to the two sets of threads inside wait().            *)
LEMMA CollectSets ==
  ASSUME TypeOK, NEW t \in Threads, Wait(t), m_count - 1 # 0
  PROVE  /\ t \notin Waiting \cup Released
         /\ Waiting' = Waiting \cup {t}
         /\ Released' = Released
         /\ Cardinality(Waiting') = Cardinality(Waiting) + 1
<1>1. /\ t \notin Waiting \cup Released
      /\ Waiting' = Waiting \cup {t}
      /\ Released' = Released
  BY DEF Wait, Waiting, Released, InWait, TypeOK
<1>2. QED
  BY <1>1, WaitingFinite, FS_AddElement, SMTT(30)

\* wait() of the last thread of a group releases the whole group and leaves nobody asleep.
LEMMA TripSets ==
  ASSUME TypeOK, NEW t \in Threads, Wait(t), m_count - 1 = 0
  PROVE  /\ t \notin Waiting \cup Released
         /\ Waiting' = {}
         /\ Released' = Released \cup Waiting
         /\ \A u \in Threads : pc'[u] # "asleep"
  BY NextGroupType DEF Wait, Trip, NotLapped, Waiting, Released, InWait, TypeOK

\* A thread that leaves m_cond.wait() leaves the barrier only if its group was released.
LEMMA ResumeSets ==
  ASSUME TypeOK, ReleasedAwake, NEW t \in Threads, Resume(t) \/ SpuriousWakeup(t)
  PROVE  /\ Waiting' = Waiting
         /\ Released' = IF t \in Released THEN Released \ {t} ELSE Released
  BY DEF Resume, SpuriousWakeup, Waiting, Released, InWait, TypeOK, ReleasedAwake

-----------------------------------------------------------------------------
(* The invariant is inductive.                                              *)
LEMMA Inductive == Spec => []IInv
<1>1. Init => IInv
  <2> SUFFICES ASSUME Init PROVE IInv
    OBVIOUS
  <2>1. Waiting = {} /\ Released = {}
    BY DEF Init, Waiting, Released, InWait
  <2>2. QED
    BY <2>1, FS_EmptySet, LimitAssumption, GroupModulusAssumption
       DEF Init, IInv, TypeOK, CountExact, ReleasedAwake
<1>2. IInv /\ [Next]_vars => IInv'
  <2> SUFFICES ASSUME IInv, [Next]_vars PROVE IInv'
    OBVIOUS
  <2> USE DEF IInv
  <2>1. ASSUME NEW t \in Threads, Wait(t), m_count - 1 # 0
        PROVE  IInv'
    <3>1. TypeOK'
      BY <2>1, LimitAssumption DEF Wait, TypeOK
    <3>2. CountExact'
      BY <2>1, CollectSets, WaitingFinite, LimitAssumption DEF Wait, CountExact, TypeOK
    <3>3. ReleasedAwake'
      BY <2>1, CollectSets DEF Wait, ReleasedAwake, TypeOK, Released, InWait
    <3>4. QED
      BY <3>1, <3>2, <3>3
  <2>2. ASSUME NEW t \in Threads, Wait(t), m_count - 1 = 0
        PROVE  IInv'
    <3>1. TypeOK'
      BY <2>2, NextGroupType, LimitAssumption DEF Wait, Trip, TypeOK
    <3>2. CountExact'
      BY <2>2, TripSets, FS_EmptySet, LimitAssumption DEF Wait, Trip, CountExact
    <3>3. ReleasedAwake'
      BY <3>1, <2>2, TripSets DEF ReleasedAwake, TypeOK, Released, InWait
    <3>4. QED
      BY <3>1, <3>2, <3>3
  <2>3. ASSUME NEW t \in Threads, Resume(t) \/ SpuriousWakeup(t)
        PROVE  IInv'
    <3>1. TypeOK'
      BY <2>3 DEF Resume, SpuriousWakeup, TypeOK
    <3>2. CountExact'
      BY <2>3, ResumeSets DEF CountExact, Resume, SpuriousWakeup
    <3>3. ReleasedAwake'
      BY <2>3, ResumeSets DEF ReleasedAwake, Resume, SpuriousWakeup, TypeOK, Released, InWait
    <3>4. QED
      BY <3>1, <3>2, <3>3
  <2>4. CASE UNCHANGED vars
    BY <2>4 DEF vars, TypeOK, CountExact, ReleasedAwake, Waiting, Released, InWait
  <2>5. QED
    BY <2>1, <2>2, <2>3, <2>4 DEF Next
<1>3. QED
  BY <1>1, <1>2, PTL DEF Spec

(* The count is exact and no released thread is left asleep, for any number *)
(* of threads and any limit.                                                *)
THEOREM BarrierSafety == Spec => [](TypeOK /\ CountExact /\ ReleasedAwake)
  BY Inductive, PTL DEF IInv

(* Threads pass the barrier in groups of exactly m_limit.                   *)
THEOREM BarrierRefinement == Spec => ImplementsGroupGate
<1>1. Init => Gate!Init
  BY DEF Init, Gate!Init, Waiting, Released, InWait
<1>2. IInv /\ [Next]_vars => [Gate!Next]_<<Waiting, Released>>
  <2> SUFFICES ASSUME IInv, [Next]_vars
               PROVE  [Gate!Next]_<<Waiting, Released>>
    OBVIOUS
  <2> USE DEF IInv
  <2>0. Cardinality(Waiting) = m_limit - m_count
    BY WaitingFinite, LimitAssumption DEF CountExact, TypeOK
  <2>c. Gate!Cardinality(Waiting) = Cardinality(Waiting)
    BY DEF Cardinality, Gate!Cardinality
  <2>1. ASSUME NEW t \in Threads, Wait(t), m_count - 1 # 0
        PROVE  Gate!Collect(t)
    BY <2>0, <2>c, <2>1, CollectSets, LimitAssumption DEF Gate!Collect, TypeOK
  <2>2. ASSUME NEW t \in Threads, Wait(t), m_count - 1 = 0
        PROVE  Gate!Complete(t)
    BY <2>0, <2>c, <2>2, TripSets, LimitAssumption DEF Gate!Complete, TypeOK
  <2>3. ASSUME NEW t \in Threads, Resume(t) \/ SpuriousWakeup(t)
        PROVE  Gate!Return(t) \/ UNCHANGED <<Waiting, Released>>
    BY <2>3, ResumeSets DEF Gate!Return
  <2>4. CASE UNCHANGED vars
    BY <2>4 DEF vars, Waiting, Released, InWait
  <2>5. QED
    BY <2>1, <2>2, <2>3, <2>4 DEF Next, Gate!Next
<1>3. QED
  BY <1>1, <1>2, Inductive, PTL DEF Spec, ImplementsGroupGate, Gate!Spec
=============================================================================
