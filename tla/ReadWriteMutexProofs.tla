------------------------ MODULE ReadWriteMutexProofs ------------------------
(***************************************************************************)
(* Safety of ReadWriteMutex for any finite set of threads, either policy.  *)
(*                                                                         *)
(* The argument: the counters are exact (CountersExact), so the tests of   *)
(* shouldQueueReader and shouldQueueWriter speak about the threads         *)
(* themselves; exclusion follows, and then that no wake-up is lost.        *)
(***************************************************************************)
EXTENDS ReadWriteMutex, FiniteSetTheorems, TLAPS

Readers == At("reading")
Writers == At("writing")

(* Sets of threads are finite, their sizes are naturals, and a size is zero *)
(* exactly for the empty set.                                               *)
LEMMA Sizes ==
  ASSUME NEW S \in SUBSET Threads
  PROVE  /\ IsFiniteSet(S)
         /\ Cardinality(S) \in Nat
         /\ Cardinality(S) = 0 <=> S = {}
  BY ThreadsAssumption, FS_Subset, FS_EmptySet, FS_CardinalityType

(* One thread joins or leaves a set of threads.                             *)
LEMMA OneMore ==
  ASSUME NEW S \in SUBSET Threads, NEW t \in Threads, t \notin S
  PROVE  Cardinality(S \cup {t}) = Cardinality(S) + 1
  BY Sizes, FS_AddElement

\* One thread leaves a set of threads.
LEMMA OneLess ==
  ASSUME NEW S \in SUBSET Threads, NEW t \in S
  PROVE  Cardinality(S \ {t}) = Cardinality(S) - 1
  BY Sizes, FS_RemoveElement

(* The counters are positive exactly when somebody is counted.              *)
LEMMA CountersPositive ==
  ASSUME CountersExact
  PROVE  /\ m_numQueuedReaders \in Nat /\ (m_numQueuedReaders > 0 <=> QueuedReaders # {})
         /\ m_numActiveReaders \in Nat /\ (m_numActiveReaders > 0 <=> Readers # {})
         /\ m_numQueuedWriters \in Nat /\ (m_numQueuedWriters > 0 <=> QueuedWriters # {})
         /\ m_numActiveWriters \in Nat /\ (m_numActiveWriters > 0 <=> Writers # {})
<1>1. /\ QueuedReaders \in SUBSET Threads
      /\ QueuedWriters \in SUBSET Threads
      /\ Readers \in SUBSET Threads
      /\ Writers \in SUBSET Threads
  BY DEF QueuedReaders, QueuedWriters, Readers, Writers, At
<1>2. QED
  BY <1>1, Sizes DEF CountersExact, Readers, Writers

-----------------------------------------------------------------------------
(* The five sets of threads the counters are about.                         *)
Kinds == <<QueuedReaders, Readers, QueuedWriters, Writers>>

(* Waking threads, by a notification, a timeout or spuriously, moves no     *)
(* thread from one of the counted sets to another.                          *)
LEMMA WakeKeepsKinds ==
  ASSUME TypeOK, NEW t \in Threads, Timeout(t) \/ SpuriousWakeup(t)
  PROVE  UNCHANGED Kinds
  BY DEF TypeOK, Timeout, SpuriousWakeup, Woken, Moved, Kinds, QueuedReaders, QueuedWriters,
         Readers, Writers, At

\* unlock moves its thread, and wakes sleepers of either queue, and nothing else.
LEMMA NotifyKinds ==
  ASSUME NEW t \in Threads, TypeOK, pc[t] \in {"reading", "writing"},
         \/ pc' = Moved(t, "idle")
         \/ Notify("wwait", "wwoken", Moved(t, "idle"))
         \/ NotifyAll("rwait", "rwoken", Moved(t, "idle"))
  PROVE  /\ pc'[t] = "idle"
         /\ \A u \in Threads \ {t} :
               \/ pc'[u] = pc[u]
               \/ pc[u] = "wwait" /\ pc'[u] = "wwoken"
               \/ pc[u] = "rwait" /\ pc'[u] = "rwoken"
         /\ pc' \in [Threads -> {"idle", "rwait", "rwoken", "reading",
                         "wwait", "wwoken", "writing"}]
<1>1. CASE pc' = Moved(t, "idle")
  BY <1>1 DEF Moved, TypeOK
<1>2. CASE Notify("wwait", "wwoken", Moved(t, "idle"))
  BY <1>2 DEF Notify, Moved, TypeOK, At
<1>3. CASE NotifyAll("rwait", "rwoken", Moved(t, "idle"))
  BY <1>3 DEF NotifyAll, Moved, TypeOK, At
<1>4. QED
  BY <1>1, <1>2, <1>3

-----------------------------------------------------------------------------
(* The inductive invariant.                                                 *)
IInv == TypeOK /\ CountersExact /\ MutualExclusion

(* It holds initially, and every action of every thread preserves it.       *)
LEMMA Inductive == Spec => []IInv
<1>1. Init => IInv
  <2> SUFFICES ASSUME Init PROVE IInv
    OBVIOUS
  <2>1. QueuedReaders = {} /\ QueuedWriters = {} /\ At("reading") = {} /\ At("writing") = {}
    BY DEF Init, QueuedReaders, QueuedWriters, At
  <2>2. QED
    BY <2>1, FS_EmptySet DEF Init, IInv, TypeOK, CountersExact, MutualExclusion
<1>2. IInv /\ [Next]_vars => IInv'
  <2> SUFFICES ASSUME IInv, [Next]_vars PROVE IInv'
    OBVIOUS
  <2> USE DEF IInv
  <2>z. UNCHANGED m_policy
    BY DEF Next, vars
  <2> USE <2>z
  <2>0. /\ QueuedReaders \in SUBSET Threads
        /\ QueuedWriters \in SUBSET Threads
        /\ Readers \in SUBSET Threads
        /\ Writers \in SUBSET Threads
    BY DEF QueuedReaders, QueuedWriters, Readers, Writers, At
  <2>a. ASSUME NEW t \in Threads, pc[t] \in {"idle", "rwoken"}, ReaderActive(t),
               ~shouldQueueReader,
               m_numQueuedReaders' = IF pc[t] = "idle" THEN m_numQueuedReaders
                                     ELSE m_numQueuedReaders - 1
        PROVE  IInv'
    <3>1. /\ QueuedReaders' = QueuedReaders \ {t}
          /\ Readers' = Readers \cup {t} /\ t \notin Readers
          /\ QueuedWriters' = QueuedWriters
          /\ Writers' = Writers
          /\ t \in QueuedReaders <=> pc[t] = "rwoken"
      BY <2>a DEF ReaderActive, Moved, TypeOK, QueuedReaders, QueuedWriters, Readers, Writers, At
    <3>2. CountersExact'
      <4>1. Cardinality(Readers') = Cardinality(Readers) + 1
        BY <3>1, <2>0, OneMore
      <4>2. Cardinality(QueuedReaders') = m_numQueuedReaders'
        <5>1. CASE pc[t] = "idle"
          <6>1. QueuedReaders' = QueuedReaders
            BY <5>1, <3>1
          <6>2. QED
            BY <6>1, <5>1, <2>a DEF CountersExact
        <5>2. CASE pc[t] = "rwoken"
          BY <5>2, <3>1, <2>0, <2>a, OneLess DEF CountersExact
        <5>3. QED
          BY <5>1, <5>2, <2>a
      <4>3. QED
        BY <4>1, <4>2, <3>1, <2>a DEF CountersExact, ReaderActive, Readers, Writers
    <3>3. MutualExclusion'
      <4>1. Writers = {}
        BY <2>a, CountersPositive DEF shouldQueueReader
      <4>2. QED
        BY <4>1, <3>1 DEF MutualExclusion, Writers, Readers
    <3>4. TypeOK'
      BY <3>1, CountersPositive, <2>a DEF TypeOK, ReaderActive, Moved, QueuedReaders
    <3>5. QED
      BY <3>2, <3>3, <3>4
  <2>b. ASSUME NEW t \in Threads, NEW d \in {"none", "pending"}, pc[t] = "idle", ReaderQueued(t, d)
        PROVE  IInv'
    <3>1. /\ QueuedReaders' = QueuedReaders \cup {t} /\ t \notin QueuedReaders
          /\ UNCHANGED <<Readers, QueuedWriters, Writers>>
      BY <2>b DEF ReaderQueued, Moved, TypeOK, QueuedReaders, QueuedWriters, Readers, Writers, At
    <3>2. CountersExact'
      BY <3>1, <2>0, <2>b, OneMore DEF CountersExact, ReaderQueued, Readers, Writers
    <3>3. MutualExclusion'
      BY <3>1 DEF MutualExclusion, Writers, Readers
    <3>4. TypeOK'
      BY <3>2, <2>b DEF TypeOK, ReaderQueued, Moved
    <3>5. QED
      BY <3>2, <3>3, <3>4
  <2>c. ASSUME NEW t \in Threads, pc[t] = "rwoken",
               m_numQueuedReaders' = m_numQueuedReaders - 1,
               pc' = Moved(t, "idle"), deadline' = [deadline EXCEPT ![t] = "none"],
               UNCHANGED <<m_numActiveReaders, m_numQueuedWriters, m_numActiveWriters>>
        PROVE  IInv'
    <3>1. /\ QueuedReaders' = QueuedReaders \ {t} /\ t \in QueuedReaders
          /\ UNCHANGED <<Readers, QueuedWriters, Writers>>
      BY <2>c DEF Moved, TypeOK, QueuedReaders, QueuedWriters, Readers, Writers, At
    <3>2. CountersExact'
      BY <3>1, <2>0, <2>c, OneLess DEF CountersExact, Readers, Writers
    <3>3. MutualExclusion'
      BY <3>1 DEF MutualExclusion, Writers, Readers
    <3>4. TypeOK'
      BY <3>1, <2>c, CountersPositive DEF TypeOK, Moved
    <3>5. QED
      BY <3>2, <3>3, <3>4
  <2>d. ASSUME NEW t \in Threads, pc[t] = "rwoken",
               pc' = Moved(t, "rwait"), UNCHANGED <<counters, deadline>>
        PROVE  IInv'
    <3>1. UNCHANGED Kinds
      BY <2>d DEF Kinds, Moved, TypeOK, QueuedReaders, QueuedWriters, Readers, Writers, At
    <3>2. QED
      BY <3>1, <2>d DEF Kinds, Moved, counters, TypeOK, CountersExact, MutualExclusion, Readers, Writers
  <2>g. ASSUME NEW t \in Threads, NEW d \in {"none", "pending"}, pc[t] = "idle", WriterQueued(t, d)
        PROVE  IInv'
    <3>1. /\ QueuedWriters' = QueuedWriters \cup {t} /\ t \notin QueuedWriters
          /\ UNCHANGED <<Writers, QueuedReaders, Readers>>
      BY <2>g DEF WriterQueued, Moved, TypeOK, QueuedReaders, QueuedWriters, Readers, Writers, At
    <3>2. CountersExact'
      BY <3>1, <2>0, <2>g, OneMore DEF CountersExact, WriterQueued, Readers, Writers
    <3>3. MutualExclusion'
      BY <3>1 DEF MutualExclusion, Writers, Readers
    <3>4. TypeOK'
      BY <3>2, <2>g DEF TypeOK, WriterQueued, Moved
    <3>5. QED
      BY <3>2, <3>3, <3>4
  <2>h. ASSUME NEW t \in Threads, pc[t] = "wwoken",
               m_numQueuedWriters' = m_numQueuedWriters - 1,
               pc' = Moved(t, "idle"), deadline' = [deadline EXCEPT ![t] = "none"],
               UNCHANGED <<m_numActiveWriters, m_numQueuedReaders, m_numActiveReaders>>
        PROVE  IInv'
    <3>1. /\ QueuedWriters' = QueuedWriters \ {t} /\ t \in QueuedWriters
          /\ UNCHANGED <<Writers, QueuedReaders, Readers>>
      BY <2>h DEF Moved, TypeOK, QueuedReaders, QueuedWriters, Readers, Writers, At
    <3>2. CountersExact'
      BY <3>1, <2>0, <2>h, OneLess DEF CountersExact, Readers, Writers
    <3>3. MutualExclusion'
      BY <3>1 DEF MutualExclusion, Writers, Readers
    <3>4. TypeOK'
      BY <3>1, <2>h, CountersPositive DEF TypeOK, Moved
    <3>5. QED
      BY <3>2, <3>3, <3>4
  <2>i. ASSUME NEW t \in Threads, pc[t] = "wwoken",
               pc' = Moved(t, "wwait"), UNCHANGED <<counters, deadline>>
        PROVE  IInv'
    <3>1. UNCHANGED Kinds
      BY <2>i DEF Kinds, Moved, TypeOK, QueuedReaders, QueuedWriters, Readers, Writers, At
    <3>2. QED
      BY <3>1, <2>i DEF Kinds, Moved, counters, TypeOK, CountersExact, MutualExclusion, Readers, Writers
  <2>e. ASSUME NEW t \in Threads, ReaderUnlock(t)
        PROVE  IInv'
    <3>1. /\ Readers' = Readers \ {t} /\ t \in Readers
          /\ UNCHANGED <<QueuedReaders, QueuedWriters, Writers>>
          /\ pc' \in [Threads -> {"idle", "rwait", "rwoken", "reading",
                                  "wwait", "wwoken", "writing"}]
      <4>1. \/ pc' = Moved(t, "idle")
            \/ Notify("wwait", "wwoken", Moved(t, "idle"))
        BY <2>e DEF ReaderUnlock
      <4>2. QED
        BY <4>1, <2>e, NotifyKinds DEF ReaderUnlock, QueuedReaders, QueuedWriters, Readers, Writers, At
    <3>2. CountersExact'
      BY <3>1, <2>0, <2>e, OneLess DEF CountersExact, ReaderUnlock, Readers, Writers
    <3>3. MutualExclusion'
      BY <3>1 DEF MutualExclusion, Writers, Readers
    <3>4. TypeOK'
      BY <3>1, <2>e, CountersPositive DEF TypeOK, ReaderUnlock
    <3>5. QED
      BY <3>2, <3>3, <3>4
  <2>f. ASSUME NEW t \in Threads, pc[t] \in {"idle", "wwoken"}, WriterActive(t),
               ~shouldQueueWriter,
               m_numQueuedWriters' = IF pc[t] = "idle" THEN m_numQueuedWriters
                                     ELSE m_numQueuedWriters - 1
        PROVE  IInv'
    <3>1. /\ QueuedWriters' = QueuedWriters \ {t}
          /\ Writers' = Writers \cup {t} /\ t \notin Writers
          /\ QueuedReaders' = QueuedReaders
          /\ Readers' = Readers
          /\ t \in QueuedWriters <=> pc[t] = "wwoken"
      BY <2>f DEF WriterActive, Moved, TypeOK, QueuedReaders, QueuedWriters, Readers, Writers, At
    <3>2. CountersExact'
      <4>1. Cardinality(Writers') = Cardinality(Writers) + 1
        BY <3>1, <2>0, OneMore
      <4>2. Cardinality(QueuedWriters') = m_numQueuedWriters'
        <5>1. CASE pc[t] = "idle"
          <6>1. QueuedWriters' = QueuedWriters
            BY <5>1, <3>1
          <6>2. QED
            BY <6>1, <5>1, <2>f DEF CountersExact
        <5>2. CASE pc[t] = "wwoken"
          BY <5>2, <3>1, <2>0, <2>f, OneLess DEF CountersExact
        <5>3. QED
          BY <5>1, <5>2, <2>f
      <4>3. QED
        BY <4>1, <4>2, <3>1, <2>f DEF CountersExact, WriterActive, Readers, Writers
    <3>3. MutualExclusion'
      <4>1. Writers = {} /\ Readers = {}
        BY <2>f, CountersPositive DEF shouldQueueWriter
      <4>2. QED
        BY <4>1, <3>1 DEF MutualExclusion, Writers, Readers
    <3>4. TypeOK'
      BY <3>1, CountersPositive, <2>f DEF TypeOK, WriterActive, Moved, QueuedWriters
    <3>5. QED
      BY <3>2, <3>3, <3>4
  <2>j. ASSUME NEW t \in Threads, WriterUnlock(t)
        PROVE  IInv'
    <3>1. /\ Writers' = Writers \ {t} /\ t \in Writers
          /\ UNCHANGED <<QueuedReaders, QueuedWriters, Readers>>
          /\ pc' \in [Threads -> {"idle", "rwait", "rwoken", "reading",
                                  "wwait", "wwoken", "writing"}]
      <4>1. \/ pc' = Moved(t, "idle")
            \/ Notify("wwait", "wwoken", Moved(t, "idle"))
            \/ NotifyAll("rwait", "rwoken", Moved(t, "idle"))
        BY <2>j DEF WriterUnlock, WriterUnlockNotify
      <4>2. QED
        BY <4>1, <2>j, NotifyKinds DEF WriterUnlock, QueuedReaders, QueuedWriters, Readers, Writers, At
    <3>2. CountersExact'
      BY <3>1, <2>0, <2>j, OneLess DEF CountersExact, WriterUnlock, Readers, Writers
    <3>3. MutualExclusion'
      BY <3>1 DEF MutualExclusion, Writers, Readers
    <3>4. TypeOK'
      BY <3>1, <2>j, CountersPositive DEF TypeOK, WriterUnlock
    <3>5. QED
      BY <3>2, <3>3, <3>4
  <2>k. ASSUME NEW t \in Threads, Timeout(t) \/ SpuriousWakeup(t)
        PROVE  IInv'
    <3>1. UNCHANGED Kinds /\ UNCHANGED counters
      BY <2>k, WakeKeepsKinds DEF Timeout, SpuriousWakeup
    <3>2. TypeOK'
      BY <3>1, <2>k DEF TypeOK, counters, Timeout, SpuriousWakeup, Moved, Woken
    <3>3. QED
      BY <3>1, <3>2 DEF Kinds, counters, CountersExact, MutualExclusion, Readers, Writers
  <2>l. CASE UNCHANGED vars
    BY <2>l DEF vars, TypeOK, CountersExact, MutualExclusion, QueuedReaders, QueuedWriters, At
  <2>1. ASSUME NEW t \in Threads, ReaderLock(t) \/ ReaderTryLock(t) \/ ReaderTryLockTimed(t)
        PROVE  IInv'
    BY <2>1, <2>a, <2>b DEF ReaderLock, ReaderTryLock, ReaderTryLockTimed
  <2>2. ASSUME NEW t \in Threads, ReaderResume(t)
        PROVE  IInv'
    BY <2>2, <2>a, <2>c, <2>d DEF ReaderResume
  <2>3. ASSUME NEW t \in Threads, WriterLock(t) \/ WriterTryLock(t) \/ WriterTryLockTimed(t)
        PROVE  IInv'
    BY <2>3, <2>f, <2>g DEF WriterLock, WriterTryLock, WriterTryLockTimed
  <2>4. ASSUME NEW t \in Threads, WriterResume(t)
        PROVE  IInv'
    BY <2>4, <2>f, <2>h, <2>i DEF WriterResume
  <2>5. QED
    BY <2>1, <2>2, <2>3, <2>4, <2>e, <2>j, <2>k, <2>l DEF Next
<1>3. QED
  BY <1>1, <1>2, PTL DEF Spec

(* TypeOK, exact counters and mutual exclusion for every finite set of      *)
(* threads, whatever mixture of plain, try and timed locks they use.        *)
THEOREM Safety == Spec => [](TypeOK /\ CountersExact /\ MutualExclusion)
  BY Inductive, PTL DEF IInv

-----------------------------------------------------------------------------
(* A thread in an untimed write lock has no deadline.                       *)
WritersPatient ==
  m_policy \notin TimedWriters => \A t \in QueuedWriters : deadline[t] = "none"

ReadersCovered == (m_policy = PREFER_READERS \/ m_policy \notin TimedWriters) => ReadersAlerted

AInv == IInv /\ WritersPatient /\ ReadersCovered /\ WritersAlerted

(* No wake-up is lost: WritersAlerted always, and ReadersAlerted under      *)
(* PREFER_READERS or in a program without timed write locks.                *)
THEOREM NoLostWakeup == Spec => [](WritersAlerted /\ ReadersCovered)
<1> USE DEF PREFER_READERS, PREFER_WRITERS
<1>1. Init => WritersPatient /\ ReadersCovered /\ WritersAlerted
  BY DEF Init, WritersPatient, ReadersCovered, WritersAlerted, ReadersAlerted, QueuedWriters, At
<1>2. AInv /\ IInv' /\ [Next]_vars => (WritersPatient /\ ReadersCovered /\ WritersAlerted)'
  <2> SUFFICES ASSUME AInv, IInv', [Next]_vars
               PROVE  (WritersPatient /\ ReadersCovered /\ WritersAlerted)'
    OBVIOUS
  <2>z. UNCHANGED m_policy
    BY DEF Next, vars
  <2> USE <2>z
  <2> DEFINE Goal == WritersPatient /\ ReadersCovered /\ WritersAlerted
  <2>p. /\ TypeOK
        /\ m_numQueuedReaders \in Nat /\ (m_numQueuedReaders > 0 <=> QueuedReaders # {})
        /\ m_numActiveReaders \in Nat /\ (m_numActiveReaders > 0 <=> Readers # {})
        /\ m_numQueuedWriters \in Nat /\ (m_numQueuedWriters > 0 <=> QueuedWriters # {})
        /\ m_numActiveWriters \in Nat /\ (m_numActiveWriters > 0 <=> Writers # {})
    BY CountersPositive DEF AInv, IInv
  <2>1. ASSUME NEW t \in Threads, ReaderLock(t) \/ ReaderTryLock(t) \/ ReaderTryLockTimed(t)
        PROVE  Goal'
    BY <2>1, <2>p DEF AInv, ReaderLock, ReaderTryLock, ReaderTryLockTimed, ReaderActive, ReaderQueued, shouldQueueReader,
       WritersPatient,
       ReadersCovered, WritersAlerted, ReadersAlerted, QueuedWriters, QueuedReaders, At, Readers, Writers, Moved, TypeOK
  <2>2. ASSUME NEW t \in Threads, ReaderResume(t)
        PROVE  Goal'
    BY <2>2, <2>p DEF AInv, ReaderResume, ReaderActive, counters, shouldQueueReader,
       WritersPatient,
       ReadersCovered, WritersAlerted, ReadersAlerted, QueuedWriters, QueuedReaders, At, Readers, Writers, Moved, TypeOK
  <2>3. ASSUME NEW t \in Threads, WriterLock(t) \/ WriterTryLock(t) \/ WriterTryLockTimed(t)
        PROVE  Goal'
    BY <2>3, <2>p DEF AInv, WriterLock, WriterTryLock, WriterTryLockTimed, WriterActive, WriterQueued, shouldQueueWriter,
       WritersPatient,
       ReadersCovered, WritersAlerted, ReadersAlerted, QueuedWriters, QueuedReaders, At, Readers, Writers, Moved, TypeOK
  <2>4. ASSUME NEW t \in Threads, WriterResume(t)
        PROVE  Goal'
    BY <2>4, <2>p DEF AInv, WriterResume, WriterActive, counters, shouldQueueWriter,
       WritersPatient,
       ReadersCovered, WritersAlerted, ReadersAlerted, QueuedWriters, QueuedReaders, At, Readers, Writers, Moved, TypeOK
  <2>5. ASSUME NEW t \in Threads, ReaderUnlock(t)
        PROVE  Goal'
    BY <2>5, <2>p DEF AInv, ReaderUnlock, Notify,
       WritersPatient,
       ReadersCovered, WritersAlerted, ReadersAlerted, QueuedWriters, QueuedReaders, At, Readers, Writers, Moved, TypeOK
  <2>6. ASSUME NEW t \in Threads, WriterUnlock(t)
        PROVE  Goal'
    <3>1. CASE m_numActiveWriters - 1 >= 1 /\ pc' = Moved(t, "idle")
      BY <2>6, <2>p, <3>1 DEF AInv, WriterUnlock, WritersPatient, ReadersCovered, WritersAlerted,
         ReadersAlerted, QueuedWriters, QueuedReaders, At, Moved, TypeOK
    <3>2. CASE m_numQueuedReaders > 0 /\ NotifyAll("rwait", "rwoken", Moved(t, "idle"))
               /\ (m_policy = PREFER_READERS \/ m_numQueuedWriters = 0)
      <4>1. At("rwait")' = {} /\ At("rwoken")' = QueuedReaders /\ QueuedReaders # {}
            /\ At("wwait")' = At("wwait") /\ QueuedWriters' = QueuedWriters
        BY <2>6, <2>p, <3>2 DEF WriterUnlock, NotifyAll, QueuedReaders, QueuedWriters, At, Moved, TypeOK
      <4>2. At("wwait") \subseteq QueuedWriters
        BY DEF At, QueuedWriters
      <4>3. QED
        BY <2>6, <2>p, <3>2, <4>1, <4>2 DEF AInv, WriterUnlock, WritersPatient, ReadersCovered,
           WritersAlerted, ReadersAlerted
    <3>3. CASE m_numQueuedWriters > 0 /\ Notify("wwait", "wwoken", Moved(t, "idle"))
               /\ (m_policy = PREFER_WRITERS \/ m_numQueuedReaders = 0)
      <4>1. At("rwait")' = At("rwait") /\ QueuedWriters' = QueuedWriters
            /\ ((At("wwait") = {} /\ At("wwait")' = {}) \/ At("wwoken")' # {})
        BY <2>6, <2>p, <3>3 DEF WriterUnlock, Notify, QueuedWriters, At, Moved, TypeOK
      <4>2. At("rwait") \subseteq QueuedReaders
        BY DEF At, QueuedReaders
      <4>3. QED
        BY <2>6, <2>p, <3>3, <4>1, <4>2 DEF AInv, WriterUnlock, WritersPatient, ReadersCovered,
           WritersAlerted, ReadersAlerted
    <3>4. CASE m_numQueuedReaders = 0 /\ m_numQueuedWriters = 0 /\ pc' = Moved(t, "idle")
      BY <2>6, <2>p, <3>4 DEF AInv, WriterUnlock, WritersPatient, ReadersCovered, WritersAlerted,
         ReadersAlerted, QueuedWriters, QueuedReaders, At, Moved, TypeOK
    <3>5. QED
      BY <2>6, <2>p, <3>1, <3>2, <3>3, <3>4 DEF WriterUnlock, WriterUnlockNotify, TypeOK
  <2>7. ASSUME NEW t \in Threads, Timeout(t) \/ SpuriousWakeup(t)
        PROVE  Goal'
    BY <2>7, <2>p DEF AInv, Timeout, SpuriousWakeup, Woken, Moved, counters, TypeOK, WritersPatient,
       ReadersCovered, WritersAlerted, ReadersAlerted, QueuedWriters, At
  <2>8. CASE UNCHANGED vars
    BY <2>8 DEF AInv, vars, WritersPatient, ReadersCovered, WritersAlerted, ReadersAlerted, QueuedWriters, At
  <2>9. QED
    BY <2>1, <2>2, <2>3, <2>4, <2>5, <2>6, <2>7, <2>8 DEF Next
<1>3. QED
  BY <1>1, <1>2, Inductive, PTL DEF Spec, AInv

(* What the comment on Policy says of readers: when no program uses timed   *)
(* write locks under PREFER_WRITERS, every reader that sleeps has a writer  *)
(* that will alert it.                                                      *)
THEOREM QueuedReadersAlerted ==
  ASSUME PREFER_WRITERS \notin TimedWriters
  PROVE  Spec => []ReadersAlerted
<1>1. TypeOK /\ ReadersCovered => ReadersAlerted
  BY DEF TypeOK, ReadersCovered
<1>2. QED
  BY <1>1, Safety, NoLostWakeup, PTL

-----------------------------------------------------------------------------
(* The mutex implements RWLock: every acquisition and release, on whichever *)
(* path it happens, is one of the abstract lock, and nothing else changes   *)
(* who holds it.                                                            *)
THEOREM Refinement == Spec => ImplementsRWLock
<1>1. Init => Lock!Init
  BY DEF Init, Lock!Init, At
<1>2. IInv /\ [Next]_vars => [Lock!Next]_<<At("reading"), At("writing")>>
  <2> SUFFICES ASSUME IInv, [Next]_vars
               PROVE  [Lock!Next]_<<At("reading"), At("writing")>>
    OBVIOUS
  <2> DEFINE Goal == [Lock!Next]_<<At("reading"), At("writing")>>
  <2>t. TypeOK
    BY DEF IInv
  <2>p. (m_numActiveReaders > 0 <=> At("reading") # {}) /\ (m_numActiveWriters > 0 <=> At("writing") # {})
        /\ m_numActiveReaders \in Nat /\ m_numActiveWriters \in Nat
    BY CountersPositive DEF IInv, Readers, Writers
  <2>a. ASSUME NEW t \in Threads, pc[t] \in {"idle", "rwoken"}, ReaderActive(t), ~shouldQueueReader
        PROVE  Goal
    <3>1. Lock!AcquireRead(t)
      BY <2>a, <2>t, <2>p DEF ReaderActive, shouldQueueReader, Lock!AcquireRead, Moved, TypeOK, At
    <3>2. QED
      BY <3>1 DEF Lock!Next
  <2>b. ASSUME NEW t \in Threads, pc[t] \in {"idle", "wwoken"}, WriterActive(t), ~shouldQueueWriter
        PROVE  Goal
    <3>1. Lock!AcquireWrite(t)
      BY <2>b, <2>t, <2>p DEF WriterActive, shouldQueueWriter, Lock!AcquireWrite, Moved, TypeOK, At
    <3>2. QED
      BY <3>1 DEF Lock!Next
  <2>c. ASSUME NEW t \in Threads, NEW l \in {"idle", "rwait", "wwait"},
               pc[t] \notin {"reading", "writing"}, pc' = Moved(t, l)
        PROVE  Goal
    BY <2>c, <2>t DEF Moved, TypeOK, At
  <2>d. ASSUME NEW t \in Threads, ReaderUnlock(t)
        PROVE  Goal
    <3>1. \/ pc' = Moved(t, "idle")
          \/ Notify("wwait", "wwoken", Moved(t, "idle"))
      BY <2>d DEF ReaderUnlock
    <3>2. Lock!ReleaseRead(t)
      BY <3>1, <2>d, <2>t, NotifyKinds DEF ReaderUnlock, Lock!ReleaseRead, At
    <3>3. QED
      BY <3>2 DEF Lock!Next
  <2>e. ASSUME NEW t \in Threads, WriterUnlock(t)
        PROVE  Goal
    <3>1. \/ pc' = Moved(t, "idle")
          \/ Notify("wwait", "wwoken", Moved(t, "idle"))
          \/ NotifyAll("rwait", "rwoken", Moved(t, "idle"))
      BY <2>e DEF WriterUnlock, WriterUnlockNotify
    <3>2. At("writing") = {t}
      BY <2>e DEF IInv, MutualExclusion, WriterUnlock, At
    <3>3. Lock!ReleaseWrite(t)
      BY <3>1, <3>2, <2>e, <2>t, NotifyKinds DEF WriterUnlock, Lock!ReleaseWrite, At
    <3>4. QED
      BY <3>3 DEF Lock!Next
  <2>1. ASSUME NEW t \in Threads, ReaderLock(t) \/ ReaderTryLock(t) \/ ReaderTryLockTimed(t)
        PROVE  Goal
    BY <2>1, <2>a, <2>c DEF ReaderLock, ReaderTryLock, ReaderTryLockTimed, ReaderQueued
  <2>2. ASSUME NEW t \in Threads, ReaderResume(t)
        PROVE  Goal
    BY <2>2, <2>a, <2>c DEF ReaderResume
  <2>3. ASSUME NEW t \in Threads, WriterLock(t) \/ WriterTryLock(t) \/ WriterTryLockTimed(t)
        PROVE  Goal
    BY <2>3, <2>b, <2>c DEF WriterLock, WriterTryLock, WriterTryLockTimed, WriterQueued
  <2>4. ASSUME NEW t \in Threads, WriterResume(t)
        PROVE  Goal
    BY <2>4, <2>b, <2>c DEF WriterResume
  <2>5. ASSUME NEW t \in Threads, Timeout(t) \/ SpuriousWakeup(t)
        PROVE  Goal
    BY <2>5, <2>t, WakeKeepsKinds DEF Kinds, Readers, Writers
  <2>6. CASE UNCHANGED vars
    BY <2>6 DEF vars, At
  <2>7. QED
    BY <2>1, <2>2, <2>3, <2>4, <2>5, <2>6, <2>d, <2>e DEF Next
<1>3. QED
  BY <1>1, <1>2, Inductive, PTL DEF Spec, ImplementsRWLock, Lock!Spec
=============================================================================
