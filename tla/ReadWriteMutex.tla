--------------------------- MODULE ReadWriteMutex ---------------------------
(***************************************************************************)
(* core.sync.rwmutex.ReadWriteMutex.                                       *)
(*                                                                         *)
(* Every method runs inside synchronized(m_commonMutex) and gives the      *)
(* mutex up only in Condition.wait, so the code between two waits is one   *)
(* step here.  A thread inside wait() is "rwait" or "wwait"; once it is    *)
(* notified, times out or wakes spuriously it is "rwoken" or "wwoken",     *)
(* still has to get m_commonMutex back, and then tests its loop condition  *)
(* again.  The shared and the non-shared overloads differ only in casts    *)
(* and in when a timed lock reads the clock; one action stands for both.   *)
(***************************************************************************)
EXTENDS Integers, FiniteSets

CONSTANTS
  Threads,       \* the threads that use the mutex
  TimedWriters   \* the policies under which the program calls Writer.tryLock(Duration)

PREFER_READERS == "PREFER_READERS"
PREFER_WRITERS == "PREFER_WRITERS"

ASSUME ThreadsAssumption == IsFiniteSet(Threads)
ASSUME TimedWritersAssumption == TimedWriters \subseteq {PREFER_READERS, PREFER_WRITERS}

VARIABLES
  m_policy,      \* chosen by the constructor
  m_numQueuedReaders,
  m_numActiveReaders,
  m_numQueuedWriters,
  m_numActiveWriters,
  pc,            \* where each thread is
  deadline       \* of the timed lock a thread is in: none, pending, passed

counters == <<m_numQueuedReaders, m_numActiveReaders,
              m_numQueuedWriters, m_numActiveWriters>>
vars == <<m_policy, m_numQueuedReaders, m_numActiveReaders,
          m_numQueuedWriters, m_numActiveWriters, pc, deadline>>

(* The counters never go below zero, and a thread is in one call at most.   *)
TypeOK ==
  /\ m_policy \in {PREFER_READERS, PREFER_WRITERS}
  /\ m_numQueuedReaders \in Nat
  /\ m_numActiveReaders \in Nat
  /\ m_numQueuedWriters \in Nat
  /\ m_numActiveWriters \in Nat
  /\ pc \in [Threads -> {"idle", "rwait", "rwoken", "reading",
                         "wwait", "wwoken", "writing"}]
  /\ deadline \in [Threads -> {"none", "pending", "passed"}]

At(l) == {t \in Threads : pc[t] = l}

QueuedReaders == {t \in Threads : pc[t] \in {"rwait", "rwoken"}}
QueuedWriters == {t \in Threads : pc[t] \in {"wwait", "wwoken"}}

Init ==
  /\ m_policy \in {PREFER_READERS, PREFER_WRITERS}
  /\ m_numQueuedReaders = 0
  /\ m_numActiveReaders = 0
  /\ m_numQueuedWriters = 0
  /\ m_numActiveWriters = 0
  /\ pc = [t \in Threads |-> "idle"]
  /\ deadline = [t \in Threads |-> "none"]

-----------------------------------------------------------------------------
(* Condition variables: notify wakes one waiter of the queue if there is    *)
(* one, notifyAll wakes them all.  mine is pc with the caller's own move.   *)

Notify(l, woken, mine) ==
  \/ /\ At(l) = {}
     /\ pc' = mine
  \/ \E w \in At(l) : pc' = [mine EXCEPT ![w] = woken]

NotifyAll(l, woken, mine) ==
  pc' = [t \in Threads |-> IF pc[t] = l THEN woken ELSE mine[t]]

Moved(t, l) == [pc EXCEPT ![t] = l]

-----------------------------------------------------------------------------
\* mutant: the policy is not consulted
shouldQueueReaderNoPolicy ==
  m_numActiveWriters > 0

\* mutant: queued writers are consulted, the active one is not
shouldQueueReaderNoActive ==
  m_policy = PREFER_WRITERS /\ m_numQueuedWriters > 0

shouldQueueReader ==
  \/ m_numActiveWriters > 0
  \/ m_policy = PREFER_WRITERS /\ m_numQueuedWriters > 0

ReaderQueued(t, d) ==
  /\ m_numQueuedReaders' = m_numQueuedReaders + 1
  /\ pc' = Moved(t, "rwait")
  /\ deadline' = [deadline EXCEPT ![t] = d]
  /\ UNCHANGED <<m_numActiveReaders, m_numQueuedWriters, m_numActiveWriters>>

ReaderActive(t) ==
  /\ m_numActiveReaders' = m_numActiveReaders + 1
  /\ pc' = Moved(t, "reading")
  /\ deadline' = [deadline EXCEPT ![t] = "none"]
  /\ UNCHANGED <<m_numQueuedWriters, m_numActiveWriters>>

ReaderLock(t) ==
  /\ pc[t] = "idle"
  /\ \/ /\ ~shouldQueueReader
        /\ ReaderActive(t)
        /\ UNCHANGED m_numQueuedReaders
     \/ /\ shouldQueueReader
        /\ ReaderQueued(t, "none")

\* false is returned, and nothing changes, when the lock is not free
ReaderTryLock(t) ==
  /\ pc[t] = "idle"
  /\ ~shouldQueueReader
  /\ ReaderActive(t)
  /\ UNCHANGED m_numQueuedReaders

\* a timeout that is zero, or has passed already, returns false at once
ReaderTryLockTimed(t) ==
  /\ pc[t] = "idle"
  /\ \/ /\ ~shouldQueueReader
        /\ ReaderActive(t)
        /\ UNCHANGED m_numQueuedReaders
     \/ /\ shouldQueueReader
        /\ ReaderQueued(t, "pending")

\* the loop of lock and of the timed tryLock, with m_commonMutex held again
ReaderResume(t) ==
  /\ pc[t] = "rwoken"
  /\ \/ /\ ~shouldQueueReader
        /\ ReaderActive(t)
        /\ m_numQueuedReaders' = m_numQueuedReaders - 1
     \/ /\ shouldQueueReader
        /\ deadline[t] = "passed"
        /\ m_numQueuedReaders' = m_numQueuedReaders - 1
        /\ pc' = Moved(t, "idle")
        /\ deadline' = [deadline EXCEPT ![t] = "none"]
        /\ UNCHANGED <<m_numActiveReaders, m_numQueuedWriters, m_numActiveWriters>>
     \/ /\ shouldQueueReader
        /\ deadline[t] # "passed"
        /\ pc' = Moved(t, "rwait")
        /\ UNCHANGED <<counters, deadline>>

\* mutant: the last reader leaves without notifying a writer
ReaderUnlockSilent(t) ==
  /\ pc[t] = "reading"
  /\ m_numActiveReaders' = m_numActiveReaders - 1
  /\ pc' = Moved(t, "idle")
  /\ UNCHANGED <<m_numQueuedReaders, m_numQueuedWriters, m_numActiveWriters, deadline>>

ReaderUnlock(t) ==
  /\ pc[t] = "reading"
  /\ m_numActiveReaders' = m_numActiveReaders - 1
  /\ IF m_numActiveReaders - 1 < 1 /\ m_numQueuedWriters > 0
       THEN Notify("wwait", "wwoken", Moved(t, "idle"))
       ELSE pc' = Moved(t, "idle")
  /\ UNCHANGED <<m_numQueuedReaders, m_numQueuedWriters, m_numActiveWriters, deadline>>

-----------------------------------------------------------------------------
\* mutant: readers that hold the lock are forgotten
shouldQueueWriterNoReaders ==
  m_numActiveWriters > 0

\* mutant: the policy is not consulted
shouldQueueWriterNoPolicy ==
  m_numActiveWriters > 0 \/ m_numActiveReaders > 0

shouldQueueWriter ==
  \/ m_numActiveWriters > 0
  \/ m_numActiveReaders > 0
  \/ m_policy = PREFER_READERS /\ m_numQueuedReaders > 0

WriterQueued(t, d) ==
  /\ m_numQueuedWriters' = m_numQueuedWriters + 1
  /\ pc' = Moved(t, "wwait")
  /\ deadline' = [deadline EXCEPT ![t] = d]
  /\ UNCHANGED <<m_numQueuedReaders, m_numActiveReaders, m_numActiveWriters>>

WriterActive(t) ==
  /\ m_numActiveWriters' = m_numActiveWriters + 1
  /\ pc' = Moved(t, "writing")
  /\ deadline' = [deadline EXCEPT ![t] = "none"]
  /\ UNCHANGED <<m_numQueuedReaders, m_numActiveReaders>>

WriterLock(t) ==
  /\ pc[t] = "idle"
  /\ \/ /\ ~shouldQueueWriter
        /\ WriterActive(t)
        /\ UNCHANGED m_numQueuedWriters
     \/ /\ shouldQueueWriter
        /\ WriterQueued(t, "none")

WriterTryLock(t) ==
  /\ pc[t] = "idle"
  /\ ~shouldQueueWriter
  /\ WriterActive(t)
  /\ UNCHANGED m_numQueuedWriters

WriterTryLockTimed(t) ==
  /\ m_policy \in TimedWriters
  /\ pc[t] = "idle"
  /\ \/ /\ ~shouldQueueWriter
        /\ WriterActive(t)
        /\ UNCHANGED m_numQueuedWriters
     \/ /\ shouldQueueWriter
        /\ WriterQueued(t, "pending")

WriterResume(t) ==
  /\ pc[t] = "wwoken"
  /\ \/ /\ ~shouldQueueWriter
        /\ WriterActive(t)
        /\ m_numQueuedWriters' = m_numQueuedWriters - 1
     \/ /\ shouldQueueWriter
        /\ deadline[t] = "passed"
        /\ m_numQueuedWriters' = m_numQueuedWriters - 1
        /\ pc' = Moved(t, "idle")
        /\ deadline' = [deadline EXCEPT ![t] = "none"]
        /\ UNCHANGED <<m_numQueuedReaders, m_numActiveReaders, m_numActiveWriters>>
     \/ /\ shouldQueueWriter
        /\ deadline[t] # "passed"
        /\ pc' = Moved(t, "wwait")
        /\ UNCHANGED <<counters, deadline>>

\* mutant: notify in place of notifyAll
WriterUnlockNotifyOne(mine) ==
  IF m_numQueuedReaders > 0 THEN Notify("rwait", "rwoken", mine)
  ELSE IF m_numQueuedWriters > 0 THEN Notify("wwait", "wwoken", mine)
  ELSE pc' = mine

WriterUnlockNotify(mine) ==
  IF m_policy = PREFER_READERS
    THEN IF m_numQueuedReaders > 0 THEN NotifyAll("rwait", "rwoken", mine)
         ELSE IF m_numQueuedWriters > 0 THEN Notify("wwait", "wwoken", mine)
         ELSE pc' = mine
    ELSE IF m_numQueuedWriters > 0 THEN Notify("wwait", "wwoken", mine)
         ELSE IF m_numQueuedReaders > 0 THEN NotifyAll("rwait", "rwoken", mine)
         ELSE pc' = mine

WriterUnlock(t) ==
  /\ pc[t] = "writing"
  /\ m_numActiveWriters' = m_numActiveWriters - 1
  /\ IF m_numActiveWriters - 1 < 1
       THEN WriterUnlockNotify(Moved(t, "idle"))
       ELSE pc' = Moved(t, "idle")
  /\ UNCHANGED <<m_numQueuedReaders, m_numActiveReaders, m_numQueuedWriters, deadline>>

-----------------------------------------------------------------------------
Woken(l) == IF l = "rwait" THEN "rwoken" ELSE "wwoken"

\* time runs out for a timed lock: its wait, if it is in one, returns
Timeout(t) ==
  /\ deadline[t] = "pending"
  /\ deadline' = [deadline EXCEPT ![t] = "passed"]
  /\ IF pc[t] \in {"rwait", "wwait"}
       THEN pc' = Moved(t, Woken(pc[t]))
       ELSE UNCHANGED pc
  /\ UNCHANGED counters

\* pthread_cond_wait may return without a notification
SpuriousWakeup(t) ==
  /\ pc[t] \in {"rwait", "wwait"}
  /\ pc' = Moved(t, Woken(pc[t]))
  /\ UNCHANGED <<counters, deadline>>

Next ==
  /\ \E t \in Threads :
       \/ ReaderLock(t) \/ ReaderTryLock(t) \/ ReaderTryLockTimed(t)
       \/ ReaderResume(t) \/ ReaderUnlock(t)
       \/ WriterLock(t) \/ WriterTryLock(t) \/ WriterTryLockTimed(t)
       \/ WriterResume(t) \/ WriterUnlock(t)
       \/ Timeout(t) \/ SpuriousWakeup(t)
  /\ UNCHANGED m_policy

Spec == Init /\ [][Next]_vars

(* A thread that is woken gets m_commonMutex back in the end, a holder      *)
(* releases what it holds, and time passes.  No thread has to start a lock. *)
Fairness ==
  \A t \in Threads :
    /\ WF_vars(ReaderResume(t) /\ UNCHANGED m_policy)
    /\ WF_vars(ReaderUnlock(t) /\ UNCHANGED m_policy)
    /\ WF_vars(WriterResume(t) /\ UNCHANGED m_policy)
    /\ WF_vars(WriterUnlock(t) /\ UNCHANGED m_policy)
    /\ WF_vars(Timeout(t) /\ UNCHANGED m_policy)

FairSpec == Spec /\ Fairness

-----------------------------------------------------------------------------
(* The four counters, which lock, tryLock and unlock keep by hand on every  *)
(* path, scope(exit) included, count exactly the threads they claim to.     *)
CountersExact ==
  /\ m_numQueuedReaders = Cardinality(QueuedReaders)
  /\ m_numActiveReaders = Cardinality(At("reading"))
  /\ m_numQueuedWriters = Cardinality(QueuedWriters)
  /\ m_numActiveWriters = Cardinality(At("writing"))

(* Writers exclude each other and every reader.                             *)
MutualExclusion ==
  /\ \A t, u \in At("writing") : t = u
  /\ At("writing") # {} => At("reading") = {}

(* "once there are no writers present, all queued readers will be alerted"  *)
(* (the comment on Policy): no reader sleeps in m_readerQueue.wait() unless *)
(* a writer that will alert it is active or, under PREFER_WRITERS, queued.  *)
ReadersAlerted ==
  At("rwait") # {} =>
    \/ m_numActiveWriters > 0
    \/ m_policy = PREFER_WRITERS /\ m_numQueuedWriters > 0

(* No wake-up of a writer is lost: while a writer sleeps in                 *)
(* m_writerQueue.wait() there is a holder, whose unlock will notify, or a   *)
(* woken writer, or under PREFER_READERS a woken reader, that will be one.  *)
WritersAlerted ==
  At("wwait") # {} =>
    \/ m_numActiveReaders > 0 \/ m_numActiveWriters > 0
    \/ At("wwoken") # {}
    \/ m_policy = PREFER_READERS /\ At("rwoken") # {}

(* Under PREFER_READERS ("Readers get preference") a queued reader gets the *)
(* lock or times out, whatever the writers do.                              *)
ReaderProgress ==
  \A t \in Threads :
    (m_policy = PREFER_READERS /\ t \in QueuedReaders) ~> pc[t] \in {"idle", "reading"}

(* Under PREFER_WRITERS ("Writers get preference") a queue of writers never *)
(* stalls: one of them gets the lock, or the queue empties by timeouts.     *)
WriterQueueProgress ==
  (m_policy = PREFER_WRITERS /\ m_numQueuedWriters > 0)
    ~> (At("writing") # {} \/ m_numQueuedWriters = 0)

(* The mutex implements the read/write lock of module RWLock.               *)
Lock == INSTANCE RWLock WITH readers <- At("reading"), writers <- At("writing")
ImplementsRWLock == Lock!Spec
=============================================================================
