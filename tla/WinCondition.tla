---------------------------- MODULE WinCondition ----------------------------
(***************************************************************************)
(* core.sync.condition.Condition on Windows: a condition variable made of  *)
(* two semaphores, a critical section and three counters ("Algorithm 8c"). *)
(*                                                                         *)
(* m_blockLock is the gate every waiter passes on its way in and a         *)
(* notifier keeps shut until the waiters it unblocks are out.  The code    *)
(* between two blocking calls is one step; EnterCriticalSection,           *)
(* WaitForSingleObject and Mutex.lock are the blocking calls.              *)
(***************************************************************************)
EXTENDS Integers, FiniteSets

CONSTANTS
  Waiters,       \* threads that call wait() and wait(Duration)
  Notifiers,     \* threads that call notify() and notifyAll()
  TimedWaits,    \* when the program calls wait(Duration): "never", "alone" (not while
                 \* another thread waits, nor the other way round) or "anytime"
  GoneLimit,     \* int.max / 2 in the code
  NoThread

ASSUME WaitersAssumption == IsFiniteSet(Waiters)
ASSUME DisjointAssumption == Waiters \cap Notifiers = {}
ASSUME GoneLimitAssumption == GoneLimit \in Nat \ {0}
ASSUME TimedWaitsAssumption == TimedWaits \in {"never", "alone", "anytime"}
ASSUME NoThreadAssumption == NoThread \notin Waiters \cup Notifiers

Threads == Waiters \cup Notifiers

VARIABLES
  m_blockLock,             \* count of the semaphore, 0 or 1
  m_blockQueue,            \* count of the semaphore
  m_unblockLock,           \* the owner of the critical section
  m_assocMutex,            \* the owner of the user's mutex
  m_numWaitersGone,
  m_numWaitersBlocked,
  m_numWaitersToUnblock,
  pc,
  timed,                   \* of a waiter: is its wait bounded in time?
  timedOut,                \* locals of timedWait
  numSignalsLeft,
  numWaitersGone,
  all,                     \* parameter of notify_
  owed                     \* history: waiters a notifyAll has to wake

sems == <<m_blockLock, m_blockQueue>>
counts == <<m_numWaitersGone, m_numWaitersBlocked, m_numWaitersToUnblock>>
locals == <<timed, timedOut, numSignalsLeft, numWaitersGone, all>>
vars == <<sems, m_unblockLock, m_assocMutex, counts, pc, locals, owed>>

(* The gate is a semaphore created with a maximum of 1, the other counters  *)
(* never go below zero.                                                     *)
TypeOK ==
  /\ m_blockLock \in 0 .. 1
  /\ m_blockQueue \in 0 .. Cardinality(Waiters)
  /\ m_unblockLock \in Threads \cup {NoThread}
  /\ m_assocMutex \in Threads \cup {NoThread}
  /\ m_numWaitersGone \in 0 .. GoneLimit
  /\ m_numWaitersBlocked \in 0 .. Cardinality(Waiters) + GoneLimit
  /\ m_numWaitersToUnblock \in 0 .. Cardinality(Waiters)
  /\ pc \in [Threads -> {"idle", "gate", "blocked", "unblock", "overflow", "finish",
                         "relock", "notify", "shutGate", "post"}]
  /\ timed \in [Waiters -> BOOLEAN]
  /\ timedOut \in [Waiters -> BOOLEAN]
  /\ numSignalsLeft \in [Waiters -> 0 .. Cardinality(Waiters)]
  /\ numWaitersGone \in [Waiters -> 0 .. 1]
  /\ all \in [Notifiers -> BOOLEAN]
  /\ owed \in SUBSET Waiters

Init ==
  /\ m_blockLock = 1
  /\ m_blockQueue = 0
  /\ m_unblockLock = NoThread
  /\ m_assocMutex = NoThread
  /\ m_numWaitersGone = 0
  /\ m_numWaitersBlocked = 0
  /\ m_numWaitersToUnblock = 0
  /\ pc = [t \in Threads |-> "idle"]
  /\ timed = [w \in Waiters |-> FALSE]
  /\ timedOut = [w \in Waiters |-> FALSE]
  /\ numSignalsLeft = [w \in Waiters |-> 0]
  /\ numWaitersGone = [w \in Waiters |-> 0]
  /\ all = [n \in Notifiers |-> FALSE]
  /\ owed = {}

Goto(t, l) == pc' = [pc EXCEPT ![t] = l]

-----------------------------------------------------------------------------
(* wait() and wait(Duration), which both end up in timedWait.               *)

Alone(w, limited) ==
  \A v \in Waiters \ {w} : pc[v] = "idle" \/ (~limited /\ ~timed[v])

\* the caller holds the mutex, as wait() requires
Wait(w, limited) ==
  /\ pc[w] = "idle"
  /\ limited => TimedWaits # "never"
  /\ TimedWaits = "alone" => Alone(w, limited)
  /\ m_assocMutex = NoThread
  /\ m_assocMutex' = w
  /\ timed' = [timed EXCEPT ![w] = limited]
  /\ Goto(w, "gate")
  /\ UNCHANGED <<sems, m_unblockLock, counts, timedOut, numSignalsLeft, numWaitersGone,
                 all, owed>>

\* through the gate and back out: nobody else can be between the two calls
EnterQueue(w) ==
  /\ pc[w] = "gate"
  /\ m_blockLock > 0
  /\ m_numWaitersBlocked' = m_numWaitersBlocked + 1
  /\ m_assocMutex' = NoThread
  /\ Goto(w, "blocked")
  /\ UNCHANGED <<sems, m_unblockLock, m_numWaitersGone, m_numWaitersToUnblock, locals,
                 owed>>

Unblocked(w) ==
  /\ pc[w] = "blocked"
  /\ m_blockQueue > 0
  /\ m_blockQueue' = m_blockQueue - 1
  /\ timedOut' = [timedOut EXCEPT ![w] = FALSE]
  /\ owed' = owed \ {w}
  /\ Goto(w, "unblock")
  /\ UNCHANGED <<m_blockLock, m_unblockLock, m_assocMutex, counts, timed, numSignalsLeft,
                 numWaitersGone, all>>

TimesOut(w) ==
  /\ pc[w] = "blocked"
  /\ timed[w]
  /\ timedOut' = [timedOut EXCEPT ![w] = TRUE]
  /\ owed' = owed \ {w}
  /\ Goto(w, "unblock")
  /\ UNCHANGED <<sems, m_unblockLock, m_assocMutex, counts, timed, numSignalsLeft,
                 numWaitersGone, all>>

\* the critical section, when waiters are being unblocked
UnblockOne(w) ==
  LET early   == timedOut[w] /\ m_numWaitersBlocked # 0
      late    == timedOut[w] /\ m_numWaitersBlocked = 0
      blocked == IF early THEN m_numWaitersBlocked - 1 ELSE m_numWaitersBlocked
      gone    == IF late THEN 1 ELSE m_numWaitersGone
      toGo    == m_numWaitersToUnblock - 1
      left    == IF early THEN 0 ELSE m_numWaitersToUnblock
      openGate == toGo = 0 /\ blocked # 0
      takeGone == toGo = 0 /\ blocked = 0
  IN  /\ pc[w] = "unblock"
      /\ m_unblockLock = NoThread
      /\ m_numWaitersToUnblock # 0
      /\ m_numWaitersBlocked' = blocked
      /\ m_numWaitersToUnblock' = toGo
      /\ m_numWaitersGone' = IF takeGone THEN 0 ELSE gone
      /\ numWaitersGone' = [numWaitersGone EXCEPT ![w] = IF takeGone THEN gone ELSE 0]
      /\ numSignalsLeft' = [numSignalsLeft EXCEPT ![w] = IF openGate THEN 0 ELSE left]
      /\ m_blockLock' = IF openGate THEN m_blockLock + 1 ELSE m_blockLock
      /\ Goto(w, "finish")
      /\ UNCHANGED <<m_blockQueue, m_unblockLock, m_assocMutex, timed, timedOut, all,
                     owed>>

\* the critical section, when nobody is: a timeout, or a stray wake-up
UnblockGone(w) ==
  /\ pc[w] = "unblock"
  /\ m_unblockLock = NoThread
  /\ m_numWaitersToUnblock = 0
  /\ m_numWaitersGone' = m_numWaitersGone + 1
  /\ numSignalsLeft' = [numSignalsLeft EXCEPT ![w] = 0]
  /\ numWaitersGone' = [numWaitersGone EXCEPT ![w] = 0]
  /\ IF m_numWaitersGone + 1 = GoneLimit
       THEN m_unblockLock' = w /\ Goto(w, "overflow")
       ELSE UNCHANGED m_unblockLock /\ Goto(w, "finish")
  /\ UNCHANGED <<sems, m_assocMutex, m_numWaitersBlocked, m_numWaitersToUnblock, timed,
                 timedOut, all, owed>>

\* "something is going on here - test of timeouts?", in a build without assertions
Overflow(w) ==
  /\ pc[w] = "overflow"
  /\ m_blockLock > 0
  /\ m_numWaitersBlocked' = m_numWaitersBlocked - m_numWaitersGone
  /\ m_unblockLock' = NoThread
  /\ m_numWaitersGone' = 0
  /\ Goto(w, "finish")
  /\ UNCHANGED <<sems, m_assocMutex, m_numWaitersToUnblock, locals, owed>>

\* "better now than spurious later": take back the wake-up of a waiter that left
Reclaim(w) ==
  /\ pc[w] = "finish"
  /\ numSignalsLeft[w] = 1
  /\ numWaitersGone[w] > 0
  /\ m_blockQueue > 0
  /\ m_blockQueue' = m_blockQueue - 1
  /\ numWaitersGone' = [numWaitersGone EXCEPT ![w] = @ - 1]
  /\ UNCHANGED <<m_blockLock, m_unblockLock, m_assocMutex, counts, pc, timed, timedOut,
                 numSignalsLeft, all, owed>>

\* mutant: the last waiter does not open the gate
FinishKeepsGate(w) ==
  /\ pc[w] = "finish"
  /\ m_blockQueue' = IF numSignalsLeft[w] > 1 THEN m_blockQueue + 1 ELSE m_blockQueue
  /\ Goto(w, "relock")
  /\ UNCHANGED <<m_blockLock, m_unblockLock, m_assocMutex, counts, locals, owed>>

\* mutant: the stray wake-up is not taken back
FinishNoReclaim(w) ==
  /\ pc[w] = "finish"
  /\ m_blockLock' = IF numSignalsLeft[w] = 1 THEN m_blockLock + 1 ELSE m_blockLock
  /\ m_blockQueue' = IF numSignalsLeft[w] > 1 THEN m_blockQueue + 1 ELSE m_blockQueue
  /\ Goto(w, "relock")
  /\ UNCHANGED <<m_unblockLock, m_assocMutex, counts, locals, owed>>

\* open the gate, or unblock the next waiter
Finish(w) ==
  /\ pc[w] = "finish"
  /\ numSignalsLeft[w] = 1 => numWaitersGone[w] = 0
  /\ m_blockLock' = IF numSignalsLeft[w] = 1 THEN m_blockLock + 1 ELSE m_blockLock
  /\ m_blockQueue' = IF numSignalsLeft[w] > 1 THEN m_blockQueue + 1 ELSE m_blockQueue
  /\ Goto(w, "relock")
  /\ UNCHANGED <<m_unblockLock, m_assocMutex, counts, locals, owed>>

\* m_assocMutex.lock(), the return, and the caller's unlock; the locals are gone
Return(w) ==
  /\ pc[w] = "relock"
  /\ m_assocMutex = NoThread
  /\ timed' = [timed EXCEPT ![w] = FALSE]
  /\ timedOut' = [timedOut EXCEPT ![w] = FALSE]
  /\ numSignalsLeft' = [numSignalsLeft EXCEPT ![w] = 0]
  /\ numWaitersGone' = [numWaitersGone EXCEPT ![w] = 0]
  /\ Goto(w, "idle")
  /\ UNCHANGED <<sems, m_unblockLock, m_assocMutex, counts, all, owed>>

-----------------------------------------------------------------------------
(* notify() and notifyAll(), with or without the mutex held.                *)

Notify(n, everyone, holding) ==
  /\ pc[n] = "idle"
  /\ IF holding
       THEN m_assocMutex = NoThread /\ m_assocMutex' = n
       ELSE UNCHANGED m_assocMutex
  /\ all' = [all EXCEPT ![n] = everyone]
  /\ Goto(n, "notify")
  /\ UNCHANGED <<sems, m_unblockLock, counts, timed, timedOut, numSignalsLeft,
                 numWaitersGone, owed>>

NotifyReturns(n) ==
  /\ m_assocMutex' = IF m_assocMutex = n THEN NoThread ELSE m_assocMutex
  /\ all' = [all EXCEPT ![n] = FALSE]
  /\ Goto(n, "idle")

BlockedWaiters == {w \in Waiters : pc[w] = "blocked"}

\* nobody is blocked, or an unblocking is under way and more waiters join it
NotifyJoin(n) ==
  /\ pc[n] = "notify"
  /\ m_unblockLock = NoThread
  /\ \/ /\ m_numWaitersToUnblock # 0
        /\ m_numWaitersBlocked # 0
        /\ m_numWaitersToUnblock' = m_numWaitersToUnblock +
                                      (IF all[n] THEN m_numWaitersBlocked ELSE 1)
        /\ m_numWaitersBlocked' = IF all[n] THEN 0 ELSE m_numWaitersBlocked - 1
        /\ owed' = IF all[n] THEN BlockedWaiters ELSE owed
     \/ /\ \/ m_numWaitersToUnblock # 0 /\ m_numWaitersBlocked = 0
           \/ m_numWaitersToUnblock = 0 /\ m_numWaitersBlocked <= m_numWaitersGone
        /\ UNCHANGED <<m_numWaitersBlocked, m_numWaitersToUnblock, owed>>
  /\ NotifyReturns(n)
  /\ UNCHANGED <<sems, m_unblockLock, m_numWaitersGone, timed, timedOut, numSignalsLeft,
                 numWaitersGone>>

\* an unblocking begins: the gate has to be shut first
NotifyBegin(n) ==
  /\ pc[n] = "notify"
  /\ m_unblockLock = NoThread
  /\ m_numWaitersToUnblock = 0
  /\ m_numWaitersBlocked > m_numWaitersGone
  /\ m_unblockLock' = n
  /\ Goto(n, "shutGate")
  /\ UNCHANGED <<sems, m_assocMutex, counts, locals, owed>>

\* mutant: notifyAll counts one waiter only
ShutGateForOne(n) ==
  LET blocked == m_numWaitersBlocked - m_numWaitersGone
  IN  /\ pc[n] = "shutGate"
      /\ m_blockLock > 0
      /\ m_blockLock' = m_blockLock - 1
      /\ m_numWaitersGone' = 0
      /\ m_numWaitersToUnblock' = 1
      /\ m_numWaitersBlocked' = blocked - 1
      /\ owed' = IF all[n] THEN BlockedWaiters ELSE owed
      /\ m_unblockLock' = NoThread
      /\ Goto(n, "post")
      /\ UNCHANGED <<m_blockQueue, m_assocMutex, locals>>

ShutGate(n) ==
  LET blocked == m_numWaitersBlocked - m_numWaitersGone
  IN  /\ pc[n] = "shutGate"
      /\ m_blockLock > 0
      /\ m_blockLock' = m_blockLock - 1
      /\ m_numWaitersGone' = 0
      /\ m_numWaitersToUnblock' = IF all[n] THEN blocked ELSE 1
      /\ m_numWaitersBlocked' = IF all[n] THEN 0 ELSE blocked - 1
      /\ owed' = IF all[n] THEN BlockedWaiters ELSE owed
      /\ m_unblockLock' = NoThread
      /\ Goto(n, "post")
      /\ UNCHANGED <<m_blockQueue, m_assocMutex, locals>>

Post(n) ==
  /\ pc[n] = "post"
  /\ m_blockQueue' = m_blockQueue + 1
  /\ NotifyReturns(n)
  /\ UNCHANGED <<m_blockLock, m_unblockLock, counts, timed, timedOut, numSignalsLeft,
                 numWaitersGone, owed>>

WaiterStep(w) ==
  \/ EnterQueue(w) \/ Unblocked(w) \/ UnblockOne(w) \/ UnblockGone(w) \/ Overflow(w)
  \/ Reclaim(w) \/ Finish(w) \/ Return(w)
NotifierStep(n) == NotifyJoin(n) \/ NotifyBegin(n) \/ ShutGate(n) \/ Post(n)

Next ==
  \/ \E w \in Waiters :
       \/ \E limited \in BOOLEAN : Wait(w, limited)
       \/ TimesOut(w)
       \/ EnterQueue(w) \/ Unblocked(w) \/ UnblockOne(w) \/ UnblockGone(w) \/ Overflow(w)
       \/ Reclaim(w) \/ Finish(w) \/ Return(w)
  \/ \E n \in Notifiers :
       \/ \E everyone, holding \in BOOLEAN : Notify(n, everyone, holding)
       \/ NotifyJoin(n) \/ NotifyBegin(n) \/ ShutGate(n) \/ Post(n)

Spec == Init /\ [][Next]_vars

(* The semaphores, the critical section and the mutex serve a thread that   *)
(* keeps asking, and time passes; no thread has to wait or to notify.       *)
Fairness ==
  /\ \A w \in Waiters : SF_vars(WaiterStep(w)) /\ WF_vars(TimesOut(w))
  /\ \A n \in Notifiers : SF_vars(NotifierStep(n))

FairSpec == Spec /\ Fairness

-----------------------------------------------------------------------------
AtRest ==
  /\ \A t \in Threads : pc[t] \in {"idle", "blocked"}
  /\ m_blockQueue > 0 => BlockedWaiters = {}

(* Semaphores and counters stay in range (TypeOK), and                      *)
(* when no call is in transit the gate is open, no wake-up is stored that a *)
(* later waiter would take for its own, and the counters account for every  *)
(* waiter that still sleeps: none can be forgotten by later notifications.  *)
RestIsClean ==
  /\ TypeOK
  /\ AtRest =>
       /\ m_blockLock = 1
       /\ m_blockQueue = 0
       /\ m_numWaitersToUnblock = 0
       /\ m_numWaitersBlocked - m_numWaitersGone = Cardinality(BlockedWaiters)

(* notifyAll() wakes every thread that was waiting when it was called.      *)
NotifyAllWakes == \A w \in Waiters : w \in owed ~> w \notin owed

(* A call never gets stuck in the condition's own locks.                    *)
CallsReturn ==
  /\ \A n \in Notifiers : pc[n] # "idle" ~> pc[n] = "idle"
  /\ \A w \in Waiters : pc[w] \notin {"idle", "blocked"} ~> pc[w] \in {"idle", "blocked"}

(* "Suspends the calling thread until a notification occurs or until the    *)
(* supplied time period has elapsed": wait(Duration) returns.               *)
TimedWaitReturns ==
  \A w \in Waiters : (pc[w] # "idle" /\ timed[w]) ~> pc[w] = "idle"
=============================================================================
