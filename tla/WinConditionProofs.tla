------------------------- MODULE WinConditionProofs -------------------------
(***************************************************************************)
(* Proofs about the condition variable of Windows, for any finite set of   *)
(* waiters: one token goes round, from the gate to a notifier, to the      *)
(* queue, to the waiters it is meant for, and back to the gate.            *)
(***************************************************************************)
EXTENDS WinCondition, FiniteSetTheorems, TLAPS

\* Where a thread can be,
AllLabels == {"idle", "gate", "blocked", "unblock", "overflow", "finish",
              "relock", "notify", "shutGate", "post"}
\* and where a waiter is that a notification may still be meant for.
InQueue == {"blocked", "unblock"}

\* Waiters wait and notifiers notify.
Labels ==
  /\ \A w \in Waiters : pc[w] \in {"idle", "gate", "blocked", "unblock", "overflow", "finish", "relock"}
  /\ \A n \in Notifiers : pc[n] \in {"idle", "notify", "shutGate", "post"}

\* The types; the ranges of the semaphores and of the counters follow from the rest.
Types ==
  /\ m_blockLock \in Int
  /\ m_blockQueue \in Int
  /\ m_unblockLock \in Threads \cup {NoThread}
  /\ m_assocMutex \in Threads \cup {NoThread}
  /\ m_numWaitersGone \in Nat
  /\ m_numWaitersBlocked \in Int
  /\ m_numWaitersToUnblock \in Nat
  /\ pc \in [Threads -> AllLabels]
  /\ timed \in [Waiters -> BOOLEAN]
  /\ timedOut \in [Waiters -> BOOLEAN]
  /\ numSignalsLeft \in [Waiters -> 0 .. Cardinality(Waiters)]
  /\ numWaitersGone \in [Waiters -> 0 .. 1]
  /\ all \in [Notifiers -> BOOLEAN]
  /\ owed \in SUBSET Waiters

\* The waiters that count as blocked or as to be unblocked.
Queued == {w \in Waiters : pc[w] \in InQueue}

\* A waiter that m_blockQueue let through,
Woken(w) == pc[w] = "unblock" /\ ~timedOut[w]
\* one that has yet to unblock the next waiter or to open the gate,
Passing(w) == pc[w] = "finish" /\ numSignalsLeft[w] # 0 /\ numWaitersGone[w] = 0
\* and one that has yet to take back a wake-up.
Reclaiming(w) == pc[w] = "finish" /\ numWaitersGone[w] = 1
\* While the gate is shut there is one token: it is with the notifier that shut the
\* gate, with a waiter that will pass it on, or it is the count of m_blockQueue.
Holds(t) ==
  \/ t \in Notifiers /\ pc[t] = "post"
  \/ t \in Waiters /\ (Woken(t) \/ Passing(t))

\* The gate is open, or a wake-up is stored, or one thread holds the token.
Token ==
  /\ m_blockLock + m_blockQueue \in 0 .. 1 /\ m_blockLock \in 0 .. 1 /\ m_blockQueue \in 0 .. 1
  /\ m_blockLock + m_blockQueue = 1 => \A t \in Threads : ~Holds(t)
  /\ m_blockLock + m_blockQueue = 0 => \E t \in Threads : Holds(t)
  /\ \A t, u \in Threads : Holds(t) /\ Holds(u) => t = u

\* The gate is open only when nobody is to be unblocked.  The waiter with the token
\* opens the gate if it is the last one (numSignalsLeft = 1) and wakes another one
\* otherwise; a token that is on its way is meant for a waiter that is counted, or for
\* one that has timed out and takes it back.
Phase ==
  /\ m_blockLock = 1 => m_numWaitersToUnblock = 0 /\ \A w \in Waiters : ~Reclaiming(w)
  /\ \A w \in Waiters : Reclaiming(w) => timed[w] /\ numSignalsLeft[w] = 1
  /\ \A w \in Waiters : pc[w] = "finish" =>
       /\ numSignalsLeft[w] = 1 => m_numWaitersToUnblock = 0
       /\ numSignalsLeft[w] > 1 => m_numWaitersToUnblock # 0
  /\ m_blockQueue = 1 \/ (\E w \in Waiters : Woken(w)) \/ (\E n \in Notifiers : pc[n] = "post") =>
       m_numWaitersToUnblock # 0 \/ \E w \in Waiters : Reclaiming(w)

\* m_numWaitersBlocked less m_numWaitersGone are the waiters that nobody has notified.
Counters ==
  /\ m_numWaitersToUnblock # 0 => m_numWaitersGone = 0
  /\ m_numWaitersBlocked >= m_numWaitersGone
  /\ m_numWaitersBlocked - m_numWaitersGone + m_numWaitersToUnblock = Cardinality(Queued)

\* Who keeps m_unblockLock across a blocking call, and what holds meanwhile.
Critical ==
  /\ \A t \in Threads : pc[t] \in {"overflow", "shutGate"} <=> m_unblockLock = t
  /\ \A w \in Waiters : pc[w] = "overflow" =>
       /\ m_numWaitersToUnblock = 0 /\ m_numWaitersGone = GoneLimit
       /\ numSignalsLeft[w] = 0 /\ numWaitersGone[w] = 0
  /\ (\A w \in Waiters : pc[w] # "overflow") => m_numWaitersGone < GoneLimit
  /\ \A n \in Notifiers : pc[n] = "shutGate" =>
       m_numWaitersToUnblock = 0 /\ m_numWaitersBlocked > m_numWaitersGone

\* A waiter whose wait is bounded in time is the only one.
Timing ==
  /\ \A w \in Waiters : timed[w] => pc[w] # "idle" /\ \A v \in Waiters \ {w} : pc[v] = "idle"
  /\ \A w \in Waiters : timedOut[w] => timed[w]
  /\ TimedWaits = "never" => \A w \in Waiters : ~timed[w]

\* The inductive invariant.
IInv == Types /\ Labels /\ Token /\ Phase /\ Counters /\ Critical /\ Timing

\* No thread both waits and notifies.
LEMMA Distinct ==
  /\ NoThread \notin Threads
  /\ \A w \in Waiters : w \in Threads /\ w \notin Notifiers
  /\ \A n \in Notifiers : n \in Threads /\ n \notin Waiters
BY DisjointAssumption, NoThreadAssumption, Zenon DEF Threads

\* What Goto changes,
LEMMA Move ==
  ASSUME Types, NEW t \in Threads, NEW l, Goto(t, l)
  PROVE  /\ pc'[t] = l /\ \A u \in Threads : u # t => pc'[u] = pc[u]
         /\ l \in AllLabels => pc' \in [Threads -> AllLabels]
BY DEF Types, Goto

\* Counting the waiters,
LEMMA Size ==
  /\ IsFiniteSet(Queued) /\ Cardinality(Queued) \in 0 .. Cardinality(Waiters)
  /\ Cardinality(Waiters) \in Nat
  /\ \A w \in Queued : Cardinality(Queued \ {w}) = Cardinality(Queued) - 1 /\ Cardinality(Queued) >= 1
  /\ \A w : w \notin Queued => Cardinality(Queued \cup {w}) = Cardinality(Queued) + 1
<1>1. IsFiniteSet(Waiters) /\ Queued \subseteq Waiters
  BY WaitersAssumption DEF Queued
<1>2. IsFiniteSet(Queued) /\ Cardinality(Queued) <= Cardinality(Waiters)
  BY <1>1, FS_Subset
<1>3. Cardinality(Queued) \in Nat /\ Cardinality(Waiters) \in Nat
  BY <1>1, <1>2, FS_CardinalityType
<1>4. ASSUME NEW w \in Queued PROVE Cardinality(Queued \ {w}) = Cardinality(Queued) - 1 /\ Cardinality(Queued) >= 1
  <2>1. Cardinality(Queued \ {w}) = Cardinality(Queued) - 1 /\ IsFiniteSet(Queued \ {w})
    BY <1>2, FS_RemoveElement
  <2>2. Cardinality(Queued \ {w}) \in Nat
    BY <2>1, FS_CardinalityType
  <2> QED
    BY <1>3, <2>1, <2>2
<1>5. ASSUME NEW w, w \notin Queued PROVE Cardinality(Queued \cup {w}) = Cardinality(Queued) + 1
  BY <1>2, <1>5, FS_AddElement
<1> QED
  BY <1>2, <1>3, <1>4, <1>5

\* and what it does to Queued.
LEMMA QueueMove ==
  ASSUME Types, NEW t \in Threads, NEW l, Goto(t, l)
  PROVE  /\ t \in Notifiers => Queued' = Queued
         /\ t \in Waiters /\ (pc[t] \in InQueue <=> l \in InQueue) => Queued' = Queued
         /\ t \in Waiters /\ pc[t] \notin InQueue /\ l \in InQueue =>
              Queued' = Queued \cup {t} /\ t \notin Queued
         /\ t \in Waiters /\ pc[t] \in InQueue /\ l \notin InQueue =>
              Queued' = Queued \ {t} /\ t \in Queued
BY Move, Distinct, Zenon DEF Queued

\* A step of t leaves the other threads alone,
Elsewhere(t) ==
  \A u \in Threads : u # t =>
    /\ pc'[u] = pc[u]
    /\ u \in Waiters => /\ timed'[u] = timed[u] /\ timedOut'[u] = timedOut[u]
                       /\ numSignalsLeft'[u] = numSignalsLeft[u] /\ numWaitersGone'[u] = numWaitersGone[u]

\* so that their part in the unblocking stays what it is.
LEMMA Others ==
  ASSUME NEW t \in Threads, Elsewhere(t)
  PROVE  /\ \A u \in Threads : u # t => (Holds(u)' <=> Holds(u)) /\ pc'[u] = pc[u]
         /\ \A w \in Waiters : w # t => (Reclaiming(w)' <=> Reclaiming(w)) /\ (Woken(w)' <=> Woken(w))
         /\ \A w \in Waiters : w # t =>
              /\ pc'[w] = pc[w] /\ timed'[w] = timed[w] /\ timedOut'[w] = timedOut[w]
              /\ numSignalsLeft'[w] = numSignalsLeft[w]
<1>1. \A w \in Waiters : w # t =>
        /\ Reclaiming(w)' <=> Reclaiming(w)
        /\ (Woken(w)' <=> Woken(w)) /\ (Passing(w)' <=> Passing(w))
  BY Distinct, Zenon DEF Elsewhere, Reclaiming, Woken, Passing
<1>2. \A u \in Threads : u # t => (Holds(u)' <=> Holds(u))
  BY <1>1, Zenon DEF Holds, Elsewhere
<1> QED
  BY <1>1, <1>2, Distinct, Zenon DEF Elsewhere

\* A thread that has a part in the unblocking.
Busy(t) ==
  \/ t \in Notifiers /\ pc[t] = "post"
  \/ t \in Waiters /\ (Woken(t) \/ (pc[t] = "finish" /\ (numSignalsLeft[t] # 0 \/ numWaitersGone[t] # 0)))

\* A step of a thread that has no part in the unblocking, before or after, keeps Token
\* and Phase.
LEMMA Quiet ==
  ASSUME Token, Phase, NEW t \in Threads, Elsewhere(t), ~Busy(t), ~Busy(t)', UNCHANGED sems,
         m_numWaitersToUnblock' = 0 <=> m_numWaitersToUnblock = 0
  PROVE  Token' /\ Phase'
<1>1. /\ \A u \in Threads : Holds(u)' <=> Holds(u)
      /\ \A w \in Waiters : (Reclaiming(w)' <=> Reclaiming(w)) /\ (Woken(w)' <=> Woken(w))
      /\ \A n \in Notifiers : pc'[n] = "post" <=> pc[n] = "post"
  <2>1. ~Holds(t) /\ (t \in Waiters => ~Woken(t) /\ ~Reclaiming(t)) /\ (t \in Notifiers => pc[t] # "post")
    BY DEF Busy, Holds, Passing, Reclaiming
  <2>2. ~Holds(t)' /\ (t \in Waiters => ~Woken(t)' /\ ~Reclaiming(t)') /\ (t \in Notifiers => pc'[t] # "post")
    BY DEF Busy, Holds, Passing, Reclaiming
  <2> QED
    BY <2>1, <2>2, Others, Distinct, Zenon
<1>2. Token'
  BY <1>1 DEF Token, sems
<1>3. \A w \in Waiters : Reclaiming(w)' => timed'[w] /\ numSignalsLeft'[w] = 1
  <2>1. ASSUME NEW w \in Waiters, Reclaiming(w)' PROVE w # t
    BY <2>1 DEF Busy, Reclaiming
  <2> QED
    BY <2>1, <1>1, Others, Zenon DEF Phase
<1>4. \A w \in Waiters : pc'[w] = "finish" =>
        /\ numSignalsLeft'[w] = 1 => m_numWaitersToUnblock' = 0
        /\ numSignalsLeft'[w] > 1 => m_numWaitersToUnblock' # 0
  <2> SUFFICES ASSUME NEW w \in Waiters, pc'[w] = "finish"
               PROVE  /\ numSignalsLeft'[w] = 1 => m_numWaitersToUnblock' = 0
                      /\ numSignalsLeft'[w] > 1 => m_numWaitersToUnblock' # 0
    OBVIOUS
  <2>1. CASE w = t
    <3>1. numSignalsLeft'[w] = 0
      BY <2>1 DEF Busy
    <3> QED
      BY <3>1
  <2>2. CASE w # t
    <3>1. pc[w] = "finish" /\ numSignalsLeft'[w] = numSignalsLeft[w]
      BY <2>2, Others, Zenon
    <3> QED
      BY <3>1 DEF Phase
  <2> QED
    BY <2>1, <2>2
<1>5. Phase'
  BY <1>1, <1>3, <1>4 DEF Phase, sems
<1> QED
  BY <1>2, <1>5

\* The ranges of the counters.
LEMMA Bounds ==
  ASSUME IInv
  PROVE  /\ Cardinality(Waiters) \in Nat /\ Cardinality(Queued) \in 0 .. Cardinality(Waiters)
         /\ m_numWaitersToUnblock \in 0 .. Cardinality(Waiters)
         /\ m_numWaitersGone \in 0 .. GoneLimit
         /\ m_numWaitersBlocked \in 0 .. Cardinality(Waiters) + GoneLimit
         /\ m_numWaitersBlocked - m_numWaitersGone \in 0 .. Cardinality(Waiters)
<1>1. m_numWaitersGone \in 0 .. GoneLimit
  BY GoneLimitAssumption DEF IInv, Types, Critical
<1>2. /\ m_numWaitersBlocked \in Int /\ m_numWaitersToUnblock \in Nat
      /\ m_numWaitersBlocked >= m_numWaitersGone
      /\ m_numWaitersBlocked - m_numWaitersGone + m_numWaitersToUnblock = Cardinality(Queued)
  BY Zenon DEF IInv, Types, Counters
<1> QED
  BY <1>1, <1>2, Size, GoneLimitAssumption

\* Every step keeps IInv: the call of wait(), which is where timed waits matter,
LEMMA WaitKeeps ==
  ASSUME TimedWaits # "anytime", IInv, NEW w \in Waiters, NEW limited \in BOOLEAN, Wait(w, limited)
  PROVE  IInv'
<1>0. w \in Threads /\ Types /\ Labels /\ Token /\ Phase /\ Counters /\ Critical /\ Timing
  BY Distinct, Zenon DEF IInv
<1>1. Goto(w, "gate") /\ pc[w] = "idle"
  BY DEF Wait
<1>2. /\ pc'[w] = "gate" /\ pc[w] = "idle" /\ \A u \in Threads : u # w => pc'[u] = pc[u]
      /\ pc' \in [Threads -> AllLabels]
  BY <1>0, <1>1, Move DEF AllLabels
<1>3. /\ UNCHANGED <<m_blockLock, m_blockQueue, m_unblockLock, m_numWaitersGone,
                     m_numWaitersBlocked, m_numWaitersToUnblock, timedOut, numSignalsLeft,
                     numWaitersGone, all, owed>>
      /\ UNCHANGED sems
      /\ m_assocMutex' \in Threads \cup {NoThread}
      /\ timed' \in [Waiters -> BOOLEAN] /\ timed'[w] = limited
      /\ \A u \in Waiters : u # w => timed'[u] = timed[u]
      /\ limited => TimedWaits # "never"
      /\ TimedWaits = "alone" => Alone(w, limited)
  BY <1>0, Size DEF Wait, sems, counts, locals, Types
<1>4. Elsewhere(w)
  BY <1>2, <1>3 DEF Elsewhere
<1>5. Token' /\ Phase'
  <2>1. ~Busy(w) /\ ~Busy(w)'
    BY <1>0, <1>2, <1>3, Distinct DEF Busy, Woken
  <2> QED
    BY <1>0, <1>3, <1>4, <2>1, Quiet
<1>6. Types' /\ Labels'
  BY <1>0, <1>2, <1>3, Distinct DEF Types, Labels
<1>7. Counters'
  <2>1. Queued' = Queued
    BY <1>0, <1>1, <1>2, QueueMove DEF InQueue
  <2> QED
    BY <1>0, <1>3, <2>1, Size DEF Counters, Types
<1>8. Critical'
  BY <1>0, <1>2, <1>3, <1>4, Distinct DEF Critical, Types, Elsewhere
<1>9. Timing'
  <2>1. ASSUME NEW v \in Waiters, v # w PROVE (limited => pc[v] = "idle") /\ (timed[v] => FALSE)
    BY <1>0, <1>2, <1>3, TimedWaitsAssumption, <2>1 DEF Timing, Alone
  <2> QED
    BY <1>0, <1>2, <1>3, <2>1, Distinct DEF Timing, Types
<1> QED
  BY <1>5, <1>6, <1>7, <1>8, <1>9, Zenon DEF IInv

\* passing the gate,
LEMMA EnterQueueKeeps ==
  ASSUME IInv, NEW w \in Waiters, EnterQueue(w)
  PROVE  IInv'
<1>0. w \in Threads /\ Types /\ Labels /\ Token /\ Phase /\ Counters /\ Critical /\ Timing
  BY Distinct, Zenon DEF IInv
<1>1. Goto(w, "blocked") /\ pc[w] = "gate"
  BY DEF EnterQueue
<1>2. /\ pc'[w] = "blocked" /\ pc[w] = "gate" /\ \A u \in Threads : u # w => pc'[u] = pc[u]
      /\ pc' \in [Threads -> AllLabels]
  BY <1>0, <1>1, Move DEF AllLabels
<1>3. /\ UNCHANGED <<m_blockLock, m_blockQueue, m_unblockLock, m_numWaitersGone,
                     m_numWaitersToUnblock, timed, timedOut, numSignalsLeft,
                     numWaitersGone, all, owed>>
      /\ UNCHANGED sems
      /\ m_blockLock > 0
      /\ m_assocMutex' = NoThread
      /\ m_numWaitersBlocked' = m_numWaitersBlocked + 1
  BY <1>0, Size DEF EnterQueue, sems, counts, locals, Types
<1>4. Elsewhere(w)
  BY <1>2, <1>3 DEF Elsewhere
<1>5. Token' /\ Phase'
  <2>1. ~Busy(w) /\ ~Busy(w)'
    BY <1>0, <1>2, <1>3, Distinct DEF Busy, Woken
  <2> QED
    BY <1>0, <1>3, <1>4, <2>1, Quiet
<1>6. Types' /\ Labels'
  BY <1>0, <1>2, <1>3, Distinct DEF Types, Labels
<1>7. Counters'
  <2>1. Queued' = Queued \cup {w} /\ w \notin Queued
    BY <1>0, <1>1, <1>2, QueueMove DEF InQueue
  <2> QED
    BY <1>0, <1>3, <2>1, Size DEF Counters, Types
<1>8. Critical'
  BY <1>0, <1>2, <1>3, <1>4, Distinct DEF Critical, Types, Elsewhere
<1>9. Timing'
  BY <1>0, <1>2, <1>3, <1>4, Distinct DEF Timing, Types, Elsewhere
<1> QED
  BY <1>5, <1>6, <1>7, <1>8, <1>9, Zenon DEF IInv

\* a timeout, which leaves the counters for later,
LEMMA TimesOutKeeps ==
  ASSUME IInv, NEW w \in Waiters, TimesOut(w)
  PROVE  IInv'
<1>0. w \in Threads /\ Types /\ Labels /\ Token /\ Phase /\ Counters /\ Critical /\ Timing
  BY Distinct, Zenon DEF IInv
<1>1. Goto(w, "unblock") /\ pc[w] = "blocked"
  BY DEF TimesOut
<1>2. /\ pc'[w] = "unblock" /\ pc[w] = "blocked" /\ \A u \in Threads : u # w => pc'[u] = pc[u]
      /\ pc' \in [Threads -> AllLabels]
  BY <1>0, <1>1, Move DEF AllLabels
<1>3. /\ UNCHANGED <<m_blockLock, m_blockQueue, m_unblockLock, m_assocMutex, m_numWaitersGone,
                     m_numWaitersBlocked, m_numWaitersToUnblock, timed, numSignalsLeft,
                     numWaitersGone, all>>
      /\ UNCHANGED sems
      /\ timed[w]
      /\ timedOut' \in [Waiters -> BOOLEAN] /\ timedOut'[w] = TRUE
      /\ \A u \in Waiters : u # w => timedOut'[u] = timedOut[u]
      /\ owed' \in SUBSET Waiters
  BY <1>0, Size DEF TimesOut, sems, counts, locals, Types
<1>4. Elsewhere(w)
  BY <1>2, <1>3 DEF Elsewhere
<1>5. Token' /\ Phase'
  <2>1. ~Busy(w) /\ ~Busy(w)'
    BY <1>0, <1>2, <1>3, Distinct DEF Busy, Woken
  <2> QED
    BY <1>0, <1>3, <1>4, <2>1, Quiet
<1>6. Types' /\ Labels'
  BY <1>0, <1>2, <1>3, Distinct DEF Types, Labels
<1>7. Counters'
  <2>1. Queued' = Queued
    BY <1>0, <1>1, <1>2, QueueMove DEF InQueue
  <2> QED
    BY <1>0, <1>3, <2>1, Size DEF Counters, Types
<1>8. Critical'
  BY <1>0, <1>2, <1>3, <1>4, Distinct DEF Critical, Types, Elsewhere
<1>9. Timing'
  BY <1>0, <1>2, <1>3, <1>4, Distinct DEF Timing, Types, Elsewhere
<1> QED
  BY <1>5, <1>6, <1>7, <1>8, <1>9, Zenon DEF IInv

\* the critical section when nobody is to be unblocked: only a waiter that has timed
\* out gets there,
LEMMA UnblockGoneKeeps ==
  ASSUME IInv, NEW w \in Waiters, UnblockGone(w)
  PROVE  IInv'
<1>0. w \in Threads /\ Types /\ Labels /\ Token /\ Phase /\ Counters /\ Critical /\ Timing
  BY Distinct, Zenon DEF IInv
<1>1. PICK l \in {"overflow", "finish"} :
           /\ Goto(w, l) /\ pc[w] = "unblock"
           /\ (l = "overflow" <=> m_numWaitersGone + 1 = GoneLimit)
           /\ m_unblockLock' = IF l = "overflow" THEN w ELSE NoThread
  BY DEF UnblockGone
<1>2. /\ pc'[w] = l /\ pc[w] = "unblock" /\ \A u \in Threads : u # w => pc'[u] = pc[u]
      /\ pc' \in [Threads -> AllLabels]
  BY <1>0, <1>1, Move DEF AllLabels
<1>3. /\ UNCHANGED <<m_blockLock, m_blockQueue, m_assocMutex, m_numWaitersBlocked,
                     m_numWaitersToUnblock, timed, timedOut, all, owed>>
      /\ UNCHANGED sems
      /\ m_unblockLock = NoThread /\ m_numWaitersToUnblock = 0
      /\ m_numWaitersGone' = m_numWaitersGone + 1
      /\ numSignalsLeft' \in [Waiters -> 0 .. Cardinality(Waiters)] /\ numSignalsLeft'[w] = 0
      /\ \A u \in Waiters : u # w => numSignalsLeft'[u] = numSignalsLeft[u]
      /\ numWaitersGone' \in [Waiters -> 0 .. 1] /\ numWaitersGone'[w] = 0
      /\ \A u \in Waiters : u # w => numWaitersGone'[u] = numWaitersGone[u]
  BY <1>0, Size DEF UnblockGone, sems, counts, locals, Types
<1>4. Elsewhere(w)
  BY <1>2, <1>3 DEF Elsewhere
<1>t. timedOut[w]
  <2>1. ASSUME NEW v \in Waiters, Reclaiming(v) PROVE FALSE
    <3>1. timed[v] /\ v # w
      BY <1>0, <1>2, <2>1 DEF Phase, Reclaiming
    <3> QED
      BY <1>0, <1>2, <3>1, Zenon DEF Timing
  <2> QED
    BY <1>0, <1>2, <1>3, <2>1 DEF Phase, Woken
<1>5. Token' /\ Phase'
  <2>1. ~Busy(w) /\ ~Busy(w)'
    BY <1>0, <1>2, <1>3, Distinct, <1>t DEF Busy, Woken
  <2> QED
    BY <1>0, <1>3, <1>4, <2>1, Quiet
<1>6. Types' /\ Labels'
  BY <1>0, <1>1, <1>2, <1>3, Distinct DEF Types, Labels
<1>7. Counters'
  <2>1. Queued' = Queued \ {w} /\ w \in Queued
    BY <1>0, <1>1, <1>2, QueueMove DEF InQueue
  <2> QED
    BY <1>0, <1>3, <2>1, Size DEF Counters, Types
<1>8. Critical'
  <2>1. \A t \in Threads : pc[t] \notin {"overflow", "shutGate"}
    BY <1>0, <1>3, Distinct DEF Critical
  <2>2. \A t \in Threads : pc'[t] \in {"overflow", "shutGate"} <=> m_unblockLock' = t
    BY <1>1, <1>2, <2>1, <1>0, Distinct
  <2>3. m_numWaitersGone < GoneLimit /\ m_numWaitersGone \in Nat
    BY <1>0, <2>1, Distinct DEF Critical, Types
  <2>4. \A n \in Notifiers : pc'[n] # "shutGate"
    BY <1>0, <1>1, <1>2, <2>1, Distinct
  <2>5. \A v \in Waiters : pc'[v] = "overflow" => v = w /\ l = "overflow"
    BY <1>0, <1>1, <1>2, <2>1, Distinct
  <2> QED
    BY <1>1, <1>2, <1>3, <2>2, <2>3, <2>4, <2>5, GoneLimitAssumption DEF Critical
<1>9. Timing'
  BY <1>0, <1>2, <1>3, <1>4, Distinct DEF Timing, Types, Elsewhere
<1> QED
  BY <1>5, <1>6, <1>7, <1>8, <1>9, Zenon DEF IInv

\* folding m_numWaitersGone into m_numWaitersBlocked,
LEMMA OverflowKeeps ==
  ASSUME IInv, NEW w \in Waiters, Overflow(w)
  PROVE  IInv'
<1>0. w \in Threads /\ Types /\ Labels /\ Token /\ Phase /\ Counters /\ Critical /\ Timing
  BY Distinct, Zenon DEF IInv
<1>1. Goto(w, "finish") /\ pc[w] = "overflow"
  BY DEF Overflow
<1>2. /\ pc'[w] = "finish" /\ pc[w] = "overflow" /\ \A u \in Threads : u # w => pc'[u] = pc[u]
      /\ pc' \in [Threads -> AllLabels]
  BY <1>0, <1>1, Move DEF AllLabels
<1>3. /\ UNCHANGED <<m_blockLock, m_blockQueue, m_assocMutex, m_numWaitersToUnblock, timed,
                     timedOut, numSignalsLeft, numWaitersGone, all, owed>>
      /\ UNCHANGED sems
      /\ m_unblockLock' = NoThread
      /\ m_numWaitersGone' = 0
      /\ m_numWaitersBlocked' = m_numWaitersBlocked - m_numWaitersGone
  BY <1>0, Size DEF Overflow, sems, counts, locals, Types
<1>4. Elsewhere(w)
  BY <1>2, <1>3 DEF Elsewhere
<1>t. numSignalsLeft[w] = 0 /\ numWaitersGone[w] = 0 /\ m_unblockLock = w /\ m_numWaitersToUnblock = 0
  BY <1>0, <1>2 DEF Critical
<1>5. Token' /\ Phase'
  <2>1. ~Busy(w) /\ ~Busy(w)'
    BY <1>0, <1>2, <1>3, Distinct, <1>t DEF Busy, Woken
  <2> QED
    BY <1>0, <1>3, <1>4, <2>1, Quiet
<1>6. Types' /\ Labels'
  BY <1>0, <1>2, <1>3, Distinct DEF Types, Labels
<1>7. Counters'
  <2>1. Queued' = Queued
    BY <1>0, <1>1, <1>2, QueueMove DEF InQueue
  <2> QED
    BY <1>0, <1>3, <2>1, Size DEF Counters, Types
<1>8. Critical'
  <2>1. \A t \in Threads : t # w => pc[t] \notin {"overflow", "shutGate"}
    BY <1>0, <1>t, Distinct DEF Critical
  <2>2. \A t \in Threads : pc'[t] \notin {"overflow", "shutGate"} /\ m_unblockLock' # t
    BY <1>2, <1>3, <2>1, Distinct
  <2> QED
    BY <1>3, <2>2, Distinct, GoneLimitAssumption DEF Critical
<1>9. Timing'
  BY <1>0, <1>2, <1>3, <1>4, Distinct DEF Timing, Types, Elsewhere
<1> QED
  BY <1>5, <1>6, <1>7, <1>8, <1>9, Zenon DEF IInv

\* the return of wait(),
LEMMA ReturnKeeps ==
  ASSUME IInv, NEW w \in Waiters, Return(w)
  PROVE  IInv'
<1>0. w \in Threads /\ Types /\ Labels /\ Token /\ Phase /\ Counters /\ Critical /\ Timing
  BY Distinct, Zenon DEF IInv
<1>1. Goto(w, "idle") /\ pc[w] = "relock"
  BY DEF Return
<1>2. /\ pc'[w] = "idle" /\ pc[w] = "relock" /\ \A u \in Threads : u # w => pc'[u] = pc[u]
      /\ pc' \in [Threads -> AllLabels]
  BY <1>0, <1>1, Move DEF AllLabels
<1>3. /\ UNCHANGED <<m_blockLock, m_blockQueue, m_assocMutex, m_unblockLock, m_numWaitersGone,
                     m_numWaitersBlocked, m_numWaitersToUnblock, all, owed>>
      /\ UNCHANGED sems
      /\ timed' \in [Waiters -> BOOLEAN] /\ timed'[w] = FALSE
      /\ \A u \in Waiters : u # w => timed'[u] = timed[u]
      /\ timedOut' \in [Waiters -> BOOLEAN] /\ timedOut'[w] = FALSE
      /\ \A u \in Waiters : u # w => timedOut'[u] = timedOut[u]
      /\ numSignalsLeft' \in [Waiters -> 0 .. Cardinality(Waiters)] /\ numSignalsLeft'[w] = 0
      /\ \A u \in Waiters : u # w => numSignalsLeft'[u] = numSignalsLeft[u]
      /\ numWaitersGone' \in [Waiters -> 0 .. 1] /\ numWaitersGone'[w] = 0
      /\ \A u \in Waiters : u # w => numWaitersGone'[u] = numWaitersGone[u]
  BY <1>0, Size DEF Return, sems, counts, locals, Types
<1>4. Elsewhere(w)
  BY <1>2, <1>3 DEF Elsewhere
<1>5. Token' /\ Phase'
  <2>1. ~Busy(w) /\ ~Busy(w)'
    BY <1>0, <1>2, <1>3, Distinct DEF Busy, Woken
  <2> QED
    BY <1>0, <1>3, <1>4, <2>1, Quiet
<1>6. Types' /\ Labels'
  BY <1>0, <1>2, <1>3, Distinct DEF Types, Labels
<1>7. Counters'
  <2>1. Queued' = Queued
    BY <1>0, <1>1, <1>2, QueueMove DEF InQueue
  <2> QED
    BY <1>0, <1>3, <2>1, Size DEF Counters, Types
<1>8. Critical'
  BY <1>0, <1>2, <1>3, <1>4, Distinct DEF Critical, Types, Elsewhere
<1>9. Timing'
  BY <1>0, <1>2, <1>3, <1>4, Distinct DEF Timing, Types, Elsewhere
<1> QED
  BY <1>5, <1>6, <1>7, <1>8, <1>9, Zenon DEF IInv

\* the call of notify(),
LEMMA NotifyKeeps ==
  ASSUME IInv, NEW n \in Notifiers, NEW everyone \in BOOLEAN, NEW holding \in BOOLEAN, Notify(n, everyone, holding)
  PROVE  IInv'
<1>0. n \in Threads /\ Types /\ Labels /\ Token /\ Phase /\ Counters /\ Critical /\ Timing
  BY Distinct, Zenon DEF IInv
<1>1. Goto(n, "notify") /\ pc[n] = "idle"
  BY DEF Notify
<1>2. /\ pc'[n] = "notify" /\ pc[n] = "idle" /\ \A u \in Threads : u # n => pc'[u] = pc[u]
      /\ pc' \in [Threads -> AllLabels]
  BY <1>0, <1>1, Move DEF AllLabels
<1>3. /\ UNCHANGED <<m_blockLock, m_blockQueue, m_unblockLock, m_numWaitersGone,
                     m_numWaitersBlocked, m_numWaitersToUnblock, timed, timedOut,
                     numSignalsLeft, numWaitersGone, owed>>
      /\ UNCHANGED sems
      /\ m_assocMutex' \in Threads \cup {NoThread}
      /\ all' \in [Notifiers -> BOOLEAN]
  BY <1>0, Size DEF Notify, sems, counts, locals, Types
<1>4. Elsewhere(n)
  BY <1>2, <1>3 DEF Elsewhere
<1>5. Token' /\ Phase'
  <2>1. ~Busy(n) /\ ~Busy(n)'
    BY <1>0, <1>2, <1>3, Distinct DEF Busy, Woken
  <2> QED
    BY <1>0, <1>3, <1>4, <2>1, Quiet
<1>6. Types' /\ Labels'
  BY <1>0, <1>2, <1>3, Distinct DEF Types, Labels
<1>7. Counters'
  <2>1. Queued' = Queued
    BY <1>0, <1>1, <1>2, QueueMove DEF InQueue
  <2> QED
    BY <1>0, <1>3, <2>1, Size DEF Counters, Types
<1>8. Critical'
  BY <1>0, <1>2, <1>3, <1>4, Distinct DEF Critical, Types, Elsewhere
<1>9. Timing'
  BY <1>0, <1>2, <1>3, <1>4, Distinct DEF Timing, Types, Elsewhere
<1> QED
  BY <1>5, <1>6, <1>7, <1>8, <1>9, Zenon DEF IInv

\* a notification that finds nobody, or joins an unblocking,
LEMMA NotifyJoinKeeps ==
  ASSUME IInv, NEW n \in Notifiers, NotifyJoin(n)
  PROVE  IInv'
<1>0. n \in Threads /\ Types /\ Labels /\ Token /\ Phase /\ Counters /\ Critical /\ Timing
  BY Distinct, Zenon DEF IInv
<1>1. Goto(n, "idle") /\ pc[n] = "notify"
  BY DEF NotifyJoin, NotifyReturns
<1>2. /\ pc'[n] = "idle" /\ pc[n] = "notify" /\ \A u \in Threads : u # n => pc'[u] = pc[u]
      /\ pc' \in [Threads -> AllLabels]
  BY <1>0, <1>1, Move DEF AllLabels
<1>3. /\ UNCHANGED <<m_blockLock, m_blockQueue, m_unblockLock, m_numWaitersGone, timed, timedOut,
                     numSignalsLeft, numWaitersGone>>
      /\ UNCHANGED sems
      /\ m_assocMutex' \in Threads \cup {NoThread} /\ all' \in [Notifiers -> BOOLEAN]
      /\ m_unblockLock = NoThread
      /\ m_numWaitersBlocked' - m_numWaitersGone + m_numWaitersToUnblock' =
           m_numWaitersBlocked - m_numWaitersGone + m_numWaitersToUnblock
      /\ m_numWaitersToUnblock' = 0 <=> m_numWaitersToUnblock = 0
      /\ m_numWaitersToUnblock' = 0 => m_numWaitersBlocked' = m_numWaitersBlocked
      /\ m_numWaitersBlocked' \in Nat /\ m_numWaitersToUnblock' \in Nat
      /\ owed' \in SUBSET Waiters
  <2>0. /\ m_numWaitersBlocked \in Nat /\ m_numWaitersToUnblock \in Nat /\ m_numWaitersGone \in Nat
        /\ m_assocMutex \in Threads \cup {NoThread} /\ all \in [Notifiers -> BOOLEAN] /\ owed \in SUBSET Waiters
    BY Bounds, <1>0 DEF Types
  <2>1. \/ /\ m_numWaitersToUnblock # 0 /\ m_numWaitersBlocked # 0
           /\ m_numWaitersToUnblock' = m_numWaitersToUnblock + (IF all[n] THEN m_numWaitersBlocked ELSE 1)
           /\ m_numWaitersBlocked' = IF all[n] THEN 0 ELSE m_numWaitersBlocked - 1
           /\ owed' = IF all[n] THEN BlockedWaiters ELSE owed
        \/ UNCHANGED <<m_numWaitersBlocked, m_numWaitersToUnblock, owed>>
    BY Zenon DEF NotifyJoin
  <2>2. /\ m_numWaitersBlocked' - m_numWaitersGone + m_numWaitersToUnblock' =
           m_numWaitersBlocked - m_numWaitersGone + m_numWaitersToUnblock
        /\ m_numWaitersToUnblock' = 0 <=> m_numWaitersToUnblock = 0
        /\ m_numWaitersToUnblock' = 0 => m_numWaitersBlocked' = m_numWaitersBlocked
        /\ m_numWaitersBlocked' \in Nat /\ m_numWaitersToUnblock' \in Nat
    BY <2>0, <2>1
  <2>3. owed' \in SUBSET Waiters
    BY <2>0, <2>1 DEF BlockedWaiters
  <2>4. m_assocMutex' \in Threads \cup {NoThread} /\ all' \in [Notifiers -> BOOLEAN]
    BY <2>0 DEF NotifyJoin, NotifyReturns
  <2> QED
    BY <2>2, <2>3, <2>4 DEF NotifyJoin, sems
<1>4. Elsewhere(n)
  BY <1>2, <1>3 DEF Elsewhere
<1>5. Token' /\ Phase'
  <2>1. ~Busy(n) /\ ~Busy(n)'
    BY <1>0, <1>2, <1>3, Distinct DEF Busy, Woken
  <2> QED
    BY <1>0, <1>3, <1>4, <2>1, Quiet
<1>6. Types' /\ Labels'
  BY <1>0, <1>2, <1>3, Distinct DEF Types, Labels
<1>7. Counters'
  <2>1. Queued' = Queued
    BY <1>0, <1>1, <1>2, QueueMove DEF InQueue
  <2>2. /\ m_numWaitersBlocked \in Nat /\ m_numWaitersToUnblock \in Nat /\ m_numWaitersGone \in Nat
        /\ m_numWaitersGone' = m_numWaitersGone
        /\ m_numWaitersToUnblock # 0 => m_numWaitersGone = 0
        /\ m_numWaitersBlocked >= m_numWaitersGone
        /\ m_numWaitersBlocked - m_numWaitersGone + m_numWaitersToUnblock = Cardinality(Queued)
    BY <1>0, <1>3, Bounds DEF Counters
  <2>3. m_numWaitersGone' = m_numWaitersGone /\ m_numWaitersBlocked' \in Nat
    BY <1>3, Zenon
  <2>4. m_numWaitersToUnblock' # 0 => m_numWaitersGone' = 0
    BY <1>3, <2>2, <2>3, Zenon
  <2>5. m_numWaitersBlocked' >= m_numWaitersGone'
    <3>1. CASE m_numWaitersGone = 0
      BY <2>3, <3>1
    <3>2. CASE m_numWaitersToUnblock = 0
      <4>1. m_numWaitersBlocked' = m_numWaitersBlocked
        BY <1>3, <3>2, Zenon
      <4> QED
        BY <2>2, <2>3, <4>1, Zenon
    <3> QED
      BY <2>2, <3>1, <3>2, Zenon
  <2>6. m_numWaitersBlocked' - m_numWaitersGone' + m_numWaitersToUnblock' =
             m_numWaitersBlocked - m_numWaitersGone + m_numWaitersToUnblock
    BY <1>3, <2>3, Zenon
  <2> QED
    BY <2>1, <2>2, <2>4, <2>5, <2>6, Zenon DEF Counters
<1>8. Critical'
  BY <1>0, <1>2, <1>3, <1>4, Distinct DEF Critical, Types, Elsewhere
<1>9. Timing'
  BY <1>0, <1>2, <1>3, <1>4, Distinct DEF Timing, Types, Elsewhere
<1> QED
  BY <1>5, <1>6, <1>7, <1>8, <1>9, Zenon DEF IInv

\* one that begins an unblocking,
LEMMA NotifyBeginKeeps ==
  ASSUME IInv, NEW n \in Notifiers, NotifyBegin(n)
  PROVE  IInv'
<1>0. n \in Threads /\ Types /\ Labels /\ Token /\ Phase /\ Counters /\ Critical /\ Timing
  BY Distinct, Zenon DEF IInv
<1>1. Goto(n, "shutGate") /\ pc[n] = "notify"
  BY DEF NotifyBegin
<1>2. /\ pc'[n] = "shutGate" /\ pc[n] = "notify" /\ \A u \in Threads : u # n => pc'[u] = pc[u]
      /\ pc' \in [Threads -> AllLabels]
  BY <1>0, <1>1, Move DEF AllLabels
<1>3. /\ UNCHANGED <<m_blockLock, m_blockQueue, m_assocMutex, m_numWaitersGone, m_numWaitersBlocked,
                     m_numWaitersToUnblock, timed, timedOut, numSignalsLeft,
                     numWaitersGone, all, owed>>
      /\ UNCHANGED sems
      /\ m_unblockLock = NoThread /\ m_unblockLock' = n
      /\ m_numWaitersToUnblock = 0 /\ m_numWaitersBlocked > m_numWaitersGone
  BY <1>0, Size DEF NotifyBegin, sems, counts, locals, Types
<1>4. Elsewhere(n)
  BY <1>2, <1>3 DEF Elsewhere
<1>5. Token' /\ Phase'
  <2>1. ~Busy(n) /\ ~Busy(n)'
    BY <1>0, <1>2, <1>3, Distinct DEF Busy, Woken
  <2> QED
    BY <1>0, <1>3, <1>4, <2>1, Quiet
<1>6. Types' /\ Labels'
  BY <1>0, <1>2, <1>3, Distinct DEF Types, Labels
<1>7. Counters'
  <2>1. Queued' = Queued
    BY <1>0, <1>1, <1>2, QueueMove DEF InQueue
  <2> QED
    BY <1>0, <1>3, <2>1, Size DEF Counters, Types
<1>8. Critical'
  BY <1>0, <1>2, <1>3, <1>4, Distinct DEF Critical, Types, Elsewhere
<1>9. Timing'
  BY <1>0, <1>2, <1>3, <1>4, Distinct DEF Timing, Types, Elsewhere
<1> QED
  BY <1>5, <1>6, <1>7, <1>8, <1>9, Zenon DEF IInv

\* a waiter that takes the stored wake-up and so the token,
LEMMA UnblockedKeeps ==
  ASSUME IInv, NEW w \in Waiters, Unblocked(w)
  PROVE  IInv'
<1>0. w \in Threads /\ Types /\ Labels /\ Token /\ Phase /\ Counters /\ Critical /\ Timing
  BY Distinct, Zenon DEF IInv
<1>1. Goto(w, "unblock") /\ pc[w] = "blocked"
  BY DEF Unblocked
<1>2. /\ pc'[w] = "unblock" /\ pc[w] = "blocked" /\ \A u \in Threads : u # w => pc'[u] = pc[u]
      /\ pc' \in [Threads -> AllLabels]
  BY <1>0, <1>1, Move DEF AllLabels
<1>3. /\ UNCHANGED <<m_blockLock, m_unblockLock, m_assocMutex, m_numWaitersGone,
                     m_numWaitersBlocked, m_numWaitersToUnblock, timed, numSignalsLeft,
                     numWaitersGone, all>>
      /\ m_blockQueue > 0 /\ m_blockQueue' = m_blockQueue - 1
      /\ timedOut' \in [Waiters -> BOOLEAN] /\ timedOut'[w] = FALSE
      /\ \A u \in Waiters : u # w => timedOut'[u] = timedOut[u]
      /\ owed' \in SUBSET Waiters
  BY <1>0, Size DEF Unblocked, sems, counts, locals, Types
<1>4. Elsewhere(w)
  BY <1>2, <1>3 DEF Elsewhere
<1>5. Token' /\ Phase'
  <2>1. /\ m_blockLock = 0 /\ m_blockQueue = 1 /\ \A t \in Threads : ~Holds(t)
        /\ m_blockLock' = 0 /\ m_blockQueue' = 0
    BY <1>0, <1>3 DEF Token
  <2>2. Woken(w)' /\ Holds(w)' /\ ~Reclaiming(w) /\ ~Reclaiming(w)'
    BY <1>2, <1>3 DEF Woken, Holds, Reclaiming
  <2>3. \A t \in Threads : Holds(t)' => t = w
    BY <1>0, <1>4, <2>1, Others, Zenon
  <2>4. Token'
    BY <1>0, <2>1, <2>2, <2>3 DEF Token
  <2>5. \A v \in Waiters : Reclaiming(v)' <=> Reclaiming(v)
    BY <1>0, <1>4, <2>2, Others, Zenon
  <2>6. m_numWaitersToUnblock # 0 \/ \E v \in Waiters : Reclaiming(v)
    BY <1>0, <2>1, Zenon DEF Phase
  <2>7. \A v \in Waiters : pc'[v] = "finish" => v # w /\ pc[v] = "finish"
    BY <1>2, Distinct
  <2>8. Phase'
    BY <1>0, <1>3, <2>1, <2>5, <2>6, <2>7 DEF Phase
  <2> QED
    BY <2>4, <2>8
<1>6. Types' /\ Labels'
  BY <1>0, <1>2, <1>3, Distinct DEF Types, Labels
<1>7. Counters'
  <2>1. Queued' = Queued
    BY <1>0, <1>1, <1>2, QueueMove DEF InQueue
  <2> QED
    BY <1>0, <1>3, <2>1, Size DEF Counters, Types
<1>8. Critical'
  BY <1>0, <1>2, <1>3, <1>4, Distinct DEF Critical, Types, Elsewhere
<1>9. Timing'
  BY <1>0, <1>2, <1>3, <1>4, Distinct DEF Timing, Types, Elsewhere
<1> QED
  BY <1>5, <1>6, <1>7, <1>8, <1>9, Zenon DEF IInv

\* the end of the unblocking, or the next waiter,
LEMMA FinishKeeps ==
  ASSUME IInv, NEW w \in Waiters, Finish(w)
  PROVE  IInv'
<1>0. w \in Threads /\ Types /\ Labels /\ Token /\ Phase /\ Counters /\ Critical /\ Timing
  BY Distinct, Zenon DEF IInv
<1>1. Goto(w, "relock") /\ pc[w] = "finish"
  BY DEF Finish
<1>2. /\ pc'[w] = "relock" /\ pc[w] = "finish" /\ \A u \in Threads : u # w => pc'[u] = pc[u]
      /\ pc' \in [Threads -> AllLabels]
  BY <1>0, <1>1, Move DEF AllLabels
<1>3. /\ UNCHANGED <<m_unblockLock, m_assocMutex, m_numWaitersGone, m_numWaitersBlocked,
                     m_numWaitersToUnblock, timed, timedOut, numSignalsLeft,
                     numWaitersGone, all, owed>>
      /\ numSignalsLeft[w] = 1 => numWaitersGone[w] = 0
      /\ m_blockLock' = IF numSignalsLeft[w] = 1 THEN m_blockLock + 1 ELSE m_blockLock
      /\ m_blockQueue' = IF numSignalsLeft[w] > 1 THEN m_blockQueue + 1 ELSE m_blockQueue
  BY <1>0, Size DEF Finish, sems, counts, locals, Types
<1>4. Elsewhere(w)
  BY <1>2, <1>3 DEF Elsewhere
<1>5. Token' /\ Phase'
  <2>0. numWaitersGone[w] \in 0 .. 1 /\ numSignalsLeft[w] \in Nat
    BY <1>0, Size DEF Types
  <2>1. numWaitersGone[w] = 0 /\ ~Reclaiming(w)
    <3>1. Reclaiming(w) => numSignalsLeft[w] = 1
      BY <1>0, Zenon DEF Phase
    <3>2. numWaitersGone[w] # 1
      BY <1>2, <1>3, <3>1 DEF Reclaiming
    <3> QED
      BY <2>0, <3>2 DEF Reclaiming
  <2>2. ~Busy(w)' /\ ~Holds(w)' /\ ~Reclaiming(w)' /\ ~Woken(w)'
    BY <1>2, Distinct DEF Busy, Holds, Woken, Passing, Reclaiming
  <2>3. CASE numSignalsLeft[w] = 0
    <3>1. ~Busy(w)
      BY <1>2, <2>1, <2>3, Distinct DEF Busy, Woken
    <3>2. UNCHANGED sems
      BY <1>3, <2>3 DEF sems
    <3> QED
      BY <1>0, <1>3, <1>4, <2>2, <3>1, <3>2, Quiet
  <2>4. CASE numSignalsLeft[w] # 0
    <3>1. Holds(w) /\ ~Woken(w)
      BY <1>2, <2>1, <2>4 DEF Holds, Passing, Woken
    <3>2. m_blockLock = 0 /\ m_blockQueue = 0 /\ \A t \in Threads : Holds(t) => t = w
      BY <1>0, <3>1 DEF Token
    <3>3. \A t \in Threads : ~Holds(t)'
      BY <1>0, <1>4, <2>2, <3>2, Others, Zenon
    <3>4. \/ m_blockLock' = 1 /\ m_blockQueue' = 0 /\ numSignalsLeft[w] = 1
          \/ m_blockLock' = 0 /\ m_blockQueue' = 1 /\ numSignalsLeft[w] > 1
      BY <1>3, <2>0, <2>4, <3>2
    <3>5. Token'
      BY <3>3, <3>4 DEF Token
    <3>6. \A v \in Waiters : ~Reclaiming(v)'
      <4>1. ASSUME NEW v \in Waiters, v # w PROVE ~Reclaiming(v)
        BY <1>0, <1>2, <4>1, Zenon DEF Phase, Timing
      <4> QED
        BY <1>0, <1>4, <2>2, <4>1, Others, Zenon
    <3>7. \A v \in Waiters : ~Woken(v)'
      BY <3>3, Distinct, Zenon DEF Holds
    <3>8. \A v \in Notifiers : pc'[v] # "post"
      BY <3>3, Distinct, Zenon DEF Holds
    <3>9. (numSignalsLeft[w] = 1 => m_numWaitersToUnblock = 0) /\ (numSignalsLeft[w] > 1 => m_numWaitersToUnblock # 0)
      BY <1>0, <1>2 DEF Phase
    <3>10. \A v \in Waiters : pc'[v] = "finish" => pc[v] = "finish"
      BY <1>2, Distinct
    <3>11. Phase'
      <4>1. m_numWaitersToUnblock' = m_numWaitersToUnblock /\ numSignalsLeft' = numSignalsLeft
        BY <1>3
      <4>2. \A v \in Waiters : pc[v] = "finish" =>
              /\ numSignalsLeft[v] = 1 => m_numWaitersToUnblock = 0
              /\ numSignalsLeft[v] > 1 => m_numWaitersToUnblock # 0
        BY <1>0, Zenon DEF Phase
      <4>3. \A v \in Waiters : pc'[v] = "finish" =>
              /\ numSignalsLeft'[v] = 1 => m_numWaitersToUnblock' = 0
              /\ numSignalsLeft'[v] > 1 => m_numWaitersToUnblock' # 0
        BY <3>10, <4>1, <4>2, Zenon
      <4>4. /\ m_blockLock' = 1 => m_numWaitersToUnblock' = 0
            /\ m_blockQueue' = 1 => m_numWaitersToUnblock' # 0
        BY <3>4, <3>9, <4>1
      <4> QED
        BY <3>6, <3>7, <3>8, <4>3, <4>4, Zenon DEF Phase
    <3> QED
      BY <3>5, <3>11
  <2> QED
    BY <2>3, <2>4
<1>6. Types' /\ Labels'
  BY <1>0, <1>2, <1>3, Distinct DEF Types, Labels
<1>7. Counters'
  <2>1. Queued' = Queued
    BY <1>0, <1>1, <1>2, QueueMove DEF InQueue
  <2> QED
    BY <1>0, <1>3, <2>1, Size DEF Counters, Types
<1>8. Critical'
  BY <1>0, <1>2, <1>3, <1>4, Distinct DEF Critical, Types, Elsewhere
<1>9. Timing'
  BY <1>0, <1>2, <1>3, <1>4, Distinct DEF Timing, Types, Elsewhere
<1> QED
  BY <1>5, <1>6, <1>7, <1>8, <1>9, Zenon DEF IInv

\* the first wake-up,
LEMMA PostKeeps ==
  ASSUME IInv, NEW n \in Notifiers, Post(n)
  PROVE  IInv'
<1>0. n \in Threads /\ Types /\ Labels /\ Token /\ Phase /\ Counters /\ Critical /\ Timing
  BY Distinct, Zenon DEF IInv
<1>1. Goto(n, "idle") /\ pc[n] = "post"
  BY DEF Post, NotifyReturns
<1>2. /\ pc'[n] = "idle" /\ pc[n] = "post" /\ \A u \in Threads : u # n => pc'[u] = pc[u]
      /\ pc' \in [Threads -> AllLabels]
  BY <1>0, <1>1, Move DEF AllLabels
<1>3. /\ UNCHANGED <<m_blockLock, m_unblockLock, m_numWaitersGone, m_numWaitersBlocked,
                     m_numWaitersToUnblock, timed, timedOut, numSignalsLeft,
                     numWaitersGone, owed>>
      /\ m_blockQueue' = m_blockQueue + 1
      /\ m_assocMutex' \in Threads \cup {NoThread} /\ all' \in [Notifiers -> BOOLEAN]
  BY <1>0, Size DEF Post, sems, counts, locals, NotifyReturns, Types
<1>4. Elsewhere(n)
  BY <1>2, <1>3 DEF Elsewhere
<1>5. Token' /\ Phase'
  <2>1. Holds(n) /\ ~Holds(n)'
    BY <1>2, Distinct DEF Holds
  <2>2. /\ m_blockLock = 0 /\ m_blockQueue = 0 /\ \A t \in Threads : Holds(t) => t = n
        /\ m_blockLock' = 0 /\ m_blockQueue' = 1
    BY <1>0, <1>3, <2>1 DEF Token
  <2>3. \A t \in Threads : ~Holds(t)'
    BY <1>0, <1>4, <2>1, <2>2, Others, Zenon
  <2>4. Token'
    BY <2>2, <2>3 DEF Token
  <2>5. \A v \in Waiters : (Reclaiming(v)' <=> Reclaiming(v)) /\ pc'[v] = pc[v]
    BY <1>0, <1>4, Distinct, Others, Zenon
  <2>6. m_numWaitersToUnblock # 0 \/ \E v \in Waiters : Reclaiming(v)
    BY <1>0, <1>2, Zenon DEF Phase
  <2>7. Phase'
    BY <1>0, <1>3, <2>2, <2>5, <2>6, Zenon DEF Phase
  <2> QED
    BY <2>4, <2>7
<1>6. Types' /\ Labels'
  BY <1>0, <1>2, <1>3, Distinct DEF Types, Labels
<1>7. Counters'
  <2>1. Queued' = Queued
    BY <1>0, <1>1, <1>2, QueueMove DEF InQueue
  <2> QED
    BY <1>0, <1>3, <2>1, Size DEF Counters, Types
<1>8. Critical'
  BY <1>0, <1>2, <1>3, <1>4, Distinct DEF Critical, Types, Elsewhere
<1>9. Timing'
  BY <1>0, <1>2, <1>3, <1>4, Distinct DEF Timing, Types, Elsewhere
<1> QED
  BY <1>5, <1>6, <1>7, <1>8, <1>9, Zenon DEF IInv

\* shutting the gate, which takes the token,
LEMMA ShutGateKeeps ==
  ASSUME IInv, NEW n \in Notifiers, ShutGate(n)
  PROVE  IInv'
<1>0. n \in Threads /\ Types /\ Labels /\ Token /\ Phase /\ Counters /\ Critical /\ Timing
  BY Distinct, Zenon DEF IInv
<1>1. Goto(n, "post") /\ pc[n] = "shutGate"
  BY DEF ShutGate
<1>2. /\ pc'[n] = "post" /\ pc[n] = "shutGate" /\ \A u \in Threads : u # n => pc'[u] = pc[u]
      /\ pc' \in [Threads -> AllLabels]
  BY <1>0, <1>1, Move DEF AllLabels
<1>3. /\ UNCHANGED <<m_blockQueue, m_assocMutex, timed, timedOut, numSignalsLeft, numWaitersGone,
                     all>>
      /\ m_blockLock > 0 /\ m_blockLock' = m_blockLock - 1
      /\ m_unblockLock' = NoThread
      /\ m_numWaitersGone' = 0
      /\ m_numWaitersToUnblock' \in Nat \ {0} /\ m_numWaitersBlocked' \in Nat
      /\ m_numWaitersBlocked' - 0 + m_numWaitersToUnblock' =
           m_numWaitersBlocked - m_numWaitersGone + m_numWaitersToUnblock
      /\ m_unblockLock = n /\ m_numWaitersToUnblock = 0
      /\ owed' \in SUBSET Waiters
  <2>1. m_unblockLock = n /\ m_numWaitersToUnblock = 0 /\ m_numWaitersBlocked > m_numWaitersGone
    BY <1>0, <1>1 DEF Critical
  <2>2. m_numWaitersBlocked \in Nat /\ m_numWaitersGone \in Nat /\ owed \in SUBSET Waiters
    BY <1>0, Bounds DEF Types
  <2>3. /\ m_numWaitersToUnblock' = IF all[n] THEN m_numWaitersBlocked - m_numWaitersGone ELSE 1
        /\ m_numWaitersBlocked' = IF all[n] THEN 0 ELSE m_numWaitersBlocked - m_numWaitersGone - 1
        /\ owed' = IF all[n] THEN BlockedWaiters ELSE owed
    BY DEF ShutGate
  <2>4. /\ m_numWaitersToUnblock' \in Nat \ {0} /\ m_numWaitersBlocked' \in Nat
        /\ m_numWaitersBlocked' - 0 + m_numWaitersToUnblock' =
           m_numWaitersBlocked - m_numWaitersGone + m_numWaitersToUnblock
    BY <2>1, <2>2, <2>3
  <2>5. owed' \in SUBSET Waiters
    BY <2>2, <2>3 DEF BlockedWaiters
  <2> QED
    BY <2>1, <2>4, <2>5, Zenon DEF ShutGate, locals
<1>4. Elsewhere(n)
  BY <1>2, <1>3 DEF Elsewhere
<1>5. Token' /\ Phase'
  <2>1. Holds(n)'
    BY <1>2 DEF Holds
  <2>2. /\ m_blockLock = 1 /\ m_blockQueue = 0 /\ \A t \in Threads : ~Holds(t)
        /\ m_blockLock' = 0 /\ m_blockQueue' = 0
    BY <1>0, <1>3 DEF Token
  <2>3. \A t \in Threads : Holds(t)' => t = n
    BY <1>0, <1>4, <2>2, Others, Zenon
  <2>4. Token'
    BY <1>0, <2>1, <2>2, <2>3 DEF Token
  <2>5. \A v \in Waiters : ~Reclaiming(v) /\ ~Reclaiming(v)' /\ ~Passing(v)
    BY <1>0, <1>4, <2>2, Distinct, Others, Zenon DEF Phase, Holds
  <2>6. \A v \in Waiters : pc'[v] = "finish" => numSignalsLeft[v] = 0
    <3>1. ASSUME NEW v \in Waiters, pc'[v] = "finish" PROVE numSignalsLeft[v] = 0
      <4>1. pc[v] = "finish" /\ numWaitersGone[v] \in 0 .. 1
        BY <1>0, <1>2, <3>1, Distinct DEF Types
      <4> QED
        BY <2>5, <4>1 DEF Reclaiming, Passing
    <3> QED
      BY <3>1
  <2>7. Phase'
    <3>1. m_blockLock' # 1 /\ m_numWaitersToUnblock' # 0
      BY <1>3, <2>2
    <3>2. \A v \in Waiters : pc'[v] = "finish" => numSignalsLeft'[v] = 0
      BY <1>3, <2>6, Zenon
    <3>3. \A v \in Waiters : pc'[v] = "finish" => numSignalsLeft'[v] # 1 /\ ~(numSignalsLeft'[v] > 1)
      BY <3>2
    <3> QED
      BY <2>5, <3>1, <3>3, Zenon DEF Phase
  <2> QED
    BY <2>4, <2>7
<1>6. Types' /\ Labels'
  BY <1>0, <1>2, <1>3, Distinct DEF Types, Labels
<1>7. Counters'
  <2>1. Queued' = Queued
    BY <1>0, <1>1, <1>2, QueueMove DEF InQueue
  <2>2. /\ m_numWaitersBlocked - m_numWaitersGone + m_numWaitersToUnblock = Cardinality(Queued)
        /\ m_numWaitersBlocked \in Nat /\ m_numWaitersGone \in Nat
    BY <1>0, Bounds DEF Counters
  <2>3. m_numWaitersGone' = 0
    BY <1>3, Zenon
  <2>4. m_numWaitersBlocked' \in Nat
    BY <1>3, Zenon
  <2>5. m_numWaitersBlocked' >= m_numWaitersGone'
    BY <2>3, <2>4
  <2>6. m_numWaitersBlocked' - m_numWaitersGone' + m_numWaitersToUnblock' =
             m_numWaitersBlocked - m_numWaitersGone + m_numWaitersToUnblock
    BY <1>3, <2>3, Zenon
  <2> QED
    BY <2>1, <2>2, <2>3, <2>5, <2>6, Zenon DEF Counters
<1>8. Critical'
  <2>1. \A t \in Threads : t # n => pc[t] \notin {"overflow", "shutGate"}
    BY <1>0, <1>3, Distinct DEF Critical
  <2>2. \A t \in Threads : pc'[t] \notin {"overflow", "shutGate"} /\ m_unblockLock' # t
    BY <1>2, <1>3, <2>1, Distinct
  <2> QED
    BY <1>3, <2>2, Distinct, GoneLimitAssumption DEF Critical
<1>9. Timing'
  BY <1>0, <1>2, <1>3, <1>4, Distinct DEF Timing, Types, Elsewhere
<1> QED
  BY <1>5, <1>6, <1>7, <1>8, <1>9, Zenon DEF IInv

\* the critical section when waiters are to be unblocked: the waiter holds the token,
\* or has timed out, is the only one, and takes m_numWaitersToUnblock to 0,
LEMMA UnblockOneKeeps ==
  ASSUME IInv, NEW w \in Waiters, UnblockOne(w)
  PROVE  IInv'
<1>0. w \in Threads /\ Types /\ Labels /\ Token /\ Phase /\ Counters /\ Critical /\ Timing
  BY Distinct, Zenon DEF IInv
<1>1. Goto(w, "finish") /\ pc[w] = "unblock"
  BY Zenon DEF UnblockOne
<1>2. /\ pc'[w] = "finish" /\ pc[w] = "unblock" /\ \A u \in Threads : u # w => pc'[u] = pc[u]
      /\ pc' \in [Threads -> AllLabels]
  BY <1>0, <1>1, Move DEF AllLabels
<1>3. /\ UNCHANGED <<m_blockQueue, m_unblockLock, m_assocMutex, m_numWaitersBlocked, timed,
                     timedOut, all, owed>>
      /\ m_unblockLock = NoThread /\ m_numWaitersToUnblock # 0
      /\ m_numWaitersToUnblock' = m_numWaitersToUnblock - 1
      /\ m_numWaitersGone' = 0 /\ m_numWaitersGone = 0
      /\ numSignalsLeft' \in [Waiters -> 0 .. Cardinality(Waiters)]
      /\ \A u \in Waiters : u # w => numSignalsLeft'[u] = numSignalsLeft[u]
      /\ numWaitersGone' \in [Waiters -> 0 .. 1] /\ \A u \in Waiters : u # w => numWaitersGone'[u] = numWaitersGone[u]
      /\ \/ /\ ~timedOut[w] /\ m_numWaitersToUnblock = 1
            /\ m_blockLock' = m_blockLock + 1 /\ numSignalsLeft'[w] = 0 /\ numWaitersGone'[w] = 0
         \/ /\ ~timedOut[w] /\ m_blockLock' = m_blockLock
            /\ numSignalsLeft'[w] = m_numWaitersToUnblock /\ numWaitersGone'[w] = 0
         \/ /\ timedOut[w] /\ m_numWaitersToUnblock = 1
            /\ m_blockLock' = m_blockLock /\ numSignalsLeft'[w] = 1 /\ numWaitersGone'[w] = 1
  <2>1. m_unblockLock = NoThread /\ m_numWaitersToUnblock # 0
    BY Zenon DEF UnblockOne
  <2>2. /\ m_numWaitersToUnblock \in Nat /\ m_numWaitersToUnblock <= Cardinality(Waiters) /\ Cardinality(Waiters) \in Nat
        /\ m_numWaitersBlocked \in Nat /\ m_numWaitersGone = 0
        /\ m_numWaitersBlocked + m_numWaitersToUnblock = Cardinality(Queued)
    BY <1>0, <2>1, Bounds DEF Counters
  <2>3. ASSUME timedOut[w] PROVE m_numWaitersToUnblock = 1 /\ m_numWaitersBlocked = 0
    <3>1. \A v \in Waiters : v # w => pc[v] = "idle"
      BY <1>0, <2>3, Zenon DEF Timing
    <3>2. Queued = {w}
      BY <1>1, <3>1 DEF Queued, InQueue
    <3>3. Cardinality(Queued) = 1
      BY <3>2, FS_Singleton
    <3> QED
      BY <2>1, <2>2, <3>3
  <2> DEFINE Early == timedOut[w] /\ m_numWaitersBlocked # 0
             Last == m_numWaitersToUnblock - 1 = 0
             Blocked == IF Early THEN m_numWaitersBlocked - 1 ELSE m_numWaitersBlocked
             Gone == IF timedOut[w] /\ m_numWaitersBlocked = 0 THEN 1 ELSE m_numWaitersGone
             Left == IF Early THEN 0 ELSE m_numWaitersToUnblock
             Signals == IF Last /\ Blocked # 0 THEN 0 ELSE Left
             Taken == IF Last /\ Blocked = 0 THEN Gone ELSE 0
  <2>4. /\ m_numWaitersBlocked' = Blocked
        /\ m_numWaitersToUnblock' = m_numWaitersToUnblock - 1
        /\ m_numWaitersGone' = IF Last /\ Blocked = 0 THEN 0 ELSE Gone
        /\ numWaitersGone' = [numWaitersGone EXCEPT ![w] = Taken]
        /\ numSignalsLeft' = [numSignalsLeft EXCEPT ![w] = Signals]
        /\ m_blockLock' = IF Last /\ Blocked # 0 THEN m_blockLock + 1 ELSE m_blockLock
        /\ UNCHANGED <<m_blockQueue, m_unblockLock, m_assocMutex, timed, timedOut, all, owed>>
    BY Zenon DEF UnblockOne
  <2>5. Signals \in 0 .. Cardinality(Waiters) /\ Taken \in 0 .. 1
    BY <2>1, <2>2, <2>3
  <2>6. /\ numSignalsLeft' \in [Waiters -> 0 .. Cardinality(Waiters)] /\ numSignalsLeft'[w] = Signals
        /\ numWaitersGone' \in [Waiters -> 0 .. 1] /\ numWaitersGone'[w] = Taken
        /\ \A u \in Waiters : u # w => numSignalsLeft'[u] = numSignalsLeft[u] /\ numWaitersGone'[u] = numWaitersGone[u]
    <3> HIDE DEF Signals, Taken
    <3> QED
      BY <1>0, <2>4, <2>5 DEF Types
  <2>7. CASE timedOut[w]
    BY <2>1, <2>2, <2>3, <2>4, <2>6, <2>7
  <2>8. CASE ~timedOut[w]
    BY <2>1, <2>2, <2>4, <2>6, <2>8
  <2> QED
    BY <2>7, <2>8, Zenon
<1>4. Elsewhere(w)
  BY <1>2, <1>3, Zenon DEF Elsewhere
<1>5. Token' /\ Phase'
  <2>0. /\ m_blockLock = 0 /\ m_numWaitersToUnblock \in Nat
        /\ \A v \in Waiters : pc[v] # "finish" \/ numSignalsLeft[v] # 1
    BY <1>0, <1>3 DEF Phase, Token, Types
  <2>1. CASE ~timedOut[w]
    <3>1. Holds(w) /\ ~Reclaiming(w)'
      <4>1. numWaitersGone'[w] = 0
        BY <1>3, <2>1, Zenon
      <4>2. Holds(w)
        BY <1>2, <2>1, Zenon DEF Holds, Woken
      <4> QED
        BY <4>1, <4>2 DEF Reclaiming
    <3>2. m_blockQueue = 0 /\ m_blockQueue' = 0 /\ \A t \in Threads : Holds(t) => t = w
      BY <1>0, <1>3, <3>1 DEF Token
    <3>3. \A t \in Threads : Holds(t)' => t = w
      BY <1>0, <1>4, <3>2, Others, Zenon
    <3>4. \/ m_blockLock' = 1 /\ ~Holds(w)' /\ numSignalsLeft'[w] = 0 /\ m_numWaitersToUnblock = 1
          \/ m_blockLock' = 0 /\ Holds(w)' /\ numSignalsLeft'[w] = m_numWaitersToUnblock
      BY <1>2, <1>3, <2>0, <2>1, Distinct DEF Holds, Woken, Passing
    <3>5. Token'
      BY <1>0, <3>2, <3>3, <3>4 DEF Token
    <3>6. \A v \in Waiters : ~Reclaiming(v)'
      <4>1. \A v \in Waiters : ~Reclaiming(v)
        BY <1>0, <2>0, Zenon DEF Phase, Reclaiming
      <4> QED
        BY <1>0, <1>4, <3>1, <4>1, Others, Zenon
    <3>7. \A v \in Waiters : ~Woken(v)'
      <4>1. ~Woken(w)'
        BY <1>2 DEF Woken
      <4> QED
        BY <3>3, <4>1, Distinct, Zenon DEF Holds
    <3>8. \A v \in Notifiers : pc'[v] # "post"
      BY <3>3, Distinct, Zenon DEF Holds
    <3>9. \A v \in Waiters : pc'[v] = "finish" => v = w \/ numSignalsLeft'[v] = 0
      <4>1. ASSUME NEW v \in Waiters, pc'[v] = "finish", v # w PROVE numSignalsLeft'[v] = 0
        <5>1. pc[v] = "finish" /\ numSignalsLeft'[v] = numSignalsLeft[v] /\ ~Holds(v) /\ v \in Threads
          BY <1>2, <1>3, <3>2, <4>1, Distinct
        <5>2. ~Reclaiming(v) /\ numWaitersGone[v] \in 0 .. 1
          BY <1>0, <2>0 DEF Phase, Reclaiming, Types
        <5> QED
          BY <5>1, <5>2 DEF Holds, Passing, Reclaiming
      <4> QED
        BY <4>1
    <3>10. Phase'
      <4>1. m_numWaitersToUnblock' = m_numWaitersToUnblock - 1
        BY <1>3
      <4>2. m_blockLock' = 1 => m_numWaitersToUnblock' = 0
        BY <3>4, <4>1
      <4>3. /\ numSignalsLeft'[w] = 1 => m_numWaitersToUnblock' = 0
            /\ numSignalsLeft'[w] > 1 => m_numWaitersToUnblock' # 0
        BY <2>0, <3>4, <4>1
      <4>4. \A v \in Waiters : pc'[v] = "finish" =>
              /\ numSignalsLeft'[v] = 1 => m_numWaitersToUnblock' = 0
              /\ numSignalsLeft'[v] > 1 => m_numWaitersToUnblock' # 0
        BY <3>9, <4>3
      <4>5. m_blockQueue' # 1
        BY <3>2
      <4> QED
        BY <3>6, <3>7, <3>8, <4>2, <4>4, <4>5, Zenon DEF Phase
    <3> QED
      BY <3>5, <3>10
  <2>2. CASE timedOut[w]
    <3>1. ~Holds(w) /\ ~Holds(w)' /\ Reclaiming(w)'
      BY <1>2, <1>3, <2>2, Distinct DEF Holds, Woken, Passing, Reclaiming
    <3>2. timed'[w] /\ numSignalsLeft'[w] = 1 /\ \A v \in Waiters : v # w => pc'[v] = "idle"
      BY <1>0, <1>2, <1>3, <2>2, Distinct, Zenon DEF Timing
    <3>3. \A t \in Threads : Holds(t)' <=> Holds(t)
      BY <1>0, <1>4, <3>1, Others, Zenon
    <3>4. m_blockLock' = m_blockLock /\ m_numWaitersToUnblock' = 0
      <4>1. m_blockLock' = m_blockLock /\ m_numWaitersToUnblock = 1 /\ m_numWaitersToUnblock' = m_numWaitersToUnblock - 1
        BY <1>3, <2>2, Zenon
      <4> QED
        BY <4>1
    <3>5. Token'
      BY <1>0, <1>3, <3>3, <3>4 DEF Token
    <3>6. Phase'
      <4>1. m_blockLock' # 1
        BY <2>0, <3>4
      <4>2. \A v \in Waiters : pc'[v] = "finish" => v = w
        BY <3>2
      <4>3. ~(numSignalsLeft'[w] > 1)
        BY <3>2
      <4> QED
        BY <3>1, <3>2, <3>4, <4>1, <4>2, <4>3, Zenon DEF Phase, Reclaiming
    <3> QED
      BY <3>5, <3>6
  <2> QED
    BY <2>1, <2>2
<1>6. Types' /\ Labels'
  BY <1>0, <1>2, <1>3, Distinct DEF Types, Labels
<1>7. Counters'
  <2>1. Queued' = Queued \ {w} /\ w \in Queued
    BY <1>0, <1>1, <1>2, QueueMove DEF InQueue
  <2>2. Cardinality(Queued)' = Cardinality(Queued) - 1
    BY <2>1, Size
  <2>3. /\ m_numWaitersBlocked + m_numWaitersToUnblock = Cardinality(Queued)
        /\ m_numWaitersBlocked \in Nat /\ m_numWaitersToUnblock \in Nat
    BY <1>0, <1>3, Bounds DEF Counters
  <2>4. /\ m_numWaitersToUnblock' = m_numWaitersToUnblock - 1 /\ m_numWaitersBlocked' = m_numWaitersBlocked
        /\ m_numWaitersGone' = 0 /\ m_numWaitersToUnblock # 0
    BY <1>3
  <2> QED
    BY <2>2, <2>3, <2>4 DEF Counters
<1>8. Critical'
  <2>1. \A t \in Threads : pc[t] \notin {"overflow", "shutGate"}
    BY <1>0, <1>3, Distinct DEF Critical
  <2>2. \A t \in Threads : pc'[t] \notin {"overflow", "shutGate"} /\ m_unblockLock' # t
    BY <1>2, <1>3, <2>1, Distinct
  <2> QED
    BY <1>3, <2>2, Distinct, GoneLimitAssumption DEF Critical
<1>9. Timing'
  BY <1>0, <1>2, <1>3, <1>4, Distinct DEF Timing, Types, Elsewhere
<1> QED
  BY <1>5, <1>6, <1>7, <1>8, <1>9, Zenon DEF IInv

\* and taking back the wake-up, which gives that waiter the token.
LEMMA ReclaimKeeps ==
  ASSUME IInv, NEW w \in Waiters, Reclaim(w)
  PROVE  IInv'
<1>0. w \in Threads /\ Types /\ Labels /\ Token /\ Phase /\ Counters /\ Critical /\ Timing
  BY Distinct, Zenon DEF IInv
<1>1. /\ pc[w] = "finish" /\ numSignalsLeft[w] = 1 /\ numWaitersGone[w] = 1
      /\ m_blockQueue > 0 /\ m_blockQueue' = m_blockQueue - 1
      /\ UNCHANGED <<m_blockLock, m_unblockLock, m_assocMutex, m_numWaitersGone, m_numWaitersBlocked,
                     m_numWaitersToUnblock, pc, timed, timedOut, numSignalsLeft, all, owed>>
      /\ numWaitersGone' \in [Waiters -> 0 .. 1] /\ numWaitersGone'[w] = 0
      /\ \A u \in Waiters : u # w => numWaitersGone'[u] = numWaitersGone[u]
  BY <1>0 DEF Reclaim, counts, Types
<1>4. Elsewhere(w)
  BY <1>1 DEF Elsewhere
<1>5. Token' /\ Phase'
  <2>1. /\ m_blockLock = 0 /\ m_blockQueue = 1 /\ \A t \in Threads : ~Holds(t)
        /\ m_blockLock' = 0 /\ m_blockQueue' = 0
    BY <1>0, <1>1 DEF Token
  <2>2. Holds(w)' /\ ~Reclaiming(w)' /\ ~Woken(w)'
    BY <1>1 DEF Holds, Passing, Reclaiming, Woken
  <2>3. \A t \in Threads : Holds(t)' => t = w
    BY <1>0, <1>4, <2>1, Others, Zenon
  <2>4. Token'
    BY <1>0, <2>1, <2>2, <2>3 DEF Token
  <2>5. \A v \in Waiters : ~Woken(v)' /\ (Reclaiming(v)' => Reclaiming(v))
    <3>1. \A v \in Waiters : ~Woken(v)
      BY <2>1, Distinct, Zenon DEF Holds
    <3> QED
      BY <1>0, <1>4, <2>2, <3>1, Others, Zenon
  <2>6. \A n \in Notifiers : pc'[n] # "post"
    BY <1>1, <2>1, Distinct, Zenon DEF Holds
  <2>7. Phase'
    BY <1>0, <1>1, <2>1, <2>5, <2>6, Zenon DEF Phase
  <2> QED
    BY <2>4, <2>7
<1>6. Types' /\ Labels'
  BY <1>0, <1>1 DEF Types, Labels
<1>7. Queued' = Queued /\ Counters'
  BY <1>0, <1>1, Zenon DEF Counters, Queued
<1>8. Critical'
  BY <1>0, <1>1, Zenon DEF Critical
<1>9. Timing'
  BY <1>0, <1>1 DEF Timing
<1> QED
  BY <1>5, <1>6, <1>7, <1>8, <1>9, Zenon DEF IInv

\* IInv holds at first,
LEMMA CleanInit == Init => IInv
<1> SUFFICES ASSUME Init PROVE IInv
  OBVIOUS
<1>1. \A t \in Threads : pc[t] = "idle"
  BY DEF Init
<1>2. \A t \in Threads : ~Holds(t)
  BY <1>1, Distinct DEF Holds, Woken, Passing
<1>3. Token
  BY <1>2 DEF Init, Token
<1>4. \A w \in Waiters : pc[w] = "idle" /\ ~Reclaiming(w) /\ ~Woken(w)
  BY <1>1, Distinct DEF Reclaiming, Woken
<1>5. Phase
  BY <1>1, <1>4, Distinct DEF Init, Phase
<1>6. Queued = {}
  BY <1>4 DEF Queued, InQueue
<1>7. Cardinality(Queued) = 0
  BY <1>6, FS_EmptySet
<1>8. Counters
  BY <1>7 DEF Init, Counters
<1>9. Types /\ Labels
  BY <1>1, Distinct, Size DEF Init, Types, Labels, AllLabels
<1>10. Critical
  BY <1>1, <1>4, Distinct, GoneLimitAssumption DEF Init, Critical
<1>11. Timing
  BY DEF Init, Timing
<1> QED
  BY <1>3, <1>5, <1>8, <1>9, <1>10, <1>11 DEF IInv

\* and every step keeps it.
LEMMA CleanStep ==
  ASSUME TimedWaits # "anytime"
  PROVE  IInv /\ [Next]_vars => IInv'
<1> SUFFICES ASSUME IInv, [Next]_vars PROVE IInv'
  OBVIOUS
<1>1. ASSUME NEW w \in Waiters, NEW limited \in BOOLEAN, Wait(w, limited) PROVE IInv'
  BY <1>1, WaitKeeps
<1>2. ASSUME NEW w \in Waiters,
             \/ TimesOut(w) \/ EnterQueue(w) \/ Unblocked(w) \/ UnblockOne(w) \/ UnblockGone(w)
             \/ Overflow(w) \/ Reclaim(w) \/ Finish(w) \/ Return(w)
      PROVE  IInv'
  BY <1>2, TimesOutKeeps, EnterQueueKeeps, UnblockedKeeps, UnblockOneKeeps, UnblockGoneKeeps, OverflowKeeps,
     ReclaimKeeps, FinishKeeps, ReturnKeeps, Zenon
<1>3. ASSUME NEW n \in Notifiers, NEW everyone \in BOOLEAN, NEW holding \in BOOLEAN, Notify(n, everyone, holding)
      PROVE  IInv'
  BY <1>3, NotifyKeeps
<1>4. ASSUME NEW n \in Notifiers, NotifyJoin(n) \/ NotifyBegin(n) \/ ShutGate(n) \/ Post(n) PROVE IInv'
  BY <1>4, NotifyJoinKeeps, NotifyBeginKeeps, ShutGateKeeps, PostKeeps, Zenon
<1>5. CASE UNCHANGED vars
  <2>1. /\ UNCHANGED <<m_blockLock, m_blockQueue, m_unblockLock, m_assocMutex, m_numWaitersGone, m_numWaitersBlocked>>
        /\ UNCHANGED <<m_numWaitersToUnblock, pc, timed, timedOut, numSignalsLeft, numWaitersGone, all, owed>>
    BY <1>5, Zenon DEF vars, sems, counts, locals
  <2>2. /\ \A t : Holds(t)' <=> Holds(t)
        /\ \A w : (Woken(w)' <=> Woken(w)) /\ (Reclaiming(w)' <=> Reclaiming(w))
        /\ Queued' = Queued
    BY <2>1 DEF Holds, Woken, Passing, Reclaiming, Queued
  <2>3. Types' /\ Labels'
    BY <2>1 DEF IInv, Types, Labels
  <2>4. Token' /\ Phase'
    BY <2>1, <2>2, Zenon DEF IInv, Token, Phase
  <2>5. Counters' /\ Critical' /\ Timing'
    BY <2>1, <2>2 DEF IInv, Counters, Critical, Timing
  <2> QED
    BY <2>3, <2>4, <2>5 DEF IInv
<1> QED
  BY <1>1, <1>2, <1>3, <1>4, <1>5, Zenon DEF Next

\* Condition on Windows, for any number of waiters and notifiers and any limit on
\* m_numWaitersGone, where wait(Duration) is called only while nobody else waits: when
\* no call is in transit the gate is open, no wake-up is stored, and the counters
\* account for every waiter asleep; the semaphores and counters stay in range.
THEOREM ConditionRestsClean ==
  ASSUME TimedWaits # "anytime"
  PROVE  Spec => []RestIsClean
<1>1. IInv => RestIsClean
  <2> SUFFICES ASSUME IInv PROVE RestIsClean
    OBVIOUS
  <2>0. Types /\ Token /\ Phase /\ Counters
    BY Zenon DEF IInv
  <2>1. m_blockQueue = 1 => Cardinality(Waiters) # 0
    <3>1. ASSUME m_blockQueue = 1, m_numWaitersToUnblock # 0 PROVE Cardinality(Waiters) # 0
      BY <3>1, Bounds
    <3>2. ASSUME NEW w \in Waiters PROVE Cardinality(Waiters) # 0
      BY WaitersAssumption, FS_EmptySet, Zenon
    <3> QED
      BY <2>0, <3>1, <3>2, Zenon DEF Phase
  <2>2. m_blockLock \in 0 .. 1 /\ m_blockQueue \in 0 .. Cardinality(Waiters)
    BY <2>0, <2>1, Size DEF Token
  <2>3. TypeOK
    BY <2>0, <2>2, Bounds DEF TypeOK, Types, AllLabels
  <2>4. ASSUME AtRest
        PROVE  /\ m_blockLock = 1 /\ m_blockQueue = 0 /\ m_numWaitersToUnblock = 0
               /\ m_numWaitersBlocked - m_numWaitersGone = Cardinality(BlockedWaiters)
    <3>1. \A t \in Threads : pc[t] \in {"idle", "blocked"}
      BY <2>4 DEF AtRest
    <3>2. (\A t \in Threads : ~Holds(t)) /\ \A w \in Waiters : ~Reclaiming(w)
      BY <3>1, Distinct DEF Holds, Woken, Passing, Reclaiming
    <3>3. Queued = BlockedWaiters
      BY <3>1, Distinct DEF Queued, BlockedWaiters, InQueue
    <3>4. m_blockQueue # 1
      <4>1. ASSUME m_blockQueue = 1 PROVE FALSE
        <5>1. m_numWaitersToUnblock # 0
          BY <2>0, <3>2, <4>1, Zenon DEF Phase
        <5>2. Queued = {}
          BY <2>4, <3>3, <4>1 DEF AtRest
        <5>3. Cardinality(Queued) = 0
          BY <5>2, FS_EmptySet
        <5> QED
          BY <2>0, <5>1, <5>3, Bounds DEF Counters
      <4> QED
        BY <4>1
    <3>5. m_blockLock = 1 /\ m_blockQueue = 0
      BY <2>0, <3>2, <3>4 DEF Token
    <3>6. m_numWaitersToUnblock = 0
      BY <2>0, <3>5 DEF Phase
    <3> QED
      BY <2>0, <3>3, <3>5, <3>6, Bounds DEF Counters
  <2> QED
    BY <2>3, <2>4, Zenon DEF RestIsClean
<1> QED
  BY <1>1, CleanInit, CleanStep, PTL DEF Spec
=============================================================================
