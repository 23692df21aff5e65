---------------------------- MODULE EventProofs -----------------------------
(***************************************************************************)
(* Proofs about the event of Posix, for any set of threads.                *)
(***************************************************************************)
EXTENDS Event, TLAPS

\* Who is out of the wait was signaled or woke up spuriously.
Roused == \A t \in Threads : pc[t] = "woken" => signaled[t] \/ spurious[t]

\* That holds at first, and nobody sleeps while the event is signaled;
LEMMA EventInit == Init => NoSleepWhileSignaled /\ Roused
BY Zenon DEF Init, NoSleepWhileSignaled, TypeOK, Waiting, Roused

\* every method keeps both.
LEMMA EventStep ==
  ASSUME NoSleepWhileSignaled, Roused, [Next]_vars
  PROVE  NoSleepWhileSignaled' /\ Roused'
<1>1. ASSUME NEW manualReset \in BOOLEAN, NEW initialState \in BOOLEAN, initialize(manualReset, initialState)
      PROVE  NoSleepWhileSignaled' /\ Roused'
  BY <1>1, Zenon DEF initialize, NoSleepWhileSignaled, TypeOK, Waiting, Roused
<1>2. CASE terminate
  BY <1>2, Zenon DEF terminate, NoSleepWhileSignaled, TypeOK, Waiting, Roused
<1>3. CASE setIfInitialized
  <2>1. /\ pc' = [t \in Threads |-> IF pc[t] = "asleep" THEN "woken" ELSE pc[t]]
        /\ signaled' = [t \in Threads |-> signaled[t] \/ t \in Waiting]
        /\ m_initalized /\ m_state' = TRUE /\ UNCHANGED <<m_initalized, m_manualReset, result, spurious>>
    BY <1>3, Zenon DEF setIfInitialized
  <2>2. \A t \in Threads : pc'[t] = (IF pc[t] = "asleep" THEN "woken" ELSE pc[t])
    BY <2>1, Zenon
  <2>3. \A t \in Threads : signaled'[t] <=> signaled[t] \/ pc[t] # "idle"
    BY <2>1, Zenon DEF Waiting
  <2>4. Roused'
    BY <2>1, <2>2, <2>3, Zenon DEF Roused
  <2>5. signaled' \in [Threads -> BOOLEAN]
    BY <2>1, Zenon DEF NoSleepWhileSignaled, TypeOK
  <2>6. pc' \in [Threads -> {"idle", "asleep", "woken", "timedout"}]
    BY <2>1 DEF NoSleepWhileSignaled, TypeOK
  <2>7. \A t \in Threads : pc'[t] # "asleep"
    BY <2>2
  <2> QED
    BY <2>1, <2>4, <2>5, <2>6, <2>7, Zenon DEF NoSleepWhileSignaled, TypeOK
<1>4. CASE reset
  BY <1>4, Zenon DEF reset, NoSleepWhileSignaled, TypeOK, Waiting, Roused
<1>5. ASSUME NEW t \in Threads, Wait(t) PROVE NoSleepWhileSignaled' /\ Roused'
  <2>0. result' \in [Threads -> BOOLEAN]
    <3>1. result \in [Threads -> BOOLEAN]
      BY Zenon DEF NoSleepWhileSignaled, TypeOK
    <3>2. \/ \E b \in BOOLEAN : result' = [result EXCEPT ![t] = b]
          \/ result' = result
      BY <1>5, Zenon DEF Wait
    <3> QED
      BY <3>1, <3>2
  <2>1. CASE /\ UNCHANGED <<m_initalized, m_manualReset, pc, signaled, spurious>>
             /\ (m_state' = m_state \/ m_state' = FALSE)
    <3>1. CASE m_state' = m_state
      BY <2>0, <2>1, <3>1, Zenon DEF NoSleepWhileSignaled, TypeOK, Waiting, Roused
    <3>2. CASE m_state' = FALSE
      BY <2>0, <2>1, <3>2, Zenon DEF NoSleepWhileSignaled, TypeOK, Waiting, Roused
    <3> QED
      BY <2>1, <3>1, <3>2, Zenon
  <2>2. CASE /\ m_initalized /\ ~m_state
             /\ pc' = [pc EXCEPT ![t] = "asleep"]
             /\ signaled' = [signaled EXCEPT ![t] = FALSE]
             /\ spurious' = [spurious EXCEPT ![t] = FALSE]
             /\ UNCHANGED <<m_initalized, m_state, m_manualReset>>
    BY <2>0, <2>2, Zenon DEF NoSleepWhileSignaled, TypeOK, Waiting, Roused
  <2> QED
    BY <1>5, <2>1, <2>2, Zenon DEF Wait, AutoReset
<1>6. ASSUME NEW t \in Threads, WaitReturns(t) PROVE NoSleepWhileSignaled' /\ Roused'
  <2>1. /\ pc' = [pc EXCEPT ![t] = "idle"] /\ pc[t] # "idle" /\ m_state' \in {m_state, FALSE}
        /\ UNCHANGED <<m_initalized, m_manualReset, signaled, spurious>>
    BY <1>6, Zenon DEF WaitReturns, AutoReset
  <2>2. result' \in [Threads -> BOOLEAN]
    BY <1>6, Zenon DEF WaitReturns, NoSleepWhileSignaled, TypeOK
  <2>3. pc' \in [Threads -> {"idle", "asleep", "woken", "timedout"}]
    BY <2>1 DEF NoSleepWhileSignaled, TypeOK
  <2>4. \A u \in Threads : pc'[u] \in {pc[u], "idle"}
    BY <2>1 DEF NoSleepWhileSignaled, TypeOK
  <2>5. Roused'
    BY <2>1, <2>4, Zenon DEF Roused
  <2>6. m_initalized' /\ m_state' => \A u \in Threads : pc'[u] # "asleep"
    BY <2>1, <2>4, Zenon DEF NoSleepWhileSignaled, TypeOK
  <2>7. m_initalized
    BY <2>1, Zenon DEF NoSleepWhileSignaled, TypeOK, Waiting
  <2> QED
    BY <2>1, <2>2, <2>3, <2>5, <2>6, <2>7, Zenon DEF NoSleepWhileSignaled, TypeOK
<1>7. ASSUME NEW t \in Threads, Timeout(t) \/ SpuriousWakeup(t) PROVE NoSleepWhileSignaled' /\ Roused'
  <2>1. PICK l \in {"timedout", "woken"} :
          /\ pc' = [pc EXCEPT ![t] = l] /\ pc[t] = "asleep"
          /\ spurious' = IF l = "woken" THEN [spurious EXCEPT ![t] = TRUE] ELSE spurious
          /\ UNCHANGED <<m_initalized, m_state, m_manualReset, result, signaled>>
    BY <1>7 DEF Timeout, SpuriousWakeup
  <2>2. spurious' \in [Threads -> BOOLEAN] /\ pc' \in [Threads -> {"idle", "asleep", "woken", "timedout"}]
    BY <2>1 DEF NoSleepWhileSignaled, TypeOK
  <2>3. /\ pc'[t] = l /\ (l = "woken" => spurious'[t])
        /\ \A u \in Threads : u # t => pc'[u] = pc[u] /\ spurious'[u] = spurious[u]
    BY <2>1 DEF NoSleepWhileSignaled, TypeOK
  <2>4. Roused'
    BY <2>1, <2>3, Zenon DEF Roused
  <2>5. m_initalized /\ ~m_state
    BY <2>1 DEF NoSleepWhileSignaled, TypeOK, Waiting
  <2> QED
    BY <2>1, <2>2, <2>4, <2>5, Zenon DEF NoSleepWhileSignaled, TypeOK
<1>8. CASE UNCHANGED vars
  BY <1>8 DEF vars, NoSleepWhileSignaled, TypeOK, Waiting, Roused
<1> QED
  BY <1>1, <1>2, <1>3, <1>4, <1>5, <1>6, <1>7, <1>8, Zenon DEF Next

\* No thread sleeps in Event.wait while the event is signaled, whatever the order of
\* set, reset, wait, timeouts and spurious wake-ups, and nobody waits for an event
\* that was terminated.
THEOREM SignalNotSleptThrough == Spec => []NoSleepWhileSignaled
<1>1. NoSleepWhileSignaled /\ Roused /\ [Next]_vars => NoSleepWhileSignaled' /\ Roused'
  BY EventStep
<1> QED
  BY <1>1, EventInit, PTL DEF Spec

\* Event.wait returns true from a sleep only if the event was signaled during the call
\* or pthread_cond_wait woke up by itself.
THEOREM TrueIsSignaled == Spec => TrueMeansWoken
<1>1. NoSleepWhileSignaled /\ Roused /\ [Next]_vars => NoSleepWhileSignaled' /\ Roused'
  BY EventStep
<1> DEFINE A == [\A t \in Threads :
       pc[t] # "idle" /\ pc'[t] = "idle" /\ result'[t] => signaled[t] \/ spurious[t]]_vars
<1>2. NoSleepWhileSignaled /\ Roused /\ [Next]_vars => A
  <2>1. ASSUME NoSleepWhileSignaled, Roused, Next, NEW t \in Threads,
               pc[t] # "idle", pc'[t] = "idle", result'[t]
        PROVE  signaled[t] \/ spurious[t]
    <3>0. result \in [Threads -> BOOLEAN] /\ pc \in [Threads -> {"idle", "asleep", "woken", "timedout"}]
      BY <2>1, Zenon DEF NoSleepWhileSignaled, TypeOK
    <3>1. ASSUME NEW u \in Threads, WaitReturns(u) PROVE u = t /\ pc[t] = "woken"
      <4>1. u = t
        BY <2>1, <3>1, Zenon DEF WaitReturns, NoSleepWhileSignaled, TypeOK
      <4>2. pc[t] # "timedout"
        <5>1. ASSUME pc[t] = "timedout" PROVE result'[t] = (ETIMEDOUT = 0)
          BY <3>0, <3>1, <4>1, <5>1, Zenon DEF WaitReturns
        <5>2. ETIMEDOUT # 0
          BY DEF ETIMEDOUT
        <5> QED
          BY <2>1, <5>1, <5>2, Zenon
      <4> QED
        BY <3>1, <4>1, <4>2, Zenon DEF WaitReturns
    <3>2. ASSUME NEW u \in Threads, Wait(u) \/ Timeout(u) \/ SpuriousWakeup(u) PROVE FALSE
      BY <2>1, <3>2 DEF Wait, Timeout, SpuriousWakeup, NoSleepWhileSignaled, TypeOK
    <3>3. ASSUME terminate \/ reset \/ \E a, b \in BOOLEAN : initialize(a, b) PROVE FALSE
      BY <2>1, <3>3, Zenon DEF terminate, reset, initialize
    <3>4. ASSUME setIfInitialized PROVE FALSE
      BY <2>1, <3>4 DEF setIfInitialized
    <3> QED
      BY <2>1, <3>1, <3>2, <3>3, <3>4, Zenon DEF Next, Roused
  <2> QED
    BY <2>1, Zenon
<1> QED
  BY <1>1, <1>2, EventInit, PTL DEF Spec, TrueMeansWoken
=============================================================================
