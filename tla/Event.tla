-------------------------------- MODULE Event --------------------------------
(***************************************************************************)
(* core.sync.event.Event on Posix.  Each method holds m_mutex throughout   *)
(* and gives it up only in pthread_cond_(timed)wait, so every method is    *)
(* one step, and wait(), when it blocks, is two: going to sleep, and what  *)
(* it does once it has the mutex back.                                     *)
(***************************************************************************)
EXTENDS Naturals

CONSTANT Threads

VARIABLES
  m_initalized,
  m_state,          \* signaled?
  m_manualReset,
  pc,               \* idle, asleep, or out of the wait with 0 or ETIMEDOUT
  result,           \* what the last wait() of the thread returned
  signaled,         \* history: was the event signaled during this wait()?
  spurious          \* history: did this wait() wake up spuriously?

vars == <<m_initalized, m_state, m_manualReset, pc, result, signaled, spurious>>

Waiting == {t \in Threads : pc[t] # "idle"}

(* The fields are booleans, and only an initialized event has waiters.      *)
TypeOK ==
  /\ m_initalized \in BOOLEAN
  /\ m_state \in BOOLEAN
  /\ m_manualReset \in BOOLEAN
  /\ pc \in [Threads -> {"idle", "asleep", "woken", "timedout"}]
  /\ result \in [Threads -> BOOLEAN]
  /\ signaled \in [Threads -> BOOLEAN]
  /\ spurious \in [Threads -> BOOLEAN]
  /\ ~m_initalized => Waiting = {}

Init ==
  /\ m_initalized = FALSE
  /\ m_state = FALSE
  /\ m_manualReset = FALSE
  /\ pc = [t \in Threads |-> "idle"]
  /\ result = [t \in Threads |-> FALSE]
  /\ signaled = [t \in Threads |-> FALSE]
  /\ spurious = [t \in Threads |-> FALSE]

initialize(manualReset, initialState) ==
  /\ ~m_initalized
  /\ m_state' = initialState
  /\ m_manualReset' = manualReset
  /\ m_initalized' = TRUE
  /\ UNCHANGED <<pc, result, signaled, spurious>>

\* "There must not be threads currently waiting for the event"
terminate ==
  /\ m_initalized
  /\ Waiting = {}
  /\ m_initalized' = FALSE
  /\ UNCHANGED <<m_state, m_manualReset, pc, result, signaled, spurious>>

\* mutant: pthread_cond_signal in place of pthread_cond_broadcast
setSignal ==
  /\ m_initalized
  /\ m_state' = TRUE
  /\ signaled' = [t \in Threads |-> signaled[t] \/ t \in Waiting]
  /\ IF \A t \in Threads : pc[t] # "asleep"
       THEN UNCHANGED pc
       ELSE \E t \in Threads : pc[t] = "asleep" /\ pc' = [pc EXCEPT ![t] = "woken"]
  /\ UNCHANGED <<m_initalized, m_manualReset, result, spurious>>

setIfInitialized ==
  /\ m_initalized
  /\ m_state' = TRUE
  /\ pc' = [t \in Threads |-> IF pc[t] = "asleep" THEN "woken" ELSE pc[t]]
  /\ signaled' = [t \in Threads |-> signaled[t] \/ t \in Waiting]
  /\ UNCHANGED <<m_initalized, m_manualReset, result, spurious>>

reset ==
  /\ m_initalized
  /\ m_state' = FALSE
  /\ UNCHANGED <<m_initalized, m_manualReset, pc, result, signaled, spurious>>

\* if (result == 0 && !m_manualReset) m_state = false
AutoReset(rc) == m_state' = IF rc = 0 /\ ~m_manualReset THEN FALSE ELSE m_state

\* mutant: wait() sleeps without looking at m_state
WaitBlind(t) ==
  /\ pc[t] = "idle"
  /\ m_initalized
  /\ pc' = [pc EXCEPT ![t] = "asleep"]
  /\ signaled' = [signaled EXCEPT ![t] = m_state]
  /\ UNCHANGED <<m_initalized, m_state, m_manualReset, result, spurious>>

Wait(t) ==
  /\ pc[t] = "idle"
  /\ \/ /\ ~m_initalized
        /\ result' = [result EXCEPT ![t] = FALSE]
        /\ UNCHANGED <<m_initalized, m_state, m_manualReset, pc, signaled, spurious>>
     \/ /\ m_initalized
        /\ m_state
        /\ AutoReset(0)
        /\ result' = [result EXCEPT ![t] = TRUE]
        /\ UNCHANGED <<m_initalized, m_manualReset, pc, signaled, spurious>>
     \/ /\ m_initalized
        /\ ~m_state
        /\ pc' = [pc EXCEPT ![t] = "asleep"]
        /\ signaled' = [signaled EXCEPT ![t] = FALSE]
        /\ spurious' = [spurious EXCEPT ![t] = FALSE]
        /\ UNCHANGED <<m_initalized, m_state, m_manualReset, result>>

ETIMEDOUT == 110

\* mutant: every return of the wait counts as success
WaitReturnsTrue(t) ==
  /\ pc[t] \in {"woken", "timedout"}
  /\ AutoReset(0)
  /\ result' = [result EXCEPT ![t] = TRUE]
  /\ pc' = [pc EXCEPT ![t] = "idle"]
  /\ UNCHANGED <<m_initalized, m_manualReset, signaled, spurious>>

\* the mutex is held again; m_state is not looked at again
WaitReturns(t) ==
  LET rc == IF pc[t] = "timedout" THEN ETIMEDOUT ELSE 0
  IN  /\ pc[t] \in {"woken", "timedout"}
      /\ AutoReset(rc)
      /\ result' = [result EXCEPT ![t] = (rc = 0)]
      /\ pc' = [pc EXCEPT ![t] = "idle"]
      /\ UNCHANGED <<m_initalized, m_manualReset, signaled, spurious>>

\* a thread asleep in wait(Duration) may time out at any moment; nothing says that
\* it does, which also covers wait(), whose Duration.max never elapses
Timeout(t) ==
  /\ pc[t] = "asleep"
  /\ pc' = [pc EXCEPT ![t] = "timedout"]
  /\ UNCHANGED <<m_initalized, m_state, m_manualReset, result, signaled, spurious>>

\* pthread_cond_wait may return without a broadcast
SpuriousWakeup(t) ==
  /\ pc[t] = "asleep"
  /\ pc' = [pc EXCEPT ![t] = "woken"]
  /\ spurious' = [spurious EXCEPT ![t] = TRUE]
  /\ UNCHANGED <<m_initalized, m_state, m_manualReset, result, signaled>>

Next ==
  \/ \E manualReset, initialState \in BOOLEAN : initialize(manualReset, initialState)
  \/ terminate
  \/ setIfInitialized
  \/ reset
  \/ \E t \in Threads : Wait(t) \/ WaitReturns(t) \/ Timeout(t) \/ SpuriousWakeup(t)

Spec == Init /\ [][Next]_vars

(* A thread that is out of its wait gets the mutex back in the end.         *)
FairSpec == Spec /\ \A t \in Threads : WF_vars(WaitReturns(t))

-----------------------------------------------------------------------------
(* No signal is slept through: while the event is signaled nobody sleeps,   *)
(* and nobody is in a wait for an event that was terminated (TypeOK).       *)
NoSleepWhileSignaled ==
  /\ TypeOK
  /\ m_initalized /\ m_state => \A t \in Threads : pc[t] # "asleep"

(* wait() returns true ("true if the event is in signaled state") only when *)
(* the event was signaled at some point of the call, or pthread_cond_wait   *)
(* woke up by itself: the code tests m_state with if, not in a loop.        *)
TrueMeansWoken ==
  [][\A t \in Threads :
       pc[t] # "idle" /\ pc'[t] = "idle" /\ result'[t] => signaled[t] \/ spurious[t]]_vars

(* "so that waiting clients are resumed": whoever sleeps when the event is  *)
(* set returns from wait(), even if the event is reset, or consumed by      *)
(* another thread, before it runs.                                          *)
SetResumesSleepers ==
  \A t \in Threads : (signaled[t] /\ pc[t] # "idle") ~> pc[t] = "idle"
=============================================================================
