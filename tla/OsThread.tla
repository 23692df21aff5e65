------------------------------- MODULE OsThread -------------------------------
(***************************************************************************)
(* core.thread on Posix: the life of a Thread object, the global lists of  *)
(* threads and stack contexts behind slock, thread_suspendAll and          *)
(* thread_resumeAll with their signals and semaphore, and thread_joinAll.  *)
(*                                                                         *)
(* Code that runs under slock is one step when nothing it touches is used  *)
(* without the lock.  thread_suspendAll keeps slock until thread_resumeAll *)
(* and goes through the list one thread at a time, since a thread may end  *)
(* meanwhile.  The lists are sets: nothing here depends on their order.    *)
(***************************************************************************)
EXTENDS Naturals, FiniteSets

CONSTANTS
  Threads,           \* the Thread objects
  Main,              \* sm_main
  Foreign,           \* threads of C code that attach themselves
  Daemons,           \* threads with m_isDaemon set by the program
  CreateFails,       \* may the system refuse to create a thread?
  Terminates,        \* may a thread end by pthread_exit or cancellation?
  AttachAnytime,     \* may a thread attach before the program has started one?
  MaxDepth,          \* bound: calls of thread_suspendAll that are outstanding
  NoThread

ASSUME MainAssumption == Main \in Threads \ (Foreign \cup Daemons)
ASSUME ThreadsAssumption == IsFiniteSet(Threads) /\ NoThread \notin Threads
ASSUME SubsetsAssumption == Foreign \subseteq Threads /\ Daemons \subseteq Threads
ASSUME MaxDepthAssumption == MaxDepth \in Nat \ {0}

VARIABLES
  slock,             \* the owner of the recursive mutex
  slockCount,        \* how often it owns it
  sm_tbeg,           \* the global list of threads
  sm_cbeg,           \* the threads whose m_main is in the global context list
  pAboutToStart,
  m_isRunning,
  multiThreadedFlag,
  suspendDepth,
  suspendCount,      \* the semaphore
  pc,
  child,             \* of a thread in start(): the thread it starts
  wasThreaded,       \* local of start()
  level,             \* calls of thread_suspendAll the thread has not yet undone
  todo,              \* threads the loop of suspendAll or resumeAll has ahead of it
  cnt,               \* local of thread_suspendAll
  sigSuspend,        \* is a suspend signal pending for the thread?
  sigResume,         \* is a resume signal pending for the thread?
  inHandler,         \* is the thread in sigsuspend of thread_suspendHandler?
  tstack,            \* "top": the stack from here down is scanned; or "bottom"
  joining            \* the thread thread_joinAll waits for

lists == <<sm_tbeg, sm_cbeg, pAboutToStart, m_isRunning>>
lock == <<slock, slockCount>>
signals == <<sigSuspend, sigResume, inHandler>>
starts == <<child, wasThreaded>>
loops == <<level, todo, cnt>>
vars == <<lock, lists, multiThreadedFlag, suspendDepth, suspendCount, pc, starts, loops,
          signals, tstack, joining>>

Labels ==
  {"new", "failed", "spawned", "registered", "running", "removed", "dead", "cancelled",
   "gone", "attached", "attachedContext", "starting", "suspending", "waiting", "stopped",
   "resuming", "joinAll", "join", "joined", "threw", "terminated"}

(* The lists hold threads, and a list of contexts never outgrows the list   *)
(* of threads: a context is there only while its thread is.                 *)
TypeOK ==
  /\ slock \in Threads \cup {NoThread}
  /\ slockCount \in 0 .. MaxDepth
  /\ sm_tbeg \subseteq Threads
  /\ sm_cbeg \subseteq sm_tbeg
  /\ pAboutToStart \subseteq Threads \ sm_tbeg
  /\ m_isRunning \in [Threads -> BOOLEAN]
  /\ multiThreadedFlag \in BOOLEAN
  /\ suspendDepth \in 0 .. MaxDepth
  /\ suspendCount \in 0 .. Cardinality(Threads)
  /\ pc \in [Threads -> Labels]
  /\ child \in [Threads -> Threads \cup {NoThread}]
  /\ wasThreaded \in [Threads -> BOOLEAN]
  /\ level \in [Threads -> 0 .. MaxDepth]
  /\ todo \in [Threads -> SUBSET Threads]
  /\ cnt \in [Threads -> 0 .. Cardinality(Threads)]
  /\ sigSuspend \in [Threads -> BOOLEAN]
  /\ sigResume \in [Threads -> BOOLEAN]
  /\ inHandler \in [Threads -> BOOLEAN]
  /\ tstack \in [Threads -> {"top", "bottom"}]
  /\ joining \in Threads \cup {NoThread}

\* rt_init has run thread_init, which attached the main thread
Init ==
  /\ slock = NoThread
  /\ slockCount = 0
  /\ sm_tbeg = {Main}
  /\ sm_cbeg = {Main}
  /\ pAboutToStart = {}
  /\ m_isRunning = [t \in Threads |-> t = Main]
  /\ multiThreadedFlag = FALSE
  /\ suspendDepth = 0
  /\ suspendCount = 0
  /\ pc = [t \in Threads |-> IF t = Main THEN "running" ELSE "new"]
  /\ child = [t \in Threads |-> NoThread]
  /\ wasThreaded = [t \in Threads |-> FALSE]
  /\ level = [t \in Threads |-> 0]
  /\ todo = [t \in Threads |-> {}]
  /\ cnt = [t \in Threads |-> 0]
  /\ sigSuspend = [t \in Threads |-> FALSE]
  /\ sigResume = [t \in Threads |-> FALSE]
  /\ inHandler = [t \in Threads |-> FALSE]
  /\ tstack = [t \in Threads |-> "bottom"]
  /\ joining = NoThread

\* thread t executes at label l
At(t, l) == pc[t] = l /\ ~inHandler[t]
Goto(t, l) == pc' = [pc EXCEPT ![t] = l]
SlockFree == slock = NoThread

-----------------------------------------------------------------------------
(* Thread.start()                                                           *)

StartBegin(t, u) ==
  /\ At(t, "running")
  /\ pc[u] = "new"
  /\ u \notin Foreign
  /\ \A s \in Threads : child[s] # u
  /\ child' = [child EXCEPT ![t] = u]
  /\ wasThreaded' = [wasThreaded EXCEPT ![t] = multiThreadedFlag]
  /\ multiThreadedFlag' = TRUE
  /\ Goto(t, "starting")
  /\ UNCHANGED <<lock, lists, suspendDepth, suspendCount, loops, signals, tstack, joining>>

StartCreate(t) ==
  LET u == child[t]
  IN  /\ At(t, "starting")
      /\ SlockFree
      /\ pAboutToStart' = pAboutToStart \cup {u}
      /\ m_isRunning' = [m_isRunning EXCEPT ![u] = TRUE]
      /\ pc' = [pc EXCEPT ![t] = "running", ![u] = "spawned"]
      /\ child' = [child EXCEPT ![t] = NoThread]
      /\ UNCHANGED <<lock, sm_tbeg, sm_cbeg, multiThreadedFlag, suspendDepth, suspendCount,
                     wasThreaded, loops, signals, tstack, joining>>

\* the attributes cannot be set up, or pthread_create fails with slock held:
\* scope(failure) undoes m_isRunning and the flag, nothing undoes incrementAboutToStart
StartFail(t) ==
  LET u == child[t]
  IN  /\ CreateFails
      /\ At(t, "starting")
      /\ \/ UNCHANGED pAboutToStart
         \/ SlockFree /\ pAboutToStart' = pAboutToStart \cup {u}
      /\ multiThreadedFlag' = (wasThreaded[t] /\ multiThreadedFlag)
      /\ pc' = [pc EXCEPT ![t] = "running", ![u] = "failed"]
      /\ child' = [child EXCEPT ![t] = NoThread]
      /\ UNCHANGED <<lock, sm_tbeg, sm_cbeg, m_isRunning, suspendDepth, suspendCount,
                     wasThreaded, loops, signals, tstack, joining>>

-----------------------------------------------------------------------------
(* thread_entryPoint, in the new thread.                                    *)

\* mutant: the entry in pAboutToStart stays
RegisterKeepsEntry(u) ==
  /\ At(u, "spawned")
  /\ SlockFree
  /\ sm_tbeg' = sm_tbeg \cup {u}
  /\ Goto(u, "registered")
  /\ UNCHANGED <<lock, pAboutToStart, sm_cbeg, m_isRunning, multiThreadedFlag, suspendDepth,
                 suspendCount, starts, loops, signals, tstack, joining>>

\* Thread.registerThis: from here on the thread gets signals
Register(u) ==
  /\ At(u, "spawned")
  /\ SlockFree
  /\ pAboutToStart' = pAboutToStart \ {u}
  /\ sm_tbeg' = sm_tbeg \cup {u}
  /\ Goto(u, "registered")
  /\ UNCHANGED <<lock, sm_cbeg, m_isRunning, multiThreadedFlag, suspendDepth, suspendCount,
                 starts, loops, signals, tstack, joining>>

\* Thread.add(&obj.m_main), then the thread's function
AddContext(u) ==
  /\ At(u, "registered")
  /\ SlockFree
  /\ sm_cbeg' = sm_cbeg \cup {u}
  /\ Goto(u, "running")
  /\ UNCHANGED <<lock, sm_tbeg, pAboutToStart, m_isRunning, multiThreadedFlag, suspendDepth,
                 suspendCount, starts, loops, signals, tstack, joining>>

\* the function has returned or thrown: Thread.remove(obj).  An attached thread
\* gets here by thread_detachThis.
Remove(u) ==
  /\ At(u, "running")
  /\ u # Main
  /\ SlockFree
  /\ sm_tbeg' = sm_tbeg \ {u}
  /\ sm_cbeg' = sm_cbeg \ {u}
  /\ Goto(u, IF u \in Foreign THEN "dead" ELSE "removed")
  /\ UNCHANGED <<lock, pAboutToStart, m_isRunning, multiThreadedFlag, suspendDepth,
                 suspendCount, starts, loops, signals, tstack, joining>>

\* m_isRunning = false, destroyDataStorage, and the thread ends
Finish(u) ==
  /\ At(u, "removed")
  /\ m_isRunning' = [m_isRunning EXCEPT ![u] = FALSE]
  /\ Goto(u, "dead")
  /\ UNCHANGED <<lock, sm_tbeg, sm_cbeg, pAboutToStart, multiThreadedFlag, suspendDepth,
                 suspendCount, starts, loops, signals, tstack, joining>>

\* thread_cleanupHandler: "let thread_suspendAll remove it from the thread list"
Terminate(u) ==
  /\ Terminates
  /\ At(u, "running")
  /\ u \notin Foreign \cup {Main}
  /\ m_isRunning' = [m_isRunning EXCEPT ![u] = FALSE]
  /\ Goto(u, "cancelled")
  /\ UNCHANGED <<lock, sm_tbeg, sm_cbeg, pAboutToStart, multiThreadedFlag, suspendDepth,
                 suspendCount, starts, loops, signals, tstack, joining>>

\* the system's thread ends; a signal it has not taken is lost
Gone(u) ==
  /\ At(u, "cancelled")
  /\ sigSuspend' = [sigSuspend EXCEPT ![u] = FALSE]
  /\ Goto(u, "gone")
  /\ UNCHANGED <<lock, lists, multiThreadedFlag, suspendDepth, suspendCount, starts, loops,
                 sigResume, inHandler, tstack, joining>>

-----------------------------------------------------------------------------
(* thread_attachThis, in a thread of C code.                                *)

\* the program has started a thread of its own
Threaded == \E t \in Threads \ (Foreign \cup {Main}) : pc[t] \notin {"new", "failed"}

AttachAdd(u) ==
  /\ u \in Foreign
  /\ At(u, "new")
  /\ AttachAnytime \/ Threaded
  /\ SlockFree
  /\ m_isRunning' = [m_isRunning EXCEPT ![u] = TRUE]
  /\ sm_tbeg' = sm_tbeg \cup {u}
  /\ Goto(u, "attached")
  /\ UNCHANGED <<lock, sm_cbeg, pAboutToStart, multiThreadedFlag, suspendDepth, suspendCount,
                 starts, loops, signals, tstack, joining>>

AttachContext(u) ==
  /\ At(u, "attached")
  /\ SlockFree
  /\ sm_cbeg' = sm_cbeg \cup {u}
  /\ Goto(u, "attachedContext")
  /\ UNCHANGED <<lock, sm_tbeg, pAboutToStart, m_isRunning, multiThreadedFlag, suspendDepth,
                 suspendCount, starts, loops, signals, tstack, joining>>

AttachFlag(u) ==
  /\ At(u, "attachedContext")
  /\ multiThreadedFlag' = TRUE
  /\ Goto(u, "running")
  /\ UNCHANGED <<lock, lists, suspendDepth, suspendCount, starts, loops, signals, tstack,
                 joining>>

-----------------------------------------------------------------------------
(* thread_suspendAll                                                        *)

\* with one thread there is nothing to lock and nobody to stop
SuspendAllAlone(c) ==
  /\ At(c, "running") \/ At(c, "stopped")
  /\ suspendDepth < MaxDepth
  /\ ~multiThreadedFlag
  /\ suspendDepth' = suspendDepth + 1
  /\ tstack' = IF suspendDepth = 0 THEN [tstack EXCEPT ![c] = "top"] ELSE tstack
  /\ level' = [level EXCEPT ![c] = @ + 1]
  /\ Goto(c, "stopped")
  /\ UNCHANGED <<lock, lists, multiThreadedFlag, suspendCount, starts, todo, cnt, signals,
                 joining>>

\* mutant: slock is not taken
SuspendAllNoLock(c) ==
  /\ At(c, "running") \/ At(c, "stopped")
  /\ suspendDepth < MaxDepth
  /\ suspendDepth' = suspendDepth + 1
  /\ level' = [level EXCEPT ![c] = @ + 1]
  /\ IF suspendDepth > 0
       THEN Goto(c, "stopped") /\ UNCHANGED <<todo, cnt>>
       ELSE /\ todo' = [todo EXCEPT ![c] = sm_tbeg]
            /\ cnt' = [cnt EXCEPT ![c] = 0]
            /\ Goto(c, "suspending")
  /\ UNCHANGED <<lock, lists, multiThreadedFlag, suspendCount, starts, signals, tstack,
                 joining>>

SuspendAll(c) ==
  /\ At(c, "running") \/ At(c, "stopped")
  /\ suspendDepth < MaxDepth
  /\ multiThreadedFlag
  /\ slock \in {NoThread, c}
  /\ slock' = c
  /\ slockCount' = slockCount + 1
  /\ suspendDepth' = suspendDepth + 1
  /\ level' = [level EXCEPT ![c] = @ + 1]
  /\ IF suspendDepth > 0
       THEN Goto(c, "stopped") /\ UNCHANGED <<todo, cnt>>
       ELSE /\ todo' = [todo EXCEPT ![c] = sm_tbeg]
            /\ cnt' = [cnt EXCEPT ![c] = 0]
            /\ Goto(c, "suspending")
  /\ UNCHANGED <<lists, multiThreadedFlag, suspendCount, starts, signals, tstack, joining>>

\* mutant: the caller waits for itself, too
SuspendCountsSelf(c, t) ==
  /\ At(c, "suspending")
  /\ t \in todo[c]
  /\ todo' = [todo EXCEPT ![c] = @ \ {t}]
  /\ IF todo[c] = {t} THEN Goto(c, "waiting") ELSE UNCHANGED pc
  /\ cnt' = [cnt EXCEPT ![c] = @ + 1]
  /\ tstack' = IF t = c THEN [tstack EXCEPT ![c] = "top"] ELSE tstack
  /\ sigSuspend' = IF t = c THEN sigSuspend ELSE [sigSuspend EXCEPT ![t] = TRUE]
  /\ UNCHANGED <<lock, lists, multiThreadedFlag, suspendDepth, suspendCount, starts, level,
                 sigResume, inHandler, joining>>

\* suspend(t): what the loop does for one thread.  suspendedSelf takes the caller
\* out of the count again.  pthread_kill may or may not tell that a thread has ended.
Suspend(c, t) ==
  /\ At(c, "suspending")
  /\ t \in todo[c]
  /\ todo' = [todo EXCEPT ![c] = @ \ {t}]
  /\ IF todo[c] = {t} THEN Goto(c, "waiting") ELSE UNCHANGED pc
  /\ \/ /\ t = c
        /\ tstack' = [tstack EXCEPT ![c] = "top"]
        /\ UNCHANGED <<sm_tbeg, sm_cbeg, cnt, sigSuspend>>
     \/ /\ t # c
        /\ cnt' = [cnt EXCEPT ![c] = @ + 1]
        /\ sigSuspend' = [sigSuspend EXCEPT ![t] = pc[t] # "gone"]
        /\ UNCHANGED <<sm_tbeg, sm_cbeg, tstack>>
     \/ /\ pc[t] = "gone"
        /\ sm_tbeg' = sm_tbeg \ {t}
        /\ sm_cbeg' = sm_cbeg \ {t}
        /\ UNCHANGED <<cnt, sigSuspend, tstack>>
  /\ UNCHANGED <<lock, pAboutToStart, m_isRunning, multiThreadedFlag, suspendDepth,
                 suspendCount, starts, level, sigResume, inHandler, joining>>

\* mutant: the caller does not wait for the last thread
SemWaitOneShort(c) ==
  /\ At(c, "waiting")
  /\ IF cnt[c] <= 1
       THEN Goto(c, "stopped") /\ UNCHANGED <<cnt, suspendCount>>
       ELSE /\ suspendCount > 0
            /\ suspendCount' = suspendCount - 1
            /\ cnt' = [cnt EXCEPT ![c] = @ - 1]
            /\ UNCHANGED pc
  /\ UNCHANGED <<lock, lists, multiThreadedFlag, suspendDepth, starts, level, todo, signals,
                 tstack, joining>>

\* one sem_wait per signal sent
SemWait(c) ==
  /\ At(c, "waiting")
  /\ IF cnt[c] = 0
       THEN Goto(c, "stopped") /\ UNCHANGED <<cnt, suspendCount>>
       ELSE /\ suspendCount > 0
            /\ suspendCount' = suspendCount - 1
            /\ cnt' = [cnt EXCEPT ![c] = @ - 1]
            /\ UNCHANGED pc
  /\ UNCHANGED <<lock, lists, multiThreadedFlag, suspendDepth, starts, level, todo, signals,
                 tstack, joining>>

-----------------------------------------------------------------------------
(* thread_resumeAll                                                         *)

Undone(c) == IF level[c] > 1 THEN "stopped" ELSE "running"

ResumeAllAlone(c) ==
  /\ At(c, "stopped")
  /\ ~multiThreadedFlag
  /\ suspendDepth' = suspendDepth - 1
  /\ tstack' = IF suspendDepth = 1 THEN [tstack EXCEPT ![c] = "bottom"] ELSE tstack
  /\ level' = [level EXCEPT ![c] = @ - 1]
  /\ Goto(c, Undone(c))
  /\ UNCHANGED <<lock, lists, multiThreadedFlag, suspendCount, starts, todo, cnt, signals,
                 joining>>

\* slock.unlock() of a recursive mutex; of one it does not own, it has no effect
Unlock(c) ==
  IF slock = c
    THEN /\ slockCount' = slockCount - 1
         /\ slock' = IF slockCount = 1 THEN NoThread ELSE c
    ELSE UNCHANGED lock

\* an inner call is undone
ResumeAllInner(c) ==
  /\ At(c, "stopped")
  /\ multiThreadedFlag
  /\ suspendDepth > 1
  /\ suspendDepth' = suspendDepth - 1
  /\ level' = [level EXCEPT ![c] = @ - 1]
  /\ Goto(c, Undone(c))
  /\ Unlock(c)
  /\ UNCHANGED <<lists, multiThreadedFlag, suspendCount, starts, todo, cnt, signals, tstack,
                 joining>>

\* mutant: the threads are taken from the list of contexts
ResumeAllContexts(c) ==
  /\ At(c, "stopped")
  /\ multiThreadedFlag
  /\ suspendDepth = 1
  /\ suspendDepth' = 0
  /\ level' = [level EXCEPT ![c] = @ - 1]
  /\ todo' = [todo EXCEPT ![c] = sm_cbeg]
  /\ Goto(c, "resuming")
  /\ UNCHANGED <<lock, lists, multiThreadedFlag, suspendCount, starts, cnt, signals, tstack,
                 joining>>

ResumeAll(c) ==
  /\ At(c, "stopped")
  /\ multiThreadedFlag
  /\ suspendDepth = 1
  /\ suspendDepth' = 0
  /\ level' = [level EXCEPT ![c] = @ - 1]
  /\ todo' = [todo EXCEPT ![c] = sm_tbeg]
  /\ Goto(c, "resuming")
  /\ UNCHANGED <<lock, lists, multiThreadedFlag, suspendCount, starts, cnt, signals, tstack,
                 joining>>

\* resume(t); after the last one slock is released
Resume(c, t) ==
  /\ At(c, "resuming")
  /\ t \in todo[c]
  /\ todo' = [todo EXCEPT ![c] = @ \ {t}]
  /\ IF t = c
       THEN tstack' = [tstack EXCEPT ![c] = "bottom"] /\ UNCHANGED sigResume
       ELSE sigResume' = [sigResume EXCEPT ![t] = TRUE] /\ UNCHANGED tstack
  /\ IF todo[c] = {t}
       THEN Unlock(c) /\ Goto(c, "running")
       ELSE UNCHANGED <<lock, pc>>
  /\ UNCHANGED <<lists, multiThreadedFlag, suspendDepth, suspendCount, starts, level, cnt,
                 sigSuspend, inHandler, joining>>

-----------------------------------------------------------------------------
(* The signal handlers.  All signals are blocked in them, save for the      *)
(* resume signal in sigsuspend.                                             *)

\* mutant: the semaphore is posted before the stack top is stored, by a
\* handler that is then scheduled away
SuspendHandlerEarly(t) ==
  /\ sigSuspend[t]
  /\ ~inHandler[t]
  /\ sigSuspend' = [sigSuspend EXCEPT ![t] = FALSE]
  /\ inHandler' = [inHandler EXCEPT ![t] = TRUE]
  /\ suspendCount' = suspendCount + 1
  /\ UNCHANGED <<lock, lists, multiThreadedFlag, suspendDepth, pc, starts, loops, sigResume,
                 tstack, joining>>

thread_suspendHandler(t) ==
  /\ sigSuspend[t]
  /\ ~inHandler[t]
  /\ sigSuspend' = [sigSuspend EXCEPT ![t] = FALSE]
  /\ inHandler' = [inHandler EXCEPT ![t] = TRUE]
  /\ tstack' = [tstack EXCEPT ![t] = "top"]
  /\ suspendCount' = suspendCount + 1
  /\ UNCHANGED <<lock, lists, multiThreadedFlag, suspendDepth, pc, starts, loops, sigResume,
                 joining>>

\* out of sigsuspend and of the suspend handler
thread_resumeHandler(t) ==
  /\ sigResume[t]
  /\ sigResume' = [sigResume EXCEPT ![t] = FALSE]
  /\ inHandler' = [inHandler EXCEPT ![t] = FALSE]
  /\ tstack' = [tstack EXCEPT ![t] = "bottom"]
  /\ UNCHANGED <<lock, lists, multiThreadedFlag, suspendDepth, suspendCount, pc, starts, loops,
                 sigSuspend, joining>>

-----------------------------------------------------------------------------
(* thread_joinAll and thread_term, in the main thread.                      *)

JoinAllBegin ==
  /\ At(Main, "running")
  /\ Goto(Main, "joinAll")
  /\ UNCHANGED <<lock, lists, multiThreadedFlag, suspendDepth, suspendCount, starts, loops,
                 signals, tstack, joining>>

isDaemon(t) == t \in Daemons \cup Foreign \cup {Main}
NotRunning == {t \in sm_tbeg : ~m_isRunning[t]}
Joinable == {t \in sm_tbeg : m_isRunning[t] /\ ~isDaemon(t)}

\* mutant: just spawned threads are not waited for
JoinAllScanEager ==
  /\ At(Main, "joinAll")
  /\ SlockFree
  /\ Joinable = {}
  /\ sm_tbeg' = sm_tbeg \ NotRunning
  /\ sm_cbeg' = sm_cbeg \ NotRunning
  /\ Goto(Main, "joined")
  /\ UNCHANGED <<lock, pAboutToStart, m_isRunning, multiThreadedFlag, suspendDepth,
                 suspendCount, starts, loops, signals, tstack, joining>>

\* a scan that meets daemon threads only
JoinAllScan ==
  /\ At(Main, "joinAll")
  /\ SlockFree
  /\ pAboutToStart = {}
  /\ Joinable = {}
  /\ sm_tbeg' = sm_tbeg \ NotRunning
  /\ sm_cbeg' = sm_cbeg \ NotRunning
  /\ Goto(Main, "joined")
  /\ UNCHANGED <<lock, pAboutToStart, m_isRunning, multiThreadedFlag, suspendDepth,
                 suspendCount, starts, loops, signals, tstack, joining>>

\* a scan that meets a thread to join, having removed the ended ones before it
JoinAllMeets(t, ended) ==
  /\ At(Main, "joinAll")
  /\ SlockFree
  /\ pAboutToStart = {}
  /\ t \in Joinable
  /\ ended \subseteq NotRunning
  /\ sm_tbeg' = sm_tbeg \ ended
  /\ sm_cbeg' = sm_cbeg \ ended
  /\ joining' = t
  /\ Goto(Main, "join")
  /\ UNCHANGED <<lock, pAboutToStart, m_isRunning, multiThreadedFlag, suspendDepth,
                 suspendCount, starts, loops, signals, tstack>>

\* t.join() has pthread_join'ed the thread; it rethrows what the thread threw
Joined(rethrow) ==
  /\ At(Main, "join")
  /\ pc[joining] \in {"dead", "gone"}
  /\ m_isRunning' = [m_isRunning EXCEPT ![joining] = FALSE]
  /\ joining' = NoThread
  /\ Goto(Main, IF rethrow THEN "threw" ELSE "joinAll")
  /\ UNCHANGED <<lock, sm_tbeg, sm_cbeg, pAboutToStart, multiThreadedFlag, suspendDepth,
                 suspendCount, starts, loops, signals, tstack>>

\* rt_term goes on to thread_term; the process ends
thread_term ==
  /\ At(Main, "joined")
  /\ Goto(Main, "terminated")
  /\ UNCHANGED <<lock, lists, multiThreadedFlag, suspendDepth, suspendCount, starts, loops,
                 signals, tstack, joining>>

-----------------------------------------------------------------------------
\* steps a thread takes by itself once it has begun
Step(t) ==
  \/ StartCreate(t) \/ Register(t) \/ AddContext(t) \/ Finish(t) \/ Gone(t)
  \/ AttachContext(t) \/ AttachFlag(t)
  \/ \E u \in Threads : Suspend(t, u) \/ Resume(t, u)
  \/ SemWait(t)
  \/ ResumeAllAlone(t) \/ ResumeAllInner(t) \/ ResumeAll(t)

MainStep ==
  \/ JoinAllScan
  \/ \E t \in Threads, ended \in SUBSET Threads : JoinAllMeets(t, ended)
  \/ \E rethrow \in BOOLEAN : Joined(rethrow)
  \/ thread_term

Handlers(t) == thread_suspendHandler(t) \/ thread_resumeHandler(t)

Live == pc[Main] \notin {"terminated", "threw"}

Next ==
  /\ Live
  /\ \/ \E t, u \in Threads : StartBegin(t, u) \/ Suspend(t, u) \/ Resume(t, u)
     \/ \E t \in Threads :
          \/ StartCreate(t) \/ StartFail(t) \/ Register(t) \/ AddContext(t)
          \/ Remove(t) \/ Finish(t) \/ Terminate(t) \/ Gone(t)
          \/ AttachAdd(t) \/ AttachContext(t) \/ AttachFlag(t)
          \/ SuspendAllAlone(t) \/ SuspendAll(t) \/ SemWait(t)
          \/ ResumeAllAlone(t) \/ ResumeAllInner(t) \/ ResumeAll(t)
          \/ thread_suspendHandler(t) \/ thread_resumeHandler(t)
     \/ JoinAllBegin \/ JoinAllScan \/ thread_term
     \/ \E t \in Threads, ended \in SUBSET Threads : JoinAllMeets(t, ended)
     \/ \E rethrow \in BOOLEAN : Joined(rethrow)

Spec == Init /\ [][Next]_vars

(* Threads run, slock is handed on, signals are delivered, who stopped the  *)
(* world resumes it, and the function of a thread that is not a daemon      *)
(* ends.  Nobody has to start, collect, attach or end the program.          *)
Fairness ==
  /\ \A t \in Threads : SF_vars(Live /\ Step(t)) /\ SF_vars(Live /\ ResumeAll(t))
  /\ \A t \in Threads : WF_vars(Live /\ Handlers(t))
  /\ \A t \in Threads \ Daemons : SF_vars(Live /\ Remove(t))
  /\ SF_vars(Live /\ MainStep)

FairSpec == Spec /\ Fairness

-----------------------------------------------------------------------------
(* Stop the world: once thread_suspendAll has returned, every other thread  *)
(* of the list is in its suspend handler, and stays there until this caller *)
(* resumes it.                                                              *)
WorldStopped ==
  \A c \in Threads : pc[c] = "stopped" =>
    \A t \in sm_tbeg \ {c} : inHandler[t] /\ ~sigResume[t]

(* What the collector then scans includes the stack of every thread that    *)
(* executes D code, from its current top.                                   *)
HasFrames == {t \in Threads : pc[t] \notin {"new", "failed", "spawned", "registered",
                "attached", "attachedContext", "removed", "dead", "cancelled", "gone"}}
StacksScanned ==
  \A c \in Threads : pc[c] = "stopped" =>
    \A t \in HasFrames : t \in sm_cbeg /\ tstack[t] = "top"

(* The semaphore and the suspend signals of one collection never leak into  *)
(* the next: between collections none is left.                              *)
NoStrayTokens ==
  (\A c \in Threads : pc[c] \notin {"suspending", "waiting"}) =>
    /\ suspendCount = 0
    /\ \A t \in Threads : ~sigSuspend[t]

(* The assertion of ThreadBase.add: nothing is added to the lists during a  *)
(* collection (suspendDepth "must be 0 b/c it's only set with slock held"). *)
AddNotWhileSuspended ==
  [][~(sm_tbeg' \subseteq sm_tbeg /\ sm_cbeg' \subseteq sm_cbeg) => suspendDepth = 0]_vars

(* thread_suspendAll returns, whatever the other threads do meanwhile (or   *)
(* the process ends).                                                       *)
SuspendAllReturns ==
  \A c \in Threads : pc[c] \in {"suspending", "waiting"} ~> pc[c] = "stopped" \/ ~Live

(* Every suspended thread is resumed (or the process ends).                 *)
SuspendedResumes == \A t \in Threads : inHandler[t] ~> ~inHandler[t] \/ ~Live

(* When thread_joinAll returns, no thread that is not a daemon is left that *)
(* was started and has not run to its end, whoever started it.              *)
JoinAllComplete ==
  [][pc[Main] = "joinAll" /\ pc'[Main] = "joined" =>
       \A t \in Threads : ~isDaemon(t) =>
         pc[t] \in {"new", "failed", "removed", "dead", "cancelled", "gone"}]_vars

(* thread_joinAll returns, as the threads it waits for end, unless daemons  *)
(* keep stopping the world without a pause for ever.                        *)
Collecting == \E c \in Threads : level[c] > 0 \/ pc[c] = "resuming"
JoinAllReturns ==
  <>[]~Collecting => (pc[Main] = "joinAll" ~> pc[Main] \in {"joined", "terminated", "threw"})
=============================================================================
