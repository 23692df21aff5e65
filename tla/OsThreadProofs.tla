---------------------------- MODULE OsThreadProofs ----------------------------
(***************************************************************************)
(* Proofs for OsThread: the world is stopped when thread_suspendAll has    *)
(* returned, and thread_joinAll leaves nobody out.                         *)
(*                                                                         *)
(* The invariant is built in four layers, each inductive given the ones    *)
(* before it: which lists a thread is on (LInv, without any assumption),   *)
(* when multiThreadedFlag is set (Flagged), who holds slock and how often  *)
(* (Locked), and what is known of each signal, handler and count while the *)
(* holder goes through the list (SInv).  All but the first assume that a   *)
(* thread of C code attaches itself only once the program has started a    *)
(* thread: multiThreadedFlag is what makes the others take slock.          *)
(***************************************************************************)
EXTENDS OsThread, FiniteSetTheorems, TLAPS

(* The labels of a thread that is on no list: it has not got there yet, or  *)
(* has taken itself off.                                                    *)
Unlisted == {"new", "failed", "spawned", "removed", "dead"}
\* the labels of a thread that was terminated: someone else takes it off the lists
Ending == {"cancelled", "gone"}
MainLabels == {"joinAll", "join", "joined", "threw", "terminated"}

-----------------------------------------------------------------------------
(* Which lists a thread is on, by where it is in its life.                  *)
ListTypes ==
  /\ sm_tbeg \subseteq Threads
  /\ sm_cbeg \subseteq sm_tbeg
  /\ pAboutToStart \subseteq Threads
  /\ m_isRunning \in [Threads -> BOOLEAN]
  /\ pc \in [Threads -> Labels]
  /\ child \in [Threads -> Threads \cup {NoThread}]
  /\ joining \in Threads \cup {NoThread}

Listed ==
  /\ \A t \in Threads : pc[t] \notin Unlisted \cup Ending => t \in sm_tbeg /\ m_isRunning[t]
  /\ \A t \in sm_tbeg : pc[t] \notin Unlisted
  /\ \A t \in Threads : pc[t] \notin Unlisted \cup Ending \cup {"registered", "attached"}
                          => t \in sm_cbeg
  /\ \A t \in Threads : pc[t] = "spawned" => t \in pAboutToStart /\ m_isRunning[t]
  /\ \A t \in pAboutToStart : pc[t] \in {"spawned", "failed"}
  /\ pc[Main] \notin Unlisted \cup Ending \cup {"registered", "attached", "attachedContext"}
  /\ \A t \in Threads : pc[t] \in MainLabels => t = Main
  /\ pc[Main] = "join" => joining \in Threads

\* start() works on a thread of its own that nobody else starts
Starting ==
  /\ \A t \in Threads : pc[t] = "starting" => child[t] \in Threads \ Foreign /\ pc[child[t]] = "new"
  /\ \A t \in Threads : pc[t] # "starting" => child[t] = NoThread
  /\ \A t, u \in Threads : child[t] = child[u] /\ child[t] # NoThread => t = u

LInv == ListTypes /\ Listed /\ Starting

\* At the start the lists hold the main thread.
LEMMA ListsInit == Init => LInv
<1> SUFFICES ASSUME Init PROVE LInv
  BY Zenon
<1> USE MainAssumption, ThreadsAssumption
<1>1. pc[Main] = "running" /\ \A t \in Threads \ {Main} : pc[t] = "new"
  BY Zenon DEF Init
<1>2. ListTypes
  BY Zenon DEF Init, ListTypes, Labels
<1>3. Listed
  BY <1>1, Zenon DEF Init, Listed, Unlisted, Ending, MainLabels
<1>4. Starting
  BY <1>1, Zenon DEF Init, Starting
<1> QED
  BY <1>2, <1>3, <1>4, Zenon DEF LInv

\* Every step keeps the lists right.
LEMMA ListsStep == LInv /\ [Next]_vars => LInv'
<1> SUFFICES ASSUME LInv, [Next]_vars PROVE LInv'
  BY Zenon
<1> USE MainAssumption, ThreadsAssumption
    DEF LInv, ListTypes, Listed, Starting, Unlisted, Ending, MainLabels, Labels, lists, starts, Goto, At
<1>1. ASSUME NEW t \in Threads, NEW u \in Threads, StartBegin(t, u) PROVE LInv'
  BY <1>1 DEF StartBegin
<1>2. ASSUME NEW t \in Threads, StartCreate(t) PROVE LInv'
  BY <1>2 DEF StartCreate
<1>3. ASSUME NEW t \in Threads, StartFail(t) PROVE LInv'
  BY <1>3 DEF StartFail
<1>4. ASSUME NEW t \in Threads, Register(t) PROVE LInv'
  BY <1>4 DEF Register
<1>5. ASSUME NEW t \in Threads, AddContext(t) PROVE LInv'
  BY <1>5 DEF AddContext
<1>6. ASSUME NEW t \in Threads, Remove(t) PROVE LInv'
  BY <1>6 DEF Remove
<1>7. ASSUME NEW t \in Threads, Finish(t) PROVE LInv'
  BY <1>7 DEF Finish
<1>8. ASSUME NEW t \in Threads, Terminate(t) PROVE LInv'
  BY <1>8 DEF Terminate
<1>9. ASSUME NEW t \in Threads, Gone(t) PROVE LInv'
  BY <1>9 DEF Gone
<1>10. ASSUME NEW t \in Threads, AttachAdd(t) PROVE LInv'
  BY <1>10 DEF AttachAdd
<1>11. ASSUME NEW t \in Threads, AttachContext(t) PROVE LInv'
  BY <1>11 DEF AttachContext
<1>12. ASSUME NEW t \in Threads, AttachFlag(t) PROVE LInv'
  BY <1>12 DEF AttachFlag
<1>13. ASSUME NEW t \in Threads, SuspendAllAlone(t) PROVE LInv'
  BY <1>13 DEF SuspendAllAlone
<1>14. ASSUME NEW t \in Threads, SuspendAll(t) PROVE LInv'
  BY <1>14 DEF SuspendAll
<1>15. ASSUME NEW t \in Threads, NEW u \in Threads, Suspend(t, u) PROVE LInv'
  BY <1>15 DEF Suspend
<1>16. ASSUME NEW t \in Threads, SemWait(t) PROVE LInv'
  BY <1>16 DEF SemWait
<1>17. ASSUME NEW t \in Threads, ResumeAllAlone(t) \/ ResumeAllInner(t) \/ ResumeAll(t) PROVE LInv'
  BY <1>17 DEF ResumeAllAlone, ResumeAllInner, ResumeAll, Undone
<1>18. ASSUME NEW t \in Threads, NEW u \in Threads, Resume(t, u) PROVE LInv'
  BY <1>18 DEF Resume
<1>19. ASSUME NEW t \in Threads, thread_suspendHandler(t) \/ thread_resumeHandler(t) PROVE LInv'
  BY <1>19 DEF thread_suspendHandler, thread_resumeHandler
<1>20. CASE JoinAllBegin \/ thread_term
  BY <1>20 DEF JoinAllBegin, thread_term
<1>21. CASE JoinAllScan
  BY <1>21 DEF JoinAllScan, NotRunning
<1>22. ASSUME NEW t \in Threads, NEW ended \in SUBSET Threads, JoinAllMeets(t, ended) PROVE LInv'
  BY <1>22 DEF JoinAllMeets, NotRunning
<1>23. ASSUME NEW rethrow \in BOOLEAN, Joined(rethrow) PROVE LInv'
  BY <1>23 DEF Joined
<1>24. CASE UNCHANGED vars
  BY <1>24 DEF vars
<1> HIDE DEF LInv
<1> QED
  BY <1>1, <1>2, <1>3, <1>4, <1>5, <1>6, <1>7, <1>8, <1>9, <1>10, <1>11, <1>12, <1>13, <1>14,
     <1>15, <1>16, <1>17, <1>18, <1>19, <1>20, <1>21, <1>22, <1>23, <1>24, Zenon DEF Next

-----------------------------------------------------------------------------
(* Who has called thread_suspendAll and not yet finished thread_resumeAll,  *)
(* and which threads there are besides the main one.                        *)
Holding == {"suspending", "waiting", "stopped", "resuming"}
Stopping == {"suspending", "waiting", "stopped"}
Others == {t \in Threads \ {Main} : pc[t] \notin {"new", "failed"}}

\* with another thread about, or being started, multiThreadedFlag is set
Flagged ==
  /\ multiThreadedFlag \in BOOLEAN
  /\ wasThreaded \in [Threads -> BOOLEAN]
  /\ \A t \in Threads : pc[t] = "starting" => multiThreadedFlag
  /\ Others # {} => multiThreadedFlag
  /\ Others # {} => \A t \in Threads : pc[t] = "starting" => wasThreaded[t]

LockTypes ==
  /\ slock \in Threads \cup {NoThread}
  /\ slockCount \in 0 .. MaxDepth
  /\ suspendDepth \in 0 .. MaxDepth
  /\ level \in [Threads -> 0 .. MaxDepth]

\* slock belongs to the thread that stops the world, unless that one is alone
Locked ==
  /\ slock = NoThread => slockCount = 0
  /\ slock # NoThread => multiThreadedFlag /\ pc[slock] \in Holding
  /\ slock # NoThread => slockCount = IF pc[slock] = "resuming" THEN 1 ELSE level[slock]
  /\ \A c \in Threads : pc[c] \in Holding =>
       slock = c \/ (c = Main /\ pc[c] = "stopped" /\ ~multiThreadedFlag)
  /\ \A c \in Threads : pc[c] \in Stopping => level[c] = suspendDepth /\ suspendDepth > 0
  /\ \A c \in Threads : pc[c] \notin Stopping => level[c] = 0
  /\ \A c \in Threads : pc[c] \in {"suspending", "waiting"} => suspendDepth = 1
  /\ (\A c \in Threads : pc[c] \notin Stopping) => suspendDepth = 0

\* At the start the main thread is alone.
LEMMA FlagInit == Init => Flagged
<1> SUFFICES ASSUME Init PROVE Flagged
  OBVIOUS
<1>1. multiThreadedFlag \in BOOLEAN /\ wasThreaded \in [Threads -> BOOLEAN]
  BY Zenon DEF Init
<1>2. \A t \in Threads : pc[t] # "starting" /\ (t # Main => pc[t] = "new")
  BY DEF Init
<1>3. Others = {}
  BY <1>2, Zenon DEF Others
<1> QED
  BY <1>1, <1>2, <1>3, Zenon DEF Flagged

(* The steps that have nothing to do with stopping the world.               *)
Plain ==
  \/ \E t, u \in Threads : StartBegin(t, u)
  \/ \E t \in Threads :
       \/ StartCreate(t) \/ StartFail(t) \/ Register(t) \/ AddContext(t)
       \/ Remove(t) \/ Finish(t) \/ Terminate(t)
       \/ AttachAdd(t) \/ AttachContext(t) \/ AttachFlag(t)
  \/ JoinAllBegin \/ JoinAllScan \/ thread_term
  \/ \E t \in Threads, ended \in SUBSET Threads : JoinAllMeets(t, ended)
  \/ \E rethrow \in BOOLEAN : Joined(rethrow)

\* and those that do
Stops(t) ==
  \/ Gone(t)
  \/ SuspendAllAlone(t) \/ SuspendAll(t) \/ SemWait(t)
  \/ ResumeAllAlone(t) \/ ResumeAllInner(t) \/ ResumeAll(t)
  \/ thread_suspendHandler(t) \/ thread_resumeHandler(t)
  \/ \E u \in Threads : Suspend(t, u) \/ Resume(t, u)

\* Every step is of one of the two sorts.
LEMMA Split == Next => Plain \/ \E t \in Threads : Stops(t)
BY Zenon DEF Next, Plain, Stops

\* A step that stops or resumes the world leaves multiThreadedFlag alone and moves only its own thread.
LEMMA StopsFlag ==
  ASSUME LInv, NEW t \in Threads, Stops(t)
  PROVE  /\ UNCHANGED <<multiThreadedFlag, wasThreaded>>
         /\ pc' \in [Threads -> Labels]
         /\ \A u \in Threads : pc'[u] # pc[u] => 
              /\ u = t /\ pc[u] \in Holding \cup {"running", "cancelled"}
              /\ pc'[u] \in Holding \cup {"running", "gone"}
<1>1. pc \in [Threads -> Labels]
  BY Zenon DEF LInv, ListTypes
<1> USE <1>1 DEF Goto, At, Undone, starts, Holding, Labels
<1>2. CASE Gone(t)
  BY <1>2, Zenon DEF Gone
<1>3. CASE SuspendAllAlone(t)
  BY <1>3, Zenon DEF SuspendAllAlone
<1>4. CASE SuspendAll(t)
  BY <1>4, Zenon DEF SuspendAll
<1>5. CASE SemWait(t)
  BY <1>5, Zenon DEF SemWait
<1>6. CASE ResumeAllAlone(t)
  BY <1>6, Zenon DEF ResumeAllAlone
<1>7. CASE ResumeAllInner(t)
  BY <1>7, Zenon DEF ResumeAllInner
<1>8. CASE ResumeAll(t)
  BY <1>8, Zenon DEF ResumeAll
<1>9. CASE thread_suspendHandler(t) \/ thread_resumeHandler(t)
  BY <1>9, Zenon DEF thread_suspendHandler, thread_resumeHandler
<1>10. ASSUME NEW u \in Threads, Suspend(t, u) \/ Resume(t, u)
       PROVE  /\ UNCHANGED <<multiThreadedFlag, wasThreaded>>
              /\ \/ UNCHANGED pc
                 \/ pc[t] = "suspending" /\ pc' = [pc EXCEPT ![t] = "waiting"]
                 \/ pc[t] = "resuming" /\ pc' = [pc EXCEPT ![t] = "running"]
  BY <1>10, Zenon DEF Suspend, Resume
<1> QED
  BY <1>2, <1>3, <1>4, <1>5, <1>6, <1>7, <1>8, <1>9, <1>10, Zenon DEF Stops

\* multiThreadedFlag stays set while there is any other thread, whatever the failed starts.
LEMMA FlagStep == ASSUME ~AttachAnytime, LInv, Flagged, [Next]_vars PROVE Flagged'
<1>p. pc \in [Threads -> Labels] /\ Main \in Threads /\ NoThread \notin Threads
  BY MainAssumption, ThreadsAssumption, Zenon DEF LInv, ListTypes
<1>s. Starting
  BY Zenon DEF LInv
<1>1. ASSUME NEW t \in Threads, NEW u \in Threads, StartBegin(t, u) PROVE Flagged'
  BY <1>1, <1>p, Zenon DEF StartBegin, Flagged, Others, Goto, At
<1>2. ASSUME NEW t \in Threads, StartCreate(t) PROVE Flagged'
  BY <1>2, <1>p, <1>s DEF StartCreate, Flagged, Others, Goto, At, starts, Starting
<1>3. ASSUME NEW t \in Threads, StartFail(t) PROVE Flagged'
  BY <1>3, <1>p, <1>s DEF StartFail, Flagged, Others, Goto, At, starts, Starting
<1>4. ASSUME NEW t \in Threads, AttachAdd(t) PROVE Flagged'
  <2>1. Others # {}
    BY <1>4, Zenon DEF AttachAdd, Threaded, Others
  <2> QED
    BY <1>4, <2>1, <1>p, Zenon DEF AttachAdd, Flagged, Others, Goto, At, starts
<1>5. ASSUME UNCHANGED wasThreaded,
             UNCHANGED multiThreadedFlag \/ multiThreadedFlag' = TRUE,
             \A u \in Threads : pc'[u] # pc[u] =>
               pc[u] \notin {"new", "failed"} /\ pc'[u] # "starting"
      PROVE  Flagged'
  <2>1. Others' # {} => Others # {}
    BY <1>5, Zenon DEF Others
  <2>2. \A u \in Threads : pc'[u] = "starting" => pc[u] = "starting"
    BY <1>5, Zenon
  <2>3. CASE UNCHANGED multiThreadedFlag
    BY <1>5, <2>1, <2>2, <2>3, Zenon DEF Flagged
  <2>4. CASE multiThreadedFlag' = TRUE
    BY <1>5, <2>1, <2>2, <2>4, Zenon DEF Flagged
  <2> QED
    BY <1>5, <2>3, <2>4, Zenon
<1>6. ASSUME NEW t \in Threads,
             \/ Register(t) \/ AddContext(t) \/ Remove(t) \/ Finish(t) \/ Terminate(t)
             \/ AttachContext(t) \/ AttachFlag(t)
      PROVE  Flagged'
  BY <1>6, <1>5, <1>p, Zenon DEF Flagged, Register, AddContext, Remove, Finish, Terminate, AttachContext,
     AttachFlag, starts, Goto, At
<1>7. CASE JoinAllBegin \/ JoinAllScan \/ thread_term
  BY <1>7, <1>5, <1>p, Zenon DEF Flagged, JoinAllBegin, JoinAllScan, thread_term, starts, Goto, At
<1>8. ASSUME NEW t \in Threads, NEW ended \in SUBSET Threads, JoinAllMeets(t, ended) PROVE Flagged'
  BY <1>8, <1>5, <1>p, Zenon DEF Flagged, JoinAllMeets, starts, Goto, At
<1>9. ASSUME NEW rethrow \in BOOLEAN, Joined(rethrow) PROVE Flagged'
  BY <1>9, <1>5, <1>p, Zenon DEF Flagged, Joined, starts, Goto, At
<1>10. ASSUME NEW t \in Threads, Stops(t) PROVE Flagged'
  BY <1>10, <1>5, StopsFlag, Zenon DEF Holding, Flagged
<1>11. CASE UNCHANGED vars
  BY <1>11, <1>5, Zenon DEF vars, starts, Flagged
<1> QED
  BY <1>1, <1>2, <1>3, <1>4, <1>6, <1>7, <1>8, <1>9, <1>10, <1>11, Split, Zenon DEF Plain

-----------------------------------------------------------------------------
\* What a plain step does: while somebody stops, or has stopped, the world,
\* neither the list of threads nor multiThreadedFlag changes.
Aside ==
  /\ UNCHANGED <<lock, suspendDepth, suspendCount, loops, signals, tstack>>
  /\ \A u \in Threads : pc'[u] # pc[u] =>
       pc[u] \notin Holding \cup {"gone"} /\ pc'[u] \notin Holding \cup {"gone"}
  /\ \A c \in Threads : pc[c] \in Holding => UNCHANGED <<sm_tbeg, sm_cbeg, multiThreadedFlag>>

\* What starts, attaches, ends or joins a thread waits for slock, or works on its own thread only.
LEMMA PlainStep == ASSUME ~AttachAnytime, LInv, Flagged, Locked, Plain PROVE Aside
<1>p. pc \in [Threads -> Labels] /\ Main \in Threads /\ NoThread \notin Threads
  BY MainAssumption, ThreadsAssumption, Zenon DEF LInv, ListTypes
<1>m. pc[Main] \notin {"new", "failed"} /\ multiThreadedFlag \in BOOLEAN
  BY Zenon DEF LInv, Listed, Unlisted, Flagged
<1>q. ASSUME NEW c \in Threads, pc[c] \in Holding, NEW t \in Threads, t # c,
             pc[t] \notin {"new", "failed"}
      PROVE  Others # {} /\ multiThreadedFlag /\ slock = c /\ ~SlockFree
  BY <1>q, <1>p DEF Holding, Flagged, Others, Locked, SlockFree
<1> USE DEF Aside
<1>1. ASSUME NEW t \in Threads, NEW u \in Threads, StartBegin(t, u) PROVE Aside
  BY <1>1, <1>p, <1>q, Zenon DEF StartBegin, Goto, At, Holding, lists
<1>2. ASSUME NEW t \in Threads, StartCreate(t) PROVE Aside
  BY <1>2, <1>p, <1>q, Zenon DEF StartCreate, At, Holding, LInv, Starting
<1>3. ASSUME NEW t \in Threads, StartFail(t) PROVE Aside
  BY <1>3, <1>p, <1>q, <1>m DEF StartFail, At, Holding, LInv, Starting, Flagged
<1>4. ASSUME NEW t \in Threads,
             Register(t) \/ AddContext(t) \/ Remove(t) \/ AttachContext(t)
      PROVE  Aside
  BY <1>4, <1>p, <1>q DEF Register, AddContext, Remove, AttachContext, Goto, At, Holding
<1>5. ASSUME NEW t \in Threads, Finish(t) \/ Terminate(t) \/ AttachFlag(t) PROVE Aside
  BY <1>5, <1>p, <1>q, Zenon DEF Finish, Terminate, AttachFlag, Goto, At, Holding, lists
<1>6. ASSUME NEW t \in Threads, AttachAdd(t) PROVE Aside
  <2>1. PICK u \in Threads \ {Main} : pc[u] \notin {"new", "failed"}
    BY <1>6, Zenon DEF AttachAdd, Threaded
  <2>2. \A c \in Threads : pc[c] \notin Holding
    BY <1>6, <2>1, <1>q, <1>m, <1>p, Zenon DEF AttachAdd
  <2> QED
    BY <1>6, <2>2, <1>p, Zenon DEF AttachAdd, Goto, At, Holding
<1>7. CASE JoinAllBegin \/ thread_term
  BY <1>7, <1>p, <1>q, <1>m, Zenon DEF JoinAllBegin, thread_term, Goto, At, Holding, lists
<1>8. CASE JoinAllScan
  BY <1>8, <1>p, <1>q, <1>m, Zenon DEF JoinAllScan, Goto, At, Holding
<1>9. ASSUME NEW t \in Threads, NEW ended \in SUBSET Threads, JoinAllMeets(t, ended) PROVE Aside
  BY <1>9, <1>p, <1>q, <1>m, Zenon DEF JoinAllMeets, Goto, At, Holding
<1>10. ASSUME NEW rethrow \in BOOLEAN, Joined(rethrow) PROVE Aside
  BY <1>10, <1>p, <1>q, <1>m, Zenon DEF Joined, Goto, At, Holding
<1> HIDE DEF Aside
<1> QED
  BY <1>1, <1>2, <1>3, <1>4, <1>5, <1>6, <1>7, <1>8, <1>9, <1>10, Zenon DEF Plain

\* At the start slock is free.
LEMMA LockInit == Init => LockTypes /\ Locked
BY MaxDepthAssumption, MainAssumption DEF Init, LockTypes, Locked, Holding, Stopping

\* slock is held, as often as thread_suspendAll was called, by the one that stops the world.
LEMMA LockStep ==
  ASSUME ~AttachAnytime, LInv, Flagged, LockTypes, Locked, [Next]_vars
  PROVE  (LockTypes /\ Locked)'
<1>p. pc \in [Threads -> Labels] /\ Main \in Threads /\ NoThread \notin Threads
      /\ MaxDepth \in Nat \ {0} /\ multiThreadedFlag \in BOOLEAN
  BY MainAssumption, ThreadsAssumption, MaxDepthAssumption, Zenon DEF LInv, ListTypes, Flagged
<1>f. \A c \in Threads \ {Main} : pc[c] \notin {"new", "failed"} => multiThreadedFlag
  BY Zenon DEF Flagged, Others
<1> USE <1>p, <1>f DEF LockTypes, Locked, Holding, Stopping, lock, loops
<1>1. CASE Plain
  <2>1. Aside
    BY <1>1, PlainStep, Zenon
  <2>2. \A c \in Threads : pc[c] \in Holding \/ pc'[c] \in Holding =>
          pc'[c] = pc[c] /\ UNCHANGED multiThreadedFlag
    BY <2>1, Zenon DEF Aside
  <2>3. \A c \in Threads : pc'[c] \notin Holding => pc[c] \notin Holding
    BY <2>1, Zenon DEF Aside
  <2>4. UNCHANGED <<slock, slockCount, suspendDepth, level>>
    BY <2>1, Zenon DEF Aside
  <2> QED
    BY <2>2, <2>3, <2>4, Zenon
<1>2. CASE UNCHANGED vars
  BY <1>2, Zenon DEF vars
<1>3. ASSUME NEW t \in Threads, Gone(t) PROVE (LockTypes /\ Locked)'
  BY <1>3 DEF Gone, Goto, At
<1>4. ASSUME NEW t \in Threads, SuspendAllAlone(t) PROVE (LockTypes /\ Locked)'
  BY <1>4 DEF SuspendAllAlone, Goto, At
<1>5. ASSUME NEW t \in Threads, SuspendAll(t) PROVE (LockTypes /\ Locked)'
  BY <1>5 DEF SuspendAll, Goto, At
<1>6. ASSUME NEW t \in Threads, NEW u \in Threads, Suspend(t, u) PROVE (LockTypes /\ Locked)'
  BY <1>6 DEF Suspend, Goto, At
<1>7. ASSUME NEW t \in Threads, SemWait(t) PROVE (LockTypes /\ Locked)'
  BY <1>7 DEF SemWait, Goto, At
<1>8. ASSUME NEW t \in Threads, ResumeAllAlone(t) PROVE (LockTypes /\ Locked)'
  BY <1>8 DEF ResumeAllAlone, Goto, At, Undone
<1>9. ASSUME NEW t \in Threads, ResumeAllInner(t) PROVE (LockTypes /\ Locked)'
  BY <1>9 DEF ResumeAllInner, Goto, At, Undone, Unlock
<1>10. ASSUME NEW t \in Threads, ResumeAll(t) PROVE (LockTypes /\ Locked)'
  BY <1>10 DEF ResumeAll, Goto, At
<1>11. ASSUME NEW t \in Threads, NEW u \in Threads, Resume(t, u) PROVE (LockTypes /\ Locked)'
  BY <1>11 DEF Resume, Goto, At, Unlock
<1>12. ASSUME NEW t \in Threads, thread_suspendHandler(t) \/ thread_resumeHandler(t)
       PROVE  (LockTypes /\ Locked)'
  BY <1>12 DEF thread_suspendHandler, thread_resumeHandler
<1> HIDE DEF LockTypes, Locked
<1> QED
  BY <1>1, <1>2, <1>3, <1>4, <1>5, <1>6, <1>7, <1>8, <1>9, <1>10, <1>11, <1>12, Split, Zenon DEF Stops

-----------------------------------------------------------------------------
(* A thread that is suspended and was not told to go on, and the threads    *)
(* that c has signalled but that are not.                                   *)
Down(t) == inHandler[t] /\ ~sigResume[t]
Unstopped(c) == {t \in (sm_tbeg \ {c}) \ todo[c] : ~Down(t)}

SignalTypes ==
  /\ suspendCount \in 0 .. Cardinality(Threads)
  /\ todo \in [Threads -> SUBSET Threads]
  /\ cnt \in [Threads -> 0 .. Cardinality(Threads)]
  /\ sigSuspend \in [Threads -> BOOLEAN]
  /\ sigResume \in [Threads -> BOOLEAN]
  /\ inHandler \in [Threads -> BOOLEAN]
  /\ tstack \in [Threads -> {"top", "bottom"}]

\* handlers and signals, thread by thread
Signals ==
  /\ \A t \in Threads : sigResume[t] => inHandler[t]
  /\ \A t \in Threads : inHandler[t] => tstack[t] = "top"
  /\ \A t \in Threads : sigSuspend[t] => ~Down(t)
  /\ \A t \in Threads : pc[t] \in Holding \cup {"gone"} => ~inHandler[t] /\ ~sigSuspend[t]
  /\ slock = NoThread => \A t \in Threads : ~Down(t)

\* how far the holder of slock has come on the list
Reached ==
  /\ \A c \in Threads : pc[c] \in {"suspending", "waiting"} =>
       /\ todo[c] \subseteq sm_tbeg
       /\ pc[c] = "waiting" <=> todo[c] = {}
       /\ c \in todo[c] \/ tstack[c] = "top"
       /\ \A t \in Threads : sigSuspend[t] \/ Down(t) => t \in sm_tbeg \ todo[c]
  /\ \A c \in Threads : pc[c] = "stopped" =>
       /\ tstack[c] = "top"
       /\ \A t \in Threads \ {c} : t \in sm_tbeg <=> Down(t)
  /\ \A c \in Threads : pc[c] = "resuming" =>
       /\ todo[c] \subseteq sm_tbeg /\ todo[c] # {}
       /\ \A t \in Threads \ {c} : t \in todo[c] <=> Down(t)

\* the waits that are left suffice for the tokens posted and still to come
Counted ==
  \A c \in Threads : pc[c] \in {"suspending", "waiting"} =>
    /\ cnt[c] >= suspendCount + Cardinality(Unstopped(c))
    /\ cnt[c] + Cardinality(todo[c]) <= Cardinality(Threads)

SInv == SignalTypes /\ Signals /\ Reached /\ Counted /\ NoStrayTokens

\* Sets of threads are finite.
LEMMA Finite ==
  /\ \A S \in SUBSET Threads : IsFiniteSet(S) /\ Cardinality(S) \in Nat
  /\ \A S \in SUBSET Threads : Cardinality(S) = 0 <=> S = {}
  /\ \A S \in SUBSET Threads : Cardinality(S) <= Cardinality(Threads)
BY ThreadsAssumption, FS_Subset, FS_CardinalityType, FS_EmptySet, Zenon

\* At the start nobody is suspended.
LEMMA SignalInit == Init => SInv
<1> SUFFICES ASSUME Init PROVE SInv
  BY Zenon
<1> \A t \in Threads : pc[t] \in {"running", "new"}
  BY Zenon DEF Init
<1> QED
  BY Finite DEF Init, SInv, SignalTypes, Signals, Reached, Counted, NoStrayTokens, Down, Holding

\* A step that changes none of it leaves the invariant alone.
LEMMA SignalSame ==
  ASSUME SInv, UNCHANGED <<suspendCount, todo, cnt, sigSuspend, sigResume, inHandler, tstack, slock, sm_tbeg, pc>>
  PROVE  SInv'
<1>1. SignalTypes' /\ NoStrayTokens'
  BY Zenon DEF SInv, SignalTypes, NoStrayTokens
<1>2. \A x : (Down(x)' <=> Down(x)) /\ Unstopped(x)' = Unstopped(x)
  BY Zenon DEF Down, Unstopped
<1>3. Signals'
  BY <1>2, Zenon DEF SInv, Signals
<1>4. Reached'
  BY <1>2, Zenon DEF SInv, Reached
<1>5. Counted'
  BY <1>2, Zenon DEF SInv, Counted
<1> QED
  BY <1>1, <1>3, <1>4, <1>5, Zenon DEF SInv

\* A plain step touches no signal, and no list while the world is being stopped.
LEMMA SignalPlain ==
  ASSUME ~AttachAnytime, LInv, Flagged, LockTypes, Locked, SInv, Plain
  PROVE  SInv'
<1>1. Aside
  BY PlainStep, Zenon
<1>2. \A c \in Threads : pc'[c] = pc[c] \/ (pc[c] \notin Holding \cup {"gone"} /\ pc'[c] \notin Holding \cup {"gone"})
  BY <1>1, Zenon DEF Aside
<1>3. UNCHANGED <<suspendCount, todo, cnt, sigSuspend, sigResume, inHandler, tstack, slock>>
  BY <1>1, Zenon DEF Aside, loops, signals, lock
<1>4. \A c \in Threads : pc'[c] \in Holding => pc'[c] = pc[c] /\ sm_tbeg' = sm_tbeg
  BY <1>1, Zenon DEF Aside
<1>5. SignalTypes' /\ Signals'
  BY <1>2, <1>3, Zenon DEF SInv, SignalTypes, Signals, Down
<1>6. Reached'
  <2>1. Reached /\ \A x : Down(x)' <=> Down(x)
    BY <1>3, Zenon DEF SInv, Down
  <2>2. \A c \in Threads : pc'[c] \in {"suspending", "waiting", "stopped", "resuming"} => pc'[c] = pc[c] /\ sm_tbeg' = sm_tbeg
    BY <1>4, Zenon DEF Holding
  <2> QED
    BY <1>3, <2>1, <2>2, Zenon DEF Reached
<1>7. Counted'
  BY <1>3, <1>4, Zenon DEF SInv, Counted, Unstopped, Down, Holding
<1>8. NoStrayTokens'
  BY <1>2, <1>3, Zenon DEF SInv, NoStrayTokens, Holding
<1> QED
  BY <1>5, <1>6, <1>7, <1>8, Zenon DEF SInv

\* Only one thread at a time stops the world.
LEMMA OneHolder ==
  ASSUME LInv, Flagged, Locked
  PROVE  \A c, d \in Threads : pc[c] \in Holding /\ pc[d] \in Holding => c = d
BY ThreadsAssumption, Zenon DEF Locked, LockTypes

\* While multiThreadedFlag is not set, the main thread is alone.
LEMMA Alone ==
  ASSUME LInv, Flagged, Locked, ~multiThreadedFlag
  PROVE  sm_tbeg \subseteq {Main} /\ slock = NoThread
BY Zenon DEF LInv, ListTypes, Listed, Unlisted, Flagged, Others, Locked

\* A thread that vanishes is in no handler and has no signal pending.
LEMMA SignalGone ==
  ASSUME LInv, Flagged, LockTypes, Locked, SInv, NEW t \in Threads, Gone(t)
  PROVE  SInv'
<1>1. /\ pc \in [Threads -> Labels] /\ pc[t] = "cancelled" /\ ~inHandler[t]
      /\ pc' = [pc EXCEPT ![t] = "gone"]
      /\ sigSuspend' = [sigSuspend EXCEPT ![t] = FALSE]
      /\ UNCHANGED <<suspendCount, todo, cnt, sigResume, inHandler, tstack, slock, sm_tbeg>>
  BY Zenon DEF LInv, ListTypes, Gone, Goto, At, lists, lock, loops
<1>2. SignalTypes' /\ Signals'
  BY <1>1, Zenon DEF SInv, SignalTypes, Signals, Down, Holding
<1>3. Reached'
  BY <1>1 DEF SInv, SignalTypes, Reached, Down
<1>4. Counted'
  BY <1>1, Zenon DEF SInv, Counted, Unstopped, Down
<1>5. NoStrayTokens'
  BY <1>1, Zenon DEF SInv, SignalTypes, NoStrayTokens
<1> QED
  BY <1>2, <1>3, <1>4, <1>5, Zenon DEF SInv

\* A single thread, or an inner call, has nobody to suspend.
LEMMA SignalSuspendAllAlone ==
  ASSUME LInv, Flagged, LockTypes, Locked, SInv, NEW t \in Threads, SuspendAllAlone(t)
  PROVE  SInv'
<1>1. /\ pc \in [Threads -> Labels] /\ pc[t] \in {"running", "stopped"} /\ ~inHandler[t]
      /\ pc' = [pc EXCEPT ![t] = "stopped"]
      /\ tstack' = IF suspendDepth = 0 THEN [tstack EXCEPT ![t] = "top"] ELSE tstack
      /\ UNCHANGED <<suspendCount, todo, cnt, sigSuspend, sigResume, inHandler, slock, sm_tbeg>>
  BY Zenon DEF LInv, ListTypes, SuspendAllAlone, Goto, At, lists, lock, signals
<1>2. ~multiThreadedFlag /\ t = Main /\ sm_tbeg \subseteq {Main} /\ slock = NoThread
  BY <1>1, Alone, Zenon DEF SuspendAllAlone, LInv, Listed, Unlisted, Ending
<1>3. \A c \in Threads : pc[c] \in Holding => c = Main /\ pc[c] = "stopped"
  BY <1>2, ThreadsAssumption, Zenon DEF Locked
<1>4. tstack'[t] = "top" /\ \A u \in Threads \ {t} : tstack'[u] = tstack[u]
  <2>1. CASE pc[t] = "running"
    <3>1. suspendDepth = 0
      BY <1>2, <1>3, <2>1, Zenon DEF Locked, Stopping, Holding
    <3> QED
      BY <1>1, <3>1, Zenon DEF SInv, SignalTypes
  <2>2. CASE pc[t] = "stopped"
    <3>1. suspendDepth # 0 /\ tstack[t] = "top"
      BY <2>2 DEF Locked, LockTypes, SInv, Reached, Stopping
    <3> QED
      BY <1>1, <3>1, Zenon
  <2> QED
    BY <1>1, <2>1, <2>2, Zenon
<1>5. SignalTypes' /\ Signals'
  <2>1. ~sigSuspend[t]
    BY <1>3, Zenon DEF SInv, NoStrayTokens, Holding
  <2>2. SignalTypes'
    BY <1>1, Zenon DEF SInv, SignalTypes
  <2> QED
    BY <1>1, <1>2, <1>4, <2>1, <2>2, Zenon DEF SInv, Signals, Down, Holding
<1>6. Reached'
  BY <1>1, <1>2, <1>3, <1>4 DEF SInv, Signals, Reached, Down, Holding
<1>7. Counted'
  BY <1>1, <1>3, Zenon DEF Counted, Holding
<1>8. NoStrayTokens'
  BY <1>1, <1>3, Zenon DEF SInv, SignalTypes, NoStrayTokens, Holding
<1> QED
  BY <1>5, <1>6, <1>7, <1>8, Zenon DEF SInv

\* thread_suspendAll begins with the whole list to go through.
LEMMA SignalSuspendAll ==
  ASSUME LInv, Flagged, LockTypes, Locked, SInv, NEW t \in Threads, SuspendAll(t)
  PROVE  SInv'
<1>1. /\ pc \in [Threads -> Labels] /\ ~inHandler[t] /\ slock' = t /\ slock \in {NoThread, t}
      /\ multiThreadedFlag /\ NoThread \notin Threads
      /\ UNCHANGED <<suspendCount, sigSuspend, sigResume, inHandler, tstack, sm_tbeg>>
  BY ThreadsAssumption, Zenon DEF LInv, ListTypes, SuspendAll, Goto, At, lists, lock, signals
<1>2. CASE pc[t] = "stopped"
  <2>1. UNCHANGED <<pc, todo, cnt, slock>>
    BY <1>1, <1>2, Zenon DEF SuspendAll, Goto, Locked, LockTypes, Stopping, Holding
  <2> QED
    BY <1>1, <2>1, SignalSame, Zenon
<1>3. CASE pc[t] = "running"
  <2>1. slock = NoThread
    BY <1>1, <1>3, Zenon DEF Locked, Holding
  <2>2. \A c \in Threads : pc[c] \notin Holding
    BY <1>1, <2>1, Zenon DEF Locked
  <2>3. suspendDepth = 0
    BY <2>2, Zenon DEF Locked, Stopping, Holding
  <2>4. /\ pc' = [pc EXCEPT ![t] = "suspending"]
        /\ todo' = [todo EXCEPT ![t] = sm_tbeg]
        /\ cnt' = [cnt EXCEPT ![t] = 0]
    BY <2>3 DEF SuspendAll, Goto
  <2>5. /\ suspendCount = 0 /\ \A u \in Threads : ~sigSuspend[u] /\ ~Down(u)
        /\ t \in sm_tbeg /\ sm_tbeg \subseteq Threads
    BY <1>3, <2>1, <2>2, Zenon DEF SInv, NoStrayTokens, Signals, Holding, LInv, ListTypes, Listed, Unlisted, Ending
  <2>6. \A c \in Threads : pc'[c] \in Holding => c = t /\ pc'[c] = "suspending" /\ todo'[c] = sm_tbeg /\ cnt'[c] = 0
    BY <1>1, <2>2, <2>4, Zenon DEF SInv, SignalTypes
  <2>7. SignalTypes' /\ Signals'
    <3>1. SignalTypes'
      BY <1>1, <2>4, <2>5, Zenon DEF SInv, SignalTypes
    <3> QED
      BY <1>1, <2>4, <2>5, <3>1, Zenon DEF SInv, Signals, Down, Holding
  <2>8. Reached'
    BY <1>1, <2>5, <2>6 DEF Reached, Down, Holding
  <2>9. Counted'
    <3>1. Unstopped(t)' = {}
      BY <1>1, <2>6, <2>4, Zenon DEF Unstopped, Holding
    <3> QED
      <4>1. Cardinality(Unstopped(t)') = 0 /\ Cardinality(sm_tbeg) <= Cardinality(Threads) /\ Cardinality(sm_tbeg) \in Nat
        BY <2>5, <3>1, Finite, FS_EmptySet, Zenon
      <4>2. cnt'[t] >= suspendCount' + Cardinality(Unstopped(t)') /\ cnt'[t] + Cardinality(sm_tbeg) <= Cardinality(Threads)
        BY <1>1, <2>4, <2>5, <4>1 DEF SInv, SignalTypes
      <4> QED
        BY <2>6, <4>2, Zenon DEF Counted, Holding
  <2>10. NoStrayTokens'
    BY <1>1, <2>4, Zenon DEF NoStrayTokens
  <2> QED
    BY <2>7, <2>8, <2>9, <2>10, Zenon DEF SInv
<1> QED
  BY <1>2, <1>3, Zenon DEF SuspendAll, At

\* suspend() signals a thread and counts it, or takes it off the list if it has vanished.
LEMMA SignalSuspend ==
  ASSUME LInv, Flagged, LockTypes, Locked, SInv, NEW t \in Threads, NEW u \in Threads, Suspend(t, u)
  PROVE  SInv'
<1>1. /\ pc \in [Threads -> Labels] /\ pc[t] = "suspending" /\ ~inHandler[t] /\ u \in todo[t]
      /\ pc' = IF todo[t] = {u} THEN [pc EXCEPT ![t] = "waiting"] ELSE pc
      /\ todo' = [todo EXCEPT ![t] = @ \ {u}]
      /\ UNCHANGED <<suspendCount, sigResume, inHandler, slock>>
      /\ sm_tbeg \subseteq Threads
  BY Zenon DEF LInv, ListTypes, Suspend, Goto, At, lock, signals
<1>2. /\ \A c \in Threads : pc[c] \in Holding => c = t
      /\ slock = t /\ NoThread \notin Threads
  BY <1>1, OneHolder, ThreadsAssumption, Zenon DEF Holding, Locked
<1>3. SignalTypes /\ Signals /\ Reached /\ Counted
  BY Zenon DEF SInv
<1>4. /\ todo[t] \subseteq sm_tbeg /\ (t \in todo[t] \/ tstack[t] = "top")
      /\ \A x \in Threads : sigSuspend[x] \/ Down(x) => x \in sm_tbeg \ todo[t]
      /\ cnt[t] >= suspendCount + Cardinality(Unstopped(t))
      /\ cnt[t] + Cardinality(todo[t]) <= Cardinality(Threads)
  BY <1>1, <1>3, Zenon DEF Reached, Counted
<1>5. todo'[t] = todo[t] \ {u} /\ todo' \in [Threads -> SUBSET Threads]
  BY <1>1, <1>3, Zenon DEF SignalTypes
<1>6. /\ \A c \in Threads : pc'[c] \in Holding => c = t
      /\ pc'[t] = IF todo'[t] = {} THEN "waiting" ELSE "suspending"
      /\ \A c \in Threads \ {t} : pc'[c] = pc[c]
  BY <1>1, <1>2, <1>5 DEF Holding
<1>7. \A x : Down(x)' <=> Down(x)
  BY <1>1, Zenon DEF Down
<1>8. Cardinality(todo'[t]) = Cardinality(todo[t]) - 1 /\ Cardinality(todo[t]) \in Nat
  <2>1. IsFiniteSet(todo[t]) /\ Cardinality(todo[t]) \in Nat
    BY <1>3, Finite, Zenon DEF SignalTypes
  <2> QED
    BY <1>1, <1>5, <2>1, FS_RemoveElement, Zenon
<1>9. NoStrayTokens'
  BY <1>6, Zenon DEF NoStrayTokens
<1>r. ASSUME todo'[t] \subseteq sm_tbeg', t \in todo'[t] \/ tstack'[t] = "top",
             \A x \in Threads : sigSuspend'[x] \/ Down(x)' => x \in sm_tbeg' \ todo'[t]
      PROVE  Reached'
  BY <1>6, <1>r, Zenon DEF Reached, Holding
<1>10. CASE u = t /\ tstack' = [tstack EXCEPT ![t] = "top"] /\ UNCHANGED <<sm_tbeg, cnt, sigSuspend>>
  <2>1. SignalTypes' /\ Signals'
    BY <1>1, <1>3, <1>5, <1>6, <1>7, <1>10 DEF SignalTypes, Signals, Holding
  <2>2. Reached'
    <3>1. tstack'[t] = "top"
      BY <1>3, <1>10, Zenon DEF SignalTypes
    <3> QED
      BY <1>4, <1>5, <1>7, <1>10, <1>r, <3>1, Zenon
  <2>3. Unstopped(t)' = Unstopped(t)
    BY <1>5, <1>7, <1>10, Zenon DEF Unstopped
  <2>4. Counted'
    BY <1>1, <1>2, <1>4, <1>6, <1>8, <1>10, <2>3, <1>3, Finite DEF Counted, Holding, SignalTypes
  <2> QED
    BY <1>9, <2>1, <2>2, <2>4, Zenon DEF SInv
<1>11. CASE /\ u # t /\ cnt' = [cnt EXCEPT ![t] = @ + 1]
            /\ sigSuspend' = [sigSuspend EXCEPT ![u] = pc[u] # "gone"]
            /\ UNCHANGED <<sm_tbeg, tstack>>
  <2>a. /\ sigSuspend' \in [Threads -> BOOLEAN]
        /\ sigSuspend'[u] => pc[u] # "gone"
        /\ \A x \in Threads \ {u} : sigSuspend'[x] = sigSuspend[x]
    BY <1>3, <1>11, Zenon DEF SignalTypes
  <2>c. cnt[t] + 1 <= Cardinality(Threads)
    <3>1. todo[t] \in SUBSET Threads /\ todo[t] # {}
      BY <1>1, <1>3, Zenon DEF SignalTypes
    <3>2. Cardinality(todo[t]) \in Nat \ {0}
      BY <3>1, Finite, Zenon
    <3>3. cnt[t] + Cardinality(todo[t]) <= Cardinality(Threads) /\ cnt[t] \in Nat /\ Cardinality(Threads) \in Nat
      BY <1>1, <1>3, Finite DEF Counted, SignalTypes
    <3> QED
      BY <3>2, <3>3
  <2>b. cnt' \in [Threads -> 0 .. Cardinality(Threads)] /\ cnt'[t] = cnt[t] + 1 /\ cnt[t] \in Nat
    BY <1>3, <1>11, <2>c, Finite DEF SignalTypes
  <2>1. SignalTypes' /\ Signals'
    <3>1. SignalTypes'
      BY <1>1, <1>3, <1>5, <1>11, <2>a, <2>b, Zenon DEF SignalTypes
    <3>2. ~Down(u) /\ u \notin {t} /\ pc[u] \notin Holding
      BY <1>1, <1>2, <1>4, <1>11, Zenon
    <3>3. \A x \in Threads : sigSuspend'[x] => ~Down(x)'
      BY <1>3, <1>7, <2>a, <3>2, Zenon DEF Signals
    <3>4. \A x \in Threads : pc'[x] \in Holding \cup {"gone"} => ~inHandler[x] /\ ~sigSuspend'[x]
      <4> SUFFICES ASSUME NEW x \in Threads, pc'[x] \in Holding \cup {"gone"} PROVE ~inHandler[x] /\ ~sigSuspend'[x]
        BY Zenon
      <4>1. pc[x] \in Holding \cup {"gone"}
        BY <1>1, <1>6, Zenon DEF Holding
      <4> QED
        BY <1>3, <2>a, <3>2, <4>1, Zenon DEF Signals
    <3>5. slock' # NoThread
      BY <1>1, <1>2, Zenon
    <3> QED
      BY <1>1, <1>3, <1>11, <3>1, <3>3, <3>4, <3>5, Zenon DEF Signals
  <2>2. Reached'
    <3>1. \A x \in Threads : sigSuspend'[x] \/ Down(x)' => x \in sm_tbeg' \ todo'[t]
      BY <1>1, <1>4, <1>5, <1>7, <1>11, <2>a
    <3>2. todo'[t] \subseteq sm_tbeg' /\ (t \in todo'[t] \/ tstack'[t] = "top")
      BY <1>4, <1>5, <1>11, Zenon
    <3> QED
      BY <1>r, <3>1, <3>2, Zenon
  <2>3. Unstopped(t)' = Unstopped(t) \cup {u}
    <3>1. ~Down(u) /\ u \in sm_tbeg \ {t}
      BY <1>1, <1>4, <1>11, Zenon
    <3>2. Unstopped(t)' = {x \in (sm_tbeg \ {t}) \ (todo[t] \ {u}) : ~Down(x)}
      BY <1>5, <1>7, <1>11, Zenon DEF Unstopped
    <3> QED
      BY <3>1, <3>2, Zenon DEF Unstopped
  <2>4. u \notin Unstopped(t) /\ Unstopped(t) \in SUBSET Threads
    BY <1>1, Zenon DEF Unstopped
  <2>5. Cardinality(Unstopped(t)') = Cardinality(Unstopped(t)) + 1 /\ Cardinality(Unstopped(t)) \in Nat
    BY <2>3, <2>4, Finite, FS_AddElement, Zenon
  <2>6. Counted'
    <3>1. cnt'[t] >= suspendCount + Cardinality(Unstopped(t)')
      BY <1>3, <1>4, <2>b, <2>5 DEF SignalTypes
    <3>2. cnt'[t] + Cardinality(todo'[t]) <= Cardinality(Threads)
      BY <1>4, <1>8, <2>b
    <3> QED
      BY <1>1, <1>6, <3>1, <3>2, Zenon DEF Counted, Holding
  <2> QED
    BY <1>9, <2>1, <2>2, <2>6, Zenon DEF SInv
<1>12. CASE pc[u] = "gone" /\ sm_tbeg' = sm_tbeg \ {u} /\ UNCHANGED <<cnt, sigSuspend, tstack>>
  <2>1. SignalTypes' /\ Signals'
    BY <1>1, <1>3, <1>5, <1>6, <1>7, <1>12, Zenon DEF SignalTypes, Signals, Holding
  <2>2. Reached'
    <3>1. ~Down(u) /\ ~sigSuspend[u]
      BY <1>1, <1>4, Zenon
    <3>2. \A x \in Threads : sigSuspend'[x] \/ Down(x)' => x \in sm_tbeg' \ todo'[t]
      BY <1>4, <1>5, <1>7, <1>12, <3>1, Zenon
    <3>3. u # t /\ todo'[t] \subseteq sm_tbeg' /\ (t \in todo'[t] \/ tstack'[t] = "top")
      BY <1>1, <1>4, <1>5, <1>12, Zenon
    <3> QED
      BY <1>r, <3>2, <3>3, Zenon
  <2>3. Unstopped(t)' = Unstopped(t)
    <3>1. Unstopped(t)' = {x \in ((sm_tbeg \ {u}) \ {t}) \ (todo[t] \ {u}) : ~Down(x)}
      BY <1>5, <1>7, <1>12, Zenon DEF Unstopped
    <3> QED
      BY <1>1, <3>1 DEF Unstopped
  <2>4. Counted'
    BY <1>1, <1>2, <1>4, <1>6, <1>8, <1>12, <2>3, <1>3, Finite DEF Counted, Holding, SignalTypes
  <2> QED
    BY <1>9, <2>1, <2>2, <2>4, Zenon DEF SInv
<1> QED
  BY <1>10, <1>11, <1>12, Zenon DEF Suspend

\* A wait for suspendCount takes the token of one handler; after the last, all are in theirs.
LEMMA SignalSemWait ==
  ASSUME LInv, Flagged, LockTypes, Locked, SInv, NEW t \in Threads, SemWait(t)
  PROVE  SInv'
<1>1. /\ pc \in [Threads -> Labels] /\ pc[t] = "waiting" /\ ~inHandler[t]
      /\ UNCHANGED <<todo, sigSuspend, sigResume, inHandler, tstack, slock, sm_tbeg>>
      /\ sm_tbeg \subseteq Threads
  BY Zenon DEF LInv, ListTypes, SemWait, Goto, At, lists, lock, signals
<1>2. /\ \A c \in Threads : pc[c] \in Holding => c = t
      /\ slock = t /\ NoThread \notin Threads
  BY <1>1, OneHolder, ThreadsAssumption, Zenon DEF Holding, Locked
<1>3. SignalTypes /\ Signals /\ Reached /\ Counted
  BY Zenon DEF SInv
<1>4. /\ todo[t] = {} /\ tstack[t] = "top" /\ cnt[t] \in Nat /\ suspendCount \in Nat
      /\ \A x \in Threads : sigSuspend[x] \/ Down(x) => x \in sm_tbeg
      /\ cnt[t] >= suspendCount + Cardinality(Unstopped(t))
      /\ cnt[t] + Cardinality(todo[t]) <= Cardinality(Threads)
  BY <1>1, <1>3 DEF Reached, Counted, SignalTypes
<1>5. Unstopped(t) \in SUBSET Threads /\ Cardinality(Unstopped(t)) \in Nat /\ Unstopped(t)' = Unstopped(t)
  BY <1>1, Finite, Zenon DEF Unstopped, Down
<1>6. \A x : Down(x)' <=> Down(x)
  BY <1>1, Zenon DEF Down
<1>7. CASE cnt[t] = 0
  <2>1. pc' = [pc EXCEPT ![t] = "stopped"] /\ UNCHANGED <<cnt, suspendCount>>
    BY <1>7, Zenon DEF SemWait, Goto
  <2>2. suspendCount = 0 /\ Unstopped(t) = {}
    <3>1. suspendCount = 0 /\ Cardinality(Unstopped(t)) = 0
      BY <1>4, <1>5, <1>7
    <3> QED
      BY <1>5, <3>1, Finite, Zenon
  <2>3. \A x \in sm_tbeg \ {t} : Down(x)
    BY <1>4, <2>2, Zenon DEF Unstopped
  <2>4. \A x \in Threads : ~sigSuspend[x]
    BY <1>1, <1>3, <1>4, <2>3, Zenon DEF Signals, Holding
  <2>5. \A c \in Threads : pc'[c] \in Holding => c = t /\ pc'[c] = "stopped"
    BY <1>1, <1>2, <2>1, Zenon DEF Holding
  <2>6. SignalTypes' /\ Signals'
    BY <1>1, <1>2, <1>3, <1>6, <2>1, Zenon DEF SignalTypes, Signals, Holding
  <2>7. Reached'
    BY <1>1, <1>4, <1>6, <2>3, <2>5, Zenon DEF Reached, Holding
  <2>8. Counted' /\ NoStrayTokens'
    BY <1>1, <2>1, <2>2, <2>4, <2>5, Zenon DEF Counted, NoStrayTokens, Holding
  <2> QED
    BY <2>6, <2>7, <2>8, Zenon DEF SInv
<1>8. CASE cnt[t] # 0
  <2>1. /\ suspendCount > 0 /\ suspendCount' = suspendCount - 1
        /\ cnt' = [cnt EXCEPT ![t] = @ - 1] /\ UNCHANGED pc
    BY <1>8, Zenon DEF SemWait
  <2>2. /\ cnt' \in [Threads -> 0 .. Cardinality(Threads)] /\ cnt'[t] = cnt[t] - 1
        /\ suspendCount' \in 0 .. Cardinality(Threads)
    BY <1>3, <1>4, <1>8, <2>1, Finite DEF SignalTypes
  <2>3. SignalTypes' /\ Signals' /\ Reached'
    BY <1>1, <1>3, <1>4, <1>6, <2>1, <2>2, Zenon DEF SignalTypes, Signals, Reached
  <2>4. cnt'[t] >= suspendCount' + Cardinality(Unstopped(t)')
    <3>1. /\ cnt'[t] = cnt[t] - 1 /\ suspendCount' = suspendCount - 1
          /\ Cardinality(Unstopped(t)') = Cardinality(Unstopped(t)) /\ Cardinality(Unstopped(t)) \in Nat
      BY <1>5, <2>1, <2>2, Zenon
    <3>2. cnt[t] \in Nat /\ suspendCount \in Nat /\ cnt[t] >= suspendCount + Cardinality(Unstopped(t))
      BY <1>4, Zenon
    <3> QED
      BY <3>1, <3>2
  <2>5. cnt'[t] + Cardinality(todo'[t]) <= Cardinality(Threads)
    BY <1>1, <1>4, <2>2, Finite
  <2>6. Counted'
    BY <1>2, <2>1, <2>4, <2>5, Zenon DEF Counted, Holding
  <2>7. NoStrayTokens'
    BY <1>1, <2>1, Zenon DEF NoStrayTokens
  <2> QED
    BY <2>3, <2>6, <2>7, Zenon DEF SInv
<1> QED
  BY <1>7, <1>8, Zenon

\* Undoing an inner call, and the calls of a single thread.
LEMMA SignalResumeInner ==
  ASSUME LInv, Flagged, LockTypes, Locked, SInv, NEW t \in Threads,
         ResumeAllAlone(t) \/ ResumeAllInner(t)
  PROVE  SInv'
<1>1. /\ pc \in [Threads -> Labels] /\ pc[t] = "stopped" /\ ~inHandler[t] /\ ~sigSuspend[t]
      /\ level[t] = suspendDepth /\ suspendDepth \in Nat \ {0} /\ tstack[t] = "top"
      /\ UNCHANGED <<suspendCount, todo, cnt, sigSuspend, sigResume, inHandler, sm_tbeg>>
  <2>1. pc[t] = "stopped" /\ UNCHANGED <<suspendCount, todo, cnt, sigSuspend, sigResume, inHandler, sm_tbeg>>
    BY Zenon DEF ResumeAllAlone, ResumeAllInner, At, lists, signals
  <2>2. pc \in [Threads -> Labels] /\ level[t] = suspendDepth
    BY <2>1, Zenon DEF LInv, ListTypes, Locked, Stopping, Holding
  <2>3. suspendDepth \in Nat \ {0}
    BY <2>1, MaxDepthAssumption DEF Locked, LockTypes, Stopping, Holding
  <2>4. ~inHandler[t] /\ ~sigSuspend[t] /\ tstack[t] = "top"
    BY <2>1, Zenon DEF SInv, Signals, Reached, Holding
  <2> QED
    BY <2>1, <2>2, <2>3, <2>4, Zenon
<1>2. CASE suspendDepth > 1
  <2>1. UNCHANGED <<pc, tstack, slock>>
    BY <1>1, <1>2 DEF ResumeAllAlone, ResumeAllInner, Undone, Goto, Unlock, lock, Locked, Holding
  <2> QED
    BY <1>1, <2>1, SignalSame, Zenon
<1>3. CASE suspendDepth = 1
  <2>1. /\ pc' = [pc EXCEPT ![t] = "running"] /\ UNCHANGED slock /\ ~multiThreadedFlag
        /\ tstack' = [tstack EXCEPT ![t] = "bottom"]
    <3>1. ResumeAllAlone(t)
      BY <1>3 DEF ResumeAllInner
    <3>2. Undone(t) = "running"
      BY <1>1, <1>3 DEF Undone
    <3> QED
      BY <1>3, <3>1, <3>2, Zenon DEF ResumeAllAlone, Goto, lock
  <2>2. \A c \in Threads : pc'[c] \notin Holding
    BY <1>1, <2>1, OneHolder, Zenon DEF Holding
  <2>3. SignalTypes'
    BY <1>1, <2>1, Zenon DEF SInv, SignalTypes
  <2>4. Signals'
    BY <1>1, <2>1, <2>2, Zenon DEF SInv, SignalTypes, Signals, Down, Holding
  <2>5. Reached' /\ Counted'
    BY <2>2, Zenon DEF Reached, Counted, Holding
  <2>6. NoStrayTokens'
    BY <1>1, OneHolder, Zenon DEF SInv, NoStrayTokens, Holding
  <2> QED
    BY <2>3, <2>4, <2>5, <2>6, Zenon DEF SInv
<1> QED
  BY <1>1, <1>2, <1>3

\* thread_resumeAll begins with the whole list to go through.
LEMMA SignalResumeAll ==
  ASSUME LInv, Flagged, LockTypes, Locked, SInv, NEW t \in Threads, ResumeAll(t)
  PROVE  SInv'
<1>1. /\ pc \in [Threads -> Labels] /\ pc[t] = "stopped" /\ ~inHandler[t]
      /\ pc' = [pc EXCEPT ![t] = "resuming"] /\ todo' = [todo EXCEPT ![t] = sm_tbeg]
      /\ UNCHANGED <<suspendCount, cnt, sigSuspend, sigResume, inHandler, tstack, slock, sm_tbeg>>
      /\ sm_tbeg \subseteq Threads /\ t \in sm_tbeg
  BY Zenon DEF LInv, ListTypes, Listed, Unlisted, Ending, ResumeAll, Goto, At, lists, lock, signals
<1>2. \A c \in Threads : pc'[c] \in Holding => c = t /\ pc'[c] = "resuming" /\ todo'[c] = sm_tbeg
  BY <1>1, OneHolder, Zenon DEF Holding, SInv, SignalTypes
<1>3. SignalTypes' /\ Signals'
  BY <1>1, Zenon DEF SInv, SignalTypes, Signals, Down, Holding
<1>4. Reached' /\ Counted'
  <2>1. \A x \in Threads \ {t} : x \in sm_tbeg <=> Down(x)
    BY <1>1, Zenon DEF SInv, Reached
  <2>2. \A x : Down(x)' <=> Down(x)
    BY <1>1, Zenon DEF Down
  <2>3. \A c \in Threads : pc'[c] \notin {"suspending", "waiting", "stopped"}
    BY <1>2, Zenon DEF Holding
  <2>4. \A c \in Threads : pc'[c] = "resuming" => c = t /\ todo'[c] = sm_tbeg
    BY <1>2, Zenon DEF Holding
  <2> QED
    BY <1>1, <2>1, <2>2, <2>3, <2>4, Zenon DEF Reached, Counted
<1>5. NoStrayTokens'
  BY <1>1, OneHolder, Zenon DEF SInv, NoStrayTokens, Holding
<1> QED
  BY <1>3, <1>4, <1>5, Zenon DEF SInv

\* resume() lets a thread leave its handler; the last one frees slock.
LEMMA SignalResume ==
  ASSUME LInv, Flagged, LockTypes, Locked, SInv, NEW t \in Threads, NEW u \in Threads, Resume(t, u)
  PROVE  SInv'
<1>1. /\ pc \in [Threads -> Labels] /\ pc[t] = "resuming" /\ ~inHandler[t] /\ u \in todo[t]
      /\ todo' = [todo EXCEPT ![t] = @ \ {u}]
      /\ pc' = IF todo[t] = {u} THEN [pc EXCEPT ![t] = "running"] ELSE pc
      /\ UNCHANGED <<suspendCount, cnt, sigSuspend, inHandler, sm_tbeg>>
  BY Zenon DEF LInv, ListTypes, Resume, Goto, At, lists
<1>2. \A c \in Threads : pc[c] \in Holding => c = t
  BY <1>1, OneHolder, Zenon DEF Holding
<1>3. SignalTypes /\ Signals /\ Reached /\ NoThread \notin Threads
  BY ThreadsAssumption, Zenon DEF SInv
<1>4. todo'[t] = todo[t] \ {u} /\ todo' \in [Threads -> SUBSET Threads]
  BY <1>1, <1>3, Zenon DEF SignalTypes
<1>5. /\ sigResume' \in [Threads -> BOOLEAN] /\ tstack' \in [Threads -> {"top", "bottom"}]
      /\ \A x \in Threads \ {u} : sigResume'[x] = sigResume[x] /\ tstack'[x] = tstack[x]
      /\ u # t => sigResume'[u] /\ tstack'[u] = tstack[u]
      /\ u = t => sigResume'[u] = sigResume[u]
  BY <1>3, Zenon DEF Resume, SignalTypes
<1>6. u # t => inHandler[u]
  BY <1>1, <1>3, Zenon DEF Reached, Down
<1>7. \A x \in Threads \ {t} : Down(x)' <=> x \in todo'[t]
  <2>1. \A x \in Threads \ {t} : x \in todo[t] <=> Down(x)
    BY <1>1, <1>3, Zenon DEF Reached
  <2>2. \A x \in Threads \ {t} : x # u => (Down(x)' <=> Down(x)) /\ (x \in todo'[t] <=> x \in todo[t])
    BY <1>1, <1>4, <1>5, Zenon DEF Down
  <2>3. u # t => ~Down(u)' /\ u \notin todo'[t]
    BY <1>4, <1>5 DEF Down
  <2> QED
    BY <2>1, <2>2, <2>3
<1>8. /\ slock' = IF todo[t] = {u} THEN NoThread ELSE t
      /\ \A c \in Threads : pc'[c] \in Holding => c = t /\ pc'[c] = "resuming" /\ todo'[t] # {}
  <2>1. slock = t /\ slockCount = 1
    BY <1>1, <1>3, Zenon DEF Locked, Holding
  <2> QED
    BY <1>1, <1>2, <1>4, <2>1 DEF Resume, Unlock, Holding, lock
<1>9. SignalTypes'
  BY <1>1, <1>3, <1>4, <1>5, Zenon DEF SignalTypes
<1>10. Signals'
  <2>1. \A x \in Threads : sigResume'[x] => inHandler'[x]
    BY <1>1, <1>3, <1>5, <1>6, Zenon DEF Signals
  <2>2. \A x \in Threads : inHandler'[x] => tstack'[x] = "top"
    BY <1>1, <1>3, <1>5, Zenon DEF Signals
  <2>3. \A x \in Threads : Down(x)' => Down(x)
    BY <1>1, <1>3, <1>5, Zenon DEF Down
  <2>4. \A x \in Threads : pc'[x] \in Holding \cup {"gone"} => ~inHandler'[x] /\ ~sigSuspend'[x]
    BY <1>1, <1>3, Zenon DEF Signals, Holding
  <2>5. slock' = NoThread => \A x \in Threads : ~Down(x)'
    BY <1>1, <1>3, <1>4, <1>7, <1>8, Zenon DEF Down
  <2> QED
    BY <1>1, <1>3, <2>1, <2>2, <2>3, <2>4, <2>5, Zenon DEF Signals
<1>11. Reached' /\ Counted'
  BY <1>1, <1>3, <1>4, <1>7, <1>8, Zenon DEF Reached, Counted, Holding
<1>12. NoStrayTokens'
  BY <1>1, <1>2, Zenon DEF SInv, NoStrayTokens, Holding
<1> QED
  BY <1>9, <1>10, <1>11, <1>12, Zenon DEF SInv

\* A handler posts its token as it suspends its thread, and returns when told to.
LEMMA SignalHandlers ==
  ASSUME LInv, Flagged, LockTypes, Locked, SInv, NEW t \in Threads,
         thread_suspendHandler(t) \/ thread_resumeHandler(t)
  PROVE  SInv'
<1>1. SignalTypes /\ Signals /\ Reached /\ Counted /\ NoStrayTokens /\ NoThread \notin Threads
  BY ThreadsAssumption, Zenon DEF SInv
<1>2. CASE thread_suspendHandler(t)
  <2>1. /\ sigSuspend[t] /\ ~inHandler[t] /\ ~sigResume[t]
        /\ sigSuspend' = [sigSuspend EXCEPT ![t] = FALSE]
        /\ inHandler' = [inHandler EXCEPT ![t] = TRUE]
        /\ tstack' = [tstack EXCEPT ![t] = "top"]
        /\ suspendCount' = suspendCount + 1
        /\ UNCHANGED <<pc, todo, cnt, sigResume, slock, sm_tbeg>>
    BY <1>1, <1>2, Zenon DEF thread_suspendHandler, Signals, lock, lists, loops
  <2>2. PICK c \in Threads : pc[c] \in {"suspending", "waiting"}
    BY <1>1, <2>1, Zenon DEF NoStrayTokens
  <2>3. /\ t \in sm_tbeg \ todo[c] /\ t # c /\ slock = c
        /\ \A d \in Threads : pc[d] \in Holding => d = c
        /\ pc[t] \notin Holding \cup {"gone"}
    BY <1>1, <2>1, <2>2, OneHolder, Zenon DEF Reached, Signals, Holding, Locked
  <2>4. Down(t)' /\ \A x \in Threads \ {t} : Down(x)' <=> Down(x)
    BY <1>1, <2>1, Zenon DEF Down, SignalTypes
  <2>5. /\ Cardinality(Unstopped(c)') = Cardinality(Unstopped(c)) - 1
        /\ Cardinality(Unstopped(c)) \in Nat \ {0}
    <3>1. sm_tbeg \subseteq Threads
      BY Zenon DEF LInv, ListTypes
    <3>2. Unstopped(c)' = Unstopped(c) \ {t} /\ t \in Unstopped(c) /\ Unstopped(c) \in SUBSET Threads
      BY <2>1, <2>3, <2>4, <3>1, Zenon DEF Unstopped, Down
    <3>3. Cardinality(Unstopped(c)) # 0
      BY <3>2, Finite, Zenon
    <3> QED
      BY <3>2, <3>3, Finite, FS_RemoveElement
  <2>6. SignalTypes' /\ Counted'
    <3>1. /\ cnt[c] \in 0 .. Cardinality(Threads) /\ suspendCount \in Nat /\ Cardinality(Threads) \in Nat
          /\ cnt[c] >= suspendCount + Cardinality(Unstopped(c))
      BY <1>1, <2>2, Finite DEF SignalTypes, Counted
    <3>2. suspendCount' \in 0 .. Cardinality(Threads) /\ cnt[c] >= suspendCount' + Cardinality(Unstopped(c)')
      BY <2>1, <2>5, <3>1
    <3>3. SignalTypes'
      BY <1>1, <2>1, <3>2, Zenon DEF SignalTypes
    <3>4. Counted'
      BY <1>1, <2>1, <2>2, <2>3, <3>2, Zenon DEF Counted, Holding
    <3> QED
      BY <3>3, <3>4, Zenon
  <2>7. Signals'
    BY <1>1, <2>1, <2>3, <2>4, Zenon DEF SignalTypes, Signals
  <2>8. Reached'
    BY <1>1, <2>1, <2>2, <2>3, <2>4 DEF SignalTypes, Reached, Holding
  <2>9. NoStrayTokens'
    BY <2>1, <2>2, Zenon DEF NoStrayTokens
  <2> QED
    BY <2>6, <2>7, <2>8, <2>9, Zenon DEF SInv
<1>3. CASE thread_resumeHandler(t)
  <2>1. /\ sigResume[t] /\ inHandler[t]
        /\ sigResume' = [sigResume EXCEPT ![t] = FALSE]
        /\ inHandler' = [inHandler EXCEPT ![t] = FALSE]
        /\ tstack' = [tstack EXCEPT ![t] = "bottom"]
        /\ UNCHANGED <<pc, todo, cnt, sigSuspend, suspendCount, slock, sm_tbeg>>
        /\ pc[t] \notin Holding
    BY <1>1, <1>3, Zenon DEF thread_resumeHandler, Signals, lock, lists, loops
  <2>2. \A x \in Threads : Down(x)' <=> Down(x)
    BY <1>1, <2>1, Zenon DEF Down, SignalTypes
  <2>3. SignalTypes'
    BY <1>1, <2>1, Zenon DEF SignalTypes
  <2>4. Signals'
    BY <1>1, <2>1, <2>2, Zenon DEF SignalTypes, Signals
  <2>5. Reached'
    BY <1>1, <2>1, <2>2 DEF SignalTypes, Reached, Holding
  <2>6. \A c \in Threads : Unstopped(c)' = Unstopped(c)
    <3>1. sm_tbeg \subseteq Threads
      BY Zenon DEF LInv, ListTypes
    <3> QED
      BY <2>1, <2>2, <3>1, Zenon DEF Unstopped
  <2>7. Counted' /\ NoStrayTokens'
    BY <1>1, <2>1, <2>6, Zenon DEF Counted, NoStrayTokens
  <2> QED
    BY <2>3, <2>4, <2>5, <2>7, Zenon DEF SInv
<1> QED
  BY <1>2, <1>3, Zenon

-----------------------------------------------------------------------------
(* The inductive invariant of stopping the world.                           *)
IInv == LInv /\ Flagged /\ LockTypes /\ Locked /\ SInv

\* The invariant holds at the start.
LEMMA StopInit == Init => IInv
BY ListsInit, FlagInit, LockInit, SignalInit, Zenon DEF IInv

\* and every step preserves it.
LEMMA StopStep == ASSUME ~AttachAnytime PROVE IInv /\ [Next]_vars => IInv'
<1> SUFFICES ASSUME IInv, [Next]_vars PROVE IInv'
  BY Zenon
<1>1. LInv /\ Flagged /\ LockTypes /\ Locked /\ SInv
  BY Zenon DEF IInv
<1>2. LInv' /\ Flagged' /\ LockTypes' /\ Locked'
  BY <1>1, ListsStep, FlagStep, LockStep, Zenon
<1>3. SInv'
  <2>1. CASE Plain
    BY <1>1, <2>1, SignalPlain, Zenon
  <2>2. ASSUME NEW t \in Threads, Stops(t) PROVE SInv'
    BY <1>1, <2>2, SignalGone, SignalSuspendAllAlone, SignalSuspendAll, SignalSuspend, SignalSemWait,
       SignalResumeInner, SignalResumeAll, SignalResume, SignalHandlers, Zenon DEF Stops
  <2>3. CASE UNCHANGED vars
    BY <1>1, <2>3, SignalSame, Zenon DEF vars, lock, lists, loops, signals
  <2> QED
    BY <2>1, <2>2, <2>3, Split, Zenon
<1> QED
  BY <1>2, <1>3, Zenon DEF IInv

(* Once thread_suspendAll has returned, every other thread of the list is   *)
(* in its suspend handler until this caller resumes it, whatever threads    *)
(* start, attach, end or vanish meanwhile.                                  *)
THEOREM StopTheWorld ==
  ASSUME ~AttachAnytime
  PROVE  Spec => [](TypeOK /\ WorldStopped)
<1>1. IInv => TypeOK
  <2> SUFFICES ASSUME IInv PROVE TypeOK
    BY Zenon
  <2>1. /\ ListTypes /\ Listed /\ Flagged /\ LockTypes /\ SignalTypes
    BY Zenon DEF IInv, LInv, SInv
  <2>2. pAboutToStart \subseteq Threads \ sm_tbeg
    BY <2>1, Zenon DEF ListTypes, Listed, Unlisted
  <2> QED
    BY <2>1, <2>2, Zenon DEF TypeOK, ListTypes, Flagged, LockTypes, SignalTypes
<1>2. IInv => WorldStopped
  BY Zenon DEF IInv, LInv, ListTypes, SInv, Reached, WorldStopped, Down
<1> QED
  BY <1>1, <1>2, StopInit, StopStep, PTL DEF Spec

(* The stack of every thread that executes D code is then among those the   *)
(* collector scans, from its current top.                                   *)
THEOREM StoppedStacksScanned ==
  ASSUME ~AttachAnytime
  PROVE  Spec => []StacksScanned
<1>1. IInv => StacksScanned
  <2> SUFFICES ASSUME IInv, NEW c \in Threads, pc[c] = "stopped", NEW t \in HasFrames
               PROVE  t \in sm_cbeg /\ tstack[t] = "top"
    BY Zenon DEF StacksScanned
  <2>1. ListTypes /\ Listed /\ SignalTypes /\ Signals /\ Reached
    BY Zenon DEF IInv, LInv, SInv
  <2>2. t \in Threads /\ pc[t] \notin Unlisted \cup Ending \cup {"registered", "attached"}
    BY <2>1, Zenon DEF HasFrames, Unlisted, Ending, ListTypes, Labels
  <2>3. t \in sm_cbeg /\ t \in sm_tbeg
    BY <2>1, <2>2, Zenon DEF Listed
  <2>4. t # c => Down(t)
    BY <2>1, <2>2, <2>3, Zenon DEF Reached
  <2> QED
    BY <2>1, <2>2, <2>3, <2>4, Zenon DEF Reached, Signals, Down
<1> QED
  BY <1>1, StopInit, StopStep, PTL DEF Spec

(* thread_suspendAll waits for exactly the handlers that post suspendCount: *)
(* no token and no suspend signal is left for the next collection.          *)
THEOREM TokensAccounted ==
  ASSUME ~AttachAnytime
  PROVE  Spec => []NoStrayTokens
<1>1. IInv => NoStrayTokens
  BY Zenon DEF IInv, SInv
<1> QED
  BY <1>1, StopInit, StopStep, PTL DEF Spec

(* The assertion of ThreadBase.add holds: a thread or context is put on a   *)
(* list only while suspendDepth is 0.                                       *)
THEOREM NothingAddedWhileSuspended ==
  ASSUME ~AttachAnytime
  PROVE  Spec => AddNotWhileSuspended
<1>1. ASSUME IInv, [Next]_vars, suspendDepth # 0
      PROVE  sm_tbeg' \subseteq sm_tbeg /\ sm_cbeg' \subseteq sm_cbeg
  <2>1. PICK c \in Threads : pc[c] \in Holding
    BY <1>1, Zenon DEF IInv, Locked, Holding, Stopping
  <2>2. CASE Plain
    <3>1. Aside
      BY <1>1, <2>2, PlainStep, Zenon DEF IInv
    <3> QED
      BY <2>1, <3>1, Zenon DEF Aside
  <2>3. ASSUME NEW t \in Threads, Stops(t) PROVE sm_tbeg' \subseteq sm_tbeg /\ sm_cbeg' \subseteq sm_cbeg
    BY <2>3, Zenon DEF Stops, Gone, SuspendAllAlone, SuspendAll, SemWait, ResumeAllAlone, ResumeAllInner,
       ResumeAll, thread_suspendHandler, thread_resumeHandler, Suspend, Resume, lists
  <2>4. CASE UNCHANGED vars
    BY <2>4, Zenon DEF vars, lists
  <2> QED
    BY <1>1, <2>2, <2>3, <2>4, Split, Zenon
<1>2. IInv /\ [Next]_vars =>
        [~(sm_tbeg' \subseteq sm_tbeg /\ sm_cbeg' \subseteq sm_cbeg) => suspendDepth = 0]_vars
  BY <1>1, Zenon
<1> QED
  BY <1>2, StopInit, StopStep, PTL DEF Spec, AddNotWhileSuspended

\* Only a scan that has found nobody ends thread_joinAll.
LEMMA JoinedByScan ==
  ASSUME LInv, [Next]_vars, pc[Main] = "joinAll", pc'[Main] = "joined"
  PROVE  JoinAllScan
<1>1. pc \in [Threads -> Labels] /\ Main \in Threads /\ NoThread \notin Threads /\ Starting
  BY MainAssumption, ThreadsAssumption, Zenon DEF LInv, ListTypes
<1> USE <1>1 DEF Goto, At
<1>2. ASSUME NEW t \in Threads, NEW u \in Threads, StartBegin(t, u) PROVE FALSE
  BY <1>2, Zenon DEF StartBegin
<1>3. ASSUME NEW t \in Threads, StartCreate(t) \/ StartFail(t) PROVE FALSE
  BY <1>3, Zenon DEF StartCreate, StartFail, Starting
<1>4. ASSUME NEW t \in Threads,
             \/ Register(t) \/ AddContext(t) \/ Remove(t) \/ Finish(t) \/ Terminate(t)
             \/ AttachAdd(t) \/ AttachContext(t) \/ AttachFlag(t)
      PROVE  FALSE
  BY <1>4, Zenon DEF Register, AddContext, Remove, Finish, Terminate, AttachAdd, AttachContext, AttachFlag
<1>5. CASE JoinAllBegin \/ thread_term
  BY <1>5, Zenon DEF JoinAllBegin, thread_term
<1>6. ASSUME NEW t \in Threads, NEW ended \in SUBSET Threads, JoinAllMeets(t, ended) PROVE FALSE
  BY <1>6, Zenon DEF JoinAllMeets
<1>7. ASSUME NEW rethrow \in BOOLEAN, Joined(rethrow) PROVE FALSE
  BY <1>7, Zenon DEF Joined
<1>8. ASSUME NEW t \in Threads, Stops(t) PROVE FALSE
  BY <1>8, StopsFlag, Zenon DEF Holding
<1>9. CASE UNCHANGED vars
  BY <1>9, Zenon DEF vars
<1> QED
  BY <1>2, <1>3, <1>4, <1>5, <1>6, <1>7, <1>8, <1>9, Split, Zenon DEF Plain

(* When thread_joinAll returns, every thread that was started and is not a  *)
(* daemon has run to its end, also one that was still about to start.       *)
THEOREM JoinAllWaitsForAll == Spec => JoinAllComplete
<1>1. ASSUME LInv, [Next]_vars, pc[Main] = "joinAll", pc'[Main] = "joined", NEW t \in Threads, ~isDaemon(t)
      PROVE  pc[t] \in {"new", "failed", "removed", "dead", "cancelled", "gone"}
  <2>1. pAboutToStart = {} /\ Joinable = {}
    BY <1>1, JoinedByScan, Zenon DEF JoinAllScan
  <2>2. ListTypes /\ Listed
    BY <1>1, Zenon DEF LInv
  <2>3. pc[t] # "spawned"
    BY <2>1, <2>2, Zenon DEF Listed
  <2>4. pc[t] \in Unlisted \cup Ending
    BY <1>1, <2>1, <2>2, Zenon DEF Listed, Joinable
  <2> QED
    BY <2>3, <2>4, Zenon DEF Unlisted, Ending
<1>2. LInv /\ [Next]_vars =>
        [pc[Main] = "joinAll" /\ pc'[Main] = "joined" =>
           \A t \in Threads : ~isDaemon(t) =>
             pc[t] \in {"new", "failed", "removed", "dead", "cancelled", "gone"}]_vars
  BY <1>1, Zenon
<1> QED
  BY <1>2, ListsInit, ListsStep, PTL DEF Spec, JoinAllComplete
=============================================================================
