------------------------------ MODULE ParallelMark ------------------------------
(***************************************************************************)
(* core.internal.gc.impl.conservative.gc: the marking phase of a           *)
(* collection with scan threads (Gcx.markParallel).  The world is stopped, *)
(* so the heap does not change while the collecting thread, Main, and the  *)
(* threads that run scanBackground share out the ranges to be scanned.     *)
(*                                                                         *)
(* A range is the sequence of the words that are still to be scanned.      *)
(* What is done under stackLock is one step; setting a mark bit            *)
(* (GCBits.setLocked), testing stopGC and each operation on an Event are   *)
(* steps of their own.  A thread that is blocked in Event.wait is woken    *)
(* when the event is set, also if the event is reset before it runs.       *)
(***************************************************************************)
EXTENDS Naturals, Sequences, FiniteSets

CONSTANTS
  Main,           \* the thread that collects
  ScanThreads,    \* the threads startScanThreads tries to create
  Objects,        \* the blocks of the heap
  Large,          \* those in a LargeObjectPool
  NoScan,         \* those with the attribute NO_SCAN
  NoInterior,     \* those with the attribute NO_INTERIOR
  Heaps,          \* what the heap and the roots may be when a collection begins
  FANOUT_LIMIT,   \* size of the stack inside mark()
  null

Threads == ScanThreads \cup {Main}

\* A word that points to a block: to its base, elsewhere into its first page,
\* or into a later page.  null is a word that points to no block.
Ptr == [obj : Objects, at : {"base", "first", "later"}]
ScanRange == Seq(Ptr \cup {null})
Page(p) == <<p.obj, IF p.at = "later" THEN "later" ELSE "first">>

EmptyHeap == [roots |-> <<>>, words |-> [o \in Objects |-> <<null>>]]

ASSUME ThreadsAssumption == IsFiniteSet(ScanThreads) /\ Main \notin ScanThreads
ASSUME LimitAssumption == FANOUT_LIMIT \in Nat \ {0}
ASSUME NullAssumption == /\ null \notin Ptr
                         /\ \A S \in SUBSET ScanThreads : null # S
                         /\ \A o \in Objects : null # <<o, "first">> /\ null # <<o, "later">>
ASSUME AttrAssumption == Large \subseteq Objects /\ NoScan \subseteq Objects /\ NoInterior \subseteq Large
ASSUME HeapsAssumption == \A h \in Heaps : /\ h.roots \in ScanRange
                                           /\ h.words \in [Objects -> ScanRange \ {<<>>}]

VARIABLES
  heap,           \* the words of the roots and of every block
  mark,           \* the blocks whose mark bit is set
  scanStack,
  evStackFilled,  \* a manual reset event
  evDone,         \* an automatic reset event
  busyThreads,
  stoppedThreads,
  stopGC,
  numScanThreads,
  scanThreadData, \* the threads that were created, null before the first collection
  pc,
  rng,            \* mark(): the range being scanned
  stack,          \* mark(): the ranges found and not yet scanned
  pcache,         \* mark(): the page of a large block met last
  pulled          \* the threads whose mark() was called by pullFromScanStack

shared == <<scanStack, evStackFilled, evDone, busyThreads>>
control == <<stoppedThreads, stopGC, numScanThreads, scanThreadData>>
local == <<rng, stack, pcache, pulled>>
vars == <<heap, mark, shared, control, pc, local>>

-----------------------------------------------------------------------------
(* A stack of ranges. *)
Top(s) == s[Len(s)]
Below(s) == [i \in 1..Len(s) - 1 |-> s[i]]
Reversed(s) == [i \in 1..Len(s) |-> s[(Len(s) - i) + 1]]

-----------------------------------------------------------------------------
(* What marking is for. *)

\* The pointer keeps the block alive.
Keeps(p) == p # null /\ (p.obj \in NoInterior => p.at = "base")

\* S has what the roots of h refer to, and what its own scanned blocks refer to.
Closed(h, S) ==
  /\ \A i \in DOMAIN h.roots : Keeps(h.roots[i]) => h.roots[i].obj \in S
  /\ \A o \in S \ NoScan : \A i \in DOMAIN h.words[o] :
       Keeps(h.words[o][i]) => h.words[o][i].obj \in S

Reachable(h) == {o \in Objects : \A S \in SUBSET Objects : Closed(h, S) => o \in S}

-----------------------------------------------------------------------------
Init ==
  /\ heap = EmptyHeap
  /\ mark = {}
  /\ scanStack = <<>>
  /\ evStackFilled = FALSE /\ evDone = FALSE
  /\ busyThreads = 0 /\ stoppedThreads = 0 /\ stopGC = FALSE
  /\ numScanThreads = 0 /\ scanThreadData = null
  /\ pc = [t \in Threads |-> IF t = Main THEN "idle" ELSE "none"]
  /\ rng = [t \in Threads |-> <<>>]
  /\ stack = [t \in Threads |-> <<>>]
  /\ pcache = [t \in Threads |-> null]
  /\ pulled = {}

Goto(t, l) == pc' = [pc EXCEPT ![t] = l]

\* evStackFilled.setIfInitialized() by t, which goes on at l.
SetFilled(t, l) ==
  /\ evStackFilled' = (evStackFilled \/ numScanThreads > 0)
  /\ pc' = [s \in Threads |-> CASE s = t -> l
                                [] s # t /\ pc[s] = "blocked" -> "pull"
                                [] OTHER -> pc[s]]

\* evDone.setIfInitialized() by t, which goes on at l.
SetDone(t, l) ==
  /\ evDone' = TRUE
  /\ pc' = [s \in Threads |-> CASE s = t -> l
                                [] s # t /\ pc[s] = "asleep" -> "woken"
                                [] OTHER -> pc[s]]

\* scanStack.pop into rng, with the reset of the event when that was the last.
Pop(t) ==
  /\ rng' = [rng EXCEPT ![t] = Top(scanStack)]
  /\ scanStack' = Below(scanStack)
  /\ evStackFilled' = (evStackFilled /\ Len(scanStack) > 1)
  /\ pcache' = [pcache EXCEPT ![t] = null]

-----------------------------------------------------------------------------
(* mark() *)

\* The pointer is looked up and found to refer to a block that must be kept.
Found(t, p) == p # null /\ Page(p) # pcache[t] /\ (p.obj \in NoInterior => p.at = "base")

Cache(t, p) == IF p # null /\ p.obj \in Large THEN Page(p) ELSE pcache[t]

\* LaddRange: with words of the current range left the new range is put on the
\* stack, else it is continued with.
AddRange(t, tgt) ==
  IF Len(rng[t]) > 1
  THEN /\ rng' = [rng EXCEPT ![t] = Tail(@)]
       /\ stack' = [stack EXCEPT ![t] = Append(@, tgt)]
       /\ pcache' = [pcache EXCEPT ![t] = Cache(t, Head(rng[t]))]
       /\ Goto(t, IF Len(stack[t]) >= FANOUT_LIMIT THEN "push" ELSE "mark")
  ELSE /\ rng' = [rng EXCEPT ![t] = tgt]
       /\ pcache' = [pcache EXCEPT ![t] = null]
       /\ UNCHANGED <<stack, pc>>

\* The next word of the range.
Visit(t) ==
  /\ pc[t] = "mark"
  /\ rng[t] # <<>>
  /\ LET p == Head(rng[t])
         adds == Found(t, p) /\ p.obj \notin mark \cup NoScan
     IN  /\ mark' = IF Found(t, p) THEN mark \cup {p.obj} ELSE mark
         /\ \/ adds /\ AddRange(t, heap.words[p.obj])
            \/ /\ ~adds
               /\ rng' = [rng EXCEPT ![t] = Tail(@)]
               /\ pcache' = [pcache EXCEPT ![t] = Cache(t, p)]
               /\ UNCHANGED <<stack, pc>>
  /\ UNCHANGED <<heap, shared, control, pulled>>

\* LnextRange: the last range of the stack inside mark().
NextRange(t) ==
  /\ pc[t] = "mark"
  /\ rng[t] = <<>> /\ stack[t] # <<>>
  /\ rng' = [rng EXCEPT ![t] = Top(stack[t])]
  /\ stack' = [stack EXCEPT ![t] = Below(@)]
  /\ pcache' = [pcache EXCEPT ![t] = null]
  /\ UNCHANGED <<heap, mark, shared, control, pc, pulled>>

ScanStackPushNoSet(t) ==
  /\ pc[t] = "push"
  /\ scanStack' = scanStack \o Reversed(Below(stack[t]))
  /\ stack' = [stack EXCEPT ![t] = <<Top(@)>>]
  /\ Goto(t, "mark")
  /\ UNCHANGED <<heap, mark, evStackFilled, evDone, busyThreads, control, rng, pcache, pulled>>

\* The stack inside mark() was full: all but the range just found move on.
scanStackPushLocked(t) ==
  /\ pc[t] = "push"
  /\ scanStack' = scanStack \o Reversed(Below(stack[t]))
  /\ stack' = [stack EXCEPT ![t] = <<Top(@)>>]
  /\ \/ scanStack = <<>> /\ SetFilled(t, "mark")
     \/ scanStack # <<>> /\ Goto(t, "mark") /\ UNCHANGED evStackFilled
  /\ UNCHANGED <<heap, mark, evDone, busyThreads, control, rng, pcache, pulled>>

\* Nothing left in mark(): take a range others left, or return.
scanStackPopLocked(t) ==
  /\ pc[t] = "mark"
  /\ rng[t] = <<>> /\ stack[t] = <<>>
  /\ \/ scanStack # <<>> /\ Pop(t) /\ UNCHANGED pc
     \/ /\ scanStack = <<>>
        /\ Goto(t, IF t \in pulled THEN "unbusy" ELSE "pull")
        /\ UNCHANGED <<scanStack, evStackFilled, rng, pcache>>
  /\ UNCHANGED <<heap, mark, evDone, busyThreads, control, stack, pulled>>

-----------------------------------------------------------------------------
(* pullFromScanStackImpl: entered at "pull", and at "unbusy" from mark(). *)

Busy(t) == IF pc[t] = "unbusy" THEN busyThreads - 1 ELSE busyThreads

PullAs(t, busy) ==
  /\ pc[t] \in {"pull", "unbusy"}
  /\ scanStack # <<>>
  /\ busyThreads' = busy
  /\ Pop(t)
  /\ pulled' = pulled \cup {t}
  /\ Goto(t, "mark")
  /\ UNCHANGED <<heap, mark, evDone, control, stack>>

\* Mutation: a thread does not count itself.
PullUncounted(t) == PullAs(t, Busy(t))

Pull(t) == PullAs(t, Busy(t) + 1)

\* Mutation: the collecting thread returns when the stack is empty.
PullNoneEager(t) ==
  /\ pc[t] \in {"pull", "unbusy"}
  /\ scanStack = <<>>
  /\ busyThreads' = Busy(t)
  /\ Goto(t, IF t = Main THEN "idle" ELSE "report")
  /\ UNCHANGED <<heap, mark, scanStack, evStackFilled, evDone, control, local>>

PullNone(t) ==
  /\ pc[t] \in {"pull", "unbusy"}
  /\ scanStack = <<>>
  /\ busyThreads' = Busy(t)
  /\ Goto(t, IF t # Main THEN "report" ELSE IF Busy(t) > 0 THEN "wait" ELSE "idle")
  /\ UNCHANGED <<heap, mark, scanStack, evStackFilled, evDone, control, local>>

-----------------------------------------------------------------------------
(* scanBackground *)

ReportNot(t) ==
  /\ pc[t] = "report"
  /\ Goto(t, "loop")
  /\ UNCHANGED <<heap, mark, shared, control, local>>

Report(t) ==
  /\ pc[t] = "report"
  /\ SetDone(t, "loop")
  /\ UNCHANGED <<heap, mark, scanStack, evStackFilled, busyThreads, control, local>>

\* while (!stopGC)
Loop(t) ==
  /\ pc[t] = "loop"
  /\ Goto(t, IF stopGC THEN "stop" ELSE "filled")
  /\ UNCHANGED <<heap, mark, shared, control, local>>

\* evStackFilled.wait()
WaitFilled(t) ==
  /\ pc[t] = "filled"
  /\ Goto(t, IF evStackFilled THEN "pull" ELSE "blocked")
  /\ UNCHANGED <<heap, mark, shared, control, local>>

\* pthread_cond_wait may return without a reason.
Spurious(t) ==
  /\ pc[t] = "blocked"
  /\ Goto(t, "pull")
  /\ UNCHANGED <<heap, mark, shared, control, local>>

Stopped(t) ==
  /\ t # Main
  /\ pc[t] = "stop"
  /\ stoppedThreads' = stoppedThreads + 1
  /\ Goto(t, "bye")
  /\ UNCHANGED <<heap, mark, shared, stopGC, numScanThreads, scanThreadData, local>>

Bye(t) ==
  /\ pc[t] = "bye"
  /\ SetDone(t, "ended")
  /\ UNCHANGED <<heap, mark, scanStack, evStackFilled, busyThreads, control, local>>

-----------------------------------------------------------------------------
(* The collecting thread *)

\* On the first collection; any of the threads may fail to be created.
startScanThreads(S) ==
  /\ pc[Main] = "idle"
  /\ scanThreadData = null
  /\ numScanThreads' = Cardinality(ScanThreads)
  /\ scanThreadData' = S
  /\ evStackFilled' = FALSE /\ evDone' = FALSE
  /\ pc' = [t \in Threads |-> IF t \in S THEN "loop" ELSE pc[t]]
  /\ UNCHANGED <<heap, mark, scanStack, busyThreads, stoppedThreads, stopGC, local>>

\* Words i+1 .. i+n of the roots.
Slice(s, i, n) == [k \in 1..n |-> s[i + k]]

\* pushRanges: n roots for every scan thread.
Ranges(roots, n) ==
  IF n > 0 THEN [i \in 1..numScanThreads |-> Slice(roots, (i - 1) * n, n)] ELSE <<>>

\* prepare() and markParallel() up to setting the event.
markParallel(h) ==
  /\ pc[Main] = "idle"
  /\ heap' = h
  /\ mark' = {}
  /\ LET pointersPerThread == Len(h.roots) \div (numScanThreads + 1)
         given == numScanThreads * pointersPerThread
     IN  /\ scanStack' = Ranges(h.roots, pointersPerThread)
         /\ rng' = [rng EXCEPT ![Main] = Slice(h.roots, given, Len(h.roots) - given)]
  /\ pcache' = [pcache EXCEPT ![Main] = null]
  /\ pulled' = pulled \ {Main}
  /\ IF h.roots = <<>> THEN UNCHANGED pc ELSE Goto(Main, "fill")
  /\ UNCHANGED <<evStackFilled, evDone, busyThreads, control, stack>>

Fill ==
  /\ pc[Main] = "fill"
  /\ SetFilled(Main, "mark")
  /\ UNCHANGED <<heap, mark, scanStack, evDone, busyThreads, control, local>>

\* evDone.wait(1.msecs), in markParallel and in stopScanThreads
Waited == IF stopGC THEN "stop" ELSE "pull"

WaitDone ==
  /\ pc[Main] = "wait"
  /\ \/ evDone /\ evDone' = FALSE /\ Goto(Main, Waited)
     \/ ~evDone /\ Goto(Main, "asleep") /\ UNCHANGED evDone
  /\ UNCHANGED <<heap, mark, scanStack, evStackFilled, busyThreads, control, local>>

Wake ==
  /\ pc[Main] = "woken"
  /\ evDone' = FALSE
  /\ Goto(Main, Waited)
  /\ UNCHANGED <<heap, mark, scanStack, evStackFilled, busyThreads, control, local>>

Timeout ==
  /\ pc[Main] = "asleep"
  /\ Goto(Main, Waited)
  /\ UNCHANGED <<heap, mark, shared, control, local>>

StopBegin ==
  /\ pc[Main] = "idle"
  /\ numScanThreads > 0
  /\ stopGC' = TRUE
  /\ Goto(Main, "stop")
  /\ UNCHANGED <<heap, mark, shared, stoppedThreads, numScanThreads, scanThreadData, local>>

StopWaitNoSet ==
  /\ pc[Main] = "stop"
  /\ stoppedThreads < Cardinality(scanThreadData)
  /\ Goto(Main, "wait")
  /\ UNCHANGED <<heap, mark, shared, control, local>>

StopWait ==
  /\ pc[Main] = "stop"
  /\ stoppedThreads < Cardinality(scanThreadData)
  /\ SetFilled(Main, "wait")
  /\ UNCHANGED <<heap, mark, scanStack, evDone, busyThreads, control, local>>

\* joinLowLevelThread, and the end of both events
StopJoin ==
  /\ pc[Main] = "stop"
  /\ stoppedThreads >= Cardinality(scanThreadData)
  /\ \A t \in scanThreadData : pc[t] = "ended"
  /\ scanThreadData' = {}
  /\ numScanThreads' = 0
  /\ Goto(Main, "idle")
  /\ UNCHANGED <<heap, mark, shared, stoppedThreads, stopGC, local>>

-----------------------------------------------------------------------------
\* A step of a thread, other than one the environment decides on.
Step(t) ==
  \/ Visit(t) \/ NextRange(t) \/ scanStackPushLocked(t) \/ scanStackPopLocked(t)
  \/ Pull(t) \/ PullNone(t)
  \/ Report(t) \/ Loop(t) \/ WaitFilled(t) \/ Stopped(t) \/ Bye(t)

MainStep == Fill \/ WaitDone \/ Wake \/ StopWait \/ StopJoin

Next ==
  \/ \E t \in Threads : Step(t) \/ Spurious(t)
  \/ \E S \in SUBSET ScanThreads : startScanThreads(S)
  \/ \E h \in Heaps : markParallel(h)
  \/ MainStep \/ Timeout \/ StopBegin

Fairness == (\A t \in Threads : WF_vars(Step(t))) /\ WF_vars(MainStep)

Spec == Init /\ [][Next]_vars /\ Fairness

-----------------------------------------------------------------------------
MainLabels == {"idle", "fill", "mark", "push", "pull", "unbusy", "wait", "asleep", "woken", "stop"}
ScanLabels == {"none", "loop", "filled", "blocked", "pull", "mark", "push", "unbusy", "report",
               "stop", "bye", "ended"}

\* The collecting thread and the scan threads have their own parts of the code.
TypeOK ==
  /\ heap \in Heaps \cup {EmptyHeap}
  /\ mark \subseteq Objects
  /\ scanStack \in Seq(ScanRange)
  /\ evStackFilled \in BOOLEAN /\ evDone \in BOOLEAN /\ stopGC \in BOOLEAN
  /\ busyThreads \in Nat /\ stoppedThreads \in Nat /\ numScanThreads \in Nat
  /\ scanThreadData \in (SUBSET ScanThreads) \cup {null}
  /\ pc \in [Threads -> MainLabels \cup ScanLabels]
  /\ pc[Main] \in MainLabels
  /\ \A t \in ScanThreads : pc[t] \in ScanLabels
  /\ rng \in [Threads -> ScanRange]
  /\ stack \in [Threads -> Seq(ScanRange)]
  /\ pcache \in [Threads -> ({null} \cup (Objects \X {"first", "later"}))]
  /\ pulled \subseteq Threads

\* When markParallel has returned, exactly the blocks that are reachable are
\* marked, however the threads shared the work: sweep() will free no block in
\* use, and every block that is not.
MarkExact == pc[Main] = "idle" => mark = Reachable(heap)

\* When markParallel has returned nobody is scanning any more and no range is
\* left, so that the world can be resumed and the next collection finds the
\* state it expects.
Quiescent ==
  pc[Main] = "idle" =>
    /\ scanStack = <<>>
    /\ busyThreads = 0
    /\ \A t \in ScanThreads : pc[t] \notin {"mark", "push", "unbusy"}

\* While there are ranges on the scan stack evStackFilled is set, from the call
\* that starts the background threads on: resetting it on the last pop never
\* overrides setting it on a push, and no scan thread sleeps beside work.
NoLostWakeup ==
  scanStack # <<>> /\ numScanThreads > 0 /\ pc[Main] # "fill" =>
    evStackFilled /\ \A t \in ScanThreads : pc[t] # "blocked"

\* markParallel returns, and does not need the timeout of evDone.wait for it.
MarkReturns == (pc[Main] = "fill") ~> (pc[Main] = "idle")

\* stopScanThreads returns, without the timeout too: every scan thread is woken
\* up to see stopGC and ends.
StopReturns == (pc[Main] = "stop") ~> (pc[Main] = "idle")
=============================================================================
