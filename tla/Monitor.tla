-------------------------------- MODULE Monitor --------------------------------
(***************************************************************************)
(* rt.monitor_: the monitor every Object can have, which is created by the *)
(* first synchronized statement on it, may be shared by several objects    *)
(* (setSameMutex) or be a core.sync.mutex.Mutex the program supplies, and  *)
(* is given up when the object is finalized.                               *)
(*                                                                         *)
(* Every access to Object.__monitor, to the reference count and to the     *)
(* global mutex gmtx is a step of its own.  The memory of monitors is      *)
(* reused: a freed one may be the next one allocated.                      *)
(***************************************************************************)
EXTENDS Naturals, Sequences, FiniteSets, Functions, TLC

CONSTANTS
  Threads,
  Objects,
  Monitors,     \* blocks calloc can return
  Mutexes,      \* Mutex objects the program makes monitors of objects
  HasDtor,      \* objects whose class has a destructor
  Ownees,       \* objects the program passes to setSameMutex
  MaxDepth,     \* bound: synchronized statements a thread is in at once
  null

ASSUME NullAssumption == null \notin Threads \cup Objects \cup Monitors \cup Mutexes
ASSUME DisjointAssumption == Monitors \cap Mutexes = {}
ASSUME ObjectsAssumption == IsFiniteSet(Objects) /\ HasDtor \subseteq Objects /\ Ownees \subseteq Objects

VARIABLES
  monitor,      \* Object.__monitor
  alloc,        \* the monitors that are allocated
  refs,
  owner,        \* of a monitor's mutex, which is recursive
  count,
  gmtx,
  FINALIZE,     \* the objects with BlkAttr.FINALIZE
  life,         \* of an object: live, dying (being finalized) or dead
  pc,
  op,           \* the call a thread is in
  obj,          \* its object
  ownee,        \* of a thread in setSameMutex
  m,            \* local: the monitor
  held          \* the objects whose synchronized statements a thread is in

heap == <<alloc, refs, owner, count>>
locals == <<op, obj, ownee>>
vars == <<monitor, heap, gmtx, FINALIZE, life, pc, locals, m, held>>

Locks == Monitors \cup Mutexes

\* which block calloc returns, and which of two threads is which, makes no difference
Symmetry == Permutations(Monitors) \cup Permutations(Threads)

(* A thread in the critical section of ensureMonitor owns gmtx; reference   *)
(* counts never go below zero.                                              *)
TypeOK ==
  /\ monitor \in [Objects -> Locks \cup {null}]
  /\ alloc \subseteq Monitors
  /\ refs \in [Monitors -> 0 .. Cardinality(Objects)]
  /\ owner \in [Locks -> Threads \cup {null}]
  /\ count \in [Locks -> 0 .. MaxDepth]
  /\ gmtx \in Threads \cup {null}
  /\ FINALIZE \subseteq Objects
  /\ life \in [Objects -> {"live", "dying", "dead"}]
  /\ pc \in [Threads -> {"idle", "ensure", "alloc", "gmtx", "publish", "won", "lost",
                         "discard", "got", "copy", "delete", "free", "done"}]
  /\ op \in [Threads -> {"none", "enter", "same", "finalize"}]
  /\ obj \in [Threads -> Objects \cup {null}]
  /\ ownee \in [Threads -> Objects \cup {null}]
  /\ m \in [Threads -> Locks \cup {null}]
  /\ \A t \in Threads : held[t] \in Seq(Objects) /\ Len(held[t]) <= MaxDepth
  /\ \A t \in Threads : pc[t] \in {"publish", "won", "lost"} => gmtx = t

Init ==
  /\ monitor = [h \in Objects |-> null]
  /\ alloc = {}
  /\ refs = [c \in Monitors |-> 0]
  /\ owner = [c \in Locks |-> null]
  /\ count = [c \in Locks |-> 0]
  /\ gmtx = null
  /\ FINALIZE = HasDtor
  /\ life = [h \in Objects |-> "live"]
  /\ pc = [t \in Threads |-> "idle"]
  /\ op = [t \in Threads |-> "none"]
  /\ obj = [t \in Threads |-> null]
  /\ ownee = [t \in Threads |-> null]
  /\ m = [t \in Threads |-> null]
  /\ held = [t \in Threads |-> <<>>]

Goto(t, l) == pc' = [pc EXCEPT ![t] = l]

Call(t, name, h, o) ==
  /\ op' = [op EXCEPT ![t] = name]
  /\ obj' = [obj EXCEPT ![t] = h]
  /\ ownee' = [ownee EXCEPT ![t] = o]

Return(t) ==
  /\ Goto(t, "idle")
  /\ Call(t, "none", null, null)
  /\ m' = [m EXCEPT ![t] = null]

\* the threads that have a reference to the object in use
Users(h) == {t \in Threads : h \in {obj[t], ownee[t]} \/ h \in Range(held[t])}

-----------------------------------------------------------------------------
(* The program.  It destroys, or lets the collector find, only objects that *)
(* no thread uses, and shares an object with nobody before setSameMutex, or *)
(* the constructor of Mutex, has given it its monitor.                      *)

\* _d_monitorenter
Enter(t, h) ==
  /\ pc[t] = "idle"
  /\ life[h] = "live"
  /\ Len(held[t]) < MaxDepth
  /\ \A u \in Threads : ownee[u] # h
  /\ Call(t, "enter", h, null)
  /\ Goto(t, "ensure")
  /\ UNCHANGED <<monitor, heap, gmtx, FINALIZE, life, m, held>>

\* _d_setSameMutex; its contract asks for an ownee without a monitor
setSameMutex(t, o, h) ==
  /\ pc[t] = "idle"
  /\ o # h
  /\ o \in Ownees
  /\ life[o] = "live" /\ life[h] = "live"
  /\ monitor[o] = null
  /\ Users(o) = {}
  /\ \A u \in Threads : ownee[u] # h
  /\ Call(t, "same", h, o)
  /\ Goto(t, "ensure")
  /\ UNCHANGED <<monitor, heap, gmtx, FINALIZE, life, m, held>>

\* new Mutex(h), with the same contract
NewMutex(h, c) ==
  /\ life[h] = "live"
  /\ monitor[h] = null
  /\ Users(h) = {}
  /\ \A k \in Objects : monitor[k] # c
  /\ monitor' = [monitor EXCEPT ![h] = c]
  /\ UNCHANGED <<heap, gmtx, FINALIZE, life, pc, locals, m, held>>

\* rt_finalize2, by destroy() or by the collector for objects with the attribute
Finalize(t, h) ==
  /\ pc[t] = "idle"
  /\ life[h] = "live"
  /\ Users(h) = {}
  /\ life' = [life EXCEPT ![h] = "dying"]
  /\ Call(t, "finalize", h, null)
  /\ Goto(t, IF monitor[h] = null THEN "done" ELSE "delete")
  /\ UNCHANGED <<monitor, heap, gmtx, FINALIZE, m, held>>

\* the collector frees an object without the attribute, and calls nothing
Sweep(h) ==
  /\ life[h] = "live"
  /\ Users(h) = {}
  /\ h \notin FINALIZE
  /\ life' = [life EXCEPT ![h] = "dead"]
  /\ UNCHANGED <<monitor, heap, gmtx, FINALIZE, pc, locals, m, held>>

\* _d_newclass, in memory that was given back
New(h) ==
  /\ life[h] = "dead"
  /\ life' = [life EXCEPT ![h] = "live"]
  /\ monitor' = [monitor EXCEPT ![h] = null]
  /\ FINALIZE' = IF h \in HasDtor THEN FINALIZE \cup {h} ELSE FINALIZE \ {h}
  /\ UNCHANGED <<heap, gmtx, pc, locals, m, held>>

-----------------------------------------------------------------------------
(* ensureMonitor                                                            *)

EnsureLoad(t) ==
  /\ pc[t] = "ensure"
  /\ m' = [m EXCEPT ![t] = monitor[obj[t]]]
  /\ Goto(t, IF monitor[obj[t]] = null THEN "alloc" ELSE "got")
  /\ UNCHANGED <<monitor, heap, gmtx, FINALIZE, life, locals, held>>

\* calloc and initMutex
EnsureAlloc(t) ==
  /\ pc[t] = "alloc"
  /\ \E c \in Monitors \ alloc :
       /\ alloc' = alloc \cup {c}
       /\ refs' = [refs EXCEPT ![c] = 0]
       /\ owner' = [owner EXCEPT ![c] = null]
       /\ count' = [count EXCEPT ![c] = 0]
       /\ m' = [m EXCEPT ![t] = c]
  /\ Goto(t, "gmtx")
  /\ UNCHANGED <<monitor, gmtx, FINALIZE, life, locals, held>>

\* mutant: the second look at the monitor is missing
EnsureLockNoCheck(t) ==
  /\ pc[t] = "gmtx"
  /\ gmtx = null
  /\ gmtx' = t
  /\ Goto(t, "publish")
  /\ UNCHANGED <<monitor, heap, FINALIZE, life, locals, m, held>>

EnsureLock(t) ==
  /\ pc[t] = "gmtx"
  /\ gmtx = null
  /\ gmtx' = t
  /\ Goto(t, IF monitor[obj[t]] = null THEN "publish" ELSE "lost")
  /\ UNCHANGED <<monitor, heap, FINALIZE, life, locals, m, held>>

EnsurePublish(t) ==
  /\ pc[t] = "publish"
  /\ refs' = [refs EXCEPT ![m[t]] = 1]
  /\ monitor' = [monitor EXCEPT ![obj[t]] = m[t]]
  /\ Goto(t, "won")
  /\ UNCHANGED <<alloc, owner, count, gmtx, FINALIZE, life, locals, m, held>>

\* mutant: the attribute is not set (Bugzilla 14573)
EnsureWonNoAttr(t) ==
  /\ pc[t] = "won"
  /\ gmtx' = null
  /\ Goto(t, "got")
  /\ UNCHANGED <<monitor, heap, FINALIZE, life, locals, m, held>>

\* "Set the finalize bit so that the monitor gets collected (Bugzilla 14573)"
EnsureWon(t) ==
  /\ pc[t] = "won"
  /\ gmtx' = null
  /\ FINALIZE' = FINALIZE \cup {obj[t]}
  /\ Goto(t, "got")
  /\ UNCHANGED <<monitor, heap, life, locals, m, held>>

EnsureLost(t) ==
  /\ pc[t] = "lost"
  /\ gmtx' = null
  /\ Goto(t, "discard")
  /\ UNCHANGED <<monitor, heap, FINALIZE, life, locals, m, held>>

\* "another thread succeeded instead"
EnsureDiscard(t) ==
  /\ pc[t] = "discard"
  /\ alloc' = alloc \ {m[t]}
  /\ m' = [m EXCEPT ![t] = monitor[obj[t]]]
  /\ Goto(t, "got")
  /\ UNCHANGED <<monitor, refs, owner, count, gmtx, FINALIZE, life, locals, held>>

-----------------------------------------------------------------------------
\* lockMutex(&m.mtx), or lock() of the user's monitor
Lock(t) ==
  /\ pc[t] = "got" /\ op[t] = "enter"
  /\ owner[m[t]] \in {null, t}
  /\ owner' = [owner EXCEPT ![m[t]] = t]
  /\ count' = [count EXCEPT ![m[t]] = @ + 1]
  /\ held' = [held EXCEPT ![t] = Append(@, obj[t])]
  /\ Return(t)
  /\ UNCHANGED <<monitor, alloc, refs, gmtx, FINALIZE, life>>

\* _d_monitorexit looks the monitor up again
Exit(t) ==
  LET n == Len(held[t])
      c == monitor[held[t][n]]
  IN  /\ pc[t] = "idle"
      /\ held[t] # <<>>
      /\ count' = [count EXCEPT ![c] = @ - 1]
      /\ owner' = [owner EXCEPT ![c] = IF count[c] = 1 THEN null ELSE @]
      /\ held' = [held EXCEPT ![t] = SubSeq(@, 1, n - 1)]
      /\ UNCHANGED <<monitor, alloc, refs, gmtx, FINALIZE, life, pc, locals, m>>

SameRefs(t) ==
  /\ pc[t] = "got" /\ op[t] = "same"
  /\ refs' = IF m[t] \in Mutexes THEN refs ELSE [refs EXCEPT ![m[t]] = @ + 1]
  /\ Goto(t, "copy")
  /\ UNCHANGED <<monitor, alloc, owner, count, gmtx, FINALIZE, life, locals, m, held>>

SameCopy(t) ==
  /\ pc[t] = "copy"
  /\ monitor' = [monitor EXCEPT ![ownee[t]] = monitor[obj[t]]]
  /\ Return(t)
  /\ UNCHANGED <<heap, gmtx, FINALIZE, life, held>>

-----------------------------------------------------------------------------
(* _d_monitordelete, and the rest of rt_finalize2                           *)

\* mutant: whoever comes first deletes the monitor
DeleteFirst(t) ==
  LET c == monitor[obj[t]]
  IN  /\ pc[t] = "delete"
      /\ refs' = IF c \in Mutexes THEN refs ELSE [refs EXCEPT ![c] = @ - 1]
      /\ monitor' = IF c \in Mutexes THEN [monitor EXCEPT ![obj[t]] = null] ELSE monitor
      /\ Goto(t, IF c \in Mutexes THEN "done" ELSE "free")
      /\ UNCHANGED <<alloc, owner, count, gmtx, FINALIZE, life, locals, m, held>>

Delete(t) ==
  LET c == monitor[obj[t]]
  IN  /\ pc[t] = "delete"
      /\ refs' = IF c \in Mutexes THEN refs ELSE [refs EXCEPT ![c] = @ - 1]
      /\ monitor' = IF c \in Mutexes THEN [monitor EXCEPT ![obj[t]] = null] ELSE monitor
      /\ Goto(t, IF c \notin Mutexes /\ refs[c] = 1 THEN "free" ELSE "done")
      /\ UNCHANGED <<alloc, owner, count, gmtx, FINALIZE, life, locals, m, held>>

\* "refcount == 0 means unshared => no synchronization required"
Free(t) ==
  /\ pc[t] = "free"
  /\ alloc' = alloc \ {monitor[obj[t]]}
  /\ monitor' = [monitor EXCEPT ![obj[t]] = null]
  /\ Goto(t, "done")
  /\ UNCHANGED <<refs, owner, count, gmtx, FINALIZE, life, locals, m, held>>

\* the vtable pointer is zeroed: the object is never finalized again
Finalized(t, resetMemory) ==
  /\ pc[t] = "done"
  /\ life' = [life EXCEPT ![obj[t]] = "dead"]
  /\ monitor' = IF resetMemory THEN [monitor EXCEPT ![obj[t]] = null] ELSE monitor
  /\ Return(t)
  /\ UNCHANGED <<heap, gmtx, FINALIZE, held>>

Next ==
  \/ \E t \in Threads, h \in Objects : Enter(t, h) \/ Finalize(t, h)
  \/ \E t \in Threads, o, h \in Objects : setSameMutex(t, o, h)
  \/ \E h \in Objects : Sweep(h) \/ New(h)
  \/ \E h \in Objects, c \in Mutexes : NewMutex(h, c)
  \/ \E t \in Threads :
       \/ EnsureLoad(t) \/ EnsureAlloc(t) \/ EnsureLock(t) \/ EnsurePublish(t)
       \/ EnsureWon(t) \/ EnsureLost(t) \/ EnsureDiscard(t)
       \/ Lock(t) \/ Exit(t) \/ SameRefs(t) \/ SameCopy(t) \/ Delete(t) \/ Free(t)
       \/ \E resetMemory \in BOOLEAN : Finalized(t, resetMemory)

Spec == Init /\ [][Next]_vars

-----------------------------------------------------------------------------
(* A synchronized statement excludes the others: a thread inside owns, and  *)
(* keeps owning until it leaves, the very mutex the object's monitor field  *)
(* leads to, which _d_monitorexit will unlock.  No two threads can be       *)
(* inside statements on one object, or on objects that share a monitor.     *)
Exclusion ==
  /\ \A t \in Threads : \A h \in Range(held[t]) :
       monitor[h] # null /\ owner[monitor[h]] = t
  /\ \A t, u \in Threads : t # u =>
       Range(held[t]) \cap Range(held[u]) = {}

(* Nobody gets hold of a freed monitor, neither through an object that is   *)
(* still alive nor in the middle of a call.                                 *)
NoDangling ==
  /\ \A h \in Objects : life[h] = "live" => monitor[h] \in alloc \cup Mutexes \cup {null}
  /\ \A t \in Threads : m[t] \in alloc \cup Mutexes \cup {null}
  /\ \A t \in Threads : pc[t] \in {"delete", "free"} => monitor[obj[t]] \in alloc \cup Mutexes

\* the objects that still count as owners of the monitor
Owners(c) ==
  {h \in Objects : /\ monitor[h] = c
                   /\ \/ life[h] = "live"
                      \/ \E t \in Threads : pc[t] = "delete" /\ obj[t] = h}

(* No monitor is lost (Bugzilla 14573): each one that is allocated is in    *)
(* use by an object that will be finalized, or in the hands of a thread     *)
(* that will publish it or free it.                                         *)
NoLeak ==
  \A c \in alloc :
    \/ \E h \in Owners(c) : h \in FINALIZE \/ Users(h) # {}
    \/ \E t \in Threads : pc[t] \in {"gmtx", "publish", "lost", "discard"} /\ m[t] = c
    \/ \E t \in Threads : pc[t] = "free" /\ monitor[obj[t]] = c
=============================================================================
