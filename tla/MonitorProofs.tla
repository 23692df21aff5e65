---------------------------- MODULE MonitorProofs ----------------------------
(***************************************************************************)
(* Theorems about Monitor, for every number of threads, objects, monitors  *)
(* and nested statements.  Four invariants, each inductive with those      *)
(* before it:                                                              *)
(*   CInv   where each thread is, what it uses, and that an object being   *)
(*          finalized or given its monitor has no other user;              *)
(*   SInv   the reference count of a monitor is not below the number of    *)
(*          objects that have a share in it, and a monitor without shares  *)
(*          is in the hands of one thread at most;                         *)
(*   LInv   a mutex is owned by the thread whose statements are on it,     *)
(*          which locked it as often as it has statements;                 *)
(*   FInv   the counts are exact and the objects with shares have          *)
(*          BlkAttr.FINALIZE.                                              *)
(***************************************************************************)
EXTENDS Monitor, Integers, FiniteSetTheorems, TLAPS

\* Where a thread can be.
Labels == {"idle", "ensure", "alloc", "gmtx", "publish", "won", "lost",
           "discard", "got", "copy", "delete", "free", "done"}

\* The types that the other invariants rest on; the counters are only known to be
\* integers here, their bounds follow from SInv and LInv.
Types ==
  /\ monitor \in [Objects -> Locks \cup {null}]
  /\ alloc \subseteq Monitors
  /\ refs \in [Monitors -> Int]
  /\ owner \in [Locks -> Threads \cup {null}]
  /\ count \in [Locks -> Int]
  /\ gmtx \in Threads \cup {null}
  /\ life \in [Objects -> {"live", "dying", "dead"}]
  /\ pc \in [Threads -> Labels]
  /\ op \in [Threads -> {"none", "enter", "same", "finalize"}]
  /\ obj \in [Threads -> Objects \cup {null}]
  /\ ownee \in [Threads -> Objects \cup {null}]
  /\ m \in [Threads -> Locks \cup {null}]
  /\ held \in [Threads -> Seq(Objects)]

\* The call a thread is in, its arguments and gmtx, by where it is.
Control(t) ==
  /\ pc[t] = "idle" <=> op[t] = "none"
  /\ pc[t] \in {"delete", "free", "done"} <=> op[t] = "finalize"
  /\ pc[t] = "copy" => op[t] = "same"
  /\ op[t] = "none" <=> obj[t] = null
  /\ op[t] = "same" <=> ownee[t] # null
  /\ gmtx = t <=> pc[t] \in {"publish", "won", "lost"}

\* The local m, by where the thread is.
Local(t) ==
  /\ pc[t] \in {"idle", "ensure", "alloc", "delete", "free", "done"} => m[t] = null
  /\ pc[t] \in {"gmtx", "publish", "lost", "discard"} => m[t] \in Monitors
  /\ pc[t] \in {"won", "got", "copy"} => m[t] = monitor[obj[t]] /\ m[t] # null
  /\ pc[t] = "publish" => monitor[obj[t]] = null
  /\ pc[t] \in {"lost", "discard", "delete"} => monitor[obj[t]] # null
  /\ pc[t] \in {"won", "free"} => monitor[obj[t]] \in Monitors

\* The state of the objects a thread uses.
Lives(t) ==
  /\ op[t] \in {"enter", "same"} => life[obj[t]] = "live"
  /\ op[t] = "finalize" => life[obj[t]] = "dying"
  /\ op[t] = "same" => life[ownee[t]] = "live" /\ monitor[ownee[t]] = null /\ ownee[t] \in Ownees
  /\ \A h \in Range(held[t]) : life[h] = "live" /\ monitor[h] # null

\* An object that is being given its monitor, or finalized, has no other user.
Pair(t, u) ==
  /\ ownee[t] # null => obj[u] # ownee[t] /\ ownee[t] \notin Range(held[u])
  /\ ownee[t] # null /\ u # t => ownee[u] # ownee[t]
  /\ op[t] = "finalize" /\ u # t => obj[u] # obj[t]

\* The invariant about control.
CInv == /\ Types
        /\ \A t \in Threads : Control(t) /\ Local(t) /\ Lives(t)
        /\ \A t, u \in Threads : Pair(t, u)

\* t is finalizing h and has not given up its share of the monitor yet;
Deleting(t, h) == pc[t] = "delete" /\ obj[t] = h
\* t has counted a share for the ownee h and will make c its monitor.
Copying(t, h, c) == pc[t] = "copy" /\ ownee[t] = h /\ m[t] = c

\* Object h counts in the references of monitor c.
Counts(h, c) ==
  \/ monitor[h] = c /\ (life[h] = "live" \/ \E t \in Threads : Deleting(t, h))
  \/ \E t \in Threads : Copying(t, h, c)

\* The objects that the reference count of c counts.
Shares(c) == {h \in Objects : Counts(h, c)}

\* Monitor c is in the hands of t alone.
Hand(t, c) ==
  \/ pc[t] \in {"gmtx", "publish", "lost", "discard"} /\ m[t] = c
  \/ pc[t] = "free" /\ monitor[obj[t]] = c

\* The count is not below the number of shares, what is shared or in the hands of a
\* thread is allocated, what is in the hands of a thread has count 0 and is in no
\* other thread's hands.
Sound(c) ==
  /\ refs[c] >= Cardinality(Shares(c))
  /\ Shares(c) # {} => c \in alloc
  /\ \A t \in Threads : Hand(t, c) => c \in alloc /\ refs[c] = 0
  /\ \A t, u \in Threads : Hand(t, c) /\ Hand(u, c) => t = u

\* The invariant about memory: it does not ask for the count to be exact, which it is
\* not once an object with a share has been swept.
SInv == \A c \in Monitors : Sound(c)

\* The synchronized statements of t, from the outermost on, that hold the mutex of c.
Pos(t, c) == {i \in 1 .. Len(held[t]) : monitor[held[t][i]] = c}

\* The owner of a mutex is the one thread with statements on it, and has locked it
\* once for each.
Locked(c) ==
  /\ owner[c] = null => count[c] = 0
  /\ \A t \in Threads : IF owner[c] = t THEN count[c] = Cardinality(Pos(t, c)) /\ Pos(t, c) # {}
                                        ELSE Pos(t, c) = {}

\* The invariant about locks.
LInv == \A c \in Locks : Locked(c)

\* What has a monitor of the runtime's, or a destructor, will be finalized.
Attributed(h) ==
  life[h] = "live" =>
    /\ h \in HasDtor => h \in FINALIZE
    /\ monitor[h] \in Monitors => h \in FINALIZE \/ \E t \in Threads : pc[t] = "won" /\ obj[t] = h

\* No share of an allocated monitor has been lost.
Exact(c) ==
  c \in alloc => /\ refs[c] = Cardinality(Shares(c))
                 /\ Shares(c) # {} \/ \E t \in Threads : Hand(t, c)

\* The invariant about what is left over.
FInv ==
  /\ \A h \in Objects : Attributed(h)
  /\ \A c \in Monitors : Exact(c)

-----------------------------------------------------------------------------
\* The objects that a thread uses.
Uses(t) == {obj[t], ownee[t]} \cup Range(held[t])

\* What CInv says of one thread.
Self(t) == Control(t) /\ Local(t) /\ Lives(t)

\* A step of another thread leaves u as it is, and the objects u uses too; it may only
\* give a monitor to one that has none, unless u relies on its having none.
Undisturbed(u) ==
  /\ pc'[u] = pc[u] /\ op'[u] = op[u] /\ obj'[u] = obj[u] /\ ownee'[u] = ownee[u]
  /\ m'[u] = m[u] /\ held'[u] = held[u]
  /\ gmtx' = u <=> gmtx = u
  /\ \A h \in Uses(u) :
       h # null => /\ life'[h] = life[h]
                   /\ \/ monitor'[h] = monitor[h]
                      \/ /\ monitor[h] = null /\ monitor'[h] # null
                         /\ pc[u] # "publish" /\ h # ownee[u]

\* null is none of the other constants, and no monitor is a mutex of the program's.
LEMMA NullDiffers ==
  /\ null \notin Threads /\ null \notin Objects /\ null \notin Monitors /\ null \notin Mutexes
  /\ null \notin Locks
  /\ \A c \in Monitors : c \notin Mutexes
  /\ Monitors \subseteq Locks /\ Mutexes \subseteq Locks
BY NullAssumption, DisjointAssumption DEF Locks

\* The objects of the statements a thread is in, as a sequence and as a set.
LEMMA Elements ==
  ASSUME Types, NEW t \in Threads
  PROVE  /\ held[t] \in Seq(Objects) /\ Len(held[t]) \in Nat
         /\ \A i \in 1 .. Len(held[t]) : held[t][i] \in Objects /\ held[t][i] \in Range(held[t])
         /\ \A h \in Range(held[t]) : h \in Objects /\ \E i \in 1 .. Len(held[t]) : held[t][i] = h
<1>1. held[t] \in Seq(Objects)
  BY Zenon DEF Types
<1> QED
  BY <1>1 DEF Range

\* What CInv says of a thread survives a step that does not disturb it.
LEMMA OtherThread ==
  ASSUME CInv, NEW u \in Threads, Undisturbed(u)
  PROVE  Self(u)'
<1>1. /\ Types /\ Control(u) /\ Local(u) /\ Lives(u)
      /\ \A h \in Range(held[u]) : h # null
      /\ op[u] # "none" => obj[u] # null
  BY Elements, NullDiffers DEF CInv, Control
<1>2. pc[u] \in Labels /\ op[u] \in {"none", "enter", "same", "finalize"}
  BY <1>1, Zenon DEF Types
<1>3. Control(u)'
  BY <1>1, Zenon DEF Undisturbed, Control
<1>4. pc[u] # "idle" => obj[u] \in Uses(u) /\ obj[u] # null
  BY <1>1, Zenon DEF Control, Uses
<1>5. Local(u)'
  <2>1. /\ pc'[u] = pc[u] /\ obj'[u] = obj[u] /\ m'[u] = m[u]
        /\ pc[u] # "idle" => \/ monitor'[obj[u]] = monitor[obj[u]]
                             \/ /\ monitor[obj[u]] = null /\ monitor'[obj[u]] # null
                                /\ pc[u] # "publish"
    BY <1>4, Zenon DEF Undisturbed
  <2> QED
    BY <1>1, <1>2, <2>1, NullDiffers, Zenon DEF Local
<1>6. Lives(u)'
  <2>1. op'[u] = op[u] /\ obj'[u] = obj[u] /\ ownee'[u] = ownee[u] /\ held'[u] = held[u]
    BY Zenon DEF Undisturbed
  <2>2. op[u] # "none" => life'[obj[u]] = life[obj[u]]
    BY <1>1, Zenon DEF Undisturbed, Uses
  <2>3. op[u] = "same" => life'[ownee[u]] = life[ownee[u]] /\ monitor'[ownee[u]] = monitor[ownee[u]]
    BY <1>1, Zenon DEF Undisturbed, Uses, Control
  <2>4. \A h \in Range(held[u]) : life'[h] = life[h] /\ (monitor[h] # null => monitor'[h] = monitor[h])
    BY <1>1, Zenon DEF Undisturbed, Uses
  <2> QED
    BY <1>1, <2>1, <2>2, <2>3, <2>4, Zenon DEF Lives
<1> QED
  BY <1>3, <1>5, <1>6, Zenon DEF Self

\* A step of t keeps CInv if it keeps it for t and disturbs nobody else;
LEMMA ThreadStep ==
  ASSUME CInv, Types', NEW t \in Threads, Self(t)',
         \A u \in Threads \ {t} : Undisturbed(u),
         \A u \in Threads : Pair(t, u)' /\ Pair(u, t)'
  PROVE  CInv'
<1>1. \A u \in Threads : Self(u)'
  BY OtherThread, Zenon
<1>2. ASSUME NEW u \in Threads \ {t}, NEW w \in Threads \ {t} PROVE Pair(u, w)'
  BY DEF CInv, Pair, Undisturbed
<1> QED
  BY <1>1, <1>2, Zenon DEF CInv, Self

\* a step of no thread, if it disturbs nobody.
LEMMA ObjectStep ==
  ASSUME CInv, Types', \A u \in Threads : Undisturbed(u)
  PROVE  CInv'
<1>1. \A u \in Threads : Self(u)'
  BY OtherThread, Zenon
<1>2. ASSUME NEW u \in Threads, NEW w \in Threads PROVE Pair(u, w)'
  BY DEF CInv, Pair, Undisturbed
<1> QED
  BY <1>1, <1>2, Zenon DEF CInv, Self

\* A step of t that takes up no further object keeps what CInv says of pairs.
LEMMA PairsKept ==
  ASSUME CInv, NEW t \in Threads, \A u \in Threads \ {t} : Undisturbed(u),
         obj'[t] \in {obj[t], null}, ownee'[t] \in {ownee[t], null},
         op'[t] = "finalize" => op[t] = "finalize" /\ obj'[t] = obj[t],
         Range(held'[t]) \subseteq Range(held[t]) \cup {obj[t]}
  PROVE  \A u \in Threads : Pair(t, u)' /\ Pair(u, t)'
<1>1. \A u \in Threads : Pair(t, u) /\ Pair(u, t) /\ Control(u)
  BY Zenon DEF CInv
<1>2. Pair(t, t)'
  BY <1>1, Zenon DEF Pair
<1>3. ASSUME NEW u \in Threads \ {t} PROVE Pair(t, u)'
  BY <1>1 DEF Pair, Undisturbed
<1>4. ASSUME NEW u \in Threads \ {t} PROVE Pair(u, t)'
  <2>1. op[u] = "finalize" => obj[u] # null
    BY <1>1, Zenon DEF Control
  <2> QED
    BY <1>1, <2>1 DEF Pair, Undisturbed
<1> QED
  BY <1>2, <1>3, <1>4, Zenon

\* A step of t that changes no object, only where t is, its m, and perhaps gmtx.
LEMMA LocalStep ==
  ASSUME CInv, Types', NEW t \in Threads, NEW l, NEW x,
         UNCHANGED <<monitor, life, op, obj, ownee, held>>,
         Goto(t, l), m' = [m EXCEPT ![t] = x],
         gmtx' = gmtx \/ (gmtx = null /\ gmtx' = t) \/ (gmtx = t /\ gmtx' = null),
         Self(t)'
  PROVE  CInv'
<1>1. \A u \in Threads \ {t} : pc'[u] = pc[u] /\ m'[u] = m[u]
  BY DEF CInv, Types, Goto
<1>2. \A u \in Threads \ {t} : gmtx' = u <=> gmtx = u
  BY NullDiffers, Zenon
<1>3. \A u \in Threads \ {t} : Undisturbed(u)
  BY <1>1, <1>2, Zenon DEF Undisturbed
<1> QED
  BY <1>3, PairsKept, ThreadStep, Zenon

\* What CInv says of a thread, in the form the steps need it.
LEMMA Facts ==
  ASSUME CInv, NEW t \in Threads
  PROVE  /\ Types /\ Self(t) /\ pc[t] \in Labels
         /\ pc[t] # "idle" => obj[t] \in Objects /\ monitor[obj[t]] \in Locks \cup {null}
         /\ op[t] = "same" => ownee[t] \in Objects
         /\ pc[t] \notin {"idle", "delete", "free", "done"} =>
              op[t] \in {"enter", "same"} /\ life[obj[t]] = "live"
         /\ pc[t] \in {"delete", "free", "done"} => op[t] = "finalize" /\ life[obj[t]] = "dying"
<1>1. Types /\ Self(t)
  BY Zenon DEF CInv, Self
<1>2. pc[t] \in Labels /\ op[t] \in {"none", "enter", "same", "finalize"}
      /\ obj[t] \in Objects \cup {null} /\ ownee[t] \in Objects \cup {null}
  BY <1>1, Zenon DEF Types
<1>3. pc[t] # "idle" => obj[t] \in Objects
  BY <1>1, <1>2, Zenon DEF Self, Control
<1>4. pc[t] # "idle" => monitor[obj[t]] \in Locks \cup {null}
  BY <1>1, <1>3, Zenon DEF Types
<1>5. op[t] = "same" => ownee[t] \in Objects
  BY <1>1, <1>2, Zenon DEF Self, Control
<1>6. pc[t] \notin {"idle", "delete", "free", "done"} => op[t] \in {"enter", "same"} /\ life[obj[t]] = "live"
  BY <1>1, <1>2, Zenon DEF Self, Control, Lives
<1>7. pc[t] \in {"delete", "free", "done"} => op[t] = "finalize" /\ life[obj[t]] = "dying"
  BY <1>1, Zenon DEF Self, Control, Lives
<1> QED
  BY <1>1, <1>2, <1>3, <1>4, <1>5, <1>6, <1>7, Zenon

\* Each step keeps CInv: the first look at the monitor in ensureMonitor,
LEMMA ControlLoad ==
  ASSUME CInv, NEW t \in Threads, EnsureLoad(t)
  PROVE  CInv'
<1> DEFINE x == monitor[obj[t]]
           l == IF x = null THEN "alloc" ELSE "got"
<1>1. /\ Types /\ Self(t) /\ pc[t] = "ensure" /\ x \in Locks \cup {null}
      /\ UNCHANGED <<monitor, alloc, refs, owner, count, gmtx, life, op, obj, ownee, held>>
      /\ Goto(t, l) /\ m' = [m EXCEPT ![t] = x]
  BY Facts, Zenon DEF EnsureLoad, heap, locals
<1> HIDE DEF x
<1>2. Types'
  BY <1>1, Zenon DEF Types, Goto, Labels
<1>3. pc'[t] = l /\ m'[t] = x
  BY <1>1 DEF Types, Goto
<1>4. Self(t)'
  BY <1>1, <1>3 DEF Self, Control, Local, Lives, x
<1> QED
  BY <1>1, <1>2, <1>4, LocalStep, Zenon

\* the allocation of a monitor,
LEMMA ControlAlloc ==
  ASSUME CInv, NEW t \in Threads, EnsureAlloc(t)
  PROVE  CInv'
<1>1. PICK c \in Monitors \ alloc :
        /\ alloc' = alloc \cup {c} /\ refs' = [refs EXCEPT ![c] = 0]
        /\ owner' = [owner EXCEPT ![c] = null] /\ count' = [count EXCEPT ![c] = 0]
        /\ m' = [m EXCEPT ![t] = c]
  BY Zenon DEF EnsureAlloc
<1>2. /\ Types /\ Self(t) /\ pc[t] = "alloc"
      /\ UNCHANGED <<monitor, gmtx, life, op, obj, ownee, held>>
      /\ Goto(t, "gmtx")
  BY Facts, Zenon DEF EnsureAlloc, locals
<1>3. Types'
  BY <1>1, <1>2 DEF Types, Goto, Labels, Locks
<1>4. pc'[t] = "gmtx" /\ m'[t] = c
  BY <1>1, <1>2 DEF Types, Goto
<1>5. Self(t)'
  BY <1>2, <1>4, Zenon DEF Self, Control, Local, Lives
<1> QED
  BY <1>1, <1>2, <1>3, <1>5, LocalStep, Zenon

\* the critical section of ensureMonitor, entered and left,
LEMMA ControlGmtx ==
  ASSUME CInv, NEW t \in Threads, EnsureLock(t) \/ EnsureWon(t) \/ EnsureLost(t)
  PROVE  CInv'
<1> DEFINE l == pc'[t]
<1>1. /\ Types /\ Self(t)
      /\ UNCHANGED <<monitor, alloc, refs, owner, count, life, op, obj, ownee, m, held>>
      /\ \/ /\ pc[t] = "gmtx" /\ gmtx = null /\ gmtx' = t
            /\ Goto(t, IF monitor[obj[t]] = null THEN "publish" ELSE "lost")
         \/ pc[t] = "won" /\ gmtx' = null /\ Goto(t, "got")
         \/ pc[t] = "lost" /\ gmtx' = null /\ Goto(t, "discard")
  BY Facts, Zenon DEF EnsureLock, EnsureWon, EnsureLost, heap, locals
<1>2. /\ \/ /\ pc[t] = "gmtx" /\ gmtx = null /\ gmtx' = t
            /\ pc'[t] = IF monitor[obj[t]] = null THEN "publish" ELSE "lost"
         \/ pc[t] = "won" /\ gmtx = t /\ gmtx' = null /\ pc'[t] = "got"
         \/ pc[t] = "lost" /\ gmtx = t /\ gmtx' = null /\ pc'[t] = "discard"
      /\ Goto(t, pc'[t]) /\ pc'[t] \in Labels /\ m' = [m EXCEPT ![t] = m[t]]
  BY <1>1 DEF Types, Goto, Labels, Self, Control
<1>3. Types'
  <2>1. gmtx' \in Threads \cup {null}
    BY <1>2, Zenon
  <2>2. pc' \in [Threads -> Labels]
    BY <1>1, <1>2, Zenon DEF Types, Goto
  <2> QED
    BY <1>1, <2>1, <2>2, Zenon DEF Types
<1>4. Self(t)'
  BY <1>1, <1>2, NullDiffers DEF Self, Control, Local, Lives
<1> QED
  BY <1>1, <1>2, <1>3, <1>4, LocalStep, Zenon

\* the loser freeing its monitor and taking the winner's,
LEMMA ControlDiscard ==
  ASSUME CInv, NEW t \in Threads, EnsureDiscard(t)
  PROVE  CInv'
<1> DEFINE x == monitor[obj[t]]
<1>1. /\ Types /\ Self(t) /\ pc[t] = "discard" /\ x \in Locks \cup {null} /\ alloc' = alloc \ {m[t]}
      /\ UNCHANGED <<monitor, refs, owner, count, gmtx, life, op, obj, ownee, held>>
      /\ Goto(t, "got") /\ m' = [m EXCEPT ![t] = x]
  BY Facts, Zenon DEF EnsureDiscard, heap, locals
<1> HIDE DEF x
<1>2. Types'
  BY <1>1, Zenon DEF Types, Goto, Labels
<1>3. pc'[t] = "got" /\ m'[t] = x
  BY <1>1, Zenon DEF Types, Goto
<1>4. Self(t)'
  BY <1>1, <1>3, Zenon DEF Self, Control, Local, Lives, x
<1> QED
  BY <1>1, <1>2, <1>4, LocalStep, Zenon

\* and setSameMutex counting the ownee.
LEMMA ControlSameRefs ==
  ASSUME CInv, NEW t \in Threads, SameRefs(t)
  PROVE  CInv'
<1>1. /\ Types /\ Self(t) /\ pc[t] = "got" /\ op[t] = "same"
      /\ refs' = refs \/ refs' = [refs EXCEPT ![m[t]] = @ + 1]
      /\ UNCHANGED <<monitor, alloc, owner, count, gmtx, life, op, obj, ownee, m, held>>
      /\ Goto(t, "copy") /\ m' = [m EXCEPT ![t] = m[t]]
  BY Facts, Zenon DEF SameRefs, locals, Types
<1>2. Types'
  BY <1>1 DEF Types, Goto, Labels
<1>3. pc'[t] = "copy"
  BY <1>1, Zenon DEF Types, Goto
<1>4. Self(t)'
  BY <1>1, <1>3, Zenon DEF Self, Control, Local, Lives
<1> QED
  BY <1>1, <1>2, <1>4, LocalStep, Zenon

\* An object without users is in nobody's use, and so is a dead one; the object being
\* finalized is in the use of its finalizer alone.
LEMMA Unused ==
  ASSUME CInv
  PROVE  /\ \A h \in Objects : Users(h) = {} => \A u \in Threads : h \notin Uses(u)
         /\ \A h \in Objects : life[h] = "dead" => \A u \in Threads : h \notin Uses(u)
         /\ \A t \in Threads : op[t] = "finalize" =>
              /\ \A u \in Threads \ {t} : obj[t] \notin Uses(u)
              /\ obj[t] \notin Range(held[t])
<1>0. /\ \A u \in Threads : Control(u) /\ Lives(u) /\ Types
      /\ \A t, u \in Threads : Pair(t, u)
  BY Zenon DEF CInv
<1>1. \A h \in Objects : Users(h) = {} => \A u \in Threads : h \notin Uses(u)
  BY Zenon DEF Users, Uses
<1>2. ASSUME NEW h \in Objects, NEW u \in Threads, h \in Uses(u)
      PROVE  \/ h = obj[u] /\ op[u] = "finalize" /\ life[h] = "dying"
             \/ life[h] = "live"
  <2>1. CASE h = obj[u]
    BY <1>0, <2>1, NullDiffers DEF Control, Lives, Types
  <2>2. CASE h = ownee[u]
    BY <1>0, <2>2, NullDiffers DEF Control, Lives
  <2>3. CASE h \in Range(held[u])
    BY <1>0, <2>3, Zenon DEF Lives
  <2> QED
    BY <1>2, <2>1, <2>2, <2>3, Zenon DEF Uses
<1>3. ASSUME NEW t \in Threads, op[t] = "finalize"
      PROVE  /\ \A u \in Threads \ {t} : obj[t] \notin Uses(u)
             /\ obj[t] \notin Range(held[t])
  <2>1. obj[t] \in Objects /\ life[obj[t]] = "dying"
    BY <1>0, <1>3 DEF Control, Lives, Types
  <2> QED
    BY <1>0, <1>2, <1>3, <2>1, Zenon DEF Pair, Lives
<1> QED
  BY <1>1, <1>2, <1>3, Zenon

\* A thread enters _d_monitorenter,
LEMMA ControlEnter ==
  ASSUME CInv, NEW t \in Threads, NEW h \in Objects, Enter(t, h)
  PROVE  CInv'
<1>1. /\ Types /\ Self(t) /\ pc[t] = "idle" /\ life[h] = "live" /\ \A u \in Threads : ownee[u] # h
      /\ UNCHANGED <<monitor, alloc, refs, owner, count, gmtx, life, m, held>>
      /\ Goto(t, "ensure") /\ Call(t, "enter", h, null)
  BY Facts, Zenon DEF Enter, heap
<1>2. Types'
  BY <1>1, Zenon DEF Types, Goto, Call, Labels
<1>3. /\ pc'[t] = "ensure" /\ op'[t] = "enter" /\ obj'[t] = h /\ ownee'[t] = null
      /\ \A u \in Threads \ {t} : pc'[u] = pc[u] /\ op'[u] = op[u] /\ obj'[u] = obj[u] /\ ownee'[u] = ownee[u]
  BY <1>1 DEF Types, Goto, Call
<1>4. Self(t)'
  BY <1>1, <1>3, NullDiffers, Zenon DEF Self, Control, Local, Lives
<1>5. \A u \in Threads \ {t} : Undisturbed(u)
  BY <1>1, <1>3, Zenon DEF Undisturbed
<1>6. ASSUME NEW u \in Threads PROVE Pair(t, u)' /\ Pair(u, t)'
  <2>1. Pair(t, u)'
    BY <1>3, Zenon DEF Pair
  <2>2. ASSUME u # t PROVE Pair(u, t)'
    <3>1. Pair(u, t) /\ Lives(u)
      BY Zenon DEF CInv
    <3> QED
      BY <1>1, <1>3, <2>2, <3>1 DEF Pair, Lives
  <2> QED
    BY <2>1, <2>2, Zenon
<1> QED
  BY <1>2, <1>4, <1>5, <1>6, ThreadStep

\* _d_setSameMutex,
LEMMA ControlSame ==
  ASSUME CInv, NEW t \in Threads, NEW o \in Objects, NEW h \in Objects, setSameMutex(t, o, h)
  PROVE  CInv'
<1>1. /\ Types /\ Self(t) /\ pc[t] = "idle" /\ o # h /\ o \in Ownees /\ life[o] = "live" /\ life[h] = "live"
      /\ monitor[o] = null /\ \A u \in Threads : ownee[u] # h
      /\ UNCHANGED <<monitor, alloc, refs, owner, count, gmtx, life, m, held>>
      /\ Goto(t, "ensure") /\ Call(t, "same", h, o)
  BY Facts, Zenon DEF setSameMutex, heap
<1>0. \A u \in Threads : o # obj[u] /\ o # ownee[u] /\ o \notin Range(held[u])
  BY Unused DEF setSameMutex, Uses
<1>2. Types'
  BY <1>1, Zenon DEF Types, Goto, Call, Labels
<1>3. /\ pc'[t] = "ensure" /\ op'[t] = "same" /\ obj'[t] = h /\ ownee'[t] = o
      /\ \A u \in Threads \ {t} : pc'[u] = pc[u] /\ op'[u] = op[u] /\ obj'[u] = obj[u] /\ ownee'[u] = ownee[u]
  BY <1>1 DEF Types, Goto, Call
<1>4. Self(t)'
  BY <1>1, <1>3, NullDiffers DEF Self, Control, Local, Lives
<1>5. \A u \in Threads \ {t} : Undisturbed(u)
  BY <1>1, <1>3, Zenon DEF Undisturbed
<1>6. ASSUME NEW u \in Threads PROVE Pair(t, u)' /\ Pair(u, t)'
  <2>1. Pair(t, u)'
    BY <1>0, <1>1, <1>3 DEF Pair
  <2>2. ASSUME u # t PROVE Pair(u, t)'
    <3>1. Pair(u, t) /\ Lives(u)
      BY Zenon DEF CInv
    <3> QED
      BY <1>0, <1>1, <1>3, <2>2, <3>1 DEF Pair, Lives
  <2> QED
    BY <2>1, <2>2, Zenon
<1> QED
  BY <1>2, <1>4, <1>5, <1>6, ThreadStep, Zenon

\* or rt_finalize2.
LEMMA ControlFinalize ==
  ASSUME CInv, NEW t \in Threads, NEW h \in Objects, Finalize(t, h)
  PROVE  CInv'
<1> DEFINE l == IF monitor[h] = null THEN "done" ELSE "delete"
<1>1. /\ Types /\ Self(t) /\ pc[t] = "idle" /\ life[h] = "live" /\ life' = [life EXCEPT ![h] = "dying"]
      /\ UNCHANGED <<monitor, alloc, refs, owner, count, gmtx, m, held>>
      /\ Goto(t, l) /\ Call(t, "finalize", h, null)
  BY Facts, Zenon DEF Finalize, heap
<1>0. \A u \in Threads : h # obj[u] /\ h # ownee[u] /\ h \notin Range(held[u])
  BY Unused, Zenon DEF Finalize, Uses
<1>2. Types'
  BY <1>1, Zenon DEF Types, Goto, Call, Labels
<1>3. /\ pc'[t] = l /\ op'[t] = "finalize" /\ obj'[t] = h /\ ownee'[t] = null
      /\ \A u \in Threads \ {t} : pc'[u] = pc[u] /\ op'[u] = op[u] /\ obj'[u] = obj[u] /\ ownee'[u] = ownee[u]
  BY <1>1 DEF Types, Goto, Call
<1>7. life'[h] = "dying" /\ \A k \in Objects : k # h => life'[k] = life[k]
  BY <1>1, Zenon DEF Types
<1>4. Self(t)'
  <2>1. Control(t)' /\ Local(t)'
    BY <1>1, <1>3, NullDiffers, Zenon DEF Self, Control, Local
  <2>2. Lives(t)'
    BY <1>0, <1>1, <1>3, <1>7, Elements, SMTT(20) DEF Self, Lives
  <2> QED
    BY <2>1, <2>2, Zenon DEF Self
<1>5. ASSUME NEW u \in Threads \ {t} PROVE Undisturbed(u)
  <2>1. \A k \in Uses(u) : k # null => k \in Objects /\ k # h
    BY <1>0, <1>1, Elements DEF Uses, Types
  <2> QED
    BY <1>1, <1>3, <1>7, <2>1, Zenon DEF Undisturbed
<1>6. ASSUME NEW u \in Threads PROVE Pair(t, u)' /\ Pair(u, t)'
  <2>1. Pair(t, u)'
    BY <1>0, <1>1, <1>3, Zenon DEF Pair
  <2>2. ASSUME u # t PROVE Pair(u, t)'
    <3>1. Pair(u, t)
      BY Zenon DEF CInv
    <3> QED
      BY <1>0, <1>1, <1>3, <2>2, <3>1, Zenon DEF Pair
  <2> QED
    BY <2>1, <2>2, Zenon
<1> QED
  BY <1>2, <1>4, <1>5, <1>6, ThreadStep, Zenon

\* What returning from a call changes.
LEMMA Returned ==
  ASSUME Types, NEW t \in Threads, Return(t)
  PROVE  /\ pc'[t] = "idle" /\ op'[t] = "none" /\ obj'[t] = null /\ ownee'[t] = null /\ m'[t] = null
         /\ \A u \in Threads \ {t} : /\ pc'[u] = pc[u] /\ op'[u] = op[u] /\ obj'[u] = obj[u]
                                     /\ ownee'[u] = ownee[u] /\ m'[u] = m[u]
         /\ pc' \in [Threads -> Labels] /\ op' \in [Threads -> {"none", "enter", "same", "finalize"}]
         /\ obj' \in [Threads -> Objects \cup {null}] /\ ownee' \in [Threads -> Objects \cup {null}]
         /\ m' \in [Threads -> Locks \cup {null}]
BY Zenon DEF Types, Return, Goto, Call, Labels

\* The winner gives the object its monitor: no other thread that uses the object is
\* about to give it one, since that takes gmtx.
LEMMA ControlPublish ==
  ASSUME CInv, NEW t \in Threads, EnsurePublish(t)
  PROVE  CInv'
<1> DEFINE h == obj[t]
<1>1. /\ Types /\ Self(t) /\ pc[t] = "publish" /\ h \in Objects
      /\ refs' = [refs EXCEPT ![m[t]] = 1] /\ monitor' = [monitor EXCEPT ![h] = m[t]]
      /\ UNCHANGED <<alloc, owner, count, gmtx, life, op, obj, ownee, m, held>> /\ Goto(t, "won")
  BY Facts, Zenon DEF EnsurePublish, locals
<1>2. m[t] \in Monitors /\ monitor[h] = null /\ gmtx = t
  BY <1>1, Zenon DEF Self, Control, Local
<1>3. Types'
  BY <1>1, <1>2, NullDiffers DEF Types, Goto, Labels
<1>4. /\ pc'[t] = "won" /\ \A u \in Threads \ {t} : pc'[u] = pc[u]
      /\ monitor'[h] = m[t] /\ \A k \in Objects : k # h => monitor'[k] = monitor[k]
  BY <1>1, Zenon DEF Types, Goto
<1>5. \A u \in Threads : Pair(t, u) /\ Pair(u, t) /\ Control(u)
  BY Zenon DEF CInv
<1>n. m[t] # null
  BY <1>2, NullDiffers, Zenon
<1>6. Self(t)'
  <2>1. Control(t)' /\ Local(t)'
    BY <1>1, <1>2, <1>4, <1>n, Zenon DEF Self, Control, Local
  <2>2. op[t] = "same" => ownee[t] # h /\ ownee[t] \in Objects
    BY <1>1, <1>5, Facts, Zenon DEF Pair, Self, Control
  <2>3. \A k \in Range(held[t]) : monitor'[k] # null
    BY <1>1, <1>4, <1>n, Elements, Zenon DEF Self, Lives
  <2>4. Lives(t)'
    BY <1>1, <1>4, <2>2, <2>3, Zenon DEF Self, Lives
  <2> QED
    BY <2>1, <2>4, Zenon DEF Self
<1>7. ASSUME NEW u \in Threads \ {t} PROVE Undisturbed(u)
  <2>1. pc[u] # "publish"
    BY <1>2, <1>5, Zenon DEF Control
  <2>2. h # ownee[u]
    BY <1>1, <1>5, NullDiffers, Zenon DEF Pair
  <2>3. \A k \in Uses(u) : k # null => k \in Objects
    BY <1>1, Elements DEF Uses, Types
  <2> HIDE DEF h
  <2> QED
    BY <1>1, <1>2, <1>4, <1>n, <2>1, <2>2, <2>3, Zenon DEF Undisturbed
<1>8. \A u \in Threads : Pair(t, u)' /\ Pair(u, t)'
  BY <1>1, <1>7, PairsKept, Zenon
<1> QED
  BY <1>3, <1>6, <1>7, <1>8, ThreadStep, Zenon

\* Entering a statement puts its object at the end of the sequence;
LEMMA Appended ==
  ASSUME NEW s \in Seq(Objects), NEW h \in Objects
  PROVE  /\ Append(s, h) \in Seq(Objects) /\ Len(Append(s, h)) = Len(s) + 1
         /\ Append(s, h)[Len(s) + 1] = h /\ \A i \in 1 .. Len(s) : Append(s, h)[i] = s[i]
         /\ Range(Append(s, h)) = Range(s) \cup {h}
<1>1. /\ Append(s, h) \in Seq(Objects) /\ Len(Append(s, h)) = Len(s) + 1
      /\ Append(s, h)[Len(s) + 1] = h /\ \A i \in 1 .. Len(s) : Append(s, h)[i] = s[i]
      /\ Len(s) \in Nat /\ DOMAIN s = 1 .. Len(s) /\ DOMAIN Append(s, h) = 1 .. Len(s) + 1
  OBVIOUS
<1>2. ASSUME NEW x \in Range(Append(s, h)) PROVE x \in Range(s) \cup {h}
  BY <1>1 DEF Range
<1>3. ASSUME NEW x \in Range(s) \cup {h} PROVE x \in Range(Append(s, h))
  <2>1. CASE x = h
    BY <1>1, <2>1 DEF Range
  <2>2. CASE x \in Range(s)
    <3>1. PICK i \in 1 .. Len(s) : x = s[i]
      BY <1>1, <2>2, Zenon DEF Range
    <3>2. i \in 1 .. Len(s) + 1 /\ Append(s, h)[i] = x
      BY <1>1, <3>1
    <3> QED
      BY <1>1, <3>2, Zenon DEF Range
  <2> QED
    BY <2>1, <2>2, Zenon
<1> QED
  BY <1>1, <1>2, <1>3

\* leaving it takes that object away.
Rest(s) == SubSeq(s, 1, Len(s) - 1)

\* All but the last of a sequence.
LEMMA Popped ==
  ASSUME NEW s \in Seq(Objects), s # <<>>
  PROVE  /\ Len(s) \in Nat /\ Len(s) >= 1 /\ s[Len(s)] \in Range(s) /\ s[Len(s)] \in Objects
         /\ Rest(s) \in Seq(Objects) /\ Len(Rest(s)) = Len(s) - 1
         /\ \A i \in 1 .. Len(s) - 1 : Rest(s)[i] = s[i]
         /\ Range(Rest(s)) \subseteq Range(s)
<1>1. /\ Len(s) \in Nat /\ Len(s) >= 1 /\ DOMAIN s = 1 .. Len(s)
  OBVIOUS
<1>2. /\ Rest(s) \in Seq(Objects) /\ Len(Rest(s)) = Len(s) - 1 /\ DOMAIN Rest(s) = 1 .. Len(s) - 1
      /\ \A i \in 1 .. Len(s) - 1 : Rest(s)[i] = s[i]
  BY <1>1 DEF Rest
<1>3. s[Len(s)] \in Range(s) /\ s[Len(s)] \in Objects
  BY <1>1 DEF Range
<1>4. Range(Rest(s)) \subseteq Range(s)
  BY <1>1, <1>2 DEF Range
<1> QED
  BY <1>1, <1>2, <1>3, <1>4, Zenon

\* lockMutex is the end of _d_monitorenter;
LEMMA ControlLock ==
  ASSUME CInv, NEW t \in Threads, Lock(t)
  PROVE  CInv'
<1>1. /\ Types /\ Self(t) /\ pc[t] = "got" /\ obj[t] \in Objects /\ life[obj[t]] = "live"
      /\ owner' = [owner EXCEPT ![m[t]] = t] /\ count' = [count EXCEPT ![m[t]] = @ + 1]
      /\ held' = [held EXCEPT ![t] = Append(held[t], obj[t])]
      /\ UNCHANGED <<monitor, alloc, refs, gmtx, life>> /\ Return(t)
  BY Facts, Zenon DEF Lock
<1>2. monitor[obj[t]] # null
  BY <1>1, Zenon DEF Self, Local
<1>3. /\ held'[t] \in Seq(Objects) /\ Range(held'[t]) = Range(held[t]) \cup {obj[t]}
      /\ \A u \in Threads \ {t} : held'[u] = held[u]
      /\ held' \in [Threads -> Seq(Objects)]
  BY <1>1, Appended DEF Types
<1>4. Types'
  <2>1. m[t] \in Locks
    BY <1>1, Zenon DEF Self, Local, Types
  <2>2. owner' \in [Locks -> Threads \cup {null}]
    BY <1>1, Zenon DEF Types
  <2>3. count' \in [Locks -> Int]
    BY <1>1, <2>1 DEF Types
  <2> QED
    BY <1>1, <1>3, <2>2, <2>3, Returned, Zenon DEF Types
<1>5. Self(t)'
  <2>1. Control(t)'
    BY <1>1, Returned, Zenon DEF Self, Control
  <2>2. Local(t)'
    BY <1>1, Returned, Zenon DEF Self, Local
  <2>3. Lives(t)'
    BY <1>1, <1>2, <1>3, Returned, SMTT(20) DEF Self, Lives
  <2> QED
    BY <2>1, <2>2, <2>3, Zenon DEF Self
<1>6. \A u \in Threads \ {t} : Undisturbed(u)
  BY <1>1, <1>3, Returned DEF Undisturbed
<1>7. \A u \in Threads : Pair(t, u)' /\ Pair(u, t)'
  BY <1>1, <1>3, <1>6, Returned, PairsKept, Zenon
<1> QED
  BY <1>4, <1>5, <1>6, <1>7, ThreadStep, Zenon

\* _d_monitorexit leaves the last statement entered;
LEMMA ControlExit ==
  ASSUME CInv, NEW t \in Threads, Exit(t)
  PROVE  CInv'
<1> DEFINE c == monitor[held[t][Len(held[t])]]
<1>1. /\ Types /\ Self(t) /\ pc[t] = "idle" /\ held[t] # <<>>
      /\ count' = [count EXCEPT ![c] = @ - 1]
      /\ owner' = [owner EXCEPT ![c] = IF count[c] = 1 THEN null ELSE @]
      /\ held' = [held EXCEPT ![t] = Rest(held[t])]
      /\ UNCHANGED <<monitor, alloc, refs, gmtx, life, pc, op, obj, ownee, m>>
  BY Facts, Zenon DEF Exit, locals, Rest
<1>2. held[t] \in Seq(Objects)
  BY <1>1, Zenon DEF Types
<1>c. c \in Locks
  <2>1. held[t][Len(held[t])] \in Range(held[t]) /\ held[t][Len(held[t])] \in Objects
    BY <1>1, <1>2, Popped, Zenon
  <2>2. monitor[held[t][Len(held[t])]] # null
    BY <1>1, <2>1, Zenon DEF Self, Lives
  <2> QED
    BY <1>1, <2>1, <2>2, Zenon DEF Types
<1> HIDE DEF c
<1>3. /\ held'[t] = Rest(held[t]) /\ Range(held'[t]) \subseteq Range(held[t])
      /\ \A u \in Threads \ {t} : held'[u] = held[u]
      /\ held' \in [Threads -> Seq(Objects)]
  BY <1>1, <1>2, Popped, Zenon DEF Types
<1>4. Types'
  <2>1. owner' \in [Locks -> Threads \cup {null}]
    BY <1>1, <1>c, Zenon DEF Types
  <2>2. count' \in [Locks -> Int]
    BY <1>1, <1>c DEF Types
  <2> QED
    BY <1>1, <1>3, <2>1, <2>2, Zenon DEF Types
<1>5. Self(t)'
  BY <1>1, <1>3, Zenon DEF Self, Control, Local, Lives
<1>6. \A u \in Threads \ {t} : Undisturbed(u)
  BY <1>1, <1>3, Zenon DEF Undisturbed
<1>7. \A u \in Threads : Pair(t, u)' /\ Pair(u, t)'
  BY <1>1, <1>3, <1>6, PairsKept, Zenon
<1> QED
  BY <1>4, <1>5, <1>6, <1>7, ThreadStep, Zenon

\* setSameMutex gives the ownee, which nobody else uses, its monitor.
LEMMA ControlCopy ==
  ASSUME CInv, NEW t \in Threads, SameCopy(t)
  PROVE  CInv'
<1> DEFINE o == ownee[t]
<1>1. /\ Types /\ Self(t) /\ pc[t] = "copy" /\ op[t] = "same" /\ o \in Objects
      /\ monitor' = [monitor EXCEPT ![o] = monitor[obj[t]]]
      /\ UNCHANGED <<alloc, refs, owner, count, gmtx, life, held>> /\ Return(t)
  BY Facts, Zenon DEF SameCopy, heap, Self, Control
<1>2. monitor[obj[t]] # null /\ monitor[obj[t]] \in Locks \cup {null}
  BY <1>1, Facts, Zenon DEF Self, Local
<1>3. Types'
  BY <1>1, <1>2, Returned, Zenon DEF Types
<1>4. /\ \A k \in Objects : k # o => monitor'[k] = monitor[k]
      /\ o # null
  BY <1>1, NullDiffers DEF Types
<1>5. \A u \in Threads : o \notin Range(held[u]) /\ o # obj[u] /\ (u # t => o # ownee[u])
  BY <1>1, <1>4, Zenon DEF CInv, Pair
<1> HIDE DEF o
<1>6. Self(t)'
  <2>1. Control(t)' /\ Local(t)'
    BY <1>1, Returned DEF Self, Control, Local
  <2>2. Lives(t)'
    BY <1>1, <1>4, <1>5, Returned, Elements DEF Self, Lives
  <2> QED
    BY <2>1, <2>2, Zenon DEF Self
<1>7. ASSUME NEW u \in Threads \ {t} PROVE Undisturbed(u)
  <2>1. \A k \in Uses(u) : k # null => k \in Objects /\ k # o
    BY <1>1, <1>5, Elements DEF Uses, Types
  <2> QED
    BY <1>1, <1>4, <2>1, Returned DEF Undisturbed
<1>8. \A u \in Threads : Pair(t, u)' /\ Pair(u, t)'
  BY <1>1, <1>7, Returned, PairsKept, Zenon
<1> QED
  BY <1>3, <1>6, <1>7, <1>8, ThreadStep, Zenon

\* A step of a finalizer, which changes nothing but its own object:
LEMMA FinalizerStep ==
  ASSUME CInv, Types', NEW t \in Threads, op[t] = "finalize", obj[t] \in Objects,
         \A k \in Objects : k # obj[t] => monitor'[k] = monitor[k] /\ life'[k] = life[k],
         UNCHANGED <<gmtx, held>>, obj'[t] \in {obj[t], null}, ownee'[t] = null,
         op'[t] = "finalize" => obj'[t] = obj[t],
         \A u \in Threads \ {t} : /\ pc'[u] = pc[u] /\ op'[u] = op[u] /\ obj'[u] = obj[u]
                                  /\ ownee'[u] = ownee[u] /\ m'[u] = m[u],
         Control(t)' /\ Local(t)' /\ (op'[t] = "finalize" => life'[obj[t]] = "dying"),
         op'[t] \in {"none", "finalize"}
  PROVE  CInv'
<1>1. /\ Types /\ Lives(t)
      /\ \A u \in Threads \ {t} : obj[t] \notin Uses(u)
      /\ obj[t] \notin Range(held[t])
  BY Unused, Zenon DEF CInv
<1>2. Lives(t)'
  BY <1>1, Elements DEF Lives
<1>3. ASSUME NEW u \in Threads \ {t} PROVE Undisturbed(u)
  <2>1. \A k \in Uses(u) : k # null => k \in Objects /\ k # obj[t]
    BY <1>1, Elements, SMTT(20) DEF Uses, Types
  <2> QED
    BY <2>1 DEF Undisturbed
<1>4. \A u \in Threads : Pair(t, u)' /\ Pair(u, t)'
  BY <1>3, PairsKept, Zenon
<1> QED
  BY <1>2, <1>3, <1>4, ThreadStep, SMTT(20) DEF Self

\* giving up the share in _d_monitordelete,
LEMMA ControlDelete ==
  ASSUME CInv, NEW t \in Threads, Delete(t)
  PROVE  CInv'
<1> DEFINE c == monitor[obj[t]]
           l == IF c \notin Mutexes /\ refs[c] = 1 THEN "free" ELSE "done"
<1>1. /\ Types /\ Self(t) /\ pc[t] = "delete" /\ op[t] = "finalize" /\ obj[t] \in Objects /\ life[obj[t]] = "dying"
      /\ refs' = refs \/ refs' = [refs EXCEPT ![c] = @ - 1]
      /\ monitor' = IF c \in Mutexes THEN [monitor EXCEPT ![obj[t]] = null] ELSE monitor
      /\ UNCHANGED <<alloc, owner, count, gmtx, life, op, obj, ownee, m, held>> /\ Goto(t, l)
      /\ c \in Locks \cup {null}
  BY Facts, Zenon DEF Delete, locals
<1>2. c # null
  BY <1>1, Zenon DEF Self, Local
<1> HIDE DEF c
<1>3. Types'
  BY <1>1 DEF Types, Goto, Labels
<1>4. /\ pc'[t] = l /\ \A u \in Threads \ {t} : pc'[u] = pc[u]
      /\ \A k \in Objects : k # obj[t] => monitor'[k] = monitor[k]
  BY <1>1 DEF Types, Goto
<1>5. Control(t)'
  BY <1>1, <1>4, Zenon DEF Self, Control
<1>6. Local(t)'
  <2>1. pc'[t] = "free" => monitor'[obj[t]] = c /\ c \in Monitors
    BY <1>1, <1>2, <1>4, Zenon DEF Locks, c
  <2> QED
    BY <1>1, <1>4, <2>1, Zenon DEF Self, Local
<1>7. ownee[t] = null
  BY <1>1, Zenon DEF Self, Control
<1> QED
  BY <1>1, <1>3, <1>4, <1>5, <1>6, <1>7, FinalizerStep, Zenon

\* freeing the monitor,
LEMMA ControlFree ==
  ASSUME CInv, NEW t \in Threads, Free(t)
  PROVE  CInv'
<1>1. /\ Types /\ Self(t) /\ pc[t] = "free" /\ op[t] = "finalize" /\ obj[t] \in Objects /\ life[obj[t]] = "dying"
      /\ alloc' = alloc \ {monitor[obj[t]]} /\ monitor' = [monitor EXCEPT ![obj[t]] = null]
      /\ UNCHANGED <<refs, owner, count, gmtx, life, op, obj, ownee, m, held>> /\ Goto(t, "done")
  BY Facts, Zenon DEF Free, locals
<1>2. Types'
  BY <1>1, Zenon DEF Types, Goto, Labels
<1>3. /\ pc'[t] = "done" /\ \A u \in Threads \ {t} : pc'[u] = pc[u]
      /\ \A k \in Objects : k # obj[t] => monitor'[k] = monitor[k]
  BY <1>1, Zenon DEF Types, Goto
<1>4. Control(t)' /\ Local(t)' /\ ownee[t] = null
  BY <1>1, <1>3, Zenon DEF Self, Control, Local
<1> QED
  BY <1>1, <1>2, <1>3, <1>4, FinalizerStep, Zenon

\* and the end of rt_finalize2.
LEMMA ControlFinalized ==
  ASSUME CInv, NEW t \in Threads, NEW r \in BOOLEAN, Finalized(t, r)
  PROVE  CInv'
<1>1. /\ Types /\ Self(t) /\ pc[t] = "done" /\ op[t] = "finalize" /\ obj[t] \in Objects
      /\ life' = [life EXCEPT ![obj[t]] = "dead"]
      /\ monitor' = [monitor EXCEPT ![obj[t]] = null] \/ monitor' = monitor
      /\ UNCHANGED <<alloc, refs, owner, count, gmtx, held>> /\ Return(t)
  BY Facts, Zenon DEF Finalized, heap
<1>2. Types'
  BY <1>1, Returned DEF Types
<1>3. \A k \in Objects : k # obj[t] => monitor'[k] = monitor[k] /\ life'[k] = life[k]
  BY <1>1, Zenon DEF Types
<1>4. Control(t)' /\ Local(t)'
  BY <1>1, Returned, Zenon DEF Self, Control, Local
<1> QED
  BY <1>1, <1>2, <1>3, <1>4, Returned, FinalizerStep, Zenon

\* The steps of the collector and of constructors, on objects nobody uses.
LEMMA ControlObject ==
  ASSUME CInv, NEW h \in Objects,
         Sweep(h) \/ New(h) \/ \E c \in Mutexes : NewMutex(h, c)
  PROVE  CInv'
<1>1. Types /\ \A u \in Threads : h \notin Uses(u)
  BY Unused, Zenon DEF CInv, Sweep, New, NewMutex
<1>2. /\ UNCHANGED <<alloc, refs, owner, count, gmtx, pc, op, obj, ownee, m, held>>
      /\ \/ monitor' = monitor
         \/ \E c \in Mutexes \cup {null} : monitor' = [monitor EXCEPT ![h] = c]
      /\ \/ life' = life
         \/ \E l \in {"live", "dead"} : life' = [life EXCEPT ![h] = l]
  BY Zenon DEF Sweep, New, NewMutex, heap, locals
<1>3. Types'
  <2>1. monitor' \in [Objects -> Locks \cup {null}]
    BY <1>1, <1>2, Zenon DEF Types, Locks
  <2>2. life' \in [Objects -> {"live", "dying", "dead"}]
    BY <1>1, <1>2, Zenon DEF Types
  <2> QED
    BY <1>1, <1>2, <2>1, <2>2, Zenon DEF Types
<1>4. \A k \in Objects : k # h => monitor'[k] = monitor[k] /\ life'[k] = life[k]
  BY <1>1, <1>2, Zenon DEF Types
<1>5. ASSUME NEW u \in Threads PROVE Undisturbed(u)
  <2>1. \A k \in Uses(u) : k # null => k \in Objects /\ k # h
    BY <1>1, Elements DEF Uses, Types
  <2> QED
    BY <1>2, <1>4, <2>1, Zenon DEF Undisturbed
<1> QED
  BY <1>3, <1>5, ObjectStep, Zenon

\* CInv holds at first,
LEMMA ControlInit == Init => CInv
<1> SUFFICES ASSUME Init PROVE CInv
  BY Zenon
<1>1. Types
  BY DEF Init, Types, Labels
<1>2. ASSUME NEW t \in Threads PROVE Control(t) /\ Local(t) /\ Lives(t)
  <2>1. /\ pc[t] = "idle" /\ op[t] = "none" /\ obj[t] = null /\ ownee[t] = null /\ m[t] = null
        /\ held[t] = <<>> /\ gmtx = null /\ Range(held[t]) = {}
    BY DEF Init, Range
  <2> QED
    BY <2>1, NullDiffers, Zenon DEF Control, Local, Lives
<1>3. \A t, u \in Threads : Pair(t, u)
  BY Zenon DEF Init, Pair
<1> QED
  BY <1>1, <1>2, <1>3, Zenon DEF CInv

\* and every step keeps it.
LEMMA ControlStep == CInv /\ [Next]_vars => CInv'
<1> SUFFICES ASSUME CInv, [Next]_vars PROVE CInv'
  BY Zenon
<1>1. CASE UNCHANGED vars
  BY <1>1, SMTT(20) DEF CInv, Types, Control, Local, Lives, Pair, vars, heap, locals
<1>2. ASSUME NEW t \in Threads,
             \/ EnsureLoad(t) \/ EnsureAlloc(t) \/ EnsureLock(t) \/ EnsurePublish(t)
             \/ EnsureWon(t) \/ EnsureLost(t) \/ EnsureDiscard(t)
             \/ Lock(t) \/ Exit(t) \/ SameRefs(t) \/ SameCopy(t) \/ Delete(t) \/ Free(t)
             \/ \E r \in BOOLEAN : Finalized(t, r)
      PROVE  CInv'
  BY <1>2, ControlLoad, ControlAlloc, ControlGmtx, ControlPublish, ControlDiscard, ControlLock,
     ControlExit, ControlSameRefs, ControlCopy, ControlDelete, ControlFree, ControlFinalized, Zenon
<1> HIDE DEF CInv
<1> QED
  BY <1>1, <1>2, ControlEnter, ControlSame, ControlFinalize, ControlObject DEF Next

-----------------------------------------------------------------------------
\* The monitor that a counted ownee will get is that of a live object, and no dead
\* object has a share.
LEMMA Sharing ==
  ASSUME CInv
  PROVE  /\ \A t \in Threads : \A h \in Objects : \A c \in Monitors : Copying(t, h, c) =>
              h = ownee[t] /\ op[t] = "same" /\ monitor[obj[t]] = c /\ obj[t] \in Objects /\ life[obj[t]] = "live"
         /\ \A h \in Objects : \A c \in Monitors : Counts(h, c) => life[h] # "dead"
<1>1. ASSUME NEW t \in Threads, NEW h \in Objects, NEW c \in Monitors, Copying(t, h, c)
      PROVE  /\ h = ownee[t] /\ op[t] = "same" /\ monitor[obj[t]] = c /\ obj[t] \in Objects
             /\ life[obj[t]] = "live" /\ life[h] = "live"
  BY <1>1, Facts, SMTT(20) DEF Copying, Self, Control, Local, Lives
<1>2. ASSUME NEW t \in Threads, NEW h \in Objects, Deleting(t, h) PROVE life[h] = "dying"
  BY <1>2, Facts, Zenon DEF Deleting
<1> QED
  BY <1>1, <1>2, SMTT(20) DEF Counts

\* No share comes or goes in a step;
SameShares == \A h \in Objects : \A c \in Monitors : Counts(h, c)' <=> Counts(h, c)
\* no monitor gets into or out of the hands of a thread.
SameHands == \A u \in Threads : \A c \in Monitors : Hand(u, c)' <=> Hand(u, c)

\* The labels at which a thread counts or holds.
Counting == {"delete", "copy", "free", "gmtx", "publish", "lost", "discard"}

\* What each step does to shares and hands.  Nothing, if it neither starts nor ends at
\* a label that counts and changes no object:
LEMMA EffectNone ==
  ASSUME CInv, NEW t \in Threads, UNCHANGED <<monitor, life>>,
         pc[t] \notin Counting, pc'[t] \notin Counting,
         \A u \in Threads \ {t} : pc'[u] = pc[u] /\ obj'[u] = obj[u] /\ ownee'[u] = ownee[u] /\ m'[u] = m[u]
  PROVE  SameShares /\ SameHands
<1>1. \A u \in Threads : \A h : Deleting(u, h)' <=> Deleting(u, h)
  BY Zenon DEF Deleting, Counting
<1>2. \A u \in Threads : \A h, c : Copying(u, h, c)' <=> Copying(u, h, c)
  BY Zenon DEF Copying, Counting
<1>3. SameShares
  BY <1>1, <1>2, Zenon DEF SameShares, Counts
<1>4. SameHands
  BY SMTT(20) DEF SameHands, Hand, Counting
<1> QED
  BY <1>3, <1>4, Zenon

\* the steps that only look,
LEMMA EffectQuiet ==
  ASSUME CInv, NEW t \in Threads,
         \/ EnsureLoad(t) \/ EnsureWon(t) \/ Lock(t) \/ Exit(t)
         \/ \E h \in Objects : Enter(t, h) \/ \E o \in Objects : setSameMutex(t, o, h)
  PROVE  SameShares /\ SameHands
<1>1. Types
  BY Zenon DEF CInv
<1>2. UNCHANGED <<monitor, life>>
  BY Zenon DEF EnsureLoad, EnsureWon, Lock, Exit, Enter, setSameMutex
<1>3. pc[t] \notin Counting /\ pc'[t] \notin Counting
  <2>1. /\ pc[t] \in {"idle", "ensure", "won", "got"}
        /\ pc' = pc \/ \E l \in {"idle", "ensure", "alloc", "got"} : pc' = [pc EXCEPT ![t] = l]
    BY Zenon DEF EnsureLoad, EnsureWon, Lock, Exit, Enter, setSameMutex, Return, Goto
  <2>2. pc'[t] \in {"idle", "ensure", "alloc", "won", "got"}
    BY <1>1, <2>1, Zenon DEF Types
  <2> QED
    BY <2>1, <2>2, Zenon DEF Counting
<1>4. \A u \in Threads \ {t} : pc'[u] = pc[u] /\ obj'[u] = obj[u] /\ ownee'[u] = ownee[u] /\ m'[u] = m[u]
  <2>1. CASE EnsureLoad(t) \/ EnsureWon(t) \/ Exit(t)
    <3>1. /\ UNCHANGED <<obj, ownee>>
          /\ pc' = pc \/ \E l : pc' = [pc EXCEPT ![t] = l]
          /\ m' = m \/ \E c : m' = [m EXCEPT ![t] = c]
      BY <2>1, Zenon DEF EnsureLoad, EnsureWon, Exit, Goto, locals
    <3>2. \A u \in Threads \ {t} : pc'[u] = pc[u]
      BY <1>1, <3>1, Zenon DEF Types
    <3>3. \A u \in Threads \ {t} : m'[u] = m[u]
      BY <1>1, <3>1, Zenon DEF Types
    <3>4. UNCHANGED <<obj, ownee>>
      BY <2>1, Zenon DEF EnsureLoad, EnsureWon, Exit, locals
    <3> QED
      BY <3>2, <3>3, <3>4, Zenon
  <2>2. CASE Lock(t)
    BY <1>1, <2>2, Returned, Zenon DEF Lock
  <2>3. CASE \E h \in Objects : Enter(t, h) \/ \E o \in Objects : setSameMutex(t, o, h)
    <3>1. /\ m' = m /\ \E l : pc' = [pc EXCEPT ![t] = l] /\ \E k : obj' = [obj EXCEPT ![t] = k]
          /\ \E k : ownee' = [ownee EXCEPT ![t] = k]
      BY <2>3, Zenon DEF Enter, setSameMutex, Goto, Call
    <3> QED
      BY <1>1, <3>1, Zenon DEF Types
  <2> QED
    BY <2>1, <2>2, <2>3, Zenon
<1> QED
  BY <1>2, <1>3, <1>4, EffectNone, Zenon

\* and those that only take or release gmtx.
LEMMA EffectGmtx ==
  ASSUME CInv, NEW t \in Threads, EnsureLock(t) \/ EnsureLost(t)
  PROVE  SameShares /\ SameHands
<1>1. /\ Types /\ UNCHANGED <<monitor, life, obj, ownee, m>>
      /\ pc[t] \in {"gmtx", "lost"} /\ pc'[t] \in {"publish", "lost", "discard"}
      /\ \A u \in Threads \ {t} : pc'[u] = pc[u]
  BY DEF CInv, Types, EnsureLock, EnsureLost, Goto, locals
<1>2. \A u \in Threads : \A h : Deleting(u, h)' <=> Deleting(u, h)
  BY <1>1, Zenon DEF Deleting
<1>3. \A u \in Threads : \A h, c : Copying(u, h, c)' <=> Copying(u, h, c)
  BY <1>1, Zenon DEF Copying
<1>4. SameShares
  BY <1>1, <1>2, <1>3, Zenon DEF SameShares, Counts
<1>5. SameHands
  BY <1>1, Zenon DEF SameHands, Hand
<1> QED
  BY <1>4, <1>5, Zenon

\* The new monitor is in the hands of the thread that allocated it,
LEMMA EffectAlloc ==
  ASSUME CInv, NEW t \in Threads, EnsureAlloc(t)
  PROVE  /\ SameShares
         /\ \A u \in Threads : \A c \in Monitors : Hand(u, c)' => Hand(u, c) \/ (u = t /\ c = m'[t])
         /\ \A u \in Threads : \A c \in Monitors : Hand(u, c) => Hand(u, c)'
         /\ \A c \in Monitors : c = m'[t] => Hand(t, c)'
<1>1. /\ Types /\ UNCHANGED <<monitor, life, obj, ownee>>
      /\ pc[t] = "alloc" /\ pc'[t] = "gmtx"
      /\ \A u \in Threads \ {t} : pc'[u] = pc[u] /\ m'[u] = m[u]
  BY DEF CInv, Types, EnsureAlloc, Goto, locals
<1>2. \A u \in Threads : \A h : Deleting(u, h)' <=> Deleting(u, h)
  BY <1>1, Zenon DEF Deleting
<1>3. \A u \in Threads : \A h, c : Copying(u, h, c)' <=> Copying(u, h, c)
  BY <1>1, Zenon DEF Copying
<1>4. SameShares
  BY <1>1, <1>2, <1>3, Zenon DEF SameShares, Counts
<1> QED
  BY <1>1, <1>4, Zenon DEF Hand

\* and leaves them when it is freed,
LEMMA EffectDiscard ==
  ASSUME CInv, NEW t \in Threads, EnsureDiscard(t)
  PROVE  /\ SameShares /\ m[t] \in Monitors /\ Hand(t, m[t])
         /\ \A u \in Threads : \A c \in Monitors : Hand(u, c)' <=> Hand(u, c) /\ u # t
<1>1. /\ Types /\ UNCHANGED <<monitor, life, obj, ownee>>
      /\ pc[t] = "discard" /\ pc'[t] = "got"
      /\ \A u \in Threads \ {t} : pc'[u] = pc[u] /\ m'[u] = m[u]
  BY Zenon DEF CInv, Types, EnsureDiscard, Goto, locals
<1>2. \A u \in Threads : \A h : Deleting(u, h)' <=> Deleting(u, h)
  BY <1>1, Zenon DEF Deleting
<1>3. \A u \in Threads : \A h, c : Copying(u, h, c)' <=> Copying(u, h, c)
  BY <1>1, Zenon DEF Copying
<1>4. SameShares
  BY <1>1, <1>2, <1>3, Zenon DEF SameShares, Counts
<1>5. m[t] \in Monitors
  BY <1>1, Zenon DEF CInv, Local
<1> QED
  BY <1>1, <1>4, <1>5, Zenon DEF Hand

\* or when it becomes the first share of its object.
LEMMA EffectPublish ==
  ASSUME CInv, NEW t \in Threads, EnsurePublish(t)
  PROVE  /\ m[t] \in Monitors /\ obj[t] \in Objects /\ Hand(t, m[t])
         /\ \A h \in Objects : \A c \in Monitors :
              Counts(h, c)' <=> Counts(h, c) \/ (h = obj[t] /\ c = m[t])
         /\ \A u \in Threads : \A c \in Monitors : Hand(u, c)' <=> Hand(u, c) /\ u # t
<1>1. /\ Types /\ UNCHANGED <<life, obj, ownee, m>> /\ obj[t] \in Objects
      /\ pc[t] = "publish" /\ pc'[t] = "won" /\ life[obj[t]] = "live"
      /\ monitor'[obj[t]] = m[t] /\ \A k \in Objects : k # obj[t] => monitor'[k] = monitor[k]
      /\ \A u \in Threads \ {t} : pc'[u] = pc[u]
  <2>1. /\ Types /\ obj[t] \in Objects /\ life[obj[t]] = "live"
    BY Facts, Zenon DEF EnsurePublish
  <2>2. /\ UNCHANGED <<life, obj, ownee, m>> /\ pc[t] = "publish"
        /\ monitor' = [monitor EXCEPT ![obj[t]] = m[t]] /\ pc' = [pc EXCEPT ![t] = "won"]
    BY Zenon DEF EnsurePublish, Goto, locals
  <2> QED
    BY <2>1, <2>2, Zenon DEF Types
<1>2. m[t] \in Monitors /\ monitor[obj[t]] = null
  BY <1>1, SMTT(20) DEF CInv, Local
<1>3. \A u \in Threads : \A h : Deleting(u, h)' <=> Deleting(u, h)
  BY <1>1, Zenon DEF Deleting
<1>4. \A u \in Threads : \A h, c : Copying(u, h, c)' <=> Copying(u, h, c)
  BY <1>1, Zenon DEF Copying
<1>5. ASSUME NEW h \in Objects, NEW c \in Monitors
      PROVE  Counts(h, c)' <=> Counts(h, c) \/ (h = obj[t] /\ c = m[t])
  <2>1. CASE h # obj[t]
    BY <1>1, <1>3, <1>4, <2>1, Zenon DEF Counts
  <2>2. CASE h = obj[t]
    BY <1>1, <1>2, <1>3, <1>4, <2>2, NullDiffers, Zenon DEF Counts
  <2> QED
    BY <2>1, <2>2, Zenon
<1>6. ASSUME NEW u \in Threads, NEW c \in Monitors PROVE Hand(u, c)' <=> Hand(u, c) /\ u # t
  <2>1. pc[u] = "free" => obj[u] \in Objects /\ obj[u] # obj[t]
    BY <1>1, Facts, Zenon
  <2> QED
    BY <1>1, <2>1, Zenon DEF Hand
<1>7. Hand(t, m[t])
  BY <1>1, Zenon DEF Hand
<1> QED
  BY <1>1, <1>2, <1>5, <1>6, <1>7, Zenon

\* The ownee becomes a share of the owner's monitor,
LEMMA EffectSameRefs ==
  ASSUME CInv, NEW t \in Threads, SameRefs(t)
  PROVE  /\ SameHands /\ ownee[t] \in Objects /\ obj[t] \in Objects /\ m[t] \in Locks
         /\ \A h \in Objects : \A c \in Monitors :
              Counts(h, c)' <=> Counts(h, c) \/ (h = ownee[t] /\ c = m[t])
         /\ \A c \in Monitors : ~Counts(ownee[t], c)
         /\ Counts(obj[t], m[t])
<1>1. /\ Types /\ UNCHANGED <<monitor, life, obj, ownee, m>> /\ obj[t] \in Objects /\ ownee[t] \in Objects
      /\ pc[t] = "got" /\ op[t] = "same" /\ pc'[t] = "copy" /\ life[obj[t]] = "live"
      /\ \A u \in Threads \ {t} : pc'[u] = pc[u]
  <2>1. /\ Types /\ obj[t] \in Objects /\ ownee[t] \in Objects /\ life[obj[t]] = "live"
    BY Facts, Zenon DEF SameRefs
  <2>2. /\ UNCHANGED <<monitor, life, obj, ownee, m>> /\ pc[t] = "got" /\ op[t] = "same"
        /\ pc' = [pc EXCEPT ![t] = "copy"]
    BY Zenon DEF SameRefs, Goto, locals
  <2> QED
    BY <2>1, <2>2, Zenon DEF Types
<1>2. m[t] = monitor[obj[t]] /\ m[t] # null /\ monitor[ownee[t]] = null
  BY <1>1, Zenon DEF CInv, Local, Lives
<1>3. m[t] \in Locks
  BY <1>1, <1>2, Zenon DEF Types
<1>4. \A u \in Threads : \A h : Deleting(u, h)' <=> Deleting(u, h)
  BY <1>1, Zenon DEF Deleting
<1>5. \A u \in Threads : \A h, c : Copying(u, h, c)' <=> Copying(u, h, c) \/ (u = t /\ h = ownee[t] /\ c = m[t])
  BY <1>1, Zenon DEF Copying
<1>6. ASSUME NEW h \in Objects, NEW c \in Monitors
      PROVE  Counts(h, c)' <=> Counts(h, c) \/ (h = ownee[t] /\ c = m[t])
  BY <1>1, <1>4, <1>5, Zenon DEF Counts
<1>7. SameHands
  BY <1>1, Zenon DEF SameHands, Hand
<1>8. ASSUME NEW c \in Monitors PROVE ~Counts(ownee[t], c)
  <2>1. ASSUME NEW u \in Threads PROVE ~Copying(u, ownee[t], c)
    <3>1. CASE u = t
      BY <1>1, <3>1, Zenon DEF Copying
    <3>2. CASE u # t
      BY <1>1, <3>2, NullDiffers, Zenon DEF Copying, CInv, Pair
    <3> QED
      BY <3>1, <3>2, Zenon
  <2> QED
    BY <1>2, <2>1, NullDiffers, Zenon DEF Counts
<1> QED
  BY <1>1, <1>2, <1>3, <1>6, <1>7, <1>8, Zenon DEF Counts

\* which it stays when it gets the monitor.
LEMMA EffectCopy ==
  ASSUME CInv, NEW t \in Threads, SameCopy(t)
  PROVE  SameShares /\ SameHands
<1> DEFINE o == ownee[t]
<1>1. /\ Types /\ pc[t] = "copy" /\ op[t] = "same" /\ o \in Objects /\ UNCHANGED life /\ Return(t)
      /\ monitor' = [monitor EXCEPT ![o] = monitor[obj[t]]]
  BY Facts, Zenon DEF SameCopy, CInv, Control
<1>2. m[t] = monitor[obj[t]] /\ monitor[o] = null /\ life[o] = "live"
  BY <1>1, Zenon DEF CInv, Local, Lives
<1>3. monitor'[o] = m[t] /\ \A k \in Objects : k # o => monitor'[k] = monitor[k]
  BY <1>1, <1>2, Zenon DEF Types
<1>4. \A u \in Threads : o # obj[u] /\ (u # t => o # ownee[u])
  BY <1>1, NullDiffers, Zenon DEF CInv, Pair
<1>5. \A u \in Threads : \A h \in Objects : Deleting(u, h)' <=> Deleting(u, h)
  BY <1>1, Returned DEF Deleting
<1>6. \A u \in Threads : \A h, c : Copying(u, h, c)' <=> Copying(u, h, c) /\ u # t
  BY <1>1, Returned DEF Copying
<1>7. \A h, c : Copying(t, h, c) <=> h = o /\ c = m[t]
  BY <1>1, Zenon DEF Copying
<1>8. \A u \in Threads : \A c : u # t => ~Copying(u, o, c)
  BY <1>4, Zenon DEF Copying
<1> HIDE DEF o
<1>9. ASSUME NEW h \in Objects, NEW c \in Monitors PROVE Counts(h, c)' <=> Counts(h, c)
  <2>1. CASE h # o
    BY <1>1, <1>3, <1>5, <1>6, <1>7, <2>1, Zenon DEF Counts
  <2>2. CASE h = o
    <3>1. Counts(h, c)' <=> c = m[t]
      BY <1>1, <1>2, <1>3, <1>6, <1>8, <2>2, Zenon DEF Counts
    <3>2. Counts(h, c) <=> c = m[t]
      BY <1>2, <1>7, <1>8, <2>2, NullDiffers, Zenon DEF Counts
    <3> QED
      BY <3>1, <3>2, Zenon
  <2> QED
    BY <2>1, <2>2, Zenon
<1>10. ASSUME NEW u \in Threads, NEW c \in Monitors PROVE Hand(u, c)' <=> Hand(u, c)
  <2>1. CASE u = t
    BY <1>1, <2>1, Returned, Zenon DEF Hand
  <2>2. CASE u # t
    <3>1. pc[u] = "free" => obj[u] \in Objects /\ obj[u] # o
      BY <1>4, Facts, Zenon
    <3> QED
      BY <1>1, <1>3, <2>2, <3>1, Returned DEF Hand
  <2> QED
    BY <2>1, <2>2, Zenon
<1> QED
  BY <1>9, <1>10, Zenon DEF SameShares, SameHands

\* An object stays a share while its finalizer has not given it up.
LEMMA EffectFinalize ==
  ASSUME CInv, NEW t \in Threads, NEW h \in Objects, Finalize(t, h)
  PROVE  SameShares /\ SameHands
<1>1. /\ Types /\ UNCHANGED <<monitor, m>> /\ pc[t] = "idle" /\ life[h] = "live"
      /\ pc'[t] = IF monitor[h] = null THEN "done" ELSE "delete"
      /\ obj'[t] = h /\ ownee'[t] = null
      /\ life'[h] = "dying" /\ \A k \in Objects : k # h => life'[k] = life[k]
      /\ \A u \in Threads \ {t} : pc'[u] = pc[u] /\ obj'[u] = obj[u] /\ ownee'[u] = ownee[u]
  BY SMTT(20) DEF CInv, Types, Finalize, Goto, Call
<1>2. \A u \in Threads : \A k \in Objects :
        Deleting(u, k)' <=> Deleting(u, k) \/ (u = t /\ k = h /\ monitor[h] # null)
  BY <1>1, SMTT(20) DEF Deleting
<1>3. \A u \in Threads : \A k, c : Copying(u, k, c)' <=> Copying(u, k, c)
  BY <1>1 DEF Copying
<1>4. ASSUME NEW k \in Objects, NEW c \in Monitors PROVE Counts(k, c)' <=> Counts(k, c)
  <2>1. CASE k # h
    BY <1>1, <1>2, <1>3, <2>1, SMTT(20) DEF Counts
  <2>2. CASE k = h
    BY <1>1, <1>2, <1>3, <2>2, NullDiffers, SMTT(20) DEF Counts
  <2> QED
    BY <2>1, <2>2, Zenon
<1>5. SameHands
  BY <1>1, SMTT(20) DEF SameHands, Hand
<1> QED
  BY <1>4, <1>5, Zenon DEF SameShares

\* Nobody else uses the object that is being finalized.
LEMMA Alone ==
  ASSUME CInv, NEW t \in Threads, op[t] = "finalize"
  PROVE  /\ obj[t] \in Objects /\ life[obj[t]] = "dying"
         /\ \A u \in Threads : \A c : ~Copying(u, obj[t], c)
         /\ \A u \in Threads \ {t} : obj[u] # obj[t]
<1>1. Types /\ obj[t] \in Objects /\ life[obj[t]] = "dying"
  BY Facts, Zenon DEF Self, Control
<1>2. \A u \in Threads \ {t} : obj[u] # obj[t]
  BY Zenon DEF CInv, Pair
<1>3. ASSUME NEW u \in Threads, NEW c, Copying(u, obj[t], c) PROVE FALSE
  BY <1>1, <1>3 DEF CInv, Control, Lives, Copying
<1> QED
  BY <1>1, <1>2, <1>3

\* _d_monitordelete takes away the share; the monitor is in the hands of the thread
\* that took away the last one,
LEMMA EffectDelete ==
  ASSUME CInv, NEW t \in Threads, Delete(t)
  PROVE  /\ obj[t] \in Objects /\ monitor[obj[t]] \in Locks
         /\ \A h \in Objects : \A c \in Monitors : Counts(h, c)' <=> Counts(h, c) /\ h # obj[t]
         /\ \A c \in Monitors : Counts(obj[t], c) <=> c = monitor[obj[t]]
         /\ \A u \in Threads : \A c \in Monitors :
              Hand(u, c)' <=> Hand(u, c) \/ (u = t /\ c = monitor[obj[t]] /\ refs[c] = 1)
<1> DEFINE x == monitor[obj[t]]
<1>1. /\ Types /\ Local(t) /\ op[t] = "finalize" /\ pc[t] = "delete" /\ obj[t] \in Objects
      /\ UNCHANGED <<life, obj, ownee, m>>
      /\ pc'[t] = IF x \notin Mutexes /\ refs[x] = 1 THEN "free" ELSE "done"
      /\ \A u \in Threads \ {t} : pc'[u] = pc[u]
      /\ \A k \in Objects : k # obj[t] => monitor'[k] = monitor[k]
      /\ x \notin Mutexes => monitor' = monitor
  BY Facts, SMTT(20) DEF Types, Delete, Goto, locals, Self
<1>2. x \in Locks
  BY <1>1 DEF Types, Local
<1>3. /\ life[obj[t]] = "dying" /\ \A u \in Threads : \A c : ~Copying(u, obj[t], c)
      /\ \A u \in Threads \ {t} : obj[u] # obj[t]
  BY <1>1, Alone, Zenon
<1>4. \A u \in Threads : \A h : Deleting(u, h)' <=> Deleting(u, h) /\ u # t
  BY <1>1, Zenon DEF Deleting
<1>5. \A u \in Threads : \A h, c : Copying(u, h, c)' <=> Copying(u, h, c)
  BY <1>1, Zenon DEF Copying
<1>6. \A u \in Threads : \A h : Deleting(u, h) => (u = t <=> h = obj[t])
  BY <1>1, <1>3, Zenon DEF Deleting
<1>7. Deleting(t, obj[t])
  BY <1>1, Zenon DEF Deleting
<1>8. \A c \in Monitors : Counts(obj[t], c) <=> c = x
  BY <1>3, <1>7, Zenon DEF Counts
<1>9. ASSUME NEW h \in Objects, NEW c \in Monitors PROVE Counts(h, c)' <=> Counts(h, c) /\ h # obj[t]
  <2>1. CASE h = obj[t]
    BY <1>1, <1>3, <1>4, <1>5, <1>6, <2>1, SMTT(20) DEF Counts
  <2>2. CASE h # obj[t]
    BY <1>1, <1>4, <1>5, <1>6, <2>2, SMTT(20) DEF Counts
  <2> QED
    BY <2>1, <2>2, Zenon
<1>10. ASSUME NEW u \in Threads, NEW c \in Monitors
       PROVE  Hand(u, c)' <=> Hand(u, c) \/ (u = t /\ c = x /\ refs[c] = 1)
  <2>1. CASE u # t
    <3>1. pc[u] = "free" => obj[u] \in Objects /\ obj[u] # obj[t]
      BY <1>3, <2>1, Facts, Zenon
    <3> QED
      BY <1>1, <2>1, <3>1, Zenon DEF Hand
  <2>2. CASE u = t
    BY <1>1, <2>2, NullDiffers, SMTT(20) DEF Hand
  <2> QED
    BY <2>1, <2>2, Zenon
<1> QED
  BY <1>1, <1>2, <1>8, <1>9, <1>10, Zenon

\* until it has freed it.
LEMMA EffectFree ==
  ASSUME CInv, NEW t \in Threads, Free(t)
  PROVE  /\ SameShares /\ monitor[obj[t]] \in Monitors /\ Hand(t, monitor[obj[t]])
         /\ \A u \in Threads : \A c \in Monitors : Hand(u, c)' <=> Hand(u, c) /\ u # t
<1>1. /\ Types /\ Local(t) /\ op[t] = "finalize" /\ pc[t] = "free" /\ pc'[t] = "done" /\ obj[t] \in Objects
      /\ UNCHANGED <<life, obj, ownee, m>>
      /\ \A u \in Threads \ {t} : pc'[u] = pc[u]
      /\ \A k \in Objects : k # obj[t] => monitor'[k] = monitor[k]
  BY Facts, SMTT(20) DEF Types, Free, Goto, locals, Self
<1>2. monitor[obj[t]] \in Monitors
  BY <1>1, Zenon DEF Local
<1>3. /\ life[obj[t]] = "dying" /\ \A u \in Threads : \A c : ~Copying(u, obj[t], c)
      /\ \A u \in Threads \ {t} : obj[u] # obj[t]
  BY <1>1, Alone, Zenon
<1>4. \A u \in Threads : \A h : Deleting(u, h)' <=> Deleting(u, h)
  BY <1>1, Zenon DEF Deleting
<1>5. \A u \in Threads : \A h, c : Copying(u, h, c)' <=> Copying(u, h, c)
  BY <1>1, Zenon DEF Copying
<1>6. \A u \in Threads : ~Deleting(u, obj[t])
  BY <1>1, <1>3, Zenon DEF Deleting
<1>7. ASSUME NEW h \in Objects, NEW c \in Monitors PROVE Counts(h, c)' <=> Counts(h, c)
  <2>1. CASE h = obj[t]
    BY <1>1, <1>3, <1>4, <1>5, <1>6, <2>1, Zenon DEF Counts
  <2>2. CASE h # obj[t]
    BY <1>1, <1>4, <1>5, <2>2, Zenon DEF Counts
  <2> QED
    BY <2>1, <2>2, Zenon
<1>8. ASSUME NEW u \in Threads, NEW c \in Monitors PROVE Hand(u, c)' <=> Hand(u, c) /\ u # t
  <2>1. CASE u # t
    <3>1. pc[u] = "free" => obj[u] \in Objects /\ obj[u] # obj[t]
      BY <1>3, <2>1, Facts, Zenon
    <3> QED
      BY <1>1, <2>1, <3>1, Zenon DEF Hand
  <2>2. CASE u = t
    BY <1>1, <2>2, Zenon DEF Hand
  <2> QED
    BY <2>1, <2>2, Zenon
<1> QED
  BY <1>1, <1>2, <1>7, <1>8, Zenon DEF SameShares, Hand

\* The end of rt_finalize2 finds no share,
LEMMA EffectFinalized ==
  ASSUME CInv, NEW t \in Threads, NEW r \in BOOLEAN, Finalized(t, r)
  PROVE  SameShares /\ SameHands
<1>1. /\ Types /\ op[t] = "finalize" /\ pc[t] = "done" /\ obj[t] \in Objects /\ Return(t)
      /\ life'[obj[t]] = "dead"
      /\ \A k \in Objects : k # obj[t] => monitor'[k] = monitor[k] /\ life'[k] = life[k]
  <2>1. /\ Types /\ op[t] = "finalize" /\ obj[t] \in Objects
    BY Facts, Zenon DEF Finalized
  <2>2. /\ pc[t] = "done" /\ life' = [life EXCEPT ![obj[t]] = "dead"] /\ Return(t)
        /\ monitor' = monitor \/ monitor' = [monitor EXCEPT ![obj[t]] = null]
    BY Zenon DEF Finalized
  <2> QED
    BY <2>1, <2>2, Zenon DEF Types
<1>3. /\ life[obj[t]] = "dying" /\ \A u \in Threads : \A c : ~Copying(u, obj[t], c)
      /\ \A u \in Threads \ {t} : obj[u] # obj[t]
  BY <1>1, Alone, Zenon
<1>4. \A u \in Threads : \A h : Deleting(u, h)' <=> Deleting(u, h)
  BY <1>1, Returned, SMTT(20) DEF Deleting
<1>5. \A u \in Threads : \A h, c : Copying(u, h, c)' <=> Copying(u, h, c)
  BY <1>1, Returned DEF Copying
<1>6. \A u \in Threads : ~Deleting(u, obj[t])
  BY <1>1, <1>3 DEF Deleting
<1>7. ASSUME NEW h \in Objects, NEW c \in Monitors PROVE Counts(h, c)' <=> Counts(h, c)
  <2>1. CASE h = obj[t]
    BY <1>1, <1>3, <1>4, <1>5, <1>6, <2>1, SMTT(20) DEF Counts
  <2>2. CASE h # obj[t]
    BY <1>1, <1>4, <1>5, <2>2, SMTT(20) DEF Counts
  <2> QED
    BY <2>1, <2>2
<1>8. ASSUME NEW u \in Threads, NEW c \in Monitors PROVE Hand(u, c)' <=> Hand(u, c)
  <2>1. CASE u # t
    <3>1. pc[u] = "free" => obj[u] \in Objects /\ obj[u] # obj[t]
      BY <1>3, <2>1, Facts, SMTT(20)
    <3> QED
      BY <1>1, <2>1, <3>1, Returned, SMTT(20) DEF Hand
  <2>2. CASE u = t
    BY <1>1, <2>2, Returned, SMTT(20) DEF Hand
  <2> QED
    BY <2>1, <2>2, Zenon
<1> QED
  BY <1>7, <1>8, Zenon DEF SameShares, SameHands

\* and the collector takes one away if it sweeps an object that has a monitor.
LEMMA EffectObject ==
  ASSUME CInv, NEW h \in Objects, Sweep(h) \/ New(h) \/ \E c \in Mutexes : NewMutex(h, c)
  PROVE  /\ SameHands
         /\ \A k \in Objects : \A c \in Monitors : Counts(k, c)' => Counts(k, c)
         /\ ~(Sweep(h) /\ monitor[h] \in Monitors) => SameShares
<1>1. Types /\ \A u \in Threads : h \notin Uses(u)
  BY Unused, Zenon DEF CInv, Sweep, New, NewMutex
<1>2. UNCHANGED <<pc, obj, ownee, m>>
  BY Zenon DEF Sweep, New, NewMutex, locals
<1>3. \A k \in Objects : k # h => monitor'[k] = monitor[k] /\ life'[k] = life[k]
  BY <1>1, Zenon DEF Types, Sweep, New, NewMutex
<1>4. \/ Sweep(h) /\ life[h] = "live" /\ life'[h] = "dead" /\ monitor'[h] = monitor[h]
      \/ New(h) /\ life[h] = "dead" /\ monitor'[h] = null
      \/ monitor[h] = null /\ monitor'[h] \in Mutexes
  BY <1>1, SMTT(20) DEF Types, Sweep, New, NewMutex
<1>5. \A u \in Threads : \A k : Deleting(u, k)' <=> Deleting(u, k)
  BY <1>2, SMTT(20) DEF Deleting
<1>6. \A u \in Threads : \A k, c : Copying(u, k, c)' <=> Copying(u, k, c)
  BY <1>2, Zenon DEF Copying
<1>7. \A u \in Threads : ~Deleting(u, h) /\ \A c : ~Copying(u, h, c)
  BY <1>1, Zenon DEF Deleting, Copying, Uses
<1>8. ASSUME NEW k \in Objects, NEW c \in Monitors
      PROVE  /\ Counts(k, c)' => Counts(k, c)
             /\ ~(Sweep(h) /\ monitor[h] \in Monitors) => (Counts(k, c)' <=> Counts(k, c))
  <2>1. CASE k # h
    BY <1>3, <1>5, <1>6, <2>1, Zenon DEF Counts
  <2>2. CASE k = h
    <3>1. Counts(k, c) <=> monitor[h] = c /\ life[h] = "live"
      BY <1>7, <2>2, Zenon DEF Counts
    <3>2. Counts(k, c)' <=> monitor'[h] = c /\ life'[h] = "live"
      BY <1>5, <1>6, <1>7, <2>2, Zenon DEF Counts
    <3> QED
      BY <1>4, <3>1, <3>2, NullDiffers, Zenon
  <2> QED
    BY <2>1, <2>2, Zenon
<1>9. ASSUME NEW u \in Threads, NEW c \in Monitors PROVE Hand(u, c)' <=> Hand(u, c)
  <2>1. pc[u] = "free" => obj[u] \in Objects /\ obj[u] # h
    BY <1>1, Facts, Zenon DEF Uses
  <2> QED
    BY <1>2, <1>3, <2>1, Zenon DEF Hand
<1> QED
  BY <1>8, <1>9 DEF SameShares, SameHands

-----------------------------------------------------------------------------
\* No share of any monitor has been lost.
AllExact == \A c \in Monitors : Exact(c)

\* Counting sets of objects.
LEMMA Finite ==
  ASSUME NEW S, S \subseteq Objects
  PROVE  /\ IsFiniteSet(S) /\ Cardinality(S) \in Nat /\ (Cardinality(S) = 0 <=> S = {})
         /\ \A x : x \notin S => Cardinality(S \cup {x}) = Cardinality(S) + 1
         /\ \A x : x \in S => Cardinality(S \ {x}) = Cardinality(S) - 1
         /\ \A T : T \subseteq S => Cardinality(T) <= Cardinality(S)
<1>1. IsFiniteSet(S)
  BY ObjectsAssumption, FS_Subset, Zenon
<1> QED
  BY <1>1, FS_Subset, FS_EmptySet, FS_CardinalityType, FS_AddElement, FS_RemoveElement, Zenon

\* A thread has one monitor in its hands.
LEMMA HandOne ==
  ASSUME NEW t \in Threads, NEW c, NEW d, Hand(t, c), Hand(t, d)
  PROVE  c = d
BY Zenon DEF Hand

\* Sound is kept by a step that adds neither share nor hand;
LEMMA SoundKept ==
  ASSUME NEW c \in Monitors, Sound(c), refs[c] \in Int, refs'[c] = refs[c], c \in alloc => c \in alloc',
         \A h \in Objects : Counts(h, c)' => Counts(h, c),
         \A u \in Threads : Hand(u, c)' => Hand(u, c)
  PROVE  Sound(c)'
<1>1. Shares(c)' \subseteq Shares(c) /\ Shares(c) \subseteq Objects /\ Shares(c)' \subseteq Objects
  BY Zenon DEF Shares
<1>2. Cardinality(Shares(c)') <= Cardinality(Shares(c))
  BY <1>1, Finite, Zenon
<1>3. Cardinality(Shares(c)') \in Nat /\ Cardinality(Shares(c)) \in Nat
  BY <1>1, Finite, Zenon
<1>0. refs'[c] \in Int /\ refs'[c] >= Cardinality(Shares(c))
  BY Zenon DEF Sound
<1>4. refs'[c] >= Cardinality(Shares(c)')
  BY <1>0, <1>2, <1>3, SMTT(20)
<1> QED
  BY <1>1, <1>4, Zenon DEF Sound

\* Exact by one that takes neither away.
LEMMA ExactKept ==
  ASSUME NEW c \in Monitors, Exact(c), refs'[c] = refs[c], c \in alloc' => c \in alloc,
         \A h \in Objects : Counts(h, c)' <=> Counts(h, c),
         \A u \in Threads : Hand(u, c) => Hand(u, c)'
  PROVE  Exact(c)'
<1>1. Shares(c)' = Shares(c)
  BY Zenon DEF Shares
<1> QED
  BY <1>1, Zenon DEF Exact

\* The steps that change no count keep both,
LEMMA ShareQuiet ==
  ASSUME CInv, SInv, UNCHANGED <<refs, alloc>>, SameShares, SameHands
  PROVE  SInv' /\ (AllExact => AllExact')
<1>1. \A c \in Monitors : refs[c] \in Int
  BY Zenon DEF CInv, Types
<1>2. ASSUME NEW c \in Monitors PROVE Sound(c)'
  BY <1>1, SoundKept, Zenon DEF SInv, SameShares, SameHands
<1>3. ASSUME NEW c \in Monitors, Exact(c) PROVE Exact(c)'
  BY <1>3, ExactKept, Zenon DEF SameShares, SameHands
<1> QED
  BY <1>2, <1>3, Zenon DEF SInv, AllExact

\* and so does freeing the monitor in a thread's hands, which has no share:
LEMMA ShareDrop ==
  ASSUME CInv, SInv, UNCHANGED refs, SameShares, NEW t \in Threads, NEW x \in Monitors, Hand(t, x),
         alloc' = alloc \ {x},
         \A u \in Threads : \A c \in Monitors : Hand(u, c)' <=> Hand(u, c) /\ u # t
  PROVE  SInv' /\ (AllExact => AllExact')
<1>1. \A c \in Monitors : refs[c] \in Int
  BY DEF CInv, Types
<1>2. Sound(x)'
  <2>1. refs[x] = 0 /\ \A u \in Threads : ~Hand(u, x)' /\ refs[x] >= Cardinality(Shares(x))
    BY Zenon DEF SInv, Sound
  <2>2. Shares(x)' = Shares(x) /\ Shares(x) \subseteq Objects
    BY Zenon DEF Shares, SameShares
  <2>3. Shares(x) = {}
    BY <2>1, <2>2, Finite
  <2> QED
    BY <2>1, <2>2, <2>3, Zenon DEF Sound
<1>3. ASSUME NEW c \in Monitors \ {x} PROVE Sound(c)'
  BY <1>1, SoundKept, Zenon DEF SInv, SameShares
<1>4. ASSUME NEW c \in Monitors, Exact(c) PROVE Exact(c)'
  <2>1. CASE c = x
    BY <2>1 DEF Exact
  <2>2. CASE c # x
    <3>1. \A u \in Threads : Hand(u, c) => Hand(u, c)'
      BY <2>2, HandOne
    <3> QED
      BY <1>4, <3>1, ExactKept, Zenon DEF SameShares
  <2> QED
    BY <2>1, <2>2
<1> QED
  BY <1>2, <1>3, <1>4, Zenon DEF SInv, AllExact

\* so do the allocation of a monitor, which nobody had,
LEMMA ShareAlloc ==
  ASSUME CInv, SInv, NEW t \in Threads, EnsureAlloc(t)
  PROVE  SInv' /\ (AllExact => AllExact')
<1>1. PICK x \in Monitors \ alloc :
        alloc' = alloc \cup {x} /\ refs' = [refs EXCEPT ![x] = 0] /\ m' = [m EXCEPT ![t] = x]
  BY Zenon DEF EnsureAlloc
<1>2. /\ refs'[x] = 0 /\ \A c \in Monitors : refs[c] \in Int /\ (c # x => refs'[c] = refs[c])
      /\ m'[t] = x
  BY <1>1 DEF CInv, Types
<1>3. /\ SameShares /\ Hand(t, x)'
      /\ \A u \in Threads : \A c \in Monitors : Hand(u, c)' => Hand(u, c) \/ (u = t /\ c = x)
      /\ \A u \in Threads : \A c \in Monitors : Hand(u, c) => Hand(u, c)'
  BY <1>2, EffectAlloc, Zenon
<1>4. Shares(x)' = {} /\ Cardinality(Shares(x)') = 0
  <2>1. Shares(x)' = Shares(x)
    BY <1>3 DEF Shares, SameShares
  <2>2. Shares(x) = {}
    BY <1>1, Zenon DEF SInv, Sound
  <2> QED
    BY <2>1, <2>2, FS_EmptySet
<1>5. Sound(x)'
  <2>1. \A u \in Threads : Hand(u, x)' => u = t
    BY <1>1, <1>3, Zenon DEF SInv, Sound
  <2> QED
    BY <1>1, <1>2, <1>4, <2>1 DEF Sound
<1>6. ASSUME NEW c \in Monitors \ {x} PROVE Sound(c)'
  BY <1>1, <1>2, <1>3, SoundKept DEF SInv, SameShares
<1>7. Exact(x)'
  BY <1>2, <1>3, <1>4, Zenon DEF Exact
<1>8. ASSUME NEW c \in Monitors \ {x}, Exact(c) PROVE Exact(c)'
  BY <1>1, <1>2, <1>3, <1>8, ExactKept, Zenon DEF SameShares
<1> QED
  BY <1>5, <1>6, <1>7, <1>8 DEF SInv, AllExact

\* its publication, with count 1 for its one share,
LEMMA SharePublish ==
  ASSUME CInv, SInv, NEW t \in Threads, EnsurePublish(t)
  PROVE  SInv' /\ (AllExact => AllExact')
<1>0. PICK x, h : x = m[t] /\ h = obj[t]
  BY Zenon
<1>1. /\ x \in Monitors /\ h \in Objects /\ Hand(t, x)
      /\ \A k \in Objects : \A c \in Monitors : Counts(k, c)' <=> Counts(k, c) \/ (k = h /\ c = x)
      /\ \A u \in Threads : \A c \in Monitors : Hand(u, c)' <=> Hand(u, c) /\ u # t
  BY <1>0, EffectPublish, Zenon
<1>2. /\ refs'[x] = 1 /\ \A c \in Monitors : refs[c] \in Int /\ (c # x => refs'[c] = refs[c])
      /\ alloc' = alloc
  BY <1>0, <1>1 DEF CInv, Types, EnsurePublish
<1>3. /\ x \in alloc /\ refs[x] = 0 /\ refs[x] >= Cardinality(Shares(x)) /\ \A u \in Threads : ~Hand(u, x)'
      /\ Shares(x) \subseteq Objects
  BY <1>1, Zenon DEF SInv, Sound, Shares
<1>4. Shares(x)' = {h} /\ Cardinality(Shares(x)') = 1
  <2>1. Shares(x) = {}
    BY <1>3, Finite
  <2>2. Shares(x)' = {h}
    BY <1>1, <2>1, Zenon DEF Shares
  <2> QED
    BY <2>2, FS_Singleton, Zenon
<1>5. Sound(x)'
  BY <1>2, <1>3, <1>4, SMTT(20) DEF Sound
<1>6. ASSUME NEW c \in Monitors \ {x} PROVE Sound(c)'
  BY <1>1, <1>2, SoundKept, Zenon DEF SInv
<1>7. Exact(x)'
  BY <1>2, <1>4, Zenon DEF Exact
<1>8. ASSUME NEW c \in Monitors \ {x}, Exact(c) PROVE Exact(c)'
  <2>1. \A u \in Threads : Hand(u, c) => Hand(u, c)'
    BY <1>1, HandOne
  <2> QED
    BY <1>1, <1>2, <1>8, <2>1, ExactKept, Zenon
<1> QED
  BY <1>5, <1>6, <1>7, <1>8, Zenon DEF SInv, AllExact

\* the count of the ownee, which was no share before,
LEMMA ShareSameRefs ==
  ASSUME CInv, SInv, NEW t \in Threads, SameRefs(t)
  PROVE  SInv' /\ (AllExact => AllExact')
<1>0. PICK x, o : x = m[t] /\ o = ownee[t]
  BY Zenon
<1>1. /\ SameHands /\ o \in Objects /\ obj[t] \in Objects /\ x \in Locks
      /\ \A h \in Objects : \A c \in Monitors : Counts(h, c)' <=> Counts(h, c) \/ (h = o /\ c = x)
      /\ \A c \in Monitors : ~Counts(o, c)
      /\ Counts(obj[t], x)
  BY <1>0, EffectSameRefs, Zenon
<1>2. /\ \A c \in Monitors : refs[c] \in Int
      /\ alloc' = alloc
      /\ refs' = IF x \in Mutexes THEN refs ELSE [refs EXCEPT ![x] = @ + 1]
  BY <1>0, Zenon DEF CInv, Types, SameRefs
<1>3. /\ x \in Monitors => refs'[x] = refs[x] + 1
      /\ \A c \in Monitors : c # x => refs'[c] = refs[c]
  BY <1>2, NullDiffers DEF CInv, Types
<1>4. ASSUME x \in Monitors PROVE Sound(x)' /\ (Exact(x) => Exact(x)')
  <2>1. Shares(x) \subseteq Objects /\ o \notin Shares(x) /\ Shares(x)' = Shares(x) \cup {o} /\ Shares(x) # {}
    BY <1>1, <1>4, Zenon DEF Shares
  <2>2. /\ Cardinality(Shares(x)) \in Nat /\ Cardinality(Shares(x)) # 0
        /\ Cardinality(Shares(x)') = Cardinality(Shares(x)) + 1
    BY <2>1, Finite
  <2>3. refs[x] \in Int /\ refs[x] >= Cardinality(Shares(x)) /\ x \in alloc
    BY <1>2, <1>4, <2>1, Zenon DEF SInv, Sound
  <2>4. \A u \in Threads : ~Hand(u, x)'
    <3>1. refs[x] # 0
      BY <2>2, <2>3
    <3> QED
      BY <1>1, <1>4, <3>1, Zenon DEF SInv, Sound, SameHands
  <2>5. refs'[x] >= Cardinality(Shares(x)') /\ (refs[x] = Cardinality(Shares(x)) => refs'[x] = Cardinality(Shares(x)'))
    BY <1>3, <1>4, <2>2, <2>3, SMTT(20)
  <2>6. Shares(x)' # {}
    BY <2>1, Zenon
  <2> QED
    BY <1>2, <2>3, <2>4, <2>5, <2>6, Zenon DEF Sound, Exact
<1>5. ASSUME NEW c \in Monitors, c # x PROVE Sound(c)' /\ (Exact(c) => Exact(c)')
  <2>1. Sound(c)'
    BY <1>1, <1>2, <1>3, <1>5, SoundKept, Zenon DEF SInv, SameHands
  <2>2. ASSUME Exact(c) PROVE Exact(c)'
    BY <1>1, <1>2, <1>3, <1>5, <2>2, ExactKept, Zenon DEF SameHands
  <2> QED
    BY <2>1, <2>2, Zenon
<1> QED
  BY <1>4, <1>5, Zenon DEF SInv, AllExact

\* and the end of a share, which decrements the count; if that was 1 no share is left.
LEMMA ShareDelete ==
  ASSUME CInv, SInv, NEW t \in Threads, Delete(t)
  PROVE  SInv' /\ (AllExact => AllExact')
<1>0. PICK x, h : x = monitor[obj[t]] /\ h = obj[t]
  BY Zenon
<1>1. /\ h \in Objects /\ x \in Locks
      /\ \A k \in Objects : \A c \in Monitors : Counts(k, c)' <=> Counts(k, c) /\ k # h
      /\ \A c \in Monitors : Counts(h, c) <=> c = x
      /\ \A u \in Threads : \A c \in Monitors : Hand(u, c)' <=> Hand(u, c) \/ (u = t /\ c = x /\ refs[c] = 1)
  BY <1>0, EffectDelete, SMTT(20)
<1>2. /\ \A c \in Monitors : refs[c] \in Int
      /\ alloc' = alloc
      /\ refs' = IF x \in Mutexes THEN refs ELSE [refs EXCEPT ![x] = @ - 1]
  BY <1>0, SMTT(20) DEF CInv, Types, Delete
<1>3. /\ x \in Monitors => refs'[x] = refs[x] - 1
      /\ \A c \in Monitors : c # x => refs'[c] = refs[c]
  BY <1>2, NullDiffers, SMTT(20) DEF CInv, Types
<1>4. ASSUME x \in Monitors PROVE Sound(x)' /\ (Exact(x) => Exact(x)')
  <2>1. Shares(x) \subseteq Objects /\ h \in Shares(x) /\ Shares(x)' = Shares(x) \ {h} /\ Shares(x)' \subseteq Objects
    BY <1>1, <1>4, Zenon DEF Shares
  <2>2. /\ Cardinality(Shares(x)) \in Nat /\ Cardinality(Shares(x)) # 0
        /\ Cardinality(Shares(x)') = Cardinality(Shares(x)) - 1
        /\ Cardinality(Shares(x)') = 0 <=> Shares(x)' = {}
    <3>1. /\ Cardinality(Shares(x)) \in Nat /\ Cardinality(Shares(x)) # 0
          /\ Cardinality(Shares(x) \ {h}) = Cardinality(Shares(x)) - 1
      BY <2>1, Finite, Zenon
    <3>2. Cardinality(Shares(x)') = 0 <=> Shares(x)' = {}
      BY <2>1, Finite, Zenon
    <3> QED
      BY <2>1, <3>1, <3>2, Zenon
  <2>3. refs[x] \in Int /\ refs[x] >= Cardinality(Shares(x)) /\ x \in alloc
    BY <1>2, <1>4, <2>1, Zenon DEF SInv, Sound
  <2>4. \A u \in Threads : Hand(u, x)' <=> u = t /\ refs[x] = 1
    <3>1. refs[x] # 0
      BY <2>2, <2>3
    <3> QED
      BY <1>1, <1>4, <3>1, Zenon DEF SInv, Sound
  <2>5. /\ refs'[x] >= Cardinality(Shares(x)') /\ (refs[x] = Cardinality(Shares(x)) => refs'[x] = Cardinality(Shares(x)'))
        /\ refs[x] = 1 => refs'[x] = 0
    BY <1>3, <1>4, <2>2, <2>3
  <2>6. Sound(x)'
    BY <1>2, <2>3, <2>4, <2>5, Zenon DEF Sound
  <2>7. ASSUME Exact(x) PROVE Exact(x)'
    <3>1. refs[x] = Cardinality(Shares(x))
      BY <2>3, <2>7, Zenon DEF Exact
    <3>2. Shares(x)' # {} \/ Hand(t, x)'
      BY <2>2, <2>4, <3>1
    <3> QED
      BY <2>5, <3>1, <3>2, Zenon DEF Exact
  <2> QED
    BY <2>6, <2>7, Zenon
<1>5. ASSUME NEW c \in Monitors, c # x PROVE Sound(c)' /\ (Exact(c) => Exact(c)')
  <2>1. Sound(c)'
    BY <1>1, <1>2, <1>3, <1>5, SoundKept, Zenon DEF SInv
  <2>2. ASSUME Exact(c) PROVE Exact(c)'
    BY <1>1, <1>2, <1>3, <1>5, <2>2, ExactKept, Zenon
  <2> QED
    BY <2>1, <2>2, Zenon
<1> QED
  BY <1>4, <1>5, Zenon DEF SInv, AllExact

\* A swept object may take its share with it; only then is a count not exact any more.
LEMMA ShareObject ==
  ASSUME CInv, SInv, NEW h \in Objects, Sweep(h) \/ New(h) \/ \E c \in Mutexes : NewMutex(h, c)
  PROVE  SInv' /\ (AllExact /\ ~(Sweep(h) /\ monitor[h] \in Monitors) => AllExact')
<1>1. /\ SameHands /\ UNCHANGED <<refs, alloc>>
      /\ \A k \in Objects : \A c \in Monitors : Counts(k, c)' => Counts(k, c)
      /\ ~(Sweep(h) /\ monitor[h] \in Monitors) => SameShares
      /\ \A c \in Monitors : refs[c] \in Int
  BY EffectObject, Zenon DEF CInv, Types, Sweep, New, NewMutex, heap
<1>2. ASSUME NEW c \in Monitors PROVE Sound(c)'
  BY <1>1, SoundKept, Zenon DEF SInv, SameHands
<1> QED
  BY <1>1, <1>2, ShareQuiet, SMTT(20) DEF SInv

\* Both hold at first,
LEMMA ShareInit == Init => SInv /\ AllExact
<1> SUFFICES ASSUME Init, NEW c \in Monitors PROVE Sound(c) /\ Exact(c)
  BY Zenon DEF SInv, AllExact
<1>1. /\ \A h \in Objects : ~Counts(h, c)
      /\ \A t \in Threads : ~Hand(t, c)
  BY NullDiffers DEF Init, Counts, Hand, Deleting, Copying
<1>2. Shares(c) = {} /\ Cardinality(Shares(c)) = 0
  BY <1>1, FS_EmptySet, Zenon DEF Shares
<1> QED
  BY <1>1, <1>2, SMTT(20) DEF Init, Sound, Exact

\* and every step keeps them, but for such a sweep.
LEMMA ShareStep ==
  /\ CInv /\ SInv /\ [Next]_vars => SInv'
  /\ CInv /\ SInv /\ AllExact /\ [Next]_vars => AllExact' \/ \E h \in Objects : Sweep(h) /\ monitor[h] \in Monitors
<1> SUFFICES ASSUME CInv, SInv, [Next]_vars
             PROVE  /\ SInv'
                    /\ AllExact => AllExact' \/ \E h \in Objects : Sweep(h) /\ monitor[h] \in Monitors
  BY Zenon
<1>1. CASE UNCHANGED vars
  <2>1. SameShares /\ SameHands
    BY <1>1, SMTT(20) DEF SameShares, SameHands, Counts, Hand, Deleting, Copying, vars, locals
  <2> QED
    BY <1>1, <2>1, ShareQuiet DEF vars, heap
<1>2. ASSUME NEW t \in Threads,
             \/ EnsureLoad(t) \/ EnsureWon(t) \/ Lock(t) \/ Exit(t)
             \/ \E h \in Objects : Enter(t, h) \/ \E o \in Objects : setSameMutex(t, o, h)
      PROVE  SInv' /\ (AllExact => AllExact')
  <2>1. UNCHANGED <<refs, alloc>>
    BY <1>2, Zenon DEF EnsureLoad, EnsureWon, Lock, Exit, Enter, setSameMutex, heap
  <2> QED
    BY <1>2, <2>1, EffectQuiet, ShareQuiet, Zenon
<1>3. ASSUME NEW t \in Threads, EnsureLock(t) \/ EnsureLost(t) \/ SameCopy(t) \/ (\E r \in BOOLEAN : Finalized(t, r))
                                  \/ \E h \in Objects : Finalize(t, h)
      PROVE  SInv' /\ (AllExact => AllExact')
  <2>1. UNCHANGED <<refs, alloc>>
    BY <1>3, SMTT(20) DEF EnsureLock, EnsureLost, SameCopy, Finalized, Finalize, heap
  <2> QED
    BY <1>3, <2>1, EffectGmtx, EffectCopy, EffectFinalize, EffectFinalized, ShareQuiet, Zenon
<1>4. ASSUME NEW t \in Threads, EnsureDiscard(t) \/ Free(t) PROVE SInv' /\ (AllExact => AllExact')
  <2>1. CASE EnsureDiscard(t)
    BY <2>1, EffectDiscard, ShareDrop, Zenon DEF EnsureDiscard
  <2>2. CASE Free(t)
    BY <2>2, EffectFree, ShareDrop, Zenon DEF Free
  <2> QED
    BY <1>4, <2>1, <2>2
<1>5. ASSUME NEW t \in Threads, EnsureAlloc(t) \/ EnsurePublish(t) \/ SameRefs(t) \/ Delete(t)
      PROVE SInv' /\ (AllExact => AllExact')
  BY <1>5, ShareAlloc, SharePublish, ShareSameRefs, ShareDelete, Zenon
<1>6. ASSUME NEW h \in Objects, Sweep(h) \/ New(h) \/ \E c \in Mutexes : NewMutex(h, c)
      PROVE  SInv' /\ (AllExact /\ ~(Sweep(h) /\ monitor[h] \in Monitors) => AllExact')
  BY <1>6, ShareObject, Zenon
<1> HIDE DEF CInv, SInv, AllExact
<1> QED
  BY <1>1, <1>2, <1>3, <1>4, <1>5, <1>6, SMTT(20) DEF Next

-----------------------------------------------------------------------------
\* The monitor of a live object is never taken away or replaced: publication and
\* setSameMutex find none, the rest is done to dying, dead or new objects.
LEMMA MonitorKept ==
  ASSUME CInv, [Next]_vars, NEW h \in Objects, life[h] = "live", monitor[h] # null
  PROVE  monitor'[h] = monitor[h]
<1>1. Types /\ \A t \in Threads : Self(t)
  BY DEF CInv, Self
<1>2. CASE UNCHANGED monitor
  BY <1>2
<1>3. ASSUME NEW k, NEW x, monitor' = [monitor EXCEPT ![k] = x], k # h PROVE monitor'[h] = monitor[h]
  BY <1>1, <1>3, Zenon DEF Types
<1>4. ASSUME NEW t \in Threads, EnsurePublish(t) PROVE monitor'[h] = monitor[h]
  <2>1. monitor[obj[t]] = null /\ monitor' = [monitor EXCEPT ![obj[t]] = m[t]]
    BY <1>1, <1>4, Zenon DEF EnsurePublish, Self, Local
  <2> QED
    BY <1>3, <2>1, Zenon
<1>5. ASSUME NEW t \in Threads, SameCopy(t) PROVE monitor'[h] = monitor[h]
  <2>1. monitor[ownee[t]] = null /\ monitor' = [monitor EXCEPT ![ownee[t]] = monitor[obj[t]]]
    BY <1>1, <1>5, Zenon DEF SameCopy, Self, Control, Lives
  <2> QED
    BY <1>3, <2>1, Zenon
<1>6. ASSUME NEW t \in Threads, Delete(t) PROVE monitor'[h] = monitor[h]
  BY <1>2, <1>3, <1>6, Facts, Zenon DEF Delete
<1>7. ASSUME NEW t \in Threads, Free(t) PROVE monitor'[h] = monitor[h]
  <2>1. life[obj[t]] = "dying" /\ monitor' = [monitor EXCEPT ![obj[t]] = null]
    BY <1>7, Facts, Zenon DEF Free
  <2> QED
    BY <1>3, <2>1, Zenon
<1>8. ASSUME NEW t \in Threads, NEW r \in BOOLEAN, Finalized(t, r) PROVE monitor'[h] = monitor[h]
  BY <1>2, <1>3, <1>8, Facts, Zenon DEF Finalized
<1>9. ASSUME NEW k \in Objects, New(k) \/ \E c \in Mutexes : NewMutex(k, c) PROVE monitor'[h] = monitor[h]
  <2>1. k # h /\ \E x : monitor' = [monitor EXCEPT ![k] = x]
    BY <1>9, Zenon DEF New, NewMutex
  <2> QED
    BY <1>3, <2>1, Zenon
<1>10. ASSUME NEW t \in Threads,
              \/ EnsureLoad(t) \/ EnsureAlloc(t) \/ EnsureLock(t) \/ EnsureWon(t) \/ EnsureLost(t)
              \/ EnsureDiscard(t) \/ Lock(t) \/ Exit(t) \/ SameRefs(t)
       PROVE  UNCHANGED monitor
  BY <1>10, Zenon DEF EnsureLoad, EnsureAlloc, EnsureLock, EnsureWon, EnsureLost, EnsureDiscard, Lock, Exit, SameRefs
<1>11. ASSUME NEW k \in Objects,
              \/ Sweep(k) \/ \E t \in Threads : Enter(t, k) \/ Finalize(t, k)
              \/ \E t \in Threads, o \in Objects : setSameMutex(t, o, k)
       PROVE  UNCHANGED monitor
  BY <1>11, Zenon DEF Sweep, Enter, Finalize, setSameMutex
<1>12. CASE UNCHANGED vars
  BY <1>12, Zenon DEF vars
<1> QED
  BY <1>2, <1>4, <1>5, <1>6, <1>7, <1>8, <1>9, <1>10, <1>11, <1>12, Zenon DEF Next

\* Counting statements.
LEMMA Positions ==
  ASSUME CInv, NEW t \in Threads
  PROVE  \A c : /\ IsFiniteSet(Pos(t, c)) /\ Cardinality(Pos(t, c)) \in Nat
                /\ Cardinality(Pos(t, c)) = 0 <=> Pos(t, c) = {}
<1>1. Len(held[t]) \in Nat
  BY Elements, Zenon DEF CInv
<1>2. IsFiniteSet(1 .. Len(held[t]))
  BY <1>1, FS_Interval
<1>3. \A c : IsFiniteSet(Pos(t, c))
  BY <1>2, FS_Subset, Zenon DEF Pos
<1> QED
  BY <1>3, FS_CardinalityType, FS_EmptySet, Zenon

\* An object in a synchronized statement is alive and has a monitor, which is
\* allocated if it is one of the runtime's.
LEMMA HeldMonitors ==
  ASSUME CInv, SInv, NEW t \in Threads, NEW i \in 1 .. Len(held[t])
  PROVE  /\ held[t][i] \in Objects /\ life[held[t][i]] = "live"
         /\ monitor[held[t][i]] \in Locks
         /\ monitor[held[t][i]] \in Monitors => monitor[held[t][i]] \in alloc
<1> DEFINE h == held[t][i]
<1>1. h \in Objects /\ h \in Range(held[t])
  BY Elements, Zenon DEF CInv
<1>2. life[h] = "live" /\ monitor[h] # null
  BY <1>1, SMTT(20) DEF CInv, Lives
<1>3. monitor[h] \in Locks
  BY <1>1, <1>2, SMTT(20) DEF CInv, Types
<1>4. ASSUME monitor[h] \in Monitors PROVE monitor[h] \in alloc
  BY <1>1, <1>2, <1>4, Zenon DEF SInv, Sound, Shares, Counts
<1> QED
  BY <1>1, <1>2, <1>3, <1>4, Zenon

\* The steps that touch no lock keep LInv: the statements' objects keep their monitors;
LEMMA LockQuiet ==
  ASSUME CInv, SInv, LInv, [Next]_vars, UNCHANGED <<owner, count, held>>
  PROVE  LInv'
<1>1. ASSUME NEW t \in Threads, NEW c PROVE Pos(t, c)' = Pos(t, c)
  <2>1. \A i \in 1 .. Len(held[t]) : monitor'[held[t][i]] = monitor[held[t][i]]
    BY HeldMonitors, MonitorKept, NullDiffers
  <2> QED
    BY <2>1 DEF Pos
<1> QED
  BY <1>1 DEF LInv, Locked

\* so does the allocation of a monitor, whose block is in no statement's use,
LEMMA LockAlloc ==
  ASSUME CInv, SInv, LInv, NEW t \in Threads, EnsureAlloc(t)
  PROVE  LInv'
<1>1. PICK x \in Monitors \ alloc :
        owner' = [owner EXCEPT ![x] = null] /\ count' = [count EXCEPT ![x] = 0]
  BY Zenon DEF EnsureAlloc
<1>2. /\ owner'[x] = null /\ count'[x] = 0 /\ UNCHANGED <<monitor, held>>
      /\ \A c \in Locks : c # x => owner'[c] = owner[c] /\ count'[c] = count[c]
  BY <1>1, NullDiffers, SMTT(20) DEF CInv, Types, EnsureAlloc
<1>3. \A u \in Threads : \A c : Pos(u, c)' = Pos(u, c)
  BY <1>2, Zenon DEF Pos
<1>4. \A u \in Threads : Pos(u, x) = {}
  BY <1>1, HeldMonitors, SMTT(20) DEF Pos
<1>5. Locked(x)'
  BY <1>2, <1>3, <1>4, NullDiffers, Zenon DEF Locked
<1>6. ASSUME NEW c \in Locks \ {x} PROVE Locked(c)'
  BY <1>2, <1>3, SMTT(20) DEF LInv, Locked
<1> QED
  BY <1>5, <1>6, Zenon DEF LInv

\* locking, which adds a statement and a count,
LEMMA LockLock ==
  ASSUME CInv, SInv, LInv, NEW t \in Threads, Lock(t)
  PROVE  LInv'
<1>0. PICK x, n : x = m[t] /\ n = Len(held[t]) + 1
  BY Zenon
<1>1. /\ Types /\ Local(t) /\ pc[t] = "got" /\ obj[t] \in Objects /\ owner[x] \in {null, t}
      /\ owner' = [owner EXCEPT ![x] = t] /\ count' = [count EXCEPT ![x] = @ + 1]
      /\ held' = [held EXCEPT ![t] = Append(held[t], obj[t])] /\ UNCHANGED monitor
  BY <1>0, Facts, Zenon DEF Lock, Self
<1>2. x = monitor[obj[t]] /\ x \in Locks
  BY <1>0, <1>1, Zenon DEF Types, Local
<1>3. /\ owner'[x] = t /\ count'[x] = count[x] + 1 /\ count[x] \in Int
      /\ \A c \in Locks : c # x => owner'[c] = owner[c] /\ count'[c] = count[c]
      /\ held'[t] = Append(held[t], obj[t]) /\ \A u \in Threads \ {t} : held'[u] = held[u]
      /\ held[t] \in Seq(Objects)
  BY <1>1, <1>2, SMTT(20) DEF Types
<1>4. /\ Len(held'[t]) = n /\ held'[t][n] = obj[t] /\ Len(held[t]) \in Nat
      /\ \A i \in 1 .. Len(held[t]) : held'[t][i] = held[t][i]
  BY <1>0, <1>1, <1>3, Appended, SMTT(20)
<1>5. \A u \in Threads \ {t} : \A c : Pos(u, c)' = Pos(u, c)
  BY <1>1, <1>3, SMTT(20) DEF Pos
<1>6. /\ Pos(t, x)' = Pos(t, x) \cup {n} /\ n \notin Pos(t, x)
      /\ \A c : c # x => Pos(t, c)' = Pos(t, c)
  BY <1>0, <1>1, <1>2, <1>4, SMTT(20) DEF Pos
<1>7. Cardinality(Pos(t, x)') = Cardinality(Pos(t, x)) + 1
  BY <1>6, Positions, FS_AddElement, Zenon
<1>8. count[x] = Cardinality(Pos(t, x)) /\ \A u \in Threads \ {t} : Pos(u, x) = {}
  <2>1. CASE owner[x] = t
    BY <1>2, <2>1, Zenon DEF LInv, Locked
  <2>2. CASE owner[x] = null
    BY <1>2, <2>2, NullDiffers, Positions, SMTT(20) DEF LInv, Locked
  <2> QED
    BY <1>1, <2>1, <2>2, Zenon
<1>9. Locked(x)'
  <2>1. count'[x] = Cardinality(Pos(t, x)') /\ Pos(t, x)' # {}
    BY <1>3, <1>6, <1>7, <1>8, Zenon
  <2>2. owner'[x] # null
    BY <1>3, NullDiffers, Zenon
  <2> QED
    BY <1>3, <1>5, <1>8, <2>1, <2>2, SMTT(20) DEF Locked
<1>10. ASSUME NEW c \in Locks \ {x} PROVE Locked(c)'
  BY <1>3, <1>5, <1>6, SMTT(20) DEF LInv, Locked
<1> QED
  BY <1>9, <1>10, Zenon DEF LInv

\* and unlocking the mutex found through the object: it is the one that was locked.
LEMMA LockExit ==
  ASSUME CInv, SInv, LInv, NEW t \in Threads, Exit(t)
  PROVE  LInv'
<1>0. PICK x, n : x = monitor[held[t][Len(held[t])]] /\ n = Len(held[t])
  BY Zenon
<1>1. /\ Types /\ held[t] # <<>> /\ held[t] \in Seq(Objects)
      /\ count' = [count EXCEPT ![x] = @ - 1]
      /\ owner' = [owner EXCEPT ![x] = IF count[x] = 1 THEN null ELSE @]
      /\ held' = [held EXCEPT ![t] = Rest(held[t])] /\ UNCHANGED monitor
  BY <1>0, Zenon DEF Exit, CInv, Types, Rest
<1>2. /\ n \in Nat /\ n >= 1
      /\ Len(Rest(held[t])) = n - 1 /\ \A i \in 1 .. n - 1 : Rest(held[t])[i] = held[t][i]
  BY <1>0, <1>1, Popped, Zenon
<1>3. x = monitor[held[t][n]] /\ x \in Locks
  BY <1>0, <1>2, HeldMonitors, SMTT(20)
<1>4. /\ count'[x] = count[x] - 1 /\ count[x] \in Int
      /\ owner'[x] = IF count[x] = 1 THEN null ELSE owner[x]
      /\ \A c \in Locks : c # x => owner'[c] = owner[c] /\ count'[c] = count[c]
      /\ held'[t] = Rest(held[t]) /\ \A u \in Threads \ {t} : held'[u] = held[u]
  BY <1>1, <1>3, Zenon DEF Types
<1>5. \A u \in Threads \ {t} : \A c : Pos(u, c)' = Pos(u, c)
  BY <1>1, <1>4, SMTT(20) DEF Pos
<1>6. /\ Pos(t, x)' = Pos(t, x) \ {n} /\ n \in Pos(t, x)
      /\ \A c : c # x => Pos(t, c)' = Pos(t, c)
  <2>1. held'[t] = Rest(held[t]) /\ Len(held'[t]) = n - 1 /\ \A i \in 1 .. n - 1 : held'[t][i] = held[t][i]
    BY <1>2, <1>4, Zenon
  <2>2. \A c, i : i \in Pos(t, c)' <=> i \in 1 .. n - 1 /\ monitor[held[t][i]] = c
    BY <1>1, <2>1, SMTT(20) DEF Pos
  <2>3. \A c, i : i \in Pos(t, c) <=> i \in 1 .. n /\ monitor[held[t][i]] = c
    BY <1>0, Zenon DEF Pos
  <2>4. \A i : i \in 1 .. n - 1 <=> i \in 1 .. n /\ i # n
    BY <1>2
  <2>5. n \in 1 .. n
    BY <1>2
  <2>6. n \in Pos(t, x)
    BY <1>3, <2>3, <2>5, Zenon
  <2>7. \A c, i : i \in Pos(t, c)' <=> i \in Pos(t, c) /\ i # n
    BY <2>2, <2>3, <2>4, Zenon
  <2>8. \A c : c # x => n \notin Pos(t, c)
    BY <1>3, <2>3, Zenon
  <2>9. Pos(t, x)' = Pos(t, x) \ {n}
    BY <2>7, Zenon
  <2> QED
    BY <2>6, <2>7, <2>8, <2>9, Zenon
<1>7. /\ owner[x] = t /\ count[x] = Cardinality(Pos(t, x)) /\ \A u \in Threads \ {t} : Pos(u, x) = {}
  BY <1>3, <1>6, SMTT(20) DEF LInv, Locked
<1>8. /\ IsFiniteSet(Pos(t, x)') /\ Cardinality(Pos(t, x)') = Cardinality(Pos(t, x)) - 1
      /\ Cardinality(Pos(t, x)') \in Nat
  BY <1>6, Positions, FS_RemoveElement, FS_CardinalityType
<1>9. Cardinality(Pos(t, x)') = 0 <=> Pos(t, x)' = {}
  BY <1>8, FS_EmptySet, Zenon
<1>10. count'[x] = Cardinality(Pos(t, x)')
  BY <1>4, <1>7, <1>8, Zenon
<1>11. Locked(x)'
  <2>1. CASE count[x] = 1
    <3>1. owner'[x] = null /\ count'[x] = 0 /\ Pos(t, x)' = {}
      BY <1>4, <1>9, <1>10, <2>1, SMTT(20)
    <3> QED
      BY <1>5, <1>7, <3>1, NullDiffers, SMTT(20) DEF Locked
  <2>2. CASE count[x] # 1
    <3>1. owner'[x] = t /\ Pos(t, x)' # {}
      BY <1>4, <1>7, <1>9, <1>10, <2>2, SMTT(20)
    <3> QED
      BY <1>5, <1>7, <1>10, <3>1, NullDiffers, Zenon DEF Locked
  <2> QED
    BY <2>1, <2>2, Zenon
<1>12. ASSUME NEW c \in Locks \ {x} PROVE Locked(c)'
  BY <1>4, <1>5, <1>6, SMTT(20) DEF LInv, Locked
<1> QED
  BY <1>11, <1>12, Zenon DEF LInv

\* LInv holds at first,
LEMMA LockInit == Init => LInv
<1> SUFFICES ASSUME Init, NEW c \in Locks PROVE Locked(c)
  BY Zenon DEF LInv
<1>1. owner[c] = null /\ count[c] = 0 /\ \A t \in Threads : Pos(t, c) = {}
  BY DEF Init, Pos
<1> QED
  BY <1>1, NullDiffers, SMTT(20) DEF Locked

\* and every step keeps it.
LEMMA LockStep == CInv /\ SInv /\ LInv /\ [Next]_vars => LInv'
<1> SUFFICES ASSUME CInv, SInv, LInv, [Next]_vars PROVE LInv'
  BY Zenon
<1>1. ASSUME NEW t \in Threads, EnsureAlloc(t) \/ Lock(t) \/ Exit(t) PROVE LInv'
  BY <1>1, LockAlloc, LockLock, LockExit, Zenon
<1>2. CASE UNCHANGED vars
  BY <1>2, LockQuiet, Zenon DEF vars, heap
<1>3. ASSUME NEW t \in Threads,
             \/ EnsureLoad(t) \/ EnsureLock(t) \/ EnsurePublish(t) \/ EnsureWon(t) \/ EnsureLost(t)
             \/ EnsureDiscard(t) \/ SameRefs(t) \/ SameCopy(t) \/ Delete(t) \/ Free(t)
             \/ \E r \in BOOLEAN : Finalized(t, r)
      PROVE  UNCHANGED <<owner, count, held>>
  BY <1>3, Zenon DEF EnsureLoad, EnsureLock, EnsurePublish, EnsureWon, EnsureLost, EnsureDiscard,
     SameRefs, SameCopy, Delete, Free, Finalized, heap
<1>4. ASSUME NEW h \in Objects,
             \/ Sweep(h) \/ New(h) \/ (\E c \in Mutexes : NewMutex(h, c))
             \/ (\E t \in Threads : Enter(t, h) \/ Finalize(t, h))
             \/ \E t \in Threads, o \in Objects : setSameMutex(t, o, h)
      PROVE  UNCHANGED <<owner, count, held>>
  BY <1>4, Zenon DEF Sweep, New, NewMutex, Enter, Finalize, setSameMutex, heap
<1>5. CASE UNCHANGED <<owner, count, held>>
  BY <1>5, LockQuiet, Zenon
<1> HIDE DEF LInv
<1> QED
  BY <1>1, <1>2, <1>3, <1>4, <1>5, Zenon DEF Next

-----------------------------------------------------------------------------
\* What keeps the attribute of an object.
LEMMA AttributeKept ==
  ASSUME NEW h \in Objects, Attributed(h),
         life'[h] = "live" => life[h] = "live",
         monitor'[h] = monitor[h] \/ monitor'[h] \notin Monitors,
         h \in FINALIZE => h \in FINALIZE',
         \A u \in Threads : pc[u] = "won" /\ obj[u] = h => h \in FINALIZE' \/ (pc'[u] = "won" /\ obj'[u] = h)
  PROVE  Attributed(h)'
BY Zenon DEF Attributed

\* Every object that needs it has the attribute.
AllAttributed == \A h \in Objects : Attributed(h)

\* Steps that change neither monitors nor attributes,
LEMMA AttributeQuiet ==
  ASSUME CInv, AllAttributed, NEW t \in Threads, UNCHANGED <<monitor, FINALIZE>>,
         \A h \in Objects : life'[h] = "live" => life[h] = "live",
         pc[t] # "won", \A u \in Threads \ {t} : pc'[u] = pc[u] /\ obj'[u] = obj[u]
  PROVE  AllAttributed'
<1> SUFFICES ASSUME NEW h \in Objects PROVE Attributed(h)'
  BY Zenon DEF AllAttributed
<1> QED
  BY AttributeKept, Zenon DEF AllAttributed

\* among them most steps of a call,
LEMMA AttributeCalls ==
  ASSUME CInv, AllAttributed, NEW t \in Threads,
         \/ EnsureLoad(t) \/ EnsureAlloc(t) \/ EnsureLock(t) \/ EnsureLost(t)
         \/ EnsureDiscard(t) \/ Lock(t) \/ Exit(t) \/ SameRefs(t)
         \/ \E h \in Objects : Enter(t, h) \/ Finalize(t, h) \/ \E o \in Objects : setSameMutex(t, o, h)
  PROVE  AllAttributed'
<1>1. Types
  BY Zenon DEF CInv
<1>2. CASE \/ EnsureLoad(t) \/ EnsureAlloc(t) \/ EnsureLock(t) \/ EnsureLost(t)
           \/ EnsureDiscard(t) \/ Exit(t) \/ SameRefs(t)
  <2>1. /\ UNCHANGED <<monitor, FINALIZE, life, obj>> /\ pc[t] # "won"
        /\ pc' = pc \/ \E l : pc' = [pc EXCEPT ![t] = l]
    BY <1>2, Zenon DEF EnsureLoad, EnsureAlloc, EnsureLock, EnsureLost, EnsureDiscard, Exit,
       SameRefs, Goto, locals
  <2>2. \A u \in Threads \ {t} : pc'[u] = pc[u] /\ obj'[u] = obj[u]
    BY <1>1, <2>1, Zenon DEF Types
  <2> QED
    BY <2>1, <2>2, AttributeQuiet, Zenon
<1>3. CASE Lock(t)
  <2>1. /\ UNCHANGED <<monitor, FINALIZE, life>> /\ pc[t] # "won"
        /\ \A u \in Threads \ {t} : pc'[u] = pc[u] /\ obj'[u] = obj[u]
    BY <1>1, <1>3, Returned, Zenon DEF Lock
  <2> QED
    BY <2>1, AttributeQuiet, Zenon
<1>4. ASSUME NEW h \in Objects, Enter(t, h) \/ Finalize(t, h) \/ \E o \in Objects : setSameMutex(t, o, h)
      PROVE  AllAttributed'
  <2>1. /\ UNCHANGED <<monitor, FINALIZE>> /\ pc[t] # "won"
        /\ \A k \in Objects : life'[k] = "live" => life[k] = "live"
        /\ \A u \in Threads \ {t} : pc'[u] = pc[u] /\ obj'[u] = obj[u]
    <3>1. /\ UNCHANGED <<monitor, FINALIZE>> /\ pc[t] = "idle"
          /\ life' = life \/ \E k \in Objects : life' = [life EXCEPT ![k] = "dying"]
      BY <1>4, Zenon DEF Enter, Finalize, setSameMutex
    <3>2. /\ \E l : pc' = [pc EXCEPT ![t] = l]
          /\ \E k : obj' = [obj EXCEPT ![t] = k]
      BY <1>4, Zenon DEF Enter, Finalize, setSameMutex, Goto, Call
    <3>3. \A k \in Objects : life'[k] = "live" => life[k] = "live"
      BY <1>1, <3>1, SMTT(20) DEF Types
    <3>4. \A u \in Threads \ {t} : pc'[u] = pc[u] /\ obj'[u] = obj[u]
      BY <1>1, <3>2, Zenon DEF Types
    <3>5. UNCHANGED <<monitor, FINALIZE>> /\ pc[t] # "won"
      BY <1>4, Zenon DEF Enter, Finalize, setSameMutex
    <3> QED
      BY <3>3, <3>4, <3>5, Zenon
  <2> QED
    BY <2>1, AttributeQuiet, Zenon
<1> QED
  BY <1>2, <1>3, <1>4, Zenon

\* the winner of ensureMonitor, who sets the attribute before it leaves,
LEMMA AttributePublish ==
  ASSUME CInv, AllAttributed, NEW t \in Threads, EnsurePublish(t) \/ EnsureWon(t)
  PROVE  AllAttributed'
<1>1. Types /\ UNCHANGED <<life, obj>>
  BY Zenon DEF CInv, EnsurePublish, EnsureWon, locals
<1> SUFFICES ASSUME NEW h \in Objects PROVE Attributed(h)'
  BY Zenon DEF AllAttributed
<1>2. CASE EnsurePublish(t)
  <2>1. /\ UNCHANGED FINALIZE /\ pc[t] = "publish" /\ pc'[t] = "won"
        /\ \A u \in Threads \ {t} : pc'[u] = pc[u]
        /\ h # obj[t] => monitor'[h] = monitor[h]
    BY <1>1, <1>2, Zenon DEF Types, EnsurePublish, Goto
  <2>2. CASE h = obj[t]
    BY <1>1, <2>1, <2>2, Zenon DEF AllAttributed, Attributed
  <2>3. CASE h # obj[t]
    BY <1>1, <2>1, <2>3, AttributeKept, Zenon DEF AllAttributed
  <2> QED
    BY <2>2, <2>3, Zenon
<1>3. CASE EnsureWon(t)
  <2>1. /\ FINALIZE' = FINALIZE \cup {obj[t]} /\ UNCHANGED monitor
        /\ \A u \in Threads \ {t} : pc'[u] = pc[u]
    BY <1>1, <1>3, Zenon DEF Types, EnsureWon, Goto
  <2> QED
    BY <1>1, <2>1, AttributeKept, Zenon DEF AllAttributed
<1> QED
  BY <1>2, <1>3, Zenon

\* setSameMutex, which does not set it: the ownee must have it already,
LEMMA AttributeCopy ==
  ASSUME Ownees \subseteq HasDtor, CInv, AllAttributed, NEW t \in Threads, SameCopy(t)
  PROVE  AllAttributed'
<1> DEFINE o == ownee[t]
<1>1. /\ Types /\ Self(t) /\ pc[t] = "copy" /\ op[t] = "same" /\ o \in Objects /\ UNCHANGED <<life, FINALIZE>>
      /\ monitor' = [monitor EXCEPT ![o] = monitor[obj[t]]] /\ Return(t)
  BY Facts, Zenon DEF SameCopy, Self, Control
<1>2. o \in HasDtor /\ life[o] = "live"
  BY <1>1, Zenon DEF Self, Lives
<1>3. \A u \in Threads \ {t} : pc'[u] = pc[u] /\ obj'[u] = obj[u]
  BY <1>1, Returned, Zenon
<1>4. \A h \in Objects : h # o => monitor'[h] = monitor[h]
  BY <1>1, Zenon DEF Types
<1> HIDE DEF o
<1> SUFFICES ASSUME NEW h \in Objects PROVE Attributed(h)'
  BY Zenon DEF AllAttributed
<1>5. CASE h = o
  BY <1>1, <1>2, <1>5, Zenon DEF AllAttributed, Attributed
<1>6. CASE h # o
  BY <1>1, <1>3, <1>4, <1>6, AttributeKept, Zenon DEF AllAttributed
<1> QED
  BY <1>5, <1>6, Zenon

\* the finalizer, on an object that is not alive any more,
LEMMA AttributeFinalizer ==
  ASSUME CInv, AllAttributed, NEW t \in Threads, Delete(t) \/ Free(t) \/ \E r \in BOOLEAN : Finalized(t, r)
  PROVE  AllAttributed'
<1>1. /\ Types /\ obj[t] \in Objects /\ life[obj[t]] = "dying" /\ pc[t] # "won"
  BY Facts, Zenon DEF Delete, Free, Finalized
<1>2. /\ UNCHANGED FINALIZE /\ life'[obj[t]] # "live"
      /\ \A h \in Objects : h # obj[t] => life'[h] = life[h] /\ monitor'[h] = monitor[h]
      /\ \A u \in Threads \ {t} : pc'[u] = pc[u] /\ obj'[u] = obj[u]
  <2>1. CASE Delete(t)
    BY <1>1, <2>1, Zenon DEF Types, Delete, Goto, locals
  <2>2. CASE Free(t)
    BY <1>1, <2>2, Zenon DEF Types, Free, Goto, locals
  <2>3. CASE \E r \in BOOLEAN : Finalized(t, r)
    <3>1. life' = [life EXCEPT ![obj[t]] = "dead"] /\ UNCHANGED FINALIZE
      BY <2>3, Zenon DEF Finalized
    <3>r. Types /\ Return(t)
      BY <1>1, <2>3, Zenon DEF Finalized
    <3>m. monitor' = monitor \/ monitor' = [monitor EXCEPT ![obj[t]] = null]
      BY <2>3, Zenon DEF Finalized
    <3>2. \A u \in Threads \ {t} : pc'[u] = pc[u] /\ obj'[u] = obj[u]
      BY <3>r, Returned, Zenon
    <3>3. life'[obj[t]] = "dead" /\ \A h \in Objects : h # obj[t] => life'[h] = life[h]
      BY <1>1, <3>1, Zenon DEF Types
    <3>4. \A h \in Objects : h # obj[t] => monitor'[h] = monitor[h]
      BY <1>1, <3>m, Zenon DEF Types
    <3> QED
      BY <3>1, <3>2, <3>3, <3>4, Zenon
  <2> QED
    BY <2>1, <2>2, <2>3, Zenon
<1> SUFFICES ASSUME NEW h \in Objects PROVE Attributed(h)'
  BY Zenon DEF AllAttributed
<1>3. CASE h = obj[t]
  BY <1>2, <1>3, Zenon DEF Attributed
<1>4. CASE h # obj[t]
  BY <1>1, <1>2, <1>4, AttributeKept, Zenon DEF AllAttributed
<1> QED
  BY <1>3, <1>4

\* and the collector and constructors.
LEMMA AttributeObject ==
  ASSUME CInv, AllAttributed, NEW k \in Objects, Sweep(k) \/ New(k) \/ \E c \in Mutexes : NewMutex(k, c)
  PROVE  AllAttributed'
<1>1. /\ Types /\ UNCHANGED <<pc, obj>>
      /\ \A h \in Objects : h # k => /\ life'[h] = life[h] /\ monitor'[h] = monitor[h]
                                     /\ h \in FINALIZE => h \in FINALIZE'
  BY SMTT(20) DEF CInv, Types, Sweep, New, NewMutex, locals
<1>2. Attributed(k)'
  <2>1. CASE Sweep(k)
    BY <1>1, <2>1, Zenon DEF Sweep, Attributed, Types
  <2>2. CASE New(k)
    <3>1. monitor'[k] = null /\ (k \in HasDtor => k \in FINALIZE')
      BY <1>1, <2>2, Zenon DEF New, Types
    <3> QED
      BY <3>1, NullDiffers, Zenon DEF Attributed
  <2>3. ASSUME NEW c \in Mutexes, NewMutex(k, c) PROVE Attributed(k)'
    <3>1. monitor'[k] = c /\ UNCHANGED <<life, FINALIZE>> /\ Attributed(k)
      BY <1>1, <2>3, Zenon DEF NewMutex, Types, AllAttributed
    <3> QED
      BY <3>1, NullDiffers, Zenon DEF Attributed
  <2> QED
    BY <2>1, <2>2, <2>3, Zenon
<1>3. ASSUME NEW h \in Objects \ {k} PROVE Attributed(h)'
  BY <1>1, AttributeKept, Zenon DEF AllAttributed
<1> QED
  BY <1>2, <1>3, Zenon DEF AllAttributed

\* FInv holds at first,
LEMMA LeakInit == Init => FInv
<1>1. Init => AllExact
  BY ShareInit, Zenon
<1>2. ASSUME Init, NEW h \in Objects PROVE Attributed(h)
  BY <1>2, NullDiffers, Zenon DEF Init, Attributed
<1> QED
  BY <1>1, <1>2, Zenon DEF FInv, AllExact

\* and every step keeps it: what is swept has no attribute, and so no share.
LEMMA LeakStep ==
  ASSUME Ownees \subseteq HasDtor
  PROVE  CInv /\ SInv /\ FInv /\ [Next]_vars => FInv'
<1> SUFFICES ASSUME CInv, SInv, FInv, [Next]_vars PROVE FInv'
  BY Zenon
<1>1. AllAttributed /\ AllExact
  BY Zenon DEF FInv, AllAttributed, AllExact
<1>2. AllExact'
  <2>1. ASSUME NEW h \in Objects, Sweep(h), monitor[h] \in Monitors PROVE FALSE
    <3>1. h \notin FINALIZE /\ life[h] = "live" /\ \A u \in Threads : h # obj[u]
      BY <2>1, Unused, Zenon DEF Sweep, Uses
    <3> QED
      BY <1>1, <2>1, <3>1, Zenon DEF AllAttributed, Attributed
  <2> QED
    BY <1>1, <2>1, ShareStep, Zenon
<1>3. AllAttributed'
  <2>1. ASSUME NEW t \in Threads,
               \/ EnsureLoad(t) \/ EnsureAlloc(t) \/ EnsureLock(t) \/ EnsurePublish(t)
               \/ EnsureWon(t) \/ EnsureLost(t) \/ EnsureDiscard(t)
               \/ Lock(t) \/ Exit(t) \/ SameRefs(t) \/ SameCopy(t) \/ Delete(t) \/ Free(t)
               \/ \E r \in BOOLEAN : Finalized(t, r)
        PROVE  AllAttributed'
    BY <1>1, <2>1, AttributeCalls, AttributePublish, AttributeCopy, AttributeFinalizer, Zenon
  <2>2. ASSUME NEW t \in Threads, NEW h \in Objects, Enter(t, h) \/ Finalize(t, h) \/ \E o \in Objects : setSameMutex(t, o, h)
        PROVE  AllAttributed'
    BY <1>1, <2>2, AttributeCalls, Zenon
  <2>3. ASSUME NEW h \in Objects, Sweep(h) \/ New(h) \/ \E c \in Mutexes : NewMutex(h, c)
        PROVE  AllAttributed'
    BY <1>1, <2>3, AttributeObject, Zenon
  <2>4. CASE UNCHANGED vars
    BY <1>1, <2>4, Zenon DEF AllAttributed, Attributed, vars, locals
  <2> HIDE DEF AllAttributed
  <2> QED
    BY <2>1, <2>2, <2>3, <2>4, Zenon DEF Next
<1> QED
  BY <1>2, <1>3, Zenon DEF FInv, AllAttributed, AllExact

-----------------------------------------------------------------------------
\* A thread in a synchronized statement owns the mutex that the object's monitor field
\* leads to, so that no two threads are in statements on one object, or on objects
\* that share a monitor, and _d_monitorexit unlocks what _d_monitorenter locked; for
\* any number of threads, objects, monitors and nested statements.
THEOREM SynchronizedExcludes == Spec => []Exclusion
<1>1. CInv /\ SInv /\ LInv => Exclusion
  <2> SUFFICES ASSUME CInv, SInv, LInv PROVE Exclusion
    BY Zenon
  <2>1. ASSUME NEW t \in Threads, NEW h \in Range(held[t]) PROVE monitor[h] # null /\ owner[monitor[h]] = t
    <3>1. PICK i \in 1 .. Len(held[t]) : held[t][i] = h
      BY Elements, Zenon DEF CInv
    <3>2. monitor[h] \in Locks /\ i \in Pos(t, monitor[h])
      BY <3>1, HeldMonitors, SMTT(20) DEF Pos
    <3> QED
      BY <3>2, NullDiffers, Zenon DEF LInv, Locked
  <2>2. ASSUME NEW t \in Threads, NEW u \in Threads, NEW h \in Range(held[t]) \cap Range(held[u])
        PROVE  t = u
    <3>1. h \in Range(held[t]) /\ h \in Range(held[u])
      BY Zenon
    <3>2. owner[monitor[h]] = t
      BY <2>1, <3>1, Zenon
    <3>3. owner[monitor[h]] = u
      BY <2>1, <3>1, Zenon
    <3> QED
      BY <3>2, <3>3, Zenon
  <2>3. \A t, u \in Threads : t # u => Range(held[t]) \cap Range(held[u]) = {}
    BY <2>2, Zenon
  <2>4. \A t \in Threads : \A h \in Range(held[t]) : monitor[h] # null /\ owner[monitor[h]] = t
    BY <2>1, Zenon
  <2> QED
    BY <2>3, <2>4, Zenon DEF Exclusion
<1> QED
  BY <1>1, ControlInit, ShareInit, LockInit, ControlStep, ShareStep, LockStep, PTL DEF Spec

\* No live object and no call in progress has a monitor that _d_monitordelete, or the
\* loser of ensureMonitor, has freed, whichever objects share monitors and in whatever
\* order they are finalized.
THEOREM MonitorsNotDangling == Spec => []NoDangling
<1>1. CInv /\ SInv => NoDangling
  <2> SUFFICES ASSUME CInv, SInv PROVE NoDangling
    BY Zenon
  <2>0. Types
    BY Zenon DEF CInv
  <2>1. ASSUME NEW h \in Objects, NEW c \in Monitors, Counts(h, c) PROVE c \in alloc
    BY <2>1, Zenon DEF SInv, Sound, Shares
  <2>2. ASSUME NEW h \in Objects, life[h] = "live" PROVE monitor[h] \in alloc \cup Mutexes \cup {null}
    <3>1. monitor[h] \in Monitors \cup Mutexes \cup {null}
      BY <2>0, Zenon DEF Types, Locks
    <3> QED
      BY <2>1, <2>2, <3>1, Zenon DEF Counts
  <2>3. ASSUME NEW t \in Threads PROVE m[t] \in alloc \cup Mutexes \cup {null}
    <3>1. CASE pc[t] \in {"idle", "ensure", "alloc", "delete", "free", "done"}
      BY <3>1, Zenon DEF CInv, Local
    <3>2. CASE pc[t] \in {"gmtx", "publish", "lost", "discard"}
      BY <3>2, Zenon DEF CInv, Local, SInv, Sound, Hand
    <3>3. CASE pc[t] \in {"won", "got", "copy"}
      <4>1. m[t] = monitor[obj[t]] /\ obj[t] \in Objects /\ life[obj[t]] = "live"
        <5>1. Self(t) /\ obj[t] \in Objects /\ life[obj[t]] = "live"
          BY <3>3, Facts, Zenon
        <5> QED
          BY <3>3, <5>1, Zenon DEF Self, Local
      <4> QED
        BY <2>2, <4>1, Zenon
    <3> QED
      BY <3>1, <3>2, <3>3, Facts, Zenon DEF Labels
  <2>4. ASSUME NEW t \in Threads, pc[t] \in {"delete", "free"} PROVE monitor[obj[t]] \in alloc \cup Mutexes
    <3>1. obj[t] \in Objects /\ monitor[obj[t]] \in Locks \cup {null} /\ Local(t)
      BY <2>4, Facts, Zenon DEF Self
    <3>2. CASE pc[t] = "delete"
      <4>1. monitor[obj[t]] \in Monitors => Counts(obj[t], monitor[obj[t]])
        BY <3>2, Zenon DEF Counts, Deleting
      <4> QED
        BY <2>1, <3>1, <3>2, <4>1, Zenon DEF Local, Locks
    <3>3. CASE pc[t] = "free"
      BY <3>1, <3>3, Zenon DEF Local, SInv, Sound, Hand
    <3> QED
      BY <2>4, <3>2, <3>3, Zenon
  <2> QED
    BY <2>2, <2>3, <2>4, Zenon DEF NoDangling
<1> QED
  BY <1>1, ControlInit, ShareInit, ControlStep, ShareStep, PTL DEF Spec

\* The monitor of an object never changes once it has one, as long as the object is
\* alive: _d_monitorexit, which reads Object.__monitor again, finds what
\* _d_monitorenter found.
THEOREM MonitorNeverReplaced ==
  Spec => [][\A h \in Objects : life[h] = "live" /\ monitor[h] # null => monitor'[h] = monitor[h]]_vars
<1>1. CInv /\ [Next]_vars => [\A h \in Objects : life[h] = "live" /\ monitor[h] # null => monitor'[h] = monitor[h]]_vars
  BY MonitorKept, Zenon
<1> QED
  BY <1>1, ControlInit, ControlStep, PTL DEF Spec

\* Every allocated monitor will be freed by a finalizer or is in the hands of a thread
\* that will publish or free it, provided that the objects given to setSameMutex as
\* ownees have destructors (setSameMutex does not set BlkAttr.FINALIZE).
THEOREM NoMonitorLost ==
  ASSUME Ownees \subseteq HasDtor
  PROVE  Spec => []NoLeak
<1>1. CInv /\ SInv /\ FInv => NoLeak
  <2> SUFFICES ASSUME CInv, SInv, FInv, NEW c \in alloc
               PROVE  \/ \E h \in Owners(c) : h \in FINALIZE \/ Users(h) # {}
                      \/ \E t \in Threads : pc[t] \in {"gmtx", "publish", "lost", "discard"} /\ m[t] = c
                      \/ \E t \in Threads : pc[t] = "free" /\ monitor[obj[t]] = c
    BY Zenon DEF NoLeak
  <2>1. c \in Monitors
    BY DEF CInv, Types
  <2>2. CASE \E t \in Threads : Hand(t, c)
    BY <2>2, Zenon DEF Hand
  <2>3. ASSUME NEW h \in Objects, Counts(h, c) PROVE \E k \in Owners(c) : k \in FINALIZE \/ Users(k) # {}
    <3>1. CASE monitor[h] = c /\ life[h] = "live"
      <4>1. h \in Owners(c)
        BY <3>1, Zenon DEF Owners
      <4>2. h \in FINALIZE \/ \E t \in Threads : obj[t] = h
        BY <2>1, <3>1, Zenon DEF FInv, Attributed
      <4> QED
        BY <4>1, <4>2, Zenon DEF Users
    <3>2. ASSUME NEW t \in Threads, monitor[h] = c, Deleting(t, h) PROVE h \in Owners(c) /\ t \in Users(h)
      BY <3>2, Zenon DEF Owners, Users, Deleting
    <3>3. ASSUME NEW t \in Threads, Copying(t, h, c) PROVE obj[t] \in Owners(c) /\ t \in Users(obj[t])
      BY <2>1, <3>3, Sharing, SMTT(20) DEF Owners, Users
    <3> QED
      BY <2>3, <3>1, <3>2, <3>3, Zenon DEF Counts
  <2> QED
    BY <2>1, <2>2, <2>3, Zenon DEF FInv, Exact, Shares
<1>2. CInv /\ SInv /\ FInv /\ [Next]_vars => FInv'
  BY LeakStep, Zenon
<1> QED
  BY <1>1, <1>2, ControlInit, ShareInit, LeakInit, ControlStep, ShareStep, PTL DEF Spec
=============================================================================
