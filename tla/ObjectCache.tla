---------------------------- MODULE ObjectCache ----------------------------
(***************************************************************************)
(* The IR-to-object cache (-cache=<dir>): driver/cache.cpp, its caller     *)
(* writeModule (driver/toobj.cpp) and its pruner (driver/cache_pruning.d). *)
(* Several compiler processes share one cache directory and any of them    *)
(* may be killed at any point.  A compiler is named by the object file it  *)
(* writes and is started again and again, for whichever version of its     *)
(* module the source then holds.                                           *)
(*                                                                         *)
(* The file system is modelled as POSIX has it: a file is what its names   *)
(* (paths and open descriptors) lead to, removing one name leaves the file *)
(* to the others, rename replaces a path atomically, and writing a file is *)
(* two steps, its opening (which truncates it) and the writing of data.    *)
(***************************************************************************)
EXTENDS Integers, FiniteSets, FiniteSetsExt

CONSTANTS
    Compilers,    \* compiler processes, each with an output file of its own
    Versions,     \* module hashes: an object is named by the hash it is for
    Size,         \* Size[v]: the bytes of the object for v
    SizeLimit,    \* the size above which pruneForSize removes entries
    Modes,        \* the -cache-retrieval modes that invocations may use
    LinksKept,    \* may a compiler find its object file linked to an entry?
    Prunings,     \* "off", "interval" or "always" (-cache-prune-interval=0)
    MaxTicks,     \* bound: how often the clock passes an expiry or interval
    MaxCrashes,   \* bound: how many compilers are killed
    Partial       \* the data of a file whose writing has not finished

ASSUME CacheAssumption ==
    /\ Partial \notin Versions
    /\ Modes \subseteq {"copy", "hardlink"} /\ LinksKept \in BOOLEAN
    /\ Prunings \subseteq {"off", "interval", "always"}
    /\ Size \in [Versions -> Nat] /\ SizeLimit \in Nat
    /\ MaxTicks \in Nat /\ MaxCrashes \in Nat

VARIABLES
    fs,        \* the files: each with its names and its data
    litter,    \* is there a temporary file of a killed compiler?
    cacheDir,  \* does the cache directory exist?
    expired,   \* entries last accessed longer ago than -cache-prune-expiration
    fresh,     \* is the pruning timestamp younger than the prune interval?
    pruning,   \* how this build prunes
    pc,
    job,       \* job[p]: what p's invocation knows
    ticks, crashes

files == <<fs, litter, cacheDir>>
times == <<expired, fresh>>
bounds == <<ticks, crashes>>
vars == <<files, times, pruning, pc, job, bounds>>

\* Paths and descriptors.  TempShared, and further on OpenOutputReused,
\* DueToPruneUnasked and ExpireOneUnsummed, are mutations of the definitions
\* that follow them.
Entry(v) == <<"entry", v>>    \* ircache_<v>.o in the cache directory
TempShared(p) == <<"temp", Partial>>
Temp(p) == <<"temp", p>>      \* p's temporary file there
Out(p) == <<"out", p>>        \* p's object file
Src(p) == <<"src", p>>        \* the file p has open for reading
Dst(p) == <<"dst", p>>        \* the file p has open for writing

Names == {Entry(v) : v \in Versions}
           \cup UNION {{Temp(p), Out(p), Src(p), Dst(p)} : p \in Compilers}

Job == [v: Versions, mode: Modes, list: SUBSET Versions, cand: SUBSET Versions, size: Nat]

Ended == {"idle", "killed", "fatal"}

TypeOK ==
    /\ fs \subseteq [names: (SUBSET Names) \ {{}}, data: Versions \cup {Partial}]
    /\ \A f, g \in fs : f.names \cap g.names # {} => f = g
    /\ litter \in BOOLEAN /\ cacheDir \in BOOLEAN
    /\ expired \subseteq Versions /\ fresh \in BOOLEAN /\ pruning \in Prunings
    /\ pc \in [Compilers -> Ended \cup {"lookup", "unlink", "fetch", "write", "touch", "open",
                 "emit", "mktemp", "store", "stored", "rename", "prune", "sweep", "expire", "shrink"}]
    /\ job \in [Compilers -> Job]
    /\ ticks \in 0..MaxTicks /\ crashes \in 0..MaxCrashes

(***************************************************************************)
(* The file system: F is a set of files, n and m are names.                *)
(***************************************************************************)
Exists(F, n) == \E f \in F : n \in f.names
Holds(F, n, d) == \E f \in F : n \in f.names /\ f.data = d

\* n and the other names of S no longer lead anywhere.
Drop(F, S) == {g \in {[f EXCEPT !.names = @ \ S] : f \in F} : g.names # {}}

\* n becomes one more name of the file m leads to.
Alias(F, n, m) == {[f EXCEPT !.names = IF m \in @ THEN @ \cup {n} ELSE @] : f \in F}

Write(F, n, d) == {[f EXCEPT !.data = IF n \in f.names THEN d ELSE @] : f \in F}

\* n is opened for writing, created if need be, through descriptor d.
OpenToWrite(F, n, d) ==
    Alias(IF Exists(F, n) THEN Write(F, n, Partial)
                          ELSE F \cup {[names |-> {n}, data |-> Partial]}, d, n)

\* rename(2)
Renamed(F, n, m) == Drop(Alias(Drop(F, {m}), m, n), {n})

\* Is p's object file also a cache entry, or the object file of another one?
Linked(p) == \E f \in fs : Out(p) \in f.names /\ f.names # {Out(p)}

Cached(v) == Exists(fs, Entry(v))

NewJob(v, m) == [v |-> v, mode |-> m, list |-> {}, cand |-> {}, size |-> 0]

Goto(p, l) == pc' = [pc EXCEPT ![p] = l]

\* error() and fatal(): the compiler exits with a failure.
Fatal(p) == Goto(p, "fatal") /\ UNCHANGED <<files, times, job>>

\* Entry v is written or touched: its access time is now.
Accessed(v) == expired' = expired \ {v} /\ UNCHANGED fresh

\* remove(f.name) of an entry by a pruner.
Remove(v) == fs' = Drop(fs, {Entry(v)}) /\ expired' = expired \ {v}

Init ==
    /\ fs = {}
    /\ litter = FALSE /\ cacheDir = FALSE
    /\ expired = {} /\ fresh = FALSE /\ pruning \in Prunings
    /\ pc = [p \in Compilers |-> "killed"]
    /\ \E v \in Versions, m \in Modes : job = [p \in Compilers |-> NewJob(v, m)]
    /\ ticks = 0 /\ crashes = 0

(***************************************************************************)
(* writeModule.                                                            *)
(***************************************************************************)
\* The object file of the last build is there, or has been removed.
Start(p, v, m) ==
    /\ pc[p] \in Ended
    /\ \/ (Linked(p) => LinksKept) /\ UNCHANGED fs
       \/ fs' = Drop(fs, {Out(p)})
    /\ job' = [job EXCEPT ![p] = NewJob(v, m)]
    /\ Goto(p, "lookup")
    /\ UNCHANGED <<litter, cacheDir, times>>

cacheLookup(p) ==
    /\ pc[p] = "lookup"
    /\ Goto(p, IF cacheDir /\ Cached(job[p].v) THEN "unlink" ELSE "open")
    /\ UNCHANGED <<files, times, job>>

(***************************************************************************)
(* recoverObjectFile: remove the old output, fetch the entry by copy or by *)
(* link, and set the entry's access time.                                  *)
(***************************************************************************)
RemoveOutput(p) ==
    /\ pc[p] = "unlink"
    /\ fs' = Drop(fs, {Out(p)})
    /\ Goto(p, "fetch")
    /\ UNCHANGED <<litter, cacheDir, times, job>>

FetchCopy(p) ==
    /\ job[p].mode = "copy" /\ Cached(job[p].v)
    /\ fs' = OpenToWrite(Alias(fs, Src(p), Entry(job[p].v)), Out(p), Dst(p))
    /\ Goto(p, "write")
    /\ UNCHANGED <<litter, cacheDir, times, job>>

FetchLink(p) ==
    /\ job[p].mode = "hardlink" /\ Cached(job[p].v)
    /\ fs' = Alias(fs, Out(p), Entry(job[p].v))
    /\ Goto(p, "touch")
    /\ UNCHANGED <<litter, cacheDir, times, job>>

Fetch(p) ==
    /\ pc[p] = "fetch"
    /\ \/ FetchCopy(p)
       \/ FetchLink(p)
       \/ ~Cached(job[p].v) /\ Fatal(p)

\* The end of copy_file: the data of Src(p) is written to Dst(p) and both
\* are closed.
Copied(p) ==
    \E f \in fs : Src(p) \in f.names
                  /\ fs' = Drop(Write(fs, Dst(p), f.data), {Src(p), Dst(p)})

FetchWrite(p) ==
    /\ pc[p] = "write"
    /\ Copied(p)
    /\ Goto(p, "touch")
    /\ UNCHANGED <<litter, cacheDir, times, job>>

Touch(p) ==
    /\ pc[p] = "touch"
    /\ \/ /\ Cached(job[p].v)
          /\ Accessed(job[p].v)
          /\ Goto(p, "prune")
          /\ UNCHANGED <<files, job>>
       \/ ~Cached(job[p].v) /\ Fatal(p)

(***************************************************************************)
(* writeObjectFile: codegenModule opens the object file under its name,    *)
(* which truncates the file that is there, and writes the object into it.  *)
(***************************************************************************)
OpenOutputReused(p) ==
    /\ pc[p] = "open"
    /\ fs' = IF Exists(fs, Out(p)) THEN Alias(fs, Dst(p), Out(p)) ELSE OpenToWrite(fs, Out(p), Dst(p))
    /\ Goto(p, IF Exists(fs, Out(p)) THEN "mktemp" ELSE "emit")
    /\ UNCHANGED <<litter, cacheDir, times, job>>

OpenOutput(p) ==
    /\ pc[p] = "open"
    /\ fs' = OpenToWrite(fs, Out(p), Dst(p))
    /\ Goto(p, "emit")
    /\ UNCHANGED <<litter, cacheDir, times, job>>

Emit(p) ==
    /\ pc[p] = "emit"
    /\ fs' = Drop(Write(fs, Dst(p), job[p].v), {Dst(p)})
    /\ Goto(p, "mktemp")
    /\ UNCHANGED <<litter, cacheDir, times, job>>

(***************************************************************************)
(* cacheObjectFile: create the directory and a uniquely named file in it,  *)
(* copy the object there, and rename that file to the entry.               *)
(***************************************************************************)
CreateTemp(p) ==
    /\ pc[p] = "mktemp"
    /\ cacheDir' = TRUE
    /\ fs' = fs \cup {[names |-> {Temp(p)}, data |-> Partial]}
    /\ Goto(p, "store")
    /\ UNCHANGED <<litter, times, job>>

\* copy_file creates its target again when a pruner has removed it.
StoreOpen(p) ==
    /\ pc[p] = "store"
    /\ fs' = OpenToWrite(Alias(fs, Src(p), Out(p)), Temp(p), Dst(p))
    /\ Goto(p, "stored")
    /\ UNCHANGED <<litter, cacheDir, times, job>>

StoreWrite(p) ==
    /\ pc[p] = "stored"
    /\ Copied(p)
    /\ Goto(p, "rename")
    /\ UNCHANGED <<litter, cacheDir, times, job>>

Rename(p) ==
    /\ pc[p] = "rename"
    /\ \/ /\ Exists(fs, Temp(p))
          /\ fs' = Renamed(fs, Temp(p), Entry(job[p].v))
          /\ Accessed(job[p].v)
          /\ Goto(p, "prune")
          /\ UNCHANGED <<litter, cacheDir, job>>
       \/ ~Exists(fs, Temp(p)) /\ Fatal(p)

(***************************************************************************)
(* pruneCache, which every compiler calls after its modules are written.   *)
(* The entries' listing is opened before the temporary files are removed.  *)
(***************************************************************************)
hasPruneIntervalPassed == pruning = "always" \/ ~fresh

DueToPruneUnasked == cacheDir /\ hasPruneIntervalPassed

DueToPrune == cacheDir /\ pruning # "off" /\ hasPruneIntervalPassed

PruneStart(p) ==
    /\ pc[p] = "prune"
    /\ \/ /\ DueToPrune
          /\ fresh' = TRUE
          /\ job' = [job EXCEPT ![p].list = {v \in Versions : Cached(v)}]
          /\ Goto(p, "sweep")
          /\ UNCHANGED <<files, expired>>
       \/ ~DueToPrune /\ Goto(p, "idle") /\ UNCHANGED <<files, times, job>>

deleteFiles(p) ==
    /\ pc[p] = "sweep"
    /\ fs' = Drop(fs, {Temp(q) : q \in Compilers})
    /\ litter' = FALSE
    /\ Goto(p, "expire")
    /\ UNCHANGED <<cacheDir, times, job>>

ExpireOneUnsummed(p, v) ==
    /\ v \in job[p].list
    /\ job' = [job EXCEPT ![p].list = @ \ {v}, ![p].cand = @ \cup {v}, ![p].size = Size[v]]
    /\ UNCHANGED <<files, times, pc>>

\* One listed entry.  Reading the time of one that is gone throws, which
\* nothing catches; when it goes between that and its removal, the removal's
\* exception is caught.  One that has not expired is a candidate for size.
ExpireOne(p, v) ==
    /\ v \in job[p].list
    /\ \/ ~Cached(v) /\ Fatal(p)
       \/ /\ ~Cached(v)
          /\ job' = [job EXCEPT ![p].list = @ \ {v}]
          /\ UNCHANGED <<files, times, pc>>
       \/ /\ Cached(v) /\ v \in expired
          /\ Remove(v)
          /\ job' = [job EXCEPT ![p].list = @ \ {v}]
          /\ UNCHANGED <<litter, cacheDir, fresh, pc>>
       \/ /\ Cached(v) /\ v \notin expired
          /\ job' = [job EXCEPT ![p].list = @ \ {v}, ![p].cand = @ \cup {v},
                                ![p].size = @ + Size[v]]
          /\ UNCHANGED <<files, times, pc>>

pruneForExpiry(p) ==
    /\ pc[p] = "expire"
    /\ \/ \E v \in Versions : ExpireOne(p, v)
       \/ /\ job[p].list = {}
          /\ Goto(p, "shrink")
          /\ UNCHANGED <<files, times, job>>

isSizeAboveMaximum(size) == size > SizeLimit

\* One candidate, which of them is the oldest being left open; one that is
\* gone is skipped and its size stays in the count.
ShrinkOne(p, v) ==
    /\ v \in job[p].cand
    /\ \/ /\ Cached(v)
          /\ Remove(v)
          /\ job' = [job EXCEPT ![p].cand = @ \ {v}, ![p].size = @ - Size[v]]
       \/ /\ ~Cached(v)
          /\ job' = [job EXCEPT ![p].cand = @ \ {v}]
          /\ UNCHANGED <<fs, expired>>
    /\ UNCHANGED <<litter, cacheDir, fresh, pc>>

pruneForSize(p) ==
    /\ pc[p] = "shrink"
    /\ \/ isSizeAboveMaximum(job[p].size) /\ \E v \in Versions : ShrinkOne(p, v)
       \/ /\ ~isSizeAboveMaximum(job[p].size) \/ job[p].cand = {}
          /\ job' = [job EXCEPT ![p].cand = {}, ![p].size = 0]
          /\ Goto(p, "idle")
          /\ UNCHANGED <<files, times>>

(***************************************************************************)
(* The world: the clock, and the death of a compiler at any point.  What   *)
(* was its temporary file is one that nobody will rename.                  *)
(***************************************************************************)
Tick ==
    /\ ticks < MaxTicks
    /\ ticks' = ticks + 1
    /\ expired' \in {S \in SUBSET {v \in Versions : Cached(v)} : expired \subseteq S}
    /\ fresh' \in {fresh, FALSE}
    /\ UNCHANGED <<files, pruning, pc, job, crashes>>

Crash(p) ==
    /\ pc[p] \notin Ended /\ crashes < MaxCrashes
    /\ crashes' = crashes + 1
    /\ litter' = (litter \/ Exists(fs, Temp(p)))
    /\ fs' = Drop(fs, {Temp(p), Src(p), Dst(p)})
    /\ job' = [job EXCEPT ![p] = NewJob(job[p].v, job[p].mode)]
    /\ Goto(p, "killed")
    /\ UNCHANGED <<cacheDir, times, pruning, ticks>>

Step(p) ==
    \/ \E v \in Versions, m \in Modes : Start(p, v, m)
    \/ cacheLookup(p)
    \/ RemoveOutput(p) \/ Fetch(p) \/ FetchWrite(p) \/ Touch(p)
    \/ OpenOutput(p) \/ Emit(p)
    \/ CreateTemp(p) \/ StoreOpen(p) \/ StoreWrite(p) \/ Rename(p)
    \/ PruneStart(p) \/ deleteFiles(p) \/ pruneForExpiry(p) \/ pruneForSize(p)

Next ==
    \/ \E p \in Compilers : Step(p) /\ UNCHANGED <<pruning, bounds>>
    \/ \E p \in Compilers : Crash(p)
    \/ Tick

Spec == Init /\ [][Next]_vars

(***************************************************************************)
(* Properties.                                                             *)
(***************************************************************************)
\* "To prevent bad cache files, add files to the cache atomically"
\* (cacheObjectFile): whatever other compilers and pruners do and wherever a
\* compiler is killed, the file that a lookup of v would find is the whole
\* object for v.
EntriesExact == \A v \in Versions : Cached(v) => Holds(fs, Entry(v), v)

\* When an invocation of writeModule has succeeded its object file is the
\* whole object for the module it compiled, whether it came from the cache or
\* from the code generator, and stays so until the next invocation.
OutputExact ==
    \A p \in Compilers : pc[p] \in {"prune", "sweep", "expire", "shrink", "idle"} =>
        Holds(fs, Out(p), job[p].v)

\* A compiler fails only because a pruner removed a file it was using: while
\* no pruning is enabled, compilers sharing a cache never make each other fail.
FailOnlyByPruning == pruning = "off" => \A p \in Compilers : pc[p] # "fatal"

\* pruneForSize stops no earlier than the limit allows: the candidates it
\* leaves standing fit in the limit, also when another pruner has removed some
\* of them meanwhile (the size of such an entry is not taken off the count).
PruneMeetsLimit ==
    [][\A p \in Compilers : pc[p] = "shrink" /\ pc'[p] = "idle" =>
          MapThenSumSet(LAMBDA v : Size[v], job[p].cand) <= SizeLimit]_vars
=============================================================================
