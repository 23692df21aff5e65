--------------------------- MODULE CompilerProofs ---------------------------
(***************************************************************************)
(* Proofs about two parts of the compiler, the object cache and the branch *)
(* weights of profiles.                                                    *)
(*                                                                         *)
(* For ObjectCache there are two invariants, one on top of the other: SInv *)
(* says which names exist where each compiler is, and shows that none      *)
(* fails without pruning; DInv says which names share a file and what the  *)
(* files hold, and shows that entries and object files are whole.          *)
(*                                                                         *)
(* For ProfileWeights: what the weights are, for every width of the        *)
(* counters and of the weights.  TLC checks the counts of a few calls, too *)
(* few for any of them to be scaled.                                       *)
(***************************************************************************)
EXTENDS ObjectCache, ProfileWeights, WellFoundedInduction, NaturalsInduction, TLAPS

(***************************************************************************)
(* The file system, seen through names: which names lead to a file, which  *)
(* lead to the same one, and what it holds.                                *)
(***************************************************************************)
Same(F, n, m) == \E f \in F : n \in f.names /\ m \in f.names

\* A file has a name at least, and data; no name leads to two files.
Files == [names: (SUBSET Names) \ {{}}, data: Versions \cup {Partial}]

FileSystem(F) ==
  /\ F \subseteq Files
  /\ \A f, g \in F : f.names \cap g.names # {} => f = g

\* Paths and descriptors of different kinds, or of different owners, differ.
LEMMA NamesDiffer ==
  /\ \A v, w : Entry(v) = Entry(w) => v = w
  /\ \A p, q : Temp(p) = Temp(q) => p = q
  /\ \A p, q : Out(p) = Out(q) => p = q
  /\ \A p, q : Src(p) = Src(q) => p = q
  /\ \A p, q : Dst(p) = Dst(q) => p = q
  /\ \A p, q : /\ Entry(p) # Temp(q) /\ Entry(p) # Out(q) /\ Entry(p) # Src(q) /\ Entry(p) # Dst(q)
               /\ Temp(p) # Out(q) /\ Temp(p) # Src(q) /\ Temp(p) # Dst(q)
               /\ Out(p) # Src(q) /\ Out(p) # Dst(q) /\ Src(p) # Dst(q)
BY Zenon DEF Entry, Temp, Out, Src, Dst

\* Entries and each compiler's four names are names of the model.
LEMMA NamesAre ==
  /\ \A v \in Versions : Entry(v) \in Names
  /\ \A p \in Compilers : Temp(p) \in Names /\ Out(p) \in Names /\ Src(p) \in Names /\ Dst(p) \in Names
BY DEF Names

\* A name leads to one file.
LEMMA HoldsOne ==
  ASSUME NEW F, FileSystem(F), NEW n, NEW d, NEW e, Holds(F, n, d), Holds(F, n, e)
  PROVE  d = e
BY Zenon DEF FileSystem, Holds

\* Names of one file hold the same data.
LEMMA SameHolds ==
  ASSUME NEW F, FileSystem(F), NEW n, NEW m, Same(F, n, m), NEW d
  PROVE  Holds(F, n, d) <=> Holds(F, m, d)
BY Zenon DEF FileSystem, Holds, Same

\* Same is symmetric and transitive; a name exists iff it leads to its own file,
\* which holds some data.
LEMMA SameRelation ==
  ASSUME NEW F, FileSystem(F)
  PROVE  /\ \A n, m : Same(F, n, m) => Same(F, m, n) /\ Exists(F, n) /\ Exists(F, m)
         /\ \A n, m, k : Same(F, n, m) /\ Same(F, m, k) => Same(F, n, k)
         /\ \A n : Exists(F, n) <=> Same(F, n, n)
         /\ \A n, d : Holds(F, n, d) => Exists(F, n)
         /\ \A n : Exists(F, n) => \E d \in Versions \cup {Partial} : Holds(F, n, d)
<1>1. \A n, m : Same(F, n, m) => Same(F, m, n) /\ Exists(F, n) /\ Exists(F, m)
  BY Zenon DEF Same, Exists
<1>2. \A n, m, k : Same(F, n, m) /\ Same(F, m, k) => Same(F, n, k)
  BY Zenon DEF FileSystem, Same
<1>3. \A n : Exists(F, n) <=> Same(F, n, n)
  BY Zenon DEF Same, Exists
<1>4. \A n, d : Holds(F, n, d) => Exists(F, n)
  BY Zenon DEF Holds, Exists
<1>5. \A n : Exists(F, n) => \E d \in Versions \cup {Partial} : Holds(F, n, d)
  BY Zenon DEF FileSystem, Files, Holds, Exists
<1> QED
  BY <1>1, <1>2, <1>3, <1>4, <1>5, Zenon

\* Drop takes names away and changes nothing for the others.
LEMMA DropFacts ==
  ASSUME NEW F, FileSystem(F), NEW S
  PROVE  /\ FileSystem(Drop(F, S))
         /\ \A n, d : Holds(Drop(F, S), n, d) <=> Holds(F, n, d) /\ n \notin S
         /\ \A n, m : Same(Drop(F, S), n, m) <=> Same(F, n, m) /\ n \notin S /\ m \notin S
         /\ \A n : Exists(Drop(F, S), n) <=> Exists(F, n) /\ n \notin S
<1> DEFINE D(f) == [f EXCEPT !.names = @ \ S]
<1>1. \A f \in F : /\ f \in Files /\ f.names \subseteq Names /\ f.data \in Versions \cup {Partial}
                   /\ D(f).names = f.names \ S /\ D(f).data = f.data
                   /\ D(f) = [names |-> f.names \ S, data |-> f.data]
  BY DEF FileSystem, Files
<1>2. \A g : g \in Drop(F, S) <=> \E f \in F : g = D(f) /\ f.names \ S # {}
  BY <1>1, Zenon DEF Drop
<1> HIDE DEF D
<1>3. FileSystem(Drop(F, S))
  <2>1. ASSUME NEW g \in Drop(F, S) PROVE g \in Files
    <3>1. PICK f \in F : g = D(f) /\ f.names \ S # {}
      BY <1>2, Zenon
    <3> QED
      BY <1>1, <3>1 DEF Files
  <2>2. ASSUME NEW g \in Drop(F, S), NEW h \in Drop(F, S), g.names \cap h.names # {} PROVE g = h
    <3>1. PICK f \in F : g = D(f)
      BY <1>2, Zenon
    <3>2. PICK k \in F : h = D(k)
      BY <1>2, Zenon
    <3>3. f.names \cap k.names # {}
      BY <1>1, <2>2, <3>1, <3>2, Zenon
    <3> QED
      BY <3>1, <3>2, <3>3, Zenon DEF FileSystem
  <2> QED
    BY <2>1, <2>2, Zenon DEF FileSystem
<1>4. \A n, d : Holds(Drop(F, S), n, d) <=> Holds(F, n, d) /\ n \notin S
  BY <1>1, <1>2 DEF Holds
<1>5. \A n, m : Same(Drop(F, S), n, m) <=> Same(F, n, m) /\ n \notin S /\ m \notin S
  BY <1>1, <1>2 DEF Same
<1>6. \A n : Exists(Drop(F, S), n) <=> Exists(F, n) /\ n \notin S
  BY <1>1, <1>2 DEF Exists
<1> QED
  BY <1>3, <1>4, <1>5, <1>6, Zenon

\* Alias gives a name that leads nowhere yet to the file that m leads to.
LEMMA AliasFacts ==
  ASSUME NEW F, FileSystem(F), NEW n \in Names, ~Exists(F, n), NEW m, m # n
  PROVE  /\ FileSystem(Alias(F, n, m))
         /\ \A d : Holds(Alias(F, n, m), n, d) <=> Holds(F, m, d)
         /\ \A x, d : x # n => (Holds(Alias(F, n, m), x, d) <=> Holds(F, x, d))
         /\ \A x : x # n => (Same(Alias(F, n, m), n, x) <=> Same(F, m, x))
         /\ \A x, y : x # n /\ y # n => (Same(Alias(F, n, m), x, y) <=> Same(F, x, y))
         /\ Exists(Alias(F, n, m), n) <=> Exists(F, m)
         /\ \A x : x # n => (Exists(Alias(F, n, m), x) <=> Exists(F, x))
<1> DEFINE A(f) == [f EXCEPT !.names = IF m \in @ THEN @ \cup {n} ELSE @]
<1>0. \A f \in F : /\ f \in Files /\ f.names \in SUBSET Names /\ f.data \in Versions \cup {Partial}
                   /\ f.names # {} /\ n \notin f.names
  BY Zenon DEF FileSystem, Files, Exists
<1>1. \A f \in F : /\ A(f).names = (IF m \in f.names THEN f.names \cup {n} ELSE f.names)
                   /\ A(f).data = f.data
                   /\ A(f) = [names |-> A(f).names, data |-> f.data]
  BY <1>0 DEF Files
<1>2. \A g : g \in Alias(F, n, m) <=> \E f \in F : g = A(f)
  BY Zenon DEF Alias
<1> HIDE DEF A
<1>3. FileSystem(Alias(F, n, m))
  <2>1. ASSUME NEW f \in F PROVE A(f) \in Files
    <3>1. A(f).names \in (SUBSET Names) \ {{}}
      <4>1. f.names \in SUBSET Names /\ f.names # {}
        BY <1>0, Zenon
      <4>2. A(f).names = f.names \/ A(f).names = f.names \cup {n}
        BY <1>1, Zenon
      <4> QED
        BY <4>1, <4>2, Zenon
    <3>2. \A N \in (SUBSET Names) \ {{}}, d \in Versions \cup {Partial} : [names |-> N, data |-> d] \in Files
      BY Zenon DEF Files
    <3>3. f.data \in Versions \cup {Partial} /\ A(f) = [names |-> A(f).names, data |-> f.data]
      BY <1>0, <1>1, Zenon
    <3> QED
      BY <3>1, <3>2, <3>3, Zenon
  <2>2. ASSUME NEW f \in F, NEW k \in F, A(f).names \cap A(k).names # {} PROVE f = k
    <3>1. f.names \cap k.names # {} \/ (m \in f.names /\ m \in k.names)
      <4>1. n \notin f.names /\ n \notin k.names
        BY <1>0, Zenon
      <4>2. /\ A(f).names = (IF m \in f.names THEN f.names \cup {n} ELSE f.names)
            /\ A(k).names = (IF m \in k.names THEN k.names \cup {n} ELSE k.names)
        BY <1>1, Zenon
      <4> QED
        BY <2>2, <4>1, <4>2, Zenon
    <3> QED
      BY <3>1, Zenon DEF FileSystem
  <2> QED
    BY <1>2, <2>1, <2>2 DEF FileSystem
<1>4. \A f \in F : n \in A(f).names <=> m \in f.names
  BY <1>0, <1>1, Zenon
<1>5. \A x : x # n => \A f \in F : x \in A(f).names <=> x \in f.names
  BY <1>1, Zenon
<1>6. /\ \A d : Holds(Alias(F, n, m), n, d) <=> Holds(F, m, d)
      /\ \A x, d : x # n => (Holds(Alias(F, n, m), x, d) <=> Holds(F, x, d))
  <2>1. \A f \in F : A(f).data = f.data
    BY <1>1, Zenon
  <2>2. \A d : Holds(Alias(F, n, m), n, d) <=> Holds(F, m, d)
    BY <2>1, <1>2, <1>4, SMT DEF Holds
  <2>3. \A x, d : x # n => (Holds(Alias(F, n, m), x, d) <=> Holds(F, x, d))
    <3> SUFFICES ASSUME NEW x, NEW d, x # n
                 PROVE  Holds(Alias(F, n, m), x, d) <=> Holds(F, x, d)
      BY Zenon
    <3>1. \A f \in F : x \in A(f).names <=> x \in f.names
      BY <1>5, Zenon
    <3> QED
      BY <2>1, <1>2, <3>1 DEF Holds
  <2> QED
    BY <2>2, <2>3, Zenon
<1>7. /\ \A x : x # n => (Same(Alias(F, n, m), n, x) <=> Same(F, m, x))
      /\ \A x, y : x # n /\ y # n => (Same(Alias(F, n, m), x, y) <=> Same(F, x, y))
  BY <1>2, <1>4, <1>5, Zenon DEF Same
<1>8. /\ Exists(Alias(F, n, m), n) <=> Exists(F, m)
      /\ \A x : x # n => (Exists(Alias(F, n, m), x) <=> Exists(F, x))
  BY <1>2, <1>4, <1>5, Zenon DEF Exists
<1> QED
  BY <1>3, <1>6, <1>7, <1>8, Zenon

\* Write changes the data of the file that n leads to.
LEMMA WriteFacts ==
  ASSUME NEW F, FileSystem(F), NEW n, NEW d \in Versions \cup {Partial}
  PROVE  /\ FileSystem(Write(F, n, d))
         /\ \A x, e : Same(F, n, x) => (Holds(Write(F, n, d), x, e) <=> e = d)
         /\ \A x, e : ~Same(F, n, x) => (Holds(Write(F, n, d), x, e) <=> Holds(F, x, e))
         /\ \A x, y : Same(Write(F, n, d), x, y) <=> Same(F, x, y)
         /\ \A x : Exists(Write(F, n, d), x) <=> Exists(F, x)
<1> DEFINE W(f) == [f EXCEPT !.data = IF n \in f.names THEN d ELSE @]
<1>1. \A f \in F : /\ f \in Files /\ f.names \in (SUBSET Names) \ {{}} /\ f.data \in Versions \cup {Partial}
                   /\ W(f).names = f.names
                   /\ W(f).data = (IF n \in f.names THEN d ELSE f.data)
                   /\ W(f) = [names |-> f.names, data |-> W(f).data]
  BY DEF FileSystem, Files
<1>2. \A g : g \in Write(F, n, d) <=> \E f \in F : g = W(f)
  BY Zenon DEF Write
<1> HIDE DEF W
<1>3. FileSystem(Write(F, n, d))
  <2>1. ASSUME NEW f \in F PROVE W(f) \in Files
    BY <1>1 DEF Files
  <2>2. ASSUME NEW f \in F, NEW k \in F, W(f).names \cap W(k).names # {} PROVE f = k
    BY <1>1, <2>2 DEF FileSystem
  <2> QED
    BY <1>2, <2>1, <2>2 DEF FileSystem
<1>4. ASSUME NEW x, NEW e, Same(F, n, x) PROVE Holds(Write(F, n, d), x, e) <=> e = d
  <2>1. PICK f \in F : n \in f.names /\ x \in f.names
    BY <1>4, Zenon DEF Same
  <2>2. \A k \in F : x \in k.names => k = f
    BY <2>1, Zenon DEF FileSystem
  <2> QED
    BY <1>1, <1>2, <2>1, <2>2 DEF Holds
<1>5. ASSUME NEW x, NEW e, ~Same(F, n, x) PROVE Holds(Write(F, n, d), x, e) <=> Holds(F, x, e)
  <2>1. \A f \in F : x \in f.names => n \notin f.names
    BY <1>5, Zenon DEF Same
  <2> QED
    BY <1>1, <1>2, <2>1 DEF Holds
<1>6. \A x, y : Same(Write(F, n, d), x, y) <=> Same(F, x, y)
  BY <1>1, <1>2 DEF Same
<1>7. \A x : Exists(Write(F, n, d), x) <=> Exists(F, x)
  BY <1>1, <1>2 DEF Exists
<1> QED
  BY <1>3, <1>4, <1>5, <1>6, <1>7, Zenon

\* A file under a name that led nowhere.
New(F, n) == F \cup {[names |-> {n}, data |-> Partial]}

\* A new file has one name and partial data, and changes no other file.
LEMMA NewFacts ==
  ASSUME NEW F, FileSystem(F), NEW n \in Names, ~Exists(F, n)
  PROVE  /\ FileSystem(New(F, n))
         /\ \A d : Holds(New(F, n), n, d) <=> d = Partial
         /\ \A x, d : x # n => (Holds(New(F, n), x, d) <=> Holds(F, x, d))
         /\ \A x : Same(New(F, n), n, x) <=> x = n
         /\ \A x, y : x # n => (Same(New(F, n), x, y) <=> Same(F, x, y))
         /\ Exists(New(F, n), n)
         /\ \A x : x # n => (Exists(New(F, n), x) <=> Exists(F, x))
<1>1. \A f \in F : n \notin f.names
  BY Zenon DEF Exists
<1> DEFINE new == [names |-> {n}, data |-> Partial]
<1>2. new \in Files /\ new.names = {n} /\ new.data = Partial
  BY Zenon DEF Files
<1>3. \A g : g \in New(F, n) <=> g \in F \/ g = new
  BY Zenon DEF New
<1> HIDE DEF new
<1>4. FileSystem(New(F, n))
  BY <1>1, <1>2, <1>3 DEF FileSystem
<1>5. /\ \A d : Holds(New(F, n), n, d) <=> d = Partial
      /\ \A x, d : x # n => (Holds(New(F, n), x, d) <=> Holds(F, x, d))
  BY <1>1, <1>2, <1>3, Zenon DEF Holds
<1>6. /\ \A x : Same(New(F, n), n, x) <=> x = n
      /\ \A x, y : x # n => (Same(New(F, n), x, y) <=> Same(F, x, y))
  <2>1. \A x, y : Same(New(F, n), x, y) <=> Same(F, x, y) \/ (x = n /\ y = n)
    <3>1. \A x, y : (x \in new.names /\ y \in new.names) <=> (x = n /\ y = n)
      BY <1>2, Zenon
    <3> QED
      BY <1>3, <3>1, Zenon DEF Same
  <2>2. \A x : ~Same(F, n, x)
    BY <1>1, Zenon DEF Same
  <2> QED
    BY <2>1, <2>2, Zenon
<1>7. /\ Exists(New(F, n), n)
      /\ \A x : x # n => (Exists(New(F, n), x) <=> Exists(F, x))
  BY <1>1, <1>2, <1>3, Zenon DEF Exists
<1> QED
  BY <1>4, <1>5, <1>6, <1>7, Zenon

\* A file opened for writing is empty, and has the descriptor as one more name.
LEMMA OpenFacts ==
  ASSUME NEW F, FileSystem(F), NEW n \in Names, NEW d \in Names, n # d, ~Exists(F, d)
  PROVE  LET G == OpenToWrite(F, n, d) IN
         /\ FileSystem(G)
         /\ Exists(G, n) /\ Exists(G, d)
         /\ \A x : x \notin {n, d} => (Exists(G, x) <=> Exists(F, x))
         /\ \A x, e : x \notin {n, d} /\ ~Same(F, n, x) => (Holds(G, x, e) <=> Holds(F, x, e))
         /\ \A x, y : x \notin {n, d} /\ y \notin {n, d} => (Same(G, x, y) <=> Same(F, x, y))
         /\ Same(G, d, n)
         /\ \A x : x \notin {n, d} /\ (Same(G, n, x) \/ Same(G, d, x)) => Same(F, n, x)
<1> DEFINE H == IF Exists(F, n) THEN Write(F, n, Partial) ELSE New(F, n)
<1>1. OpenToWrite(F, n, d) = Alias(H, d, n)
  BY Zenon DEF OpenToWrite, New
<1>2. /\ FileSystem(H) /\ Exists(H, n)
      /\ \A x : x # n => (Exists(H, x) <=> Exists(F, x))
      /\ \A x, e : x # n /\ ~Same(F, n, x) => (Holds(H, x, e) <=> Holds(F, x, e))
      /\ \A x, y : x # n /\ y # n => (Same(H, x, y) <=> Same(F, x, y))
      /\ \A x : x # n /\ Same(H, n, x) => Same(F, n, x)
  <2>1. CASE Exists(F, n)
    BY <2>1, WriteFacts
  <2>2. CASE ~Exists(F, n)
    BY <2>2, NewFacts
  <2> QED
    BY <2>1, <2>2, Zenon
<1> HIDE DEF H
<1>3. ~Exists(H, d)
  BY <1>2, Zenon
<1>4. /\ FileSystem(Alias(H, d, n))
      /\ \A x, e : x # d => (Holds(Alias(H, d, n), x, e) <=> Holds(H, x, e))
      /\ \A x : x # d => (Same(Alias(H, d, n), d, x) <=> Same(H, n, x))
      /\ \A x, y : x # d /\ y # d => (Same(Alias(H, d, n), x, y) <=> Same(H, x, y))
      /\ Exists(Alias(H, d, n), d) <=> Exists(H, n)
      /\ \A x : x # d => (Exists(Alias(H, d, n), x) <=> Exists(H, x))
  BY <1>2, <1>3, AliasFacts, Zenon
<1>5. Same(H, n, n)
  BY <1>2, SameRelation, Zenon
<1> QED
  BY <1>1, <1>2, <1>4, <1>5, Zenon

\* What a rename of n to m does: m leads to the file that n led to, and n nowhere;
Moved(F, G, n, m) ==
  /\ FileSystem(G)
  /\ ~Exists(G, n) /\ (Exists(G, m) <=> Exists(F, n))
  /\ \A x : x \notin {n, m} => (Exists(G, x) <=> Exists(F, x))
  /\ \A e : Holds(G, m, e) <=> Holds(F, n, e)
  /\ \A x, e : x \notin {n, m} => (Holds(G, x, e) <=> Holds(F, x, e))
  /\ \A x : x \notin {n, m} => (Same(G, m, x) <=> Same(F, n, x))
  /\ \A x, y : x \notin {n, m} /\ y \notin {n, m} => (Same(G, x, y) <=> Same(F, x, y))

\* and rename(2) does that.
LEMMA RenameFacts ==
  ASSUME NEW F, FileSystem(F), NEW n, NEW m \in Names, n # m
  PROVE  Moved(F, Renamed(F, n, m), n, m)
<1> USE DEF Moved
<1> DEFINE D == Drop(F, {m})
           A == Alias(D, m, n)
<1>1. Renamed(F, n, m) = Drop(A, {n})
  BY Zenon DEF Renamed
<1>2. /\ FileSystem(D) /\ ~Exists(D, m)
      /\ \A x, e : x # m => (Holds(D, x, e) <=> Holds(F, x, e))
      /\ \A x, y : x # m /\ y # m => (Same(D, x, y) <=> Same(F, x, y))
      /\ \A x : x # m => (Exists(D, x) <=> Exists(F, x))
  BY DropFacts, Zenon
<1> HIDE DEF D
<1>3. /\ FileSystem(A)
      /\ \A e : Holds(A, m, e) <=> Holds(D, n, e)
      /\ \A x, e : x # m => (Holds(A, x, e) <=> Holds(D, x, e))
      /\ \A x : x # m => (Same(A, m, x) <=> Same(D, n, x))
      /\ \A x, y : x # m /\ y # m => (Same(A, x, y) <=> Same(D, x, y))
      /\ Exists(A, m) <=> Exists(D, n)
      /\ \A x : x # m => (Exists(A, x) <=> Exists(D, x))
  BY <1>2, AliasFacts, Zenon
<1> HIDE DEF A
<1>4. /\ FileSystem(Drop(A, {n})) /\ ~Exists(Drop(A, {n}), n)
      /\ \A x, e : x # n => (Holds(Drop(A, {n}), x, e) <=> Holds(A, x, e))
      /\ \A x, y : x # n /\ y # n => (Same(Drop(A, {n}), x, y) <=> Same(A, x, y))
      /\ \A x : x # n => (Exists(Drop(A, {n}), x) <=> Exists(A, x))
  BY <1>3, DropFacts
<1> QED
  BY <1>1, <1>2, <1>3, <1>4, Zenon

-----------------------------------------------------------------------------
(* The names there are, by how far their compiler has come.                 *)
Labels == Ended \cup {"lookup", "unlink", "fetch", "write", "touch", "open", "emit", "mktemp",
            "store", "stored", "rename", "prune", "sweep", "expire", "shrink"}
\* Where writeModule has returned, and the compiler prunes or has finished.
Done == {"prune", "sweep", "expire", "shrink", "idle"}

\* The types of the control state, which the file system does not depend on.
JobTypes ==
  /\ pc \in [Compilers -> Labels]
  /\ job \in [Compilers -> [v: Versions, mode: Modes, list: SUBSET Versions,
                            cand: SUBSET Versions, size: Int]]

\* Which of p's names exist where p is: descriptors only while a copy or the
\* code generator runs, a temporary file only between its creation and renaming.
Named(p) ==
  /\ Exists(fs, Src(p)) <=> pc[p] \in {"write", "stored"}
  /\ Exists(fs, Dst(p)) <=> pc[p] \in {"write", "emit", "stored"}
  /\ Exists(fs, Temp(p)) => pc[p] \in {"store", "stored", "rename"}
  /\ pc[p] \in {"write", "touch", "emit", "mktemp", "store", "stored", "rename"} \cup Done
       => Exists(fs, Out(p))
  /\ pc[p] = "fetch" => ~Exists(fs, Out(p))

\* Without pruning, no file that p relies on disappears.
Unpruned(p) ==
  pruning = "off" =>
    /\ pc[p] \notin {"fatal", "sweep", "expire", "shrink"}
    /\ pc[p] \in {"unlink", "fetch", "write", "touch"} => Cached(job[p].v)
    /\ pc[p] \in {"store", "stored", "rename"} => Exists(fs, Temp(p))

\* The invariant about names, for every value of LinksKept.
SInv == FileSystem(fs) /\ JobTypes /\ \A p \in Compilers : Named(p) /\ Unpruned(p)

\* a step after which the names of A lead to a file and those of R do not
Changes(A, R) ==
  /\ FileSystem(fs')
  /\ \A x : Exists(fs', x) <=> x \in A \/ (Exists(fs, x) /\ x \notin R)

\* The names each kind of step adds and takes away, for the steps in turn: none,
LEMMA ChangesNone == ASSUME SInv, UNCHANGED fs PROVE Changes({}, {})
BY Zenon DEF SInv, Changes

\* the removal of names,
LEMMA ChangesDrop == ASSUME SInv, NEW S, fs' = Drop(fs, S) PROVE Changes({}, S)
BY DropFacts, Zenon DEF SInv, Changes

\* recoverObjectFile opening entry and output for a copy,
LEMMA ChangesFetchCopy ==
  ASSUME SInv, NEW p \in Compilers, pc[p] = "fetch", FetchCopy(p)
  PROVE  Changes({Src(p), Out(p), Dst(p)}, {})
<1> DEFINE E == Entry(job[p].v)
           A == Alias(fs, Src(p), E)
<1>1. /\ FileSystem(fs) /\ ~Exists(fs, Src(p)) /\ ~Exists(fs, Dst(p)) /\ ~Exists(fs, Out(p))
      /\ Exists(fs, E) /\ fs' = OpenToWrite(A, Out(p), Dst(p))
  BY Zenon DEF SInv, Named, FetchCopy, Cached
<1>2. /\ Src(p) \in Names /\ Out(p) \in Names /\ Dst(p) \in Names
      /\ Src(p) # E /\ Src(p) # Dst(p) /\ Out(p) # Dst(p) /\ Src(p) # Out(p)
  BY NamesAre, NamesDiffer, Zenon
<1> HIDE DEF E
<1>3. /\ FileSystem(A) /\ Exists(A, Src(p)) /\ \A x : x # Src(p) => (Exists(A, x) <=> Exists(fs, x))
  BY <1>1, <1>2, AliasFacts, Zenon
<1> HIDE DEF A
<1>4. /\ FileSystem(fs') /\ Exists(fs', Out(p)) /\ Exists(fs', Dst(p))
      /\ \A x : x \notin {Out(p), Dst(p)} => (Exists(fs', x) <=> Exists(A, x))
  BY <1>1, <1>2, <1>3, OpenFacts
<1> QED
  BY <1>2, <1>3, <1>4, Zenon DEF Changes

\* recoverObjectFile linking the output to the entry,
LEMMA ChangesFetchLink ==
  ASSUME SInv, NEW p \in Compilers, pc[p] = "fetch", FetchLink(p)
  PROVE  Changes({Out(p)}, {})
<1> DEFINE E == Entry(job[p].v)
<1>1. /\ FileSystem(fs) /\ ~Exists(fs, Out(p)) /\ Exists(fs, E) /\ fs' = Alias(fs, Out(p), E)
  BY Zenon DEF SInv, Named, FetchLink, Cached
<1>2. Out(p) \in Names /\ Out(p) # E
  BY NamesAre, NamesDiffer, Zenon
<1> QED
  BY <1>1, <1>2, AliasFacts DEF Changes

\* the end of copy_file,
LEMMA ChangesCopied ==
  ASSUME SInv, NEW p \in Compilers, Copied(p)
  PROVE  Changes({}, {Src(p), Dst(p)})
<1>1. PICK f \in fs : fs' = Drop(Write(fs, Dst(p), f.data), {Src(p), Dst(p)})
  BY Zenon DEF Copied
<1>2. FileSystem(fs) /\ f.data \in Versions \cup {Partial}
  BY Zenon DEF SInv, FileSystem, Files
<1> QED
  BY <1>1, <1>2, WriteFacts, DropFacts DEF Changes

\* writeObjectFile opening the output,
LEMMA ChangesOpenOutput ==
  ASSUME SInv, NEW p \in Compilers, OpenOutput(p)
  PROVE  Changes({Out(p), Dst(p)}, {})
<1>1. FileSystem(fs) /\ ~Exists(fs, Dst(p)) /\ fs' = OpenToWrite(fs, Out(p), Dst(p))
  BY Zenon DEF SInv, Named, OpenOutput
<1>2. Out(p) \in Names /\ Dst(p) \in Names /\ Out(p) # Dst(p)
  BY NamesAre, NamesDiffer, Zenon
<1> QED
  BY <1>1, <1>2, OpenFacts DEF Changes

\* writeObjectFile writing and closing it,
LEMMA ChangesEmit ==
  ASSUME SInv, NEW p \in Compilers, Emit(p)
  PROVE  Changes({}, {Dst(p)})
<1>1. FileSystem(fs) /\ job[p].v \in Versions /\ fs' = Drop(Write(fs, Dst(p), job[p].v), {Dst(p)})
  BY Zenon DEF SInv, JobTypes, Emit
<1> QED
  BY <1>1, WriteFacts, DropFacts DEF Changes

\* cacheObjectFile creating its temporary file,
LEMMA ChangesCreateTemp ==
  ASSUME SInv, NEW p \in Compilers, CreateTemp(p)
  PROVE  Changes({Temp(p)}, {})
<1>1. FileSystem(fs) /\ ~Exists(fs, Temp(p)) /\ fs' = New(fs, Temp(p)) /\ Temp(p) \in Names
  BY NamesAre, Zenon DEF SInv, Named, CreateTemp, New
<1> QED
  BY <1>1, NewFacts DEF Changes

\* cacheObjectFile opening output and temporary file for a copy,
LEMMA ChangesStoreOpen ==
  ASSUME SInv, NEW p \in Compilers, StoreOpen(p)
  PROVE  Changes({Src(p), Temp(p), Dst(p)}, {})
<1> DEFINE A == Alias(fs, Src(p), Out(p))
<1>1. /\ FileSystem(fs) /\ ~Exists(fs, Src(p)) /\ ~Exists(fs, Dst(p)) /\ Exists(fs, Out(p))
      /\ fs' = OpenToWrite(A, Temp(p), Dst(p))
  BY Zenon DEF SInv, Named, StoreOpen
<1>2. /\ Src(p) \in Names /\ Temp(p) \in Names /\ Dst(p) \in Names
      /\ Src(p) # Out(p) /\ Src(p) # Dst(p) /\ Temp(p) # Dst(p) /\ Src(p) # Temp(p)
  BY NamesAre, NamesDiffer, Zenon
<1>3. /\ FileSystem(A) /\ Exists(A, Src(p)) /\ \A x : x # Src(p) => (Exists(A, x) <=> Exists(fs, x))
  BY <1>1, <1>2, AliasFacts, Zenon
<1> HIDE DEF A
<1>4. /\ FileSystem(fs') /\ Exists(fs', Temp(p)) /\ Exists(fs', Dst(p))
      /\ \A x : x \notin {Temp(p), Dst(p)} => (Exists(fs', x) <=> Exists(A, x))
  BY <1>1, <1>2, <1>3, OpenFacts
<1> QED
  BY <1>2, <1>3, <1>4, Zenon DEF Changes

\* and cacheObjectFile renaming the temporary file to the entry.
LEMMA ChangesRename ==
  ASSUME SInv, NEW p \in Compilers, Exists(fs, Temp(p)), fs' = Renamed(fs, Temp(p), Entry(job[p].v))
  PROVE  Changes({Entry(job[p].v)}, {Temp(p)})
<1> DEFINE E == Entry(job[p].v)
<1>1. FileSystem(fs) /\ E \in Names /\ Temp(p) # E
  BY NamesAre, NamesDiffer, Zenon DEF SInv, JobTypes
<1>2. Moved(fs, fs', Temp(p), E)
  BY <1>1, RenameFacts, Zenon
<1> QED
  BY <1>1, <1>2, Zenon DEF Changes, Moved

-----------------------------------------------------------------------------
\* Other compilers' names stay, except for what a pruner removes.
Own(p) == {Temp(p), Out(p), Src(p), Dst(p)}
Entries == {Entry(v) : v \in Versions}

\* A step of p that changes p's own names and entries only keeps SInv if it keeps
\* what SInv says of p, and removes no entry unless pruning is enabled.
LEMMA StepOf ==
  ASSUME SInv, NEW p \in Compilers, NEW A, NEW R, Changes(A, R),
         A \subseteq Own(p) \cup Entries,
         R \subseteq Own(p) \/ (R \subseteq Own(p) \cup Entries /\ pruning # "off"),
         JobTypes', UNCHANGED pruning,
         \A q \in Compilers \ {p} : pc'[q] = pc[q] /\ job'[q] = job[q],
         Named(p)', Unpruned(p)'
  PROVE  SInv'
<1>1. ASSUME NEW q \in Compilers \ {p}
      PROVE  \A x \in Own(q) : Exists(fs', x) <=> Exists(fs, x)
  BY NamesDiffer DEF Own, Entries, Changes
<1>2. ASSUME NEW q \in Compilers \ {p} PROVE Named(q)'
  <2>1. Named(q) /\ pc'[q] = pc[q]
    BY Zenon DEF SInv
  <2> QED
    BY <1>1, <2>1, Zenon DEF Own, Named
<1>3. ASSUME NEW q \in Compilers \ {p} PROVE Unpruned(q)'
  <2>1. Unpruned(q) /\ pc'[q] = pc[q] /\ job'[q] = job[q]
    BY Zenon DEF SInv
  <2>2. pruning = "off" => \A v : Cached(v) => Cached(v)'
    BY NamesDiffer DEF Own, Cached, Changes
  <2>3. Exists(fs, Temp(q)) => Exists(fs', Temp(q))
    BY <1>1, Zenon DEF Own
  <2> QED
    BY <2>1, <2>2, <2>3, Zenon DEF Unpruned
<1> QED
  BY <1>2, <1>3, Zenon DEF SInv, Changes

\* Where p goes to, and with what job, is all that a step changes of pc and job.
LEMMA OneMoves ==
  ASSUME JobTypes, NEW p \in Compilers, NEW l \in Labels, pc' = [pc EXCEPT ![p] = l], UNCHANGED job
  PROVE  /\ JobTypes' /\ pc'[p] = l /\ job'[p] = job[p]
         /\ \A q \in Compilers \ {p} : pc'[q] = pc[q] /\ job'[q] = job[q]
BY Zenon DEF JobTypes

\* No file and no running compiler at the start.
LEMMA NamesInit == Init => SInv
<1> SUFFICES ASSUME Init PROVE SInv
  BY Zenon
<1>1. FileSystem(fs) /\ \A x : ~Exists(fs, x)
  BY Zenon DEF Init, FileSystem, Exists
<1>2. JobTypes
  BY DEF Init, JobTypes, Labels, Ended, NewJob
<1>3. \A p \in Compilers : pc[p] = "killed"
  BY Zenon DEF Init
<1>4. \A p \in Compilers : Named(p) /\ Unpruned(p)
  BY <1>1, <1>3, Zenon DEF Named, Unpruned, Done
<1> QED
  BY <1>1, <1>2, <1>4, Zenon DEF SInv

\* SInv is kept when writeModule is entered,
LEMMA NamesStart ==
  ASSUME SInv, NEW p \in Compilers, NEW v \in Versions, NEW m \in Modes, Start(p, v, m), UNCHANGED pruning
  PROVE  SInv'
<1>1. JobTypes /\ Named(p) /\ pc[p] \in Ended
  BY Zenon DEF SInv, Start
<1>2. JobTypes' /\ pc'[p] = "lookup" /\ \A q \in Compilers \ {p} : pc'[q] = pc[q] /\ job'[q] = job[q]
  BY <1>1 DEF JobTypes, Start, Goto, Labels, NewJob
<1>3. Changes({}, {}) \/ Changes({}, {Out(p)})
  BY ChangesNone, ChangesDrop, Zenon DEF Start
<1>4. ASSUME NEW R \in {{}, {Out(p)}}, Changes({}, R) PROVE SInv'
  <2>1. Named(p)' /\ Unpruned(p)'
    BY <1>1, <1>2, <1>4, NamesDiffer, Zenon DEF Named, Unpruned, Changes, Ended, Done
  <2> QED
    BY <1>2, <1>4, <2>1, StepOf, Zenon DEF Own
<1> QED
  BY <1>3, <1>4, Zenon

\* by the steps that only look at the file system,
LEMMA NamesQuiet ==
  ASSUME SInv, NEW p \in Compilers, UNCHANGED <<fs, pruning, job>>,
         \/ cacheLookup(p) \/ (pc[p] = "fetch" /\ ~Cached(job[p].v) /\ Fatal(p)) \/ Touch(p)
         \/ (pc[p] = "rename" /\ ~Exists(fs, Temp(p)) /\ Fatal(p))
  PROVE  SInv'
<1>1. JobTypes /\ Named(p) /\ Unpruned(p) /\ Changes({}, {})
  BY ChangesNone, Zenon DEF SInv
<1>2. PICK l \in Labels : pc' = [pc EXCEPT ![p] = l]
  BY Zenon DEF cacheLookup, Fatal, Touch, Goto, Labels, Ended
<1>3. /\ JobTypes' /\ pc'[p] = l /\ job'[p] = job[p]
      /\ \A q \in Compilers \ {p} : pc'[q] = pc[q] /\ job'[q] = job[q]
  BY <1>1, <1>2, OneMoves, Zenon
<1>4. \A x : Exists(fs', x) <=> Exists(fs, x)
  BY Zenon
<1>5. Named(p)' /\ Unpruned(p)'
  <2>1. CASE cacheLookup(p)
    <3>1. pc[p] = "lookup" /\ (l = "open" \/ (l = "unlink" /\ Cached(job[p].v)))
      BY <1>1, <1>2, <2>1, Zenon DEF cacheLookup, Goto, JobTypes
    <3> QED
      BY <1>1, <1>3, <1>4, <3>1, Zenon DEF Named, Unpruned, Done, Cached
  <2>2. CASE pc[p] = "fetch" /\ ~Cached(job[p].v) /\ Fatal(p)
    <3>1. l = "fatal"
      BY <1>1, <1>2, <2>2, Zenon DEF Fatal, Goto, JobTypes
    <3> QED
      BY <1>1, <1>3, <1>4, <2>2, <3>1, Zenon DEF Named, Unpruned, Done, Cached
  <2>3. CASE Touch(p)
    <3>1. pc[p] = "touch" /\ (l = "prune" \/ (l = "fatal" /\ ~Cached(job[p].v)))
      BY <1>1, <1>2, <2>3, Zenon DEF Touch, Fatal, Goto, JobTypes
    <3> QED
      BY <1>1, <1>3, <1>4, <3>1, Zenon DEF Named, Unpruned, Done, Cached
  <2>4. CASE pc[p] = "rename" /\ ~Exists(fs, Temp(p)) /\ Fatal(p)
    <3>1. l = "fatal"
      BY <1>1, <1>2, <2>4, Zenon DEF Fatal, Goto, JobTypes
    <3> QED
      BY <1>1, <1>3, <1>4, <2>4, <3>1, Zenon DEF Named, Unpruned, Done, Cached
  <2> QED
    BY <2>1, <2>2, <2>3, <2>4, Zenon
<1> QED
  BY <1>1, <1>3, <1>5, StepOf DEF Own

\* The steps that work on p's own files.
LEMMA NamesWork ==
  ASSUME SInv, NEW p \in Compilers, UNCHANGED pruning,
         \/ RemoveOutput(p) \/ (pc[p] = "fetch" /\ (FetchCopy(p) \/ FetchLink(p))) \/ FetchWrite(p)
         \/ OpenOutput(p) \/ Emit(p) \/ CreateTemp(p) \/ StoreOpen(p) \/ StoreWrite(p)
         \/ (pc[p] = "rename" /\ Exists(fs, Temp(p)) /\ Rename(p))
  PROVE  SInv'
<1>1. JobTypes /\ Named(p) /\ Unpruned(p)
  BY Zenon DEF SInv
<1>2. PICK l \in Labels : pc' = [pc EXCEPT ![p] = l] /\ UNCHANGED job
  BY Zenon DEF RemoveOutput, FetchCopy, FetchLink, FetchWrite, OpenOutput, Emit, CreateTemp, StoreOpen, StoreWrite,
     Rename, Goto, Labels, Ended
<1>3. /\ JobTypes' /\ pc'[p] = l /\ job'[p] = job[p] /\ job[p].v \in Versions
      /\ \A q \in Compilers \ {p} : pc'[q] = pc[q] /\ job'[q] = job[q]
  BY <1>1, <1>2, OneMoves, Zenon DEF JobTypes
<1> USE NamesDiffer DEF Named, Unpruned, Done, Cached, Own, Entries
<1>4. CASE RemoveOutput(p)
  <2>1. Changes({}, {Out(p)}) /\ pc[p] = "unlink" /\ l = "fetch"
    BY <1>1, <1>2, <1>4, ChangesDrop, Zenon DEF RemoveOutput, Goto, JobTypes
  <2>2. Named(p)' /\ Unpruned(p)'
    BY <1>1, <1>3, <2>1, Zenon DEF Changes
  <2> QED
    BY <1>3, <2>1, <2>2, StepOf, Zenon
<1>5. CASE pc[p] = "fetch" /\ FetchCopy(p)
  <2>1. Changes({Src(p), Out(p), Dst(p)}, {}) /\ l = "write"
    BY <1>1, <1>2, <1>5, ChangesFetchCopy, Zenon DEF FetchCopy, Goto, JobTypes
  <2>2. Named(p)' /\ Unpruned(p)'
    BY <1>1, <1>3, <1>5, <2>1 DEF Changes
  <2> QED
    BY <1>3, <2>1, <2>2, StepOf, Zenon
<1>6. CASE pc[p] = "fetch" /\ FetchLink(p)
  <2>1. Changes({Out(p)}, {}) /\ l = "touch"
    BY <1>1, <1>2, <1>6, ChangesFetchLink, Zenon DEF FetchLink, Goto, JobTypes
  <2>2. Named(p)' /\ Unpruned(p)'
    BY <1>1, <1>3, <1>6, <2>1, Zenon DEF Changes
  <2> QED
    BY <1>3, <2>1, <2>2, StepOf, Zenon
<1>7. CASE FetchWrite(p)
  <2>1. Changes({}, {Src(p), Dst(p)}) /\ pc[p] = "write" /\ l = "touch"
    BY <1>1, <1>2, <1>7, ChangesCopied, Zenon DEF FetchWrite, Goto, JobTypes
  <2>2. Named(p)' /\ Unpruned(p)'
    BY <1>1, <1>3, <2>1 DEF Changes
  <2> QED
    BY <1>3, <2>1, <2>2, StepOf, Zenon
<1>8. CASE OpenOutput(p)
  <2>1. Changes({Out(p), Dst(p)}, {}) /\ pc[p] = "open" /\ l = "emit"
    BY <1>1, <1>2, <1>8, ChangesOpenOutput, Zenon DEF OpenOutput, Goto, JobTypes
  <2>2. Named(p)' /\ Unpruned(p)'
    BY <1>1, <1>3, <2>1, Zenon DEF Changes
  <2> QED
    BY <1>3, <2>1, <2>2, StepOf, Zenon
<1>9. CASE Emit(p)
  <2>1. Changes({}, {Dst(p)}) /\ pc[p] = "emit" /\ l = "mktemp"
    BY <1>1, <1>2, <1>9, ChangesEmit, Zenon DEF Emit, Goto, JobTypes
  <2>2. Named(p)' /\ Unpruned(p)'
    BY <1>1, <1>3, <2>1, Zenon DEF Changes
  <2> QED
    BY <1>3, <2>1, <2>2, StepOf, Zenon
<1>10. CASE CreateTemp(p)
  <2>1. Changes({Temp(p)}, {}) /\ pc[p] = "mktemp" /\ l = "store"
    BY <1>1, <1>2, <1>10, ChangesCreateTemp, Zenon DEF CreateTemp, Goto, JobTypes
  <2>2. Named(p)' /\ Unpruned(p)'
    BY <1>1, <1>3, <2>1, Zenon DEF Changes
  <2> QED
    BY <1>3, <2>1, <2>2, StepOf, Zenon
<1>11. CASE StoreOpen(p)
  <2>1. Changes({Src(p), Temp(p), Dst(p)}, {}) /\ pc[p] = "store" /\ l = "stored"
    BY <1>1, <1>2, <1>11, ChangesStoreOpen, Zenon DEF StoreOpen, Goto, JobTypes
  <2>2. Named(p)' /\ Unpruned(p)'
    BY <1>1, <1>3, <2>1, Zenon DEF Changes
  <2> QED
    BY <1>3, <2>1, <2>2, StepOf, Zenon
<1>12. CASE StoreWrite(p)
  <2>1. Changes({}, {Src(p), Dst(p)}) /\ pc[p] = "stored" /\ l = "rename"
    BY <1>1, <1>2, <1>12, ChangesCopied, Zenon DEF StoreWrite, Goto, JobTypes
  <2>2. Named(p)' /\ Unpruned(p)'
    BY <1>1, <1>3, <2>1, Zenon DEF Changes
  <2> QED
    BY <1>3, <2>1, <2>2, StepOf, Zenon
<1>13. CASE pc[p] = "rename" /\ Exists(fs, Temp(p)) /\ Rename(p)
  <2>1. Changes({Entry(job[p].v)}, {Temp(p)}) /\ l = "prune"
    BY <1>1, <1>2, <1>13, ChangesRename, Zenon DEF Rename, Goto, JobTypes
  <2>2. Named(p)' /\ Unpruned(p)'
    BY <1>1, <1>3, <1>13, <2>1, Zenon DEF Changes
  <2> QED
    BY <1>3, <2>1, <2>2, StepOf
<1> QED
  BY <1>4, <1>5, <1>6, <1>7, <1>8, <1>9, <1>10, <1>11, <1>12, <1>13, Zenon

\* What a pruner does to what it knows, whatever that is.
JobSet == [v: Versions, mode: Modes, list: SUBSET Versions, cand: SUBSET Versions, size: Int]

\* A record with these fields is a job.
LEMMA JobRecords ==
  ASSUME NEW r \in JobSet, NEW L \in SUBSET Versions, NEW C \in SUBSET Versions, NEW n \in Int
  PROVE  /\ [r EXCEPT !.list = L, !.cand = C, !.size = n] \in JobSet
         /\ [r EXCEPT !.cand = C, !.size = n] \in JobSet
BY Zenon DEF JobSet

\* A pruning step changes only its own compiler's listing, candidates and count.
JobsKept(p) ==
  /\ job' \in [Compilers -> JobSet]
  /\ job'[p].v = job[p].v
  /\ \A q \in Compilers \ {p} : job'[q] = job[q]

\* The rest of a pruner's work: it knows fewer entries after each.
LEMMA PruneJobs ==
  ASSUME JobTypes, NEW p \in Compilers, pruneForExpiry(p) \/ pruneForSize(p)
  PROVE  /\ JobTypes' /\ pc'[p] \in {"expire", "shrink", "idle", "fatal"} /\ job'[p].v = job[p].v
         /\ \A q \in Compilers \ {p} : pc'[q] = pc[q] /\ job'[q] = job[q]
<1>1. pc' = pc \/ \E l \in {"fatal", "shrink", "idle"} : pc' = [pc EXCEPT ![p] = l]
  BY Zenon DEF pruneForExpiry, pruneForSize, ExpireOne, ShrinkOne, Fatal, Goto
<1>2. /\ pc' \in [Compilers -> Labels] /\ pc'[p] \in {"expire", "shrink", "idle", "fatal"}
      /\ \A q \in Compilers \ {p} : pc'[q] = pc[q]
  BY <1>1 DEF JobTypes, Labels, Ended, pruneForExpiry, pruneForSize
<1>3. JobsKept(p)
  <2>0. job \in [Compilers -> JobSet]
    BY Zenon DEF JobTypes, JobSet
  <2>a. ASSUME NEW r \in JobSet, r.v = job[p].v, job' = [job EXCEPT ![p] = r] PROVE JobsKept(p)
    BY <2>0, <2>a, Zenon DEF JobsKept
  <2>1. CASE UNCHANGED job
    BY <2>0, <2>1, Zenon DEF JobsKept
  <2>2. ASSUME NEW v \in Versions, Size[v] \in Int,
               \/ job' = [job EXCEPT ![p].list = @ \ {v}]
               \/ job' = [job EXCEPT ![p].cand = @ \ {v}]
               \/ job' = [job EXCEPT ![p].cand = @ \ {v}, ![p].size = @ - Size[v]]
        PROVE  JobsKept(p)
    BY <2>0, <2>2 DEF JobsKept, JobSet
  <2>3. ASSUME NEW v \in Versions, Size[v] \in Int,
               job' = [job EXCEPT ![p].list = @ \ {v}, ![p].cand = @ \cup {v}, ![p].size = @ + Size[v]]
        PROVE  JobsKept(p)
    <3> DEFINE L == job[p].list \ {v}
               C == job[p].cand \cup {v}
               n == job[p].size + Size[v]
    <3>1. L \in SUBSET Versions /\ C \in SUBSET Versions /\ n \in Int
      BY <2>0, <2>3 DEF JobSet
    <3> DEFINE r == [job[p] EXCEPT !.list = L, !.cand = C, !.size = n]
    <3>2. job' = [job EXCEPT ![p] = r]
      BY <2>0, <2>3, Zenon DEF JobSet
    <3> HIDE DEF L, C, n
    <3>3. r \in JobSet
      BY <2>0, <3>1, JobRecords, Zenon
    <3>4. r.v = job[p].v
      BY <2>0, Zenon DEF JobSet
    <3> HIDE DEF r
    <3> QED
      BY <2>a, <3>2, <3>3, <3>4, Zenon
  <2>4. CASE job' = [job EXCEPT ![p].cand = {}, ![p].size = 0]
    <3>0. {} \in SUBSET Versions
      BY Zenon
    <3>1. PICK n \in Int : n = 0
      OBVIOUS
    <3> DEFINE r == [job[p] EXCEPT !.cand = {}, !.size = n]
    <3>2. job' = [job EXCEPT ![p] = r]
      BY <2>0, <2>4, <3>1, Zenon DEF JobSet
    <3>3. r \in JobSet
      BY <2>0, <3>0, JobRecords, Zenon
    <3>4. r.v = job[p].v
      BY <2>0, Zenon DEF JobSet
    <3> HIDE DEF r
    <3> QED
      BY <2>a, <3>2, <3>3, <3>4, Zenon
  <2>5. \A v \in Versions : Size[v] \in Int
    BY CacheAssumption
  <2>6. CASE pruneForExpiry(p)
    <3>1. UNCHANGED job \/ \E v \in Versions : ExpireOne(p, v)
      BY <2>6, Zenon DEF pruneForExpiry
    <3>2. ASSUME NEW v \in Versions, ExpireOne(p, v) PROVE JobsKept(p)
      BY <2>1, <2>2, <2>3, <2>5, <3>2, Zenon DEF ExpireOne, Fatal
    <3> QED
      BY <2>1, <3>1, <3>2, Zenon
  <2>7. CASE pruneForSize(p)
    <3>1. ASSUME NEW v \in Versions, ShrinkOne(p, v) PROVE JobsKept(p)
      BY <2>2, <2>5, <3>1, Zenon DEF ShrinkOne
    <3> QED
      BY <2>4, <2>7, <3>1, Zenon DEF pruneForSize
  <2> QED
    BY <2>6, <2>7, Zenon
<1> QED
  BY <1>2, <1>3, Zenon DEF JobTypes, JobsKept, JobSet

\* A pruner, and the death of a compiler.
LEMMA NamesPrune ==
  ASSUME SInv, NEW p \in Compilers, UNCHANGED pruning,
         PruneStart(p) \/ deleteFiles(p) \/ pruneForExpiry(p) \/ pruneForSize(p)
  PROVE  SInv'
<1>1. JobTypes /\ Named(p) /\ Unpruned(p)
  BY Zenon DEF SInv
<1>2. CASE PruneStart(p)
  <2>1. pc[p] = "prune" /\ UNCHANGED fs /\ pc'[p] \in {"sweep", "idle"} /\ (pruning = "off" => pc'[p] = "idle")
    BY <1>1, <1>2, Zenon DEF PruneStart, DueToPrune, Goto, JobTypes, files
  <2>2. JobTypes' /\ \A q \in Compilers \ {p} : pc'[q] = pc[q] /\ job'[q] = job[q]
    BY <1>1, <1>2 DEF PruneStart, Goto, JobTypes, Labels, Ended
  <2>3. Changes({}, {})
    BY <2>1, ChangesNone, Zenon
  <2>4. Named(p)' /\ Unpruned(p)'
    BY <1>1, <2>1, Zenon DEF Named, Unpruned, Done
  <2> QED
    BY <2>2, <2>3, <2>4, StepOf, Zenon
<1>3. CASE deleteFiles(p)
  <2>1. pc[p] = "sweep" /\ fs' = Drop(fs, {Temp(q) : q \in Compilers}) /\ UNCHANGED job /\ pruning # "off"
        /\ pc' = [pc EXCEPT ![p] = "expire"]
    BY <1>1, <1>3, Zenon DEF deleteFiles, Goto, Unpruned
  <2>2. JobTypes' /\ pc'[p] = "expire" /\ \A q \in Compilers \ {p} : pc'[q] = pc[q]
    BY <1>1, <2>1, OneMoves, Zenon DEF Labels
  <2>3. Changes({}, {Temp(q) : q \in Compilers})
    BY <2>1, ChangesDrop, Zenon
  <2>4. \A q \in Compilers : /\ ~Exists(fs', Temp(q))
                             /\ \A x \in {Src(q), Dst(q), Out(q)} : Exists(fs', x) <=> Exists(fs, x)
    BY <2>3, NamesDiffer DEF Changes
  <2>5. ASSUME NEW q \in Compilers PROVE Named(q)' /\ Unpruned(q)'
    <3>1. Named(q)
      BY Zenon DEF SInv
    <3>2. Named(q)'
      BY <2>1, <2>2, <2>4, <3>1, Zenon DEF Named, Done
    <3> QED
      BY <2>1, <3>2, Zenon DEF Unpruned
  <2> QED
    BY <2>2, <2>3, <2>5, Zenon DEF SInv, Changes
<1>4. CASE pruneForExpiry(p) \/ pruneForSize(p)
  <2>1. pc[p] \in {"expire", "shrink"} /\ pruning # "off"
    BY <1>1, <1>4, Zenon DEF pruneForExpiry, pruneForSize, Unpruned
  <2>2. UNCHANGED fs \/ \E v \in Versions : fs' = Drop(fs, {Entry(v)})
    BY <1>4, Zenon DEF pruneForExpiry, pruneForSize, ExpireOne, ShrinkOne, Remove, Fatal, files
  <2>3. PICK R \in SUBSET Entries : Changes({}, R)
    BY <2>2, ChangesNone, ChangesDrop, Zenon DEF Entries
  <2>4. /\ JobTypes' /\ pc'[p] \in {"expire", "shrink", "idle", "fatal"}
        /\ \A q \in Compilers \ {p} : pc'[q] = pc[q] /\ job'[q] = job[q]
    BY <1>1, <1>4, PruneJobs, Zenon
  <2>5. Named(p)' /\ Unpruned(p)'
    BY <1>1, <2>1, <2>3, <2>4, NamesDiffer DEF Named, Unpruned, Done, Changes, Entries
  <2> QED
    BY <2>1, <2>3, <2>4, <2>5, StepOf, Zenon
<1> QED
  BY <1>2, <1>3, <1>4, Zenon

\* and when a compiler is killed.
LEMMA NamesCrash ==
  ASSUME SInv, NEW p \in Compilers, Crash(p)
  PROVE  SInv'
<1>1. JobTypes /\ Named(p)
  BY Zenon DEF SInv
<1>2. Changes({}, {Temp(p), Src(p), Dst(p)})
  BY ChangesDrop, Zenon DEF Crash
<1>3. JobTypes' /\ pc'[p] = "killed" /\ UNCHANGED pruning
      /\ \A q \in Compilers \ {p} : pc'[q] = pc[q] /\ job'[q] = job[q]
  <2>1. /\ pc' = [pc EXCEPT ![p] = "killed"] /\ UNCHANGED pruning
        /\ job' = [job EXCEPT ![p] = NewJob(job[p].v, job[p].mode)]
    BY Zenon DEF Crash, Goto
  <2>2. NewJob(job[p].v, job[p].mode) \in [v: Versions, mode: Modes, list: SUBSET Versions,
                                           cand: SUBSET Versions, size: Int]
    BY <1>1 DEF JobTypes, NewJob
  <2>3. "killed" \in Labels
    BY DEF Labels, Ended
  <2> HIDE DEF NewJob
  <2> QED
    BY <1>1, <2>1, <2>2, <2>3, Zenon DEF JobTypes
<1>4. Named(p)' /\ Unpruned(p)'
  BY <1>1, <1>2, <1>3, NamesDiffer, Zenon DEF Named, Unpruned, Changes, Done
<1> QED
  BY <1>2, <1>3, <1>4, StepOf, Zenon DEF Own

\* The steps of a compiler, by what they do to files.
Quiet(p) ==
  /\ UNCHANGED <<fs, job>>
  /\ \/ cacheLookup(p) \/ (pc[p] = "fetch" /\ ~Cached(job[p].v) /\ Fatal(p)) \/ Touch(p)
     \/ (pc[p] = "rename" /\ ~Exists(fs, Temp(p)) /\ Fatal(p))
Work(p) ==
  \/ RemoveOutput(p) \/ (pc[p] = "fetch" /\ (FetchCopy(p) \/ FetchLink(p))) \/ FetchWrite(p)
  \/ OpenOutput(p) \/ Emit(p) \/ CreateTemp(p) \/ StoreOpen(p) \/ StoreWrite(p)
  \/ (pc[p] = "rename" /\ Exists(fs, Temp(p)) /\ Rename(p))
Prune(p) == PruneStart(p) \/ deleteFiles(p) \/ pruneForExpiry(p) \/ pruneForSize(p)

\* Every step of a compiler is of one of these kinds.
LEMMA Kinds ==
  ASSUME NEW p \in Compilers, Step(p)
  PROVE  (\E v \in Versions, m \in Modes : Start(p, v, m)) \/ Quiet(p) \/ Work(p) \/ Prune(p)
<1>1. CASE cacheLookup(p) \/ Touch(p)
  BY <1>1, Zenon DEF Quiet, cacheLookup, Touch, Fatal, files
<1>2. CASE Fetch(p)
  BY <1>2, Zenon DEF Quiet, Work, Fetch, Fatal, files
<1>3. CASE Rename(p)
  BY <1>3, Zenon DEF Quiet, Work, Rename, Fatal, files
<1> QED
  BY <1>1, <1>2, <1>3, Zenon DEF Step, Work, Prune

\* SInv is inductive.
LEMMA NamesStep == SInv /\ [Next]_vars => SInv'
<1> SUFFICES ASSUME SInv, [Next]_vars PROVE SInv'
  BY Zenon
<1>1. ASSUME NEW p \in Compilers, Step(p), UNCHANGED pruning PROVE SInv'
  <2>1. CASE Quiet(p)
    BY <1>1, <2>1, NamesQuiet, Zenon DEF Quiet
  <2>2. CASE Work(p)
    BY <1>1, <2>2, NamesWork, Zenon DEF Work
  <2>3. CASE Prune(p)
    BY <1>1, <2>3, NamesPrune, Zenon DEF Prune
  <2> QED
    BY <1>1, <2>1, <2>2, <2>3, Kinds, NamesStart, Zenon
<1>2. ASSUME UNCHANGED <<fs, pc, job, pruning>> PROVE SInv'
  BY <1>2, Zenon DEF SInv, JobTypes, Named, Unpruned, Cached
<1>3. CASE Tick \/ UNCHANGED vars
  BY <1>2, <1>3, Zenon DEF Tick, vars, files
<1> QED
  BY <1>1, <1>3, NamesCrash, Zenon DEF Next

(* While no pruning is enabled a compiler never fails, however many share   *)
(* the cache directory and wherever some of them are killed.                *)
THEOREM NoFailureUnpruned == Spec => []FailOnlyByPruning
<1>1. SInv => FailOnlyByPruning
  BY Zenon DEF SInv, Unpruned, FailOnlyByPruning
<1> QED
  BY <1>1, NamesInit, NamesStep, PTL DEF Spec

-----------------------------------------------------------------------------
(* What is written through a descriptor has no other name than the one it   *)
(* was opened by, and what has a final name is whole.                       *)
Private(p) ==
  /\ \A n : Same(fs, Temp(p), n) => n \in {Temp(p), Dst(p)}
  /\ \A n : Same(fs, Dst(p), n) =>
       n = Dst(p) \/ (n = Out(p) /\ pc[p] # "stored") \/ (n = Temp(p) /\ pc[p] = "stored")
  /\ pc[p] \in {"write", "emit"} => Same(fs, Dst(p), Out(p))
  /\ pc[p] = "stored" /\ Exists(fs, Temp(p)) => Same(fs, Dst(p), Temp(p))
  /\ pc[p] \in {"lookup", "open"} => \A n : Same(fs, Out(p), n) => n = Out(p)

\* The source of a copy, the object file once it is written, and the temporary
\* file that is about to be renamed hold the whole object for p's module.
Whole(p) ==
  /\ pc[p] \in {"write", "stored"} => Holds(fs, Src(p), job[p].v)
  /\ pc[p] \in {"touch", "mktemp", "store", "stored", "rename"} \cup Done
       => Holds(fs, Out(p), job[p].v)
  /\ pc[p] = "rename" /\ Exists(fs, Temp(p)) => Holds(fs, Temp(p), job[p].v)

\* An entry holds nothing but the object for its version.
EntriesWhole == \A v \in Versions : \A d : Holds(fs, Entry(v), d) => d = v

\* The invariant about data; it needs the object file a compiler starts from not
\* to be linked to an entry (~LinksKept).
DInv == EntriesWhole /\ \A p \in Compilers : Private(p) /\ Whole(p)

\* What a step of p leaves alone of the files of another compiler q: their
\* data, and whom they are shared with unless that was not only q itself.
Apart(q) ==
  \A x \in Own(q) :
    /\ \A d : Holds(fs', x, d) <=> Holds(fs, x, d)
    /\ \A y : Same(fs', x, y) => Same(fs, x, y) \/ \E z : z \notin Own(q) /\ Same(fs, x, z)
    /\ \A y \in Own(q) : Same(fs, x, y) => Same(fs', x, y)

\* A step of p keeps DInv if it keeps the entries and what DInv says of p, and
\* leaves the files of the others alone.
LEMMA DataOf ==
  ASSUME SInv, SInv', DInv, NEW p \in Compilers, EntriesWhole', Private(p)', Whole(p)',
         \A q \in Compilers \ {p} : pc'[q] = pc[q] /\ job'[q] = job[q] /\ Apart(q)
  PROVE  DInv'
<1> SUFFICES ASSUME NEW q \in Compilers \ {p} PROVE Private(q)' /\ Whole(q)'
  BY Zenon DEF DInv
<1>1. Private(q) /\ Whole(q) /\ pc'[q] = pc[q] /\ job'[q] = job[q]
  BY Zenon DEF DInv
<1>2. ASSUME NEW x \in Own(q) PROVE Exists(fs', x) <=> Exists(fs, x)
  <2>1. FileSystem(fs) /\ FileSystem(fs')
    BY Zenon DEF SInv
  <2>2. \A d : Holds(fs', x, d) <=> Holds(fs, x, d)
    BY Zenon DEF Apart
  <2>3. Exists(fs, x) <=> \E d : Holds(fs, x, d)
    BY <2>1, SameRelation, Zenon
  <2>4. Exists(fs', x) <=> \E d : Holds(fs', x, d)
    BY <2>1, SameRelation, Zenon
  <2> QED
    BY <2>2, <2>3, <2>4, Zenon
<1>3. \A z : z \notin Own(q) => ~Same(fs, Temp(q), z) /\ ~Same(fs, Dst(q), z)
  BY <1>1, Zenon DEF Private, Own
<1>4. pc[q] \in {"lookup", "open"} => \A z : z \notin Own(q) => ~Same(fs, Out(q), z)
  BY <1>1, Zenon DEF Private, Own
<1>5. Private(q)'
  <2>1. Temp(q) \in Own(q) /\ Dst(q) \in Own(q) /\ Out(q) \in Own(q)
    BY Zenon DEF Own
  <2>2. \A n : Same(fs', Temp(q), n) => Same(fs, Temp(q), n)
    BY <1>3, <2>1, Zenon DEF Apart
  <2>3. \A n : Same(fs', Dst(q), n) => Same(fs, Dst(q), n)
    BY <1>3, <2>1, Zenon DEF Apart
  <2>4. pc[q] \in {"lookup", "open"} => \A n : Same(fs', Out(q), n) => Same(fs, Out(q), n)
    BY <1>4, <2>1, Zenon DEF Apart
  <2>5. Same(fs, Dst(q), Out(q)) => Same(fs', Dst(q), Out(q))
    BY <2>1, Zenon DEF Apart
  <2>6. Same(fs, Dst(q), Temp(q)) => Same(fs', Dst(q), Temp(q))
    BY <2>1, Zenon DEF Apart
  <2>7. Exists(fs', Temp(q)) <=> Exists(fs, Temp(q))
    BY <1>2, <2>1, Zenon
  <2> QED
    BY <1>1, <2>2, <2>3, <2>4, <2>5, <2>6, <2>7, Zenon DEF Private
<1>6. Whole(q)'
  BY <1>1, <1>2, Zenon DEF Whole, Own, Apart
<1> QED
  BY <1>5, <1>6, Zenon

\* A step that only takes p's names away, or that of an entry.
LEMMA DropApart ==
  ASSUME SInv, DInv, NEW p \in Compilers, NEW S, S \subseteq Own(p) \cup Entries, fs' = Drop(fs, S)
  PROVE  /\ EntriesWhole' /\ \A q \in Compilers \ {p} : Apart(q)
         /\ \A n, d : Holds(fs', n, d) <=> Holds(fs, n, d) /\ n \notin S
         /\ \A n, m : Same(fs', n, m) <=> Same(fs, n, m) /\ n \notin S /\ m \notin S
<1>1. /\ \A n, d : Holds(fs', n, d) <=> Holds(fs, n, d) /\ n \notin S
      /\ \A n, m : Same(fs', n, m) <=> Same(fs, n, m) /\ n \notin S /\ m \notin S
  BY DropFacts, Zenon DEF SInv
<1>2. EntriesWhole'
  BY <1>1, Zenon DEF DInv, EntriesWhole
<1>3. ASSUME NEW q \in Compilers \ {p} PROVE Apart(q)
  <2>1. \A x \in Own(q) : x \notin S
    BY NamesDiffer DEF Own, Entries
  <2> QED
    BY <1>1, <2>1, Zenon DEF Apart
<1> QED
  BY <1>1, <1>2, <1>3, Zenon

\* A step that changes no file leaves everybody's alone.
LEMMA StillApart ==
  ASSUME UNCHANGED fs, DInv, NEW q PROVE Apart(q) /\ EntriesWhole'
BY Zenon DEF Apart, DInv, EntriesWhole

\* There is no file at the start.
LEMMA DataInit == Init => DInv
<1> SUFFICES ASSUME Init PROVE DInv
  BY Zenon
<1>1. /\ \A x, y : ~Same(fs, x, y) /\ ~Holds(fs, x, y) /\ ~Exists(fs, x)
      /\ \A p \in Compilers : pc[p] = "killed"
  BY Zenon DEF Init, Same, Holds, Exists
<1> QED
  BY <1>1, Zenon DEF DInv, EntriesWhole, Private, Whole, Done

\* writeModule is entered with an object file that is not linked to an entry, or
\* with none: this is the one step that needs ~LinksKept.
LEMMA DataStart ==
  ASSUME ~LinksKept, SInv, SInv', DInv, NEW p \in Compilers, NEW v \in Versions, NEW m \in Modes, Start(p, v, m)
  PROVE  DInv'
<1>1. JobTypes /\ Private(p) /\ FileSystem(fs)
  BY Zenon DEF SInv, DInv
<1>2. pc'[p] = "lookup" /\ \A q \in Compilers \ {p} : pc'[q] = pc[q] /\ job'[q] = job[q]
  BY <1>1, Zenon DEF JobTypes, Start, Goto
<1>3. Whole(p)'
  BY <1>2, Zenon DEF Whole, Done
<1>4. ~Exists(fs', Temp(p)) /\ ~Exists(fs', Dst(p))
  BY <1>2, Zenon DEF SInv, Named
<1>5. \A n : ~Same(fs', Temp(p), n) /\ ~Same(fs', Dst(p), n)
  BY <1>4, SameRelation, Zenon DEF SInv
<1>6. CASE ~Linked(p) /\ UNCHANGED fs
  <2>1. \A n : Same(fs, Out(p), n) => n = Out(p)
    BY <1>6 DEF Linked, Same
  <2>2. Private(p)'
    BY <1>2, <1>5, <1>6, <2>1, Zenon DEF Private
  <2> QED
    BY <1>2, <1>3, <1>6, <2>2, StillApart, DataOf, Zenon
<1>7. CASE fs' = Drop(fs, {Out(p)})
  <2>1. /\ EntriesWhole' /\ \A q \in Compilers \ {p} : Apart(q)
        /\ \A n : ~Same(fs', Out(p), n)
    BY <1>7, DropApart DEF Own
  <2>2. Private(p)'
    BY <1>2, <1>5, <2>1, Zenon DEF Private
  <2> QED
    BY <1>2, <1>3, <2>1, <2>2, DataOf, Zenon
<1> QED
  BY <1>6, <1>7, Zenon DEF Start

\* Steps that only look at the file system.
LEMMA DataQuiet ==
  ASSUME SInv, SInv', DInv, NEW p \in Compilers, Quiet(p)
  PROVE  DInv'
<1>1. JobTypes /\ Private(p) /\ Whole(p) /\ UNCHANGED <<fs, job>>
  BY Zenon DEF SInv, DInv, Quiet
<1>2. /\ \A q \in Compilers \ {p} : pc'[q] = pc[q] /\ job'[q] = job[q]
      /\ \/ pc[p] = "lookup" /\ pc'[p] \in {"unlink", "open"}
         \/ pc[p] = "touch" /\ pc'[p] = "prune"
         \/ pc[p] \in {"fetch", "touch", "rename"} /\ pc'[p] = "fatal"
  BY <1>1, Zenon DEF JobTypes, Quiet, cacheLookup, Touch, Fatal, Goto
<1>3. ~Exists(fs', Temp(p)) /\ ~Exists(fs', Dst(p))
  BY <1>2, Zenon DEF SInv, Named
<1>4. \A n : ~Same(fs', Temp(p), n) /\ ~Same(fs', Dst(p), n)
  BY <1>3, SameRelation, Zenon DEF SInv
<1>5. Private(p)'
  BY <1>1, <1>2, <1>4, Zenon DEF Private
<1>6. Whole(p)'
  BY <1>1, <1>2, Zenon DEF Whole, Done
<1> QED
  BY <1>1, <1>2, <1>5, <1>6, StillApart, DataOf, Zenon

\* A pruner only takes names away: entries, and everybody's temporary files.
LEMMA DataPrune ==
  ASSUME SInv, SInv', DInv, NEW p \in Compilers, Prune(p)
  PROVE  DInv'
<1>1. JobTypes /\ Private(p) /\ Whole(p) /\ FileSystem(fs) /\ FileSystem(fs')
  BY Zenon DEF SInv, DInv
<1>2. /\ pc[p] \in {"prune", "sweep", "expire", "shrink"} /\ pc'[p] \in Done \cup {"fatal"}
      /\ job'[p].v = job[p].v
      /\ \A q \in Compilers \ {p} : pc'[q] = pc[q] /\ job'[q] = job[q]
  <2>1. CASE PruneStart(p)
    BY <1>1, <2>1 DEF JobTypes, PruneStart, Goto, Done
  <2>2. CASE deleteFiles(p)
    BY <1>1, <2>2, Zenon DEF JobTypes, deleteFiles, Goto, Done
  <2>3. CASE pruneForExpiry(p) \/ pruneForSize(p)
    BY <1>1, <2>3, PruneJobs, Zenon DEF pruneForExpiry, pruneForSize, Done
  <2> QED
    BY <2>1, <2>2, <2>3, Zenon DEF Prune
<1>3. ~Exists(fs', Temp(p)) /\ ~Exists(fs', Dst(p))
  BY <1>2, Zenon DEF SInv, Named, Done
<1>4. \A n : ~Same(fs', Temp(p), n) /\ ~Same(fs', Dst(p), n)
  BY <1>1, <1>3, SameRelation, Zenon
<1>5. Private(p)'
  BY <1>2, <1>4, Zenon DEF Private, Done
<1>6. ASSUME \A d : Holds(fs, Out(p), d) => Holds(fs', Out(p), d) PROVE Whole(p)'
  BY <1>1, <1>2, <1>6, Zenon DEF Whole, Done
<1>7. CASE UNCHANGED fs
  BY <1>2, <1>5, <1>6, <1>7, StillApart, DataOf, Zenon
<1>8. ASSUME NEW v \in Versions, fs' = Drop(fs, {Entry(v)}) PROVE DInv'
  <2>1. /\ EntriesWhole' /\ \A q \in Compilers \ {p} : Apart(q)
        /\ \A n, d : Holds(fs', n, d) <=> Holds(fs, n, d) /\ n \notin {Entry(v)}
    BY <1>8, DropApart DEF Entries
  <2>2. Whole(p)'
    BY <1>6, <2>1, NamesDiffer, Zenon
  <2> QED
    BY <1>2, <1>5, <2>1, <2>2, DataOf, Zenon
<1>9. CASE deleteFiles(p)
  <2> DEFINE S == {Temp(q) : q \in Compilers}
  <2>1. fs' = Drop(fs, S)
    BY <1>9, Zenon DEF deleteFiles
  <2>2. /\ \A n, d : Holds(fs', n, d) <=> Holds(fs, n, d) /\ n \notin S
        /\ \A n, m : Same(fs', n, m) <=> Same(fs, n, m) /\ n \notin S /\ m \notin S
    BY <1>1, <2>1, DropFacts
  <2>3. /\ \A q \in Compilers : Temp(q) \in S
        /\ \A q : Out(q) \notin S /\ Src(q) \notin S /\ Dst(q) \notin S /\ Entry(q) \notin S
    BY NamesDiffer, Zenon
  <2>4. \A q \in Compilers : ~Exists(fs', Temp(q))
    BY <1>1, <2>1, <2>3, DropFacts, Zenon
  <2> HIDE DEF S
  <2>5. EntriesWhole'
    BY <2>2, Zenon DEF DInv, EntriesWhole
  <2>6. Whole(p)'
    BY <1>6, <2>2, <2>3, Zenon
  <2>7. ASSUME NEW q \in Compilers \ {p} PROVE Private(q)' /\ Whole(q)'
    <3>1. Private(q) /\ Whole(q) /\ pc'[q] = pc[q] /\ job'[q] = job[q]
      BY <1>2, Zenon DEF DInv
    <3>2. Private(q)'
      BY <2>2, <2>3, <2>4, <3>1, Zenon DEF Private
    <3>3. Whole(q)'
      BY <2>2, <2>3, <2>4, <3>1, Zenon DEF Whole
    <3> QED
      BY <3>2, <3>3, Zenon
  <2> QED
    BY <1>5, <2>5, <2>6, <2>7, Zenon DEF DInv
<1>10. CASE PruneStart(p)
  BY <1>7, <1>10, Zenon DEF PruneStart, files
<1>11. CASE pruneForExpiry(p) \/ pruneForSize(p)
  BY <1>7, <1>8, <1>11, Zenon DEF pruneForExpiry, pruneForSize, ExpireOne, ShrinkOne, Remove, Fatal, files
<1> QED
  BY <1>9, <1>10, <1>11, Zenon DEF Prune

\* A killed compiler's descriptors are closed; what it had written to its
\* temporary file is never renamed.
LEMMA DataCrash ==
  ASSUME SInv, SInv', DInv, NEW p \in Compilers, Crash(p)
  PROVE  DInv'
<1>1. JobTypes /\ fs' = Drop(fs, {Temp(p), Src(p), Dst(p)})
  BY Zenon DEF SInv, Crash
<1>2. pc'[p] = "killed" /\ \A q \in Compilers \ {p} : pc'[q] = pc[q] /\ job'[q] = job[q]
  BY <1>1, Zenon DEF JobTypes, Crash, Goto
<1>3. /\ EntriesWhole' /\ \A q \in Compilers \ {p} : Apart(q)
      /\ \A n : ~Same(fs', Temp(p), n) /\ ~Same(fs', Dst(p), n)
  BY <1>1, DropApart DEF Own
<1>4. Private(p)' /\ Whole(p)'
  BY <1>2, <1>3, Zenon DEF Private, Whole, Done
<1> QED
  BY <1>2, <1>3, <1>4, DataOf, Zenon

\* The steps that work on p's own files, one by one.
LEMMA DataFetchCopy ==
  ASSUME SInv, SInv', DInv, NEW p \in Compilers, pc[p] = "fetch", FetchCopy(p)
  PROVE  DInv'
<1> DEFINE E == Entry(job[p].v)
           A == Alias(fs, Src(p), E)
<1>1. /\ FileSystem(fs) /\ ~Exists(fs, Src(p)) /\ ~Exists(fs, Dst(p)) /\ ~Exists(fs, Out(p))
      /\ Exists(fs, E) /\ fs' = OpenToWrite(A, Out(p), Dst(p)) /\ FileSystem(fs')
  BY Zenon DEF SInv, Named, FetchCopy, Cached
<1>2. /\ Src(p) \in Names /\ Out(p) \in Names /\ Dst(p) \in Names
      /\ Src(p) # E /\ Src(p) # Dst(p) /\ Out(p) # Dst(p) /\ Src(p) # Out(p)
  BY NamesAre, NamesDiffer, Zenon
<1>3. Holds(fs, E, job[p].v) /\ job[p].v \in Versions
  BY <1>1, SameRelation DEF DInv, EntriesWhole, SInv, JobTypes
<1> HIDE DEF E
<1>4. /\ FileSystem(A)
      /\ \A d : Holds(A, Src(p), d) <=> Holds(fs, E, d)
      /\ \A x, d : x # Src(p) => (Holds(A, x, d) <=> Holds(fs, x, d))
      /\ \A x : x # Src(p) => (Same(A, Src(p), x) <=> Same(fs, E, x))
      /\ \A x, y : x # Src(p) /\ y # Src(p) => (Same(A, x, y) <=> Same(fs, x, y))
      /\ ~Exists(A, Out(p)) /\ ~Exists(A, Dst(p))
  BY <1>1, <1>2, AliasFacts, Zenon
<1> HIDE DEF A
<1>5. /\ \A x : ~Same(A, Out(p), x)
      /\ \A x, d : x \notin {Out(p), Dst(p)} => (Holds(fs', x, d) <=> Holds(A, x, d))
      /\ \A x, y : x \notin {Out(p), Dst(p)} /\ y \notin {Out(p), Dst(p)}
                     => (Same(fs', x, y) <=> Same(A, x, y))
      /\ Same(fs', Dst(p), Out(p))
      /\ \A x : x \notin {Out(p), Dst(p)} => ~Same(fs', Out(p), x) /\ ~Same(fs', Dst(p), x)
  BY <1>1, <1>2, <1>4, OpenFacts, SameRelation
<1>6. pc'[p] = "write" /\ job' = job /\ \A q \in Compilers \ {p} : pc'[q] = pc[q]
  BY Zenon DEF SInv, JobTypes, FetchCopy, Goto
<1>7. EntriesWhole'
  BY <1>4, <1>5, NamesDiffer, Zenon DEF DInv, EntriesWhole
<1>8. ~Exists(fs', Temp(p))
  BY <1>6, Zenon DEF SInv, Named
<1>9. Private(p)'
  <2>1. \A n : ~Same(fs', Temp(p), n)
    BY <1>1, <1>8, SameRelation, Zenon
  <2>2. \A n : Same(fs', Dst(p), n) => n \in {Out(p), Dst(p)}
    BY <1>5, Zenon
  <2> QED
    BY <1>5, <1>6, <1>8, <2>1, <2>2, Zenon DEF Private
<1>10. Whole(p)'
  BY <1>2, <1>3, <1>4, <1>5, <1>6, Zenon DEF Whole, Done
<1>11. ASSUME NEW q \in Compilers \ {p} PROVE Apart(q)
  <2>1. \A x \in Own(q) : x \notin Own(p)
    BY NamesDiffer, Zenon DEF Own
  <2>2. \A n, m : Same(fs', n, m) => Same(fs', m, n)
    BY <1>1, SameRelation, Zenon
  <2>3. \A n, m : Same(A, n, m) => Same(A, m, n)
    BY <1>4, SameRelation, Zenon
  <2>4. \A n, m : Same(fs, n, m) => Same(fs, m, n)
    BY <1>1, SameRelation, Zenon
  <2>5. \A x \in Own(q) : x \notin {Out(p), Dst(p), Src(p)}
    BY <2>1, Zenon DEF Own
  <2>6. ASSUME NEW x \in Own(q), NEW y, Same(fs', x, y) PROVE Same(fs, x, y) \/ Same(fs, x, E)
    BY <1>4, <1>5, <2>2, <2>3, <2>4, <2>5, <2>6
  <2>7. E \notin Own(q)
    BY NamesDiffer, Zenon DEF Own, E
  <2> QED
    BY <1>4, <1>5, <2>5, <2>6, <2>7, Zenon DEF Apart
<1> QED
  BY <1>6, <1>7, <1>9, <1>10, <1>11, DataOf, Zenon

\* recoverObjectFile links the output to the entry.
LEMMA DataFetchLink ==
  ASSUME SInv, SInv', DInv, NEW p \in Compilers, pc[p] = "fetch", FetchLink(p)
  PROVE  DInv'
<1> DEFINE E == Entry(job[p].v)
<1>1. /\ FileSystem(fs) /\ ~Exists(fs, Out(p)) /\ Exists(fs, E) /\ fs' = Alias(fs, Out(p), E) /\ FileSystem(fs')
  BY Zenon DEF SInv, Named, FetchLink, Cached
<1>2. Out(p) \in Names /\ Out(p) # E
  BY NamesAre, NamesDiffer, Zenon
<1>3. Holds(fs, E, job[p].v)
  BY <1>1, SameRelation DEF DInv, EntriesWhole, SInv, JobTypes
<1> HIDE DEF E
<1>4. /\ \A d : Holds(fs', Out(p), d) <=> Holds(fs, E, d)
      /\ \A x, d : x # Out(p) => (Holds(fs', x, d) <=> Holds(fs, x, d))
      /\ \A x : x # Out(p) => (Same(fs', Out(p), x) <=> Same(fs, E, x))
      /\ \A x, y : x # Out(p) /\ y # Out(p) => (Same(fs', x, y) <=> Same(fs, x, y))
  BY <1>1, <1>2, AliasFacts, Zenon
<1>5. pc'[p] = "touch" /\ job' = job /\ \A q \in Compilers \ {p} : pc'[q] = pc[q]
  BY Zenon DEF SInv, JobTypes, FetchLink, Goto
<1>6. EntriesWhole'
  BY <1>4, NamesDiffer, Zenon DEF DInv, EntriesWhole
<1>7. ~Exists(fs', Temp(p)) /\ ~Exists(fs', Dst(p))
  BY <1>5, Zenon DEF SInv, Named
<1>8. Private(p)'
  BY <1>1, <1>5, <1>7, SameRelation, Zenon DEF Private
<1>9. Whole(p)'
  BY <1>3, <1>4, <1>5, Zenon DEF Whole, Done
<1>10. ASSUME NEW q \in Compilers \ {p} PROVE Apart(q)
  <2>1. \A x \in Own(q) : x # Out(p)
    BY NamesDiffer, Zenon DEF Own
  <2>2. \A n, m : Same(fs', n, m) => Same(fs', m, n)
    BY <1>1, SameRelation, Zenon
  <2>3. \A n, m : Same(fs, n, m) => Same(fs, m, n)
    BY <1>1, SameRelation, Zenon
  <2>4. ASSUME NEW x \in Own(q), NEW y, Same(fs', x, y) PROVE Same(fs, x, y) \/ Same(fs, x, E)
    BY <1>4, <2>1, <2>2, <2>3, <2>4, Zenon
  <2>5. E \notin Own(q)
    BY NamesDiffer, Zenon DEF Own, E
  <2> QED
    BY <1>4, <2>1, <2>4, <2>5, Zenon DEF Apart
<1> QED
  BY <1>5, <1>6, <1>8, <1>9, <1>10, DataOf, Zenon

\* After p has written d through Dst(p) and closed the descriptors S, the entries
\* and the other compilers' files are as before, and what shares the file holds d;
Written(p, d, S) ==
  /\ EntriesWhole' /\ \A q \in Compilers \ {p} : Apart(q)
  /\ \A n : n \notin S /\ Same(fs, Dst(p), n) => Holds(fs', n, d)
  /\ \A n, e : n \notin S /\ ~Same(fs, Dst(p), n) => (Holds(fs', n, e) <=> Holds(fs, n, e))
  /\ \A n, m : Same(fs', n, m) <=> Same(fs, n, m) /\ n \notin S /\ m \notin S

\* for the file behind Dst(p) has no name but p's own.
LEMMA WriteApart ==
  ASSUME SInv, DInv, NEW p \in Compilers, NEW d \in Versions, NEW S, S \subseteq {Src(p), Dst(p)},
         fs' = Drop(Write(fs, Dst(p), d), S)
  PROVE  Written(p, d, S)
<1> USE DEF Written
<1> DEFINE W == Write(fs, Dst(p), d)
<1>1. /\ FileSystem(W)
      /\ \A x, e : Same(fs, Dst(p), x) => (Holds(W, x, e) <=> e = d)
      /\ \A x, e : ~Same(fs, Dst(p), x) => (Holds(W, x, e) <=> Holds(fs, x, e))
      /\ \A x, y : Same(W, x, y) <=> Same(fs, x, y)
  BY WriteFacts, Zenon DEF SInv
<1>w. fs' = Drop(W, S)
  BY Zenon
<1> HIDE DEF W
<1>2. /\ \A n, e : Holds(fs', n, e) <=> Holds(W, n, e) /\ n \notin S
      /\ \A n, m : Same(fs', n, m) <=> Same(W, n, m) /\ n \notin S /\ m \notin S
  BY <1>1, <1>w, DropFacts
<1>3. \A n : Same(fs, Dst(p), n) => n \in {Dst(p), Out(p), Temp(p)}
  BY Zenon DEF DInv, Private
<1>4. EntriesWhole'
  BY <1>1, <1>2, <1>3, NamesDiffer DEF DInv, EntriesWhole
<1>5. ASSUME NEW q \in Compilers \ {p} PROVE Apart(q)
  <2>1. \A x \in Own(q) : x \notin S /\ ~Same(fs, Dst(p), x)
    BY <1>3, NamesDiffer DEF Own
  <2> QED
    BY <1>1, <1>2, <2>1, Zenon DEF Apart
<1> QED
  BY <1>1, <1>2, <1>4, <1>5, Zenon

\* copy_file writes what it read: the object for p's module, into the output or
\* into the temporary file.
LEMMA DataCopied ==
  ASSUME SInv, SInv', DInv, NEW p \in Compilers, FetchWrite(p) \/ StoreWrite(p)
  PROVE  DInv'
<1>1. /\ JobTypes /\ Named(p) /\ Private(p) /\ Whole(p) /\ FileSystem(fs) /\ FileSystem(fs')
      /\ Copied(p) /\ pc[p] \in {"write", "stored"} /\ job' = job
      /\ job[p].v \in Versions
  BY Zenon DEF SInv, DInv, JobTypes, FetchWrite, StoreWrite
<1>2. /\ (pc[p] = "write" /\ pc'[p] = "touch") \/ (pc[p] = "stored" /\ pc'[p] = "rename")
      /\ \A q \in Compilers \ {p} : pc'[q] = pc[q]
  BY <1>1, Zenon DEF JobTypes, FetchWrite, StoreWrite, Goto
<1>3. fs' = Drop(Write(fs, Dst(p), job[p].v), {Src(p), Dst(p)})
  <2>1. PICK f \in fs : Src(p) \in f.names /\ fs' = Drop(Write(fs, Dst(p), f.data), {Src(p), Dst(p)})
    BY <1>1, Zenon DEF Copied
  <2>2. Holds(fs, Src(p), f.data) /\ Holds(fs, Src(p), job[p].v)
    BY <1>1, <2>1, Zenon DEF Whole, Holds
  <2> QED
    BY <1>1, <2>1, <2>2, HoldsOne, Zenon
<1>4. /\ EntriesWhole' /\ \A q \in Compilers \ {p} : Apart(q)
      /\ \A n : n \notin {Src(p), Dst(p)} /\ Same(fs, Dst(p), n) => Holds(fs', n, job[p].v)
      /\ \A n, e : n \notin {Src(p), Dst(p)} /\ ~Same(fs, Dst(p), n) => (Holds(fs', n, e) <=> Holds(fs, n, e))
      /\ \A n, m : Same(fs', n, m) <=> Same(fs, n, m) /\ n \notin {Src(p), Dst(p)} /\ m \notin {Src(p), Dst(p)}
  <2>1. Written(p, job[p].v, {Src(p), Dst(p)})
    BY <1>1, <1>3, WriteApart, Zenon
  <2> QED
    BY <2>1, Zenon DEF Written
<1>5. Private(p)'
  BY <1>1, <1>2, <1>4, Zenon DEF Private
<1>6. /\ Out(p) \notin {Src(p), Dst(p)} /\ Temp(p) \notin {Src(p), Dst(p)} /\ Out(p) # Temp(p)
  BY NamesDiffer, Zenon
<1>7. CASE pc[p] = "write"
  <2>1. Holds(fs', Out(p), job[p].v)
    BY <1>1, <1>4, <1>6, <1>7, Zenon DEF Private
  <2> QED
    BY <1>1, <1>2, <1>4, <1>5, <1>7, <2>1, DataOf, Zenon DEF Whole, Done
<1>8. CASE pc[p] = "stored"
  <2>1. ~Same(fs, Dst(p), Out(p))
    BY <1>1, <1>6, <1>8, Zenon DEF Private
  <2>2. Holds(fs', Out(p), job[p].v)
    BY <1>1, <1>4, <1>6, <1>8, <2>1, Zenon DEF Whole
  <2>3. ASSUME Exists(fs', Temp(p)) PROVE Holds(fs', Temp(p), job[p].v)
    <3>1. Same(fs', Temp(p), Temp(p))
      BY <1>1, <2>3, SameRelation, Zenon
    <3>2. Exists(fs, Temp(p))
      BY <1>1, <1>4, <3>1, SameRelation, Zenon
    <3> QED
      BY <1>1, <1>4, <1>6, <1>8, <3>2, Zenon DEF Private
  <2> QED
    BY <1>1, <1>2, <1>4, <1>5, <1>8, <2>2, <2>3, DataOf, Zenon DEF Whole, Done
<1> QED
  BY <1>1, <1>7, <1>8, Zenon

\* writeObjectFile writes the object into the output.
LEMMA DataEmit ==
  ASSUME SInv, SInv', DInv, NEW p \in Compilers, Emit(p)
  PROVE  DInv'
<1>1. /\ JobTypes /\ Private(p) /\ pc[p] = "emit" /\ job[p].v \in Versions
      /\ fs' = Drop(Write(fs, Dst(p), job[p].v), {Dst(p)})
  BY Zenon DEF SInv, DInv, JobTypes, Emit
<1>2. pc'[p] = "mktemp" /\ job' = job /\ \A q \in Compilers \ {p} : pc'[q] = pc[q]
  BY <1>1, Zenon DEF JobTypes, Emit, Goto
<1>3. /\ EntriesWhole' /\ \A q \in Compilers \ {p} : Apart(q)
      /\ \A n : n \notin {Dst(p)} /\ Same(fs, Dst(p), n) => Holds(fs', n, job[p].v)
      /\ \A n, m : Same(fs', n, m) <=> Same(fs, n, m) /\ n \notin {Dst(p)} /\ m \notin {Dst(p)}
  <2>1. Written(p, job[p].v, {Dst(p)})
    BY <1>1, WriteApart, Zenon
  <2> QED
    BY <2>1, Zenon DEF Written
<1>4. Private(p)'
  BY <1>1, <1>2, <1>3, Zenon DEF Private
<1>5. Whole(p)'
  BY <1>1, <1>2, <1>3, NamesDiffer, Zenon DEF Private, Whole, Done
<1> QED
  BY <1>2, <1>3, <1>4, <1>5, DataOf, Zenon

\* recoverObjectFile removes the old output; an entry it was linked to stays.
LEMMA DataRemoveOutput ==
  ASSUME SInv, SInv', DInv, NEW p \in Compilers, RemoveOutput(p)
  PROVE  DInv'
<1>1. JobTypes /\ Private(p) /\ fs' = Drop(fs, {Out(p)})
  BY Zenon DEF SInv, DInv, RemoveOutput
<1>2. pc[p] = "unlink" /\ pc'[p] = "fetch" /\ job' = job /\ \A q \in Compilers \ {p} : pc'[q] = pc[q]
  BY <1>1, Zenon DEF JobTypes, RemoveOutput, Goto
<1>3. /\ EntriesWhole' /\ \A q \in Compilers \ {p} : Apart(q)
      /\ \A n, m : Same(fs', n, m) => Same(fs, n, m)
  BY <1>1, DropApart, Zenon DEF Own
<1>4. Private(p)' /\ Whole(p)'
  BY <1>1, <1>2, <1>3, Zenon DEF Private, Whole, Done
<1> QED
  BY <1>2, <1>3, <1>4, DataOf, Zenon

\* writeObjectFile truncates the output, a file that has no other name.
LEMMA DataOpenOutput ==
  ASSUME SInv, SInv', DInv, NEW p \in Compilers, OpenOutput(p)
  PROVE  DInv'
<1>1. /\ JobTypes /\ Private(p) /\ FileSystem(fs) /\ FileSystem(fs') /\ pc[p] = "open"
      /\ ~Exists(fs, Dst(p)) /\ fs' = OpenToWrite(fs, Out(p), Dst(p))
  BY Zenon DEF SInv, DInv, Named, OpenOutput
<1>2. Out(p) \in Names /\ Dst(p) \in Names /\ Out(p) # Dst(p)
  BY NamesAre, NamesDiffer, Zenon
<1>3. \A x : Same(fs, Out(p), x) => x = Out(p)
  BY <1>1, Zenon DEF Private
<1>4. /\ \A x, e : x \notin {Out(p), Dst(p)} => (Holds(fs', x, e) <=> Holds(fs, x, e))
      /\ \A x, y : x \notin {Out(p), Dst(p)} /\ y \notin {Out(p), Dst(p)}
                     => (Same(fs', x, y) <=> Same(fs, x, y))
      /\ Same(fs', Dst(p), Out(p))
      /\ \A x : x \notin {Out(p), Dst(p)} => ~Same(fs', Out(p), x) /\ ~Same(fs', Dst(p), x)
  BY <1>1, <1>2, <1>3, OpenFacts
<1>5. pc'[p] = "emit" /\ job' = job /\ \A q \in Compilers \ {p} : pc'[q] = pc[q]
  BY <1>1, Zenon DEF JobTypes, OpenOutput, Goto
<1>6. EntriesWhole'
  BY <1>4, NamesDiffer, Zenon DEF DInv, EntriesWhole
<1>7. ~Exists(fs', Temp(p))
  BY <1>5, Zenon DEF SInv, Named
<1>8. Private(p)' /\ Whole(p)'
  BY <1>1, <1>4, <1>5, <1>7, SameRelation, Zenon DEF Private, Whole, Done
<1>9. ASSUME NEW q \in Compilers \ {p} PROVE Apart(q)
  <2>1. \A x \in Own(q) : x \notin {Out(p), Dst(p)}
    BY NamesDiffer, Zenon DEF Own
  <2>2. \A n, m : Same(fs', n, m) => Same(fs', m, n)
    BY <1>1, SameRelation, Zenon
  <2> QED
    BY <1>4, <2>1, <2>2 DEF Apart
<1> QED
  BY <1>5, <1>6, <1>8, <1>9, DataOf, Zenon

\* cacheObjectFile creates its temporary file.
LEMMA DataCreateTemp ==
  ASSUME SInv, SInv', DInv, NEW p \in Compilers, CreateTemp(p)
  PROVE  DInv'
<1>1. /\ JobTypes /\ Private(p) /\ Whole(p) /\ FileSystem(fs) /\ FileSystem(fs') /\ pc[p] = "mktemp"
      /\ ~Exists(fs, Temp(p)) /\ fs' = New(fs, Temp(p)) /\ Temp(p) \in Names
  BY NamesAre, Zenon DEF SInv, DInv, Named, CreateTemp, New
<1>2. pc'[p] = "store" /\ job' = job /\ \A q \in Compilers \ {p} : pc'[q] = pc[q]
  BY <1>1, Zenon DEF JobTypes, CreateTemp, Goto
<1>3. /\ \A x, d : x # Temp(p) => (Holds(fs', x, d) <=> Holds(fs, x, d))
      /\ \A x : Same(fs', Temp(p), x) <=> x = Temp(p)
      /\ \A x, y : x # Temp(p) => (Same(fs', x, y) <=> Same(fs, x, y))
  BY <1>1, NewFacts
<1>4. EntriesWhole'
  BY <1>3, NamesDiffer, Zenon DEF DInv, EntriesWhole
<1>5. ~Exists(fs', Dst(p))
  BY <1>2, Zenon DEF SInv, Named
<1>6. Private(p)'
  BY <1>1, <1>2, <1>3, <1>5, SameRelation, Zenon DEF Private
<1>7. Whole(p)'
  BY <1>1, <1>2, <1>3, NamesDiffer, Zenon DEF Whole, Done
<1>8. ASSUME NEW q \in Compilers \ {p} PROVE Apart(q)
  <2>1. \A x \in Own(q) : x # Temp(p)
    BY NamesDiffer, Zenon DEF Own
  <2> QED
    BY <1>3, <2>1, Zenon DEF Apart
<1> QED
  BY <1>2, <1>4, <1>6, <1>7, <1>8, DataOf, Zenon

\* cacheObjectFile opens the output for reading and its temporary file for
\* writing; the latter is created again if a pruner has removed it.
LEMMA DataStoreOpen ==
  ASSUME SInv, SInv', DInv, NEW p \in Compilers, StoreOpen(p)
  PROVE  DInv'
<1> DEFINE A == Alias(fs, Src(p), Out(p))
<1>1. /\ JobTypes /\ Private(p) /\ Whole(p) /\ pc[p] = "store"
      /\ FileSystem(fs) /\ ~Exists(fs, Src(p)) /\ ~Exists(fs, Dst(p)) /\ Exists(fs, Out(p))
      /\ fs' = OpenToWrite(A, Temp(p), Dst(p)) /\ FileSystem(fs')
  BY Zenon DEF SInv, DInv, Named, StoreOpen
<1>2. /\ Src(p) \in Names /\ Temp(p) \in Names /\ Dst(p) \in Names
      /\ Src(p) # Out(p) /\ Src(p) # Dst(p) /\ Temp(p) # Dst(p) /\ Src(p) # Temp(p)
      /\ Out(p) # Temp(p) /\ Out(p) # Dst(p)
  BY NamesAre, NamesDiffer, Zenon
<1>3. /\ FileSystem(A)
      /\ \A d : Holds(A, Src(p), d) <=> Holds(fs, Out(p), d)
      /\ \A x, d : x # Src(p) => (Holds(A, x, d) <=> Holds(fs, x, d))
      /\ \A x : x # Src(p) => (Same(A, Src(p), x) <=> Same(fs, Out(p), x))
      /\ \A x, y : x # Src(p) /\ y # Src(p) => (Same(A, x, y) <=> Same(fs, x, y))
      /\ ~Exists(A, Dst(p))
  BY <1>1, <1>2, AliasFacts, Zenon
<1> HIDE DEF A
<1>4. \A x : Same(fs, Temp(p), x) => x = Temp(p)
  BY <1>1, SameRelation DEF Private
<1>5. \A x : Same(A, Temp(p), x) => x = Temp(p)
  <2>1. ~Same(A, Src(p), Temp(p))
    BY <1>1, <1>2, <1>3, <1>4, SameRelation, Zenon
  <2>2. ~Same(A, Temp(p), Src(p))
    BY <1>3, <2>1, SameRelation, Zenon
  <2> QED
    BY <1>2, <1>3, <1>4, <2>2, Zenon
<1>6. /\ \A x, d : x \notin {Temp(p), Dst(p)} => (Holds(fs', x, d) <=> Holds(A, x, d))
      /\ \A x, y : x \notin {Temp(p), Dst(p)} /\ y \notin {Temp(p), Dst(p)}
                     => (Same(fs', x, y) <=> Same(A, x, y))
      /\ Same(fs', Dst(p), Temp(p))
      /\ \A x : x \notin {Temp(p), Dst(p)} => ~Same(fs', Temp(p), x) /\ ~Same(fs', Dst(p), x)
  BY <1>1, <1>2, <1>3, <1>5, OpenFacts
<1>7. pc'[p] = "stored" /\ job' = job /\ \A q \in Compilers \ {p} : pc'[q] = pc[q]
  BY <1>1, Zenon DEF JobTypes, StoreOpen, Goto
<1>8. EntriesWhole'
  BY <1>3, <1>6, NamesDiffer, Zenon DEF DInv, EntriesWhole
<1>9. Private(p)'
  BY <1>6, <1>7, Zenon DEF Private
<1>10. Whole(p)'
  BY <1>1, <1>2, <1>3, <1>6, <1>7, Zenon DEF Whole, Done
<1>11. ASSUME NEW q \in Compilers \ {p} PROVE Apart(q)
  <2>1. /\ \A x \in Own(q) : x \notin {Temp(p), Dst(p), Src(p), Out(p)}
        /\ Out(p) \notin Own(q)
    BY NamesDiffer, Zenon DEF Own
  <2>2. \A n, m : Same(fs', n, m) => Same(fs', m, n)
    BY <1>1, SameRelation, Zenon
  <2>3. \A n, m : Same(A, n, m) => Same(A, m, n)
    BY <1>3, SameRelation, Zenon
  <2>4. \A n, m : Same(fs, n, m) => Same(fs, m, n)
    BY <1>1, SameRelation, Zenon
  <2>5. ASSUME NEW x \in Own(q), NEW y, Same(fs', x, y)
        PROVE  Same(fs, x, y) \/ Same(fs, x, Out(p))
    BY <1>3, <1>6, <2>1, <2>2, <2>3, <2>4, <2>5
  <2> QED
    BY <1>3, <1>6, <2>1, <2>5, Zenon DEF Apart
<1> QED
  BY <1>7, <1>8, <1>9, <1>10, <1>11, DataOf, Zenon

\* cacheObjectFile renames the temporary file, by now whole, to the entry.
LEMMA DataRename ==
  ASSUME SInv, SInv', DInv, NEW p \in Compilers, pc[p] = "rename", Exists(fs, Temp(p)),
         fs' = Renamed(fs, Temp(p), Entry(job[p].v)), Goto(p, "prune"), UNCHANGED job
  PROVE  DInv'
<1> DEFINE E == Entry(job[p].v)
<1>1. /\ JobTypes /\ Private(p) /\ Whole(p) /\ FileSystem(fs) /\ FileSystem(fs')
      /\ ~Exists(fs, Dst(p)) /\ job[p].v \in Versions
  BY Zenon DEF SInv, DInv, Named, JobTypes
<1>2. /\ E \in Names /\ Temp(p) # E /\ Out(p) # E /\ Out(p) # Temp(p)
  BY <1>1, NamesAre, NamesDiffer, Zenon
<1>e. fs' = Renamed(fs, Temp(p), E)
  BY Zenon
<1>v. \A v \in Versions : Entry(v) = E => v = job[p].v
  BY NamesDiffer, Zenon
<1>n. \A v : Entry(v) # Temp(p)
  BY NamesDiffer, Zenon
<1>o. \A q \in Compilers \ {p} : \A x \in Own(q) : x \notin {Temp(p), E, Dst(p)}
  BY NamesDiffer, Zenon DEF Own
<1> HIDE DEF E
<1>3. /\ ~Exists(fs', Temp(p))
      /\ \A e : Holds(fs', E, e) <=> Holds(fs, Temp(p), e)
      /\ \A x, e : x \notin {Temp(p), E} => (Holds(fs', x, e) <=> Holds(fs, x, e))
      /\ \A x : x \notin {Temp(p), E} => (Same(fs', E, x) <=> Same(fs, Temp(p), x))
      /\ \A x, y : x \notin {Temp(p), E} /\ y \notin {Temp(p), E}
                     => (Same(fs', x, y) <=> Same(fs, x, y))
  <2>1. Moved(fs, fs', Temp(p), E)
    BY <1>1, <1>2, <1>e, RenameFacts, Zenon
  <2> QED
    BY <2>1, Zenon DEF Moved
<1>4. pc'[p] = "prune" /\ job' = job /\ \A q \in Compilers \ {p} : pc'[q] = pc[q]
  BY <1>1, Zenon DEF JobTypes, Goto
<1>5. Holds(fs, Temp(p), job[p].v) /\ Holds(fs, Out(p), job[p].v)
  BY <1>1, Zenon DEF Whole
<1>6. \A e : Holds(fs', E, e) => e = job[p].v
  BY <1>1, <1>3, <1>5, HoldsOne, Zenon
<1>7. EntriesWhole'
  <2> SUFFICES ASSUME NEW v \in Versions, NEW d, Holds(fs', Entry(v), d) PROVE d = v
    BY Zenon DEF EntriesWhole
  <2>1. CASE Entry(v) = E
    BY <1>6, <1>v, <2>1, Zenon
  <2>2. CASE Entry(v) # E
    BY <1>3, <1>n, <2>2, Zenon DEF DInv, EntriesWhole
  <2> QED
    BY <2>1, <2>2, Zenon
<1>8. ~Exists(fs', Dst(p))
  BY <1>4, Zenon DEF SInv, Named
<1>9. Private(p)'
  <2>1. \A n : ~Same(fs', Temp(p), n) /\ ~Same(fs', Dst(p), n)
    BY <1>1, <1>3, <1>8, SameRelation, Zenon
  <2> QED
    BY <1>4, <1>8, <2>1, Zenon DEF Private
<1>10. Whole(p)'
  BY <1>2, <1>3, <1>4, <1>5, Zenon DEF Whole, Done
<1>11. ASSUME NEW q \in Compilers \ {p} PROVE Apart(q)
  <2>1. \A n, m : Same(fs', n, m) => Same(fs', m, n) /\ Exists(fs', m)
    BY <1>1, SameRelation, Zenon
  <2>2. \A x \in Own(q) : x \notin {Temp(p), E, Dst(p)}
    BY <1>o, Zenon
  <2>3. \A x \in Own(q) : ~Same(fs', x, E) /\ ~Same(fs', x, Temp(p))
    BY <1>1, <1>3, <2>1, <2>2, Zenon DEF Private
  <2> QED
    BY <1>3, <2>2, <2>3, Zenon DEF Apart
<1> QED
  BY <1>4, <1>7, <1>9, <1>10, <1>11, DataOf, Zenon

\* All the steps that work on p's own files.
LEMMA DataWork ==
  ASSUME SInv, SInv', DInv, NEW p \in Compilers, Work(p)
  PROVE  DInv'
<1>1. CASE pc[p] = "rename" /\ Exists(fs, Temp(p)) /\ Rename(p)
  BY <1>1, DataRename, Zenon DEF Rename
<1>2. CASE FetchWrite(p) \/ StoreWrite(p)
  BY <1>2, DataCopied, Zenon
<1>3. CASE pc[p] = "fetch" /\ (FetchCopy(p) \/ FetchLink(p))
  BY <1>3, DataFetchCopy, DataFetchLink, Zenon
<1>4. CASE RemoveOutput(p) \/ OpenOutput(p)
  BY <1>4, DataRemoveOutput, DataOpenOutput, Zenon
<1>5. CASE Emit(p) \/ CreateTemp(p)
  BY <1>5, DataEmit, DataCreateTemp, Zenon
<1>6. CASE StoreOpen(p)
  BY <1>6, DataStoreOpen, Zenon
<1> QED
  BY <1>1, <1>2, <1>3, <1>4, <1>5, <1>6, Zenon DEF Work

\* DInv is inductive relative to SInv.
LEMMA DataStep ==
  ASSUME ~LinksKept
  PROVE  SInv /\ DInv /\ [Next]_vars => DInv'
<1> SUFFICES ASSUME SInv, DInv, [Next]_vars PROVE DInv'
  BY Zenon
<1>0. SInv'
  BY NamesStep, Zenon
<1>1. ASSUME NEW p \in Compilers, Step(p) PROVE DInv'
  <2>1. CASE Quiet(p)
    BY <1>0, <2>1, DataQuiet, Zenon
  <2>2. CASE Work(p)
    BY <1>0, <2>2, DataWork, Zenon
  <2>3. CASE Prune(p)
    BY <1>0, <2>3, DataPrune, Zenon
  <2>4. ASSUME NEW v \in Versions, NEW m \in Modes, Start(p, v, m) PROVE DInv'
    BY <1>0, <2>4, DataStart, Zenon
  <2> QED
    BY <1>1, <2>1, <2>2, <2>3, <2>4, Kinds, Zenon
<1>2. ASSUME UNCHANGED <<fs, pc, job>> PROVE DInv'
  BY <1>2, Zenon DEF DInv, EntriesWhole, Private, Whole
<1>3. CASE Tick \/ UNCHANGED vars
  BY <1>2, <1>3, Zenon DEF Tick, vars, files
<1>4. ASSUME NEW p \in Compilers, Crash(p) PROVE DInv'
  BY <1>0, <1>4, DataCrash, Zenon
<1> HIDE DEF DInv
<1> QED
  BY <1>1, <1>3, <1>4, Zenon DEF Next

\* The entry a lookup finds is the whole object for its hash, however many
\* compilers share the directory, prune it and are killed (cacheObjectFile), as
\* long as no compiler writes over an object file that is linked to an entry.
THEOREM CacheEntriesWhole ==
  ASSUME ~LinksKept
  PROVE  Spec => []EntriesExact
<1>1. SInv /\ DInv => EntriesExact
  BY SameRelation DEF SInv, DInv, EntriesWhole, EntriesExact, Cached
<1>2. SInv /\ DInv /\ [Next]_vars => DInv'
  BY DataStep, Zenon
<1> QED
  BY <1>1, <1>2, NamesInit, NamesStep, DataInit, PTL DEF Spec

\* The object file of a compiler that has succeeded is the whole object for its
\* module until its next invocation, under the same condition (writeModule).
THEOREM OutputsWhole ==
  ASSUME ~LinksKept
  PROVE  Spec => []OutputExact
<1>1. DInv => OutputExact
  BY Zenon DEF DInv, Whole, OutputExact, Done
<1>2. SInv /\ DInv /\ [Next]_vars => DInv'
  BY DataStep, Zenon
<1> QED
  BY <1>1, <1>2, NamesInit, NamesStep, DataInit, PTL DEF Spec

-----------------------------------------------------------------------------
(* Branch weights.                                                          *)

\* The products b * x and b * y of natural numbers are ordered like x and y.
LEMMA Product ==
  ASSUME NEW b \in Nat, NEW x \in Nat, NEW y \in Nat, x <= y
  PROVE  b * x <= b * y
<1>1. PICK d \in Nat : y = x + d
  <2>1. y - x \in Nat /\ y = x + (y - x)
    OBVIOUS
  <2> QED BY <2>1
<1>2. b * y = b * x + b * d
  BY <1>1
<1>3. b * d \in Nat /\ b * x \in Nat
  OBVIOUS
<1> QED BY <1>2, <1>3

\* What integer division (as in scaleBranchWeight) returns.
LEMMA Division ==
  ASSUME NEW a \in Nat, NEW b \in Nat \ {0}
  PROVE  /\ a \div b \in Nat
         /\ b * (a \div b) <= a
         /\ a < b * (a \div b) + b
OBVIOUS

\* A quotient is smaller than whatever exceeds the dividend when multiplied.
LEMMA Quotient ==
  ASSUME NEW a \in Nat, NEW b \in Nat \ {0}, NEW q \in Nat, a < b * q
  PROVE  a \div b < q
<1> DEFINE d == a \div b
<1>1. d \in Nat /\ b * d <= a
  BY Division
<1>2. ASSUME q <= d PROVE FALSE
  <2>1. b * q <= b * d
    BY <1>1, <1>2, Product
  <2>2. b * q \in Nat /\ b * d \in Nat
    BY <1>1
  <2> QED BY <1>1, <2>1, <2>2
<1> QED BY <1>1, <1>2

\* Dividing keeps the order.
LEMMA DivisionMonotone ==
  ASSUME NEW a \in Nat, NEW c \in Nat, a <= c, NEW b \in Nat \ {0}
  PROVE  a \div b <= c \div b
<1> DEFINE d == c \div b
<1>1. d \in Nat /\ c < b * d + b
  BY Division
<1>2. b * (d + 1) = b * d + b /\ b * d \in Nat
  BY <1>1
<1>3. a \div b < d + 1
  BY <1>1, <1>2, Quotient
<1>4. a \div b \in Nat
  BY Division
<1> QED BY <1>1, <1>3, <1>4

\* calculateWeightScale and scaleBranchWeight: no weight exceeds UINT32_MAX,
\* which is what the assertion in scaleBranchWeight ("overflow 32-bits") says.
THEOREM ScaledFits ==
  ASSUME NEW MaxWeight \in Nat, NEW Weight \in Nat, Weight <= MaxWeight
  PROVE  /\ calculateWeightScale(MaxWeight) \in Nat \ {0}
         /\ scaleBranchWeight(Weight, calculateWeightScale(MaxWeight)) \in 1..UINT32_MAX
<1> USE WidthAssumption
<1>1. CASE MaxWeight < UINT32_MAX
  <2>1. Weight \div 1 = Weight
    OBVIOUS
  <2> QED BY <1>1, <2>1 DEF calculateWeightScale, scaleBranchWeight
<1>2. CASE ~(MaxWeight < UINT32_MAX)
  <2> DEFINE q == MaxWeight \div UINT32_MAX
             s == q + 1
  <2>1. q \in Nat /\ MaxWeight < UINT32_MAX * q + UINT32_MAX
    BY Division
  <2>2. UINT32_MAX * q + UINT32_MAX = s * UINT32_MAX
    BY <2>1
  <2>3. s \in Nat \ {0} /\ s * UINT32_MAX \in Nat
    BY <2>1
  <2>4. Weight < s * UINT32_MAX
    BY <2>1, <2>2, <2>3
  <2>5. Weight \div s < UINT32_MAX
    BY <2>3, <2>4, Quotient
  <2>6. Weight \div s \in Nat
    BY <2>3, Division
  <2>7. calculateWeightScale(MaxWeight) = s
    BY <1>2 DEF calculateWeightScale
  <2> HIDE DEF s
  <2> QED BY <2>3, <2>5, <2>6, <2>7 DEF scaleBranchWeight
<1> QED BY <1>1, <1>2

\* Of the counts of a branch (a non-empty sequence of uint64_t) one is the
\* greatest, so that std::max_element and MaxCount agree.
LEMMA MaxCountIsMax ==
  ASSUME NEW Counts \in Seq(uint64_t), Counts # <<>>
  PROVE  /\ MaxCount(Counts) \in uint64_t
         /\ \A i \in DOMAIN Counts : Counts[i] <= MaxCount(Counts)
<1> USE WidthAssumption
<1> DEFINE C == {Counts[i] : i \in DOMAIN Counts}
           T == {UINT64_MAX - c : c \in C}
<1>1. C \subseteq uint64_t /\ C # {}
  <2>1. DOMAIN Counts = 1..Len(Counts) /\ Len(Counts) \in Nat \ {0}
    OBVIOUS
  <2>2. 1 \in DOMAIN Counts
    BY <2>1
  <2>3. \A i \in DOMAIN Counts : Counts[i] \in uint64_t
    OBVIOUS
  <2>4. Counts[1] \in C
    BY <2>2
  <2> QED BY <2>3, <2>4
<1>2. T \subseteq Nat /\ T # {}
  BY <1>1 DEF uint64_t
<1>3. PICK t \in T : \A u \in T : ~(<<u, t>> \in OpToRel(<, Nat))
  BY <1>2, NatLessThanWellFounded, WFMin, Zenon
<1>4. \A u \in T : ~(u < t)
  BY <1>2, <1>3, Zenon DEF OpToRel
<1>5. PICK w \in C : t = UINT64_MAX - w
  OBVIOUS
<1>6. \A c \in C : c <= w
  <2> SUFFICES ASSUME NEW c \in C PROVE c <= w
    OBVIOUS
  <2>1. ~(UINT64_MAX - c < UINT64_MAX - w)
    BY <1>4, <1>5
  <2> QED BY <1>1, <2>1 DEF uint64_t
<1>7. w \in C /\ \A i \in DOMAIN Counts : Counts[i] <= w
  BY <1>6
<1>8. MaxCount(Counts) \in C /\ \A i \in DOMAIN Counts : Counts[i] <= MaxCount(Counts)
  BY <1>7 DEF MaxCount
<1> QED BY <1>1, <1>8

\* createProfileWeights, for the counts of any branch: either there are no
\* weights, or each one fits into 32 bits, none is zero (a weight of zero would
\* claim that the target is never reached) and they are ordered like the counts.
THEOREM WeightsFit ==
  ASSUME NEW Counts \in Seq(uint64_t)
  PROVE  \/ createProfileWeights(Counts) = <<>>
         \/ /\ \A i \in DOMAIN Counts : createProfileWeights(Counts)[i] \in 1..UINT32_MAX
            /\ \A i, j \in DOMAIN Counts : Counts[i] <= Counts[j] =>
                 createProfileWeights(Counts)[i] <= createProfileWeights(Counts)[j]
<1> DEFINE Largest == MaxCount(Counts)
           Scale == calculateWeightScale(Largest)
<1> SUFFICES ASSUME ~(Len(Counts) < 2), ~(Largest = 0)
             PROVE  /\ \A i \in DOMAIN Counts : createProfileWeights(Counts)[i] \in 1..UINT32_MAX
                    /\ \A i, j \in DOMAIN Counts : Counts[i] <= Counts[j] =>
                         createProfileWeights(Counts)[i] <= createProfileWeights(Counts)[j]
  BY DEF createProfileWeights
<1>1. Counts # <<>>
  OBVIOUS
<1>2. Largest \in Nat /\ \A i \in DOMAIN Counts : Counts[i] \in Nat /\ Counts[i] <= Largest
  <2>1. \A i \in DOMAIN Counts : Counts[i] \in uint64_t
    OBVIOUS
  <2>2. uint64_t \subseteq Nat
    BY WidthAssumption DEF uint64_t
  <2> QED BY <1>1, <2>1, <2>2, MaxCountIsMax, Zenon
<1>3. \A i \in DOMAIN Counts : createProfileWeights(Counts)[i] = scaleBranchWeight(Counts[i], Scale)
  BY DEF createProfileWeights
<1>4. Scale \in Nat \ {0}
  <2> HIDE DEF Largest
  <2>1. Largest \in Nat /\ Largest <= Largest
    BY <1>2
  <2> QED BY <2>1, ScaledFits, Zenon
<1>5. ASSUME NEW i \in DOMAIN Counts PROVE scaleBranchWeight(Counts[i], Scale) \in 1..UINT32_MAX
  BY <1>2, ScaledFits, Zenon
<1>6. ASSUME NEW i \in DOMAIN Counts, NEW j \in DOMAIN Counts, Counts[i] <= Counts[j]
      PROVE  scaleBranchWeight(Counts[i], Scale) <= scaleBranchWeight(Counts[j], Scale)
  <2> HIDE DEF Scale
  <2>1. Counts[i] \div Scale <= Counts[j] \div Scale
    BY <1>2, <1>4, <1>6, DivisionMonotone
  <2>2. Counts[i] \div Scale \in Nat /\ Counts[j] \div Scale \in Nat
    BY <1>2, <1>4, Division
  <2> QED BY <2>1, <2>2 DEF scaleBranchWeight
<1> HIDE DEF Scale
<1> QED BY <1>3, <1>5, <1>6
=============================================================================
