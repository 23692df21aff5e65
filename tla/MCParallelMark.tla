----------------------------- MODULE MCParallelMark -----------------------------
(***************************************************************************)
(* Heaps of four blocks for ParallelMark.  In the configurations a and b   *)
(* are small, c and d large, c is NO_INTERIOR and d is NO_SCAN.            *)
(***************************************************************************)
EXTENDS ParallelMark, TLC

CONSTANTS a, b, c, d

Base(o) == [obj |-> o, at |-> "base"]
First(o) == [obj |-> o, at |-> "first"]
Later(o) == [obj |-> o, at |-> "later"]

\* The words of a, b, c and d.
Blocks(wa, wb, wc, wd) == (a :> wa) @@ (b :> wb) @@ (c :> wc) @@ (d :> wd)

\* Roots for every thread, and a block that others refer to with more pointers
\* than fit on the stack of mark().
Shared == [roots |-> <<Base(b), Base(c), First(b), null>>,
           words |-> Blocks(<<First(b)>>, <<Base(c), Base(a), Base(d), Base(b)>>, <<First(b), Base(d)>>, <<null>>)]

\* Fewer roots than threads.
Fan == [roots |-> <<Base(a)>>,
        words |-> Blocks(<<Base(b), Base(c), Later(d), null>>, <<Base(c), Base(a)>>, <<null>>, <<null>>)]

\* Interior pointers do not keep c; they do keep d.
Interior == [roots |-> <<Later(c), First(d), Base(a)>>,
             words |-> Blocks(<<First(c), Later(d)>>, <<null>>, <<Base(b)>>, <<Base(b)>>)]

Nothing == [roots |-> <<>>, words |-> Blocks(<<Base(b)>>, <<null>>, <<null>>, <<null>>)]

MCHeaps == {Shared, Fan, Interior, Nothing}

\* A pointer into the first page of c, and then one to its base.
InteriorFirst == [roots |-> <<First(c), Base(c)>>,
                  words |-> Blocks(<<null>>, <<null>>, <<null>>, <<null>>)]

MCInteriorHeaps == {InteriorFirst, Nothing}
=============================================================================
