------------------------------- MODULE RWLock -------------------------------
(***************************************************************************)
(* What a read/write lock promises its callers: any number of readers or   *)
(* one writer.  ReadWriteMutex is shown to implement this specification.   *)
(***************************************************************************)
CONSTANT Threads

VARIABLES
  readers,   \* the threads that hold a read lock
  writers    \* the threads that hold the write lock

Init ==
  /\ readers = {}
  /\ writers = {}

AcquireRead(t) ==
  /\ t \notin readers \cup writers
  /\ writers = {}
  /\ readers' = readers \cup {t}
  /\ UNCHANGED writers

ReleaseRead(t) ==
  /\ t \in readers
  /\ readers' = readers \ {t}
  /\ UNCHANGED writers

AcquireWrite(t) ==
  /\ readers = {}
  /\ writers = {}
  /\ writers' = {t}
  /\ UNCHANGED readers

ReleaseWrite(t) ==
  /\ t \in writers
  /\ writers' = {}
  /\ UNCHANGED readers

Next ==
  \E t \in Threads :
    \/ AcquireRead(t)
    \/ ReleaseRead(t)
    \/ AcquireWrite(t)
    \/ ReleaseWrite(t)

Spec == Init /\ [][Next]_<<readers, writers>>
=============================================================================
