------------------------- MODULE ParallelMarkProofs -------------------------
(***************************************************************************)
(* For any number of scan threads, any heaps and any size of the stack in  *)
(* mark(): threads that have work are awake, markParallel returns only     *)
(* when all is done, and what it has marked is exactly what is reachable.  *)
(*                                                                         *)
(* First come facts about the ranges that marking shares out and about     *)
(* what is reachable, and the inductive invariants; then the steps of a    *)
(* thread that is inside mark() or moves on without touching what there is *)
(* to scan; then the scan stack, the events, starting and stopping.        *)
(***************************************************************************)
EXTENDS ParallelMark, FiniteSetTheorems, TLAPS

-----------------------------------------------------------------------------
(* The words of ranges, and of sequences of ranges.                         *)

WordsOf(r) == {r[i] : i \in DOMAIN r}
AllWords(s) == UNION {WordsOf(s[j]) : j \in DOMAIN s}

(* Scanning takes the first word off a range.                               *)
LEMMA WordsTail ==
  ASSUME NEW r \in ScanRange, r # <<>>
  PROVE  /\ Head(r) \in Ptr \cup {null}
         /\ Tail(r) \in ScanRange
         /\ WordsOf(r) = {Head(r)} \cup WordsOf(Tail(r))
         /\ Len(r) <= 1 => Tail(r) = <<>>
<1>0. /\ Len(r) \in Nat /\ Len(Tail(r)) = Len(r) - 1
      /\ \A i \in 1..Len(Tail(r)) : Tail(r)[i] = r[i + 1]
  BY DEF ScanRange
<1>1. Head(r) \in Ptr \cup {null} /\ Tail(r) \in ScanRange /\ (Len(r) <= 1 => Tail(r) = <<>>)
  BY <1>0 DEF ScanRange
<1>2. ASSUME NEW w \in WordsOf(r) PROVE w \in {Head(r)} \cup WordsOf(Tail(r))
  <2>1. PICK i \in 1..Len(r) : w = r[i]
    BY DEF WordsOf, ScanRange
  <2>2. CASE i = 1
    BY <2>1, <2>2 DEF ScanRange
  <2>3. CASE i # 1
    <3>1. i - 1 \in 1..Len(Tail(r)) /\ Tail(r)[i - 1] = w
      <4>1. i \in Int /\ i - 1 \in 1..Len(Tail(r)) /\ (i - 1) + 1 = i
        BY <1>0, <2>1, <2>3
      <4>2. Tail(r)[i - 1] = r[(i - 1) + 1]
        BY <1>0, <4>1, Zenon
      <4> QED
        BY <2>1, <4>1, <4>2, Zenon
    <3>2. i - 1 \in DOMAIN Tail(r)
      BY <3>1, <1>1 DEF ScanRange
    <3> QED
      BY <3>1, <3>2, Zenon DEF WordsOf
  <2> QED
    BY <2>2, <2>3, Zenon
<1>3. ASSUME NEW w \in {Head(r)} \cup WordsOf(Tail(r)) PROVE w \in WordsOf(r)
  <2>1. CASE w = Head(r)
    BY <2>1 DEF WordsOf, ScanRange
  <2>2. CASE w \in WordsOf(Tail(r))
    <3>1. PICK i \in 1..Len(Tail(r)) : w = Tail(r)[i]
      BY <1>1, <2>2 DEF WordsOf, ScanRange
    <3>2. i + 1 \in 1..Len(r) /\ r[i + 1] = w
      BY <3>1 DEF ScanRange
    <3> QED
      BY <3>2 DEF WordsOf, ScanRange
  <2> QED
    BY <2>1, <2>2, Zenon
<1> QED
  BY <1>1, <1>2, <1>3, Zenon

\* There are no words in no ranges.
LEMMA WordsEmpty == WordsOf(<<>>) = {} /\ AllWords(<<>>) = {}
  BY DEF WordsOf, AllWords

(* w is in one of the ranges of s.                                          *)
LEMMA AllWordsIn ==
  ASSUME NEW s \in Seq(ScanRange), NEW w
  PROVE  w \in AllWords(s) <=> \E j \in 1..Len(s) : w \in WordsOf(s[j])
  BY DEF AllWords

\* Pushing a range adds its words.
LEMMA AllWordsAppend ==
  ASSUME NEW s \in Seq(ScanRange), NEW r \in ScanRange
  PROVE  /\ Append(s, r) \in Seq(ScanRange)
         /\ Append(s, r) # <<>>
         /\ AllWords(Append(s, r)) = AllWords(s) \cup WordsOf(r)
<1>1. /\ Append(s, r) \in Seq(ScanRange)
      /\ Len(Append(s, r)) = Len(s) + 1
      /\ \A j \in 1..Len(s) : Append(s, r)[j] = s[j]
      /\ Append(s, r)[Len(s) + 1] = r
  OBVIOUS
<1>2. ASSUME NEW w PROVE w \in AllWords(Append(s, r)) <=> w \in AllWords(s) \cup WordsOf(r)
  <2>1. w \in AllWords(Append(s, r)) <=> \E j \in 1..Len(s) + 1 : w \in WordsOf(Append(s, r)[j])
    BY <1>1, AllWordsIn, Zenon
  <2>2. w \in AllWords(s) <=> \E j \in 1..Len(s) : w \in WordsOf(s[j])
    BY AllWordsIn, Zenon
  <2>3. \A j : j \in 1..Len(s) + 1 <=> j \in 1..Len(s) \/ j = Len(s) + 1
    OBVIOUS
  <2> QED
    BY <1>1, <2>1, <2>2, <2>3, Zenon
<1>3. Append(s, r) # <<>>
  BY <1>1
<1> QED
  BY <1>1, <1>2, <1>3, Zenon

\* The words of one range.
LEMMA AllWordsOne ==
  ASSUME NEW r \in ScanRange
  PROVE  <<r>> \in Seq(ScanRange) /\ AllWords(<<r>>) = WordsOf(r)
  BY DEF AllWords

(* The last range, and what is before it.                                   *)
LEMMA AllWordsLast ==
  ASSUME NEW s \in Seq(ScanRange), s # <<>>
  PROVE  /\ Top(s) \in ScanRange
         /\ Below(s) \in Seq(ScanRange)
         /\ AllWords(s) = AllWords(Below(s)) \cup WordsOf(Top(s))
         /\ Below(s) = <<>> <=> Len(s) <= 1
<1>1. /\ Len(s) \in Nat /\ Len(s) > 0
      /\ Top(s) = s[Len(s)]
      /\ Top(s) \in ScanRange
  <2>1. Len(s) \in Nat /\ Len(s) > 0
    OBVIOUS
  <2> QED
    BY <2>1 DEF Top
<1>f. /\ Below(s) \in Seq(ScanRange)
      /\ Len(Below(s)) = Len(s) - 1
      /\ \A j \in 1..Len(s) - 1 : Below(s)[j] = s[j]
  BY <1>1 DEF Below
<1>2. ASSUME NEW w PROVE w \in AllWords(s) <=> w \in AllWords(Below(s)) \cup WordsOf(Top(s))
  BY <1>1, <1>f, AllWordsIn
<1> QED
  BY <1>1, <1>f, <1>2

(* Ranges that are pushed in reverse order.                                 *)
LEMMA AllWordsPush ==
  ASSUME NEW s \in Seq(ScanRange), NEW f \in Seq(ScanRange)
  PROVE  /\ s \o Reversed(f) \in Seq(ScanRange)
         /\ AllWords(s \o Reversed(f)) = AllWords(s) \cup AllWords(f)
<1>1. /\ Reversed(f) \in Seq(ScanRange)
      /\ Len(Reversed(f)) = Len(f)
      /\ \A j \in 1..Len(f) : Reversed(f)[j] = f[(Len(f) - j) + 1]
  BY DEF Reversed
<1>2. AllWords(Reversed(f)) = AllWords(f)
  <2>1. ASSUME NEW w \in AllWords(f) PROVE w \in AllWords(Reversed(f))
    <3>1. PICK j \in 1..Len(f) : w \in WordsOf(f[j])
      BY AllWordsIn, Zenon
    <3>2. (Len(f) - j) + 1 \in 1..Len(f) /\ Reversed(f)[(Len(f) - j) + 1] = f[j]
      BY <1>1
    <3> QED
      BY <3>1, <3>2, <1>1, AllWordsIn, Zenon
  <2>2. ASSUME NEW w \in AllWords(Reversed(f)) PROVE w \in AllWords(f)
    <3>1. PICK j \in 1..Len(f) : w \in WordsOf(Reversed(f)[j])
      BY <1>1, AllWordsIn, Zenon
    <3>2. (Len(f) - j) + 1 \in 1..Len(f)
      BY <3>1
    <3> QED
      BY <3>1, <3>2, <1>1, AllWordsIn, Zenon
  <2> QED
    BY <2>1, <2>2, Zenon
<1>3. ASSUME NEW a \in Seq(ScanRange), NEW b \in Seq(ScanRange)
      PROVE  a \o b \in Seq(ScanRange) /\ AllWords(a \o b) = AllWords(a) \cup AllWords(b)
  <2>1. /\ a \o b \in Seq(ScanRange)
        /\ Len(a \o b) = Len(a) + Len(b)
        /\ \A j \in 1..Len(a) : (a \o b)[j] = a[j]
        /\ \A j \in 1..Len(b) : (a \o b)[Len(a) + j] = b[j]
    OBVIOUS
  <2>2. ASSUME NEW w \in AllWords(a \o b) PROVE w \in AllWords(a) \cup AllWords(b)
    <3>1. PICK j \in 1..Len(a) + Len(b) : w \in WordsOf((a \o b)[j])
      BY <2>1, AllWordsIn, Zenon
    <3>2. CASE j <= Len(a)
      BY <3>1, <3>2, <2>1, AllWordsIn
    <3>3. CASE j > Len(a)
      <4>1. j - Len(a) \in 1..Len(b) /\ (a \o b)[j] = b[j - Len(a)]
        BY <3>3, <2>1
      <4> QED
        BY <3>1, <4>1, AllWordsIn, Zenon
    <3> QED
      BY <3>2, <3>3
  <2>3. ASSUME NEW w \in AllWords(a) PROVE w \in AllWords(a \o b)
    <3>1. PICK j \in 1..Len(a) : w \in WordsOf(a[j])
      BY AllWordsIn, Zenon
    <3>2. j \in 1..Len(a \o b)
      BY <2>1
    <3> QED
      BY <3>1, <3>2, <2>1, AllWordsIn, Zenon
  <2>4. ASSUME NEW w \in AllWords(b) PROVE w \in AllWords(a \o b)
    <3>1. PICK j \in 1..Len(b) : w \in WordsOf(b[j])
      BY AllWordsIn, Zenon
    <3>2. Len(a) + j \in 1..Len(a \o b)
      BY <2>1
    <3> QED
      BY <3>1, <3>2, <2>1, AllWordsIn, Zenon
  <2> QED
    BY <2>1, <2>2, <2>3, <2>4, Zenon
<1> QED
  BY <1>1, <1>2, <1>3

-----------------------------------------------------------------------------
(* The roots are shared out completely: every one is in the range of a      *)
(* scan thread or in the one the collecting thread keeps.                   *)

LEMMA Quotient ==
  ASSUME NEW l \in Nat, NEW k \in Nat
  PROVE  /\ l \div (k + 1) \in Nat
         /\ k * (l \div (k + 1)) \in Nat
         /\ k * (l \div (k + 1)) <= l
<1> DEFINE q == l \div (k + 1)
<1>1. q \in Int /\ q >= 0 /\ q * (k + 1) <= l
  OBVIOUS
<1> HIDE DEF q
<1>2. q * (k + 1) = k * q + q /\ k * q \in Int /\ k * q >= 0
  BY <1>1
<1>3. k * q <= l
  BY <1>1, <1>2
<1> QED
  BY <1>1, <1>2, <1>3 DEF q

(* Which of k pieces of length n position i falls into.                     *)
LEMMA Piece ==
  ASSUME NEW n \in Nat \ {0}, NEW k \in Nat, NEW i \in 1..k * n
  PROVE  \E j \in 1..k : (j - 1) * n + 1 <= i /\ i <= (j - 1) * n + n
<1> DEFINE q == (i - 1) \div n
<1>1. q \in Int /\ q >= 0 /\ q * n <= i - 1 /\ i - 1 < q * n + n
  OBVIOUS
<1> HIDE DEF q
<1>2. q < k
  <2>1. SUFFICES ASSUME q >= k PROVE FALSE
    BY <1>1
  <2>2. q * n >= k * n
    BY <2>1, <1>1
  <2> QED
    BY <1>1, <2>2
<1>3. q + 1 \in 1..k /\ (q + 1) - 1 = q
  BY <1>1, <1>2
<1>4. ((q + 1) - 1) * n + 1 <= i /\ i <= ((q + 1) - 1) * n + n
  BY <1>1, <1>3
<1> QED
  BY <1>3, <1>4, Zenon

(* The pieces end where they should.                                        *)
LEMMA PieceEnd ==
  ASSUME NEW n \in Nat, NEW k \in Nat, NEW j \in 1..k
  PROVE  (j - 1) * n \in Nat /\ (j - 1) * n + n <= k * n
<1>1. j \in Int /\ j - 1 \in Nat /\ j <= k
  OBVIOUS
<1>2. (j - 1) * n \in Nat /\ (j - 1) * n + n = j * n
  BY <1>1
<1>3. j * n <= k * n
  BY <1>1
<1> QED
  BY <1>2, <1>3, Zenon

\* A position inside a part is one inside the whole.
LEMMA Within ==
  ASSUME NEW m \in Nat, NEW n \in Nat, NEW g \in Nat, NEW l \in Nat, m + n <= g, g <= l,
         NEW i \in m + 1..m + n
  PROVE  i \in 1..l
  OBVIOUS

\* The words of a part of a range are the words at its positions.
LEMMA SliceWords ==
  ASSUME NEW s \in ScanRange, NEW i \in Nat, NEW n \in Nat, i + n <= Len(s)
  PROVE  /\ Slice(s, i, n) \in ScanRange
         /\ WordsOf(Slice(s, i, n)) = {s[k] : k \in i + 1..i + n}
         /\ n = 0 => Slice(s, i, n) = <<>>
<1>1. Len(s) \in Nat /\ \A k \in i + 1..i + n : s[k] \in Ptr \cup {null}
  BY DEF ScanRange
<1>2. \A k \in 1..n : s[i + k] \in Ptr \cup {null}
  BY <1>1
<1>3. PICK f : f = Slice(s, i, n)
  BY Zenon
<1>4. f = [k \in 1..n |-> s[i + k]]
  BY <1>3, Zenon DEF Slice
<1>5. f \in Seq(Ptr \cup {null}) /\ Len(f) = n /\ DOMAIN f = 1..n /\ \A k \in 1..n : f[k] = s[i + k]
  BY <1>2, <1>4
<1>6. ASSUME NEW w \in WordsOf(f) PROVE w \in {s[k] : k \in i + 1..i + n}
  <2>1. PICK k \in 1..n : w = s[i + k]
    BY <1>5, Zenon DEF WordsOf
  <2>2. i + k \in i + 1..i + n
    OBVIOUS
  <2> QED
    BY <2>1, <2>2, Zenon
<1>7. ASSUME NEW k \in i + 1..i + n PROVE s[k] \in WordsOf(f)
  <2>1. k - i \in 1..n /\ i + (k - i) = k
    OBVIOUS
  <2>2. f[k - i] = s[k]
    BY <2>1, <1>5, Zenon
  <2> QED
    BY <2>1, <2>2, <1>5, Zenon DEF WordsOf
<1>8. n = 0 => f = <<>>
  BY <1>5
<1> QED
  BY <1>3, <1>5, <1>6, <1>7, <1>8, Zenon DEF ScanRange

(* How markParallel divides the roots, and that this loses none.            *)
Divided(roots, n, given, own) ==
  /\ n = Len(roots) \div (numScanThreads + 1)
  /\ given = numScanThreads * n
  /\ own = Slice(roots, given, Len(roots) - given)

SharedOut(roots, n, own) ==
  /\ Ranges(roots, n) \in Seq(ScanRange)
  /\ own \in ScanRange
  /\ AllWords(Ranges(roots, n)) \cup WordsOf(own) = WordsOf(roots)
  /\ roots = <<>> => Ranges(roots, n) = <<>> /\ own = <<>>

\* Dividing the roots among the threads (markParallel) loses none of them.
LEMMA RootsShared ==
  ASSUME NEW roots \in ScanRange, numScanThreads \in Nat,
         NEW n, NEW given, NEW own, Divided(roots, n, given, own)
  PROVE  SharedOut(roots, n, own)
<1> USE DEF Divided, SharedOut
<1> DEFINE k == numScanThreads
           l == Len(roots)
<1>1. l \in Nat /\ n \in Nat /\ given \in Nat /\ given <= l
  <2>1. l \in Nat
    BY DEF ScanRange
  <2>2. n = l \div (k + 1) /\ given = k * n
    BY Zenon
  <2> QED
    BY <2>1, <2>2, Quotient, Zenon
<1>2. /\ own \in ScanRange
      /\ WordsOf(own) = {roots[i] : i \in given + 1..given + (l - given)}
      /\ l - given = 0 => own = <<>>
  <2>1. l - given \in Nat /\ given + (l - given) <= l
    BY <1>1
  <2> QED
    BY <1>1, <2>1, SliceWords, Zenon
<1>3. WordsOf(roots) = {roots[i] : i \in 1..l}
  BY DEF WordsOf, ScanRange
<1>4. CASE n = 0
  <2>1. Ranges(roots, n) = <<>> /\ given = 0 /\ given + 1 = 1 /\ given + (l - given) = l
    BY <1>4, <1>1 DEF Ranges
  <2>2. AllWords(Ranges(roots, n)) = {}
    BY <2>1, WordsEmpty, Zenon
  <2>3. WordsOf(own) = WordsOf(roots)
    BY <1>2, <1>3, <2>1, Zenon
  <2>4. roots = <<>> => own = <<>>
    <3>1. roots = <<>> => l - given = 0
      BY <2>1
    <3> QED
      BY <3>1, <1>2, Zenon
  <2>5. Ranges(roots, n) \in Seq(ScanRange)
    <3>1. <<>> \in Seq(ScanRange)
      OBVIOUS
    <3> QED
      BY <2>1, <3>1, Zenon
  <2> QED
    BY <1>2, <2>1, <2>2, <2>3, <2>4, <2>5, Zenon
<1>5. CASE n # 0
  <2> DEFINE part(j) == Slice(roots, (j - 1) * n, n)
  <2>1. ASSUME NEW j \in 1..k
        PROVE  /\ (j - 1) * n \in Nat
               /\ (j - 1) * n + n <= given
    <3>1. (j - 1) * n \in Nat /\ (j - 1) * n + n <= numScanThreads * n
      BY <1>1, PieceEnd, Zenon
    <3> QED
      BY <3>1, Zenon
  <2>2. ASSUME NEW j \in 1..k
        PROVE  /\ part(j) \in ScanRange
               /\ WordsOf(part(j)) = {roots[i] : i \in (j - 1) * n + 1..(j - 1) * n + n}
    <3>1. (j - 1) * n + n <= Len(roots)
      <4>1. PICK m \in Nat : m = (j - 1) * n /\ m + n <= given
        BY <2>1, Zenon
      <4>2. m + n <= given
        BY <4>1, Zenon
      <4>3. Len(roots) \in Nat /\ n \in Nat /\ given \in Nat /\ given <= Len(roots)
        BY <1>1, Zenon
      <4> HIDE DEF Divided, SharedOut, k, part
      <4>4. m + n <= Len(roots)
        BY <4>2, <4>3
      <4> QED
        BY <4>1, <4>4, Zenon
    <3> HIDE DEF k
    <3> QED
      BY <3>1, <2>1, <1>1, SliceWords, Zenon
  <2>3. Ranges(roots, n) = [j \in 1..k |-> part(j)]
    BY <1>1, <1>5 DEF Ranges
  <2>4. /\ Ranges(roots, n) \in Seq(ScanRange)
        /\ Len(Ranges(roots, n)) = k
        /\ \A j \in 1..k : Ranges(roots, n)[j] = part(j)
    <3> HIDE DEF part
    <3>1. k \in Nat /\ \A j \in 1..k : part(j) \in ScanRange
      BY <2>2, Zenon
    <3> HIDE DEF k
    <3>2. [j \in 1..k |-> part(j)] \in Seq(ScanRange)
      BY <3>1
    <3>3. Len([j \in 1..k |-> part(j)]) = k
      BY <3>1
    <3> QED
      BY <2>3, <3>2, <3>3, Zenon
  <2>5. ASSUME NEW w \in AllWords(Ranges(roots, n)) PROVE w \in WordsOf(roots)
    <3>1. PICK j \in 1..k : w \in WordsOf(part(j))
      <4> HIDE DEF part
      <4> QED BY <2>4, AllWordsIn
    <3>2. PICK m \in Nat : m = (j - 1) * n /\ m + n <= given
      BY <2>1, Zenon
    <3>3. PICK i \in m + 1..m + n : w = roots[i]
      <4>1. WordsOf(part(j)) = {roots[x] : x \in (j - 1) * n + 1..(j - 1) * n + n}
        BY <2>2, SMTT(30)
      <4>2. WordsOf(part(j)) = {roots[x] : x \in m + 1..m + n}
        BY <3>2, <4>1, Zenon
      <4> QED
        BY <3>1, <4>2, Zenon
    <3>4. i \in 1..l
      BY <3>2, <1>1, Within, Zenon
    <3> QED
      BY <3>3, <3>4, <1>3, Zenon
  <2>6. ASSUME NEW w \in WordsOf(roots) PROVE w \in AllWords(Ranges(roots, n)) \cup WordsOf(own)
    <3>1. PICK i \in 1..l : w = roots[i]
      BY <1>3, Zenon
    <3>2. CASE i <= given
      <4>1. PICK j \in 1..k : (j - 1) * n + 1 <= i /\ i <= (j - 1) * n + n
        <5>1. n \in Nat \ {0} /\ k \in Nat /\ i \in 1..k * n
          BY <3>2, <1>1, <1>5
        <5> HIDE DEF k
        <5> QED
          BY <5>1, Piece, Zenon
      <4>2. i \in (j - 1) * n + 1..(j - 1) * n + n
        <5>1. (j - 1) * n \in Nat
          BY <2>1, Zenon
        <5>2. PICK m \in Nat : m = (j - 1) * n
          BY <5>1, Zenon
        <5> QED
          BY <4>1, <5>2
      <4>3. w \in WordsOf(part(j))
        <5>1. WordsOf(part(j)) = {roots[x] : x \in (j - 1) * n + 1..(j - 1) * n + n}
          BY <2>2, Zenon
        <5> QED
          BY <3>1, <4>2, <5>1, Zenon
      <4> HIDE DEF part
      <4> QED
        BY <4>3, <2>4, AllWordsIn, Zenon
    <3>3. CASE i > given
      <4>1. i \in given + 1..given + (l - given)
        BY <3>3, <1>1
      <4> QED
        BY <4>1, <3>1, <1>2, Zenon
    <3> QED
      BY <3>2, <3>3, <1>1
  <2>7. ASSUME NEW w \in WordsOf(own) PROVE w \in WordsOf(roots)
    <3>1. PICK i \in given + 1..given + (l - given) : w = roots[i]
      BY <1>2, Zenon
    <3>2. i \in 1..l
      BY <1>1
    <3> QED
      BY <3>1, <3>2, <1>3, Zenon
  <2>8. roots # <<>>
    <3>1. SUFFICES ASSUME roots = <<>> PROVE FALSE
      BY Zenon
    <3>2. l = 0 /\ n = 0
      BY <3>1, <1>1, Quotient
    <3> QED
      BY <3>2, <1>5, Zenon
  <2> HIDE DEF part
  <2> QED
    BY <1>2, <2>4, <2>5, <2>6, <2>7, <2>8, Zenon
<1> QED
  BY <1>4, <1>5, Zenon

-----------------------------------------------------------------------------
(* What can be reached.                                                     *)

HeapOK(h) == h.roots \in ScanRange /\ h.words \in [Objects -> ScanRange]

\* Every heap of a collection is made of ranges of words.
LEMMA HeapType ==
  ASSUME NEW h \in Heaps \cup {EmptyHeap}
  PROVE  HeapOK(h)
<1>1. CASE h = EmptyHeap
  <2>1. <<null>> \in ScanRange /\ <<>> \in ScanRange
    BY DEF ScanRange
  <2> QED
    BY <1>1, <2>1, Zenon DEF EmptyHeap, HeapOK
<1>2. CASE h \in Heaps
  BY <1>2, HeapsAssumption, Zenon DEF HeapOK
<1> QED
  BY <1>1, <1>2, Zenon

(* A range holds pointers to blocks, and null.                              *)
LEMMA WordsType ==
  ASSUME NEW r \in ScanRange, NEW w \in WordsOf(r)
  PROVE  w \in Ptr \cup {null}
  BY DEF WordsOf, ScanRange

\* A word that keeps something alive points to a block.
LEMMA KeepsObject ==
  ASSUME NEW w \in Ptr \cup {null}, Keeps(w)
  PROVE  w \in Ptr /\ w.obj \in Objects
  BY Zenon DEF Keeps, Ptr

(* Reachable(h) has what the roots refer to, it has what its own blocks     *)
(* refer to, and it is the smallest set that does.                          *)
LEMMA ReachableFromRoots ==
  ASSUME NEW h, HeapOK(h), NEW w \in WordsOf(h.roots), Keeps(w)
  PROVE  w.obj \in Reachable(h)
<1>1. w.obj \in Objects
  BY WordsType, KeepsObject, Zenon DEF HeapOK
<1>2. ASSUME NEW S \in SUBSET Objects, Closed(h, S) PROVE w.obj \in S
  BY <1>2, Zenon DEF Closed, WordsOf
<1> QED
  BY <1>1, <1>2, Zenon DEF Reachable

\* What a reachable block points to is reachable, unless the block is NO_SCAN.
LEMMA ReachableFromBlock ==
  ASSUME NEW h, HeapOK(h), NEW o \in Reachable(h), o \notin NoScan,
         NEW w \in WordsOf(h.words[o]), Keeps(w)
  PROVE  w.obj \in Reachable(h)
<1>0. o \in Objects
  BY Zenon DEF Reachable
<1>1. w.obj \in Objects
  BY <1>0, WordsType, KeepsObject, Zenon DEF HeapOK
<1>2. ASSUME NEW S \in SUBSET Objects, Closed(h, S) PROVE w.obj \in S
  <2>1. o \in S
    BY <1>2, Zenon DEF Reachable
  <2> QED
    BY <1>2, <2>1, Zenon DEF Closed, WordsOf
<1> QED
  BY <1>1, <1>2, Zenon DEF Reachable

\* The reachable blocks are the least set that holds what roots and its own blocks point to.
LEMMA ReachableLeast ==
  ASSUME NEW h, NEW S \in SUBSET Objects, Closed(h, S)
  PROVE  Reachable(h) \subseteq S
  BY Zenon DEF Reachable

-----------------------------------------------------------------------------
(* The inductive invariant.                                                 *)

(* The ranges in the hands of t, and all that are still to be scanned.      *)
Own(t) == WordsOf(rng[t]) \cup AllWords(stack[t])
Pending == (UNION {Own(t) : t \in Threads}) \cup AllWords(scanStack)

(* The words that must have been or still be scanned.                       *)
Source == WordsOf(heap.roots) \cup UNION {WordsOf(heap.words[o]) : o \in mark \ NoScan}

Scanning == {"mark", "push", "unbusy"}
BusyOnes == {t \in pulled : pc[t] \in Scanning}

(* Only a thread inside mark() holds ranges.                                *)
Locals ==
  \A t \in Threads :
    /\ rng[t] # <<>> => pc[t] \in {"mark", "push", "fill"}
    /\ stack[t] # <<>> => pc[t] \in {"mark", "push"}
    /\ pc[t] = "push" => stack[t] # <<>>

(* busyThreads counts those whose mark() was called by pullFromScanStack.   *)
Counted ==
  /\ busyThreads = Cardinality(BusyOnes)
  /\ \A t \in Threads : pc[t] = "unbusy" => t \in pulled
  /\ \A t \in ScanThreads : pc[t] \in Scanning => t \in pulled
  /\ pc[Main] = "fill" => Main \notin pulled

(* Between collections nothing is left to do, and the scan threads are      *)
(* stopped only between collections.                                        *)
Stopping == {"stop", "wait", "asleep", "woken"}
Phases ==
  /\ pc[Main] = "idle" => scanStack = <<>> /\ busyThreads = 0
  /\ pc[Main] = "stop" => stopGC
  /\ stopGC /\ pc[Main] \in Stopping => scanStack = <<>> /\ busyThreads = 0
  /\ stopGC /\ pc[Main] \notin Stopping => \A t \in ScanThreads : pc[t] \in {"none", "ended"}
  /\ scanThreadData = null => ~stopGC /\ numScanThreads = 0
  /\ \A t \in ScanThreads :
       scanThreadData = null \/ t \notin scanThreadData => pc[t] \in {"none", "ended"}

(* No pointer into the first page of a NO_INTERIOR block, other than to its *)
(* base.                                                                    *)
Apart(w) == w # null /\ w.obj \in NoInterior => w.at # "first"
InteriorApart ==
  \A h \in Heaps : /\ \A w \in WordsOf(h.roots) : Apart(w)
                   /\ \A o \in Objects : \A w \in WordsOf(h.words[o]) : Apart(w)

(* Whatever a source refers to is marked or will be; nothing else is; and a *)
(* cached page belongs to a marked block, or to one that pointers into that *)
(* page do not keep.                                                        *)
Cached ==
  \A t \in Threads : pc[t] \in {"fill", "mark", "push"} =>
    \A o \in Objects :
      /\ pcache[t] = <<o, "first">> => o \in mark
      /\ pcache[t] = <<o, "later">> => o \in mark \cup NoInterior
Complete == \A w \in Source : Keeps(w) => w.obj \in mark \/ w \in Pending
Sound ==
  /\ \A w \in Pending : Apart(w) /\ (Keeps(w) => w.obj \in Reachable(heap))
  /\ mark \subseteq Reachable(heap)

Filled ==
  /\ evStackFilled => \A t \in ScanThreads : pc[t] # "blocked"
  /\ scanStack # <<>> /\ numScanThreads > 0 /\ pc[Main] # "fill" => evStackFilled

CInv == TypeOK /\ Locals /\ Counted /\ Phases
MInv == Cached /\ Complete /\ Sound

-----------------------------------------------------------------------------
(* Steps keep the types.                                                    *)

LEMMA TypeInit == Init => TypeOK
<1> SUFFICES ASSUME Init PROVE TypeOK
  BY Zenon
<1>1. <<>> \in ScanRange /\ <<>> \in Seq(ScanRange)
  BY DEF ScanRange
<1>2. pc \in [Threads -> MainLabels \cup ScanLabels] /\ pc[Main] \in MainLabels
      /\ \A t \in ScanThreads : pc[t] \in ScanLabels
  BY ThreadsAssumption, Zenon DEF Init, Threads, MainLabels, ScanLabels
<1>3. /\ rng \in [Threads -> ScanRange]
      /\ stack \in [Threads -> Seq(ScanRange)]
      /\ pcache \in [Threads -> ({null} \cup (Objects \X {"first", "later"}))]
  BY <1>1, Zenon DEF Init
<1>6. evStackFilled \in BOOLEAN /\ evDone \in BOOLEAN /\ stopGC \in BOOLEAN
  BY Zenon DEF Init
<1>4. /\ heap \in Heaps \cup {EmptyHeap}
      /\ mark \subseteq Objects /\ pulled \subseteq Threads
      /\ scanThreadData \in (SUBSET ScanThreads) \cup {null}
  BY Zenon DEF Init
<1>7. scanStack \in Seq(ScanRange)
  BY <1>1, Zenon DEF Init
<1>5. busyThreads \in Nat /\ stoppedThreads \in Nat /\ numScanThreads \in Nat
  BY Zenon DEF Init
<1> QED
  BY <1>1, <1>2, <1>3, <1>4, <1>5, <1>6, <1>7, Zenon DEF TypeOK

(* The word at the head of a range, and the block it refers to.             *)
LEMMA HeadType ==
  ASSUME TypeOK, NEW t \in Threads, rng[t] # <<>>
  PROVE  LET p == Head(rng[t])
         IN  /\ p \in Ptr \cup {null}
             /\ Tail(rng[t]) \in ScanRange
             /\ Found(t, p) => p.obj \in Objects /\ heap.words[p.obj] \in ScanRange
             /\ Cache(t, p) \in {null} \cup (Objects \X {"first", "later"})
<1> DEFINE p == Head(rng[t])
<1>1. rng[t] \in ScanRange /\ pcache[t] \in {null} \cup (Objects \X {"first", "later"})
  BY Zenon DEF TypeOK
<1>2. p \in Ptr \cup {null} /\ Tail(rng[t]) \in ScanRange
  BY <1>1, WordsTail, Zenon
<1>3. heap.words \in [Objects -> ScanRange]
  BY HeapType, Zenon DEF TypeOK, HeapOK
<1> HIDE DEF p
<1>4. p # null => p.obj \in Objects /\ Page(p) \in Objects \X {"first", "later"}
  BY <1>2, Zenon DEF Ptr, Page
<1>5. Found(t, p) => p.obj \in Objects /\ heap.words[p.obj] \in ScanRange
  BY <1>3, <1>4, Zenon DEF Found
<1>6. Cache(t, p) \in {null} \cup (Objects \X {"first", "later"})
  BY <1>1, <1>4, Zenon DEF Cache
<1> QED
  BY <1>2, <1>5, <1>6, Zenon DEF p

(* A label of its own part of the code for t, and for nobody else anything  *)
(* but being woken up.                                                      *)
LabelOK(t, l) == l \in (IF t = Main THEN MainLabels ELSE ScanLabels)
PcOK(f) == /\ f \in [Threads -> MainLabels \cup ScanLabels]
           /\ f[Main] \in MainLabels
           /\ \A t \in ScanThreads : f[t] \in ScanLabels

\* A thread that moves on by itself stays in its part of the code.
LEMMA PcGoto ==
  ASSUME PcOK(pc), NEW t \in Threads, NEW l, LabelOK(t, l), Goto(t, l)
  PROVE  PcOK(pc')
  BY ThreadsAssumption, Zenon DEF PcOK, LabelOK, Goto, Threads

\* So do the threads that evStackFilled.setIfInitialized wakes up.
LEMMA PcFilled ==
  ASSUME PcOK(pc), NEW t \in Threads, NEW l, LabelOK(t, l), SetFilled(t, l)
  PROVE  PcOK(pc')
<1>1. \A s \in Threads : pc'[s] = l \/ (pc[s] = "blocked" /\ pc'[s] = "pull") \/ pc'[s] = pc[s]
  BY Zenon DEF SetFilled
<1>2. pc'[t] = l /\ DOMAIN pc' = Threads /\ \A s \in Threads \ {t} :
          (pc[s] = "blocked" /\ pc'[s] = "pull") \/ pc'[s] = pc[s]
  BY Zenon DEF SetFilled
<1>3. pc' = [s \in Threads |-> pc'[s]]
  BY Zenon DEF SetFilled
<1> QED
  BY <1>2, <1>3, ThreadsAssumption DEF PcOK, LabelOK, Threads, MainLabels, ScanLabels

\* So does the collecting thread when evDone.setIfInitialized wakes it up.
LEMMA PcDone ==
  ASSUME PcOK(pc), NEW t \in Threads, NEW l, LabelOK(t, l), SetDone(t, l)
  PROVE  PcOK(pc')
<1>2. pc'[t] = l /\ DOMAIN pc' = Threads /\ \A s \in Threads \ {t} :
          (pc[s] = "asleep" /\ pc'[s] = "woken") \/ pc'[s] = pc[s]
  BY Zenon DEF SetDone
<1>3. pc' = [s \in Threads |-> pc'[s]]
  BY Zenon DEF SetDone
<1> QED
  BY <1>2, <1>3, ThreadsAssumption DEF PcOK, LabelOK, Threads, MainLabels, ScanLabels

\* scanStackPopLocked yields a range and leaves a stack of ranges.
LEMMA PopType ==
  ASSUME TypeOK, NEW t \in Threads, scanStack # <<>>, Pop(t)
  PROVE  /\ rng' \in [Threads -> ScanRange]
         /\ scanStack' \in Seq(ScanRange)
         /\ evStackFilled' \in BOOLEAN
         /\ pcache' \in [Threads -> ({null} \cup (Objects \X {"first", "later"}))]
  BY AllWordsLast, Zenon DEF TypeOK, Pop

-----------------------------------------------------------------------------
(* Steps keep the invariant of the control flow.                            *)

LEMMA ThreadSets ==
  ASSUME NEW B \in SUBSET Threads
  PROVE  /\ IsFiniteSet(B) /\ Cardinality(B) \in Nat
         /\ Cardinality(B) = 0 <=> B = {}
         /\ \A t \in Threads \ B : Cardinality(B \cup {t}) = Cardinality(B) + 1
         /\ \A t \in B : Cardinality(B) > 0 /\ Cardinality(B \ {t}) = Cardinality(B) - 1
<1>1. IsFiniteSet(Threads)
  BY ThreadsAssumption, FS_AddElement, Zenon DEF Threads
<1>a. IsFiniteSet(B)
  BY <1>1, FS_Subset, Zenon
<1>2. IsFiniteSet(B) /\ Cardinality(B) \in Nat /\ (Cardinality(B) = 0 <=> B = {})
  BY <1>a, FS_CardinalityType, FS_EmptySet, Zenon
<1>3. \A t \in Threads \ B : Cardinality(B \cup {t}) = Cardinality(B) + 1
  BY <1>2, FS_AddElement, SMTT(30)
<1>4. ASSUME NEW t \in B
      PROVE  Cardinality(B) > 0 /\ Cardinality(B \ {t}) = Cardinality(B) - 1
  <2>1. Cardinality(B) # 0
    BY <1>2, Zenon
  <2>2. Cardinality(B \ {t}) = Cardinality(B) - 1
    BY <1>a, FS_RemoveElement, Zenon
  <2> QED
    BY <1>2, <2>1, <2>2
<1> QED
  BY <1>2, <1>3, <1>4, Zenon

(* While the count is 0 nobody scans for pullFromScanStack.                 *)
LEMMA NoneBusy ==
  ASSUME TypeOK, Counted
  PROVE  /\ BusyOnes \in SUBSET Threads
         /\ busyThreads = 0 => \A t \in Threads : t \in pulled => pc[t] \notin Scanning
         /\ \A t \in Threads : t \in pulled /\ pc[t] \in Scanning => busyThreads > 0
<1>1. BusyOnes \in SUBSET Threads
  BY Zenon DEF BusyOnes, TypeOK
<1>2. Cardinality(BusyOnes) = 0 <=> BusyOnes = {}
  BY <1>1, ThreadSets, Zenon
<1>3. Cardinality(BusyOnes) \in Nat
  BY <1>1, ThreadSets, Zenon
<1> QED
  BY <1>1, <1>2, <1>3 DEF Counted, BusyOnes

(* What one thread does while others may only be woken up.                  *)
OnlyWakes(t) ==
  \A s \in Threads \ {t} : \/ pc'[s] = pc[s]
                           \/ pc[s] = "blocked" /\ pc'[s] = "pull"
                           \/ pc[s] = "asleep" /\ pc'[s] = "woken"

\* Whichever event it sets, a thread only moves itself and threads that wait for the event.
LEMMA Wakes ==
  ASSUME PcOK(pc), NEW t \in Threads, NEW l, LabelOK(t, l),
         Goto(t, l) \/ SetFilled(t, l) \/ SetDone(t, l)
  PROVE  PcOK(pc') /\ pc'[t] = l /\ OnlyWakes(t)
<1>1. CASE Goto(t, l)
  BY <1>1, PcGoto, Zenon DEF Goto, OnlyWakes, PcOK
<1>2. CASE SetFilled(t, l)
  <2>1. pc'[t] = l /\ OnlyWakes(t)
    BY <1>2, Zenon DEF SetFilled, OnlyWakes
  <2> QED
    BY <1>2, <2>1, PcFilled, Zenon
<1>3. CASE SetDone(t, l)
  <2>1. pc'[t] = l /\ OnlyWakes(t)
    BY <1>3, Zenon DEF SetDone, OnlyWakes
  <2> QED
    BY <1>3, <2>1, PcDone, Zenon
<1> QED
  BY <1>1, <1>2, <1>3, Zenon

(* The steps that neither scan nor touch what there is to scan.             *)
QuietMove(t, l) ==
  \/ /\ t # Main
     /\ pc[t] \in {"loop", "filled", "blocked", "stop", "bye", "report"}
     /\ l \in {"loop", "filled", "blocked", "stop", "bye", "ended", "pull"}
     /\ stopGC' = stopGC
  \/ /\ t = Main
     /\ \/ pc[t] = "fill" /\ l = "mark" /\ stopGC' = stopGC
        \/ /\ pc[t] \in Stopping /\ l \in Stopping \cup {"pull"}
           /\ l = "stop" => stopGC
           /\ l = "pull" => ~stopGC
           /\ stopGC' = stopGC
        \/ pc[t] = "idle" /\ l = "stop" /\ stopGC' = TRUE /\ scanThreadData # null

\* A step that touches no range and changes no busy thread keeps the control invariant.
LEMMA QuietControl ==
  ASSUME CInv, NEW t \in Threads, NEW l, LabelOK(t, l), QuietMove(t, l),
         Goto(t, l) \/ SetFilled(t, l) \/ SetDone(t, l),
         UNCHANGED <<heap, mark, scanStack, busyThreads, numScanThreads, scanThreadData, local>>,
         evStackFilled' \in BOOLEAN, evDone' \in BOOLEAN, stoppedThreads' \in Nat
  PROVE  CInv'
<1>0. TypeOK /\ Locals /\ Counted /\ Phases
  BY Zenon DEF CInv
<1>1. PcOK(pc') /\ pc'[t] = l /\ OnlyWakes(t)
  BY <1>0, Wakes, Zenon DEF TypeOK, PcOK
<1>u. /\ heap' = heap /\ mark' = mark /\ scanStack' = scanStack /\ busyThreads' = busyThreads
      /\ numScanThreads' = numScanThreads /\ scanThreadData' = scanThreadData
      /\ rng' = rng /\ stack' = stack /\ pcache' = pcache /\ pulled' = pulled
  BY Zenon DEF local
<1>2. TypeOK'
  <2>1. stopGC' \in BOOLEAN
    BY <1>0, Zenon DEF QuietMove, TypeOK
  <2> QED
    BY <1>0, <1>1, <1>u, <2>1, Zenon DEF TypeOK, PcOK
<1>3. Locals'
  BY <1>0, <1>1, <1>u, Zenon DEF Locals, OnlyWakes, QuietMove, Stopping
<1>4. Counted'
  <2>1. \A s \in pulled : pc'[s] \in Scanning <=> pc[s] \in Scanning
    BY <1>0, <1>1, Zenon DEF OnlyWakes, QuietMove, Stopping, Scanning, Counted, TypeOK
  <2>2. BusyOnes' = BusyOnes
    BY <2>1, <1>u, Zenon DEF BusyOnes
  <2> QED
    BY <1>0, <1>1, <1>u, <2>2, ThreadsAssumption
       DEF Counted, OnlyWakes, QuietMove, Stopping, Scanning, Threads
<1>5. Phases'
  <2>1. CASE t # Main
    <3>1. t \in ScanThreads /\ Main \in Threads
      BY <2>1, Zenon DEF Threads
    <3>2. pc'[Main] = pc[Main] \/ (pc[Main] = "asleep" /\ pc'[Main] = "woken")
      BY <1>0, <1>1, <2>1, <3>1, Zenon DEF OnlyWakes, TypeOK, MainLabels
    <3>3. stopGC' = stopGC /\ pc[t] \notin {"none", "ended"}
      BY <1>0, <2>1, Zenon DEF QuietMove
    <3>4. /\ pc'[Main] = "idle" => scanStack' = <<>> /\ busyThreads' = 0
          /\ pc'[Main] = "stop" => stopGC'
          /\ stopGC' /\ pc'[Main] \in Stopping => scanStack' = <<>> /\ busyThreads' = 0
      BY <1>0, <1>u, <3>2, <3>3, Zenon DEF Phases, Stopping
    <3>5. ~(stopGC' /\ pc'[Main] \notin Stopping)
      BY <1>0, <3>1, <3>2, <3>3, Zenon DEF Phases, Stopping
    <3>6. scanThreadData' = null => ~stopGC' /\ numScanThreads' = 0
      BY <1>0, <1>u, <3>3, Zenon DEF Phases
    <3>7. ASSUME NEW s \in ScanThreads, scanThreadData = null \/ s \notin scanThreadData
          PROVE  pc'[s] \in {"none", "ended"}
      <4>1. pc[s] \in {"none", "ended"}
        BY <1>0, <3>7, Zenon DEF Phases
      <4>2. s \in Threads \ {t}
        BY <3>3, <4>1, Zenon DEF Threads
      <4> QED
        BY <1>1, <4>1, <4>2, Zenon DEF OnlyWakes
    <3> QED
      BY <1>u, <3>4, <3>5, <3>6, <3>7, Zenon DEF Phases
  <2>2. CASE t = Main
    BY <1>0, <1>1, <1>u, <2>2, ThreadsAssumption
       DEF Phases, OnlyWakes, QuietMove, Stopping, Threads
  <2> QED
    BY <2>1, <2>2, Zenon
<1> QED
  BY <1>2, <1>3, <1>4, <1>5, Zenon DEF CInv

(* Inside mark().                                                           *)
LEMMA SameControl ==
  ASSUME CInv, UNCHANGED <<busyThreads, control, pulled>>, PcOK(pc'),
         NEW t \in Threads, pc[t] \in {"mark", "push"}, pc'[t] \in {"mark", "push"}, OnlyWakes(t),
         t = Main \/ t \in pulled
  PROVE  Counted' /\ Phases'
<1>0. TypeOK /\ Counted /\ Phases
  BY Zenon DEF CInv
<1>u. /\ busyThreads' = busyThreads /\ stopGC' = stopGC /\ pulled' = pulled
      /\ numScanThreads' = numScanThreads /\ scanThreadData' = scanThreadData
  BY Zenon DEF control
<1>1. Counted'
  <2>1. \A s \in pulled : pc'[s] \in Scanning <=> pc[s] \in Scanning
    BY <1>0, Zenon DEF OnlyWakes, Scanning, TypeOK
  <2>2. BusyOnes' = BusyOnes
    BY <2>1, <1>u, Zenon DEF BusyOnes
  <2> QED
    BY <1>0, <1>u, <2>2, Zenon DEF Counted, OnlyWakes, Scanning, Threads
<1>2. t # Main => busyThreads > 0
  BY <1>0, NoneBusy, Zenon DEF Scanning
<1>3. t # Main => t \in ScanThreads /\ (pc'[Main] = pc[Main] \/ (pc[Main] = "asleep" /\ pc'[Main] = "woken"))
  BY <1>0, Zenon DEF OnlyWakes, Threads, TypeOK, MainLabels
<1>4. Phases'
  <2>1. CASE t = Main
    <3>1. \A s \in ScanThreads : pc[s] \in {"none", "ended"} => pc'[s] = pc[s]
      BY <2>1, ThreadsAssumption, Zenon DEF OnlyWakes, Threads
    <3> QED
      BY <1>0, <1>u, <2>1, <3>1, Zenon DEF Phases, Stopping
  <2>2. CASE t # Main
    <3>1. \A s \in ScanThreads : pc[s] \in {"none", "ended"} => pc'[s] = pc[s] /\ s # t
      BY Zenon DEF OnlyWakes, Threads
    <3>2. busyThreads # 0
      BY <1>0, <1>2, <2>2 DEF TypeOK
    <3> QED
      BY <1>0, <1>u, <1>3, <2>2, <3>1, <3>2, Zenon DEF Phases, Stopping
  <2> QED
    BY <2>1, <2>2, Zenon
<1> QED
  BY <1>1, <1>4, Zenon

(* Who scans is the collecting thread or was given a range.                 *)
LEMMA Scanner ==
  ASSUME CInv, NEW t \in Threads, pc[t] \in Scanning
  PROVE  t = Main \/ t \in pulled
  BY Zenon DEF CInv, Counted, Threads

\* Looking at one word in mark() keeps the control invariant.
LEMMA VisitControl ==
  ASSUME CInv, NEW t \in Threads, Visit(t)
  PROVE  CInv'
<1> DEFINE p == Head(rng[t])
           tgt == heap.words[p.obj]
<1>0. TypeOK /\ Locals /\ pc[t] = "mark" /\ rng[t] # <<>>
  BY Zenon DEF CInv, Visit
<1>u. UNCHANGED <<heap, scanStack, evStackFilled, evDone, busyThreads, stoppedThreads, stopGC,
                  numScanThreads, scanThreadData, pulled>>
  BY Zenon DEF Visit, shared, control
<1>1. /\ p \in Ptr \cup {null} /\ Tail(rng[t]) \in ScanRange
      /\ Found(t, p) => p.obj \in Objects /\ tgt \in ScanRange
      /\ Cache(t, p) \in {null} \cup (Objects \X {"first", "later"})
  BY <1>0, HeadType, Zenon
<1>2. mark' \subseteq Objects
  BY <1>0, <1>1, Zenon DEF Visit, TypeOK
<1>s. /\ Found(t, p) => Append(stack[t], tgt) \in Seq(ScanRange) /\ Append(stack[t], tgt) # <<>>
  BY <1>0, <1>1, AllWordsAppend, Zenon DEF TypeOK
<1> HIDE DEF p, tgt
<1>3. \/ /\ Found(t, p)
         /\ rng' = [rng EXCEPT ![t] = Tail(rng[t])]
         /\ stack' = [stack EXCEPT ![t] = Append(stack[t], tgt)]
         /\ pcache' = [pcache EXCEPT ![t] = Cache(t, p)]
         /\ pc' = [pc EXCEPT ![t] = "push"] \/ pc' = [pc EXCEPT ![t] = "mark"]
      \/ /\ Found(t, p)
         /\ rng' = [rng EXCEPT ![t] = tgt]
         /\ pcache' = [pcache EXCEPT ![t] = null]
         /\ UNCHANGED <<stack, pc>>
      \/ /\ rng' = [rng EXCEPT ![t] = Tail(rng[t])]
         /\ pcache' = [pcache EXCEPT ![t] = Cache(t, p)]
         /\ UNCHANGED <<stack, pc>>
  BY Zenon DEF Visit, AddRange, Goto, p, tgt
<1>4. /\ rng' \in [Threads -> ScanRange]
      /\ stack' \in [Threads -> Seq(ScanRange)]
      /\ pcache' \in [Threads -> ({null} \cup (Objects \X {"first", "later"}))]
  <2>1. /\ rng \in [Threads -> ScanRange]
        /\ stack \in [Threads -> Seq(ScanRange)]
        /\ pcache \in [Threads -> ({null} \cup (Objects \X {"first", "later"}))]
    BY <1>0, Zenon DEF TypeOK
  <2>2. rng' \in [Threads -> ScanRange]
    BY <2>1, <1>1, <1>3, Zenon
  <2>3. stack' \in [Threads -> Seq(ScanRange)]
    BY <2>1, <1>s, <1>3, Zenon
  <2> DEFINE Pages == {null} \cup (Objects \X {"first", "later"})
  <2>4. null \in Pages /\ Cache(t, p) \in Pages /\ pcache \in [Threads -> Pages]
    BY <2>1, <1>1, Zenon
  <2> HIDE DEF Pages
  <2>5. pcache' \in [Threads -> Pages]
    BY <2>4, <1>3, Zenon
  <2> QED
    BY <2>2, <2>3, <2>5, Zenon DEF Pages
<1>5. PcOK(pc') /\ pc'[t] \in {"mark", "push"} /\ OnlyWakes(t)
  <2>1. PICK l \in {"mark", "push"} : pc' = [pc EXCEPT ![t] = l]
    <3>1. pc = [pc EXCEPT ![t] = "mark"]
      BY <1>0, Zenon DEF TypeOK
    <3> QED
      BY <1>3, <3>1, Zenon
  <2>2. LabelOK(t, l) /\ Goto(t, l) /\ PcOK(pc)
    BY <1>0, <2>1, Zenon DEF LabelOK, MainLabels, ScanLabels, Goto, PcOK, TypeOK
  <2> QED
    BY <2>1, <2>2, Wakes, Zenon
<1>6. TypeOK'
  BY <1>0, <1>u, <1>2, <1>4, <1>5, Zenon DEF TypeOK, PcOK
<1>7. Locals'
  BY <1>0, <1>s, <1>3 DEF Locals, TypeOK
<1>8. Counted' /\ Phases'
  BY <1>0, <1>u, <1>5, SameControl, Scanner, Zenon DEF Scanning, control
<1> QED
  BY <1>6, <1>7, <1>8, Zenon DEF CInv

\* Taking the next range from the stack in mark() keeps the control invariant.
LEMMA NextRangeControl ==
  ASSUME CInv, NEW t \in Threads, NextRange(t)
  PROVE  CInv'
<1>0. TypeOK /\ Locals /\ pc[t] = "mark" /\ stack[t] # <<>> /\ stack[t] \in Seq(ScanRange)
  BY Zenon DEF CInv, NextRange, TypeOK
<1>u. UNCHANGED <<heap, mark, scanStack, evStackFilled, evDone, busyThreads, stoppedThreads, stopGC,
                  numScanThreads, scanThreadData, pulled, pc>>
  BY Zenon DEF NextRange, shared, control
<1>1. Top(stack[t]) \in ScanRange /\ Below(stack[t]) \in Seq(ScanRange)
  BY <1>0, AllWordsLast, Zenon
<1>2. /\ rng' = [rng EXCEPT ![t] = Top(stack[t])]
      /\ stack' = [stack EXCEPT ![t] = Below(stack[t])]
      /\ pcache' = [pcache EXCEPT ![t] = null]
  BY Zenon DEF NextRange
<1>3. TypeOK'
  BY <1>0, <1>u, <1>1, <1>2, Zenon DEF TypeOK
<1>4. Locals'
  BY <1>0, <1>u, <1>1, <1>2, Zenon DEF Locals, TypeOK
<1>5. PcOK(pc') /\ pc'[t] \in {"mark", "push"} /\ OnlyWakes(t)
  BY <1>0, <1>u, Zenon DEF PcOK, OnlyWakes, TypeOK
<1>6. Counted' /\ Phases'
  BY <1>0, <1>u, <1>5, SameControl, Scanner, Zenon DEF Scanning, control
<1> QED
  BY <1>3, <1>4, <1>6, Zenon DEF CInv

\* Moving a range to the shared stack (scanStackPushLocked) keeps the control invariant.
LEMMA PushControl ==
  ASSUME CInv, NEW t \in Threads, scanStackPushLocked(t)
  PROVE  CInv'
<1>0. TypeOK /\ Locals /\ pc[t] = "push" /\ stack[t] # <<>> /\ stack[t] \in Seq(ScanRange)
  BY Zenon DEF CInv, scanStackPushLocked, TypeOK, Locals
<1>u. UNCHANGED <<heap, mark, evDone, busyThreads, stoppedThreads, stopGC,
                  numScanThreads, scanThreadData, rng, pcache, pulled>>
  BY Zenon DEF scanStackPushLocked, control
<1>1. Top(stack[t]) \in ScanRange /\ Below(stack[t]) \in Seq(ScanRange)
  BY <1>0, AllWordsLast, Zenon
<1>2. scanStack' \in Seq(ScanRange)
  <2>1. scanStack \in Seq(ScanRange)
    BY <1>0, Zenon DEF TypeOK
  <2> QED
    BY <1>1, <2>1, AllWordsPush, Zenon DEF scanStackPushLocked
<1>3. stack' = [stack EXCEPT ![t] = <<Top(stack[t])>>] /\ <<Top(stack[t])>> \in Seq(ScanRange)
  BY <1>1, AllWordsOne, Zenon DEF scanStackPushLocked
<1>4. PcOK(pc') /\ pc'[t] = "mark" /\ OnlyWakes(t)
  <2>1. LabelOK(t, "mark") /\ PcOK(pc) /\ (SetFilled(t, "mark") \/ Goto(t, "mark"))
    BY <1>0, Zenon DEF scanStackPushLocked, LabelOK, MainLabels, ScanLabels, PcOK, TypeOK
  <2> QED
    BY <2>1, Wakes, Zenon
<1>5. evStackFilled' \in BOOLEAN
  BY <1>0, Zenon DEF scanStackPushLocked, SetFilled, TypeOK
<1>6. TypeOK'
  BY <1>0, <1>u, <1>2, <1>3, <1>4, <1>5, Zenon DEF TypeOK, PcOK
<1>7. Locals'
  BY <1>0, <1>u, <1>3, <1>4, Zenon DEF Locals, TypeOK, OnlyWakes
<1>8. Counted' /\ Phases'
  BY <1>0, <1>u, <1>4, SameControl, Scanner, Zenon DEF Scanning, control
<1> QED
  BY <1>6, <1>7, <1>8, Zenon DEF CInv

\* The collecting thread taking a range (scanStackPopLocked) keeps the control invariant.
LEMMA PopControl ==
  ASSUME CInv, NEW t \in Threads, scanStackPopLocked(t)
  PROVE  CInv'
<1>0. TypeOK /\ Locals /\ Counted /\ Phases /\ pc[t] = "mark" /\ rng[t] = <<>> /\ stack[t] = <<>>
  BY Zenon DEF CInv, scanStackPopLocked
<1>u. UNCHANGED <<heap, mark, evDone, busyThreads, stoppedThreads, stopGC,
                  numScanThreads, scanThreadData, stack, pulled>>
  BY Zenon DEF scanStackPopLocked, control
<1>1. CASE scanStack # <<>> /\ Pop(t) /\ UNCHANGED pc
  <2>1. TypeOK'
    BY <1>0, <1>u, <1>1, PopType, Zenon DEF TypeOK
  <2>2. Locals'
    BY <1>0, <1>u, <1>1, Zenon DEF Locals, Pop, TypeOK
  <2>3. PcOK(pc') /\ pc'[t] \in {"mark", "push"} /\ OnlyWakes(t)
    BY <1>0, <1>1, Zenon DEF PcOK, OnlyWakes, TypeOK
  <2>4. Counted' /\ Phases'
    BY <1>0, <1>u, <2>3, SameControl, Scanner, Zenon DEF Scanning, control
  <2> QED
    BY <2>1, <2>2, <2>4, Zenon DEF CInv
<1>2. CASE scanStack = <<>> /\ UNCHANGED <<scanStack, evStackFilled, rng, pcache>>
           /\ Goto(t, IF t \in pulled THEN "unbusy" ELSE "pull")
  <2>1. PICK l : l = (IF t \in pulled THEN "unbusy" ELSE "pull")
    BY Zenon
  <2>2. LabelOK(t, l) /\ PcOK(pc) /\ Goto(t, l)
    BY <1>0, <1>2, <2>1, Zenon DEF LabelOK, MainLabels, ScanLabels, PcOK, TypeOK
  <2>3. PcOK(pc') /\ pc'[t] = l /\ OnlyWakes(t) /\ \A s \in Threads \ {t} : pc'[s] = pc[s]
    BY <2>2, Wakes, Zenon DEF Goto, PcOK
  <2>4. TypeOK'
    BY <1>0, <1>u, <1>2, <2>3, Zenon DEF TypeOK, PcOK
  <2>5. Locals'
    BY <1>0, <1>u, <1>2, <2>1, <2>3, Zenon DEF Locals
  <2>6. Counted'
    <3>1. \A s \in pulled : pc'[s] \in Scanning <=> pc[s] \in Scanning
      BY <1>0, <2>1, <2>3, Zenon DEF Scanning, TypeOK
    <3>2. BusyOnes' = BusyOnes
      BY <1>u, <3>1, Zenon DEF BusyOnes
    <3> QED
      BY <1>0, <1>u, <2>1, <2>3, <3>2, Zenon DEF Counted, Scanning, Threads
  <2>7. Phases'
    <3>1. t # Main => t \in ScanThreads /\ pc'[Main] = pc[Main]
      BY <2>3, Zenon DEF Threads
    <3> QED
      BY <1>0, <1>u, <1>2, <2>1, <2>3, <3>1, ThreadsAssumption, Zenon DEF Phases, Stopping, Threads
  <2> QED
    BY <2>4, <2>5, <2>6, <2>7, Zenon DEF CInv
<1> QED
  BY <1>1, <1>2, Zenon DEF scanStackPopLocked

-----------------------------------------------------------------------------
(* pullFromScanStack.                                                       *)
LEMMA BusyType ==
  ASSUME CInv, NEW t \in Threads
  PROVE  Busy(t) \in Nat /\ (pc[t] = "unbusy" => t \in BusyOnes /\ Busy(t) = busyThreads - 1)
<1>1. TypeOK /\ Counted /\ busyThreads \in Nat
  BY Zenon DEF CInv, TypeOK
<1>2. pc[t] = "unbusy" => t \in BusyOnes /\ busyThreads > 0
  BY <1>1, NoneBusy, Zenon DEF Counted, Scanning, BusyOnes
<1> QED
  BY <1>1, <1>2 DEF Busy

\* pullFromScanStackImpl that gets a range counts its thread as busy.
LEMMA PullControl ==
  ASSUME CInv, NEW t \in Threads, Pull(t)
  PROVE  CInv'
<1>0. TypeOK /\ Locals /\ Counted /\ Phases /\ pc[t] \in {"pull", "unbusy"} /\ scanStack # <<>>
  BY Zenon DEF CInv, Pull, PullAs
<1>u. UNCHANGED <<heap, mark, evDone, stoppedThreads, stopGC, numScanThreads, scanThreadData, stack>>
  BY Zenon DEF Pull, PullAs, control
<1>1. Pop(t) /\ busyThreads' = Busy(t) + 1 /\ pulled' = pulled \cup {t} /\ Goto(t, "mark")
  BY Zenon DEF Pull, PullAs
<1>2. Busy(t) \in Nat /\ (pc[t] = "unbusy" => t \in BusyOnes /\ Busy(t) = busyThreads - 1)
  BY BusyType, Zenon
<1>3. PcOK(pc') /\ pc'[t] = "mark" /\ \A s \in Threads \ {t} : pc'[s] = pc[s]
  <2>1. LabelOK(t, "mark") /\ PcOK(pc)
    BY <1>0, Zenon DEF LabelOK, MainLabels, ScanLabels, PcOK, TypeOK
  <2> QED
    BY <1>1, <2>1, Wakes, Zenon DEF Goto, PcOK
<1>4. TypeOK'
  <2>1. /\ rng' \in [Threads -> ScanRange] /\ scanStack' \in Seq(ScanRange)
        /\ evStackFilled' \in BOOLEAN
        /\ pcache' \in [Threads -> ({null} \cup (Objects \X {"first", "later"}))]
    BY <1>0, <1>1, PopType, Zenon
  <2>2. busyThreads' \in Nat /\ pulled' \subseteq Threads
    BY <1>0, <1>1, <1>2 DEF TypeOK
  <2> QED
    BY <1>0, <1>u, <1>3, <2>1, <2>2, Zenon DEF TypeOK, PcOK
<1>5. Locals'
  BY <1>0, <1>u, <1>1, <1>3, Zenon DEF Locals, Pop, TypeOK
<1>6. Counted'
  <2>1. BusyOnes \in SUBSET Threads /\ busyThreads = Cardinality(BusyOnes)
    BY <1>0, NoneBusy, Zenon DEF Counted
  <2>2. BusyOnes' = BusyOnes \cup {t}
    BY <1>0, <1>1, <1>3, Zenon DEF BusyOnes, Scanning, TypeOK
  <2>3. busyThreads' = Cardinality(BusyOnes')
    <3>1. CASE pc[t] = "pull"
      <4>1. t \notin BusyOnes /\ Busy(t) = busyThreads
        BY <3>1, Zenon DEF BusyOnes, Scanning, Busy
      <4> QED
        BY <1>1, <2>1, <2>2, <4>1, ThreadSets
    <3>2. CASE pc[t] = "unbusy"
      <4>1. t \in BusyOnes /\ BusyOnes \cup {t} = BusyOnes /\ busyThreads' = busyThreads
        BY <1>0, <1>1, <1>2, <3>2 DEF TypeOK
      <4> QED
        BY <2>1, <2>2, <4>1, Zenon
    <3> QED
      BY <1>0, <3>1, <3>2, Zenon
  <2> QED
    BY <1>0, <1>1, <1>3, <2>3, Zenon DEF Counted, Scanning, Threads
<1>7. Phases'
  <2>1. t # Main => t \in ScanThreads /\ pc'[Main] = pc[Main]
    BY <1>3, Zenon DEF Threads
  <2> QED
    BY <1>0, <1>u, <1>3, <2>1, ThreadsAssumption, Zenon DEF Phases, Stopping, Threads
<1> QED
  BY <1>4, <1>5, <1>6, <1>7, Zenon DEF CInv

\* pullFromScanStackImpl that finds the stack empty no longer counts its thread as busy.
LEMMA PullNoneControl ==
  ASSUME CInv, NEW t \in Threads, PullNone(t)
  PROVE  CInv'
<1>0. TypeOK /\ Locals /\ Counted /\ Phases /\ pc[t] \in {"pull", "unbusy"} /\ scanStack = <<>>
  BY Zenon DEF CInv, PullNone
<1>u. UNCHANGED <<heap, mark, scanStack, evStackFilled, evDone, stoppedThreads, stopGC,
                  numScanThreads, scanThreadData, rng, stack, pcache, pulled>>
  BY Zenon DEF PullNone, control, local
<1>1. PICK l : /\ l = (IF t # Main THEN "report" ELSE IF Busy(t) > 0 THEN "wait" ELSE "idle")
               /\ Goto(t, l) /\ busyThreads' = Busy(t)
  BY Zenon DEF PullNone
<1>2. Busy(t) \in Nat /\ (pc[t] = "unbusy" => t \in BusyOnes /\ Busy(t) = busyThreads - 1)
  BY BusyType, Zenon
<1>3. PcOK(pc') /\ pc'[t] = l /\ \A s \in Threads \ {t} : pc'[s] = pc[s]
  <2>1. LabelOK(t, l) /\ PcOK(pc)
    BY <1>0, <1>1, Zenon DEF LabelOK, MainLabels, ScanLabels, PcOK, TypeOK
  <2> QED
    BY <1>1, <2>1, Wakes, Zenon DEF Goto, PcOK
<1>4. TypeOK'
  BY <1>0, <1>u, <1>1, <1>2, <1>3, Zenon DEF TypeOK, PcOK
<1>5. Locals'
  BY <1>0, <1>u, <1>1, <1>3, Zenon DEF Locals
<1>6. Counted'
  <2>1. BusyOnes \in SUBSET Threads /\ busyThreads = Cardinality(BusyOnes)
    BY <1>0, NoneBusy, Zenon DEF Counted
  <2>2. BusyOnes' = BusyOnes \ {t}
    BY <1>0, <1>u, <1>1, <1>3, Zenon DEF BusyOnes, Scanning, TypeOK
  <2>3. busyThreads' = Cardinality(BusyOnes')
    <3>1. CASE pc[t] = "pull"
      <4>1. BusyOnes \ {t} = BusyOnes /\ Busy(t) = busyThreads
        BY <3>1, Zenon DEF BusyOnes, Scanning, Busy
      <4> QED
        BY <1>1, <2>1, <2>2, <4>1, Zenon
    <3>2. CASE pc[t] = "unbusy"
      <4>1. t \in BusyOnes /\ Busy(t) = busyThreads - 1
        BY <1>2, <3>2, Zenon
      <4> QED
        BY <1>1, <2>1, <2>2, <4>1, ThreadSets, Zenon
    <3> QED
      BY <1>0, <3>1, <3>2, Zenon
  <2> QED
    BY <1>0, <1>u, <1>1, <1>3, <2>3, Zenon DEF Counted, Scanning, Threads
<1>7. Phases'
  <2>1. CASE t # Main
    <3>1. t \in ScanThreads /\ pc'[Main] = pc[Main]
      BY <1>3, <2>1, Zenon DEF Threads
    <3>2. busyThreads = 0 => busyThreads' = 0
      <4>1. busyThreads = 0 => pc[t] # "unbusy"
        BY <1>0, NoneBusy, Zenon DEF Counted, Scanning
      <4> QED
        BY <1>1, <4>1, Zenon DEF Busy
    <3> QED
      BY <1>0, <1>u, <1>1, <1>3, <2>1, <3>1, <3>2, Zenon DEF Phases, Stopping, Threads
  <2>2. CASE t = Main
    <3>1. stopGC => Busy(t) = 0
      <4>1. SUFFICES ASSUME stopGC PROVE BusyOnes' = {}
        <5>1. BusyOnes' \in SUBSET Threads /\ busyThreads' = Cardinality(BusyOnes')
          BY <1>4, <1>6, Zenon DEF BusyOnes, TypeOK, Counted
        <5> QED
          BY <1>1, <5>1, ThreadSets, Zenon
      <4>2. \A s \in ScanThreads : pc'[s] \in {"none", "ended"}
        BY <1>0, <1>3, <2>2, <4>1, ThreadsAssumption, Zenon DEF Phases, Stopping, Threads
      <4> QED
        BY <1>1, <1>3, <1>4, <2>2, <4>2, Zenon DEF BusyOnes, TypeOK, Scanning, Threads
    <3>2. \A s \in ScanThreads : pc'[s] = pc[s]
      BY <1>3, <2>2, ThreadsAssumption, Zenon DEF Threads
    <3>3. pc'[Main] = l /\ l \in {"wait", "idle"} /\ (l = "idle" => Busy(t) = 0) /\ (l = "wait" => Busy(t) # 0)
      BY <1>1, <1>2, <1>3, <2>2
    <3> QED
      BY <1>0, <1>u, <1>1, <2>2, <3>1, <3>2, <3>3, Zenon DEF Phases, Stopping
  <2> QED
    BY <2>1, <2>2, Zenon
<1> QED
  BY <1>4, <1>5, <1>6, <1>7, Zenon DEF CInv

(* The collecting thread starts the scan threads, a collection, and ends    *)
(* the scan threads.                                                        *)
LEMMA StartControl ==
  ASSUME CInv, NEW S \in SUBSET ScanThreads, startScanThreads(S)
  PROVE  CInv'
<1>0. TypeOK /\ Locals /\ Counted /\ Phases /\ pc[Main] = "idle" /\ scanThreadData = null
  BY Zenon DEF CInv, startScanThreads
<1>u. UNCHANGED <<heap, mark, scanStack, busyThreads, stoppedThreads, stopGC, rng, stack, pcache, pulled>>
  BY Zenon DEF startScanThreads, local
<1>1. /\ numScanThreads' = Cardinality(ScanThreads) /\ scanThreadData' = S
      /\ evStackFilled' = FALSE /\ evDone' = FALSE
      /\ pc' = [t \in Threads |-> IF t \in S THEN "loop" ELSE pc[t]]
  BY Zenon DEF startScanThreads
<1>2. PcOK(pc') /\ pc'[Main] = "idle" /\ \A t \in Threads : pc'[t] = pc[t] \/ (t \in S /\ pc'[t] = "loop")
  BY <1>0, <1>1, ThreadsAssumption, Zenon DEF PcOK, TypeOK, Threads, MainLabels, ScanLabels
<1>3. \A t \in ScanThreads : pc[t] \in {"none", "ended"}
  BY <1>0, Zenon DEF Phases
<1>4. TypeOK'
  <2>1. numScanThreads' \in Nat
    BY <1>1, ThreadsAssumption, FS_CardinalityType, Zenon
  <2>2. evStackFilled' \in BOOLEAN /\ evDone' \in BOOLEAN /\ scanThreadData' \in (SUBSET ScanThreads) \cup {null}
    BY <1>1, Zenon
  <2> QED
    BY <1>0, <1>u, <1>2, <2>1, <2>2, Zenon DEF TypeOK, PcOK
<1>5. Locals'
  <2>1. \A t \in Threads : pc'[t] # pc[t] => pc[t] \in {"none", "ended"} /\ pc'[t] = "loop"
    BY <1>2, <1>3, Zenon
  <2> QED
    BY <1>0, <1>u, <2>1, Zenon DEF Locals
<1>6. Counted'
  <2>1. \A s \in Threads : pc'[s] \in Scanning <=> pc[s] \in Scanning
    BY <1>2, <1>3, Zenon DEF Scanning
  <2>2. BusyOnes' = BusyOnes
    BY <1>0, <1>u, <2>1, Zenon DEF BusyOnes, TypeOK
  <2> QED
    BY <1>0, <1>u, <1>2, <2>1, <2>2, Zenon DEF Counted, Scanning, Threads
<1>7. Phases'
  <2>1. S # null
    BY NullAssumption, Zenon
  <2>2. ~stopGC
    BY <1>0, Zenon DEF Phases
  <2> QED
    BY <1>0, <1>u, <1>1, <1>2, <1>3, <2>1, <2>2, Zenon DEF Phases, Stopping, Threads
<1> QED
  BY <1>4, <1>5, <1>6, <1>7, Zenon DEF CInv

\* markParallel divides the roots among the scan stack and the collecting thread.
LEMMA MarkParallelControl ==
  ASSUME CInv, NEW h \in Heaps, markParallel(h)
  PROVE  /\ CInv'
         /\ rng'[Main] \in ScanRange
         /\ AllWords(scanStack') \cup WordsOf(rng'[Main]) = WordsOf(h.roots)
         /\ h.roots = <<>> => scanStack' = <<>>
<1>0. /\ TypeOK /\ Locals /\ Counted /\ Phases /\ pc[Main] = "idle" /\ numScanThreads \in Nat
      /\ Main \in Threads
  BY Zenon DEF CInv, markParallel, TypeOK, Threads
<1>u. UNCHANGED <<evStackFilled, evDone, busyThreads, stoppedThreads, stopGC,
                  numScanThreads, scanThreadData, stack>>
  BY Zenon DEF markParallel, control
<1>h. h.roots \in ScanRange
  BY HeapsAssumption, Zenon
<1>1. PICK n, given, own : Divided(h.roots, n, given, own)
  BY Zenon DEF Divided
<1>4. /\ Ranges(h.roots, n) \in Seq(ScanRange)
      /\ own \in ScanRange
      /\ AllWords(Ranges(h.roots, n)) \cup WordsOf(own) = WordsOf(h.roots)
      /\ h.roots = <<>> => Ranges(h.roots, n) = <<>> /\ own = <<>>
  <2>1. numScanThreads \in Nat
    BY <1>0, Zenon
  <2> QED
    BY <2>1, <1>h, <1>1, RootsShared DEF SharedOut
<1>5. scanStack' = Ranges(h.roots, n) /\ rng' = [rng EXCEPT ![Main] = own]
  <2>1. scanStack' = Ranges(h.roots, Len(h.roots) \div (numScanThreads + 1))
    BY Zenon DEF markParallel
  <2>2. rng' = [rng EXCEPT ![Main] =
                 Slice(h.roots, numScanThreads * (Len(h.roots) \div (numScanThreads + 1)),
                       Len(h.roots) - numScanThreads * (Len(h.roots) \div (numScanThreads + 1)))]
    BY Zenon DEF markParallel
  <2> QED
    BY <1>1, <2>1, <2>2, Zenon DEF Divided
<1>6. /\ heap' = h /\ mark' = {} /\ pcache' = [pcache EXCEPT ![Main] = null] /\ pulled' = pulled \ {Main}
      /\ h.roots = <<>> => pc' = pc
      /\ h.roots # <<>> => Goto(Main, "fill")
  BY Zenon DEF markParallel
<1>r. rng' \in [Threads -> ScanRange] /\ rng'[Main] = own /\ \A s \in Threads \ {Main} : rng'[s] = rng[s]
  BY <1>0, <1>4, <1>5, Zenon DEF TypeOK
<1>7. /\ PcOK(pc') /\ (h.roots = <<>> => pc'[Main] = "idle") /\ (h.roots # <<>> => pc'[Main] = "fill")
      /\ \A s \in Threads \ {Main} : pc'[s] = pc[s]
  <2>1. LabelOK(Main, "fill") /\ PcOK(pc)
    BY <1>0, Zenon DEF LabelOK, MainLabels, PcOK, TypeOK
  <2> QED
    BY <1>0, <1>6, <2>1, Wakes, Zenon DEF Goto, PcOK
<1>8. TypeOK'
  <2>1. /\ heap' \in Heaps \cup {EmptyHeap} /\ mark' \subseteq Objects /\ pulled' \subseteq Threads
        /\ scanStack' \in Seq(ScanRange)
        /\ pcache' \in [Threads -> ({null} \cup (Objects \X {"first", "later"}))]
    BY <1>0, <1>4, <1>5, <1>6, Zenon DEF TypeOK
  <2> QED
    BY <1>0, <1>u, <1>r, <1>7, <2>1, Zenon DEF TypeOK, PcOK
<1>9. Locals'
  BY <1>0, <1>u, <1>4, <1>r, <1>7, Zenon DEF Locals
<1>10. Counted'
  <2>1. BusyOnes' = BusyOnes
    BY <1>0, <1>6, <1>7, Zenon DEF BusyOnes, Scanning, TypeOK
  <2> QED
    BY <1>0, <1>u, <1>6, <1>7, <2>1, ThreadsAssumption, Zenon DEF Counted, Scanning, Threads
<1>11. Phases'
  <2>1. \A s \in ScanThreads : pc'[s] = pc[s]
    BY <1>7, ThreadsAssumption, Zenon DEF Threads
  <2>2. pc'[Main] \in {"idle", "fill"} /\ (pc'[Main] = "idle" => scanStack' = <<>>)
    BY <1>4, <1>5, <1>7, Zenon
  <2> QED
    BY <1>0, <1>u, <2>1, <2>2, Zenon DEF Phases, Stopping
<1> QED
  BY <1>4, <1>5, <1>r, <1>8, <1>9, <1>10, <1>11, Zenon DEF CInv

\* stopScanThreads returns when every scan thread has ended.
LEMMA StopJoinControl ==
  ASSUME CInv, StopJoin
  PROVE  CInv'
<1>0. TypeOK /\ Locals /\ Counted /\ Phases /\ pc[Main] = "stop" /\ Main \in Threads
  BY Zenon DEF CInv, StopJoin, Threads
<1>u. UNCHANGED <<heap, mark, scanStack, evStackFilled, evDone, busyThreads, stoppedThreads, stopGC,
                  rng, stack, pcache, pulled>>
  BY Zenon DEF StopJoin, shared, local
<1>1. scanThreadData' = {} /\ numScanThreads' = 0 /\ Goto(Main, "idle")
  BY Zenon DEF StopJoin
<1>2. \A t \in ScanThreads : pc[t] \in {"none", "ended"}
  BY <1>0, Zenon DEF StopJoin, Phases
<1>3. PcOK(pc') /\ pc'[Main] = "idle" /\ \A s \in Threads \ {Main} : pc'[s] = pc[s]
  <2>1. LabelOK(Main, "idle") /\ PcOK(pc)
    BY <1>0, Zenon DEF LabelOK, MainLabels, PcOK, TypeOK
  <2> QED
    BY <1>0, <1>1, <2>1, Wakes, Zenon DEF Goto, PcOK
<1>4. TypeOK'
  BY <1>0, <1>u, <1>1, <1>3, Zenon DEF TypeOK, PcOK
<1>5. Locals'
  BY <1>0, <1>u, <1>3, Zenon DEF Locals
<1>6. Counted'
  <2>1. BusyOnes' = BusyOnes
    BY <1>0, <1>u, <1>3, Zenon DEF BusyOnes, Scanning, TypeOK
  <2> QED
    BY <1>0, <1>u, <1>3, <2>1, Zenon DEF Counted, Scanning, Threads
<1>7. Phases'
  <2>1. \A t \in ScanThreads : pc'[t] \in {"none", "ended"}
    BY <1>2, <1>3, ThreadsAssumption, Zenon DEF Threads
  <2>2. {} # null
    BY NullAssumption, Zenon
  <2> QED
    BY <1>0, <1>u, <1>1, <1>3, <2>1, <2>2, Zenon DEF Phases, Stopping
<1> QED
  BY <1>4, <1>5, <1>6, <1>7, Zenon DEF CInv

(* The steps of a scan thread outside mark() and pullFromScanStack, and     *)
(* those of the collecting thread while it waits.                           *)
QuietScan(t) == Report(t) \/ Loop(t) \/ WaitFilled(t) \/ Spurious(t) \/ Stopped(t) \/ Bye(t)
QuietMain == Fill \/ WaitDone \/ Wake \/ Timeout \/ StopBegin \/ StopWait

\* What a scan thread does outside of mark() and the pops touches no range.
LEMMA QuietScanMoves ==
  ASSUME CInv, NEW t \in Threads, QuietScan(t)
  PROVE  /\ \E l : /\ LabelOK(t, l) /\ QuietMove(t, l)
                   /\ Goto(t, l) \/ SetDone(t, l)
                   /\ l = "blocked" => ~evStackFilled
         /\ UNCHANGED <<heap, mark, scanStack, busyThreads, numScanThreads, scanThreadData, local>>
         /\ evStackFilled' = evStackFilled
         /\ evDone' \in BOOLEAN /\ stoppedThreads' \in Nat
<1>0. TypeOK
  BY Zenon DEF CInv
<1>1. pc[t] \in {"loop", "filled", "blocked", "stop", "bye", "report"} /\ t # Main
  BY <1>0, Zenon DEF QuietScan, Report, Loop, WaitFilled, Spurious, Stopped, Bye, TypeOK, MainLabels
<1>2. /\ UNCHANGED <<heap, mark, scanStack, busyThreads, numScanThreads, scanThreadData, local>>
      /\ evStackFilled' = evStackFilled /\ stopGC' = stopGC
      /\ evDone' \in BOOLEAN /\ stoppedThreads' \in Nat
  <2>1. /\ UNCHANGED <<heap, mark, scanStack, busyThreads, numScanThreads, scanThreadData, local>>
        /\ evStackFilled' = evStackFilled /\ stopGC' = stopGC
        /\ evDone' = evDone \/ SetDone(t, "loop") \/ SetDone(t, "ended")
        /\ stoppedThreads' = stoppedThreads \/ stoppedThreads' = stoppedThreads + 1
    BY Zenon DEF QuietScan, Report, Loop, WaitFilled, Spurious, Stopped, Bye, shared, control, local
  <2>2. evDone' \in BOOLEAN
    <3>1. evDone' = evDone \/ evDone' = TRUE
      BY <2>1, Zenon DEF SetDone
    <3> QED
      BY <1>0, <3>1, Zenon DEF TypeOK
  <2>3. stoppedThreads' \in Nat
    BY <1>0, <2>1 DEF TypeOK
  <2> QED
    BY <2>1, <2>2, <2>3, Zenon
<1>3. \E l \in {"loop", "filled", "blocked", "stop", "bye", "ended", "pull"} :
        /\ Goto(t, l) \/ SetDone(t, l)
        /\ l = "blocked" => ~evStackFilled
  <2> DEFINE Way(l) == (Goto(t, l) \/ SetDone(t, l)) /\ (l = "blocked" => ~evStackFilled)
  <2>1. \/ Way("loop") \/ Way("filled") \/ Way("blocked") \/ Way("stop") \/ Way("bye")
        \/ Way("ended") \/ Way("pull")
    BY Zenon DEF QuietScan, Report, Loop, WaitFilled, Spurious, Stopped, Bye
  <2> QED
    BY <2>1, Zenon
<1>4. PICK l \in {"loop", "filled", "blocked", "stop", "bye", "ended", "pull"} :
        /\ Goto(t, l) \/ SetDone(t, l)
        /\ l = "blocked" => ~evStackFilled
  BY <1>3, Zenon
<1>5. LabelOK(t, l) /\ QuietMove(t, l)
  BY <1>1, <1>2, Zenon DEF LabelOK, QuietMove, ScanLabels
<1> QED
  BY <1>2, <1>4, <1>5, Zenon

\* What the collecting thread does outside of mark() and the pops touches no range.
LEMMA QuietMainMoves ==
  ASSUME CInv, QuietMain
  PROVE  /\ \E l : /\ LabelOK(Main, l) /\ QuietMove(Main, l)
                   /\ \/ Goto(Main, l) /\ evStackFilled' = evStackFilled /\ pc[Main] # "fill"
                      \/ SetFilled(Main, l)
         /\ UNCHANGED <<heap, mark, scanStack, busyThreads, numScanThreads, scanThreadData, local>>
         /\ evStackFilled' \in BOOLEAN /\ evDone' \in BOOLEAN /\ stoppedThreads' \in Nat
<1>0. TypeOK /\ Phases
  BY Zenon DEF CInv
<1> DEFINE Way(l) == \/ Goto(Main, l) /\ evStackFilled' = evStackFilled /\ pc[Main] # "fill"
                     \/ SetFilled(Main, l)
<1>1. /\ UNCHANGED <<heap, mark, scanStack, busyThreads, numScanThreads, scanThreadData, local>>
      /\ evDone' = evDone \/ evDone' = FALSE
      /\ stoppedThreads' = stoppedThreads
  BY Zenon DEF QuietMain, Fill, WaitDone, Wake, Timeout, StopBegin, StopWait, shared, control, local
<1>2. evStackFilled' = evStackFilled \/ evStackFilled' = (evStackFilled \/ numScanThreads > 0)
  <2>1. evStackFilled' = evStackFilled \/ SetFilled(Main, "mark") \/ SetFilled(Main, "wait")
    BY Zenon DEF QuietMain, Fill, WaitDone, Wake, Timeout, StopBegin, StopWait, shared
  <2> QED
    BY <2>1, Zenon DEF SetFilled
<1>3. evStackFilled' \in BOOLEAN /\ evDone' \in BOOLEAN /\ stoppedThreads' \in Nat
  BY <1>0, <1>1, <1>2, Zenon DEF TypeOK
<1>4. \E l : LabelOK(Main, l) /\ QuietMove(Main, l) /\ Way(l)
  <2>1. CASE Fill
    <3>1. LabelOK(Main, "mark") /\ QuietMove(Main, "mark") /\ SetFilled(Main, "mark")
      BY <2>1, Zenon DEF Fill, LabelOK, MainLabels, QuietMove, control
    <3> QED
      BY <3>1, Zenon
  <2>2. CASE WaitDone \/ Wake \/ Timeout
    <3>1. /\ Goto(Main, "asleep") \/ Goto(Main, Waited)
          /\ evStackFilled' = evStackFilled /\ stopGC' = stopGC
          /\ pc[Main] \in {"wait", "woken", "asleep"}
      BY <2>2, Zenon DEF WaitDone, Wake, Timeout, shared, control
    <3>2. /\ LabelOK(Main, "asleep") /\ QuietMove(Main, "asleep")
          /\ LabelOK(Main, Waited) /\ QuietMove(Main, Waited)
      BY <3>1, Zenon DEF LabelOK, MainLabels, QuietMove, Stopping, Waited
    <3>3. Way("asleep") \/ Way(Waited)
      BY <3>1, Zenon
    <3> HIDE DEF Way
    <3> QED
      BY <3>2, <3>3, Zenon
  <2>3. CASE StopBegin
    <3>0. /\ pc[Main] = "idle" /\ stopGC' = TRUE /\ evStackFilled' = evStackFilled
          /\ Goto(Main, "stop") /\ numScanThreads # 0
      BY <2>3 DEF StopBegin, shared
    <3>1. LabelOK(Main, "stop") /\ QuietMove(Main, "stop") /\ Way("stop")
      BY <1>0, <3>0, Zenon DEF LabelOK, MainLabels, QuietMove, Phases
    <3> HIDE DEF Way
    <3> QED
      BY <3>1, Zenon
  <2>4. CASE StopWait
    <3>1. LabelOK(Main, "wait") /\ QuietMove(Main, "wait") /\ SetFilled(Main, "wait")
      BY <2>4, Zenon DEF StopWait, LabelOK, MainLabels, QuietMove, Stopping, control
    <3> QED
      BY <3>1, Zenon
  <2> QED
    BY <2>1, <2>2, <2>3, <2>4, Zenon DEF QuietMain
<1> QED
  BY <1>1, <1>3, <1>4, Zenon

(* The next-state relation, sorted as the proofs do.                        *)
LEMMA Steps ==
  ASSUME Next
  PROVE  \/ \E t \in Threads : \/ Visit(t) \/ NextRange(t) \/ scanStackPushLocked(t)
                               \/ scanStackPopLocked(t) \/ Pull(t) \/ PullNone(t) \/ QuietScan(t)
         \/ \E S \in SUBSET ScanThreads : startScanThreads(S)
         \/ \E h \in Heaps : markParallel(h)
         \/ QuietMain \/ StopJoin
  BY Zenon DEF Next, Step, MainStep, QuietScan, QuietMain

\* Before the first collection nothing is to be scanned and nobody scans.
LEMMA ControlInit == Init => CInv
<1> SUFFICES ASSUME Init PROVE CInv
  BY Zenon
<1>1. TypeOK
  BY TypeInit, Zenon
<1>2. pc[Main] = "idle" /\ \A t \in ScanThreads : pc[t] = "none"
  BY ThreadsAssumption, Zenon DEF Init, Threads
<1>3. Locals
  BY <1>2, Zenon DEF Locals, Init, Threads
<1>4. Counted
  <2>1. BusyOnes = {}
    BY Zenon DEF Init, BusyOnes
  <2>2. Cardinality(BusyOnes) = 0
    BY <2>1, FS_EmptySet, Zenon
  <2> QED
    BY <1>2, <2>2, Zenon DEF Counted, Init, Scanning, Threads
<1>5. Phases
  BY <1>2, Zenon DEF Phases, Init, Stopping
<1> QED
  BY <1>1, <1>3, <1>4, <1>5, Zenon DEF CInv

\* Every step keeps the control invariant: it is inductive.
LEMMA ControlStep == CInv /\ [Next]_vars => CInv'
<1> SUFFICES ASSUME CInv, [Next]_vars PROVE CInv'
  BY Zenon
<1>1. CASE UNCHANGED vars
  BY <1>1, Zenon DEF vars, shared, control, local, CInv, TypeOK, Locals, Counted, BusyOnes, Phases
<1>2. CASE Next
  <2>1. ASSUME NEW t \in Threads, QuietScan(t) PROVE CInv'
    <3>1. evStackFilled' \in BOOLEAN
      BY <2>1, QuietScanMoves, Zenon DEF CInv, TypeOK
    <3> QED
      BY <2>1, <3>1, QuietScanMoves, QuietControl, Zenon
  <2>2. CASE QuietMain
    <3>1. Main \in Threads
      BY Zenon DEF Threads
    <3> QED
      BY <2>2, <3>1, QuietMainMoves, QuietControl, Zenon
  <2> QED
    BY <1>2, <2>1, <2>2, Steps, VisitControl, NextRangeControl, PushControl, PopControl,
       PullControl, PullNoneControl, StartControl, MarkParallelControl, StopJoinControl, Zenon
<1> QED
  BY <1>1, <1>2, Zenon

-----------------------------------------------------------------------------
(* evStackFilled is set while there are ranges, and wakes everybody.        *)

LEMMA FilledGoto ==
  ASSUME Filled, CInv, NEW t \in Threads, NEW l, Goto(t, l) \/ SetDone(t, l),
         l = "blocked" => ~evStackFilled, l = "fill" => scanStack' = <<>>,
         pc[t] = "fill" => t # Main,
         scanStack' # <<>> => scanStack # <<>>,
         UNCHANGED numScanThreads,
         evStackFilled' => evStackFilled,
         evStackFilled /\ ~evStackFilled' => scanStack' = <<>>
  PROVE  Filled'
<1>1. pc'[t] = l /\ \A s \in Threads \ {t} : pc'[s] = pc[s] \/ (pc[s] = "asleep" /\ pc'[s] = "woken")
  BY Zenon DEF Goto, SetDone, CInv, TypeOK
<1>2. evStackFilled' => \A s \in ScanThreads : pc'[s] # "blocked"
  BY <1>1, Zenon DEF Filled, Threads
<1>3. Main # t /\ pc'[Main] # "fill" => pc[Main] # "fill"
  BY <1>1, Zenon DEF Threads
<1>4. scanStack' # <<>> /\ numScanThreads' > 0 /\ pc'[Main] # "fill" => evStackFilled'
  BY <1>1, <1>3 DEF Filled
<1> QED
  BY <1>2, <1>4, Zenon DEF Filled

\* Setting evStackFilled makes sure that it is set and that nobody is blocked in its wait.
LEMMA FilledSet ==
  ASSUME NEW t \in Threads, NEW l, l # "blocked", SetFilled(t, l), UNCHANGED numScanThreads
  PROVE  Filled'
<1>1. evStackFilled' = (evStackFilled \/ numScanThreads > 0)
  BY Zenon DEF SetFilled
<1>2. \A s \in ScanThreads : pc'[s] # "blocked"
  BY Zenon DEF SetFilled, Threads
<1> QED
  BY <1>1, <1>2, Zenon DEF Filled

\* No step leaves a scan thread asleep beside ranges on the scan stack.
LEMMA FilledStep == CInv /\ Filled /\ [Next]_vars => Filled'
<1> SUFFICES ASSUME CInv, Filled, [Next]_vars PROVE Filled'
  BY Zenon
<1>0. TypeOK /\ Phases
  BY Zenon DEF CInv
<1>1. CASE UNCHANGED vars
  BY <1>1, Zenon DEF vars, shared, control, local, Filled
<1>2. ASSUME NEW t \in Threads, Visit(t) PROVE Filled'
  <2>1. UNCHANGED <<scanStack, evStackFilled, numScanThreads>>
    BY <1>2, Zenon DEF Visit, shared, control
  <2>2. pc' = pc \/ Goto(t, "push") \/ Goto(t, "mark")
    BY <1>2, Zenon DEF Visit, AddRange
  <2>3. pc[t] = "mark" /\ (pc' = pc => Goto(t, "mark"))
    BY <1>0, <1>2, SMTT(30) DEF Visit, Goto, TypeOK
  <2> QED
    BY <2>1, <2>2, <2>3, FilledGoto
<1>3. ASSUME NEW t \in Threads, NextRange(t) PROVE Filled'
  BY <1>3, Zenon DEF NextRange, Filled, shared, control
<1>4. ASSUME NEW t \in Threads, scanStackPushLocked(t) PROVE Filled'
  <2>1. UNCHANGED numScanThreads /\ pc[t] = "push"
    BY <1>4, Zenon DEF scanStackPushLocked, control
  <2>2. CASE SetFilled(t, "mark")
    BY <2>1, <2>2, FilledSet, Zenon
  <2>3. CASE scanStack # <<>> /\ Goto(t, "mark") /\ UNCHANGED evStackFilled
    BY <2>1, <2>3, FilledGoto
  <2> QED
    BY <1>4, <2>2, <2>3, Zenon DEF scanStackPushLocked
<1>p. ASSUME NEW t \in Threads, scanStack # <<>>, Pop(t)
      PROVE  /\ evStackFilled' => evStackFilled
             /\ evStackFilled /\ ~evStackFilled' => scanStack' = <<>>
  BY <1>0, <1>p, AllWordsLast, SMTT(30) DEF Pop, TypeOK
<1>5. ASSUME NEW t \in Threads, scanStackPopLocked(t) PROVE Filled'
  <2>1. UNCHANGED numScanThreads /\ pc[t] = "mark"
    BY <1>5, Zenon DEF scanStackPopLocked, control
  <2>2. CASE scanStack # <<>> /\ Pop(t) /\ UNCHANGED pc
    <3>1. Goto(t, "mark")
      BY <1>0, <2>1, <2>2, Zenon DEF Goto, TypeOK
    <3> QED
      BY <1>p, <2>1, <2>2, <3>1, FilledGoto, Zenon
  <2>3. CASE (Goto(t, "unbusy") \/ Goto(t, "pull")) /\ UNCHANGED <<scanStack, evStackFilled>>
    BY <2>1, <2>3, FilledGoto
  <2> QED
    BY <1>5, <2>2, <2>3, Zenon DEF scanStackPopLocked
<1>6. ASSUME NEW t \in Threads, Pull(t) PROVE Filled'
  <2>1. /\ UNCHANGED numScanThreads /\ pc[t] \in {"pull", "unbusy"}
        /\ scanStack # <<>> /\ Pop(t) /\ Goto(t, "mark")
    BY <1>6, Zenon DEF Pull, PullAs, control
  <2> QED
    BY <1>p, <2>1, FilledGoto
<1>7. ASSUME NEW t \in Threads, PullNone(t) PROVE Filled'
  <2>1. /\ UNCHANGED <<numScanThreads, scanStack, evStackFilled>> /\ pc[t] \in {"pull", "unbusy"}
        /\ Goto(t, "report") \/ Goto(t, "wait") \/ Goto(t, "idle")
    BY <1>7, Zenon DEF PullNone, control
  <2> QED
    BY <2>1, FilledGoto
<1>8. ASSUME NEW t \in Threads, QuietScan(t) PROVE Filled'
  <2>1. /\ UNCHANGED <<numScanThreads, scanStack, evStackFilled>>
        /\ \E l : /\ Goto(t, l) \/ SetDone(t, l)
                  /\ l = "blocked" => ~evStackFilled
                  /\ QuietMove(t, l)
    BY <1>8, QuietScanMoves, Zenon
  <2>2. PICK l : (Goto(t, l) \/ SetDone(t, l)) /\ (l = "blocked" => ~evStackFilled) /\ QuietMove(t, l)
    BY <2>1, Zenon
  <2>3. t # Main /\ l # "fill"
    BY <1>0, <1>8, <2>2, Zenon DEF QuietScan, Report, Loop, WaitFilled, Spurious, Stopped, Bye, TypeOK,
       MainLabels, QuietMove, Stopping
  <2> QED
    BY <2>1, <2>2, <2>3, FilledGoto, Zenon
<1>9. ASSUME NEW S \in SUBSET ScanThreads, startScanThreads(S) PROVE Filled'
  <2>1. scanStack' = <<>> /\ evStackFilled' = FALSE
    BY <1>0, <1>9, Zenon DEF startScanThreads, Phases
  <2> QED
    BY <2>1, Zenon DEF Filled
<1>10. ASSUME NEW h \in Heaps, markParallel(h) PROVE Filled'
  <2>1. UNCHANGED evStackFilled /\ (h.roots = <<>> => scanStack' = <<>> /\ pc' = pc)
    BY <1>10, MarkParallelControl, Zenon DEF markParallel
  <2>2. h.roots # <<>> => pc'[Main] = "fill" /\ \A s \in ScanThreads : pc'[s] = pc[s]
    BY <1>0, <1>10, ThreadsAssumption, Zenon DEF markParallel, Goto, TypeOK, Threads
  <2> QED
    BY <2>1, <2>2, Zenon DEF Filled
<1>11. CASE QuietMain
  <2>1. PICK l : /\ QuietMove(Main, l)
                 /\ \/ Goto(Main, l) /\ evStackFilled' = evStackFilled /\ pc[Main] # "fill"
                    \/ SetFilled(Main, l)
    BY <1>11, QuietMainMoves, Zenon
  <2>2. UNCHANGED <<scanStack, numScanThreads>> /\ Main \in Threads
    BY <1>11, QuietMainMoves, Zenon DEF Threads
  <2>3. l # "blocked" /\ l # "fill"
    BY <2>1, Zenon DEF QuietMove, Stopping
  <2> QED
    BY <2>1, <2>2, <2>3, FilledGoto, FilledSet
<1>12. CASE StopJoin
  <2>1. numScanThreads' = 0 /\ UNCHANGED evStackFilled /\ \A s \in ScanThreads : pc'[s] = pc[s]
    BY <1>0, <1>12, ThreadsAssumption, Zenon DEF StopJoin, shared, Goto, TypeOK, Threads
  <2> QED
    BY <2>1 DEF Filled
<1> QED
  BY <1>1, <1>2, <1>3, <1>4, <1>5, <1>6, <1>7, <1>8, <1>9, <1>10, <1>11, <1>12, Steps, Zenon

(* The collecting thread and the scan threads stay in their own code, with  *)
(* their own data; markParallel returns only when nobody scans and nothing  *)
(* is left to scan; and while there are ranges on the scan stack the event  *)
(* is set and no scan thread sleeps: scanStackPushLocked and the reset in   *)
(* the pops never lose a wake-up.  For any number of scan threads, any      *)
(* heaps and any size of the stack in mark().                               *)
THEOREM MarkControl == Spec => [](TypeOK /\ Quiescent /\ NoLostWakeup)
<1>1. Init => CInv /\ Filled
  <2>1. Init => Filled
    BY Zenon DEF Init, Filled
  <2> QED
    BY <2>1, ControlInit, Zenon
<1>2. CInv /\ Filled /\ [Next]_vars => (CInv /\ Filled)'
  BY ControlStep, FilledStep, Zenon
<1>3. CInv /\ Filled => TypeOK /\ Quiescent /\ NoLostWakeup
  <2> SUFFICES ASSUME CInv, Filled PROVE TypeOK /\ Quiescent /\ NoLostWakeup
    BY Zenon
  <2>1. TypeOK /\ Counted /\ Phases
    BY Zenon DEF CInv
  <2>2. Quiescent
    BY <2>1, NoneBusy, Zenon DEF Quiescent, Phases, Counted, Scanning, Threads
  <2>3. NoLostWakeup
    BY Zenon DEF NoLostWakeup, Filled
  <2> QED
    BY <2>1, <2>2, <2>3, Zenon
<1> QED
  BY <1>1, <1>2, <1>3, PTL DEF Spec

(* evStackFilled is never left reset beside ranges on the scan stack, and   *)
(* no scan thread sleeps there: what scanStackPushLocked sets the resets of *)
(* pullFromScanStackImpl never undo.                                        *)
THEOREM ScanThreadsAwake == Spec => []NoLostWakeup
  BY MarkControl, PTL

-----------------------------------------------------------------------------
(* Steps keep the invariant of marking.                                     *)

(* What t holds, what the stack holds, and what the others hold.            *)
Others(t) == UNION {Own(s) : s \in Threads \ {t}}

\* When only t moves, only its ranges and the shared stack change what is pending.
LEMMA PendingSplit ==
  ASSUME NEW t \in Threads, NEW w,
         \A s \in Threads \ {t} : rng'[s] = rng[s] /\ stack'[s] = stack[s]
  PROVE  /\ w \in Pending <=> \/ w \in Others(t) \/ w \in WordsOf(rng[t])
                              \/ w \in AllWords(stack[t]) \/ w \in AllWords(scanStack)
         /\ w \in Pending' <=> \/ w \in Others(t) \/ w \in WordsOf(rng'[t])
                               \/ w \in AllWords(stack'[t]) \/ w \in AllWords(scanStack')
<1>1. \A s \in Threads \ {t} : w \in Own(s)' <=> w \in Own(s)
  BY Zenon DEF Own
<1>2. w \in Own(t) <=> w \in WordsOf(rng[t]) \/ w \in AllWords(stack[t])
  BY Zenon DEF Own
<1>3. w \in Own(t)' <=> w \in WordsOf(rng'[t]) \/ w \in AllWords(stack'[t])
  BY Zenon DEF Own
<1>4. w \in Others(t) <=> \E s \in Threads \ {t} : w \in Own(s)
  BY Zenon DEF Others
<1>5. w \in Pending <=> (\E s \in Threads : w \in Own(s)) \/ w \in AllWords(scanStack)
  BY Zenon DEF Pending
<1>6. w \in Pending' <=> (\E s \in Threads : w \in Own(s)') \/ w \in AllWords(scanStack')
  BY Zenon DEF Pending
<1> QED
  BY <1>1, <1>2, <1>3, <1>4, <1>5, <1>6, Zenon

\* When t only moves ranges to or from the shared stack, as much is pending as before.
LEMMA PendingSame ==
  ASSUME NEW t \in Threads,
         \A s \in Threads \ {t} : rng'[s] = rng[s] /\ stack'[s] = stack[s],
         (WordsOf(rng'[t]) \cup AllWords(stack'[t])) \cup AllWords(scanStack')
           = (WordsOf(rng[t]) \cup AllWords(stack[t])) \cup AllWords(scanStack)
  PROVE  Pending' = Pending
<1>1. \A w : w \in Pending' <=> w \in Pending
  <2> TAKE w
  <2>1. w \in Pending <=> \/ w \in Others(t) \/ w \in WordsOf(rng[t])
                          \/ w \in AllWords(stack[t]) \/ w \in AllWords(scanStack)
    BY PendingSplit, Zenon
  <2>2. w \in Pending' <=> \/ w \in Others(t) \/ w \in WordsOf(rng'[t])
                           \/ w \in AllWords(stack'[t]) \/ w \in AllWords(scanStack')
    BY PendingSplit, Zenon
  <2> QED
    BY <2>1, <2>2, Zenon
<1> QED
  BY <1>1, Zenon

(* Moving ranges about changes nothing as long as none is lost.             *)
LEMMA MovedMarking ==
  ASSUME MInv, UNCHANGED <<heap, mark>>, Pending' = Pending,
         \A t \in Threads : pc'[t] \in {"fill", "mark", "push"} =>
             pcache'[t] = null \/ (pcache'[t] = pcache[t] /\ pc[t] \in {"fill", "mark", "push"})
  PROVE  MInv'
<1>0. Source' = Source
  BY Zenon DEF Source
<1>1. Complete' /\ Sound'
  BY <1>0, Zenon DEF MInv, Complete, Sound
<1>2. Cached'
  <2> SUFFICES ASSUME NEW t \in Threads, pc'[t] \in {"fill", "mark", "push"}, NEW o \in Objects
               PROVE  /\ pcache'[t] = <<o, "first">> => o \in mark'
                      /\ pcache'[t] = <<o, "later">> => o \in mark' \cup NoInterior
    BY Zenon DEF Cached
  <2>1. CASE pcache'[t] = null
    BY <2>1, NullAssumption, Zenon
  <2>2. CASE pcache'[t] = pcache[t] /\ pc[t] \in {"fill", "mark", "push"}
    BY <2>2, Zenon DEF MInv, Cached
  <2> QED
    BY <2>1, <2>2, Zenon
<1> QED
  BY <1>1, <1>2, Zenon DEF MInv

(* Between collections there is nothing to scan.                            *)
LEMMA IdlePending ==
  ASSUME CInv, pc[Main] = "idle"
  PROVE  /\ \A t \in Threads : rng[t] = <<>> /\ stack[t] = <<>> /\ pc[t] \notin {"fill", "mark", "push"}
         /\ scanStack = <<>>
         /\ Pending = {}
<1>0. TypeOK /\ Locals /\ Counted /\ scanStack = <<>> /\ busyThreads = 0
  BY Zenon DEF CInv, Phases
<1>1. ASSUME NEW t \in Threads PROVE pc[t] \notin {"fill", "mark", "push"}
  <2>1. CASE t = Main
    BY <2>1, Zenon
  <2>2. CASE t \in ScanThreads
    BY <1>0, <2>2, NoneBusy, Zenon DEF Counted, Scanning, TypeOK, ScanLabels
  <2> QED
    BY <2>1, <2>2, Zenon DEF Threads
<1>2. \A t \in Threads : rng[t] = <<>> /\ stack[t] = <<>>
  BY <1>0, <1>1, Zenon DEF Locals
<1>3. \A t \in Threads : Own(t) = {}
  BY <1>2, WordsEmpty, Zenon DEF Own
<1> QED
  BY <1>0, <1>1, <1>2, <1>3, WordsEmpty, Zenon DEF Pending

(* Ranges change hands.                                                     *)
LEMMA TakenMarking ==
  ASSUME CInv, MInv, NEW t \in Threads, scanStack # <<>>, Pop(t), rng[t] = <<>>,
         UNCHANGED <<heap, mark, stack>>, \A s \in Threads \ {t} : pc'[s] = pc[s]
  PROVE  MInv'
<1>0. /\ scanStack \in Seq(ScanRange) /\ rng \in [Threads -> ScanRange]
      /\ pcache \in [Threads -> ({null} \cup (Objects \X {"first", "later"}))]
  BY Zenon DEF CInv, TypeOK
<1>1. /\ rng' = [rng EXCEPT ![t] = Top(scanStack)] /\ scanStack' = Below(scanStack)
      /\ pcache' = [pcache EXCEPT ![t] = null] /\ stack' = stack
  BY Zenon DEF Pop
<1>2. AllWords(scanStack) = AllWords(scanStack') \cup WordsOf(rng'[t])
  BY <1>0, <1>1, AllWordsLast, Zenon
<1>3. Pending' = Pending
  <2>1. \A s \in Threads \ {t} : rng'[s] = rng[s] /\ stack'[s] = stack[s]
    BY <1>0, <1>1, Zenon
  <2>2. WordsOf(rng[t]) = {} /\ stack'[t] = stack[t]
    BY <1>1, WordsEmpty, Zenon
  <2> QED
    BY <1>2, <2>1, <2>2, PendingSame, Zenon
<1>4. \A s \in Threads : pcache'[s] = (IF s = t THEN null ELSE pcache[s])
  BY <1>0, <1>1, Zenon
<1> QED
  BY <1>3, <1>4, MovedMarking, Zenon

\* Taking the next range from the stack in mark() loses no word.
LEMMA NextRangeMarking ==
  ASSUME CInv, MInv, NEW t \in Threads, NextRange(t)
  PROVE  MInv'
<1>0. /\ rng[t] = <<>> /\ stack[t] # <<>> /\ stack[t] \in Seq(ScanRange)
      /\ rng \in [Threads -> ScanRange] /\ stack \in [Threads -> Seq(ScanRange)]
      /\ pcache \in [Threads -> ({null} \cup (Objects \X {"first", "later"}))]
  BY Zenon DEF CInv, TypeOK, NextRange
<1>1. /\ rng' = [rng EXCEPT ![t] = Top(stack[t])] /\ stack' = [stack EXCEPT ![t] = Below(stack[t])]
      /\ pcache' = [pcache EXCEPT ![t] = null]
      /\ UNCHANGED <<heap, mark, scanStack, pc>>
  BY Zenon DEF NextRange, shared
<1>2. AllWords(stack[t]) = AllWords(stack'[t]) \cup WordsOf(rng'[t])
  BY <1>0, <1>1, AllWordsLast, Zenon
<1>3. Pending' = Pending
  <2>1. \A s \in Threads \ {t} : rng'[s] = rng[s] /\ stack'[s] = stack[s]
    BY <1>0, <1>1, Zenon
  <2>2. WordsOf(rng[t]) = {} /\ scanStack' = scanStack
    BY <1>0, <1>1, WordsEmpty, Zenon
  <2> QED
    BY <1>2, <2>1, <2>2, PendingSame, Zenon
<1>4. \A s \in Threads : pcache'[s] = (IF s = t THEN null ELSE pcache[s])
  BY <1>0, <1>1, Zenon
<1> QED
  BY <1>1, <1>3, <1>4, MovedMarking, Zenon

\* Moving a range to the shared stack (scanStackPushLocked) loses no word.
LEMMA PushMarking ==
  ASSUME CInv, MInv, NEW t \in Threads, scanStackPushLocked(t)
  PROVE  MInv'
<1>0. /\ pc[t] = "push" /\ stack[t] # <<>> /\ stack[t] \in Seq(ScanRange) /\ scanStack \in Seq(ScanRange)
      /\ stack \in [Threads -> Seq(ScanRange)]
  BY Zenon DEF CInv, TypeOK, Locals, scanStackPushLocked
<1>1. /\ scanStack' = scanStack \o Reversed(Below(stack[t]))
      /\ stack' = [stack EXCEPT ![t] = <<Top(stack[t])>>]
      /\ SetFilled(t, "mark") \/ Goto(t, "mark")
      /\ UNCHANGED <<heap, mark, rng, pcache>>
  BY Zenon DEF scanStackPushLocked
<1>2. AllWords(scanStack') \cup AllWords(stack'[t]) = AllWords(scanStack) \cup AllWords(stack[t])
  <2>1. /\ AllWords(stack[t]) = AllWords(Below(stack[t])) \cup WordsOf(Top(stack[t]))
        /\ Top(stack[t]) \in ScanRange /\ Below(stack[t]) \in Seq(ScanRange)
    BY <1>0, AllWordsLast, Zenon
  <2>2. AllWords(scanStack') = AllWords(scanStack) \cup AllWords(Below(stack[t]))
    BY <1>0, <1>1, <2>1, AllWordsPush, Zenon
  <2>3. stack'[t] = <<Top(stack[t])>>
    BY <1>0, <1>1, Zenon
  <2>4. AllWords(stack'[t]) = WordsOf(Top(stack[t]))
    BY <2>1, <2>3, AllWordsOne, Zenon
  <2> QED
    BY <2>1, <2>2, <2>4, Zenon
<1>3. Pending' = Pending
  <2>1. \A s \in Threads \ {t} : rng'[s] = rng[s] /\ stack'[s] = stack[s]
    BY <1>0, <1>1, Zenon
  <2>2. rng'[t] = rng[t]
    BY <1>1, Zenon
  <2> QED
    BY <1>2, <2>1, <2>2, PendingSame, Zenon
<1>4. OnlyWakes(t)
  <2>1. PcOK(pc) /\ LabelOK(t, "mark")
    BY Zenon DEF CInv, TypeOK, PcOK, LabelOK, MainLabels, ScanLabels
  <2> QED
    BY <1>1, <2>1, Wakes, Zenon
<1>5. \A s \in Threads : pc'[s] \in {"fill", "mark", "push"} => pc[s] \in {"fill", "mark", "push"}
  BY <1>0, <1>4, Zenon DEF OnlyWakes
<1> QED
  BY <1>1, <1>3, <1>5, MovedMarking, Zenon

(* A collection begins.                                                     *)
LEMMA MarkParallelMarking ==
  ASSUME InteriorApart, CInv, MInv, NEW h \in Heaps, markParallel(h)
  PROVE  MInv'
<1>0. Main \in Threads /\ pc[Main] = "idle" /\ rng \in [Threads -> ScanRange]
      /\ pc \in [Threads -> MainLabels \cup ScanLabels]
      /\ pcache \in [Threads -> ({null} \cup (Objects \X {"first", "later"}))]
  BY Zenon DEF markParallel, Threads, CInv, TypeOK
<1>1. heap' = h /\ mark' = {} /\ stack' = stack /\ pcache' = [pcache EXCEPT ![Main] = null]
  BY Zenon DEF markParallel
<1>2. \A s \in Threads \ {Main} : rng'[s] = rng[s] /\ stack'[s] = stack[s] /\ pc'[s] = pc[s]
  BY <1>0, <1>1, Zenon DEF markParallel, Goto
<1>3. AllWords(scanStack') \cup WordsOf(rng'[Main]) = WordsOf(h.roots)
  BY MarkParallelControl, Zenon
<1>4. Pending' = WordsOf(h.roots)
  <2>1. Pending = {} /\ stack[Main] = <<>>
    BY <1>0, IdlePending, Zenon
  <2>2. AllWords(stack'[Main]) = {}
    BY <1>1, <2>1, WordsEmpty, Zenon
  <2>3. \A w : w \in Pending' <=> w \in WordsOf(h.roots)
    <3> TAKE w
    <3>1. w \notin Others(Main)
      BY <1>0, <1>2, <2>1, PendingSplit, Zenon
    <3>2. w \in Pending' <=> \/ w \in Others(Main) \/ w \in WordsOf(rng'[Main])
                             \/ w \in AllWords(stack'[Main]) \/ w \in AllWords(scanStack')
      BY <1>0, <1>2, PendingSplit, Zenon
    <3> QED
      BY <1>3, <2>2, <3>1, <3>2, Zenon
  <2> QED
    BY <2>3, Zenon
<1>5. Source' = WordsOf(h.roots)
  BY <1>1, Zenon DEF Source
<1>6. Complete' /\ mark' \subseteq Reachable(heap')
  BY <1>1, <1>4, <1>5, Zenon DEF Complete
<1>7. \A w \in Pending' : Apart(w) /\ (Keeps(w) => w.obj \in Reachable(heap'))
  <2>1. HeapOK(h)
    BY HeapType, Zenon
  <2> QED
    BY <1>1, <1>4, <2>1, ReachableFromRoots, Zenon DEF InteriorApart
<1>8. Cached'
  <2>1. \A t \in Threads : pc'[t] \in {"fill", "mark", "push"} => t = Main
    BY <1>0, <1>2, IdlePending, Zenon
  <2>2. pcache'[Main] = null
    BY <1>0, <1>1, Zenon
  <2> QED
    BY <2>1, <2>2, NullAssumption, Zenon DEF Cached
<1> QED
  BY <1>6, <1>7, <1>8, Zenon DEF MInv, Sound

(* The next word p of a range: what is left to scan is what there was,      *)
(* perhaps without p, and with the words of the block if that is new.       *)
Adds(t, p) == Found(t, p) /\ p.obj \notin mark \cup NoScan

\* Looking at a word in mark() replaces it by the words of the block it makes to be scanned.
LEMMA VisitPending ==
  ASSUME CInv, NEW t \in Threads, Visit(t), NEW p, p = Head(rng[t]), NEW w
  PROVE  /\ p \in Pending
         /\ w \in Pending => w \in Pending' \/ w = p
         /\ w \in Pending' => w \in Pending \/ (Adds(t, p) /\ w \in WordsOf(heap.words[p.obj]))
         /\ Adds(t, p) /\ w \in WordsOf(heap.words[p.obj]) => w \in Pending'
<1>0. /\ TypeOK /\ rng[t] # <<>> /\ rng[t] \in ScanRange /\ stack[t] \in Seq(ScanRange)
      /\ rng \in [Threads -> ScanRange] /\ stack \in [Threads -> Seq(ScanRange)]
      /\ scanStack' = scanStack
  BY Zenon DEF CInv, TypeOK, Visit, shared
<1>1. PICK tgt : tgt = heap.words[p.obj]
  BY Zenon
<1>2. Found(t, p) => tgt \in ScanRange
  BY <1>0, <1>1, HeadType, Zenon
<1>3. /\ WordsOf(rng[t]) = {p} \cup WordsOf(Tail(rng[t]))
      /\ Len(rng[t]) <= 1 => Tail(rng[t]) = <<>>
      /\ Len(rng[t]) \in Nat
  BY <1>0, WordsTail DEF ScanRange
<1>4. \/ /\ Adds(t, p)
         /\ rng' = [rng EXCEPT ![t] = Tail(rng[t])]
         /\ stack' = [stack EXCEPT ![t] = Append(stack[t], tgt)]
      \/ /\ Adds(t, p)
         /\ ~(Len(rng[t]) > 1)
         /\ rng' = [rng EXCEPT ![t] = tgt]
         /\ stack' = stack
      \/ /\ ~Adds(t, p)
         /\ rng' = [rng EXCEPT ![t] = Tail(rng[t])]
         /\ stack' = stack
  BY <1>1, Zenon DEF Visit, AddRange, Adds
<1>5. \A s \in Threads \ {t} : rng'[s] = rng[s] /\ stack'[s] = stack[s]
  BY <1>0, <1>4, Zenon
<1>6. \/ /\ Adds(t, p)
         /\ WordsOf(rng'[t]) = WordsOf(Tail(rng[t]))
         /\ AllWords(stack'[t]) = AllWords(stack[t]) \cup WordsOf(tgt)
      \/ /\ Adds(t, p)
         /\ WordsOf(Tail(rng[t])) = {} /\ WordsOf(rng'[t]) = WordsOf(tgt)
         /\ AllWords(stack'[t]) = AllWords(stack[t])
      \/ /\ ~Adds(t, p)
         /\ WordsOf(rng'[t]) = WordsOf(Tail(rng[t]))
         /\ AllWords(stack'[t]) = AllWords(stack[t])
  <2>1. CASE Adds(t, p) /\ rng' = [rng EXCEPT ![t] = Tail(rng[t])]
             /\ stack' = [stack EXCEPT ![t] = Append(stack[t], tgt)]
    <3>1. rng'[t] = Tail(rng[t]) /\ stack'[t] = Append(stack[t], tgt)
      BY <1>0, <2>1, Zenon
    <3>2. tgt \in ScanRange
      BY <1>2, <2>1, Zenon DEF Adds
    <3> QED
      BY <1>0, <2>1, <3>1, <3>2, AllWordsAppend, Zenon
  <2>2. CASE Adds(t, p) /\ ~(Len(rng[t]) > 1) /\ rng' = [rng EXCEPT ![t] = tgt] /\ stack' = stack
    <3>1. rng'[t] = tgt /\ stack'[t] = stack[t] /\ Tail(rng[t]) = <<>>
      BY <1>0, <1>3, <2>2
    <3> QED
      BY <2>2, <3>1, WordsEmpty, Zenon
  <2>3. CASE ~Adds(t, p) /\ rng' = [rng EXCEPT ![t] = Tail(rng[t])] /\ stack' = stack
    <3>1. rng'[t] = Tail(rng[t]) /\ stack'[t] = stack[t]
      BY <1>0, <2>3, Zenon
    <3> QED
      BY <2>3, <3>1, Zenon
  <2> QED
    BY <1>4, <2>1, <2>2, <2>3, Zenon
<1>7. p \in Pending
  <2>1. p \in WordsOf(rng[t])
    BY <1>3, Zenon
  <2> QED
    BY <1>5, <2>1, PendingSplit, Zenon
<1>8. w \in Pending <=> \/ w \in Others(t) \/ w \in WordsOf(rng[t])
                        \/ w \in AllWords(stack[t]) \/ w \in AllWords(scanStack)
  BY <1>5, PendingSplit, Zenon
<1>9. w \in Pending' <=> \/ w \in Others(t) \/ w \in WordsOf(rng'[t])
                         \/ w \in AllWords(stack'[t]) \/ w \in AllWords(scanStack)
  BY <1>0, <1>5, PendingSplit, Zenon
<1>10. /\ w \in Pending => w \in Pending' \/ w = p
       /\ w \in Pending' => w \in Pending \/ (Adds(t, p) /\ w \in WordsOf(tgt))
       /\ Adds(t, p) /\ w \in WordsOf(tgt) => w \in Pending'
  BY <1>3, <1>6, <1>8, <1>9, Zenon
<1> QED
  BY <1>1, <1>7, <1>10, Zenon

\* Looking at a word in mark() leaves no word unseen, the ones that pcache skips included.
LEMMA VisitMarking ==
  ASSUME InteriorApart, CInv, MInv, NEW t \in Threads, Visit(t)
  PROVE  MInv'
<1>0. TypeOK /\ Cached /\ Complete /\ Sound /\ pc[t] = "mark" /\ rng[t] # <<>>
  BY Zenon DEF CInv, MInv, Visit
<1>1. PICK p : p = Head(rng[t])
  BY Zenon
<1>2. /\ p \in Ptr \cup {null}
      /\ Found(t, p) => p.obj \in Objects
  BY <1>0, <1>1, HeadType, Zenon
<1>3. /\ heap' = heap /\ HeapOK(heap)
      /\ mark' = IF Found(t, p) THEN mark \cup {p.obj} ELSE mark
  BY <1>0, <1>1, HeapType, Zenon DEF Visit, TypeOK
<1>4. /\ p \in Pending
      /\ \A w \in Pending : w \in Pending' \/ w = p
      /\ \A w \in Pending' : w \in Pending \/ (Adds(t, p) /\ w \in WordsOf(heap.words[p.obj]))
      /\ Adds(t, p) => \A w \in WordsOf(heap.words[p.obj]) : w \in Pending'
  BY <1>1, VisitPending, Zenon
<1>5. Found(t, p) => Keeps(p) /\ p.obj \in Reachable(heap)
  BY <1>0, <1>4, Zenon DEF Found, Keeps, Sound
<1>6. p # null /\ Page(p) = pcache[t] /\ Page(p) = <<p.obj, "first">> => p.obj \in mark
  BY <1>0, <1>2, Zenon DEF Cached, Ptr
<1>7. Keeps(p) /\ ~Found(t, p) => p.obj \in mark
  <2> SUFFICES ASSUME Keeps(p), ~Found(t, p) PROVE p.obj \in mark
    BY Zenon
  <2>1. p \in Ptr /\ p.obj \in Objects /\ Page(p) = pcache[t]
    BY <1>2, Zenon DEF Keeps, Found, Ptr
  <2>2. CASE p.at = "later"
    <3>1. Page(p) = <<p.obj, "later">>
      BY <2>2, Zenon DEF Page
    <3>2. p.obj \in mark \cup NoInterior
      BY <1>0, <2>1, <3>1, Zenon DEF Cached
    <3> QED
      BY <2>2, <3>2, Zenon DEF Keeps
  <2>3. CASE p.at # "later"
    <3>1. Page(p) = <<p.obj, "first">>
      BY <2>3, Zenon DEF Page
    <3> QED
      BY <1>6, <2>1, <3>1, Zenon DEF Keeps
  <2> QED
    BY <2>2, <2>3, Zenon
<1>8. Complete'
  <2> SUFFICES ASSUME NEW w \in Source', Keeps(w) PROVE w.obj \in mark' \/ w \in Pending'
    BY Zenon DEF Complete
  <2>1. w \in Source \/ (Adds(t, p) /\ w \in WordsOf(heap.words[p.obj]))
    BY <1>3 DEF Source, Adds
  <2>2. CASE w \in Source
    BY <1>0, <1>3, <1>4, <1>7, <2>2, Zenon DEF Complete
  <2>3. CASE Adds(t, p) /\ w \in WordsOf(heap.words[p.obj])
    BY <1>4, <2>3, Zenon
  <2> QED
    BY <2>1, <2>2, <2>3, Zenon
<1>9. Sound'
  <2>1. mark' \subseteq Reachable(heap')
    BY <1>0, <1>3, <1>5, Zenon DEF Sound
  <2>2. ASSUME NEW w \in Pending' PROVE Apart(w) /\ (Keeps(w) => w.obj \in Reachable(heap'))
    <3>1. CASE w \in Pending
      BY <1>0, <1>3, <3>1, Zenon DEF Sound
    <3>2. CASE Adds(t, p) /\ w \in WordsOf(heap.words[p.obj])
      <4>1. p.obj \in Objects /\ p.obj \in Reachable(heap) /\ p.obj \notin NoScan
        BY <1>2, <1>5, <3>2, Zenon DEF Adds
      <4>2. Keeps(w) => w.obj \in Reachable(heap')
        BY <1>3, <3>2, <4>1, ReachableFromBlock, Zenon
      <4>3. Apart(w)
        <5>1. CASE heap \in Heaps
          BY <3>2, <4>1, <5>1, Zenon DEF InteriorApart
        <5>2. CASE heap = EmptyHeap
          <6>1. heap.words[p.obj] = <<null>>
            BY <4>1, <5>2, Zenon DEF EmptyHeap
          <6>2. w = null
            BY <3>2, <6>1 DEF WordsOf
          <6> QED
            BY <6>2, Zenon DEF Apart
        <5>3. heap \in Heaps \cup {EmptyHeap}
          BY <1>0, Zenon DEF TypeOK
        <5> QED
          BY <5>1, <5>2, <5>3, Zenon
      <4> QED
        BY <4>2, <4>3, Zenon
    <3> QED
      BY <1>4, <2>2, <3>1, <3>2, Zenon
  <2> QED
    BY <2>1, <2>2, Zenon DEF Sound
<1>10. Cached'
  <2>1. /\ \A s \in Threads \ {t} : pcache'[s] = pcache[s] /\ pc'[s] = pc[s]
        /\ pcache'[t] \in {null, Cache(t, p)}
        /\ ~Found(t, p) => pcache'[t] = Cache(t, p)
    <3> DEFINE Pages == {null} \cup (Objects \X {"first", "later"})
               Labels == MainLabels \cup ScanLabels
    <3>1. pcache \in [Threads -> Pages] /\ pc \in [Threads -> Labels]
      BY <1>0, Zenon DEF TypeOK
    <3>2. \/ pcache' = [pcache EXCEPT ![t] = Cache(t, p)]
          \/ Found(t, p) /\ pcache' = [pcache EXCEPT ![t] = null]
      BY <1>1, Zenon DEF Visit, AddRange
    <3>3. pc' = pc \/ \E l : Goto(t, l)
      BY <1>1, Zenon DEF Visit, AddRange
    <3> HIDE DEF Pages, Labels
    <3>4. /\ pcache'[t] \in {null, Cache(t, p)}
          /\ ~Found(t, p) => pcache'[t] = Cache(t, p)
          /\ \A s \in Threads \ {t} : pcache'[s] = pcache[s]
      BY <3>1, <3>2, Zenon
    <3>5. \A s \in Threads \ {t} : pc'[s] = pc[s]
      BY <3>1, <3>3, Zenon DEF Goto
    <3> QED
      BY <3>4, <3>5, Zenon
  <2> SUFFICES ASSUME NEW s \in Threads, pc'[s] \in {"fill", "mark", "push"}, NEW o \in Objects
               PROVE  /\ pcache'[s] = <<o, "first">> => o \in mark'
                      /\ pcache'[s] = <<o, "later">> => o \in mark' \cup NoInterior
    BY Zenon DEF Cached
  <2>2. mark \subseteq mark'
    BY <1>3, Zenon
  <2>3. /\ pcache[t] = <<o, "first">> => o \in mark
        /\ pcache[t] = <<o, "later">> => o \in mark \cup NoInterior
    BY <1>0, Zenon DEF Cached
  <2>4. CASE s # t
    BY <1>0, <2>1, <2>2, <2>4, Zenon DEF Cached
  <2>5. CASE s = t /\ pcache'[t] = null
    BY <2>5, NullAssumption, Zenon
  <2>6. CASE s = t /\ pcache'[t] = Cache(t, p) /\ Cache(t, p) = pcache[t]
    BY <2>2, <2>3, <2>6, Zenon
  <2>7. CASE s = t /\ pcache'[t] = Page(p) /\ p # null /\ p.obj \in Large
    <3>1. pcache'[t] = <<o, "first">> \/ pcache'[t] = <<o, "later">> => o = p.obj
      BY <2>7 DEF Page
    <3>2. CASE Found(t, p)
      BY <1>3, <2>7, <3>1, <3>2, Zenon
    <3>3. CASE Page(p) = pcache[t]
      BY <2>2, <2>3, <2>7, <3>3, Zenon
    <3>4. CASE p.obj \in NoInterior /\ p.at # "base"
      <4>1. p.at = "later"
        <5>1. p \in Ptr
          BY <1>2, <2>7, Zenon
        <5>2. Apart(p)
          BY <1>0, <1>4, Zenon DEF Sound
        <5> QED
          BY <2>7, <3>4, <5>1, <5>2, Zenon DEF Apart, Ptr
      <4>2. Page(p) = <<p.obj, "later">>
        BY <4>1, Zenon DEF Page
      <4> QED
        BY <2>7, <3>1, <3>4, <4>2
    <3> QED
      BY <2>7, <3>2, <3>3, <3>4, Zenon DEF Found
  <2>8. \/ Cache(t, p) = pcache[t]
        \/ Cache(t, p) = Page(p) /\ p # null /\ p.obj \in Large
    BY Zenon DEF Cache
  <2>9. pcache'[t] = null \/ pcache'[t] = Cache(t, p)
    BY <2>1, Zenon
  <2> QED
    BY <2>4, <2>5, <2>6, <2>7, <2>8, <2>9, Zenon
<1> QED
  BY <1>8, <1>9, <1>10, Zenon DEF MInv

\* Before the first collection nothing is marked and nothing is to be scanned.
LEMMA MarkingInit == Init => MInv
<1> SUFFICES ASSUME Init PROVE MInv
  BY Zenon
<1>1. CInv /\ pc[Main] = "idle"
  BY ControlInit, ThreadsAssumption, Zenon DEF Init, Threads
<1>2. Pending = {} /\ \A t \in Threads : pc[t] \notin {"fill", "mark", "push"}
  BY <1>1, IdlePending, Zenon
<1>3. Source = {}
  BY WordsEmpty, Zenon DEF Init, Source, EmptyHeap
<1> QED
  BY <1>2, <1>3, Zenon DEF MInv, Cached, Complete, Sound, Init

\* Every step keeps the marking invariant: it is inductive relative to CInv.
LEMMA MarkingStep ==
  ASSUME InteriorApart, CInv, MInv, [Next]_vars
  PROVE  MInv'
<1>0. TypeOK /\ Locals
  BY Zenon DEF CInv
<1>s. ASSUME UNCHANGED <<heap, mark, scanStack, rng, stack, pcache>>,
             \A s \in Threads : pc'[s] \in {"fill", "mark", "push"} => pc[s] \in {"fill", "mark", "push"}
      PROVE  MInv'
  <2>1. Pending' = Pending
    BY <1>s, Zenon DEF Pending, Own
  <2> QED
    BY <1>s, <2>1, MovedMarking, Zenon
<1>1. CASE UNCHANGED vars
  BY <1>s, <1>1, Zenon DEF vars, shared, local
<1>2. ASSUME NEW t \in Threads, scanStackPopLocked(t) PROVE MInv'
  <2>1. CASE scanStack # <<>> /\ Pop(t) /\ UNCHANGED pc
    BY <1>2, <2>1, TakenMarking, Zenon DEF scanStackPopLocked
  <2>2. CASE scanStack = <<>>
    <3>1. UNCHANGED <<heap, mark, scanStack, rng, stack, pcache>> /\ pc[t] = "mark"
          /\ (Goto(t, "unbusy") \/ Goto(t, "pull"))
      BY <1>2, <2>2, Zenon DEF scanStackPopLocked
    <3> QED
      BY <1>s, <1>0, <3>1, Zenon DEF Goto, TypeOK
  <2> QED
    BY <1>2, <2>1, <2>2, Zenon DEF scanStackPopLocked
<1>3. ASSUME NEW t \in Threads, Pull(t) PROVE MInv'
  <2>1. /\ scanStack # <<>> /\ Pop(t) /\ UNCHANGED <<heap, mark, stack>>
        /\ pc[t] \in {"pull", "unbusy"} /\ Goto(t, "mark")
    BY <1>3, Zenon DEF Pull, PullAs
  <2>2. rng[t] = <<>> /\ \A s \in Threads \ {t} : pc'[s] = pc[s]
    BY <1>0, <2>1, Zenon DEF Locals, Goto, TypeOK
  <2> QED
    BY <2>1, <2>2, TakenMarking, Zenon
<1>4. ASSUME NEW t \in Threads, PullNone(t) PROVE MInv'
  <2>1. /\ UNCHANGED <<heap, mark, scanStack, rng, stack, pcache>>
        /\ Goto(t, "report") \/ Goto(t, "wait") \/ Goto(t, "idle")
    BY <1>4, Zenon DEF PullNone, local
  <2> QED
    BY <1>s, <1>0, <2>1, Zenon DEF Goto, TypeOK
<1>q. ASSUME NEW t \in Threads, NEW l, LabelOK(t, l), QuietMove(t, l),
             Goto(t, l) \/ SetFilled(t, l) \/ SetDone(t, l),
             UNCHANGED <<heap, mark, scanStack, local>>
      PROVE  MInv'
  <2>1. pc'[t] = l /\ OnlyWakes(t)
    BY <1>0, <1>q, Wakes, Zenon DEF TypeOK, PcOK
  <2>2. \A s \in Threads : pc'[s] \in {"fill", "mark", "push"} => pc[s] \in {"fill", "mark", "push"}
    BY <1>q, <2>1, Zenon DEF OnlyWakes, QuietMove, Stopping
  <2> QED
    BY <1>q, <1>s, <2>2, Zenon DEF local
<1>5. ASSUME NEW t \in Threads, QuietScan(t) PROVE MInv'
  BY <1>q, <1>5, QuietScanMoves, Zenon
<1>6. CASE QuietMain
  <2>1. Main \in Threads
    BY Zenon DEF Threads
  <2> QED
    BY <1>q, <1>6, <2>1, QuietMainMoves, Zenon
<1>7. ASSUME NEW S \in SUBSET ScanThreads, startScanThreads(S) PROVE MInv'
  <2>1. /\ UNCHANGED <<heap, mark, scanStack, rng, stack, pcache>>
        /\ pc' = [t \in Threads |-> IF t \in S THEN "loop" ELSE pc[t]]
    BY <1>7, Zenon DEF startScanThreads, local
  <2> QED
    BY <1>s, <2>1, Zenon
<1>8. CASE StopJoin
  <2>1. UNCHANGED <<heap, mark, scanStack, rng, stack, pcache>> /\ Goto(Main, "idle")
    BY <1>8, Zenon DEF StopJoin, shared, local
  <2> QED
    BY <1>s, <1>0, <2>1, Zenon DEF Goto, TypeOK
<1> QED
  BY <1>1, <1>2, <1>3, <1>4, <1>5, <1>6, <1>7, <1>8, Steps, VisitMarking, NextRangeMarking,
     PushMarking, MarkParallelMarking, Zenon

(* When markParallel has returned, exactly the reachable blocks are marked, *)
(* for any number of scan threads, any size of the stack in mark() and any  *)
(* heaps without a pointer that is to the first page of a NO_INTERIOR block *)
(* and not to its base: with one the page cache of mark() may skip a later  *)
(* pointer to the base.                                                     *)
THEOREM Marking == ASSUME InteriorApart PROVE Spec => []MarkExact
<1>1. Init => CInv /\ MInv
  BY ControlInit, MarkingInit, Zenon
<1>2. CInv /\ MInv /\ [Next]_vars => (CInv /\ MInv)'
  BY ControlStep, MarkingStep, Zenon
<1>3. CInv /\ MInv => MarkExact
  <2> SUFFICES ASSUME CInv, MInv, pc[Main] = "idle" PROVE mark = Reachable(heap)
    BY Zenon DEF MarkExact
  <2>1. mark \subseteq Objects /\ HeapOK(heap)
    BY HeapType, Zenon DEF CInv, TypeOK
  <2>2. Pending = {}
    BY IdlePending, Zenon
  <2>3. \A w \in Source : Keeps(w) => w.obj \in mark
    BY <2>2, Zenon DEF MInv, Complete
  <2>4. Closed(heap, mark)
    BY <2>3 DEF Closed, Source, WordsOf
  <2> QED
    BY <2>1, <2>4, ReachableLeast, Zenon DEF MInv, Sound
<1> QED
  BY <1>1, <1>2, <1>3, PTL DEF Spec
=============================================================================
