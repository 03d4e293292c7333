-------------------------- MODULE GossipQueue_proofs --------------------------
(***************************************************************************)
(* Proofs about GossipQueue, for every set of subjects, every size of the  *)
(* cluster and of a packet.                                                *)
(*                                                                         *)
(* Sorting and retaining are both rankings: the element at a place is the  *)
(* one with so many before it.  What they do to a queue follows from one   *)
(* lemma about those.                                                      *)
(***************************************************************************)
EXTENDS GossipQueue, FiniteSetTheorems, SequenceTheorems, TLAPS

-----------------------------------------------------------------------------
(* Rankings.                                                                *)

\* R orders S, strictly and totally.
Orders(R, S) ==
    /\ \A x \in S : <<x, x>> \notin R
    /\ \A x, y, z \in S : <<x, y>> \in R /\ <<y, z>> \in R => <<x, z>> \in R
    /\ \A x, y \in S : x = y \/ <<x, y>> \in R \/ <<y, x>> \in R

Under(R, S, x) == {y \in S : <<y, x>> \in R}

\* In a finite order every rank is some element's and no two have the same; who comes
\* before another has the lower rank.
LEMMA Ranks ==
    ASSUME NEW S, IsFiniteSet(S), NEW R, Orders(R, S)
    PROVE  /\ Cardinality(S) \in Nat
           /\ \A x \in S : Cardinality(Under(R, S, x)) \in 0 .. Cardinality(S) - 1
           /\ \A k \in 1 .. Cardinality(S) :
                 \E x \in S : Cardinality(Under(R, S, x)) = k - 1
           /\ \A x, y \in S :
                 <<x, y>> \in R <=> Cardinality(Under(R, S, x)) < Cardinality(Under(R, S, y))
<1> DEFINE n == Cardinality(S)
           r == [x \in S |-> Cardinality(Under(R, S, x))]
<1>1. n \in Nat
  BY FS_CardinalityType
<1>2. ASSUME NEW x \in S
      PROVE  IsFiniteSet(Under(R, S, x)) /\ r[x] \in 0 .. n - 1
  <2>1. Under(R, S, x) \in SUBSET (S \ {x})
    BY DEF Under, Orders
  <2>2. IsFiniteSet(S \ {x}) /\ Cardinality(S \ {x}) = n - 1
    BY FS_RemoveElement
  <2>3. IsFiniteSet(Under(R, S, x)) /\ Cardinality(Under(R, S, x)) <= n - 1
    BY <2>1, <2>2, FS_Subset
  <2>4. Cardinality(Under(R, S, x)) \in Nat
    BY <2>3, FS_CardinalityType
  <2> QED
    BY <1>1, <2>3, <2>4
<1>3. ASSUME NEW x \in S, NEW y \in S, <<x, y>> \in R PROVE r[x] < r[y]
  <2>1. Under(R, S, x) \in SUBSET Under(R, S, y)
    BY <1>3 DEF Under, Orders
  <2>2. x \in Under(R, S, y) /\ x \notin Under(R, S, x)
    BY <1>3 DEF Under, Orders
  <2>3. /\ Cardinality(Under(R, S, x)) <= Cardinality(Under(R, S, y))
        /\ Cardinality(Under(R, S, x)) # Cardinality(Under(R, S, y))
    BY <1>2, <2>1, <2>2, FS_Subset
  <2>4. r[x] \in Int /\ r[y] \in Int
    BY <1>2
  <2> QED
    BY <2>3, <2>4
<1>4. ASSUME NEW x \in S, NEW y \in S, r[x] < r[y] PROVE <<x, y>> \in R
  <2>1. r[x] \in Int /\ r[y] \in Int
    BY <1>2
  <2>2. x # y /\ ~(r[y] < r[x])
    BY <1>4, <2>1
  <2>3. <<y, x>> \notin R
    BY <1>3, <2>2
  <2> QED
    BY <2>2, <2>3 DEF Orders
<1>5. r \in Injection(S, 0 .. n - 1)
  <2>1. r \in [S -> 0 .. n - 1]
    BY <1>2
  <2>2. ASSUME NEW x \in S, NEW y \in S, r[x] = r[y] PROVE x = y
    <3>1. r[x] \in Int /\ r[y] \in Int
      BY <1>2
    <3>2. ~(r[x] < r[y]) /\ ~(r[y] < r[x])
      BY <2>2, <3>1
    <3>3. <<x, y>> \notin R /\ <<y, x>> \notin R
      BY <1>3, <3>2
    <3> QED
      BY <3>3 DEF Orders
  <2> QED
    BY <2>1, <2>2 DEF Injection, IsInjective
<1>6. r \in Surjection(S, 0 .. n - 1)
  <2>1. IsFiniteSet(0 .. n - 1) /\ Cardinality(0 .. n - 1) = n
    BY <1>1, FS_Interval
  <2> QED
    BY <1>5, <2>1, FS_Injection
<1>7. ASSUME NEW k \in 1 .. n PROVE \E x \in S : r[x] = k - 1
  <2>1. k - 1 \in 0 .. n - 1
    BY <1>1
  <2> QED
    BY <1>6, <2>1 DEF Surjection
<1> QED
  BY <1>1, <1>2, <1>3, <1>4, <1>7

-----------------------------------------------------------------------------
(* Retaining and sorting.                                                   *)

Pending == [subject : Subject, version : Version, left : Nat \ {0}]

\* A function on the first numbers is a sequence.
LEMMA SeqType ==
    ASSUME NEW X, NEW n \in Nat, NEW f \in [1 .. n -> X]
    PROVE  f \in Seq(X)
BY SeqDef

\* r has q's elements at these places, at[k] the k-th of them, each once.
Retains(r, q, places, at) ==
    LET n == Cardinality(places)
    IN  /\ n \in Nat /\ at \in [1 .. n -> places]
        /\ \A j, k \in 1 .. n : at[j] = at[k] => j = k
        /\ \A i \in places : \E k \in 1 .. n : at[k] = i
        /\ Len(r) = n /\ \A k \in 1 .. n : r[k] = q[at[k]]

\* What is retained is what was at those places, each once.
LEMMA KeptIs ==
    ASSUME NEW X, NEW q \in Seq(X), NEW places \in SUBSET (DOMAIN q)
    PROVE  Kept(q, places) \in Seq(X) /\ \E at : Retains(Kept(q, places), q, places, at)
<1> DEFINE n == Cardinality(places)
           Before(i) == {j \in places : j < i}
           R == {p \in places \X places : p[1] < p[2]}
           at == [k \in 1 .. n |-> CHOOSE i \in places : Cardinality(Before(i)) = k - 1]
<1>1. Len(q) \in Nat /\ q \in [1 .. Len(q) -> X] /\ DOMAIN q = 1 .. Len(q)
  BY LenProperties
<1>2. IsFiniteSet(places)
  <2>1. IsFiniteSet(1 .. Len(q))
    BY <1>1, FS_Interval
  <2> QED
    BY <1>1, <2>1, FS_Subset
<1>3. Orders(R, places)
  <2>1. \A i \in places : i \in Int
    BY <1>1
  <2> QED
    BY <2>1 DEF Orders
<1>4. ASSUME NEW i \in places PROVE Under(R, places, i) = Before(i)
  BY DEF Under
<1>5. /\ n \in Nat
      /\ \A i \in places : Cardinality(Before(i)) \in 0 .. n - 1
      /\ \A k \in 1 .. n : \E i \in places : Cardinality(Before(i)) = k - 1
      /\ \A i, j \in places : <<i, j>> \in R <=> Cardinality(Before(i)) < Cardinality(Before(j))
  <2> HIDE DEF R, Before
  <2> QED
    BY <1>2, <1>3, <1>4, Ranks
<1>6. ASSUME NEW k \in 1 .. n PROVE at[k] \in places /\ Cardinality(Before(at[k])) = k - 1
  <2> HIDE DEF Before
  <2>1. \E i \in places : Cardinality(Before(i)) = k - 1
    BY <1>5
  <2> QED
    BY <2>1
<1>7. at \in [1 .. n -> places]
  BY <1>6
<1>8. \A j, k \in 1 .. n : at[j] = at[k] => j = k
  <2> HIDE DEF at, Before
  <2>1. ASSUME NEW j \in 1 .. n, NEW k \in 1 .. n, at[j] = at[k] PROVE j = k
    <3>1. j - 1 = k - 1
      BY <1>6, <2>1
    <3> QED
      BY <3>1, <1>5
  <2> QED
    BY <2>1
<1>9. ASSUME NEW i \in places PROVE \E k \in 1 .. n : at[k] = i
  <2> HIDE DEF at
  <2>1. PICK k \in 1 .. n : k - 1 = Cardinality(Before(i))
    <3>1. Cardinality(Before(i)) + 1 \in 1 .. n /\ (Cardinality(Before(i)) + 1) - 1 = Cardinality(Before(i))
      BY <1>5
    <3> QED
      BY <3>1
  <2>2. at[k] \in places /\ Cardinality(Before(at[k])) = Cardinality(Before(i))
    BY <1>6, <2>1
  <2>3. <<i, at[k]>> \notin R /\ <<at[k], i>> \notin R
    <3>1. Cardinality(Before(i)) \in Int
      BY <1>5
    <3> HIDE DEF R, Before
    <3> QED
      BY <1>5, <2>2, <3>1
  <2>4. at[k] = i
    BY <1>3, <2>2, <2>3 DEF Orders
  <2> QED
    BY <2>4
<1>10. Kept(q, places) = [k \in 1 .. n |-> q[at[k]]]
  BY DEF Kept
<1>11. Kept(q, places) \in Seq(X) /\ Len(Kept(q, places)) = n
  <2> HIDE DEF at
  <2>1. Kept(q, places) \in [1 .. n -> X]
    BY <1>1, <1>7, <1>10
  <2> QED
    BY <1>5, <2>1, SeqDef, LenProperties
<1>12. \A k \in 1 .. n : Kept(q, places)[k] = q[at[k]]
  BY <1>10
<1>13. Retains(Kept(q, places), q, places, at)
  <2> HIDE DEF at
  <2> QED
    BY <1>5, <1>7, <1>8, <1>9, <1>11, <1>12 DEF Retains
<1> QED
  BY <1>11, <1>13

\* The sort moves each pending rumor to a place of its own, most sends left first.
LEMMA SortedIs ==
    ASSUME NEW q \in Seq(Pending)
    PROVE  \E at \in [1 .. Len(q) -> 1 .. Len(q)] :
              /\ \A j, k \in 1 .. Len(q) : at[j] = at[k] => j = k
              /\ \A i \in 1 .. Len(q) : \E k \in 1 .. Len(q) : at[k] = i
              /\ Sorted(q) \in Seq(Pending) /\ Len(Sorted(q)) = Len(q)
              /\ \A k \in 1 .. Len(q) : Sorted(q)[k] = q[at[k]]
              /\ \A j, k \in 1 .. Len(q) : j < k => q[at[j]].left >= q[at[k]].left
<1> DEFINE n == Len(q)
           D == 1 .. n
           Before(i) == {j \in DOMAIN q : \/ q[j].left > q[i].left
                                          \/ q[j].left = q[i].left /\ j < i}
           R == {p \in D \X D : \/ q[p[1]].left > q[p[2]].left
                                \/ q[p[1]].left = q[p[2]].left /\ p[1] < p[2]}
           at == [k \in 1 .. n |-> CHOOSE i \in DOMAIN q : Cardinality(Before(i)) = k - 1]
<1>1. n \in Nat /\ q \in [D -> Pending] /\ DOMAIN q = D
  BY LenProperties
<1>2. IsFiniteSet(D) /\ Cardinality(D) = n
  BY <1>1, FS_Interval
<1>3. \A i \in D : i \in Nat /\ q[i].left \in Nat
  BY <1>1 DEF Pending
<1>4. Orders(R, D)
  <2>1. \A x \in D : <<x, x>> \notin R
    BY <1>3
  <2>2. \A x, y, z \in D : <<x, y>> \in R /\ <<y, z>> \in R => <<x, z>> \in R
    BY <1>3
  <2>3. \A x, y \in D : x = y \/ <<x, y>> \in R \/ <<y, x>> \in R
    BY <1>3
  <2> QED
    BY <2>1, <2>2, <2>3 DEF Orders
<1>5. ASSUME NEW i \in D PROVE Under(R, D, i) = Before(i)
  BY <1>1 DEF Under
<1>6. /\ \A i \in D : Cardinality(Before(i)) \in 0 .. n - 1
      /\ \A k \in 1 .. n : \E i \in D : Cardinality(Before(i)) = k - 1
      /\ \A i, j \in D : <<i, j>> \in R <=> Cardinality(Before(i)) < Cardinality(Before(j))
  <2> HIDE DEF R, Before, D
  <2> QED
    BY <1>2, <1>4, <1>5, Ranks
<1>7. ASSUME NEW k \in 1 .. n PROVE at[k] \in D /\ Cardinality(Before(at[k])) = k - 1
  <2> HIDE DEF Before
  <2>1. \E i \in DOMAIN q : Cardinality(Before(i)) = k - 1
    BY <1>1, <1>6
  <2> QED
    BY <1>1, <2>1
<1>8. at \in [1 .. n -> D]
  BY <1>7
<1>9. \A j, k \in 1 .. n : at[j] = at[k] => j = k
  <2> HIDE DEF at, Before
  <2>1. ASSUME NEW j \in 1 .. n, NEW k \in 1 .. n, at[j] = at[k] PROVE j = k
    <3>1. j - 1 = k - 1
      BY <1>7, <2>1
    <3> QED
      BY <3>1, <1>1
  <2> QED
    BY <2>1
<1>10. ASSUME NEW i \in D PROVE \E k \in 1 .. n : at[k] = i
  <2> HIDE DEF at
  <2>1. PICK k \in 1 .. n : k - 1 = Cardinality(Before(i))
    <3>1. Cardinality(Before(i)) + 1 \in 1 .. n /\ (Cardinality(Before(i)) + 1) - 1 = Cardinality(Before(i))
      BY <1>1, <1>6
    <3> QED
      BY <3>1
  <2>2. at[k] \in D /\ Cardinality(Before(at[k])) = Cardinality(Before(i))
    BY <1>7, <2>1
  <2>3. <<i, at[k]>> \notin R /\ <<at[k], i>> \notin R
    <3>1. Cardinality(Before(i)) \in Int
      BY <1>6
    <3> HIDE DEF R, Before, D
    <3> QED
      BY <1>6, <2>2, <3>1
  <2>4. at[k] = i
    <3> HIDE DEF R
    <3> QED
      BY <1>4, <2>2, <2>3 DEF Orders
  <2> QED
    BY <2>4
<1>11. Sorted(q) = [k \in 1 .. n |-> q[at[k]]]
  BY <1>1 DEF Sorted
<1>12. Sorted(q) \in Seq(Pending) /\ Len(Sorted(q)) = n
  <2> HIDE DEF at
  <2>1. Sorted(q) \in [1 .. n -> Pending]
    BY <1>1, <1>8, <1>11
  <2> QED
    BY <1>1, <2>1, SeqDef, LenProperties
<1>13. \A k \in 1 .. n : Sorted(q)[k] = q[at[k]]
  BY <1>11
<1>14. ASSUME NEW j \in 1 .. n, NEW k \in 1 .. n, j < k PROVE q[at[j]].left >= q[at[k]].left
  <2> HIDE DEF at
  <2>1. at[j] \in D /\ at[k] \in D
    BY <1>8
  <2>2. <<at[j], at[k]>> \in R
    <3>1. j - 1 < k - 1
      BY <1>14, <1>1
    <3>2. Cardinality(Before(at[j])) < Cardinality(Before(at[k]))
      BY <1>7, <3>1
    <3> HIDE DEF R, Before
    <3> QED
      BY <1>6, <2>1, <3>2
  <2> QED
    BY <1>3, <2>1, <2>2
<1> HIDE DEF at
<1> QED
  BY <1>8, <1>9, <1>10, <1>12, <1>13, <1>14

-----------------------------------------------------------------------------
(* The steps.                                                               *)

\* A rumor is sent at least once.
LEMMA LimitType ==
    ASSUME NEW size \in ClusterSize
    PROVE  RetransmitLimit(size) \in Nat \ {0}
<1>1. size \in Nat
  BY SizeAssumption
<1>2. Log2(size) \in Nat
  <2>1. IsFiniteSet(0 .. size)
    BY <1>1, FS_Interval
  <2>2. IsFiniteSet({j \in 0 .. size : 2 ^ j < size})
    BY <2>1, FS_Subset
  <2> QED
    BY <2>2, FS_CardinalityType DEF Log2
<1> QED
  BY <1>2 DEF RetransmitLimit, RetransmitMult

\* A push leaves the rumors about others as they are, and the new one is the only one
\* about its subject.
LEMMA PushIs ==
    ASSUME TypeOK, OnePerSubject, NEW s \in Subject, NEW v \in Version,
           NEW size \in ClusterSize, Push(s, v, size)
    PROVE  LET new == [subject |-> s, version |-> v, left |-> RetransmitLimit(size)]
           IN  /\ TypeOK' /\ OnePerSubject' /\ new \in Pending
               /\ \A k \in DOMAIN queue' :
                     \/ queue'[k] = new
                     \/ \E i \in DOMAIN queue : queue'[k] = queue[i] /\ queue[i].subject # s
               /\ \E k \in DOMAIN queue' : queue'[k] = new
               /\ \A i \in DOMAIN queue : queue[i].subject # s =>
                     \E k \in DOMAIN queue' : queue'[k] = queue[i]
<1> DEFINE new == [subject |-> s, version |-> v, left |-> RetransmitLimit(size)]
           places == {i \in DOMAIN queue : queue[i].subject # s}
           n == Cardinality(places)
           rest == Kept(queue, places)
<1>1. /\ queue \in Seq(Pending) /\ queue' = Append(rest, new)
      /\ sent' = [sent EXCEPT ![s] = 0] /\ budget' = [budget EXCEPT ![s] = RetransmitLimit(size)]
  BY DEF TypeOK, Pending, Push, About
<1>2. new \in Pending
  BY LimitType DEF Pending
<1>a. rest \in Seq(Pending) /\ \E at : Retains(rest, queue, places, at)
  <2>1. queue \in Seq(Pending) /\ places \in SUBSET (DOMAIN queue)
    BY <1>1
  <2> HIDE DEF places
  <2> QED
    BY ONLY <2>1, KeptIs
<1>b. PICK at : Retains(rest, queue, places, at)
  BY <1>a
<1>3. /\ n \in Nat /\ at \in [1 .. n -> places]
      /\ \A j, k \in 1 .. n : at[j] = at[k] => j = k
      /\ \A i \in places : \E k \in 1 .. n : at[k] = i
      /\ rest \in Seq(Pending) /\ Len(rest) = n
      /\ \A k \in 1 .. n : rest[k] = queue[at[k]]
  <2> HIDE DEF rest, places
  <2> QED
    BY <1>a, <1>b DEF Retains
<1> HIDE DEF new, rest
<1>4. /\ queue' \in Seq(Pending) /\ Len(queue') = n + 1 /\ queue'[n + 1] = new
      /\ DOMAIN queue' = 1 .. n + 1 /\ \A k \in 1 .. n : queue'[k] = queue[at[k]]
  <2>1. /\ Append(rest, new) \in Seq(Pending) /\ Len(Append(rest, new)) = n + 1
        /\ Append(rest, new)[n + 1] = new
        /\ \A k \in 1 .. n : Append(rest, new)[k] = queue[at[k]]
    BY <1>2, <1>3, AppendProperties
  <2>2. DOMAIN Append(rest, new) = 1 .. n + 1
    BY <2>1, LenProperties
  <2> QED
    BY <1>1, <2>1, <2>2
<1>5. TypeOK'
  <2>1. RetransmitLimit(size) \in Nat
    BY LimitType
  <2>2. sent' \in [Subject -> Nat] /\ budget' \in [Subject -> Nat]
    BY <1>1, <2>1 DEF TypeOK
  <2> QED
    BY <1>4, <2>2 DEF TypeOK, Pending
<1>6. new.subject = s
  BY DEF new
<1>7. \A k \in 1 .. n : at[k] \in DOMAIN queue /\ queue[at[k]].subject # s
  BY <1>3
<1>8. OnePerSubject'
  <2>1. ASSUME NEW j \in 1 .. n + 1, NEW k \in 1 .. n + 1,
               queue'[j].subject = queue'[k].subject
        PROVE  j = k
    <3>1. CASE j \in 1 .. n /\ k \in 1 .. n
      <4>1. queue[at[j]].subject = queue[at[k]].subject
        BY <1>4, <2>1, <3>1
      <4>2. at[j] = at[k]
        BY <1>7, <3>1, <4>1 DEF OnePerSubject
      <4> QED
        BY <1>3, <3>1, <4>2
    <3>2. CASE ~(j \in 1 .. n /\ k \in 1 .. n)
      <4>1. j \in 1 .. n <=> j # n + 1
        BY <1>3
      <4>2. k \in 1 .. n <=> k # n + 1
        BY <1>3
      <4> QED
        BY <1>4, <1>6, <1>7, <2>1, <3>2, <4>1, <4>2
    <3> QED
      BY <3>1, <3>2
  <2> QED
    BY <1>4, <2>1 DEF OnePerSubject
<1>9. ASSUME NEW k \in DOMAIN queue'
      PROVE  \/ queue'[k] = new
             \/ \E i \in DOMAIN queue : queue'[k] = queue[i] /\ queue[i].subject # s
  <2>1. k = n + 1 \/ k \in 1 .. n
    BY <1>3, <1>4
  <2> QED
    BY <1>4, <1>7, <2>1
<1>10. \E k \in DOMAIN queue' : queue'[k] = new
  <2>1. n + 1 \in 1 .. n + 1
    BY <1>3
  <2> QED
    BY <1>4, <2>1
<1>11. ASSUME NEW i \in DOMAIN queue, queue[i].subject # s
       PROVE  \E k \in DOMAIN queue' : queue'[k] = queue[i]
  <2>1. PICK k \in 1 .. n : at[k] = i
    BY <1>3, <1>11
  <2>2. k \in DOMAIN queue'
    BY <1>3, <1>4
  <2> QED
    BY <1>4, <2>1, <2>2
<1> QED
  BY <1>2, <1>5, <1>8, <1>9, <1>10, <1>11 DEF new

\* A pending rumor after a packet took the batch.
After(p) == IF p.subject \in Batch THEN Charged(p) ELSE p

\* A take charges the batch, whose members have the most sends left, and leaves all that
\* is still owed.
LEMMA TakeIs ==
    ASSUME TypeOK, OnePerSubject, Take
    PROVE  /\ queue' \in Seq(Pending) /\ OnePerSubject' /\ Batch # {}
           /\ \A t \in Batch : \E i \in DOMAIN queue : queue[i].subject = t
           /\ \A k \in DOMAIN queue' : \E i \in DOMAIN queue : queue'[k] = After(queue[i])
           /\ \A i \in DOMAIN queue : After(queue[i]).left > 0 =>
                 \E k \in DOMAIN queue' : queue'[k] = After(queue[i])
           /\ \A i, j \in DOMAIN queue :
                 queue[i].subject \in Batch /\ queue[j].subject \notin Batch =>
                    queue[i].left >= queue[j].left
<1> DEFINE n == Len(queue)
           D == 1 .. n
           q == Sorted(queue)
           charged == [i \in DOMAIN q |-> IF i <= MaxPiggyback THEN Charged(q[i]) ELSE q[i]]
           places == {i \in DOMAIN charged : StillOwed(charged[i])}
           m == Cardinality(places)
           left == Kept(charged, places)
           Charges == [subject : Subject, version : Version, left : Nat]
<1>1. /\ queue \in Seq(Pending) /\ queue # <<>> /\ queue' = left
      /\ n \in Nat /\ queue \in [D -> Pending] /\ DOMAIN queue = D
  <2>1. queue \in Seq(Pending)
    BY DEF TypeOK, Pending
  <2> QED
    BY <2>1, LenProperties DEF Take
<1>2. n >= 1
  BY <1>1, EmptySeq
<1>3. PICK at \in [D -> D] :
        /\ \A j, k \in D : at[j] = at[k] => j = k
        /\ \A i \in D : \E k \in D : at[k] = i
        /\ q \in Seq(Pending) /\ Len(q) = n
        /\ \A k \in D : q[k] = queue[at[k]]
        /\ \A j, k \in D : j < k => queue[at[j]].left >= queue[at[k]].left
  BY <1>1, SortedIs
<1>4. DOMAIN q = D /\ DOMAIN charged = D
  BY <1>3, LenProperties
<1>5. Batch = {q[i].subject : i \in {i \in D : i <= MaxPiggyback}}
  BY <1>4 DEF Batch
<1> HIDE DEF q
<1>6. ASSUME NEW i \in D
      PROVE  q[i].subject \in Batch <=> i <= MaxPiggyback
  <2>1. ASSUME NEW j \in D, q[i].subject = q[j].subject PROVE i = j
    <3>1. at[i] \in D /\ at[j] \in D /\ queue[at[i]].subject = queue[at[j]].subject
      BY <1>3, <2>1
    <3>2. at[i] = at[j]
      BY <1>1, <3>1 DEF OnePerSubject
    <3> QED
      BY <1>3, <3>2
  <2>2. ASSUME q[i].subject \in Batch PROVE i <= MaxPiggyback
    <3>1. PICK j \in {j \in D : j <= MaxPiggyback} : q[i].subject = q[j].subject
      BY <1>5, <2>2
    <3> QED
      BY <2>1, <3>1
  <2>3. ASSUME i <= MaxPiggyback PROVE q[i].subject \in Batch
    BY <1>5, <2>3
  <2> QED
    BY <2>2, <2>3
<1>7. ASSUME NEW i \in D PROVE charged[i] = After(queue[at[i]])
  BY <1>3, <1>4, <1>6 DEF After
<1>8. ASSUME NEW i \in D
      PROVE  /\ queue[i] \in Pending /\ After(queue[i]) \in Charges
             /\ After(queue[i]).subject = queue[i].subject
  <2>1. queue[i] \in Pending
    BY <1>1
  <2>2. Charged(queue[i]) \in Charges /\ Charged(queue[i]).subject = queue[i].subject
    BY <2>1 DEF Charged, Pending
  <2>3. queue[i] \in Charges
    BY <2>1 DEF Pending
  <2> QED
    BY <2>1, <2>2, <2>3 DEF After
<1>9. charged \in Seq(Charges)
  <2>1. charged \in [D -> Charges]
    <3>1. charged = [i \in D |-> charged[i]]
      BY <1>4
    <3> HIDE DEF charged
    <3> QED
      BY <1>3, <1>7, <1>8, <3>1
  <2> QED
    BY <1>1, <2>1, SeqDef
<1> HIDE DEF charged
<1>a. left \in Seq(Charges) /\ \E kept : Retains(left, charged, places, kept)
  <2>1. charged \in Seq(Charges) /\ places \in SUBSET (DOMAIN charged)
    BY <1>9
  <2> HIDE DEF places, Charges
  <2> QED
    BY ONLY <2>1, KeptIs
<1>b. PICK kept : Retains(left, charged, places, kept)
  BY <1>a
<1> HIDE DEF left
<1>10. /\ m \in Nat /\ kept \in [1 .. m -> places]
       /\ \A j, k \in 1 .. m : kept[j] = kept[k] => j = k
       /\ \A i \in places : \E k \in 1 .. m : kept[k] = i
       /\ left \in Seq(Charges) /\ Len(left) = m
       /\ \A k \in 1 .. m : left[k] = charged[kept[k]]
  <2> HIDE DEF places, Charges
  <2> QED
    BY <1>a, <1>b DEF Retains
<1>11. DOMAIN left = 1 .. m
  BY <1>10, LenProperties
<1>12. ASSUME NEW k \in 1 .. m
       PROVE  /\ kept[k] \in D /\ at[kept[k]] \in D
              /\ left[k] = After(queue[at[kept[k]]]) /\ left[k].left > 0
  <2>1. kept[k] \in D /\ StillOwed(charged[kept[k]])
    BY <1>4, <1>10
  <2> QED
    BY <1>3, <1>7, <1>10, <2>1 DEF StillOwed
<1>13. left \in Seq(Pending)
  <2>1. ASSUME NEW k \in 1 .. m PROVE left[k] \in Pending
    <3>1. left[k] \in Charges /\ left[k].left > 0
      BY <1>8, <1>12
    <3> QED
      BY <3>1 DEF Pending
  <2>2. left \in [1 .. m -> Pending]
    <3>1. left \in [1 .. m -> Charges]
      BY <1>10, LenProperties
    <3> QED
      BY <2>1, <3>1
  <2>3. m \in Nat
    BY <1>10
  <2> HIDE DEF m
  <2> QED
    BY ONLY <2>2, <2>3, SeqType
<1>14. \A j, k \in 1 .. m : left[j].subject = left[k].subject => j = k
  <2>1. ASSUME NEW j \in 1 .. m, NEW k \in 1 .. m, left[j].subject = left[k].subject
        PROVE  j = k
    <3>1. queue[at[kept[j]]].subject = queue[at[kept[k]]].subject
      BY <1>8, <1>12, <2>1
    <3>2. at[kept[j]] = at[kept[k]]
      BY <1>1, <1>12, <3>1 DEF OnePerSubject
    <3>3. kept[j] = kept[k]
      BY <1>3, <1>12, <3>2
    <3> QED
      BY <1>10, <3>3
  <2> QED
    BY <2>1
<1>15. Batch # {}
  <2>1. 1 \in D /\ 1 <= MaxPiggyback
    BY <1>1, <1>2, PiggybackAssumption
  <2> QED
    BY <1>5, <2>1
<1>16. ASSUME NEW t \in Batch PROVE \E i \in DOMAIN queue : queue[i].subject = t
  <2>1. PICK i \in {i \in D : i <= MaxPiggyback} : t = q[i].subject
    BY <1>5, <1>16
  <2>2. at[i] \in D /\ queue[at[i]].subject = t
    BY <1>3, <2>1
  <2> QED
    BY <1>1, <2>2
<1>17. \A k \in DOMAIN queue' : \E i \in DOMAIN queue : queue'[k] = After(queue[i])
  BY <1>1, <1>11, <1>12
<1>18. ASSUME NEW i \in DOMAIN queue, After(queue[i]).left > 0
       PROVE  \E k \in DOMAIN queue' : queue'[k] = After(queue[i])
  <2>1. PICK j \in D : at[j] = i
    BY <1>1, <1>3
  <2>2. j \in places
    BY <1>4, <1>7, <1>18, <2>1 DEF StillOwed
  <2>3. PICK k \in 1 .. m : kept[k] = j
    BY <1>10, <2>2
  <2> QED
    BY <1>1, <1>11, <1>12, <2>1, <2>3
<1>19. ASSUME NEW i \in DOMAIN queue, NEW j \in DOMAIN queue,
              queue[i].subject \in Batch, queue[j].subject \notin Batch
       PROVE  queue[i].left >= queue[j].left
  <2>1. PICK a \in D, b \in D : at[a] = i /\ at[b] = j
    BY <1>1, <1>3
  <2>2. a <= MaxPiggyback /\ ~(b <= MaxPiggyback)
    BY <1>3, <1>6, <1>19, <2>1
  <2>3. a < b
    BY <2>2, PiggybackAssumption
  <2> QED
    BY <1>3, <2>1, <2>3
<1>20. queue' \in Seq(Pending) /\ DOMAIN queue' = 1 .. m
  BY <1>1, <1>11, <1>13
<1>21. OnePerSubject'
  BY <1>1, <1>14, <1>20 DEF OnePerSubject
<1> QED
  BY <1>15, <1>16, <1>17, <1>18, <1>19, <1>20, <1>21

-----------------------------------------------------------------------------
(* The invariant: the properties together.                                  *)

IInv == TypeOK /\ OnePerSubject /\ SendsAddUp

LEMMA InitInv == Init => IInv
<1> SUFFICES ASSUME Init PROVE IInv
  OBVIOUS
<1>1. queue \in Seq(Pending) /\ DOMAIN queue = {}
  BY EmptySeq DEF Init
<1> QED
  BY <1>1 DEF Init, IInv, TypeOK, OnePerSubject, SendsAddUp, Pending

\* A pending rumor is of the types.
LEMMA PendingIs ==
    ASSUME NEW q \in Seq(Pending), NEW i \in DOMAIN q
    PROVE  q[i] \in Pending
BY LenProperties

LEMMA PendingType ==
    ASSUME TypeOK, NEW i \in DOMAIN queue
    PROVE  queue[i] \in Pending
<1>1. queue \in Seq(Pending)
  BY DEF TypeOK, Pending
<1> QED
  BY <1>1, PendingIs

\* What has been sent and what is left to send of a rumor are its budget.
LEMMA Counts ==
    ASSUME IInv, NEW i \in DOMAIN queue
    PROVE  LET s == queue[i].subject
           IN  /\ s \in Subject /\ sent[s] \in Nat /\ budget[s] \in Nat
               /\ queue[i].left \in Nat \ {0} /\ sent[s] + queue[i].left = budget[s]
<1>1. queue[i] \in Pending
  BY PendingType DEF IInv
<1>2. queue[i].subject \in Subject /\ queue[i].left \in Nat \ {0}
  BY <1>1 DEF Pending
<1> QED
  BY <1>2 DEF IInv, TypeOK, OnePerSubject, SendsAddUp

\* Never more than the budget.
LEMMA WithinBudget ==
    ASSUME IInv, NEW s \in Subject
    PROVE  sent[s] \in Nat /\ budget[s] \in Nat /\ sent[s] <= budget[s]
<1>1. sent[s] \in Nat /\ budget[s] \in Nat
  BY DEF IInv, TypeOK
<1>2. CASE \E i \in DOMAIN queue : queue[i].subject = s
  BY <1>1, <1>2, Counts
<1>3. CASE \A i \in DOMAIN queue : queue[i].subject # s
  BY <1>1, <1>3 DEF IInv, SendsAddUp
<1> QED
  BY <1>2, <1>3

LEMMA PushInv ==
    ASSUME IInv, NEW s \in Subject, NEW v \in Version, NEW size \in ClusterSize,
           Push(s, v, size)
    PROVE  IInv'
<1> DEFINE new == [subject |-> s, version |-> v, left |-> RetransmitLimit(size)]
<1>1. /\ TypeOK' /\ OnePerSubject'
      /\ \A k \in DOMAIN queue' :
            \/ queue'[k] = new
            \/ \E i \in DOMAIN queue : queue'[k] = queue[i] /\ queue[i].subject # s
      /\ \E k \in DOMAIN queue' : queue'[k] = new
      /\ \A i \in DOMAIN queue : queue[i].subject # s =>
            \E k \in DOMAIN queue' : queue'[k] = queue[i]
  BY PushIs DEF IInv
<1>2. RetransmitLimit(size) \in Nat
  BY LimitType
<1>3. /\ sent' = [sent EXCEPT ![s] = 0] /\ budget' = [budget EXCEPT ![s] = RetransmitLimit(size)]
      /\ sent \in [Subject -> Nat] /\ budget \in [Subject -> Nat]
  BY DEF IInv, TypeOK, Push
<1>4. ASSUME NEW t \in Subject
      PROVE  \/ \E k \in DOMAIN queue' :
                   queue'[k].subject = t /\ sent'[t] + queue'[k].left = budget'[t]
             \/ /\ \A k \in DOMAIN queue' : queue'[k].subject # t
                /\ sent'[t] = budget'[t]
  <2>1. CASE t = s
    <3>1. sent'[t] = 0 /\ budget'[t] = RetransmitLimit(size)
      BY <1>3, <2>1
    <3>2. PICK k \in DOMAIN queue' : queue'[k] = new
      BY <1>1
    <3>3. queue'[k].subject = t /\ queue'[k].left = RetransmitLimit(size)
      BY <2>1, <3>2
    <3> QED
      BY <1>2, <3>1, <3>3
  <2>2. CASE t # s
    <3>1. sent'[t] = sent[t] /\ budget'[t] = budget[t]
      BY <1>3, <2>2
    <3>2. CASE \E i \in DOMAIN queue :
                  queue[i].subject = t /\ sent[t] + queue[i].left = budget[t]
      BY <1>1, <2>2, <3>1, <3>2
    <3>3. CASE (\A i \in DOMAIN queue : queue[i].subject # t) /\ sent[t] = budget[t]
      BY <1>1, <2>2, <3>1, <3>3
    <3> QED
      BY <3>2, <3>3 DEF IInv, SendsAddUp
  <2> QED
    BY <2>1, <2>2
<1> QED
  BY <1>1, <1>4 DEF IInv, SendsAddUp

\* A send of a pending rumor leaves it about the same, with one less if it was of the batch.
LEMMA AfterIs ==
    ASSUME NEW p \in Pending
    PROVE  LET r == After(p)
           IN  /\ r.subject = p.subject /\ r.version = p.version
               /\ p.left \in Nat \ {0}
               /\ r.left = IF p.subject \in Batch THEN p.left - 1 ELSE p.left
BY DEF After, Charged, Pending

LEMMA TakeInv ==
    ASSUME IInv, Take
    PROVE  IInv'
<1>1. /\ queue' \in Seq(Pending) /\ OnePerSubject'
      /\ \A t \in Batch : \E i \in DOMAIN queue : queue[i].subject = t
      /\ \A k \in DOMAIN queue' : \E i \in DOMAIN queue : queue'[k] = After(queue[i])
      /\ \A i \in DOMAIN queue : After(queue[i]).left > 0 =>
            \E k \in DOMAIN queue' : queue'[k] = After(queue[i])
  BY TakeIs DEF IInv
<1>2. /\ sent' = [s \in Subject |->
                    IF s \in Batch /\ sent[s] <= budget[s] THEN sent[s] + 1 ELSE sent[s]]
      /\ budget' = budget /\ sent \in [Subject -> Nat] /\ budget \in [Subject -> Nat]
  BY DEF IInv, TypeOK, Take
<1>3. TypeOK'
  BY <1>1, <1>2 DEF TypeOK, Pending
<1>4. ASSUME NEW i \in DOMAIN queue
      PROVE  LET r == After(queue[i])
             IN  /\ r.subject = queue[i].subject /\ queue[i].left \in Nat \ {0}
                 /\ r.left = IF queue[i].subject \in Batch
                             THEN queue[i].left - 1 ELSE queue[i].left
  BY PendingType, AfterIs DEF IInv
<1>5. ASSUME NEW k \in DOMAIN queue' PROVE queue'[k].left # 0
  <2>1. queue'[k] \in Pending
    BY <1>1, PendingIs
  <2> QED
    BY <2>1 DEF Pending
<1>6. ASSUME NEW s \in Subject
      PROVE  \/ \E k \in DOMAIN queue' :
                   queue'[k].subject = s /\ sent'[s] + queue'[k].left = budget'[s]
             \/ /\ \A k \in DOMAIN queue' : queue'[k].subject # s
                /\ sent'[s] = budget'[s]
  <2>1. /\ sent[s] \in Nat /\ budget[s] \in Nat /\ budget'[s] = budget[s]
        /\ sent'[s] = IF s \in Batch THEN sent[s] + 1 ELSE sent[s]
    BY <1>2, WithinBudget
  <2>2. ASSUME NEW i \in DOMAIN queue, queue[i].subject = s
        PROVE  \/ \E k \in DOMAIN queue' :
                     queue'[k].subject = s /\ sent'[s] + queue'[k].left = budget'[s]
               \/ /\ \A k \in DOMAIN queue' : queue'[k].subject # s
                  /\ sent'[s] = budget'[s]
    <3>1. sent[s] + queue[i].left = budget[s]
      BY <2>2, Counts
    <3>2. sent'[s] + After(queue[i]).left = budget'[s] /\ After(queue[i]).subject = s
      BY <1>4, <2>1, <2>2, <3>1
    <3>3. CASE After(queue[i]).left > 0
      BY <1>1, <3>2, <3>3
    <3>4. CASE ~(After(queue[i]).left > 0)
      <4>1. After(queue[i]).left = 0
        BY <1>4, <3>4
      <4>2. sent'[s] = budget'[s]
        BY <2>1, <3>2, <4>1
      <4>3. ASSUME NEW k \in DOMAIN queue', queue'[k].subject = s PROVE FALSE
        <5>1. PICK j \in DOMAIN queue : queue'[k] = After(queue[j])
          BY <1>1
        <5>2. queue[j].subject = s
          BY <1>4, <4>3, <5>1
        <5>3. j = i
          BY <2>2, <5>2 DEF IInv, OnePerSubject
        <5> QED
          BY <1>5, <4>1, <5>1, <5>3
      <4> QED
        BY <4>2, <4>3
    <3> QED
      BY <3>3, <3>4
  <2>3. CASE \A i \in DOMAIN queue : queue[i].subject # s
    <3>1. s \notin Batch
      BY <1>1, <2>3
    <3>2. \A k \in DOMAIN queue' : queue'[k].subject # s
      BY <1>1, <1>4, <2>3
    <3>3. sent[s] = budget[s]
      BY <2>3 DEF IInv, SendsAddUp
    <3> QED
      BY <2>1, <3>1, <3>2, <3>3
  <2> QED
    BY <2>2, <2>3
<1> QED
  BY <1>1, <1>3, <1>6 DEF IInv, SendsAddUp

LEMMA NextInv == IInv /\ [Next]_vars => IInv'
<1> SUFFICES ASSUME IInv, [Next]_vars PROVE IInv'
  OBVIOUS
<1>1. CASE PushStep
  BY <1>1, PushInv DEF PushStep
<1>2. CASE Take
  BY <1>2, TakeInv
<1>3. CASE UNCHANGED vars
  BY <1>3 DEF vars, IInv, TypeOK, OnePerSubject, SendsAddUp
<1> QED
  BY <1>1, <1>2, <1>3 DEF Next

LEMMA Invariance == Spec => []IInv
<1> QED
  BY InitInv, NextInv, PTL DEF Spec

-----------------------------------------------------------------------------
(* The theorems.                                                            *)

\* The types hold; none of the pending rumors is spent.
THEOREM TypeCorrect == Spec => []TypeOK
<1>1. IInv => TypeOK
  BY DEF IInv
<1> QED
  BY <1>1, Invariance, PTL

\* A push replaces: never two rumors about one node (push).
THEOREM Replaces == Spec => []OnePerSubject
<1>1. IInv => OnePerSubject
  BY DEF IInv
<1> QED
  BY <1>1, Invariance, PTL

\* Every rumor is sent as often as its budget says, and leaves at its last send, whatever
\* is pushed meanwhile and however the sort moves it about (take).
THEOREM Accounting == Spec => []SendsAddUp
<1>1. IInv => SendsAddUp
  BY DEF IInv
<1> QED
  BY <1>1, Invariance, PTL

\* Among equals a packet takes what was sent least (take).
THEOREM Freshness == Spec => FreshestOfEqualsFirst
<1>1. ASSUME IInv, Take, NEW s \in Batch, NEW i \in DOMAIN queue,
             queue[i].subject \notin Batch, budget[s] = budget[queue[i].subject]
      PROVE  sent[s] <= sent[queue[i].subject]
  <2>1. PICK j \in DOMAIN queue : queue[j].subject = s
    BY <1>1, TakeIs DEF IInv
  <2>2. queue[j].left >= queue[i].left
    BY <1>1, <2>1, TakeIs DEF IInv
  <2> QED
    BY <1>1, <2>1, <2>2, Counts
<1>2. IInv => (Take => \A s \in Batch : \A i \in DOMAIN queue :
                  LET t == queue[i].subject
                  IN  t \in Batch \/ budget[s] # budget[t] \/ sent[s] <= sent[t])
  BY <1>1
<1> QED
  BY <1>2, Invariance, PTL DEF FreshestOfEqualsFirst

-----------------------------------------------------------------------------
(* A queue implements what Membership takes it for.                         *)

\* The version of the rumor about s that is pending.
OwedOf(s) ==
    IF \E i \in DOMAIN queue : queue[i].subject = s
    THEN queue[CHOOSE i \in DOMAIN queue : queue[i].subject = s].version
    ELSE None

LEMMA OwedIs ==
    OnePerSubject => \A s \in Subject :
        /\ \A i \in DOMAIN queue : queue[i].subject = s => OwedOf(s) = queue[i].version
        /\ (\A i \in DOMAIN queue : queue[i].subject # s) => OwedOf(s) = None
<1> SUFFICES ASSUME OnePerSubject, NEW s \in Subject
             PROVE  /\ \A i \in DOMAIN queue :
                          queue[i].subject = s => OwedOf(s) = queue[i].version
                    /\ (\A i \in DOMAIN queue : queue[i].subject # s) => OwedOf(s) = None
  OBVIOUS
<1>1. ASSUME NEW i \in DOMAIN queue, queue[i].subject = s PROVE OwedOf(s) = queue[i].version
  <2> DEFINE j == CHOOSE j \in DOMAIN queue : queue[j].subject = s
  <2>1. j \in DOMAIN queue /\ queue[j].subject = s
    BY <1>1
  <2>2. j = i
    BY <1>1, <2>1 DEF OnePerSubject
  <2> QED
    BY <1>1, <2>2 DEF OwedOf
<1> QED
  BY <1>1 DEF OwedOf

LEMMA NextOwedIs ==
    (OnePerSubject => \A s \in Subject :
        /\ \A i \in DOMAIN queue : queue[i].subject = s => OwedOf(s) = queue[i].version
        /\ (\A i \in DOMAIN queue : queue[i].subject # s) => OwedOf(s) = None)'
<1> QED
  BY OwedIs, PTL

\* What is owed and what was handed out, in the queue's terms.
owedNow == [s \in Subject |-> OwedOf(s)]
handedNow == [s \in Subject |-> sent[s] > 0]

\* What was never sent was not handed out.
LEMMA NoneYet == (0 > 0) = FALSE
  OBVIOUS

\* A push owes its rumor afresh.
LEMMA PushOwes ==
    ASSUME IInv, NEW s \in Subject, NEW v \in Version, NEW size \in ClusterSize,
           Push(s, v, size)
    PROVE  /\ owedNow' = [owedNow EXCEPT ![s] = v]
           /\ handedNow' = [handedNow EXCEPT ![s] = FALSE]
<1> DEFINE new == [subject |-> s, version |-> v, left |-> RetransmitLimit(size)]
<1>1. /\ OnePerSubject /\ OnePerSubject'
      /\ \A k \in DOMAIN queue' :
            \/ queue'[k] = new
            \/ \E i \in DOMAIN queue : queue'[k] = queue[i] /\ queue[i].subject # s
      /\ \E k \in DOMAIN queue' : queue'[k] = new
      /\ \A i \in DOMAIN queue : queue[i].subject # s =>
            \E k \in DOMAIN queue' : queue'[k] = queue[i]
  BY PushIs DEF IInv
<1>2. OwedOf(s)' = v
  <2>1. PICK k \in DOMAIN queue' : queue'[k] = new
    BY <1>1
  <2>2. queue'[k].subject = s /\ queue'[k].version = v
    BY <2>1
  <2> QED
    BY <1>1, <2>2, NextOwedIs
<1>3. ASSUME NEW t \in Subject, t # s PROVE OwedOf(t)' = OwedOf(t)
  <2>1. CASE \E i \in DOMAIN queue : queue[i].subject = t
    <3>1. PICK i \in DOMAIN queue : queue[i].subject = t
      BY <2>1
    <3>2. PICK k \in DOMAIN queue' : queue'[k] = queue[i]
      BY <1>1, <1>3, <3>1
    <3>3. OwedOf(t) = queue[i].version
      BY <1>1, <3>1, OwedIs
    <3>4. OwedOf(t)' = queue'[k].version
      BY <1>1, <3>1, <3>2, NextOwedIs
    <3> QED
      BY <3>2, <3>3, <3>4
  <2>2. CASE \A i \in DOMAIN queue : queue[i].subject # t
    <3>1. \A k \in DOMAIN queue' : queue'[k].subject # t
      BY <1>1, <1>3, <2>2
    <3>2. OwedOf(t) = None
      BY <1>1, <2>2, OwedIs
    <3>3. OwedOf(t)' = None
      BY <1>1, <3>1, NextOwedIs
    <3> QED
      BY <3>2, <3>3
  <2> QED
    BY <2>1, <2>2
<1>4. /\ sent' = [sent EXCEPT ![s] = 0] /\ sent \in [Subject -> Nat]
  BY DEF IInv, TypeOK, Push
<1>5. owedNow' = [owedNow EXCEPT ![s] = v]
  BY <1>2, <1>3 DEF owedNow
<1>6. handedNow' = [handedNow EXCEPT ![s] = FALSE]
  <2>1. ASSUME NEW t \in Subject PROVE sent'[t] = IF t = s THEN 0 ELSE sent[t]
    BY <1>4
  <2>2. ASSUME NEW t \in Subject
        PROVE  (sent'[t] > 0) = (IF t = s THEN FALSE ELSE sent[t] > 0)
    <3>1. CASE t = s
      <4>1. sent'[t] = 0
        BY <2>1, <3>1
      <4> QED
        BY <3>1, <4>1, NoneYet, Zenon
    <3>2. CASE t # s
      <4>1. sent'[t] = sent[t]
        BY <2>1, <3>2
      <4> QED
        BY <3>2, <4>1, Zenon
    <3> QED
      BY <3>1, <3>2
  <2> QED
    BY <2>2 DEF handedNow
<1> QED
  BY <1>5, <1>6

\* A take hands out its batch, and is done with those of it that leave the queue.
LEMMA TakeHands ==
    ASSUME IInv, Take
    PROVE  \E done \in SUBSET Batch :
              /\ Batch \in SUBSET Subject /\ Batch # {}
              /\ \A s \in Batch : OwedOf(s) # None
              /\ owedNow' = [s \in Subject |-> IF s \in done THEN None ELSE OwedOf(s)]
              /\ handedNow' = [s \in Subject |-> s \in Batch \/ sent[s] > 0]
<1> DEFINE done == {s \in Batch : \A k \in DOMAIN queue' : queue'[k].subject # s}
<1>1. /\ OnePerSubject /\ OnePerSubject' /\ Batch # {}
      /\ \A t \in Batch : \E i \in DOMAIN queue : queue[i].subject = t
      /\ \A k \in DOMAIN queue' : \E i \in DOMAIN queue : queue'[k] = After(queue[i])
      /\ \A i \in DOMAIN queue : After(queue[i]).left > 0 =>
            \E k \in DOMAIN queue' : queue'[k] = After(queue[i])
  BY TakeIs DEF IInv
<1>2. ASSUME NEW i \in DOMAIN queue
      PROVE  /\ queue[i].subject \in Subject /\ queue[i].version \in Version
             /\ After(queue[i]).subject = queue[i].subject
             /\ After(queue[i]).version = queue[i].version
             /\ queue[i].left \in Nat \ {0}
             /\ queue[i].subject \notin Batch => After(queue[i]).left = queue[i].left
  <2>1. queue[i] \in Pending
    BY PendingType DEF IInv
  <2> QED
    BY <2>1, AfterIs DEF Pending
<1>3. Batch \in SUBSET Subject
  BY <1>1, <1>2
<1>4. ASSUME NEW s \in Batch PROVE OwedOf(s) # None
  <2>1. PICK i \in DOMAIN queue : queue[i].subject = s
    BY <1>1
  <2>2. OwedOf(s) = queue[i].version
    BY <1>1, <1>3, <2>1, OwedIs
  <2> QED
    BY <1>2, <2>2, NoneAssumption
<1>5. ASSUME NEW s \in Subject
      PROVE  OwedOf(s)' = IF s \in done THEN None ELSE OwedOf(s)
  <2>1. CASE \E k \in DOMAIN queue' : queue'[k].subject = s
    <3>1. PICK k \in DOMAIN queue' : queue'[k].subject = s
      BY <2>1
    <3>2. PICK i \in DOMAIN queue : queue'[k] = After(queue[i])
      BY <1>1
    <3>3. queue[i].subject = s /\ queue'[k].version = queue[i].version
      BY <1>2, <3>1, <3>2
    <3>4. OwedOf(s) = queue[i].version
      BY <1>1, <3>3, OwedIs
    <3>5. OwedOf(s)' = queue'[k].version
      BY <1>1, <3>1, NextOwedIs
    <3>6. s \notin done
      BY <3>1
    <3> QED
      BY <3>3, <3>4, <3>5, <3>6
  <2>2. CASE \A k \in DOMAIN queue' : queue'[k].subject # s
    <3>1. OwedOf(s)' = None
      BY <1>1, <2>2, NextOwedIs
    <3>2. CASE s \in Batch
      BY <2>2, <3>1, <3>2
    <3>3. CASE s \notin Batch
      <4>1. ASSUME NEW i \in DOMAIN queue, queue[i].subject = s PROVE FALSE
        <5>1. After(queue[i]).left > 0 /\ After(queue[i]).subject = s
          BY <1>2, <3>3, <4>1
        <5> QED
          BY <1>1, <2>2, <5>1
      <4>2. OwedOf(s) = None
        BY <1>1, <4>1, OwedIs
      <4> QED
        BY <3>1, <3>3, <4>2
    <3> QED
      BY <3>2, <3>3
  <2> QED
    BY <2>1, <2>2
<1>6. owedNow' = [s \in Subject |-> IF s \in done THEN None ELSE OwedOf(s)]
  <2> HIDE DEF done
  <2> QED
    BY <1>5 DEF owedNow
<1>7. handedNow' = [s \in Subject |-> s \in Batch \/ sent[s] > 0]
  <2>1. sent' = [s \in Subject |->
                   IF s \in Batch /\ sent[s] <= budget[s] THEN sent[s] + 1 ELSE sent[s]]
    BY DEF Take
  <2>2. ASSUME NEW s \in Subject
        PROVE  (sent'[s] > 0) = (s \in Batch \/ sent[s] > 0)
    <3>1. sent'[s] = IF s \in Batch THEN sent[s] + 1 ELSE sent[s]
      BY <2>1, WithinBudget
    <3>2. sent[s] \in Nat
      BY WithinBudget
    <3> QED
      BY <3>1, <3>2
  <2> QED
    BY <2>2 DEF handedNow
<1>8. done \in SUBSET Batch
  OBVIOUS
<1> HIDE DEF done
<1> QED
  BY <1>1, <1>3, <1>4, <1>6, <1>7, <1>8

\* The queue keeps the promise of OwedRumors: it starts owing nothing, and every step of it
\* is one of the promise's.
THEOREM Implements == Spec => OwedSpec
<1>1. Init => Owed!Init
  <2> SUFFICES ASSUME Init PROVE Owed!Init
    OBVIOUS
  <2>1. DOMAIN queue = {} /\ \A s \in Subject : sent[s] = 0
    BY EmptySeq, LenProperties DEF Init
  <2>2. owedNow = [s \in Subject |-> None]
    BY <2>1 DEF owedNow, OwedOf
  <2>3. \A s \in Subject : (sent[s] > 0) = FALSE
    BY <2>1, NoneYet, Zenon
  <2>4. handedNow = [s \in Subject |-> FALSE]
    BY ONLY <2>3, Zenon DEF handedNow
  <2> QED
    BY <2>2, <2>4, Zenon DEF Owed!Init, owedNow, handedNow, OwedOf
<1>2. IInv /\ [Next]_vars => [Owed!Next]_<<owedNow, handedNow>>
  <2> SUFFICES ASSUME IInv, [Next]_vars PROVE [Owed!Next]_<<owedNow, handedNow>>
    OBVIOUS
  <2>1. ASSUME NEW s \in Subject, NEW v \in Version, NEW size \in ClusterSize, Push(s, v, size)
        PROVE  Owed!Next
    <3>1. Owed!Push(s, v)
      BY <2>1, PushOwes DEF Owed!Push, owedNow, handedNow, OwedOf
    <3> QED
      BY <3>1 DEF Owed!Next
  <2>2. CASE Take
    <3>1. PICK done \in SUBSET Batch :
              /\ Batch \in SUBSET Subject /\ Batch # {}
              /\ \A s \in Batch : OwedOf(s) # None
              /\ owedNow' = [s \in Subject |-> IF s \in done THEN None ELSE OwedOf(s)]
              /\ handedNow' = [s \in Subject |-> s \in Batch \/ sent[s] > 0]
      BY <2>2, TakeHands
    <3>2. PICK batch \in SUBSET Subject : batch = Batch
      BY <3>1
    <3>3. Owed!Take(batch, done)
      BY <3>1, <3>2 DEF Owed!Take, owedNow, handedNow, OwedOf
    <3>4. done \in SUBSET batch
      BY <3>2
    <3> QED
      BY ONLY <3>2, <3>3, <3>4 DEF Owed!Next
  <2>3. CASE UNCHANGED vars
    BY <2>3 DEF vars, owedNow, handedNow, OwedOf
  <2> QED
    BY <2>1, <2>2, <2>3 DEF Next, PushStep
<1>3. [Owed!Next]_<<owedNow, handedNow>> =>
        [Owed!Next]_<<[s \in Subject |->
                         IF \E i \in DOMAIN queue : queue[i].subject = s
                         THEN queue[CHOOSE i \in DOMAIN queue : queue[i].subject = s].version
                         ELSE None],
                      [s \in Subject |-> sent[s] > 0]>>
  BY DEF owedNow, handedNow, OwedOf
<1> QED
  BY <1>1, <1>2, <1>3, Invariance, PTL DEF Spec, OwedSpec, Owed!Spec
=============================================================================
