---------------------------- MODULE Frames_proofs -----------------------------
(***************************************************************************)
(* Proofs about Frames, for any base, length of prefix, limit and payloads:*)
(* that a length survives its prefix, and that what read_frame cuts out of *)
(* the bytes, in whatever pieces they come, is what write_frame put in.    *)
(***************************************************************************)
EXTENDS Frames, SequenceTheorems, WellFoundedInduction, TLAPS

-----------------------------------------------------------------------------
(* Induction over the natural numbers, as a fact about sets.                *)

LEMMA Induction ==
    ASSUME NEW n \in Nat, NEW S, 0 \in S,
           \A k \in 0 .. n : k < n /\ k \in S => k + 1 \in S
    PROVE  \A k \in 0 .. n : k \in S
<1> DEFINE T == {k \in 0 .. n : k \notin S}
<1> SUFFICES ASSUME T # {} PROVE FALSE
  OBVIOUS
<1>1. T \subseteq Nat
  OBVIOUS
<1>2. PICK k \in T : \A j \in T : ~ (<<j, k>> \in OpToRel(<, Nat))
  <2> HIDE DEF T
  <2> QED
    BY <1>1, NatLessThanWellFounded, WFMin
<1>3. \A j \in T : ~ (j < k)
  BY <1>1, <1>2 DEF OpToRel
<1>4. k \in 0 .. n /\ k \notin S /\ k # 0
  OBVIOUS
<1>5. k - 1 \in 0 .. n /\ k - 1 < n /\ k - 1 < k /\ (k - 1) + 1 = k
  BY <1>4
<1>6. k - 1 \in S
  BY <1>3, <1>5
<1> QED
  BY <1>4, <1>5, <1>6

\* A function may be defined by recursion from 0 to n.
Recurs(f, n, a, h) == f[0] = a /\ \A i \in 1 .. n : f[i] = h[<<f[i - 1], i>>]

LEMMA Recursion ==
    ASSUME NEW n \in Nat, NEW S, NEW a \in S, NEW h \in [S \X (1 .. n) -> S]
    PROVE  \E f \in [0 .. n -> S] : Recurs(f, n, a, h)
<1> DEFINE P(m, f) == f[0] = a /\ \A i \in 1 .. m : f[i] = h[<<f[i - 1], i>>]
           D == {m \in 0 .. n : \E f \in [0 .. m -> S] : P(m, f)}
<1>1. 0 \in D
  <2> DEFINE g == [i \in 0 .. 0 |-> a]
  <2>1. g \in [0 .. 0 -> S]
    OBVIOUS
  <2>2. g[0] = a /\ 1 .. 0 = {}
    OBVIOUS
  <2> HIDE DEF g
  <2>3. P(0, g)
    BY <2>2
  <2>4. 0 \in 0 .. n
    OBVIOUS
  <2> QED
    BY <2>1, <2>3, <2>4
<1>2. ASSUME NEW m \in 0 .. n, m < n, m \in D PROVE m + 1 \in D
  <2>1. PICK f \in [0 .. m -> S] : P(m, f)
    BY <1>2
  <2> DEFINE g == [i \in 0 .. m + 1 |-> IF i = m + 1 THEN h[<<f[m], m + 1>>] ELSE f[i]]
  <2>2. h[<<f[m], m + 1>>] \in S
    BY <1>2
  <2>3. g \in [0 .. m + 1 -> S]
    BY <2>2
  <2>4. g[0] = a
    BY <2>1
  <2>5. ASSUME NEW i \in 1 .. m + 1 PROVE g[i] = h[<<g[i - 1], i>>]
    <3>1. CASE i = m + 1
      <4>1. g[i] = h[<<f[m], m + 1>>] /\ g[i - 1] = f[m]
        BY <3>1
      <4> HIDE DEF g
      <4> QED
        BY <3>1, <4>1
    <3>2. CASE i \in 1 .. m
      <4>1. g[i] = f[i] /\ g[i - 1] = f[i - 1]
        BY <3>2
      <4>2. f[i] = h[<<f[i - 1], i>>]
        BY <2>1, <3>2
      <4> QED
        BY <4>1, <4>2
    <3> QED
      BY <3>1, <3>2
  <2>6. m + 1 \in 0 .. n
    BY <1>2
  <2> HIDE DEF g
  <2>7. P(m + 1, g)
    BY <2>4, <2>5
  <2> HIDE DEF P
  <2> QED
    BY <2>3, <2>6, <2>7
<1>3. n \in D
  <2> HIDE DEF D
  <2> QED
    BY <1>1, <1>2, Induction
<1>4. PICK f \in [0 .. n -> S] : P(n, f)
  BY <1>3
<1>5. Recurs(f, n, a, h)
  BY <1>4 DEF Recurs
<1> QED
  BY <1>5

-----------------------------------------------------------------------------
(* Lengths and their prefixes.                                              *)

LEMMA Constants ==
    /\ Base \in Nat \ {0} /\ PrefixLen \in Nat \ {0} /\ MAX_FRAME_LEN \in Nat \ {0}
    /\ \A p \in Payload : p \in Seq(Byte) /\ p # <<>>
BY FrameAssumption DEF Byte

LEMMA Divided ==
    ASSUME NEW n \in Nat \ {0}, NEW a \in Nat
    PROVE  /\ a % n \in 0 .. n - 1 /\ a \div n \in Nat
           /\ a = n * (a \div n) + (a % n)
OBVIOUS

LEMMA Scaled == \A a, b, c \in Nat : a * b + c \in Nat
OBVIOUS

LEMMA WithoutIs ==
    ASSUME NEW n \in Nat
    PROVE  /\ Without(n) \in [0 .. PrefixLen -> Nat]
           /\ Without(n)[0] = n
           /\ \A j \in 1 .. PrefixLen : Without(n)[j] = Without(n)[j - 1] \div Base
<1> DEFINE h == [x \in Nat \X (1 .. PrefixLen) |-> x[1] \div Base]
<1>1. h \in [Nat \X (1 .. PrefixLen) -> Nat]
  BY Constants, Divided
<1>2. \A x \in Nat, j \in 1 .. PrefixLen : h[<<x, j>>] = x \div Base
  OBVIOUS
<1> HIDE DEF h
<1>3. PICK f \in [0 .. PrefixLen -> Nat] :
          f[0] = n /\ \A j \in 1 .. PrefixLen : f[j] = h[<<f[j - 1], j>>]
  <2>1. PrefixLen \in Nat
    BY Constants
  <2>2. \E f \in [0 .. PrefixLen -> Nat] : Recurs(f, PrefixLen, n, h)
    BY <1>1, <2>1, Recursion
  <2> QED
    BY <2>2 DEF Recurs
<1>4. ASSUME NEW j \in 0 .. PrefixLen
      PROVE  f[j] = IF j = 0 THEN n ELSE f[j - 1] \div Base
  <2>1. CASE j = 0
    BY <1>3, <2>1
  <2>2. CASE j \in 1 .. PrefixLen
    <3>1. f[j] = h[<<f[j - 1], j>>] /\ f[j - 1] \in Nat
      BY <1>3, <2>2, Constants
    <3> QED
      BY <1>2, <2>2, <3>1
  <2> QED
    BY <2>1, <2>2, Constants
<1>5. f = [j \in 0 .. PrefixLen |-> IF j = 0 THEN n ELSE f[j - 1] \div Base]
  BY <1>3, <1>4
<1>6. Without(n) = [j \in 0 .. PrefixLen |-> IF j = 0 THEN n ELSE Without(n)[j - 1] \div Base]
  BY <1>5 DEF Without
<1> DEFINE w == Without(n)
<1>7. w = [j \in 0 .. PrefixLen |-> IF j = 0 THEN n ELSE w[j - 1] \div Base]
  BY <1>6
<1> HIDE DEF w
<1>8. w[0] = n /\ \A j \in 1 .. PrefixLen : w[j] = w[j - 1] \div Base
  <2>1. 0 \in 0 .. PrefixLen /\ \A j \in 1 .. PrefixLen : j \in 0 .. PrefixLen /\ j # 0
    BY Constants
  <2> QED
    BY <1>7, <2>1
<1>9. \A j \in 0 .. PrefixLen : w[j] \in Nat
  <2> DEFINE S == {j \in 0 .. PrefixLen : w[j] \in Nat}
  <2>1. 0 \in S
    BY <1>8, Constants
  <2>2. \A k \in 0 .. PrefixLen : k < PrefixLen /\ k \in S => k + 1 \in S
    <3> SUFFICES ASSUME NEW k \in 0 .. PrefixLen, k < PrefixLen, w[k] \in Nat
                 PROVE  k + 1 \in 0 .. PrefixLen /\ w[k + 1] \in Nat
      OBVIOUS
    <3>1. k + 1 \in 1 .. PrefixLen /\ (k + 1) - 1 = k
      BY Constants
    <3>2. w[k + 1] = w[k] \div Base
      BY <1>8, <3>1
    <3>3. PICK x \in Nat : x = w[k]
      OBVIOUS
    <3>4. x \div Base \in Nat
      BY Constants, Divided
    <3> QED
      BY <3>1, <3>2, <3>3, <3>4, Constants
  <2> HIDE DEF S
  <2>3. \A k \in 0 .. PrefixLen : k \in S
    BY <2>1, <2>2, Constants, Induction
  <2> QED
    BY <2>3 DEF S
<1>10. w \in [0 .. PrefixLen -> Nat]
  BY <1>7, <1>9
<1> QED
  BY <1>8, <1>10 DEF w

LEMMA ValuesIs ==
    ASSUME NEW d \in Seq(Nat)
    PROVE  /\ Values(d) \in [0 .. Len(d) -> Nat]
           /\ Values(d)[0] = 0
           /\ \A i \in 1 .. Len(d) : Values(d)[i] = Base * Values(d)[i - 1] + d[i]
<1> DEFINE n == Len(d)
           h == [x \in Nat \X (1 .. n) |-> Base * x[1] + d[x[2]]]
<1>1. n \in Nat /\ \A i \in 1 .. n : d[i] \in Nat
  BY LenProperties
<1> HIDE DEF n
<1>2. \A x \in Nat, i \in 1 .. n : h[<<x, i>>] = Base * x + d[i]
  OBVIOUS
<1>3. h \in [Nat \X (1 .. n) -> Nat]
  <2>1. ASSUME NEW x \in Nat \X (1 .. n) PROVE Base * x[1] + d[x[2]] \in Nat
    BY <1>1, Constants, Scaled
  <2> QED
    BY <2>1
<1> HIDE DEF h
<1>4. PICK f \in [0 .. n -> Nat] :
          f[0] = 0 /\ \A i \in 1 .. n : f[i] = h[<<f[i - 1], i>>]
  <2>1. \E f \in [0 .. n -> Nat] : Recurs(f, n, 0, h)
    BY <1>1, <1>3, Recursion
  <2> QED
    BY <2>1 DEF Recurs
<1>5. ASSUME NEW i \in 0 .. n
      PROVE  f[i] = IF i = 0 THEN 0 ELSE Base * f[i - 1] + d[i]
  <2>1. CASE i = 0
    BY <1>4, <2>1
  <2>2. CASE i \in 1 .. n
    <3>1. f[i] = h[<<f[i - 1], i>>] /\ f[i - 1] \in Nat
      BY <1>1, <1>4, <2>2
    <3> QED
      BY <1>2, <2>2, <3>1
  <2> QED
    BY <1>1, <2>1, <2>2
<1>6. f = [i \in 0 .. n |-> IF i = 0 THEN 0 ELSE Base * f[i - 1] + d[i]]
  BY <1>4, <1>5
<1>7. Values(d) = [i \in 0 .. n |-> IF i = 0 THEN 0 ELSE Base * Values(d)[i - 1] + d[i]]
  BY <1>6 DEF Values, n
<1> DEFINE v == Values(d)
<1>8. v = [i \in 0 .. n |-> IF i = 0 THEN 0 ELSE Base * v[i - 1] + d[i]]
  BY <1>7
<1> HIDE DEF v
<1>9. v[0] = 0 /\ \A i \in 1 .. n : v[i] = Base * v[i - 1] + d[i]
  <2>1. 0 \in 0 .. n /\ \A i \in 1 .. n : i \in 0 .. n /\ i # 0
    BY <1>1
  <2> QED
    BY <1>8, <2>1
<1>10. \A i \in 0 .. n : v[i] \in Nat
  <2> DEFINE S == {i \in 0 .. n : v[i] \in Nat}
  <2>1. 0 \in S
    BY <1>1, <1>9
  <2>2. \A k \in 0 .. n : k < n /\ k \in S => k + 1 \in S
    <3> SUFFICES ASSUME NEW k \in 0 .. n, k < n, v[k] \in Nat
                 PROVE  k + 1 \in 0 .. n /\ v[k + 1] \in Nat
      OBVIOUS
    <3>1. k + 1 \in 1 .. n /\ (k + 1) - 1 = k
      BY <1>1
    <3>2. v[k + 1] = Base * v[k] + d[k + 1] /\ d[k + 1] \in Nat
      BY <1>1, <1>9, <3>1
    <3>3. Base * v[k] + d[k + 1] \in Nat
      BY <3>2, Constants, Scaled
    <3> QED
      BY <3>1, <3>2, <3>3, <1>1
  <2> HIDE DEF S
  <2>3. \A k \in 0 .. n : k \in S
    BY <1>1, <2>1, <2>2, Induction
  <2> QED
    BY <2>3 DEF S
<1>11. v \in [0 .. n -> Nat]
  BY <1>8, <1>10
<1> QED
  BY <1>9, <1>11 DEF v, n

LEMMA PrefixIs ==
    ASSUME NEW n \in Nat
    PROVE  /\ Prefix(n) \in Seq(Byte) /\ Len(Prefix(n)) = PrefixLen
           /\ \A i \in 1 .. PrefixLen : Prefix(n)[i] = Without(n)[PrefixLen - i] % Base
<1>1. ASSUME NEW i \in 1 .. PrefixLen PROVE Without(n)[PrefixLen - i] % Base \in Byte
  <2>1. PrefixLen - i \in 0 .. PrefixLen
    BY Constants
  <2>2. PICK x \in Nat : x = Without(n)[PrefixLen - i]
    BY <2>1, WithoutIs
  <2>3. x % Base \in 0 .. Base - 1
    BY Constants, Divided
  <2> QED
    BY <2>2, <2>3 DEF Byte
<1>2. Prefix(n) \in [1 .. PrefixLen -> Byte]
  BY <1>1 DEF Prefix
<1>3. PrefixLen \in Nat
  BY Constants
<1>4. Prefix(n) \in Seq(Byte) /\ Len(Prefix(n)) = PrefixLen
  <2>1. Prefix(n) \in Seq(Byte)
    BY <1>2, <1>3, SeqDef
  <2>2. DOMAIN Prefix(n) = 1 .. PrefixLen /\ DOMAIN Prefix(n) = 1 .. Len(Prefix(n))
        /\ Len(Prefix(n)) \in Nat
    BY <1>2, <2>1, LenProperties
  <2> QED
    BY <1>3, <2>1, <2>2
<1>5. \A i \in 1 .. PrefixLen : Prefix(n)[i] = Without(n)[PrefixLen - i] % Base
  BY DEF Prefix
<1> QED
  BY <1>4, <1>5

\* A length that fits its prefix can be read off it again.
LEMMA NumberOfPrefix ==
    ASSUME NEW n \in Nat, Fits(n)
    PROVE  Number(Prefix(n)) = n
<1> DEFINE d == Prefix(n)
           v == Values(d)
           w == Without(n)
           S == {i \in 0 .. PrefixLen : v[i] = w[PrefixLen - i]}
<1>1. PrefixLen \in Nat /\ Base \in Nat \ {0}
  BY Constants
<1>2. d \in Seq(Nat) /\ Len(d) = PrefixLen
  <2>1. Byte \subseteq Nat
    BY <1>1 DEF Byte
  <2> QED
    BY <2>1, PrefixIs, SeqMonotonic
<1>3. /\ v \in [0 .. PrefixLen -> Nat] /\ v[0] = 0
      /\ \A i \in 1 .. PrefixLen : v[i] = Base * v[i - 1] + d[i]
  BY <1>2, ValuesIs
<1>4. /\ w \in [0 .. PrefixLen -> Nat] /\ w[0] = n /\ w[PrefixLen] = 0
      /\ \A j \in 1 .. PrefixLen : w[j] = w[j - 1] \div Base
      /\ \A i \in 1 .. PrefixLen : d[i] = w[PrefixLen - i] % Base
  BY WithoutIs, PrefixIs DEF Fits
<1>5. Number(d) = v[PrefixLen]
  BY <1>2 DEF Number
<1> HIDE DEF d, v, w
<1>6. 0 \in S
  BY <1>1, <1>3, <1>4
<1>7. ASSUME NEW k \in 0 .. PrefixLen, k < PrefixLen, v[k] = w[PrefixLen - k]
      PROVE  k + 1 \in 0 .. PrefixLen /\ v[k + 1] = w[PrefixLen - (k + 1)]
  <2> DEFINE j == PrefixLen - (k + 1)
  <2>1. /\ k + 1 \in 1 .. PrefixLen /\ (k + 1) - 1 = k
        /\ j \in 0 .. PrefixLen /\ j + 1 \in 1 .. PrefixLen
        /\ j + 1 = PrefixLen - k /\ (j + 1) - 1 = j
    BY <1>1, <1>7
  <2>2. PICK x \in Nat : x = w[j]
    BY <1>4, <2>1
  <2>3. w[j + 1] = x \div Base
    BY <1>4, <2>1, <2>2
  <2>4. d[k + 1] = x % Base
    BY <1>4, <2>1, <2>2
  <2>5. v[k + 1] = Base * v[k] + d[k + 1]
    BY <1>3, <2>1
  <2>6. v[k] = x \div Base
    BY <1>7, <2>1, <2>3
  <2>7. x = Base * (x \div Base) + (x % Base)
    BY <1>1, Divided
  <2>8. v[k + 1] = x
    BY ONLY <2>4, <2>5, <2>6, <2>7
  <2> QED
    BY <2>1, <2>2, <2>8
<1>8. \A k \in 0 .. PrefixLen : k \in S
  <2>1. \A k \in 0 .. PrefixLen : k < PrefixLen /\ k \in S => k + 1 \in S
    BY <1>7
  <2> HIDE DEF S
  <2> QED
    BY <1>1, <1>6, <2>1, Induction
<1>9. v[PrefixLen] = w[0]
  <2>1. PrefixLen \in 0 .. PrefixLen /\ PrefixLen - PrefixLen = 0
    BY <1>1
  <2>2. PrefixLen \in S
    BY <1>8, <2>1
  <2> QED
    BY <2>1, <2>2
<1> QED
  BY <1>4, <1>5, <1>9 DEF d

\* Whatever digits come, they make a number.
LEMMA NumberType ==
    ASSUME NEW d \in Seq(Byte)
    PROVE  Number(d) \in Nat
<1>1. d \in Seq(Nat)
  <2>1. Byte \subseteq Nat
    BY Constants DEF Byte
  <2> QED
    BY <2>1, SeqMonotonic
<1>2. Values(d) \in [0 .. Len(d) -> Nat] /\ Len(d) \in Nat
  BY <1>1, ValuesIs, LenProperties
<1> QED
  BY <1>2 DEF Number

-----------------------------------------------------------------------------
(* Streams.                                                                 *)

\* Concatenation, with its definition out of the provers' sight.
Cat(x, y) == x \o y

LEMMA CatIs ==
    \A b1, b2, b3 \in Seq(Byte) :
        /\ Cat(b1, b2) \in Seq(Byte)
        /\ Len(b1) \in Nat /\ Len(Cat(b1, b2)) = Len(b1) + Len(b2)
        /\ Cat(Cat(b1, b2), b3) = Cat(b1, Cat(b2, b3))
        /\ Cat(b1, b2) = Cat(b1, b3) => b2 = b3
        /\ Cat(b1, <<>>) = b1 /\ Cat(<<>>, b1) = b1
<1>1. \A b1, b2 \in Seq(Byte) :
          /\ b1 \o b2 \in Seq(Byte)
          /\ Len(b1) \in Nat /\ Len(b1 \o b2) = Len(b1) + Len(b2)
  BY ConcatProperties, LenProperties
<1>2. \A b1, b2, b3 \in Seq(Byte) : (b1 \o b2) \o b3 = b1 \o (b2 \o b3)
  BY ConcatAssociative
<1>3. \A b1, b2, b3 \in Seq(Byte) : b1 \o b2 = b1 \o b3 => b2 = b3
  BY ConcatSimplifications
<1>4. \A b1 \in Seq(Byte) : b1 \o <<>> = b1 /\ <<>> \o b1 = b1
  BY ConcatEmptySeq
<1>5. \A b1, b2 \in Seq(Byte) :
          /\ Cat(b1, b2) \in Seq(Byte)
          /\ Len(b1) \in Nat /\ Len(Cat(b1, b2)) = Len(b1) + Len(b2)
  BY <1>1 DEF Cat
<1>6. \A b1, b2, b3 \in Seq(Byte) : Cat(Cat(b1, b2), b3) = Cat(b1, Cat(b2, b3))
  BY ONLY <1>2 DEF Cat
<1>7. \A b1, b2, b3 \in Seq(Byte) : Cat(b1, b2) = Cat(b1, b3) => b2 = b3
  BY ONLY <1>3 DEF Cat
<1>8. \A b1 \in Seq(Byte) : Cat(b1, <<>>) = b1 /\ Cat(<<>>, b1) = b1
  BY ONLY <1>4 DEF Cat
<1> QED
  BY <1>5, <1>6, <1>7, <1>8

LEMMA FrameIs ==
    ASSUME NEW p \in Payload
    PROVE  /\ Frame(p) \in Seq(Byte) /\ Len(Frame(p)) = PrefixLen + Len(p)
           /\ Prefix(Len(p)) \in Seq(Byte) /\ Len(Prefix(Len(p))) = PrefixLen
           /\ p \in Seq(Byte) /\ Len(p) \in Nat /\ Len(Frame(p)) \in Nat \ {0}
<1>1. p \in Seq(Byte)
  BY Constants
<1>2. Len(p) \in Nat
  BY <1>1, LenProperties
<1>3. Prefix(Len(p)) \in Seq(Byte) /\ Len(Prefix(Len(p))) = PrefixLen
  BY <1>2, PrefixIs
<1>4. Frame(p) \in Seq(Byte) /\ Len(Frame(p)) = PrefixLen + Len(p)
  BY <1>1, <1>3, ConcatProperties DEF Frame
<1> QED
  BY <1>1, <1>2, <1>3, <1>4, Constants

LEMMA StreamIs ==
    ASSUME NEW s \in Seq(Payload)
    PROVE  /\ Stream(s) \in [0 .. Len(s) -> Seq(Byte)]
           /\ Stream(s)[0] = <<>>
           /\ \A k \in 1 .. Len(s) : Stream(s)[k] = Stream(s)[k - 1] \o Frame(s[k])
<1> DEFINE n == Len(s)
           h == [x \in Seq(Byte) \X (1 .. n) |-> x[1] \o Frame(s[x[2]])]
<1>1. n \in Nat /\ \A k \in 1 .. n : Frame(s[k]) \in Seq(Byte)
  BY LenProperties, FrameIs
<1> HIDE DEF n
<1>2. \A x \in Seq(Byte), k \in 1 .. n : h[<<x, k>>] = x \o Frame(s[k])
  OBVIOUS
<1>3. h \in [Seq(Byte) \X (1 .. n) -> Seq(Byte)]
  <2>1. ASSUME NEW x \in Seq(Byte) \X (1 .. n) PROVE x[1] \o Frame(s[x[2]]) \in Seq(Byte)
    <3>1. x[1] \in Seq(Byte) /\ Frame(s[x[2]]) \in Seq(Byte)
      BY <1>1
    <3> QED
      BY <3>1, ConcatProperties
  <2> QED
    BY <2>1
<1> HIDE DEF h
<1>4. PICK f \in [0 .. n -> Seq(Byte)] :
          f[0] = <<>> /\ \A k \in 1 .. n : f[k] = h[<<f[k - 1], k>>]
  <2>1. <<>> \in Seq(Byte)
    BY EmptySeq
  <2>2. \E f \in [0 .. n -> Seq(Byte)] : Recurs(f, n, <<>>, h)
    BY <1>1, <1>3, <2>1, Recursion
  <2> QED
    BY <2>2 DEF Recurs
<1>5. ASSUME NEW k \in 0 .. n
      PROVE  f[k] = IF k = 0 THEN <<>> ELSE f[k - 1] \o Frame(s[k])
  <2>1. CASE k = 0
    BY <1>4, <2>1
  <2>2. CASE k \in 1 .. n
    <3>1. f[k] = h[<<f[k - 1], k>>] /\ f[k - 1] \in Seq(Byte)
      BY <1>1, <1>4, <2>2
    <3>2. f[k] = f[k - 1] \o Frame(s[k])
      BY <1>2, <2>2, <3>1
    <3>3. k # 0
      BY <1>1, <2>2
    <3> QED
      BY <3>2, <3>3
  <2>3. k = 0 \/ k \in 1 .. n
    BY <1>1
  <2> QED
    BY <2>1, <2>2, <2>3
<1>6. f = [k \in 0 .. n |-> IF k = 0 THEN <<>> ELSE f[k - 1] \o Frame(s[k])]
  BY <1>4, <1>5
<1>7. Stream(s) = [k \in 0 .. n |-> IF k = 0 THEN <<>> ELSE Stream(s)[k - 1] \o Frame(s[k])]
  BY <1>6 DEF Stream, n
<1> DEFINE v == Stream(s)
<1>8. v = [k \in 0 .. n |-> IF k = 0 THEN <<>> ELSE v[k - 1] \o Frame(s[k])]
  BY <1>7
<1> HIDE DEF v
<1>9. v[0] = <<>> /\ \A k \in 1 .. n : v[k] = v[k - 1] \o Frame(s[k])
  <2>1. 0 \in 0 .. n /\ \A k \in 1 .. n : k \in 0 .. n /\ k # 0
    BY <1>1
  <2> QED
    BY <1>8, <2>1
<1>10. \A k \in 0 .. n : v[k] \in Seq(Byte)
  <2> DEFINE S == {k \in 0 .. n : v[k] \in Seq(Byte)}
  <2>1. 0 \in S
    <3>1. 0 \in 0 .. n /\ v[0] \in Seq(Byte)
      BY <1>1, <1>9, EmptySeq
    <3> QED
      BY <3>1
  <2>2. \A k \in 0 .. n : k < n /\ k \in S => k + 1 \in S
    <3> SUFFICES ASSUME NEW k \in 0 .. n, k < n, v[k] \in Seq(Byte)
                 PROVE  k + 1 \in 0 .. n /\ v[k + 1] \in Seq(Byte)
      OBVIOUS
    <3>1. k + 1 \in 1 .. n /\ (k + 1) - 1 = k
      BY <1>1
    <3>2. v[k + 1] = v[k] \o Frame(s[k + 1]) /\ Frame(s[k + 1]) \in Seq(Byte)
      BY <1>1, <1>9, <3>1
    <3> QED
      BY <3>1, <3>2, <1>1, ConcatProperties
  <2> HIDE DEF S
  <2>3. \A k \in 0 .. n : k \in S
    BY <1>1, <2>1, <2>2, Induction
  <2> QED
    BY <2>3 DEF S
<1>11. v \in [0 .. n -> Seq(Byte)]
  BY <1>8, <1>10
<1> QED
  BY <1>9, <1>11 DEF v, n

\* Streams agree as far as their payloads do.
LEMMA StreamsAgree ==
    ASSUME NEW s \in Seq(Payload), NEW t \in Seq(Payload), NEW m \in Nat,
           m <= Len(s), m <= Len(t), \A k \in 1 .. m : s[k] = t[k]
    PROVE  \A k \in 0 .. m : Stream(s)[k] = Stream(t)[k]
<1> DEFINE S == {k \in 0 .. m : Stream(s)[k] = Stream(t)[k]}
<1>1. 0 \in S
  <2>1. 0 \in 0 .. m
    OBVIOUS
  <2>2. Stream(s)[0] = <<>>
    BY StreamIs
  <2>3. Stream(t)[0] = <<>>
    BY StreamIs
  <2> QED
    BY <2>1, <2>2, <2>3
<1>2. ASSUME NEW k \in 0 .. m, k < m, Stream(s)[k] = Stream(t)[k]
      PROVE  k + 1 \in 0 .. m /\ Stream(s)[k + 1] = Stream(t)[k + 1]
  <2>1. Len(s) \in Nat /\ Len(t) \in Nat
    BY LenProperties
  <2>2. /\ k + 1 \in 1 .. m /\ k + 1 \in 1 .. Len(s) /\ k + 1 \in 1 .. Len(t)
        /\ (k + 1) - 1 = k
    BY <1>2, <2>1
  <2>3. /\ Stream(s)[k + 1] = Stream(s)[k] \o Frame(s[k + 1])
        /\ Stream(t)[k + 1] = Stream(t)[k] \o Frame(t[k + 1])
    BY <2>2, StreamIs
  <2>4. s[k + 1] = t[k + 1]
    BY <2>2
  <2>5. Stream(s)[k + 1] = Stream(t)[k + 1]
    BY ONLY <1>2, <2>3, <2>4
  <2>6. k + 1 \in 0 .. m
    BY <2>2
  <2> QED
    BY <2>5, <2>6
<1>3. \A k \in 0 .. m : k < m /\ k \in S => k + 1 \in S
  BY <1>2
<1>4. \A k \in 0 .. m : k \in S
  <2> HIDE DEF S
  <2> QED
    BY <1>1, <1>3, Induction
<1> QED
  BY <1>4

\* What comes after the first i payloads.
LEMMA StreamGrows ==
    ASSUME NEW s \in Seq(Payload), NEW i \in 0 .. Len(s), NEW j \in 0 .. Len(s), i <= j
    PROVE  \E rest \in Seq(Byte) :
              /\ Stream(s)[j] = Stream(s)[i] \o rest
              /\ i < j => rest # <<>>
<1> DEFINE n == Len(s)
           W == Stream(s)
           Q(k) == \E rest \in Seq(Byte) : W[k] = W[i] \o rest /\ (i < k => rest # <<>>)
           S == {k \in 0 .. n : i <= k => Q(k)}
<1>1. /\ n \in Nat /\ W \in [0 .. n -> Seq(Byte)]
      /\ \A k \in 1 .. n : W[k] = W[k - 1] \o Frame(s[k])
      /\ \A k \in 1 .. n : /\ Frame(s[k]) \in Seq(Byte) /\ Frame(s[k]) # <<>>
  <2>1. \A p \in Payload : Frame(p) \in Seq(Byte) /\ Frame(p) # <<>>
    BY FrameIs, EmptySeq
  <2> QED
    BY <2>1, StreamIs, LenProperties
<1> HIDE DEF n, W
<1>2. i \in 0 .. n /\ j \in 0 .. n
  BY DEF n
<1>3. W[i] \in Seq(Byte) /\ W[i] = W[i] \o <<>> /\ <<>> \in Seq(Byte)
  BY <1>1, <1>2, ConcatEmptySeq, EmptySeq
<1>4. Q(i)
  <2>1. ~ (i < i)
    BY <1>1, <1>2
  <2>2. W[i] = W[i] \o <<>> /\ (i < i => <<>> # <<>>)
    BY <1>3, <2>1
  <2> QED
    BY <1>3, <2>2
<1>5. 0 \in S
  <2>1. 0 \in 0 .. n /\ (i <= 0 => i = 0)
    BY <1>1, <1>2
  <2> HIDE DEF Q
  <2> QED
    BY <1>4, <2>1
<1>6. ASSUME NEW k \in 0 .. n, k < n, k \in S PROVE k + 1 \in S
  <2>1. k + 1 \in 0 .. n /\ k + 1 \in 1 .. n /\ (k + 1) - 1 = k
    BY <1>1, <1>6
  <2>2. CASE i <= k
    <3>1. PICK rest \in Seq(Byte) : W[k] = W[i] \o rest
      BY <1>6, <2>2
    <3>2. PICK f \in Seq(Byte) : f = Frame(s[k + 1]) /\ f # <<>>
      BY <1>1, <2>1
    <3>3. W[k + 1] = W[k] \o f
      BY <1>1, <2>1, <3>2
    <3>4. W[k + 1] = W[i] \o (rest \o f)
      <4>1. PICK x \in Seq(Byte) : x = W[i]
        BY <1>3
      <4>2. (x \o rest) \o f = x \o (rest \o f)
        BY ConcatAssociative
      <4> QED
        BY <3>1, <3>3, <4>1, <4>2
    <3>5. rest \o f \in Seq(Byte) /\ rest \o f # <<>>
      BY <3>2, ConcatProperties, ConcatEqualIffEmpty
    <3>6. Q(k + 1)
      BY <3>4, <3>5
    <3> QED
      BY <2>1, <3>6
  <2>3. CASE ~(i <= k) /\ i <= k + 1
    <3>1. k + 1 = i
      BY <1>1, <1>2, <2>3
    <3> QED
      BY <1>4, <2>1, <3>1
  <2>4. CASE ~(i <= k + 1)
    BY <2>1, <2>4
  <2> QED
    BY <1>1, <1>2, <2>2, <2>3, <2>4
<1>7. \A k \in 0 .. n : k \in S
  <2> HIDE DEF S
  <2> QED
    BY <1>1, <1>5, <1>6, Induction
<1>8. Q(j)
  BY <1>2, <1>7
<1> QED
  BY <1>8 DEF W

-----------------------------------------------------------------------------
(* Cutting the stream.                                                      *)

\* What write_frame writes.
Writable == {p \in Payload : Fits(Len(p))}

\* A piece of a sequence of bytes.
LEMMA Piece ==
    ASSUME NEW b \in Seq(Byte), NEW i \in Nat, NEW n \in Nat, i + n <= Len(b)
    PROVE  /\ SubSeq(b, i + 1, i + n) \in Seq(Byte)
           /\ Len(SubSeq(b, i + 1, i + n)) = n
           /\ \A k \in 1 .. n : SubSeq(b, i + 1, i + n)[k] = b[i + k]
<1>1. PICK lo \in Int, hi \in Int : lo = i + 1 /\ hi = i + n
  OBVIOUS
<1>2. \A k \in lo .. hi : b[k] \in Byte
  BY <1>1, LenProperties, ElementOfSeq
<1>3. /\ SubSeq(b, lo, hi) \in Seq(Byte)
      /\ Len(SubSeq(b, lo, hi)) = IF lo <= hi THEN hi - lo + 1 ELSE 0
      /\ \A k \in 1 .. hi - lo + 1 : SubSeq(b, lo, hi)[k] = b[lo + k - 1]
  BY <1>2, SubSeqProperties
<1>4. hi - lo + 1 = n /\ (IF lo <= hi THEN n ELSE 0) = n
  BY <1>1
<1>5. \A k \in 1 .. n : lo + k - 1 = i + k
  BY <1>1
<1> DEFINE c == SubSeq(b, lo, hi)
<1> HIDE DEF c
<1>6. c \in Seq(Byte) /\ Len(c) = n /\ \A k \in 1 .. n : c[k] = b[i + k]
  BY <1>3, <1>4, <1>5 DEF c
<1> QED
  BY <1>1, <1>6 DEF c

\* Bytes that begin with a frame announce its length, once the prefix is there; and
\* when it is all there, it is what is cut out, and the rest is left.
LEMMA FrameFirst ==
    ASSUME NEW b \in Seq(Byte), NEW w \in Seq(Byte), NEW r \in Seq(Byte),
           NEW p \in Writable, Cat(b, w) = Cat(Frame(p), r), Len(b) >= PrefixLen
    PROVE  /\ Number(SubSeq(b, 1, PrefixLen)) = Len(p)
           /\ Len(b) >= PrefixLen + Len(p) =>
                 /\ SubSeq(b, PrefixLen + 1, PrefixLen + Len(p)) = p
                 /\ Cat(SubSeq(b, PrefixLen + Len(p) + 1, Len(b)), w) = r
<1> DEFINE n == Len(p)
           f == Frame(p)
           q == Prefix(n)
<1>1. /\ PrefixLen \in Nat \ {0} /\ n \in Nat /\ p \in Seq(Byte)
      /\ f \in Seq(Byte) /\ Len(f) = PrefixLen + n
      /\ q \in Seq(Byte) /\ Len(q) = PrefixLen
  BY Constants, FrameIs DEF Writable
<1>2. Number(q) = n
  BY <1>1, NumberOfPrefix DEF Writable
<1>3. f = q \o p
  BY DEF Frame
<1> HIDE DEF n, f, q
<1>4. Len(b) \in Nat /\ Len(w) \in Nat /\ Len(r) \in Nat /\ Len(p) = n
  BY LenProperties DEF n
<1>5. b \o w = f \o r
  BY DEF f, Cat
<1>6. Len(b) + Len(w) = Len(f) + Len(r)
  <2>1. Len(b \o w) = Len(b) + Len(w) /\ Len(f \o r) = Len(f) + Len(r)
    BY <1>1, ConcatProperties
  <2> QED
    BY <1>5, <2>1
<1>7. ASSUME NEW i \in Nat, 1 <= i, i <= Len(b), i <= Len(f) PROVE b[i] = f[i]
  <2>1. (b \o w)[i] = b[i] /\ (f \o r)[i] = f[i]
    BY <1>1, <1>4, <1>7, ConcatProperties
  <2> QED
    BY <1>5, <2>1
<1>8. ASSUME NEW i \in Nat, 1 <= i, i <= PrefixLen PROVE f[i] = q[i]
  BY <1>1, <1>3, <1>4, <1>8, ConcatProperties
<1>9. ASSUME NEW i \in Nat, 1 <= i, i <= n PROVE f[PrefixLen + i] = p[i]
  <2>1. PrefixLen + i \in 1 .. Len(q) + Len(p) /\ ~(PrefixLen + i <= Len(q))
        /\ PrefixLen + i - Len(q) = i
    BY <1>1, <1>4, <1>9
  <2> QED
    BY <1>1, <1>3, <2>1, ConcatProperties
<1>10. SubSeq(b, 1, PrefixLen) = q
  <2> DEFINE c == SubSeq(b, 1, PrefixLen)
  <2>1. \A i \in 1 .. PrefixLen : b[i] \in Byte
    BY <1>1, <1>4, ElementOfSeq
  <2>2. /\ c \in Seq(Byte) /\ Len(c) = PrefixLen
        /\ \A i \in 1 .. PrefixLen : c[i] = b[i]
    BY <1>1, <2>1, SubSeqProperties
  <2> HIDE DEF c
  <2>3. ASSUME NEW i \in 1 .. PrefixLen PROVE c[i] = q[i]
    <3>1. i \in Nat /\ 1 <= i /\ i <= PrefixLen /\ i <= Len(b) /\ i <= Len(f)
      BY <1>1, <1>4
    <3>2. b[i] = f[i] /\ f[i] = q[i]
      BY <1>7, <1>8, <3>1
    <3> QED
      BY <2>2, <3>2
  <2>4. c = q
    BY <1>1, <2>2, <2>3, SeqEqual
  <2> QED
    BY <2>4 DEF c
<1>11. ASSUME Len(b) >= PrefixLen + n
       PROVE  SubSeq(b, PrefixLen + 1, PrefixLen + n) = p
  <2> DEFINE c == SubSeq(b, PrefixLen + 1, PrefixLen + n)
  <2>3. c \in Seq(Byte) /\ Len(c) = n /\ \A i \in 1 .. n : c[i] = b[PrefixLen + i]
    BY <1>1, <1>4, <1>11, Piece
  <2> HIDE DEF c
  <2>4. ASSUME NEW i \in 1 .. n PROVE c[i] = p[i]
    <3>2. b[PrefixLen + i] = f[PrefixLen + i]
      BY <1>1, <1>4, <1>7, <1>11
    <3>3. f[PrefixLen + i] = p[i]
      BY <1>1, <1>9
    <3> QED
      BY <2>3, <3>2, <3>3
  <2>5. c = p
    BY <1>1, <1>4, <2>3, <2>4, SeqEqual
  <2> QED
    BY <2>5 DEF c
<1>12. ASSUME Len(b) >= PrefixLen + n
       PROVE  Cat(SubSeq(b, PrefixLen + n + 1, Len(b)), w) = r
  <2> DEFINE x == SubSeq(b, 1, PrefixLen + n)
             y == SubSeq(b, PrefixLen + n + 1, Len(b))
  <2>1. /\ PrefixLen + n \in 0 .. Len(b) /\ Len(b) \in PrefixLen + n .. Len(b)
        /\ 1 \in 1 .. Len(b) + 1 /\ 1 - 1 = 0
    BY <1>1, <1>4, <1>12
  <2>2. x \o y = b
    <3>1. x \o y = SubSeq(b, 1, Len(b))
      BY <2>1, ConcatAdjacentSubSeq
    <3> QED
      BY <3>1, SubSeqFull
  <2>3. \A i \in 1 .. PrefixLen + n : b[i] \in Byte
    BY <1>1, <1>4, <1>12, ElementOfSeq
  <2>4. \A i \in PrefixLen + n + 1 .. Len(b) : b[i] \in Byte
    BY <1>1, <1>4, <1>12, ElementOfSeq
  <2>5. /\ x \in Seq(Byte) /\ Len(x) = PrefixLen + n
        /\ \A i \in 1 .. PrefixLen + n : x[i] = b[i]
    BY <1>1, <2>3, SubSeqProperties
  <2>6. y \in Seq(Byte)
    BY <1>1, <1>4, <2>4, SubSeqProperties
  <2> HIDE DEF x, y
  <2>7. x = f
    <3>1. ASSUME NEW i \in 1 .. PrefixLen + n PROVE x[i] = f[i]
      <4>1. i \in Nat /\ 1 <= i /\ i <= Len(b) /\ i <= Len(f)
        BY <1>1, <1>4, <1>12
      <4>2. b[i] = f[i]
        BY <1>7, <4>1
      <4> QED
        BY <2>5, <4>2
    <3> QED
      BY <1>1, <2>5, <3>1, SeqEqual
  <2>8. Cat(f, Cat(y, w)) = Cat(f, r)
    <3>1. Cat(x, y) = b
      BY <2>2 DEF Cat
    <3>2. Cat(Cat(x, y), w) = Cat(f, r)
      BY <3>1 DEF f
    <3> QED
      BY <2>5, <2>6, <2>7, <3>2, CatIs
  <2>9. Cat(y, w) \in Seq(Byte)
    BY <2>6, CatIs
  <2>10. Cat(y, w) = r
    BY <1>1, <2>8, <2>9, CatIs
  <2> QED
    BY <2>10 DEF y
<1> QED
  BY <1>2, <1>10, <1>11, <1>12 DEF n

\* Of two ways to put the same bytes together, the longer first part begins with the
\* shorter.
LEMMA Split ==
    ASSUME NEW b1 \in Seq(Byte), NEW b2 \in Seq(Byte), NEW c1 \in Seq(Byte), NEW c2 \in Seq(Byte),
           Cat(b1, b2) = Cat(c1, c2), Len(c1) <= Len(b1)
    PROVE  \E d \in Seq(Byte) : b1 = Cat(c1, d) /\ Cat(d, b2) = c2
<1>1. PICK n \in Nat, m \in Nat : n = Len(c1) /\ m = Len(b1) - Len(c1)
  <2>1. Len(c1) \in Nat /\ Len(b1) \in Nat
    BY LenProperties
  <2>2. Len(b1) - Len(c1) \in Nat
    BY <2>1
  <2> QED
    BY <2>1, <2>2
<1>2. Len(b1) = n + m
  BY <1>1, LenProperties
<1> DEFINE x == SubSeq(b1, 1, n)
           d == SubSeq(b1, n + 1, n + m)
<1>3. x \in Seq(Byte) /\ Len(x) = n /\ \A k \in 1 .. n : x[k] = b1[k]
  <2>1. 0 + n <= Len(b1) /\ 0 + n = n /\ 0 + 1 = 1 /\ \A k \in 1 .. n : 0 + k = k
    BY <1>2
  <2> QED
    BY <2>1, Piece
<1>4. d \in Seq(Byte)
  BY <1>2, Piece
<1>5. Cat(x, d) = b1
  <2>1. /\ 1 \in 1 .. Len(b1) + 1 /\ n \in 1 - 1 .. Len(b1) /\ n + m \in n .. Len(b1)
    BY <1>2
  <2>2. x \o d = SubSeq(b1, 1, n + m)
    BY <2>1, ConcatAdjacentSubSeq
  <2> QED
    BY <1>2, <2>2, SubSeqFull DEF Cat
<1> HIDE DEF x, d
<1>6. x = c1
  <2>1. ASSUME NEW k \in 1 .. n PROVE x[k] = c1[k]
    <3>1. /\ k \in 1 .. Len(b1) + Len(b2) /\ k <= Len(b1)
          /\ k \in 1 .. Len(c1) + Len(c2) /\ k <= Len(c1)
      BY <1>1, <1>2, LenProperties
    <3>2. (b1 \o b2)[k] = b1[k] /\ (c1 \o c2)[k] = c1[k]
      BY <3>1, ConcatProperties
    <3>3. (b1 \o b2)[k] = (c1 \o c2)[k]
      BY DEF Cat
    <3> QED
      BY ONLY <1>3, <3>2, <3>3, k \in 1 .. n
  <2> QED
    BY <1>1, <1>3, <2>1, SeqEqual
<1>7. Cat(c1, Cat(d, b2)) = Cat(c1, c2)
  BY <1>4, <1>5, <1>6, CatIs
<1>8. Cat(d, b2) = c2
  BY <1>4, <1>7, CatIs
<1> QED
  BY <1>4, <1>5, <1>6, <1>8

\* The same, in terms of Cat.
LEMMA StreamCat ==
    ASSUME NEW s \in Seq(Payload)
    PROVE  /\ \A k \in 1 .. Len(s) :
                 /\ Frame(s[k]) \in Seq(Byte)
                 /\ Stream(s)[k] = Cat(Stream(s)[k - 1], Frame(s[k]))
           /\ \A i, j \in 0 .. Len(s) :
                 i <= j => \E rest \in Seq(Byte) : Stream(s)[j] = Cat(Stream(s)[i], rest)
<1>1. \A k \in 1 .. Len(s) : s[k] \in Payload
  BY LenProperties
<1>2. \A k \in 1 .. Len(s) : Frame(s[k]) \in Seq(Byte)
  BY <1>1, FrameIs
<1>3. \A k \in 1 .. Len(s) : Stream(s)[k] = Cat(Stream(s)[k - 1], Frame(s[k]))
  BY StreamIs DEF Cat
<1>4. \A i, j \in 0 .. Len(s) :
          i <= j => \E rest \in Seq(Byte) : Stream(s)[j] = Cat(Stream(s)[i], rest)
  BY StreamGrows DEF Cat
<1> QED
  BY <1>2, <1>3, <1>4

\* When the first i payloads have been taken off a stream, the next of them is first.
LEMMA Ahead ==
    ASSUME NEW s \in Seq(Payload), NEW i \in 0 .. Len(s),
           NEW x \in Seq(Byte), NEW t \in Seq(Byte),
           Cat(Stream(s)[i], x) = Cat(Stream(s)[Len(s)], t)
    PROVE  \/ i = Len(s) /\ x = t
           \/ /\ i < Len(s)
              /\ \E rest \in Seq(Byte) :
                    /\ x = Cat(Frame(s[i + 1]), rest)
                    /\ Cat(Stream(s)[i + 1], rest) = Cat(Stream(s)[Len(s)], t)
<1> DEFINE n == Len(s)
           W == Stream(s)
<1>1. n \in Nat /\ W \in [0 .. n -> Seq(Byte)]
  BY StreamIs, LenProperties
<1>2. /\ \A k \in 1 .. n : Frame(s[k]) \in Seq(Byte) /\ W[k] = Cat(W[k - 1], Frame(s[k]))
      /\ \A k, j \in 0 .. n : k <= j => \E rest \in Seq(Byte) : W[j] = Cat(W[k], rest)
  BY StreamCat
<1>3. Cat(W[i], x) = Cat(W[n], t) /\ i \in 0 .. n
  OBVIOUS
<1> HIDE DEF n, W
<1>4. n \in 0 .. n /\ (i = n \/ i < n)
  BY <1>1, <1>3
<1>5. PICK wi \in Seq(Byte), wn \in Seq(Byte) : wi = W[i] /\ wn = W[n]
  BY <1>1, <1>3, <1>4
<1>6. Cat(wi, x) = Cat(wn, t)
  BY <1>3, <1>5
<1>7. CASE i = n
  <2>1. wi = wn
    BY <1>5, <1>7
  <2>2. x = t
    BY <1>6, <2>1, CatIs
  <2> QED
    BY <1>7, <2>2 DEF n
<1>8. CASE i < n
  <2>1. i + 1 \in 0 .. n /\ i + 1 \in 1 .. n /\ (i + 1) - 1 = i /\ i + 1 <= n
    BY <1>1, <1>3, <1>8
  <2>2. PICK f \in Seq(Byte), g \in Seq(Byte) : f = Frame(s[i + 1]) /\ g = W[i + 1]
    BY <1>1, <1>2, <2>1
  <2>3. PICK r \in Seq(Byte) : W[n] = Cat(W[i + 1], r)
    BY <1>2, <1>4, <2>1
  <2>4. W[i + 1] = Cat(W[i], Frame(s[i + 1]))
    BY <1>2, <2>1
  <2>5. g = Cat(wi, f) /\ wn = Cat(g, r)
    BY ONLY <1>5, <2>2, <2>3, <2>4
  <2>6. PICK z \in Seq(Byte) : z = Cat(r, t)
    BY CatIs
  <2>7. Cat(g, z) = Cat(wn, t)
    BY <2>5, <2>6, CatIs
  <2>8. Cat(g, z) = Cat(wi, Cat(f, z)) /\ Cat(f, z) \in Seq(Byte)
    BY <2>5, CatIs
  <2>9. x = Cat(f, z)
    BY <1>6, <2>7, <2>8, CatIs
  <2> QED
    BY <1>5, <1>8, <2>2, <2>7, <2>9 DEF n, W
<1> QED
  BY <1>4, <1>7, <1>8

\* However many bytes of a stream there are, some payload is the last that is whole in
\* them.
LEMMA LastWhole ==
    ASSUME NEW s \in Seq(Payload), NEW through \in Nat
    PROVE  \E k \in 0 .. Len(s) :
              /\ Len(Stream(s)[k]) <= through
              /\ k < Len(s) => Len(Stream(s)[k + 1]) > through
<1> DEFINE n == Len(s)
           length(k) == Len(Stream(s)[k])
           S == {k \in 0 .. n : length(k) <= through}
<1>1. n \in Nat /\ \A k \in 0 .. n : length(k) \in Nat
  BY StreamIs, LenProperties
<1>2. 0 \in S
  <2>1. Len(Stream(s)[0]) = 0
    BY StreamIs, EmptySeq
  <2> QED
    BY <1>1, <2>1
<1> HIDE DEF n, length
<1>3. SUFFICES ASSUME ~ \E k \in 0 .. n :
                          length(k) <= through /\ (k < n => length(k + 1) > through)
               PROVE  FALSE
  BY DEF n, length
<1>4. ASSUME NEW k \in 0 .. n, k < n, k \in S PROVE k + 1 \in S
  <2>1. k + 1 \in 0 .. n
    BY <1>1, <1>4
  <2>2. length(k + 1) \in Nat /\ ~(length(k + 1) > through)
    BY <1>1, <1>3, <1>4, <2>1
  <2> QED
    BY <2>1, <2>2
<1>5. \A k \in 0 .. n : k \in S
  <2> HIDE DEF S
  <2> QED
    BY <1>1, <1>2, <1>4, Induction
<1>6. n \in 0 .. n /\ ~(n < n)
  BY <1>1
<1> QED
  BY <1>3, <1>5, <1>6

\* x, after the first i payloads of s, is the rest of the first last and a beginning of
\* the next.
TornAfter(s, i, x, last) ==
    \E t \in Seq(Byte), u \in Seq(Byte) :
        /\ Cat(Stream(s)[i], x) = Cat(Stream(s)[last], t)
        /\ Frame(s[last + 1]) = Cat(t, u) /\ u # <<>>
        /\ Len(Stream(s)[last]) + Len(t) = Len(Stream(s)[i]) + Len(x)
        /\ i = last => t = x

\* What is left of a stream that breaks off: some payloads that are whole, none of
\* them taken off already, and the beginning of the next.
LEMMA BreaksOff ==
    ASSUME NEW s \in Seq(Payload), NEW i \in 0 .. Len(s),
           NEW x \in Seq(Byte), NEW lost \in Seq(Byte), lost # <<>>,
           Cat(Stream(s)[i], Cat(x, lost)) = Stream(s)[Len(s)],
           NEW last \in 0 .. Len(s),
           Len(Stream(s)[last]) <= Len(Stream(s)[i]) + Len(x),
           last < Len(s) => Len(Stream(s)[last + 1]) > Len(Stream(s)[i]) + Len(x)
    PROVE  i <= last /\ last < Len(s) /\ TornAfter(s, i, x, last)
<1> DEFINE n == Len(s)
           W == Stream(s)
<1>1. n \in Nat /\ W \in [0 .. n -> Seq(Byte)]
  BY StreamIs, LenProperties
<1>2. /\ \A k \in 1 .. n : Frame(s[k]) \in Seq(Byte) /\ W[k] = Cat(W[k - 1], Frame(s[k]))
      /\ \A k, j \in 0 .. n : k <= j => \E rest \in Seq(Byte) : W[j] = Cat(W[k], rest)
  BY StreamCat
<1>3. /\ i \in 0 .. n /\ last \in 0 .. n
      /\ Cat(W[i], Cat(x, lost)) = W[n]
      /\ Len(W[last]) <= Len(W[i]) + Len(x)
      /\ last < n => Len(W[last + 1]) > Len(W[i]) + Len(x)
  OBVIOUS
<1> HIDE DEF n, W
<1>4. \A j, k \in 0 .. n : j <= k => Len(W[j]) <= Len(W[k])
  <2> SUFFICES ASSUME NEW j \in 0 .. n, NEW k \in 0 .. n, j <= k
               PROVE  Len(W[j]) <= Len(W[k])
    OBVIOUS
  <2>1. PICK wj \in Seq(Byte), r \in Seq(Byte) : wj = W[j] /\ W[k] = Cat(wj, r)
    BY <1>1, <1>2
  <2>2. PICK c \in Seq(Byte) : c = Cat(wj, r)
    BY CatIs
  <2>3. Len(c) = Len(wj) + Len(r) /\ Len(wj) \in Nat /\ Len(r) \in Nat
    BY <2>2, CatIs
  <2>4. Len(wj) <= Len(c)
    BY <2>3
  <2> QED
    BY <2>1, <2>2, <2>4
<1>5. n \in 0 .. n
  BY <1>1
<1>6. PICK wi \in Seq(Byte), wn \in Seq(Byte), wl \in Seq(Byte) :
          wi = W[i] /\ wn = W[n] /\ wl = W[last]
  BY <1>1, <1>3, <1>5
<1>7. PICK y \in Seq(Byte) : y = Cat(wi, x)
  BY CatIs
<1>8. Cat(y, lost) = wn
  <2>1. Cat(wi, Cat(x, lost)) = wn
    BY <1>3, <1>6
  <2> QED
    BY <1>7, <2>1, CatIs
<1>9. /\ Len(lost) \in Nat \ {0} /\ Len(y) \in Nat /\ Len(wi) \in Nat /\ Len(wl) \in Nat
      /\ Len(x) \in Nat /\ Len(y) = Len(wi) + Len(x) /\ Len(wn) = Len(y) + Len(lost)
  BY <1>7, <1>8, CatIs, EmptySeq
<1>10. Len(wl) <= Len(y) /\ (last < n => Len(W[last + 1]) > Len(y))
  BY <1>3, <1>6, <1>9
<1>11. last < n
  <2>1. last # n
    <3>1. SUFFICES ASSUME last = n PROVE FALSE
      OBVIOUS
    <3>2. wl = wn
      BY <1>6, <3>1
    <3> QED
      BY <1>9, <1>10, <3>2
  <2>2. last \in 0 .. n
    BY <1>3
  <2> QED
    BY <1>1, <2>1, <2>2
<1>12. last + 1 \in 0 .. n /\ last + 1 \in 1 .. n /\ (last + 1) - 1 = last /\ last + 1 <= n
  BY <1>1, <1>3, <1>11
<1>13. PICK f \in Seq(Byte), g \in Seq(Byte) : f = Frame(s[last + 1]) /\ g = W[last + 1]
  BY <1>1, <1>2, <1>12
<1>14. g = Cat(wl, f)
  <2>1. W[last + 1] = Cat(W[last], Frame(s[last + 1]))
    BY <1>2, <1>12
  <2> QED
    BY ONLY <1>6, <1>13, <2>1
<1>15. Len(g) > Len(y) /\ Len(g) = Len(wl) + Len(f) /\ Len(f) \in Nat /\ Len(g) \in Nat
  <2>1. Len(g) > Len(y)
    BY <1>10, <1>11, <1>13
  <2>2. Len(g) = Len(wl) + Len(f) /\ Len(f) \in Nat /\ Len(g) \in Nat
    BY <1>14, CatIs
  <2> QED
    BY <2>1, <2>2
<1>16. i <= last
  <2>1. ASSUME ~(i <= last) PROVE FALSE
    <3>1. last + 1 <= i
      BY <1>1, <1>3, <2>1
    <3>2. Len(g) <= Len(wi)
      BY <1>3, <1>4, <1>6, <1>12, <1>13, <3>1
    <3> QED
      BY <1>9, <1>15, <3>2
  <2> QED
    BY <2>1
<1>17. PICK r \in Seq(Byte) : wn = Cat(g, r)
  BY <1>2, <1>5, <1>6, <1>12, <1>13
<1>18. PICK z \in Seq(Byte) : z = Cat(f, r)
  BY CatIs
<1>19. Cat(y, lost) = Cat(wl, z)
  BY <1>8, <1>14, <1>17, <1>18, CatIs
<1>20. PICK t \in Seq(Byte) : y = Cat(wl, t) /\ Cat(t, lost) = z
  BY <1>10, <1>19, Split
<1>21. Len(y) = Len(wl) + Len(t) /\ Len(t) \in Nat
  BY <1>20, CatIs
<1>22. Len(t) < Len(f)
  BY <1>9, <1>15, <1>21
<1>23. PICK u \in Seq(Byte) : f = Cat(t, u)
  <2>1. Cat(f, r) = Cat(t, lost) /\ Len(t) <= Len(f)
    BY <1>15, <1>18, <1>20, <1>21, <1>22
  <2> QED
    BY <2>1, Split
<1>24. u # <<>>
  BY <1>15, <1>21, <1>22, <1>23, CatIs
<1>25. i = last => t = x
  <2>1. SUFFICES ASSUME i = last PROVE t = x
    OBVIOUS
  <2>2. wi = wl
    BY <1>6, <2>1
  <2>3. Cat(wi, t) = Cat(wi, x)
    BY <1>7, <1>20, <2>2
  <2> QED
    BY <2>3, CatIs
<1>26. /\ Cat(W[i], x) = Cat(W[last], t)
       /\ Frame(s[last + 1]) = Cat(t, u)
       /\ Len(W[last]) + Len(t) = Len(W[i]) + Len(x)
  BY <1>6, <1>7, <1>9, <1>13, <1>20, <1>21, <1>23
<1> QED
  BY <1>11, <1>16, <1>24, <1>25, <1>26 DEF W, n, TornAfter

-----------------------------------------------------------------------------
(* The invariant: what has been read is the beginning of what has been      *)
(* sent, and what comes after it in the stream is what the buffer and the   *)
(* wire hold, up to the frame that the writer died in.                      *)

Beginning(t) ==
    /\ t # <<>>
    /\ \E p \in Writable, u \in Seq(Byte) : Frame(p) = Cat(t, u) /\ u # <<>>
Torn(t) == IF cut THEN Beginning(t) ELSE t = <<>>

Typed ==
    /\ wire \in Seq(Byte) /\ buffer \in Seq(Byte)
    /\ sent \in Seq(Writable) /\ read \in Seq(Writable)
    /\ closed \in BOOLEAN /\ reset \in BOOLEAN /\ cut \in BOOLEAN
    /\ end \in {"open", "end", "error"}

InOrder ==
    /\ Len(read) <= Len(sent)
    /\ \A k \in 1 .. Len(read) : read[k] = sent[k]

Flows ==
    \E t \in Seq(Byte) :
        /\ Torn(t)
        /\ Cat(Stream(sent)[Len(read)], Cat(buffer, wire)) = Cat(Stream(sent)[Len(sent)], t)

\* The writer dies once; and a reader that gave up had something in hand.
Ended ==
    /\ cut => closed
    /\ end = "error" /\ Connected => buffer # <<>>

IInv == Typed /\ InOrder /\ Flows /\ Ended /\ FailsForAReason

LEMMA WritableSeq ==
    ASSUME NEW s \in Seq(Writable)
    PROVE  /\ s \in Seq(Payload) /\ Len(s) \in Nat
           /\ \A k \in 1 .. Len(s) : s[k] \in Writable
<1>1. Writable \subseteq Payload
  BY DEF Writable
<1> QED
  BY <1>1, SeqMonotonic, LenProperties, ElementOfSeq

LEMMA AnnouncedType ==
    ASSUME buffer \in Seq(Byte), HasPrefix
    PROVE  Announced \in Nat
<1>1. PICK b \in Seq(Byte) : b = buffer
  OBVIOUS
<1>2. Len(b) >= PrefixLen /\ PrefixLen \in Nat
  BY <1>1, Constants DEF HasPrefix
<1>3. SubSeq(b, 1, PrefixLen) \in Seq(Byte)
  <2>1. 0 + PrefixLen <= Len(b) /\ 0 + 1 = 1 /\ 0 + PrefixLen = PrefixLen /\ 0 \in Nat
    BY <1>2, LenProperties
  <2>2. SubSeq(b, 0 + 1, 0 + PrefixLen) \in Seq(Byte)
    BY <1>2, <2>1, Piece
  <2> QED
    BY <2>1, <2>2
<1>4. Number(SubSeq(b, 1, PrefixLen)) \in Nat
  BY <1>3, NumberType
<1> QED
  BY <1>1, <1>4 DEF Announced

\* What the reader has before it: the next payload sent, or, when it has read them all,
\* no whole frame.
LEMMA Before ==
    ASSUME IInv
    PROVE  \/ /\ Len(read) < Len(sent)
              /\ sent[Len(read) + 1] \in Writable
              /\ HasPrefix => Announced = Len(sent[Len(read) + 1])
              /\ Whole => /\ Parsed = sent[Len(read) + 1]
                          /\ \E t \in Seq(Byte) :
                                /\ Torn(t)
                                /\ Cat(Stream(sent)[Len(read) + 1], Cat(Rest, wire))
                                      = Cat(Stream(sent)[Len(sent)], t)
              /\ wire = <<>> => HasPrefix /\ Len(buffer) >= PrefixLen + Announced
           \/ /\ read = sent /\ ~Whole
              /\ buffer # <<>> => cut
              /\ buffer = <<>> /\ wire = <<>> => ~cut
<1>1. PICK s \in Seq(Writable), b \in Seq(Byte), w \in Seq(Byte) :
          s = sent /\ b = buffer /\ w = wire
  BY DEF IInv, Typed
<1>2. PICK i \in Nat : i = Len(read)
  BY LenProperties DEF IInv, Typed
<1>3. s \in Seq(Payload) /\ Len(s) \in Nat /\ i \in 0 .. Len(s)
      /\ \A k \in 1 .. Len(s) : s[k] \in Writable
  BY <1>1, <1>2, WritableSeq DEF IInv, InOrder
<1>4. PICK t \in Seq(Byte) : Torn(t) /\ Cat(Stream(s)[i], Cat(b, w)) = Cat(Stream(s)[Len(s)], t)
  BY <1>1, <1>2 DEF IInv, Flows
<1>5. PICK x \in Seq(Byte) : x = Cat(b, w)
  BY CatIs
<1>6. \/ i = Len(s) /\ x = t
      \/ /\ i < Len(s)
         /\ \E rest \in Seq(Byte) :
               /\ x = Cat(Frame(s[i + 1]), rest)
               /\ Cat(Stream(s)[i + 1], rest) = Cat(Stream(s)[Len(s)], t)
  BY <1>3, <1>4, <1>5, Ahead
<1>7. PrefixLen \in Nat \ {0}
  BY Constants
<1>8. CASE i < Len(s) /\ \E rest \in Seq(Byte) :
                            /\ x = Cat(Frame(s[i + 1]), rest)
                            /\ Cat(Stream(s)[i + 1], rest) = Cat(Stream(s)[Len(s)], t)
  <2>1. PICK rest \in Seq(Byte) :
            /\ x = Cat(Frame(s[i + 1]), rest)
            /\ Cat(Stream(s)[i + 1], rest) = Cat(Stream(s)[Len(s)], t)
    BY <1>8
  <2>2. PICK p \in Writable : p = s[i + 1]
    BY <1>3, <1>8
  <2>3. Cat(b, w) = Cat(Frame(p), rest)
    BY <1>5, <2>1, <2>2
  <2>4. Len(b) >= PrefixLen => Number(SubSeq(b, 1, PrefixLen)) = Len(p)
    BY <2>3, FrameFirst
  <2>5. Len(b) >= PrefixLen /\ Len(b) >= PrefixLen + Len(p)
          => /\ SubSeq(b, PrefixLen + 1, PrefixLen + Len(p)) = p
             /\ Cat(SubSeq(b, PrefixLen + Len(p) + 1, Len(b)), w) = rest
    BY <2>3, FrameFirst
  <2>6. HasPrefix => Announced = Len(p)
    BY <1>1, <2>4 DEF HasPrefix, Announced
  <2>7. Whole => Parsed = p /\ Cat(Rest, wire) = rest
    BY <1>1, <2>5, <2>6 DEF Whole, HasPrefix, Parsed, Rest
  <2>8. wire = <<>> => HasPrefix /\ Len(buffer) >= PrefixLen + Announced
    <3>1. SUFFICES ASSUME wire = <<>>
                   PROVE  HasPrefix /\ Len(buffer) >= PrefixLen + Announced
      OBVIOUS
    <3>2. PICK f \in Seq(Byte) : f = Frame(p) /\ Len(f) = PrefixLen + Len(p) /\ Len(p) \in Nat
      BY FrameIs DEF Writable
    <3>3. b = Cat(f, rest)
      BY <1>1, <2>3, <3>1, <3>2, CatIs
    <3>4. Len(b) = Len(f) + Len(rest) /\ Len(rest) \in Nat
      BY <3>3, CatIs
    <3>5. Len(b) >= PrefixLen /\ Len(b) >= PrefixLen + Len(p)
      BY <1>7, <3>2, <3>4
    <3>6. HasPrefix
      BY <1>1, <3>5 DEF HasPrefix
    <3> QED
      BY <1>1, <2>6, <3>5, <3>6
  <2>9. Whole => \E t1 \in Seq(Byte) :
                    /\ Torn(t1)
                    /\ Cat(Stream(sent)[Len(read) + 1], Cat(Rest, wire))
                          = Cat(Stream(sent)[Len(sent)], t1)
    BY <1>1, <1>2, <1>4, <2>1, <2>7
  <2> QED
    BY <1>1, <1>2, <1>8, <2>2, <2>6, <2>7, <2>8, <2>9
<1>9. CASE i = Len(s) /\ x = t
  <2>1. read = sent
    <3>1. Len(read) = Len(sent) /\ \A k \in 1 .. Len(read) : read[k] = sent[k]
      BY <1>1, <1>2, <1>9 DEF IInv, InOrder
    <3> QED
      BY <3>1, SeqEqual DEF IInv, Typed
  <2>2. buffer # <<>> => cut
    <3>1. SUFFICES ASSUME b # <<>> PROVE cut
      BY <1>1
    <3>2. Len(b) \in Nat \ {0} /\ Len(w) \in Nat /\ Len(t) = Len(b) + Len(w)
      <4>1. Len(b) \in Nat \ {0}
        BY <3>1, EmptySeq
      <4>2. t = Cat(b, w)
        BY <1>5, <1>9
      <4> QED
        BY <4>1, <4>2, CatIs
    <3>3. t # <<>>
      BY <3>2, EmptySeq
    <3> QED
      BY <1>4, <3>3 DEF Torn
  <2>3. buffer = <<>> /\ wire = <<>> => ~cut
    <3>1. SUFFICES ASSUME b = <<>>, w = <<>> PROVE ~cut
      BY <1>1
    <3>2. t = <<>>
      BY <1>5, <1>9, <3>1, CatIs
    <3> QED
      BY <1>4, <3>2 DEF Torn, Beginning
  <2>4. ASSUME Whole PROVE FALSE
    <3>1. Len(b) >= PrefixLen /\ Len(b) >= PrefixLen + Announced
      BY <1>1, <2>4 DEF Whole, HasPrefix
    <3>2. b # <<>>
      BY <1>7, <3>1, EmptySeq
    <3>3. PICK p \in Writable, u \in Seq(Byte) : Frame(p) = Cat(t, u) /\ u # <<>>
      BY <1>1, <1>4, <2>2, <3>2 DEF Torn, Beginning
    <3>4. PICK y \in Seq(Byte), f \in Seq(Byte), n \in Nat :
              /\ y = Cat(w, u) /\ f = Frame(p) /\ n = Len(p)
      BY CatIs, FrameIs DEF Writable
    <3>5. Cat(b, y) = Cat(Frame(p), <<>>) /\ <<>> \in Seq(Byte)
      <4>1. f = Cat(Cat(b, w), u)
        BY <1>5, <1>9, <3>3, <3>4
      <4>2. Cat(b, y) = f
        BY <3>4, <4>1, CatIs
      <4>3. Cat(f, <<>>) = f
        BY CatIs, EmptySeq
      <4> QED
        BY <3>4, <4>2, <4>3, EmptySeq
    <3>6. /\ Number(SubSeq(b, 1, PrefixLen)) = n
          /\ Len(b) >= PrefixLen + n => Cat(SubSeq(b, PrefixLen + n + 1, Len(b)), y) = <<>>
      <4>1. Len(b) >= PrefixLen
        BY <3>1
      <4>2. /\ Number(SubSeq(b, 1, PrefixLen)) = Len(p)
            /\ Len(b) >= PrefixLen + Len(p) =>
                  Cat(SubSeq(b, PrefixLen + Len(p) + 1, Len(b)), y) = <<>>
        <5>1. PICK e \in Seq(Byte) : e = <<>>
          BY <3>5
        <5>2. Cat(b, y) = Cat(Frame(p), e)
          BY <3>5, <5>1
        <5>3. /\ Number(SubSeq(b, 1, PrefixLen)) = Len(p)
              /\ Len(b) >= PrefixLen + Len(p) =>
                    Cat(SubSeq(b, PrefixLen + Len(p) + 1, Len(b)), y) = e
          BY <4>1, <5>2, FrameFirst
        <5> QED
          BY <5>1, <5>3
      <4> QED
        BY <3>4, <4>2
    <3>7. Announced = n
      BY <1>1, <3>6 DEF Announced
    <3>8. Len(b) >= PrefixLen + n
      BY <3>1, <3>7
    <3>9. PICK z \in Seq(Byte) : Cat(z, y) = <<>>
      <4>1. PICK k \in Nat, m \in Nat : k = PrefixLen + n /\ k + m = Len(b)
        <5>1. PrefixLen + n \in Nat /\ Len(b) - (PrefixLen + n) \in Nat
          BY <1>7, <3>8, LenProperties
        <5>2. PICK k \in Nat, m \in Nat : k = PrefixLen + n /\ m = Len(b) - (PrefixLen + n)
          BY <5>1
        <5>3. k + m = Len(b)
          BY <5>2, LenProperties
        <5> QED
          BY <5>2, <5>3
      <4>2. SubSeq(b, k + 1, k + m) \in Seq(Byte)
        BY <4>1, Piece
      <4>3. SubSeq(b, PrefixLen + n + 1, Len(b)) \in Seq(Byte)
        BY <4>1, <4>2
      <4>4. Cat(SubSeq(b, PrefixLen + n + 1, Len(b)), y) = <<>>
        BY <3>6, <3>8
      <4> QED
        BY <4>3, <4>4
    <3>10. Len(z) \in Nat /\ Len(y) \in Nat /\ Len(z) + Len(y) = 0
      <4>1. Len(Cat(z, y)) = 0
        BY <3>9, EmptySeq
      <4> QED
        BY <4>1, CatIs
    <3>11. Len(y) = Len(w) + Len(u) /\ Len(w) \in Nat /\ Len(u) \in Nat \ {0}
      BY <3>3, <3>4, CatIs, EmptySeq
    <3> QED
      BY <3>10, <3>11
  <2> QED
    BY <2>1, <2>2, <2>3, <2>4
<1> QED
  BY <1>6, <1>8, <1>9

-----------------------------------------------------------------------------
(* Every step preserves it.                                                 *)

LEMMA WriteFrameKeeps ==
    ASSUME IInv, NEW p \in Payload, WriteFrame(p)
    PROVE  IInv'
<1>1. PICK s \in Seq(Writable), b \in Seq(Byte), w \in Seq(Byte), r \in Seq(Writable) :
          s = sent /\ b = buffer /\ w = wire /\ r = read
  BY DEF IInv, Typed
<1>2. p \in Writable
  BY DEF WriteFrame, Writable
<1>3. PICK f \in Seq(Byte) : f = Frame(p)
  BY FrameIs
<1>4. PICK q \in Seq(Writable) : q = Append(s, p)
  BY <1>2, AppendProperties
<1>5. /\ Len(q) = Len(s) + 1 /\ q[Len(s) + 1] = p /\ \A k \in 1 .. Len(s) : q[k] = s[k]
  BY <1>2, <1>4, AppendProperties
<1>6. PICK v \in Seq(Byte) : v = Cat(w, f)
  BY CatIs
<1>7. /\ wire' = v /\ sent' = q /\ buffer' = b /\ read' = r
      /\ UNCHANGED <<closed, reset, end, cut>> /\ Connected
  BY <1>1, <1>3, <1>4, <1>6 DEF WriteFrame, Cat
<1>8. s \in Seq(Payload) /\ q \in Seq(Payload) /\ Len(s) \in Nat /\ Len(r) \in 0 .. Len(s)
      /\ \A k \in 1 .. Len(r) : r[k] = s[k]
  BY <1>1, WritableSeq DEF IInv, InOrder
<1>9. Typed'
  BY <1>7 DEF IInv, Typed
<1>10. InOrder'
  <2>1. Len(r) <= Len(q) /\ \A k \in 1 .. Len(r) : r[k] = q[k]
    <3>1. Len(r) <= Len(q)
      BY <1>5, <1>8
    <3>2. ASSUME NEW k \in 1 .. Len(r) PROVE r[k] = q[k]
      <4>1. k \in 1 .. Len(s)
        BY <1>8
      <4> QED
        BY <1>5, <1>8, <4>1
    <3> QED
      BY <3>1, <3>2
  <2> QED
    BY <1>7, <2>1 DEF InOrder
<1>11. Flows'
  <2>1. ~cut
    BY <1>7 DEF IInv, Ended, Connected
  <2>2. PICK t \in Seq(Byte) :
            t = <<>> /\ Cat(Stream(s)[Len(r)], Cat(b, w)) = Cat(Stream(s)[Len(s)], t)
    BY <1>1, <2>1 DEF IInv, Flows, Torn
  <2>3. PICK x \in Seq(Byte), y \in Seq(Byte), z \in Seq(Byte) :
            x = Stream(s)[Len(r)] /\ y = Stream(s)[Len(s)] /\ z = Stream(q)[Len(q)]
    <3>1. Len(s) \in 0 .. Len(s) /\ Len(q) \in 0 .. Len(q)
      BY <1>5, <1>8
    <3> QED
      BY <1>8, <3>1, StreamIs
  <2>4. \A k \in 0 .. Len(s) : Stream(s)[k] = Stream(q)[k]
    <3>1. PICK m \in Nat : m = Len(s)
      BY <1>8
    <3>2. m <= Len(s) /\ m <= Len(q) /\ \A k \in 1 .. m : s[k] = q[k]
      BY <1>5, <3>1
    <3>3. \A k \in 0 .. m : Stream(s)[k] = Stream(q)[k]
      BY <1>8, <3>2, StreamsAgree
    <3> QED
      BY <3>1, <3>3
  <2>5. z = Cat(y, f)
    <3>1. Len(q) \in 1 .. Len(q) /\ Len(q) - 1 = Len(s) /\ Len(s) \in 0 .. Len(s)
      BY <1>5, <1>8
    <3>2. Stream(q)[Len(q)] = Cat(Stream(q)[Len(q) - 1], Frame(q[Len(q)]))
      BY <1>8, <3>1, StreamCat
    <3>3. Stream(q)[Len(q) - 1] = y /\ Frame(q[Len(q)]) = f
      BY <1>3, <1>5, <2>3, <2>4, <3>1
    <3> QED
      BY <2>3, <3>2, <3>3
  <2>6. Stream(q)[Len(r)] = x
    BY <1>8, <2>3, <2>4
  <2>7. PICK c \in Seq(Byte) : c = Cat(b, w)
    BY CatIs
  <2>8. Cat(x, c) = y
    BY <2>2, <2>3, <2>7, CatIs
  <2>9. Cat(x, Cat(b, v)) = z
    <3>1. Cat(b, v) = Cat(c, f)
      BY <1>6, <2>7, CatIs
    <3>2. Cat(x, Cat(c, f)) = Cat(y, f)
      BY <2>8, CatIs
    <3> QED
      BY <2>5, <3>1, <3>2
  <2>10. Cat(Stream(q)[Len(r)], Cat(b, v)) = Cat(Stream(q)[Len(q)], <<>>)
    BY <2>3, <2>6, <2>9, CatIs
  <2>11. Torn(<<>>)'
    BY <1>7, <2>1 DEF Torn
  <2>12. <<>> \in Seq(Byte)
    BY EmptySeq
  <2> QED
    BY <1>7, <2>10, <2>11, <2>12 DEF Flows
<1>12. Ended'
  BY <1>1, <1>7 DEF IInv, Ended, Connected
<1>13. FailsForAReason'
  <2>1. SUFFICES ASSUME end = "error"
                 PROVE  Len(r) < Len(q) /\ ~Readable(q[Len(r) + 1])
    BY <1>7 DEF FailsForAReason
  <2>2. Len(r) < Len(s) /\ ~Readable(s[Len(r) + 1])
    BY <1>1, <1>7, <2>1 DEF IInv, FailsForAReason, Ended, Connected
  <2>3. Len(r) + 1 \in 1 .. Len(s)
    BY <1>8, <2>2
  <2> QED
    BY <1>5, <1>8, <2>2, <2>3
<1> QED
  BY <1>9, <1>10, <1>11, <1>12, <1>13 DEF IInv

LEMMA Taken ==
    ASSUME NEW s \in Seq(Writable), NEW n \in 0 .. Len(s)
    PROVE  /\ SubSeq(s, 1, n) \in Seq(Writable) /\ Len(SubSeq(s, 1, n)) = n
           /\ \A k \in 1 .. n : SubSeq(s, 1, n)[k] = s[k]
<1>1. Len(s) \in Nat /\ \A k \in 1 .. Len(s) : s[k] \in Writable
  BY WritableSeq
<1>2. PICK lo \in Int, hi \in Int : lo = 1 /\ hi = n
  BY <1>1
<1>3. \A k \in lo .. hi : s[k] \in Writable
  BY <1>1, <1>2
<1>4. /\ SubSeq(s, lo, hi) \in Seq(Writable)
      /\ Len(SubSeq(s, lo, hi)) = IF lo <= hi THEN hi - lo + 1 ELSE 0
      /\ \A k \in 1 .. hi - lo + 1 : SubSeq(s, lo, hi)[k] = s[lo + k - 1]
  BY <1>3, SubSeqProperties
<1>5. hi - lo + 1 = n /\ (IF lo <= hi THEN n ELSE 0) = n /\ \A k \in 1 .. n : lo + k - 1 = k
  BY <1>1, <1>2
<1> DEFINE c == SubSeq(s, lo, hi)
<1> HIDE DEF c
<1>6. c \in Seq(Writable) /\ Len(c) = n /\ \A k \in 1 .. n : c[k] = s[k]
  BY <1>4, <1>5 DEF c
<1> QED
  BY <1>2, <1>6 DEF c

LEMMA DieKeeps ==
    ASSUME IInv, NEW left \in 0 .. Len(wire), Die(left)
    PROVE  /\ IInv'
           /\ \E k \in Len(read) .. Len(sent) : sent' = SubSeq(sent, 1, k)
<1>1. PICK s \in Seq(Writable), b \in Seq(Byte), w \in Seq(Byte), r \in Seq(Writable) :
          s = sent /\ b = buffer /\ w = wire /\ r = read
  BY DEF IInv, Typed
<1>2. /\ s \in Seq(Payload) /\ Len(s) \in Nat /\ Len(r) \in 0 .. Len(s)
      /\ \A k \in 1 .. Len(r) : r[k] = s[k]
      /\ Len(b) \in Nat /\ Len(w) \in Nat /\ left \in Nat /\ left < Len(w)
  <2>1. s \in Seq(Payload) /\ Len(s) \in Nat /\ Len(r) \in Nat
    BY WritableSeq
  <2>2. Len(r) <= Len(s) /\ \A k \in 1 .. Len(r) : r[k] = s[k]
    BY <1>1 DEF IInv, InOrder
  <2>3. left < Len(w) /\ left \in Nat
    BY <1>1, LenProperties DEF Die
  <2> QED
    BY <2>1, <2>2, <2>3, LenProperties
<1>3. PICK v \in Seq(Byte), lost \in Seq(Byte) :
          /\ v = SubSeq(w, 1, left) /\ Len(v) = left
          /\ lost # <<>> /\ Cat(v, lost) = w
  <2>1. PICK m \in Nat : left + m = Len(w) /\ m > 0
    <3>1. Len(w) - left \in Nat /\ left + (Len(w) - left) = Len(w) /\ Len(w) - left > 0
      BY <1>2
    <3> QED
      BY <3>1
  <2>2. SubSeq(w, 1, left) \in Seq(Byte) /\ Len(SubSeq(w, 1, left)) = left
    <3>1. 0 + left <= Len(w) /\ 0 + left = left /\ 0 + 1 = 1
      BY <1>2
    <3> QED
      BY <1>2, <3>1, Piece
  <2>3. SubSeq(w, left + 1, left + m) \in Seq(Byte) /\ Len(SubSeq(w, left + 1, left + m)) = m
    BY <1>2, <2>1, Piece
  <2>4. SubSeq(w, 1, left) \o SubSeq(w, left + 1, left + m) = w
    <3>1. 1 \in 1 .. Len(w) + 1 /\ left \in 1 - 1 .. Len(w) /\ left + m \in left .. Len(w)
      BY <1>2, <2>1
    <3>2. SubSeq(w, 1, left) \o SubSeq(w, left + 1, left + m) = SubSeq(w, 1, left + m)
      BY <3>1, ConcatAdjacentSubSeq
    <3> QED
      BY <2>1, <3>2, SubSeqFull
  <2>5. PICK v \in Seq(Byte) : v = SubSeq(w, 1, left)
    BY <2>2
  <2>6. PICK lost \in Seq(Byte) : lost = SubSeq(w, left + 1, left + m)
    BY <2>3
  <2>7. Len(v) = left /\ v \o lost = w
    BY <2>2, <2>4, <2>5, <2>6
  <2>8. Len(lost) = m
    BY <2>3, <2>6
  <2>9. lost # <<>>
    BY <2>1, <2>8, EmptySeq
  <2>10. Cat(v, lost) = w
    BY <2>7 DEF Cat
  <2> QED
    BY <2>5, <2>7, <2>9, <2>10
<1>4. ~closed /\ ~reset /\ ~cut
  BY DEF Die, Connected, IInv, Ended
<1>5. Cat(Stream(s)[Len(r)], Cat(b, w)) = Stream(s)[Len(s)]
  <2>1. PICK t \in Seq(Byte) :
            t = <<>> /\ Cat(Stream(s)[Len(r)], Cat(b, w)) = Cat(Stream(s)[Len(s)], t)
    BY <1>1, <1>4 DEF IInv, Flows, Torn
  <2>2. Stream(s)[Len(s)] \in Seq(Byte)
    <3>1. Stream(s) \in [0 .. Len(s) -> Seq(Byte)]
      <4>1. s \in Seq(Payload)
        BY WritableSeq
      <4> QED
        BY <4>1, StreamIs
    <3>2. Len(s) \in 0 .. Len(s)
      BY <1>2
    <3> QED
      BY <3>1, <3>2
  <2> QED
    BY <2>1, <2>2, CatIs
<1>6. PICK x \in Seq(Byte) : x = Cat(b, v) /\ Len(x) = Len(b) + left
  <2>1. Cat(b, v) \in Seq(Byte) /\ Len(Cat(b, v)) = Len(b) + Len(v) /\ Len(v) = left
    BY ONLY <1>3, b \in Seq(Byte), v \in Seq(Byte), CatIs
  <2> QED
    BY <2>1
<1>7. Cat(Stream(s)[Len(r)], Cat(x, lost)) = Stream(s)[Len(s)]
  <2>1. Cat(Cat(b, v), lost) = Cat(b, Cat(v, lost)) /\ Cat(v, lost) = w
    <3>1. Cat(v, lost) = w
      BY <1>3
    <3> QED
      BY <3>1, CatIs
  <2>2. Cat(x, lost) = Cat(b, w)
    BY <1>6, <2>1
  <2> QED
    BY <1>5, <2>2
<1>8. PICK through \in Nat :
          /\ through = Len(Stream(s)[Len(r)]) + Len(x)
          /\ through = Len(Stream(s)[Len(s)]) - Len(w) + left
  <2>1. PICK wr \in Seq(Byte), y \in Seq(Byte) :
            wr = Stream(s)[Len(r)] /\ y = Cat(b, w)
    <3>1. Stream(s) \in [0 .. Len(s) -> Seq(Byte)] /\ Cat(b, w) \in Seq(Byte)
      BY <1>2, StreamIs, CatIs
    <3> QED
      BY <1>2, <3>1
  <2>2. /\ Len(Stream(s)[Len(s)]) = Len(wr) + Len(y) /\ Len(wr) \in Nat
        /\ Len(y) = Len(b) + Len(w)
    <3>1. Cat(wr, y) = Stream(s)[Len(s)]
      BY <1>5, <2>1
    <3>2. Len(Cat(wr, y)) = Len(wr) + Len(y) /\ Len(wr) \in Nat
      BY CatIs
    <3>3. Len(Cat(b, w)) = Len(b) + Len(w)
      BY CatIs
    <3> QED
      BY <2>1, <3>1, <3>2, <3>3
  <2>3. Len(wr) + Len(x) \in Nat
        /\ Len(wr) + Len(x) = Len(Stream(s)[Len(s)]) - Len(w) + left
    BY <1>2, <1>6, <2>2
  <2> QED
    BY <2>1, <2>3
<1>9. PICK last \in 0 .. Len(s) :
          /\ Len(Stream(s)[last]) <= through
          /\ last < Len(s) => Len(Stream(s)[last + 1]) > through
          /\ sent' = SubSeq(s, 1, last)
          /\ cut' = (Len(Stream(s)[last]) < through)
  <2>1. \E k \in 0 .. Len(s) :
           /\ Len(Stream(s)[k]) <= through
           /\ k < Len(s) => Len(Stream(s)[k + 1]) > through
    BY <1>2, LastWhole
  <2> DEFINE last == CHOOSE k \in 0 .. Len(s) :
                        /\ Len(Stream(s)[k]) <= through
                        /\ k < Len(s) => Len(Stream(s)[k + 1]) > through
  <2>2. sent' = SubSeq(s, 1, last) /\ cut' = (Len(Stream(s)[last]) < through)
    BY <1>1, <1>8, Zenon DEF Die
  <2>3. /\ last \in 0 .. Len(s) /\ Len(Stream(s)[last]) <= through
        /\ last < Len(s) => Len(Stream(s)[last + 1]) > through
    BY <2>1
  <2> HIDE DEF last
  <2> QED
    BY <2>2, <2>3
<1>10. Len(r) <= last /\ last < Len(s) /\ TornAfter(s, Len(r), x, last)
  <2>1. PICK i \in 0 .. Len(s) : i = Len(r)
    BY <1>2
  <2>2. /\ Len(Stream(s)[last]) <= Len(Stream(s)[i]) + Len(x)
        /\ last < Len(s) => Len(Stream(s)[last + 1]) > Len(Stream(s)[i]) + Len(x)
        /\ Cat(Stream(s)[i], Cat(x, lost)) = Stream(s)[Len(s)]
    BY <1>7, <1>8, <1>9, <2>1
  <2>3. i <= last /\ last < Len(s) /\ TornAfter(s, i, x, last)
    <3>1. lost # <<>> /\ s \in Seq(Payload)
      BY <1>2, <1>3
    <3> QED
      BY <2>2, <3>1, BreaksOff
  <2> QED
    BY <2>1, <2>3
<1>11. PICK t \in Seq(Byte), u \in Seq(Byte) :
          /\ Cat(Stream(s)[Len(r)], x) = Cat(Stream(s)[last], t)
          /\ Frame(s[last + 1]) = Cat(t, u) /\ u # <<>>
          /\ Len(Stream(s)[last]) + Len(t) = through
          /\ Len(r) = last => t = x
  BY <1>8, <1>10 DEF TornAfter
<1>12. PICK q \in Seq(Writable) :
          q = SubSeq(s, 1, last) /\ Len(q) = last /\ \A k \in 1 .. last : q[k] = s[k]
  BY Taken
<1>13. /\ closed' = TRUE /\ wire' = v /\ sent' = q /\ buffer' = b /\ read' = r
       /\ cut' = (Len(Stream(s)[last]) < through) /\ end' = end /\ reset' = reset
  BY <1>1, <1>3, <1>9, <1>12 DEF Die
<1>14. cut' = (t # <<>>)
  <2>1. Len(t) \in Nat /\ (Len(t) = 0 <=> t = <<>>)
    BY EmptySeq
  <2>2. PICK wl \in Seq(Byte) : wl = Stream(s)[last]
    BY <1>2, StreamIs
  <2>3. Len(wl) \in Nat /\ Len(wl) + Len(t) = through
    BY <1>11, <2>2, LenProperties
  <2>4. (Len(wl) < through) = (t # <<>>)
    BY <2>1, <2>3
  <2> QED
    BY <1>13, <2>2, <2>4
<1>15. Typed'
  <2>1. cut' \in BOOLEAN
    BY <1>14
  <2> QED
    BY <1>13, <2>1 DEF IInv, Typed
<1>16. InOrder'
  <2>1. Len(r) <= Len(q) /\ \A k \in 1 .. Len(r) : r[k] = q[k]
    BY <1>2, <1>10, <1>12
  <2> QED
    BY <1>13, <2>1 DEF InOrder
<1>17. Flows'
  <2>1. q \in Seq(Payload)
    BY WritableSeq
  <2>2. \A k \in 0 .. last : Stream(s)[k] = Stream(q)[k]
    <3>1. PICK m \in Nat : m = last
      BY <1>2
    <3>2. m <= Len(s) /\ m <= Len(q) /\ \A k \in 1 .. m : s[k] = q[k]
      BY <1>2, <1>10, <1>12, <3>1
    <3>3. \A k \in 0 .. m : Stream(s)[k] = Stream(q)[k]
      BY <1>2, <2>1, <3>2, StreamsAgree
    <3> QED
      BY <3>1, <3>3
  <2>3. Stream(q)[Len(r)] = Stream(s)[Len(r)] /\ Stream(q)[Len(q)] = Stream(s)[last]
    <3>1. Len(r) \in 0 .. last /\ Len(q) \in 0 .. last /\ Len(q) = last
      BY <1>2, <1>10, <1>12
    <3> QED
      BY <2>2, <3>1
  <2>4. Cat(Stream(q)[Len(r)], Cat(b, v)) = Cat(Stream(q)[Len(q)], t)
    BY <1>6, <1>11, <2>3
  <2>5. t # <<>> => Beginning(t)
    <3>1. s[last + 1] \in Writable
      <4>1. last + 1 \in 1 .. Len(s)
        BY <1>2, <1>10
      <4> QED
        BY <4>1, WritableSeq
    <3> QED
      BY <1>11, <3>1 DEF Beginning
  <2>6. Torn(t)'
    <3>1. CASE t = <<>>
      BY <1>14, <3>1 DEF Torn
    <3>2. CASE t # <<>>
      BY <1>14, <2>5, <3>2 DEF Torn, Beginning
    <3> QED
      BY <3>1, <3>2
  <2> QED
    BY <1>13, <2>4, <2>6 DEF Flows
<1>18. Ended'
  BY <1>13 DEF Ended, Connected
<1>19. FailsForAReason'
  <2>1. SUFFICES ASSUME end = "error"
                 PROVE  \/ cut' /\ r = q
                        \/ Len(r) < Len(q) /\ ~Readable(q[Len(r) + 1])
    BY <1>13 DEF FailsForAReason
  <2>2. Len(r) < Len(s) /\ ~Readable(s[Len(r) + 1]) /\ b # <<>>
    BY <1>1, <1>4, <2>1 DEF IInv, FailsForAReason, Ended, Connected
  <2>3. CASE Len(r) < last
    <3>1. Len(r) + 1 \in 1 .. last
      BY <1>2, <2>3
    <3>2. q[Len(r) + 1] = s[Len(r) + 1]
      BY <1>12, <3>1
    <3> QED
      BY <1>12, <2>2, <2>3, <3>2
  <2>4. CASE Len(r) = last
    <3>1. Len(r) = Len(q) /\ \A k \in 1 .. Len(r) : r[k] = q[k]
      BY <1>2, <1>12, <2>4
    <3>2. r = q
      BY <3>1, SeqEqual
    <3>3. Len(b) \in Nat \ {0} /\ Len(t) = Len(b) + left /\ t = x
      BY <1>6, <1>11, <2>2, <2>4, EmptySeq
    <3>4. t # <<>>
      BY <1>2, <3>3, EmptySeq
    <3> QED
      BY <1>14, <3>2, <3>4
  <2>5. Len(r) < last \/ Len(r) = last
    BY <1>2, <1>10
  <2> QED
    BY <2>3, <2>4, <2>5
<1>20. \E k \in Len(read) .. Len(sent) : sent' = SubSeq(sent, 1, k)
  <2>1. last \in Len(r) .. Len(s)
    BY <1>2, <1>10
  <2> QED
    BY <1>1, <1>9, <2>1
<1> QED
  BY <1>15, <1>16, <1>17, <1>18, <1>19, <1>20 DEF IInv

LEMMA ReadBufKeeps ==
    ASSUME IInv, ReadBuf
    PROVE  IInv'
<1>1. PICK b \in Seq(Byte), w \in Seq(Byte) : b = buffer /\ w = wire
  BY DEF IInv, Typed
<1>2. PICK n \in 1 .. Len(w) :
          /\ buffer' = b \o SubSeq(w, 1, n) /\ wire' = SubSeq(w, n + 1, Len(w))
          /\ UNCHANGED <<closed, reset, sent, read, end, cut>> /\ end = "open"
  BY <1>1 DEF ReadBuf, Waiting
<1>3. PICK c \in Seq(Byte), d \in Seq(Byte) :
          c = SubSeq(w, 1, n) /\ d = SubSeq(w, n + 1, Len(w)) /\ c \o d = w
  <2>1. Len(w) \in Nat /\ n \in Nat /\ n <= Len(w)
    BY LenProperties
  <2>2. PICK m \in Nat : n + m = Len(w)
    <3>1. Len(w) - n \in Nat /\ n + (Len(w) - n) = Len(w)
      BY <2>1
    <3> QED
      BY <3>1
  <2>3. SubSeq(w, 1, n) \in Seq(Byte)
    <3>1. 0 + n <= Len(w) /\ 0 + n = n /\ 0 + 1 = 1 /\ 0 \in Nat
      BY <2>1
    <3>2. SubSeq(w, 0 + 1, 0 + n) \in Seq(Byte)
      BY <2>1, <3>1, Piece
    <3> QED
      BY <3>1, <3>2
  <2>4. SubSeq(w, n + 1, n + m) \in Seq(Byte)
    BY <2>1, <2>2, Piece
  <2>5. SubSeq(w, 1, n) \o SubSeq(w, n + 1, Len(w)) = SubSeq(w, 1, Len(w))
    <3>1. 1 \in 1 .. Len(w) + 1 /\ n \in 1 - 1 .. Len(w) /\ Len(w) \in n .. Len(w)
      BY <2>1
    <3> QED
      BY <3>1, ConcatAdjacentSubSeq
  <2>6. SubSeq(w, 1, Len(w)) = w
    BY SubSeqFull
  <2> QED
    BY <2>2, <2>3, <2>4, <2>5, <2>6
<1>4. PICK v \in Seq(Byte) : v = Cat(b, c)
  BY CatIs
<1>5. buffer' = v /\ wire' = d /\ Cat(c, d) = w
  BY <1>2, <1>3, <1>4 DEF Cat
<1>6. Typed' /\ InOrder' /\ Ended' /\ FailsForAReason'
  BY <1>2, <1>5 DEF IInv, Typed, InOrder, Ended, FailsForAReason
<1>7. Flows'
  <2>1. Cat(v, d) = Cat(b, w)
    BY <1>4, <1>5, CatIs
  <2>2. PICK t \in Seq(Byte) :
            Torn(t) /\ Cat(Stream(sent)[Len(read)], Cat(b, w)) = Cat(Stream(sent)[Len(sent)], t)
    BY <1>1 DEF IInv, Flows
  <2>3. Torn(t)'
    BY <1>2, <2>2 DEF Torn, Beginning
  <2> QED
    BY <1>2, <1>5, <2>1, <2>2, <2>3 DEF Flows
<1> QED
  BY <1>6, <1>7 DEF IInv

\* A frame that is returned is the next that was sent.
LEMMA ReturnFrameKeeps ==
    ASSUME IInv, ReturnFrame
    PROVE  /\ IInv'
           /\ Len(read) < Len(sent)
           /\ read' = Append(read, sent[Len(read) + 1])
<1>1. PICK s \in Seq(Writable), b \in Seq(Byte), r \in Seq(Writable) :
          s = sent /\ b = buffer /\ r = read
  BY DEF IInv, Typed
<1>2. /\ Len(r) < Len(s) /\ s[Len(r) + 1] \in Writable
      /\ Parsed = s[Len(r) + 1]
      /\ \E t \in Seq(Byte) :
            /\ Torn(t)
            /\ Cat(Stream(s)[Len(r) + 1], Cat(Rest, wire)) = Cat(Stream(s)[Len(s)], t)
  BY <1>1, Before DEF ReturnFrame
<1>3. PICK p \in Writable : p = s[Len(r) + 1]
  BY <1>2
<1>4. PICK q \in Seq(Writable) :
          /\ q = Append(r, p) /\ Len(q) = Len(r) + 1
          /\ q[Len(r) + 1] = p /\ \A k \in 1 .. Len(r) : q[k] = r[k]
  <2>1. PICK q \in Seq(Writable) : q = Append(r, p)
    BY AppendProperties
  <2>2. /\ Len(q) = Len(r) + 1 /\ q[Len(r) + 1] = p
        /\ \A k \in 1 .. Len(r) : q[k] = r[k]
    BY <2>1, AppendProperties
  <2> QED
    BY <2>1, <2>2
<1>5. /\ read' = q /\ buffer' = Rest
      /\ UNCHANGED <<wire, closed, reset, sent, end, cut>> /\ end = "open"
  BY <1>1, <1>2, <1>3, <1>4 DEF ReturnFrame
<1>6. Rest \in Seq(Byte)
  <2>1. HasPrefix /\ Len(b) >= PrefixLen + Announced
    BY <1>1 DEF ReturnFrame, Whole
  <2>2. Announced \in Nat
    BY <2>1, AnnouncedType DEF IInv, Typed
  <2>3. PICK n \in Nat, m \in Nat : n = PrefixLen + Announced /\ n + m = Len(b)
    <3>1. PICK n \in Nat : n = PrefixLen + Announced
      BY <2>2, Constants
    <3>2. Len(b) - n \in Nat /\ n + (Len(b) - n) = Len(b)
      BY <2>1, <3>1, LenProperties
    <3> QED
      BY <3>1, <3>2
  <2>4. SubSeq(b, n + 1, n + m) \in Seq(Byte)
    BY <2>3, Piece
  <2> QED
    BY <1>1, <2>3, <2>4 DEF Rest
<1>7. Typed'
  BY <1>5, <1>6 DEF IInv, Typed
<1>8. InOrder'
  <2>1. Len(r) <= Len(s) /\ (\A k \in 1 .. Len(r) : r[k] = s[k])
        /\ Len(r) \in Nat /\ Len(s) \in Nat
    BY <1>1, LenProperties DEF IInv, InOrder
  <2>2. Len(q) <= Len(s)
    BY <1>2, <1>4, <2>1
  <2>3. ASSUME NEW k \in 1 .. Len(q) PROVE q[k] = s[k]
    <3>1. CASE k = Len(r) + 1
      BY <1>3, <1>4, <3>1
    <3>2. CASE k \in 1 .. Len(r)
      BY <1>4, <2>1, <3>2
    <3>3. k = Len(r) + 1 \/ k \in 1 .. Len(r)
      BY <1>4, <2>1
    <3> QED
      BY <3>1, <3>2, <3>3
  <2> QED
    BY <1>1, <1>5, <2>2, <2>3 DEF InOrder
<1>9. Flows'
  <2>1. PICK t \in Seq(Byte) :
            Torn(t) /\ Cat(Stream(s)[Len(q)], Cat(Rest, wire)) = Cat(Stream(s)[Len(s)], t)
    BY <1>2, <1>4
  <2>2. Torn(t)'
    BY <1>5, <2>1 DEF Torn, Beginning
  <2> QED
    BY <1>1, <1>5, <2>1, <2>2 DEF Flows
<1>10. Ended' /\ FailsForAReason'
  BY <1>5 DEF IInv, Ended, FailsForAReason
<1> QED
  BY <1>1, <1>2, <1>3, <1>4, <1>5, <1>7, <1>8, <1>9, <1>10 DEF IInv

\* What is not read because of its length, version, tag or body was sent like that.
LEMMA BailKeeps ==
    ASSUME IInv, Bail
    PROVE  IInv'
<1>1. /\ end' = "error" /\ UNCHANGED <<wire, closed, reset, buffer, sent, read, cut>>
      /\ TooLong \/ (Whole /\ ~Good)
  BY DEF Bail
<1>2. Typed' /\ InOrder' /\ Flows'
  BY <1>1 DEF IInv, Typed, InOrder, Flows, Torn, Beginning
<1>3. HasPrefix /\ buffer # <<>>
  <2>1. HasPrefix
    BY <1>1 DEF TooLong, Whole
  <2> QED
    BY <2>1, Constants, EmptySeq DEF HasPrefix, IInv, Typed
<1>4. Ended'
  BY <1>1, <1>3 DEF IInv, Ended
<1>5. FailsForAReason'
  <2>1. SUFFICES \/ cut /\ read = sent
                 \/ Len(read) < Len(sent) /\ ~Readable(sent[Len(read) + 1])
    BY <1>1 DEF FailsForAReason
  <2>2. CASE read = sent /\ (buffer # <<>> => cut)
    BY <1>3, <2>2
  <2>3. CASE /\ Len(read) < Len(sent)
             /\ sent[Len(read) + 1] \in Writable
             /\ Announced = Len(sent[Len(read) + 1])
             /\ Whole => Parsed = sent[Len(read) + 1]
    <3>1. PICK p \in Writable : p = sent[Len(read) + 1]
      BY <2>3
    <3>2. CASE TooLong
      <4>1. ~(Len(p) <= MAX_FRAME_LEN)
        <5>1. Len(p) > MAX_FRAME_LEN
          BY <2>3, <3>1, <3>2 DEF TooLong
        <5>2. Len(p) \in Nat /\ MAX_FRAME_LEN \in Nat
          BY FrameIs, Constants DEF Writable
        <5> QED
          BY <5>1, <5>2
      <4> QED
        BY <2>3, <3>1, <4>1 DEF Readable
    <3>3. CASE Whole /\ ~Good
      <4>1. Parsed = p /\ p # <<>>
        BY <2>3, <3>1, <3>3, Constants DEF Writable
      <4>2. ~(p[1] = PROTOCOL_VERSION /\ p \in Opened /\ p \in Decoded)
        BY <3>3, <4>1 DEF Good
      <4> QED
        BY <2>3, <3>1, <4>2 DEF Readable
    <3> QED
      BY <1>1, <3>2, <3>3
  <2> QED
    BY <1>3, <2>2, <2>3, Before
<1> QED
  BY <1>2, <1>4, <1>5 DEF IInv

\* An end within a frame is an error, and no other.
LEMMA EofKeeps ==
    ASSUME IInv, Eof
    PROVE  /\ IInv'
           /\ end' = "error" \/ (end' = "end" /\ read = sent /\ ~cut)
<1>1. /\ end' = (IF buffer = <<>> THEN "end" ELSE "error")
      /\ UNCHANGED <<wire, closed, reset, buffer, sent, read, cut>>
      /\ closed /\ wire = <<>> /\ ~Whole /\ ~TooLong
  BY DEF Eof, AtEof, Waiting
<1>2. read = sent /\ (buffer # <<>> => cut) /\ (buffer = <<>> => ~cut)
  <2>1. ~(HasPrefix /\ Len(buffer) >= PrefixLen + Announced)
    BY <1>1 DEF Whole
  <2> QED
    BY <1>1, <2>1, Before
<1>3. Typed' /\ InOrder' /\ Flows' /\ Ended'
  BY <1>1 DEF IInv, Typed, InOrder, Flows, Torn, Beginning, Ended
<1>4. FailsForAReason'
  BY <1>1, <1>2 DEF FailsForAReason
<1> QED
  BY <1>1, <1>2, <1>3, <1>4 DEF IInv

LEMMA CloseKeeps ==
    ASSUME IInv, Close
    PROVE  IInv'
BY DEF IInv, Typed, InOrder, Flows, Torn, Beginning, Ended, Connected, FailsForAReason, Close

LEMMA ResetKeeps ==
    ASSUME IInv, Reset
    PROVE  IInv'
BY DEF IInv, Typed, InOrder, Flows, Torn, Beginning, Ended, Connected, FailsForAReason, Reset

\* An error of the network's making is one after a reset.
LEMMA ReadErrorKeeps ==
    ASSUME IInv, ReadError
    PROVE  IInv'
BY DEF IInv, Typed, InOrder, Flows, Torn, Beginning, Ended, Connected, FailsForAReason,
       ReadError

LEMMA Starts == Init => IInv
<1> SUFFICES ASSUME Init PROVE IInv
  OBVIOUS
<1>1. /\ wire = <<>> /\ buffer = <<>> /\ sent = <<>> /\ read = <<>>
      /\ closed = FALSE /\ reset = FALSE /\ cut = FALSE /\ end = "open"
  BY DEF Init
<1>2. <<>> \in Seq(Byte) /\ <<>> \in Seq(Writable) /\ Len(<<>>) = 0
  BY EmptySeq
<1>3. Typed /\ InOrder /\ Ended /\ FailsForAReason
  <2>1. Typed
    BY <1>1, <1>2 DEF Typed
  <2>2. Ended /\ FailsForAReason
    BY <1>1 DEF Ended, FailsForAReason
  <2>3. 0 <= 0 /\ 1 .. 0 = {}
    OBVIOUS
  <2>4. Len(read) = 0 /\ Len(sent) = 0
    BY <1>1, <1>2
  <2>5. InOrder
    BY <2>3, <2>4 DEF InOrder
  <2> QED
    BY <2>1, <2>2, <2>5
<1>4. Flows
  <2>1. PICK e \in Seq(Byte) : e = <<>>
    BY <1>2
  <2>2. Torn(e)
    BY <1>1, <2>1 DEF Torn
  <2>3. Stream(sent)[Len(read)] = e /\ Stream(sent)[Len(sent)] = e
    <3>1. <<>> \in Seq(Payload)
      BY EmptySeq
    <3>2. Stream(<<>>)[0] = <<>>
      BY <3>1, StreamIs
    <3> QED
      BY <1>1, <1>2, <2>1, <3>2
  <2>4. Cat(e, Cat(buffer, wire)) = Cat(e, e)
    <3>1. Cat(e, e) = e
      BY <2>1, CatIs
    <3> QED
      BY <1>1, <2>1, <3>1
  <2> QED
    BY <2>2, <2>3, <2>4 DEF Flows
<1> QED
  BY <1>3, <1>4 DEF IInv

LEMMA StepKeeps == IInv /\ [Next]_vars => IInv'
<1> SUFFICES ASSUME IInv, [Next]_vars PROVE IInv'
  OBVIOUS
<1>1. ASSUME NEW p \in Payload, WriteFrame(p) PROVE IInv'
  BY <1>1, WriteFrameKeeps
<1>2. CASE Close
  BY <1>2, CloseKeeps
<1>3. ASSUME NEW left \in 0 .. Len(wire), Die(left) PROVE IInv'
  BY <1>3, DieKeeps
<1>4. CASE ReturnFrame
  BY <1>4, ReturnFrameKeeps
<1>5. CASE Bail
  BY <1>5, BailKeeps
<1>6. CASE ReadBuf
  BY <1>6, ReadBufKeeps
<1>7. CASE Eof
  BY <1>7, EofKeeps
<1>8. CASE Reset
  BY <1>8, ResetKeeps
<1>9. CASE ReadError
  BY <1>9, ReadErrorKeeps
<1>10. CASE UNCHANGED vars
  BY <1>10 DEF vars, IInv, Typed, InOrder, Flows, Torn, Beginning, Ended, Connected,
               FailsForAReason
<1> QED
  BY <1>1, <1>2, <1>3, <1>4, <1>5, <1>6, <1>7, <1>8, <1>9, <1>10 DEF Next, ReadFrame

\* In every reachable state the stream is accounted for, byte for byte, between what has
\* been read, the buffer, the wire and the frame that the writer died in.
THEOREM Invariance == Spec => []IInv
BY Starts, StepKeeps, PTL DEF Spec

-----------------------------------------------------------------------------
(* What it implies.                                                         *)

\* The variables of Frames keep their types, and only payloads are ever returned.
THEOREM TypeCorrect == Spec => []TypeOK
<1>1. IInv => TypeOK
  <2>1. Writable \subseteq Payload
    BY DEF Writable
  <2>2. \A s \in Seq(Writable) : s \in Seq(Payload)
    BY <2>1, SeqMonotonic
  <2> QED
    BY <2>2 DEF IInv, Typed, TypeOK
<1> QED
  BY <1>1, Invariance, PTL

\* A connection fails because it was reset, because the writer died within a frame, or
\* because the next frame as it was written is too long to be read, of another version,
\* sealed with another key or no body (join.rs, read_frame, parse_frame): the reader
\* never fails on what arrived as it was meant to, however it was cut up on the way.
THEOREM Reasons == Spec => []FailsForAReason
<1>1. IInv => FailsForAReason
  BY DEF IInv
<1> QED
  BY <1>1, Invariance, PTL

\* The connection keeps the promise of Mailbox: what was written comes out whole, once
\* and in order, and the end is read only when all of it has been and no frame was torn.
THEOREM Implements == Spec => IsMailbox
<1>1. Init => Delivers!Init
  BY DEF Init, Delivers!Init
<1>2. IInv /\ [Next]_vars
        => [Delivers!Send \/ Delivers!Lose \/ Delivers!Receive \/ Delivers!Finish]_<<sent, read, cut, end>>
  <2> SUFFICES ASSUME IInv, [Next]_vars
               PROVE  \/ Delivers!Send \/ Delivers!Lose \/ Delivers!Receive \/ Delivers!Finish
                      \/ UNCHANGED <<sent, read, cut, end>>
    OBVIOUS
  <2>1. ASSUME NEW p \in Payload, WriteFrame(p) PROVE Delivers!Send
    BY <2>1 DEF WriteFrame, Delivers!Send
  <2>2. CASE Close
    BY <2>2 DEF Close
  <2>3. ASSUME NEW left \in 0 .. Len(wire), Die(left) PROVE Delivers!Lose
    <3>1. IInv' /\ \E k \in Len(read) .. Len(sent) : sent' = SubSeq(sent, 1, k)
      BY <2>3, DieKeeps
    <3>2. cut' \in BOOLEAN
      BY <3>1 DEF IInv, Typed
    <3>3. UNCHANGED <<read, end>>
      BY <2>3 DEF Die
    <3> QED
      BY <3>1, <3>2, <3>3 DEF Delivers!Lose
  <2>4. CASE ReturnFrame
    <3>1. Len(read) < Len(sent) /\ read' = Append(read, sent[Len(read) + 1])
      BY <2>4, ReturnFrameKeeps
    <3> QED
      BY <2>4, <3>1 DEF ReturnFrame, Delivers!Receive
  <2>5. CASE Bail
    BY <2>5 DEF Bail, Delivers!Finish
  <2>6. CASE ReadBuf
    BY <2>6 DEF ReadBuf
  <2>7. CASE Eof
    <3>1. end' = "error" \/ (end' = "end" /\ read = sent /\ ~cut)
      BY <2>7, EofKeeps
    <3> QED
      BY <2>7, <3>1 DEF Eof, Waiting, Delivers!Finish
  <2>8. CASE Reset
    BY <2>8 DEF Reset
  <2>9. CASE ReadError
    BY <2>9 DEF ReadError, Waiting, Delivers!Finish
  <2>10. CASE UNCHANGED vars
    BY <2>10 DEF vars
  <2> QED
    BY <2>1, <2>2, <2>3, <2>4, <2>5, <2>6, <2>7, <2>8, <2>9, <2>10 DEF Next, ReadFrame
<1> QED
  BY <1>1, <1>2, Invariance, PTL DEF Spec, IsMailbox, Delivers!Spec
=============================================================================
