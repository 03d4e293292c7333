--------------------------- MODULE Detector_proofs ----------------------------
(***************************************************************************)
(* Proofs about Detector, for every finite set of members and all          *)
(* timeouts.                                                               *)
(*                                                                         *)
(* How long something has been going on is bounded by where the detector   *)
(* is: a clock by the time since the last sweep, the silence of a stopped  *)
(* process by the probes since its last turn and its suspicion, and how    *)
(* often it was passed over by its place in the rotation.                  *)
(***************************************************************************)
EXTENDS Detector, FiniteSetTheorems, SequenceTheorems, TLAPS

-----------------------------------------------------------------------------
(* The invariant.                                                           *)

N == Cardinality(Member)

\* As long as k of the longest ticks.
Ticks(k) == k * LongestTick

\* The time since the last tick began, at most LongestTick: all that is longer than the
\* interval when the next one is due.
Elapsed ==
    IF probe # NoEntry
    THEN IF probe.round = "direct" THEN DirectTimeout - probe.left
         ELSE DirectTimeout + IndirectTimeout - probe.left
    ELSE IF due > 0 THEN ProbeInterval - due ELSE LongestTick

\* The time since the last sweep, at most.
Unswept == IF probe = NoEntry THEN ProbeInterval - due ELSE ProbeInterval + Elapsed

\* A probe is no longer than its rounds, the next tick is due an interval after it began,
\* and its copy of the entry is never ahead of the table, which keeps its target.
ProbeKept ==
    probe # NoEntry =>
        /\ probe.left <= IF probe.round = "direct" THEN DirectTimeout ELSE IndirectTimeout
        /\ due = IF Elapsed < ProbeInterval THEN ProbeInterval - Elapsed ELSE 0
        /\ table[probe.member] # NoEntry
        /\ probe.entry.incarnation <= table[probe.member].incarnation

\* What is past its time is so since the last sweep.
SweptBy(m) ==
    /\ In(table, m, "suspect") => table[m].clock < SuspicionTimeout + Unswept
    /\ In(table, m, "dead") => table[m].clock < ReapTimeout + Unswept

\* Who is left out of the rest of this pass was in its first part, or came since; who is
\* in it waits for those behind it, having waited for a whole pass at most.
Rotated(m) ==
    /\ m \notin ToProbe(table) => passed[m] = 0
    /\ m \notin Range(order) => passed[m] + Len(order) <= N - 1
    /\ \A i \in DOMAIN order : order[i] = m => passed[m] + Len(order) - i <= 2 * (N - 1)

\* The probe under way finds m out.
Doomed(m) ==
    /\ probe # NoEntry /\ probe.member = m /\ ~probe.answers
    /\ probe.entry.incarnation = table[m].incarnation

\* As long as m is believed running, the probes of others and the time since this one's
\* begin are all its silence; its suspicion comes after two passes.
FoundOut(m) ==
    /\ m \notin stopped \intersect ToProbe(table) => silent[m] = 0
    /\ In(table, m, "alive") /\ ~Doomed(m) => silent[m] <= Ticks(passed[m]) + Elapsed
    /\ In(table, m, "alive") => silent[m] <= Ticks(2 * N - 1) + Elapsed
    /\ In(table, m, "suspect") => silent[m] <= Ticks(2 * N) + table[m].clock

IInv == TypeOK /\ ProbeKept /\ \A m \in Member : SweptBy(m) /\ Rotated(m) /\ FoundOut(m)

-----------------------------------------------------------------------------
(* Arithmetic.                                                              *)

\* The timeouts are naturals, and no tick is longer than the longest.
LEMMA Timeouts ==
    /\ ProbeInterval \in Nat \ {0} /\ DirectTimeout \in Nat \ {0}
    /\ IndirectTimeout \in Nat \ {0} /\ SuspicionTimeout \in Nat \ {0}
    /\ ReapTimeout \in Nat \ {0} /\ LongestTick \in Nat \ {0}
    /\ DirectTimeout + IndirectTimeout <= LongestTick /\ ProbeInterval <= LongestTick
<1>1. /\ ProbeInterval \in Nat \ {0} /\ DirectTimeout \in Nat \ {0}
      /\ IndirectTimeout \in Nat \ {0} /\ SuspicionTimeout \in Nat \ {0}
      /\ ReapTimeout \in Nat \ {0}
  BY TimeAssumption
<1> QED
  BY <1>1 DEF LongestTick

\* Some number of ticks, and one more.
LEMMA OneMoreTick ==
    ASSUME NEW k \in Nat
    PROVE  Ticks(k) \in Nat /\ Ticks(k + 1) = Ticks(k) + LongestTick
BY Timeouts DEF Ticks

LEMMA MoreTicks ==
    ASSUME NEW k \in Nat, NEW l \in Nat, k <= l
    PROVE  Ticks(k) \in Nat /\ Ticks(l) \in Nat /\ Ticks(k) <= Ticks(l)
<1>1. l - k \in Nat /\ l = k + (l - k)
  OBVIOUS
<1>2. Ticks(k + (l - k)) = Ticks(k) + Ticks(l - k)
  BY <1>1, Timeouts DEF Ticks
<1> QED
  BY <1>1, <1>2, OneMoreTick

\* The number of members.
LEMMA NType == N \in Nat /\ (Member # {} => N >= 1)
BY FS_CardinalityType, FS_EmptySet, MemberAssumption DEF N

\* The greatest of some indices.
LEMMA Greatest ==
    ASSUME NEW n \in Nat, NEW S \in SUBSET (1 .. n), S # {}
    PROVE  \E i \in S : \A j \in S : j <= i
<1> DEFINE Above(i) == {k \in 1 .. n : k > i}
           T == {U \in SUBSET (1 .. n) : \E i \in S : U = Above(i)}
<1>1. T \subseteq FiniteSubsetsOf(1 .. n) /\ T # {}
  <2>1. FiniteSubsetsOf(1 .. n) = SUBSET (1 .. n)
    <3>1. IsFiniteSet(1 .. n)
      BY FS_Interval
    <3> QED
      BY ONLY <3>1, FS_FiniteSubsetsOfFinite
  <2>2. PICK i \in S : TRUE
    OBVIOUS
  <2>3. Above(i) \in T
    OBVIOUS
  <2> QED
    BY <2>1, <2>3
<1>2. \E U \in T : \A V \in T : ~ (<<V, U>> \in StrictSubsetOrdering(1 .. n))
  <2> HIDE DEF T
  <2> QED
    BY <1>1, FS_StrictSubsetOrderingWellFounded, WFMin
<1>3. PICK U \in T : \A V \in T : ~ (V \subseteq U /\ V # U)
  <2>1. PICK U \in T : \A V \in T : ~ (<<V, U>> \in StrictSubsetOrdering(1 .. n))
    BY <1>2
  <2>2. ASSUME NEW V \in T, V \subseteq U, V # U PROVE FALSE
    <3>1. <<V, U>> \in (SUBSET (1 .. n)) \X (SUBSET (1 .. n))
      OBVIOUS
    <3>2. <<V, U>> \in StrictSubsetOrdering(1 .. n)
      BY <3>1, <2>2 DEF StrictSubsetOrdering
    <3> QED
      BY <2>1, <3>2
  <2> QED
    BY <2>2
<1>4. PICK i \in S : U = Above(i)
  BY <1>3
<1>5. ASSUME NEW j \in S, j > i PROVE FALSE
  <2>1. Above(j) \in T
    OBVIOUS
  <2>2. Above(j) \subseteq U /\ j \in U /\ j \notin Above(j)
    BY <1>4, <1>5
  <2> QED
    BY <1>3, <2>1, <2>2
<1> QED
  BY <1>5

-----------------------------------------------------------------------------
(* The rotation.                                                            *)

\* A pass that names nobody twice is no longer than there are members, and shorter
\* than that if it leaves one out.
LEMMA PassLength ==
    ASSUME NEW o \in Seq(Member), IsInjective(o)
    PROVE  /\ Len(o) \in Nat /\ DOMAIN o = 1 .. Len(o) /\ Len(o) <= N
           /\ \A m \in Member : m \notin Range(o) => Len(o) <= N - 1
<1>1. Len(o) \in Nat /\ o \in [1 .. Len(o) -> Member] /\ DOMAIN o = 1 .. Len(o)
  BY LenProperties
<1>2. Cardinality(1 .. Len(o)) = Len(o)
  BY <1>1, FS_Interval
<1>3. ASSUME NEW T \in SUBSET Member, Range(o) \subseteq T PROVE Len(o) <= Cardinality(T)
  <2>1. o \in [1 .. Len(o) -> T]
    BY <1>1, <1>3 DEF Range
  <2>2. o \in Injection(1 .. Len(o), T)
    BY <2>1 DEF Injection
  <2>3. IsFiniteSet(T)
    BY MemberAssumption, FS_Subset
  <2> QED
    BY <1>2, <2>2, <2>3, FS_Injection
<1>4. Range(o) \subseteq Member
  BY <1>1 DEF Range
<1>5. Len(o) <= N
  BY <1>3, <1>4 DEF N
<1>6. ASSUME NEW m \in Member, m \notin Range(o) PROVE Len(o) <= N - 1
  <2>1. Len(o) <= Cardinality(Member \ {m})
    BY <1>3, <1>4, <1>6
  <2> QED
    BY <2>1, FS_RemoveElement, MemberAssumption DEF N
<1> QED
  BY <1>1, <1>5, <1>6

\* What is left of it names nobody twice either.
LEMMA RestOfPass ==
    ASSUME NEW o \in Seq(Member), IsInjective(o), NEW j \in 1 .. Len(o)
    PROVE  LET r == SubSeq(o, 1, j - 1)
           IN  /\ r \in Seq(Member) /\ Len(r) = j - 1 /\ IsInjective(r)
               /\ DOMAIN r = 1 .. j - 1 /\ \A i \in 1 .. j - 1 : r[i] = o[i]
               /\ \A m \in Member : m \notin Range(r) =>
                     m \notin Range(o) \/ \E i \in j .. Len(o) : o[i] = m
<1> DEFINE r == SubSeq(o, 1, j - 1)
<1>1. Len(o) \in Nat /\ o \in [1 .. Len(o) -> Member] /\ DOMAIN o = 1 .. Len(o)
  BY LenProperties
<1>2. r \in Seq(Member) /\ Len(r) = j - 1 /\ \A i \in 1 .. j - 1 : r[i] = o[i]
  <2>1. \A i \in 1 .. j - 1 : o[i] \in Member
    BY <1>1
  <2>2. j - 1 \in Int /\ 1 \in Int
    OBVIOUS
  <2> QED
    BY <2>1, <2>2, SubSeqProperties
<1>3. DOMAIN r = 1 .. j - 1
  BY <1>2, LenProperties
<1>4. IsInjective(r)
  BY <1>1, <1>2, <1>3 DEF IsInjective
<1>5. ASSUME NEW m \in Member, m \notin Range(r), m \in Range(o)
      PROVE  \E i \in j .. Len(o) : o[i] = m
  <2>1. PICK i \in 1 .. Len(o) : o[i] = m
    BY <1>1, <1>5 DEF Range
  <2>2. i \notin 1 .. j - 1
    BY <2>1, <1>2, <1>3, <1>5 DEF Range
  <2> QED
    BY <1>1, <2>1, <2>2
<1> QED
  BY <1>2, <1>3, <1>4, <1>5

\* A shuffle names those it shuffles, each once.
LEMMA Shuffled ==
    ASSUME NEW o \in SetToSeqs(Known(table))
    PROVE  o \in Seq(Member) /\ IsInjective(o) /\ Range(o) = Known(table)
<1>1. IsFiniteSet(Known(table)) /\ Known(table) \subseteq Member
  BY MemberAssumption, FS_Subset DEF Known
<1> DEFINE n == Cardinality(Known(table))
<1>2. n \in Nat
  BY <1>1, FS_CardinalityType
<1>3. o \in [1 .. n -> Known(table)] /\ IsInjective(o)
  BY DEF SetToSeqs, IsInjective
<1>4. o \in Injection(1 .. n, Known(table)) /\ Cardinality(1 .. n) = n
  BY <1>2, <1>3, FS_Interval DEF Injection
<1>5. o \in Surjection(1 .. n, Known(table))
  BY <1>1, <1>4, FS_Injection
<1>6. Range(o) = Known(table)
  BY <1>3, <1>5 DEF Surjection, Range
<1>7. o \in Seq(Member)
  <2>1. o \in [1 .. n -> Member]
    BY <1>1, <1>3
  <2> QED
    BY <1>2, <2>1, SeqDef
<1> QED
  BY <1>3, <1>6, <1>7

\* A rotation the target may come from.
LEMMA PassType ==
    ASSUME TypeOK, NEW o \in Passes
    PROVE  o \in Seq(Member) /\ IsInjective(o) /\ (Live(order) = {} => Range(o) = Known(table))
BY Shuffled DEF Passes, TypeOK

\* The last to probe in it is the last of them.
LEMMA LastLiveIs ==
    ASSUME NEW o \in Seq(Member), Live(o) # {}
    PROVE  /\ LastLive(o) \in 1 .. Len(o) /\ o[LastLive(o)] \in ToProbe(table)
           /\ \A i \in 1 .. Len(o) : i > LastLive(o) => o[i] \notin ToProbe(table)
<1>1. Len(o) \in Nat /\ DOMAIN o = 1 .. Len(o)
  BY LenProperties
<1>2. Live(o) \subseteq 1 .. Len(o)
  BY <1>1 DEF Live
<1>3. \E i \in Live(o) : \A j \in Live(o) : j <= i
  BY <1>1, <1>2, Greatest
<1>4. LastLive(o) \in Live(o) /\ \A j \in Live(o) : j <= LastLive(o)
  BY <1>3 DEF LastLive
<1> QED
  BY <1>1, <1>2, <1>4 DEF Live

\* The target is the last to probe of some rotation, and what came after it is dropped.
LEMMA TargetIs ==
    ASSUME TypeOK, NEW m \in Member, NextTarget(m)
    PROVE  \E o \in Passes : \E j \in 1 .. Len(o) :
              /\ o[j] = m /\ order' = SubSeq(o, 1, j - 1)
              /\ \A i \in j + 1 .. Len(o) : o[i] \notin ToProbe(table)
<1>1. PICK o \in Passes :
          IF Live(o) # {}
          THEN m = o[LastLive(o)] /\ order' = SubSeq(o, 1, LastLive(o) - 1)
          ELSE m = NoEntry /\ order' = o
  BY DEF NextTarget
<1>2. Live(o) # {}
  BY <1>1, NoBeliefAssumption
<1>3. o \in Seq(Member)
  BY PassType
<1>4. Len(o) \in Nat
  BY <1>3, LenProperties
<1> QED
  BY <1>1, <1>2, <1>3, <1>4, LastLiveIs

\* There is no target when there is nobody to probe.
LEMMA NoTarget ==
    ASSUME TypeOK, NextTarget(NoEntry)
    PROVE  ToProbe(table) = {} /\ order' \in Seq(Member) /\ IsInjective(order')
<1>1. PICK o \in Passes :
          IF Live(o) # {}
          THEN NoEntry = o[LastLive(o)] /\ order' = SubSeq(o, 1, LastLive(o) - 1)
          ELSE order' = o
  BY DEF NextTarget
<1>2. o \in Seq(Member) /\ IsInjective(o) /\ (Live(order) = {} => Range(o) = Known(table))
  BY PassType
<1>3. Live(o) = {}
  <2>1. ASSUME Live(o) # {} PROVE NoEntry \in Member
    BY <1>1, <1>2, <2>1, LastLiveIs DEF ToProbe, Known
  <2> QED
    BY <2>1, NoBeliefAssumption
<1>4. Live(order) = {}
  BY <1>3 DEF Passes
<1>5. ToProbe(table) = {}
  BY <1>2, <1>3, <1>4 DEF Live, Range, ToProbe
<1> QED
  BY <1>1, <1>2, <1>3, <1>5

-----------------------------------------------------------------------------
(* Clocks and the table.                                                    *)

\* The clocks of a tick run within their bounds.
LEMMA ClockTypes ==
    ASSUME TypeOK, ProbeKept
    PROVE  Elapsed \in 0 .. LongestTick /\ Unswept \in 0 .. SweepGap
<1>1. CASE probe = NoEntry
  BY <1>1, Timeouts DEF TypeOK, Elapsed, Unswept, SweepGap
<1>2. CASE probe # NoEntry
  <2>1. /\ probe.left \in Nat /\ probe.round \in {"direct", "indirect"}
        /\ probe.left <= IF probe.round = "direct" THEN DirectTimeout ELSE IndirectTimeout
    BY <1>2 DEF TypeOK, Probes, ProbeKept
  <2>2. Elapsed \in 0 .. DirectTimeout + IndirectTimeout
    BY <1>2, <2>1, Timeouts DEF Elapsed
  <2> QED
    BY <1>2, <2>2, Timeouts DEF Unswept, SweepGap
<1> QED
  BY <1>1, <1>2

\* A table.
Table == [Member -> Beliefs \union {NoEntry}]

\* No new entry is none, and a rumor is one.
LEMMA NewsType ==
    ASSUME NEW inc \in Incarnation, NEW s \in {"alive", "suspect", "dead"}
    PROVE  News(inc, s) \in Beliefs /\ News(inc, s) # NoEntry
<1>1. News(inc, s) \in Beliefs
  BY DEF News, Belief, Beliefs
<1> QED
  BY <1>1, NoBeliefAssumption

\* What a sweep and a reap leave to probe they leave as it was, and what is past its
\* time is dead or gone.
LEMMA FinishedIs ==
    ASSUME NEW t \in Table, NEW acked
    PROVE  LET f == Finished(t, acked)
           IN  /\ f \in Table
               /\ \A m \in Member :
                     /\ m \in ToProbe(f) => m \in ToProbe(t) /\ f[m] = t[m]
                     /\ In(f, m, "suspect") => f[m].clock < SuspicionTimeout
                     /\ In(f, m, "dead") => f[m].clock < ReapTimeout
<1> DEFINE s == Swept(t)
           f == Finished(t, acked)
<1>1. ASSUME NEW m \in Member
      PROVE  /\ s[m] \in Beliefs \union {NoEntry}
             /\ \/ s[m] = t[m] /\ (In(t, m, "suspect") => t[m].clock < SuspicionTimeout)
                \/ In(s, m, "dead") /\ s[m].clock = 0
  <2>1. CASE In(t, m, "suspect") /\ t[m].clock >= SuspicionTimeout
    <3>1. t[m] \in Beliefs /\ t[m].state = "suspect" /\ t[m] # NoEntry
      BY <2>1 DEF In, Table
    <3>2. t[m].incarnation \in Incarnation
      BY <3>1 DEF Beliefs
    <3> DEFINE d == News(t[m].incarnation, "dead")
    <3>3. d \in Beliefs /\ d # NoEntry
      BY <3>2, NewsType
    <3>4. Merge(t[m], d) = d
      BY <3>1 DEF Merge, IsNews, Supersedes, Rank, News, Belief
    <3>5. s[m] = d
      BY <2>1, <3>4 DEF Swept
    <3> QED
      BY <3>3, <3>5 DEF In, News, Belief
  <2>2. CASE ~(In(t, m, "suspect") /\ t[m].clock >= SuspicionTimeout)
    <3>1. s[m] = t[m]
      BY <2>2 DEF Swept
    <3>2. In(t, m, "suspect") => t[m].clock \in Nat
      BY DEF In, Table, Beliefs
    <3> QED
      BY <2>2, <3>1, <3>2, Timeouts DEF Table
  <2> QED
    BY <2>1, <2>2
<1>2. ASSUME NEW m \in Member
      PROVE  /\ f[m] \in Beliefs \union {NoEntry}
             /\ \/ f[m] = NoEntry
                \/ f[m] = s[m] /\ (In(s, m, "dead") => s[m].clock < ReapTimeout)
  <2>1. f[m] = IF In(s, m, "dead") /\ s[m].clock >= ReapTimeout THEN NoEntry ELSE s[m]
    BY DEF Finished, Reaped
  <2>2. In(s, m, "dead") => s[m].clock \in Nat
    BY <1>1 DEF In, Beliefs
  <2> QED
    BY <2>1, <2>2, <1>1, Timeouts
<1>3. f \in Table
  <2>1. f = [m \in Member |-> f[m]]
    BY DEF Finished, Reaped
  <2> QED
    BY <2>1, <1>2 DEF Table
<1>4. ASSUME NEW m \in Member
      PROVE  /\ m \in ToProbe(f) => m \in ToProbe(t) /\ f[m] = t[m]
             /\ In(f, m, "suspect") => f[m].clock < SuspicionTimeout
             /\ In(f, m, "dead") => f[m].clock < ReapTimeout
  <2> HIDE DEF f, s
  <2> QED
    BY <1>1, <1>2 DEF ToProbe, Known, In
<1> QED
  BY <1>3, <1>4

\* Init establishes the invariant.
LEMMA InitInv == Init => IInv
<1> SUFFICES ASSUME Init PROVE IInv
  OBVIOUS
<1>1. TypeOK
  <2>1. order \in Seq(Member) /\ IsInjective(order)
    BY EmptySeq DEF Init, IsInjective
  <2> QED
    BY <2>1, Timeouts DEF Init, TypeOK, In
<1>2. ProbeKept
  BY DEF Init, ProbeKept
<1>3. ASSUME NEW m \in Member PROVE SweptBy(m) /\ Rotated(m) /\ FoundOut(m)
  <2>1. SweptBy(m)
    BY DEF Init, SweptBy, In
  <2>2. Rotated(m)
    BY NType, EmptySeq DEF Init, Rotated
  <2>3. FoundOut(m)
    BY DEF Init, FoundOut, In
  <2> QED
    BY <2>1, <2>2, <2>3
<1> QED
  BY <1>1, <1>2, <1>3 DEF IInv

-----------------------------------------------------------------------------
(* The steps.                                                               *)

\* The sweep and the reap that end a tick, of a table t.
LEMMA FinishTickDoes ==
    ASSUME IInv, NEW t \in Table, NEW acked, FinishTick(t, acked),
           probe' = NoEntry, due' \in 0 .. ProbeInterval,
           \A m \in Member : In(t, m, "alive") => t[m].clock = 0
    PROVE  /\ table' \in Table /\ passed' \in [Member -> Nat] /\ silent' \in [Member -> Nat]
           /\ \A m \in Member : In(table, m, "alive")' => table'[m].clock = 0
           /\ ProbeKept'
           /\ \A m \in Member :
                 /\ SweptBy(m)'
                 /\ IF m \in ToProbe(table')
                    THEN /\ m \in ToProbe(t) /\ table'[m] = t[m]
                         /\ passed'[m] = passed[m] /\ silent'[m] = silent[m]
                    ELSE passed'[m] = 0 /\ silent'[m] = 0
<1> DEFINE f == Finished(t, acked)
<1>1. table' = f /\ Forget(f)
  BY DEF FinishTick
<1>2. /\ f \in Table
      /\ \A m \in Member :
            /\ m \in ToProbe(f) => m \in ToProbe(t) /\ f[m] = t[m]
            /\ In(f, m, "suspect") => f[m].clock < SuspicionTimeout
            /\ In(f, m, "dead") => f[m].clock < ReapTimeout
  BY FinishedIs
<1> HIDE DEF f
<1>3. passed' \in [Member -> Nat] /\ silent' \in [Member -> Nat]
  BY <1>1 DEF Forget, IInv, TypeOK
<1>4. ProbeKept'
  BY DEF ProbeKept
<1>5. ASSUME NEW m \in Member
      PROVE  IF m \in ToProbe(table')
             THEN /\ m \in ToProbe(t) /\ table'[m] = t[m]
                  /\ passed'[m] = passed[m] /\ silent'[m] = silent[m]
             ELSE passed'[m] = 0 /\ silent'[m] = 0
  BY <1>1, <1>2 DEF Forget
<1>6. ASSUME NEW m \in Member PROVE SweptBy(m)'
  <2>1. Unswept' \in Nat
    <3>1. PICK d \in 0 .. ProbeInterval : due' = d
      OBVIOUS
    <3> QED
      BY <3>1, Timeouts DEF Unswept
  <2>2. table[m]' \in Beliefs \union {NoEntry}
    BY <1>1, <1>2 DEF Table
  <2>3. \A s : In(table, m, s)' => table[m]'.clock \in Nat
    BY <2>2 DEF In, Beliefs
  <2> QED
    BY <1>1, <1>2, <2>1, <2>3, Timeouts DEF SweptBy
<1>7. ASSUME NEW m \in Member, In(table, m, "alive")' PROVE table'[m].clock = 0
  BY <1>1, <1>2, <1>7 DEF In, ToProbe, Known
<1> QED
  BY <1>1, <1>2, <1>3, <1>4, <1>5, <1>6, <1>7

\* The ones that a step leaves in the rotation as they are, and counts no more about,
\* have been passed over no more.
LEMMA RotatedKept ==
    ASSUME TypeOK, NEW m \in Member, Rotated(m), order' = order,
           passed'[m] \in Nat, passed'[m] <= passed[m],
           m \notin ToProbe(table') => passed'[m] = 0
    PROVE  Rotated(m)'
<1>1. DOMAIN order = 1 .. Len(order) /\ Len(order) \in Nat /\ passed[m] \in Nat
  BY LenProperties DEF TypeOK
<1> QED
  BY <1>1, NType DEF Rotated

\* Nobody has been passed over by more than two passes' worth of others.
LEMMA PassedBound ==
    ASSUME TypeOK, NEW m \in Member, Rotated(m)
    PROVE  passed[m] \in Nat /\ passed[m] <= 2 * (N - 1)
<1>1. /\ passed[m] \in Nat /\ N \in Nat /\ N >= 1
      /\ DOMAIN order = 1 .. Len(order) /\ Len(order) \in Nat
  BY NType, LenProperties DEF TypeOK
<1>2. CASE m \in Range(order)
  BY <1>1, <1>2 DEF Rotated, Range
<1>3. CASE m \notin Range(order)
  BY <1>1, <1>3 DEF Rotated
<1> QED
  BY <1>1, <1>2, <1>3

\* A tick begins with a ping.
LEMMA StartTickInv ==
    ASSUME IInv, NEW m \in Member, StartTick(m)
    PROVE  IInv'
<1>1. /\ TypeOK /\ ProbeKept /\ probe = NoEntry /\ due = 0 /\ due' = ProbeInterval
      /\ m \in ToProbe(table) /\ NextTarget(m)
      /\ probe' = [member |-> m, entry |-> table[m], round |-> "direct",
                   left |-> DirectTimeout, answers |-> m \notin stopped]
      /\ table' = table /\ stopped' = stopped /\ silent' = silent
      /\ passed' = [k \in Member |->
                      IF k = m \/ k \notin ToProbe(table) THEN 0 ELSE passed[k] + 1]
  BY DEF IInv, StartTick, CountProbe
<1>a. PICK o \in Passes : \E j \in 1 .. Len(o) :
        /\ o[j] = m /\ order' = SubSeq(o, 1, j - 1)
        /\ \A i \in j + 1 .. Len(o) : o[i] \notin ToProbe(table)
  BY <1>1, TargetIs
<1>2. PICK j \in 1 .. Len(o) :
        /\ o[j] = m /\ order' = SubSeq(o, 1, j - 1)
        /\ \A i \in j + 1 .. Len(o) : o[i] \notin ToProbe(table)
  BY <1>a
<1>3. o \in Seq(Member) /\ IsInjective(o) /\ (Live(order) = {} => Range(o) = Known(table))
  BY <1>1, PassType
<1>4. Len(o) \in Nat /\ DOMAIN o = 1 .. Len(o) /\ Len(o) <= N
  BY <1>3, PassLength
<1>5. /\ order' \in Seq(Member) /\ Len(order') = j - 1 /\ IsInjective(order')
      /\ DOMAIN order' = 1 .. j - 1 /\ \A i \in 1 .. j - 1 : order'[i] = o[i]
      /\ \A k \in Member : k \notin Range(order') =>
            k \notin Range(o) \/ \E i \in j .. Len(o) : o[i] = k
  BY <1>2, <1>3, RestOfPass
<1>6. table[m] \in Beliefs /\ table[m] # NoEntry /\ table[m].incarnation \in Nat
  <2>1. table[m] \in Beliefs /\ table[m] # NoEntry
    BY <1>1 DEF TypeOK, ToProbe, Known
  <2> QED
    BY <2>1, IncarnationAssumption DEF Beliefs, Incarnation
<1>7. probe' \in Probes /\ probe' # NoEntry
  <2>1. probe' \in Probes
    BY <1>1, <1>6, Timeouts DEF Probes
  <2> QED
    BY <2>1, NoBeliefAssumption
<1>8. TypeOK'
  BY <1>1, <1>5, <1>7, Timeouts DEF TypeOK
<1>9. Elapsed' = 0 /\ Unswept' = ProbeInterval /\ Unswept = ProbeInterval /\ Elapsed = LongestTick
  BY <1>1, <1>7, Timeouts DEF Elapsed, Unswept
<1>10. ProbeKept'
  BY <1>1, <1>6, <1>9, Timeouts DEF ProbeKept
<1>11. ASSUME NEW k \in Member PROVE SweptBy(k)'
  BY <1>1, <1>9 DEF IInv, SweptBy
<1>12. ASSUME NEW k \in Member PROVE Rotated(k)'
  <2>1. passed[k] \in Nat /\ N \in Nat /\ N >= 1 /\ Rotated(k)
    BY <1>1, NType DEF TypeOK, IInv
  <2>2. CASE k = m \/ k \notin ToProbe(table)
    BY <1>1, <1>4, <1>5, <2>1, <2>2 DEF Rotated
  <2>3. CASE k # m /\ k \in ToProbe(table)
    <3>1. passed'[k] = passed[k] + 1
      BY <1>1, <2>3
    <3>2. \A i \in j .. Len(o) : o[i] # k
      BY <1>2, <2>3
    <3>3. CASE o = order
      <4>1. k \notin Range(order') => k \notin Range(order)
        BY <1>5, <3>2, <3>3
      <4> QED
        BY <1>1, <1>4, <1>5, <2>1, <2>3, <3>1, <3>3, <4>1 DEF Rotated
    <3>4. CASE Live(order) = {}
      <4>1. k \notin Range(order)
        BY <2>3, <3>4 DEF Live, Range
      <4>2. passed[k] <= N - 1
        BY <1>1, <2>1, <4>1, LenProperties DEF Rotated, TypeOK
      <4>3. k \in Range(order')
        BY <1>3, <1>5, <2>3, <3>2, <3>4 DEF ToProbe
      <4> QED
        BY <1>1, <1>4, <1>5, <2>1, <2>3, <3>1, <4>2, <4>3 DEF Rotated
    <3> QED
      BY <3>3, <3>4 DEF Passes
  <2> QED
    BY <2>2, <2>3
<1>13. ASSUME NEW k \in Member PROVE FoundOut(k)'
  <2>1. passed[k] \in Nat /\ silent[k] \in Nat /\ N \in Nat /\ N >= 1 /\ Rotated(k) /\ FoundOut(k)
    BY <1>1, NType DEF TypeOK, IInv
  <2>2. CASE k \notin stopped \intersect ToProbe(table)
    <3>1. silent'[k] = 0
      BY <1>1, <2>1, <2>2 DEF FoundOut
    <3>2. \A c \in Nat : Ticks(c) \in Nat
      BY OneMoreTick
    <3>3. passed'[k] \in Nat /\ 2 * N - 1 \in Nat /\ 2 * N \in Nat
      BY <1>8, <2>1 DEF TypeOK
    <3>4. In(table, k, "suspect")' => table'[k].clock \in Nat
      BY <1>8 DEF TypeOK, In, Beliefs
    <3>5. /\ 0 <= Ticks(passed'[k]) + Elapsed'
          /\ 0 <= Ticks(2 * N - 1) + Elapsed'
          /\ In(table, k, "suspect")' => 0 <= Ticks(2 * N) + table'[k].clock
      <4>1. Ticks(passed'[k]) \in Nat /\ Ticks(2 * N - 1) \in Nat /\ Ticks(2 * N) \in Nat
        BY <3>2, <3>3
      <4> QED
        BY <1>9, <3>4, <4>1
    <3> QED
      BY <3>1, <3>5 DEF FoundOut
  <2>3. CASE k \in stopped \intersect ToProbe(table)
    <3>1. In(table, k, "suspect")' => silent'[k] <= Ticks(2 * N) + table'[k].clock
      BY <1>1, <2>1 DEF FoundOut
    <3>2. CASE In(table, k, "alive")
      <4>1. silent[k] <= Ticks(passed[k]) + LongestTick
        BY <1>1, <1>9, <2>1, <3>2 DEF FoundOut, Doomed
      <4>2. silent[k] <= Ticks(passed[k] + 1)
        BY <2>1, <4>1, OneMoreTick
      <4>3. passed[k] <= 2 * (N - 1)
        BY <1>1, <2>1, PassedBound
      <4>4. silent[k] <= Ticks(2 * N - 1)
        <5>1. passed[k] + 1 \in Nat /\ 2 * N - 1 \in Nat /\ passed[k] + 1 <= 2 * N - 1
          BY <2>1, <4>3
        <5>2. Ticks(passed[k] + 1) <= Ticks(2 * N - 1)
          BY <5>1, MoreTicks
        <5>3. Ticks(passed[k] + 1) \in Nat /\ Ticks(2 * N - 1) \in Nat
          BY <5>1, OneMoreTick
        <5> QED
          BY <2>1, <4>2, <5>2, <5>3
      <4>5. k # m => passed'[k] = passed[k] + 1
        BY <1>1, <2>3
      <4>6. k = m => Doomed(k)'
        BY <1>1, <1>7, <2>3 DEF Doomed
      <4>7. ~In(table, k, "suspect")' /\ k \in (stopped \intersect ToProbe(table))'
        BY <1>1, <2>3, <3>2 DEF In
      <4>8. silent'[k] = silent[k] /\ Elapsed' = 0
        BY <1>1, <1>9
      <4>9. Ticks(2 * N - 1) \in Nat /\ Ticks(passed[k] + 1) \in Nat
        <5>1. 2 * N - 1 \in Nat /\ passed[k] + 1 \in Nat
          BY <2>1
        <5> QED
          BY <5>1, OneMoreTick
      <4> QED
        BY <4>2, <4>4, <4>5, <4>6, <4>7, <4>8, <4>9 DEF FoundOut
    <3>3. CASE ~In(table, k, "alive")
      BY <1>1, <2>3, <3>1, <3>3 DEF FoundOut
    <3> QED
      BY <3>2, <3>3
  <2> QED
    BY <2>2, <2>3
<1> QED
  BY <1>8, <1>10, <1>11, <1>12, <1>13 DEF IInv

\* The same of the next state.
LEMMA NextClockTypes == (TypeOK /\ ProbeKept => Elapsed \in 0 .. LongestTick /\ Unswept \in 0 .. SweepGap)'
<1>1. TypeOK /\ ProbeKept => Elapsed \in 0 .. LongestTick /\ Unswept \in 0 .. SweepGap
  BY ClockTypes
<1> QED
  BY <1>1, PTL

\* Who has not been silent has not been silent for too long.
LEMMA NoSilence ==
    ASSUME TypeOK', ProbeKept', NEW m \in Member, silent'[m] = 0
    PROVE  FoundOut(m)'
<1>1. PICK e \in Nat : Elapsed' = e
  BY NextClockTypes
<1>2. passed'[m] \in Nat /\ N \in Nat /\ N >= 1
  BY NType DEF TypeOK
<1>3. Ticks(passed'[m]) \in Nat /\ Ticks(2 * N - 1) \in Nat /\ Ticks(2 * N) \in Nat
  <2>1. 2 * N - 1 \in Nat /\ 2 * N \in Nat
    BY <1>2
  <2> QED
    BY <1>2, <2>1, OneMoreTick
<1>4. In(table, m, "suspect")' => table'[m].clock \in Nat
  BY DEF TypeOK, In, Beliefs
<1>5. /\ 0 <= Ticks(passed'[m]) + e /\ 0 <= Ticks(2 * N - 1) + e
      /\ In(table, m, "suspect")' => 0 <= Ticks(2 * N) + table'[m].clock
  BY <1>3, <1>4
<1> QED
  BY <1>1, <1>5 DEF FoundOut

\* The end of a probe is the end of no more than its tick.
LEMMA ProbeEnds ==
    ASSUME TypeOK, ProbeKept, probe # NoEntry, probe' = NoEntry, due' = due
    PROVE  Elapsed' \in Nat /\ Elapsed \in Nat /\ Elapsed <= Elapsed' /\ Elapsed <= LongestTick
<1>1. Elapsed \in 0 .. LongestTick
  BY ClockTypes
<1>2. due = IF Elapsed < ProbeInterval THEN ProbeInterval - Elapsed ELSE 0
  BY DEF ProbeKept
<1>3. Elapsed' = IF due > 0 THEN ProbeInterval - due ELSE LongestTick
  BY DEF Elapsed
<1> HIDE DEF Elapsed
<1> QED
  BY <1>1, <1>2, <1>3, Timeouts

\* Nobody to probe.
LEMMA EmptyTickInv ==
    ASSUME IInv, EmptyTick
    PROVE  IInv'
<1>1. /\ TypeOK /\ probe = NoEntry /\ due' = ProbeInterval /\ probe' = NoEntry
      /\ stopped' = stopped /\ NextTarget(NoEntry) /\ FinishTick(table, TRUE)
      /\ table \in Table /\ \A m \in Member : In(table, m, "alive") => table[m].clock = 0
  BY DEF IInv, EmptyTick, TypeOK, Table
<1>2. ToProbe(table) = {} /\ order' \in Seq(Member) /\ IsInjective(order')
  BY <1>1, NoTarget
<1>3. due' \in 0 .. ProbeInterval
  BY <1>1, Timeouts
<1>4. /\ table' \in Table /\ passed' \in [Member -> Nat] /\ silent' \in [Member -> Nat]
      /\ \A m \in Member : In(table, m, "alive")' => table'[m].clock = 0
      /\ ProbeKept'
      /\ \A m \in Member : SweptBy(m)' /\ passed'[m] = 0 /\ silent'[m] = 0
  BY <1>1, <1>2, <1>3, FinishTickDoes
<1>5. TypeOK'
  BY <1>1, <1>2, <1>3, <1>4 DEF TypeOK, Table
<1>6. ASSUME NEW m \in Member PROVE Rotated(m)'
  <2>1. /\ Len(order') \in Nat /\ DOMAIN order' = 1 .. Len(order') /\ Len(order') <= N
        /\ m \notin Range(order') => Len(order') <= N - 1
    BY <1>2, PassLength
  <2> QED
    BY <1>4, <2>1, NType DEF Rotated
<1> QED
  BY <1>4, <1>5, <1>6, NoSilence DEF IInv

\* An ack.
LEMMA AckedInv ==
    ASSUME IInv, Acked
    PROVE  IInv'
<1>1. /\ TypeOK /\ ProbeKept /\ probe # NoEntry /\ probe.answers /\ probe' = NoEntry
      /\ due' = due /\ order' = order /\ stopped' = stopped /\ FinishTick(table, TRUE)
      /\ table \in Table /\ \A m \in Member : In(table, m, "alive") => table[m].clock = 0
  BY DEF IInv, Acked, TypeOK, Table
<1>2. due' \in 0 .. ProbeInterval
  BY <1>1 DEF TypeOK
<1>3. /\ table' \in Table /\ passed' \in [Member -> Nat] /\ silent' \in [Member -> Nat]
      /\ \A m \in Member : In(table, m, "alive")' => table'[m].clock = 0
      /\ ProbeKept'
      /\ \A m \in Member :
            /\ SweptBy(m)'
            /\ IF m \in ToProbe(table')
               THEN /\ m \in ToProbe(table) /\ table'[m] = table[m]
                    /\ passed'[m] = passed[m] /\ silent'[m] = silent[m]
               ELSE passed'[m] = 0 /\ silent'[m] = 0
  BY <1>1, <1>2, FinishTickDoes
<1>4. TypeOK'
  BY <1>1, <1>2, <1>3 DEF TypeOK, Table
<1>5. ASSUME NEW m \in Member PROVE Rotated(m)'
  <2>1. passed[m] \in Nat /\ Rotated(m)
    BY <1>1 DEF IInv, TypeOK
  <2> QED
    BY <1>1, <1>3, <2>1, RotatedKept
<1>6. ASSUME NEW m \in Member PROVE FoundOut(m)'
  <2>1. CASE m \notin ToProbe(table')
    BY <1>3, <1>4, <2>1, NoSilence
  <2>2. CASE m \in ToProbe(table')
    <3>1. passed[m] \in Nat /\ silent[m] \in Nat /\ FoundOut(m) /\ N \in Nat /\ N >= 1
      BY <1>1, NType DEF IInv, TypeOK
    <3>2. PICK e \in Nat, f \in Nat : Elapsed = e /\ Elapsed' = f /\ e <= f
      BY <1>1, ProbeEnds
    <3>3. Ticks(passed[m]) \in Nat
      BY <3>1, OneMoreTick
    <3>4. Ticks(2 * N - 1) \in Nat
      <4>1. 2 * N - 1 \in Nat
        BY <3>1
      <4> QED
        BY <4>1, OneMoreTick
    <3>5. /\ m \in ToProbe(table) /\ table'[m] = table[m]
          /\ passed'[m] = passed[m] /\ silent'[m] = silent[m]
      BY <1>3, <2>2
    <3>6. ~Doomed(m)
      BY <1>1 DEF Doomed
    <3>7. \A s : In(table, m, s)' <=> In(table, m, s)
      BY <3>5 DEF In
    <3> QED
      BY <1>1, <2>2, <3>1, <3>2, <3>3, <3>4, <3>5, <3>6, <3>7 DEF FoundOut
  <2> QED
    BY <2>1, <2>2
<1> QED
  BY <1>3, <1>4, <1>5, <1>6 DEF IInv

\* The second round.
LEMMA AskRelaysInv ==
    ASSUME IInv, AskRelays
    PROVE  IInv'
<1>1. /\ TypeOK /\ ProbeKept /\ probe # NoEntry /\ probe.left = 0 /\ probe.round = "direct"
      /\ probe' = [probe EXCEPT !.round = "indirect", !.left = IndirectTimeout]
      /\ table' = table /\ order' = order /\ due' = due /\ stopped' = stopped
      /\ passed' = passed /\ silent' = silent
  BY DEF IInv, AskRelays
<1>2. probe \in Probes
  BY <1>1 DEF TypeOK
<1>3. /\ probe' \in Probes /\ probe'.round = "indirect" /\ probe'.left = IndirectTimeout
      /\ probe'.member = probe.member /\ probe'.entry = probe.entry
      /\ probe'.answers = probe.answers
  BY <1>1, <1>2, Timeouts DEF Probes
<1>4. probe' # NoEntry
  BY <1>3, NoBeliefAssumption
<1>5. TypeOK'
  BY <1>1, <1>3 DEF TypeOK
<1>6. Elapsed' = Elapsed /\ Unswept' = Unswept
  BY <1>1, <1>3, <1>4, Timeouts DEF Elapsed, Unswept
<1>7. ProbeKept'
  BY <1>1, <1>3, <1>4, <1>6, Timeouts DEF ProbeKept
<1>8. ASSUME NEW m \in Member PROVE SweptBy(m)' /\ Rotated(m)' /\ FoundOut(m)'
  <2>1. SweptBy(m)'
    BY <1>1, <1>6 DEF IInv, SweptBy
  <2>2. Rotated(m)'
    BY <1>1 DEF IInv, Rotated
  <2>3. Doomed(m)' <=> Doomed(m)
    BY <1>1, <1>3, <1>4 DEF Doomed
  <2>4. FoundOut(m)'
    BY <1>1, <1>6, <2>3 DEF IInv, FoundOut
  <2> QED
    BY <2>1, <2>2, <2>4
<1> QED
  BY <1>5, <1>7, <1>8 DEF IInv

\* What the mark of a failed probe makes of the table: only an entry as it was when the
\* ping went out becomes suspect.
LEMMA MarkIs ==
    ASSUME TypeOK, ProbeKept, probe # NoEntry
    PROVE  LET t == [table EXCEPT ![probe.member] =
                        Merge(@, News(probe.entry.incarnation, "suspect"))]
           IN  /\ t \in Table
               /\ \A m \in Member :
                     \/ /\ t[m] = table[m]
                        /\ In(table, m, "alive") => ~Doomed(m)
                     \/ In(table, m, "alive") /\ In(t, m, "suspect") /\ t[m].clock = 0
<1> DEFINE r == News(probe.entry.incarnation, "suspect")
           b == probe.member
           t == [table EXCEPT ![b] = Merge(@, r)]
<1>1. probe \in Probes /\ b \in Member /\ probe.entry \in Beliefs
  BY DEF TypeOK, Probes
<1>2. probe.entry.incarnation \in Incarnation
  BY <1>1 DEF Beliefs
<1>3. /\ r \in Beliefs /\ r # NoEntry /\ r.state = "suspect" /\ r.clock = 0
      /\ r.incarnation = probe.entry.incarnation
  BY <1>2, NewsType DEF News, Belief
<1>4. table[b] \in Beliefs /\ table[b] # NoEntry /\ r.incarnation <= table[b].incarnation
  BY <1>1, <1>3 DEF TypeOK, ProbeKept
<1>5. /\ t[b] = Merge(table[b], r)
      /\ \A m \in Member : m # b => t[m] = table[m]
  BY <1>1 DEF TypeOK
<1>6. /\ table[b].incarnation \in Nat /\ r.incarnation \in Nat
      /\ table[b].state \in {"alive", "suspect", "dead"}
  BY <1>2, <1>3, <1>4, IncarnationAssumption DEF Beliefs, Incarnation
<1> HIDE DEF r
<1>7. IF table[b].incarnation = r.incarnation /\ table[b].state = "alive"
      THEN t[b] = r ELSE t[b] = table[b]
  BY <1>4, <1>5, <1>6, <1>3 DEF Merge, IsNews, Supersedes, Rank
<1>8. t \in Table
  BY <1>1, <1>3, <1>4, <1>7 DEF TypeOK, Table
<1>9. ASSUME NEW m \in Member
      PROVE  \/ /\ t[m] = table[m]
                /\ In(table, m, "alive") => ~Doomed(m)
             \/ In(table, m, "alive") /\ In(t, m, "suspect") /\ t[m].clock = 0
  BY <1>3, <1>4, <1>5, <1>7 DEF In, Doomed
<1> QED
  BY <1>8, <1>9 DEF r

\* No ack.
LEMMA FailedInv ==
    ASSUME IInv, Failed
    PROVE  IInv'
<1> DEFINE t == [table EXCEPT ![probe.member] =
                    Merge(@, News(probe.entry.incarnation, "suspect"))]
<1>1. /\ TypeOK /\ ProbeKept /\ probe # NoEntry /\ probe' = NoEntry
      /\ due' = due /\ order' = order /\ stopped' = stopped /\ FinishTick(t, FALSE)
  BY DEF IInv, Failed
<1>2. /\ t \in Table
      /\ \A m \in Member :
            \/ /\ t[m] = table[m]
               /\ In(table, m, "alive") => ~Doomed(m)
            \/ In(table, m, "alive") /\ In(t, m, "suspect") /\ t[m].clock = 0
  BY <1>1, MarkIs
<1> HIDE DEF t
<1>3. due' \in 0 .. ProbeInterval
  BY <1>1 DEF TypeOK
<1>4. \A m \in Member : In(t, m, "alive") => t[m].clock = 0
  BY <1>1, <1>2 DEF TypeOK, In
<1>5. /\ table' \in Table /\ passed' \in [Member -> Nat] /\ silent' \in [Member -> Nat]
      /\ \A m \in Member : In(table, m, "alive")' => table'[m].clock = 0
      /\ ProbeKept'
      /\ \A m \in Member :
            /\ SweptBy(m)'
            /\ IF m \in ToProbe(table')
               THEN /\ m \in ToProbe(t) /\ table'[m] = t[m]
                    /\ passed'[m] = passed[m] /\ silent'[m] = silent[m]
               ELSE passed'[m] = 0 /\ silent'[m] = 0
  BY <1>1, <1>2, <1>3, <1>4, FinishTickDoes
<1>6. TypeOK'
  BY <1>1, <1>3, <1>5 DEF TypeOK, Table
<1>7. ASSUME NEW m \in Member PROVE Rotated(m)'
  <2>1. passed[m] \in Nat /\ Rotated(m)
    BY <1>1 DEF IInv, TypeOK
  <2> QED
    BY <1>1, <1>5, <2>1, RotatedKept
<1>8. ASSUME NEW m \in Member PROVE FoundOut(m)'
  <2>1. CASE m \notin ToProbe(table')
    BY <1>5, <1>6, <2>1, NoSilence
  <2>2. CASE m \in ToProbe(table')
    <3>1. passed[m] \in Nat /\ silent[m] \in Nat /\ FoundOut(m) /\ N \in Nat /\ N >= 1
      BY <1>1, NType DEF IInv, TypeOK
    <3>2. PICK e \in Nat, f \in Nat :
            Elapsed = e /\ Elapsed' = f /\ e <= f /\ e <= LongestTick
      BY <1>1, ProbeEnds
    <3>3. Ticks(passed[m]) \in Nat
      BY <3>1, OneMoreTick
    <3>4. Ticks(2 * N - 1) \in Nat /\ Ticks(2 * N) = Ticks(2 * N - 1) + LongestTick
      <4>1. 2 * N - 1 \in Nat /\ (2 * N - 1) + 1 = 2 * N
        BY <3>1
      <4> QED
        BY <4>1, OneMoreTick
    <3>5. /\ m \in ToProbe(t) /\ table'[m] = t[m]
          /\ passed'[m] = passed[m] /\ silent'[m] = silent[m]
      BY <1>5, <2>2
    <3>6. \A s : In(table, m, s)' <=> In(t, m, s)
      BY <3>5 DEF In
    <3>7. CASE t[m] = table[m] /\ (In(table, m, "alive") => ~Doomed(m))
      <4>1. m \in ToProbe(table) /\ \A s : In(t, m, s) <=> In(table, m, s)
        BY <3>5, <3>7 DEF ToProbe, Known, In
      <4>2. m \notin stopped => silent[m] = 0
        BY <3>1 DEF FoundOut
      <4>3. In(t, m, "alive") =>
              silent[m] <= Ticks(passed[m]) + f /\ silent[m] <= Ticks(2 * N - 1) + f
        <5>1. In(t, m, "alive") =>
                silent[m] <= Ticks(passed[m]) + e /\ silent[m] <= Ticks(2 * N - 1) + e
          BY <3>1, <3>2, <3>7, <4>1 DEF FoundOut
        <5> QED
          BY <5>1, <3>1, <3>2, <3>3, <3>4
      <4>4. In(t, m, "suspect") => silent[m] <= Ticks(2 * N) + t[m].clock
        BY <3>1, <3>7, <4>1 DEF FoundOut
      <4> QED
        BY <1>1, <2>2, <3>2, <3>5, <3>6, <4>2, <4>3, <4>4 DEF FoundOut
    <3>8. CASE In(table, m, "alive") /\ In(t, m, "suspect") /\ t[m].clock = 0
      <4>1. silent[m] <= Ticks(2 * N - 1) + e
        BY <3>1, <3>2, <3>8 DEF FoundOut
      <4>2. silent[m] <= Ticks(2 * N) + t[m].clock
        BY <4>1, <3>1, <3>2, <3>4, <3>8, Timeouts
      <4>3. ~In(t, m, "alive") /\ m \in ToProbe(table)
        BY <3>8 DEF In, ToProbe, Known
      <4>4. m \notin stopped => silent[m] = 0
        BY <3>1 DEF FoundOut
      <4> QED
        BY <1>1, <2>2, <3>5, <3>6, <4>2, <4>3, <4>4 DEF FoundOut
    <3> QED
      BY <1>2, <3>7, <3>8
  <2> QED
    BY <2>1, <2>2
<1> QED
  BY <1>5, <1>6, <1>7, <1>8 DEF IInv

\* A rumor.
LEMMA HearInv ==
    ASSUME IInv, NEW m \in Member, NEW inc \in Incarnation,
           NEW s \in {"alive", "suspect", "dead"}, Hear(m, inc, s)
    PROVE  IInv'
<1> DEFINE r == News(inc, s)
<1>1. /\ TypeOK /\ ProbeKept /\ IsNews(table[m], r)
      /\ table' = [table EXCEPT ![m] = r] /\ silent' = [silent EXCEPT ![m] = 0]
      /\ passed' = [passed EXCEPT ![m] = IF s = "dead" THEN 0 ELSE @]
      /\ order' = order /\ probe' = probe /\ due' = due /\ stopped' = stopped
  BY DEF IInv, Hear, Merge
<1>2. r \in Beliefs /\ r # NoEntry /\ r.state = s /\ r.clock = 0 /\ r.incarnation = inc
  BY NewsType DEF News, Belief
<1>3. table[m] # NoEntry => table[m].incarnation \in Nat /\ table[m].incarnation <= inc
  <2>1. table[m] # NoEntry => table[m].incarnation \in Nat
    BY <1>1, IncarnationAssumption DEF TypeOK, Beliefs, Incarnation
  <2>2. inc \in Nat
    BY IncarnationAssumption DEF Incarnation
  <2> QED
    BY <1>1, <1>2, <2>1, <2>2 DEF IsNews, Supersedes
<1> HIDE DEF r
<1>4. table'[m] = r /\ \A k \in Member : k # m => table'[k] = table[k]
  BY <1>1 DEF TypeOK
<1>5. /\ table' \in [Member -> Beliefs \union {NoEntry}]
      /\ silent' \in [Member -> Nat] /\ passed' \in [Member -> Nat]
  BY <1>1, <1>2 DEF TypeOK
<1>6. TypeOK'
  BY <1>1, <1>2, <1>4, <1>5 DEF TypeOK, In
<1>7. PICK e \in Nat, u \in Nat : Elapsed = e /\ Elapsed' = e /\ Unswept = u /\ Unswept' = u
  <2>1. Elapsed' = Elapsed /\ Unswept' = Unswept
    BY <1>1 DEF Elapsed, Unswept
  <2> QED
    BY <1>1, <2>1, ClockTypes
<1>8. ProbeKept'
  <2>1. probe # NoEntry => /\ probe.member \in Member /\ probe.entry.incarnation \in Nat
                           /\ table[probe.member] # NoEntry
                           /\ probe.entry.incarnation <= table[probe.member].incarnation
    BY <1>1, IncarnationAssumption DEF TypeOK, ProbeKept, Probes, Beliefs, Incarnation
  <2>2. inc \in Nat
    BY IncarnationAssumption DEF Incarnation
  <2>3. probe # NoEntry => /\ table'[probe.member] # NoEntry
                           /\ probe.entry.incarnation <= table'[probe.member].incarnation
    BY <1>2, <1>3, <1>4, <2>1, <2>2
  <2> QED
    BY <1>1, <1>7, <2>3 DEF ProbeKept
<1>9. ASSUME NEW k \in Member PROVE SweptBy(k)'
  <2>1. CASE k = m
    BY <1>2, <1>4, <1>7, <2>1, Timeouts DEF SweptBy
  <2>2. CASE k # m
    BY <1>4, <1>7, <2>2 DEF IInv, SweptBy, In
  <2> QED
    BY <2>1, <2>2
<1>10. ASSUME NEW k \in Member PROVE Rotated(k)'
  <2>1. passed[k] \in Nat /\ Rotated(k)
    BY <1>1 DEF IInv, TypeOK
  <2>2. passed'[k] \in Nat /\ passed'[k] <= passed[k]
    BY <1>1, <2>1 DEF TypeOK
  <2>3. k \notin ToProbe(table') => passed'[k] = 0
    <3>1. CASE k = m
      BY <1>1, <1>2, <1>4, <3>1 DEF TypeOK, ToProbe, Known, In
    <3>2. CASE k # m
      <4>1. k \notin ToProbe(table') => k \notin ToProbe(table)
        BY <1>4, <3>2 DEF ToProbe, Known, In
      <4> QED
        BY <1>1, <2>1, <3>2, <4>1 DEF Rotated, TypeOK
    <3> QED
      BY <3>1, <3>2
  <2> QED
    BY <1>1, <2>1, <2>2, <2>3, RotatedKept
<1>11. ASSUME NEW k \in Member PROVE FoundOut(k)'
  <2>1. CASE k = m
    <3>1. silent'[k] = 0
      BY <1>1, <2>1 DEF TypeOK
    <3> QED
      BY <1>6, <1>8, <3>1, NoSilence
  <2>2. CASE k # m
    <3>1. silent'[k] = silent[k] /\ passed'[k] = passed[k] /\ table'[k] = table[k]
      BY <1>1, <1>4, <2>2 DEF TypeOK
    <3>2. /\ \A st : In(table, k, st)' <=> In(table, k, st)
          /\ k \in ToProbe(table') <=> k \in ToProbe(table)
          /\ Doomed(k)' <=> Doomed(k)
      BY <1>1, <3>1 DEF In, ToProbe, Known, Doomed
    <3> QED
      BY <1>1, <1>7, <3>1, <3>2 DEF IInv, FoundOut
  <2> QED
    BY <2>1, <2>2
<1> QED
  BY <1>6, <1>8, <1>9, <1>10, <1>11 DEF IInv

\* A process stops.
LEMMA StopInv ==
    ASSUME IInv, NEW m \in Member, Stop(m)
    PROVE  IInv'
<1>1. /\ TypeOK /\ ProbeKept /\ stopped' = stopped \union {m} /\ m \notin stopped
      /\ table' = table /\ order' = order /\ probe' = probe /\ due' = due
      /\ passed' = passed /\ silent' = silent
  BY DEF IInv, Stop
<1>2. TypeOK'
  BY <1>1 DEF TypeOK
<1>3. Elapsed' = Elapsed /\ Unswept' = Unswept
  BY <1>1 DEF Elapsed, Unswept
<1>4. ProbeKept'
  BY <1>1, <1>3 DEF ProbeKept
<1>5. ASSUME NEW k \in Member PROVE SweptBy(k)' /\ Rotated(k)' /\ FoundOut(k)'
  <2>1. SweptBy(k)'
    BY <1>1, <1>3 DEF IInv, SweptBy
  <2>2. Rotated(k)'
    BY <1>1 DEF IInv, Rotated
  <2>3. CASE k = m
    <3>1. silent'[k] = 0
      BY <1>1, <2>3 DEF IInv, FoundOut
    <3> QED
      BY <1>2, <1>4, <2>1, <2>2, <3>1, NoSilence
  <2>4. CASE k # m
    <3>1. Doomed(k)' <=> Doomed(k)
      BY <1>1 DEF Doomed
    <3> QED
      BY <1>1, <1>3, <2>1, <2>2, <2>4, <3>1 DEF IInv, FoundOut
  <2> QED
    BY <2>3, <2>4
<1> QED
  BY <1>2, <1>4, <1>5 DEF IInv

\* A unit of time.
LEMMA AgedIs ==
    ASSUME NEW e \in Beliefs \union {NoEntry}
    PROVE  LET f == Aged(e)
           IN  IF e = NoEntry THEN f = NoEntry
               ELSE /\ f \in Beliefs /\ f # NoEntry
                    /\ f.state = e.state /\ f.incarnation = e.incarnation
                    /\ e.clock \in Nat
                    /\ f.clock = IF e.state = "alive" THEN e.clock ELSE e.clock + 1
<1>1. CASE e = NoEntry
  BY <1>1 DEF Aged
<1>2. CASE e # NoEntry
  <2>1. e \in Beliefs
    BY <1>2
  <2>2. Aged(e) \in Beliefs
    BY <1>2, <2>1 DEF Aged, Beliefs
  <2> QED
    BY <1>2, <2>1, <2>2, NoBeliefAssumption DEF Aged, Beliefs
<1> QED
  BY <1>1, <1>2

\* Time passes within a tick's bounds.
LEMMA ElapseClocks ==
    ASSUME TypeOK, ProbeKept, Elapse
    PROVE  /\ Elapsed \in Nat /\ Unswept \in Nat /\ Elapsed' \in Nat /\ Unswept' \in Nat
           /\ Elapsed' >= Elapsed + 1 /\ Unswept' = Unswept + 1
           /\ due' \in 0 .. ProbeInterval /\ probe' \in Probes \union {NoEntry}
           /\ probe = NoEntry <=> probe' = NoEntry
           /\ probe # NoEntry => /\ probe'.member = probe.member /\ probe'.entry = probe.entry
                                 /\ probe'.answers = probe.answers /\ probe'.round = probe.round
                                 /\ probe.left \in Nat \ {0} /\ probe'.left = probe.left - 1
                                 /\ Elapsed' = Elapsed + 1
<1>1. /\ due \in 0 .. ProbeInterval /\ due' = IF due > 0 THEN due - 1 ELSE 0
      /\ IF probe = NoEntry THEN due > 0 ELSE probe.left > 0
      /\ probe' = IF probe = NoEntry THEN probe ELSE [probe EXCEPT !.left = @ - 1]
  BY DEF TypeOK, Elapse
<1>2. Elapsed \in Nat /\ Unswept \in Nat
  BY ClockTypes
<1>3. CASE probe = NoEntry
  <2>1. Elapsed = ProbeInterval - due /\ Unswept = ProbeInterval - due
    BY <1>1, <1>3 DEF Elapsed, Unswept
  <2>2. Unswept' = ProbeInterval - (due - 1)
    BY <1>1, <1>3 DEF Unswept
  <2>3. Elapsed' = IF due - 1 > 0 THEN ProbeInterval - (due - 1) ELSE LongestTick
    BY <1>1, <1>3 DEF Elapsed
  <2> HIDE DEF Elapsed, Unswept
  <2>4. due > 0 /\ probe' = NoEntry
    BY <1>1, <1>3
  <2> QED
    BY <1>1, <1>2, <1>3, <2>1, <2>2, <2>3, <2>4, Timeouts
<1>4. CASE probe # NoEntry
  <2>1. probe \in Probes /\ probe' = [probe EXCEPT !.left = @ - 1]
    BY <1>1, <1>4 DEF TypeOK
  <2>2. /\ probe' \in Probes
        /\ probe'.member = probe.member /\ probe'.entry = probe.entry
        /\ probe'.answers = probe.answers /\ probe'.round = probe.round
        /\ probe.left \in Nat \ {0} /\ probe'.left = probe.left - 1
    BY <1>1, <1>4, <2>1 DEF Probes
  <2>3. probe' # NoEntry
    BY <2>2, NoBeliefAssumption
  <2>4. Elapsed' = Elapsed + 1
    BY <1>4, <2>2, <2>3, Timeouts DEF Elapsed
  <2>5. Unswept = ProbeInterval + Elapsed /\ Unswept' = ProbeInterval + Elapsed'
    BY <1>4, <2>3 DEF Unswept
  <2>6. due' \in 0 .. ProbeInterval
    BY <1>1, Timeouts
  <2> HIDE DEF Elapsed, Unswept
  <2> QED
    BY <1>2, <1>4, <2>2, <2>3, <2>4, <2>5, <2>6, Timeouts
<1> QED
  BY <1>3, <1>4

\* Who is silent is so for no longer than the probes and the clocks have run.
LEMMA ElapseInv ==
    ASSUME IInv, Elapse
    PROVE  IInv'
<1>1. /\ TypeOK /\ ProbeKept /\ order' = order /\ stopped' = stopped /\ passed' = passed
      /\ due \in 0 .. ProbeInterval /\ due' = IF due > 0 THEN due - 1 ELSE 0
      /\ table' = [m \in Member |-> Aged(table[m])]
      /\ silent' = [m \in Member |->
                      IF m \in stopped \intersect ToProbe(table) THEN silent[m] + 1 ELSE 0]
  BY DEF IInv, Elapse, TypeOK
<1>2. /\ Elapsed \in Nat /\ Unswept \in Nat /\ Elapsed' \in Nat /\ Unswept' \in Nat
      /\ Elapsed' >= Elapsed + 1 /\ Unswept' = Unswept + 1
      /\ due' \in 0 .. ProbeInterval /\ probe' \in Probes \union {NoEntry}
      /\ probe = NoEntry <=> probe' = NoEntry
      /\ probe # NoEntry => /\ probe'.member = probe.member /\ probe'.entry = probe.entry
                            /\ probe'.answers = probe.answers /\ probe'.round = probe.round
                            /\ probe.left \in Nat \ {0} /\ probe'.left = probe.left - 1
                            /\ Elapsed' = Elapsed + 1
  BY <1>1, ElapseClocks
<1>3. PICK e \in Nat, f \in Nat, u \in Nat :
        /\ Elapsed = e /\ Elapsed' = f /\ Unswept = u /\ Unswept' = u + 1 /\ f >= e + 1
  BY <1>2
<1>4. ASSUME NEW m \in Member
      PROVE  IF table[m] = NoEntry THEN table'[m] = NoEntry
             ELSE /\ table'[m] \in Beliefs /\ table'[m] # NoEntry
                  /\ table'[m].state = table[m].state
                  /\ table'[m].incarnation = table[m].incarnation
                  /\ table[m].clock \in Nat
                  /\ table'[m].clock = IF table[m].state = "alive"
                                       THEN table[m].clock ELSE table[m].clock + 1
  <2>1. table[m] \in Beliefs \union {NoEntry} /\ table'[m] = Aged(table[m])
    BY <1>1 DEF TypeOK
  <2> QED
    BY <2>1, AgedIs
<1>5. TypeOK'
  <2>1. table' \in [Member -> Beliefs \union {NoEntry}]
    BY <1>1, <1>4
  <2>2. \A m \in Member : In(table, m, "alive")' => table'[m].clock = 0
    BY <1>1, <1>4 DEF TypeOK, In
  <2>3. silent' \in [Member -> Nat]
    BY <1>1 DEF TypeOK
  <2> QED
    BY <1>1, <1>2, <2>1, <2>2, <2>3 DEF TypeOK
<1>6. ProbeKept'
  <2>1. ASSUME probe # NoEntry
        PROVE  /\ probe.member \in Member /\ table[probe.member] # NoEntry
               /\ probe.entry.incarnation <= table[probe.member].incarnation
               /\ probe.left <= IF probe.round = "direct" THEN DirectTimeout ELSE IndirectTimeout
               /\ due = IF e < ProbeInterval THEN ProbeInterval - e ELSE 0
    BY <1>1, <1>3, <2>1 DEF TypeOK, Probes, ProbeKept
  <2>2. ASSUME probe # NoEntry
        PROVE  due' = IF f < ProbeInterval THEN ProbeInterval - f ELSE 0
    BY <1>1, <1>2, <1>3, <2>1, <2>2, Timeouts
  <2>3. ASSUME probe # NoEntry
        PROVE  probe'.left <= IF probe'.round = "direct" THEN DirectTimeout ELSE IndirectTimeout
    BY <1>2, <2>1, <2>3, Timeouts
  <2> QED
    BY <1>2, <1>3, <1>4, <2>1, <2>2, <2>3 DEF ProbeKept
<1>7. ASSUME NEW m \in Member
      PROVE  /\ \A s : In(table, m, s)' <=> In(table, m, s)
             /\ m \in ToProbe(table') <=> m \in ToProbe(table)
             /\ Doomed(m)' <=> Doomed(m)
  <2>1. \A s : In(table, m, s)' <=> In(table, m, s)
    BY <1>4 DEF In
  <2>2. m \in ToProbe(table') <=> m \in ToProbe(table)
    BY <1>4 DEF ToProbe, Known, In
  <2>3. Doomed(m)' <=> Doomed(m)
    <3>1. CASE table[m] = NoEntry
      <4>1. ~Doomed(m)
        BY <1>1, <3>1 DEF ProbeKept, Doomed
      <4>2. ~Doomed(m)'
        BY <1>1, <1>2, <3>1 DEF ProbeKept, Doomed
      <4> QED
        BY <4>1, <4>2
    <3>2. CASE table[m] # NoEntry
      BY <1>2, <1>4, <3>2 DEF Doomed
    <3> QED
      BY <3>1, <3>2
  <2> QED
    BY <2>1, <2>2, <2>3
<1>8. ASSUME NEW m \in Member PROVE SweptBy(m)'
  <2>1. SweptBy(m)
    BY DEF IInv
  <2>2. \A s : In(table, m, s) /\ s # "alive" =>
            table[m].clock \in Nat /\ table'[m].clock = table[m].clock + 1
    BY <1>4 DEF In
  <2> QED
    BY <1>3, <1>7, <2>1, <2>2, Timeouts DEF SweptBy
<1>9. ASSUME NEW m \in Member PROVE Rotated(m)'
  <2>1. passed[m] \in Nat /\ Rotated(m)
    BY <1>1 DEF IInv, TypeOK
  <2> QED
    BY <1>1, <1>7, <2>1, RotatedKept DEF Rotated
<1>10. ASSUME NEW m \in Member PROVE FoundOut(m)'
  <2>1. CASE m \notin stopped \intersect ToProbe(table)
    <3>1. silent'[m] = 0
      BY <1>1, <2>1
    <3> QED
      BY <1>5, <1>6, <3>1, NoSilence
  <2>2. CASE m \in stopped \intersect ToProbe(table)
    <3>1. passed[m] \in Nat /\ silent[m] \in Nat /\ FoundOut(m) /\ N \in Nat /\ N >= 1
      BY <1>1, NType DEF IInv, TypeOK
    <3>2. silent'[m] = silent[m] + 1 /\ passed'[m] = passed[m]
      BY <1>1, <2>2
    <3>3. Ticks(passed[m]) \in Nat
      BY <3>1, OneMoreTick
    <3>4. Ticks(2 * N - 1) \in Nat /\ Ticks(2 * N) \in Nat
      <4>1. 2 * N - 1 \in Nat /\ 2 * N \in Nat
        BY <3>1
      <4> QED
        BY <4>1, OneMoreTick
    <3>5. In(table, m, "suspect") => silent'[m] <= Ticks(2 * N) + table'[m].clock
      <4>1. In(table, m, "suspect") =>
              table[m].clock \in Nat /\ table'[m].clock = table[m].clock + 1
        BY <1>4 DEF In
      <4>2. In(table, m, "suspect") => silent[m] <= Ticks(2 * N) + table[m].clock
        BY <3>1 DEF FoundOut
      <4> QED
        BY <3>1, <3>2, <3>4, <4>1, <4>2
    <3>6. In(table, m, "alive") => silent'[m] <= Ticks(2 * N - 1) + f
      <4>1. In(table, m, "alive") => silent[m] <= Ticks(2 * N - 1) + e
        BY <1>3, <3>1 DEF FoundOut
      <4> QED
        BY <1>3, <3>1, <3>2, <3>4, <4>1
    <3>7. In(table, m, "alive") /\ ~Doomed(m) => silent'[m] <= Ticks(passed[m]) + f
      <4>1. In(table, m, "alive") /\ ~Doomed(m) => silent[m] <= Ticks(passed[m]) + e
        BY <1>3, <3>1 DEF FoundOut
      <4> QED
        BY <1>3, <3>1, <3>2, <3>3, <4>1
    <3> QED
      BY <1>1, <1>3, <1>7, <2>2, <3>2, <3>5, <3>6, <3>7 DEF FoundOut
  <2> QED
    BY <2>1, <2>2
<1> QED
  BY <1>5, <1>6, <1>8, <1>9, <1>10 DEF IInv

LEMMA NextInv == IInv /\ [Next]_vars => IInv'
<1> SUFFICES ASSUME IInv, [Next]_vars PROVE IInv'
  OBVIOUS
<1>1. ASSUME NEW m \in Member, StartTick(m) PROVE IInv'
  BY <1>1, StartTickInv
<1>2. CASE EmptyTick
  BY <1>2, EmptyTickInv
<1>3. CASE Acked
  BY <1>3, AckedInv
<1>4. CASE AskRelays
  BY <1>4, AskRelaysInv
<1>5. CASE Failed
  BY <1>5, FailedInv
<1>6. ASSUME NEW m \in Member, NEW inc \in Incarnation,
             NEW s \in {"alive", "suspect", "dead"}, Hear(m, inc, s)
      PROVE  IInv'
  BY <1>6, HearInv
<1>7. ASSUME NEW m \in Member, Stop(m) PROVE IInv'
  BY <1>7, StopInv
<1>8. CASE Elapse
  BY <1>8, ElapseInv
<1>9. CASE UNCHANGED vars
  BY <1>9 DEF vars, IInv, TypeOK, In, ProbeKept, Elapsed, Unswept, SweptBy, Rotated, FoundOut,
              Doomed, ToProbe, Known
<1> QED
  BY <1>1, <1>2, <1>3, <1>4, <1>5, <1>6, <1>7, <1>8, <1>9 DEF Next, Tick

LEMMA Invariance == Spec => []IInv
<1> QED
  BY InitInv, NextInv, PTL DEF Spec

-----------------------------------------------------------------------------
(* The theorems.                                                            *)

\* The types hold.
THEOREM TypeCorrect == Spec => []TypeOK
<1>1. IInv => TypeOK
  BY DEF IInv
<1> QED
  BY <1>1, Invariance, PTL

\* Nobody is passed over by more than two probes of every other member, however members
\* come, go, die and come back between the picks of a rotation (next_target).
THEOREM Fairness == Spec => []RotationFair
<1>1. IInv => RotationFair
  BY PassedBound DEF IInv, RotationFair, N
<1> QED
  BY <1>1, Invariance, PTL

\* No suspect and no dead entry outlives its timeout by more than an interval and both
\* rounds of a probe: every end of a tick sweeps and reaps (sweep_suspects, reap_dead).
THEOREM Timeliness == Spec => []SweptInTime
<1>1. ASSUME IInv, NEW m \in Member
      PROVE  /\ In(table, m, "suspect") => table[m].clock < SuspicionTimeout + SweepGap
             /\ In(table, m, "dead") => table[m].clock < ReapTimeout + SweepGap
  <2>1. TypeOK /\ SweptBy(m) /\ Unswept \in 0 .. SweepGap /\ SweepGap \in Nat
    BY <1>1, ClockTypes, Timeouts DEF IInv, SweepGap
  <2>2. \A s : In(table, m, s) => table[m].clock \in Nat
    BY <2>1 DEF TypeOK, In, Beliefs
  <2> QED
    BY <2>1, <2>2, Timeouts DEF SweptBy
<1>2. IInv => SweptInTime
  BY <1>1 DEF SweptInTime
<1> QED
  BY <1>2, Invariance, PTL

\* A process that has stopped is held alive or suspect for no longer than two passes of
\* the slowest probes and its suspicion, unless there is news of it.
THEOREM Detection == Spec => []DetectedInTime
<1>1. ASSUME IInv, NEW m \in Member PROVE silent[m] < DetectionBound
  <2>1. TypeOK /\ FoundOut(m) /\ Rotated(m) /\ silent[m] \in Nat /\ N \in Nat /\ N >= 1
    BY <1>1, NType DEF IInv, TypeOK
  <2>2. PICK e \in 0 .. LongestTick : Elapsed = e
    BY <1>1, ClockTypes DEF IInv
  <2>3. SweepGap \in Nat \ {0} /\ SuspicionTimeout \in Nat
    BY Timeouts DEF SweepGap
  <2>4. DetectionBound = Ticks(2 * N) + SuspicionTimeout + SweepGap
    BY DEF DetectionBound, Ticks, N
  <2>5. Ticks(2 * N) = Ticks(2 * N - 1) + LongestTick /\ Ticks(2 * N - 1) \in Nat
    <3>1. 2 * N - 1 \in Nat /\ (2 * N - 1) + 1 = 2 * N
      BY <2>1
    <3> QED
      BY <3>1, OneMoreTick
  <2>6. CASE m \notin ToProbe(table)
    BY <2>1, <2>3, <2>4, <2>5, <2>6, Timeouts DEF FoundOut
  <2>7. CASE In(table, m, "alive")
    <3>1. silent[m] <= Ticks(2 * N - 1) + e
      BY <2>1, <2>2, <2>7 DEF FoundOut
    <3> QED
      BY <2>1, <2>2, <2>3, <2>4, <2>5, <3>1, Timeouts
  <2>8. CASE In(table, m, "suspect")
    <3>1. silent[m] <= Ticks(2 * N) + table[m].clock
      BY <2>1, <2>8 DEF FoundOut
    <3>2. table[m].clock < SuspicionTimeout + SweepGap /\ table[m].clock \in Nat
      <4>1. SweptBy(m) /\ Unswept \in 0 .. SweepGap
        BY <1>1, ClockTypes DEF IInv
      <4>2. table[m].clock \in Nat
        BY <2>1, <2>8 DEF TypeOK, In, Beliefs
      <4> QED
        BY <2>3, <2>8, <4>1, <4>2 DEF SweptBy
    <3> QED
      BY <2>1, <2>3, <2>4, <2>5, <3>1, <3>2, Timeouts
  <2>9. m \in ToProbe(table) => In(table, m, "alive") \/ In(table, m, "suspect")
    BY <2>1 DEF TypeOK, ToProbe, Known, In, Beliefs
  <2> QED
    BY <2>6, <2>7, <2>8, <2>9
<1>2. IInv => DetectedInTime
  BY <1>1 DEF DetectedInTime
<1> QED
  BY <1>2, Invariance, PTL
=============================================================================
