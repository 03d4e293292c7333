---------------------------- MODULE Cluster_proofs ----------------------------
(***************************************************************************)
(* Proofs about Cluster, for every set of processes, whichever start       *)
(* alone, stop or fail to reach each other, and every largest incarnation: *)
(* its types, and that two sides that hold each other dead stay apart.     *)
(***************************************************************************)
EXTENDS Cluster, TLAPS

USE IncarnationAssumption, FirstAssumption

-----------------------------------------------------------------------------
(* Types.                                                                   *)

\* News is a record, or none, of each process.
News == [Node -> Entry]

\* A superseding number is a number.
LEMMA SupersedingType ==
    ASSUME NEW i \in Incarnation PROVE Superseding(i) \in Incarnation
BY DEF Superseding, Incarnation

\* Records that are not "no record" are beliefs.
LEMMA BeliefType ==
    /\ Empty \in News
    /\ \A i \in Incarnation, s \in {"alive", "suspect", "dead"} : Belief(i, s) \in Entry
    /\ \A k \in Node, e \in Entry : Only(k, e) \in News
BY DEF Empty, News, Entry, Belief, Only

\* What a process says is news.
LEMMA ToldType ==
    ASSUME TypeOK, NEW n \in Node
    PROVE  Told(n) \in News
BY BeliefType DEF TypeOK, Told, News

\* News makes a table of a table, without an entry for its owner, and an
\* incarnation of an incarnation.
LEMMA AppliedType ==
    ASSUME TypeOK, NEW n \in Node, NEW news \in News
    PROVE  /\ Learned(n, news) \in [Node -> Entry]
           /\ Learned(n, news)[n] = NoEntry
           /\ Refuted(n, news) \in Incarnation
<1>1. \A m \in Node : table[n][m] \in Entry /\ news[m] \in Entry
  BY DEF TypeOK, News
<1>2. \A m \in Node : Merge(table[n][m], news[m]) \in Entry
  BY <1>1 DEF Merge
<1>3. table[n][n] = NoEntry /\ incarnation[n] \in Incarnation
  BY DEF TypeOK
<1>4. news[n] # NoEntry => news[n].incarnation \in Incarnation
  BY <1>1 DEF Entry
<1> QED
  BY <1>1, <1>2, <1>3, <1>4, SupersedingType DEF Learned, Refuted

\* n applies news: its table and its incarnation change, and no other's.
LEMMA ApplyType ==
    ASSUME TypeOK, NEW n \in up, NEW news \in News, Apply(n, news),
           UNCHANGED <<started, up>>
    PROVE  TypeOK'
<1>1. n \in Node
  BY DEF TypeOK
<1> QED
  BY <1>1, AppliedType DEF Apply, TypeOK

\* Init establishes the types.
LEMMA InitType == Init => TypeOK
BY BeliefType DEF Init, TypeOK, Empty, Incarnation, News

\* Every step keeps them.
LEMMA NextType == TypeOK /\ [Next]_vars => TypeOK'
<1> SUFFICES ASSUME TypeOK, [Next]_vars PROVE TypeOK'
  OBVIOUS
<1>0. up \subseteq Node
  BY DEF TypeOK
<1>1. ASSUME NEW n \in Node, NEW m \in Node, Join(n, m) PROVE TypeOK'
  <2>1. Told(m) \in News /\ Only(n, Belief(incarnation[n], "alive")) \in News
    BY ToldType, BeliefType DEF TypeOK
  <2>2. n # m /\ m \in up
    BY <1>1 DEF Join, TypeOK
  <2>3. /\ Learned(n, Told(m)) \in [Node -> Entry]
        /\ Learned(n, Told(m))[n] = NoEntry
        /\ Learned(m, Only(n, Belief(incarnation[n], "alive"))) \in [Node -> Entry]
        /\ Learned(m, Only(n, Belief(incarnation[n], "alive")))[m] = NoEntry
    BY <2>1, AppliedType
  <2> QED
    BY <1>1, <2>2, <2>3 DEF Join, TypeOK
<1>2. ASSUME NEW n \in Node, NEW m \in Node, NEW k \in Node, Gossip(n, m, k)
      PROVE  TypeOK'
  <2>1. Only(k, Told(n)[k]) \in News
    BY ToldType, BeliefType DEF News
  <2> QED
    BY <1>2, <2>1, ApplyType DEF Gossip
<1>3. ASSUME NEW n \in Node, NEW m \in Node, NEW answered \in BOOLEAN,
             Sync(n, m, answered)
      PROVE  TypeOK'
  <2>1. Told(n) \in News /\ Answer(m) \in News
    BY ToldType DEF Answer
  <2>2. /\ Learned(n, Answer(m)) \in [Node -> Entry]
        /\ Learned(n, Answer(m))[n] = NoEntry
        /\ Learned(m, Told(n)) \in [Node -> Entry]
        /\ Learned(m, Told(n))[m] = NoEntry
        /\ Refuted(n, Answer(m)) \in Incarnation
        /\ Refuted(m, Told(n)) \in Incarnation
    BY <2>1, AppliedType
  <2>3. n \in up /\ m \in up
    BY <1>3 DEF Sync
  <2> QED
    BY <1>3, <2>2, <2>3 DEF Sync, TypeOK
<1>4. ASSUME NEW n \in Node, NEW m \in Node, NEW s \in {"suspect", "dead"}, Mark(n, m, s)
      PROVE  TypeOK'
  <2>1. table[n][m] \in Entry /\ table[n][m] # NoEntry
    BY <1>4 DEF Mark, TypeOK
  <2>2. table[n][m].incarnation \in Incarnation
    BY <2>1 DEF Entry
  <2>3. Only(m, Belief(table[n][m].incarnation, s)) \in News
    BY <2>2, BeliefType
  <2> QED
    BY <1>4, <2>3, ApplyType DEF Mark
<1>5. ASSUME NEW n \in Node, NEW m \in Node, Reap(n, m) PROVE TypeOK'
  BY <1>5 DEF Reap, TypeOK, Entry
<1>6. ASSUME NEW n \in Node, NEW told \in SUBSET Node, Stop(n, told) PROVE TypeOK'
  <2> DEFINE news == Only(n, Belief(incarnation[n], "dead"))
  <2>1. news \in News
    BY BeliefType DEF TypeOK
  <2>2. \A m \in Node : Learned(m, news) \in [Node -> Entry] /\ Learned(m, news)[m] = NoEntry
    BY <2>1, AppliedType
  <2>3. told \subseteq up /\ n \in up
    BY <1>6 DEF Stop
  <2>4. table' = [m \in Node |-> IF m = n THEN Empty
                                 ELSE IF m \in told THEN Learned(m, news) ELSE table[m]]
    BY <1>6 DEF Stop
  <2> HIDE DEF news
  <2>5. table' \in [Node -> [Node -> Entry]]
    BY <2>2, <2>4, BeliefType DEF TypeOK, News
  <2>6. \A m \in Node : table'[m][m] = NoEntry
    BY <2>2, <2>4 DEF TypeOK, Empty
  <2>7. \A m \in Node : m \notin up' => table'[m] = Empty
    BY <1>6, <2>3, <2>4 DEF Stop, TypeOK
  <2> QED
    BY <1>6, <2>5, <2>6, <2>7 DEF Stop, TypeOK
<1>7. CASE UNCHANGED vars
  BY <1>7 DEF vars, TypeOK
<1> QED
  BY <1>1, <1>2, <1>3, <1>4, <1>5, <1>6, <1>7 DEF Next

\* Every variable keeps its type in every reachable state.
THEOREM TypeCorrect == Spec => []TypeOK
BY InitType, NextType, PTL DEF Spec

-----------------------------------------------------------------------------
(* Two sides apart.                                                         *)

\* A record that keeps its holder from sending: of a death, or none.
Down(entry) == entry = NoEntry \/ entry.state = "dead"

\* x and y are on different sides.
Across(side, x, y) == (x \in side) # (y \in side)

\* No running process holds up one on the other side.
LEMMA ApartMeans ==
    ASSUME NEW side \in SUBSET Node
    PROVE  Apart(side) <=> \A x, y \in up : Across(side, x, y) => Down(table[x][y])
BY DEF Apart, HoldsUp, Across, Down

\* A death does not bring up an entry that was down.
LEMMA LearnedDown ==
    ASSUME NEW x \in Node, NEW y \in Node, NEW news \in News,
           Down(table[x][y]), Down(news[y])
    PROVE  Down(Learned(x, news)[y])
BY DEF Learned, Merge, IsNews, Down

\* Those who exchange messages are on one side.
LEMMA MeetOnOneSide ==
    ASSUME NEW side \in SUBSET Node, Apart(side), NEW n \in up, NEW m \in up,
           up \subseteq Node, Meet(n, m)
    PROVE  ~Across(side, n, m)
BY ApartMeans DEF Meet, Addresses, Across, Down

\* What a process says of the other side is that it is dead, if anything.
LEMMA ToldDown ==
    ASSUME TypeOK, NEW side \in SUBSET Node, Apart(side), NEW n \in up, NEW y \in up,
           Across(side, n, y)
    PROVE  Down(Told(n)[y])
<1>1. n # y /\ n \in Node /\ y \in Node
  BY DEF Across, TypeOK
<1>2. Told(n)[y] = table[n][y]
  BY <1>1 DEF Told, TypeOK
<1> QED
  BY <1>2, ApartMeans

\* One record says nothing of the others.
LEMMA OnlyDown ==
    ASSUME NEW k \in Node, NEW y \in Node, NEW e, y = k => Down(e)
    PROVE  Down(Only(k, e)[y])
BY DEF Only, Empty, Down

\* Each step, taken by the running alone, keeps two sides apart.
LEMMA NextApart ==
    ASSUME TypeOK, [Next]_vars, NEW side \in SUBSET Node, Apart(side), up' \subseteq up
    PROVE  Apart(side)'
<1>0. up \subseteq Node /\ up \subseteq started
  BY DEF TypeOK
<1>1. SUFFICES ASSUME NEW x \in up', NEW y \in up', Across(side, x, y)
               PROVE  Down(table'[x][y])
  BY DEF Apart, HoldsUp, Across, Down
<1>2. x \in up /\ y \in up /\ x \in Node /\ y \in Node /\ x # y /\ Down(table[x][y])
  BY <1>0, <1>1, ApartMeans DEF Across
<1>3. ASSUME NEW n \in Node, NEW m \in Node, Join(n, m) PROVE FALSE
  BY <1>0, <1>3 DEF Join
<1>4. ASSUME NEW n \in Node, NEW m \in Node, NEW k \in Node, Gossip(n, m, k)
      PROVE  Down(table'[x][y])
  <2>1. n \in up /\ m \in up /\ ~Across(side, n, m)
    BY <1>0, <1>4, MeetOnOneSide DEF Gossip
  <2>2. Only(k, Told(n)[k]) \in News
    BY ToldType, BeliefType DEF News
  <2>3. CASE x = m
    <3>1. Across(side, n, y)
      BY <1>1, <2>1, <2>3 DEF Across
    <3>2. Down(Told(n)[y])
      BY <1>2, <2>1, <3>1, ToldDown
    <3>3. Down(Only(k, Told(n)[k])[y])
      BY <1>2, <3>2, OnlyDown
    <3>4. Down(Learned(m, Only(k, Told(n)[k]))[y])
      BY <1>2, <2>2, <2>3, <3>3, LearnedDown
    <3> QED
      BY <1>4, <2>3, <3>4 DEF Gossip, Apply, TypeOK
  <2>4. CASE x # m
    BY <1>2, <1>4, <2>4 DEF Gossip, Apply, TypeOK
  <2> QED
    BY <2>3, <2>4
<1>5. ASSUME NEW n \in Node, NEW m \in Node, NEW answered \in BOOLEAN,
             Sync(n, m, answered)
      PROVE  Down(table'[x][y])
  <2>1. n \in up /\ m \in up /\ m \in Addresses(n)
    BY <1>5 DEF Sync
  <2>2. ~Across(side, n, m)
    BY <1>0, <2>1, MeetOnOneSide DEF Meet
  <2>3. Told(n) \in News /\ Answer(m) \in News
    BY ToldType DEF Answer
  <2>4. x = m => Down(Told(n)[y])
    BY <1>1, <1>2, <2>1, <2>2, ToldDown DEF Across
  <2>5. x = n => Down(Answer(m)[y])
    BY <1>1, <1>2, <2>1, <2>2, ToldDown DEF Across, Answer
  <2>6. x = m => Down(Learned(m, Told(n))[y])
    BY <1>2, <2>3, <2>4, LearnedDown
  <2>7. x = n => Down(Learned(n, Answer(m))[y])
    BY <1>2, <2>3, <2>5, LearnedDown
  <2> QED
    BY <1>2, <1>5, <2>6, <2>7 DEF Sync, TypeOK
<1>6. ASSUME NEW n \in Node, NEW m \in Node, NEW s \in {"suspect", "dead"}, Mark(n, m, s)
      PROVE  Down(table'[x][y])
  <2>1. ~Down(table[n][m])
    BY <1>6 DEF Mark, Down
  <2>2. x = n => y # m
    BY <1>2, <2>1
  <2>3. CASE x = n
    <3>1. Learned(n, Only(m, Belief(table[n][m].incarnation, s)))[y] = table[x][y]
      BY <1>2, <2>2, <2>3 DEF Learned, Only, Empty
    <3> QED
      BY <1>2, <1>6, <2>3, <3>1 DEF Mark, Apply, TypeOK
  <2>4. CASE x # n
    BY <1>2, <1>6, <2>4 DEF Mark, Apply, TypeOK
  <2> QED
    BY <2>3, <2>4
<1>7. ASSUME NEW n \in Node, NEW m \in Node, Reap(n, m) PROVE Down(table'[x][y])
  BY <1>2, <1>7 DEF Reap, Down, TypeOK
<1>8. ASSUME NEW n \in Node, NEW told \in SUBSET Node, Stop(n, told)
      PROVE  Down(table'[x][y])
  <2> DEFINE news == Only(n, Belief(incarnation[n], "dead"))
  <2>1. news \in News
    BY BeliefType DEF TypeOK
  <2>2. Down(news[y])
    BY <1>2, OnlyDown DEF Belief, Down
  <2>3. Down(Learned(x, news)[y])
    BY <1>2, <2>1, <2>2, LearnedDown
  <2>4. x # n
    BY <1>1, <1>8 DEF Stop
  <2>5. table'[x] = IF x \in told THEN Learned(x, news) ELSE table[x]
    BY <1>2, <1>8, <2>4 DEF Stop
  <2> QED
    BY <1>2, <2>3, <2>5
<1>9. CASE UNCHANGED vars
  BY <1>2, <1>9 DEF vars
<1> QED
  BY <1>3, <1>4, <1>5, <1>6, <1>7, <1>8, <1>9 DEF Next

\* Two sides that hold each other dead stay apart until another process joins,
\* whatever the running ones send, mark and refute.
THEOREM SplitsAreFinal == Spec => SplitIsFinal
<1>1. TypeOK /\ [Next]_vars =>
        [\A side \in SUBSET Node : Apart(side) /\ up' \subseteq up => Apart(side)']_vars
  BY NextApart
<1> QED
  BY <1>1, TypeCorrect, PTL DEF Spec, SplitIsFinal
=============================================================================
