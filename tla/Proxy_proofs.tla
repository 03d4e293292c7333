----------------------------- MODULE Proxy_proofs -----------------------------
(***************************************************************************)
(* Proofs about Proxy, for any cluster, any clients and any tags: what a   *)
(* client finds on its list, and how it and the others go round it.        *)
(***************************************************************************)
EXTENDS Proxy, FiniteSetTheorems, SequenceTheorems, TLAPS

-----------------------------------------------------------------------------
(* Arithmetic of the round robin.                                           *)

LEMMA Products ==
    ASSUME NEW n \in Nat \ {0}, NEW p \in Int, NEW q \in Int, p < q
    PROVE  n * p + n <= n * q
<1>1. PICK k \in Nat : q = p + 1 + k
  <2>1. q - p - 1 \in Nat /\ q = p + 1 + (q - p - 1)
    OBVIOUS
  <2> QED
    BY <2>1
<1>2. n * k \in Nat
  OBVIOUS
<1>3. n * q = n * p + n + n * k
  BY <1>1
<1> QED
  BY <1>2, <1>3

LEMMA Divided ==
    ASSUME NEW n \in Nat \ {0}, NEW a \in Nat
    PROVE  /\ a % n \in 0 .. n - 1
           /\ a = n * (a \div n) + (a % n) /\ a \div n \in Int
OBVIOUS

\* Two places fewer than n apart are not the same on a round of n.
LEMMA Apart ==
    ASSUME NEW n \in Nat \ {0}, NEW a \in Nat, NEW b \in Nat, a < b, b - a < n
    PROVE  a % n # b % n
<1> DEFINE p == a \div n
           q == b \div n
<1>1. /\ a % n \in Int /\ b % n \in Int /\ p \in Int /\ q \in Int
      /\ a = n * p + (a % n) /\ b = n * q + (b % n)
      /\ a % n >= 0 /\ a % n < n /\ b % n >= 0 /\ b % n < n
  BY Divided
<1> HIDE DEF p, q
<1> SUFFICES ASSUME a % n = b % n PROVE FALSE
  OBVIOUS
<1>2. n * p < n * q /\ n * q < n * p + n
  BY <1>1
<1>3. CASE p < q
  BY <1>1, <1>2, <1>3, Products
<1>4. CASE q < p
  <2>1. n * q + n <= n * p
    BY <1>1, <1>4, Products
  <2>2. n * p \in Int /\ n * q \in Int
    BY <1>1
  <2> QED
    BY <1>2, <2>1, <2>2
<1>5. CASE p = q
  BY <1>1, <1>2, <1>5
<1> QED
  BY <1>1, <1>3, <1>4, <1>5

-----------------------------------------------------------------------------
(* The invariant.                                                           *)

Typed ==
    /\ table \in [Peer -> Belief]
    /\ ready \in BOOLEAN
    /\ client \in [Client -> State]
    /\ ever \in [Client -> SUBSET Member]
    /\ always \in [Client -> SUBSET Member]

Drawn == {c \in Client : Drew(c)}

\* The counter holds how many have drawn, and each of them another place.
Counted ==
    /\ IsFiniteSet(Drawn) /\ next = Cardinality(Drawn)
    /\ \A c \in Drawn : client[c].start < next
    /\ \A c, d \in Drawn : client[c].start = client[d].start => c = d

\* The tries of a client went round its list from its start.
WentRound(r) ==
    /\ IsInjective(r.list)
    /\ r.tried # <<>> => r.pc \in {"trying", "forwarding", "turned_away"}
    /\ Len(r.tried) <= Len(r.list)
    /\ \A k \in 1 .. Len(r.tried) :
          r.tried[k] = r.list[((r.start + k - 1) % Len(r.list)) + 1]
    /\ r.pc = "turned_away" => Len(r.tried) = Len(r.list)

\* The members that could take c's work now.
Can(c) == {m \in Wants[c] : Serves(table, ready, m)}

\* What a client that waits for its list has found is of members that could take its
\* work since it came, and has all peers that could all the time.
Seen(c) ==
    /\ client[c].pc \in {"table", "self"} => always[c] \subseteq Can(c) /\ Can(c) \subseteq ever[c]
    /\ client[c].pc = "self" =>
          /\ client[c].found \subseteq IpsOf(ever[c])
          /\ IpsOf(always[c] \ {Self}) \subseteq client[c].found

IInv ==
    /\ Typed
    /\ Counted
    /\ \A c \in Client : WentRound(client[c])
    /\ \A c \in Client : Seen(c)

-----------------------------------------------------------------------------
(* Lists.                                                                   *)

\* A list in order has every address once.
LEMMA InOrderIs ==
    ASSUME NEW addrs \in SUBSET IpsOf(Member), NEW l \in InOrder(addrs)
    PROVE  l \in Seq(IpsOf(Member)) /\ IsInjective(l) /\ Range(l) = addrs
<1>1. IsFiniteSet(addrs)
  <2>1. IsFiniteSet(IpsOf(Member))
    <3>1. Ip \in Surjection(Member, IpsOf(Member)) /\ IsFiniteSet(Member)
      BY MemberAssumption DEF Surjection, IpsOf
    <3> QED
      BY <3>1, FS_Surjection
  <2> QED
    BY <2>1, FS_Subset
<1> DEFINE n == Cardinality(addrs)
<1>2. n \in Nat
  BY <1>1, FS_CardinalityType
<1>3. l \in [1 .. n -> addrs] /\ IsInjective(l)
  BY DEF InOrder, SetToSeqs, IsInjective
<1>4. l \in Injection(1 .. n, addrs) /\ IsFiniteSet(1 .. n) /\ Cardinality(1 .. n) = n
  BY <1>2, <1>3, FS_Interval DEF Injection
<1>5. l \in Surjection(1 .. n, addrs)
  BY <1>1, <1>4, FS_Injection
<1>6. Range(l) = addrs
  BY <1>3, <1>5 DEF Surjection, Range
<1>7. l \in Seq(IpsOf(Member))
  <2>1. l \in [1 .. n -> IpsOf(Member)]
    BY <1>3
  <2> QED
    BY <1>2, <2>1, SeqDef
<1> QED
  BY <1>3, <1>6, <1>7

LEMMA FoundType == ASSUME NEW c \in Client PROVE Found(c) \subseteq IpsOf(Member)
BY DEF Found, ReadyPeers, IpsOf, Peer

LEMMA OwnType ==
    ASSUME NEW c \in Client PROVE Own(c) \in SUBSET IpsOf(Member)
BY MemberAssumption DEF Own, IpsOf

LEMMA BackendType ==
    ASSUME Typed, NEW c \in Client, HasTries(c)
    PROVE  Backend(c) \in IpsOf(Member)
<1> DEFINE n == Len(client[c].list)
<1>1. client[c] \in State
  BY DEF Typed
<1>2. /\ client[c].list \in Seq(IpsOf(Member)) /\ n \in Nat
      /\ Len(client[c].tried) \in Nat /\ Turn(c) \in Nat
  BY <1>1, LenProperties DEF State, Turn
<1>3. n > 0
  BY <1>2 DEF HasTries
<1> HIDE DEF n
<1>4. Turn(c) % n \in 0 .. n - 1
  <2>1. n \in Nat \ {0} /\ Turn(c) \in Nat
    BY <1>2, <1>3
  <2> QED
    BY <2>1, Divided
<1>5. (Turn(c) % n) + 1 \in 1 .. n
  BY <1>2, <1>4
<1>6. client[c].list[(Turn(c) % n) + 1] \in IpsOf(Member)
  BY <1>2, <1>5, ElementOfSeq DEF n
<1> QED
  BY <1>6 DEF Backend, n

-----------------------------------------------------------------------------
(* What a step of a client does to it.                                      *)

\* c is x after the step, the other clients are as they were.
Becomes(c, x) ==
    /\ client' \in [Client -> State]
    /\ client'[c] = x
    /\ \A d \in Client : d # c => client'[d] = client[d]

LEMMA Moved ==
    ASSUME Typed, NEW c \in Client, NEW x \in State, client' = [client EXCEPT ![c] = x]
    PROVE  Becomes(c, x)
BY DEF Typed, Becomes

LEMMA AcceptIs ==
    ASSUME Typed, NEW c \in Client, Accept(c)
    PROVE  Becomes(c, [client[c] EXCEPT !.pc = "table"])
<1>1. client[c] \in State
  BY DEF Typed
<1>2. [client[c] EXCEPT !.pc = "table"] \in State
  BY <1>1 DEF State
<1> QED
  BY <1>2, Moved DEF Accept

LEMMA ReadTableIs ==
    ASSUME Typed, NEW c \in Client, ReadTable(c)
    PROVE  Becomes(c, [client[c] EXCEPT !.pc = "self", !.found = Found(c)])
<1>1. client[c] \in State
  BY DEF Typed
<1>2. [client[c] EXCEPT !.pc = "self", !.found = Found(c)] \in State
  BY <1>1, FoundType DEF State
<1> QED
  BY <1>2, Moved DEF ReadTable

LEMMA ReadSelfIs ==
    ASSUME Typed, NEW c \in Client, ReadSelf(c)
    PROVE  \E l \in Seq(IpsOf(Member)) :
              /\ IsInjective(l) /\ Range(l) = client[c].found \union Own(c)
              /\ Becomes(c, [client[c] EXCEPT !.pc = "listed", !.found = {}, !.list = l])
<1>1. client[c] \in State
  BY DEF Typed
<1>2. PICK l \in InOrder(client[c].found \union Own(c)) :
          client' = [client EXCEPT ![c].pc = "listed", ![c].found = {}, ![c].list = l]
  BY DEF ReadSelf
<1>3. client[c].found \union Own(c) \in SUBSET IpsOf(Member)
  BY <1>1, OwnType DEF State
<1>4. /\ l \in Seq(IpsOf(Member)) /\ IsInjective(l)
      /\ Range(l) = client[c].found \union Own(c)
  BY <1>3, InOrderIs
<1>5. [client[c] EXCEPT !.pc = "listed", !.found = {}, !.list = l] \in State
  BY <1>1, <1>4 DEF State
<1>6. Becomes(c, [client[c] EXCEPT !.pc = "listed", !.found = {}, !.list = l])
  BY <1>2, <1>5, Moved
<1> QED
  BY <1>4, <1>6

LEMMA AnswerIs ==
    ASSUME Typed, NEW c \in Client, Answer(c)
    PROVE  Becomes(c, [client[c] EXCEPT !.pc = "answered"])
<1>1. client[c] \in State
  BY DEF Typed
<1>2. [client[c] EXCEPT !.pc = "answered"] \in State
  BY <1>1 DEF State
<1> QED
  BY <1>2, Moved DEF Answer

LEMMA DrawIs ==
    ASSUME Typed, next \in Nat, NEW c \in Client, Draw(c)
    PROVE  Becomes(c, [client[c] EXCEPT !.pc = "trying", !.start = next])
<1>1. client[c] \in State
  BY DEF Typed
<1>2. [client[c] EXCEPT !.pc = "trying", !.start = next] \in State
  BY <1>1 DEF State
<1> QED
  BY <1>2, Moved DEF Draw

LEMMA TryIs ==
    ASSUME Typed, NEW c \in Client, NEW accepts \in BOOLEAN, Try(c, accepts)
    PROVE  Becomes(c, [client[c] EXCEPT !.pc = IF accepts THEN "forwarding" ELSE "trying",
                                        !.tried = Append(client[c].tried, Backend(c))])
<1>1. client[c] \in State
  BY DEF Typed
<1>2. Append(client[c].tried, Backend(c)) \in Seq(IpsOf(Member))
  BY <1>1, BackendType, AppendProperties DEF State, Try
<1>3. [client[c] EXCEPT !.pc = IF accepts THEN "forwarding" ELSE "trying",
                        !.tried = Append(client[c].tried, Backend(c))] \in State
  BY <1>1, <1>2 DEF State
<1> QED
  BY <1>3, Moved DEF Try

LEMMA TurnAwayIs ==
    ASSUME Typed, NEW c \in Client, TurnAway(c)
    PROVE  Becomes(c, [client[c] EXCEPT !.pc = "turned_away"])
<1>1. client[c] \in State
  BY DEF Typed
<1>2. [client[c] EXCEPT !.pc = "turned_away"] \in State
  BY <1>1 DEF State
<1> QED
  BY <1>2, Moved DEF TurnAway

-----------------------------------------------------------------------------
(* Every step keeps the invariant.                                          *)

LEMMA WitnessType ==
    ASSUME Typed, NEW t, NEW r, Witness(t, r)
    PROVE  ever' \in [Client -> SUBSET Member] /\ always' \in [Client -> SUBSET Member]
BY MemberAssumption DEF Typed, Witness

LEMMA NextTyped ==
    ASSUME Typed, next \in Nat, [Next]_vars
    PROVE  Typed'
<1>1. ASSUME NEW c \in Client, Accept(c) PROVE Typed'
  <2>1. client' \in [Client -> State]
    BY <1>1, AcceptIs DEF Becomes
  <2>2. {m \in Wants[c] : Serves(table, ready, m)} \in SUBSET Member
    BY MemberAssumption
  <2>3. ever' \in [Client -> SUBSET Member]
    BY <1>1, <2>2 DEF Typed, Accept
  <2>4. always' \in [Client -> SUBSET Member]
    BY <1>1, <2>3 DEF Typed, Accept
  <2> QED
    BY <1>1, <2>1, <2>3, <2>4 DEF Typed, Accept
<1>2. ASSUME NEW c \in Client, ReadTable(c) PROVE Typed'
  BY <1>2, ReadTableIs DEF Typed, ReadTable, Becomes
<1>3. ASSUME NEW c \in Client, ReadSelf(c) PROVE Typed'
  <2>1. client' \in [Client -> State]
    BY <1>3, ReadSelfIs DEF Becomes
  <2> QED
    BY <1>3, <2>1 DEF Typed, ReadSelf
<1>4. ASSUME NEW c \in Client, Answer(c) PROVE Typed'
  BY <1>4, AnswerIs DEF Typed, Answer, Becomes
<1>5. ASSUME NEW c \in Client, Draw(c) PROVE Typed'
  BY <1>5, DrawIs DEF Typed, Draw, Becomes
<1>6. ASSUME NEW c \in Client, NEW accepts \in BOOLEAN, Try(c, accepts) PROVE Typed'
  <2>1. client' \in [Client -> State]
    BY <1>6, TryIs DEF Becomes
  <2> QED
    BY <1>6, <2>1 DEF Typed, Try
<1>7. ASSUME NEW c \in Client, TurnAway(c) PROVE Typed'
  BY <1>7, TurnAwayIs DEF Typed, TurnAway, Becomes
<1>8. ASSUME NEW m \in Peer, NEW b \in Belief, Learn(m, b) PROVE Typed'
  <2>1. ever' \in [Client -> SUBSET Member] /\ always' \in [Client -> SUBSET Member]
    BY <1>8, WitnessType DEF Learn
  <2> QED
    BY <1>8, <2>1 DEF Typed, Learn
<1>9. ASSUME NEW r \in BOOLEAN, SetReady(r) PROVE Typed'
  <2>1. ever' \in [Client -> SUBSET Member] /\ always' \in [Client -> SUBSET Member]
    BY <1>9, WitnessType DEF SetReady
  <2> QED
    BY <1>9, <2>1 DEF Typed, SetReady
<1>10. CASE UNCHANGED vars
  BY <1>10 DEF Typed, vars
<1> QED
  BY <1>1, <1>2, <1>3, <1>4, <1>5, <1>6, <1>7, <1>8, <1>9, <1>10 DEF Next

\* Whoever has drawn keeps its place, as long as nobody else draws.
LEMMA CountedKept ==
    ASSUME Typed, Counted, next' = next,
           \A c \in Client : Drew(c)' = Drew(c),
           \A c \in Client : Drew(c) => client'[c].start = client[c].start
    PROVE  Counted'
<1>1. Drawn' = Drawn
  BY DEF Drawn
<1>2. \A c \in Drawn : client'[c].start = client[c].start
  BY DEF Drawn
<1> QED
  BY <1>1, <1>2 DEF Counted

LEMMA DrawCounts ==
    ASSUME Typed, Counted, NEW c \in Client, Draw(c)
    PROVE  Counted'
<1>1. next \in Nat
  BY FS_CardinalityType DEF Counted
<1>2. Becomes(c, [client[c] EXCEPT !.pc = "trying", !.start = next])
  BY <1>1, DrawIs
<1>3. client[c] \in State /\ ~Drew(c)
  BY DEF Typed, Draw, Drew
<1>4. /\ client'[c].pc = "trying" /\ client'[c].start = next
      /\ \A d \in Client : d # c => client'[d] = client[d]
  BY <1>2, <1>3 DEF Becomes, State
<1>5. Drawn' = Drawn \union {c} /\ c \notin Drawn
  BY <1>3, <1>4 DEF Drawn, Drew
<1>6. next' = next + 1
  BY DEF Draw, Advanced
<1>7. IsFiniteSet(Drawn') /\ Cardinality(Drawn') = next + 1
  BY <1>5, FS_AddElement DEF Counted
<1>8. \A d \in Drawn : client[d].start \in Nat /\ client'[d].start = client[d].start
  BY <1>4, <1>5 DEF Drawn, Typed, State
<1>9. \A d \in Drawn' : client'[d].start < next'
  BY <1>1, <1>4, <1>5, <1>6, <1>8 DEF Counted
<1>10. \A d, e \in Drawn' : client'[d].start = client'[e].start => d = e
  BY <1>1, <1>4, <1>5, <1>8 DEF Counted
<1> QED
  BY <1>6, <1>7, <1>9, <1>10 DEF Counted

LEMMA NextCounted ==
    ASSUME Typed, Counted, [Next]_vars
    PROVE  Counted'
<1> USE DEF Typed
<1>1. ASSUME NEW c \in Client, NEW x, Becomes(c, x), next' = next,
             client[c].pc \notin {"trying", "forwarding", "turned_away"},
             x.pc \notin {"trying", "forwarding", "turned_away"}
      PROVE  Counted'
  <2>1. \A d \in Client : Drew(d)' = Drew(d)
    BY <1>1 DEF Becomes, Drew
  <2>2. \A d \in Client : Drew(d) => client'[d].start = client[d].start
    BY <1>1 DEF Becomes, Drew
  <2> QED
    BY <1>1, <2>1, <2>2, CountedKept
<1>2. ASSUME NEW c \in Client, NEW x, Becomes(c, x), next' = next,
             client[c].pc = "trying", x.pc \in {"trying", "forwarding", "turned_away"},
             x.start = client[c].start
      PROVE  Counted'
  <2>1. \A d \in Client : Drew(d)' = Drew(d)
    BY <1>2 DEF Becomes, Drew
  <2>2. \A d \in Client : Drew(d) => client'[d].start = client[d].start
    BY <1>2 DEF Becomes
  <2> QED
    BY <1>2, <2>1, <2>2, CountedKept
<1>3. ASSUME NEW c \in Client, Accept(c) PROVE Counted'
  <2> DEFINE x == [client[c] EXCEPT !.pc = "table"]
  <2>1. Becomes(c, x)
    BY <1>3, AcceptIs
  <2>2. x.pc \notin {"trying", "forwarding", "turned_away"}
    BY DEF State
  <2> HIDE DEF x
  <2> QED
    BY <1>1, <1>3, <2>1, <2>2 DEF Accept
<1>4. ASSUME NEW c \in Client, ReadTable(c) PROVE Counted'
  <2> DEFINE x == [client[c] EXCEPT !.pc = "self", !.found = Found(c)]
  <2>1. Becomes(c, x)
    BY <1>4, ReadTableIs
  <2>2. x.pc \notin {"trying", "forwarding", "turned_away"}
    BY DEF State
  <2> HIDE DEF x
  <2> QED
    BY <1>1, <1>4, <2>1, <2>2 DEF ReadTable
<1>5. ASSUME NEW c \in Client, ReadSelf(c) PROVE Counted'
  <2>1. PICK l \in Seq(IpsOf(Member)) :
            Becomes(c, [client[c] EXCEPT !.pc = "listed", !.found = {}, !.list = l])
    BY <1>5, ReadSelfIs
  <2> QED
    BY <1>1, <1>5, <2>1 DEF ReadSelf, State, Becomes
<1>6. ASSUME NEW c \in Client, Answer(c) PROVE Counted'
  <2> DEFINE x == [client[c] EXCEPT !.pc = "answered"]
  <2>1. Becomes(c, x)
    BY <1>6, AnswerIs
  <2>2. x.pc \notin {"trying", "forwarding", "turned_away"}
    BY DEF State
  <2> HIDE DEF x
  <2> QED
    BY <1>1, <1>6, <2>1, <2>2 DEF Answer
<1>7. ASSUME NEW c \in Client, Draw(c) PROVE Counted'
  BY <1>7, DrawCounts
<1>8. ASSUME NEW c \in Client, NEW accepts \in BOOLEAN, Try(c, accepts) PROVE Counted'
  <2> DEFINE x == [client[c] EXCEPT !.pc = IF accepts THEN "forwarding" ELSE "trying",
                                    !.tried = Append(client[c].tried, Backend(c))]
  <2>1. Becomes(c, x)
    BY <1>8, TryIs
  <2>2. x.pc \in {"trying", "forwarding", "turned_away"} /\ x.start = client[c].start
    BY DEF State
  <2> HIDE DEF x
  <2> QED
    BY <1>2, <1>8, <2>1, <2>2 DEF Try
<1>9. ASSUME NEW c \in Client, TurnAway(c) PROVE Counted'
  <2> DEFINE x == [client[c] EXCEPT !.pc = "turned_away"]
  <2>1. Becomes(c, x)
    BY <1>9, TurnAwayIs
  <2>2. x.pc \in {"trying", "forwarding", "turned_away"} /\ x.start = client[c].start
    BY DEF State
  <2> HIDE DEF x
  <2> QED
    BY <1>2, <1>9, <2>1, <2>2 DEF TurnAway
<1>10. ASSUME NEW m \in Peer, NEW b \in Belief, Learn(m, b) PROVE Counted'
  BY <1>10, CountedKept DEF Learn, Drew
<1>11. ASSUME NEW r \in BOOLEAN, SetReady(r) PROVE Counted'
  BY <1>11, CountedKept DEF SetReady, Drew
<1>12. CASE UNCHANGED vars
  BY <1>12, CountedKept DEF vars, Drew
<1> QED
  BY <1>3, <1>4, <1>5, <1>6, <1>7, <1>8, <1>9, <1>10, <1>11, <1>12 DEF Next

\* A try is of the next place on the round.
LEMMA TryGoesRound ==
    ASSUME Typed, NEW c \in Client, WentRound(client[c]),
           NEW accepts \in BOOLEAN, Try(c, accepts)
    PROVE  WentRound([client[c] EXCEPT !.pc = IF accepts THEN "forwarding" ELSE "trying",
                                       !.tried = Append(client[c].tried, Backend(c))])
<1> DEFINE r == client[c]
           x == [client[c] EXCEPT !.pc = IF accepts THEN "forwarding" ELSE "trying",
                                  !.tried = Append(client[c].tried, Backend(c))]
<1>1. /\ x.pc \in {"trying", "forwarding"} /\ x.list = r.list /\ x.start = r.start
      /\ x.tried = Append(r.tried, Backend(c))
      /\ r.tried \in Seq(IpsOf(Member)) /\ r.list \in Seq(IpsOf(Member)) /\ r.start \in Nat
  BY DEF Typed, State
<1>2. Backend(c) = r.list[((r.start + Len(r.tried)) % Len(r.list)) + 1]
  BY DEF Backend, Turn
<1>3. /\ Len(x.tried) = Len(r.tried) + 1
      /\ \A k \in 1 .. Len(r.tried) : x.tried[k] = r.tried[k]
      /\ x.tried[Len(r.tried) + 1] = Backend(c)
  BY <1>1, BackendType, AppendProperties DEF Try
<1>4. Len(r.tried) \in Nat /\ Len(r.list) \in Nat /\ Len(r.tried) < Len(r.list)
  BY <1>1, LenProperties DEF Try, HasTries
<1> HIDE DEF x, r
<1>5. WentRound(r)
  BY DEF r
<1>6. ASSUME NEW k \in 1 .. Len(x.tried)
      PROVE  x.tried[k] = x.list[((x.start + k - 1) % Len(x.list)) + 1]
  <2>1. CASE k \in 1 .. Len(r.tried)
    <3>1. r.tried[k] = r.list[((r.start + k - 1) % Len(r.list)) + 1]
      BY <1>5, <2>1 DEF WentRound
    <3> QED
      BY <1>1, <1>3, <2>1, <3>1
  <2>2. CASE k = Len(r.tried) + 1
    <3>1. r.start + k - 1 = r.start + Len(r.tried)
      BY <1>1, <1>4, <2>2
    <3> QED
      BY <1>1, <1>2, <1>3, <2>2, <3>1
  <2> QED
    BY <1>3, <1>4, <2>1, <2>2
<1>7. WentRound(x)
  BY <1>1, <1>3, <1>4, <1>5, <1>6 DEF WentRound
<1> QED
  BY <1>7 DEF x

\* A client that has tried nothing has gone round nothing.
LEMMA Untried ==
    ASSUME NEW r, r.tried = <<>>, r.list \in Seq(IpsOf(Member)), IsInjective(r.list),
           r.pc # "turned_away"
    PROVE  WentRound(r)
<1>1. Len(r.tried) = 0 /\ Len(r.list) \in Nat
  BY LenProperties, EmptySeq
<1> QED
  BY <1>1 DEF WentRound

LEMMA NextRound ==
    ASSUME Typed, next \in Nat, \A c \in Client : WentRound(client[c]), [Next]_vars
    PROVE  \A c \in Client : WentRound(client'[c])
<1>1. \A c \in Client : client[c] \in State /\ WentRound(client[c])
  BY DEF Typed
<1>2. ASSUME NEW c \in Client, client[c].pc \in {"new", "table", "self", "listed"}
      PROVE  client[c].tried = <<>> /\ IsInjective(client[c].list)
  BY <1>1, <1>2 DEF WentRound
<1>3. ASSUME NEW c \in Client, NEW x, Becomes(c, x), WentRound(x)
      PROVE  \A d \in Client : WentRound(client'[d])
  BY <1>1, <1>3 DEF Becomes
<1>4. ASSUME NEW c \in Client, NEW x, Becomes(c, x), x.tried = <<>>,
             IsInjective(x.list), x.pc # "turned_away"
      PROVE  \A d \in Client : WentRound(client'[d])
  <2>1. x.list \in Seq(IpsOf(Member))
    BY <1>4 DEF Becomes, State
  <2> QED
    BY <1>3, <1>4, <2>1, Untried
<1>5. ASSUME NEW c \in Client, Accept(c) PROVE \A d \in Client : WentRound(client'[d])
  <2> DEFINE x == [client[c] EXCEPT !.pc = "table"]
  <2>1. Becomes(c, x)
    BY <1>5, AcceptIs
  <2>2. x.tried = <<>> /\ IsInjective(x.list) /\ x.pc # "turned_away"
    BY <1>1, <1>2, <1>5 DEF Accept, State
  <2> HIDE DEF x
  <2> QED
    BY <1>4, <2>1, <2>2
<1>6. ASSUME NEW c \in Client, ReadTable(c) PROVE \A d \in Client : WentRound(client'[d])
  <2> DEFINE x == [client[c] EXCEPT !.pc = "self", !.found = Found(c)]
  <2>1. Becomes(c, x)
    BY <1>6, ReadTableIs
  <2>2. x.tried = <<>> /\ IsInjective(x.list) /\ x.pc # "turned_away"
    BY <1>1, <1>2, <1>6 DEF ReadTable, State
  <2> HIDE DEF x
  <2> QED
    BY <1>4, <2>1, <2>2
<1>7. ASSUME NEW c \in Client, ReadSelf(c) PROVE \A d \in Client : WentRound(client'[d])
  <2>1. PICK l \in Seq(IpsOf(Member)) :
            /\ IsInjective(l)
            /\ Becomes(c, [client[c] EXCEPT !.pc = "listed", !.found = {}, !.list = l])
    BY <1>7, ReadSelfIs
  <2> DEFINE x == [client[c] EXCEPT !.pc = "listed", !.found = {}, !.list = l]
  <2>2. Becomes(c, x)
    BY <2>1
  <2>3. x.tried = <<>> /\ IsInjective(x.list) /\ x.pc # "turned_away"
    BY <1>1, <1>2, <1>7, <2>1 DEF ReadSelf, State
  <2> HIDE DEF x
  <2> QED
    BY <1>4, <2>2, <2>3
<1>8. ASSUME NEW c \in Client, Answer(c) PROVE \A d \in Client : WentRound(client'[d])
  <2> DEFINE x == [client[c] EXCEPT !.pc = "answered"]
  <2>1. Becomes(c, x)
    BY <1>8, AnswerIs
  <2>2. x.tried = <<>> /\ IsInjective(x.list) /\ x.pc # "turned_away"
    BY <1>1, <1>2, <1>8 DEF Answer, State
  <2> HIDE DEF x
  <2> QED
    BY <1>4, <2>1, <2>2
<1>9. ASSUME NEW c \in Client, Draw(c) PROVE \A d \in Client : WentRound(client'[d])
  <2> DEFINE x == [client[c] EXCEPT !.pc = "trying", !.start = next]
  <2>1. Becomes(c, x)
    BY <1>9, DrawIs
  <2>2. x.tried = <<>> /\ IsInjective(x.list) /\ x.pc # "turned_away"
    BY <1>1, <1>2, <1>9 DEF Draw, State
  <2> HIDE DEF x
  <2> QED
    BY <1>4, <2>1, <2>2
<1>10. ASSUME NEW c \in Client, NEW accepts \in BOOLEAN, Try(c, accepts)
       PROVE  \A d \in Client : WentRound(client'[d])
  BY <1>1, <1>3, <1>10, TryIs, TryGoesRound
<1>11. ASSUME NEW c \in Client, TurnAway(c) PROVE \A d \in Client : WentRound(client'[d])
  <2> DEFINE x == [client[c] EXCEPT !.pc = "turned_away"]
  <2>1. Becomes(c, x)
    BY <1>11, TurnAwayIs
  <2>2. /\ x.tried = client[c].tried /\ x.list = client[c].list
        /\ x.start = client[c].start /\ x.pc = "turned_away"
    BY <1>1 DEF State
  <2>3. Len(client[c].tried) = Len(client[c].list)
    <3>1. Len(client[c].tried) \in Nat /\ Len(client[c].list) \in Nat
      BY <1>1, LenProperties DEF State
    <3>2. /\ Len(client[c].tried) <= Len(client[c].list)
          /\ ~(Len(client[c].tried) < Len(client[c].list))
      BY <1>1, <1>11 DEF WentRound, TurnAway, HasTries
    <3> QED
      BY <3>1, <3>2
  <2> HIDE DEF x
  <2>4. WentRound(x)
    BY <1>1, <2>2, <2>3 DEF WentRound
  <2> QED
    BY <1>3, <2>1, <2>4
<1>12. ASSUME client' = client PROVE \A d \in Client : WentRound(client'[d])
  BY <1>1, <1>12
<1> QED
  BY <1>5, <1>6, <1>7, <1>8, <1>9, <1>10, <1>11, <1>12 DEF Next, Learn, SetReady, vars

\* What the waiting clients have found stays right, whatever changes meanwhile.
LEMMA NextSeen ==
    ASSUME Typed, next \in Nat, \A c \in Client : Seen(c), [Next]_vars
    PROVE  \A c \in Client : Seen(c)'
<1>1. ASSUME NEW c \in Client, NEW x, Becomes(c, x), ready' = ready, table' = table,
             \A d \in Client : d # c => ever'[d] = ever[d] /\ always'[d] = always[d],
             Seen(c)'
      PROVE  \A d \in Client : Seen(d)'
  BY <1>1 DEF Seen, Becomes, Can
<1>2. ASSUME NEW c \in Client, NEW x, Becomes(c, x), ready' = ready, table' = table,
             \A d \in Client : d # c => ever'[d] = ever[d] /\ always'[d] = always[d],
             x.pc \notin {"table", "self"}
      PROVE  \A d \in Client : Seen(d)'
  <2>1. Seen(c)'
    BY <1>2 DEF Seen, Becomes
  <2> QED
    BY <1>1, <1>2, <2>1
<1>3. ASSUME NEW t, NEW r, Witness(t, r), t = table', r = ready', client' = client
      PROVE  \A c \in Client : Seen(c)'
  <2> SUFFICES ASSUME NEW c \in Client PROVE Seen(c)'
    OBVIOUS
  <2>1. CASE client[c].pc \in {"table", "self"}
    <3>1. ever'[c] = ever[c] \union Can(c)' /\ always'[c] = always[c] \intersect Can(c)'
      BY <1>3, <2>1 DEF Witness, Can
    <3>2. IpsOf(ever[c]) \subseteq IpsOf(ever'[c])
      BY <3>1 DEF IpsOf
    <3>3. IpsOf(always'[c] \ {Self}) \subseteq IpsOf(always[c] \ {Self})
      BY <3>1 DEF IpsOf
    <3> QED
      BY <1>3, <3>1, <3>2, <3>3 DEF Seen
  <2>2. CASE client[c].pc \notin {"table", "self"}
    BY <1>3, <2>2 DEF Seen
  <2> QED
    BY <2>1, <2>2
<1>4. ASSUME NEW c \in Client, Accept(c) PROVE \A d \in Client : Seen(d)'
  <2> DEFINE x == [client[c] EXCEPT !.pc = "table"]
  <2>1. Becomes(c, x) /\ client'[c].pc = "table"
    BY <1>4, AcceptIs DEF Becomes, Typed, State
  <2>2. /\ ever' = [ever EXCEPT ![c] = Can(c)]
        /\ always' = [always EXCEPT ![c] = ever'[c]] /\ ready' = ready /\ table' = table
    BY <1>4 DEF Accept, Can
  <2>3. /\ ever'[c] = Can(c) /\ always'[c] = Can(c)
        /\ \A d \in Client : d # c => ever'[d] = ever[d] /\ always'[d] = always[d]
    BY <2>2 DEF Typed
  <2>4. Seen(c)'
    BY <2>1, <2>2, <2>3 DEF Seen, Can
  <2> HIDE DEF x
  <2> QED
    BY <1>1, <2>1, <2>2, <2>3, <2>4
<1>5. ASSUME NEW c \in Client, ReadTable(c) PROVE \A d \in Client : Seen(d)'
  <2> DEFINE x == [client[c] EXCEPT !.pc = "self", !.found = Found(c)]
  <2>1. Becomes(c, x) /\ client'[c].pc = "self" /\ client'[c].found = Found(c)
    <3>1. client[c] \in State /\ Becomes(c, x)
      BY <1>5, ReadTableIs DEF Typed
    <3>2. x.pc = "self" /\ x.found = Found(c)
      BY <3>1 DEF State
    <3> HIDE DEF x
    <3> QED
      BY <3>1, <3>2 DEF Becomes
  <2>2. ever' = ever /\ always' = always /\ ready' = ready /\ table' = table
    BY <1>5 DEF ReadTable
  <2>3. always[c] \subseteq Can(c) /\ Can(c) \subseteq ever[c]
    BY <1>5 DEF Seen, ReadTable
  <2>4. Can(c) \ {Self} = ReadyPeers(table) \intersect Wants[c]
    BY MemberAssumption DEF Can, Serves, ReadyPeers, Peer
  <2>5. Found(c) \subseteq IpsOf(ever[c])
    BY <2>3, <2>4 DEF Found, IpsOf
  <2>6. IpsOf(always[c] \ {Self}) \subseteq Found(c)
    BY <2>3, <2>4 DEF Found, IpsOf
  <2>7. Seen(c)'
    BY <2>1, <2>2, <2>3, <2>5, <2>6 DEF Seen, Can
  <2> HIDE DEF x
  <2> QED
    BY <1>1, <2>1, <2>2, <2>7
<1>6. ASSUME NEW c \in Client, ReadSelf(c) PROVE \A d \in Client : Seen(d)'
  <2>1. PICK l \in Seq(IpsOf(Member)) :
            Becomes(c, [client[c] EXCEPT !.pc = "listed", !.found = {}, !.list = l])
    BY <1>6, ReadSelfIs
  <2> DEFINE x == [client[c] EXCEPT !.pc = "listed", !.found = {}, !.list = l]
  <2>2. Becomes(c, x) /\ x.pc \notin {"table", "self"}
    BY <2>1 DEF Typed, State
  <2>3. /\ \A d \in Client : d # c => ever'[d] = ever[d] /\ always'[d] = always[d]
        /\ ready' = ready /\ table' = table
    BY <1>6 DEF Typed, ReadSelf
  <2> HIDE DEF x
  <2> QED
    BY <1>2, <2>2, <2>3
<1>7. ASSUME NEW c \in Client, Answer(c) PROVE \A d \in Client : Seen(d)'
  <2> DEFINE x == [client[c] EXCEPT !.pc = "answered"]
  <2>1. Becomes(c, x) /\ x.pc \notin {"table", "self"}
    BY <1>7, AnswerIs DEF Typed, State
  <2> HIDE DEF x
  <2> QED
    BY <1>2, <1>7, <2>1 DEF Answer
<1>8. ASSUME NEW c \in Client, Draw(c) PROVE \A d \in Client : Seen(d)'
  <2> DEFINE x == [client[c] EXCEPT !.pc = "trying", !.start = next]
  <2>1. Becomes(c, x) /\ x.pc \notin {"table", "self"}
    BY <1>8, DrawIs DEF Typed, State
  <2> HIDE DEF x
  <2> QED
    BY <1>2, <1>8, <2>1 DEF Draw
<1>9. ASSUME NEW c \in Client, NEW accepts \in BOOLEAN, Try(c, accepts)
      PROVE  \A d \in Client : Seen(d)'
  <2> DEFINE x == [client[c] EXCEPT !.pc = IF accepts THEN "forwarding" ELSE "trying",
                                    !.tried = Append(client[c].tried, Backend(c))]
  <2>1. Becomes(c, x) /\ x.pc \notin {"table", "self"}
    BY <1>9, TryIs DEF Typed, State
  <2> HIDE DEF x
  <2> QED
    BY <1>2, <1>9, <2>1 DEF Try
<1>10. ASSUME NEW c \in Client, TurnAway(c) PROVE \A d \in Client : Seen(d)'
  <2> DEFINE x == [client[c] EXCEPT !.pc = "turned_away"]
  <2>1. Becomes(c, x) /\ x.pc \notin {"table", "self"}
    BY <1>10, TurnAwayIs DEF Typed, State
  <2> HIDE DEF x
  <2> QED
    BY <1>2, <1>10, <2>1 DEF TurnAway
<1>11. ASSUME NEW m \in Peer, NEW b \in Belief, Learn(m, b) PROVE \A d \in Client : Seen(d)'
  <2>1. PICK t : t = table'
    OBVIOUS
  <2> QED
    BY <1>3, <1>11, <2>1 DEF Learn
<1>12. ASSUME NEW r \in BOOLEAN, SetReady(r) PROVE \A d \in Client : Seen(d)'
  BY <1>3, <1>12 DEF SetReady
<1>13. CASE UNCHANGED vars
  BY <1>13 DEF Seen, Can, vars
<1> QED
  BY <1>4, <1>5, <1>6, <1>7, <1>8, <1>9, <1>10, <1>11, <1>12, <1>13 DEF Next

LEMMA InitIInv == ASSUME Init PROVE IInv
<1>1. New \in State /\ New.pc = "new" /\ New.tried = <<>> /\ New.list = <<>>
  <2>1. <<>> \in Seq(IpsOf(Member))
    BY EmptySeq
  <2> QED
    BY <2>1 DEF New, State
<1>2. \A c \in Client : client[c] = New
  BY DEF Init
<1>3. Typed
  BY <1>1 DEF Init, Typed
<1>4. Counted
  <2>1. Drawn = {}
    BY <1>1, <1>2 DEF Drawn, Drew
  <2>2. IsFiniteSet({}) /\ Cardinality({}) = 0
    BY FS_EmptySet
  <2> QED
    BY <2>1, <2>2 DEF Counted, Init
<1>5. \A c \in Client : WentRound(client[c])
  <2>1. New.list \in Seq(IpsOf(Member)) /\ DOMAIN New.list = {}
    BY <1>1, EmptySeq
  <2>2. WentRound(New)
    BY <1>1, <2>1, Untried DEF IsInjective
  <2> QED
    BY <1>2, <2>2
<1>6. \A c \in Client : Seen(c)
  BY <1>1, <1>2 DEF Seen
<1> QED
  BY <1>3, <1>4, <1>5, <1>6 DEF IInv

LEMMA NextIInv == ASSUME IInv, [Next]_vars PROVE IInv'
<1>1. next \in Nat
  BY FS_CardinalityType DEF IInv, Counted
<1>2. Typed' /\ Counted'
  BY <1>1, NextTyped, NextCounted DEF IInv
<1>3. \A c \in Client : WentRound(client'[c])
  BY <1>1, NextRound DEF IInv
<1>4. \A c \in Client : Seen(c)'
  BY <1>1, NextSeen DEF IInv
<1> QED
  BY <1>2, <1>3, <1>4 DEF IInv

\* The invariant behind the others holds in every reachable state.
THEOREM Invariance == Spec => []IInv
BY InitIInv, NextIInv, PTL DEF Spec

-----------------------------------------------------------------------------
(* What follows.                                                            *)

\* Every variable keeps its type, the round robin's counter holds how many clients have
\* drawn, and nobody has more tries than backends.
THEOREM TypeCorrect == Spec => []TypeOK
<1>1. IInv => TypeOK
  BY DEF IInv, Typed, Counted, WentRound, Drawn, TypeOK
<1> QED
  BY <1>1, Invariance, PTL

LEMMA TriesDiffer ==
    ASSUME IInv, NEW c \in Client
    PROVE  IsInjective(client[c].tried)
<1> DEFINE r == client[c]
<1>1. r \in State /\ WentRound(r)
  BY DEF IInv, Typed
<1> HIDE DEF r
<1>2. /\ r.start \in Nat /\ Len(r.tried) \in Nat /\ Len(r.list) \in Nat
      /\ DOMAIN r.tried = 1 .. Len(r.tried) /\ DOMAIN r.list = 1 .. Len(r.list)
  BY <1>1, LenProperties DEF State
<1>3. Len(r.tried) <= Len(r.list) /\ IsInjective(r.list)
  BY <1>1 DEF WentRound
<1>4. ASSUME NEW j \in 1 .. Len(r.tried), NEW k \in 1 .. Len(r.tried), j < k
      PROVE  r.tried[j] # r.tried[k]
  <2> DEFINE n == Len(r.list)
             a == (r.start + j - 1) % n
             b == (r.start + k - 1) % n
  <2>1. n \in Nat \ {0}
    BY <1>2, <1>3, <1>4
  <2>2. /\ r.start + j - 1 \in Nat /\ r.start + k - 1 \in Nat
        /\ r.start + j - 1 < r.start + k - 1
        /\ (r.start + k - 1) - (r.start + j - 1) < n
    <3>1. PICK s \in Nat : s = r.start
      BY <1>2
    <3>2. j \in Nat /\ k \in Nat /\ j >= 1 /\ j < k /\ k <= n /\ n \in Nat
      BY <1>2, <1>3, <1>4
    <3> HIDE DEF n
    <3>3. /\ s + j - 1 \in Nat /\ s + k - 1 \in Nat /\ s + j - 1 < s + k - 1
          /\ (s + k - 1) - (s + j - 1) < n
      BY <3>2
    <3> QED
      BY <3>1, <3>3
  <2>3. r.tried[j] = r.list[a + 1] /\ r.tried[k] = r.list[b + 1]
    BY <1>1 DEF WentRound
  <2> HIDE DEF n
  <2>4. a # b /\ a \in 0 .. n - 1 /\ b \in 0 .. n - 1
    BY <2>1, <2>2, Apart, Divided
  <2> HIDE DEF a, b
  <2>5. a + 1 \in 1 .. n /\ b + 1 \in 1 .. n /\ a + 1 # b + 1
    BY <2>1, <2>4
  <2>6. a + 1 \in DOMAIN r.list /\ b + 1 \in DOMAIN r.list
    BY <1>2, <2>5 DEF n
  <2> QED
    BY <1>3, <2>3, <2>5, <2>6 DEF IsInjective
<1>5. ASSUME NEW j \in DOMAIN r.tried, NEW k \in DOMAIN r.tried, r.tried[j] = r.tried[k]
      PROVE  j = k
  BY <1>2, <1>4, <1>5
<1> QED
  BY <1>5 DEF IsInjective, r

LEMMA TriesAreListed ==
    ASSUME IInv, NEW c \in Client
    PROVE  Range(client[c].tried) \subseteq Range(client[c].list)
<1> DEFINE r == client[c]
<1>1. r \in State /\ WentRound(r)
  BY DEF IInv, Typed
<1> HIDE DEF r
<1>2. /\ r.start \in Nat /\ Len(r.tried) \in Nat /\ Len(r.list) \in Nat
      /\ DOMAIN r.tried = 1 .. Len(r.tried) /\ DOMAIN r.list = 1 .. Len(r.list)
  BY <1>1, LenProperties DEF State
<1>3. ASSUME NEW k \in 1 .. Len(r.tried) PROVE r.tried[k] \in Range(r.list)
  <2> DEFINE n == Len(r.list)
             a == (r.start + k - 1) % n
  <2>1. n \in Nat \ {0} /\ r.start + k - 1 \in Nat
    <3>1. Len(r.tried) <= Len(r.list)
      BY <1>1 DEF WentRound
    <3> QED
      BY <1>2, <3>1
  <2>2. r.tried[k] = r.list[a + 1]
    BY <1>1 DEF WentRound
  <2> HIDE DEF n
  <2>3. a \in 0 .. n - 1
    BY <2>1, Divided
  <2> HIDE DEF a
  <2>4. a + 1 \in DOMAIN r.list
    BY <1>2, <2>1, <2>3 DEF n
  <2> QED
    BY <2>2, <2>4 DEF Range
<1> QED
  BY <1>2, <1>3 DEF Range, r

\* Every backend gets one try: no client tries one twice, and a client that is turned
\* away has tried its whole list, wherever on the round the others made it start.
THEOREM OneTry == Spec => []OneTryEach
<1>1. ASSUME IInv, NEW c \in Client, client[c].pc = "turned_away"
      PROVE  Range(client[c].tried) = Range(client[c].list)
  <2> DEFINE tried == client[c].tried
             list == client[c].list
             n == Len(list)
  <2>1. tried \in Seq(IpsOf(Member)) /\ list \in Seq(IpsOf(Member)) /\ WentRound(client[c])
    BY <1>1 DEF IInv, Typed, State
  <2>2. Len(tried) = n /\ n \in Nat /\ IsInjective(list)
    BY <1>1, <2>1, LenProperties DEF WentRound
  <2>3. DOMAIN tried = 1 .. n /\ DOMAIN list = 1 .. n
    BY <2>1, <2>2, LenProperties
  <2>4. IsInjective(tried) /\ Range(tried) \subseteq Range(list)
    BY <1>1, TriesDiffer, TriesAreListed
  <2>5. IsFiniteSet(1 .. n) /\ Cardinality(1 .. n) = n
    <3> HIDE DEF n
    <3> QED
      BY <2>2, FS_Interval
  <2>6. list = [i \in DOMAIN list |-> list[i]] /\ tried = [i \in DOMAIN tried |-> tried[i]]
    BY <2>1
  <2> HIDE DEF tried, list, n
  <2>7. list \in Surjection(1 .. n, Range(list)) /\ list \in Injection(1 .. n, Range(list))
    BY <2>2, <2>3, <2>6 DEF Surjection, Injection, Range, IsInjective
  <2>8. IsFiniteSet(Range(list)) /\ Cardinality(Range(list)) = n
    BY <2>5, <2>7, FS_Surjection
  <2>9. tried \in Injection(1 .. n, Range(list))
    BY <2>3, <2>4, <2>6 DEF Injection, Range, IsInjective
  <2>10. tried \in Surjection(1 .. n, Range(list))
    BY <2>5, <2>8, <2>9, FS_Injection
  <2>11. Range(tried) = Range(list)
    BY <2>3, <2>10 DEF Surjection, Range
  <2> QED
    BY <2>11 DEF tried, list
<1>2. IInv => OneTryEach
  BY <1>1, TriesDiffer DEF OneTryEach
<1> QED
  BY <1>2, Invariance, PTL

\* Clients with the same list that are fewer draws apart than it is long try different
\* backends first, however many others draw between them.
THEOREM Spread == Spec => []RoundRobin
<1>1. ASSUME IInv, NEW c \in Client, NEW d \in Client, c # d,
             client[c].tried # <<>>, client[d].tried # <<>>,
             client[c].list = client[d].list, client[c].start <= client[d].start,
             client[d].start - client[c].start < Len(client[c].list)
      PROVE  client[c].tried[1] # client[d].tried[1]
  <2> DEFINE list == client[c].list
             n == Len(list)
             a == client[c].start
             b == client[d].start
  <2>1. client[c] \in State /\ client[d] \in State
        /\ WentRound(client[c]) /\ WentRound(client[d])
    BY <1>1 DEF IInv, Typed
  <2>2. c \in Drawn /\ d \in Drawn
    BY <1>1, <2>1 DEF WentRound, Drawn, Drew
  <2>3. a # b
    BY <1>1, <2>2 DEF IInv, Counted
  <2>4. /\ a \in Nat /\ b \in Nat /\ n \in Nat /\ list \in Seq(IpsOf(Member))
        /\ DOMAIN list = 1 .. n /\ IsInjective(list)
    BY <2>1, LenProperties DEF State, WentRound
  <2>5. a < b /\ b - a < n /\ n \in Nat \ {0}
    BY <1>1, <2>3, <2>4
  <2>6. 1 \in 1 .. Len(client[c].tried) /\ 1 \in 1 .. Len(client[d].tried)
    BY <1>1, <2>1, EmptySeq, LenProperties DEF State
  <2>7. /\ client[c].tried[1] = list[((a + 1 - 1) % n) + 1]
        /\ client[d].tried[1] = list[((b + 1 - 1) % n) + 1]
    BY <1>1, <2>1, <2>6 DEF WentRound
  <2>8. a + 1 - 1 = a /\ b + 1 - 1 = b
    BY <2>4
  <2> HIDE DEF a, b, n, list
  <2>9. a % n # b % n /\ a % n \in 0 .. n - 1 /\ b % n \in 0 .. n - 1
    BY <2>4, <2>5, Apart, Divided
  <2>10. PICK i \in 0 .. n - 1, j \in 0 .. n - 1 : i = a % n /\ j = b % n
    BY <2>9
  <2>11. i + 1 \in DOMAIN list /\ j + 1 \in DOMAIN list /\ i + 1 # j + 1
    BY <2>4, <2>9, <2>10
  <2>12. list[i + 1] # list[j + 1]
    BY <2>4, <2>11 DEF IsInjective
  <2> QED
    BY <2>7, <2>8, <2>10, <2>12
<1>2. IInv => RoundRobin
  BY <1>1 DEF RoundRobin
<1> QED
  BY <1>2, Invariance, PTL

\* What a client finds on its list is of members that could take its work at some time
\* since it came, and whoever could all the time is there.
THEOREM Fresh == Spec => ListIsCurrent
<1>1. ASSUME IInv, NEW c \in Client, ReadSelf(c)
      PROVE  /\ Range(client'[c].list) \subseteq IpsOf(ever[c])
             /\ IpsOf(always[c]) \subseteq Range(client'[c].list)
  <2>1. PICK l \in Seq(IpsOf(Member)) :
            /\ Range(l) = client[c].found \union Own(c)
            /\ Becomes(c, [client[c] EXCEPT !.pc = "listed", !.found = {}, !.list = l])
    BY <1>1, ReadSelfIs DEF IInv
  <2>2. client'[c].list = l
    BY <1>1, <2>1 DEF Becomes, IInv, Typed, State
  <2>3. /\ always[c] \subseteq Can(c) /\ Can(c) \subseteq ever[c]
        /\ client[c].found \subseteq IpsOf(ever[c])
        /\ IpsOf(always[c] \ {Self}) \subseteq client[c].found
    BY <1>1 DEF IInv, Seen, ReadSelf
  <2>4. Own(c) = IF Self \in Can(c) THEN {Ip[Self]} ELSE {}
    BY DEF Own, Can, Serves
  <2>5. Own(c) \subseteq IpsOf(ever[c])
    BY <2>3, <2>4 DEF IpsOf
  <2>6. IpsOf(always[c]) \subseteq client[c].found \union Own(c)
    BY <2>3, <2>4 DEF IpsOf
  <2> QED
    BY <2>1, <2>2, <2>3, <2>5, <2>6
<1>2. IInv /\ [Next]_vars =>
        [\A c \in Client : ReadSelf(c) =>
            /\ Range(client'[c].list) \subseteq IpsOf(ever[c])
            /\ IpsOf(always[c]) \subseteq Range(client'[c].list)]_vars
  BY <1>1
<1> QED
  BY <1>2, Invariance, PTL DEF Spec, ListIsCurrent
=============================================================================
