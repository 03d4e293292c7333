----------------------------- MODULE GossipQueue -----------------------------
(***************************************************************************)
(* The gossip queue of one agent (dissemination.rs): rumors with the sends *)
(* they have left, pushed by the tasks that merge news and taken by every  *)
(* outgoing ping, ack and ping-req.  Each call runs under the queue's lock *)
(* and is one step.                                                        *)
(***************************************************************************)
EXTENDS Naturals, Sequences, FiniteSets

CONSTANTS
    Subject,        \* who the rumors are about
    Version,        \* tells rumors about one subject apart
    None,           \* not a version
    ClusterSize,    \* the sizes of the cluster that pushes may see
    MaxPiggyback    \* rumors on one packet, MAX_PIGGYBACK

RetransmitMult == 3

ASSUME SizeAssumption == ClusterSize \subseteq Nat
ASSUME PiggybackAssumption == MaxPiggyback \in Nat \ {0}
ASSUME NoneAssumption == None \notin Version

VARIABLES
    queue,    \* the pending rumors, in the order of the code's vector
    sent,     \* how often the last rumor pushed about each subject was sent,
              \* counted up to one past the budget, which none should reach
    budget    \* the sends it was pushed with

vars == <<queue, sent, budget>>

-----------------------------------------------------------------------------
\* ceil(log2(n)): the exponent of the next power of two is the number of smaller ones.
Log2(n) == Cardinality({j \in 0 .. n : 2 ^ j < n})

\* At least one round, even alone.
RetransmitLimit(n) == RetransmitMult * (IF Log2(n) > 1 THEN Log2(n) ELSE 1)

\* retain: what the queue has at these places, in its order.
Kept(q, places) ==
    LET Before(i) == {j \in places : j < i}
    IN  [k \in 1 .. Cardinality(places) |->
            q[CHOOSE i \in places : Cardinality(Before(i)) = k - 1]]

\* A mutant: only the very same rumor gives way.
About_SameRumor(p, s, v) == p.subject = s /\ p.version = v

\* The pending rumors a push replaces.
About(p, s, v) == p.subject = s

\* A mutant: the queue is left in the order of the pushes.
Sorted_Not(q) == q

\* A mutant: what does not fit on the packet is dropped.
Sorted_Truncated(q) == [k \in {i \in DOMAIN q : i <= MaxPiggyback} |-> q[k]]

\* Most sends left first; the sort is stable.
Sorted(q) ==
    LET Before(i) == {j \in DOMAIN q :
                         \/ q[j].left > q[i].left
                         \/ q[j].left = q[i].left /\ j < i}
    IN  [k \in DOMAIN q |->
            q[CHOOSE i \in DOMAIN q : Cardinality(Before(i)) = k - 1]]

\* A mutant: the last send is never made.
StillOwed_OffByOne(p) == p.left > 1

\* A mutant: rumors that are spent stay.
StillOwed_Always(p) == TRUE

\* What take keeps.
StillOwed(p) == p.left > 0

\* A mutant: a send costs nothing.
Charged_Free(p) == p

\* One send of a pending rumor.
Charged(p) == [p EXCEPT !.left = @ - 1]

Init ==
    /\ queue = <<>>
    /\ sent = [s \in Subject |-> 0]
    /\ budget = [s \in Subject |-> 0]

Push(s, v, size) ==
    /\ queue' = Append(Kept(queue, {i \in DOMAIN queue : ~About(queue[i], s, v)}),
                       [subject |-> s, version |-> v, left |-> RetransmitLimit(size)])
    /\ sent' = [sent EXCEPT ![s] = 0]
    /\ budget' = [budget EXCEPT ![s] = RetransmitLimit(size)]

\* The subjects of the next batch.
Batch ==
    LET q == Sorted(queue)
    IN  {q[i].subject : i \in {i \in DOMAIN q : i <= MaxPiggyback}}

\* An empty batch changes nothing.
Take ==
    /\ queue # <<>>
    /\ LET q == Sorted(queue)
           charged == [i \in DOMAIN q |->
                          IF i <= MaxPiggyback THEN Charged(q[i]) ELSE q[i]]
       IN  queue' = Kept(charged, {i \in DOMAIN charged : StillOwed(charged[i])})
    /\ sent' = [s \in Subject |->
                  IF s \in Batch /\ sent[s] <= budget[s] THEN sent[s] + 1 ELSE sent[s]]
    /\ UNCHANGED budget

PushStep == \E s \in Subject, v \in Version, size \in ClusterSize : Push(s, v, size)

Next == PushStep \/ Take

\* Packets keep going out: the detector probes once a second as long as there is
\* anybody to probe, and every ping is answered.
Spec == Init /\ [][Next]_vars /\ WF_vars(Take)

-----------------------------------------------------------------------------
TypeOK ==
    /\ queue \in Seq([subject : Subject, version : Version, left : Nat \ {0}])
    /\ sent \in [Subject -> Nat]
    /\ budget \in [Subject -> Nat]

\* "Queue a rumor, replacing any older one about the same node" (push): never
\* two pending rumors about one node.
OnePerSubject ==
    \A i, j \in DOMAIN queue : queue[i].subject = queue[j].subject => i = j

\* A rumor is sent as often as the size of the cluster asked for when it was
\* pushed, and it leaves the queue at that send and not before, however pushes
\* of other rumors reorder the queue meanwhile.
SendsAddUp ==
    \A s \in Subject :
        \/ \E i \in DOMAIN queue :
              queue[i].subject = s /\ sent[s] + queue[i].left = budget[s]
        \/ /\ \A i \in DOMAIN queue : queue[i].subject # s
           /\ sent[s] = budget[s]

\* "Most sends left = sent the fewest times so far, i.e. the freshest news" (take),
\* among rumors pushed at the same size of the cluster: a packet never leaves behind
\* one of them that was sent less often than one it takes.
FreshestOfEqualsFirst ==
    [][Take => \A s \in Batch : \A i \in DOMAIN queue :
                  LET t == queue[i].subject
                  IN  t \in Batch \/ budget[s] # budget[t] \/ sent[s] <= sent[t]]_vars

\* "Rumors that have been sent enough times leave the queue" (take): once nothing
\* more is pushed, the queue drains.
Drains == <>[][~PushStep]_vars => <>[](queue = <<>>)

\* A queue keeps the promise Membership makes of it.
Owed == INSTANCE OwedRumors WITH
    owed <- [s \in Subject |->
                IF \E i \in DOMAIN queue : queue[i].subject = s
                THEN queue[CHOOSE i \in DOMAIN queue : queue[i].subject = s].version
                ELSE None],
    handed <- [s \in Subject |-> sent[s] > 0]
OwedSpec == Owed!Spec
=============================================================================
