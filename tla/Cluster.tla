-------------------------------- MODULE Cluster --------------------------------
(***************************************************************************)
(* Many agents and the repair of what they believe: syncs (sync.rs) beside *)
(* gossip that may always be lost, joins, the detectors' marks and reaps,  *)
(* refutations, leaves and crashes.                                        *)
(*                                                                         *)
(* Each handler is one step here: Membership has the steps between its     *)
(* locks, Detector its timers, Startup its connections.  Who talks to    *)
(* whom is the code's: an agent only ever addresses members it does not    *)
(* hold dead.                                                              *)
(***************************************************************************)
EXTENDS MemberRecord, FiniteSets

CONSTANTS
    First,   \* the processes started without seeds
    Doubts,  \* whom of the running each agent may fail to reach
    Mortal   \* the processes that may stop; in the code all, and all of each other

ASSUME FirstAssumption == First \subseteq Node
ASSUME DoubtsAssumption == Doubts \subseteq Node \X Node

VARIABLES
    started,      \* the processes that have started
    up,           \* those still running
    incarnation,  \* LocalNode.incarnation of each
    table         \* table[n][m]: what n believes of m

vars == <<started, up, incarnation, table>>

Belief(inc, s) == [incarnation |-> inc, state |-> s]
Entry == {NoEntry} \union [incarnation : Incarnation, state : {"alive", "suspect", "dead"}]
Empty == [m \in Node |-> NoEntry]

\* A mutant: a partner is any member.
Addresses_Any(n) == {m \in Node : table[n][m] # NoEntry}

\* Those n sends to on its own account (random_member, next_target,
\* relay_candidates, announce_leave): it skips the dead.
Addresses(n) == {m \in Node : table[n][m] # NoEntry /\ table[n][m].state # "dead"}

\* n and m exchange messages: one pings the other, or relays a third one's probe
\* of it, to a target it has any record of (handle_ping_req).
Meet(n, m) ==
    \/ m \in Addresses(n) \/ n \in Addresses(m)
    \/ \E k \in up : {n, m} \subseteq Addresses(k)
                     /\ (table[n][m] # NoEntry \/ table[m][n] # NoEntry)

\* A whole table and its owner's identity, by subject.
Told(n) == [table[n] EXCEPT ![n] = Belief(incarnation[n], "alive")]

\* One record and no other.
Only(k, entry) == [Empty EXCEPT ![k] = entry]

\* A mutant: news of oneself is merged like any other.
Learned_Self(n, news) ==
    [m \in Node |-> IF news[m] = NoEntry THEN table[n][m] ELSE Merge(table[n][m], news[m])]

\* What applying news makes of a table.
Learned(n, news) ==
    [m \in Node |-> IF m = n \/ news[m] = NoEntry THEN table[n][m]
                    ELSE Merge(table[n][m], news[m])]

\* A mutant: only a death is refuted.
Refuted_Deaths(n, news) ==
    IF news[n] # NoEntry /\ news[n].state = "dead"
       /\ news[n].incarnation >= incarnation[n]
    THEN Superseding(news[n].incarnation) ELSE incarnation[n]

\* And of an incarnation, where the news has its owner suspect or dead.
Refuted(n, news) ==
    IF news[n] # NoEntry /\ news[n].state # "alive"
       /\ news[n].incarnation >= incarnation[n]
    THEN Superseding(news[n].incarnation) ELSE incarnation[n]

\* n applies news, record by record.
Apply(n, news) ==
    /\ table' = [table EXCEPT ![n] = Learned(n, news)]
    /\ incarnation' = [incarnation EXCEPT ![n] = Refuted(n, news)]

Init ==
    /\ started = First
    /\ up = First
    /\ incarnation = [n \in Node |-> 0]
    /\ table = [n \in Node |-> Empty]

-----------------------------------------------------------------------------

\* A process starts, and joins through a running one.
Join(n, seed) ==
    /\ n \notin started /\ seed \in up
    /\ started' = started \union {n}
    /\ up' = up \union {n}
    /\ table' = [table EXCEPT
          ![n] = Learned(n, Told(seed)),
          ![seed] = Learned(seed, Only(n, Belief(incarnation[n], "alive")))]
    /\ UNCHANGED incarnation

\* A packet's rumor, if it arrives.
Gossip(n, m, k) ==
    /\ {n, m} \subseteq up /\ n # m /\ Meet(n, m)
    /\ Apply(m, Only(k, Told(n)[k]))
    /\ UNCHANGED <<started, up>>

\* What the partner answers, before it applies what it is told.
Answer(m) == Told(m)

\* sync_with, whose reply may be lost.
Sync(n, m, answered) ==
    /\ {n, m} \subseteq up /\ m \in Addresses(n)
    /\ table' = [table EXCEPT
          ![n] = IF answered THEN Learned(n, Answer(m)) ELSE @,
          ![m] = Learned(m, Told(n))]
    /\ incarnation' = [incarnation EXCEPT
          ![n] = IF answered THEN Refuted(n, Answer(m)) ELSE @,
          ![m] = Refuted(m, Told(n))]
    /\ UNCHANGED <<started, up>>

\* n's detector marks m: suspect after a failed probe, dead after a suspicion.
\* MaxIncarnation bounds how often a running process is marked.
Mark(n, m, s) ==
    /\ n \in up /\ table[n][m] # NoEntry
    /\ <<table[n][m].state, s>> \in {<<"alive", "suspect">>, <<"suspect", "dead">>}
    /\ m \in up => <<n, m>> \in Doubts /\ table[n][m].incarnation < MaxIncarnation
    /\ Apply(n, Only(m, Belief(table[n][m].incarnation, s)))
    /\ UNCHANGED <<started, up>>

\* reap_dead.
Reap(n, m) ==
    /\ n \in up /\ table[n][m] # NoEntry /\ table[n][m].state = "dead"
    /\ table' = [table EXCEPT ![n][m] = NoEntry]
    /\ UNCHANGED <<started, up, incarnation>>

\* A process is killed, or leaves and tells members that it does.
Stop(n, told) ==
    /\ n \in up \intersect Mortal /\ told \subseteq Addresses(n) \intersect up
    /\ up' = up \ {n}
    /\ table' = [m \in Node |->
          IF m = n THEN Empty
          ELSE IF m \in told
               THEN Learned(m, Only(n, Belief(incarnation[n], "dead")))
               ELSE table[m]]
    /\ UNCHANGED <<started, incarnation>>

Next ==
    \/ \E n, m \in Node :
        \/ Join(n, m)
        \/ \E k \in Node : Gossip(n, m, k)
        \/ \E answered \in BOOLEAN : Sync(n, m, answered)
        \/ Mark(n, m, "suspect")
        \/ Mark(n, m, "dead")
        \/ Reap(n, m)
    \/ \E n \in Node, told \in SUBSET Node : Stop(n, told)

\* Syncs go on, and random_member picks every member it can time and again; a
\* detector marks what has stopped.  Nothing else is sure to happen.
Detects(n, m) == m \notin up /\ (Mark(n, m, "suspect") \/ Mark(n, m, "dead"))
Fairness ==
    \A n, m \in Node : SF_vars(Sync(n, m, TRUE)) /\ WF_vars(Detects(n, m))

Spec == Init /\ [][Next]_vars /\ Fairness

-----------------------------------------------------------------------------
(* Properties.                                                              *)

\* Types; nobody has an entry for itself, and the stopped have no memory.
TypeOK ==
    /\ started \subseteq Node /\ up \subseteq started
    /\ incarnation \in [Node -> Incarnation]
    /\ table \in [Node -> [Node -> Entry]]
    /\ \A n \in Node :
          /\ table[n][n] = NoEntry
          /\ n \notin up => table[n] = Empty

HoldsUp(n, m) == table[n][m] # NoEntry /\ table[n][m].state # "dead"

\* Every process on one side has those on the other dead, or no record of them.
Apart(side) ==
    \A n \in up \intersect side, m \in up \ side : ~HoldsUp(n, m) /\ ~HoldsUp(m, n)

\* A member nobody sends to is not heard of again (state.rs, random_member;
\* detector.rs, next_target): two sides that hold each other dead, or have
\* forgotten each other, stay apart until another process joins, however well the
\* network is and however much each side says and refutes.  No message is under way
\* between two steps here: one that still was could yet cross.
SplitIsFinal ==
    [][\A side \in SUBSET Node : Apart(side) /\ up' \subseteq up => Apart(side)']_vars

\* Everybody believes of the running what they say, and of the stopped that they
\* are dead, if anything.
Right(n, m) ==
    IF m \in up THEN table[n][m] = Belief(incarnation[m], "alive")
    ELSE ~HoldsUp(n, m)
Agreed == \A n \in up, m \in Node : n # m => Right(n, m)

Linked ==
    \A side \in SUBSET Node :
        up \intersect side # {} /\ up \ side # {} => ~Apart(side)

\* What the repair has to put right: a running process is marked, or an entry is
\* reaped that some other would bring back.
Believed(m) == \E n \in up : HoldsUp(n, m)
Disturbance ==
    \/ \E n \in Node, m \in up : Mark(n, m, "suspect") \/ Mark(n, m, "dead")
    \/ \E n, m \in Node : Reap(n, m) /\ (m \in up \/ Believed(m))

\* "Saying everything again is always safe and always enough" (sync.rs,
\* start_sync_loop), as far as it is true: while all running processes are linked
\* by members they do not hold dead, once the disturbances end everybody comes to
\* believe what is so, though no gossip need arrive and any sync may fail.
Converges ==
    /\ <>[][~Disturbance]_vars
    /\ <>[]Linked
    => <>[]Agreed

\* The same sentence as it stands, for "a node that was partitioned while the rumor
\* was live".
Repairs == <>[][~Disturbance]_vars => <>[]Agreed
=============================================================================
