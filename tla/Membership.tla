----------------------------- MODULE Membership -----------------------------
(***************************************************************************)
(* A cluster of dalila agents, at the grain of their locks.                *)
(*                                                                         *)
(* An agent is several tasks on a multi-threaded runtime that share three  *)
(* locked objects: the LocalNode (incarnation, ready, leaving), the        *)
(* MemberTable and the GossipQueue.  No lock is held from one call to the  *)
(* next, so dissemination::apply, the detector's sweep and its reap are    *)
(* sequences of steps here, with the task's locals between them.           *)
(*                                                                         *)
(* The network is the set of rumors in flight.  Every message is a list of *)
(* rumors that its receiver applies one by one, so a message is modelled   *)
(* by its rumors; a rumor stays in flight until the network loses it,      *)
(* which covers late, repeated and reordered delivery.  Time is abstracted *)
(* too: a probe fails, a suspicion expires and a dead entry comes of age   *)
(* at any moment.                                                          *)
(***************************************************************************)
EXTENDS MemberRecord, FiniteSets

CONSTANTS
    Subject,      \* the processes that make themselves known: all of them in the
                  \* code; fewer slice an instance down to the records about
                  \* these, since table and queue entries are independent
    Worker,       \* tasks that apply rumors: the UDP loop, the sync loop, joins
                  \* and every TCP connection being served
    Event,        \* what may happen to a process: all of AnyEvent in the code
    MaxInFlight   \* bound on the rumors in flight at once

ASSUME SubjectAssumption == Subject \subseteq Node

\* An app stops or resumes answering; a shutdown; the end of a process; a
\* suspicion or a death comes of age.
AnyEvent == {"health", "leave", "stop", "expiry"}
ASSUME EventAssumption == Event \subseteq AnyEvent

Task == Worker \union {"detector", "health"}

VARIABLES
    up,            \* the processes still running
    incarnation,   \* LocalNode.incarnation of each process
    leaving,       \* LocalNode.leaving
    ready,         \* LocalNode.ready
    table,         \* table[n][m]: what n believes of m
    queue,         \* queue[n][m]: the rumor about m that n owes the cluster
    task,          \* task[n][t]: where task t of n is, and the rumor it holds
    expired,       \* the entries a sweep of n's detector found and has yet to mark
    reaping,       \* the entries a reap of n's detector is about to remove
    wire           \* the rumors in flight

local == <<incarnation, leaving, ready>>
vars == <<up, incarnation, leaving, ready, table, queue, task, expired,
          reaping, wire>>

Idle == [pc |-> "idle", rumor |-> NoEntry]
At(pc, rumor) == [pc |-> pc, rumor |-> rumor]
Empty == [m \in Node |-> NoEntry]

Entry == Rumor \union {NoEntry}

\* Where a task is between two locks, and the rumor or copy it holds there.
TaskState == [pc : {"idle", "announce"}, rumor : {NoEntry}]
                \union [pc : {"refute", "push", "probe"}, rumor : Rumor]

\* Types, for every variable.
TypeOK ==
    /\ up \subseteq Node
    /\ incarnation \in [Node -> Incarnation]
    /\ leaving \in [Node -> BOOLEAN]
    /\ ready \in [Node -> BOOLEAN]
    /\ table \in [Node -> [Node -> Entry]]
    /\ queue \in [Node -> [Node -> Entry]]
    /\ task \in [Node -> [Task -> TaskState]]
    /\ expired \in [Node -> SUBSET Rumor]
    /\ reaping \in [Node -> SUBSET Node]
    /\ wire \subseteq Rumor

Init ==
    /\ up = Node
    /\ incarnation = [n \in Node |-> 0]
    /\ leaving = [n \in Node |-> FALSE]
    /\ ready = [n \in Node |-> TRUE]
    /\ table = [n \in Node |-> Empty]
    /\ queue = [n \in Node |-> Empty]
    /\ task = [n \in Node |-> [t \in Task |-> Idle]]
    /\ expired = [n \in Node |-> {}]
    /\ reaping = [n \in Node |-> {}]
    /\ wire = {}

\* A mutant: the rumor is built as Member::alive builds a member, always ready.
AliveRumor_AlwaysReady(n) == Record(n, incarnation[n], "alive", TRUE)

\* LocalNode::alive_rumor and ::identity: number and readiness as a pair.
AliveRumor(n) == Record(n, incarnation[n], "alive", ready[n])

IsIdle(n, t) == n \in up /\ task[n][t].pc = "idle"

\* A mutant: the tick does not wait for its probe, which runs as its own task.
DetectorFree_SpawnedProbe(n) ==
    n \in up /\ expired[n] = {} /\ reaping[n] = {}

\* The detector's loop is at the top of a part of its tick.
DetectorFree(n) ==
    IsIdle(n, "detector") /\ expired[n] = {} /\ reaping[n] = {}

-----------------------------------------------------------------------------
(* dissemination::apply: merge; then push what changed, or answer a rumor   *)
(* that this node is not alive.                                             *)

\* The call of table.merge, and where it leaves the task.
ApplyRumor(n, t, r) ==
    /\ table' = IF r.id = n THEN table
                ELSE [table EXCEPT ![n][r.id] = Merge(@, r)]
    /\ task' = [task EXCEPT ![n][t] =
                  IF r.id = n
                  THEN IF r.state = "alive" THEN Idle ELSE At("refute", r)
                  ELSE IF IsNews(table[n][r.id], r) THEN At("push", r)
                       ELSE Idle]

\* A mutant: nothing tells a leaving node apart.
Defends_Always(n) == TRUE

\* What refute and set_ready check under the incarnation's lock.
Defends(n) == ~leaving[n]

\* LocalNode::refute.  A leaving node lets the rumor stand.
Refute(n, t) ==
    /\ n \in up /\ task[n][t].pc = "refute"
    /\ \/ /\ ~Defends(n)
          /\ task' = [task EXCEPT ![n][t] = Idle]
          /\ UNCHANGED incarnation
       \/ /\ Defends(n)
          /\ LET rumored == task[n][t].rumor.incarnation IN
             incarnation' = [incarnation EXCEPT ![n] =
                IF rumored >= @ THEN Superseding(rumored) ELSE @]
          /\ task' = [task EXCEPT ![n][t] = At("announce", NoEntry)]
    /\ UNCHANGED <<up, leaving, ready, table, queue, expired, reaping, wire>>

\* LocalNode::alive_rumor, the argument of the push that follows.
Announce(n, t) ==
    /\ n \in up /\ task[n][t].pc = "announce"
    /\ task' = [task EXCEPT ![n][t] = At("push", AliveRumor(n))]
    /\ UNCHANGED <<up, local, table, queue, expired, reaping, wire>>

\* GossipQueue::push: the rumor replaces whatever was queued about that node.
Push(n, t) ==
    /\ n \in up /\ task[n][t].pc = "push"
    /\ queue' = [queue EXCEPT ![n][task[n][t].rumor.id] = task[n][t].rumor]
    /\ task' = [task EXCEPT ![n][t] = Idle]
    /\ UNCHANGED <<up, local, table, expired, reaping, wire>>

\* A worker takes a rumor out of a message it received.
Receive(n, t, r) ==
    /\ t \in Worker /\ IsIdle(n, t) /\ r \in wire
    /\ ApplyRumor(n, t, r)
    /\ UNCHANGED <<up, local, queue, expired, reaping, wire>>

-----------------------------------------------------------------------------
(* The health check: set_ready, then announce and push as above.            *)

SetReady(n, answers) ==
    /\ "health" \in Event /\ n \in Subject /\ IsIdle(n, "health")
    /\ Defends(n) /\ ready[n] # answers
    /\ incarnation' = [incarnation EXCEPT ![n] = Superseding(@)]
    /\ ready' = [ready EXCEPT ![n] = answers]
    /\ task' = [task EXCEPT ![n]["health"] = At("announce", NoEntry)]
    /\ UNCHANGED <<up, leaving, table, queue, expired, reaping, wire>>

-----------------------------------------------------------------------------
(* The detector.  A tick probes, sweeps and reaps; each part may find       *)
(* nothing to do, so the parts are actions that start from a free detector. *)

\* A mutant: the mark tries to outrank what its subject said.
Marked_Newer(r, s) ==
    [r EXCEPT !.state = s, !.incarnation = Superseding(@)]

\* The rumor that `mark` merges.
Marked(r, s) == [r EXCEPT !.state = s]

\* next_target: the probe holds a copy of the entry while it waits.
Probe(n, m) ==
    /\ DetectorFree(n)
    /\ table[n][m] # NoEntry /\ table[n][m].state # "dead"
    /\ task' = [task EXCEPT ![n]["detector"] = At("probe", table[n][m])]
    /\ UNCHANGED <<up, local, table, queue, expired, reaping, wire>>

\* An ack changes nothing.
ProbeAcked(n) ==
    /\ n \in up /\ task[n]["detector"].pc = "probe"
    /\ task' = [task EXCEPT ![n]["detector"] = Idle]
    /\ UNCHANGED <<up, local, table, queue, expired, reaping, wire>>

\* handle_result without an ack: mark the copy suspect.
ProbeFailed(n) ==
    /\ n \in up /\ task[n]["detector"].pc = "probe"
    /\ ApplyRumor(n, "detector", Marked(task[n]["detector"].rumor, "suspect"))
    /\ UNCHANGED <<up, local, queue, expired, reaping, wire>>

\* sweep_suspects copies the suspects whose time is up ...
Sweep(n, late) ==
    /\ "expiry" \in Event /\ DetectorFree(n)
    /\ late # {}
    /\ \A m \in late : table[n][m] # NoEntry /\ table[n][m].state = "suspect"
    /\ expired' = [expired EXCEPT ![n] = {table[n][m] : m \in late}]
    /\ UNCHANGED <<up, local, table, queue, task, reaping, wire>>

\* ... and marks them dead one by one.
MarkDead(n, r) ==
    /\ IsIdle(n, "detector") /\ r \in expired[n]
    /\ ApplyRumor(n, "detector", Marked(r, "dead"))
    /\ expired' = [expired EXCEPT ![n] = @ \ {r}]
    /\ UNCHANGED <<up, local, queue, reaping, wire>>

\* reap_dead lists the long dead under one lock ...
FindLongDead(n, gone) ==
    /\ "expiry" \in Event /\ DetectorFree(n)
    /\ gone # {}
    /\ \A m \in gone : table[n][m] # NoEntry /\ table[n][m].state = "dead"
    /\ reaping' = [reaping EXCEPT ![n] = gone]
    /\ UNCHANGED <<up, local, table, queue, task, expired, wire>>

\* ... and table.remove drops them under another.
Reap(n) ==
    /\ n \in up /\ reaping[n] # {}
    /\ table' = [table EXCEPT ![n] =
                   [m \in Node |-> IF m \in reaping[n] THEN NoEntry ELSE @[m]]]
    /\ reaping' = [reaping EXCEPT ![n] = {}]
    /\ UNCHANGED <<up, local, queue, task, expired, wire>>

-----------------------------------------------------------------------------
(* What a process puts on the wire, and its end.                            *)

Send(r) ==
    /\ Cardinality(wire \union {r}) <= MaxInFlight
    /\ wire' = wire \union {r}

\* One rumor of the batch GossipQueue::take hands to a ping, ack, ping-req or
\* ping-req-ack; `last` when its sends are used up.
Take(n, m, last) ==
    /\ n \in up /\ queue[n][m] # NoEntry
    /\ Send(queue[n][m])
    /\ queue' = IF last THEN [queue EXCEPT ![n][m] = NoEntry] ELSE queue
    /\ UNCHANGED <<up, local, table, task, expired, reaping>>

\* `from` of a join or sync message, which its receiver turns into a record.
Introduce(n) ==
    /\ n \in Subject /\ n \in up
    /\ Send(AliveRumor(n))
    /\ UNCHANGED <<up, local, table, queue, task, expired, reaping>>

\* One entry of the table a join response or sync message carries.
Snapshot(n, m) ==
    /\ n \in up /\ table[n][m] # NoEntry
    /\ Send(table[n][m])
    /\ UNCHANGED <<up, local, table, queue, task, expired, reaping>>

\* Shutdown begins.  Aborting the loops does not reach the tasks they spawned,
\* so the tasks of a leaving process may still take steps.
Leave(n) ==
    /\ "leave" \in Event /\ n \in up /\ ~leaving[n]
    /\ leaving' = [leaving EXCEPT ![n] = TRUE]
    /\ UNCHANGED <<up, incarnation, ready, table, queue, task, expired,
                   reaping, wire>>

\* announce_leave, which its receiver's handle_leave turns into a dead record.
AnnounceLeave(n) ==
    /\ n \in Subject /\ n \in up /\ leaving[n]
    /\ Send(Record(n, incarnation[n], "dead", ready[n]))
    /\ UNCHANGED <<up, local, table, queue, task, expired, reaping>>

\* The process exits or is killed, and its memory is gone.  Its incarnation
\* and readiness stay, as the values that what it said is compared with.
Stop(n) ==
    /\ "stop" \in Event /\ n \in up
    /\ up' = up \ {n}
    /\ table' = [table EXCEPT ![n] = Empty]
    /\ queue' = [queue EXCEPT ![n] = Empty]
    /\ task' = [task EXCEPT ![n] = [t \in Task |-> Idle]]
    /\ expired' = [expired EXCEPT ![n] = {}]
    /\ reaping' = [reaping EXCEPT ![n] = {}]
    /\ UNCHANGED <<local, wire>>

Lose(r) ==
    /\ r \in wire
    /\ wire' = wire \ {r}
    /\ UNCHANGED <<up, local, table, queue, task, expired, reaping>>

TaskStep(n) ==
    \E t \in Task :
        \/ Refute(n, t)
        \/ Announce(n, t)
        \/ Push(n, t)
        \/ \E r \in wire : Receive(n, t, r)

DetectorStep(n) ==
    \/ \E m \in Node : Probe(n, m)
    \/ ProbeAcked(n)
    \/ ProbeFailed(n)
    \/ \E late \in SUBSET Node : Sweep(n, late)
    \/ \E r \in expired[n] : MarkDead(n, r)
    \/ \E gone \in SUBSET Node : FindLongDead(n, gone)
    \/ Reap(n)

SendStep(n) ==
    \/ \E m \in Node, last \in BOOLEAN : Take(n, m, last)
    \/ Introduce(n)
    \/ \E m \in Node : Snapshot(n, m)
    \/ AnnounceLeave(n)

Next ==
    \/ \E n \in Node :
        \/ TaskStep(n)
        \/ DetectorStep(n)
        \/ SendStep(n)
        \/ \E answers \in BOOLEAN : SetReady(n, answers)
        \/ Leave(n)
        \/ Stop(n)
    \/ \E r \in wire : Lose(r)

Spec == Init /\ [][Next]_vars

-----------------------------------------------------------------------------
(* Properties.                                                              *)

\* Every record that may still change a table: in flight, believed, queued,
\* or in the hands of a task.
RumorsAt(n) ==
    {table[n][m] : m \in Node} \union {queue[n][m] : m \in Node}
        \union {task[n][t].rumor : t \in Task} \union expired[n]
Circulating == (wire \union UNION {RumorsAt(n) : n \in Node}) \ {NoEntry}

\* "Only we can move ours" (node.rs, LocalNode::set_ready): no record about a
\* process, whoever wrote it and however late it is read, carries an incarnation
\* the process has not reached.
IncarnationOwned ==
    \A r \in Circulating : r.incarnation <= incarnation[r.id]

\* "Two rumors at one incarnation never disagree about it" (state.rs, merge):
\* merge needs no rank for readiness because it goes out as a pair with the
\* incarnation (LocalNode::current).  At the largest incarnation set_ready
\* has no new number to pair it with, so nothing is claimed there.
ReadinessAgrees ==
    \A r \in Circulating : r.incarnation < MaxIncarnation =>
        /\ r.incarnation = incarnation[r.id] => r.ready = ready[r.id]
        /\ \A q \in Circulating :
              q.id = r.id /\ q.incarnation = r.incarnation => q.ready = r.ready

\* What the detector copied before it waited (the probe's target in `probe`, the
\* members `sweep_suspects` is marking) is still in the table and no older
\* there, so marking the copy neither brings back a forgotten member nor
\* overrides news that arrived meanwhile.
DetectorCopies(n) ==
    expired[n] \union
        (IF task[n]["detector"].pc = "probe" THEN {task[n]["detector"].rumor}
         ELSE {})
DetectorCopiesCurrent ==
    \A n \in Node : \A r \in DetectorCopies(n) :
        /\ table[n][r.id] # NoEntry
        /\ ~Supersedes(r, table[n][r.id])

\* "To clear itself, the suspect has to publish a newer incarnation, and only
\* the suspect can do that" (state.rs, supersedes): an entry loses rank only
\* for a higher incarnation, one its subject has reached.
OnlySubjectClears ==
    [][\A n, m \in Node :
          LET old == table[n][m]
              new == table'[n][m]
          IN  /\ old # NoEntry /\ new # NoEntry
              /\ Rank(new.state) < Rank(old.state)
              => old.incarnation < new.incarnation
                 /\ new.incarnation <= incarnation[m]]_vars

\* "Its incarnation is final from here on, so a dead at that incarnation
\* outranks every alive it ever sent" (node.rs, LocalNode::leave): a peer that
\* holds a leaver dead at its last number keeps that entry until it drops it.
LeaveStands ==
    [][\A m \in Node : leaving[m] =>
          /\ incarnation'[m] = incarnation[m]
          /\ \A n \in Node :
                /\ table[n][m] # NoEntry
                /\ table[n][m].state = "dead"
                /\ table[n][m].incarnation = incarnation[m]
                => table'[n][m] \in {table[n][m], NoEntry}]_vars

\* Reaping sticks (state.rs, merge; detector.rs, reap_dead): once all that is
\* left of a stopped process is records that it is dead, that stays so, and no
\* peer that forgot it learns of it again.
OnlyCorpse(m) ==
    m \notin up /\ \A r \in Circulating : r.id = m => r.state = "dead"
ReapingSticks ==
    [][\A m \in Node : OnlyCorpse(m) =>
          /\ OnlyCorpse(m)'
          /\ \A n \in Node : table[n][m] = NoEntry => table'[n][m] = NoEntry]_vars

\* "Drop dead members that have been dead long enough" (detector.rs, reap_dead):
\* an entry a running process drops is a dead one.
ReapTakesOnlyDead ==
    [][\A n \in up', m \in Node :
          table[n][m] # NoEntry /\ table'[n][m] = NoEntry
          => table[n][m].state = "dead"]_vars
=============================================================================
