# dalila, specified

dalila is an agent that runs on every machine of a cluster. The agents find
each other by gossip in the manner of SWIM, notice who dies, and proxy TCP
connections to the members whose app answers. This directory holds TLA+ modules
that model the agent (`src/src/`), configurations that check them with TLC, and
proofs checked by TLAPS.

## The system

| part | source | state | operations |
|---|---|---|---|
| local node | `membership/src/node.rs` | incarnation, readiness, leaving, under one lock | refute, set_ready, leave, identity, alive_rumor |
| member table | `membership/src/state.rs` | one record for each peer, under one lock | merge, remove, snapshot, random choices |
| dissemination | `membership/src/dissemination.rs` | the gossip queue, under one lock | push, take, apply |
| failure detector | `membership/src/detector.rs` | the order of the rotation | a tick: probe, suspect, sweep, reap |
| UDP protocol | `membership/src/udp.rs` | waiting probes, next sequence number | ping, ping_req, relays, the receive loop, leave |
| sync | `membership/src/sync.rs` | none | trade tables with a random member |
| TCP | `membership/src/join.rs` | a read buffer for each connection | join, serve requests, frames |
| wire records | `membership/src/wire.rs` | none | conversions |
| authentication | `membership/src/auth.rs` | a key | seal, open |
| health check | `health.rs` | none of its own | one check a second, then set_ready |
| proxy, API | `proxy.rs`, `api.rs` | a round-robin counter | backends, forward |
| commands | `commands/*.rs`, `cli.rs`, `main.rs` | none | start, members |

Tasks on a multi-threaded runtime share the node, the table and the queue; each
has a lock of its own and none is held from one call to the next. Every source of
news (a datagram, a sync, a join, a probe that failed, a suspicion that expired)
goes through `dissemination::apply`: merge into the table, read its size, push
what changed, or refute a rumor that says this process is not alive. Every
outgoing datagram takes rumors from the queue; joins and syncs carry whole
tables over TCP.

What is hard here, and the modules that take it up:

- several tasks between the locks of one `apply`, one tick, one shutdown
  (`Membership`);
- rumors that arrive late, twice, in another order or never, and processes that
  stop at any point (`Membership`, `Cluster`);
- copies of entries kept while a probe waits (`Membership`);
- probes and relays that share one table of sequence numbers, with answers that
  race timeouts and processes that are replaced at their address (`Probe`);
- a queue larger than a packet, while the size of the cluster changes
  (`GossipQueue`);
- time: ticks that a failed probe makes late, suspicion and reaping periods, a
  rotation whose members come and go (`Detector`);
- processes that start at once and through each other, over connections that
  break, hang and time out (`Startup`), and a stream that arrives in any pieces
  (`Frames`);
- lists read from two locks while both change, and a counter shared by all
  clients (`Proxy`);
- partitions, and the repair of what all of the above left wrong (`Cluster`).

`PROJECT.json` lists the hazards one by one with the lines where they bite.

What makes each part correct:

- *node and table*: only a process moves its own incarnation; suspicion and death
  stick until it does; a leaver stays dead; a corpse stays forgotten; readiness
  never disagrees with its incarnation.
- *queue*: one rumor about each member, sent as often as it was promised, freshest
  first among equals, and drained once the news stops.
- *probes*: an answered probe probed a live process, and none leaves anything
  behind.
- *detector*: nobody is passed over; suspects and the dead are swept on time, give
  or take a slow tick; a process that stopped is found out in bounded time.
- *start-up*: whoever is known serves; keys keep clusters apart; a joiner and its
  seed know each other, and that seed is the one whose turn it was; no wait for a
  reply lasts for ever. (A write may, and so may a server's task that waits for its
  client's next request: neither has a timeout.)
- *frames*: a connection delivers the messages written, whole, once, in order, and
  fails only for a reason that is not the reader's.
- *sync*: while nobody has been cut off for good, tables come to agree.
- *proxy, API*: a list holds whom it should; every backend gets one try; clients
  that come together start at different ones.

## Modules

**`MemberRecord`**: records, incarnations and the merge rule on one entry, as
operators. `Superseding` saturates as `u32` does, with `MaxIncarnation` for
`u32::MAX`. A wire member and a table entry are one record: the clock inside a
suspect or dead entry never crosses the wire. Address and tags are fixed for the
life of a process and its id stands for them; so the guard of `merge` on
unspecified addresses is left out, since `execute` refuses to start with one.

**`Membership`** extends it: a cluster of agents at the grain of their locks.
`task[n][t]` is where task `t` of process `n` stands between two locks, with the
rumor it holds there. `apply` becomes `Receive` (or the detector's own marks),
then `Push`, or `Refute`, `Announce` and `Push`; the health check is `SetReady`
and then the same two; a tick is `Probe` with its result, `Sweep` and `MarkDead`
for each copy, `FindLongDead` and `Reap`. The parts of a tick may find nothing to
do, so each starts from a free detector. Workers stand for the tasks that apply
rumors: the UDP loop, the sync loop, the join and each connection being served.

A message is modelled by the rumors it carries, because its receiver applies
them one at a time; the `from` of joins and syncs is `Introduce`, their tables
`Snapshot`, a datagram's gossip `Take`, the leave broadcast `AnnounceLeave`. The
`from` of a ping or ack is merged by nobody and is not a rumor. A rumor stays on
the wire until `Lose`, so it can be late, repeated and out of order; the body a
joiner builds once and offers to several seeds is such a late rumor. `Stop` is
the end of a process, by exit or kill: its memory goes, and a restarted agent has
a new id, so it is another process. Aborting the loops at shutdown does not reach
the tasks they spawned, so a leaving process's tasks may still step. Time is
abstracted: a probe may fail, a suspicion expire and a corpse come of age at any
moment, whatever the periods; every property checked here holds without relying
on them.

`Subject`, `Event` and `Worker` slice an instance. Entries about different members
never read each other, so an instance whose only subject is `s` shows what may
happen to any one member. `Event` switches off kinds of events; the runs
together switch on all of them, and the proofs assume none of it.

**`OwedRumors`**: what a queue promises: the last rumor pushed about each subject
stays owed until it has been handed out. `Membership`'s queue is used in just
this way: `Take` hands out an entry, and may drop it then.

**`GossipQueue`**: the queue as the code keeps it: a vector sorted by sends left,
batches of `MaxPiggyback`, `3 * ceil(log2(n))` sends. `push` and `take` each hold
the queue's lock, so each is one step. `sent` and `budget` are history. The size
of the cluster is any of `ClusterSize` at each push, because `apply` reads it under
another lock. The module implements `OwedRumors` under the mapping at its end.

**`Probe`**: `PendingAcks`, both rounds of the detector's probe, relayed probes,
and processes replaced at their address (`Id` is an address and a generation).
Messages stay on the wire for ever. A wait ends in two steps, the timeout and the
`forget`, so that an answer can fall between them. `heard` is history: the target
has answered some ping since the probe began. Sending several ping-reqs is one
step, since a message on the wire may be handled arbitrarily late. A failed
send is a lost one.

**`Detector`** (instance `MCDetector`) is the detector of one agent in units of
time: the rotation as the vector the code keeps (popped from its end, refilled from
a shuffle of the table when it holds nobody to probe), the tick with its one or two
rounds, `MissedTickBehavior::Delay`, and the sweeps at its end. `Elapse` advances
time and cannot when the tick or a timeout is due, so urgency takes the place of
fairness. Entries carry the time since they took their state, as `Instant` gives
it. The locks of a tick are `Membership`'s; here a tick's end is one step, and news
from other tasks (`Hear`) comes between any two. Whether a ping is answered is
settled by whether its target runs when it is sent; the ack comes at any time
before the timeout, and a relayed one is not told apart from a late direct one.
`passed` and `silent` are history.

**`Startup`** (`MCStartup`) is `execute` from its sockets to its loops, `join` over
the list of seeds, and the exchanges of `join.rs` and `sync.rs` with the server's
task for each connection: it reads a request, makes the reply, then merges and
writes, in the code's order. A process can fail to bind, give up, be killed, or
stall on a machine that still accepts connections for it. `Break`, `TimeOut` and
`Hangup` are the three ways a client's wait ends without an answer, and the server
hears of none of them; a reply that comes after is one to a wait that is over, and
`no` tells it from the reply to the next. A table is the set of processes it has a record of; what
the records say is `Membership`'s. Keys are atoms: whoever has another key opens
nothing (`auth.rs`).

**`Frames`** (`MCFrames`) is one direction of a connection, byte by byte:
`write_frame`'s prefix, `parse_frame` in the order in which it looks, reads of any
size, end of stream, a writer that dies with only part of its bytes on their way, and
a connection that is reset, at which `read_buf` may fail wherever it is. `Opened` and
`Decoded` are the payloads that the reader's key opens and that decode to a body: what
decides this is in the bytes, which are the same whatever the reads. A reader that
stops waiting is `Startup`'s. It implements **`Mailbox`**, which says what a connection promises: messages
whole, once each and in order.

**`Proxy`** (`MCProxy`) has the readers of the table. A client of the proxy or the
API is a task that reads the table under one lock and the node's readiness under
another, sorts the addresses and drops repeated ones, and if it is the proxy's
draws from the shared counter and tries backends from there. `ever` and `always`
are history.

**`Cluster`** (`MCCluster`) composes agents: every handler is one step, and who
talks to whom is the code's, since random_member, next_target, relay_candidates and
announce_leave all skip the dead. Gossip is delivered at once or lost, and a sync is
one step, whose reply may be lost. So nothing is under way between two steps: news
that is merged between the two locks of another's `apply` is here only by the rumor that
it loses, as gossip that reaches nobody. And what the module says of a split is said of one that no message is crossing any
more; rumors that are late are `Membership`'s. `Doubts` says which running members
an agent's probes may fail to reach, and marks of running processes end at
`MaxIncarnation`, so that saturation is left to `Membership`.

**`Membership_proofs`**, **`GossipQueue_proofs`**, **`Probe_proofs`**,
**`Detector_proofs`**, **`Startup_proofs`**, **`Frames_proofs`**, **`Proxy_proofs`**,
**`Cluster_proofs`**: the theorems about those modules.

The modules meet at what they leave to each other. `Cluster` takes whole handlers,
`Membership` the steps between their locks. `Membership` lets a probe fail and a
suspicion expire at any time, `Probe` says what an answered probe means and `Detector`
when a suspicion expires. `Membership` takes an entry out of its queue at any time,
`OwedRumors` promises it no more, and `GossipQueue` keeps that promise. `Startup`
takes messages whole and in order, which `Mailbox` promises and `Frames` keeps.

The definitions named `X_Something` before a definition `X` are mutants: `X` as a
plausible bug would have it. Putting one in the place of `X` breaks the property
`PROJECT.json` pairs it with, which shows that the property says something about
the code.

## Runs

| run | question | bounds |
|---|---|---|
| `membership` | types, incarnations owned, copies current, only the subject clears, leaving and reaping stand | 2 processes, 1 subject, 1 worker, incarnations 0..1, 2 rumors in flight |
| `readiness` | records at one incarnation agree about readiness | same, incarnations 0..2, 1 rumor in flight |
| `reaping` | does reaping drop only dead members? It does not | as `membership`, 1 rumor in flight |
| `gossip_queue` | accounting, order, draining, `OwedRumors` | 3 subjects, 2 versions, cluster sizes 2 and 5, packets of 1 |
| `probe` | answered means alive; nothing left waiting | prober, relay and target; the target replaced once; 2 full probes |
| `probe_restart` | can a prober tell which ping an ack answers? Not after a restart | the prober replaced once |
| `detector` | nobody passed over, timeouts kept, the stopped found out | 2 members (alike, so symmetric), incarnations 0..1; interval 1, rounds 1 and 1, suspicion 2, reaping 3 |
| `startup` | who may be known, keys, whom one has joined through, waits that end | 3 processes, a and b each other's seeds, a also with s; b's key the same or another; 2 connections each |
| `cluster` | a split is final; otherwise tables agree in the end | 3 processes, 2 of them join; incarnations 0..1; doubts between a and c and of b about a |
| `partition` | do syncs repair every partition? Not one that outlasts suspicion | as `cluster`, nobody stops |
| `frames` | `Mailbox`, errors only for a reason, all read | bytes of 3 values, prefixes of 2, frames of at most 2, 3 frames, 6 payloads |
| `proxy` | one try each, the round robin, lists that are current | 3 peers and the agent itself, 2 clients; two agents on one machine, one without the tag asked for |

Why the bounds are enough.

*Membership.* With one subject and two processes, the subject hears suspicions,
refutes, leaves and stops, while its peer has a detector, a health check and a
worker that interleave freely. Third parties add nothing the wire does not: a rumor
relayed by another process is one that stays in flight. Incarnation 1 is where a
refutation supersedes and also where numbers saturate; the readiness run needs 2
because its property claims nothing at the largest. For larger instances there
are the proofs.

*Queue.* A packet of 1 against 3 subjects makes every packet overflow, and sizes 2
and 5 give budgets of 3 and 9, so pushes of both kinds meet at every stage of each
other's sends.

*Probe.* The prober draws four numbers, so an answer of either round of the first
probe can arrive in either round of the second, and the relay draws two. Only the
target is replaced. Where the asking process or the relay restarts, its numbers
start from zero and a datagram delayed past the restart can answer for its
successor; `probe_restart` shows it with the prober, and TLC finds the same with
`Restarting = {helper}`. With one prober no relay's number can meet a prober's; the
proof has any number of both.

*Detector.* Two members have a best and a worst place in a pass, can be probed
directly or through each other, and can be dropped and come back within a pass; two
rounds of 1 against an interval of 1 make every failed tick late. The bounds of
`RotationFair`, of `DetectedInTime` and of `SweptInTime` for suspects are exact there:
each fails when it is lowered by one. That for the dead is not, because with one of
two members dead there is nobody to relay, and no tick is at its longest. Two
members cannot show a rotation with several dead ones in it.

*Startup.* Two processes that join through each other, one of which has a second seed
to be recorded at after a reply was lost, and two connections each, so that a join
is followed by another or by a sync. The proofs have any number.

*Cluster.* Three processes are what it takes for one to hand on what two believe of
each other, to be the link between them, and to join one side of a split.
Disagreement needs two peers of a subject, a split two sides. `Doubts` has a
mutual pair, so that both may hold each other dead, and a third edge by which a
link can be lost as well.

*Frames.* Reads of every size, at every place: within a prefix, within a payload,
across several frames. Two digits of base 3 announce lengths up to 8, where 2 is
allowed and 3 is written. Of the six payloads two are read, and each of the others is
refused for a reason of its own: too long, another version, not opened, no body. Three
frames have one that is refused behind one that is read, and one behind it.

*Proxy.* Lists are of 0 to 3 addresses and change between two clients' reads, two
members share an address, and this agent is one of the backends. The counter's wrap
at 2^64 is out of reach of the run and of the program.

The configurations of `Membership`, `Startup`, `Cluster` and `Frames` turn the
deadlock check off: processes may all have stopped, and exchanges and connections
come to an end. Elsewhere it is on.

The three runs that end in a violation check a sentence of the code's own comments;
the findings in `PROJECT.json` quote it.

- `reaping`: an entry is chosen under one lock and removed under another, so a member
  that has just refuted its death can be dropped. It is the one to repair.
- `probe_restart`: an ack does not say which run of a process asked.
- `partition`: nobody sends anything to those it holds dead, so a partition that
  outlasts the suspicion timeout on both sides does not heal until somebody joins
  again. `SplitIsFinal`, which is proved, says that nothing else can help once
  the messages that were under way are gone.

## Fairness

- `GossipQueue`: weak fairness of `Take`, for `Drains`. The detector pings once a
  second as long as it knows a member that is not dead, and every ping is answered
  with a packet. An agent with nobody left to ping does not drain its queue, and
  has nobody to tell.
- `Startup`: weak fairness of the client's and the server's steps and of `Serve`, the
  runtime running every task that can go on. Whether a process starts and when it
  syncs is left open. Timeouts are not fair, since a reply may always be in time;
  `WaitsEnd` alone assumes that they fire, and `NoMutualWait` shows that without
  faults they are not needed.
- `Cluster`: strong fairness of a sync with each partner, reply included, because
  the loop goes on and random_member chooses each candidate time and again, also
  when it is a candidate only now and then; weak fairness of marking the stopped,
  which the `detector` run bounds in time. No fairness of gossip, of refutation, of
  joins or of reaping: syncs do without them. `Converges` assumes that
  disturbances end (nobody is suspected any more in error) and that no split
  remains, and both are needed: `partition` drops the second.
- `Frames`: weak fairness of reading. What was written arrives, and a read of a
  connection that is reset fails once nothing else is there to be read.
- `Membership`, `Probe`, `Detector`, `Proxy`: none; their properties are about
  safety, and `Detector`'s bounds are in time.

## Proofs

All theorems are about the specifications as TLC runs them, for every value of the
constants. They assume what the modules assume of their constants, and `AnsweredIsAlive`
one thing more.

**`Membership_proofs`**, for every set of processes, subjects, workers and events,
every `MaxIncarnation`, and whatever number of rumors in flight: `TypeCorrect`,
the invariants `IncarnationsAreOwned`, `ReadinessIsAgreed` and `CopiesAreCurrent`,
and the action properties `SubjectClears`, `LeavingStands` and `ReapingIsFinal`.
Besides, about `merge` alone: a rumor heard twice is heard once (`MergeTwice`), and two
rumors about a member leave the same entry in either order (`MergeInAnyOrder`). The
second has two conditions, and both are about this code: the two must not disagree about
readiness at one incarnation, which is `ReadinessIsAgreed` below the largest number; and
neither may be a death that comes to where there is no entry, since it leaves no trace
and the other then does as if it had never been told.

The inductive invariant is `IInv`. Besides types it says that an entry is filed
under its own id and nobody has one of itself (`Filed`), and that the detector
does one thing at a time and never probes the dead (`DetectorAlone`). Without
these, `DetectorCopiesCurrent` is not inductive: a reap could remove what a probe
holds. The argument for the others rests on one lemma, `NextSources`: a step adds at
most one record to what circulates, and either that record is its subject's own
statement, at its number and with its readiness, or it repeats a record that
circulates already, at most with another state. So a record that would break
`IncarnationOwned` or `ReadinessAgrees` has to have existed before. `NextEntry` says
what a step can do to an entry (keep it, drop it, merge news), and `NumbersGrow` how
numbers move; the action properties follow from these and the invariant.

**`Probe_proofs`**, for any addresses and numbers: `TypeCorrect`, `NothingLeft`, and
`AnsweredIsAlive`. The first two rest on `IInv`, whose core is `Books`: whatever
waits at a process belongs to its probe or to one of its relays, and these use
numbers drawn before, each its own. They hold whoever restarts. `AnsweredIsAlive`
assumes `Steady`, that no address that probes or relays is one where processes are
replaced; `probe_restart` shows that it fails without. Its invariant is `HInv`:
numbers about, on the wire or with a relay, were drawn before (`Fresh`); the
number of a relayed probe is on no ping-req of that relay and no relayed answer to
it, so the two kinds of answer never meet (`Apart`); and wherever an answer to a
probe under way may come from (an ack to the prober, a relayed ack, a relay
whose own entry is resolved or about to be), the target has been heard
(`Heard`). A probe that begins takes a number that by `Fresh` is nowhere, so
`Heard` starts out true of it; then only the target's own answer brings one about.

**`Startup_proofs`**, for any processes, seeds, keys and numbers of connections:
`TypeCorrect`, `KnownServe`, `KeysAreApart`, `JoinsAreMutual`, `JoinedInTurn`.
`IInv` adds to what they state what a connection may carry (`ConnInv`): those it
names have all their sockets, or had them, and share the key of the one who names
them, and a reply that waits to be read means that its server has recorded the
client. `NodeInv` says which waits are possible. Each step is one lemma; most of
them only have to show that phases move onward (`Onward`), after which a
connection or a node that the step does not touch keeps its part. For `JoinedInTurn`,
`TurnInv` says that a process waits for one reply at a time, and that while it joins
the connection with its last number goes to the seed whose turn it is: those given up
have lower numbers, so no answer on them is `Mine`.

**`Cluster_proofs`**, for any processes, doubts and incarnations: `TypeCorrect`, and
`SplitsAreFinal`. The argument: across a split every entry is down (dead or
missing); so no two processes across it exchange messages, not even through a
relay (`MeetOnOneSide`); so a process learns of the other side only what one on its
own side says, which is that it is dead (`ToldDown`); and news of a death does not
bring up an entry that was down (`LearnedDown`).

**`Detector_proofs`**, for any finite set of members and any periods: `TypeCorrect`,
`RotationFair`, `SweptInTime` and `DetectedInTime`. Durations are bounded by where the
detector is. `Elapsed` is how long ago the last tick began, at most `LongestTick`;
`Unswept` is how long ago the last sweep was. Then `IInv` says, besides types, that a
probe keeps to its rounds and its target stays in the table with a number no lower
than the probe's copy (`ProbeKept`); that a clock past its timeout is so by less than
`Unswept` (`SweptBy`); how often a member has been passed over, by its place in the
rotation, or by who is left there if it has none (`Rotated`); and how long a stopped
process can have been silent, by the probes of others since its turn and by its
suspicion (`FoundOut`). None of the three properties is inductive, since each speaks
of the end of a wait and not of how far it has come. One case needs a clause of its
own: a process that stops while its probe is under way may still be answered for, so
only a probe that will find it out (`Doomed`) ends the wait for its next turn.

**`GossipQueue_proofs`**, for any subjects, versions, sizes of cluster and packet:
`TypeCorrect`, `OnePerSubject`, `SendsAddUp`, `FreshestOfEqualsFirst`, and that the
module implements `OwedRumors`. `IInv` is the first three together. `retain` and the
stable sort are both rankings: the element at a place is the one that so many come
before. `Ranks` shows that in a finite total order every rank belongs to one element,
by counting; from it `KeptIs` and `SortedIs` show that a retain or a sort has the
elements it should, each once and in order, and `PushIs` and `TakeIs` say what the two
operations do to the vector. In the refinement a push is a push (`PushOwes`) and a take
hands out what it takes, dropping those whose sends are spent (`TakeHands`).

**`Proxy_proofs`**, for any members, addresses, clients and tags: `TypeCorrect`,
`OneTryEach`, `RoundRobin` and the action property `ListIsCurrent`. `IInv` says that the
counter has been drawn from as often as it says, with each client at another place
(`Counted`); that a client's tries went round its list from its start (`WentRound`);
and, of a client that waits for its list, what it has found so far (`Seen`). That tries
differ is arithmetic: two places fewer than `n` apart differ modulo `n` (`Apart`). The
counter of the model does not wrap, as `usize` would after 2^64 clients.

**`Frames_proofs`**, for any base, length of prefix, limit and payloads: `TypeCorrect`,
`FailsForAReason`, and that a connection implements `Mailbox`. `IInv`
says that what was read, the buffer, the wire and the frame in which the writer died
make up the stream of what was written (`Flows`), that the messages returned are the first of
those written (`InOrder`), and when the stream may end (`Ended`). It rests on three facts about
bytes: a length that fits its prefix is read back from it (`NumberOfPrefix`); the stream
of more messages begins with that of fewer (`StreamsAgree`, `StreamGrows`); and what
`parse_frame` cuts off the front of a stream is its first frame, or the stream breaks
off within that frame (`FrameFirst`, `BreaksOff`). These are inductions over the digits
and the messages. The induction theorems of the library take an operator, which the
provers cannot instantiate, so `Induction` and `Recursion` state them about sets, as
consequences of the order of the naturals being well founded.

Only checked by TLC is what must eventually happen: `Drains`, `NoMutualWait`, `WaitsEnd`,
`Converges` and `EveryFrameRead`. They depend on fairness, and on when an action is
enabled, which the proof system does not reach. The three runs that end in a violation
have nothing to prove. Every other property of a run is a theorem.

## Not modelled, and why

- *Encoding, sealing and the version byte of datagrams*: a message that fails one of
  them is a lost one. What the keyed hash promises is `Opens` in `Startup`; that it
  keeps the promise is cryptography. The size of a datagram is a matter of bytes.
- *A write that blocks* (`sync.rs`, `sync_with`; `join.rs`, `write_frame`): writing has no
  timeout. It takes a partner that accepts and stops reading, and a table larger
  than the sockets' buffers; then the sync loop stays there. A server's task reads
  without a timeout too, and stays as long as its client keeps the connection.
- *The checks of the flags* at the start of `execute`, the command line, the members
  command, logging: no state of the system depends on them beyond that a process
  starts or does not.
- *Addresses and tags* never change during a process's life; the id stands for both,
  except in `Probe` and `Proxy`, where addresses matter. The guard of `merge` on
  unspecified addresses is left out, since `execute` refuses to start with one.
- *A process that is given its own address as a seed* joins itself and is content.
  `Startup` has it; nothing in the repository says what should happen, and no
  property is stated.

## Plan

1. `Membership` shown to implement `Cluster`'s handlers step by step, for instances
   without late rumors.
2. The step from `Membership`'s queue to `GossipQueue` as a composition, not only through
   `OwedRumors`.
3. `Cluster` with four processes and two links between two sides.
