-------------------------------- MODULE Probe --------------------------------
(***************************************************************************)
(* Direct and relayed probes over UDP (udp.rs, detector.rs `probe`):       *)
(* sequence numbers, the table of waiting probes that the receive loop     *)
(* resolves and the probing tasks give up on, and restarts that put a new  *)
(* process at an old address.                                              *)
(*                                                                         *)
(* A message stays on the wire once sent and may be handled at any time,   *)
(* any number of times, or never: late, duplicated, reordered, lost.  A    *)
(* send that fails is one that is lost.  A timeout may fire at any time.   *)
(***************************************************************************)
EXTENDS Naturals, FiniteSets

CONSTANTS
    Addr,        \* the addresses agents live at
    Prober,      \* the addresses whose detector runs: all in the code
    Target,      \* the addresses of the members it probes: all others
    Helper,      \* the addresses of the members it asks to relay: all others
    Restarting,  \* the addresses where a process may be replaced
    MaxGen,      \* bound on replacements at an address
    MaxSeq,      \* bound on the sequence numbers a prober draws
    MaxRelaySeq, \* and on those any other process draws
    NoProbe      \* the detector is not probing

ASSUME AddrAssumption == 
    /\ Prober \subseteq Addr /\ Target \subseteq Addr
    /\ Helper \subseteq Addr /\ Restarting \subseteq Addr
ASSUME BoundAssumption ==
    MaxGen \in Nat /\ MaxSeq \in Nat /\ MaxRelaySeq \in Nat /\ MaxRelaySeq <= MaxSeq

\* A process: a restart gets a new id at the same address.
Id == [addr : Addr, gen : 0 .. MaxGen]

IndirectProbes == 3

VARIABLES
    gen,       \* gen[a]: which process runs at a
    nextSeq,   \* PendingAcks.next_seq
    waiting,   \* PendingAcks.waiting, as a set of [seq, subject]
    probe,     \* the detector's probe: [target, seq, pc], or NoProbe
    relays,    \* the relayed probes a process has running
    wire,      \* every message sent
    heard      \* heard[a]: a's target answered some ping since the probe began

vars == <<gen, nextSeq, waiting, probe, relays, wire, heard>>

Running(a) == [addr |-> a, gen |-> gen[a]]
Exists(id) == id.gen <= gen[id.addr]
CanDraw(a) == nextSeq[a] < (IF a \in Prober THEN MaxSeq ELSE MaxRelaySeq)

\* A probe waits for its answer; its timeout fired, and `forget` is next.  The
\* second round has its own two places.
Direct == {"direct", "direct_late"}
Indirect == {"indirect", "indirect_late"}

ASSUME NoProbeAssumption ==
    NoProbe \notin [target : Id, seq : 0 .. MaxSeq, pc : Direct \union Indirect]

Ping(to, from, s) == [type |-> "ping", to |-> to, from |-> from, seq |-> s]
Ack(to, id, s) == [type |-> "ack", to |-> to, from |-> id, seq |-> s]
PingReq(to, from, s, t) ==
    [type |-> "ping_req", to |-> to, from |-> from, seq |-> s, target |-> t]
PingReqAck(to, s, t) ==
    [type |-> "ping_req_ack", to |-> to, seq |-> s, target |-> t]

\* A mutant: the subject is remembered by its address.
Register_ByAddress(w, s, subject) == w \union {[seq |-> s, subject |-> subject.addr]}

\* register: by sequence number; the number is fresh.
Register(w, s, subject) == w \union {[seq |-> s, subject |-> subject]}

\* forget: does nothing if the answer already resolved it.
Forget(w, s) == {e \in w : e.seq # s}

\* A mutant: whoever answers, the probe is answered.
Resolve_AnySubject(w, s, subject) == {e \in w : e.seq # s}

\* resolve: only an answer about the process that was asked about.
Resolve(w, s, subject) == {e \in w : ~(e.seq = s /\ e.subject = subject)}

\* resolve sends on the probe's channel and only it removes the entry of a probe
\* that has not given up.
Answered(a, s) == \A e \in waiting[a] : e.seq # s

Init ==
    /\ gen = [a \in Addr |-> 0]
    /\ nextSeq = [a \in Addr |-> 0]
    /\ waiting = [a \in Addr |-> {}]
    /\ probe = [a \in Addr |-> NoProbe]
    /\ relays = [a \in Addr |-> {}]
    /\ wire = {}
    /\ heard = [a \in Addr |-> FALSE]

-----------------------------------------------------------------------------
(* The prober.                                                              *)

\* The detector takes a target from its table, where a process that is gone may
\* still be.
StartProbe(a, t) ==
    /\ a \in Prober /\ probe[a] = NoProbe /\ CanDraw(a)
    /\ t.addr \in Target /\ t # Running(a) /\ Exists(t)
    /\ nextSeq' = [nextSeq EXCEPT ![a] = @ + 1]
    /\ waiting' = [waiting EXCEPT ![a] = Register(@, nextSeq[a], t)]
    /\ probe' = [probe EXCEPT ![a] =
                   [target |-> t, seq |-> nextSeq[a], pc |-> "direct"]]
    /\ wire' = wire \union {Ping(t.addr, a, nextSeq[a])}
    /\ heard' = [heard EXCEPT ![a] = FALSE]
    /\ UNCHANGED <<gen, relays>>

\* The wait returns with an answer, and `forget` finds nothing.
ProbeAcked(a) ==
    /\ probe[a] # NoProbe
    /\ probe[a].pc \in {"direct", "indirect"} /\ Answered(a, probe[a].seq)
    /\ probe' = [probe EXCEPT ![a] = NoProbe]
    /\ UNCHANGED <<gen, nextSeq, waiting, relays, wire, heard>>

\* The wait ends without one.  A late answer may still resolve the entry before
\* it is forgotten.
ProbeTimesOut(a) ==
    /\ probe[a] # NoProbe
    /\ probe[a].pc \in {"direct", "indirect"} /\ ~Answered(a, probe[a].seq)
    /\ probe' = [probe EXCEPT ![a].pc =
                   IF @ = "direct" THEN "direct_late" ELSE "indirect_late"]
    /\ UNCHANGED <<gen, nextSeq, waiting, relays, wire, heard>>

\* The direct probe is forgotten, and some other members are asked.
AskRelays(a, helpers) ==
    /\ probe[a] # NoProbe /\ probe[a].pc = "direct_late" /\ CanDraw(a)
    /\ helpers # {} /\ Cardinality(helpers) <= IndirectProbes
    /\ \A h \in helpers :
          h.addr \in Helper /\ Exists(h) /\ h # probe[a].target /\ h # Running(a)
    /\ LET t == probe[a].target
           s == nextSeq[a]
       IN  /\ nextSeq' = [nextSeq EXCEPT ![a] = s + 1]
           /\ waiting' = [waiting EXCEPT ![a] =
                            Register(Forget(@, probe[a].seq), s, t)]
           /\ probe' = [probe EXCEPT ![a] =
                          [target |-> t, seq |-> s, pc |-> "indirect"]]
           /\ wire' = wire \union {PingReq(h.addr, a, s, t) : h \in helpers}
    /\ UNCHANGED <<gen, relays, heard>>

\* A mutant: only the indirect round forgets what it registered.
ForgetProbe_IndirectOnly(a) ==
    IF probe[a].pc \in Indirect THEN Forget(waiting[a], probe[a].seq) ELSE waiting[a]

\* What is waiting once the probe is over.
ForgetProbe(a) == Forget(waiting[a], probe[a].seq)

\* The probe fails: nobody to ask, or nobody reached it.
ProbeFails(a) ==
    /\ probe[a] # NoProbe /\ probe[a].pc \in {"direct_late", "indirect_late"}
    /\ waiting' = [waiting EXCEPT ![a] = ForgetProbe(a)]
    /\ probe' = [probe EXCEPT ![a] = NoProbe]
    /\ UNCHANGED <<gen, nextSeq, relays, wire, heard>>

-----------------------------------------------------------------------------
(* The receive loop, and the relayed probes it spawns.                      *)

\* handle_ping: the answer goes to where the ping came from.
HandlePing(m) ==
    /\ m.type = "ping"
    /\ LET me == Running(m.to)
       IN  /\ wire' = wire \union {Ack(m.from, me, m.seq)}
           /\ heard' = [a \in Addr |->
                          \/ heard[a]
                          \/ probe[a] # NoProbe /\ probe[a].target = me]
    /\ UNCHANGED <<gen, nextSeq, waiting, probe, relays>>

\* A direct ack speaks for whoever sent it.
HandleAck(m) ==
    /\ m.type = "ack"
    /\ waiting' = [waiting EXCEPT ![m.to] = Resolve(@, m.seq, m.from)]
    /\ UNCHANGED <<gen, nextSeq, probe, relays, wire, heard>>

\* A node that knows the target pings it like any other; one that does not stays
\* silent.  Nobody is in its own table.
HandlePingReq(m) ==
    /\ m.type = "ping_req" /\ m.target # Running(m.to)
    /\ CanDraw(m.to)
    /\ LET b == m.to
           own == nextSeq[b]
       IN  /\ nextSeq' = [nextSeq EXCEPT ![b] = own + 1]
           /\ waiting' = [waiting EXCEPT ![b] = Register(@, own, m.target)]
           /\ relays' = [relays EXCEPT ![b] = @ \union
                 {[asker |-> m.from, seq |-> m.seq, target |-> m.target,
                   own |-> own, late |-> FALSE]}]
           /\ wire' = wire \union {Ping(m.target.addr, b, own)}
    /\ UNCHANGED <<gen, probe, heard>>

\* The relayed probe is answered, and the asker is told.
RelayReports(b, r) ==
    /\ ~r.late /\ Answered(b, r.own)
    /\ relays' = [relays EXCEPT ![b] = @ \ {r}]
    /\ wire' = wire \union {PingReqAck(r.asker, r.seq, r.target)}
    /\ UNCHANGED <<gen, nextSeq, waiting, probe, heard>>

RelayTimesOut(b, r) ==
    /\ ~r.late /\ ~Answered(b, r.own)
    /\ relays' = [relays EXCEPT ![b] = (@ \ {r}) \union {[r EXCEPT !.late = TRUE]}]
    /\ UNCHANGED <<gen, nextSeq, waiting, probe, wire, heard>>

\* It says nothing.
RelayGivesUp(b, r) ==
    /\ r.late
    /\ waiting' = [waiting EXCEPT ![b] = Forget(@, r.own)]
    /\ relays' = [relays EXCEPT ![b] = @ \ {r}]
    /\ UNCHANGED <<gen, nextSeq, probe, wire, heard>>

\* A relayed ack speaks for the target.
HandlePingReqAck(m) ==
    /\ m.type = "ping_req_ack"
    /\ waiting' = [waiting EXCEPT ![m.to] = Resolve(@, m.seq, m.target)]
    /\ UNCHANGED <<gen, nextSeq, probe, relays, wire, heard>>

\* The process at a ends and another takes its address, with a new id and its
\* numbers from zero.
Restart(a) ==
    /\ a \in Restarting /\ gen[a] < MaxGen
    /\ gen' = [gen EXCEPT ![a] = @ + 1]
    /\ nextSeq' = [nextSeq EXCEPT ![a] = 0]
    /\ waiting' = [waiting EXCEPT ![a] = {}]
    /\ probe' = [probe EXCEPT ![a] = NoProbe]
    /\ relays' = [relays EXCEPT ![a] = {}]
    /\ UNCHANGED <<wire, heard>>

ProbeStep(a) ==
    \/ ProbeAcked(a)
    \/ ProbeTimesOut(a)
    \/ \E helpers \in SUBSET Id : AskRelays(a, helpers)
    \/ ProbeFails(a)

RelayStep(b) ==
    \E r \in relays[b] : RelayReports(b, r) \/ RelayTimesOut(b, r) \/ RelayGivesUp(b, r)

Handle(m) ==
    \/ HandlePing(m)
    \/ HandleAck(m)
    \/ HandlePingReq(m)
    \/ HandlePingReqAck(m)

Next ==
    \/ \E a \in Addr :
          \/ \E t \in Id : StartProbe(a, t)
          \/ ProbeStep(a)
          \/ RelayStep(a)
          \/ Restart(a)
    \/ \E m \in wire : Handle(m)

Spec == Init /\ [][Next]_vars

-----------------------------------------------------------------------------
TypeOK ==
    /\ gen \in [Addr -> 0 .. MaxGen]
    /\ nextSeq \in [Addr -> 0 .. MaxSeq]
    /\ waiting \in [Addr -> SUBSET [seq : 0 .. MaxSeq - 1, subject : Id]]
    /\ probe \in [Addr -> {NoProbe} \union
          [target : Id, seq : 0 .. MaxSeq - 1, pc : Direct \union Indirect]]
    /\ relays \in [Addr -> SUBSET
          [asker : Addr, seq : 0 .. MaxSeq - 1, target : Id,
           own : 0 .. MaxSeq - 1, late : BOOLEAN]]
    /\ heard \in [Addr -> BOOLEAN]

\* "Only an answer about the node we asked about counts" (udp.rs, resolve), and
\* "the prober can tell which ping it answers" (UdpBody::Ping): a probe that has
\* its answer, directly or through a relay, probed a process that answered a ping
\* since the probe began, not one that answered long ago, not its successor at
\* the same address and not another member.
AnsweredMeansAlive ==
    \A a \in Addr :
        probe[a] # NoProbe /\ Answered(a, probe[a].seq) => heard[a]

\* A probe that is over leaves nothing waiting: the table is bounded by the probes
\* in flight, and no two of them share a number.
SeqsInUse(a) ==
    (IF probe[a] = NoProbe THEN {} ELSE {probe[a].seq}) \union {r.own : r \in relays[a]}
NothingLeftWaiting ==
    \A a \in Addr :
        /\ {e.seq : e \in waiting[a]} \subseteq SeqsInUse(a)
        /\ \A r, q \in relays[a] : r.own = q.own => r = q
        /\ probe[a] # NoProbe => \A r \in relays[a] : r.own # probe[a].seq
=============================================================================
