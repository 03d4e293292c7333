----------------------------- MODULE Probe_proofs -----------------------------
(***************************************************************************)
(* Proofs about Probe, for every set of addresses and every bound.         *)
(*                                                                         *)
(* Types and the bookkeeping of sequence numbers hold whoever is replaced. *)
(* That an answered probe probed a live process is proved for targets that *)
(* are replaced at their addresses, and for askers and relays that are not.*)
(***************************************************************************)
EXTENDS Probe, TLAPS

USE AddrAssumption, BoundAssumption, NoProbeAssumption

-----------------------------------------------------------------------------
(* The bookkeeping.                                                         *)

SeqNo == 0 .. MaxSeq - 1

Message ==
    [type : {"ping"}, to : Addr, from : Addr, seq : SeqNo]
    \union [type : {"ack"}, to : Addr, from : Id, seq : SeqNo]
    \union [type : {"ping_req"}, to : Addr, from : Addr, seq : SeqNo, target : Id]
    \union [type : {"ping_req_ack"}, to : Addr, seq : SeqNo, target : Id]

\* What waits at a is a probe's or a relay's, and each of these uses a number of its
\* own, drawn before.
Books(a) ==
    /\ \A e \in waiting[a] :
          \/ probe[a] # NoProbe /\ probe[a].seq = e.seq
          \/ \E r \in relays[a] : r.own = e.seq
    /\ probe[a] # NoProbe =>
          probe[a].seq < nextSeq[a] /\ \A r \in relays[a] : r.own # probe[a].seq
    /\ \A r \in relays[a] : r.own < nextSeq[a]
    /\ \A r, q \in relays[a] : r.own = q.own => r = q

IInv == TypeOK /\ wire \subseteq Message /\ \A a \in Addr : Books(a)

\* That is the property.
LEMMA BooksMean == (\A a \in Addr : Books(a)) => NothingLeftWaiting
BY DEF Books, NothingLeftWaiting, SeqsInUse

\* What is kept at an address is kept unless a step is its.
LEMMA BooksKept ==
    ASSUME NEW b \in Addr, Books(b), nextSeq'[b] = nextSeq[b],
           waiting'[b] = waiting[b], probe'[b] = probe[b], relays'[b] = relays[b]
    PROVE  Books(b)'
BY DEF Books

\* The process running at an address has an id.
LEMMA RunningType == ASSUME TypeOK, NEW a \in Addr PROVE Running(a) \in Id
BY DEF TypeOK, Running, Id

\* Who draws a number gets one within the bound.
LEMMA DrawType ==
    ASSUME TypeOK, NEW a \in Addr, CanDraw(a)
    PROVE  nextSeq[a] \in SeqNo /\ nextSeq[a] + 1 \in 0 .. MaxSeq
BY DEF TypeOK, CanDraw, SeqNo

\* A probe is no NoProbe, and a step of its task leaves it one.
LEMMA ProbeType ==
    ASSUME TypeOK, NEW a \in Addr, probe[a] # NoProbe
    PROVE  probe[a] \in [target : Id, seq : SeqNo, pc : Direct \union Indirect]
BY DEF TypeOK, SeqNo

LEMMA SomeProbe ==
    ASSUME NEW p \in [target : Id, seq : SeqNo, pc : Direct \union Indirect]
    PROVE  p # NoProbe
BY DEF SeqNo

\* Init establishes it.
LEMMA InitInv == Init => IInv
BY DEF Init, IInv, TypeOK, Books

\* A probe begins.
LEMMA StartProbeInv ==
    ASSUME IInv, NEW a \in Addr, NEW t \in Id, StartProbe(a, t)
    PROVE  IInv'
<1>1. TypeOK /\ wire \subseteq Message
  BY DEF IInv
<1>2. nextSeq[a] \in SeqNo /\ nextSeq[a] + 1 \in 0 .. MaxSeq
  BY <1>1, DrawType DEF StartProbe
<1>3. probe'[a] \in [target : Id, seq : SeqNo, pc : Direct \union Indirect]
  BY <1>1, <1>2 DEF StartProbe, TypeOK, Direct
<1>4. TypeOK'
  BY <1>1, <1>2, <1>3 DEF StartProbe, TypeOK, Register, SeqNo
<1>5. wire' \subseteq Message
  BY <1>1, <1>2 DEF StartProbe, Ping, Message, Id
<1>6. ASSUME NEW b \in Addr PROVE Books(b)'
  <2>1. CASE b = a
    <3>1. /\ waiting'[a] = waiting[a] \union {[seq |-> nextSeq[a], subject |-> t]}
          /\ probe[a] = NoProbe /\ probe'[a].seq = nextSeq[a]
          /\ nextSeq'[a] = nextSeq[a] + 1 /\ relays' = relays
      BY <1>1 DEF StartProbe, TypeOK, Register
    <3>2. \A r \in relays[a] : r.own \in SeqNo
      BY <1>1 DEF TypeOK, SeqNo
    <3> QED
      BY <2>1, <3>1, <3>2, <1>2, <1>3, SomeProbe DEF IInv, Books, SeqNo
  <2>2. CASE b # a
    BY <2>2, <1>1, BooksKept DEF IInv, StartProbe, TypeOK
  <2> QED
    BY <2>1, <2>2
<1> QED
  BY <1>4, <1>5, <1>6 DEF IInv

\* Its wait ends, with an answer or without.
LEMMA WaitEndsInv ==
    ASSUME IInv, NEW a \in Addr, ProbeAcked(a) \/ ProbeTimesOut(a)
    PROVE  IInv'
<1>1. TypeOK /\ wire \subseteq Message /\ probe[a] # NoProbe
  BY DEF IInv, ProbeAcked, ProbeTimesOut
<1>2. probe[a] \in [target : Id, seq : SeqNo, pc : Direct \union Indirect]
  BY <1>1, ProbeType
<1>3. CASE ProbeAcked(a)
  <2>1. TypeOK'
    BY <1>1, <1>3 DEF ProbeAcked, TypeOK
  <2>2. ASSUME NEW b \in Addr PROVE Books(b)'
    <3>1. CASE b = a
      <4>1. \A e \in waiting[a] : e.seq # probe[a].seq
        BY <1>3 DEF ProbeAcked, Answered
      <4> QED
        BY <4>1, <3>1, <1>1, <1>3 DEF IInv, Books, ProbeAcked, TypeOK
    <3>2. CASE b # a
      BY <3>2, <1>1, <1>3, BooksKept DEF IInv, ProbeAcked, TypeOK
    <3> QED
      BY <3>1, <3>2
  <2> QED
    BY <1>1, <1>3, <2>1, <2>2 DEF IInv, ProbeAcked
<1>4. CASE ProbeTimesOut(a)
  <2>1. /\ probe'[a] \in [target : Id, seq : SeqNo, pc : Direct \union Indirect]
        /\ probe'[a].seq = probe[a].seq
    BY <1>1, <1>2, <1>4 DEF ProbeTimesOut, TypeOK, Direct, Indirect
  <2>2. TypeOK'
    BY <1>1, <1>4, <2>1 DEF ProbeTimesOut, TypeOK, SeqNo
  <2>3. ASSUME NEW b \in Addr PROVE Books(b)'
    <3>1. CASE b = a
      BY <3>1, <2>1, <1>1, <1>4, SomeProbe DEF IInv, Books, ProbeTimesOut
    <3>2. CASE b # a
      BY <3>2, <1>1, <1>4, BooksKept DEF IInv, ProbeTimesOut, TypeOK
    <3> QED
      BY <3>1, <3>2
  <2> QED
    BY <1>1, <1>4, <2>2, <2>3 DEF IInv, ProbeTimesOut
<1> QED
  BY <1>3, <1>4

\* The second round: its number is fresh, the first one's entry is gone.
LEMMA AskRelaysInv ==
    ASSUME IInv, NEW a \in Addr, NEW helpers \in SUBSET Id, AskRelays(a, helpers)
    PROVE  IInv'
<1>1. TypeOK /\ wire \subseteq Message /\ probe[a] # NoProbe
  BY DEF IInv, AskRelays
<1>2. /\ probe[a] \in [target : Id, seq : SeqNo, pc : Direct \union Indirect]
      /\ nextSeq[a] \in SeqNo /\ nextSeq[a] + 1 \in 0 .. MaxSeq
  BY <1>1, ProbeType, DrawType DEF AskRelays
<1>3. /\ probe'[a] = [target |-> probe[a].target, seq |-> nextSeq[a], pc |-> "indirect"]
      /\ waiting'[a] = {e \in waiting[a] : e.seq # probe[a].seq}
                         \union {[seq |-> nextSeq[a], subject |-> probe[a].target]}
      /\ nextSeq'[a] = nextSeq[a] + 1 /\ relays' = relays
  BY <1>1 DEF AskRelays, TypeOK, Register, Forget
<1>4. probe'[a] \in [target : Id, seq : SeqNo, pc : Direct \union Indirect]
  BY <1>2, <1>3 DEF Indirect
<1>5. TypeOK'
  <2>1. waiting'[a] \subseteq [seq : 0 .. MaxSeq - 1, subject : Id]
    BY <1>1, <1>2, <1>3 DEF TypeOK, SeqNo
  <2> QED
    BY <1>1, <1>2, <1>3, <1>4, <2>1 DEF AskRelays, TypeOK, SeqNo
<1>6. wire' \subseteq Message
  BY <1>1, <1>2 DEF AskRelays, PingReq, Message, Id
<1>7. ASSUME NEW b \in Addr PROVE Books(b)'
  <2>1. CASE b = a
    <3>1. \A r \in relays[a] : r.own \in SeqNo
      BY <1>1 DEF TypeOK, SeqNo
    <3> QED
      BY <2>1, <3>1, <1>2, <1>3, <1>4, SomeProbe DEF IInv, Books, SeqNo
  <2>2. CASE b # a
    BY <2>2, <1>1, BooksKept DEF IInv, AskRelays, TypeOK
  <2> QED
    BY <2>1, <2>2
<1> QED
  BY <1>5, <1>6, <1>7 DEF IInv

\* A failed probe takes its entry with it.
LEMMA ProbeFailsInv ==
    ASSUME IInv, NEW a \in Addr, ProbeFails(a)
    PROVE  IInv'
<1>1. TypeOK /\ wire \subseteq Message /\ probe[a] # NoProbe
  BY DEF IInv, ProbeFails
<1>2. /\ probe'[a] = NoProbe /\ relays' = relays /\ nextSeq' = nextSeq
      /\ waiting'[a] = {e \in waiting[a] : e.seq # probe[a].seq}
  BY <1>1 DEF ProbeFails, TypeOK, ForgetProbe, Forget
<1>3. TypeOK'
  BY <1>1 DEF ProbeFails, TypeOK, ForgetProbe, Forget
<1>4. ASSUME NEW b \in Addr PROVE Books(b)'
  <2>1. CASE b = a
    BY <2>1, <1>1, <1>2 DEF IInv, Books
  <2>2. CASE b # a
    BY <2>2, <1>1, BooksKept DEF IInv, ProbeFails, TypeOK
  <2> QED
    BY <2>1, <2>2
<1> QED
  BY <1>1, <1>3, <1>4 DEF IInv, ProbeFails

\* A ping is answered.
LEMMA HandlePingInv ==
    ASSUME IInv, NEW m \in wire, HandlePing(m)
    PROVE  IInv'
<1>1. TypeOK /\ wire \subseteq Message
  BY DEF IInv
<1>2. m.to \in Addr /\ m.from \in Addr /\ m.seq \in SeqNo
  BY <1>1 DEF HandlePing, Message
<1>3. wire' \subseteq Message
  BY <1>1, <1>2, RunningType DEF HandlePing, Ack, Message
<1>4. TypeOK'
  BY <1>1 DEF HandlePing, TypeOK
<1>5. \A b \in Addr : Books(b)'
  BY BooksKept DEF IInv, HandlePing
<1> QED
  BY <1>3, <1>4, <1>5 DEF IInv

\* Entries that are resolved go, and nothing else does.
LEMMA ResolveInv ==
    ASSUME IInv, NEW a \in Addr, NEW s, NEW subject,
           waiting' = [waiting EXCEPT ![a] = Resolve(@, s, subject)],
           UNCHANGED <<gen, nextSeq, probe, relays, wire, heard>>
    PROVE  IInv'
<1>1. TypeOK /\ wire \subseteq Message
  BY DEF IInv
<1>2. /\ waiting' \in [Addr -> SUBSET [seq : 0 .. MaxSeq - 1, subject : Id]]
      /\ \A b \in Addr : waiting'[b] \subseteq waiting[b]
  BY <1>1 DEF TypeOK, Resolve
<1>3. TypeOK'
  BY <1>1, <1>2 DEF TypeOK
<1>4. \A b \in Addr : Books(b)'
  BY <1>2 DEF IInv, Books
<1> QED
  BY <1>1, <1>3, <1>4 DEF IInv

\* An answer, direct or relayed.
LEMMA AnswerInv ==
    ASSUME IInv, NEW m \in wire, HandleAck(m) \/ HandlePingReqAck(m)
    PROVE  IInv'
<1>1. m.to \in Addr
  BY DEF IInv, Message
<1>2. CASE HandleAck(m)
  BY <1>1, <1>2, ResolveInv DEF HandleAck
<1>3. CASE HandlePingReqAck(m)
  BY <1>1, <1>3, ResolveInv DEF HandlePingReqAck
<1> QED
  BY <1>2, <1>3

\* A relayed probe begins, like any other.
LEMMA HandlePingReqInv ==
    ASSUME IInv, NEW m \in wire, HandlePingReq(m)
    PROVE  IInv'
<1> DEFINE b == m.to
           r == [asker |-> m.from, seq |-> m.seq, target |-> m.target,
                 own |-> nextSeq[m.to], late |-> FALSE]
<1>1. TypeOK /\ wire \subseteq Message
  BY DEF IInv
<1>2. b \in Addr /\ m.from \in Addr /\ m.seq \in SeqNo /\ m.target \in Id
  BY <1>1 DEF HandlePingReq, Message
<1>3. nextSeq[b] \in SeqNo /\ nextSeq[b] + 1 \in 0 .. MaxSeq
  BY <1>1, <1>2, DrawType DEF HandlePingReq
<1>4. /\ waiting'[b] = waiting[b] \union {[seq |-> nextSeq[b], subject |-> m.target]}
      /\ relays'[b] = relays[b] \union {r}
      /\ nextSeq'[b] = nextSeq[b] + 1 /\ probe' = probe
  BY <1>1, <1>2 DEF HandlePingReq, TypeOK, Register
<1>5. r \in [asker : Addr, seq : SeqNo, target : Id, own : SeqNo, late : BOOLEAN]
  BY <1>2, <1>3
<1>6. TypeOK'
  <2>1. waiting'[b] \subseteq [seq : 0 .. MaxSeq - 1, subject : Id]
    BY <1>1, <1>2, <1>3, <1>4 DEF TypeOK, SeqNo
  <2>2. relays'[b] \subseteq [asker : Addr, seq : 0 .. MaxSeq - 1, target : Id,
                               own : 0 .. MaxSeq - 1, late : BOOLEAN]
    BY <1>1, <1>2, <1>4, <1>5 DEF TypeOK, SeqNo
  <2> QED
    BY <1>1, <1>2, <1>3, <1>4, <2>1, <2>2 DEF HandlePingReq, TypeOK
<1>7. wire' \subseteq Message
  BY <1>1, <1>2, <1>3 DEF HandlePingReq, Ping, Message, Id
<1>8. ASSUME NEW c \in Addr PROVE Books(c)'
  <2>1. CASE c = b
    <3>1. \A q \in relays[b] : q.own \in SeqNo
      BY <1>1, <1>2 DEF TypeOK, SeqNo
    <3>2. probe[b] # NoProbe => probe[b].seq \in SeqNo
      BY <1>1, <1>2, ProbeType
    <3>3. r.own = nextSeq[b]
      OBVIOUS
    <3> HIDE DEF r
    <3> QED
      BY <2>1, <3>1, <3>2, <3>3, <1>2, <1>3, <1>4 DEF IInv, Books, SeqNo
  <2>2. CASE c # b
    BY <2>2, <1>1, BooksKept DEF IInv, HandlePingReq, TypeOK
  <2> QED
    BY <2>1, <2>2
<1> QED
  BY <1>6, <1>7, <1>8 DEF IInv

\* A relayed probe ends, with an answer or without.
LEMMA RelayInv ==
    ASSUME IInv, NEW b \in Addr, NEW r \in relays[b],
           RelayReports(b, r) \/ RelayTimesOut(b, r) \/ RelayGivesUp(b, r)
    PROVE  IInv'
<1>1. TypeOK /\ wire \subseteq Message /\ Books(b)
  BY DEF IInv
<1>2. r \in [asker : Addr, seq : SeqNo, target : Id, own : SeqNo, late : BOOLEAN]
  BY <1>1 DEF TypeOK, SeqNo
<1>3. CASE RelayReports(b, r)
  <2>1. TypeOK' /\ wire' \subseteq Message /\ relays'[b] = relays[b] \ {r}
    BY <1>1, <1>2, <1>3 DEF RelayReports, TypeOK, PingReqAck, Message
  <2>2. \A e \in waiting[b] : e.seq # r.own
    BY <1>3 DEF RelayReports, Answered
  <2>3. Books(b)'
    BY <1>1, <1>3, <2>1, <2>2 DEF RelayReports, Books
  <2>4. \A c \in Addr \ {b} : Books(c)'
    BY <1>1, <1>3, BooksKept DEF IInv, RelayReports, TypeOK
  <2> QED
    BY <2>1, <2>3, <2>4 DEF IInv
<1>4. CASE RelayTimesOut(b, r)
  <2> DEFINE q == [r EXCEPT !.late = TRUE]
  <2>1. /\ q \in [asker : Addr, seq : SeqNo, target : Id, own : SeqNo, late : BOOLEAN]
        /\ q.own = r.own
    BY <1>2
  <2>2. relays'[b] = (relays[b] \ {r}) \union {q}
    BY <1>1, <1>4 DEF RelayTimesOut, TypeOK
  <2>3. TypeOK'
    <3>1. relays'[b] \subseteq [asker : Addr, seq : 0 .. MaxSeq - 1, target : Id,
                                 own : 0 .. MaxSeq - 1, late : BOOLEAN]
      BY <1>1, <2>1, <2>2 DEF TypeOK, SeqNo
    <3> QED
      BY <1>1, <1>4, <3>1 DEF RelayTimesOut, TypeOK
  <2> HIDE DEF q
  <2>4. Books(b)'
    BY <1>1, <1>4, <2>1, <2>2 DEF RelayTimesOut, Books
  <2>5. \A c \in Addr \ {b} : Books(c)'
    BY <1>1, <1>4, BooksKept DEF IInv, RelayTimesOut, TypeOK
  <2> QED
    BY <1>1, <1>4, <2>3, <2>4, <2>5 DEF IInv, RelayTimesOut
<1>5. CASE RelayGivesUp(b, r)
  <2>1. /\ TypeOK' /\ relays'[b] = relays[b] \ {r}
        /\ waiting'[b] = {e \in waiting[b] : e.seq # r.own}
    BY <1>1, <1>5 DEF RelayGivesUp, TypeOK, Forget
  <2>2. Books(b)'
    BY <1>1, <1>5, <2>1 DEF RelayGivesUp, Books
  <2>3. \A c \in Addr \ {b} : Books(c)'
    BY <1>1, <1>5, BooksKept DEF IInv, RelayGivesUp, TypeOK
  <2> QED
    BY <1>1, <1>5, <2>1, <2>2, <2>3 DEF IInv, RelayGivesUp
<1> QED
  BY <1>3, <1>4, <1>5

\* A process is replaced.
LEMMA RestartInv ==
    ASSUME IInv, NEW a \in Addr, Restart(a)
    PROVE  IInv'
<1>1. TypeOK /\ wire \subseteq Message
  BY DEF IInv
<1>2. TypeOK'
  BY <1>1 DEF Restart, TypeOK
<1>3. Books(a)'
  BY <1>1 DEF Restart, TypeOK, Books
<1>4. \A b \in Addr \ {a} : Books(b)'
  BY <1>1, BooksKept DEF IInv, Restart, TypeOK
<1> QED
  BY <1>1, <1>2, <1>3, <1>4 DEF IInv, Restart

\* Every step keeps it.
LEMMA NextInv == IInv /\ [Next]_vars => IInv'
<1> SUFFICES ASSUME IInv, [Next]_vars PROVE IInv'
  OBVIOUS
<1>1. CASE UNCHANGED vars
  BY <1>1 DEF vars, IInv, TypeOK, Books
<1>2. ASSUME NEW a \in Addr, ProbeStep(a) PROVE IInv'
  BY <1>2, WaitEndsInv, AskRelaysInv, ProbeFailsInv DEF ProbeStep
<1>3. ASSUME NEW m \in wire, Handle(m) PROVE IInv'
  BY <1>3, HandlePingInv, AnswerInv, HandlePingReqInv DEF Handle
<1> QED
  BY <1>1, <1>2, <1>3, StartProbeInv, RelayInv, RestartInv DEF Next, RelayStep

\* Types, and that no two probes under way at one process share a number and none
\* that is over leaves anything waiting (udp.rs, PendingAcks), whoever is replaced.
THEOREM Invariance == Spec => []IInv
<1>1. Init => IInv
  BY InitInv
<1>2. IInv /\ [Next]_vars => IInv'
  BY NextInv
<1> QED
  BY <1>1, <1>2, PTL DEF Spec

\* Every variable keeps its type.
THEOREM TypeCorrect == Spec => []TypeOK
<1>1. IInv => TypeOK
  BY DEF IInv
<1> QED
  BY <1>1, Invariance, PTL

\* A probe that is over leaves nothing waiting, and probes under way do not share a
\* number: the table of waiting probes is bounded by them.
THEOREM NothingLeft == Spec => []NothingLeftWaiting
<1>1. IInv => NothingLeftWaiting
  BY BooksMean DEF IInv
<1> QED
  BY <1>1, Invariance, PTL

-----------------------------------------------------------------------------
(* An answered probe probed a live process.                                 *)
(*                                                                         *)
(* Numbers are drawn in order and never again, as long as whoever draws    *)
(* them lives on.  So nothing on the wire answers a probe that begins, and *)
(* what comes to answer it was made since, by the target.                  *)

\* Whoever draws numbers is never replaced at its address.
Steady == Restarting \intersect (Prober \union Helper) = {}

Counting == Prober \union Helper

\* Who probes and who relays.
Roles ==
    /\ \A a \in Addr : probe[a] # NoProbe => a \in Prober
    /\ \A b \in Addr : relays[b] # {} => b \in Helper
    /\ \A m \in wire : m.type = "ping_req" => m.to \in Helper

\* Every number that is about, on the wire or with a relay, was drawn.
Fresh ==
    \A a \in Counting :
        /\ \A m \in wire : m.type \in {"ack", "ping_req_ack"} /\ m.to = a
                              => m.seq < nextSeq[a]
        /\ \A m \in wire : m.type \in {"ping", "ping_req"} /\ m.from = a
                              => m.seq < nextSeq[a]
        /\ \A b \in Addr : \A r \in relays[b] : r.asker = a => r.seq < nextSeq[a]

\* The number of a relayed probe is its relay's own, and nobody else is asked by it.
Apart ==
    \A b \in Addr : \A r \in relays[b] :
        /\ \A m \in wire : m.type = "ping_req" /\ m.from = b => m.seq # r.own
        /\ \A m \in wire : m.type = "ping_req_ack" /\ m.to = b => m.seq # r.own
        /\ \A c \in Addr : \A q \in relays[c] : q.asker = b => q.seq # r.own

\* The probe that a has under way is the one of t numbered s.
IsProbe(a, s, t) == probe[a] # NoProbe /\ probe[a].seq = s /\ probe[a].target = t

\* Where an answer to the probe under way may come from, the target has been heard.
Heard ==
    /\ \A a \in Addr : probe[a] # NoProbe =>
          heard[a] \/ [seq |-> probe[a].seq, subject |-> probe[a].target] \in waiting[a]
    /\ \A m \in wire : m.type = "ack" /\ IsProbe(m.to, m.seq, m.from) => heard[m.to]
    /\ \A m \in wire : m.type = "ping_req_ack" /\ IsProbe(m.to, m.seq, m.target)
                          => heard[m.to]
    /\ \A b \in Addr : \A r \in relays[b] :
          ~r.late /\ IsProbe(r.asker, r.seq, r.target) =>
              heard[r.asker] \/ [seq |-> r.own, subject |-> r.target] \in waiting[b]
    /\ \A b \in Addr : \A r \in relays[b] : \A m \in wire :
          /\ ~r.late /\ m.type = "ack"
          /\ m.to = b /\ m.seq = r.own /\ m.from = r.target
          /\ IsProbe(r.asker, r.seq, r.target)
          => heard[r.asker]

HInv == Roles /\ Fresh /\ Apart /\ Heard

\* That is the property.
LEMMA HeardMeans == HInv => AnsweredMeansAlive
BY DEF HInv, Heard, AnsweredMeansAlive, Answered

\* Init establishes it.
LEMMA InitHears == Init => HInv
BY DEF Init, HInv, Roles, Fresh, Apart, Heard

\* Numbers that grow stay ahead of what is about.
LEMMA FreshGrows ==
    ASSUME TypeOK, wire \subseteq Message, Fresh,
           \A c \in Counting : nextSeq'[c] \in Nat /\ nextSeq[c] <= nextSeq'[c],
           \A m \in wire' : m \in wire \/
              /\ m.type \in {"ack", "ping_req_ack"} /\ m.to \in Counting
                    => m.seq < nextSeq'[m.to]
              /\ m.type \in {"ping", "ping_req"} /\ m.from \in Counting
                    => m.seq < nextSeq'[m.from],
           \A b \in Addr : \A r \in relays'[b] :
              \/ \E q \in relays[b] : q.asker = r.asker /\ q.seq = r.seq
              \/ r.asker \in Counting => r.seq < nextSeq'[r.asker]
    PROVE  Fresh'
<1>1. \A m \in wire : m.seq \in Nat
  BY DEF Message, SeqNo
<1>2. \A b \in Addr : \A r \in relays[b] : r.seq \in Nat
  BY DEF TypeOK
<1> SUFFICES ASSUME NEW c \in Counting
             PROVE  /\ \A m \in wire' : m.type \in {"ack", "ping_req_ack"} /\ m.to = c
                                           => m.seq < nextSeq'[c]
                    /\ \A m \in wire' : m.type \in {"ping", "ping_req"} /\ m.from = c
                                           => m.seq < nextSeq'[c]
                    /\ \A b \in Addr : \A r \in relays'[b] :
                          r.asker = c => r.seq < nextSeq'[c]
  BY DEF Fresh
<1>3. nextSeq[c] \in Nat /\ nextSeq'[c] \in Nat /\ nextSeq[c] <= nextSeq'[c]
  BY DEF TypeOK, Counting
<1>4. \A m \in wire' : m.type \in {"ack", "ping_req_ack"} /\ m.to = c
                          => m.seq < nextSeq'[c]
  BY <1>1, <1>3 DEF Fresh
<1>5. \A m \in wire' : m.type \in {"ping", "ping_req"} /\ m.from = c
                          => m.seq < nextSeq'[c]
  BY <1>1, <1>3 DEF Fresh
<1>6. \A b \in Addr : \A r \in relays'[b] : r.asker = c => r.seq < nextSeq'[c]
  BY <1>2, <1>3 DEF Fresh
<1> QED
  BY <1>4, <1>5, <1>6

\* A probe begins: its number is on no message and with no relay.
LEMMA StartProbeHears ==
    ASSUME IInv, HInv, NEW a \in Addr, NEW t \in Id, StartProbe(a, t)
    PROVE  HInv'
<1> DEFINE p == Ping(t.addr, a, nextSeq[a])
<1>1. TypeOK /\ wire \subseteq Message
  BY DEF IInv
<1>2. /\ a \in Prober /\ a \in Counting /\ probe[a] = NoProbe /\ nextSeq[a] \in Nat
      /\ probe' = [probe EXCEPT ![a] = [target |-> t, seq |-> nextSeq[a], pc |-> "direct"]]
      /\ probe'[a] = [target |-> t, seq |-> nextSeq[a], pc |-> "direct"]
      /\ \A b \in Addr \ {a} : probe'[b] = probe[b] /\ heard'[b] = heard[b]
      /\ \A b \in Addr : waiting[b] \subseteq waiting'[b]
      /\ [seq |-> nextSeq[a], subject |-> t] \in waiting'[a]
      /\ nextSeq'[a] = nextSeq[a] + 1 /\ \A b \in Addr \ {a} : nextSeq'[b] = nextSeq[b]
      /\ relays' = relays
  BY <1>1 DEF StartProbe, TypeOK, Register, Counting
<1>3. wire' = wire \union {p} /\ p.type = "ping" /\ p.from = a /\ p.seq = nextSeq[a]
  BY DEF StartProbe, Ping
<1>4. \A c \in Counting : nextSeq'[c] \in Nat /\ nextSeq[c] <= nextSeq'[c]
  BY <1>1, <1>2 DEF Counting, TypeOK
<1> HIDE DEF p
<1>5. Roles'
  BY <1>2, <1>3 DEF HInv, Roles
<1>6. Fresh'
  BY <1>1, <1>2, <1>3, <1>4, FreshGrows DEF HInv
<1>7. Apart'
  BY <1>2, <1>3 DEF HInv, Apart
<1>8. \A b \in Addr, s \in Nat : \A u :
         IsProbe(b, s, u)' => \/ b = a /\ s = nextSeq[a]
                              \/ b # a /\ IsProbe(b, s, u)
  BY <1>2 DEF IsProbe
<1>9. Heard'
  <2>1. \A m \in wire : m.to \in Addr /\ m.seq \in Nat
    BY <1>1 DEF Message, SeqNo
  <2>2. \A m \in wire : m.type \in {"ack", "ping_req_ack"} /\ m.to = a => m.seq # nextSeq[a]
    BY <1>2, <2>1 DEF HInv, Fresh
  <2>3. \A b \in Addr : \A r \in relays[b] :
           /\ r.asker \in Addr /\ r.seq \in Nat
           /\ r.asker = a => r.seq # nextSeq[a]
    BY <1>1, <1>2 DEF HInv, Fresh, TypeOK
  <2>4. \A b \in Addr : probe'[b] # NoProbe =>
           heard'[b] \/ [seq |-> probe'[b].seq, subject |-> probe'[b].target] \in waiting'[b]
    BY <1>2 DEF HInv, Heard
  <2>5. \A m \in wire' : m.type = "ack" /\ IsProbe(m.to, m.seq, m.from)' => heard'[m.to]
    BY <2>1, <2>2, <1>2, <1>3, <1>8 DEF HInv, Heard
  <2>6. \A m \in wire' : m.type = "ping_req_ack" /\ IsProbe(m.to, m.seq, m.target)'
                            => heard'[m.to]
    BY <2>1, <2>2, <1>2, <1>3, <1>8 DEF HInv, Heard
  <2>7. \A b \in Addr : \A r \in relays'[b] :
           IsProbe(r.asker, r.seq, r.target)' =>
              r.asker # a /\ IsProbe(r.asker, r.seq, r.target)
    BY <2>3, <1>2, <1>8
  <2>8. \A b \in Addr : \A r \in relays'[b] :
          ~r.late /\ IsProbe(r.asker, r.seq, r.target)' =>
              heard'[r.asker] \/ [seq |-> r.own, subject |-> r.target] \in waiting'[b]
    BY <2>3, <2>7, <1>2 DEF HInv, Heard
  <2>9. \A b \in Addr : \A r \in relays'[b] : \A m \in wire' :
          /\ ~r.late /\ m.type = "ack"
          /\ m.to = b /\ m.seq = r.own /\ m.from = r.target
          /\ IsProbe(r.asker, r.seq, r.target)'
          => heard'[r.asker]
    BY <2>3, <2>7, <1>2, <1>3 DEF HInv, Heard
  <2> QED
    BY <2>4, <2>5, <2>6, <2>8, <2>9 DEF Heard
<1> QED
  BY <1>5, <1>6, <1>7, <1>9 DEF HInv

\* A step that begins no probe, neither of a member nor relayed, and acks nothing.
LEMMA HeardKept ==
    ASSUME Heard, heard' = heard,
           \A b \in Addr : \A s, u : IsProbe(b, s, u)' => IsProbe(b, s, u),
           \A b \in Addr : \A r \in relays'[b] : ~r.late => r \in relays[b],
           \A b \in Addr : \A r \in relays[b] : r.asker \in Addr,
           \A m \in wire : m.to \in Addr,
           \A m \in wire' : m \in wire \/
              /\ m.type # "ack"
              /\ m.type = "ping_req_ack" /\ IsProbe(m.to, m.seq, m.target)' => heard[m.to],
           \A b \in Addr : probe'[b] # NoProbe =>
              LET e == [seq |-> probe[b].seq, subject |-> probe[b].target]
              IN  e \in waiting[b] => heard[b] \/ e \in waiting'[b],
           \A b \in Addr : \A r \in relays'[b] :
              LET e == [seq |-> r.own, subject |-> r.target]
              IN  ~r.late /\ IsProbe(r.asker, r.seq, r.target) /\ e \in waiting[b]
                     => heard[r.asker] \/ e \in waiting'[b]
    PROVE  Heard'
<1>1. \A b \in Addr : probe'[b] # NoProbe =>
         heard'[b] \/ [seq |-> probe'[b].seq, subject |-> probe'[b].target] \in waiting'[b]
  <2> SUFFICES ASSUME NEW b \in Addr, probe'[b] # NoProbe
               PROVE  heard'[b] \/ [seq |-> probe'[b].seq, subject |-> probe'[b].target]
                                      \in waiting'[b]
    OBVIOUS
  <2>1. PICK s, u : s = probe'[b].seq /\ u = probe'[b].target
    OBVIOUS
  <2>2. IsProbe(b, s, u)'
    BY <2>1 DEF IsProbe
  <2>3. IsProbe(b, s, u)
    BY <2>2
  <2> QED
    BY <2>1, <2>3 DEF IsProbe, Heard
<1>2. \A m \in wire' : m.type = "ack" /\ IsProbe(m.to, m.seq, m.from)' => heard'[m.to]
  BY DEF Heard
<1>3. \A m \in wire' : m.type = "ping_req_ack" /\ IsProbe(m.to, m.seq, m.target)'
                          => heard'[m.to]
  BY DEF Heard
<1>4. \A b \in Addr : \A r \in relays'[b] :
         ~r.late /\ IsProbe(r.asker, r.seq, r.target)' =>
             heard'[r.asker] \/ [seq |-> r.own, subject |-> r.target] \in waiting'[b]
  BY DEF Heard
<1>5. \A b \in Addr : \A r \in relays'[b] : \A m \in wire' :
         /\ ~r.late /\ m.type = "ack"
         /\ m.to = b /\ m.seq = r.own /\ m.from = r.target
         /\ IsProbe(r.asker, r.seq, r.target)'
         => heard'[r.asker]
  BY DEF Heard
<1> QED
  BY <1>1, <1>2, <1>3, <1>4, <1>5 DEF Heard

\* What the lemmas on steps start from.
LEMMA Types ==
    ASSUME IInv
    PROVE  /\ TypeOK /\ wire \subseteq Message
           /\ \A m \in wire : m.to \in Addr /\ m.seq \in SeqNo
           /\ \A c \in Counting : c \in Addr /\ nextSeq[c] \in Nat
           /\ \A b \in Addr : \A r \in relays[b] :
                 r.asker \in Addr /\ r.seq \in SeqNo /\ r.own \in SeqNo /\ r.target \in Id
BY DEF IInv, TypeOK, Message, SeqNo, Counting

\* A wait ends.
LEMMA WaitEndsHears ==
    ASSUME IInv, HInv, NEW a \in Addr, ProbeAcked(a) \/ ProbeTimesOut(a)
    PROVE  HInv'
<1>1. /\ \A b \in Addr \ {a} : probe'[b] = probe[b]
      /\ probe[a] # NoProbe
      /\ probe'[a] # NoProbe =>
            probe'[a].seq = probe[a].seq /\ probe'[a].target = probe[a].target
      /\ UNCHANGED <<gen, nextSeq, waiting, relays, wire, heard>>
  <2>1. probe[a] # NoProbe /\ probe[a] \in [target : Id, seq : SeqNo, pc : Direct \union Indirect]
    BY Types, ProbeType DEF ProbeAcked, ProbeTimesOut
  <2> QED
    BY <2>1, Types DEF ProbeAcked, ProbeTimesOut, TypeOK
<1>2. Roles' /\ Apart'
  BY <1>1 DEF HInv, Roles, Apart
<1>3. Fresh'
  BY <1>1 DEF HInv, Fresh
<1>4. \A b \in Addr : \A s, u : IsProbe(b, s, u)' => IsProbe(b, s, u)
  BY <1>1 DEF IsProbe
<1>5. Heard'
  BY <1>1, <1>4, Types, HeardKept DEF HInv
<1> QED
  BY <1>2, <1>3, <1>5 DEF HInv

\* A probe fails; no relay waits under its number.
LEMMA ProbeFailsHears ==
    ASSUME IInv, HInv, NEW a \in Addr, ProbeFails(a)
    PROVE  HInv'
<1>1. /\ probe[a] # NoProbe /\ probe'[a] = NoProbe
      /\ \A b \in Addr \ {a} : probe'[b] = probe[b] /\ waiting'[b] = waiting[b]
      /\ waiting'[a] = {e \in waiting[a] : e.seq # probe[a].seq}
      /\ UNCHANGED <<gen, nextSeq, relays, wire, heard>>
  BY Types DEF ProbeFails, TypeOK, ForgetProbe, Forget
<1>2. Roles' /\ Apart'
  BY <1>1 DEF HInv, Roles, Apart
<1>3. Fresh'
  BY <1>1 DEF HInv, Fresh
<1>4. \A b \in Addr : \A s, u : IsProbe(b, s, u)' => IsProbe(b, s, u)
  BY <1>1 DEF IsProbe
<1>5. \A r \in relays[a] : r.own # probe[a].seq
  BY <1>1 DEF IInv, Books
<1>6. Heard'
  BY <1>1, <1>4, <1>5, Types, HeardKept DEF HInv
<1> QED
  BY <1>2, <1>3, <1>6 DEF HInv

\* The second round begins, under a number on no message and with no relay.
LEMMA AskRelaysHears ==
    ASSUME IInv, HInv, NEW a \in Addr, NEW helpers \in SUBSET Id, AskRelays(a, helpers)
    PROVE  HInv'
<1> DEFINE t == probe[a].target
           s == nextSeq[a]
<1>1. /\ probe[a] # NoProbe /\ a \in Prober /\ a \in Counting /\ s \in Nat
      /\ probe'[a] = [target |-> t, seq |-> s, pc |-> "indirect"]
      /\ \A b \in Addr \ {a} : probe'[b] = probe[b] /\ waiting'[b] = waiting[b]
      /\ waiting'[a] = {e \in waiting[a] : e.seq # probe[a].seq}
                          \union {[seq |-> s, subject |-> t]}
      /\ nextSeq'[a] = s + 1 /\ \A b \in Addr \ {a} : nextSeq'[b] = nextSeq[b]
      /\ UNCHANGED <<relays, heard>>
  BY Types DEF AskRelays, TypeOK, Register, Forget, HInv, Roles, Counting
<1>2. \A m \in wire' : m \in wire \/
         (m.type = "ping_req" /\ m.from = a /\ m.seq = s /\ m.to \in Helper)
  <2>1. wire' = wire \union {PingReq(h.addr, a, s, t) : h \in helpers}
    BY DEF AskRelays
  <2>2. \A h \in helpers : h.addr \in Helper
    BY DEF AskRelays
  <2>3. \A h \in helpers : LET k == PingReq(h.addr, a, s, t)
                           IN  k.type = "ping_req" /\ k.from = a /\ k.seq = s /\ k.to = h.addr
    BY DEF PingReq
  <2> HIDE DEF s, t
  <2> QED
    BY <2>1, <2>2, <2>3
<1>3. \A c \in Counting : nextSeq'[c] \in Nat /\ nextSeq[c] <= nextSeq'[c]
  BY <1>1, Types
<1> HIDE DEF s, t
<1>4. Roles'
  <2>1. \A b \in Addr : probe'[b] # NoProbe => b \in Prober
    BY <1>1 DEF HInv, Roles
  <2> QED
    BY <2>1, <1>1, <1>2 DEF HInv, Roles
<1>5. Fresh'
  BY <1>1, <1>2, <1>3, Types, FreshGrows DEF HInv
<1>6. Apart'
  <2>1. \A r \in relays[a] : r.own < s /\ r.own \in Nat
    BY Types DEF IInv, Books, s, SeqNo
  <2>2. \A b \in Addr : \A r \in relays'[b] : \A m \in wire' :
           m.type = "ping_req" /\ m.from = b => m.seq # r.own
    BY <2>1, <1>1, <1>2 DEF HInv, Apart
  <2>3. \A b \in Addr : \A r \in relays'[b] : \A m \in wire' :
           m.type = "ping_req_ack" /\ m.to = b => m.seq # r.own
    BY <1>1, <1>2 DEF HInv, Apart
  <2> QED
    BY <2>2, <2>3, <1>1 DEF HInv, Apart
<1>7. Heard'
  <2>1. \A m \in wire : m.type \in {"ack", "ping_req_ack"} /\ m.to = a => m.seq # s
    BY <1>1, Types DEF HInv, Fresh, s, SeqNo
  <2>2. \A b \in Addr : \A r \in relays[b] : r.asker = a => r.seq # s
    BY <1>1, Types DEF HInv, Fresh, s, SeqNo
  <2>3. \A b \in Addr \ {a} : \A q, u : IsProbe(b, q, u)' => IsProbe(b, q, u)
    BY <1>1 DEF IsProbe
  <2>4. \A q, u : IsProbe(a, q, u)' => q = s
    BY <1>1 DEF IsProbe
  <2>5. \A b \in Addr : probe'[b] # NoProbe =>
           heard'[b] \/ [seq |-> probe'[b].seq, subject |-> probe'[b].target] \in waiting'[b]
    BY <1>1 DEF HInv, Heard
  <2>6. \A m \in wire' : m.type = "ack" /\ IsProbe(m.to, m.seq, m.from)' => heard'[m.to]
    BY <2>1, <2>3, <2>4, <1>1, <1>2, Types DEF HInv, Heard
  <2>7. \A m \in wire' : m.type = "ping_req_ack" /\ IsProbe(m.to, m.seq, m.target)'
                            => heard'[m.to]
    BY <2>1, <2>3, <2>4, <1>1, <1>2, Types DEF HInv, Heard
  <2>8. \A b \in Addr : \A r \in relays'[b] :
           IsProbe(r.asker, r.seq, r.target)' => IsProbe(r.asker, r.seq, r.target)
    BY <2>2, <2>3, <2>4, <1>1, Types
  <2>9. \A b \in Addr : \A r \in relays[b] : \A e \in waiting[b] :
           e.seq = r.own => e \in waiting'[b]
    BY <1>1 DEF IInv, Books
  <2>10. \A b \in Addr : \A r \in relays'[b] :
           ~r.late /\ IsProbe(r.asker, r.seq, r.target)' =>
               heard'[r.asker] \/ [seq |-> r.own, subject |-> r.target] \in waiting'[b]
    BY <2>8, <2>9, <1>1 DEF HInv, Heard
  <2>11. \A b \in Addr : \A r \in relays'[b] : \A m \in wire' :
           /\ ~r.late /\ m.type = "ack"
           /\ m.to = b /\ m.seq = r.own /\ m.from = r.target
           /\ IsProbe(r.asker, r.seq, r.target)'
           => heard'[r.asker]
    BY <2>8, <1>1, <1>2 DEF HInv, Heard
  <2> QED
    BY <2>5, <2>6, <2>7, <2>10, <2>11 DEF Heard
<1> QED
  BY <1>4, <1>5, <1>6, <1>7 DEF HInv

\* A process answers a ping: whoever has it for a target has heard it.
LEMMA HandlePingHears ==
    ASSUME IInv, HInv, NEW m \in wire, HandlePing(m)
    PROVE  HInv'
<1> DEFINE me == Running(m.to)
           k == Ack(m.from, me, m.seq)
<1>1. /\ wire' = wire \union {k}
      /\ k.type = "ack" /\ k.to = m.from /\ k.from = me /\ k.seq = m.seq
      /\ m.type = "ping" /\ m.from \in Addr
      /\ UNCHANGED <<gen, nextSeq, waiting, probe, relays>>
  BY Types DEF HandlePing, Ack, Message
<1>2. \A a \in Addr : heard'[a] = (heard[a] \/ (probe[a] # NoProbe /\ probe[a].target = me))
  BY DEF HandlePing
<1> HIDE DEF k, me
<1>3. Roles' /\ Apart'
  BY <1>1 DEF HInv, Roles, Apart
<1>4. Fresh'
  <2>1. \A c \in Counting : nextSeq'[c] \in Nat /\ nextSeq[c] <= nextSeq'[c]
    BY <1>1, Types
  <2>2. m.from \in Counting => m.seq < nextSeq'[m.from]
    BY <1>1 DEF HInv, Fresh
  <2> QED
    BY <2>1, <2>2, <1>1, Types, FreshGrows DEF HInv
<1>5. \A b, s, u : IsProbe(b, s, u)' = IsProbe(b, s, u)
  BY <1>1 DEF IsProbe
<1>6. \A b \in Addr : \A s : IsProbe(b, s, me) => heard'[b]
  BY <1>2 DEF IsProbe
<1>7. \A b \in Addr : heard[b] => heard'[b]
  BY <1>2
<1>8. Heard'
  <2>1. \A b \in Addr : probe'[b] # NoProbe =>
           heard'[b] \/ [seq |-> probe'[b].seq, subject |-> probe'[b].target] \in waiting'[b]
    BY <1>1, <1>7 DEF HInv, Heard
  <2>2. \A j \in wire' : j.type = "ack" /\ IsProbe(j.to, j.seq, j.from)' => heard'[j.to]
    BY <1>1, <1>5, <1>6, <1>7, Types DEF HInv, Heard
  <2>3. \A j \in wire' : j.type = "ping_req_ack" /\ IsProbe(j.to, j.seq, j.target)'
                            => heard'[j.to]
    BY <1>1, <1>5, <1>7, Types DEF HInv, Heard
  <2>4. \A b \in Addr : \A r \in relays'[b] :
           ~r.late /\ IsProbe(r.asker, r.seq, r.target)' =>
               heard'[r.asker] \/ [seq |-> r.own, subject |-> r.target] \in waiting'[b]
    BY <1>1, <1>5, <1>7, Types DEF HInv, Heard
  <2>5. \A b \in Addr : \A r \in relays'[b] : \A j \in wire' :
           /\ ~r.late /\ j.type = "ack"
           /\ j.to = b /\ j.seq = r.own /\ j.from = r.target
           /\ IsProbe(r.asker, r.seq, r.target)'
           => heard'[r.asker]
    BY <1>1, <1>5, <1>6, <1>7, Types DEF HInv, Heard
  <2> QED
    BY <2>1, <2>2, <2>3, <2>4, <2>5 DEF Heard
<1> QED
  BY <1>3, <1>4, <1>8 DEF HInv

\* An ack resolves an entry: its probe's target has been heard.
LEMMA HandleAckHears ==
    ASSUME IInv, HInv, NEW m \in wire, HandleAck(m)
    PROVE  HInv'
<1>1. /\ m.type = "ack" /\ m.to \in Addr
      /\ \A b \in Addr \ {m.to} : waiting'[b] = waiting[b]
      /\ waiting'[m.to] = {e \in waiting[m.to] : ~(e.seq = m.seq /\ e.subject = m.from)}
      /\ UNCHANGED <<gen, nextSeq, probe, relays, wire, heard>>
  BY Types DEF HandleAck, TypeOK, Resolve
<1>2. Roles' /\ Apart' /\ Fresh'
  BY <1>1 DEF HInv, Roles, Apart, Fresh
<1>3. \A b, s, u : IsProbe(b, s, u)' => IsProbe(b, s, u)
  BY <1>1 DEF IsProbe
<1>4. \A b \in Addr : probe'[b] # NoProbe =>
         LET e == [seq |-> probe[b].seq, subject |-> probe[b].target]
         IN  e \in waiting[b] => heard[b] \/ e \in waiting'[b]
  BY <1>1 DEF HInv, Heard, IsProbe
<1>5. \A b \in Addr : \A r \in relays'[b] :
         LET e == [seq |-> r.own, subject |-> r.target]
         IN  ~r.late /\ IsProbe(r.asker, r.seq, r.target) /\ e \in waiting[b]
                => heard[r.asker] \/ e \in waiting'[b]
  BY <1>1 DEF HInv, Heard
<1>6. Heard'
  BY <1>1, <1>3, <1>4, <1>5, Types, HeardKept DEF HInv
<1> QED
  BY <1>2, <1>6 DEF HInv

\* So does a relay's, and never the entry of another relayed probe.
LEMMA HandlePingReqAckHears ==
    ASSUME IInv, HInv, NEW m \in wire, HandlePingReqAck(m)
    PROVE  HInv'
<1>1. /\ m.type = "ping_req_ack" /\ m.to \in Addr
      /\ \A b \in Addr \ {m.to} : waiting'[b] = waiting[b]
      /\ waiting'[m.to] = {e \in waiting[m.to] : ~(e.seq = m.seq /\ e.subject = m.target)}
      /\ UNCHANGED <<gen, nextSeq, probe, relays, wire, heard>>
  BY Types DEF HandlePingReqAck, TypeOK, Resolve
<1>2. Roles' /\ Apart' /\ Fresh'
  BY <1>1 DEF HInv, Roles, Apart, Fresh
<1>3. \A b, s, u : IsProbe(b, s, u)' => IsProbe(b, s, u)
  BY <1>1 DEF IsProbe
<1>4. \A b \in Addr : probe'[b] # NoProbe =>
         LET e == [seq |-> probe[b].seq, subject |-> probe[b].target]
         IN  e \in waiting[b] => heard[b] \/ e \in waiting'[b]
  BY <1>1 DEF HInv, Heard, IsProbe
<1>5. \A b \in Addr : \A r \in relays'[b] :
         LET e == [seq |-> r.own, subject |-> r.target]
         IN  ~r.late /\ IsProbe(r.asker, r.seq, r.target) /\ e \in waiting[b]
                => heard[r.asker] \/ e \in waiting'[b]
  BY <1>1 DEF HInv, Apart
<1>6. Heard'
  BY <1>1, <1>3, <1>4, <1>5, Types, HeardKept DEF HInv
<1> QED
  BY <1>2, <1>6 DEF HInv

\* A relayed probe begins under a number on no message, for what a ping_req asked.
LEMMA HandlePingReqHears ==
    ASSUME IInv, HInv, NEW m \in wire, HandlePingReq(m)
    PROVE  HInv'
<1> DEFINE b == m.to
           own == nextSeq[b]
           p == Ping(m.target.addr, b, own)
           r == [asker |-> m.from, seq |-> m.seq, target |-> m.target,
                 own |-> own, late |-> FALSE]
<1>1. /\ m.type = "ping_req" /\ b \in Helper /\ b \in Addr /\ b \in Counting
      /\ m.from \in Addr /\ own \in Nat /\ m.seq \in SeqNo
      /\ m.from \in Counting => m.seq < nextSeq[m.from]
  BY Types DEF HandlePingReq, HInv, Roles, Fresh, Counting, Message
<1>2. /\ wire' = wire \union {p} /\ p.type = "ping" /\ p.from = b /\ p.seq = own
      /\ r.asker = m.from /\ r.seq = m.seq /\ r.own = own
      /\ ~r.late /\ r.target = m.target
      /\ UNCHANGED <<gen, probe, heard>>
  BY DEF HandlePingReq, Ping
<1>3. /\ nextSeq'[b] = own + 1 /\ \A c \in Addr \ {b} : nextSeq'[c] = nextSeq[c]
      /\ relays'[b] = relays[b] \union {r}
      /\ \A c \in Addr \ {b} : relays'[c] = relays[c]
      /\ \A c \in Addr : waiting[c] \subseteq waiting'[c]
      /\ [seq |-> own, subject |-> m.target] \in waiting'[b]
  BY <1>1, Types DEF HandlePingReq, TypeOK, Register
<1> HIDE DEF b, own, p, r
<1>4. \A c \in Counting : nextSeq'[c] \in Nat /\ nextSeq[c] <= nextSeq'[c]
  BY <1>1, <1>3, Types DEF own
<1>5. Roles'
  BY <1>1, <1>2, <1>3 DEF HInv, Roles
<1>6. Fresh'
  <2>1. m.from \in Counting => m.seq < nextSeq'[m.from]
    BY <1>1, <1>4, Types DEF SeqNo
  <2>2. p.from \in Counting => p.seq < nextSeq'[p.from]
    BY <1>1, <1>2, <1>3
  <2> QED
    BY <2>1, <2>2, <1>2, <1>3, <1>4, Types, FreshGrows DEF HInv
<1>7. Apart'
  <2>1. \A j \in wire : /\ j.type = "ping_req" /\ j.from = b => j.seq # own
                        /\ j.type = "ping_req_ack" /\ j.to = b => j.seq # own
    BY <1>1, Types DEF HInv, Fresh, own, SeqNo
  <2>2. \A c \in Addr : \A q \in relays[c] : q.asker = b => q.seq # own
    BY <1>1, Types DEF HInv, Fresh, own, SeqNo
  <2>3. m.from = b => m.seq # own
    BY <1>1 DEF own, SeqNo
  <2>4. \A c \in Addr : \A q \in relays[c] : m.from = c => m.seq # q.own
    BY <1>1 DEF HInv, Apart
  <2>5. \A c \in Addr : \A q \in relays'[c] : q \in relays[c] \/ (c = b /\ q = r)
    BY <1>3
  <2>6. \A c \in Addr : \A q \in relays'[c] : \A j \in wire' :
           /\ j.type = "ping_req" /\ j.from = c => j.seq # q.own
           /\ j.type = "ping_req_ack" /\ j.to = c => j.seq # q.own
    BY <2>1, <2>5, <1>2 DEF HInv, Apart
  <2>7. \A c \in Addr : \A q \in relays'[c] :
           \A d \in Addr : \A o \in relays'[d] : o.asker = c => o.seq # q.own
    <3> SUFFICES ASSUME NEW c \in Addr, NEW q \in relays'[c],
                        NEW d \in Addr, NEW o \in relays'[d], o.asker = c
                 PROVE  o.seq # q.own
      OBVIOUS
    <3>1. CASE q \in relays[c] /\ o \in relays[d]
      BY <3>1 DEF HInv, Apart
    <3>2. CASE q \in relays[c] /\ o = r
      BY <3>2, <2>4, <1>2
    <3>3. CASE c = b /\ q = r /\ o \in relays[d]
      BY <3>3, <2>2, <1>2
    <3>4. CASE c = b /\ q = r /\ o = r
      BY <3>4, <2>3, <1>2
    <3> QED
      BY <2>5, <3>1, <3>2, <3>3, <3>4
  <2> QED
    BY <2>6, <2>7 DEF Apart
<1>8. Heard'
  <2>1. \A j \in wire : j.type = "ack" /\ j.to = b => j.seq # own
    BY <1>1, Types DEF HInv, Fresh, own, SeqNo
  <2>2. \A c, s, u : IsProbe(c, s, u)' = IsProbe(c, s, u)
    BY <1>2 DEF IsProbe
  <2>3. \A c \in Addr : \A q \in relays'[c] : q \in relays[c] \/ (c = b /\ q = r)
    BY <1>3
  <2>4. \A c \in Addr : probe'[c] # NoProbe =>
           heard'[c] \/ [seq |-> probe'[c].seq, subject |-> probe'[c].target] \in waiting'[c]
    BY <1>2, <1>3 DEF HInv, Heard
  <2>5. \A j \in wire' : j.type = "ack" /\ IsProbe(j.to, j.seq, j.from)' => heard'[j.to]
    BY <2>2, <1>2 DEF HInv, Heard
  <2>6. \A j \in wire' : j.type = "ping_req_ack" /\ IsProbe(j.to, j.seq, j.target)'
                            => heard'[j.to]
    BY <2>2, <1>2 DEF HInv, Heard
  <2>7. \A c \in Addr : \A q \in relays'[c] :
           ~q.late /\ IsProbe(q.asker, q.seq, q.target)' =>
               heard'[q.asker] \/ [seq |-> q.own, subject |-> q.target] \in waiting'[c]
    BY <2>2, <2>3, <1>2, <1>3 DEF HInv, Heard
  <2>8. \A c \in Addr : \A q \in relays'[c] : \A j \in wire' :
           /\ ~q.late /\ j.type = "ack"
           /\ j.to = c /\ j.seq = q.own /\ j.from = q.target
           /\ IsProbe(q.asker, q.seq, q.target)'
           => heard'[q.asker]
    BY <2>1, <2>2, <2>3, <1>2 DEF HInv, Heard
  <2> QED
    BY <2>4, <2>5, <2>6, <2>7, <2>8 DEF Heard
<1> QED
  BY <1>5, <1>6, <1>7, <1>8 DEF HInv

\* A relay that was answered reports a target that has been heard since.
LEMMA RelayReportsHears ==
    ASSUME IInv, HInv, NEW b \in Addr, NEW r \in relays[b], RelayReports(b, r)
    PROVE  HInv'
<1> DEFINE k == PingReqAck(r.asker, r.seq, r.target)
<1>1. /\ wire' = wire \union {k}
      /\ k.type = "ping_req_ack" /\ k.to = r.asker /\ k.seq = r.seq /\ k.target = r.target
      /\ r.asker \in Addr /\ ~r.late
      /\ relays'[b] = relays[b] \ {r}
      /\ \A c \in Addr \ {b} : relays'[c] = relays[c]
      /\ UNCHANGED <<gen, nextSeq, waiting, probe, heard>>
  BY Types DEF RelayReports, PingReqAck, TypeOK
<1>2. [seq |-> r.own, subject |-> r.target] \notin waiting[b]
  BY DEF RelayReports, Answered
<1> HIDE DEF k
<1>3. \A c, s, u : IsProbe(c, s, u)' => IsProbe(c, s, u)
  BY <1>1 DEF IsProbe
<1>4. IsProbe(r.asker, r.seq, r.target) => heard[r.asker]
  BY <1>1, <1>2 DEF HInv, Heard
<1>5. \A c \in Addr : relays'[c] \subseteq relays[c]
  BY <1>1
<1>6. Roles'
  BY <1>1, <1>5 DEF HInv, Roles
<1>7. Fresh'
  <2>1. r.asker \in Counting => r.seq < nextSeq[r.asker]
    BY DEF HInv, Fresh
  <2>2. \A c \in Counting : nextSeq'[c] \in Nat /\ nextSeq[c] <= nextSeq'[c]
    BY <1>1, Types
  <2> QED
    BY <2>1, <2>2, <1>1, <1>5, Types, FreshGrows DEF HInv
<1>8. Apart'
  <2>1. \A c \in Addr : \A q \in relays[c] : r.asker = c => r.seq # q.own
    BY DEF HInv, Apart
  <2> QED
    BY <2>1, <1>1, <1>5 DEF HInv, Apart
<1>9. Heard'
  BY <1>1, <1>3, <1>4, <1>5, Types, HeardKept DEF HInv
<1> QED
  BY <1>6, <1>7, <1>8, <1>9 DEF HInv

\* A relay's wait ends without an answer.
LEMMA RelayTimesOutHears ==
    ASSUME IInv, HInv, NEW b \in Addr, NEW r \in relays[b], RelayTimesOut(b, r)
    PROVE  HInv'
<1> DEFINE q == [r EXCEPT !.late = TRUE]
<1>1. /\ relays'[b] = (relays[b] \ {r}) \union {q}
      /\ \A c \in Addr \ {b} : relays'[c] = relays[c]
      /\ UNCHANGED <<gen, nextSeq, waiting, probe, wire, heard>>
  BY Types DEF RelayTimesOut, TypeOK
<1>2. q.asker = r.asker /\ q.seq = r.seq /\ q.own = r.own /\ q.late
  BY Types DEF TypeOK
<1> HIDE DEF q
<1>3. \A c \in Addr : \A o \in relays'[c] :
         \E p \in relays[c] : p.asker = o.asker /\ p.seq = o.seq /\ p.own = o.own
  BY <1>1, <1>2
<1>4. Roles'
  BY <1>1 DEF HInv, Roles
<1>5. Fresh'
  BY <1>1, <1>3 DEF HInv, Fresh
<1>6. Apart'
  <2>1. \A c \in Addr : \A o \in relays'[c] : \A m \in wire' :
           /\ m.type = "ping_req" /\ m.from = c => m.seq # o.own
           /\ m.type = "ping_req_ack" /\ m.to = c => m.seq # o.own
    BY <1>1, <1>3 DEF HInv, Apart
  <2>2. \A c \in Addr : \A o \in relays'[c] :
           \A d \in Addr : \A p \in relays'[d] : p.asker = c => p.seq # o.own
    BY <1>3 DEF HInv, Apart
  <2> QED
    BY <2>1, <2>2 DEF Apart
<1>7. \A c \in Addr : \A s, u : IsProbe(c, s, u)' => IsProbe(c, s, u)
  BY <1>1 DEF IsProbe
<1>8. \A c \in Addr : \A o \in relays'[c] : ~o.late => o \in relays[c]
  BY <1>1, <1>2
<1>9. Heard'
  BY <1>1, <1>7, <1>8, Types, HeardKept DEF HInv
<1> QED
  BY <1>4, <1>5, <1>6, <1>9 DEF HInv

\* A relay that gives up forgets its own probe and no other.
LEMMA RelayGivesUpHears ==
    ASSUME IInv, HInv, NEW b \in Addr, NEW r \in relays[b], RelayGivesUp(b, r)
    PROVE  HInv'
<1>1. /\ relays'[b] = relays[b] \ {r}
      /\ waiting'[b] = {e \in waiting[b] : e.seq # r.own}
      /\ \A c \in Addr \ {b} : relays'[c] = relays[c] /\ waiting'[c] = waiting[c]
      /\ UNCHANGED <<gen, nextSeq, probe, wire, heard>>
  BY Types DEF RelayGivesUp, TypeOK, Forget
<1>2. \A c \in Addr : relays'[c] \subseteq relays[c]
  BY <1>1
<1>3. Roles' /\ Fresh'
  BY <1>1, <1>2 DEF HInv, Roles, Fresh
<1>4. Apart'
  BY <1>1, <1>2 DEF HInv, Apart
<1>5. \A c \in Addr : \A s, u : IsProbe(c, s, u)' => IsProbe(c, s, u)
  BY <1>1 DEF IsProbe
<1>6. /\ probe[b] # NoProbe => probe[b].seq # r.own
      /\ \A q \in relays'[b] : q.own # r.own
  BY <1>1 DEF IInv, Books
<1>7. Heard'
  BY <1>1, <1>2, <1>5, <1>6, Types, HeardKept DEF HInv
<1> QED
  BY <1>3, <1>4, <1>7 DEF HInv

\* Who is replaced neither probes nor relays.
LEMMA RestartHears ==
    ASSUME Steady, IInv, HInv, NEW a \in Addr, Restart(a)
    PROVE  HInv'
<1>1. a \notin Counting /\ a \notin Prober /\ a \notin Helper
  BY DEF Steady, Restart, Counting
<1>2. probe[a] = NoProbe /\ relays[a] = {}
  BY <1>1 DEF HInv, Roles
<1>3. /\ probe' = probe /\ relays' = relays /\ UNCHANGED <<wire, heard>>
      /\ \A c \in Addr \ {a} : waiting'[c] = waiting[c] /\ nextSeq'[c] = nextSeq[c]
  BY <1>2, Types DEF Restart, TypeOK
<1>4. Roles' /\ Apart'
  BY <1>3 DEF HInv, Roles, Apart
<1>5. Fresh'
  BY <1>1, <1>3 DEF HInv, Fresh, Counting
<1>6. \A c \in Addr : \A s, u : IsProbe(c, s, u)' => IsProbe(c, s, u)
  BY <1>3 DEF IsProbe
<1>7. Heard'
  BY <1>2, <1>3, <1>6, Types, HeardKept DEF HInv
<1> QED
  BY <1>4, <1>5, <1>7 DEF HInv

\* Every step keeps it.
LEMMA NextHears == ASSUME Steady PROVE IInv /\ HInv /\ [Next]_vars => HInv'
<1> SUFFICES ASSUME IInv, HInv, [Next]_vars PROVE HInv'
  OBVIOUS
<1>1. CASE UNCHANGED vars
  <2>1. UNCHANGED <<gen, nextSeq, waiting, probe, relays, wire, heard>>
    BY <1>1 DEF vars
  <2>2. Roles' /\ Fresh' /\ Apart'
    BY <2>1 DEF HInv, Roles, Fresh, Apart
  <2>3. Heard'
    BY <2>1 DEF HInv, Heard, IsProbe
  <2> QED
    BY <2>2, <2>3 DEF HInv
<1>2. ASSUME NEW a \in Addr, ProbeStep(a) PROVE HInv'
  BY <1>2, WaitEndsHears, AskRelaysHears, ProbeFailsHears DEF ProbeStep
<1>3. ASSUME NEW m \in wire, Handle(m) PROVE HInv'
  BY <1>3, HandlePingHears, HandleAckHears, HandlePingReqHears, HandlePingReqAckHears
     DEF Handle
<1>4. ASSUME NEW b \in Addr, RelayStep(b) PROVE HInv'
  BY <1>4, RelayReportsHears, RelayTimesOutHears, RelayGivesUpHears DEF RelayStep
<1> QED
  BY <1>1, <1>2, <1>3, <1>4, StartProbeHears, RestartHears DEF Next

\* "Only an answer about the node we asked about counts" (udp.rs, resolve): where the
\* processes that probe and relay are not themselves replaced, a probe has its answer
\* only if its target answered a ping since the probe began, however messages are
\* delayed, repeated or lost and whoever took the target's address.
THEOREM AnsweredIsAlive == ASSUME Steady PROVE Spec => []AnsweredMeansAlive
<1>1. Init => HInv
  BY InitHears
<1>2. IInv /\ HInv /\ [Next]_vars => HInv'
  BY NextHears
<1>3. HInv => AnsweredMeansAlive
  BY HeardMeans
<1> QED
  BY <1>1, <1>2, <1>3, Invariance, PTL DEF Spec
=============================================================================
