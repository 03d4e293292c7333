------------------------- MODULE Membership_proofs --------------------------
(***************************************************************************)
(* Proofs about Membership, for every set of processes and workers, every  *)
(* largest incarnation and every bound on the network.                     *)
(***************************************************************************)
EXTENDS Membership, TLAPS

USE IncarnationAssumption

-----------------------------------------------------------------------------
(* Types.                                                                   *)

\* A superseding number is a number, and no smaller.
LEMMA SupersedingType ==
    ASSUME NEW i \in Incarnation
    PROVE  Superseding(i) \in Incarnation /\ Superseding(i) >= i
BY DEF Superseding, Incarnation

\* Records are rumors.
LEMMA RecordType ==
    ASSUME NEW n \in Node, NEW i \in Incarnation,
           NEW s \in {"alive", "suspect", "dead"}, NEW b \in BOOLEAN
    PROVE  Record(n, i, s, b) \in Rumor
BY DEF Record, Rumor

\* So is what `mark` makes of a copy.
LEMMA MarkedType ==
    ASSUME NEW r \in Rumor, NEW s \in {"alive", "suspect", "dead"}
    PROVE  Marked(r, s) \in Rumor
BY DEF Marked, Rumor

\* Where the actions leave a task is a place a task can be.
LEMMA AtType ==
    /\ Idle \in TaskState
    /\ At("announce", NoEntry) \in TaskState
    /\ \A r \in Rumor : \A pc \in {"refute", "push", "probe"} :
          At(pc, r) \in TaskState
BY DEF Idle, At, TaskState

\* In the places where a task holds a rumor, it does.
LEMMA HeldRumor ==
    ASSUME TypeOK, NEW n \in Node, NEW t \in Task,
           task[n][t].pc \in {"refute", "push", "probe"}
    PROVE  task[n][t].rumor \in Rumor
<1>1. task[n][t] \in TaskState
  BY DEF TypeOK
<1> QED
  BY <1>1 DEF TaskState

\* Applying a rumor keeps the types of tables and tasks.
LEMMA ApplyType ==
    ASSUME TypeOK, NEW n \in Node, NEW t \in Task, NEW r \in Rumor,
           ApplyRumor(n, t, r)
    PROVE  /\ table' \in [Node -> [Node -> Entry]]
           /\ task' \in [Node -> [Task -> TaskState]]
<1>1. r.id \in Node
  BY DEF Rumor
<1>2. table[n][r.id] \in Entry
  BY <1>1 DEF TypeOK
<1>3. Merge(table[n][r.id], r) \in Entry
  BY <1>2 DEF Merge, Entry
<1>4. table' \in [Node -> [Node -> Entry]]
  BY <1>1, <1>3 DEF ApplyRumor, TypeOK
<1>5. task' \in [Node -> [Task -> TaskState]]
  BY AtType DEF ApplyRumor, TypeOK
<1> QED
  BY <1>4, <1>5

\* The start of every process is well typed.
LEMMA InitType == Init => TypeOK
<1> SUFFICES ASSUME Init PROVE TypeOK
  OBVIOUS
<1>1. task \in [Node -> [Task -> TaskState]]
  BY AtType DEF Init
<1>2. /\ Empty \in [Node -> Entry]
      /\ 0 \in Incarnation
  BY DEF Empty, Entry, Incarnation
<1> QED
  BY <1>1, <1>2 DEF Init, TypeOK

\* Every step keeps the types: one case for each action.
LEMMA NextType == TypeOK /\ [Next]_vars => TypeOK'
<1> SUFFICES ASSUME TypeOK, [Next]_vars PROVE TypeOK'
  OBVIOUS
<1> USE DEF TypeOK
<1>1. ASSUME NEW n \in Node, NEW t \in Task, Refute(n, t) PROVE TypeOK'
  <2>1. task[n][t].rumor \in Rumor
    BY <1>1, HeldRumor DEF Refute
  <2>2. task[n][t].rumor.incarnation \in Incarnation
    BY <2>1 DEF Rumor
  <2>3. incarnation' \in [Node -> Incarnation]
    BY <1>1, <2>2, SupersedingType DEF Refute
  <2>4. PICK next \in TaskState : task' = [task EXCEPT ![n][t] = next]
    BY <1>1, AtType DEF Refute
  <2>5. task' \in [Node -> [Task -> TaskState]]
    BY <2>4
  <2> QED
    BY <1>1, <2>3, <2>5 DEF Refute
<1>2. ASSUME NEW n \in Node, NEW t \in Task, Announce(n, t) PROVE TypeOK'
  <2>1. AliveRumor(n) \in Rumor
    BY RecordType DEF AliveRumor
  <2>2. task' \in [Node -> [Task -> TaskState]]
    BY <1>2, <2>1, AtType DEF Announce
  <2> QED
    BY <1>2, <2>2 DEF Announce, local
<1>3. ASSUME NEW n \in Node, NEW t \in Task, Push(n, t) PROVE TypeOK'
  <2>1. task[n][t].rumor \in Entry
    BY <1>3, HeldRumor DEF Push, Entry
  <2>2. queue' \in [Node -> [Node -> Entry]]
    BY <1>3, <2>1 DEF Push
  <2>3. task' \in [Node -> [Task -> TaskState]]
    BY <1>3, AtType DEF Push
  <2> QED
    BY <1>3, <2>2, <2>3 DEF Push, local
<1>4. ASSUME NEW n \in Node, NEW t \in Task, NEW r \in wire, Receive(n, t, r)
      PROVE  TypeOK'
  BY <1>4, ApplyType DEF Receive, local
<1>5. ASSUME NEW n \in Node, NEW m \in Node, Probe(n, m) PROVE TypeOK'
  <2>1. table[n][m] \in Rumor
    BY <1>5 DEF Probe, Entry
  <2>2. task' \in [Node -> [Task -> TaskState]]
    BY <1>5, <2>1, AtType DEF Probe
  <2> QED
    BY <1>5, <2>2 DEF Probe, local
<1>6. ASSUME NEW n \in Node, ProbeAcked(n) PROVE TypeOK'
  <2>1. task' \in [Node -> [Task -> TaskState]]
    BY <1>6, AtType DEF ProbeAcked
  <2> QED
    BY <1>6, <2>1 DEF ProbeAcked, local
<1>7. ASSUME NEW n \in Node, ProbeFailed(n) PROVE TypeOK'
  <2>1. "detector" \in Task
    BY DEF Task
  <2>2. Marked(task[n]["detector"].rumor, "suspect") \in Rumor
    BY <1>7, <2>1, HeldRumor, MarkedType DEF ProbeFailed
  <2> QED
    BY <1>7, <2>1, <2>2, ApplyType DEF ProbeFailed, local
<1>8. ASSUME NEW n \in Node, NEW late \in SUBSET Node, Sweep(n, late) PROVE TypeOK'
  <2>1. {table[n][m] : m \in late} \subseteq Rumor
    BY <1>8 DEF Sweep, Entry
  <2> QED
    BY <1>8, <2>1 DEF Sweep, local
<1>9. ASSUME NEW n \in Node, NEW r \in expired[n], MarkDead(n, r) PROVE TypeOK'
  <2>1. "detector" \in Task
    BY DEF Task
  <2>2. Marked(r, "dead") \in Rumor
    BY MarkedType
  <2>3. expired' \in [Node -> SUBSET Rumor]
    BY <1>9 DEF MarkDead
  <2> QED
    BY <1>9, <2>1, <2>2, <2>3, ApplyType DEF MarkDead, local
<1>10. ASSUME NEW n \in Node, NEW gone \in SUBSET Node, FindLongDead(n, gone)
       PROVE  TypeOK'
  BY <1>10 DEF FindLongDead, local
<1>11. ASSUME NEW n \in Node, Reap(n) PROVE TypeOK'
  BY <1>11 DEF Reap, local, Entry
<1>12. ASSUME NEW n \in Node, NEW m \in Node, NEW last \in BOOLEAN, Take(n, m, last)
       PROVE  TypeOK'
  BY <1>12 DEF Take, Send, local, Entry
<1>13. ASSUME NEW n \in Node, Introduce(n) PROVE TypeOK'
  BY <1>13, RecordType DEF Introduce, Send, AliveRumor, local
<1>14. ASSUME NEW n \in Node, NEW m \in Node, Snapshot(n, m) PROVE TypeOK'
  BY <1>14 DEF Snapshot, Send, local, Entry
<1>15. ASSUME NEW n \in Node, AnnounceLeave(n) PROVE TypeOK'
  BY <1>15, RecordType DEF AnnounceLeave, Send, local
<1>16. ASSUME NEW n \in Node, NEW answers \in BOOLEAN, SetReady(n, answers)
       PROVE  TypeOK'
  <2>1. incarnation' \in [Node -> Incarnation]
    BY <1>16, SupersedingType DEF SetReady
  <2>2. task' \in [Node -> [Task -> TaskState]]
    BY <1>16, AtType DEF SetReady
  <2> QED
    BY <1>16, <2>1, <2>2 DEF SetReady
<1>17. ASSUME NEW n \in Node, Leave(n) PROVE TypeOK'
  BY <1>17 DEF Leave
<1>18. ASSUME NEW n \in Node, Stop(n) PROVE TypeOK'
  <2>1. task' \in [Node -> [Task -> TaskState]]
    BY <1>18, AtType DEF Stop
  <2>2. Empty \in [Node -> Entry]
    BY DEF Empty, Entry
  <2> QED
    BY <1>18, <2>1, <2>2 DEF Stop, local
<1>19. ASSUME NEW r \in wire, Lose(r) PROVE TypeOK'
  BY <1>19 DEF Lose, local
<1>20. CASE UNCHANGED vars
  BY <1>20 DEF vars, local
<1> QED
  BY <1>1, <1>2, <1>3, <1>4, <1>5, <1>6, <1>7, <1>8, <1>9, <1>10, <1>11, <1>12,
     <1>13, <1>14, <1>15, <1>16, <1>17, <1>18, <1>19, <1>20
     DEF Next, TaskStep, DetectorStep, SendStep

\* Every variable keeps its type, whatever the interleaving: in particular no
\* incarnation passes the largest one.
THEOREM TypeCorrect == Spec => []TypeOK
BY InitType, NextType, PTL DEF Spec

-----------------------------------------------------------------------------
(* Where records come from.  A step puts at most one new record into        *)
(* circulation.  Either its subject speaks for itself, or the record        *)
(* repeats one that circulates, up to its state; and nothing but a death is *)
(* made out of a record of a death.                                         *)

Spoken(x) ==
    /\ x.id \in up
    /\ x.incarnation = incarnation[x.id]
    /\ x.ready = ready[x.id]
    /\ x.state = "alive" \/ leaving[x.id]

Repeats(x, q) ==
    /\ x.id = q.id
    /\ x.incarnation = q.incarnation
    /\ x.ready = q.ready
    /\ q.state = "dead" => x.state = "dead"

Sourced(x) ==
    x = NoEntry \/ Spoken(x) \/ \E q \in Circulating : Repeats(x, q)

\* Whatever the places that hold records contain after a step was in circulation
\* before it, but for x.
OnlyAdds(x) ==
    LET Known == Circulating \union {NoEntry, x} IN
    /\ wire' \subseteq Known
    /\ \A n, m \in Node : table'[n][m] \in Known /\ queue'[n][m] \in Known
    /\ \A n \in Node : expired'[n] \subseteq Known
    /\ \A n \in Node : \A t \in Task : task'[n][t].rumor \in Known

\* Whatever any place of the system holds circulates.
LEMMA Holders ==
    LET Known == Circulating \union {NoEntry} IN
    /\ wire \subseteq Known
    /\ \A n, m \in Node : table[n][m] \in Known /\ queue[n][m] \in Known
    /\ \A n \in Node : expired[n] \subseteq Known
    /\ \A n \in Node : \A t \in Task : task[n][t].rumor \in Known
BY DEF Circulating, RumorsAt

\* A step that puts at most x in those places adds at most x to what circulates.
LEMMA AddsAtMostOne ==
    ASSUME NEW x, OnlyAdds(x)
    PROVE  Circulating' \subseteq Circulating \union {x}
<1> SUFFICES ASSUME NEW r \in Circulating' PROVE r \in Circulating \union {x}
  OBVIOUS
<1>1. r # NoEntry
  BY DEF Circulating
<1>2. CASE r \in wire'
  BY <1>1, <1>2 DEF OnlyAdds
<1>3. CASE \E n \in Node : r \in RumorsAt(n)'
  <2>1. PICK n \in Node : r \in RumorsAt(n)'
    BY <1>3
  <2> QED
    BY <2>1, <1>1 DEF RumorsAt, OnlyAdds
<1> QED
  BY <1>2, <1>3 DEF Circulating

\* What circulates is rumors.
LEMMA CirculatingType == TypeOK => Circulating \subseteq Rumor
<1> SUFFICES ASSUME TypeOK, NEW r \in Circulating PROVE r \in Rumor
  OBVIOUS
<1>1. r # NoEntry
  BY DEF Circulating
<1>2. CASE r \in wire
  BY <1>2 DEF TypeOK
<1>3. ASSUME NEW n \in Node, r \in RumorsAt(n) PROVE r \in Rumor
  <2>1. \A m \in Node : table[n][m] \in Entry /\ queue[n][m] \in Entry
    BY DEF TypeOK
  <2>2. \A t \in Task : task[n][t].rumor \in Entry
    BY DEF TypeOK, TaskState, Entry
  <2>3. expired[n] \subseteq Rumor
    BY DEF TypeOK
  <2> QED
    BY <1>1, <1>3, <2>1, <2>2, <2>3 DEF RumorsAt, Entry
<1> QED
  BY <1>2, <1>3 DEF Circulating

\* Applying a rumor puts it in at most one table and one task.
LEMMA ApplyAdds ==
    ASSUME TypeOK, NEW n \in Node, NEW t \in Task, NEW r \in Rumor,
           ApplyRumor(n, t, r)
    PROVE  /\ \A a, b \in Node : table'[a][b] \in {table[a][b], r}
           /\ \A a \in Node : \A u \in Task :
                 task'[a][u].rumor \in {task[a][u].rumor, NoEntry, r}
<1>1. PICK next \in {Idle, At("refute", r), At("push", r)} :
         task' = [task EXCEPT ![n][t] = next]
  BY DEF ApplyRumor
<1>4. next.rumor \in {NoEntry, r}
  BY DEF Idle, At
<1>2. r.id \in Node
  BY DEF Rumor
<1>3. \A a, b \in Node : table'[a][b] \in {table[a][b], r}
  BY <1>2 DEF ApplyRumor, Merge, TypeOK
<1> QED
  BY <1>1, <1>3, <1>4 DEF TypeOK

\* So it adds at most that rumor to what circulates.
LEMMA ApplyOnlyAdds ==
    ASSUME TypeOK, NEW n \in Node, NEW t \in Task, NEW r \in Rumor,
           ApplyRumor(n, t, r), UNCHANGED <<queue, wire>>,
           \A a \in Node : expired'[a] \subseteq expired[a]
    PROVE  OnlyAdds(r)
<1> DEFINE Known == Circulating \union {NoEntry, r}
<1>1. /\ wire \subseteq Known
      /\ \A a, b \in Node : table[a][b] \in Known /\ queue[a][b] \in Known
      /\ \A a \in Node : expired[a] \subseteq Known
      /\ \A a \in Node : \A u \in Task : task[a][u].rumor \in Known
  BY Holders
<1>2. NoEntry \in Known /\ r \in Known
  OBVIOUS
<1> HIDE DEF Known
<1>3. \A a, b \in Node : table'[a][b] \in Known
  <2>1. \A a, b \in Node : table'[a][b] \in {table[a][b], r}
    BY ApplyAdds
  <2> QED
    BY <1>1, <1>2, <2>1
<1>4. \A a \in Node : \A u \in Task : task'[a][u].rumor \in Known
  <2>1. \A a \in Node : \A u \in Task :
           task'[a][u].rumor \in {task[a][u].rumor, NoEntry, r}
    BY ApplyAdds
  <2> QED
    BY <1>1, <1>2, <2>1
<1>5. /\ wire' \subseteq Known
      /\ \A a, b \in Node : queue'[a][b] \in Known
      /\ \A a \in Node : expired'[a] \subseteq Known
  BY <1>1
<1> QED
  BY <1>3, <1>4, <1>5 DEF OnlyAdds, Known

\* The detector does one thing at a time, and only probes who it does not hold
\* dead.
DetectorAlone ==
    \A n \in Node :
        /\ reaping[n] # {} \/ task[n]["detector"].pc = "probe" => expired[n] = {}
        /\ reaping[n] # {} => task[n]["detector"].pc # "probe"
        /\ task[n]["detector"].pc = "probe"
              => task[n]["detector"].rumor.state # "dead"

\* Each action adds at most one record, and it says whose: either its subject
\* states it, or the detector or the network repeats one that circulates.
LEMMA NextSources ==
    ASSUME TypeOK, DetectorAlone, Next
    PROVE  \E x : OnlyAdds(x) /\ Sourced(x)
<1> USE DEF TypeOK
<1> SUFFICES \E x : OnlyAdds(x) /\ Sourced(x)
  OBVIOUS
<1> DEFINE Known == Circulating \union {NoEntry}
<1>h. /\ wire \subseteq Known
      /\ \A n, m \in Node : table[n][m] \in Known /\ queue[n][m] \in Known
      /\ \A n \in Node : expired[n] \subseteq Known
      /\ \A n \in Node : \A t \in Task : task[n][t].rumor \in Known
  BY Holders
<1>d. "detector" \in Task /\ "health" \in Task
  BY DEF Task
<1>n. Sourced(NoEntry)
  BY DEF Sourced
<1>k. \A q \in Circulating : Sourced(q)
  BY DEF Sourced, Repeats
<1> HIDE DEF Known
<1>1. ASSUME NEW n \in Node, NEW t \in Task, Refute(n, t)
      PROVE  OnlyAdds(NoEntry)
  <2>1. PICK next \in {Idle, At("announce", NoEntry)} :
           task' = [task EXCEPT ![n][t] = next]
    BY <1>1 DEF Refute
  <2>2. next.rumor = NoEntry
    BY DEF Idle, At
  <2> QED
    BY <1>1, <1>h, <2>1, <2>2 DEF Refute, OnlyAdds, Known
<1>2. ASSUME NEW n \in Node, NEW t \in Task, Announce(n, t)
      PROVE  OnlyAdds(AliveRumor(n)) /\ Sourced(AliveRumor(n))
  <2>1. OnlyAdds(AliveRumor(n))
    BY <1>2, <1>h DEF Announce, OnlyAdds, Known, At, local
  <2>2. Spoken(AliveRumor(n))
    BY <1>2 DEF Announce, AliveRumor, Record, Spoken
  <2> QED
    BY <2>1, <2>2 DEF Sourced
<1>3. ASSUME NEW n \in Node, NEW t \in Task, Push(n, t)
      PROVE  OnlyAdds(NoEntry)
  BY <1>3, <1>h DEF Push, OnlyAdds, Known, Idle, local
<1>4. ASSUME NEW n \in Node, NEW t \in Task, NEW r \in wire, Receive(n, t, r)
      PROVE  OnlyAdds(r) /\ r \in Circulating
  <2>1. r \in Circulating
    BY <1>h, NoEntryAssumption DEF Known
  <2>2. \A a \in Node : expired'[a] \subseteq expired[a]
    BY <1>4 DEF Receive
  <2>3. OnlyAdds(r)
    BY <1>4, <2>2, ApplyOnlyAdds DEF Receive
  <2> QED
    BY <2>1, <2>3
<1>5. ASSUME NEW n \in Node, NEW m \in Node, Probe(n, m)
      PROVE  OnlyAdds(NoEntry)
  BY <1>5, <1>h, <1>d DEF Probe, OnlyAdds, Known, At, local
<1>6. ASSUME NEW n \in Node, ProbeAcked(n)
      PROVE  OnlyAdds(NoEntry)
  BY <1>6, <1>h, <1>d DEF ProbeAcked, OnlyAdds, Known, Idle, local
<1>7. ASSUME NEW n \in Node, ProbeFailed(n)
      PROVE  \E x : OnlyAdds(x) /\ Sourced(x)
  <2> DEFINE q == task[n]["detector"].rumor
             x == Marked(q, "suspect")
  <2>1. q \in Rumor /\ q \in Circulating /\ q.state # "dead"
    BY <1>7, <1>h, <1>d, HeldRumor, NoEntryAssumption
       DEF ProbeFailed, DetectorAlone, Known
  <2>2. x \in Rumor /\ Repeats(x, q)
    BY <2>1, MarkedType DEF Marked, Repeats, Rumor
  <2>3. Sourced(x)
    BY <2>1, <2>2 DEF Sourced
  <2>4. ApplyRumor(n, "detector", x)
    BY <1>7 DEF ProbeFailed
  <2> HIDE DEF x, q
  <2>5. \A a \in Node : expired'[a] \subseteq expired[a]
    BY <1>7 DEF ProbeFailed
  <2>6. OnlyAdds(x)
    BY <1>7, <1>d, <2>2, <2>4, <2>5, ApplyOnlyAdds DEF ProbeFailed
  <2> QED
    BY <2>3, <2>6
<1>8. ASSUME NEW n \in Node, NEW late \in SUBSET Node, Sweep(n, late)
      PROVE  OnlyAdds(NoEntry)
  BY <1>8, <1>h DEF Sweep, OnlyAdds, Known, local
<1>9. ASSUME NEW n \in Node, NEW r \in expired[n], MarkDead(n, r)
      PROVE  \E x : OnlyAdds(x) /\ Sourced(x)
  <2> DEFINE x == Marked(r, "dead")
  <2>1. r \in Rumor /\ r \in Circulating
    BY <1>h, NoEntryAssumption DEF Known
  <2>2. x \in Rumor /\ Repeats(x, r)
    BY <2>1, MarkedType DEF Marked, Repeats, Rumor
  <2>3. Sourced(x)
    BY <2>1, <2>2 DEF Sourced
  <2>4. ApplyRumor(n, "detector", x)
    BY <1>9 DEF MarkDead
  <2> HIDE DEF x
  <2>5. \A a \in Node : expired'[a] \subseteq expired[a]
    BY <1>9 DEF MarkDead
  <2>6. OnlyAdds(x)
    BY <1>9, <1>d, <2>2, <2>4, <2>5, ApplyOnlyAdds DEF MarkDead
  <2> QED
    BY <2>3, <2>6
<1>10. ASSUME NEW n \in Node, NEW gone \in SUBSET Node, FindLongDead(n, gone)
       PROVE  OnlyAdds(NoEntry)
  BY <1>10, <1>h DEF FindLongDead, OnlyAdds, Known, local
<1>11. ASSUME NEW n \in Node, Reap(n)
       PROVE  OnlyAdds(NoEntry)
  BY <1>11, <1>h DEF Reap, OnlyAdds, Known, local
<1>12. ASSUME NEW n \in Node, NEW m \in Node, NEW last \in BOOLEAN, Take(n, m, last)
       PROVE  OnlyAdds(NoEntry)
  BY <1>12, <1>h DEF Take, Send, OnlyAdds, Known, local
<1>13. ASSUME NEW n \in Node, Introduce(n)
       PROVE  OnlyAdds(AliveRumor(n)) /\ Sourced(AliveRumor(n))
  <2>1. OnlyAdds(AliveRumor(n))
    BY <1>13, <1>h DEF Introduce, Send, OnlyAdds, Known, local
  <2>2. Spoken(AliveRumor(n))
    BY <1>13 DEF Introduce, AliveRumor, Record, Spoken
  <2> QED
    BY <2>1, <2>2 DEF Sourced
<1>14. ASSUME NEW n \in Node, NEW m \in Node, Snapshot(n, m)
       PROVE  OnlyAdds(NoEntry)
  BY <1>14, <1>h DEF Snapshot, Send, OnlyAdds, Known, local
<1>15. ASSUME NEW n \in Node, AnnounceLeave(n)
       PROVE  \E x : OnlyAdds(x) /\ Sourced(x)
  <2> DEFINE x == Record(n, incarnation[n], "dead", ready[n])
  <2>1. OnlyAdds(x)
    BY <1>15, <1>h DEF AnnounceLeave, Send, OnlyAdds, Known, local
  <2>2. Spoken(x)
    BY <1>15 DEF AnnounceLeave, Record, Spoken
  <2> QED
    BY <2>1, <2>2 DEF Sourced
<1>16. ASSUME NEW n \in Node, NEW answers \in BOOLEAN, SetReady(n, answers)
       PROVE  OnlyAdds(NoEntry)
  BY <1>16, <1>h, <1>d DEF SetReady, OnlyAdds, Known, At
<1>17. ASSUME NEW n \in Node, Leave(n)
       PROVE  OnlyAdds(NoEntry)
  BY <1>17, <1>h DEF Leave, OnlyAdds, Known
<1>18. ASSUME NEW n \in Node, Stop(n)
       PROVE  OnlyAdds(NoEntry)
  BY <1>18, <1>h DEF Stop, OnlyAdds, Known, Empty, Idle, local
<1>19. ASSUME NEW r \in wire, Lose(r)
       PROVE  OnlyAdds(NoEntry)
  BY <1>19, <1>h DEF Lose, OnlyAdds, Known, local
<1> QED
  BY <1>n, <1>k, <1>1, <1>2, <1>3, <1>4, <1>5, <1>6, <1>7, <1>8, <1>9, <1>10,
     <1>11, <1>12, <1>13, <1>14, <1>15, <1>16, <1>17, <1>18, <1>19
     DEF Next, TaskStep, DetectorStep, SendStep

-----------------------------------------------------------------------------
(* How a step changes numbers and entries.                                  *)

\* A process's number never falls, is final once it is leaving, and readiness
\* only changes with it, short of the largest.
LEMMA NumbersGrow ==
    ASSUME TypeOK, [Next]_vars, NEW m \in Node
    PROVE  /\ incarnation[m] <= incarnation'[m]
           /\ leaving[m] => incarnation'[m] = incarnation[m]
           /\ incarnation[m] < MaxIncarnation /\ incarnation'[m] = incarnation[m]
                 => ready'[m] = ready[m]
<1> DEFINE Goal == /\ incarnation[m] <= incarnation'[m]
                   /\ leaving[m] => incarnation'[m] = incarnation[m]
                   /\ incarnation[m] < MaxIncarnation
                      /\ incarnation'[m] = incarnation[m] => ready'[m] = ready[m]
<1>0. incarnation[m] \in Int /\ MaxIncarnation \in Int
  BY DEF TypeOK, Incarnation
<1>1. ASSUME NEW n \in Node, NEW t \in Task, Refute(n, t) PROVE Goal
  <2> DEFINE rumored == task[n][t].rumor.incarnation
  <2>1. rumored \in Incarnation
    BY <1>1, HeldRumor DEF Refute, Rumor
  <2>2. Superseding(rumored) >= rumored /\ Superseding(rumored) \in Int
        /\ rumored \in Int
    BY <2>1, SupersedingType DEF Incarnation
  <2>3. ready' = ready
    BY <1>1 DEF Refute
  <2>4. \/ incarnation' = incarnation
        \/ /\ ~leaving[n]
           /\ incarnation' = [incarnation EXCEPT ![n] =
                 IF rumored >= @ THEN Superseding(rumored) ELSE @]
    BY <1>1 DEF Refute, Defends
  <2> HIDE DEF rumored
  <2>5. CASE incarnation' = incarnation
    BY <1>0, <2>3, <2>5
  <2>6. CASE /\ ~leaving[n]
             /\ incarnation' = [incarnation EXCEPT ![n] =
                   IF rumored >= @ THEN Superseding(rumored) ELSE @]
    <3>1. CASE m = n
      BY <1>0, <2>2, <2>3, <2>6, <3>1 DEF TypeOK
    <3>2. CASE m # n
      BY <1>0, <2>3, <2>6, <3>2 DEF TypeOK
    <3> QED
      BY <3>1, <3>2
  <2> QED
    BY <2>4, <2>5, <2>6
<1>2. ASSUME NEW n \in Node, NEW answers \in BOOLEAN, SetReady(n, answers)
      PROVE  Goal
  BY <1>2, <1>0 DEF SetReady, Defends, Superseding, TypeOK
<1>3. incarnation' = incarnation /\ ready' = ready => Goal
  BY <1>0
<1> HIDE DEF Goal
<1>4. ASSUME NEW n \in Node, NEW t \in Task,
             Announce(n, t) \/ Push(n, t) \/ \E r \in wire : Receive(n, t, r)
      PROVE  Goal
  BY <1>3, <1>4 DEF Announce, Push, Receive, local
<1>5. ASSUME NEW n \in Node, DetectorStep(n) PROVE Goal
  BY <1>3, <1>5 DEF DetectorStep, Probe, ProbeAcked, ProbeFailed, Sweep, MarkDead,
     FindLongDead, Reap, local
<1>6. ASSUME NEW n \in Node, SendStep(n) PROVE Goal
  BY <1>3, <1>6 DEF SendStep, Take, Introduce, Snapshot, AnnounceLeave, local
<1>7. ASSUME NEW n \in Node, Leave(n) \/ Stop(n) PROVE Goal
  BY <1>3, <1>7 DEF Leave, Stop, local
<1>8. ASSUME NEW r \in wire, Lose(r) PROVE Goal
  BY <1>3, <1>8 DEF Lose, local
<1>9. ASSUME UNCHANGED vars PROVE Goal
  BY <1>3, <1>9 DEF vars
<1>10. Goal
  BY <1>1, <1>2, <1>4, <1>5, <1>6, <1>7, <1>8, <1>9 DEF Next, TaskStep
<1> QED
  BY <1>10 DEF Goal

\* No process comes back.
LEMMA DownStaysDown == [Next]_vars => up' \subseteq up
BY DEF Next, TaskStep, DetectorStep, SendStep, vars, local, Refute, Announce, Push,
   Receive, Probe, ProbeAcked, ProbeFailed, Sweep, MarkDead, FindLongDead, Reap,
   Take, Introduce, Snapshot, AnnounceLeave, SetReady, Leave, Stop, Lose

\* What a step may make of an entry: keep it, drop it, or put news in its place.
EntryStep(n, m) ==
    \/ table'[n][m] = table[n][m]
    \/ table'[n][m] = NoEntry
    \/ /\ n # m
       /\ table'[n][m] \in Rumor
       /\ table'[n][m].id = m
       /\ IsNews(table[n][m], table'[n][m])

LEMMA ApplyEntry ==
    ASSUME TypeOK, NEW n \in Node, NEW t \in Task, NEW r \in Rumor,
           ApplyRumor(n, t, r), NEW a \in Node, NEW b \in Node
    PROVE  EntryStep(a, b)
BY DEF ApplyRumor, Merge, EntryStep, TypeOK, Rumor

\* What any step can do to an entry: keep it, drop it, or merge news into it.
LEMMA NextEntry ==
    ASSUME TypeOK, [Next]_vars, NEW a \in Node, NEW b \in Node
    PROVE  EntryStep(a, b)
<1>0. "detector" \in Task
  BY DEF Task
<1>1. ASSUME NEW n \in Node, NEW t \in Task, NEW r \in wire, Receive(n, t, r)
      PROVE  EntryStep(a, b)
  <2>1. r \in Rumor
    BY DEF TypeOK
  <2> QED
    BY <1>1, <2>1, ApplyEntry DEF Receive
<1>2. ASSUME NEW n \in Node, ProbeFailed(n) PROVE EntryStep(a, b)
  <2>1. Marked(task[n]["detector"].rumor, "suspect") \in Rumor
    BY <1>0, <1>2, HeldRumor, MarkedType DEF ProbeFailed
  <2> QED
    BY <1>0, <1>2, <2>1, ApplyEntry DEF ProbeFailed
<1>3. ASSUME NEW n \in Node, NEW r \in expired[n], MarkDead(n, r)
      PROVE  EntryStep(a, b)
  <2>1. r \in Rumor
    BY DEF TypeOK
  <2>2. Marked(r, "dead") \in Rumor
    BY <2>1, MarkedType
  <2> QED
    BY <1>0, <1>3, <2>2, ApplyEntry DEF MarkDead
<1>4. ASSUME NEW n \in Node, Reap(n) PROVE EntryStep(a, b)
  BY <1>4 DEF Reap, EntryStep, TypeOK
<1>5. ASSUME NEW n \in Node, Stop(n) PROVE EntryStep(a, b)
  BY <1>5 DEF Stop, EntryStep, Empty, TypeOK
<1>6. CASE UNCHANGED table
  BY <1>6 DEF EntryStep
<1> QED
  BY <1>1, <1>2, <1>3, <1>4, <1>5, <1>6
     DEF Next, TaskStep, DetectorStep, SendStep, vars, local, Refute, Announce,
         Push, Probe, ProbeAcked, Sweep, FindLongDead, Take, Introduce, Snapshot,
         AnnounceLeave, SetReady, Leave, Lose

-----------------------------------------------------------------------------
(* The detector and its copies.                                             *)

\* An entry is about the process it is filed under, and never about its owner.
Filed ==
    \A n, m \in Node :
        table[n][m] # NoEntry => n # m /\ table[n][m].id = m

\* Merging files a record under its own id, and never under the owner of the table.
LEMMA NextFiled ==
    ASSUME TypeOK, Filed, [Next]_vars
    PROVE  Filed'
<1> SUFFICES ASSUME NEW n \in Node, NEW m \in Node, table'[n][m] # NoEntry
             PROVE  n # m /\ table'[n][m].id = m
  BY DEF Filed
<1> QED
  BY NextEntry DEF EntryStep, Filed

\* The detector does one thing at a time.
LEMMA NextAlone ==
    ASSUME TypeOK, DetectorAlone, [Next]_vars
    PROVE  DetectorAlone'
<1> USE DEF DetectorAlone, TypeOK
<1>0. "detector" \in Task
  BY DEF Task
<1>p. Idle.pc = "idle" /\ \A pc, r : At(pc, r).pc = pc /\ At(pc, r).rumor = r
  BY DEF Idle, At
<1>a. ASSUME NEW n \in Node, NEW t \in Task, NEW r, ApplyRumor(n, t, r)
      PROVE  \A a \in Node : \/ task'[a]["detector"] = task[a]["detector"]
                             \/ task'[a]["detector"].pc # "probe"
  <2>1. PICK next \in {Idle, At("refute", r), At("push", r)} :
           task' = [task EXCEPT ![n][t] = next]
    BY <1>a DEF ApplyRumor
  <2>2. next.pc # "probe"
    BY <1>p
  <2> QED
    BY <1>0, <2>1, <2>2
<1>1. ASSUME NEW n \in Node, NEW t \in Task, Refute(n, t) PROVE DetectorAlone'
  <2>1. PICK next \in {Idle, At("announce", NoEntry)} :
           task' = [task EXCEPT ![n][t] = next]
    BY <1>1 DEF Refute
  <2>2. next.pc # "probe"
    BY <1>p
  <2> QED
    BY <1>0, <1>1, <2>1, <2>2 DEF Refute
<1>2. ASSUME NEW n \in Node, NEW t \in Task, Announce(n, t) PROVE DetectorAlone'
  BY <1>0, <1>2, <1>p DEF Announce
<1>3. ASSUME NEW n \in Node, NEW t \in Task, Push(n, t) PROVE DetectorAlone'
  BY <1>0, <1>3, <1>p DEF Push
<1>4. ASSUME NEW n \in Node, NEW t \in Task, NEW r \in wire, Receive(n, t, r)
      PROVE  DetectorAlone'
  BY <1>4, <1>a DEF Receive
<1>5. ASSUME NEW n \in Node, NEW m \in Node, Probe(n, m) PROVE DetectorAlone'
  <2> DEFINE next == At("probe", table[n][m])
  <2>1. next.pc = "probe" /\ next.rumor.state # "dead"
    BY <1>5 DEF Probe, At
  <2>2. /\ task' = [task EXCEPT ![n]["detector"] = next]
        /\ expired[n] = {} /\ reaping[n] = {}
        /\ expired' = expired /\ reaping' = reaping
    BY <1>5 DEF Probe, DetectorFree
  <2> HIDE DEF next
  <2>3. /\ task'[n]["detector"] = next
        /\ \A a \in Node \ {n} : task'[a]["detector"] = task[a]["detector"]
    BY <1>0, <2>2
  <2> QED
    BY <2>1, <2>2, <2>3
<1>6. ASSUME NEW n \in Node, ProbeAcked(n) PROVE DetectorAlone'
  BY <1>0, <1>6, <1>p DEF ProbeAcked
<1>7. ASSUME NEW n \in Node, ProbeFailed(n) PROVE DetectorAlone'
  BY <1>0, <1>7, <1>a DEF ProbeFailed
<1>8. ASSUME NEW n \in Node, NEW late \in SUBSET Node, Sweep(n, late)
      PROVE  DetectorAlone'
  BY <1>8 DEF Sweep, DetectorFree, IsIdle
<1>9. ASSUME NEW n \in Node, NEW r \in expired[n], MarkDead(n, r)
      PROVE  DetectorAlone'
  <2>1. \A a \in Node : \/ task'[a]["detector"] = task[a]["detector"]
                        \/ task'[a]["detector"].pc # "probe"
    BY <1>0, <1>9, <1>a DEF MarkDead
  <2>2. \A a \in Node : expired'[a] \subseteq expired[a]
    BY <1>9 DEF MarkDead
  <2>3. reaping' = reaping
    BY <1>9 DEF MarkDead
  <2> QED
    BY <2>1, <2>2, <2>3
<1>10. ASSUME NEW n \in Node, NEW gone \in SUBSET Node, FindLongDead(n, gone)
       PROVE  DetectorAlone'
  BY <1>10 DEF FindLongDead, DetectorFree, IsIdle
<1>11. ASSUME NEW n \in Node, Reap(n) PROVE DetectorAlone'
  BY <1>11 DEF Reap
<1>12. ASSUME NEW n \in Node, SendStep(n) PROVE DetectorAlone'
  BY <1>12 DEF SendStep, Take, Introduce, Snapshot, AnnounceLeave
<1>13. ASSUME NEW n \in Node, NEW answers \in BOOLEAN, SetReady(n, answers)
       PROVE  DetectorAlone'
  BY <1>0, <1>13, <1>p DEF SetReady
<1>14. ASSUME NEW n \in Node, Leave(n) PROVE DetectorAlone'
  BY <1>14 DEF Leave
<1>15. ASSUME NEW n \in Node, Stop(n) PROVE DetectorAlone'
  BY <1>0, <1>15, <1>p DEF Stop
<1>16. ASSUME NEW r \in wire, Lose(r) PROVE DetectorAlone'
  BY <1>16 DEF Lose
<1>17. CASE UNCHANGED vars
  BY <1>17 DEF vars
<1> QED
  BY <1>1, <1>2, <1>3, <1>4, <1>5, <1>6, <1>7, <1>8, <1>9, <1>10, <1>11, <1>12,
     <1>13, <1>14, <1>15, <1>16, <1>17
     DEF Next, TaskStep, DetectorStep

\* What a step may make of a copy: keep it as long as there is an entry, or take
\* it from the entry just now.
CopyStep(n, r) ==
    \/ /\ r \in DetectorCopies(n)
       /\ table[n][r.id] # NoEntry => table'[n][r.id] # NoEntry
    \/ table'[n][r.id] = r

\* Merging never drops an entry.
LEMMA ApplyKeeps ==
    ASSUME TypeOK, NEW n \in Node, NEW t \in Task, NEW r \in Rumor,
           ApplyRumor(n, t, r), NEW a \in Node, NEW b \in Node
    PROVE  table[a][b] # NoEntry => table'[a][b] # NoEntry
BY NoEntryAssumption DEF ApplyRumor, Merge, TypeOK, Rumor

\* A step leaves the detector only copies it had before or just made.
LEMMA NextCopies ==
    ASSUME TypeOK, Filed, DetectorAlone, [Next]_vars,
           NEW n \in Node, NEW r \in DetectorCopies(n)'
    PROVE  CopyStep(n, r)
<1> USE DEF TypeOK
<1>0. "detector" \in Task
  BY DEF Task
<1>t. DetectorCopies(n)' \subseteq Rumor
  <2>1. TypeOK'
    BY NextType
  <2>2. task'[n]["detector"] \in TaskState
    BY <1>0, <2>1
  <2> QED
    BY <2>1, <2>2 DEF DetectorCopies, TaskState
<1>i. r.id \in Node
  BY <1>t DEF Rumor
<1>s. ASSUME r \in DetectorCopies(n), UNCHANGED table PROVE CopyStep(n, r)
  BY <1>s DEF CopyStep
<1>p. Idle.pc = "idle" /\ \A pc, x : At(pc, x).pc = pc /\ At(pc, x).rumor = x
  BY DEF Idle, At
\* A step of any task that is not a probe takes no copy.
<1>c. ASSUME NEW a \in Node, NEW t \in Task, NEW next,
             task' = [task EXCEPT ![a][t] = next], next.pc # "probe",
             expired'[n] \subseteq expired[n]
      PROVE  r \in DetectorCopies(n)
  <2>1. task'[n]["detector"] = task[n]["detector"]
        \/ task'[n]["detector"].pc # "probe"
    BY <1>0, <1>c
  <2> QED
    BY <2>1, <1>c DEF DetectorCopies
<1>a. ASSUME NEW a \in Node, NEW t \in Task, NEW x \in Rumor, ApplyRumor(a, t, x),
             expired'[n] \subseteq expired[n]
      PROVE  CopyStep(n, r)
  <2>1. PICK next \in {Idle, At("refute", x), At("push", x)} :
           task' = [task EXCEPT ![a][t] = next]
    BY <1>a DEF ApplyRumor
  <2>2. next.pc # "probe"
    BY <1>p
  <2>3. r \in DetectorCopies(n)
    BY <1>a, <1>c, <2>1, <2>2
  <2>4. table[n][r.id] # NoEntry => table'[n][r.id] # NoEntry
    BY <1>a, <1>i, ApplyKeeps
  <2> QED
    BY <2>3, <2>4 DEF CopyStep
<1>1. ASSUME NEW a \in Node, NEW t \in Task, Refute(a, t) PROVE CopyStep(n, r)
  <2>1. PICK next \in {Idle, At("announce", NoEntry)} :
           task' = [task EXCEPT ![a][t] = next]
    BY <1>1 DEF Refute
  <2>2. next.pc # "probe"
    BY <1>p
  <2> QED
    BY <1>1, <1>c, <1>s, <2>1, <2>2 DEF Refute
<1>2. ASSUME NEW a \in Node, NEW t \in Task, Announce(a, t) \/ Push(a, t)
      PROVE  CopyStep(n, r)
  <2>1. PICK next \in {Idle, At("push", AliveRumor(a))} :
           task' = [task EXCEPT ![a][t] = next]
    BY <1>2 DEF Announce, Push
  <2>2. next.pc # "probe"
    BY <1>p
  <2> QED
    BY <1>2, <1>c, <1>s, <2>1, <2>2 DEF Announce, Push, local
<1>3. ASSUME NEW a \in Node, NEW t \in Task, NEW x \in wire, Receive(a, t, x)
      PROVE  CopyStep(n, r)
  BY <1>3, <1>a DEF Receive
<1>4. ASSUME NEW a \in Node, NEW m \in Node, Probe(a, m) PROVE CopyStep(n, r)
  <2>1. CASE a # n
    BY <1>0, <1>4, <1>s, <2>1 DEF Probe, DetectorCopies
  <2>2. CASE a = n
    <3>1. r = table[n][m]
      BY <1>0, <1>4, <1>p, <2>2 DEF Probe, DetectorCopies, DetectorFree
    <3> QED
      BY <1>4, <2>2, <3>1 DEF Probe, CopyStep, Filed
  <2> QED
    BY <2>1, <2>2
<1>5. ASSUME NEW a \in Node, ProbeAcked(a) PROVE CopyStep(n, r)
  BY <1>0, <1>5, <1>c, <1>s, <1>p DEF ProbeAcked
<1>6. ASSUME NEW a \in Node, ProbeFailed(a) PROVE CopyStep(n, r)
  <2>1. Marked(task[a]["detector"].rumor, "suspect") \in Rumor
    BY <1>0, <1>6, HeldRumor, MarkedType DEF ProbeFailed
  <2> QED
    BY <1>0, <1>6, <1>a, <2>1 DEF ProbeFailed
<1>7. ASSUME NEW a \in Node, NEW late \in SUBSET Node, Sweep(a, late)
      PROVE  CopyStep(n, r)
  <2>1. CASE a # n
    BY <1>7, <1>s, <2>1 DEF Sweep, DetectorCopies
  <2>2. CASE a = n
    <3>1. PICK m \in late : r = table[n][m]
      BY <1>7, <2>2 DEF Sweep, DetectorCopies, DetectorFree, IsIdle
    <3> QED
      BY <1>7, <2>2, <3>1 DEF Sweep, CopyStep, Filed
  <2> QED
    BY <2>1, <2>2
<1>8. ASSUME NEW a \in Node, NEW x \in expired[a], MarkDead(a, x)
      PROVE  CopyStep(n, r)
  <2>1. Marked(x, "dead") \in Rumor
    BY MarkedType
  <2>2. expired'[n] \subseteq expired[n]
    BY <1>8 DEF MarkDead
  <2> QED
    BY <1>0, <1>8, <1>a, <2>1, <2>2 DEF MarkDead
<1>9. ASSUME NEW a \in Node, NEW gone \in SUBSET Node, FindLongDead(a, gone)
      PROVE  CopyStep(n, r)
  BY <1>9, <1>s DEF FindLongDead, DetectorCopies
<1>10. ASSUME NEW a \in Node, Reap(a) PROVE CopyStep(n, r)
  <2>1. r \in DetectorCopies(n)
    BY <1>10 DEF Reap, DetectorCopies
  <2>2. a # n
    BY <1>10, <2>1 DEF Reap, DetectorCopies, DetectorAlone
  <2> QED
    BY <1>10, <2>1, <2>2 DEF Reap, CopyStep
<1>11. ASSUME NEW a \in Node, SendStep(a) PROVE CopyStep(n, r)
  BY <1>11, <1>s
     DEF SendStep, Take, Introduce, Snapshot, AnnounceLeave, DetectorCopies
<1>12. ASSUME NEW a \in Node, NEW answers \in BOOLEAN, SetReady(a, answers)
       PROVE  CopyStep(n, r)
  <2>1. "health" \in Task
    BY DEF Task
  <2>2. At("announce", NoEntry).pc # "probe"
    BY <1>p
  <2>3. r \in DetectorCopies(n)
    BY <1>12, <1>c, <2>1, <2>2 DEF SetReady
  <2> QED
    BY <1>12, <1>s, <2>3 DEF SetReady
<1>13. ASSUME NEW a \in Node, Leave(a) PROVE CopyStep(n, r)
  BY <1>13, <1>s DEF Leave, DetectorCopies
<1>14. ASSUME NEW a \in Node, Stop(a) PROVE CopyStep(n, r)
  <2>1. CASE a # n
    BY <1>0, <1>14, <2>1 DEF Stop, DetectorCopies, CopyStep
  <2>2. CASE a = n
    BY <1>0, <1>14, <1>p, <2>2 DEF Stop, DetectorCopies
  <2> QED
    BY <2>1, <2>2
<1>15. ASSUME NEW x \in wire, Lose(x) PROVE CopyStep(n, r)
  BY <1>15, <1>s DEF Lose, DetectorCopies
<1>16. CASE UNCHANGED vars
  BY <1>16, <1>s DEF vars, DetectorCopies
<1> QED
  BY <1>1, <1>2, <1>3, <1>4, <1>5, <1>6, <1>7, <1>8, <1>9, <1>10, <1>11, <1>12,
     <1>13, <1>14, <1>15, <1>16
     DEF Next, TaskStep, DetectorStep

-----------------------------------------------------------------------------
(* The inductive invariant.  Filed and DetectorAlone are what the three     *)
(* checked invariants need to be inductive.                                 *)

IInv ==
    /\ TypeOK
    /\ Filed
    /\ DetectorAlone
    /\ DetectorCopiesCurrent
    /\ IncarnationOwned
    /\ ReadinessAgrees

\* The invariant holds when every process starts.
LEMMA InitIInv == Init => IInv
<1> SUFFICES ASSUME Init PROVE IInv
  OBVIOUS
<1>1. TypeOK
  BY InitType
<1>2. Circulating = {}
  <2>1. \A n \in Node : RumorsAt(n) \subseteq {NoEntry}
    <3> SUFFICES ASSUME NEW n \in Node PROVE RumorsAt(n) \subseteq {NoEntry}
      OBVIOUS
    <3>1. \A m \in Node : table[n][m] = NoEntry /\ queue[n][m] = NoEntry
      BY DEF Init, Empty
    <3>2. \A t \in Task : task[n][t].rumor = NoEntry
      BY DEF Init, Idle
    <3>3. expired[n] = {}
      BY DEF Init
    <3> QED
      BY <3>1, <3>2, <3>3 DEF RumorsAt
  <2> QED
    BY <2>1 DEF Circulating, Init
<1>3. IncarnationOwned /\ ReadinessAgrees
  BY <1>2 DEF IncarnationOwned, ReadinessAgrees
<1>4. Filed
  BY DEF Filed, Init, Empty
<1>5. DetectorAlone /\ DetectorCopiesCurrent
  <2>1. \A n \in Node : /\ reaping[n] = {} /\ expired[n] = {}
                       /\ task[n]["detector"].pc = "idle"
    BY DEF Init, Idle, Task
  <2> QED
    BY <2>1 DEF DetectorAlone, DetectorCopiesCurrent, DetectorCopies
<1> QED
  BY <1>1, <1>3, <1>4, <1>5 DEF IInv

\* Every record in circulation after a step comes from its subject or from a
\* record that circulated before it.
LEMMA Sources ==
    ASSUME TypeOK, DetectorAlone, [Next]_vars, NEW r \in Circulating'
    PROVE  Spoken(r) \/ \E q \in Circulating : Repeats(r, q)
<1>1. CASE Next
  <2>1. PICK x : OnlyAdds(x) /\ Sourced(x)
    BY <1>1, NextSources
  <2>2. r \in Circulating \/ r = x
    BY <2>1, AddsAtMostOne
  <2>3. r # NoEntry
    BY DEF Circulating
  <2> QED
    BY <2>1, <2>2, <2>3 DEF Sourced, Repeats
<1>2. CASE UNCHANGED vars
  <2>1. r \in Circulating
    BY <1>2 DEF vars, Circulating, RumorsAt
  <2> QED
    BY <2>1 DEF Repeats
<1> QED
  BY <1>1, <1>2

\* No step makes a record ahead of its subject.
LEMMA NextOwned ==
    ASSUME IInv, [Next]_vars
    PROVE  IncarnationOwned'
<1> SUFFICES ASSUME NEW r \in Circulating' PROVE r.incarnation <= incarnation'[r.id]
  BY DEF IncarnationOwned
<1>1. r \in Rumor
  <2>1. TypeOK'
    BY NextType DEF IInv
  <2>2. (Circulating \subseteq Rumor)'
    BY <2>1, CirculatingType, PTL
  <2> QED
    BY <2>2
<1>2. r.id \in Node /\ r.incarnation \in Int
  BY <1>1 DEF Rumor, Incarnation
<1>3. incarnation[r.id] <= incarnation'[r.id]
  BY <1>2, NumbersGrow DEF IInv
<1>4. r.incarnation <= incarnation[r.id]
  <2>1. Spoken(r) \/ \E q \in Circulating : Repeats(r, q)
    BY Sources DEF IInv
  <2>2. CASE Spoken(r)
    BY <1>2, <2>2 DEF Spoken
  <2>3. ASSUME NEW q \in Circulating, Repeats(r, q)
        PROVE  r.incarnation <= incarnation[r.id]
    BY <2>3 DEF IInv, IncarnationOwned, Repeats
  <2> QED
    BY <2>1, <2>2, <2>3
<1>5. incarnation[r.id] \in Int /\ incarnation'[r.id] \in Int
  BY <1>2, NextType DEF IInv, TypeOK, Incarnation
<1> QED
  BY <1>2, <1>3, <1>4, <1>5

\* No step makes two records disagree about readiness.
LEMMA NextReadiness ==
    ASSUME IInv, [Next]_vars
    PROVE  ReadinessAgrees'
<1>t. TypeOK /\ TypeOK'
  BY NextType DEF IInv
<1>c. Circulating' \subseteq Rumor
  <2>1. (Circulating \subseteq Rumor)'
    BY <1>t, CirculatingType, PTL
  <2> QED
    BY <2>1
\* Short of the largest number, a record that circulates afterwards and is about
\* number i of m says what m says now, if i is m's number now.
<1>1. ASSUME NEW r \in Circulating', r.incarnation < MaxIncarnation
      PROVE  /\ r.incarnation = incarnation[r.id] => r.ready = ready[r.id]
             /\ \/ r.incarnation = incarnation[r.id]
                \/ \E q \in Circulating : Repeats(r, q)
  <2>1. Spoken(r) \/ \E q \in Circulating : Repeats(r, q)
    BY Sources DEF IInv
  <2>2. ASSUME NEW q \in Circulating, Repeats(r, q), r.incarnation = incarnation[r.id]
        PROVE  r.ready = ready[r.id]
    BY <1>1, <2>2 DEF IInv, ReadinessAgrees, Repeats
  <2> QED
    BY <2>1, <2>2 DEF Spoken
<1>2. ASSUME NEW r \in Circulating', r.incarnation < MaxIncarnation,
             r.incarnation = incarnation'[r.id]
      PROVE  r.ready = ready'[r.id]
  <2>1. r.id \in Node /\ r.incarnation \in Int
    BY <1>c DEF Rumor, Incarnation
  <2>2. incarnation[r.id] \in Int /\ incarnation'[r.id] \in Int
    BY <1>t, <2>1 DEF TypeOK, Incarnation
  <2>3. /\ incarnation[r.id] <= incarnation'[r.id]
        /\ incarnation[r.id] < MaxIncarnation
           /\ incarnation'[r.id] = incarnation[r.id] => ready'[r.id] = ready[r.id]
    BY <1>t, <2>1, NumbersGrow
  <2>4. r.incarnation <= incarnation[r.id]
    <3>1. CASE r.incarnation = incarnation[r.id]
      BY <2>1, <3>1
    <3>2. ASSUME NEW q \in Circulating, Repeats(r, q)
          PROVE  r.incarnation <= incarnation[r.id]
      BY <3>2 DEF IInv, IncarnationOwned, Repeats
    <3> QED
      BY <1>1, <1>2, <3>1, <3>2
  <2>5. r.incarnation = incarnation[r.id]
    BY <1>2, <2>1, <2>2, <2>3, <2>4
  <2>6. ready'[r.id] = ready[r.id]
    BY <1>2, <2>3, <2>5
  <2> QED
    BY <1>1, <1>2, <2>5, <2>6
<1>3. ASSUME NEW q \in Circulating', NEW r \in Circulating',
             r.incarnation < MaxIncarnation,
             q.id = r.id, q.incarnation = r.incarnation
      PROVE  q.ready = r.ready
  <2>1. CASE r.incarnation = incarnation[r.id]
    BY <1>1, <1>3, <2>1
  <2>2. CASE r.incarnation # incarnation[r.id]
    <3>1. PICK x \in Circulating : Repeats(r, x)
      BY <1>1, <1>3, <2>2
    <3>2. PICK y \in Circulating : Repeats(q, y)
      BY <1>1, <1>3, <2>2
    <3> QED
      BY <1>3, <3>1, <3>2 DEF IInv, ReadinessAgrees, Repeats
  <2> QED
    BY <2>1, <2>2
<1> QED
  BY <1>2, <1>3 DEF ReadinessAgrees

\* No step overtakes a copy the detector holds.
LEMMA NextCopiesCurrent ==
    ASSUME IInv, [Next]_vars
    PROVE  DetectorCopiesCurrent'
<1> SUFFICES ASSUME NEW n \in Node, NEW r \in DetectorCopies(n)'
             PROVE  /\ table'[n][r.id] # NoEntry
                    /\ ~Supersedes(r, table'[n][r.id])
  BY DEF DetectorCopiesCurrent
<1>t. TypeOK /\ TypeOK'
  BY NextType DEF IInv
<1>1. r \in Rumor
  <2>1. "detector" \in Task
    BY DEF Task
  <2>2. task'[n]["detector"] \in TaskState /\ expired'[n] \subseteq Rumor
    BY <1>t, <2>1 DEF TypeOK
  <2> QED
    BY <2>2 DEF DetectorCopies, TaskState
<1>2. r.id \in Node
  BY <1>1 DEF Rumor
<1>3. CopyStep(n, r)
  BY NextCopies DEF IInv
<1>4. CASE table'[n][r.id] = r
  BY <1>1, <1>4, NoEntryAssumption DEF Supersedes, Rank, Rumor, Incarnation
<1>5. CASE /\ r \in DetectorCopies(n)
           /\ table[n][r.id] # NoEntry => table'[n][r.id] # NoEntry
  <2> DEFINE old == table[n][r.id]
             new == table'[n][r.id]
  <2>1. old # NoEntry /\ ~Supersedes(r, old)
    BY <1>5 DEF IInv, DetectorCopiesCurrent
  <2>2. old \in Rumor /\ new \in Rumor
    BY <1>t, <1>2, <1>5, <2>1 DEF TypeOK, Entry
  <2>3. new = old \/ Supersedes(new, old)
    BY <1>t, <1>2, <1>5, <2>1, NextEntry DEF EntryStep, IsNews
  <2> HIDE DEF old, new
  <2>4. ~Supersedes(r, new)
    BY <1>1, <2>1, <2>2, <2>3 DEF Supersedes, Rank, Rumor, Incarnation
  <2> QED
    BY <1>5, <2>1, <2>4 DEF old, new
<1> QED
  BY <1>3, <1>4, <1>5 DEF CopyStep

\* The invariant is inductive: its parts need each other.
LEMMA NextIInv == IInv /\ [Next]_vars => IInv'
BY NextType, NextFiled, NextAlone, NextCopiesCurrent, NextOwned, NextReadiness DEF IInv

\* The inductive invariant: types, entries filed under their own id, a detector
\* that does one thing at a time, and the three invariants built on these.
THEOREM Invariance == Spec => []IInv
BY InitIInv, NextIInv, PTL DEF Spec

\* No record about a process is ahead of it, whoever wrote it and however many
\* hands it passed through.
THEOREM IncarnationsAreOwned == Spec => []IncarnationOwned
BY Invariance, PTL DEF IInv

\* Readiness is a function of the process and its number, short of the largest.
THEOREM ReadinessIsAgreed == Spec => []ReadinessAgrees
BY Invariance, PTL DEF IInv

\* The detector never acts on a copy of a member it has forgotten, or on one
\* that is ahead of its table.
THEOREM CopiesAreCurrent == Spec => []DetectorCopiesCurrent
BY Invariance, PTL DEF IInv

-----------------------------------------------------------------------------
(* Action properties.                                                       *)

\* A suspicion or a death gives way only to a number its subject has reached.
THEOREM SubjectClears == Spec => OnlySubjectClears
<1> DEFINE A == \A n, m \in Node :
                  LET old == table[n][m]
                      new == table'[n][m]
                  IN  /\ old # NoEntry /\ new # NoEntry
                      /\ Rank(new.state) < Rank(old.state)
                      => old.incarnation < new.incarnation
                         /\ new.incarnation <= incarnation[m]
<1>1. ASSUME IInv, Next PROVE A
  <2> SUFFICES ASSUME NEW n \in Node, NEW m \in Node,
                      table[n][m] # NoEntry, table'[n][m] # NoEntry,
                      Rank(table'[n][m].state) < Rank(table[n][m].state)
               PROVE  /\ table[n][m].incarnation < table'[n][m].incarnation
                      /\ table'[n][m].incarnation <= incarnation[m]
    OBVIOUS
  <2> DEFINE old == table[n][m]
             new == table'[n][m]
  <2>1. TypeOK /\ TypeOK'
    BY <1>1, NextType DEF IInv
  <2>2. old \in Rumor /\ new \in Rumor
    BY <2>1 DEF TypeOK, Entry
  <2>3. EntryStep(n, m)
    BY <1>1, <2>1, NextEntry
  <2>4. new # old
    BY <2>2 DEF Rank, Rumor
  <2>5. Supersedes(new, old) /\ new.id = m
    BY <2>3, <2>4 DEF EntryStep, IsNews
  <2>6. old.incarnation < new.incarnation
    BY <2>2, <2>5 DEF Supersedes, Rank, Rumor, Incarnation
  <2>7. new \in Circulating'
    BY DEF Circulating, RumorsAt
  <2>8. new.incarnation <= incarnation[m]
    <3>1. Spoken(new) \/ \E q \in Circulating : Repeats(new, q)
      BY <1>1, <2>7, Sources DEF IInv
    <3>2. CASE Spoken(new)
      BY <2>2, <2>5, <3>2 DEF Spoken, Rumor, Incarnation
    <3>3. ASSUME NEW q \in Circulating, Repeats(new, q)
          PROVE  new.incarnation <= incarnation[m]
      BY <1>1, <2>5, <3>3 DEF IInv, IncarnationOwned, Repeats
    <3> QED
      BY <3>1, <3>2, <3>3
  <2> QED
    BY <2>6, <2>8
<1>2. IInv /\ [Next]_vars => [A]_vars
  BY <1>1
<1>3. Spec => [][A]_vars
  BY <1>2, Invariance, PTL DEF Spec
<1> QED
  BY <1>3 DEF OnlySubjectClears

\* A leaver's last number is final, and a peer that holds it dead there keeps
\* that entry until it drops it.
THEOREM LeavingStands == Spec => LeaveStands
<1> DEFINE A == \A m \in Node : leaving[m] =>
                  /\ incarnation'[m] = incarnation[m]
                  /\ \A n \in Node :
                        /\ table[n][m] # NoEntry
                        /\ table[n][m].state = "dead"
                        /\ table[n][m].incarnation = incarnation[m]
                        => table'[n][m] \in {table[n][m], NoEntry}
<1>1. ASSUME IInv, Next PROVE A
  <2>1. TypeOK /\ TypeOK' /\ IncarnationOwned'
    BY <1>1, NextIInv DEF IInv
  <2>2. ASSUME NEW m \in Node, leaving[m] PROVE incarnation'[m] = incarnation[m]
    BY <1>1, <2>1, <2>2, NumbersGrow
  <2>3. ASSUME NEW m \in Node, leaving[m], NEW n \in Node,
               table[n][m] # NoEntry, table[n][m].state = "dead",
               table[n][m].incarnation = incarnation[m],
               table'[n][m] # table[n][m]
        PROVE  table'[n][m] = NoEntry
    <3> DEFINE old == table[n][m]
               new == table'[n][m]
    <3>1. SUFFICES ASSUME new # NoEntry PROVE FALSE
      OBVIOUS
    <3>2. old \in Rumor /\ new \in Rumor
      BY <2>1, <2>3, <3>1 DEF TypeOK, Entry
    <3>3. new.id = m /\ Supersedes(new, old)
      BY <1>1, <2>1, <2>3, <3>1, NextEntry DEF EntryStep, IsNews
    <3>4. incarnation[m] < new.incarnation
      BY <2>3, <3>2, <3>3 DEF Supersedes, Rank, Rumor, Incarnation
    <3>5. new \in Circulating'
      BY <3>1 DEF Circulating, RumorsAt
    <3>6. new.incarnation <= incarnation'[m]
      BY <2>1, <3>3, <3>5 DEF IncarnationOwned
    <3>7. incarnation'[m] = incarnation[m]
      BY <2>2, <2>3
    <3>8. incarnation[m] \in Int /\ new.incarnation \in Int
      BY <2>1, <3>2 DEF TypeOK, Rumor, Incarnation
    <3> QED
      BY <3>4, <3>6, <3>7, <3>8
  <2> QED
    BY <2>2, <2>3
<1>2. IInv /\ [Next]_vars => [A]_vars
  BY <1>1
<1>3. Spec => [][A]_vars
  BY <1>2, Invariance, PTL DEF Spec
<1> QED
  BY <1>3 DEF LeaveStands

\* Once only its corpse is left, a process is never learned of again.
THEOREM ReapingIsFinal == Spec => ReapingSticks
<1> DEFINE A == \A m \in Node : OnlyCorpse(m) =>
                  /\ OnlyCorpse(m)'
                  /\ \A n \in Node :
                        table[n][m] = NoEntry => table'[n][m] = NoEntry
<1>1. ASSUME IInv, Next PROVE A
  <2> SUFFICES ASSUME NEW m \in Node, OnlyCorpse(m)
               PROVE  /\ OnlyCorpse(m)'
                      /\ \A n \in Node :
                            table[n][m] = NoEntry => table'[n][m] = NoEntry
    OBVIOUS
  <2>1. ASSUME NEW r \in Circulating', r.id = m PROVE r.state = "dead"
    <3>1. Spoken(r) \/ \E q \in Circulating : Repeats(r, q)
      BY <1>1, Sources DEF IInv
    <3>2. ~Spoken(r)
      BY <2>1 DEF Spoken, OnlyCorpse
    <3> QED
      BY <2>1, <3>1, <3>2 DEF Repeats, OnlyCorpse
  <2>2. OnlyCorpse(m)'
    BY <1>1, <2>1, DownStaysDown DEF OnlyCorpse
  <2>3. ASSUME NEW n \in Node, table[n][m] = NoEntry, table'[n][m] # NoEntry
        PROVE  FALSE
    <3>1. /\ table'[n][m].id = m
          /\ table'[n][m].state # "dead"
      BY <1>1, <2>3, NextEntry DEF IInv, EntryStep, IsNews
    <3>2. table'[n][m] \in Circulating'
      BY <2>3 DEF Circulating, RumorsAt
    <3> QED
      BY <2>1, <3>1, <3>2
  <2> QED
    BY <2>2, <2>3
<1>2. IInv /\ [Next]_vars => [A]_vars
  BY <1>1
<1>3. Spec => [][A]_vars
  BY <1>2, Invariance, PTL DEF Spec
<1> QED
  BY <1>3 DEF ReapingSticks

-----------------------------------------------------------------------------
(* Rumors in any order, any number of times (state.rs, MemberTable::merge). *)

\* A rumor heard twice is heard once: the second time is no news.
THEOREM MergeTwice ==
    ASSUME NEW e \in Entry, NEW r \in Rumor
    PROVE  Merge(Merge(e, r), r) = Merge(e, r)
<1>1. ~Supersedes(r, r)
  BY DEF Supersedes, Rumor, Incarnation, Rank
<1>2. r # NoEntry
  BY NoEntryAssumption
<1> QED
  BY <1>1, <1>2 DEF Merge, IsNews

LEMMA OneSupersedes ==
    ASSUME NEW r \in Rumor, NEW q \in Rumor, r.id = q.id,
           r.incarnation = q.incarnation => r.ready = q.ready
    PROVE  r = q \/ Supersedes(r, q) \/ Supersedes(q, r)
<1>1. /\ r.incarnation \in Int /\ q.incarnation \in Int
      /\ r.state \in {"alive", "suspect", "dead"} /\ q.state \in {"alive", "suspect", "dead"}
  BY IncarnationAssumption DEF Rumor, Incarnation
<1>2. CASE r.incarnation # q.incarnation
  BY <1>1, <1>2 DEF Supersedes
<1>3. CASE r.incarnation = q.incarnation /\ r.state # q.state
  BY <1>1, <1>3 DEF Supersedes, Rank
<1>4. CASE r.incarnation = q.incarnation /\ r.state = q.state
  BY <1>4 DEF Rumor
<1> QED
  BY <1>2, <1>3, <1>4

LEMMA SupersedesOrders ==
    ASSUME NEW a \in Rumor, NEW b \in Rumor, NEW c \in Rumor
    PROVE  /\ Supersedes(a, b) => ~Supersedes(b, a)
           /\ Supersedes(a, b) /\ ~Supersedes(c, b) => Supersedes(a, c)
<1>1. \A x \in Rumor : x.incarnation \in Int /\ x.state \in {"alive", "suspect", "dead"}
  BY IncarnationAssumption DEF Rumor, Incarnation
<1> QED
  BY <1>1 DEF Supersedes, Rank

\* In whichever order two rumors about a member arrive, its entry ends up the same, if
\* records with one incarnation agree about readiness, as those in circulation do below
\* the largest (ReadinessAgrees), and unless a death comes first to where there is no
\* entry: that one leaves no trace.
THEOREM MergeInAnyOrder ==
    ASSUME NEW e \in Entry, NEW r \in Rumor, NEW q \in Rumor, r.id = q.id,
           r.incarnation = q.incarnation => r.ready = q.ready,
           e = NoEntry => r.state # "dead" /\ q.state # "dead"
    PROVE  Merge(Merge(e, r), q) = Merge(Merge(e, q), r)
<1>1. r # NoEntry /\ q # NoEntry
  BY NoEntryAssumption
<1>2. /\ r = q \/ Supersedes(r, q) \/ Supersedes(q, r)
      /\ ~(Supersedes(r, q) /\ Supersedes(q, r))
  BY OneSupersedes, SupersedesOrders
<1>3. Merge(r, q) = Merge(q, r)
  BY <1>1, <1>2 DEF Merge, IsNews
<1>4. CASE e = NoEntry
  BY <1>1, <1>3, <1>4 DEF Merge, IsNews
<1>5. CASE e \in Rumor
  <2>1. e # NoEntry
    BY <1>5, NoEntryAssumption
  <2>2. /\ Supersedes(r, e) /\ ~Supersedes(q, e) => Supersedes(r, q)
        /\ Supersedes(q, e) /\ ~Supersedes(r, e) => Supersedes(q, r)
    BY <1>5, SupersedesOrders
  <2> QED
    BY <1>1, <1>2, <1>3, <2>1, <2>2 DEF Merge, IsNews
<1> QED
  BY <1>4, <1>5 DEF Entry
=============================================================================
