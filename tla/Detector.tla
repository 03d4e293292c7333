------------------------------- MODULE Detector -------------------------------
(***************************************************************************)
(* The failure detector of one agent in time (detector.rs): the rotation   *)
(* it probes its members in, the ticks that a failed probe makes late, and *)
(* the two timeouts its sweeps go by.                                      *)
(*                                                                         *)
(* Time is a count of units.  It advances in Elapse, and only when nothing *)
(* is due.  The suspicion and reaping clocks are the times since an entry  *)
(* took its state.  A tick's table calls are one step here, since          *)
(* Membership has the steps between its locks; news from the other tasks   *)
(* comes between any two steps.                                            *)
(***************************************************************************)
EXTENDS MemberRecord, FiniteSets, SequencesExt

CONSTANTS
    ProbeInterval, DirectTimeout, IndirectTimeout,
    SuspicionTimeout, ReapTimeout

ASSUME TimeAssumption ==
    {ProbeInterval, DirectTimeout, IndirectTimeout, SuspicionTimeout, ReapTimeout}
        \subseteq Nat \ {0}

\* The members are the processes this one can hear of.
Member == Node

\* The table is a HashMap: there is an end to them.
ASSUME MemberAssumption == IsFiniteSet(Member)

VARIABLES
    table,     \* table[m]: incarnation, state and clock, or NoEntry
    order,     \* what is left of this pass of the rotation, the next one last
    probe,     \* the probe under way, or NoEntry
    due,       \* the time to the next tick
    stopped,   \* the processes that answer no more
    passed,    \* history: how many others were probed since m was, or since
               \* m became one to probe
    silent     \* history: how long m, stopped, has been held not dead with no
               \* news about it

vars == <<table, order, probe, due, stopped, passed, silent>>

Belief(inc, s, clock) == [incarnation |-> inc, state |-> s, clock |-> clock]

\* What the table says of a member, and a probe of one.  NoEntry is neither.
Beliefs == [incarnation : Incarnation, state : {"alive", "suspect", "dead"}, clock : Nat]
Probes == [member : Member, entry : Beliefs, round : {"direct", "indirect"},
           left : Nat, answers : BOOLEAN]

ASSUME NoBeliefAssumption == NoEntry \notin Member \union Beliefs \union Probes

\* What a rumor, from another node or from `mark`, makes of an entry: a state
\* is dated when the table takes it.
News(inc, s) == Belief(inc, s, 0)

In(t, m, s) == t[m] # NoEntry /\ t[m].state = s
Known(t) == {m \in Member : t[m] # NoEntry}
ToProbe(t) == {m \in Known(t) : ~In(t, m, "dead")}

\* The longest a tick can keep the next one from starting.
LongestTick ==
    IF DirectTimeout + IndirectTimeout > ProbeInterval
    THEN DirectTimeout + IndirectTimeout ELSE ProbeInterval

Init ==
    /\ table = [m \in Member |-> NoEntry]
    /\ order = <<>>
    /\ probe = NoEntry
    /\ due = 0
    /\ stopped = {}
    /\ passed = [m \in Member |-> 0]
    /\ silent = [m \in Member |-> 0]

-----------------------------------------------------------------------------
(* History.                                                                 *)

\* m is probed.
CountProbe(m) ==
    passed' = [k \in Member |->
                 IF k = m \/ k \notin ToProbe(table) THEN 0 ELSE passed[k] + 1]

\* Nothing is counted about those a new table has dead or forgotten.
Forget(t) ==
    /\ passed' = [m \in Member |-> IF m \in ToProbe(t) THEN passed[m] ELSE 0]
    /\ silent' = [m \in Member |-> IF m \in ToProbe(t) THEN silent[m] ELSE 0]

-----------------------------------------------------------------------------
(* next_target.                                                             *)

\* A pass drops the dead and the forgotten as it meets them.
Live(o) == {i \in DOMAIN o : o[i] \in ToProbe(table)}
LastLive(o) == CHOOSE i \in Live(o) : \A j \in Live(o) : j <= i

\* A mutant: the rotation is forgotten, and every target drawn anew.
Passes_Fresh == SetToSeqs(Known(table))

\* The rotations the target may come from: what is left of this one, or, once
\* that holds nobody to probe, a new shuffle.
Passes == IF Live(order) # {} THEN {order} ELSE SetToSeqs(Known(table))

\* A mutant: only what is left of the last shuffle is looked through.
NextTarget_OnePass(m) ==
    IF Live(order) # {}
    THEN m = order[LastLive(order)] /\ order' = SubSeq(order, 1, LastLive(order) - 1)
    ELSE m = NoEntry /\ order' \in SetToSeqs(Known(table))

\* The last in the rotation is next; with nobody to probe a shuffle is left.
NextTarget(m) ==
    \E o \in Passes :
        IF Live(o) # {}
        THEN m = o[LastLive(o)] /\ order' = SubSeq(o, 1, LastLive(o) - 1)
        ELSE m = NoEntry /\ order' = o

-----------------------------------------------------------------------------
(* The end of a tick.                                                       *)

Swept(t) ==
    [m \in Member |->
        IF In(t, m, "suspect") /\ t[m].clock >= SuspicionTimeout
        THEN Merge(t[m], News(t[m].incarnation, "dead")) ELSE t[m]]

Reaped(t) ==
    [m \in Member |->
        IF In(t, m, "dead") /\ t[m].clock >= ReapTimeout THEN NoEntry ELSE t[m]]

\* A mutant: an acked probe is the end of the tick.
Finished_SweepsOnFailure(t, acked) == IF acked THEN t ELSE Reaped(Swept(t))

\* sweep_suspects and reap_dead, however the probe went.
Finished(t, acked) == Reaped(Swept(t))

FinishTick(t, acked) ==
    /\ table' = Finished(t, acked)
    /\ Forget(Finished(t, acked))

-----------------------------------------------------------------------------
(* The tick.  The next one is due an interval after it starts, or at once   *)
(* if it takes longer (MissedTickBehavior::Delay).                          *)

\* A ping goes out; the copy of the entry is what a failure will mark.
StartTick(m) ==
    /\ probe = NoEntry /\ due = 0
    /\ m \in ToProbe(table) /\ NextTarget(m)
    /\ probe' = [member |-> m, entry |-> table[m], round |-> "direct",
                 left |-> DirectTimeout, answers |-> m \notin stopped]
    /\ due' = ProbeInterval
    /\ CountProbe(m)
    /\ UNCHANGED <<table, stopped, silent>>

\* Nobody to probe: the sweep and the reap are all there is.
EmptyTick ==
    /\ probe = NoEntry /\ due = 0
    /\ NextTarget(NoEntry)
    /\ due' = ProbeInterval
    /\ FinishTick(table, TRUE)
    /\ UNCHANGED <<probe, stopped>>

\* An ack at any time before the timeout, from a target that ran when it was
\* pinged.  It changes nothing.
Acked ==
    /\ probe # NoEntry /\ probe.answers
    /\ FinishTick(table, TRUE)
    /\ probe' = NoEntry
    /\ UNCHANGED <<order, due, stopped>>

\* No ack in time, and somebody else to ask.
AskRelays ==
    /\ probe # NoEntry /\ probe.left = 0 /\ probe.round = "direct"
    /\ ToProbe(table) \ {probe.member} # {}
    /\ probe' = [probe EXCEPT !.round = "indirect", !.left = IndirectTimeout]
    /\ UNCHANGED <<table, order, due, stopped, passed, silent>>

\* Nothing came back, and the copy is marked suspect.
Failed ==
    /\ probe # NoEntry /\ probe.left = 0
    /\ probe.round = "direct" => ToProbe(table) \ {probe.member} = {}
    /\ FinishTick([table EXCEPT ![probe.member] =
                      Merge(@, News(probe.entry.incarnation, "suspect"))], FALSE)
    /\ probe' = NoEntry
    /\ UNCHANGED <<order, due, stopped>>

-----------------------------------------------------------------------------
(* The surroundings.                                                        *)

\* Another task merges a rumor.
Hear(m, inc, s) ==
    /\ IsNews(table[m], News(inc, s))
    /\ table' = [table EXCEPT ![m] = Merge(@, News(inc, s))]
    /\ silent' = [silent EXCEPT ![m] = 0]
    /\ passed' = [passed EXCEPT ![m] = IF s = "dead" THEN 0 ELSE @]
    /\ UNCHANGED <<order, probe, due, stopped>>

Stop(m) ==
    /\ m \notin stopped
    /\ stopped' = stopped \union {m}
    /\ UNCHANGED <<table, order, probe, due, passed, silent>>

\* A mutant: every entry is dated.
Aged_Every(e) == IF e = NoEntry THEN e ELSE [e EXCEPT !.clock = @ + 1]

\* The clocks of suspects and of the dead run.
Aged(e) == IF e = NoEntry \/ e.state = "alive" THEN e
           ELSE [e EXCEPT !.clock = @ + 1]

Elapse ==
    /\ IF probe = NoEntry THEN due > 0 ELSE probe.left > 0
    /\ due' = IF due > 0 THEN due - 1 ELSE 0
    /\ probe' = IF probe = NoEntry THEN probe ELSE [probe EXCEPT !.left = @ - 1]
    /\ table' = [m \in Member |-> Aged(table[m])]
    /\ silent' = [m \in Member |->
                    IF m \in stopped \intersect ToProbe(table) THEN silent[m] + 1 ELSE 0]
    /\ UNCHANGED <<order, stopped, passed>>

Tick ==
    \/ \E m \in Member : StartTick(m)
    \/ EmptyTick
    \/ Acked
    \/ AskRelays
    \/ Failed

Next ==
    \/ Tick
    \/ \E m \in Member, inc \in Incarnation, s \in {"alive", "suspect", "dead"} :
          Hear(m, inc, s)
    \/ \E m \in Member : Stop(m)
    \/ Elapse

Spec == Init /\ [][Next]_vars

-----------------------------------------------------------------------------
(* Properties.                                                              *)

\* Types.  The living have no clock, and a pass names nobody twice.
TypeOK ==
    /\ table \in [Member -> Beliefs \union {NoEntry}]
    /\ \A m \in Member : In(table, m, "alive") => table[m].clock = 0
    /\ order \in Seq(Member) /\ IsInjective(order)
    /\ probe \in Probes \union {NoEntry}
    /\ due \in 0 .. ProbeInterval
    /\ stopped \subseteq Member
    /\ passed \in [Member -> Nat]
    /\ silent \in [Member -> Nat]

\* "The list: filled lazily from the table, so members that join later are picked
\* up on the next reshuffle" (detector.rs, start_udp_detector): a member with the
\* worst places in two passes, or one that joins as a pass begins, waits for no
\* more than two probes of every other.
RotationFair ==
    \A m \in Member : passed[m] <= 2 * (Cardinality(Member) - 1)

\* "A slow tick pushes the next one back ... and this absorbs that" (detector.rs,
\* start_udp_detector): two sweeps are never further apart than an interval and a
\* probe that needed both rounds, so that is by how much a suspect can outlive
\* its timeout and a dead entry its own.
SweepGap == ProbeInterval + DirectTimeout + IndirectTimeout
SweptInTime ==
    \A m \in Member :
        /\ In(table, m, "suspect") => table[m].clock < SuspicionTimeout + SweepGap
        /\ In(table, m, "dead") => table[m].clock < ReapTimeout + SweepGap

\* The detector detects (detector.rs, handle_result, sweep_suspects): a process that
\* has stopped is not believed running for longer than two passes of the slowest
\* probes and its suspicion, unless there is news of it.  Neither a place in the
\* rotation, nor an ack under way, nor probing a suspect again puts it off.
DetectionBound ==
    2 * Cardinality(Member) * LongestTick + SuspicionTimeout + SweepGap
DetectedInTime == \A m \in Member : silent[m] < DetectionBound
=============================================================================
