---------------------------- MODULE MemberRecord ----------------------------
(***************************************************************************)
(* The data of dalila's membership crate and the one rule that combines    *)
(* it: incarnations, member records, and MemberTable::merge on one entry   *)
(* (src/membership/src/{node,wire,state}.rs).  No state.                   *)
(*                                                                         *)
(* Wire members and table entries are the same records here.  A record's   *)
(* address and tags are fixed for the life of a process, so its id stands  *)
(* for them; the clock inside Suspect and Dead never crosses the wire and  *)
(* is left to the modules that model time.                                 *)
(***************************************************************************)
EXTENDS Integers

CONSTANTS
    Node,            \* process identities; a restarted process is another one
    MaxIncarnation,  \* the largest incarnation, u32::MAX in the code
    NoEntry          \* "no record": a vacant table slot, an unused local

Incarnation == 0 .. MaxIncarnation

Rumor == [id : Node,
          incarnation : Incarnation,
          state : {"alive", "suspect", "dead"},
          ready : BOOLEAN]

ASSUME IncarnationAssumption == MaxIncarnation \in Nat
ASSUME NoEntryAssumption == NoEntry \notin Rumor

Record(n, inc, s, rdy) ==
    [id |-> n, incarnation |-> inc, state |-> s, ready |-> rdy]

\* A mutant: a plain "+ 1", as if u32 had no end.
Superseding_Unbounded(inc) == inc + 1

\* Saturates: at the largest incarnation there is nothing newer to say.
Superseding(inc) == IF inc < MaxIncarnation THEN inc + 1 ELSE inc

Rank(s) == CASE s = "alive" -> 0 [] s = "suspect" -> 1 [] s = "dead" -> 2

\* A mutant: the latest to arrive wins at the same incarnation.
Supersedes_Latest(rumor, existing) ==
    rumor.incarnation >= existing.incarnation

\* The lexicographic order on (incarnation, rank).
Supersedes(rumor, existing) ==
    \/ rumor.incarnation > existing.incarnation
    \/ /\ rumor.incarnation = existing.incarnation
       /\ Rank(rumor.state) > Rank(existing.state)

\* A mutant: a vacant slot takes any rumor.
IsNews_AnyIfVacant(entry, rumor) ==
    entry = NoEntry \/ Supersedes(rumor, entry)

\* Whether merging `rumor` about another node changes the entry: outcome
\* Added (the slot was vacant) or Updated.  Being dead never creates one.
IsNews(entry, rumor) ==
    IF entry = NoEntry THEN rumor.state # "dead" ELSE Supersedes(rumor, entry)

Merge(entry, rumor) == IF IsNews(entry, rumor) THEN rumor ELSE entry
=============================================================================
