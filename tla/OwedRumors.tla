----------------------------- MODULE OwedRumors ------------------------------
(***************************************************************************)
(* What a gossip queue promises: at most one rumor about each subject is   *)
(* owed to the cluster, the last one pushed, and it stays owed until it    *)
(* has been handed out at least once.  Membership treats its queues so.    *)
(***************************************************************************)
CONSTANTS
    Subject,   \* who the rumors are about
    Version,   \* tells rumors about one subject apart
    None       \* nothing is owed

VARIABLES
    owed,    \* owed[s]: the version of the rumor about s, or None
    handed   \* handed[s]: the last rumor about s has been handed out

Init ==
    /\ owed = [s \in Subject |-> None]
    /\ handed = [s \in Subject |-> FALSE]

Push(s, v) ==
    /\ owed' = [owed EXCEPT ![s] = v]
    /\ handed' = [handed EXCEPT ![s] = FALSE]

\* A packet takes some of what is owed, and some of that is then done with.
Take(batch, done) ==
    /\ batch # {} /\ done \subseteq batch
    /\ \A s \in batch : owed[s] # None
    /\ owed' = [s \in Subject |-> IF s \in done THEN None ELSE owed[s]]
    /\ handed' = [s \in Subject |-> s \in batch \/ handed[s]]

Next ==
    \/ \E s \in Subject, v \in Version : Push(s, v)
    \/ \E batch \in SUBSET Subject : \E done \in SUBSET batch : Take(batch, done)

Spec == Init /\ [][Next]_<<owed, handed>>
=============================================================================
