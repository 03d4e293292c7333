------------------------------- MODULE Mailbox --------------------------------
(***************************************************************************)
(* What a connection promises the one who reads from it: the messages sent *)
(* on it, whole, once each and in order; and that it is at its end only    *)
(* when there are none left and none was torn.                             *)
(***************************************************************************)
EXTENDS Naturals, Sequences

CONSTANTS Message

VARIABLES
    sent,      \* the messages sent that have not been lost
    received,
    torn,      \* the sender was gone in the middle of a message
    end        \* "open", "end", or "error"

Init == sent = <<>> /\ received = <<>> /\ torn = FALSE /\ end = "open"

Send ==
    /\ \E m \in Message : sent' = Append(sent, m)
    /\ UNCHANGED <<received, torn, end>>

\* Only the last ones, and only before they are received.
Lose ==
    /\ \E k \in Len(received) .. Len(sent) : sent' = SubSeq(sent, 1, k)
    /\ torn' \in BOOLEAN
    /\ UNCHANGED <<received, end>>

Receive ==
    /\ end = "open" /\ Len(received) < Len(sent)
    /\ received' = Append(received, sent[Len(received) + 1])
    /\ UNCHANGED <<sent, torn, end>>

Finish ==
    /\ end = "open"
    /\ \/ end' = "end" /\ received = sent /\ ~torn
       \/ end' = "error"
    /\ UNCHANGED <<sent, received, torn>>

Spec == Init /\ [][Send \/ Lose \/ Receive \/ Finish]_<<sent, received, torn, end>>
=============================================================================
