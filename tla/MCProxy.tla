------------------------------- MODULE MCProxy --------------------------------
(***************************************************************************)
(* An instance of Proxy for TLC: two agents share the machine at address   *)
(* 2, one of the peers does not carry the tag one client asks for.         *)
(***************************************************************************)
EXTENDS Proxy

CONSTANTS self, p, q, r, c1, c2

MCMember == {self, p, q, r}
MCIp == [m \in MCMember |-> CASE m = p -> 1 [] m = q -> 2 [] m = r -> 2 [] m = self -> 3]
MCWants == [c \in {c1, c2} |-> IF c = c2 THEN MCMember ELSE MCMember \ {r}]
=============================================================================
