------------------------------ MODULE MCStartup -------------------------------
(***************************************************************************)
(* An instance of Startup for TLC: a and b are each other's first seeds,   *)
(* a has s besides, and b may have been started with another key.          *)
(***************************************************************************)
EXTENDS Startup

CONSTANTS s, a, b, shared, other

MCNode == {s, a, b}
MCSeeds == [n \in MCNode |-> CASE n = s -> <<>> [] n = a -> <<b, s>> [] n = b -> <<a>>]
MCKeyring == {[n \in MCNode |-> shared],
              [n \in MCNode |-> IF n = b THEN other ELSE shared]}
MCMaxExchanges == [n \in MCNode |-> IF n = s THEN 0 ELSE 2]
=============================================================================
