------------------------------- MODULE MCCluster -------------------------------
(***************************************************************************)
(* An instance of Cluster for TLC: b and c join, each later or never; a    *)
(* and c may fail to reach each other, and b to reach a.                   *)
(***************************************************************************)
EXTENDS Cluster

CONSTANTS a, b, c

MCDoubts == {<<a, c>>, <<c, a>>, <<b, a>>}
=============================================================================
