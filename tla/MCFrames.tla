------------------------------- MODULE MCFrames -------------------------------
(***************************************************************************)
(* An instance of Frames for TLC: bytes of three values, two to a prefix.  *)
(* Among the payloads are one of another version, one that is too long,    *)
(* one with another key's tag and one that is no body; a byte of a payload *)
(* may be taken for one of a prefix.                                       *)
(***************************************************************************)
EXTENDS Frames

MCPayload == {<<1>>, <<1, 0>>, <<1, 1>>, <<1, 2>>, <<0>>, <<1, 0, 1>>}
MCOpened == MCPayload \ {<<1, 1>>}
MCDecoded == MCPayload \ {<<1, 2>>}
=============================================================================
