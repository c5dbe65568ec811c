----------------------------- MODULE MCFraming -----------------------------
(***************************************************************************)
(* An instance of Framing for TLC: requests of 0 to 2 bytes that fit, and  *)
(* frames of the hub that exceed the buffers.                              *)
(***************************************************************************)
EXTENDS Framing

MCRequests == {<<>>, <<1>>, <<1, 2>>}
MCResponse == <<0>>
MCMessages == {<<2, 1, 0, 1, 2, 0, 1>>}
=============================================================================
