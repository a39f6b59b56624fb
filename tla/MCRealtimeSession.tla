------------------------- MODULE MCRealtimeSession -------------------------
(***************************************************************************)
(* Instances of RealtimeSession for TLC; the bounds are in the .cfg files. *)
(***************************************************************************)
EXTENDS RealtimeSession
=============================================================================
