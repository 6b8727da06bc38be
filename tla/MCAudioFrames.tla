----------------------------- MODULE MCAudioFrames -----------------------------
(* AudioFrames on a small instance. *)
EXTENDS AudioFrames
=============================================================================
