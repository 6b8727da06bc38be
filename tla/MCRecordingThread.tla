-------------------------- MODULE MCRecordingThread --------------------------
(* RecordingThread on small instances. *)
EXTENDS RecordingThread
=============================================================================
