---------------------------- MODULE MCSocketChannel ----------------------------
(* SocketChannel on a small instance. *)
EXTENDS SocketChannel, TLC

CONSTANTS short, long
MCBodyLen == (short :> 0) @@ (long :> 3)
=============================================================================
