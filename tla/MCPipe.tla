------------------------------- MODULE MCPipe -------------------------------
(* Model values for Pipe. *)
EXTENDS Pipe

CONSTANTS w1, w2, r1

OneWriter == {w1}
TwoWriters == {w1, w2}
OneReader == {r1}
=============================================================================
