------------------------------ MODULE MCConsole ------------------------------
(* Constants for Console: one ordinary character is enough to tell a      *)
(* committed byte from a stale or uncommitted one.                         *)
EXTENDS Console

OneChar == {"a"}
=============================================================================
