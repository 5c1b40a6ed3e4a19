------------------------------- MODULE MCLogger -------------------------------
(* Logger with two threads, two lines each, the first of one too long. *)
EXTENDS Logger

CONSTANTS t1, t2

MCTooLong == {<<t1, 1>>}
=============================================================================
