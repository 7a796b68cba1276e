----------------------------- MODULE MCCliever -----------------------------
(* A Cliever, two handles, and two waits pending on each of its timers.    *)
EXTENDS Cliever
=============================================================================
