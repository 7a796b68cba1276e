----------------------------- MODULE MCStreams -----------------------------
(* Two channels, and one wait of each timer ready: another is ready while  *)
(* a thread handles the first.                                             *)
EXTENDS Streams
=============================================================================
