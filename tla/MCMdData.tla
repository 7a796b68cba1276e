------------------------------ MODULE MCMdData ------------------------------
(* Three threads of the XML-RPC server and the background thread.            *)
EXTENDS MdData, TLC

CallerSymmetry == Permutations(Caller)
=============================================================================
