--------------------------- MODULE MCMasterDaemon ---------------------------
(* A Cliever, the machine and instruments of a small installation.         *)
EXTENDS MasterDaemon, TLC

CONSTANTS cd1, m1, i1

MCKindOf == [c \in Client |-> IF c = cd1 THEN "CD"
                              ELSE IF c = m1 THEN "MACHINE" ELSE "INSTRUMENT"]

\* a command and the ODE every device has, and a command no device has
MCSubType == [n \in Name |-> IF n = "_device" THEN "REGODE" ELSE "REGSCPI"]

Memories  == {None, Stray}
HandleSymmetry == Permutations(Handle)
=============================================================================
