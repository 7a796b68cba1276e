------------------------------ MODULE MCDevice ------------------------------
(* Two threads that register two observables and an ODE.                   *)
EXTENDS Device, TLC

MCName    == {"device", "pressure", "_device"}
MCSubType == [n \in Name |-> IF n = "_device" THEN "REGODE" ELSE "REGOBS"]

=============================================================================
