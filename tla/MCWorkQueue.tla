---------------------------- MODULE MCWorkQueue ----------------------------
(* The queue of the Master Daemon, whose worker deletes whatever it        *)
(* dispatches, and of a device, whose worker deletes only frames.          *)
EXTENDS WorkQueue

MCAddr == 1..3

\* in md_dispatch_category: MD_NEWBORN = 0, CD_FRAME = 1, DV_MDQUERY = 3
MCMasterKinds == {0, 3}
MCDeviceKinds == {1, 3}
MCDeviceFreed == {1}
============================================================================
