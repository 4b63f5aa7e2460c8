---------------------------- MODULE MCStoreLocks ----------------------------
(* The BLE and the maintenance thread with one or two others.               *)
EXTENDS StoreLocks
=============================================================================
