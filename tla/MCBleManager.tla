---------------------------- MODULE MCBleManager ----------------------------
(* With a configured device two disturbances, without one three.            *)
EXTENDS BleManager
=============================================================================
