---------------------------- MODULE MCDataStore -----------------------------
(* The two streams of readings with short rings.                            *)
EXTENDS DataStore
=============================================================================
