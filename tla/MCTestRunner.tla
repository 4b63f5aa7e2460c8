---------------------------- MODULE MCTestRunner ----------------------------
(* The test runner with two runs, one schedule and a buffer of two samples. *)
EXTENDS TestRunner
=============================================================================
