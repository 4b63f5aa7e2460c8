----------------------------- MODULE MCGridTest -----------------------------
(* The grid-off test on one or two request threads and one crash.           *)
EXTENDS GridTest
=============================================================================
