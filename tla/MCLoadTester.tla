---------------------------- MODULE MCLoadTester -----------------------------
(* LoadTester with three slots for TLC, in both modes of the script; the      *)
(* slots are not declared symmetric because liveness is checked.              *)
EXTENDS LoadTester
=============================================================================
