---------------------------- MODULE MCUsageTracker ----------------------------
(* The instance of UsageTracker for TLC: windows of two steps of one and of  *)
(* two minutes.                                                              *)
EXTENDS UsageTracker

MCWindows == {[steps |-> 2, minutes |-> 1], [steps |-> 2, minutes |-> 2]}
=============================================================================
