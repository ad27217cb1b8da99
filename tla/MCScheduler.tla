----------------------------- MODULE MCScheduler -----------------------------
(* Values of the Scheduler's constants for TLC.                            *)
EXTENDS Scheduler, TLC

CONSTANTS d1, d2, d3, w1, w2, r1, t1

MCOwner1 == [d \in Domains |-> t1]
=============================================================================
