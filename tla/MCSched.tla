------------------------------ MODULE MCSched ------------------------------
(* Instances of Sched for TLC, and what its mutants replace.               *)
EXTENDS Sched

EqualPriority == [t \in Thread |-> 2]
NoThread == {}
AllThreads == Slot
=============================================================================
