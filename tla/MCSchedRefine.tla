--------------------------- MODULE MCSchedRefine ---------------------------
(* Instances of SchedRefine for TLC. *)
EXTENDS SchedRefine

EqualPriority == [t \in Thread |-> 2]
RisingPriority == [t \in Thread |-> IF t = 1 THEN 1 ELSE 2]
NoThread == {}
AllThreads == Slot
=============================================================================
