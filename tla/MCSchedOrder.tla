--------------------------- MODULE MCSchedOrder ---------------------------
(* Instances of SchedOrder for TLC: the three threads of task_init, with   *)
(* their time slice of 5.                                                  *)
EXTENDS SchedOrder

EqualQuantum == [t \in Thread |-> 5]
AllThreads == Thread
=============================================================================
