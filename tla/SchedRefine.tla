---------------------------- MODULE SchedRefine ----------------------------
(***************************************************************************)
(* The machine of module Sched carries out the policy of SchedOrder as     *)
(* long as jiffies does not wrap: each clock interrupt is a Tick, each     *)
(* yield a Yield, and everything else leaves the policy's state alone.     *)
(***************************************************************************)
EXTENDS Sched

(* Whose stamp is older.                                                   *)
OlderStamps == {p \in Thread \X Thread : stamp[p[1]] < stamp[p[2]]}

(* A thread that is still to be created has its whole slice before it. *)
SliceLeft == [t \in Thread |-> IF state[t] = "null" THEN Priority[t] ELSE ticks[t]]

Order == INSTANCE SchedOrder
  WITH Quantum <- Priority, MayYield <- Thread, yielders <- Yielding \cap Thread,
       running <- IF cur = Boot THEN NumThreads + 1 ELSE cur,
       slice <- SliceLeft, older <- OlderStamps

(* Every step of the machine, whatever the interleaving of ticks, yields,  *)
(* first entries and printk, is a step of the policy or leaves it alone.   *)
ImplementsOrder == Order!Spec
=============================================================================
