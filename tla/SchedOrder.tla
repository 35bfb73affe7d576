---------------------------- MODULE SchedOrder ----------------------------
(***************************************************************************)
(* The scheduling policy of Noah-OS by itself: module Sched without the    *)
(* interrupt flag, the PIC and printk, and with the 32-bit stamps replaced *)
(* by what task_search_in_table learns from them: which of two threads was *)
(* ticked before the other.  It is finite without a bound on the clock,    *)
(* so what must happen eventually can be checked of it; it is what Sched   *)
(* implements until jiffies wraps.                                         *)
(***************************************************************************)
EXTENDS Naturals, FiniteSets

CONSTANTS NumThreads, Quantum, MayYield

Thread == 1 .. NumThreads
Null == 0
Boot == NumThreads + 1

ASSUME QuantumAssumption == Quantum \in [Thread -> Nat \ {0}]

VARIABLES running,  \* the thread (or Boot) on the processor
          slice,    \* the ticks each thread has left
          yielders, \* the threads whose loop yields, fixed from the start
          older     \* the pairs of threads of which the first has the older stamp

vars == <<running, slice, yielders, older>>

(* jiffies is 0 in a PCB until its first tick: no stamp is older yet.      *)
Init ==
  /\ running = Boot /\ slice = Quantum /\ older = {}
  /\ yielders \in SUBSET MayYield

\* Mutant: clock_handler does not write the stamp of the task it ticks.
StampedNever(order, t) == order

(* A tick's stamp is younger than all others.                              *)
Stamped(order, t) ==
  {p \in order : t \notin {p[1], p[2]}} \cup {<<u, t>> : u \in Thread \ {t}}

\* Mutant: the younger stamp is preferred.
PreferredYounger(ptr, held, tk, order) ==
  held = Null \/ tk[held] < tk[ptr] \/ <<held, ptr>> \in order

Preferred(ptr, held, tk, order) ==
  held = Null \/ tk[held] < tk[ptr] \/ <<ptr, held>> \in order

(* task_search_in_table, over the threads that are not running. *)
Search(tk, order, me) ==
  LET task[i \in 0 .. NumThreads] ==
        IF i = 0 THEN Null
        ELSE IF i # me /\ Preferred(i, task[i - 1], tk, order)
             THEN i ELSE task[i - 1]
  IN  task[NumThreads]

Refilled(tk) == [t \in Thread |-> IF tk[t] = 0 THEN Quantum[t] ELSE tk[t]]

Switch(tk, order) ==
  /\ running' = Search(tk, order, running)
  /\ running' # Null
  /\ slice' = Refilled(tk)

(* The first tick takes the processor from the boot context for good. *)
LeaveBoot == running = Boot /\ Switch(slice, older) /\ UNCHANGED <<yielders, older>>

Tick ==
  /\ running # Boot
  /\ LET tk == [slice EXCEPT ![running] = @ - 1] IN
     /\ older' = Stamped(older, running)
     /\ IF tk[running] = 0 THEN Switch(tk, older')
        ELSE slice' = tk /\ UNCHANGED running
  /\ UNCHANGED yielders

Yield ==
  /\ running \in yielders
  /\ Switch(slice, older)
  /\ UNCHANGED <<yielders, older>>

Next == LeaveBoot \/ Tick \/ Yield

(* The clock ticks whatever the threads do; nothing obliges a thread to    *)
(* yield.                                                                  *)
Spec == Init /\ [][Next]_vars
FairSpec == Spec /\ WF_vars(LeaveBoot) /\ WF_vars(Tick)

-----------------------------------------------------------------------------
(* Threads of equal priority run by turns if none yields, and each gets    *)
(* its turn.  The queue is the waiting threads, oldest stamp first, slot   *)
(* order among those that never ran.                                       *)
Before(p, q) == <<p, q>> \in older \/ (p < q /\ <<q, p>> \notin older)

Waiting == Thread \ {running}

ByTurns == INSTANCE RoundRobin
  WITH Threads <- [t \in Thread |-> t], Nobody <- Boot,
       active <- (yielders = {}),
       running <- IF yielders = {} THEN running ELSE Boot,
       queue <- [i \in 1 .. IF yielders = {} THEN Cardinality(Waiting) ELSE NumThreads |->
                   IF yielders = {}
                   THEN CHOOSE t \in Waiting :
                          Cardinality({u \in Waiting : Before(u, t)}) = i - 1
                   ELSE i]

RunsByTurns == ByTurns!Spec

(* Every thread runs again and again (l_task.c:82: the stamps are compared *)
(* "to prevent starvation").                                               *)
NoStarvation == \A t \in Thread : []<>(running = t)

(* The thread in the last slot runs again and again however the threads of *)
(* the same priority place their yields: the scan holds an earlier slot    *)
(* against it only for a smaller slice or a younger stamp.                 *)
LastSlotServed == []<>(running = NumThreads)

(* One of the kernel's three threads that uses up its slices is never      *)
(* starved by the others, of the same priority, that yield: only its own   *)
(* yield can cost it its turn.  (With four threads this fails.)            *)
CpuBoundServed == \A t \in Thread : t \notin yielders => []<>(running = t)

=============================================================================
