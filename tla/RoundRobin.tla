---------------------------- MODULE RoundRobin ----------------------------
(***************************************************************************)
(* What the scheduler promises to threads that use up their time slices:  *)
(* they run by turns (l_task.c:271, "ABC print by turns, scheduled by the  *)
(* clock interrupt, each period fixed by the slice").  The waiting threads *)
(* form a queue; the one that ran goes to its end.  Where some thread      *)
(* gives up its time by itself (not active), nothing is promised.          *)
(***************************************************************************)
EXTENDS Naturals, Sequences

CONSTANTS Threads,  \* the threads, a sequence in the order of their creation
          Nobody    \* the boot context, which has no place in the queue

VARIABLES running, queue, active

vars == <<running, queue, active>>

Init == running = Nobody /\ queue = Threads /\ active \in BOOLEAN

Rotate ==
  /\ active /\ UNCHANGED active
  /\ queue # <<>>
  /\ running' = Head(queue)
  /\ queue' = IF running = Nobody THEN Tail(queue)
              ELSE Append(Tail(queue), running)

Next == Rotate

Spec == Init /\ [][Next]_vars /\ WF_vars(Rotate)
=============================================================================
