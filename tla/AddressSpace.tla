---------------------------- MODULE AddressSpace ----------------------------
(* What the paging functions of l_memory.c promise a caller: pages that    *)
(* are frames, and a flush between a change and the next use.              *)
EXTENDS Integers

CONSTANTS KernelPages, Targets, Data

VARIABLES
  map,       \* the frame of each page that has one
  unflushed, \* the pages that may still lead elsewhere
  reached    \* the page a step used and its frame

vars == <<map, unflushed, reached>>

Nowhere == <<0, -1>>
NoUse == reached' = Nowhere

Init == map = << >> /\ unflushed = {} /\ reached = Nowhere

Enable == map = << >> /\ map' = [p \in KernelPages |-> p] /\ UNCHANGED unflushed /\ NoUse

Assign(v, frame) ==
  /\ map' = [p \in DOMAIN map \cup {v} |-> IF p = v THEN frame ELSE map[p]]
  /\ unflushed' = unflushed \cup (DOMAIN map \cap {v})
  /\ NoUse

(* The slot of these pages is given another table.                         *)
Withdraw(pages) ==
  /\ map' = [p \in DOMAIN map \ pages |-> map[p]]
  /\ unflushed' = unflushed \cup (DOMAIN map \cap pages)
  /\ NoUse

Flush(v) == unflushed' = unflushed \ {v} /\ UNCHANGED map /\ NoUse

Use(v, frame) ==
  /\ v \notin unflushed => frame = map[v]
  /\ reached' = <<v, frame>>
  /\ UNCHANGED <<map, unflushed>>

Rest == UNCHANGED <<map, unflushed>> /\ NoUse

Next ==
  \/ Rest \/ Enable
  \/ \E v \in Targets : Flush(v) \/ \E f \in Data : Assign(v, f)
  \/ \E pages \in SUBSET Targets : Withdraw(pages)
  \/ \E v \in DOMAIN map, f \in Data \cup KernelPages : Use(v, f)

Spec == Init /\ [][Next]_vars
=============================================================================
