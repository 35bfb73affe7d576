---------------------------- MODULE PageAllocator ----------------------------
(***************************************************************************)
(* What an allocator of pages promises: it hands out runs of pages nobody  *)
(* holds, from the pages that are its own, and takes back what is held.    *)
(***************************************************************************)
EXTENDS Naturals

CONSTANTS Pages, \* the pages that may be handed out
          Counts \* the lengths of run that may be asked for

VARIABLE owned   \* the pages handed out and not given back

Run(first, count) == first .. (first + count - 1)

Init == owned = {}

Alloc == \E first \in Pages, count \in Counts :
           /\ Run(first, count) \subseteq Pages \ owned
           /\ owned' = owned \cup Run(first, count)

Free == \E first \in Pages, count \in Counts :
          /\ Run(first, count) \subseteq owned
          /\ owned' = owned \ Run(first, count)

Spec == Init /\ [][Alloc \/ Free]_owned

=============================================================================
