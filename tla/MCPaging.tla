------------------------------ MODULE MCPaging ------------------------------
(* Tables of 4 entries: 2 kernel tables, a free slot, the recursive slot;  *)
(* two tables for the free slot.                                           *)
EXTENDS Paging

MCTables == <<2, 3>>
MCSpareTables == {8, 11}
MCLeftovers == {[t \in TableFrame |-> [i \in 0 .. 3 |-> IF t = 8 THEN Absent ELSE To(10)]]}
MCWanted == [v \in {8, 9} |-> IF v = 8 THEN {9, 10} ELSE {10}]
MCBusy == {5}
=============================================================================
