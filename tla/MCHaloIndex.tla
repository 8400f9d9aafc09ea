---------------------------- MODULE MCHaloIndex ----------------------------
(* Instances of HaloIndex for model checking: small partitions.            *)
EXTENDS HaloIndex

(* Three ranks, the middle one with two columns.                           *)
FirstOf3 == [r \in 0..3 |-> CASE r = 0 -> 0 [] r = 1 -> 1 [] r = 2 -> 3 [] r = 3 -> 4]
(* The rows that the partition announces, or others: a ParCsrMatrix with   *)
(* three rows on rank 0, wrapped by from_parcsr, which partitions evenly.  *)
AsPartitioned == [r \in Ranks |-> First[r]..(First[r + 1] - 1)]
Uneven == [r \in Ranks |-> IF r = 0 THEN 0..2 ELSE IF r = 1 THEN {} ELSE 3..3]
BothLayouts == {AsPartitioned, Uneven}
(* The columns of the matrix and one beyond.                               *)
OneBeyond == 0..NGlobal
=============================================================================
