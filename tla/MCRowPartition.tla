--------------------------- MODULE MCRowPartition ---------------------------
(* Instances of RowPartition for model checking.                           *)
EXTENDS RowPartition

(* Every existing column, and two beyond the matrix.                       *)
AllColumns == 0..(NGlobal + 1)
=============================================================================
