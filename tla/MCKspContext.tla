--------------------------- MODULE MCKspContext ---------------------------
(* Instances of KspContext for model checking.                             *)
EXTENDS KspContext

TwoSizes == {1, 2}
SolverTypes == {"cg", "gmres", "preonly"}
(* Jacobi is made at once, LU needs the matrix, ILUTP tries again.         *)
SomePcs == {"jacobi", "lu", "ilutp"}
NeedsMatrix == {"lu"}
UpdatesNumbers == {"jacobi", "chain"}
=============================================================================
