----------------------------- MODULE MCDistCsr -----------------------------
(* Instances of DistCsr for model checking.                                *)
EXTENDS DistCsr

(* Three ranks of three rows, none and one; three ranks of four rows each. *)
(* With one border row of three, rank 0 keeps the plan of its local block, *)
(* while rank 2, whose one row has a ghost, splits its rows.               *)
WithEmpty == [r \in {0, 1, 2} |-> CASE r = 0 -> 0..2 [] r = 1 -> {} [] r = 2 -> {3}]
ThreeByFour == [r \in {0, 1, 2} |-> (4 * r)..(4 * r + 3)]

(* Every symmetric pattern with a full diagonal: a set of off-diagonal     *)
(* pairs, each with both of its entries.                                   *)
SymmetricPatterns(n) ==
  LET pairs == {e \in (0..n) \X (0..n) : e[1] < e[2]}
  IN  {[i \in 0..n |-> {i} \cup {c \in 0..n : <<i, c>> \in S \/ <<c, i>> \in S}]
         : S \in SUBSET pairs}
(* Patterns with the given row 0 and diagonal rows below: one-way reading. *)
OneWayPatterns(n) ==
  {[i \in 0..n |-> IF i = 0 THEN C \cup {0} ELSE {i}] : C \in SUBSET (0..n)}

(* Of four rows, those in which row 2 stands alone: row 0, rows 0 and 1,   *)
(* or neither have a ghost.                                                *)
Patterns4 == {P \in OneWayPatterns(3) \cup SymmetricPatterns(3) :
                P[2] = {2} /\ \A i \in 0..1 : 2 \notin P[i]}
Tridiagonal(n) == {[i \in 0..n |-> {i - 1, i, i + 1} \cap (0..n)]}
Tridiagonal12 == Tridiagonal(11)
=============================================================================
