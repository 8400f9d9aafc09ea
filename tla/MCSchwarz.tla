----------------------------- MODULE MCSchwarz -----------------------------
(* Instances of Schwarz for model checking: matrices of six rows over three *)
(* ranks.                                                                  *)
EXTENDS Schwarz

Path == [g \in Rows |-> {h \in Rows : h \in g - 1..g + 1}]
Ring1 == [g \in Rows |-> {g, (g + 1) % N}]

Thirds == [r \in 0..Size |-> 2 * r]
Shifted(n) == [r \in 0..Size |-> IF r \in 1..n THEN r ELSE 2 * r]

Plain == [graph |-> Path, first |-> Thirds, overlap |-> 1, mode |-> "asm", coarse |-> FALSE,
          singular |-> FALSE, fails |-> {}]

(* All ranks have the same number of rings with rows in them.              *)
EvenSettings ==
  {[Plain EXCEPT !.overlap = k, !.mode = m] : k \in 0..2, m \in Modes}
  \cup {[Plain EXCEPT !.graph = Ring1, !.overlap = k] : k \in 1..3}
  \cup {[Plain EXCEPT !.coarse = TRUE, !.singular = s] : s \in BOOLEAN}
  \cup {[Plain EXCEPT !.fails = {1}]} \cup {[Plain EXCEPT !.first = Shifted(n), !.overlap = k] : n \in 1..2, k \in 0..1}

(* The hypothesis of the theorems of Schwarz_proofs.                       *)
ASSUME EveryoneAsksAlike == \A s \in EvenSettings : AskingAlike(s)
=============================================================================
