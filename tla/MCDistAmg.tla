----------------------------- MODULE MCDistAmg -----------------------------
(* Instances of DistAmg for model checking: three ranks in a row.          *)
EXTENDS DistAmg

Line == {<<0, 1>>, <<1, 0>>, <<1, 2>>, <<2, 1>>}

Calls == {<<"pattern", "values">>, <<"pattern", "values", "pattern">>, <<"symbolic", "values", "symbolic">>}
NoFailure(rounds) == [r \in Ranks |-> {}]
OneFailure(rounds) == {[r \in Ranks |-> IF r = p THEN {k} ELSE {}] : p \in Ranks, k \in 1..Len(rounds)}

Case(strategy, rounds, fails, brittle) ==
  [strategy |-> strategy, rounds |-> rounds, fails |-> fails, brittle |-> brittle]

EveryFailure(rounds) == {[r \in Ranks |-> {k}] : k \in 1..Len(rounds)}

(* No failure, one of one rank, or one of all ranks: of a hierarchy in any *)
(* of the set-ups, or of the numeric updates.                              *)
AnyFailure ==
  UNION {{Case(s, c, f, {}) : s \in Strategies, f \in {NoFailure(c)} \cup OneFailure(c) \cup EveryFailure(c)}
         \cup {Case(s, c, NoFailure(c), b) : s \in {"local", "csr"}, b \in {{p} : p \in Ranks} \cup {Ranks}}
         : c \in Calls}
=============================================================================
