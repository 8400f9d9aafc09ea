----------------------------- MODULE MCDistRoute -----------------------------
(* Instances of DistRoute for model checking.                              *)
EXTENDS DistRoute

TwoRanks == {1, 2}

(* Of what pc_type names, what has distributed support is an AMG.          *)
WithAmg == {"asm", "aware"}

Plain(global, apply, route) ==
  [type |-> "local", global |-> global, apply |-> apply, route |-> route,
   budget |-> NoLimit, required |-> FALSE, overlap |-> TRUE]

(* All routes; then a budget, a requirement, the settings that strict mode *)
(* refuses, and options that name no pc_type, or one with distributed      *)
(* support, one at a time.                                                 *)
Routes ==
  {Plain(g, a, t) : g \in {"none", "block", "asm"}, a \in {"local", "halo", "strict"},
                    t \in {"native", "adapted", "root"}}

ManyOptions ==
  Routes
  \cup {[Plain(g, a, "native") EXCEPT !.budget = n] :
          g \in {"none", "asm"}, a \in {"local", "halo"}, n \in 0..1}
  \cup {[Plain("none", "local", "adapted") EXCEPT !.budget = 1]}
  \cup {[Plain(g, "local", "native") EXCEPT !.required = TRUE] : g \in {"block", "none"}}
  \cup {[Plain("asm", "strict", t) EXCEPT !.overlap = FALSE] : t \in {"native", "adapted"}}
  \cup {[Plain(g, "halo", "native") EXCEPT !.type = "none"] : g \in {"none", "asm"}}
  \cup {[Plain("none", a, t) EXCEPT !.type = "aware"] :
          a \in {"local", "strict"}, t \in {"native", "root"}}
  \cup {[Plain(g, a, "adapted") EXCEPT !.type = t] :
          g \in {"none", "asm"}, a \in {"local", "halo"}, t \in {"none", "aware"}}
=============================================================================
