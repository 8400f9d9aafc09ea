------------------------------- MODULE Gmres -------------------------------
(***************************************************************************)
(* A restarted GMRES solve (solver/gmres.rs) as one program of Collective: *)
(* classical, pipelined and s-step, preconditioned from the left or right. *)
(***************************************************************************)
EXTENDS Arnoldi

SettingType ==
  [solver : {"gmres"}, variant : {"classical", "pipelined", "sstep"},
   side : {"left", "right"}, orthog : {"cgs", "mgs"},
   reorth : {"never", "ifneeded", "always"},
   restart : 1..(MostColumns - 1),
   s : Nat \ {0},                   (* the width of an s-step panel          *)
   heuristic : BOOLEAN,             (* StagnationPolicy::HeuristicRestart    *)
   monitor : BOOLEAN,               (* a monitor that may stop the solve     *)
   overlap : BOOLEAN, guess : [Ranks -> BOOLEAN],
   rows : [Ranks -> {"none", "few", "many"}], fails : SUBSET Ranks]

Left == setting.side = "left"
Right == setting.side = "right"

Init ==
  /\ setting \in Settings /\ setting.solver = "gmres"
  /\ vec = [r \in Ranks |-> FreshBasis(setting.variant)]
  /\ Idle

------------------------------------------------------------------------------
(* The program.                                                            *)

StartPlan(v) ==
  <<"A x">> \o If(Left, "M r") \o <<"norms">> \o If(v.mode = "sstep" /\ Right, "M z")
    \o <<"open">>

ColumnPlan(v) ==
  (IF Left THEN <<"A v", "M w">> ELSE <<"M v", "A z">>)
    \o (IF v.mode = "pipelined" THEN PipelinedStep(setting.reorth)
                                ELSE Orthogonalize(v, setting.orthog, setting.reorth))
    \o <<"column">>

(* w_0 = A v_k, w_j = A w_{j-1} (with M), all orthogonalised in one block. *)
PanelPlan(b) ==
  Times(b, IF Left THEN <<"A w", "M w">> ELSE <<"M w", "A w">>)
    \o If(setting.reorth = "ifneeded", "norm w") \o <<"dots">>
    \o If(setting.reorth = "always", "dots") \o <<"gram">>
    \o If(setting.reorth = "ifneeded", "again?") \o <<"factor">>
    \o (IF b > 1 THEN <<"gram", "factor">> ELSE <<>>)
    \o <<"store">> \o If(Right, "M z") \o <<"columns">>

NextPlan(v) == IF v.mode = "sstep" THEN PanelPlan(v.block) ELSE ColumnPlan(v)

(* The width of the next panel.                                            *)
Width(v) == IF setting.s < setting.restart - Len(v.col) THEN setting.s
                                                        ELSE setting.restart - Len(v.col)
Widened(v) == IF v.mode = "sstep" THEN [v EXCEPT !.block = Width(v)] ELSE v

Begin(r) ==
  /\ todo[r] = <<>> /\ result[r] = None
  /\ Go(r, StartPlan(vec[r]))
  /\ UNCHANGED <<setting, iter, seen, vec, verdict, call, mail, posted, broken, result>>

AfterProduct(v, what) == IF what = "A v" THEN [v EXCEPT !.w = Last(v)] ELSE v

(* The Z of the first vector, or of those that a panel has added.          *)
PreconditionedPanel(v) ==
  LET first == IF Len(v.v) = 1 THEN 1 ELSE Len(v.col) + 2 IN
  [v EXCEPT !.z = [j \in 1..MostColumns |-> IF j \in first..Len(v.v) THEN v.v[j] ELSE @[j]]]

Applied(v, what) ==
  CASE what = "M v" -> PreconditionedBasis(v)
    [] what = "M z" -> PreconditionedPanel(v)
    [] OTHER -> v

BeforeReduction(v, what) ==
  IF what = "norms" THEN StartCycle(v) ELSE v

(* How many values a reduction has, and whether it is started and waited   *)
(* for: the reductions of the pipelined variant are.                       *)
Shape(r) ==
  LET k == Len(vec[r].v) IN
  CASE Now(r) = "payload" -> <<setting.overlap, k + 1>>
    [] Now(r) = "norms" -> <<FALSE, 2>>
    [] Now(r) = "dots" -> <<FALSE, k * vec[r].block>>
    [] Now(r) = "gram" -> <<FALSE, vec[r].block * vec[r].block>>
    [] Now(r) = "norm w" -> <<FALSE, IF vec[r].mode = "sstep" THEN vec[r].block ELSE 1>>
    [] OTHER -> <<FALSE, 1>>

Stop == IF setting.monitor THEN {{"stop"}} ELSE {}
ColumnOutcomes(r) ==
  {{}, {"converged"}} \cup Stop
    \cup (IF setting.heuristic /\ vec[r].hist THEN {{"stagnant"}} ELSE {})
PanelOutcomes(r) ==
  {{"breakdown"}, {}} \cup
    (IF Awaits(r, "gram") THEN {} ELSE
       {{"converged"}} \cup Stop
         \cup (IF vec[r].block > 1 THEN {{"early", "converged"}} ELSE {}))

(* Which facts the value shows that a decision is going to test.           *)
Outcomes(r) ==
  LET lost == IF Follows(r, "again?") THEN {{"lost"}} ELSE {} IN
  CASE Now(r) = "norms" -> {{}, {"converged"}} \cup Stop
    [] Now(r) = "gram" -> PanelOutcomes(r) \cup lost
    [] Follows(r, "column") \/ (Follows(r, "again?") /\ Awaits(r, "column")) ->
         ColumnOutcomes(r) \cup lost
    [] Follows(r, "close") ->
         {{}, {"converged"}} \cup (IF vec[r].mode = "sstep" THEN {}
                                     ELSE {{"mismatch"}, {"mismatch", "small"}})
    [] Follows(r, "reopen") -> {{}} \cup Stop
    [] Now(r) = "residual norm" -> {{}, {"small"}}
    [] OTHER -> {{}}

------------------------------------------------------------------------------
(* Decisions.                                                              *)

(* true_residual_norm, then conv.check and the reconciliation.             *)
Examine(r, reason) ==
  /\ verdict' = [verdict EXCEPT ![r] = reason]
  /\ Go(r, <<"A x", "residual norm", "settle">>)

Open(r) ==
  /\ Now(r) = "open"
  /\ IF "stop" \in seen[r] THEN Examine(r, "stopped") /\ UNCHANGED vec
     ELSE IF "converged" \in seen[r] THEN Examine(r, "converged") /\ UNCHANGED vec
     ELSE IF MaxIters = 0 /\ vec[r].mode # "sstep" THEN Examine(r, "maxits") /\ UNCHANGED vec
     ELSE /\ vec' = [vec EXCEPT ![r] = Widened(@)]
          /\ Go(r, NextPlan(vec'[r]))
          /\ UNCHANGED verdict
  /\ seen' = [seen EXCEPT ![r] = {}]
  /\ UNCHANGED <<setting, iter, call, mail, posted, broken, result>>

(* The cycle ends: restart columns, the bound, or converged.               *)
Full(v, k) == Len(v.col) = setting.restart \/ k >= MaxIters

(* A stagnating pipelined solve goes on as a classical one.                *)
Stagnated(v) ==
  [v EXCEPT !.mode = IF @ = "pipelined" THEN "classical" ELSE @, !.hist = FALSE]

(* Givens rotations, monitor, stagnation, tests.                           *)
Column(r) ==
  /\ Now(r) = "column"
  /\ iter' = [iter EXCEPT ![r] = @ + 1]
  /\ LET v == [Extended(vec[r]) EXCEPT !.hist = TRUE] IN
     IF "stop" \in seen[r]
       THEN vec' = [vec EXCEPT ![r] = v] /\ Examine(r, "stopped")
     ELSE IF "stagnant" \in seen[r]
       THEN /\ vec' = [vec EXCEPT ![r] = Stagnated(v)]
            /\ Go(r, <<"update">>) /\ UNCHANGED verdict
     ELSE /\ vec' = [vec EXCEPT ![r] = v]
          /\ Go(r, IF "converged" \in seen[r] \/ Full(v, iter'[r]) THEN <<"update">>
                                                                   ELSE ColumnPlan(v))
          /\ UNCHANGED verdict
  /\ seen' = [seen EXCEPT ![r] = {}]
  /\ UNCHANGED <<setting, call, mail, posted, broken, result>>

(* Cholesky of the Gram matrix: a panel that breaks down is built again    *)
(* with one column.                                                        *)
Factor(r) ==
  /\ Now(r) = "factor"
  /\ IF "breakdown" \notin seen[r]
       THEN Go(r, Tail(todo[r])) /\ UNCHANGED <<iter, seen, vec, verdict>>
       ELSE IF vec[r].block = 1
         THEN Fail(r, "FactorError")
         ELSE /\ vec' = [vec EXCEPT ![r].block = 1]
              /\ seen' = [seen EXCEPT ![r] = {}]
              /\ Go(r, PanelPlan(1)) /\ UNCHANGED <<iter, verdict>>
  /\ UNCHANGED <<setting, call, mail, posted, broken, result>>

(* The columns of a panel that count: up to convergence or the bound.      *)
Counted(r) ==
  LET left == IF MaxIters > iter[r] THEN MaxIters - iter[r] ELSE 1 IN
  IF "early" \in seen[r] THEN 1 ELSE IF vec[r].block < left THEN vec[r].block ELSE left

(* V_{k+1}..V_{k+b} come from the orthonormal panel.                       *)
Stored(v) ==
  [v EXCEPT !.v = @ \o [j \in 1..v.block |-> <<@[1][1], @[1][2], Len(@) + j - 1>>]]

Store(r) ==
  /\ Now(r) = "store"
  /\ vec' = [vec EXCEPT ![r] = Stored(@)]
  /\ Go(r, Tail(todo[r]))
  /\ UNCHANGED <<setting, iter, seen, verdict, call, mail, posted, broken, result>>

(* Column k expands the image of v_k, column k + j that of w_{j-1}, which  *)
(* is no basis vector.                                                     *)
WithColumns(v, n) ==
  [v EXCEPT !.col = @ \o [j \in 1..n |-> IF j = 1 THEN v.v[Len(@) + 1] ELSE NoTag]]

Columns(r) ==
  /\ Now(r) = "columns"
  /\ LET n == Counted(r)
         v == WithColumns(vec[r], n) IN
     /\ iter' = [iter EXCEPT ![r] = @ + n]
     /\ IF "stop" \in seen[r]
          THEN vec' = [vec EXCEPT ![r] = v] /\ Examine(r, "stopped")
          ELSE IF "converged" \in seen[r] \/ Full(v, iter'[r])
            THEN vec' = [vec EXCEPT ![r] = v] /\ Go(r, <<"update">>) /\ UNCHANGED verdict
            ELSE /\ vec' = [vec EXCEPT ![r] = Widened(v)]
                 /\ Go(r, NextPlan(vec'[r])) /\ UNCHANGED verdict
  /\ seen' = [seen EXCEPT ![r] = {}]
  /\ UNCHANGED <<setting, call, mail, posted, broken, result>>

(* x = x + V y from the left, x + Z y from the right.                      *)
Update(r) ==
  /\ Now(r) = "update"
  /\ vec' = [vec EXCEPT ![r].x = @ + 1]
  /\ Go(r, <<"A x">> \o If(Left, "M r") \o <<"cycle norm", "cycle norm", "close">>)
  /\ UNCHANGED <<setting, iter, seen, verdict, call, mail, posted, broken, result>>

(* Mutant of Restarted: the basis of the last cycle goes on.               *)
BasisKept(v) == [v EXCEPT !.col = <<>>, !.v = << Head(@) >>]

(* v_0 is built anew; Z is not.                                            *)
Restarted(v) == StartCycle(v)

(* The residual of the new x.  If it is far from what the columns promised *)
(* the solve ends; an s-step solve does not compare them, and reduces the  *)
(* norm again before it goes on.                                           *)
Close(r) ==
  /\ Now(r) = "close"
  /\ IF "mismatch" \in seen[r]
       THEN /\ Finish(r, IF "small" \in seen[r] THEN "converged" ELSE "breakdown", <<>>)
            /\ UNCHANGED vec
     ELSE IF "converged" \in seen[r] \/ iter[r] >= MaxIters
       THEN /\ Examine(r, IF "converged" \in seen[r] THEN "converged" ELSE "maxits")
            /\ UNCHANGED vec
     ELSE IF seen[r] = {} /\ vec[r].mode = "sstep"
       THEN Go(r, If(Left, "M r") \o <<"cycle norm", "reopen">>) /\ UNCHANGED <<vec, verdict>>
     ELSE /\ vec' = [vec EXCEPT ![r] = Restarted(@)]
          /\ Go(r, ColumnPlan(vec'[r])) /\ UNCHANGED verdict
  /\ seen' = [seen EXCEPT ![r] = {}]
  /\ UNCHANGED <<setting, iter, call, mail, posted, broken, result>>

Reopen(r) ==
  /\ Now(r) = "reopen"
  /\ IF "stop" \in seen[r]
       THEN Examine(r, "stopped") /\ UNCHANGED vec
       ELSE /\ vec' = [vec EXCEPT ![r] = Widened(Restarted(@))]
            /\ Go(r, NextPlan(vec'[r])) /\ UNCHANGED verdict
  /\ seen' = [seen EXCEPT ![r] = {}]
  /\ UNCHANGED <<setting, iter, call, mail, posted, broken, result>>

(* An s-step solve that did not converge is forgotten: x is what it was,   *)
(* and a classical solve starts.                                           *)
Retried(v) == [FreshBasis("classical") EXCEPT !.e = v.e + 1]

(* reconcile_reason_with_true_residual.                                    *)
Reconciled(r) ==
  IF "small" \in seen[r] /\ verdict[r] # "stopped" THEN "converged"
    ELSE IF verdict[r] = "converged" THEN "maxits" ELSE verdict[r]

Settle(r) ==
  /\ Now(r) = "settle"
  /\ IF vec[r].mode = "sstep" /\ Reconciled(r) = "maxits"
       THEN /\ vec' = [vec EXCEPT ![r] = Retried(@)]
            /\ iter' = [iter EXCEPT ![r] = 0]
            /\ Go(r, StartPlan(vec'[r])) /\ UNCHANGED verdict
       ELSE Finish(r, Reconciled(r), <<>>) /\ UNCHANGED <<iter, vec>>
  /\ seen' = [seen EXCEPT ![r] = {}]
  /\ UNCHANGED <<setting, call, mail, posted, broken, result>>

Rank(r) ==
  \/ Begin(r) \/ SendGhosts(r) \/ ReceiveGhosts(r, AfterProduct(vec[r], Now(r)))
  \/ Contribute(r, BeforeReduction(vec[r], Now(r)))
  \/ Precondition(r, Applied(vec[r], Now(r))) \/ BreakDown(r)
  \/ Open(r) \/ Again(r, setting.orthog) \/ Column(r) \/ Factor(r) \/ Store(r) \/ Columns(r)
  \/ Update(r) \/ Close(r) \/ Reopen(r) \/ Settle(r) \/ Return(r)

Meet == Reduce([r \in Ranks |-> Shape(r)], [r \in Ranks |-> Outcomes(r)])

------------------------------------------------------------------------------
(* What Krylov asks of a program.                                          *)

(* x is updated with V y or Z y.                                           *)
Directions(v) == IF Left THEN v.v ELSE v.z

(* GmresSolver::reduction_model: a solve with one pass of classical        *)
(* Gram-Schmidt that needs no restart makes one reduction more than its    *)
(* model (the norm of the final residual, which it does not count).        *)
WithinModel(r) ==
  result[r] # None /\ verdict[r] # "PcApply" /\ vec[r].mode = setting.variant
    /\ setting.variant # "sstep" /\ setting.orthog = "cgs" /\ setting.reorth = "never"
    /\ vec[r].x <= 1 =>
      posted[r] <= 4 + (IF setting.variant = "pipelined" THEN 1 ELSE 2) * iter[r]
=============================================================================
