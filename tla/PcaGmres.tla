------------------------------ MODULE PcaGmres ------------------------------
(***************************************************************************)
(* A PCA-GMRES solve (solver/pca_gmres.rs) as one program of Collective:   *)
(* preconditioned from the left or right, as pc_mode says, or not at all.  *)
(***************************************************************************)
EXTENDS Arnoldi

SettingType ==
  [solver : {"pcagmres"}, side : {"left", "right", "none"},
   modified : BOOLEAN,              (* modified_gs: a second pass            *)
   restart : 1..(MostColumns - 1),
   overlap : BOOLEAN, guess : [Ranks -> BOOLEAN],
   rows : [Ranks -> {"none", "few", "many"}], fails : SUBSET Ranks]

Left == setting.side = "left"

Init ==
  /\ setting \in Settings /\ setting.solver = "pcagmres"
  /\ vec = [r \in Ranks |-> FreshBasis("classical")]
  /\ Idle

StartPlan == <<"A x">> \o If(Left, "M r") \o <<"norms", "open">>

ColumnPlan ==
  (CASE Left -> <<"A v", "M w">>
     [] setting.side = "right" -> <<"M v", "A z">>
     [] OTHER -> <<"A v">>)
    \o <<"dots">> \o If(setting.modified, "dots") \o <<"norm w", "column">>

(* The residual of x decides in the end.                                   *)
LastPlan == <<"A x", "residual norm", "settle">>

Begin(r) ==
  /\ todo[r] = <<>> /\ result[r] = None
  /\ Go(r, StartPlan)
  /\ UNCHANGED <<setting, iter, seen, vec, verdict, call, mail, posted, broken, result>>

AfterProduct(v, what) == IF what = "A v" THEN [v EXCEPT !.w = Last(v)] ELSE v
Applied(v, what) == IF what = "M v" THEN PreconditionedBasis(v) ELSE v
BeforeReduction(v, what) == IF what = "norms" THEN StartCycle(v) ELSE v

Shape(r) ==
  <<FALSE, CASE Now(r) = "norms" -> 2 [] Now(r) = "dots" -> Len(vec[r].v) [] OTHER -> 1>>

Outcomes(r) ==
  CASE Now(r) = "norms" \/ Follows(r, "column") \/ Follows(r, "close") -> {{}, {"converged"}}
    [] Now(r) = "residual norm" -> {{}, {"converged"}, {"diverged"}}
    [] OTHER -> {{}}

Open(r) ==
  /\ Now(r) = "open"
  /\ IF "converged" \in seen[r]
       THEN Finish(r, "converged", <<>>)
       ELSE Go(r, IF MaxIters = 0 THEN LastPlan ELSE ColumnPlan) /\ UNCHANGED verdict
  /\ seen' = [seen EXCEPT ![r] = {}]
  /\ UNCHANGED <<setting, iter, vec, call, mail, posted, broken, result>>

Column(r) ==
  /\ Now(r) = "column"
  /\ iter' = [iter EXCEPT ![r] = @ + 1]
  /\ vec' = [vec EXCEPT ![r] = Extended(@)]
  /\ Go(r, IF \/ "converged" \in seen[r] \/ iter'[r] = MaxIters
              \/ Len(vec'[r].col) = setting.restart
             THEN <<"update">> ELSE ColumnPlan)
  /\ seen' = [seen EXCEPT ![r] = {}]
  /\ UNCHANGED <<setting, verdict, call, mail, posted, broken, result>>

Update(r) ==
  /\ Now(r) = "update"
  /\ vec' = [vec EXCEPT ![r].x = @ + 1]
  /\ Go(r, <<"A x">> \o If(Left, "M r") \o <<"cycle norm", "close">>)
  /\ UNCHANGED <<setting, iter, seen, verdict, call, mail, posted, broken, result>>

(* A cycle starts from the new residual unless it is small.                *)
Close(r) ==
  /\ Now(r) = "close"
  /\ vec' = [vec EXCEPT ![r] = StartCycle(@)]
  /\ Go(r, IF iter[r] = MaxIters \/ "converged" \in seen[r] THEN LastPlan ELSE ColumnPlan)
  /\ seen' = [seen EXCEPT ![r] = {}]
  /\ UNCHANGED <<setting, iter, verdict, call, mail, posted, broken, result>>

(* What is not small ends with the bound, reached or not.                  *)
Settle(r) ==
  /\ Now(r) = "settle"
  /\ Finish(r, IF "converged" \in seen[r] THEN "converged"
               ELSE IF "diverged" \in seen[r] THEN "diverged" ELSE "maxits", <<>>)
  /\ seen' = [seen EXCEPT ![r] = {}]
  /\ UNCHANGED <<setting, iter, vec, call, mail, posted, broken, result>>

Rank(r) ==
  \/ Begin(r) \/ SendGhosts(r) \/ ReceiveGhosts(r, AfterProduct(vec[r], Now(r)))
  \/ Contribute(r, BeforeReduction(vec[r], Now(r)))
  \/ Precondition(r, Applied(vec[r], Now(r))) \/ BreakDown(r)
  \/ Open(r) \/ Column(r) \/ Update(r) \/ Close(r) \/ Settle(r) \/ Return(r)

Meet == Reduce([r \in Ranks |-> Shape(r)], [r \in Ranks |-> Outcomes(r)])

(* x is updated with V y, or from the right with Z y.                      *)
Directions(v) == IF setting.side = "right" THEN v.z ELSE v.v
=============================================================================
