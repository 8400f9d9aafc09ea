------------------------------- MODULE Fgmres -------------------------------
(***************************************************************************)
(* A flexible GMRES solve (solver/fgmres.rs) as one program of Collective. *)
(* Only preconditioning from the right is accepted.  On a distributed      *)
(* matrix the variant and how often the residual is checked are chosen     *)
(* from the rank's own plan (plan[r]), otherwise they are options.         *)
(***************************************************************************)
EXTENDS Arnoldi

Plans == {"none", "comm heavy", "compute heavy", "balanced"}
SettingType ==
  [solver : {"fgmres"}, variant : {"classical", "pipelined"},
   orthog : {"cgs", "mgs"}, reorth : {"never", "ifneeded", "always"},
   restart : 1..(MostColumns - 1),
   every : BOOLEAN,                 (* ResidualCheckPolicy::EveryIteration   *)
   happy : BOOLEAN,                 (* happy_breakdown                       *)
   stagnation : {"ignore", "fallback", "replace", "restart"},
                                    (* what policy and pipeline policy make  *)
                                    (* of a stagnating residual              *)
   plan : [Ranks -> Plans],         (* plan_diagnostics of a DistCsrOp       *)
   monitor : BOOLEAN, overlap : BOOLEAN, guess : [Ranks -> BOOLEAN],
   rows : [Ranks -> {"none", "few", "many"}], fails : SUBSET Ranks]

(* select_distcsr_policy.  Its restart is at least 8 or the bound of the   *)
(* iterations, more than is followed here.                                 *)
Chosen(r) ==
  CASE setting.plan[r] = "none" ->
         [variant |-> setting.variant, every |-> setting.every, restart |-> setting.restart]
    [] setting.plan[r] = "comm heavy" ->
         [variant |-> "pipelined", every |-> FALSE, restart |-> MaxIters]
    [] OTHER ->
         [variant |-> "classical", every |-> setting.plan[r] = "balanced", restart |-> MaxIters]

Init ==
  /\ setting \in Settings /\ setting.solver = "fgmres"
  /\ vec = [r \in Ranks |-> FreshBasis(Chosen(r).variant)]
  /\ Idle

------------------------------------------------------------------------------
(* The program.                                                            *)

(* The explicit residual and its preconditioned norm.                      *)
Residue == <<"A x", "residual norm", "M r", "norm w">>

ColumnPlan(v, every) ==
  <<"M v", "A z", "norm w">>
    \o (IF v.mode = "pipelined" THEN PipelinedStep(setting.reorth)
          ELSE Orthogonalize(v, setting.orthog,
                             IF setting.orthog = "mgs" THEN "never" ELSE setting.reorth))
    \o <<"column">> \o (IF every THEN <<"A x", "residual norm">> ELSE <<>>) \o <<"weigh">>

Begin(r) ==
  /\ todo[r] = <<>> /\ result[r] = None
  /\ Go(r, <<"A x", "norms">> \o Residue \o <<"open">>)
  /\ UNCHANGED <<setting, iter, seen, vec, verdict, call, mail, posted, broken, result>>

AfterProduct(v, what) == v
Applied(v, what) == IF what = "M v" THEN PreconditionedBasis(v) ELSE v
BeforeReduction(v, what) == IF what = "norms" THEN StartCycle(v) ELSE v

Shape(r) ==
  LET k == Len(vec[r].v) IN
  CASE Now(r) = "payload" -> <<setting.overlap, k + 1>>
    [] Now(r) = "norms" -> <<FALSE, 2>>
    [] Now(r) = "dots" -> <<FALSE, k>>
    [] OTHER -> <<FALSE, 1>>

(* singular: the reduced system cannot be solved if the cycle ends here.   *)
ColumnOutcomes(r) ==
  {{}, {"converged"}, {"happy"}, {"nan"}, {"happy", "singular"}, {"converged", "singular"}}
    \cup (IF setting.monitor THEN {{"stop"}} ELSE {})
    \cup (IF vec[r].hist THEN {{"stagnant"}} ELSE {})

Outcomes(r) ==
  LET lost == IF Follows(r, "again?") THEN {{"lost"}} ELSE {} IN
  CASE Now(r) = "norms" ->
         {{}, {"converged"}} \cup (IF setting.monitor THEN {{"stop"}} ELSE {})
    [] Follows(r, "column") \/ (Follows(r, "again?") /\ Awaits(r, "column")) ->
         ColumnOutcomes(r) \cup lost
    [] Now(r) = "residual norm" /\ Awaits(r, "close") -> {{}, {"small"}, {"not finite"}}
    [] OTHER -> {{}}

------------------------------------------------------------------------------
(* Decisions.                                                              *)

Open(r) ==
  /\ Now(r) = "open"
  /\ IF "stop" \in seen[r] THEN Finish(r, "stopped", <<>>)
     ELSE IF "converged" \in seen[r] THEN Finish(r, "converged", <<>>)
     ELSE IF MaxIters = 0 THEN Finish(r, "maxits", <<>>)
     ELSE Go(r, ColumnPlan(vec[r], Chosen(r).every)) /\ UNCHANGED verdict
  /\ seen' = [seen EXCEPT ![r] = {}]
  /\ UNCHANGED <<setting, iter, vec, call, mail, posted, broken, result>>

(* A happy breakdown ends the cycle; if it is not wanted the solve ends    *)
(* with the rank of the basis lost.                                        *)
Column(r) ==
  /\ Now(r) = "column"
  /\ iter' = [iter EXCEPT ![r] = @ + 1]
  /\ vec' = [vec EXCEPT ![r] = Extended(@)]
  /\ IF "stop" \in seen[r] THEN Finish(r, "stopped", Residue)
     ELSE IF "happy" \in seen[r]
       THEN /\ verdict' = [verdict EXCEPT ![r] = IF setting.happy THEN "happy" ELSE "rank loss"]
            /\ Go(r, (IF setting.happy THEN <<>> ELSE Residue) \o <<"solve">>)
     ELSE verdict' = [verdict EXCEPT ![r] = ""] /\ Go(r, Tail(todo[r]))
  /\ UNCHANGED <<setting, seen, call, mail, posted, broken, result>>

(* stagnation_action: what it does about a stagnating residual; columns of *)
(* a cycle are needed before it does anything (min_inner_before_fallback).  *)
MinInner == 2
RestartsNow(r) ==
  Len(vec[r].col) >= MinInner /\
    \/ setting.stagnation = "restart"
    \/ setting.stagnation \in {"fallback", "replace"} /\ vec[r].mode = "pipelined"

Weigh(r) ==
  /\ Now(r) = "weigh"
  /\ IF "nan" \in seen[r]
       THEN /\ verdict' = [verdict EXCEPT ![r] = "breakdown"]
            /\ Go(r, Residue \o <<"solve">>) /\ UNCHANGED vec
     ELSE IF "stagnant" \in seen[r] /\ RestartsNow(r)
       THEN /\ vec' = [vec EXCEPT ![r].mode = IF setting.stagnation = "replace" THEN @
                                                                           ELSE "classical",
                                  ![r].hist = FALSE]
            /\ Go(r, <<"solve">>) /\ UNCHANGED verdict
     ELSE /\ vec' = [vec EXCEPT ![r].hist = "stagnant" \notin seen[r]]
          /\ verdict' = [verdict EXCEPT ![r] =
                           IF "converged" \in seen[r] THEN "converged" ELSE ""]
          /\ Go(r, IF "converged" \in seen[r] \/ Len(vec[r].col) = Chosen(r).restart
                        \/ iter[r] >= MaxIters
                     THEN <<"solve">> ELSE ColumnPlan(vec[r], Chosen(r).every))
  /\ seen' = [seen EXCEPT ![r] = @ \cap {"singular"}]
  /\ UNCHANGED <<setting, iter, call, mail, posted, broken, result>>

(* The reduced system, then x = x + Z y and the residual of the new x.     *)
Solve(r) ==
  /\ Now(r) = "solve"
  /\ IF "singular" \in seen[r]
       THEN Finish(r, "singular", Residue)
       ELSE Go(r, <<"update">>) /\ UNCHANGED verdict
  /\ seen' = [seen EXCEPT ![r] = {}]
  /\ UNCHANGED <<setting, iter, vec, call, mail, posted, broken, result>>

Update(r) ==
  /\ Now(r) = "update"
  /\ vec' = [vec EXCEPT ![r].x = @ + 1]
  /\ Go(r, Residue \o <<"close">>)
  /\ UNCHANGED <<setting, iter, seen, verdict, call, mail, posted, broken, result>>

(* A residual below the tolerance decides; what the recurrence has decided *)
(* is believed; a happy breakdown is not, but its reason stays.            *)
Close(r) ==
  /\ Now(r) = "close"
  /\ vec' = [vec EXCEPT ![r].true = "small" \in seen[r]]
  /\ IF "small" \in seen[r]
       THEN Finish(r, IF verdict[r] = "happy" THEN "happy" ELSE "converged", <<>>)
     ELSE IF "not finite" \in seen[r] THEN Finish(r, "breakdown", <<>>)
     ELSE IF verdict[r] \in {"converged", "rank loss", "breakdown"}
       THEN Finish(r, verdict[r], <<>>)
     ELSE IF iter[r] >= MaxIters
       THEN Finish(r, IF verdict[r] = "happy" THEN "happy" ELSE "maxits", <<>>)
     ELSE Go(r, <<"A x", "cycle norm", "reopen">>) /\ UNCHANGED verdict
  /\ seen' = [seen EXCEPT ![r] = {}]
  /\ UNCHANGED <<setting, iter, call, mail, posted, broken, result>>

Reopen(r) ==
  /\ Now(r) = "reopen"
  /\ vec' = [vec EXCEPT ![r] = StartCycle(@)]
  /\ Go(r, ColumnPlan(vec'[r], Chosen(r).every))
  /\ UNCHANGED <<setting, iter, seen, verdict, call, mail, posted, broken, result>>

Rank(r) ==
  \/ Begin(r) \/ SendGhosts(r) \/ ReceiveGhosts(r, AfterProduct(vec[r], Now(r)))
  \/ Contribute(r, BeforeReduction(vec[r], Now(r)))
  \/ Precondition(r, Applied(vec[r], Now(r))) \/ BreakDown(r)
  \/ Open(r) \/ Again(r, setting.orthog) \/ Column(r) \/ Weigh(r) \/ Solve(r)
  \/ Update(r) \/ Close(r) \/ Reopen(r) \/ Return(r)

Meet == Reduce([r \in Ranks |-> Shape(r)], [r \in Ranks |-> Outcomes(r)])
=============================================================================
