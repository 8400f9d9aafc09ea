-------------------------------- MODULE Cg --------------------------------
(***************************************************************************)
(* A conjugate gradient solve (solver/cg.rs, called from KspContext::solve)*)
(* as one program of Collective, classic and pipelined.  The vectors of a  *)
(* rank: r is the residual of x after x.x updates, e counts how often it   *)
(* was recomputed; u, w, p, s, rho, rhoNew name the residual they come     *)
(* from, and mixed says that p holds a part of an earlier history.         *)
(***************************************************************************)
EXTENDS Collective

Variants == {"classic", "pipelined"}
Norms == {"preconditioned", "unpreconditioned", "natural", "none"}
SettingType ==
  [solver : {"cg"}, variant : Variants, norm : Norms,
   trust : BOOLEAN,                (* a trust region is set                *)
   refresh : Nat,                  (* pipelined_residual_refresh_every or 0 *)
   force : BOOLEAN,                (* initial_guess_nonzero                *)
   overlap : BOOLEAN,
   monitor : [Ranks -> BOOLEAN],   (* true_residual_monitor is set         *)
   guess : [Ranks -> BOOLEAN],
   rows : [Ranks -> {"none", "few", "many"}],
   fails : SUBSET Ranks]

Pipelined == setting.variant = "pipelined"
OwnNorm == setting.norm \in {"unpreconditioned", "natural"}

(* Mutant of UsesAsync: overlap whatever the mode.                         *)
UsesAsyncAnyMode(r) == setting.rows[r] = "many"

(* should_use_async: asks how many rows THIS rank has.                     *)
UsesAsync(r) == setting.overlap /\ setting.rows[r] = "many"

RefreshDue(k) == Pipelined /\ setting.refresh > 0 /\ k > 0 /\ k % setting.refresh = 0

(* Mutant of SkipsGuess: ignores the flag.                                 *)
SkipsUnlessLocal(r) == ~setting.guess[r]

(* guess_nonzero = initial_guess_nonzero || has_nontrivial_guess(x), where *)
(* x is the rank's own part of the vector.                                 *)
SkipsGuess(r) == ~setting.force /\ ~setting.guess[r]

(* The vectors of a rank before the solve: r = b, the residual of x = 0.   *)
(* x counts the updates, r the x it is the residual of, e how often r was  *)
(* recomputed; u, w, p, s, rho, rhoNew name the residual they come from.   *)
NoTag == <<>>
FreshVectors == [x |-> 0, r |-> 0, e |-> 0, u |-> NoTag, w |-> NoTag, p |-> NoTag,
                 s |-> NoTag, mixed |-> FALSE, rho |-> NoTag, rhoNew |-> NoTag]

Init ==
  /\ setting \in Settings /\ setting.solver = "cg"
  /\ vec = [r \in Ranks |-> FreshVectors]
  /\ Idle

Residual(r) == <<vec[r].r, vec[r].e>>
------------------------------------------------------------------------------
(* The program.                                                            *)

StartPlan(r) ==
  If(~SkipsGuess(r), "A x") \o <<"M r">> \o If(Pipelined, "A u") \o <<"tuple", "judge">>
    \o If(setting.trust, "norm x") \o If(setting.monitor[r], "monitor") \o <<"check">>

(* Mutant of ClassicPlan: the reported norm is reduced on its own.         *)
UnfusedPlan(r) ==
  <<"direction", "A p", "p.Ap">> \o If(setting.trust /\ ~UsesAsync(r), "norm p")
    \o <<"step">> \o If(setting.trust, "norm x") \o <<"M r", "tuple", "judge">>
    \o If(OwnNorm, "reported norm") \o If(setting.monitor[r], "monitor") \o <<"check">>

ClassicPlan(r) ==
  <<"direction", "A p", "p.Ap">> \o If(setting.trust /\ ~UsesAsync(r), "norm p")
    \o <<"step">> \o If(setting.trust, "norm x") \o <<"M r", "tuple", "judge">>
    \o If(setting.monitor[r], "monitor") \o <<"check">>

PipelinedPlan(r, k) ==
  If(setting.trust, "norm p") \o <<"step">> \o If(setting.trust, "norm x")
    \o If(RefreshDue(k), "A x") \o <<"M r", "A u", "tuple", "judge">>
    \o If(~RefreshDue(k), "direction") \o If(OwnNorm, "reported norm")
    \o If(setting.monitor[r], "monitor") \o <<"check">>

Begin(r) ==
  /\ todo[r] = <<>> /\ result[r] = None
  /\ IF setting.rows[r] = "none"
       THEN Finish(r, "converged", <<>>)
       ELSE Go(r, StartPlan(r)) /\ UNCHANGED verdict
  /\ UNCHANGED <<setting, iter, seen, vec, call, mail, posted, broken, result>>

(* p = u, s = w after the start or a recomputed residual.                  *)
Restarted(v, again) ==
  IF again THEN [v EXCEPT !.rho = v.rhoNew, !.p = v.u, !.s = v.w, !.mixed = FALSE]
           ELSE [v EXCEPT !.rho = v.rhoNew]

(* The next turn of the loop: rho = rho_new.                               *)
NextIteration(r, again) ==
  /\ iter' = [iter EXCEPT ![r] = @ + 1]
  /\ seen' = [seen EXCEPT ![r] = {}]
  /\ vec' = [vec EXCEPT ![r] = Restarted(@, again)]
  /\ verdict' = [verdict EXCEPT ![r] = ""]
  /\ Go(r, IF Pipelined THEN PipelinedPlan(r, iter[r] + 1) ELSE ClassicPlan(r))

------------------------------------------------------------------------------
(* Meeting the other ranks.                                                *)

(* What a product is for: r = b - A x, ap = A p, w = A u; the last product *)
(* with x is KspContext's own.                                             *)
AfterProduct(v, what) ==
  CASE what = "A x" -> [v EXCEPT !.r = v.x, !.e = v.e + 1]
    [] what = "A p" -> [v EXCEPT !.s = v.p]
    [] what = "A u" -> [v EXCEPT !.w = v.u]
    [] OTHER -> v

(* The local part of a reduction is computed when it is posted.            *)
BeforeReduction(v, what) ==
  IF what \in {"tuple", "dot rho"} THEN [v EXCEPT !.rhoNew = v.u] ELSE v

(* How a rank takes part: blocking or not, and how many values.            *)
Shape(r) ==
  LET what == Now(r) IN
  IF what = "tuple"
    THEN <<iter[r] > 0 /\ UsesAsync(r),
           1 + (IF Pipelined THEN 1 ELSE 0) + (IF OwnNorm THEN 1 ELSE 0)>>
    ELSE IF what = "p.Ap" /\ UsesAsync(r)
      THEN <<TRUE, IF setting.trust THEN 2 ELSE 1>>
      ELSE <<FALSE, 1>>

(* What the result of a reduction may show: rho or delta has a sign that   *)
(* ends the solve or is not a number; rho = 0; the residual passes or      *)
(* exceeds a tolerance; the step leaves the trust region; the recomputed   *)
(* norm is larger than the tolerance.  Convergence::check looks at 0 when  *)
(* no norm is to be computed.                                              *)
Verdicts == IF setting.norm = "none" THEN {{"converged"}} ELSE {{}, {"converged"}, {"diverged"}}

Outcomes(r) ==
  LET what == Now(r) IN
  CASE what = "tuple" /\ iter[r] = 0 ->
         {{"rho"}, {"zero"}, {"converged"}} \cup (IF Pipelined THEN {{"delta"}} ELSE {})
           \cup (IF setting.norm = "none" THEN {} ELSE {{}})
    [] what = "tuple" /\ iter[r] > 0 ->
         {{"rho"}} \cup {d \cup v : d \in {{}} \cup (IF Pipelined THEN {{"delta"}} ELSE {}),
                                  v \in IF Pipelined /\ OwnNorm THEN {{}} ELSE Verdicts}
    [] what = "reported norm" -> Verdicts
    [] what = "p.Ap" -> {{}, {"delta"}} \cup (IF setting.trust /\ UsesAsync(r)
                                                THEN {{"beyond"}} ELSE {})
    [] what = "norm p" -> {{}, {"beyond"}}
    [] what = "norm tol" -> {{}, {"large"}}
    [] what = "dot rho" -> {{}, {"rho"}}
    [] what = "dot delta" -> {{}, {"delta"}}
    [] OTHER -> {{}}

------------------------------------------------------------------------------
(* Local work.                                                             *)

(* z = M r; without a preconditioner z = r.                                *)
Applied(v, what) == [v EXCEPT !.u = <<v.r, v.e>>]

(* p = z + beta p, and in the pipelined loop s = w + beta s.               *)
Combined(v) ==
  [v EXCEPT !.p = v.u,
            !.s = IF Pipelined /\ v.w = v.u /\ v.s = v.p THEN v.u ELSE NoTag,
            !.mixed = v.mixed \/ (v.p # NoTag /\ v.p[2] # v.u[2])]

Direction(r) ==
  /\ Now(r) = "direction"
  /\ vec' = [vec EXCEPT ![r] = Combined(@)]
  /\ Go(r, Tail(todo[r]))
  /\ UNCHANGED <<setting, iter, seen, verdict, call, mail, posted, broken, result>>

(* x = x + alpha p, r = r - alpha s; a step that leaves the trust region   *)
(* is shortened and is the last one.                                       *)
Advance(r) ==
  /\ Now(r) = "step"
  /\ IF "delta" \in seen[r]
       THEN Fail(r, "IndefiniteMatrix")
       ELSE /\ vec' = [vec EXCEPT ![r].x = @ + 1, ![r].r = @ + 1]
            /\ IF "beyond" \in seen[r]
                 THEN Finish(r, "trust region", <<"norm r">>)
                 ELSE Go(r, Tail(todo[r])) /\ UNCHANGED verdict
            /\ UNCHANGED <<iter, seen>>
  /\ UNCHANGED <<setting, call, mail, posted, broken, result>>

------------------------------------------------------------------------------
(* Decisions.                                                              *)

(* rho negative or not a number; the pipelined solve starts with rho and   *)
(* delta that must be positive.                                            *)
Judge(r) ==
  /\ Now(r) = "judge"
  /\ IF "rho" \in seen[r] \/ ("zero" \in seen[r] /\ Pipelined)
       THEN Fail(r, "IndefinitePc")
       ELSE IF "delta" \in seen[r] /\ iter[r] = 0
         THEN Fail(r, "IndefiniteMatrix")
         ELSE Go(r, Tail(todo[r])) /\ UNCHANGED <<iter, seen, vec, verdict>>
  /\ UNCHANGED <<setting, call, mail, posted, broken, result>>

(* Mutant of Verdict: one iteration too many.                              *)
VerdictLate(r) ==
  IF seen[r] \cap {"converged", "zero"} # {} THEN "converged"
  ELSE IF "diverged" \in seen[r] THEN "diverged"
  ELSE IF iter[r] > MaxIters THEN "maxits" ELSE ""

(* Convergence::check.                                                     *)
Verdict(r) ==
  IF seen[r] \cap {"converged", "zero"} # {} THEN "converged"
  ELSE IF "diverged" \in seen[r] THEN "diverged"
  ELSE IF iter[r] >= MaxIters THEN "maxits" ELSE ""

(* After a recomputed residual the direction starts anew.                  *)
Continue(r) ==
  IF Pipelined /\ "delta" \in seen[r]
    THEN Fail(r, "IndefiniteMatrix")
    ELSE NextIteration(r, Pipelined /\ (iter[r] = 0 \/ RefreshDue(iter[r])))

(* The classic loop believes the recurrence; the pipelined one looks at    *)
(* the norm of r before it returns.                                        *)
Check(r) ==
  /\ Now(r) = "check"
  /\ IF Verdict(r) = ""
       THEN Continue(r)
       ELSE /\ IF Pipelined /\ iter[r] > 0
                 THEN /\ verdict' = [verdict EXCEPT ![r] = Verdict(r)]
                      /\ Go(r, <<"norm tol", "settle">>)
                 ELSE Finish(r, Verdict(r), <<"norm r">>)
            /\ UNCHANGED <<iter, seen, vec>>
  /\ UNCHANGED <<setting, call, mail, posted, broken, result>>

Recompute == <<"A x", "M r", "A u", "dot rho", "dot delta", "restart">>

(* The verdict of a residual that is too large is not believed: the loop   *)
(* ends at the bound and starts anew below it.                             *)
Settle(r) ==
  /\ Now(r) = "settle"
  /\ IF "large" \notin seen[r]
       THEN Finish(r, verdict[r], <<>>) /\ UNCHANGED <<iter, seen, vec>>
       ELSE IF iter[r] = MaxIters
         THEN Finish(r, "maxits", <<"norm r">>) /\ UNCHANGED <<iter, seen, vec>>
         ELSE IF RefreshDue(iter[r])
           THEN Continue(r)
           ELSE /\ Go(r, Recompute)
                /\ seen' = [seen EXCEPT ![r] = {}]
                /\ UNCHANGED <<iter, vec, verdict>>
  /\ UNCHANGED <<setting, call, mail, posted, broken, result>>

Restart(r) ==
  /\ Now(r) = "restart"
  /\ IF "rho" \in seen[r]
       THEN Fail(r, "IndefinitePc")
       ELSE IF "delta" \in seen[r]
         THEN Fail(r, "IndefiniteMatrix")
         ELSE NextIteration(r, TRUE)
  /\ UNCHANGED <<setting, call, mail, posted, broken, result>>

Rank(r) ==
  \/ Begin(r) \/ SendGhosts(r) \/ ReceiveGhosts(r, AfterProduct(vec[r], Now(r)))
  \/ Contribute(r, BeforeReduction(vec[r], Now(r)))
  \/ Precondition(r, Applied(vec[r], Now(r))) \/ BreakDown(r)
  \/ Direction(r) \/ Advance(r) \/ Judge(r) \/ Check(r) \/ Settle(r) \/ Restart(r) \/ Return(r)

Meet == Reduce([r \in Ranks |-> Shape(r)], [r \in Ranks |-> Outcomes(r)])

------------------------------------------------------------------------------
(* What Krylov asks of a program.                                          *)

Tags == {NoTag} \cup ((0..MaxIters) \X (0..(2 * MaxIters + 1)))
VectorsOK(r) ==
  /\ vec[r].x \in 0..MaxIters /\ vec[r].r \in 0..MaxIters
  /\ {vec[r].u, vec[r].w, vec[r].p, vec[r].s, vec[r].rho, vec[r].rhoNew} \subseteq Tags
  /\ vec[r].mixed \in BOOLEAN

(* When a rank takes a step, r is the residual of its x, p was made from   *)
(* that residual and has no part of an earlier residual history, s = A p,  *)
(* and alpha was computed with the rho of that residual.  This is what     *)
(* "mixing vectors built from incompatible residual histories" must not do.*)
StepOnCurrent ==
  broken = {} => \A r \in Ranks : Now(r) = "step" =>
    LET v == vec[r] IN
    v.r = v.x /\ ~v.mixed /\ {v.u, v.p, v.s, v.rho} = {Residual(r)}

(* CgSolver::reduction_model: a classic solve without a trust region and a *)
(* true-residual monitor makes no more reductions than the model says.     *)
WithinModel(r) ==
  setting.variant = "classic" /\ ~setting.trust /\ ~setting.monitor[r] =>
    posted[r] <= 2 + 2 * iter[r] \/ verdict[r] \in {"PcApply", "IndefinitePc", "IndefiniteMatrix"}
=============================================================================
