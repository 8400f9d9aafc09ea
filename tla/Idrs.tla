-------------------------------- MODULE Idrs --------------------------------
(***************************************************************************)
(* An IDR(s) solve (solver/idrs.rs) as one program of Collective.  No      *)
(* SolverType names it: it is called on its own, and nothing looks at the  *)
(* residual after it.  x counts the updates of x, r those of the residual, *)
(* passed is the x whose residual met the tolerance; a block of s + 1      *)
(* inner steps has one omega, computed in its first step (omega is the     *)
(* block it was computed in); tries are the repairs of the shadow space.   *)
(***************************************************************************)
EXTENDS Collective

SettingType ==
  [solver : {"idrs"}, s : Nat \ {0},
   retries : Nat,                   (* RegenerateP; 0: BreakdownRepair::None *)
   random : BOOLEAN,                (* ShadowP::RandomOrthonormal            *)
   clipped : BOOLEAN,               (* Omega::MinResidualClipped             *)
   every : Nat,                     (* monitor_true_residual_every, or 0     *)
   overlap : BOOLEAN, guess : [Ranks -> BOOLEAN],
   rows : [Ranks -> {"none", "few", "many"}], fails : SUBSET Ranks]

S == setting.s
Never == -1
Fresh == [x |-> 0, e |-> 0, r |-> 0, passed |-> Never, tries |-> 0,
          block |-> 0, inner |-> 0, omega |-> 0]

Init ==
  /\ setting \in Settings /\ setting.solver = "idrs"
  /\ vec = [r \in Ranks |-> Fresh]
  /\ Idle

------------------------------------------------------------------------------
(* The program.                                                            *)

(* x.iter().all(zero): the rank's own part of x.                           *)
StartPlan(r) == If(setting.guess[r], "A x") \o <<"M r", "norm b", "norm r", "open">>

(* build_shadow_space: the columns of P, made orthogonal if they are       *)
(* random, and normalised; a column that vanishes ends the solve.          *)
Column(j, random) == (IF random THEN Times(j - 1, <<"dot">>) ELSE <<>>) \o <<"norm p", "column">>
ShadowPlan[j \in 0..S, random \in BOOLEAN] ==
  IF j = 0 THEN <<>> ELSE ShadowPlan[j - 1, random] \o Column(j, random)

(* The first s steps go along the residual.                                *)
FirstPlan == <<"A v", "M w", "pair", "damping">>

(* P^H r, P^H dR and the small system; the first step of a block computes  *)
(* omega, the others the image of their step.                              *)
InnerPlan(inner) ==
  Times(S, <<"dot">>) \o Times(S * S, <<"dot">>) \o <<"system">>
    \o (IF inner = 0 THEN <<"A v", "M w", "pair">> \o If(setting.clipped, "norm p") \o <<"damping">>
                     ELSE <<"A u", "M w", "step">>)

Begin(r) ==
  /\ todo[r] = <<>> /\ result[r] = None
  /\ Go(r, StartPlan(r))
  /\ UNCHANGED <<setting, iter, seen, vec, verdict, call, mail, posted, broken, result>>

AfterProduct(v, what) == IF what = "A x" THEN [v EXCEPT !.r = v.x] ELSE v
Shape(r) == <<FALSE, IF Now(r) = "pair" THEN 2 ELSE 1>>

Outcomes(r) ==
  LET next == IF Len(todo[r]) > 1 THEN todo[r][2] ELSE "" IN
  CASE next \in {"column", "system", "damping"} -> {{}, {"breakdown"}}
    [] next \in {"open", "check"} -> {{}, {"converged"}}
    [] OTHER -> {{}}

------------------------------------------------------------------------------
(* Decisions.                                                              *)

End(r, reason) ==
  /\ verdict' = [verdict EXCEPT ![r] = reason]
  /\ Go(r, <<"return">>)
  /\ seen' = [seen EXCEPT ![r] = {}]
  /\ UNCHANGED iter

Error(r, reason) ==
  /\ verdict' = [verdict EXCEPT ![r] = reason]
  /\ Go(r, <<"return">>)
  /\ iter' = [iter EXCEPT ![r] = 0]
  /\ seen' = [seen EXCEPT ![r] = {}]

On(r, plan) ==
  /\ Go(r, plan)
  /\ seen' = [seen EXCEPT ![r] = {}]
  /\ UNCHANGED <<iter, verdict>>

InFirst(r) == vec[r].block = 0

Open(r) ==
  /\ Now(r) = "open"
  /\ IF "converged" \in seen[r]
       THEN End(r, "converged") /\ vec' = [vec EXCEPT ![r].passed = vec[r].r]
       ELSE On(r, ShadowPlan[S, setting.random] \o (IF MaxIters = 0 THEN <<"check">> ELSE FirstPlan))
            /\ UNCHANGED vec
  /\ UNCHANGED <<setting, call, mail, posted, broken, result>>

Normalize(r) ==
  /\ Now(r) = "column"
  /\ IF "breakdown" \in seen[r] THEN Error(r, "breakdown") ELSE On(r, Tail(todo[r]))
  /\ UNCHANGED <<setting, vec, call, mail, posted, broken, result>>

(* The next inner step: after s + 1 of them the next block.                *)
NextInner(v) ==
  IF v.inner < S THEN [v EXCEPT !.inner = @ + 1]
                 ELSE [v EXCEPT !.inner = 0, !.block = @ + 1]

(* attempt_breakdown_repair, and what follows: the first steps are tried   *)
(* again, a block goes on with its next inner step (continue 'block).      *)
Repair(r) ==
  IF vec[r].tries >= setting.retries
    THEN Error(r, "breakdown") /\ UNCHANGED vec
    ELSE LET v == [vec[r] EXCEPT !.tries = @ + 1]
             after == IF InFirst(r) THEN v ELSE NextInner(v) IN
         /\ vec' = [vec EXCEPT ![r] = after]
         /\ On(r, ShadowPlan[S, TRUE] \o (IF InFirst(r) THEN FirstPlan ELSE InnerPlan(after.inner)))

System(r) ==
  /\ Now(r) = "system"
  /\ IF "breakdown" \in seen[r] THEN Repair(r) ELSE On(r, Tail(todo[r])) /\ UNCHANGED vec
  /\ UNCHANGED <<setting, call, mail, posted, broken, result>>

Omega(r) ==
  /\ Now(r) = "damping"
  /\ IF "breakdown" \in seen[r]
       THEN Repair(r)
       ELSE On(r, <<"step">>) /\ vec' = [vec EXCEPT ![r].omega = vec[r].block]
  /\ UNCHANGED <<setting, call, mail, posted, broken, result>>

(* x and r move; every so often r is computed anew, not in the first steps. *)
Step(r) ==
  /\ Now(r) = "step"
  /\ vec' = [vec EXCEPT ![r].x = @ + 1, ![r].r = @ + 1]
  /\ iter' = [iter EXCEPT ![r] = @ + 1]
  /\ Go(r, (IF ~InFirst(r) /\ setting.every > 0 /\ iter'[r] % setting.every = 0
              THEN <<"A x", "M r">> ELSE <<>>) \o <<"norm r", "check">>)
  /\ UNCHANGED <<setting, seen, verdict, call, mail, posted, broken, result>>

(* After min(s, maxit) first steps the blocks begin; no step at all if     *)
(* maxit is zero.                                                          *)
Check(r) ==
  /\ Now(r) = "check"
  /\ IF "converged" \in seen[r]
       THEN End(r, "converged") /\ vec' = [vec EXCEPT ![r].passed = vec[r].r]
       ELSE IF iter[r] = MaxIters THEN End(r, "maxits") /\ UNCHANGED vec
         ELSE IF InFirst(r) /\ iter[r] < S THEN On(r, FirstPlan) /\ UNCHANGED vec
           ELSE LET v == IF InFirst(r) THEN [vec[r] EXCEPT !.block = 1, !.inner = 0]
                                       ELSE NextInner(vec[r]) IN
                vec' = [vec EXCEPT ![r] = v] /\ On(r, InnerPlan(v.inner))
  /\ UNCHANGED <<setting, call, mail, posted, broken, result>>

(* pc.apply fails: the caller gets the error at once.                      *)
Refused(r) ==
  /\ Now(r) \in Applications /\ r \in setting.fails
  /\ broken' = broken \cup {r}
  /\ Error(r, "PcApply")
  /\ UNCHANGED <<setting, vec, call, mail, posted, result>>

Rank(r) ==
  \/ Begin(r) \/ SendGhosts(r) \/ ReceiveGhosts(r, AfterProduct(vec[r], Now(r)))
  \/ Contribute(r, vec[r]) \/ Precondition(r, vec[r]) \/ Refused(r)
  \/ Open(r) \/ Normalize(r) \/ System(r) \/ Omega(r) \/ Step(r) \/ Check(r) \/ Return(r)

Meet == Reduce([r \in Ranks |-> Shape(r)], [r \in Ranks |-> Outcomes(r)])

------------------------------------------------------------------------------
VectorsOK(r) ==
  /\ {vec[r].x, vec[r].r} \subseteq 0..MaxIters /\ vec[r].passed \in {Never} \cup 0..MaxIters
  /\ vec[r].tries \in 0..setting.retries /\ vec[r].inner \in 0..S
  /\ vec[r].block \in 0..(MaxIters + setting.retries + 1) /\ vec[r].omega \in 0..vec[r].block

(* An inner step uses the omega of its own block.                          *)
OmegaOfThisBlock(r) == Now(r) = "step" => vec[r].omega = vec[r].block
=============================================================================
