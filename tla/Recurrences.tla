---------------------------- MODULE Recurrences ----------------------------
(***************************************************************************)
(* The solvers that keep a few vectors, as programs of Collective: CGS     *)
(* (solver/cgs.rs), TFQMR (tfqmr.rs, which TCQMR calls), MINRES            *)
(* (minres.rs), Richardson (richardson.rs, which Chebyshev calls) and      *)
(* PipeGCR (pipegcr.rs).  The vectors of a rank: x counts the updates of x *)
(* and r those of the residual kept with it; passed is the x whose         *)
(* residual met the tolerance; half and basis are TFQMR's half step and    *)
(* the directions of a cycle of PipeGCR.                                   *)
(***************************************************************************)
EXTENDS Collective

Small == {"cgs", "tfqmr", "minres", "richardson", "pipegcr"}
Confirmed == Small \ {"tfqmr"}   (* those that test the residual itself     *)
SettingType ==
  [solver : Small,
   every : Nat,                     (* TFQMR's resid_recalc_every            *)
   restart : Nat \ {0}, modified : BOOLEAN,                     (* PipeGCR's *)
   happy : BOOLEAN,                 (* MINRES may meet beta = 0              *)
   monitor : BOOLEAN, overlap : BOOLEAN, guess : [Ranks -> BOOLEAN],
   rows : [Ranks -> {"none", "few", "many"}], fails : SUBSET Ranks]

Runs(solver) == setting.solver = solver
Never == -1
Fresh == [x |-> 0, e |-> 0, r |-> 0, passed |-> Never, half |-> 0, basis |-> 0]

Init ==
  /\ setting \in Settings /\ setting.solver \in Small
  /\ vec = [r \in Ranks |-> Fresh]
  /\ Idle

------------------------------------------------------------------------------
(* The program.                                                            *)

(* CGS takes the rank's own part of x for x, and no preconditioner.        *)
StartPlan(r) ==
  CASE Runs("cgs") -> If(setting.guess[r], "A x") \o <<"triple", "open">>
    [] Runs("tfqmr") -> <<"A x", "M r", "pair", "open">>
    [] Runs("minres") -> <<"A x", "M r", "norms", "open">>
    [] Runs("richardson") -> <<"A x", "norm b", "norm r", "open">>
    [] Runs("pipegcr") -> <<"A x", "norms", "open">>

(* (Ap_i, v) and (Ap_i, Ap_i): together, or one direction at a time.       *)
Orthogonalized(v) ==
  IF setting.modified THEN Times(v.basis, <<"pair">>)
                      ELSE If(v.basis > 0, "dots") \o If(v.basis > 0, "dots")

TurnPlan(k, v) ==
  CASE Runs("cgs") -> <<"A p", "pair", "sigma", "A u", "pair", "check">>
    [] Runs("tfqmr") -> <<"A v", "M v", "dot", "sigma", "norm s", "A u", "M w", "advance">>
    [] Runs("minres") -> <<"A v", "M w", IF k = 1 THEN "pair" ELSE "triple", "advance">>
    [] Runs("richardson") -> <<"M r", "advance", "A x", "norm r", "check">>
    [] Runs("pipegcr") -> <<"M r", "A z">> \o Orthogonalized(v) \o <<"pair", "sigma", "norm r", "check">>

(* recompute_true_residual_norm_s                                          *)
Examined == <<"A x", "residual norm">>

Begin(r) ==
  /\ todo[r] = <<>> /\ result[r] = None
  /\ IF Runs("cgs") /\ setting.rows[r] = "none"
       THEN Finish(r, "converged", <<>>)
       ELSE Go(r, StartPlan(r)) /\ UNCHANGED verdict
  /\ UNCHANGED <<setting, iter, seen, vec, call, mail, posted, broken, result>>

(* r = b - A x                                                             *)
AfterProduct(v, what) == IF what = "A x" THEN [v EXCEPT !.r = v.x] ELSE v

(* How many values a reduction has; all wait for the result.               *)
Shape(r) ==
  <<FALSE, CASE Now(r) = "triple" -> 3 [] Now(r) \in {"pair", "norms"} -> 2
             [] Now(r) = "dots" -> vec[r].basis [] OTHER -> 1>>

Stop == IF setting.monitor THEN {{"stop"}} ELSE {}
Breaks == {{}, {"breakdown"}}
Tests == {{}, {"converged"}, {"diverged"}}

(* Which facts a result shows that are going to be tested: the reduction   *)
(* is the last one before the decision.                                    *)
Outcomes(r) ==
  LET next == IF Len(todo[r]) > 1 THEN todo[r][2] ELSE "" IN
  CASE next = "open" -> {{}, {"converged"}} \cup Stop
         \cup (IF Runs("cgs") \/ Runs("tfqmr") THEN {{"breakdown"}} ELSE {})
         \cup (IF Runs("richardson") THEN {{"diverged"}} ELSE {})
    [] next = "sigma" -> Breaks
    [] next = "check" -> Tests \cup (IF Runs("cgs") THEN {{"breakdown"}} ELSE {})
                               \cup (IF Runs("pipegcr") THEN Stop ELSE {})
    [] next = "advance" -> IF Runs("minres") THEN
                             {{}, {"converged"}} \cup Stop
                               \cup (IF setting.happy THEN {{"beta zero"}} ELSE {})
                           ELSE {{}, {"converged"}} \cup Stop
    [] Runs("tfqmr") /\ Now(r) = "norm s" -> {{}, {"converged"}} \cup Stop
    [] next = "renew" -> Breaks
    [] next \in {"confirm", "settle"} -> {{}, {"small"}}
    [] OTHER -> {{}}

------------------------------------------------------------------------------
(* Decisions.                                                              *)

NextTurn(r, v) ==
  /\ iter' = [iter EXCEPT ![r] = @ + 1]
  /\ seen' = [seen EXCEPT ![r] = {}]
  /\ Go(r, TurnPlan(iter[r] + 1, v))
  /\ UNCHANGED verdict

(* Finish, with the iterations that are reported.                          *)
End(r, reason, iterations, next) ==
  /\ Finish(r, reason, next)
  /\ iter' = [iter EXCEPT ![r] = iterations]
  /\ seen' = [seen EXCEPT ![r] = {}]

(* No turn is left: the norm of the residual is reported with the verdict, *)
(* and MINRES looks at it again.                                           *)
OutOfTurns(r) ==
  IF Runs("minres") THEN /\ Go(r, Examined \o <<"settle">>)
                         /\ UNCHANGED <<iter, seen, verdict>>
  ELSE End(r, "maxits", iter[r], IF Runs("pipegcr") THEN Examined ELSE <<>>)

(* The test of the initial residual.                                       *)
Open(r) ==
  /\ Now(r) = "open"
  /\ vec' = [vec EXCEPT ![r].passed = IF "converged" \in seen[r] THEN vec[r].x ELSE @]
  /\ IF "stop" \in seen[r] /\ ~Runs("cgs") /\ ~Runs("richardson") THEN End(r, "stopped", 0, <<>>)
     ELSE IF "converged" \in seen[r] THEN End(r, "converged", 0, <<>>)
     ELSE IF "diverged" \in seen[r] THEN End(r, "diverged", 0, <<>>)
     ELSE IF "breakdown" \in seen[r] /\ ~(Runs("cgs") /\ MaxIters = 0) THEN End(r, "breakdown", 0, <<>>)
     ELSE IF MaxIters = 0 THEN OutOfTurns(r) ELSE NextTurn(r, vec[r])
  /\ UNCHANGED <<setting, call, mail, posted, broken, result>>

(* x = x + .., and r with it.                                              *)
Stepped(v) == [v EXCEPT !.x = @ + 1, !.r = @ + 1, !.basis = @ + 1]

(* The step length: CGS and PipeGCR take the step with it, TFQMR goes on.  *)
(* PipeGCR counts a turn when x has been updated.                          *)
Sigma(r) ==
  /\ Now(r) = "sigma"
  /\ IF "breakdown" \in seen[r]
       THEN /\ End(r, "breakdown", IF Runs("pipegcr") THEN iter[r] - 1 ELSE iter[r], <<>>)
            /\ UNCHANGED vec
       ELSE /\ vec' = [vec EXCEPT ![r] = IF Runs("tfqmr") THEN [@ EXCEPT !.half = 0]
                                                          ELSE Stepped(@)]
            /\ Go(r, Tail(todo[r]))
            /\ UNCHANGED <<iter, seen, verdict>>
  /\ UNCHANGED <<setting, call, mail, posted, broken, result>>

(* Half a turn of TFQMR: x is updated and the estimate of the residual is  *)
(* tested; only every so often is the residual itself computed.            *)
Half(r) == 2 * (iter[r] - 1) + vec[r].half + 1
Recalculated(r) == setting.every > 0 /\ (Half(r) % setting.every = 0 \/ "converged" \in seen[r])

HalfStep(r) ==
  /\ vec' = [vec EXCEPT ![r].x = @ + 1]
  /\ IF "stop" \in seen[r] THEN End(r, "stopped", Half(r), <<>>)
       ELSE /\ Go(r, (IF Recalculated(r) THEN <<"A x", "M r", "norm r">> ELSE <<>>) \o <<"weigh">>)
            /\ UNCHANGED <<iter, seen, verdict>>

Weigh(r) ==
  /\ Now(r) = "weigh"
  /\ IF "converged" \in seen[r]
       THEN End(r, "converged", Half(r), <<>>) /\ UNCHANGED vec
       ELSE /\ vec' = [vec EXCEPT ![r].half = 1]
            /\ Go(r, IF vec[r].half = 0 THEN <<"A u", "M w", "norm s", "advance">>
                                        ELSE <<"pair", "renew">>)
            /\ seen' = [seen EXCEPT ![r] = {}]
            /\ UNCHANGED <<iter, verdict>>
  /\ UNCHANGED <<setting, call, mail, posted, broken, result>>

(* rho and beta of the next turn; with every = 1 the residual once more.   *)
Renew(r) ==
  /\ Now(r) = "renew"
  /\ IF "breakdown" \in seen[r] THEN End(r, "breakdown", iter[r], <<>>)
     ELSE IF setting.every = 1
       THEN Go(r, <<"A x", "M r", "norm r", "check">>) /\ UNCHANGED <<iter, seen, verdict>>
     ELSE IF iter[r] = MaxIters THEN OutOfTurns(r) ELSE NextTurn(r, vec[r])
  /\ UNCHANGED <<setting, vec, call, mail, posted, broken, result>>

(* One step of MINRES.  A zero beta ends the solve before x is updated; an *)
(* estimate that converges is confirmed with the residual.                 *)
LanczosStep(r) ==
  IF "beta zero" \in seen[r]
    THEN /\ verdict' = [verdict EXCEPT ![r] = "converged"]
         /\ Go(r, Examined \o <<"settle">>)
         /\ seen' = [seen EXCEPT ![r] = {}]
         /\ UNCHANGED <<iter, vec>>
    ELSE /\ vec' = [vec EXCEPT ![r] = Stepped(@)]
         /\ IF "stop" \in seen[r] THEN End(r, "stopped", iter[r], <<>>)
            ELSE IF "converged" \in seen[r]
              THEN /\ Go(r, Examined \o <<"confirm">>)
                   /\ seen' = [seen EXCEPT ![r] = {}] /\ UNCHANGED <<iter, verdict>>
            ELSE IF iter[r] = MaxIters THEN OutOfTurns(r) ELSE NextTurn(r, vec[r])

Advance(r) ==
  /\ Now(r) = "advance"
  /\ \/ Runs("minres") /\ LanczosStep(r)
     \/ Runs("tfqmr") /\ HalfStep(r)
     \/ /\ Runs("richardson")
        /\ vec' = [vec EXCEPT ![r].x = @ + 1]
        /\ Go(r, Tail(todo[r])) /\ UNCHANGED <<iter, seen, verdict>>
  /\ UNCHANGED <<setting, call, mail, posted, broken, result>>

(* Mutant of Confirm: the estimate is believed.                            *)
ConfirmUnseen(r) ==
  /\ Now(r) = "confirm"
  /\ verdict' = [verdict EXCEPT ![r] = "converged"]
  /\ Go(r, Examined \o <<"settle">>)
  /\ seen' = [seen EXCEPT ![r] = {}]
  /\ UNCHANGED <<setting, iter, vec, call, mail, posted, broken, result>>

Confirm(r) ==
  /\ Now(r) = "confirm"
  /\ IF "small" \in seen[r]
       THEN /\ verdict' = [verdict EXCEPT ![r] = "converged"]
            /\ vec' = [vec EXCEPT ![r].passed = vec[r].x]
            /\ Go(r, Examined \o <<"settle">>)
            /\ seen' = [seen EXCEPT ![r] = {}] /\ UNCHANGED iter
       ELSE /\ UNCHANGED vec
            /\ IF iter[r] = MaxIters THEN OutOfTurns(r) ELSE NextTurn(r, vec[r])
  /\ UNCHANGED <<setting, call, mail, posted, broken, result>>

(* The last look of MINRES at the residual: ten times the tolerance passes. *)
Settle(r) ==
  /\ Now(r) = "settle"
  /\ vec' = [vec EXCEPT ![r].passed = IF "small" \in seen[r] THEN vec[r].x ELSE @]
  /\ End(r, IF verdict[r] = "converged" \/ "small" \in seen[r] THEN "converged" ELSE "maxits",
         iter[r], <<>>)
  /\ UNCHANGED <<setting, call, mail, posted, broken, result>>

(* The tests at the end of a turn.  PipeGCR computes the residual before   *)
(* it returns and keeps the verdict; a full cycle starts anew.             *)
Check(r) ==
  /\ Now(r) = "check"
  /\ vec' = [vec EXCEPT ![r].passed = IF "converged" \in seen[r] THEN vec[r].r ELSE @,
                        ![r].basis = IF @ >= setting.restart THEN 0 ELSE @]
  /\ IF "stop" \in seen[r] THEN End(r, "stopped", iter[r], <<>>)
     ELSE IF "converged" \in seen[r]
       THEN End(r, "converged", IF Runs("tfqmr") THEN 2 * iter[r] ELSE iter[r],
                IF Runs("pipegcr") THEN Examined ELSE <<>>)
     ELSE IF "diverged" \in seen[r] /\ ~Runs("tfqmr") THEN End(r, "diverged", iter[r], <<>>)
     ELSE IF "breakdown" \in seen[r] /\ iter[r] < MaxIters THEN End(r, "breakdown", iter[r], <<>>)
     ELSE IF iter[r] = MaxIters THEN OutOfTurns(r) ELSE NextTurn(r, vec'[r])
  /\ UNCHANGED <<setting, call, mail, posted, broken, result>>

Rank(r) ==
  \/ Begin(r) \/ SendGhosts(r) \/ ReceiveGhosts(r, AfterProduct(vec[r], Now(r)))
  \/ Contribute(r, vec[r]) \/ Precondition(r, vec[r]) \/ BreakDown(r)
  \/ Open(r) \/ Sigma(r) \/ Advance(r) \/ Weigh(r) \/ Renew(r) \/ Confirm(r) \/ Settle(r)
  \/ Check(r) \/ Return(r)

Meet == Reduce([r \in Ranks |-> Shape(r)], [r \in Ranks |-> Outcomes(r)])

------------------------------------------------------------------------------
(* What Krylov asks of a program.                                          *)

VectorsOK(r) ==
  /\ {vec[r].x, vec[r].r} \subseteq 0..(2 * MaxIters)
  /\ vec[r].passed \in {Never} \cup 0..(2 * MaxIters)
  /\ vec[r].half \in 0..1 /\ vec[r].basis \in 0..MaxIters
=============================================================================
