------------------------------ MODULE BiCgStab ------------------------------
(***************************************************************************)
(* A BiCGStab solve (solver/bicgstab.rs) as one program of Collective:     *)
(* classic, with fewer checks, and reliable (the residual is replaced      *)
(* every few iterations), preconditioned from the left or right.           *)
(*   r     the x that r is the residual of                                 *)
(*   p     the direction, numbered by the iteration that made it           *)
(*   v     the direction that v is the image of                            *)
(*   fresh the next direction starts from the residual alone (beta = 0)    *)
(*   left  shadow refreshes that are left                                  *)
(***************************************************************************)
EXTENDS Collective

SettingType ==
  [solver : {"bicgstab"}, variant : {"classic", "fewer checks", "reliable"},
   side : {"left", "right"}, every : Nat \ {0}, refreshes : Nat,
   monitor : BOOLEAN, overlap : BOOLEAN, guess : [Ranks -> BOOLEAN],
   rows : [Ranks -> {"none", "few", "many"}], fails : SUBSET Ranks]

Left == setting.side = "left"
Checked == setting.variant # "fewer checks"
ReplacementDue(k) == setting.variant = "reliable" /\ k % setting.every = 0

(* x.iter().any(nonzero): the rank's own part of x.                        *)
SkipsGuess(r) == ~setting.guess[r]

NoImage == -1
Fresh == [x |-> 0, e |-> 0, r |-> 0, p |-> 0, v |-> NoImage, fresh |-> TRUE,
          left |-> setting.refreshes]

Init ==
  /\ setting \in Settings /\ setting.solver = "bicgstab"
  /\ vec = [r \in Ranks |-> Fresh]
  /\ Idle

------------------------------------------------------------------------------
(* The program.                                                            *)

Begin(r) ==
  /\ todo[r] = <<>> /\ result[r] = None
  /\ Go(r, If(~SkipsGuess(r), "A x") \o If(Left, "M r") \o <<"norm r", "dot", "open">>)
  /\ UNCHANGED <<setting, iter, seen, vec, verdict, call, mail, posted, broken, result>>

DirectionPlan ==
  <<"direction">> \o (IF Left THEN <<"A p", "M p">> ELSE <<"M p", "A p">>) \o <<"dot delta", "bend">>
StepPlan ==
  (IF Left THEN <<"A s", "M t">> ELSE <<"M s", "A s">>) \o <<"omega", "damp">>
ResidualPlan(k) ==
  <<"step">> \o If(Left, "M r")
    \o (IF ReplacementDue(k) THEN <<"A x">> \o If(Left, "M r") ELSE <<>>)
    \o <<"norm r", "check">>

(* finalize_true_residual_exit and the exit after a breakdown.             *)
Examine(r, reason) ==
  /\ verdict' = [verdict EXCEPT ![r] = reason]
  /\ Go(r, <<"A trial", "residual norm", "settle">>)

(* A x is computed into v, whatever it is for.                             *)
AfterProduct(v, what) ==
  CASE what = "A x" -> [v EXCEPT !.r = v.x, !.v = NoImage]
    [] what = "A p" -> [v EXCEPT !.v = v.p]
    [] OTHER -> v
Applied(v, what) == v

BeforeReduction(v, what) == v

Shape(r) ==
  CASE Now(r) = "omega" -> <<setting.overlap, 2>>
    [] OTHER -> <<FALSE, 1>>

Follows(r, step) == Len(todo[r]) > 1 /\ todo[r][2] = step
Stop == IF setting.monitor THEN {{"stop"}} ELSE {}
Outcomes(r) ==
  CASE Follows(r, "open") -> {{}, {"converged"}, {"nan"}} \cup Stop
    [] Now(r) = "dot rho" -> {{}, {"breakdown"}}
    [] Now(r) = "dot delta" -> {{}, {"breakdown"}}
    [] Follows(r, "shorten") -> {{}, {"converged"}, {"nan"}} \cup Stop
    [] Now(r) = "omega" -> {{}, {"breakdown"}, {"tiny"}}
    [] Follows(r, "rescue") -> {{}, {"tiny"}, {"nan"}}
    [] Follows(r, "check") -> {{}, {"converged"}, {"diverged"}, {"nan"}} \cup Stop
    [] Now(r) = "residual norm" -> {{}, {"small"}} \cup (IF Follows(r, "try") THEN {{"nan"}} ELSE {})
    [] OTHER -> {{}}

------------------------------------------------------------------------------
(* Decisions.                                                              *)

(* The next turn of the loop, or the norm of r and of the final residual.  *)
NextIteration(r) ==
  IF iter[r] >= MaxIters
    THEN /\ verdict' = [verdict EXCEPT ![r] = "maxits"]
         /\ Go(r, <<"norm r", "A trial", "residual norm", "settle">>)
         /\ UNCHANGED iter
    ELSE /\ iter' = [iter EXCEPT ![r] = @ + 1]
         /\ Go(r, <<"dot rho", "turn">>)
         /\ UNCHANGED verdict

Open(r) ==
  /\ Now(r) = "open"
  /\ IF "nan" \in seen[r] THEN Finish(r, "nan", <<>>) /\ UNCHANGED iter
     ELSE IF "stop" \in seen[r] THEN Finish(r, "stopped", <<>>) /\ UNCHANGED iter
     ELSE IF "converged" \in seen[r] THEN Finish(r, "converged", <<>>) /\ UNCHANGED iter
     ELSE NextIteration(r)
  /\ seen' = [seen EXCEPT ![r] = {}]
  /\ UNCHANGED <<setting, vec, call, mail, posted, broken, result>>

(* rho = 0: r is recomputed and becomes the shadow, or the solve ends.     *)
Turn(r) ==
  /\ Now(r) = "turn"
  /\ IF "breakdown" \notin seen[r]
       THEN Go(r, DirectionPlan) /\ UNCHANGED <<iter, vec, verdict>>
       ELSE IF vec[r].left > 0
         THEN /\ vec' = [vec EXCEPT ![r].left = @ - 1]
              /\ Go(r, <<"A x">> \o If(Left, "M r") \o <<"refreshed">>)
              /\ UNCHANGED <<iter, verdict>>
         ELSE /\ iter' = [iter EXCEPT ![r] = @ - 1]
              /\ Examine(r, "breakdown") /\ UNCHANGED vec
  /\ seen' = [seen EXCEPT ![r] = {}]
  /\ UNCHANGED <<setting, call, mail, posted, broken, result>>

(* Mutant of Anew: the direction of the old residual goes on.              *)
DirectionKept(v) == v

(* The shadow residual and the recurrences start anew.                     *)
Anew(v) == [v EXCEPT !.fresh = TRUE]

Refreshed(r) ==
  /\ Now(r) = "refreshed"
  /\ vec' = [vec EXCEPT ![r] = Anew(@)]
  /\ NextIteration(r)
  /\ UNCHANGED <<setting, seen, call, mail, posted, broken, result>>

(* p = r + beta (p - omega v).                                             *)
Direction(r) ==
  /\ Now(r) = "direction"
  /\ vec' = [vec EXCEPT ![r].p = iter[r], ![r].fresh = FALSE]
  /\ Go(r, Tail(todo[r]))
  /\ UNCHANGED <<setting, iter, seen, verdict, call, mail, posted, broken, result>>

(* s = r - alpha v, and the norm of s if it is checked.                    *)
Bend(r) ==
  /\ Now(r) = "bend"
  /\ IF "breakdown" \in seen[r]
       THEN /\ iter' = [iter EXCEPT ![r] = @ - 1]
            /\ Examine(r, "breakdown")
       ELSE /\ Go(r, IF Checked THEN <<"norm s", "shorten">> ELSE StepPlan)
            /\ UNCHANGED <<iter, verdict>>
  /\ seen' = [seen EXCEPT ![r] = {}]
  /\ UNCHANGED <<setting, vec, call, mail, posted, broken, result>>

(* A small s ends the solve after half a step.  From the left it is tried: *)
(* the residual of x + alpha p decides.  A monitor that stops here stops   *)
(* with the norm of s, and x is not advanced.                              *)
Shorten(r) ==
  /\ Now(r) = "shorten"
  /\ IF "nan" \in seen[r] THEN Examine(r, "nan") /\ UNCHANGED vec
     ELSE IF "stop" \in seen[r] THEN Finish(r, "stopped", <<>>) /\ UNCHANGED vec
     ELSE IF "converged" \in seen[r]
       THEN /\ vec' = [vec EXCEPT ![r].x = @ + 1]
            /\ IF Left THEN Go(r, <<"A trial", "residual norm", "try">>) /\ UNCHANGED verdict
                       ELSE Examine(r, "converged")
     ELSE Go(r, StepPlan) /\ UNCHANGED <<vec, verdict>>
  /\ seen' = [seen EXCEPT ![r] = {}]
  /\ UNCHANGED <<setting, iter, call, mail, posted, broken, result>>

(* The true residual of the trial: converged, or everything starts anew.   *)
Try(r) ==
  /\ Now(r) = "try"
  /\ IF "nan" \in seen[r] THEN Finish(r, "nan", <<>>) /\ UNCHANGED vec
     ELSE IF "small" \in seen[r] THEN Finish(r, "converged", <<>>) /\ UNCHANGED vec
     ELSE /\ vec' = [vec EXCEPT ![r].r = vec[r].x]
          /\ Go(r, <<"M r", "refreshed">>) /\ UNCHANGED verdict
  /\ seen' = [seen EXCEPT ![r] = {}]
  /\ UNCHANGED <<setting, iter, call, mail, posted, broken, result>>

(* omega; t = 0 needs the norm of s.                                       *)
Damp(r) ==
  /\ Now(r) = "damp"
  /\ IF "tiny" \in seen[r] THEN Go(r, <<"norm s", "rescue">>) /\ UNCHANGED verdict
     ELSE IF "breakdown" \in seen[r] THEN Examine(r, "breakdown")
     ELSE Go(r, ResidualPlan(iter[r])) /\ UNCHANGED verdict
  /\ seen' = [seen EXCEPT ![r] = {}]
  /\ UNCHANGED <<setting, iter, vec, call, mail, posted, broken, result>>

Rescue(r) ==
  /\ Now(r) = "rescue"
  /\ IF "nan" \in seen[r] THEN Examine(r, "nan") /\ UNCHANGED vec
     ELSE IF "tiny" \in seen[r]
       THEN vec' = [vec EXCEPT ![r].x = @ + 1] /\ Examine(r, "converged")
     ELSE Examine(r, "breakdown") /\ UNCHANGED vec
  /\ seen' = [seen EXCEPT ![r] = {}]
  /\ UNCHANGED <<setting, iter, call, mail, posted, broken, result>>

(* x = x + alpha p + omega s, r = s - omega t.                             *)
Step(r) ==
  /\ Now(r) = "step"
  /\ vec' = [vec EXCEPT ![r].x = @ + 1, ![r].r = @ + 1]
  /\ Go(r, Tail(todo[r]))
  /\ UNCHANGED <<setting, iter, seen, verdict, call, mail, posted, broken, result>>

(* From the left the preconditioned norm is not believed: the true one     *)
(* decides, and if it is too large the recurrences start anew.             *)
Check(r) ==
  /\ Now(r) = "check"
  /\ IF "nan" \in seen[r] THEN Examine(r, "nan") /\ UNCHANGED iter
     ELSE IF "stop" \in seen[r] THEN Finish(r, "stopped", <<>>) /\ UNCHANGED iter
     ELSE IF "converged" \in seen[r] /\ Left
       THEN Go(r, <<"A trial", "residual norm", "try">>) /\ UNCHANGED <<iter, verdict>>
     ELSE IF "converged" \in seen[r] THEN Examine(r, "converged") /\ UNCHANGED iter
     ELSE IF "diverged" \in seen[r] THEN Examine(r, "diverged") /\ UNCHANGED iter
     ELSE NextIteration(r)
  /\ seen' = [seen EXCEPT ![r] = {}]
  /\ UNCHANGED <<setting, vec, call, mail, posted, broken, result>>

(* reconcile_reason_with_true_residual; a breakdown at a small residual is *)
(* salvaged.                                                               *)
Settle(r) ==
  /\ Now(r) = "settle"
  /\ Finish(r, IF "small" \in seen[r]
                 THEN IF verdict[r] = "breakdown" THEN "salvaged" ELSE "converged"
               ELSE IF verdict[r] = "converged" THEN "maxits" ELSE verdict[r], <<>>)
  /\ seen' = [seen EXCEPT ![r] = {}]
  /\ UNCHANGED <<setting, iter, vec, call, mail, posted, broken, result>>

Rank(r) ==
  \/ Begin(r) \/ SendGhosts(r) \/ ReceiveGhosts(r, AfterProduct(vec[r], Now(r)))
  \/ Contribute(r, BeforeReduction(vec[r], Now(r)))
  \/ Precondition(r, Applied(vec[r], Now(r))) \/ BreakDown(r)
  \/ Open(r) \/ Turn(r) \/ Refreshed(r) \/ Direction(r) \/ Bend(r) \/ Shorten(r) \/ Try(r)
  \/ Damp(r) \/ Rescue(r) \/ Step(r) \/ Check(r) \/ Settle(r) \/ Return(r)

Meet == Reduce([r \in Ranks |-> Shape(r)], [r \in Ranks |-> Outcomes(r)])

------------------------------------------------------------------------------
(* What Krylov asks of a program.                                          *)

VectorsOK(r) ==
  /\ vec[r].x \in 0..MaxIters /\ vec[r].r \in 0..MaxIters /\ vec[r].p \in 0..MaxIters
  /\ vec[r].v \in {NoImage} \cup 0..MaxIters
  /\ vec[r].fresh \in BOOLEAN /\ vec[r].left \in 0..setting.refreshes

DirectionOnImage(v) == v.r = v.x /\ (v.fresh \/ v.v = v.p)
=============================================================================
