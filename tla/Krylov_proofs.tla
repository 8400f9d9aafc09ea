--------------------------- MODULE Krylov_proofs ---------------------------
(***************************************************************************)
(* Proofs that the ranks of a Krylov solve stay together, whichever solver *)
(* runs, for every number of ranks, every pattern of edges, all options    *)
(* and every bound of the iterations.                                      *)
(*                                                                         *)
(* Nothing in a message or a reduction says what it is for, so this is a   *)
(* statement about the programs: between two global reductions a rank does *)
(* what its own state and the settings that all ranks share determine.     *)
(* Step is that function; the march is the list of the states that the     *)
(* foremost rank has been in since the last global reduction.  Every rank  *)
(* is somewhere on it, and a rank that waits in a reduction is at its end. *)
(***************************************************************************)
EXTENDS Krylov, SequenceTheorems, TLAPS

Someone == CHOOSE r \in Ranks : TRUE

------------------------------------------------------------------------------
(* What is the rank's own in the state, and what it does next with it.     *)

State(t, i, n, v, d, c, o) ==
  [todo |-> t, iter |-> i, seen |-> n, vec |-> v, verdict |-> d, call |-> c, result |-> o]
At(r) == State(todo[r], iter[r], seen[r], vec[r], verdict[r], call[r], result[r])

What(s) == IF s.todo = <<>> THEN "begin" ELSE Head(s.todo)
Tag(s) == <<What(s), s.iter, s.vec.x, s.vec.e>>

(* The ways in which a decision ends: t is what is done next.              *)
To(s, t, i, n, v, d) == State(t, i, n, v, d, s.call, s.result)
Onward(s) == To(s, Tail(s.todo), s.iter, s.seen, s.vec, s.verdict)
Ended(s, reason, next) == To(s, next \o Epilogue, s.iter, s.seen, s.vec, reason)
Failed(s, reason) == To(s, <<>> \o Epilogue, 0, s.seen, s.vec, reason)

(* ... and forgets what the reductions have shown.                         *)
Going(s, t, i, v) == To(s, t, i, {}, v, s.verdict)
Closed(s, reason, next, i, v) == To(s, next \o Epilogue, i, {}, v, reason)

(* Cg                                                                      *)
CgBegin(s) ==
  IF setting.rows[Someone] = "none" THEN Ended(s, "converged", <<>>)
  ELSE To(s, C!StartPlan(Someone), s.iter, s.seen, s.vec, s.verdict)
CgNext(s, again) ==
  To(s, IF C!Pipelined THEN C!PipelinedPlan(Someone, s.iter + 1) ELSE C!ClassicPlan(Someone),
     s.iter + 1, {}, C!Restarted(s.vec, again), "")
CgContinue(s) ==
  IF C!Pipelined /\ "delta" \in s.seen THEN Failed(s, "IndefiniteMatrix")
  ELSE CgNext(s, C!Pipelined /\ (s.iter = 0 \/ C!RefreshDue(s.iter)))
CgAdvance(s) ==
  LET v == [s.vec EXCEPT !.x = @ + 1, !.r = @ + 1] IN
  IF "delta" \in s.seen THEN Failed(s, "IndefiniteMatrix")
  ELSE IF "beyond" \in s.seen
    THEN To(s, <<"norm r">> \o Epilogue, s.iter, s.seen, v, "trust region")
    ELSE To(s, Tail(s.todo), s.iter, s.seen, v, s.verdict)
CgJudge(s) ==
  IF "rho" \in s.seen \/ ("zero" \in s.seen /\ C!Pipelined) THEN Failed(s, "IndefinitePc")
  ELSE IF "delta" \in s.seen /\ s.iter = 0 THEN Failed(s, "IndefiniteMatrix")
  ELSE Onward(s)
CgVerdict(s) ==
  IF s.seen \cap {"converged", "zero"} # {} THEN "converged"
  ELSE IF "diverged" \in s.seen THEN "diverged"
  ELSE IF s.iter >= MaxIters THEN "maxits" ELSE ""
CgCheck(s) ==
  IF CgVerdict(s) = "" THEN CgContinue(s)
  ELSE IF C!Pipelined /\ s.iter > 0
    THEN To(s, <<"norm tol", "settle">>, s.iter, s.seen, s.vec, CgVerdict(s))
    ELSE Ended(s, CgVerdict(s), <<"norm r">>)
CgSettle(s) ==
  IF "large" \notin s.seen THEN Ended(s, s.verdict, <<>>)
  ELSE IF s.iter = MaxIters THEN Ended(s, "maxits", <<"norm r">>)
  ELSE IF C!RefreshDue(s.iter) THEN CgContinue(s)
  ELSE Going(s, C!Recompute, s.iter, s.vec)
CgRestart(s) ==
  IF "rho" \in s.seen THEN Failed(s, "IndefinitePc")
  ELSE IF "delta" \in s.seen THEN Failed(s, "IndefiniteMatrix")
  ELSE CgNext(s, TRUE)
CgDirection(s) == To(s, Tail(s.todo), s.iter, s.seen, C!Combined(s.vec), s.verdict)
CgDecision(s) ==
  CASE What(s) = "begin" -> CgBegin(s)
    [] What(s) = "direction" -> CgDirection(s)
    [] What(s) = "step" -> CgAdvance(s)
    [] What(s) = "judge" -> CgJudge(s)
    [] What(s) = "check" -> CgCheck(s)
    [] What(s) = "settle" -> CgSettle(s)
    [] What(s) = "restart" -> CgRestart(s)
    [] OTHER -> s

(* Gmres                                                                   *)
GmresExamine(s, reason, i, v) ==
  To(s, <<"A x", "residual norm", "settle">>, i, {}, v, reason)
GmresBegin(s) == To(s, G!StartPlan(s.vec), s.iter, s.seen, s.vec, s.verdict)
GmresOpen(s) ==
  LET v == G!Widened(s.vec) IN
  IF "stop" \in s.seen THEN GmresExamine(s, "stopped", s.iter, s.vec)
  ELSE IF "converged" \in s.seen THEN GmresExamine(s, "converged", s.iter, s.vec)
  ELSE IF MaxIters = 0 /\ s.vec.mode # "sstep" THEN GmresExamine(s, "maxits", s.iter, s.vec)
  ELSE Going(s, G!NextPlan(v), s.iter, v)
GmresAgain(s) ==
  To(s, IF "lost" \in s.seen THEN G!SecondPass(s.vec, setting.orthog) \o Tail(s.todo)
                             ELSE Tail(s.todo),
     s.iter, s.seen \ {"lost"}, s.vec, s.verdict)
GmresColumn(s) ==
  LET v == [G!Extended(s.vec) EXCEPT !.hist = TRUE]
      k == s.iter + 1 IN
  IF "stop" \in s.seen THEN GmresExamine(s, "stopped", k, v)
  ELSE IF "stagnant" \in s.seen THEN Going(s, <<"update">>, k, G!Stagnated(v))
  ELSE Going(s, IF "converged" \in s.seen \/ G!Full(v, k) THEN <<"update">> ELSE G!ColumnPlan(v),
             k, v)
GmresFactor(s) ==
  IF "breakdown" \notin s.seen THEN Onward(s)
  ELSE IF s.vec.block = 1 THEN Failed(s, "FactorError")
  ELSE Going(s, G!PanelPlan(1), s.iter, [s.vec EXCEPT !.block = 1])
GmresStore(s) == To(s, Tail(s.todo), s.iter, s.seen, G!Stored(s.vec), s.verdict)
GmresCounted(s) ==
  LET left == IF MaxIters > s.iter THEN MaxIters - s.iter ELSE 1 IN
  IF "early" \in s.seen THEN 1 ELSE IF s.vec.block < left THEN s.vec.block ELSE left
GmresColumns(s) ==
  LET n == GmresCounted(s)
      v == G!WithColumns(s.vec, n)
      k == s.iter + n IN
  IF "stop" \in s.seen THEN GmresExamine(s, "stopped", k, v)
  ELSE IF "converged" \in s.seen \/ G!Full(v, k) THEN Going(s, <<"update">>, k, v)
  ELSE Going(s, G!NextPlan(G!Widened(v)), k, G!Widened(v))
GmresUpdate(s) ==
  To(s, <<"A x">> \o G!If(G!Left, "M r") \o <<"cycle norm", "cycle norm", "close">>,
     s.iter, s.seen, [s.vec EXCEPT !.x = @ + 1], s.verdict)
GmresClose(s) ==
  IF "mismatch" \in s.seen
    THEN Closed(s, IF "small" \in s.seen THEN "converged" ELSE "breakdown", <<>>, s.iter, s.vec)
  ELSE IF "converged" \in s.seen \/ s.iter >= MaxIters
    THEN GmresExamine(s, IF "converged" \in s.seen THEN "converged" ELSE "maxits", s.iter, s.vec)
  ELSE IF s.seen = {} /\ s.vec.mode = "sstep"
    THEN Going(s, G!If(G!Left, "M r") \o <<"cycle norm", "reopen">>, s.iter, s.vec)
  ELSE Going(s, G!ColumnPlan(G!Restarted(s.vec)), s.iter, G!Restarted(s.vec))
GmresReopen(s) ==
  LET v == G!Widened(G!Restarted(s.vec)) IN
  IF "stop" \in s.seen THEN GmresExamine(s, "stopped", s.iter, s.vec)
  ELSE Going(s, G!NextPlan(v), s.iter, v)
GmresReconciled(s) ==
  IF "small" \in s.seen /\ s.verdict # "stopped" THEN "converged"
  ELSE IF s.verdict = "converged" THEN "maxits" ELSE s.verdict
GmresSettle(s) ==
  LET v == G!Retried(s.vec) IN
  IF s.vec.mode = "sstep" /\ GmresReconciled(s) = "maxits" THEN Going(s, G!StartPlan(v), 0, v)
  ELSE Closed(s, GmresReconciled(s), <<>>, s.iter, s.vec)
GmresDecision(s) ==
  CASE What(s) = "begin" -> GmresBegin(s)
    [] What(s) = "open" -> GmresOpen(s)
    [] What(s) = "again?" -> GmresAgain(s)
    [] What(s) = "column" -> GmresColumn(s)
    [] What(s) = "factor" -> GmresFactor(s)
    [] What(s) = "store" -> GmresStore(s)
    [] What(s) = "columns" -> GmresColumns(s)
    [] What(s) = "update" -> GmresUpdate(s)
    [] What(s) = "close" -> GmresClose(s)
    [] What(s) = "reopen" -> GmresReopen(s)
    [] What(s) = "settle" -> GmresSettle(s)
    [] OTHER -> s

(* Fgmres                                                                  *)
FgmresBegin(s) ==
  To(s, <<"A x", "norms">> \o F!Residue \o <<"open">>, s.iter, s.seen, s.vec, s.verdict)
FgmresOn(v) == F!ColumnPlan(v, F!Chosen(Someone).every)
FgmresOpen(s) ==
  IF "stop" \in s.seen THEN Closed(s, "stopped", <<>>, s.iter, s.vec)
  ELSE IF "converged" \in s.seen THEN Closed(s, "converged", <<>>, s.iter, s.vec)
  ELSE IF MaxIters = 0 THEN Closed(s, "maxits", <<>>, s.iter, s.vec)
  ELSE Going(s, FgmresOn(s.vec), s.iter, s.vec)
FgmresAgain(s) ==
  To(s, IF "lost" \in s.seen THEN F!SecondPass(s.vec, setting.orthog) \o Tail(s.todo)
                             ELSE Tail(s.todo),
     s.iter, s.seen \ {"lost"}, s.vec, s.verdict)
FgmresColumn(s) ==
  LET v == F!Extended(s.vec)
      k == s.iter + 1 IN
  IF "stop" \in s.seen THEN To(s, F!Residue \o Epilogue, k, s.seen, v, "stopped")
  ELSE IF "happy" \in s.seen
    THEN To(s, (IF setting.happy THEN <<>> ELSE F!Residue) \o <<"solve">>, k, s.seen, v,
            IF setting.happy THEN "happy" ELSE "rank loss")
  ELSE To(s, Tail(s.todo), k, s.seen, v, "")
FgmresRestarts(v) ==
  Len(v.col) >= F!MinInner /\
    \/ setting.stagnation = "restart"
    \/ setting.stagnation \in {"fallback", "replace"} /\ v.mode = "pipelined"
FgmresWeigh(s) ==
  LET left == s.seen \cap {"singular"}
      stagnant == "stagnant" \in s.seen IN
  IF "nan" \in s.seen
    THEN To(s, F!Residue \o <<"solve">>, s.iter, left, s.vec, "breakdown")
  ELSE IF stagnant /\ FgmresRestarts(s.vec)
    THEN To(s, <<"solve">>, s.iter, left,
            [s.vec EXCEPT !.mode = IF setting.stagnation = "replace" THEN @ ELSE "classical",
                          !.hist = FALSE], s.verdict)
  ELSE To(s, IF "converged" \in s.seen \/ Len(s.vec.col) = F!Chosen(Someone).restart
                  \/ s.iter >= MaxIters
               THEN <<"solve">> ELSE FgmresOn(s.vec),
          s.iter, left, [s.vec EXCEPT !.hist = ~stagnant],
          IF "converged" \in s.seen THEN "converged" ELSE "")
FgmresSolve(s) ==
  IF "singular" \in s.seen THEN Closed(s, "singular", F!Residue, s.iter, s.vec)
  ELSE Going(s, <<"update">>, s.iter, s.vec)
FgmresUpdate(s) ==
  To(s, F!Residue \o <<"close">>, s.iter, s.seen, [s.vec EXCEPT !.x = @ + 1], s.verdict)
FgmresClose(s) ==
  LET v == [s.vec EXCEPT !.true = "small" \in s.seen] IN
  IF "small" \in s.seen
    THEN Closed(s, IF s.verdict = "happy" THEN "happy" ELSE "converged", <<>>, s.iter, v)
  ELSE IF "not finite" \in s.seen THEN Closed(s, "breakdown", <<>>, s.iter, v)
  ELSE IF s.verdict \in {"converged", "rank loss", "breakdown"}
    THEN Closed(s, s.verdict, <<>>, s.iter, v)
  ELSE IF s.iter >= MaxIters
    THEN Closed(s, IF s.verdict = "happy" THEN "happy" ELSE "maxits", <<>>, s.iter, v)
  ELSE Going(s, <<"A x", "cycle norm", "reopen">>, s.iter, v)
FgmresReopen(s) ==
  To(s, FgmresOn(F!StartCycle(s.vec)), s.iter, s.seen, F!StartCycle(s.vec), s.verdict)
FgmresDecision(s) ==
  CASE What(s) = "begin" -> FgmresBegin(s)
    [] What(s) = "open" -> FgmresOpen(s)
    [] What(s) = "again?" -> FgmresAgain(s)
    [] What(s) = "column" -> FgmresColumn(s)
    [] What(s) = "weigh" -> FgmresWeigh(s)
    [] What(s) = "solve" -> FgmresSolve(s)
    [] What(s) = "update" -> FgmresUpdate(s)
    [] What(s) = "close" -> FgmresClose(s)
    [] What(s) = "reopen" -> FgmresReopen(s)
    [] OTHER -> s

(* BiCgStab                                                                *)
BiCgStabBegin(s) ==
  To(s, B!If(~B!SkipsGuess(Someone), "A x") \o B!If(B!Left, "M r") \o <<"norm r", "dot", "open">>,
     s.iter, s.seen, s.vec, s.verdict)
BiCgStabExamine(s, reason, i, v) ==
  To(s, <<"A trial", "residual norm", "settle">>, i, {}, v, reason)
BiCgStabNext(s, n, v) ==
  IF s.iter >= MaxIters
    THEN To(s, <<"norm r", "A trial", "residual norm", "settle">>, s.iter, n, v, "maxits")
    ELSE To(s, <<"dot rho", "turn">>, s.iter + 1, n, v, s.verdict)
BiCgStabOpen(s) ==
  IF "nan" \in s.seen THEN Closed(s, "nan", <<>>, s.iter, s.vec)
  ELSE IF "stop" \in s.seen THEN Closed(s, "stopped", <<>>, s.iter, s.vec)
  ELSE IF "converged" \in s.seen THEN Closed(s, "converged", <<>>, s.iter, s.vec)
  ELSE BiCgStabNext(s, {}, s.vec)
BiCgStabTurn(s) ==
  IF "breakdown" \notin s.seen THEN Going(s, B!DirectionPlan, s.iter, s.vec)
  ELSE IF s.vec.left > 0
    THEN Going(s, <<"A x">> \o B!If(B!Left, "M r") \o <<"refreshed">>, s.iter,
               [s.vec EXCEPT !.left = @ - 1])
  ELSE BiCgStabExamine(s, "breakdown", s.iter - 1, s.vec)
BiCgStabRefreshed(s) == BiCgStabNext(s, s.seen, B!Anew(s.vec))
BiCgStabDirection(s) ==
  To(s, Tail(s.todo), s.iter, s.seen, [s.vec EXCEPT !.p = s.iter, !.fresh = FALSE], s.verdict)
BiCgStabBend(s) ==
  IF "breakdown" \in s.seen THEN BiCgStabExamine(s, "breakdown", s.iter - 1, s.vec)
  ELSE Going(s, IF B!Checked THEN <<"norm s", "shorten">> ELSE B!StepPlan, s.iter, s.vec)
BiCgStabShorten(s) ==
  LET v == [s.vec EXCEPT !.x = @ + 1] IN
  IF "nan" \in s.seen THEN BiCgStabExamine(s, "nan", s.iter, s.vec)
  ELSE IF "stop" \in s.seen THEN Closed(s, "stopped", <<>>, s.iter, s.vec)
  ELSE IF "converged" \in s.seen
    THEN IF B!Left THEN Going(s, <<"A trial", "residual norm", "try">>, s.iter, v)
                   ELSE BiCgStabExamine(s, "converged", s.iter, v)
  ELSE Going(s, B!StepPlan, s.iter, s.vec)
BiCgStabTry(s) ==
  IF "nan" \in s.seen THEN Closed(s, "nan", <<>>, s.iter, s.vec)
  ELSE IF "small" \in s.seen THEN Closed(s, "converged", <<>>, s.iter, s.vec)
  ELSE Going(s, <<"M r", "refreshed">>, s.iter, [s.vec EXCEPT !.r = s.vec.x])
BiCgStabDamp(s) ==
  IF "tiny" \in s.seen THEN Going(s, <<"norm s", "rescue">>, s.iter, s.vec)
  ELSE IF "breakdown" \in s.seen THEN BiCgStabExamine(s, "breakdown", s.iter, s.vec)
  ELSE Going(s, B!ResidualPlan(s.iter), s.iter, s.vec)
BiCgStabRescue(s) ==
  IF "nan" \in s.seen THEN BiCgStabExamine(s, "nan", s.iter, s.vec)
  ELSE IF "tiny" \in s.seen
    THEN BiCgStabExamine(s, "converged", s.iter, [s.vec EXCEPT !.x = @ + 1])
  ELSE BiCgStabExamine(s, "breakdown", s.iter, s.vec)
BiCgStabStep(s) ==
  To(s, Tail(s.todo), s.iter, s.seen, [s.vec EXCEPT !.x = @ + 1, !.r = @ + 1], s.verdict)
BiCgStabCheck(s) ==
  IF "nan" \in s.seen THEN BiCgStabExamine(s, "nan", s.iter, s.vec)
  ELSE IF "stop" \in s.seen THEN Closed(s, "stopped", <<>>, s.iter, s.vec)
  ELSE IF "converged" \in s.seen /\ B!Left
    THEN Going(s, <<"A trial", "residual norm", "try">>, s.iter, s.vec)
  ELSE IF "converged" \in s.seen THEN BiCgStabExamine(s, "converged", s.iter, s.vec)
  ELSE IF "diverged" \in s.seen THEN BiCgStabExamine(s, "diverged", s.iter, s.vec)
  ELSE BiCgStabNext(s, {}, s.vec)
BiCgStabSettle(s) ==
  Closed(s, IF "small" \in s.seen
              THEN IF s.verdict = "breakdown" THEN "salvaged" ELSE "converged"
            ELSE IF s.verdict = "converged" THEN "maxits" ELSE s.verdict,
         <<>>, s.iter, s.vec)
BiCgStabDecision(s) ==
  CASE What(s) = "begin" -> BiCgStabBegin(s)
    [] What(s) = "open" -> BiCgStabOpen(s)
    [] What(s) = "turn" -> BiCgStabTurn(s)
    [] What(s) = "refreshed" -> BiCgStabRefreshed(s)
    [] What(s) = "direction" -> BiCgStabDirection(s)
    [] What(s) = "bend" -> BiCgStabBend(s)
    [] What(s) = "shorten" -> BiCgStabShorten(s)
    [] What(s) = "try" -> BiCgStabTry(s)
    [] What(s) = "damp" -> BiCgStabDamp(s)
    [] What(s) = "rescue" -> BiCgStabRescue(s)
    [] What(s) = "step" -> BiCgStabStep(s)
    [] What(s) = "check" -> BiCgStabCheck(s)
    [] What(s) = "settle" -> BiCgStabSettle(s)
    [] OTHER -> s

(* PcaGmres                                                                *)
PcaBegin(s) == To(s, P!StartPlan, s.iter, s.seen, s.vec, s.verdict)
PcaOpen(s) ==
  IF "converged" \in s.seen THEN Closed(s, "converged", <<>>, s.iter, s.vec)
  ELSE Going(s, IF MaxIters = 0 THEN P!LastPlan ELSE P!ColumnPlan, s.iter, s.vec)
PcaColumn(s) ==
  LET v == P!Extended(s.vec)
      k == s.iter + 1 IN
  Going(s, IF \/ "converged" \in s.seen \/ k = MaxIters \/ Len(v.col) = setting.restart
             THEN <<"update">> ELSE P!ColumnPlan, k, v)
PcaUpdate(s) ==
  To(s, <<"A x">> \o P!If(P!Left, "M r") \o <<"cycle norm", "close">>, s.iter, s.seen,
     [s.vec EXCEPT !.x = @ + 1], s.verdict)
PcaClose(s) ==
  Going(s, IF s.iter = MaxIters \/ "converged" \in s.seen THEN P!LastPlan ELSE P!ColumnPlan,
        s.iter, P!StartCycle(s.vec))
PcaSettle(s) ==
  Closed(s, IF "converged" \in s.seen THEN "converged"
            ELSE IF "diverged" \in s.seen THEN "diverged" ELSE "maxits", <<>>, s.iter, s.vec)
PcaDecision(s) ==
  CASE What(s) = "begin" -> PcaBegin(s)
    [] What(s) = "open" -> PcaOpen(s)
    [] What(s) = "column" -> PcaColumn(s)
    [] What(s) = "update" -> PcaUpdate(s)
    [] What(s) = "close" -> PcaClose(s)
    [] What(s) = "settle" -> PcaSettle(s)
    [] OTHER -> s

(* Idrs                                                                    *)
IdrEnded(s, reason, i, v) == To(s, <<"return">>, i, {}, v, reason)
IdrBegin(s) == To(s, I!StartPlan(Someone), s.iter, s.seen, s.vec, s.verdict)
IdrOpen(s) ==
  IF "converged" \in s.seen
    THEN IdrEnded(s, "converged", s.iter, [s.vec EXCEPT !.passed = s.vec.r])
    ELSE Going(s, I!ShadowPlan[I!S, setting.random]
                    \o (IF MaxIters = 0 THEN <<"check">> ELSE I!FirstPlan), s.iter, s.vec)
IdrNormalize(s) ==
  IF "breakdown" \in s.seen THEN IdrEnded(s, "breakdown", 0, s.vec)
  ELSE Going(s, Tail(s.todo), s.iter, s.vec)
IdrRepair(s) ==
  LET v == [s.vec EXCEPT !.tries = @ + 1]
      first == s.vec.block = 0
      after == IF first THEN v ELSE I!NextInner(v) IN
  IF s.vec.tries >= setting.retries THEN IdrEnded(s, "breakdown", 0, s.vec)
  ELSE Going(s, I!ShadowPlan[I!S, TRUE] \o (IF first THEN I!FirstPlan ELSE I!InnerPlan(after.inner)),
             s.iter, after)
IdrSystem(s) ==
  IF "breakdown" \in s.seen THEN IdrRepair(s) ELSE Going(s, Tail(s.todo), s.iter, s.vec)
IdrOmega(s) ==
  IF "breakdown" \in s.seen THEN IdrRepair(s)
  ELSE Going(s, <<"step">>, s.iter, [s.vec EXCEPT !.omega = s.vec.block])
IdrStep(s) ==
  To(s, (IF s.vec.block # 0 /\ setting.every > 0 /\ (s.iter + 1) % setting.every = 0
           THEN <<"A x", "M r">> ELSE <<>>) \o <<"norm r", "check">>,
     s.iter + 1, s.seen, [s.vec EXCEPT !.x = @ + 1, !.r = @ + 1], s.verdict)
IdrCheck(s) ==
  LET first == s.vec.block = 0
      v == IF first THEN [s.vec EXCEPT !.block = 1, !.inner = 0] ELSE I!NextInner(s.vec) IN
  IF "converged" \in s.seen
    THEN IdrEnded(s, "converged", s.iter, [s.vec EXCEPT !.passed = s.vec.r])
  ELSE IF s.iter = MaxIters THEN IdrEnded(s, "maxits", s.iter, s.vec)
  ELSE IF first /\ s.iter < I!S THEN Going(s, I!FirstPlan, s.iter, s.vec)
  ELSE Going(s, I!InnerPlan(v.inner), s.iter, v)
IdrDecision(s) ==
  CASE What(s) = "begin" -> IdrBegin(s)
    [] What(s) = "open" -> IdrOpen(s)
    [] What(s) = "column" -> IdrNormalize(s)
    [] What(s) = "system" -> IdrSystem(s)
    [] What(s) = "damping" -> IdrOmega(s)
    [] What(s) = "step" -> IdrStep(s)
    [] What(s) = "check" -> IdrCheck(s)
    [] OTHER -> s

(* Recurrences                                                             *)
SmallBegin(s) ==
  IF Is("cgs") /\ setting.rows[Someone] = "none" THEN Ended(s, "converged", <<>>)
  ELSE To(s, S!StartPlan(Someone), s.iter, s.seen, s.vec, s.verdict)
SmallTurn(s, u, v) == Going(s, S!TurnPlan(s.iter + 1, u), s.iter + 1, v)
SmallOut(s, v) ==
  IF Is("minres") THEN To(s, S!Examined \o <<"settle">>, s.iter, s.seen, v, s.verdict)
  ELSE Closed(s, "maxits", IF Is("pipegcr") THEN S!Examined ELSE <<>>, s.iter, v)
SmallOn(s, u, v) == IF s.iter = MaxIters THEN SmallOut(s, v) ELSE SmallTurn(s, u, v)
SmallOpen(s) ==
  LET v == [s.vec EXCEPT !.passed = IF "converged" \in s.seen THEN s.vec.x ELSE @] IN
  IF "stop" \in s.seen /\ ~Is("cgs") /\ ~Is("richardson") THEN Closed(s, "stopped", <<>>, 0, v)
  ELSE IF "converged" \in s.seen THEN Closed(s, "converged", <<>>, 0, v)
  ELSE IF "diverged" \in s.seen THEN Closed(s, "diverged", <<>>, 0, v)
  ELSE IF "breakdown" \in s.seen /\ ~(Is("cgs") /\ MaxIters = 0)
    THEN Closed(s, "breakdown", <<>>, 0, v)
  ELSE IF MaxIters = 0 THEN SmallOut(s, v) ELSE SmallTurn(s, s.vec, v)
SmallSigma(s) ==
  IF "breakdown" \in s.seen
    THEN Closed(s, "breakdown", <<>>, IF Is("pipegcr") THEN s.iter - 1 ELSE s.iter, s.vec)
    ELSE To(s, Tail(s.todo), s.iter, s.seen,
            IF Is("tfqmr") THEN [s.vec EXCEPT !.half = 0] ELSE S!Stepped(s.vec), s.verdict)
SmallHalf(s) == 2 * (s.iter - 1) + s.vec.half + 1
SmallHalfStep(s) ==
  LET v == [s.vec EXCEPT !.x = @ + 1] IN
  IF "stop" \in s.seen THEN Closed(s, "stopped", <<>>, SmallHalf(s), v)
  ELSE To(s, (IF setting.every > 0 /\ (SmallHalf(s) % setting.every = 0 \/ "converged" \in s.seen)
                THEN <<"A x", "M r", "norm r">> ELSE <<>>) \o <<"weigh">>,
          s.iter, s.seen, v, s.verdict)
SmallWeigh(s) ==
  IF "converged" \in s.seen THEN Closed(s, "converged", <<>>, SmallHalf(s), s.vec)
  ELSE Going(s, IF s.vec.half = 0 THEN <<"A u", "M w", "norm s", "advance">>
                                  ELSE <<"pair", "renew">>,
             s.iter, [s.vec EXCEPT !.half = 1])
SmallRenew(s) ==
  IF "breakdown" \in s.seen THEN Closed(s, "breakdown", <<>>, s.iter, s.vec)
  ELSE IF setting.every = 1
    THEN To(s, <<"A x", "M r", "norm r", "check">>, s.iter, s.seen, s.vec, s.verdict)
  ELSE SmallOn(s, s.vec, s.vec)
SmallLanczos(s) ==
  LET v == S!Stepped(s.vec) IN
  IF "beta zero" \in s.seen
    THEN To(s, S!Examined \o <<"settle">>, s.iter, {}, s.vec, "converged")
  ELSE IF "stop" \in s.seen THEN Closed(s, "stopped", <<>>, s.iter, v)
  ELSE IF "converged" \in s.seen THEN Going(s, S!Examined \o <<"confirm">>, s.iter, v)
  ELSE SmallOn(s, s.vec, v)
SmallAdvance(s) ==
  IF Is("minres") THEN SmallLanczos(s)
  ELSE IF Is("tfqmr") THEN SmallHalfStep(s)
  ELSE To(s, Tail(s.todo), s.iter, s.seen, [s.vec EXCEPT !.x = @ + 1], s.verdict)
SmallConfirm(s) ==
  IF "small" \in s.seen
    THEN To(s, S!Examined \o <<"settle">>, s.iter, {}, [s.vec EXCEPT !.passed = s.vec.x], "converged")
    ELSE SmallOn(s, s.vec, s.vec)
SmallSettle(s) ==
  Closed(s, IF s.verdict = "converged" \/ "small" \in s.seen THEN "converged" ELSE "maxits",
         <<>>, s.iter, [s.vec EXCEPT !.passed = IF "small" \in s.seen THEN s.vec.x ELSE @])
SmallCheck(s) ==
  LET v == [s.vec EXCEPT !.passed = IF "converged" \in s.seen THEN s.vec.r ELSE @,
                         !.basis = IF @ >= setting.restart THEN 0 ELSE @] IN
  IF "stop" \in s.seen THEN Closed(s, "stopped", <<>>, s.iter, v)
  ELSE IF "converged" \in s.seen
    THEN Closed(s, "converged", IF Is("pipegcr") THEN S!Examined ELSE <<>>,
                IF Is("tfqmr") THEN 2 * s.iter ELSE s.iter, v)
  ELSE IF "diverged" \in s.seen /\ ~Is("tfqmr") THEN Closed(s, "diverged", <<>>, s.iter, v)
  ELSE IF "breakdown" \in s.seen /\ s.iter < MaxIters
    THEN Closed(s, "breakdown", <<>>, s.iter, v)
  ELSE SmallOn(s, v, v)
SmallDecision(s) ==
  CASE What(s) = "begin" -> SmallBegin(s)
    [] What(s) = "open" -> SmallOpen(s)
    [] What(s) = "sigma" -> SmallSigma(s)
    [] What(s) = "advance" -> SmallAdvance(s)
    [] What(s) = "weigh" -> SmallWeigh(s)
    [] What(s) = "renew" -> SmallRenew(s)
    [] What(s) = "confirm" -> SmallConfirm(s)
    [] What(s) = "settle" -> SmallSettle(s)
    [] What(s) = "check" -> SmallCheck(s)
    [] OTHER -> s

(* The vectors after a product, before a reduction, after the              *)
(* preconditioner; and the decisions of the solver that runs.              *)
Multiplied(v, what) ==
  CASE Is("cg") -> C!AfterProduct(v, what) [] Is("gmres") -> G!AfterProduct(v, what)
    [] Is("fgmres") -> F!AfterProduct(v, what) [] Is("bicgstab") -> B!AfterProduct(v, what)
    [] Is("pcagmres") -> P!AfterProduct(v, what) [] Is("idrs") -> I!AfterProduct(v, what)
    [] OTHER -> S!AfterProduct(v, what)
Reduced(v, what) ==
  CASE Is("cg") -> C!BeforeReduction(v, what) [] Is("gmres") -> G!BeforeReduction(v, what)
    [] Is("fgmres") -> F!BeforeReduction(v, what) [] Is("bicgstab") -> B!BeforeReduction(v, what)
    [] Is("pcagmres") -> P!BeforeReduction(v, what) [] OTHER -> v
Preconditioned(v, what) ==
  CASE Is("cg") -> C!Applied(v, what) [] Is("gmres") -> G!Applied(v, what)
    [] Is("fgmres") -> F!Applied(v, what) [] Is("bicgstab") -> B!Applied(v, what)
    [] Is("pcagmres") -> P!Applied(v, what) [] OTHER -> v
Decision(s) ==
  CASE Is("cg") -> CgDecision(s) [] Is("gmres") -> GmresDecision(s)
    [] Is("fgmres") -> FgmresDecision(s) [] Is("bicgstab") -> BiCgStabDecision(s)
    [] Is("pcagmres") -> PcaDecision(s) [] Is("idrs") -> IdrDecision(s)
    [] OTHER -> SmallDecision(s)

Step(s) ==
  IF What(s) \in Products
    THEN IF s.call = None
           THEN State(s.todo, s.iter, s.seen, s.vec, s.verdict, Tag(s), s.result)
           ELSE State(Tail(s.todo), s.iter, s.seen,
                      IF What(s) = "true A x" THEN s.vec ELSE Multiplied(s.vec, What(s)),
                      s.verdict, None, s.result)
  ELSE IF What(s) \in Reductions
    THEN State(s.todo, s.iter, s.seen, Reduced(s.vec, What(s)), s.verdict, Tag(s), s.result)
  ELSE IF What(s) \in Applications
    THEN To(s, Tail(s.todo), s.iter, s.seen, Preconditioned(s.vec, What(s)), s.verdict)
  ELSE IF What(s) = "return"
    THEN State(<<>>, s.iter, s.seen, s.vec, s.verdict, s.call,
               [reason |-> s.verdict, iterations |-> s.iter])
  ELSE Decision(s)

InProduct(s) == s.call # None /\ What(s) \in Products
InReduction(s) == s.call # None /\ What(s) \in Reductions

(* A rank that does nothing more on its own.                               *)
Stays(s) == InReduction(s) \/ s.result # None

Fits(s) ==
  /\ s.call # None => What(s) \in Products \cup Reductions
  /\ s.result # None => s.todo = <<>>

OnRanks(x) == x = [q \in Ranks |-> x[q]]
Shaped ==
  /\ OnRanks(todo) /\ OnRanks(iter) /\ OnRanks(seen) /\ OnRanks(vec) /\ OnRanks(verdict)
  /\ OnRanks(call) /\ OnRanks(result)

------------------------------------------------------------------------------
(* The march: f[0..m] are the states, rank r is in the n[r]-th, c[k] is    *)
(* the number of products before the k-th.                                 *)

Through(f, c, k) == IF InProduct(f[k]) THEN c[k] + 1 ELSE c[k]

(* p and q exchange ghost values.                                          *)
Coupled(e) == e[1] \in Neighbours(e[2])

(* What waits for e[2] are the ghost values of the products that e[1] has  *)
(* entered and e[2] has not left, in their order.                          *)
Waiting(f, c, n, m, e) ==
  /\ Len(mail[e]) = Through(f, c, n[e[1]]) - c[n[e[2]]]
  /\ \A i \in 1..Len(mail[e]) : \E k \in 0..m :
       InProduct(f[k]) /\ c[k] = c[n[e[2]]] + i - 1 /\ mail[e][i] = f[k].call

Path(f, c, m) ==
  /\ m \in Nat /\ c \in [Nat -> Nat]
  /\ \A k \in 0..(m - 1) :
       ~Stays(f[k]) /\ f[k + 1] = Step(f[k]) /\ c[k + 1] = Through(f, c, k)
  /\ \A j, k \in 0..m : j < k => Through(f, c, j) <= c[k]

March(f, c, n, m, T) ==
  /\ Path(f, c, m)
  /\ n \in [Ranks -> 0..m]
  /\ \A r \in Ranks : At(r) = f[n[r]]
  /\ \A e \in Edges : /\ mail[e] \in Seq(T)
                      /\ Coupled(e) => Waiting(f, c, n, m, e)
                      /\ ~Coupled(e) => mail[e] = <<>>

Marching ==
  /\ Shaped
  /\ \A r \in Ranks : Fits(At(r))
  /\ \E f, c, n, m, T : March(f, c, n, m, T)

IInv == setting \in Settings /\ (broken = {} => Marching)

------------------------------------------------------------------------------
(* Facts about the helpers.                                                *)

LEMMA Names ==
  /\ \A w \in Products : w \notin Reductions /\ w \notin Applications /\ w # "return" /\ w # "begin"
  /\ \A w \in Reductions : w \notin Applications /\ w # "return" /\ w # "begin"
  /\ \A w \in Applications : w # "return" /\ w # "begin"
BY DEF Products, Reductions, Applications

LEMMA Here ==
  ASSUME NEW r \in Ranks
  PROVE  /\ At(r).todo = todo[r] /\ At(r).iter = iter[r] /\ At(r).seen = seen[r]
         /\ At(r).vec = vec[r] /\ At(r).verdict = verdict[r] /\ At(r).call = call[r]
         /\ At(r).result = result[r] /\ What(At(r)) = Now(r) /\ Tag(At(r)) = Label(r)
BY DEF At, State, What, Now, Tag, Label

LEMMA Fields ==
  ASSUME NEW t, NEW i, NEW n, NEW v, NEW d, NEW c, NEW o
  PROVE  LET s == State(t, i, n, v, d, c, o) IN
         /\ s.todo = t /\ s.iter = i /\ s.seen = n /\ s.vec = v /\ s.verdict = d
         /\ s.call = c /\ s.result = o
BY DEF State

LEMMA TagIsNotNone == \A s : Tag(s) # None
BY DEF Tag, None

(* A march goes on with what its last state determines.                    *)
LEMMA Longer ==
  ASSUME NEW f, NEW c, NEW n, NEW m, NEW T, March(f, c, n, m, T), ~Stays(f[m])
  PROVE  \E f2, c2 : March(f2, c2, n, m + 1, T)
<1> DEFINE f2 == [j \in Nat |-> IF j = m + 1 THEN Step(f[m]) ELSE f[j]]
           c2 == [j \in Nat |-> IF j = m + 1 THEN Through(f, c, m) ELSE c[j]]
<1>1. m \in Nat /\ c \in [Nat -> Nat] /\ n \in [Ranks -> 0..m]
  BY DEF March, Path
<1>2. Through(f, c, m) \in Nat
  BY <1>1 DEF Through
<1>3. c2 \in [Nat -> Nat]
  BY <1>1, <1>2
<1>4. \A k \in 0..m : f2[k] = f[k] /\ c2[k] = c[k] /\ Through(f2, c2, k) = Through(f, c, k)
  BY <1>1 DEF Through
<1>5. f2[m + 1] = Step(f[m]) /\ c2[m + 1] = Through(f, c, m)
  BY <1>1
<1> HIDE DEF f2, c2
<1>6. Path(f2, c2, m + 1)
  <2>1. \A k \in 0..m : ~Stays(f2[k]) /\ f2[k + 1] = Step(f2[k]) /\ c2[k + 1] = Through(f2, c2, k)
    <3> SUFFICES ASSUME NEW k \in 0..m
                 PROVE  ~Stays(f2[k]) /\ f2[k + 1] = Step(f2[k]) /\ c2[k + 1] = Through(f2, c2, k)
      OBVIOUS
    <3>1. CASE k = m
      BY <3>1, <1>1, <1>4, <1>5
    <3>2. CASE k # m
      <4>1. k \in 0..(m - 1) /\ k + 1 \in 0..m
        BY <3>2, <1>1
      <4> QED
        BY <4>1, <1>1, <1>4 DEF March, Path
    <3> QED
      BY <3>1, <3>2
  <2>2. \A j, k \in 0..(m + 1) : j < k => Through(f2, c2, j) <= c2[k]
    <3> SUFFICES ASSUME NEW j \in 0..(m + 1), NEW k \in 0..(m + 1), j < k
                 PROVE  Through(f2, c2, j) <= c2[k]
      OBVIOUS
    <3>1. j \in 0..m
      BY <1>1
    <3>2. CASE k \in 0..m
      BY <3>1, <3>2, <1>4 DEF March, Path
    <3>3. CASE k = m + 1
      <4>1. c2[k] = Through(f, c, m) /\ Through(f, c, m) >= c[m] /\ c[m] \in Nat
        BY <3>3, <1>1, <1>5 DEF Through
      <4>2. CASE j = m
        BY <4>1, <4>2, <1>4, <3>1, <1>2
      <4>3. CASE j # m
        <5>1. j < m /\ m \in 0..m
          BY <4>3, <3>1, <1>1
        <5>2. Through(f, c, j) <= c[m]
          BY <5>1, <3>1 DEF March, Path
        <5>3. c[j] \in Nat
          BY <3>1, <1>1
        <5>4. Through(f, c, j) \in Nat
          BY <5>3 DEF Through
        <5> QED
          BY <4>1, <5>2, <5>4, <1>2, <1>4, <3>1
      <4> QED
        BY <4>2, <4>3
    <3> QED
      BY <3>2, <3>3, <1>1
  <2>3. (m + 1) - 1 = m /\ m + 1 \in Nat
    BY <1>1
  <2> QED
    BY <2>1, <2>2, <2>3, <1>3 DEF Path
<1>7. n \in [Ranks -> 0..(m + 1)]
  BY <1>1
<1>8. ASSUME NEW e \in Edges, Coupled(e)
      PROVE  Waiting(f2, c2, n, m + 1, e)
  <2>1. Waiting(f, c, n, m, e)
    BY <1>8 DEF March
  <2>2. n[e[1]] \in 0..m /\ n[e[2]] \in 0..m
    BY <1>1, CollectiveAssumption
  <2>3. Through(f2, c2, n[e[1]]) = Through(f, c, n[e[1]]) /\ c2[n[e[2]]] = c[n[e[2]]]
    BY <2>2, <1>4
  <2>4. ASSUME NEW i \in 1..Len(mail[e])
        PROVE  \E k \in 0..(m + 1) :
                 InProduct(f2[k]) /\ c2[k] = c2[n[e[2]]] + i - 1 /\ mail[e][i] = f2[k].call
    <3>1. PICK k \in 0..m :
            InProduct(f[k]) /\ c[k] = c[n[e[2]]] + i - 1 /\ mail[e][i] = f[k].call
      BY <2>1 DEF Waiting
    <3>2. k \in 0..(m + 1)
      BY <1>1
    <3> QED
      BY <3>1, <3>2, <2>3, <1>4
  <2> QED
    BY <2>1, <2>3, <2>4 DEF Waiting
<1>9. \A r \in Ranks : At(r) = f2[n[r]]
  BY <1>1, <1>4 DEF March
<1>10. March(f2, c2, n, m + 1, T)
  BY <1>6, <1>7, <1>8, <1>9 DEF March
<1> QED
  BY <1>10

LEMMA AtTheEnd ==
  ASSUME NEW f, NEW c, NEW n, NEW m, NEW T, March(f, c, n, m, T),
         NEW r \in Ranks, Stays(At(r))
  PROVE  n[r] = m /\ At(r) = f[m]
<1>1. m \in Nat /\ n[r] \in 0..m /\ At(r) = f[n[r]]
  BY DEF March, Path
<1>2. n[r] \notin 0..(m - 1)
  BY <1>1 DEF March, Path
<1> QED
  BY <1>1, <1>2

(* A rank that goes on has the next state of the march before it.          *)
LEMMA NotAtTheEnd ==
  ASSUME NEW r \in Ranks, \E f, c, n, m, T : March(f, c, n, m, T), ~Stays(At(r))
  PROVE  \E f, c, n, m, T : March(f, c, n, m, T) /\ n[r] \in 0..(m - 1)
<1>1. PICK f, c, n, m, T : March(f, c, n, m, T)
  OBVIOUS
<1>2. m \in Nat /\ n[r] \in 0..m /\ At(r) = f[n[r]]
  BY <1>1 DEF March, Path
<1>3. CASE n[r] = m
  <2>1. PICK f2, c2 : March(f2, c2, n, m + 1, T)
    BY <1>1, <1>2, <1>3, Longer
  <2>2. n[r] \in 0..((m + 1) - 1)
    BY <1>2
  <2> QED
    BY <2>1, <2>2
<1>4. CASE n[r] # m
  <2>1. n[r] \in 0..(m - 1)
    BY <1>2, <1>4
  <2> QED
    BY <1>1, <2>1
<1> QED
  BY <1>3, <1>4
------------------------------------------------------------------------------
(* A step depends on nothing but the state of the rank and the setting,    *)
(* which does not change.                                                  *)

LEMMA CgConstant ==
  ASSUME setting' = setting
  PROVE  \A s : CgDecision(s)' = CgDecision(s)
BY DEF CgBegin, CgNext, CgContinue, CgAdvance, CgJudge, CgVerdict, CgCheck, CgSettle,
   CgRestart, CgDirection, CgDecision, To, Onward, Ended, Failed, Going, Closed, State,
   What, Is, C!StartPlan, C!ClassicPlan, C!PipelinedPlan, C!Pipelined, C!OwnNorm,
   C!UsesAsync, C!RefreshDue, C!SkipsGuess, C!If

LEMMA GmresConstant ==
  ASSUME setting' = setting
  PROVE  \A s : GmresDecision(s)' = GmresDecision(s)
BY DEF GmresExamine, GmresBegin, GmresOpen, GmresAgain, GmresColumn, GmresFactor,
   GmresStore, GmresCounted, GmresColumns, GmresUpdate, GmresClose, GmresReopen,
   GmresReconciled, GmresSettle, GmresDecision, To, Onward, Ended, Failed, Going,
   Closed, State, What, Is, G!Left, G!Right, G!StartPlan, G!ColumnPlan, G!PanelPlan,
   G!NextPlan, G!Width, G!Widened, G!Full, G!If

LEMMA FgmresConstant ==
  ASSUME setting' = setting
  PROVE  \A s : FgmresDecision(s)' = FgmresDecision(s)
BY DEF FgmresBegin, FgmresOn, FgmresOpen, FgmresAgain, FgmresColumn, FgmresRestarts,
   FgmresWeigh, FgmresSolve, FgmresUpdate, FgmresClose, FgmresReopen, FgmresDecision,
   To, Onward, Ended, Failed, Going, Closed, State, What, Is, F!Chosen, F!ColumnPlan

LEMMA BiCgStabConstant ==
  ASSUME setting' = setting
  PROVE  \A s : BiCgStabDecision(s)' = BiCgStabDecision(s)
BY DEF BiCgStabBegin, BiCgStabExamine, BiCgStabNext, BiCgStabOpen, BiCgStabTurn,
   BiCgStabRefreshed, BiCgStabDirection, BiCgStabBend, BiCgStabShorten, BiCgStabTry,
   BiCgStabDamp, BiCgStabRescue, BiCgStabStep, BiCgStabCheck, BiCgStabSettle,
   BiCgStabDecision, To, Onward, Ended, Failed, Going, Closed, State, What, Is, B!Left,
   B!Checked, B!ReplacementDue, B!SkipsGuess, B!DirectionPlan, B!StepPlan,
   B!ResidualPlan, B!If

LEMMA PcaConstant ==
  ASSUME setting' = setting
  PROVE  \A s : PcaDecision(s)' = PcaDecision(s)
BY DEF PcaBegin, PcaOpen, PcaColumn, PcaUpdate, PcaClose, PcaSettle, PcaDecision, To,
   Onward, Ended, Failed, Going, Closed, State, What, Is, P!Left, P!StartPlan,
   P!ColumnPlan, P!LastPlan, P!If

LEMMA IdrConstant ==
  ASSUME setting' = setting
  PROVE  \A s : IdrDecision(s)' = IdrDecision(s)
BY DEF IdrEnded, IdrBegin, IdrOpen, IdrNormalize, IdrRepair, IdrSystem, IdrOmega,
   IdrStep, IdrCheck, IdrDecision, To, Onward, Ended, Failed, Going, Closed, State,
   What, Is, I!S, I!StartPlan, I!ShadowPlan, I!Column, I!InnerPlan, I!NextInner, I!If

LEMMA SmallConstant ==
  ASSUME setting' = setting
  PROVE  \A s : SmallDecision(s)' = SmallDecision(s)
BY DEF SmallBegin, SmallTurn, SmallOut, SmallOn, SmallOpen, SmallSigma, SmallHalf,
   SmallHalfStep, SmallWeigh, SmallRenew, SmallLanczos, SmallAdvance, SmallConfirm,
   SmallSettle, SmallCheck, SmallDecision, To, Onward, Ended, Failed, Going, Closed,
   State, What, Is, S!Runs, S!StartPlan, S!Orthogonalized, S!TurnPlan, S!If

LEMMA Constantly ==
  ASSUME setting' = setting
  PROVE  /\ \A s : Step(s)' = Step(s)
         /\ \A e \in Edges : Coupled(e)' <=> Coupled(e)
<1>1. \A s : Decision(s)' = Decision(s)
  BY CgConstant, GmresConstant, FgmresConstant, BiCgStabConstant, PcaConstant, IdrConstant,
     SmallConstant DEF Decision, Is
<1>2. \A v, what : Multiplied(v, what)' = Multiplied(v, what)
  BY DEF Multiplied, Is
<1>3. \A v, what : Reduced(v, what)' = Reduced(v, what)
  BY DEF Reduced, Is
<1>4. \A v, what : Preconditioned(v, what)' = Preconditioned(v, what)
  BY DEF Preconditioned, Is
<1>5. \A s : Step(s)' = Step(s)
  <2> SUFFICES ASSUME NEW s PROVE Step(s)' = Step(s)
    OBVIOUS
  <2>1. Decision(s)' = Decision(s)
    BY <1>1
  <2>2. Multiplied(s.vec, What(s))' = Multiplied(s.vec, What(s))
    BY <1>2
  <2>3. Reduced(s.vec, What(s))' = Reduced(s.vec, What(s))
    BY <1>3
  <2>4. Preconditioned(s.vec, What(s))' = Preconditioned(s.vec, What(s))
    BY <1>4
  <2> QED
    BY <2>1, <2>2, <2>3, <2>4 DEF Step
<1>6. \A e \in Edges : Coupled(e)' <=> Coupled(e)
  BY DEF Coupled, Neighbours
<1> QED
  BY <1>5, <1>6

------------------------------------------------------------------------------
(* A step of one rank.                                                     *)

Sends(r) ==
  /\ ~InProduct(At(r)) /\ InProduct(At(r))'
  /\ \A e \in Edges :
       mail'[e] = IF e[1] = r /\ Coupled(e) THEN Append(mail[e], call'[r]) ELSE mail[e]
Takes(r) ==
  /\ InProduct(At(r)) /\ ~InProduct(At(r))'
  /\ \A e \in Edges :
       /\ e[2] = r /\ Coupled(e) => mail[e] # <<>> /\ mail'[e] = Tail(mail[e])
       /\ ~(e[2] = r /\ Coupled(e)) => mail'[e] = mail[e]
Works(r) == ~InProduct(At(r)) /\ ~InProduct(At(r))' /\ \A e \in Edges : mail'[e] = mail[e]

Walks(r) ==
  /\ setting' = setting /\ Shaped' /\ Fits(At(r))'
  /\ \A q \in Ranks \ {r} : At(q)' = At(q)
  /\ ~Stays(At(r)) /\ At(r)' = Step(At(r))
  /\ Sends(r) \/ Takes(r) \/ Works(r)

LEMMA ConstantMarch ==
  /\ \A f, c, k : Through(f, c, k)' = Through(f, c, k)
  /\ \A s : Stays(s)' <=> Stays(s)
BY DEF Through, InProduct, Stays, InReduction, What

WaitingNext(f, c, n, m, e) ==
  /\ Len(mail'[e]) = Through(f, c, n[e[1]]) - c[n[e[2]]]
  /\ \A i \in 1..Len(mail'[e]) : \E k \in 0..m :
       InProduct(f[k]) /\ c[k] = c[n[e[2]]] + i - 1 /\ mail'[e][i] = f[k].call

(* What waits on one edge, after a step of r on the march.                 *)
LEMMA EdgeStep ==
  ASSUME NEW f, NEW c, NEW n, NEW m, NEW T, March(f, c, n, m, T),
         NEW r \in Ranks, n[r] \in 0..(m - 1), Walks(r),
         NEW e \in Edges, Coupled(e),
         NEW n2, n2 = [n EXCEPT ![r] = @ + 1], NEW tag, tag = call'[r]
  PROVE  mail'[e] \in Seq(T \cup {tag}) /\ WaitingNext(f, c, n2, m, e)
<1> DEFINE p == e[1]
           q == e[2]
<1>1. /\ p \in Ranks /\ q \in Ranks /\ p # q
      /\ m \in Nat /\ c \in [Nat -> Nat] /\ n \in [Ranks -> 0..m]
      /\ n[r] + 1 \in 0..m
  <2>1. p \in Ranks /\ q \in Ranks /\ p # q
    BY CollectiveAssumption
  <2>2. m \in Nat /\ c \in [Nat -> Nat] /\ n \in [Ranks -> 0..m]
    BY DEF March, Path
  <2> QED
    BY <2>1, <2>2
<1>2. At(r) = f[n[r]] /\ At(r)' = f[n[r] + 1] /\ c[n[r] + 1] = Through(f, c, n[r])
  BY DEF March, Path, Walks
<1>3. At(r)'.call = call'[r]
  BY DEF At, State
<1>4. /\ \A k \in 0..m : c[k] \in Nat
      /\ n[p] \in 0..m /\ n[q] \in 0..m
      /\ n2[p] = IF p = r THEN n[r] + 1 ELSE n[p]
      /\ n2[q] = IF q = r THEN n[r] + 1 ELSE n[q]
  BY <1>1
<1>5. mail[e] \in Seq(T) /\ Waiting(f, c, n, m, e)
  BY DEF March
<1>6. mail[e] \in Seq(T \cup {tag}) /\ Len(mail[e]) \in Nat
  BY <1>5
<1> HIDE DEF p, q
<1>7. CASE Sends(r)
  <2>1. ~InProduct(f[n[r]]) /\ InProduct(f[n[r] + 1])
    BY <1>2, <1>7 DEF Sends, InProduct, What
  <2>2. c[n[r] + 1] = c[n[r]] /\ Through(f, c, n[r] + 1) = c[n[r]] + 1 /\ Through(f, c, n[r]) = c[n[r]]
    BY <1>2, <2>1 DEF Through
  <2>3. c[n2[q]] = c[n[q]]
    BY <1>4, <2>2
  <2>4. CASE p = r
    <3>1. mail'[e] = Append(mail[e], call'[r])
      BY <1>7, <2>4 DEF Sends, p
    <3>2. /\ mail'[e] \in Seq(T \cup {tag})
          /\ Len(mail'[e]) = Len(mail[e]) + 1
          /\ \A i \in 1..Len(mail[e]) : mail'[e][i] = mail[e][i]
          /\ mail'[e][Len(mail[e]) + 1] = call'[r]
      BY <1>6, <3>1
    <3>3. Len(mail[e]) = c[n[r]] - c[n[q]] /\ Through(f, c, n2[p]) = c[n[r]] + 1
      BY <1>4, <1>5, <2>2, <2>4 DEF Waiting, WaitingNext, p, q
    <3>4. ASSUME NEW i \in 1..Len(mail'[e])
          PROVE  \E k \in 0..m :
                   InProduct(f[k]) /\ c[k] = c[n2[q]] + i - 1 /\ mail'[e][i] = f[k].call
      <4>1. CASE i \in 1..Len(mail[e])
        <5>1. PICK k \in 0..m :
                InProduct(f[k]) /\ c[k] = c[n[q]] + i - 1 /\ mail[e][i] = f[k].call
          BY <1>5, <4>1 DEF Waiting, q
        <5> QED
          BY <5>1, <4>1, <3>2, <2>3
      <4>2. CASE i = Len(mail[e]) + 1
        <5>1. c[n[r]] \in Nat /\ c[n[q]] \in Nat
          BY <1>1, <1>4
        <5>2. c[n[r] + 1] = c[n2[q]] + i - 1
          BY <5>1, <2>2, <2>3, <3>3, <4>2
        <5> QED
          BY <5>2, <4>2, <3>2, <2>1, <1>1, <1>2, <1>3
      <4> QED
        BY <4>1, <4>2, <3>2, <1>6
    <3>5. c[n[r]] \in Nat /\ c[n[q]] \in Nat
      BY <1>1, <1>4
    <3> QED
      BY <3>2, <3>3, <3>4, <3>5, <2>3 DEF WaitingNext, p, q
  <2>5. CASE p # r
    <3>1. mail'[e] = mail[e]
      BY <1>7, <2>5 DEF Sends, p
    <3>2. Through(f, c, n2[p]) = Through(f, c, n[p])
      BY <1>4, <2>5
    <3> QED
      BY <3>1, <3>2, <2>3, <1>5, <1>6 DEF Waiting, WaitingNext, p, q
  <2> QED
    BY <2>4, <2>5
<1>8. CASE Takes(r)
  <2>1. InProduct(f[n[r]]) /\ ~InProduct(f[n[r] + 1])
    BY <1>2, <1>8 DEF Takes, InProduct, What
  <2>2. c[n[r] + 1] = c[n[r]] + 1 /\ Through(f, c, n[r] + 1) = c[n[r]] + 1 /\ Through(f, c, n[r]) = c[n[r]] + 1
    BY <1>2, <2>1 DEF Through
  <2>3. Through(f, c, n2[p]) = Through(f, c, n[p])
    BY <1>4, <2>2
  <2>4. CASE q = r
    <3>1. mail[e] # <<>> /\ mail'[e] = Tail(mail[e])
      BY <1>8, <2>4 DEF Takes, q
    <3>2. /\ mail'[e] \in Seq(T \cup {tag})
          /\ Len(mail'[e]) = Len(mail[e]) - 1
          /\ \A i \in 1..Len(mail'[e]) : mail'[e][i] = mail[e][i + 1]
      BY <1>6, <3>1
    <3>3. c[n2[q]] = c[n[q]] + 1
      BY <1>4, <2>2, <2>4
    <3>4. ASSUME NEW i \in 1..Len(mail'[e])
          PROVE  \E k \in 0..m :
                   InProduct(f[k]) /\ c[k] = c[n2[q]] + i - 1 /\ mail'[e][i] = f[k].call
      <4>1. i + 1 \in 1..Len(mail[e])
        BY <3>2, <1>6
      <4>2. PICK k \in 0..m :
              InProduct(f[k]) /\ c[k] = c[n[q]] + (i + 1) - 1 /\ mail[e][i + 1] = f[k].call
        BY <1>5, <4>1 DEF Waiting, q
      <4>3. c[n[q]] \in Nat /\ i \in Nat
        BY <1>4
      <4>4. c[k] = c[n2[q]] + i - 1
        BY <4>2, <4>3, <3>3
      <4> QED
        BY <4>2, <4>4, <3>2
    <3>5. Through(f, c, n[p]) \in Nat /\ c[n[q]] \in Nat
      <4>1. c[n[p]] \in Nat /\ c[n[q]] \in Nat
        BY <1>4
      <4> QED
        BY <4>1 DEF Through
    <3>6. Len(mail[e]) = Through(f, c, n[p]) - c[n[q]]
      BY <1>5 DEF Waiting, WaitingNext, p, q
    <3> QED
      BY <3>2, <3>3, <3>4, <3>5, <3>6, <2>3 DEF WaitingNext, p, q
  <2>5. CASE q # r
    <3>1. mail'[e] = mail[e]
      BY <1>8, <2>5 DEF Takes, q
    <3>2. c[n2[q]] = c[n[q]]
      BY <1>4, <2>5
    <3> QED
      BY <3>1, <3>2, <2>3, <1>5, <1>6 DEF Waiting, WaitingNext, p, q
  <2> QED
    BY <2>4, <2>5
<1>9. CASE Works(r)
  <2>1. ~InProduct(f[n[r]]) /\ ~InProduct(f[n[r] + 1])
    BY <1>2, <1>9 DEF Works, InProduct, What
  <2>2. c[n[r] + 1] = c[n[r]] /\ Through(f, c, n[r] + 1) = c[n[r]] /\ Through(f, c, n[r]) = c[n[r]]
    BY <1>2, <2>1 DEF Through
  <2>3. c[n2[q]] = c[n[q]] /\ Through(f, c, n2[p]) = Through(f, c, n[p])
    BY <1>4, <2>2
  <2>4. mail'[e] = mail[e]
    BY <1>9 DEF Works
  <2> QED
    BY <2>3, <2>4, <1>5, <1>6 DEF Waiting, WaitingNext, p, q
<1> QED
  BY <1>7, <1>8, <1>9 DEF Walks

LEMMA MarchStep ==
  ASSUME NEW r \in Ranks, Marching, Walks(r)
  PROVE  Marching'
<1>1. PICK f, c, n, m, T : March(f, c, n, m, T) /\ n[r] \in 0..(m - 1)
  BY NotAtTheEnd DEF Marching, Walks
<1>2. PICK tag : tag = call'[r]
  OBVIOUS
<1> DEFINE n2 == [n EXCEPT ![r] = @ + 1]
           U == T \cup {tag}
<1>3. m \in Nat /\ c \in [Nat -> Nat] /\ n \in [Ranks -> 0..m]
  BY <1>1 DEF March, Path
<1>4. n2 \in [Ranks -> 0..m] /\ n2[r] = n[r] + 1 /\ \A q \in Ranks \ {r} : n2[q] = n[q]
  BY <1>1, <1>3
<1>5. Path(f, c, m)'
  BY <1>1, Constantly, ConstantMarch DEF March, Path, Walks
<1>6. \A q \in Ranks : At(q)' = f[n2[q]]
  <2>1. At(r)' = f[n2[r]]
    BY <1>1, <1>4 DEF March, Path, Walks
  <2>2. \A q \in Ranks \ {r} : At(q)' = f[n2[q]]
    BY <1>1, <1>4 DEF March, Walks
  <2> QED
    BY <2>1, <2>2
<1>7. ASSUME NEW e \in Edges, Coupled(e)
      PROVE  mail'[e] \in Seq(U) /\ Waiting(f, c, n2, m, e)'
  <2>1. mail'[e] \in Seq(U) /\ WaitingNext(f, c, n2, m, e)
    <3> HIDE DEF n2
    <3>1. n2 = [n EXCEPT ![r] = @ + 1]
      BY DEF n2
    <3>2. March(f, c, n, m, T) /\ n[r] \in 0..(m - 1) /\ Walks(r) /\ Coupled(e)
      BY <1>1, <1>7
    <3> QED
      BY <1>2, <3>1, <3>2, EdgeStep
  <2>2. Through(f, c, n2[e[1]])' = Through(f, c, n2[e[1]])
    BY ConstantMarch
  <2>3. \A k : InProduct(f[k])' <=> InProduct(f[k])
    BY DEF InProduct, What
  <2> QED
    BY <2>1, <2>2, <2>3 DEF Waiting, WaitingNext
<1>8. ASSUME NEW e \in Edges, ~Coupled(e)
      PROVE  mail'[e] = <<>> /\ mail'[e] \in Seq(U)
  BY <1>1, <1>8 DEF March, Walks, Sends, Takes, Works
<1>9. March(f, c, n2, m, U)'
  <2>1. \A e \in Edges : Coupled(e)' <=> Coupled(e)
    BY Constantly DEF Walks
  <2>2. ASSUME NEW e \in Edges
        PROVE  /\ mail'[e] \in Seq(U)
               /\ Coupled(e)' => Waiting(f, c, n2, m, e)'
               /\ ~Coupled(e)' => mail'[e] = <<>>
    BY <2>1, <1>7, <1>8
  <2> HIDE DEF n2, U
  <2>3. /\ Path(f, c, m)' /\ n2 \in [Ranks -> 0..m] /\ \A q \in Ranks : At(q)' = f[n2[q]]
    BY <1>4, <1>5, <1>6
  <2> QED
    BY <2>2, <2>3 DEF March
<1>10. \A q \in Ranks : Fits(At(q))'
  BY DEF Marching, Walks, Fits, What
<1> QED
  BY <1>9, <1>10 DEF Marching, Walks
------------------------------------------------------------------------------
(* What the programs have in common.                                       *)

LEMMA BothWays ==
  ASSUME NEW e \in Edges
  PROVE  /\ e[1] \in Ranks /\ e[2] \in Ranks /\ e = <<e[1], e[2]>>
         /\ e[2] \in Neighbours(e[1]) <=> Coupled(e)
<1>1. e[1] \in Ranks /\ e[2] \in Ranks /\ e = <<e[1], e[2]>> /\ <<e[2], e[1]>> \in Edges
  BY CollectiveAssumption
<1> QED
  BY <1>1 DEF Neighbours, Coupled

(* Nothing but the state of r changes.                                     *)
Alone(r) ==
  /\ todo' = [todo EXCEPT ![r] = todo'[r]] /\ iter' = [iter EXCEPT ![r] = iter'[r]]
  /\ seen' = [seen EXCEPT ![r] = seen'[r]] /\ vec' = [vec EXCEPT ![r] = vec'[r]]
  /\ verdict' = [verdict EXCEPT ![r] = verdict'[r]] /\ call' = [call EXCEPT ![r] = call'[r]]
  /\ result' = [result EXCEPT ![r] = result'[r]]

LEMMA AloneFrame ==
  ASSUME Shaped, NEW r \in Ranks, Alone(r)
  PROVE  Shaped' /\ \A q \in Ranks \ {r} : At(q)' = At(q)
<1>1. Shaped'
  BY DEF Shaped, OnRanks, Alone
<1>2. ASSUME NEW q \in Ranks \ {r}
      PROVE  At(q)' = At(q)
  <2>1. /\ todo'[q] = todo[q] /\ iter'[q] = iter[q] /\ seen'[q] = seen[q] /\ vec'[q] = vec[q]
        /\ verdict'[q] = verdict[q] /\ call'[q] = call[q] /\ result'[q] = result[q]
    BY DEF Shaped, OnRanks, Alone
  <2> QED
    BY <2>1 DEF At
<1> QED
  BY <1>1, <1>2

LEMMA Goes ==
  ASSUME NEW r \in Ranks, Fits(At(r)), Now(r) # "begin" \/ result[r] = None,
         ~(Now(r) \in Reductions /\ call[r] # None)
  PROVE  ~Stays(At(r)) /\ result[r] = None
BY Here DEF Fits, Stays, InReduction, What

LEMMA SendWalks ==
  ASSUME Shaped, NEW r \in Ranks, Fits(At(r)), SendGhosts(r)
  PROVE  Walks(r)
<1>1. /\ Now(r) \in Products /\ call[r] = None /\ setting' = setting
      /\ call' = [call EXCEPT ![r] = Label(r)]
      /\ UNCHANGED <<todo, iter, seen, vec, verdict, result>>
  BY DEF SendGhosts
<1>2. Alone(r)
  BY <1>1 DEF Alone, Shaped, OnRanks
<1>3. call'[r] = Label(r)
  BY <1>1 DEF Shaped, OnRanks
<1>4. Label(r) # None
  BY DEF Label, None
<1>5. At(r)' = Step(At(r))
  <2>1. Step(At(r)) = State(todo[r], iter[r], seen[r], vec[r], verdict[r], Label(r), result[r])
    BY <1>1, Here DEF Step
  <2> QED
    BY <1>1, <1>3, <2>1 DEF At
<1>6. ~Stays(At(r)) /\ result[r] = None
  BY <1>1, Goes, Names
<1>7. Now(r)' = Now(r)
  BY <1>1 DEF Now
<1>8. What(At(r))' = Now(r) /\ call'[r] # None /\ result'[r] = None
  BY <1>1, <1>3, <1>4, <1>6, <1>7 DEF At, State, What, Now
<1>9. Fits(At(r))' /\ InProduct(At(r))' /\ ~InProduct(At(r))
  BY <1>1, <1>8, Here DEF Fits, InProduct, At, State
<1>10. ASSUME NEW e \in Edges
       PROVE  mail'[e] = IF e[1] = r /\ Coupled(e) THEN Append(mail[e], call'[r]) ELSE mail[e]
  BY <1>3, BothWays DEF SendGhosts
<1> QED
  BY <1>1, <1>2, <1>5, <1>6, <1>9, <1>10, AloneFrame DEF Walks, Sends

LEMMA ReceiveWalks ==
  ASSUME Shaped, NEW r \in Ranks, Fits(At(r)), ReceiveGhosts(r, Multiplied(vec[r], Now(r)))
  PROVE  Walks(r)
<1>1. /\ Now(r) \in Products /\ call[r] # None /\ setting' = setting
      /\ vec' = [vec EXCEPT ![r] = IF Now(r) = "true A x" THEN vec[r] ELSE Multiplied(vec[r], Now(r))]
      /\ call' = [call EXCEPT ![r] = None]
      /\ todo' = [todo EXCEPT ![r] = Tail(todo[r])]
      /\ UNCHANGED <<iter, seen, verdict, result>>
  BY DEF ReceiveGhosts, Go
<1>2. Alone(r)
  BY <1>1 DEF Alone, Shaped, OnRanks
<1>3. /\ call'[r] = None /\ todo'[r] = Tail(todo[r])
      /\ vec'[r] = IF Now(r) = "true A x" THEN vec[r] ELSE Multiplied(vec[r], Now(r))
  BY <1>1 DEF Shaped, OnRanks
<1>5. At(r)' = Step(At(r))
  <2>1. Step(At(r)) = State(Tail(todo[r]), iter[r], seen[r],
                      IF Now(r) = "true A x" THEN vec[r] ELSE Multiplied(vec[r], Now(r)),
                      verdict[r], None, result[r])
    BY <1>1, Here DEF Step
  <2> QED
    BY <1>1, <1>3, <2>1 DEF At
<1>6. ~Stays(At(r)) /\ result[r] = None
  BY <1>1, Goes, Names
<1>8. At(r)'.call = None /\ At(r)'.result = None
  BY <1>1, <1>3, <1>6 DEF At, State
<1>9. Fits(At(r))' /\ ~InProduct(At(r))' /\ InProduct(At(r))
  BY <1>1, <1>8, Here DEF Fits, InProduct
<1>10. ASSUME NEW e \in Edges
       PROVE  /\ e[2] = r /\ Coupled(e) => mail[e] # <<>> /\ mail'[e] = Tail(mail[e])
              /\ ~(e[2] = r /\ Coupled(e)) => mail'[e] = mail[e]
  BY BothWays DEF ReceiveGhosts, Coupled
<1> QED
  BY <1>1, <1>2, <1>5, <1>6, <1>9, <1>10, AloneFrame DEF Walks, Takes

LEMMA ContributeWalks ==
  ASSUME Shaped, NEW r \in Ranks, Fits(At(r)), Contribute(r, Reduced(vec[r], Now(r)))
  PROVE  Walks(r)
<1>1. /\ Now(r) \in Reductions /\ call[r] = None /\ setting' = setting /\ mail' = mail
      /\ vec' = [vec EXCEPT ![r] = Reduced(vec[r], Now(r))]
      /\ call' = [call EXCEPT ![r] = Label(r)]
      /\ UNCHANGED <<todo, iter, seen, verdict, result>>
  BY DEF Contribute
<1>2. Alone(r)
  BY <1>1 DEF Alone, Shaped, OnRanks
<1>3. call'[r] = Label(r) /\ vec'[r] = Reduced(vec[r], Now(r))
  BY <1>1 DEF Shaped, OnRanks
<1>5. At(r)' = Step(At(r))
  <2>1. Step(At(r)) = State(todo[r], iter[r], seen[r], Reduced(vec[r], Now(r)), verdict[r],
                      Label(r), result[r])
    BY <1>1, Here, Names DEF Step
  <2> QED
    BY <1>1, <1>3, <2>1 DEF At
<1>6. ~Stays(At(r)) /\ result[r] = None
  BY <1>1, Goes, Names
<1>7. Now(r)' = Now(r)
  BY <1>1 DEF Now
<1>8. What(At(r))' = Now(r) /\ result'[r] = None
  BY <1>1, <1>6, <1>7 DEF At, State, What, Now
<1>9. Fits(At(r))' /\ ~InProduct(At(r))' /\ ~InProduct(At(r))
  BY <1>1, <1>8, Here, Names DEF Fits, InProduct, At, State
<1> QED
  BY <1>1, <1>2, <1>5, <1>6, <1>9, AloneFrame DEF Walks, Works

(* Local work: neither in a product nor in a reduction.                    *)
LEMMA LocalWalks ==
  ASSUME Shaped, NEW r \in Ranks, Fits(At(r)), Alone(r),
         Now(r) \notin Products, Now(r) \notin Reductions,
         Now(r) # "begin" \/ result[r] = None,
         setting' = setting, mail' = mail, call' = call,
         result' = result \/ todo'[r] = <<>>,
         At(r)' = Step(At(r))
  PROVE  Walks(r)
<1>1. call[r] = None
  BY Here DEF Fits
<1>2. ~Stays(At(r)) /\ result[r] = None
  BY <1>1, Goes
<1>3. At(r)'.call = None /\ (At(r)'.result = None \/ At(r)'.todo = <<>>)
  BY <1>1, <1>2 DEF At, State
<1>4. Fits(At(r))' /\ ~InProduct(At(r))' /\ ~InProduct(At(r))
  BY <1>1, <1>3, Here DEF Fits, InProduct
<1> QED
  BY <1>2, <1>4, AloneFrame DEF Walks, Works

LEMMA PreconditionWalks ==
  ASSUME Shaped, NEW r \in Ranks, Fits(At(r)), Precondition(r, Preconditioned(vec[r], Now(r)))
  PROVE  Walks(r)
<1>1. /\ Now(r) \in Applications /\ setting' = setting /\ mail' = mail /\ call' = call
      /\ vec' = [vec EXCEPT ![r] = Preconditioned(vec[r], Now(r))]
      /\ todo' = [todo EXCEPT ![r] = Tail(todo[r])]
      /\ UNCHANGED <<iter, seen, verdict, result>>
  BY DEF Precondition, Go
<1>2. Alone(r)
  BY <1>1 DEF Alone, Shaped, OnRanks
<1>3. todo'[r] = Tail(todo[r]) /\ vec'[r] = Preconditioned(vec[r], Now(r))
  BY <1>1 DEF Shaped, OnRanks
<1>5. At(r)' = Step(At(r))
  <2>1. Step(At(r)) = State(Tail(todo[r]), iter[r], seen[r], Preconditioned(vec[r], Now(r)), verdict[r],
                      call[r], result[r])
    BY <1>1, Here, Names DEF Step, To
  <2> QED
    BY <1>1, <1>3, <2>1 DEF At
<1> QED
  BY <1>1, <1>2, <1>5, Names, LocalWalks

LEMMA ReturnWalks ==
  ASSUME Shaped, NEW r \in Ranks, Fits(At(r)), Return(r)
  PROVE  Walks(r)
<1>1. /\ Now(r) = "return" /\ setting' = setting /\ mail' = mail /\ call' = call
      /\ result' = [result EXCEPT ![r] = [reason |-> verdict[r], iterations |-> iter[r]]]
      /\ todo' = [todo EXCEPT ![r] = <<>>]
      /\ UNCHANGED <<iter, seen, verdict, vec>>
  BY DEF Return, Go
<1>2. Alone(r)
  BY <1>1 DEF Alone, Shaped, OnRanks
<1>3. todo'[r] = <<>> /\ result'[r] = [reason |-> verdict[r], iterations |-> iter[r]]
  BY <1>1 DEF Shaped, OnRanks
<1>5. At(r)' = Step(At(r))
  <2>1. Step(At(r)) = State(<<>>, iter[r], seen[r], vec[r], verdict[r], call[r],
                      [reason |-> verdict[r], iterations |-> iter[r]])
    BY <1>1, Here, Names DEF Step
  <2> QED
    BY <1>1, <1>3, <2>1 DEF At
<1> QED
  BY <1>1, <1>2, <1>3, <1>5, Names, LocalWalks

(* A decision: it has a name of its own, and what comes next follows from  *)
(* the state of the rank.                                                  *)
Decides(r) ==
  /\ Now(r) \notin Products \cup Reductions \cup Applications \cup {"return"}
  /\ Now(r) # "begin" \/ result[r] = None
  /\ UNCHANGED <<setting, mail, call, result>>
  /\ Alone(r) /\ At(r)' = Decision(At(r))

LEMMA DecidesWalks ==
  ASSUME Shaped, NEW r \in Ranks, Fits(At(r)), Decides(r)
  PROVE  Walks(r)
<1>1. At(r)' = Step(At(r))
  BY Here DEF Decides, Step
<1> QED
  BY <1>1, LocalWalks DEF Decides

(* What a rank does while no preconditioner has failed.                    *)
Acts(r) ==
  \/ SendGhosts(r) \/ ReceiveGhosts(r, Multiplied(vec[r], Now(r)))
  \/ Contribute(r, Reduced(vec[r], Now(r))) \/ Precondition(r, Preconditioned(vec[r], Now(r)))
  \/ Return(r) \/ Decides(r)

LEMMA ActsWalks ==
  ASSUME Shaped, NEW r \in Ranks, Fits(At(r)), Acts(r)
  PROVE  Walks(r)
BY SendWalks, ReceiveWalks, ContributeWalks, PreconditionWalks, ReturnWalks, DecidesWalks DEF Acts

------------------------------------------------------------------------------
(* A reduction: all ranks are at the end of the march, in the same state,  *)
(* and a new march begins.                                                 *)

Meets ==
  /\ \A r \in Ranks : Now(r) \in Reductions /\ call[r] # None
  /\ \E shown : seen' = [r \in Ranks |-> seen[r] \cup shown[Now(r)]]
  /\ todo' = [r \in Ranks |-> Tail(todo[r])]
  /\ call' = [r \in Ranks |-> None]
  /\ UNCHANGED <<setting, iter, vec, verdict, mail, result>>

Together ==
  /\ \A q, r \in Ranks : At(q) = At(r)
  /\ \A r \in Ranks : ~InProduct(At(r))
  /\ \A e \in Edges : mail[e] = <<>>
OnTheMarch == \E f, c, n, m, T : March(f, c, n, m, T)

LEMMA MarchStarts == Together => OnTheMarch
<1> SUFFICES ASSUME Together PROVE OnTheMarch
  OBVIOUS
<1>1. PICK s : s = At(Someone)
  OBVIOUS
<1> DEFINE f == [k \in Nat |-> s]
           c == [k \in Nat |-> 0]
           n == [r \in Ranks |-> 0]
<1>2. Path(f, c, 0)
  BY DEF Path
<1>3. \A r \in Ranks : At(r) = f[n[r]]
  BY <1>1 DEF Someone, Together
<1>4. ASSUME NEW e \in Edges
      PROVE  mail[e] \in Seq({}) /\ Waiting(f, c, n, 0, e)
  <2>1. mail[e] = <<>> /\ Len(mail[e]) = 0
    BY DEF Together
  <2>2. n[e[1]] = 0 /\ n[e[2]] = 0 /\ c[0] = 0 /\ f[0] = At(e[1])
    BY <1>3, CollectiveAssumption
  <2>3. Through(f, c, 0) = 0
    BY <2>2, CollectiveAssumption DEF Through, Together
  <2> QED
    BY <2>1, <2>2, <2>3 DEF Waiting
<1>5. March(f, c, n, 0, {})
  BY <1>2, <1>3, <1>4 DEF March, Together
<1> QED
  BY <1>5 DEF OnTheMarch

LEMMA MeetsMarch ==
  ASSUME Marching, Meets
  PROVE  Marching'
<1>1. PICK f, c, n, m, T : March(f, c, n, m, T)
  BY DEF Marching
<1>2. PICK shown : seen' = [r \in Ranks |-> seen[r] \cup shown[Now(r)]]
  BY DEF Meets
<1>3. ASSUME NEW r \in Ranks
      PROVE  n[r] = m /\ At(r) = f[m] /\ InReduction(f[m]) /\ result[r] = None
  <2>1. Now(r) \in Reductions /\ call[r] # None
    BY DEF Meets
  <2>2. InReduction(At(r)) /\ Stays(At(r))
    BY <2>1, Here DEF InReduction, Stays
  <2>3. result[r] = None
    BY <2>1, Here, Names DEF Marching, Fits, What
  <2> QED
    BY <1>1, <2>2, <2>3, AtTheEnd
<1>4. ASSUME NEW r \in Ranks
      PROVE  At(r)' = State(Tail(f[m].todo), f[m].iter, f[m].seen \cup shown[What(f[m])],
                            f[m].vec, f[m].verdict, None, f[m].result)
  <2>1. /\ todo'[r] = Tail(todo[r]) /\ seen'[r] = seen[r] \cup shown[Now(r)] /\ call'[r] = None
        /\ UNCHANGED <<iter, vec, verdict, result>>
    BY <1>2 DEF Meets
  <2>2. /\ todo[r] = f[m].todo /\ iter[r] = f[m].iter /\ seen[r] = f[m].seen
        /\ vec[r] = f[m].vec /\ verdict[r] = f[m].verdict /\ result[r] = f[m].result
        /\ Now(r) = What(f[m])
    BY <1>3, Here
  <2> QED
    BY <2>1, <2>2 DEF At
<1>5. ASSUME NEW r \in Ranks
      PROVE  At(r)'.call = None /\ At(r)'.result = None
  BY <1>3, <1>4, Here, Fields
<1>6. \A r \in Ranks : ~InProduct(At(r))' /\ Fits(At(r))'
  BY <1>5 DEF InProduct, Fits
<1>7. ASSUME NEW e \in Edges
      PROVE  mail'[e] = <<>>
  <2>1. mail' = mail /\ mail[e] \in Seq(T)
    BY <1>1 DEF Meets, March
  <2>2. CASE Coupled(e)
    <3>1. n[e[1]] = m /\ n[e[2]] = m /\ ~InProduct(f[m])
      BY <1>3, CollectiveAssumption, Names DEF InReduction, InProduct
    <3>2. m \in Nat /\ c[m] \in Nat
      BY <1>1 DEF March, Path
    <3>3. Len(mail[e]) = 0
      BY <1>1, <2>2, <3>1, <3>2 DEF March, Waiting, Through
    <3> QED
      BY <2>1, <3>3
  <2>3. CASE ~Coupled(e)
    BY <1>1, <2>1, <2>3 DEF March
  <2> QED
    BY <2>2, <2>3
<1>8. Shaped'
  <2>1. OnRanks(seen)'
    BY <1>2 DEF OnRanks
  <2> QED
    BY <2>1 DEF Meets, Marching, Shaped, OnRanks
<1>9. \A q, r \in Ranks : At(q)' = At(r)'
  BY <1>4
<1>10. Together'
  BY <1>6, <1>7, <1>9 DEF Together
<1>11. OnTheMarch'
  BY <1>10, MarchStarts, PTL
<1> QED
  BY <1>6, <1>8, <1>11 DEF Marching, OnTheMarch
------------------------------------------------------------------------------
(* The programs, one by one.                                               *)

LEMMA SomeoneIsOne == \A r \in Ranks : Someone \in Ranks
BY DEF Someone

(* Cg                                                                      *)

LEMMA CgAlike ==
  ASSUME Is("cg"), AskedAlike(setting), NEW r \in Ranks
  PROVE  /\ C!StartPlan(r) = C!StartPlan(Someone) /\ C!ClassicPlan(r) = C!ClassicPlan(Someone)
         /\ \A k : C!PipelinedPlan(r, k) = C!PipelinedPlan(Someone, k)
         /\ C!UsesAsync(r) <=> C!UsesAsync(Someone)
         /\ setting.rows[r] = "none" <=> setting.rows[Someone] = "none"
<1>1. /\ setting.monitor[r] = setting.monitor[Someone]
      /\ setting.rows[r] = "none" <=> setting.rows[Someone] = "none"
      /\ C!UsesAsync(r) <=> C!UsesAsync(Someone)
      /\ C!SkipsGuess(r) <=> C!SkipsGuess(Someone)
  BY SomeoneIsOne DEF AskedAlike, Is, C!UsesAsync, C!SkipsGuess
<1>2. C!StartPlan(r) = C!StartPlan(Someone)
  BY <1>1 DEF C!StartPlan, C!If
<1>3. C!ClassicPlan(r) = C!ClassicPlan(Someone)
  BY <1>1 DEF C!ClassicPlan, C!If
<1>4. \A k : C!PipelinedPlan(r, k) = C!PipelinedPlan(Someone, k)
  BY <1>1 DEF C!PipelinedPlan, C!If
<1> QED
  BY <1>1, <1>2, <1>3, <1>4

LEMMA CgActs ==
  ASSUME Is("cg"), AskedAlike(setting), Shaped, NEW r \in Ranks, C!Rank(r), broken' = {}
  PROVE  Acts(r)
<1> USE DEF Is
<1>1. CASE C!SendGhosts(r)
  BY <1>1 DEF Acts, SendGhosts, C!SendGhosts, Now, C!Now, Products, C!Products, Label,
     C!Label, None, C!None, Neighbours, C!Neighbours
<1>2. CASE C!ReceiveGhosts(r, C!AfterProduct(vec[r], C!Now(r)))
  <2>1. Multiplied(vec[r], Now(r)) = C!AfterProduct(vec[r], C!Now(r))
    BY DEF Multiplied, Now, C!Now
  <2> QED
    BY <1>2, <2>1 DEF Acts, ReceiveGhosts, C!ReceiveGhosts, Now, C!Now, Products,
       C!Products, None, C!None, Neighbours, C!Neighbours, Go, C!Go
<1>3. CASE C!Contribute(r, C!BeforeReduction(vec[r], C!Now(r)))
  <2>1. Reduced(vec[r], Now(r)) = C!BeforeReduction(vec[r], C!Now(r))
    BY DEF Reduced, Now, C!Now
  <2> QED
    BY <1>3, <2>1 DEF Acts, Contribute, C!Contribute, Now, C!Now, Reductions,
       C!Reductions, None, C!None, Label, C!Label
<1>4. CASE C!Precondition(r, C!Applied(vec[r], C!Now(r)))
  <2>1. Preconditioned(vec[r], Now(r)) = C!Applied(vec[r], C!Now(r))
    BY DEF Preconditioned, Now, C!Now
  <2> QED
    BY <1>4, <2>1 DEF Acts, Precondition, C!Precondition, Now, C!Now, Applications,
       C!Applications, Go, C!Go
<1>5. CASE C!Return(r)
  BY <1>5 DEF Acts, Return, C!Return, Now, C!Now, Go, C!Go
<1>6. ~C!BreakDown(r)
  BY DEF C!BreakDown
<1>7. CASE C!Begin(r)
  <2>1. Now(r) = "begin" /\ result[r] = None /\ UNCHANGED <<setting, mail, call, result>>
    BY <1>7 DEF C!Begin, Now, None, C!None
  <2>2. Alone(r)
    BY <1>7 DEF C!Begin, C!Finish, C!Go, C!Epilogue, Alone, Shaped, OnRanks
  <2>3. At(r)' = CgBegin(At(r))
    BY <1>7, CgAlike DEF C!Begin, C!Finish, C!Go, C!Epilogue, Epilogue, Ended, CgBegin,
       At, State, To, Shaped, OnRanks
  <2>4. Decision(At(r)) = CgBegin(At(r))
    BY <2>1, Here DEF Decision, CgDecision
  <2>5. Now(r) \notin Products \cup Reductions \cup Applications \cup {"return"}
    BY <2>1 DEF Products, Reductions, Applications
  <2> QED
    BY <2>1, <2>2, <2>3, <2>4, <2>5 DEF Decides, Acts
<1>8. CASE C!Direction(r)
  <2>1. Now(r) = "direction" /\ UNCHANGED <<setting, mail, call, result>>
    BY <1>8 DEF C!Direction, Now, C!Now
  <2>2. Alone(r)
    BY <1>8 DEF C!Direction, C!Go, Alone, Shaped, OnRanks
  <2>3. At(r)' = CgDirection(At(r))
    BY <1>8 DEF C!Direction, C!Go, CgDirection, At, State, To, Shaped, OnRanks
  <2>4. Decision(At(r)) = CgDirection(At(r))
    BY <2>1, Here DEF Decision, CgDecision
  <2>5. Now(r) \notin Products \cup Reductions \cup Applications \cup {"return"}
    BY <2>1 DEF Products, Reductions, Applications
  <2> QED
    BY <2>1, <2>2, <2>3, <2>4, <2>5 DEF Decides, Acts
<1>9. CASE C!Advance(r)
  <2>1. Now(r) = "step" /\ UNCHANGED <<setting, mail, call, result>>
    BY <1>9 DEF C!Advance, Now, C!Now
  <2>2. Alone(r)
    BY ZenonT(60), <1>9 DEF C!Advance, C!Finish, C!Fail, C!Go, C!Epilogue, Alone,
       Shaped, OnRanks
  <2>3. At(r)' = CgAdvance(At(r))
    BY <1>9 DEF C!Advance, C!Finish, C!Fail, C!Go, C!Epilogue, Epilogue, Failed,
       CgAdvance, At, State, To, Shaped, OnRanks
  <2>4. Decision(At(r)) = CgAdvance(At(r))
    BY <2>1, Here DEF Decision, CgDecision
  <2>5. Now(r) \notin Products \cup Reductions \cup Applications \cup {"return"}
    BY <2>1 DEF Products, Reductions, Applications
  <2> QED
    BY <2>1, <2>2, <2>3, <2>4, <2>5 DEF Decides, Acts
<1>10. CASE C!Judge(r)
  <2>1. Now(r) = "judge" /\ UNCHANGED <<setting, mail, call, result>>
    BY <1>10 DEF C!Judge, Now, C!Now
  <2>2. Alone(r)
    BY <1>10 DEF C!Judge, C!Finish, C!Fail, C!Go, C!Epilogue, Alone, Shaped, OnRanks
  <2>3. At(r)' = CgJudge(At(r))
    BY <1>10 DEF C!Judge, C!Finish, C!Fail, C!Go, C!Epilogue, Epilogue, Failed, Onward,
       CgJudge, At, State, To, Shaped, OnRanks
  <2>4. Decision(At(r)) = CgJudge(At(r))
    BY <2>1, Here DEF Decision, CgDecision
  <2>5. Now(r) \notin Products \cup Reductions \cup Applications \cup {"return"}
    BY <2>1 DEF Products, Reductions, Applications
  <2> QED
    BY <2>1, <2>2, <2>3, <2>4, <2>5 DEF Decides, Acts
<1>11. CASE C!Check(r)
  <2>1. Now(r) = "check" /\ UNCHANGED <<setting, mail, call, result>>
    BY <1>11 DEF C!Check, Now, C!Now
  <2>2. Alone(r)
    BY <1>11 DEF C!Check, C!Finish, C!Fail, C!Go, C!Continue, C!NextIteration,
       C!Epilogue, Alone, Shaped, OnRanks
  <2>3. C!Verdict(r) = CgVerdict(At(r))
    BY DEF C!Verdict, CgVerdict, At, State
  <2>4. At(r)' = CgCheck(At(r))
    BY ZenonT(60), <1>11, CgAlike, <2>3 DEF C!Check, C!Finish, C!Fail, C!Go, C!Continue,
       C!NextIteration, C!Epilogue, Epilogue, Failed, Ended, CgContinue, CgNext,
       CgCheck, At, State, To, Shaped, OnRanks
  <2>5. Decision(At(r)) = CgCheck(At(r))
    BY <2>1, Here DEF Decision, CgDecision
  <2>6. Now(r) \notin Products \cup Reductions \cup Applications \cup {"return"}
    BY <2>1 DEF Products, Reductions, Applications
  <2> QED
    BY <2>1, <2>2, <2>4, <2>5, <2>6 DEF Decides, Acts
<1>12. CASE C!Settle(r)
  <2>1. Now(r) = "settle" /\ UNCHANGED <<setting, mail, call, result>>
    BY <1>12 DEF C!Settle, Now, C!Now
  <2>2. Alone(r)
    BY <1>12 DEF C!Settle, C!Finish, C!Fail, C!Go, C!Continue, C!NextIteration,
       C!Epilogue, Alone, Shaped, OnRanks
  <2>3. At(r)' = CgSettle(At(r))
    BY ZenonT(60), <1>12, CgAlike DEF C!Settle, C!Finish, C!Fail, C!Go, C!Continue,
       C!NextIteration, C!Epilogue, Epilogue, Failed, Ended, CgContinue, CgNext, Going,
       CgSettle, At, State, To, Shaped, OnRanks
  <2>4. Decision(At(r)) = CgSettle(At(r))
    BY <2>1, Here DEF Decision, CgDecision
  <2>5. Now(r) \notin Products \cup Reductions \cup Applications \cup {"return"}
    BY <2>1 DEF Products, Reductions, Applications
  <2> QED
    BY <2>1, <2>2, <2>3, <2>4, <2>5 DEF Decides, Acts
<1>13. CASE C!Restart(r)
  <2>1. Now(r) = "restart" /\ UNCHANGED <<setting, mail, call, result>>
    BY <1>13 DEF C!Restart, Now, C!Now
  <2>2. Alone(r)
    BY ZenonT(60), <1>13 DEF C!Restart, C!Finish, C!Fail, C!Go, C!NextIteration,
       C!Epilogue, Alone, Shaped, OnRanks
  <2>3. At(r)' = CgRestart(At(r))
    BY <1>13, CgAlike DEF C!Restart, C!Finish, C!Fail, C!Go, C!NextIteration,
       C!Epilogue, Epilogue, Failed, CgNext, CgRestart, At, State, To, Shaped, OnRanks
  <2>4. Decision(At(r)) = CgRestart(At(r))
    BY <2>1, Here DEF Decision, CgDecision
  <2>5. Now(r) \notin Products \cup Reductions \cup Applications \cup {"return"}
    BY <2>1 DEF Products, Reductions, Applications
  <2> QED
    BY <2>1, <2>2, <2>3, <2>4, <2>5 DEF Decides, Acts
<1> QED
  BY <1>1, <1>2, <1>3, <1>4, <1>5, <1>6, <1>7, <1>8, <1>9, <1>10, <1>11, <1>12, <1>13 DEF C!Rank

LEMMA CgMeets ==
  ASSUME C!Meet
  PROVE  Meets
BY DEF Meets, Now, None, Reductions, C!Meet, C!Reduce, C!Reads, C!Now, C!None,
   C!Reductions
(* Gmres                                                                   *)

LEMMA GmresActs ==
  ASSUME Is("gmres"), AskedAlike(setting), Shaped, NEW r \in Ranks, G!Rank(r), broken' = {}
  PROVE  Acts(r)
<1> USE DEF Is
<1>1. CASE G!SendGhosts(r)
  BY <1>1 DEF Acts, SendGhosts, G!SendGhosts, Now, G!Now, Products, G!Products, Label,
     G!Label, None, G!None, Neighbours, G!Neighbours
<1>2. CASE G!ReceiveGhosts(r, G!AfterProduct(vec[r], G!Now(r)))
  <2>1. Multiplied(vec[r], Now(r)) = G!AfterProduct(vec[r], G!Now(r))
    BY DEF Multiplied, Now, G!Now
  <2> QED
    BY <1>2, <2>1 DEF Acts, ReceiveGhosts, G!ReceiveGhosts, Now, G!Now, Products,
       G!Products, None, G!None, Neighbours, G!Neighbours, Go, G!Go
<1>3. CASE G!Contribute(r, G!BeforeReduction(vec[r], G!Now(r)))
  <2>1. Reduced(vec[r], Now(r)) = G!BeforeReduction(vec[r], G!Now(r))
    BY DEF Reduced, Now, G!Now
  <2> QED
    BY <1>3, <2>1 DEF Acts, Contribute, G!Contribute, Now, G!Now, Reductions,
       G!Reductions, None, G!None, Label, G!Label
<1>4. CASE G!Precondition(r, G!Applied(vec[r], G!Now(r)))
  <2>1. Preconditioned(vec[r], Now(r)) = G!Applied(vec[r], G!Now(r))
    BY DEF Preconditioned, Now, G!Now
  <2> QED
    BY <1>4, <2>1 DEF Acts, Precondition, G!Precondition, Now, G!Now, Applications,
       G!Applications, Go, G!Go
<1>5. CASE G!Return(r)
  BY <1>5 DEF Acts, Return, G!Return, Now, G!Now, Go, G!Go
<1>6. ~G!BreakDown(r)
  BY DEF G!BreakDown
<1>7. CASE G!Begin(r)
  <2>1. Now(r) = "begin" /\ result[r] = None /\ UNCHANGED <<setting, mail, call, result>>
    BY <1>7 DEF G!Begin, Now, None, G!None
  <2>2. Alone(r)
    BY <1>7 DEF G!Begin, G!Go, Alone, Shaped, OnRanks
  <2>3. At(r)' = GmresBegin(At(r))
    BY <1>7 DEF G!Begin, G!Go, GmresBegin, At, State, To, Shaped, OnRanks
  <2>4. Decision(At(r)) = GmresBegin(At(r))
    BY <2>1, Here DEF Decision, GmresDecision
  <2>5. Now(r) \notin Products \cup Reductions \cup Applications \cup {"return"}
    BY <2>1 DEF Products, Reductions, Applications
  <2> QED
    BY <2>1, <2>2, <2>3, <2>4, <2>5 DEF Decides, Acts
<1>8. CASE G!Open(r)
  <2>1. Now(r) = "open" /\ UNCHANGED <<setting, mail, call, result>>
    BY <1>8 DEF G!Open, Now, G!Now
  <2>2. Alone(r)
    BY <1>8 DEF G!Open, G!Examine, G!Go, Alone, Shaped, OnRanks
  <2>3. At(r)' = GmresOpen(At(r))
    BY <1>8 DEF G!Open, G!Examine, G!Go, GmresExamine, Going, GmresOpen, At, State, To,
       Shaped, OnRanks
  <2>4. Decision(At(r)) = GmresOpen(At(r))
    BY <2>1, Here DEF Decision, GmresDecision
  <2>5. Now(r) \notin Products \cup Reductions \cup Applications \cup {"return"}
    BY <2>1 DEF Products, Reductions, Applications
  <2> QED
    BY <2>1, <2>2, <2>3, <2>4, <2>5 DEF Decides, Acts
<1>9. CASE G!Again(r, setting.orthog)
  <2>1. Now(r) = "again?" /\ UNCHANGED <<setting, mail, call, result>>
    BY <1>9 DEF G!Again, Now, G!Now
  <2>2. Alone(r)
    BY <1>9 DEF G!Again, G!Go, Alone, Shaped, OnRanks
  <2>3. At(r)' = GmresAgain(At(r))
    BY <1>9 DEF G!Again, G!Go, GmresAgain, At, State, To, Shaped, OnRanks
  <2>4. Decision(At(r)) = GmresAgain(At(r))
    BY <2>1, Here DEF Decision, GmresDecision
  <2>5. Now(r) \notin Products \cup Reductions \cup Applications \cup {"return"}
    BY <2>1 DEF Products, Reductions, Applications
  <2> QED
    BY <2>1, <2>2, <2>3, <2>4, <2>5 DEF Decides, Acts
<1>10. CASE G!Column(r)
  <2>1. Now(r) = "column" /\ UNCHANGED <<setting, mail, call, result>>
    BY <1>10 DEF G!Column, Now, G!Now
  <2>2. Alone(r)
    BY <1>10 DEF G!Column, G!Examine, G!Go, Alone, Shaped, OnRanks
  <2>3. At(r)' = GmresColumn(At(r))
    BY <1>10 DEF G!Column, G!Examine, G!Go, GmresExamine, Going, GmresColumn, At, State,
       To, Shaped, OnRanks
  <2>4. Decision(At(r)) = GmresColumn(At(r))
    BY <2>1, Here DEF Decision, GmresDecision
  <2>5. Now(r) \notin Products \cup Reductions \cup Applications \cup {"return"}
    BY <2>1 DEF Products, Reductions, Applications
  <2> QED
    BY <2>1, <2>2, <2>3, <2>4, <2>5 DEF Decides, Acts
<1>11. CASE G!Factor(r)
  <2>1. Now(r) = "factor" /\ UNCHANGED <<setting, mail, call, result>>
    BY <1>11 DEF G!Factor, Now, G!Now
  <2>2. Alone(r)
    BY <1>11 DEF G!Factor, G!Finish, G!Go, G!Epilogue, G!Fail, Alone, Shaped, OnRanks
  <2>3. At(r)' = GmresFactor(At(r))
    BY <1>11 DEF G!Factor, G!Finish, G!Go, G!Epilogue, G!Fail, Epilogue, Failed, Going,
       Onward, GmresFactor, At, State, To, Shaped, OnRanks
  <2>4. Decision(At(r)) = GmresFactor(At(r))
    BY <2>1, Here DEF Decision, GmresDecision
  <2>5. Now(r) \notin Products \cup Reductions \cup Applications \cup {"return"}
    BY <2>1 DEF Products, Reductions, Applications
  <2> QED
    BY <2>1, <2>2, <2>3, <2>4, <2>5 DEF Decides, Acts
<1>12. CASE G!Store(r)
  <2>1. Now(r) = "store" /\ UNCHANGED <<setting, mail, call, result>>
    BY <1>12 DEF G!Store, Now, G!Now
  <2>2. Alone(r)
    BY <1>12 DEF G!Store, G!Go, Alone, Shaped, OnRanks
  <2>3. At(r)' = GmresStore(At(r))
    BY <1>12 DEF G!Store, G!Go, GmresStore, At, State, To, Shaped, OnRanks
  <2>4. Decision(At(r)) = GmresStore(At(r))
    BY <2>1, Here DEF Decision, GmresDecision
  <2>5. Now(r) \notin Products \cup Reductions \cup Applications \cup {"return"}
    BY <2>1 DEF Products, Reductions, Applications
  <2> QED
    BY <2>1, <2>2, <2>3, <2>4, <2>5 DEF Decides, Acts
<1>13. CASE G!Columns(r)
  <2>1. Now(r) = "columns" /\ UNCHANGED <<setting, mail, call, result>>
    BY <1>13 DEF G!Columns, Now, G!Now
  <2>2. Alone(r)
    BY <1>13 DEF G!Columns, G!Examine, G!Go, Alone, Shaped, OnRanks
  <2>3. G!Counted(r) = GmresCounted(At(r))
    BY DEF G!Counted, GmresCounted, At, State
  <2>4. iter'[r] = iter[r] + GmresCounted(At(r)) /\ seen'[r] = {}
    BY <1>13, <2>3 DEF G!Columns, Shaped, OnRanks
  <2>5. LET v == G!WithColumns(vec[r], GmresCounted(At(r))) IN
          IF "stop" \in seen[r]
            THEN vec'[r] = v /\ verdict'[r] = "stopped" /\ todo'[r] = <<"A x", "residual norm", "settle">>
          ELSE IF "converged" \in seen[r] \/ G!Full(v, iter[r] + GmresCounted(At(r)))
            THEN vec'[r] = v /\ todo'[r] = <<"update">> /\ verdict'[r] = verdict[r]
          ELSE vec'[r] = G!Widened(v) /\ todo'[r] = G!NextPlan(G!Widened(v)) /\ verdict'[r] = verdict[r]
    BY <1>13, <2>3, <2>4 DEF G!Columns, G!Examine, G!Go, Shaped, OnRanks
  <2>6. At(r)' = GmresColumns(At(r))
    BY <2>1, <2>4, <2>5, Here DEF GmresColumns, GmresExamine, Going, To, At, State
  <2>7. Decision(At(r)) = GmresColumns(At(r))
    BY <2>1, Here DEF Decision, GmresDecision
  <2>8. Now(r) \notin Products \cup Reductions \cup Applications \cup {"return"}
    BY <2>1 DEF Products, Reductions, Applications
  <2> QED
    BY <2>1, <2>2, <2>6, <2>7, <2>8 DEF Decides, Acts
<1>14. CASE G!Update(r)
  <2>1. Now(r) = "update" /\ UNCHANGED <<setting, mail, call, result>>
    BY <1>14 DEF G!Update, Now, G!Now
  <2>2. Alone(r)
    BY <1>14 DEF G!Update, G!Go, Alone, Shaped, OnRanks
  <2>3. At(r)' = GmresUpdate(At(r))
    BY <1>14 DEF G!Update, G!Go, GmresUpdate, At, State, To, Shaped, OnRanks
  <2>4. Decision(At(r)) = GmresUpdate(At(r))
    BY <2>1, Here DEF Decision, GmresDecision
  <2>5. Now(r) \notin Products \cup Reductions \cup Applications \cup {"return"}
    BY <2>1 DEF Products, Reductions, Applications
  <2> QED
    BY <2>1, <2>2, <2>3, <2>4, <2>5 DEF Decides, Acts
<1>15. CASE G!Close(r)
  <2>1. Now(r) = "close" /\ UNCHANGED <<setting, mail, call, result>>
    BY <1>15 DEF G!Close, Now, G!Now
  <2>2. Alone(r)
    BY <1>15 DEF G!Close, G!Finish, G!Go, G!Epilogue, G!Examine, Alone, Shaped, OnRanks
  <2>3. At(r)' = GmresClose(At(r))
    BY <1>15 DEF G!Close, G!Finish, G!Go, G!Epilogue, G!Examine, Epilogue, GmresExamine,
       Going, Closed, GmresClose, At, State, To, Shaped, OnRanks
  <2>4. Decision(At(r)) = GmresClose(At(r))
    BY <2>1, Here DEF Decision, GmresDecision
  <2>5. Now(r) \notin Products \cup Reductions \cup Applications \cup {"return"}
    BY <2>1 DEF Products, Reductions, Applications
  <2> QED
    BY <2>1, <2>2, <2>3, <2>4, <2>5 DEF Decides, Acts
<1>16. CASE G!Reopen(r)
  <2>1. Now(r) = "reopen" /\ UNCHANGED <<setting, mail, call, result>>
    BY <1>16 DEF G!Reopen, Now, G!Now
  <2>2. Alone(r)
    BY <1>16 DEF G!Reopen, G!Examine, G!Go, Alone, Shaped, OnRanks
  <2>3. At(r)' = GmresReopen(At(r))
    BY <1>16 DEF G!Reopen, G!Examine, G!Go, GmresExamine, Going, GmresReopen, At, State,
       To, Shaped, OnRanks
  <2>4. Decision(At(r)) = GmresReopen(At(r))
    BY <2>1, Here DEF Decision, GmresDecision
  <2>5. Now(r) \notin Products \cup Reductions \cup Applications \cup {"return"}
    BY <2>1 DEF Products, Reductions, Applications
  <2> QED
    BY <2>1, <2>2, <2>3, <2>4, <2>5 DEF Decides, Acts
<1>17. CASE G!Settle(r)
  <2>1. Now(r) = "settle" /\ UNCHANGED <<setting, mail, call, result>>
    BY <1>17 DEF G!Settle, Now, G!Now
  <2>2. Alone(r)
    BY <1>17 DEF G!Settle, G!Finish, G!Go, G!Epilogue, Alone, Shaped, OnRanks
  <2>3. G!Reconciled(r) = GmresReconciled(At(r))
    BY DEF G!Reconciled, GmresReconciled, At, State
  <2>4. At(r)' = GmresSettle(At(r))
    BY <1>17, <2>3 DEF G!Settle, G!Finish, G!Go, G!Epilogue, Epilogue, Going, Closed,
       GmresSettle, At, State, To, Shaped, OnRanks
  <2>5. Decision(At(r)) = GmresSettle(At(r))
    BY <2>1, Here DEF Decision, GmresDecision
  <2>6. Now(r) \notin Products \cup Reductions \cup Applications \cup {"return"}
    BY <2>1 DEF Products, Reductions, Applications
  <2> QED
    BY <2>1, <2>2, <2>4, <2>5, <2>6 DEF Decides, Acts
<1> QED
  BY <1>1, <1>2, <1>3, <1>4, <1>5, <1>6, <1>7, <1>8, <1>9, <1>10, <1>11, <1>12, <1>13,
     <1>14, <1>15, <1>16, <1>17 DEF G!Rank

LEMMA GmresMeets ==
  ASSUME G!Meet
  PROVE  Meets
BY DEF Meets, Now, None, Reductions, G!Meet, G!Reduce, G!Reads, G!Now, G!None,
   G!Reductions
(* Fgmres                                                                  *)

LEMMA FgmresAlike ==
  ASSUME Is("fgmres"), AskedAlike(setting), NEW r \in Ranks
  PROVE  F!Chosen(r) = F!Chosen(Someone)
<1>1. setting.plan[r] = setting.plan[Someone]
  BY SomeoneIsOne DEF AskedAlike, Is
<1> QED
  BY <1>1 DEF F!Chosen

LEMMA FgmresActs ==
  ASSUME Is("fgmres"), AskedAlike(setting), Shaped, NEW r \in Ranks, F!Rank(r), broken' = {}
  PROVE  Acts(r)
<1> USE DEF Is
<1>1. CASE F!SendGhosts(r)
  BY <1>1 DEF Acts, SendGhosts, F!SendGhosts, Now, F!Now, Products, F!Products, Label,
     F!Label, None, F!None, Neighbours, F!Neighbours
<1>2. CASE F!ReceiveGhosts(r, F!AfterProduct(vec[r], F!Now(r)))
  <2>1. Multiplied(vec[r], Now(r)) = F!AfterProduct(vec[r], F!Now(r))
    BY DEF Multiplied, Now, F!Now
  <2> QED
    BY <1>2, <2>1 DEF Acts, ReceiveGhosts, F!ReceiveGhosts, Now, F!Now, Products,
       F!Products, None, F!None, Neighbours, F!Neighbours, Go, F!Go
<1>3. CASE F!Contribute(r, F!BeforeReduction(vec[r], F!Now(r)))
  <2>1. Reduced(vec[r], Now(r)) = F!BeforeReduction(vec[r], F!Now(r))
    BY DEF Reduced, Now, F!Now
  <2> QED
    BY <1>3, <2>1 DEF Acts, Contribute, F!Contribute, Now, F!Now, Reductions,
       F!Reductions, None, F!None, Label, F!Label
<1>4. CASE F!Precondition(r, F!Applied(vec[r], F!Now(r)))
  <2>1. Preconditioned(vec[r], Now(r)) = F!Applied(vec[r], F!Now(r))
    BY DEF Preconditioned, Now, F!Now
  <2> QED
    BY <1>4, <2>1 DEF Acts, Precondition, F!Precondition, Now, F!Now, Applications,
       F!Applications, Go, F!Go
<1>5. CASE F!Return(r)
  BY <1>5 DEF Acts, Return, F!Return, Now, F!Now, Go, F!Go
<1>6. ~F!BreakDown(r)
  BY DEF F!BreakDown
<1>7. CASE F!Begin(r)
  <2>1. Now(r) = "begin" /\ result[r] = None /\ UNCHANGED <<setting, mail, call, result>>
    BY <1>7 DEF F!Begin, Now, None, F!None
  <2>2. Alone(r)
    BY <1>7 DEF F!Begin, F!Go, Alone, Shaped, OnRanks
  <2>3. At(r)' = FgmresBegin(At(r))
    BY <1>7 DEF F!Begin, F!Go, FgmresBegin, At, State, To, Shaped, OnRanks
  <2>4. Decision(At(r)) = FgmresBegin(At(r))
    BY <2>1, Here DEF Decision, FgmresDecision
  <2>5. Now(r) \notin Products \cup Reductions \cup Applications \cup {"return"}
    BY <2>1 DEF Products, Reductions, Applications
  <2> QED
    BY <2>1, <2>2, <2>3, <2>4, <2>5 DEF Decides, Acts
<1>8. CASE F!Open(r)
  <2>1. Now(r) = "open" /\ UNCHANGED <<setting, mail, call, result>>
    BY <1>8 DEF F!Open, Now, F!Now
  <2>2. Alone(r)
    BY <1>8 DEF F!Open, F!Finish, F!Go, F!Epilogue, Alone, Shaped, OnRanks
  <2>3. At(r)' = FgmresOpen(At(r))
    BY <1>8, FgmresAlike DEF F!Open, F!Finish, F!Go, F!Epilogue, Epilogue, Going,
       Closed, FgmresOn, FgmresOpen, At, State, To, Shaped, OnRanks
  <2>4. Decision(At(r)) = FgmresOpen(At(r))
    BY <2>1, Here DEF Decision, FgmresDecision
  <2>5. Now(r) \notin Products \cup Reductions \cup Applications \cup {"return"}
    BY <2>1 DEF Products, Reductions, Applications
  <2> QED
    BY <2>1, <2>2, <2>3, <2>4, <2>5 DEF Decides, Acts
<1>9. CASE F!Again(r, setting.orthog)
  <2>1. Now(r) = "again?" /\ UNCHANGED <<setting, mail, call, result>>
    BY <1>9 DEF F!Again, Now, F!Now
  <2>2. Alone(r)
    BY <1>9 DEF F!Again, F!Go, Alone, Shaped, OnRanks
  <2>3. At(r)' = FgmresAgain(At(r))
    BY <1>9 DEF F!Again, F!Go, FgmresAgain, At, State, To, Shaped, OnRanks
  <2>4. Decision(At(r)) = FgmresAgain(At(r))
    BY <2>1, Here DEF Decision, FgmresDecision
  <2>5. Now(r) \notin Products \cup Reductions \cup Applications \cup {"return"}
    BY <2>1 DEF Products, Reductions, Applications
  <2> QED
    BY <2>1, <2>2, <2>3, <2>4, <2>5 DEF Decides, Acts
<1>10. CASE F!Column(r)
  <2>1. Now(r) = "column" /\ UNCHANGED <<setting, mail, call, result>>
    BY <1>10 DEF F!Column, Now, F!Now
  <2>2. Alone(r)
    BY <1>10 DEF F!Column, F!Finish, F!Go, F!Epilogue, Alone, Shaped, OnRanks
  <2>3. At(r)' = FgmresColumn(At(r))
    BY <1>10 DEF F!Column, F!Finish, F!Go, F!Epilogue, Epilogue, FgmresColumn, At,
       State, To, Shaped, OnRanks
  <2>4. Decision(At(r)) = FgmresColumn(At(r))
    BY <2>1, Here DEF Decision, FgmresDecision
  <2>5. Now(r) \notin Products \cup Reductions \cup Applications \cup {"return"}
    BY <2>1 DEF Products, Reductions, Applications
  <2> QED
    BY <2>1, <2>2, <2>3, <2>4, <2>5 DEF Decides, Acts
<1>11. CASE F!Weigh(r)
  <2>1. Now(r) = "weigh" /\ UNCHANGED <<setting, mail, call, result>>
    BY <1>11 DEF F!Weigh, Now, F!Now
  <2>2. Alone(r)
    <3>1. todo' = [todo EXCEPT ![r] = todo'[r]]
      BY ZenonT(60), <1>11 DEF F!Weigh, F!Go, Shaped, OnRanks
    <3>2. seen' = [seen EXCEPT ![r] = seen'[r]]
      BY ZenonT(60), <1>11 DEF F!Weigh, F!Go, Shaped, OnRanks
    <3>3. vec' = [vec EXCEPT ![r] = vec'[r]]
      BY ZenonT(60), <1>11 DEF F!Weigh, F!Go, Shaped, OnRanks
    <3>4. verdict' = [verdict EXCEPT ![r] = verdict'[r]]
      BY ZenonT(60), <1>11 DEF F!Weigh, F!Go, Shaped, OnRanks
    <3>5. iter' = [iter EXCEPT ![r] = iter'[r]]
      BY <1>11 DEF F!Weigh, F!Go, Shaped, OnRanks
    <3> QED
      BY <2>1, <3>1, <3>2, <3>3, <3>4, <3>5 DEF Alone, Shaped, OnRanks
  <2>3. F!RestartsNow(r) <=> FgmresRestarts(At(r).vec)
    BY DEF F!RestartsNow, FgmresRestarts, At, State
  <2>4. At(r)' = FgmresWeigh(At(r))
    BY <1>11, FgmresAlike, <2>3 DEF F!Weigh, F!Go, FgmresOn, FgmresWeigh, At, State, To,
       Shaped, OnRanks
  <2>5. Decision(At(r)) = FgmresWeigh(At(r))
    BY <2>1, Here DEF Decision, FgmresDecision
  <2>6. Now(r) \notin Products \cup Reductions \cup Applications \cup {"return"}
    BY <2>1 DEF Products, Reductions, Applications
  <2> QED
    BY <2>1, <2>2, <2>4, <2>5, <2>6 DEF Decides, Acts
<1>12. CASE F!Solve(r)
  <2>1. Now(r) = "solve" /\ UNCHANGED <<setting, mail, call, result>>
    BY <1>12 DEF F!Solve, Now, F!Now
  <2>2. Alone(r)
    BY <1>12 DEF F!Solve, F!Finish, F!Go, F!Epilogue, Alone, Shaped, OnRanks
  <2>3. At(r)' = FgmresSolve(At(r))
    BY <1>12 DEF F!Solve, F!Finish, F!Go, F!Epilogue, Epilogue, Going, Closed,
       FgmresSolve, At, State, To, Shaped, OnRanks
  <2>4. Decision(At(r)) = FgmresSolve(At(r))
    BY <2>1, Here DEF Decision, FgmresDecision
  <2>5. Now(r) \notin Products \cup Reductions \cup Applications \cup {"return"}
    BY <2>1 DEF Products, Reductions, Applications
  <2> QED
    BY <2>1, <2>2, <2>3, <2>4, <2>5 DEF Decides, Acts
<1>13. CASE F!Update(r)
  <2>1. Now(r) = "update" /\ UNCHANGED <<setting, mail, call, result>>
    BY <1>13 DEF F!Update, Now, F!Now
  <2>2. Alone(r)
    BY <1>13 DEF F!Update, F!Go, Alone, Shaped, OnRanks
  <2>3. At(r)' = FgmresUpdate(At(r))
    BY <1>13 DEF F!Update, F!Go, FgmresUpdate, At, State, To, Shaped, OnRanks
  <2>4. Decision(At(r)) = FgmresUpdate(At(r))
    BY <2>1, Here DEF Decision, FgmresDecision
  <2>5. Now(r) \notin Products \cup Reductions \cup Applications \cup {"return"}
    BY <2>1 DEF Products, Reductions, Applications
  <2> QED
    BY <2>1, <2>2, <2>3, <2>4, <2>5 DEF Decides, Acts
<1>14. CASE F!Close(r)
  <2>1. Now(r) = "close" /\ UNCHANGED <<setting, mail, call, result>>
    BY <1>14 DEF F!Close, Now, F!Now
  <2>2. Alone(r)
    BY <1>14 DEF F!Close, F!Finish, F!Go, F!Epilogue, Alone, Shaped, OnRanks
  <2>3. At(r)' = FgmresClose(At(r))
    BY <1>14 DEF F!Close, F!Finish, F!Go, F!Epilogue, Epilogue, Going, Closed,
       FgmresClose, At, State, To, Shaped, OnRanks
  <2>4. Decision(At(r)) = FgmresClose(At(r))
    BY <2>1, Here DEF Decision, FgmresDecision
  <2>5. Now(r) \notin Products \cup Reductions \cup Applications \cup {"return"}
    BY <2>1 DEF Products, Reductions, Applications
  <2> QED
    BY <2>1, <2>2, <2>3, <2>4, <2>5 DEF Decides, Acts
<1>15. CASE F!Reopen(r)
  <2>1. Now(r) = "reopen" /\ UNCHANGED <<setting, mail, call, result>>
    BY <1>15 DEF F!Reopen, Now, F!Now
  <2>2. Alone(r)
    BY <1>15 DEF F!Reopen, F!Go, Alone, Shaped, OnRanks
  <2>3. At(r)' = FgmresReopen(At(r))
    BY <1>15, FgmresAlike DEF F!Reopen, F!Go, FgmresOn, FgmresReopen, At, State, To,
       Shaped, OnRanks
  <2>4. Decision(At(r)) = FgmresReopen(At(r))
    BY <2>1, Here DEF Decision, FgmresDecision
  <2>5. Now(r) \notin Products \cup Reductions \cup Applications \cup {"return"}
    BY <2>1 DEF Products, Reductions, Applications
  <2> QED
    BY <2>1, <2>2, <2>3, <2>4, <2>5 DEF Decides, Acts
<1> QED
  BY <1>1, <1>2, <1>3, <1>4, <1>5, <1>6, <1>7, <1>8, <1>9, <1>10, <1>11, <1>12, <1>13,
     <1>14, <1>15 DEF F!Rank

LEMMA FgmresMeets ==
  ASSUME F!Meet
  PROVE  Meets
BY DEF Meets, Now, None, Reductions, F!Meet, F!Reduce, F!Reads, F!Now, F!None,
   F!Reductions
(* BiCgStab                                                                *)

LEMMA BiCgStabAlike ==
  ASSUME Is("bicgstab"), AskedAlike(setting), NEW r \in Ranks
  PROVE  B!SkipsGuess(r) <=> B!SkipsGuess(Someone)
BY SomeoneIsOne DEF AskedAlike, Is, B!SkipsGuess

LEMMA BiCgStabActs ==
  ASSUME Is("bicgstab"), AskedAlike(setting), Shaped, NEW r \in Ranks, B!Rank(r), broken' = {}
  PROVE  Acts(r)
<1> USE DEF Is
<1>1. CASE B!SendGhosts(r)
  BY <1>1 DEF Acts, SendGhosts, B!SendGhosts, Now, B!Now, Products, B!Products, Label,
     B!Label, None, B!None, Neighbours, B!Neighbours
<1>2. CASE B!ReceiveGhosts(r, B!AfterProduct(vec[r], B!Now(r)))
  <2>1. Multiplied(vec[r], Now(r)) = B!AfterProduct(vec[r], B!Now(r))
    BY DEF Multiplied, Now, B!Now
  <2> QED
    BY <1>2, <2>1 DEF Acts, ReceiveGhosts, B!ReceiveGhosts, Now, B!Now, Products,
       B!Products, None, B!None, Neighbours, B!Neighbours, Go, B!Go
<1>3. CASE B!Contribute(r, B!BeforeReduction(vec[r], B!Now(r)))
  <2>1. Reduced(vec[r], Now(r)) = B!BeforeReduction(vec[r], B!Now(r))
    BY DEF Reduced, Now, B!Now
  <2> QED
    BY <1>3, <2>1 DEF Acts, Contribute, B!Contribute, Now, B!Now, Reductions,
       B!Reductions, None, B!None, Label, B!Label
<1>4. CASE B!Precondition(r, B!Applied(vec[r], B!Now(r)))
  <2>1. Preconditioned(vec[r], Now(r)) = B!Applied(vec[r], B!Now(r))
    BY DEF Preconditioned, Now, B!Now
  <2> QED
    BY <1>4, <2>1 DEF Acts, Precondition, B!Precondition, Now, B!Now, Applications,
       B!Applications, Go, B!Go
<1>5. CASE B!Return(r)
  BY <1>5 DEF Acts, Return, B!Return, Now, B!Now, Go, B!Go
<1>6. ~B!BreakDown(r)
  BY DEF B!BreakDown
<1>7. CASE B!Begin(r)
  <2>1. Now(r) = "begin" /\ result[r] = None /\ UNCHANGED <<setting, mail, call, result>>
    BY <1>7 DEF B!Begin, Now, None, B!None
  <2>2. Alone(r)
    BY <1>7 DEF B!Begin, B!Go, Alone, Shaped, OnRanks
  <2>3. At(r)' = BiCgStabBegin(At(r))
    BY <1>7, BiCgStabAlike DEF B!Begin, B!Go, BiCgStabBegin, At, State, To, Shaped,
       OnRanks
  <2>4. Decision(At(r)) = BiCgStabBegin(At(r))
    BY <2>1, Here DEF Decision, BiCgStabDecision
  <2>5. Now(r) \notin Products \cup Reductions \cup Applications \cup {"return"}
    BY <2>1 DEF Products, Reductions, Applications
  <2> QED
    BY <2>1, <2>2, <2>3, <2>4, <2>5 DEF Decides, Acts
<1>8. CASE B!Open(r)
  <2>1. Now(r) = "open" /\ UNCHANGED <<setting, mail, call, result>>
    BY <1>8 DEF B!Open, Now, B!Now
  <2>2. Alone(r)
    BY <1>8 DEF B!Open, B!Finish, B!Go, B!Epilogue, B!NextIteration, Alone, Shaped,
       OnRanks
  <2>3. At(r)' = BiCgStabOpen(At(r))
    BY <1>8 DEF B!Open, B!Finish, B!Go, B!Epilogue, B!NextIteration, Epilogue,
       BiCgStabNext, Closed, BiCgStabOpen, At, State, To, Shaped, OnRanks
  <2>4. Decision(At(r)) = BiCgStabOpen(At(r))
    BY <2>1, Here DEF Decision, BiCgStabDecision
  <2>5. Now(r) \notin Products \cup Reductions \cup Applications \cup {"return"}
    BY <2>1 DEF Products, Reductions, Applications
  <2> QED
    BY <2>1, <2>2, <2>3, <2>4, <2>5 DEF Decides, Acts
<1>9. CASE B!Turn(r)
  <2>1. Now(r) = "turn" /\ UNCHANGED <<setting, mail, call, result>>
    BY <1>9 DEF B!Turn, Now, B!Now
  <2>2. Alone(r)
    BY ZenonT(60), <1>9 DEF B!Turn, B!Go, B!Examine, Alone, Shaped, OnRanks
  <2>3. At(r)' = BiCgStabTurn(At(r))
    BY <1>9 DEF B!Turn, B!Go, B!Examine, Going, BiCgStabExamine, BiCgStabTurn, At,
       State, To, Shaped, OnRanks
  <2>4. Decision(At(r)) = BiCgStabTurn(At(r))
    BY <2>1, Here DEF Decision, BiCgStabDecision
  <2>5. Now(r) \notin Products \cup Reductions \cup Applications \cup {"return"}
    BY <2>1 DEF Products, Reductions, Applications
  <2> QED
    BY <2>1, <2>2, <2>3, <2>4, <2>5 DEF Decides, Acts
<1>10. CASE B!Refreshed(r)
  <2>1. Now(r) = "refreshed" /\ UNCHANGED <<setting, mail, call, result>>
    BY <1>10 DEF B!Refreshed, Now, B!Now
  <2>2. Alone(r)
    BY <1>10 DEF B!Refreshed, B!Go, B!NextIteration, Alone, Shaped, OnRanks
  <2>3. At(r)' = BiCgStabRefreshed(At(r))
    BY <1>10 DEF B!Refreshed, B!Go, B!NextIteration, BiCgStabNext, BiCgStabRefreshed,
       At, State, To, Shaped, OnRanks
  <2>4. Decision(At(r)) = BiCgStabRefreshed(At(r))
    BY <2>1, Here DEF Decision, BiCgStabDecision
  <2>5. Now(r) \notin Products \cup Reductions \cup Applications \cup {"return"}
    BY <2>1 DEF Products, Reductions, Applications
  <2> QED
    BY <2>1, <2>2, <2>3, <2>4, <2>5 DEF Decides, Acts
<1>11. CASE B!Direction(r)
  <2>1. Now(r) = "direction" /\ UNCHANGED <<setting, mail, call, result>>
    BY <1>11 DEF B!Direction, Now, B!Now
  <2>2. Alone(r)
    BY <1>11 DEF B!Direction, B!Go, Alone, Shaped, OnRanks
  <2>3. At(r)' = BiCgStabDirection(At(r))
    BY <1>11 DEF B!Direction, B!Go, BiCgStabDirection, At, State, To, Shaped, OnRanks
  <2>4. Decision(At(r)) = BiCgStabDirection(At(r))
    BY <2>1, Here DEF Decision, BiCgStabDecision
  <2>5. Now(r) \notin Products \cup Reductions \cup Applications \cup {"return"}
    BY <2>1 DEF Products, Reductions, Applications
  <2> QED
    BY <2>1, <2>2, <2>3, <2>4, <2>5 DEF Decides, Acts
<1>12. CASE B!Bend(r)
  <2>1. Now(r) = "bend" /\ UNCHANGED <<setting, mail, call, result>>
    BY <1>12 DEF B!Bend, Now, B!Now
  <2>2. Alone(r)
    BY <1>12 DEF B!Bend, B!Go, B!Examine, Alone, Shaped, OnRanks
  <2>3. At(r)' = BiCgStabBend(At(r))
    BY <1>12 DEF B!Bend, B!Go, B!Examine, Going, BiCgStabExamine, BiCgStabBend, At,
       State, To, Shaped, OnRanks
  <2>4. Decision(At(r)) = BiCgStabBend(At(r))
    BY <2>1, Here DEF Decision, BiCgStabDecision
  <2>5. Now(r) \notin Products \cup Reductions \cup Applications \cup {"return"}
    BY <2>1 DEF Products, Reductions, Applications
  <2> QED
    BY <2>1, <2>2, <2>3, <2>4, <2>5 DEF Decides, Acts
<1>13. CASE B!Shorten(r)
  <2>1. Now(r) = "shorten" /\ UNCHANGED <<setting, mail, call, result>>
    BY <1>13 DEF B!Shorten, Now, B!Now
  <2>2. Alone(r)
    BY <1>13 DEF B!Shorten, B!Finish, B!Go, B!Epilogue, B!Examine, Alone, Shaped,
       OnRanks
  <2>3. At(r)' = BiCgStabShorten(At(r))
    BY <1>13 DEF B!Shorten, B!Finish, B!Go, B!Epilogue, B!Examine, Epilogue,
       BiCgStabExamine, Closed, Going, BiCgStabShorten, At, State, To, Shaped, OnRanks
  <2>4. Decision(At(r)) = BiCgStabShorten(At(r))
    BY <2>1, Here DEF Decision, BiCgStabDecision
  <2>5. Now(r) \notin Products \cup Reductions \cup Applications \cup {"return"}
    BY <2>1 DEF Products, Reductions, Applications
  <2> QED
    BY <2>1, <2>2, <2>3, <2>4, <2>5 DEF Decides, Acts
<1>14. CASE B!Try(r)
  <2>1. Now(r) = "try" /\ UNCHANGED <<setting, mail, call, result>>
    BY <1>14 DEF B!Try, Now, B!Now
  <2>2. Alone(r)
    BY <1>14 DEF B!Try, B!Finish, B!Go, B!Epilogue, Alone, Shaped, OnRanks
  <2>3. At(r)' = BiCgStabTry(At(r))
    BY <1>14 DEF B!Try, B!Finish, B!Go, B!Epilogue, Epilogue, Closed, Going,
       BiCgStabTry, At, State, To, Shaped, OnRanks
  <2>4. Decision(At(r)) = BiCgStabTry(At(r))
    BY <2>1, Here DEF Decision, BiCgStabDecision
  <2>5. Now(r) \notin Products \cup Reductions \cup Applications \cup {"return"}
    BY <2>1 DEF Products, Reductions, Applications
  <2> QED
    BY <2>1, <2>2, <2>3, <2>4, <2>5 DEF Decides, Acts
<1>15. CASE B!Damp(r)
  <2>1. Now(r) = "damp" /\ UNCHANGED <<setting, mail, call, result>>
    BY <1>15 DEF B!Damp, Now, B!Now
  <2>2. Alone(r)
    BY <1>15 DEF B!Damp, B!Go, B!Examine, Alone, Shaped, OnRanks
  <2>3. At(r)' = BiCgStabDamp(At(r))
    BY <1>15 DEF B!Damp, B!Go, B!Examine, Going, BiCgStabExamine, BiCgStabDamp, At,
       State, To, Shaped, OnRanks
  <2>4. Decision(At(r)) = BiCgStabDamp(At(r))
    BY <2>1, Here DEF Decision, BiCgStabDecision
  <2>5. Now(r) \notin Products \cup Reductions \cup Applications \cup {"return"}
    BY <2>1 DEF Products, Reductions, Applications
  <2> QED
    BY <2>1, <2>2, <2>3, <2>4, <2>5 DEF Decides, Acts
<1>16. CASE B!Rescue(r)
  <2>1. Now(r) = "rescue" /\ UNCHANGED <<setting, mail, call, result>>
    BY <1>16 DEF B!Rescue, Now, B!Now
  <2>2. Alone(r)
    BY <1>16 DEF B!Rescue, B!Go, B!Examine, Alone, Shaped, OnRanks
  <2>3. At(r)' = BiCgStabRescue(At(r))
    BY <1>16 DEF B!Rescue, B!Go, B!Examine, BiCgStabExamine, BiCgStabRescue, At, State,
       To, Shaped, OnRanks
  <2>4. Decision(At(r)) = BiCgStabRescue(At(r))
    BY <2>1, Here DEF Decision, BiCgStabDecision
  <2>5. Now(r) \notin Products \cup Reductions \cup Applications \cup {"return"}
    BY <2>1 DEF Products, Reductions, Applications
  <2> QED
    BY <2>1, <2>2, <2>3, <2>4, <2>5 DEF Decides, Acts
<1>17. CASE B!Step(r)
  <2>1. Now(r) = "step" /\ UNCHANGED <<setting, mail, call, result>>
    BY <1>17 DEF B!Step, Now, B!Now
  <2>2. Alone(r)
    BY <1>17 DEF B!Step, B!Go, Alone, Shaped, OnRanks
  <2>3. At(r)' = BiCgStabStep(At(r))
    BY <1>17 DEF B!Step, B!Go, BiCgStabStep, At, State, To, Shaped, OnRanks
  <2>4. Decision(At(r)) = BiCgStabStep(At(r))
    BY <2>1, Here DEF Decision, BiCgStabDecision
  <2>5. Now(r) \notin Products \cup Reductions \cup Applications \cup {"return"}
    BY <2>1 DEF Products, Reductions, Applications
  <2> QED
    BY <2>1, <2>2, <2>3, <2>4, <2>5 DEF Decides, Acts
<1>18. CASE B!Check(r)
  <2>1. Now(r) = "check" /\ UNCHANGED <<setting, mail, call, result>>
    BY <1>18 DEF B!Check, Now, B!Now
  <2>2. Alone(r)
    BY <1>18 DEF B!Check, B!Finish, B!Go, B!Epilogue, B!Examine, B!NextIteration, Alone,
       Shaped, OnRanks
  <2>3. At(r)' = BiCgStabCheck(At(r))
    BY <1>18 DEF B!Check, B!Finish, B!Go, B!Epilogue, B!Examine, B!NextIteration,
       Epilogue, BiCgStabExamine, BiCgStabNext, Closed, Going, BiCgStabCheck, At, State,
       To, Shaped, OnRanks
  <2>4. Decision(At(r)) = BiCgStabCheck(At(r))
    BY <2>1, Here DEF Decision, BiCgStabDecision
  <2>5. Now(r) \notin Products \cup Reductions \cup Applications \cup {"return"}
    BY <2>1 DEF Products, Reductions, Applications
  <2> QED
    BY <2>1, <2>2, <2>3, <2>4, <2>5 DEF Decides, Acts
<1>19. CASE B!Settle(r)
  <2>1. Now(r) = "settle" /\ UNCHANGED <<setting, mail, call, result>>
    BY <1>19 DEF B!Settle, Now, B!Now
  <2>2. Alone(r)
    BY <1>19 DEF B!Settle, B!Finish, B!Go, B!Epilogue, Alone, Shaped, OnRanks
  <2>3. At(r)' = BiCgStabSettle(At(r))
    BY <1>19 DEF B!Settle, B!Finish, B!Go, B!Epilogue, Epilogue, Closed, BiCgStabSettle,
       At, State, To, Shaped, OnRanks
  <2>4. Decision(At(r)) = BiCgStabSettle(At(r))
    BY <2>1, Here DEF Decision, BiCgStabDecision
  <2>5. Now(r) \notin Products \cup Reductions \cup Applications \cup {"return"}
    BY <2>1 DEF Products, Reductions, Applications
  <2> QED
    BY <2>1, <2>2, <2>3, <2>4, <2>5 DEF Decides, Acts
<1> QED
  BY <1>1, <1>2, <1>3, <1>4, <1>5, <1>6, <1>7, <1>8, <1>9, <1>10, <1>11, <1>12, <1>13,
     <1>14, <1>15, <1>16, <1>17, <1>18, <1>19 DEF B!Rank

LEMMA BiCgStabMeets ==
  ASSUME B!Meet
  PROVE  Meets
BY DEF Meets, Now, None, Reductions, B!Meet, B!Reduce, B!Reads, B!Now, B!None,
   B!Reductions
(* PcaGmres                                                                *)

LEMMA PcaActs ==
  ASSUME Is("pcagmres"), AskedAlike(setting), Shaped, NEW r \in Ranks, P!Rank(r), broken' = {}
  PROVE  Acts(r)
<1> USE DEF Is
<1>1. CASE P!SendGhosts(r)
  BY <1>1 DEF Acts, SendGhosts, P!SendGhosts, Now, P!Now, Products, P!Products, Label,
     P!Label, None, P!None, Neighbours, P!Neighbours
<1>2. CASE P!ReceiveGhosts(r, P!AfterProduct(vec[r], P!Now(r)))
  <2>1. Multiplied(vec[r], Now(r)) = P!AfterProduct(vec[r], P!Now(r))
    BY DEF Multiplied, Now, P!Now
  <2> QED
    BY <1>2, <2>1 DEF Acts, ReceiveGhosts, P!ReceiveGhosts, Now, P!Now, Products,
       P!Products, None, P!None, Neighbours, P!Neighbours, Go, P!Go
<1>3. CASE P!Contribute(r, P!BeforeReduction(vec[r], P!Now(r)))
  <2>1. Reduced(vec[r], Now(r)) = P!BeforeReduction(vec[r], P!Now(r))
    BY DEF Reduced, Now, P!Now
  <2> QED
    BY <1>3, <2>1 DEF Acts, Contribute, P!Contribute, Now, P!Now, Reductions,
       P!Reductions, None, P!None, Label, P!Label
<1>4. CASE P!Precondition(r, P!Applied(vec[r], P!Now(r)))
  <2>1. Preconditioned(vec[r], Now(r)) = P!Applied(vec[r], P!Now(r))
    BY DEF Preconditioned, Now, P!Now
  <2> QED
    BY <1>4, <2>1 DEF Acts, Precondition, P!Precondition, Now, P!Now, Applications,
       P!Applications, Go, P!Go
<1>5. CASE P!Return(r)
  BY <1>5 DEF Acts, Return, P!Return, Now, P!Now, Go, P!Go
<1>6. ~P!BreakDown(r)
  BY DEF P!BreakDown
<1>7. CASE P!Begin(r)
  <2>1. Now(r) = "begin" /\ result[r] = None /\ UNCHANGED <<setting, mail, call, result>>
    BY <1>7 DEF P!Begin, Now, None, P!None
  <2>2. Alone(r)
    BY <1>7 DEF P!Begin, P!Go, Alone, Shaped, OnRanks
  <2>3. At(r)' = PcaBegin(At(r))
    BY <1>7 DEF P!Begin, P!Go, PcaBegin, At, State, To, Shaped, OnRanks
  <2>4. Decision(At(r)) = PcaBegin(At(r))
    BY <2>1, Here DEF Decision, PcaDecision
  <2>5. Now(r) \notin Products \cup Reductions \cup Applications \cup {"return"}
    BY <2>1 DEF Products, Reductions, Applications
  <2> QED
    BY <2>1, <2>2, <2>3, <2>4, <2>5 DEF Decides, Acts
<1>8. CASE P!Open(r)
  <2>1. Now(r) = "open" /\ UNCHANGED <<setting, mail, call, result>>
    BY <1>8 DEF P!Open, Now, P!Now
  <2>2. Alone(r)
    BY <1>8 DEF P!Open, P!Finish, P!Go, P!Epilogue, Alone, Shaped, OnRanks
  <2>3. At(r)' = PcaOpen(At(r))
    BY <1>8 DEF P!Open, P!Finish, P!Go, P!Epilogue, Epilogue, Closed, Going, PcaOpen,
       At, State, To, Shaped, OnRanks
  <2>4. Decision(At(r)) = PcaOpen(At(r))
    BY <2>1, Here DEF Decision, PcaDecision
  <2>5. Now(r) \notin Products \cup Reductions \cup Applications \cup {"return"}
    BY <2>1 DEF Products, Reductions, Applications
  <2> QED
    BY <2>1, <2>2, <2>3, <2>4, <2>5 DEF Decides, Acts
<1>9. CASE P!Column(r)
  <2>1. Now(r) = "column" /\ UNCHANGED <<setting, mail, call, result>>
    BY <1>9 DEF P!Column, Now, P!Now
  <2>2. Alone(r)
    BY <1>9 DEF P!Column, P!Go, Alone, Shaped, OnRanks
  <2>3. At(r)' = PcaColumn(At(r))
    BY <1>9 DEF P!Column, P!Go, Going, PcaColumn, At, State, To, Shaped, OnRanks
  <2>4. Decision(At(r)) = PcaColumn(At(r))
    BY <2>1, Here DEF Decision, PcaDecision
  <2>5. Now(r) \notin Products \cup Reductions \cup Applications \cup {"return"}
    BY <2>1 DEF Products, Reductions, Applications
  <2> QED
    BY <2>1, <2>2, <2>3, <2>4, <2>5 DEF Decides, Acts
<1>10. CASE P!Update(r)
  <2>1. Now(r) = "update" /\ UNCHANGED <<setting, mail, call, result>>
    BY <1>10 DEF P!Update, Now, P!Now
  <2>2. Alone(r)
    BY <1>10 DEF P!Update, P!Go, Alone, Shaped, OnRanks
  <2>3. At(r)' = PcaUpdate(At(r))
    BY <1>10 DEF P!Update, P!Go, PcaUpdate, At, State, To, Shaped, OnRanks
  <2>4. Decision(At(r)) = PcaUpdate(At(r))
    BY <2>1, Here DEF Decision, PcaDecision
  <2>5. Now(r) \notin Products \cup Reductions \cup Applications \cup {"return"}
    BY <2>1 DEF Products, Reductions, Applications
  <2> QED
    BY <2>1, <2>2, <2>3, <2>4, <2>5 DEF Decides, Acts
<1>11. CASE P!Close(r)
  <2>1. Now(r) = "close" /\ UNCHANGED <<setting, mail, call, result>>
    BY <1>11 DEF P!Close, Now, P!Now
  <2>2. Alone(r)
    BY <1>11 DEF P!Close, P!Go, Alone, Shaped, OnRanks
  <2>3. At(r)' = PcaClose(At(r))
    BY <1>11 DEF P!Close, P!Go, Going, PcaClose, At, State, To, Shaped, OnRanks
  <2>4. Decision(At(r)) = PcaClose(At(r))
    BY <2>1, Here DEF Decision, PcaDecision
  <2>5. Now(r) \notin Products \cup Reductions \cup Applications \cup {"return"}
    BY <2>1 DEF Products, Reductions, Applications
  <2> QED
    BY <2>1, <2>2, <2>3, <2>4, <2>5 DEF Decides, Acts
<1>12. CASE P!Settle(r)
  <2>1. Now(r) = "settle" /\ UNCHANGED <<setting, mail, call, result>>
    BY <1>12 DEF P!Settle, Now, P!Now
  <2>2. Alone(r)
    BY <1>12 DEF P!Settle, P!Finish, P!Go, P!Epilogue, Alone, Shaped, OnRanks
  <2>3. At(r)' = PcaSettle(At(r))
    BY <1>12 DEF P!Settle, P!Finish, P!Go, P!Epilogue, Epilogue, Closed, PcaSettle, At,
       State, To, Shaped, OnRanks
  <2>4. Decision(At(r)) = PcaSettle(At(r))
    BY <2>1, Here DEF Decision, PcaDecision
  <2>5. Now(r) \notin Products \cup Reductions \cup Applications \cup {"return"}
    BY <2>1 DEF Products, Reductions, Applications
  <2> QED
    BY <2>1, <2>2, <2>3, <2>4, <2>5 DEF Decides, Acts
<1> QED
  BY <1>1, <1>2, <1>3, <1>4, <1>5, <1>6, <1>7, <1>8, <1>9, <1>10, <1>11, <1>12 DEF P!Rank

LEMMA PcaMeets ==
  ASSUME P!Meet
  PROVE  Meets
BY DEF Meets, Now, None, Reductions, P!Meet, P!Reduce, P!Reads, P!Now, P!None,
   P!Reductions
(* Idrs                                                                    *)

LEMMA IdrAlike ==
  ASSUME Is("idrs"), AskedAlike(setting), NEW r \in Ranks
  PROVE  I!StartPlan(r) = I!StartPlan(Someone)
<1>1. setting.guess[r] = setting.guess[Someone]
  BY SomeoneIsOne DEF AskedAlike, Is
<1> QED
  BY <1>1 DEF I!StartPlan, I!If

LEMMA IdrActs ==
  ASSUME Is("idrs"), AskedAlike(setting), Shaped, NEW r \in Ranks, I!Rank(r), broken' = {}
  PROVE  Acts(r)
<1> USE DEF Is
<1>1. CASE I!SendGhosts(r)
  BY <1>1 DEF Acts, SendGhosts, I!SendGhosts, Now, I!Now, Products, I!Products, Label,
     I!Label, None, I!None, Neighbours, I!Neighbours
<1>2. CASE I!ReceiveGhosts(r, I!AfterProduct(vec[r], I!Now(r)))
  <2>1. Multiplied(vec[r], Now(r)) = I!AfterProduct(vec[r], I!Now(r))
    BY DEF Multiplied, Now, I!Now
  <2> QED
    BY <1>2, <2>1 DEF Acts, ReceiveGhosts, I!ReceiveGhosts, Now, I!Now, Products,
       I!Products, None, I!None, Neighbours, I!Neighbours, Go, I!Go
<1>3. CASE I!Contribute(r, vec[r])
  <2>1. Reduced(vec[r], Now(r)) = vec[r]
    BY DEF Reduced, Now, I!Now
  <2> QED
    BY <1>3, <2>1 DEF Acts, Contribute, I!Contribute, Now, I!Now, Reductions,
       I!Reductions, None, I!None, Label, I!Label
<1>4. CASE I!Precondition(r, vec[r])
  <2>1. Preconditioned(vec[r], Now(r)) = vec[r]
    BY DEF Preconditioned, Now, I!Now
  <2> QED
    BY <1>4, <2>1 DEF Acts, Precondition, I!Precondition, Now, I!Now, Applications,
       I!Applications, Go, I!Go
<1>5. CASE I!Return(r)
  BY <1>5 DEF Acts, Return, I!Return, Now, I!Now, Go, I!Go
<1>6. ~I!Refused(r)
  BY DEF I!Refused
<1>7. CASE I!Begin(r)
  <2>1. Now(r) = "begin" /\ result[r] = None /\ UNCHANGED <<setting, mail, call, result>>
    BY <1>7 DEF I!Begin, Now, None, I!None
  <2>2. Alone(r)
    BY <1>7 DEF I!Begin, I!Go, Alone, Shaped, OnRanks
  <2>3. At(r)' = IdrBegin(At(r))
    BY <1>7, IdrAlike DEF I!Begin, I!Go, IdrBegin, At, State, To, Shaped, OnRanks
  <2>4. Decision(At(r)) = IdrBegin(At(r))
    BY <2>1, Here DEF Decision, IdrDecision
  <2>5. Now(r) \notin Products \cup Reductions \cup Applications \cup {"return"}
    BY <2>1 DEF Products, Reductions, Applications
  <2> QED
    BY <2>1, <2>2, <2>3, <2>4, <2>5 DEF Decides, Acts
<1>8. CASE I!Open(r)
  <2>1. Now(r) = "open" /\ UNCHANGED <<setting, mail, call, result>>
    BY <1>8 DEF I!Open, Now, I!Now
  <2>2. Alone(r)
    BY <1>8 DEF I!Open, I!Go, I!End, I!On, Alone, Shaped, OnRanks
  <2>3. At(r)' = IdrOpen(At(r))
    BY <1>8 DEF I!Open, I!Go, I!End, I!On, IdrEnded, Going, IdrOpen, At, State, To,
       Shaped, OnRanks
  <2>4. Decision(At(r)) = IdrOpen(At(r))
    BY <2>1, Here DEF Decision, IdrDecision
  <2>5. Now(r) \notin Products \cup Reductions \cup Applications \cup {"return"}
    BY <2>1 DEF Products, Reductions, Applications
  <2> QED
    BY <2>1, <2>2, <2>3, <2>4, <2>5 DEF Decides, Acts
<1>9. CASE I!Normalize(r)
  <2>1. Now(r) = "column" /\ UNCHANGED <<setting, mail, call, result>>
    BY <1>9 DEF I!Normalize, Now, I!Now
  <2>2. Alone(r)
    BY <1>9 DEF I!Normalize, I!Go, I!Error, I!On, Alone, Shaped, OnRanks
  <2>3. At(r)' = IdrNormalize(At(r))
    BY <1>9 DEF I!Normalize, I!Go, I!Error, I!On, IdrEnded, Going, IdrNormalize, At,
       State, To, Shaped, OnRanks
  <2>4. Decision(At(r)) = IdrNormalize(At(r))
    BY <2>1, Here DEF Decision, IdrDecision
  <2>5. Now(r) \notin Products \cup Reductions \cup Applications \cup {"return"}
    BY <2>1 DEF Products, Reductions, Applications
  <2> QED
    BY <2>1, <2>2, <2>3, <2>4, <2>5 DEF Decides, Acts
<1>10. CASE I!System(r)
  <2>1. Now(r) = "system" /\ UNCHANGED <<setting, mail, call, result>>
    BY <1>10 DEF I!System, Now, I!Now
  <2>2. Alone(r)
    BY <1>10 DEF I!System, I!Go, I!Repair, I!InFirst, I!Error, I!On, Alone, Shaped,
       OnRanks
  <2>3. At(r)' = IdrSystem(At(r))
    BY <1>10 DEF I!System, I!Go, I!Repair, I!InFirst, I!Error, I!On, IdrRepair,
       IdrEnded, Going, IdrSystem, At, State, To, Shaped, OnRanks
  <2>4. Decision(At(r)) = IdrSystem(At(r))
    BY <2>1, Here DEF Decision, IdrDecision
  <2>5. Now(r) \notin Products \cup Reductions \cup Applications \cup {"return"}
    BY <2>1 DEF Products, Reductions, Applications
  <2> QED
    BY <2>1, <2>2, <2>3, <2>4, <2>5 DEF Decides, Acts
<1>11. CASE I!Omega(r)
  <2>1. Now(r) = "damping" /\ UNCHANGED <<setting, mail, call, result>>
    BY <1>11 DEF I!Omega, Now, I!Now
  <2>2. Alone(r)
    BY ZenonT(60), <1>11 DEF I!Omega, I!Go, I!Repair, I!InFirst, I!Error, I!On, Alone,
       Shaped, OnRanks
  <2>3. At(r)' = IdrOmega(At(r))
    BY <1>11 DEF I!Omega, I!Go, I!Repair, I!InFirst, I!Error, I!On, IdrRepair, IdrEnded,
       Going, IdrOmega, At, State, To, Shaped, OnRanks
  <2>4. Decision(At(r)) = IdrOmega(At(r))
    BY <2>1, Here DEF Decision, IdrDecision
  <2>5. Now(r) \notin Products \cup Reductions \cup Applications \cup {"return"}
    BY <2>1 DEF Products, Reductions, Applications
  <2> QED
    BY <2>1, <2>2, <2>3, <2>4, <2>5 DEF Decides, Acts
<1>12. CASE I!Step(r)
  <2>1. Now(r) = "step" /\ UNCHANGED <<setting, mail, call, result>>
    BY <1>12 DEF I!Step, Now, I!Now
  <2>2. Alone(r)
    BY <1>12 DEF I!Step, I!Go, I!InFirst, Alone, Shaped, OnRanks
  <2>3. At(r)' = IdrStep(At(r))
    BY <1>12 DEF I!Step, I!Go, I!InFirst, IdrStep, At, State, To, Shaped, OnRanks
  <2>4. Decision(At(r)) = IdrStep(At(r))
    BY <2>1, Here DEF Decision, IdrDecision
  <2>5. Now(r) \notin Products \cup Reductions \cup Applications \cup {"return"}
    BY <2>1 DEF Products, Reductions, Applications
  <2> QED
    BY <2>1, <2>2, <2>3, <2>4, <2>5 DEF Decides, Acts
<1>13. CASE I!Check(r)
  <2>1. Now(r) = "check" /\ UNCHANGED <<setting, mail, call, result>>
    BY <1>13 DEF I!Check, Now, I!Now
  <2>2. Alone(r)
    BY <1>13 DEF I!Check, I!Go, I!End, I!On, I!InFirst, Alone, Shaped, OnRanks
  <2>3. At(r)' = IdrCheck(At(r))
    BY ZenonT(60), <1>13 DEF I!Check, I!Go, I!End, I!On, I!InFirst, IdrEnded, Going,
       IdrCheck, At, State, To, Shaped, OnRanks
  <2>4. Decision(At(r)) = IdrCheck(At(r))
    BY <2>1, Here DEF Decision, IdrDecision
  <2>5. Now(r) \notin Products \cup Reductions \cup Applications \cup {"return"}
    BY <2>1 DEF Products, Reductions, Applications
  <2> QED
    BY <2>1, <2>2, <2>3, <2>4, <2>5 DEF Decides, Acts
<1> QED
  BY <1>1, <1>2, <1>3, <1>4, <1>5, <1>6, <1>7, <1>8, <1>9, <1>10, <1>11, <1>12, <1>13 DEF I!Rank

LEMMA IdrMeets ==
  ASSUME I!Meet
  PROVE  Meets
BY DEF Meets, Now, None, Reductions, I!Meet, I!Reduce, I!Reads, I!Now, I!None,
   I!Reductions
(* Recurrences                                                             *)

LEMMA SmallAlike ==
  ASSUME setting.solver \in S!Small, AskedAlike(setting), NEW r \in Ranks
  PROVE  /\ S!StartPlan(r) = S!StartPlan(Someone)
         /\ Is("cgs") => (setting.rows[r] = "none" <=> setting.rows[Someone] = "none")
<1>1. Is("cgs") => /\ setting.guess[r] = setting.guess[Someone]
                   /\ setting.rows[r] = "none" <=> setting.rows[Someone] = "none"
  BY SomeoneIsOne DEF AskedAlike, Is
<1>2. S!StartPlan(r) = S!StartPlan(Someone)
  BY <1>1 DEF S!StartPlan, S!If, S!Runs, S!Small, Is
<1> QED
  BY <1>1, <1>2

LEMMA SmallActs ==
  ASSUME setting.solver \in S!Small, AskedAlike(setting), Shaped, NEW r \in Ranks, S!Rank(r), broken' = {}
  PROVE  Acts(r)
<1> USE DEF Is, S!Small
<1>1. CASE S!SendGhosts(r)
  BY <1>1 DEF Acts, SendGhosts, S!SendGhosts, Now, S!Now, Products, S!Products, Label,
     S!Label, None, S!None, Neighbours, S!Neighbours
<1>2. CASE S!ReceiveGhosts(r, S!AfterProduct(vec[r], S!Now(r)))
  <2>1. Multiplied(vec[r], Now(r)) = S!AfterProduct(vec[r], S!Now(r))
    BY DEF Multiplied, Now, S!Now
  <2> QED
    BY <1>2, <2>1 DEF Acts, ReceiveGhosts, S!ReceiveGhosts, Now, S!Now, Products,
       S!Products, None, S!None, Neighbours, S!Neighbours, Go, S!Go
<1>3. CASE S!Contribute(r, vec[r])
  <2>1. Reduced(vec[r], Now(r)) = vec[r]
    BY DEF Reduced, Now, S!Now
  <2> QED
    BY <1>3, <2>1 DEF Acts, Contribute, S!Contribute, Now, S!Now, Reductions,
       S!Reductions, None, S!None, Label, S!Label
<1>4. CASE S!Precondition(r, vec[r])
  <2>1. Preconditioned(vec[r], Now(r)) = vec[r]
    BY DEF Preconditioned, Now, S!Now
  <2> QED
    BY <1>4, <2>1 DEF Acts, Precondition, S!Precondition, Now, S!Now, Applications,
       S!Applications, Go, S!Go
<1>5. CASE S!Return(r)
  BY <1>5 DEF Acts, Return, S!Return, Now, S!Now, Go, S!Go
<1>6. ~S!BreakDown(r)
  BY DEF S!BreakDown
<1>7. CASE S!Begin(r)
  <2>1. Now(r) = "begin" /\ result[r] = None /\ UNCHANGED <<setting, mail, call, result>>
    BY <1>7 DEF S!Begin, Now, None, S!None
  <2>2. Alone(r)
    BY <1>7 DEF S!Begin, S!Finish, S!Go, S!Epilogue, S!Runs, Alone, Shaped, OnRanks
  <2>3. At(r)' = SmallBegin(At(r))
    BY <1>7, SmallAlike DEF S!Begin, S!Finish, S!Go, S!Epilogue, S!Runs, Epilogue, Is,
       Ended, SmallBegin, At, State, To, Shaped, OnRanks
  <2>4. Decision(At(r)) = SmallBegin(At(r))
    BY <2>1, Here DEF Decision, SmallDecision
  <2>5. Now(r) \notin Products \cup Reductions \cup Applications \cup {"return"}
    BY <2>1 DEF Products, Reductions, Applications
  <2> QED
    BY <2>1, <2>2, <2>3, <2>4, <2>5 DEF Decides, Acts
<1>8. CASE S!Open(r)
  <2>1. Now(r) = "open" /\ UNCHANGED <<setting, mail, call, result>>
    BY <1>8 DEF S!Open, Now, S!Now
  <2>2. Alone(r)
    BY <1>8 DEF S!Open, S!Finish, S!Go, S!Epilogue, S!End, S!Runs, S!OutOfTurns,
       S!NextTurn, Alone, Shaped, OnRanks
  <2>3. At(r)' = SmallOpen(At(r))
    BY ZenonT(60), <1>8 DEF S!Open, S!Finish, S!Go, S!Epilogue, S!End, S!Runs,
       S!OutOfTurns, S!NextTurn, Epilogue, Closed, Going, Is, SmallOut, SmallTurn,
       SmallOpen, At, State, To, Shaped, OnRanks
  <2>4. Decision(At(r)) = SmallOpen(At(r))
    BY <2>1, Here DEF Decision, SmallDecision
  <2>5. Now(r) \notin Products \cup Reductions \cup Applications \cup {"return"}
    BY <2>1 DEF Products, Reductions, Applications
  <2> QED
    BY <2>1, <2>2, <2>3, <2>4, <2>5 DEF Decides, Acts
<1>9. CASE S!Sigma(r)
  <2>1. Now(r) = "sigma" /\ UNCHANGED <<setting, mail, call, result>>
    BY <1>9 DEF S!Sigma, Now, S!Now
  <2>2. Alone(r)
    BY ZenonT(60), <1>9 DEF S!Sigma, S!Finish, S!Go, S!Epilogue, S!End, S!Runs, Alone,
       Shaped, OnRanks
  <2>3. At(r)' = SmallSigma(At(r))
    BY <1>9 DEF S!Sigma, S!Finish, S!Go, S!Epilogue, S!End, S!Runs, Epilogue, Closed,
       Going, Is, SmallSigma, At, State, To, Shaped, OnRanks
  <2>4. Decision(At(r)) = SmallSigma(At(r))
    BY <2>1, Here DEF Decision, SmallDecision
  <2>5. Now(r) \notin Products \cup Reductions \cup Applications \cup {"return"}
    BY <2>1 DEF Products, Reductions, Applications
  <2> QED
    BY <2>1, <2>2, <2>3, <2>4, <2>5 DEF Decides, Acts
<1>10. CASE S!Advance(r)
  <2>1. Now(r) = "advance" /\ UNCHANGED <<setting, mail, call, result>>
    BY <1>10 DEF S!Advance, Now, S!Now
  <2>2. Alone(r)
    BY <1>10 DEF S!Advance, S!Finish, S!Go, S!Epilogue, S!End, S!Runs, S!OutOfTurns,
       S!NextTurn, S!LanczosStep, S!HalfStep, S!Recalculated, S!Half, Alone, Shaped,
       OnRanks
  <2>3. At(r)' = SmallAdvance(At(r))
    BY ZenonT(60), <1>10 DEF S!Advance, S!Finish, S!Go, S!Epilogue, S!End, S!Runs,
       S!OutOfTurns, S!NextTurn, S!LanczosStep, S!HalfStep, S!Recalculated, S!Half,
       Epilogue, Closed, Going, Is, SmallOut, SmallTurn, SmallLanczos, SmallHalfStep,
       SmallHalf, SmallOn, SmallAdvance, At, State, To, Shaped, OnRanks
  <2>4. Decision(At(r)) = SmallAdvance(At(r))
    BY <2>1, Here DEF Decision, SmallDecision
  <2>5. Now(r) \notin Products \cup Reductions \cup Applications \cup {"return"}
    BY <2>1 DEF Products, Reductions, Applications
  <2> QED
    BY <2>1, <2>2, <2>3, <2>4, <2>5 DEF Decides, Acts
<1>11. CASE S!Weigh(r)
  <2>1. Now(r) = "weigh" /\ UNCHANGED <<setting, mail, call, result>>
    BY <1>11 DEF S!Weigh, Now, S!Now
  <2>2. Alone(r)
    BY ZenonT(60), <1>11 DEF S!Weigh, S!Finish, S!Go, S!Epilogue, S!End, S!Runs, S!Half,
       Alone, Shaped, OnRanks
  <2>3. At(r)' = SmallWeigh(At(r))
    BY <1>11 DEF S!Weigh, S!Finish, S!Go, S!Epilogue, S!End, S!Runs, S!Half, Epilogue,
       Closed, Going, Is, SmallHalf, SmallWeigh, At, State, To, Shaped, OnRanks
  <2>4. Decision(At(r)) = SmallWeigh(At(r))
    BY <2>1, Here DEF Decision, SmallDecision
  <2>5. Now(r) \notin Products \cup Reductions \cup Applications \cup {"return"}
    BY <2>1 DEF Products, Reductions, Applications
  <2> QED
    BY <2>1, <2>2, <2>3, <2>4, <2>5 DEF Decides, Acts
<1>12. CASE S!Renew(r)
  <2>1. Now(r) = "renew" /\ UNCHANGED <<setting, mail, call, result>>
    BY <1>12 DEF S!Renew, Now, S!Now
  <2>2. Alone(r)
    BY <1>12 DEF S!Renew, S!Finish, S!Go, S!Epilogue, S!End, S!Runs, S!OutOfTurns,
       S!NextTurn, Alone, Shaped, OnRanks
  <2>3. At(r)' = SmallRenew(At(r))
    BY <1>12 DEF S!Renew, S!Finish, S!Go, S!Epilogue, S!End, S!Runs, S!OutOfTurns,
       S!NextTurn, Epilogue, Closed, Going, Is, SmallOut, SmallTurn, SmallOn,
       SmallRenew, At, State, To, Shaped, OnRanks
  <2>4. Decision(At(r)) = SmallRenew(At(r))
    BY <2>1, Here DEF Decision, SmallDecision
  <2>5. Now(r) \notin Products \cup Reductions \cup Applications \cup {"return"}
    BY <2>1 DEF Products, Reductions, Applications
  <2> QED
    BY <2>1, <2>2, <2>3, <2>4, <2>5 DEF Decides, Acts
<1>13. CASE S!Confirm(r)
  <2>1. Now(r) = "confirm" /\ UNCHANGED <<setting, mail, call, result>>
    BY <1>13 DEF S!Confirm, Now, S!Now
  <2>2. Alone(r)
    BY ZenonT(60), <1>13 DEF S!Confirm, S!Finish, S!Go, S!Epilogue, S!End, S!Runs,
       S!OutOfTurns, S!NextTurn, Alone, Shaped, OnRanks
  <2>3. At(r)' = SmallConfirm(At(r))
    BY <1>13 DEF S!Confirm, S!Finish, S!Go, S!Epilogue, S!End, S!Runs, S!OutOfTurns,
       S!NextTurn, Epilogue, Closed, Going, Is, SmallOut, SmallTurn, SmallOn,
       SmallConfirm, At, State, To, Shaped, OnRanks
  <2>4. Decision(At(r)) = SmallConfirm(At(r))
    BY <2>1, Here DEF Decision, SmallDecision
  <2>5. Now(r) \notin Products \cup Reductions \cup Applications \cup {"return"}
    BY <2>1 DEF Products, Reductions, Applications
  <2> QED
    BY <2>1, <2>2, <2>3, <2>4, <2>5 DEF Decides, Acts
<1>14. CASE S!Settle(r)
  <2>1. Now(r) = "settle" /\ UNCHANGED <<setting, mail, call, result>>
    BY <1>14 DEF S!Settle, Now, S!Now
  <2>2. Alone(r)
    BY <1>14 DEF S!Settle, S!Finish, S!Go, S!Epilogue, S!End, S!Runs, Alone, Shaped,
       OnRanks
  <2>3. At(r)' = SmallSettle(At(r))
    BY <1>14 DEF S!Settle, S!Finish, S!Go, S!Epilogue, S!End, S!Runs, Epilogue, Closed,
       Going, Is, SmallSettle, At, State, To, Shaped, OnRanks
  <2>4. Decision(At(r)) = SmallSettle(At(r))
    BY <2>1, Here DEF Decision, SmallDecision
  <2>5. Now(r) \notin Products \cup Reductions \cup Applications \cup {"return"}
    BY <2>1 DEF Products, Reductions, Applications
  <2> QED
    BY <2>1, <2>2, <2>3, <2>4, <2>5 DEF Decides, Acts
<1>15. CASE S!Check(r)
  <2>1. Now(r) = "check" /\ UNCHANGED <<setting, mail, call, result>>
    BY <1>15 DEF S!Check, Now, S!Now
  <2>2. Alone(r)
    BY <1>15 DEF S!Check, S!Finish, S!Go, S!Epilogue, S!End, S!Runs, S!OutOfTurns,
       S!NextTurn, Alone, Shaped, OnRanks
  <2>3. At(r)' = SmallCheck(At(r))
    BY ZenonT(60), <1>15 DEF S!Check, S!Finish, S!Go, S!Epilogue, S!End, S!Runs,
       S!OutOfTurns, S!NextTurn, Epilogue, Closed, Going, Is, SmallOut, SmallTurn,
       SmallOn, SmallCheck, At, State, To, Shaped, OnRanks
  <2>4. Decision(At(r)) = SmallCheck(At(r))
    BY <2>1, Here DEF Decision, SmallDecision
  <2>5. Now(r) \notin Products \cup Reductions \cup Applications \cup {"return"}
    BY <2>1 DEF Products, Reductions, Applications
  <2> QED
    BY <2>1, <2>2, <2>3, <2>4, <2>5 DEF Decides, Acts
<1> QED
  BY <1>1, <1>2, <1>3, <1>4, <1>5, <1>6, <1>7, <1>8, <1>9, <1>10, <1>11, <1>12, <1>13,
     <1>14, <1>15 DEF S!Rank

LEMMA SmallMeets ==
  ASSUME S!Meet
  PROVE  Meets
BY DEF Meets, Now, None, Reductions, S!Meet, S!Reduce, S!Reads, S!Now, S!None,
   S!Reductions
------------------------------------------------------------------------------
(* Every step of a solve.                                                  *)

Framed == setting' = setting /\ broken \subseteq broken'

LEMMA CgFrame ==
  ASSUME NEW r \in Ranks, C!Rank(r)
  PROVE  Framed
BY DEF Framed, C!Rank, C!Meet, C!SendGhosts, C!ReceiveGhosts, C!Contribute,
   C!Precondition, C!BreakDown, C!Return, C!Reduce, C!Begin, C!Direction, C!Advance,
   C!Judge, C!Check, C!Settle, C!Restart

LEMMA GmresFrame ==
  ASSUME NEW r \in Ranks, G!Rank(r)
  PROVE  Framed
BY DEF Framed, G!Rank, G!Meet, G!SendGhosts, G!ReceiveGhosts, G!Contribute,
   G!Precondition, G!BreakDown, G!Return, G!Reduce, G!Begin, G!Open, G!Again, G!Column,
   G!Factor, G!Store, G!Columns, G!Update, G!Close, G!Reopen, G!Settle

LEMMA FgmresFrame ==
  ASSUME NEW r \in Ranks, F!Rank(r)
  PROVE  Framed
BY DEF Framed, F!Rank, F!Meet, F!SendGhosts, F!ReceiveGhosts, F!Contribute,
   F!Precondition, F!BreakDown, F!Return, F!Reduce, F!Begin, F!Open, F!Again, F!Column,
   F!Weigh, F!Solve, F!Update, F!Close, F!Reopen

LEMMA BiCgStabFrame ==
  ASSUME NEW r \in Ranks, B!Rank(r)
  PROVE  Framed
BY DEF Framed, B!Rank, B!Meet, B!SendGhosts, B!ReceiveGhosts, B!Contribute,
   B!Precondition, B!BreakDown, B!Return, B!Reduce, B!Begin, B!Open, B!Turn,
   B!Refreshed, B!Direction, B!Bend, B!Shorten, B!Try, B!Damp, B!Rescue, B!Step,
   B!Check, B!Settle

LEMMA PcaFrame ==
  ASSUME NEW r \in Ranks, P!Rank(r)
  PROVE  Framed
BY DEF Framed, P!Rank, P!Meet, P!SendGhosts, P!ReceiveGhosts, P!Contribute,
   P!Precondition, P!BreakDown, P!Return, P!Reduce, P!Begin, P!Open, P!Column, P!Update,
   P!Close, P!Settle

LEMMA IdrFrame ==
  ASSUME NEW r \in Ranks, I!Rank(r)
  PROVE  Framed
BY DEF Framed, I!Rank, I!Meet, I!SendGhosts, I!ReceiveGhosts, I!Contribute,
   I!Precondition, I!Refused, I!Return, I!Reduce, I!Begin, I!Open, I!Normalize,
   I!System, I!Omega, I!Step, I!Check

LEMMA SmallFrame ==
  ASSUME NEW r \in Ranks, S!Rank(r)
  PROVE  Framed
BY DEF Framed, S!Rank, S!Meet, S!SendGhosts, S!ReceiveGhosts, S!Contribute,
   S!Precondition, S!BreakDown, S!Return, S!Reduce, S!Begin, S!Open, S!Sigma, S!Advance,
   S!Weigh, S!Renew, S!Confirm, S!Settle, S!Check

LEMMA Frame == [Next]_vars => Framed
<1> SUFFICES ASSUME [Next]_vars PROVE Framed
  OBVIOUS
<1>1. CASE vars' = vars
  BY <1>1 DEF vars, Framed
<1>2. ASSUME NEW r \in Ranks, Rank(r) PROVE Framed
  BY <1>2, CgFrame, GmresFrame, FgmresFrame, BiCgStabFrame, PcaFrame, IdrFrame, SmallFrame DEF Rank
<1>3. CASE Meet
  <2>1. Meet => C!Meet \/ G!Meet \/ F!Meet \/ B!Meet \/ P!Meet \/ S!Meet \/ I!Meet
    BY DEF Meet
  <2> QED
    BY <1>3, <2>1 DEF Framed, C!Meet, C!Reduce, G!Meet, G!Reduce, F!Meet, F!Reduce, B!Meet,
       B!Reduce, P!Meet, P!Reduce, S!Meet, S!Reduce, I!Meet, I!Reduce
<1> QED
  BY <1>1, <1>2, <1>3 DEF Next

LEMMA RankActs ==
  ASSUME AskedAlike(setting), Shaped, NEW r \in Ranks, Rank(r), broken' = {}
  PROVE  Acts(r)
BY CgActs, GmresActs, FgmresActs, BiCgStabActs, PcaActs, IdrActs, SmallActs DEF Rank, Is

LEMMA MeetMeets ==
  ASSUME Meet
  PROVE  Meets
BY CgMeets, GmresMeets, FgmresMeets, BiCgStabMeets, PcaMeets, IdrMeets, SmallMeets DEF Meet

------------------------------------------------------------------------------
(* The inductive invariant.                                                *)

LEMMA StillMarching ==
  ASSUME Marching, setting' = setting, mail' = mail,
         UNCHANGED <<todo, iter, seen, vec, verdict, call, result>>
  PROVE  Marching'
<1>1. PICK f, c, n, m, T : March(f, c, n, m, T)
  BY DEF Marching
<1>2. \A r \in Ranks : At(r)' = At(r)
  BY DEF At
<1>3. Path(f, c, m)'
  BY <1>1, Constantly, ConstantMarch DEF March, Path
<1>4. ASSUME NEW e \in Edges
      PROVE  /\ mail'[e] \in Seq(T)
             /\ Coupled(e)' => Waiting(f, c, n, m, e)'
             /\ ~Coupled(e)' => mail'[e] = <<>>
  <2>1. Coupled(e)' <=> Coupled(e)
    BY Constantly
  <2>2. Waiting(f, c, n, m, e) => Waiting(f, c, n, m, e)'
    <3>1. Through(f, c, n[e[1]])' = Through(f, c, n[e[1]])
      BY ConstantMarch
    <3>2. \A k : InProduct(f[k])' <=> InProduct(f[k])
      BY DEF InProduct, What
    <3> QED
      BY <3>1, <3>2 DEF Waiting
  <2> QED
    BY <1>1, <2>1, <2>2 DEF March
<1>5. March(f, c, n, m, T)'
  BY <1>1, <1>2, <1>3, <1>4 DEF March
<1>6. Shaped' /\ \A r \in Ranks : Fits(At(r))'
  BY <1>2 DEF Marching, Shaped, OnRanks, Fits, What
<1> QED
  BY <1>5, <1>6 DEF Marching

LEMMA IInvNext ==
  ASSUME \A s \in Settings : AskedAlike(s), IInv, [Next]_vars
  PROVE  IInv'
<1>1. Framed
  BY Frame
<1>2. setting' \in Settings
  BY <1>1 DEF IInv, Framed
<1>3. ASSUME broken' = {}
      PROVE  Marching'
  <2>1. broken = {} /\ Marching /\ AskedAlike(setting)
    BY <1>1, <1>3 DEF IInv, Framed
  <2>2. CASE vars' = vars
    <3>1. /\ setting' = setting /\ mail' = mail
          /\ UNCHANGED <<todo, iter, seen, vec, verdict, call, result>>
      BY <2>2 DEF vars
    <3> QED
      BY <2>1, <3>1, StillMarching
  <2>3. ASSUME NEW r \in Ranks, Rank(r)
        PROVE  Marching'
    <3>1. Shaped /\ Fits(At(r))
      BY <2>1 DEF Marching
    <3>2. Acts(r)
      BY <1>3, <2>1, <2>3, <3>1, RankActs
    <3>3. Walks(r)
      BY <3>1, <3>2, ActsWalks
    <3> QED
      BY <2>1, <3>3, MarchStep
  <2>4. CASE Meet
    BY <2>1, <2>4, MeetMeets, MeetsMarch
  <2> QED
    BY <2>2, <2>3, <2>4 DEF Next
<1> QED
  BY <1>2, <1>3 DEF IInv

(* All ranks begin in the same state.                                      *)
Begun ==
  /\ setting \in Settings /\ Idle
  /\ \E v : vec = [r \in Ranks |-> v]

LEMMA BegunMarches == Begun => IInv
<1> SUFFICES ASSUME Begun PROVE IInv
  OBVIOUS
<1>1. PICK v : vec = [r \in Ranks |-> v]
  BY DEF Begun
<1>2. ASSUME NEW r \in Ranks
      PROVE  At(r) = State(<<>>, 0, {}, v, "", None, None)
  BY <1>1 DEF Begun, Idle, At
<1>3. Shaped
  BY <1>1 DEF Begun, Idle, Shaped, OnRanks
<1>4. ASSUME NEW r \in Ranks
      PROVE  Fits(At(r)) /\ ~InProduct(At(r))
  <2>1. At(r).call = None /\ At(r).result = None
    BY Here DEF Begun, Idle
  <2> QED
    BY <2>1 DEF Fits, InProduct
<1>5. Together
  BY <1>2, <1>4 DEF Together, Begun, Idle
<1>6. OnTheMarch
  BY <1>5, MarchStarts
<1> QED
  BY <1>3, <1>4, <1>6 DEF IInv, Marching, OnTheMarch, Begun

LEMMA IInvInit ==
  ASSUME \A s \in Settings : AskedAlike(s), Init
  PROVE  IInv
<1>1. CASE C!Init
  BY <1>1, BegunMarches DEF C!Init, C!Idle, C!None, Begun, Idle, None
<1>2. CASE G!Init
  BY <1>2, BegunMarches DEF G!Init, G!Idle, G!None, Begun, Idle, None
<1>3. CASE F!Init
  <2>1. Is("fgmres") /\ setting \in Settings /\ AskedAlike(setting)
    BY <1>3 DEF F!Init, Is
  <2>2. \A r \in Ranks : F!Chosen(r) = F!Chosen(Someone)
    BY <2>1, FgmresAlike
  <2>3. vec = [r \in Ranks |-> F!FreshBasis(F!Chosen(Someone).variant)]
    BY <1>3, <2>2 DEF F!Init
  <2> QED
    BY <1>3, <2>1, <2>3, BegunMarches DEF F!Init, F!Idle, F!None, Begun, Idle, None
<1>4. CASE B!Init
  BY <1>4, BegunMarches DEF B!Init, B!Idle, B!None, Begun, Idle, None
<1>5. CASE P!Init
  BY <1>5, BegunMarches DEF P!Init, P!Idle, P!None, Begun, Idle, None
<1>6. CASE S!Init
  BY <1>6, BegunMarches DEF S!Init, S!Idle, S!None, Begun, Idle, None
<1>7. CASE I!Init
  BY <1>7, BegunMarches DEF I!Init, I!Idle, I!None, Begun, Idle, None
<1> QED
  BY <1>1, <1>2, <1>3, <1>4, <1>5, <1>6, <1>7 DEF Init

------------------------------------------------------------------------------
(* What the march shows.                                                   *)

LEMMA SameShape ==
  ASSUME AskedAlike(setting), NEW q \in Ranks, NEW r \in Ranks, At(q) = At(r)
  PROVE  Shape(q) = Shape(r)
<1>1. Now(q) = Now(r) /\ iter[q] = iter[r] /\ vec[q] = vec[r]
  BY Here
<1>2. CASE Is("cg")
  <2>1. C!UsesAsync(q) <=> C!UsesAsync(r)
    BY <1>2, CgAlike
  <2>2. C!Shape(q) = C!Shape(r)
    BY <1>1, <2>1 DEF C!Shape, C!Now, Now
  <2> QED
    BY <1>2, <2>2 DEF Shape, Is
<1>3. CASE ~Is("cg")
  <2>1. G!Shape(q) = G!Shape(r)
    BY <1>1 DEF G!Shape, G!Now, Now
  <2>2. F!Shape(q) = F!Shape(r)
    BY <1>1 DEF F!Shape, F!Now, Now
  <2>3. B!Shape(q) = B!Shape(r)
    BY <1>1 DEF B!Shape, B!Now, Now
  <2>4. P!Shape(q) = P!Shape(r)
    BY <1>1 DEF P!Shape, P!Now, Now
  <2>5. S!Shape(q) = S!Shape(r)
    BY <1>1 DEF S!Shape, S!Now, Now
  <2>6. I!Shape(q) = I!Shape(r)
    BY <1>1 DEF I!Shape, I!Now, Now
  <2> QED
    BY <1>3, <2>1, <2>2, <2>3, <2>4, <2>5, <2>6 DEF Shape
<1> QED
  BY <1>2, <1>3

LEMMA IInvReduction ==
  ASSUME \A s \in Settings : AskedAlike(s), IInv
  PROVE  SameReduction
<1> SUFFICES ASSUME broken = {}, NEW q \in Ranks, NEW r \in Ranks, Reducing(q), Reducing(r)
             PROVE  call[q] = call[r] /\ Shape(q) = Shape(r)
  BY DEF SameReduction
<1>1. PICK f, c, n, m, T : March(f, c, n, m, T)
  BY DEF IInv, Marching
<1>2. Stays(At(q)) /\ Stays(At(r))
  BY Here DEF Reducing, Stays, InReduction
<1>3. At(q) = At(r)
  BY <1>1, <1>2, AtTheEnd
<1>4. AskedAlike(setting)
  BY DEF IInv
<1> QED
  BY <1>3, <1>4, Here, SameShape

LEMMA IInvVerdict ==
  ASSUME IInv
  PROVE  SameVerdict
<1> SUFFICES ASSUME broken = {}, NEW q \in Ranks, NEW r \in Ranks,
                    result[q] # None, result[r] # None
             PROVE  result[q] = result[r]
  BY DEF SameVerdict
<1>1. PICK f, c, n, m, T : March(f, c, n, m, T)
  BY DEF IInv, Marching
<1>2. Stays(At(q)) /\ Stays(At(r))
  BY Here DEF Stays
<1>3. At(q) = At(r)
  BY <1>1, <1>2, AtTheEnd
<1> QED
  BY <1>3, Here

LEMMA IInvVectors ==
  ASSUME IInv
  PROVE  SameVectors
<1> SUFFICES ASSUME broken = {}, NEW e \in Edges,
                    mail[e] # <<>>, call[e[2]] # None, Now(e[2]) \in Products
             PROVE  Head(mail[e]) = call[e[2]]
  BY DEF SameVectors
<1>1. PICK f, c, n, m, T : March(f, c, n, m, T)
  BY DEF IInv, Marching
<1>2. PICK q \in Ranks : q = e[2]
  BY CollectiveAssumption
<1>3. m \in Nat /\ c \in [Nat -> Nat] /\ n \in [Ranks -> 0..m] /\ At(q) = f[n[q]]
  BY <1>1 DEF March, Path
<1>4. InProduct(At(q))
  BY <1>2, Here DEF InProduct
<1>5. n[q] \in 0..m /\ At(q) = f[n[q]] /\ InProduct(f[n[q]])
  BY <1>3, <1>4
<1>6. mail[e] \in Seq(T) /\ Waiting(f, c, n, m, e)
  BY <1>1 DEF March
<1>7. 1 \in 1..Len(mail[e]) /\ Head(mail[e]) = mail[e][1]
  BY <1>6
<1>8. PICK k \in 0..m : InProduct(f[k]) /\ c[k] = c[n[q]] + 1 - 1 /\ mail[e][1] = f[k].call
  BY <1>2, <1>6, <1>7 DEF Waiting
<1>9. c[k] \in Nat /\ c[n[q]] \in Nat
  BY <1>3, <1>5, <1>8
<1>10. c[k] = c[n[q]] /\ Through(f, c, k) = c[k] + 1 /\ Through(f, c, n[q]) = c[n[q]] + 1
  BY <1>5, <1>8, <1>9 DEF Through
<1>11. ~(k < n[q]) /\ ~(n[q] < k)
  <2>1. \A i, j \in 0..m : i < j => Through(f, c, i) <= c[j]
    BY <1>1 DEF March, Path
  <2>2. /\ k < n[q] => c[k] + 1 <= c[n[q]]
        /\ n[q] < k => c[n[q]] + 1 <= c[k]
    BY <2>1, <1>5, <1>8, <1>10
  <2> QED
    BY <2>2, <1>9, <1>10
<1>12. k = n[q]
  BY <1>3, <1>5, <1>8, <1>11
<1> QED
  BY <1>2, <1>5, <1>7, <1>8, <1>12, Here

------------------------------------------------------------------------------
LEMMA Invariance ==
  ASSUME \A s \in Settings : AskedAlike(s)
  PROVE  Spec => []IInv
<1>1. Init => IInv
  BY IInvInit
<1>2. IInv /\ [Next]_vars => IInv'
  BY IInvNext
<1> QED
  BY <1>1, <1>2, PTL DEF Spec

(* Ranks that are in a global reduction together are at the same place of  *)
(* the program and take part with the same number of values, blocking or   *)
(* not: all_reduce and its relatives never add one dot product to another. *)
THEOREM ReductionsMatch ==
  ASSUME \A s \in Settings : AskedAlike(s)
  PROVE  Spec => []SameReduction
<1>1. IInv => SameReduction
  BY IInvReduction
<1> QED
  BY <1>1, Invariance, PTL

(* The ghost values that a rank takes from a neighbour in a product with A *)
(* belong to the vector that it multiplies itself.                         *)
THEOREM GhostsOfTheSameVector ==
  ASSUME \A s \in Settings : AskedAlike(s)
  PROVE  Spec => []SameVectors
<1>1. IInv => SameVectors
  BY IInvVectors
<1> QED
  BY <1>1, Invariance, PTL

(* KspContext::solve returns the same reason and the same iterations on    *)
(* all ranks.                                                              *)
THEOREM VerdictsAgree ==
  ASSUME \A s \in Settings : AskedAlike(s)
  PROVE  Spec => []SameVerdict
<1>1. IInv => SameVerdict
  BY IInvVerdict
<1> QED
  BY <1>1, Invariance, PTL
=============================================================================
