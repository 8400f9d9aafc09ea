----------------------------- MODULE Collective -----------------------------
(***************************************************************************)
(* How the ranks of a Krylov solve meet.  Every rank runs the same program *)
(* on its own rows; the ranks meet in halo exchanges (the products with A) *)
(* and in global reductions, and nothing but their position in the program *)
(* says which exchange or reduction of one rank goes with which of another.*)
(* Cg, Gmres, Fgmres, BiCgStab, PcaGmres, Recurrences and Idrs are the     *)
(* programs, Krylov puts them together and states what they share.         *)
(*                                                                         *)
(* todo[r] is the rest of the program of rank r up to its next decision:   *)
(* products, reductions, applications of the preconditioner, and steps and *)
(* decisions of the solver.  The scalars are abstracted to the facts the   *)
(* decisions test (seen), the vectors to what they were made from (vec).   *)
(***************************************************************************)
EXTENDS Integers, Sequences

CONSTANTS Ranks,       (* the ranks of the communicator of A               *)
          Edges,       (* <<p, q>>: q has entries in columns of p          *)
          MaxIters,    (* conv.max_iters                                   *)
          Settings     (* solver, options and data of a solve              *)

Solvers == {"cg", "gmres", "fgmres", "bicgstab", "pcagmres", "cgs", "tfqmr", "minres",
            "richardson", "pipegcr", "idrs"}

(* What every solve has; each solver has options of its own.               *)
CommonType(s) ==
  /\ s.solver \in Solvers
  /\ s.overlap \in BOOLEAN                (* async reductions, mode Fast     *)
  /\ s.guess \in [Ranks -> BOOLEAN]       (* the rank's part of x is not 0   *)
  /\ s.rows \in [Ranks -> {"none", "few", "many"}]   (* many: >= async_min_n *)
  /\ s.fails \subseteq Ranks              (* whose preconditioner may fail   *)

ASSUME CollectiveAssumption ==
  /\ Edges \subseteq Ranks \X Ranks /\ \A e \in Edges : e[1] # e[2]
  /\ \A e \in Edges : <<e[2], e[1]>> \in Edges
  /\ MaxIters \in Nat /\ \A s \in Settings : CommonType(s)

VARIABLES
  setting,   (* the setting of this solve                                  *)
  todo,      (* todo[r]: what rank r does up to its next decision          *)
  iter,      (* iter[r]: the iteration of the solver                       *)
  seen,      (* seen[r]: what the reductions since a decision showed       *)
  vec,       (* vec[r]: where the vectors of rank r come from; x counts the *)
             (* updates of x, e the times the solve started anew           *)
  verdict,   (* verdict[r]: the reason rank r is going to report           *)
  call,      (* call[r]: the exchange or reduction rank r is in, or none   *)
  mail,      (* mail[<<p, q>>]: ghost values sent by p, not received by q  *)
  posted,    (* posted[r]: reductions of the solver                        *)
  broken,    (* ranks whose preconditioner has failed                      *)
  result     (* result[r]: what solve returned, or none                    *)

vars == <<setting, todo, iter, seen, vec, verdict, call, mail, posted, broken, result>>

Products == {"A x", "A p", "A u", "A v", "A z", "A s", "A w", "A trial", "true A x"}
Applications == {"M r", "M v", "M z", "M w", "M p", "M s", "M t"}
Reductions ==
  {"tuple", "p.Ap", "norm p", "norm x", "monitor", "reported norm", "norm tol", "norm r",
   "dot rho", "dot delta", "norms", "norm w", "dot", "dots", "payload", "gram",
   "cycle norm", "residual norm", "omega", "norm s", "true norm", "norm b", "pair", "triple"}

(* KspContext's own look at the residual after the solver has returned.    *)
Epilogue == <<"true A x", "true norm", "norm b", "return">>
None == <<>>

If(c, what) == IF c THEN <<what>> ELSE <<>>
Times(n, plan) == [i \in 1..(n * Len(plan)) |-> plan[((i - 1) % Len(plan)) + 1]]
Now(r) == IF todo[r] = <<>> THEN "begin" ELSE Head(todo[r])

Neighbours(r) == {p \in Ranks : <<p, r>> \in Edges /\ setting.rows[p] # "none"
                                                   /\ setting.rows[r] # "none"}

(* Init but for the setting and the vectors.                               *)
Idle ==
  /\ todo = [r \in Ranks |-> <<>>]
  /\ iter = [r \in Ranks |-> 0]
  /\ seen = [r \in Ranks |-> {}]
  /\ verdict = [r \in Ranks |-> ""]
  /\ call = [r \in Ranks |-> None]
  /\ mail = [e \in Edges |-> <<>>]
  /\ posted = [r \in Ranks |-> 0]
  /\ broken = {}
  /\ result = [r \in Ranks |-> None]

Go(r, next) == todo' = [todo EXCEPT ![r] = next]
Finish(r, reason, next) ==
  /\ verdict' = [verdict EXCEPT ![r] = reason]
  /\ Go(r, next \o Epilogue)

(* Err(..), which KspContext turns into statistics with a reason: an error *)
(* reports no iterations.                                                  *)
Fail(r, reason) ==
  /\ Finish(r, reason, <<>>)
  /\ iter' = [iter EXCEPT ![r] = 0]
  /\ UNCHANGED <<seen, vec>>

------------------------------------------------------------------------------
(* Products.                                                               *)

Label(r) == <<Now(r), iter[r], vec[r].x, vec[r].e>>

(* The boundary values go out (HaloExchange is the detail).                *)
SendGhosts(r) ==
  /\ Now(r) \in Products /\ call[r] = None
  /\ mail' = [e \in Edges |-> IF e[1] = r /\ e[2] \in Neighbours(r)
                                THEN Append(mail[e], Label(r)) ELSE mail[e]]
  /\ call' = [call EXCEPT ![r] = Label(r)]
  /\ UNCHANGED <<setting, todo, iter, seen, vec, verdict, posted, broken, result>>

(* after: what the vectors of r are after the product; the last product    *)
(* with x is KspContext's own.                                             *)
ReceiveGhosts(r, after) ==
  /\ Now(r) \in Products /\ call[r] # None
  /\ \A p \in Neighbours(r) : mail[<<p, r>>] # <<>>
  /\ mail' = [e \in Edges |-> IF e[2] = r /\ e[1] \in Neighbours(r)
                                THEN Tail(mail[e]) ELSE mail[e]]
  /\ vec' = [vec EXCEPT ![r] = IF Now(r) = "true A x" THEN @ ELSE after]
  /\ call' = [call EXCEPT ![r] = None]
  /\ Go(r, Tail(todo[r]))
  /\ UNCHANGED <<setting, iter, seen, verdict, posted, broken, result>>

------------------------------------------------------------------------------
(* Reductions.                                                             *)

(* before: the local part of the vectors is computed when it is posted.    *)
Contribute(r, before) ==
  /\ Now(r) \in Reductions /\ call[r] = None
  /\ call' = [call EXCEPT ![r] = Label(r)]
  /\ vec' = [vec EXCEPT ![r] = before]
  /\ posted' = [posted EXCEPT ![r] =
                  @ + (IF Now(r) \in {"true norm", "norm b"} THEN 0 ELSE 1)]
  /\ UNCHANGED <<setting, todo, iter, seen, verdict, mail, broken, result>>

(* Mutant of Reads: every rank goes on with its own contribution.          *)
ReadsAlone(r) == r

(* A rank takes the result for the reduction it is at.                     *)
Reads(r) == Now(r)

(* Every rank is in a reduction of the same shape (blocking or not, and    *)
(* how many values): all receive the result, which shows one of outcomes.  *)
(* Ranks that are at different places read it as different things.         *)
Reduce(shape, outcomes) ==
  /\ \A r \in Ranks : Now(r) \in Reductions /\ call[r] # None
  /\ \A q, r \in Ranks : shape[q] = shape[r]
  /\ \E shown \in [{Reads(r) : r \in Ranks} -> UNION {outcomes[r] : r \in Ranks}] :
       /\ \A r \in Ranks : shown[Reads(r)] \in outcomes[r]
       /\ seen' = [r \in Ranks |-> seen[r] \cup shown[Reads(r)]]
  /\ todo' = [r \in Ranks |-> Tail(todo[r])]
  /\ call' = [r \in Ranks |-> None]
  /\ UNCHANGED <<setting, iter, vec, verdict, mail, posted, broken, result>>

------------------------------------------------------------------------------
(* Local work.                                                             *)

(* pc.apply; without a preconditioner the vector is copied.                *)
Precondition(r, applied) ==
  /\ Now(r) \in Applications
  /\ vec' = [vec EXCEPT ![r] = applied]
  /\ Go(r, Tail(todo[r]))
  /\ UNCHANGED <<setting, iter, seen, verdict, call, mail, posted, broken, result>>

(* The block of one rank fails (a pivot, a nested solve): `?` returns.     *)
BreakDown(r) ==
  /\ Now(r) \in Applications /\ r \in setting.fails
  /\ broken' = broken \cup {r}
  /\ Fail(r, "PcApply")
  /\ UNCHANGED <<setting, call, mail, posted, result>>

Return(r) ==
  /\ Now(r) = "return"
  /\ result' = [result EXCEPT ![r] = [reason |-> verdict[r], iterations |-> iter[r]]]
  /\ Go(r, <<>>)
  /\ UNCHANGED <<setting, iter, seen, vec, verdict, call, mail, posted, broken>>
=============================================================================
