------------------------------ MODULE DistAmg ------------------------------
(***************************************************************************)
(* Algebraic multigrid over several ranks (preconditioner/amg.rs), one     *)
(* set-up after the other and an application after each that succeeds.     *)
(* With the strategy root_gather rank 0 gathers the matrix, builds the     *)
(* hierarchy alone and solves for everyone; with local_prototype and       *)
(* distributed_csr every rank builds one for its own rows, and with the    *)
(* latter also a distributed operator for the residual.  A failure of one  *)
(* rank has to become the failure of all, and what an earlier set-up left  *)
(* may be kept only if all ranks can keep it.                              *)
(*                                                                         *)
(* A set-up is numbered by round; what was made in it carries its number.  *)
(* The hierarchy itself is numerical and left out.                         *)
(***************************************************************************)
EXTENDS Integers, Sequences, FiniteSets

CONSTANTS Size,      (* ranks of the communicator                          *)
          Edges,     (* <<p, q>>: q has entries in columns of p            *)
          Settings   (* options, calls and failures                        *)

Ranks == 0..Size - 1
Root == 0
Strategies == {"root", "local", "csr"}
SettingType(s) ==
  /\ s.strategy \in Strategies
  /\ s.rounds \in Seq({"pattern", "values", "symbolic"})
                 (* what changed before a set-up; symbolic: the pattern, and *)
                 (* the caller says so (update_symbolic)                   *)
  /\ s.fails \in [Ranks -> SUBSET (1..Len(s.rounds))]  (* set-ups that fail *)
  /\ s.brittle \subseteq Ranks                 (* whose numeric update fails *)

ASSUME DistAmgAssumption ==
  /\ Size \in Nat \ {0} /\ Edges \subseteq Ranks \X Ranks
  /\ \A e \in Edges : e[1] # e[2] /\ <<e[2], e[1]>> \in Edges
  /\ \A s \in Settings : SettingType(s)

VARIABLES
  setting,
  round,     (* round[r]: set-ups rank r has begun                         *)
  todo,      (* todo[r]: what it does next, in order                       *)
  failed,    (* failed[r]: what it brings into the next reduction          *)
  sum,       (* sum[r]: whether any rank brought a failure                 *)
  built,     (* built[r]: what it keeps, by the rounds it was made in      *)
  outcome,   (* outcome[r][k]: what set-up k returned, or ""               *)
  used,      (* used[r]: messages that went into the last application      *)
  inside,    (* inside[r]: it has sent its part of an exchange             *)
  mail       (* mail[<<p, q>>]: messages from p that q has not received    *)

vars == <<setting, round, todo, failed, sum, built, outcome, used, inside, mail>>

Pairs == {e \in Ranks \X Ranks : e[1] # e[2]}
Others(r) == Ranks \ {r}
Now(r) == IF todo[r] = <<>> THEN "done" ELSE Head(todo[r])
Is(strategy) == setting.strategy = strategy
Rounds == 1..Len(setting.rounds)

(* The round of the last change of the pattern.                            *)
Pattern(k) == CHOOSE j \in 1..k : /\ j = 1 \/ setting.rounds[j] # "values"
                                  /\ \A i \in j + 1..k : setting.rounds[i] = "values"

Nothing == [amg |-> 0, matrix |-> 0, op |-> 0, pattern |-> 0]

Init ==
  /\ setting \in Settings
  /\ round = [r \in Ranks |-> 0]
  /\ todo = [r \in Ranks |-> <<"begin">>]
  /\ failed = [r \in Ranks |-> FALSE] /\ sum = [r \in Ranks |-> FALSE]
  /\ built = [r \in Ranks |-> Nothing]
  /\ outcome = [r \in Ranks |-> [k \in Rounds |-> ""]]
  /\ used = [r \in Ranks |-> {}]
  /\ inside = [r \in Ranks |-> FALSE]
  /\ mail = [e \in Pairs |-> <<>>]

Go(r, next) == todo' = [todo EXCEPT ![r] = next]
Proceed(r) == Go(r, Tail(todo[r]))

------------------------------------------------------------------------------
(* Exchanges and reductions.                                               *)

ToRoot == {"gather_matrix", "report", "gather_r"}
FromRoot == {"verdict", "scatter_z"}
Exchanges == ToRoot \cup FromRoot \cup {"handshake", "halo"}

Targets(r) ==
  CASE Now(r) \in ToRoot -> {Root} \ {r}
    [] Now(r) \in FromRoot -> IF r = Root THEN Others(r) ELSE {}
    [] Now(r) = "halo" -> {q \in Others(r) : <<r, q>> \in Edges}
    [] OTHER -> Others(r)
Sources(r) ==
  CASE Now(r) \in ToRoot -> IF r = Root THEN Others(r) ELSE {}
    [] Now(r) \in FromRoot -> {Root} \ {r}
    [] Now(r) = "halo" -> {q \in Others(r) : <<q, r>> \in Edges}
    [] OTHER -> Others(r)

Message(r) == [call |-> Now(r), round |-> round[r], of |-> built[r].amg]

Send(r) ==
  /\ Now(r) \in Exchanges /\ ~inside[r]
  /\ mail' = [e \in Pairs |-> IF e[1] = r /\ e[2] \in Targets(r)
                                THEN Append(mail[e], Message(r)) ELSE mail[e]]
  /\ inside' = [inside EXCEPT ![r] = TRUE]
  /\ UNCHANGED <<setting, round, todo, failed, sum, built, outcome, used>>

Receive(r) ==
  /\ inside[r] /\ \A q \in Sources(r) : mail[<<q, r>>] # <<>>
  /\ used' = [used EXCEPT ![r] = @ \cup {Head(mail[<<q, r>>]) : q \in Sources(r)}]
  /\ mail' = [e \in Pairs |-> IF e[2] = r /\ e[1] \in Sources(r) THEN Tail(mail[e]) ELSE mail[e]]
  /\ inside' = [inside EXCEPT ![r] = FALSE]
  /\ Proceed(r)
  /\ UNCHANGED <<setting, round, failed, sum, built, outcome>>

(* Mutant of Total: every rank sees its own failure only.                  *)
TotalAlone(r) == failed[r]

Total(r) == \E q \in Ranks : failed[q]

Reduce ==
  /\ \A r \in Ranks : Now(r) = "reduce"
  /\ sum' = [r \in Ranks |-> Total(r)]
  /\ todo' = [r \in Ranks |-> Tail(todo[r])]
  /\ failed' = [r \in Ranks |-> FALSE]
  /\ UNCHANGED <<setting, round, built, outcome, used, inside, mail>>

------------------------------------------------------------------------------
(* Set-up.                                                                 *)

Rebuild == IF Is("root") THEN <<"gather_matrix", "build", "reduce", "conclude">>
                         ELSE <<"build", "plan", "reduce", "conclude">>

(* The caller's next set-up; setup and update_numeric are alike.           *)
Begin(r) ==
  /\ Now(r) = "begin"
  /\ IF round[r] = Len(setting.rounds)
       THEN Go(r, <<>>) /\ UNCHANGED round
       ELSE /\ round' = [round EXCEPT ![r] = @ + 1]
            /\ Go(r, IF Is("root") \/ setting.rounds[round[r] + 1] = "symbolic" THEN Rebuild
                     ELSE <<"compare", "reduce", "update">>)
  /\ UNCHANGED <<setting, failed, sum, built, outcome, used, inside, mail>>

(* What the rank has fits the new matrix but for the values.               *)
Compatible(r) ==
  /\ built[r].amg # 0 /\ (Is("csr") => built[r].op # 0)
  /\ built[r].pattern = Pattern(round[r])

Compare(r) ==
  /\ Now(r) = "compare"
  /\ failed' = [failed EXCEPT ![r] = ~Compatible(r)]
  /\ Proceed(r)
  /\ UNCHANGED <<setting, round, sum, built, outcome, used, inside, mail>>

(* update_numeric of the local solver; the operator is built again by a    *)
(* handshake of all ranks.                                                 *)
Update(r) ==
  /\ Now(r) = "update"
  /\ IF sum[r] THEN Go(r, Rebuild) /\ UNCHANGED <<failed, built>>
     ELSE IF r \in setting.brittle
       THEN /\ failed' = [failed EXCEPT ![r] = TRUE] /\ UNCHANGED built
            /\ Go(r, <<"reduce", "updated">>)
       ELSE /\ built' = [built EXCEPT ![r].amg = round[r]] /\ UNCHANGED failed
            /\ Go(r, IF Is("csr") THEN <<"handshake", "adopt", "reduce", "updated">>
                                 ELSE <<"adopt", "reduce", "updated">>)
  /\ UNCHANGED <<setting, round, sum, outcome, used, inside, mail>>

(* Mutant of Renewed: the operator of the residual keeps its values.       *)
RenewedMatrix(r) == [built[r] EXCEPT !.matrix = round[r]]

Renewed(r) == [built[r] EXCEPT !.matrix = round[r], !.op = IF Is("csr") THEN round[r] ELSE @]

Adopt(r) ==
  /\ Now(r) = "adopt"
  /\ built' = [built EXCEPT ![r] = Renewed(r)]
  /\ Proceed(r)
  /\ UNCHANGED <<setting, round, failed, sum, outcome, used, inside, mail>>

Application ==
  IF Is("root") THEN <<"apply", "gather_r", "scatter_z", "applied", "begin">>
                ELSE <<"apply", "halo", "applied", "begin">>

Succeed(r) ==
  /\ outcome' = [outcome EXCEPT ![r][round[r]] = "ok"]
  /\ Go(r, Application)

Updated(r) ==
  /\ Now(r) = "updated"
  /\ IF sum[r] THEN Go(r, Rebuild) /\ UNCHANGED outcome ELSE Succeed(r)
  /\ UNCHANGED <<setting, round, failed, sum, built, used, inside, mail>>

(* The hierarchy: rank 0's of the gathered matrix, strict, then permissive; *)
(* or each rank's of its own block.  In the former case the state of the   *)
(* earlier set-up is gone already.                                         *)
Build(r) ==
  /\ Now(r) = "build"
  /\ failed' = [failed EXCEPT ![r] = round[r] \in setting.fails[r] /\ (Is("root") => r = Root)]
  /\ built' = IF Is("root") THEN [built EXCEPT ![r] = [Nothing EXCEPT !.matrix = round[r]]] ELSE built
  /\ Proceed(r)
  /\ UNCHANGED <<setting, round, sum, outcome, used, inside, mail>>

(* Mutant of Plan: a rank whose hierarchy failed skips the handshake.      *)
PlanIfBuilt(r) ==
  /\ Now(r) = "plan"
  /\ Go(r, IF failed[r] THEN <<"reduce", "conclude">> ELSE <<"handshake", "reduce", "conclude">>)
  /\ UNCHANGED <<setting, round, failed, sum, built, outcome, used, inside, mail>>

(* Both make a halo plan by a handshake; the halo of local_prototype only  *)
(* where the local hierarchy could be built.                               *)
Plan(r) ==
  /\ Now(r) = "plan"
  /\ Go(r, IF Is("csr") \/ ~failed[r] THEN <<"handshake", "reduce", "conclude">>
                                       ELSE <<"reduce", "conclude">>)
  /\ UNCHANGED <<setting, round, failed, sum, built, outcome, used, inside, mail>>

(* A failure of any rank is reported to rank 0 and from there to everyone. *)
Conclude(r) ==
  /\ Now(r) = "conclude"
  /\ IF sum[r]
       THEN /\ Go(r, <<"report", "verdict", "refused">>)
            /\ UNCHANGED <<built, outcome>>
       ELSE /\ built' = [built EXCEPT ![r] =
                 [amg |-> IF Is("root") /\ r # Root THEN 0 ELSE round[r], matrix |-> round[r],
                  op |-> IF Is("csr") THEN round[r] ELSE 0, pattern |-> Pattern(round[r])]]
            /\ Succeed(r)
  /\ UNCHANGED <<setting, round, failed, sum, used, inside, mail>>

Refuse(r) ==
  /\ Now(r) = "refused"
  /\ outcome' = [outcome EXCEPT ![r][round[r]] = "error"]
  /\ Go(r, <<"begin">>)
  /\ UNCHANGED <<setting, round, failed, sum, built, used, inside, mail>>

------------------------------------------------------------------------------
(* Application.                                                            *)

Apply(r) ==
  /\ Now(r) = "apply"
  /\ used' = [used EXCEPT ![r] = {}]
  /\ Proceed(r)
  /\ UNCHANGED <<setting, round, failed, sum, built, outcome, inside, mail>>

Return(r) ==
  /\ Now(r) = "applied"
  /\ Proceed(r)
  /\ UNCHANGED <<setting, round, failed, sum, built, outcome, used, inside, mail>>

------------------------------------------------------------------------------
Rank(r) ==
  \/ Send(r) \/ Receive(r)
  \/ Begin(r) \/ Compare(r) \/ Update(r) \/ Adopt(r) \/ Updated(r)
  \/ Build(r) \/ Plan(r) \/ Conclude(r) \/ Refuse(r) \/ Apply(r) \/ Return(r)

Next == Reduce \/ \E r \in Ranks : Rank(r)

Spec == Init /\ [][Next]_vars

(* A rank that can go on does; a reduction all ranks have entered ends.    *)
FairSpec == Spec /\ WF_vars(Reduce) /\ \A r \in Ranks : WF_vars(Rank(r))

------------------------------------------------------------------------------
(* Properties.                                                             *)

(* "Errors are synchronized so all ranks return the same failure before    *)
(* any iteration starts": set-up k succeeds on all ranks or on none.       *)
ErrorsSynchronized ==
  \A k \in Rounds : \A q, r \in Ranks :
    outcome[q][k] # "" /\ outcome[r][k] # "" => outcome[q][k] = outcome[r][k]

(* What is applied after a set-up was made by that set-up or updated in    *)
(* it: the solver, the matrix and the operator of each rank, and the       *)
(* solver and the vectors of the ranks it receives values from.            *)
CurrentInUse ==
  \A r \in Ranks : Now(r) = "applied" =>
    /\ built[r].matrix = round[r]
    /\ Is("csr") => built[r].op = round[r]
    /\ r = Root \/ ~Is("root") => built[r].amg = round[r]
    /\ built[r].pattern = Pattern(round[r])
    /\ \A m \in used[r] : m.round = round[r] /\ m.call \in {"gather_r", "scatter_z", "halo"}
                          /\ (m.call # "gather_r" => m.of = round[r])

(* Two failures are not synchronised: a rank whose local hierarchy fails   *)
(* skips the handshake of build_amg_halo_plan (amg.rs:4490), and one whose *)
(* numeric update fails skips that of the new operator (amg.rs:4638); both *)
(* go on to the reduction while the ranks that succeeded wait for them.    *)
SomeOnly(S) == S # {} /\ S # Ranks
Rebuilds(k) == k = 1 \/ setting.rounds[k] # "values" \/ setting.brittle # {}
PartWays(k) ==
  \/ Is("local") /\ Rebuilds(k) /\ SomeOnly({r \in Ranks : k \in setting.fails[r]})
  \/ Is("csr") /\ setting.rounds[k] = "values" /\ SomeOnly(setting.brittle)

(* Set-up k has returned on rank r, and so has the application after it.   *)
Returned(r, k) ==
  outcome[r][k] # "" /\ (round[r] > k \/ Now(r) \in {"begin", "done"})

(* "Errors are synchronized" again (amg.rs:4265): every set-up, and every  *)
(* application, returns on every rank whoever fails, up to the first       *)
(* set-up in which ranks part ways (PartWays is the excuse).               *)
EveryRankReturns ==
  <>(\A r \in Ranks : \A k \in Rounds :
       (\A j \in 1..k : ~PartWays(j)) => Returned(r, k))
=============================================================================
