---------------------------- MODULE KspContext ----------------------------
(***************************************************************************)
(* The life of a KspContext (context/ksp_context/mod.rs): a user chooses a *)
(* solver and a preconditioner, sets operators, edits them in place, calls *)
(* setup() and solve() in any order, and every step of a setup may fail.   *)
(* What must hold is that the solver never runs on a workspace or with a   *)
(* preconditioner that belongs to something else.                          *)
(*                                                                         *)
(* The context is one record, because setup_impl is run by setup() and by  *)
(* solve(): SetupResults(k) is the set of all ways it can end.  An         *)
(* operator is known by the versions of its structure and of its values.   *)
(* The choice of a distributed preconditioner is DistRoute.  Not here: the *)
(* preconditioning side, and what adaptive execution tunes.                *)
(***************************************************************************)
EXTENDS Integers

CONSTANTS Sizes,        (* local sizes of operators                        *)
          Comms,        (* communicators, up to congruence                 *)
          Types,        (* solver types; "cg" and "preonly" are special    *)
          PcKinds,      (* preconditioners, see SetPcType                  *)
          Deferred,     (* those that the factory cannot make at once      *)
          Numeric,      (* those with supports_numeric_update()            *)
          Candidates,   (* candidates of a preconditioner chain            *)
          MaxVersion    (* bound: versions of operators                    *)

ASSUME KspAssumption ==
  /\ Candidates \in Nat \ {0} /\ MaxVersion \in Nat
  /\ {"none", "chain"} \cap PcKinds = {}
  /\ "none" \notin Types /\ "none" \notin Comms
  /\ Sizes \subseteq Nat \ {0}
  /\ Deferred \subseteq PcKinds /\ Numeric \subseteq PcKinds \cup {"chain"}

VARIABLES
  ksp,      (* the KspContext                                              *)
  version,  (* the last version of an operator's structure or values       *)
  ran,      (* ran: the last call was a solve that reached the solver,     *)
  early     (* early: and its setup had returned early, after a fallback   *)

vars == <<ksp, version, ran, early>>

(* Stand for Option::None.                                                 *)
NoOp == [size |-> 0, comm |-> "none", known |-> TRUE, s |-> 0, v |-> 0]
NoPc == [there |-> FALSE, s |-> 0, v |-> 0]
NoIds == [there |-> FALSE, s |-> 0, v |-> 0]

Versions == 0..MaxVersion
Policies == {"Never", "ReuseNumeric", "Auto"}

Contexts ==
  [op : [size : Sizes \cup {0}, comm : Comms \cup {"none"}, known : BOOLEAN,
         s : Versions, v : Versions],                 (* amat and pmat     *)
   bound : Comms \cup {"none"},                       (* bound_comm        *)
   type : Types \cup {"none"},                        (* solver_type       *)
   solver : Types \cup {"none"},                      (* type of solver    *)
   prepared : BOOLEAN,               (* setup_workspace ran on the solver  *)
   badCg : BOOLEAN,                  (* pending_cg has an unknown norm     *)
   chosen : PcKinds \cup {"none", "chain"},           (* pc_spec, the plan *)
   pending : BOOLEAN,                                 (* pending_pc        *)
   active : 1..Candidates,                            (* plan.active + 1   *)
   (* pc, with the versions it was built from, 0 when that has failed.     *)
   pc : [there : BOOLEAN, s : Versions, v : Versions],
   last : [there : BOOLEAN, s : Versions, v : Versions],    (* last_pc_sid, vid *)
   reuse : Policies,                                  (* pc_reuse          *)
   work : Sizes \cup {0},                             (* length of tmp1    *)
   setup : BOOLEAN,                                   (* setup_called      *)
   (* What the user has done or been told, for the properties only.        *)
   edited : BOOLEAN,       (* the operator was edited after the last setup *)
   blind : BOOLEAN,        (* its structure was, and it has no ids         *)
   refused : BOOLEAN,      (* the last setup() returned an error           *)
   spoilt : BOOLEAN,       (* update_numeric failed on unchanged values    *)
   lost : BOOLEAN]         (* the chosen preconditioner was not constructed *)

Init ==
  /\ ksp = [op |-> NoOp, bound |-> "none", type |-> "none", solver |-> "none",
            prepared |-> FALSE, badCg |-> FALSE, chosen |-> "none", pending |-> FALSE,
            active |-> 1, pc |-> NoPc, last |-> NoIds, reuse |-> "Auto", work |-> 0,
            setup |-> FALSE, edited |-> FALSE, blind |-> FALSE, refused |-> FALSE,
            spoilt |-> FALSE, lost |-> FALSE]
  /\ version = 0
  /\ ran = FALSE /\ early = FALSE

Becomes(k) == ksp' = k /\ ran' = FALSE /\ early' = FALSE

(* invalidate_solver_setup and invalidate_pc_setup.                        *)
InvalidateSolver(k) == [k EXCEPT !.setup = FALSE]

(* Mutant of InvalidatePc: the ids of the old operator stay.               *)
KeepIds(k) == [k EXCEPT !.setup = FALSE]

InvalidatePc(k) == [k EXCEPT !.setup = FALSE, !.last = NoIds]

------------------------------------------------------------------------------
(* What setup_impl does.                                                   *)

Ends(k, how) == [k |-> k, how |-> how]

Built(o) == [there |-> TRUE, s |-> o.s, v |-> o.v]

(* What structure_id and values_id report: 0 when the operator has none.   *)
(* The address of the operator then stands for its structure, and does not *)
(* change.  Ids and addresses of two operators may coincide, here only     *)
(* without ids: setting new operators must clear what was noted of the old.*)
Ids(o) == [there |-> TRUE, s |-> IF o.known THEN o.s ELSE 0,
                           v |-> IF o.known THEN o.v ELSE 0]

(* Mutant of Constructed: a construction that fails is passed over.        *)
ConstructedQuietly(k) ==
  IF ~k.pc.there /\ k.pending
    THEN {Ends([k EXCEPT !.pc = [NoPc EXCEPT !.there = TRUE], !.pending = FALSE], "on"),
          Ends([k EXCEPT !.pending = FALSE], "on")}
    ELSE {Ends(k, "on")}

(* construct_deferred_preconditioner: pending_pc is taken first.           *)
Constructed(k) ==
  IF ~k.pc.there /\ k.pending
    THEN {Ends([k EXCEPT !.pc = [NoPc EXCEPT !.there = TRUE], !.pending = FALSE], "on"),
          Ends([k EXCEPT !.pending = FALSE, !.lost = TRUE], "err")}
    ELSE {Ends(k, "on")}

(* try_setup_chain_plan: the first candidate from the active one that can  *)
(* be set up; candidates that failed are never tried again.                *)
ChainResults(k, how) ==
  {Ends([k EXCEPT !.pc = Built(k.op), !.last = Ids(k.op), !.active = i], how) :
     i \in k.active..Candidates}
  \cup {Ends([k EXCEPT !.active = i], "err") : i \in k.active..Candidates}

Chained(k) ==
  IF k.pc.there THEN {Ends(k, "on")}
  ELSE IF k.chosen = "chain" THEN ChainResults([k EXCEPT !.last = NoIds], "on")
  ELSE {Ends([k EXCEPT !.last = NoIds], "on")}

(* handle_pc_setup_failure: a chain falls back to its other candidates,    *)
(* ILUTP tries again with more fill.  A success ends the setup at once.    *)
Recovered(k) ==
  IF k.chosen = "chain"
    THEN ChainResults([k EXCEPT !.pc = NoPc, !.last = NoIds], "early")
    ELSE {Ends(k, "err")} \cup
         (IF k.chosen = "ilutp"
            THEN {Ends([k EXCEPT !.pc = Built(k.op), !.last = Ids(k.op)], "early")}
            ELSE {})

(* setup or update_symbolic of the preconditioner.  What a failure leaves  *)
(* of it is of no use, except for the analysis of an unchanged structure.  *)
Rebuilt(k) ==
  {Ends([k EXCEPT !.pc = Built(k.op), !.last = Ids(k.op)], "on")}
  \cup Recovered([k EXCEPT !.pc.s = IF @ = k.op.s THEN @ ELSE 0, !.pc.v = 0])

(* Mutant of Changed: never to reuse is taken for to set up every time.    *)
ChangedOrNever(k) == ~k.op.known \/ k.last.v # Ids(k.op).v \/ k.reuse = "Never"

(* !vid_known || values_changed                                            *)
Changed(k) == ~k.op.known \/ k.last.v # Ids(k.op).v

(* update_numeric computes all values again; an error is returned as it is *)
(* and the ids remain.                                                     *)
Renewed(k) ==
  {Ends([k EXCEPT !.pc.v = k.op.v, !.last.v = Ids(k.op).v], "on"),
   Ends([k EXCEPT !.pc.v = 0, !.spoilt = @ \/ ~Changed(k)], "err")}

Refreshed(k) ==
  IF ~k.pc.there THEN {Ends(k, "on")}
  ELSE {Ends(k, "err")} \cup       (* materialize may fail                 *)
       (IF ~k.last.there \/ k.last.s # Ids(k.op).s THEN Rebuilt(k)
        ELSE IF k.chosen \in Numeric /\ (k.reuse = "ReuseNumeric"
                                          \/ (k.reuse = "Auto" /\ Changed(k))) THEN Renewed(k)
        ELSE IF Changed(k) THEN Rebuilt(k)
        ELSE {Ends(k, "on")})

(* Mutant of Completed: the workspace of another size is kept.             *)
CompletedOnce(k) ==
  [k EXCEPT !.work = IF @ = 0 THEN k.op.size ELSE @, !.prepared = k.solver # "none",
            !.setup = TRUE]

(* The rest of setup_impl: a workspace of the right length, set up for the *)
(* solver.                                                                 *)
Completed(k) ==
  [k EXCEPT !.work = k.op.size, !.prepared = k.solver # "none", !.setup = TRUE]

(* One stage after another; an error or an early return ends the setup.    *)
AndChained(ends) == UNION {IF e.how = "on" THEN Chained(e.k) ELSE {e} : e \in ends}
AndRefreshed(ends) == UNION {IF e.how = "on" THEN Refreshed(e.k) ELSE {e} : e \in ends}

SetupResults(k) ==
  IF k.op = NoOp
    THEN {Ends(k, "err")}
    ELSE {IF e.how = "on" THEN Ends(Completed(e.k), "ok") ELSE e :
            e \in AndRefreshed(AndChained(Constructed(k)))}

------------------------------------------------------------------------------
(* The calls of the user.                                                  *)

(* set_type builds a new solver; PREONLY has none.  The new type is noted  *)
(* before the staged options of CG are applied, which may fail.            *)
SetType(type) ==
  /\ UNCHANGED version
  /\ Becomes(IF type = "cg" /\ ksp.badCg
               THEN [ksp EXCEPT !.type = type]
               ELSE InvalidateSolver([ksp EXCEPT !.type = type, !.prepared = FALSE,
                                        !.solver = IF type = "preonly" THEN "none" ELSE type]))

(* set_from_options stages the norm of CG unread; a CG solver refuses it.  *)
StageCgNorm(bad) ==
  /\ UNCHANGED version
  /\ Becomes([ksp EXCEPT !.badCg = bad])

(* set_tolerances builds the solver again.                                 *)
SetTolerances ==
  /\ UNCHANGED version
  /\ Becomes(InvalidateSolver(
       IF ksp.type = "none" \/ (ksp.type = "cg" /\ ksp.badCg) THEN ksp
       ELSE [ksp EXCEPT !.prepared = FALSE,
                        !.solver = IF ksp.type = "preonly" THEN "none" ELSE ksp.type]))

(* set_restart changes the size of the solver's basis.                     *)
SetRestart ==
  /\ UNCHANGED version
  /\ Becomes(InvalidateSolver([ksp EXCEPT !.prepared = FALSE]))

SetPcType(kind) ==
  /\ UNCHANGED version
  /\ Becomes(InvalidatePc([ksp EXCEPT !.chosen = kind, !.lost = FALSE, !.active = 1,
                             !.pc = [NoPc EXCEPT !.there = kind \notin Deferred],
                             !.pending = kind \in Deferred]))

SetPcChain ==
  /\ UNCHANGED version
  /\ Becomes(InvalidatePc([ksp EXCEPT !.chosen = "chain", !.lost = FALSE, !.active = 1,
                             !.pc = NoPc, !.pending = FALSE]))

SetPcReusePolicy(policy) ==
  /\ UNCHANGED version
  /\ Becomes(InvalidateSolver([ksp EXCEPT !.reuse = policy]))

(* bind_or_check_comm accepts the communicator.                            *)
Bound(k, comm) == k.bound \in {"none", comm}

(* try_set_operators: A and P must agree (agree); a context without a      *)
(* communicator is bound before the sizes are compared.                    *)
SetOperators(size, comm, known, agree) ==
  /\ version < MaxVersion
  /\ Bound(ksp, comm)
  /\ IF agree
       THEN /\ version' = version + 1
            /\ Becomes(InvalidatePc([ksp EXCEPT !.bound = IF @ = "none" THEN comm ELSE @,
                 !.edited = FALSE, !.blind = FALSE,
                 !.op = [size |-> size, comm |-> comm, known |-> known,
                         s |-> version + 1, v |-> version + 1]]))
       ELSE UNCHANGED version /\ Becomes([ksp EXCEPT !.bound = IF @ = "none" THEN comm ELSE @])

(* The user edits the matrix in place and calls mark_structure_changed or  *)
(* mark_values_changed.                                                    *)
EditStructure ==
  /\ ksp.op # NoOp /\ version < MaxVersion
  /\ version' = version + 1
  /\ Becomes([ksp EXCEPT !.op.s = version + 1, !.edited = TRUE, !.blind = @ \/ ~ksp.op.known])

EditValues ==
  /\ ksp.op # NoOp /\ version < MaxVersion
  /\ version' = version + 1
  /\ Becomes([ksp EXCEPT !.op.v = version + 1, !.edited = TRUE])

(* setup(): "early" is Ok as well.                                         *)
Setup ==
  /\ UNCHANGED version
  /\ \E e \in SetupResults(ksp) :
       Becomes([e.k EXCEPT !.refused = e.how = "err", !.edited = @ /\ e.how = "err"])

(* solve() sets the context up if nobody has.                              *)
SolveSetup(k) == IF k.setup THEN {Ends(k, "ok")} ELSE SetupResults(k)

(* A setup that fails is the end; PREONLY needs a preconditioner, any      *)
(* other type a solver.                                                    *)
Solve ==
  /\ UNCHANGED version
  /\ \E e \in SolveSetup(ksp) :
       LET k == IF ksp.setup \/ e.how = "err" THEN e.k
                ELSE [e.k EXCEPT !.refused = FALSE, !.edited = FALSE] IN
       /\ ksp' = k
       /\ ran' = (e.how # "err" /\ IF k.type = "preonly" THEN k.pc.there ELSE k.solver # "none")
       /\ early' = (e.how = "early")

Next ==
  \/ \E type \in Types : SetType(type)
  \/ \E bad \in BOOLEAN : StageCgNorm(bad)
  \/ SetTolerances \/ SetRestart \/ SetPcChain
  \/ \E kind \in PcKinds : SetPcType(kind)
  \/ \E policy \in Policies : SetPcReusePolicy(policy)
  \/ \E size \in Sizes, comm \in Comms, known \in BOOLEAN, agree \in BOOLEAN :
       SetOperators(size, comm, known, agree)
  \/ EditStructure \/ EditValues \/ Setup \/ Solve

Spec == Init /\ [][Next]_vars

------------------------------------------------------------------------------
(* Properties.                                                             *)

TypeOK ==
  /\ ksp \in Contexts /\ version \in Versions
  /\ ran \in BOOLEAN /\ early \in BOOLEAN

(* The solver that solve() runs has had its workspace prepared for it, and *)
(* the workspace has the length of the operator, unless the setup ended    *)
(* early.  ("Critical fix: re-run solver-specific workspace setup every    *)
(* setup()".)                                                              *)
SolverReady ==
  ran /\ ~early =>
    /\ ksp.work = ksp.op.size
    /\ ksp.solver # "none" => ksp.prepared

(* The preconditioner that solve() uses was built, and built from the      *)
(* operator that is set, in its present state: unless the user edited the  *)
(* operator without a setup, went on after a refused setup or a failed     *)
(* refresh of unchanged values, or edited the structure of an operator     *)
(* that has no ids.                                                        *)
CurrentPc ==
  ran /\ ksp.pc.there /\ ~ksp.edited /\ ~ksp.refused /\ ~ksp.spoilt =>
    /\ ksp.pc.v = ksp.op.v
    /\ ksp.blind \/ ksp.pc.s = ksp.op.s

(* A solve never quietly leaves out the preconditioner the user chose,     *)
(* unless its construction has failed before or the last setup was refused.*)
ChosenPcUsed ==
  ran /\ ksp.chosen # "none" /\ ~ksp.lost /\ ~ksp.refused => ksp.pc.there

(* Operators live on the communicator the context is bound to.             *)
CommsAgree == ksp.op # NoOp => ksp.op.comm = ksp.bound

(* "If both IDs are unchanged, setup() is a cheap no-op": a second setup   *)
(* of an unedited operator with ids does nothing to the preconditioner,    *)
(* except under ReuseNumeric.                                              *)
SetupIsCheap ==
  [][ksp.setup /\ ~ksp.edited /\ ~ksp.refused /\ ksp.op.known /\ ksp.reuse # "ReuseNumeric" /\ Setup
       => UNCHANGED <<ksp.pc, ksp.last, ksp.active>>]_vars
=============================================================================
