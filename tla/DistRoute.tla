------------------------------ MODULE DistRoute ------------------------------
(***************************************************************************)
(* Which preconditioner a set-up on several ranks ends with.  setup_impl   *)
(* first installs the preconditioner that pc_global names, then refreshes  *)
(* whatever is installed for the present operator, and then always asks    *)
(* maybe_upgrade_local_pc for a route, which may build another one.  Every *)
(* rank does this for itself, with its own notes of what it has done so    *)
(* far.  Some constructions are collective: ASM and RAS (Schwarz is the    *)
(* detail), and an AMG that pc_type names (DistAmg), which is set up when  *)
(* it is refreshed.  Every construction may fail on one rank only; that of *)
(* an AMG fails on all ranks or leaves some waiting, one of the cases here.*)
(*                                                                         *)
(* The operator is a DistCsrOp on more than one rank, so that the preflight *)
(* of the native route never rejects it.  One program runs on all ranks:   *)
(* the user's calls are common, here made when all ranks are idle.         *)
(* Not here: chains of preconditioners, their fallbacks and reuse policies *)
(* (KspContext); ASM stands for RAS as well.                               *)
(***************************************************************************)
EXTENDS Integers

CONSTANTS Ranks,
          Collective,   (* kinds that the ranks can only set up together   *)
          Options,      (* what set_from_all_options may be given          *)
          MaxVersion,   (* bound: versions of the operator                 *)
          MaxGen,       (* bound: times the preconditioner is chosen       *)
          MaxSetups     (* bound: calls of setup()                         *)

NoLimit == -1

OptionsType(o) ==
  /\ o.type \in {"none", "local", "aware"}    (* pc_type: rank-local, or   *)
                                              (* with distributed support  *)
  /\ o.global \in {"none", "block", "asm"}    (* pc_global                 *)
  /\ o.apply \in {"local", "halo", "strict"}  (* pc_dist_local_apply       *)
  /\ o.route \in {"native", "adapted", "root"}            (* pc_dist_route *)
  /\ o.budget \in Nat \cup {NoLimit}          (* pc_dist_max_fallbacks     *)
  /\ o.required \in BOOLEAN                   (* pc_dist_native_required   *)
  /\ o.overlap \in BOOLEAN       (* pc_asm_*: what strict mode asks of ASM *)

ASSUME RouteAssumption ==
  /\ "asm" \in Collective /\ Collective \subseteq {"asm", "local", "aware"}
  /\ \A o \in Options : OptionsType(o)
  /\ MaxVersion \in Nat \ {0} /\ MaxGen \in Nat /\ MaxSetups \in Nat

VARIABLES
  opts,       (* pending_mpi_pc.mpi_opts, or none                          *)
  gen,        (* how often the user has chosen a preconditioner            *)
  op,         (* the version of the operator                               *)
  pc,         (* pc[r]: kind, halo coupling, options and operator it is of *)
  last,       (* last[r]: last_pc_sid and vid as a version, 0 for none     *)
  installed,  (* installed[r]: pending_mpi_pc.installed                    *)
  chain,      (* chain[r]: length of dist_route_diag.fallback_chain        *)
  at,         (* at[r]: what rank r does next in the set-up, or idle       *)
  waits,      (* waits[r]: but first it exchanges rows with all others     *)
  outcome,    (* outcome[r]: what the last set-up returned, since then     *)
              (* nothing has changed                                       *)
  setups,     (* calls of setup()                                          *)
  apart       (* a construction failed on one rank, and the ranks have not *)
              (* been given a new preconditioner since                     *)

notes == <<pc, last, installed, chain>>
vars == <<opts, gen, op, notes, at, waits, outcome, setups, apart>>

NoOptions == {}
NoPc == [kind |-> "none", halo |-> FALSE, gen |-> 0, v |-> 0]

Init ==
  /\ opts = NoOptions /\ gen = 0 /\ op = 1
  /\ pc = [r \in Ranks |-> NoPc]
  /\ last = [r \in Ranks |-> 0]
  /\ installed = [r \in Ranks |-> FALSE]
  /\ chain = [r \in Ranks |-> 0]
  /\ at = [r \in Ranks |-> "idle"]
  /\ waits = [r \in Ranks |-> FALSE]
  /\ outcome = [r \in Ranks |-> ""]
  /\ setups = 0 /\ apart = FALSE

Idle == \A r \in Ranks : at[r] = "idle"

(* A collective construction begins with an exchange: ASM gathers rows     *)
(* from its neighbours, AMG compares what each rank has kept.              *)
GoBuild(r, kind, step) ==
  /\ at' = [at EXCEPT ![r] = step]
  /\ waits' = [waits EXCEPT ![r] = kind \in Collective]
  /\ UNCHANGED outcome
Go(r, step) ==
  /\ at' = [at EXCEPT ![r] = step]
  /\ UNCHANGED <<waits, outcome>>
Stop(r, how) ==
  /\ at' = [at EXCEPT ![r] = "idle"]
  /\ outcome' = [outcome EXCEPT ![r] = how]
  /\ UNCHANGED waits

------------------------------------------------------------------------------
(* The calls of the user.                                                  *)

Own == {"local", "aware"}

(* What pc_type names, of no operator yet: the ids are forgotten.          *)
Named(type) == [kind |-> type, halo |-> FALSE, gen |-> gen + 1, v |-> 0]

(* Mutant of Anew: the fallback chain goes on.                             *)
AnewKeepingChain(type) ==
  /\ installed' = [r \in Ranks |-> FALSE]
  /\ UNCHANGED chain
  /\ IF type # "none"
       THEN pc' = [r \in Ranks |-> Named(type)] /\ last' = [r \in Ranks |-> 0] /\ apart' = FALSE
       ELSE UNCHANGED <<pc, last, apart>>

(* Mutant of Anew: the ids of the old preconditioner stay.                 *)
AnewKeepingIds(type) ==
  /\ installed' = [r \in Ranks |-> FALSE]
  /\ chain' = [r \in Ranks |-> 0]
  /\ IF type # "none"
       THEN pc' = [r \in Ranks |-> Named(type)] /\ apart' = FALSE
       ELSE UNCHANGED <<pc, apart>>
  /\ UNCHANGED last

(* set_from_all_options: without pc_type the preconditioner stays as it is.*)
Anew(type) ==
  /\ installed' = [r \in Ranks |-> FALSE]
  /\ chain' = [r \in Ranks |-> 0]
  /\ IF type # "none"
       THEN pc' = [r \in Ranks |-> Named(type)] /\ last' = [r \in Ranks |-> 0] /\ apart' = FALSE
       ELSE UNCHANGED <<pc, last, apart>>

SetFromAllOptions(o) ==
  /\ Idle /\ gen < MaxGen
  /\ opts' = {o} /\ gen' = gen + 1
  /\ Anew(o.type)
  /\ outcome' = [r \in Ranks |-> ""]
  /\ UNCHANGED <<op, at, waits, setups>>

(* set_pc_type "supersedes any previously staged distributed-PC            *)
(* configuration"; the fallback chain stays.                               *)
SetPcType(type) ==
  /\ Idle /\ gen < MaxGen
  /\ opts' = NoOptions /\ gen' = gen + 1
  /\ pc' = [r \in Ranks |-> Named(type)]
  /\ last' = [r \in Ranks |-> 0]
  /\ outcome' = [r \in Ranks |-> ""]
  /\ UNCHANGED <<op, installed, chain, at, waits, setups, apart>>

(* The operator is edited in place, or another one is set.                 *)
Edit ==
  /\ Idle /\ op < MaxVersion
  /\ op' = op + 1
  /\ outcome' = [r \in Ranks |-> ""]
  /\ UNCHANGED <<opts, gen, notes, at, waits, setups, apart>>

Setup ==
  /\ Idle /\ setups < MaxSetups
  /\ setups' = setups + 1
  /\ at' = [r \in Ranks |-> "install"]
  /\ outcome' = [r \in Ranks |-> ""]
  /\ UNCHANGED <<opts, gen, op, notes, waits, apart>>

------------------------------------------------------------------------------
(* Constructions.                                                          *)

Opts == CHOOSE o \in opts : TRUE
NativeApply == Opts.apply \in {"halo", "strict"}

New(kind) == [kind |-> kind, halo |-> kind = "block" /\ NativeApply, gen |-> gen, v |-> op]

(* validate_dist_builder_strict_mode, before anything is exchanged.        *)
Refused(kind) == kind = "asm" /\ Opts.apply = "strict" /\ ~Opts.overlap

(* All ranks take part in the exchange, whatever they gather rows for.     *)
Gather ==
  /\ \A r \in Ranks : waits[r]
  /\ waits' = [r \in Ranks |-> FALSE]
  /\ UNCHANGED <<opts, gen, op, notes, at, outcome, setups, apart>>

Building(r, steps) == at[r] \in steps /\ ~waits[r]

(* A factorisation fails on this rank: `?`.  The rank's own preconditioner *)
(* is broken by that, an adapter keeps what it had.                        *)
Fails(r) ==
  /\ Building(r, {"installed", "refreshed", "built"})
  /\ Stop(r, "err")
  /\ pc' = [pc EXCEPT ![r].v = IF at[r] = "refreshed" /\ pc[r].kind \in Own THEN 0 ELSE @]
  /\ apart' = TRUE
  /\ UNCHANGED <<opts, gen, op, last, installed, chain, setups>>

(* The requested global preconditioner replaces what is there, once.       *)
Install(r) ==
  /\ at[r] = "install"
  /\ IF opts = NoOptions \/ installed[r] THEN Go(r, "refresh")
     ELSE IF Opts.global = "none" THEN Go(r, "refresh")
     ELSE IF Refused(Opts.global) THEN Stop(r, "err")
     ELSE GoBuild(r, Opts.global, "installed")
  /\ UNCHANGED <<opts, gen, op, notes, setups, apart>>

Installed(r) ==
  /\ Building(r, {"installed"})
  /\ pc' = [pc EXCEPT ![r] = New(Opts.global)]
  /\ installed' = [installed EXCEPT ![r] = TRUE]
  /\ Go(r, "refresh")
  /\ UNCHANGED <<opts, gen, op, last, chain, setups, apart>>

(* Mutant of Stale: only a preconditioner of no operator is set up.        *)
StaleIfNew(r) == last[r] = 0

(* Its operator has changed since.                                         *)
Stale(r) == last[r] # op

Refresh(r) ==
  /\ at[r] = "refresh"
  /\ last' = [last EXCEPT ![r] = IF pc[r] = NoPc THEN 0 ELSE @]
  /\ IF pc[r] # NoPc /\ Stale(r)
       THEN GoBuild(r, pc[r].kind, "refreshed")
       ELSE Go(r, "route")
  /\ UNCHANGED <<opts, gen, op, pc, installed, chain, setups, apart>>

Refreshed(r) ==
  /\ Building(r, {"refreshed"})
  /\ pc' = [pc EXCEPT ![r].v = op]
  /\ last' = [last EXCEPT ![r] = op]
  /\ Go(r, "route")
  /\ UNCHANGED <<opts, gen, op, installed, chain, setups, apart>>

------------------------------------------------------------------------------
(* maybe_upgrade_local_pc.                                                 *)

(* resolve_dist_route, with the capability of resolve_distcsr_capability:  *)
(* pc_global comes second.                                                 *)
Selected ==
  IF NativeApply /\ Opts.route = "native" THEN "native"
  ELSE IF Opts.global # "none" THEN "configured"
  ELSE IF Opts.route = "root" THEN "root gather" ELSE "adapter"

(* The kind of the preconditioner that is built for it: the native route   *)
(* has block Jacobi only.                                                  *)
Target == IF Selected = "native" THEN "block" ELSE Opts.global

(* validate_dist_route_policy_budget.                                      *)
Allowed(fallbacks) ==
  /\ Opts.required => Selected = "native"
  /\ Opts.budget = NoLimit \/ fallbacks <= Opts.budget

(* Nothing to do: no preconditioner, or no other than a distributed one.   *)
Unrouted(r) ==
  pc[r] = NoPc \/ (Selected \in {"root gather", "adapter"} /\ pc[r].kind # "local")

Route(r) ==
  /\ at[r] = "route"
  /\ IF opts = NoOptions
       THEN /\ Stop(r, IF pc[r] = NoPc THEN "ok" ELSE "err")
            /\ UNCHANGED chain
     ELSE IF Unrouted(r) THEN Stop(r, "ok") /\ UNCHANGED chain
     ELSE IF Selected = "adapter" /\ Opts.route = "native" THEN Stop(r, "err") /\ UNCHANGED chain
     ELSE LET fallbacks == IF Selected = "native" /\ Opts.global # "none" THEN chain[r]
                                                                          ELSE chain[r] + 1 IN
          /\ chain' = [chain EXCEPT ![r] = fallbacks]
          /\ IF ~Allowed(fallbacks) THEN Stop(r, "err")
             ELSE IF Selected \in {"root gather", "adapter"}
               THEN Stop(r, IF Opts.apply = "strict" THEN "err" ELSE "ok")
             ELSE IF Refused(Target) THEN Stop(r, "err")
             ELSE GoBuild(r, Target, "built")
  /\ UNCHANGED <<opts, gen, op, pc, last, installed, setups, apart>>

(* What has been built is then set up, which builds it once more of the    *)
(* same rows: with the same outcome.                                       *)
Built(r) ==
  /\ Building(r, {"built"})
  /\ GoBuild(r, Target, "routed")
  /\ UNCHANGED <<opts, gen, op, notes, setups, apart>>

Routed(r) ==
  /\ Building(r, {"routed"})
  /\ pc' = [pc EXCEPT ![r] = New(Target)]
  /\ last' = [last EXCEPT ![r] = op]
  /\ Stop(r, "ok")
  /\ UNCHANGED <<opts, gen, op, installed, chain, setups, apart>>

Rank(r) ==
  Install(r) \/ Installed(r) \/ Refresh(r) \/ Refreshed(r) \/ Route(r) \/ Built(r) \/ Routed(r)

Next ==
  \/ \E o \in Options : SetFromAllOptions(o)
  \/ \E type \in Own : SetPcType(type)
  \/ Edit \/ Setup \/ Gather
  \/ \E r \in Ranks : Rank(r) \/ Fails(r)

Spec == Init /\ [][Next]_vars

(* A rank in a set-up goes on, to an error at the latest; an exchange that *)
(* all ranks have entered ends.                                            *)
FairSpec == Spec /\ WF_vars(Gather) /\ \A r \in Ranks : WF_vars(Rank(r) \/ Fails(r))

------------------------------------------------------------------------------
(* What the documentation promises of a setting (docs/communicators.md:    *)
(* pc_global overrides pc_type; the native route promotes pc_type to block *)
(* Jacobi), "none" if nothing.                                             *)
Native == Opts.route = "native" /\ NativeApply
Requested == IF Opts.global # "none" THEN Opts.global
             ELSE IF Native THEN "block" ELSE Opts.type

(* The code departs from the documentation: the native route has block     *)
(* Jacobi only, in place of the ASM that pc_global names.                  *)
InPlaceOfAsm == Native /\ Opts.global = "asm"

(* It departs from a test (mpi_strict_mode_rejects_adapter_masking), too:  *)
(* strict mode is to refuse every route but the native one, but pc_global  *)
(* is served before its mode is looked at.                                 *)
ServedThoughStrict == Opts.route # "native" /\ Opts.global # "none"

(* A set-up that succeeds leaves the preconditioner that was requested     *)
(* (but for InPlaceOfAsm), made with the present options of the present    *)
(* operator, coupled over the halo where that was asked for; what was not  *)
(* requested but stays is up to date as well.  Nothing is missing that     *)
(* pc_global asked for.  Strict mode succeeds on the native route, with a  *)
(* preconditioner that needs no route, or as ServedThoughStrict: never     *)
(* with a rank-local one that was only let through.                        *)
RequestedInUse ==
  \A r \in Ranks : outcome[r] = "ok" /\ opts # NoOptions =>
    /\ pc[r] = NoPc => Opts.global = "none"
    /\ pc[r] # NoPc =>
         /\ pc[r].v = op
         /\ \/ Requested = "none"
            \/ pc[r] = [kind |-> Requested, gen |-> gen, v |-> op,
                        halo |-> Requested = "block" /\ NativeApply]
            \/ InPlaceOfAsm /\ pc[r] = [kind |-> "block", gen |-> gen, v |-> op, halo |-> TRUE]
         /\ Opts.apply = "strict" => Native \/ ServedThoughStrict \/ pc[r].kind # "local"

(* Until a construction fails on one rank, ranks that exchange rows do it  *)
(* for the same preconditioner, and ranks that have finished agree on the  *)
(* outcome and have the same notes: their next set-up makes the same       *)
(* collective calls.  set_from_all_options with a pc_type makes ranks that *)
(* a failure has driven apart agree again.                                 *)
RanksAlike ==
  ~apart => \A q, r \in Ranks :
    /\ waits[q] /\ waits[r] => at[q] = at[r]
    /\ at[q] = "idle" /\ at[r] = "idle" =>
         /\ outcome[q] = outcome[r]
         /\ <<pc[q], last[q], chain[q]>> = <<pc[r], last[r], chain[r]>>

(* Every rank returns from its set-up, unless a construction failed on one *)
(* of them: the code has no agreement on failures, so that others may wait *)
(* in an exchange for it.                                                  *)
EveryRankReturns == \A r \in Ranks : at[r] # "idle" ~> (at[r] = "idle" \/ apart)
=============================================================================
