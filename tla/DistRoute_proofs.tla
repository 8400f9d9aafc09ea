-------------------------- MODULE DistRoute_proofs --------------------------
(***************************************************************************)
(* Proofs about DistRoute: a set-up that succeeds leaves the requested     *)
(* preconditioner, of the present operator, and ranks stay alike until a   *)
(* construction fails.  They hold for any number of ranks and all options. *)
(***************************************************************************)
EXTENDS DistRoute, TLAPS

Kinds == {"none", "local", "aware", "block", "asm"}
Pcs == [kind : Kinds, halo : BOOLEAN, gen : Nat, v : Nat]
Steps == {"idle", "install", "installed", "refresh", "refreshed", "route", "built", "routed"}

TypeOK ==
  /\ opts = NoOptions \/ \E o \in Options : opts = {o}
  /\ gen \in Nat /\ op \in Nat \ {0}
  /\ pc \in [Ranks -> Pcs]
  /\ last \in [Ranks -> Nat]
  /\ installed \in [Ranks -> BOOLEAN]
  /\ chain \in [Ranks -> Nat]
  /\ at \in [Ranks -> Steps]
  /\ waits \in [Ranks -> BOOLEAN]
  /\ outcome \in [Ranks -> {"", "ok", "err"}]

------------------------------------------------------------------------------
(* The inductive invariant, rank by rank.                                  *)

(* The ids are those of the operator the preconditioner was made of: they  *)
(* are never newer than the operator, and only what is up to date has      *)
(* those of the present one.                                               *)
LastTells(r) == last[r] <= op /\ (last[r] = op => pc[r].v = op)

Asked == opts # NoOptions /\ Opts.global # "none"

(* What a rank has achieved when it reaches a step.                        *)
Progress(r) ==
  /\ at[r] # "idle" => outcome[r] = ""
  /\ at[r] = "installed" => Asked
  /\ at[r] \in {"refresh", "refreshed", "route", "built", "routed"} /\ Asked => installed[r]
  /\ at[r] = "refreshed" => last[r] # op
  /\ at[r] \in {"route", "built", "routed"} => (pc[r] # NoPc => pc[r].v = op)
  /\ at[r] \in {"built", "routed"} =>
       opts # NoOptions /\ Selected \in {"native", "configured"}

(* What was installed is there; what pc_type named is there as long as no  *)
(* route replaces it.                                                      *)
Kept(r) ==
  /\ installed[r] => pc[r] # NoPc
  /\ opts # NoOptions /\ Selected \in {"root gather", "adapter"} /\ Opts.type # "none" =>
       pc[r].kind = Opts.type /\ ~pc[r].halo /\ pc[r].gen = gen

(* What a success means, by the route that was taken: strict mode lets no  *)
(* rank-local preconditioner pass on the routes that build none.           *)
InUse(r) ==
  /\ Opts.global # "none" => pc[r] # NoPc
  /\ pc[r] # NoPc =>
       /\ pc[r].v = op
       /\ CASE Selected = "native" -> pc[r] = New("block")
            [] Selected = "configured" -> pc[r] = New(Opts.global)
            [] OTHER -> /\ Opts.type # "none" => pc[r] = New(Opts.type)
                        /\ Opts.apply = "strict" => pc[r].kind # "local"

Promised(r) == outcome[r] = "ok" /\ opts # NoOptions => InUse(r)

RankInv(r) == LastTells(r) /\ Progress(r) /\ Kept(r) /\ Promised(r)

IInv == TypeOK /\ \A r \in Ranks : RankInv(r)

------------------------------------------------------------------------------
(* The four routes exclude each other, and the last two are taken only     *)
(* without pc_global.                                                      *)
LEMMA Routes ==
  /\ Selected \in {"native", "configured", "root gather", "adapter"}
  /\ Selected = "configured" => Opts.global # "none"
  /\ Selected \in {"root gather", "adapter"} => Opts.global = "none"
BY DEF Selected

LEMMA OptsIs ==
  ASSUME NEW o, opts = {o}
  PROVE  Opts = o
BY DEF Opts

LEMMA OptsTypes ==
  ASSUME TypeOK, opts # NoOptions
  PROVE  OptionsType(Opts)
<1>1. PICK o \in Options : opts = {o}
  BY DEF TypeOK
<1> QED
  BY <1>1, OptsIs, RouteAssumption

LEMMA NewTypes ==
  ASSUME TypeOK, NEW kind \in Kinds
  PROVE  /\ New(kind) \in Pcs /\ New(kind).kind = kind /\ New(kind).v = op
         /\ New(kind).gen = gen
<1>1. NativeApply \in BOOLEAN
  BY DEF NativeApply
<1> QED
  BY <1>1 DEF TypeOK, New, Pcs

(* What depends on the user's calls alone.                                 *)
LEMMA SameSettings ==
  ASSUME UNCHANGED <<opts, gen, op>>
  PROVE  /\ Opts' = Opts /\ Selected' = Selected /\ Asked' = Asked
         /\ \A kind : New(kind)' = New(kind)
<1>1. Opts' = Opts
  BY DEF Opts
<1>2. NativeApply' = NativeApply
  BY <1>1 DEF NativeApply
<1> QED
  BY <1>1, <1>2 DEF Selected, Asked, New, NoOptions

(* A rank whose own state does not change.                                 *)
LEMMA Frame ==
  ASSUME NEW r \in Ranks, RankInv(r), UNCHANGED <<opts, gen, op>>,
         pc'[r] = pc[r], last'[r] = last[r], installed'[r] = installed[r],
         at'[r] = at[r], outcome'[r] = outcome[r]
  PROVE  RankInv(r)'
<1>1. LastTells(r)'
  BY DEF RankInv, LastTells
<1>2. Kept(r)'
  BY SameSettings DEF RankInv, Kept, NoOptions, NoPc
<1>3. Progress(r)'
  BY SameSettings DEF RankInv, Progress, Asked, NoOptions, NoPc
<1>4. Promised(r)'
  BY SameSettings DEF RankInv, Promised, InUse, NoOptions, NoPc
<1> QED
  BY <1>1, <1>2, <1>3, <1>4 DEF RankInv

------------------------------------------------------------------------------
(* Types.                                                                  *)

LEMMA NamedTypes ==
  ASSUME TypeOK, NEW type \in Own
  PROVE  Named(type) \in Pcs /\ Named(type) # NoPc
<1> gen \in Nat
  BY DEF TypeOK
<1>1. gen + 1 \in Nat /\ gen + 1 # 0 /\ type \in Kinds
  BY DEF Own, Kinds
<1>2. Named(type).gen # NoPc.gen
  BY <1>1 DEF Named, NoPc
<1> QED
  BY <1>1, <1>2 DEF Named, Pcs

LEMMA UserTypes ==
  ASSUME TypeOK,
         \/ \E o \in Options : SetFromAllOptions(o)
         \/ \E type \in Own : SetPcType(type)
         \/ Edit \/ Setup \/ Gather
  PROVE  TypeOK'
<1>1. ASSUME NEW o \in Options, SetFromAllOptions(o) PROVE TypeOK'
  <2>1. pc' \in [Ranks -> Pcs] /\ last' \in [Ranks -> Nat]
    <3>1. CASE o.type = "none"
      BY <1>1, <3>1 DEF SetFromAllOptions, Anew, TypeOK
    <3>2. CASE o.type # "none"
      <4>1. o.type \in Own
        BY <3>2, RouteAssumption DEF OptionsType, Own
      <4> QED
        <5>1. Named(o.type) \in Pcs
          BY <4>1, NamedTypes
        <5>2. /\ pc' = [q \in Ranks |-> Named(o.type)]
              /\ last' = [q \in Ranks |-> 0]
          BY <1>1, <3>2 DEF SetFromAllOptions, Anew
        <5> QED
          BY <5>1, <5>2
    <3> QED
      BY <3>1, <3>2
  <2>2. gen' = gen + 1 /\ gen \in Nat
    BY <1>1 DEF SetFromAllOptions, TypeOK
  <2>3. gen' \in Nat
    BY <2>2
  <2>4. /\ installed' \in [Ranks -> BOOLEAN] /\ chain' \in [Ranks -> Nat]
        /\ outcome' \in [Ranks -> {"", "ok", "err"}]
    BY <1>1 DEF SetFromAllOptions, Anew
  <2> QED
    BY <1>1, <2>1, <2>3, <2>4 DEF SetFromAllOptions, TypeOK
<1>2. ASSUME NEW type \in Own, SetPcType(type) PROVE TypeOK'
  <2>1. gen' = gen + 1 /\ gen \in Nat
    BY <1>2 DEF SetPcType, TypeOK
  <2>2. gen' \in Nat
    BY <2>1
  <2>3. pc' \in [Ranks -> Pcs]
    BY <1>2, NamedTypes DEF SetPcType
  <2>4. last' \in [Ranks -> Nat] /\ outcome' \in [Ranks -> {"", "ok", "err"}]
    BY <1>2 DEF SetPcType
  <2> QED
    BY <1>2, <2>2, <2>3, <2>4 DEF SetPcType, TypeOK
<1>3. CASE Edit
  <2> op \in Nat
    BY DEF TypeOK
  <2>0. op' = op + 1
    BY <1>3 DEF Edit
  <2>1. op' \in Nat \ {0}
    BY <2>0
  <2>2. outcome' \in [Ranks -> {"", "ok", "err"}]
    BY <1>3 DEF Edit
  <2> QED
    BY <1>3, <2>1, <2>2 DEF Edit, notes, TypeOK
<1>4. CASE Setup
  BY <1>4 DEF Setup, notes, TypeOK, Steps
<1>5. CASE Gather
  BY <1>5 DEF Gather, notes, TypeOK
<1> QED
  BY <1>1, <1>2, <1>3, <1>4, <1>5

MoveTypes ==
  /\ at \in [Ranks -> Steps] /\ waits \in [Ranks -> BOOLEAN]
  /\ outcome \in [Ranks -> {"", "ok", "err"}]

LEMMA GoTypes ==
  ASSUME TypeOK, NEW r \in Ranks
  PROVE  /\ \A step \in Steps : Go(r, step) => MoveTypes'
         /\ \A step \in Steps : \A kind : GoBuild(r, kind, step) => MoveTypes'
         /\ \A how \in {"ok", "err"} : Stop(r, how) => MoveTypes'
<1>1. \A step \in Steps : [at EXCEPT ![r] = step] \in [Ranks -> Steps]
  BY DEF TypeOK
<1>2. \A b \in BOOLEAN : [waits EXCEPT ![r] = b] \in [Ranks -> BOOLEAN]
  BY DEF TypeOK
<1>3. \A how \in {"", "ok", "err"} :
        [outcome EXCEPT ![r] = how] \in [Ranks -> {"", "ok", "err"}]
  BY DEF TypeOK
<1>4. "idle" \in Steps
  BY DEF Steps
<1>5. ASSUME NEW step \in Steps, Go(r, step) PROVE MoveTypes'
  BY <1>1, <1>5 DEF TypeOK, MoveTypes, Go
<1>6. ASSUME NEW step \in Steps, NEW kind, GoBuild(r, kind, step) PROVE MoveTypes'
  <2>1. (kind \in Collective) \in BOOLEAN
    OBVIOUS
  <2> QED
    BY <1>1, <1>2, <1>6, <2>1 DEF TypeOK, MoveTypes, GoBuild
<1>7. ASSUME NEW how \in {"ok", "err"}, Stop(r, how) PROVE MoveTypes'
  BY <1>1, <1>3, <1>4, <1>7 DEF TypeOK, MoveTypes, Stop
<1> QED
  BY <1>5, <1>6, <1>7
LEMMA RankTypes ==
  ASSUME TypeOK, NEW r \in Ranks, Progress(r), Rank(r) \/ Fails(r)
  PROVE  TypeOK'
<1>0. /\ \A p \in Pcs : [pc EXCEPT ![r] = p] \in [Ranks -> Pcs]
      /\ \A v \in Nat : [pc EXCEPT ![r].v = v] \in [Ranks -> Pcs]
      /\ \A v \in Nat : [last EXCEPT ![r] = v] \in [Ranks -> Nat]
      /\ [installed EXCEPT ![r] = TRUE] \in [Ranks -> BOOLEAN]
  BY DEF TypeOK, Pcs
<1>1. CASE Install(r)
  <2>1. MoveTypes'
    BY <1>1, GoTypes DEF Install, Steps
  <2> QED
    BY <1>1, <2>1 DEF Install, notes, MoveTypes, TypeOK
<1>2. CASE Installed(r)
  <2>1. MoveTypes'
    BY <1>2, GoTypes DEF Installed, Steps
  <2>2. Opts.global \in Kinds
    BY <1>2, OptsTypes DEF Installed, Building, Progress, Asked, OptionsType, Kinds
  <2>3. pc' = [pc EXCEPT ![r] = New(Opts.global)]
    BY <1>2 DEF Installed
  <2>4. pc' \in [Ranks -> Pcs]
    BY <1>0, <2>2, <2>3, NewTypes
  <2> QED
    BY <1>0, <1>2, <2>1, <2>4 DEF Installed, MoveTypes, TypeOK
<1>3. CASE Refresh(r)
  <2>1. MoveTypes'
    BY <1>3, GoTypes DEF Refresh, Steps
  <2>2. last' \in [Ranks -> Nat]
    BY <1>3 DEF Refresh, TypeOK
  <2> QED
    BY <1>3, <2>1, <2>2 DEF Refresh, MoveTypes, TypeOK
<1>4. CASE Refreshed(r)
  <2>1. MoveTypes'
    BY <1>4, GoTypes DEF Refreshed, Steps
  <2>2. op \in Nat
    BY DEF TypeOK
  <2> QED
    BY <1>0, <1>4, <2>1, <2>2 DEF Refreshed, MoveTypes, TypeOK
<1>5. CASE Route(r)
  <2>1. MoveTypes'
    BY <1>5, GoTypes DEF Route, Steps
  <2>2. \/ chain' = chain
        \/ chain' = [chain EXCEPT ![r] = chain[r]]
        \/ chain' = [chain EXCEPT ![r] = chain[r] + 1]
    BY <1>5 DEF Route
  <2>3. chain \in [Ranks -> Nat] /\ chain[r] \in Nat
    BY DEF TypeOK
  <2>4. chain' \in [Ranks -> Nat]
    BY <2>2, <2>3
  <2> QED
    BY <1>5, <2>1, <2>4 DEF Route, MoveTypes, TypeOK
<1>6. CASE Built(r)
  <2>1. MoveTypes'
    BY <1>6, GoTypes DEF Built, Steps
  <2> QED
    BY <1>6, <2>1 DEF Built, notes, MoveTypes, TypeOK
<1>7. CASE Routed(r)
  <2>1. MoveTypes'
    BY <1>7, GoTypes DEF Routed, Steps
  <2>2. opts # NoOptions /\ Target \in Kinds
    BY <1>7, OptsTypes DEF Routed, Building, Progress, Target, OptionsType, Kinds
  <2>3. op \in Nat /\ New(Target) \in Pcs
    BY <2>2, NewTypes DEF TypeOK
  <2> QED
    BY <1>0, <1>7, <2>1, <2>3 DEF Routed, MoveTypes, TypeOK
<1>8. CASE Fails(r)
  <2>1. MoveTypes'
    BY <1>8, GoTypes DEF Fails, Steps
  <2>2. pc' \in [Ranks -> Pcs]
    BY <1>0, <1>8 DEF Fails, TypeOK, Pcs
  <2> QED
    BY <1>8, <2>1, <2>2 DEF Fails, MoveTypes, TypeOK
<1> QED
  BY <1>1, <1>2, <1>3, <1>4, <1>5, <1>6, <1>7, <1>8 DEF Rank
------------------------------------------------------------------------------
(* The user's calls.                                                       *)

LEMMA UserKeeps ==
  ASSUME IInv, TypeOK', NEW r \in Ranks,
         \/ \E o \in Options : SetFromAllOptions(o)
         \/ \E type \in Own : SetPcType(type)
         \/ Edit \/ Setup \/ Gather
  PROVE  RankInv(r)'
<1>0. /\ RankInv(r) /\ op \in Nat \ {0} /\ last[r] \in Nat /\ pc[r] \in Pcs
      /\ at \in [Ranks -> Steps]
  BY DEF IInv, TypeOK
<1>a. 0 <= op /\ 0 # op
  <2>1. op \in Nat /\ op # 0
    BY <1>0
  <2> QED
    BY <2>1
<1>b. last[r] <= op + 1 /\ last[r] # op + 1
  <2>1. last[r] \in Nat /\ op \in Nat /\ last[r] <= op
    BY <1>0 DEF RankInv, LastTells
  <2> QED
    BY <2>1
<1>1. ASSUME NEW o \in Options, SetFromAllOptions(o) PROVE RankInv(r)'
  <2>1. at'[r] = "idle" /\ outcome'[r] = "" /\ ~installed'[r] /\ op' = op
    BY <1>1 DEF SetFromAllOptions, Idle, Anew
  <2>2. Opts' = o
    BY <1>1 DEF SetFromAllOptions, Opts
  <2>3. CASE o.type = "none"
    <3>1. last' = last /\ pc' = pc
      BY <1>1, <2>3 DEF SetFromAllOptions, Anew
    <3> QED
      BY <1>0, <2>1, <2>2, <2>3, <3>1
      DEF RankInv, LastTells, Progress, Kept, Promised
  <2>4. CASE o.type # "none"
    <3>1. last'[r] = 0 /\ pc'[r] = Named(o.type) /\ gen' = gen + 1
      BY <1>1, <2>4 DEF SetFromAllOptions, Anew
    <3>2. LastTells(r)'
      BY <1>a, <2>1, <3>1 DEF LastTells
    <3>3. /\ pc'[r].kind = Opts'.type /\ ~pc'[r].halo /\ pc'[r].gen = gen'
      BY <2>2, <3>1 DEF Named
    <3>4. Kept(r)'
      BY <2>1, <3>3 DEF Kept
    <3> QED
      BY <2>1, <3>2, <3>4 DEF RankInv, Progress, Promised
  <2> QED
    BY <2>3, <2>4
<1>2. ASSUME NEW type \in Own, SetPcType(type) PROVE RankInv(r)'
  <2>1. /\ at'[r] = "idle" /\ outcome'[r] = "" /\ op' = op /\ opts' = NoOptions
        /\ last'[r] = 0 /\ pc'[r] = Named(type)
    BY <1>2 DEF SetPcType, Idle
  <2>2. LastTells(r)'
    BY <1>a, <2>1 DEF LastTells
  <2>3. Named(type) # NoPc
    BY NamedTypes DEF IInv
  <2>4. Kept(r)'
    BY <2>1, <2>3 DEF Kept, NoOptions, NoPc
  <2> QED
    BY <2>1, <2>2, <2>4 DEF RankInv, Progress, Promised
<1>3. CASE Edit
  <2>1. /\ at'[r] = "idle" /\ outcome'[r] = "" /\ op' = op + 1
        /\ last' = last /\ pc' = pc /\ installed' = installed /\ opts' = opts /\ gen' = gen
    BY <1>3 DEF Edit, Idle, notes
  <2>2. LastTells(r)'
    BY <1>b, <2>1 DEF LastTells
  <2>3. Opts' = Opts /\ NativeApply' = NativeApply /\ Selected' = Selected
    BY <2>1 DEF Opts, NativeApply, Selected
  <2>4. Kept(r)'
    BY <1>0, <2>1, <2>3 DEF RankInv, Kept, NoOptions, NoPc
  <2> QED
    BY <2>1, <2>2, <2>4 DEF RankInv, Progress, Promised
<1>4. CASE Setup
  <2>1. /\ at'[r] = "install" /\ outcome'[r] = ""
        /\ last' = last /\ pc' = pc /\ installed' = installed
        /\ UNCHANGED <<opts, gen, op>>
    BY <1>4 DEF Setup, notes
  <2>2. LastTells(r)'
    BY <1>0, <2>1 DEF RankInv, LastTells
  <2>3. Kept(r)'
    BY <1>0, <2>1, SameSettings DEF RankInv, Kept, NoOptions, NoPc
  <2> QED
    BY <2>1, <2>2, <2>3 DEF RankInv, Progress, Promised
<1>5. CASE Gather
  BY <1>0, <1>5, Frame DEF Gather, notes
<1> QED
  BY <1>1, <1>2, <1>3, <1>4, <1>5
------------------------------------------------------------------------------
(* The steps of a set-up.                                                  *)

(* Where a rank that moves is then, and that others stay.                  *)
LEMMA Moves ==
  ASSUME TypeOK, NEW r \in Ranks
  PROVE  /\ \A step : Go(r, step) => at'[r] = step /\ outcome'[r] = outcome[r]
         /\ \A step, kind : GoBuild(r, kind, step) => at'[r] = step /\ outcome'[r] = outcome[r]
         /\ \A how : Stop(r, how) => at'[r] = "idle" /\ outcome'[r] = how
BY DEF TypeOK, Go, GoBuild, Stop

LEMMA OthersStay ==
  ASSUME TypeOK, NEW r \in Ranks, NEW q \in Ranks, q # r, Rank(r) \/ Fails(r)
  PROVE  /\ pc'[q] = pc[q] /\ last'[q] = last[q] /\ installed'[q] = installed[q]
         /\ chain'[q] = chain[q]
         /\ at'[q] = at[q] /\ waits'[q] = waits[q] /\ outcome'[q] = outcome[q]
         /\ UNCHANGED <<opts, gen, op>>
<1> DEFINE Stays == at'[q] = at[q] /\ waits'[q] = waits[q] /\ outcome'[q] = outcome[q]
<1>1. /\ \A step : Go(r, step) => Stays
      /\ \A step, kind : GoBuild(r, kind, step) => Stays
      /\ \A how : Stop(r, how) => Stays
  BY DEF TypeOK, Go, GoBuild, Stop
<1>2. CASE Install(r) \/ Built(r)
  BY <1>1, <1>2 DEF Install, Built, notes
<1>3. CASE Installed(r) \/ Refreshed(r) \/ Routed(r)
  BY <1>1, <1>3 DEF Installed, Refreshed, Routed, TypeOK
<1>4. CASE Refresh(r)
  BY <1>1, <1>4 DEF Refresh, TypeOK
<1>5. CASE Route(r)
  BY <1>1, <1>5 DEF Route, TypeOK
<1>6. CASE Fails(r)
  BY <1>1, <1>6 DEF Fails, TypeOK
<1> QED
  BY <1>2, <1>3, <1>4, <1>5, <1>6 DEF Rank

LEMMA FirstStages ==
  ASSUME TypeOK, NEW r \in Ranks, RankInv(r),
         Install(r) \/ Installed(r) \/ Refresh(r) \/ Refreshed(r)
  PROVE  RankInv(r)'
<1>0. /\ op \in Nat /\ op # 0 /\ pc[r] \in Pcs /\ pc \in [Ranks -> Pcs]
      /\ last \in [Ranks -> Nat] /\ installed \in [Ranks -> BOOLEAN]
  BY DEF TypeOK
<1>a. 0 <= op /\ op <= op
  BY <1>0
<1>1. CASE Install(r)
  <2>1. /\ UNCHANGED <<opts, gen, op, pc, last, installed>>
        /\ at[r] = "install"
    BY <1>1 DEF Install, notes
  <2>2. \/ at'[r] = "refresh" /\ outcome'[r] = outcome[r] /\ (installed[r] \/ ~Asked)
        \/ at'[r] = "idle" /\ outcome'[r] = "err"
        \/ at'[r] = "installed" /\ outcome'[r] = outcome[r] /\ Asked
    BY <1>1, Moves DEF Install, Asked
  <2>3. LastTells(r)' /\ Kept(r)'
    BY <2>1, SameSettings DEF RankInv, LastTells, Kept, NoOptions, NoPc
  <2>4. Progress(r)' /\ Promised(r)'
    BY <2>1, <2>2, SameSettings DEF RankInv, Progress, Promised, Asked, NoOptions
  <2> QED
    BY <2>3, <2>4 DEF RankInv
<1>2. CASE Installed(r)
  <2>1. /\ UNCHANGED <<opts, gen, op, last>>
        /\ at[r] = "installed" /\ Asked
        /\ at'[r] = "refresh" /\ outcome'[r] = outcome[r] /\ outcome[r] = ""
        /\ installed'[r] /\ pc'[r] = New(Opts.global)
    BY <1>0, <1>2, Moves DEF Installed, Building, RankInv, Progress
  <2>2. pc'[r].v = op /\ pc'[r] # NoPc
    <3>0. pc'[r] = New(Opts.global)
      BY <2>1
    <3>1. pc'[r].v = op /\ NoPc.v = 0
      BY <3>0 DEF New, NoPc
    <3> QED
      BY <1>0, <3>1
  <2>3. LastTells(r)'
    BY <2>1, <2>2 DEF RankInv, LastTells
  <2>4. Kept(r)'
    BY <2>1, <2>2, SameSettings, Routes DEF Kept, Asked, NoOptions, NoPc
  <2>5. Progress(r)' /\ Promised(r)'
    BY <2>1, SameSettings DEF Progress, Promised, Asked, NoOptions
  <2> QED
    BY <2>3, <2>4, <2>5 DEF RankInv
<1>3. CASE Refresh(r)
  <2>1. /\ UNCHANGED <<opts, gen, op, pc, installed>>
        /\ at[r] = "refresh" /\ outcome'[r] = outcome[r]
        /\ last'[r] = IF pc[r] = NoPc THEN 0 ELSE last[r]
        /\ \/ at'[r] = "refreshed" /\ pc[r] # NoPc /\ last[r] # op
           \/ at'[r] = "route" /\ ~(pc[r] # NoPc /\ last[r] # op)
    BY <1>0, <1>3, Moves DEF Refresh, Stale
  <2>2. LastTells(r)'
    BY <1>0, <1>a, <2>1 DEF RankInv, LastTells
  <2>3. Kept(r)'
    BY <2>1, SameSettings DEF RankInv, Kept, NoOptions, NoPc
  <2>4. at'[r] = "route" => (pc[r] # NoPc => pc[r].v = op)
    BY <2>1 DEF RankInv, LastTells
  <2>5. Progress(r)' /\ Promised(r)'
    BY <2>1, <2>4, SameSettings DEF RankInv, Progress, Promised, Asked, NoPc, NoOptions
  <2> QED
    BY <2>2, <2>3, <2>5 DEF RankInv
<1>4. CASE Refreshed(r)
  <2>1. /\ UNCHANGED <<opts, gen, op, installed>>
        /\ at[r] = "refreshed" /\ at'[r] = "route" /\ outcome'[r] = outcome[r]
        /\ last'[r] = op /\ pc'[r] = [pc[r] EXCEPT !.v = op]
    BY <1>0, <1>4, Moves DEF Refreshed, Building
  <2>2. /\ pc'[r].v = op /\ pc'[r].kind = pc[r].kind /\ pc'[r].halo = pc[r].halo
        /\ pc'[r].gen = pc[r].gen /\ pc'[r] # NoPc
    BY <1>0, <2>1 DEF Pcs, NoPc
  <2>3. LastTells(r)'
    BY <1>a, <2>1, <2>2 DEF LastTells
  <2>4. Kept(r)'
    BY <2>1, <2>2, SameSettings DEF RankInv, Kept, NoOptions, NoPc
  <2>5. Progress(r)' /\ Promised(r)'
    BY <2>1, <2>2, SameSettings DEF RankInv, Progress, Promised, Asked, NoOptions
  <2> QED
    BY <2>3, <2>4, <2>5 DEF RankInv
<1> QED
  BY <1>1, <1>2, <1>3, <1>4
LEMMA LastStages ==
  ASSUME TypeOK, NEW r \in Ranks, RankInv(r),
         Route(r) \/ Built(r) \/ Routed(r) \/ Fails(r)
  PROVE  RankInv(r)'
<1>0. /\ op \in Nat /\ op # 0 /\ pc[r] \in Pcs /\ pc \in [Ranks -> Pcs]
      /\ last \in [Ranks -> Nat] /\ installed \in [Ranks -> BOOLEAN]
  BY DEF TypeOK
<1>a. op <= op
  BY <1>0
<1>1. CASE Route(r)
  <2>1. /\ UNCHANGED <<opts, gen, op, pc, last, installed>>
        /\ at[r] = "route"
    BY <1>1 DEF Route
  <2>2. LastTells(r)' /\ Kept(r)'
    BY <2>1, SameSettings DEF RankInv, LastTells, Kept, NoOptions, NoPc
  <2>3. \/ at'[r] = "idle" /\ outcome'[r] = "err"
        \/ at'[r] = "idle" /\ outcome'[r] = "ok" /\ opts = NoOptions
        \/ at'[r] = "idle" /\ outcome'[r] = "ok" /\ opts # NoOptions
             /\ \/ pc[r] = NoPc
                \/ /\ Selected \in {"root gather", "adapter"}
                   /\ Opts.apply = "strict" => pc[r].kind # "local"
        \/ at'[r] = "built" /\ outcome'[r] = outcome[r] /\ opts # NoOptions
             /\ Selected \notin {"root gather", "adapter"}
    BY <1>1, Moves DEF Route, Unrouted
  <2>4. pc[r] # NoPc => pc[r].v = op
    BY <2>1 DEF RankInv, Progress
  <2>5. opts # NoOptions /\ Opts.global # "none" => pc[r] # NoPc
    BY <2>1 DEF RankInv, Progress, Kept, Asked
  <2>6. ASSUME opts # NoOptions, Selected \in {"root gather", "adapter"},
               Opts.apply = "strict" => pc[r].kind # "local"
        PROVE  InUse(r)
    <3>1. ASSUME pc[r] # NoPc, Opts.type # "none" PROVE pc[r] = New(Opts.type)
      <4>1. pc[r].kind = Opts.type /\ pc[r].halo = FALSE /\ pc[r].gen = gen /\ pc[r].v = op
        BY <1>0, <2>4, <2>6, <3>1 DEF RankInv, Kept, Pcs
      <4>2. Opts.type # "block"
        BY <2>6, OptsTypes DEF OptionsType
      <4>3. New(Opts.type) = [kind |-> Opts.type, halo |-> FALSE, gen |-> gen, v |-> op]
        BY <4>2 DEF New
      <4> QED
        BY <1>0, <4>1, <4>3 DEF Pcs
    <3> QED
      BY <2>4, <2>6, <3>1, Routes DEF InUse
  <2>7. Progress(r)'
    BY <2>1, <2>3, SameSettings, Routes DEF RankInv, Progress, Asked, NoPc, NoOptions
  <2>8. Promised(r)
    BY DEF RankInv
  <2>9. opts # NoOptions /\ pc[r] = NoPc => InUse(r)
    BY <2>5 DEF InUse
  <2>10. InUse(r)' <=> InUse(r)
    BY <2>1, SameSettings DEF InUse, NoPc
  <2>11. Promised(r)'
    BY <2>1, <2>3, <2>6, <2>9, <2>10 DEF RankInv, Progress, Promised, NoOptions
  <2> QED
    BY <2>2, <2>7, <2>11 DEF RankInv
<1>2. CASE Built(r)
  <2>1. /\ UNCHANGED <<opts, gen, op, pc, last, installed>>
        /\ at[r] = "built" /\ at'[r] = "routed" /\ outcome'[r] = outcome[r]
    BY <1>2, Moves DEF Built, Building, notes
  <2>2. LastTells(r)' /\ Kept(r)'
    BY <2>1, SameSettings DEF RankInv, LastTells, Kept, NoOptions, NoPc
  <2>3. Progress(r)' /\ Promised(r)'
    BY <2>1, SameSettings DEF RankInv, Progress, Promised, Asked, NoPc, NoOptions
  <2> QED
    BY <2>2, <2>3 DEF RankInv
<1>3. CASE Routed(r)
  <2>1. /\ UNCHANGED <<opts, gen, op, installed>>
        /\ at[r] = "routed" /\ at'[r] = "idle" /\ outcome'[r] = "ok"
        /\ last'[r] = op /\ pc'[r] = New(Target)
    BY <1>0, <1>3, Moves DEF Routed, Building
  <2>2. pc'[r].v = op /\ pc'[r] # NoPc
    <3>1. pc'[r].v = op /\ NoPc.v = 0
      BY <2>1 DEF New, NoPc
    <3> QED
      BY <1>0, <3>1
  <2>3. opts # NoOptions /\ Selected \in {"native", "configured"}
    BY <2>1 DEF RankInv, Progress
  <2>4. LastTells(r)'
    BY <1>a, <2>1, <2>2 DEF LastTells
  <2>5. Kept(r)'
    BY <2>1, <2>2, <2>3, SameSettings DEF Kept, NoPc
  <2>6. InUse(r)'
    BY <2>1, <2>2, <2>3, SameSettings DEF InUse, Target, NoPc
  <2> QED
    BY <2>1, <2>4, <2>5, <2>6 DEF RankInv, Progress, Promised
<1>4. CASE Fails(r)
  <2>1. /\ UNCHANGED <<opts, gen, op, last, installed>>
        /\ at[r] \in {"installed", "refreshed", "built"}
        /\ at'[r] = "idle" /\ outcome'[r] = "err"
    BY <1>4, Moves DEF Fails, Building
  <2>2. CASE at[r] = "refreshed" /\ pc[r].kind \in Own
    <3>1. pc'[r] = [pc[r] EXCEPT !.v = 0]
      BY <1>0, <1>4, <2>2 DEF Fails
    <3>2. /\ pc'[r].kind = pc[r].kind /\ pc'[r].halo = pc[r].halo
          /\ pc'[r].gen = pc[r].gen /\ pc'[r] # NoPc
      BY <1>0, <2>2, <3>1 DEF Pcs, NoPc, Own
    <3>3. LastTells(r)'
      BY <2>1, <2>2 DEF RankInv, LastTells, Progress
    <3>4. Kept(r)'
      BY <2>1, <3>2, SameSettings DEF RankInv, Kept, NoPc, NoOptions
    <3> QED
      BY <2>1, <3>3, <3>4 DEF RankInv, Progress, Promised
  <2>3. CASE ~(at[r] = "refreshed" /\ pc[r].kind \in Own)
    <3>1. pc'[r] = pc[r]
      BY <1>0, <1>4, <2>3 DEF Fails, Pcs
    <3>2. LastTells(r)' /\ Kept(r)'
      BY <2>1, <3>1, SameSettings DEF RankInv, LastTells, Kept, NoPc, NoOptions
    <3> QED
      BY <2>1, <3>2 DEF RankInv, Progress, Promised
  <2> QED
    BY <2>2, <2>3
<1> QED
  BY <1>1, <1>2, <1>3, <1>4

------------------------------------------------------------------------------

LEMMA Inductive == IInv /\ [Next]_vars => IInv'
<1> SUFFICES ASSUME IInv, [Next]_vars PROVE IInv'
  OBVIOUS
<1>1. CASE \/ \E o \in Options : SetFromAllOptions(o)
           \/ \E type \in Own : SetPcType(type)
           \/ Edit \/ Setup \/ Gather
  BY <1>1, UserTypes, UserKeeps DEF IInv
<1>2. ASSUME NEW r \in Ranks, Rank(r) \/ Fails(r) PROVE IInv'
  <2>1. TypeOK'
    BY <1>2, RankTypes DEF IInv, RankInv
  <2>2. RankInv(r)'
    BY <1>2, FirstStages, LastStages DEF IInv, Rank
  <2>3. ASSUME NEW q \in Ranks, q # r PROVE RankInv(q)'
    BY <1>2, <2>3, OthersStay, Frame DEF IInv
  <2> QED
    BY <2>1, <2>2, <2>3 DEF IInv
<1>3. CASE UNCHANGED vars
  <2>1. TypeOK'
    BY <1>3 DEF IInv, TypeOK, vars, notes
  <2>2. ASSUME NEW r \in Ranks PROVE RankInv(r)'
    BY <1>3, Frame DEF IInv, vars, notes
  <2> QED
    BY <2>1, <2>2 DEF IInv
<1> QED
  BY <1>1, <1>2, <1>3 DEF Next

LEMMA Initially == Init => IInv
<1> SUFFICES ASSUME Init PROVE IInv
  OBVIOUS
<1>1. NoPc \in Pcs
  BY DEF NoPc, Pcs, Kinds
<1>a. 1 \in Nat \ {0} /\ 0 \in Nat /\ 0 <= 1 /\ 0 # 1
  OBVIOUS
<1>2. op = 1
  BY DEF Init
<1>3. TypeOK
  BY <1>1, <1>a, <1>2 DEF Init, TypeOK, Steps
<1>4. ASSUME NEW r \in Ranks PROVE RankInv(r)
  <2>1. at[r] = "idle" /\ outcome[r] = "" /\ last[r] = 0 /\ ~installed[r]
    BY DEF Init
  <2> QED
    BY <1>a, <1>2, <2>1 DEF Init, RankInv, LastTells, Progress, Kept, Promised
<1> QED
  BY <1>3, <1>4 DEF IInv

(* The types of the variables.                                             *)
THEOREM TypeCorrect == Spec => []TypeOK
<1>1. IInv => TypeOK
  BY DEF IInv
<1> QED
  BY <1>1, Initially, Inductive, PTL DEF Spec

(* The route that is taken leaves what the documentation promises, but for *)
(* the two departures that RequestedInUse names.                           *)
LEMMA RouteGivesRequested ==
  ASSUME TypeOK, NEW r \in Ranks, opts # NoOptions, InUse(r), pc[r] # NoPc
  PROVE  /\ \/ Requested = "none"
            \/ pc[r] = [kind |-> Requested, gen |-> gen, v |-> op,
                        halo |-> Requested = "block" /\ NativeApply]
            \/ InPlaceOfAsm /\ pc[r] = [kind |-> "block", gen |-> gen, v |-> op, halo |-> TRUE]
         /\ Opts.apply = "strict" => Native \/ ServedThoughStrict \/ pc[r].kind # "local"
<1>1. OptionsType(Opts) /\ NativeApply \in BOOLEAN
  BY OptsTypes DEF NativeApply
<1>2. CASE Selected = "native"
  <2>1. Native /\ NativeApply
    BY <1>2, Routes DEF Selected, Native
  <2>2. pc[r] = [kind |-> "block", gen |-> gen, v |-> op, halo |-> TRUE]
    BY <1>2, <2>1 DEF InUse, New
  <2>3. Requested = "block" \/ InPlaceOfAsm
    BY <1>1, <2>1 DEF Requested, InPlaceOfAsm, OptionsType
  <2> QED
    BY <2>1, <2>2, <2>3
<1>3. CASE Selected = "configured"
  <2>1. Opts.global # "none" /\ ~Native
    BY <1>3 DEF Selected, Native
  <2>2. pc[r] = [kind |-> Opts.global, gen |-> gen, v |-> op,
                 halo |-> Opts.global = "block" /\ NativeApply]
    BY <1>3 DEF InUse, New
  <2>3. Opts.apply = "strict" => ServedThoughStrict
    BY <2>1 DEF Native, NativeApply, ServedThoughStrict
  <2> QED
    BY <2>1, <2>2, <2>3 DEF Requested
<1>4. CASE Selected \notin {"native", "configured"}
  <2>1. Opts.global = "none" /\ ~Native
    BY <1>4 DEF Selected, Native
  <2>2. Requested = Opts.type
    BY <2>1 DEF Requested
  <2>3. /\ Opts.type # "none" => pc[r] = New(Opts.type)
        /\ Opts.apply = "strict" => pc[r].kind # "local"
    BY <1>4 DEF InUse
  <2> QED
    BY <2>2, <2>3 DEF New
<1> QED
  BY <1>2, <1>3, <1>4

(* A set-up that returns Ok leaves the preconditioner that was requested,  *)
(* made of the present operator with the present options: no older one     *)
(* survives the three stages of setup_impl, whatever failed in earlier     *)
(* set-ups.  On the native route block Jacobi may stand for ASM, and strict*)
(* mode serves pc_global off the native route.                             *)
THEOREM RequestedAlwaysUsed == Spec => []RequestedInUse
<1>1. ASSUME IInv PROVE RequestedInUse
  <2> SUFFICES ASSUME NEW r \in Ranks, outcome[r] = "ok", opts # NoOptions
               PROVE  /\ pc[r] = NoPc => Opts.global = "none"
                      /\ pc[r] # NoPc =>
                           /\ pc[r].v = op
                           /\ \/ Requested = "none"
                              \/ pc[r] = [kind |-> Requested, gen |-> gen, v |-> op,
                                          halo |-> Requested = "block" /\ NativeApply]
                              \/ /\ InPlaceOfAsm
                                 /\ pc[r] = [kind |-> "block", gen |-> gen, v |-> op, halo |-> TRUE]
                           /\ Opts.apply = "strict" =>
                                Native \/ ServedThoughStrict \/ pc[r].kind # "local"
    BY DEF RequestedInUse
  <2>1. TypeOK /\ InUse(r)
    BY <1>1 DEF IInv, RankInv, Promised
  <2>2. /\ pc[r] = NoPc => Opts.global = "none"
        /\ pc[r] # NoPc => pc[r].v = op
    BY <2>1 DEF InUse
  <2> QED
    BY <2>1, <2>2, RouteGivesRequested
<1> QED
  BY <1>1, Initially, Inductive, PTL DEF Spec

------------------------------------------------------------------------------
(* Ranks that no failure has driven apart go the same way, each at its own *)
(* speed: what is the same for all of them is where they end.              *)

Result(how, p, l, i, c) == <<how, p, l, i, c>>

(* How a set-up ends, from the step it has reached and with what the rank  *)
(* keeps there, if no construction fails.                                  *)
Fallbacks(c) == IF Selected = "native" /\ Opts.global # "none" THEN c ELSE c + 1
OwnRoutes == {"root gather", "adapter"}
Builds(p, c) ==
  /\ opts # NoOptions /\ p # NoPc /\ Selected \notin OwnRoutes
  /\ Allowed(Fallbacks(c)) /\ ~Refused(Target)

EndOfRoute(p, l, i, c) ==
  IF opts = NoOptions THEN Result(IF p = NoPc THEN "ok" ELSE "err", p, l, i, c)
  ELSE IF p = NoPc \/ (Selected \in OwnRoutes /\ p.kind # "local")
    THEN Result("ok", p, l, i, c)
  ELSE IF Selected = "adapter" /\ Opts.route = "native" THEN Result("err", p, l, i, c)
  ELSE IF Builds(p, c) THEN Result("ok", New(Target), op, i, Fallbacks(c))
  ELSE Result(IF Selected \in OwnRoutes /\ Allowed(Fallbacks(c)) /\ Opts.apply # "strict"
                THEN "ok" ELSE "err", p, l, i, Fallbacks(c))
EndOfRefreshed(p, i, c) == EndOfRoute([p EXCEPT !.v = op], op, i, c)
EndOfRefresh(p, l, i, c) ==
  IF p # NoPc /\ l # op THEN EndOfRefreshed(p, i, c)
                        ELSE EndOfRoute(p, IF p = NoPc THEN 0 ELSE l, i, c)
EndOfInstalled(l, c) == EndOfRefresh(New(Opts.global), l, TRUE, c)
EndOfInstall(p, l, i, c) ==
  IF ~Asked \/ i THEN EndOfRefresh(p, l, i, c)
  ELSE IF Refused(Opts.global) THEN Result("err", p, l, i, c)
  ELSE EndOfInstalled(l, c)

End(step, how, p, l, i, c) ==
  CASE step = "install" -> EndOfInstall(p, l, i, c)
    [] step = "installed" -> EndOfInstalled(l, c)
    [] step = "refresh" -> EndOfRefresh(p, l, i, c)
    [] step = "refreshed" -> EndOfRefreshed(p, i, c)
    [] step = "route" -> EndOfRoute(p, l, i, c)
    [] step \in {"built", "routed"} -> Result("ok", New(Target), op, i, c)
    [] OTHER -> Result(how, p, l, i, c)
Ends(r) == End(at[r], outcome[r], pc[r], last[r], installed[r], chain[r])

(* The steps at which a rank will still wait for all others.               *)
Waits(kind, steps) == IF kind \in Collective THEN steps ELSE {}
FromRoute(p, c) == IF Builds(p, c) THEN Waits(Target, {"built", "routed"}) ELSE {}
FromRefreshed(p, c) == FromRoute([p EXCEPT !.v = op], c)
FromRefresh(p, l, c) ==
  IF p # NoPc /\ l # op THEN Waits(p.kind, {"refreshed"}) \cup FromRefreshed(p, c)
                        ELSE FromRoute(p, c)
FromInstalled(l, c) == FromRefresh(New(Opts.global), l, c)
FromInstall(p, l, i, c) ==
  IF ~Asked \/ i THEN FromRefresh(p, l, c)
  ELSE IF Refused(Opts.global) THEN {}
  ELSE Waits(Opts.global, {"installed"}) \cup FromInstalled(l, c)

Way(step, p, l, i, c) ==
  CASE step = "install" -> FromInstall(p, l, i, c)
    [] step = "installed" -> FromInstalled(l, c)
    [] step = "refresh" -> FromRefresh(p, l, c)
    [] step = "refreshed" -> FromRefreshed(p, c)
    [] step = "route" -> FromRoute(p, c)
    [] step = "built" -> Waits(Target, {"routed"})
    [] OTHER -> {}
Ahead(r) == Way(at[r], pc[r], last[r], installed[r], chain[r])
Gathers(r) == (IF waits[r] THEN {at[r]} ELSE {}) \cup Ahead(r)

WaitsToBuild(r) == waits[r] => at[r] \in {"installed", "refreshed", "built", "routed"}
Alike(q, r) == Ends(q) = Ends(r) /\ Gathers(q) = Gathers(r)

Together ==
  /\ \A r \in Ranks : WaitsToBuild(r)
  /\ ~apart => \A q, r \in Ranks : Alike(q, r)

------------------------------------------------------------------------------
LEMMA SameEnds ==
  ASSUME UNCHANGED <<opts, gen, op>>
  PROVE  /\ \A step, how, p, l, i, c : End(step, how, p, l, i, c)' = End(step, how, p, l, i, c)
         /\ \A step, p, l, i, c : Way(step, p, l, i, c)' = Way(step, p, l, i, c)
<1>1. Target' = Target
  BY SameSettings DEF Target
<1>2. \A c : Fallbacks(c)' = Fallbacks(c)
  BY SameSettings DEF Fallbacks
<1>3. \A c : Allowed(c)' <=> Allowed(c)
  BY SameSettings DEF Allowed, NoLimit
<1>4. \A kind : Refused(kind)' <=> Refused(kind)
  BY SameSettings DEF Refused
<1>5. \A p, c : Builds(p, c)' <=> Builds(p, c)
  BY <1>1, <1>2, <1>3, <1>4, SameSettings DEF Builds, NoPc, NoOptions, OwnRoutes
<1>0. New(Target)' = New(Target)
  BY <1>1, SameSettings
<1>6. \A p, l, i, c : EndOfRoute(p, l, i, c)' = EndOfRoute(p, l, i, c)
  <2> SUFFICES ASSUME NEW p, NEW l, NEW i, NEW c
               PROVE  EndOfRoute(p, l, i, c)' = EndOfRoute(p, l, i, c)
    OBVIOUS
  <2>1. NoPc' = NoPc /\ NoOptions' = NoOptions /\ OwnRoutes' = OwnRoutes
    BY DEF NoPc, NoOptions, OwnRoutes
  <2>2. Fallbacks(c)' = Fallbacks(c) /\ (Builds(p, c)' <=> Builds(p, c))
    BY <1>2, <1>5
  <2>3. Allowed(Fallbacks(c))' <=> Allowed(Fallbacks(c))
    BY <1>2, <1>3
  <2>4. Opts' = Opts /\ Selected' = Selected /\ opts' = opts /\ op' = op
    BY SameSettings
  <2> QED
    BY <1>0, <2>1, <2>2, <2>3, <2>4 DEF EndOfRoute, Result
<1>7. \A p, i, c : EndOfRefreshed(p, i, c)' = EndOfRefreshed(p, i, c)
  BY <1>6 DEF EndOfRefreshed
<1>8. \A p, l, i, c : EndOfRefresh(p, l, i, c)' = EndOfRefresh(p, l, i, c)
  BY <1>6, <1>7 DEF EndOfRefresh, NoPc
<1>9. \A l, c : EndOfInstalled(l, c)' = EndOfInstalled(l, c)
  BY <1>8, SameSettings DEF EndOfInstalled
<1>10. \A p, l, i, c : EndOfInstall(p, l, i, c)' = EndOfInstall(p, l, i, c)
  BY <1>4, <1>8, <1>9, SameSettings DEF EndOfInstall, Result
<1>11. \A p, c : FromRoute(p, c)' = FromRoute(p, c)
  BY <1>1, <1>5 DEF FromRoute, Waits
<1>12. \A p, c : FromRefreshed(p, c)' = FromRefreshed(p, c)
  BY <1>11 DEF FromRefreshed
<1>13. \A p, l, c : FromRefresh(p, l, c)' = FromRefresh(p, l, c)
  BY <1>11, <1>12 DEF FromRefresh, NoPc, Waits
<1>14. \A l, c : FromInstalled(l, c)' = FromInstalled(l, c)
  BY <1>13, SameSettings DEF FromInstalled
<1>15. \A p, l, i, c : FromInstall(p, l, i, c)' = FromInstall(p, l, i, c)
  BY <1>4, <1>13, <1>14, SameSettings DEF FromInstall, Waits
<1>16. \A step, how, p, l, i, c : End(step, how, p, l, i, c)' = End(step, how, p, l, i, c)
  BY <1>0, <1>6, <1>7, <1>8, <1>9, <1>10 DEF End, Result
<1>17. \A step, p, l, i, c : Way(step, p, l, i, c)' = Way(step, p, l, i, c)
  BY <1>1, <1>11, <1>12, <1>13, <1>14, <1>15 DEF Way, Waits
<1> QED
  BY <1>16, <1>17

(* A rank that does not move keeps its end and its way.                    *)
LEMMA SameWay ==
  ASSUME NEW r \in Ranks, UNCHANGED <<opts, gen, op>>,
         pc'[r] = pc[r], last'[r] = last[r], installed'[r] = installed[r],
         chain'[r] = chain[r], at'[r] = at[r], outcome'[r] = outcome[r]
  PROVE  Ends(r)' = Ends(r) /\ Ahead(r)' = Ahead(r)
BY SameEnds DEF Ends, Ahead

(* What a step says of the rank that takes it.                             *)
LEMMA MovesOn ==
  ASSUME TypeOK, NEW r \in Ranks
  PROVE  /\ \A step : Go(r, step) => waits'[r] = waits[r]
         /\ \A step, kind : GoBuild(r, kind, step) => waits'[r] = (kind \in Collective)
         /\ \A how : Stop(r, how) => waits'[r] = waits[r]
BY DEF TypeOK, Go, GoBuild, Stop

LEMMA Rebuilt ==
  ASSUME TypeOK, NEW r \in Ranks
  PROVE  /\ \A p : pc' = [pc EXCEPT ![r] = p] => pc'[r] = p
         /\ \A v : pc' = [pc EXCEPT ![r].v = v] => pc'[r] = [pc[r] EXCEPT !.v = v]
         /\ \A v : last' = [last EXCEPT ![r] = v] => last'[r] = v
         /\ \A v : installed' = [installed EXCEPT ![r] = v] => installed'[r] = v
         /\ \A v : chain' = [chain EXCEPT ![r] = v] => chain'[r] = v
BY DEF TypeOK

(* What is ahead of a rank at each step, and after it has moved.           *)
LEMMA HereIs ==
  ASSUME NEW r \in Ranks
  PROVE  /\ at[r] = "install" => /\ Ends(r) = EndOfInstall(pc[r], last[r], installed[r], chain[r])
                                 /\ Ahead(r) = FromInstall(pc[r], last[r], installed[r], chain[r])
         /\ at[r] = "installed" => /\ Ends(r) = EndOfInstalled(last[r], chain[r])
                                   /\ Ahead(r) = FromInstalled(last[r], chain[r])
         /\ at[r] = "refresh" => /\ Ends(r) = EndOfRefresh(pc[r], last[r], installed[r], chain[r])
                                 /\ Ahead(r) = FromRefresh(pc[r], last[r], chain[r])
         /\ at[r] = "refreshed" => /\ Ends(r) = EndOfRefreshed(pc[r], installed[r], chain[r])
                                   /\ Ahead(r) = FromRefreshed(pc[r], chain[r])
         /\ at[r] = "route" => /\ Ends(r) = EndOfRoute(pc[r], last[r], installed[r], chain[r])
                               /\ Ahead(r) = FromRoute(pc[r], chain[r])
         /\ at[r] = "built" => /\ Ends(r) = Result("ok", New(Target), op, installed[r], chain[r])
                               /\ Ahead(r) = Waits(Target, {"routed"})
         /\ at[r] = "routed" => /\ Ends(r) = Result("ok", New(Target), op, installed[r], chain[r])
                                /\ Ahead(r) = {}
         /\ at[r] = "idle" => /\ Ends(r) = Result(outcome[r], pc[r], last[r], installed[r], chain[r])
                              /\ Ahead(r) = {}
         /\ ~waits[r] => Gathers(r) = Ahead(r)
<1>1. ~waits[r] => Gathers(r) = Ahead(r)
  BY DEF Gathers
<1> QED
  BY <1>1 DEF Ends, End, Ahead, Way

LEMMA ThereIs ==
  ASSUME NEW r \in Ranks, UNCHANGED <<opts, gen, op>>
  PROVE  /\ at'[r] = "install" =>
              /\ Ends(r)' = EndOfInstall(pc'[r], last'[r], installed'[r], chain'[r])
              /\ Ahead(r)' = FromInstall(pc'[r], last'[r], installed'[r], chain'[r])
         /\ at'[r] = "installed" => /\ Ends(r)' = EndOfInstalled(last'[r], chain'[r])
                                    /\ Ahead(r)' = FromInstalled(last'[r], chain'[r])
         /\ at'[r] = "refresh" =>
              /\ Ends(r)' = EndOfRefresh(pc'[r], last'[r], installed'[r], chain'[r])
              /\ Ahead(r)' = FromRefresh(pc'[r], last'[r], chain'[r])
         /\ at'[r] = "refreshed" => /\ Ends(r)' = EndOfRefreshed(pc'[r], installed'[r], chain'[r])
                                    /\ Ahead(r)' = FromRefreshed(pc'[r], chain'[r])
         /\ at'[r] = "route" => /\ Ends(r)' = EndOfRoute(pc'[r], last'[r], installed'[r], chain'[r])
                                /\ Ahead(r)' = FromRoute(pc'[r], chain'[r])
         /\ at'[r] = "built" => /\ Ends(r)' = Result("ok", New(Target), op, installed'[r], chain'[r])
                                /\ Ahead(r)' = Waits(Target, {"routed"})
         /\ at'[r] = "routed" => /\ Ends(r)' = Result("ok", New(Target), op, installed'[r], chain'[r])
                                 /\ Ahead(r)' = {}
         /\ at'[r] = "idle" =>
              /\ Ends(r)' = Result(outcome'[r], pc'[r], last'[r], installed'[r], chain'[r])
              /\ Ahead(r)' = {}
         /\ ~waits'[r] => Gathers(r)' = Ahead(r)'
         /\ \A kind : waits'[r] = (kind \in Collective) => Gathers(r)' = Waits(kind, {at'[r]}) \cup Ahead(r)'
<1>1. Ends(r)' = End(at'[r], outcome'[r], pc'[r], last'[r], installed'[r], chain'[r])
  BY SameEnds DEF Ends
<1>2. Ahead(r)' = Way(at'[r], pc'[r], last'[r], installed'[r], chain'[r])
  BY SameEnds DEF Ahead
<1>3. ~waits'[r] => Gathers(r)' = Ahead(r)'
  BY DEF Gathers
<1>4. ASSUME NEW kind, waits'[r] = (kind \in Collective)
      PROVE  Gathers(r)' = Waits(kind, {at'[r]}) \cup Ahead(r)'
  BY <1>4 DEF Gathers, Waits
<1> QED
  BY <1>1, <1>2, <1>3, <1>4 DEF End, Way

SameFor(r) == Ends(r)' = Ends(r) /\ Gathers(r)' = Gathers(r) /\ WaitsToBuild(r)'

LEMMA InstallKeepsWay ==
  ASSUME TypeOK, NEW r \in Ranks, WaitsToBuild(r), Install(r)
  PROVE  SameFor(r)
<1> DEFINE p == pc[r]
           l == last[r]
           i == installed[r]
           c == chain[r]
<1>0. UNCHANGED <<opts, gen, op>> /\ at[r] = "install" /\ ~waits[r]
  BY DEF Install, WaitsToBuild, TypeOK
<1>1. pc'[r] = p /\ last'[r] = l /\ installed'[r] = i /\ chain'[r] = c
  BY DEF Install, notes
<1>3. Ends(r) = EndOfInstall(p, l, i, c) /\ Gathers(r) = FromInstall(p, l, i, c)
  BY <1>0, HereIs
<1>4. CASE ~Asked \/ installed[r]
  <2>1. at'[r] = "refresh" /\ ~waits'[r] /\ outcome'[r] = outcome[r]
    BY <1>0, <1>4, Moves, MovesOn DEF Install, Asked
  <2>3. Ends(r)' = EndOfRefresh(p, l, i, c) /\ Gathers(r)' = FromRefresh(p, l, c)
    BY <1>0, <1>1, <2>1, ThereIs
  <2> QED
    BY <1>3, <1>4, <2>1, <2>3 DEF SameFor, EndOfInstall, FromInstall, WaitsToBuild
<1>5. CASE Asked /\ ~installed[r] /\ Refused(Opts.global)
  <2>1. at'[r] = "idle" /\ ~waits'[r] /\ outcome'[r] = "err"
    BY <1>0, <1>5, Moves, MovesOn DEF Install, Asked
  <2>3. Ends(r)' = Result("err", p, l, i, c) /\ Gathers(r)' = {}
    BY <1>0, <2>1, <1>1, ThereIs
  <2> QED
    BY <1>3, <1>5, <2>1, <2>3 DEF SameFor, EndOfInstall, FromInstall, WaitsToBuild
<1>6. CASE Asked /\ ~installed[r] /\ ~Refused(Opts.global)
  <2>1. at'[r] = "installed" /\ waits'[r] = (Opts.global \in Collective) /\ outcome'[r] = outcome[r]
    BY <1>0, <1>6, Moves, MovesOn DEF Install, Asked
  <2>3. /\ Ends(r)' = EndOfInstalled(l, c)
        /\ Gathers(r)' = Waits(Opts.global, {"installed"}) \cup FromInstalled(l, c)
    BY <1>0, <1>1, <2>1, ThereIs DEF Waits
  <2> QED
    BY <1>3, <1>6, <2>1, <2>3 DEF SameFor, EndOfInstall, FromInstall, WaitsToBuild
<1> QED
  BY <1>4, <1>5, <1>6

LEMMA InstalledKeepsWay ==
  ASSUME TypeOK, NEW r \in Ranks, WaitsToBuild(r), Installed(r)
  PROVE  SameFor(r)
<1> DEFINE l == last[r]
           c == chain[r]
           n == New(Opts.global)
<1>0. UNCHANGED <<opts, gen, op>> /\ at[r] = "installed" /\ ~waits[r]
  BY DEF Installed, Building, TypeOK
<1>1. at'[r] = "refresh" /\ ~waits'[r] /\ outcome'[r] = outcome[r]
  BY <1>0, Moves, MovesOn DEF Installed
<1>2. pc'[r] = n /\ last'[r] = l /\ installed'[r] = TRUE /\ chain'[r] = c
  BY Rebuilt DEF Installed
<1>4. Ends(r) = EndOfInstalled(l, c) /\ Gathers(r) = FromInstalled(l, c)
  BY <1>0, <1>1, <1>2, HereIs
<1>5. Ends(r)' = EndOfRefresh(n, l, TRUE, c) /\ Gathers(r)' = FromRefresh(n, l, c)
  BY <1>0, <1>1, <1>2, ThereIs
<1> QED
  BY <1>1, <1>4, <1>5 DEF SameFor, EndOfInstalled, FromInstalled, WaitsToBuild

LEMMA RefreshKeepsWay ==
  ASSUME TypeOK, NEW r \in Ranks, WaitsToBuild(r), Refresh(r)
  PROVE  SameFor(r)
<1> DEFINE p == pc[r]
           l == last[r]
           i == installed[r]
           c == chain[r]
           k == IF p = NoPc THEN 0 ELSE l
<1>0. UNCHANGED <<opts, gen, op>> /\ at[r] = "refresh" /\ ~waits[r]
  BY DEF Refresh, WaitsToBuild, TypeOK
<1>1. pc'[r] = p /\ last'[r] = k /\ installed'[r] = i /\ chain'[r] = c
  BY DEF Refresh, TypeOK
<1>3. Ends(r) = EndOfRefresh(p, l, i, c) /\ Gathers(r) = FromRefresh(p, l, c)
  BY <1>0, HereIs
<1>4. CASE p # NoPc /\ l # op
  <2>1. at'[r] = "refreshed" /\ waits'[r] = (p.kind \in Collective) /\ outcome'[r] = outcome[r]
    BY <1>0, <1>4, Moves, MovesOn DEF Refresh, Stale
  <2>3. /\ Ends(r)' = EndOfRefreshed(p, i, c)
        /\ Gathers(r)' = Waits(p.kind, {"refreshed"}) \cup FromRefreshed(p, c)
    BY <1>0, <1>1, <2>1, ThereIs DEF Waits
  <2> QED
    BY <1>3, <1>4, <2>1, <2>3 DEF SameFor, EndOfRefresh, FromRefresh, WaitsToBuild
<1>5. CASE ~(p # NoPc /\ l # op)
  <2>1. at'[r] = "route" /\ ~waits'[r] /\ outcome'[r] = outcome[r]
    BY <1>0, <1>5, Moves, MovesOn DEF Refresh, Stale
  <2>3. Ends(r)' = EndOfRoute(p, k, i, c) /\ Gathers(r)' = FromRoute(p, c)
    BY <1>0, <1>1, <2>1, ThereIs
  <2> QED
    BY <1>3, <1>5, <2>1, <2>3 DEF SameFor, EndOfRefresh, FromRefresh, WaitsToBuild
<1> QED
  BY <1>4, <1>5

LEMMA RefreshedKeepsWay ==
  ASSUME TypeOK, NEW r \in Ranks, WaitsToBuild(r), Refreshed(r)
  PROVE  SameFor(r)
<1> DEFINE p == pc[r]
           q == [p EXCEPT !.v = op]
           i == installed[r]
           c == chain[r]
<1>0. UNCHANGED <<opts, gen, op>> /\ at[r] = "refreshed" /\ ~waits[r]
  BY DEF Refreshed, Building, TypeOK
<1>1. at'[r] = "route" /\ ~waits'[r] /\ outcome'[r] = outcome[r]
  BY <1>0, Moves, MovesOn DEF Refreshed
<1>2. pc'[r] = q /\ last'[r] = op /\ installed'[r] = i /\ chain'[r] = c
  BY Rebuilt DEF Refreshed
<1>4. Ends(r) = EndOfRefreshed(p, i, c) /\ Gathers(r) = FromRefreshed(p, c)
  BY <1>0, <1>1, <1>2, HereIs
<1>5. Ends(r)' = EndOfRoute(q, op, i, c) /\ Gathers(r)' = FromRoute(q, c)
  BY <1>0, <1>1, <1>2, ThereIs
<1> QED
  BY <1>1, <1>4, <1>5 DEF SameFor, EndOfRefreshed, FromRefreshed, WaitsToBuild

LEMMA RouteKeepsWay ==
  ASSUME TypeOK, NEW r \in Ranks, WaitsToBuild(r), Route(r)
  PROVE  SameFor(r)
<1> DEFINE p == pc[r]
           l == last[r]
           i == installed[r]
           c == chain[r]
           f == Fallbacks(c)
<1>0. UNCHANGED <<opts, gen, op>> /\ at[r] = "route" /\ ~waits[r]
  BY DEF Route, WaitsToBuild, TypeOK
<1>1. pc'[r] = p /\ last'[r] = l /\ installed'[r] = i
  BY DEF Route
<1>3. Ends(r) = EndOfRoute(p, l, i, c) /\ Gathers(r) = FromRoute(p, c)
  BY <1>0, HereIs
<1>4. ASSUME NEW how, NEW d, Stop(r, how), chain'[r] = d, ~Builds(p, c),
             EndOfRoute(p, l, i, c) = Result(how, p, l, i, d)
      PROVE  SameFor(r)
  <2>1. at'[r] = "idle" /\ ~waits'[r] /\ outcome'[r] = how
    BY <1>0, <1>4, Moves, MovesOn
  <2>3. Ends(r)' = Result(how, p, l, i, d) /\ Gathers(r)' = {}
    BY <1>0, <2>1, <1>1, <1>4, ThereIs
  <2> QED
    BY <1>3, <1>4, <2>1, <2>3 DEF SameFor, FromRoute, WaitsToBuild
<1>5. CASE opts = NoOptions
  <2>1. Stop(r, IF p = NoPc THEN "ok" ELSE "err") /\ chain'[r] = c
    BY <1>5 DEF Route
  <2> QED
    BY <1>4, <1>5, <2>1 DEF Builds, EndOfRoute
<1>6. CASE opts # NoOptions /\ Unrouted(r)
  <2>1. Stop(r, "ok") /\ chain'[r] = c
    BY <1>6 DEF Route
  <2> QED
    BY <1>4, <1>6, <2>1 DEF Builds, EndOfRoute, Unrouted, OwnRoutes
<1>7. CASE opts # NoOptions /\ ~Unrouted(r) /\ Selected = "adapter" /\ Opts.route = "native"
  <2>1. Stop(r, "err") /\ chain'[r] = c
    BY <1>7 DEF Route
  <2> QED
    BY <1>4, <1>7, <2>1 DEF Builds, EndOfRoute, Unrouted, OwnRoutes
<1>8. CASE /\ opts # NoOptions /\ ~Unrouted(r)
           /\ ~(Selected = "adapter" /\ Opts.route = "native")
  <2>0. chain'[r] = f
    BY <1>8, Rebuilt DEF Route, Fallbacks
  <2>1. /\ ~Allowed(f) => Stop(r, "err")
        /\ Allowed(f) /\ Selected \in OwnRoutes => Stop(r, IF Opts.apply = "strict" THEN "err" ELSE "ok")
        /\ Allowed(f) /\ Selected \notin OwnRoutes /\ Refused(Target) => Stop(r, "err")
        /\ Allowed(f) /\ Selected \notin OwnRoutes /\ ~Refused(Target) => GoBuild(r, Target, "built")
    BY <1>8 DEF Route, Fallbacks, OwnRoutes
  <2>2. CASE ~Builds(p, c)
    <3>1. PICK how : /\ Stop(r, how)
                     /\ how = IF Selected \in OwnRoutes /\ Allowed(f) /\ Opts.apply # "strict"
                                THEN "ok" ELSE "err"
      BY <1>8, <2>1, <2>2 DEF Builds, Unrouted
    <3>2. EndOfRoute(p, l, i, c) = Result(how, p, l, i, f)
      BY <1>8, <2>2, <3>1 DEF EndOfRoute, Unrouted, OwnRoutes
    <3> QED
      BY <1>4, <2>0, <2>2, <3>1, <3>2
  <2>3. CASE Builds(p, c)
    <3>1. at'[r] = "built" /\ waits'[r] = (Target \in Collective) /\ outcome'[r] = outcome[r]
      BY <2>1, <2>3, Moves, MovesOn DEF Builds
    <3>3. /\ Ends(r)' = Result("ok", New(Target), op, i, f)
          /\ Gathers(r)' = Waits(Target, {"built", "routed"})
      BY <1>0, <1>1, <2>0, <3>1, ThereIs DEF Waits
    <3>4. Ends(r) = Result("ok", New(Target), op, i, f)
      BY <1>3, <1>8, <2>3 DEF EndOfRoute, Unrouted, Builds
    <3> QED
      BY <1>3, <2>3, <3>1, <3>3, <3>4 DEF SameFor, FromRoute, WaitsToBuild
  <2> QED
    BY <2>2, <2>3
<1> QED
  BY <1>5, <1>6, <1>7, <1>8

LEMMA BuiltKeepsWay ==
  ASSUME TypeOK, NEW r \in Ranks, WaitsToBuild(r), Built(r) \/ Routed(r)
  PROVE  SameFor(r)
<1> DEFINE i == installed[r]
           c == chain[r]
           n == New(Target)
<1>0. UNCHANGED <<opts, gen, op>> /\ ~waits[r]
  BY DEF Built, Routed, Building, TypeOK
<1>1. CASE Built(r)
  <2>1. at[r] = "built" /\ at'[r] = "routed" /\ waits'[r] = (Target \in Collective) /\ outcome'[r] = outcome[r]
    BY <1>1, Moves, MovesOn DEF Built, Building
  <2>2. installed'[r] = i /\ chain'[r] = c
    BY <1>1 DEF Built, notes
  <2>3. Ends(r) = Result("ok", n, op, i, c) /\ Gathers(r) = Waits(Target, {"routed"})
    BY <1>0, <2>1, HereIs
  <2>4. Ends(r)' = Result("ok", n, op, i, c) /\ Ahead(r)' = {}
    BY <1>0, <2>1, <2>2, ThereIs
  <2>5. Gathers(r)' = Waits(Target, {"routed"})
    BY <1>0, <2>1, <2>4, ThereIs
  <2> QED
    BY <2>1, <2>3, <2>4, <2>5 DEF SameFor, WaitsToBuild
<1>2. CASE Routed(r)
  <2>1. /\ at[r] = "routed" /\ at'[r] = "idle" /\ ~waits'[r] /\ outcome'[r] = "ok"
    BY <1>0, <1>2, Moves, MovesOn DEF Routed, Building
  <2>2. pc'[r] = n /\ last'[r] = op /\ installed'[r] = i /\ chain'[r] = c
    BY <1>2, Rebuilt DEF Routed
  <2>4. Ends(r) = Result("ok", n, op, i, c) /\ Gathers(r) = {}
    BY <1>0, <2>1, <2>2, HereIs
  <2>5. Ends(r)' = Result("ok", n, op, i, c) /\ Gathers(r)' = {}
    BY <1>0, <2>1, <2>2, ThereIs
  <2> QED
    BY <2>1, <2>4, <2>5 DEF SameFor, WaitsToBuild
<1> QED
  BY <1>1, <1>2

LEMMA RankKeepsWay ==
  ASSUME TypeOK, NEW r \in Ranks, WaitsToBuild(r), Rank(r)
  PROVE  SameFor(r)
BY InstallKeepsWay, InstalledKeepsWay, RefreshKeepsWay, RefreshedKeepsWay, RouteKeepsWay,
   BuiltKeepsWay DEF Rank

LEMMA StandsStill ==
  ASSUME NEW r \in Ranks, WaitsToBuild(r), UNCHANGED <<opts, gen, op>>,
         pc'[r] = pc[r], last'[r] = last[r], installed'[r] = installed[r],
         chain'[r] = chain[r], at'[r] = at[r], waits'[r] = waits[r], outcome'[r] = outcome[r]
  PROVE  SameFor(r)
<1>1. Ends(r)' = Ends(r) /\ Ahead(r)' = Ahead(r)
  BY SameWay
<1>2. Gathers(r)' = Gathers(r)
  BY <1>1 DEF Gathers
<1> QED
  BY <1>1, <1>2 DEF SameFor, WaitsToBuild

------------------------------------------------------------------------------
(* The steps at which a rank gathers come one after the other.             *)
LEMMA InOrder ==
  ASSUME NEW r \in Ranks
  PROVE  /\ at[r] = "installed" => Ahead(r) \subseteq {"refreshed", "built", "routed"}
         /\ at[r] = "refreshed" => Ahead(r) \subseteq {"built", "routed"}
         /\ at[r] = "built" => Ahead(r) \subseteq {"routed"}
         /\ at[r] = "routed" => Ahead(r) = {}
<1>1. \A p, c : FromRoute(p, c) \subseteq {"built", "routed"}
  BY DEF FromRoute, Waits
<1>2. \A p, c : FromRefreshed(p, c) \subseteq {"built", "routed"}
  BY <1>1 DEF FromRefreshed
<1>3. \A p, l, c : FromRefresh(p, l, c) \subseteq {"refreshed", "built", "routed"}
  BY <1>1, <1>2 DEF FromRefresh, Waits
<1>4. \A l, c : FromInstalled(l, c) \subseteq {"refreshed", "built", "routed"}
  BY <1>3 DEF FromInstalled
<1>5. Waits(Target, {"routed"}) \subseteq {"routed"}
  BY DEF Waits
<1> QED
  BY <1>1, <1>2, <1>3, <1>4, <1>5, HereIs

(* Ranks with the same way that both wait do so at the same step, with the *)
(* same way behind it.                                                     *)
LEMMA SameStep ==
  ASSUME NEW q \in Ranks, NEW r \in Ranks, waits[q], waits[r],
         WaitsToBuild(q), WaitsToBuild(r), Alike(q, r)
  PROVE  at[q] = at[r] /\ Ahead(q) = Ahead(r)
<1>1. {at[q]} \cup Ahead(q) = {at[r]} \cup Ahead(r)
  BY DEF Alike, Gathers
<1>2. at[q] \in {at[r]} \cup Ahead(r) /\ at[r] \in {at[q]} \cup Ahead(q)
  BY <1>1
<1>3. /\ at[q] \in {"installed", "refreshed", "built", "routed"}
      /\ at[r] \in {"installed", "refreshed", "built", "routed"}
  BY DEF WaitsToBuild
<1>4. at[q] \notin Ahead(q) /\ at[r] \notin Ahead(r)
  BY <1>3, InOrder
<1>5. at[q] = at[r]
  <2>1. CASE at[q] = "installed"
    BY <1>2, <1>3, <2>1, InOrder
  <2>2. CASE at[q] = "refreshed"
    BY <1>2, <1>3, <2>2, InOrder
  <2>3. CASE at[q] = "built"
    BY <1>2, <1>3, <2>3, InOrder
  <2>4. CASE at[q] = "routed"
    BY <1>2, <1>3, <2>4, InOrder
  <2> QED
    BY <1>3, <2>1, <2>2, <2>3, <2>4
<1> QED
  BY <1>1, <1>4, <1>5

Keeps(r) == Result(outcome[r], pc[r], last[r], installed[r], chain[r])

LEMMA Resting ==
  ASSUME NEW r \in Ranks
  PROVE  /\ at[r] = "idle" => Ends(r) = Keeps(r)
         /\ at'[r] = "idle" => Ends(r)' = Keeps(r)' /\ Ahead(r)' = {}
<1>1. at[r] = "idle" => Ends(r) = Keeps(r)
  BY HereIs DEF Keeps
<1>2. ASSUME at'[r] = "idle"
      PROVE  Ends(r)' = Keeps(r)' /\ Ahead(r)' = {}
  BY <1>2 DEF Ends, End, Ahead, Way, Keeps
<1> QED
  BY <1>1, <1>2

LEMMA UserTogether ==
  ASSUME TypeOK, Together,
         \/ \E o \in Options : SetFromAllOptions(o)
         \/ \E type \in Own : SetPcType(type)
         \/ Edit \/ Setup
  PROVE  Together'
<1>1. ASSUME NEW r \in Ranks
      PROVE  at[r] = "idle" /\ ~waits[r] /\ ~waits'[r]
  <2>1. Idle /\ waits' = waits
    BY DEF SetFromAllOptions, SetPcType, Edit, Setup
  <2> QED
    BY <2>1 DEF Idle, Together, WaitsToBuild
<1>2. ASSUME NEW q \in Ranks, NEW r \in Ranks, ~apart
      PROVE  /\ outcome[q] = outcome[r] /\ pc[q] = pc[r] /\ last[q] = last[r]
             /\ installed[q] = installed[r] /\ chain[q] = chain[r]
  <2>1. Keeps(q) = Keeps(r)
    BY <1>1, <1>2, Resting DEF Together, Alike
  <2> QED
    BY <2>1 DEF Keeps, Result
<1>3. ASSUME NEW r \in Ranks, at'[r] = "idle"
      PROVE  Ends(r)' = Keeps(r)' /\ Gathers(r)' = {}
  BY <1>1, <1>3, Resting DEF Gathers
<1>4. CASE ~ Setup
  <2>1. ASSUME NEW r \in Ranks PROVE at'[r] = "idle" /\ outcome'[r] = ""
    BY <1>1, <1>4 DEF SetFromAllOptions, SetPcType, Edit
  <2>2. ASSUME NEW q \in Ranks, NEW r \in Ranks, ~apart'
        PROVE  /\ pc'[q] = pc'[r] /\ last'[q] = last'[r]
               /\ installed'[q] = installed'[r] /\ chain'[q] = chain'[r]
    <3>1. CASE \E o \in Options : SetFromAllOptions(o)
      <4>1. PICK o \in Options : SetFromAllOptions(o)
        BY <3>1
      <4>2. CASE o.type # "none"
        BY <4>1, <4>2 DEF SetFromAllOptions, Anew
      <4>3. CASE o.type = "none"
        <5>1. UNCHANGED <<pc, last, apart>>
          BY <4>1, <4>3 DEF SetFromAllOptions, Anew
        <5>2. pc[q] = pc[r] /\ last[q] = last[r]
          BY <1>2, <2>2, <5>1
        <5>3. installed' = [p \in Ranks |-> FALSE] /\ chain' = [p \in Ranks |-> 0]
          BY <4>1 DEF SetFromAllOptions, Anew
        <5> QED
          BY <5>1, <5>2, <5>3
      <4> QED
        BY <4>2, <4>3
    <3>2. CASE \E type \in Own : SetPcType(type)
      <4>1. PICK type \in Own : SetPcType(type)
        BY <3>2
      <4>2. UNCHANGED <<installed, chain, apart>>
        BY <4>1 DEF SetPcType
      <4>3. installed[q] = installed[r] /\ chain[q] = chain[r]
        BY <1>2, <2>2, <4>2
      <4>4. pc' = [p \in Ranks |-> Named(type)] /\ last' = [p \in Ranks |-> 0]
        BY <4>1 DEF SetPcType
      <4> QED
        BY <4>2, <4>3, <4>4
    <3>3. CASE Edit
      BY <1>2, <2>2, <3>3 DEF Edit, notes
    <3> QED
      BY <1>4, <3>1, <3>2, <3>3
  <2>3. ASSUME NEW q \in Ranks, NEW r \in Ranks, ~apart'
        PROVE  Alike(q, r)'
    BY <1>3, <2>1, <2>2, <2>3 DEF Alike, Keeps
  <2> QED
    BY <1>1, <2>3 DEF Together, WaitsToBuild
<1>5. CASE Setup
  <2>1. UNCHANGED <<opts, gen, op, pc, last, installed, chain, apart>>
    BY <1>5 DEF Setup, notes
  <2>2. ASSUME NEW r \in Ranks
        PROVE  /\ Ends(r)' = EndOfInstall(pc[r], last[r], installed[r], chain[r])
               /\ Gathers(r)' = FromInstall(pc[r], last[r], installed[r], chain[r])
    <3>1. at'[r] = "install" /\ ~waits'[r]
      BY <1>1, <1>5 DEF Setup
    <3> QED
      BY <2>1, <3>1, ThereIs
  <2>3. ASSUME NEW q \in Ranks, NEW r \in Ranks, ~apart'
        PROVE  Alike(q, r)'
    <3>1. Ends(q)' = Ends(r)' /\ Gathers(q)' = Gathers(r)'
      BY <1>2, <2>1, <2>2, <2>3
    <3> QED
      BY <3>1 DEF Alike
  <2> QED
    BY <1>1, <2>3 DEF Together, WaitsToBuild
<1> QED
  BY <1>4, <1>5

LEMMA GatherTogether ==
  ASSUME TypeOK, Together, Gather
  PROVE  Together'
<1>1. ASSUME NEW r \in Ranks
      PROVE  waits[r] /\ ~waits'[r] /\ Ends(r)' = Ends(r) /\ Gathers(r)' = Ahead(r)
  <2>1. waits[r] /\ ~waits'[r]
    BY DEF Gather
  <2>2. Ends(r)' = Ends(r) /\ Ahead(r)' = Ahead(r)
    BY SameWay DEF Gather, notes
  <2> QED
    BY <2>1, <2>2 DEF Gathers
<1>2. ASSUME NEW q \in Ranks, NEW r \in Ranks, ~apart'
      PROVE  Alike(q, r)'
  <2>1. Alike(q, r)
    BY <1>2 DEF Gather, Together
  <2>2. Ahead(q) = Ahead(r)
    BY <1>1, <2>1, SameStep DEF Together
  <2> QED
    BY <1>1, <2>1, <2>2 DEF Alike
<1> QED
  BY <1>1, <1>2 DEF Together, WaitsToBuild

LEMMA StaysTogether == IInv /\ Together /\ [Next]_vars => Together'
<1> SUFFICES ASSUME IInv, Together, [Next]_vars PROVE Together'
  OBVIOUS
<1>0. TypeOK
  BY DEF IInv
<1>1. CASE \/ \E o \in Options : SetFromAllOptions(o)
           \/ \E type \in Own : SetPcType(type)
           \/ Edit \/ Setup
  BY <1>0, <1>1, UserTogether
<1>2. CASE Gather
  BY <1>0, <1>2, GatherTogether
<1>3. ASSUME NEW r \in Ranks, Rank(r) PROVE Together'
  <2>1. SameFor(r)
    BY <1>0, <1>3, RankKeepsWay DEF Together
  <2>2. ASSUME NEW q \in Ranks, q # r PROVE SameFor(q)
    BY <1>0, <1>3, <2>2, OthersStay, StandsStill DEF Together
  <2>3. apart' = apart
    BY <1>3 DEF Rank, Install, Installed, Refresh, Refreshed, Route, Built, Routed
  <2>4. ASSUME NEW q \in Ranks, NEW p \in Ranks, ~apart' PROVE Alike(q, p)'
    <3>1. Alike(q, p)
      BY <2>3, <2>4 DEF Together
    <3> QED
      BY <2>1, <2>2, <3>1 DEF SameFor, Alike
  <2> QED
    BY <2>1, <2>2, <2>4 DEF Together, SameFor
<1>4. ASSUME NEW r \in Ranks, Fails(r) PROVE Together'
  <2>1. ~waits'[r]
    BY <1>0, <1>4, MovesOn DEF Fails, Building
  <2>2. ASSUME NEW q \in Ranks, q # r PROVE WaitsToBuild(q)'
    BY <1>0, <1>4, <2>2, OthersStay DEF Together, WaitsToBuild
  <2> QED
    BY <1>4, <2>1, <2>2 DEF Together, WaitsToBuild, Fails
<1>5. CASE UNCHANGED vars
  <2>1. ASSUME NEW q \in Ranks PROVE SameFor(q)
    BY <1>5, StandsStill DEF Together, vars, notes
  <2> QED
    BY <1>5, <2>1 DEF Together, SameFor, Alike, vars
<1> QED
  BY <1>1, <1>2, <1>3, <1>4, <1>5 DEF Next

LEMMA BeginsTogether == Init => Together
<1> SUFFICES ASSUME Init PROVE Together
  OBVIOUS
<1>1. ASSUME NEW r \in Ranks
      PROVE  /\ Ends(r) = Result("", NoPc, 0, FALSE, 0) /\ Gathers(r) = {} /\ ~waits[r]
  <2>1. /\ at[r] = "idle" /\ ~waits[r] /\ outcome[r] = "" /\ pc[r] = NoPc /\ last[r] = 0
        /\ installed[r] = FALSE /\ chain[r] = 0
    BY DEF Init
  <2> QED
    BY <2>1, HereIs
<1> QED
  BY <1>1 DEF Together, WaitsToBuild, Alike

(* As long as no construction has failed on one rank alone, ranks that     *)
(* meet in an exchange of rows build the same preconditioner, and after a  *)
(* set-up all have the same outcome and keep the same: for any number of   *)
(* ranks, all options and any sequence of calls, and anew once a pc_type   *)
(* has been given after such a failure.                                    *)
THEOREM RanksAlwaysAlike == Spec => []RanksAlike
<1>1. IInv /\ Together => RanksAlike
  <2> SUFFICES ASSUME Together, ~apart, NEW q \in Ranks, NEW r \in Ranks
               PROVE  /\ waits[q] /\ waits[r] => at[q] = at[r]
                      /\ at[q] = "idle" /\ at[r] = "idle" =>
                           /\ outcome[q] = outcome[r]
                           /\ <<pc[q], last[q], chain[q]>> = <<pc[r], last[r], chain[r]>>
    BY DEF RanksAlike
  <2>1. WaitsToBuild(q) /\ WaitsToBuild(r) /\ Alike(q, r)
    BY DEF Together
  <2>2. waits[q] /\ waits[r] => at[q] = at[r]
    BY <2>1, SameStep
  <2>3. ASSUME at[q] = "idle", at[r] = "idle"
        PROVE  outcome[q] = outcome[r] /\ pc[q] = pc[r] /\ last[q] = last[r] /\ chain[q] = chain[r]
    <3>1. Keeps(q) = Keeps(r)
      BY <2>1, <2>3, Resting DEF Alike
    <3> QED
      BY <3>1 DEF Keeps, Result
  <2> QED
    BY <2>2, <2>3
<1> QED
  BY <1>1, Initially, Inductive, BeginsTogether, StaysTogether, PTL DEF Spec
=============================================================================
