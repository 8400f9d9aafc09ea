------------------------------- MODULE Krylov -------------------------------
(***************************************************************************)
(* A distributed Krylov solve: every rank runs the program of the solver   *)
(* that the options name, and KspContext looks at the residual when it has *)
(* returned.  What must hold whichever solver runs is stated here once.    *)
(***************************************************************************)
EXTENDS Collective

C == INSTANCE Cg
G == INSTANCE Gmres
F == INSTANCE Fgmres
B == INSTANCE BiCgStab
P == INSTANCE PcaGmres
S == INSTANCE Recurrences
I == INSTANCE Idrs

Init == C!Init \/ G!Init \/ F!Init \/ B!Init \/ P!Init \/ S!Init \/ I!Init

Rank(r) ==
  \/ setting.solver = "cg" /\ C!Rank(r)
  \/ setting.solver = "gmres" /\ G!Rank(r)
  \/ setting.solver = "fgmres" /\ F!Rank(r)
  \/ setting.solver = "bicgstab" /\ B!Rank(r)
  \/ setting.solver = "pcagmres" /\ P!Rank(r)
  \/ setting.solver \in S!Small /\ S!Rank(r)
  \/ setting.solver = "idrs" /\ I!Rank(r)

Meet ==
  \/ setting.solver = "cg" /\ C!Meet
  \/ setting.solver = "gmres" /\ G!Meet
  \/ setting.solver = "fgmres" /\ F!Meet
  \/ setting.solver = "bicgstab" /\ B!Meet
  \/ setting.solver = "pcagmres" /\ P!Meet
  \/ setting.solver \in S!Small /\ S!Meet
  \/ setting.solver = "idrs" /\ I!Meet

Next == Meet \/ \E r \in Ranks : Rank(r)

Spec == Init /\ [][Next]_vars

(* A rank that can go on does; a reduction all ranks have entered ends.    *)
FairSpec == Spec /\ WF_vars(Meet) /\ \A r \in Ranks : WF_vars(Rank(r))

------------------------------------------------------------------------------
Is(solver) == setting.solver = solver

(* What the programs ask of the options and data of their own rank has the *)
(* same answer on all ranks: is there a guess for x, a monitor, a row, are *)
(* there rows enough to overlap, which plan has the matrix.                *)
AskedAlike(s) ==
  \A q, r \in Ranks :
    /\ s.solver \in {"cgs", "bicgstab", "idrs"} => s.guess[q] = s.guess[r]
    /\ s.solver = "cg" => /\ s.force \/ s.guess[q] = s.guess[r]
                          /\ s.monitor[q] = s.monitor[r]
                          /\ s.overlap => (s.rows[q] = "many" <=> s.rows[r] = "many")
    /\ s.solver \in {"cg", "cgs"} => (s.rows[q] = "none" <=> s.rows[r] = "none")
    /\ s.solver = "fgmres" => s.plan[q] = s.plan[r]

Steps == 2 * MaxIters   (* TFQMR reports half steps                         *)

Reasons ==
  {"converged", "diverged", "maxits", "stopped", "nan", "breakdown", "singular", "happy",
   "rank loss", "salvaged", "trust region", "PcApply", "FactorError", "IndefinitePc",
   "IndefiniteMatrix"}

TypeOK ==
  /\ \A r \in Ranks :
       /\ iter[r] \in 0..Steps
       /\ CASE Is("cg") -> setting \in C!SettingType /\ C!VectorsOK(r)
            [] Is("gmres") -> setting \in G!SettingType /\ G!VectorsOK(r)
            [] Is("fgmres") -> setting \in F!SettingType /\ F!VectorsOK(r)
            [] Is("bicgstab") -> setting \in B!SettingType /\ B!VectorsOK(r)
            [] Is("pcagmres") -> setting \in P!SettingType /\ P!VectorsOK(r)
            [] Is("idrs") -> setting \in I!SettingType /\ I!VectorsOK(r)
            [] OTHER -> setting \in S!SettingType /\ S!VectorsOK(r)
       /\ verdict[r] \in Reasons \cup {""}
       /\ result[r] = None \/ (result[r].reason \in Reasons /\ result[r].iterations \in 0..Steps)
  /\ broken \subseteq Ranks
  /\ \A e \in Edges : Len(mail[e]) <= 2

Shape(r) ==
  CASE Is("cg") -> C!Shape(r) [] Is("gmres") -> G!Shape(r)
    [] Is("fgmres") -> F!Shape(r) [] Is("bicgstab") -> B!Shape(r)
    [] Is("pcagmres") -> P!Shape(r) [] Is("idrs") -> I!Shape(r) [] OTHER -> S!Shape(r)

Reducing(r) == call[r] # None /\ Now(r) \in Reductions

(* Ranks that are in the same global reduction are at the same place of    *)
(* the program and take part in the same way: otherwise the sum of one     *)
(* dot product would be taken for another.  Until a preconditioner fails   *)
(* on one rank only.                                                       *)
SameReduction ==
  broken = {} => \A q, r \in Ranks : Reducing(q) /\ Reducing(r) =>
                   call[q] = call[r] /\ Shape(q) = Shape(r)

(* The ghost values that wait for a rank in a product belong to the vector *)
(* it multiplies: the same vector, at the same step and residual history.  *)
SameVectors ==
  broken = {} => \A e \in Edges :
    mail[e] # <<>> /\ call[e[2]] # None /\ Now(e[2]) \in Products => Head(mail[e]) = call[e[2]]

(* Ranks that have returned report the same reason and iterations.         *)
SameVerdict ==
  broken = {} => \A q, r \in Ranks : result[q] # None /\ result[r] # None => result[q] = result[r]

Updates(r) ==
  CASE Is("gmres") -> G!UpdateMatchesColumns(vec[r], G!Directions(vec[r]))
    [] Is("fgmres") -> F!UpdateMatchesColumns(vec[r], vec[r].z)
    [] Is("pcagmres") -> P!UpdateMatchesColumns(vec[r], P!Directions(vec[r]))
    [] OTHER -> TRUE

(* GMRES, FGMRES and PCA-GMRES add to x exactly the vectors whose images   *)
(* the columns of H expand, from the basis of the cycle that x is in: right *)
(* of a preconditioner Z, not V, and no column that an earlier cycle left. *)
(* (The s-step variant from the right does not.)  A step of IDR(s) uses the *)
(* omega of its own block, as long as no shadow space was repaired.        *)
UpdateOfThisCycle ==
  broken = {} => \A r \in Ranks :
    /\ Now(r) = "update" => Updates(r) \/ vec[r].mode = "sstep"
    /\ Is("idrs") /\ vec[r].tries = 0 => I!OmegaOfThisBlock(r)

(* What "mixing vectors built from incompatible residual histories" of     *)
(* cg.rs must not do: a step of CG goes along a direction of its residual. *)
(* BiCGStab: "p = r + beta (p - omega v)" with v = A p of the last p, or   *)
(* beta = 0 after a refresh, where r is the residual of x.                 *)
DirectionFits ==
  /\ Is("cg") => C!StepOnCurrent
  /\ broken = {} => \A r \in Ranks :
       Is("bicgstab") /\ Now(r) = "direction" => B!DirectionOnImage(vec[r])

(* convergence.rs: "Converged due to absolute tolerance: |r| <= atol" or   *)
(* relative to b: a solver of Recurrences that tests the residual itself,  *)
(* and IDR(s), say so only of the x whose residual met the tolerance.      *)
(* (TFQMR tests an estimate.)                                              *)
ConvergedSeen ==
  \A r \in Ranks :
    /\ setting.solver \in S!Confirmed \cup {"idrs"}
    /\ result[r] # None /\ result[r].reason = "converged" /\ setting.rows[r] # "none"
    => vec[r].passed = vec[r].x

(* ReductionModel::estimate_total, "a conservative estimate" of the global *)
(* reductions that a solve makes.                                          *)
WithinModel ==
  \A r \in Ranks : CASE Is("cg") -> C!WithinModel(r)
                     [] Is("gmres") -> G!WithinModel(r)
                     [] OTHER -> TRUE

(* The solve returns on every rank, unless a preconditioner failed.        *)
EveryRankReturns == <>(broken # {} \/ \A r \in Ranks : result[r] # None)
=============================================================================
