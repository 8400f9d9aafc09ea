------------------------------ MODULE DistCsr ------------------------------
(***************************************************************************)
(* The distributed matrix-vector product of matrix/dist_csr.rs: how a rank *)
(* splits its rows, picks a kernel and an overlap mode from what the split *)
(* looks like, multiplies, and takes new values.                           *)
(*                                                                         *)
(* Numbers are abstracted to where they come from: the k-th vector and the *)
(* n-th set of values are k and n, and an entry of y is the sequence of    *)
(* the products <<column, values, vector>> that were added to it.  The     *)
(* halo exchange is used by what GhostExchange promises: a call receives   *)
(* the vectors of the same call once its sources have published them.      *)
(***************************************************************************)
EXTENDS Integers, FiniteSets, SequencesExt

CONSTANTS Ranks,       (* the ranks                                        *)
          RowsOf,      (* RowsOf[r]: global rows (and columns) of rank r   *)
          Patterns,    (* matrices: pattern[i] is the set of columns of row i *)
          MaxCalls,    (* bound: products per rank                         *)
          MaxUpdates   (* bound: update_numeric and mode changes, all ranks *)

AllRows == UNION {RowsOf[r] : r \in Ranks}

ASSUME CsrAssumption ==
  /\ MaxCalls \in Nat /\ MaxUpdates \in Nat
  /\ RowsOf \in [Ranks -> SUBSET Int]
  /\ IsFiniteSet(AllRows)
  /\ \A p, q \in Ranks : p # q => RowsOf[p] \cap RowsOf[q] = {}
  /\ Patterns \subseteq [AllRows -> SUBSET AllRows]

VARIABLES
  A,          (* the matrix: the columns of each row                       *)
  mode,       (* mode[r]: overlap_mode                                     *)
  vals,       (* vals[r]: which values the rows hold                       *)
  diagVals,   (* diagVals[r]: the values in local_diag_plan                *)
  borderVals, (* borderVals[r]: the values in border_ghost_vals            *)
  updates,    (* how often the operator was changed, on all ranks          *)
  phase,      (* phase[r]: how far the current product is                  *)
  call,       (* call[r]: the current product, counted from 1              *)
  published,  (* published[r]: the last call whose vector was posted       *)
  ghost,      (* ghost[r]: the call the received values belong to, 0: none *)
  y           (* y[r][i]: the products added to row i                      *)

vars == <<A, mode, vals, diagVals, borderVals, updates, phase, call,
          published, ghost, y>>
operator == <<A, mode, vals, diagVals, borderVals, updates>>

Modes == {"Disabled", "Interior"}

(* Between two products the caller may change the operator.                *)
AtRest(r) == phase[r] \in {"idle", "returned"}

-----------------------------------------------------------------------------
(* The split of the rows.                                                  *)
GhostCols(i, r) == A[i] \ RowsOf[r]
RowIsLocal(i, r) == GhostCols(i, r) = {}
Ghosts(r) == UNION {GhostCols(i, r) : i \in RowsOf[r]}
Sources(r) == {p \in Ranks \ {r} : Ghosts(r) \cap RowsOf[p] # {}}
Targets(r) == {q \in Ranks \ {r} : r \in Sources(q)}

(* DistributedPlanMetrics, at least 1 where the code divides; entries are  *)
(* counted as pairs of a row and a column, values to send as pairs of the  *)
(* rank they go to and a row.                                              *)
AtLeast1(n) == IF n = 0 THEN 1 ELSE n
NRows(r)    == AtLeast1(Cardinality(RowsOf[r]))
Nnz(r)      == AtLeast1(Cardinality(UNION {{i} \X A[i] : i \in RowsOf[r]}))
GhostNnz(r) == Cardinality(UNION {{i} \X GhostCols(i, r) : i \in RowsOf[r]})
LocalOnly(r) == {i \in RowsOf[r] : RowIsLocal(i, r)}
Border(r)   == RowsOf[r] \ LocalOnly(r)
Volume(r)   == Cardinality(Ghosts(r))
               + Cardinality(UNION {{q} \X (Ghosts(q) \cap RowsOf[r]) : q \in Targets(r)})

(* communication_pressure >= x/100, where the pressure is                  *)
(*   0.5 border/rows + 0.3 ghost_nnz/nnz + 0.2 (volume/rows)/8             *)
(* multiplied by 200 * rows * nnz.                                         *)
PressureAtLeast(r, x) ==
  100 * Cardinality(Border(r)) * Nnz(r) + 60 * GhostNnz(r) * NRows(r)
    + 5 * Volume(r) * Nnz(r) >= 2 * x * NRows(r) * Nnz(r)

(* choose_distributed_plan.                                                *)
ChosenMode(r) == IF PressureAtLeast(r, 28) THEN "Interior" ELSE "Disabled"

LocalDiagPlan(r) ==
  \/ 100 * Cardinality(LocalOnly(r)) >= 55 * NRows(r)
  \/ ~PressureAtLeast(r, 25)

(* Mutant of Participates: a single ghost is taken for none.               *)
ParticipatesIfWide(r) == Cardinality(Ghosts(r)) > 1

Participates(r) == Ghosts(r) # {} \/ Targets(r) # {}

Term(r, c, v) == <<c, v, call[r]>>
Terms(r, C, v) == SetToSeq({Term(r, c, v) : c \in C})
-----------------------------------------------------------------------------
Init ==
  /\ A \in Patterns
  /\ mode = [r \in Ranks |-> ChosenMode(r)]
  /\ vals = [r \in Ranks |-> 0]
  /\ diagVals = [r \in Ranks |-> 0]
  /\ borderVals = [r \in Ranks |-> 0]
  /\ updates = 0
  /\ phase = [r \in Ranks |-> "idle"]
  /\ call = [r \in Ranks |-> 0]
  /\ published = [r \in Ranks |-> 0]
  /\ ghost = [r \in Ranks |-> 0]
  /\ y = [r \in Ranks |-> [i \in RowsOf[r] |-> <<>>]]

(* Between products, within the bound.                                     *)
MayChange(r) == AtRest(r) /\ updates < MaxUpdates

(* set_halo_overlap_mode.                                                  *)
SetMode(r, m) ==
  /\ MayChange(r)
  /\ phase' = [phase EXCEPT ![r] = "idle"]
  /\ mode' = [mode EXCEPT ![r] = m]
  /\ updates' = updates + 1
  /\ UNCHANGED <<A, vals, diagVals, borderVals, call, published, ghost, y>>

(* Mutant of UpdateNumeric: the border copies are forgotten.               *)
UpdateWithoutBorder(r) ==
  /\ MayChange(r)
  /\ phase' = [phase EXCEPT ![r] = "idle"]
  /\ vals' = [vals EXCEPT ![r] = @ + 1]
  /\ diagVals' = [diagVals EXCEPT ![r] = vals[r] + 1]
  /\ updates' = updates + 1
  /\ UNCHANGED <<A, mode, borderVals, call, published, ghost, y>>

(* update_numeric: new values reach the rows, the plan of the local block  *)
(* and the border copies; the chosen kernel and mode stay.                 *)
UpdateNumeric(r) ==
  /\ MayChange(r)
  /\ phase' = [phase EXCEPT ![r] = "idle"]
  /\ vals' = [vals EXCEPT ![r] = @ + 1]
  /\ diagVals' = [diagVals EXCEPT ![r] = vals[r] + 1]
  /\ borderVals' = [borderVals EXCEPT ![r] = vals[r] + 1]
  /\ updates' = updates + 1
  /\ UNCHANGED <<A, mode, call, published, ghost, y>>

(* matvec_s: clear y and post the exchange if this rank has a part in it.  *)
Begin(r) ==
  /\ AtRest(r)
  /\ call[r] < MaxCalls
  /\ call' = [call EXCEPT ![r] = @ + 1]
  /\ y' = [y EXCEPT ![r] = [i \in RowsOf[r] |-> <<>>]]
  /\ published' = IF Participates(r) THEN [published EXCEPT ![r] = call[r] + 1]
                                     ELSE published
  /\ ghost' = [ghost EXCEPT ![r] = 0]
  /\ phase' = [phase EXCEPT ![r] = "posted"]
  /\ UNCHANGED operator

(* complete_halo, before the local rows when nothing is overlapped.        *)
Receive(r) ==
  /\ \/ mode[r] = "Disabled" /\ phase[r] = "posted"
     \/ mode[r] = "Interior" /\ phase[r] = "local"
  /\ Participates(r) => \A p \in Sources(r) : published[p] >= call[r]
  /\ ghost' = [ghost EXCEPT ![r] = IF Participates(r) THEN call[r] ELSE 0]
  /\ phase' = [phase EXCEPT ![r] = IF mode[r] = "Disabled" THEN "received" ELSE "both"]
  /\ UNCHANGED <<operator, call, published, y>>

(* Mutant of LocalRow: the plan, too, leaves the rows with ghosts to       *)
(* spmv_border.                                                            *)
LocalRowsOnly(r, i) ==
  IF RowIsLocal(i, r)
    THEN Terms(r, A[i], IF LocalDiagPlan(r) THEN diagVals[r] ELSE vals[r])
    ELSE y[r][i]

(* spmv_local_only: the plan of the local block overwrites every row; the  *)
(* row-split kernel computes the rows without ghosts only.                 *)
LocalRow(r, i) ==
  CASE LocalDiagPlan(r) -> Terms(r, A[i] \cap RowsOf[r], diagVals[r])
    [] ~LocalDiagPlan(r) /\ RowIsLocal(i, r) -> Terms(r, A[i], vals[r])
    [] OTHER -> y[r][i]

MultiplyLocal(r) ==
  /\ \/ mode[r] = "Disabled" /\ phase[r] = "received"
     \/ mode[r] = "Interior" /\ phase[r] = "posted"
  /\ y' = [y EXCEPT ![r] = [i \in RowsOf[r] |-> LocalRow(r, i)]]
  /\ phase' = [phase EXCEPT ![r] = IF mode[r] = "Disabled" THEN "both" ELSE "local"]
  /\ UNCHANGED <<operator, call, published, ghost>>

(* spmv_border: add the products with ghosts to the rows that have some.   *)
MultiplyBorder(r) ==
  /\ phase[r] = "both"
  /\ y' = [y EXCEPT ![r] = [i \in RowsOf[r] |->
             IF RowIsLocal(i, r) THEN @[i]
             ELSE @[i] \o SetToSeq({<<c, borderVals[r], ghost[r]>> : c \in GhostCols(i, r)})]]
  /\ phase' = [phase EXCEPT ![r] = "returned"]
  /\ UNCHANGED <<operator, call, published, ghost>>

Multiply(r) == Begin(r) \/ Receive(r) \/ MultiplyLocal(r) \/ MultiplyBorder(r)

Finished == \A r \in Ranks : AtRest(r) /\ call[r] = MaxCalls

Next ==
  \/ \E r \in Ranks : \/ Multiply(r)
                      \/ UpdateNumeric(r)
                      \/ \E m \in Modes : SetMode(r, m)
  \/ Finished /\ UNCHANGED vars

Spec == Init /\ [][Next]_vars
FairSpec == Spec /\ \A r \in Ranks : WF_vars(Multiply(r))
-----------------------------------------------------------------------------

(* The products of row i with the columns C.                               *)
Products(r, i, C) == {j \in DOMAIN y[r][i] : y[r][i][j][1] \in C}

(* Row i holds the products with the columns C, each once, with the values *)
(* the operator was given last and the vectors of this very call.          *)
Holds(r, i, C) ==
  /\ {y[r][i][j] : j \in Products(r, i, C)} = {<<c, vals[r], call[r]>> : c \in C}
  /\ \A j, k \in Products(r, i, C) : y[r][i][j] = y[r][i][k] => j = k

(* Row i is that of A x, and nothing else is in it.                        *)
WholeRow(r, i) == Holds(r, i, A[i]) /\ Products(r, i, A[i]) = DOMAIN y[r][i]

(* y = A x: every row is the whole product.                                *)
MatvecIsAx ==
  \A r \in Ranks : phase[r] = "returned" => \A i \in RowsOf[r] : WholeRow(r, i)

(* It is, on every rank that chose the plan of its local block: there the  *)
(* two kernels divide a row with ghosts, the owned products to one and the *)
(* ghost products to the other, and none is left to neither.               *)
PlanKernelIsAx ==
  \A r \in Ranks : phase[r] = "returned" /\ LocalDiagPlan(r) =>
    \A i \in RowsOf[r] : WholeRow(r, i)

(* Whichever kernel: no product with a ghost is missing, doubled, or made  *)
(* of old values or of another call's vector.                              *)
GhostPartExact ==
  \A r \in Ranks : phase[r] = "returned" =>
    \A i \in RowsOf[r] : Holds(r, i, GhostCols(i, r))

(* Ranks that chose different overlap modes never wait for each other for  *)
(* ever: every product that begins returns.                                *)
EveryProductReturns ==
  \A r \in Ranks : ~AtRest(r) ~> AtRest(r)
=============================================================================
