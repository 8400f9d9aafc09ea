------------------------------ MODULE Arnoldi ------------------------------
(***************************************************************************)
(* What Gmres and Fgmres share: the Krylov basis of a cycle and how it is  *)
(* orthogonalised.  The vectors of a rank:                                 *)
(*   v    the basis of the cycle; <<x, e, j>> is the j-th vector built from *)
(*        the residual of x at attempt e                                   *)
(*   z    Z_k = M^{-1} v_k, named by the basis vector it was made from; the *)
(*        columns of earlier cycles stay until they are overwritten        *)
(*   w    the basis vector whose image is being orthogonalised             *)
(*   col  the basis vectors whose images the columns of H expand           *)
(*   mode the variant in use, block the width of an s-step panel           *)
(*   hist a residual is kept for the test for stagnation                   *)
(*   true the last explicit residual is below the tolerance (Fgmres)       *)
(***************************************************************************)
EXTENDS Collective

MostColumns == 4   (* columns of V and Z that are followed                 *)

NoTag == <<>>
FreshBasis(mode) ==
  [x |-> 0, e |-> 0, v |-> <<>>, z |-> [j \in 1..MostColumns |-> NoTag], w |-> NoTag,
   col |-> <<>>, mode |-> mode, block |-> 1, hist |-> FALSE, true |-> FALSE]

(* v_0 = r / ||r||, H = 0.                                                 *)
StartCycle(v) == [v EXCEPT !.v = << <<v.x, v.e, 0>> >>, !.col = <<>>]

Last(v) == v.v[Len(v.v)]

(* w - V h, scaled, is the next basis vector if w belongs to this cycle.   *)
NextBasis(v) ==
  IF v.w # NoTag /\ <<v.w[1], v.w[2]>> = <<v.v[1][1], v.v[1][2]>>
    THEN <<v.v[1][1], v.v[1][2], Len(v.v)>> ELSE NoTag
Extended(v) == [v EXCEPT !.v = Append(@, NextBasis(v)), !.col = Append(@, v.w)]

(* One pass of Gram-Schmidt against the basis.                             *)
Pass(v, orthog) ==
  IF orthog = "cgs" THEN <<"dots", "norm w">> ELSE Times(Len(v.v), <<"dot">>) \o <<"norm w">>

(* A second pass, always or after the first has shown that it is needed.   *)
Orthogonalize(v, orthog, reorth) ==
  If(reorth = "ifneeded", "norm w") \o Pass(v, orthog)
    \o (IF reorth = "always" THEN Pass(v, orthog) ELSE If(reorth = "ifneeded", "again?"))

(* pipelined_arnoldi_step: all coefficients and the norm in one payload.   *)
PipelinedStep(reorth) ==
  <<"payload">> \o If(reorth = "always", "payload") \o If(reorth = "ifneeded", "again?")

SecondPass(v, orthog) ==
  CASE v.mode = "pipelined" -> <<"payload">>
    [] v.mode = "sstep" -> <<"dots", "gram">>
    [] OTHER -> Pass(v, orthog)

Again(r, orthog) ==
  /\ Now(r) = "again?"
  /\ Go(r, IF "lost" \in seen[r] THEN SecondPass(vec[r], orthog) \o Tail(todo[r])
                                 ELSE Tail(todo[r]))
  /\ seen' = [seen EXCEPT ![r] = @ \ {"lost"}]
  /\ UNCHANGED <<setting, iter, vec, verdict, call, mail, posted, broken, result>>

(* Z_k = M^{-1} v_k; u = Z_k is what A is applied to.                      *)
PreconditionedBasis(v) == [v EXCEPT !.z[Len(v.v)] = Last(v), !.w = Last(v)]

Follows(r, step) == Len(todo[r]) > 1 /\ todo[r][2] = step
Awaits(r, step) == \E i \in 2..Len(todo[r]) : todo[r][i] = step

------------------------------------------------------------------------------
BasisTags == {NoTag} \cup ((0..MaxIters) \X (0..1) \X (0..MostColumns))
VectorsOK(r) ==
  /\ vec[r].x \in 0..MaxIters /\ vec[r].e \in 0..1
  /\ {vec[r].v[j] : j \in 1..Len(vec[r].v)} \subseteq BasisTags
  /\ {vec[r].z[j] : j \in 1..MostColumns} \subseteq BasisTags
  /\ Len(vec[r].v) <= MostColumns /\ Len(vec[r].col) <= MostColumns

(* The vectors that x is updated with: column by column those whose images *)
(* H expands, of the cycle that started from the residual of this x.       *)
UpdateMatchesColumns(v, directions) ==
  /\ v.v[1] = <<v.x, v.e, 0>>
  /\ \A j \in 1..Len(v.col) : directions[j] = v.col[j] /\ v.col[j] = <<v.x, v.e, j - 1>>
=============================================================================
