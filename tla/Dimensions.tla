----------------------------- MODULE Dimensions -----------------------------
(***************************************************************************)
(* The sizes that the partition of the rows and the handshake over the     *)
(* halo have in common.                                                    *)
(***************************************************************************)
EXTENDS Integers

CONSTANTS Size,      (* number of ranks, numbered from 0                   *)
          NGlobal,   (* number of global rows and columns                  *)
          Columns    (* global columns that are looked up, or referred to  *)
                     (* by local rows                                      *)

ASSUME SizesAssumption ==
  Size \in Nat \ {0} /\ NGlobal \in Nat /\ Columns \subseteq Nat
=============================================================================
