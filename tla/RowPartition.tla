---------------------------- MODULE RowPartition ----------------------------
(***************************************************************************)
(* Who owns a row: DistCsrOp::partition_rows_balanced builds the prefix    *)
(* array of a row partition, and owner_of finds the rank of a column in a  *)
(* partition (a balanced one, or any the caller passes, with empty ranks)  *)
(* by binary search.  matrix/dist_csr.rs.                                  *)
(***************************************************************************)
EXTENDS Dimensions, Sequences

VARIABLES starts,  (* the prefix array: rank r owns starts[r+1]..starts[r+2]-1 *)
          s,       (* partition_rows_balanced: first row of the next rank  *)
          j,       (* owner_of: the column looked up                       *)
          lo, hi,  (* owner_of: the ranks still possible                   *)
          owner    (* owner_of: the result, -1 before                      *)

partitionVars == <<starts, s, j, lo, hi, owner>>

Base == NGlobal \div Size
Rem  == NGlobal % Size

Monotone(p) == \A a, b \in 1..Len(p) : a <= b => p[a] <= p[b]

(* A prefix array that a caller passes.                                    *)
InitGiven == \E p \in [1..(Size + 1) -> 0..NGlobal] :
               /\ p[1] = 0 /\ p[Size + 1] = NGlobal /\ Monotone(p)
               /\ starts = p
InitBuilt == starts = <<>>

PartitionInit ==
  /\ InitGiven \/ InitBuilt
  /\ s = 0
  /\ j \in Columns
  /\ lo = 0 /\ hi = Size - 1
  /\ owner = -1

(* The first rem ranks take one row more than the others.                  *)
NextStart(k) == s + Base + (IF k < Rem THEN 1 ELSE 0)

PushStart ==
  /\ Len(starts) < Size
  /\ starts' = Append(starts, s)
  /\ s' = NextStart(Len(starts))
  /\ UNCHANGED <<j, lo, hi, owner>>

PushEnd ==
  /\ Len(starts) = Size
  /\ starts' = Append(starts, NGlobal)
  /\ UNCHANGED <<s, j, lo, hi, owner>>

Searching == Len(starts) = Size + 1 /\ owner = -1 /\ lo <= hi
mid == (lo + hi) \div 2
FirstOf(r) == starts[r + 1]

Found ==
  /\ Searching
  /\ FirstOf(mid) <= j /\ j < FirstOf(mid + 1)
  /\ owner' = mid
  /\ UNCHANGED <<starts, s, j, lo, hi>>

(* At rank 0 the search gives up rather than let the unsigned bound wrap.  *)
GoLeft ==
  /\ Searching
  /\ j < FirstOf(mid + 1) /\ j < FirstOf(mid)
  /\ IF mid = 0 THEN owner' = lo /\ UNCHANGED hi
                ELSE hi' = mid - 1 /\ UNCHANGED owner
  /\ UNCHANGED <<starts, s, j, lo>>

(* Mutants of GoRight: the rank that was tried stays in the range, and one *)
(* rank is skipped.                                                        *)
GoRightKeepingMid ==
  /\ Searching
  /\ FirstOf(mid + 1) <= j
  /\ lo' = mid
  /\ UNCHANGED <<starts, s, j, hi, owner>>
GoRightTooFar ==
  /\ Searching
  /\ FirstOf(mid + 1) <= j
  /\ lo' = mid + 2
  /\ UNCHANGED <<starts, s, j, hi, owner>>

GoRight ==
  /\ Searching
  /\ FirstOf(mid + 1) <= j
  /\ lo' = mid + 1
  /\ UNCHANGED <<starts, s, j, hi, owner>>

Exhausted ==
  /\ Len(starts) = Size + 1 /\ owner = -1
  /\ lo > hi
  /\ owner' = lo
  /\ UNCHANGED <<starts, s, j, lo, hi>>

PartitionStep == \/ PushStart \/ PushEnd
                 \/ Found \/ GoLeft \/ GoRight \/ Exhausted

PartitionNext == PartitionStep \/ (owner # -1 /\ UNCHANGED partitionVars)

PartitionSpec == PartitionInit /\ [][PartitionNext]_partitionVars
FairPartitionSpec == PartitionSpec /\ WF_partitionVars(PartitionStep)
-----------------------------------------------------------------------------
PartitionTypeOK ==
  /\ starts \in Seq(Nat) /\ Len(starts) <= Size + 1
  /\ s \in Nat
  /\ j \in Columns
  /\ lo \in 0..Size /\ hi \in 0..(Size - 1)
  /\ owner \in -1..Size

(* A column that exists is found at its owner, whatever ranks are empty;   *)
(* one that does not exist is given the rank number Size, which            *)
(* HaloIndexPlan::new rejects as out of bounds.                            *)
OwnerFound ==
  owner # -1 => IF j < NGlobal
                  THEN /\ owner < Size
                       /\ FirstOf(owner) <= j /\ j < FirstOf(owner + 1)
                  ELSE owner = Size

(* The search ends for every column and every partition.                   *)
SearchEnds == <>(owner # -1)
=============================================================================
