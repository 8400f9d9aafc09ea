--------------------------- MODULE GhostExchange ---------------------------
(***************************************************************************)
(* What a halo exchange promises to a distributed matrix-vector product,   *)
(* without slots, requests or channels: the k-th call of a rank publishes  *)
(* that rank's vector, and the k-th call of a reader returns, for every    *)
(* rank it reads from, the vector that rank published in ITS k-th call.    *)
(* HaloExchange is shown to implement this specification.                  *)
(***************************************************************************)
EXTENDS Integers

CONSTANTS Ranks,      (* the ranks of the communicator                     *)
          MaxCalls,   (* number of calls each rank makes                   *)
          Edges       (* <<p, q>>: q reads values that p owns              *)

VARIABLES published,  (* published[r]: calls whose vector r has published  *)
          ghosts      (* ghosts[r][k]: sources read by call k, with values *)

Calls == 1..MaxCalls
Sources(r) == {p \in Ranks : <<p, r>> \in Edges}

(* A call that has not returned has no ghost values: an empty function.    *)
Nothing == [p \in {} |-> 0]

Init ==
  /\ published = [r \in Ranks |-> {}]
  /\ ghosts = [r \in Ranks |-> [k \in Calls |-> Nothing]]

Publish(r, k) ==
  /\ k \notin published[r]
  /\ published' = [published EXCEPT ![r] = @ \cup {k}]
  /\ UNCHANGED ghosts

(* The ghost values of call k are the vectors of the sources' call k: the  *)
(* value of a vector is the number of the call it belongs to.              *)
Return(r, k) ==
  /\ k \in published[r]
  /\ Sources(r) # {}
  /\ ghosts[r][k] = Nothing
  /\ \A p \in Sources(r) : k \in published[p]
  /\ ghosts' = [ghosts EXCEPT ![r][k] = [p \in Sources(r) |-> k]]
  /\ UNCHANGED published

Next == \E r \in Ranks, k \in Calls : Publish(r, k) \/ Return(r, k)

Spec == Init /\ [][Next]_<<published, ghosts>>
=============================================================================
