---------------------------- MODULE HaloExchange ----------------------------
(***************************************************************************)
(* The nonblocking halo exchange of matrix/dist/halo.rs (HaloPlan):        *)
(* post_halo checks a context out of a pool, posts a receive per source,   *)
(* packs, posts a send per target; complete_halo waits for every request,  *)
(* unpacks into the context's ghost vector and gives the context back.     *)
(*                                                                         *)
(* Every rank makes the calls 1..MaxCalls.  The vector of call k is        *)
(* represented by k, so that a ghost value tells which call it came from.  *)
(* MPI (external) is a FIFO channel per edge: all messages carry tag 0 on  *)
(* one communicator, so the i-th receive posted for a source takes the     *)
(* i-th message that source posted.  A transfer reads the send buffer      *)
(* (Fetch) and writes the receive buffer (Deliver) at any time between the *)
(* posting of the request and its completion.                              *)
(***************************************************************************)
EXTENDS Integers, Sequences, FiniteSets

CONSTANTS Ranks,       (* the ranks of the communicator                    *)
          MaxCalls,    (* bound: exchanges per rank                        *)
          Edges,       (* <<p, q>>: p sends to q, q receives from p        *)
          Discipline,  (* how the calls of one rank overlap, see MayBegin  *)
          Caller       (* who calls: "DistCsrOp" or "LocalPC"              *)

ASSUME ConstantsAssumption ==
  /\ MaxCalls \in Nat \ {0}
  /\ Edges \subseteq (Ranks \X Ranks) /\ \A e \in Edges : e[1] # e[2]
  /\ Discipline \in {"sequential", "overlapped", "threads"}
  /\ Caller \in {"DistCsrOp", "LocalPC"}

VARIABLES
  pc,        (* pc[r][k]: how far call k of rank r is                      *)
  slot,      (* slot[r][k]: the context held by the call, 0 before         *)
  contexts,  (* contexts[r]: the pool's buffers, indexed by slot from 1    *)
  free,      (* free[r]: stack of free slots                               *)
  sent,      (* sent[e]: calls of the source, in the order of their sends  *)
  rcvd,      (* rcvd[e]: calls of the target, in the order of their recvs  *)
  wire,      (* wire[e]: values read from send buffers, in message order   *)
  arrived,   (* arrived[e]: how many messages were written to a recv buffer *)
  ghosts     (* ghosts[r][k]: the ghost values the caller of call k used   *)

vars == <<pc, slot, contexts, free, sent, rcvd, wire, arrived, ghosts>>

Calls   == 1..MaxCalls
Phases  == {"new", "grow", "post", "send", "unpacked", "released", "done"}
Sources(r) == {p \in Ranks : <<p, r>> \in Edges}
Targets(r) == {q \in Ranks : <<r, q>> \in Edges}

Nothing == [p \in {} |-> 0]
InSeq(x, s) == \E i \in DOMAIN s : s[i] = x

(* HaloBuffers::new: zeroed send, receive and ghost vectors.               *)
Zeroed(r) == [send  |-> [q \in Targets(r) |-> 0],
              recv  |-> [p \in Sources(r) |-> 0],
              ghost |-> [p \in Sources(r) |-> 0]]

Context(r) == [send  : [Targets(r) -> Nat],
               recv  : [Sources(r) -> Nat],
               ghost : [Sources(r) -> Nat]]

(* Mutant of Participates: the test for something to send is forgotten.    *)
GhostsOnly(r) == Sources(r) # {}

(* Mutant of Participates: an off-by-one, the rank also skips when it      *)
(* reads from one rank only.                                               *)
OneSourceIsNone(r) ==
  \/ Cardinality(Sources(r)) > 1
  \/ Caller = "DistCsrOp" /\ Targets(r) # {}

(* Does a call of rank r exchange at all?  DistCsrOp posts when it has     *)
(* ghosts or something to send; the rank-local preconditioners (SOR, block *)
(* Jacobi) return early as soon as they have no ghosts.                    *)
Participates(r) ==
  \/ Sources(r) # {}
  \/ Caller = "DistCsrOp" /\ Targets(r) # {}

(* "threads": every call on a thread of its own.  "overlapped": one thread *)
(* posts the calls in order, but may complete them later, in any order.    *)
(* "sequential": one thread, each call completed before the next.          *)
Posted(r, k) ==
  /\ pc[r][k] \in {"send", "unpacked", "released", "done"}
  /\ \A q \in Targets(r) : InSeq(k, sent[<<r, q>>]) \/ ~Participates(r)

MayBegin(r, k) ==
  \A j \in 1..(k - 1) :
    /\ Discipline = "overlapped" => Posted(r, j)
    /\ Discipline = "sequential" => pc[r][j] = "done"

-----------------------------------------------------------------------------
Init ==
  /\ pc = [r \in Ranks |-> [k \in Calls |-> "new"]]
  /\ slot = [r \in Ranks |-> [k \in Calls |-> 0]]
  /\ contexts = [r \in Ranks |-> <<Zeroed(r)>>]
  /\ free = [r \in Ranks |-> <<1>>]
  /\ sent = [e \in Edges |-> <<>>]
  /\ rcvd = [e \in Edges |-> <<>>]
  /\ wire = [e \in Edges |-> <<>>]
  /\ arrived = [e \in Edges |-> 0]
  /\ ghosts = [r \in Ranks |-> [k \in Calls |-> Nothing]]

(* The caller sees that this rank has no part in the exchange.             *)
Skip(r, k) ==
  /\ pc[r][k] = "new"
  /\ MayBegin(r, k)
  /\ ~Participates(r)
  /\ pc' = [pc EXCEPT ![r][k] = "done"]
  /\ UNCHANGED <<slot, contexts, free, sent, rcvd, wire, arrived, ghosts>>

(* checkout_context: pop a free slot ...                                   *)
CheckoutFree(r, k) ==
  /\ pc[r][k] = "new"
  /\ MayBegin(r, k)
  /\ Participates(r)
  /\ free[r] # <<>>
  /\ slot' = [slot EXCEPT ![r][k] = free[r][Len(free[r])]]
  /\ free' = [free EXCEPT ![r] = SubSeq(@, 1, Len(@) - 1)]
  /\ pc' = [pc EXCEPT ![r][k] = "post"]
  /\ UNCHANGED <<contexts, sent, rcvd, wire, arrived, ghosts>>

(* ... or find the stack empty, give its lock back, ...                    *)
CheckoutMiss(r, k) ==
  /\ pc[r][k] = "new"
  /\ MayBegin(r, k)
  /\ Participates(r)
  /\ free[r] = <<>>
  /\ pc' = [pc EXCEPT ![r][k] = "grow"]
  /\ UNCHANGED <<slot, contexts, free, sent, rcvd, wire, arrived, ghosts>>

(* Mutant of Grow: the slot is the last one, not the one about to be pushed. *)
GrowOffByOne(r, k) ==
  /\ pc[r][k] = "grow"
  /\ slot' = [slot EXCEPT ![r][k] = Len(contexts[r])]
  /\ contexts' = [contexts EXCEPT ![r] = Append(@, Zeroed(r))]
  /\ pc' = [pc EXCEPT ![r][k] = "post"]
  /\ UNCHANGED <<free, sent, rcvd, wire, arrived, ghosts>>

(* ... and push a new context under the lock of the pool.                  *)
Grow(r, k) ==
  /\ pc[r][k] = "grow"
  /\ slot' = [slot EXCEPT ![r][k] = Len(contexts[r]) + 1]
  /\ contexts' = [contexts EXCEPT ![r] = Append(@, Zeroed(r))]
  /\ pc' = [pc EXCEPT ![r][k] = "post"]
  /\ UNCHANGED <<free, sent, rcvd, wire, arrived, ghosts>>

(* post_halo: one nonblocking receive per source.                          *)
PostRecv(r, k, p) ==
  /\ pc[r][k] = "post"
  /\ p \in Sources(r)
  /\ ~InSeq(k, rcvd[<<p, r>>])
  /\ rcvd' = [rcvd EXCEPT ![<<p, r>>] = Append(@, k)]
  /\ UNCHANGED <<pc, slot, contexts, free, sent, wire, arrived, ghosts>>

(* post_halo: pack the vector into every send buffer of the context.       *)
Pack(r, k) ==
  /\ pc[r][k] = "post"
  /\ \A p \in Sources(r) : InSeq(k, rcvd[<<p, r>>])
  /\ contexts' = [contexts EXCEPT ![r][slot[r][k]].send =
                    [q \in Targets(r) |-> k]]
  /\ pc' = [pc EXCEPT ![r][k] = "send"]
  /\ UNCHANGED <<slot, free, sent, rcvd, wire, arrived, ghosts>>

(* post_halo: one nonblocking send per target.                             *)
PostSend(r, k, q) ==
  /\ pc[r][k] = "send"
  /\ q \in Targets(r)
  /\ ~InSeq(k, sent[<<r, q>>])
  /\ sent' = [sent EXCEPT ![<<r, q>>] = Append(@, k)]
  /\ UNCHANGED <<pc, slot, contexts, free, rcvd, wire, arrived, ghosts>>

(* MPI reads the send buffer of the oldest send it has not read yet.       *)
Fetch(e) ==
  LET i == Len(wire[e]) + 1
      p == e[1]
  IN  /\ i <= Len(sent[e])
      /\ wire' = [wire EXCEPT ![e] =
                    Append(@, contexts[p][slot[p][sent[e][i]]].send[e[2]])]
      /\ UNCHANGED <<pc, slot, contexts, free, sent, rcvd, arrived, ghosts>>

(* MPI writes the oldest undelivered message into the buffer of the oldest *)
(* unmatched receive.                                                      *)
Deliver(e) ==
  LET i == arrived[e] + 1
      q == e[2]
  IN  /\ i <= Len(wire[e])
      /\ i <= Len(rcvd[e])
      /\ contexts' = [contexts EXCEPT
                        ![q][slot[q][rcvd[e][i]]].recv[e[1]] = wire[e][i]]
      /\ arrived' = [arrived EXCEPT ![e] = i]
      /\ UNCHANGED <<pc, slot, free, sent, rcvd, wire, ghosts>>

(* Mutants of the waits: not waiting.                                      *)
RecvNotAwaited(r, k, p) == InSeq(k, rcvd[<<p, r>>])
SendNotAwaited(r, k, q) == InSeq(k, sent[<<r, q>>])

(* MPI_Wait returns for a receive once its message is in the buffer, and   *)
(* for a send once its buffer was read.                                    *)
RecvDone(r, k, p) ==
  \E i \in 1..arrived[<<p, r>>] : rcvd[<<p, r>>][i] = k
SendDone(r, k, q) ==
  \E i \in 1..Len(wire[<<r, q>>]) : sent[<<r, q>>][i] = k

(* complete_halo: wait for the receives, then for the sends, then copy the *)
(* receive buffers into the context's ghost vector and clone it.           *)
Unpack(r, k) ==
  /\ pc[r][k] = "send"
  /\ Posted(r, k)
  /\ \A p \in Sources(r) : RecvDone(r, k, p)
  /\ \A q \in Targets(r) : SendDone(r, k, q)
  /\ LET values == contexts[r][slot[r][k]].recv
     IN  /\ contexts' = [contexts EXCEPT ![r][slot[r][k]].ghost = values]
         /\ ghosts' = IF Caller = "DistCsrOp"
                        THEN [ghosts EXCEPT ![r][k] = values]
                        ELSE ghosts
  /\ pc' = [pc EXCEPT ![r][k] = "unpacked"]
  /\ UNCHANGED <<slot, free, sent, rcvd, wire, arrived>>

(* Mutant of Release: the slot is forgotten.                               *)
ReleaseLosingSlot(r, k) ==
  /\ pc[r][k] = "unpacked"
  /\ pc' = [pc EXCEPT ![r][k] =
              IF Caller = "DistCsrOp" THEN "done" ELSE "released"]
  /\ UNCHANGED <<slot, contexts, free, sent, rcvd, wire, arrived, ghosts>>

(* complete_halo: give the slot back, with or without ghosts.              *)
Release(r, k) ==
  /\ pc[r][k] = "unpacked"
  /\ free' = [free EXCEPT ![r] = Append(@, slot[r][k])]
  /\ pc' = [pc EXCEPT ![r][k] =
              IF Caller = "DistCsrOp" THEN "done" ELSE "released"]
  /\ UNCHANGED <<slot, contexts, sent, rcvd, wire, arrived, ghosts>>

(* The rank-local preconditioners drop the returned vector and read the    *)
(* ghost vector of the first context (ghost_slice_ref) instead.            *)
ReadPrimary(r, k) ==
  /\ pc[r][k] = "released"
  /\ ghosts' = [ghosts EXCEPT ![r][k] = contexts[r][1].ghost]
  /\ pc' = [pc EXCEPT ![r][k] = "done"]
  /\ UNCHANGED <<slot, contexts, free, sent, rcvd, wire, arrived>>

Finished == \A r \in Ranks, k \in Calls : pc[r][k] = "done"

Step(r, k) ==
  \/ Skip(r, k)
  \/ CheckoutFree(r, k)
  \/ CheckoutMiss(r, k)
  \/ Grow(r, k)
  \/ \E p \in Sources(r) : PostRecv(r, k, p)
  \/ Pack(r, k)
  \/ \E q \in Targets(r) : PostSend(r, k, q)
  \/ Unpack(r, k)
  \/ Release(r, k)
  \/ ReadPrimary(r, k)

Next ==
  \/ \E r \in Ranks, k \in Calls : Step(r, k)
  \/ \E e \in Edges : Fetch(e) \/ Deliver(e)
  \/ Finished /\ UNCHANGED vars

(* A thread keeps running, and MPI makes progress on posted requests.      *)
Fairness ==
  /\ \A r \in Ranks, k \in Calls : WF_vars(Step(r, k))
  /\ \A e \in Edges : WF_vars(Fetch(e)) /\ WF_vars(Deliver(e))

Spec == Init /\ [][Next]_vars
FairSpec == Spec /\ Fairness
-----------------------------------------------------------------------------
PcType == pc \in [Ranks -> [Calls -> Phases]]
PoolType ==
  /\ slot \in [Ranks -> [Calls -> Nat]]
  /\ free \in [Ranks -> Seq(Nat \ {0})]
ContextsType ==
  /\ DOMAIN contexts = Ranks
  /\ \A r \in Ranks : contexts[r] \in Seq(Context(r))
QueuesType ==
  /\ sent \in [Edges -> Seq(Calls)]
  /\ rcvd \in [Edges -> Seq(Calls)]
  /\ wire \in [Edges -> Seq(Nat)]
  /\ arrived \in [Edges -> Nat]
GhostsType ==
  /\ DOMAIN ghosts = Ranks
  /\ \A r \in Ranks :
       ghosts[r] \in [Calls -> [Sources(r) -> Nat] \cup {Nothing}]

TypeOK == PcType /\ PoolType /\ ContextsType /\ QueuesType /\ GhostsType

(* A call holds a context from its checkout to its release.                *)
Holding(r, k) == pc[r][k] \in {"post", "send", "unpacked"}

SlotsOf(r) ==
  /\ \A k, j \in Calls :
       Holding(r, k) /\ Holding(r, j) /\ k # j => slot[r][k] # slot[r][j]
  /\ \A i, j \in DOMAIN free[r] : i # j => free[r][i] # free[r][j]
  /\ \A k \in Calls, i \in DOMAIN free[r] :
       Holding(r, k) => slot[r][k] # free[r][i]
  /\ \A s \in 1..Len(contexts[r]) :
       InSeq(s, free[r]) \/ \E k \in Calls : Holding(r, k) /\ slot[r][k] = s
  /\ \A i \in DOMAIN free[r] : free[r][i] \in 1..Len(contexts[r])
  /\ \A k \in Calls : Holding(r, k) => slot[r][k] \in 1..Len(contexts[r])

(* No context is lost and none has two owners: a slot of the pool is held  *)
(* by exactly one call or lies exactly once on the free stack.             *)
(* (checkout_context and complete_halo_impl against each other.)           *)
SlotsConserved == \A r \in Ranks : SlotsOf(r)

QuietOf(e) ==
  /\ \A i \in (Len(wire[e]) + 1)..Len(sent[e]) : Holding(e[1], sent[e][i])
  /\ \A i \in (arrived[e] + 1)..Len(rcvd[e]) : Holding(e[2], rcvd[e][i])

(* The buffers of a posted request that MPI may still read or write belong *)
(* to the call that posted it: complete_halo gives a context back only     *)
(* after every send was read and every receive was written.                *)
NoReuseInFlight == \A e \in Edges : QuietOf(e)

(* A matrix-vector product never mixes vectors of different calls: the     *)
(* ghost values a call used are those its sources sent in the same call.   *)
GhostsOfSameCall ==
  \A r \in Ranks, k \in Calls :
    \A p \in DOMAIN ghosts[r][k] : ghosts[r][k][p] = k

(* The exchange implements the abstract specification: a call's vector is  *)
(* published when it is packed and returned when the ghosts are read.      *)
PublishedCalls == [r \in Ranks |->
  {k \in Calls : pc[r][k] \in {"send", "unpacked", "released", "done"}
                 /\ Participates(r)}]
Promise == INSTANCE GhostExchange WITH published <- PublishedCalls
PromiseKept == Promise!Spec

(* Every call of every rank returns: no rank waits for a message that its  *)
(* peer decided not to send.                                               *)
EveryCallReturns == <>Finished

(* Excuse for the rank-local preconditioners: rank r is coupled, directly  *)
(* or through other ranks, to one that others read from and that reads     *)
(* from nobody.  Such a rank returns early (sor.rs:388,                    *)
(* block_jacobi_ilu.rs:182), although its reader waits for it, and then    *)
(* whoever shares an exchange with the reader waits too.                   *)
Coupled(r) ==
  \A C \in SUBSET Ranks :
    r \in C /\ (\A q \in C : Sources(q) \cup Targets(q) \subseteq C)
      => \E q \in C : Sources(q) = {}
HangsBySkipping(r) == Sources(r) # {} /\ Coupled(r)

(* matrix_features.md:64, 77: SOR and block Jacobi are safe under MPI      *)
(* with halo-coupled correction.  In the code that holds of the ranks that *)
(* no skipping rank can reach (HangsBySkipping is the excuse): there, a    *)
(* call of every rank returns though each decides from its own ghosts      *)
(* whether to take part, even where nobody reads from the rank it serves.  *)
ReturnsUnlessPeerSkips ==
  \A r \in Ranks :
    ~HangsBySkipping(r) => <>(\A k \in Calls : pc[r][k] = "done")
=============================================================================
