------------------------ MODULE HaloExchange_proofs ------------------------
(***************************************************************************)
(* Proofs about HaloExchange, for every set of ranks, every pattern of     *)
(* edges, every number of calls and every discipline of the callers,       *)
(* concurrent threads included: the pool of contexts is sound.             *)
(***************************************************************************)
EXTENDS HaloExchange, SequenceTheorems, TLAPS

Begun(r, k)  == pc[r][k] \notin {"new", "grow"}
Packed(r, k) == pc[r][k] \in {"send", "unpacked", "released", "done"}
Ended(r, k)  == pc[r][k] \in {"unpacked", "released", "done"}

Distinct(s) == \A i, j \in DOMAIN s : i # j => s[i] # s[j]

(* What ties the queues of an edge to the phases of the calls: a call is   *)
(* queued once, while it is past its checkout (receives) or its packing    *)
(* (sends); MPI is never ahead of the requests.                            *)
QueuesOf(e) ==
  /\ Distinct(sent[e]) /\ Distinct(rcvd[e])
  /\ Len(wire[e]) <= Len(sent[e])
  /\ arrived[e] <= Len(rcvd[e])
  /\ \A i \in 1..Len(sent[e]) : Packed(e[1], sent[e][i])
  /\ \A i \in 1..Len(rcvd[e]) : Begun(e[2], rcvd[e][i])
QueuesInv == \A e \in Edges : QueuesOf(e)

(* A call past its waits has no request under way.                         *)
WaitedInv ==
  \A r \in Ranks, k \in Calls :
    pc[r][k] = "unpacked" =>
      /\ \A p \in Sources(r) : RecvDone(r, k, p)
      /\ \A q \in Targets(r) : SendDone(r, k, q)

PoolInv == \A r \in Ranks : Len(contexts[r]) >= 1

IInv == TypeOK /\ SlotsConserved /\ NoReuseInFlight /\ QueuesInv /\ WaitedInv
        /\ PoolInv

-----------------------------------------------------------------------------
(* Frames: what a step may change without disturbing each part.            *)
Phase(r, k, ph) == pc' = [pc EXCEPT ![r][k] = ph]

LEMMA PhaseStep ==
  ASSUME PcType, NEW r \in Ranks, NEW k \in Calls, NEW ph \in Phases,
         Phase(r, k, ph)
  PROVE  /\ PcType'
         /\ pc'[r][k] = ph
         /\ \A q \in Ranks, j \in Calls :
              q # r \/ j # k => pc'[q][j] = pc[q][j]
BY DEF PcType, Phase

SameSizes == \A r \in Ranks : Len(contexts'[r]) = Len(contexts[r])
SameHolders == \A r \in Ranks, k \in Calls : Holding(r, k)' <=> Holding(r, k)

LEMMA PoolFrame ==
  ASSUME SlotsConserved, PoolInv, SameSizes, SameHolders,
         slot' = slot, free' = free
  PROVE  SlotsConserved' /\ PoolInv'
<1>1. SlotsConserved'
  BY DEF SlotsConserved, SlotsOf, SameSizes, SameHolders, InSeq
<1>2. PoolInv'
  BY DEF PoolInv, SameSizes
<1> QED
  BY <1>1, <1>2

LEMMA EdgeEnds ==
  ASSUME NEW e \in Edges
  PROVE  /\ e[1] \in Ranks /\ e[2] \in Ranks /\ e = <<e[1], e[2]>>
         /\ e[1] \in Sources(e[2]) /\ e[2] \in Targets(e[1])
BY ConstantsAssumption DEF ConstantsAssumption, Sources, Targets

LEMMA QueueFacts ==
  ASSUME QueuesType, NEW e \in Edges
  PROVE  /\ sent[e] \in Seq(Calls) /\ rcvd[e] \in Seq(Calls)
         /\ wire[e] \in Seq(Nat) /\ arrived[e] \in Nat
         /\ DOMAIN sent[e] = 1..Len(sent[e]) /\ Len(sent[e]) \in Nat
         /\ DOMAIN rcvd[e] = 1..Len(rcvd[e]) /\ Len(rcvd[e]) \in Nat
         /\ Len(wire[e]) \in Nat
         /\ \A i \in 1..Len(sent[e]) : sent[e][i] \in Calls
         /\ \A i \in 1..Len(rcvd[e]) : rcvd[e][i] \in Calls
         /\ \A i \in 1..Len(wire[e]) : wire[e][i] \in Nat
BY DEF QueuesType

SameQueues(e) == /\ sent'[e] = sent[e] /\ rcvd'[e] = rcvd[e]
                 /\ wire'[e] = wire[e] /\ arrived'[e] = arrived[e]
Monotone ==
  \A r \in Ranks, k \in Calls :
    /\ Packed(r, k) => Packed(r, k)'
    /\ Begun(r, k) => Begun(r, k)'

(* An edge whose queues a step leaves alone keeps its invariants.          *)
LEMMA EdgeFrame ==
  ASSUME QueuesType, NEW e \in Edges, SameQueues(e)
  PROVE  /\ QueuesOf(e) /\ Monotone => QueuesOf(e)'
         /\ QuietOf(e) /\ (\A r \in Ranks, k \in Calls : Holding(r, k) => Holding(r, k)')
              => QuietOf(e)'
<1>1. ASSUME QueuesOf(e), Monotone PROVE QueuesOf(e)'
  <2>1. /\ \A i \in 1..Len(sent[e]) : Packed(e[1], sent[e][i])'
        /\ \A i \in 1..Len(rcvd[e]) : Begun(e[2], rcvd[e][i])'
    <3>1. /\ \A i \in 1..Len(sent[e]) : Packed(e[1], sent[e][i]) /\ sent[e][i] \in Calls
          /\ \A i \in 1..Len(rcvd[e]) : Begun(e[2], rcvd[e][i]) /\ rcvd[e][i] \in Calls
          /\ e[1] \in Ranks /\ e[2] \in Ranks
          /\ sent'[e] = sent[e] /\ rcvd'[e] = rcvd[e]
      BY <1>1, QueueFacts, EdgeEnds DEF QueuesOf, SameQueues
    <3>2. ASSUME NEW i \in 1..Len(sent[e]) PROVE Packed(e[1], sent[e][i])'
      <4> DEFINE r == e[1]
                 k == sent[e][i]
      <4>1. r \in Ranks /\ k \in Calls /\ Packed(r, k)
        BY <3>1
      <4> HIDE DEF r, k
      <4>2. pc'[r][k] \in {"send", "unpacked", "released", "done"}
        BY <1>1, <4>1 DEF Monotone, Packed
      <4> QED
        BY <3>1, <4>2 DEF Packed, r, k
    <3>3. ASSUME NEW i \in 1..Len(rcvd[e]) PROVE Begun(e[2], rcvd[e][i])'
      <4> DEFINE r == e[2]
                 k == rcvd[e][i]
      <4>1. r \in Ranks /\ k \in Calls /\ Begun(r, k)
        BY <3>1
      <4> HIDE DEF r, k
      <4>2. pc'[r][k] \notin {"new", "grow"}
        BY <1>1, <4>1 DEF Monotone, Begun
      <4> QED
        BY <3>1, <4>2 DEF Begun, r, k
    <3> QED
      BY <3>2, <3>3
  <2> QED
    BY <1>1, <2>1 DEF QueuesOf, SameQueues
<1>2. ASSUME QuietOf(e), \A r \in Ranks, k \in Calls : Holding(r, k) => Holding(r, k)'
      PROVE  QuietOf(e)'
  <2>1. /\ \A i \in (Len(wire[e]) + 1)..Len(sent[e]) : sent[e][i] \in Calls
        /\ \A i \in (arrived[e] + 1)..Len(rcvd[e]) : rcvd[e][i] \in Calls
    BY QueueFacts
  <2> QED
    BY <1>2, <2>1, EdgeEnds DEF QuietOf, SameQueues
<1> QED
  BY <1>1, <1>2

LEMMA QueuesFrame ==
  ASSUME QueuesType, QueuesInv, UNCHANGED <<sent, rcvd, wire, arrived>>, Monotone
  PROVE  QueuesType' /\ QueuesInv'
<1>1. QueuesType'
  BY DEF QueuesType
<1>2. ASSUME NEW e \in Edges PROVE QueuesOf(e)'
  BY EdgeFrame DEF QueuesInv, SameQueues
<1> QED
  BY <1>1, <1>2 DEF QueuesInv

LEMMA InFlightFrame ==
  ASSUME QueuesType, NoReuseInFlight, UNCHANGED <<sent, rcvd, wire, arrived>>,
         \A r \in Ranks, k \in Calls : Holding(r, k) => Holding(r, k)'
  PROVE  NoReuseInFlight'
<1>1. ASSUME NEW e \in Edges PROVE QuietOf(e)'
  BY EdgeFrame DEF NoReuseInFlight, SameQueues
<1> QED
  BY <1>1 DEF NoReuseInFlight

LEMMA WaitedFrame ==
  ASSUME WaitedInv, UNCHANGED <<sent, rcvd, wire, arrived>>,
         \A r \in Ranks, k \in Calls :
            pc'[r][k] = "unpacked" => pc[r][k] = "unpacked"
  PROVE  WaitedInv'
BY DEF WaitedInv, RecvDone, SendDone

(* Replacing one context of a pool by another leaves the pool well typed.  *)
LEMMA ContextStep ==
  ASSUME ContextsType, NEW r \in Ranks, NEW i \in 1..Len(contexts[r]),
         NEW c \in Context(r),
         contexts' = [contexts EXCEPT ![r] = [contexts[r] EXCEPT ![i] = c]]
  PROVE  ContextsType' /\ SameSizes
<1>1. /\ contexts[r] \in Seq(Context(r))
      /\ [contexts[r] EXCEPT ![i] = c] \in Seq(Context(r))
      /\ Len([contexts[r] EXCEPT ![i] = c]) = Len(contexts[r])
  BY ExceptSeq DEF ContextsType
<1>2. contexts'[r] = [contexts[r] EXCEPT ![i] = c]
  BY DEF ContextsType
<1>3. \A q \in Ranks : q # r => contexts'[q] = contexts[q]
  BY DEF ContextsType
<1> QED
  BY <1>1, <1>2, <1>3 DEF ContextsType, SameSizes

(* Filling one buffer of one context: the receive buffer of one source,    *)
(* all send buffers, or the ghost vector.                                  *)
LEMMA BufferStep ==
  ASSUME ContextsType, NEW r \in Ranks, NEW i \in 1..Len(contexts[r]),
         \/ \E v \in [Targets(r) -> Nat] :
              contexts' = [contexts EXCEPT ![r][i].send = v]
         \/ \E v \in [Sources(r) -> Nat] :
              contexts' = [contexts EXCEPT ![r][i].ghost = v]
         \/ \E p \in Sources(r), v \in Nat :
              contexts' = [contexts EXCEPT ![r][i].recv[p] = v]
  PROVE  ContextsType' /\ SameSizes
<1>1. contexts[r][i] \in Context(r)
  BY DEF ContextsType
<1>2. CASE \E v \in [Targets(r) -> Nat] :
             contexts' = [contexts EXCEPT ![r][i].send = v]
  <2>1. PICK v \in [Targets(r) -> Nat] :
             contexts' = [contexts EXCEPT ![r][i].send = v]
    BY <1>2
  <2>2. [contexts[r][i] EXCEPT !.send = v] \in Context(r)
    BY <1>1 DEF Context
  <2> QED
    BY <2>1, <2>2, ContextStep
<1>3. CASE \E v \in [Sources(r) -> Nat] :
             contexts' = [contexts EXCEPT ![r][i].ghost = v]
  <2>1. PICK v \in [Sources(r) -> Nat] :
             contexts' = [contexts EXCEPT ![r][i].ghost = v]
    BY <1>3
  <2>2. [contexts[r][i] EXCEPT !.ghost = v] \in Context(r)
    BY <1>1 DEF Context
  <2> QED
    BY <2>1, <2>2, ContextStep
<1>4. CASE \E p \in Sources(r), v \in Nat :
             contexts' = [contexts EXCEPT ![r][i].recv[p] = v]
  <2>1. PICK p \in Sources(r), v \in Nat :
             contexts' = [contexts EXCEPT ![r][i].recv[p] = v]
    BY <1>4
  <2>2. [contexts[r][i] EXCEPT !.recv[p] = v] \in Context(r)
    BY <1>1 DEF Context
  <2> QED
    BY <2>1, <2>2, ContextStep
<1> QED
  BY <1>2, <1>3, <1>4

(* A sequence with one more element.                                       *)
LEMMA AppendFacts ==
  ASSUME NEW S, NEW s \in Seq(S), NEW x \in S
  PROVE  /\ Append(s, x) \in Seq(S)
         /\ Len(s) \in Nat /\ DOMAIN s = 1..Len(s)
         /\ DOMAIN Append(s, x) = 1..(Len(s) + 1)
         /\ \A i \in DOMAIN s : i \in DOMAIN Append(s, x) /\ Append(s, x)[i] = s[i]
         /\ Len(s) + 1 \in DOMAIN Append(s, x)
         /\ Append(s, x)[Len(s) + 1] = x
         /\ \A i \in DOMAIN Append(s, x) : i \in DOMAIN s \/ i = Len(s) + 1
<1>1. /\ Append(s, x) \in Seq(S)
      /\ Len(Append(s, x)) = Len(s) + 1
      /\ \A i \in 1..Len(s) : Append(s, x)[i] = s[i]
      /\ Append(s, x)[Len(s) + 1] = x
      /\ DOMAIN s = 1..Len(s)
      /\ DOMAIN Append(s, x) = 1..(Len(s) + 1)
      /\ Len(s) \in Nat
  OBVIOUS
<1> QED
  BY <1>1

(* One more request in a queue: the queue keeps its elements and gains one *)
(* that was not in it.                                                     *)
LEMMA AppendDistinct ==
  ASSUME NEW S, NEW s \in Seq(S), NEW x \in S, Distinct(s), ~InSeq(x, s)
  PROVE  /\ Append(s, x) \in Seq(S)
         /\ Len(Append(s, x)) = Len(s) + 1
         /\ \A i \in 1..Len(s) : Append(s, x)[i] = s[i]
         /\ Append(s, x)[Len(s) + 1] = x
         /\ Distinct(Append(s, x))
<1>1. /\ Append(s, x) \in Seq(S)
      /\ Len(Append(s, x)) = Len(s) + 1
      /\ \A i \in 1..Len(s) : Append(s, x)[i] = s[i]
      /\ Append(s, x)[Len(s) + 1] = x
      /\ DOMAIN s = 1..Len(s)
      /\ DOMAIN Append(s, x) = 1..(Len(s) + 1)
      /\ Len(s) \in Nat
  OBVIOUS
<1>2. Distinct(Append(s, x))
  BY <1>1 DEF Distinct, InSeq
<1> QED
  BY <1>1, <1>2

-----------------------------------------------------------------------------
LEMMA InitIInv == Init => IInv
<1> SUFFICES ASSUME Init PROVE IInv
  OBVIOUS
<1>1. PcType /\ PoolType
  BY DEF Init, PcType, PoolType, Phases
<1>2. ContextsType
  <2>1. \A r \in Ranks : Zeroed(r) \in Context(r)
    BY DEF Zeroed, Context
  <2> QED
    BY <2>1 DEF Init, ContextsType
<1>3. QueuesType
  BY DEF Init, QueuesType
<1>4. GhostsType
  BY DEF Init, GhostsType
<1>5. \A r \in Ranks : /\ Len(contexts[r]) = 1
                        /\ free[r] = <<1>>
                        /\ DOMAIN free[r] = 1..1 /\ free[r][1] = 1
                        /\ \A k \in Calls : pc[r][k] = "new"
  BY DEF Init
<1>6. SlotsConserved /\ PoolInv
  <2>1. ASSUME NEW r \in Ranks PROVE SlotsOf(r)
    <3>1. \A k \in Calls : ~Holding(r, k)
      BY <1>5 DEF Holding
    <3>2. InSeq(1, free[r])
      BY <1>5 DEF InSeq
    <3>3. /\ Len(contexts[r]) = 1 /\ DOMAIN free[r] = 1..1 /\ free[r][1] = 1
          /\ \A s \in 1..1 : s = 1
      BY <1>5
    <3>4. \A i \in DOMAIN free[r] : free[r][i] = 1
      BY <3>3
    <3>5. \A i, j \in DOMAIN free[r] : i # j => free[r][i] # free[r][j]
      BY <3>3
    <3> QED
      BY <3>1, <3>2, <3>3, <3>4, <3>5 DEF SlotsOf
  <2> QED
    BY <2>1, <1>5 DEF SlotsConserved, PoolInv
<1>7. \A e \in Edges : /\ Len(sent[e]) = 0 /\ Len(rcvd[e]) = 0
                        /\ Len(wire[e]) = 0 /\ arrived[e] = 0
                        /\ DOMAIN sent[e] = {} /\ DOMAIN rcvd[e] = {}
  BY DEF Init
<1>8. NoReuseInFlight
  BY <1>7 DEF NoReuseInFlight, QuietOf
<1>9. QueuesInv
  BY <1>7 DEF QueuesInv, QueuesOf, Distinct
<1>10. WaitedInv
  BY <1>5 DEF WaitedInv
<1> QED
  BY <1>1, <1>2, <1>3, <1>4, <1>6, <1>8, <1>9, <1>10 DEF IInv, TypeOK

LEMMA StepIInv == IInv /\ [Next]_vars => IInv'
<1> SUFFICES ASSUME IInv, [Next]_vars PROVE IInv'
  OBVIOUS
<1> USE DEF IInv, TypeOK
<1>1. ASSUME NEW r \in Ranks, NEW k \in Calls, Skip(r, k) PROVE IInv'
  <2>1. /\ PcType' /\ pc'[r][k] = "done"
        /\ \A q \in Ranks, j \in Calls : q # r \/ j # k => pc'[q][j] = pc[q][j]
    BY <1>1, PhaseStep DEF Skip, Phase, Phases
  <2>3. ContextsType' /\ SameSizes
    BY <1>1 DEF Skip, ContextsType, SameSizes
  <2>4. SameHolders
    BY <1>1, <2>1 DEF Skip, Holding, SameHolders
  <2>5. PoolType'
    BY <1>1 DEF Skip, PoolType
  <2>6. GhostsType'
    BY <1>1 DEF Skip, GhostsType
  <2>7. SlotsConserved' /\ PoolInv'
    BY <1>1, <2>3, <2>4, PoolFrame DEF Skip
  <2>8. QueuesType' /\ QueuesInv'
    BY <1>1, <2>1, QueuesFrame DEF Skip, Packed, Begun, Monotone
  <2>9. NoReuseInFlight'
    BY <1>1, <2>1, InFlightFrame DEF Skip, Holding
  <2>10. WaitedInv'
    BY <1>1, <2>1, WaitedFrame DEF Skip
  <2> QED
    BY <2>1, <2>3, <2>5, <2>6, <2>7, <2>8, <2>9, <2>10
<1>2. ASSUME NEW r \in Ranks, NEW k \in Calls, CheckoutFree(r, k) PROVE IInv'
  <2>1. /\ PcType' /\ pc'[r][k] = "post"
        /\ \A q \in Ranks, j \in Calls : q # r \/ j # k => pc'[q][j] = pc[q][j]
    BY <1>2, PhaseStep DEF CheckoutFree, Phase, Phases
  <2> DEFINE top == Len(free[r])
  <2>2. /\ top \in Nat \ {0} /\ free[r] \in Seq(Nat \ {0})
        /\ DOMAIN free[r] = 1..top
        /\ free'[r] \in Seq(Nat \ {0}) /\ DOMAIN free'[r] = 1..(top - 1)
        /\ \A i \in 1..(top - 1) : free'[r][i] = free[r][i]
        /\ \A q \in Ranks : q # r => free'[q] = free[q]
        /\ slot'[r][k] = free[r][top]
        /\ \A q \in Ranks, j \in Calls : q # r \/ j # k => slot'[q][j] = slot[q][j]
    BY <1>2, SubSeqProperties DEF CheckoutFree, PoolType
  <2>3. ContextsType' /\ SameSizes
    BY <1>2 DEF CheckoutFree, ContextsType, SameSizes
  <2>5. PoolType'
    BY <1>2, <2>2 DEF CheckoutFree, PoolType
  <2>6. GhostsType'
    BY <1>2 DEF CheckoutFree, GhostsType
  <2>7. SlotsConserved' /\ PoolInv'
    <3>1. ASSUME NEW q \in Ranks, q # r PROVE SlotsOf(q)'
      <4>1. /\ free'[q] = free[q] /\ contexts' = contexts
            /\ \A j \in Calls : slot'[q][j] = slot[q][j]
        BY <1>2, <2>2, <3>1 DEF CheckoutFree
      <4>2. \A j \in Calls : Holding(q, j)' <=> Holding(q, j)
        BY <2>1, <3>1 DEF Holding
      <4> QED
        BY <4>1, <4>2 DEF SlotsOf, SlotsConserved, InSeq
    <3>2. SlotsOf(r)'
      <4>1. contexts' = contexts
        BY <1>2 DEF CheckoutFree
      <4>2. /\ ~Holding(r, k) /\ Holding(r, k)'
            /\ \A j \in Calls : j # k => (Holding(r, j)' <=> Holding(r, j))
        BY <1>2, <2>1 DEF CheckoutFree, Holding
      <4>3. SlotsOf(r)
        BY DEF SlotsConserved
      <4> HIDE DEF top
      <4>4. \A i \in 1..(top - 1) : i \in DOMAIN free[r] /\ i # top
        BY <2>2
      <4>5. \A j \in Calls : Holding(r, j) => slot'[r][j] # free[r][top]
        BY <2>2, <4>2, <4>3 DEF SlotsOf
      <4>6. \A i \in DOMAIN free'[r], j \in Calls :
              Holding(r, j)' => slot'[r][j] # free'[r][i]
        <5>1. ASSUME NEW i \in DOMAIN free'[r], NEW j \in Calls, Holding(r, j)'
              PROVE  slot'[r][j] # free'[r][i]
          <6>1. i \in DOMAIN free[r] /\ i # top /\ free'[r][i] = free[r][i]
            BY <2>2, <4>4
          <6>2. top \in DOMAIN free[r]
            BY <2>2
          <6>3. CASE j = k
            <7>1. free[r][i] # free[r][top]
              BY <4>3, <6>1, <6>2 DEF SlotsOf
            <7> QED
              BY <2>2, <6>1, <6>3, <7>1
          <6>4. CASE j # k
            BY <2>2, <4>2, <4>3, <5>1, <6>1, <6>4, SMTT(60) DEF SlotsOf
          <6> QED
            BY <6>3, <6>4
        <5> QED
          BY <5>1
      <4>7. \A s \in 1..Len(contexts[r]) :
              InSeq(s, free'[r]) \/ \E j \in Calls : Holding(r, j)' /\ slot'[r][j] = s
        <5>1. ASSUME NEW s \in 1..Len(contexts[r]), InSeq(s, free[r])
              PROVE  InSeq(s, free'[r]) \/ s = free[r][top]
          <6>1. PICK i \in 1..top : free[r][i] = s
            BY <2>2, <5>1 DEF InSeq
          <6>2. i = top \/ i \in 1..(top - 1)
            BY <2>2, <6>1
          <6> QED
            BY <2>2, <6>1, <6>2 DEF InSeq
        <5> QED
          BY <2>2, <4>2, <4>3, <5>1, ZenonT(60) DEF SlotsOf
      <4>8. \A i, j \in DOMAIN free'[r] : i # j => free'[r][i] # free'[r][j]
        <5>1. ASSUME NEW i \in DOMAIN free'[r]
              PROVE  i \in DOMAIN free[r] /\ free'[r][i] = free[r][i]
          BY <2>2, <4>4
        <5> QED
          BY <4>3, <5>1 DEF SlotsOf
      <4>9. \A i \in DOMAIN free'[r] : free'[r][i] \in 1..Len(contexts[r])
        BY <2>2, <4>3, <4>4 DEF SlotsOf
      <4>10. \A j \in Calls : Holding(r, j)' => slot'[r][j] \in 1..Len(contexts[r])
        BY <2>2, <4>2, <4>3 DEF SlotsOf
      <4>11. \A i, j \in Calls : Holding(r, i)' /\ Holding(r, j)' /\ i # j
                                => slot'[r][i] # slot'[r][j]
        BY <2>2, <4>2, <4>3, <4>5 DEF SlotsOf
      <4> QED
        BY <4>1, <4>6, <4>7, <4>8, <4>9, <4>10, <4>11 DEF SlotsOf
    <3> QED
      BY <3>1, <3>2, <2>3, <1>2 DEF SlotsConserved, PoolInv, SameSizes, CheckoutFree
  <2>8. QueuesType' /\ QueuesInv'
    BY <1>2, <2>1, QueuesFrame DEF CheckoutFree, Packed, Begun, Monotone
  <2>9. NoReuseInFlight'
    BY <1>2, <2>1, InFlightFrame DEF CheckoutFree, Holding
  <2>10. WaitedInv'
    BY <1>2, <2>1, WaitedFrame DEF CheckoutFree
  <2> QED
    BY <2>1, <2>3, <2>5, <2>6, <2>7, <2>8, <2>9, <2>10
<1>3. ASSUME NEW r \in Ranks, NEW k \in Calls, CheckoutMiss(r, k) PROVE IInv'
  <2>1. /\ PcType' /\ pc'[r][k] = "grow"
        /\ \A q \in Ranks, j \in Calls : q # r \/ j # k => pc'[q][j] = pc[q][j]
    BY <1>3, PhaseStep DEF CheckoutMiss, Phase, Phases
  <2>3. ContextsType' /\ SameSizes
    BY <1>3 DEF CheckoutMiss, ContextsType, SameSizes
  <2>4. SameHolders
    BY <1>3, <2>1 DEF CheckoutMiss, Holding, SameHolders
  <2>5. PoolType'
    BY <1>3 DEF CheckoutMiss, PoolType
  <2>6. GhostsType'
    BY <1>3 DEF CheckoutMiss, GhostsType
  <2>7. SlotsConserved' /\ PoolInv'
    BY <1>3, <2>3, <2>4, PoolFrame DEF CheckoutMiss
  <2>8. QueuesType' /\ QueuesInv'
    BY <1>3, <2>1, QueuesFrame DEF CheckoutMiss, Packed, Begun, Monotone
  <2>9. NoReuseInFlight'
    BY <1>3, <2>1, InFlightFrame DEF CheckoutMiss, Holding
  <2>10. WaitedInv'
    BY <1>3, <2>1, WaitedFrame DEF CheckoutMiss
  <2> QED
    BY <2>1, <2>3, <2>5, <2>6, <2>7, <2>8, <2>9, <2>10
<1>4. ASSUME NEW r \in Ranks, NEW k \in Calls, Grow(r, k) PROVE IInv'
  <2>1. /\ PcType' /\ pc'[r][k] = "post"
        /\ \A q \in Ranks, j \in Calls : q # r \/ j # k => pc'[q][j] = pc[q][j]
    BY <1>4, PhaseStep DEF Grow, Phase, Phases
  <2>2. /\ contexts[r] \in Seq(Context(r)) /\ Zeroed(r) \in Context(r)
        /\ contexts'[r] = Append(contexts[r], Zeroed(r))
        /\ contexts'[r] \in Seq(Context(r))
        /\ Len(contexts'[r]) = Len(contexts[r]) + 1 /\ Len(contexts[r]) \in Nat
        /\ \A q \in Ranks : q # r => contexts'[q] = contexts[q]
        /\ slot'[r][k] = Len(contexts[r]) + 1
        /\ \A q \in Ranks, j \in Calls : q # r \/ j # k => slot'[q][j] = slot[q][j]
    <3>1. Zeroed(r) \in Context(r)
      BY DEF Zeroed, Context
    <3>2. contexts[r] \in Seq(Context(r)) /\ contexts'[r] = Append(contexts[r], Zeroed(r))
      BY <1>4 DEF Grow, ContextsType
    <3>3. /\ \A q \in Ranks : q # r => contexts'[q] = contexts[q]
          /\ slot'[r][k] = Len(contexts[r]) + 1
          /\ \A q \in Ranks, j \in Calls : q # r \/ j # k => slot'[q][j] = slot[q][j]
      BY <1>4 DEF Grow, ContextsType, PoolType
    <3> QED
      BY <3>1, <3>2, <3>3
  <2>3. ContextsType'
    BY <1>4, <2>2 DEF Grow, ContextsType
  <2>5. PoolType'
    BY <1>4, <2>2 DEF Grow, PoolType
  <2>6. GhostsType'
    BY <1>4 DEF Grow, GhostsType
  <2>7. SlotsConserved' /\ PoolInv'
    <3>1. ASSUME NEW q \in Ranks, q # r PROVE SlotsOf(q)'
      BY <1>4, <2>1, <2>2, <3>1 DEF SlotsOf, SlotsConserved, Holding, InSeq, Grow
    <3>2. SlotsOf(r)'
      <4>1. free'[r] = free[r]
        BY <1>4 DEF Grow
      <4>2. ~Holding(r, k) /\ Holding(r, k)'
        BY <1>4, <2>1 DEF Grow, Holding
      <4>3. \A j \in Calls : j # k => (Holding(r, j)' <=> Holding(r, j))
        BY <2>1 DEF Holding
      <4>4. SlotsOf(r)
        BY DEF SlotsConserved
      <4>5. \A j \in Calls : Holding(r, j) => slot[r][j] # Len(contexts[r]) + 1
        BY <2>2, <4>4 DEF SlotsOf
      <4>6. \A i, j \in Calls : Holding(r, i)' /\ Holding(r, j)' /\ i # j
                                => slot'[r][i] # slot'[r][j]
        BY <2>2, <4>2, <4>3, <4>4, <4>5 DEF SlotsOf
      <4>7. \A i \in DOMAIN free'[r] : /\ free'[r][i] \in 1..Len(contexts[r])
                                       /\ free'[r][i] # Len(contexts[r]) + 1
        BY <2>2, <4>1, <4>4 DEF SlotsOf
      <4>8. \A i \in DOMAIN free'[r], j \in Calls :
              Holding(r, j)' => slot'[r][j] # free'[r][i]
        BY <2>2, <4>1, <4>2, <4>3, <4>4, <4>7 DEF SlotsOf
      <4>9. \A s \in 1..Len(contexts'[r]) :
              InSeq(s, free'[r]) \/ \E j \in Calls : Holding(r, j)' /\ slot'[r][j] = s
        <5>1. \A s \in 1..Len(contexts'[r]) :
                s \in 1..Len(contexts[r]) \/ s = Len(contexts[r]) + 1
          BY <2>2
        <5>2. \A s \in 1..Len(contexts[r]) :
                InSeq(s, free[r]) \/ \E j \in Calls : Holding(r, j) /\ slot[r][j] = s
          BY <4>4 DEF SlotsOf
        <5> QED
          BY <2>2, <4>1, <4>2, <4>3, <5>1, <5>2
      <4>10. \A j \in Calls : Holding(r, j)' => slot'[r][j] \in 1..Len(contexts'[r])
        BY <2>2, <4>2, <4>3, <4>4 DEF SlotsOf
      <4>11. \A i \in DOMAIN free'[r] : free'[r][i] \in 1..Len(contexts'[r])
        BY <2>2, <4>7
      <4>12. \A i, j \in DOMAIN free'[r] : i # j => free'[r][i] # free'[r][j]
        BY <4>1, <4>4 DEF SlotsOf
      <4> QED
        BY <4>6, <4>8, <4>9, <4>10, <4>11, <4>12 DEF SlotsOf
    <3> QED
      BY <3>1, <3>2, <2>2 DEF SlotsConserved, PoolInv
  <2>8. QueuesType' /\ QueuesInv'
    BY <1>4, <2>1, QueuesFrame DEF Grow, Packed, Begun, Monotone
  <2>9. NoReuseInFlight'
    BY <1>4, <2>1, InFlightFrame DEF Grow, Holding
  <2>10. WaitedInv'
    BY <1>4, <2>1, WaitedFrame DEF Grow
  <2> QED
    BY <2>1, <2>3, <2>5, <2>6, <2>7, <2>8, <2>9, <2>10
<1>5. ASSUME NEW r \in Ranks, NEW k \in Calls, Pack(r, k) PROVE IInv'
  <2>1. /\ PcType' /\ pc'[r][k] = "send"
        /\ \A q \in Ranks, j \in Calls : q # r \/ j # k => pc'[q][j] = pc[q][j]
    BY <1>5, PhaseStep DEF Pack, Phase, Phases
  <2>3. ContextsType' /\ SameSizes
    <3>1. slot[r][k] \in 1..Len(contexts[r])
      BY <1>5 DEF Pack, SlotsConserved, SlotsOf, Holding
    <3>2. [q \in Targets(r) |-> k] \in [Targets(r) -> Nat]
      BY DEF Calls
    <3> QED
      BY <1>5, <3>1, <3>2, BufferStep DEF Pack
  <2>4. SameHolders
    BY <1>5, <2>1 DEF Pack, Holding, SameHolders
  <2>5. PoolType'
    BY <1>5 DEF Pack, PoolType
  <2>6. GhostsType'
    BY <1>5 DEF Pack, GhostsType
  <2>7. SlotsConserved' /\ PoolInv'
    BY <1>5, <2>3, <2>4, PoolFrame DEF Pack
  <2>8. QueuesType' /\ QueuesInv'
    BY <1>5, <2>1, QueuesFrame DEF Pack, Packed, Begun, Monotone
  <2>9. NoReuseInFlight'
    BY <1>5, <2>1, InFlightFrame DEF Pack, Holding
  <2>10. WaitedInv'
    BY <1>5, <2>1, WaitedFrame DEF Pack
  <2> QED
    BY <2>1, <2>3, <2>5, <2>6, <2>7, <2>8, <2>9, <2>10
<1>6. ASSUME NEW r \in Ranks, NEW k \in Calls, Unpack(r, k) PROVE IInv'
  <2>1. /\ PcType' /\ pc'[r][k] = "unpacked"
        /\ \A q \in Ranks, j \in Calls : q # r \/ j # k => pc'[q][j] = pc[q][j]
    BY <1>6, PhaseStep DEF Unpack, Phase, Phases
  <2>2. /\ slot[r][k] \in 1..Len(contexts[r])
        /\ contexts[r][slot[r][k]].recv \in [Sources(r) -> Nat]
    <3>1. slot[r][k] \in 1..Len(contexts[r])
      BY <1>6 DEF Unpack, SlotsConserved, SlotsOf, Holding
    <3>2. contexts[r][slot[r][k]] \in Context(r)
      BY <3>1 DEF ContextsType
    <3> QED
      BY <3>1, <3>2 DEF Context
  <2>3. ContextsType' /\ SameSizes
    BY <1>6, <2>2, BufferStep DEF Unpack
  <2>4. SameHolders
    BY <1>6, <2>1 DEF Unpack, Holding, SameHolders
  <2>5. PoolType'
    BY <1>6 DEF Unpack, PoolType
  <2>6. GhostsType'
    BY <1>6, <2>2 DEF Unpack, GhostsType
  <2>7. SlotsConserved' /\ PoolInv'
    BY <1>6, <2>3, <2>4, PoolFrame DEF Unpack
  <2>8. QueuesType' /\ QueuesInv'
    BY <1>6, <2>1, QueuesFrame DEF Unpack, Packed, Begun, Monotone
  <2>9. NoReuseInFlight'
    BY <1>6, <2>1, InFlightFrame DEF Unpack, Holding
  <2>10. WaitedInv'
    BY <1>6, <2>1 DEF Unpack, WaitedInv, RecvDone, SendDone
  <2> QED
    BY <2>1, <2>3, <2>5, <2>6, <2>7, <2>8, <2>9, <2>10
<1>7. ASSUME NEW r \in Ranks, NEW k \in Calls, Release(r, k) PROVE IInv'
  <2>1. /\ PcType' /\ pc'[r][k] = (IF Caller = "DistCsrOp" THEN "done" ELSE "released")
        /\ \A q \in Ranks, j \in Calls : q # r \/ j # k => pc'[q][j] = pc[q][j]
    <3>1. Phase(r, k, IF Caller = "DistCsrOp" THEN "done" ELSE "released")
      BY <1>7 DEF Release, Phase
    <3>2. (IF Caller = "DistCsrOp" THEN "done" ELSE "released") \in Phases
      BY DEF Phases
    <3> QED
      BY <3>1, <3>2, PhaseStep
  <2> DEFINE top == Len(free[r])
  <2>2. /\ top \in Nat /\ free[r] \in Seq(Nat \ {0})
        /\ slot[r][k] \in Nat \ {0} /\ slot[r][k] \in 1..Len(contexts[r])
    BY <1>7 DEF Release, PoolType, SlotsConserved, SlotsOf, Holding
  <2>20. /\ free'[r] \in Seq(Nat \ {0})
         /\ \A i \in DOMAIN free[r] : i \in DOMAIN free'[r] /\ free'[r][i] = free[r][i]
         /\ top + 1 \in DOMAIN free'[r] /\ free'[r][top + 1] = slot[r][k]
         /\ \A i \in DOMAIN free'[r] : i \in DOMAIN free[r] \/ i = top + 1
         /\ \A q \in Ranks : q # r => free'[q] = free[q]
    <3>1. /\ free'[r] = Append(free[r], slot[r][k])
          /\ \A q \in Ranks : q # r => free'[q] = free[q]
      BY <1>7 DEF Release, PoolType
    <3> QED
      BY <2>2, <3>1, AppendFacts
  <2>21. /\ Holding(r, k) /\ ~Holding(r, k)'
         /\ \A q \in Ranks, j \in Calls :
              q # r \/ j # k => (Holding(q, j)' <=> Holding(q, j))
    BY <1>7, <2>1 DEF Release, Holding
  <2> HIDE DEF top
  <2>22. InSeq(slot[r][k], free'[r])
    BY <2>20 DEF InSeq
  <2>23. ASSUME NEW i \in DOMAIN free'[r]
         PROVE  \/ free'[r][i] = slot[r][k]
                \/ i \in DOMAIN free[r] /\ free'[r][i] = free[r][i]
    BY <2>20
  <2>3. ContextsType' /\ SameSizes
    BY <1>7 DEF Release, ContextsType, SameSizes
  <2>5. PoolType'
    BY <1>7, <2>20 DEF Release, PoolType
  <2>6. GhostsType'
    BY <1>7 DEF Release, GhostsType
  <2>7. SlotsConserved' /\ PoolInv'
    <3>1. ASSUME NEW q \in Ranks, q # r PROVE SlotsOf(q)'
      BY <1>7, <2>21, <2>20, <3>1 DEF SlotsOf, SlotsConserved, InSeq, Release
    <3>2. SlotsOf(r)'
      <4>1. slot' = slot /\ contexts' = contexts
        BY <1>7 DEF Release
      <4>2. SlotsOf(r)
        BY DEF SlotsConserved
      <4>4. \A i \in DOMAIN free[r] : slot[r][k] # free[r][i]
        BY <2>21, <4>2 DEF SlotsOf
      <4>5. \A i, j \in DOMAIN free'[r] : i # j => free'[r][i] # free'[r][j]
        <5>1. ASSUME NEW i \in DOMAIN free'[r], NEW j \in DOMAIN free'[r], i # j
              PROVE  free'[r][i] # free'[r][j]
          <6>1. CASE i \in DOMAIN free[r] /\ j \in DOMAIN free[r]
            BY <2>20, <4>2, <5>1, <6>1 DEF SlotsOf
          <6>2. CASE i = top + 1
            BY <2>20, <4>4, <5>1, <6>2
          <6>3. CASE j = top + 1
            BY <2>20, <4>4, <5>1, <6>3
          <6> QED
            BY <2>20, <6>1, <6>2, <6>3
        <5> QED
          BY <5>1
      <4>6. \A s \in 1..Len(contexts[r]) :
              InSeq(s, free'[r]) \/ \E j \in Calls : Holding(r, j)' /\ slot[r][j] = s
        <5>1. ASSUME NEW s, InSeq(s, free[r]) PROVE InSeq(s, free'[r])
          <6>1. PICK i \in DOMAIN free[r] : free[r][i] = s
            BY <5>1 DEF InSeq
          <6>2. i \in DOMAIN free'[r] /\ free'[r][i] = s
            BY <2>20, <6>1
          <6> QED
            BY <6>2 DEF InSeq
        <5> QED
          BY <2>21, <2>22, <4>2, <5>1 DEF SlotsOf
      <4>7. \A i \in DOMAIN free'[r], j \in Calls :
              Holding(r, j)' => slot[r][j] # free'[r][i]
        BY <2>21, <4>2, <2>23 DEF SlotsOf
      <4>8. \A i \in DOMAIN free'[r] : free'[r][i] \in 1..Len(contexts[r])
        BY <2>2, <4>2, <2>23 DEF SlotsOf
      <4>9. \A i, j \in Calls : Holding(r, i)' /\ Holding(r, j)' /\ i # j
                                => slot[r][i] # slot[r][j]
        BY <2>21, <4>2 DEF SlotsOf
      <4>10. \A j \in Calls : Holding(r, j)' => slot[r][j] \in 1..Len(contexts[r])
        BY <2>21, <4>2 DEF SlotsOf
      <4> QED
        BY <4>1, <4>5, <4>6, <4>7, <4>8, <4>9, <4>10 DEF SlotsOf
    <3> QED
      BY <1>7, <3>1, <3>2 DEF SlotsConserved, PoolInv, Release
  <2>8. QueuesType' /\ QueuesInv'
    BY <1>7, <2>1, QueuesFrame DEF Release, Packed, Begun, Monotone
  <2>9. NoReuseInFlight'
    <3>1. ASSUME NEW e \in Edges PROVE QuietOf(e)'
      <4>1. UNCHANGED <<sent, rcvd, wire, arrived>>
        BY <1>7 DEF Release
      <4>2. QuietOf(e) /\ QueuesOf(e)
        BY DEF NoReuseInFlight, QueuesInv
      <4>3. ASSUME NEW i \in (Len(wire[e]) + 1)..Len(sent[e])
            PROVE  Holding(e[1], sent[e][i])'
        <5>1. /\ i \in DOMAIN sent[e] /\ sent[e][i] \in Calls
              /\ \A j \in 1..Len(wire[e]) : j # i /\ j \in DOMAIN sent[e]
          BY <4>2, QueueFacts DEF QueuesOf
        <5>2. ~(e[1] = r /\ sent[e][i] = k)
          <6>1. e[1] = r => \E j \in 1..Len(wire[e]) : sent[e][j] = k
            BY <1>7, EdgeEnds DEF Release, WaitedInv, SendDone
          <6> QED
            BY <4>2, <5>1, <6>1 DEF QueuesOf, Distinct
        <5> QED
          <6>1. Holding(e[1], sent[e][i]) /\ e[1] \in Ranks
            BY <4>2, EdgeEnds DEF QuietOf
          <6> QED
            BY <2>21, <4>1, <5>1, <5>2, <6>1 DEF Holding
      <4>4. ASSUME NEW i \in (arrived[e] + 1)..Len(rcvd[e])
            PROVE  Holding(e[2], rcvd[e][i])'
        <5>1. /\ i \in DOMAIN rcvd[e] /\ rcvd[e][i] \in Calls
              /\ \A j \in 1..arrived[e] : j # i /\ j \in DOMAIN rcvd[e]
          BY <4>2, QueueFacts DEF QueuesOf
        <5>2. ~(e[2] = r /\ rcvd[e][i] = k)
          <6>1. e[2] = r => \E j \in 1..arrived[e] : rcvd[e][j] = k
            BY <1>7, EdgeEnds DEF Release, WaitedInv, RecvDone
          <6> QED
            BY <4>2, <5>1, <6>1 DEF QueuesOf, Distinct
        <5> QED
          <6>1. Holding(e[2], rcvd[e][i]) /\ e[2] \in Ranks
            BY <4>2, EdgeEnds DEF QuietOf
          <6> QED
            BY <2>21, <4>1, <5>1, <5>2, <6>1 DEF Holding
      <4> QED
        BY <4>1, <4>3, <4>4 DEF QuietOf
    <3> QED
      BY <3>1 DEF NoReuseInFlight
  <2>10. WaitedInv'
    BY <1>7, <2>1, WaitedFrame DEF Release
  <2> QED
    BY <2>1, <2>3, <2>5, <2>6, <2>7, <2>8, <2>9, <2>10
<1>8. ASSUME NEW r \in Ranks, NEW k \in Calls, ReadPrimary(r, k) PROVE IInv'
  <2>1. /\ PcType' /\ pc'[r][k] = "done"
        /\ \A q \in Ranks, j \in Calls : q # r \/ j # k => pc'[q][j] = pc[q][j]
    BY <1>8, PhaseStep DEF ReadPrimary, Phase, Phases
  <2>3. ContextsType' /\ SameSizes
    BY <1>8 DEF ReadPrimary, ContextsType, SameSizes
  <2>4. SameHolders
    BY <1>8, <2>1 DEF ReadPrimary, Holding, SameHolders
  <2>5. PoolType'
    BY <1>8 DEF ReadPrimary, PoolType
  <2>6. GhostsType'
    <3>1. contexts[r][1] \in Context(r)
      BY DEF ContextsType, PoolInv
    <3> QED
      BY <1>8, <3>1 DEF ReadPrimary, GhostsType, Context
  <2>7. SlotsConserved' /\ PoolInv'
    BY <1>8, <2>3, <2>4, PoolFrame DEF ReadPrimary
  <2>8. QueuesType' /\ QueuesInv'
    BY <1>8, <2>1, QueuesFrame DEF ReadPrimary, Packed, Begun, Monotone
  <2>9. NoReuseInFlight'
    BY <1>8, <2>1, InFlightFrame DEF ReadPrimary, Holding
  <2>10. WaitedInv'
    BY <1>8, <2>1, WaitedFrame DEF ReadPrimary
  <2> QED
    BY <2>1, <2>3, <2>5, <2>6, <2>7, <2>8, <2>9, <2>10
<1>9. ASSUME NEW r \in Ranks, NEW k \in Calls, NEW p \in Sources(r), PostRecv(r, k, p)
      PROVE  IInv'
  <2> DEFINE e == <<p, r>>
             n == Len(rcvd[e])
  <2>1. /\ e \in Edges
        /\ rcvd'[e] = Append(rcvd[e], k)
        /\ \A d \in Edges : d # e => rcvd'[d] = rcvd[d]
        /\ UNCHANGED <<pc, slot, contexts, free, wire, arrived, sent, ghosts>>
        /\ rcvd \in [Edges -> Seq(Calls)] /\ rcvd' = [rcvd EXCEPT ![e] = Append(rcvd[e], k)]
        /\ ~InSeq(k, rcvd[e])
    BY <1>9 DEF PostRecv, Sources, QueuesType
  <2>2. /\ SameSizes /\ SameHolders /\ Monotone
        /\ \A i \in Ranks, j \in Calls : Holding(i, j) => Holding(i, j)'
    BY <2>1 DEF SameSizes, SameHolders, Monotone, Holding, Packed, Begun
  <2>3. PcType' /\ PoolType' /\ ContextsType' /\ GhostsType'
    BY <2>1 DEF PcType, PoolType, ContextsType, GhostsType
  <2>4. SlotsConserved' /\ PoolInv'
    BY <2>1, <2>2, PoolFrame
  <2> HIDE DEF e
  <2>5. /\ rcvd'[e] \in Seq(Calls)
        /\ Len(rcvd'[e]) = n + 1 /\ n \in Nat
        /\ \A i \in 1..n : rcvd'[e][i] = rcvd[e][i]
        /\ rcvd'[e][n + 1] = k
        /\ Distinct(rcvd'[e])
    BY <2>1, AppendDistinct, QueueFacts DEF QueuesInv, QueuesOf
  <2>6. QueuesType'
    BY <2>1, <2>5 DEF QueuesType
  <2>7. Holding(r, k) /\ Begun(r, k)
    BY <1>9 DEF PostRecv, Holding, Begun, Packed
  <2>8. \A i \in 1..(n + 1) : i \in 1..n \/ i = n + 1
    BY <2>5
  <2>9. e[2] = r
    BY DEF e
  <2>10. QueuesOf(e)' /\ QuietOf(e)'
    <3> HIDE DEF n
    <3>1. QueuesOf(e) /\ QuietOf(e)
      BY <2>1 DEF QueuesInv, NoReuseInFlight
    <3>2. n = Len(rcvd[e]) /\ arrived[e] \in Nat /\ arrived[e] <= n
      BY <2>1, <3>1, QueueFacts DEF n, QueuesOf
    <3>3. \A i \in 1..Len(rcvd'[e]) : Begun(e[2], rcvd'[e][i])
      BY <2>5, <2>7, <2>8, <2>9, <3>1, <3>2 DEF QueuesOf
    <3>4. \A i \in (arrived[e] + 1)..Len(rcvd'[e]) : i \in (arrived[e] + 1)..n \/ i = n + 1
      BY <2>5, <3>2
    <3>5. \A i \in (arrived[e] + 1)..n : rcvd'[e][i] = rcvd[e][i]
      BY <2>5, <3>2
    <3>6. \A i \in (arrived[e] + 1)..Len(rcvd'[e]) : Holding(e[2], rcvd'[e][i])
      BY <2>5, <2>7, <2>9, <3>1, <3>2, <3>4, <3>5 DEF QuietOf
    <3>7. arrived[e] <= Len(rcvd'[e])
      BY <2>5, <3>2
    <3> QED
      BY <2>1, <2>5, <3>1, <3>3, <3>6, <3>7 DEF QueuesOf, QuietOf, Packed, Begun, Holding
  <2>11. \A d \in Edges : d # e => QueuesOf(d)' /\ QuietOf(d)'
    BY <2>1, <2>2, EdgeFrame DEF QueuesInv, NoReuseInFlight, SameQueues
  <2>12. WaitedInv'
    <3>1. ASSUME NEW x \in Ranks, NEW y \in Calls, NEW d \in Edges, RecvDone(x, y, d[1]),
                 d = <<d[1], x>>
          PROVE  RecvDone(x, y, d[1])'
      <4>1. CASE d # e
        BY <2>1, <3>1, <4>1 DEF RecvDone
      <4>2. CASE d = e
        <5>1. PICK i \in 1..arrived[d] : rcvd[d][i] = y
          BY <3>1 DEF RecvDone
        <5>2. i \in 1..n
          BY <2>1, <4>2, <5>1, QueueFacts DEF QueuesInv, QueuesOf
        <5>3. rcvd'[d][i] = y /\ i \in 1..arrived'[d]
          BY <2>1, <2>5, <4>2, <5>1, <5>2
        <5> QED
          BY <3>1, <5>3 DEF RecvDone
      <4> QED
        BY <4>1, <4>2
    <3>2. ASSUME NEW x \in Ranks, NEW y \in Calls, pc[x][y] = "unpacked"
          PROVE  /\ \A z \in Sources(x) : RecvDone(x, y, z)'
                 /\ \A z \in Targets(x) : SendDone(x, y, z)'
      <4>1. /\ \A z \in Sources(x) : RecvDone(x, y, z)
            /\ \A z \in Targets(x) : SendDone(x, y, z)
        BY <3>2 DEF WaitedInv
      <4>2. \A z \in Sources(x) : RecvDone(x, y, z)'
        <5>1. ASSUME NEW z \in Sources(x) PROVE RecvDone(x, y, z)'
          <6>1. <<z, x>> \in Edges
            BY DEF Sources
          <6> QED
            BY <3>1, <4>1, <6>1
        <5> QED
          BY <5>1
      <4>3. \A z \in Targets(x) : SendDone(x, y, z)'
        BY <2>1, <4>1 DEF SendDone
      <4> QED
        BY <4>2, <4>3
    <3> QED
      BY <2>1, <3>2 DEF WaitedInv
  <2> QED
    BY <2>3, <2>4, <2>6, <2>10, <2>11, <2>12 DEF QueuesInv, NoReuseInFlight
<1>10. ASSUME NEW r \in Ranks, NEW k \in Calls, NEW q \in Targets(r), PostSend(r, k, q)
      PROVE  IInv'
  <2> DEFINE e == <<r, q>>
             n == Len(sent[e])
  <2>1. /\ e \in Edges
        /\ sent'[e] = Append(sent[e], k)
        /\ \A d \in Edges : d # e => sent'[d] = sent[d]
        /\ UNCHANGED <<pc, slot, contexts, free, wire, arrived, rcvd, ghosts>>
        /\ sent \in [Edges -> Seq(Calls)] /\ sent' = [sent EXCEPT ![e] = Append(sent[e], k)]
        /\ ~InSeq(k, sent[e])
    BY <1>10 DEF PostSend, Targets, QueuesType
  <2>2. /\ SameSizes /\ SameHolders /\ Monotone
        /\ \A i \in Ranks, j \in Calls : Holding(i, j) => Holding(i, j)'
    BY <2>1 DEF SameSizes, SameHolders, Monotone, Holding, Packed, Begun
  <2>3. PcType' /\ PoolType' /\ ContextsType' /\ GhostsType'
    BY <2>1 DEF PcType, PoolType, ContextsType, GhostsType
  <2>4. SlotsConserved' /\ PoolInv'
    BY <2>1, <2>2, PoolFrame
  <2> HIDE DEF e
  <2>5. /\ sent'[e] \in Seq(Calls)
        /\ Len(sent'[e]) = n + 1 /\ n \in Nat
        /\ \A i \in 1..n : sent'[e][i] = sent[e][i]
        /\ sent'[e][n + 1] = k
        /\ Distinct(sent'[e])
    BY <2>1, AppendDistinct, QueueFacts DEF QueuesInv, QueuesOf
  <2>6. QueuesType'
    BY <2>1, <2>5 DEF QueuesType
  <2>7. Holding(r, k) /\ Begun(r, k) /\ Packed(r, k)
    BY <1>10 DEF PostSend, Holding, Begun, Packed
  <2>8. \A i \in 1..(n + 1) : i \in 1..n \/ i = n + 1
    BY <2>5
  <2>9. e[1] = r
    BY DEF e
  <2>10. QueuesOf(e)' /\ QuietOf(e)'
    <3> HIDE DEF n
    <3>1. QueuesOf(e) /\ QuietOf(e)
      BY <2>1 DEF QueuesInv, NoReuseInFlight
    <3>2. n = Len(sent[e]) /\ Len(wire[e]) \in Nat /\ Len(wire[e]) <= n
      BY <2>1, <3>1, QueueFacts DEF n, QueuesOf
    <3>3. \A i \in 1..Len(sent'[e]) : Packed(e[1], sent'[e][i])
      BY <2>5, <2>7, <2>8, <2>9, <3>1, <3>2 DEF QueuesOf
    <3>4. \A i \in (Len(wire[e]) + 1)..Len(sent'[e]) : i \in (Len(wire[e]) + 1)..n \/ i = n + 1
      BY <2>5, <3>2
    <3>5. \A i \in (Len(wire[e]) + 1)..n : sent'[e][i] = sent[e][i]
      BY <2>5, <3>2
    <3>6. \A i \in (Len(wire[e]) + 1)..Len(sent'[e]) : Holding(e[1], sent'[e][i])
      BY <2>5, <2>7, <2>9, <3>1, <3>2, <3>4, <3>5 DEF QuietOf
    <3>7. Len(wire[e]) <= Len(sent'[e])
      BY <2>5, <3>2
    <3> QED
      BY <2>1, <2>5, <3>1, <3>3, <3>6, <3>7 DEF QueuesOf, QuietOf, Packed, Begun, Holding
  <2>11. \A d \in Edges : d # e => QueuesOf(d)' /\ QuietOf(d)'
    BY <2>1, <2>2, EdgeFrame DEF QueuesInv, NoReuseInFlight, SameQueues
  <2>12. WaitedInv'
    <3>1. ASSUME NEW x \in Ranks, NEW y \in Calls, NEW d \in Edges, SendDone(x, y, d[2]),
                 d = <<x, d[2]>>
          PROVE  SendDone(x, y, d[2])'
      <4>1. CASE d # e
        BY <2>1, <3>1, <4>1 DEF SendDone
      <4>2. CASE d = e
        <5>1. PICK i \in 1..Len(wire[d]) : sent[d][i] = y
          BY <3>1 DEF SendDone
        <5>2. i \in 1..n
          BY <2>1, <4>2, <5>1, QueueFacts DEF QueuesInv, QueuesOf
        <5>3. sent'[d][i] = y /\ i \in 1..Len(wire'[d])
          BY <2>1, <2>5, <4>2, <5>1, <5>2
        <5> QED
          BY <3>1, <5>3 DEF SendDone
      <4> QED
        BY <4>1, <4>2
    <3>2. ASSUME NEW x \in Ranks, NEW y \in Calls, pc[x][y] = "unpacked"
          PROVE  /\ \A z \in Sources(x) : RecvDone(x, y, z)'
                 /\ \A z \in Targets(x) : SendDone(x, y, z)'
      <4>1. /\ \A z \in Sources(x) : RecvDone(x, y, z)
            /\ \A z \in Targets(x) : SendDone(x, y, z)
        BY <3>2 DEF WaitedInv
      <4>2. \A z \in Targets(x) : SendDone(x, y, z)'
        <5>1. ASSUME NEW z \in Targets(x) PROVE SendDone(x, y, z)'
          <6>1. <<x, z>> \in Edges
            BY DEF Targets
          <6> QED
            BY <3>1, <4>1, <6>1
        <5> QED
          BY <5>1
      <4>3. \A z \in Sources(x) : RecvDone(x, y, z)'
        BY <2>1, <4>1 DEF RecvDone
      <4> QED
        BY <4>2, <4>3
    <3> QED
      BY <2>1, <3>2 DEF WaitedInv
  <2> QED
    BY <2>3, <2>4, <2>6, <2>10, <2>11, <2>12 DEF QueuesInv, NoReuseInFlight
<1>11. ASSUME NEW e \in Edges, Fetch(e) PROVE IInv'
  <2> DEFINE i == Len(wire[e]) + 1
             v == contexts[e[1]][slot[e[1]][sent[e][i]]].send[e[2]]
  <2>1. /\ i \in 1..Len(sent[e]) /\ i \in (Len(wire[e]) + 1)..Len(sent[e])
        /\ i \in Nat /\ Len(sent[e]) \in Nat /\ Len(wire[e]) \in Nat
    <3>1. Len(wire[e]) \in Nat /\ Len(sent[e]) \in Nat
      BY QueueFacts
    <3>2. i <= Len(sent[e])
      BY <1>11 DEF Fetch
    <3> QED
      BY <3>1, <3>2
  <2>2. sent[e][i] \in Calls /\ Holding(e[1], sent[e][i])
    BY <2>1, QueueFacts DEF NoReuseInFlight, QuietOf
  <2>3. v \in Nat
    <3>1. slot[e[1]][sent[e][i]] \in 1..Len(contexts[e[1]])
      BY <2>2, EdgeEnds DEF SlotsConserved, SlotsOf
    <3>2. contexts[e[1]][slot[e[1]][sent[e][i]]] \in Context(e[1])
      BY <3>1, EdgeEnds, SMTT(60) DEF ContextsType
    <3> QED
      BY <3>2, EdgeEnds DEF Context
  <2>4. /\ UNCHANGED <<pc, slot, contexts, free, sent, rcvd, arrived, ghosts>>
        /\ wire' = [wire EXCEPT ![e] = Append(wire[e], v)]
        /\ wire \in [Edges -> Seq(Nat)]
    BY <1>11 DEF Fetch, QueuesType
  <2> HIDE DEF v
  <2>5. /\ wire'[e] \in Seq(Nat) /\ Len(wire'[e]) = i
        /\ wire' \in [Edges -> Seq(Nat)]
        /\ \A d \in Edges : d # e => wire'[d] = wire[d]
    BY <2>3, <2>4
  <2>6. /\ SameSizes /\ SameHolders /\ Monotone
        /\ \A r \in Ranks, k \in Calls : Holding(r, k) => Holding(r, k)'
    BY <2>4 DEF SameSizes, SameHolders, Monotone, Holding, Packed, Begun
  <2>7. PcType' /\ PoolType' /\ ContextsType' /\ GhostsType' /\ QueuesType'
    BY <2>4, <2>5 DEF PcType, PoolType, ContextsType, GhostsType, QueuesType
  <2>8. SlotsConserved' /\ PoolInv'
    BY <2>4, <2>6, PoolFrame
  <2>9. QueuesOf(e)' /\ QuietOf(e)'
    <3>1. QueuesOf(e) /\ QuietOf(e)
      BY DEF QueuesInv, NoReuseInFlight
    <3>2. \A j \in (i + 1)..Len(sent[e]) : j \in (Len(wire[e]) + 1)..Len(sent[e])
      BY <2>1
    <3>3. i <= Len(sent[e])
      BY <2>1
    <3> HIDE DEF i
    <3> QED
      BY <2>4, <2>5, <3>1, <3>2, <3>3 DEF QueuesOf, QuietOf, Packed, Begun, Holding
  <2>10. \A d \in Edges : d # e => QueuesOf(d)' /\ QuietOf(d)'
    BY <2>4, <2>5, <2>6, EdgeFrame DEF QueuesInv, NoReuseInFlight, SameQueues
  <2>11. WaitedInv'
    <3>1. \A d \in Edges : 1..Len(wire[d]) \subseteq 1..Len(wire'[d])
      BY <2>1, <2>5
    <3>2. ASSUME NEW r \in Ranks, NEW k \in Calls, NEW q \in Targets(r), SendDone(r, k, q)
          PROVE  SendDone(r, k, q)'
      <4>1. <<r, q>> \in Edges
        BY DEF Targets
      <4> QED
        BY <2>4, <3>1, <3>2, <4>1 DEF SendDone
    <3> QED
      BY <2>4, <3>2 DEF WaitedInv, RecvDone
  <2> QED
    BY <2>7, <2>8, <2>9, <2>10, <2>11 DEF QueuesInv, NoReuseInFlight
<1>12. ASSUME NEW e \in Edges, Deliver(e) PROVE IInv'
  <2> DEFINE i == arrived[e] + 1
  <2>1. /\ i \in 1..Len(rcvd[e]) /\ i \in (arrived[e] + 1)..Len(rcvd[e])
        /\ i \in 1..Len(wire[e]) /\ i \in Nat
        /\ Len(rcvd[e]) \in Nat /\ arrived[e] \in Nat
    <3>1. arrived[e] \in Nat /\ Len(rcvd[e]) \in Nat /\ Len(wire[e]) \in Nat
      BY QueueFacts
    <3>2. i <= Len(rcvd[e]) /\ i <= Len(wire[e])
      BY <1>12 DEF Deliver
    <3> QED
      BY <3>1, <3>2
  <2>2. /\ rcvd[e][i] \in Calls /\ Holding(e[2], rcvd[e][i])
        /\ wire[e][i] \in Nat
    BY <2>1, QueueFacts DEF NoReuseInFlight, QuietOf
  <2>3. slot[e[2]][rcvd[e][i]] \in 1..Len(contexts[e[2]])
    BY <2>2, EdgeEnds DEF SlotsConserved, SlotsOf
  <2>4. ContextsType' /\ SameSizes
    BY <1>12, <2>2, <2>3, EdgeEnds, BufferStep DEF Deliver
  <2>5. /\ UNCHANGED <<pc, slot, free, sent, rcvd, wire, ghosts>>
        /\ arrived' = [arrived EXCEPT ![e] = i]
        /\ arrived \in [Edges -> Nat]
    BY <1>12 DEF Deliver, QueuesType
  <2>6. /\ arrived'[e] = i /\ arrived' \in [Edges -> Nat]
        /\ \A d \in Edges : d # e => arrived'[d] = arrived[d]
    BY <2>1, <2>5
  <2>7. /\ SameHolders /\ Monotone
        /\ \A r \in Ranks, k \in Calls : Holding(r, k) => Holding(r, k)'
    BY <2>5 DEF SameHolders, Monotone, Holding, Packed, Begun
  <2>8. PcType' /\ PoolType' /\ GhostsType' /\ QueuesType'
    BY <2>5, <2>6 DEF PcType, PoolType, GhostsType, QueuesType
  <2>9. SlotsConserved' /\ PoolInv'
    BY <2>4, <2>5, <2>7, PoolFrame
  <2>10. QueuesOf(e)' /\ QuietOf(e)'
    <3>1. QueuesOf(e) /\ QuietOf(e)
      BY DEF QueuesInv, NoReuseInFlight
    <3>2. \A j \in (i + 1)..Len(rcvd[e]) : j \in (arrived[e] + 1)..Len(rcvd[e])
      BY <2>1
    <3>3. i <= Len(rcvd[e])
      BY <2>1
    <3> HIDE DEF i
    <3> QED
      BY <2>5, <2>6, <3>1, <3>2, <3>3 DEF QueuesOf, QuietOf, Packed, Begun, Holding
  <2>11. \A d \in Edges : d # e => QueuesOf(d)' /\ QuietOf(d)'
    BY <2>5, <2>6, <2>7, EdgeFrame DEF QueuesInv, NoReuseInFlight, SameQueues
  <2>12. WaitedInv'
    <3>1. \A d \in Edges : 1..arrived[d] \subseteq 1..arrived'[d]
      BY <2>1, <2>6
    <3>2. ASSUME NEW r \in Ranks, NEW k \in Calls, NEW p \in Sources(r), RecvDone(r, k, p)
          PROVE  RecvDone(r, k, p)'
      <4>1. <<p, r>> \in Edges
        BY DEF Sources
      <4> QED
        BY <2>5, <3>1, <3>2, <4>1 DEF RecvDone
    <3> QED
      BY <2>5, <3>2 DEF WaitedInv, SendDone
  <2> QED
    BY <2>4, <2>8, <2>9, <2>10, <2>11, <2>12 DEF QueuesInv, NoReuseInFlight
<1>13. CASE UNCHANGED vars
  <2>1. UNCHANGED <<pc, slot, contexts, free, sent, rcvd, wire, arrived, ghosts>>
    BY <1>13 DEF vars
  <2>2. TypeOK'
    BY <2>1 DEF PcType, PoolType, ContextsType, QueuesType, GhostsType
  <2>3. SlotsConserved' /\ NoReuseInFlight' /\ PoolInv'
    BY <2>1 DEF SlotsConserved, SlotsOf, NoReuseInFlight, QuietOf, PoolInv, Holding
  <2>4. QueuesInv' /\ WaitedInv'
    BY <2>1, SMTT(60) DEF QueuesInv, QueuesOf, WaitedInv, Packed, Begun, RecvDone, SendDone
  <2> QED
    BY <2>2, <2>3, <2>4
<1> QED
  BY <1>1, <1>2, <1>3, <1>4, <1>5, <1>6, <1>7, <1>8, <1>9, <1>10, <1>11, <1>12, <1>13 DEF Next, Step
-----------------------------------------------------------------------------
(* Every reachable state of the exchange is well typed.                    *)
THEOREM TypeCorrect == Spec => []TypeOK
<1>1. IInv => TypeOK
  BY DEF IInv
<1> QED
  BY <1>1, InitIInv, StepIInv, PTL DEF Spec

(* The context pool of HaloPlan (checkout_context, complete_halo): no      *)
(* context is lost or held by two calls, however the calls interleave.     *)
THEOREM PoolSound == Spec => []SlotsConserved
<1>1. IInv => SlotsConserved
  BY DEF IInv
<1> QED
  BY <1>1, InitIInv, StepIInv, PTL DEF Spec

(* complete_halo never gives back a context that MPI may still access.     *)
THEOREM BuffersQuiet == Spec => []NoReuseInFlight
<1>1. IInv => NoReuseInFlight
  BY DEF IInv
<1> QED
  BY <1>1, InitIInv, StepIInv, PTL DEF Spec

------------------------------------------------------------------------------
(***************************************************************************)
(* Proofs that the exchange keeps its promise: HaloExchange implements     *)
(* GhostExchange, and no call ever uses the ghost values of another one,   *)
(* for every set of ranks, pattern of edges and number of calls, when each *)
(* rank posts its exchanges from one thread.                               *)
(***************************************************************************)

(* The callers of one rank post in the order of their calls: one thread,   *)
(* which may have several products outstanding, or the rank-local          *)
(* preconditioners, which read the first context and so exchange one at a  *)
(* time.                                                                   *)
OneThread ==
  \/ Discipline = "sequential"
  \/ Discipline = "overlapped" /\ Caller = "DistCsrOp"

Values(r, k) == [p \in Sources(r) |-> k]

(* Only ranks with a part in the exchange check contexts out and send.     *)
PartInv ==
  /\ \A r \in Ranks, k \in Calls :
       /\ pc[r][k] \notin {"new", "done"} => Participates(r)
       /\ pc[r][k] = "released" => Caller # "DistCsrOp"
  /\ \A e \in Edges : \A i \in 1..Len(sent[e]) : Participates(e[1])

(* A packed call has posted its receives, an ended one its sends too.      *)
PostedInv ==
  \A r \in Ranks, k \in Calls :
    Participates(r) =>
      /\ Packed(r, k) => \A p \in Sources(r) : InSeq(k, rcvd[<<p, r>>])
      /\ Ended(r, k) => \A q \in Targets(r) : InSeq(k, sent[<<r, q>>])

(* A call starts after the calls before it have posted everything.         *)
OrderInv ==
  \A r \in Ranks, j, k \in Calls :
    j < k /\ pc[r][k] # "new" =>
      /\ Packed(r, j)
      /\ Participates(r) => \A q \in Targets(r) : InSeq(j, sent[<<r, q>>])
      /\ Discipline = "sequential" => pc[r][j] = "done"

(* So the i-th request of an edge, on either side, is that of call i, and  *)
(* the i-th message carries the vector of call i.                          *)
Numbered(s) == \A i \in 1..Len(s) : s[i] = i
NumberInv == \A e \in Edges : Numbered(sent[e]) /\ Numbered(rcvd[e]) /\ Numbered(wire[e])

(* What the buffers of a held context contain.                             *)
SendFilled(r, k) ==
  pc[r][k] \in {"send", "unpacked"} =>
    contexts[r][slot[r][k]].send = [q \in Targets(r) |-> k]
RecvFilled(r, k) ==
  Holding(r, k) =>
    \A p \in Sources(r) :
      k <= arrived[<<p, r>>] => contexts[r][slot[r][k]].recv[p] = k
BufferInv == \A r \in Ranks, k \in Calls : SendFilled(r, k) /\ RecvFilled(r, k)

(* One call at a time never makes the pool grow.                           *)
PrimaryInv ==
  Discipline = "sequential" =>
    \A r \in Ranks :
      /\ Len(contexts[r]) = 1
      /\ \A k \in Calls :
           /\ pc[r][k] # "grow"
           /\ pc[r][k] \in {"unpacked", "released"} =>
                contexts[r][1].ghost = Values(r, k)

Returned(r, k) == pc[r][k] = "done" \/ (Caller = "DistCsrOp" /\ Ended(r, k))
ReturnInv ==
  \A r \in Ranks, k \in Calls :
    ghosts[r][k] = IF Returned(r, k) THEN Values(r, k) ELSE Nothing

OInv == PartInv /\ PostedInv /\ OrderInv /\ NumberInv /\ BufferInv /\ PrimaryInv /\ ReturnInv

-----------------------------------------------------------------------------
(* Frames: what a step may change without disturbing each part.            *)
QueuesKept ==
  \A e \in Edges, k \in Calls :
    /\ InSeq(k, sent[e]) => InSeq(k, sent'[e])
    /\ InSeq(k, rcvd[e]) => InSeq(k, rcvd'[e])

LEMMA EdgeOf ==
  ASSUME NEW r \in Ranks
  PROVE  /\ \A p \in Sources(r) : p \in Ranks /\ <<p, r>> \in Edges
         /\ \A q \in Targets(r) : q \in Ranks /\ <<r, q>> \in Edges
BY DEF Sources, Targets

LEMMA PostedFrame ==
  ASSUME PostedInv, QueuesKept,
         \A r \in Ranks, k \in Calls : Participates(r) =>
           /\ Packed(r, k)' => Packed(r, k) \/ \A p \in Sources(r) : InSeq(k, rcvd[<<p, r>>])
           /\ Ended(r, k)' => Ended(r, k) \/ \A q \in Targets(r) : InSeq(k, sent[<<r, q>>])
  PROVE  PostedInv'
<1>1. ASSUME NEW r \in Ranks, NEW k \in Calls, Participates(r)
      PROVE  /\ Packed(r, k)' => \A p \in Sources(r) : InSeq(k, rcvd'[<<p, r>>])
             /\ Ended(r, k)' => \A q \in Targets(r) : InSeq(k, sent'[<<r, q>>])
  <2>1. /\ \A p \in Sources(r) : <<p, r>> \in Edges
        /\ \A q \in Targets(r) : <<r, q>> \in Edges
    BY EdgeOf
  <2>2. /\ Packed(r, k) => \A p \in Sources(r) : InSeq(k, rcvd[<<p, r>>])
        /\ Ended(r, k) => \A q \in Targets(r) : InSeq(k, sent[<<r, q>>])
    BY <1>1 DEF PostedInv
  <2> QED
    BY <1>1, <2>1, <2>2 DEF QueuesKept
<1> QED
  BY <1>1 DEF PostedInv, Participates, InSeq

(* No call starts in the step.                                             *)
LEMMA OrderFrame ==
  ASSUME OrderInv, QueuesKept, Monotone,
         \A r \in Ranks, k \in Calls :
           /\ pc'[r][k] # "new" => pc[r][k] # "new"
           /\ pc[r][k] = "done" => pc'[r][k] = "done"
  PROVE  OrderInv'
<1>1. ASSUME NEW r \in Ranks, NEW j \in Calls, NEW k \in Calls, j < k, pc'[r][k] # "new"
      PROVE  /\ Packed(r, j)'
             /\ Participates(r) => \A q \in Targets(r) : InSeq(j, sent'[<<r, q>>])
             /\ Discipline = "sequential" => pc'[r][j] = "done"
  <2>1. \A q \in Targets(r) : <<r, q>> \in Edges
    BY EdgeOf
  <2>2. /\ Packed(r, j)
        /\ Participates(r) => \A q \in Targets(r) : InSeq(j, sent[<<r, q>>])
        /\ Discipline = "sequential" => pc[r][j] = "done"
    BY <1>1 DEF OrderInv
  <2> QED
    BY <2>1, <2>2 DEF QueuesKept, Monotone
<1> QED
  BY <1>1 DEF OrderInv, Participates, InSeq

(* Call k of rank r starts.                                                *)
LEMMA OrderStart ==
  ASSUME OneThread, PostedInv, OrderInv, NEW r \in Ranks, NEW k \in Calls,
         pc[r][k] = "new", MayBegin(r, k), sent' = sent, pc'[r][k] # "new",
         \A q \in Ranks, j \in Calls : q # r \/ j # k => pc'[q][j] = pc[q][j]
  PROVE  OrderInv'
<1>1. ASSUME NEW j \in Calls, j < k
      PROVE  /\ Packed(r, j)
             /\ Participates(r) => \A q \in Targets(r) : InSeq(j, sent[<<r, q>>])
             /\ Discipline = "sequential" => pc[r][j] = "done"
  <2>1. j \in 1..(k - 1)
    BY <1>1 DEF Calls
  <2>2. /\ Discipline = "overlapped" => Posted(r, j)
        /\ Discipline = "sequential" => pc[r][j] = "done"
    BY <2>1 DEF MayBegin
  <2>3. CASE Discipline = "overlapped"
    BY <2>2, <2>3 DEF Posted, Packed
  <2>4. CASE Discipline = "sequential"
    BY <2>2, <2>4 DEF PostedInv, Packed, Ended
  <2> QED
    BY <2>3, <2>4 DEF OneThread
<1>2. \A j \in Calls : ~(k < j /\ pc[r][j] # "new")
  BY DEF OrderInv, Packed
<1>3. ASSUME NEW q \in Ranks, NEW j \in Calls, NEW i \in Calls, j < i, pc'[q][i] # "new"
      PROVE  /\ Packed(q, j)'
             /\ Participates(q) => \A p \in Targets(q) : InSeq(j, sent[<<q, p>>])
             /\ Discipline = "sequential" => pc'[q][j] = "done"
  <2>1. CASE q = r /\ i = k
    <3>1. pc'[q][j] = pc[q][j]
      BY <1>3, <2>1 DEF Calls
    <3> QED
      BY <1>1, <1>3, <2>1, <3>1 DEF Packed
  <2>2. CASE ~(q = r /\ i = k)
    <3>1. pc[q][i] # "new"
      BY <1>3, <2>2
    <3>2. ~(q = r /\ j = k)
      BY <1>2, <1>3, <3>1
    <3> QED
      BY <1>3, <3>1, <3>2 DEF OrderInv, Packed
  <2> QED
    BY <2>1, <2>2
<1> QED
  BY <1>3 DEF OrderInv, Participates, InSeq

LEMMA NumberFrame ==
  ASSUME NumberInv, UNCHANGED <<sent, rcvd, wire>>
  PROVE  NumberInv'
BY DEF NumberInv, Numbered

(* No context is filled or checked out in the step.                        *)
LEMMA BufferFrame ==
  ASSUME BufferInv, UNCHANGED <<contexts, arrived, slot>>,
         \A r \in Ranks, k \in Calls :
           /\ Holding(r, k)' => Holding(r, k)
           /\ pc'[r][k] \in {"send", "unpacked"} => pc[r][k] \in {"send", "unpacked"}
  PROVE  BufferInv'
BY DEF BufferInv, SendFilled, RecvFilled

(* A call that the step leaves alone keeps its context.                    *)
LEMMA BufferKept ==
  ASSUME BufferInv, arrived' = arrived, NEW q \in Ranks, NEW j \in Calls,
         pc'[q][j] = pc[q][j], slot'[q][j] = slot[q][j],
         Holding(q, j) =>
           /\ contexts'[q][slot[q][j]].send = contexts[q][slot[q][j]].send
           /\ contexts'[q][slot[q][j]].recv = contexts[q][slot[q][j]].recv
  PROVE  SendFilled(q, j)' /\ RecvFilled(q, j)'
<1>1. SendFilled(q, j) /\ RecvFilled(q, j)
  BY DEF BufferInv
<1>2. SendFilled(q, j)'
  BY <1>1 DEF SendFilled, Holding
<1>3. RecvFilled(q, j)'
  <2>1. SUFFICES ASSUME Holding(q, j)', NEW p \in Sources(q), j <= arrived'[<<p, q>>]
        PROVE  contexts'[q][slot'[q][j]].recv[p] = j
    BY DEF RecvFilled
  <2> QED
    BY <1>1, <2>1 DEF RecvFilled, Holding
<1> QED
  BY <1>2, <1>3

LEMMA PrimaryFrame ==
  ASSUME PrimaryInv, contexts' = contexts,
         \A r \in Ranks, k \in Calls :
           /\ pc'[r][k] = "grow" => pc[r][k] = "grow"
           /\ pc'[r][k] \in {"unpacked", "released"} => pc[r][k] \in {"unpacked", "released"}
  PROVE  PrimaryInv'
BY DEF PrimaryInv, Values

LEMMA ReturnFrame ==
  ASSUME ReturnInv, ghosts' = ghosts,
         \A r \in Ranks, k \in Calls : Returned(r, k)' <=> Returned(r, k)
  PROVE  ReturnInv'
BY DEF ReturnInv, Values, Nothing

(* The calls before a call that has begun, and after one that has not      *)
(* ended, when there is one call at a time.                                *)
LEMMA OneHolder ==
  ASSUME OrderInv, Discipline = "sequential", NEW r \in Ranks,
         NEW j \in Calls, NEW k \in Calls, j # k
  PROVE  pc[r][j] \in {"new", "done"} \/ pc[r][k] \in {"new", "done"}
<1>1. j < k \/ k < j
  BY DEF Calls
<1> QED
  BY <1>1 DEF OrderInv

(* A call that has not begun has received nothing.                         *)
LEMMA NotReceived ==
  ASSUME QueuesType, QueuesInv, NumberInv, NEW r \in Ranks, NEW k \in Calls,
         ~Begun(r, k), NEW p \in Sources(r)
  PROVE  ~(k <= arrived[<<p, r>>])
<1> DEFINE e == <<p, r>>
<1>1. e \in Edges /\ e[2] = r
  BY EdgeOf
<1> HIDE DEF e
<1>2. SUFFICES ASSUME k <= arrived[e] PROVE FALSE
  BY DEF e
<1>3. k \in 1..Len(rcvd[e])
  BY <1>1, <1>2, QueueFacts DEF QueuesInv, QueuesOf, Calls
<1>4. rcvd[e][k] = k
  BY <1>1, <1>3 DEF NumberInv, Numbered
<1> QED
  BY <1>1, <1>3, <1>4 DEF QueuesInv, QueuesOf

(* A receive that was waited for is the one of its call, on both sides.    *)
LEMMA WaitedCall ==
  ASSUME QueuesType, QueuesInv, NumberInv, NEW r \in Ranks, NEW k \in Calls,
         NEW p \in Sources(r), RecvDone(r, k, p)
  PROVE  k <= arrived[<<p, r>>]
<1>1. <<p, r>> \in Edges
  BY EdgeOf
<1>2. PICK i \in 1..arrived[<<p, r>>] : rcvd[<<p, r>>][i] = k
  BY DEF RecvDone
<1>3. i \in 1..Len(rcvd[<<p, r>>])
  BY <1>1, <1>2, QueueFacts DEF QueuesInv, QueuesOf
<1>4. i = k
  BY <1>1, <1>2, <1>3 DEF NumberInv, Numbered
<1> QED
  BY <1>1, <1>2, <1>4, QueueFacts

(* What filling one buffer of one context leaves alone.                    *)
FillGhost(r, i, v)   == contexts' = [contexts EXCEPT ![r][i].ghost = v]
FillRecv(r, i, p, v) == contexts' = [contexts EXCEPT ![r][i].recv[p] = v]

LEMMA FilledSend ==
  ASSUME ContextsType, NEW r \in Ranks, NEW i \in 1..Len(contexts[r]),
         NEW v \in [Targets(r) -> Nat],
         contexts' = [contexts EXCEPT ![r][i].send = v]
  PROVE  /\ contexts'[r][i].send = v
         /\ \A q \in Ranks : \A j \in 1..Len(contexts[q]) :
              /\ contexts'[q][j].recv = contexts[q][j].recv
              /\ contexts'[q][j].ghost = contexts[q][j].ghost
              /\ q # r \/ j # i => contexts'[q][j] = contexts[q][j]
<1>1. contexts[r][i] \in Context(r) /\ DOMAIN contexts[r] = 1..Len(contexts[r])
  BY DEF ContextsType
<1>2. contexts'[r][i] = [contexts[r][i] EXCEPT !.send = v]
  BY <1>1 DEF ContextsType
<1>3. \A q \in Ranks : \A j \in 1..Len(contexts[q]) :
        q # r \/ j # i => contexts'[q][j] = contexts[q][j]
  BY <1>1 DEF ContextsType
<1> QED
  BY <1>1, <1>2, <1>3 DEF Context

LEMMA FilledGhost ==
  ASSUME ContextsType, NEW r \in Ranks, NEW i \in 1..Len(contexts[r]),
         NEW v \in [Sources(r) -> Nat],
         FillGhost(r, i, v)
  PROVE  /\ contexts'[r][i].ghost = v
         /\ \A q \in Ranks : \A j \in 1..Len(contexts[q]) :
              /\ contexts'[q][j].recv = contexts[q][j].recv
              /\ contexts'[q][j].send = contexts[q][j].send
              /\ q # r \/ j # i => contexts'[q][j] = contexts[q][j]
<1>1. contexts[r][i] \in Context(r) /\ DOMAIN contexts[r] = 1..Len(contexts[r])
  BY DEF ContextsType
<1>2. contexts'[r][i] = [contexts[r][i] EXCEPT !.ghost = v]
  BY <1>1 DEF ContextsType, FillGhost
<1>3. \A q \in Ranks : \A j \in 1..Len(contexts[q]) :
        q # r \/ j # i => contexts'[q][j] = contexts[q][j]
  BY <1>1 DEF ContextsType, FillGhost
<1> QED
  BY <1>1, <1>2, <1>3 DEF Context

LEMMA FilledRecv ==
  ASSUME ContextsType, NEW r \in Ranks, NEW i \in 1..Len(contexts[r]),
         NEW p \in Sources(r), NEW v \in Nat,
         FillRecv(r, i, p, v)
  PROVE  /\ contexts'[r][i].recv[p] = v
         /\ \A q \in Ranks : \A j \in 1..Len(contexts[q]) :
              /\ contexts'[q][j].send = contexts[q][j].send
              /\ contexts'[q][j].ghost = contexts[q][j].ghost
              /\ \A d \in Sources(q) : q # r \/ j # i \/ d # p =>
                   contexts'[q][j].recv[d] = contexts[q][j].recv[d]
<1>1. contexts[r][i] \in Context(r) /\ DOMAIN contexts[r] = 1..Len(contexts[r])
  BY DEF ContextsType
<1>2. contexts'[r][i] = [contexts[r][i] EXCEPT !.recv[p] = v]
  BY <1>1 DEF ContextsType, FillRecv
<1>3. \A q \in Ranks : \A j \in 1..Len(contexts[q]) :
        q # r \/ j # i => contexts'[q][j] = contexts[q][j]
  BY <1>1 DEF ContextsType, FillRecv
<1>4. /\ contexts'[r][i].send = contexts[r][i].send
      /\ contexts'[r][i].ghost = contexts[r][i].ghost
      /\ contexts'[r][i].recv = [contexts[r][i].recv EXCEPT ![p] = v]
      /\ contexts[r][i].recv \in [Sources(r) -> Nat]
  BY <1>1, <1>2 DEF Context
<1> QED
  BY <1>3, <1>4

(* A request that joins a queue behind all earlier calls gets its number.  *)
LEMMA AppendNumbered ==
  ASSUME NEW S, NEW s \in Seq(S), NEW k \in S, \A i \in 1..Len(s) : s[i] = i,
         Len(s) + 1 = k
  PROVE  Numbered(Append(s, k))
<1>1. /\ Len(Append(s, k)) = Len(s) + 1
      /\ \A i \in 1..Len(s) : Append(s, k)[i] = s[i]
      /\ Append(s, k)[Len(s) + 1] = k
      /\ Len(s) \in Nat
  OBVIOUS
<1>2. \A i \in 1..(Len(s) + 1) : i \in 1..Len(s) \/ i = Len(s) + 1
  BY <1>1
<1> QED
  BY <1>1, <1>2 DEF Numbered

LEMMA NextNumber ==
  ASSUME NEW s \in Seq(Calls), Numbered(s), NEW k \in Calls, ~InSeq(k, s),
         \A j \in Calls : j < k => InSeq(j, s)
  PROVE  Len(s) + 1 = k /\ Numbered(Append(s, k))
<1>1. Len(s) \in Nat /\ DOMAIN s = 1..Len(s)
  OBVIOUS
<1>2. \A i \in 1..Len(s) : s[i] = i
  BY DEF Numbered
<1>3. ~(k <= Len(s))
  BY <1>1, <1>2 DEF InSeq, Calls
<1>4. ~(k > Len(s) + 1)
  <2>1. SUFFICES ASSUME k > Len(s) + 1 PROVE FALSE
    OBVIOUS
  <2>2. Len(s) + 1 \in Calls
    BY <1>1, <2>1, ConstantsAssumption DEF Calls, ConstantsAssumption
  <2>3. InSeq(Len(s) + 1, s)
    BY <2>1, <2>2
  <2>4. PICK i \in 1..Len(s) : s[i] = Len(s) + 1
    BY <1>1, <2>3 DEF InSeq
  <2> QED
    BY <1>1, <1>2, <2>4
<1>5. Len(s) + 1 = k
  BY <1>1, <1>3, <1>4, ConstantsAssumption DEF Calls, ConstantsAssumption
<1> QED
  BY <1>2, <1>5, AppendNumbered

(* Two calls of a rank never hold the same context.                        *)
LEMMA OwnSlots ==
  ASSUME SlotsConserved, NEW r \in Ranks, NEW k \in Calls, Holding(r, k)
  PROVE  /\ slot[r][k] \in 1..Len(contexts[r])
         /\ \A j \in Calls : j # k /\ Holding(r, j) => slot[r][j] # slot[r][k]
BY DEF SlotsConserved, SlotsOf

-----------------------------------------------------------------------------
LEMMA InitOInv == Init => OInv
<1> SUFFICES ASSUME Init PROVE OInv
  OBVIOUS
<1>1. /\ \A r \in Ranks, k \in Calls : pc[r][k] = "new" /\ ghosts[r][k] = Nothing
      /\ \A r \in Ranks : Len(contexts[r]) = 1
      /\ \A e \in Edges : Len(sent[e]) = 0 /\ Len(rcvd[e]) = 0 /\ Len(wire[e]) = 0
  BY DEF Init
<1>2. PartInv /\ PostedInv /\ OrderInv
  BY <1>1 DEF PartInv, PostedInv, OrderInv, Packed, Ended
<1>3. NumberInv
  BY <1>1 DEF NumberInv, Numbered
<1>4. BufferInv
  BY <1>1 DEF BufferInv, SendFilled, RecvFilled, Holding
<1>5. PrimaryInv /\ ReturnInv
  BY <1>1 DEF PrimaryInv, ReturnInv, Returned, Ended
<1> QED
  BY <1>2, <1>3, <1>4, <1>5 DEF OInv

LEMMA StepOInv == OneThread /\ IInv /\ OInv /\ [Next]_vars => OInv'
<1> SUFFICES ASSUME OneThread, IInv, OInv, [Next]_vars PROVE OInv'
  OBVIOUS
<1> USE DEF IInv, TypeOK, OInv
<1>1. ASSUME NEW r \in Ranks, NEW k \in Calls, Skip(r, k) PROVE OInv'
  <2>1. /\ pc'[r][k] = "done"
        /\ \A q \in Ranks, j \in Calls : q # r \/ j # k => pc'[q][j] = pc[q][j]
    BY <1>1, PhaseStep DEF Skip, Phase, Phases
  <2>2. /\ pc[r][k] = "new" /\ MayBegin(r, k) /\ ~Participates(r)
        /\ UNCHANGED <<slot, contexts, free, sent, rcvd, wire, arrived, ghosts>>
    BY <1>1 DEF Skip
  <2>3. PartInv'
    BY <2>1, <2>2 DEF PartInv, Participates
  <2>4. PostedInv'
    BY <2>1, <2>2, PostedFrame DEF QueuesKept, Packed, Ended
  <2>5. OrderInv'
    BY <2>1, <2>2, OrderStart
  <2>6. NumberInv' /\ BufferInv' /\ PrimaryInv'
    BY <2>1, <2>2, NumberFrame, BufferFrame, PrimaryFrame DEF Holding
  <2>7. ReturnInv'
    <3>1. Values(r, k) = Nothing
      BY <2>2 DEF Values, Nothing, Participates
    <3>2. \A q \in Ranks, j \in Calls : q # r \/ j # k => (Returned(q, j)' <=> Returned(q, j))
      BY <2>1 DEF Returned, Ended
    <3>3. ghosts'[r][k] = Nothing
      BY <2>2 DEF ReturnInv, Returned, Ended
    <3> QED
      BY <2>2, <3>1, <3>2, <3>3 DEF ReturnInv, Values, Nothing
  <2> QED
    BY <2>3, <2>4, <2>5, <2>6, <2>7
<1>2. ASSUME NEW r \in Ranks, NEW k \in Calls, CheckoutFree(r, k) PROVE OInv'
  <2>1. /\ pc'[r][k] = "post"
        /\ \A q \in Ranks, j \in Calls : q # r \/ j # k => pc'[q][j] = pc[q][j]
    BY <1>2, PhaseStep DEF CheckoutFree, Phase, Phases
  <2>2. /\ pc[r][k] = "new" /\ MayBegin(r, k) /\ Participates(r)
        /\ UNCHANGED <<contexts, sent, rcvd, wire, arrived, ghosts>>
        /\ \A q \in Ranks, j \in Calls : q # r \/ j # k => slot'[q][j] = slot[q][j]
    BY <1>2 DEF CheckoutFree, PoolType
  <2>3. PartInv'
    BY <2>1, <2>2 DEF PartInv, Participates
  <2>4. PostedInv'
    BY <2>1, <2>2, PostedFrame DEF QueuesKept, Packed, Ended
  <2>5. OrderInv'
    BY <2>1, <2>2, OrderStart
  <2>6. NumberInv' /\ PrimaryInv'
    BY <2>1, <2>2, NumberFrame, PrimaryFrame
  <2>7. BufferInv'
    <3>1. \A p \in Sources(r) : ~(k <= arrived[<<p, r>>])
      BY <2>2, NotReceived DEF Begun
    <3>2. SendFilled(r, k)' /\ RecvFilled(r, k)'
      BY <2>1, <2>2, <3>1 DEF SendFilled, RecvFilled
    <3>3. ASSUME NEW q \in Ranks, NEW j \in Calls, q # r \/ j # k
          PROVE  SendFilled(q, j)' /\ RecvFilled(q, j)'
      <4>1. pc'[q][j] = pc[q][j] /\ slot'[q][j] = slot[q][j]
        BY <2>1, <2>2, <3>3
      <4> QED
        BY <2>2, <4>1, BufferKept
    <3> QED
      BY <3>2, <3>3 DEF BufferInv
  <2>8. ReturnInv'
    BY <2>1, <2>2, ReturnFrame DEF Returned, Ended
  <2> QED
    BY <2>3, <2>4, <2>5, <2>6, <2>7, <2>8
<1>3. ASSUME NEW r \in Ranks, NEW k \in Calls, CheckoutMiss(r, k) PROVE OInv'
  <2>1. /\ pc'[r][k] = "grow"
        /\ \A q \in Ranks, j \in Calls : q # r \/ j # k => pc'[q][j] = pc[q][j]
    BY <1>3, PhaseStep DEF CheckoutMiss, Phase, Phases
  <2>2. /\ pc[r][k] = "new" /\ MayBegin(r, k) /\ Participates(r) /\ free[r] = <<>>
        /\ UNCHANGED <<slot, contexts, free, sent, rcvd, wire, arrived, ghosts>>
    BY <1>3 DEF CheckoutMiss
  <2>3. PartInv'
    BY <2>1, <2>2 DEF PartInv, Participates
  <2>4. PostedInv'
    BY <2>1, <2>2, PostedFrame DEF QueuesKept, Packed, Ended
  <2>5. OrderInv'
    BY <2>1, <2>2, OrderStart
  <2>6. NumberInv' /\ BufferInv'
    BY <2>1, <2>2, NumberFrame, BufferFrame DEF Holding
  <2>7. PrimaryInv'
    <3>1. SUFFICES ASSUME Discipline = "sequential" PROVE FALSE
      BY DEF PrimaryInv
    <3>2. 1 \in 1..Len(contexts[r]) /\ ~InSeq(1, free[r])
      BY <2>2, <3>1 DEF PrimaryInv, InSeq
    <3>3. PICK j \in Calls : Holding(r, j) /\ slot[r][j] = 1
      BY <3>2 DEF SlotsConserved, SlotsOf
    <3>4. j # k /\ pc[r][j] \notin {"new", "done"} /\ (j < k \/ k < j)
      BY <2>2, <3>3 DEF Holding, Calls
    <3>5. CASE k < j
      BY <2>2, <3>4, <3>5 DEF OrderInv, Packed
    <3>6. CASE j < k
      <4>1. j \in 1..(k - 1)
        BY <3>6 DEF Calls
      <4> QED
        BY <2>2, <3>1, <3>4, <4>1 DEF MayBegin
    <3> QED
      BY <3>4, <3>5, <3>6
  <2>8. ReturnInv'
    BY <2>1, <2>2, ReturnFrame DEF Returned, Ended
  <2> QED
    BY <2>3, <2>4, <2>5, <2>6, <2>7, <2>8
<1>4. ASSUME NEW r \in Ranks, NEW k \in Calls, Grow(r, k) PROVE OInv'
  <2>1. /\ pc'[r][k] = "post"
        /\ \A q \in Ranks, j \in Calls : q # r \/ j # k => pc'[q][j] = pc[q][j]
    BY <1>4, PhaseStep DEF Grow, Phase, Phases
  <2>2. /\ pc[r][k] = "grow"
        /\ UNCHANGED <<free, sent, rcvd, wire, arrived, ghosts>>
        /\ \A q \in Ranks, j \in Calls : q # r \/ j # k => slot'[q][j] = slot[q][j]
        /\ \A q \in Ranks : \A i \in 1..Len(contexts[q]) : contexts'[q][i] = contexts[q][i]
    <3>1. Zeroed(r) \in Context(r) /\ contexts[r] \in Seq(Context(r))
      BY DEF Zeroed, Context, ContextsType
    <3>2. /\ contexts'[r] = Append(contexts[r], Zeroed(r))
          /\ \A q \in Ranks : q # r => contexts'[q] = contexts[q]
      BY <1>4 DEF Grow, ContextsType
    <3>3. \A i \in 1..Len(contexts[r]) : contexts'[r][i] = contexts[r][i]
      BY <3>1, <3>2
    <3> QED
      BY <1>4, <3>2, <3>3 DEF Grow, PoolType
  <2>3. PartInv'
    BY <2>1, <2>2 DEF PartInv, Participates
  <2>4. PostedInv'
    BY <2>1, <2>2, PostedFrame DEF QueuesKept, Packed, Ended
  <2>5. OrderInv'
    BY <2>1, <2>2, OrderFrame DEF QueuesKept, Monotone, Packed, Begun
  <2>6. NumberInv' /\ PrimaryInv'
    BY <2>2, NumberFrame DEF PrimaryInv
  <2>7. BufferInv'
    <3>1. \A p \in Sources(r) : ~(k <= arrived[<<p, r>>])
      BY <2>2, NotReceived DEF Begun
    <3>2. SendFilled(r, k)' /\ RecvFilled(r, k)'
      BY <2>1, <2>2, <3>1 DEF SendFilled, RecvFilled
    <3>3. ASSUME NEW q \in Ranks, NEW j \in Calls, q # r \/ j # k
          PROVE  SendFilled(q, j)' /\ RecvFilled(q, j)'
      <4>1. pc'[q][j] = pc[q][j] /\ slot'[q][j] = slot[q][j]
        BY <2>1, <2>2, <3>3
      <4>2. Holding(q, j) => contexts'[q][slot[q][j]] = contexts[q][slot[q][j]]
        BY <2>2, OwnSlots
      <4> QED
        BY <2>2, <4>1, <4>2, BufferKept
    <3> QED
      BY <3>2, <3>3 DEF BufferInv
  <2>8. ReturnInv'
    BY <2>1, <2>2, ReturnFrame DEF Returned, Ended
  <2> QED
    BY <2>3, <2>4, <2>5, <2>6, <2>7, <2>8
<1>5. ASSUME NEW r \in Ranks, NEW k \in Calls, Pack(r, k) PROVE OInv'
  <2>1. /\ pc'[r][k] = "send"
        /\ \A q \in Ranks, j \in Calls : q # r \/ j # k => pc'[q][j] = pc[q][j]
    BY <1>5, PhaseStep DEF Pack, Phase, Phases
  <2>2. /\ pc[r][k] = "post"
        /\ \A p \in Sources(r) : InSeq(k, rcvd[<<p, r>>])
        /\ UNCHANGED <<slot, free, sent, rcvd, wire, arrived, ghosts>>
    BY <1>5 DEF Pack
  <2>3. PartInv'
    BY <2>1, <2>2 DEF PartInv, Participates
  <2>4. PostedInv'
    BY <2>1, <2>2, PostedFrame DEF QueuesKept, Packed, Ended
  <2>5. OrderInv'
    BY <2>1, <2>2, OrderFrame DEF QueuesKept, Monotone, Packed, Begun
  <2>6. NumberInv'
    BY <2>2, NumberFrame
  <2>7. /\ slot[r][k] \in 1..Len(contexts[r]) /\ Holding(r, k)
        /\ contexts'[r][slot[r][k]].send = [q \in Targets(r) |-> k]
        /\ \A q \in Ranks : \A j \in 1..Len(contexts[q]) :
              /\ contexts'[q][j].recv = contexts[q][j].recv
              /\ contexts'[q][j].ghost = contexts[q][j].ghost
              /\ q # r \/ j # slot[r][k] => contexts'[q][j] = contexts[q][j]
    <3>1. Holding(r, k) /\ slot[r][k] \in 1..Len(contexts[r])
      BY <2>2, OwnSlots DEF Holding
    <3>2. [q \in Targets(r) |-> k] \in [Targets(r) -> Nat]
      BY DEF Calls
    <3>3. contexts' = [contexts EXCEPT ![r][slot[r][k]].send = [q \in Targets(r) |-> k]]
      BY <1>5 DEF Pack
    <3> DEFINE i == slot[r][k]
               v == [q \in Targets(r) |-> k]
    <3>4. i \in 1..Len(contexts[r]) /\ v \in [Targets(r) -> Nat]
      BY <3>1, <3>2
    <3>5. contexts' = [contexts EXCEPT ![r][i].send = v] /\ ContextsType
      BY <3>3
    <3> HIDE DEF i, v
    <3>6. /\ contexts'[r][i].send = v
          /\ \A q \in Ranks : \A j \in 1..Len(contexts[q]) :
               /\ contexts'[q][j].recv = contexts[q][j].recv
               /\ contexts'[q][j].ghost = contexts[q][j].ghost
               /\ q # r \/ j # i => contexts'[q][j] = contexts[q][j]
      BY <3>4, <3>5, FilledSend
    <3> QED
      BY <3>1, <3>6 DEF i, v
  <2>8. BufferInv'
    <3>1. SendFilled(r, k)' /\ RecvFilled(r, k)'
      <4>1. contexts'[r][slot[r][k]].recv = contexts[r][slot[r][k]].recv
        BY <2>7
      <4>2. RecvFilled(r, k)
        BY DEF BufferInv
      <4>3. RecvFilled(r, k)'
        BY <2>2, <2>7, <4>1, <4>2 DEF RecvFilled
      <4> QED
        BY <2>1, <2>2, <2>7, <4>3 DEF SendFilled
    <3>2. ASSUME NEW q \in Ranks, NEW j \in Calls, q # r \/ j # k
          PROVE  SendFilled(q, j)' /\ RecvFilled(q, j)'
      <4>1. pc'[q][j] = pc[q][j] /\ slot'[q][j] = slot[q][j]
        BY <2>1, <2>2, <3>2
      <4>2. Holding(q, j) => contexts'[q][slot[q][j]] = contexts[q][slot[q][j]]
        BY <2>7, <3>2, OwnSlots
      <4> QED
        BY <2>2, <4>1, <4>2, BufferKept
    <3> QED
      BY <3>1, <3>2 DEF BufferInv
  <2>9. PrimaryInv'
    <3>1. SameSizes
      <4>1. [q \in Targets(r) |-> k] \in [Targets(r) -> Nat]
        BY DEF Calls
      <4>2. contexts' = [contexts EXCEPT ![r][slot[r][k]].send = [q \in Targets(r) |-> k]]
        BY <1>5 DEF Pack
      <4> QED
        BY <2>7, <4>1, <4>2, BufferStep
    <3>2. Discipline = "sequential" => \A q \in Ranks : contexts'[q][1].ghost = contexts[q][1].ghost
      BY <2>7 DEF PrimaryInv
    <3> QED
      BY <2>1, <3>1, <3>2 DEF PrimaryInv, SameSizes, Values
  <2>10. ReturnInv'
    BY <2>1, <2>2, ReturnFrame DEF Returned, Ended
  <2> QED
    BY <2>3, <2>4, <2>5, <2>6, <2>8, <2>9, <2>10
<1>6. ASSUME NEW r \in Ranks, NEW k \in Calls, NEW p \in Sources(r), PostRecv(r, k, p)
      PROVE  OInv'
  <2> DEFINE e == <<p, r>>
  <2>1. /\ e \in Edges /\ pc[r][k] = "post" /\ ~InSeq(k, rcvd[e])
        /\ rcvd' = [rcvd EXCEPT ![e] = Append(rcvd[e], k)]
        /\ UNCHANGED <<pc, slot, contexts, free, sent, wire, arrived, ghosts>>
    BY <1>6, EdgeOf DEF PostRecv
  <2>2. e[2] = r /\ e[1] = p
    BY DEF e
  <2>3. \A j \in Calls : j < k => InSeq(j, rcvd[e])
    BY <2>1 DEF OrderInv, PartInv, PostedInv
  <2> HIDE DEF e
  <2>4. /\ rcvd[e] \in Seq(Calls) /\ Numbered(rcvd[e])
        /\ rcvd \in [Edges -> Seq(Calls)]
    BY <2>1 DEF QueuesType, NumberInv
  <2>5. Len(rcvd[e]) + 1 = k /\ Numbered(Append(rcvd[e], k))
    BY <2>1, <2>3, <2>4, NextNumber
  <2>6. /\ rcvd'[e] = Append(rcvd[e], k)
        /\ \A d \in Edges : d # e => rcvd'[d] = rcvd[d]
    BY <2>1, <2>4
  <2>7. QueuesKept
    <3>1. \A j \in Calls : InSeq(j, rcvd[e]) => InSeq(j, rcvd'[e])
      BY <2>4, <2>6, AppendFacts DEF InSeq
    <3> QED
      BY <2>1, <2>6, <3>1 DEF QueuesKept
  <2>8. PartInv'
    <3>1. /\ \A i \in Ranks, j \in Calls :
                /\ pc'[i][j] \notin {"new", "done"} => Participates(i)
                /\ pc'[i][j] = "released" => Caller # "DistCsrOp"
          /\ Participates(r)
      BY <2>1 DEF PartInv
    <3>2. ASSUME NEW d \in Edges, NEW i \in 1..Len(sent'[d]) PROVE Participates(d[1])
      BY <2>1, <2>2, <2>6, <3>1, <3>2 DEF PartInv
    <3> QED
      BY <3>1, <3>2 DEF PartInv, Participates
  <2>9. PostedInv'
    BY <2>1, <2>7, PostedFrame DEF Packed, Ended
  <2>10. OrderInv'
    BY <2>1, <2>7, OrderFrame DEF Monotone, Packed, Begun
  <2>11. NumberInv'
    <3>1. ASSUME NEW d \in Edges
          PROVE  Numbered(sent'[d]) /\ Numbered(rcvd'[d]) /\ Numbered(wire'[d])
      BY <2>1, <2>5, <2>6 DEF NumberInv
    <3> QED
      BY <3>1 DEF NumberInv, Numbered
  <2>12. BufferInv' /\ PrimaryInv' /\ ReturnInv'
    BY <2>1, BufferFrame, PrimaryFrame, ReturnFrame DEF Holding, Returned, Ended
  <2> QED
    BY <2>8, <2>9, <2>10, <2>11, <2>12
<1>7. ASSUME NEW r \in Ranks, NEW k \in Calls, NEW q \in Targets(r), PostSend(r, k, q)
      PROVE  OInv'
  <2> DEFINE e == <<r, q>>
  <2>1. /\ e \in Edges /\ pc[r][k] = "send" /\ ~InSeq(k, sent[e])
        /\ sent' = [sent EXCEPT ![e] = Append(sent[e], k)]
        /\ UNCHANGED <<pc, slot, contexts, free, rcvd, wire, arrived, ghosts>>
    BY <1>7, EdgeOf DEF PostSend
  <2>2. e[1] = r /\ e[2] = q
    BY DEF e
  <2>3. \A j \in Calls : j < k => InSeq(j, sent[e])
    BY <2>1 DEF OrderInv, PartInv
  <2> HIDE DEF e
  <2>4. /\ sent[e] \in Seq(Calls) /\ Numbered(sent[e])
        /\ sent \in [Edges -> Seq(Calls)]
    BY <2>1 DEF QueuesType, NumberInv
  <2>5. Len(sent[e]) + 1 = k /\ Numbered(Append(sent[e], k))
    BY <2>1, <2>3, <2>4, NextNumber
  <2>6. /\ sent'[e] = Append(sent[e], k)
        /\ \A d \in Edges : d # e => sent'[d] = sent[d]
    BY <2>1, <2>4
  <2>7. QueuesKept
    <3>1. \A j \in Calls : InSeq(j, sent[e]) => InSeq(j, sent'[e])
      BY <2>4, <2>6, AppendFacts DEF InSeq
    <3> QED
      BY <2>1, <2>6, <3>1 DEF QueuesKept
  <2>8. PartInv'
    <3>1. /\ \A i \in Ranks, j \in Calls :
                /\ pc'[i][j] \notin {"new", "done"} => Participates(i)
                /\ pc'[i][j] = "released" => Caller # "DistCsrOp"
          /\ Participates(r)
      BY <2>1 DEF PartInv
    <3>2. ASSUME NEW d \in Edges, NEW i \in 1..Len(sent'[d]) PROVE Participates(d[1])
      BY <2>1, <2>2, <2>6, <3>1, <3>2 DEF PartInv
    <3> QED
      BY <3>1, <3>2 DEF PartInv, Participates
  <2>9. PostedInv'
    BY <2>1, <2>7, PostedFrame DEF Packed, Ended
  <2>10. OrderInv'
    BY <2>1, <2>7, OrderFrame DEF Monotone, Packed, Begun
  <2>11. NumberInv'
    <3>1. ASSUME NEW d \in Edges
          PROVE  Numbered(sent'[d]) /\ Numbered(rcvd'[d]) /\ Numbered(wire'[d])
      BY <2>1, <2>5, <2>6 DEF NumberInv
    <3> QED
      BY <3>1 DEF NumberInv, Numbered
  <2>12. BufferInv' /\ PrimaryInv' /\ ReturnInv'
    BY <2>1, BufferFrame, PrimaryFrame, ReturnFrame DEF Holding, Returned, Ended
  <2> QED
    BY <2>8, <2>9, <2>10, <2>11, <2>12
<1>8. ASSUME NEW e \in Edges, Fetch(e) PROVE OInv'
  <2> DEFINE i == Len(wire[e]) + 1
             v == contexts[e[1]][slot[e[1]][sent[e][i]]].send[e[2]]
  <2>1. i \in 1..Len(sent[e]) /\ i \in (Len(wire[e]) + 1)..Len(sent[e])
    <3>1. Len(wire[e]) \in Nat /\ Len(sent[e]) \in Nat
      BY QueueFacts
    <3>2. i <= Len(sent[e])
      BY <1>8 DEF Fetch
    <3> QED
      BY <3>1, <3>2
  <2>2. /\ sent[e][i] = i /\ i \in Calls /\ e[1] \in Ranks /\ e[2] \in Targets(e[1])
        /\ Holding(e[1], i) /\ Packed(e[1], i)
    <3>1. sent[e][i] = i
      BY <2>1 DEF NumberInv, Numbered
    <3>2. sent[e][i] \in Calls /\ Holding(e[1], sent[e][i]) /\ Packed(e[1], sent[e][i])
      BY <2>1, QueueFacts DEF NoReuseInFlight, QuietOf, QueuesInv, QueuesOf
    <3> QED
      BY <3>1, <3>2, EdgeEnds
  <2>3. v = i
    <3>1. pc[e[1]][i] \in {"send", "unpacked"}
      BY <2>2 DEF Holding, Packed
    <3>2. contexts[e[1]][slot[e[1]][i]].send = [q \in Targets(e[1]) |-> i]
      BY <2>2, <3>1 DEF BufferInv, SendFilled
    <3> QED
      BY <2>2, <3>2
  <2>4. /\ UNCHANGED <<pc, slot, contexts, free, sent, rcvd, arrived, ghosts>>
        /\ wire' = [wire EXCEPT ![e] = Append(wire[e], v)]
        /\ wire \in [Edges -> Seq(Nat)]
    BY <1>8 DEF Fetch, QueuesType
  <2> HIDE DEF v
  <2>5. /\ wire'[e] = Append(wire[e], i)
        /\ \A d \in Edges : d # e => wire'[d] = wire[d]
    BY <2>3, <2>4
  <2>6. Numbered(wire'[e])
    <3>1. wire[e] \in Seq(Nat) /\ i \in Nat
      BY QueueFacts
    <3>2. \A j \in 1..Len(wire[e]) : wire[e][j] = j
      BY DEF NumberInv, Numbered
    <3> QED
      BY <2>5, <3>1, <3>2, AppendNumbered
  <2>7. NumberInv'
    <3>1. ASSUME NEW d \in Edges
          PROVE  Numbered(sent'[d]) /\ Numbered(rcvd'[d]) /\ Numbered(wire'[d])
      BY <2>4, <2>5, <2>6 DEF NumberInv
    <3> QED
      BY <3>1 DEF NumberInv, Numbered
  <2>8. PartInv'
    BY <2>4 DEF PartInv, Participates
  <2>9. PostedInv' /\ OrderInv'
    BY <2>4, PostedFrame, OrderFrame DEF QueuesKept, Monotone, Packed, Ended, Begun
  <2>10. BufferInv' /\ PrimaryInv' /\ ReturnInv'
    BY <2>4, BufferFrame, PrimaryFrame, ReturnFrame DEF Holding, Returned, Ended
  <2> QED
    BY <2>7, <2>8, <2>9, <2>10
<1>9. ASSUME NEW e \in Edges, Deliver(e) PROVE OInv'
  <2> DEFINE i == arrived[e] + 1
             r == e[2]
             p == e[1]
             c == slot[r][i]
  <2>1. i \in (arrived[e] + 1)..Len(rcvd[e]) /\ i \in 1..Len(rcvd[e]) /\ i \in 1..Len(wire[e])
    <3>1. arrived[e] \in Nat /\ Len(rcvd[e]) \in Nat /\ Len(wire[e]) \in Nat
      BY QueueFacts
    <3>2. i <= Len(rcvd[e]) /\ i <= Len(wire[e])
      BY <1>9 DEF Deliver
    <3> QED
      BY <3>1, <3>2
  <2>2. /\ r \in Ranks /\ p \in Sources(r) /\ e = <<p, r>>
        /\ rcvd[e][i] = i /\ wire[e][i] = i /\ i \in Calls /\ Holding(r, i)
    <3>1. rcvd[e][i] = i /\ wire[e][i] = i
      BY <2>1 DEF NumberInv, Numbered
    <3>2. rcvd[e][i] \in Calls /\ Holding(e[2], rcvd[e][i])
      BY <2>1, QueueFacts DEF NoReuseInFlight, QuietOf
    <3> QED
      BY <3>1, <3>2, EdgeEnds
  <2>3. /\ UNCHANGED <<pc, slot, free, sent, rcvd, wire, ghosts>>
        /\ contexts' = [contexts EXCEPT ![r][c].recv[p] = i]
        /\ arrived' = [arrived EXCEPT ![e] = i] /\ arrived \in [Edges -> Nat]
    BY <1>9, <2>2 DEF Deliver, QueuesType
  <2>4. c \in 1..Len(contexts[r]) /\ i \in Nat
    BY <2>2, OwnSlots DEF Calls
  <2>5. arrived'[e] = i /\ \A d \in Edges : d # e => arrived'[d] = arrived[d]
    BY <2>3
  <2> HIDE DEF r, p, c
  <2>6. /\ contexts'[r][c].recv[p] = i
        /\ \A q \in Ranks : \A j \in 1..Len(contexts[q]) :
              /\ contexts'[q][j].send = contexts[q][j].send
              /\ contexts'[q][j].ghost = contexts[q][j].ghost
              /\ \A d \in Sources(q) : q # r \/ j # c \/ d # p =>
                   contexts'[q][j].recv[d] = contexts[q][j].recv[d]
        /\ SameSizes
    <3> HIDE DEF i
    <3>1. /\ ContextsType /\ r \in Ranks /\ c \in 1..Len(contexts[r])
          /\ p \in Sources(r) /\ i \in Nat
          /\ contexts' = [contexts EXCEPT ![r][c].recv[p] = i]
      BY <2>2, <2>3, <2>4
    <3>2. SameSizes
      BY <3>1, BufferStep
    <3>3. FillRecv(r, c, p, i)
      BY <3>1 DEF FillRecv
    <3>4. /\ contexts'[r][c].recv[p] = i
          /\ \A q \in Ranks : \A j \in 1..Len(contexts[q]) :
               /\ contexts'[q][j].send = contexts[q][j].send
               /\ contexts'[q][j].ghost = contexts[q][j].ghost
               /\ \A d \in Sources(q) : q # r \/ j # c \/ d # p =>
                    contexts'[q][j].recv[d] = contexts[q][j].recv[d]
      BY <3>1, <3>3, FilledRecv
    <3> QED
      BY <3>2, <3>4
  <2>7. BufferInv'
    <3>1. ASSUME NEW q \in Ranks, NEW j \in Calls PROVE SendFilled(q, j)'
      <4>1. pc[q][j] \in {"send", "unpacked"} =>
              contexts'[q][slot[q][j]].send = contexts[q][slot[q][j]].send
        BY <2>6, OwnSlots DEF Holding
      <4> QED
        BY <2>3, <4>1 DEF BufferInv, SendFilled
    <3>2. ASSUME NEW q \in Ranks, NEW j \in Calls, Holding(q, j)', NEW d \in Sources(q),
                 j <= arrived'[<<d, q>>]
          PROVE  contexts'[q][slot'[q][j]].recv[d] = j
      <4>1. Holding(q, j) /\ slot'[q][j] = slot[q][j] /\ <<d, q>> \in Edges
        BY <2>3, <3>2, EdgeOf DEF Holding
      <4>2. slot[q][j] \in 1..Len(contexts[q])
        BY <4>1, OwnSlots
      <4>3. CASE q = r /\ d = p /\ j = i
        BY <2>6, <4>1, <4>3 DEF c
      <4>4. CASE q = r /\ d = p /\ j # i
        <5>1. slot[q][j] # c
          BY <2>2, <4>1, <4>4, OwnSlots DEF c
        <5>2. j <= arrived[<<d, q>>]
          BY <2>2, <2>5, <3>2, <4>4, QueueFacts DEF Calls
        <5>3. contexts[q][slot[q][j]].recv[d] = j
          BY <4>1, <5>2 DEF BufferInv, RecvFilled
        <5> QED
          BY <2>6, <4>1, <4>2, <5>1, <5>3
      <4>5. CASE q # r \/ d # p
        <5>1. arrived'[<<d, q>>] = arrived[<<d, q>>]
          BY <2>2, <2>5, <4>1, <4>5
        <5>2. contexts[q][slot[q][j]].recv[d] = j
          BY <3>2, <4>1, <5>1 DEF BufferInv, RecvFilled
        <5> QED
          BY <2>6, <4>1, <4>2, <4>5, <5>2
      <4> QED
        BY <4>3, <4>4, <4>5
    <3> QED
      BY <3>1, <3>2 DEF BufferInv, RecvFilled
  <2>8. PrimaryInv'
    <3>1. Discipline = "sequential" => \A q \in Ranks : contexts'[q][1].ghost = contexts[q][1].ghost
      BY <2>6 DEF PrimaryInv
    <3> QED
      BY <2>3, <2>6, <3>1 DEF PrimaryInv, SameSizes, Values
  <2>9. PartInv' /\ NumberInv'
    BY <2>3, NumberFrame DEF PartInv, Participates
  <2>10. PostedInv' /\ OrderInv'
    BY <2>3, PostedFrame, OrderFrame DEF QueuesKept, Monotone, Packed, Ended, Begun
  <2>11. ReturnInv'
    BY <2>3, ReturnFrame DEF Returned, Ended
  <2> QED
    BY <2>7, <2>8, <2>9, <2>10, <2>11
<1>10. ASSUME NEW r \in Ranks, NEW k \in Calls, Unpack(r, k) PROVE OInv'
  <2>1. /\ pc'[r][k] = "unpacked"
        /\ \A q \in Ranks, j \in Calls : q # r \/ j # k => pc'[q][j] = pc[q][j]
    BY <1>10, PhaseStep DEF Unpack, Phase, Phases
  <2> DEFINE c == slot[r][k]
             v == contexts[r][c].recv
  <2>2. /\ pc[r][k] = "send" /\ Posted(r, k) /\ Holding(r, k)
        /\ \A p \in Sources(r) : RecvDone(r, k, p)
        /\ contexts' = [contexts EXCEPT ![r][c].ghost = v]
        /\ ghosts' = IF Caller = "DistCsrOp" THEN [ghosts EXCEPT ![r][k] = v] ELSE ghosts
        /\ UNCHANGED <<slot, free, sent, rcvd, wire, arrived>>
    BY <1>10 DEF Unpack, Holding
  <2>3. c \in 1..Len(contexts[r]) /\ contexts[r][c] \in Context(r)
    BY <2>2, OwnSlots DEF ContextsType
  <2>4. v = Values(r, k) /\ v \in [Sources(r) -> Nat]
    <3>1. v \in [Sources(r) -> Nat]
      BY <2>3 DEF Context
    <3>2. ASSUME NEW p \in Sources(r) PROVE v[p] = k
      BY <2>2, <3>2, WaitedCall DEF BufferInv, RecvFilled
    <3> HIDE DEF v
    <3> QED
      BY <3>1, <3>2 DEF Values
  <2> HIDE DEF c, v
  <2>5. /\ contexts'[r][c].ghost = v
        /\ \A q \in Ranks : \A j \in 1..Len(contexts[q]) :
              /\ contexts'[q][j].recv = contexts[q][j].recv
              /\ contexts'[q][j].send = contexts[q][j].send
        /\ SameSizes
    <3>1. ContextsType /\ contexts' = [contexts EXCEPT ![r][c].ghost = v]
      BY <2>2
    <3>2. SameSizes
      BY <2>3, <2>4, <3>1, BufferStep
    <3>3. FillGhost(r, c, v) /\ ContextsType /\ r \in Ranks
      BY <3>1 DEF FillGhost
    <3>4. /\ contexts'[r][c].ghost = v
          /\ \A q \in Ranks : \A j \in 1..Len(contexts[q]) :
               /\ contexts'[q][j].recv = contexts[q][j].recv
               /\ contexts'[q][j].send = contexts[q][j].send
      BY <2>3, <2>4, <3>3, FilledGhost
    <3> QED
      BY <3>2, <3>4
  <2>6. PartInv' /\ NumberInv'
    BY <2>1, <2>2, NumberFrame DEF PartInv, Participates
  <2>7. PostedInv'
    <3>1. Participates(r) => \A q \in Targets(r) : InSeq(k, sent[<<r, q>>])
      BY <2>2 DEF Posted
    <3> QED
      BY <2>1, <2>2, <3>1, PostedFrame DEF QueuesKept, Packed, Ended
  <2>8. OrderInv'
    BY <2>1, <2>2, OrderFrame DEF QueuesKept, Monotone, Packed, Begun
  <2>9. BufferInv'
    <3>1. ASSUME NEW q \in Ranks, NEW j \in Calls PROVE SendFilled(q, j)' /\ RecvFilled(q, j)'
      <4>1. Holding(q, j) => /\ contexts'[q][slot[q][j]].send = contexts[q][slot[q][j]].send
                             /\ contexts'[q][slot[q][j]].recv = contexts[q][slot[q][j]].recv
        BY <2>5, OwnSlots
      <4>2. CASE q = r /\ j = k
        <5>1. SendFilled(r, k) /\ RecvFilled(r, k)
          BY DEF BufferInv
        <5>2. SendFilled(r, k)'
          BY <2>2, <4>1, <4>2, <5>1 DEF SendFilled
        <5>3. RecvFilled(r, k)'
          BY <2>2, <4>1, <4>2, <5>1 DEF RecvFilled
        <5> QED
          BY <4>2, <5>2, <5>3
      <4>3. CASE ~(q = r /\ j = k)
        <5>1. pc'[q][j] = pc[q][j] /\ slot'[q][j] = slot[q][j]
          BY <2>1, <2>2, <4>3
        <5> QED
          BY <2>2, <4>1, <5>1, BufferKept
      <4> QED
        BY <4>2, <4>3
    <3> QED
      BY <3>1 DEF BufferInv
  <2>10. PrimaryInv'
    <3>1. SUFFICES ASSUME Discipline = "sequential",
                          NEW q \in Ranks
                   PROVE  /\ Len(contexts'[q]) = 1
                          /\ \A j \in Calls :
                               /\ pc'[q][j] # "grow"
                               /\ pc'[q][j] \in {"unpacked", "released"} =>
                                    contexts'[q][1].ghost = Values(q, j)
      BY DEF PrimaryInv, Values
    <3>2. Len(contexts[q]) = 1 /\ Len(contexts'[q]) = 1
      BY <2>5, <3>1 DEF PrimaryInv, SameSizes
    <3>3. \A j \in Calls : pc'[q][j] # "grow"
      BY <2>1, <3>1 DEF PrimaryInv
    <3>4. CASE q = r
      <4>1. \A j \in Calls : j # k => pc[r][j] \in {"new", "done"}
        BY <2>2, <3>1, OneHolder
      <4>2. \A j \in Calls : j # k => pc'[r][j] \notin {"unpacked", "released"}
        BY <2>1, <4>1
      <4>3. contexts'[r][1].ghost = Values(r, k)
        BY <2>3, <2>4, <2>5, <3>2, <3>4
      <4> QED
        BY <3>2, <3>3, <3>4, <4>2, <4>3
    <3>5. CASE q # r
      <4>1. contexts'[q] = contexts[q]
        BY <2>2, <3>5 DEF ContextsType
      <4>2. \A j \in Calls : pc'[q][j] = pc[q][j]
        BY <2>1, <3>5
      <4> QED
        BY <3>1, <4>1, <4>2 DEF PrimaryInv
    <3> QED
      BY <3>4, <3>5
  <2>11. ReturnInv'
    <3>1. ASSUME NEW q \in Ranks, NEW j \in Calls, q # r \/ j # k
          PROVE  /\ ghosts'[q][j] = ghosts[q][j]
                 /\ Returned(q, j)' <=> Returned(q, j)
      BY <2>1, <2>2, <3>1 DEF Returned, Ended, GhostsType
    <3>2. ghosts'[r][k] = IF Returned(r, k)' THEN Values(r, k) ELSE Nothing
      <4>1. CASE Caller = "DistCsrOp"
        <5>1. ghosts'[r][k] = v
          BY <2>2, <4>1 DEF GhostsType
        <5> QED
          BY <2>1, <2>4, <4>1, <5>1 DEF Returned, Ended
      <4>2. CASE Caller # "DistCsrOp"
        BY <2>1, <2>2, <4>2 DEF Returned, Ended, ReturnInv
      <4> QED
        BY <4>1, <4>2
    <3>3. ASSUME NEW q \in Ranks, NEW j \in Calls
          PROVE  ghosts'[q][j] = IF Returned(q, j)' THEN Values(q, j) ELSE Nothing
      BY <3>1, <3>2 DEF ReturnInv
    <3> QED
      BY <3>3 DEF ReturnInv, Values, Nothing
  <2> QED
    BY <2>6, <2>7, <2>8, <2>9, <2>10, <2>11
<1>11. ASSUME NEW r \in Ranks, NEW k \in Calls, Release(r, k) PROVE OInv'
  <2>1. /\ pc'[r][k] = (IF Caller = "DistCsrOp" THEN "done" ELSE "released")
        /\ \A q \in Ranks, j \in Calls : q # r \/ j # k => pc'[q][j] = pc[q][j]
    <3>1. Phase(r, k, IF Caller = "DistCsrOp" THEN "done" ELSE "released")
      BY <1>11 DEF Release, Phase
    <3>2. (IF Caller = "DistCsrOp" THEN "done" ELSE "released") \in Phases
      BY DEF Phases
    <3> QED
      BY <3>1, <3>2, PhaseStep
  <2>2. /\ pc[r][k] = "unpacked"
        /\ UNCHANGED <<slot, contexts, sent, rcvd, wire, arrived, ghosts>>
    BY <1>11 DEF Release
  <2>3. PartInv' /\ NumberInv'
    BY <2>1, <2>2, NumberFrame DEF PartInv, Participates
  <2>4. PostedInv'
    BY <2>1, <2>2, PostedFrame DEF QueuesKept, Packed, Ended
  <2>5. OrderInv'
    BY <2>1, <2>2, OrderFrame DEF QueuesKept, Monotone, Packed, Begun
  <2>6. BufferInv'
    BY <2>1, <2>2, BufferFrame DEF Holding
  <2>7. PrimaryInv'
    <3>1. ASSUME NEW q \in Ranks, NEW j \in Calls
          PROVE  /\ pc'[q][j] = "grow" => pc[q][j] = "grow"
                 /\ pc'[q][j] \in {"unpacked", "released"} => pc[q][j] \in {"unpacked", "released"}
      BY <2>1, <2>2
    <3> QED
      BY <2>2, <3>1 DEF PrimaryInv, Values
  <2>8. ReturnInv'
    <3>1. ASSUME NEW q \in Ranks, NEW j \in Calls PROVE Returned(q, j)' <=> Returned(q, j)
      BY <2>1, <2>2 DEF Returned, Ended
    <3> QED
      BY <2>2, <3>1, ReturnFrame
  <2> QED
    BY <2>3, <2>4, <2>5, <2>6, <2>7, <2>8
<1>12. ASSUME NEW r \in Ranks, NEW k \in Calls, ReadPrimary(r, k) PROVE OInv'
  <2>1. /\ pc'[r][k] = "done"
        /\ \A q \in Ranks, j \in Calls : q # r \/ j # k => pc'[q][j] = pc[q][j]
    BY <1>12, PhaseStep DEF ReadPrimary, Phase, Phases
  <2>2. /\ pc[r][k] = "released"
        /\ ghosts' = [ghosts EXCEPT ![r][k] = contexts[r][1].ghost]
        /\ UNCHANGED <<slot, contexts, free, sent, rcvd, wire, arrived>>
    BY <1>12 DEF ReadPrimary
  <2>3. PartInv' /\ NumberInv'
    BY <2>1, <2>2, NumberFrame DEF PartInv, Participates
  <2>4. PostedInv'
    BY <2>1, <2>2, PostedFrame DEF QueuesKept, Packed, Ended
  <2>5. OrderInv'
    BY <2>1, <2>2, OrderFrame DEF QueuesKept, Monotone, Packed, Begun
  <2>6. BufferInv' /\ PrimaryInv'
    BY <2>1, <2>2, BufferFrame, PrimaryFrame DEF Holding
  <2>7. ReturnInv'
    <3>1. Discipline = "sequential"
      BY <2>2 DEF PartInv, OneThread
    <3>2. ghosts'[r][k] = Values(r, k)
      BY <2>2, <3>1 DEF PrimaryInv, GhostsType
    <3>3. ASSUME NEW q \in Ranks, NEW j \in Calls, q # r \/ j # k
          PROVE  /\ ghosts'[q][j] = ghosts[q][j]
                 /\ Returned(q, j)' <=> Returned(q, j)
      BY <2>1, <2>2, <3>3 DEF Returned, Ended, GhostsType
    <3>4. ASSUME NEW q \in Ranks, NEW j \in Calls
          PROVE  ghosts'[q][j] = IF Returned(q, j)' THEN Values(q, j) ELSE Nothing
      BY <2>1, <3>2, <3>3 DEF ReturnInv, Returned
    <3> QED
      BY <3>4 DEF ReturnInv, Values, Nothing
  <2> QED
    BY <2>3, <2>4, <2>5, <2>6, <2>7
<1>13. CASE UNCHANGED vars
  <2>1. UNCHANGED <<pc, slot, contexts, free, sent, rcvd, wire, arrived, ghosts>>
    BY <1>13 DEF vars
  <2>2. PartInv' /\ NumberInv'
    BY <2>1, NumberFrame DEF PartInv, Participates
  <2>3. PostedInv' /\ OrderInv'
    BY <2>1, PostedFrame, OrderFrame DEF QueuesKept, Monotone, Packed, Ended, Begun
  <2>4. BufferInv' /\ PrimaryInv' /\ ReturnInv'
    BY <2>1, BufferFrame, PrimaryFrame, ReturnFrame DEF Holding, Returned, Ended
  <2> QED
    BY <2>2, <2>3, <2>4
<1> QED
  BY <1>1, <1>2, <1>3, <1>4, <1>5, <1>6, <1>7, <1>8, <1>9, <1>10, <1>11, <1>12, <1>13 DEF Next, Step

(* A message is written to a receive buffer after it was read from a send  *)
(* buffer.                                                                 *)
WireInv == \A e \in Edges : arrived[e] <= Len(wire[e])

LEMMA StepWireInv == TypeOK /\ WireInv /\ [Next]_vars => WireInv'
<1> SUFFICES ASSUME TypeOK, WireInv, [Next]_vars PROVE WireInv'
  OBVIOUS
<1>1. CASE UNCHANGED <<wire, arrived>>
  BY <1>1 DEF WireInv
<1>2. ASSUME NEW e \in Edges, Fetch(e) PROVE WireInv'
  <2>1. /\ arrived' = arrived
        /\ \A d \in Edges : d # e => wire'[d] = wire[d]
        /\ \E v : wire'[e] = Append(wire[e], v)
    BY <1>2 DEF Fetch, TypeOK, QueuesType
  <2>2. /\ \A d \in Edges : arrived[d] \in Nat /\ Len(wire[d]) \in Nat /\ wire[d] \in Seq(Nat)
        /\ wire'[e] # wire[e] => Len(wire'[e]) = Len(wire[e]) + 1
    BY <2>1, QueueFacts DEF TypeOK
  <2> QED
    BY <2>1, <2>2 DEF WireInv
<1>3. ASSUME NEW e \in Edges, Deliver(e) PROVE WireInv'
  BY <1>3 DEF Deliver, TypeOK, QueuesType, WireInv
<1>4. ASSUME NEW r \in Ranks, NEW k \in Calls, Step(r, k) PROVE UNCHANGED <<wire, arrived>>
  BY <1>4 DEF Step, Skip, CheckoutFree, CheckoutMiss, Grow, PostRecv, Pack, PostSend,
             Unpack, Release, ReadPrimary
<1> QED
  BY <1>1, <1>2, <1>3, <1>4 DEF Next, vars

(* A call that gave its context back had received everything.              *)
ReleasedInv ==
  \A r \in Ranks, k \in Calls :
    pc[r][k] = "released" => \A p \in Sources(r) : k <= arrived[<<p, r>>]

LEMMA StepReleasedInv == IInv /\ OInv /\ ReleasedInv /\ [Next]_vars => ReleasedInv'
<1> SUFFICES ASSUME IInv, OInv, ReleasedInv, [Next]_vars PROVE ReleasedInv'
  OBVIOUS
<1> USE DEF IInv, TypeOK
<1>1. ASSUME NEW r \in Ranks, NEW k \in Calls, Release(r, k) PROVE ReleasedInv'
  <2>1. pc[r][k] = "unpacked" /\ arrived' = arrived
    BY <1>1 DEF Release
  <2>2. \A q \in Ranks, j \in Calls : q # r \/ j # k => pc'[q][j] = pc[q][j]
    BY <1>1 DEF Release, PcType
  <2>3. \A p \in Sources(r) : k <= arrived[<<p, r>>]
    BY <2>1, WaitedCall DEF WaitedInv, OInv
  <2> QED
    BY <2>1, <2>2, <2>3 DEF ReleasedInv
<1>2. ASSUME NEW e \in Edges, Deliver(e) PROVE ReleasedInv'
  <2>1. /\ pc' = pc /\ arrived[e] \in Nat /\ arrived'[e] = arrived[e] + 1
        /\ \A d \in Edges : d # e => arrived'[d] = arrived[d]
    BY <1>2 DEF Deliver, QueuesType
  <2>2. ASSUME NEW r \in Ranks, NEW k \in Calls, pc[r][k] = "released", NEW p \in Sources(r)
        PROVE  k <= arrived'[<<p, r>>]
    <3>1. <<p, r>> \in Edges /\ k <= arrived[<<p, r>>] /\ k \in Nat
      BY <2>2, EdgeOf DEF ReleasedInv, Calls
    <3> QED
      BY <2>1, <3>1
  <2> QED
    BY <2>1, <2>2 DEF ReleasedInv
<1>3. ASSUME NEW r \in Ranks, NEW k \in Calls, NEW ph \in Phases \ {"released"},
             Phase(r, k, ph), arrived' = arrived
      PROVE  ReleasedInv'
  <2>1. /\ pc'[r][k] # "released"
        /\ \A q \in Ranks, j \in Calls : q # r \/ j # k => pc'[q][j] = pc[q][j]
    BY <1>3, PhaseStep
  <2>2. \A q \in Ranks, j \in Calls : pc'[q][j] = "released" => pc[q][j] = "released"
    BY <2>1
  <2> QED
    BY <1>3, <2>2 DEF ReleasedInv
<1>4. ASSUME pc' = pc, arrived' = arrived PROVE ReleasedInv'
  BY <1>4 DEF ReleasedInv
<1>5. ASSUME NEW r \in Ranks, NEW k \in Calls, Step(r, k) PROVE ReleasedInv'
  <2>1. /\ "done" \in Phases \ {"released"} /\ "post" \in Phases \ {"released"}
        /\ "grow" \in Phases \ {"released"} /\ "send" \in Phases \ {"released"}
        /\ "unpacked" \in Phases \ {"released"}
    BY DEF Phases
  <2>2. CASE Skip(r, k) \/ ReadPrimary(r, k)
    BY <1>3, <2>1, <2>2 DEF Skip, ReadPrimary, Phase
  <2>3. CASE CheckoutFree(r, k) \/ CheckoutMiss(r, k) \/ Grow(r, k)
    BY <1>3, <2>1, <2>3 DEF CheckoutFree, CheckoutMiss, Grow, Phase
  <2>4. CASE Pack(r, k) \/ Unpack(r, k)
    BY <1>3, <2>1, <2>4 DEF Pack, Unpack, Phase
  <2>5. CASE \/ \E p \in Sources(r) : PostRecv(r, k, p)
             \/ \E q \in Targets(r) : PostSend(r, k, q)
    BY <1>4, <2>5 DEF PostRecv, PostSend
  <2> QED
    BY <1>1, <1>5, <2>2, <2>3, <2>4, <2>5 DEF Step
<1>6. ASSUME NEW e \in Edges, Fetch(e) PROVE ReleasedInv'
  BY <1>4, <1>6 DEF Fetch
<1> QED
  BY <1>2, <1>4, <1>5, <1>6 DEF Next, vars

GhostsFun == ghosts = [r \in Ranks |-> ghosts[r]]

LEMMA StepGhostsFun == TypeOK /\ GhostsFun /\ [Next]_vars => GhostsFun'
<1> SUFFICES ASSUME TypeOK, GhostsFun, [Next]_vars PROVE GhostsFun'
  OBVIOUS
<1>1. CASE ghosts' = ghosts
  BY <1>1 DEF GhostsFun
<1>2. CASE \E r \in Ranks, k \in Calls : \E v : ghosts' = [ghosts EXCEPT ![r][k] = v]
  BY <1>2 DEF TypeOK, GhostsType, GhostsFun
<1>3. ASSUME NEW r \in Ranks, NEW k \in Calls, Unpack(r, k) PROVE GhostsFun'
  BY <1>1, <1>2, <1>3 DEF Unpack
<1>4. ASSUME NEW r \in Ranks, NEW k \in Calls, ReadPrimary(r, k) PROVE GhostsFun'
  BY <1>2, <1>4 DEF ReadPrimary
<1>5. ASSUME NEW e \in Edges, Fetch(e) \/ Deliver(e) PROVE ghosts' = ghosts
  BY <1>5 DEF Fetch, Deliver
<1>6. ASSUME NEW r \in Ranks, NEW k \in Calls, Step(r, k), ~Unpack(r, k), ~ReadPrimary(r, k)
      PROVE  ghosts' = ghosts
  BY <1>6 DEF Step, Skip, CheckoutFree, CheckoutMiss, Grow, PostRecv, Pack, PostSend, Release
<1> QED
  BY <1>1, <1>3, <1>4, <1>5, <1>6 DEF Next, vars

-----------------------------------------------------------------------------
(* What a step of the exchange is in the abstract specification.           *)
Published(r, k) == Packed(r, k) /\ Participates(r)

LEMMA PublishedFacts ==
  /\ DOMAIN PublishedCalls = Ranks
  /\ \A r \in Ranks, k \in Calls : k \in PublishedCalls[r] <=> Published(r, k)
  /\ \A r \in Ranks : PublishedCalls[r] \subseteq Calls
BY DEF PublishedCalls, Published, Packed

LEMMA SamePublished ==
  ASSUME \A r \in Ranks, k \in Calls : Participates(r) => (Packed(r, k)' <=> Packed(r, k))
  PROVE  PublishedCalls' = PublishedCalls
<1>1. \A r \in Ranks :
        {k \in Calls : pc'[r][k] \in {"send", "unpacked", "released", "done"} /\ Participates(r)}
        = {k \in Calls : pc[r][k] \in {"send", "unpacked", "released", "done"} /\ Participates(r)}
  BY DEF Packed
<1> QED
  BY <1>1 DEF PublishedCalls, Participates

LEMMA OnePublished ==
  ASSUME NEW r \in Ranks, NEW k \in Calls, Participates(r), Packed(r, k)',
         \A q \in Ranks, j \in Calls : q # r \/ j # k => (Packed(q, j)' <=> Packed(q, j))
  PROVE  PublishedCalls' = [PublishedCalls EXCEPT ![r] = @ \cup {k}]
<1> DEFINE P(q)  == {j \in Calls : /\ pc[q][j] \in {"send", "unpacked", "released", "done"}
                                   /\ Participates(q)}
           PP(q) == {j \in Calls : /\ pc'[q][j] \in {"send", "unpacked", "released", "done"}
                                   /\ Participates(q)}
<1>1. PP(r) = P(r) \cup {k}
  BY DEF Packed
<1>2. \A q \in Ranks : q # r => PP(q) = P(q)
  BY DEF Packed
<1>3. PublishedCalls = [q \in Ranks |-> P(q)] /\ PublishedCalls' = [q \in Ranks |-> PP(q)]
  BY DEF PublishedCalls, Participates
<1> HIDE DEF P, PP
<1> QED
  BY <1>1, <1>2, <1>3

LEMMA StutterStep ==
  ASSUME ghosts' = ghosts,
         \A r \in Ranks, k \in Calls : Participates(r) => (Packed(r, k)' <=> Packed(r, k))
  PROVE  UNCHANGED <<PublishedCalls, ghosts>>
BY SamePublished

(* A call that returns its ghosts finds all its sources published.         *)
LEMMA ReturnStep ==
  ASSUME IInv, OInv, WireInv, NEW r \in Ranks, NEW k \in Calls, Published(r, k),
         ~Returned(r, k), \A p \in Sources(r) : k <= arrived[<<p, r>>],
         Sources(r) # {},
         ghosts' = [ghosts EXCEPT ![r][k] = Values(r, k)],
         PublishedCalls' = PublishedCalls
  PROVE  Promise!Next
<1>1. k \in PublishedCalls[r] /\ ghosts[r][k] = Nothing
  BY PublishedFacts DEF OInv, ReturnInv
<1>2. ASSUME NEW p \in Sources(r) PROVE k \in PublishedCalls[p]
  <2> DEFINE e == <<p, r>>
  <2>1. e \in Edges /\ p \in Ranks /\ e[1] = p
    BY EdgeOf
  <2> HIDE DEF e
  <2>2. arrived[e] <= Len(wire[e]) /\ Len(wire[e]) <= Len(sent[e]) /\ k <= arrived[e]
    BY <2>1 DEF WireInv, IInv, QueuesInv, QueuesOf, e
  <2>3. k \in 1..Len(sent[e])
    BY <2>1, <2>2, QueueFacts DEF IInv, TypeOK, Calls
  <2>4. sent[e][k] = k
    BY <2>1, <2>3 DEF OInv, NumberInv, Numbered
  <2>5. Published(p, k)
    BY <2>1, <2>3, <2>4 DEF IInv, QueuesInv, QueuesOf, OInv, PartInv, Published
  <2> QED
    BY <2>1, <2>5, PublishedFacts
<1>3. Promise!Return(r, k)
  BY <1>1, <1>2 DEF Promise!Return, Promise!Sources, Promise!Nothing, Sources, Nothing, Values
<1> QED
  BY <1>3 DEF Promise!Next, Promise!Calls, Calls

LEMMA StepPromise ==
  OneThread /\ IInv /\ OInv /\ WireInv /\ ReleasedInv /\ GhostsFun /\ [Next]_vars
    => [Promise!Next]_<<PublishedCalls, ghosts>>
<1> SUFFICES ASSUME OneThread, IInv, OInv, WireInv, ReleasedInv, GhostsFun, [Next]_vars
             PROVE  Promise!Next \/ UNCHANGED <<PublishedCalls, ghosts>>
  OBVIOUS
<1> USE DEF IInv, TypeOK
<1>1. ASSUME NEW r \in Ranks, NEW k \in Calls, Skip(r, k)
      PROVE  UNCHANGED <<PublishedCalls, ghosts>>
  <2>1. pc' = [pc EXCEPT ![r][k] = "done"] /\ ~Participates(r) /\ ghosts' = ghosts
    BY <1>1 DEF Skip
  <2> QED
    BY <2>1, StutterStep DEF Packed, PcType
<1>2. ASSUME NEW r \in Ranks, NEW k \in Calls,
             CheckoutFree(r, k) \/ CheckoutMiss(r, k) \/ Grow(r, k)
      PROVE  UNCHANGED <<PublishedCalls, ghosts>>
  <2>1. /\ pc[r][k] \in {"new", "grow"} /\ ghosts' = ghosts
        /\ pc' = [pc EXCEPT ![r][k] = "post"] \/ pc' = [pc EXCEPT ![r][k] = "grow"]
    BY <1>2 DEF CheckoutFree, CheckoutMiss, Grow
  <2> QED
    BY <2>1, StutterStep DEF Packed, PcType
<1>3. ASSUME NEW r \in Ranks, NEW k \in Calls, Pack(r, k) PROVE Promise!Next
  <2>1. /\ pc[r][k] = "post" /\ pc' = [pc EXCEPT ![r][k] = "send"] /\ ghosts' = ghosts
    BY <1>3 DEF Pack
  <2>2. /\ pc'[r][k] = "send"
        /\ \A q \in Ranks, j \in Calls : q # r \/ j # k => pc'[q][j] = pc[q][j]
    BY <2>1 DEF PcType
  <2>3. Participates(r)
    BY <2>1 DEF OInv, PartInv
  <2>4. PublishedCalls' = [PublishedCalls EXCEPT ![r] = @ \cup {k}]
    BY <2>2, <2>3, OnePublished DEF Packed
  <2>5. k \notin PublishedCalls[r]
    BY <2>1, PublishedFacts DEF Published, Packed
  <2> QED
    BY <2>1, <2>4, <2>5 DEF Promise!Next, Promise!Publish, Promise!Calls, Calls
<1>4. ASSUME NEW r \in Ranks, NEW k \in Calls, Unpack(r, k)
      PROVE  Promise!Next \/ UNCHANGED <<PublishedCalls, ghosts>>
  <2> DEFINE v == contexts[r][slot[r][k]].recv
  <2>1. /\ pc[r][k] = "send" /\ pc' = [pc EXCEPT ![r][k] = "unpacked"]
        /\ ghosts' = IF Caller = "DistCsrOp" THEN [ghosts EXCEPT ![r][k] = v] ELSE ghosts
        /\ \A p \in Sources(r) : RecvDone(r, k, p)
    BY <1>4 DEF Unpack
  <2>2. Published(r, k) /\ ~Returned(r, k) /\ Holding(r, k)
    BY <2>1 DEF OInv, PartInv, Published, Packed, Returned, Ended, Holding
  <2>3. PublishedCalls' = PublishedCalls
    BY <2>1, SamePublished DEF Packed, PcType
  <2>4. \A p \in Sources(r) : k <= arrived[<<p, r>>]
    BY <2>1, WaitedCall DEF OInv
  <2>5. v = Values(r, k)
    <3>1. slot[r][k] \in 1..Len(contexts[r])
      BY <2>2, OwnSlots
    <3>2. contexts[r][slot[r][k]] \in Context(r)
      BY <3>1 DEF ContextsType
    <3>3. v \in [Sources(r) -> Nat]
      BY <3>2 DEF Context
    <3>4. \A p \in Sources(r) : v[p] = k
      BY <2>2, <2>4 DEF OInv, BufferInv, RecvFilled
    <3> HIDE DEF v
    <3> QED
      BY <3>3, <3>4 DEF Values
  <2> HIDE DEF v
  <2>6. CASE Caller # "DistCsrOp"
    BY <2>1, <2>3, <2>6
  <2>7. CASE Caller = "DistCsrOp" /\ Sources(r) # {}
    BY <2>1, <2>2, <2>3, <2>4, <2>5, <2>7, ReturnStep
  <2>8. CASE Caller = "DistCsrOp" /\ Sources(r) = {}
    <3>1. Values(r, k) = Nothing
      BY <2>8 DEF Values, Nothing
    <3>2. ghosts[r][k] = Nothing
      BY <2>2 DEF OInv, ReturnInv
    <3>3. [ghosts EXCEPT ![r][k] = Nothing] = ghosts
      BY <3>2 DEF GhostsType, GhostsFun
    <3> QED
      BY <2>1, <2>3, <2>5, <2>8, <3>1, <3>3
  <2> QED
    BY <2>6, <2>7, <2>8
<1>5. ASSUME NEW r \in Ranks, NEW k \in Calls, Release(r, k)
      PROVE  UNCHANGED <<PublishedCalls, ghosts>>
  <2>1. /\ pc[r][k] = "unpacked" /\ ghosts' = ghosts
        /\ pc' = [pc EXCEPT ![r][k] = "done"] \/ pc' = [pc EXCEPT ![r][k] = "released"]
    BY <1>5 DEF Release
  <2> QED
    BY <2>1, StutterStep DEF Packed, PcType
<1>6. ASSUME NEW r \in Ranks, NEW k \in Calls, ReadPrimary(r, k)
      PROVE  Promise!Next
  <2>1. /\ pc[r][k] = "released" /\ pc' = [pc EXCEPT ![r][k] = "done"]
        /\ ghosts' = [ghosts EXCEPT ![r][k] = contexts[r][1].ghost]
    BY <1>6 DEF ReadPrimary
  <2>2. /\ Published(r, k) /\ Caller # "DistCsrOp" /\ Discipline = "sequential"
        /\ ~Returned(r, k)
    BY <2>1 DEF OInv, PartInv, OneThread, Published, Packed, Returned
  <2>3. contexts[r][1].ghost = Values(r, k)
    BY <2>1, <2>2 DEF OInv, PrimaryInv
  <2>4. PublishedCalls' = PublishedCalls
    BY <2>1, SamePublished DEF Packed, PcType
  <2>5. \A p \in Sources(r) : k <= arrived[<<p, r>>]
    BY <2>1 DEF ReleasedInv
  <2>6. Sources(r) # {}
    BY <2>2, ConstantsAssumption DEF Published, Participates
  <2> QED
    BY <2>1, <2>2, <2>3, <2>4, <2>5, <2>6, ReturnStep
<1>7. ASSUME NEW r \in Ranks, NEW k \in Calls,
             \/ \E p \in Sources(r) : PostRecv(r, k, p)
             \/ \E q \in Targets(r) : PostSend(r, k, q)
      PROVE  UNCHANGED <<PublishedCalls, ghosts>>
  BY <1>7, StutterStep DEF PostRecv, PostSend, Packed
<1>8. ASSUME NEW e \in Edges, Fetch(e) \/ Deliver(e)
      PROVE  UNCHANGED <<PublishedCalls, ghosts>>
  BY <1>8, StutterStep DEF Fetch, Deliver, Packed
<1>9. CASE UNCHANGED vars
  BY <1>9, StutterStep DEF vars, Packed
<1> QED
  BY <1>1, <1>2, <1>3, <1>4, <1>5, <1>6, <1>7, <1>8, <1>9 DEF Next, Step

-----------------------------------------------------------------------------
(* The invariant of the exchange, with one thread per rank.                *)
KInv == IInv /\ OInv /\ WireInv /\ ReleasedInv /\ GhostsFun

LEMMA InitKInv == Init => KInv
<1> SUFFICES ASSUME Init PROVE WireInv /\ ReleasedInv /\ GhostsFun
  BY InitIInv, InitOInv DEF KInv
<1> QED
  BY DEF Init, WireInv, ReleasedInv, GhostsFun

LEMMA StepKInv == OneThread /\ KInv /\ [Next]_vars => KInv'
BY StepIInv, StepOInv, StepWireInv, StepReleasedInv, StepGhostsFun DEF KInv, IInv

LEMMA InitPromise == Init => Promise!Init
<1> SUFFICES ASSUME Init PROVE Promise!Init
  OBVIOUS
<1>1. \A r \in Ranks, k \in Calls : pc[r][k] = "new"
  BY DEF Init
<1>2. PublishedCalls = [r \in Ranks |-> {}]
  BY <1>1 DEF PublishedCalls
<1>3. ghosts = [r \in Ranks |-> [k \in Calls |-> Nothing]]
  BY DEF Init
<1> QED
  BY <1>2, <1>3 DEF Promise!Init, Promise!Calls, Promise!Nothing, Calls, Nothing

(* post_halo and complete_halo implement the abstract exchange: for all    *)
(* ranks, edges and calls, when every rank posts from one thread, the k-th *)
(* exchange of a reader returns what its sources packed in their k-th.     *)
THEOREM PromiseHolds ==
  ASSUME OneThread
  PROVE  Spec => PromiseKept
<1>1. KInv /\ [Next]_vars => [Promise!Next]_<<PublishedCalls, ghosts>>
  BY StepPromise DEF KInv
<1>2. KInv /\ [Next]_vars => KInv'
  BY StepKInv
<1> QED
  BY <1>1, <1>2, InitKInv, InitPromise, PTL DEF Spec, PromiseKept, Promise!Spec

(* No product and no rank-local preconditioner uses the ghost values of    *)
(* another call, although all exchanges share one tag and a pool of        *)
(* contexts.                                                               *)
THEOREM GhostsNeverMixed ==
  ASSUME OneThread
  PROVE  Spec => []GhostsOfSameCall
<1>1. KInv => GhostsOfSameCall
  <2> SUFFICES ASSUME KInv, NEW r \in Ranks, NEW k \in Calls, NEW p \in DOMAIN ghosts[r][k]
               PROVE  ghosts[r][k][p] = k
    BY DEF GhostsOfSameCall
  <2>1. ghosts[r][k] \in {Values(r, k), Nothing}
    BY DEF KInv, OInv, ReturnInv
  <2> QED
    BY <2>1 DEF Values, Nothing
<1>2. KInv /\ [Next]_vars => KInv'
  BY StepKInv
<1> QED
  BY <1>1, <1>2, InitKInv, PTL DEF Spec
=============================================================================
