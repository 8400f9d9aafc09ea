------------------------- MODULE KspContext_proofs -------------------------
(***************************************************************************)
(* Proofs about KspContext: its types, that its operators live on the      *)
(* communicator it is bound to, that a solver that is run has its          *)
(* workspace, and uses the preconditioner that was chosen, built from the  *)
(* operator in its present state.  They hold for all operators, solvers,   *)
(* preconditioners, communicators and bounds.                              *)
(***************************************************************************)
EXTENDS KspContext, TLAPS

(* What the stages before Completed leave alone.                           *)
Steady(k, d) ==
  /\ d \in Contexts
  /\ d.op = k.op /\ d.bound = k.bound /\ d.type = k.type
  /\ d.solver = k.solver /\ d.prepared = k.prepared
  /\ d.work = k.work /\ d.setup = k.setup

(* How a stage that began with k may end.                                  *)
Outcome(k, e) == e.how \in {"on", "early", "err"} /\ Steady(k, e.k)

(* The types of an operator, and of a preconditioner and its ids.          *)
Operators == [size : Sizes \cup {0}, comm : Comms \cup {"none"}, known : BOOLEAN,
              s : Versions, v : Versions]
Pcs == [there : BOOLEAN, s : Versions, v : Versions]

LEMMA ConstantTypes ==
  /\ NoOp \in Operators /\ NoPc \in Pcs /\ NoIds \in Pcs
  /\ [NoPc EXCEPT !.there = TRUE] \in Pcs /\ 0 \in Versions
<1>1. NoOp \in Operators /\ NoPc \in Pcs /\ NoIds \in Pcs /\ 0 \in Versions
  BY KspAssumption DEF NoOp, Operators, NoPc, NoIds, Pcs, Versions
<1>2. [NoPc EXCEPT !.there = TRUE] \in Pcs
  BY <1>1 DEF Pcs
<1> QED
  BY <1>1, <1>2

LEMMA OperatorTypes ==
  ASSUME NEW k \in Contexts
  PROVE  /\ k.op \in Operators /\ k.pc \in Pcs /\ k.last \in Pcs
         /\ Built(k.op) \in Pcs /\ Ids(k.op) \in Pcs
         /\ k.op.s \in Versions /\ k.op.v \in Versions
         /\ Ids(k.op).v \in Versions /\ k.pc.s \in Versions
         /\ k.spoilt \in BOOLEAN /\ Changed(k) \in BOOLEAN
<1>1. k.op \in Operators /\ k.pc \in Pcs /\ k.last \in Pcs /\ k.spoilt \in BOOLEAN
  BY DEF Contexts, Operators, Pcs
<1>2. Built(k.op) \in Pcs /\ Ids(k.op) \in Pcs
  BY <1>1, KspAssumption DEF Operators, Built, Ids, Pcs, Versions
<1>3. Changed(k) \in BOOLEAN
  BY <1>1 DEF Changed, Operators
<1> QED
  BY <1>1, <1>2, <1>3 DEF Operators, Pcs

LEMMA EndsFields ==
  ASSUME NEW d, NEW h
  PROVE  Ends(d, h).k = d /\ Ends(d, h).how = h
BY DEF Ends

(* Every update that a stage makes is of one of these forms.               *)
LEMMA Updates ==
  ASSUME NEW k \in Contexts
  PROVE  /\ Steady(k, k)
         /\ \A last \in Pcs : Steady(k, [k EXCEPT !.last = last])
         /\ \A pc \in Pcs, last \in Pcs : Steady(k, [k EXCEPT !.pc = pc, !.last = last])
         /\ \A pc \in Pcs, last \in Pcs, i \in 1..Candidates :
           Steady(k, [k EXCEPT !.pc = pc, !.last = last, !.active = i])
         /\ \A i \in 1..Candidates : Steady(k, [k EXCEPT !.active = i])
         /\ \A pc \in Pcs, b \in BOOLEAN : Steady(k, [k EXCEPT !.pc = pc, !.pending = b])
         /\ \A b \in BOOLEAN, c \in BOOLEAN : Steady(k, [k EXCEPT !.pending = b, !.lost = c])
         /\ \A s \in Versions, v \in Versions : Steady(k, [k EXCEPT !.pc.s = s, !.pc.v = v])
         /\ \A v \in Versions, w \in Versions : Steady(k, [k EXCEPT !.pc.v = v, !.last.v = w])
         /\ \A v \in Versions, b \in BOOLEAN : Steady(k, [k EXCEPT !.pc.v = v, !.spoilt = b])
<1>1. Steady(k, k)
  BY DEF Contexts, Steady, Pcs
<1>2. \A last \in Pcs : Steady(k, [k EXCEPT !.last = last])
  BY DEF Contexts, Steady, Pcs
<1>3. \A pc \in Pcs, last \in Pcs : Steady(k, [k EXCEPT !.pc = pc, !.last = last])
  BY ZenonT(60) DEF Contexts, Steady, Pcs
<1>4. \A pc \in Pcs, last \in Pcs, i \in 1..Candidates :
       Steady(k, [k EXCEPT !.pc = pc, !.last = last, !.active = i])
  <2> TAKE pc \in Pcs, last \in Pcs, i \in 1..Candidates
  <2> QED
    BY DEF Contexts, Steady, Pcs
<1>5. \A i \in 1..Candidates : Steady(k, [k EXCEPT !.active = i])
  BY DEF Contexts, Steady, Pcs
<1>6. \A pc \in Pcs, b \in BOOLEAN : Steady(k, [k EXCEPT !.pc = pc, !.pending = b])
  <2> TAKE pc \in Pcs, b \in BOOLEAN
  <2> QED
    BY ZenonT(60) DEF Contexts, Steady, Pcs
<1>7. \A b \in BOOLEAN, c \in BOOLEAN : Steady(k, [k EXCEPT !.pending = b, !.lost = c])
  <2> TAKE b \in BOOLEAN, c \in BOOLEAN
  <2> QED
    BY ZenonT(60) DEF Contexts, Steady, Pcs
<1>8. \A s \in Versions, v \in Versions : Steady(k, [k EXCEPT !.pc.s = s, !.pc.v = v])
  BY ZenonT(60) DEF Contexts, Steady, Pcs
<1>9. \A v \in Versions, w \in Versions : Steady(k, [k EXCEPT !.pc.v = v, !.last.v = w])
  BY ZenonT(60) DEF Contexts, Steady, Pcs
<1>10. \A v \in Versions, b \in BOOLEAN : Steady(k, [k EXCEPT !.pc.v = v, !.spoilt = b])
  <2> TAKE v \in Versions, b \in BOOLEAN
  <2> QED
    BY ZenonT(60) DEF Contexts, Steady, Pcs
<1> QED
  BY <1>1, <1>2, <1>3, <1>4, <1>5, <1>6, <1>7, <1>8, <1>9, <1>10

(* The stages of setup_impl in the order of the code.                      *)
LEMMA ConstructedSteady ==
  ASSUME NEW k \in Contexts, NEW e \in Constructed(k)
  PROVE  Outcome(k, e)
<1> DEFINE c == [k EXCEPT !.pc = [NoPc EXCEPT !.there = TRUE], !.pending = FALSE]
           d == [k EXCEPT !.pending = FALSE, !.lost = TRUE]
<1>1. Steady(k, k) /\ Steady(k, c) /\ Steady(k, d)
  BY ConstantTypes, OperatorTypes, Updates
<1>2. e = Ends(k, "on") \/ e = Ends(c, "on") \/ e = Ends(d, "err")
  BY DEF Constructed
<1> QED
  BY <1>1, <1>2, EndsFields DEF Outcome

LEMMA ChainSteady ==
  ASSUME NEW k \in Contexts, NEW how \in {"on", "early"}, NEW e \in ChainResults(k, how)
  PROVE  Outcome(k, e)
<1> DEFINE c(i) == [k EXCEPT !.pc = Built(k.op), !.last = Ids(k.op), !.active = i]
           d(i) == [k EXCEPT !.active = i]
<1>1. \A i \in k.active..Candidates : i \in 1..Candidates
  BY KspAssumption DEF Contexts
<1>2. PICK i \in k.active..Candidates : e = Ends(c(i), how) \/ e = Ends(d(i), "err")
  BY DEF ChainResults
<1>3. Steady(k, c(i)) /\ Steady(k, d(i))
  BY <1>1, ConstantTypes, OperatorTypes, Updates
<1> HIDE DEF c, d
<1> QED
  BY <1>2, <1>3, EndsFields DEF Outcome

LEMMA OutcomeOf ==
  ASSUME NEW k \in Contexts, NEW d, NEW e, Steady(k, d), Outcome(d, e)
  PROVE  Outcome(k, e)
BY DEF Outcome, Steady

LEMMA ChainedSteady ==
  ASSUME NEW k \in Contexts, NEW e \in Chained(k)
  PROVE  Outcome(k, e)
<1> DEFINE d == [k EXCEPT !.last = NoIds]
<1>1. Steady(k, k) /\ Steady(k, d)
  BY ConstantTypes, OperatorTypes, Updates
<1>2. d \in Contexts
  BY <1>1 DEF Steady
<1>3. e = Ends(k, "on") \/ e = Ends(d, "on") \/ e \in ChainResults(d, "on")
  BY DEF Chained
<1> HIDE DEF d
<1>4. CASE e \in ChainResults(d, "on")
  BY <1>1, <1>2, <1>4, ChainSteady, OutcomeOf
<1> QED
  BY <1>1, <1>3, <1>4, EndsFields DEF Outcome

LEMMA RecoveredSteady ==
  ASSUME NEW k \in Contexts, NEW e \in Recovered(k)
  PROVE  Outcome(k, e)
<1> DEFINE c == [k EXCEPT !.pc = Built(k.op), !.last = Ids(k.op)]
           d == [k EXCEPT !.pc = NoPc, !.last = NoIds]
<1>1. Steady(k, k) /\ Steady(k, c) /\ Steady(k, d)
  BY ConstantTypes, OperatorTypes, Updates
<1>2. d \in Contexts
  BY <1>1 DEF Steady
<1>3. e = Ends(k, "err") \/ e = Ends(c, "early") \/ e \in ChainResults(d, "early")
  BY DEF Recovered
<1> HIDE DEF c, d
<1>4. CASE e \in ChainResults(d, "early")
  BY <1>1, <1>2, <1>4, ChainSteady, OutcomeOf
<1> QED
  BY <1>1, <1>3, <1>4, EndsFields DEF Outcome

LEMMA RebuiltSteady ==
  ASSUME NEW k \in Contexts, NEW e \in Rebuilt(k)
  PROVE  Outcome(k, e)
<1> DEFINE s == IF k.pc.s = k.op.s THEN k.pc.s ELSE 0
           c == [k EXCEPT !.pc = Built(k.op), !.last = Ids(k.op)]
           d == [k EXCEPT !.pc.s = s, !.pc.v = 0]
<1>1. s \in Versions
  BY ConstantTypes, OperatorTypes
<1>2. d = [k EXCEPT !.pc.s = IF @ = k.op.s THEN @ ELSE 0, !.pc.v = 0]
  OBVIOUS
<1> HIDE DEF s
<1>3. Steady(k, c) /\ Steady(k, d)
  BY <1>1, ConstantTypes, OperatorTypes, Updates
<1>4. d \in Contexts
  BY <1>3 DEF Steady
<1>5. e = Ends(c, "on") \/ e \in Recovered(d)
  BY <1>2 DEF Rebuilt
<1> HIDE DEF c, d
<1>6. CASE e \in Recovered(d)
  BY <1>3, <1>4, <1>6, RecoveredSteady, OutcomeOf
<1> QED
  BY <1>3, <1>5, <1>6, EndsFields DEF Outcome

LEMMA RenewedSteady ==
  ASSUME NEW k \in Contexts, NEW e \in Renewed(k)
  PROVE  Outcome(k, e)
<1> DEFINE b == k.spoilt \/ ~Changed(k)
           c == [k EXCEPT !.pc.v = k.op.v, !.last.v = Ids(k.op).v]
           d == [k EXCEPT !.pc.v = 0, !.spoilt = b]
<1>1. b \in BOOLEAN
  BY OperatorTypes
<1>2. d = [k EXCEPT !.pc.v = 0, !.spoilt = @ \/ ~Changed(k)]
  OBVIOUS
<1> HIDE DEF b
<1>3. Steady(k, c) /\ Steady(k, d)
  BY <1>1, ConstantTypes, OperatorTypes, Updates
<1>4. e = Ends(c, "on") \/ e = Ends(d, "err")
  BY <1>2 DEF Renewed
<1> HIDE DEF c, d
<1> QED
  BY <1>3, <1>4, EndsFields DEF Outcome

LEMMA RefreshedSteady ==
  ASSUME NEW k \in Contexts, NEW e \in Refreshed(k)
  PROVE  Outcome(k, e)
<1>1. Steady(k, k)
  BY ConstantTypes, OperatorTypes, Updates
<1>2. e = Ends(k, "on") \/ e = Ends(k, "err") \/ e \in Rebuilt(k) \/ e \in Renewed(k)
  BY DEF Refreshed
<1> QED
  BY <1>1, <1>2, EndsFields, RebuiltSteady, RenewedSteady DEF Outcome

(* However setup_impl ends, the operators, the solver and the communicator *)
(* are those it began with; only a complete setup touches the workspace,   *)
(* the solver's preparation and setup_called.                              *)
LEMMA SetupEnds ==
  ASSUME NEW k \in Contexts, NEW e \in SetupResults(k)
  PROVE  \/ e.how \in {"early", "err"} /\ Steady(k, e.k)
         \/ /\ e.how = "ok" /\ k.op # NoOp
            /\ \E d : Steady(k, d) /\ e.k = Completed(d)
<1>1. CASE k.op = NoOp
  <2>1. Steady(k, k)
    BY ConstantTypes, OperatorTypes, Updates
  <2> QED
    BY <1>1, <2>1, EndsFields DEF SetupResults
<1>2. CASE k.op # NoOp
  <2>1. PICK d \in AndRefreshed(AndChained(Constructed(k))) :
           e = IF d.how = "on" THEN Ends(Completed(d.k), "ok") ELSE d
    BY <1>2 DEF SetupResults
  <2>2. PICK c \in AndChained(Constructed(k)) :
           d \in IF c.how = "on" THEN Refreshed(c.k) ELSE {c}
    BY DEF AndRefreshed
  <2>3. PICK b \in Constructed(k) : c \in IF b.how = "on" THEN Chained(b.k) ELSE {b}
    BY DEF AndChained
  <2>4. Outcome(k, b) /\ b.k \in Contexts
    BY ConstructedSteady DEF Outcome, Steady
  <2>5. Outcome(k, c) /\ c.k \in Contexts
    <3>1. CASE b.how = "on"
      BY <2>3, <2>4, <3>1, ChainedSteady, OutcomeOf DEF Outcome, Steady
    <3>2. CASE b.how # "on"
      BY <2>3, <2>4, <3>2
    <3> QED
      BY <3>1, <3>2
  <2>6. Outcome(k, d)
    <3>1. CASE c.how = "on"
      BY <2>2, <2>5, <3>1, RefreshedSteady, OutcomeOf DEF Outcome
    <3>2. CASE c.how # "on"
      BY <2>2, <2>5, <3>2
    <3> QED
      BY <3>1, <3>2
  <2>7. CASE d.how = "on"
    <3>1. e = Ends(Completed(d.k), "ok")
      BY <2>1, <2>7
    <3>2. e.how = "ok" /\ e.k = Completed(d.k)
      BY <3>1, EndsFields
    <3> QED
      BY <1>2, <2>6, <3>2 DEF Outcome
  <2>8. CASE d.how # "on"
    BY <2>1, <2>6, <2>8 DEF Outcome
  <2> QED
    BY <2>7, <2>8
<1> QED
  BY <1>1, <1>2

------------------------------------------------------------------------------
(* A context that counts as set up has the workspace of its operator, and  *)
(* its solver has been prepared for it.                                    *)
Ready(k) ==
  k.setup => /\ k.work = k.op.size
             /\ k.solver # "none" => k.prepared

(* The operators of a context lie on its communicator.                     *)
Settled(k) == k.op # NoOp => k.op.comm = k.bound /\ k.bound \in Comms

Good(k) == k \in Contexts /\ Settled(k) /\ Ready(k)

(* Inductive: SolverReady speaks of a solve that finds the context set up  *)
(* long ago, so that Ready must hold all along.                            *)
IInv ==
  /\ Good(ksp) /\ version \in Versions
  /\ ran \in BOOLEAN /\ early \in BOOLEAN
  /\ SolverReady

LEMMA InitGood == Init => IInv
<1> SUFFICES ASSUME Init PROVE IInv
  OBVIOUS
<1>1. ksp \in Contexts
  BY ConstantTypes, KspAssumption DEF Init, Contexts, Operators, Pcs, Policies, NoIds, NoPc, Versions
<1>2. Settled(ksp) /\ Ready(ksp)
  BY DEF Init, Settled, Ready
<1>3. version \in Versions /\ ran = FALSE /\ early = FALSE
  BY ConstantTypes DEF Init
<1> QED
  BY <1>1, <1>2, <1>3 DEF IInv, Good, SolverReady

LEMMA BecomesGood ==
  ASSUME NEW k, Good(k), Becomes(k), version' \in Versions
  PROVE  IInv'
<1>1. ksp' = k /\ ran' = FALSE /\ early' = FALSE
  BY DEF Becomes
<1>2. Good(ksp')
  BY <1>1
<1>3. SolverReady'
  BY <1>1 DEF SolverReady
<1> QED
  BY <1>1, <1>2, <1>3 DEF IInv, Good, Settled, Ready

(* What the calls leave alone, whatever they assign to the other fields.   *)
Kept(k, d) == d \in Contexts /\ d.op = k.op /\ d.bound = k.bound

LEMMA FieldUpdates ==
  ASSUME NEW k \in Contexts
  PROVE  /\ \A x \in BOOLEAN : Kept(k, [k EXCEPT !.prepared = x])
         /\ \A x \in BOOLEAN : Kept(k, [k EXCEPT !.pending = x])
         /\ \A x \in BOOLEAN : Kept(k, [k EXCEPT !.lost = x])
         /\ \A x \in BOOLEAN : Kept(k, [k EXCEPT !.setup = x])
         /\ \A x \in BOOLEAN : Kept(k, [k EXCEPT !.edited = x])
         /\ \A x \in BOOLEAN : Kept(k, [k EXCEPT !.blind = x])
         /\ \A x \in Types : Kept(k, [k EXCEPT !.type = x])
         /\ \A x \in Types \cup {"none"} : Kept(k, [k EXCEPT !.solver = x])
         /\ \A x \in PcKinds \cup {"none", "chain"} : Kept(k, [k EXCEPT !.chosen = x])
         /\ \A x \in 1..Candidates : Kept(k, [k EXCEPT !.active = x])
         /\ \A x \in Pcs : Kept(k, [k EXCEPT !.pc = x])
         /\ \A x \in Pcs : Kept(k, [k EXCEPT !.last = x])
<1>1. \A x \in BOOLEAN : Kept(k, [k EXCEPT !.prepared = x])
  BY DEF Kept, Contexts, Pcs
<1>2. \A x \in BOOLEAN : Kept(k, [k EXCEPT !.pending = x])
  BY DEF Kept, Contexts, Pcs
<1>3. \A x \in BOOLEAN : Kept(k, [k EXCEPT !.lost = x])
  BY DEF Kept, Contexts, Pcs
<1>4. \A x \in BOOLEAN : Kept(k, [k EXCEPT !.setup = x])
  BY DEF Kept, Contexts, Pcs
<1>5. \A x \in BOOLEAN : Kept(k, [k EXCEPT !.edited = x])
  BY DEF Kept, Contexts, Pcs
<1>6. \A x \in BOOLEAN : Kept(k, [k EXCEPT !.blind = x])
  BY DEF Kept, Contexts, Pcs
<1>7. \A x \in Types : Kept(k, [k EXCEPT !.type = x])
  BY DEF Kept, Contexts, Pcs
<1>8. \A x \in Types \cup {"none"} : Kept(k, [k EXCEPT !.solver = x])
  BY DEF Kept, Contexts, Pcs
<1>9. \A x \in PcKinds \cup {"none", "chain"} : Kept(k, [k EXCEPT !.chosen = x])
  BY DEF Kept, Contexts, Pcs
<1>10. \A x \in 1..Candidates : Kept(k, [k EXCEPT !.active = x])
  BY DEF Kept, Contexts, Pcs
<1>11. \A x \in Pcs : Kept(k, [k EXCEPT !.pc = x])
  BY DEF Kept, Contexts, Pcs
<1>12. \A x \in Pcs : Kept(k, [k EXCEPT !.last = x])
  BY DEF Kept, Contexts, Pcs
<1> QED
  BY <1>1, <1>2, <1>3, <1>4, <1>5, <1>6, <1>7, <1>8, <1>9, <1>10, <1>11, <1>12

LEMMA KeptTwice ==
  ASSUME NEW k, NEW c, NEW d, Kept(k, c), Kept(c, d)
  PROVE  Kept(k, d)
BY DEF Kept

(* The calls that assign to several fields.                                *)
LEMMA InvalidatePcKept ==
  ASSUME NEW k \in Contexts
  PROVE  Kept(k, InvalidatePc(k))
<1> DEFINE c1 == [k EXCEPT !.setup = FALSE]
           c2 == [c1 EXCEPT !.last = NoIds]
<1>1. Kept(k, c1) /\ c1 \in Contexts
  BY ConstantTypes, FieldUpdates DEF Kept
<1>2. Kept(k, c2) /\ c2 \in Contexts
  <2> HIDE DEF c1
  <2> QED
    BY <1>1, ConstantTypes, FieldUpdates, KeptTwice DEF Kept
<1> QED
  BY <1>2 DEF InvalidatePc

LEMMA SolverKept ==
  ASSUME NEW k \in Contexts, NEW s \in Types \cup {"none"}
  PROVE  Kept(k, [k EXCEPT !.prepared = FALSE, !.solver = s])
<1> DEFINE c1 == [k EXCEPT !.prepared = FALSE]
           c2 == [c1 EXCEPT !.solver = s]
<1>1. Kept(k, c1) /\ c1 \in Contexts
  BY ConstantTypes, FieldUpdates DEF Kept
<1>2. Kept(k, c2) /\ c2 \in Contexts
  <2> HIDE DEF c1
  <2> QED
    BY <1>1, ConstantTypes, FieldUpdates, KeptTwice DEF Kept
<1> QED
  BY <1>2

LEMMA TypeKept ==
  ASSUME NEW k \in Contexts, NEW type \in Types, NEW s \in Types \cup {"none"}
  PROVE  Kept(k, [k EXCEPT !.type = type, !.prepared = FALSE, !.solver = s])
<1> DEFINE c1 == [k EXCEPT !.type = type]
           c2 == [c1 EXCEPT !.prepared = FALSE]
           c3 == [c2 EXCEPT !.solver = s]
<1>1. Kept(k, c1) /\ c1 \in Contexts
  BY ConstantTypes, FieldUpdates DEF Kept
<1>2. Kept(k, c2) /\ c2 \in Contexts
  <2> HIDE DEF c1
  <2> QED
    BY <1>1, ConstantTypes, FieldUpdates, KeptTwice DEF Kept
<1>3. Kept(k, c3) /\ c3 \in Contexts
  <2> HIDE DEF c2
  <2> QED
    BY <1>2, ConstantTypes, FieldUpdates, KeptTwice DEF Kept
<1> QED
  BY <1>3

LEMMA PcKept ==
  ASSUME NEW k \in Contexts, NEW kind \in PcKinds \cup {"none", "chain"},
         NEW one \in 1..Candidates, NEW pc \in Pcs, NEW p \in BOOLEAN
  PROVE  Kept(k, [k EXCEPT !.chosen = kind, !.lost = FALSE, !.active = one,
                            !.pc = pc, !.pending = p])
<1> DEFINE c1 == [k EXCEPT !.chosen = kind]
           c2 == [c1 EXCEPT !.lost = FALSE]
           c3 == [c2 EXCEPT !.active = one]
           c4 == [c3 EXCEPT !.pc = pc]
           c5 == [c4 EXCEPT !.pending = p]
<1>1. Kept(k, c1) /\ c1 \in Contexts
  BY ConstantTypes, FieldUpdates DEF Kept
<1>2. Kept(k, c2) /\ c2 \in Contexts
  <2> HIDE DEF c1
  <2> QED
    BY <1>1, ConstantTypes, FieldUpdates, KeptTwice DEF Kept
<1>3. Kept(k, c3) /\ c3 \in Contexts
  <2> HIDE DEF c2
  <2> QED
    BY <1>2, ConstantTypes, FieldUpdates, KeptTwice DEF Kept
<1>4. Kept(k, c4) /\ c4 \in Contexts
  <2> HIDE DEF c3
  <2> QED
    BY <1>3, ConstantTypes, FieldUpdates, KeptTwice DEF Kept
<1>5. Kept(k, c5) /\ c5 \in Contexts
  <2> HIDE DEF c4
  <2> QED
    BY <1>4, ConstantTypes, FieldUpdates, KeptTwice DEF Kept
<1> QED
  BY <1>5

(* A context that has been given an operator.                              *)
Given(d, o, comm) == d \in Contexts /\ d.op = o /\ d.bound = comm

LEMMA NewOperator ==
  ASSUME NEW k \in Contexts, NEW o \in Operators, NEW comm \in Comms
  PROVE  Given([k EXCEPT !.bound = comm, !.edited = FALSE, !.blind = FALSE, !.op = o], o, comm)
<1> DEFINE c1 == [k EXCEPT !.bound = comm]
           c2 == [c1 EXCEPT !.edited = FALSE]
           c3 == [c2 EXCEPT !.blind = FALSE]
           c4 == [c3 EXCEPT !.op = o]
<1>1. c1 \in Contexts /\ c1.bound = comm
  BY DEF Contexts
<1>2. c2 \in Contexts /\ c2.bound = comm
  <2> HIDE DEF c1
  <2> QED
    BY <1>1, FieldUpdates DEF Kept
<1>3. c3 \in Contexts /\ c3.bound = comm
  <2> HIDE DEF c2
  <2> QED
    BY <1>2, FieldUpdates DEF Kept
<1>4. c4 \in Contexts /\ c4.bound = comm /\ c4.op = o
  <2> HIDE DEF c3
  <2> QED
    BY <1>3 DEF Contexts, Operators
<1> QED
  BY <1>4 DEF Given

(* What an edit of the operator in place leaves alone.                     *)
Edited(k, d) ==
  /\ d \in Contexts /\ d.op.size = k.op.size /\ d.op.comm = k.op.comm
  /\ d.bound = k.bound /\ d.setup = k.setup /\ d.work = k.work
  /\ d.solver = k.solver /\ d.prepared = k.prepared

LEMMA EditedStructure ==
  ASSUME NEW k \in Contexts, NEW n \in Versions, NEW b \in BOOLEAN
  PROVE  Edited(k, [k EXCEPT !.op.s = n, !.edited = TRUE, !.blind = b])
<1> DEFINE c1 == [k EXCEPT !.op.s = n]
           c2 == [c1 EXCEPT !.edited = TRUE]
           c3 == [c2 EXCEPT !.blind = b]
<1>1. Edited(k, c1)
  BY DEF Edited, Contexts
<1>2. Edited(k, c2)
  <2> HIDE DEF c1
  <2> QED
    BY <1>1, ZenonT(60) DEF Edited, Contexts
<1>3. Edited(k, c3)
  <2> HIDE DEF c2
  <2> QED
    BY <1>2 DEF Edited, Contexts
<1> QED
  BY <1>3

LEMMA EditedValues ==
  ASSUME NEW k \in Contexts, NEW n \in Versions
  PROVE  Edited(k, [k EXCEPT !.op.v = n, !.edited = TRUE])
<1> DEFINE c1 == [k EXCEPT !.op.v = n]
           c2 == [c1 EXCEPT !.edited = TRUE]
<1>1. Edited(k, c1)
  BY DEF Edited, Contexts
<1>2. Edited(k, c2)
  <2> HIDE DEF c1
  <2> QED
    BY <1>1, ZenonT(60) DEF Edited, Contexts
<1> QED
  BY <1>2

(* A context that leaves its operators alone and is invalidated.           *)
LEMMA InvalidGood ==
  ASSUME NEW k \in Contexts, Good(ksp), k.op = ksp.op, k.bound = ksp.bound
  PROVE  Good(InvalidateSolver(k)) /\ Good(InvalidatePc(k))
<1> DEFINE c == InvalidateSolver(k)
           d == InvalidatePc(k)
<1>1. NoIds \in Pcs
  BY ConstantTypes
<1>2. c \in Contexts /\ c.op = k.op /\ c.bound = k.bound /\ c.setup = FALSE
  BY DEF Contexts, InvalidateSolver
<1>3. d \in Contexts /\ d.op = k.op /\ d.bound = k.bound /\ d.setup = FALSE
  <2>1. Kept(k, d)
    BY InvalidatePcKept
  <2>2. d.setup = FALSE
    BY DEF InvalidatePc, Contexts
  <2> QED
    BY <2>1, <2>2 DEF Kept
<1> HIDE DEF c, d
<1>4. Good(c) /\ Good(d)
  BY <1>2, <1>3 DEF Good, Settled, Ready
<1> QED
  BY <1>4 DEF c, d

(* Calls that build a solver.                                              *)
LEMMA SolverCalls ==
  ASSUME Good(ksp), version \in Versions,
         \/ \E type \in Types : SetType(type)
         \/ \E bad \in BOOLEAN : StageCgNorm(bad)
         \/ SetTolerances \/ SetRestart
  PROVE  IInv'
<1>1. version' \in Versions
  BY DEF SetType, StageCgNorm, SetTolerances, SetRestart
<1>2. ksp \in Contexts
  BY DEF Good
<1>3. ASSUME NEW type \in Types, SetType(type) PROVE IInv'
  <2> DEFINE c == [ksp EXCEPT !.type = type]
             s == IF type = "preonly" THEN "none" ELSE type
             d == [ksp EXCEPT !.type = type, !.prepared = FALSE, !.solver = s]
  <2>1. Good(c)
    BY <1>2 DEF Contexts, Good, Settled, Ready
  <2>2. Good(InvalidateSolver(d))
    <3>1. s \in Types \cup {"none"}
      OBVIOUS
    <3> HIDE DEF s
    <3>2. d \in Contexts /\ d.op = ksp.op /\ d.bound = ksp.bound
      BY <1>2, <3>1, TypeKept DEF Kept
    <3> HIDE DEF d
    <3> QED
      BY <3>2, InvalidGood
  <2>3. Becomes(c) \/ Becomes(InvalidateSolver(d))
    BY <1>3 DEF SetType
  <2> HIDE DEF c, d
  <2> QED
    BY <1>1, <2>1, <2>2, <2>3, BecomesGood
<1>4. ASSUME NEW bad \in BOOLEAN, StageCgNorm(bad) PROVE IInv'
  <2>1. Good([ksp EXCEPT !.badCg = bad])
    BY <1>2 DEF Contexts, Good, Settled, Ready
  <2> QED
    BY <1>1, <1>4, <2>1, BecomesGood DEF StageCgNorm
<1>5. CASE SetTolerances
  <2> DEFINE s == IF ksp.type = "preonly" THEN "none" ELSE ksp.type
             d == [ksp EXCEPT !.prepared = FALSE, !.solver = s]
  <2>1. Good(InvalidateSolver(ksp))
    BY <1>2, InvalidGood
  <2>2. Good(InvalidateSolver(d))
    <3>1. s \in Types \cup {"none"}
      BY <1>2 DEF Contexts
    <3> HIDE DEF s
    <3>2. d \in Contexts /\ d.op = ksp.op /\ d.bound = ksp.bound
      BY <1>2, <3>1, SolverKept DEF Kept
    <3> HIDE DEF d
    <3> QED
      BY <3>2, InvalidGood
  <2>3. Becomes(InvalidateSolver(ksp)) \/ Becomes(InvalidateSolver(d))
    BY <1>5 DEF SetTolerances
  <2> HIDE DEF d
  <2> QED
    BY <1>1, <2>1, <2>2, <2>3, BecomesGood
<1>6. CASE SetRestart
  <2> DEFINE d == [ksp EXCEPT !.prepared = FALSE]
  <2>1. d \in Contexts /\ d.op = ksp.op /\ d.bound = ksp.bound
    BY <1>2, ZenonT(60) DEF Contexts
  <2>2. Becomes(InvalidateSolver(d))
    BY <1>6 DEF SetRestart
  <2> HIDE DEF d
  <2> QED
    BY <1>1, <2>1, <2>2, InvalidGood, BecomesGood
<1> QED
  BY <1>3, <1>4, <1>5, <1>6

(* Calls that choose a preconditioner.                                     *)
LEMMA PcCalls ==
  ASSUME Good(ksp), version \in Versions,
         \/ \E kind \in PcKinds : SetPcType(kind)
         \/ SetPcChain
         \/ \E policy \in Policies : SetPcReusePolicy(policy)
  PROVE  IInv'
<1>1. version' \in Versions
  BY DEF SetPcType, SetPcChain, SetPcReusePolicy
<1>2. ksp \in Contexts /\ NoIds \in Pcs /\ NoPc \in Pcs /\ 1 \in 1..Candidates
  BY ConstantTypes, KspAssumption DEF Good
<1>3. ASSUME NEW kind \in PcKinds, SetPcType(kind) PROVE IInv'
  <2> DEFINE b == kind \in Deferred
             pc == [NoPc EXCEPT !.there = kind \notin Deferred]
             d == [ksp EXCEPT !.chosen = kind, !.lost = FALSE, !.active = 1, !.pc = pc, !.pending = b]
  <2>1. b \in BOOLEAN
    OBVIOUS
  <2>2. pc \in Pcs
    BY <1>2, <2>1 DEF Pcs
  <2>3. Becomes(InvalidatePc(d))
    BY <1>3 DEF SetPcType
  <2> HIDE DEF b, pc
  <2>4. d \in Contexts /\ d.op = ksp.op /\ d.bound = ksp.bound
    <3>1. Kept(ksp, d)
      BY <1>2, <2>1, <2>2, PcKept
    <3> HIDE DEF d
    <3> QED
      BY <3>1 DEF Kept
  <2> HIDE DEF d
  <2> QED
    BY <1>1, <2>3, <2>4, InvalidGood, BecomesGood
<1>4. CASE SetPcChain
  <2> DEFINE d == [ksp EXCEPT !.chosen = "chain", !.lost = FALSE, !.active = 1,
                               !.pc = NoPc, !.pending = FALSE]
  <2>1. Becomes(InvalidatePc(d))
    BY <1>4 DEF SetPcChain
  <2>2. d \in Contexts /\ d.op = ksp.op /\ d.bound = ksp.bound
    <3>1. Kept(ksp, d)
      BY <1>2, PcKept
    <3> HIDE DEF d
    <3> QED
      BY <3>1 DEF Kept
  <2> HIDE DEF d
  <2> QED
    BY <1>1, <2>1, <2>2, InvalidGood, BecomesGood
<1>5. ASSUME NEW policy \in Policies, SetPcReusePolicy(policy) PROVE IInv'
  <2> DEFINE d == [ksp EXCEPT !.reuse = policy]
  <2>1. d \in Contexts /\ d.op = ksp.op /\ d.bound = ksp.bound
    BY <1>2 DEF Contexts
  <2>2. Becomes(InvalidateSolver(d))
    BY <1>5 DEF SetPcReusePolicy
  <2> HIDE DEF d
  <2> QED
    BY <1>1, <2>1, <2>2, InvalidGood, BecomesGood
<1> QED
  BY <1>3, <1>4, <1>5

LEMMA NextVersion ==
  ASSUME version \in Versions, version < MaxVersion
  PROVE  version + 1 \in Versions
BY KspAssumption DEF Versions

(* Calls that set or edit operators.                                       *)
LEMMA OperatorCalls ==
  ASSUME Good(ksp), version \in Versions,
         \/ \E size \in Sizes, comm \in Comms, known \in BOOLEAN, agree \in BOOLEAN :
              SetOperators(size, comm, known, agree)
         \/ EditStructure \/ EditValues
  PROVE  IInv'
<1>1. ksp \in Contexts /\ NoIds \in Pcs /\ version + 1 \in Versions
  BY ConstantTypes, NextVersion DEF Good, SetOperators, EditStructure, EditValues
<1>2. version' \in Versions
  BY <1>1 DEF SetOperators, EditStructure, EditValues
<1>3. ASSUME NEW size \in Sizes, NEW comm \in Comms, NEW known \in BOOLEAN, NEW agree \in BOOLEAN,
             SetOperators(size, comm, known, agree)
      PROVE  IInv'
  <2> DEFINE o == [size |-> size, comm |-> comm, known |-> known, s |-> version + 1, v |-> version + 1]
             a == IF ksp.bound = "none" THEN comm ELSE ksp.bound
             b == [ksp EXCEPT !.bound = a, !.edited = FALSE, !.blind = FALSE, !.op = o]
             c == InvalidatePc(b)
             d == [ksp EXCEPT !.bound = a]
  <2>1. a = comm
    BY <1>3 DEF SetOperators, Bound
  <2>2. o \in Operators /\ o.comm = comm
    BY <1>1 DEF Operators
  <2>3. Becomes(c) \/ Becomes(d)
    BY <1>3 DEF SetOperators
  <2>4. Good(d)
    <3>1. ksp.op # NoOp => ksp.bound = comm
      BY <1>3, KspAssumption DEF Good, Settled, SetOperators, Bound
    <3>2. d \in Contexts /\ d.op = ksp.op /\ d.bound = comm /\ d.setup = ksp.setup
             /\ d.work = ksp.work /\ d.solver = ksp.solver /\ d.prepared = ksp.prepared
      BY <1>1, <2>1 DEF Contexts
    <3> HIDE DEF d
    <3> QED
      BY <3>1, <3>2 DEF Good, Settled, Ready
  <2>5. Good(c)
    <3> HIDE DEF o, a
    <3>1. b \in Contexts /\ b.op = o /\ b.bound = comm
      <4>1. Given(b, o, comm)
        BY <1>1, <2>1, <2>2, NewOperator
      <4> QED
        BY <4>1 DEF Given
    <3> HIDE DEF b
    <3>2. c \in Contexts /\ c.op = o /\ c.bound = comm
      BY <3>1, InvalidatePcKept DEF Kept
    <3>3. c.setup = FALSE
      BY <3>1 DEF InvalidatePc, Contexts
    <3> HIDE DEF c
    <3> QED
      BY <2>2, <3>2, <3>3 DEF Good, Settled, Ready
  <2> HIDE DEF c, d
  <2> QED
    BY <1>2, <2>3, <2>4, <2>5, BecomesGood
<1>4. CASE EditStructure
  <2> DEFINE b == ksp.blind \/ ~ksp.op.known
             n == version + 1
             d == [ksp EXCEPT !.op.s = n, !.edited = TRUE, !.blind = b]
  <2>1. b \in BOOLEAN
    BY <1>1 DEF Contexts
  <2>2. Becomes(d) /\ ksp.op # NoOp
    BY <1>4 DEF EditStructure
  <2> HIDE DEF b, n
  <2>3. Edited(ksp, d)
    <3>1. n \in Versions
      BY <1>1 DEF n
    <3> QED
      BY <1>1, <2>1, <3>1, EditedStructure
  <2> HIDE DEF d
  <2>4. Good(d)
    BY <2>2, <2>3 DEF Good, Settled, Ready, Edited
  <2> QED
    BY <1>2, <2>2, <2>4, BecomesGood
<1>5. CASE EditValues
  <2> DEFINE n == version + 1
             d == [ksp EXCEPT !.op.v = n, !.edited = TRUE]
  <2>1. Becomes(d) /\ ksp.op # NoOp
    BY <1>5 DEF EditValues
  <2> HIDE DEF n
  <2>2. Edited(ksp, d)
    <3>1. n \in Versions
      BY <1>1 DEF n
    <3> QED
      BY <1>1, <3>1, EditedValues
  <2> HIDE DEF d
  <2>3. Good(d)
    BY <2>1, <2>2 DEF Good, Settled, Ready, Edited
  <2> QED
    BY <1>2, <2>1, <2>3, BecomesGood
<1> QED
  BY <1>3, <1>4, <1>5

(* What the properties note changes nothing that is proved here.           *)
LEMMA NotedGood ==
  ASSUME NEW k, Good(k), NEW a \in BOOLEAN, NEW b \in BOOLEAN
  PROVE  LET d == [k EXCEPT !.refused = a, !.edited = b]
         IN  Good(d) /\ d.setup = k.setup
<1> DEFINE c == [k EXCEPT !.refused = a]
           d == [c EXCEPT !.edited = b]
<1>1. Good(c) /\ c.setup = k.setup
  BY DEF Good, Contexts, Settled, Ready
<1>2. Good(d) /\ d.setup = c.setup
  <2> HIDE DEF c
  <2> QED
    BY <1>1 DEF Good, Contexts, Settled, Ready
<1> QED
  BY <1>1, <1>2

LEMMA CompletedReady ==
  ASSUME NEW k \in Contexts, NEW d, Settled(k), Steady(k, d)
  PROVE  Good(Completed(d)) /\ Completed(d).setup = TRUE
<1> DEFINE p == d.solver # "none"
           c1 == [d EXCEPT !.work = d.op.size]
           c2 == [c1 EXCEPT !.prepared = p]
           q == TRUE
           c3 == [c2 EXCEPT !.setup = q]
<1>1. d \in Contexts /\ Settled(d) /\ p \in BOOLEAN /\ q \in BOOLEAN
  BY DEF Steady, Settled
<1> HIDE DEF p, q
<1>2. c1 \in Contexts /\ Settled(c1) /\ c1.work = c1.op.size /\ c1.solver = d.solver
  BY <1>1 DEF Contexts, Settled
<1>3. /\ c2 \in Contexts /\ Settled(c2) /\ c2.work = c2.op.size
      /\ c2.solver = d.solver /\ c2.prepared = p
  <2> HIDE DEF c1
  <2> QED
    BY <1>1, <1>2 DEF Contexts, Settled
<1>4. /\ c3 \in Contexts /\ Settled(c3) /\ c3.work = c3.op.size
      /\ c3.solver = d.solver /\ c3.prepared = p /\ c3.setup = q
  <2> HIDE DEF c2
  <2> QED
    BY <1>1, <1>3 DEF Contexts, Settled
<1>5. c3 = Completed(d)
  BY DEF Completed, p, q
<1> HIDE DEF c3
<1> QED
  BY <1>4, <1>5 DEF Good, Ready, p, q

(* Every end of a setup is good, and only "ok" is said of a ready context. *)
LEMMA SetupGood ==
  ASSUME NEW k, Good(k), NEW e \in SetupResults(k)
  PROVE  /\ Good(e.k) /\ e.how \in {"ok", "early", "err"}
         /\ e.how = "ok" => e.k.setup = TRUE
<1>1. k \in Contexts /\ Settled(k)
  BY DEF Good
<1>2. CASE e.how \in {"early", "err"} /\ Steady(k, e.k)
  BY <1>2 DEF Good, Settled, Ready, Steady
<1>3. ASSUME e.how = "ok", NEW d, Steady(k, d), e.k = Completed(d)
      PROVE  Good(e.k) /\ e.k.setup = TRUE
  BY <1>1, <1>3, CompletedReady
<1> QED
  BY <1>1, <1>2, <1>3, SetupEnds

LEMMA SetupCall ==
  ASSUME Good(ksp), version \in Versions, Setup
  PROVE  IInv'
<1>1. PICK e \in SetupResults(ksp) :
         Becomes([e.k EXCEPT !.refused = e.how = "err", !.edited = @ /\ e.how = "err"])
  BY DEF Setup
<1>2. Good(e.k)
  BY SetupGood
<1> DEFINE a == e.how = "err"
           b == e.k.edited /\ e.how = "err"
           d == [e.k EXCEPT !.refused = a, !.edited = b]
<1>3. a \in BOOLEAN /\ b \in BOOLEAN
  BY <1>2 DEF Good, Contexts
<1>4. Becomes(d)
  BY <1>1
<1>5. Good(d)
  <2> HIDE DEF a, b
  <2> QED
    BY <1>2, <1>3, NotedGood
<1>6. version' \in Versions
  BY DEF Setup
<1> HIDE DEF d
<1> QED
  BY <1>4, <1>5, <1>6, BecomesGood

LEMMA SolveCall ==
  ASSUME Good(ksp), version \in Versions, Solve
  PROVE  IInv'
<1>1. PICK e \in SolveSetup(ksp) :
         LET k == IF ksp.setup \/ e.how = "err" THEN e.k
                  ELSE [e.k EXCEPT !.refused = FALSE, !.edited = FALSE]
         IN /\ ksp' = k
            /\ ran' = (e.how # "err" /\ IF k.type = "preonly" THEN k.pc.there ELSE k.solver # "none")
            /\ early' = (e.how = "early")
  BY DEF Solve
<1>2. Good(e.k) /\ e.how \in {"ok", "early", "err"} /\ (e.how = "ok" => e.k.setup = TRUE)
  <2>1. CASE ksp.setup
    <3>1. e.k = ksp /\ e.how = "ok" /\ ksp.setup = TRUE
      BY <2>1, EndsFields DEF SolveSetup, Good, Contexts
    <3> QED
      BY <3>1
  <2>2. CASE ~ksp.setup
    BY <2>2, SetupGood DEF SolveSetup
  <2> QED
    BY <2>1, <2>2
<1>3. Good(ksp') /\ ksp'.setup = e.k.setup
  <2> DEFINE d == [e.k EXCEPT !.refused = FALSE, !.edited = FALSE]
  <2>1. ksp' = e.k \/ ksp' = d
    BY <1>1
  <2>2. FALSE \in BOOLEAN
    OBVIOUS
  <2>3. Good(d) /\ d.setup = e.k.setup
    BY <1>2, <2>2, NotedGood
  <2> HIDE DEF d
  <2> QED
    BY <1>2, <2>1, <2>3
<1>4. ran' \in BOOLEAN /\ early' \in BOOLEAN
  <2>1. ksp'.pc.there \in BOOLEAN
    BY <1>3 DEF Good, Contexts
  <2>2. ran' = (e.how # "err" /\ IF ksp'.type = "preonly" THEN ksp'.pc.there ELSE ksp'.solver # "none")
    BY <1>1
  <2> QED
    BY <1>1, <2>1, <2>2
<1>5. SolverReady'
  <2>1. ran' /\ ~early' => e.how = "ok"
    BY <1>1, <1>2
  <2> QED
    BY <1>2, <1>3, <2>1 DEF SolverReady, Good, Ready
<1>6. version' \in Versions
  BY DEF Solve
<1> QED
  BY <1>3, <1>4, <1>5, <1>6 DEF IInv, Good, Settled, Ready

LEMMA StepGood == IInv /\ [Next]_vars => IInv'
<1> SUFFICES ASSUME IInv, [Next]_vars PROVE IInv'
  OBVIOUS
<1>1. Good(ksp) /\ version \in Versions
  BY DEF IInv
<1>2. CASE (\E type \in Types : SetType(type)) \/ (\E bad \in BOOLEAN : StageCgNorm(bad))
           \/ SetTolerances \/ SetRestart
  BY <1>1, <1>2, SolverCalls
<1>3. CASE (\E kind \in PcKinds : SetPcType(kind)) \/ SetPcChain
           \/ (\E policy \in Policies : SetPcReusePolicy(policy))
  BY <1>1, <1>3, PcCalls
<1>4. CASE \/ \E size \in Sizes, comm \in Comms, known \in BOOLEAN, agree \in BOOLEAN :
                SetOperators(size, comm, known, agree)
           \/ EditStructure \/ EditValues
  BY <1>1, <1>4, OperatorCalls
<1>5. CASE Setup
  BY <1>1, <1>5, SetupCall
<1>6. CASE Solve
  BY <1>1, <1>6, SolveCall
<1>7. CASE UNCHANGED vars
  BY <1>7 DEF IInv, Good, Settled, Ready, SolverReady, vars
<1> QED
  BY <1>2, <1>3, <1>4, <1>5, <1>6, <1>7 DEF Next

LEMMA InvariantHolds == Spec => []IInv
BY InitGood, StepGood, PTL DEF Spec

(* No sequence of calls, and no failure in between, brings the context     *)
(* into a state that is not of its type: in particular the active          *)
(* candidate of a chain exists.                                            *)
THEOREM TypeCorrect == Spec => []TypeOK
<1>1. IInv => TypeOK
  BY DEF IInv, Good, TypeOK
<1> QED
  BY <1>1, InvariantHolds, PTL

(* The solver that solve() runs has its workspace, whatever calls and      *)
(* failures came before, unless the setup ended early after a fallback.    *)
THEOREM SolverAlwaysReady == Spec => []SolverReady
<1>1. IInv => SolverReady
  BY DEF IInv
<1> QED
  BY <1>1, InvariantHolds, PTL

(* The operators of a context lie on the communicator that                 *)
(* bind_or_check_comm bound it to.                                         *)
THEOREM OperatorsOnBoundComm == Spec => []CommsAgree
<1>1. IInv => CommsAgree
  BY DEF IInv, Good, Settled, CommsAgree
<1> QED
  BY <1>1, InvariantHolds, PTL

------------------------------------------------------------------------------
(* The preconditioner: a solve uses the one that was chosen, built from    *)
(* the operator in its present state, for any sequence of calls and        *)
(* failures.                                                               *)

(* Contexts that differ in some fields only.                               *)

Fields == {"op", "bound", "type", "solver", "prepared", "badCg", "chosen", "pending",
           "active", "pc", "last", "reuse", "work", "setup", "edited", "blind",
           "refused", "spoilt", "lost"}

Same(k, d, S) == DOMAIN d = DOMAIN k /\ \A g \in DOMAIN k \ S : d[g] = k[g]

LEMMA ContextFields ==
  ASSUME NEW k \in Contexts
  PROVE  DOMAIN k = Fields
BY DEF Contexts, Fields

LEMMA SameFields ==
  ASSUME NEW k \in Contexts, NEW d, NEW S, Same(k, d, S)
  PROVE  \A g \in Fields \ S : d[g] = k[g]
BY ContextFields DEF Same

------------------------------------------------------------------------------
(* The invariant.                                                          *)

(* The preconditioner is of the present operator.                          *)
Fresh(k) == k.pc.v = k.op.v /\ (k.blind \/ k.pc.s = k.op.s)

(* No id is newer than the last version.                                   *)
Recorded(k, n) == k.last.s <= n /\ k.last.v <= n /\ k.op.s <= n /\ k.op.v <= n

(* A preconditioner that was chosen is there or pending, until its         *)
(* construction fails; ids are kept for one that is there only.            *)
Placed(k) ==
  /\ k.pending => k.chosen \in PcKinds /\ ~k.pc.there
  /\ k.chosen \in PcKinds /\ ~k.lost => k.pc.there \/ k.pending
  /\ k.lost => k.chosen \in PcKinds
  /\ ~k.pc.there => ~k.last.there

(* What the ids tell: the structure, and then the values, are the present  *)
(* ones, unless a refresh of unchanged values has failed.                  *)
Telling(k) ==
  /\ k.blind => ~k.op.known
  /\ k.last.there /\ k.op.known /\ k.last.s = k.op.s => k.pc.s = k.op.s
  /\ k.last.there /\ ~k.op.known /\ ~k.blind => k.pc.s = k.op.s
  /\ k.last.there /\ k.op.known /\ k.last.s = k.op.s /\ k.last.v = k.op.v =>
       k.pc.v = k.op.v \/ k.spoilt

Sound(k, n) == Recorded(k, n) /\ Placed(k) /\ Telling(k)

(* The ids that are remembered are those of the present operator.          *)
Noted(k) ==
  IF k.pc.there THEN k.last.there /\ k.last.s = Ids(k.op).s /\ k.last.v = Ids(k.op).v
                ELSE k.last = NoIds

(* What a context that counts as set up has, if the last set-up succeeded. *)
Held(k) ==
  k.setup =>
    /\ ~k.pending
    /\ ~k.refused /\ k.chosen = "chain" => k.pc.there
    /\ ~k.refused /\ ~k.edited => Noted(k)
    /\ k.pc.there /\ ~k.edited /\ ~k.refused /\ ~k.spoilt => Fresh(k)

PcInv == Sound(ksp, version) /\ Held(ksp) /\ CurrentPc /\ ChosenPcUsed

(* What a stage or a set-up that succeeds leaves.                          *)
Current(k) == Noted(k) /\ (k.pc.there /\ ~k.spoilt => Fresh(k))
Chosen(k) == k.chosen # "none" /\ ~k.lost => k.pc.there

------------------------------------------------------------------------------
(* What the invariant looks at.                                            *)
SoundFields == {"op", "last", "blind", "pending", "chosen", "lost", "pc", "spoilt"}

LEMMA SoundSame ==
  ASSUME NEW k \in Contexts, NEW n, NEW d, NEW S, Same(k, d, S), S \cap SoundFields = {}, Sound(k, n)
  PROVE  Sound(d, n)
<1>1. /\ d.op = k.op /\ d.last = k.last /\ d.blind = k.blind /\ d.pending = k.pending
      /\ d.chosen = k.chosen /\ d.lost = k.lost /\ d.pc = k.pc /\ d.spoilt = k.spoilt
  BY SameFields DEF Fields, SoundFields
<1> QED BY <1>1 DEF Sound, Recorded, Placed, Telling

(* Types of what the stages compute with.                                  *)
LEMMA Numbers ==
  ASSUME NEW k \in Contexts
  PROVE  /\ k.op.s \in Nat /\ k.op.v \in Nat /\ k.last.s \in Nat /\ k.last.v \in Nat
         /\ k.pc.s \in Nat /\ k.pc.v \in Nat
         /\ k.op.known \in BOOLEAN /\ k.last.there \in BOOLEAN /\ k.pc.there \in BOOLEAN
         /\ k.spoilt \in BOOLEAN /\ k.pending \in BOOLEAN /\ k.lost \in BOOLEAN
         /\ k.blind \in BOOLEAN /\ k.setup \in BOOLEAN
<1>1. k.op \in Operators /\ k.pc \in Pcs /\ k.last \in Pcs
  BY OperatorTypes
<1>2. Versions \subseteq Nat
  BY KspAssumption DEF Versions
<1>3. /\ k.spoilt \in BOOLEAN /\ k.pending \in BOOLEAN /\ k.lost \in BOOLEAN
      /\ k.blind \in BOOLEAN /\ k.setup \in BOOLEAN
  BY DEF Contexts
<1> QED BY <1>1, <1>2, <1>3 DEF Operators, Pcs

(* A preconditioner that has just been built.                              *)
LEMMA BuiltSound ==
  ASSUME NEW k \in Contexts, NEW n \in Nat, Recorded(k, n), ~k.pending, k.blind => ~k.op.known,
         k.lost => k.chosen \in PcKinds,
         NEW d, Same(k, d, {"pc", "last", "active"}), d.pc = Built(k.op), d.last = Ids(k.op)
  PROVE  Sound(d, n) /\ Fresh(d) /\ Noted(d) /\ d.pc.there /\ ~d.pending
<1>1. /\ d.op = k.op /\ d.blind = k.blind /\ d.pending = k.pending
      /\ d.chosen = k.chosen /\ d.lost = k.lost /\ d.spoilt = k.spoilt
  BY SameFields DEF Fields
<1>2. d.pc.there /\ d.pc.s = k.op.s /\ d.pc.v = k.op.v
  BY DEF Built
<1>3. /\ d.last.there
      /\ d.last.s = IF k.op.known THEN k.op.s ELSE 0
      /\ d.last.v = IF k.op.known THEN k.op.v ELSE 0
  BY DEF Ids
<1>4. Recorded(d, n)
  BY <1>1, <1>3, Numbers DEF Recorded
<1>5. Noted(d)
  BY <1>1, <1>2, <1>3 DEF Noted
<1> QED BY <1>1, <1>2, <1>3, <1>4, <1>5 DEF Sound, Placed, Telling, Fresh

(* A preconditioner that has been given up.                                *)
LEMMA NoneSound ==
  ASSUME NEW k \in Contexts, NEW n \in Nat, Recorded(k, n), ~k.pending, k.blind => ~k.op.known,
         k.chosen \notin PcKinds, ~k.lost,
         NEW d, Same(k, d, {"pc", "last"}), d.pc = NoPc, d.last = NoIds
  PROVE  Sound(d, n)
<1>1. /\ d.op = k.op /\ d.blind = k.blind /\ d.pending = k.pending
      /\ d.chosen = k.chosen /\ d.lost = k.lost
  BY SameFields DEF Fields
<1>2. ~d.last.there /\ d.last.s = 0 /\ d.last.v = 0
  BY DEF NoIds
<1> QED BY <1>1, <1>2 DEF Sound, Recorded, Placed, Telling

------------------------------------------------------------------------------
(* The stages of setup_impl in the order of the code.                      *)

LEMMA ConstructedSound ==
  ASSUME NEW k \in Contexts, NEW n \in Nat, Sound(k, n), NEW e \in Constructed(k)
  PROVE  /\ Sound(e.k, n) /\ ~e.k.pending
         /\ Same(k, e.k, {"pc", "pending", "lost"})
         /\ e.how \in {"on", "err"}
<1> DEFINE c == [k EXCEPT !.pc = [NoPc EXCEPT !.there = TRUE], !.pending = FALSE]
           d == [k EXCEPT !.pending = FALSE, !.lost = TRUE]
<1>1. CASE e = Ends(k, "on") /\ ~(~k.pc.there /\ k.pending)
  <2>1. e.k = k /\ e.how = "on"
    BY <1>1, EndsFields
  <2>2. Same(k, k, {"pc", "pending", "lost"})
    BY DEF Same
  <2>3. ~k.pending
    BY <1>1 DEF Sound, Placed
  <2> QED BY <2>1, <2>2, <2>3
<1>2. CASE (e = Ends(c, "on") \/ e = Ends(d, "err")) /\ ~k.pc.there /\ k.pending
  <2>1. Same(k, c, {"pc", "pending", "lost"}) /\ c.pc = [NoPc EXCEPT !.there = TRUE] /\ ~c.pending /\ c.lost = k.lost
    BY ContextFields DEF Same, Fields
  <2>2. Same(k, d, {"pc", "pending", "lost"}) /\ d.pc = k.pc /\ ~d.pending /\ d.lost
    BY ContextFields DEF Same, Fields
  <2>3. c.pc.there
    BY <2>1 DEF NoPc
  <2>4. /\ c.op = k.op /\ c.last = k.last /\ c.blind = k.blind /\ c.chosen = k.chosen /\ c.spoilt = k.spoilt
        /\ d.op = k.op /\ d.last = k.last /\ d.blind = k.blind /\ d.chosen = k.chosen /\ d.spoilt = k.spoilt
    BY <2>1, <2>2, SameFields DEF Fields
  <2>5. ~k.last.there
    BY <1>2 DEF Sound, Placed
  <2>6. Sound(c, n) /\ Sound(d, n)
    <3> HIDE DEF c, d
    <3> QED BY <1>2, <2>1, <2>2, <2>3, <2>4, <2>5 DEF Sound, Recorded, Placed, Telling
  <2> HIDE DEF c, d
  <2> QED BY <1>2, <2>1, <2>2, <2>6, EndsFields
<1> QED BY <1>1, <1>2 DEF Constructed

(* A candidate of a chain has been set up, or none has.                    *)
LEMMA ChainSound ==
  ASSUME NEW k \in Contexts, NEW n \in Nat, Sound(k, n), ~k.pending,
         NEW how \in {"on", "early"}, NEW e \in ChainResults(k, how)
  PROVE  /\ Sound(e.k, n)
         /\ Same(k, e.k, {"pc", "last", "active"})
         /\ e.how \in {how, "err"}
         /\ e.how = how => Fresh(e.k) /\ Noted(e.k) /\ e.k.pc.there
<1> DEFINE c(i) == [k EXCEPT !.pc = Built(k.op), !.last = Ids(k.op), !.active = i]
           d(i) == [k EXCEPT !.active = i]
<1>1. PICK i \in k.active..Candidates : e = Ends(c(i), how) \/ e = Ends(d(i), "err")
  BY DEF ChainResults
<1>2. Same(k, c(i), {"pc", "last", "active"}) /\ c(i).pc = Built(k.op) /\ c(i).last = Ids(k.op)
  BY ContextFields DEF Same, Fields
<1>3. Same(k, d(i), {"active"}) /\ Same(k, d(i), {"pc", "last", "active"})
  BY ContextFields DEF Same, Fields
<1> HIDE DEF c, d
<1>4. Sound(c(i), n) /\ Fresh(c(i)) /\ Noted(c(i)) /\ c(i).pc.there
  BY <1>2, BuiltSound DEF Sound, Placed, Telling
<1>5. {"active"} \cap SoundFields = {}
  BY DEF SoundFields
<1>6. Sound(d(i), n)
  BY <1>3, <1>5, SoundSame
<1> QED BY <1>1, <1>2, <1>3, <1>4, <1>6, EndsFields

LEMMA SameTwice ==
  ASSUME NEW k, NEW c, NEW d, NEW S, NEW T, NEW U, Same(k, c, S), Same(c, d, T),
         S \subseteq U, T \subseteq U
  PROVE  Same(k, d, U)
BY DEF Same

LEMMA ChainedSound ==
  ASSUME NEW k \in Contexts, NEW n \in Nat, Sound(k, n), ~k.pending, NEW e \in Chained(k)
  PROVE  /\ Sound(e.k, n)
         /\ Same(k, e.k, {"pc", "last", "active"})
         /\ e.how \in {"on", "err"}
         /\ e.how = "on" /\ k.chosen = "chain" => e.k.pc.there
         /\ e.how = "on" /\ ~e.k.pc.there => e.k.last = NoIds
<1> DEFINE d == [k EXCEPT !.last = NoIds]
<1>1. CASE e = Ends(k, "on") /\ k.pc.there
  <2>1. Same(k, k, {"pc", "last", "active"})
    BY DEF Same
  <2> QED BY <1>1, <2>1, EndsFields
<1>2. CASE (e = Ends(d, "on") /\ k.chosen # "chain") \/ e \in ChainResults(d, "on")
  <2>1. Same(k, d, {"last"}) /\ Same(k, d, {"pc", "last", "active"}) /\ d.last = NoIds
    BY ContextFields DEF Same, Fields
  <2>2. d \in Contexts
    BY ConstantTypes, Updates DEF Steady
  <2> HIDE DEF d
  <2>3. /\ d.op = k.op /\ d.pc = k.pc /\ d.blind = k.blind /\ d.pending = k.pending
        /\ d.chosen = k.chosen /\ d.lost = k.lost /\ d.spoilt = k.spoilt
    BY <2>1, SameFields DEF Fields
  <2>4. ~d.last.there /\ d.last.s = 0 /\ d.last.v = 0
    BY <2>1 DEF NoIds
  <2>5. Sound(d, n)
    BY <2>3, <2>4 DEF Sound, Recorded, Placed, Telling
  <2>6. CASE e \in ChainResults(d, "on")
    <3>1. /\ Sound(e.k, n) /\ Same(d, e.k, {"pc", "last", "active"})
          /\ e.how \in {"on", "err"} /\ (e.how = "on" => e.k.pc.there)
      BY <2>2, <2>3, <2>5, <2>6, ChainSound
    <3> QED BY <2>1, <3>1, SameTwice
  <2>7. CASE e = Ends(d, "on") /\ k.chosen # "chain"
    BY <2>1, <2>5, <2>7, EndsFields
  <2> QED BY <1>2, <2>6, <2>7
<1> QED BY <1>1, <1>2 DEF Chained

LEMMA RecoveredSound ==
  ASSUME NEW k \in Contexts, NEW n \in Nat, Sound(k, n), ~k.pending, NEW e \in Recovered(k)
  PROVE  /\ Sound(e.k, n)
         /\ Same(k, e.k, {"pc", "last", "active"})
         /\ e.how \in {"early", "err"}
         /\ e.how = "early" => Fresh(e.k) /\ Noted(e.k) /\ e.k.pc.there
<1> DEFINE c == [k EXCEPT !.pc = Built(k.op), !.last = Ids(k.op)]
           d == [k EXCEPT !.pc = NoPc, !.last = NoIds]
<1>1. CASE e = Ends(k, "err")
  <2>1. Same(k, k, {"pc", "last", "active"})
    BY DEF Same
  <2> QED BY <1>1, <2>1, EndsFields
<1>2. CASE e = Ends(c, "early")
  <2>1. Same(k, c, {"pc", "last", "active"}) /\ c.pc = Built(k.op) /\ c.last = Ids(k.op)
    BY ContextFields DEF Same, Fields
  <2> HIDE DEF c
  <2>2. Sound(c, n) /\ Fresh(c) /\ Noted(c) /\ c.pc.there
    BY <2>1, BuiltSound DEF Sound, Placed, Telling
  <2> QED BY <1>2, <2>1, <2>2, EndsFields
<1>3. CASE e \in ChainResults(d, "early") /\ k.chosen = "chain"
  <2>1. Same(k, d, {"pc", "last"}) /\ d.pc = NoPc /\ d.last = NoIds
    BY ContextFields DEF Same, Fields
  <2>2. d \in Contexts
    BY ConstantTypes, Updates DEF Steady
  <2> HIDE DEF d
  <2>3. d.pending = k.pending
    BY <2>1, SameFields DEF Fields
  <2>4. Sound(d, n)
    BY <1>3, <2>1, NoneSound, KspAssumption DEF Sound, Placed, Telling
  <2>5. /\ Sound(e.k, n) /\ Same(d, e.k, {"pc", "last", "active"}) /\ e.how \in {"early", "err"}
        /\ e.how = "early" => Fresh(e.k) /\ Noted(e.k) /\ e.k.pc.there
    BY <1>3, <2>2, <2>3, <2>4, ChainSound
  <2> QED BY <2>1, <2>5, SameTwice
<1> QED BY <1>1, <1>2, <1>3 DEF Recovered

(* A set-up from the beginning happens only when the ids differ; so its    *)
(* failure is noticed by the next set-up.                                  *)
LEMMA RebuiltSound ==
  ASSUME NEW k \in Contexts, NEW n \in Nat, Sound(k, n), ~k.pending, k.pc.there,
         ~k.last.there \/ k.last.s # Ids(k.op).s \/ Changed(k), NEW e \in Rebuilt(k)
  PROVE  /\ Sound(e.k, n)
         /\ Same(k, e.k, {"pc", "last", "active"})
         /\ e.how \in {"on", "early", "err"}
         /\ e.how # "err" => Fresh(e.k) /\ Noted(e.k) /\ e.k.pc.there
<1> DEFINE s == IF k.pc.s = k.op.s THEN k.pc.s ELSE 0
           c == [k EXCEPT !.pc = Built(k.op), !.last = Ids(k.op)]
           d == [k EXCEPT !.pc.s = s, !.pc.v = 0]
<1>1. s \in Versions
  BY ConstantTypes, OperatorTypes
<1>2. d = [k EXCEPT !.pc.s = IF @ = k.op.s THEN @ ELSE 0, !.pc.v = 0]
  OBVIOUS
<1>3. CASE e = Ends(c, "on")
  <2>1. Same(k, c, {"pc", "last", "active"}) /\ c.pc = Built(k.op) /\ c.last = Ids(k.op)
    BY ContextFields DEF Same, Fields
  <2> HIDE DEF c
  <2>2. Sound(c, n) /\ Fresh(c) /\ Noted(c) /\ c.pc.there
    BY <2>1, BuiltSound DEF Sound, Placed, Telling
  <2> QED BY <1>3, <2>1, <2>2, EndsFields
<1>4. CASE e \in Recovered(d)
  <2>1. Same(k, d, {"pc"}) /\ d.pc = [k.pc EXCEPT !.s = s, !.v = 0]
    <3> HIDE DEF s
    <3> QED BY ContextFields DEF Same, Fields
  <2>2. d \in Contexts
    <3> HIDE DEF s
    <3> QED BY <1>1, ConstantTypes, Updates DEF Steady
  <2>3. d.pc.there = k.pc.there /\ d.pc.s = s
    <3> HIDE DEF s
    <3>1. k.pc \in Pcs
      BY OperatorTypes
    <3>2. DOMAIN k.pc = {"there", "s", "v"}
      BY <3>1 DEF Pcs
    <3> QED BY <2>1, <3>2
  <2> HIDE DEF d
  <2>4. /\ d.op = k.op /\ d.last = k.last /\ d.blind = k.blind /\ d.pending = k.pending
        /\ d.chosen = k.chosen /\ d.lost = k.lost /\ d.spoilt = k.spoilt
    BY <2>1, SameFields DEF Fields
  <2>5. k.pc.s = k.op.s => d.pc.s = d.op.s
    BY <2>3, <2>4
  <2>6. k.op.known /\ k.last.there => k.last.s # k.op.s \/ k.last.v # k.op.v
    BY DEF Ids, Changed
  <2>7. Sound(d, n)
    BY <2>3, <2>4, <2>5, <2>6 DEF Sound, Recorded, Placed, Telling
  <2>8. /\ Sound(e.k, n) /\ Same(d, e.k, {"pc", "last", "active"}) /\ e.how \in {"early", "err"}
        /\ e.how = "early" => Fresh(e.k) /\ Noted(e.k) /\ e.k.pc.there
    BY <1>4, <2>2, <2>4, <2>7, RecoveredSound
  <2> QED BY <2>1, <2>8, SameTwice
<1> HIDE DEF s, c, d
<1> QED BY <1>2, <1>3, <1>4 DEF Rebuilt, c

LEMMA RenewedSound ==
  ASSUME NEW k \in Contexts, NEW n \in Nat, Sound(k, n), k.pc.there,
         k.last.there, k.last.s = Ids(k.op).s, NEW e \in Renewed(k)
  PROVE  /\ Sound(e.k, n)
         /\ Same(k, e.k, {"pc", "last", "spoilt"})
         /\ e.how \in {"on", "err"}
         /\ e.how = "on" => Fresh(e.k) /\ Noted(e.k) /\ e.k.pc.there
<1> DEFINE b == k.spoilt \/ ~Changed(k)
           c == [k EXCEPT !.pc.v = k.op.v, !.last.v = Ids(k.op).v]
           d == [k EXCEPT !.pc.v = 0, !.spoilt = b]
<1>1. k.pc \in Pcs /\ k.last \in Pcs
  BY OperatorTypes
<1>2. DOMAIN k.pc = {"there", "s", "v"} /\ DOMAIN k.last = {"there", "s", "v"}
  BY <1>1 DEF Pcs
<1>3. CASE e = Ends(c, "on")
  <2>1. /\ Same(k, c, {"pc", "last", "spoilt"}) /\ c.pc = [k.pc EXCEPT !.v = k.op.v]
        /\ c.last = [k.last EXCEPT !.v = Ids(k.op).v] /\ c.spoilt = k.spoilt
    BY ContextFields DEF Same, Fields
  <2> HIDE DEF c
  <2>2. /\ c.op = k.op /\ c.blind = k.blind /\ c.pending = k.pending
        /\ c.chosen = k.chosen /\ c.lost = k.lost
    BY <2>1, SameFields DEF Fields
  <2>3. /\ c.pc.there = k.pc.there /\ c.pc.s = k.pc.s /\ c.pc.v = k.op.v
        /\ c.last.there = k.last.there /\ c.last.s = k.last.s /\ c.last.v = Ids(k.op).v
    BY <1>2, <2>1
  <2>4. Ids(k.op).v <= n
    BY Numbers DEF Sound, Recorded, Ids
  <2>5. Recorded(c, n)
    BY <2>2, <2>3, <2>4 DEF Sound, Recorded
  <2>6. Placed(c) /\ Telling(c)
    BY <2>1, <2>2, <2>3 DEF Sound, Placed, Telling
  <2>7. Fresh(c)
    <3>1. k.op.known => k.last.s = k.op.s
      BY DEF Ids
    <3> QED BY <2>2, <2>3, <3>1, Numbers DEF Sound, Telling, Fresh
  <2>8. Sound(c, n)
    BY <2>5, <2>6 DEF Sound
  <2>9. e.k = c /\ e.how = "on"
    BY <1>3, EndsFields
  <2>10. Noted(c)
    BY <2>2, <2>3 DEF Noted
  <2> QED BY <2>1, <2>3, <2>7, <2>8, <2>9, <2>10
<1>4. CASE e = Ends(d, "err")
  <2>1. /\ Same(k, d, {"pc", "last", "spoilt"}) /\ d.pc = [k.pc EXCEPT !.v = 0]
        /\ d.last = k.last /\ d.spoilt = b
    <3> HIDE DEF b
    <3> QED BY ContextFields DEF Same, Fields
  <2> HIDE DEF d
  <2>2. /\ d.op = k.op /\ d.blind = k.blind /\ d.pending = k.pending
        /\ d.chosen = k.chosen /\ d.lost = k.lost
    BY <2>1, SameFields DEF Fields
  <2>3. d.pc.there = k.pc.there /\ d.pc.s = k.pc.s
    BY <1>2, <2>1
  <2>4. k.op.known /\ k.last.v = k.op.v => d.spoilt
    <3>1. k.op.known /\ k.last.v = k.op.v => ~Changed(k)
      BY DEF Ids, Changed
    <3> QED BY <2>1, <3>1
  <2>5. Sound(d, n)
    BY <2>1, <2>2, <2>3, <2>4 DEF Sound, Recorded, Placed, Telling
  <2> QED BY <1>4, <2>1, <2>5, EndsFields
<1>5. d = [k EXCEPT !.pc.v = 0, !.spoilt = @ \/ ~Changed(k)]
  OBVIOUS
<1>6. e = Ends(c, "on") \/ e = Ends(d, "err")
  <2> HIDE DEF d
  <2> QED BY <1>5 DEF Renewed
<1> QED BY <1>3, <1>4, <1>6

LEMMA RefreshedSound ==
  ASSUME NEW k \in Contexts, NEW n \in Nat, Sound(k, n), ~k.pending, NEW e \in Refreshed(k),
         k.chosen = "chain" => k.pc.there, ~k.pc.there => k.last = NoIds
  PROVE  /\ Sound(e.k, n)
         /\ Same(k, e.k, {"pc", "last", "active", "spoilt"})
         /\ e.how \in {"on", "early", "err"}
         /\ e.how # "err" => Current(e.k) /\ Chosen(e.k)
<1>1. k.chosen # "none" /\ ~k.lost => k.pc.there
  BY DEF Sound, Placed, Contexts
<1>2. CASE e = Ends(k, "err") \/ (e = Ends(k, "on") /\ ~k.pc.there)
  <2>1. Same(k, k, {"pc", "last", "active", "spoilt"})
    BY DEF Same
  <2> QED BY <1>1, <1>2, <2>1, EndsFields DEF Current, Chosen, Noted
<1>3. ASSUME k.pc.there, e \in Rebuilt(k), ~k.last.there \/ k.last.s # Ids(k.op).s \/ Changed(k)
      PROVE  /\ Sound(e.k, n)
             /\ Same(k, e.k, {"pc", "last", "active"})
             /\ e.how \in {"on", "early", "err"}
             /\ e.how # "err" => Fresh(e.k) /\ Noted(e.k) /\ e.k.pc.there
  BY <1>3, RebuiltSound
<1>4. ASSUME k.pc.there, e \in Renewed(k), k.last.there, k.last.s = Ids(k.op).s
      PROVE  /\ Sound(e.k, n)
             /\ Same(k, e.k, {"pc", "last", "spoilt"})
             /\ e.how \in {"on", "early", "err"}
             /\ e.how # "err" => Fresh(e.k) /\ Noted(e.k) /\ e.k.pc.there
  BY <1>4, RenewedSound
<1>5. CASE k.pc.there /\ e = Ends(k, "on") /\ ~Changed(k) /\ k.last.there /\ k.last.s = Ids(k.op).s
  <2>1. Same(k, k, {"pc", "last", "active", "spoilt"})
    BY DEF Same
  <2>2. k.op.known /\ k.last.s = k.op.s /\ k.last.v = k.op.v
    BY <1>5 DEF Changed, Ids
  <2>3. k.spoilt \/ Fresh(k)
    BY <1>5, <2>2 DEF Sound, Telling, Fresh
  <2>4. Noted(k)
    BY <1>5 DEF Noted, Changed
  <2> QED BY <1>5, <2>1, <2>3, <2>4, EndsFields DEF Current, Chosen
<1>6. ASSUME Same(k, e.k, {"pc", "last", "active"}) \/ Same(k, e.k, {"pc", "last", "spoilt"})
      PROVE  Same(k, e.k, {"pc", "last", "active", "spoilt"})
  BY <1>6 DEF Same
<1>7. \/ e = Ends(k, "err") \/ (e = Ends(k, "on") /\ ~k.pc.there)
      \/ k.pc.there /\ e \in Rebuilt(k) /\ (~k.last.there \/ k.last.s # Ids(k.op).s \/ Changed(k))
      \/ k.pc.there /\ e \in Renewed(k) /\ k.last.there /\ k.last.s = Ids(k.op).s
      \/ k.pc.there /\ e = Ends(k, "on") /\ ~Changed(k) /\ k.last.there /\ k.last.s = Ids(k.op).s
  <2>1. CASE ~k.pc.there
    BY <2>1 DEF Refreshed
  <2>2. CASE k.pc.there /\ (~k.last.there \/ k.last.s # Ids(k.op).s)
    BY <2>2 DEF Refreshed
  <2>3. CASE k.pc.there /\ ~(~k.last.there \/ k.last.s # Ids(k.op).s)
    <3>1. \/ e = Ends(k, "err") \/ e \in Renewed(k)
          \/ e \in Rebuilt(k) /\ Changed(k)
          \/ e = Ends(k, "on") /\ ~Changed(k)
      BY <2>3 DEF Refreshed
    <3> QED BY <2>3, <3>1
  <2> QED BY <2>1, <2>2, <2>3
<1> QED BY <1>2, <1>3, <1>4, <1>5, <1>6, <1>7 DEF Current, Chosen

(* The fields that a set-up may change.                                    *)
SetupFields == {"pc", "pending", "lost", "last", "active", "spoilt", "work", "prepared", "setup"}

LEMMA SetupSound ==
  ASSUME NEW k, Good(k), NEW n \in Nat, Sound(k, n), NEW e \in SetupResults(k)
  PROVE  /\ Sound(e.k, n)
         /\ Same(k, e.k, SetupFields)
         /\ e.k.pending => e.k = k
         /\ e.how # "ok" => e.k.setup = k.setup
         /\ e.how # "err" => Current(e.k) /\ Chosen(e.k) /\ ~e.k.pending
<1>1. k \in Contexts
  BY DEF Good
<1>2. CASE k.op = NoOp
  <2>1. e = Ends(k, "err") /\ Same(k, k, SetupFields)
    BY <1>2 DEF SetupResults, Same
  <2> QED BY <2>1, EndsFields
<1>3. CASE k.op # NoOp
  <2>1. PICK d \in AndRefreshed(AndChained(Constructed(k))) :
           e = IF d.how = "on" THEN Ends(Completed(d.k), "ok") ELSE d
    BY <1>3 DEF SetupResults
  <2>2. PICK c \in AndChained(Constructed(k)) :
           d \in IF c.how = "on" THEN Refreshed(c.k) ELSE {c}
    BY DEF AndRefreshed
  <2>3. PICK b \in Constructed(k) : c \in IF b.how = "on" THEN Chained(b.k) ELSE {b}
    BY DEF AndChained
  <2>4. /\ Sound(b.k, n) /\ ~b.k.pending /\ b.k \in Contexts
        /\ Same(k, b.k, {"pc", "pending", "lost"}) /\ b.how \in {"on", "err"}
    BY <1>1, ConstructedSound, ConstructedSteady DEF Outcome, Steady
  <2> DEFINE S == {"pc", "pending", "lost", "last", "active", "spoilt"}
  <2>5. /\ Sound(c.k, n) /\ ~c.k.pending /\ c.k \in Contexts
        /\ Same(k, c.k, S) /\ c.how \in {"on", "err"}
        /\ c.how = "on" /\ c.k.chosen = "chain" => c.k.pc.there
        /\ c.how = "on" /\ ~c.k.pc.there => c.k.last = NoIds
    <3>1. CASE b.how = "on"
      <4>1. /\ Sound(c.k, n) /\ Same(b.k, c.k, {"pc", "last", "active"}) /\ c.how \in {"on", "err"}
            /\ c.how = "on" /\ b.k.chosen = "chain" => c.k.pc.there
            /\ c.how = "on" /\ ~c.k.pc.there => c.k.last = NoIds
        BY <2>3, <2>4, <3>1, ChainedSound
      <4>2. c.k \in Contexts
        BY <2>3, <2>4, <3>1, ChainedSteady DEF Outcome, Steady
      <4>3. c.k.pending = b.k.pending /\ c.k.chosen = b.k.chosen
        BY <2>4, <4>1, SameFields DEF Fields
      <4>4. Same(k, c.k, S)
        BY <2>4, <4>1, SameTwice
      <4> QED BY <2>4, <4>1, <4>2, <4>3, <4>4
    <3>2. CASE b.how # "on"
      <4>1. c = b /\ Same(k, c.k, S)
        BY <2>3, <2>4, <3>2 DEF Same
      <4> QED BY <2>4, <3>2, <4>1
    <3> QED BY <3>1, <3>2
  <2>6. /\ Sound(d.k, n) /\ ~d.k.pending /\ d.k \in Contexts
        /\ Same(k, d.k, S) /\ d.how \in {"on", "early", "err"}
        /\ d.how # "err" => Current(d.k) /\ Chosen(d.k)
    <3>1. CASE c.how = "on"
      <4>1. /\ Sound(d.k, n) /\ Same(c.k, d.k, {"pc", "last", "active", "spoilt"})
            /\ d.how \in {"on", "early", "err"}
            /\ d.how # "err" => Current(d.k) /\ Chosen(d.k)
        BY <2>2, <2>5, <3>1, RefreshedSound
      <4>2. d.k \in Contexts
        BY <2>2, <2>5, <3>1, RefreshedSteady DEF Outcome, Steady
      <4>3. d.k.pending = c.k.pending
        BY <2>5, <4>1, SameFields DEF Fields
      <4>4. Same(k, d.k, S)
        BY <2>5, <4>1, SameTwice
      <4> QED BY <2>5, <4>1, <4>2, <4>3, <4>4
    <3>2. CASE c.how # "on"
      <4>1. d = c /\ c.how = "err"
        BY <2>2, <2>5, <3>2
      <4> QED BY <2>5, <4>1
    <3> QED BY <3>1, <3>2
  <2>7. CASE d.how = "on"
    <3> DEFINE w == d.k.op.size
               p == d.k.solver # "none"
               f == [d.k EXCEPT !.work = w, !.prepared = p, !.setup = TRUE]
    <3>1. e = Ends(f, "ok")
      BY <2>1, <2>7 DEF Completed
    <3>2. Same(d.k, f, {"work", "prepared", "setup"})
      <4> HIDE DEF w, p
      <4> QED BY DEF Same
    <3>3. Same(k, f, SetupFields)
      BY <2>6, <3>2, SameTwice DEF SetupFields
    <3> HIDE DEF f
    <3>4. /\ f.pending = d.k.pending /\ f.pc = d.k.pc /\ f.op = d.k.op /\ f.blind = d.k.blind
          /\ f.last = d.k.last /\ f.spoilt = d.k.spoilt /\ f.chosen = d.k.chosen /\ f.lost = d.k.lost
      BY <2>6, <3>2, SameFields DEF Fields
    <3>5. {"work", "prepared", "setup"} \cap SoundFields = {}
      BY DEF SoundFields
    <3>6. Sound(f, n)
      BY <2>6, <3>2, <3>5, SoundSame
    <3>7. Current(f) /\ Chosen(f)
      BY <2>6, <2>7, <3>4 DEF Current, Chosen, Fresh, Noted
    <3> QED BY <2>6, <3>1, <3>3, <3>4, <3>6, <3>7, EndsFields
  <2>8. CASE d.how # "on"
    <3>1. e = d
      BY <2>1, <2>8
    <3>2. Same(k, e.k, SetupFields)
      BY <2>6, <3>1 DEF Same, SetupFields
    <3>3. e.k.setup = k.setup
      BY <1>1, <2>6, <3>1, SameFields DEF Fields
    <3> QED BY <2>6, <3>1, <3>2, <3>3
  <2> QED BY <2>7, <2>8
<1> QED BY <1>2, <1>3

------------------------------------------------------------------------------
(* The calls of the user.                                                  *)

LEMMA InitPcInv == Init => PcInv
<1> SUFFICES ASSUME Init PROVE PcInv
  OBVIOUS
<1>1. /\ ksp.op = NoOp /\ ksp.pc = NoPc /\ ksp.last = NoIds /\ ksp.chosen = "none"
      /\ ~ksp.pending /\ ~ksp.lost /\ ~ksp.blind /\ ~ksp.setup /\ version = 0 /\ ~ran
  BY DEF Init
<1>2. Recorded(ksp, version) /\ Telling(ksp) /\ Held(ksp)
  BY <1>1 DEF Recorded, Telling, Held, NoOp, NoPc, NoIds
<1>3. Placed(ksp)
  <2>1. "none" \notin PcKinds
    BY KspAssumption
  <2> QED BY <1>1, <2>1 DEF Placed, NoIds
<1> QED BY <1>1, <1>2, <1>3 DEF PcInv, Sound, CurrentPc, ChosenPcUsed

LEMMA BecomesSound ==
  ASSUME NEW k, Becomes(k), Sound(k, version'), Held(k)
  PROVE  PcInv'
<1>1. ksp' = k /\ ~ran'
  BY DEF Becomes
<1> QED BY <1>1 DEF PcInv, CurrentPc, ChosenPcUsed, Sound, Recorded, Placed, Telling, Held, Fresh

(* Calls that have nothing to do with the preconditioner.                  *)
LEMMA QuietCall ==
  ASSUME ksp \in Contexts, PcInv, version' = version, NEW d, Becomes(d), NEW S, Same(ksp, d, S),
         S \subseteq {"type", "prepared", "solver", "setup", "badCg", "reuse", "bound"},
         ~d.setup \/ "setup" \notin S
  PROVE  PcInv'
<1>1. S \cap SoundFields = {}
  BY DEF SoundFields
<1>2. Sound(d, version')
  BY <1>1, SoundSame DEF PcInv
<1>3. /\ d.pending = ksp.pending /\ d.refused = ksp.refused /\ d.chosen = ksp.chosen
      /\ d.pc = ksp.pc /\ d.edited = ksp.edited /\ d.spoilt = ksp.spoilt /\ d.op = ksp.op
      /\ d.blind = ksp.blind /\ d.lost = ksp.lost /\ d.last = ksp.last
      /\ (~d.setup \/ d.setup = ksp.setup)
  BY SameFields DEF Fields
<1>4. Held(d)
  BY <1>3 DEF PcInv, Held, Fresh, Noted
<1> QED BY <1>2, <1>4, BecomesSound

LEMMA SolverCallsSound ==
  ASSUME ksp \in Contexts, PcInv,
         \/ \E type \in Types : SetType(type)
         \/ \E bad \in BOOLEAN : StageCgNorm(bad)
         \/ \E policy \in Policies : SetPcReusePolicy(policy)
         \/ SetTolerances \/ SetRestart
  PROVE  PcInv'
<1>1. version' = version
  BY DEF SetType, StageCgNorm, SetPcReusePolicy, SetTolerances, SetRestart
<1>2. ASSUME NEW type \in Types, SetType(type) PROVE PcInv'
  <2> DEFINE t == IF type = "preonly" THEN "none" ELSE type
             c == [ksp EXCEPT !.type = type]
             b == [ksp EXCEPT !.type = type, !.prepared = FALSE, !.solver = t]
             d == [b EXCEPT !.setup = FALSE]
  <2>1. Becomes(c) \/ Becomes(d)
    BY <1>2 DEF SetType, InvalidateSolver
  <2> HIDE DEF t
  <2>2. Same(ksp, c, {"type"})
    BY DEF Same
  <2>3. Same(ksp, b, {"type", "prepared", "solver"}) /\ DOMAIN b = Fields
    BY ContextFields DEF Same
  <2> HIDE DEF b, c
  <2>4. Same(ksp, d, {"type", "prepared", "solver", "setup"}) /\ ~d.setup
    BY <2>3 DEF Same, Fields
  <2> HIDE DEF d
  <2> QED BY <1>1, <2>1, <2>2, <2>4, QuietCall
<1>3. ASSUME NEW bad \in BOOLEAN, StageCgNorm(bad) PROVE PcInv'
  <2> DEFINE d == [ksp EXCEPT !.badCg = bad]
  <2>1. Same(ksp, d, {"badCg"}) /\ Becomes(d)
    BY <1>3 DEF Same, StageCgNorm
  <2> HIDE DEF d
  <2> QED BY <1>1, <2>1, QuietCall
<1>4. ASSUME NEW policy \in Policies, SetPcReusePolicy(policy) PROVE PcInv'
  <2> DEFINE b == [ksp EXCEPT !.reuse = policy]
             d == [b EXCEPT !.setup = FALSE]
  <2>1. Becomes(d)
    BY <1>4 DEF SetPcReusePolicy, InvalidateSolver
  <2>2. Same(ksp, b, {"reuse"}) /\ DOMAIN b = Fields
    BY ContextFields DEF Same
  <2> HIDE DEF b
  <2>3. Same(ksp, d, {"reuse", "setup"}) /\ ~d.setup
    BY <2>2 DEF Same, Fields
  <2> HIDE DEF d
  <2> QED BY <1>1, <2>1, <2>3, QuietCall
<1>5. CASE SetTolerances
  <2> DEFINE t == IF ksp.type = "preonly" THEN "none" ELSE ksp.type
             b == [ksp EXCEPT !.prepared = FALSE, !.solver = t]
             c == [ksp EXCEPT !.setup = FALSE]
             d == [b EXCEPT !.setup = FALSE]
  <2>1. Becomes(c) \/ Becomes(d)
    BY <1>5 DEF SetTolerances, InvalidateSolver
  <2> HIDE DEF t
  <2>2. Same(ksp, c, {"setup"}) /\ ~c.setup
    BY ContextFields DEF Same, Fields
  <2>3. Same(ksp, b, {"prepared", "solver"}) /\ DOMAIN b = Fields
    BY ContextFields DEF Same
  <2> HIDE DEF b, c
  <2>4. Same(ksp, d, {"prepared", "solver", "setup"}) /\ ~d.setup
    BY <2>3 DEF Same, Fields
  <2> HIDE DEF d
  <2> QED BY <1>1, <2>1, <2>2, <2>4, QuietCall
<1>6. CASE SetRestart
  <2> DEFINE b == [ksp EXCEPT !.prepared = FALSE]
             d == [b EXCEPT !.setup = FALSE]
  <2>1. Becomes(d)
    BY <1>6 DEF SetRestart, InvalidateSolver
  <2>2. Same(ksp, b, {"prepared"}) /\ DOMAIN b = Fields
    BY ContextFields DEF Same
  <2> HIDE DEF b
  <2>3. Same(ksp, d, {"prepared", "setup"}) /\ ~d.setup
    BY <2>2 DEF Same, Fields
  <2> HIDE DEF d
  <2> QED BY <1>1, <2>1, <2>3, QuietCall
<1> QED BY <1>2, <1>3, <1>4, <1>5, <1>6

(* A choice makes or defers the preconditioner, and forgets the ids.       *)
LEMMA ChoiceSound ==
  ASSUME ksp \in Contexts, PcInv,
         version \in Versions, (\E kind \in PcKinds : SetPcType(kind)) \/ SetPcChain
  PROVE  PcInv'
<1> DEFINE made(kind, x, y) == [ksp EXCEPT !.chosen = kind, !.lost = FALSE, !.active = 1,
                                           !.pc = x, !.pending = y]
           d(kind, x, y) == [made(kind, x, y) EXCEPT !.setup = FALSE, !.last = NoIds]
<1>1. version' = version
  BY DEF SetPcType, SetPcChain
<1>2. ASSUME NEW kind, NEW x, NEW y, x.there \in BOOLEAN, y \in BOOLEAN, Becomes(d(kind, x, y)),
             y => kind \in PcKinds /\ ~x.there, kind \in PcKinds => x.there \/ y
      PROVE  PcInv'
  <2> DEFINE b == made(kind, x, y)
             c == d(kind, x, y)
  <2>1. /\ Same(ksp, b, {"chosen", "lost", "active", "pc", "pending"}) /\ DOMAIN b = Fields
        /\ b.chosen = kind /\ b.pc = x /\ b.pending = y /\ ~b.lost
    BY ContextFields DEF Same, Fields
  <2> HIDE DEF made
  <2>2. Same(b, c, {"setup", "last"}) /\ ~c.setup /\ c.last = NoIds
    BY <2>1 DEF Same, Fields
  <2>3. /\ c.chosen = kind /\ c.pc = x /\ c.pending = y /\ ~c.lost
        /\ c.op = ksp.op /\ c.blind = ksp.blind
    <3> HIDE DEF d
    <3>1. /\ c.chosen = b.chosen /\ c.pc = b.pc /\ c.pending = b.pending /\ c.lost = b.lost
          /\ c.op = b.op /\ c.blind = b.blind
      BY <2>1, <2>2 DEF Same, Fields
    <3> QED BY <2>1, <3>1, SameFields DEF Fields
  <2> HIDE DEF d
  <2>4. ~c.last.there /\ c.last.s = 0 /\ c.last.v = 0
    BY <2>2 DEF NoIds
  <2>5. Recorded(c, version')
    <3>1. version \in Nat
      BY KspAssumption DEF Versions
    <3> HIDE DEF c
    <3> QED BY <1>1, <2>3, <2>4, <3>1 DEF PcInv, Sound, Recorded
  <2>6. Placed(c) /\ Telling(c)
    BY <1>2, <2>3, <2>4 DEF PcInv, Sound, Placed, Telling
  <2>7. Held(c)
    BY <2>2 DEF Held
  <2> QED BY <1>2, <2>5, <2>6, <2>7, BecomesSound DEF Sound
<1>3. ASSUME NEW kind \in PcKinds, SetPcType(kind) PROVE PcInv'
  <2> DEFINE x == [NoPc EXCEPT !.there = kind \notin Deferred]
             y == kind \in Deferred
  <2>1. Becomes(d(kind, x, y))
    BY <1>3 DEF SetPcType, InvalidatePc
  <2>2. x.there = IF kind \in Deferred THEN FALSE ELSE TRUE
    BY DEF NoPc
  <2>3. /\ x.there \in BOOLEAN /\ y \in BOOLEAN
        /\ y => kind \in PcKinds /\ ~x.there
        /\ kind \in PcKinds => x.there \/ y
    <3> HIDE DEF x
    <3>1. CASE kind \in Deferred
      BY <2>2, <3>1
    <3>2. CASE kind \notin Deferred
      BY <2>2, <3>2
    <3> QED BY <3>1, <3>2
  <2> HIDE DEF x, y, d
  <2> QED BY <2>1, <2>3, <1>2
<1>4. CASE SetPcChain
  <2>1. Becomes(d("chain", NoPc, FALSE))
    BY <1>4 DEF SetPcChain, InvalidatePc
  <2>2. NoPc.there = FALSE /\ "chain" \notin PcKinds
    BY KspAssumption DEF NoPc
  <2> HIDE DEF d
  <2> QED BY <2>1, <2>2, <1>2
<1> QED BY <1>3, <1>4

(* New operators make all ids void, an edit moves the ids on.              *)
LEMMA OperatorCallsSound ==
  ASSUME ksp \in Contexts, version \in Versions, PcInv,
         \/ \E size \in Sizes, comm \in Comms, known \in BOOLEAN, agree \in BOOLEAN :
              SetOperators(size, comm, known, agree)
         \/ EditStructure \/ EditValues
  PROVE  PcInv'
<1>1. version \in Nat
  BY KspAssumption DEF Versions
<1>2. ASSUME NEW size \in Sizes, NEW comm \in Comms, NEW known \in BOOLEAN, NEW agree \in BOOLEAN,
             SetOperators(size, comm, known, agree)
      PROVE  PcInv'
  <2> DEFINE o == [size |-> size, comm |-> comm, known |-> known, s |-> version + 1, v |-> version + 1]
             n == IF ksp.bound = "none" THEN comm ELSE ksp.bound
             a == [ksp EXCEPT !.bound = n]
             b == [ksp EXCEPT !.bound = n, !.edited = FALSE, !.blind = FALSE, !.op = o]
             d == [b EXCEPT !.setup = FALSE, !.last = NoIds]
  <2>1. (version' = version /\ Becomes(a)) \/ (version' = version + 1 /\ Becomes(d))
    BY <1>2 DEF SetOperators, InvalidatePc
  <2>2. o.s = version + 1 /\ o.v = version + 1
    OBVIOUS
  <2> HIDE DEF n, o
  <2>3. Same(ksp, a, {"bound"}) /\ (~a.setup \/ "setup" \notin {"bound"})
    BY DEF Same
  <2>4. /\ Same(ksp, b, {"bound", "edited", "blind", "op"}) /\ DOMAIN b = Fields
        /\ b.op = o /\ ~b.blind
    BY ContextFields DEF Same, Fields
  <2> HIDE DEF a, b
  <2>5. CASE version' = version /\ Becomes(a)
    BY <2>3, <2>5, QuietCall
  <2>6. CASE version' = version + 1 /\ Becomes(d)
    <3>1. Same(b, d, {"setup", "last"}) /\ ~d.setup /\ d.last = NoIds
      BY <2>4 DEF Same, Fields
    <3> HIDE DEF d
    <3>2. d.op = b.op /\ d.blind = b.blind
      BY <2>4, <3>1 DEF Same, Fields
    <3>3. Same(ksp, d, {"bound", "edited", "blind", "op", "setup", "last"})
      BY <2>4, <3>1, SameTwice
    <3>4. /\ d.pending = ksp.pending /\ d.chosen = ksp.chosen /\ d.pc = ksp.pc
          /\ d.lost = ksp.lost
      BY <3>3, SameFields DEF Fields
    <3>5. ~d.last.there /\ d.last.s = 0 /\ d.last.v = 0
      BY <3>1 DEF NoIds
    <3>6. Recorded(d, version')
      BY <1>1, <2>2, <2>4, <2>6, <3>2, <3>5 DEF Recorded
    <3>7. Placed(d) /\ Telling(d)
      BY <2>4, <3>2, <3>4, <3>5 DEF PcInv, Sound, Placed, Telling
    <3>8. Held(d)
      BY <3>1 DEF Held
    <3> QED BY <2>6, <3>6, <3>7, <3>8, BecomesSound DEF Sound
  <2> QED BY <2>1, <2>5, <2>6
<1>3. ksp.op \in Operators /\ DOMAIN ksp.op = {"size", "comm", "known", "s", "v"}
  BY OperatorTypes DEF Operators
<1>4. CASE EditStructure
  <2> DEFINE b == ksp.blind \/ ~ksp.op.known
             d == [ksp EXCEPT !.op.s = version + 1, !.edited = TRUE, !.blind = b]
  <2>1. version' = version + 1 /\ Becomes(d)
    BY <1>4 DEF EditStructure
  <2>2. b = (ksp.blind \/ ~ksp.op.known)
    OBVIOUS
  <2> HIDE DEF b
  <2>3. /\ Same(ksp, d, {"op", "edited", "blind"}) /\ d.op = [ksp.op EXCEPT !.s = version + 1]
        /\ d.edited /\ d.blind = b
    BY ContextFields DEF Same, Fields
  <2> HIDE DEF d
  <2>4. d.op.s = version + 1 /\ d.op.v = ksp.op.v /\ d.op.known = ksp.op.known
    BY <1>3, <2>3
  <2>5. /\ d.pending = ksp.pending /\ d.chosen = ksp.chosen /\ d.pc = ksp.pc /\ d.last = ksp.last
        /\ d.lost = ksp.lost /\ d.setup = ksp.setup /\ d.refused = ksp.refused
    BY <2>3, SameFields DEF Fields
  <2>6. Recorded(d, version')
    BY <1>1, <2>1, <2>4, <2>5, Numbers DEF PcInv, Sound, Recorded
  <2>7. d.last.s # d.op.s
    BY <1>1, <2>4, <2>5, Numbers DEF PcInv, Sound, Recorded
  <2>8. Placed(d) /\ Telling(d)
    BY <2>2, <2>3, <2>4, <2>5, <2>7 DEF PcInv, Sound, Placed, Telling
  <2>9. Held(d)
    BY <2>3, <2>5 DEF PcInv, Held
  <2> QED BY <2>1, <2>6, <2>8, <2>9, BecomesSound DEF Sound
<1>5. CASE EditValues
  <2> DEFINE d == [ksp EXCEPT !.op.v = version + 1, !.edited = TRUE]
  <2>1. version' = version + 1 /\ Becomes(d)
    BY <1>5 DEF EditValues
  <2>2. /\ Same(ksp, d, {"op", "edited"}) /\ d.op = [ksp.op EXCEPT !.v = version + 1]
        /\ d.edited
    BY ContextFields DEF Same, Fields
  <2> HIDE DEF d
  <2>3. d.op.v = version + 1 /\ d.op.s = ksp.op.s /\ d.op.known = ksp.op.known
    BY <1>3, <2>2
  <2>4. /\ d.pending = ksp.pending /\ d.chosen = ksp.chosen /\ d.pc = ksp.pc /\ d.last = ksp.last
        /\ d.lost = ksp.lost /\ d.setup = ksp.setup /\ d.refused = ksp.refused
        /\ d.blind = ksp.blind
    BY <2>2, SameFields DEF Fields
  <2>5. Recorded(d, version')
    BY <1>1, <2>1, <2>3, <2>4, Numbers DEF PcInv, Sound, Recorded
  <2>6. d.last.v # d.op.v
    BY <1>1, <2>3, <2>4, Numbers DEF PcInv, Sound, Recorded
  <2>7. Placed(d) /\ Telling(d)
    BY <2>3, <2>4, <2>6 DEF PcInv, Sound, Placed, Telling
  <2>8. Held(d)
    BY <2>2, <2>4 DEF PcInv, Held
  <2> QED BY <2>1, <2>5, <2>7, <2>8, BecomesSound DEF Sound
<1> QED BY <1>2, <1>4, <1>5

(* What the user is told of a set-up has nothing to do with ids.           *)
LEMMA ToldSound ==
  ASSUME NEW k \in Contexts, NEW n, Sound(k, n), NEW d, Same(k, d, {"refused", "edited"})
  PROVE  /\ Sound(d, n)
         /\ d.pending = k.pending /\ d.chosen = k.chosen /\ d.pc = k.pc /\ d.op = k.op
         /\ d.lost = k.lost /\ d.setup = k.setup /\ d.spoilt = k.spoilt /\ d.blind = k.blind
         /\ d.last = k.last
<1>1. {"refused", "edited"} \cap SoundFields = {}
  BY DEF SoundFields
<1>2. Sound(d, n)
  BY <1>1, SoundSame
<1> QED BY <1>2, SameFields DEF Fields

(* A set-up that is refused leaves the context as much set up as it was;   *)
(* the solver is kept from it by what the user is told only.               *)
LEMMA SetupSoundCall ==
  ASSUME Good(ksp), version \in Versions, PcInv, Setup
  PROVE  PcInv'
<1>1. version' = version /\ version \in Nat
  BY KspAssumption DEF Setup, Versions
<1>2. PICK e \in SetupResults(ksp) :
         Becomes([e.k EXCEPT !.refused = e.how = "err", !.edited = @ /\ e.how = "err"])
  BY DEF Setup
<1>3. /\ Sound(e.k, version)
      /\ e.k.pending => e.k = ksp
      /\ e.how # "ok" => e.k.setup = ksp.setup
      /\ e.how # "err" => Current(e.k) /\ Chosen(e.k) /\ ~e.k.pending
  BY <1>1, SetupSound DEF PcInv
<1>4. e.k \in Contexts
  BY SetupGood DEF Good
<1> DEFINE a == e.how = "err"
           b == e.k.edited /\ e.how = "err"
           d == [e.k EXCEPT !.refused = a, !.edited = b]
<1>5. Becomes(d)
  BY <1>2
<1>6. a = (e.how = "err") /\ (e.how # "err" => ~b)
  OBVIOUS
<1> HIDE DEF a, b
<1>7. Same(e.k, d, {"refused", "edited"}) /\ d.refused = a /\ d.edited = b
  BY <1>4, ContextFields DEF Same, Fields
<1> HIDE DEF d
<1>8. /\ Sound(d, version)
      /\ d.pending = e.k.pending /\ d.chosen = e.k.chosen /\ d.pc = e.k.pc /\ d.op = e.k.op
      /\ d.lost = e.k.lost /\ d.setup = e.k.setup /\ d.spoilt = e.k.spoilt /\ d.blind = e.k.blind
      /\ d.last = e.k.last
  BY <1>3, <1>4, <1>7, ToldSound
<1>9. Held(d)
  <2>1. CASE e.how = "err"
    BY <1>3, <1>6, <1>7, <1>8, <2>1 DEF PcInv, Held
  <2>2. CASE e.how # "err"
    <3>1. "chain" # "none" /\ (d.chosen = "chain" => ~d.lost)
      BY <1>8, KspAssumption DEF Sound, Placed
    <3> QED BY <1>3, <1>8, <2>2, <3>1 DEF Held, Current, Chosen, Fresh, Noted
  <2> QED BY <2>1, <2>2
<1> QED BY <1>1, <1>5, <1>8, <1>9, BecomesSound

LEMMA SolveSoundCall ==
  ASSUME Good(ksp), version \in Versions, PcInv, Solve
  PROVE  PcInv'
<1>1. version' = version /\ version \in Nat /\ ksp \in Contexts
  BY KspAssumption DEF Solve, Versions, Good
<1>2. PICK e \in SolveSetup(ksp) :
         LET k == IF ksp.setup \/ e.how = "err" THEN e.k
                  ELSE [e.k EXCEPT !.refused = FALSE, !.edited = FALSE]
         IN /\ ksp' = k
            /\ ran' = (e.how # "err" /\ IF k.type = "preonly" THEN k.pc.there ELSE k.solver # "none")
            /\ early' = (e.how = "early")
  BY DEF Solve
<1>3. ran' => e.how # "err"
  BY <1>2
<1>4. ASSUME Sound(ksp', version), Held(ksp'),
             ran' => (ksp'.pc.there /\ ~ksp'.edited /\ ~ksp'.refused /\ ~ksp'.spoilt => Fresh(ksp')),
             ran' => (ksp'.chosen # "none" /\ ~ksp'.lost /\ ~ksp'.refused => ksp'.pc.there)
      PROVE  PcInv'
  BY <1>1, <1>4 DEF PcInv, CurrentPc, ChosenPcUsed, Sound, Recorded, Placed, Telling, Held, Fresh
<1>5. CASE ksp.setup
  <2>1. ksp' = ksp
    BY <1>2, <1>5, EndsFields DEF SolveSetup
  <2>2. ksp.chosen # "none" /\ ~ksp.lost /\ ~ksp.refused => ksp.pc.there
    BY <1>1, <1>5 DEF PcInv, Held, Sound, Placed, Contexts
  <2>3. Sound(ksp, version) /\ Held(ksp)
    BY DEF PcInv
  <2>4. ksp.pc.there /\ ~ksp.edited /\ ~ksp.refused /\ ~ksp.spoilt => Fresh(ksp)
    BY <1>5, <2>3 DEF Held
  <2> QED BY <1>4, <2>1, <2>2, <2>3, <2>4
<1>6. CASE ~ksp.setup
  <2>1. e \in SetupResults(ksp)
    BY <1>6 DEF SolveSetup
  <2>2. /\ Sound(e.k, version) /\ e.k \in Contexts
        /\ e.how # "ok" => e.k.setup = ksp.setup
        /\ e.how # "err" => Current(e.k) /\ Chosen(e.k) /\ ~e.k.pending
    BY <1>1, <2>1, SetupSound, SetupGood DEF PcInv, Good
  <2>3. CASE e.how = "err"
    <3>1. ksp' = e.k /\ ~ksp'.setup
      BY <1>2, <1>6, <2>2, <2>3
    <3> QED BY <1>3, <1>4, <2>2, <2>3, <3>1 DEF Held
  <2>4. CASE e.how # "err"
    <3> DEFINE d == [e.k EXCEPT !.refused = FALSE, !.edited = FALSE]
    <3>1. ksp' = d
      BY <1>2, <1>6, <2>4
    <3>2. Same(e.k, d, {"refused", "edited"}) /\ ~d.refused /\ ~d.edited
      BY <2>2, ContextFields DEF Same, Fields
    <3> HIDE DEF d
    <3>3. /\ Sound(d, version)
          /\ d.pending = e.k.pending /\ d.chosen = e.k.chosen /\ d.pc = e.k.pc /\ d.op = e.k.op
          /\ d.lost = e.k.lost /\ d.setup = e.k.setup /\ d.spoilt = e.k.spoilt /\ d.blind = e.k.blind
          /\ d.last = e.k.last
      BY <2>2, <3>2, ToldSound
    <3>4. (d.pc.there /\ ~d.spoilt => Fresh(d)) /\ (d.chosen # "none" /\ ~d.lost => d.pc.there)
      BY <2>2, <2>4, <3>3 DEF Current, Chosen, Fresh
    <3>5. Held(d)
      <4>1. "chain" # "none" /\ (d.chosen = "chain" => ~d.lost)
        BY <3>3, KspAssumption DEF Sound, Placed
      <4>2. Noted(d)
        BY <2>2, <2>4, <3>3 DEF Current, Noted
      <4> QED BY <2>2, <2>4, <3>3, <3>4, <4>1, <4>2 DEF Held
    <3> QED BY <1>4, <3>1, <3>3, <3>4, <3>5
  <2> QED BY <2>3, <2>4
<1> QED BY <1>5, <1>6

LEMMA StepSound == IInv /\ PcInv /\ [Next]_vars => PcInv'
<1> SUFFICES ASSUME IInv, PcInv, [Next]_vars PROVE PcInv'
  OBVIOUS
<1>1. Good(ksp) /\ version \in Versions /\ ksp \in Contexts
  BY DEF IInv, Good
<1>2. CASE \/ \E type \in Types : SetType(type)
           \/ \E bad \in BOOLEAN : StageCgNorm(bad)
           \/ \E policy \in Policies : SetPcReusePolicy(policy)
           \/ SetTolerances \/ SetRestart
  BY <1>1, <1>2, SolverCallsSound
<1>3. CASE (\E kind \in PcKinds : SetPcType(kind)) \/ SetPcChain
  BY <1>1, <1>3, ChoiceSound
<1>4. CASE \/ \E size \in Sizes, comm \in Comms, known \in BOOLEAN, agree \in BOOLEAN :
                SetOperators(size, comm, known, agree)
           \/ EditStructure \/ EditValues
  BY <1>1, <1>4, OperatorCallsSound
<1>5. CASE Setup
  BY <1>1, <1>5, SetupSoundCall
<1>6. CASE Solve
  BY <1>1, <1>6, SolveSoundCall
<1>7. CASE UNCHANGED vars
  BY <1>7 DEF PcInv, CurrentPc, ChosenPcUsed, Sound, Recorded, Placed, Telling, Held, Fresh, vars
<1> QED
  BY <1>2, <1>3, <1>4, <1>5, <1>6, <1>7 DEF Next

LEMMA PcInvariantHolds == Spec => []PcInv
BY InitPcInv, StepSound, InvariantHolds, PTL DEF Spec

(* The preconditioner a solve uses was built from the operator in its      *)
(* present state, whatever was edited, reused, rebuilt or failed before,   *)
(* with the exceptions CurrentPc names.                                    *)
THEOREM PcAlwaysCurrent == Spec => []CurrentPc
<1>1. PcInv => CurrentPc
  BY DEF PcInv
<1> QED
  BY <1>1, PcInvariantHolds, PTL

(* A solve never leaves out the preconditioner that was chosen, whichever  *)
(* way setup_impl came to it: at once, deferred, from a chain, or again.   *)
THEOREM ChosenAlwaysUsed == Spec => []ChosenPcUsed
<1>1. PcInv => ChosenPcUsed
  BY DEF PcInv
<1> QED
  BY <1>1, PcInvariantHolds, PTL

------------------------------------------------------------------------------
(* A set-up that has nothing to do.                                        *)
LEMMA NothingToDo ==
  ASSUME NEW k \in Contexts, Noted(k), ~k.pending, k.chosen = "chain" => k.pc.there,
         k.op.known, k.reuse # "ReuseNumeric", NEW e \in SetupResults(k)
  PROVE  Same(k, e.k, {"work", "prepared", "setup"})
<1>1. Same(k, k, {"work", "prepared", "setup"})
  BY DEF Same
<1>2. CASE k.op = NoOp
  BY <1>1, <1>2, EndsFields DEF SetupResults
<1>3. CASE k.op # NoOp
  <2>1. PICK d \in AndRefreshed(AndChained(Constructed(k))) :
           e = IF d.how = "on" THEN Ends(Completed(d.k), "ok") ELSE d
    BY <1>3 DEF SetupResults
  <2>2. PICK c \in AndChained(Constructed(k)) :
           d \in IF c.how = "on" THEN Refreshed(c.k) ELSE {c}
    BY DEF AndRefreshed
  <2>3. PICK b \in Constructed(k) : c \in IF b.how = "on" THEN Chained(b.k) ELSE {b}
    BY DEF AndChained
  <2>4. b.k = k /\ b.how = "on"
    BY <2>3, EndsFields DEF Constructed
  <2>5. c.k = k /\ c.how = "on"
    <3>1. c \in Chained(k)
      BY <2>3, <2>4
    <3>2. CASE k.pc.there
      BY <3>1, <3>2, EndsFields DEF Chained
    <3>3. CASE ~k.pc.there
      <4>1. c = Ends([k EXCEPT !.last = NoIds], "on") /\ k.last = NoIds
        BY <3>1, <3>3 DEF Chained, Noted
      <4>2. [k EXCEPT !.last = NoIds] = k
        BY <4>1 DEF Contexts
      <4> QED BY <4>1, <4>2, EndsFields
    <3> QED BY <3>2, <3>3
  <2>6. d.k = k /\ d.how \in {"on", "err"}
    <3>1. d \in Refreshed(k)
      BY <2>2, <2>5
    <3>2. CASE ~k.pc.there
      BY <3>1, <3>2, EndsFields DEF Refreshed
    <3>3. CASE k.pc.there
      <4>1. k.last.there /\ k.last.s = Ids(k.op).s /\ ~Changed(k)
        BY <3>3 DEF Noted, Changed
      <4>2. d = Ends(k, "err") \/ d = Ends(k, "on")
        BY <3>1, <3>3, <4>1 DEF Refreshed
      <4> QED BY <4>2, EndsFields
    <3> QED BY <3>2, <3>3
  <2>7. CASE d.how = "on"
    <3> DEFINE w == k.op.size
               p == k.solver # "none"
               f == [k EXCEPT !.work = w, !.prepared = p, !.setup = TRUE]
    <3>1. e = Ends(f, "ok")
      BY <2>1, <2>6, <2>7 DEF Completed
    <3>2. Same(k, f, {"work", "prepared", "setup"})
      <4> HIDE DEF w, p
      <4> QED BY DEF Same
    <3> HIDE DEF f
    <3> QED BY <3>1, <3>2, EndsFields
  <2>8. CASE d.how = "err"
    BY <1>1, <2>1, <2>6, <2>8
  <2> QED BY <2>6, <2>7, <2>8
<1> QED BY <1>2, <1>3

LEMMA CheapSetup ==
  ASSUME ksp \in Contexts, PcInv, ksp.setup, ~ksp.edited, ~ksp.refused, ksp.op.known,
         ksp.reuse # "ReuseNumeric", Setup
  PROVE  UNCHANGED <<ksp.pc, ksp.last, ksp.active>>
<1>1. PICK e \in SetupResults(ksp) :
         Becomes([e.k EXCEPT !.refused = e.how = "err", !.edited = @ /\ e.how = "err"])
  BY DEF Setup
<1>2. Same(ksp, e.k, {"work", "prepared", "setup"})
  BY NothingToDo DEF PcInv, Held
<1> DEFINE a == e.how = "err"
           b == e.k.edited /\ e.how = "err"
           d == [e.k EXCEPT !.refused = a, !.edited = b]
<1>3. ksp' = d
  BY <1>1 DEF Becomes
<1>4. Same(e.k, d, {"refused", "edited"})
  <2> HIDE DEF a, b
  <2> QED BY DEF Same
<1> HIDE DEF d
<1>5. Same(ksp, d, {"work", "prepared", "setup", "refused", "edited"})
  BY <1>2, <1>4, SameTwice
<1>6. d.pc = ksp.pc /\ d.last = ksp.last /\ d.active = ksp.active
  BY <1>5, SameFields DEF Fields
<1> QED BY <1>3, <1>6

(* A repeated set-up of an operator that nobody edited leaves the          *)
(* preconditioner, its ids and the active candidate of a chain alone: the  *)
(* ids that the context remembers are still those of the operator.         *)
THEOREM SetupAlwaysCheap == Spec => SetupIsCheap
<1>1. IInv => ksp \in Contexts
  BY DEF IInv, Good
<1>2. IInv /\ PcInv /\ [Next]_vars =>
        [ksp.setup /\ ~ksp.edited /\ ~ksp.refused /\ ksp.op.known
           /\ ksp.reuse # "ReuseNumeric" /\ Setup
           => UNCHANGED <<ksp.pc, ksp.last, ksp.active>>]_vars
  BY <1>1, CheapSetup
<1> QED
  BY <1>2, InvariantHolds, PcInvariantHolds, PTL DEF Spec, SetupIsCheap
=============================================================================
