--------------------------- MODULE DistCsr_proofs ---------------------------
(***************************************************************************)
(* Proofs about DistCsr: the products with ghosts are exact on every rank, *)
(* and the whole product on every rank that chose the plan of its local    *)
(* block.  They hold for every number of ranks, partition of the rows and  *)
(* pattern, whatever overlap modes the ranks choose.                       *)
(***************************************************************************)
EXTENDS DistCsr, FiniteSetTheorems, SequenceTheorems, TLAPS

Phases == {"idle", "posted", "local", "received", "both", "returned"}

TypeOK ==
  /\ A \in Patterns
  /\ mode \in [Ranks -> Modes]
  /\ vals \in [Ranks -> Nat]
  /\ diagVals \in [Ranks -> Nat]
  /\ borderVals \in [Ranks -> Nat]
  /\ phase \in [Ranks -> Phases]
  /\ call \in [Ranks -> Nat]
  /\ published \in [Ranks -> Nat]
  /\ ghost \in [Ranks -> Nat]
  /\ y = [r \in Ranks |-> [i \in RowsOf[r] |-> y[r][i]]]

(* The three copies of the values are the same.                            *)
OneValue(r) == diagVals[r] = vals[r] /\ borderVals[r] = vals[r]

(* What a rank has received belongs to the present call.                   *)
Received(r) ==
  phase[r] \in {"received", "both"} /\ Participates(r) => ghost[r] = call[r]

(* What the local kernel leaves in row i of a cleared y, and what the      *)
(* border kernel adds to it.                                               *)
LocalPart(r, i) ==
  CASE LocalDiagPlan(r) -> Terms(r, A[i] \cap RowsOf[r], diagVals[r])
    [] ~LocalDiagPlan(r) /\ RowIsLocal(i, r) -> Terms(r, A[i], vals[r])
    [] OTHER -> <<>>
BorderPart(r, i) ==
  IF RowIsLocal(i, r) THEN <<>> ELSE Terms(r, GhostCols(i, r), borderVals[r])

(* Row i, phase by phase.                                                  *)
RowInv(r, i) ==
  /\ phase[r] \in {"posted", "received"} => y[r][i] = <<>>
  /\ phase[r] \in {"local", "both"} => y[r][i] = LocalPart(r, i)
  /\ phase[r] = "returned" => y[r][i] = LocalPart(r, i) \o BorderPart(r, i)

RankInv(r) == OneValue(r) /\ Received(r) /\ \A i \in RowsOf[r] : RowInv(r, i)

IInv == TypeOK /\ \A r \in Ranks : RankInv(r)

------------------------------------------------------------------------------
(* A finite set as a sequence: every element once.                         *)
LEMMA SeqOfSet ==
  ASSUME NEW S, IsFiniteSet(S)
  PROVE  /\ SetToSeq(S) \in Seq(S)
         /\ \A x \in S : \E j \in DOMAIN SetToSeq(S) : SetToSeq(S)[j] = x
         /\ \A j, k \in DOMAIN SetToSeq(S) : SetToSeq(S)[j] = SetToSeq(S)[k] => j = k
<1> DEFINE n == Cardinality(S)
           f == SetToSeq(S)
<1>1. n \in Nat /\ ExistsBijection(1..n, S)
  BY FS_CardinalityType
<1>2. \E g \in [1..n -> S] : IsInjective(g)
  BY <1>1 DEF ExistsBijection, Bijection, Injection
<1>3. f \in [1..n -> S] /\ IsInjective(f)
  BY <1>2 DEF SetToSeq
<1>4. f \in Injection(1..n, S)
  BY <1>3 DEF Injection
<1>5. IsFiniteSet(1..n) /\ Cardinality(1..n) = n
  BY <1>1, FS_Interval
<1>6. f \in Surjection(1..n, S)
  BY <1>4, <1>5, FS_Injection
<1>7. f \in Seq(S)
  BY <1>1, <1>3
<1>8. DOMAIN f = 1..n
  BY <1>3
<1> QED
  BY <1>3, <1>6, <1>7, <1>8 DEF Surjection, IsInjective

(* The columns of a row are finitely many.                                 *)
LEMMA FiniteColumns ==
  ASSUME TypeOK, NEW r \in Ranks, NEW i \in RowsOf[r]
  PROVE  /\ A[i] \subseteq AllRows
         /\ \A C \in SUBSET A[i] : IsFiniteSet(C)
<1>1. i \in AllRows
  BY DEF AllRows
<1>2. A \in [AllRows -> SUBSET AllRows]
  BY CsrAssumption DEF TypeOK
<1>3. A[i] \in SUBSET AllRows
  BY <1>1, <1>2
<1>4. IsFiniteSet(AllRows)
  BY CsrAssumption
<1> QED
  BY <1>3, <1>4, FS_Subset

(* Terms of columns: a sequence that has every column once.                *)
LEMMA TermsExact ==
  ASSUME NEW r, NEW C, NEW v, IsFiniteSet(C)
  PROVE  LET s == Terms(r, C, v) IN
         /\ s \in Seq({Term(r, c, v) : c \in C})
         /\ \A c \in C : \E j \in DOMAIN s : s[j] = Term(r, c, v)
         /\ \A j, k \in DOMAIN s : s[j] = s[k] => j = k
         /\ \A j \in DOMAIN s : s[j][1] \in C
<1> DEFINE T == {Term(r, c, v) : c \in C}
           g == [c \in C |-> Term(r, c, v)]
           s == Terms(r, C, v)
<1>1. g \in Surjection(C, T)
  BY DEF Surjection
<1>2. IsFiniteSet(T)
  BY <1>1, FS_Surjection
<1>3. s = SetToSeq(T)
  BY DEF Terms
<1>4. /\ s \in Seq(T)
      /\ \A x \in T : \E j \in DOMAIN s : s[j] = x
      /\ \A j, k \in DOMAIN s : s[j] = s[k] => j = k
  <2> HIDE DEF T
  <2> QED
    BY <1>2, <1>3, SeqOfSet
<1>5. \A j \in DOMAIN s : s[j] \in T
  BY <1>4
<1>6. \A x \in T : x[1] \in C
  BY DEF Term
<1>7. \A c \in C : Term(r, c, v) \in T
  OBVIOUS
<1> QED
  BY <1>4, <1>5, <1>6, <1>7

------------------------------------------------------------------------------
(* The split of the rows and the kernel depend on the matrix alone.        *)
LEMMA SameSplit ==
  ASSUME A' = A, NEW r \in Ranks
  PROVE  /\ \A i : GhostCols(i, r)' = GhostCols(i, r) /\ RowIsLocal(i, r)' = RowIsLocal(i, r)
         /\ Participates(r)' = Participates(r)
         /\ LocalDiagPlan(r)' = LocalDiagPlan(r)
<1>1. \A i, q : GhostCols(i, q)' = GhostCols(i, q)
  BY DEF GhostCols
<1>2. \A i : RowIsLocal(i, r)' = RowIsLocal(i, r)
  BY <1>1 DEF RowIsLocal
<1>3. \A q : Ghosts(q)' = Ghosts(q)
  BY <1>1 DEF Ghosts
<1>4. \A q : Sources(q)' = Sources(q)
  BY <1>3 DEF Sources
<1>5. Targets(r)' = Targets(r)
  BY <1>4 DEF Targets
<1>6. LocalOnly(r)' = LocalOnly(r) /\ Border(r)' = Border(r)
  BY <1>2 DEF LocalOnly, Border
<1>7. Nnz(r)' = Nnz(r) /\ NRows(r)' = NRows(r)
  BY DEF Nnz, NRows
<1>8. GhostNnz(r)' = GhostNnz(r)
  BY <1>1 DEF GhostNnz
<1>9. Volume(r)' = Volume(r)
  BY <1>3, <1>5 DEF Volume
<1>10. \A x : PressureAtLeast(r, x)' = PressureAtLeast(r, x)
  BY <1>6, <1>7, <1>8, <1>9 DEF PressureAtLeast
<1>11. LocalDiagPlan(r)' = LocalDiagPlan(r)
  BY <1>6, <1>7, <1>10 DEF LocalDiagPlan
<1>12. Participates(r)' = Participates(r)
  BY <1>3, <1>5 DEF Participates
<1> QED
  BY <1>1, <1>2, <1>11, <1>12

(* As long as the operator and the call stay, so do the parts of a row.    *)
LEMMA SameParts ==
  ASSUME A' = A, NEW r \in Ranks, call'[r] = call[r], vals'[r] = vals[r],
         diagVals'[r] = diagVals[r], borderVals'[r] = borderVals[r]
  PROVE  /\ \A C, v : Terms(r, C, v)' = Terms(r, C, v)
         /\ \A i : LocalPart(r, i)' = LocalPart(r, i) /\ BorderPart(r, i)' = BorderPart(r, i)
<1>1. \A c, v : Term(r, c, v)' = Term(r, c, v)
  BY DEF Term
<1>2. \A C, v : Terms(r, C, v)' = Terms(r, C, v)
  BY <1>1 DEF Terms
<1>3. \A i : LocalPart(r, i)' = LocalPart(r, i)
  BY <1>2, SameSplit DEF LocalPart
<1>4. \A i : BorderPart(r, i)' = BorderPart(r, i)
  BY <1>2, SameSplit DEF BorderPart
<1> QED
  BY <1>2, <1>3, <1>4

(* A rank whose own state does not change.                                 *)
LEMMA Frame ==
  ASSUME NEW r \in Ranks, RankInv(r), A' = A,
         vals'[r] = vals[r], diagVals'[r] = diagVals[r], borderVals'[r] = borderVals[r],
         phase'[r] = phase[r], call'[r] = call[r], ghost'[r] = ghost[r], y'[r] = y[r]
  PROVE  RankInv(r)'
<1>1. OneValue(r)'
  BY DEF RankInv, OneValue
<1>2. Received(r)'
  BY SameSplit DEF RankInv, Received
<1>3. ASSUME NEW i \in RowsOf[r]
      PROVE  RowInv(r, i)'
  BY <1>3, SameParts DEF RankInv, RowInv
<1> QED
  BY <1>1, <1>2, <1>3 DEF RankInv

------------------------------------------------------------------------------
(* What the two kernels leave in a row: the products with the columns each *)
(* is for, every one once.                                                 *)
LocalColumns(r, i) ==
  IF LocalDiagPlan(r) THEN A[i] \cap RowsOf[r] ELSE IF RowIsLocal(i, r) THEN A[i] ELSE {}
LocalTerms(r, i) == {Term(r, c, vals[r]) : c \in LocalColumns(r, i)}
GhostTerms(r, i) == {Term(r, c, vals[r]) : c \in GhostCols(i, r)}

LEMMA LocalPartExact ==
  ASSUME TypeOK, NEW r \in Ranks, RankInv(r), NEW i \in RowsOf[r]
  PROVE  LET s == LocalPart(r, i) IN
         /\ s \in Seq(LocalTerms(r, i))
         /\ \A c \in LocalColumns(r, i) : \E j \in DOMAIN s : s[j] = Term(r, c, vals[r])
         /\ \A j, k \in DOMAIN s : s[j] = s[k] => j = k
         /\ \A j \in DOMAIN s : s[j][1] \in LocalColumns(r, i)
<1>2. LocalPart(r, i) = Terms(r, LocalColumns(r, i), vals[r])
        \/ (LocalPart(r, i) = <<>> /\ LocalColumns(r, i) = {})
  BY DEF RankInv, OneValue, LocalPart, LocalColumns
<1>3. IsFiniteSet(LocalColumns(r, i))
  BY FiniteColumns, FS_EmptySet DEF LocalColumns
<1>4. CASE LocalPart(r, i) = Terms(r, LocalColumns(r, i), vals[r])
  BY <1>3, <1>4, TermsExact DEF LocalTerms
<1>5. CASE LocalPart(r, i) = <<>> /\ LocalColumns(r, i) = {}
  BY <1>5
<1> QED
  BY <1>2, <1>4, <1>5

LEMMA BorderPartExact ==
  ASSUME TypeOK, NEW r \in Ranks, RankInv(r), NEW i \in RowsOf[r]
  PROVE  LET s == BorderPart(r, i) IN
         /\ s \in Seq(GhostTerms(r, i))
         /\ \A c \in GhostCols(i, r) : \E j \in DOMAIN s : s[j] = Term(r, c, vals[r])
         /\ \A j, k \in DOMAIN s : s[j] = s[k] => j = k
         /\ \A j \in DOMAIN s : s[j][1] \in GhostCols(i, r)
<1>1. CASE RowIsLocal(i, r)
  BY <1>1 DEF BorderPart, RowIsLocal
<1>2. CASE ~RowIsLocal(i, r)
  <2>1. IsFiniteSet(GhostCols(i, r))
    BY FiniteColumns DEF GhostCols
  <2>2. BorderPart(r, i) = Terms(r, GhostCols(i, r), vals[r])
    BY <1>2 DEF BorderPart, RankInv, OneValue
  <2>3. LET s == Terms(r, GhostCols(i, r), vals[r]) IN
        /\ s \in Seq(GhostTerms(r, i))
        /\ \A c \in GhostCols(i, r) : \E j \in DOMAIN s : s[j] = Term(r, c, vals[r])
        /\ \A j, k \in DOMAIN s : s[j] = s[k] => j = k
        /\ \A j \in DOMAIN s : s[j][1] \in GhostCols(i, r)
    BY <2>1, TermsExact DEF GhostTerms
  <2> QED
    BY <2>2, <2>3
<1> QED
  BY <1>1, <1>2

(* One step of one rank: its own state is preserved, that of the others    *)
(* does not change.                                                        *)
LEMMA Others ==
  ASSUME IInv, NEW r \in Ranks, A' = A, RankInv(r)',
         \A q \in Ranks \ {r} :
           /\ vals'[q] = vals[q] /\ diagVals'[q] = diagVals[q] /\ borderVals'[q] = borderVals[q]
           /\ phase'[q] = phase[q] /\ call'[q] = call[q] /\ ghost'[q] = ghost[q] /\ y'[q] = y[q]
  PROVE  \A q \in Ranks : RankInv(q)'
<1> SUFFICES ASSUME NEW q \in Ranks, q # r
             PROVE  RankInv(q)'
  OBVIOUS
<1> QED
  BY Frame DEF IInv

LEMMA ChangeKeeps ==
  ASSUME IInv, NEW r \in Ranks, UpdateNumeric(r) \/ \E m \in Modes : SetMode(r, m)
  PROVE  IInv'
<1>1. phase'[r] = "idle"
  BY DEF IInv, TypeOK, UpdateNumeric, SetMode
<1>2. TypeOK'
  <2>1. CASE UpdateNumeric(r)
    BY <2>1 DEF IInv, TypeOK, UpdateNumeric, Phases
  <2>2. CASE \E m \in Modes : SetMode(r, m)
    BY <2>2 DEF IInv, TypeOK, SetMode, Phases
  <2> QED
    BY <2>1, <2>2
<1>3. OneValue(r)'
  BY DEF IInv, TypeOK, RankInv, OneValue, UpdateNumeric, SetMode
<1>4. RankInv(r)'
  BY <1>1, <1>3 DEF RankInv, Received, RowInv
<1> QED
  BY <1>2, <1>4, Others DEF IInv, TypeOK, UpdateNumeric, SetMode

LEMMA BeginKeeps ==
  ASSUME IInv, NEW r \in Ranks, Begin(r)
  PROVE  IInv'
<1>1. phase'[r] = "posted" /\ A' = A /\ \A i \in RowsOf[r] : y'[r][i] = <<>>
  BY DEF IInv, TypeOK, Begin, operator
<1>2. TypeOK'
  <2>1. published' \in [Ranks -> Nat]
    BY DEF IInv, TypeOK, Begin
  <2>2. y' = [q \in Ranks |-> [i \in RowsOf[q] |-> y'[q][i]]]
    BY DEF IInv, TypeOK, Begin
  <2> QED
    BY <2>1, <2>2 DEF IInv, TypeOK, Begin, operator, Phases
<1>3. OneValue(r)'
  BY DEF IInv, RankInv, OneValue, Begin, operator
<1>4. RankInv(r)'
  BY <1>1, <1>3 DEF RankInv, Received, RowInv
<1> QED
  BY <1>2, <1>4, Others DEF IInv, TypeOK, Begin, operator

LEMMA ReceiveKeeps ==
  ASSUME IInv, NEW r \in Ranks, Receive(r)
  PROVE  IInv'
<1>1. /\ A' = A /\ call' = call /\ y' = y
      /\ vals' = vals /\ diagVals' = diagVals /\ borderVals' = borderVals
      /\ ghost'[r] = IF Participates(r) THEN call[r] ELSE 0
      /\ \/ phase[r] = "posted" /\ phase'[r] = "received"
         \/ phase[r] = "local" /\ phase'[r] = "both"
  BY DEF IInv, TypeOK, Receive, operator
<1>2. TypeOK'
  BY DEF IInv, TypeOK, Receive, operator, Phases
<1>3. OneValue(r)' /\ Received(r)'
  BY <1>1, SameSplit DEF IInv, RankInv, OneValue, Received
<1>4. ASSUME NEW i \in RowsOf[r]
      PROVE  RowInv(r, i)'
  BY <1>1, <1>4, SameParts DEF IInv, RankInv, RowInv
<1>5. RankInv(r)'
  BY <1>3, <1>4 DEF RankInv
<1> QED
  BY <1>2, <1>5, Others DEF IInv, TypeOK, Receive, operator

LEMMA LocalKeeps ==
  ASSUME IInv, NEW r \in Ranks, MultiplyLocal(r)
  PROVE  IInv'
<1>1. /\ A' = A /\ call' = call /\ ghost' = ghost
      /\ vals' = vals /\ diagVals' = diagVals /\ borderVals' = borderVals
      /\ \/ phase[r] = "received" /\ phase'[r] = "both"
         \/ phase[r] = "posted" /\ phase'[r] = "local"
      /\ \A i \in RowsOf[r] : y'[r][i] = LocalRow(r, i)
  BY DEF IInv, TypeOK, MultiplyLocal, operator
<1>2. TypeOK'
  BY DEF IInv, TypeOK, MultiplyLocal, operator, Phases
<1>3. OneValue(r)' /\ Received(r)'
  BY <1>1, SameSplit DEF IInv, RankInv, OneValue, Received
<1>4. ASSUME NEW i \in RowsOf[r]
      PROVE  RowInv(r, i)'
  <2>1. y[r][i] = <<>>
    BY <1>1 DEF IInv, RankInv, RowInv
  <2>2. y'[r][i] = LocalPart(r, i)
    BY <1>1, <2>1 DEF LocalRow, LocalPart
  <2> QED
    BY <1>1, <2>2, SameParts DEF RowInv
<1>5. RankInv(r)'
  BY <1>3, <1>4 DEF RankInv
<1> QED
  BY <1>2, <1>5, Others DEF IInv, TypeOK, MultiplyLocal, operator

(* The products with ghosts are made of what was received for this call: a *)
(* row that has ghosts makes its rank a part of the exchange.              *)
LEMMA BorderKeeps ==
  ASSUME IInv, NEW r \in Ranks, MultiplyBorder(r)
  PROVE  IInv'
<1>1. /\ A' = A /\ call' = call /\ ghost' = ghost
      /\ vals' = vals /\ diagVals' = diagVals /\ borderVals' = borderVals
      /\ phase[r] = "both" /\ phase'[r] = "returned"
      /\ \A i \in RowsOf[r] : y'[r][i] =
           IF RowIsLocal(i, r) THEN y[r][i]
           ELSE y[r][i] \o SetToSeq({<<c, borderVals[r], ghost[r]>> : c \in GhostCols(i, r)})
  BY DEF IInv, TypeOK, MultiplyBorder, operator
<1>2. TypeOK'
  BY DEF IInv, TypeOK, MultiplyBorder, operator, Phases
<1>3. OneValue(r)' /\ Received(r)'
  BY <1>1 DEF IInv, RankInv, OneValue, Received
<1>4. ASSUME NEW i \in RowsOf[r]
      PROVE  RowInv(r, i)'
  <2>1. y[r][i] = LocalPart(r, i)
    BY <1>1 DEF IInv, RankInv, RowInv
  <2>2. y'[r][i] = LocalPart(r, i) \o BorderPart(r, i)
    <3>1. CASE RowIsLocal(i, r)
      <4>1. LocalPart(r, i) \in Seq(LocalTerms(r, i))
        BY LocalPartExact DEF IInv
      <4>2. LocalPart(r, i) \o <<>> = LocalPart(r, i)
        BY <4>1
      <4> QED
        BY <1>1, <2>1, <3>1, <4>2 DEF BorderPart
    <3>2. CASE ~RowIsLocal(i, r)
      <4>1. Participates(r)
        BY <3>2 DEF RowIsLocal, Ghosts, Participates
      <4>2. ghost[r] = call[r]
        BY <1>1, <4>1 DEF IInv, RankInv, Received
      <4>3. {<<c, borderVals[r], ghost[r]>> : c \in GhostCols(i, r)}
              = {Term(r, c, borderVals[r]) : c \in GhostCols(i, r)}
        BY <4>2 DEF Term
      <4> QED
        BY <1>1, <2>1, <3>2, <4>3 DEF BorderPart, Terms
    <3> QED
      BY <3>1, <3>2
  <2> QED
    BY <1>1, <2>2, SameParts DEF RowInv
<1>5. RankInv(r)'
  BY <1>3, <1>4 DEF RankInv
<1> QED
  BY <1>2, <1>5, Others DEF IInv, TypeOK, MultiplyBorder, operator

LEMMA Inductive == IInv /\ [Next]_vars => IInv'
<1> SUFFICES ASSUME IInv, [Next]_vars
             PROVE  IInv'
  OBVIOUS
<1>1. ASSUME NEW r \in Ranks, Multiply(r)
      PROVE  IInv'
  BY <1>1, BeginKeeps, ReceiveKeeps, LocalKeeps, BorderKeeps DEF Multiply
<1>2. ASSUME NEW r \in Ranks, UpdateNumeric(r) \/ \E m \in Modes : SetMode(r, m)
      PROVE  IInv'
  BY <1>2, ChangeKeeps
<1>3. CASE UNCHANGED vars
  <2>1. TypeOK'
    BY <1>3 DEF IInv, TypeOK, vars
  <2>2. ASSUME NEW r \in Ranks
        PROVE  RankInv(r)'
    BY <1>3, Frame DEF IInv, vars
  <2> QED
    BY <2>1, <2>2 DEF IInv
<1> QED
  BY <1>1, <1>2, <1>3 DEF Next

LEMMA Initially == Init => IInv
<1> SUFFICES ASSUME Init
             PROVE  IInv
  OBVIOUS
<1>1. \A r \in Ranks : ChosenMode(r) \in Modes
  BY DEF ChosenMode, Modes
<1>2. TypeOK
  BY <1>1 DEF Init, TypeOK, Phases
<1>3. ASSUME NEW r \in Ranks
      PROVE  RankInv(r)
  BY DEF Init, RankInv, OneValue, Received, RowInv
<1> QED
  BY <1>2, <1>3 DEF IInv

------------------------------------------------------------------------------
(* The types of the variables, for every instance.                         *)
THEOREM TypeCorrect == Spec => []TypeOK
<1>1. IInv => TypeOK
  BY DEF IInv
<1> QED
  BY <1>1, Initially, Inductive, PTL DEF Spec

(* A row that is the two parts one after the other holds the products with *)
(* the columns of the two, every one once, and no others.                  *)
LEMMA RowShape ==
  ASSUME TypeOK, NEW r \in Ranks, RankInv(r), phase[r] = "returned", NEW i \in RowsOf[r]
  PROVE  LET row == y[r][i]
             columns == LocalColumns(r, i) \cup GhostCols(i, r) IN
         /\ \A j \in DOMAIN row : row[j] = Term(r, row[j][1], vals[r]) /\ row[j][1] \in columns
         /\ \A c \in columns : \E j \in DOMAIN row : row[j] = Term(r, c, vals[r])
         /\ \A j, k \in DOMAIN row : row[j] = row[k] => j = k
<1> DEFINE s == LocalPart(r, i)
           t == BorderPart(r, i)
           m == Len(s)
           n == Len(t)
<1>1. y[r][i] = s \o t
  BY DEF RankInv, RowInv
<1>2. s \in Seq(LocalTerms(r, i)) /\ t \in Seq(GhostTerms(r, i))
  BY LocalPartExact, BorderPartExact
<1>3. m \in Nat /\ n \in Nat /\ DOMAIN s = 1..m /\ DOMAIN t = 1..n
  BY <1>2
<1>4. /\ DOMAIN y[r][i] = 1..(m + n)
      /\ \A j \in 1..m : y[r][i][j] = s[j]
      /\ \A j \in 1..n : y[r][i][m + j] = t[j]
  BY <1>1, <1>2, <1>3
<1>5. /\ \A c \in LocalColumns(r, i) : \E j \in 1..m : s[j] = Term(r, c, vals[r])
      /\ \A j, k \in 1..m : s[j] = s[k] => j = k
      /\ \A j \in 1..m : s[j][1] \in LocalColumns(r, i)
  BY <1>3, LocalPartExact
<1>6. /\ \A c \in GhostCols(i, r) : \E j \in 1..n : t[j] = Term(r, c, vals[r])
      /\ \A j, k \in 1..n : t[j] = t[k] => j = k
      /\ \A j \in 1..n : t[j][1] \in GhostCols(i, r)
  BY <1>3, BorderPartExact
<1>7. \A j \in 1..m : s[j] = Term(r, s[j][1], vals[r])
  BY <1>2, <1>3 DEF LocalTerms, Term
<1>8. \A j \in 1..n : t[j] = Term(r, t[j][1], vals[r])
  BY <1>2, <1>3 DEF GhostTerms, Term
<1> HIDE DEF s, t, m, n
<1>9. \A j \in 1..(m + n) : j \in 1..m \/ \E k \in 1..n : j = m + k
  <2> SUFFICES ASSUME NEW j \in 1..(m + n), j \notin 1..m
               PROVE  \E k \in 1..n : j = m + k
    OBVIOUS
  <2>1. j - m \in 1..n /\ j = m + (j - m)
    BY <1>3
  <2> QED
    BY <2>1
<1>10. \A j \in DOMAIN y[r][i] : y[r][i][j] = Term(r, y[r][i][j][1], vals[r])
  BY <1>4, <1>7, <1>8, <1>9
<1>11. \A c \in LocalColumns(r, i) \cup GhostCols(i, r) : \E j \in DOMAIN y[r][i] : y[r][i][j] = Term(r, c, vals[r])
  <2> SUFFICES ASSUME NEW c \in LocalColumns(r, i) \cup GhostCols(i, r)
               PROVE  \E j \in 1..(m + n) : y[r][i][j] = Term(r, c, vals[r])
    BY <1>4
  <2>1. CASE c \in LocalColumns(r, i)
    <3>1. PICK j \in 1..m : s[j] = Term(r, c, vals[r])
      BY <2>1, <1>5
    <3> QED
      BY <3>1, <1>3, <1>4
  <2>2. CASE c \in GhostCols(i, r)
    <3>1. PICK j \in 1..n : t[j] = Term(r, c, vals[r])
      BY <2>2, <1>6
    <3>2. m + j \in 1..(m + n)
      BY <1>3
    <3> QED
      BY <3>1, <3>2, <1>4
  <2> QED
    BY <2>1, <2>2
<1>12. \A j \in DOMAIN y[r][i] : y[r][i][j][1] \in LocalColumns(r, i) \cup GhostCols(i, r)
  BY <1>4, <1>5, <1>6, <1>9
<1>13. LocalColumns(r, i) \cap GhostCols(i, r) = {}
  BY DEF LocalColumns, RowIsLocal, GhostCols
<1>14. ASSUME NEW j \in DOMAIN y[r][i], NEW k \in DOMAIN y[r][i], y[r][i][j] = y[r][i][k]
       PROVE  j = k
  <2>1. CASE j \in 1..m /\ k \in 1..m
    BY <1>4, <1>5, <1>14, <2>1
  <2>2. CASE j \in 1..m /\ k \notin 1..m
    BY <1>4, <1>5, <1>6, <1>9, <1>13, <1>14, <2>2
  <2>3. CASE j \notin 1..m /\ k \in 1..m
    BY <1>4, <1>5, <1>6, <1>9, <1>13, <1>14, <2>3
  <2>4. CASE j \notin 1..m /\ k \notin 1..m
    <3>1. PICK a \in 1..n, b \in 1..n : j = m + a /\ k = m + b
      BY <1>4, <1>9, <2>4
    <3>2. t[a] = t[b]
      BY <1>4, <1>14, <3>1
    <3> QED
      BY <1>6, <3>1, <3>2
  <2> QED
    BY <2>1, <2>2, <2>3, <2>4
<1> QED
  BY <1>10, <1>11, <1>12, <1>14

LEMMA RowExact ==
  ASSUME TypeOK, NEW r \in Ranks, RankInv(r), phase[r] = "returned", NEW i \in RowsOf[r],
         NEW C \in SUBSET (LocalColumns(r, i) \cup GhostCols(i, r))
  PROVE  Holds(r, i, C)
<1>1. \A c, v : Term(r, c, v)[1] = c
  BY DEF Term
<1>2. \A j \in Products(r, i, C) : y[r][i][j] \in {Term(r, c, vals[r]) : c \in C}
  BY RowShape DEF Products
<1>3. \A c \in C : \E j \in Products(r, i, C) : y[r][i][j] = Term(r, c, vals[r])
  BY <1>1, RowShape DEF Products
<1>4. {y[r][i][j] : j \in Products(r, i, C)} = {Term(r, c, vals[r]) : c \in C}
  BY <1>2, <1>3
<1>5. {y[r][i][j] : j \in Products(r, i, C)} = {<<c, vals[r], call[r]>> : c \in C}
  BY <1>4 DEF Term
<1>6. \A j, k \in Products(r, i, C) : y[r][i][j] = y[r][i][k] => j = k
  BY RowShape DEF Products
<1> QED
  BY <1>5, <1>6 DEF Holds

------------------------------------------------------------------------------
(* Whichever kernel a rank chose, a product that returns has added every   *)
(* product with a ghost once, with the present values and the vector of    *)
(* this very call.                                                         *)
THEOREM GhostProductsExact == Spec => []GhostPartExact
<1>1. IInv => GhostPartExact
  <2> SUFFICES ASSUME IInv, NEW r \in Ranks, phase[r] = "returned", NEW i \in RowsOf[r]
               PROVE  Holds(r, i, GhostCols(i, r))
    BY DEF GhostPartExact
  <2> QED
    BY RowExact DEF IInv
<1> QED
  BY <1>1, Initially, Inductive, PTL DEF Spec

(* On a rank with the plan of its local block a product that returns is    *)
(* A x: every product of every row, once, and nothing else.                *)
THEOREM PlanIsAx == Spec => []PlanKernelIsAx
<1>1. IInv => PlanKernelIsAx
  <2> SUFFICES ASSUME IInv, NEW r \in Ranks, phase[r] = "returned", LocalDiagPlan(r),
                      NEW i \in RowsOf[r]
               PROVE  WholeRow(r, i)
    BY DEF PlanKernelIsAx
  <2>1. A[i] = LocalColumns(r, i) \cup GhostCols(i, r)
    BY DEF LocalColumns, GhostCols
  <2>2. Holds(r, i, A[i])
    BY <2>1, RowExact DEF IInv
  <2>3. \A j \in DOMAIN y[r][i] : y[r][i][j][1] \in A[i]
    BY <2>1, RowShape DEF IInv
  <2> QED
    BY <2>2, <2>3 DEF WholeRow, Products
<1> QED
  BY <1>1, Initially, Inductive, PTL DEF Spec
=============================================================================
