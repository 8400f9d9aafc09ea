--------------------------- MODULE Schwarz_proofs ---------------------------
(***************************************************************************)
(* Proofs about Schwarz, for any number of ranks and rows, any matrix,     *)
(* partition, overlap and mode in which all ranks have rows to ask for in  *)
(* the same sweeps: no rank takes a message of another exchange, the       *)
(* subdomains are exact, and so is what apply writes.                      *)
(*                                                                         *)
(* A rank is at a place of its plan (stage a, point b).  What it has there *)
(* is a function of the setting (Stands), and so are the exchanges of every *)
(* pair of ranks (Joint) and what is sent in them (Bill); the messages on  *)
(* the way between two ranks are those of the exchanges that the one has   *)
(* begun and the other has not ended, in their order (Carries).            *)
(***************************************************************************)
EXTENDS Schwarz, FiniteSetTheorems, SequenceTheorems, NaturalsInduction, TLAPS

------------------------------------------------------------------------------
(* Lists of steps.                                                         *)
Names == {"sweep", "expand", "complete", "build", "lists", "factor", "apply", "solve", "refresh",
          "coarse solve"} \cup Calls

LEMMA NamesOfSteps ==
  /\ "sweep" \in Names /\ "expand" \in Names /\ "complete" \in Names /\ "build" \in Names
  /\ "lists" \in Names /\ "factor" \in Names /\ "apply" \in Names /\ "solve" \in Names
  /\ "refresh" \in Names /\ "coarse solve" \in Names /\ "ask" \in Names
  /\ "answer" \in Names /\ "coarse rows" \in Names /\ "coarse rhs" \in Names
  /\ "coarse solution" \in Names /\ "values" \in Names /\ "return" \in Names
BY DEF Names, Calls, DenseCalls

LEMMA Cons ==
  ASSUME NEW a \in Names, NEW t \in Seq(Names)
  PROVE  /\ <<a>> \o t \in Seq(Names) /\ <<a>> \o t # <<>>
         /\ Head(<<a>> \o t) = a /\ Tail(<<a>> \o t) = t
<1> DEFINE u == <<a>> \o t
<1>1. <<a>> \in Seq(Names) /\ Len(<<a>>) = 1 /\ <<a>>[1] = a
  OBVIOUS
<1>2. Len(t) \in Nat
  OBVIOUS
<1>3. /\ u \in Seq(Names) /\ Len(u) = 1 + Len(t)
      /\ \A i \in 1..1 + Len(t) : u[i] = IF i <= 1 THEN <<a>>[i] ELSE t[i - 1]
  BY <1>1, ConcatProperties
<1>4. u # <<>>
  BY <1>2, <1>3
<1>5. Head(u) = u[1] /\ u[1] = a
  BY <1>1, <1>2, <1>3
<1> HIDE DEF u
<1>6. /\ Tail(u) \in Seq(Names) /\ Len(Tail(u)) = Len(t)
      /\ \A i \in 1..Len(Tail(u)) : Tail(u)[i] = u[i + 1]
  BY <1>2, <1>3, <1>4, HeadTailProperties
<1>7. \A i \in 1..Len(Tail(u)) : Tail(u)[i] = t[i]
  <2> SUFFICES ASSUME NEW i \in 1..Len(Tail(u)) PROVE Tail(u)[i] = t[i]
    OBVIOUS
  <2>1. i \in 1..Len(t) /\ i + 1 \in 1..1 + Len(t) /\ ~(i + 1 <= 1) /\ (i + 1) - 1 = i
    BY <1>2, <1>6
  <2> QED
    BY <1>3, <1>6, <2>1
<1>8. Tail(u) = t
  BY <1>6, <1>7, SeqEqual
<1> QED
  BY <1>3, <1>4, <1>5, <1>8 DEF u

LEMMA Pair ==
  ASSUME NEW a \in Names, NEW c \in Names
  PROVE  /\ <<a, c>> \in Seq(Names) /\ Len(<<a, c>>) = 2
         /\ <<a, c>>[1] = a /\ <<a, c>>[2] = c
OBVIOUS

LEMMA Two ==
  ASSUME NEW a \in Names, NEW c \in Names, NEW t \in Seq(Names)
  PROVE  <<a, c>> \o t = <<a>> \o (<<c>> \o t)
<1> DEFINE u == <<a, c>>  v == <<a>>  w == <<c>>
<1>1. /\ v \in Seq(Names) /\ Len(v) = 1 /\ v[1] = a
      /\ w \in Seq(Names) /\ Len(w) = 1 /\ w[1] = c
      /\ u \in Seq(Names) /\ Len(u) = 2 /\ u[1] = a /\ u[2] = c
  OBVIOUS
<1> HIDE DEF u, v, w
<1>2. /\ v \o w \in Seq(Names) /\ Len(v \o w) = 2
      /\ \A i \in 1..2 : (v \o w)[i] = IF i <= 1 THEN v[i] ELSE w[i - 1]
  <2>1. /\ v \o w \in Seq(Names) /\ Len(v \o w) = Len(v) + Len(w)
        /\ \A i \in 1..Len(v) + Len(w) :
             (v \o w)[i] = IF i <= Len(v) THEN v[i] ELSE w[i - Len(v)]
    BY <1>1, ConcatProperties
  <2> QED
    BY <1>1, <2>1
<1>3. (v \o w)[1] = a /\ (v \o w)[2] = c
  BY <1>1, <1>2
<1>4. \A i \in 1..Len(u) : u[i] = (v \o w)[i]
  <2>1. \A i \in 1..2 : i = 1 \/ i = 2
    OBVIOUS
  <2> QED
    BY <1>1, <1>3, <2>1
<1>5. u = v \o w
  BY <1>1, <1>2, <1>4, SeqEqual
<1>6. (v \o w) \o t = v \o (w \o t)
  BY <1>1, ConcatAssociative, SMTT(30)
<1> QED
  BY <1>5, <1>6 DEF u, v, w

LEMMA Three ==
  ASSUME NEW a \in Names, NEW c \in Names, NEW d \in Names, NEW t \in Seq(Names)
  PROVE  <<a, c, d>> \o t = <<a>> \o (<<c>> \o (<<d>> \o t))
<1> DEFINE u == <<a, c, d>>  v == <<a>>  w == <<c, d>>
<1>1. v \in Seq(Names) /\ w \in Seq(Names)
  OBVIOUS
<1>2. u = v \o w
  BY SMTT(30)
<1>3. w \o t = <<c>> \o (<<d>> \o t)
  BY Two
<1> HIDE DEF u, v, w
<1>4. (v \o w) \o t = v \o (w \o t)
  BY <1>1, ConcatAssociative
<1>5. u \o t = v \o (<<c>> \o (<<d>> \o t))
  BY <1>2, <1>3, <1>4
<1> QED
  BY <1>5 DEF u, v

LEMMA Associative ==
  ASSUME NEW s \in Seq(Names), NEW t \in Seq(Names), NEW u \in Seq(Names)
  PROVE  (s \o t) \o u = s \o (t \o u)
BY ConcatAssociative

LEMMA Rings ==
  ASSUME NEW n \in Nat
  PROVE  /\ Sweeps(n) \in Seq(Names)
         /\ Sweeps(n + 1) = <<"sweep", "expand">> \o Sweeps(n)
         /\ Sweeps(0) = <<>>
<1> DEFINE at(i) == IF i % 2 = 1 THEN "sweep" ELSE "expand"
           two == <<"sweep", "expand">>
<1>1. \A m \in Nat : 2 * m \in Nat
  OBVIOUS
<1>2. \A i \in Nat : at(i) \in Names
  BY NamesOfSteps
<1>3. at(1) = "sweep" /\ at(2) = "expand"
  OBVIOUS
<1>4. \A i \in Nat : i > 2 => i - 2 \in Nat /\ at(i - 2) = at(i)
  <2> SUFFICES ASSUME NEW i \in Nat, i > 2 PROVE i - 2 \in Nat /\ at(i - 2) = at(i)
    OBVIOUS
  <2>1. i - 2 \in Nat /\ (i - 2) % 2 = i % 2
    OBVIOUS
  <2> QED
    BY <2>1
<1>5. \A m \in Nat : Sweeps(m) = [i \in 1..2 * m |-> at(i)]
  BY DEF Sweeps
<1>6. two \in Seq(Names) /\ Len(two) = 2 /\ two[1] = "sweep" /\ two[2] = "expand"
  BY NamesOfSteps, Pair
<1> HIDE DEF at, two
<1>7. ASSUME NEW m \in Nat
      PROVE  /\ Sweeps(m) \in Seq(Names) /\ Len(Sweeps(m)) = 2 * m
             /\ \A i \in 1..2 * m : Sweeps(m)[i] = at(i)
  <2>1. Sweeps(m) \in [1..2 * m -> Names]
    BY <1>1, <1>2, <1>5
  <2> QED
    BY <1>1, <1>5, <2>1, SMTT(30)
<1>8. /\ two \o Sweeps(n) \in Seq(Names) /\ Len(two \o Sweeps(n)) = 2 + 2 * n
      /\ \A i \in 1..2 + 2 * n :
           (two \o Sweeps(n))[i] = IF i <= 2 THEN two[i] ELSE Sweeps(n)[i - 2]
  <2>1. Sweeps(n) \in Seq(Names) /\ Len(Sweeps(n)) = 2 * n
    BY <1>7
  <2>2. /\ two \o Sweeps(n) \in Seq(Names) /\ Len(two \o Sweeps(n)) = Len(two) + Len(Sweeps(n))
        /\ \A i \in 1..Len(two) + Len(Sweeps(n)) :
             (two \o Sweeps(n))[i] = IF i <= Len(two) THEN two[i] ELSE Sweeps(n)[i - Len(two)]
    BY <1>6, <2>1, ConcatProperties
  <2> QED
    BY <1>6, <2>1, <2>2
<1>9. n + 1 \in Nat /\ 2 * (n + 1) = 2 + 2 * n
  OBVIOUS
<1>10. /\ Sweeps(n + 1) \in Seq(Names) /\ Len(Sweeps(n + 1)) = 2 + 2 * n
       /\ \A i \in 1..2 + 2 * n : Sweeps(n + 1)[i] = at(i)
  <2>1. /\ Sweeps(n + 1) \in Seq(Names) /\ Len(Sweeps(n + 1)) = 2 * (n + 1)
        /\ \A i \in 1..2 * (n + 1) : Sweeps(n + 1)[i] = at(i)
    BY <1>7, <1>9
  <2> QED
    BY <1>9, <2>1
<1>11. ASSUME NEW i \in 1..2 + 2 * n
       PROVE  at(i) = (two \o Sweeps(n))[i]
  <2>1. CASE i <= 2
    <3>1. i = 1 \/ i = 2
      BY <2>1
    <3> QED
      BY <1>3, <1>6, <1>8, <2>1, <3>1
  <2>2. CASE i > 2
    <3>1. i - 2 \in 1..2 * n /\ i \in Nat /\ ~(i <= 2)
      BY <2>2
    <3>2. Sweeps(n)[i - 2] = at(i - 2)
      BY <1>7, <3>1
    <3> QED
      BY <1>4, <1>8, <2>2, <3>1, <3>2
  <2>3. i <= 2 \/ i > 2
    OBVIOUS
  <2> QED
    BY <2>1, <2>2, <2>3
<1>12. Sweeps(n + 1) = two \o Sweeps(n)
  BY <1>8, <1>10, <1>11, SeqEqual
<1>13. Sweeps(0) = <<>>
  <2>1. Sweeps(0) \in Seq(Names) /\ Len(Sweeps(0)) = 0
    BY <1>7
  <2> QED
    BY <2>1
<1> QED
  BY <1>7, <1>12, <1>13 DEF two

------------------------------------------------------------------------------
(* Partitions.                                                             *)

LEMMA Least ==
  ASSUME NEW S, S \subseteq Nat, S # {}
  PROVE  \E m \in S : \A k \in S : m <= k
<1> DEFINE R == {ss \in Nat \X Nat : ss[1] < ss[2]}
<1>1. IsWellFoundedOn(R, Nat)
  BY NatLessThanWellFounded, Zenon DEF OpToRel
<1>2. PICK m \in S : \A k \in S : ~(<<k, m>> \in R)
  <2> HIDE DEF R
  <2> QED BY <1>1, WFMin
<1>3. \A k \in S : ~(k < m)
  BY <1>2
<1> QED
  BY <1>3

LEMMA Sizes ==
  /\ Size \in Nat \ {0} /\ N \in Nat
  /\ Ranks \subseteq Nat /\ Ranks # {} /\ \A r \in Ranks : r + 1 \in 0..Size /\ r \in 0..Size
  /\ Rows \subseteq Nat
BY SchwarzAssumption DEF Ranks, Rows

LEMMA LastStart == Start(Size) = N
<1>1. Size \in Nat \ {0} /\ N \in Nat
  BY Sizes
<1> DEFINE d == N \div Size  m == N % Size
<1>2. d \in Nat /\ m \in Nat /\ m < Size /\ N = Size * d + m
  BY <1>1
<1>3. Start(Size) = Size * d + m
  BY <1>1, <1>2 DEF Start
<1> QED
  BY <1>2, <1>3

LEMMA StartsAreNat == \A k \in 0..Size : Start(k) \in Nat
<1> SUFFICES ASSUME NEW k \in 0..Size PROVE Start(k) \in Nat
  OBVIOUS
<1>1. Size \in Nat \ {0} /\ N \in Nat /\ k \in Nat
  BY Sizes
<1> DEFINE d == N \div Size  m == N % Size
<1>2. d \in Nat /\ m \in Nat
  BY <1>1
<1>3. k * d \in Nat
  BY <1>1, <1>2
<1>4. Start(k) = k * d + (IF k < m THEN k ELSE m)
  BY DEF Start
<1> HIDE DEF d, m
<1> QED
  BY <1>1, <1>2, <1>3, <1>4

(* contiguous_partition gives every row to some rank.                      *)
LEMMA OwnerIsARank ==
  ASSUME NEW g \in Rows
  PROVE  OwnerOf(g) \in Ranks
<1> DEFINE S == {k \in 0..Size : g < Start(k)}
<1>1. Size \in Nat \ {0} /\ N \in Nat /\ g \in Nat /\ g < N
  BY Sizes DEF Rows
<1>2. Size \in S /\ S \subseteq Nat
  BY <1>1, LastStart
<1>3. PICK k \in S : \A i \in S : k <= i
  BY <1>2, Least
<1>4. Start(0) = 0
  <2> DEFINE d == N \div Size  m == N % Size
  <2>1. d \in Nat /\ m \in Nat
    BY <1>1
  <2>2. 0 * d = 0
    BY <2>1
  <2>3. Start(0) = 0 * d + (IF 0 < m THEN 0 ELSE m)
    BY DEF Start
  <2> HIDE DEF d, m
  <2> QED
    BY <2>1, <2>2, <2>3
<1>5. k # 0
  BY <1>1, <1>3, <1>4
<1>6. k - 1 \in 0..Size - 1 /\ (k - 1) + 1 = k /\ k - 1 \in 0..Size
  BY <1>1, <1>3, <1>5
<1>7. Start(k - 1) <= g
  <2>1. k - 1 \notin S
    BY <1>1, <1>3, <1>6
  <2>2. Start(k - 1) \in Nat
    BY <1>6, StartsAreNat
  <2> QED
    BY <1>1, <1>6, <2>1, <2>2
<1>8. k - 1 \in Ranks /\ Start(k - 1) <= g /\ g < Start((k - 1) + 1)
  BY <1>3, <1>6, <1>7 DEF Ranks
<1> QED
  BY <1>8 DEF OwnerOf

(* The rows of the operator's partition are of one rank each.              *)
LEMMA OwnersDiffer ==
  ASSUME NEW s \in Settings, NEW q \in Ranks, NEW r \in Ranks, NEW g,
         g \in OwnRows(s, q), g \in OwnRows(s, r)
  PROVE  q = r
<1>1. /\ s.first \in [0..Size -> 0..N]
      /\ \A k \in Ranks : s.first[k] <= s.first[k + 1]
  BY SchwarzAssumption DEF SettingType
<1>2. Size \in Nat \ {0} /\ N \in Nat
  BY Sizes
<1>3. ASSUME NEW a \in Ranks, NEW c \in Ranks, a < c
      PROVE  s.first[a + 1] <= s.first[c]
  <2> DEFINE S == {k \in a + 1..c : s.first[k] < s.first[a + 1]}
  <2>1. a \in Nat /\ c \in Nat /\ a + 1 \in 0..Size /\ c \in 0..Size
    BY <1>2 DEF Ranks
  <2>2. \A k \in a + 1..c : k \in 0..Size /\ s.first[k] \in Nat
    BY <1>1, <1>2, <2>1
  <2>3. ASSUME S # {} PROVE FALSE
    <3>1. PICK k \in S : \A i \in S : k <= i
      <4>1. S \subseteq Nat
        BY <2>1
      <4> QED
        BY <2>3, <4>1, Least
    <3>2. k # a + 1
      BY <2>1, <2>2, <3>1
    <3>3. k - 1 \in a + 1..c /\ k - 1 \in Ranks /\ (k - 1) + 1 = k
      BY <1>2, <2>1, <3>1, <3>2 DEF Ranks
    <3>4. ~(k <= k - 1)
      BY <2>1, <3>1
    <3>5. k - 1 \notin S
      BY <3>1, <3>4
    <3>6. ~(s.first[k - 1] < s.first[a + 1])
      BY <3>3, <3>5
    <3>7. s.first[k - 1] <= s.first[k]
      BY <1>1, <3>3
    <3>8. s.first[k - 1] \in Nat /\ s.first[k] \in Nat /\ s.first[a + 1] \in Nat
      <4>1. a + 1 \in a + 1..c
        BY <1>3, <2>1
      <4> QED
        BY <2>2, <3>1, <3>3, <4>1
    <3> QED
      BY <3>1, <3>6, <3>7, <3>8
  <2>4. c \notin S /\ c \in a + 1..c /\ a + 1 \in a + 1..c
    BY <1>3, <2>1, <2>3
  <2> QED
    BY <2>2, <2>4
<1>4. /\ s.first[q] <= g /\ g < s.first[q + 1] /\ s.first[r] <= g /\ g < s.first[r + 1] /\ g \in Nat
  BY Sizes DEF OwnRows
<1>5. /\ s.first[q] \in Nat /\ s.first[q + 1] \in Nat /\ s.first[r] \in Nat /\ s.first[r + 1] \in Nat
  BY <1>1, Sizes, SMTT(30)
<1>6. ~(q < r)
  <2> SUFFICES ASSUME q < r PROVE FALSE
    OBVIOUS
  <2>1. s.first[q + 1] <= s.first[r]
    BY <1>3
  <2> QED
    BY <1>4, <1>5, <2>1
<1>7. ~(r < q)
  <2> SUFFICES ASSUME r < q PROVE FALSE
    OBVIOUS
  <2>1. s.first[r + 1] <= s.first[q]
    BY <1>3
  <2> QED
    BY <1>4, <1>5, <2>1
<1> QED
  BY <1>6, <1>7, Sizes

------------------------------------------------------------------------------
(* Neighbourhoods.                                                         *)

(* The ends of the paths with i steps that leave rows of `read` only.      *)
PathEnds(s, r, read, i) ==
  {g \in Rows : \E p \in [0..i -> Rows] :
     /\ p[0] \in OwnRows(s, r) /\ p[i] = g
     /\ \A k \in 0..i - 1 : p[k + 1] = p[k] \/ (p[k] \in read /\ p[k + 1] \in s.graph[p[k]])}

LEMMA PathEndsStep ==
  ASSUME NEW s \in Settings, NEW r \in Ranks, NEW read, read \subseteq Rows
  PROVE  /\ PathEnds(s, r, read, 0) = OwnRows(s, r)
         /\ \A i \in Nat : PathEnds(s, r, read, i + 1)
              = PathEnds(s, r, read, i)
                  \cup UNION {s.graph[g] : g \in PathEnds(s, r, read, i) \cap read}
<1>1. s.graph \in [Rows -> SUBSET Rows]
  BY SchwarzAssumption DEF SettingType
<1>2. PathEnds(s, r, read, 0) = OwnRows(s, r)
  <2>1. ASSUME NEW g \in OwnRows(s, r)
        PROVE  g \in PathEnds(s, r, read, 0)
    <3> DEFINE p == [k \in 0..0 |-> g]
    <3>1. g \in Rows
      BY DEF OwnRows
    <3>2. p \in [0..0 -> Rows] /\ p[0] = g
      BY <3>1
    <3>3. \A k \in 0..0 - 1 : FALSE
      OBVIOUS
    <3> HIDE DEF p
    <3> QED
      BY <2>1, <3>1, <3>2, <3>3 DEF PathEnds
  <2>2. ASSUME NEW g \in PathEnds(s, r, read, 0)
        PROVE  g \in OwnRows(s, r)
    BY <2>2 DEF PathEnds
  <2> QED
    BY <2>1, <2>2
<1>3. ASSUME NEW i \in Nat
      PROVE  PathEnds(s, r, read, i + 1)
               = PathEnds(s, r, read, i)
                   \cup UNION {s.graph[g] : g \in PathEnds(s, r, read, i) \cap read}
  <2> DEFINE here == PathEnds(s, r, read, i)
  <2>1. ASSUME NEW g \in PathEnds(s, r, read, i + 1)
        PROVE  g \in here \/ \E h \in here \cap read : g \in s.graph[h]
    <3>1. PICK p \in [0..i + 1 -> Rows] :
            /\ p[0] \in OwnRows(s, r) /\ p[i + 1] = g
            /\ \A k \in 0..(i + 1) - 1 :
                 p[k + 1] = p[k] \/ (p[k] \in read /\ p[k + 1] \in s.graph[p[k]])
      BY <2>1 DEF PathEnds
    <3> DEFINE u == [k \in 0..i |-> p[k]]
    <3>2. u \in [0..i -> Rows] /\ u[0] = p[0] /\ u[i] = p[i] /\ \A k \in 0..i : u[k] = p[k]
      OBVIOUS
    <3>3. \A k \in 0..i - 1 : u[k + 1] = u[k] \/ (u[k] \in read /\ u[k + 1] \in s.graph[u[k]])
      <4> SUFFICES ASSUME NEW k \in 0..i - 1
                   PROVE  u[k + 1] = u[k] \/ (u[k] \in read /\ u[k + 1] \in s.graph[u[k]])
        OBVIOUS
      <4>1. k \in 0..i /\ k + 1 \in 0..i /\ k \in 0..(i + 1) - 1
        OBVIOUS
      <4> HIDE DEF u
      <4> QED
        BY <3>1, <3>2, <4>1
    <3> HIDE DEF u
    <3>4. p[i] \in Rows
      OBVIOUS
    <3>5. p[i] \in here
      BY <3>1, <3>2, <3>3, <3>4 DEF PathEnds
    <3>6. g = p[i] \/ (p[i] \in read /\ g \in s.graph[p[i]])
      BY <3>1
    <3> QED
      BY <3>5, <3>6
  <2>2. ASSUME NEW h \in here, NEW g \in Rows, g = h \/ (h \in read /\ g \in s.graph[h])
        PROVE  g \in PathEnds(s, r, read, i + 1)
    <3>1. PICK p \in [0..i -> Rows] :
            /\ p[0] \in OwnRows(s, r) /\ p[i] = h
            /\ \A k \in 0..i - 1 :
                 p[k + 1] = p[k] \/ (p[k] \in read /\ p[k + 1] \in s.graph[p[k]])
      BY DEF PathEnds
    <3> DEFINE u == [k \in 0..i + 1 |-> IF k = i + 1 THEN g ELSE p[k]]
    <3>2. /\ u \in [0..i + 1 -> Rows] /\ u[i + 1] = g
          /\ \A k \in 0..i : u[k] = p[k]
      OBVIOUS
    <3> HIDE DEF u
    <3>3. u[0] = p[0] /\ u[i] = h
      BY <3>1, <3>2
    <3>4. \A k \in 0..(i + 1) - 1 :
            u[k + 1] = u[k] \/ (u[k] \in read /\ u[k + 1] \in s.graph[u[k]])
      <4> SUFFICES ASSUME NEW k \in 0..(i + 1) - 1
                   PROVE  u[k + 1] = u[k] \/ (u[k] \in read /\ u[k + 1] \in s.graph[u[k]])
        OBVIOUS
      <4>1. CASE k = i
        BY <2>2, <3>2, <3>3, <4>1
      <4>2. CASE k # i
        <5>1. k \in 0..i - 1 /\ k \in 0..i /\ k + 1 \in 0..i
          BY <4>2
        <5> QED
          BY <3>1, <3>2, <5>1
      <4> QED
        BY <4>1, <4>2
    <3> QED
      BY <3>1, <3>2, <3>3, <3>4 DEF PathEnds
  <2>3. here \subseteq Rows
    BY DEF PathEnds
  <2>4. \A h \in here : s.graph[h] \subseteq Rows
    BY <1>1, <2>3
  <2> HIDE DEF here
  <2>5. \A g \in PathEnds(s, r, read, i + 1) : g \in here \cup UNION {s.graph[h] : h \in here \cap read}
    BY <2>1
  <2>6. \A g \in here \cup UNION {s.graph[h] : h \in here \cap read} : g \in PathEnds(s, r, read, i + 1)
    BY <2>2, <2>3, <2>4
  <2> QED
    BY <2>5, <2>6 DEF here
<1> QED
  BY <1>2, <1>3

(* The recursive definition does define a function.                        *)
LEMMA WithinStep ==
  ASSUME NEW s \in Settings, NEW r \in Ranks, NEW read, read \subseteq Rows
  PROVE  /\ Within(s, r, read)[0] = OwnRows(s, r)
         /\ \A i \in Nat : Within(s, r, read)[i + 1]
              = Within(s, r, read)[i]
                  \cup UNION {s.graph[g] : g \in Within(s, r, read)[i] \cap read}
<1> DEFINE More(S) == S \cup UNION {s.graph[g] : g \in S \cap read}
           Recursion(f) == f = [i \in Nat |-> IF i = 0 THEN OwnRows(s, r) ELSE More(f[i - 1])]
           ends == [i \in Nat |-> PathEnds(s, r, read, i)]
<1>1. ends[0] = OwnRows(s, r) /\ \A i \in Nat : ends[i + 1] = More(ends[i])
  <2>1. \A i \in Nat : i + 1 \in Nat /\ ends[i] = PathEnds(s, r, read, i)
    OBVIOUS
  <2> HIDE DEF ends
  <2>2. ends[0] = OwnRows(s, r)
    BY <2>1, PathEndsStep
  <2>3. ASSUME NEW i \in Nat PROVE ends[i + 1] = More(ends[i])
    <3>1. ends[i + 1] = PathEnds(s, r, read, i + 1) /\ ends[i] = PathEnds(s, r, read, i)
      BY <2>1
    <3> HIDE DEF More
    <3>2. PathEnds(s, r, read, i + 1) = More(PathEnds(s, r, read, i))
      BY PathEndsStep DEF More
    <3> QED
      BY <3>1, <3>2
  <2> QED
    BY <2>2, <2>3
<1>2. DOMAIN ends = Nat /\ ends = [i \in Nat |-> ends[i]]
  OBVIOUS
<1> HIDE DEF ends, More
<1>3. Recursion(ends)
  <2>1. \A i \in Nat : ends[i] = IF i = 0 THEN OwnRows(s, r) ELSE More(ends[i - 1])
    <3> SUFFICES ASSUME NEW i \in Nat, i # 0 PROVE ends[i] = More(ends[i - 1])
      BY <1>1
    <3>1. i - 1 \in Nat /\ (i - 1) + 1 = i
      OBVIOUS
    <3> QED
      BY <1>1, <3>1
  <2> QED
    BY <1>2, <2>1
<1>4. Within(s, r, read) = CHOOSE f : Recursion(f)
  BY DEF Within, More
<1> DEFINE w == Within(s, r, read)
<1>5. Recursion(w)
  BY <1>3, <1>4
<1> HIDE DEF w
<1>6. \A i \in Nat : w[i] = IF i = 0 THEN OwnRows(s, r) ELSE More(w[i - 1])
  BY <1>5
<1>7. w[0] = OwnRows(s, r)
  BY <1>6
<1>8. ASSUME NEW i \in Nat
      PROVE  w[i + 1] = More(w[i])
  <2>1. i + 1 \in Nat /\ i + 1 # 0 /\ (i + 1) - 1 = i
    OBVIOUS
  <2> QED
    BY <1>6, <2>1
<1> QED
  BY <1>7, <1>8 DEF w, More


(* Induction on the members of a set.                                      *)
LEMMA Induct ==
  ASSUME NEW S, 0 \in S, \A i \in Nat : i \in S => i + 1 \in S
  PROVE  \A i \in Nat : i \in S
<1> DEFINE D == {i \in Nat : i \notin S}
<1>1. SUFFICES ASSUME D # {} PROVE FALSE
  OBVIOUS
<1>2. PICK m \in D : \A k \in D : m <= k
  <2>1. D \subseteq Nat
    OBVIOUS
  <2> QED
    BY <1>1, <2>1, Least
<1>3. m - 1 \in Nat /\ (m - 1) + 1 = m /\ ~(m <= m - 1)
  BY <1>2
<1>4. m - 1 \in S
  BY <1>2, <1>3
<1> QED
  BY <1>2, <1>3, <1>4

Read(s, r) == OwnRows(s, r) \cup Foreign(r)

LEMMA NearStep ==
  ASSUME NEW s \in Settings, NEW r \in Ranks
  PROVE  /\ Near(s, r, 0) = OwnRows(s, r)
         /\ \A i \in Nat : Near(s, r, i + 1)
              = Near(s, r, i) \cup UNION {s.graph[g] : g \in Near(s, r, i) \cap Read(s, r)}
<1>1. Read(s, r) \subseteq Rows
  BY DEF Read, OwnRows, Foreign
<1>2. /\ Within(s, r, Read(s, r))[0] = OwnRows(s, r)
      /\ \A i \in Nat : Within(s, r, Read(s, r))[i + 1]
           = Within(s, r, Read(s, r))[i]
               \cup UNION {s.graph[g] : g \in Within(s, r, Read(s, r))[i] \cap Read(s, r)}
  BY <1>1, WithinStep
<1>3. \A i : Near(s, r, i) = Within(s, r, Read(s, r))[i]
  BY DEF Near, Read
<1> QED
  BY <1>2, <1>3

LEMMA NearInRows ==
  ASSUME NEW s \in Settings, NEW r \in Ranks, NEW i \in Nat
  PROVE  Near(s, r, i) \subseteq Rows
<1> DEFINE S == {j \in Nat : Near(s, r, j) \subseteq Rows}
<1>1. s.graph \in [Rows -> SUBSET Rows]
  BY SchwarzAssumption DEF SettingType
<1>2. 0 \in S
  BY NearStep DEF OwnRows
<1>3. ASSUME NEW j \in Nat, j \in S PROVE j + 1 \in S
  <2>1. Near(s, r, j) \subseteq Rows
    BY <1>3
  <2>2. \A g \in Near(s, r, j) \cap Read(s, r) : s.graph[g] \subseteq Rows
    BY <1>1, <2>1
  <2>3. UNION {s.graph[g] : g \in Near(s, r, j) \cap Read(s, r)} \subseteq Rows
    BY <2>2
  <2> QED
    BY <2>1, <2>3, NearStep
<1> HIDE DEF S
<1>4. \A j \in Nat : j \in S
  BY <1>2, <1>3, Induct
<1> QED
  BY <1>4 DEF S

LEMMA NearGrows ==
  ASSUME NEW s \in Settings, NEW r \in Ranks, NEW i \in Nat, NEW j \in Nat, i <= j
  PROVE  Near(s, r, i) \subseteq Near(s, r, j)
<1> DEFINE S == {d \in Nat : Near(s, r, i) \subseteq Near(s, r, i + d)}
<1>1. 0 \in S
  OBVIOUS
<1>2. ASSUME NEW d \in Nat, d \in S PROVE d + 1 \in S
  <2>1. i + d \in Nat /\ i + (d + 1) = (i + d) + 1
    OBVIOUS
  <2>2. Near(s, r, i + d) \subseteq Near(s, r, (i + d) + 1)
    BY <2>1, NearStep
  <2> QED
    BY <1>2, <2>1, <2>2
<1> HIDE DEF S
<1>3. \A d \in Nat : d \in S
  BY <1>1, <1>2, Induct
<1>4. j - i \in Nat /\ i + (j - i) = j
  OBVIOUS
<1>5. j - i \in S
  BY <1>3, <1>4
<1> QED
  BY <1>4, <1>5 DEF S

LEMMA NearStops ==
  ASSUME NEW s \in Settings, NEW r \in Ranks, NEW i \in Nat, Near(s, r, i + 1) = Near(s, r, i),
         NEW j \in Nat, i <= j
  PROVE  Near(s, r, j) = Near(s, r, i)
<1> DEFINE S == {d \in Nat : Near(s, r, i + d) = Near(s, r, i)}
<1>1. 0 \in S
  OBVIOUS
<1>2. ASSUME NEW d \in Nat, d \in S PROVE d + 1 \in S
  <2>1. i + d \in Nat /\ i + (d + 1) = (i + d) + 1
    OBVIOUS
  <2> DEFINE n(k) == Near(s, r, k)
  <2>2. n((i + d) + 1) = n(i + d) \cup UNION {s.graph[g] : g \in n(i + d) \cap Read(s, r)}
    BY <2>1, NearStep
  <2>3. n(i + 1) = n(i) \cup UNION {s.graph[g] : g \in n(i) \cap Read(s, r)}
    BY NearStep
  <2>4. n(i + d) = n(i)
    BY <1>2
  <2>5. n((i + d) + 1) = n(i + 1)
    BY <2>2, <2>3, <2>4
  <2> QED
    BY <2>1, <2>5
<1> HIDE DEF S
<1>3. \A d \in Nat : d \in S
  BY <1>1, <1>2, Induct
<1>4. j - i \in Nat /\ i + (j - i) = j
  OBVIOUS
<1>5. j - i \in S
  BY <1>3, <1>4
<1> QED
  BY <1>4, <1>5 DEF S

(* When all rows near can be read, they are the subdomain.                 *)
LEMMA NearExact ==
  ASSUME NEW s \in Settings, NEW r \in Ranks, Near(s, r, s.overlap) \subseteq Read(s, r)
  PROVE  Near(s, r, s.overlap) = Within(s, r, Rows)[s.overlap]
<1> DEFINE w(i) == Within(s, r, Rows)[i]
           S == {i \in Nat : i <= s.overlap => Near(s, r, i) = w(i)}
<1>1. s.overlap \in Nat
  BY SchwarzAssumption DEF SettingType
<1>2. w(0) = OwnRows(s, r) /\ \A i \in Nat : w(i + 1) = w(i) \cup UNION {s.graph[g] : g \in w(i) \cap Rows}
  BY WithinStep
<1> HIDE DEF w
<1>3. 0 \in S
  BY <1>2, NearStep
<1>4. ASSUME NEW i \in Nat, i \in S PROVE i + 1 \in S
  <2> SUFFICES ASSUME i + 1 <= s.overlap PROVE Near(s, r, i + 1) = w(i + 1)
    OBVIOUS
  <2>1. i <= s.overlap /\ Near(s, r, i) = w(i)
    BY <1>1, <1>4
  <2>2. Near(s, r, i) \subseteq Near(s, r, s.overlap)
    BY <1>1, <2>1, NearGrows
  <2>3. Near(s, r, i) \subseteq Rows
    BY NearInRows
  <2>4. Near(s, r, i) \cap Read(s, r) = w(i) \cap Rows
    BY <2>1, <2>2, <2>3
  <2>5. Near(s, r, i + 1) = Near(s, r, i) \cup UNION {s.graph[g] : g \in Near(s, r, i) \cap Read(s, r)}
    BY NearStep
  <2>6. w(i + 1) = w(i) \cup UNION {s.graph[g] : g \in w(i) \cap Rows}
    BY <1>2
  <2> QED
    BY <2>1, <2>4, <2>5, <2>6
<1> HIDE DEF S
<1>5. \A i \in Nat : i \in S
  BY <1>3, <1>4, Induct
<1> QED
  BY <1>1, <1>5 DEF S, w

------------------------------------------------------------------------------
(* What a rank holds at a stage: the stages 0..overlap are the sweeps and  *)
(* the completion, the next one is update_numeric.                         *)
Reach(s, r, a) == Near(s, r, IF a < s.overlap THEN a ELSE s.overlap)
Ver(s, a) == IF a <= s.overlap THEN 0 ELSE 1
Edge(s, r, a) == IF a = 0 THEN OwnRows(s, r) ELSE Near(s, r, a) \ Near(s, r, a - 1)
WantAt(s, r, a) ==
  IF a < s.overlap THEN IF a = 0 THEN {} ELSE Edge(s, r, a)
  ELSE IF a = s.overlap THEN Wanted(s, r, a) ELSE Near(s, r, s.overlap) \ OwnRows(s, r)
Asking(s, a) == \E r \in Ranks : WantAt(s, r, a) # {}

(* The rows fetched before the stage's request, and after it.              *)
Before(s, r, a) == IF a > s.overlap THEN {} ELSE Fetched(s, r, a) \X {0}
Got(s, r, a) == ((Reach(s, r, a) \ OwnRows(s, r)) \cap Foreign(r)) \X {Ver(s, a)}

LEMMA OverlapIsNat == ASSUME NEW s \in Settings PROVE s.overlap \in Nat
BY SchwarzAssumption DEF SettingType

(* From a sweep without rows on, nothing is near that was not before.      *)
LEMMA Ended ==
  ASSUME NEW s \in Settings, NEW r \in Ranks, NEW a \in Nat, a < s.overlap, Edge(s, r, a) = {}
  PROVE  \A j \in Nat : a <= j => Near(s, r, j) = Near(s, r, a) /\ Edge(s, r, j) = {}
<1>1. CASE a = 0
  <2>1. OwnRows(s, r) = {} /\ Near(s, r, 0) = {}
    BY <1>1, NearStep DEF Edge
  <2>2. Near(s, r, 0 + 1) = {}
    BY <2>1, NearStep
  <2>3. \A j \in Nat : Near(s, r, j) = {}
    BY <2>1, <2>2, NearStops
  <2>4. ASSUME NEW j \in Nat PROVE Edge(s, r, j) = {}
    BY <2>1, <2>3 DEF Edge
  <2> QED
    BY <1>1, <2>3, <2>4
<1>2. CASE a # 0
  <2>1. a - 1 \in Nat /\ (a - 1) + 1 = a
    BY <1>2
  <2>2. Near(s, r, a) = Near(s, r, a - 1)
    <3>1. Near(s, r, a - 1) \subseteq Near(s, r, a)
      BY <2>1, NearGrows
    <3> QED
      BY <1>2, <3>1 DEF Edge
  <2>3. \A j \in Nat : a - 1 <= j => Near(s, r, j) = Near(s, r, a - 1)
    BY <2>1, <2>2, NearStops
  <2>4. ASSUME NEW j \in Nat, a <= j PROVE Near(s, r, j) = Near(s, r, a) /\ Edge(s, r, j) = {}
    <3>1. j - 1 \in Nat /\ a - 1 <= j - 1 /\ a - 1 <= j /\ j # 0
      BY <1>2, <2>4
    <3>2. Near(s, r, j) = Near(s, r, a - 1) /\ Near(s, r, j - 1) = Near(s, r, a - 1)
      BY <2>3, <3>1
    <3> QED
      BY <2>2, <3>1, <3>2 DEF Edge
  <2> QED
    BY <2>4
<1> QED
  BY <1>1, <1>2

LEMMA EndedWants ==
  ASSUME NEW s \in Settings, NEW r \in Ranks, NEW a \in Nat, a < s.overlap, Edge(s, r, a) = {}
  PROVE  /\ \A j \in Nat : a <= j /\ j < s.overlap => WantAt(s, r, j) = {}
         /\ Reach(s, r, s.overlap) = Reach(s, r, a)
         /\ Before(s, r, s.overlap) = Before(s, r, a)
         /\ Edge(s, r, s.overlap) = {}
<1>1. s.overlap \in Nat
  BY OverlapIsNat
<1>2. \A j \in Nat : a <= j => Near(s, r, j) = Near(s, r, a) /\ Edge(s, r, j) = {}
  BY Ended
<1>3. \A j \in Nat : a <= j /\ j < s.overlap => WantAt(s, r, j) = {}
  BY <1>2 DEF WantAt
<1>4. Reach(s, r, s.overlap) = Reach(s, r, a)
  BY <1>1, <1>2 DEF Reach
<1>5. Fetched(s, r, s.overlap) = Fetched(s, r, a)
  <2>1. s.overlap # 0 /\ s.overlap - 1 \in Nat /\ a <= s.overlap - 1
    BY <1>1
  <2>2. Near(s, r, s.overlap - 1) = Near(s, r, a)
    BY <1>2, <2>1
  <2>3. CASE a = 0
    <3>1. Near(s, r, a) = {}
      BY <2>3, NearStep DEF Edge
    <3> QED
      BY <2>1, <2>2, <2>3, <3>1 DEF Fetched
  <2>4. CASE a # 0
    <3>1. a - 1 \in Nat /\ a - 1 <= a
      BY <2>4
    <3>2. Near(s, r, a - 1) \subseteq Near(s, r, a) /\ Near(s, r, a) \ Near(s, r, a - 1) = {}
      BY <2>4, <3>1, NearGrows DEF Edge
    <3>3. Near(s, r, a - 1) = Near(s, r, s.overlap - 1)
      BY <2>2, <3>2
    <3> QED
      BY <2>1, <2>4, <3>3 DEF Fetched
  <2> QED
    BY <2>3, <2>4
<1>6. Before(s, r, s.overlap) = Before(s, r, a)
  BY <1>1, <1>5 DEF Before
<1>7. Edge(s, r, s.overlap) = {}
  BY <1>1, <1>2
<1> QED
  BY <1>3, <1>4, <1>6, <1>7

LEMMA FetchedNear ==
  ASSUME NEW s \in Settings, NEW r \in Ranks, NEW a \in Nat
  PROVE  Fetched(s, r, a) \subseteq (Near(s, r, a) \ OwnRows(s, r)) \cap Foreign(r)
<1>1. CASE a # 0
  <2>1. a - 1 \in Nat /\ a - 1 <= a
    BY <1>1
  <2>2. Near(s, r, a - 1) \subseteq Near(s, r, a)
    BY <2>1, NearGrows
  <2> QED
    BY <1>1, <2>2 DEF Fetched
<1> QED
  BY <1>1 DEF Fetched

LEMMA OwnNear ==
  ASSUME NEW s \in Settings, NEW r \in Ranks, NEW a \in Nat
  PROVE  OwnRows(s, r) \subseteq Near(s, r, a)
<1>1. Near(s, r, 0) \subseteq Near(s, r, a)
  BY NearGrows
<1> QED
  BY <1>1, NearStep

(* The rows near at a stage are those fetched before, the own ones, and    *)
(* those it wants.                                                         *)
LEMMA WantsTheRest ==
  ASSUME NEW s \in Settings, NEW r \in Ranks, NEW a \in Nat, a <= s.overlap
  PROVE  /\ (Near(s, r, a) \ OwnRows(s, r)) \cap Foreign(r)
              = Fetched(s, r, a) \cup (WantAt(s, r, a) \cap Foreign(r))
         /\ WantAt(s, r, a) = (IF a = s.overlap THEN Near(s, r, a) ELSE Edge(s, r, a))
                                \ (OwnRows(s, r) \cup Fetched(s, r, a))
<1>1. s.overlap \in Nat
  BY OverlapIsNat
<1>2. CASE a = s.overlap
  <2>1. WantAt(s, r, a) = (Near(s, r, a) \ OwnRows(s, r)) \ Fetched(s, r, a)
    BY <1>1, <1>2 DEF WantAt, Wanted
  <2> QED
    BY <1>2, <2>1, FetchedNear
<1>3. CASE a # s.overlap /\ a = 0
  <2>1. WantAt(s, r, a) = {} /\ Fetched(s, r, a) = {} /\ Edge(s, r, a) = OwnRows(s, r)
        /\ Near(s, r, a) = OwnRows(s, r)
    BY <1>1, <1>3, NearStep DEF WantAt, Fetched, Edge
  <2> QED
    BY <1>3, <2>1
<1>4. CASE a # s.overlap /\ a # 0
  <2>1. a - 1 \in Nat /\ a - 1 <= a /\ a < s.overlap
    BY <1>1, <1>4
  <2>2. Near(s, r, a - 1) \subseteq Near(s, r, a) /\ OwnRows(s, r) \subseteq Near(s, r, a - 1)
    BY <2>1, NearGrows, OwnNear
  <2>3. /\ WantAt(s, r, a) = Near(s, r, a) \ Near(s, r, a - 1) /\ Edge(s, r, a) = WantAt(s, r, a)
        /\ Fetched(s, r, a) = (Near(s, r, a - 1) \ OwnRows(s, r)) \cap Foreign(r)
    BY <1>4, <2>1 DEF WantAt, Edge, Fetched
  <2>4. (Near(s, r, a) \ OwnRows(s, r)) \cap Foreign(r)
           = Fetched(s, r, a) \cup (WantAt(s, r, a) \cap Foreign(r))
    BY <2>2, <2>3
  <2>5. WantAt(s, r, a) = Edge(s, r, a) \ (OwnRows(s, r) \cup Fetched(s, r, a))
    BY <2>2, <2>3
  <2> QED
    BY <1>4, <2>4, <2>5
<1> QED
  BY <1>2, <1>3, <1>4

LEMMA FstsOf ==
  ASSUME NEW S, NEW v PROVE Fsts(S \X {v}) = S
<1>1. ASSUME NEW g \in S PROVE g \in Fsts(S \X {v})
  <2>1. <<g, v>> \in S \X {v} /\ <<g, v>>[1] = g
    OBVIOUS
  <2> QED
    BY <2>1 DEF Fsts
<1>2. ASSUME NEW g \in Fsts(S \X {v}) PROVE g \in S
  BY <1>2 DEF Fsts
<1> QED
  BY <1>1, <1>2

(* What Remote finds is what the stage wants.                              *)
LEMMA RemoteIsWanted ==
  ASSUME NEW s \in Settings, NEW r \in Ranks, NEW a \in Nat, a <= s.overlap
  PROVE  WantAt(s, r, a)
           = {g \in (IF a = s.overlap THEN Near(s, r, a) ELSE Edge(s, r, a)) :
                g \notin OwnRows(s, r) /\ g \notin Fsts(Before(s, r, a))}
<1>1. s.overlap \in Nat
  BY OverlapIsNat
<1>2. Fsts(Before(s, r, a)) = Fetched(s, r, a)
  <2>1. Before(s, r, a) = Fetched(s, r, a) \X {0}
    BY <1>1 DEF Before
  <2> QED
    BY <2>1, FstsOf
<1>3. WantAt(s, r, a) = (IF a = s.overlap THEN Near(s, r, a) ELSE Edge(s, r, a))
                          \ (OwnRows(s, r) \cup Fetched(s, r, a))
  BY WantsTheRest
<1> DEFINE E == IF a = s.overlap THEN Near(s, r, a) ELSE Edge(s, r, a)
<1>4. WantAt(s, r, a) = E \ (OwnRows(s, r) \cup Fetched(s, r, a))
  BY <1>3
<1> HIDE DEF E
<1>5. WantAt(s, r, a) = {g \in E : g \notin OwnRows(s, r) /\ g \notin Fsts(Before(s, r, a))}
  BY <1>2, <1>4
<1> QED
  BY <1>5 DEF E

(* What the answers add to what is here.                                   *)
LEMMA AnswersComplete ==
  ASSUME NEW s \in Settings, NEW r \in Ranks, NEW a \in Nat, a <= s.overlap + 1
  PROVE  /\ Got(s, r, a) = Before(s, r, a) \cup ((WantAt(s, r, a) \cap Foreign(r)) \X {Ver(s, a)})
         /\ \A e \in Before(s, r, a) : e = <<e[1], Ver(s, a)>>
<1>1. s.overlap \in Nat
  BY OverlapIsNat
<1>2. CASE a <= s.overlap
  <2>1. Ver(s, a) = 0 /\ Before(s, r, a) = Fetched(s, r, a) \X {0} /\ Reach(s, r, a) = Near(s, r, a)
    BY <1>1, <1>2 DEF Ver, Before, Reach
  <2>2. (Near(s, r, a) \ OwnRows(s, r)) \cap Foreign(r)
           = Fetched(s, r, a) \cup (WantAt(s, r, a) \cap Foreign(r))
    BY <1>2, WantsTheRest
  <2>3. Got(s, r, a) = (Fetched(s, r, a) \cup (WantAt(s, r, a) \cap Foreign(r))) \X {0}
    BY <2>1, <2>2 DEF Got
  <2> DEFINE F == Fetched(s, r, a)  W == WantAt(s, r, a) \cap Foreign(r)
  <2> HIDE DEF F, W
  <2>4. (F \cup W) \X {0} = (F \X {0}) \cup (W \X {0}) /\ \A e \in F \X {0} : e = <<e[1], 0>>
    OBVIOUS
  <2> QED
    BY <2>1, <2>3, <2>4 DEF F, W
<1>3. CASE ~(a <= s.overlap)
  <2>1. a > s.overlap /\ ~(a < s.overlap) /\ a # s.overlap
    BY <1>1, <1>3
  <2> QED
    BY <2>1 DEF Got, Before, Reach, WantAt
<1> QED
  BY <1>2, <1>3

LEMMA NothingWanted ==
  ASSUME NEW s \in Settings, NEW r \in Ranks, NEW a \in Nat, a <= s.overlap + 1, WantAt(s, r, a) = {}
  PROVE  Got(s, r, a) = Before(s, r, a)
<1>1. Got(s, r, a) = Before(s, r, a) \cup (({} \cap Foreign(r)) \X {Ver(s, a)})
  BY AnswersComplete
<1> QED
  BY <1>1

(* The ring that expand adds.                                              *)
LEMMA NextRing ==
  ASSUME NEW s \in Settings, NEW r \in Ranks, NEW a \in Nat, a < s.overlap
  PROVE  /\ (UNION {s.graph[g] : g \in Edge(s, r, a) \cap (OwnRows(s, r) \cup Fsts(Got(s, r, a)))})
              \ Near(s, r, a) = Edge(s, r, a + 1)
         /\ Near(s, r, a) \cup Edge(s, r, a + 1) = Near(s, r, a + 1)
         /\ Got(s, r, a) = Before(s, r, a + 1)
<1>1. s.overlap \in Nat /\ a + 1 \in Nat /\ a + 1 # 0 /\ (a + 1) - 1 = a /\ a + 1 <= s.overlap
  BY OverlapIsNat
<1>2. /\ Got(s, r, a) = ((Near(s, r, a) \ OwnRows(s, r)) \cap Foreign(r)) \X {0}
      /\ Edge(s, r, a + 1) = Near(s, r, a + 1) \ Near(s, r, a)
  BY <1>1 DEF Got, Reach, Ver, Edge
<1>3. Fsts(Got(s, r, a)) = (Near(s, r, a) \ OwnRows(s, r)) \cap Foreign(r)
  BY <1>2, FstsOf
<1>4. Got(s, r, a) = Before(s, r, a + 1)
  BY <1>1, <1>2 DEF Before, Fetched
<1> DEFINE n == Near(s, r, a)  e == Edge(s, r, a)  rd == Read(s, r)
<1>5. Near(s, r, a + 1) = n \cup UNION {s.graph[g] : g \in n \cap rd}
  BY NearStep
<1>6. OwnRows(s, r) \subseteq n
  BY OwnNear
<1>7. e \subseteq n
  BY <1>6 DEF Edge
<1>8. e \cap (OwnRows(s, r) \cup Fsts(Got(s, r, a))) = e \cap rd
  BY <1>3, <1>6, <1>7 DEF Read
<1>9. UNION {s.graph[g] : g \in (n \ e) \cap rd} \subseteq n
  <2>1. CASE a = 0
    <3>1. n \ e = {}
      BY <2>1, NearStep DEF Edge
    <3> QED
      BY <3>1
  <2>2. CASE a # 0
    <3>1. a - 1 \in Nat /\ (a - 1) + 1 = a /\ a - 1 <= a
      BY <2>2
    <3>2. n = Near(s, r, a - 1) \cup UNION {s.graph[g] : g \in Near(s, r, a - 1) \cap rd}
      BY <3>1, NearStep
    <3>3. n \ e = Near(s, r, a - 1)
      <4>1. Near(s, r, a - 1) \subseteq n
        BY <3>1, NearGrows
      <4> QED
        BY <2>2, <4>1 DEF Edge
    <3> QED
      BY <3>2, <3>3
  <2> QED
    BY <2>1, <2>2
<1> HIDE DEF n, e, rd
<1> DEFINE A == UNION {s.graph[g] : g \in n \cap rd}  B == UNION {s.graph[g] : g \in e \cap rd}
<1>10. \A h : h \in A /\ h \notin n => h \in B
  <2> SUFFICES ASSUME NEW h \in A, h \notin n PROVE h \in B
    OBVIOUS
  <2>1. PICK g \in n \cap rd : h \in s.graph[g]
    OBVIOUS
  <2>2. g \in e
    BY <1>9, <2>1
  <2> QED
    BY <2>1, <2>2
<1>11. B \subseteq A
  BY <1>7
<1>12. B \ n = Edge(s, r, a + 1)
  <2>1. Edge(s, r, a + 1) = (n \cup A) \ n
    BY <1>2, <1>5 DEF n
  <2> HIDE DEF A, B
  <2> QED
    BY <2>1, <1>10, <1>11
<1>13. n \cup Edge(s, r, a + 1) = Near(s, r, a + 1)
  <2>1. Near(s, r, a + 1) = n \cup A
    BY <1>5
  <2>2. Edge(s, r, a + 1) = Near(s, r, a + 1) \ n
    BY <1>2 DEF n
  <2> HIDE DEF A, B
  <2> QED
    BY <2>1, <2>2
<1>14. UNION {s.graph[g] : g \in e \cap (OwnRows(s, r) \cup Fsts(Got(s, r, a)))} = B
  BY <1>8
<1> HIDE DEF A, B
<1>15. (UNION {s.graph[g] : g \in e \cap (OwnRows(s, r) \cup Fsts(Got(s, r, a)))}) \ n
         = Edge(s, r, a + 1)
  BY <1>12, <1>14
<1> USE DEF n, e
<1> QED
  BY <1>4, <1>13, <1>15

(* Whether a rank asks in a sweep is what AskingAlike speaks about, and    *)
(* update_numeric asks for rows if some sweep did.                         *)
LEMMA WantsAsAsked ==
  ASSUME NEW s \in Settings, NEW r \in Ranks, NEW a \in Nat, a <= s.overlap
  PROVE  WantAt(s, r, a) # {} <=> Asks(s, r, a)
<1>1. s.overlap \in Nat
  BY OverlapIsNat
<1>2. CASE a = s.overlap
  BY <1>1, <1>2 DEF WantAt, Asks
<1>3. CASE a # s.overlap /\ a = 0
  BY <1>1, <1>3 DEF WantAt, Asks
<1>4. CASE a # s.overlap /\ a # 0
  <2>1. a - 1 \in Nat /\ a - 1 <= a /\ a < s.overlap /\ a > 0
    BY <1>1, <1>4
  <2>2. Near(s, r, a - 1) \subseteq Near(s, r, a)
    BY <2>1, NearGrows
  <2>3. WantAt(s, r, a) = Near(s, r, a) \ Near(s, r, a - 1)
    BY <1>4, <2>1 DEF WantAt, Edge
  <2>4. Asks(s, r, a) <=> Near(s, r, a) # Near(s, r, a - 1)
    BY <1>4, <2>1 DEF Asks
  <2> QED
    BY <2>2, <2>3, <2>4
<1> QED
  BY <1>2, <1>3, <1>4

LEMMA RemoteIfAsked ==
  ASSUME NEW s \in Settings, NEW r \in Ranks
  PROVE  Near(s, r, s.overlap) \ OwnRows(s, r) # {} <=> \E i \in 0..s.overlap : Asks(s, r, i)
<1> DEFINE v == s.overlap  own == OwnRows(s, r)
<1>1. v \in Nat
  BY OverlapIsNat
<1>2. ASSUME NEW i \in 0..v, Asks(s, r, i) PROVE Near(s, r, v) \ own # {}
  <2>1. CASE i = v
    BY <1>2, <2>1 DEF Asks, Wanted
  <2>2. CASE i # v
    <3>1. i > 0 /\ Near(s, r, i) # Near(s, r, i - 1) /\ i - 1 \in Nat /\ i - 1 <= i /\ i \in Nat /\ i <= v
      BY <1>1, <1>2, <2>2 DEF Asks
    <3>2. Near(s, r, i - 1) \subseteq Near(s, r, i)
      BY <3>1, NearGrows
    <3>3. Near(s, r, i) \subseteq Near(s, r, v)
      BY <1>1, <3>1, NearGrows
    <3>4. own \subseteq Near(s, r, i - 1)
      BY <3>1, OwnNear
    <3> QED
      BY <3>1, <3>2, <3>3, <3>4
  <2> QED
    BY <2>1, <2>2
<1>3. ASSUME \A i \in 0..v : ~Asks(s, r, i) PROVE Near(s, r, v) \ own = {}
  <2>1. CASE v = 0
    BY <2>1, NearStep
  <2>2. CASE v # 0
    <3> DEFINE S == {i \in Nat : i < v => Near(s, r, i) = own}
    <3>1. 0 \in S
      BY NearStep
    <3>2. ASSUME NEW i \in Nat, i \in S PROVE i + 1 \in S
      <4> SUFFICES ASSUME i + 1 < v PROVE Near(s, r, i + 1) = own
        OBVIOUS
      <4>1. i + 1 \in 0..v /\ i + 1 # v /\ i + 1 > 0 /\ (i + 1) - 1 = i /\ i < v
        BY <1>1
      <4>2. ~Asks(s, r, i + 1)
        BY <1>3, <4>1
      <4>3. Near(s, r, i + 1) = Near(s, r, i)
        BY <4>1, <4>2 DEF Asks
      <4> QED
        BY <3>2, <4>1, <4>3
    <3> HIDE DEF S
    <3>3. \A i \in Nat : i \in S
      BY <3>1, <3>2, Induct
    <3>4. v - 1 \in Nat /\ v - 1 < v /\ v \in 0..v
      BY <1>1, <2>2
    <3>5. Near(s, r, v - 1) = own
      BY <3>3, <3>4 DEF S
    <3>6. Fetched(s, r, v) = {}
      BY <2>2, <3>5 DEF Fetched
    <3>7. Wanted(s, r, v) = {}
      BY <1>3, <3>4 DEF Asks
    <3> QED
      BY <3>6, <3>7 DEF Wanted
  <2> QED
    BY <2>1, <2>2
<1> QED
  BY <1>2, <1>3

LEMMA AllAsk ==
  ASSUME NEW s \in Settings, AskingAlike(s), NEW a \in Nat, a <= s.overlap + 1, NEW r \in Ranks
  PROVE  WantAt(s, r, a) # {} <=> Asking(s, a)
<1>1. s.overlap \in Nat
  BY OverlapIsNat
<1>2. \A q \in Ranks, i \in 0..s.overlap : Asks(s, q, i) <=> Asks(s, r, i)
  BY DEF AskingAlike
<1>3. ASSUME NEW q \in Ranks PROVE WantAt(s, q, a) # {} <=> WantAt(s, r, a) # {}
  <2>1. CASE a <= s.overlap
    <3>1. a \in 0..s.overlap
      BY <1>1, <2>1
    <3>2. Asks(s, q, a) <=> Asks(s, r, a)
      BY <1>2, <3>1
    <3>3. WantAt(s, q, a) # {} <=> Asks(s, q, a)
      BY <2>1, WantsAsAsked
    <3>4. WantAt(s, r, a) # {} <=> Asks(s, r, a)
      BY <2>1, WantsAsAsked
    <3> QED
      BY <3>2, <3>3, <3>4
  <2>2. CASE ~(a <= s.overlap)
    <3>1. \A p \in Ranks : WantAt(s, p, a) = Near(s, p, s.overlap) \ OwnRows(s, p)
      BY <1>1, <2>2 DEF WantAt
    <3>2. \A p \in Ranks : WantAt(s, p, a) # {} <=> \E i \in 0..s.overlap : Asks(s, p, i)
      BY <3>1, RemoteIfAsked
    <3> QED
      BY <1>2, <3>2
  <2> QED
    BY <2>1, <2>2
<1> QED
  BY <1>3 DEF Asking

------------------------------------------------------------------------------
(* The list of steps from a place on.                                      *)
Do(x, t) == <<x>> \o t

LEMMA DoFirst ==
  ASSUME NEW x \in Names, NEW t \in Seq(Names)
  PROVE  /\ Do(x, t) \in Seq(Names) /\ Do(x, t) # <<>>
         /\ Head(Do(x, t)) = x /\ Tail(Do(x, t)) = t
BY Cons DEF Do

LEMMA DoConcat ==
  ASSUME NEW x \in Names, NEW t \in Seq(Names), NEW u \in Seq(Names)
  PROVE  Do(x, t) \o u = Do(x, t \o u)
<1> DEFINE v == <<x>>
<1>1. v \in Seq(Names)
  OBVIOUS
<1> HIDE DEF v
<1>2. (v \o t) \o u = v \o (t \o u)
  BY <1>1, ConcatAssociative
<1> QED
  BY <1>2 DEF Do, v

CoarseSteps(s, t) ==
  IF s.coarse THEN Do("coarse rhs", Do("coarse solve", Do("coarse solution", t))) ELSE t
Returning(s, t) ==
  IF s.mode = "asm" THEN Do("return", CoarseSteps(s, t)) ELSE CoarseSteps(s, t)
Applying(s, t) == Do("apply", Do("values", Do("solve", Returning(s, t))))
CoarseRows(s, t) ==
  IF s.coarse THEN Do("coarse rows", Applying(s, t)) ELSE Applying(s, t)
Factoring(s, t) == Do("factor", CoarseRows(s, t))
Updating(s) == Do("refresh", Do("build", Factoring(s, <<>>)))
SettingUp(s) == Do("complete", Do("build", Do("lists", Factoring(s, Updating(s)))))

LEMMA ListsOfSteps ==
  ASSUME NEW s, NEW t \in Seq(Names)
  PROVE  /\ CoarseSteps(s, t) \in Seq(Names) /\ Returning(s, t) \in Seq(Names)
         /\ Do("solve", Returning(s, t)) \in Seq(Names)
         /\ Do("values", Do("solve", Returning(s, t))) \in Seq(Names)
         /\ Applying(s, t) \in Seq(Names) /\ CoarseRows(s, t) \in Seq(Names)
         /\ Factoring(s, t) \in Seq(Names)
         /\ Do("coarse solution", t) \in Seq(Names)
         /\ Do("coarse solve", Do("coarse solution", t)) \in Seq(Names)
<1>1. Do("coarse solution", t) \in Seq(Names)
  BY NamesOfSteps, DoFirst
<1>2. Do("coarse solve", Do("coarse solution", t)) \in Seq(Names)
  BY <1>1, NamesOfSteps, DoFirst
<1>3. Do("coarse rhs", Do("coarse solve", Do("coarse solution", t))) \in Seq(Names)
  BY <1>2, NamesOfSteps, DoFirst
<1>4. CoarseSteps(s, t) \in Seq(Names)
  BY <1>3 DEF CoarseSteps
<1>5. Do("return", CoarseSteps(s, t)) \in Seq(Names)
  BY <1>4, NamesOfSteps, DoFirst
<1>6. Returning(s, t) \in Seq(Names)
  BY <1>4, <1>5 DEF Returning
<1>7. Do("solve", Returning(s, t)) \in Seq(Names)
  BY <1>6, NamesOfSteps, DoFirst
<1>8. Do("values", Do("solve", Returning(s, t))) \in Seq(Names)
  BY <1>7, NamesOfSteps, DoFirst
<1>9. Applying(s, t) \in Seq(Names)
  BY <1>8, NamesOfSteps, DoFirst DEF Applying
<1>10. Do("coarse rows", Applying(s, t)) \in Seq(Names)
  BY <1>9, NamesOfSteps, DoFirst
<1>11. CoarseRows(s, t) \in Seq(Names)
  BY <1>9, <1>10 DEF CoarseRows
<1>12. Factoring(s, t) \in Seq(Names)
  BY <1>11, NamesOfSteps, DoFirst DEF Factoring
<1> QED
  BY <1>1, <1>2, <1>4, <1>6, <1>7, <1>8, <1>9, <1>11, <1>12

LEMMA EmptyIsAList == <<>> \in Seq(Names)
OBVIOUS

LEMMA ListsOfStages ==
  ASSUME NEW s
  PROVE  /\ Factoring(s, <<>>) \in Seq(Names) /\ Do("build", Factoring(s, <<>>)) \in Seq(Names)
         /\ Updating(s) \in Seq(Names) /\ Factoring(s, Updating(s)) \in Seq(Names)
         /\ Do("lists", Factoring(s, Updating(s))) \in Seq(Names)
         /\ Do("build", Do("lists", Factoring(s, Updating(s)))) \in Seq(Names)
         /\ SettingUp(s) \in Seq(Names)
<1>1. Factoring(s, <<>>) \in Seq(Names)
  BY EmptyIsAList, ListsOfSteps
<1>2. Do("build", Factoring(s, <<>>)) \in Seq(Names)
  BY <1>1, NamesOfSteps, DoFirst
<1>3. Updating(s) \in Seq(Names)
  BY <1>2, NamesOfSteps, DoFirst DEF Updating
<1>4. Factoring(s, Updating(s)) \in Seq(Names)
  BY <1>3, ListsOfSteps
<1>5. Do("lists", Factoring(s, Updating(s))) \in Seq(Names)
  BY <1>4, NamesOfSteps, DoFirst
<1>6. Do("build", Do("lists", Factoring(s, Updating(s)))) \in Seq(Names)
  BY <1>5, NamesOfSteps, DoFirst
<1>7. SettingUp(s) \in Seq(Names)
  BY <1>6, NamesOfSteps, DoFirst DEF SettingUp
<1> QED
  BY <1>1, <1>2, <1>3, <1>4, <1>5, <1>6, <1>7

(* The places of a rank: the stage a and the point b in it; the points are *)
(* 0 first step, 1 ask, 2 answer, 3 expand or build, 4 lists, 5 factor,    *)
(* 6 coarse rows, 7 apply, 8 values, 9 solve, 10 return, 11 to 13 coarse   *)
(* correction.  Stage overlap + 2 is the end.                              *)
Ahead(s, a) ==
  IF a <= s.overlap THEN Sweeps(s.overlap - a) \o SettingUp(s)
  ELSE IF a = s.overlap + 1 THEN Updating(s) ELSE <<>>
Third(s, a) ==
  IF a < s.overlap THEN Do("expand", Ahead(s, a + 1))
  ELSE IF a = s.overlap THEN Do("build", Do("lists", Factoring(s, Updating(s))))
  ELSE Do("build", Factoring(s, <<>>))
Rest(s, a, b) ==
  IF b = 0 THEN Ahead(s, a)
  ELSE IF b = 1 THEN Do("ask", Do("answer", Third(s, a)))
  ELSE IF b = 2 THEN Do("answer", Third(s, a))
  ELSE IF b = 3 THEN Third(s, a)
  ELSE IF b = 4 THEN Do("lists", Factoring(s, Ahead(s, a + 1)))
  ELSE IF b = 5 THEN Factoring(s, Ahead(s, a + 1))
  ELSE IF b = 6 THEN Do("coarse rows", Applying(s, Ahead(s, a + 1)))
  ELSE IF b = 7 THEN Applying(s, Ahead(s, a + 1))
  ELSE IF b = 8 THEN Do("values", Do("solve", Returning(s, Ahead(s, a + 1))))
  ELSE IF b = 9 THEN Do("solve", Returning(s, Ahead(s, a + 1)))
  ELSE IF b = 10 THEN Do("return", CoarseSteps(s, Ahead(s, a + 1)))
  ELSE IF b = 11 THEN Do("coarse rhs", Do("coarse solve", Do("coarse solution", Ahead(s, a + 1))))
  ELSE IF b = 12 THEN Do("coarse solve", Do("coarse solution", Ahead(s, a + 1)))
  ELSE Do("coarse solution", Ahead(s, a + 1))

StepAt(s, a, b) ==
  IF b = 0 THEN IF a < s.overlap THEN "sweep" ELSE IF a = s.overlap THEN "complete" ELSE "refresh"
  ELSE IF b = 1 THEN "ask"
  ELSE IF b = 2 THEN "answer"
  ELSE IF b = 3 THEN IF a < s.overlap THEN "expand" ELSE "build"
  ELSE IF b = 4 THEN "lists"
  ELSE IF b = 5 THEN "factor"
  ELSE IF b = 6 THEN "coarse rows"
  ELSE IF b = 7 THEN "apply"
  ELSE IF b = 8 THEN "values"
  ELSE IF b = 9 THEN "solve"
  ELSE IF b = 10 THEN "return"
  ELSE IF b = 11 THEN "coarse rhs"
  ELSE IF b = 12 THEN "coarse solve"
  ELSE "coarse solution"

(* The point that follows when nothing is asked for; a stage ends in 0.    *)
Follow(s, a, b) ==
  IF b = 0 THEN 3
  ELSE IF b = 3 THEN IF a < s.overlap THEN 0 ELSE IF a = s.overlap THEN 4 ELSE 5
  ELSE IF b = 5 THEN IF s.coarse THEN 6 ELSE 7
  ELSE IF b = 9 /\ s.mode = "asm" THEN 10
  ELSE IF b = 9 \/ b = 10 THEN IF s.coarse THEN 11 ELSE 0
  ELSE IF b = 13 THEN 0 ELSE b + 1
FollowStage(s, a, b) == IF Follow(s, a, b) = 0 THEN a + 1 ELSE a

Applications(s) == {s.overlap, s.overlap + 1}
Valid(s, a, b) ==
  \/ b = 0 /\ a <= s.overlap + 2
  \/ b \in {1, 2} /\ a <= s.overlap + 1 /\ Asking(s, a)
  \/ b = 3 /\ a <= s.overlap + 1
  \/ b = 4 /\ a = s.overlap
  \/ b \in {5, 7, 8, 9} /\ a \in Applications(s)
  \/ b \in {6, 11, 12, 13} /\ a \in Applications(s) /\ s.coarse
  \/ b = 10 /\ a \in Applications(s) /\ s.mode = "asm"

LEMMA AheadLists ==
  ASSUME NEW s \in Settings, NEW a \in Nat
  PROVE  /\ Ahead(s, a) \in Seq(Names) /\ Third(s, a) \in Seq(Names)
         /\ a < s.overlap => Ahead(s, a) = Do("sweep", Third(s, a))
         /\ a = s.overlap => Ahead(s, a) = Do("complete", Third(s, a))
         /\ a = s.overlap + 1 => Ahead(s, a) = Do("refresh", Third(s, a))
<1>1. s.overlap \in Nat
  BY OverlapIsNat
<1>2. ASSUME NEW c \in Nat PROVE Ahead(s, c) \in Seq(Names)
  <2>1. CASE c <= s.overlap
    <3>1. s.overlap - c \in Nat
      BY <1>1, <2>1
    <3>2. Sweeps(s.overlap - c) \in Seq(Names) /\ SettingUp(s) \in Seq(Names)
      BY <3>1, Rings, ListsOfStages
    <3>3. Sweeps(s.overlap - c) \o SettingUp(s) \in Seq(Names)
      BY <3>2, ConcatProperties
    <3> QED
      BY <2>1, <3>3 DEF Ahead
  <2>2. CASE ~(c <= s.overlap)
    BY <2>2, ListsOfStages, EmptyIsAList DEF Ahead
  <2> QED
    BY <2>1, <2>2
<1>3. Third(s, a) \in Seq(Names)
  <2>1. Ahead(s, a + 1) \in Seq(Names)
    BY <1>2
  <2>2. Do("expand", Ahead(s, a + 1)) \in Seq(Names)
    BY <2>1, NamesOfSteps, DoFirst
  <2> QED
    BY <2>2, ListsOfStages DEF Third
<1>4. ASSUME a < s.overlap PROVE Ahead(s, a) = Do("sweep", Third(s, a))
  <2> DEFINE n == s.overlap - (a + 1)
  <2>1. n \in Nat /\ n + 1 = s.overlap - a /\ a + 1 <= s.overlap /\ a <= s.overlap
    BY <1>1, <1>4
  <2>2. Ahead(s, a) = Sweeps(n + 1) \o SettingUp(s) /\ Ahead(s, a + 1) = Sweeps(n) \o SettingUp(s)
    BY <2>1 DEF Ahead
  <2> HIDE DEF n
  <2>3. Sweeps(n) \in Seq(Names) /\ Sweeps(n + 1) = <<"sweep", "expand">> \o Sweeps(n)
    BY <2>1, Rings
  <2> DEFINE c == "sweep"  d == "expand"
  <2>4. c \in Names /\ d \in Names
    BY NamesOfSteps
  <2>5. SettingUp(s) \in Seq(Names) /\ Sweeps(n + 1) = <<c, d>> \o Sweeps(n)
    BY <2>3, ListsOfStages
  <2>6. Third(s, a) = Do(d, Ahead(s, a + 1))
    BY <1>4 DEF Third
  <2> HIDE DEF c, d
  <2>7. Sweeps(n + 1) = Do(c, Do(d, Sweeps(n)))
    <3>1. <<c, d>> \o Sweeps(n) = <<c>> \o (<<d>> \o Sweeps(n))
      BY <2>3, <2>4, Two
    <3> QED
      BY <2>5, <3>1 DEF Do
  <2>8. Do(d, Sweeps(n)) \in Seq(Names)
    BY <2>3, <2>4, DoFirst
  <2>9. Do(c, Do(d, Sweeps(n))) \o SettingUp(s) = Do(c, Do(d, Sweeps(n)) \o SettingUp(s))
    BY <2>4, <2>5, <2>8, DoConcat
  <2>10. Do(d, Sweeps(n)) \o SettingUp(s) = Do(d, Sweeps(n) \o SettingUp(s))
    BY <2>3, <2>4, <2>5, DoConcat
  <2>11. Ahead(s, a) = Do(c, Third(s, a))
    BY <2>2, <2>6, <2>7, <2>9, <2>10
  <2> QED
    BY <2>11 DEF c
<1>5. ASSUME a = s.overlap PROVE Ahead(s, a) = Do("complete", Third(s, a))
  <2>1. s.overlap - a = 0 /\ a <= s.overlap /\ ~(a < s.overlap)
    BY <1>1, <1>5
  <2>2. Ahead(s, a) = Sweeps(0) \o SettingUp(s)
    BY <2>1 DEF Ahead
  <2>3. SettingUp(s) \in Seq(Names) /\ Sweeps(0) = <<>>
    BY ListsOfStages, Rings
  <2>4. Ahead(s, a) = SettingUp(s)
    BY <2>2, <2>3, ConcatEmptySeq
  <2>5. SettingUp(s) = Do("complete", Third(s, a))
    BY <1>5, <2>1 DEF Third, SettingUp
  <2> QED
    BY <2>4, <2>5
<1>6. ASSUME a = s.overlap + 1 PROVE Ahead(s, a) = Do("refresh", Third(s, a))
  <2>1. ~(a <= s.overlap) /\ ~(a < s.overlap) /\ a # s.overlap
    BY <1>1, <1>6
  <2> QED
    BY <1>6, <2>1 DEF Third, Ahead, Updating
<1> QED
  BY <1>2, <1>3, <1>4, <1>5, <1>6

LEMMA RestAt ==
  ASSUME NEW s, NEW a
  PROVE  /\ Rest(s, a, 0) = Ahead(s, a) /\ Rest(s, a, 3) = Third(s, a)
         /\ Rest(s, a, 4) = Do("lists", Factoring(s, Ahead(s, a + 1))) /\ Rest(s, a, 5) = Factoring(s, Ahead(s, a + 1))
         /\ Rest(s, a, 6) = Do("coarse rows", Applying(s, Ahead(s, a + 1))) /\ Rest(s, a, 7) = Applying(s, Ahead(s, a + 1))
         /\ Rest(s, a, 8) = Do("values", Do("solve", Returning(s, Ahead(s, a + 1))))
         /\ Rest(s, a, 9) = Do("solve", Returning(s, Ahead(s, a + 1)))
         /\ Rest(s, a, 10) = Do("return", CoarseSteps(s, Ahead(s, a + 1)))
         /\ Rest(s, a, 11) = Do("coarse rhs", Do("coarse solve", Do("coarse solution", Ahead(s, a + 1))))
         /\ Rest(s, a, 12) = Do("coarse solve", Do("coarse solution", Ahead(s, a + 1)))
         /\ Rest(s, a, 13) = Do("coarse solution", Ahead(s, a + 1))
BY DEF Rest

(* What is left to do at a place is its step and what is left at the next. *)
LEMMA RestStep ==
  ASSUME NEW s \in Settings, NEW a \in Nat, NEW b \in 0..13, Valid(s, a, b), a <= s.overlap + 1
  PROVE  /\ Rest(s, a, b) = Do(StepAt(s, a, b), Rest(s, FollowStage(s, a, b), Follow(s, a, b)))
         /\ StepAt(s, a, b) \in Names
         /\ Rest(s, FollowStage(s, a, b), Follow(s, a, b)) \in Seq(Names)
         /\ Rest(s, a, b) \in Seq(Names)
<1>1. s.overlap \in Nat
  BY OverlapIsNat
<1>2. StepAt(s, a, b) \in Names
  BY NamesOfSteps DEF StepAt
<1>3. Ahead(s, a + 1) \in Seq(Names) /\ Third(s, a) \in Seq(Names)
  BY AheadLists
<1> DEFINE t == Ahead(s, a + 1)  f == Follow(s, a, b)  n == Rest(s, FollowStage(s, a, b), f)
           x == StepAt(s, a, b)
<1>4. CASE b = 0
  <2>1. f = 3 /\ n = Third(s, a)
    BY <1>4 DEF Follow, FollowStage, Rest
  <2>2. a < s.overlap \/ a = s.overlap \/ a = s.overlap + 1
    BY <1>1
  <2>3. Ahead(s, a) = Do(x, Third(s, a))
    BY <1>1, <1>4, <2>2, AheadLists DEF StepAt
  <2> QED
    BY <1>2, <1>3, <1>4, <2>1, <2>3, AheadLists DEF Rest
<1>5. CASE b = 1 \/ b = 2
  <2>1. Do("answer", Third(s, a)) \in Seq(Names)
    BY <1>3, NamesOfSteps, DoFirst
  <2>2. f = b + 1 /\ FollowStage(s, a, b) = a
    BY <1>5 DEF Follow, FollowStage
  <2>3. CASE b = 1
    <3>1. x = "ask" /\ n = Do("answer", Third(s, a)) /\ Rest(s, a, b) = Do("ask", Do("answer", Third(s, a)))
      BY <2>2, <2>3 DEF StepAt, Rest
    <3> QED
      BY <1>2, <2>1, <3>1, DoFirst
  <2>4. CASE b = 2
    <3>1. x = "answer" /\ n = Third(s, a) /\ Rest(s, a, b) = Do("answer", Third(s, a))
      BY <2>2, <2>4 DEF StepAt, Rest
    <3> QED
      BY <1>2, <1>3, <2>1, <3>1
  <2> QED
    BY <1>5, <2>3, <2>4
<1>6. CASE b = 3
  <2>1. Rest(s, a, b) = Third(s, a)
    BY <1>6 DEF Rest
  <2>2. CASE a < s.overlap
    <3>1. f = 0 /\ FollowStage(s, a, b) = a + 1 /\ x = "expand"
      BY <1>6, <2>2 DEF Follow, FollowStage, StepAt
    <3>2. n = t /\ Third(s, a) = Do("expand", t)
      BY <2>2, <3>1 DEF Rest, Third
    <3> QED
      BY <1>2, <1>3, <2>1, <3>1, <3>2
  <2>3. CASE a = s.overlap
    <3>1. ~(a < s.overlap) /\ f = 4 /\ FollowStage(s, a, b) = a /\ x = "build"
      BY <1>1, <1>6, <2>3 DEF Follow, FollowStage, StepAt
    <3>2. t = Updating(s)
      BY <1>1, <2>3 DEF Ahead
    <3>3. n = Do("lists", Factoring(s, t))
      BY <3>1 DEF Rest
    <3>4. Third(s, a) = Do("build", n)
      BY <2>3, <3>1, <3>2, <3>3 DEF Third
    <3>5. n \in Seq(Names)
      BY <3>2, <3>3, ListsOfStages
    <3> QED
      BY <1>2, <1>3, <2>1, <3>1, <3>4, <3>5
  <2>4. CASE a = s.overlap + 1
    <3>1. ~(a < s.overlap) /\ a # s.overlap /\ f = 5 /\ FollowStage(s, a, b) = a /\ x = "build"
      BY <1>1, <1>6, <2>4 DEF Follow, FollowStage, StepAt
    <3>2. t = <<>>
      BY <1>1, <2>4 DEF Ahead
    <3>3. n = Factoring(s, t)
      BY <3>1 DEF Rest
    <3>4. Third(s, a) = Do("build", n)
      BY <3>1, <3>2, <3>3 DEF Third
    <3>5. n \in Seq(Names)
      BY <3>2, <3>3, ListsOfStages
    <3> QED
      BY <1>2, <1>3, <2>1, <3>1, <3>4, <3>5
  <2> QED
    BY <1>1, <2>2, <2>3, <2>4
<1>7. CASE b > 3
  <2>1. /\ CoarseSteps(s, t) \in Seq(Names) /\ Returning(s, t) \in Seq(Names)
        /\ Do("solve", Returning(s, t)) \in Seq(Names)
        /\ Do("values", Do("solve", Returning(s, t))) \in Seq(Names)
        /\ Applying(s, t) \in Seq(Names) /\ CoarseRows(s, t) \in Seq(Names)
        /\ Factoring(s, t) \in Seq(Names)
        /\ Do("coarse solution", t) \in Seq(Names)
        /\ Do("coarse solve", Do("coarse solution", t)) \in Seq(Names)
    BY <1>3, ListsOfSteps
  <2>2. Rest(s, a + 1, 0) = t
    BY DEF Rest
  <2>3. /\ Rest(s, a, 4) = Do("lists", Factoring(s, t)) /\ Rest(s, a, 5) = Factoring(s, t)
        /\ Rest(s, a, 6) = Do("coarse rows", Applying(s, t)) /\ Rest(s, a, 7) = Applying(s, t)
        /\ Rest(s, a, 8) = Do("values", Do("solve", Returning(s, t)))
        /\ Rest(s, a, 9) = Do("solve", Returning(s, t))
        /\ Rest(s, a, 10) = Do("return", CoarseSteps(s, t))
        /\ Rest(s, a, 11) = Do("coarse rhs", Do("coarse solve", Do("coarse solution", t)))
        /\ Rest(s, a, 12) = Do("coarse solve", Do("coarse solution", t))
        /\ Rest(s, a, 13) = Do("coarse solution", t)
    BY DEF Rest
  <2>4. Rest(s, a, b) = Do(x, n) /\ n \in Seq(Names)
    <3> HIDE DEF t
    <3>1. CASE b = 4
      <4>1. f = 5 /\ FollowStage(s, a, b) = a /\ x = "lists"
        BY <3>1 DEF Follow, FollowStage, StepAt
      <4>2. n = Factoring(s, t) /\ Rest(s, a, b) = Do("lists", Factoring(s, t))
        BY <3>1, <4>1, <2>3
      <4> QED BY <2>1, <4>1, <4>2
    <3>2. CASE b = 5
      <4>1. x = "factor" /\ Rest(s, a, b) = Factoring(s, t) /\ Factoring(s, t) = Do("factor", CoarseRows(s, t))
        BY <3>2 DEF StepAt, Rest, t, Factoring
      <4>2. n = CoarseRows(s, t)
        <5>1. CASE s.coarse
          <6>1. f = 6 /\ FollowStage(s, a, b) = a
            BY <3>2, <5>1 DEF Follow, FollowStage
          <6> QED BY <5>1, <6>1, <2>3 DEF CoarseRows
        <5>2. CASE ~s.coarse
          <6>1. f = 7 /\ FollowStage(s, a, b) = a
            BY <3>2, <5>2 DEF Follow, FollowStage
          <6> QED BY <5>2, <6>1, <2>3 DEF CoarseRows
        <5> QED BY <5>1, <5>2
      <4> QED BY <2>1, <4>1, <4>2
    <3>3. CASE b = 6
      <4>1. f = 7 /\ FollowStage(s, a, b) = a /\ x = "coarse rows"
        BY <3>3 DEF Follow, FollowStage, StepAt
      <4>2. n = Applying(s, t) /\ Rest(s, a, b) = Do("coarse rows", Applying(s, t))
        BY <3>3, <4>1, <2>3
      <4> QED BY <2>1, <4>1, <4>2
    <3>4. CASE b = 7
      <4>1. f = 8 /\ FollowStage(s, a, b) = a /\ x = "apply"
        BY <3>4 DEF Follow, FollowStage, StepAt
      <4>2. n = Do("values", Do("solve", Returning(s, t))) /\ Rest(s, a, b) = Applying(s, t)
        BY <3>4, <4>1, <2>3
      <4> QED BY <2>1, <4>1, <4>2 DEF Applying
    <3>5. CASE b = 8
      <4>1. f = 9 /\ FollowStage(s, a, b) = a /\ x = "values"
        BY <3>5 DEF Follow, FollowStage, StepAt
      <4>2. n = Do("solve", Returning(s, t)) /\ Rest(s, a, b) = Do("values", Do("solve", Returning(s, t)))
        BY <3>5, <4>1, <2>3
      <4> QED BY <2>1, <4>1, <4>2
    <3>6. ASSUME b = 9 \/ b = 10, f # 10
          PROVE  n = CoarseSteps(s, t)
      <4>1. CASE s.coarse
        <5>1. f = 11 /\ FollowStage(s, a, b) = a
          BY <3>6, <4>1 DEF Follow, FollowStage
        <5> QED BY <4>1, <5>1, <2>3 DEF CoarseSteps
      <4>2. CASE ~s.coarse
        <5>1. f = 0 /\ FollowStage(s, a, b) = a + 1
          BY <3>6, <4>2 DEF Follow, FollowStage
        <5> QED BY <2>2, <4>2, <5>1 DEF CoarseSteps
      <4> QED BY <4>1, <4>2
    <3>7. CASE b = 9
      <4>1. x = "solve" /\ Rest(s, a, b) = Do("solve", Returning(s, t))
        BY <3>7 DEF StepAt, Rest, t
      <4>2. n = Returning(s, t)
        <5>1. CASE s.mode = "asm"
          <6>1. f = 10 /\ FollowStage(s, a, b) = a
            BY <3>7, <5>1 DEF Follow, FollowStage
          <6> QED BY <5>1, <6>1, <2>3 DEF Returning
        <5>2. CASE s.mode # "asm"
          <6>1. f # 10
            BY <3>7, <5>2 DEF Follow
          <6> QED BY <3>6, <3>7, <5>2, <6>1 DEF Returning
        <5> QED BY <5>1, <5>2
      <4> QED BY <2>1, <4>1, <4>2
    <3>8. CASE b = 10
      <4>1. x = "return" /\ Rest(s, a, b) = Do("return", CoarseSteps(s, t)) /\ f # 10
        BY <3>8 DEF StepAt, Rest, t, Follow
      <4> QED BY <2>1, <3>6, <3>8, <4>1
    <3>9. CASE b = 11
      <4>1. f = 12 /\ FollowStage(s, a, b) = a /\ x = "coarse rhs"
        BY <3>9 DEF Follow, FollowStage, StepAt
      <4>2. n = Do("coarse solve", Do("coarse solution", t)) /\ Rest(s, a, b) = Do("coarse rhs", n)
        BY <3>9, <4>1, <2>3
      <4> QED BY <2>1, <4>1, <4>2
    <3>10. CASE b = 12
      <4>1. f = 13 /\ FollowStage(s, a, b) = a /\ x = "coarse solve"
        BY <3>10 DEF Follow, FollowStage, StepAt
      <4>2. n = Do("coarse solution", t) /\ Rest(s, a, b) = Do("coarse solve", n)
        BY <3>10, <4>1, <2>3
      <4> QED BY <2>1, <4>1, <4>2
    <3>11. CASE b = 13
      <4>1. f = 0 /\ FollowStage(s, a, b) = a + 1 /\ x = "coarse solution"
        BY <3>11 DEF Follow, FollowStage, StepAt
      <4>2. n = t /\ Rest(s, a, b) = Do("coarse solution", t)
        BY <2>2, <3>11, <4>1, <2>3
      <4> QED BY <1>3, <4>1, <4>2 DEF t
    <3>12. b = 4 \/ b = 5 \/ b = 6 \/ b = 7 \/ b = 8 \/ b = 9 \/ b = 10 \/ b = 11 \/ b = 12 \/ b = 13
      BY <1>7
    <3> QED
      BY <3>1, <3>2, <3>3, <3>4, <3>5, <3>7, <3>8, <3>9, <3>10, <3>11, <3>12
  <2> HIDE DEF x, n
  <2>5. Do(x, n) \in Seq(Names)
    BY <1>2, <2>4, DoFirst DEF x
  <2> QED
    BY <1>2, <2>4, <2>5 DEF x, n
<1>8. b = 0 \/ b = 1 \/ b = 2 \/ b = 3 \/ b > 3
  OBVIOUS
<1> QED
  BY <1>4, <1>5, <1>6, <1>7, <1>8

(* The plans of the module as lists of this form.                          *)
LEMMA DoOne ==
  ASSUME NEW a \in Names, NEW t \in Seq(Names)
  PROVE  <<a>> \o t = Do(a, t) /\ <<a>> \in Seq(Names)
<1>1. <<a>> \in Seq(Names)
  OBVIOUS
<1> QED
  BY <1>1 DEF Do

LEMMA DoThree ==
  ASSUME NEW a \in Names, NEW c \in Names, NEW d \in Names, NEW t \in Seq(Names)
  PROVE  <<a, c, d>> \o t = Do(a, Do(c, Do(d, t))) /\ <<a, c, d>> \in Seq(Names)
<1>1. <<a, c, d>> \o t = <<a>> \o (<<c>> \o (<<d>> \o t))
  BY Three
<1>2. <<a, c, d>> \in Seq(Names)
  OBVIOUS
<1> QED
  BY <1>1, <1>2 DEF Do

LEMMA DoFour ==
  ASSUME NEW a \in Names, NEW c \in Names, NEW d \in Names, NEW e \in Names, NEW t \in Seq(Names)
  PROVE  <<a, c, d, e>> \o t = Do(a, Do(c, Do(d, Do(e, t)))) /\ <<a, c, d, e>> \in Seq(Names)
<1> DEFINE u == <<a, c, d, e>>  v == <<a>>  w == <<c, d, e>>
<1>1. v \in Seq(Names) /\ w \in Seq(Names) /\ u \in Seq(Names)
  OBVIOUS
<1>2. u = v \o w
  BY SMTT(30)
<1>3. w \o t = Do(c, Do(d, Do(e, t)))
  BY DoThree
<1> HIDE DEF u, v, w
<1>4. (v \o w) \o t = v \o (w \o t)
  BY <1>1, Associative, SMTT(30)
<1>5. u \o t = v \o Do(c, Do(d, Do(e, t)))
  BY <1>2, <1>3, <1>4
<1> QED
  BY <1>1, <1>5 DEF u, v, Do

SolveNames == <<"apply", "values", "solve">>
ReturnNames == If(setting.mode = "asm", <<"return">>)
CoarseNames == If(setting.coarse, <<"coarse rhs", "coarse solve", "coarse solution">>)
SetUpNames == <<"complete", "build", "lists", "factor">>
CoarseRowsNames == If(setting.coarse, <<"coarse rows">>)
UpdateNames == <<"refresh", "build", "factor">>

LEMMA NamesSolve ==
  ASSUME NEW t \in Seq(Names)
  PROVE  SolveNames \in Seq(Names) /\ SolveNames \o t = Do("apply", Do("values", Do("solve", t)))
<1> DEFINE a == "apply"  c == "values"  d == "solve"
<1>1. SolveNames = <<a, c, d>> /\ a \in Names /\ c \in Names /\ d \in Names
  BY NamesOfSteps DEF SolveNames
<1> HIDE DEF a, c, d
<1>2. SolveNames \in Seq(Names) /\ SolveNames \o t = Do(a, Do(c, Do(d, t)))
  BY <1>1, DoThree
<1> QED
  BY <1>2 DEF a, c, d

LEMMA NamesUpdate ==
  ASSUME NEW t \in Seq(Names)
  PROVE  UpdateNames \in Seq(Names) /\ UpdateNames \o t = Do("refresh", Do("build", Do("factor", t)))
<1> DEFINE a == "refresh"  c == "build"  d == "factor"
<1>1. UpdateNames = <<a, c, d>> /\ a \in Names /\ c \in Names /\ d \in Names
  BY NamesOfSteps DEF UpdateNames
<1> HIDE DEF a, c, d
<1>2. UpdateNames \in Seq(Names) /\ UpdateNames \o t = Do(a, Do(c, Do(d, t)))
  BY <1>1, DoThree
<1> QED
  BY <1>2 DEF a, c, d

LEMMA NamesSetUp ==
  ASSUME NEW t \in Seq(Names)
  PROVE  /\ SetUpNames \in Seq(Names)
         /\ SetUpNames \o t = Do("complete", Do("build", Do("lists", Do("factor", t))))
<1> DEFINE a == "complete"  c == "build"  d == "lists"  e == "factor"
<1>1. SetUpNames = <<a, c, d, e>> /\ a \in Names /\ c \in Names /\ d \in Names /\ e \in Names
  BY NamesOfSteps DEF SetUpNames
<1> HIDE DEF a, c, d, e
<1>2. SetUpNames \in Seq(Names) /\ SetUpNames \o t = Do(a, Do(c, Do(d, Do(e, t))))
  BY <1>1, DoFour
<1> QED
  BY <1>2 DEF a, c, d, e

LEMMA NamesReturn ==
  ASSUME NEW t \in Seq(Names)
  PROVE  /\ ReturnNames \in Seq(Names)
         /\ ReturnNames \o t = IF setting.mode = "asm" THEN Do("return", t) ELSE t
<1> DEFINE a == "return"
<1>1. a \in Names
  BY NamesOfSteps
<1>2. ReturnNames = IF setting.mode = "asm" THEN <<a>> ELSE <<>>
  BY DEF ReturnNames, If
<1> HIDE DEF a
<1>3. <<a>> \in Seq(Names) /\ <<a>> \o t = Do(a, t) /\ <<>> \o t = t /\ <<>> \in Seq(Names)
  BY <1>1, DoOne, ConcatEmptySeq, EmptyIsAList
<1>4. ReturnNames \in Seq(Names) /\ ReturnNames \o t = IF setting.mode = "asm" THEN Do(a, t) ELSE t
  BY <1>2, <1>3
<1> QED
  BY <1>4 DEF a

LEMMA NamesCoarseRows ==
  ASSUME NEW t \in Seq(Names)
  PROVE  /\ CoarseRowsNames \in Seq(Names)
         /\ CoarseRowsNames \o t = IF setting.coarse THEN Do("coarse rows", t) ELSE t
<1> DEFINE a == "coarse rows"
<1>1. a \in Names
  BY NamesOfSteps
<1>2. CoarseRowsNames = IF setting.coarse THEN <<a>> ELSE <<>>
  BY DEF CoarseRowsNames, If
<1> HIDE DEF a
<1>3. <<a>> \in Seq(Names) /\ <<a>> \o t = Do(a, t) /\ <<>> \o t = t /\ <<>> \in Seq(Names)
  BY <1>1, DoOne, ConcatEmptySeq, EmptyIsAList
<1>4. CoarseRowsNames \in Seq(Names) /\ CoarseRowsNames \o t = IF setting.coarse THEN Do(a, t) ELSE t
  BY <1>2, <1>3
<1> QED
  BY <1>4 DEF a

LEMMA NamesCoarse ==
  ASSUME NEW t \in Seq(Names)
  PROVE  CoarseNames \in Seq(Names) /\ CoarseNames \o t = CoarseSteps(setting, t)
<1> DEFINE a == "coarse rhs"  c == "coarse solve"  d == "coarse solution"
<1>1. a \in Names /\ c \in Names /\ d \in Names
  BY NamesOfSteps
<1>2. CoarseNames = IF setting.coarse THEN <<a, c, d>> ELSE <<>>
  BY DEF CoarseNames, If
<1>3. CoarseSteps(setting, t) = IF setting.coarse THEN Do(a, Do(c, Do(d, t))) ELSE t
  BY DEF CoarseSteps
<1> HIDE DEF a, c, d
<1>4. /\ <<a, c, d>> \in Seq(Names) /\ <<a, c, d>> \o t = Do(a, Do(c, Do(d, t)))
      /\ <<>> \o t = t /\ <<>> \in Seq(Names)
  BY <1>1, DoThree, ConcatEmptySeq, EmptyIsAList
<1> QED
  BY <1>2, <1>3, <1>4

LEMMA PlanApplying ==
  ASSUME NEW t \in Seq(Names)
  PROVE  ApplyPlan \in Seq(Names) /\ ApplyPlan \o t = Applying(setting, t)
<1>1. ApplyPlan = (SolveNames \o ReturnNames) \o CoarseNames
  BY DEF ApplyPlan, SolveNames, ReturnNames, CoarseNames
<1>2. SolveNames \in Seq(Names) /\ ReturnNames \in Seq(Names) /\ CoarseNames \in Seq(Names)
  BY NamesSolve, NamesReturn, NamesCoarse
<1>3. SolveNames \o ReturnNames \in Seq(Names) /\ ReturnNames \o CoarseNames \in Seq(Names)
      /\ CoarseNames \o t \in Seq(Names)
  BY <1>2, ConcatProperties
<1>4. ApplyPlan \in Seq(Names)
  BY <1>1, <1>2, <1>3, ConcatProperties
<1>5. ApplyPlan \o t = (SolveNames \o ReturnNames) \o (CoarseNames \o t)
  BY <1>1, <1>2, <1>3, ConcatAssociative, SMTT(30)
<1>6. (SolveNames \o ReturnNames) \o (CoarseNames \o t)
         = SolveNames \o (ReturnNames \o (CoarseNames \o t))
  BY <1>2, <1>3, ConcatAssociative, SMTT(30)
<1>7. ReturnNames \o (CoarseNames \o t) \in Seq(Names)
  BY <1>2, <1>3, ConcatProperties
<1>8. CoarseNames \o t = CoarseSteps(setting, t)
  BY NamesCoarse
<1>9. ReturnNames \o (CoarseNames \o t) = Returning(setting, t)
  BY <1>3, <1>8, NamesReturn DEF Returning
<1>10. SolveNames \o Returning(setting, t) = Applying(setting, t)
  BY <1>7, <1>9, NamesSolve DEF Applying
<1> QED
  BY <1>4, <1>5, <1>6, <1>9, <1>10

LEMMA PlanIsAhead ==
  ASSUME setting \in Settings
  PROVE  /\ AfterSweeps = Ahead(setting, setting.overlap)
         /\ Plan = Ahead(setting, 0)
<1> DEFINE s == setting  p == ApplyPlan  c == CoarseRowsNames  h == SetUpNames  u == UpdateNames
<1>1. AfterSweeps = ((((h \o c) \o p) \o u) \o c) \o p
  BY DEF AfterSweeps, SetUpNames, UpdateNames, CoarseRowsNames
<1>2. h \in Seq(Names) /\ c \in Seq(Names) /\ p \in Seq(Names) /\ u \in Seq(Names)
  BY EmptyIsAList, NamesSetUp, NamesCoarseRows, PlanApplying, NamesUpdate
<1>3. /\ p = Applying(s, <<>>) /\ p \in Seq(Names)
      /\ \A t \in Seq(Names) : p \o t = Applying(s, t) /\ c \o t = IF s.coarse THEN Do("coarse rows", t) ELSE t
      /\ \A t \in Seq(Names) : h \o t = Do("complete", Do("build", Do("lists", Do("factor", t))))
      /\ \A t \in Seq(Names) : u \o t = Do("refresh", Do("build", Do("factor", t)))
  <2>1. p \o <<>> = p
    BY <1>2, ConcatEmptySeq
  <2>2. p \o <<>> = Applying(s, <<>>)
    BY EmptyIsAList, PlanApplying
  <2> QED
    BY <1>2, <2>1, <2>2, NamesSetUp, NamesCoarseRows, PlanApplying, NamesUpdate
<1> HIDE DEF s, p, c, h, u
<1> DEFINE l == h \o c  m == l \o p  i == c \o p  j == u \o i  k == p \o j
<1>4. l \in Seq(Names) /\ i \in Seq(Names)
  BY <1>2, ConcatProperties
<1>5. m \in Seq(Names) /\ j \in Seq(Names)
  <2> HIDE DEF l, i
  <2> QED
    BY <1>2, <1>4, ConcatProperties
<1>6. m \o u \in Seq(Names) /\ k \in Seq(Names)
  <2> HIDE DEF m, j
  <2> QED
    BY <1>2, <1>5, ConcatProperties
<1>7. c \o k \in Seq(Names)
  <2> HIDE DEF k
  <2> QED
    BY <1>2, <1>6, ConcatProperties
<1>8. ((m \o u) \o c) \o p = (m \o u) \o i
  <2> DEFINE n == m \o u
  <2>1. n \in Seq(Names)
    BY <1>6
  <2> HIDE DEF n
  <2>2. (n \o c) \o p = n \o (c \o p)
    BY <1>2, <2>1, Associative
  <2> QED
    BY <2>2 DEF n
<1>9. (m \o u) \o i = m \o j
  <2>1. u \in Seq(Names) /\ i \in Seq(Names) /\ m \in Seq(Names)
    BY <1>2, <1>4, <1>5
  <2> HIDE DEF m, i
  <2>2. (m \o u) \o i = m \o (u \o i)
    BY <2>1, Associative
  <2> QED
    BY <2>2
<1>10. m \o j = l \o k
  <2> HIDE DEF l, j
  <2> QED
    BY <1>2, <1>4, <1>5, Associative, SMTT(30)
<1>11. l \o k = h \o (c \o k)
  <2> HIDE DEF k
  <2> QED
    <3>1. h \in Seq(Names) /\ c \in Seq(Names) /\ k \in Seq(Names)
      BY <1>2, <1>6
    <3>2. (h \o c) \o k = h \o (c \o k)
      BY <3>1, Associative
    <3> QED
      BY <3>2
<1>12. AfterSweeps = h \o (c \o k)
  BY <1>1, <1>8, <1>9, <1>10, <1>11
<1> HIDE DEF k
<1>13. i = CoarseRows(s, <<>>)
  BY <1>3 DEF CoarseRows
<1>14. j = Updating(s)
  <2> HIDE DEF i
  <2> QED
    BY <1>3, <1>4, <1>13 DEF Updating, Factoring
<1>15. c \o k = CoarseRows(s, Updating(s))
  <2>1. k = Applying(s, Updating(s))
    <3> HIDE DEF j
    <3> QED
      BY <1>3, <1>5, <1>14 DEF k
  <2> QED
    BY <1>3, <1>6, <2>1 DEF CoarseRows
<1>16. AfterSweeps = SettingUp(s)
  <2> DEFINE n == c \o k
  <2>1. n \in Seq(Names) /\ n = CoarseRows(s, Updating(s)) /\ AfterSweeps = h \o n
    BY <1>7, <1>12, <1>15
  <2> HIDE DEF n
  <2> QED
    BY <1>3, <2>1 DEF SettingUp, Factoring
<1>17. s.overlap \in Nat /\ s.overlap - s.overlap = 0 /\ s.overlap - 0 = s.overlap
  <2>1. s.overlap \in Nat
    BY OverlapIsNat DEF s
  <2> QED
    BY <2>1
<1>18. Ahead(s, s.overlap) = SettingUp(s)
  <2>1. Sweeps(0) = <<>> /\ SettingUp(s) \in Seq(Names)
    BY Rings, ListsOfStages
  <2>2. <<>> \o SettingUp(s) = SettingUp(s)
    BY <2>1, ConcatEmptySeq
  <2> QED
    BY <1>17, <2>1, <2>2 DEF Ahead
<1>19. Ahead(s, 0) = Sweeps(s.overlap) \o AfterSweeps
  BY <1>16, <1>17 DEF Ahead
<1>20. Plan = Sweeps(s.overlap) \o AfterSweeps
  BY DEF Plan, s
<1> QED
  BY <1>16, <1>18, <1>19, <1>20 DEF s

------------------------------------------------------------------------------
(* Exchanges as the setting determines them: the ranks that take part at a *)
(* place, and what they send.                                              *)
Place(a, b) == 16 * a + b

LEMMA PlaceOrder ==
  ASSUME NEW a \in Nat, NEW b \in 0..13, NEW c \in Nat, NEW d \in 0..13
  PROVE  /\ Place(a, b) \in Nat
         /\ Place(a, b) = Place(c, d) => a = c /\ b = d
         /\ Place(a, b) < Place(c, d) <=> a < c \/ (a = c /\ b < d)
BY DEF Place

(* What r imports from q by its subdomain.                                 *)
Share(s, r, q) == IF q = r THEN {} ELSE {g \in Near(s, r, s.overlap) : OwnerOf(g) = q}

(* p writes to q in the exchange of this place, and q waits for it.        *)
Joint(s, a, b, p, q) ==
  /\ p # q
  /\ \/ b \in {1, 2} /\ a <= s.overlap + 1 /\ Asking(s, a)
     \/ b = 4 /\ a = s.overlap
     \/ b \in {6, 11, 13} /\ a \in Applications(s) /\ s.coarse
     \/ b = 8 /\ a \in Applications(s) /\ Share(s, q, p) # {}
     \/ b = 10 /\ a \in Applications(s) /\ s.mode = "asm" /\ Share(s, p, q) # {}
Part(s, n, p, q) == \E a \in Nat, b \in 0..13 : n = Place(a, b) /\ Joint(s, a, b, p, q)

TurnAt(s, a, b) ==
  (IF a > s.overlap THEN a - s.overlap ELSE 0) + (IF b >= 8 THEN 1 ELSE 0)
Asked(s, a, p, q) == {g \in WantAt(s, p, a) : OwnerOf(g) = q}
Bill(s, a, b, p, q) ==
  IF b = 1 THEN Asked(s, a, p, q)
  ELSE IF b = 2 THEN Asked(s, a, q, p) \X {Ver(s, a)}
  ELSE IF b = 4 THEN Share(s, p, q)
  ELSE IF b = 8 THEN Share(s, q, p) \X {TurnAt(s, a, b)}
  ELSE IF b = 10 THEN {<<g, p, TurnAt(s, a, b)>> : g \in Share(s, p, q)}
  ELSE {}
Msg(s, a, b, p, q) == [call |-> StepAt(s, a, b), data |-> Bill(s, a, b, p, q)]
IsLetter(s, n, p, q, x) == \E a \in Nat, b \in 0..13 : n = Place(a, b) /\ x = Msg(s, a, b, p, q)

LEMMA PartAt ==
  ASSUME NEW s, NEW a \in Nat, NEW b \in 0..13, NEW p, NEW q
  PROVE  Part(s, Place(a, b), p, q) <=> Joint(s, a, b, p, q)
BY PlaceOrder DEF Part

LEMMA LetterAt ==
  ASSUME NEW s, NEW a \in Nat, NEW b \in 0..13, NEW p, NEW q, NEW x
  PROVE  IsLetter(s, Place(a, b), p, q, x) <=> x = Msg(s, a, b, p, q)
BY PlaceOrder DEF IsLetter

(* No exchange is between a place and the next one.                        *)
LEMMA NoneBetween ==
  ASSUME NEW s \in Settings, NEW a \in Nat, NEW b \in 0..13, Valid(s, a, b), b # 0, NEW n \in Nat,
         Place(a, b) < n, n < Place(FollowStage(s, a, b), Follow(s, a, b)), NEW p, NEW q
  PROVE  ~Part(s, n, p, q)
<1>1. s.overlap \in Nat
  BY OverlapIsNat
<1>2. SUFFICES ASSUME NEW c \in Nat, NEW d \in 0..13, n = Place(c, d), Joint(s, c, d, p, q)
               PROVE  FALSE
  BY DEF Part
<1> DEFINE f == Follow(s, a, b)  h == FollowStage(s, a, b)
<1>3. f \in 0..13 /\ h \in Nat
  <2>1. f \in 0..13
    BY DEF Follow
  <2> QED
    BY <2>1 DEF FollowStage
<1>4. a < c \/ (a = c /\ b < d)
  BY <1>2, PlaceOrder
<1>5. c < h \/ (c = h /\ d < f)
  BY <1>2, <1>3, PlaceOrder, ZenonT(30)
<1>6. /\ f = 0 => h = a + 1 /\ (b = 3 \/ b = 9 \/ b = 10 \/ b = 13)
      /\ f # 0 => h = a
  BY DEF Follow, FollowStage
<1>7. c = a /\ b < d /\ (f # 0 => d < f)
  BY <1>3, <1>4, <1>5, <1>6
<1>8. CASE b = 3
  BY <1>1, <1>7, <1>8, <1>2 DEF Follow, Joint, Applications
<1>9. CASE b = 5
  BY <1>7, <1>9, <1>2 DEF Follow, Joint
<1>10. CASE b = 9 \/ b = 10
  BY <1>7, <1>10, <1>2 DEF Follow, Joint
<1>11. CASE b \notin {3, 5, 9, 10, 13}
  <2>1. f = b + 1
    BY <1>11 DEF Follow
  <2> QED
    BY <1>7, <2>1
<1>12. CASE b = 13
  BY <1>7, <1>12
<1> QED
  BY <1>8, <1>9, <1>10, <1>11, <1>12

LEMMA NoneUnasked ==
  ASSUME NEW s \in Settings, NEW a \in Nat, NEW c \in Nat, NEW d \in {0, 3}, NEW n \in Nat,
         Place(a, 0) <= n, n < Place(c, d), NEW p, NEW q,
         c <= s.overlap \/ (c = a /\ d = 3),
         \A j \in Nat : a <= j /\ (j < c \/ (j = c /\ d = 3)) => ~Asking(s, j)
  PROVE  ~Part(s, n, p, q)
<1>1. s.overlap \in Nat
  BY OverlapIsNat
<1>2. SUFFICES ASSUME NEW i \in Nat, NEW k \in 0..13, n = Place(i, k), Joint(s, i, k, p, q)
               PROVE  FALSE
  BY DEF Part
<1>3. i < c \/ (i = c /\ k < d)
  <2>1. d \in 0..13
    OBVIOUS
  <2> QED
    BY <1>2, <2>1, PlaceOrder
<1>4. ~(i < a)
  <2> DEFINE o == 0
  <2>0. o \in 0..13 /\ ~(k < o)
    OBVIOUS
  <2> HIDE DEF o
  <2>1. (Place(i, k) < Place(a, o) <=> i < a \/ (i = a /\ k < o)) /\ Place(a, o) \in Nat /\ Place(i, k) \in Nat
    BY <2>0, PlaceOrder
  <2>2. ~(Place(i, k) < Place(a, o))
    BY <1>2, <2>1 DEF o
  <2> QED
    BY <2>0, <2>1, <2>2
<1>5. ~Asking(s, i)
  BY <1>3, <1>4
<1>6. k \notin {1, 2} /\ i >= s.overlap
  BY <1>1, <1>2, <1>5 DEF Joint, Applications
<1>7. k > 3
  BY <1>2, <1>6 DEF Joint
<1> QED
  BY <1>1, <1>3, <1>4, <1>6, <1>7

LEMMA NoneSilent ==
  ASSUME NEW s, NEW a \in Nat, NEW b \in {0, 3, 5, 7, 9, 12}, NEW p, NEW q
  PROVE  ~Joint(s, a, b, p, q)
BY DEF Joint

------------------------------------------------------------------------------
(* The messages on the way from p to q are those of the exchanges in S, in *)
(* their order.                                                            *)
Carries(s, p, q, m, S) ==
  \E W : /\ m \in Seq(W)
         /\ \E rd \in Seq(Nat) :
              /\ Len(rd) = Len(m)
              /\ \A i \in 1..Len(m) : rd[i] \in S /\ IsLetter(s, rd[i], p, q, m[i])
              /\ \A i, j \in 1..Len(m) : i < j => rd[i] < rd[j]
              /\ \A n \in S : \E i \in 1..Len(m) : rd[i] = n

LEMMA CarriesNone ==
  ASSUME NEW s, NEW p, NEW q
  PROVE  Carries(s, p, q, <<>>, {})
<1>1. <<>> \in Seq(Nat) /\ Len(<<>>) = 0 /\ 1..0 = {}
  OBVIOUS
<1> QED
  BY <1>1 DEF Carries

LEMMA CarriesSome ==
  ASSUME NEW s, NEW p, NEW q, NEW m, NEW S, Carries(s, p, q, m, S), m # <<>>
  PROVE  \E n \in S : TRUE
<1>1. PICK W : /\ m \in Seq(W)
               /\ \E rd \in Seq(Nat) :
                    /\ Len(rd) = Len(m)
                    /\ \A i \in 1..Len(m) : rd[i] \in S /\ IsLetter(s, rd[i], p, q, m[i])
  BY DEF Carries
<1>2. PICK rd \in Seq(Nat) : \A i \in 1..Len(m) : rd[i] \in S
  BY <1>1
<1>3. 1 \in 1..Len(m)
  BY <1>1, EmptySeq
<1> QED
  BY <1>2, <1>3

LEMMA CarriesSent ==
  ASSUME NEW s, NEW p, NEW q, NEW m, NEW S, Carries(s, p, q, m, S), S \subseteq Nat,
         NEW n \in Nat, \A k \in S : k < n, NEW x, IsLetter(s, n, p, q, x)
  PROVE  Carries(s, p, q, Append(m, x), S \cup {n})
<1>1. PICK W : /\ m \in Seq(W)
               /\ \E rd \in Seq(Nat) :
                    /\ Len(rd) = Len(m)
                    /\ \A i \in 1..Len(m) : rd[i] \in S /\ IsLetter(s, rd[i], p, q, m[i])
                    /\ \A i, j \in 1..Len(m) : i < j => rd[i] < rd[j]
                    /\ \A k \in S : \E i \in 1..Len(m) : rd[i] = k
  BY DEF Carries
<1>2. PICK rd \in Seq(Nat) :
                    /\ Len(rd) = Len(m)
                    /\ \A i \in 1..Len(m) : rd[i] \in S /\ IsLetter(s, rd[i], p, q, m[i])
                    /\ \A i, j \in 1..Len(m) : i < j => rd[i] < rd[j]
                    /\ \A k \in S : \E i \in 1..Len(m) : rd[i] = k
  BY <1>1
<1> DEFINE W2 == W \cup {x}  m2 == Append(m, x)  rd2 == Append(rd, n)  l == Len(m)
<1>3. l \in Nat /\ m \in Seq(W2)
  <2>1. W \subseteq W2
    OBVIOUS
  <2> QED
    BY <1>1, <2>1
<1>4. /\ m2 \in Seq(W2) /\ Len(m2) = l + 1 /\ m2[l + 1] = x
      /\ \A i \in 1..l : m2[i] = m[i]
  <2>1. x \in W2
    OBVIOUS
  <2> HIDE DEF W2
  <2> QED
    BY <1>3, <2>1, AppendProperties
<1>5. /\ rd2 \in Seq(Nat) /\ Len(rd2) = l + 1 /\ rd2[l + 1] = n
      /\ \A i \in 1..l : rd2[i] = rd[i]
  BY <1>2, <1>3, AppendProperties
<1> HIDE DEF W2, m2, rd2, l
<1>6. \A i \in 1..l + 1 : i \in 1..l \/ i = l + 1
  BY <1>3
<1>7. \A i \in 1..l : rd[i] \in S /\ IsLetter(s, rd[i], p, q, m[i]) /\ rd[i] < n /\ i \in 1..l + 1
  BY <1>2, <1>3 DEF l
<1>8. ASSUME NEW i \in 1..l + 1
      PROVE  rd2[i] \in S \cup {n} /\ IsLetter(s, rd2[i], p, q, m2[i])
  BY <1>4, <1>5, <1>6, <1>7
<1>9. ASSUME NEW i \in 1..l + 1, NEW j \in 1..l + 1, i < j
      PROVE  rd2[i] < rd2[j]
  <2>1. i \in 1..l
    BY <1>3, <1>9
  <2>2. CASE j \in 1..l
    <3>1. rd[i] < rd[j]
      BY <1>2, <1>9, <2>1, <2>2 DEF l
    <3> QED
      BY <1>5, <2>1, <2>2, <3>1
  <2>3. CASE j = l + 1
    BY <1>5, <1>7, <2>1, <2>3
  <2> QED
    BY <1>6, <2>2, <2>3
<1>10. ASSUME NEW k \in S \cup {n} PROVE \E i \in 1..l + 1 : rd2[i] = k
  <2>1. CASE k \in S
    <3>1. PICK i \in 1..l : rd[i] = k
      BY <1>2, <2>1 DEF l
    <3> QED
      BY <1>5, <1>7, <3>1
  <2>2. CASE k = n
    <3>1. l + 1 \in 1..l + 1
      BY <1>3
    <3> QED
      BY <1>5, <2>2, <3>1
  <2> QED
    BY <2>1, <2>2
<1>11. Carries(s, p, q, m2, S \cup {n})
  <2>1. Len(m2) = l + 1 /\ Len(rd2) = l + 1
    BY <1>4, <1>5
  <2>2. \A i \in 1..Len(m2) : rd2[i] \in S \cup {n} /\ IsLetter(s, rd2[i], p, q, m2[i])
    BY <2>1, <1>8
  <2>3. \A i, j \in 1..Len(m2) : i < j => rd2[i] < rd2[j]
    BY <2>1, <1>9
  <2>4. \A k \in S \cup {n} : \E i \in 1..Len(m2) : rd2[i] = k
    BY <2>1, <1>10
  <2>5. m2 \in Seq(W2) /\ rd2 \in Seq(Nat) /\ Len(rd2) = Len(m2)
    BY <2>1, <1>4, <1>5
  <2> QED
    BY <2>2, <2>3, <2>4, <2>5 DEF Carries
<1> QED
  BY <1>11 DEF m2

LEMMA CarriesTaken ==
  ASSUME NEW s, NEW p, NEW q, NEW m, NEW S, Carries(s, p, q, m, S), S \subseteq Nat,
         NEW n \in S, \A k \in S : n <= k
  PROVE  m # <<>> /\ IsLetter(s, n, p, q, Head(m)) /\ Carries(s, p, q, Tail(m), S \ {n})
<1>1. PICK W : /\ m \in Seq(W)
               /\ \E rd \in Seq(Nat) :
                    /\ Len(rd) = Len(m)
                    /\ \A i \in 1..Len(m) : rd[i] \in S /\ IsLetter(s, rd[i], p, q, m[i])
                    /\ \A i, j \in 1..Len(m) : i < j => rd[i] < rd[j]
                    /\ \A k \in S : \E i \in 1..Len(m) : rd[i] = k
  BY DEF Carries
<1>2. PICK rd \in Seq(Nat) :
                    /\ Len(rd) = Len(m)
                    /\ \A i \in 1..Len(m) : rd[i] \in S /\ IsLetter(s, rd[i], p, q, m[i])
                    /\ \A i, j \in 1..Len(m) : i < j => rd[i] < rd[j]
                    /\ \A k \in S : \E i \in 1..Len(m) : rd[i] = k
  BY <1>1
<1> DEFINE l == Len(m)
<1>3. l \in Nat
  BY <1>1
<1>4. PICK i0 \in 1..l : rd[i0] = n
  BY <1>2
<1>5. 1 \in 1..l
  BY <1>3, <1>4
<1>6. m # <<>> /\ rd # <<>>
  BY <1>1, <1>2, <1>5
<1>7. rd[1] = n
  <2>1. rd[1] \in S /\ n <= rd[1] /\ rd[1] \in Nat /\ n \in Nat
    BY <1>2, <1>5
  <2>2. i0 = 1 \/ 1 < i0
    BY <1>4
  <2>3. 1 < i0 => rd[1] < rd[i0]
    BY <1>2, <1>4, <1>5
  <2> QED
    BY <1>4, <2>1, <2>2, <2>3
<1>8. Head(m) = m[1] /\ IsLetter(s, n, p, q, Head(m))
  <2>1. IsLetter(s, rd[1], p, q, m[1])
    BY <1>2, <1>5
  <2>2. Head(m) = m[1]
    BY <1>1, <1>6
  <2> QED
    BY <1>7, <2>1, <2>2
<1> DEFINE m2 == Tail(m)  rd2 == Tail(rd)
<1>9. m2 \in Seq(W) /\ Len(m2) = l - 1 /\ \A i \in 1..l - 1 : m2[i] = m[i + 1]
  <2>1. /\ Tail(m) \in Seq(W) /\ Len(Tail(m)) = Len(m) - 1
        /\ \A i \in 1..Len(Tail(m)) : Tail(m)[i] = m[i + 1]
    BY <1>1, <1>6, HeadTailProperties
  <2> QED
    BY <2>1
<1>10. rd2 \in Seq(Nat) /\ Len(rd2) = l - 1 /\ \A i \in 1..l - 1 : rd2[i] = rd[i + 1]
  <2>1. /\ Tail(rd) \in Seq(Nat) /\ Len(Tail(rd)) = Len(rd) - 1
        /\ \A i \in 1..Len(Tail(rd)) : Tail(rd)[i] = rd[i + 1]
    BY <1>2, <1>6, HeadTailProperties
  <2> QED
    BY <1>2, <2>1
<1> HIDE DEF m2, rd2
<1>11. \A i \in 1..l - 1 : i + 1 \in 1..l /\ 1 < i + 1 /\ i \in 1..l
  BY <1>3
<1>12. ASSUME NEW i \in 1..l - 1
       PROVE  rd2[i] \in S \ {n} /\ IsLetter(s, rd2[i], p, q, m2[i])
  <2>1. rd[i + 1] \in S /\ IsLetter(s, rd[i + 1], p, q, m[i + 1]) /\ rd[1] < rd[i + 1]
    BY <1>2, <1>5, <1>11
  <2>2. rd[i + 1] # n
    BY <1>7, <2>1
  <2> QED
    BY <1>9, <1>10, <2>1, <2>2
<1>13. ASSUME NEW i \in 1..l - 1, NEW j \in 1..l - 1, i < j
       PROVE  rd2[i] < rd2[j]
  <2>1. i + 1 < j + 1
    BY <1>13
  <2>2. rd[i + 1] < rd[j + 1]
    BY <1>2, <1>11, <2>1
  <2> QED
    BY <1>10, <2>2
<1>14. ASSUME NEW k \in S \ {n} PROVE \E i \in 1..l - 1 : rd2[i] = k
  <2>1. PICK i \in 1..l : rd[i] = k
    BY <1>2
  <2>2. i # 1
    BY <1>7, <2>1
  <2>3. i - 1 \in 1..l - 1 /\ (i - 1) + 1 = i
    BY <1>3, <2>2
  <2> QED
    BY <1>10, <2>1, <2>3
<1>15. Carries(s, p, q, m2, S \ {n})
  <2>1. Len(m2) = l - 1 /\ Len(rd2) = l - 1
    BY <1>9, <1>10
  <2>2. \A i \in 1..Len(m2) : rd2[i] \in S \ {n} /\ IsLetter(s, rd2[i], p, q, m2[i])
    BY <2>1, <1>12
  <2>3. \A i, j \in 1..Len(m2) : i < j => rd2[i] < rd2[j]
    BY <2>1, <1>13
  <2>4. \A k \in S \ {n} : \E i \in 1..Len(m2) : rd2[i] = k
    BY <2>1, <1>14
  <2>5. m2 \in Seq(W) /\ rd2 \in Seq(Nat) /\ Len(rd2) = Len(m2)
    BY <2>1, <1>9, <1>10
  <2> QED
    BY <2>2, <2>3, <2>4, <2>5 DEF Carries
<1> QED
  BY <1>6, <1>8, <1>15 DEF m2

------------------------------------------------------------------------------
(* The invariant.  k[r] is the place of rank r; a rank that has given up    *)
(* stays at the place where it did.                                        *)
CallPoints == {1, 2, 4, 6, 8, 10, 11, 13}

(* The rows whose values are here after the exchange of an application,    *)
(* and the result after it.                                                *)
Pulled(s, r) == OwnRows(s, r) \cup {g \in Near(s, r, s.overlap) : OwnerOf(g) # r}
Adding(s, r, g) == {q \in Ranks : q = r \/ (s.mode = "asm" /\ g \in Share(s, q, r))}
Final(s, r, t) == UNION {{<<g, q, t>> : q \in Adding(s, r, g)} : g \in OwnRows(s, r)}

(* What a rank that goes on has, at a place.                               *)
SetUpAt(s, r, a, b) ==
  /\ subdofs[r] = Reach(s, r, a)
  /\ a <= s.overlap => frontier[r] = Edge(s, r, a)
  /\ b = 1 => want[r] = WantAt(s, r, a)
  /\ b = 2 => \A q \in Others(r) : asked[r][q] = Asked(s, a, q, r) /\ Asked(s, a, q, r) \subseteq OwnRows(s, r)
  /\ a <= s.overlap \/ b > 0 => rows[r] = IF b < 3 THEN Before(s, r, a) ELSE Got(s, r, a)
  /\ \A e \in rows[r] : e[1] \in OwnRows(s, OwnerOf(e[1]))
  /\ values[r] = IF a = s.overlap + 1 /\ b = 0 THEN 0 ELSE Ver(s, a)
  /\ b > 3 \/ a = s.overlap + 2 => matrix[r] = Near(s, r, s.overlap) \X {Ver(s, a)}
ApplyAt(s, r, a, b) ==
  /\ turn[r] = TurnAt(s, a, b)
  /\ a > s.overlap \/ b > 4 => exports[r] = [q \in Ranks |-> Share(s, q, r)]
  /\ b = 9 => rhs[r] = Pulled(s, r) \X {TurnAt(s, a, b)}
  /\ b = 10 => y[r] = {<<g, r, TurnAt(s, a, b)>> : g \in OwnRows(s, r)}
  /\ b > 10 \/ (b = 0 /\ a > s.overlap) => y[r] = Final(s, r, TurnAt(s, a, b))
Stands(s, r, a, b) ==
  /\ Valid(s, a, b)
  /\ todo[r] = Rest(s, a, b)
  /\ SetUpAt(s, r, a, b)
  /\ ApplyAt(s, r, a, b)
  /\ inside[r] \in BOOLEAN
  /\ inside[r] => b \in CallPoints

Gone(r) == error[r] # "crossed" /\ todo[r] = <<>> /\ inside[r] = FALSE
At(s, r, n) ==
  IF error[r] = "" THEN \E a \in Nat, b \in 0..13 : n = Place(a, b) /\ Stands(s, r, a, b)
  ELSE Gone(r)

(* What a rank has sent and been given, even if it has given up since.     *)
Sent(r, n) == IF inside[r] THEN n + 1 ELSE n
Settled(s, r) ==
  /\ Near(s, r, s.overlap) \subseteq Read(s, r)
  /\ \A g \in Near(s, r, s.overlap) \ OwnRows(s, r) : g \in OwnRows(s, OwnerOf(g))
Answers(s, r, a) == \A q \in Others(r) : Asked(s, a, q, r) \subseteq OwnRows(s, r)
Knows(s, r, n) ==
  /\ n > Place(s.overlap, 3) => Settled(s, r)
  /\ \A a \in Nat : a <= s.overlap + 1 /\ Asking(s, a) /\ Sent(r, n) > Place(a, 2) => Answers(s, r, a)

(* Of the exchanges of p with q those are under way that q has not taken   *)
(* and p has begun, and q takes none that p has not begun.                 *)
Pending(s, k, p, q) == {n \in Nat : Part(s, n, p, q) /\ k[q] <= n /\ n < Sent(p, k[p])}
Synced(s, k, p, q) == \A n \in Nat : Part(s, n, p, q) /\ n < k[q] => n < Sent(p, k[p])

PerRank(f) == f = [r \in Ranks |-> f[r]]
Shape ==
  /\ PerRank(todo) /\ PerRank(subdofs) /\ PerRank(frontier) /\ PerRank(want) /\ PerRank(asked)
  /\ PerRank(rows) /\ PerRank(matrix) /\ PerRank(exports) /\ PerRank(values) /\ PerRank(rhs)
  /\ PerRank(y) /\ PerRank(turn) /\ PerRank(inside) /\ PerRank(error)
  /\ mail = [e \in Pairs |-> mail[e]]

Holds(s, k) ==
  /\ setting = s /\ s \in Settings /\ AskingAlike(s)
  /\ Shape
  /\ k \in [Ranks -> Nat]
  /\ \A r \in Ranks : At(s, r, k[r]) /\ Knows(s, r, k[r])
  /\ \A p, q \in Ranks : p # q =>
       Carries(s, p, q, mail[<<p, q>>], Pending(s, k, p, q)) /\ Synced(s, k, p, q)

IInv == \E s, k : Holds(s, k)

------------------------------------------------------------------------------
(* Steps of one rank.  Between two places without an exchange no one meets. *)
Quiet(s, n, m) == \A i \in Nat, p, q \in Ranks : n <= i /\ i < m => ~Part(s, i, p, q)

Untouched(q) ==
  /\ todo'[q] = todo[q] /\ subdofs'[q] = subdofs[q] /\ frontier'[q] = frontier[q]
  /\ want'[q] = want[q] /\ asked'[q] = asked[q] /\ rows'[q] = rows[q] /\ matrix'[q] = matrix[q]
  /\ exports'[q] = exports[q] /\ values'[q] = values[q] /\ rhs'[q] = rhs[q] /\ y'[q] = y[q]
  /\ turn'[q] = turn[q] /\ inside'[q] = inside[q] /\ error'[q] = error[q]
OnlyTouches(r) ==
  /\ setting' = setting /\ Shape'
  /\ \A q \in Ranks : q # r => Untouched(q)

LEMMA StandsFrame ==
  ASSUME NEW s, NEW q, NEW a, NEW b, Untouched(q), Stands(s, q, a, b)
  PROVE  Stands(s, q, a, b)'
<1>1. SetUpAt(s, q, a, b)'
  BY DEF Stands, SetUpAt, Untouched
<1>2. ApplyAt(s, q, a, b)'
  BY DEF Stands, ApplyAt, Untouched
<1> QED
  BY <1>1, <1>2 DEF Stands, Untouched

LEMMA AtFrame ==
  ASSUME NEW s, NEW q, NEW n, Untouched(q), At(s, q, n)
  PROVE  At(s, q, n)'
<1>1. error'[q] = error[q]
  BY DEF Untouched
<1>2. CASE error[q] = ""
  <2>1. PICK a \in Nat, b \in 0..13 : n = Place(a, b) /\ Stands(s, q, a, b)
    BY <1>2 DEF At
  <2>2. Stands(s, q, a, b)'
    BY <2>1, StandsFrame
  <2> QED
    BY <1>1, <1>2, <2>1, <2>2 DEF At
<1>3. CASE error[q] # ""
  <2>1. Gone(q)
    BY <1>3 DEF At
  <2>2. Gone(q)'
    BY <2>1 DEF Gone, Untouched
  <2> QED
    BY <1>1, <1>3, <2>2 DEF At
<1> QED
  BY <1>2, <1>3

LEMMA KnowsFrame ==
  ASSUME NEW s, NEW q, NEW n, inside'[q] = inside[q], Knows(s, q, n)
  PROVE  Knows(s, q, n)'
BY DEF Knows, Sent, Answers

(* r goes from k[r] to m without an exchange.                              *)
LEMMA MoveSilent ==
  ASSUME NEW s, NEW k, Holds(s, k), NEW r \in Ranks, NEW m \in Nat, k[r] <= m,
         OnlyTouches(r), mail' = mail, inside[r] = FALSE, inside'[r] = FALSE,
         Quiet(s, k[r], m),
         At(s, r, m)', Knows(s, r, m)'
  PROVE  IInv'
<1> DEFINE l == [k EXCEPT ![r] = m]
<1>1. k \in [Ranks -> Nat]
  BY DEF Holds
<1>2. l \in [Ranks -> Nat] /\ l[r] = m /\ \A q \in Ranks : q # r => l[q] = k[q]
  BY <1>1
<1> HIDE DEF l
<1>3. \A q \in Ranks : q # r => Untouched(q)
  BY DEF OnlyTouches
<1>4. ASSUME NEW q \in Ranks PROVE At(s, q, l[q])' /\ Knows(s, q, l[q])'
  <2>1. CASE q = r
    BY <1>2, <2>1
  <2>2. CASE q # r
    <3>1. l[q] = k[q] /\ Untouched(q) /\ At(s, q, k[q]) /\ Knows(s, q, k[q])
      BY <1>2, <1>3, <2>2 DEF Holds
    <3>2. At(s, q, k[q])'
      BY <3>1, AtFrame
    <3>3. Knows(s, q, k[q])'
      BY <3>1, KnowsFrame DEF Untouched
    <3> QED
      BY <3>1, <3>2, <3>3
  <2> QED
    BY <2>1, <2>2
<1>5. ASSUME NEW p \in Ranks, NEW q \in Ranks, p # q
      PROVE  /\ Pending(s, l, p, q)' = Pending(s, k, p, q)
             /\ Synced(s, l, p, q)'
  <2>1. ASSUME NEW n \in Nat, Part(s, n, p, q)
        PROVE  /\ n < l[q] <=> n < k[q]
               /\ n < Sent(p, k[p]) <=> n < Sent(p, l[p])'
    <3>1. ~(k[r] <= n /\ n < m)
      BY <2>1 DEF Quiet
    <3>2. k[p] \in Nat /\ k[q] \in Nat /\ k[r] \in Nat
      BY <1>1
    <3>3. n < l[q] <=> n < k[q]
      BY <1>2, <3>1, <3>2
    <3>4. CASE p = r
      BY <1>2, <3>1, <3>2, <3>4 DEF Sent
    <3>5. CASE p # r
      <4>1. inside'[p] = inside[p] /\ l[p] = k[p]
        BY <1>2, <1>3, <3>5 DEF Untouched
      <4>2. Sent(p, l[p])' = Sent(p, k[p])
        BY <4>1 DEF Sent
      <4> QED
        BY <3>3, <4>2
    <3> QED
      BY <3>3, <3>4, <3>5
  <2>2. \A n \in Nat : (l[q] <= n <=> ~(n < l[q])) /\ (k[q] <= n <=> ~(n < k[q]))
    BY <1>1, <1>2
  <2>3. Synced(s, k, p, q)
    BY <1>5 DEF Holds
  <2>4. Pending(s, l, p, q)' = Pending(s, k, p, q)
    BY <2>1, <2>2 DEF Pending
  <2>5. Synced(s, l, p, q)'
    BY <2>1, <2>3 DEF Synced
  <2> QED
    BY <2>4, <2>5
<1>6. ASSUME NEW p \in Ranks, NEW q \in Ranks, p # q
      PROVE  Carries(s, p, q, mail[<<p, q>>], Pending(s, l, p, q))'
  <2>1. Carries(s, p, q, mail[<<p, q>>], Pending(s, k, p, q))
    BY <1>6 DEF Holds
  <2>2. Pending(s, l, p, q)' = Pending(s, k, p, q) /\ mail'[<<p, q>>] = mail[<<p, q>>]
    BY <1>5, <1>6
  <2> QED
    BY <2>1, <2>2
<1>7. setting' = s /\ s \in Settings /\ AskingAlike(s) /\ Shape'
  BY DEF Holds, OnlyTouches
<1>8. Holds(s, l)'
  BY <1>2, <1>4, <1>5, <1>6, <1>7 DEF Holds
<1> QED
  BY <1>8 DEF IInv

(* r begins the exchange at k[r].                                          *)
LEMMA MoveSend ==
  ASSUME NEW s, NEW k, Holds(s, k), NEW r \in Ranks, NEW a \in Nat, NEW b \in 0..13,
         k[r] = Place(a, b), OnlyTouches(r), inside[r] = FALSE, inside'[r] = TRUE,
         \A q \in Ranks : q # r => mail'[<<r, q>>] = IF Joint(s, a, b, r, q)
           THEN Append(mail[<<r, q>>], Msg(s, a, b, r, q)) ELSE mail[<<r, q>>],
         \A p, q \in Ranks : p # q /\ p # r => mail'[<<p, q>>] = mail[<<p, q>>],
         At(s, r, k[r])', Knows(s, r, k[r])'
  PROVE  IInv'
<1>1. k \in [Ranks -> Nat]
  BY DEF Holds
<1>2. \A q \in Ranks : q # r => Untouched(q)
  BY DEF OnlyTouches
<1>3. ASSUME NEW q \in Ranks PROVE At(s, q, k[q])' /\ Knows(s, q, k[q])'
  <2>1. CASE q # r
    <3>1. Untouched(q) /\ At(s, q, k[q]) /\ Knows(s, q, k[q])
      BY <1>2, <2>1 DEF Holds
    <3>2. At(s, q, k[q])'
      BY <3>1, AtFrame
    <3>3. Knows(s, q, k[q])'
      BY <3>1, KnowsFrame DEF Untouched
    <3> QED
      BY <3>2, <3>3
  <2> QED
    BY <2>1
<1>4. ASSUME NEW p \in Ranks, NEW q \in Ranks, p # q
      PROVE  Carries(s, p, q, mail[<<p, q>>], Pending(s, k, p, q))' /\ Synced(s, k, p, q)'
  <2>1. Carries(s, p, q, mail[<<p, q>>], Pending(s, k, p, q)) /\ Synced(s, k, p, q)
    BY <1>4 DEF Holds
  <2>2. CASE p # r
    <3>1. Sent(p, k[p])' = Sent(p, k[p]) /\ mail'[<<p, q>>] = mail[<<p, q>>]
      BY <1>2, <1>4, <2>2 DEF Sent, Untouched
    <3>2. Pending(s, k, p, q)' = Pending(s, k, p, q)
      BY <3>1 DEF Pending
    <3>3. Carries(s, p, q, mail[<<p, q>>], Pending(s, k, p, q))'
      BY <2>1, <3>1, <3>2
    <3>4. Synced(s, k, p, q)'
      BY <2>1, <3>1 DEF Synced
    <3> QED
      BY <3>3, <3>4
  <2>3. CASE p = r
    <3>1. Sent(p, k[p]) = k[r] /\ Sent(p, k[p])' = k[r] + 1 /\ k[r] \in Nat /\ k[q] \in Nat
      BY <1>1, <2>3 DEF Sent
    <3>2. Synced(s, k, p, q)'
      <4> SUFFICES ASSUME NEW n \in Nat, Part(s, n, p, q), n < k[q] PROVE n < k[r] + 1
        BY <3>1 DEF Synced
      <4>1. n < k[r]
        BY <2>1, <3>1 DEF Synced
      <4> QED
        BY <3>1, <4>1
    <3>3. Part(s, k[r], p, q) <=> Joint(s, a, b, p, q)
      BY PartAt
    <3>4. CASE Joint(s, a, b, p, q)
      <4>1. k[q] <= k[r]
        <5>1. ~(k[r] < k[q])
          BY <2>1, <3>1, <3>3, <3>4 DEF Synced
        <5> QED
          BY <3>1, <5>1
      <4>2. Pending(s, k, p, q)' = Pending(s, k, p, q) \cup {k[r]}
        <5>1. \A n \in Nat : n < k[r] + 1 <=> n < k[r] \/ n = k[r]
          BY <3>1
        <5>2. ASSUME NEW n
              PROVE  n \in Pending(s, k, p, q)' <=> n \in Pending(s, k, p, q) \/ n = k[r]
          BY <3>1, <3>3, <3>4, <4>1, <5>1 DEF Pending
        <5> QED
          BY <5>2
      <4>3. Pending(s, k, p, q) \subseteq Nat /\ \A n \in Pending(s, k, p, q) : n < k[r]
        BY <3>1 DEF Pending
      <4>4. IsLetter(s, k[r], p, q, Msg(s, a, b, p, q))
        BY LetterAt
      <4>5. Carries(s, p, q, Append(mail[<<p, q>>], Msg(s, a, b, p, q)), Pending(s, k, p, q) \cup {k[r]})
        BY <2>1, <3>1, <4>3, <4>4, CarriesSent
      <4>6. mail'[<<p, q>>] = Append(mail[<<p, q>>], Msg(s, a, b, p, q))
        BY <1>4, <2>3, <3>4
      <4>7. Carries(s, p, q, mail[<<p, q>>], Pending(s, k, p, q))'
        BY <4>2, <4>5, <4>6
      <4> QED
        BY <3>2, <4>7
    <3>5. CASE ~Joint(s, a, b, p, q)
      <4>1. ~Part(s, k[r], p, q)
        BY <3>3, <3>5
      <4>2. Pending(s, k, p, q)' = Pending(s, k, p, q)
        <5>1. \A n \in Nat : n < k[r] + 1 <=> n < k[r] \/ n = k[r]
          BY <3>1
        <5> QED
          BY <3>1, <4>1, <5>1 DEF Pending
      <4>3. mail'[<<p, q>>] = mail[<<p, q>>]
        BY <1>4, <2>3, <3>5
      <4>4. Carries(s, p, q, mail[<<p, q>>], Pending(s, k, p, q))'
        BY <2>1, <4>2, <4>3
      <4> QED
        BY <3>2, <4>4
    <3> QED
      BY <3>4, <3>5
  <2> QED
    BY <2>2, <2>3
<1>5. setting' = s /\ s \in Settings /\ AskingAlike(s) /\ Shape'
  BY DEF Holds, OnlyTouches
<1>6. Holds(s, k)'
  BY <1>1, <1>3, <1>4, <1>5 DEF Holds
<1> QED
  BY <1>6 DEF IInv

(* What a rank takes is what the setting says was sent in this exchange.   *)
LEMMA Taken ==
  ASSUME NEW s, NEW k, Holds(s, k), NEW r \in Ranks, NEW a \in Nat, NEW b \in 0..13,
         k[r] = Place(a, b), NEW p \in Ranks, p # r, Joint(s, a, b, p, r), mail[<<p, r>>] # <<>>
  PROVE  /\ Head(mail[<<p, r>>]) = Msg(s, a, b, p, r)
         /\ k[r] < Sent(p, k[p])
         /\ Carries(s, p, r, Tail(mail[<<p, r>>]), Pending(s, k, p, r) \ {k[r]})
<1>1. k \in [Ranks -> Nat] /\ Carries(s, p, r, mail[<<p, r>>], Pending(s, k, p, r))
  BY DEF Holds
<1>2. PICK n \in Pending(s, k, p, r) : TRUE
  BY <1>1, CarriesSome
<1>3. Part(s, k[r], p, r)
  BY PartAt
<1>4. Sent(p, k[p]) \in Nat /\ k[r] \in Nat
  BY <1>1 DEF Sent
<1>5. k[r] < Sent(p, k[p])
  BY <1>2, <1>4 DEF Pending
<1>6. k[r] \in Pending(s, k, p, r) /\ \A i \in Pending(s, k, p, r) : k[r] <= i
  BY <1>3, <1>4, <1>5 DEF Pending
<1>7. Pending(s, k, p, r) \subseteq Nat
  BY DEF Pending
<1>8. IsLetter(s, k[r], p, r, Head(mail[<<p, r>>]))
      /\ Carries(s, p, r, Tail(mail[<<p, r>>]), Pending(s, k, p, r) \ {k[r]})
  BY <1>1, <1>6, <1>7, CarriesTaken
<1>9. Head(mail[<<p, r>>]) = Msg(s, a, b, p, r)
  <2>1. IsLetter(s, Place(a, b), p, r, Head(mail[<<p, r>>]))
    BY <1>8
  <2> DEFINE x == Head(mail[<<p, r>>])
  <2> HIDE DEF x
  <2>2. IsLetter(s, Place(a, b), p, r, x) <=> x = Msg(s, a, b, p, r)
    BY LetterAt, ZenonT(30)
  <2> QED
    BY <2>1, <2>2 DEF x
<1> QED
  BY <1>5, <1>8, <1>9

(* r ends the exchange at k[r] and goes to m.                              *)
LEMMA MoveReceive ==
  ASSUME NEW s, NEW k, Holds(s, k), NEW r \in Ranks, NEW a \in Nat, NEW b \in 0..13,
         k[r] = Place(a, b), NEW m \in Nat, k[r] < m,
         OnlyTouches(r), inside[r] = TRUE, inside'[r] = FALSE,
         \A p \in Ranks : p # r => mail'[<<p, r>>] = IF Joint(s, a, b, p, r)
           THEN Tail(mail[<<p, r>>]) ELSE mail[<<p, r>>],
         \A p \in Ranks : p # r /\ Joint(s, a, b, p, r) => mail[<<p, r>>] # <<>>,
         \A p, q \in Ranks : p # q /\ q # r => mail'[<<p, q>>] = mail[<<p, q>>],
         Quiet(s, k[r] + 1, m),
         At(s, r, m)', Knows(s, r, m)'
  PROVE  IInv'
<1> DEFINE l == [k EXCEPT ![r] = m]
<1>1. k \in [Ranks -> Nat]
  BY DEF Holds
<1>2. l \in [Ranks -> Nat] /\ l[r] = m /\ \A q \in Ranks : q # r => l[q] = k[q]
  BY <1>1
<1> HIDE DEF l
<1>3. \A q \in Ranks : q # r => Untouched(q)
  BY DEF OnlyTouches
<1>4. ASSUME NEW q \in Ranks PROVE At(s, q, l[q])' /\ Knows(s, q, l[q])'
  <2>1. CASE q = r
    BY <1>2, <2>1
  <2>2. CASE q # r
    <3>1. l[q] = k[q] /\ Untouched(q) /\ At(s, q, k[q]) /\ Knows(s, q, k[q])
      BY <1>2, <1>3, <2>2 DEF Holds
    <3>2. At(s, q, k[q])'
      BY <3>1, AtFrame
    <3>3. Knows(s, q, k[q])'
      BY <3>1, KnowsFrame DEF Untouched
    <3> QED
      BY <3>1, <3>2, <3>3
  <2> QED
    BY <2>1, <2>2
<1>5. ASSUME NEW p \in Ranks, NEW q \in Ranks, p # q
      PROVE  Carries(s, p, q, mail[<<p, q>>], Pending(s, l, p, q))' /\ Synced(s, l, p, q)'
  <2>1. Carries(s, p, q, mail[<<p, q>>], Pending(s, k, p, q)) /\ Synced(s, k, p, q)
    BY <1>5 DEF Holds
  <2>2. k[p] \in Nat /\ k[q] \in Nat /\ k[r] \in Nat
    BY <1>1
  <2>3. ASSUME NEW n \in Nat, Part(s, n, p, q) PROVE ~(k[r] < n /\ n < m)
    BY <2>2, <2>3 DEF Quiet
  <2>4. CASE q # r
    <3>1. l[q] = k[q] /\ mail'[<<p, q>>] = mail[<<p, q>>]
      BY <1>2, <1>5, <2>4
    <3>2. ASSUME NEW n \in Nat, Part(s, n, p, q)
          PROVE  n < Sent(p, k[p]) <=> n < Sent(p, l[p])'
      <4>1. CASE p = r
        <5>1. Sent(p, k[p]) = k[r] + 1 /\ Sent(p, l[p])' = m
          BY <1>2, <4>1 DEF Sent
        <5>2. n < k[r] + 1 <=> n < m
          BY <2>2, <2>3, <3>2
        <5> QED
          BY <5>1, <5>2
      <4>2. CASE p # r
        <5>1. inside'[p] = inside[p] /\ l[p] = k[p]
          BY <1>2, <1>3, <4>2 DEF Untouched
        <5> QED
          BY <5>1 DEF Sent
      <4> QED
        BY <4>1, <4>2
    <3>3. Pending(s, l, p, q)' = Pending(s, k, p, q)
      BY <3>1, <3>2 DEF Pending
    <3>4. Carries(s, p, q, mail[<<p, q>>], Pending(s, l, p, q))'
      BY <2>1, <3>1, <3>3
    <3>5. Synced(s, l, p, q)'
      BY <2>1, <3>1, <3>2 DEF Synced
    <3> QED
      BY <3>4, <3>5
  <2>5. CASE q = r
    <3>1. p # r /\ l[q] = m /\ l[p] = k[p] /\ Sent(p, l[p])' = Sent(p, k[p])
      BY <1>2, <1>3, <1>5, <2>5 DEF Sent, Untouched
    <3>2. Part(s, k[r], p, q) <=> Joint(s, a, b, p, q)
      <4>1. Part(s, Place(a, b), p, q) <=> Joint(s, a, b, p, q)
        BY PartAt
      <4> QED
        BY <4>1
    <3>3. CASE Joint(s, a, b, p, q)
      <4>1. /\ k[r] < Sent(p, k[p])
            /\ Carries(s, p, q, Tail(mail[<<p, q>>]), Pending(s, k, p, q) \ {k[r]})
            /\ mail'[<<p, q>>] = Tail(mail[<<p, q>>])
        <5>1. mail[<<p, r>>] # <<>> /\ Joint(s, a, b, p, r)
          BY <2>5, <3>1, <3>3
        <5>2. k[r] < Sent(p, k[p]) /\ Carries(s, p, r, Tail(mail[<<p, r>>]), Pending(s, k, p, r) \ {k[r]})
          BY <3>1, <5>1, Taken
        <5>3. mail'[<<p, r>>] = Tail(mail[<<p, r>>])
          BY <3>1, <5>1
        <5> QED
          BY <2>5, <5>2, <5>3
      <4>2. ASSUME NEW n
            PROVE  n \in Pending(s, l, p, q)' <=> n \in Pending(s, k, p, q) \ {k[r]}
        <5>1. ASSUME n \in Nat, Part(s, n, p, q) PROVE m <= n <=> k[r] <= n /\ n # k[r]
          <6>1. ~(k[r] < n /\ n < m)
            BY <2>3, <5>1
          <6> QED
            BY <2>2, <5>1, <6>1
        <5> QED
          BY <2>5, <3>1, <5>1 DEF Pending
      <4>3. Pending(s, l, p, q)' = Pending(s, k, p, q) \ {k[r]}
        BY <4>2
      <4>4. Carries(s, p, q, mail[<<p, q>>], Pending(s, l, p, q))'
        BY <4>1, <4>3
      <4>5. Synced(s, l, p, q)'
        <5> SUFFICES ASSUME NEW n \in Nat, Part(s, n, p, q), n < m PROVE n < Sent(p, k[p])
          BY <3>1 DEF Synced
        <5>1. n < k[q] \/ n = k[r]
          BY <2>2, <2>3, <2>5
        <5> QED
          BY <2>1, <4>1, <5>1 DEF Synced
      <4> QED
        BY <4>4, <4>5
    <3>4. CASE ~Joint(s, a, b, p, q)
      <4>1. ASSUME NEW n \in Nat, Part(s, n, p, q)
            PROVE  (m <= n <=> k[q] <= n) /\ (n < m <=> n < k[q])
        <5>1. ~(k[r] < n /\ n < m) /\ n # k[r]
          BY <2>3, <3>2, <3>4, <4>1
        <5> QED
          BY <2>2, <2>5, <5>1
      <4>2. Pending(s, l, p, q)' = Pending(s, k, p, q)
        BY <3>1, <4>1 DEF Pending
      <4>3. mail'[<<p, q>>] = mail[<<p, q>>]
        BY <2>5, <3>1, <3>4
      <4>4. Carries(s, p, q, mail[<<p, q>>], Pending(s, l, p, q))'
        BY <2>1, <4>2, <4>3
      <4>5. Synced(s, l, p, q)'
        BY <2>1, <3>1, <4>1 DEF Synced
      <4> QED
        BY <4>4, <4>5
    <3> QED
      BY <3>3, <3>4
  <2> QED
    BY <2>4, <2>5
<1>6. setting' = s /\ s \in Settings /\ AskingAlike(s) /\ Shape'
  BY DEF Holds, OnlyTouches
<1>7. Holds(s, l)'
  BY <1>2, <1>4, <1>5, <1>6 DEF Holds
<1> QED
  BY <1>7 DEF IInv

------------------------------------------------------------------------------
(* A step of a rank writes what is its own.                                *)
Touch(f, g, r) == g = f \/ \E v : g = [f EXCEPT ![r] = v]

LEMMA TouchOne ==
  ASSUME NEW f, NEW g, NEW r \in Ranks, PerRank(f), Touch(f, g, r)
  PROVE  PerRank(g) /\ \A q \in Ranks : q # r => g[q] = f[q]
<1>1. CASE g = f
  BY <1>1
<1>2. CASE \E v : g = [f EXCEPT ![r] = v]
  <2>1. PICK v : g = [f EXCEPT ![r] = v]
    BY <1>2
  <2>2. f = [q \in Ranks |-> f[q]]
    BY DEF PerRank
  <2>3. g = [q \in Ranks |-> IF q = r THEN v ELSE f[q]]
    BY <2>1, <2>2
  <2>4. \A q \in Ranks : g[q] = IF q = r THEN v ELSE f[q]
    BY <2>3
  <2>5. g = [q \in Ranks |-> g[q]]
    BY <2>3, <2>4
  <2> QED
    BY <2>4, <2>5 DEF PerRank
<1> QED
  BY <1>1, <1>2 DEF Touch

LEMMA ExceptAt ==
  ASSUME NEW f, PerRank(f), NEW r \in Ranks, NEW v
  PROVE  [f EXCEPT ![r] = v][r] = v
<1>1. f = [q \in Ranks |-> f[q]]
  BY DEF PerRank
<1>2. r \in DOMAIN f
  BY <1>1
<1> QED
  BY <1>2

Touches(r) ==
  /\ Touch(todo, todo', r) /\ Touch(subdofs, subdofs', r) /\ Touch(frontier, frontier', r)
  /\ Touch(want, want', r) /\ Touch(asked, asked', r) /\ Touch(rows, rows', r)
  /\ Touch(matrix, matrix', r) /\ Touch(exports, exports', r) /\ Touch(values, values', r)
  /\ Touch(rhs, rhs', r) /\ Touch(y, y', r) /\ Touch(turn, turn', r)
  /\ Touch(inside, inside', r) /\ Touch(error, error', r)

LEMMA TouchesOnly ==
  ASSUME NEW r \in Ranks, Shape, Touches(r), setting' = setting, mail' = [e \in Pairs |-> mail'[e]]
  PROVE  OnlyTouches(r)
<1>1. PerRank(todo') /\ \A q \in Ranks : q # r => todo'[q] = todo[q]
  BY TouchOne DEF Shape, Touches
<1>2. PerRank(subdofs') /\ \A q \in Ranks : q # r => subdofs'[q] = subdofs[q]
  BY TouchOne DEF Shape, Touches
<1>3. PerRank(frontier') /\ \A q \in Ranks : q # r => frontier'[q] = frontier[q]
  BY TouchOne DEF Shape, Touches
<1>4. PerRank(want') /\ \A q \in Ranks : q # r => want'[q] = want[q]
  BY TouchOne DEF Shape, Touches
<1>5. PerRank(asked') /\ \A q \in Ranks : q # r => asked'[q] = asked[q]
  BY TouchOne DEF Shape, Touches
<1>6. PerRank(rows') /\ \A q \in Ranks : q # r => rows'[q] = rows[q]
  BY TouchOne DEF Shape, Touches
<1>7. PerRank(matrix') /\ \A q \in Ranks : q # r => matrix'[q] = matrix[q]
  BY TouchOne DEF Shape, Touches
<1>8. PerRank(exports') /\ \A q \in Ranks : q # r => exports'[q] = exports[q]
  BY TouchOne DEF Shape, Touches
<1>9. PerRank(values') /\ \A q \in Ranks : q # r => values'[q] = values[q]
  BY TouchOne DEF Shape, Touches
<1>10. PerRank(rhs') /\ \A q \in Ranks : q # r => rhs'[q] = rhs[q]
  BY TouchOne DEF Shape, Touches
<1>11. PerRank(y') /\ \A q \in Ranks : q # r => y'[q] = y[q]
  BY TouchOne DEF Shape, Touches
<1>12. PerRank(turn') /\ \A q \in Ranks : q # r => turn'[q] = turn[q]
  BY TouchOne DEF Shape, Touches
<1>13. PerRank(inside') /\ \A q \in Ranks : q # r => inside'[q] = inside[q]
  BY TouchOne DEF Shape, Touches
<1>14. PerRank(error') /\ \A q \in Ranks : q # r => error'[q] = error[q]
  BY TouchOne DEF Shape, Touches
<1>15. Shape'
  BY <1>1, <1>2, <1>3, <1>4, <1>5, <1>6, <1>7, <1>8, <1>9, <1>10, <1>11, <1>12, <1>13, <1>14 DEF Shape
<1>16. \A q \in Ranks : q # r => Untouched(q)
  BY <1>1, <1>2, <1>3, <1>4, <1>5, <1>6, <1>7, <1>8, <1>9, <1>10, <1>11, <1>12, <1>13, <1>14 DEF Untouched
<1> QED
  BY <1>15, <1>16 DEF OnlyTouches

(* Where a rank that goes on is, and what it does next.                    *)
AtWork(s, k, r, a, b) ==
  /\ Holds(s, k) /\ error[r] = ""
  /\ a \in Nat /\ b \in 0..13 /\ k[r] = Place(a, b) /\ Stands(s, r, a, b) /\ a <= s.overlap + 1
  /\ Now(r) = StepAt(s, a, b)
  /\ Tail(todo[r]) = Rest(s, FollowStage(s, a, b), Follow(s, a, b))

LEMMA Here ==
  ASSUME NEW s, NEW k, Holds(s, k), NEW r \in Ranks, todo[r] # <<>>
  PROVE  \E a \in Nat, b \in 0..13 : AtWork(s, k, r, a, b)
<1>1. todo[r] # <<>> /\ Now(r) = Head(todo[r])
  BY DEF Now
<1>2. s \in Settings /\ At(s, r, k[r]) /\ s.overlap \in Nat
  BY OverlapIsNat DEF Holds
<1>3. error[r] = ""
  BY <1>1, <1>2 DEF At, Gone
<1>4. PICK a \in Nat, b \in 0..13 : k[r] = Place(a, b) /\ Stands(s, r, a, b)
  BY <1>2, <1>3 DEF At
<1>5. Valid(s, a, b) /\ todo[r] = Rest(s, a, b)
  BY <1>4 DEF Stands
<1>6. a <= s.overlap + 1
  <2> SUFFICES ASSUME ~(a <= s.overlap + 1) PROVE FALSE
    OBVIOUS
  <2>1. a = s.overlap + 2 /\ b = 0
    BY <1>2, <1>5 DEF Valid, Applications
  <2>2. ~(a <= s.overlap) /\ a # s.overlap + 1
    BY <1>2, <2>1
  <2>3. Rest(s, a, b) = <<>>
    BY <2>1, <2>2 DEF Rest, Ahead
  <2> QED
    BY <1>1, <1>5, <2>3
<1> DEFINE x == StepAt(s, a, b)  n == Rest(s, FollowStage(s, a, b), Follow(s, a, b))
<1>7. Rest(s, a, b) = Do(x, n) /\ x \in Names /\ n \in Seq(Names)
  BY <1>2, <1>5, <1>6, RestStep
<1> HIDE DEF x, n
<1>8. Head(todo[r]) = x /\ Tail(todo[r]) = n
  BY <1>5, <1>7, DoFirst
<1>9. Now(r) = StepAt(s, a, b) /\ Tail(todo[r]) = Rest(s, FollowStage(s, a, b), Follow(s, a, b))
  BY <1>1, <1>8 DEF x, n
<1> QED
  BY <1>3, <1>4, <1>6, <1>9 DEF AtWork

(* A rank that passes a place without an exchange answers no one there.    *)
LEMMA KnowsLater ==
  ASSUME NEW s \in Settings, NEW r \in Ranks, NEW n \in Nat, Knows(s, r, n), NEW m \in Nat,
         Sent(r, n) <= m, Sent(r, m)' = m,
         Quiet(s, Sent(r, n), m),
         m > Place(s.overlap, 3) => Settled(s, r)
  PROVE  Knows(s, r, m)'
<1>1. Sent(r, n) \in Nat
  BY DEF Sent
<1>2. ASSUME NEW a \in Nat, a <= s.overlap + 1, Asking(s, a), m > Place(a, 2)
      PROVE  Answers(s, r, a)
  <2>1. CASE Sent(r, n) > Place(a, 2)
    BY <1>2, <2>1 DEF Knows
  <2>2. CASE ~(Sent(r, n) > Place(a, 2))
    <3>1. Place(a, 2) \in Nat
      BY DEF Place
    <3>2. ASSUME NEW q \in Others(r) PROVE FALSE
      <4>1. q \in Ranks /\ q # r
        BY DEF Others
      <4>2. Joint(s, a, 2, r, q)
        BY <1>2, <4>1 DEF Joint
      <4>3. Part(s, Place(a, 2), r, q)
        BY <4>2 DEF Part
      <4> QED
        BY <1>1, <1>2, <2>2, <3>1, <4>1, <4>3 DEF Quiet
    <3> QED
      BY <3>2 DEF Answers
  <2> QED
    BY <2>1, <2>2
<1> QED
  BY <1>2 DEF Knows, Answers, Settled

------------------------------------------------------------------------------
(* The steps that are not exchanges.                                       *)
SilentPoints == {0, 3, 5, 7, 9, 12}
Alone(r) == OnlyTouches(r) /\ mail' = mail /\ inside' = inside
Comes(s, r, c, d) ==
  /\ error[r] = "" /\ c \in Nat /\ d \in 0..13 /\ Valid(s, c, d) /\ todo[r] = Rest(s, c, d)
  /\ SetUpAt(s, r, c, d) /\ ApplyAt(s, r, c, d)
Ready(s, r, c, d) == Place(c, d) > Place(s.overlap, 3) => Settled(s, r)

Stopped(r) == error[r] # "" /\ error[r] # "crossed" /\ todo[r] = <<>>

LEMMA Silent ==
  ASSUME NEW b \in SilentPoints
  PROVE  b \in 0..13 /\ b \notin CallPoints
BY DEF SilentPoints, CallPoints

LEMMA NotInside ==
  ASSUME NEW s, NEW k, NEW r, NEW a, NEW b \in SilentPoints, AtWork(s, k, r, a, b)
  PROVE  inside[r] = FALSE
BY Silent DEF AtWork, Stands

LEMMA AtWorkFacts ==
  ASSUME NEW s, NEW k, NEW r, NEW a, NEW b, AtWork(s, k, r, a, b)
  PROVE  /\ s \in Settings /\ AskingAlike(s) /\ setting = s /\ Shape /\ s.overlap \in Nat
         /\ a \in Nat /\ b \in 0..13 /\ k[r] = Place(a, b) /\ a <= s.overlap + 1
         /\ Place(a, b) \in Nat /\ Holds(s, k) /\ error[r] = ""
         /\ Valid(s, a, b) /\ SetUpAt(s, r, a, b) /\ ApplyAt(s, r, a, b)
         /\ r \in Ranks => Knows(s, r, Place(a, b))
<1>1. a \in Nat /\ b \in 0..13 /\ s \in Settings
  BY DEF AtWork, Holds
<1>2. Place(a, b) \in Nat /\ s.overlap \in Nat
  BY <1>1, PlaceOrder, OverlapIsNat
<1> QED
  BY <1>1, <1>2 DEF AtWork, Holds, Stands

LEMMA AtWorkPlace ==
  ASSUME NEW s, NEW k, NEW r, NEW a, NEW b, AtWork(s, k, r, a, b)
  PROVE  k[r] = Place(a, b)
BY DEF AtWork

LEMMA NoneIn == ASSUME NEW s, NEW n \in Nat PROVE n <= n /\ Quiet(s, n, n)
<1>1. n <= n /\ \A i \in Nat : ~(n <= i /\ i < n)
  OBVIOUS
<1> QED
  BY <1>1 DEF Quiet

LEMMA GoOn ==
  ASSUME NEW s, NEW k, NEW r \in Ranks, NEW a, NEW b \in SilentPoints, AtWork(s, k, r, a, b),
         NEW c, NEW d, Place(a, b) < Place(c, d), Quiet(s, Place(a, b), Place(c, d)),
         Alone(r), Comes(s, r, c, d)', Ready(s, r, c, d)
  PROVE  IInv'
<1> DEFINE m == Place(c, d)  n == Place(a, b)
<1>1. c \in Nat /\ d \in 0..13 /\ error'[r] = ""
  BY DEF Comes
<1>2. m \in Nat /\ n \in Nat /\ k[r] = n /\ Holds(s, k) /\ s \in Settings /\ Knows(s, r, n)
  <2>1. m \in Nat
    BY <1>1, PlaceOrder
  <2>2. n \in Nat /\ Holds(s, k) /\ s \in Settings
    BY AtWorkFacts
  <2>3. Knows(s, r, n)
    BY AtWorkFacts
  <2>4. k[r] = n
    BY AtWorkPlace
  <2> QED
    BY <2>1, <2>2, <2>3, <2>4
<1>3. inside[r] = FALSE /\ inside'[r] = FALSE /\ OnlyTouches(r) /\ mail' = mail
  BY NotInside DEF Alone
<1>4. Stands(s, r, c, d)'
  BY <1>3 DEF Stands, Comes
<1>5. At(s, r, m)'
  BY <1>1, <1>4 DEF At
<1>6. Sent(r, n) = n /\ Sent(r, m)' = m
  BY <1>3 DEF Sent
<1>7. Quiet(s, n, m) /\ n < m /\ (m > Place(s.overlap, 3) => Settled(s, r))
  BY DEF Ready
<1> HIDE DEF m, n
<1>8. Sent(r, n) <= m /\ Quiet(s, Sent(r, n), m) /\ k[r] <= m /\ Quiet(s, k[r], m)
  <2>1. n <= m
    BY <1>2, <1>7
  <2> QED
    BY <1>2, <1>6, <1>7, <2>1
<1>9. Knows(s, r, m)'
  BY <1>2, <1>6, <1>7, <1>8, KnowsLater
<1> QED
  BY <1>2, <1>3, <1>5, <1>8, <1>9, MoveSilent

LEMMA GiveUp ==
  ASSUME NEW s, NEW k, NEW r \in Ranks, NEW a, NEW b \in SilentPoints, AtWork(s, k, r, a, b),
         Alone(r), Stopped(r)'
  PROVE  IInv'
<1>1. inside[r] = FALSE /\ inside'[r] = FALSE /\ OnlyTouches(r) /\ mail' = mail
  BY NotInside DEF Alone
<1>2. Gone(r)'
  BY <1>1 DEF Gone, Stopped
<1>3. At(s, r, k[r])'
  BY <1>2 DEF At, Stopped
<1>4. k[r] \in Nat /\ Knows(s, r, k[r]) /\ Holds(s, k)
  <2>1. Place(a, b) \in Nat /\ Holds(s, k)
    BY AtWorkFacts
  <2>2. Knows(s, r, Place(a, b))
    BY AtWorkFacts
  <2>3. k[r] = Place(a, b)
    BY AtWorkPlace
  <2> QED
    BY <2>1, <2>2, <2>3
<1>5. Knows(s, r, k[r])'
  BY <1>1, <1>4, KnowsFrame
<1>6. k[r] <= k[r] /\ Quiet(s, k[r], k[r])
  BY <1>4, NoneIn
<1> QED
  BY <1>1, <1>3, <1>4, <1>5, <1>6, MoveSilent

LEMMA Onward ==
  ASSUME NEW s, NEW a \in Nat, NEW b \in SilentPoints \ {0}
  PROVE  /\ FollowStage(s, a, b) \in Nat /\ Follow(s, a, b) \in 0..13
         /\ Place(a, b) < Place(FollowStage(s, a, b), Follow(s, a, b))
<1> DEFINE c == FollowStage(s, a, b)  d == Follow(s, a, b)
<1>1. d \in 0..13 /\ (d # 0 => d > b) /\ b \in 0..13
  BY DEF Follow, SilentPoints
<1>2. c = IF d = 0 THEN a + 1 ELSE a
  BY DEF FollowStage
<1> HIDE DEF c, d
<1>3. c \in Nat
  BY <1>2
<1>4. a < c \/ (a = c /\ b < d)
  BY <1>1, <1>2
<1>5. Place(a, b) < Place(c, d)
  BY <1>1, <1>3, <1>4, PlaceOrder
<1> QED
  BY <1>1, <1>3, <1>5 DEF c, d

LEMMA NoneFollow ==
  ASSUME NEW s \in Settings, NEW a \in Nat, NEW b \in SilentPoints \ {0}, Valid(s, a, b)
  PROVE  Quiet(s, Place(a, b), Place(FollowStage(s, a, b), Follow(s, a, b)))
<1> DEFINE n == Place(a, b)  m == Place(FollowStage(s, a, b), Follow(s, a, b))
<1>1. b \in 0..13 /\ b # 0 /\ n \in Nat
  BY Silent, PlaceOrder
<1>2. SUFFICES ASSUME NEW i \in Nat, NEW p \in Ranks, NEW q \in Ranks, n <= i, i < m
               PROVE  ~Part(s, i, p, q)
  BY DEF Quiet
<1>3. CASE i = n
  <2>1. ~Joint(s, a, b, p, q)
    BY NoneSilent DEF SilentPoints
  <2>2. Part(s, n, p, q) <=> Joint(s, a, b, p, q)
    BY <1>1, PartAt
  <2> QED
    BY <1>3, <2>1, <2>2
<1>4. CASE i # n
  <2>1. n < i
    BY <1>1, <1>2, <1>4
  <2>2. i < m
    BY <1>2
  <2> QED
    BY <1>1, <2>1, <2>2, NoneBetween
<1> QED
  BY <1>3, <1>4

LEMMA GoNext ==
  ASSUME NEW s, NEW k, NEW r \in Ranks, NEW a, NEW b \in SilentPoints \ {0}, AtWork(s, k, r, a, b),
         Alone(r), Comes(s, r, FollowStage(s, a, b), Follow(s, a, b))',
         Ready(s, r, FollowStage(s, a, b), Follow(s, a, b))
  PROVE  IInv'
<1> DEFINE c == FollowStage(s, a, b)  d == Follow(s, a, b)
<1>1. s \in Settings /\ a \in Nat /\ Valid(s, a, b) /\ b \in SilentPoints
  BY AtWorkFacts
<1>2. Place(a, b) < Place(c, d) /\ Quiet(s, Place(a, b), Place(c, d))
  BY <1>1, Onward, NoneFollow
<1>3. Comes(s, r, c, d)' /\ Ready(s, r, c, d)
  OBVIOUS
<1> HIDE DEF c, d
<1> QED
  BY <1>1, <1>2, <1>3, GoOn

LEMMA AskList ==
  ASSUME NEW w \in BOOLEAN, NEW t \in Seq(Names)
  PROVE  If(w, <<"ask", "answer">>) \o t = IF w THEN Do("ask", Do("answer", t)) ELSE t
<1> DEFINE a == "ask"  c == "answer"
<1>1. a \in Names /\ c \in Names
  BY NamesOfSteps
<1>2. If(w, <<"ask", "answer">>) = IF w THEN <<a, c>> ELSE <<>>
  BY DEF If
<1> HIDE DEF a, c
<1>3. <<a, c>> \o t = Do(a, Do(c, t))
  <2>1. <<a, c>> \o t = <<a>> \o (<<c>> \o t)
    BY <1>1, Two
  <2> QED
    BY <2>1 DEF Do
<1>4. <<>> \o t = t
  BY ConcatEmptySeq
<1>5. If(w, <<"ask", "answer">>) \o t = IF w THEN Do(a, Do(c, t)) ELSE t
  <2>1. CASE w
    BY <1>2, <1>3, <2>1
  <2>2. CASE ~w
    BY <1>2, <1>4, <2>2
  <2> QED
    BY <2>1, <2>2
<1> QED
  BY <1>5 DEF a, c

(* What the application keeps does not depend on the place before the      *)
(* exchange of values.                                                     *)
LEMMA ApplyStays ==
  ASSUME NEW s \in Settings, NEW r, NEW a \in Nat, NEW b \in 0..7, NEW c \in Nat, NEW d \in 0..7,
         ApplyAt(s, r, a, b), turn'[r] = turn[r], exports'[r] = exports[r],
         a = c \/ (a <= s.overlap /\ c <= s.overlap),
         c > s.overlap \/ d > 4 => a > s.overlap \/ b > 4,
         d = 0 => c <= s.overlap
  PROVE  ApplyAt(s, r, c, d)'
<1>1. s.overlap \in Nat
  BY OverlapIsNat
<1>2. TurnAt(s, a, b) = TurnAt(s, c, d)
  BY <1>1 DEF TurnAt
<1>3. ~(d = 9) /\ ~(d = 10) /\ ~(d > 10)
  OBVIOUS
<1>4. ~(d = 0 /\ c > s.overlap)
  BY <1>1
<1>5. turn'[r] = TurnAt(s, c, d)
  BY <1>2 DEF ApplyAt
<1>6. c > s.overlap \/ d > 4 => exports'[r] = [q \in Ranks |-> Share(s, q, r)]
  BY DEF ApplyAt
<1> QED
  BY <1>3, <1>4, <1>5, <1>6 DEF ApplyAt

LEMMA TouchSame == ASSUME NEW f, NEW r PROVE Touch(f, f, r)
BY DEF Touch

LEMMA TouchAt == ASSUME NEW f, NEW r, NEW v PROVE Touch(f, [f EXCEPT ![r] = v], r)
BY DEF Touch

LEMMA StepsAlone ==
  ASSUME NEW r \in Ranks, Shape, Touches(r), setting' = setting, mail' = mail, inside' = inside
  PROVE  Alone(r)
<1>1. mail' = [e \in Pairs |-> mail'[e]]
  BY DEF Shape
<1> QED
  BY <1>1, TouchesOnly DEF Alone

(* The step that may send rows to ask for: to the ask, or past it.         *)
Gathers(s, r, a) ==
  /\ Alone(r) /\ error' = error /\ subdofs' = subdofs /\ frontier' = frontier
  /\ exports' = exports /\ turn' = turn
  /\ want'[r] = WantAt(s, r, a) /\ rows'[r] = Before(s, r, a) /\ values'[r] = Ver(s, a)
  /\ \A e \in rows'[r] : e[1] \in OwnRows(s, OwnerOf(e[1]))
  /\ todo'[r] = If(WantAt(s, r, a) # {}, <<"ask", "answer">>) \o Rest(s, a, 3)

LEMMA ReadyEarly ==
  ASSUME NEW s, NEW k, NEW r \in Ranks, NEW a, NEW b, AtWork(s, k, r, a, b), NEW d \in 0..3,
         a # s.overlap \/ b > 3
  PROVE  Ready(s, r, a, d)
<1>1. s.overlap \in Nat /\ a \in Nat /\ b \in 0..13 /\ Knows(s, r, Place(a, b))
  BY AtWorkFacts
<1>2. Place(a, d) > Place(s.overlap, 3) => Place(a, b) > Place(s.overlap, 3)
  BY <1>1 DEF Place
<1> QED
  BY <1>1, <1>2 DEF Knows, Ready

LEMMA ReadyAtFirst ==
  ASSUME NEW s \in Settings, NEW r, NEW a \in Nat, a <= s.overlap, NEW d \in 0..3
  PROVE  Ready(s, r, a, d)
<1>1. ~(Place(a, d) > Place(s.overlap, 3))
  BY OverlapIsNat DEF Place
<1> QED
  BY <1>1 DEF Ready

LEMMA SetUpAsking ==
  ASSUME NEW s \in Settings, NEW r, NEW a \in Nat, SetUpAt(s, r, a, 0), Gathers(s, r, a), NEW d \in {1, 3},
         d = 1 \/ WantAt(s, r, a) = {}, r \in Ranks, a <= s.overlap + 1
  PROVE  SetUpAt(s, r, a, d)'
<1>1. s.overlap \in Nat /\ a # s.overlap + 2
  BY OverlapIsNat
<1>2. d # 2 /\ d # 0 /\ ~(d > 3)
  OBVIOUS
<1>3. rows'[r] = IF d < 3 THEN Before(s, r, a) ELSE Got(s, r, a)
  <2>1. CASE d = 1
    BY <2>1 DEF Gathers
  <2>2. CASE d = 3
    BY <2>2, NothingWanted DEF Gathers
  <2> QED
    BY <2>1, <2>2
<1>4. /\ subdofs'[r] = Reach(s, r, a)
      /\ a <= s.overlap => frontier'[r] = Edge(s, r, a)
  BY DEF SetUpAt, Gathers
<1>5. /\ want'[r] = WantAt(s, r, a) /\ values'[r] = Ver(s, a)
      /\ \A e \in rows'[r] : e[1] \in OwnRows(s, OwnerOf(e[1]))
  BY DEF Gathers
<1> QED
  BY <1>1, <1>2, <1>3, <1>4, <1>5 DEF SetUpAt

LEMMA AskOrPass ==
  ASSUME NEW s, NEW k, NEW r \in Ranks, NEW a, AtWork(s, k, r, a, 0), Gathers(s, r, a)
  PROVE  IInv'
<1>1. s \in Settings /\ AskingAlike(s) /\ a \in Nat /\ a <= s.overlap + 1 /\ s.overlap \in Nat
  BY AtWorkFacts
<1>2. WantAt(s, r, a) # {} <=> Asking(s, a)
  BY <1>1, AllAsk
<1>3. Rest(s, a, 3) = Third(s, a) /\ Third(s, a) \in Seq(Names)
  BY <1>1, AheadLists, RestAt, ZenonT(30)
<1>4. todo'[r] = IF WantAt(s, r, a) # {} THEN Do("ask", Do("answer", Third(s, a))) ELSE Third(s, a)
  <2> DEFINE w == WantAt(s, r, a) # {}
  <2>1. w \in BOOLEAN /\ todo'[r] = If(w, <<"ask", "answer">>) \o Third(s, a)
    BY <1>3 DEF Gathers
  <2> HIDE DEF w
  <2>2. todo'[r] = IF w THEN Do("ask", Do("answer", Third(s, a))) ELSE Third(s, a)
    BY <1>3, <2>1, AskList
  <2> QED
    BY <2>2 DEF w
<1>5. ApplyAt(s, r, a, 0) /\ SetUpAt(s, r, a, 0) /\ error[r] = ""
  BY AtWorkFacts
<1>6. 0 \in SilentPoints /\ 0 \in 0..7
  BY DEF SilentPoints
<1>7. /\ Place(a, 0) < Place(a, 1) /\ Place(a, 0) < Place(a, 3)
      /\ \A i \in Nat : Place(a, 0) <= i /\ i < Place(a, 1) => i = Place(a, 0)
  BY <1>1 DEF Place
<1>8. Alone(r) /\ error'[r] = ""
  BY <1>5 DEF Gathers
<1>9. ASSUME NEW d \in {1, 3} PROVE Ready(s, r, a, d)
  <2>1. d \in 0..3
    OBVIOUS
  <2>2. CASE a <= s.overlap
    BY <1>1, <2>1, <2>2, ReadyAtFirst
  <2>3. CASE a # s.overlap
    BY <2>1, <2>3, ReadyEarly
  <2> QED
    BY <1>1, <2>2, <2>3
<1>10. ASSUME NEW d \in {1, 3} PROVE ApplyAt(s, r, a, d)'
  <2>1. d \in 0..7 /\ d # 0 /\ ~(d > 4)
    OBVIOUS
  <2>2. turn'[r] = turn[r] /\ exports'[r] = exports[r]
    BY DEF Gathers
  <2> QED
    BY <1>1, <1>5, <1>6, <2>1, <2>2, ApplyStays
<1>11. CASE WantAt(s, r, a) # {}
  <2>1. todo'[r] = Rest(s, a, 1)
    BY <1>4, <1>11 DEF Rest
  <2>2. Valid(s, a, 1)
    BY <1>1, <1>2, <1>11 DEF Valid
  <2>3. SetUpAt(s, r, a, 1)'
    BY <1>1, <1>5, SetUpAsking
  <2>4. Comes(s, r, a, 1)'
    <3>1. ApplyAt(s, r, a, 1)'
      BY <1>10
    <3>2. a \in Nat /\ 1 \in 0..13
      BY <1>1
    <3> QED
      BY <1>8, <2>1, <2>2, <2>3, <3>1, <3>2 DEF Comes
  <2>5. Quiet(s, Place(a, 0), Place(a, 1))
    <3>1. \A p, q \in Ranks : ~Part(s, Place(a, 0), p, q)
      BY <1>1, NoneSilent, PartAt
    <3> QED
      BY <1>7, <3>1 DEF Quiet
  <2> QED
    BY <1>6, <1>7, <1>8, <1>9, <2>4, <2>5, GoOn
<1>12. CASE WantAt(s, r, a) = {}
  <2>1. todo'[r] = Rest(s, a, 3)
    BY <1>3, <1>4, <1>12
  <2>2. Valid(s, a, 3)
    BY <1>1 DEF Valid
  <2>3. SetUpAt(s, r, a, 3)'
    BY <1>1, <1>5, <1>12, SetUpAsking
  <2>4. Comes(s, r, a, 3)'
    <3>1. ApplyAt(s, r, a, 3)'
      BY <1>10
    <3>2. a \in Nat /\ 3 \in 0..13
      BY <1>1
    <3> QED
      BY <1>8, <2>1, <2>2, <2>3, <3>1, <3>2 DEF Comes
  <2>5. Quiet(s, Place(a, 0), Place(a, 3))
    <3>1. \A j \in Nat : a <= j /\ (j < a \/ (j = a /\ 3 = 3)) => ~Asking(s, j)
      <4>1. \A j \in Nat : a <= j /\ (j < a \/ (j = a /\ 3 = 3)) => j = a
        BY <1>1
      <4> QED
        BY <1>2, <1>12, <4>1
    <3>2. a <= s.overlap \/ (a = a /\ 3 = 3)
      OBVIOUS
    <3> SUFFICES ASSUME NEW i \in Nat, NEW p \in Ranks, NEW q \in Ranks,
                        Place(a, 0) <= i, i < Place(a, 3)
                 PROVE  ~Part(s, i, p, q)
      BY DEF Quiet
    <3> QED
      BY <1>1, <3>1, <3>2, NoneUnasked
  <2> QED
    BY <1>6, <1>7, <1>8, <1>9, <2>4, <2>5, GoOn
<1> QED
  BY <1>11, <1>12

(* The place of a step.                                                    *)
LEMMA PlaceOfStep ==
  ASSUME NEW s, NEW k, NEW r, NEW a, NEW b, AtWork(s, k, r, a, b)
  PROVE  /\ Now(r) = "sweep" => b = 0 /\ a < s.overlap
         /\ Now(r) = "complete" => b = 0 /\ a = s.overlap
         /\ Now(r) = "refresh" => b = 0 /\ a = s.overlap + 1
         /\ Now(r) = "expand" => b = 3 /\ a < s.overlap
         /\ Now(r) = "build" => b = 3 /\ a \in Applications(s)
         /\ Now(r) = "factor" => b = 5
         /\ Now(r) = "apply" => b = 7
<1>1. /\ Now(r) = StepAt(s, a, b) /\ b \in 0..13 /\ a \in Nat /\ s.overlap \in Nat
      /\ a <= s.overlap + 1
  BY AtWorkFacts DEF AtWork
<1>0. a < s.overlap \/ a = s.overlap \/ a = s.overlap + 1
  BY <1>1
<1>a. b \in 0..13
  BY <1>1
<1>2. /\ StepAt(s, a, b) = "sweep" => b = 0 /\ a < s.overlap
      /\ StepAt(s, a, b) = "complete" => b = 0 /\ a = s.overlap
      /\ StepAt(s, a, b) = "refresh" => b = 0 /\ a = s.overlap + 1
  <2>1. /\ StepAt(s, a, b) = "sweep" => b = 0 /\ a < s.overlap
        /\ StepAt(s, a, b) = "complete" => b = 0 /\ a = s.overlap
        /\ StepAt(s, a, b) = "refresh" => b = 0 /\ ~(a < s.overlap) /\ a # s.overlap
    BY <1>a DEF StepAt
  <2> QED
    BY <1>0, <2>1
<1>3. /\ StepAt(s, a, b) = "expand" => b = 3 /\ a < s.overlap
      /\ StepAt(s, a, b) = "build" => b = 3 /\ a \in Applications(s)
  <2>1. /\ StepAt(s, a, b) = "expand" => b = 3 /\ a < s.overlap
        /\ StepAt(s, a, b) = "build" => b = 3 /\ ~(a < s.overlap)
    BY <1>a DEF StepAt
  <2> QED
    BY <1>0, <2>1 DEF Applications
<1>4. /\ StepAt(s, a, b) = "factor" => b = 5
      /\ StepAt(s, a, b) = "apply" => b = 7
  BY <1>1 DEF StepAt
<1> QED
  BY <1>1, <1>2, <1>3, <1>4

LEMMA PlaceOfSolve ==
  ASSUME NEW s, NEW k, NEW r, NEW a, NEW b, AtWork(s, k, r, a, b), Now(r) = "solve"
  PROVE  b = 9
<1>1. b \in 0..13
  BY DEF AtWork
<1>2. Now(r) = StepAt(s, a, b)
  BY DEF AtWork
<1>3. StepAt(s, a, b) = "solve" => b = 9
  BY <1>1 DEF StepAt
<1> QED
  BY <1>2, <1>3

LEMMA PlaceOfCoarse ==
  ASSUME NEW s, NEW k, NEW r, NEW a, NEW b, AtWork(s, k, r, a, b), Now(r) = "coarse solve"
  PROVE  b = 12
<1>1. b \in 0..13
  BY DEF AtWork
<1>2. Now(r) = StepAt(s, a, b)
  BY DEF AtWork
<1>3. StepAt(s, a, b) = "coarse solve" => b = 12
  BY <1>1 DEF StepAt
<1> QED
  BY <1>2, <1>3

LEMMA AfterFirst ==
  ASSUME NEW s, NEW k, NEW r, NEW a, AtWork(s, k, r, a, 0)
  PROVE  Tail(todo[r]) = Rest(s, a, 3)
<1>1. Follow(s, a, 0) = 3
  BY DEF Follow
<1>2. FollowStage(s, a, 0) = a
  BY <1>1 DEF FollowStage
<1> QED
  BY <1>1, <1>2 DEF AtWork

LEMMA SweepStep ==
  ASSUME NEW s, NEW k, NEW r \in Ranks, NEW a, NEW b, AtWork(s, k, r, a, b), Sweep(r)
  PROVE  IInv'
<1>1. b = 0 /\ a < s.overlap
  BY PlaceOfStep DEF Sweep
<1>2. AtWork(s, k, r, a, 0)
  BY <1>1
<1>3. /\ s \in Settings /\ AskingAlike(s) /\ setting = s /\ Shape /\ s.overlap \in Nat /\ a \in Nat
      /\ a <= s.overlap + 1 /\ SetUpAt(s, r, a, 0) /\ ApplyAt(s, r, a, 0)
  BY <1>2, AtWorkFacts
<1>4. Tail(todo[r]) = Rest(s, a, 3)
  BY <1>2, AfterFirst
<1>5. Alone(r)
  <2>1. Touch(todo, todo', r) /\ Touch(want, want', r) /\ Touch(error, error', r)
    <3>1. CASE frontier[r] = {}
      BY <3>1, TouchSame, TouchAt DEF Sweep, Go
    <3>2. CASE frontier[r] # {}
      <4>1. AskFor(r, Remote(r, frontier[r]), Tail(todo[r]))
        BY <3>2 DEF Sweep
      <4> QED
        BY <4>1, TouchSame, TouchAt DEF AskFor, Go
    <3> QED
      BY <3>1, <3>2
  <2>2. Touches(r) /\ setting' = setting /\ mail' = mail /\ inside' = inside
    BY <2>1, TouchSame DEF Touches, Sweep
  <2> QED
    BY <1>3, <2>2, StepsAlone
<1>6. /\ subdofs' = subdofs /\ frontier' = frontier /\ exports' = exports /\ turn' = turn
      /\ rows' = rows /\ values' = values /\ error' = error
  BY DEF Sweep, AskFor
<1>7. /\ rows[r] = Before(s, r, a) /\ frontier[r] = Edge(s, r, a) /\ values[r] = Ver(s, a)
      /\ \A e \in rows[r] : e[1] \in OwnRows(s, OwnerOf(e[1]))
      /\ subdofs[r] = Reach(s, r, a) /\ a <= s.overlap
  BY <1>1, <1>3 DEF SetUpAt
<1>8. CASE frontier[r] # {}
  <2>1. Remote(r, frontier[r]) = WantAt(s, r, a)
    BY <1>1, <1>3, <1>7, RemoteIsWanted DEF Remote, Own
  <2>2. want'[r] = WantAt(s, r, a) /\ todo'[r] = If(WantAt(s, r, a) # {}, <<"ask", "answer">>) \o Rest(s, a, 3)
    <3>1. /\ want' = [want EXCEPT ![r] = WantAt(s, r, a)]
          /\ todo' = [todo EXCEPT ![r] = If(WantAt(s, r, a) # {}, <<"ask", "answer">>) \o Rest(s, a, 3)]
      BY <1>4, <1>8, <2>1 DEF Sweep, AskFor, Go
    <3>2. PerRank(want) /\ PerRank(todo)
      BY <1>3 DEF Shape
    <3> QED
      BY <3>1, <3>2, ExceptAt
  <2>3. Gathers(s, r, a)
    BY <1>5, <1>6, <1>7, <2>2 DEF Gathers
  <2> QED
    BY <1>2, <2>3, AskOrPass
<1>9. CASE frontier[r] = {}
  <2> DEFINE v == s.overlap
  <2>1. todo'[r] = Rest(s, v, 0)
    <3>1. todo' = [todo EXCEPT ![r] = AfterSweeps]
      BY <1>9 DEF Sweep, Go
    <3>2. PerRank(todo)
      BY <1>3 DEF Shape
    <3>3. AfterSweeps = Ahead(s, v)
      BY <1>3, PlanIsAhead
    <3>4. todo'[r] = AfterSweeps
      BY <3>1, <3>2, ExceptAt
    <3> QED
      BY <3>3, <3>4, RestAt
  <2>2. /\ \A j \in Nat : a <= j /\ j < v => WantAt(s, r, j) = {}
        /\ Reach(s, r, v) = Reach(s, r, a) /\ Before(s, r, v) = Before(s, r, a) /\ Edge(s, r, v) = {}
    <3>1. Edge(s, r, a) = {}
      BY <1>7, <1>9
    <3> QED
      BY <1>1, <1>3, <3>1, EndedWants
  <2>3. v \in Nat /\ Ver(s, v) = Ver(s, a) /\ v <= s.overlap /\ v # s.overlap + 1 /\ v # s.overlap + 2
    BY <1>3, <1>7 DEF Ver
  <2>4. /\ subdofs'[r] = Reach(s, r, v) /\ frontier'[r] = Edge(s, r, v) /\ rows'[r] = Before(s, r, v)
        /\ values'[r] = Ver(s, v) /\ \A e \in rows'[r] : e[1] \in OwnRows(s, OwnerOf(e[1]))
    BY <1>6, <1>7, <1>9, <2>2, <2>3
  <2>5. SetUpAt(s, r, v, 0)'
    BY <2>3, <2>4 DEF SetUpAt
  <2>6. ApplyAt(s, r, v, 0)'
    <3>1. 0 \in 0..7 /\ ~(0 > 4) /\ v <= s.overlap /\ ~(v > s.overlap) /\ v \in Nat
      BY <1>3
    <3>2. turn'[r] = turn[r] /\ exports'[r] = exports[r]
      BY <1>6
    <3> QED
      BY <1>3, <1>7, <3>1, <3>2, ApplyStays
  <2>7. Valid(s, v, 0)
    BY <2>3 DEF Valid
  <2>8. error'[r] = ""
    BY <1>2, <1>6, AtWorkFacts
  <2>9. 0 \in 0..13 /\ 0 \in 0..3
    OBVIOUS
  <2>10. Comes(s, r, v, 0)'
    BY <2>1, <2>3, <2>5, <2>6, <2>7, <2>8, <2>9 DEF Comes
  <2>11. Quiet(s, Place(a, 0), Place(v, 0))
    <3>1. \A j \in Nat : a <= j /\ (j < v \/ (j = v /\ 0 = 3)) => ~Asking(s, j)
      <4> SUFFICES ASSUME NEW j \in Nat, a <= j, j < v PROVE ~Asking(s, j)
        OBVIOUS
      <4>1. WantAt(s, r, j) = {} /\ j <= s.overlap + 1
        BY <1>3, <2>2
      <4> QED
        BY <1>3, <4>1, AllAsk
    <3>2. v <= s.overlap \/ (v = a /\ 0 = 3)
      BY <2>3
    <3> SUFFICES ASSUME NEW i \in Nat, NEW p \in Ranks, NEW q \in Ranks,
                        Place(a, 0) <= i, i < Place(v, 0)
                 PROVE  ~Part(s, i, p, q)
      BY DEF Quiet
    <3> QED
      BY <1>3, <3>1, <3>2, NoneUnasked
  <2>12. Place(a, 0) < Place(v, 0)
    BY <1>1, <1>3 DEF Place
  <2>13. Ready(s, r, v, 0)
    BY <1>3, <2>3, <2>9, ReadyAtFirst
  <2>14. 0 \in SilentPoints
    BY DEF SilentPoints
  <2> HIDE DEF v
  <2> QED
    BY <1>2, <1>5, <2>10, <2>11, <2>12, <2>13, <2>14, GoOn
<1> QED
  BY <1>8, <1>9

LEMMA CompleteStep ==
  ASSUME NEW s, NEW k, NEW r \in Ranks, NEW a, NEW b, AtWork(s, k, r, a, b), Complete(r)
  PROVE  IInv'
<1>1. b = 0 /\ a = s.overlap
  BY PlaceOfStep DEF Complete
<1>2. AtWork(s, k, r, a, 0)
  BY <1>1
<1>3. /\ s \in Settings /\ setting = s /\ Shape /\ s.overlap \in Nat /\ a \in Nat
      /\ SetUpAt(s, r, a, 0)
  BY <1>2, AtWorkFacts
<1>4. Tail(todo[r]) = Rest(s, a, 3)
  BY <1>2, AfterFirst
<1>5. Alone(r)
  <2>1. Touch(todo, todo', r) /\ Touch(want, want', r) /\ Touch(error, error', r)
    BY TouchSame, TouchAt DEF Complete, AskFor, Go
  <2>2. Touches(r) /\ setting' = setting /\ mail' = mail /\ inside' = inside
    BY <2>1, TouchSame DEF Touches, Complete
  <2> QED
    BY <1>3, <2>2, StepsAlone
<1>6. /\ subdofs' = subdofs /\ frontier' = frontier /\ exports' = exports /\ turn' = turn
      /\ rows' = rows /\ values' = values /\ error' = error
  BY DEF Complete, AskFor
<1>7. /\ rows[r] = Before(s, r, a) /\ subdofs[r] = Reach(s, r, a) /\ values[r] = Ver(s, a)
      /\ \A e \in rows[r] : e[1] \in OwnRows(s, OwnerOf(e[1]))
  BY <1>1, <1>3 DEF SetUpAt
<1>8. Remote(r, subdofs[r]) = WantAt(s, r, a)
  <2>1. Reach(s, r, a) = Near(s, r, a)
    BY <1>1, <1>3 DEF Reach
  <2>2. a <= s.overlap
    BY <1>1, <1>3
  <2> QED
    BY <1>1, <1>3, <1>7, <2>1, <2>2, RemoteIsWanted DEF Remote, Own
<1>9. want'[r] = WantAt(s, r, a) /\ todo'[r] = If(WantAt(s, r, a) # {}, <<"ask", "answer">>) \o Rest(s, a, 3)
  <2>1. /\ want' = [want EXCEPT ![r] = WantAt(s, r, a)]
        /\ todo' = [todo EXCEPT ![r] = If(WantAt(s, r, a) # {}, <<"ask", "answer">>) \o Rest(s, a, 3)]
    BY <1>4, <1>8 DEF Complete, AskFor, Go
  <2>2. PerRank(want) /\ PerRank(todo)
    BY <1>3 DEF Shape
  <2> QED
    BY <2>1, <2>2, ExceptAt
<1>10. Gathers(s, r, a)
  BY <1>5, <1>6, <1>7, <1>9 DEF Gathers
<1> QED
  BY <1>2, <1>10, AskOrPass

LEMMA RefreshStep ==
  ASSUME NEW s, NEW k, NEW r \in Ranks, NEW a, NEW b, AtWork(s, k, r, a, b), Refresh(r)
  PROVE  IInv'
<1>1. b = 0 /\ a = s.overlap + 1
  BY PlaceOfStep DEF Refresh
<1>2. AtWork(s, k, r, a, 0)
  BY <1>1
<1>3. /\ s \in Settings /\ setting = s /\ Shape /\ s.overlap \in Nat /\ a \in Nat
      /\ SetUpAt(s, r, a, 0)
  BY <1>2, AtWorkFacts
<1>4. Tail(todo[r]) = Rest(s, a, 3)
  BY <1>2, AfterFirst
<1>5. Alone(r)
  <2>1. /\ Touch(todo, todo', r) /\ Touch(want, want', r) /\ Touch(error, error', r)
        /\ Touch(values, values', r) /\ Touch(rows, rows', r)
    BY TouchSame, TouchAt DEF Refresh, AskFor, Go
  <2>2. Touches(r) /\ setting' = setting /\ mail' = mail /\ inside' = inside
    BY <2>1, TouchSame DEF Touches, Refresh
  <2> QED
    BY <1>3, <2>2, StepsAlone
<1>6. /\ subdofs' = subdofs /\ frontier' = frontier /\ exports' = exports /\ turn' = turn
      /\ error' = error
  BY DEF Refresh, AskFor
<1>7. subdofs[r] = Reach(s, r, a) /\ values[r] = 0
  BY <1>1, <1>3 DEF SetUpAt
<1>8. subdofs[r] \ Own(r) = WantAt(s, r, a)
  <2>1. ~(a < s.overlap) /\ a # s.overlap
    BY <1>1, <1>3
  <2> QED
    BY <1>3, <1>7, <2>1 DEF WantAt, Reach, Own
<1>9. want'[r] = WantAt(s, r, a) /\ todo'[r] = If(WantAt(s, r, a) # {}, <<"ask", "answer">>) \o Rest(s, a, 3)
  <2>1. /\ want' = [want EXCEPT ![r] = WantAt(s, r, a)]
        /\ todo' = [todo EXCEPT ![r] = If(WantAt(s, r, a) # {}, <<"ask", "answer">>) \o Rest(s, a, 3)]
    BY <1>4, <1>8 DEF Refresh, AskFor, Go
  <2>2. PerRank(want) /\ PerRank(todo)
    BY <1>3 DEF Shape
  <2> QED
    BY <2>1, <2>2, ExceptAt
<1>10. rows'[r] = Before(s, r, a) /\ values'[r] = Ver(s, a)
  <2>1. a > s.overlap /\ ~(a <= s.overlap)
    BY <1>1, <1>3
  <2>2. PerRank(rows) /\ PerRank(values)
    BY <1>3 DEF Shape
  <2>3. rows' = [rows EXCEPT ![r] = {}] /\ values' = [values EXCEPT ![r] = values[r] + 1]
    BY DEF Refresh
  <2>4. rows'[r] = {} /\ values'[r] = values[r] + 1
    BY <2>2, <2>3, ExceptAt
  <2> QED
    BY <1>7, <2>1, <2>4 DEF Before, Ver
<1>11. \A e \in rows'[r] : e[1] \in OwnRows(s, OwnerOf(e[1]))
  <2>1. a > s.overlap
    BY <1>1, <1>3
  <2> QED
    BY <1>10, <2>1 DEF Before
<1>12. Gathers(s, r, a)
  BY <1>5, <1>6, <1>9, <1>10, <1>11 DEF Gathers
<1> QED
  BY <1>2, <1>12, AskOrPass

LEMMA ValidFollow ==
  ASSUME NEW s \in Settings, NEW a \in Nat, NEW b \in 1..13, Valid(s, a, b)
  PROVE  /\ FollowStage(s, a, b) \in Nat /\ Follow(s, a, b) \in 0..13
         /\ Valid(s, FollowStage(s, a, b), Follow(s, a, b))
<1>1. s.overlap \in Nat
  BY OverlapIsNat
<1>2. Follow(s, a, b) \in 0..13
  BY DEF Follow
<1>3. FollowStage(s, a, b) \in Nat
  BY DEF FollowStage
<1>4. CASE b = 1
  BY <1>4 DEF Follow, FollowStage, Valid
<1>5. CASE b = 2
  BY <1>5 DEF Follow, FollowStage, Valid
<1>6. CASE b = 3
  <2>1. CASE a < s.overlap
    BY <1>1, <1>6, <2>1 DEF Follow, FollowStage, Valid
  <2>2. CASE a = s.overlap
    BY <1>1, <1>6, <2>2 DEF Follow, FollowStage, Valid
  <2>3. CASE a > s.overlap
    <3>1. a = s.overlap + 1 /\ ~(a < s.overlap) /\ a # s.overlap
      BY <1>1, <1>6, <2>3 DEF Valid
    <3> QED
      BY <1>1, <1>6, <3>1 DEF Follow, FollowStage, Valid, Applications
  <2> QED
    BY <1>1, <2>1, <2>2, <2>3
<1>7. ASSUME b > 3
      PROVE  a \in Applications(s) /\ a + 1 <= s.overlap + 2
  BY <1>1, <1>7 DEF Valid, Applications
<1>8. CASE b > 3
  <2>1. /\ b \in {6, 11, 12, 13} => s.coarse
        /\ b = 4 => Follow(s, a, b) = 5 /\ FollowStage(s, a, b) = a
        /\ b = 6 => Follow(s, a, b) = 7 /\ FollowStage(s, a, b) = a
        /\ b = 7 => Follow(s, a, b) = 8 /\ FollowStage(s, a, b) = a
        /\ b = 8 => Follow(s, a, b) = 9 /\ FollowStage(s, a, b) = a
        /\ b = 11 => Follow(s, a, b) = 12 /\ FollowStage(s, a, b) = a
        /\ b = 12 => Follow(s, a, b) = 13 /\ FollowStage(s, a, b) = a
        /\ b = 13 => Follow(s, a, b) = 0 /\ FollowStage(s, a, b) = a + 1
    BY DEF Follow, FollowStage, Valid
  <2>2. CASE b \notin {5, 9, 10}
    BY <1>7, <1>8, <2>1, <2>2 DEF Valid
  <2>3. CASE b = 5
    BY <1>7, <1>8, <2>3 DEF Valid, Follow, FollowStage
  <2>4. CASE b \in {9, 10}
    BY <1>7, <1>8, <2>4 DEF Valid, Follow, FollowStage
  <2> QED
    BY <2>2, <2>3, <2>4
<1> QED
  BY <1>2, <1>3, <1>4, <1>5, <1>6, <1>8

(* From the factorisation on the subdomain stays as it is.                 *)
SetUpSame(r) ==
  /\ subdofs'[r] = subdofs[r] /\ frontier'[r] = frontier[r] /\ rows'[r] = rows[r]
  /\ values'[r] = values[r] /\ matrix'[r] = matrix[r]

LEMMA SetUpStays ==
  ASSUME NEW s \in Settings, NEW r, NEW a \in Applications(s), NEW b \in 4..13, SetUpAt(s, r, a, b),
         SetUpSame(r), NEW c \in Nat, NEW d \in 0..13, (c = a /\ d > 4) \/ (c = a + 1 /\ d = 0)
  PROVE  SetUpAt(s, r, c, d)'
<1>1. s.overlap \in Nat /\ a \in Nat /\ (a = s.overlap \/ a = s.overlap + 1)
  BY OverlapIsNat DEF Applications
<1>2. b # 0 /\ b # 1 /\ b # 2 /\ ~(b < 3) /\ b > 3 /\ b > 0
  OBVIOUS
<1>3. /\ subdofs'[r] = Reach(s, r, a) /\ (a <= s.overlap => frontier'[r] = Edge(s, r, a))
      /\ rows'[r] = Got(s, r, a) /\ values'[r] = Ver(s, a)
      /\ \A e \in rows'[r] : e[1] \in OwnRows(s, OwnerOf(e[1]))
      /\ matrix'[r] = Near(s, r, s.overlap) \X {Ver(s, a)}
  BY <1>2 DEF SetUpAt, SetUpSame
<1>4. CASE c = a /\ d > 4
  <2>1. d # 0 /\ d # 1 /\ d # 2 /\ ~(d < 3)
    BY <1>4
  <2> QED
    BY <1>3, <1>4, <2>1 DEF SetUpAt
<1>5. CASE c = a + 1 /\ d = 0
  <2>1. /\ Reach(s, r, c) = Reach(s, r, a) /\ ~(c <= s.overlap) /\ ~(d > 0) /\ ~(d > 3) /\ d # 1 /\ d # 2
    BY <1>1, <1>5 DEF Reach
  <2>2. values'[r] = IF c = s.overlap + 1 /\ d = 0 THEN 0 ELSE Ver(s, c)
    BY <1>1, <1>3, <1>5 DEF Ver
  <2>3. c = s.overlap + 2 => Ver(s, c) = Ver(s, a)
    BY <1>1, <1>5 DEF Ver
  <2> QED
    BY <1>3, <2>1, <2>2, <2>3 DEF SetUpAt
<1> QED
  BY <1>4, <1>5

(* A step of its own that goes on, and one that gives up.                  *)
LEMMA Proceeds ==
  ASSUME NEW s, NEW k, NEW r \in Ranks, NEW a, NEW b \in 1..13, AtWork(s, k, r, a, b), Proceed(r),
         SetUpAt(s, r, FollowStage(s, a, b), Follow(s, a, b))',
         ApplyAt(s, r, FollowStage(s, a, b), Follow(s, a, b))'
  PROVE  Comes(s, r, FollowStage(s, a, b), Follow(s, a, b))'
<1> DEFINE c == FollowStage(s, a, b)  d == Follow(s, a, b)
<1>1. s \in Settings /\ a \in Nat /\ Valid(s, a, b) /\ Shape
  BY AtWorkFacts
<1>2. error[r] = ""
  BY DEF AtWork
<1>3. c \in Nat /\ d \in 0..13 /\ Valid(s, c, d)
  BY <1>1, ValidFollow
<1>4. Tail(todo[r]) = Rest(s, c, d)
  BY DEF AtWork
<1>5. todo' = [todo EXCEPT ![r] = Tail(todo[r])] /\ error' = error /\ PerRank(todo)
  BY <1>1 DEF Proceed, Go, Shape
<1>6. todo'[r] = Rest(s, c, d)
  BY <1>4, <1>5, ExceptAt
<1>7. error'[r] = ""
  BY <1>2, <1>5
<1>8. SetUpAt(s, r, c, d)' /\ ApplyAt(s, r, c, d)'
  OBVIOUS
<1> HIDE DEF c, d
<1>9. Comes(s, r, c, d)'
  BY <1>3, <1>6, <1>7, <1>8 DEF Comes
<1> QED
  BY <1>9 DEF c, d

LEMMA Fails ==
  ASSUME NEW r \in Ranks, Shape, NEW why, why # "", why # "crossed", Fail(r, why)
  PROVE  Stopped(r)'
<1>1. PerRank(error) /\ PerRank(todo)
  BY DEF Shape
<1>2. error' = [error EXCEPT ![r] = why] /\ todo' = [todo EXCEPT ![r] = <<>>]
  BY DEF Fail, Go
<1>3. error'[r] = why /\ todo'[r] = <<>>
  BY <1>1, <1>2, ExceptAt
<1> QED
  BY <1>3 DEF Stopped

LEMMA GoesOrFails ==
  ASSUME NEW r, NEW why, Proceed(r) \/ Fail(r, why)
  PROVE  Touch(todo, todo', r) /\ Touch(error, error', r)
<1>1. CASE Proceed(r)
  BY <1>1, TouchSame, TouchAt DEF Proceed, Go
<1>2. CASE Fail(r, why)
  BY <1>2, TouchSame, TouchAt DEF Fail, Go
<1> QED
  BY <1>1, <1>2

(* After the set-up of the subdomain.                                      *)
LEMMA ReadyLate ==
  ASSUME NEW s, NEW k, NEW r \in Ranks, NEW a, NEW b \in 4..13, AtWork(s, k, r, a, b), NEW c, NEW d
  PROVE  /\ Settled(s, r) /\ Ready(s, r, c, d) /\ a \in Applications(s)
<1>1. s.overlap \in Nat /\ a \in Nat /\ Knows(s, r, Place(a, b)) /\ Valid(s, a, b)
  BY AtWorkFacts
<1>2. a \in Applications(s)
  BY <1>1 DEF Valid, Applications
<1>3. Place(a, b) > Place(s.overlap, 3)
  BY <1>1, <1>2 DEF Place, Applications
<1> QED
  BY <1>1, <1>2, <1>3 DEF Knows, Ready

LEMMA LateFollow ==
  ASSUME NEW s \in Settings, NEW a \in Nat, NEW b \in 4..13
  PROVE  LET c == FollowStage(s, a, b) d == Follow(s, a, b) IN
         (c = a /\ d > 4) \/ (c = a + 1 /\ d = 0)
<1>1. Follow(s, a, b) > 4 \/ Follow(s, a, b) = 0
  BY DEF Follow
<1>2. Follow(s, a, b) > 4 => Follow(s, a, b) # 0
  BY <1>1
<1> QED
  BY <1>1, <1>2 DEF FollowStage

LEMMA StaysSetUp ==
  ASSUME NEW s, NEW k, NEW r \in Ranks, NEW a, NEW b \in 4..13, AtWork(s, k, r, a, b), SetUpSame(r)
  PROVE  SetUpAt(s, r, FollowStage(s, a, b), Follow(s, a, b))'
<1> DEFINE c == FollowStage(s, a, b)  d == Follow(s, a, b)
<1>1. s \in Settings /\ a \in Nat /\ Valid(s, a, b) /\ SetUpAt(s, r, a, b) /\ a \in Applications(s)
  BY AtWorkFacts, ReadyLate
<1>2. b \in 1..13
  OBVIOUS
<1>3. c \in Nat /\ d \in 0..13
  BY <1>1, <1>2, ValidFollow
<1>4. (c = a /\ d > 4) \/ (c = a + 1 /\ d = 0)
  BY <1>1, LateFollow
<1> HIDE DEF c, d
<1>5. SetUpAt(s, r, c, d)'
  BY <1>1, <1>3, <1>4, SetUpStays
<1> QED
  BY <1>5 DEF c, d

LEMMA ExpandStep ==
  ASSUME NEW s, NEW k, NEW r \in Ranks, NEW a, NEW b, AtWork(s, k, r, a, b), Expand(r)
  PROVE  IInv'
<1>1. b = 3 /\ a < s.overlap
  BY PlaceOfStep DEF Expand
<1>2. AtWork(s, k, r, a, 3) /\ 3 \in SilentPoints \ {0} /\ 3 \in 1..13
  BY <1>1 DEF SilentPoints
<1>3. /\ s \in Settings /\ setting = s /\ Shape /\ s.overlap \in Nat /\ a \in Nat
      /\ SetUpAt(s, r, a, 3) /\ ApplyAt(s, r, a, 3)
  BY <1>2, AtWorkFacts
<1>4. Follow(s, a, 3) = 0 /\ FollowStage(s, a, 3) = a + 1
  BY <1>1 DEF Follow, FollowStage
<1>5. Alone(r)
  <2>1. /\ Touch(todo, todo', r) /\ Touch(error, error', r)
        /\ Touch(subdofs, subdofs', r) /\ Touch(frontier, frontier', r)
    BY TouchSame, TouchAt DEF Expand, Proceed, Go
  <2>2. Touches(r) /\ setting' = setting /\ mail' = mail /\ inside' = inside
    BY <2>1, TouchSame DEF Touches, Expand
  <2> QED
    BY <1>3, <2>2, StepsAlone
<1>6. exports' = exports /\ turn' = turn /\ rows' = rows /\ values' = values
  BY DEF Expand
<1>7. /\ rows[r] = Got(s, r, a) /\ frontier[r] = Edge(s, r, a) /\ values[r] = Ver(s, a)
      /\ \A e \in rows[r] : e[1] \in OwnRows(s, OwnerOf(e[1]))
      /\ subdofs[r] = Reach(s, r, a) /\ a <= s.overlap
  BY <1>1, <1>3 DEF SetUpAt
<1>8. Reach(s, r, a) = Near(s, r, a) /\ Reach(s, r, a + 1) = Near(s, r, a + 1)
  <2>1. ~(a + 1 < s.overlap) => a + 1 = s.overlap
    BY <1>1, <1>3
  <2> QED
    BY <1>1, <2>1 DEF Reach
<1>9. Ring(r) = Edge(s, r, a + 1) /\ subdofs[r] \cup Ring(r) = Reach(s, r, a + 1)
      /\ rows[r] = Before(s, r, a + 1)
  <2>1. Ring(r) = Edge(s, r, a + 1)
    BY <1>1, <1>3, <1>7, <1>8, NextRing DEF Ring, Own
  <2> QED
    BY <1>1, <1>3, <1>7, <1>8, <2>1, NextRing
<1>10. subdofs'[r] = Reach(s, r, a + 1) /\ frontier'[r] = Edge(s, r, a + 1)
  <2>1. subdofs' = [subdofs EXCEPT ![r] = subdofs[r] \cup Ring(r)] /\ frontier' = [frontier EXCEPT ![r] = Ring(r)]
    BY DEF Expand
  <2>2. PerRank(subdofs) /\ PerRank(frontier)
    BY <1>3 DEF Shape
  <2> QED
    BY <1>9, <2>1, <2>2, ExceptAt
<1>11. SetUpAt(s, r, a + 1, 0)'
  <2>1. /\ a + 1 <= s.overlap /\ a + 1 # s.overlap + 1 /\ a + 1 # s.overlap + 2
        /\ Ver(s, a + 1) = Ver(s, a)
    BY <1>1, <1>3 DEF Ver
  <2>2. rows'[r] = Before(s, r, a + 1) /\ values'[r] = Ver(s, a + 1)
        /\ \A e \in rows'[r] : e[1] \in OwnRows(s, OwnerOf(e[1]))
    BY <1>6, <1>7, <1>9, <2>1
  <2> QED
    BY <1>10, <2>1, <2>2 DEF SetUpAt
<1>12. ApplyAt(s, r, a + 1, 0)'
  <2>1. /\ 0 \in 0..7 /\ 3 \in 0..7 /\ a + 1 \in Nat /\ a + 1 <= s.overlap /\ a <= s.overlap
        /\ ~(a + 1 > s.overlap \/ 0 > 4)
    BY <1>1, <1>3
  <2>2. turn'[r] = turn[r] /\ exports'[r] = exports[r]
    BY <1>6
  <2> QED
    BY <1>3, <2>1, <2>2, ApplyStays
<1>13. Proceed(r)
  BY DEF Expand
<1>14. Comes(s, r, FollowStage(s, a, 3), Follow(s, a, 3))'
  BY <1>2, <1>4, <1>11, <1>12, <1>13, Proceeds
<1>15. Ready(s, r, FollowStage(s, a, 3), Follow(s, a, 3))
  <2>1. a + 1 \in Nat /\ a + 1 <= s.overlap /\ 0 \in 0..3
    BY <1>1, <1>3
  <2> QED
    BY <1>3, <1>4, <2>1, ReadyAtFirst
<1> QED
  BY <1>2, <1>5, <1>14, <1>15, GoNext

(* When all rows of the subdomain are there, they are its rows.            *)
LEMMA Built ==
  ASSUME NEW s \in Settings, NEW r \in Ranks, NEW a \in Applications(s), setting = s,
         subdofs[r] = Near(s, r, s.overlap), rows[r] = Got(s, r, a), values[r] = Ver(s, a),
         subdofs[r] \subseteq Own(r) \cup Fsts(rows[r]),
         \A e \in rows[r] : e[1] \in OwnRows(s, OwnerOf(e[1]))
  PROVE  /\ ((subdofs[r] \cap Own(r)) \X {values[r]}) \cup {e \in rows[r] : e[1] \in subdofs[r]}
              = Near(s, r, s.overlap) \X {Ver(s, a)}
         /\ Settled(s, r)
<1> DEFINE near == Near(s, r, s.overlap)  own == OwnRows(s, r)  v == Ver(s, a)
           far == (near \ own) \cap Foreign(r)
<1>1. Reach(s, r, a) = near
  <2>1. ~(a < s.overlap)
    BY OverlapIsNat DEF Applications
  <2> QED
    BY <2>1 DEF Reach
<1>2. rows[r] = far \X {v} /\ Own(r) = own
  BY <1>1 DEF Got, Own
<1> HIDE DEF v, far
<1>3. Fsts(rows[r]) = far
  BY <1>2, FstsOf
<1>4. near \subseteq own \cup far /\ far \subseteq near /\ far \subseteq Foreign(r) /\ own \cap far = {}
  BY <1>2, <1>3 DEF far
<1>5. \A g \in far : <<g, v>> \in rows[r] /\ <<g, v>>[1] = g
  BY <1>2
<1>6. Settled(s, r)
  <2>1. near \subseteq Read(s, r)
    BY <1>4 DEF Read
  <2>2. \A g \in near \ own : g \in OwnRows(s, OwnerOf(g))
    BY <1>4, <1>5
  <2> QED
    BY <2>1, <2>2 DEF Settled
<1>7. ((near \cap own) \X {v}) \cup {e \in far \X {v} : e[1] \in near} = near \X {v}
  <2> HIDE DEF near, own
  <2>1. {e \in far \X {v} : e[1] \in near} = far \X {v}
    BY <1>4
  <2>2. (near \cap own) \cup far = near
    BY <1>4
  <2>3. ((near \cap own) \X {v}) \cup (far \X {v}) = ((near \cap own) \cup far) \X {v}
    OBVIOUS
  <2> QED
    BY <2>1, <2>2, <2>3
<1>8. values[r] = v /\ subdofs[r] = near
  BY DEF v
<1> QED
  BY <1>2, <1>6, <1>7, <1>8 DEF v

LEMMA BuildStep ==
  ASSUME NEW s, NEW k, NEW r \in Ranks, NEW a, NEW b, AtWork(s, k, r, a, b), Build(r)
  PROVE  IInv'
<1>1. b = 3 /\ a \in Applications(s)
  BY PlaceOfStep DEF Build
<1>2. AtWork(s, k, r, a, 3) /\ 3 \in SilentPoints \ {0} /\ 3 \in 1..13 /\ 3 \in SilentPoints
  BY <1>1 DEF SilentPoints
<1>3. /\ s \in Settings /\ setting = s /\ Shape /\ s.overlap \in Nat /\ a \in Nat
      /\ SetUpAt(s, r, a, 3) /\ ApplyAt(s, r, a, 3)
  BY <1>2, AtWorkFacts
<1> DEFINE ok == subdofs[r] \subseteq Own(r) \cup Fsts(rows[r])
           new == ((subdofs[r] \cap Own(r)) \X {values[r]}) \cup {e \in rows[r] : e[1] \in subdofs[r]}
<1>4. /\ exports' = exports /\ turn' = turn /\ rows' = rows /\ values' = values /\ subdofs' = subdofs
      /\ frontier' = frontier
  BY DEF Build
<1>5. /\ ok => matrix' = [matrix EXCEPT ![r] = new] /\ Proceed(r)
      /\ ~ok => matrix' = matrix /\ Fail(r, "missing row")
  BY DEF Build
<1> HIDE DEF ok, new
<1>6. Alone(r)
  <2>1. Touch(todo, todo', r) /\ Touch(error, error', r) /\ Touch(matrix, matrix', r)
    <3>1. CASE ok
      <4>1. Proceed(r)
        BY <1>5, <3>1
      <4>2. Touch(todo, todo', r) /\ Touch(error, error', r)
        BY <4>1, GoesOrFails
      <4> QED
        BY <1>5, <3>1, <4>2, TouchAt
    <3>2. CASE ~ok
      <4>1. Fail(r, "missing row")
        BY <1>5, <3>2
      <4>2. Touch(todo, todo', r) /\ Touch(error, error', r)
        BY <4>1, GoesOrFails
      <4> QED
        BY <1>5, <3>2, <4>2, TouchSame
    <3> QED
      BY <3>1, <3>2
  <2>2. Touches(r) /\ setting' = setting /\ mail' = mail /\ inside' = inside
    BY <2>1, TouchSame DEF Touches, Build
  <2> QED
    BY <1>3, <2>2, StepsAlone
<1>7. CASE ~ok
  <2>1. Stopped(r)'
    <3> DEFINE why == "missing row"
    <3>1. why # "" /\ why # "crossed" /\ Fail(r, why)
      BY <1>5, <1>7
    <3> HIDE DEF why
    <3> QED
      BY <1>3, <3>1, Fails
  <2> QED
    BY <1>2, <1>6, <2>1, GiveUp
<1>8. CASE ok
  <2>1. /\ subdofs[r] = Near(s, r, s.overlap) /\ rows[r] = Got(s, r, a) /\ values[r] = Ver(s, a)
        /\ \A e \in rows[r] : e[1] \in OwnRows(s, OwnerOf(e[1]))
        /\ subdofs[r] = Reach(s, r, a) /\ (a <= s.overlap => frontier[r] = Edge(s, r, a))
    <3>1. ~(a < s.overlap)
      BY <1>1, <1>3 DEF Applications
    <3> QED
      BY <1>3, <3>1 DEF SetUpAt, Reach
  <2>2. new = Near(s, r, s.overlap) \X {Ver(s, a)} /\ Settled(s, r)
    BY <1>1, <1>3, <1>8, <2>1, Built DEF ok, new
  <2>3. matrix'[r] = Near(s, r, s.overlap) \X {Ver(s, a)}
    <3>1. PerRank(matrix)
      BY <1>3 DEF Shape
    <3> QED
      BY <1>5, <1>8, <2>2, <3>1, ExceptAt
  <2>4. \E d \in {4, 5} : Follow(s, a, 3) = d /\ FollowStage(s, a, 3) = a /\ (d = 4 => a = s.overlap)
                          /\ (d = 5 => a > s.overlap)
    <3>1. a = s.overlap \/ a = s.overlap + 1
      BY <1>1 DEF Applications
    <3>2. CASE a = s.overlap
      BY <1>3, <3>2 DEF Follow, FollowStage
    <3>3. CASE a = s.overlap + 1
      <4>1. ~(a < s.overlap) /\ a # s.overlap /\ a > s.overlap
        BY <1>3, <3>3
      <4> QED
        BY <4>1 DEF Follow, FollowStage
    <3> QED
      BY <3>1, <3>2, <3>3
  <2>5. PICK d \in {4, 5} : Follow(s, a, 3) = d /\ FollowStage(s, a, 3) = a /\ (d = 4 => a = s.overlap)
                            /\ (d = 5 => a > s.overlap)
    BY <2>4
  <2>6. SetUpAt(s, r, a, d)'
    <3>1. d # 0 /\ d # 1 /\ d # 2 /\ ~(d < 3)
      OBVIOUS
    <3> QED
      BY <1>4, <2>1, <2>3, <3>1 DEF SetUpAt
  <2>7. ApplyAt(s, r, a, d)'
    <3>1. d \in 0..7 /\ 3 \in 0..7 /\ (a > s.overlap \/ d > 4 => a > s.overlap \/ 3 > 4) /\ d # 0
      BY <2>5
    <3>2. turn'[r] = turn[r] /\ exports'[r] = exports[r]
      BY <1>4
    <3> QED
      BY <1>3, <3>1, <3>2, ApplyStays
  <2>8. Proceed(r)
    BY <1>5, <1>8
  <2>9. Comes(s, r, FollowStage(s, a, 3), Follow(s, a, 3))'
    BY <1>2, <2>5, <2>6, <2>7, <2>8, Proceeds
  <2>10. Ready(s, r, FollowStage(s, a, 3), Follow(s, a, 3))
    BY <2>2 DEF Ready
  <2> QED
    BY <1>2, <1>6, <2>9, <2>10, GoNext
<1> QED
  BY <1>7, <1>8

LEMMA TurnsCount ==
  ASSUME NEW s \in Settings, NEW a \in Applications(s)
  PROVE  /\ \A b \in 0..7 : TurnAt(s, a, b) = a - s.overlap
         /\ \A b \in 8..13 : TurnAt(s, a, b) = (a - s.overlap) + 1
         /\ TurnAt(s, a + 1, 0) = (a - s.overlap) + 1
         /\ a - s.overlap \in Nat
<1>1. s.overlap \in Nat /\ a \in Nat /\ (a = s.overlap \/ a = s.overlap + 1)
  BY OverlapIsNat DEF Applications
<1>2. (IF a > s.overlap THEN a - s.overlap ELSE 0) = a - s.overlap
  BY <1>1
<1>3. (IF a + 1 > s.overlap THEN (a + 1) - s.overlap ELSE 0) = (a - s.overlap) + 1
  BY <1>1
<1>4. \A b \in 0..7 : ~(b >= 8)
  OBVIOUS
<1> QED
  BY <1>1, <1>2, <1>3, <1>4 DEF TurnAt

(* Between the exchange of lists and that of values, and after the return, *)
(* the application stays as it is.                                         *)
LEMMA ApplySame ==
  ASSUME NEW s \in Settings, NEW r, NEW a \in Applications(s), NEW b \in 5..13, NEW c \in Nat, NEW d \in 0..13,
         \/ b \in {5, 6} /\ c = a /\ d \in {6, 7}
         \/ b > 10 /\ c = a /\ d > 10
         \/ b > 10 /\ c = a + 1 /\ d = 0,
         ApplyAt(s, r, a, b), turn'[r] = turn[r], exports'[r] = exports[r], y'[r] = y[r]
  PROVE  ApplyAt(s, r, c, d)'
<1>1. s.overlap \in Nat /\ a \in Nat /\ (a = s.overlap \/ a = s.overlap + 1)
  BY OverlapIsNat DEF Applications
<1>2. TurnAt(s, c, d) = TurnAt(s, a, b)
  <2>1. b \in {5, 6} => b \in 0..7 /\ d \in 0..7
    OBVIOUS
  <2>2. b > 10 => b \in 8..13
    OBVIOUS
  <2>3. c = a /\ d > 10 => d \in 8..13
    OBVIOUS
  <2> QED
    BY <2>1, <2>2, <2>3, TurnsCount
<1>3. exports'[r] = [q \in Ranks |-> Share(s, q, r)] /\ turn'[r] = TurnAt(s, c, d)
  <2>1. b > 4
    OBVIOUS
  <2> QED
    BY <1>2, <2>1 DEF ApplyAt
<1>4. d # 9 /\ d # 10
  OBVIOUS
<1>5. d > 10 \/ (d = 0 /\ c > s.overlap) => b > 10
  OBVIOUS
<1>6. b > 10 => y'[r] = Final(s, r, TurnAt(s, c, d))
  BY <1>2 DEF ApplyAt
<1> QED
  BY <1>3, <1>4, <1>5, <1>6 DEF ApplyAt

LEMMA FactorStep ==
  ASSUME NEW s, NEW k, NEW r \in Ranks, NEW a, NEW b, AtWork(s, k, r, a, b), Factor(r)
  PROVE  IInv'
<1>1. b = 5
  BY PlaceOfStep DEF Factor
<1>2. AtWork(s, k, r, a, 5) /\ 5 \in SilentPoints \ {0} /\ 5 \in 1..13 /\ 5 \in SilentPoints /\ 5 \in 4..13
  BY <1>1 DEF SilentPoints
<1>3. /\ s \in Settings /\ setting = s /\ Shape /\ s.overlap \in Nat /\ a \in Nat
      /\ ApplyAt(s, r, a, 5) /\ a \in Applications(s) /\ Valid(s, a, 5)
  BY <1>2, AtWorkFacts, ReadyLate
<1>4. /\ exports' = exports /\ turn' = turn /\ rows' = rows /\ values' = values /\ subdofs' = subdofs
      /\ frontier' = frontier /\ matrix' = matrix /\ y' = y
  BY DEF Factor
<1>5. Proceed(r) \/ Fail(r, "factor")
  BY DEF Factor
<1>6. Alone(r)
  <2>1. Touch(todo, todo', r) /\ Touch(error, error', r)
    BY <1>5, GoesOrFails
  <2>2. Touches(r) /\ setting' = setting /\ mail' = mail /\ inside' = inside
    BY <2>1, TouchSame DEF Touches, Factor
  <2> QED
    BY <1>3, <2>2, StepsAlone
<1>7. CASE Fail(r, "factor")
  <2>1. Stopped(r)'
    <3> DEFINE why == "factor"
    <3>1. why # "" /\ why # "crossed" /\ Fail(r, why)
      BY <1>7
    <3> HIDE DEF why
    <3> QED
      BY <1>3, <3>1, Fails
  <2> QED
    BY <1>2, <1>6, <2>1, GiveUp
<1>8. CASE Proceed(r)
  <2> DEFINE c == FollowStage(s, a, 5)  d == Follow(s, a, 5)
  <2>1. SetUpAt(s, r, c, d)'
    <3>1. SetUpSame(r)
      BY <1>4 DEF SetUpSame
    <3> QED
      BY <1>2, <3>1, StaysSetUp
  <2>2. c = a /\ d \in {6, 7} /\ d \in 0..13 /\ 5 \in 5..13
    BY DEF Follow, FollowStage
  <2>3. ApplyAt(s, r, c, d)'
    <3> HIDE DEF c, d
    <3>1. turn'[r] = turn[r] /\ exports'[r] = exports[r] /\ y'[r] = y[r]
      BY <1>4
    <3> QED
      BY <1>3, <2>2, <3>1, ApplySame
  <2>4. Comes(s, r, c, d)'
    BY <1>2, <1>8, <2>1, <2>3, Proceeds
  <2>5. Ready(s, r, c, d)
    BY <1>2, ReadyLate
  <2> QED
    BY <1>2, <1>6, <2>4, <2>5, GoNext
<1> QED
  BY <1>5, <1>7, <1>8

LEMMA CoarseSolveStep ==
  ASSUME NEW s, NEW k, NEW r \in Ranks, NEW a, NEW b, AtWork(s, k, r, a, b), CoarseSolve(r)
  PROVE  IInv'
<1>1. b = 12
  <2>1. Now(r) = "coarse solve"
    BY DEF CoarseSolve
  <2> QED
    BY <2>1, PlaceOfCoarse
<1>2. AtWork(s, k, r, a, 12) /\ 12 \in SilentPoints \ {0} /\ 12 \in 1..13 /\ 12 \in SilentPoints /\ 12 \in 4..13
  BY <1>1 DEF SilentPoints
<1>3. /\ s \in Settings /\ setting = s /\ Shape /\ s.overlap \in Nat /\ a \in Nat
      /\ ApplyAt(s, r, a, 12) /\ a \in Applications(s)
  BY <1>2, AtWorkFacts, ReadyLate
<1>4. /\ exports' = exports /\ turn' = turn /\ rows' = rows /\ values' = values /\ subdofs' = subdofs
      /\ frontier' = frontier /\ matrix' = matrix /\ y' = y
  BY DEF CoarseSolve
<1>5. Proceed(r) \/ Fail(r, "coarse")
  BY DEF CoarseSolve
<1>6. Alone(r)
  <2>1. Touch(todo, todo', r) /\ Touch(error, error', r)
    BY <1>5, GoesOrFails
  <2>2. Touches(r) /\ setting' = setting /\ mail' = mail /\ inside' = inside
    BY <2>1, TouchSame DEF Touches, CoarseSolve
  <2> QED
    BY <1>3, <2>2, StepsAlone
<1>7. CASE Fail(r, "coarse")
  <2>1. Stopped(r)'
    <3> DEFINE why == "coarse"
    <3>1. why # "" /\ why # "crossed" /\ Fail(r, why)
      BY <1>7
    <3> HIDE DEF why
    <3> QED
      BY <1>3, <3>1, Fails
  <2> QED
    BY <1>2, <1>6, <2>1, GiveUp
<1>8. CASE Proceed(r)
  <2> DEFINE c == FollowStage(s, a, 12)  d == Follow(s, a, 12)
  <2>1. SetUpAt(s, r, c, d)'
    <3>1. SetUpSame(r)
      BY <1>4 DEF SetUpSame
    <3> QED
      BY <1>2, <3>1, StaysSetUp
  <2>2. c = a /\ d = 13
    BY DEF Follow, FollowStage
  <2>3. ApplyAt(s, r, c, d)'
    <3> HIDE DEF c, d
    <3>1. turn'[r] = turn[r] /\ exports'[r] = exports[r] /\ y'[r] = y[r]
      BY <1>4
    <3>2. c \in Nat /\ d \in 0..13 /\ d > 10 /\ 12 > 10 /\ 12 \in 5..13
      BY <1>3, <2>2
    <3> QED
      BY <1>3, <2>2, <3>1, <3>2, ApplySame
  <2>4. Comes(s, r, c, d)'
    BY <1>2, <1>8, <2>1, <2>3, Proceeds
  <2>5. Ready(s, r, c, d)
    BY <1>2, ReadyLate
  <2> QED
    BY <1>2, <1>6, <2>4, <2>5, GoNext
<1> QED
  BY <1>5, <1>7, <1>8

LEMMA BeginApplyStep ==
  ASSUME NEW s, NEW k, NEW r \in Ranks, NEW a, NEW b, AtWork(s, k, r, a, b), BeginApply(r)
  PROVE  IInv'
<1>1. b = 7
  BY PlaceOfStep DEF BeginApply
<1>2. AtWork(s, k, r, a, 7) /\ 7 \in SilentPoints \ {0} /\ 7 \in 1..13 /\ 7 \in SilentPoints /\ 7 \in 4..13
  BY <1>1 DEF SilentPoints
<1>3. /\ s \in Settings /\ setting = s /\ Shape /\ s.overlap \in Nat /\ a \in Nat
      /\ ApplyAt(s, r, a, 7) /\ a \in Applications(s)
  BY <1>2, AtWorkFacts, ReadyLate
<1>4. /\ exports' = exports /\ rows' = rows /\ values' = values /\ subdofs' = subdofs
      /\ frontier' = frontier /\ matrix' = matrix /\ turn' = [turn EXCEPT ![r] = turn[r] + 1]
  BY DEF BeginApply
<1>5. Proceed(r) \/ Fail(r, "not in x")
  BY DEF BeginApply
<1>6. Alone(r)
  <2>1. Touch(todo, todo', r) /\ Touch(error, error', r) /\ Touch(turn, turn', r)
    BY <1>4, <1>5, GoesOrFails, TouchAt
  <2>2. Touches(r) /\ setting' = setting /\ mail' = mail /\ inside' = inside
    BY <2>1, TouchSame DEF Touches, BeginApply
  <2> QED
    BY <1>3, <2>2, StepsAlone
<1>7. CASE Fail(r, "not in x")
  <2>1. Stopped(r)'
    <3> DEFINE why == "not in x"
    <3>1. why # "" /\ why # "crossed" /\ Fail(r, why)
      BY <1>7
    <3> HIDE DEF why
    <3> QED
      BY <1>3, <3>1, Fails
  <2> QED
    BY <1>2, <1>6, <2>1, GiveUp
<1>8. CASE Proceed(r)
  <2> DEFINE c == FollowStage(s, a, 7)  d == Follow(s, a, 7)
  <2>1. SetUpAt(s, r, c, d)'
    <3>1. SetUpSame(r)
      BY <1>4 DEF SetUpSame
    <3> QED
      BY <1>2, <3>1, StaysSetUp
  <2>2. c = a /\ d = 8
    BY DEF Follow, FollowStage
  <2>3. ApplyAt(s, r, a, 8)'
    <3>1. turn[r] = TurnAt(s, a, 7) /\ exports[r] = [q \in Ranks |-> Share(s, q, r)]
      BY <1>3 DEF ApplyAt
    <3>2. turn'[r] = turn[r] + 1
      <4>1. PerRank(turn)
        BY <1>3 DEF Shape
      <4> QED
        BY <1>4, <4>1, ExceptAt
    <3>3. TurnAt(s, a, 8) = TurnAt(s, a, 7) + 1
      BY <1>3, TurnsCount
    <3> QED
      BY <1>4, <3>1, <3>2, <3>3 DEF ApplyAt
  <2>4. Comes(s, r, c, d)'
    BY <1>2, <1>8, <2>1, <2>2, <2>3, Proceeds
  <2>5. Ready(s, r, c, d)
    BY <1>2, ReadyLate
  <2> QED
    BY <1>2, <1>6, <2>4, <2>5, GoNext
<1> QED
  BY <1>5, <1>7, <1>8

(* In the restricted mode nothing is added to the own contributions.       *)
LEMMA FinalAlone ==
  ASSUME NEW s, NEW r \in Ranks, NEW t, s.mode # "asm"
  PROVE  {<<g, r, t>> : g \in OwnRows(s, r)} = Final(s, r, t)
<1>1. \A g : Adding(s, r, g) = {r}
  BY DEF Adding
<1>2. Final(s, r, t) = UNION {{<<g, q, t>> : q \in {r}} : g \in OwnRows(s, r)}
  BY <1>1 DEF Final
<1> QED
  BY <1>2

LEMMA SolveStep ==
  ASSUME NEW s, NEW k, NEW r \in Ranks, NEW a, NEW b, AtWork(s, k, r, a, b), Solve(r)
  PROVE  IInv'
<1>1. b = 9
  <2>1. Now(r) = "solve"
    BY DEF Solve
  <2> QED
    BY <2>1, PlaceOfSolve
<1>2. AtWork(s, k, r, a, 9) /\ 9 \in SilentPoints \ {0} /\ 9 \in 1..13 /\ 9 \in SilentPoints /\ 9 \in 4..13
  BY <1>1 DEF SilentPoints
<1>3. /\ s \in Settings /\ setting = s /\ Shape /\ s.overlap \in Nat /\ a \in Nat
      /\ ApplyAt(s, r, a, 9) /\ a \in Applications(s) /\ SetUpAt(s, r, a, 9)
  BY <1>2, AtWorkFacts, ReadyLate
<1> DEFINE res == {<<g, r, turn[r]>> : g \in subdofs[r] \cap Own(r)}
<1>4. /\ exports' = exports /\ rows' = rows /\ values' = values /\ subdofs' = subdofs
      /\ frontier' = frontier /\ matrix' = matrix /\ turn' = turn /\ y' = [y EXCEPT ![r] = res]
  BY DEF Solve
<1>5. Proceed(r)
  BY DEF Solve
<1> HIDE DEF res
<1>6. Alone(r)
  <2>1. Touch(todo, todo', r) /\ Touch(error, error', r)
    BY <1>5, GoesOrFails
  <2>2. Touch(y, y', r)
    BY <1>4, TouchAt
  <2>3. Touches(r) /\ setting' = setting /\ mail' = mail /\ inside' = inside
    BY <2>1, <2>2, TouchSame DEF Touches, Solve
  <2> QED
    BY <1>3, <2>3, StepsAlone
<1> DEFINE c == FollowStage(s, a, 9)  d == Follow(s, a, 9)  t == TurnAt(s, a, 9)
<1>7. SetUpAt(s, r, c, d)'
  <2>1. SetUpSame(r)
    BY <1>4 DEF SetUpSame
  <2> QED
    BY <1>2, <2>1, StaysSetUp
<1>8. turn'[r] = t /\ exports'[r] = [q \in Ranks |-> Share(s, q, r)]
  BY <1>3, <1>4 DEF ApplyAt
<1>9. y'[r] = {<<g, r, t>> : g \in OwnRows(s, r)}
  <2>1. subdofs[r] \cap Own(r) = OwnRows(s, r)
    <3>1. subdofs[r] = Reach(s, r, a) /\ Own(r) = OwnRows(s, r)
      BY <1>3 DEF SetUpAt, Own
    <3>2. \E i \in Nat : Reach(s, r, a) = Near(s, r, i)
      BY <1>3 DEF Reach
    <3>3. OwnRows(s, r) \subseteq Reach(s, r, a)
      BY <1>3, <3>2, OwnNear
    <3> QED
      BY <3>1, <3>3
  <2>2. PerRank(y) /\ turn[r] = t
    BY <1>3 DEF Shape, ApplyAt
  <2>3. y'[r] = res
    BY <1>4, <2>2, ExceptAt
  <2> QED
    BY <2>1, <2>2, <2>3 DEF res
<1>10. ApplyAt(s, r, c, d)'
  <2>1. /\ TurnAt(s, a, 10) = t /\ TurnAt(s, a, 11) = t /\ TurnAt(s, a + 1, 0) = t
    <3>1. 9 \in 8..13 /\ 10 \in 8..13 /\ 11 \in 8..13
      OBVIOUS
    <3> QED
      BY <1>3, <3>1, TurnsCount
  <2>2. CASE s.mode = "asm"
    <3>1. c = a /\ d = 10
      BY <2>2 DEF Follow, FollowStage
    <3> HIDE DEF t
    <3> QED
      BY <1>8, <1>9, <2>1, <3>1 DEF ApplyAt
  <2>3. CASE s.mode # "asm"
    <3>1. y'[r] = Final(s, r, t)
      BY <1>9, <2>3, FinalAlone
    <3>2. (c = a /\ d = 11) \/ (c = a + 1 /\ d = 0)
      BY <2>3 DEF Follow, FollowStage
    <3>3. TurnAt(s, c, d) = t
      BY <2>1, <3>2
    <3>4. d # 9 /\ d # 10
      BY <3>2
    <3> HIDE DEF c, d, t
    <3> QED
      BY <1>8, <3>1, <3>3, <3>4 DEF ApplyAt
  <2> QED
    BY <2>2, <2>3
<1>11. Comes(s, r, c, d)'
  BY <1>2, <1>5, <1>7, <1>10, Proceeds
<1>12. Ready(s, r, c, d)
  BY <1>2, ReadyLate
<1> QED
  BY <1>2, <1>6, <1>11, <1>12, GoNext

------------------------------------------------------------------------------
(* Exchanges.                                                              *)
LEMMA CallPlaces ==
  ASSUME NEW s, NEW a, NEW b \in 0..13
  PROVE  /\ StepAt(s, a, b) \in Calls => b \in CallPoints
         /\ StepAt(s, a, b) = "ask" <=> b = 1
         /\ StepAt(s, a, b) = "answer" <=> b = 2
         /\ StepAt(s, a, b) = "lists" <=> b = 4
         /\ StepAt(s, a, b) = "values" <=> b = 8
         /\ StepAt(s, a, b) = "return" <=> b = 10
<1>1. StepAt(s, a, b) \in Calls => b \in CallPoints
  BY DEF StepAt, Calls, DenseCalls, CallPoints
<1>2. /\ StepAt(s, a, b) = "ask" <=> b = 1
      /\ StepAt(s, a, b) = "answer" <=> b = 2
      /\ StepAt(s, a, b) = "lists" <=> b = 4
  BY DEF StepAt
<1>3. StepAt(s, a, b) = "values" <=> b = 8
  BY DEF StepAt
<1>4. StepAt(s, a, b) = "return" <=> b = 10
  BY DEF StepAt
<1> QED
  BY <1>1, <1>2, <1>3, <1>4

LEMMA CallNow ==
  ASSUME NEW s, NEW k, NEW r, NEW a, NEW b, AtWork(s, k, r, a, b)
  PROVE  /\ Now(r) \in Calls => b \in CallPoints
         /\ Now(r) = "ask" <=> b = 1
         /\ Now(r) = "answer" <=> b = 2
         /\ Now(r) = "lists" <=> b = 4
         /\ Now(r) = "values" <=> b = 8
         /\ Now(r) = "return" <=> b = 10
<1>1. b \in 0..13
  BY DEF AtWork
<1>2. Now(r) = StepAt(s, a, b)
  BY DEF AtWork
<1> QED
  BY <1>1, <1>2, CallPlaces

(* The plan of a rank at a place from the factorisation on is the one that *)
(* the setting gives.                                                      *)
LEMMA ImportsShare ==
  ASSUME NEW s, NEW k, NEW r \in Ranks, NEW a, NEW b \in 4..13, AtWork(s, k, r, a, b), NEW q
  PROVE  Imports(r, q) = Share(s, r, q)
<1>1. s.overlap \in Nat /\ a \in Nat /\ SetUpAt(s, r, a, b) /\ a \in Applications(s)
  BY AtWorkFacts, ReadyLate
<1>2. ~(a < s.overlap)
  BY <1>1 DEF Applications
<1>3. subdofs[r] = Near(s, r, s.overlap)
  BY <1>1, <1>2 DEF SetUpAt, Reach
<1> QED
  BY <1>3 DEF Imports, Share

LEMMA ExportsShare ==
  ASSUME NEW s, NEW k, NEW r \in Ranks, NEW a, NEW b \in 5..13, AtWork(s, k, r, a, b), NEW q \in Ranks
  PROVE  exports[r][q] = Share(s, q, r)
<1>1. ApplyAt(s, r, a, b)
  BY AtWorkFacts
<1>2. b > 4
  OBVIOUS
<1> QED
  BY <1>1, <1>2 DEF ApplyAt

LEMMA PeersJoint ==
  ASSUME NEW s, NEW k, NEW r \in Ranks, NEW a, NEW b \in CallPoints, AtWork(s, k, r, a, b),
         NEW q \in Ranks, q # r
  PROVE  /\ q \in Targets(r) <=> Joint(s, a, b, r, q)
         /\ q \in Sources(r) <=> Joint(s, a, b, q, r)
<1>1. Valid(s, a, b) /\ a <= s.overlap + 1 /\ q \in Others(r)
  BY AtWorkFacts DEF Others
<1>2. (Now(r) = "values" <=> b = 8) /\ (Now(r) = "return" <=> b = 10)
  BY CallNow
<1>3. CASE b = 8
  <2>1. Now(r) = "values" /\ 8 \in 4..13 /\ 8 \in 5..13
    BY <1>2, <1>3
  <2>2. /\ Targets(r) = {p \in Others(r) : exports[r][p] # {}}
        /\ Sources(r) = {p \in Others(r) : Imports(r, p) # {}}
    BY <2>1 DEF Targets, Sources
  <2>3. exports[r][q] = Share(s, q, r) /\ Imports(r, q) = Share(s, r, q)
    BY <1>3, <2>1, ImportsShare, ExportsShare
  <2>4. a \in Applications(s)
    BY <1>1, <1>3 DEF Valid
  <2> QED
    BY <1>1, <1>3, <2>2, <2>3, <2>4 DEF Joint
<1>4. CASE b = 10
  <2>1. Now(r) = "return" /\ Now(r) # "values" /\ 10 \in 4..13 /\ 10 \in 5..13
    BY <1>2, <1>4
  <2>2. /\ Targets(r) = {p \in Others(r) : Imports(r, p) # {}}
        /\ Sources(r) = {p \in Others(r) : exports[r][p] # {}}
    BY <2>1 DEF Targets, Sources
  <2>3. exports[r][q] = Share(s, q, r) /\ Imports(r, q) = Share(s, r, q)
    BY <1>4, <2>1, ImportsShare, ExportsShare
  <2>4. a \in Applications(s) /\ s.mode = "asm"
    BY <1>1, <1>4 DEF Valid
  <2> QED
    BY <1>1, <1>4, <2>2, <2>3, <2>4 DEF Joint
<1>5. CASE b # 8 /\ b # 10
  <2>1. Now(r) # "values" /\ Now(r) # "return"
    BY <1>2, <1>5
  <2>2. Targets(r) = Others(r) /\ Sources(r) = Others(r)
    BY <2>1 DEF Targets, Sources
  <2>3. CASE b \in {1, 2, 4}
    BY <1>1, <2>2, <2>3 DEF Valid, Joint
  <2>4. CASE b \in {6, 11, 13}
    BY <1>1, <2>2, <2>4 DEF Valid, Joint
  <2> QED
    BY <1>5, <2>3, <2>4 DEF CallPoints
<1> QED
  BY <1>3, <1>4, <1>5

LEMMA DataBill ==
  ASSUME NEW s, NEW k, NEW r \in Ranks, NEW a, NEW b \in CallPoints, AtWork(s, k, r, a, b),
         NEW q \in Ranks, q # r
  PROVE  Data(r, q) = Bill(s, a, b, r, q)
<1>1. Valid(s, a, b) /\ q \in Others(r) /\ SetUpAt(s, r, a, b) /\ ApplyAt(s, r, a, b)
  BY AtWorkFacts DEF Others
<1>2. /\ Now(r) = "ask" <=> b = 1
      /\ Now(r) = "answer" <=> b = 2
      /\ Now(r) = "lists" <=> b = 4
      /\ Now(r) = "values" <=> b = 8
      /\ Now(r) = "return" <=> b = 10
  BY CallNow
<1>3. CASE b = 1
  <2>1. Data(r, q) = {g \in want[r] : OwnerOf(g) = q}
    BY <1>2, <1>3 DEF Data
  <2>2. want[r] = WantAt(s, r, a)
    BY <1>1, <1>3 DEF SetUpAt
  <2> QED
    BY <1>3, <2>1, <2>2 DEF Bill, Asked
<1>4. CASE b = 2
  <2>1. Data(r, q) = asked[r][q] \X {values[r]}
    BY <1>2, <1>4 DEF Data
  <2>2. asked[r][q] = Asked(s, a, q, r) /\ values[r] = Ver(s, a)
    BY <1>1, <1>4 DEF SetUpAt
  <2> QED
    BY <1>4, <2>1, <2>2 DEF Bill
<1>5. CASE b = 4
  <2>1. Data(r, q) = Imports(r, q) /\ 4 \in 4..13
    BY <1>2, <1>5 DEF Data
  <2>2. Imports(r, q) = Share(s, r, q)
    BY <1>5, <2>1, ImportsShare
  <2> QED
    BY <1>5, <2>1, <2>2 DEF Bill
<1>6. CASE b = 8
  <2>1. Data(r, q) = exports[r][q] \X {turn[r]} /\ 8 \in 5..13
    BY <1>2, <1>6 DEF Data
  <2>2. exports[r][q] = Share(s, q, r) /\ turn[r] = TurnAt(s, a, b)
    BY <1>1, <1>6, <2>1, ExportsShare DEF ApplyAt
  <2> QED
    BY <1>6, <2>1, <2>2 DEF Bill
<1>7. CASE b = 10
  <2>1. Data(r, q) = {<<g, r, turn[r]>> : g \in Imports(r, q)} /\ 10 \in 4..13
    BY <1>2, <1>7 DEF Data
  <2>2. Imports(r, q) = Share(s, r, q) /\ turn[r] = TurnAt(s, a, b)
    BY <1>1, <1>7, <2>1, ImportsShare DEF ApplyAt
  <2> QED
    BY <1>7, <2>1, <2>2 DEF Bill
<1>8. CASE b \in {6, 11, 13}
  <2>1. /\ Now(r) # "ask" /\ Now(r) # "answer" /\ Now(r) # "lists" /\ Now(r) # "values"
        /\ Now(r) # "return"
    BY <1>2, <1>8
  <2>2. Data(r, q) = {}
    BY <2>1 DEF Data
  <2> QED
    BY <1>8, <2>2 DEF Bill
<1> QED
  BY <1>3, <1>4, <1>5, <1>6, <1>7, <1>8 DEF CallPoints

LEMMA SendStep ==
  ASSUME NEW s, NEW k, NEW r \in Ranks, NEW a, NEW b, AtWork(s, k, r, a, b), Send(r)
  PROVE  IInv'
<1>1. b \in CallPoints /\ b \in 0..13
  <2>1. Now(r) \in Calls
    BY DEF Send
  <2> QED
    BY <2>1, CallNow, AtWorkFacts
<1>2. /\ Holds(s, k) /\ s \in Settings /\ setting = s /\ Shape /\ a \in Nat /\ Place(a, b) \in Nat
      /\ s.overlap \in Nat
  BY AtWorkFacts
<1>3. error[r] = "" /\ Stands(s, r, a, b) /\ Now(r) = StepAt(s, a, b) /\ k[r] = Place(a, b)
  BY DEF AtWork
<1>4. inside[r] = FALSE /\ inside'[r] = TRUE
  <2>1. PerRank(inside) /\ inside' = [inside EXCEPT ![r] = TRUE] /\ ~inside[r]
    BY <1>2 DEF Shape, Send
  <2>2. inside[r] \in BOOLEAN
    BY <1>3 DEF Stands
  <2>3. inside'[r] = TRUE
    BY <2>1, ExceptAt
  <2> QED
    BY <2>1, <2>2, <2>3
<1>5. OnlyTouches(r)
  <2>1. Touch(inside, inside', r)
    BY TouchAt DEF Send
  <2>2. Touches(r) /\ setting' = setting
    BY <2>1, TouchSame DEF Touches, Send
  <2> DEFINE f(e) == IF e[1] = r /\ e[2] \in Targets(r)
                       THEN Append(mail[e], [call |-> Now(r), data |-> Data(r, e[2])]) ELSE mail[e]
  <2>3. mail' = [e \in Pairs |-> f(e)]
    BY DEF Send
  <2> HIDE DEF f
  <2>4. mail' = [e \in Pairs |-> mail'[e]]
    BY <2>3
  <2> QED
    BY <1>2, <2>2, <2>4, TouchesOnly
<1>6. ASSUME NEW p \in Ranks, NEW q \in Ranks, p # q
      PROVE  mail'[<<p, q>>] = IF p = r /\ q \in Targets(r)
               THEN Append(mail[<<p, q>>], [call |-> Now(r), data |-> Data(r, q)]) ELSE mail[<<p, q>>]
  <2>1. <<p, q>> \in Pairs
    BY <1>6 DEF Pairs
  <2> QED
    BY <2>1 DEF Send
<1>7. ASSUME NEW q \in Ranks, q # r
      PROVE  mail'[<<r, q>>] = IF Joint(s, a, b, r, q)
               THEN Append(mail[<<r, q>>], Msg(s, a, b, r, q)) ELSE mail[<<r, q>>]
  <2>1. q \in Targets(r) <=> Joint(s, a, b, r, q)
    BY <1>1, <1>7, PeersJoint
  <2>2. [call |-> Now(r), data |-> Data(r, q)] = Msg(s, a, b, r, q)
    <3>1. Data(r, q) = Bill(s, a, b, r, q)
      BY <1>1, <1>7, DataBill
    <3>2. [call |-> Now(r), data |-> Data(r, q)] = [call |-> StepAt(s, a, b), data |-> Bill(s, a, b, r, q)]
      BY <1>3, <3>1
    <3> QED
      BY <3>2 DEF Msg
  <2> QED
    BY <1>6, <1>7, <2>1, <2>2
<1>8. \A p, q \in Ranks : p # q /\ p # r => mail'[<<p, q>>] = mail[<<p, q>>]
  BY <1>6
<1>9. At(s, r, k[r])'
  <2>1. SetUpAt(s, r, a, b)' /\ ApplyAt(s, r, a, b)'
    BY <1>3 DEF Stands, SetUpAt, ApplyAt, Send
  <2>2. todo' = todo /\ error' = error
    BY DEF Send
  <2>3. Stands(s, r, a, b)'
    BY <1>1, <1>3, <1>4, <2>1, <2>2 DEF Stands
  <2> QED
    BY <1>1, <1>2, <1>3, <2>2, <2>3 DEF At
<1>10. Knows(s, r, k[r])'
  <2>1. Knows(s, r, k[r]) /\ Sent(r, k[r]) = k[r] /\ Sent(r, k[r])' = k[r] + 1 /\ k[r] \in Nat
    BY <1>2, <1>3, <1>4 DEF Holds, Sent
  <2>2. ASSUME NEW c \in Nat, c <= s.overlap + 1, Asking(s, c), k[r] + 1 > Place(c, 2)
        PROVE  Answers(s, r, c)
    <3>1. k[r] > Place(c, 2) \/ k[r] = Place(c, 2)
      BY <2>1, <2>2 DEF Place
    <3>2. CASE k[r] > Place(c, 2)
      BY <2>1, <2>2, <3>2 DEF Knows
    <3>3. CASE k[r] = Place(c, 2)
      <4>1. Place(a, b) = Place(c, 2)
        BY <1>3, <3>3
      <4>2. a = c /\ b = 2
        <5>1. a \in Nat /\ b \in 0..13 /\ c \in Nat
          BY <1>1, <1>2, <2>2
        <5> HIDE <1>1, <1>2, <2>1, <2>2
        <5> QED
          BY <4>1, <5>1 DEF Place
      <4> QED
        BY <1>3, <4>2 DEF Stands, SetUpAt, Answers
    <3> QED
      BY <3>1, <3>2, <3>3
  <2> QED
    BY <2>1, <2>2 DEF Knows, Settled, Answers
<1> QED
  BY <1>1, <1>2, <1>3, <1>4, <1>5, <1>7, <1>8, <1>9, <1>10, MoveSend

LEMMA TouchIf ==
  ASSUME NEW c, NEW f, NEW g, NEW r, NEW v, g = IF c THEN [f EXCEPT ![r] = v] ELSE f
  PROVE  Touch(f, g, r)
BY DEF Touch

LEMMA WorksInside ==
  ASSUME NEW s, NEW k, Holds(s, k), NEW r \in Ranks, inside[r]
  PROVE  todo[r] # <<>>
<1>1. s \in Settings /\ At(s, r, k[r]) /\ s.overlap \in Nat
  BY OverlapIsNat DEF Holds
<1>2. error[r] = ""
  BY <1>1 DEF At, Gone
<1>3. PICK a \in Nat, b \in 0..13 : Stands(s, r, a, b)
  BY <1>1, <1>2 DEF At
<1>4. b \in CallPoints /\ Valid(s, a, b) /\ todo[r] = Rest(s, a, b)
  BY <1>3 DEF Stands
<1>5. a <= s.overlap + 1
  BY <1>1, <1>4 DEF Valid, Applications, CallPoints
<1> DEFINE x == StepAt(s, a, b)  n == Rest(s, FollowStage(s, a, b), Follow(s, a, b))
<1>6. Rest(s, a, b) = Do(x, n) /\ x \in Names /\ n \in Seq(Names)
  BY <1>1, <1>4, <1>5, RestStep
<1> HIDE DEF x, n
<1> QED
  BY <1>4, <1>6, DoFirst

(* What a rank that ends an exchange does to the messages.                 *)
Takes(s, r, a, b) ==
  /\ OnlyTouches(r) /\ inside[r] = TRUE /\ inside'[r] = FALSE
  /\ \A p \in Ranks : p # r => mail'[<<p, r>>] = IF Joint(s, a, b, p, r)
       THEN Tail(mail[<<p, r>>]) ELSE mail[<<p, r>>]
  /\ \A p \in Ranks : p # r /\ Joint(s, a, b, p, r) => mail[<<p, r>>] # <<>>
  /\ \A p, q \in Ranks : p # q /\ q # r => mail'[<<p, q>>] = mail[<<p, q>>]

LEMMA TakesMove ==
  ASSUME NEW s, NEW k, NEW r \in Ranks, NEW a, NEW b, AtWork(s, k, r, a, b), Takes(s, r, a, b),
         NEW m \in Nat, k[r] < m, Quiet(s, k[r] + 1, m), At(s, r, m)', Knows(s, r, m)'
  PROVE  IInv'
<1>1. Holds(s, k) /\ a \in Nat /\ b \in 0..13
  BY AtWorkFacts
<1>2. k[r] = Place(a, b)
  BY AtWorkPlace
<1> QED
  BY <1>1, <1>2, MoveReceive DEF Takes

LEMMA ReceiveGoes ==
  ASSUME NEW s, NEW k, NEW r \in Ranks, NEW a, NEW b \in CallPoints, AtWork(s, k, r, a, b),
         Takes(s, r, a, b), Comes(s, r, FollowStage(s, a, b), Follow(s, a, b))'
  PROVE  IInv'
<1> DEFINE c == FollowStage(s, a, b)  d == Follow(s, a, b)  m == Place(c, d)  n == Place(a, b)
<1>1. /\ s \in Settings /\ a \in Nat /\ b \in 0..13 /\ Valid(s, a, b) /\ n \in Nat /\ s.overlap \in Nat
  BY AtWorkFacts
<1>2. b \in 1..13 /\ b # 0
  BY DEF CallPoints
<1>3. c \in Nat /\ d \in 0..13
  BY <1>1, <1>2, ValidFollow
<1>4. m \in Nat
  BY <1>3, PlaceOrder
<1>5. n < m
  <2>1. (d = 0 => c = a + 1) /\ (d # 0 => c = a)
    BY DEF FollowStage
  <2>2. d # 0 => d > b
    BY DEF Follow, CallPoints
  <2> HIDE DEF c, d
  <2> QED
    BY <1>1, <1>3, <2>1, <2>2 DEF Place
<1>6. \A i \in Nat, p, q \in Ranks : n < i /\ i < m => ~Part(s, i, p, q)
  BY <1>1, <1>2, NoneBetween
<1>7. Quiet(s, n + 1, m)
  <2>1. \A i \in Nat : n + 1 <= i => n < i
    BY <1>1
  <2> HIDE DEF n, m
  <2> QED
    BY <1>6, <2>1 DEF Quiet
<1>8. k[r] = n /\ Knows(s, r, n)
  BY AtWorkPlace, AtWorkFacts
<1>9. Comes(s, r, c, d)'
  OBVIOUS
<1> HIDE DEF c, d
<1>10. At(s, r, m)'
  <2>1. inside'[r] = FALSE
    BY DEF Takes
  <2>2. Stands(s, r, c, d)'
    BY <2>1, <1>9 DEF Stands, Comes
  <2> QED
    BY <1>3, <1>9, <2>2 DEF At, Comes
<1>11. m > Place(s.overlap, 3) => Settled(s, r)
  <2>1. CASE b \in {1, 2}
    <3>1. c = a /\ d = b + 1
      BY <2>1 DEF c, d, Follow, FollowStage
    <3>2. CASE a <= s.overlap
      <4>1. ~(m > Place(s.overlap, 3))
        BY <1>1, <2>1, <3>1, <3>2 DEF Place
      <4> QED
        BY <4>1
    <3>3. CASE ~(a <= s.overlap)
      <4>1. n > Place(s.overlap, 3)
        BY <1>1, <3>3 DEF Place
      <4> QED
        BY <1>8, <4>1 DEF Knows
    <3> QED
      BY <3>2, <3>3
  <2>2. CASE b \notin {1, 2}
    <3>1. b \in 4..13
      BY <2>2 DEF CallPoints
    <3> QED
      BY <3>1, ReadyLate
  <2> QED
    BY <2>1, <2>2
<1>12. Sent(r, n) = n + 1 /\ Sent(r, m)' = m
  BY DEF Sent, Takes
<1> HIDE DEF m, n
<1>13. Knows(s, r, m)'
  <2>1. n + 1 <= m
    BY <1>1, <1>4, <1>5
  <2> QED
    BY <1>1, <1>4, <1>7, <1>8, <1>11, <1>12, <2>1, KnowsLater
<1> QED
  BY <1>4, <1>5, <1>7, <1>8, <1>10, <1>13, TakesMove

(* A rank that is asked for a row it does not own gives up.                *)
LEMMA ReceiveStops ==
  ASSUME NEW s, NEW k, NEW r \in Ranks, NEW a, AtWork(s, k, r, a, 1),
         Takes(s, r, a, 1), Stopped(r)'
  PROVE  IInv'
<1> DEFINE n == Place(a, 1)  m == n + 1
<1>1. /\ s \in Settings /\ a \in Nat /\ n \in Nat /\ s.overlap \in Nat /\ Knows(s, r, n)
  BY AtWorkFacts
<1>2. k[r] = n
  BY AtWorkPlace
<1>3. At(s, r, m)'
  BY DEF At, Gone, Stopped, Takes
<1>4. m > Place(s.overlap, 3) => n > Place(s.overlap, 3)
  BY <1>1 DEF Place
<1>5. Sent(r, n) = m /\ Sent(r, m)' = m
  BY DEF Sent, Takes
<1> HIDE DEF n
<1>6. m \in Nat /\ n < m /\ m <= m
  BY <1>1
<1>7. Quiet(s, m, m) /\ (m > Place(s.overlap, 3) => Settled(s, r))
  BY <1>1, <1>4, <1>6, NoneIn DEF Knows
<1> HIDE DEF m
<1>8. Knows(s, r, m)'
  BY <1>1, <1>5, <1>6, <1>7, KnowsLater
<1>9. k[r] < m /\ Quiet(s, k[r] + 1, m)
  BY <1>2, <1>6, <1>7 DEF m
<1> QED
  BY <1>3, <1>6, <1>8, <1>9, TakesMove

(* What is in the messages of an exchange.                                 *)
LEMMA ReceiveFrame ==
  ASSUME NEW s, NEW k, NEW r \in Ranks, NEW a, NEW b \in CallPoints, AtWork(s, k, r, a, b), Receive(r)
  PROVE  /\ ~Crossed(r) /\ Takes(s, r, a, b)
         /\ \A q \in Others(r) : From(r, q) = Bill(s, a, b, q, r)
         /\ From(r, r) = {}
         /\ \A q \in Others(r) : Joint(s, a, b, q, r) => k[r] < Sent(q, k[q])
<1>1. /\ Holds(s, k) /\ s \in Settings /\ setting = s /\ Shape /\ a \in Nat /\ b \in 0..13
  BY AtWorkFacts
<1>2. Now(r) = StepAt(s, a, b) /\ k[r] = Place(a, b)
  BY DEF AtWork
<1>3. \A q \in Sources(r) : q \in Ranks /\ q # r
  BY DEF Sources, Others
<1>4. ASSUME NEW q \in Ranks, q # r, q \in Sources(r)
      PROVE  Head(mail[<<q, r>>]) = Msg(s, a, b, q, r) /\ k[r] < Sent(q, k[q])
  <2>1. Joint(s, a, b, q, r)
    BY <1>4, PeersJoint
  <2>2. mail[<<q, r>>] # <<>>
    BY <1>4 DEF Receive
  <2> QED
    BY <1>1, <1>2, <1>4, <2>1, <2>2, Taken
<1>5. ~Crossed(r)
  <2> SUFFICES ASSUME NEW q \in Sources(r), Head(mail[<<q, r>>]).call # Now(r) PROVE FALSE
    BY DEF Crossed
  <2>1. Head(mail[<<q, r>>]) = Msg(s, a, b, q, r)
    BY <1>3, <1>4
  <2>2. Msg(s, a, b, q, r).call = StepAt(s, a, b)
    BY DEF Msg
  <2> QED
    BY <1>2, <2>1, <2>2
<1>6. ASSUME NEW q \in Others(r)
      PROVE  From(r, q) = Bill(s, a, b, q, r) /\ (Joint(s, a, b, q, r) => k[r] < Sent(q, k[q]))
  <2>1. q \in Ranks /\ q # r
    BY DEF Others
  <2>2. q \in Sources(r) <=> Joint(s, a, b, q, r)
    BY <2>1, PeersJoint
  <2>3. CASE q \in Sources(r)
    <3>1. Head(mail[<<q, r>>]) = Msg(s, a, b, q, r) /\ k[r] < Sent(q, k[q])
      BY <1>4, <2>1, <2>3
    <3>2. From(r, q) = Bill(s, a, b, q, r)
      BY <2>3, <3>1 DEF From, Msg
    <3> QED
      BY <3>1, <3>2
  <2>4. CASE q \notin Sources(r)
    <3>1. From(r, q) = {} /\ ~Joint(s, a, b, q, r)
      BY <2>2, <2>4 DEF From
    <3>2. Valid(s, a, b) /\ a <= s.overlap + 1
      BY AtWorkFacts
    <3>3. Bill(s, a, b, q, r) = {}
      <4>1. CASE b = 8
        <5>1. Share(s, r, q) = {}
          BY <2>1, <3>1, <3>2, <4>1 DEF Joint, Valid
        <5> QED
          BY <4>1, <5>1 DEF Bill
      <4>2. CASE b = 10
        <5>1. Share(s, q, r) = {}
          BY <2>1, <3>1, <3>2, <4>2 DEF Joint, Valid
        <5> QED
          BY <4>2, <5>1 DEF Bill
      <4>3. CASE b # 8 /\ b # 10
        <5>1. b \in {1, 2, 4, 6, 11, 13}
          BY <4>3 DEF CallPoints
        <5>2. CASE b \in {1, 2, 4}
          BY <2>1, <3>1, <3>2, <5>2 DEF Joint, Valid
        <5>3. CASE b \in {6, 11, 13}
          BY <2>1, <3>1, <3>2, <5>3 DEF Joint, Valid
        <5> QED
          BY <5>1, <5>2, <5>3
      <4> QED
        BY <4>1, <4>2, <4>3
    <3> QED
      BY <3>1, <3>3
  <2> QED
    BY <2>3, <2>4
<1>7. From(r, r) = {}
  BY <1>3 DEF From
<1>8. inside[r] = TRUE /\ inside'[r] = FALSE
  <2>1. PerRank(inside) /\ inside' = [inside EXCEPT ![r] = FALSE] /\ inside[r]
    BY <1>1 DEF Shape, Receive
  <2>2. inside[r] \in BOOLEAN
    BY DEF AtWork, Stands
  <2>3. inside'[r] = FALSE
    BY <2>1, ExceptAt
  <2> QED
    BY <2>1, <2>2, <2>3
<1> DEFINE f(e) == IF e[2] = r /\ e[1] \in Sources(r) THEN Tail(mail[e]) ELSE mail[e]
<1>9. mail' = [e \in Pairs |-> f(e)]
  BY DEF Receive
<1>10. ASSUME NEW p \in Ranks, NEW q \in Ranks, p # q
       PROVE  mail'[<<p, q>>] = IF q = r /\ p \in Sources(r) THEN Tail(mail[<<p, q>>]) ELSE mail[<<p, q>>]
  <2>1. <<p, q>> \in Pairs
    BY <1>10 DEF Pairs
  <2>2. mail'[<<p, q>>] = f(<<p, q>>)
    BY <1>9, <2>1
  <2> QED
    BY <2>2
<1>11. OnlyTouches(r)
  <2>1. /\ Touch(todo, todo', r) /\ Touch(error, error', r) /\ Touch(asked, asked', r)
        /\ Touch(rows, rows', r) /\ Touch(exports, exports', r) /\ Touch(rhs, rhs', r) /\ Touch(y, y', r)
    <3>1. CASE Refused(r)
      <4>1. Fail(r, "not owned") /\ UNCHANGED <<asked, rows, exports, rhs, y>>
        BY <1>5, <3>1 DEF Receive
      <4> QED
        BY <4>1, GoesOrFails, TouchSame
    <3>2. CASE ~Refused(r)
      <4>1. Proceed(r)
        BY <1>5, <3>2 DEF Receive
      <4>2. /\ asked' = IF Now(r) = "ask" THEN [asked EXCEPT ![r] = [q \in Ranks |-> From(r, q)]] ELSE asked
            /\ rows' = IF Now(r) = "answer" THEN [rows EXCEPT ![r] = Answered(r)] ELSE rows
            /\ exports' = IF Now(r) = "lists" THEN [exports EXCEPT ![r] = [q \in Ranks |-> From(r, q)]] ELSE exports
            /\ rhs' = IF Now(r) = "values"
                        THEN [rhs EXCEPT ![r] = ((subdofs[r] \cap Own(r)) \X {turn[r]}) \cup All(r)]
                        ELSE rhs
            /\ y' = IF Now(r) = "return" THEN [y EXCEPT ![r] = @ \cup ToOwn(r)] ELSE y
        BY <1>5, <3>2 DEF Receive
      <4>3. /\ Touch(asked, asked', r) /\ Touch(rows, rows', r) /\ Touch(exports, exports', r)
            /\ Touch(rhs, rhs', r) /\ Touch(y, y', r)
        BY <4>2, TouchIf
      <4>4. Touch(todo, todo', r) /\ Touch(error, error', r)
        BY <4>1, GoesOrFails
      <4> QED
        BY <4>3, <4>4
    <3> QED
      BY <3>1, <3>2
  <2>2. Touch(inside, inside', r)
    BY TouchAt DEF Receive
  <2>3. Touches(r) /\ setting' = setting
    BY <2>1, <2>2, TouchSame DEF Touches, Receive
  <2> HIDE DEF f
  <2>4. mail' = [e \in Pairs |-> mail'[e]]
    BY <1>9
  <2> QED
    BY <1>1, <2>3, <2>4, TouchesOnly
<1>12. ASSUME NEW p \in Ranks, p # r
       PROVE  /\ mail'[<<p, r>>] = IF Joint(s, a, b, p, r) THEN Tail(mail[<<p, r>>]) ELSE mail[<<p, r>>]
              /\ Joint(s, a, b, p, r) => mail[<<p, r>>] # <<>>
  <2>1. p \in Sources(r) <=> Joint(s, a, b, p, r)
    BY <1>12, PeersJoint
  <2>2. p \in Sources(r) => mail[<<p, r>>] # <<>>
    BY DEF Receive
  <2>3. mail'[<<p, r>>] = IF p \in Sources(r) THEN Tail(mail[<<p, r>>]) ELSE mail[<<p, r>>]
    BY <1>10, <1>12
  <2> QED
    BY <2>1, <2>2, <2>3
<1>13. \A p, q \in Ranks : p # q /\ q # r => mail'[<<p, q>>] = mail[<<p, q>>]
  BY <1>10
<1>14. Takes(s, r, a, b)
  BY <1>8, <1>11, <1>12, <1>13 DEF Takes
<1> QED
  BY <1>5, <1>6, <1>7, <1>14

LEMMA WrittenIf ==
  ASSUME NEW c, NEW f, PerRank(f), NEW g, NEW r \in Ranks, NEW v, g = IF c THEN [f EXCEPT ![r] = v] ELSE f
  PROVE  g[r] = IF c THEN v ELSE f[r]
<1>1. CASE c
  BY <1>1, ExceptAt
<1>2. CASE ~c
  BY <1>2
<1> QED
  BY <1>1, <1>2

(* What it writes by the exchange it is.                                   *)
Writes(r) ==
  /\ Proceed(r)
  /\ asked'[r] = IF Now(r) = "ask" THEN [q \in Ranks |-> From(r, q)] ELSE asked[r]
  /\ rows'[r] = IF Now(r) = "answer" THEN Answered(r) ELSE rows[r]
  /\ exports'[r] = IF Now(r) = "lists" THEN [q \in Ranks |-> From(r, q)] ELSE exports[r]
  /\ rhs'[r] = IF Now(r) = "values" THEN ((subdofs[r] \cap Own(r)) \X {turn[r]}) \cup All(r) ELSE rhs[r]
  /\ y'[r] = IF Now(r) = "return" THEN y[r] \cup ToOwn(r) ELSE y[r]
  /\ subdofs' = subdofs /\ frontier' = frontier /\ matrix' = matrix /\ values' = values /\ turn' = turn

LEMMA ReceiveWrites ==
  ASSUME NEW r \in Ranks, Shape, Receive(r), ~Crossed(r), ~Refused(r)
  PROVE  Writes(r)
<1>1. Proceed(r)
  BY DEF Receive
<1>2. /\ asked' = IF Now(r) = "ask" THEN [asked EXCEPT ![r] = [q \in Ranks |-> From(r, q)]] ELSE asked
      /\ rows' = IF Now(r) = "answer" THEN [rows EXCEPT ![r] = Answered(r)] ELSE rows
      /\ exports' = IF Now(r) = "lists" THEN [exports EXCEPT ![r] = [q \in Ranks |-> From(r, q)]] ELSE exports
      /\ rhs' = IF Now(r) = "values"
                  THEN [rhs EXCEPT ![r] = ((subdofs[r] \cap Own(r)) \X {turn[r]}) \cup All(r)]
                  ELSE rhs
      /\ y' = IF Now(r) = "return" THEN [y EXCEPT ![r] = y[r] \cup ToOwn(r)] ELSE y
  BY DEF Receive
<1>3. PerRank(asked) /\ PerRank(rows) /\ PerRank(exports) /\ PerRank(rhs) /\ PerRank(y)
  BY DEF Shape
<1>4. asked'[r] = IF Now(r) = "ask" THEN [q \in Ranks |-> From(r, q)] ELSE asked[r]
  BY <1>2, <1>3, WrittenIf, SMTT(30)
<1>5. rows'[r] = IF Now(r) = "answer" THEN Answered(r) ELSE rows[r]
  BY <1>2, <1>3, WrittenIf, SMTT(30)
<1>6. exports'[r] = IF Now(r) = "lists" THEN [q \in Ranks |-> From(r, q)] ELSE exports[r]
  BY <1>2, <1>3, WrittenIf, SMTT(30)
<1>7. rhs'[r] = IF Now(r) = "values" THEN ((subdofs[r] \cap Own(r)) \X {turn[r]}) \cup All(r) ELSE rhs[r]
  BY <1>2, <1>3, WrittenIf
<1>8. y'[r] = IF Now(r) = "return" THEN y[r] \cup ToOwn(r) ELSE y[r]
  BY <1>2, <1>3, WrittenIf, SMTT(30)
<1>9. subdofs' = subdofs /\ frontier' = frontier /\ matrix' = matrix /\ values' = values /\ turn' = turn
  BY DEF Receive
<1> QED
  BY <1>1, <1>4, <1>5, <1>6, <1>7, <1>8, <1>9 DEF Writes

LEMMA ReceiveAsk ==
  ASSUME NEW s, NEW k, NEW r \in Ranks, NEW a, AtWork(s, k, r, a, 1), Receive(r)
  PROVE  IInv'
<1>1. 1 \in CallPoints /\ 1 \in 1..13
  BY DEF CallPoints
<1>2. /\ s \in Settings /\ setting = s /\ Shape /\ a \in Nat /\ s.overlap \in Nat
      /\ SetUpAt(s, r, a, 1) /\ ApplyAt(s, r, a, 1) /\ a <= s.overlap + 1
  BY AtWorkFacts
<1>3. /\ ~Crossed(r) /\ Takes(s, r, a, 1)
      /\ \A q \in Others(r) : From(r, q) = Bill(s, a, 1, q, r)
  BY <1>1, ReceiveFrame, SMTT(30)
<1>4. CASE Refused(r)
  <2>1. Fail(r, "not owned")
    BY <1>3, <1>4 DEF Receive
  <2>2. Stopped(r)'
    <3> DEFINE why == "not owned"
    <3>1. why # "" /\ why # "crossed" /\ Fail(r, why)
      BY <2>1
    <3> HIDE DEF why
    <3> QED
      BY <1>2, <3>1, Fails
  <2> QED
    BY <1>3, <2>2, ReceiveStops
<1>5. CASE ~Refused(r)
  <2>1. Now(r) = "ask" /\ Now(r) # "answer" /\ Now(r) # "lists" /\ Now(r) # "values" /\ Now(r) # "return"
    BY CallNow
  <2>2. Writes(r)
    BY <1>2, <1>3, <1>5, ReceiveWrites
  <2>3. FollowStage(s, a, 1) = a /\ Follow(s, a, 1) = 2
    BY DEF Follow, FollowStage
  <2>4. /\ asked'[r] = [q \in Ranks |-> From(r, q)] /\ rows'[r] = rows[r] /\ exports'[r] = exports[r]
        /\ rhs'[r] = rhs[r] /\ y'[r] = y[r] /\ Proceed(r)
        /\ subdofs' = subdofs /\ frontier' = frontier /\ matrix' = matrix /\ values' = values /\ turn' = turn
    BY <2>1, <2>2 DEF Writes
  <2>5. ASSUME NEW q \in Others(r)
        PROVE  asked'[r][q] = Asked(s, a, q, r) /\ Asked(s, a, q, r) \subseteq OwnRows(s, r)
    <3>1. q \in Ranks
      BY DEF Others
    <3>2. From(r, q) = Asked(s, a, q, r)
      BY <1>3 DEF Bill
    <3>3. From(r, q) \subseteq All(r) /\ All(r) \subseteq OwnRows(s, r)
      BY <1>2, <1>5, <2>1 DEF All, Refused, Own
    <3> QED
      BY <2>4, <3>1, <3>2, <3>3
  <2>6. SetUpAt(s, r, a, 2)'
    <3>1. /\ subdofs[r] = Reach(s, r, a) /\ (a <= s.overlap => frontier[r] = Edge(s, r, a))
          /\ rows[r] = Before(s, r, a) /\ values[r] = Ver(s, a)
          /\ \A e \in rows[r] : e[1] \in OwnRows(s, OwnerOf(e[1]))
      BY <1>2 DEF SetUpAt
    <3>2. a # s.overlap + 2
      BY <1>2
    <3> QED
      BY <2>4, <2>5, <3>1, <3>2 DEF SetUpAt
  <2>7. ApplyAt(s, r, a, 2)'
    <3>1. 1 \in 0..7 /\ 2 \in 0..7 /\ ~(2 > 4) /\ turn'[r] = turn[r] /\ exports'[r] = exports[r]
      BY <2>4
    <3> QED
      BY <1>2, <3>1, ApplyStays
  <2>8. Comes(s, r, FollowStage(s, a, 1), Follow(s, a, 1))'
    BY <1>1, <2>3, <2>4, <2>6, <2>7, Proceeds
  <2> QED
    BY <1>1, <1>3, <2>8, ReceiveGoes
<1> QED
  BY <1>4, <1>5

(* The answers are the rows wanted that others own, and they own them.     *)
LEMMA AnswersAre ==
  ASSUME NEW s, NEW k, NEW r \in Ranks, NEW a, AtWork(s, k, r, a, 2), Receive(r)
  PROVE  /\ All(r) = (WantAt(s, r, a) \cap Foreign(r)) \X {Ver(s, a)}
         /\ \A e \in All(r) : e[1] \in OwnRows(s, OwnerOf(e[1]))
<1>1. 2 \in CallPoints
  BY DEF CallPoints
<1>2. /\ s \in Settings /\ Holds(s, k) /\ a \in Nat /\ s.overlap \in Nat /\ a <= s.overlap + 1
      /\ Valid(s, a, 2)
  BY AtWorkFacts
<1>3. /\ \A q \in Others(r) : From(r, q) = Bill(s, a, 2, q, r)
      /\ \A q \in Others(r) : Joint(s, a, 2, q, r) => k[r] < Sent(q, k[q])
  BY <1>1, ReceiveFrame
<1>4. \A q \in Others(r) : From(r, q) = Asked(s, a, r, q) \X {Ver(s, a)}
  BY <1>3 DEF Bill
<1>5. WantAt(s, r, a) \subseteq Rows
  BY <1>2, NearInRows DEF WantAt, Wanted, Edge, OwnRows
<1> DEFINE w == WantAt(s, r, a) \cap Foreign(r)  v == Ver(s, a)
<1>6. \A g \in w : OwnerOf(g) \in Others(r) /\ g \in Asked(s, a, r, OwnerOf(g))
  BY <1>5, OwnerIsARank DEF Foreign, Others, Asked
<1>7. \A q \in Others(r) : Asked(s, a, r, q) \subseteq w /\ \A g \in Asked(s, a, r, q) : OwnerOf(g) = q
  BY <1>5 DEF Asked, Foreign, Others
<1> HIDE DEF v, w
<1>8. \A q \in Others(r) : From(r, q) = Asked(s, a, r, q) \X {v}
  BY <1>4 DEF v
<1>9. All(r) = w \X {v}
  <2>1. ASSUME NEW e \in All(r) PROVE e \in w \X {v}
    <3>1. PICK q \in Others(r) : e \in From(r, q)
      BY <2>1 DEF All
    <3> QED
      BY <1>7, <1>8, <3>1
  <2>2. ASSUME NEW e \in w \X {v} PROVE e \in All(r)
    <3>1. PICK g \in w : e = <<g, v>>
      BY <2>2
    <3>2. OwnerOf(g) \in Others(r) /\ e \in From(r, OwnerOf(g))
      BY <1>6, <1>8, <3>1
    <3> QED
      BY <3>2 DEF All
  <2> QED
    BY <2>1, <2>2
<1>10. ASSUME NEW e \in All(r) PROVE e[1] \in OwnRows(s, OwnerOf(e[1]))
  <2>1. PICK g \in w : e = <<g, v>>
    BY <1>9, <1>10
  <2> DEFINE q == OwnerOf(g)
  <2>2. q \in Others(r) /\ g \in Asked(s, a, r, q)
    BY <1>6
  <2> HIDE DEF q
  <2>3. q \in Ranks /\ q # r /\ r \in Others(q)
    BY <2>2 DEF Others
  <2>4. Asking(s, a)
    BY <1>2 DEF Valid
  <2>5. Joint(s, a, 2, q, r)
    BY <1>2, <2>3, <2>4 DEF Joint
  <2>6. k[r] < Sent(q, k[q]) /\ k[r] = Place(a, 2)
    BY <1>3, <2>2, <2>5, AtWorkPlace
  <2>7. Sent(q, k[q]) > Place(a, 2)
    <3>1. Place(a, 2) \in Nat /\ Sent(q, k[q]) \in Nat
      BY <1>2, <2>3 DEF Place, Sent, Holds
    <3> QED
      BY <2>6, <3>1
  <2>8. Answers(s, q, a)
    BY <1>2, <2>3, <2>4, <2>7 DEF Holds, Knows
  <2>9. g \in OwnRows(s, q)
    BY <2>2, <2>3, <2>8 DEF Answers
  <2> QED
    BY <2>1, <2>9 DEF q
<1> QED
  BY <1>9, <1>10 DEF w, v

LEMMA ReceiveAnswer ==
  ASSUME NEW s, NEW k, NEW r \in Ranks, NEW a, AtWork(s, k, r, a, 2), Receive(r)
  PROVE  IInv'
<1>1. 2 \in CallPoints /\ 2 \in 1..13
  BY DEF CallPoints
<1>2. /\ s \in Settings /\ setting = s /\ Shape /\ a \in Nat /\ s.overlap \in Nat
      /\ SetUpAt(s, r, a, 2) /\ ApplyAt(s, r, a, 2) /\ a <= s.overlap + 1
  BY AtWorkFacts
<1>3. ~Crossed(r) /\ Takes(s, r, a, 2)
  BY <1>1, ReceiveFrame
<1>4. Now(r) = "answer" /\ Now(r) # "ask" /\ Now(r) # "lists" /\ Now(r) # "values" /\ Now(r) # "return"
  BY CallNow
<1>5. Writes(r)
  BY <1>2, <1>3, <1>4, ReceiveWrites DEF Refused
<1>6. FollowStage(s, a, 2) = a /\ Follow(s, a, 2) = 3
  BY DEF Follow, FollowStage
<1>7. /\ rows'[r] = Answered(r) /\ exports'[r] = exports[r]
      /\ rhs'[r] = rhs[r] /\ y'[r] = y[r] /\ Proceed(r)
      /\ subdofs' = subdofs /\ frontier' = frontier /\ matrix' = matrix /\ values' = values /\ turn' = turn
  BY <1>4, <1>5 DEF Writes
<1>8. /\ subdofs[r] = Reach(s, r, a) /\ (a <= s.overlap => frontier[r] = Edge(s, r, a))
      /\ rows[r] = Before(s, r, a) /\ values[r] = Ver(s, a)
      /\ \A e \in rows[r] : e[1] \in OwnRows(s, OwnerOf(e[1]))
  BY <1>2 DEF SetUpAt
<1> DEFINE w == WantAt(s, r, a) \cap Foreign(r)  v == Ver(s, a)
<1>9. All(r) = w \X {v} /\ \A e \in All(r) : e[1] \in OwnRows(s, OwnerOf(e[1]))
  BY AnswersAre
<1>10. Got(s, r, a) = Before(s, r, a) \cup (w \X {v}) /\ \A e \in Before(s, r, a) : e = <<e[1], v>>
  BY <1>2, AnswersComplete
<1> HIDE DEF w, v
<1>11. Answered(r) = Got(s, r, a)
  <2>1. Fsts(All(r)) = w
    BY <1>9, FstsOf
  <2>2. Answered(r) = {e \in Before(s, r, a) : e[1] \notin w} \cup (w \X {v})
    BY <1>8, <1>9, <2>1 DEF Answered
  <2>3. \A e \in Before(s, r, a) : e[1] \in w => e \in w \X {v}
    BY <1>10
  <2> QED
    BY <1>10, <2>2, <2>3
<1>12. \A e \in rows'[r] : e[1] \in OwnRows(s, OwnerOf(e[1]))
  BY <1>7, <1>8, <1>9 DEF Answered
<1>13. SetUpAt(s, r, a, 3)'
  <2>1. a # s.overlap + 2
    BY <1>2
  <2> QED
    BY <1>7, <1>8, <1>11, <1>12, <2>1 DEF SetUpAt
<1>14. ApplyAt(s, r, a, 3)'
  <2>1. 2 \in 0..7 /\ 3 \in 0..7 /\ ~(3 > 4) /\ turn'[r] = turn[r] /\ exports'[r] = exports[r]
    BY <1>7
  <2> QED
    BY <1>2, <2>1, ApplyStays
<1>15. Comes(s, r, FollowStage(s, a, 2), Follow(s, a, 2))'
  BY <1>1, <1>6, <1>7, <1>13, <1>14, Proceeds
<1> QED
  BY <1>1, <1>3, <1>15, ReceiveGoes

LEMMA ReceiveLists ==
  ASSUME NEW s, NEW k, NEW r \in Ranks, NEW a, AtWork(s, k, r, a, 4), Receive(r)
  PROVE  IInv'
<1>1. 4 \in CallPoints /\ 4 \in 1..13 /\ 4 \in 4..13
  BY DEF CallPoints
<1>2. /\ s \in Settings /\ setting = s /\ Shape /\ a \in Nat /\ s.overlap \in Nat
      /\ ApplyAt(s, r, a, 4) /\ a \in Applications(s)
  BY <1>1, AtWorkFacts, ReadyLate
<1>3. /\ ~Crossed(r) /\ Takes(s, r, a, 4) /\ From(r, r) = {}
      /\ \A q \in Others(r) : From(r, q) = Bill(s, a, 4, q, r)
  BY <1>1, ReceiveFrame
<1>4. Now(r) = "lists" /\ Now(r) # "ask" /\ Now(r) # "answer" /\ Now(r) # "values" /\ Now(r) # "return"
  BY CallNow
<1>5. Writes(r)
  BY <1>2, <1>3, <1>4, ReceiveWrites DEF Refused
<1>6. FollowStage(s, a, 4) = a /\ Follow(s, a, 4) = 5
  BY DEF Follow, FollowStage
<1>7. /\ rows'[r] = rows[r] /\ exports'[r] = [q \in Ranks |-> From(r, q)] /\ Proceed(r)
      /\ subdofs' = subdofs /\ frontier' = frontier /\ matrix' = matrix /\ values' = values /\ turn' = turn
  BY <1>4, <1>5 DEF Writes
<1>8. \A q \in Ranks : From(r, q) = Share(s, q, r)
  <2>1. \A q \in Others(r) : From(r, q) = Share(s, q, r)
    BY <1>3 DEF Bill
  <2> QED
    BY <1>3, <2>1 DEF Others, Share
<1>9. SetUpSame(r)
  BY <1>7 DEF SetUpSame
<1>10. SetUpAt(s, r, FollowStage(s, a, 4), Follow(s, a, 4))'
  BY <1>1, <1>9, StaysSetUp
<1>11. ApplyAt(s, r, a, 5)'
  <2>1. turn[r] = TurnAt(s, a, 4)
    BY <1>2 DEF ApplyAt
  <2>2. TurnAt(s, a, 4) = TurnAt(s, a, 5)
    BY <1>2, TurnsCount
  <2>3. exports'[r] = [q \in Ranks |-> Share(s, q, r)]
    BY <1>7, <1>8
  <2> QED
    BY <1>7, <2>1, <2>2, <2>3 DEF ApplyAt
<1>12. Comes(s, r, FollowStage(s, a, 4), Follow(s, a, 4))'
  BY <1>1, <1>6, <1>7, <1>10, <1>11, Proceeds
<1> QED
  BY <1>1, <1>3, <1>12, ReceiveGoes

LEMMA ReceiveCoarse ==
  ASSUME NEW s, NEW k, NEW r \in Ranks, NEW a, NEW b \in {6, 11, 13}, AtWork(s, k, r, a, b), Receive(r)
  PROVE  IInv'
<1>1. b \in CallPoints /\ b \in 1..13 /\ b \in 4..13 /\ b \in 5..13
  BY DEF CallPoints
<1>2. /\ s \in Settings /\ setting = s /\ Shape /\ a \in Nat /\ s.overlap \in Nat
      /\ ApplyAt(s, r, a, b) /\ a \in Applications(s) /\ Valid(s, a, b)
  BY <1>1, AtWorkFacts, ReadyLate
<1>3. ~Crossed(r) /\ Takes(s, r, a, b)
  BY <1>1, ReceiveFrame
<1>4. Now(r) # "lists" /\ Now(r) # "ask" /\ Now(r) # "answer" /\ Now(r) # "values" /\ Now(r) # "return"
  BY CallNow
<1>5. Writes(r)
  BY <1>2, <1>3, <1>4, ReceiveWrites DEF Refused
<1>6. /\ rows'[r] = rows[r] /\ exports'[r] = exports[r] /\ y'[r] = y[r] /\ Proceed(r)
      /\ subdofs' = subdofs /\ frontier' = frontier /\ matrix' = matrix /\ values' = values /\ turn' = turn
  BY <1>4, <1>5 DEF Writes
<1>7. SetUpSame(r)
  BY <1>6 DEF SetUpSame
<1> DEFINE c == FollowStage(s, a, b)  d == Follow(s, a, b)
<1>8. SetUpAt(s, r, c, d)'
  BY <1>1, <1>7, StaysSetUp
<1>9. c \in Nat /\ d \in 0..13
  BY <1>1, <1>2, ValidFollow
<1>10. \/ b \in {5, 6} /\ c = a /\ d \in {6, 7}
       \/ b > 10 /\ c = a /\ d > 10
       \/ b > 10 /\ c = a + 1 /\ d = 0
  BY DEF Follow, FollowStage
<1>11. turn'[r] = turn[r]
  BY <1>6
<1>12. ApplyAt(s, r, c, d)'
  <2> HIDE DEF c, d
  <2> QED
    BY <1>1, <1>2, <1>6, <1>9, <1>10, <1>11, ApplySame
<1>13. Comes(s, r, c, d)'
  BY <1>1, <1>6, <1>8, <1>12, Proceeds
<1> QED
  BY <1>1, <1>3, <1>13, ReceiveGoes

LEMMA ReceiveValues ==
  ASSUME NEW s, NEW k, NEW r \in Ranks, NEW a, AtWork(s, k, r, a, 8), Receive(r)
  PROVE  IInv'
<1>1. 8 \in CallPoints /\ 8 \in 1..13 /\ 8 \in 4..13 /\ 8 \in 8..13 /\ 9 \in 8..13
  BY DEF CallPoints
<1>2. /\ s \in Settings /\ setting = s /\ Shape /\ a \in Nat /\ s.overlap \in Nat
      /\ ApplyAt(s, r, a, 8) /\ SetUpAt(s, r, a, 8) /\ a \in Applications(s)
  <2>1. a \in Applications(s)
    BY <1>1, ReadyLate
  <2> QED
    BY <2>1, AtWorkFacts
<1>3. /\ ~Crossed(r) /\ Takes(s, r, a, 8)
      /\ \A q \in Others(r) : From(r, q) = Bill(s, a, 8, q, r)
  BY <1>1, ReceiveFrame, ZenonT(30)
<1>4. Now(r) = "values" /\ Now(r) # "ask" /\ Now(r) # "answer" /\ Now(r) # "lists" /\ Now(r) # "return"
  BY CallNow
<1>5. Writes(r)
  BY <1>2, <1>3, <1>4, ReceiveWrites DEF Refused
<1>6. FollowStage(s, a, 8) = a /\ Follow(s, a, 8) = 9
  BY DEF Follow, FollowStage
<1>7. /\ rows'[r] = rows[r] /\ exports'[r] = exports[r] /\ Proceed(r)
      /\ rhs'[r] = ((subdofs[r] \cap Own(r)) \X {turn[r]}) \cup All(r)
      /\ subdofs' = subdofs /\ frontier' = frontier /\ matrix' = matrix /\ values' = values /\ turn' = turn
  BY <1>4, <1>5 DEF Writes
<1>8. SetUpSame(r)
  BY <1>7 DEF SetUpSame
<1>9. SetUpAt(s, r, FollowStage(s, a, 8), Follow(s, a, 8))'
  BY <1>1, <1>8, StaysSetUp
<1> DEFINE t == TurnAt(s, a, 8)  near == Near(s, r, s.overlap)  own == OwnRows(s, r)
           far == {g \in near : OwnerOf(g) # r}
<1>10. turn[r] = t /\ exports[r] = [q \in Ranks |-> Share(s, q, r)] /\ TurnAt(s, a, 9) = t
  BY <1>1, <1>2, TurnsCount DEF ApplyAt
<1>11. subdofs[r] = near /\ own \subseteq near /\ Own(r) = own
  <2>1. ~(a < s.overlap)
    BY <1>2 DEF Applications
  <2>2. subdofs[r] = near
    BY <1>2, <2>1 DEF SetUpAt, Reach
  <2> QED
    BY <1>2, <2>2, OwnNear DEF Own
<1>12. \A q \in Others(r) : From(r, q) = Share(s, r, q) \X {t}
  BY <1>3 DEF Bill
<1>13. near \subseteq Rows
  BY <1>2, NearInRows
<1> HIDE DEF t
<1>14. All(r) = far \X {t}
  <2>1. ASSUME NEW e \in All(r) PROVE e \in far \X {t}
    <3>1. PICK q \in Others(r) : e \in From(r, q)
      BY <2>1 DEF All
    <3>2. q # r /\ Share(s, r, q) \subseteq far
      BY DEF Share, Others
    <3> QED
      BY <1>12, <3>1, <3>2
  <2>2. ASSUME NEW e \in far \X {t} PROVE e \in All(r)
    <3>1. PICK g \in far : e = <<g, t>>
      BY <2>2
    <3>2. OwnerOf(g) \in Others(r) /\ g \in Share(s, r, OwnerOf(g))
      BY <1>13, <3>1, OwnerIsARank DEF Others, Share
    <3>3. e \in From(r, OwnerOf(g))
      BY <1>12, <3>1, <3>2
    <3> QED
      BY <3>2, <3>3 DEF All
  <2> QED
    BY <2>1, <2>2
<1>15. rhs'[r] = Pulled(s, r) \X {t}
  <2>1. rhs'[r] = (own \X {t}) \cup (far \X {t})
    <3>1. subdofs[r] \cap Own(r) = own
      BY <1>11
    <3> QED
      BY <1>7, <1>10, <1>14, <3>1
  <2>2. Pulled(s, r) = own \cup far
    BY DEF Pulled
  <2> HIDE DEF own, far
  <2>3. (own \X {t}) \cup (far \X {t}) = (own \cup far) \X {t}
    OBVIOUS
  <2> QED
    BY <2>1, <2>2, <2>3
<1>16. ApplyAt(s, r, a, 9)'
  BY <1>7, <1>10, <1>15 DEF ApplyAt
<1>17. Comes(s, r, FollowStage(s, a, 8), Follow(s, a, 8))'
  BY <1>1, <1>6, <1>7, <1>9, <1>16, Proceeds
<1> QED
  BY <1>1, <1>3, <1>17, ReceiveGoes

LEMMA ReceiveReturn ==
  ASSUME NEW s, NEW k, NEW r \in Ranks, NEW a, AtWork(s, k, r, a, 10), Receive(r)
  PROVE  IInv'
<1>1. 10 \in CallPoints /\ 10 \in 1..13 /\ 10 \in 4..13 /\ 10 \in 8..13 /\ 11 \in 8..13
  BY DEF CallPoints
<1>2. /\ s \in Settings /\ setting = s /\ Shape /\ a \in Nat /\ s.overlap \in Nat
      /\ ApplyAt(s, r, a, 10) /\ a \in Applications(s) /\ Valid(s, a, 10)
  BY <1>1, AtWorkFacts, ReadyLate
<1>3. /\ ~Crossed(r) /\ Takes(s, r, a, 10)
      /\ \A q \in Others(r) : From(r, q) = Bill(s, a, 10, q, r)
  BY <1>1, ReceiveFrame
<1>4. Now(r) = "return" /\ Now(r) # "ask" /\ Now(r) # "answer" /\ Now(r) # "lists" /\ Now(r) # "values"
  BY CallNow
<1>5. Writes(r)
  BY <1>2, <1>3, <1>4, ReceiveWrites DEF Refused
<1>6. /\ rows'[r] = rows[r] /\ exports'[r] = exports[r] /\ Proceed(r)
      /\ y'[r] = y[r] \cup ToOwn(r)
      /\ subdofs' = subdofs /\ frontier' = frontier /\ matrix' = matrix /\ values' = values /\ turn' = turn
  BY <1>4, <1>5 DEF Writes
<1>7. SetUpSame(r)
  BY <1>6 DEF SetUpSame
<1> DEFINE c == FollowStage(s, a, 10)  d == Follow(s, a, 10)  t == TurnAt(s, a, 10)
<1>8. SetUpAt(s, r, c, d)'
  BY <1>1, <1>7, StaysSetUp
<1>9. /\ turn[r] = t /\ exports[r] = [q \in Ranks |-> Share(s, q, r)]
      /\ y[r] = {<<g, r, t>> : g \in OwnRows(s, r)}
  BY <1>2 DEF ApplyAt
<1>10. \A q \in Others(r) : From(r, q) = {<<g, q, t>> : g \in Share(s, q, r)}
  BY <1>3 DEF Bill
<1>11. (c = a /\ d = 11) \/ (c = a + 1 /\ d = 0)
  BY DEF Follow, FollowStage
<1>12. TurnAt(s, c, d) = t
  <2>1. TurnAt(s, a, 11) = t /\ TurnAt(s, a + 1, 0) = t
    BY <1>1, <1>2, TurnsCount
  <2> QED
    BY <1>11, <2>1
<1>13. s.mode = "asm" /\ Own(r) = OwnRows(s, r)
  BY <1>2 DEF Valid, Own
<1> HIDE DEF t, c, d
<1>14. y'[r] = Final(s, r, t)
  <2>1. ASSUME NEW e \in y'[r] PROVE e \in Final(s, r, t)
    <3>1. CASE e \in y[r]
      <4>1. PICK g \in OwnRows(s, r) : e = <<g, r, t>>
        BY <1>9, <3>1
      <4>2. r \in Adding(s, r, g)
        BY DEF Adding
      <4>3. e \in {<<g, q, t>> : q \in Adding(s, r, g)}
        BY <4>1, <4>2
      <4> QED
        BY <4>3 DEF Final
    <3>2. CASE e \in ToOwn(r)
      <4>1. e \in All(r) /\ e[1] \in OwnRows(s, r)
        BY <1>13, <3>2 DEF ToOwn
      <4>2. PICK q \in Others(r) : e \in From(r, q)
        BY <4>1 DEF All
      <4>3. PICK g \in Share(s, q, r) : e = <<g, q, t>>
        BY <1>10, <4>2
      <4>4. g \in OwnRows(s, r) /\ q \in Adding(s, r, g)
        BY <1>13, <4>1, <4>3 DEF Adding, Others
      <4>5. e \in {<<g, p, t>> : p \in Adding(s, r, g)}
        BY <4>3, <4>4
      <4> QED
        BY <4>4, <4>5 DEF Final
    <3> QED
      BY <1>6, <2>1, <3>1, <3>2
  <2>2. ASSUME NEW e \in Final(s, r, t) PROVE e \in y'[r]
    <3>1. PICK g \in OwnRows(s, r) : e \in {<<g, q, t>> : q \in Adding(s, r, g)}
      BY <2>2 DEF Final
    <3>2. PICK q \in Adding(s, r, g) : e = <<g, q, t>>
      BY <3>1
    <3>3. CASE q = r
      BY <1>6, <1>9, <3>2, <3>3
    <3>4. CASE q # r
      <4>1. q \in Others(r) /\ g \in Share(s, q, r)
        BY <3>2, <3>4 DEF Adding, Others
      <4>2. e \in From(r, q)
        BY <1>10, <3>2, <4>1
      <4>3. e \in All(r) /\ e[1] \in Own(r)
        BY <1>13, <3>2, <4>1, <4>2 DEF All
      <4> QED
        BY <1>6, <4>3 DEF ToOwn
    <3> QED
      BY <3>3, <3>4
  <2> QED
    BY <2>1, <2>2
<1>15. ApplyAt(s, r, c, d)'
  <2>1. d # 9 /\ d # 10
    BY <1>11
  <2>2. turn'[r] = t /\ exports'[r] = [q \in Ranks |-> Share(s, q, r)]
    BY <1>6, <1>9
  <2> QED
    BY <1>12, <1>14, <2>1, <2>2 DEF ApplyAt
<1>16. Comes(s, r, c, d)'
  BY <1>1, <1>6, <1>8, <1>15, Proceeds DEF c, d
<1> QED
  BY <1>1, <1>3, <1>16, ReceiveGoes DEF c, d

LEMMA ReceiveStep ==
  ASSUME NEW s, NEW k, Holds(s, k), NEW r \in Ranks, Receive(r)
  PROVE  IInv'
<1>1. inside[r]
  BY DEF Receive
<1>2. todo[r] # <<>>
  BY <1>1, WorksInside
<1>3. PICK a \in Nat, b \in 0..13 : AtWork(s, k, r, a, b)
  BY <1>2, Here
<1>4. b \in CallPoints
  BY <1>1, <1>3 DEF AtWork, Stands
<1>5. CASE b = 1
  BY <1>3, <1>5, ReceiveAsk
<1>6. CASE b = 2
  BY <1>3, <1>6, ReceiveAnswer
<1>7. CASE b = 4
  BY <1>3, <1>7, ReceiveLists
<1>8. CASE b = 8
  BY <1>3, <1>8, ReceiveValues
<1>9. CASE b = 10
  BY <1>3, <1>9, ReceiveReturn
<1>10. CASE b \in {6, 11, 13}
  BY <1>3, <1>10, ReceiveCoarse
<1> QED
  BY <1>4, <1>5, <1>6, <1>7, <1>8, <1>9, <1>10 DEF CallPoints

------------------------------------------------------------------------------
(* The invariant holds at first.                                           *)
LEMMA StartsShaped ==
  ASSUME Init
  PROVE  Shape
BY DEF Init, Shape, PerRank

LEMMA StartsSetUp ==
  ASSUME Init, NEW r \in Ranks
  PROVE  SetUpAt(setting, r, 0, 0) /\ ApplyAt(setting, r, 0, 0)
<1> DEFINE s == setting
<1>1. s \in Settings /\ s.overlap \in Nat
  BY OverlapIsNat DEF Init
<1>2. /\ subdofs[r] = OwnRows(s, r) /\ frontier[r] = OwnRows(s, r)
      /\ rows[r] = {} /\ values[r] = 0 /\ turn[r] = 0
  BY DEF Init, Own
<1>3. 0 \in Nat /\ 0 <= s.overlap /\ ~(0 > s.overlap) /\ 0 # s.overlap + 1 /\ 0 # s.overlap + 2
  BY <1>1
<1>4. Reach(s, r, 0) = OwnRows(s, r) /\ Edge(s, r, 0) = OwnRows(s, r)
  <2>1. Reach(s, r, 0) = Near(s, r, 0)
    BY <1>1 DEF Reach
  <2>2. Near(s, r, 0) = OwnRows(s, r)
    BY <1>1, NearStep
  <2> QED
    BY <2>1, <2>2 DEF Edge
<1>5. Before(s, r, 0) = {} /\ Ver(s, 0) = 0 /\ TurnAt(s, 0, 0) = 0
  BY <1>1, <1>3 DEF Before, Fetched, Ver, TurnAt
<1> HIDE DEF s
<1>6. SetUpAt(s, r, 0, 0)
  BY <1>2, <1>3, <1>4, <1>5 DEF SetUpAt
<1>7. ApplyAt(s, r, 0, 0)
  BY <1>2, <1>3, <1>5 DEF ApplyAt
<1> QED
  BY <1>6, <1>7 DEF s

LEMMA StartsAt ==
  ASSUME Init, NEW r \in Ranks
  PROVE  At(setting, r, 0) /\ Knows(setting, r, 0)
<1> DEFINE s == setting
<1>1. s \in Settings /\ s.overlap \in Nat
  BY OverlapIsNat DEF Init
<1>2. error[r] = "" /\ inside[r] = FALSE /\ todo[r] = Plan
  BY DEF Init
<1>3. todo[r] = Rest(s, 0, 0)
  BY <1>1, <1>2, PlanIsAhead DEF Rest
<1>4. Valid(s, 0, 0)
  BY <1>1 DEF Valid
<1>5. Stands(s, r, 0, 0)
  BY <1>2, <1>3, <1>4, StartsSetUp DEF Stands
<1>6. 0 = Place(0, 0) /\ 0 \in Nat /\ 0 \in 0..13
  BY DEF Place
<1>7. At(s, r, 0)
  BY <1>2, <1>5, <1>6 DEF At
<1>8. ASSUME NEW a \in Nat PROVE ~(0 > Place(a, 2)) /\ ~(0 > Place(a, 3))
  BY <1>8 DEF Place
<1>9. Sent(r, 0) = 0
  BY <1>2 DEF Sent
<1>10. Knows(s, r, 0)
  BY <1>1, <1>8, <1>9 DEF Knows
<1> QED
  BY <1>7, <1>10

LEMMA StartsInv ==
  ASSUME Init, \A s \in Settings : AskingAlike(s)
  PROVE  IInv
<1> DEFINE s == setting  k == [r \in Ranks |-> 0]
<1>1. s \in Settings /\ AskingAlike(s)
  BY DEF Init
<1>2. k \in [Ranks -> Nat] /\ \A r \in Ranks : k[r] = 0
  OBVIOUS
<1>3. \A r \in Ranks : At(s, r, 0) /\ Knows(s, r, 0) /\ inside[r] = FALSE
  BY StartsAt DEF Init
<1> HIDE DEF k
<1>4. ASSUME NEW p \in Ranks, NEW q \in Ranks, p # q
      PROVE  Carries(s, p, q, mail[<<p, q>>], Pending(s, k, p, q)) /\ Synced(s, k, p, q)
  <2>1. <<p, q>> \in Pairs
    BY <1>4 DEF Pairs
  <2>2. mail[<<p, q>>] = <<>>
    BY <2>1 DEF Init
  <2>3. Sent(p, k[p]) = 0 /\ k[q] = 0
    BY <1>2, <1>3 DEF Sent
  <2>4. \A n \in Nat : ~(n < 0)
    OBVIOUS
  <2>5. Pending(s, k, p, q) = {} /\ Synced(s, k, p, q)
    BY <2>3, <2>4 DEF Pending, Synced
  <2> QED
    BY <2>2, <2>5, CarriesNone
<1>5. \A r \in Ranks : At(s, r, k[r]) /\ Knows(s, r, k[r])
  BY <1>2, <1>3
<1>6. Holds(s, k)
  BY <1>1, <1>2, <1>4, <1>5, StartsShaped DEF Holds
<1> QED
  BY <1>6 DEF IInv

(* Every step keeps it.                                                    *)
LEMMA OwnStep ==
  ASSUME NEW s, NEW k, Holds(s, k), NEW r \in Ranks,
         \/ Send(r) \/ Sweep(r) \/ Expand(r) \/ Complete(r) \/ Build(r) \/ Factor(r) \/ Refresh(r)
         \/ BeginApply(r) \/ Solve(r) \/ CoarseSolve(r)
  PROVE  IInv'
<1>1. Now(r) # "done"
  <2>1. "done" \notin Calls
    BY DEF Calls, DenseCalls
  <2> QED
    BY <2>1 DEF Send, Sweep, Expand, Complete, Build, Factor, Refresh, BeginApply, Solve, CoarseSolve
<1>2. todo[r] # <<>>
  BY <1>1 DEF Now
<1>3. PICK a \in Nat, b \in 0..13 : AtWork(s, k, r, a, b)
  BY <1>2, Here
<1>4. CASE Send(r)
  BY <1>3, <1>4, SendStep
<1>5. CASE Sweep(r)
  BY <1>3, <1>5, SweepStep
<1>6. CASE Expand(r)
  BY <1>3, <1>6, ExpandStep
<1>7. CASE Complete(r)
  BY <1>3, <1>7, CompleteStep
<1>8. CASE Build(r)
  BY <1>3, <1>8, BuildStep
<1>9. CASE Factor(r)
  BY <1>3, <1>9, FactorStep
<1>10. CASE Refresh(r)
  BY <1>3, <1>10, RefreshStep
<1>11. CASE BeginApply(r)
  BY <1>3, <1>11, BeginApplyStep
<1>12. CASE Solve(r)
  BY <1>3, <1>12, SolveStep
<1>13. CASE CoarseSolve(r)
  BY <1>3, <1>13, CoarseSolveStep
<1> QED
  BY <1>4, <1>5, <1>6, <1>7, <1>8, <1>9, <1>10, <1>11, <1>12, <1>13

LEMMA NoStep ==
  ASSUME NEW s, NEW k, Holds(s, k), UNCHANGED vars
  PROVE  IInv'
<1>1. /\ setting' = setting /\ mail' = mail /\ inside' = inside
      /\ \A q \in Ranks : Untouched(q)
  BY DEF vars, Untouched
<1>2. Shape'
  <2>1. Shape
    BY DEF Holds
  <2> QED
    BY <2>1 DEF vars, Shape, PerRank
<1>3. ASSUME NEW q \in Ranks PROVE At(s, q, k[q])' /\ Knows(s, q, k[q])'
  <2>1. At(s, q, k[q]) /\ Knows(s, q, k[q]) /\ Untouched(q) /\ inside'[q] = inside[q]
    BY <1>1 DEF Holds
  <2> QED
    BY <2>1, AtFrame, KnowsFrame
<1>4. ASSUME NEW p \in Ranks, NEW q \in Ranks, p # q
      PROVE  (Carries(s, p, q, mail[<<p, q>>], Pending(s, k, p, q)) /\ Synced(s, k, p, q))'
  <2>1. Carries(s, p, q, mail[<<p, q>>], Pending(s, k, p, q)) /\ Synced(s, k, p, q)
    BY <1>4 DEF Holds
  <2>2. Sent(p, k[p])' = Sent(p, k[p])
    BY <1>1 DEF Sent
  <2>3. Pending(s, k, p, q)' = Pending(s, k, p, q)
    BY <2>2 DEF Pending
  <2>4. Synced(s, k, p, q)'
    BY <2>1, <2>2 DEF Synced
  <2>5. Carries(s, p, q, mail[<<p, q>>], Pending(s, k, p, q))'
    BY <1>1, <2>1, <2>3
  <2> QED
    BY <2>4, <2>5
<1>5. Holds(s, k)'
  BY <1>1, <1>2, <1>3, <1>4 DEF Holds
<1> QED
  BY <1>5 DEF IInv

LEMMA Inductive ==
  ASSUME IInv, [Next]_vars
  PROVE  IInv'
<1>1. PICK s, k : Holds(s, k)
  BY DEF IInv
<1>2. CASE UNCHANGED vars
  BY <1>1, <1>2, NoStep
<1>3. ASSUME NEW r \in Ranks, Rank(r) PROVE IInv'
  <2>1. CASE Receive(r)
    BY <1>1, <2>1, ReceiveStep
  <2>2. CASE \/ Send(r) \/ Sweep(r) \/ Expand(r) \/ Complete(r) \/ Build(r) \/ Factor(r) \/ Refresh(r)
             \/ BeginApply(r) \/ Solve(r) \/ CoarseSolve(r)
    BY <1>1, <2>2, OwnStep
  <2> QED
    BY <1>3, <2>1, <2>2 DEF Rank
<1> QED
  BY <1>2, <1>3 DEF Next

LEMMA Invariance ==
  ASSUME \A s \in Settings : AskingAlike(s)
  PROVE  Spec => []IInv
<1>1. Init => IInv
  BY StartsInv
<1>2. IInv /\ [Next]_vars => IInv'
  BY Inductive
<1> QED
  BY <1>1, <1>2, PTL DEF Spec

------------------------------------------------------------------------------
(* What the invariant says of the properties.                              *)
LEMMA NeverCrossed ==
  ASSUME IInv
  PROVE  CallsMatch
<1>1. PICK s, k : Holds(s, k)
  BY DEF IInv
<1>2. ASSUME NEW r \in Ranks PROVE error[r] # "crossed"
  <2>1. At(s, r, k[r])
    BY <1>1 DEF Holds
  <2>2. CASE error[r] = ""
    BY <2>2
  <2>3. CASE error[r] # ""
    BY <2>1, <2>3 DEF At, Gone
  <2> QED
    BY <2>2, <2>3
<1> QED
  BY <1>2 DEF CallsMatch

(* Where a rank is that has not given up.                                  *)
StaysAt(s, k, r, a, b) ==
  /\ k[r] = Place(a, b) /\ Valid(s, a, b) /\ SetUpAt(s, r, a, b) /\ ApplyAt(s, r, a, b)
  /\ \/ a <= s.overlap + 1 /\ Now(r) = StepAt(s, a, b)
     \/ a = s.overlap + 2 /\ b = 0 /\ Now(r) = "done"

LEMMA LatePlace ==
  ASSUME NEW s, s.overlap \in Nat, NEW k, NEW r, NEW a \in Nat, NEW b \in 0..13, StaysAt(s, k, r, a, b)
  PROVE  /\ b > 6 \/ (a = s.overlap + 2 /\ b = 0) => k[r] > Place(s.overlap, 3)
         /\ b > 10 \/ (b = 0 /\ a > s.overlap) => k[r] > Place(s.overlap, 4)
<1>1. k[r] = Place(a, b) /\ Valid(s, a, b)
  BY DEF StaysAt
<1>2. b > 6 \/ (a = s.overlap + 2 /\ b = 0) => Place(a, b) > Place(s.overlap, 3)
  BY <1>1 DEF Valid, Applications, Place
<1>3. b > 10 \/ (b = 0 /\ a > s.overlap) => Place(a, b) > Place(s.overlap, 4)
  BY <1>1 DEF Valid, Applications, Place
<1> QED
  BY <1>1, <1>2, <1>3

LEMMA PointsLate ==
  /\ 9 \in 4..13
  /\ \A b \in 0..13 : (b > 6 => b # 0 /\ b > 3) /\ (b > 10 => b > 4)
OBVIOUS

LEMMA StagesDiffer ==
  ASSUME NEW n \in Nat, NEW a \in Nat
  PROVE  /\ a = n + 2 => a # n + 1 /\ a > n
         /\ ~(a < n) /\ a # n => a > n
OBVIOUS

LEMMA LastStage ==
  ASSUME NEW s, s.overlap \in Nat, NEW a \in Nat, NEW b \in 0..13, Valid(s, a, b),
         ~(a <= s.overlap + 1)
  PROVE  a = s.overlap + 2 /\ b = 0
BY DEF Valid, Applications

LEMMA SoundPlace ==
  ASSUME NEW s, NEW k, Holds(s, k), NEW r \in Ranks, error[r] = ""
  PROVE  \E a \in Nat, b \in 0..13 : StaysAt(s, k, r, a, b)
<1>1. s.overlap \in Nat
  BY OverlapIsNat DEF Holds
<1>2. CASE todo[r] # <<>>
  <2>1. PICK a \in Nat, b \in 0..13 : AtWork(s, k, r, a, b)
    BY <1>2, Here
  <2>2. /\ k[r] = Place(a, b) /\ a <= s.overlap + 1
        /\ Valid(s, a, b) /\ SetUpAt(s, r, a, b) /\ ApplyAt(s, r, a, b)
    <3>1. a <= s.overlap + 1 /\ Valid(s, a, b) /\ SetUpAt(s, r, a, b) /\ ApplyAt(s, r, a, b)
      BY <2>1, AtWorkFacts
    <3>2. k[r] = Place(a, b)
      BY <2>1, Zenon DEF AtWork
    <3> QED
      BY <3>1, <3>2
  <2>3. Now(r) = StepAt(s, a, b)
    BY <2>1 DEF AtWork
  <2> QED
    BY <2>2, <2>3 DEF StaysAt
<1>3. CASE todo[r] = <<>>
  <2>1. PICK a \in Nat, b \in 0..13 : k[r] = Place(a, b) /\ Stands(s, r, a, b)
    BY DEF Holds, At
  <2>2. Valid(s, a, b) /\ todo[r] = Rest(s, a, b) /\ SetUpAt(s, r, a, b) /\ ApplyAt(s, r, a, b)
    BY <2>1 DEF Stands
  <2>3. ~(a <= s.overlap + 1)
    <3> SUFFICES ASSUME a <= s.overlap + 1 PROVE FALSE
      OBVIOUS
    <3> DEFINE x == StepAt(s, a, b)  n == Rest(s, FollowStage(s, a, b), Follow(s, a, b))
    <3>1. Rest(s, a, b) = Do(x, n) /\ x \in Names /\ n \in Seq(Names)
      BY <2>2, RestStep DEF Holds
    <3> HIDE DEF x, n
    <3>2. Rest(s, a, b) # <<>>
      BY <3>1, DoFirst
    <3> QED
      BY <1>3, <2>2, <3>2
  <2>4. a = s.overlap + 2 /\ b = 0
    BY <1>1, <2>2, <2>3, LastStage
  <2>5. Now(r) = "done"
    BY <1>3 DEF Now
  <2> QED
    BY <2>1, <2>2, <2>4, <2>5 DEF StaysAt
<1> QED
  BY <1>2, <1>3

LEMMA Points ==
  ASSUME NEW b \in 0..13
  PROVE  b = 0 \/ b \in {1, 2, 3} \/ b \in {4, 5, 6} \/ b \in {7, 8, 9} \/ b = 10 \/ b > 10
OBVIOUS

UseNames ==
  {"apply", "values", "solve", "return", "coarse rhs", "coarse solve", "coarse solution", "done"}
LEMMA StepsInUse ==
  ASSUME NEW s, NEW a, NEW b \in 0..13, StepAt(s, a, b) \in UseNames
  PROVE  b > 6
<1>1. b # 0
  BY DEF StepAt, UseNames
<1>2. b \notin {1, 2, 3}
  BY DEF StepAt, UseNames
<1>3. b \notin {4, 5, 6}
  BY DEF StepAt, UseNames
<1> QED
  BY <1>1, <1>2, <1>3

AfterNames == {"coarse rhs", "coarse solve", "coarse solution", "refresh", "done"}
LEMMA StepsAfter ==
  ASSUME NEW s, NEW a, NEW b \in 0..13, StepAt(s, a, b) \in AfterNames
  PROVE  b > 10 \/ (b = 0 /\ ~(a < s.overlap) /\ a # s.overlap)
<1>1. b = 0 => ~(a < s.overlap) /\ a # s.overlap
  BY DEF StepAt, AfterNames
<1>2. b \notin {1, 2, 3}
  BY DEF StepAt, AfterNames
<1>3. b \notin {4, 5, 6}
  BY DEF StepAt, AfterNames
<1>4. b \notin {7, 8, 9}
  BY DEF StepAt, AfterNames
<1>5. b # 10
  BY DEF StepAt, AfterNames
<1> QED
  BY <1>1, <1>2, <1>3, <1>4, <1>5, Points

LEMMA SettledExact ==
  ASSUME NEW s \in Settings, NEW r \in Ranks, Settled(s, r), setting = s
  PROVE  Near(s, r, s.overlap) = Subdomain(r)
BY NearExact DEF Settled, Subdomain

LEMMA KnownSettled ==
  ASSUME NEW s, NEW k, Holds(s, k), NEW r \in Ranks, k[r] > Place(s.overlap, 3)
  PROVE  Settled(s, r)
BY DEF Holds, Knows

LEMMA WholeSubdomain ==
  ASSUME IInv
  PROVE  SubdomainExact
<1>1. PICK s, k : Holds(s, k)
  BY DEF IInv
<1>2. SUFFICES ASSUME NEW r \in Ranks, InUse(r) PROVE matrix[r] = Subdomain(r) \X {values[r]}
  BY DEF SubdomainExact
<1>3. s \in Settings /\ s.overlap \in Nat /\ setting = s /\ error[r] = ""
  BY <1>1, <1>2, OverlapIsNat DEF Holds, InUse, Sound
<1>4. PICK a \in Nat, b \in 0..13 : StaysAt(s, k, r, a, b)
  BY <1>1, <1>3, SoundPlace
<1>5. b > 6 \/ (a = s.overlap + 2 /\ b = 0)
  <2>1. Now(r) \in UseNames
    BY <1>2 DEF InUse, UseNames
  <2>2. Now(r) = StepAt(s, a, b) \/ (a = s.overlap + 2 /\ b = 0)
    BY <1>4 DEF StaysAt
  <2> QED
    BY <2>1, <2>2, StepsInUse
<1>6. k[r] > Place(s.overlap, 3)
  BY <1>3, <1>4, <1>5, LatePlace
<1>7. Settled(s, r)
  BY <1>1, <1>6, KnownSettled
<1>8. Near(s, r, s.overlap) = Subdomain(r)
  BY <1>3, <1>7, SettledExact
<1>9. ~(a = s.overlap + 1 /\ b = 0) /\ (b > 3 \/ a = s.overlap + 2)
  BY <1>3, <1>5, StagesDiffer, PointsLate
<1>10. matrix[r] = Near(s, r, s.overlap) \X {Ver(s, a)} /\ values[r] = Ver(s, a)
  BY <1>4, <1>9 DEF StaysAt, SetUpAt
<1> QED
  BY <1>8, <1>10

(* After the exchange of lists, whom a rank exchanges values with.         *)
LEMMA SharesAre ==
  ASSUME NEW s, NEW k, Holds(s, k), NEW r \in Ranks, k[r] > Place(s.overlap, 4),
         NEW g \in OwnRows(s, r), NEW q \in Ranks
  PROVE  /\ g \in Subdomain(r)
         /\ q # r => (g \in Share(s, q, r) <=> g \in Subdomain(q))
<1>1. s \in Settings /\ s.overlap \in Nat /\ setting = s /\ k \in [Ranks -> Nat]
  BY OverlapIsNat DEF Holds
<1>2. Place(s.overlap, 3) < Place(s.overlap, 4) /\ Place(s.overlap, 4) \in Nat /\ Place(s.overlap, 3) \in Nat
  BY <1>1 DEF Place
<1>3. Settled(s, r)
  <2>1. k[r] > Place(s.overlap, 3)
    BY <1>1, <1>2
  <2> QED
    BY <2>1, KnownSettled
<1>4. Near(s, r, s.overlap) = Subdomain(r)
  BY <1>1, <1>3, SettledExact
<1>5. g \in Subdomain(r)
  BY <1>1, <1>4, OwnNear
<1>6. ASSUME q # r PROVE g \in Share(s, q, r) <=> g \in Subdomain(q)
  <2>1. Joint(s, s.overlap, 4, q, r)
    BY <1>6 DEF Joint
  <2>2. Part(s, Place(s.overlap, 4), q, r)
    BY <1>1, <2>1 DEF Part
  <2>3. Place(s.overlap, 4) < Sent(q, k[q])
    BY <1>1, <1>2, <1>6, <2>2 DEF Holds, Synced
  <2>4. k[q] > Place(s.overlap, 3)
    BY <1>1, <1>2, <2>3 DEF Sent, Place
  <2>5. Settled(s, q)
    BY <2>4, KnownSettled
  <2>6. Near(s, q, s.overlap) = Subdomain(q)
    BY <1>1, <2>5, SettledExact
  <2>7. g \notin OwnRows(s, q)
    BY <1>1, <1>6, OwnersDiffer
  <2>8. ASSUME g \in Near(s, q, s.overlap) PROVE OwnerOf(g) = r
    <3>1. g \in OwnRows(s, OwnerOf(g))
      BY <2>5, <2>7, <2>8 DEF Settled
    <3>2. OwnerOf(g) \in Ranks
      BY OwnerIsARank DEF OwnRows
    <3> QED
      BY <1>1, <3>1, <3>2, OwnersDiffer
  <2> QED
    BY <1>6, <2>6, <2>8 DEF Share
<1> QED
  BY <1>5, <1>6

LEMMA RanksFinite == IsFiniteSet(Ranks)
<1>1. 0 \in Int /\ Size - 1 \in Int
  BY Sizes
<1> QED
  BY <1>1, FS_Interval DEF Ranks

(* The additive mode adds the contributions of the subdomains with the row.*)
LEMMA AddingIs ==
  ASSUME NEW s, NEW k, Holds(s, k), NEW r \in Ranks, k[r] > Place(s.overlap, 4), NEW g \in OwnRows(s, r)
  PROVE  Adding(s, r, g) = Contributors(r, g)
<1>1. s \in Settings /\ setting = s
  BY DEF Holds
<1>2. s.mode = "asm" \/ s.mode = "ras"
  BY <1>1, SchwarzAssumption DEF SettingType, Modes
<1>3. \A q \in Ranks : g \in Subdomain(r) /\ (q # r => (g \in Share(s, q, r) <=> g \in Subdomain(q)))
  BY SharesAre
<1>4. CASE s.mode = "ras"
  <2>1. s.mode # "asm"
    BY <1>4
  <2> QED
    BY <1>1, <1>4, <2>1 DEF Adding, Contributors
<1>5. CASE s.mode = "asm"
  <2>1. s.mode # "ras"
    BY <1>5
  <2> QED
    BY <1>1, <1>3, <1>5, <2>1 DEF Adding, Contributors
<1> QED
  BY <1>2, <1>4, <1>5

LEMMA CoverIs ==
  ASSUME NEW s, NEW k, Holds(s, k), NEW r \in Ranks, k[r] > Place(s.overlap, 4), NEW g \in OwnRows(s, r),
         exports[r] = [q \in Ranks |-> Share(s, q, r)]
  PROVE  CoverCount(r, g) = Cardinality({q \in Ranks : g \in Subdomain(q)})
<1> DEFINE A == {q \in Ranks : g \in exports[r][q]}  B == {q \in Ranks : g \in Subdomain(q)}
<1>1. \A q \in Ranks : g \in Subdomain(r) /\ (q # r => (g \in Share(s, q, r) <=> g \in Subdomain(q)))
  BY SharesAre
<1>2. g \notin Share(s, r, r)
  BY DEF Share
<1>3. B = A \cup {r} /\ r \notin A
  BY <1>1, <1>2
<1>4. IsFiniteSet(A)
  BY RanksFinite, FS_Subset
<1> HIDE DEF A, B
<1>5. Cardinality(A \cup {r}) = Cardinality(A) + 1 /\ Cardinality(A) \in Nat
  BY <1>3, <1>4, FS_AddElement, FS_CardinalityType
<1>6. CoverCount(r, g) = 1 + Cardinality(A)
  BY DEF CoverCount, A
<1>7. CoverCount(r, g) = Cardinality(B)
  BY <1>3, <1>5, <1>6
<1> QED
  BY <1>7 DEF B

LEMMA WholeVector ==
  ASSUME NEW s, NEW k, Holds(s, k), NEW r \in Ranks, error[r] = "", Now(r) = "solve"
  PROVE  rhs[r] = Subdomain(r) \X {turn[r]}
<1>1. todo[r] # <<>>
  BY DEF Now
<1>2. PICK a \in Nat, b \in 0..13 : AtWork(s, k, r, a, b)
  BY <1>1, Here
<1>3. b = 9
  BY <1>2, PlaceOfSolve
<1>4. /\ s \in Settings /\ setting = s /\ s.overlap \in Nat /\ ApplyAt(s, r, a, b)
  BY <1>2, AtWorkFacts
<1>5. Settled(s, r)
  <2>1. b \in 4..13
    BY <1>3, PointsLate
  <2> QED
    BY <1>2, <2>1, ReadyLate
<1>6. Near(s, r, s.overlap) = Subdomain(r)
  BY <1>4, <1>5, SettledExact
<1>7. OwnRows(s, r) \subseteq Near(s, r, s.overlap) /\ Near(s, r, s.overlap) \subseteq Read(s, r)
  BY <1>4, <1>5, OwnNear DEF Settled
<1>8. Pulled(s, r) = Near(s, r, s.overlap)
  BY <1>7 DEF Pulled, Read, Foreign
<1>9. rhs[r] = Pulled(s, r) \X {TurnAt(s, a, b)} /\ turn[r] = TurnAt(s, a, b)
  BY <1>3, <1>4 DEF ApplyAt
<1> QED
  BY <1>6, <1>8, <1>9

LEMMA AllContributions ==
  ASSUME NEW s, NEW k, Holds(s, k), NEW r \in Ranks, error[r] = "",
         Now(r) \in {"coarse rhs", "coarse solve", "coarse solution", "refresh", "done"}
  PROVE  /\ y[r] = UNION {{<<g, q, turn[r]>> : q \in Contributors(r, g)} : g \in Own(r)}
         /\ \A g \in Own(r) : CoverCount(r, g) = Cardinality({q \in Ranks : g \in Subdomain(q)})
<1>1. s \in Settings /\ s.overlap \in Nat /\ Own(r) = OwnRows(s, r)
  BY OverlapIsNat DEF Holds, Own
<1>2. PICK a \in Nat, b \in 0..13 : StaysAt(s, k, r, a, b)
  BY SoundPlace
<1>3. b > 10 \/ (b = 0 /\ a > s.overlap)
  <2>1. Now(r) \in AfterNames
    BY DEF AfterNames
  <2>2. Now(r) = StepAt(s, a, b) \/ (a = s.overlap + 2 /\ b = 0)
    BY <1>2 DEF StaysAt
  <2>3. b > 10 \/ (b = 0 /\ ~(a < s.overlap) /\ a # s.overlap) \/ (a = s.overlap + 2 /\ b = 0)
    BY <2>1, <2>2, StepsAfter
  <2> QED
    BY <1>1, <2>3, StagesDiffer
<1>4. a > s.overlap \/ b > 4
  BY <1>3, PointsLate
<1>5. /\ turn[r] = TurnAt(s, a, b) /\ y[r] = Final(s, r, TurnAt(s, a, b))
      /\ exports[r] = [q \in Ranks |-> Share(s, q, r)]
  BY <1>2, <1>3, <1>4 DEF StaysAt, ApplyAt
<1>6. k[r] > Place(s.overlap, 4)
  BY <1>1, <1>2, <1>3, LatePlace
<1>7. \A g \in OwnRows(s, r) : Adding(s, r, g) = Contributors(r, g)
  BY <1>6, AddingIs
<1>8. \A g \in OwnRows(s, r) : CoverCount(r, g) = Cardinality({q \in Ranks : g \in Subdomain(q)})
  BY <1>5, <1>6, CoverIs, ZenonT(30)
<1>9. Final(s, r, turn[r]) = UNION {{<<g, q, turn[r]>> : q \in Contributors(r, g)} : g \in OwnRows(s, r)}
  <2>1. \A g \in OwnRows(s, r) :
          {<<g, q, turn[r]>> : q \in Adding(s, r, g)} = {<<g, q, turn[r]>> : q \in Contributors(r, g)}
    BY <1>7
  <2> DEFINE adds(g) == {<<g, q, turn[r]>> : q \in Adding(s, r, g)}
             gives(g) == {<<g, q, turn[r]>> : q \in Contributors(r, g)}
  <2>2. Final(s, r, turn[r]) = UNION {adds(g) : g \in OwnRows(s, r)}
    BY DEF Final
  <2>3. \A g \in OwnRows(s, r) : adds(g) = gives(g)
    BY <2>1
  <2> HIDE DEF adds, gives
  <2>4. UNION {adds(g) : g \in OwnRows(s, r)} = UNION {gives(g) : g \in OwnRows(s, r)}
    BY <2>3
  <2> QED
    BY <2>2, <2>4 DEF gives
<1> QED
  BY <1>1, <1>5, <1>8, <1>9

LEMMA ExactResults ==
  ASSUME IInv
  PROVE  ContributionsExact
<1>1. PICK s, k : Holds(s, k)
  BY DEF IInv
<1>2. SUFFICES ASSUME NEW r \in Ranks, Sound(r)
               PROVE  /\ Now(r) = "solve" => rhs[r] = Subdomain(r) \X {turn[r]}
                      /\ Now(r) \in {"coarse rhs", "coarse solve", "coarse solution", "refresh", "done"} =>
                           /\ y[r] = UNION {{<<g, q, turn[r]>> : q \in Contributors(r, g)} : g \in Own(r)}
                           /\ \A g \in Own(r) :
                                CoverCount(r, g) = Cardinality({q \in Ranks : g \in Subdomain(q)})
  BY DEF ContributionsExact
<1>3. error[r] = ""
  BY <1>2 DEF Sound
<1>4. Now(r) = "solve" => rhs[r] = Subdomain(r) \X {turn[r]}
  BY <1>1, <1>3, WholeVector
<1>5. Now(r) \in {"coarse rhs", "coarse solve", "coarse solution", "refresh", "done"} =>
        /\ y[r] = UNION {{<<g, q, turn[r]>> : q \in Contributors(r, g)} : g \in Own(r)}
        /\ \A g \in Own(r) : CoverCount(r, g) = Cardinality({q \in Ranks : g \in Subdomain(q)})
  BY <1>1, <1>3, AllContributions
<1> QED
  BY <1>4, <1>5

------------------------------------------------------------------------------
(* When, in every matrix, partition and overlap, all ranks have rows to ask *)
(* for in the same sweeps (request_remote_rows is entered by those that    *)
(* have), no rank ever takes a message for one of another exchange.        *)
THEOREM ExchangesMatch ==
  ASSUME \A s \in Settings : AskingAlike(s)
  PROVE  Spec => []CallsMatch
<1>1. IInv => CallsMatch
  BY NeverCrossed
<1>2. Spec => []IInv
  BY Invariance
<1> QED
  BY <1>1, <1>2, PTL

(* Then the matrix of a rank that reaches apply is exactly its overlapping  *)
(* subdomain, in the values of the last set-up or update_numeric.          *)
THEOREM SubdomainsExact ==
  ASSUME \A s \in Settings : AskingAlike(s)
  PROVE  Spec => []SubdomainExact
<1>1. IInv => SubdomainExact
  BY WholeSubdomain
<1>2. Spec => []IInv
  BY Invariance
<1> QED
  BY <1>1, <1>2, PTL

(* Then apply solves with the whole right-hand side of this application,   *)
(* adds the contribution of every subdomain with the row once (the owner's *)
(* alone in the restricted mode), and the cover counts of                  *)
(* build_ras_weights count those subdomains.                               *)
THEOREM EveryContributionOnce ==
  ASSUME \A s \in Settings : AskingAlike(s)
  PROVE  Spec => []ContributionsExact
<1>1. IInv => ContributionsExact
  BY ExactResults
<1>2. Spec => []IInv
  BY Invariance
<1> QED
  BY <1>1, <1>2, PTL
=============================================================================
