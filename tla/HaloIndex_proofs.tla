------------------------- MODULE HaloIndex_proofs -------------------------
(***************************************************************************)
(* Proofs about HaloIndex, for any number of ranks, any matrix and any     *)
(* order of messages: the plans of two ranks agree, every remote column    *)
(* has one ghost, no message is left and nobody gets a plan without a rank *)
(* that refuses.  And about RowPartition, for every number of ranks and    *)
(* rows: the partition built or passed covers every row once, and the      *)
(* binary search finds the owner that the handshake collects columns under.*)
(***************************************************************************)
EXTENDS HaloIndex, RowPartition, FiniteSetTheorems, SequenceTheorems, NaturalsInduction, TLAPS

------------------------------------------------------------------------------
(* Sorting.                                                                *)

(* A set of naturals has a least element.                                  *)
LEMMA LeastOf ==
  ASSUME NEW T, T \subseteq Nat, T # {}
  PROVE  \E x \in T : \A y \in T : x <= y
<1> DEFINE R == {ss \in Nat \X Nat : ss[1] < ss[2]}
<1>1. IsWellFoundedOn(R, Nat)
  BY NatLessThanWellFounded, Zenon DEF OpToRel
<1>2. \E x \in T : \A y \in T : ~(<<y, x>> \in R)
  <2> HIDE DEF R
  <2> QED BY <1>1, WFMin
<1>3. PICK x \in T : \A y \in T : ~(<<y, x>> \in R)
  BY <1>2
<1>4. \A y \in T : ~(y < x)
  BY <1>3
<1> QED BY <1>4

(* A finite set of naturals can be listed in increasing order: an element  *)
(* has the place that counts the elements up to it.                        *)
LEMMA Sortable ==
  ASSUME NEW S, S \subseteq Nat, IsFiniteSet(S)
  PROVE  \E t \in [1..Cardinality(S) -> S] :
           \A i, l \in DOMAIN t : i < l => t[i] < t[l]
<1> DEFINE n == Cardinality(S)
           UpTo(x) == {y \in S : y <= x}
           place == [x \in S |-> Cardinality(UpTo(x))]
           t == [i \in 1..n |-> CHOOSE x \in S : place[x] = i]
<1>1. n \in Nat
  BY FS_CardinalityType
<1>2. \A x \in S : IsFiniteSet(UpTo(x)) /\ Cardinality(UpTo(x)) \in Nat /\ Cardinality(UpTo(x)) <= n
  BY FS_Subset, FS_CardinalityType
<1>3. \A x \in S : Cardinality(UpTo(x)) # 0
  <2> SUFFICES ASSUME NEW x \in S PROVE Cardinality(UpTo(x)) # 0
    OBVIOUS
  <2>1. x \in UpTo(x)
    OBVIOUS
  <2> QED BY <2>1, <1>2, FS_EmptySet
<1>4. place \in [S -> 1..n]
  BY <1>1, <1>2, <1>3
<1>5. \A x, y \in S : x < y => place[x] < place[y]
  <2> SUFFICES ASSUME NEW x \in S, NEW y \in S, x < y PROVE place[x] < place[y]
    OBVIOUS
  <2>1. x \in Nat /\ y \in Nat /\ \A z \in S : z \in Nat
    OBVIOUS
  <2>2. \A z \in S : z <= x => z <= y
    BY <2>1
  <2>3. y \in UpTo(y) /\ y \notin UpTo(x)
    BY <2>1
  <2>4. UpTo(x) \in SUBSET UpTo(y) /\ UpTo(x) # UpTo(y)
    BY <2>1, <2>2, <2>3
  <2> HIDE DEF UpTo
  <2>5. Cardinality(UpTo(x)) <= Cardinality(UpTo(y)) /\ Cardinality(UpTo(x)) # Cardinality(UpTo(y))
    BY <2>4, <1>2, FS_Subset
  <2> QED BY <2>5, <1>2
<1>6. place \in Injection(S, 1..n)
  <2>1. \A x, y \in S : place[x] = place[y] => x = y
    <3> SUFFICES ASSUME NEW x \in S, NEW y \in S, x # y PROVE place[x] # place[y]
      OBVIOUS
    <3>1. x < y \/ y < x
      OBVIOUS
    <3> HIDE DEF place
    <3> QED BY <3>1, <1>4, <1>5
  <2> QED BY <2>1, <1>4 DEF Injection, IsInjective
<1>7. place \in Surjection(S, 1..n)
  BY <1>1, <1>6, FS_Interval, FS_Injection
<1>8. \A i \in 1..n : t[i] \in S /\ place[t[i]] = i
  <2> HIDE DEF place
  <2>1. \A i \in 1..n : \E x \in S : place[x] = i
    BY <1>7 DEF Surjection
  <2> QED BY <2>1
<1>9. \A i, l \in 1..n : i < l => t[i] < t[l]
  <2> SUFFICES ASSUME NEW i \in 1..n, NEW l \in 1..n, i < l PROVE t[i] < t[l]
    OBVIOUS
  <2>1. t[i] \in Nat /\ t[l] \in Nat /\ t[i] \in S /\ t[l] \in S /\ place[t[i]] = i /\ place[t[l]] = l
    BY <1>8
  <2> HIDE DEF place, t
  <2>2. ~(t[l] < t[i]) /\ t[i] # t[l]
    BY <2>1, <1>5
  <2> QED BY <2>1, <2>2
<1>10. t \in [1..n -> S]
  <2> HIDE DEF place
  <2> QED BY <1>8
<1> HIDE DEF t
<1> QED BY <1>9, <1>10

(* Cleaned lists exactly the columns of its argument, in increasing order. *)
LEMMA CleanedLists ==
  ASSUME NEW list, ToSet(list) \subseteq Nat, IsFiniteSet(ToSet(list))
  PROVE  /\ Cleaned(list) \in Seq(Nat)
         /\ ToSet(Cleaned(list)) = ToSet(list)
         /\ \A i, l \in DOMAIN Cleaned(list) : i < l => Cleaned(list)[i] < Cleaned(list)[l]
<1> DEFINE S == ToSet(list)
           n == Cardinality(S)
           t == Cleaned(list)
<1>1. n \in Nat
  BY FS_CardinalityType
<1>2. t \in [1..n -> S] /\ \A i, l \in DOMAIN t : i < l => t[i] < t[l]
  BY Sortable DEF Cleaned
<1> HIDE DEF t, S
<1>3. t \in Injection(1..n, S)
  <2>1. \A i, l \in 1..n : t[i] = t[l] => i = l
    <3> SUFFICES ASSUME NEW i \in 1..n, NEW l \in 1..n, i # l PROVE t[i] # t[l]
      OBVIOUS
    <3>1. i < l \/ l < i
      BY <1>1
    <3>2. t[i] \in Nat /\ t[l] \in Nat
      BY <1>2 DEF S
    <3> QED BY <3>1, <3>2, <1>2
  <2> QED BY <1>2, <2>1 DEF Injection, IsInjective
<1>4. t \in Surjection(1..n, S)
  BY <1>1, <1>3, FS_Interval, FS_Injection DEF S
<1>5. ToSet(t) = S
  BY <1>2, <1>4 DEF ToSet, Surjection
<1>6. t \in Seq(Nat)
  BY <1>1, <1>2 DEF S
<1> QED BY <1>2, <1>5, <1>6 DEF t, S

(* Cleaning depends on the columns only.                                   *)
LEMMA CleanedTwice ==
  ASSUME NEW list, ToSet(list) \subseteq Nat, IsFiniteSet(ToSet(list))
  PROVE  Cleaned(Cleaned(list)) = Cleaned(list)
<1>1. ToSet(Cleaned(list)) = ToSet(list)
  BY CleanedLists
<1> QED BY <1>1 DEF Cleaned

------------------------------------------------------------------------------
(* The inductive invariant.  What a pair of ranks has exchanged follows    *)
(* from their phases and their rows alone.                                 *)

Phases == {"rows", "refused", "counts", "lists", "index", "ready", "failed"}

(* The tables have one place per rank, or per pair of ranks.               *)
Shapes ==
  /\ phase \in [Ranks -> Phases]
  /\ recvMap = [r \in Ranks |-> recvMap[r]]
  /\ countIn = [r \in Ranks |-> countIn[r]]
  /\ sendMap = [r \in Ranks |-> sendMap[r]]
  /\ wire = [e \in Pairs |-> wire[e]]

RowsFinite ==
  \A r \in Ranks : /\ IsFiniteSet(DOMAIN entries[r])
                   /\ \A i \in DOMAIN entries[r] : entries[r][i] \in Nat

(* The rank has sent its counts, received those of all others, received    *)
(* the lists.                                                              *)
Begun(r) == phase[r] \notin {"rows", "refused"}
Listed(r) == phase[r] \in {"lists", "index", "ready", "failed"}
Taken(r) == phase[r] \in {"index", "ready", "failed"}

(* What r wants from p.                                                    *)
ListOf(r, p) == IF p = r THEN <<>> ELSE Cleaned(RemoteColumns(r, p))
Count(r, p) == <<Len(ListOf(r, p))>>
Wants(r, p) == Len(ListOf(r, p)) > 0

(* What p has sent to r and r has not received.                            *)
Pending(p, r) ==
  CASE Taken(r) \/ ~Begun(p) -> <<>>
    [] ~Taken(r) /\ Begun(p) /\ Listed(r) ->
         IF Listed(p) /\ Wants(p, r) THEN <<ListOf(p, r)>> ELSE <<>>
    [] OTHER -> IF Listed(p) /\ Wants(p, r) THEN <<Count(p, r), ListOf(p, r)>>
                                             ELSE <<Count(p, r)>>

Lists(r) == Begun(r) => /\ ~OutOfBounds(r)
                        /\ recvMap[r] = [p \in Ranks |-> ListOf(r, p)]
Heard(r) == Listed(r) =>
  \A p \in Peers(r) : Begun(p) /\ countIn[r][p] = Len(ListOf(p, r))
Answered(r) == Taken(r) =>
  \A p \in Peers(r) : /\ sendMap[r][p] = ListOf(p, r)
                      /\ Wants(p, r) => Listed(p)
Wired == \A p \in Ranks : \A r \in Peers(p) : wire[<<p, r>>] = Pending(p, r)

IInv ==
  /\ Shapes
  /\ RowsFinite
  /\ \A r \in Ranks : Lists(r) /\ Heard(r) /\ Answered(r)
  /\ Wired

------------------------------------------------------------------------------
(* Sequences of at most two messages.                                      *)
LEMMA Messages ==
  ASSUME NEW a, NEW b
  PROVE  /\ Append(<<>>, a) = <<a>> /\ Append(<<a>>, b) = <<a, b>>
         /\ Tail(<<a>>) = <<>> /\ Tail(<<a, b>>) = <<b>>
         /\ <<a>>[1] = a /\ <<a, b>>[1] = a
         /\ <<a>> # <<>> /\ <<a, b>> # <<>>
<1>1. Append(<<>>, a) = <<a>>
  OBVIOUS
<1>2. Append(<<a>>, b) = <<a, b>>
  <2> DEFINE list == Append(<<a>>, b)
  <2>1. <<a>> \in Seq({a, b}) /\ Len(<<a>>) = 1 /\ <<a>>[1] = a
    OBVIOUS
  <2>2. list \in Seq({a, b}) /\ Len(list) = 2 /\ list[1] = a /\ list[2] = b
    BY <2>1, AppendProperties
  <2>3. <<a, b>> \in Seq({a, b}) /\ Len(<<a, b>>) = 2 /\ <<a, b>>[1] = a /\ <<a, b>>[2] = b
    OBVIOUS
  <2> DEFINE t == <<a, b>>
  <2>4. t \in Seq({a, b}) /\ Len(t) = 2 /\ t[1] = a /\ t[2] = b
    BY <2>3
  <2> HIDE DEF list, t
  <2>5. \A i \in 1..Len(list) : list[i] = t[i]
    <3>1. \A i \in 1..2 : i = 1 \/ i = 2
      OBVIOUS
    <3> QED BY <2>2, <2>4, <3>1
  <2>6. list = t
    BY <2>2, <2>4, <2>5, SeqEqual
  <2> QED BY <2>6 DEF list, t
<1>3. Tail(<<a>>) = <<>>
  OBVIOUS
<1>4. Tail(<<a, b>>) = <<b>>
  OBVIOUS
<1>5. <<a>>[1] = a /\ <<a, b>>[1] = a
  OBVIOUS
<1>6. <<a>> # <<>> /\ <<a, b>> # <<>>
  OBVIOUS
<1> QED BY <1>1, <1>2, <1>3, <1>4, <1>5, <1>6

(* The remote columns of a rank are finitely many naturals.                *)
LEMMA RemoteSet ==
  ASSUME RowsFinite, NEW r \in Ranks, NEW p
  PROVE  /\ ToSet(RemoteColumns(r, p)) =
              {entries[r][i] : i \in {k \in DOMAIN entries[r] : OwnerOf(entries[r][k]) = p}}
         /\ ToSet(RemoteColumns(r, p)) \subseteq Nat
         /\ IsFiniteSet(ToSet(RemoteColumns(r, p)))
<1> DEFINE f == RemoteColumns(r, p)
           D == {k \in DOMAIN entries[r] : OwnerOf(entries[r][k]) = p}
<1>1. f = [i \in D |-> entries[r][i]]
  BY DEF RemoteColumns
<1>2. IsFiniteSet(D)
  BY FS_Subset DEF RowsFinite
<1>3. ToSet(f) = {entries[r][i] : i \in D}
  BY <1>1 DEF ToSet
<1>4. ToSet(f) \subseteq Nat
  BY <1>3 DEF RowsFinite
<1>5. f \in Surjection(D, ToSet(f))
  <2> HIDE DEF D
  <2>1. DOMAIN f = D /\ ToSet(f) = {f[i] : i \in D}
    BY <1>1 DEF ToSet
  <2>2. f \in [D -> ToSet(f)]
    BY <1>1, <2>1
  <2> QED BY <2>1, <2>2 DEF Surjection
<1>6. IsFiniteSet(ToSet(f))
  BY <1>2, <1>5, FS_Surjection
<1> QED BY <1>3, <1>4, <1>6

(* The lists are clean already, and empty if their length says so.         *)
LEMMA ListsClean ==
  ASSUME RowsFinite, NEW r \in Ranks, NEW p \in Peers(r)
  PROVE  /\ ListOf(r, p) \in Seq(Nat)
         /\ Cleaned(ListOf(r, p)) = ListOf(r, p)
         /\ ~Wants(r, p) => ListOf(r, p) = <<>>
<1>1. ListOf(r, p) = Cleaned(RemoteColumns(r, p))
  BY DEF ListOf, Peers
<1>2. ListOf(r, p) \in Seq(Nat)
  BY <1>1, RemoteSet, CleanedLists
<1>3. Cleaned(ListOf(r, p)) = ListOf(r, p)
  BY <1>1, RemoteSet, CleanedTwice
<1>4. ~Wants(r, p) => ListOf(r, p) = <<>>
  <2> HIDE DEF ListOf
  <2> SUFFICES ASSUME ~Wants(r, p) PROVE ListOf(r, p) = <<>>
    OBVIOUS
  <2>1. Len(ListOf(r, p)) \in Nat
    BY <1>2, LenProperties
  <2>2. Len(ListOf(r, p)) = 0
    BY <2>1 DEF Wants
  <2> QED BY <1>2, <2>2, EmptySeq
<1> QED BY <1>2, <1>3, <1>4

------------------------------------------------------------------------------
(* The invariant holds at first.                                           *)
LEMMA InitIInv == Init => IInv
<1> SUFFICES ASSUME Init PROVE IInv
  OBVIOUS
<1>1. Shapes
  BY DEF Init, Shapes, Phases
<1>2. RowsFinite
  <2>1. PICK n \in 0..MaxEntries : \E list \in [1..n -> Ranks \X Columns] :
          entries = [r \in Ranks |-> [i \in {k \in 1..n : list[k][1] = r} |-> list[i][2]]]
    BY DEF Init
  <2>2. PICK list \in [1..n -> Ranks \X Columns] :
          entries = [r \in Ranks |-> [i \in {k \in 1..n : list[k][1] = r} |-> list[i][2]]]
    BY <2>1
  <2>3. \A r \in Ranks : DOMAIN entries[r] = {k \in 1..n : list[k][1] = r}
    BY <2>2
  <2>4. \A r \in Ranks : \A i \in DOMAIN entries[r] : entries[r][i] = list[i][2] /\ i \in 1..n
    BY <2>2
  <2>5. \A i \in 1..n : list[i][2] \in Nat
    BY IndexAssumption, SizesAssumption
  <2>6. n \in Int
    BY IndexAssumption, SizesAssumption
  <2>7. IsFiniteSet(1..n)
    BY <2>6, FS_Interval
  <2>8. \A r \in Ranks : IsFiniteSet(DOMAIN entries[r])
    BY <2>3, <2>7, FS_Subset
  <2> QED BY <2>4, <2>5, <2>8 DEF RowsFinite
<1>3. \A r \in Ranks : ~Begun(r) /\ ~Listed(r) /\ ~Taken(r)
  BY DEF Init, Begun, Listed, Taken
<1>4. \A r \in Ranks : Lists(r) /\ Heard(r) /\ Answered(r)
  BY <1>3 DEF Lists, Heard, Answered
<1>5. Wired
  <2> SUFFICES ASSUME NEW p \in Ranks, NEW r \in Peers(p)
               PROVE  wire[<<p, r>>] = Pending(p, r)
    BY DEF Wired
  <2>1. <<p, r>> \in Pairs
    BY DEF Pairs, Peers
  <2>2. wire[<<p, r>>] = <<>>
    BY <2>1 DEF Init
  <2> QED BY <1>3, <2>2 DEF Pending
<1> QED BY <1>1, <1>2, <1>4, <1>5 DEF IInv

(* What follows from the rows alone does not change.                       *)
LEMMA RowsStay ==
  ASSUME UNCHANGED entries
  PROVE  \A r, p \in Ranks : RemoteColumns(r, p)' = RemoteColumns(r, p)
                           /\ ListOf(r, p)' = ListOf(r, p)
BY DEF RemoteColumns, ListOf

LEMMA BoundsStay ==
  ASSUME UNCHANGED entries
  PROVE  \A r \in Ranks : RemoteColumns(r, Size)' = RemoteColumns(r, Size)
BY DEF RemoteColumns

(* An action of rank r leaves the phases of the others alone.              *)
LEMMA OthersStay ==
  ASSUME NEW r \in Ranks, NEW ph \in Phases, Shapes,
         phase' = [phase EXCEPT ![r] = ph]
  PROVE  /\ phase' \in [Ranks -> Phases]
         /\ phase'[r] = ph
         /\ \A q \in Ranks \ {r} : phase'[q] = phase[q]
BY DEF Shapes

(* An action that only moves a rank between phases that the invariant does *)
(* not tell apart.                                                         *)
LEMMA QuietStep ==
  ASSUME IInv, NEW r \in Ranks, NEW ph \in Phases,
         phase' = [phase EXCEPT ![r] = ph],
         UNCHANGED <<given, recvMap, countIn, sendMap, wire>>,
         ph \in {"rows", "refused"} <=> ~Begun(r),
         ph \in {"lists", "index", "ready", "failed"} <=> Listed(r),
         ph \in {"index", "ready", "failed"} <=> Taken(r)
  PROVE  IInv'
<1>1. UNCHANGED <<entries, recvMap, countIn, sendMap, wire>>
  BY DEF given
<1>2. phase' \in [Ranks -> Phases]
  BY OthersStay DEF IInv
<1>3. \A q \in Ranks :
        /\ phase'[q] \in {"rows", "refused"} <=> phase[q] \in {"rows", "refused"}
        /\ phase'[q] \in {"lists", "index", "ready", "failed"}
             <=> phase[q] \in {"lists", "index", "ready", "failed"}
        /\ phase'[q] \in {"index", "ready", "failed"} <=> phase[q] \in {"index", "ready", "failed"}
  BY OthersStay DEF IInv, Begun, Listed, Taken
<1>10. \A q, p \in Ranks : ListOf(q, p)' = ListOf(q, p)
  BY <1>1, RowsStay
<1>11. \A q \in Ranks : RemoteColumns(q, Size)' = RemoteColumns(q, Size)
  BY <1>1, BoundsStay
<1>4. Shapes'
  BY <1>1, <1>2 DEF IInv, Shapes
<1>5. RowsFinite'
  BY <1>1 DEF IInv, RowsFinite
<1>6. \A q \in Ranks : Lists(q)'
  BY <1>1, <1>3, <1>10, <1>11 DEF IInv, Lists, Begun, OutOfBounds
<1>7. \A q \in Ranks : Heard(q)'
  BY <1>1, <1>3, <1>10 DEF IInv, Heard, Peers, Listed, Begun
<1>8. \A q \in Ranks : Answered(q)'
  BY <1>1, <1>3, <1>10 DEF IInv, Answered, Peers, Taken, Listed, Wants
<1>9. Wired'
  <2> SUFFICES ASSUME NEW p \in Ranks, NEW q \in Peers(p)
               PROVE  wire'[<<p, q>>] = Pending(p, q)'
    BY DEF Wired, Peers
  <2>1. wire'[<<p, q>>] = Pending(p, q)
    BY <1>1 DEF IInv, Wired
  <2>2. q \in Ranks
    BY DEF Peers
  <2>3. Count(p, q)' = Count(p, q) /\ ListOf(p, q)' = ListOf(p, q) /\ Wants(p, q)' = Wants(p, q)
    BY <2>2, <1>10 DEF Count, Wants
  <2>4. Begun(p)' = Begun(p) /\ Listed(p)' = Listed(p) /\ Listed(q)' = Listed(q) /\ Taken(q)' = Taken(q)
    BY <2>2, <1>3 DEF Begun, Listed, Taken
  <2>5. Pending(p, q)' = Pending(p, q)
    BY <2>3, <2>4, Zenon DEF Pending
  <2> QED BY <2>1, <2>5
<1> QED BY <1>4, <1>5, <1>6, <1>7, <1>8, <1>9 DEF IInv

LEMMA RejectIInv ==
  ASSUME IInv, NEW r \in Ranks, Reject(r)
  PROVE  IInv'
BY QuietStep DEF Reject, Begun, Listed, Taken, Phases

LEMMA FinishIInv ==
  ASSUME IInv, NEW r \in Ranks, Finish(r)
  PROVE  IInv'
<1> DEFINE ph == IF \A p \in Peers(r) : \A c \in ToSet(sendMap[r][p]) : Serves(r, c)
                   THEN "ready" ELSE "failed"
<1>1. /\ phase[r] = "index"
      /\ phase' = [phase EXCEPT ![r] = ph]
      /\ UNCHANGED <<given, recvMap, countIn, sendMap, wire>>
  BY DEF Finish
<1>2. ph = "ready" \/ ph = "failed"
  OBVIOUS
<1> HIDE DEF ph
<1> QED BY <1>1, <1>2, QuietStep DEF Begun, Listed, Taken, Phases

(* No rank is past the counts while another has not sent its own, so a     *)
(* rank that sends them has sent nothing yet and is waited for by all.     *)
LEMMA PostCountsIInv ==
  ASSUME IInv, NEW r \in Ranks, PostCounts(r)
  PROVE  IInv'
<1>1. phase[r] = "rows" /\ phase' = [phase EXCEPT ![r] = "counts"]
  BY DEF PostCounts
<1>2. UNCHANGED <<entries, countIn, sendMap>> /\ ~OutOfBounds(r)
  BY DEF PostCounts, given
<1>3. /\ recvMap' = [recvMap EXCEPT ![r] = [p \in Ranks |-> ListOf(r, p)]]
      /\ wire' = [e \in Pairs |-> IF e[1] = r
                     THEN Append(wire[e], <<Len([p \in Ranks |-> ListOf(r, p)][e[2]])>>)
                     ELSE wire[e]]
  BY DEF PostCounts, ListOf
<1>4. /\ phase' \in [Ranks -> Phases] /\ phase'[r] = "counts"
      /\ \A q \in Ranks \ {r} : phase'[q] = phase[q]
  BY <1>1, OthersStay DEF IInv, Phases
<1>5. \A q, p \in Ranks : ListOf(q, p)' = ListOf(q, p)
  BY <1>2, RowsStay
<1>6. \A q \in Ranks : RemoteColumns(q, Size)' = RemoteColumns(q, Size)
  BY <1>2, BoundsStay
<1>7. \A q \in Peers(r) : ~Listed(q) /\ ~Taken(q)
  BY <1>1 DEF IInv, Heard, Begun, Peers, Listed, Taken
<1>8. Shapes'
  <2>1. recvMap' = [q \in Ranks |-> recvMap'[q]]
    BY <1>3 DEF IInv, Shapes
  <2>2. wire' = [e \in Pairs |-> wire'[e]]
    <3> DEFINE after(e) == IF e[1] = r
                 THEN Append(wire[e], <<Len([p \in Ranks |-> ListOf(r, p)][e[2]])>>)
                 ELSE wire[e]
    <3>1. wire' = [e \in Pairs |-> after(e)]
      BY <1>3
    <3> HIDE DEF after
    <3> QED BY <3>1
  <2> QED BY <2>1, <2>2, <1>2, <1>4 DEF IInv, Shapes
<1>9. RowsFinite'
  BY <1>2 DEF IInv, RowsFinite
<1>10. \A q \in Ranks : Lists(q)'
  <2> TAKE q \in Ranks
  <2>1. CASE q = r
    <3>1. recvMap'[r] = [p \in Ranks |-> ListOf(r, p)]
      BY <1>3 DEF IInv, Shapes
    <3> QED BY <2>1, <3>1, <1>2, <1>5, <1>6 DEF Lists, OutOfBounds
  <2>2. CASE q # r
    <3>1. recvMap'[q] = recvMap[q] /\ phase'[q] = phase[q]
      BY <2>2, <1>3, <1>4 DEF IInv, Shapes
    <3> QED BY <3>1, <1>5, <1>6 DEF IInv, Lists, Begun, OutOfBounds
  <2> QED BY <2>1, <2>2
<1>11. \A q \in Ranks : Heard(q)'
  <2>1. \A p \in Ranks : Begun(p) => Begun(p)'
    BY <1>1, <1>4 DEF Begun
  <2>2. \A q \in Ranks : Listed(q)' => Listed(q)
    BY <1>1, <1>4 DEF Listed
  <2> QED BY <2>1, <2>2, <1>2, <1>5 DEF IInv, Heard, Peers, Listed, Begun
<1>12. \A q \in Ranks : Answered(q)'
  <2>1. \A p \in Ranks : Listed(p) => Listed(p)'
    BY <1>1, <1>4 DEF Listed
  <2>2. \A q \in Ranks : Taken(q)' => Taken(q)
    BY <1>1, <1>4 DEF Taken
  <2> QED BY <2>1, <2>2, <1>2, <1>5 DEF IInv, Answered, Peers, Listed, Taken, Wants
<1>13. Wired'
  <2> SUFFICES ASSUME NEW p \in Ranks, NEW q \in Peers(p)
               PROVE  wire'[<<p, q>>] = Pending(p, q)'
    BY DEF Wired, Peers
  <2>1. q \in Ranks /\ q # p /\ <<p, q>> \in Pairs
    BY DEF Peers, Pairs
  <2>2. wire[<<p, q>>] = Pending(p, q)
    BY DEF IInv, Wired
  <2>3. Count(p, q)' = Count(p, q) /\ ListOf(p, q)' = ListOf(p, q) /\ Wants(p, q)' = Wants(p, q)
    BY <2>1, <1>5 DEF Count, Wants
  <2>4. CASE p = r
    <3>1. ~Begun(p) /\ Begun(p)' /\ ~Listed(p)' /\ ~Listed(q)' /\ ~Taken(q)'
      BY <2>1, <2>4, <1>1, <1>4, <1>7 DEF Begun, Listed, Taken, Peers
    <3>2. Pending(p, q) = <<>>
      BY <3>1 DEF Pending
    <3>3. Pending(p, q)' = <<Count(p, q)>>
      BY <3>1, <2>3, Zenon DEF Pending
    <3>4. wire'[<<p, q>>] = Append(wire[<<p, q>>], Count(p, q))
      BY <2>1, <2>4, <1>3 DEF Count
    <3> QED BY <3>2, <3>3, <3>4, <2>2, Messages
  <2>5. CASE p # r
    <3>1. wire'[<<p, q>>] = wire[<<p, q>>]
      BY <2>1, <2>5, <1>3
    <3>2. Begun(p)' = Begun(p) /\ Listed(p)' = Listed(p) /\ Listed(q)' = Listed(q) /\ Taken(q)' = Taken(q)
      BY <2>1, <2>5, <1>1, <1>4 DEF Begun, Listed, Taken
    <3>3. Pending(p, q)' = Pending(p, q)
      BY <2>3, <3>2, Zenon DEF Pending
    <3> QED BY <3>1, <3>3, <2>2
  <2> QED BY <2>4, <2>5
<1> QED BY <1>8, <1>9, <1>10, <1>11, <1>12, <1>13 DEF IInv

(* The counts of all peers are in: each is the first message of its pair.  *)
LEMMA ExchangeListsIInv ==
  ASSUME IInv, NEW r \in Ranks, ExchangeLists(r)
  PROVE  IInv'
<1>1. phase[r] = "counts" /\ phase' = [phase EXCEPT ![r] = "lists"]
  BY DEF ExchangeLists
<1>2. UNCHANGED <<entries, recvMap, sendMap>>
  BY DEF ExchangeLists, given
<1>3. /\ countIn' = [countIn EXCEPT ![r] = [p \in Ranks |->
                       IF p = r THEN 0 ELSE wire[<<p, r>>][1][1]]]
      /\ wire' = [e \in Pairs |->
           CASE e[2] = r -> Tail(wire[e])
             [] e[1] = r /\ HasNews(r, e[2]) -> Append(wire[e], recvMap[r][e[2]])
             [] OTHER -> wire[e]]
      /\ \A p \in Peers(r) : wire[<<p, r>>] # <<>>
  BY DEF ExchangeLists
<1>4. /\ phase' \in [Ranks -> Phases] /\ phase'[r] = "lists"
      /\ \A q \in Ranks \ {r} : phase'[q] = phase[q]
  BY <1>1, OthersStay DEF IInv, Phases
<1>5. \A q, p \in Ranks : ListOf(q, p)' = ListOf(q, p)
  BY <1>2, RowsStay
<1>6. \A q \in Ranks : RemoteColumns(q, Size)' = RemoteColumns(q, Size)
  BY <1>2, BoundsStay
<1>7. \A p \in Peers(r) :
        /\ Begun(p)
        /\ wire[<<p, r>>] = IF Listed(p) /\ Wants(p, r) THEN <<Count(p, r), ListOf(p, r)>>
                                                        ELSE <<Count(p, r)>>
  <2> SUFFICES ASSUME NEW p \in Peers(r)
               PROVE  /\ Begun(p)
                      /\ wire[<<p, r>>] = IF Listed(p) /\ Wants(p, r)
                                             THEN <<Count(p, r), ListOf(p, r)>>
                                             ELSE <<Count(p, r)>>
    OBVIOUS
  <2>1. p \in Ranks /\ r \in Peers(p)
    BY DEF Peers
  <2>2. wire[<<p, r>>] = Pending(p, r) /\ wire[<<p, r>>] # <<>>
    BY <2>1, <1>3 DEF IInv, Wired
  <2>3. ~Listed(r) /\ ~Taken(r)
    BY <1>1 DEF Listed, Taken
  <2> QED BY <2>2, <2>3, Zenon DEF Pending
<1>8. Shapes'
  <2>1. countIn' = [q \in Ranks |-> countIn'[q]]
    BY <1>3 DEF IInv, Shapes
  <2>2. wire' = [e \in Pairs |-> wire'[e]]
    <3> DEFINE after(e) ==
           CASE e[2] = r -> Tail(wire[e])
             [] e[1] = r /\ HasNews(r, e[2]) -> Append(wire[e], recvMap[r][e[2]])
             [] OTHER -> wire[e]
    <3>1. wire' = [e \in Pairs |-> after(e)]
      BY <1>3
    <3> HIDE DEF after
    <3> QED BY <3>1
  <2> QED BY <2>1, <2>2, <1>2, <1>4 DEF IInv, Shapes
<1>9. RowsFinite'
  BY <1>2 DEF IInv, RowsFinite
<1>10. \A q \in Ranks : Lists(q)'
  <2>1. \A q \in Ranks : Begun(q)' => Begun(q)
    BY <1>1, <1>4 DEF Begun
  <2> QED BY <2>1, <1>2, <1>5, <1>6 DEF IInv, Lists, Begun, OutOfBounds
<1>11. \A q \in Ranks : Heard(q)'
  <2> TAKE q \in Ranks
  <2>1. \A p \in Ranks : Begun(p) => Begun(p)'
    BY <1>1, <1>4 DEF Begun
  <2>2. CASE q = r
    <3>1. countIn'[r] = [p \in Ranks |-> IF p = r THEN 0 ELSE wire[<<p, r>>][1][1]]
      BY <1>3 DEF IInv, Shapes
    <3>2. \A p \in Peers(r) : wire[<<p, r>>][1] = Count(p, r)
      <4> TAKE p \in Peers(r)
      <4>1. CASE Listed(p) /\ Wants(p, r)
        <5>1. wire[<<p, r>>] = <<Count(p, r), ListOf(p, r)>>
          BY <4>1, <1>7
        <5> QED BY <5>1, Messages
      <4>2. CASE ~(Listed(p) /\ Wants(p, r))
        <5>1. wire[<<p, r>>] = <<Count(p, r)>>
          BY <4>2, <1>7
        <5> QED BY <5>1, Messages
      <4> QED BY <4>1, <4>2
    <3>3. \A p \in Peers(r) : countIn'[r][p] = Len(ListOf(p, r))
      BY <3>1, <3>2, Messages DEF Count, Peers
    <3> QED BY <2>1, <2>2, <3>3, <1>5, <1>7 DEF Heard, Peers, Begun
  <2>3. CASE q # r
    <3>1. countIn'[q] = countIn[q] /\ phase'[q] = phase[q]
      BY <2>3, <1>3, <1>4 DEF IInv, Shapes
    <3> QED BY <2>1, <3>1, <1>5 DEF IInv, Heard, Peers, Listed, Begun
  <2> QED BY <2>2, <2>3
<1>12. \A q \in Ranks : Answered(q)'
  <2>1. \A p \in Ranks : Listed(p) => Listed(p)'
    BY <1>1, <1>4 DEF Listed
  <2>2. \A q \in Ranks : Taken(q)' => Taken(q)
    BY <1>1, <1>4 DEF Taken
  <2> QED BY <2>1, <2>2, <1>2, <1>5 DEF IInv, Answered, Peers, Listed, Taken, Wants
<1>13. Wired'
  <2> SUFFICES ASSUME NEW p \in Ranks, NEW q \in Peers(p)
               PROVE  wire'[<<p, q>>] = Pending(p, q)'
    BY DEF Wired, Peers
  <2>1. q \in Ranks /\ q # p /\ <<p, q>> \in Pairs /\ p \in Peers(q)
    BY DEF Peers, Pairs
  <2>2. wire[<<p, q>>] = Pending(p, q)
    BY DEF IInv, Wired
  <2>3. Count(p, q)' = Count(p, q) /\ ListOf(p, q)' = ListOf(p, q) /\ Wants(p, q)' = Wants(p, q)
    BY <2>1, <1>5 DEF Count, Wants
  <2>4. CASE q = r
    <3>1. wire'[<<p, q>>] = Tail(wire[<<p, q>>])
      BY <2>1, <2>4, <1>3
    <3>2. Begun(p)' /\ ~Taken(q)' /\ Listed(q)' /\ Listed(p)' = Listed(p)
      BY <2>1, <2>4, <1>1, <1>4, <1>7 DEF Begun, Listed, Taken, Peers
    <3>3. Pending(p, q)' = IF Listed(p) /\ Wants(p, q) THEN <<ListOf(p, q)>> ELSE <<>>
      BY <2>3, <3>2, Zenon DEF Pending
    <3>4. wire[<<p, q>>] = IF Listed(p) /\ Wants(p, q) THEN <<Count(p, q), ListOf(p, q)>>
                                                       ELSE <<Count(p, q)>>
      BY <2>1, <2>4, <1>7
    <3> QED BY <3>1, <3>3, <3>4, Messages
  <2>5. CASE p = r
    <3>1. HasNews(r, q) = Wants(r, q) /\ recvMap[r][q] = ListOf(r, q)
      BY <2>1, <1>1 DEF IInv, Lists, Begun, HasNews, Wants
    <3>2. wire'[<<p, q>>] = IF Wants(p, q) THEN Append(wire[<<p, q>>], ListOf(p, q))
                                           ELSE wire[<<p, q>>]
      BY <2>1, <2>5, <3>1, <1>3
    <3>3. /\ Begun(p) /\ Begun(p)' /\ ~Listed(p) /\ Listed(p)'
          /\ Listed(q)' = Listed(q) /\ Taken(q)' = Taken(q)
          /\ Taken(q) => ~Wants(p, q)
      <4>1. Begun(p) /\ Begun(p)' /\ ~Listed(p) /\ Listed(p)'
        BY <2>5, <1>1, <1>4 DEF Begun, Listed
      <4>2. Listed(q)' = Listed(q) /\ Taken(q)' = Taken(q)
        BY <2>1, <2>5, <1>4 DEF Listed, Taken
      <4>3. Taken(q) => ~Wants(p, q)
        BY <4>1, <2>1 DEF IInv, Answered
      <4> QED BY <4>1, <4>2, <4>3
    <3>4. CASE Taken(q)
      <4>1. Pending(p, q) = <<>> /\ Pending(p, q)' = <<>> /\ ~Wants(p, q)
        BY <3>3, <3>4, Zenon DEF Pending
      <4> QED BY <4>1, <3>2, <2>2
    <3>5. CASE ~Taken(q) /\ Listed(q)
      <4>1. Pending(p, q) = <<>>
        BY <3>3, <3>5, Zenon DEF Pending
      <4>2. Pending(p, q)' = IF Wants(p, q) THEN <<ListOf(p, q)>> ELSE <<>>
        BY <2>3, <3>3, <3>5, Zenon DEF Pending
      <4> QED BY <4>1, <4>2, <3>2, <2>2, Messages
    <3>6. CASE ~Taken(q) /\ ~Listed(q)
      <4>1. Pending(p, q) = <<Count(p, q)>>
        BY <3>3, <3>6, Zenon DEF Pending
      <4>2. Pending(p, q)' = IF Wants(p, q) THEN <<Count(p, q), ListOf(p, q)>>
                                            ELSE <<Count(p, q)>>
        BY <2>3, <3>3, <3>6, Zenon DEF Pending
      <4>3. Append(<<Count(p, q)>>, ListOf(p, q)) = <<Count(p, q), ListOf(p, q)>>
        BY Messages
      <4>4. wire[<<p, q>>] = <<Count(p, q)>>
        BY <4>1, <2>2
      <4>5. CASE Wants(p, q)
        BY <4>2, <4>3, <4>4, <4>5, <3>2
      <4>6. CASE ~Wants(p, q)
        BY <4>2, <4>4, <4>6, <3>2
      <4> QED BY <4>5, <4>6
    <3> QED BY <3>4, <3>5, <3>6
  <2>6. CASE p # r /\ q # r
    <3>1. wire'[<<p, q>>] = wire[<<p, q>>]
      BY <2>1, <2>6, <1>3
    <3>2. Begun(p)' = Begun(p) /\ Listed(p)' = Listed(p) /\ Listed(q)' = Listed(q) /\ Taken(q)' = Taken(q)
      BY <2>1, <2>6, <1>4 DEF Begun, Listed, Taken
    <3>3. Pending(p, q)' = Pending(p, q)
      BY <2>3, <3>2, Zenon DEF Pending
    <3> QED BY <3>1, <3>3, <2>2
  <2> QED BY <2>4, <2>5, <2>6
<1> QED BY <1>8, <1>9, <1>10, <1>11, <1>12, <1>13 DEF IInv

(* A list is received from the peers that announced one, and is the last   *)
(* message of its pair.                                                    *)
LEMMA TakeListsIInv ==
  ASSUME IInv, NEW r \in Ranks, TakeLists(r)
  PROVE  IInv'
<1>1. phase[r] = "lists" /\ phase' = [phase EXCEPT ![r] = "index"]
  BY DEF TakeLists
<1>2. UNCHANGED <<entries, recvMap, countIn>>
  BY DEF TakeLists, given
<1>3. /\ sendMap' = [sendMap EXCEPT ![r] = [p \in Ranks |->
           IF p \in Askers(r) THEN Cleaned(wire[<<p, r>>][1]) ELSE <<>>]]
      /\ wire' = [e \in Pairs |-> IF e[2] = r /\ e[1] \in Askers(r)
                                     THEN Tail(wire[e]) ELSE wire[e]]
      /\ \A p \in Askers(r) : wire[<<p, r>>] # <<>>
  BY DEF TakeLists
<1>4. /\ phase' \in [Ranks -> Phases] /\ phase'[r] = "index"
      /\ \A q \in Ranks \ {r} : phase'[q] = phase[q]
  BY <1>1, OthersStay DEF IInv, Phases
<1>5. \A q, p \in Ranks : ListOf(q, p)' = ListOf(q, p)
  BY <1>2, RowsStay
<1>6. \A q \in Ranks : RemoteColumns(q, Size)' = RemoteColumns(q, Size)
  BY <1>2, BoundsStay
<1>7. \A p \in Peers(r) :
        /\ p \in Askers(r) <=> Wants(p, r)
        /\ Wants(p, r) => Listed(p) /\ wire[<<p, r>>] = <<ListOf(p, r)>>
        /\ ~Wants(p, r) => wire[<<p, r>>] = <<>>
  <2> SUFFICES ASSUME NEW p \in Peers(r)
               PROVE  /\ p \in Askers(r) <=> Wants(p, r)
                      /\ Wants(p, r) => Listed(p) /\ wire[<<p, r>>] = <<ListOf(p, r)>>
                      /\ ~Wants(p, r) => wire[<<p, r>>] = <<>>
    OBVIOUS
  <2>1. p \in Ranks /\ r \in Peers(p)
    BY DEF Peers
  <2>2. Listed(r) /\ ~Taken(r)
    BY <1>1 DEF Listed, Taken
  <2>3. Begun(p) /\ countIn[r][p] = Len(ListOf(p, r))
    BY <2>2 DEF IInv, Heard
  <2>4. p \in Askers(r) <=> Wants(p, r)
    BY <2>3 DEF Askers, Wants
  <2>5. wire[<<p, r>>] = Pending(p, r)
    BY <2>1 DEF IInv, Wired
  <2>6. Pending(p, r) = IF Listed(p) /\ Wants(p, r) THEN <<ListOf(p, r)>> ELSE <<>>
    BY <2>2, <2>3, Zenon DEF Pending
  <2>7. Wants(p, r) => wire[<<p, r>>] # <<>>
    BY <2>4, <1>3
  <2> QED BY <2>4, <2>5, <2>6, <2>7
<1>8. Shapes'
  <2>1. sendMap' = [q \in Ranks |-> sendMap'[q]]
    BY <1>3 DEF IInv, Shapes
  <2>2. wire' = [e \in Pairs |-> wire'[e]]
    <3> DEFINE after(e) == IF e[2] = r /\ e[1] \in Askers(r) THEN Tail(wire[e]) ELSE wire[e]
    <3>1. wire' = [e \in Pairs |-> after(e)]
      BY <1>3
    <3> HIDE DEF after
    <3> QED BY <3>1
  <2> QED BY <2>1, <2>2, <1>2, <1>4 DEF IInv, Shapes
<1>9. RowsFinite'
  BY <1>2 DEF IInv, RowsFinite
<1>10. \A q \in Ranks : Lists(q)'
  <2>1. \A q \in Ranks : Begun(q)' => Begun(q)
    BY <1>1, <1>4 DEF Begun
  <2> QED BY <2>1, <1>2, <1>5, <1>6 DEF IInv, Lists, Begun, OutOfBounds
<1>11. \A q \in Ranks : Heard(q)'
  <2>1. \A p \in Ranks : Begun(p) => Begun(p)'
    BY <1>1, <1>4 DEF Begun
  <2>2. \A q \in Ranks : Listed(q)' => Listed(q)
    BY <1>1, <1>4 DEF Listed
  <2> QED BY <2>1, <2>2, <1>2, <1>5 DEF IInv, Heard, Peers, Listed, Begun
<1>12. \A q \in Ranks : Answered(q)'
  <2> TAKE q \in Ranks
  <2>1. \A p \in Ranks : Listed(p) => Listed(p)'
    BY <1>1, <1>4 DEF Listed
  <2>2. CASE q = r
    <3>1. sendMap'[r] = [p \in Ranks |->
            IF p \in Askers(r) THEN Cleaned(wire[<<p, r>>][1]) ELSE <<>>]
      BY <1>3 DEF IInv, Shapes
    <3>2. \A p \in Peers(r) : sendMap'[r][p] = ListOf(p, r)
      <4> TAKE p \in Peers(r)
      <4>1. p \in Ranks /\ r \in Ranks /\ r \in Peers(p)
        BY DEF Peers
      <4>2. Cleaned(ListOf(p, r)) = ListOf(p, r) /\ (~Wants(p, r) => ListOf(p, r) = <<>>)
        BY <4>1, ListsClean DEF IInv
      <4>3. CASE Wants(p, r)
        <5>1. p \in Askers(r) /\ wire[<<p, r>>] = <<ListOf(p, r)>>
          BY <4>3, <1>7, Zenon
        <5>2. wire[<<p, r>>][1] = ListOf(p, r)
          BY <5>1, Messages
        <5> QED BY <4>1, <4>2, <5>1, <5>2, <3>1
      <4>4. CASE ~Wants(p, r)
        <5>1. p \notin Askers(r)
          BY <4>4, <1>7, Zenon
        <5> QED BY <4>1, <4>2, <4>4, <5>1, <3>1
      <4> QED BY <4>3, <4>4
    <3>3. \A p \in Peers(r) : p \in Ranks /\ (Wants(p, r) => Listed(p)')
      BY <2>1, <1>7, Zenon DEF Peers
    <3> QED BY <2>2, <3>2, <3>3, <1>5 DEF Answered, Peers, Wants
  <2>3. CASE q # r
    <3>1. sendMap'[q] = sendMap[q] /\ phase'[q] = phase[q]
      BY <2>3, <1>3, <1>4 DEF IInv, Shapes
    <3> QED BY <2>1, <3>1, <1>5 DEF IInv, Answered, Peers, Listed, Taken, Wants
  <2> QED BY <2>2, <2>3
<1>13. Wired'
  <2> SUFFICES ASSUME NEW p \in Ranks, NEW q \in Peers(p)
               PROVE  wire'[<<p, q>>] = Pending(p, q)'
    BY DEF Wired, Peers
  <2>1. q \in Ranks /\ q # p /\ <<p, q>> \in Pairs /\ p \in Peers(q)
    BY DEF Peers, Pairs
  <2>2. wire[<<p, q>>] = Pending(p, q)
    BY DEF IInv, Wired
  <2>3. Count(p, q)' = Count(p, q) /\ ListOf(p, q)' = ListOf(p, q) /\ Wants(p, q)' = Wants(p, q)
    BY <2>1, <1>5 DEF Count, Wants
  <2>4. CASE q = r
    <3>1. Taken(q)'
      BY <2>4, <1>4 DEF Taken
    <3>2. Pending(p, q)' = <<>>
      BY <3>1, Zenon DEF Pending
    <3>3. wire'[<<p, q>>] = IF p \in Askers(r) THEN Tail(wire[<<p, q>>]) ELSE wire[<<p, q>>]
      BY <2>1, <2>4, <1>3
    <3>4. p \in Askers(r) => wire[<<p, q>>] = <<ListOf(p, q)>>
      BY <2>1, <2>4, <1>7, Zenon
    <3>5. p \notin Askers(r) => wire[<<p, q>>] = <<>>
      BY <2>1, <2>4, <1>7, Zenon
    <3>6. wire'[<<p, q>>] = <<>>
      BY <3>3, <3>4, <3>5, Messages
    <3> QED BY <3>2, <3>6
  <2>5. CASE q # r
    <3>1. wire'[<<p, q>>] = wire[<<p, q>>]
      BY <2>1, <2>5, <1>3
    <3>2. Begun(p)' = Begun(p) /\ Listed(p)' = Listed(p) /\ Listed(q)' = Listed(q) /\ Taken(q)' = Taken(q)
      BY <2>1, <2>5, <1>1, <1>4 DEF Begun, Listed, Taken
    <3>3. Pending(p, q)' = Pending(p, q)
      BY <2>3, <3>2, Zenon DEF Pending
    <3> QED BY <3>1, <3>3, <2>2
  <2> QED BY <2>4, <2>5
<1> QED BY <1>8, <1>9, <1>10, <1>11, <1>12, <1>13 DEF IInv

LEMMA StepIInv == IInv /\ [Next]_vars => IInv'
<1> SUFFICES ASSUME IInv, [Next]_vars PROVE IInv'
  OBVIOUS
<1>1. CASE UNCHANGED vars
  <2>1. UNCHANGED <<entries, phase, recvMap, countIn, sendMap, wire>>
    BY <1>1 DEF vars, given
  <2>2. RowsFinite' /\ Shapes'
    BY <2>1 DEF IInv, Shapes, RowsFinite
  <2>3. \A q, p \in Ranks : ListOf(q, p)' = ListOf(q, p)
    BY <2>1, RowsStay
  <2>4. \A q \in Ranks : RemoteColumns(q, Size)' = RemoteColumns(q, Size)
    BY <2>1, BoundsStay
  <2>5. \A q \in Ranks : Lists(q)'
    BY <2>1, <2>3, <2>4 DEF IInv, Lists, Begun, OutOfBounds
  <2>6. \A q \in Ranks : Heard(q)'
    BY <2>1, <2>3 DEF IInv, Heard, Peers, Listed, Begun
  <2>7. \A q \in Ranks : Answered(q)'
    BY <2>1, <2>3 DEF IInv, Answered, Peers, Taken, Listed, Wants
  <2>8. Wired'
    <3> SUFFICES ASSUME NEW p \in Ranks, NEW q \in Peers(p)
                 PROVE  wire'[<<p, q>>] = Pending(p, q)'
      BY DEF Wired, Peers
    <3>1. q \in Ranks /\ wire'[<<p, q>>] = Pending(p, q)
      BY <2>1 DEF IInv, Wired, Peers
    <3>2. Count(p, q)' = Count(p, q) /\ ListOf(p, q)' = ListOf(p, q) /\ Wants(p, q)' = Wants(p, q)
      BY <3>1, <2>3 DEF Count, Wants
    <3>3. Begun(p)' = Begun(p) /\ Listed(p)' = Listed(p) /\ Listed(q)' = Listed(q) /\ Taken(q)' = Taken(q)
      BY <2>1 DEF Begun, Listed, Taken
    <3>4. Pending(p, q)' = Pending(p, q)
      BY <3>2, <3>3, Zenon DEF Pending
    <3> QED BY <3>1, <3>4
  <2> QED BY <2>2, <2>5, <2>6, <2>7, <2>8 DEF IInv
<1>2. ASSUME NEW r \in Ranks, Step(r) PROVE IInv'
  BY <1>2, RejectIInv, PostCountsIInv, ExchangeListsIInv, TakeListsIInv, FinishIInv DEF Step
<1> QED BY <1>1, <1>2 DEF Next

(* What ranks have exchanged follows from their phases and rows.           *)
LEMMA Handshake == Spec => []IInv
BY InitIInv, StepIInv, PTL DEF Spec

------------------------------------------------------------------------------
(* The theorems.                                                           *)

(* The i-th value that p packs for r is the i-th ghost that r unpacks from *)
(* p (send_map of p, recv_map of r).                                       *)
THEOREM PlansAlwaysAgree == Spec => []PlansAgree
<1>1. IInv => PlansAgree
  <2> SUFFICES ASSUME IInv, NEW p \in Ranks, NEW r \in Ranks, p # r,
                      phase[p] = "ready", phase[r] \in {"index", "ready", "failed"}
               PROVE  sendMap[p][r] = recvMap[r][p]
    BY DEF PlansAgree
  <2>1. sendMap[p][r] = ListOf(r, p)
    BY DEF IInv, Answered, Taken, Peers
  <2>2. recvMap[r][p] = ListOf(r, p)
    BY DEF IInv, Lists, Begun
  <2> QED BY <2>1, <2>2
<1> QED BY <1>1, Handshake, PTL

(* No message of the handshake is left for the exchanges that follow with  *)
(* the same tag.                                                           *)
THEOREM NothingEverLeftOver == Spec => []NothingLeftOver
<1>1. IInv => NothingLeftOver
  <2> SUFFICES ASSUME IInv, \A r \in Ranks : phase[r] \in {"ready", "failed"}, NEW e \in Pairs
               PROVE  wire[e] = <<>>
    BY DEF NothingLeftOver
  <2>1. PICK p \in Ranks, r \in Ranks : e = <<p, r>> /\ p # r
    BY DEF Pairs
  <2>2. wire[e] = Pending(p, r)
    BY <2>1 DEF IInv, Wired, Peers
  <2>3. Taken(r)
    BY DEF Taken
  <2> QED BY <2>2, <2>3, Zenon DEF Pending
<1> QED BY <1>1, Handshake, PTL

(* Nobody gets past the counts while a rank refuses its rows: the error of *)
(* one rank cannot leave others with a plan that counts on it.             *)
THEOREM NobodyEverAhead == Spec => []NobodyAheadOfRefused
<1>1. IInv => NobodyAheadOfRefused
  <2> SUFFICES ASSUME IInv, NEW r \in Ranks, phase[r] = "refused", NEW q \in Ranks
               PROVE  phase[q] \in {"rows", "counts", "refused"}
    BY DEF NobodyAheadOfRefused
  <2>1. q # r => ~Listed(q)
    BY DEF IInv, Heard, Begun, Peers
  <2> QED BY <2>1 DEF IInv, Shapes, Phases, Listed
<1> QED BY <1>1, Handshake, PTL

(* A column of the matrix has an owner: the rank before the first bound    *)
(* above it.                                                               *)
LEMMA OwnerExists ==
  ASSUME NEW c \in Nat
  PROVE  OwnerOf(c) \in Ranks \cup {Size}
<1>1. CASE c >= NGlobal
  BY <1>1 DEF OwnerOf
<1>2. CASE ~(c >= NGlobal)
  <2> DEFINE T == {k \in 0..Size : c < First[k]}
  <2>1. Size \in Nat \ {0} /\ NGlobal \in Nat /\ First[0] = 0 /\ First[Size] = NGlobal
    BY IndexAssumption, SizesAssumption
  <2>2. T \subseteq Nat /\ Size \in T
    BY <1>2, <2>1
  <2>3. PICK k \in T : \A y \in T : k <= y
    BY <2>2, LeastOf
  <2>4. k \in 1..Size
    BY <2>1, <2>3
  <2>5. k - 1 \in 0..Size /\ ~(k <= k - 1)
    BY <2>1, <2>4
  <2>6. k - 1 \notin T
    BY <2>3, <2>5
  <2>7. First[k - 1] \in Nat
    BY <2>5, IndexAssumption, SizesAssumption
  <2>8. First[k - 1] <= c /\ c < First[(k - 1) + 1] /\ k - 1 \in Ranks
    BY <2>1, <2>3, <2>4, <2>5, <2>6, <2>7 DEF Ranks
  <2>9. \E r \in Ranks : First[r] <= c /\ c < First[r + 1]
    BY <2>8
  <2> QED BY <1>2, <2>9 DEF OwnerOf
<1> QED BY <1>1, <1>2

(* Every remote column of a local row has exactly one ghost (recv_map,     *)
(* ghost_index_of): its owner's list has it once, the other lists do not.  *)
THEOREM GhostsAlwaysComplete == Spec => []GhostsComplete
<1>1. IInv => GhostsComplete
  <2> SUFFICES ASSUME IInv, NEW r \in Ranks, phase[r] = "ready",
                      NEW i \in DOMAIN entries[r], OwnerOf(entries[r][i]) # r
               PROVE  \E g \in GhostPlaces(r) : \A h \in GhostPlaces(r) :
                        GhostColumn(r, h) = entries[r][i] <=> h = g
    BY DEF GhostsComplete
  <2> DEFINE c == entries[r][i]
             o == OwnerOf(c)
  <2>1. ~OutOfBounds(r) /\ recvMap[r] = [p \in Ranks |-> ListOf(r, p)]
    BY DEF IInv, Lists, Begun
  <2>2. o \in Ranks /\ o # r
    <3>1. o # Size
      BY <2>1 DEF OutOfBounds, RemoteColumns
    <3>2. c \in Nat
      BY DEF IInv, RowsFinite
    <3> QED BY <3>1, <3>2, OwnerExists
  <2>3. \A p \in Ranks : p # r =>
          /\ ListOf(r, p) \in Seq(Nat)
          /\ ToSet(ListOf(r, p)) = {entries[r][k] : k \in {l \in DOMAIN entries[r] : OwnerOf(entries[r][l]) = p}}
          /\ \A m, n \in DOMAIN ListOf(r, p) : m < n => ListOf(r, p)[m] < ListOf(r, p)[n]
    <3> SUFFICES ASSUME NEW p \in Ranks, p # r
                 PROVE  /\ ListOf(r, p) \in Seq(Nat)
                        /\ ToSet(ListOf(r, p)) = {entries[r][k] : k \in {l \in DOMAIN entries[r] : OwnerOf(entries[r][l]) = p}}
                        /\ \A m, n \in DOMAIN ListOf(r, p) : m < n => ListOf(r, p)[m] < ListOf(r, p)[n]
      OBVIOUS
    <3>1. ListOf(r, p) = Cleaned(RemoteColumns(r, p)) /\ RowsFinite
      BY DEF ListOf, IInv
    <3> QED BY <3>1, RemoteSet, CleanedLists
  <2>4. PICK k \in DOMAIN ListOf(r, o) : ListOf(r, o)[k] = c
    <3>1. c \in ToSet(ListOf(r, o))
      BY <2>2, <2>3
    <3> HIDE DEF c, o
    <3> QED BY <3>1 DEF ToSet
  <2> DEFINE g == <<o, k>>
  <2>5. g \in GhostPlaces(r) /\ GhostColumn(r, g) = c
    BY <2>1, <2>2, <2>4 DEF GhostPlaces, GhostColumn
  <2>6. ASSUME NEW h \in GhostPlaces(r), GhostColumn(r, h) = c
        PROVE  h = g
    <3>1. PICK p \in Ranks : \E m \in DOMAIN ListOf(r, p) : h = <<p, m>>
      BY <2>1 DEF GhostPlaces
    <3>2. PICK m \in DOMAIN ListOf(r, p) : h = <<p, m>>
      BY <3>1
    <3>3. ListOf(r, p)[m] = c
      BY <2>1, <2>6, <3>2 DEF GhostColumn
    <3>4. p # r
      BY <3>2 DEF ListOf
    <3>5. p = o
      <4>1. c \in ToSet(ListOf(r, p))
        BY <3>2, <3>3 DEF ToSet
      <4> QED BY <4>1, <2>3, <3>4
    <3>6. m \in Nat /\ k \in Nat
      BY <2>2, <2>3, <2>4, <3>2, <3>5
    <3>7. c \in Nat
      BY DEF IInv, RowsFinite
    <3>8. ~(m < k) /\ ~(k < m)
      <4> HIDE DEF c, o
      <4> QED BY <2>2, <2>3, <2>4, <3>2, <3>3, <3>5, <3>7
    <3> QED BY <3>2, <3>5, <3>6, <3>8
  <2> QED BY <2>5, <2>6
<1> QED BY <1>1, Handshake, PTL

------------------------------------------------------------------------------
(* The search for the owner of a column (RowPartition).                    *)

(* The first row of rank k in the balanced partition.                      *)
SumOf(k) == k * Base + (IF k < Rem THEN k ELSE Rem)

(* While the partition is built, s is the first row of the next rank.      *)
Building ==
  Len(starts) <= Size =>
    /\ s = SumOf(Len(starts))
    /\ \A i \in 1..Len(starts) : starts[i] <= s
    /\ lo = 0 /\ hi = Size - 1 /\ owner = -1

Ordered ==
  /\ Monotone(starts)
  /\ Len(starts) >= 1 => starts[1] = 0
  /\ Len(starts) = Size + 1 => starts[Size + 1] = NGlobal

(* The owner of an existing column is between lo and hi.                   *)
Narrowed ==
  Len(starts) = Size + 1 /\ owner = -1 =>
    /\ starts[lo + 1] <= j
    /\ IF j < NGlobal THEN lo <= hi /\ j < starts[hi + 2]
                      ELSE hi = Size - 1

SearchInv == PartitionTypeOK /\ Building /\ Ordered /\ Narrowed /\ OwnerFound

-----------------------------------------------------------------------------
LEMMA Division == /\ Base \in Nat /\ Rem \in Nat /\ Rem < Size
                  /\ NGlobal = Size * Base + Rem
BY SizesAssumption DEF Base, Rem, SizesAssumption

LEMMA SumStep ==
  ASSUME NEW k \in Nat, k < Size
  PROVE  /\ SumOf(k) \in Nat
         /\ SumOf(k + 1) = SumOf(k) + Base + (IF k < Rem THEN 1 ELSE 0)
<1>1. k * Base \in Nat /\ (k + 1) * Base = k * Base + Base
  BY Division
<1> QED
  BY <1>1, Division DEF SumOf

LEMMA SumEnds == SumOf(0) = 0 /\ SumOf(Size) = NGlobal
<1>1. 0 * Base = 0
  BY Division
<1> QED
  BY <1>1, Division, SizesAssumption DEF SumOf, SizesAssumption

LEMMA PartitionStarts == PartitionInit => SearchInv
<1> SUFFICES ASSUME PartitionInit PROVE SearchInv
  OBVIOUS
<1> USE SizesAssumption DEF SizesAssumption
<1>1. /\ s = 0 /\ j \in Columns /\ j \in Nat /\ lo = 0 /\ hi = Size - 1 /\ owner = -1
  BY DEF PartitionInit
<1>2. CASE InitGiven
  <2>1. /\ starts \in [1..(Size + 1) -> 0..NGlobal]
        /\ starts[1] = 0 /\ starts[Size + 1] = NGlobal /\ Monotone(starts)
    BY <1>2 DEF InitGiven
  <2>2. starts \in Seq(0..NGlobal) /\ Len(starts) = Size + 1
    BY <2>1
  <2>3. starts \in Seq(Nat)
    BY <2>2
  <2>4. j < NGlobal => j < starts[hi + 2]
    BY <1>1, <2>1
  <2>5. starts[lo + 1] <= j
    BY <1>1, <2>1
  <2> QED
    BY <1>1, <2>1, <2>2, <2>3, <2>4, <2>5
       DEF SearchInv, PartitionTypeOK, Building, Ordered, Narrowed, OwnerFound
<1>3. CASE InitBuilt
  <2>1. starts \in Seq(Nat) /\ Len(starts) = 0
    BY <1>3 DEF InitBuilt
  <2>2. Monotone(starts)
    BY <2>1 DEF Monotone
  <2> QED
    BY <1>1, <2>1, <2>2, SumEnds
       DEF SearchInv, PartitionTypeOK, Building, Ordered, Narrowed, OwnerFound
<1> QED
  BY <1>2, <1>3 DEF PartitionInit

(* Appending a value above all others keeps the order.                     *)
LEMMA AppendOrdered ==
  ASSUME NEW p \in Seq(Nat), NEW x \in Nat, Monotone(p),
         \A i \in 1..Len(p) : p[i] <= x
  PROVE  /\ Append(p, x) \in Seq(Nat) /\ Len(Append(p, x)) = Len(p) + 1
         /\ Len(p) \in Nat
         /\ \A i \in 1..Len(p) : Append(p, x)[i] = p[i]
         /\ Append(p, x)[Len(p) + 1] = x
         /\ \A i \in 1..(Len(p) + 1) : Append(p, x)[i] <= x
         /\ Monotone(Append(p, x))
<1>1. /\ Append(p, x) \in Seq(Nat) /\ Len(Append(p, x)) = Len(p) + 1
      /\ Len(p) \in Nat
      /\ \A i \in 1..Len(p) : Append(p, x)[i] = p[i]
      /\ Append(p, x)[Len(p) + 1] = x
  OBVIOUS
<1>2. \A i \in 1..(Len(p) + 1) : i \in 1..Len(p) \/ i = Len(p) + 1
  BY <1>1
<1>3. \A i \in 1..(Len(p) + 1) : Append(p, x)[i] <= x
  BY <1>1, <1>2
<1>4. ASSUME NEW a \in 1..(Len(p) + 1), NEW b \in 1..(Len(p) + 1), a <= b
      PROVE  Append(p, x)[a] <= Append(p, x)[b]
  <2>1. CASE b = Len(p) + 1
    BY <1>1, <1>3, <2>1
  <2>2. CASE b \in 1..Len(p)
    <3>1. a \in 1..Len(p)
      BY <1>1, <1>4, <2>2
    <3> QED
      BY <1>1, <1>4, <2>2, <3>1 DEF Monotone
  <2> QED
    BY <1>2, <2>1, <2>2
<1> QED
  BY <1>1, <1>3, <1>4 DEF Monotone

LEMMA PartitionSteps == SearchInv /\ [PartitionNext]_partitionVars => SearchInv'
<1> SUFFICES ASSUME SearchInv, [PartitionNext]_partitionVars PROVE SearchInv'
  OBVIOUS
<1> USE SizesAssumption DEF SizesAssumption, SearchInv
<1>0. /\ starts \in Seq(Nat) /\ Len(starts) \in Nat /\ Len(starts) <= Size + 1
      /\ s \in Nat /\ j \in Columns /\ j \in Nat
      /\ lo \in 0..Size /\ hi \in 0..(Size - 1) /\ owner \in -1..Size
      /\ Monotone(starts)
  BY DEF PartitionTypeOK, Ordered
<1>1. CASE PushStart
  <2>1. /\ Len(starts) < Size
        /\ starts' = Append(starts, s)
        /\ s' = s + Base + (IF Len(starts) < Rem THEN 1 ELSE 0)
        /\ UNCHANGED <<j, lo, hi, owner>>
    BY <1>1 DEF PushStart, NextStart
  <2>2. /\ s = SumOf(Len(starts)) /\ \A i \in 1..Len(starts) : starts[i] <= s
        /\ lo = 0 /\ hi = Size - 1 /\ owner = -1
    BY <1>0, <2>1 DEF Building
  <2>3. s' = SumOf(Len(starts) + 1) /\ s' \in Nat /\ s <= s'
    <3>1. SumOf(Len(starts) + 1)
            = SumOf(Len(starts)) + Base + (IF Len(starts) < Rem THEN 1 ELSE 0)
      BY <1>0, <2>1, SumStep
    <3> QED
      BY <1>0, <2>1, <2>2, <3>1, Division, SMTT(60)
  <2>4. /\ starts' \in Seq(Nat) /\ Len(starts') = Len(starts) + 1
        /\ \A i \in 1..Len(starts) : starts'[i] = starts[i]
        /\ starts'[Len(starts) + 1] = s
        /\ \A i \in 1..(Len(starts) + 1) : starts'[i] <= s
        /\ Monotone(starts')
    BY <1>0, <2>1, <2>2, AppendOrdered
  <2>5. \A i \in 1..Len(starts') : starts'[i] <= s'
    <3>1. \A i \in 1..Len(starts') : starts'[i] \in Nat
      BY <2>4
    <3> QED
      BY <1>0, <2>3, <2>4, <3>1
  <2>6. starts'[1] = 0
    <3>1. CASE Len(starts) = 0
      BY <2>2, <2>4, <3>1, SumEnds
    <3>2. CASE Len(starts) # 0
      BY <1>0, <2>4, <3>2 DEF Ordered
    <3> QED
      BY <3>1, <3>2
  <2>7. PartitionTypeOK'
    BY <1>0, <2>1, <2>3, <2>4 DEF PartitionTypeOK
  <2>8. Building'
    BY <2>1, <2>2, <2>3, <2>4, <2>5 DEF Building
  <2>9. Ordered' /\ Narrowed' /\ OwnerFound'
    BY <1>0, <2>1, <2>2, <2>4, <2>6 DEF Ordered, Narrowed, OwnerFound
  <2> QED
    BY <2>7, <2>8, <2>9
<1>2. CASE PushEnd
  <2>1. /\ Len(starts) = Size
        /\ starts' = Append(starts, NGlobal)
        /\ UNCHANGED <<s, j, lo, hi, owner>>
    BY <1>2 DEF PushEnd
  <2>2. /\ s = NGlobal /\ \A i \in 1..Len(starts) : starts[i] <= NGlobal
        /\ lo = 0 /\ hi = Size - 1 /\ owner = -1
    BY <1>0, <2>1, SumEnds DEF Building
  <2>3. /\ starts' \in Seq(Nat) /\ Len(starts') = Size + 1
        /\ \A i \in 1..Size : starts'[i] = starts[i]
        /\ starts'[Size + 1] = NGlobal
        /\ Monotone(starts')
    BY <1>0, <2>1, <2>2, AppendOrdered
  <2>4. starts'[1] = 0
    BY <1>0, <2>1, <2>3 DEF Ordered
  <2>5. PartitionTypeOK'
    BY <1>0, <2>1, <2>3 DEF PartitionTypeOK
  <2>6. Building' /\ Ordered' /\ OwnerFound'
    BY <1>0, <2>1, <2>2, <2>3, <2>4 DEF Building, Ordered, OwnerFound
  <2>7. Narrowed'
    BY <1>0, <2>1, <2>2, <2>3, <2>4 DEF Narrowed
  <2> QED
    BY <2>5, <2>6, <2>7
<1>3. CASE Searching /\ UNCHANGED <<starts, s, j>>
           /\ (Found \/ GoLeft \/ GoRight)
  <2>1. /\ Len(starts) = Size + 1 /\ owner = -1 /\ lo <= hi
        /\ starts' = starts /\ s' = s /\ j' = j
    BY <1>3 DEF Searching
  <2>2. /\ starts[lo + 1] <= j
        /\ IF j < NGlobal THEN j < starts[hi + 2] ELSE hi = Size - 1
        /\ starts[1] = 0 /\ starts[Size + 1] = NGlobal
    BY <1>0, <2>1 DEF Narrowed, Ordered
  <2>3. mid \in 0..(Size - 1) /\ lo <= mid /\ mid <= hi
    BY <1>0, <2>1 DEF mid
  <2>4. \A i \in 1..(Size + 1) : starts[i] \in Nat
    BY <1>0, <2>1
  <2>5. /\ starts[mid + 1] \in Nat /\ starts[mid + 2] \in Nat
        /\ starts[mid + 2] <= NGlobal
        /\ FirstOf(mid) = starts[mid + 1] /\ FirstOf(mid + 1) = starts[mid + 2]
    <3>1. /\ mid + 1 \in 1..(Size + 1) /\ mid + 2 \in 1..(Size + 1)
          /\ (mid + 1) + 1 = mid + 2 /\ mid + 2 <= Size + 1
      BY <2>3
    <3>2. starts[mid + 2] <= starts[Size + 1]
      BY <1>0, <2>1, <3>1 DEF Monotone
    <3> QED
      BY <2>2, <2>4, <3>1, <3>2 DEF FirstOf
  <2> HIDE DEF mid
  <2>6. Building' /\ Ordered'
    BY <1>0, <2>1 DEF Building, Ordered
  <2>7. CASE Found
    <3>1. /\ starts[mid + 1] <= j /\ j < starts[mid + 2] /\ owner' = mid
          /\ lo' = lo /\ hi' = hi
      BY <2>5, <2>7 DEF Found
    <3>2. PartitionTypeOK' /\ Narrowed'
      BY <1>0, <2>1, <2>3, <3>1 DEF PartitionTypeOK, Narrowed
    <3>3. OwnerFound'
      BY <1>0, <2>1, <2>3, <2>5, <3>1 DEF OwnerFound, FirstOf
    <3> QED
      BY <2>6, <3>2, <3>3
  <2>8. CASE GoLeft
    <3>1. j < starts[mid + 1] /\ lo' = lo
      BY <2>5, <2>8 DEF GoLeft
    <3>2. lo < mid
      <4>1. ASSUME lo = mid PROVE FALSE
        BY <1>0, <2>2, <2>5, <3>1, <4>1
      <4> QED
        BY <1>0, <2>3, <4>1
    <3>3. hi' = mid - 1 /\ owner' = owner
      BY <1>0, <2>3, <2>8, <3>2 DEF GoLeft
    <3>4. hi' + 2 = mid + 1 /\ lo' <= hi' /\ hi' \in 0..(Size - 1)
      BY <1>0, <2>3, <3>1, <3>2, <3>3
    <3>5. j < NGlobal
      BY <1>0, <2>5, <2>8, <3>1 DEF GoLeft
    <3>6. PartitionTypeOK' /\ OwnerFound'
      BY <1>0, <2>1, <3>1, <3>3, <3>4 DEF PartitionTypeOK, OwnerFound
    <3>7. Narrowed'
      BY <2>1, <2>2, <3>1, <3>3, <3>4, <3>5 DEF Narrowed
    <3> QED
      BY <2>6, <3>6, <3>7
  <2>9. CASE GoRight
    <3>1. starts[mid + 2] <= j /\ lo' = mid + 1 /\ hi' = hi /\ owner' = owner
      BY <2>5, <2>9 DEF GoRight
    <3>2. lo' \in 0..Size /\ lo' + 1 = mid + 2
      BY <2>3, <3>1
    <3>3. j < NGlobal => lo' <= hi'
      <4>1. ASSUME j < NGlobal, mid = hi PROVE FALSE
        BY <1>0, <2>2, <2>5, <3>1, <4>1
      <4> QED
        BY <1>0, <2>3, <3>1, <4>1
    <3>4. PartitionTypeOK' /\ OwnerFound'
      BY <1>0, <2>1, <3>1, <3>2 DEF PartitionTypeOK, OwnerFound
    <3>5. Narrowed'
      BY <2>1, <2>2, <3>1, <3>2, <3>3 DEF Narrowed
    <3> QED
      BY <2>6, <3>4, <3>5
  <2> QED
    BY <1>3, <2>7, <2>8, <2>9
<1>4. CASE Exhausted
  <2>1. /\ Len(starts) = Size + 1 /\ owner = -1 /\ lo > hi
        /\ owner' = lo /\ UNCHANGED <<starts, s, j, lo, hi>>
    BY <1>4 DEF Exhausted
  <2>2. ~(j < NGlobal) /\ hi = Size - 1
    BY <1>0, <2>1 DEF Narrowed
  <2>3. owner' = Size
    BY <1>0, <2>1, <2>2
  <2> QED
    BY <1>0, <2>1, <2>2, <2>3
       DEF PartitionTypeOK, Building, Ordered, Narrowed, OwnerFound
<1>5. CASE UNCHANGED partitionVars
  <2>1. UNCHANGED <<starts, s, j, lo, hi, owner>>
    BY <1>5 DEF partitionVars
  <2> QED
    BY <2>1 DEF PartitionTypeOK, Building, Ordered, Narrowed, OwnerFound, Monotone, FirstOf
<1>6. (Found \/ GoLeft \/ GoRight) => Searching /\ UNCHANGED <<starts, s, j>>
  BY DEF Found, GoLeft, GoRight
<1> QED
  BY <1>1, <1>2, <1>3, <1>4, <1>5, <1>6 DEF PartitionNext, PartitionStep

-----------------------------------------------------------------------------
(* The state of the search is well typed: its bounds stay in range, so the *)
(* unsigned arithmetic of owner_of never wraps.                            *)
THEOREM SearchTypeCorrect == PartitionSpec => []PartitionTypeOK
<1>1. SearchInv => PartitionTypeOK
  BY DEF SearchInv
<1> QED
  BY <1>1, PartitionStarts, PartitionSteps, PTL DEF PartitionSpec

(* owner_of finds the owner of every column of every partition.            *)
THEOREM OwnerCorrect == PartitionSpec => []OwnerFound
<1>1. SearchInv => OwnerFound
  BY DEF SearchInv
<1> QED
  BY <1>1, PartitionStarts, PartitionSteps, PTL DEF PartitionSpec

(* In the partition of the handshake the search returns the owner that the *)
(* columns of the local rows are collected under.                          *)
SearchMatches ==
  owner # -1 /\ (\A r \in 0..Size : FirstOf(r) = First[r]) => owner = OwnerOf(j)

(* owner_of returns what HaloIndex takes for the owner of a column, so the *)
(* lists of the plan are those that from_local_rows collects.              *)
THEOREM SearchFindsOwner == PartitionSpec => []SearchMatches
<1>1. SearchInv => SearchMatches
  <2> SUFFICES ASSUME SearchInv, owner # -1, \A r \in 0..Size : FirstOf(r) = First[r]
               PROVE  owner = OwnerOf(j)
    BY DEF SearchMatches
  <2>1. Size \in Nat \ {0} /\ NGlobal \in Nat /\ j \in Nat
    BY SizesAssumption DEF SearchInv, PartitionTypeOK, SizesAssumption
  <2>2. Len(starts) = Size + 1
    <3>1. starts \in Seq(Nat) /\ Len(starts) <= Size + 1 /\ Len(starts) \in Nat
      BY DEF SearchInv, PartitionTypeOK
    <3>2. ~(Len(starts) <= Size)
      BY DEF SearchInv, Building
    <3> QED BY <2>1, <3>1, <3>2
  <2>3. \A m, n \in 0..Size : m <= n => First[m] <= First[n]
    <3> SUFFICES ASSUME NEW m \in 0..Size, NEW n \in 0..Size, m <= n PROVE First[m] <= First[n]
      OBVIOUS
    <3>1. m + 1 \in 1..Len(starts) /\ n + 1 \in 1..Len(starts) /\ m + 1 <= n + 1
      BY <2>1, <2>2
    <3>2. starts[m + 1] <= starts[n + 1]
      BY <3>1 DEF SearchInv, Ordered, Monotone
    <3>3. starts[m + 1] = First[m] /\ starts[n + 1] = First[n]
      BY DEF FirstOf
    <3> QED BY <3>2, <3>3
  <2>4. CASE j >= NGlobal
    BY <2>1, <2>4 DEF SearchInv, OwnerFound, OwnerOf
  <2>5. CASE ~(j >= NGlobal)
    <3>1. owner \in -1..Size /\ owner < Size /\ FirstOf(owner) <= j /\ j < FirstOf(owner + 1)
      BY <2>1, <2>5 DEF SearchInv, OwnerFound, PartitionTypeOK
    <3>2. owner \in Ranks /\ owner \in 0..Size /\ owner + 1 \in 0..Size
      BY <2>1, <3>1 DEF Ranks
    <3>3. First[owner] <= j /\ j < First[owner + 1]
      BY <3>1, <3>2
    <3>4. PICK r \in Ranks : r = OwnerOf(j) /\ First[r] <= j /\ j < First[r + 1]
      BY <2>5, <3>2, <3>3 DEF OwnerOf
    <3>5. r \in 0..Size /\ r + 1 \in 0..Size
      BY <2>1 DEF Ranks
    <3>6. \A k \in 0..Size : First[k] \in Nat
      BY <2>1, IndexAssumption
    <3>7. ~(owner < r)
      <4> SUFFICES ASSUME owner < r PROVE FALSE
        OBVIOUS
      <4>1. First[owner + 1] <= First[r]
        BY <2>3, <3>2, <3>5
      <4> QED BY <2>1, <3>2, <3>3, <3>4, <3>5, <3>6, <4>1
    <3>8. ~(r < owner)
      <4> SUFFICES ASSUME r < owner PROVE FALSE
        OBVIOUS
      <4>1. First[r + 1] <= First[owner]
        BY <2>3, <3>2, <3>5
      <4> QED BY <2>1, <3>2, <3>3, <3>4, <3>5, <3>6, <4>1
    <3> QED BY <3>2, <3>4, <3>5, <3>7, <3>8
  <2> QED BY <2>4, <2>5
<1> QED
  BY <1>1, PartitionStarts, PartitionSteps, PTL DEF PartitionSpec
=============================================================================
