--------------------------- MODULE DistAmg_proofs ---------------------------
(***************************************************************************)
(* Proofs about DistAmg: a set-up ends alike on all ranks, and what is     *)
(* applied after it is current on all of them.  They hold for any number   *)
(* of ranks, coupled in any way, every strategy, every sequence of calls   *)
(* and whatever hierarchies and numeric updates fail, on however many      *)
(* ranks: also where ranks that skip an exchange leave others in it for    *)
(* ever.                                                                   *)
(*                                                                         *)
(* The reductions cut a run into segments.  In a segment all ranks go the  *)
(* same way from the same reduction, each at its own speed; the invariant  *)
(* says where they can be, and what is on its way between two of them.     *)
(***************************************************************************)
EXTENDS DistAmg, SequenceTheorems, TLAPS

Messages == [call : Exchanges, round : Nat, of : Nat]

BuiltOK ==
  /\ built = [r \in Ranks |-> [amg |-> built[r].amg, matrix |-> built[r].matrix,
                               op |-> built[r].op, pattern |-> built[r].pattern]]
  /\ \A r \in Ranks : built[r].amg \in Nat

TypeOK ==
  /\ setting \in Settings
  /\ round \in [Ranks -> Nat]
  /\ todo = [r \in Ranks |-> todo[r]]
  /\ failed \in [Ranks -> BOOLEAN] /\ sum \in [Ranks -> BOOLEAN]
  /\ BuiltOK
  /\ outcome \in [Ranks -> [Rounds -> {"", "ok", "error"}]]
  /\ used = [r \in Ranks |-> used[r]]
  /\ inside \in [Ranks -> BOOLEAN]
  /\ mail = [e \in Pairs |-> mail[e]]

(* The last reduction: of which round, what was decided after it, and      *)
(* whether a failure was brought into it.  A solve begins as if after a    *)
(* round 0 that was concluded.                                             *)
Decisions == {"update", "updated", "conclude"}
Barriers == [k : Nat, c : Decisions, s : BOOLEAN]

(* The round is over with the decision.                                    *)
Settled(b) == b.c = "conclude" \/ (b.c = "updated" /\ ~b.s)

------------------------------------------------------------------------------
(* Where a rank can be.                                                    *)

(* What a rank has left to do, by what comes next.                         *)
AtBegin == <<"begin">>
AtGatherMatrix == <<"gather_matrix", "build", "reduce", "conclude">>
AtBuildRoot == <<"build", "reduce", "conclude">>
AtBuild == <<"build", "plan", "reduce", "conclude">>
AtPlan == <<"plan", "reduce", "conclude">>
AtHandshake == <<"handshake", "reduce", "conclude">>
AtReduce == <<"reduce", "conclude">>
AtConclude == <<"conclude">>
AtCompare == <<"compare", "reduce", "update">>
AtReduceCompared == <<"reduce", "update">>
AtUpdate == <<"update">>
AtHandshakeAdopt == <<"handshake", "adopt", "reduce", "updated">>
AtAdopt == <<"adopt", "reduce", "updated">>
AtReduceUpdated == <<"reduce", "updated">>
AtUpdated == <<"updated">>
AtReport == <<"report", "verdict", "refused">>
AtVerdict == <<"verdict", "refused">>
AtRefused == <<"refused">>
AtApplyRoot == <<"apply", "gather_r", "scatter_z", "applied", "begin">>
AtGatherR == <<"gather_r", "scatter_z", "applied", "begin">>
AtScatterZ == <<"scatter_z", "applied", "begin">>
AtApply == <<"apply", "halo", "applied", "begin">>
AtHalo == <<"halo", "applied", "begin">>
AtApplied == <<"applied", "begin">>
AtEnd == <<>>

AtDecision(b) == IF b.c = "update" THEN AtUpdate ELSE IF b.c = "updated" THEN AtUpdated ELSE AtConclude
ToConclude == IF Is("root") THEN {AtGatherMatrix, AtBuildRoot, AtReduce}
                            ELSE {AtBuild, AtPlan, AtHandshake, AtReduce}
ToUpdate == {AtCompare, AtReduceCompared}
ToUpdated == {AtAdopt, AtReduceUpdated} \cup (IF Is("csr") THEN {AtHandshakeAdopt} ELSE {})
Refusing == {AtReport, AtVerdict, AtRefused}
Applying == IF Is("root") THEN {AtApplyRoot, AtGatherR, AtScatterZ, AtApplied}
                          ELSE {AtApply, AtHalo, AtApplied}
Between == {AtBegin, AtEnd}

Anew(k) == Is("root") \/ setting.rounds[k] = "symbolic"

Deciding(b, r) ==
  b.k \in Rounds /\ round[r] = b.k /\ todo[r] = AtDecision(b) /\ outcome[r][b.k] = ""
Redoing(b, r) ==
  /\ b.k \in Rounds /\ round[r] = b.k /\ b.c # "conclude" /\ b.s
  /\ todo[r] \in ToConclude /\ outcome[r][b.k] = ""
Updating(b, r) ==
  /\ b.k \in Rounds /\ round[r] = b.k /\ b.c = "update" /\ ~b.s
  /\ todo[r] \in ToUpdated /\ outcome[r][b.k] = ""
Leaving(b, r) ==
  /\ Settled(b) /\ round[r] = b.k
  /\ \/ todo[r] \in Between
     \/ b.k \in Rounds /\ b.s /\ todo[r] \in Refusing
     \/ b.k \in Rounds /\ ~b.s /\ todo[r] \in Applying
  /\ b.k \in Rounds => outcome[r][b.k] = IF ~b.s THEN "ok"
                                        ELSE IF todo[r] \in Between THEN "error" ELSE ""
Entering(b, r) ==
  /\ Settled(b) /\ round[r] = b.k + 1 /\ b.k + 1 \in Rounds
  /\ todo[r] \in IF Anew(b.k + 1) THEN ToConclude ELSE ToUpdate
  /\ b.k \in Rounds => outcome[r][b.k] = IF b.s THEN "error" ELSE "ok"

Stage(b, r) ==
  /\ Deciding(b, r) \/ Redoing(b, r) \/ Updating(b, r) \/ Leaving(b, r) \/ Entering(b, r)
  /\ \A j \in Rounds : j > b.k => outcome[r][j] = ""

------------------------------------------------------------------------------
(* What it keeps and has received.                                         *)

Current(r) ==
  /\ built[r].matrix = round[r]
  /\ Is("csr") => built[r].op = round[r]
  /\ r = Root \/ ~Is("root") => built[r].amg = round[r]
  /\ built[r].pattern = Pattern(round[r])

Good(b, m) == /\ m.round = b.k /\ m.call \in {"gather_r", "scatter_z", "halo"}
              /\ m.call # "gather_r" => m.of = b.k

Holding(b, r) ==
  /\ todo[r] = AtReduceCompared => failed[r] \/ built[r].pattern = Pattern(round[r])
  /\ b.c = "update" /\ ~b.s => built[r].pattern = Pattern(round[r])
  /\ todo[r] \in {AtHandshakeAdopt, AtAdopt} =>
       built[r].amg = round[r] /\ ~failed[r]
  /\ todo[r] = AtUpdate => ~failed[r]
  /\ todo[r] = AtHandshake => Is("csr") \/ ~failed[r]
  /\ todo[r] = AtReduceUpdated => failed[r] \/ Current(r)
  /\ todo[r] = AtUpdated /\ ~b.s => Current(r)
  /\ todo[r] \in Applying => Current(r)
  /\ inside[r] => Now(r) \in Exchanges

Received(b, r) ==
  /\ Now(r) \in {"gather_r", "halo"} => used[r] = {}
  /\ Now(r) \in {"scatter_z", "applied"} => \A m \in used[r] : Good(b, m)

------------------------------------------------------------------------------
(* What is on its way.                                                     *)

(* The exchange of the round that was settled in which p sends to q, and   *)
(* that of the way to the next reduction.                                  *)
FirstCall(b, p, q) ==
  IF ~Settled(b) THEN "none"
  ELSE IF b.s THEN IF q = Root THEN "report" ELSE IF p = Root THEN "verdict" ELSE "none"
  ELSE IF Is("root") THEN IF q = Root THEN "gather_r" ELSE IF p = Root THEN "scatter_z" ELSE "none"
  ELSE IF <<p, q>> \in Edges THEN "halo" ELSE "none"
SecondCall(p, q) ==
  IF Is("root") THEN IF q = Root THEN "gather_matrix" ELSE "none" ELSE "handshake"

Firstly(b) == IF b.s THEN {"report", "verdict"}
              ELSE IF Is("root") THEN {"gather_r", "scatter_z"} ELSE {"halo"}
Over(b, r) == round[r] = b.k + 1 \/ todo[r] \in Between

(* Rank r has completed the exchange x of the segment, or sent its part.   *)
Done(b, r, x) ==
  \/ x \in Firstly(b) /\ (Over(b, r) \/ todo[r] = AtApplied)
  \/ x = "report" /\ todo[r] \in {AtVerdict, AtRefused}
  \/ x = "verdict" /\ todo[r] = AtRefused
  \/ x = "gather_r" /\ todo[r] = AtScatterZ
  \/ x = "gather_matrix" /\ Is("root") /\ todo[r] \in {AtBuildRoot, AtReduce}
  \/ x = "handshake" /\ ~Is("root") /\ todo[r] = AtReduce /\ (Is("csr") \/ ~failed[r])
  \/ x = "handshake" /\ Is("csr") /\ todo[r] = AtAdopt
  \/ x = "handshake" /\ Is("csr") /\ todo[r] = AtReduceUpdated /\ ~failed[r]
Sent(b, r, x) == Done(b, r, x) \/ (inside[r] /\ Now(r) = x)
InFlight(b, p, q, x) == x # "none" /\ Sent(b, p, x) /\ ~Done(b, q, x)

Mail(b, p, q) ==
  LET first == InFlight(b, p, q, FirstCall(b, p, q))
      second == InFlight(b, p, q, SecondCall(p, q)) IN
  /\ mail[<<p, q>>] \in Seq(Messages)
  /\ Len(mail[<<p, q>>]) = (IF first THEN 1 ELSE 0) + (IF second THEN 1 ELSE 0)
  /\ first /\ ~b.s => Good(b, Head(mail[<<p, q>>]))
  (* who has completed an exchange has heard from everyone *)
  /\ \A x \in {FirstCall(b, p, q), SecondCall(p, q)} :
       x # "none" /\ Done(b, q, x) => Sent(b, p, x)

------------------------------------------------------------------------------
Since(b) ==
  /\ b.k <= Len(setting.rounds)
  /\ b.c # "conclude" => ~Is("root")
  /\ \A r \in Ranks : sum[r] = b.s /\ Stage(b, r) /\ Holding(b, r) /\ Received(b, r)
  /\ \A j \in Rounds : j < b.k => \A q, r \in Ranks : outcome[q][j] = outcome[r][j]
  /\ \A p, q \in Ranks : p # q => Mail(b, p, q)

IInv == TypeOK /\ \E b \in Barriers : Since(b)

------------------------------------------------------------------------------
LEMMA BuiltIs ==
  ASSUME BuiltOK, NEW r \in Ranks
  PROVE  \E a, m, o, p : a \in Nat /\ built[r] = [amg |-> a, matrix |-> m, op |-> o, pattern |-> p]
<1> WITNESS built[r].amg, built[r].matrix, built[r].op, built[r].pattern
<1> QED
  BY DEF BuiltOK

(* What the setting decides.                                               *)
LEMMA SettingIs ==
  ASSUME TypeOK
  PROVE  /\ setting.strategy \in Strategies
         /\ Len(setting.rounds) \in Nat /\ Rounds \subseteq Nat \ {0}
         /\ \A k \in Nat : k \in Rounds <=> 1 <= k /\ k <= Len(setting.rounds)
         /\ Root \in Ranks
<1>1. SettingType(setting)
  BY DistAmgAssumption DEF TypeOK, BuiltOK
<1> QED
  BY <1>1, DistAmgAssumption DEF SettingType, Rounds, Root, Ranks

LEMMA SameSetting ==
  ASSUME setting' = setting
  PROVE  /\ \A x : Is(x)' = Is(x)
         /\ Rounds' = Rounds
         /\ \A k : Pattern(k)' = Pattern(k) /\ Anew(k)' = Anew(k)
         /\ ToConclude' = ToConclude /\ ToUpdated' = ToUpdated /\ Applying' = Applying
         /\ \A b, p, q : FirstCall(b, p, q)' = FirstCall(b, p, q)
         /\ \A b : Firstly(b)' = Firstly(b)
         /\ \A p, q : SecondCall(p, q)' = SecondCall(p, q)
<1>1. \A x : Is(x)' = Is(x)
  BY DEF Is
<1>2. Rounds' = Rounds
  BY DEF Rounds
<1>3. \A k : Pattern(k)' = Pattern(k)
  BY DEF Pattern
<1>4. \A k : Anew(k)' = Anew(k)
  BY <1>1 DEF Anew
<1>5. ToConclude' = ToConclude /\ ToUpdated' = ToUpdated /\ Applying' = Applying
  BY <1>1 DEF ToConclude, ToUpdated, Applying
<1>6. \A b, p, q : FirstCall(b, p, q)' = FirstCall(b, p, q)
  BY <1>1 DEF FirstCall
<1>7. \A p, q : SecondCall(p, q)' = SecondCall(p, q)
  BY <1>1 DEF SecondCall
<1>8. \A b : Firstly(b)' = Firstly(b)
  BY <1>1 DEF Firstly
<1> QED
  BY <1>1, <1>2, <1>3, <1>4, <1>5, <1>6, <1>7, <1>8

(* The next thing to do, and the rest.                                     *)
First(t) == IF t = <<>> THEN "done" ELSE Head(t)

LEMMA Firsts ==
  /\ First(AtBegin) = "begin"
  /\ First(AtGatherMatrix) = "gather_matrix"
  /\ First(AtBuildRoot) = "build"
  /\ First(AtBuild) = "build"
  /\ First(AtPlan) = "plan"
  /\ First(AtHandshake) = "handshake"
  /\ First(AtReduce) = "reduce"
  /\ First(AtConclude) = "conclude"
  /\ First(AtCompare) = "compare"
  /\ First(AtReduceCompared) = "reduce"
  /\ First(AtUpdate) = "update"
  /\ First(AtHandshakeAdopt) = "handshake"
  /\ First(AtAdopt) = "adopt"
  /\ First(AtReduceUpdated) = "reduce"
  /\ First(AtUpdated) = "updated"
  /\ First(AtReport) = "report"
  /\ First(AtVerdict) = "verdict"
  /\ First(AtRefused) = "refused"
  /\ First(AtApplyRoot) = "apply"
  /\ First(AtGatherR) = "gather_r"
  /\ First(AtScatterZ) = "scatter_z"
  /\ First(AtApply) = "apply"
  /\ First(AtHalo) = "halo"
  /\ First(AtApplied) = "applied"
  /\ First(AtEnd) = "done"
<1>1. First(AtBegin) = "begin"
  BY DEF First, AtBegin
<1>2. First(AtGatherMatrix) = "gather_matrix"
  BY DEF First, AtGatherMatrix
<1>3. First(AtBuildRoot) = "build"
  BY DEF First, AtBuildRoot
<1>4. First(AtBuild) = "build"
  BY DEF First, AtBuild
<1>5. First(AtPlan) = "plan"
  BY DEF First, AtPlan
<1>6. First(AtHandshake) = "handshake"
  BY DEF First, AtHandshake
<1>7. First(AtReduce) = "reduce"
  BY DEF First, AtReduce
<1>8. First(AtConclude) = "conclude"
  BY DEF First, AtConclude
<1>9. First(AtCompare) = "compare"
  BY DEF First, AtCompare
<1>10. First(AtReduceCompared) = "reduce"
  BY DEF First, AtReduceCompared
<1>11. First(AtUpdate) = "update"
  BY DEF First, AtUpdate
<1>12. First(AtHandshakeAdopt) = "handshake"
  BY DEF First, AtHandshakeAdopt
<1>13. First(AtAdopt) = "adopt"
  BY DEF First, AtAdopt
<1>14. First(AtReduceUpdated) = "reduce"
  BY DEF First, AtReduceUpdated
<1>15. First(AtUpdated) = "updated"
  BY DEF First, AtUpdated
<1>16. First(AtReport) = "report"
  BY DEF First, AtReport
<1>17. First(AtVerdict) = "verdict"
  BY DEF First, AtVerdict
<1>18. First(AtRefused) = "refused"
  BY DEF First, AtRefused
<1>19. First(AtApplyRoot) = "apply"
  BY DEF First, AtApplyRoot
<1>20. First(AtGatherR) = "gather_r"
  BY DEF First, AtGatherR
<1>21. First(AtScatterZ) = "scatter_z"
  BY DEF First, AtScatterZ
<1>22. First(AtApply) = "apply"
  BY DEF First, AtApply
<1>23. First(AtHalo) = "halo"
  BY DEF First, AtHalo
<1>24. First(AtApplied) = "applied"
  BY DEF First, AtApplied
<1>25. First(AtEnd) = "done"
  BY DEF First, AtEnd
<1> QED
  BY <1>1, <1>2, <1>3, <1>4, <1>5, <1>6, <1>7, <1>8, <1>9, <1>10, <1>11, <1>12, <1>13, <1>14, <1>15, <1>16, <1>17, <1>18, <1>19, <1>20, <1>21, <1>22, <1>23, <1>24, <1>25

LEMMA Tails ==
  /\ Tail(AtGatherMatrix) = AtBuildRoot
  /\ Tail(AtBuildRoot) = AtReduce
  /\ Tail(AtBuild) = AtPlan
  /\ Tail(AtPlan) = AtReduce
  /\ Tail(AtHandshake) = AtReduce
  /\ Tail(AtReduce) = AtConclude
  /\ Tail(AtCompare) = AtReduceCompared
  /\ Tail(AtReduceCompared) = AtUpdate
  /\ Tail(AtHandshakeAdopt) = AtAdopt
  /\ Tail(AtAdopt) = AtReduceUpdated
  /\ Tail(AtReduceUpdated) = AtUpdated
  /\ Tail(AtReport) = AtVerdict
  /\ Tail(AtVerdict) = AtRefused
  /\ Tail(AtApplyRoot) = AtGatherR
  /\ Tail(AtGatherR) = AtScatterZ
  /\ Tail(AtScatterZ) = AtApplied
  /\ Tail(AtApply) = AtHalo
  /\ Tail(AtHalo) = AtApplied
  /\ Tail(AtApplied) = AtBegin
<1>1. Tail(AtGatherMatrix) = AtBuildRoot
  BY DEF AtGatherMatrix, AtBuildRoot
<1>2. Tail(AtBuildRoot) = AtReduce
  BY DEF AtBuildRoot, AtReduce
<1>3. Tail(AtBuild) = AtPlan
  BY DEF AtBuild, AtPlan
<1>4. Tail(AtPlan) = AtReduce
  BY DEF AtPlan, AtReduce
<1>5. Tail(AtHandshake) = AtReduce
  BY DEF AtHandshake, AtReduce
<1>6. Tail(AtReduce) = AtConclude
  BY DEF AtReduce, AtConclude
<1>7. Tail(AtCompare) = AtReduceCompared
  BY DEF AtCompare, AtReduceCompared
<1>8. Tail(AtReduceCompared) = AtUpdate
  BY DEF AtReduceCompared, AtUpdate
<1>9. Tail(AtHandshakeAdopt) = AtAdopt
  BY DEF AtHandshakeAdopt, AtAdopt
<1>10. Tail(AtAdopt) = AtReduceUpdated
  BY DEF AtAdopt, AtReduceUpdated
<1>11. Tail(AtReduceUpdated) = AtUpdated
  BY DEF AtReduceUpdated, AtUpdated
<1>12. Tail(AtReport) = AtVerdict
  BY DEF AtReport, AtVerdict
<1>13. Tail(AtVerdict) = AtRefused
  BY DEF AtVerdict, AtRefused
<1>14. Tail(AtApplyRoot) = AtGatherR
  BY DEF AtApplyRoot, AtGatherR
<1>15. Tail(AtGatherR) = AtScatterZ
  BY DEF AtGatherR, AtScatterZ
<1>16. Tail(AtScatterZ) = AtApplied
  BY DEF AtScatterZ, AtApplied
<1>17. Tail(AtApply) = AtHalo
  BY DEF AtApply, AtHalo
<1>18. Tail(AtHalo) = AtApplied
  BY DEF AtHalo, AtApplied
<1>19. Tail(AtApplied) = AtBegin
  BY DEF AtApplied, AtBegin
<1> QED
  BY <1>1, <1>2, <1>3, <1>4, <1>5, <1>6, <1>7, <1>8, <1>9, <1>10, <1>11, <1>12, <1>13, <1>14, <1>15, <1>16, <1>17, <1>18, <1>19

(* Those with the same beginning.                                          *)
LEMMA Different ==
  /\ AtReduce # AtReduceCompared /\ AtReduce # AtReduceUpdated
  /\ AtReduceCompared # AtReduceUpdated
  /\ AtHandshake # AtHandshakeAdopt /\ AtBuild # AtBuildRoot /\ AtApply # AtApplyRoot
<1>1. AtReduce # AtReduceCompared /\ AtReduce # AtReduceUpdated /\ AtReduceCompared # AtReduceUpdated
  BY DEF AtReduce, AtReduceCompared, AtReduceUpdated
<1>2. AtHandshake # AtHandshakeAdopt
  BY DEF AtHandshake, AtHandshakeAdopt
<1>3. AtBuild # AtBuildRoot
  BY DEF AtBuild, AtBuildRoot
<1>4. AtApply # AtApplyRoot
  BY DEF AtApply, AtApplyRoot
<1> QED
  BY <1>1, <1>2, <1>3, <1>4

LEMMA NowIs ==
  ASSUME NEW r
  PROVE  Now(r) = First(todo[r]) /\ Now(r)' = First(todo'[r])
BY DEF Now, First

(* The places of the ways, by what comes next.                             *)
LEMMA Ways ==
  ASSUME NEW t
  PROVE  /\ t \in ToConclude =>
              \/ First(t) = "gather_matrix" /\ t = AtGatherMatrix /\ Is("root")
              \/ First(t) = "build" /\ t = IF Is("root") THEN AtBuildRoot ELSE AtBuild
              \/ First(t) = "plan" /\ t = AtPlan /\ ~Is("root")
              \/ First(t) = "handshake" /\ t = AtHandshake /\ ~Is("root")
              \/ First(t) = "reduce" /\ t = AtReduce
         /\ t \in ToUpdate =>
              \/ First(t) = "compare" /\ t = AtCompare
              \/ First(t) = "reduce" /\ t = AtReduceCompared
         /\ t \in ToUpdated =>
              \/ First(t) = "handshake" /\ t = AtHandshakeAdopt /\ Is("csr")
              \/ First(t) = "adopt" /\ t = AtAdopt
              \/ First(t) = "reduce" /\ t = AtReduceUpdated
         /\ t \in Refusing =>
              \/ First(t) = "report" /\ t = AtReport
              \/ First(t) = "verdict" /\ t = AtVerdict
              \/ First(t) = "refused" /\ t = AtRefused
         /\ t \in Applying =>
              \/ First(t) = "apply" /\ t = IF Is("root") THEN AtApplyRoot ELSE AtApply
              \/ First(t) = "gather_r" /\ t = AtGatherR /\ Is("root")
              \/ First(t) = "scatter_z" /\ t = AtScatterZ /\ Is("root")
              \/ First(t) = "halo" /\ t = AtHalo /\ ~Is("root")
              \/ First(t) = "applied" /\ t = AtApplied
         /\ t \in Between =>
              \/ First(t) = "begin" /\ t = AtBegin
              \/ First(t) = "done" /\ t = AtEnd
<1>1. t \in ToConclude =>
        \/ First(t) = "gather_matrix" /\ t = AtGatherMatrix /\ Is("root")
        \/ First(t) = "build" /\ t = IF Is("root") THEN AtBuildRoot ELSE AtBuild
        \/ First(t) = "plan" /\ t = AtPlan /\ ~Is("root")
        \/ First(t) = "handshake" /\ t = AtHandshake /\ ~Is("root")
        \/ First(t) = "reduce" /\ t = AtReduce
  BY Firsts DEF ToConclude
<1>2. t \in ToUpdate =>
        \/ First(t) = "compare" /\ t = AtCompare
        \/ First(t) = "reduce" /\ t = AtReduceCompared
  BY Firsts DEF ToUpdate
<1>3. t \in ToUpdated =>
        \/ First(t) = "handshake" /\ t = AtHandshakeAdopt /\ Is("csr")
        \/ First(t) = "adopt" /\ t = AtAdopt
        \/ First(t) = "reduce" /\ t = AtReduceUpdated
  BY Firsts DEF ToUpdated
<1>4. t \in Refusing =>
        \/ First(t) = "report" /\ t = AtReport
        \/ First(t) = "verdict" /\ t = AtVerdict
        \/ First(t) = "refused" /\ t = AtRefused
  BY Firsts DEF Refusing
<1>5. t \in Applying =>
        \/ First(t) = "apply" /\ t = IF Is("root") THEN AtApplyRoot ELSE AtApply
        \/ First(t) = "gather_r" /\ t = AtGatherR /\ Is("root")
        \/ First(t) = "scatter_z" /\ t = AtScatterZ /\ Is("root")
        \/ First(t) = "halo" /\ t = AtHalo /\ ~Is("root")
        \/ First(t) = "applied" /\ t = AtApplied
  BY Firsts DEF Applying
<1>6. t \in Between =>
        \/ First(t) = "begin" /\ t = AtBegin
        \/ First(t) = "done" /\ t = AtEnd
  BY Firsts DEF Between
<1> QED
  BY <1>1, <1>2, <1>3, <1>4, <1>5, <1>6

(* A stage by the way it is on.                                            *)
LEMMA Placed ==
  ASSUME NEW b \in Barriers, NEW r \in Ranks, Stage(b, r)
  PROVE  \/ Deciding(b, r) /\ todo[r] = AtDecision(b)
         \/ Redoing(b, r) /\ todo[r] \in ToConclude
         \/ Updating(b, r) /\ todo[r] \in ToUpdated
         \/ Leaving(b, r) /\ todo[r] \in Between \cup Refusing \cup Applying
         \/ Entering(b, r) /\ todo[r] \in ToConclude
         \/ Entering(b, r) /\ todo[r] \in ToUpdate
BY DEF Stage, Deciding, Redoing, Updating, Leaving, Entering

(* What a rank does next tells where it is.                                *)
LEMMA Where ==
  ASSUME NEW b \in Barriers, NEW r \in Ranks, Stage(b, r)
  PROVE  /\ Now(r) = "begin" => todo[r] = AtBegin /\ Leaving(b, r)
         /\ Now(r) = "compare" => todo[r] = AtCompare /\ Entering(b, r)
         /\ Now(r) = "update" => todo[r] = AtUpdate /\ Deciding(b, r) /\ b.c = "update"
         /\ Now(r) = "adopt" => todo[r] = AtAdopt /\ Updating(b, r)
         /\ Now(r) = "updated" => todo[r] = AtUpdated /\ Deciding(b, r) /\ b.c = "updated"
         /\ Now(r) = "conclude" => todo[r] = AtConclude /\ Deciding(b, r) /\ b.c = "conclude"
         /\ Now(r) = "refused" => todo[r] = AtRefused /\ Leaving(b, r)
         /\ Now(r) = "apply" => Leaving(b, r) /\ todo[r] = IF Is("root") THEN AtApplyRoot ELSE AtApply
         /\ Now(r) = "applied" => Leaving(b, r) /\ todo[r] = AtApplied
         /\ Now(r) = "build" => /\ Redoing(b, r) \/ Entering(b, r)
                               /\ todo[r] = IF Is("root") THEN AtBuildRoot ELSE AtBuild
         /\ Now(r) = "plan" => /\ Redoing(b, r) \/ Entering(b, r)
                              /\ ~Is("root") /\ todo[r] = AtPlan
         /\ Now(r) = "gather_matrix" => /\ Redoing(b, r) \/ Entering(b, r)
                                       /\ Is("root") /\ todo[r] = AtGatherMatrix
         /\ Now(r) = "report" => Leaving(b, r) /\ todo[r] = AtReport
         /\ Now(r) = "verdict" => Leaving(b, r) /\ todo[r] = AtVerdict
         /\ Now(r) = "gather_r" => Leaving(b, r) /\ todo[r] = AtGatherR /\ Is("root")
         /\ Now(r) = "scatter_z" => Leaving(b, r) /\ todo[r] = AtScatterZ /\ Is("root")
         /\ Now(r) = "halo" => Leaving(b, r) /\ todo[r] = AtHalo /\ ~Is("root")
         /\ Now(r) = "handshake" =>
              \/ /\ Redoing(b, r) \/ Entering(b, r)
                 /\ ~Is("root") /\ todo[r] = AtHandshake
              \/ Updating(b, r) /\ Is("csr") /\ todo[r] = AtHandshakeAdopt
         /\ Now(r) = "reduce" =>
              \/ Redoing(b, r) /\ todo[r] = AtReduce
              \/ Updating(b, r) /\ todo[r] = AtReduceUpdated
              \/ Entering(b, r) /\ todo[r] \in {AtReduce, AtReduceCompared}
<1> DEFINE t == todo[r]
<1>1. Now(r) = First(t)
  BY NowIs
<1>2. CASE Deciding(b, r) /\ t = AtDecision(b)
  <2>1. \/ First(t) = "update" /\ t = AtUpdate /\ b.c = "update"
        \/ First(t) = "updated" /\ t = AtUpdated /\ b.c = "updated"
        \/ First(t) = "conclude" /\ t = AtConclude /\ b.c = "conclude"
    BY <1>2, Firsts DEF AtDecision, Barriers, Decisions
  <2> QED
    BY <1>1, <1>2, <2>1
<1>3. CASE Redoing(b, r) /\ t \in ToConclude
  BY <1>1, <1>3, Ways
<1>4. CASE Updating(b, r) /\ t \in ToUpdated
  BY <1>1, <1>4, Ways
<1>5. CASE Leaving(b, r) /\ t \in Between \cup Refusing \cup Applying
  BY <1>1, <1>5, Ways
<1>6. CASE Entering(b, r) /\ t \in ToConclude
  BY <1>1, <1>6, Ways
<1>7. CASE Entering(b, r) /\ t \in ToUpdate
  BY <1>1, <1>7, Ways
<1> QED
  BY <1>2, <1>3, <1>4, <1>5, <1>6, <1>7, Placed

------------------------------------------------------------------------------
(* Steps of one rank.                                                      *)

Still(q) ==
  /\ round'[q] = round[q] /\ todo'[q] = todo[q] /\ failed'[q] = failed[q] /\ sum'[q] = sum[q]
  /\ built'[q] = built[q] /\ outcome'[q] = outcome[q] /\ used'[q] = used[q]
Same(q) == Still(q) /\ inside'[q] = inside[q]

LEMMA StillRank ==
  ASSUME NEW b \in Barriers, NEW q \in Ranks, setting' = setting, Still(q)
  PROVE  /\ Now(q)' = Now(q)
         /\ Stage(b, q) => Stage(b, q)'
         /\ Holding(b, q) /\ (inside'[q] => Now(q) \in Exchanges) => Holding(b, q)'
         /\ Received(b, q) => Received(b, q)'
         /\ \A x : Done(b, q, x)' = Done(b, q, x)
<1>1. Now(q)' = Now(q)
  BY DEF Still, Now
<1>2. ASSUME Stage(b, q)
      PROVE  Stage(b, q)'
  BY <1>2, SameSetting DEF Still, Stage, Deciding, Redoing, Updating, Leaving, Entering, Settled,
                           ToUpdate, Refusing, Between
<1>3. Current(q)' = Current(q)
  BY SameSetting DEF Still, Current
<1>4. ASSUME Holding(b, q), inside'[q] => Now(q) \in Exchanges
      PROVE  Holding(b, q)'
  BY <1>1, <1>3, <1>4, SameSetting DEF Still, Holding
<1>5. ASSUME Received(b, q)
      PROVE  Received(b, q)'
  BY <1>1, <1>5 DEF Still, Received, Good
<1>6. \A x : Done(b, q, x)' = Done(b, q, x)
  BY SameSetting DEF Still, Done, Over, Between
<1> QED
  BY <1>1, <1>2, <1>4, <1>5, <1>6

LEMMA SameRank ==
  ASSUME NEW b \in Barriers, NEW q \in Ranks, setting' = setting, Same(q)
  PROVE  /\ Stage(b, q) => Stage(b, q)'
         /\ Holding(b, q) => Holding(b, q)'
         /\ Received(b, q) => Received(b, q)'
         /\ \A x : Done(b, q, x)' = Done(b, q, x) /\ Sent(b, q, x)' = Sent(b, q, x)
<1>1. Still(q) /\ inside'[q] = inside[q]
  BY DEF Same
<1>2. \A x : Done(b, q, x)' = Done(b, q, x) /\ Sent(b, q, x)' = Sent(b, q, x)
  BY <1>1, StillRank DEF Sent
<1> QED
  BY <1>1, <1>2, StillRank DEF Holding

LEMMA OwnStep ==
  ASSUME TypeOK, NEW b \in Barriers, Since(b), NEW r \in Ranks, setting' = setting,
         \A q \in Ranks \ {r} : Same(q),
         sum'[r] = sum[r], Stage(b, r)', Holding(b, r)', Received(b, r)',
         \A j \in Rounds : j < b.k => outcome'[r][j] = outcome[r][j],
         \A p, q \in Ranks : p # q => Mail(b, p, q)'
  PROVE  Since(b)'
<1>1. ASSUME NEW q \in Ranks
      PROVE  sum'[q] = b.s /\ Stage(b, q)' /\ Holding(b, q)' /\ Received(b, q)'
  <2>1. CASE q = r
    BY <2>1 DEF Since
  <2>2. CASE q # r
    BY <2>2, SameRank DEF Since, Same, Still
  <2> QED
    BY <2>1, <2>2
<1>2. ASSUME NEW j \in Rounds, j < b.k, NEW p \in Ranks, NEW q \in Ranks
      PROVE  outcome'[p][j] = outcome'[q][j]
  <2>1. outcome'[p][j] = outcome[p][j] /\ outcome'[q][j] = outcome[q][j]
    BY <1>2 DEF Same, Still
  <2> QED
    BY <1>2, <2>1 DEF Since
<1>3. b.k <= Len(setting'.rounds) /\ (b.c # "conclude" => ~Is("root")')
  BY SameSetting DEF Since
<1> QED
  BY <1>1, <1>2, <1>3, SameSetting DEF Since

(* What is on its way between two ranks stays.                             *)
LEMMA MailKept ==
  ASSUME NEW b \in Barriers, NEW p \in Ranks, NEW q \in Ranks, Mail(b, p, q),
         setting' = setting, mail'[<<p, q>>] = mail[<<p, q>>],
         \A x \in {FirstCall(b, p, q), SecondCall(p, q)} :
           x # "none" => Done(b, q, x)' = Done(b, q, x) /\ Sent(b, p, x)' = Sent(b, p, x)
  PROVE  Mail(b, p, q)'
<1>1. FirstCall(b, p, q)' = FirstCall(b, p, q) /\ SecondCall(p, q)' = SecondCall(p, q)
  BY SameSetting
<1>2. /\ InFlight(b, p, q, FirstCall(b, p, q))' = InFlight(b, p, q, FirstCall(b, p, q))
      /\ InFlight(b, p, q, SecondCall(p, q))' = InFlight(b, p, q, SecondCall(p, q))
  BY <1>1 DEF InFlight
<1> QED
  BY <1>1, <1>2 DEF Mail, Good

(* A step that exchanges nothing.                                          *)
LEMMA QuietMail ==
  ASSUME NEW b \in Barriers, Since(b), NEW r \in Ranks, setting' = setting,
         \A q \in Ranks \ {r} : Same(q), mail' = mail, ~inside[r], ~inside'[r],
         \A x \in Exchanges : Done(b, r, x)' = Done(b, r, x)
  PROVE  \A p, q \in Ranks : p # q => Mail(b, p, q)'
<1>1. \A p, q : FirstCall(b, p, q) \in Exchanges \cup {"none"}
                /\ SecondCall(p, q) \in Exchanges \cup {"none"}
  BY DEF FirstCall, SecondCall, Exchanges, ToRoot, FromRoot
<1>2. ASSUME NEW q \in Ranks, NEW x \in Exchanges
      PROVE  Done(b, q, x)' = Done(b, q, x) /\ Sent(b, q, x)' = Sent(b, q, x)
  <2>1. CASE q = r
    BY <2>1 DEF Sent
  <2>2. CASE q # r
    BY <2>2, SameRank
  <2> QED
    BY <2>1, <2>2
<1>3. ASSUME NEW p \in Ranks, NEW q \in Ranks, p # q
      PROVE  Mail(b, p, q)'
  <2>1. Mail(b, p, q)
    BY <1>3 DEF Since
  <2> QED
    BY <1>1, <1>2, <2>1, MailKept
<1> QED
  BY <1>3

LEMMA QuietStep ==
  ASSUME TypeOK, NEW b \in Barriers, Since(b), NEW r \in Ranks, setting' = setting,
         \A q \in Ranks \ {r} : Same(q), mail' = mail, inside' = inside, Now(r) \notin Exchanges,
         sum'[r] = sum[r], Stage(b, r)', Holding(b, r)', Received(b, r)',
         \A j \in Rounds : j < b.k => outcome'[r][j] = outcome[r][j],
         \A x \in Exchanges : Done(b, r, x)' = Done(b, r, x)
  PROVE  Since(b)'
<1>1. ~inside[r] /\ ~inside'[r]
  BY DEF Since, Holding
<1>2. \A p, q \in Ranks : p # q => Mail(b, p, q)'
  BY <1>1, QuietMail
<1> QED
  BY <1>2, OwnStep

(* Only some of what is next is done with what a rank keeps.               *)
LEMMA NotApplying ==
  ASSUME NEW t, First(t) \notin {"apply", "gather_r", "scatter_z", "halo", "applied"}
  PROVE  t \notin Applying
BY Ways

(* Where what a rank keeps does not matter but for its pattern.            *)
LEMMA HoldingAnywhere ==
  ASSUME NEW b \in Barriers, NEW r \in Ranks, setting' = setting, ~inside'[r],
         First(todo'[r]) \in {"begin", "done", "compare", "gather_matrix", "build", "plan",
                             "report", "verdict", "refused", "conclude"},
         b.c = "update" /\ ~b.s => built'[r].pattern = Pattern(round'[r])
  PROVE  Holding(b, r)'
<1>1. ASSUME NEW t, First(t) = First(todo'[r])
      PROVE  t \notin {AtReduceCompared, AtHandshakeAdopt, AtAdopt, AtUpdate, AtHandshake,
                       AtReduceUpdated, AtUpdated} /\ t \notin Applying
  BY <1>1, Firsts, Ways
<1>2. todo'[r] \notin {AtReduceCompared, AtHandshakeAdopt, AtAdopt, AtUpdate, AtHandshake,
                       AtReduceUpdated, AtUpdated} /\ todo'[r] \notin Applying'
  BY <1>1, SameSetting
<1> QED
  BY <1>2, SameSetting DEF Holding

LEMMA BeginKeeps ==
  ASSUME TypeOK, NEW b \in Barriers, Since(b), NEW r \in Ranks, Begin(r)
  PROVE  Since(b)'
<1>1. Now(r) = "begin" /\ Stage(b, r) /\ Holding(b, r) /\ sum[r] = b.s
  BY DEF Begin, Since
<1>2. todo[r] = AtBegin /\ Leaving(b, r)
  BY <1>1, Where
<1>3. round[r] = b.k /\ Settled(b) /\ b.k \in Nat /\ b.k <= Len(setting.rounds)
  BY <1>2 DEF Leaving, Barriers, Since
<1>4. setting' = setting /\ mail' = mail /\ inside' = inside /\ outcome' = outcome /\ sum' = sum
      /\ failed' = failed /\ built' = built /\ used' = used
  BY DEF Begin
<1>5. \A q \in Ranks \ {r} : Same(q)
  BY DEF Begin, Go, TypeOK, BuiltOK, Same, Still
<1>6. CASE round[r] = Len(setting.rounds)
  <2>1. todo'[r] = AtEnd /\ round' = round
    BY <1>6 DEF Begin, Go, TypeOK, BuiltOK, AtEnd
  <2>2. Now(r)' = "done" /\ todo'[r] \in Between
    BY <2>1, NowIs, Firsts DEF Between
  <2>3. Leaving(b, r)'
    BY <1>2, <1>4, <2>1, <2>2, SameSetting DEF Leaving, Settled, Between
  <2>4. Stage(b, r)'
    BY <1>1, <1>4, <2>3, SameSetting DEF Stage
  <2>5. Holding(b, r)'
    BY <1>1, <1>3, <1>4, <2>1, Firsts, HoldingAnywhere DEF Holding, Exchanges, ToRoot, FromRoot, Settled
  <2>6. Received(b, r)'
    BY <2>2 DEF Received
  <2>7. \A x \in Exchanges : Done(b, r, x)' = Done(b, r, x)
    BY <1>2, <1>4, <2>1, <2>2, Firsts, SameSetting DEF Done, Over, Between
  <2> QED
    BY <1>1, <1>4, <1>5, <2>4, <2>5, <2>6, <2>7, QuietStep DEF Exchanges, ToRoot, FromRoot
<1>7. CASE round[r] # Len(setting.rounds)
  <2>1. round'[r] = b.k + 1 /\ b.k + 1 \in Rounds
    <3>1. b.k + 1 \in Nat /\ 1 <= b.k + 1 /\ b.k + 1 <= Len(setting.rounds)
      BY <1>3, <1>7, SettingIs
    <3> QED
      BY <1>3, <1>7, <3>1, SettingIs DEF Begin, TypeOK, BuiltOK
  <2>2. todo'[r] = IF Anew(b.k + 1) THEN Rebuild ELSE AtCompare
    BY <1>3, <1>7 DEF Begin, Go, TypeOK, BuiltOK, Anew, AtCompare
  <2>3. todo'[r] \in {AtGatherMatrix, AtBuild, AtCompare}
    BY <2>2 DEF Rebuild, AtGatherMatrix, AtBuild
  <2>4. Now(r)' \in {"gather_matrix", "build", "compare"}
    BY <2>3, NowIs, Firsts
  <2>5. Entering(b, r)'
    <3>1. todo'[r] \in IF Anew(b.k + 1) THEN ToConclude ELSE ToUpdate
      BY <2>2 DEF Rebuild, ToConclude, ToUpdate, AtGatherMatrix, AtBuild
    <3>2. b.k \in Rounds => outcome[r][b.k] = IF b.s THEN "error" ELSE "ok"
      BY <1>2, Firsts DEF Leaving, Between
    <3> QED
      BY <1>3, <1>4, <2>1, <3>1, <3>2, SameSetting DEF Entering, Settled, ToUpdate
  <2>6. Stage(b, r)'
    BY <1>1, <1>4, <2>5, SameSetting DEF Stage
  <2>7. Holding(b, r)'
    BY <1>1, <1>3, <1>4, <2>3, Firsts, HoldingAnywhere DEF Holding, Exchanges, ToRoot, FromRoot, Settled
  <2>8. Received(b, r)'
    BY <2>4 DEF Received
  <2>9. \A x \in Exchanges : Done(b, r, x)' = Done(b, r, x)
    BY <1>2, <1>3, <1>4, <2>1, <2>3, Firsts, Different, SameSetting DEF Done, Over, Between
  <2> QED
    BY <1>1, <1>4, <1>5, <2>6, <2>7, <2>8, <2>9, QuietStep DEF Exchanges, ToRoot, FromRoot
<1> QED
  BY <1>6, <1>7

LEMMA CompareKeeps ==
  ASSUME TypeOK, NEW b \in Barriers, Since(b), NEW r \in Ranks, Compare(r)
  PROVE  Since(b)'
<1>1. Now(r) = "compare" /\ Stage(b, r) /\ Holding(b, r) /\ sum[r] = b.s
  BY DEF Compare, Since
<1>2. todo[r] = AtCompare /\ Entering(b, r)
  BY <1>1, Where
<1>3. round[r] = b.k + 1 /\ Settled(b)
  BY <1>2 DEF Entering
<1>4. setting' = setting /\ mail' = mail /\ inside' = inside /\ outcome' = outcome /\ sum' = sum
      /\ round' = round /\ built' = built /\ used' = used
  BY DEF Compare
<1>5. \A q \in Ranks \ {r} : Same(q)
  BY DEF Compare, Proceed, Go, TypeOK, BuiltOK, Same, Still
<1>6. todo'[r] = AtReduceCompared /\ failed'[r] = ~Compatible(r)
  BY <1>2, Tails DEF Compare, Proceed, Go, TypeOK, BuiltOK
<1>7. Now(r)' = "reduce"
  BY <1>6, NowIs, Firsts
<1>8. Entering(b, r)'
  <2>1. ~Anew(b.k + 1)
    BY <1>2, Firsts, Ways DEF Entering
  <2> QED
    BY <1>2, <1>4, <1>6, <2>1, SameSetting DEF Entering, Settled, ToUpdate
<1>9. Stage(b, r)'
  BY <1>1, <1>4, <1>8, SameSetting DEF Stage
<1>10. Holding(b, r)'
  <2>1. failed'[r] \/ built[r].pattern = Pattern(round[r])
    BY <1>6 DEF Compatible
  <2>2. todo'[r] \notin Applying
    BY <1>6, Firsts, NotApplying
  <2> QED
    BY <1>1, <1>3, <1>4, <1>6, <1>7, <2>1, <2>2, Firsts, Different, SameSetting
    DEF Holding, Exchanges, ToRoot, FromRoot, Settled
<1>11. Received(b, r)'
  BY <1>7 DEF Received
<1>12. \A x \in Exchanges : Done(b, r, x)' = Done(b, r, x)
  BY <1>2, <1>3, <1>4, <1>6, Firsts, Different, SameSetting DEF Done, Over, Firstly
<1> QED
  BY <1>1, <1>4, <1>5, <1>9, <1>10, <1>11, <1>12, QuietStep DEF Exchanges, ToRoot, FromRoot

LEMMA UpdateKeeps ==
  ASSUME TypeOK, NEW b \in Barriers, Since(b), NEW r \in Ranks, Update(r)
  PROVE  Since(b)'
<1>1. Now(r) = "update" /\ Stage(b, r) /\ Holding(b, r) /\ sum[r] = b.s
  BY DEF Update, Since
<1>2. todo[r] = AtUpdate /\ Deciding(b, r) /\ b.c = "update"
  BY <1>1, Where
<1>3. round[r] = b.k /\ b.k \in Rounds /\ outcome[r][b.k] = "" /\ ~Is("root") /\ ~failed[r]
  BY <1>1, <1>2 DEF Deciding, Since, Holding
<1>4. setting' = setting /\ mail' = mail /\ inside' = inside /\ outcome' = outcome /\ sum' = sum
      /\ round' = round /\ used' = used
  BY DEF Update
<1>5. \A q \in Ranks \ {r} : Same(q)
  BY DEF Update, Go, TypeOK, BuiltOK, Same, Still
<1>6. b.k # b.k + 1 /\ ~inside[r]
  BY <1>1 DEF Barriers, Holding, Exchanges, ToRoot, FromRoot
<1>7. CASE sum[r]
  <2>1. todo'[r] = AtBuild
    BY <1>3, <1>7 DEF Update, Go, TypeOK, BuiltOK, Rebuild, AtBuild
  <2>2. Now(r)' = "build"
    BY <2>1, NowIs, Firsts
  <2>3. Redoing(b, r)'
    BY <1>1, <1>2, <1>3, <1>4, <1>7, <2>1, SameSetting DEF Redoing, ToConclude
  <2>4. Stage(b, r)'
    BY <1>1, <1>4, <2>3, SameSetting DEF Stage
  <2>5. Holding(b, r)'
    BY <1>1, <1>4, <1>6, <1>7, <2>1, Firsts, HoldingAnywhere
  <2>6. Received(b, r)'
    BY <2>2 DEF Received
  <2>7. \A x \in Exchanges : Done(b, r, x)' = Done(b, r, x)
    BY <1>2, <1>3, <1>4, <1>6, <2>1, Firsts, SameSetting DEF Done, Over, Between, Firstly
  <2> QED
    BY <1>1, <1>4, <1>5, <2>4, <2>5, <2>6, <2>7, QuietStep DEF Exchanges, ToRoot, FromRoot
<1>8. CASE ~sum[r] /\ r \in setting.brittle
  <2>1. todo'[r] = AtReduceUpdated /\ failed'[r] = TRUE /\ built' = built
    BY <1>8 DEF Update, Go, TypeOK, BuiltOK, AtReduceUpdated
  <2>2. Now(r)' = "reduce"
    BY <2>1, NowIs, Firsts
  <2>3. Updating(b, r)'
    BY <1>1, <1>2, <1>3, <1>4, <1>8, <2>1, SameSetting DEF Updating, ToUpdated
  <2>4. Stage(b, r)'
    BY <1>1, <1>4, <2>3, SameSetting DEF Stage
  <2>5. Holding(b, r)'
    <3>1. todo'[r] \notin Applying
      BY <2>1, Firsts, NotApplying
    <3> QED
      BY <1>1, <1>4, <1>6, <2>1, <3>1, Firsts, Different, SameSetting DEF Holding
  <2>6. Received(b, r)'
    BY <2>2 DEF Received
  <2>7. \A x \in Exchanges : Done(b, r, x)' = Done(b, r, x)
    BY <1>2, <1>3, <1>4, <1>6, <2>1, Firsts, Different, SameSetting DEF Done, Over, Between, Firstly
  <2> QED
    BY <1>1, <1>4, <1>5, <2>4, <2>5, <2>6, <2>7, QuietStep DEF Exchanges, ToRoot, FromRoot
<1>9. CASE ~sum[r] /\ r \notin setting.brittle
  <2>1. todo'[r] = IF Is("csr") THEN AtHandshakeAdopt ELSE AtAdopt
    BY <1>1, <1>9 DEF Update, Go, TypeOK, BuiltOK, AtHandshakeAdopt, AtAdopt
  <2>2. Now(r)' = IF Is("csr") THEN "handshake" ELSE "adopt"
    BY <2>1, NowIs, Firsts
  <2>3. Updating(b, r)'
    BY <1>1, <1>2, <1>3, <1>4, <1>9, <2>1, SameSetting DEF Updating, ToUpdated
  <2>4. Stage(b, r)'
    BY <1>1, <1>4, <2>3, SameSetting DEF Stage
  <2>5. Holding(b, r)'
    <3>1. todo'[r] \notin Applying
      BY <2>1, Firsts, NotApplying
    <3>2. built'[r].amg = round[r] /\ built'[r].pattern = built[r].pattern /\ failed' = failed
      <4>1. built'[r] = [built[r] EXCEPT !.amg = round[r]] /\ failed' = failed
        BY <1>1, <1>9 DEF Update, TypeOK, BuiltOK
      <4> QED
        BY <4>1, BuiltIs DEF TypeOK
    <3> QED
      BY <1>1, <1>2, <1>3, <1>4, <1>6, <1>9, <2>1, <3>1, <3>2, Firsts, Different, SameSetting DEF Holding
  <2>6. Received(b, r)'
    BY <2>2 DEF Received
  <2>7. \A x \in Exchanges : Done(b, r, x)' = Done(b, r, x)
    <3>1. Over(b, r)' = Over(b, r)
      BY <1>2, <1>3, <1>4, <2>1, Firsts DEF Over, Between
    <3>2. CASE Is("csr")
      <4>1. todo[r] = AtUpdate /\ todo'[r] = AtHandshakeAdopt
        BY <1>2, <2>1, <3>2
      <4> QED
        BY <1>4, <3>1, <4>1, Firsts, Different, SameSetting DEF Done, Firstly
    <3>3. CASE ~Is("csr")
      <4>1. todo[r] = AtUpdate /\ todo'[r] = AtAdopt
        BY <1>2, <2>1, <3>3
      <4> QED
        BY <1>4, <3>1, <3>3, <4>1, Firsts, SameSetting DEF Done, Firstly
    <3> QED
      BY <3>2, <3>3
  <2> QED
    BY <1>1, <1>4, <1>5, <2>4, <2>5, <2>6, <2>7, QuietStep DEF Exchanges, ToRoot, FromRoot
<1> QED
  BY <1>7, <1>8, <1>9

LEMMA AdoptKeeps ==
  ASSUME TypeOK, NEW b \in Barriers, Since(b), NEW r \in Ranks, Adopt(r)
  PROVE  Since(b)'
<1>1. Now(r) = "adopt" /\ Stage(b, r) /\ Holding(b, r) /\ sum[r] = b.s
  BY DEF Adopt, Since
<1>2. todo[r] = AtAdopt /\ Updating(b, r)
  BY <1>1, Where
<1>3. /\ round[r] = b.k /\ b.k \in Rounds /\ outcome[r][b.k] = "" /\ b.c = "update" /\ ~b.s
      /\ ~failed[r] /\ built[r].amg = round[r] /\ built[r].pattern = Pattern(round[r]) /\ ~Is("root")
  BY <1>1, <1>2 DEF Updating, Since, Holding
<1>4. setting' = setting /\ mail' = mail /\ inside' = inside /\ outcome' = outcome /\ sum' = sum
      /\ round' = round /\ failed' = failed /\ used' = used
  BY DEF Adopt
<1>5. \A q \in Ranks \ {r} : Same(q)
  BY DEF Adopt, Proceed, Go, TypeOK, BuiltOK, Same, Still
<1>6. todo'[r] = AtReduceUpdated /\ built'[r] = Renewed(r)
  BY <1>2, Tails DEF Adopt, Proceed, Go, TypeOK, BuiltOK
<1>7. Now(r)' = "reduce"
  BY <1>6, NowIs, Firsts
<1>8. Stage(b, r)'
  <2>1. Updating(b, r)'
    BY <1>2, <1>4, <1>6, SameSetting DEF Updating, ToUpdated
  <2> QED
    BY <1>1, <1>4, <2>1, SameSetting DEF Stage
<1>9. Holding(b, r)'
  <2>1. todo'[r] \notin Applying
    BY <1>6, Firsts, NotApplying
  <2>2. /\ built'[r].amg = round[r] /\ built'[r].pattern = Pattern(round[r])
        /\ built'[r].matrix = round[r] /\ (Is("csr") => built'[r].op = round[r])
    <3>1. built[r] = [amg |-> built[r].amg, matrix |-> built[r].matrix,
                      op |-> built[r].op, pattern |-> built[r].pattern]
      BY DEF TypeOK, BuiltOK
    <3> QED
      BY <1>3, <1>6, <3>1 DEF Renewed
  <2> QED
    BY <1>1, <1>3, <1>4, <1>6, <1>7, <2>1, <2>2, Firsts, Different, SameSetting
    DEF Holding, Current, Exchanges, ToRoot, FromRoot
<1>10. Received(b, r)'
  BY <1>7 DEF Received
<1>11. \A x \in Exchanges : Done(b, r, x)' = Done(b, r, x)
  BY <1>2, <1>3, <1>4, <1>6, Firsts, Different, SameSetting DEF Done, Over, Between, Firstly
<1> QED
  BY <1>1, <1>4, <1>5, <1>8, <1>9, <1>10, <1>11, QuietStep DEF Exchanges, ToRoot, FromRoot

(* A round that is concluded leaves the others as they are.                *)
LEMMA OtherRounds ==
  ASSUME TypeOK, NEW k \in Nat, NEW j \in Rounds, j < k \/ j > k
  PROVE  j # k
BY SettingIs

(* The way after a set-up that succeeded.                                  *)
LEMMA ApplicationIs ==
  ASSUME NEW r \in Ranks, TypeOK, Succeed(r)
  PROVE  todo' = [todo EXCEPT ![r] = IF Is("root") THEN AtApplyRoot ELSE AtApply]
BY DEF Succeed, Go, Application, AtApplyRoot, AtApply

LEMMA UpdatedKeeps ==
  ASSUME TypeOK, NEW b \in Barriers, Since(b), NEW r \in Ranks, Updated(r)
  PROVE  Since(b)'
<1>1. Now(r) = "updated" /\ Stage(b, r) /\ Holding(b, r) /\ sum[r] = b.s
  BY DEF Updated, Since
<1>2. todo[r] = AtUpdated /\ Deciding(b, r) /\ b.c = "updated"
  BY <1>1, Where
<1>3. round[r] = b.k /\ b.k \in Rounds /\ outcome[r][b.k] = "" /\ ~Is("root") /\ b.k \in Nat
  BY <1>1, <1>2 DEF Deciding, Since, Barriers
<1>4. setting' = setting /\ mail' = mail /\ inside' = inside /\ sum' = sum
      /\ round' = round /\ failed' = failed /\ built' = built /\ used' = used
  BY DEF Updated
<1>5. \A q \in Ranks \ {r} : Same(q)
  <2>1. \A q \in Ranks \ {r} : todo'[q] = todo[q] /\ outcome'[q] = outcome[q]
    BY DEF Updated, Go, Succeed, TypeOK, BuiltOK
  <2> QED
    BY <1>4, <2>1 DEF Same, Still
<1>6. ~inside[r]
  BY <1>1 DEF Holding, Exchanges, ToRoot, FromRoot
<1>7. CASE sum[r]
  <2>1. todo'[r] = AtBuild /\ outcome' = outcome
    BY <1>3, <1>7 DEF Updated, Go, TypeOK, BuiltOK, Rebuild, AtBuild
  <2>2. Now(r)' = "build"
    BY <2>1, NowIs, Firsts
  <2>3. Redoing(b, r)'
    BY <1>1, <1>2, <1>3, <1>4, <1>7, <2>1, SameSetting DEF Redoing, ToConclude
  <2>4. Stage(b, r)'
    BY <1>1, <1>4, <2>1, <2>3, SameSetting DEF Stage
  <2>5. Holding(b, r)'
    BY <1>1, <1>4, <1>6, <1>7, <2>1, Firsts, HoldingAnywhere
  <2>6. Received(b, r)'
    BY <2>2 DEF Received
  <2>7. \A x \in Exchanges : Done(b, r, x)' = Done(b, r, x)
    BY <1>2, <1>3, <1>4, <2>1, Firsts, SameSetting DEF Done, Over, Between, Firstly
  <2> QED
    BY <1>1, <1>4, <1>5, <2>1, <2>4, <2>5, <2>6, <2>7, QuietStep DEF Exchanges, ToRoot, FromRoot
<1>8. CASE ~sum[r]
  <2>1. Succeed(r)
    BY <1>8 DEF Updated
  <2>2. todo'[r] = AtApply /\ outcome'[r] = [outcome[r] EXCEPT ![b.k] = "ok"]
    BY <1>3, <2>1, ApplicationIs DEF TypeOK, BuiltOK, Succeed
  <2>3. outcome'[r][b.k] = "ok" /\ \A j \in Rounds : j # b.k => outcome'[r][j] = outcome[r][j]
    BY <1>3, <2>2 DEF TypeOK, BuiltOK
  <2>4. Now(r)' = "apply"
    BY <2>2, NowIs, Firsts
  <2>5. Leaving(b, r)'
    BY <1>1, <1>2, <1>3, <1>4, <1>8, <2>2, <2>3, SameSetting DEF Leaving, Settled, Applying
  <2>6. Stage(b, r)'
    <3>1. \A j \in Rounds : j > b.k => outcome'[r][j] = ""
      BY <1>1, <1>3, <2>3, OtherRounds DEF Stage
    <3> QED
      BY <1>4, <2>5, <3>1, SameSetting DEF Stage
  <2>7. Holding(b, r)'
    BY <1>1, <1>2, <1>4, <1>6, <1>8, <2>2, Firsts, SameSetting DEF Holding, Current
  <2>8. Received(b, r)'
    BY <2>4 DEF Received
  <2>9. \A x \in Exchanges : Done(b, r, x)' = Done(b, r, x)
    BY <1>2, <1>3, <1>4, <2>2, Firsts, SameSetting DEF Done, Over, Between, Firstly
  <2>10. \A j \in Rounds : j < b.k => outcome'[r][j] = outcome[r][j]
    BY <1>3, <2>3, OtherRounds
  <2> QED
    BY <1>1, <1>4, <1>5, <2>6, <2>7, <2>8, <2>9, <2>10, QuietStep DEF Exchanges, ToRoot, FromRoot
<1> QED
  BY <1>7, <1>8

LEMMA BuildKeeps ==
  ASSUME TypeOK, NEW b \in Barriers, Since(b), NEW r \in Ranks, Build(r)
  PROVE  Since(b)'
<1>1. Now(r) = "build" /\ Stage(b, r) /\ Holding(b, r) /\ sum[r] = b.s
  BY DEF Build, Since
<1>2. (Redoing(b, r) \/ Entering(b, r)) /\ todo[r] = IF Is("root") THEN AtBuildRoot ELSE AtBuild
  BY <1>1, Where
<1>3. ~inside[r] /\ (Redoing(b, r) => ~Is("root"))
  BY <1>1 DEF Holding, Exchanges, ToRoot, FromRoot, Redoing, Since
<1>4. setting' = setting /\ mail' = mail /\ inside' = inside /\ outcome' = outcome /\ sum' = sum
      /\ round' = round /\ used' = used /\ (~Is("root") => built' = built)
  BY DEF Build
<1>5. \A q \in Ranks \ {r} : Same(q)
  BY DEF Build, Proceed, Go, TypeOK, BuiltOK, Same, Still
<1>6. todo'[r] = IF Is("root") THEN AtReduce ELSE AtPlan
  BY <1>2, Tails DEF Build, Proceed, Go, TypeOK, BuiltOK
<1>7. Now(r)' = IF Is("root") THEN "reduce" ELSE "plan"
  BY <1>6, NowIs, Firsts
<1>8. Redoing(b, r)' \/ Entering(b, r)'
  <2>1. CASE Redoing(b, r)
    BY <1>4, <1>6, <2>1, SameSetting DEF Redoing, ToConclude
  <2>2. CASE Entering(b, r)
    <3>1. Anew(b.k + 1)
      BY <1>2, <2>2, Firsts, Ways DEF Entering
    <3> QED
      BY <1>4, <1>6, <2>2, <3>1, SameSetting DEF Entering, Settled, ToConclude
  <2> QED
    BY <1>2, <2>1, <2>2
<1>9. Stage(b, r)'
  BY <1>1, <1>4, <1>8, SameSetting DEF Stage
<1>10. Holding(b, r)'
  <2>1. todo'[r] \notin Applying
    BY <1>6, Firsts, NotApplying
  <2>2. ~(b.c = "update" /\ ~b.s)
    BY <1>2 DEF Redoing, Entering, Settled
  <2> QED
    BY <1>3, <1>4, <1>6, <2>1, <2>2, Firsts, Different, SameSetting DEF Holding
<1>11. Received(b, r)'
  BY <1>7 DEF Received
<1>12. \A x \in Exchanges : Done(b, r, x)' = Done(b, r, x)
  <2>1. Over(b, r)' = Over(b, r)
    BY <1>2, <1>4, <1>6, Firsts DEF Over, Between
  <2> QED
    BY <1>2, <1>4, <1>6, <2>1, Firsts, Different, SameSetting DEF Done, Firstly
<1> QED
  BY <1>1, <1>4, <1>5, <1>9, <1>10, <1>11, <1>12, QuietStep DEF Exchanges, ToRoot, FromRoot

LEMMA PlanKeeps ==
  ASSUME TypeOK, NEW b \in Barriers, Since(b), NEW r \in Ranks, Plan(r)
  PROVE  Since(b)'
<1>1. Now(r) = "plan" /\ Stage(b, r) /\ Holding(b, r) /\ sum[r] = b.s
  BY DEF Plan, Since
<1>2. (Redoing(b, r) \/ Entering(b, r)) /\ ~Is("root") /\ todo[r] = AtPlan
  BY <1>1, Where
<1>3. ~inside[r]
  BY <1>1 DEF Holding, Exchanges, ToRoot, FromRoot
<1>4. setting' = setting /\ mail' = mail /\ inside' = inside /\ outcome' = outcome /\ sum' = sum
      /\ round' = round /\ used' = used /\ failed' = failed /\ built' = built
  BY DEF Plan
<1>5. \A q \in Ranks \ {r} : Same(q)
  BY DEF Plan, Go, TypeOK, BuiltOK, Same, Still
<1>6. todo'[r] = IF Is("csr") \/ ~failed[r] THEN AtHandshake ELSE AtReduce
  BY DEF Plan, Go, TypeOK, BuiltOK, AtHandshake, AtReduce
<1>7. Now(r)' \in {"handshake", "reduce"}
  BY <1>6, NowIs, Firsts
<1>8. Redoing(b, r)' \/ Entering(b, r)'
  <2>1. CASE Redoing(b, r)
    BY <1>2, <1>4, <1>6, <2>1, SameSetting DEF Redoing, ToConclude
  <2>2. CASE Entering(b, r)
    <3>1. Anew(b.k + 1)
      BY <1>2, <2>2, Firsts, Ways DEF Entering
    <3> QED
      BY <1>2, <1>4, <1>6, <2>2, <3>1, SameSetting DEF Entering, Settled, ToConclude
  <2> QED
    BY <1>2, <2>1, <2>2
<1>9. Stage(b, r)'
  BY <1>1, <1>4, <1>8, SameSetting DEF Stage
<1>10. Holding(b, r)'
  <2>1. todo'[r] \notin Applying
    BY <1>6, Firsts, NotApplying
  <2>2. ~(b.c = "update" /\ ~b.s)
    BY <1>2 DEF Redoing, Entering, Settled
  <2> QED
    BY <1>3, <1>4, <1>6, <2>1, <2>2, Firsts, Different, SameSetting DEF Holding
<1>11. Received(b, r)'
  BY <1>7 DEF Received
<1>12. \A x \in Exchanges : Done(b, r, x)' = Done(b, r, x)
  <2>1. Over(b, r)' = Over(b, r)
    BY <1>2, <1>4, <1>6, Firsts DEF Over, Between
  <2> QED
    BY <1>2, <1>4, <1>6, <2>1, Firsts, Different, SameSetting DEF Done, Firstly
<1> QED
  BY <1>1, <1>4, <1>5, <1>9, <1>10, <1>11, <1>12, QuietStep DEF Exchanges, ToRoot, FromRoot

LEMMA ConcludeKeeps ==
  ASSUME TypeOK, NEW b \in Barriers, Since(b), NEW r \in Ranks, Conclude(r)
  PROVE  Since(b)'
<1>1. Now(r) = "conclude" /\ Stage(b, r) /\ Holding(b, r) /\ sum[r] = b.s
  BY DEF Conclude, Since
<1>2. todo[r] = AtConclude /\ Deciding(b, r) /\ b.c = "conclude"
  BY <1>1, Where
<1>3. round[r] = b.k /\ b.k \in Rounds /\ outcome[r][b.k] = "" /\ Settled(b) /\ b.k \in Nat
  BY <1>1, <1>2 DEF Deciding, Settled, Barriers
<1>4. setting' = setting /\ mail' = mail /\ inside' = inside /\ sum' = sum
      /\ round' = round /\ failed' = failed /\ used' = used
  BY DEF Conclude
<1>5. \A q \in Ranks \ {r} : Same(q)
  <2>1. \A q \in Ranks \ {r} :
          todo'[q] = todo[q] /\ outcome'[q] = outcome[q] /\ built'[q] = built[q]
    BY DEF Conclude, Go, Succeed, TypeOK, BuiltOK
  <2> QED
    BY <1>4, <2>1 DEF Same, Still
<1>6. ~inside[r]
  BY <1>1 DEF Holding, Exchanges, ToRoot, FromRoot
<1>7. CASE sum[r]
  <2>1. todo'[r] = AtReport /\ outcome' = outcome
    BY <1>7 DEF Conclude, Go, TypeOK, BuiltOK, AtReport
  <2>2. Now(r)' = "report"
    BY <2>1, NowIs, Firsts
  <2>3. Leaving(b, r)'
    BY <1>1, <1>2, <1>3, <1>4, <1>7, <2>1, Firsts, SameSetting DEF Leaving, Settled, Refusing, Between
  <2>4. Stage(b, r)'
    BY <1>1, <1>4, <2>1, <2>3, SameSetting DEF Stage
  <2>5. Holding(b, r)'
    BY <1>1, <1>4, <1>6, <1>7, <2>1, Firsts, HoldingAnywhere
  <2>6. Received(b, r)'
    BY <2>2 DEF Received
  <2>7. \A x \in Exchanges : Done(b, r, x)' = Done(b, r, x)
    BY <1>2, <1>3, <1>4, <2>1, Firsts, SameSetting DEF Done, Over, Between, Firstly
  <2> QED
    BY <1>1, <1>4, <1>5, <2>1, <2>4, <2>5, <2>6, <2>7, QuietStep DEF Exchanges, ToRoot, FromRoot
<1>8. CASE ~sum[r]
  <2>1. Succeed(r)
    BY <1>8 DEF Conclude
  <2>2. /\ todo'[r] = IF Is("root") THEN AtApplyRoot ELSE AtApply
        /\ outcome'[r] = [outcome[r] EXCEPT ![b.k] = "ok"]
    BY <1>3, <2>1, ApplicationIs DEF TypeOK, BuiltOK, Succeed
  <2>3. outcome'[r][b.k] = "ok" /\ \A j \in Rounds : j # b.k => outcome'[r][j] = outcome[r][j]
    BY <1>3, <2>2 DEF TypeOK, BuiltOK
  <2>4. Now(r)' = "apply" /\ todo'[r] \in Applying
    BY <2>2, NowIs, Firsts DEF Applying
  <2>5. Leaving(b, r)'
    BY <1>1, <1>2, <1>3, <1>4, <1>8, <2>3, <2>4, SameSetting DEF Leaving, Settled
  <2>6. Stage(b, r)'
    <3>1. \A j \in Rounds : j > b.k => outcome'[r][j] = ""
      BY <1>1, <1>3, <2>3, OtherRounds DEF Stage
    <3> QED
      BY <1>4, <2>5, <3>1, SameSetting DEF Stage
  <2>7. Holding(b, r)'
    <3>1. built'[r] = [amg |-> IF Is("root") /\ r # Root THEN 0 ELSE round[r], matrix |-> round[r],
                       op |-> IF Is("csr") THEN round[r] ELSE 0, pattern |-> Pattern(round[r])]
      BY <1>8 DEF Conclude, TypeOK, BuiltOK
    <3>2. Current(r)'
      BY <1>4, <3>1, SameSetting DEF Current
    <3> QED
      BY <1>2, <1>4, <1>6, <2>2, <2>4, <3>2, Firsts, SameSetting DEF Holding
  <2>8. Received(b, r)'
    BY <2>4 DEF Received
  <2>9. \A x \in Exchanges : Done(b, r, x)' = Done(b, r, x)
    <3>1. Over(b, r)' = Over(b, r)
      BY <1>2, <1>3, <1>4, <2>2, Firsts DEF Over, Between
    <3> QED
      BY <1>2, <1>4, <2>2, <3>1, Firsts, SameSetting DEF Done, Firstly
  <2>10. \A j \in Rounds : j < b.k => outcome'[r][j] = outcome[r][j]
    BY <1>3, <2>3, OtherRounds
  <2> QED
    BY <1>1, <1>4, <1>5, <2>6, <2>7, <2>8, <2>9, <2>10, QuietStep DEF Exchanges, ToRoot, FromRoot
<1> QED
  BY <1>7, <1>8

LEMMA RefuseKeeps ==
  ASSUME TypeOK, NEW b \in Barriers, Since(b), NEW r \in Ranks, Refuse(r)
  PROVE  Since(b)'
<1>1. Now(r) = "refused" /\ Stage(b, r) /\ Holding(b, r) /\ sum[r] = b.s
  BY DEF Refuse, Since
<1>2. todo[r] = AtRefused /\ Leaving(b, r)
  BY <1>1, Where
<1>3. round[r] = b.k /\ b.k \in Rounds /\ b.s /\ Settled(b) /\ b.k \in Nat
  BY <1>2, Firsts, Ways DEF Leaving, Barriers
<1>4. setting' = setting /\ mail' = mail /\ inside' = inside /\ sum' = sum
      /\ round' = round /\ failed' = failed /\ used' = used /\ built' = built
  BY DEF Refuse
<1>5. \A q \in Ranks \ {r} : Same(q)
  <2>1. \A q \in Ranks \ {r} : todo'[q] = todo[q] /\ outcome'[q] = outcome[q]
    BY DEF Refuse, Go, TypeOK, BuiltOK
  <2> QED
    BY <1>4, <2>1 DEF Same, Still
<1>6. ~inside[r]
  BY <1>1 DEF Holding, Exchanges, ToRoot, FromRoot
<1>7. todo'[r] = AtBegin /\ outcome'[r] = [outcome[r] EXCEPT ![b.k] = "error"]
  BY <1>3 DEF Refuse, Go, TypeOK, BuiltOK, AtBegin
<1>8. outcome'[r][b.k] = "error" /\ \A j \in Rounds : j # b.k => outcome'[r][j] = outcome[r][j]
  BY <1>3, <1>7 DEF TypeOK, BuiltOK
<1>9. Now(r)' = "begin" /\ todo'[r] \in Between
  BY <1>7, NowIs, Firsts DEF Between
<1>10. Stage(b, r)'
  <2>1. Leaving(b, r)'
    BY <1>1, <1>3, <1>4, <1>8, <1>9, SameSetting DEF Leaving, Settled, Between
  <2>2. \A j \in Rounds : j > b.k => outcome'[r][j] = ""
    BY <1>1, <1>3, <1>8, OtherRounds DEF Stage
  <2> QED
    BY <1>4, <2>1, <2>2, SameSetting DEF Stage
<1>11. Holding(b, r)'
  BY <1>3, <1>4, <1>6, <1>7, Firsts, HoldingAnywhere
<1>12. Received(b, r)'
  BY <1>9 DEF Received
<1>13. \A x \in Exchanges : Done(b, r, x)' = Done(b, r, x)
  <2>1. Over(b, r)'
    BY <1>9 DEF Over, Between
  <2>2. ~Over(b, r)
    BY <1>2, <1>3, Firsts DEF Over, Between
  <2> QED
    BY <1>2, <1>3, <1>4, <1>7, <2>1, <2>2, Firsts, SameSetting DEF Done, Firstly
<1>14. \A j \in Rounds : j < b.k => outcome'[r][j] = outcome[r][j]
  BY <1>3, <1>8, OtherRounds
<1> QED
  BY <1>1, <1>4, <1>5, <1>10, <1>11, <1>12, <1>13, <1>14, QuietStep DEF Exchanges, ToRoot, FromRoot

LEMMA ApplyKeeps ==
  ASSUME TypeOK, NEW b \in Barriers, Since(b), NEW r \in Ranks, Apply(r)
  PROVE  Since(b)'
<1>1. Now(r) = "apply" /\ Stage(b, r) /\ Holding(b, r) /\ sum[r] = b.s
  BY DEF Apply, Since
<1>2. Leaving(b, r) /\ todo[r] = IF Is("root") THEN AtApplyRoot ELSE AtApply
  BY <1>1, Where
<1>3. todo[r] \in Applying /\ round[r] = b.k /\ b.k \in Rounds /\ ~b.s /\ Settled(b) /\ b.k \in Nat
  BY <1>2, Firsts, Ways DEF Leaving, Barriers, Applying
<1>4. setting' = setting /\ mail' = mail /\ inside' = inside /\ sum' = sum /\ outcome' = outcome
      /\ round' = round /\ failed' = failed /\ built' = built
  BY DEF Apply
<1>5. \A q \in Ranks \ {r} : Same(q)
  BY DEF Apply, Proceed, Go, TypeOK, BuiltOK, Same, Still
<1>6. todo'[r] = (IF Is("root") THEN AtGatherR ELSE AtHalo) /\ used'[r] = {}
  BY <1>2, Tails DEF Apply, Proceed, Go, TypeOK, BuiltOK
<1>7. Now(r)' \in {"gather_r", "halo"} /\ todo'[r] \in Applying
  BY <1>6, NowIs, Firsts DEF Applying
<1>8. Stage(b, r)'
  <2>1. Leaving(b, r)'
    BY <1>2, <1>3, <1>4, <1>7, SameSetting DEF Leaving, Settled
  <2> QED
    BY <1>1, <1>4, <2>1, SameSetting DEF Stage
<1>9. Holding(b, r)'
  <2>1. Current(r)'
    BY <1>1, <1>3, <1>4, SameSetting DEF Holding, Current
  <2> QED
    BY <1>1, <1>3, <1>4, <1>6, <1>7, <2>1, Firsts, SameSetting
    DEF Holding, Settled, Exchanges, ToRoot, FromRoot
<1>10. Received(b, r)'
  BY <1>6, <1>7 DEF Received
<1>11. \A x \in Exchanges : Done(b, r, x)' = Done(b, r, x)
  <2>1. ~Over(b, r)' /\ ~Over(b, r)
    BY <1>2, <1>3, <1>4, <1>6, Firsts DEF Over, Between
  <2> QED
    BY <1>2, <1>4, <1>6, <2>1, Firsts, SameSetting DEF Done, Firstly
<1> QED
  BY <1>1, <1>4, <1>5, <1>8, <1>9, <1>10, <1>11, QuietStep DEF Exchanges, ToRoot, FromRoot

LEMMA ReturnKeeps ==
  ASSUME TypeOK, NEW b \in Barriers, Since(b), NEW r \in Ranks, Return(r)
  PROVE  Since(b)'
<1>1. Now(r) = "applied" /\ Stage(b, r) /\ Holding(b, r) /\ sum[r] = b.s
  BY DEF Return, Since
<1>2. Leaving(b, r) /\ todo[r] = AtApplied
  BY <1>1, Where
<1>3. round[r] = b.k /\ b.k \in Rounds /\ ~b.s /\ Settled(b) /\ b.k \in Nat
  BY <1>2, Firsts, Ways DEF Leaving, Barriers
<1>4. setting' = setting /\ mail' = mail /\ inside' = inside /\ sum' = sum /\ outcome' = outcome
      /\ round' = round /\ failed' = failed /\ built' = built /\ used' = used
  BY DEF Return
<1>5. \A q \in Ranks \ {r} : Same(q)
  BY DEF Return, Proceed, Go, TypeOK, BuiltOK, Same, Still
<1>6. todo'[r] = AtBegin
  BY <1>2, Tails DEF Return, Proceed, Go, TypeOK, BuiltOK
<1>7. Now(r)' = "begin" /\ todo'[r] \in Between
  BY <1>6, NowIs, Firsts DEF Between
<1>8. Stage(b, r)'
  <2>1. Leaving(b, r)'
    BY <1>2, <1>3, <1>4, <1>7, SameSetting DEF Leaving, Settled, Between
  <2> QED
    BY <1>1, <1>4, <2>1, SameSetting DEF Stage
<1>9. Holding(b, r)'
  BY <1>1, <1>3, <1>4, <1>6, Firsts, HoldingAnywhere DEF Holding, Exchanges, ToRoot, FromRoot, Settled
<1>10. Received(b, r)'
  BY <1>7 DEF Received
<1>11. \A x \in Exchanges : Done(b, r, x)' = Done(b, r, x)
  <2>1. Over(b, r)'
    BY <1>7 DEF Over, Between
  <2>2. ~Over(b, r)
    BY <1>2, <1>3, Firsts DEF Over, Between
  <2> QED
    BY <1>2, <1>3, <1>4, <1>6, <2>1, <2>2, Firsts, SameSetting DEF Done, Firstly
<1> QED
  BY <1>1, <1>4, <1>5, <1>8, <1>9, <1>10, <1>11, QuietStep DEF Exchanges, ToRoot, FromRoot

------------------------------------------------------------------------------
(* Exchanges.                                                              *)

Secondly == {"gather_matrix", "handshake"}

LEMMA CallKinds ==
  ASSUME NEW b \in Barriers, NEW p, NEW q
  PROVE  /\ FirstCall(b, p, q) = "none" \/ (Settled(b) /\ FirstCall(b, p, q) \in Firstly(b))
         /\ SecondCall(p, q) = "none" \/ SecondCall(p, q) \in Secondly
         /\ Firstly(b) \cap Secondly = {}
         /\ "none" \notin Exchanges /\ Firstly(b) \subseteq Exchanges /\ Secondly \subseteq Exchanges
BY DEF FirstCall, SecondCall, Secondly, Firstly, Exchanges, ToRoot, FromRoot, Barriers

(* What a rank sends or receives next is one of the two calls of a pair.   *)
LEMMA Addressed ==
  ASSUME NEW b \in Barriers, NEW r \in Ranks, NEW q \in Ranks, q # r, Stage(b, r),
         Now(r) \in Exchanges
  PROVE  /\ q \in Targets(r) <=> Now(r) = FirstCall(b, r, q) \/ Now(r) = SecondCall(r, q)
         /\ q \in Sources(r) <=> Now(r) = FirstCall(b, q, r) \/ Now(r) = SecondCall(q, r)
<1>1. CASE Now(r) = "gather_matrix"
  <2>1. Is("root")
    BY <1>1, Where
  <2> QED
    BY <1>1, <2>1 DEF Targets, Sources, ToRoot, FromRoot, Others, FirstCall, SecondCall
<1>2. CASE Now(r) = "handshake"
  <2>1. ~Is("root")
    BY <1>2, Where DEF Is
  <2> QED
    BY <1>2, <2>1 DEF Targets, Sources, ToRoot, FromRoot, Others, FirstCall, SecondCall
<1>3. CASE Now(r) = "report"
  <2>1. Settled(b) /\ b.s
    BY ZenonT(60), <1>3, Where, Firsts, Ways DEF Leaving
  <2> QED
    BY <1>3, <2>1 DEF Targets, Sources, ToRoot, FromRoot, Others, FirstCall, SecondCall
<1>4. CASE Now(r) = "verdict"
  <2>1. Settled(b) /\ b.s
    BY ZenonT(60), <1>4, Where, Firsts, Ways DEF Leaving
  <2> QED
    BY <1>4, <2>1 DEF Targets, Sources, ToRoot, FromRoot, Others, FirstCall, SecondCall
<1>5. CASE Now(r) = "gather_r"
  <2>1. Settled(b) /\ ~b.s /\ Is("root")
    BY ZenonT(60), <1>5, Where, Firsts, Ways DEF Leaving
  <2> QED
    BY <1>5, <2>1 DEF Targets, Sources, ToRoot, FromRoot, Others, FirstCall, SecondCall
<1>6. CASE Now(r) = "scatter_z"
  <2>1. Settled(b) /\ ~b.s /\ Is("root")
    BY ZenonT(60), <1>6, Where, Firsts, Ways DEF Leaving
  <2> QED
    BY <1>6, <2>1 DEF Targets, Sources, ToRoot, FromRoot, Others, FirstCall, SecondCall
<1>7. CASE Now(r) = "halo"
  <2>1. Settled(b) /\ ~b.s /\ ~Is("root")
    BY ZenonT(60), <1>7, Where, Firsts, Ways DEF Leaving
  <2> QED
    BY <1>7, <2>1 DEF Targets, Sources, ToRoot, FromRoot, Others, FirstCall, SecondCall
<1> QED
  BY <1>1, <1>2, <1>3, <1>4, <1>5, <1>6, <1>7 DEF Exchanges, ToRoot, FromRoot

(* A rank has not completed what it is in, and the second call comes after *)
(* the first.                                                              *)
LEMMA InOrder ==
  ASSUME NEW b \in Barriers, NEW r \in Ranks, Stage(b, r)
  PROVE  /\ Now(r) \in Exchanges => ~Done(b, r, Now(r))
         /\ \A x \in Secondly, y \in Firstly(b) : Settled(b) /\ Sent(b, r, x) => Done(b, r, y)
<1>0. b.k \in Nat /\ b.k # b.k + 1
  BY DEF Barriers
<1>1. ASSUME Now(r) = "handshake"
      PROVE  ~Done(b, r, Now(r))
  <2>1. todo[r] \in {AtHandshake, AtHandshakeAdopt}
    BY <1>1, Where
  <2>2. ~Done(b, r, "handshake")
    BY <2>1, Firsts DEF Done, Firstly
  <2> QED
    BY <1>1, <2>2
<1>2. ASSUME Now(r) = "gather_matrix"
      PROVE  ~Done(b, r, Now(r))
  <2>1. todo[r] = AtGatherMatrix
    BY <1>2, Where
  <2>2. ~Done(b, r, "gather_matrix")
    BY <2>1, Firsts DEF Done, Firstly
  <2> QED
    BY <1>2, <2>2
<1>3. ASSUME Now(r) \in {"report", "verdict", "gather_r", "scatter_z", "halo"}
      PROVE  ~Done(b, r, Now(r))
  <2>1. Leaving(b, r)
    BY <1>3, Where
  <2>2. ~Over(b, r)
    BY <1>0, <1>3, <2>1, NowIs, Firsts DEF Over, Between, Leaving
  <2>3. \/ todo[r] = AtReport /\ Now(r) = "report"
        \/ todo[r] = AtVerdict /\ Now(r) = "verdict"
        \/ todo[r] = AtGatherR /\ Now(r) = "gather_r"
        \/ todo[r] = AtScatterZ /\ Now(r) = "scatter_z"
        \/ todo[r] = AtHalo /\ Now(r) = "halo"
    BY <1>3, Where
  <2> QED
    BY <2>2, <2>3, Firsts DEF Done
<1>4. Now(r) \in Exchanges => ~Done(b, r, Now(r))
  BY <1>1, <1>2, <1>3 DEF Exchanges, ToRoot, FromRoot
<1>5. ASSUME NEW x \in Secondly, Settled(b), Sent(b, r, x)
      PROVE  Over(b, r)
  <2>1. Now(r) \in {"gather_matrix", "handshake", "build", "reduce", "adopt"}
    BY <1>5, NowIs, Firsts DEF Sent, Done, Secondly, Firstly
  <2>2. Entering(b, r)
    BY <1>5, <2>1, Where DEF Redoing, Updating, Settled
  <2> QED
    BY <2>2 DEF Entering, Over
<1> QED
  BY <1>4, <1>5 DEF Done

LEMMA SendKeeps ==
  ASSUME TypeOK, NEW b \in Barriers, Since(b), NEW r \in Ranks, Send(r)
  PROVE  Since(b)'
<1>1. Now(r) \in Exchanges /\ ~inside[r] /\ Stage(b, r) /\ Holding(b, r) /\ Received(b, r)
  BY DEF Send, Since
<1>2. setting' = setting /\ round' = round /\ todo' = todo /\ failed' = failed /\ sum' = sum
      /\ built' = built /\ outcome' = outcome /\ used' = used
  BY DEF Send
<1>3. inside'[r] /\ \A q \in Ranks \ {r} : Same(q)
  BY <1>2 DEF Send, TypeOK, BuiltOK, Same, Still
<1>4. Stage(b, r)' /\ Holding(b, r)' /\ Received(b, r)' /\ Now(r)' = Now(r)
      /\ \A x : Done(b, r, x)' = Done(b, r, x)
  BY <1>1, <1>2, StillRank DEF Still
<1>5. \A x : Sent(b, r, x)' = (Sent(b, r, x) \/ x = Now(r))
  BY <1>1, <1>3, <1>4 DEF Sent
<1>6. ~Sent(b, r, Now(r))
  BY <1>1, InOrder DEF Sent
<1>7. ASSUME NEW p \in Ranks, NEW q \in Ranks, p # q, p # r
      PROVE  Mail(b, p, q)'
  <2>1. Mail(b, p, q)
    BY <1>7 DEF Since
  <2>2. mail'[<<p, q>>] = mail[<<p, q>>]
    BY <1>7 DEF Send, Pairs, TypeOK, BuiltOK
  <2>3. \A x : Sent(b, p, x)' = Sent(b, p, x)
    BY <1>2, <1>3, <1>7, SameRank
  <2>4. \A x : Done(b, q, x)' = Done(b, q, x)
    BY <1>2, <1>3, <1>4, SameRank
  <2> QED
    BY <1>2, <2>1, <2>2, <2>3, <2>4, MailKept
<1>8. ASSUME NEW q \in Ranks, q # r
      PROVE  Mail(b, r, q)'
  <2> DEFINE first == FirstCall(b, r, q)
             second == SecondCall(r, q)
             m == mail[<<r, q>>]
  <2>1. Mail(b, r, q)
    BY <1>8 DEF Since
  <2>2. mail'[<<r, q>>] = IF q \in Targets(r) THEN Append(m, Message(r)) ELSE m
    BY <1>8 DEF Send, Pairs, TypeOK, BuiltOK
  <2>3. \A x : Done(b, q, x)' = Done(b, q, x)
    BY <1>2, <1>3, <1>8, SameRank
  <2>4. q \in Targets(r) <=> Now(r) = first \/ Now(r) = second
    BY <1>1, <1>8, Addressed
  <2>5. CASE q \notin Targets(r)
    <3>1. mail'[<<r, q>>] = mail[<<r, q>>]
      BY <2>2, <2>5
    <3>2. \A x \in {first, second} : Sent(b, r, x)' = Sent(b, r, x)
      BY <1>5, <2>4, <2>5 DEF Sent
    <3> QED
      BY <1>2, <1>8, <2>1, <2>3, <3>1, <3>2, MailKept
  <2>6. CASE q \in Targets(r)
    <3>1. /\ m \in Seq(Messages)
          /\ Len(m) = (IF InFlight(b, r, q, first) THEN 1 ELSE 0)
                       + (IF InFlight(b, r, q, second) THEN 1 ELSE 0)
          /\ InFlight(b, r, q, first) /\ ~b.s => Good(b, Head(m))
          /\ \A x \in {first, second} : x # "none" /\ Done(b, q, x) => Sent(b, r, x)
      BY <2>1 DEF Mail
    <3>2. Message(r) \in Messages
      BY <1>1 DEF Message, Messages, TypeOK, BuiltOK
    <3>3. /\ mail'[<<r, q>>] = Append(m, Message(r)) /\ mail'[<<r, q>>] \in Seq(Messages)
          /\ Len(mail'[<<r, q>>]) = Len(m) + 1 /\ Len(m) \in Nat
          /\ Head(mail'[<<r, q>>]) = IF Len(m) = 0 THEN Message(r) ELSE Head(m)
      BY <2>2, <2>6, <3>1, <3>2, AppendProperties
    <3>4. FirstCall(b, r, q)' = first /\ SecondCall(r, q)' = second
      BY <1>2, SameSetting
    <3>5. \A x \in {first, second} : InFlight(b, r, q, x)' =
            (x # "none" /\ (Sent(b, r, x) \/ x = Now(r)) /\ ~Done(b, q, x))
      BY <1>5, <2>3 DEF InFlight
    <3>6. \A x \in {first, second} : x # "none" /\ Done(b, q, x)' => Sent(b, r, x)'
      BY <1>5, <2>3, <3>1
    <3>7. ~Sent(b, r, Now(r)) /\ Now(r) # "none" /\ first \notin Secondly
      BY <1>1, <1>6, CallKinds
    <3>8. CASE Now(r) = first
      <4>1. Settled(b) /\ first \in Firstly(b) /\ second # first
        BY <3>7, <3>8, CallKinds
      <4>2. second = "none" \/ ~Sent(b, r, second)
        BY <1>1, <3>7, <3>8, <4>1, CallKinds, InOrder DEF Sent
      <4>3. ~InFlight(b, r, q, first) /\ ~InFlight(b, r, q, second)
        BY <3>7, <3>8, <4>2 DEF InFlight
      <4>4. InFlight(b, r, q, first)' /\ ~InFlight(b, r, q, second)'
        BY <3>1, <3>4, <3>5, <3>7, <3>8, <4>1, <4>2 DEF InFlight
      <4>5. ~b.s => Good(b, Message(r))
        <5>1. SUFFICES ASSUME ~b.s
                       PROVE  Good(b, Message(r))
          OBVIOUS
        <5>2. Now(r) \in {"gather_r", "scatter_z", "halo"}
          BY <3>8, <4>1, <5>1 DEF Firstly
        <5>3. Leaving(b, r) /\ todo[r] \in Applying
          BY <1>1, <5>2, Where DEF Applying
        <5>4. Current(r) /\ round[r] = b.k
          BY <1>1, <5>3 DEF Holding, Leaving
        <5>5. Now(r) = "scatter_z" => r = Root
          BY <3>8 DEF FirstCall
        <5>6. Now(r) = "halo" => ~Is("root")
          BY <3>8 DEF FirstCall
        <5> QED
          BY <5>2, <5>4, <5>5, <5>6 DEF Good, Message, Current
      <4> QED
        BY <3>1, <3>3, <3>4, <3>6, <4>3, <4>4, <4>5 DEF Mail, Good
    <3>9. CASE Now(r) = second
      <4>1. second # first
        BY <3>7, <3>9, CallKinds
      <4>2. ~InFlight(b, r, q, second) /\ InFlight(b, r, q, second)'
        BY <3>1, <3>4, <3>5, <3>7, <3>9 DEF InFlight
      <4>3. InFlight(b, r, q, first)' = InFlight(b, r, q, first)
        BY <3>4, <3>5, <3>9, <4>1 DEF InFlight
      <4>4. InFlight(b, r, q, first) => Len(m) # 0
        BY <3>1
      <4> QED
        BY <3>1, <3>3, <3>4, <3>6, <4>2, <4>3, <4>4 DEF Mail, Good
    <3> QED
      BY <2>4, <2>6, <3>8, <3>9
  <2> QED
    BY <2>5, <2>6
<1> QED
  BY <1>2, <1>3, <1>4, <1>7, <1>8, OwnStep

(* The place after an exchange.                                            *)
LEMMA AfterCall ==
  ASSUME TypeOK, NEW b \in Barriers, Since(b), NEW r \in Ranks,
         NEW c \in Exchanges, c = Now(r),
         todo'[r] = Tail(todo[r]), setting' = setting, round'[r] = round[r],
         failed'[r] = failed[r], built'[r] = built[r], outcome'[r] = outcome[r], ~inside'[r]
  PROVE  /\ Stage(b, r)' /\ Holding(b, r)' /\ Done(b, r, c)'
         /\ \A x \in Exchanges \ {c} : Done(b, r, x)' = Done(b, r, x)
         /\ Now(r)' = "scatter_z" => c = "gather_r"
         /\ Now(r)' = "applied" => c \in {"scatter_z", "halo"}
         /\ Now(r)' \notin {"gather_r", "halo"}
<1>1. Stage(b, r) /\ Holding(b, r) /\ (b.c # "conclude" => ~Is("root"))
  BY DEF Since
<1>2. b.k \in Nat /\ b.k # b.k + 1
  BY DEF Barriers
<1>3. CASE c = "gather_matrix"
  <2>1. (Redoing(b, r) \/ Entering(b, r)) /\ todo'[r] = AtBuildRoot /\ todo[r] = AtGatherMatrix /\ Is("root")
    BY <1>3, <1>1, Where, Tails, Different
  <2>2. Now(r)' = "build"
    BY <2>1, NowIs, Firsts
  <2>3. Redoing(b, r)' \/ Entering(b, r)'
    <3>1. CASE Redoing(b, r)
      BY <1>1, <2>1, <3>1, SameSetting DEF Redoing, ToConclude
    <3>2. CASE Entering(b, r)
      <4>1. Anew(b.k + 1)
        BY <2>1, <3>2, Firsts, Ways DEF Entering
      <4> QED
        BY <2>1, <3>2, <4>1, SameSetting DEF Entering, Settled, ToConclude
    <3> QED
      BY <2>1, <3>1, <3>2
  <2>4. Stage(b, r)'
    BY <1>1, <2>3, SameSetting DEF Stage
  <2>5. Holding(b, r)'
    <3>1. todo'[r] \notin Applying
      BY <2>1, Firsts, NotApplying
    <3>2. ~(b.c = "update" /\ ~b.s)
      BY <2>1 DEF Redoing, Entering, Settled
    <3> QED
      BY <2>1, <3>1, <3>2, Firsts, Different, SameSetting DEF Holding
  <2>6. Over(b, r)' = Over(b, r)
    BY <2>1, Firsts DEF Over, Between
  <2>7. Done(b, r, "gather_matrix")'
    BY <1>1, <2>1, SameSetting DEF Done, Holding
  <2>8. \A x \in Exchanges \ {"gather_matrix"} : Done(b, r, x)' = Done(b, r, x)
    <3>1. \A x : Done(b, r, x) <=> x \in Firstly(b) /\ Over(b, r)
      BY <2>1, Firsts, Different DEF Done
    <3>2. \A x : Done(b, r, x)' <=> x = "gather_matrix" \/ (x \in Firstly(b)' /\ Over(b, r)')
      BY <1>1, <2>1, <2>7, Firsts, Different, SameSetting DEF Done
    <3> QED
      BY <3>1, <3>2, <2>6, SameSetting DEF Done
  <2> QED
    BY <1>3, <2>2, <2>4, <2>5, <2>7, <2>8
<1>4. CASE c = "handshake" /\ todo[r] = AtHandshake
  <2>1. (Redoing(b, r) \/ Entering(b, r)) /\ todo'[r] = AtReduce /\ todo[r] = AtHandshake /\ ~Is("root")
    BY <1>4, <1>1, Where, Tails, Different
  <2>2. Now(r)' = "reduce"
    BY <2>1, NowIs, Firsts
  <2>3. Redoing(b, r)' \/ Entering(b, r)'
    <3>1. CASE Redoing(b, r)
      BY <1>1, <2>1, <3>1, SameSetting DEF Redoing, ToConclude
    <3>2. CASE Entering(b, r)
      <4>1. Anew(b.k + 1)
        BY <2>1, <3>2, Firsts, Ways DEF Entering
      <4> QED
        BY <2>1, <3>2, <4>1, SameSetting DEF Entering, Settled, ToConclude
    <3> QED
      BY <2>1, <3>1, <3>2
  <2>4. Stage(b, r)'
    BY <1>1, <2>3, SameSetting DEF Stage
  <2>5. Holding(b, r)'
    <3>1. todo'[r] \notin Applying
      BY <2>1, Firsts, NotApplying
    <3>2. ~(b.c = "update" /\ ~b.s)
      BY <2>1 DEF Redoing, Entering, Settled
    <3> QED
      BY <2>1, <3>1, <3>2, Firsts, Different, SameSetting DEF Holding
  <2>6. Over(b, r)' = Over(b, r)
    BY <2>1, Firsts DEF Over, Between
  <2>7. Done(b, r, "handshake")'
    BY <1>1, <2>1, SameSetting, Firsts DEF Done, Holding
  <2>8. \A x \in Exchanges \ {"handshake"} : Done(b, r, x)' = Done(b, r, x)
    <3>1. \A x : Done(b, r, x) <=> x \in Firstly(b) /\ Over(b, r)
      BY <2>1, Firsts, Different DEF Done
    <3>2. \A x : Done(b, r, x)' <=> x = "handshake" \/ (x \in Firstly(b)' /\ Over(b, r)')
      BY <1>1, <2>1, <2>7, Firsts, Different, SameSetting DEF Done
    <3> QED
      BY <3>1, <3>2, <2>6, SameSetting DEF Done
  <2> QED
    BY <1>4, <2>2, <2>4, <2>5, <2>7, <2>8
<1>5. CASE c = "handshake" /\ todo[r] = AtHandshakeAdopt
  <2>1. Updating(b, r) /\ Is("csr") /\ todo'[r] = AtAdopt
    BY <1>5, <1>1, Where, Tails, Different
  <2>2. Now(r)' = "adopt"
    BY <2>1, NowIs, Firsts
  <2>3. Stage(b, r)'
    <3>1. Updating(b, r)'
      BY <2>1, SameSetting DEF Updating, ToUpdated
    <3> QED
      BY <1>1, <3>1, SameSetting DEF Stage
  <2>4. Holding(b, r)'
    <3>1. todo'[r] \notin Applying
      BY <2>1, Firsts, NotApplying
    <3> QED
      BY <1>1, <1>5, <2>1, <3>1, Firsts, SameSetting DEF Holding
  <2>5. Over(b, r)' = Over(b, r)
    BY <1>5, <2>1, Firsts DEF Over, Between
  <2>6. Done(b, r, "handshake")'
    BY <2>1, SameSetting DEF Done
  <2>7. \A x \in Exchanges \ {"handshake"} : Done(b, r, x)' = Done(b, r, x)
    <3>1. \A x : Done(b, r, x) <=> x \in Firstly(b) /\ Over(b, r)
      BY <1>5, <2>1, Firsts, Different DEF Done
    <3>2. \A x : Done(b, r, x)' <=> x = "handshake" \/ (x \in Firstly(b)' /\ Over(b, r)')
      BY <1>1, <1>5, <2>1, <2>6, Firsts, Different, SameSetting DEF Done
    <3> QED
      BY <3>1, <3>2, <2>5, SameSetting DEF Done
  <2> QED
    BY <1>5, <2>2, <2>3, <2>4, <2>6, <2>7
<1>6. CASE c \in {"report", "verdict"}
  <2>1. /\ Leaving(b, r)
        /\ \/ c = "report" /\ todo[r] = AtReport /\ todo'[r] = AtVerdict
           \/ c = "verdict" /\ todo[r] = AtVerdict /\ todo'[r] = AtRefused
    BY <1>6, <1>1, Where, Tails
  <2>2. b.k \in Rounds /\ b.s /\ Settled(b) /\ round[r] = b.k
    BY <2>1, Firsts, Ways DEF Leaving
  <2>3. Now(r)' \in {"verdict", "refused"}
    BY <2>1, NowIs, Firsts
  <2>4. Stage(b, r)'
    <3>1. Leaving(b, r)'
      BY <2>1, <2>2, Firsts, SameSetting DEF Leaving, Settled, Refusing, Between
    <3> QED
      BY <1>1, <3>1, SameSetting DEF Stage
  <2>5. Holding(b, r)'
    BY <2>1, <2>2, Firsts, HoldingAnywhere
  <2>6. ~Over(b, r)' /\ ~Over(b, r)
    BY <1>2, <2>1, <2>2, Firsts DEF Over, Between
  <2>7. Done(b, r, c)'
    BY <2>1 DEF Done
  <2>8. \A x \in Exchanges \ {c} : Done(b, r, x)' = Done(b, r, x)
    BY ZenonT(60), <2>1, <2>6, Firsts, SameSetting DEF Done
  <2> QED
    BY <1>6, <2>3, <2>4, <2>5, <2>7, <2>8
<1>7. CASE c \in {"gather_r", "scatter_z", "halo"}
  <2>1. /\ Leaving(b, r)
        /\ \/ c = "gather_r" /\ todo[r] = AtGatherR /\ todo'[r] = AtScatterZ /\ Is("root")
           \/ c = "scatter_z" /\ todo[r] = AtScatterZ /\ todo'[r] = AtApplied /\ Is("root")
           \/ c = "halo" /\ todo[r] = AtHalo /\ todo'[r] = AtApplied /\ ~Is("root")
    BY <1>7, <1>1, Where, Tails
  <2>2. todo[r] \in Applying /\ todo'[r] \in Applying
    BY <2>1 DEF Applying
  <2>3. b.k \in Rounds /\ ~b.s /\ Settled(b) /\ round[r] = b.k
    BY <2>1, Firsts, Ways DEF Leaving
  <2>4. \/ Now(r)' = "scatter_z" /\ c = "gather_r"
        \/ Now(r)' = "applied" /\ c \in {"scatter_z", "halo"}
    BY <2>1, NowIs, Firsts
  <2>5. Stage(b, r)'
    <3>1. Leaving(b, r)'
      BY <2>1, <2>2, <2>3, SameSetting DEF Leaving, Settled
    <3> QED
      BY <1>1, <3>1, SameSetting DEF Stage
  <2>6. Holding(b, r)'
    <3>1. Current(r)'
      BY <1>1, <2>2, SameSetting DEF Holding, Current
    <3> QED
      BY <2>1, <2>3, <3>1, Firsts, SameSetting DEF Holding, Settled
  <2>7. ~Over(b, r)' /\ ~Over(b, r)
    BY <1>2, <2>1, <2>3, Firsts DEF Over, Between
  <2>8. Done(b, r, c)'
    BY <2>1, <2>3, SameSetting DEF Done, Firstly
  <2>9. \A x \in Exchanges \ {c} : Done(b, r, x)' = Done(b, r, x)
    <3>1. \A x : Done(b, r, x) <=> x = "gather_r" /\ todo[r] = AtScatterZ
      BY <2>1, <2>3, <2>7, Firsts DEF Done, Firstly
    <3>2. \A x : Done(b, r, x)' <=> (x = "gather_r" /\ Is("root")) \/ x = c
      BY ZenonT(60), <2>1, <2>3, <2>7, Firsts, SameSetting DEF Done, Firstly
    <3> QED
      BY ZenonT(60), <2>1, <3>1, <3>2, Firsts DEF Done
  <2> QED
    BY <1>7, <2>4, <2>5, <2>6, <2>8, <2>9
<1> QED
  BY <1>1, <1>3, <1>4, <1>5, <1>6, <1>7, Where DEF Exchanges, ToRoot, FromRoot

(* What a rank is about to receive is what it waits for.                   *)
LEMMA Arrived ==
  ASSUME NEW b \in Barriers, Since(b), NEW r \in Ranks, inside[r],
         NEW q \in Ranks, q # r, q \in Sources(r), mail[<<q, r>>] # <<>>
  PROVE  /\ Sent(b, q, Now(r))
         /\ Now(r) = FirstCall(b, q, r) => InFlight(b, q, r, FirstCall(b, q, r))
         /\ Now(r) = SecondCall(q, r) => InFlight(b, q, r, SecondCall(q, r))
                                        /\ ~InFlight(b, q, r, FirstCall(b, q, r))
<1> DEFINE first == FirstCall(b, q, r)
           second == SecondCall(q, r)
           m == mail[<<q, r>>]
<1>1. Stage(b, r) /\ Stage(b, q) /\ Now(r) \in Exchanges /\ Mail(b, q, r)
  BY DEF Since, Holding
<1>2. Now(r) = first \/ Now(r) = second
  BY <1>1, Addressed
<1>3. ~Done(b, r, Now(r)) /\ Sent(b, r, Now(r))
  BY <1>1, InOrder DEF Sent
<1>4. InFlight(b, q, r, first) \/ InFlight(b, q, r, second)
  <2>1. m \in Seq(Messages)
        /\ Len(m) = (IF InFlight(b, q, r, first) THEN 1 ELSE 0)
                     + (IF InFlight(b, q, r, second) THEN 1 ELSE 0)
    BY <1>1 DEF Mail
  <2>2. Len(m) # 0
    BY <2>1, EmptySeq
  <2> QED
    BY <2>1, <2>2
<1>5. ASSUME Now(r) = first
      PROVE  InFlight(b, q, r, first) /\ Sent(b, q, first)
  <2>1. Settled(b) /\ first \in Firstly(b) /\ first # "none"
    BY <1>1, <1>5, CallKinds
  <2>2. Sent(b, q, second) /\ second # "none" => Done(b, q, first)
    BY <1>1, <2>1, CallKinds, InOrder
  <2>3. Sent(b, q, first)
    BY <1>4, <2>2 DEF InFlight, Sent
  <2> QED
    BY <1>3, <1>5, <2>1, <2>3 DEF InFlight
<1>6. ASSUME Now(r) = second
      PROVE  InFlight(b, q, r, second) /\ ~InFlight(b, q, r, first)
  <2>1. second \in Secondly
    BY <1>1, <1>6, CallKinds
  <2>2. first = "none" \/ Done(b, r, first)
    BY <1>1, <1>3, <1>6, <2>1, CallKinds, InOrder
  <2>3. ~InFlight(b, q, r, first)
    BY <2>2 DEF InFlight
  <2> QED
    BY <1>4, <2>3
<1> QED
  BY <1>2, <1>5, <1>6 DEF InFlight

LEMMA ReceiveKeeps ==
  ASSUME TypeOK, NEW b \in Barriers, Since(b), NEW r \in Ranks, Receive(r)
  PROVE  Since(b)'
<1>1. inside[r] /\ Now(r) \in Exchanges /\ Stage(b, r) /\ Holding(b, r) /\ Received(b, r)
  BY DEF Receive, Since, Holding
<1>2. PICK c \in Exchanges : c = Now(r)
  BY <1>1
<1>3. setting' = setting /\ round' = round /\ failed' = failed /\ sum' = sum
      /\ built' = built /\ outcome' = outcome /\ todo'[r] = Tail(todo[r]) /\ ~inside'[r]
      /\ used'[r] = used[r] \cup {Head(mail[<<q, r>>]) : q \in Sources(r)}
  BY DEF Receive, Proceed, Go, TypeOK, BuiltOK
<1>4. \A q \in Ranks \ {r} : Same(q)
  BY DEF Receive, Proceed, Go, TypeOK, BuiltOK, Same, Still
<1>5. /\ Stage(b, r)' /\ Holding(b, r)' /\ Done(b, r, c)'
      /\ \A x \in Exchanges \ {c} : Done(b, r, x)' = Done(b, r, x)
      /\ Now(r)' = "scatter_z" => c = "gather_r"
      /\ Now(r)' = "applied" => c \in {"scatter_z", "halo"}
      /\ Now(r)' \notin {"gather_r", "halo"}
  BY <1>2, <1>3, AfterCall
<1>6. Sources(r) \subseteq Ranks \ {r} /\ \A q \in Sources(r) : mail[<<q, r>>] # <<>>
  BY SettingIs DEF Receive, Sources, Others
<1>7. ~Done(b, r, c) /\ Sent(b, r, c)
  BY <1>1, <1>2, InOrder DEF Sent
<1>8. ASSUME NEW p \in Ranks, NEW q \in Ranks, p # q, q # r
      PROVE  Mail(b, p, q)'
  <2>1. Mail(b, p, q)
    BY <1>8 DEF Since
  <2>2. mail'[<<p, q>>] = mail[<<p, q>>]
    BY <1>8 DEF Receive, Pairs, TypeOK, BuiltOK
  <2>3. \A x \in Exchanges : Sent(b, p, x)' = Sent(b, p, x)
    <3>1. CASE p # r
      BY <1>3, <1>4, <3>1, SameRank
    <3>2. CASE p = r
      <4>1. \A x \in Exchanges \ {c} : Sent(b, r, x)' = Sent(b, r, x)
        BY <1>2, <1>3, <1>5 DEF Sent
      <4>2. Sent(b, r, c)' = Sent(b, r, c)
        BY <1>5, <1>7 DEF Sent
      <4> QED
        BY <3>2, <4>1, <4>2
    <3> QED
      BY <3>1, <3>2
  <2>4. \A x : Done(b, q, x)' = Done(b, q, x)
    BY <1>3, <1>4, <1>8, SameRank
  <2> QED
    BY <1>3, <1>8, <2>1, <2>2, <2>3, <2>4, CallKinds, MailKept
<1>9. ASSUME NEW q \in Ranks, q # r
      PROVE  Mail(b, q, r)'
  <2> DEFINE first == FirstCall(b, q, r)
             second == SecondCall(q, r)
             m == mail[<<q, r>>]
  <2>1. Mail(b, q, r)
    BY <1>9 DEF Since
  <2>2. mail'[<<q, r>>] = IF q \in Sources(r) THEN Tail(m) ELSE m
    BY <1>9 DEF Receive, Pairs, TypeOK, BuiltOK
  <2>3. \A x : Sent(b, q, x)' = Sent(b, q, x)
    BY <1>3, <1>4, <1>9, SameRank
  <2>4. q \in Sources(r) <=> c = first \/ c = second
    BY <1>1, <1>2, <1>9, Addressed
  <2>5. CASE q \notin Sources(r)
    <3>1. mail'[<<q, r>>] = mail[<<q, r>>]
      BY <2>2, <2>5
    <3>2. \A x \in {first, second} : x # "none" => Done(b, r, x)' = Done(b, r, x)
      BY <1>5, <2>4, <2>5, CallKinds
    <3> QED
      BY <1>3, <1>9, <2>1, <2>3, <3>1, <3>2, MailKept
  <2>6. CASE q \in Sources(r)
    <3>1. /\ m \in Seq(Messages)
          /\ Len(m) = (IF InFlight(b, q, r, first) THEN 1 ELSE 0)
                       + (IF InFlight(b, q, r, second) THEN 1 ELSE 0)
          /\ \A x \in {first, second} : x # "none" /\ Done(b, r, x) => Sent(b, q, x)
      BY <2>1 DEF Mail
    <3>2. /\ mail'[<<q, r>>] = Tail(m) /\ mail'[<<q, r>>] \in Seq(Messages)
          /\ Len(mail'[<<q, r>>]) = Len(m) - 1
      BY <1>6, <2>2, <2>6, <3>1, HeadTailProperties
    <3>3. FirstCall(b, q, r)' = first /\ SecondCall(q, r)' = second
      BY <1>3, SameSetting
    <3>4. /\ Sent(b, q, c) /\ (c = first => InFlight(b, q, r, first))
          /\ c = second => InFlight(b, q, r, second) /\ ~InFlight(b, q, r, first)
      BY <1>1, <1>2, <1>6, <1>9, <2>6, Arrived
    <3>5. \A x \in {first, second} : InFlight(b, q, r, x)' <=> (InFlight(b, q, r, x) /\ x # c)
      BY <1>5, <2>3, CallKinds DEF InFlight
    <3>6. \A x \in {first, second} : x # "none" /\ Done(b, r, x)' => Sent(b, q, x)'
      BY <1>5, <2>3, <3>1, <3>4, CallKinds
    <3>7. InFlight(b, q, r, first)' <=> (InFlight(b, q, r, first) /\ first # c)
      BY <3>3, <3>5
    <3>8. InFlight(b, q, r, second)' <=> (InFlight(b, q, r, second) /\ second # c)
      BY <3>3, <3>5
    <3>9. ~InFlight(b, q, r, first)'
      BY <2>4, <2>6, <3>4, <3>7
    <3>10. Len(mail'[<<q, r>>]) = (IF InFlight(b, q, r, first)' THEN 1 ELSE 0)
                                 + (IF InFlight(b, q, r, second)' THEN 1 ELSE 0)
      <4>1. CASE c = first
        <5>1. second # c
          BY <1>2, <4>1, CallKinds
        <5> QED
          BY <3>1, <3>2, <3>4, <3>8, <3>9, <4>1, <5>1
      <4>2. CASE c = second
        BY <3>1, <3>2, <3>4, <3>8, <3>9, <4>2
      <4> QED
        BY <2>4, <2>6, <4>1, <4>2
    <3> QED
      BY <3>2, <3>3, <3>6, <3>9, <3>10 DEF Mail
  <2> QED
    BY <2>5, <2>6
<1>10. Received(b, r)'
  <2>1. SUFFICES ASSUME Now(r)' \in {"scatter_z", "applied"}, NEW m \in used'[r]
                 PROVE  Good(b, m)
    BY <1>5 DEF Received, Good
  <2>2. c \in {"gather_r", "scatter_z", "halo"}
    BY <1>5, <2>1
  <2>3. Leaving(b, r) /\ ~b.s
    <3>1. Leaving(b, r) /\ First(todo[r]) = c
      BY <1>1, <1>2, <2>2, Where, NowIs
    <3>2. todo[r] \notin Between /\ todo[r] \notin Refusing
      BY <2>2, <3>1, Ways
    <3> QED
      BY <3>1, <3>2 DEF Leaving
  <2>4. CASE m \in used[r]
    BY <1>1, <1>2, <1>5, <2>1, <2>4 DEF Received
  <2>5. ASSUME NEW q \in Sources(r), m = Head(mail[<<q, r>>])
        PROVE  Good(b, m)
    <3>1. q \in Ranks /\ q # r /\ mail[<<q, r>>] # <<>>
      BY <1>6, <2>5
    <3>2. c = FirstCall(b, q, r)
      BY <1>1, <1>2, <2>2, <3>1, Addressed, CallKinds DEF Secondly
    <3>3. InFlight(b, q, r, FirstCall(b, q, r))
      BY <1>1, <1>2, <3>1, <3>2, Arrived
    <3>4. Mail(b, q, r)
      BY <3>1 DEF Since
    <3> QED
      BY <2>3, <2>5, <3>3, <3>4 DEF Mail
  <2> QED
    BY <1>3, <2>4, <2>5
<1> QED
  BY <1>3, <1>4, <1>5, <1>8, <1>9, <1>10, OwnStep

------------------------------------------------------------------------------
(* A reduction.                                                            *)

(* What all ranks have agreed on when they come out of it.                 *)
After(b) ==
  [k |-> IF Settled(b) THEN b.k + 1 ELSE b.k,
   c |-> IF Settled(b) THEN IF Anew(b.k + 1) THEN "conclude" ELSE "update"
         ELSE IF b.s THEN "conclude" ELSE "updated",
   s |-> Total(Root)]

LEMMA AllAtReduce ==
  ASSUME TypeOK, NEW b \in Barriers, Since(b), NEW r \in Ranks, Now(r) = "reduce"
  PROVE  /\ \/ ~Settled(b) /\ b.s /\ Redoing(b, r) /\ todo[r] = AtReduce
            \/ b.c = "update" /\ ~b.s /\ Updating(b, r) /\ todo[r] = AtReduceUpdated
            \/ Settled(b) /\ Anew(b.k + 1) /\ Entering(b, r) /\ todo[r] = AtReduce
            \/ Settled(b) /\ ~Anew(b.k + 1) /\ Entering(b, r) /\ todo[r] = AtReduceCompared
         /\ ~inside[r]
<1>1. Stage(b, r) /\ Holding(b, r)
  BY DEF Since
<1>2. CASE Redoing(b, r) /\ todo[r] = AtReduce
  BY <1>1, <1>2 DEF Redoing, Settled, Holding, Exchanges, ToRoot, FromRoot
<1>3. CASE Updating(b, r) /\ todo[r] = AtReduceUpdated
  BY <1>1, <1>3 DEF Updating, Settled, Holding, Exchanges, ToRoot, FromRoot
<1>4. CASE Entering(b, r) /\ todo[r] \in {AtReduce, AtReduceCompared}
  <2>1. AtReduce \notin ToUpdate /\ AtReduceCompared \notin ToConclude
    BY Firsts, Different, Ways
  <2> QED
    BY <1>1, <1>4, <2>1 DEF Entering, Holding, Exchanges, ToRoot, FromRoot
<1> QED
  BY <1>1, <1>2, <1>3, <1>4, Where

LEMMA AfterDecides ==
  ASSUME TypeOK, NEW b \in Barriers, Since(b), \A r \in Ranks : Now(r) = "reduce"
  PROVE  /\ After(b) \in Barriers /\ After(b).k \in Rounds
         /\ After(b).c # "conclude" => ~Is("root")
         /\ \A r \in Ranks : /\ round[r] = After(b).k /\ Tail(todo[r]) = AtDecision(After(b))
                            /\ outcome[r][After(b).k] = ""
                            /\ \A j \in Rounds : j > After(b).k => outcome[r][j] = ""
         /\ \A j \in Rounds : j < After(b).k => \A q, r \in Ranks : outcome[q][j] = outcome[r][j]
<1> DEFINE d == After(b)
<1>1. b.k \in Nat /\ Root \in Ranks
  BY SettingIs DEF Barriers
<1>2. d \in Barriers /\ d.k = (IF Settled(b) THEN b.k + 1 ELSE b.k)
      /\ d.c = (IF Settled(b) THEN IF Anew(b.k + 1) THEN "conclude" ELSE "update"
                ELSE IF b.s THEN "conclude" ELSE "updated")
  BY <1>1 DEF After, Barriers, Decisions, Total
<1>3. ASSUME NEW r \in Ranks
      PROVE  /\ round[r] = d.k /\ d.k \in Rounds /\ Tail(todo[r]) = AtDecision(d)
             /\ outcome[r][d.k] = "" /\ \A j \in Rounds : j > d.k => outcome[r][j] = ""
             /\ d.c # "conclude" => ~Is("root")
             /\ Settled(b) /\ b.k \in Rounds => outcome[r][b.k] = IF b.s THEN "error" ELSE "ok"
  <2>1. Stage(b, r) /\ (b.c # "conclude" => ~Is("root"))
    BY DEF Since
  <2>2. CASE ~Settled(b) /\ b.s /\ Redoing(b, r) /\ todo[r] = AtReduce
    BY <1>2, <2>1, <2>2, Tails DEF Redoing, Stage, AtDecision
  <2>3. CASE b.c = "update" /\ ~b.s /\ Updating(b, r) /\ todo[r] = AtReduceUpdated
    BY <1>2, <2>1, <2>3, Tails DEF Updating, Stage, AtDecision, Settled
  <2>4. CASE Settled(b) /\ Entering(b, r)
    <3>1. /\ round[r] = d.k /\ d.k \in Rounds /\ d.k = b.k + 1
          /\ b.k \in Rounds => outcome[r][b.k] = IF b.s THEN "error" ELSE "ok"
      BY <1>2, <2>4 DEF Entering
    <3>2. Tail(todo[r]) = AtDecision(d) /\ (d.c # "conclude" => ~Is("root"))
      <4>1. \/ Anew(b.k + 1) /\ todo[r] = AtReduce
            \/ ~Anew(b.k + 1) /\ todo[r] = AtReduceCompared
        BY <2>4, AllAtReduce DEF Settled
      <4> QED
        BY <1>2, <2>4, <4>1, Tails DEF AtDecision, Anew
    <3>3. \A j \in Rounds : j >= d.k => j > b.k
      BY <1>1, <3>1, SettingIs
    <3>4. d.k >= d.k /\ \A j \in Rounds : j > d.k => j >= d.k
      BY <1>1, <3>1, SettingIs
    <3>5. \A j \in Rounds : j >= d.k => outcome[r][j] = ""
      BY <2>1, <3>3 DEF Stage
    <3> QED
      BY <2>4, <3>1, <3>2, <3>4, <3>5
  <2> QED
    BY <2>2, <2>3, <2>4, AllAtReduce
<1>4. ASSUME NEW j \in Rounds, j < d.k, NEW q \in Ranks, NEW r \in Ranks
      PROVE  outcome[q][j] = outcome[r][j]
  <2>1. j < b.k \/ (Settled(b) /\ j = b.k)
    BY <1>1, <1>2, <1>4, SettingIs
  <2>2. CASE j < b.k
    BY <2>2 DEF Since
  <2>3. CASE Settled(b) /\ j = b.k
    BY <1>3, <2>3
  <2> QED
    BY <2>1, <2>2, <2>3
<1> QED
  BY <1>1, <1>2, <1>3, <1>4

(* Nothing is on its way into a reduction.                                 *)
LEMMA NothingInFlight ==
  ASSUME TypeOK, NEW b \in Barriers, Since(b), \A r \in Ranks : Now(r) = "reduce",
         NEW p \in Ranks, NEW q \in Ranks, p # q
  PROVE  mail[<<p, q>>] \in Seq(Messages) /\ Len(mail[<<p, q>>]) = 0
<1>1. Mail(b, p, q) /\ Mail(b, q, p)
  BY DEF Since
<1>2. ~InFlight(b, p, q, FirstCall(b, p, q))
  <2>1. CASE Settled(b)
    <3>1. Over(b, q)
      BY <2>1, AllAtReduce DEF Entering, Over, Settled
    <3> QED
      BY <3>1, CallKinds DEF InFlight, Done
  <2>2. CASE ~Settled(b)
    BY <2>2, CallKinds DEF InFlight
  <2> QED
    BY <2>1, <2>2
<1>3. ~InFlight(b, p, q, SecondCall(p, q))
  <2>1. CASE Is("root")
    <3>1. todo[q] = AtReduce
      <4>1. b.c = "conclude" /\ Anew(b.k + 1)
        BY <2>1 DEF Since, Anew
      <4> QED
        BY <4>1, AllAtReduce DEF Settled
    <3> QED
      BY <2>1, <3>1 DEF InFlight, SecondCall, Done
  <2>2. CASE ~Is("root")
    <3>1. SecondCall(p, q) = "handshake" /\ SecondCall(q, p) = "handshake"
      BY <2>2 DEF SecondCall
    <3>2. \A r \in {p, q} : Sent(b, r, "handshake") => Done(b, r, "handshake")
      BY DEF Sent
    <3>3. Done(b, p, "handshake") => Sent(b, q, "handshake")
      BY <1>1, <3>1 DEF Mail
    <3> QED
      BY <3>1, <3>2, <3>3 DEF InFlight
  <2> QED
    BY <2>1, <2>2
<1> QED
  BY <1>1, <1>2, <1>3 DEF Mail

LEMMA ReduceKeeps ==
  ASSUME TypeOK, NEW b \in Barriers, Since(b), Reduce, NEW d, d = After(b)
  PROVE  d \in Barriers /\ Since(d)'
<1>1. /\ \A r \in Ranks : Now(r) = "reduce" /\ todo'[r] = Tail(todo[r])
      /\ \A r \in Ranks : failed'[r] = FALSE /\ sum'[r] = Total(Root)
      /\ setting' = setting /\ round' = round /\ built' = built /\ outcome' = outcome
      /\ used' = used /\ inside' = inside /\ mail' = mail
  BY DEF Reduce, Total
<1>2. /\ d \in Barriers /\ d.k \in Rounds /\ (d.c # "conclude" => ~Is("root"))
      /\ \A r \in Ranks : /\ round[r] = d.k /\ Tail(todo[r]) = AtDecision(d)
                         /\ outcome[r][d.k] = ""
                         /\ \A j \in Rounds : j > d.k => outcome[r][j] = ""
      /\ \A j \in Rounds : j < d.k => \A q, r \in Ranks : outcome[q][j] = outcome[r][j]
  BY <1>1, AfterDecides
<1>3. d.k \in Nat /\ d.k # d.k + 1 /\ d.s = Total(Root) /\ d.c \in Decisions
  <2>1. d.s = Total(Root)
    BY DEF After
  <2>2. d.k \in Nat /\ d.c \in Decisions
    BY <1>2 DEF Barriers
  <2> QED
    BY <2>1, <2>2
<1>4. ASSUME NEW r \in Ranks
      PROVE  /\ todo'[r] = AtDecision(d) /\ Now(r)' = d.c /\ Stage(d, r)'
             /\ Holding(d, r)' /\ Received(d, r)'
  <2>1. todo'[r] = AtDecision(d) /\ Now(r)' = d.c
    <3>1. todo'[r] = AtDecision(d)
      BY <1>1, <1>2
    <3>2. First(AtDecision(d)) = d.c
      BY <1>3, Firsts DEF AtDecision, Decisions
    <3> QED
      BY <3>1, <3>2, NowIs
  <2>2. Deciding(d, r)'
    BY <1>1, <1>2, <2>1, SameSetting DEF Deciding, AtDecision
  <2>3. Stage(d, r)'
    BY <1>1, <1>2, <2>2, SameSetting DEF Stage
  <2>4. ~failed[r] \/ d.s
    BY <1>3 DEF Total
  <2>5. Holding(b, r) /\ ~inside[r] /\ (b.c # "conclude" => ~Is("root"))
    BY <1>1, AllAtReduce DEF Since
  <2>6. d.c = "update" /\ ~d.s => built[r].pattern = Pattern(round[r])
    <3>1. SUFFICES ASSUME d.c = "update", ~d.s
                   PROVE  todo[r] = AtReduceCompared
      BY <2>4, <2>5 DEF Holding
    <3>2. Settled(b) /\ ~Anew(b.k + 1)
      BY <3>1 DEF After
    <3> QED
      BY <1>1, <3>2, AllAtReduce DEF Settled
  <2>7. d.c = "updated" /\ ~d.s => Current(r)
    <3>1. SUFFICES ASSUME d.c = "updated", ~d.s
                   PROVE  todo[r] = AtReduceUpdated
      BY <2>4, <2>5 DEF Holding
    <3>2. ~Settled(b) /\ ~b.s
      BY <3>1 DEF After
    <3> QED
      BY <1>1, <3>2, AllAtReduce DEF Settled
  <2>8. Holding(d, r)'
    <3>1. First(todo'[r]) \in {"update", "updated", "conclude"}
          /\ (todo'[r] = AtUpdated => d.c = "updated")
      BY <1>3, <2>1, Firsts DEF AtDecision, Decisions
    <3>2. todo'[r] \notin Applying
      BY <3>1, NotApplying
    <3>3. Current(r)' = Current(r)
      BY <1>1, SameSetting DEF Current
    <3>4. todo'[r] \notin {AtReduceCompared, AtHandshakeAdopt, AtAdopt, AtHandshake, AtReduceUpdated}
      BY <3>1, Firsts
    <3> QED
      BY <1>1, <2>5, <2>6, <2>7, <3>1, <3>2, <3>3, <3>4, SameSetting DEF Holding
  <2>9. Received(d, r)'
    BY <1>3, <2>1 DEF Received, Decisions
  <2> QED
    BY <2>1, <2>3, <2>8, <2>9
<1>5. ASSUME NEW p \in Ranks, NEW x
      PROVE  ~Done(d, p, x)' /\ ~Sent(d, p, x)'
  <2>1. First(todo'[p]) \in {"update", "updated", "conclude"} /\ ~inside'[p]
    BY <1>1, <1>3, <1>4, Firsts, AllAtReduce DEF AtDecision, Decisions
  <2>2. ~Over(d, p)'
    BY <1>1, <1>2, <1>3, <2>1, Firsts DEF Over, Between
  <2> QED
    BY <2>1, <2>2, Firsts DEF Done, Sent
<1>6. ASSUME NEW p \in Ranks, NEW q \in Ranks, p # q
      PROVE  Mail(d, p, q)'
  <2>1. mail[<<p, q>>] \in Seq(Messages) /\ Len(mail[<<p, q>>]) = 0
    BY <1>1, <1>6, NothingInFlight
  <2>2. ~InFlight(d, p, q, FirstCall(d, p, q))' /\ ~InFlight(d, p, q, SecondCall(p, q))'
    BY <1>5 DEF InFlight
  <2>3. mail'[<<p, q>>] \in Seq(Messages) /\ Len(mail'[<<p, q>>]) = 0
    BY <1>1, <2>1
  <2>4. \A x \in {FirstCall(d, p, q)', SecondCall(p, q)'} : ~Done(d, q, x)'
    BY <1>5
  <2> QED
    BY <2>2, <2>3, <2>4 DEF Mail
<1>7. d.k <= Len(setting.rounds)
  BY <1>2, SettingIs
<1> QED
  BY <1>1, <1>2, <1>3, <1>4, <1>6, <1>7, SameSetting DEF Since

------------------------------------------------------------------------------
(* The theorems.                                                           *)

LEMMA InitTypeOK ==
  ASSUME Init
  PROVE  TypeOK
BY DEF Init, TypeOK, BuiltOK, Nothing

LEMMA BuiltAgain ==
  ASSUME BuiltOK, NEW r \in Ranks, NEW a \in Nat, NEW m, NEW o, NEW p,
         built' = [built EXCEPT ![r] = [amg |-> a, matrix |-> m, op |-> o, pattern |-> p]]
  PROVE  BuiltOK'
<1>1. built'[r] = [amg |-> a, matrix |-> m, op |-> o, pattern |-> p]
  BY DEF BuiltOK
<1>2. \A q \in Ranks \ {r} : built'[q] = built[q]
  BY DEF BuiltOK
<1>3. \A q \in Ranks : built'[q] = [amg |-> built'[q].amg, matrix |-> built'[q].matrix,
                                   op |-> built'[q].op, pattern |-> built'[q].pattern]
                      /\ built'[q].amg \in Nat
  BY <1>1, <1>2 DEF BuiltOK
<1> QED
  BY <1>3 DEF BuiltOK

LEMMA OutcomeAgain ==
  ASSUME TypeOK, NEW r \in Ranks, NEW k, NEW o \in {"", "ok", "error"},
         outcome' = outcome \/ outcome' = [outcome EXCEPT ![r][k] = o]
  PROVE  outcome' \in [Ranks -> [Rounds -> {"", "ok", "error"}]]
<1>1. outcome \in [Ranks -> [Rounds -> {"", "ok", "error"}]]
  BY DEF TypeOK
<1>2. [outcome[r] EXCEPT ![k] = o] \in [Rounds -> {"", "ok", "error"}]
  BY <1>1
<1> QED
  BY <1>1, <1>2

LEMMA StepTypeOK ==
  ASSUME TypeOK, Next
  PROVE  TypeOK'
<1>1. setting' = setting
  BY DEF Next, Rank, Reduce, Send, Receive, Begin, Compare, Update, Adopt, Updated, Build, Plan,
         Conclude, Refuse, Apply, Return
<1>2. Rounds' = Rounds
  BY <1>1 DEF Rounds
<1>3. CASE Reduce
  BY <1>1, <1>2, <1>3 DEF Reduce, TypeOK, Total, BuiltOK
<1>4. ASSUME NEW r \in Ranks, Send(r)
      PROVE  TypeOK'
  BY <1>1, <1>2, <1>4 DEF Send, TypeOK, BuiltOK
<1>5. ASSUME NEW r \in Ranks, Receive(r)
      PROVE  TypeOK'
  BY <1>1, <1>2, <1>5 DEF Receive, Proceed, Go, TypeOK, BuiltOK
<1>6. ASSUME NEW r \in Ranks, Begin(r)
      PROVE  TypeOK'
  <2>1. round' \in [Ranks -> Nat]
    <3>1. round' = round \/ round' = [round EXCEPT ![r] = round[r] + 1]
      BY <1>6 DEF Begin
    <3>2. round \in [Ranks -> Nat]
      BY DEF TypeOK
    <3> QED
      BY <3>1, <3>2
  <2>2. todo' = [q \in Ranks |-> todo'[q]]
    BY <1>6 DEF Begin, Go, TypeOK
  <2> QED
    BY <1>1, <1>2, <1>6, <2>1, <2>2 DEF Begin, TypeOK, BuiltOK
<1>7. ASSUME NEW r \in Ranks, Compare(r) \/ Plan(r) \/ Apply(r) \/ Return(r)
      PROVE  TypeOK'
  BY <1>1, <1>2, <1>7 DEF Compare, Plan, Apply, Return, Proceed, Go, TypeOK, Compatible, BuiltOK
<1>8. ASSUME NEW r \in Ranks, Update(r)
      PROVE  TypeOK'
  <2>1. BuiltOK'
    <3>1. CASE built' = built
      BY <3>1 DEF TypeOK, BuiltOK
    <3>2. CASE built' = [built EXCEPT ![r].amg = round[r]]
      <4>1. built' = [built EXCEPT ![r] = [built[r] EXCEPT !.amg = round[r]]]
        BY <3>2
      <4>2. PICK a, m, o, p : a \in Nat /\ built[r] = [amg |-> a, matrix |-> m, op |-> o, pattern |-> p]
        BY BuiltIs DEF TypeOK
      <4>3. built' = [built EXCEPT ![r] = [amg |-> round[r], matrix |-> m, op |-> o, pattern |-> p]]
        <5>1. [[amg |-> a, matrix |-> m, op |-> o, pattern |-> p] EXCEPT !.amg = round[r]]
                = [amg |-> round[r], matrix |-> m, op |-> o, pattern |-> p]
          OBVIOUS
        <5> QED
          BY <4>1, <4>2, <5>1
      <4> QED
        BY <4>3, BuiltAgain DEF TypeOK
    <3> QED
      BY <1>8, <3>1, <3>2 DEF Update
  <2> QED
    BY <1>1, <1>2, <1>8, <2>1 DEF Update, Go, TypeOK
<1>9. ASSUME NEW r \in Ranks, Adopt(r)
      PROVE  TypeOK'
  <2>1. BuiltOK'
    <3>1. PICK o : Renewed(r) = [built[r] EXCEPT !.matrix = round[r], !.op = o]
      BY DEF Renewed
    <3>2. built' = [built EXCEPT ![r] = [built[r] EXCEPT !.matrix = round[r], !.op = o]]
      BY <1>9, <3>1 DEF Adopt
    <3>3. PICK a, m, n, p : a \in Nat /\ built[r] = [amg |-> a, matrix |-> m, op |-> n, pattern |-> p]
      BY BuiltIs DEF TypeOK
    <3>4. built' = [built EXCEPT ![r] = [amg |-> a, matrix |-> round[r], op |-> o, pattern |-> p]]
      <4>1. [[amg |-> a, matrix |-> m, op |-> n, pattern |-> p] EXCEPT !.matrix = round[r], !.op = o]
              = [amg |-> a, matrix |-> round[r], op |-> o, pattern |-> p]
        <5> DEFINE t == [amg |-> a, matrix |-> m, op |-> n, pattern |-> p]
        <5>1. [t EXCEPT !.matrix = round[r]] = [amg |-> a, matrix |-> round[r], op |-> n, pattern |-> p]
          OBVIOUS
        <5>2. [t EXCEPT !.matrix = round[r], !.op = o] = [[t EXCEPT !.matrix = round[r]] EXCEPT !.op = o]
          OBVIOUS
        <5>3. [[amg |-> a, matrix |-> round[r], op |-> n, pattern |-> p] EXCEPT !.op = o]
                = [amg |-> a, matrix |-> round[r], op |-> o, pattern |-> p]
          OBVIOUS
        <5> QED
          BY <5>1, <5>2, <5>3
      <4> QED
        BY <3>2, <3>3, <4>1
    <3> QED
      BY <3>3, <3>4, BuiltAgain DEF TypeOK
  <2> QED
    BY <1>1, <1>2, <1>9, <2>1 DEF Adopt, Proceed, Go, TypeOK
<1>10. ASSUME NEW r \in Ranks, Updated(r)
      PROVE  TypeOK'
  <2>1. outcome' \in [Ranks -> [Rounds -> {"", "ok", "error"}]]
    <3>1. outcome' = outcome \/ outcome' = [outcome EXCEPT ![r][round[r]] = "ok"]
      BY <1>10 DEF Updated, Succeed
    <3>2. outcome \in [Ranks -> [Rounds -> {"", "ok", "error"}]]
      BY DEF TypeOK
    <3> QED
      BY <3>1, <3>2, OutcomeAgain
  <2>2. todo' = [q \in Ranks |-> todo'[q]]
    BY <1>10 DEF Updated, Succeed, Go, TypeOK
  <2> QED
    BY <1>1, <1>2, <1>10, <2>1, <2>2 DEF Updated, TypeOK, BuiltOK
<1>11. ASSUME NEW r \in Ranks, Build(r)
      PROVE  TypeOK'
  <2>1. BuiltOK'
    <3>1. CASE built' = built
      BY <3>1 DEF TypeOK, BuiltOK
    <3>2. CASE built' = [built EXCEPT ![r] = [Nothing EXCEPT !.matrix = round[r]]]
      <4>1. built' = [built EXCEPT ![r] = [amg |-> 0, matrix |-> round[r], op |-> 0, pattern |-> 0]]
        <5>1. [Nothing EXCEPT !.matrix = round[r]]
                = [amg |-> 0, matrix |-> round[r], op |-> 0, pattern |-> 0]
          BY DEF Nothing
        <5> QED
          BY <3>2, <5>1
      <4> QED
        BY <4>1, BuiltAgain DEF TypeOK
    <3> QED
      BY <1>11, <3>1, <3>2 DEF Build
  <2> QED
    BY <1>1, <1>2, <1>11, <2>1 DEF Build, Proceed, Go, TypeOK
<1>12. ASSUME NEW r \in Ranks, Conclude(r)
      PROVE  TypeOK'
  <2>1. outcome' \in [Ranks -> [Rounds -> {"", "ok", "error"}]]
    <3>1. outcome' = outcome \/ outcome' = [outcome EXCEPT ![r][round[r]] = "ok"]
      BY <1>12 DEF Conclude, Succeed
    <3>2. outcome \in [Ranks -> [Rounds -> {"", "ok", "error"}]]
      BY DEF TypeOK
    <3> QED
      BY <3>1, <3>2, OutcomeAgain
  <2>2. todo' = [q \in Ranks |-> todo'[q]]
    BY <1>12 DEF Conclude, Succeed, Go, TypeOK
  <2>3. BuiltOK'
    <3>1. CASE built' = built
      BY <3>1 DEF TypeOK, BuiltOK
    <3>2. CASE built' # built
      <4>1. built' = [built EXCEPT ![r] =
              [amg |-> IF Is("root") /\ r # Root THEN 0 ELSE round[r], matrix |-> round[r],
               op |-> IF Is("csr") THEN round[r] ELSE 0, pattern |-> Pattern(round[r])]]
        BY <1>12, <3>2 DEF Conclude
      <4>2. (IF Is("root") /\ r # Root THEN 0 ELSE round[r]) \in Nat
        BY DEF TypeOK
      <4> QED
        BY <4>1, <4>2, BuiltAgain DEF TypeOK
    <3> QED
      BY <3>1, <3>2
  <2> QED
    BY <1>1, <1>2, <1>12, <2>1, <2>2, <2>3 DEF Conclude, TypeOK
<1>13. ASSUME NEW r \in Ranks, Refuse(r)
      PROVE  TypeOK'
  BY <1>1, <1>2, <1>13 DEF Refuse, Go, TypeOK, BuiltOK
<1> QED
  BY <1>3, <1>4, <1>5, <1>6, <1>7, <1>8, <1>9, <1>10, <1>11, <1>12, <1>13 DEF Next, Rank

LEMMA InitInv ==
  ASSUME Init
  PROVE  IInv
<1> DEFINE b == [k |-> 0, c |-> "conclude", s |-> FALSE]
<1>1. TypeOK
  BY InitTypeOK
<1>2. b \in Barriers /\ b.k = 0 /\ b.c = "conclude" /\ b.s = FALSE /\ Settled(b)
  BY DEF Barriers, Decisions, Settled
<1>3. 0 \notin Rounds /\ 0 <= Len(setting.rounds)
  BY <1>1, SettingIs
<1> HIDE DEF b
<1>4. ASSUME NEW r \in Ranks
      PROVE  /\ todo[r] = AtBegin /\ Now(r) = "begin" /\ round[r] = 0 /\ ~inside[r] /\ sum[r] = FALSE
             /\ \A j \in Rounds : outcome[r][j] = ""
  BY NowIs, Firsts DEF Init, AtBegin
<1>5. ASSUME NEW r \in Ranks
      PROVE  Stage(b, r) /\ Holding(b, r) /\ Received(b, r) /\ Over(b, r)
  <2>1. Leaving(b, r)
    BY <1>2, <1>3, <1>4 DEF Leaving, Between
  <2>2. todo[r] \notin Applying
    BY <1>4, Firsts, NotApplying
  <2> QED
    BY <1>2, <1>4, <2>1, <2>2, Firsts DEF Stage, Holding, Received, Over, Between
<1>6. ASSUME NEW p \in Ranks, NEW q \in Ranks, p # q
      PROVE  Mail(b, p, q)
  <2>1. mail[<<p, q>>] = <<>>
    BY <1>6 DEF Init, Pairs
  <2>2. mail[<<p, q>>] \in Seq(Messages) /\ Len(mail[<<p, q>>]) = 0
    BY <2>1, EmptySeq
  <2>3. \A x \in Firstly(b) : Done(b, q, x) /\ Sent(b, p, x)
    BY <1>5 DEF Done, Sent
  <2>4. \A x \in Secondly : ~Done(b, q, x) /\ ~Sent(b, p, x)
    BY ZenonT(60), <1>2, <1>4, Firsts, CallKinds DEF Done, Sent, Secondly
  <2> QED
    BY <1>2, <2>2, <2>3, <2>4, CallKinds DEF Mail, InFlight
<1>7. Since(b)
  BY <1>2, <1>3, <1>4, <1>5, <1>6 DEF Since
<1> QED
  BY <1>1, <1>2, <1>7 DEF IInv

LEMMA StepInv ==
  ASSUME IInv, [Next]_vars
  PROVE  IInv'
<1>1. TypeOK
  BY DEF IInv
<1>2. PICK b \in Barriers : Since(b)
  BY DEF IInv
<1>3. CASE Reduce
  <2>1. PICK d : d = After(b)
    OBVIOUS
  <2>2. d \in Barriers /\ Since(d)'
    BY <1>1, <1>2, <1>3, <2>1, ReduceKeeps
  <2> QED
    BY <1>1, <1>3, <2>2, StepTypeOK DEF IInv, Next
<1>4. ASSUME NEW r \in Ranks, Rank(r)
      PROVE  IInv'
  <2>1. Since(b)'
    BY <1>1, <1>2, <1>4, SendKeeps, ReceiveKeeps, BeginKeeps, CompareKeeps, UpdateKeeps, AdoptKeeps,
       UpdatedKeeps, BuildKeeps, PlanKeeps, ConcludeKeeps, RefuseKeeps, ApplyKeeps, ReturnKeeps DEF Rank
  <2> QED
    BY <1>1, <1>4, <2>1, StepTypeOK DEF IInv, Next
<1>5. CASE UNCHANGED vars
  <2>1. TypeOK'
    BY <1>1, <1>5 DEF vars, TypeOK, BuiltOK, Rounds
  <2>2. setting' = setting /\ mail' = mail /\ \A q \in Ranks : Same(q)
    BY <1>5 DEF vars, Same, Still
  <2>3. \A p, q \in Ranks : p # q => Mail(b, p, q)'
    BY <1>2, <2>2, SameRank, MailKept DEF Since
  <2>4. Since(b)'
    BY <1>1, <1>2, <2>2, <2>3, SettingIs, SameRank, OwnStep DEF Since, Same, Still
  <2> QED
    BY <2>1, <2>4 DEF IInv
<1> QED
  BY <1>3, <1>4, <1>5 DEF Next

(* No two ranks get different verdicts on a set-up.                        *)
LEMMA InvSynchronized ==
  ASSUME IInv
  PROVE  ErrorsSynchronized
<1>1. PICK b \in Barriers : Since(b)
  BY DEF IInv
<1>2. SUFFICES ASSUME NEW k \in Rounds, NEW q \in Ranks, NEW r \in Ranks,
                      outcome[q][k] # "", outcome[r][k] # ""
               PROVE  outcome[q][k] = outcome[r][k]
  BY DEF ErrorsSynchronized
<1>3. k < b.k \/ k = b.k \/ k > b.k
  BY SettingIs DEF IInv, Barriers
<1>4. CASE k < b.k
  BY <1>1, <1>4 DEF Since
<1>5. CASE k > b.k
  BY <1>1, <1>2, <1>5 DEF Since, Stage
<1>6. CASE k = b.k
  <2>1. ASSUME NEW p \in Ranks, outcome[p][k] # ""
        PROVE  outcome[p][k] = IF b.s THEN "error" ELSE "ok"
    BY <1>1, <1>6, <2>1 DEF Since, Stage, Deciding, Redoing, Updating, Leaving, Entering
  <2> QED
    BY <1>2, <2>1
<1> QED
  BY <1>3, <1>4, <1>5, <1>6

LEMMA InvCurrent ==
  ASSUME IInv
  PROVE  CurrentInUse
<1>1. PICK b \in Barriers : Since(b)
  BY DEF IInv
<1>2. SUFFICES ASSUME NEW r \in Ranks, Now(r) = "applied"
               PROVE  /\ Current(r)
                      /\ \A m \in used[r] : m.round = round[r]
                                       /\ m.call \in {"gather_r", "scatter_z", "halo"}
                                       /\ (m.call # "gather_r" => m.of = round[r])
  BY DEF CurrentInUse, Current
<1>3. Stage(b, r) /\ Holding(b, r) /\ Received(b, r)
  BY <1>1 DEF Since
<1>4. Leaving(b, r) /\ todo[r] = AtApplied
  BY <1>2, <1>3, Where
<1>5. Current(r)
  BY <1>3, <1>4 DEF Holding, Applying
<1>6. round[r] = b.k /\ \A m \in used[r] : Good(b, m)
  BY <1>2, <1>3, <1>4 DEF Leaving, Received
<1> QED
  BY <1>5, <1>6 DEF Good

(* A set-up returns the same on all ranks, whatever fails and wherever:    *)
(* "errors are synchronized so all ranks return the same failure".         *)
THEOREM SynchronizedErrors == Spec => []ErrorsSynchronized
<1>1. Init => IInv
  BY InitInv
<1>2. IInv /\ [Next]_vars => IInv'
  BY StepInv
<1>3. IInv => ErrorsSynchronized
  BY InvSynchronized
<1> QED
  BY <1>1, <1>2, <1>3, PTL DEF Spec

(* An application uses the hierarchy, matrix, operator and values of the   *)
(* set-up that succeeded last, on every rank.                              *)
THEOREM AppliedIsCurrent == Spec => []CurrentInUse
<1>1. Init => IInv
  BY InitInv
<1>2. IInv /\ [Next]_vars => IInv'
  BY StepInv
<1>3. IInv => CurrentInUse
  BY InvCurrent
<1> QED
  BY <1>1, <1>2, <1>3, PTL DEF Spec
=============================================================================
