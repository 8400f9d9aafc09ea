----------------------------- MODULE HaloIndex -----------------------------
(***************************************************************************)
(* How the ranks agree on a halo plan: from_local_rows collects the remote *)
(* columns of the local rows by owner, HaloIndexPlan::new cleans the lists,*)
(* tells every peer how many columns it wants, then sends the lists        *)
(* themselves, and numbers the ghosts.  matrix/dist_csr.rs, dist/halo.rs.  *)
(*                                                                         *)
(* MPI (external) keeps the order of the messages of a pair of ranks: the  *)
(* count is always received before the list.  A send completes when it is  *)
(* buffered or, without buffering, when its receive has been posted.       *)
(***************************************************************************)
EXTENDS Dimensions, FiniteSets, SequencesExt

CONSTANTS First,       (* First[r]: first row of rank r, First[Size] the end *)
          Layouts,     (* which rank really has which columns              *)
          MaxEntries   (* bound: entries of all local rows together        *)

Ranks == 0..(Size - 1)
Peers(r) == Ranks \ {r}
Pairs == {e \in Ranks \X Ranks : e[1] # e[2]}

ASSUME IndexAssumption ==
  /\ First \in [0..Size -> 0..NGlobal]
  /\ First[0] = 0 /\ First[Size] = NGlobal
  /\ Layouts \subseteq [Ranks -> SUBSET (0..(NGlobal - 1))]
  /\ MaxEntries \in Nat

VARIABLES
  owned,    (* owned[r]: the columns of which rank r has the rows          *)
  buffering, (* do sends complete before they are received?                *)
  phase,    (* phase[r]: how far rank r is                                 *)
  entries,  (* entries[r]: column indices of the local rows, row by row,   *)
            (* at their positions in the whole matrix                      *)
  recvMap,  (* recvMap[r][p]: columns rank r reads from p                  *)
  countIn,  (* countIn[r][p]: how many columns p announced to r            *)
  sendMap,  (* sendMap[r][p]: columns rank r sends to p                    *)
  wire      (* wire[<<p, q>>]: messages sent by p and not received by q    *)

given == <<owned, buffering, entries>>
vars == <<given, phase, recvMap, countIn, sendMap, wire>>

(* owner_of: the rank whose rows contain the column, Size beyond the last  *)
(* (RowPartition shows that the search finds it).                          *)
OwnerOf(c) == IF c >= NGlobal THEN Size
              ELSE CHOOSE r \in Ranks : First[r] <= c /\ c < First[r + 1]

(* Mutant of Cleaned: the list keeps the order and the copies of the rows. *)
Uncleaned(s) == FlattenSeq([i \in 1..MaxEntries |-> IF i \in DOMAIN s THEN <<s[i]>> ELSE <<>>])

(* sort_unstable and dedup: the columns of the list in increasing order.   *)
Cleaned(s) == CHOOSE t \in [1..Cardinality(ToSet(s)) -> ToSet(s)] :
                \A i, j \in DOMAIN t : i < j => t[i] < t[j]

Init ==
  /\ owned \in Layouts
  /\ buffering \in BOOLEAN
  /\ phase = [r \in Ranks |-> "rows"]
  /\ \E n \in 0..MaxEntries : \E s \in [1..n -> Ranks \X Columns] :
       /\ \A i, j \in 1..n : i < j => s[i][1] <= s[j][1]
       /\ entries = [r \in Ranks |-> [i \in {k \in 1..n : s[k][1] = r} |-> s[i][2]]]
  /\ recvMap = [r \in Ranks |-> [p \in Ranks |-> <<>>]]
  /\ countIn = [r \in Ranks |-> [p \in Ranks |-> 0]]
  /\ sendMap = [r \in Ranks |-> [p \in Ranks |-> <<>>]]
  /\ wire = [e \in Pairs |-> <<>>]

(* The columns of the local rows that rank p owns.                         *)
RemoteColumns(r, p) ==
  [i \in {k \in DOMAIN entries[r] : OwnerOf(entries[r][k]) = p} |-> entries[r][i]]

(* A column that no rank owns makes a list for a rank that does not exist. *)
OutOfBounds(r) == DOMAIN RemoteColumns(r, Size) # {}

(* Mutant of Reject: the error is found after the counts were sent.        *)
RejectAfterCounts(r) ==
  /\ phase[r] = "rows"
  /\ OutOfBounds(r)
  /\ wire' = [e \in Pairs |-> IF e[1] = r THEN Append(wire[e], <<0>>) ELSE wire[e]]
  /\ phase' = [phase EXCEPT ![r] = "refused"]
  /\ UNCHANGED <<given, recvMap, countIn, sendMap>>

(* A list for a rank that does not exist is an error of this rank alone,   *)
(* found before it talks to anybody.                                       *)
Reject(r) ==
  /\ phase[r] = "rows"
  /\ OutOfBounds(r)
  /\ phase' = [phase EXCEPT ![r] = "refused"]
  /\ UNCHANGED <<given, recvMap, countIn, sendMap, wire>>

(* Clean the lists and send every peer the length of its list.             *)
PostCounts(r) ==
  /\ phase[r] = "rows"
  /\ ~OutOfBounds(r)
  /\ LET lists == [p \in Ranks |->
                     IF p = r THEN <<>> ELSE Cleaned(RemoteColumns(r, p))]
     IN  /\ recvMap' = [recvMap EXCEPT ![r] = lists]
         /\ wire' = [e \in Pairs |-> IF e[1] = r
                                       THEN Append(wire[e], <<Len(lists[e[2]])>>)
                                       ELSE wire[e]]
  /\ phase' = [phase EXCEPT ![r] = "counts"]
  /\ UNCHANGED <<given, countIn, sendMap>>

(* Mutant of Matched: a send waits for the receiver to finish its phase.   *)
MatchedLate(r, q) == phase[r] = "counts" => phase[q] \notin {"rows", "refused", "counts"}

(* Has rank q posted the receive for what r sent in this phase?            *)
Matched(r, q) ==
  \/ buffering
  \/ phase[r] = "counts" /\ phase[q] \notin {"rows", "refused"}
  \/ phase[r] = "lists" /\ phase[q] \in {"lists", "index", "ready", "failed"}

(* A list is sent when it is not empty.                                    *)
HasNews(r, p) == Len(recvMap[r][p]) > 0

(* wait_all of the first exchange, then the second one is posted.          *)
ExchangeLists(r) ==
  /\ phase[r] = "counts"
  /\ \A p \in Peers(r) : wire[<<p, r>>] # <<>> /\ Matched(r, p)
  /\ countIn' = [countIn EXCEPT ![r] = [p \in Ranks |->
                   IF p = r THEN 0 ELSE wire[<<p, r>>][1][1]]]
  /\ wire' = [e \in Pairs |->
       CASE e[2] = r -> Tail(wire[e])
         [] e[1] = r /\ HasNews(r, e[2]) -> Append(wire[e], recvMap[r][e[2]])
         [] OTHER -> wire[e]]
  /\ phase' = [phase EXCEPT ![r] = "lists"]
  /\ UNCHANGED <<given, recvMap, sendMap>>

(* Mutant of Askers: peers that this rank wants nothing from are forgotten. *)
AskersOneSided(r) == {p \in Peers(r) : countIn[r][p] > 0 /\ HasNews(r, p)}

(* The peers whose list this rank posted a receive for.                    *)
Askers(r) == {p \in Peers(r) : countIn[r][p] > 0}

(* wait_all of the second exchange.                                        *)
TakeLists(r) ==
  /\ phase[r] = "lists"
  /\ \A p \in Askers(r) : wire[<<p, r>>] # <<>>
  /\ \A p \in Peers(r) : HasNews(r, p) => Matched(r, p)
  /\ sendMap' = [sendMap EXCEPT ![r] = [p \in Ranks |->
       IF p \in Askers(r) THEN Cleaned(wire[<<p, r>>][1]) ELSE <<>>]]
  /\ wire' = [e \in Pairs |-> IF e[2] = r /\ e[1] \in Askers(r)
                                THEN Tail(wire[e]) ELSE wire[e]]
  /\ phase' = [phase EXCEPT ![r] = "index"]
  /\ UNCHANGED <<given, recvMap, countIn>>

(* Can rank r send column c?                                               *)
Serves(r, c) == c \in owned[r]

(* Local indices of the columns to send: an error if one is not here.      *)
Finish(r) ==
  /\ phase[r] = "index"
  /\ phase' = [phase EXCEPT ![r] =
       IF \A p \in Peers(r) : \A c \in ToSet(sendMap[r][p]) : Serves(r, c)
         THEN "ready" ELSE "failed"]
  /\ UNCHANGED <<given, recvMap, countIn, sendMap, wire>>

Returned(r) == phase[r] \in {"ready", "refused", "failed"}

Step(r) == Reject(r) \/ PostCounts(r) \/ ExchangeLists(r) \/ TakeLists(r) \/ Finish(r)

Next == (\E r \in Ranks : Step(r)) \/ ((\A r \in Ranks : Returned(r)) /\ UNCHANGED vars)

Spec == Init /\ [][Next]_vars
FairSpec == Spec /\ \A r \in Ranks : WF_vars(Step(r))
-----------------------------------------------------------------------------
(* The ghosts of rank r: the i-th column from source p.  The ghost vector   *)
(* has them by source, then by column; ghost_index_of finds them.          *)
GhostPlaces(r) == UNION {{p} \X DOMAIN recvMap[r][p] : p \in Ranks}
GhostColumn(r, g) == recvMap[r][g[1]][g[2]]

(* The i-th value that p packs for r is the i-th ghost that r unpacks from *)
(* p: the two plans list the same columns in the same order.               *)
PlansAgree ==
  \A p, r \in Ranks :
    p # r /\ phase[p] = "ready" /\ phase[r] \in {"index", "ready", "failed"}
      => sendMap[p][r] = recvMap[r][p]

(* The handshake leaves no message behind: all later exchanges use the     *)
(* same tag and would receive it as ghost values.                          *)
NothingLeftOver ==
  (\A r \in Ranks : phase[r] \in {"ready", "failed"})
    => \A e \in Pairs : wire[e] = <<>>

(* Every remote column of a local row has exactly one place in the ghost   *)
(* vector.                                                                 *)
GhostsComplete ==
  \A r \in Ranks : phase[r] = "ready" =>
    \A i \in DOMAIN entries[r] : OwnerOf(entries[r][i]) # r =>
      \E g \in GhostPlaces(r) : \A h \in GhostPlaces(r) :
        GhostColumn(r, h) = entries[r][i] <=> h = g

(* A rank that refuses its rows holds back every other rank: nobody gets a *)
(* plan of which the refusing rank knows nothing.                          *)
NobodyAheadOfRefused ==
  (\E r \in Ranks : phase[r] = "refused")
    => \A q \in Ranks : phase[q] \in {"rows", "counts", "refused"}

(* With rows inside the matrix, distributed as the partition says, every   *)
(* rank gets its plan.                                                     *)
Proper ==
  \A r \in Ranks : /\ ~OutOfBounds(r)
                   /\ owned[r] = First[r]..(First[r + 1] - 1)
EveryRankReady == Proper ~> \A r \in Ranks : phase[r] = "ready"
=============================================================================
