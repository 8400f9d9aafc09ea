------------------------------ MODULE Schwarz ------------------------------
(***************************************************************************)
(* The additive Schwarz preconditioner over several ranks                  *)
(* (preconditioner/asm/distributed.rs, subdomain.rs, comm_plan.rs).  Every *)
(* rank takes its rows and `overlap` rings of neighbours as its subdomain, *)
(* fetches the rows it does not own, and agrees with the others on which   *)
(* values to import and export.  All of it is made of all-to-all exchanges *)
(* in which every rank has to take part, and a rank enters them depending  *)
(* on what it finds in its own rows.                                       *)
(*                                                                         *)
(* An exchange is two rounds of point-to-point messages with one tag (the  *)
(* counts, then the data); here one message per peer stands for both.  A   *)
(* row travels as its number and the version of its values, the vector as  *)
(* row numbers and the application they belong to.                         *)
(***************************************************************************)
EXTENDS Integers, Sequences, FiniteSets

CONSTANTS Size,       (* ranks of the communicator                         *)
          N,          (* rows of the matrix                                *)
          Settings    (* matrix, partition and options                     *)

Ranks == 0..Size - 1
Rows == 0..N - 1
Modes == {"asm", "ras"}
SettingType ==
  [graph : [Rows -> SUBSET Rows],     (* the columns of a row               *)
   first : [0..Size -> 0..N],         (* the partition of the operator      *)
   overlap : Nat, mode : Modes,
   coarse : BOOLEAN,                  (* DistCoarseStrategy, else None      *)
   singular : BOOLEAN,                (* rank 0 cannot solve the coarse problem *)
   fails : SUBSET Ranks]              (* whose factorisation fails          *)

ASSUME SchwarzAssumption ==
  /\ Size \in Nat \ {0} /\ N \in Nat /\ Settings \subseteq SettingType
  /\ \A s \in Settings : s.first[0] = 0 /\ s.first[Size] = N
                         /\ \A r \in Ranks : s.first[r] <= s.first[r + 1]

VARIABLES
  setting,
  todo,       (* todo[r]: what rank r does next, in order                  *)
  subdofs,    (* subdofs[r]: the rows of its subdomain                     *)
  frontier,   (* frontier[r]: those of the last sweep                      *)
  want,       (* want[r]: the rows it asks for                             *)
  asked,      (* asked[r][q]: the rows q asked of it                       *)
  rows,       (* rows[r]: remote rows it has, <<row, version>>             *)
  matrix,     (* matrix[r]: the rows its subdomain matrix was made of      *)
  exports,    (* exports[r][q]: rows whose values it sends to q            *)
  values,     (* values[r]: version of the values of its own rows          *)
  rhs,        (* rhs[r]: right-hand side of its subdomain, <<row, application>> *)
  y,          (* y[r]: the result, <<row, subdomain, application>>         *)
  turn,       (* turn[r]: applications begun                               *)
  inside,     (* inside[r]: rank r has sent its part of an exchange        *)
  mail,       (* mail[<<p, q>>]: messages from p that q has not received   *)
  error       (* error[r]: why rank r gave up, or ""                       *)

vars == <<setting, todo, subdofs, frontier, want, asked, rows, matrix, exports, values,
          rhs, y, turn, inside, mail, error>>

Pairs == {e \in Ranks \X Ranks : e[1] # e[2]}
Others(r) == Ranks \ {r}
Now(r) == IF todo[r] = <<>> THEN "done" ELSE Head(todo[r])
If(c, plan) == IF c THEN plan ELSE <<>>
Fsts(s) == {e[1] : e \in s}

(* layout.row_start .. layout.row_end.                                     *)
OwnRows(s, r) == {g \in Rows : s.first[r] <= g /\ g < s.first[r + 1]}
Own(r) == OwnRows(setting, r)

(* contiguous_partition: build_ownership uses it whatever the partition of *)
(* the operator is.                                                        *)
Start(r) == r * (N \div Size) + (IF r < N % Size THEN r ELSE N % Size)
OwnerOf(g) == CHOOSE r \in Ranks : Start(r) <= g /\ g < Start(r + 1)

(* Mutant of ApplyPlan: contributions are returned in both modes.          *)
ApplyPlanReturning ==
  <<"apply", "values", "solve", "return">>
    \o If(setting.coarse, <<"coarse rhs", "coarse solve", "coarse solution">>)

(* apply; the coarse part is coarse_additive_correction.                   *)
ApplyPlan ==
  <<"apply", "values", "solve">> \o If(setting.mode = "asm", <<"return">>)
    \o If(setting.coarse, <<"coarse rhs", "coarse solve", "coarse solution">>)

(* The set-up when the sweeps are over; then the calls of a caller: apply, *)
(* update_numeric, apply.                                                  *)
AfterSweeps ==
  <<"complete", "build", "lists", "factor">> \o If(setting.coarse, <<"coarse rows">>)
    \o ApplyPlan \o <<"refresh", "build", "factor">> \o If(setting.coarse, <<"coarse rows">>)
    \o ApplyPlan

(* The sweeps of build_overlap_set, in each of which there may be rows to  *)
(* fetch.                                                                  *)
Sweeps(n) == [i \in 1..2 * n |-> IF i % 2 = 1 THEN "sweep" ELSE "expand"]
Plan == Sweeps(setting.overlap) \o AfterSweeps

Init ==
  /\ setting \in Settings
  /\ todo = [r \in Ranks |-> Plan]
  /\ subdofs = [r \in Ranks |-> Own(r)]
  /\ frontier = [r \in Ranks |-> Own(r)]
  /\ want = [r \in Ranks |-> {}]
  /\ asked = [r \in Ranks |-> [q \in Ranks |-> {}]]
  /\ rows = [r \in Ranks |-> {}]
  /\ matrix = [r \in Ranks |-> {}]
  /\ exports = [r \in Ranks |-> [q \in Ranks |-> {}]]
  /\ values = [r \in Ranks |-> 0]
  /\ rhs = [r \in Ranks |-> {}] /\ y = [r \in Ranks |-> {}]
  /\ turn = [r \in Ranks |-> 0]
  /\ inside = [r \in Ranks |-> FALSE]
  /\ mail = [e \in Pairs |-> <<>>]
  /\ error = [r \in Ranks |-> ""]

Go(r, next) == todo' = [todo EXCEPT ![r] = next]
Fail(r, why) == error' = [error EXCEPT ![r] = why] /\ Go(r, <<>>)
Proceed(r) == Go(r, Tail(todo[r])) /\ UNCHANGED error

------------------------------------------------------------------------------
(* Exchanges.                                                              *)

Imports(r, q) == IF q = r THEN {} ELSE {g \in subdofs[r] : OwnerOf(g) = q}

DenseCalls == {"ask", "answer", "lists", "coarse rows", "coarse rhs", "coarse solution"}
Calls == DenseCalls \cup {"values", "return"}

(* alltoallv_u64 writes to everyone and waits for everyone; the sparse one *)
(* only for the peers of the plan.                                         *)
Targets(r) ==
  CASE Now(r) = "values" -> {q \in Others(r) : exports[r][q] # {}}
    [] Now(r) = "return" -> {q \in Others(r) : Imports(r, q) # {}}
    [] OTHER -> Others(r)
(* Mutant of Sources: the same peers are waited for as are written to.     *)
SourcesAsTargets(r) == Targets(r)
Sources(r) ==
  CASE Now(r) = "values" -> {q \in Others(r) : Imports(r, q) # {}}
    [] Now(r) = "return" -> {q \in Others(r) : exports[r][q] # {}}
    [] OTHER -> Others(r)

Data(r, q) ==
  CASE Now(r) = "ask" -> {g \in want[r] : OwnerOf(g) = q}
    [] Now(r) = "answer" -> asked[r][q] \X {values[r]}
    [] Now(r) = "lists" -> Imports(r, q)
    [] Now(r) = "values" -> exports[r][q] \X {turn[r]}
    [] Now(r) = "return" -> {<<g, r, turn[r]>> : g \in Imports(r, q)}
    [] OTHER -> {}

Send(r) ==
  /\ Now(r) \in Calls /\ ~inside[r]
  /\ mail' = [e \in Pairs |-> IF e[1] = r /\ e[2] \in Targets(r)
                THEN Append(mail[e], [call |-> Now(r), data |-> Data(r, e[2])]) ELSE mail[e]]
  /\ inside' = [inside EXCEPT ![r] = TRUE]
  /\ UNCHANGED <<setting, todo, subdofs, frontier, want, asked, rows, matrix, exports, values,
                 rhs, y, turn, error>>

From(r, q) == IF q \in Sources(r) THEN Head(mail[<<q, r>>]).data ELSE {}
All(r) == UNION {From(r, q) : q \in Others(r)}

(* A message of another exchange has another length than the buffer: the   *)
(* exchange ends in an error of MPI or in garbage.                         *)
Crossed(r) == \E q \in Sources(r) : Head(mail[<<q, r>>]).call # Now(r)

(* Only owned rows are answered for.                                       *)
Refused(r) == Now(r) = "ask" /\ ~(All(r) \subseteq Own(r))

(* Contributions to rows of another rank are dropped.                      *)
ToOwn(r) == {e \in All(r) : e[1] \in Own(r)}

(* remote_rows.extend(fetched).                                            *)
Answered(r) == {e \in rows[r] : e[1] \notin Fsts(All(r))} \cup All(r)

Receive(r) ==
  /\ inside[r] /\ \A q \in Sources(r) : mail[<<q, r>>] # <<>>
  /\ mail' = [e \in Pairs |-> IF e[2] = r /\ e[1] \in Sources(r) THEN Tail(mail[e]) ELSE mail[e]]
  /\ inside' = [inside EXCEPT ![r] = FALSE]
  /\ IF Crossed(r)
       THEN Fail(r, "crossed") /\ UNCHANGED <<asked, rows, exports, rhs, y>>
       ELSE IF Refused(r)
         THEN Fail(r, "not owned") /\ UNCHANGED <<asked, rows, exports, rhs, y>>
         ELSE /\ Proceed(r)
              /\ asked' = IF Now(r) = "ask" THEN [asked EXCEPT ![r] = [q \in Ranks |-> From(r, q)]] ELSE asked
              /\ rows' = IF Now(r) = "answer" THEN [rows EXCEPT ![r] = Answered(r)] ELSE rows
              /\ exports' = IF Now(r) = "lists" THEN [exports EXCEPT ![r] = [q \in Ranks |-> From(r, q)]] ELSE exports
              /\ rhs' = IF Now(r) = "values"
                          THEN [rhs EXCEPT ![r] = ((subdofs[r] \cap Own(r)) \X {turn[r]}) \cup All(r)]
                          ELSE rhs
              /\ y' = IF Now(r) = "return" THEN [y EXCEPT ![r] = @ \cup ToOwn(r)] ELSE y
  /\ UNCHANGED <<setting, subdofs, frontier, want, matrix, values, turn>>

------------------------------------------------------------------------------
(* Set-up.                                                                 *)

(* Rows of s that are not here.                                            *)
Remote(r, s) == {g \in s : g \notin Own(r) /\ g \notin Fsts(rows[r])}

(* request_remote_rows is entered by the ranks that have something to ask. *)
AskFor(r, s, rest) ==
  /\ want' = [want EXCEPT ![r] = s]
  /\ Go(r, If(s # {}, <<"ask", "answer">>) \o rest)
  /\ UNCHANGED error

(* Rows of the frontier that are not here; an empty frontier ends the      *)
(* sweeps.                                                                 *)
Sweep(r) ==
  /\ Now(r) = "sweep"
  /\ IF frontier[r] = {}
       THEN /\ Go(r, AfterSweeps)
            /\ UNCHANGED <<want, error>>
       ELSE AskFor(r, Remote(r, frontier[r]), Tail(todo[r]))
  /\ UNCHANGED <<setting, subdofs, frontier, asked, rows, matrix, exports, values, rhs, y,
                 turn, inside, mail>>

(* Mutant of Ring: one ring of neighbours, whatever the overlap.           *)
RingOfOwn(r) == (UNION {setting.graph[g] : g \in Own(r)}) \ subdofs[r]

(* The neighbours of the frontier in the rows that are here.               *)
Ring(r) ==
  (UNION {setting.graph[g] : g \in frontier[r] \cap (Own(r) \cup Fsts(rows[r]))}) \ subdofs[r]

Expand(r) ==
  /\ Now(r) = "expand"
  /\ subdofs' = [subdofs EXCEPT ![r] = @ \cup Ring(r)]
  /\ frontier' = [frontier EXCEPT ![r] = Ring(r)]
  /\ Proceed(r)
  /\ UNCHANGED <<setting, want, asked, rows, matrix, exports, values, rhs, y, turn, inside, mail>>

(* The rows of the last ring have not been fetched yet.                    *)
Complete(r) ==
  /\ Now(r) = "complete"
  /\ AskFor(r, Remote(r, subdofs[r]), Tail(todo[r]))
  /\ UNCHANGED <<setting, subdofs, frontier, asked, rows, matrix, exports, values, rhs, y,
                 turn, inside, mail>>

(* build_subdomain_csr.                                                    *)
Build(r) ==
  /\ Now(r) = "build"
  /\ IF subdofs[r] \subseteq Own(r) \cup Fsts(rows[r])
       THEN /\ matrix' = [matrix EXCEPT ![r] =
                 ((subdofs[r] \cap Own(r)) \X {values[r]}) \cup {e \in rows[r] : e[1] \in subdofs[r]}]
            /\ Proceed(r)
       ELSE Fail(r, "missing row") /\ UNCHANGED matrix
  /\ UNCHANGED <<setting, subdofs, frontier, want, asked, rows, exports, values, rhs, y, turn,
                 inside, mail>>

(* The solver of the subdomain.                                            *)
Factor(r) ==
  /\ Now(r) = "factor"
  /\ Proceed(r) \/ (r \in setting.fails /\ Fail(r, "factor"))
  /\ UNCHANGED <<setting, subdofs, frontier, want, asked, rows, matrix, exports, values, rhs, y,
                 turn, inside, mail>>

(* update_numeric: the values of the operator have changed; the remote     *)
(* rows are fetched again.                                                 *)
Refresh(r) ==
  /\ Now(r) = "refresh"
  /\ values' = [values EXCEPT ![r] = @ + 1]
  /\ rows' = [rows EXCEPT ![r] = {}]
  /\ AskFor(r, subdofs[r] \ Own(r), Tail(todo[r]))
  /\ UNCHANGED <<setting, subdofs, frontier, asked, matrix, exports, rhs, y, turn, inside, mail>>

------------------------------------------------------------------------------
(* Application.                                                            *)

(* The caller's next vector; a row to export that is not in it is an index  *)
(* out of bounds.                                                          *)
BeginApply(r) ==
  /\ Now(r) = "apply"
  /\ turn' = [turn EXCEPT ![r] = @ + 1]
  /\ IF \A q \in Ranks : exports[r][q] \subseteq Own(r) THEN Proceed(r) ELSE Fail(r, "not in x")
  /\ UNCHANGED <<setting, subdofs, frontier, want, asked, rows, matrix, exports, values, rhs, y,
                 inside, mail>>

(* y gets the own rows of the solution.                                    *)
Solve(r) ==
  /\ Now(r) = "solve"
  /\ y' = [y EXCEPT ![r] = {<<g, r, turn[r]>> : g \in subdofs[r] \cap Own(r)}]
  /\ Proceed(r)
  /\ UNCHANGED <<setting, subdofs, frontier, want, asked, rows, matrix, exports, values, rhs,
                 turn, inside, mail>>

(* build_ras_weights: a row is covered by its own subdomain and by those    *)
(* that import it.                                                         *)
CoverCount(r, g) == 1 + Cardinality({q \in Ranks : g \in exports[r][q]})

(* Mutant of CoarseSolve: rank 0, which has the solution, does not take    *)
(* part in the exchange that distributes it.                               *)
CoarseSolveApart(r) ==
  /\ Now(r) = "coarse solve"
  /\ IF r = 0 /\ setting.singular THEN Fail(r, "coarse")
       ELSE Go(r, SubSeq(todo[r], IF r = 0 THEN 3 ELSE 2, Len(todo[r]))) /\ UNCHANGED error
  /\ UNCHANGED <<setting, subdofs, frontier, want, asked, rows, matrix, exports, values, rhs, y,
                 turn, inside, mail>>

(* Rank 0 solves the coarse problem alone; the others go on to receive.    *)
CoarseSolve(r) ==
  /\ Now(r) = "coarse solve"
  /\ IF r = 0 /\ setting.singular THEN Fail(r, "coarse") ELSE Proceed(r)
  /\ UNCHANGED <<setting, subdofs, frontier, want, asked, rows, matrix, exports, values, rhs, y,
                 turn, inside, mail>>

------------------------------------------------------------------------------
Rank(r) ==
  \/ Send(r) \/ Receive(r)
  \/ Sweep(r) \/ Expand(r) \/ Complete(r) \/ Build(r) \/ Factor(r) \/ Refresh(r)
  \/ BeginApply(r) \/ Solve(r) \/ CoarseSolve(r)

Next == \E r \in Ranks : Rank(r)

Spec == Init /\ [][Next]_vars

(* A rank that can go on does: it is a process of its own, and MPI delivers *)
(* what was sent.                                                          *)
FairSpec == Spec /\ \A r \in Ranks : WF_vars(Rank(r))

------------------------------------------------------------------------------
(* Properties.                                                             *)

(* The rows within i columns of those of r, for every i, when only the rows *)
(* in `read` can be read.                                                  *)
Within(s, r, read) ==
  LET near[i \in Nat] == IF i = 0 THEN OwnRows(s, r)
                         ELSE near[i - 1] \cup UNION {s.graph[g] : g \in near[i - 1] \cap read}
  IN near
Subdomain(r) == Within(setting, r, Rows)[setting.overlap]

(* What a rank gets to know: rows that build_ownership takes for its own    *)
(* and the operator does not are never fetched.                            *)
Foreign(r) == {g \in Rows : OwnerOf(g) # r}
Near(s, r, i) == Within(s, r, OwnRows(s, r) \cup Foreign(r))[i]

(* The rows that r has fetched after i sweeps, and those that it asks for   *)
(* in the next, or to complete them.                                       *)
Fetched(s, r, i) == IF i = 0 THEN {} ELSE (Near(s, r, i - 1) \ OwnRows(s, r)) \cap Foreign(r)
Wanted(s, r, i) == (Near(s, r, i) \ OwnRows(s, r)) \ Fetched(s, r, i)
Asks(s, r, i) ==
  IF i = s.overlap THEN Wanted(s, r, i) # {} ELSE i > 0 /\ Near(s, r, i) # Near(s, r, i - 1)

(* All ranks have rows to ask for in the same sweeps.                      *)
AskingAlike(s) ==
  \A q, r \in Ranks, i \in 0..s.overlap : Asks(s, q, i) <=> Asks(s, r, i)

Sound(r) == error[r] = ""
InUse(r) == Sound(r) /\ Now(r) \in {"apply", "values", "solve", "return", "coarse rhs", "coarse solve",
                                    "coarse solution", "done"}

(* Every message is taken by the exchange it was sent in, although the     *)
(* ranks decide from their own rows which exchanges they enter.            *)
CallsMatch == \A r \in Ranks : error[r] # "crossed"

(* The matrix a rank factorises has all rows of its overlapping subdomain  *)
(* and no others, each with the values of the operator it was set up or    *)
(* updated for, the fetched rows included.                                 *)
SubdomainExact == \A r \in Ranks : InUse(r) => matrix[r] = Subdomain(r) \X {values[r]}

(* What apply writes: to each own row every subdomain that holds it adds   *)
(* once (in the restricted mode only the owner's), computed from the vector *)
(* of this application; and the cover counts behind the uniform weights    *)
(* are the numbers of contributions of the additive mode.                  *)
Contributors(r, g) == IF setting.mode = "ras" THEN {r} ELSE {q \in Ranks : g \in Subdomain(q)}
ContributionsExact ==
  \A r \in Ranks : Sound(r) =>
    /\ Now(r) = "solve" => rhs[r] = Subdomain(r) \X {turn[r]}
    /\ Now(r) \in {"coarse rhs", "coarse solve", "coarse solution", "refresh", "done"} =>
         /\ y[r] = UNION {{<<g, q, turn[r]>> : q \in Contributors(r, g)} : g \in Own(r)}
         /\ \A g \in Own(r) : CoverCount(r, g) = Cardinality({q \in Ranks : g \in Subdomain(q)})

(* Set-up, update and applications end on all ranks unless one gave up.    *)
EveryRankReturns ==
  <>(\/ \A r \in Ranks : Now(r) = "done"
     \/ \E r \in Ranks : error[r] # "")

=============================================================================
