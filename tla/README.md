# kryst in TLA+

Models, model checks and proofs kept beside [kryst](../src/README.md) 4.6.0, a Rust
library of Krylov solvers and preconditioners that runs on one process, on threads
(Rayon), on MPI ranks, and optionally on GPUs. Every module is translated from the
code. Paths are relative to the repository; `mod.rs` alone means
`src/context/ksp_context/mod.rs`.

1. [The system](#1-the-system)
2. [The plan](#2-the-plan)
3. [The modules and the code](#3-the-modules-and-the-code)
4. [The runs](#4-the-runs): bounds, fairness, results
5. [The proofs](#5-the-proofs)
6. [Where code and documents disagree](#6-where-code-and-documents-disagree)
7. [Only model-checked, and not modelled](#7-only-model-checked-and-not-modelled)
8. [Running it](#8-running-it)

## 1. The system

A program makes a `KspContext`, chooses a solver and a preconditioner, gives it
operators and calls `solve`. On several ranks every rank runs this same program on its
own rows. The ranks meet only in halo exchanges (inside products with the distributed
matrix and inside some preconditioners) and in global reductions; **no message or
reduction says which step it belongs to**, so that everything rests on all ranks
making the same calls in the same order.

```
 user ── set_type, set_pc_type, set_operators, setup, solve ──▶ KspContext
                                                                  │ setup_impl
                     ┌────────────────────────────────────────────┼──────────────┐
                     ▼                                            ▼              ▼
              solver (CG, GMRES, …)  ── apply ──▶  preconditioner (local,   options, adaptive
                     │        │                    distributed, AMG, …)     execution, policy
        matvec       │        └── dot, norm ──▶ reductions ──▶ MPI_Allreduce / Iallreduce
                     ▼
              DistCsrOp ── post_halo / complete_halo ──▶ HaloPlan ──▶ MPI_Isend / Irecv
                     │ built by from_local_rows: partition, owner_of,
                     └ HaloIndexPlan::new (two message rounds)
```

| Component | Where | State it keeps | Operations | What is hard | What makes it correct |
|---|---|---|---|---|---|
| Halo exchange | `src/matrix/dist/halo.rs` | pool of contexts, stack of free slots, posted requests | `post_halo`, `complete_halo`, `ghost_slice_ref` | concurrent calls; buffers that MPI reads and writes after the call returned; one tag | no context with two owners; no buffer reused in flight; ghost values of the same call; every call returns |
| Row partition, owner search | `src/matrix/dist_csr.rs:19-48, 195-211` | prefix array, bounds of the search | `partition_rows_balanced`, `owner_of` | empty ranks, unsigned bound, columns beyond the matrix | the owner is found, or the column is seen not to exist; the search ends |
| Halo index handshake | `halo.rs:62-213` | requested columns, counts, lists, plan | `HaloIndexPlan::new` | two rounds with the same tag; one rank a round ahead; a rank that refuses | plans mirror each other; nothing is left on the wire |
| Distributed product | `dist_csr.rs` | three copies of the values, kernel, overlap mode | `matvec`, `update_numeric`, `set_halo_overlap_mode` | two kernels that divide the rows between them; ranks choose differently | every row is the whole product of this call's vector with the last values |
| Krylov solves | `src/solver/{cg,gmres,fgmres,bicgstab,cgs,tfqmr,minres,richardson,pipegcr,pca_gmres,idrs}.rs` | residual, bases, directions, scalars, iteration | classic, pipelined, s-step, reliable loops; restarts | order of products and reductions; restarts; decisions from local data | same reductions, vectors and verdict on all ranks; x updated along the present cycle; "converged" said of a tested x; the solve ends |
| `KspContext` lifecycle | `mod.rs` | solver, preconditioner, ids of what it was built from, workspace, bound communicator | `set_*`, `setup`, `solve` | any order of calls; in-place edits; reuse; fallbacks; each step may fail | a solver that runs has its workspace and the preconditioner of the present operator |
| Reductions, communicators | `src/parallel/`, `src/utils/reduction.rs`, `src/reduction.rs` | process-wide mode, pending requests | dot, norm, nonblocking handles, mode guard | buffers of pending requests, guards across threads | every handle waited for; the mode of the solve that runs |
| Thread pools | `src/parallel/threads.rs`, `src/algebra/parallel*.rs` | global pool, recorded sizes | init, scoped pools | once-only initialisation | recorded size is the real one |
| Adaptive execution | `ksp_context/execution.rs` | measured latency, decision | decide, tune | measurements differ between ranks | same decision on all ranks |
| Options, registry | `src/config/` | parsed options | parse, merge, conflicts | precedence of sources | last writer as documented |
| PC contexts | `src/context/pc_context.rs` | — | factory | — | name and options give the documented object |
| Remaining Krylov solvers | CGNR, CR, QMR, LSQR, LSMR | recurrences | solve | — | need a transposed product, which `DistCsrOp` does not have: one process only |
| Direct solvers | `dense_lu.rs`, `dense_qr.rs`, `direct_lu.rs`, `superlu_dist.rs` | factors | factor, solve | foreign interface | numerical |
| Local preconditioners | Jacobi, SOR, ILU(k), ILUT, ILUTP, approximate inverses, Chebyshev | factors | setup, apply, update | level scheduling in parallel | each row after those it needs |
| Composed preconditioners | `chain.rs`, `asm_amg.rs`, `deflation.rs`, bridges | parts | setup, apply | one part failing | order of application |
| Algebraic multigrid | `amg.rs`, `gamg.rs` | hierarchy, gathered matrix, operator, plans | setup, apply, three strategies | rank 0 builds alone; the failure of one rank; what an earlier setup left | all ranks succeed or fail together; nothing of an earlier setup is applied |
| Schwarz | `asm/` | subdomains, fetched rows, import and export lists | setup, apply, numeric update | all-to-all exchanges that ranks enter depending on their own rows | same exchanges on all ranks; subdomains hold the present values; every row is counted as the mode says |
| Distributed preconditioner route | `src/preconditioner/dist/`, `mod.rs` | pending options, installed flag, fallback chain, ids | `setup_impl`, `maybe_upgrade_local_pc` | three stages that may each replace the preconditioner; collective constructions behind local failures | the requested preconditioner is used, of the present operator; ranks agree until one fails |
| Sparse formats | `src/matrix/{csr,csc,dense,sparse,convert,…}.rs` | arrays | conversions, kernels | — | structure and values kept |
| ParCSR | `src/matrix/parcsr/` | rows, lazily built operator | assembly, matvec | lazy collective construction | all ranks build together |
| Orderings, colourings, partitions | `src/utils/{coloring,reordering,permutation,partition}.rs` | — | pure algorithms | — | valid permutation, proper colouring |
| Monitors, buffers, profiling | `src/utils/` | counters, pooled buffers | — | buffer reuse | — |
| Solver policy, ladder | `src/utils/solver_*.rs` | attempts | next attempt | must end | every attempt once |
| CUDA transport | `src/cuda/` (8.7k lines) | streams, events, buffers | staged exchange | asynchronous copies | ordered by events |
| Input, benchmarks, test support | `matrix_market.rs`, `src/bin/`, `src/testkit` | — | files, measurement | — | — |

About 135,000 lines of Rust lie under `src/`, more than half of them numerical kernels of
preconditioners and solvers with their tests. The models concentrate on control that
several actors share. `PROJECT.json` lists each component with its status, and under
`hazards` what can go wrong in it that a test would hardly reach, at its line.

## 2. The plan

Most important behaviour first: what every distributed solve stands on (1-4), the solves
(5), the object that runs them (6), then the preconditioners that communicate (7-9).

| Step | Module | State |
|---|---|---|
| 1 | `GhostExchange`, what an exchange promises; `HaloExchange`, the code, shown to implement it | checked, proved |
| 2 | `Dimensions`, the sizes it shares with step 3; `RowPartition` | checked, proved |
| 3 | `HaloIndex`, the handshake: uses `owner_of` as `RowPartition` shows it | checked, proved |
| 4 | `DistCsr`, the product: stands on the promise of `GhostExchange` and the plans of `HaloIndex` | checked, proved |
| 5 | `Collective`, the frame of a solve; `Cg`, `Arnoldi`, `Gmres`, `Fgmres`, `PcaGmres`, `BiCgStab`, `Recurrences`, `Idrs`, its programs; `Krylov`, their composition | checked, proved |
| 6 | `KspContext`, any sequence of user calls | checked, proved |
| 7 | `Schwarz`: ring by ring fetch of rows, import plan, apply, numeric update | checked, proved |
| 8 | `DistAmg`: errors of one rank that become errors of all | checked, proved |
| 9 | `DistRoute`: which preconditioner a setup ends with | checked, proved |

Composition: `HaloExchange` is instantiated against `GhostExchange` by a refinement
mapping; `DistCsr` and the solves use that promise (the k-th call of a reader gets the
k-th published vector) instead of repeating slots and requests. `Krylov` instantiates the
seven programs over one set of variables and states once what they share. `DistRoute`
takes from `KspContext` the refresh of a preconditioner and follows the stages around it;
`Schwarz` and `DistAmg` are the details of constructions that `DistRoute` calls collective.

What is left, in the order it would be taken: nonblocking reductions and the process-wide
mode of summation (the two hazards without a property); thread pools; level scheduling,
colourings and orderings against reference definitions; the CUDA transport.

Theorems still to prove: the invariants of `Krylov` about one rank's vectors
(`DirectionFits`, `UpdateOfThisCycle`, `ConvergedSeen`).

## 3. The modules and the code

Each definition names its lines in `PROJECT.json` (`map`). Definitions introduced by
"Mutant of" are deliberate mistakes: substituted for the definition they name, they
must break a property; they are not part of any specification.

### HaloExchange, GhostExchange

`HaloPlan` keeps a `Vec` of contexts (send buffers, receive buffers, a ghost vector)
and a stack of free slots, both under locks. A call is a process of its own:
`CheckoutFree`, or `CheckoutMiss` then `Grow` when the stack is empty (the lock is given
back in between); a `PostRecv` per source, `Pack`, a `PostSend` per target (`post_halo`);
`Unpack` after all requests have completed, and `Release` (`complete_halo`). MPI is
external: per edge a FIFO of posted sends and of posted receives, because all messages
carry tag 0; `Fetch` reads the send buffer and `Deliver` writes the receive buffer at any
time between posting and completion. Vectors are represented by the number of the call.

`Caller` says who calls: `DistCsrOp` exchanges if it has ghosts *or* something to send,
the rank-local preconditioners (SOR, block Jacobi) skip when they have no ghosts, and
read the first context of the pool instead of the returned vector (`ReadPrimary`).
`Discipline` says how a rank's calls overlap: one after the other ("sequential"),
posted in order and completed in any order by one thread ("overlapped"), or on a thread
each ("threads", which `dist_csr.rs:60` allows).

`GhostExchange` has two actions, `Publish(r, k)` and `Return(r, k)`: no slots, requests
or channels. `PublishedCalls` and `ghosts` are the mapping.

### RowPartition

`partition_rows_balanced` push by push (`PushStart`, `PushEnd`), or any prefix array the
caller passes (`InitGiven`), then the binary search of `owner_of` with its inclusive
bounds (`Found`, `GoLeft`, `GoRight`, `Exhausted`). `PartitionTypeOK` says that `hi` stays above
-1: in the code it is a `usize`, and `mid - 1` at `mid = 0` would wrap.
The names of its specification begin with `Partition`, so that a proof can speak of it and of
`HaloIndex` at once; `Dimensions` declares what the two have in common.

### HaloIndex

Each rank has the columns of its rows (any sequence, duplicates included), a list per
owner (`RemoteColumns`), and goes through `HaloIndexPlan::new`: early `Reject`,
`PostCounts`, `ExchangeLists`, `TakeLists`, `Finish`. A send completes at once or only
when it is received (`Matched`), as MPI permits. Rows may be distributed differently
from what the partition says (`from_parcsr` partitions evenly); then `Finish` fails on a
rank that does not have a requested column.

### DistCsr

Construction classifies rows and chooses kernel and overlap mode from local numbers
(`choose_distributed_plan`: shares and volumes as the code computes them). A row of `y`
is the sequence of products added to it, each with the version of the values and the
call of the vector: a product that is missing, doubled or old is visible.
`UpdateNumeric` and `SetMode` come between calls.

### Collective, Krylov

A rank's program is the list of what it does up to its next decision (`todo`). Local
work, products and reductions are its elements; the decisions of a solver are actions of
its module, and put the next part of the program into `todo`. `Collective` has what all
solves share: entering a product or a reduction (`call`, `mail`), blocking and
nonblocking reductions, the failing preconditioner (`BreakDown`), the end (`Finish`) and
the residual check that `KspContext` makes after the loop. Nothing but the position in
the program says which reduction of one rank meets which of another: `Reduce` takes
whatever each rank is in.

Scalars are abstracted to the facts the decisions test (which `Reduce` chooses, the same
for all ranks, since MPI returns one value to all), vectors (`vec`) to what they were
made from. So the models cover every outcome of the arithmetic, and nothing about its
accuracy.

| Module | Source | What is particular |
|---|---|---|
| `Cg` | `cg.rs` (`pcg.rs` calls it) | classic and pipelined loop, four norms, trust region, residual refresh and restart |
| `Arnoldi` | `gmres.rs`, `fgmres.rs`, `pca_gmres.rs` | the basis of a cycle, each vector named by the residual it was built from; passes of orthogonalisation |
| `Gmres` | `gmres.rs` | classical, pipelined and s-step, both sides, stagnation, the look at the residual at the end of a cycle |
| `Fgmres` | `fgmres.rs` (`gcr.rs` calls it) | variant, restart and extra products chosen from the rank's own plan |
| `PcaGmres` | `pca_gmres.rs` | the preconditioned residual ends a cycle, the residual itself decides |
| `BiCgStab` | `bicgstab.rs` | early look after half a step, shadow refresh, rescue of a small omega |
| `Recurrences` | `cgs.rs`, `tfqmr.rs` (`tcqmr.rs`), `minres.rs`, `richardson.rs` (`chebyshev.rs`), `pipegcr.rs` | few vectors; most confirm convergence with the residual |
| `Idrs` | `idrs.rs` | blocks of s + 1 inner steps with one omega, repairs of the shadow space |

### Schwarz

Set-up: ring by ring a rank collects the neighbours of what it has (`Ring`) and, if it
needs rows of others, enters an all-to-all fetch; then the lists of imports and exports
(`comm_plan.rs`), the coarse problem if there is one, and the factorisation. Application:
values of the overlap in, subdomain solve, for ASM contributions back, coarse solve. A
numeric update fetches the rows again. A row travels as its number and the version of its
values. Two rounds of messages with one tag (counts, data) are one message here. Who owns a
row is asked of a balanced partition (`OwnerOf`), whatever the operator's own is (`Own`): a
rank then refuses the rows it is wrongly asked for (`Refused`), or finds one in its exports
that is not in its vector (`BeginApply`). `Near`, `Wanted`, `Asks` say from the matrix alone
which rows a rank asks for in which sweep.

### DistAmg

One set-up after the other, each followed by an application if it succeeds: the three
strategies with their gathers, broadcasts and the sums by which ranks agree on an error
(`Total`). What was made in a set-up carries its number, so that an old matrix, operator
or plan is visible when it is applied. The hierarchy itself is numerical and left out.

### DistRoute

A set-up is `Install` (what `pc_global` names, once), `Refresh` (if the ids changed) and
`Route` (`maybe_upgrade_local_pc`: the selected route, its fallback chain and budget),
each rank for itself; `at[r]` is the rank's next step. Constructions may fail on any one
rank (`Fails`); those of a kind in `Collective` first exchange rows with all other ranks
(`Gather`). In the run these are ASM (RAS), and the AMG that `pc_type` may name ("aware"
in the model): it is set up in `Refresh` (`mod.rs:3027`), which hands it the `DistCsrOp`
itself, so that it compares and exchanges (`amg.rs:7670`, `:4627`). That an AMG fails on one
rank and the others go on is more than the code does: there all fail (`DistAmg`), or some
wait for ever (section 6), which is no success either.

### KspContext

The context is one record. `setup_impl` is the set `SetupResults(k)` of its possible
ends, stage by stage (`Constructed`, `Chained`, `Refreshed`, `Completed`), since `setup`
and `solve` both run it. Versions stand for the structure and the values of the
operator; `pc` records those it was built from, `last` the ids the code remembers. The
last five fields of the record and the variables `ran`, `early` are history: what the
user did or was told. Each excuse in a property is one of them and is explained there.

## 4. The runs

"v" marks a run whose property is violated (section 6). Every other run finishes without
an error, and for each of its properties `PROJECT.json` names a mutant of the code's
definitions that violates it.

| Run | Module, cfg | Instance and bounds | Why the bounds are enough |
|---|---|---|---|
| `halo_overlapped` | `MCHaloExchange`, `HaloOverlapped` | 3 ranks: two that read from each other, one that only sends; 2 calls each | two outstanding calls make the pool grow, complete out of order and reuse; a third rank makes a call with two sources |
| `halo_local_pc` | `HaloLocalPC` | 5 ranks: three that read in a circle (one from both others), one that only sends and its reader; 2 calls | a reuse after the first release; one-way couplings on which nobody skips, and one on which a rank skips and its reader hangs |
| `row_partition` | `MCRowPartition`, `RowPartition` | 5 ranks, 7 rows, all prefix arrays, all columns and two beyond | remainder ≠ 0, runs of empty ranks at both ends and in the middle, three levels of search |
| `halo_index` | `MCHaloIndex`, `HaloIndex` | 3 ranks, 4 columns, up to 3 entries of all local rows together, one column beyond | a third rank can be a round ahead of one peer and behind the other |
| `dist_csr_split` | `MCDistCsr`, `DistCsrSplit` | 3 ranks of 3, 0 and 1 rows, symmetric and one-way patterns in which row 2 stands alone, 2 calls, 1 update | with one border row of three a rank keeps the plan of its local block and divides that row with the border kernel, while its neighbour splits its rows; an update between two calls; ranks that only send or only receive |
| `dist_csr_tridiagonal` v | `DistCsrTridiagonal` | 12 rows on 3 ranks | the matrix of `tests/dist_csr.rs` |
| `krylov` | `MCKrylov`, `Krylov` | 2 ranks that read from each other, 11 solvers over their options (`Uniform`), 3 iterations, restart 1 to 3 | the first iteration, a later one, the last; a restart and the cycle after it; one refresh or replacement with what follows it; two ranks suffice for two that differ |
| `minres_happy` v | `MinresBeta` | MINRES, 2 ranks | |
| `ksp` | `MCKspContext`, `KspContext` | 3 solver types, 3 preconditioners and a chain of 2 candidates, 2 sizes, 2 communicators, 3 versions | a version to build from, one to change to, one more for the change after a failure |
| `schwarz` | `MCSchwarz`, `Schwarz` | 3 ranks, 6 rows, overlap 0 to 2, to 3 on a one-way ring, both modes, path and ring, 2 other partitions (with overlap 0 and 1) | a second sweep that starts from rows another rank has sent; with two rows on each rank it ends inside the neighbour, and it is the third sweep, on the ring, that reaches past the neighbour into the third rank; one update between two applications |
| `dist_amg` | `MCDistAmg`, `DistAmg` | 3 ranks in a row, 3 strategies, 2 or 3 set-ups, a failure of any rank, or of all, in any of them, of the hierarchy or of the numeric update | a success, a change, and a success after a failure; end ranks have one neighbour, the middle one two |
| `dist_route` | `MCDistRoute`, `DistRoute` | 2 ranks, 54 settings, ASM and AMG set up collectively, 2 choices, 2 versions, 3 set-ups | choose, set up, edit or choose again, set up, and once more with nothing changed |

What they show:

- `halo_overlapped`: pool conserved (`SlotsConserved`), no buffer reused in flight
  (`NoReuseInFlight`), the abstract exchange implemented (`PromiseKept`), every call
  returns (`EveryCallReturns`).
- `halo_local_pc`: with one call at a time the first context is the right one
  (`GhostsOfSameCall`). A rank that is not coupled, directly or through others, to one that
  skips returns from every call (`ReturnsUnlessPeerSkips`). The reader of a rank that
  skips hangs in this run, as it does in the code (section 6): `HangsBySkipping` is the excuse.
- `row_partition`: the search ends (`SearchEnds`) at the owner (`OwnerFound`).
- `halo_index`: plans mirror each other column by column (`PlansAgree`), no message stays
  (`NothingLeftOver`), each remote column has one ghost (`GhostsComplete`), a refusing
  rank holds the others back (`NobodyAheadOfRefused`), proper input gives every rank a
  plan (`EveryRankReady`).
- `dist_csr_split`: on a rank that keeps the plan of its local block the product is whole,
  in rows that it divides with the border kernel too (`PlanKernelIsAx`); under every kernel
  the ghost parts are exact (`GhostPartExact`);
  products return (`EveryProductReturns`).
- `krylov`: ranks meet in the same reduction (`SameReduction`) with the same vector
  (`SameVectors`) and return the same verdict (`SameVerdict`); directions belong to the
  residual they are combined with (`DirectionFits`); x is updated along the columns of its
  own cycle (`UpdateOfThisCycle`); "converged" is said of the x whose residual was tested
  (`ConvergedSeen`); reductions stay within the reported model (`WithinModel`); the solve
  returns (`EveryRankReturns`). They hold until a preconditioner fails on one rank: from
  then on the code lets ranks drift apart (hazards in `PROJECT.json`), and the model
  follows it. Settings in which ranks differ where the code does not allow for it are left
  out of `Uniform` and listed in section 6.
- `ksp`: `SolverReady`, `CurrentPc`, `ChosenPcUsed`, `SetupIsCheap`.
- `schwarz`: exchanges meet (`CallsMatch`), a subdomain matrix holds the present rows
  (`SubdomainExact`), each row of the result has the contributions of its mode, once each
  and of this application (`ContributionsExact`), calls return.
- `dist_amg`: one outcome for all ranks (`ErrorsSynchronized`), nothing of an older set-up
  applied (`CurrentInUse`), both whatever fails; set-ups and applications return
  (`EveryRankReturns`) up to the first in which a failing rank skips a handshake that the
  others enter. The two places where the code does so are in the run, ranks hang there, and
  `PartWays` is the excuse (section 6).
- `dist_route`: a successful set-up leaves the preconditioner that the documentation
  promises of the setting, whatever route the code has taken to it (`RequestedInUse`; the
  two settings in which the code departs from a text of the repository are named there,
  `InPlaceOfAsm` and `ServedThoughStrict`, section 6), ranks make the same calls until a
  construction fails on one of them (`RanksAlike`), and return (`EveryRankReturns`).

Deadlock is checked except where the system really stops: `halo_index` (a rank that
refuses its rows leaves the others waiting), `halo_local_pc` (the reader of a rank that
skips), the runs of `Krylov`, `Schwarz`, `DistAmg` and
`DistRoute` (their calls end, and a failure may leave ranks waiting). In
`halo_overlapped`, `RowPartition` and `DistCsr` termination is a stuttering step of its own,
so that any other stop is reported.

**Fairness.** Weak fairness throughout, no strong fairness.
`HaloExchange`: of each call's steps (a thread keeps running; requests are waited for in
the order posted) and of `Fetch`, `Deliver` (MPI must complete a matched pair).
`HaloIndex`, `DistCsr`, `Krylov`, `Schwarz`, `DistAmg`, `DistRoute`: of each rank's steps,
and of the collective call (`Reduce`, `Gather`), which is enabled only when all ranks are
in it: MPI completes what everyone has entered. `UpdateNumeric`, `SetMode` and the user's
calls of `DistRoute`, free choices, have none; that a construction fails has none of its
own (the rank goes on, in one way or the other). `RowPartition`: of the sequential loop.
`KspContext` has no liveness property: users need not call anything.

## 5. The proofs

`tlapm` checks every theorem for all values of the constants that satisfy the named
assumptions of the module: `ConstantsAssumption` (edges join different ranks, at least
one call), `SizesAssumption` (at least one rank; naturals), `KspAssumption` (naturals,
and names for "none" that are not values), `IndexAssumption` (the first rows of the
ranks, from 0 to the number of columns), `CsrAssumption` (finitely many rows, of one rank
each), `DistAmgAssumption` (at least one rank, coupling both ways, as an exchange needs
it), `RouteAssumption` (options of the right type; ASM is collective, what `pc_type` names
may be), `SchwarzAssumption` (settings of the right type; the partition of the operator covers its rows), `CollectiveAssumption` (edges join
different ranks, in both directions; settings of the right type).
TLC evaluates the same assumptions in the runs.

The theorems about `Krylov` have one hypothesis more, `AskedAlike` of every setting: what a
solver asks of the data of its own rank alone, whether x has a guess, a monitor is set, the
rank has rows, enough of them to overlap, which plan its matrix got, has the same answer
everywhere. Each solver is asked for what it reads and no more (a guess may differ where
the code does not look at it, or CG is told to compute the residual in any case). The code
itself does not ensure this; section 6 names the lines. TLC evaluates the hypothesis for
the settings of the two runs (`EveryoneAsksAlike`).

Those about `Schwarz` have one too, `AskingAlike` of every setting: in each sweep either all
ranks have rows to ask for or none has. It is a property of the matrix, the partition and the
overlap alone, and holds wherever every rank's rings go on growing, or end, with the others';
it fails when the rings of one rank end earlier, or reach rows of others later. The code
enters the exchange by the rank's own rows and ensures nothing (section 6): without the
hypothesis `CallsMatch` is false. The partition is not assumed to be the balanced one, nor
the matrix symmetric. TLC evaluates the hypothesis for the settings of the run
(`EveryoneAsksAlike` of `MCSchwarz`).

| Theorem | Module | Says |
|---|---|---|
| `TypeCorrect` | `HaloExchange_proofs` | `TypeOK` |
| `PoolSound` | | `SlotsConserved`: for every discipline, concurrent threads included |
| `BuffersQuiet` | | `NoReuseInFlight`: likewise |
| `PromiseHolds` | | `PromiseKept`: the refinement of `GhostExchange`, when each rank posts from one thread |
| `GhostsNeverMixed` | | `GhostsOfSameCall`: likewise, for both kinds of caller |
| `TypeCorrect` | `KspContext_proofs` | `TypeOK` |
| `SolverAlwaysReady` | | `SolverReady` |
| `OperatorsOnBoundComm` | | `CommsAgree` |
| `PcAlwaysCurrent` | | `CurrentPc`: through edits, reuse, updates, fallbacks and failures in any order |
| `ChosenAlwaysUsed` | | `ChosenPcUsed` |
| `SetupAlwaysCheap` | | `SetupIsCheap`, an action property |
| `PlansAlwaysAgree` | `HaloIndex_proofs` | `PlansAgree`: for any number of ranks, any matrix, any distribution of its rows |
| `NothingEverLeftOver` | | `NothingLeftOver` |
| `NobodyEverAhead` | | `NobodyAheadOfRefused` |
| `GhostsAlwaysComplete` | | `GhostsComplete` |
| `SearchTypeCorrect` | (of `RowPartition`) | `PartitionTypeOK`: the unsigned bounds never wrap |
| `OwnerCorrect` | | `OwnerFound` |
| `SearchFindsOwner` | | `SearchMatches`: the search of `RowPartition` returns the `OwnerOf` by which `HaloIndex` collects columns |
| `TypeCorrect` | `DistCsr_proofs` | the types of the variables |
| `GhostProductsExact` | | `GhostPartExact`: any matrix, any split of its rows, both kernels and both overlap modes |
| `PlanIsAx` | | `PlanKernelIsAx`: likewise |
| `SynchronizedErrors` | `DistAmg_proofs` | `ErrorsSynchronized`: any number of ranks coupled in any way, every strategy, whatever fails on however many ranks |
| `AppliedIsCurrent` | | `CurrentInUse`: likewise |
| `TypeCorrect` | `DistRoute_proofs` | `TypeOK` |
| `RequestedAlwaysUsed` | | `RequestedInUse`: for any number of ranks, all options, any sequence of calls and failures; with block Jacobi for ASM on the native route and `pc_global` served in strict mode on the others, where the code departs from the documentation and a test |
| `RanksAlwaysAlike` | | `RanksAlike`: likewise |
| `ReductionsMatch` | `Krylov_proofs` | `SameReduction`: all eleven solvers, all options that all ranks share, any number of ranks and neighbours, iterations and scalars |
| `GhostsOfTheSameVector` | | `SameVectors`: likewise |
| `VerdictsAgree` | | `SameVerdict`: likewise |
| `ExchangesMatch` | `Schwarz_proofs` | `CallsMatch`: any number of ranks, matrix, partition and overlap, both modes, whatever fails |
| `SubdomainsExact` | | `SubdomainExact`: likewise |
| `EveryContributionOnce` | | `ContributionsExact`: likewise |

Each proof is an inductive invariant `IInv`: `Init => IInv`, `IInv /\ [Next]_vars =>
IInv'` (one step per action), `IInv =>` the property.

**HaloExchange.** `SlotsConserved` alone is preserved by the pool's own actions; that a
*buffer* is quiet needs to know when a call is done with MPI. `IInv` adds `QueuesInv` (a
call is queued at most once per edge; sends only after packing, receives only after
checkout; MPI is never ahead of the requests), `WaitedInv` (a call that has unpacked has
all its requests completed, so `Release` leaves none in flight) and `PoolInv` (the first
context exists). A step changes one call or one edge; the frame lemmas (`PoolFrame`,
`EdgeFrame`, `QueuesFrame`, …) say once what is undisturbed.

Which call a value belongs to (the second part of the module) is proved for the callers `OneThread`
describes: products that may overlap but are posted in order, or any caller with one
exchange at a time. Threads that post concurrently are excluded because the promise fails
for them (section 6). `OrderInv` says that a call starts only after all earlier ones have
posted everything; so the i-th request on either side of an edge is that of call i
(`NumberInv`, by `NextNumber`), and with it the i-th message. `BufferInv` follows the value
through the buffers: two calls never hold one context (`PoolSound`) and a buffer MPI still
uses is held (`BuffersQuiet`), so nobody overwrites it. `PrimaryInv` is why dropping the
returned vector and reading the first context is sound with one call at a time: the pool
never grows. In the step simulation `Pack` is the abstract `Publish`; `Unpack`
(`ReadPrimary` for the rank-local preconditioners) is `Return`, or a stutter on a rank
without sources; every other step stutters.

**RowPartition** (in `HaloIndex_proofs`; the invariant is `SearchInv`). `Building` gives `s`
in closed form (`SumOf`: `k * Base` and one for
each of the first `Rem` ranks), so that `PushEnd`'s last entry, which the code writes
without counting, is where the count ends (`SumEnds`). `Ordered` carries monotonicity to
the search; `Narrowed` is the loop invariant: the owner lies between `lo` and `hi`, or,
for a column beyond the matrix, `hi` never moves and the search ends at `Size`.
`SearchFindsOwner` joins it to `HaloIndex`, which takes the owner of a column by `CHOOSE`: in
the partition of the handshake there is one owner only, and the search returns it.

**KspContext.** `SolverReady` speaks of a solve that has run; `IInv` says of *every*
context that counts as set up that it is ready (`Ready`), which each `set_*` call keeps
by clearing `setup` or by leaving solver, workspace and operator alone, and that a set
operator is on the bound communicator (`Settled`). `SetupEnds` covers `setup_impl`: every
end leaves operator, solver, workspace and binding as they were, or is `Completed` of
such a context; with it the two callers are short. `set_type` with refused CG options is
the delicate case: it keeps `setup`, and is sound only because the old solver stays.

Whether the preconditioner is the right one needs more: `Telling` says
what the remembered ids prove of the versions a preconditioner was built from, and is
kept by a failing stage because a rebuild is tried only while the ids differ; `Placed`
says where a chosen preconditioner can be, there or pending; `Recorded`, that no id is
newer than the last version, so that an edit makes one that nothing remembers; `Held`,
what a context that counts as set up still has when a later `solve()` skips the set-up,
among it the ids of the present operator (`Noted`), by which a repeated set-up finds
nothing to do.
Each stage has a lemma of its own, in the order of `setup_impl`, that says which fields it
may change (`Same`); `SetupSound` puts them together for `setup` and `solve`.

**HaloIndex.** What two ranks have exchanged follows from their phases and their rows alone:
`Pending(p, r)` is what p has sent to r and r has not yet received, and `Wired` says that
the wire holds just that. Everything else is local: `Lists` (the lists are those of the
rows), `Heard` (the counts are the lengths of the other's lists), `Answered`. A step of r
changes the pairs r is in, and a pair has few cases. Under it lie facts about sorting:
`Sortable` gives the increasing list of any finite set of naturals (each element at the
place that counts those up to it), so that `Cleaned` is what `sort_unstable` and `dedup`
make, and cleaning a clean list changes nothing, by which sender and receiver agree.
`OwnerExists` finds the owner of every column inside the matrix.

**DistCsr.** `RowInv` gives, phase by phase, what a row holds: nothing, its local part, or
the local part followed by the border part. Each part is the sequence of a set of products
(`LocalPartExact`, `BorderPartExact`: every column once), with the values of the copy the
kernel reads; `OneValue` says that the three copies agree between calls, which is what
`update_numeric` has to restore. `Received` ties the ghost values to the present call, as the
exchange promises, on every rank that takes part in it. `RowShape` then reads a finished row as one
sequence; that local and ghost columns are disjoint makes each product occur once.
`PlanIsAx` adds that with the plan of the local block the local part is every owned column.

**DistAmg.** Both properties compare ranks that may be in different places, so the
invariant is about places. The reductions cut a run into segments: `IInv` says that there
is a last reduction (its round, the decision after it, and whether a failure was brought
into it) such that every rank is at one of the few positions between it and the next
(`Stage`), with what it keeps and has received at that position (`Holding`, `Received`).
All ranks saw the same sum, so they decide alike; that is `ErrorsSynchronized` once it is
known that nobody is still in the reduction before. `CurrentInUse` needs the messages:
between two ranks at most two are under way, that of the settled round (report, verdict,
gather, scatter or halo) and that of the way to the next reduction, in this order (`Mail`);
who has completed an exchange has heard from every peer. So what `applied` looks at was
sent in this round, after the sender had rebuilt. Ranks that skip an exchange after a
failure of their own may leave others waiting for ever; the invariant holds there too.

**DistRoute.** `RequestedInUse` speaks of ranks that have returned `Ok` and of what was
requested, not of routes; `InUse` says what each route leaves, and `RouteGivesRequested`
that this is what was requested. `IInv` says, rank by rank, what has been achieved at each
step (`Progress`), and that the ids never tell more than is true: `LastTells` (they equal the operator's only if the preconditioner is of that
operator), which survives failures because a refresh fails only while the ids differ.
`Kept` ties `installed` and `pc_type` to what is in place. A rank's step leaves the others
alone (`OthersStay`, `Frame`), so the proof needs nothing about how ranks interleave or
whether they wait.

`RanksAlike` compares ranks, which `Progress` cannot. `Together` does it by looking ahead:
`Ends(r)` is what the set-up of `r` will end with if no construction fails from here on, and
`Gathers(r)` the steps at which it will still wait for all others. Both depend on the rank's own
variables and the common settings only. Until a construction fails on one rank (`apart`),
they are equal for all ranks (`Alike`), although the ranks are at different steps: a step of
a rank that succeeds changes neither, and leaving an exchange removes the same gather from
all. The gathers of a set-up come in a fixed order (`InOrder`), so two ranks that wait with
equal `Gathers` wait at the same step, and build the same; two that are both idle have
nothing ahead, so what they end with is what they have.

**Krylov.** The property says that ranks agree when they meet; but between two reductions
they are apart, at different steps of different lengths, so the invariant has to say where.
`Step` is what one rank does alone, as a function of its own state (`At(r)`) and the common
setting: each decision of each solver, the entry into a product, its end, the preconditioner,
the return. The *march* is the list `f[0], …, f[m]` of the states that the foremost rank has
been in since the last reduction, each the `Step` of the one before. `March` says that every
rank is somewhere on it (`At(r) = f[n[r]]`), and that what waits on an edge are the products
that the sender has entered and the receiver not left, in order (`Waiting`, where `c[k]`
counts the products before `f[k]`). A step of a rank behind moves it to the next place, as
`Step` is a function; one of a foremost rank makes the march longer (`Longer`). A state
that `Stays` has no step: it is in a reduction, where only `Reduce` goes on, or has returned.
So no rank passes it, and when all are in a reduction all are at the end of the march
(`AtTheEnd`): that is `ReductionsMatch`. `Reduce` shows all of them the same, since MPI
returns one value to all, and a new march starts there (`MeetsMarch`, `MarchStarts`).
`GhostsOfTheSameVector` is `Waiting` for the first message; `VerdictsAgree`, that only the
end of the march has a result.

Per solver there is one lemma for each decision: the action changes what belongs to its rank
alone, and to what the decision in `Step` says (`CgActs` … `SmallActs`). `AskedAlike` is used
there and nowhere else, where a solver reads data of its rank. `Marching` is claimed while
`broken` is empty: a preconditioner that fails on one rank sends it alone to the end, and the
properties stop there as well.

**Schwarz.** Ranks run through the same plan, of stages (a sweep, the completion, the update)
and points within a stage, in which the fetch is there or not; `k[r]` numbers the place of
rank r. The invariant says three things. What a rank has at a place is a function of the
setting (`Stands`): the list of what is left to do (`Rest`), the rings it has (`Reach`, `Edge`),
the rows it has fetched, with their version (`Before`, `Got`), exports, right-hand side and
result. Which exchanges join p to q is a function of the setting too (`Joint`), and so is what
is sent in each (`Bill`); this is where `AskingAlike` is used. And on the way from p to q are the
messages of just the exchanges that p has begun and q has not ended (`Pending`), each once and
in order (`Carries`), while q has ended none that p has not begun (`Synced`). So the head of
the queue is the message of the first joint exchange that q has not ended, and that is the one q
is in: no message is crossed, and what q receives is the bill. A rank that has given up stays
where it did; its messages are still those of the exchanges it began.

A rank moves in three ways, and each has a lemma: silently (`MoveSilent`, when no two ranks meet
between the two places), into an exchange (`MoveSend`), out of one (`MoveReceive`). `RestStep`
says that the list of what is left is always the next step and what is left after it. That a
subdomain is *the* overlap needs more: a rank reads only rows it owns or may fetch (`Read`),
and a row that the balanced partition gives to the rank itself, but the operator to another, is never
fetched, so its neighbours are missed. `Knows` remembers that every rank that got past the completion
found all its rows (`Settled`) and was asked for its own only (`Answers`); then the
rings in what can be read are the rings of the matrix (`NearExact`), and what q exports to r of
its own rows is what r's subdomain has of them, which an exact sum of contributions needs. Rings are a
recursive function; that there is one comes from a closed form, the ends of paths (`PathEnds`).

`Spec` without fairness suffices for all of them. TLC does not check `TypeOK` of
`HaloExchange`, `KspContext`, `DistCsr` and `DistRoute`, `PartitionTypeOK`, nor `CommsAgree`: they are
proved instead.

## 6. Where code and documents disagree

With a run that shows it:

| Run | What happens |
|---|---|
| `dist_csr_tridiagonal` | The row-split kernel computes rows without ghosts, the border kernel adds products with ghosts: the owned part of a border row is in neither (`dist_csr.rs:573`). |
| `minres_happy` | A vanishing Lanczos vector ends MINRES as converged before x has been updated (`minres.rs:263`). |

Without a run of its own, found while modelling. The models follow the code; the settings
of the runs stay where the properties hold, and each hazard names the line:

- `dist_csr.rs:60` allows concurrent `matvec` on one operator, `halo.rs:290-292` forbids
  it: all messages carry tag 0, so threads that post in different orders on two ranks
  receive each other's vectors (`Discipline = "threads"`).
- SOR and block Jacobi skip the exchange when they have no ghosts, even if a peer reads
  from them (`sor.rs:388`, `block_jacobi_ilu.rs:182`), so the peer waits for ever where the
  coupling is one-way; `docs/matrix_features.md:64, 77` lists both, with halo-coupled
  correction, as safe under MPI. The run `halo_local_pc` contains such a pair of ranks.
- A set-up that a fallback preconditioner rescues returns `Ok` before the workspace is
  made (`mod.rs:3028`).
- Ranks decide from local data whether to make a collective call: CG and BiCGStab on the
  initial guess (`cg.rs:573`, `bicgstab.rs:430`), an empty rank (`cg.rs:551`), nonblocking
  reductions on `async_min_n` (`cg.rs:686`), FGMRES on its plan (`fgmres.rs:879`), Schwarz
  on its own ring (`asm/distributed.rs:171`, `:479`), the weights of block Jacobi's coarse correction
  (`block_jacobi_ilu.rs:181-216`).
- AMG says that errors are synchronised (`amg.rs:4265`), but a rank whose local hierarchy
  fails skips the handshake of `build_amg_halo_plan` (`amg.rs:4490`, strategy
  `local_prototype`), and one whose numeric update fails skips the handshake in which the
  operator is built again (`amg.rs:4638`, strategy `distributed_csr`). In both cases it goes
  on to the reduction while the ranks that succeeded wait in the handshake, for ever. The
  run `dist_amg` contains both.
- Schwarz asks a balanced partition for the owner of a row, whatever partition the operator has
  (`asm/distributed.rs:447-453`). With another one a rank is asked for rows it does not own and
  refuses (`subdomain.rs:55-59`), leaving the others in the exchange; with overlap 0 it is not asked
  for rows, and indexes its vector out of bounds in `apply` (`comm_plan.rs:30-33`).
- Stale vectors: BiCGStab's residual replacement overwrites `v` (`bicgstab.rs:997`), the
  s-step GMRES preconditioned from the right keeps `Z_0` of the cycle before
  (`gmres.rs:2128`), IDR(s) reuses the omega of another block after a repair
  (`idrs.rs:797-830`).
- Verdicts: PCA-GMRES reports the iteration limit when only the preconditioned residual is
  small; TFQMR has no test for divergence; CGS ignores its preconditioner.
- Route: with a native mode of application on the native route, block Jacobi replaces the
  ASM or RAS that `pc_global` requests (`mod.rs:4200`, against `docs/communicators.md:32-41`;
  `InPlaceOfAsm`). `pc_global` is served before strict mode is looked at (`mod.rs:4268-4318`),
  so that the set-up of `mpi_strict_mode_rejects_adapter_masking`
  (`tests/mpi_pc_consistency.rs:556-592`: `block_jacobi`, `strict`, `adapted`) returns `Ok`
  where the test expects an error (`ServedThoughStrict`; the test does nothing on one rank).
  A rank-local preconditioner without `pc_global` is accepted on the routes `adapted` and
  `root_gather` (`mod.rs:4332-4366`), as `docs/communicators.md:73-75` has it;
  `docs/matrix_features.md:92-95` says that this fails early. A set-up is not idempotent under
  `pc_dist_max_fallbacks` (`docs/petsc_mapping.md:16`): each adds to the fallback chain,
  so that one of them exceeds the budget with nothing changed. After a failure on one rank,
  ids, flags and chains of the ranks differ until `pc_type` is given anew.

## 7. Only model-checked, and not modelled

Liveness (`EveryCallReturns`, `ReturnsUnlessPeerSkips`, `SearchEnds`, `EveryRankReady`, `EveryProductReturns`,
`EveryRankReturns`) is checked on the instances only, as it is out of the prover's reach.
Of `Krylov`, `TypeOK`, `DirectionFits`, `UpdateOfThisCycle`, `ConvergedSeen` and `WithinModel`
are checked on the instances: they follow one rank's vectors or counters through a solver's
loops and need an invariant per solver.

What the models leave out on purpose:

- numbers: floating point, convergence, stability. Tests on scalars are arbitrary facts,
  the same on every rank;
- `HaloExchange`: pack runs, timings and statistics; errors of MPI calls;
- `HaloIndex`: copying of columns and ghost numbering beyond its order;
- `DistCsr`: `from_parcsr`'s merge of rows; it takes the exchange's promise as given;
- `Krylov`: what monitors print, statistics; settings in which ranks differ where the code
  does not allow for it (section 6);
- `KspContext`: the preconditioning side, adaptive execution, options beyond the staged CG
  norm; two operators with equal ids; the distributed route is in `DistRoute`;
- `Schwarz`: weights, the inner solver; ranks whose rings end at different depths (those
  that have finished do not enter the exchange of the others; section 6);
- `DistAmg`: the hierarchy and its cycle, gathers in pieces;
- `DistRoute`: chains of preconditioners and reuse policies under a route; an AMG with a
  strategy that reports itself rank-local, collective all the same (`Collective` may contain
  it, the run does not);
- all components marked not modelled in `PROJECT.json`, each with its reason: numerical
  kernels and data structures without shared control, text handling, foreign interfaces,
  and the next steps of the plan.

The map covers about 7% of the implementation's lines. Most of the rest are numerical
kernels (AMG's coarsening and interpolation, ILU variants, formats), CUDA and SuperLU
bindings, option tables and demonstration programs, whose correctness is not a question of
control that a model checker answers.

## 8. Running it

```
tlc -config HaloOverlapped.cfg MCHaloExchange      # likewise for the other runs
tlapm HaloExchange_proofs.tla                      # likewise the other *_proofs
```

`ksp` (1.4 million states) and `krylov` (760 thousand, the slowest: one to three minutes)
are the largest runs. The longest proofs are those of `Krylov` and `HaloExchange` (five to
seven minutes each); `DistAmg` and `KspContext` take two to four.
