------------------------------ MODULE MCKrylov ------------------------------
(* Instances of Krylov for model checking: the settings of a solve.        *)
EXTENDS Krylov

TwoRanks == {1, 2}
Coupled == {<<1, 2>>, <<2, 1>>}

Everywhere(v) == [r \in Ranks |-> v]
OneOf(a, b) == [r \in Ranks |-> IF r = 1 THEN a ELSE b]

Cg(variant) ==
  [solver |-> "cg", variant |-> variant, norm |-> "preconditioned", trust |-> FALSE,
   refresh |-> 0, force |-> FALSE, overlap |-> FALSE, monitor |-> Everywhere(FALSE),
   guess |-> Everywhere(FALSE), rows |-> Everywhere("few"), fails |-> {}]

Gmres(variant) ==
  [solver |-> "gmres", variant |-> variant, side |-> "right", orthog |-> "cgs",
   reorth |-> "never", restart |-> 2, s |-> 1, heuristic |-> FALSE, monitor |-> FALSE,
   overlap |-> FALSE, guess |-> Everywhere(TRUE), rows |-> Everywhere("few"), fails |-> {}]

Fgmres(variant) ==
  [solver |-> "fgmres", variant |-> variant, orthog |-> "cgs", reorth |-> "never",
   restart |-> 2, every |-> FALSE, happy |-> TRUE, stagnation |-> "ignore",
   plan |-> Everywhere("none"), monitor |-> FALSE, overlap |-> FALSE,
   guess |-> Everywhere(TRUE), rows |-> Everywhere("few"), fails |-> {}]

BiCgStab(variant) ==
  [solver |-> "bicgstab", variant |-> variant, side |-> "right", every |-> 1,
   refreshes |-> 1, monitor |-> FALSE, overlap |-> FALSE, guess |-> Everywhere(TRUE),
   rows |-> Everywhere("few"), fails |-> {}]

Pca(side) ==
  [solver |-> "pcagmres", side |-> side, modified |-> FALSE, restart |-> 2, overlap |-> FALSE,
   guess |-> Everywhere(TRUE), rows |-> Everywhere("few"), fails |-> {}]

Small(solver) ==
  [solver |-> solver, every |-> 0, restart |-> 2, modified |-> FALSE, happy |-> FALSE,
   monitor |-> FALSE, overlap |-> FALSE, guess |-> Everywhere(TRUE),
   rows |-> Everywhere("few"), fails |-> {}]

Idr(s) ==
  [solver |-> "idrs", s |-> s, retries |-> 0, random |-> FALSE, clipped |-> FALSE,
   every |-> 0, overlap |-> FALSE, guess |-> Everywhere(TRUE), rows |-> Everywhere("few"),
   fails |-> {}]

CgVariants == {"classic", "pipelined"}
CgNorms == {"preconditioned", "unpreconditioned", "natural", "none"}
Sides == {"left", "right"}
Reorths == {"never", "ifneeded", "always"}

(* Every combination of the options that are decided per iteration, the    *)
(* others one at a time; the same on all ranks.                            *)
CgOptions ==
  {[Cg(v) EXCEPT !.norm = n, !.trust = t, !.refresh = f, !.overlap = o,
                 !.rows = Everywhere(IF o THEN "many" ELSE "few")] :
     v \in CgVariants, n \in CgNorms, t \in BOOLEAN, f \in {0, 2}, o \in BOOLEAN}
  \cup {[Cg(v) EXCEPT !.monitor = Everywhere(TRUE), !.guess = Everywhere(TRUE),
                      !.refresh = 1] : v \in CgVariants}
  \cup {[Cg("pipelined") EXCEPT !.norm = n, !.refresh = 1] : n \in CgNorms}

GmresOptions ==
  {[Gmres(v) EXCEPT !.side = d, !.orthog = o, !.reorth = a] :
     v \in {"classical", "pipelined"}, d \in Sides, o \in {"cgs", "mgs"}, a \in Reorths}
  \cup {[Gmres(v) EXCEPT !.side = d, !.heuristic = TRUE, !.monitor = TRUE, !.overlap = TRUE] :
          v \in {"classical", "pipelined"}, d \in Sides}
  \cup {[Gmres("sstep") EXCEPT !.side = "left", !.reorth = a] : a \in Reorths}
  \cup {[Gmres("sstep") EXCEPT !.side = d, !.monitor = TRUE, !.restart = 3, !.s = 2] : d \in Sides}

FgmresOptions ==
  {[Fgmres(v) EXCEPT !.orthog = o, !.reorth = a] :
     v \in {"classical", "pipelined"}, o \in {"cgs", "mgs"}, a \in Reorths}
  \cup {[Fgmres(v) EXCEPT !.every = e, !.stagnation = g, !.restart = 3] :
          v \in {"classical", "pipelined"}, e \in BOOLEAN,
          g \in {"ignore", "fallback", "replace", "restart"}}
  \cup {[Fgmres("classical") EXCEPT !.plan = Everywhere(p), !.overlap = TRUE] :
          p \in {"none", "comm heavy", "compute heavy", "balanced"}}
  \cup {[Fgmres("pipelined") EXCEPT !.happy = FALSE, !.monitor = TRUE]}

BiCgStabOptions ==
  {[BiCgStab(v) EXCEPT !.side = d, !.monitor = m, !.refreshes = f] :
     v \in {"classic", "fewer checks"}, d \in Sides, m \in BOOLEAN, f \in 0..2}
  \cup {[BiCgStab("classic") EXCEPT !.guess = Everywhere(FALSE), !.overlap = TRUE]}

PcaOptions ==
  {[Pca(d) EXCEPT !.modified = m, !.restart = n] :
     d \in {"left", "right", "none"}, m \in BOOLEAN, n \in 1..2}

SmallSolvers == Solvers \ {"cg", "gmres", "fgmres", "bicgstab", "pcagmres", "idrs"}

RecurrenceOptions ==
  {[Small(v) EXCEPT !.monitor = m] : v \in SmallSolvers, m \in BOOLEAN}
  \cup {[Small("tfqmr") EXCEPT !.every = n] : n \in 1..2}
  \cup {[Small("pipegcr") EXCEPT !.modified = TRUE, !.restart = n] : n \in 1..3}
  \cup {[Small("cgs") EXCEPT !.guess = Everywhere(FALSE)]}

IdrOptions ==
  {[Idr(s) EXCEPT !.clipped = c, !.every = e] : s \in 1..2, c \in BOOLEAN, e \in {0, 2}}
  \cup {[Idr(s) EXCEPT !.retries = n, !.random = TRUE] : s \in 1..2, n \in 1..2}

(* Data that differ between the ranks where the code allows it: x with the *)
(* flag set, rows without overlap; no rows at all; a preconditioner that   *)
(* fails on one rank.                                                      *)
Uneven ==
  {[Cg(v) EXCEPT !.force = TRUE, !.guess = OneOf(TRUE, FALSE),
                 !.rows = OneOf("few", "many")] : v \in CgVariants}
  \cup {[Cg(v) EXCEPT !.rows = Everywhere("none")] : v \in CgVariants}
  \cup {[Cg("classic") EXCEPT !.fails = {1}], [Gmres("classical") EXCEPT !.fails = {1}],
        [Fgmres("classical") EXCEPT !.fails = {1}], [BiCgStab("classic") EXCEPT !.fails = {1}],
        [Pca("left") EXCEPT !.fails = {1}], [Idr(1) EXCEPT !.fails = {1}],
        [Small("minres") EXCEPT !.fails = {1}]}
  \cup {[Gmres(v) EXCEPT !.guess = OneOf(TRUE, FALSE)] : v \in {"classical", "pipelined"}}
  \cup {[Fgmres(v) EXCEPT !.guess = OneOf(TRUE, FALSE)] : v \in {"classical", "pipelined"}}

Uniform ==
  {s \in CgOptions : s.variant = "classic" => s.refresh = 0}
    \cup GmresOptions \cup FgmresOptions \cup BiCgStabOptions \cup Uneven
    \cup PcaOptions \cup RecurrenceOptions \cup IdrOptions

(* MINRES may meet a Lanczos vector that vanishes.                         *)
VanishingBeta == {[Small("minres") EXCEPT !.happy = TRUE]}

(* The hypothesis of the theorems of Krylov_proofs.                        *)
ASSUME EveryoneAsksAlike == \A s \in Settings : AskedAlike(s)
=============================================================================
