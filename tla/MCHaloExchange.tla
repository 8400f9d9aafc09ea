--------------------------- MODULE MCHaloExchange ---------------------------
(* Instances of HaloExchange for model checking.                           *)
EXTENDS HaloExchange

(* Two ranks that read from each other.                                    *)
Pair == {<<1, 2>>, <<2, 1>>}
(* Ranks 1 and 2 read from each other; rank 3 only sends, to rank 1.       *)
PairAndFeeder == {<<1, 2>>, <<2, 1>>, <<3, 1>>}
(* One-way couplings.  Ranks 1, 2 and 3 read in a circle, and 3 from both  *)
(* others; 5 reads from 4, which reads from nobody and skips.              *)
CircleAndSkipper == {<<1, 2>>, <<2, 3>>, <<3, 1>>, <<1, 3>>, <<4, 5>>}
=============================================================================
