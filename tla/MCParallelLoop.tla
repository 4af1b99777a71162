---------------------------- MODULE MCParallelLoop ----------------------------
(***************************************************************************)
(* Instances of ParallelLoop for TLC: 4-bit words, so that the arithmetic  *)
(* of the slices wraps within reach.                                       *)
(***************************************************************************)
EXTENDS ParallelLoop

\* A short loop, an empty one, lengths that 3 divides and does not divide, the ends
\* of the word; then three whose difference wraps: an empty loop to 1, which is short,
\* a loop of 14 iterations to -2, so that it runs in place, and an empty loop to 3:
\* that round is not regular, and what follows it has to be right all the same.
MCBounds ==
  {<<0, 1>>, <<2, -3>>, <<-1, 2>>, <<-8, -3>>, <<1, 6>>, <<7, -8>>, <<-8, 6>>, <<7, -6>>}

\* One loop worth a region, for the runs about what else can be wrong with it.
RegionBounds == {<<1, 6>>}
===============================================================================
