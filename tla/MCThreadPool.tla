--------------------------- MODULE MCThreadPool ---------------------------
(* ThreadPool for TLC.  Workers, adders and tasks are interchangeable, so  *)
(* the safety runs may identify states that differ by a renaming of them.  *)
(* Endless tasks are all of Tasks or none of it there.                     *)
EXTENDS ThreadPool, TLC

PoolSymmetry ==
  Permutations(Workers) \cup Permutations(Adders) \cup Permutations(Tasks)
=============================================================================
