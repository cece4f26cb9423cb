------------------------------ MODULE MCJoinQuery -----------------------------
(* JoinQuery for TLC: join keys are only compared with one another.        *)
EXTENDS JoinQuery, TLC

Symmetry == Permutations(Keys)
===============================================================================
