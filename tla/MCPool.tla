------------------------------- MODULE MCPool -------------------------------
(* Instances of Pool for model checking.                                   *)
EXTENDS Pool, TLC

CONSTANTS t1, t2, t3

Threads3 == {t1, t2, t3}
Sym3 == Permutations(Threads3)
=============================================================================
