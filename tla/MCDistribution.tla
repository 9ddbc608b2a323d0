--------------------------- MODULE MCDistribution ---------------------------
(* Instances of Distribution for model checking.                           *)
EXTENDS Distribution

\* Host 0 has no weight of its own, host 2 twice the weight of the others.
Weights == [h \in Hosts |-> h]

\* Fourteen different hashes below fifteen: four points for hosts 0 and 1, six
\* for host 2.
Values == [h \in Hosts |-> [p \in 0..(IF h = 2 THEN 5 ELSE 3) |->
                               ((4 * h + p + 1) * 4) % 15]]
=============================================================================
