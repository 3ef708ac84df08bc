------------------------------ MODULE MCGenePool ------------------------------
(***************************************************************************)
(* Small instances of GenePool for TLC.                                    *)
(***************************************************************************)
EXTENDS GenePoolLease

(* Connections, borrowers and closers are interchangeable.                 *)
Symmetry == Permutations(Conns) \cup Permutations(Borrowers)
                \cup Permutations(Closers)
=============================================================================
