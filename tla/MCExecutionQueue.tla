-------------------------- MODULE MCExecutionQueue --------------------------
(***************************************************************************)
(* Instances of ExecutionQueue for TLC.                                    *)
(***************************************************************************)
EXTENDS ExecutionQueue, TLC

\* The workers are interchangeable, and so are the requests and the jobs.
Symmetry == Permutations(Workers) \cup Permutations(Clients) \cup Permutations(Jobs)
=============================================================================
