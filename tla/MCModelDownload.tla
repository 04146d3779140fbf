-------------------------- MODULE MCModelDownload --------------------------
(* Instances of ModelDownload for TLC. *)
EXTENDS ModelDownload, TLC

(* The order of the resumes does not matter before they happen. *)
Symmetry == Permutations(Chains) \cup Permutations(Tasks)
=============================================================================
