-------------------------------- MODULE MCRuntime --------------------------------
(* Small instances of Runtime. *)
EXTENDS Runtime, TLC

(* Runs, projects and processes are interchangeable (safety runs only). *)
Symmetry == Permutations(Runs) \cup Permutations(Projects) \cup Permutations(Processes)
================================================================================
