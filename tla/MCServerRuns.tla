----------------------------- MODULE MCServerRuns -----------------------------
(* ServerRuns on small instances for TLC. *)
EXTENDS ServerRuns, TLC

Symmetry == Permutations(Runs) \cup Permutations(Stoppers)
================================================================================
