----------------------------- MODULE MCToolConfig -----------------------------
(* ToolConfig on small instances for TLC. *)
EXTENDS ToolConfig, TLC

Symmetry == Permutations(PolicyEditors) \cup Permutations(ProviderEditors)
================================================================================
