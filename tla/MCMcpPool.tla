------------------------------- MODULE MCMcpPool -------------------------------
(* McpPool on a small instance for TLC. *)
EXTENDS McpPool

CONSTANT t1

TwoPages == <<{}, {t1}>>
================================================================================
