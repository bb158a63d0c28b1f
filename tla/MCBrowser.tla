------------------------------- MODULE MCBrowser -------------------------------
(* Browser on a small instance for TLC. *)
EXTENDS Browser, TLC

CONSTANTS r1, c1, c2

AllInFirst == [r \in Runs |-> c1]
================================================================================
