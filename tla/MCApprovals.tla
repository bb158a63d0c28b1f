------------------------------ MODULE MCApprovals ------------------------------
(* Approvals on small instances for TLC: a call of a plain tool and a call of a
   meta-tool that names it. *)
EXTENDS Approvals, TLC

CONSTANTS plain, meta, read, batch

MCTool == [c \in Calls |-> IF c = plain THEN read ELSE batch]
MCNamed == [c \in Calls |-> IF c = plain THEN {} ELSE {read}]

Symmetry == Permutations(Answers)
================================================================================
