-------------------------------- MODULE MCContext --------------------------------
(* A small instance of Context. *)
EXTENDS Context

(* A short or a long first output, which the second round may leave out, and then a long
   one, with which the IR may be too large whatever is left out. *)
MCSizes == <<{Small, Large}, {Large + 1}>>
================================================================================
