---------------------------- MODULE MCProviderFiles ----------------------------
(* ProviderFiles on a small instance for TLC. *)
EXTENDS ProviderFiles

CONSTANTS p1, p2, p3, e1, e2, e3, e4, r1, r2, preset, custom, key1, key2

FirstTwo(e) == IF e = e3 THEN p2 ELSE IF e = e4 THEN p3 ELSE p1
FirstOf(p) == IF p = p2 THEN r2 ELSE r1

BuiltIn(p) == [url |-> "preset", env |-> "PRESET_KEY"]
TwoEntries == {[url |-> "here", env |-> "none"], [url |-> "there", env |-> "OWN_KEY"]}

(* The first process has the variable of one of the entries. *)
OwnKeyOfFirst(p, name) == IF p = p1 /\ name = "OWN_KEY" THEN key2 ELSE NoKey
NoJevSet(p) == NoJev
================================================================================
