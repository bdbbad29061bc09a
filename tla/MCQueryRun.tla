----------------------------- MODULE MCQueryRun -----------------------------
(* Instances of QueryRun for TLC.                                          *)
EXTENDS QueryRun, TLC

CONSTANTS r1, r2, t1, u1

(* Two exchanges of one turn: a retry, or a call and its follow-up.        *)
OneTurn  == [r \in Run |-> t1]
OneUser  == [t \in Turn |-> u1]
RunSymmetry == Permutations(Run)
=============================================================================
