------------------------------ MODULE MCPersist ------------------------------
(* Two processes on one persist file. *)
EXTENDS PersistFile, TLC

CONSTANTS p1, p2, a, b, m, k

TwoProc == {p1, p2}
OneOp == {a}
TwoOps == {a, b}
OneMemory == {m}
OneToken == {k}
Nothing == {}

Symmetric == Permutations(TwoProc) \cup Permutations(TwoOps)
=============================================================================
