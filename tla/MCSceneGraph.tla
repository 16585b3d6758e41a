---------------------------- MODULE MCSceneGraph ----------------------------
(* SceneGraph for TLC: the matrices are the permutations of 1..3, whose       *)
(* product depends on the order, as that of matrices does.                    *)
EXTENDS SceneGraph, TLC

Identity == <<1, 2, 3>>
Turn == <<2, 3, 1>>
Flip == <<2, 1, 3>>

MCMatrices == {m \in [1..3 -> 1..3] : IsInjective(m)}
MCMul(a, b) == [i \in 1..3 |-> a[b[i]]]
MCOperators == {Turn, Flip}

NodeSymmetry == Permutations(Nodes)
=============================================================================
