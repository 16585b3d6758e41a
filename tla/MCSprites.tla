----------------------------- MODULE MCSprites -----------------------------
(* Sprites for TLC: a matrix is a map v |-> a * v + b of each coordinate over *)
(* the integers modulo 3, or 2 for the layer, with the pairs <<a, b>> of x,   *)
(* y and the layer one after the other.  A quarter turn mixes coordinates, a  *)
(* half turn does not.                                                        *)
EXTENDS Sprites, SequencesExt, TLC

CONSTANT MaxChanged

Mod(i) == i % 3

MCMatrices == {<<a, b, c, d, e, f>> : a, b, c, d \in 0..2, e, f \in 0..1}
MCMul(m, n) == <<Mod(m[1] * n[1]), Mod(m[1] * n[2] + m[2]),
                 Mod(m[3] * n[3]), Mod(m[3] * n[4] + m[4]),
                 (m[5] * n[5]) % 2, (m[5] * n[6] + m[6]) % 2>>

MCIdentity == <<1, 0, 1, 0, 1, 0>>
MCTranslation(pos) == <<1, Mod(pos[1]), 1, Mod(pos[2]), 1, pos[3] % 2>>
MCScaling(size) == <<Mod(size[1]), 0, Mod(size[2]), 0, size[3] % 2, 0>>

\* The coordinates from 0 to the size become those from -1 to 1; modulo 3 a
\* number that is not 0 is its own inverse.
MCProjection(size) == <<Mod(2 * size[1]), 2, Mod(2 * size[2]), 2, 1, 0>>

\* An angle is a number of half turns.
MCRotation(r, w, h) == IF r % 2 = 0 THEN MCIdentity ELSE <<2, Mod(w), 2, Mod(h), 1, 0>>

\* Unit is 10; the other factors stand for -1, so that they can be told apart.
MCZooming(z, pos) == IF z = 10 THEN MCIdentity ELSE <<2, Mod(2 * pos[1]), 2, Mod(2 * pos[2]), 1, 0>>
MCPositions == {<<0, 0, 0>>, <<1, 0, 0>>}
MCSizes == {<<1, 1>>, <<2, 1>>}
MCScales == {<<0, 0, 0>>, <<1, 1, 1>>, <<2, 1, 0>>}
MCMoves == {-1, 0, 1}
MCTurns == {-1, 1}
MCZooms == {-10, 9}
MCPoints == {<<1, 0>>}

\* The matrices the calls can give to a node.
MCOperators ==
  {MCIdentity} \cup {MCTranslation(pos) : pos \in MCPositions}
  \cup {MCScaling(s) : s \in MCScales} \cup {MCProjection(s) : s \in MCSizes}
  \cup {MCRotation(1, s[1], s[2]) : s \in MCSizes \cup MCScales} \cup {MCZooming(1, pos) : pos \in MCPoints}

SpriteSymmetry == Permutations(Sprites)

\* The nodes no member of a renderer, a sprite or the running call leads to.
Wasted == born \ ({m_rootnode} \cup NodesOf(camera.node)
                  \cup UNION {NodesOf(sprite[s].node) : s \in Sprites}
                  \cup IF call.at = "returned" \/ call.of = Nobody THEN {} ELSE NodesOf(call.node))

\* Not more than MaxChanged of the settings are other than at first, where the
\* nodes of one destroyed sprite count as one.
Changed(s) == {f \in {"position", "size", "turned", "m_parent"} : sprite[s][f] # Unbuilt[f]}
FewChanges ==
  Cardinality({f \in {"position", "angle", "zoom"} : camera[f] # NoCamera[f]})
    + (IF m_size = <<1, 1>> THEN 0 ELSE 1) + Cardinality(held \ {m_rootnode})
    + (Cardinality(Wasted) + 2) \div 3
    + FoldFunction(+, 0, [s \in Sprites |-> Cardinality(Changed(s))]) <= MaxChanged

=============================================================================
