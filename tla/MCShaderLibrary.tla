-------------------------- MODULE MCShaderLibrary --------------------------
(* ShaderLibrary for TLC.  A file holds a version line and then a line of     *)
(* source, an include, or two includes, one after the other or with a line of *)
(* source between them; or it is broken, or missing.  Only p1 includes twice. *)
EXTENDS ShaderLibrary

CONSTANT p1

Source(p) == <<"source", p, 1>>
Include(q) == <<"include", q, 0>>
Pairs(p) == IF p = p1 THEN {x \in Paths \X Paths : x[1] # x[2]} ELSE {}

Bodies(p) == {<<Source(p)>>}
             \cup {<<Include(q)>> : q \in Paths}
             \cup {<<Include(x[1]), Include(x[2])>> : x \in Pairs(p)}
             \cup {<<Include(x[1]), Source(p), Include(x[2])>> : x \in Pairs(p)}

GoodFiles(p) == {[sections |-> <<<<"version", p, 0>>>> \o b, broken |-> FALSE] : b \in Bodies(p)}

BrokenFiles(p) == {[sections |-> b, broken |-> TRUE] : b \in {<<>>, <<Include(p)>>}}

FilesAt(p) == GoodFiles(p) \cup BrokenFiles(p) \cup {Missing}

MCFileSystems == {fs \in [Paths -> UNION {FilesAt(p) : p \in Paths}] :
                    \A p \in Paths : fs[p] \in FilesAt(p)}

\* Later loaders: one has nothing, one has files that include p1.
MCReplacements ==
  {[p \in Paths |-> Missing],
   [p \in Paths |-> [sections |-> <<<<"version", p, 0>>, Include(p1)>>, broken |-> FALSE]]}

\* The loader and the limit change once at most.
FewSettings == Cardinality(past) <= 2
=============================================================================
