----------------------------- MODULE SceneGraph -----------------------------
(* The scene graph of gawo/datastructures/scenegraph.hpp: every node keeps an *)
(* operator matrix and a cached product of the operators above it.  The calls *)
(* that change a node end in recalculate(), which visits the node and its     *)
(* children recursively; the recursion is the stack `todo`, one node a step.  *)
(* The graph is single threaded: no call starts while one is recalculating.   *)
EXTENDS Integers, Sequences, FiniteSets, Functions

CONSTANTS Nodes,      \* the nodes that can be created
          None,       \* an empty weak_ptr
          Matrices,
          Mul(_, _),  \* the product of two matrices
          Operators   \* the matrices given to the nodes

ASSUME NoneAssumption == None \notin Nodes
ASSUME MatrixAssumption == /\ Operators \subseteq Matrices
                           /\ Operators # {}
                           /\ \A a, b \in Matrices : Mul(a, b) \in Matrices

VARIABLES born,               \* nodes that were constructed
          alive,              \* nodes somebody owns
          held,               \* nodes the application owns itself
          m_parent, m_children,
          m_operator_matrix, m_matrix,
          todo                \* nodes recalculate() still has to visit

vars == <<born, alive, held, m_parent, m_children, m_operator_matrix, m_matrix, todo>>
graph == <<born, alive, held, m_parent, m_children, m_operator_matrix>>

TypeOK ==
  /\ born \subseteq Nodes /\ alive \subseteq born /\ held \subseteq alive
  /\ m_parent \in [Nodes -> Nodes \cup {None}]
  /\ m_children \in [Nodes -> Seq(Nodes)]
  /\ m_operator_matrix \in [Nodes -> Matrices]
  /\ m_matrix \in [Nodes -> Matrices]
  /\ todo \in Seq(Nodes)

\* Stands for the matrices of a node that does not exist.
Unset == CHOOSE m \in Matrices : TRUE

Init ==
  /\ born = {} /\ alive = {} /\ held = {}
  /\ m_parent = [n \in Nodes |-> None]
  /\ m_children = [n \in Nodes |-> <<>>]
  /\ m_operator_matrix = [n \in Nodes |-> Unset]
  /\ m_matrix = [n \in Nodes |-> Unset]
  /\ todo = <<>>

-----------------------------------------------------------------------------
(* recalculate *)

\* Mutant: the product is taken in the other order.
SwappedProduct(p, op) == IF p \in alive THEN Mul(op, m_matrix[p]) ELSE op

\* The matrix of a node below p with operator op; lock() fails for a dead p.
Product(p, op) == IF p \in alive THEN Mul(m_matrix[p], op) ELSE op

\* Mutant: the recursion into the children is missing.
RecalculateOnlySelf ==
  /\ todo # <<>>
  /\ m_matrix' = [m_matrix EXCEPT ![Head(todo)] =
                    Product(m_parent[Head(todo)], m_operator_matrix[Head(todo)])]
  /\ todo' = Tail(todo)
  /\ UNCHANGED graph

Recalculate ==
  /\ todo # <<>>
  /\ m_matrix' = [m_matrix EXCEPT ![Head(todo)] =
                    Product(m_parent[Head(todo)], m_operator_matrix[Head(todo)])]
  /\ todo' = m_children[Head(todo)] \o Tail(todo)
  /\ UNCHANGED graph

-----------------------------------------------------------------------------
(* The calls.  A constructor visits only the node itself: it has no children. *)

Idle == todo = <<>>

Construct(n, p, op) ==
  /\ n \in Nodes \ born
  /\ born' = born \cup {n}
  /\ alive' = alive \cup {n}
  /\ m_parent' = [m_parent EXCEPT ![n] = p]
  /\ m_operator_matrix' = [m_operator_matrix EXCEPT ![n] = op]
  /\ m_matrix' = [m_matrix EXCEPT ![n] = Product(p, op)]

\* SceneGraph(parent, operator_matrix): the parent does not learn of the child.
New(n, p, op) ==
  /\ Idle
  /\ p \in alive \cup {None}
  /\ Construct(n, p, op)
  /\ held' = held \cup {n}
  /\ UNCHANGED <<m_children, todo>>

\* Mutant: the new child is computed but the parent does not keep it in order
\* to recalculate it, and owns another reference to itself instead.
AddChildToSelf(p, n, op) ==
  /\ Idle
  /\ p \in alive
  /\ Construct(n, p, op)
  /\ m_children' = [m_children EXCEPT ![p] = Append(@, p)]
  /\ todo' = <<p>>
  /\ UNCHANGED held

AddChild(p, n, op) ==
  /\ Idle
  /\ p \in alive
  /\ Construct(n, p, op)
  /\ m_children' = [m_children EXCEPT ![p] = Append(@, n)]
  /\ todo' = <<p>>
  /\ UNCHANGED held

\* setParent moves no entry between the parents' m_children.
SetParent(n, p) ==
  /\ Idle
  /\ n \in alive /\ p \in alive \cup {None}
  /\ m_parent' = [m_parent EXCEPT ![n] = p]
  /\ todo' = <<n>>
  /\ UNCHANGED <<born, alive, held, m_children, m_operator_matrix, m_matrix>>

ChangeMatrix(n, op) ==
  /\ Idle
  /\ n \in alive
  /\ m_operator_matrix' = [m_operator_matrix EXCEPT ![n] = op]
  /\ todo' = <<n>>
  /\ UNCHANGED <<born, alive, held, m_parent, m_children, m_matrix>>

\* Locking the weak_ptr of a child makes the application one of its owners.
Hold(n) ==
  /\ Idle
  /\ n \in alive \ held
  /\ held' = held \cup {n}
  /\ UNCHANGED <<born, alive, m_parent, m_children, m_operator_matrix, m_matrix, todo>>

\* Mutant: a node dies with its last parent although the application owns it.
OwnedByParents(h, s) ==
  /\ \A n \in s : Range(m_children[n]) \subseteq s
  /\ \A n \in s \ h : \E p \in s : n \in Range(m_children[p])

\* What is left when the application owns the nodes of h: those, and all that
\* are in m_children of a node that is left.
Owned(h, s) ==
  /\ h \subseteq s
  /\ \A n \in s : Range(m_children[n]) \subseteq s
  /\ \A n \in s \ h : \E p \in s : n \in Range(m_children[p])

\* The members of the nodes of s; those of the others are gone.
Kept(f, s, unset) == [n \in Nodes |-> IF n \in s THEN f[n] ELSE unset]

Release(n) ==
  /\ Idle
  /\ n \in held
  /\ held' = held \ {n}
  /\ \E s \in SUBSET alive :
       /\ Owned(held', s)
       /\ alive' = s
       /\ m_parent' = Kept(m_parent, s, None)
       /\ m_children' = Kept(m_children, s, <<>>)
       /\ m_operator_matrix' = Kept(m_operator_matrix, s, Unset)
       /\ m_matrix' = Kept(m_matrix, s, Unset)
  /\ UNCHANGED <<born, todo>>

-----------------------------------------------------------------------------
Next ==
  \/ Recalculate
  \/ \E n \in Nodes, p \in Nodes \cup {None}, op \in Operators : New(n, p, op)
  \/ \E p, n \in Nodes, op \in Operators : AddChild(p, n, op)
  \/ \E n \in Nodes, p \in Nodes \cup {None} : SetParent(n, p)
  \/ \E n \in Nodes, op \in Operators : ChangeMatrix(n, op)
  \/ \E n \in Nodes : Hold(n) \/ Release(n)

Spec == Init /\ [][Next]_vars

-----------------------------------------------------------------------------
(* Properties *)

\* The documentation of getMatrix(): the ancestor's matrix times the operator.
UpToDate(n) == m_matrix[n] = Product(m_parent[n], m_operator_matrix[n])

\* Nodes whose parent, if any, is there and counts them among its children.
Linked(n) == \/ m_parent[n] = None
             \/ m_parent[n] \in alive /\ n \in Range(m_children[m_parent[n]])

\* In the midst of a call only nodes the call has still to visit are stale.
StaleIsPending == \A n \in alive : Linked(n) => UpToDate(n) \/ n \in Range(todo)

\* Once a call has returned, getMatrix() of a node that was created by
\* addChild and not moved away is the product the documentation promises.
LinkedUpToDate == Idle => \A n \in alive : Linked(n) => UpToDate(n)

\* The nodes that are linked to a root over k - 1 others.
Attached(k) ==
  LET f[i \in 0..k] == {n \in alive : Linked(n) /\ IF i = 0 THEN m_parent[n] = None
                                                   ELSE m_parent[n] \in f[i - 1]}
  IN f[k]

\* The product of the operators on the path down to n, from a root k nodes above.
PathProduct(n, k) ==
  LET f[i \in 0..k] == [m \in Nodes |->
        IF i = 0 \/ m_parent[m] = None THEN m_operator_matrix[m]
        ELSE Mul(f[i - 1][m_parent[m]], m_operator_matrix[m])]
  IN f[k][n]

\* The scene graph test (tests/gawo/scenegraphtest.cpp) for every tree: the
\* matrix of a node is the product of the operators on the path to its root.
MatrixIsPathProduct ==
  Idle => \A k \in 0..(Cardinality(Nodes) - 1) : \A n \in Attached(k) : m_matrix[n] = PathProduct(n, k)

\* The nodes m_children reaches from n, in at most k steps.
Below(n, k) ==
  LET f[i \in 0..k] == IF i = 0 THEN {n}
                       ELSE f[i - 1] \cup UNION {Range(m_children[m]) : m \in f[i - 1]}
  IN f[k]

\* A node is a child once, of one node, and not of itself or of a node below
\* it: recalculate() visits every node at most once and ownership has no cycle.
ChildrenFormForest ==
  /\ \A p \in born : IsInjective(m_children[p])
  /\ \A p, q \in born : p # q => Range(m_children[p]) \cap Range(m_children[q]) = {}
  /\ \A p \in born : \A c \in Range(m_children[p]) : p \notin Below(c, Cardinality(Nodes))

\* What scenegraph.hpp says of getMatrix(), for the nodes right below a root:
\* "getMatrix returns ancestor.getMatrix() * Operatormatrix".
DocGetMatrix ==
  Idle => \A n \in alive :
            m_parent[n] \in alive /\ m_parent[m_parent[n]] = None =>
              m_matrix[n] = Mul(m_matrix[m_parent[n]], m_operator_matrix[n])
=============================================================================
