---------------------------- MODULE GraphProofs ----------------------------
(* Proofs about SceneGraph for any number of nodes and any matrices: the      *)
(* recursion of recalculate() leaves no node stale that addChild created, and *)
(* the children form a forest.  And about Sprites for any number of sprites:  *)
(* all that renderers and sprites do to the graph are calls of the graph, and *)
(* the matrices that are drawn are those of the fields.                       *)
EXTENDS Sprites, SequenceFacts, FiniteSetTheorems

USE NoneAssumption, MatrixAssumption

LEMMA UnsetIsMatrix == Unset \in Matrices
BY DEF Unset

LEMMA ProductIsMatrix ==
  ASSUME TypeOK, NEW p \in Nodes \cup {None}, NEW op \in Matrices
  PROVE  Product(p, op) \in Matrices
<1>1. p \in alive => m_matrix[p] \in Matrices BY DEF TypeOK
<1>2. QED BY <1>1 DEF Product

LEMMA TypeInit == Init => TypeOK
<1> SUFFICES ASSUME Init PROVE TypeOK
  OBVIOUS
<1>1. <<>> \in Seq(Nodes) BY EmptySeq
<1>2. QED BY <1>1, UnsetIsMatrix DEF Init, TypeOK

LEMMA TypeStep ==
  ASSUME TypeOK, [Next]_vars
  PROVE  TypeOK'
<1> USE DEF TypeOK
<1>1. ASSUME Recalculate PROVE TypeOK'
  <2>1. Head(todo) \in Nodes /\ Tail(todo) \in Seq(Nodes)
    BY <1>1, HeadTailProperties DEF Recalculate
  <2>2. m_children[Head(todo)] \o Tail(todo) \in Seq(Nodes)
    BY <2>1, ConcatProperties
  <2>3. Product(m_parent[Head(todo)], m_operator_matrix[Head(todo)]) \in Matrices
    BY <2>1, ProductIsMatrix
  <2>4. QED BY <1>1, <2>1, <2>2, <2>3 DEF Recalculate, graph
<1>2. ASSUME NEW n \in Nodes, NEW p \in Nodes \cup {None}, NEW op \in Operators,
             New(n, p, op)
      PROVE  TypeOK'
  <2>1. Product(p, op) \in Matrices BY ProductIsMatrix
  <2>2. QED BY <1>2, <2>1 DEF New, Construct
<1>3. ASSUME NEW p \in Nodes, NEW n \in Nodes, NEW op \in Operators, AddChild(p, n, op)
      PROVE  TypeOK'
  <2>1. Product(p, op) \in Matrices BY ProductIsMatrix
  <2>2. Append(m_children[p], n) \in Seq(Nodes) BY AppendProperties
  <2>3. <<p>> \in Seq(Nodes) OBVIOUS
  <2>4. QED BY <1>3, <2>1, <2>2, <2>3 DEF AddChild, Construct
<1>4. ASSUME NEW n \in Nodes, NEW p \in Nodes \cup {None}, SetParent(n, p)
      PROVE  TypeOK'
  <2>1. <<n>> \in Seq(Nodes) OBVIOUS
  <2>2. QED BY <1>4, <2>1 DEF SetParent
<1>5. ASSUME NEW n \in Nodes, NEW op \in Operators, ChangeMatrix(n, op)
      PROVE  TypeOK'
  <2>1. <<n>> \in Seq(Nodes) OBVIOUS
  <2>2. QED BY <1>5, <2>1 DEF ChangeMatrix
<1>6. ASSUME NEW n \in Nodes, Hold(n) PROVE TypeOK'
  BY <1>6 DEF Hold
<1>7. ASSUME NEW n \in Nodes, Release(n) PROVE TypeOK'
  <2>1. PICK s \in SUBSET alive :
          /\ Owned(held', s)
          /\ alive' = s
          /\ m_parent' = Kept(m_parent, s, None)
          /\ m_children' = Kept(m_children, s, <<>>)
          /\ m_operator_matrix' = Kept(m_operator_matrix, s, Unset)
          /\ m_matrix' = Kept(m_matrix, s, Unset)
    BY <1>7 DEF Release
  <2>2. held' \subseteq alive' BY <2>1 DEF Owned
  <2>3. <<>> \in Seq(Nodes) BY EmptySeq
  <2>4. /\ m_parent' \in [Nodes -> Nodes \cup {None}]
        /\ m_children' \in [Nodes -> Seq(Nodes)]
        /\ m_operator_matrix' \in [Nodes -> Matrices]
        /\ m_matrix' \in [Nodes -> Matrices]
    BY <2>1, <2>3, UnsetIsMatrix DEF Kept
  <2>5. QED BY <1>7, <2>1, <2>2, <2>4 DEF Release
<1>8. ASSUME UNCHANGED vars PROVE TypeOK'
  BY <1>8 DEF vars
<1>9. QED BY <1>1, <1>2, <1>3, <1>4, <1>5, <1>6, <1>7, <1>8 DEF Next

\* Calls keep the graph well typed; a node the application holds stays alive.
THEOREM TypeCorrect == Spec => []TypeOK
BY TypeInit, TypeStep, PTL DEF Spec

-----------------------------------------------------------------------------
(* No node is stale unless the call that made it stale has still to visit it *)

\* An identity that was not constructed yet is nobody's parent.
ParentBorn == \A n \in Nodes : m_parent[n] \in born \cup {None}

LEMMA ParentBornStep ==
  ASSUME TypeOK, ParentBorn, [Next]_vars
  PROVE  ParentBorn'
<1> USE DEF TypeOK, ParentBorn
<1>1. ASSUME Recalculate PROVE ParentBorn'
  BY <1>1 DEF Recalculate, graph
<1>2. ASSUME NEW n \in Nodes, NEW p \in Nodes \cup {None}, NEW op \in Operators,
             New(n, p, op) \/ (p \in Nodes /\ AddChild(p, n, op))
      PROVE  ParentBorn'
  <2>1. p \in born \cup {None} /\ Construct(n, p, op)
    BY <1>2 DEF New, AddChild
  <2>2. QED BY <2>1 DEF Construct
<1>3. ASSUME NEW n \in Nodes, NEW p \in Nodes \cup {None}, SetParent(n, p)
      PROVE  ParentBorn'
  BY <1>3 DEF SetParent
<1>4. ASSUME NEW n \in Nodes, NEW op \in Operators, ChangeMatrix(n, op)
      PROVE  ParentBorn'
  BY <1>4 DEF ChangeMatrix
<1>5. ASSUME NEW n \in Nodes, Release(n) PROVE ParentBorn'
  BY <1>5 DEF Release, Kept
<1>6. ASSUME NEW n \in Nodes, Hold(n) PROVE ParentBorn'
  BY <1>6 DEF Hold
<1>7. ASSUME UNCHANGED vars PROVE ParentBorn'
  BY <1>7 DEF vars
<1>8. QED BY <1>1, <1>2, <1>3, <1>4, <1>5, <1>6, <1>7 DEF Next

\* A node stays up to date while its own members and its parent's are kept.
LEMMA StaysUpToDate ==
  ASSUME NEW n \in Nodes, UpToDate(n),
         m_parent'[n] = m_parent[n], m_operator_matrix'[n] = m_operator_matrix[n],
         m_matrix'[n] = m_matrix[n],
         m_parent[n] \in alive' <=> m_parent[n] \in alive,
         m_parent[n] \in alive => m_matrix'[m_parent[n]] = m_matrix[m_parent[n]]
  PROVE  UpToDate(n)'
BY DEF UpToDate, Product

LEMMA RecalculateKeeps ==
  ASSUME TypeOK, StaleIsPending, Recalculate
  PROVE  StaleIsPending'
<1> USE DEF TypeOK
<1> DEFINE h == Head(todo)
<1>1. h \in Nodes /\ Tail(todo) \in Seq(Nodes) /\ Range(todo) = {h} \cup Range(Tail(todo))
  BY TakeFirst DEF Recalculate
<1>2. Range(todo') = Range(m_children[h]) \cup Range(Tail(todo))
  <2>1. m_children[h] \in Seq(Nodes) BY <1>1
  <2>2. todo' = m_children[h] \o Tail(todo) BY DEF Recalculate
  <2> HIDE DEF h
  <2>3. \A s, t \in Seq(Nodes) : Range(s \o t) = Range(s) \cup Range(t)
    BY RangeConcatenation
  <2>4. Range(m_children[h] \o Tail(todo)) = Range(m_children[h]) \cup Range(Tail(todo))
    BY <1>1, <2>1, <2>3
  <2>5. QED BY <2>2, <2>4
<1>3. /\ m_matrix' = [m_matrix EXCEPT ![h] = Product(m_parent[h], m_operator_matrix[h])]
      /\ alive' = alive /\ m_parent' = m_parent /\ m_children' = m_children
      /\ m_operator_matrix' = m_operator_matrix
  BY DEF Recalculate, graph
<1> HIDE DEF h
<1>4. SUFFICES ASSUME NEW n \in alive, Linked(n), n \notin Range(todo')
               PROVE  UpToDate(n)'
  BY <1>3 DEF StaleIsPending, Linked
<1>5. m_parent[n] # h \/ h \notin alive
  BY <1>2, <1>4, NoneAssumption, <1>1 DEF Linked
<1>6. m_parent[n] \in alive => m_matrix'[m_parent[n]] = m_matrix[m_parent[n]]
  BY <1>1, <1>3, <1>5
<1>7. CASE n = h
  <2>1. m_matrix'[n] = Product(m_parent[n], m_operator_matrix[n])
    BY <1>1, <1>3, <1>7
  <2>2. QED BY <1>3, <1>6, <2>1 DEF UpToDate, Product
<1>8. CASE n # h
  <2>1. n \notin Range(todo) BY <1>1, <1>2, <1>4, <1>8
  <2>2. UpToDate(n) BY <2>1, <1>4 DEF StaleIsPending
  <2>3. n \in Nodes /\ m_matrix'[n] = m_matrix[n] BY <1>3, <1>8
  <2>4. QED BY <1>3, <1>6, <2>2, <2>3, StaysUpToDate
<1>9. QED BY <1>7, <1>8

LEMMA ConstructKeeps ==
  ASSUME TypeOK, StaleIsPending, ParentBorn, Idle,
         NEW c \in Nodes, NEW p \in alive \cup {None}, NEW op \in Operators,
         Construct(c, p, op),
         \/ m_children' = m_children /\ todo' = <<>>
         \/ /\ p # None
            /\ m_children' = [m_children EXCEPT ![p] = Append(m_children[p], c)]
            /\ todo' = <<p>>
  PROVE  StaleIsPending'
<1> USE DEF TypeOK
<1>1. c \notin born /\ alive' = alive \cup {c} /\ c \notin alive
  BY DEF Construct
<1>2. \A n \in Nodes \ {c} :
        /\ m_parent'[n] = m_parent[n] /\ m_operator_matrix'[n] = m_operator_matrix[n]
        /\ m_matrix'[n] = m_matrix[n] /\ m_parent[n] # c
  BY <1>1, NoneAssumption DEF Construct, ParentBorn
<1>3. SUFFICES ASSUME NEW n \in alive', Linked(n)' PROVE UpToDate(n)'
  BY DEF StaleIsPending
<1>4. CASE n = c
  <2>1. m_parent'[c] = p /\ m_operator_matrix'[c] = op /\ m_matrix'[c] = Product(p, op)
    BY DEF Construct
  <2>2. p # c /\ (p \in alive => m_matrix'[p] = m_matrix[p])
    BY <1>1, <1>2, NoneAssumption
  <2>3. QED BY <1>1, <1>4, <2>1, <2>2 DEF UpToDate, Product
<1>5. CASE n # c
  <2>1. n \in alive /\ n \in Nodes /\ m_parent'[n] = m_parent[n] /\ m_parent[n] # c
    BY <1>1, <1>2, <1>5
  <2>2. ASSUME m_parent[n] # None
        PROVE  m_parent[n] \in alive /\ n \in Range(m_children[m_parent[n]])
    <3>1. m_parent[n] \in alive /\ n \in Range(m_children'[m_parent[n]])
      BY <1>1, <1>3, <2>1, <2>2 DEF Linked
    <3>2. m_children[m_parent[n]] \in Seq(Nodes) BY <3>1
    <3>3. Range(Append(m_children[m_parent[n]], c)) = Range(m_children[m_parent[n]]) \cup {c}
      BY <3>2, AppendFacts
    <3>4. \/ m_children'[m_parent[n]] = m_children[m_parent[n]]
          \/ m_children'[m_parent[n]] = Append(m_children[m_parent[n]], c)
      BY <3>1
    <3>5. n \in Range(m_children[m_parent[n]]) BY <3>1, <3>3, <3>4, <1>5
    <3>6. QED BY <3>1, <3>5
  <2>4. Linked(n) BY <2>2 DEF Linked
  <2>5. Range(todo) = {} BY DEF Idle, Range
  <2>6. UpToDate(n) BY <2>1, <2>4, <2>5 DEF StaleIsPending
  <2>7. /\ m_operator_matrix'[n] = m_operator_matrix[n] /\ m_matrix'[n] = m_matrix[n]
        /\ m_parent[n] \in alive' <=> m_parent[n] \in alive
    BY <1>1, <1>2, <1>5, <2>1
  <2>8. m_parent[n] \in alive => m_matrix'[m_parent[n]] = m_matrix[m_parent[n]]
    BY <1>2, <2>1
  <2>9. QED BY <2>1, <2>6, <2>7, <2>8, StaysUpToDate
<1>6. QED BY <1>4, <1>5

LEMMA ReleaseKeeps ==
  ASSUME TypeOK, StaleIsPending, NEW r \in Nodes, Release(r)
  PROVE  StaleIsPending'
<1> USE DEF TypeOK
<1>1. PICK s \in SUBSET alive :
        /\ alive' = s
        /\ m_parent' = Kept(m_parent, s, None)
        /\ m_children' = Kept(m_children, s, <<>>)
        /\ m_operator_matrix' = Kept(m_operator_matrix, s, Unset)
        /\ m_matrix' = Kept(m_matrix, s, Unset)
  BY DEF Release
<1>2. todo' = todo BY DEF Release
<1>3. \A n \in s : /\ m_parent'[n] = m_parent[n] /\ m_children'[n] = m_children[n]
                   /\ m_operator_matrix'[n] = m_operator_matrix[n]
                   /\ m_matrix'[n] = m_matrix[n]
  BY <1>1 DEF Kept
<1>4. SUFFICES ASSUME NEW n \in s, Linked(n)'
               PROVE  UpToDate(n)' \/ n \in Range(todo)
  BY <1>1, <1>2 DEF StaleIsPending, Range
<1>5. n \in alive /\ n \in Nodes BY <1>1
<1>6. m_parent[n] = None \/ (m_parent[n] \in s /\ n \in Range(m_children[m_parent[n]]))
  <2>1. \/ m_parent'[n] = None
        \/ m_parent'[n] \in s /\ n \in Range(m_children'[m_parent'[n]])
    BY <1>1, <1>4 DEF Linked
  <2>2. m_parent'[n] = m_parent[n] BY <1>3
  <2>3. m_parent[n] \in s => m_children'[m_parent[n]] = m_children[m_parent[n]]
    BY <1>3
  <2>4. QED BY <2>1, <2>2, <2>3
<1>7. Linked(n) BY <1>1, <1>6 DEF Linked
<1>8. /\ m_parent[n] \in alive' <=> m_parent[n] \in alive
      /\ m_parent[n] \in alive => m_matrix'[m_parent[n]] = m_matrix[m_parent[n]]
  BY <1>1, <1>3, <1>6, NoneAssumption
<1>9. CASE UpToDate(n)
  BY <1>3, <1>5, <1>8, <1>9, StaysUpToDate
<1>10. QED BY <1>5, <1>7, <1>9 DEF StaleIsPending

LEMMA StaleStep ==
  ASSUME TypeOK, StaleIsPending, ParentBorn, [Next]_vars
  PROVE  StaleIsPending'
<1> USE DEF TypeOK
<1>1. CASE Recalculate BY <1>1, RecalculateKeeps
<1>2. ASSUME NEW n \in Nodes, NEW p \in Nodes \cup {None}, NEW op \in Operators, New(n, p, op)
      PROVE  StaleIsPending'
  <2>1. /\ Idle /\ Construct(n, p, op) /\ p \in alive \cup {None}
        /\ m_children' = m_children /\ todo' = <<>>
    BY <1>2 DEF New, Idle
  <2>2. QED BY <2>1, ConstructKeeps
<1>3. ASSUME NEW p \in Nodes, NEW n \in Nodes, NEW op \in Operators, AddChild(p, n, op)
      PROVE  StaleIsPending'
  <2>1. /\ Idle /\ Construct(n, p, op) /\ p \in alive /\ p # None
        /\ m_children' = [m_children EXCEPT ![p] = Append(m_children[p], n)]
        /\ todo' = <<p>>
    BY <1>3, NoneAssumption DEF AddChild
  <2>2. QED BY <2>1, ConstructKeeps
<1>4. ASSUME NEW c \in Nodes, NEW p \in Nodes \cup {None}, NEW op \in Operators,
             SetParent(c, p) \/ ChangeMatrix(c, op)
      PROVE  StaleIsPending'
  <2>1. Range(todo) = {} /\ Range(todo') = {c}
    BY <1>4 DEF SetParent, ChangeMatrix, Idle, Range
  <2>2. /\ alive' = alive /\ m_children' = m_children /\ m_matrix' = m_matrix
        /\ \A n \in Nodes \ {c} : /\ m_parent'[n] = m_parent[n]
                                  /\ m_operator_matrix'[n] = m_operator_matrix[n]
    BY <1>4 DEF SetParent, ChangeMatrix
  <2>3. SUFFICES ASSUME NEW n \in alive \ {c}, Linked(n)' PROVE UpToDate(n)'
    BY <2>1, <2>2 DEF StaleIsPending
  <2>4. Linked(n) BY <2>2, <2>3 DEF Linked
  <2>5. UpToDate(n) BY <2>1, <2>4 DEF StaleIsPending
  <2>6. QED BY <2>2, <2>5, StaysUpToDate
<1>5. ASSUME NEW n \in Nodes, Hold(n) PROVE StaleIsPending'
  BY <1>5 DEF Hold, StaleIsPending, Linked, UpToDate, Product
<1>6. ASSUME NEW n \in Nodes, Release(n) PROVE StaleIsPending'
  BY <1>6, ReleaseKeeps
<1>7. ASSUME UNCHANGED vars PROVE StaleIsPending'
  BY <1>7 DEF vars, StaleIsPending, Linked, UpToDate, Product
<1>8. QED BY <1>1, <1>2, <1>3, <1>4, <1>5, <1>6, <1>7 DEF Next

\* At every moment of every call, a stale node that addChild created and that
\* was not moved away is one the recursion has still to visit.
THEOREM OnlyPendingAreStale == Spec => []StaleIsPending
<1>1. Init => StaleIsPending /\ ParentBorn
  BY DEF Init, StaleIsPending, ParentBorn
<1>2. TypeOK /\ StaleIsPending /\ ParentBorn /\ [Next]_vars
        => StaleIsPending' /\ ParentBorn'
  BY StaleStep, ParentBornStep
<1>3. QED BY <1>1, <1>2, TypeCorrect, PTL DEF Spec

\* Hence getMatrix() returns the documented product between the calls.
THEOREM MatricesUpToDate == Spec => []LinkedUpToDate
<1>1. StaleIsPending => LinkedUpToDate
  BY DEF StaleIsPending, LinkedUpToDate, Idle, Range
<1>2. QED BY <1>1, OnlyPendingAreStale, PTL

-----------------------------------------------------------------------------
(* The children form a forest *)

\* A node has at most one place among the children, and only constructed nodes
\* have or are children.
ChildrenApart ==
  /\ \A p \in born : IsInjective(m_children[p])
  /\ \A p, q \in born : p # q => Range(m_children[p]) \cap Range(m_children[q]) = {}
  /\ \A p \in Nodes : Range(m_children[p]) \subseteq born
  /\ \A p \in Nodes \ born : m_children[p] = <<>>

\* A depth that grows from every node to its children, so that nothing is below
\* itself; nodes keep the one they are created with.
Ranked(rank) == \A p \in Nodes : \A c \in Range(m_children[p]) : rank[p] < rank[c]
HasRank == \E rank \in [Nodes -> Nat] : Ranked(rank)

ForestInv == ChildrenApart /\ HasRank

LEMMA NothingInRange == \A s : s = <<>> => Range(s) = {} /\ IsInjective(s)
<1>1. DOMAIN <<>> = {} OBVIOUS
<1>2. QED BY <1>1 DEF Range, IsInjective

LEMMA ForestInit == Init => ForestInv
<1> SUFFICES ASSUME Init PROVE ForestInv
  OBVIOUS
<1>1. \A p \in Nodes : m_children[p] = <<>> BY DEF Init
<1>2. \A p \in Nodes : Range(m_children[p]) = {} BY <1>1, NothingInRange
<1>3. ChildrenApart BY <1>1, <1>2 DEF Init, ChildrenApart
<1>4. HasRank
  <2>1. [n \in Nodes |-> 0] \in [Nodes -> Nat] OBVIOUS
  <2>2. Ranked([n \in Nodes |-> 0]) BY <1>2 DEF Ranked
  <2>3. QED BY <2>1, <2>2 DEF HasRank
<1>5. QED BY <1>3, <1>4 DEF ForestInv

\* addChild: the new node has no children and is nobody's child yet.
LEMMA AddChildKeepsForest ==
  ASSUME TypeOK, ForestInv, NEW p \in Nodes, NEW n \in Nodes, NEW op \in Operators,
         AddChild(p, n, op)
  PROVE  ForestInv'
<1> USE DEF TypeOK
<1>1. /\ p \in born /\ n \notin born /\ p # n
      /\ born' = born \cup {n}
      /\ m_children' = [m_children EXCEPT ![p] = Append(@, n)]
  BY DEF AddChild, Construct
<1>2. m_children[p] \in Seq(Nodes) OBVIOUS
<1>3. /\ Range(m_children'[p]) = Range(m_children[p]) \cup {n}
      /\ \A q \in Nodes \ {p} : m_children'[q] = m_children[q]
      /\ n \notin Range(m_children[p]) /\ IsInjective(m_children[p]) => IsInjective(m_children'[p])
  BY <1>1, <1>2, AppendFacts
<1>4. \A q \in Nodes : n \notin Range(m_children[q]) BY <1>1 DEF ForestInv, ChildrenApart
<1>5. m_children[n] = <<>> /\ Range(m_children[n]) = {} /\ IsInjective(m_children[n])
  BY <1>1, NothingInRange DEF ForestInv, ChildrenApart
<1>6. ChildrenApart'
  <2>1. ASSUME NEW q \in born' PROVE IsInjective(m_children'[q])
    BY <2>1, <1>1, <1>3, <1>4, <1>5 DEF ForestInv, ChildrenApart
  <2>2. ASSUME NEW q \in born', NEW r \in born', q # r
        PROVE  Range(m_children'[q]) \cap Range(m_children'[r]) = {}
    <3>1. \A x \in born' : Range(m_children'[x]) \subseteq Range(m_children[x]) \cup {n}
      BY <1>1, <1>3
    <3>2. \A x \in born' : n \in Range(m_children'[x]) => x = p
      BY <1>1, <1>3, <1>4
    <3>3. Range(m_children[q]) \cap Range(m_children[r]) = {}
      BY <2>2, <1>1, <1>5 DEF ForestInv, ChildrenApart
    <3>4. QED BY <3>1, <3>2, <3>3, <2>2
  <2>3. ASSUME NEW q \in Nodes PROVE Range(m_children'[q]) \subseteq born'
    BY <1>1, <1>3 DEF ForestInv, ChildrenApart
  <2>4. ASSUME NEW q \in Nodes \ born' PROVE m_children'[q] = <<>>
    BY <1>1, <1>3 DEF ForestInv, ChildrenApart
  <2>5. QED BY <2>1, <2>2, <2>3, <2>4 DEF ChildrenApart
<1>7. HasRank'
  <2>1. PICK rank \in [Nodes -> Nat] : Ranked(rank) BY DEF ForestInv, HasRank
  <2> DEFINE new == [rank EXCEPT ![n] = rank[p] + 1]
  <2>2. new \in [Nodes -> Nat] OBVIOUS
  <2>3. ASSUME NEW q \in Nodes, NEW c \in Range(m_children'[q]) PROVE new[q] < new[c]
    <3>1. CASE c = n
      <4>1. q = p BY <3>1, <2>3, <1>3, <1>4
      <4>2. QED BY <4>1, <3>1, <1>1
    <3>2. CASE c # n
      <4>1. c \in Range(m_children[q]) BY <3>2, <2>3, <1>3
      <4>2. q # n /\ c \in Nodes BY <4>1, <1>5 DEF ForestInv, ChildrenApart
      <4>3. rank[q] < rank[c] BY <4>1, <2>1 DEF Ranked
      <4>4. QED BY <4>2, <4>3, <3>2
    <3>3. QED BY <3>1, <3>2
  <2> HIDE DEF new
  <2>4. Ranked(new)' BY <2>3 DEF Ranked
  <2>5. QED BY <2>2, <2>4 DEF HasRank
<1>8. QED BY <1>6, <1>7 DEF ForestInv

LEMMA ForestStep ==
  ASSUME TypeOK, ForestInv, [Next]_vars
  PROVE  ForestInv'
<1> USE DEF TypeOK
<1>1. ASSUME UNCHANGED m_children, born \subseteq born', born' \subseteq Nodes PROVE ForestInv'
  <2>1. \A p \in Nodes \ born : Range(m_children[p]) = {} /\ IsInjective(m_children[p])
    BY NothingInRange DEF ForestInv, ChildrenApart
  <2>2. ChildrenApart' BY <1>1, <2>1 DEF ForestInv, ChildrenApart
  <2>3. HasRank' BY <1>1 DEF ForestInv, HasRank, Ranked
  <2>4. QED BY <2>2, <2>3 DEF ForestInv
<1>2. ASSUME NEW n \in Nodes, Release(n) PROVE ForestInv'
  <2>1. PICK s \in SUBSET alive : m_children' = Kept(m_children, s, <<>>)
    BY <1>2 DEF Release
  <2>2. born' = born BY <1>2 DEF Release
  <2>3. \A p \in Nodes : m_children'[p] = m_children[p] \/ m_children'[p] = <<>>
    BY <2>1 DEF Kept
  <2>4. \A p \in Nodes : m_children'[p] = m_children[p] \/
                         (Range(m_children'[p]) = {} /\ IsInjective(m_children'[p]))
    BY <2>3, NothingInRange
  <2>5. ChildrenApart'
    <3>1. \A p \in born : IsInjective(m_children'[p])
      BY <2>4 DEF ForestInv, ChildrenApart
    <3>2. \A p \in Nodes : Range(m_children'[p]) \subseteq Range(m_children[p])
      BY <2>4
    <3>3. \A p, q \in born : p # q => Range(m_children[p]) \cap Range(m_children[q]) = {}
      BY DEF ForestInv, ChildrenApart
    <3>4. \A p, q \in born : p # q => Range(m_children'[p]) \cap Range(m_children'[q]) = {}
      BY <3>2, <3>3
    <3>5. \A p \in Nodes : Range(m_children'[p]) \subseteq born
      BY <3>2 DEF ForestInv, ChildrenApart
    <3>6. \A p \in Nodes \ born : m_children'[p] = <<>>
      BY <2>3 DEF ForestInv, ChildrenApart
    <3>7. QED BY <3>1, <3>4, <3>5, <3>6, <2>2 DEF ChildrenApart
  <2>6. HasRank' BY <2>4 DEF ForestInv, HasRank, Ranked
  <2>7. QED BY <2>5, <2>6 DEF ForestInv
<1>3. ASSUME NEW n \in Nodes, NEW p \in Nodes \cup {None}, NEW op \in Operators, New(n, p, op)
      PROVE  ForestInv'
  BY <1>1, <1>3 DEF New, Construct
<1>4. ASSUME NEW n \in Nodes, NEW p \in Nodes \cup {None},
             SetParent(n, p) \/ Hold(n) \/ \E op \in Operators : ChangeMatrix(n, op)
      PROVE  ForestInv'
  BY <1>1, <1>4 DEF SetParent, Hold, ChangeMatrix
<1>5. ASSUME Recalculate \/ UNCHANGED vars PROVE ForestInv'
  BY <1>1, <1>5 DEF Recalculate, graph, vars
<1>6. QED BY <1>2, <1>3, <1>4, <1>5, AddChildKeepsForest DEF Next

LEMMA BelowFacts ==
  ASSUME TypeOK, NEW n \in Nodes, NEW k \in Nat
  PROVE  \E g \in [0..k -> SUBSET Nodes] :
           /\ g[0] = {n}
           /\ \A i \in 1..k : g[i] = g[i - 1] \cup UNION {Range(m_children[m]) : m \in g[i - 1]}
           /\ Below(n, k) = g[k]
<1> DEFINE F == [v \in SUBSET Nodes |-> v \cup UNION {Range(m_children[m]) : m \in v}]
<1>1. \A m \in Nodes : Range(m_children[m]) \subseteq Nodes
  BY RangeOfSeq DEF TypeOK
<1>2. F \in [SUBSET Nodes -> SUBSET Nodes] BY <1>1
<1>3. \A v \in SUBSET Nodes : F[v] = v \cup UNION {Range(m_children[m]) : m \in v} OBVIOUS
<1> HIDE DEF F
<1>4. PICK h \in [0..k -> SUBSET Nodes] : h[0] = {n} /\ \A i \in 1..k : h[i] = F[h[i - 1]]
  <2>1. {n} \in SUBSET Nodes OBVIOUS
  <2>2. Iterates(F, {n}, SUBSET Nodes, k) # {} BY <1>2, <2>1, IteratesExist
  <2>3. QED BY <2>2 DEF Iterates
<1> DEFINE Step(g, i) == IF i = 0 THEN {n}
                         ELSE g[i - 1] \cup UNION {Range(m_children[m]) : m \in g[i - 1]}
           f[i \in 0..k] == IF i = 0 THEN {n}
                            ELSE f[i - 1] \cup UNION {Range(m_children[m]) : m \in f[i - 1]}
<1>5. h = [i \in 0..k |-> Step(h, i)]
  <2>1. ASSUME NEW i \in 0..k PROVE h[i] = Step(h, i)
    <3>1. CASE i = 0 BY <3>1, <1>4
    <3>2. CASE i # 0
      <4>1. i \in 1..k /\ i - 1 \in 0..k BY <3>2
      <4>2. h[i - 1] \in SUBSET Nodes BY <4>1, <1>4
      <4>3. QED BY <4>1, <4>2, <1>3, <1>4, <3>2
    <3>3. QED BY <3>1, <3>2
  <2> HIDE DEF Step
  <2>2. QED BY <2>1, <1>4
<1>6. f = [i \in 0..k |-> Step(f, i)] BY <1>5
<1>7. Below(n, k) = f[k] BY DEF Below
<1> HIDE DEF f
<1>8. f \in [0..k -> SUBSET Nodes]
  <2> DEFINE G(j) == j \in 0..k => f[j] \in SUBSET Nodes
             S == {j \in Nat : G(j)}
  <2>1. 0 \in S
    <3>1. f[0] = {n} BY <1>6
    <3>2. QED BY <3>1
  <2>2. ASSUME NEW j \in Nat, j \in S PROVE j + 1 \in S
    <3>1. SUFFICES ASSUME j + 1 \in 0..k PROVE f[j + 1] \in SUBSET Nodes
      OBVIOUS
    <3>2. j \in 0..k /\ f[j] \in SUBSET Nodes BY <3>1, <2>2
    <3>3. f[j + 1] = Step(f, j + 1) BY <3>1, <1>6
    <3>4. f[j + 1] = f[j] \cup UNION {Range(m_children[m]) : m \in f[j]} BY <3>3
    <3>5. QED BY <3>2, <3>4, <1>1
  <2> HIDE DEF S
  <2>3. Nat \subseteq S BY <2>1, <2>2, AllNumbers
  <2>4. \A j \in 0..k : f[j] \in SUBSET Nodes BY <2>3 DEF S
  <2>5. QED BY <2>4, <1>6
<1>9. \A i \in 1..k : f[i] = f[i - 1] \cup UNION {Range(m_children[m]) : m \in f[i - 1]}
  BY <1>6
<1>10. f[0] = {n} BY <1>6
<1>11. QED BY <1>7, <1>8, <1>9, <1>10

LEMMA BelowIsDeeper ==
  ASSUME TypeOK, NEW rank \in [Nodes -> Nat], Ranked(rank), NEW n \in Nodes, NEW k \in Nat
  PROVE  \A m \in Below(n, k) : m \in Nodes /\ rank[n] <= rank[m]
<1>1. PICK g \in [0..k -> SUBSET Nodes] :
        /\ g[0] = {n}
        /\ \A i \in 1..k : g[i] = g[i - 1] \cup UNION {Range(m_children[m]) : m \in g[i - 1]}
        /\ Below(n, k) = g[k]
  BY BelowFacts
<1> DEFINE S == {j \in Nat : j \in 0..k => \A m \in g[j] : rank[n] <= rank[m]}
<1>2. 0 \in S BY <1>1
<1>3. ASSUME NEW j \in Nat, j \in S PROVE j + 1 \in S
  <2>1. SUFFICES ASSUME j + 1 \in 0..k, NEW m \in g[j + 1] PROVE rank[n] <= rank[m]
    OBVIOUS
  <2>2. j \in 0..k /\ j + 1 \in 1..k BY <2>1
  <2>3. g[j + 1] = g[j] \cup UNION {Range(m_children[x]) : x \in g[j]}
    <3>1. (j + 1) - 1 = j OBVIOUS
    <3>2. QED BY <3>1, <2>2, <1>1
  <2>4. \A x \in g[j] : rank[n] <= rank[x] BY <1>3, <2>2
  <2>5. g[j] \subseteq Nodes /\ g[j + 1] \subseteq Nodes BY <2>1, <2>2, <1>1
  <2>6. CASE m \in g[j] BY <2>4, <2>6
  <2>7. CASE m \notin g[j]
    <3>1. PICK x \in g[j] : m \in Range(m_children[x]) BY <2>1, <2>3, <2>7
    <3>2. x \in Nodes /\ m \in Nodes BY <2>1, <2>5
    <3>3. rank[x] < rank[m] BY <3>1, <3>2 DEF Ranked
    <3>4. rank[n] \in Nat /\ rank[x] \in Nat /\ rank[m] \in Nat BY <3>2
    <3>5. QED BY <3>1, <3>3, <3>4, <2>4
  <2>8. QED BY <2>6, <2>7
<1> HIDE DEF S
<1>4. Nat \subseteq S BY <1>2, <1>3, AllNumbers
<1>5. k \in S BY <1>4
<1>6. QED BY <1>1, <1>5 DEF S

LEMMA NothingBelowItself ==
  ASSUME TypeOK, ForestInv, NEW p \in born, NEW c \in Range(m_children[p]), NEW k \in Nat
  PROVE  p \notin Below(c, k)
<1>1. PICK rank \in [Nodes -> Nat] : Ranked(rank) BY DEF ForestInv, HasRank
<1>2. p \in Nodes /\ c \in Nodes BY DEF TypeOK, ForestInv, ChildrenApart
<1>3. rank[p] < rank[c] BY <1>1, <1>2 DEF Ranked
<1>4. \A m \in Below(c, k) : rank[c] <= rank[m] BY <1>1, <1>2, BelowIsDeeper
<1>5. rank[p] \in Nat /\ rank[c] \in Nat BY <1>2
<1>6. QED BY <1>3, <1>4, <1>5

LEMMA ForestInvariant == Spec => [](TypeOK /\ ForestInv)
<1>1. TypeOK /\ ForestInv /\ [Next]_vars => ForestInv' BY ForestStep
<1>2. QED BY <1>1, ForestInit, TypeCorrect, PTL DEF Spec

\* Whatever calls are made, every node is a child once at most, and never below
\* itself.  How many steps it takes to look at all that is below a node is a
\* number only if the nodes are finitely many.
THEOREM ChildrenAreForest ==
  ASSUME IsFiniteSet(Nodes)
  PROVE  Spec => []ChildrenFormForest
<1>1. Cardinality(Nodes) \in Nat BY FS_CardinalityType
<1>2. TypeOK /\ ForestInv => ChildrenFormForest
  <2>1. ASSUME TypeOK, ForestInv PROVE ChildrenFormForest
    <3>1. \A p \in born : \A c \in Range(m_children[p]) : p \notin Below(c, Cardinality(Nodes))
      BY <2>1, <1>1, NothingBelowItself
    <3>2. QED BY <2>1, <3>1 DEF ForestInv, ChildrenApart, ChildrenFormForest
  <2>2. QED BY <2>1
<1>3. QED BY <1>2, ForestInvariant, PTL

-----------------------------------------------------------------------------
(* The matrix of a node is the product along its path                         *)

\* Attached and PathProduct are what their definitions say, step by step.
LEMMA AttachedFacts ==
  ASSUME NEW k \in Nat
  PROVE  \E a \in [0..k -> SUBSET alive] :
           /\ a[0] = {n \in alive : Linked(n) /\ m_parent[n] = None}
           /\ \A i \in 1..k : a[i] = {n \in alive : Linked(n) /\ m_parent[n] \in a[i - 1]}
           /\ Attached(k) = a[k]
<1> DEFINE V == SUBSET alive
           x == {n \in alive : Linked(n) /\ m_parent[n] = None}
           F == [v \in V |-> {n \in alive : Linked(n) /\ m_parent[n] \in v}]
           Step(g, i) == {n \in alive : Linked(n) /\ IF i = 0 THEN m_parent[n] = None
                                                     ELSE m_parent[n] \in g[i - 1]}
           f[i \in 0..k] == {n \in alive : Linked(n) /\ IF i = 0 THEN m_parent[n] = None
                                                        ELSE m_parent[n] \in f[i - 1]}
<1>1. F \in [V -> V] /\ x \in V /\ \A v \in V : F[v] = {n \in alive : Linked(n) /\ m_parent[n] \in v}
  OBVIOUS
<1> HIDE DEF F
<1>2. PICK h \in [0..k -> V] : h[0] = x /\ \A i \in 1..k : h[i] = F[h[i - 1]]
  <2> HIDE DEF V, x
  <2>1. Iterates(F, x, V, k) # {} BY <1>1, IteratesExist
  <2>2. QED BY <2>1 DEF Iterates
<1>3. h = [i \in 0..k |-> Step(h, i)]
  <2>1. ASSUME NEW i \in 0..k PROVE h[i] = Step(h, i)
    <3>1. CASE i = 0 BY <3>1, <1>2
    <3>2. CASE i # 0
      <4>1. i \in 1..k /\ i - 1 \in 0..k BY <3>2
      <4>2. h[i - 1] \in V BY <4>1, <1>2
      <4>3. QED BY <4>1, <4>2, <1>1, <1>2, <3>2
    <3>3. QED BY <3>1, <3>2
  <2> HIDE DEF Step
  <2>2. QED BY <2>1, <1>2
<1>4. f = [i \in 0..k |-> Step(f, i)] BY <1>3
<1>5. Attached(k) = f[k] BY DEF Attached
<1> HIDE DEF f
<1>6. \A i \in 0..k : f[i] = Step(f, i) BY <1>4
<1>7. f \in [0..k -> V] BY <1>4, <1>6
<1>8. f[0] = x /\ \A i \in 1..k : f[i] = {n \in alive : Linked(n) /\ m_parent[n] \in f[i - 1]} BY <1>6
<1>9. QED BY <1>5, <1>7, <1>8

LEMMA PathProductFacts ==
  ASSUME TypeOK, NEW k \in Nat
  PROVE  \E f \in [0..k -> [Nodes -> Matrices]] :
           /\ f[0] = m_operator_matrix
           /\ \A i \in 1..k : \A n \in Nodes :
                m_parent[n] # None => f[i][n] = Mul(f[i - 1][m_parent[n]], m_operator_matrix[n])
           /\ \A n : PathProduct(n, k) = f[k][n]
<1> DEFINE V == [Nodes -> Matrices]
           Deeper(g) == [m \in Nodes |-> IF m_parent[m] = None THEN m_operator_matrix[m]
                                         ELSE Mul(g[m_parent[m]], m_operator_matrix[m])]
           F == [g \in V |-> Deeper(g)]
           Step(g, i) == [m \in Nodes |-> IF i = 0 \/ m_parent[m] = None THEN m_operator_matrix[m]
                                          ELSE Mul(g[i - 1][m_parent[m]], m_operator_matrix[m])]
           f[i \in 0..k] == [m \in Nodes |-> IF i = 0 \/ m_parent[m] = None THEN m_operator_matrix[m]
                                             ELSE Mul(f[i - 1][m_parent[m]], m_operator_matrix[m])]
<1>1. m_operator_matrix \in V /\ \A g \in V : Deeper(g) \in V
  <2>1. ASSUME NEW g \in V, NEW m \in Nodes, m_parent[m] # None
        PROVE  Mul(g[m_parent[m]], m_operator_matrix[m]) \in Matrices
    <3>1. m_parent[m] \in Nodes BY <2>1 DEF TypeOK
    <3>2. g[m_parent[m]] \in Matrices /\ m_operator_matrix[m] \in Matrices BY <3>1 DEF TypeOK
    <3>3. QED BY <3>2, MatrixAssumption
  <2>2. QED BY <2>1 DEF TypeOK
<1>2. F \in [V -> V] /\ \A g \in V : F[g] = Deeper(g) BY <1>1
<1> HIDE DEF F
<1>3. PICK h \in [0..k -> V] : h[0] = m_operator_matrix /\ \A i \in 1..k : h[i] = F[h[i - 1]]
  <2> HIDE DEF V
  <2>1. Iterates(F, m_operator_matrix, V, k) # {} BY <1>1, <1>2, IteratesExist
  <2>2. QED BY <2>1 DEF Iterates
<1>4. \A g : Step(g, 0) = m_operator_matrix BY DEF TypeOK
<1>5. \A g, i : i # 0 => Step(g, i) = Deeper(g[i - 1]) OBVIOUS
<1>6. h = [i \in 0..k |-> Step(h, i)]
  <2> HIDE DEF Step, Deeper, V
  <2>1. ASSUME NEW i \in 0..k PROVE h[i] = Step(h, i)
    <3>1. CASE i = 0 BY <3>1, <1>3, <1>4
    <3>2. CASE i # 0
      <4>1. i \in 1..k /\ i - 1 \in 0..k BY <3>2
      <4>2. h[i - 1] \in V BY <4>1, <1>3
      <4>3. QED BY <4>1, <4>2, <1>2, <1>3, <1>5, <3>2
    <3>3. QED BY <3>1, <3>2
  <2>2. QED BY <2>1, <1>3
<1>7. f = [i \in 0..k |-> Step(f, i)] BY <1>6
<1>8. \A n : PathProduct(n, k) = f[k][n] BY DEF PathProduct
<1> HIDE DEF f
<1>9. \A i \in 0..k : f[i] = Step(f, i) BY <1>7
<1>10. f \in [0..k -> V]
  <2> HIDE DEF Step, Deeper, V
  <2> DEFINE S == {j \in Nat : j \in 0..k => f[j] \in V}
  <2>1. 0 \in S BY <1>1, <1>4, <1>9
  <2>2. ASSUME NEW j \in Nat, j \in S PROVE j + 1 \in S
    <3>1. SUFFICES ASSUME j + 1 \in 0..k PROVE f[j + 1] \in V
      OBVIOUS
    <3>2. j \in 0..k /\ f[j] \in V /\ (j + 1) - 1 = j /\ j + 1 # 0 BY <3>1, <2>2
    <3>3. f[j + 1] = Deeper(f[j]) BY <3>1, <3>2, <1>5, <1>9
    <3>4. QED BY <3>2, <3>3, <1>1
  <2> HIDE DEF S
  <2>3. Nat \subseteq S BY <2>1, <2>2, AllNumbers
  <2>4. \A j \in 0..k : f[j] \in V BY <2>3 DEF S
  <2>5. QED BY <2>4, <1>7
<1>11. f[0] = m_operator_matrix BY <1>4, <1>9
<1>12. \A i \in 1..k : \A n \in Nodes :
         m_parent[n] # None => f[i][n] = Mul(f[i - 1][m_parent[n]], m_operator_matrix[n])
  <2> TAKE i \in 1..k
  <2> TAKE n \in Nodes
  <2>1. f[i] = Deeper(f[i - 1]) BY <1>5, <1>9
  <2>2. QED BY <2>1
<1>13. QED BY <1>8, <1>10, <1>11, <1>12

\* From the root on down, node by node.
LEMMA PathIsProduct ==
  ASSUME TypeOK, StaleIsPending, Idle, NEW k \in Nat
  PROVE  \A n \in Attached(k) : m_matrix[n] = PathProduct(n, k)
<1>1. PICK a \in [0..k -> SUBSET alive] :
        /\ a[0] = {n \in alive : Linked(n) /\ m_parent[n] = None}
        /\ \A i \in 1..k : a[i] = {n \in alive : Linked(n) /\ m_parent[n] \in a[i - 1]}
        /\ Attached(k) = a[k]
  BY AttachedFacts
<1>2. PICK f \in [0..k -> [Nodes -> Matrices]] :
        /\ f[0] = m_operator_matrix
        /\ \A i \in 1..k : \A n \in Nodes :
             m_parent[n] # None => f[i][n] = Mul(f[i - 1][m_parent[n]], m_operator_matrix[n])
        /\ \A n : PathProduct(n, k) = f[k][n]
  BY PathProductFacts
<1>3. alive \subseteq Nodes /\ \A n \in alive : Linked(n) => UpToDate(n)
  BY DEF TypeOK, StaleIsPending, Idle, Range
<1> DEFINE S == {j \in Nat : j \in 0..k => \A n \in a[j] : m_matrix[n] = f[j][n]}
<1>4. 0 \in S
  <2>1. ASSUME NEW n \in a[0] PROVE m_matrix[n] = f[0][n]
    <3>1. n \in alive /\ Linked(n) /\ m_parent[n] = None BY <1>1
    <3>2. None \notin alive BY <1>3, NoneAssumption
    <3>3. UpToDate(n) BY <3>1, <1>3
    <3>4. QED BY <3>1, <3>2, <3>3, <1>2 DEF UpToDate, Product
  <2>2. QED BY <2>1
<1>5. ASSUME NEW j \in Nat, j \in S PROVE j + 1 \in S
  <2>1. SUFFICES ASSUME j + 1 \in 0..k, NEW n \in a[j + 1] PROVE m_matrix[n] = f[j + 1][n]
    OBVIOUS
  <2>2. j \in 0..k /\ j + 1 \in 1..k /\ (j + 1) - 1 = j BY <2>1
  <2>3. n \in alive /\ Linked(n) /\ m_parent[n] \in a[j] BY <2>1, <2>2, <1>1
  <2>4. m_parent[n] \in alive /\ m_parent[n] # None BY <2>2, <2>3, <1>1, <1>3, NoneAssumption
  <2>5. m_matrix[m_parent[n]] = f[j][m_parent[n]] BY <1>5, <2>2, <2>3
  <2>6. m_matrix[n] = Mul(m_matrix[m_parent[n]], m_operator_matrix[n])
    BY <2>3, <2>4, <1>3 DEF UpToDate, Product
  <2>7. f[j + 1][n] = Mul(f[j][m_parent[n]], m_operator_matrix[n])
    <3>1. n \in Nodes BY <2>3, <1>3
    <3>2. QED BY <2>2, <2>4, <3>1, <1>2
  <2>8. QED BY <2>5, <2>6, <2>7
<1> HIDE DEF S
<1>6. Nat \subseteq S BY <1>4, <1>5, AllNumbers
<1>7. k \in S /\ k \in 0..k BY <1>6
<1>8. QED BY <1>1, <1>2, <1>7 DEF S

\* Whenever no call runs, the matrix of a node that was created by addChild all the
\* way down from its root, and not moved, is the product of the operators on the way.
THEOREM MatrixIsProductOfPath == Spec => []MatrixIsPathProduct
<1>1. \A c : \A k \in 0..c : k \in Nat OBVIOUS
<1>2. TypeOK /\ StaleIsPending => MatrixIsPathProduct
  BY <1>1, PathIsProduct DEF MatrixIsPathProduct
<1>3. QED BY <1>2, TypeCorrect, OnlyPendingAreStale, PTL

-----------------------------------------------------------------------------
(* Sprites: the steps of renderers and sprites are calls of the graph         *)

USE SpriteAssumption

\* The node of a temporary is not the root of a renderer.
SpriteInv == SpriteTypeOK /\ (call.at = "temporary" => call.node.translation # m_rootnode)

\* A call of a constructor of Sprite can be told from that of a camera.
LEMMA SpriteCallCase ==
  ASSUME SpriteTypeOK,
         call.at \in {"temporary", "position", "scale"} \/ (call.at \in Stages /\ call.of \in Sprites)
  PROVE  call \in SpriteCalls
<1>1. call # Returned BY DEF Returned, Stages
<1>2. call \notin CameraCalls BY DEF CameraCalls, CameraStages
<1>3. QED BY <1>1, <1>2 DEF SpriteTypeOK

LEMMA SpriteInvInit == SpriteInit => SpriteInv
<1> SUFFICES ASSUME SpriteInit PROVE SpriteInv
  OBVIOUS
<1>1. TypeOK BY TypeInit DEF SpriteInit
<1>2. NoNodes \in Triples BY DEF NoNodes, Triples
<1>3. call.at # "temporary" BY DEF SpriteInit, Returned
<1>4. QED BY <1>1, <1>2, <1>3 DEF SpriteInit, SpriteInv, SpriteTypeOK, NoCamera, Cameras, Unbuilt

\* A write to a node is a call of the graph, or a throw.
LEMMA WriteStep ==
  ASSUME NEW n, TypeOK, NEW m \in Operators, Write(n, m)
  PROVE  [Next]_vars /\ held' = held
<1>1. CASE n \in alive
  <2>1. n \in Nodes /\ ChangeMatrix(n, m) BY <1>1 DEF Write, TypeOK
  <2>2. QED BY <2>1 DEF Next, ChangeMatrix
<1>2. CASE n \notin alive
  BY <1>2 DEF Write, vars
<1>3. QED BY <1>1, <1>2

\* So is the creation of a node, of an identity that is new.
LEMMA CreateStep ==
  ASSUME TypeOK, NEW m \in Operators,
         (\E p : AddChild(p, Fresh, m)) \/ New(Fresh, None, m)
  PROVE  /\ Next /\ Fresh \in Nodes \ born
         /\ held \subseteq held' /\ (New(Fresh, None, m) => Fresh \in held')
<1> USE DEF TypeOK
<1>1. ASSUME NEW p, AddChild(p, Fresh, m)
      PROVE  Next /\ Fresh \in Nodes \ born /\ held' = held
  <2>1. p \in Nodes /\ Fresh \in Nodes \ born /\ held' = held
    BY <1>1 DEF AddChild, Construct
  <2>2. QED BY <1>1, <2>1 DEF Next
<1>2. ASSUME New(Fresh, None, m)
      PROVE  Next /\ Fresh \in Nodes \ born /\ held' = held \cup {Fresh}
  <2>1. Fresh \in Nodes \ born /\ held' = held \cup {Fresh}
    BY <1>2 DEF New, Construct
  <2>2. QED BY <1>2, <2>1 DEF Next
<1>3. ~(\E p : AddChild(p, Fresh, m) /\ New(Fresh, None, m))
  <2>1. SUFFICES ASSUME NEW p, AddChild(p, Fresh, m), New(Fresh, None, m) PROVE FALSE
    OBVIOUS
  <2>2. Fresh \notin held /\ held' = held BY <1>1, <2>1
  <2>3. QED BY <1>2, <2>1, <2>2
<1>4. QED BY <1>1, <1>2, <1>3

\* What an action has to do to the members of renderers, sprites and calls.
MembersOK ==
  /\ m_rootnode \in held \cup {None} /\ m_size \in Sizes
  /\ camera \in Cameras
  /\ sprite \in [Sprites -> [built : BOOLEAN, m_parent : Sprites \cup {Nobody},
                             node : Triples, anchor : Nodes \cup {None},
                             position : Positions, size : Scales, turned : Operators]]
  /\ call \in {Returned} \cup SpriteCalls \cup CameraCalls
  /\ call.at = "temporary" => call.node.translation # m_rootnode

LEMMA SpriteInvParts == SpriteInv <=> TypeOK /\ MembersOK
BY DEF SpriteInv, SpriteTypeOK, MembersOK

LEMMA FreshTriples ==
  /\ NoNodes \in Triples
  /\ \A t \in Triples, n \in Nodes, f \in CameraStages : [t EXCEPT ![f] = n] \in Triples
BY DEF NoNodes, Triples, CameraStages

LEMMA ReturnedCall == /\ Returned.at \notin Stages \cup CameraStages
                      /\ \A c \in CameraCalls : c.at # "temporary"
BY DEF Returned, Stages, CameraStages, CameraCalls

LEMMA RendererStep ==
  ASSUME SpriteInv, Renderer
  PROVE  [Next]_vars /\ MembersOK'
<1> USE DEF MembersOK
<1>0. TypeOK /\ MembersOK BY SpriteInvParts
<1>1. ASSUME NEW at \in {Returned} \cup CameraCalls, NewRenderer(at)
      PROVE  [Next]_vars /\ MembersOK'
  <2>1. Projection(<<1, 1>>) \in Operators /\ <<1, 1>> \in Sizes OBVIOUS
  <2>2. New(Fresh, None, Projection(<<1, 1>>)) BY <1>1 DEF NewRenderer
  <2>3. Next /\ Fresh \in held' BY <1>0, <2>1, <2>2, CreateStep
  <2>4. NoCamera \in Cameras
    BY FreshTriples DEF NoCamera, Cameras
  <2>5. call'.at # "temporary" BY <1>1, ReturnedCall DEF NewRenderer, Stages
  <2>6. QED BY <1>0, <1>1, <2>1, <2>3, <2>4, <2>5 DEF NewRenderer
<1>2. ASSUME NEW field \in CameraStages, NEW p, NEW at \in {Returned} \cup CameraCalls,
             BuildCamera(field, p, at)
      PROVE  [Next]_vars /\ MembersOK'
  <2>1. AddChild(p, Fresh, Identity) BY <1>2 DEF BuildCamera
  <2>2. Next /\ Fresh \in Nodes /\ held \subseteq held' BY <1>0, <2>1, CreateStep
  <2>3. camera'.node = [camera.node EXCEPT ![field] = Fresh]
    BY <1>0, <1>2 DEF BuildCamera, Cameras, Triples, CameraStages
  <2>4. camera' \in Cameras
    BY <1>0, <1>2, <2>2, FreshTriples DEF BuildCamera, Cameras
  <2>5. call'.at # "temporary" BY <1>2, ReturnedCall DEF BuildCamera, Stages
  <2>6. QED BY <1>0, <1>2, <2>2, <2>4, <2>5 DEF BuildCamera
<1>3. ASSUME NEW size \in Sizes, Resize(size) PROVE [Next]_vars /\ MembersOK'
  <2>1. /\ m_rootnode \in Nodes /\ Projection(size) \in Operators
        /\ ChangeMatrix(m_rootnode, Projection(size)) /\ held' = held
    BY <1>0, <1>3 DEF Resize, ChangeMatrix, TypeOK
  <2>2. QED BY <1>0, <1>3, <2>1, ReturnedCall DEF Resize, Quiet, Stages, Next
<1>4. ASSUME Close PROVE [Next]_vars /\ MembersOK'
  <2>1. m_rootnode \in Nodes /\ Release(m_rootnode) BY <1>0, <1>4 DEF Close, TypeOK
  <2>2. QED BY <1>0, <1>4, <2>1, ReturnedCall DEF Close, Quiet, Stages, Next
<1>5. ASSUME NEW x \in Moves, NEW y \in Moves, Move(x, y) PROVE [Next]_vars /\ MembersOK'
  <2> DEFINE pos == <<camera.position[1] + x, camera.position[2] + y, 0>>
  <2>1. /\ pos \in Positions /\ Translation(pos) \in Operators
        /\ Write(camera.node.translation, Translation(pos))
        /\ camera' = [camera EXCEPT !.position = pos]
        /\ UNCHANGED <<m_rootnode, m_size, sprite, call>>
    BY <1>5 DEF Move
  <2> HIDE DEF pos
  <2>2. [Next]_vars /\ held' = held BY <1>0, <2>1, WriteStep
  <2>3. camera' \in Cameras BY <1>0, <2>1 DEF Cameras
  <2>4. QED BY <1>0, <2>1, <2>2, <2>3
<1>6. ASSUME NEW r \in Turns, Rotate(r) PROVE [Next]_vars /\ MembersOK'
  <2> DEFINE m == Rotation(camera.angle + r, m_size[1], m_size[2])
  <2>1. /\ camera.angle + r \in Angles /\ m \in Operators
        /\ Write(camera.node.rotation, m)
        /\ camera' = [camera EXCEPT !.angle = camera.angle + r, !.last = "rotate", !.given = m_size]
        /\ UNCHANGED <<m_rootnode, m_size, sprite, call>>
    BY <1>0, <1>6 DEF Rotate
  <2> HIDE DEF m
  <2>2. [Next]_vars /\ held' = held BY <1>0, <2>1, WriteStep
  <2>3. camera' \in Cameras BY <1>0, <2>1 DEF Cameras
  <2>4. QED BY <1>0, <2>1, <2>2, <2>3
<1>7. ASSUME NEW z \in Zooms, NEW pos \in Points, Zoom(z, pos) PROVE [Next]_vars /\ MembersOK'
  <2> DEFINE zoom == IF camera.zoom + z <= LeastZoom THEN LeastZoom ELSE camera.zoom + z
  <2>1. /\ zoom \in Factors /\ Zooming(zoom, pos) \in Operators
        /\ Write(camera.node.rotation, Zooming(zoom, pos))
        /\ camera' = [camera EXCEPT !.zoom = zoom, !.last = "zoom", !.given = pos]
        /\ UNCHANGED <<m_rootnode, m_size, sprite, call>>
    BY <1>7 DEF Zoom
  <2> HIDE DEF zoom
  <2>2. [Next]_vars /\ held' = held BY <1>0, <2>1, WriteStep
  <2>3. camera' \in Cameras BY <1>0, <2>1 DEF Cameras
  <2>4. QED BY <1>0, <2>1, <2>2, <2>3
<1>8. /\ {[at |-> f, of |-> Nobody] : f \in CameraStages} \subseteq CameraCalls
      /\ {"translation", "rotation", "scalation"} = CameraStages
  BY DEF CameraCalls, CameraStages
<1>9. QED BY <1>1, <1>2, <1>3, <1>4, <1>5, <1>6, <1>7, <1>8 DEF Renderer

LEMMA ConstructorStep ==
  ASSUME SpriteInv, Constructors
  PROVE  [Next]_vars /\ MembersOK'
<1> USE DEF MembersOK
<1>0. TypeOK /\ MembersOK /\ SpriteTypeOK BY SpriteInvParts DEF SpriteInv
<1>1. ASSUME NEW s \in Sprites, NEW q \in Sprites \cup {Nobody}, NEW p, NewSprite(s, q, p)
      PROVE  [Next]_vars /\ MembersOK'
  <2>1. AddChild(p, Fresh, Identity) \/ New(Fresh, None, Identity)
    BY <1>1 DEF NewSprite
  <2>2. /\ Next /\ Fresh \in Nodes \ born /\ held \subseteq held'
    BY <1>0, <2>1, CreateStep
  <2>3. (IF p \in alive THEN p ELSE None) \in Nodes \cup {None}
    BY <1>0 DEF TypeOK
  <2>4. [NoNodes EXCEPT !.translation = Fresh] \in Triples
    BY <2>2, FreshTriples DEF CameraStages
  <2>5. call' \in SpriteCalls
    BY <1>1, <2>3, <2>4 DEF NewSprite, SpriteCalls, Stages
  <2>6. call'.node.translation = Fresh
    BY <1>1 DEF NewSprite, NoNodes
  <2>7. m_rootnode # Fresh
    BY <1>0, <2>2, NoneAssumption DEF TypeOK
  <2>8. QED BY <1>0, <1>1, <2>2, <2>5, <2>6, <2>7 DEF NewSprite
<1>2. ASSUME NEW s \in Sprites, NewLone(s) PROVE [Next]_vars /\ MembersOK'
  BY <1>0, <1>2, ReturnedCall DEF NewLone, Quiet, vars, Stages
<1>3. ASSUME Expire PROVE [Next]_vars /\ MembersOK'
  <2>1. call \in SpriteCalls BY <1>0, <1>3, SpriteCallCase DEF Expire
  <2>2. Release(call.node.translation) /\ held' = held \ {call.node.translation}
    BY <1>3 DEF Expire, Release
  <2>3. call.node.translation \in Nodes BY <1>0, <2>2 DEF Release, TypeOK
  <2>4. Next BY <2>2, <2>3 DEF Next
  <2>5. call.node.translation # m_rootnode BY <1>0, <1>3 DEF Expire
  <2>6. call' \in SpriteCalls /\ call'.at = "rotation"
    BY <1>3, <2>1 DEF Expire, SpriteCalls, Stages
  <2>7. QED BY <1>0, <1>3, <2>2, <2>4, <2>5, <2>6 DEF Expire
<1>4. ASSUME NEW above, NEW field \in {"rotation", "scalation"},
             NEW next \in {"scalation", "position"}, Build(above, field, next)
      PROVE  [Next]_vars /\ MembersOK'
  <2>1. call \in SpriteCalls BY <1>0, <1>4, SpriteCallCase DEF Build, Stages
  <2>2. CASE call.node[above] \in alive
    <3>1. AddChild(call.node[above], Fresh, Identity) BY <1>4, <2>2 DEF Build
    <3>2. Next /\ Fresh \in Nodes /\ held \subseteq held' BY <1>0, <3>1, CreateStep
    <3>3. [call.node EXCEPT ![field] = Fresh] \in Triples
      BY <2>1, <3>2, FreshTriples DEF SpriteCalls, CameraStages
    <3>4. call' = [call EXCEPT !.at = next, !.node[field] = Fresh]
      BY <1>4, <2>2 DEF Build
    <3>5. call' = [call EXCEPT !.at = next, !.node = [call.node EXCEPT ![field] = Fresh]]
      BY <2>1, <3>4 DEF SpriteCalls
    <3>6. call' \in SpriteCalls /\ call'.at # "temporary"
      BY <2>1, <3>3, <3>5 DEF SpriteCalls, Stages
    <3>7. QED BY <1>0, <1>4, <3>2, <3>6 DEF Build
  <2>3. CASE call.node[above] \notin alive
    BY <1>0, <1>4, <2>3, ReturnedCall DEF Build, Stages, vars
  <2>4. QED BY <2>2, <2>3
<1>5. ASSUME Place PROVE [Next]_vars /\ MembersOK'
  <2>1. call \in SpriteCalls BY <1>0, <1>5, SpriteCallCase DEF Place
  <2>2. Write(call.node.translation, Translation(<<0, 0, 0>>)) BY <1>5 DEF Place
  <2>3. Translation(<<0, 0, 0>>) \in Operators OBVIOUS
  <2>4. [Next]_vars /\ held' = held BY <1>0, <2>2, <2>3, WriteStep
  <2>5. call' \in SpriteCalls /\ call'.at = "scale"
    BY <1>5, <2>1 DEF Place, SpriteCalls, Stages
  <2>6. QED BY <1>0, <1>5, <2>4, <2>5 DEF Place
<1>6. ASSUME Finish PROVE [Next]_vars /\ MembersOK'
  <2>1. call \in SpriteCalls BY <1>0, <1>6, SpriteCallCase DEF Finish
  <2>2. Write(call.node.scalation, Scaling(<<0, 0, 0>>)) BY <1>6 DEF Finish
  <2>3. Scaling(<<0, 0, 0>>) \in Operators OBVIOUS
  <2>4. [Next]_vars /\ held' = held BY <1>0, <2>2, <2>3, WriteStep
  <2>5. /\ call.of \in Sprites /\ call.m_parent \in Sprites \cup {Nobody}
        /\ call.node \in Triples /\ call.anchor \in Nodes \cup {None}
    BY <2>1 DEF SpriteCalls
  <2>6. sprite' \in [Sprites -> [built : BOOLEAN, m_parent : Sprites \cup {Nobody},
                                node : Triples, anchor : Nodes \cup {None},
                                position : Positions, size : Scales, turned : Operators]]
    BY <1>0, <1>6, <2>5, FreshTriples DEF Finish, Unbuilt
  <2>7. call' = Returned /\ UNCHANGED <<m_rootnode, m_size, camera>> BY <1>6 DEF Finish
  <2>8. QED BY <1>0, <2>4, <2>6, <2>7, ReturnedCall DEF Stages
<1>7. QED BY <1>1, <1>2, <1>3, <1>4, <1>5, <1>6 DEF Constructors

LEMMA SetterStep ==
  ASSUME SpriteInv, Setters
  PROVE  [Next]_vars /\ MembersOK'
<1> USE DEF MembersOK
<1>0. TypeOK /\ MembersOK BY SpriteInvParts
<1>1. ASSUME NEW s \in Sprites, NEW pos \in Positions, SetPosition(s, pos)
      PROVE  [Next]_vars /\ MembersOK'
  <2>1. Translation(pos) \in Operators OBVIOUS
  <2>2. Write(sprite[s].node.translation, Translation(pos)) BY <1>1 DEF SetPosition
  <2>3. [Next]_vars /\ held' = held BY <1>0, <2>1, <2>2, WriteStep
  <2>4. QED BY <1>0, <1>1, <2>3 DEF SetPosition
<1>2. ASSUME NEW s \in Sprites, NEW size \in Scales, SetScale(s, size)
      PROVE  [Next]_vars /\ MembersOK'
  <2>1. Scaling(size) \in Operators OBVIOUS
  <2>2. Write(sprite[s].node.scalation, Scaling(size)) BY <1>2 DEF SetScale
  <2>3. [Next]_vars /\ held' = held BY <1>0, <2>1, <2>2, WriteStep
  <2>4. QED BY <1>0, <1>2, <2>3 DEF SetScale
<1>3. ASSUME NEW s \in Sprites, NEW r \in Angles, SetRotation(s, r)
      PROVE  [Next]_vars /\ MembersOK'
  <2> DEFINE m == Rotation(r, sprite[s].size[1], sprite[s].size[2])
  <2>1. m \in Operators BY <1>0
  <2>2. /\ Write(sprite[s].node.rotation, m)
        /\ sprite' = [sprite EXCEPT ![s].turned = m] \/ sprite' = sprite
        /\ UNCHANGED <<m_rootnode, m_size, camera, call>>
    BY <1>3 DEF SetRotation
  <2> HIDE DEF m
  <2>3. [Next]_vars /\ held' = held BY <1>0, <2>1, <2>2, WriteStep
  <2>4. QED BY <1>0, <2>1, <2>2, <2>3
<1>4. ASSUME NEW s \in Sprites, NEW q \in Sprites \cup {Nobody}, SetParentSprite(s, q)
      PROVE  [Next]_vars /\ MembersOK'
  BY <1>0, <1>4 DEF SetParentSprite, vars
<1>5. ASSUME NEW s \in Sprites, Destroy(s) PROVE [Next]_vars /\ MembersOK'
  BY <1>0, <1>5, FreshTriples DEF Destroy, Unbuilt, vars
<1>6. ASSUME NEW n, Keep(n) PROVE [Next]_vars /\ MembersOK'
  <2>1. n \in Nodes /\ Hold(n) /\ held \subseteq held' BY <1>0, <1>6 DEF Keep, Hold, TypeOK
  <2>2. QED BY <1>0, <1>6, <2>1 DEF Keep, others, Next
<1>7. ASSUME NEW n \in Nodes, Drop(n) PROVE [Next]_vars /\ MembersOK'
  <2>1. Release(n) /\ held' = held \ {n} /\ n # m_rootnode BY <1>7 DEF Drop, Release
  <2>2. QED BY <1>0, <1>7, <2>1 DEF Drop, others, Next
<1>8. QED BY <1>1, <1>2, <1>3, <1>4, <1>5, <1>6, <1>7 DEF Setters

LEMMA SpriteStep ==
  ASSUME SpriteInv, [SpriteNext]_spriteVars
  PROVE  [Next]_vars /\ SpriteInv'
<1>0. TypeOK /\ MembersOK BY SpriteInvParts
<1>1. [Next]_vars /\ MembersOK'
  <2>1. CASE Recalculate /\ UNCHANGED others
    <3>1. Next BY <2>1 DEF Next
    <3>2. held' = held BY <2>1 DEF Recalculate, graph
    <3>3. QED BY <1>0, <2>1, <3>1, <3>2 DEF others, MembersOK
  <2>2. CASE UNCHANGED spriteVars
    BY <1>0, <2>2 DEF spriteVars, vars, others, MembersOK
  <2>3. QED BY <2>1, <2>2, RendererStep, ConstructorStep, SetterStep DEF SpriteNext
<1>2. TypeOK' BY <1>0, <1>1, TypeStep
<1>3. QED BY <1>1, <1>2, SpriteInvParts DEF SpriteInv, SpriteTypeOK, MembersOK

\* Renderers, sprites, the call that runs and the graph are well typed; the
\* root node of a renderer is there as long as the renderer is.
THEOREM SpritesTypeCorrect == SpriteSpec => []SpriteTypeOK
<1>1. SpriteInv /\ [SpriteNext]_spriteVars => SpriteInv' BY SpriteStep
<1>2. SpriteInv => SpriteTypeOK BY DEF SpriteInv
<1>3. QED BY <1>1, <1>2, SpriteInvInit, PTL DEF SpriteSpec

\* The graph of renderers and sprites is one of those SceneGraph is about, since
\* they change it by its calls.
LEMMA ImplementsGraph == SpriteSpec => Spec
<1>1. SpriteInv /\ [SpriteNext]_spriteVars => SpriteInv' /\ [Next]_vars BY SpriteStep
<1>2. SpriteInit => Init BY DEF SpriteInit
<1>3. QED BY <1>1, <1>2, SpriteInvInit, PTL DEF SpriteSpec, Spec

\* Hence what was proved of every use of the graph holds of this one.
THEOREM SpriteGraphUpToDate == SpriteSpec => []StaleIsPending
BY ImplementsGraph, OnlyPendingAreStale

-----------------------------------------------------------------------------
(* Sprites: what the calls of the graph leave as it was                       *)

\* n is a child of p while p is there, and p its parent while n is.
Hangs(n, p) == /\ p \in alive => n \in Range(m_children[p])
               /\ n \in alive => m_parent[n] = p

\* A step of which no node gets another parent, and loses no child but by dying:
\* sprites and cameras never call setParent of the graph.
Frame ==
  /\ born \subseteq born' /\ None \notin alive'
  /\ \A n \in born : n \in alive' => n \in alive /\ m_parent'[n] = m_parent[n]
  /\ \A p \in born : p \in alive' => Range(m_children[p]) \subseteq Range(m_children'[p])

\* The operators stay as they are, but for that of x.
Rewrites(x) ==
  \A n \in born \ {x} : n \in alive' => m_operator_matrix'[n] = m_operator_matrix[n]

LEMMA HangsKept ==
  ASSUME Frame, NEW n \in born, NEW p \in born \cup {None}, Hangs(n, p)
  PROVE  Hangs(n, p)'
BY DEF Frame, Hangs

LEMMA FrameOfNothing ==
  ASSUME TypeOK, UNCHANGED <<born, alive, m_parent, m_children, m_operator_matrix>>
  PROVE  Frame /\ Rewrites(None)
BY NoneAssumption DEF TypeOK, Frame, Rewrites

LEMMA FrameOfWrite ==
  ASSUME TypeOK, NEW n, NEW m \in Operators, Write(n, m)
  PROVE  /\ Frame /\ Rewrites(n)
         /\ UNCHANGED <<born, alive, held, m_parent, m_children>>
         /\ n \in alive => m_operator_matrix'[n] = m
<1>1. CASE n \in alive
  BY <1>1, NoneAssumption DEF Write, ChangeMatrix, TypeOK, Frame, Rewrites
<1>2. CASE n \notin alive
  BY <1>2, FrameOfNothing DEF Write, vars, Rewrites
<1>3. QED BY <1>1, <1>2

LEMMA FrameOfAddChild ==
  ASSUME TypeOK, NEW p, NEW n, NEW m \in Operators, AddChild(p, n, m)
  PROVE  /\ Frame /\ Rewrites(None) /\ Hangs(n, p)'
         /\ p \in alive /\ n \in Nodes \ born /\ n \in born' /\ n \in alive'
         /\ m_operator_matrix'[n] = m
<1> USE DEF TypeOK
<1>1. /\ p \in alive /\ n \in Nodes \ born /\ p # n
      /\ born' = born \cup {n} /\ alive' = alive \cup {n}
      /\ m_parent' = [m_parent EXCEPT ![n] = p]
      /\ m_operator_matrix' = [m_operator_matrix EXCEPT ![n] = m]
      /\ m_children' = [m_children EXCEPT ![p] = Append(m_children[p], n)]
  BY DEF AddChild, Construct
<1>2. m_children[p] \in Seq(Nodes) BY <1>1
<1>3. Range(Append(m_children[p], n)) = Range(m_children[p]) \cup {n}
  BY <1>1, <1>2, AppendFacts
<1>4. m_children'[p] = Append(m_children[p], n) /\ \A q \in Nodes \ {p} : m_children'[q] = m_children[q]
  BY <1>1
<1>5. Hangs(n, p)' BY <1>1, <1>3, <1>4 DEF Hangs
<1>6. Frame BY <1>1, <1>3, <1>4, NoneAssumption DEF Frame
<1>7. Rewrites(None) BY <1>1 DEF Rewrites
<1>8. QED BY <1>1, <1>5, <1>6, <1>7

LEMMA FrameOfNew ==
  ASSUME TypeOK, NEW n, NEW m \in Operators, New(n, None, m)
  PROVE  /\ Frame /\ Rewrites(None) /\ m_children' = m_children
         /\ n \in Nodes \ born /\ n \in born' /\ n \in alive'
         /\ m_operator_matrix'[n] = m /\ m_parent'[n] = None
BY NoneAssumption DEF TypeOK, New, Construct, Frame, Rewrites

LEMMA FrameOfRelease ==
  ASSUME TypeOK, NEW n, Release(n)
  PROVE  Frame /\ Rewrites(None) /\ born' = born
<1> USE DEF TypeOK
<1>1. PICK s \in SUBSET alive :
        /\ alive' = s
        /\ m_parent' = Kept(m_parent, s, None)
        /\ m_children' = Kept(m_children, s, <<>>)
        /\ m_operator_matrix' = Kept(m_operator_matrix, s, Unset)
  BY DEF Release
<1>2. \A k \in s : /\ m_parent'[k] = m_parent[k] /\ m_children'[k] = m_children[k]
                   /\ m_operator_matrix'[k] = m_operator_matrix[k]
  BY <1>1 DEF Kept
<1>3. born' = born BY DEF Release
<1>4. QED BY <1>1, <1>2, <1>3, NoneAssumption DEF Frame, Rewrites

\* Whatever a node has as children is alive: m_children own what they name.
ChildrenAlive == \A p \in Nodes : Range(m_children[p]) \subseteq alive

LEMMA ChildrenAliveStep ==
  ASSUME TypeOK, ChildrenAlive, [Next]_vars
  PROVE  ChildrenAlive'
<1> USE DEF TypeOK, ChildrenAlive
<1>1. CASE Recalculate BY <1>1 DEF Recalculate, graph
<1>2. ASSUME NEW n \in Nodes, NEW p \in Nodes \cup {None}, NEW op \in Operators, New(n, p, op)
      PROVE  ChildrenAlive'
  BY <1>2 DEF New, Construct
<1>3. ASSUME NEW p \in Nodes, NEW n \in Nodes, NEW op \in Operators, AddChild(p, n, op)
      PROVE  ChildrenAlive'
  <2>1. Range(Append(m_children[p], n)) = Range(m_children[p]) \cup {n}
    BY AppendFacts
  <2>2. /\ alive' = alive \cup {n}
        /\ m_children' = [m_children EXCEPT ![p] = Append(m_children[p], n)]
    BY <1>3 DEF AddChild, Construct
  <2>3. QED BY <2>1, <2>2
<1>4. ASSUME NEW n \in Nodes, NEW p \in Nodes \cup {None}, NEW op \in Operators,
             SetParent(n, p) \/ ChangeMatrix(n, op) \/ Hold(n)
      PROVE  ChildrenAlive'
  BY <1>4 DEF SetParent, ChangeMatrix, Hold
<1>5. ASSUME NEW n \in Nodes, Release(n) PROVE ChildrenAlive'
  <2>1. PICK s \in SUBSET alive :
          Owned(held', s) /\ alive' = s /\ m_children' = Kept(m_children, s, <<>>)
    BY <1>5 DEF Release
  <2>2. \A p \in Nodes : m_children'[p] = IF p \in s THEN m_children[p] ELSE <<>>
    BY <2>1 DEF Kept
  <2>3. Range(<<>>) = {} BY DEF Range
  <2>4. QED BY <2>1, <2>2, <2>3 DEF Owned
<1>6. CASE UNCHANGED vars BY <1>6 DEF vars
<1>7. Operators # {} BY MatrixAssumption
<1>8. QED BY <1>1, <1>2, <1>3, <1>4, <1>5, <1>6, <1>7 DEF Next

-----------------------------------------------------------------------------
(* Sprites: whose the nodes are.  The nodes of a sprite under construction    *)
(* are those of the call; the camera stands among the sprites as Nobody.      *)

Running(s) == call \in SpriteCalls /\ call.of = s
Holders == Sprites \cup {Nobody}
NodesAt == [h \in Holders |-> IF h = Nobody THEN camera.node
                              ELSE IF Running(h) THEN call.node ELSE sprite[h].node]
AnchorAt == [h \in Holders |-> IF h = Nobody THEN m_rootnode
                               ELSE IF Running(h) THEN call.anchor ELSE sprite[h].anchor]

Chained(node, a) ==
  /\ node.translation # None /\ a # None => Hangs(node.translation, a)
  /\ node.rotation # None => Hangs(node.rotation, node.translation)
  /\ node.scalation # None => Hangs(node.scalation, node.rotation)

NodesBorn ==
  \A h \in Holders : /\ AnchorAt[h] \in born \cup {None}
                     /\ \A f \in CameraStages : NodesAt[h][f] \in born \cup {None}

\* No node is in two places, and the root of the renderer is in none.
NodesApart ==
  /\ \A h, i \in Holders, f, g \in CameraStages :
       NodesAt[h][f] # None /\ NodesAt[h][f] = NodesAt[i][g] => h = i /\ f = g
  /\ m_rootnode # None => \A h \in Holders, f \in CameraStages : NodesAt[h][f] # m_rootnode

\* The nodes of a triple hang below one another, the first below the anchor.
NodesChained == \A h \in Holders : Chained(NodesAt[h], AnchorAt[h])

RootHasNoParent == m_rootnode # None => m_parent[m_rootnode] = None

NodesInv == NodesBorn /\ NodesApart /\ NodesChained /\ RootHasNoParent

LEMMA ChainedKept ==
  ASSUME Frame, NEW node, NEW a \in born \cup {None},
         \A f \in CameraStages : node[f] \in born \cup {None}, Chained(node, a)
  PROVE  Chained(node, a)'
BY HangsKept DEF Chained, CameraStages

\* What a root may be after a step: what it was, none, or a new node.
RootKept == /\ m_rootnode' \in alive' \cup {None}
            /\ m_rootnode' \in {m_rootnode, None} \/ (m_rootnode' \notin born /\ m_parent'[m_rootnode'] = None)

\* Triples that stay or are forgotten stay where they are.
LEMMA NodesStay ==
  ASSUME TypeOK, m_rootnode \in alive \cup {None}, NodesInv, Frame, RootKept,
         \A h \in Holders :
           \/ NodesAt'[h] = NodesAt[h] /\ AnchorAt'[h] \in {AnchorAt[h], None}
           \/ NodesAt'[h] = NoNodes /\ AnchorAt'[h] \in born' \cup {None}
  PROVE  NodesInv'
<1>1. NodesBorn /\ NodesApart /\ NodesChained /\ RootHasNoParent
  BY DEF NodesInv
<1>2. \A h \in Holders : \A f \in CameraStages : NodesAt'[h][f] \in {NodesAt[h][f], None}
  BY DEF NoNodes, CameraStages
<1>3. NodesBorn'
  <2>1. ASSUME NEW h \in Holders
        PROVE  AnchorAt'[h] \in born' \cup {None} /\ \A f \in CameraStages : NodesAt'[h][f] \in born' \cup {None}
    BY <1>1, <1>2 DEF NodesBorn, Frame
  <2>2. QED BY <2>1 DEF NodesBorn
<1>4. NodesApart'
  <2>1. ASSUME NEW h \in Holders, NEW i \in Holders, NEW f \in CameraStages, NEW g \in CameraStages,
               NodesAt'[h][f] # None, NodesAt'[h][f] = NodesAt'[i][g]
        PROVE  h = i /\ f = g
    <3>1. NodesAt'[h][f] = NodesAt[h][f] /\ NodesAt'[i][g] = NodesAt[i][g]
      BY <1>2, <2>1
    <3>2. NodesAt[h][f] # None /\ NodesAt[h][f] = NodesAt[i][g] BY <2>1, <3>1
    <3>3. QED BY <1>1, <3>2, Zenon DEF NodesApart
  <2>2. ASSUME m_rootnode' # None, NEW h \in Holders, NEW f \in CameraStages
        PROVE  NodesAt'[h][f] # m_rootnode'
    <3>1. NodesAt'[h][f] \in {NodesAt[h][f], None} BY <1>2
    <3>2. CASE m_rootnode' = m_rootnode BY <1>1, <2>2, <3>1, <3>2 DEF NodesApart
    <3>3. CASE m_rootnode' \notin born
      <4>1. NodesAt[h][f] \in born \cup {None} BY <1>1 DEF NodesBorn
      <4>2. QED BY <2>2, <3>1, <3>3, <4>1
    <3>4. QED BY <2>2, <3>2, <3>3 DEF RootKept
  <2>3. QED BY <2>1, <2>2 DEF NodesApart
<1>5. NodesChained'
  <2>1. SUFFICES ASSUME NEW h \in Holders PROVE Chained(NodesAt[h], AnchorAt[h])'
    BY DEF NodesChained
  <2>2. CASE NodesAt'[h] = NodesAt[h] /\ AnchorAt'[h] \in {AnchorAt[h], None}
    <3>1. PICK node, a : node = NodesAt'[h] /\ a = AnchorAt'[h] OBVIOUS
    <3>2. /\ a \in born \cup {None} /\ Chained(node, a)
          /\ \A f \in CameraStages : node[f] \in born \cup {None}
      BY <1>1, <2>2, <3>1 DEF NodesBorn, NodesChained, Chained
    <3>3. Chained(node, a)' BY <3>2, ChainedKept
    <3>4. QED BY <3>1, <3>3 DEF Chained
  <2>3. CASE NodesAt'[h] = NoNodes
    BY <2>3 DEF Chained, NoNodes
  <2>4. QED BY <2>2, <2>3
<1>6. RootHasNoParent'
  BY <1>1 DEF RootHasNoParent, RootKept, Frame, TypeOK
<1>7. QED BY <1>3, <1>4, <1>5, <1>6 DEF NodesInv

\* A new node has one place, if it hangs where it should.
LEMMA NodesAdded ==
  ASSUME TypeOK, m_rootnode \in alive \cup {None}, NodesInv, Frame,
         m_rootnode' = m_rootnode, m_rootnode \in alive' \cup {None},
         NEW h \in Holders, NEW f \in CameraStages, NEW n \in Nodes \ born, n \in born',
         \A i \in Holders \ {h} : NodesAt'[i] = NodesAt[i] /\ AnchorAt'[i] = AnchorAt[i],
         NodesAt'[h][f] = n, \A g \in CameraStages \ {f} : NodesAt'[h][g] = NodesAt[h][g],
         AnchorAt'[h] \in born' \cup {None}, Chained(NodesAt[h], AnchorAt[h])'
  PROVE  NodesInv'
<1>1. NodesBorn /\ NodesApart /\ NodesChained /\ RootHasNoParent
  BY DEF NodesInv
<1>2. n # None BY NoneAssumption
<1>3. \A i, j \in Holders, g, k \in CameraStages :
        NodesAt[i][g] # None /\ NodesAt[i][g] = NodesAt[j][k] => i = j /\ g = k
  BY <1>1 DEF NodesApart
<1>4. \A i \in Holders, g \in CameraStages :
        IF i = h /\ g = f THEN NodesAt'[i][g] = n ELSE NodesAt'[i][g] = NodesAt[i][g]
  OBVIOUS
<1>5. \A i \in Holders, g \in CameraStages : NodesAt[i][g] \in born \cup {None}
  BY <1>1 DEF NodesBorn
<1>6. NodesBorn'
  <2>1. born \subseteq born' BY DEF Frame
  <2>2. ASSUME NEW i \in Holders PROVE AnchorAt'[i] \in born' \cup {None}
    BY <1>1, <2>1 DEF NodesBorn
  <2>3. ASSUME NEW i \in Holders, NEW g \in CameraStages PROVE NodesAt'[i][g] \in born' \cup {None}
    BY <1>4, <1>5, <2>1
  <2>4. QED BY <2>2, <2>3 DEF NodesBorn
<1>7. NodesApart'
  <2>1. ASSUME NEW i \in Holders, NEW j \in Holders, NEW g \in CameraStages, NEW k \in CameraStages,
               NodesAt'[i][g] # None, NodesAt'[i][g] = NodesAt'[j][k]
        PROVE  i = j /\ g = k
    <3>1. CASE i = h /\ g = f BY <1>2, <1>4, <1>5, <2>1, <3>1
    <3>2. CASE j = h /\ k = f BY <1>2, <1>4, <1>5, <2>1, <3>2
    <3>3. CASE ~(i = h /\ g = f) /\ ~(j = h /\ k = f)
      <4>1. NodesAt'[i][g] = NodesAt[i][g] /\ NodesAt'[j][k] = NodesAt[j][k] BY <1>4, <3>3
      <4>2. NodesAt[i][g] # None /\ NodesAt[i][g] = NodesAt[j][k] BY <2>1, <4>1
      <4>3. QED BY <1>3, <4>2
    <3>4. QED BY <3>1, <3>2, <3>3
  <2>2. ASSUME m_rootnode' # None, NEW i \in Holders, NEW g \in CameraStages
        PROVE  NodesAt'[i][g] # m_rootnode'
    <3>1. m_rootnode \in born BY <2>2 DEF TypeOK
    <3>2. NodesAt[i][g] # m_rootnode BY <1>1, <2>2 DEF NodesApart
    <3>3. QED BY <1>4, <3>1, <3>2
  <2>3. QED BY <2>1, <2>2 DEF NodesApart
<1>8. NodesChained'
  <2>1. ASSUME NEW i \in Holders \ {h} PROVE Chained(NodesAt[i], AnchorAt[i])'
    <3>1. PICK node, a : node = NodesAt'[i] /\ a = AnchorAt'[i] OBVIOUS
    <3>2. /\ a \in born \cup {None} /\ Chained(node, a)
          /\ \A g \in CameraStages : node[g] \in born \cup {None}
      BY <1>1, <3>1 DEF NodesBorn, NodesChained
    <3>3. Chained(node, a)' BY <3>2, ChainedKept
    <3>4. QED BY <3>1, <3>3 DEF Chained
  <2>2. QED BY <2>1 DEF NodesChained
<1>9. RootHasNoParent'
  BY <1>1 DEF RootHasNoParent, Frame, TypeOK
<1>10. QED BY <1>6, <1>7, <1>8, <1>9 DEF NodesInv

-----------------------------------------------------------------------------
(* Sprites: how far the constructors are                                      *)

Whole(node) == None \notin {node.translation, node.rotation, node.scalation}

\* A sprite has all its nodes and the one they hang from, or none.
SpriteStages ==
  \A s \in Sprites :
    IF sprite[s].built
    THEN sprite[s].node = NoNodes \/ (Whole(sprite[s].node) /\ sprite[s].anchor # None)
    ELSE sprite[s] = Unbuilt

\* Without a parent the first node is nobody's child, and dies; nothing is built
\* below it.
CallStages ==
  call \in SpriteCalls =>
    /\ ~sprite[call.of].built /\ call.node.translation # None
    /\ call.at \in {"temporary", "rotation"} =>
         call.node.rotation = None /\ call.node.scalation = None
    /\ call.anchor # None => call.anchor \in alive
    /\ call.at = "temporary" =>
         call.anchor = None /\ \A p \in Nodes : call.node.translation \notin Range(m_children[p])
    /\ call.at # "temporary" /\ call.anchor = None =>
         call.at = "rotation" /\ call.node.translation \notin alive
    /\ call.at = "scalation" => call.node.rotation # None /\ call.node.scalation = None
    /\ call.at \in {"position", "scale"} => Whole(call.node)

CameraStagesOK ==
  IF call \in CameraCalls
  THEN /\ m_rootnode # None
       /\ call.at = "translation" => camera.node = NoNodes
       /\ call.at = "rotation" => /\ camera.node.translation # None
                                  /\ camera.node.rotation = None /\ camera.node.scalation = None
       /\ call.at = "scalation" => /\ camera.node.translation # None
                                   /\ camera.node.rotation # None /\ camera.node.scalation = None
  ELSE camera.node = NoNodes \/ Whole(camera.node)

StageInv == SpriteStages /\ CallStages /\ CameraStagesOK

\* Nothing that NodesAt and AnchorAt are made of changes.
LEMMA Still ==
  ASSUME call' = call, m_rootnode' = m_rootnode, camera'.node = camera.node,
         \A s \in Sprites : sprite'[s].node = sprite[s].node /\ sprite'[s].anchor = sprite[s].anchor
  PROVE  \A h \in Holders : NodesAt'[h] = NodesAt[h] /\ AnchorAt'[h] = AnchorAt[h]
<1>1. SUFFICES ASSUME NEW h \in Holders PROVE NodesAt'[h] = NodesAt[h] /\ AnchorAt'[h] = AnchorAt[h]
  OBVIOUS
<1>2. Running(h)' <=> Running(h) BY DEF Running
<1>3. CASE h = Nobody BY <1>3 DEF NodesAt, AnchorAt
<1>4. CASE h \in Sprites /\ h # Nobody BY <1>2, <1>4 DEF NodesAt, AnchorAt
<1>5. QED BY <1>3, <1>4 DEF Holders

LEMMA StillKeeps ==
  ASSUME SpriteInv, NodesInv, SpriteInv', Frame, m_rootnode' = m_rootnode,
         \A h \in Holders : NodesAt'[h] = NodesAt[h] /\ AnchorAt'[h] = AnchorAt[h]
  PROVE  NodesInv'
<1>1. TypeOK /\ m_rootnode \in alive \cup {None} /\ RootKept
  BY DEF SpriteInv, SpriteTypeOK, TypeOK, RootKept
<1>2. QED BY <1>1, NodesStay

\* Between the calls of the constructors nothing is running.
LEMMA NotRunning ==
  ASSUME NEW c, c \in {Returned} \cup CameraCalls
  PROVE  c \notin SpriteCalls
<1>1. Returned.at \notin Stages BY DEF Returned, Stages
<1>2. Nobody \notin Sprites OBVIOUS
<1>3. QED BY <1>1, <1>2 DEF SpriteCalls, CameraCalls

LEMMA SpritesAtRest ==
  ASSUME call \in {Returned} \cup CameraCalls
  PROVE  /\ NodesAt[Nobody] = camera.node /\ AnchorAt[Nobody] = m_rootnode
         /\ \A s \in Sprites : NodesAt[s] = sprite[s].node /\ AnchorAt[s] = sprite[s].anchor
BY NotRunning DEF NodesAt, AnchorAt, Running, Holders

LEMMA RendererNodes ==
  ASSUME SpriteInv, SpriteInv', NodesInv, StageInv, Renderer
  PROVE  Frame /\ NodesInv'
<1>0. /\ TypeOK /\ MembersOK /\ m_rootnode \in alive \cup {None}
      /\ TypeOK' /\ m_rootnode' \in alive' \cup {None}
  BY SpriteInvParts DEF SpriteInv, SpriteTypeOK, TypeOK
<1>1. ASSUME NEW at \in {Returned} \cup CameraCalls, NewRenderer(at)
      PROVE  Frame /\ NodesInv'
  <2>1. Projection(<<1, 1>>) \in Operators /\ New(Fresh, None, Projection(<<1, 1>>))
    BY <1>1 DEF NewRenderer
  <2>2. Frame /\ Fresh \in Nodes \ born /\ Fresh \in born' /\ m_parent'[Fresh] = None
    BY <1>0, <2>1, FrameOfNew
  <2>3. /\ call = Returned /\ call' = at /\ camera' = NoCamera /\ m_rootnode' = Fresh
        /\ sprite' = sprite
    BY <1>1 DEF NewRenderer, Quiet
  <2>4. \A s \in Sprites : NodesAt[s] = sprite[s].node /\ AnchorAt[s] = sprite[s].anchor
    BY <2>3, SpritesAtRest
  <2>5. call' \notin SpriteCalls BY <2>3, NotRunning
  <2>6. \A s \in Sprites : NodesAt'[s] = NodesAt[s] /\ AnchorAt'[s] = AnchorAt[s]
    BY <2>3, <2>4, <2>5 DEF NodesAt, AnchorAt, Running, Holders
  <2>7. NodesAt'[Nobody] = NoNodes /\ AnchorAt'[Nobody] = Fresh
    BY <2>3 DEF NodesAt, AnchorAt, Holders, NoCamera
  <2>8. RootKept BY <1>0, <2>2, <2>3 DEF RootKept
  <2>9. QED BY <1>0, <2>2, <2>6, <2>7, <2>8, NodesStay DEF Holders
<1>2. ASSUME NEW field \in CameraStages, NEW p, NEW at \in {Returned} \cup CameraCalls,
             BuildCamera(field, p, at),
             field = "translation" => p = m_rootnode,
             field = "rotation" => p = camera.node.translation,
             field = "scalation" => p = camera.node.rotation
      PROVE  Frame /\ NodesInv'
  <2>0. PICK n : n = Fresh OBVIOUS
  <2>1. Identity \in Operators /\ AddChild(p, n, Identity)
    BY <1>2, <2>0 DEF BuildCamera
  <2>2. Frame /\ Hangs(n, p)' /\ n \in Nodes \ born /\ n \in born'
    BY <1>0, <2>1, FrameOfAddChild
  <2>3. /\ call = [at |-> field, of |-> Nobody] /\ call' = at /\ m_rootnode' = m_rootnode
        /\ camera' = [camera EXCEPT !.node[field] = n] /\ sprite' = sprite
    BY <1>2, <2>0 DEF BuildCamera
  <2>4. call \in CameraCalls BY <2>3 DEF CameraCalls
  <2>5. /\ NodesAt[Nobody] = camera.node /\ AnchorAt[Nobody] = m_rootnode
        /\ \A s \in Sprites : NodesAt[s] = sprite[s].node /\ AnchorAt[s] = sprite[s].anchor
    BY <2>4, SpritesAtRest
  <2>6. call' \notin SpriteCalls BY <2>3, NotRunning
  <2>7. \A s \in Sprites : NodesAt'[s] = NodesAt[s] /\ AnchorAt'[s] = AnchorAt[s]
    BY <2>3, <2>5, <2>6 DEF NodesAt, AnchorAt, Running, Holders
  <2>8. camera.node \in Triples /\ camera'.node = [camera.node EXCEPT ![field] = n]
    BY <1>0, <2>3 DEF MembersOK, Cameras, Triples, CameraStages
  <2>9. NodesAt'[Nobody] = camera'.node /\ AnchorAt'[Nobody] = m_rootnode
    BY <2>3 DEF NodesAt, AnchorAt, Holders
  <2>10. /\ camera'.node[field] = n
         /\ \A g \in CameraStages \ {field} : camera'.node[g] = camera.node[g]
    BY <2>8 DEF Triples, CameraStages
  <2>11. m_rootnode \in born' \cup {None}
    BY <1>0, <2>3 DEF TypeOK
  <2>12. Chained(NodesAt[Nobody], AnchorAt[Nobody])'
    <3>1. PICK node, a : node = NodesAt'[Nobody] /\ a = m_rootnode OBVIOUS
    <3>2. /\ Chained(camera.node, a) /\ a \in born \cup {None}
          /\ \A f \in CameraStages : camera.node[f] \in born \cup {None}
      BY <2>5, <3>1 DEF NodesInv, NodesChained, NodesBorn, Holders
    <3>3. node.translation # None /\ a # None /\ field # "translation" => Hangs(node.translation, a)'
      <4>1. CASE field # "translation" /\ node.translation # None /\ a # None
        <5>1. node.translation = camera.node.translation /\ node.translation \in born
          BY <2>9, <2>10, <3>1, <3>2, <4>1 DEF CameraStages
        <5>2. Hangs(node.translation, a) BY <3>2, <4>1, <5>1 DEF Chained
        <5>3. QED BY <2>2, <3>2, <5>1, <5>2, HangsKept
      <4>2. QED BY <4>1
    <3>4. CASE field = "translation"
      <4>1. camera.node = NoNodes BY <2>3, <2>4, <3>4 DEF StageInv, CameraStagesOK
      <4>2. node.translation = n /\ node.rotation = None /\ node.scalation = None
        BY <2>9, <2>10, <3>1, <3>4, <4>1 DEF NoNodes, CameraStages
      <4>3. Hangs(node.translation, a)' BY <1>2, <2>2, <3>1, <3>4, <4>2
      <4>4. Chained(node, a)' BY <4>2, <4>3 DEF Chained
      <4>5. QED BY <2>3, <2>9, <3>1, <4>4 DEF Chained
    <3>5. CASE field = "rotation"
      <4>1. camera.node.translation # None /\ camera.node.scalation = None
        BY <2>3, <2>4, <3>5 DEF StageInv, CameraStagesOK
      <4>2. /\ node.translation = camera.node.translation /\ node.rotation = n
            /\ node.scalation = None
        BY <2>9, <2>10, <3>1, <3>5, <4>1 DEF CameraStages
      <4>3. Hangs(node.rotation, node.translation)' BY <1>2, <2>2, <3>5, <4>2
      <4>4. Chained(node, a)' BY <3>3, <3>5, <4>2, <4>3 DEF Chained
      <4>5. QED BY <2>3, <2>9, <3>1, <4>4 DEF Chained
    <3>6. CASE field = "scalation"
      <4>1. camera.node.rotation # None
        BY <2>3, <2>4, <3>6 DEF StageInv, CameraStagesOK
      <4>2. /\ node.translation = camera.node.translation /\ node.rotation = camera.node.rotation
            /\ node.scalation = n
        BY <2>9, <2>10, <3>1, <3>6 DEF CameraStages
      <4>3. Hangs(node.scalation, node.rotation)' BY <1>2, <2>2, <3>6, <4>2
      <4>4. Hangs(node.rotation, node.translation)
        BY <3>2, <4>1, <4>2 DEF Chained
      <4>5. node.rotation \in born /\ node.translation \in born \cup {None}
        BY <3>2, <4>1, <4>2 DEF CameraStages
      <4>6. Hangs(node.rotation, node.translation)' BY <2>2, <4>4, <4>5, HangsKept
      <4>7. Chained(node, a)' BY <3>3, <3>6, <4>3, <4>6 DEF Chained
      <4>8. QED BY <2>3, <2>9, <3>1, <4>7 DEF Chained
    <3>7. QED BY <3>4, <3>5, <3>6 DEF CameraStages
  <2>13. QED
    <3>1. Nobody \in Holders /\ Holders \ {Nobody} = Sprites BY DEF Holders
    <3>2. \A i \in Holders \ {Nobody} : NodesAt'[i] = NodesAt[i] /\ AnchorAt'[i] = AnchorAt[i]
      BY <2>7, <3>1
    <3>3. /\ NodesAt'[Nobody][field] = n
          /\ \A g \in CameraStages \ {field} : NodesAt'[Nobody][g] = NodesAt[Nobody][g]
      BY <2>5, <2>9, <2>10
    <3>4. AnchorAt'[Nobody] \in born' \cup {None} BY <2>9, <2>11
    <3>5. m_rootnode \in alive' \cup {None} BY <1>0, <2>3
    <3>6. QED BY <1>0, <2>2, <2>3, <2>12, <3>1, <3>2, <3>3, <3>4, <3>5, NodesAdded
<1>3. ASSUME NEW n, NEW m \in Operators, Write(n, m),
             call' = call, m_rootnode' = m_rootnode, camera'.node = camera.node, sprite' = sprite
      PROVE  Frame /\ NodesInv'
  BY <1>0, <1>3, FrameOfWrite, Still, StillKeeps
<1>4. ASSUME NEW size \in Sizes, Resize(size) PROVE Frame /\ NodesInv'
  <2>1. Write(m_rootnode, Projection(size)) /\ Projection(size) \in Operators
    BY <1>4 DEF Resize, Write, ChangeMatrix
  <2>2. QED BY <1>3, <1>4, <2>1 DEF Resize
<1>5. CASE Close
  <2>1. Frame BY <1>0, <1>5, FrameOfRelease DEF Close
  <2>2. /\ call = Returned /\ call' = call /\ m_rootnode' = None /\ camera' = camera /\ sprite' = sprite
    BY <1>5 DEF Close, Quiet
  <2>3. \A s \in Sprites : NodesAt'[s] = NodesAt[s] /\ AnchorAt'[s] = AnchorAt[s]
    BY <2>2 DEF NodesAt, AnchorAt, Running, Holders
  <2>4. NodesAt'[Nobody] = NodesAt[Nobody] /\ AnchorAt'[Nobody] = None
    BY <2>2 DEF NodesAt, AnchorAt, Holders
  <2>5. RootKept BY <2>2 DEF RootKept
  <2>6. QED BY <1>0, <2>1, <2>3, <2>4, <2>5, NodesStay DEF Holders
<1>6. ASSUME NEW x \in Moves, NEW y \in Moves, Move(x, y) PROVE Frame /\ NodesInv'
  <2> DEFINE pos == <<camera.position[1] + x, camera.position[2] + y, 0>>
  <2>1. /\ pos \in Positions /\ Translation(pos) \in Operators
        /\ Write(camera.node.translation, Translation(pos))
        /\ camera'.node = camera.node
        /\ UNCHANGED <<m_rootnode, sprite, call>>
    BY <1>0, <1>6 DEF Move, MembersOK, Cameras
  <2> HIDE DEF pos
  <2>2. QED BY <1>3, <2>1
<1>7. ASSUME NEW r \in Turns, Rotate(r) PROVE Frame /\ NodesInv'
  <2> DEFINE m == Rotation(camera.angle + r, m_size[1], m_size[2])
  <2>1. /\ m \in Operators /\ Write(camera.node.rotation, m)
        /\ camera'.node = camera.node
        /\ UNCHANGED <<m_rootnode, sprite, call>>
    BY <1>0, <1>7 DEF Rotate, MembersOK, Cameras
  <2> HIDE DEF m
  <2>2. QED BY <1>3, <2>1
<1>8. ASSUME NEW z \in Zooms, NEW pos \in Points, Zoom(z, pos) PROVE Frame /\ NodesInv'
  <2> DEFINE zoom == IF camera.zoom + z <= LeastZoom THEN LeastZoom ELSE camera.zoom + z
  <2>1. /\ zoom \in Factors /\ Zooming(zoom, pos) \in Operators
        /\ Write(camera.node.rotation, Zooming(zoom, pos))
        /\ camera'.node = camera.node
        /\ UNCHANGED <<m_rootnode, sprite, call>>
    BY <1>0, <1>8 DEF Zoom, MembersOK, Cameras
  <2> HIDE DEF zoom
  <2>2. QED BY <1>3, <2>1
<1>9. /\ {[at |-> f, of |-> Nobody] : f \in CameraStages} \subseteq CameraCalls
      /\ {"translation", "rotation", "scalation"} = CameraStages
  BY DEF CameraCalls, CameraStages
<1>10. QED BY <1>1, <1>2, <1>4, <1>5, <1>6, <1>7, <1>8, <1>9 DEF Renderer

\* What a step of a constructor of s leaves to the others.
LEMMA CallGoesOn ==
  ASSUME NEW s \in Sprites, call = Returned \/ (call \in SpriteCalls /\ call.of = s),
         call' \in SpriteCalls, call'.of = s, UNCHANGED <<m_rootnode, camera, sprite>>
  PROVE  /\ \A h \in Holders \ {s} : NodesAt'[h] = NodesAt[h] /\ AnchorAt'[h] = AnchorAt[h]
         /\ NodesAt'[s] = call'.node /\ AnchorAt'[s] = call'.anchor
<1>1. Returned \notin SpriteCalls BY NotRunning
<1>2. s # Nobody OBVIOUS
<1>3. \A h \in Sprites \ {s} : ~Running(h) /\ ~Running(h)' BY <1>1 DEF Running
<1>4. Running(s)' BY DEF Running
<1>5. QED BY <1>2, <1>3, <1>4 DEF NodesAt, AnchorAt, Holders

LEMMA CallReturns ==
  ASSUME NEW s \in Sprites, call \in SpriteCalls, call.of = s, call' = Returned,
         UNCHANGED <<m_rootnode, camera>>, \A i \in Sprites \ {s} : sprite'[i] = sprite[i]
  PROVE  /\ \A h \in Holders \ {s} : NodesAt'[h] = NodesAt[h] /\ AnchorAt'[h] = AnchorAt[h]
         /\ NodesAt[s] = call.node /\ NodesAt'[s] = sprite'[s].node
         /\ AnchorAt[s] = call.anchor /\ AnchorAt'[s] = sprite'[s].anchor
<1>1. Returned \notin SpriteCalls BY NotRunning
<1>2. s # Nobody OBVIOUS
<1>3. \A h \in Sprites \ {s} : ~Running(h) /\ ~Running(h)' BY <1>1 DEF Running
<1>4. Running(s) /\ ~Running(s)' BY <1>1 DEF Running
<1>5. QED BY <1>2, <1>3, <1>4 DEF NodesAt, AnchorAt, Holders

LEMMA NewSpriteDoes ==
  ASSUME SpriteInv, SpriteInv', StageInv,
         NEW s \in Sprites, NEW q \in Sprites \cup {Nobody}, NEW p, NewSprite(s, q, p)
  PROVE  \E n \in Nodes \ born :
           /\ Frame /\ Rewrites(None) /\ n \in born' /\ n \in alive'
           /\ m_operator_matrix'[n] = Identity
           /\ call = Returned /\ sprite[s] = Unbuilt /\ ~sprite'[s].built
           /\ call' \in SpriteCalls /\ call'.of = s
           /\ call'.node = [NoNodes EXCEPT !.translation = n]
           /\ IF p \in alive
              THEN /\ call'.at = "rotation" /\ call'.anchor = p
                   /\ p \in born' /\ p \in alive' /\ Hangs(n, p)'
              ELSE call'.at = "temporary" /\ call'.anchor = None /\ m_children' = m_children
           /\ UNCHANGED <<m_rootnode, m_size, camera, sprite>>
<1>0. TypeOK /\ MembersOK /\ SpriteTypeOK BY SpriteInvParts DEF SpriteInv
<1>1. PICK n : n = Fresh OBVIOUS
<1>2. IF p \in alive THEN AddChild(p, n, Identity) ELSE New(n, None, Identity)
  BY <1>1 DEF NewSprite
<1>3. /\ Frame /\ Rewrites(None) /\ n \in Nodes \ born /\ n \in born' /\ n \in alive'
      /\ m_operator_matrix'[n] = Identity
      /\ p \in alive => Hangs(n, p)'
      /\ p \notin alive => m_children' = m_children
  BY <1>0, <1>2, FrameOfAddChild, FrameOfNew
<1>4. p \in alive => p \in Nodes /\ p \in born' /\ p \in alive'
  BY <1>0, <1>2, <1>3 DEF TypeOK, Frame, AddChild, Construct
<1>5. [NoNodes EXCEPT !.translation = n] \in Triples
  BY <1>3, FreshTriples DEF CameraStages
<1>6. call' = [at |-> IF p \in alive THEN "rotation" ELSE "temporary", of |-> s, m_parent |-> q,
               node |-> [NoNodes EXCEPT !.translation = n],
               anchor |-> IF p \in alive THEN p ELSE None]
  BY <1>1 DEF NewSprite
<1>7. call' \in SpriteCalls BY <1>4, <1>5, <1>6 DEF SpriteCalls, Stages
<1>8. /\ call = Returned /\ UNCHANGED <<m_rootnode, m_size, camera, sprite>> /\ ~sprite[s].built
  BY DEF NewSprite, Quiet
<1>9. sprite[s] = Unbuilt BY <1>8 DEF StageInv, SpriteStages
<1>10. QED BY <1>3, <1>4, <1>6, <1>7, <1>8, <1>9

\* A constructor adds a node below p.
Adds(n, p, field, next) ==
  /\ n \in Nodes \ born /\ n \in born' /\ n \in alive' /\ p \in alive /\ Hangs(n, p)'
  /\ alive \subseteq alive'
  /\ m_operator_matrix'[n] = Identity
  /\ call' \in SpriteCalls
  /\ call' = [call EXCEPT !.at = next, !.node = [call.node EXCEPT ![field] = n]]

LEMMA BuildDoes ==
  ASSUME SpriteInv, SpriteInv', StageInv,
         NEW above \in CameraStages, NEW field \in {"rotation", "scalation"},
         NEW next \in {"scalation", "position"}, Build(above, field, next)
  PROVE  /\ call \in SpriteCalls /\ call.at = field /\ ~sprite[call.of].built
         /\ sprite[call.of] = Unbuilt /\ Frame /\ Rewrites(None)
         /\ UNCHANGED <<m_rootnode, m_size, camera, sprite>>
         /\ \/ call' = Returned /\ UNCHANGED vars
            \/ \E n, p : p = call.node[above] /\ Adds(n, p, field, next)
<1>0. TypeOK /\ MembersOK /\ SpriteTypeOK BY SpriteInvParts DEF SpriteInv
<1>1. call \in SpriteCalls /\ call.at = field BY <1>0, SpriteCallCase DEF Build, Stages
<1>2. ~sprite[call.of].built /\ sprite[call.of] = Unbuilt
  <2>1. call.of \in Sprites /\ ~sprite[call.of].built BY <1>1 DEF SpriteCalls, StageInv, CallStages
  <2>2. QED BY <2>1 DEF StageInv, SpriteStages
<1>3. UNCHANGED <<m_rootnode, m_size, camera, sprite>> BY DEF Build
<1>4. CASE call.node[above] \notin alive
  <2>1. call' = Returned /\ UNCHANGED vars BY <1>4 DEF Build
  <2>2. Frame /\ Rewrites(None) BY <1>0, <2>1, FrameOfNothing DEF vars
  <2>3. QED BY <1>1, <1>2, <1>3, <2>1, <2>2
<1>5. CASE call.node[above] \in alive
  <2>1. PICK n, p : n = Fresh /\ p = call.node[above] OBVIOUS
  <2>2. AddChild(p, n, Identity) BY <1>5, <2>1 DEF Build
  <2>3. /\ Frame /\ Rewrites(None) /\ n \in Nodes \ born /\ n \in born' /\ n \in alive'
        /\ m_operator_matrix'[n] = Identity /\ p \in alive /\ Hangs(n, p)'
        /\ alive \subseteq alive'
    BY <1>0, <2>2, FrameOfAddChild DEF AddChild, Construct
  <2>4. call' = [call EXCEPT !.at = next, !.node[field] = n]
    BY <1>5, <2>1 DEF Build
  <2>5. call' = [call EXCEPT !.at = next, !.node = [call.node EXCEPT ![field] = n]]
    BY <1>1, <2>4 DEF SpriteCalls
  <2>6. [call.node EXCEPT ![field] = n] \in Triples
    BY <1>1, <2>3, FreshTriples DEF SpriteCalls, CameraStages
  <2>7. call' \in SpriteCalls BY <1>1, <2>5, <2>6 DEF SpriteCalls, Stages
  <2>8. p = call.node[above] /\ Adds(n, p, field, next)
    BY <2>1, <2>3, <2>5, <2>7 DEF Adds
  <2>9. QED BY <1>1, <1>2, <1>3, <2>3, <2>8
<1>6. QED BY <1>4, <1>5

\* A node that is added below the last of a triple.
LEMMA ChainedBelow ==
  ASSUME Frame, NEW node \in Triples, NEW a \in born \cup {None},
         \A f \in CameraStages : node[f] \in born \cup {None}, Chained(node, a),
         NEW field, NEW n, NEW p, Hangs(n, p)',
         \/ field = "rotation" /\ p = node.translation /\ node.scalation = None
         \/ field = "scalation" /\ p = node.rotation
  PROVE  Chained([node EXCEPT ![field] = n], a)'
<1>1. Chained(node, a)' BY ChainedKept
<1>2. PICK new : new = [node EXCEPT ![field] = n] OBVIOUS
<1>3. \/ /\ new.translation = node.translation /\ new.rotation = n /\ new.scalation = None
         /\ p = node.translation
      \/ /\ new.translation = node.translation /\ new.rotation = node.rotation
         /\ new.scalation = n /\ p = node.rotation
  BY <1>2 DEF Triples
<1>4. Chained(new, a)' BY <1>1, <1>3 DEF Chained
<1>5. QED BY <1>2, <1>4

LEMMA ConstructorNodes ==
  ASSUME SpriteInv, SpriteInv', NodesInv, StageInv, Constructors
  PROVE  Frame /\ NodesInv'
<1>0. /\ TypeOK /\ MembersOK /\ SpriteTypeOK /\ m_rootnode \in alive \cup {None}
      /\ TypeOK' /\ m_rootnode' \in alive' \cup {None}
  BY SpriteInvParts DEF SpriteInv, SpriteTypeOK, TypeOK
<1>1. ASSUME NEW s \in Sprites, NEW q \in Sprites \cup {Nobody}, NEW p, NewSprite(s, q, p)
      PROVE  Frame /\ NodesInv'
  <2>1. PICK n \in Nodes \ born :
           /\ Frame /\ n \in born'
           /\ call = Returned /\ sprite[s] = Unbuilt
           /\ call' \in SpriteCalls /\ call'.of = s
           /\ call'.node = [NoNodes EXCEPT !.translation = n]
           /\ IF p \in alive
              THEN call'.anchor = p /\ p \in born' /\ Hangs(n, p)'
              ELSE call'.anchor = None
           /\ UNCHANGED <<m_rootnode, camera, sprite>>
    BY <1>1, NewSpriteDoes
  <2>2. /\ \A h \in Holders \ {s} : NodesAt'[h] = NodesAt[h] /\ AnchorAt'[h] = AnchorAt[h]
        /\ NodesAt'[s] = call'.node /\ AnchorAt'[s] = call'.anchor
    BY <2>1, CallGoesOn
  <2>3. NodesAt[s] = NoNodes BY <2>1, SpritesAtRest DEF Unbuilt
  <2>4. /\ NodesAt'[s].translation = n /\ NodesAt'[s].rotation = None /\ NodesAt'[s].scalation = None
    BY <2>1, <2>2 DEF NoNodes
  <2>5. \A g \in CameraStages \ {"translation"} : NodesAt'[s][g] = NodesAt[s][g]
    BY <2>3, <2>4 DEF NoNodes, CameraStages
  <2>6. Chained(NodesAt[s], AnchorAt[s])'
    <3>1. PICK node, a : node = NodesAt'[s] /\ a = AnchorAt'[s] OBVIOUS
    <3>2. a # None => a = p /\ p \in alive BY <2>1, <2>2, <3>1
    <3>3. a # None => Hangs(node.translation, a)' BY <2>1, <2>4, <3>1, <3>2
    <3>4. Chained(node, a)' BY <2>4, <3>1, <3>3 DEF Chained
    <3>5. QED BY <3>1, <3>4 DEF Chained
  <2>7. AnchorAt'[s] \in born' \cup {None} BY <2>1, <2>2
  <2>8. m_rootnode' = m_rootnode /\ m_rootnode \in alive' \cup {None} BY <1>0, <2>1
  <2>9. PICK f : f = "translation" OBVIOUS
  <2>10. s \in Holders /\ f \in CameraStages BY <2>9 DEF Holders, CameraStages
  <2>11. NodesAt'[s][f] = n /\ \A g \in CameraStages \ {f} : NodesAt'[s][g] = NodesAt[s][g]
    BY <2>4, <2>5, <2>9
  <2>12. NodesInv' BY <1>0, <2>1, <2>2, <2>6, <2>7, <2>8, <2>10, <2>11, NodesAdded
  <2>13. QED BY <2>1, <2>12
<1>2. ASSUME NEW s \in Sprites, NewLone(s) PROVE Frame /\ NodesInv'
  <2>1. Frame BY <1>0, <1>2, FrameOfNothing DEF NewLone, vars
  <2>2. /\ call' = call /\ m_rootnode' = m_rootnode /\ camera'.node = camera.node
        /\ \A i \in Sprites : sprite'[i].node = sprite[i].node /\ sprite'[i].anchor = sprite[i].anchor
    BY <1>0, <1>2 DEF NewLone, MembersOK
  <2>3. \A h \in Holders : NodesAt'[h] = NodesAt[h] /\ AnchorAt'[h] = AnchorAt[h]
    BY <2>2, Still
  <2>4. QED BY <2>1, <2>2, <2>3, StillKeeps
<1>3. ASSUME NEW at \in Stages, call \in SpriteCalls, Frame, call' = [call EXCEPT !.at = at],
             UNCHANGED <<m_rootnode, camera, sprite>>
      PROVE  Frame /\ NodesInv'
  <2>1. PICK s : s = call.of OBVIOUS
  <2>2. /\ s \in Sprites /\ call' \in SpriteCalls /\ call'.of = s
        /\ call'.node = call.node /\ call'.anchor = call.anchor
    BY <1>3, <2>1 DEF SpriteCalls
  <2>3. /\ \A h \in Holders \ {s} : NodesAt'[h] = NodesAt[h] /\ AnchorAt'[h] = AnchorAt[h]
        /\ NodesAt'[s] = call'.node /\ AnchorAt'[s] = call'.anchor
    BY <1>3, <2>1, <2>2, CallGoesOn
  <2>4. NodesAt[s] = call.node /\ AnchorAt[s] = call.anchor
    BY <1>3, <2>1, <2>2 DEF NodesAt, AnchorAt, Running, Holders
  <2>5. \A h \in Holders : NodesAt'[h] = NodesAt[h] /\ AnchorAt'[h] = AnchorAt[h]
    BY <2>2, <2>3, <2>4
  <2>6. QED BY <1>3, <2>5, StillKeeps
<1>4. CASE Expire
  <2>1. call \in SpriteCalls BY <1>0, <1>4, SpriteCallCase DEF Expire
  <2>2. Frame BY <1>0, <1>4, FrameOfRelease DEF Expire
  <2>3. QED BY <1>3, <1>4, <2>1, <2>2 DEF Expire, Stages
<1>5. ASSUME NEW above \in {"translation", "rotation"}, NEW field \in {"rotation", "scalation"},
             NEW next \in {"scalation", "position"}, Build(above, field, next),
             field = "rotation" <=> above = "translation"
      PROVE  Frame /\ NodesInv'
  <2>0. above \in CameraStages /\ field \in CameraStages BY DEF CameraStages
  <2>1. /\ call \in SpriteCalls /\ call.at = field /\ sprite[call.of] = Unbuilt /\ Frame
        /\ UNCHANGED <<m_rootnode, camera, sprite>>
        /\ \/ call' = Returned
           \/ \E n, p : p = call.node[above] /\ Adds(n, p, field, next)
    BY <1>5, <2>0, BuildDoes
  <2>2. PICK s : s = call.of OBVIOUS
  <2>3. s \in Sprites /\ s \in Holders BY <2>1, <2>2 DEF SpriteCalls, Holders
  <2>4. NodesAt[s] = call.node /\ AnchorAt[s] = call.anchor
    BY <2>1, <2>2, <2>3 DEF NodesAt, AnchorAt, Running, Holders
  <2>5. CASE call' = Returned
    <3>1. /\ \A h \in Holders \ {s} : NodesAt'[h] = NodesAt[h] /\ AnchorAt'[h] = AnchorAt[h]
          /\ NodesAt'[s] = sprite'[s].node /\ AnchorAt'[s] = sprite'[s].anchor
      BY <2>1, <2>2, <2>3, <2>5, CallReturns
    <3>2. NodesAt'[s] = NoNodes /\ AnchorAt'[s] = None BY <2>1, <2>2, <3>1 DEF Unbuilt
    <3>3. RootKept BY <1>0, <2>1 DEF RootKept
    <3>4. QED BY <1>0, <2>1, <3>1, <3>2, <3>3, NodesStay
  <2>6. ASSUME NEW n, NEW p, p = call.node[above], Adds(n, p, field, next) PROVE Frame /\ NodesInv'
    <3>0. PICK t : t = [call.node EXCEPT ![field] = n] OBVIOUS
    <3>1. /\ n \in Nodes \ born /\ n \in born' /\ p \in alive /\ Hangs(n, p)' /\ call' \in SpriteCalls
          /\ call'.of = s /\ call'.anchor = call.anchor /\ call'.node = [call.node EXCEPT ![field] = n]
      <4>1. /\ n \in Nodes \ born /\ n \in born' /\ p \in alive /\ Hangs(n, p)' /\ call' \in SpriteCalls
            /\ call' = [call EXCEPT !.at = next, !.node = t]
        BY <2>6, <3>0 DEF Adds
      <4>2. call'.of = call.of /\ call'.anchor = call.anchor /\ call'.node = t
        BY <2>1, <4>1 DEF SpriteCalls
      <4>3. QED BY <2>2, <3>0, <4>1, <4>2
    <3>2. /\ \A h \in Holders \ {s} : NodesAt'[h] = NodesAt[h] /\ AnchorAt'[h] = AnchorAt[h]
          /\ NodesAt'[s] = call'.node /\ AnchorAt'[s] = call'.anchor
      BY <2>1, <2>2, <2>3, <3>1, CallGoesOn
    <3>3. call.node \in Triples BY <2>1 DEF SpriteCalls
    <3>4. NodesAt'[s][field] = n /\ \A g \in CameraStages \ {field} : NodesAt'[s][g] = NodesAt[s][g]
      BY <2>0, <2>4, <3>1, <3>2, <3>3 DEF Triples, CameraStages
    <3>5. Chained(NodesAt[s], AnchorAt[s])'
      <4>1. PICK node, a : node = NodesAt[s] /\ a = AnchorAt[s] OBVIOUS
      <4>2. /\ a \in born \cup {None} /\ Chained(node, a) /\ node \in Triples
            /\ \A f \in CameraStages : node[f] \in born \cup {None}
        BY <2>3, <2>4, <3>3, <4>1 DEF NodesInv, NodesBorn, NodesChained
      <4>3. \/ field = "rotation" /\ p = node.translation /\ node.scalation = None
            \/ field = "scalation" /\ p = node.rotation
        BY <1>5, <2>1, <2>4, <2>6, <4>1 DEF StageInv, CallStages
      <4>4. Chained([node EXCEPT ![field] = n], a)'
        BY <2>1, <3>1, <4>2, <4>3, ChainedBelow
      <4>5. NodesAt'[s] = [node EXCEPT ![field] = n] /\ AnchorAt'[s] = a
        BY <2>4, <3>1, <3>2, <4>1
      <4>6. QED BY <4>4, <4>5 DEF Chained
    <3>6. AnchorAt'[s] \in born' \cup {None}
      BY <2>1, <2>3, <2>4, <3>1, <3>2 DEF NodesInv, NodesBorn, Frame
    <3>7. m_rootnode' = m_rootnode /\ m_rootnode \in alive' \cup {None} BY <1>0, <2>1
    <3>8. NodesInv'
      BY <1>0, <2>0, <2>1, <2>3, <3>1, <3>2, <3>4, <3>5, <3>6, <3>7, NodesAdded
    <3>9. QED BY <2>1, <3>8
  <2>7. QED BY <2>1, <2>5, <2>6
<1>6. CASE Place
  <2>1. call \in SpriteCalls BY <1>0, <1>6, SpriteCallCase DEF Place
  <2>2. Translation(<<0, 0, 0>>) \in Operators /\ Write(call.node.translation, Translation(<<0, 0, 0>>))
    BY <1>6 DEF Place
  <2>3. Frame BY <1>0, <2>2, FrameOfWrite
  <2>4. QED BY <1>3, <1>6, <2>1, <2>3 DEF Place, Stages
<1>7. CASE Finish
  <2>1. call \in SpriteCalls BY <1>0, <1>7, SpriteCallCase DEF Finish
  <2>2. Scaling(<<0, 0, 0>>) \in Operators /\ Write(call.node.scalation, Scaling(<<0, 0, 0>>))
    BY <1>7 DEF Finish
  <2>3. Frame BY <1>0, <2>2, FrameOfWrite
  <2>4. PICK s : s = call.of OBVIOUS
  <2>5. s \in Sprites BY <2>1, <2>4 DEF SpriteCalls
  <2>6. /\ call' = Returned /\ UNCHANGED <<m_rootnode, camera>>
        /\ \A i \in Sprites \ {s} : sprite'[i] = sprite[i]
        /\ \/ sprite'[s].node = call.node /\ sprite'[s].anchor = call.anchor
           \/ sprite'[s].node = NoNodes /\ sprite'[s].anchor = None
    BY <1>0, <1>7, <2>4, <2>5 DEF Finish, MembersOK, Unbuilt
  <2>7. /\ \A h \in Holders \ {s} : NodesAt'[h] = NodesAt[h] /\ AnchorAt'[h] = AnchorAt[h]
        /\ NodesAt[s] = call.node /\ NodesAt'[s] = sprite'[s].node
        /\ AnchorAt[s] = call.anchor /\ AnchorAt'[s] = sprite'[s].anchor
    BY <2>1, <2>4, <2>5, <2>6, CallReturns
  <2>8. RootKept BY <1>0, <2>6 DEF RootKept
  <2>9. QED BY <1>0, <2>3, <2>6, <2>7, <2>8, NodesStay
<1>8. QED
  <2>1. ASSUME NEW s \in Sprites, NEW q \in Sprites, NewSprite(s, q, sprite[q].node.rotation)
        PROVE  Frame /\ NodesInv'
    <3>1. PICK p : p = sprite[q].node.rotation OBVIOUS
    <3>2. QED BY <1>1, <2>1, <3>1
  <2>2. QED BY <1>1, <1>2, <1>4, <1>5, <1>6, <1>7, <2>1 DEF Constructors

LEMMA SetterNodes ==
  ASSUME SpriteInv, SpriteInv', NodesInv, StageInv, Setters
  PROVE  Frame /\ NodesInv'
<1>0. /\ TypeOK /\ MembersOK /\ m_rootnode \in alive \cup {None}
      /\ TypeOK' /\ m_rootnode' \in alive' \cup {None}
  BY SpriteInvParts DEF SpriteInv, SpriteTypeOK, TypeOK
<1>1. ASSUME Frame, UNCHANGED <<m_rootnode, camera, call>>,
             \A i \in Sprites : sprite'[i].node = sprite[i].node /\ sprite'[i].anchor = sprite[i].anchor
      PROVE  Frame /\ NodesInv'
  <2>1. \A h \in Holders : NodesAt'[h] = NodesAt[h] /\ AnchorAt'[h] = AnchorAt[h]
    BY <1>1, Still
  <2>2. QED BY <1>1, <2>1, StillKeeps
<1>2. ASSUME NEW s \in Sprites, NEW pos \in Positions, SetPosition(s, pos) PROVE Frame /\ NodesInv'
  <2>1. Translation(pos) \in Operators /\ Write(sprite[s].node.translation, Translation(pos))
    BY <1>2 DEF SetPosition
  <2>2. Frame BY <1>0, <2>1, FrameOfWrite
  <2>3. QED BY <1>0, <1>1, <1>2, <2>2 DEF SetPosition, MembersOK
<1>3. ASSUME NEW s \in Sprites, NEW size \in Scales, SetScale(s, size) PROVE Frame /\ NodesInv'
  <2>1. Scaling(size) \in Operators /\ Write(sprite[s].node.scalation, Scaling(size))
    BY <1>3 DEF SetScale
  <2>2. Frame BY <1>0, <2>1, FrameOfWrite
  <2>3. QED BY <1>0, <1>1, <1>3, <2>2 DEF SetScale, MembersOK
<1>4. ASSUME NEW s \in Sprites, NEW r \in Angles, SetRotation(s, r) PROVE Frame /\ NodesInv'
  <2> DEFINE m == Rotation(r, sprite[s].size[1], sprite[s].size[2])
  <2>1. /\ m \in Operators /\ Write(sprite[s].node.rotation, m)
        /\ sprite' = [sprite EXCEPT ![s].turned = m] \/ sprite' = sprite
        /\ UNCHANGED <<m_rootnode, m_size, camera, call>>
    BY <1>0, <1>4 DEF SetRotation, MembersOK
  <2> HIDE DEF m
  <2>2. Frame BY <1>0, <2>1, FrameOfWrite
  <2>3. QED BY <1>0, <1>1, <2>1, <2>2 DEF MembersOK
<1>5. ASSUME NEW s \in Sprites, NEW q \in Sprites \cup {Nobody}, SetParentSprite(s, q)
      PROVE  Frame /\ NodesInv'
  <2>1. Frame BY <1>0, <1>5, FrameOfNothing DEF SetParentSprite, vars
  <2>2. QED BY <1>0, <1>1, <1>5, <2>1 DEF SetParentSprite, MembersOK
<1>6. ASSUME NEW s \in Sprites, Destroy(s) PROVE Frame /\ NodesInv'
  <2>1. Frame BY <1>0, <1>6, FrameOfNothing DEF Destroy, vars
  <2>2. /\ call = Returned /\ call' = Returned /\ UNCHANGED <<m_rootnode, camera>>
        /\ sprite'[s] = Unbuilt /\ \A i \in Sprites \ {s} : sprite'[i] = sprite[i]
    BY <1>0, <1>6 DEF Destroy, Has, Quiet, MembersOK
  <2>3. call \notin SpriteCalls /\ call' \notin SpriteCalls BY <2>2, NotRunning
  <2>4. /\ \A h \in Holders \ {s} : NodesAt'[h] = NodesAt[h] /\ AnchorAt'[h] = AnchorAt[h]
        /\ NodesAt'[s] = NoNodes /\ AnchorAt'[s] = None
    BY <2>2, <2>3 DEF NodesAt, AnchorAt, Holders, Running, Unbuilt
  <2>5. RootKept BY <1>0, <2>2 DEF RootKept
  <2>6. QED BY <1>0, <2>1, <2>4, <2>5, NodesStay
<1>7. ASSUME NEW n, Keep(n) PROVE Frame /\ NodesInv'
  <2>1. Frame BY <1>0, <1>7, FrameOfNothing DEF Keep, Hold
  <2>2. QED BY <1>1, <1>7, <2>1 DEF Keep, others
<1>8. ASSUME NEW n, Drop(n) PROVE Frame /\ NodesInv'
  <2>1. Frame BY <1>0, <1>8, FrameOfRelease DEF Drop
  <2>2. QED BY <1>1, <1>8, <2>1 DEF Drop, others
<1>9. QED BY <1>2, <1>3, <1>4, <1>5, <1>6, <1>7, <1>8 DEF Setters

LEMMA NodesStep ==
  ASSUME SpriteInv, SpriteInv', NodesInv, StageInv, [SpriteNext]_spriteVars
  PROVE  Frame /\ NodesInv'
<1>1. TypeOK BY DEF SpriteInv, SpriteTypeOK
<1>2. CASE (Recalculate /\ UNCHANGED others) \/ UNCHANGED spriteVars
  <2>1. /\ UNCHANGED <<born, alive, m_parent, m_children, m_operator_matrix>>
        /\ UNCHANGED <<m_rootnode, camera, sprite, call>>
    BY <1>2 DEF Recalculate, graph, others, spriteVars, vars
  <2>2. Frame BY <1>1, <2>1, FrameOfNothing
  <2>3. \A h \in Holders : NodesAt'[h] = NodesAt[h] /\ AnchorAt'[h] = AnchorAt[h]
    BY <2>1, Still
  <2>4. QED BY <2>1, <2>2, <2>3, StillKeeps
<1>3. QED BY <1>2, RendererNodes, ConstructorNodes, SetterNodes DEF SpriteNext

\* Who is not at a camera's constructor keeps its promise when nothing of it
\* changes, and likewise for the sprites.
LEMMA CameraStagesKept ==
  ASSUME StageInv, camera'.node = camera.node, call \in {Returned} \cup SpriteCalls,
         call' \in {Returned} \cup SpriteCalls
  PROVE  CameraStagesOK'
<1>1. \A c \in {Returned} \cup SpriteCalls : c \notin CameraCalls
  <2>1. Returned \notin CameraCalls BY ReturnedCall DEF CameraCalls
  <2>2. \A c \in SpriteCalls : c.of # Nobody BY DEF SpriteCalls
  <2>3. QED BY <2>1, <2>2 DEF CameraCalls
<1>2. camera.node = NoNodes \/ Whole(camera.node) BY <1>1 DEF StageInv, CameraStagesOK
<1>3. QED BY <1>1, <1>2 DEF CameraStagesOK, Whole

LEMMA RendererStages ==
  ASSUME SpriteInv, StageInv, Renderer
  PROVE  StageInv'
<1>0. TypeOK /\ MembersOK /\ SpriteTypeOK BY SpriteInvParts DEF SpriteInv
<1>1. SpriteStages' /\ CallStages'
  <2>1. sprite' = sprite /\ call' \in {Returned} \cup CameraCalls
    <3>1. /\ [at |-> "translation", of |-> Nobody] \in CameraCalls
          /\ [at |-> "rotation", of |-> Nobody] \in CameraCalls
          /\ [at |-> "scalation", of |-> Nobody] \in CameraCalls
      BY DEF CameraCalls, CameraStages
    <3>2. QED
      BY <3>1 DEF Renderer, NewRenderer, BuildCamera, Resize, Close, Move, Rotate, Zoom, Quiet
  <2>2. call' \notin SpriteCalls BY <2>1, NotRunning
  <2>3. SpriteStages' BY <2>1 DEF StageInv, SpriteStages
  <2>4. QED BY <2>2, <2>3 DEF CallStages
<1>2. ASSUME NEW at, at = Returned \/ at = [at |-> "translation", of |-> Nobody], NewRenderer(at)
      PROVE  CameraStagesOK'
  <2>1. PICK n : n = Fresh OBVIOUS
  <2>2. New(n, None, Projection(<<1, 1>>)) /\ Projection(<<1, 1>>) \in Operators
    BY <1>2, <2>1 DEF NewRenderer
  <2>3. n \in Nodes BY <1>0, <2>2, FrameOfNew
  <2>4. m_rootnode' # None /\ camera'.node = NoNodes /\ call' = at
    BY <1>2, <2>1, <2>3, NoneAssumption DEF NewRenderer, NoCamera
  <2>5. Returned \notin CameraCalls BY ReturnedCall DEF CameraCalls
  <2>6. CASE at = Returned BY <2>4, <2>5, <2>6 DEF CameraStagesOK
  <2>7. CASE at = [at |-> "translation", of |-> Nobody] BY <2>4, <2>7 DEF CameraStagesOK
  <2>8. QED BY <1>2, <2>6, <2>7
<1>3. ASSUME NEW field \in CameraStages, NEW p, NEW at, BuildCamera(field, p, at),
             \/ field = "translation" /\ at = [at |-> "rotation", of |-> Nobody]
             \/ field = "rotation" /\ at = [at |-> "scalation", of |-> Nobody]
             \/ field = "scalation" /\ at = Returned
      PROVE  CameraStagesOK'
  <2>1. PICK n : n = Fresh OBVIOUS
  <2>2. AddChild(p, n, Identity) /\ Identity \in Operators
    BY <1>3, <2>1 DEF BuildCamera
  <2>3. n \in Nodes BY <1>0, <2>2, FrameOfAddChild
  <2>4. /\ call = [at |-> field, of |-> Nobody] /\ call' = at /\ m_rootnode' = m_rootnode
        /\ camera' = [camera EXCEPT !.node[field] = n]
    BY <1>3, <2>1 DEF BuildCamera
  <2>5. call \in CameraCalls BY <2>4 DEF CameraCalls
  <2>6. camera.node \in Triples /\ camera'.node = [camera.node EXCEPT ![field] = n]
    BY <1>0, <2>4 DEF MembersOK, Cameras, Triples, CameraStages
  <2>7. n # None BY <2>3, NoneAssumption
  <2>8. CameraStagesOK BY DEF StageInv
  <2>9. m_rootnode' # None BY <2>4, <2>5, <2>8 DEF CameraStagesOK
  <2>10. CASE field = "translation"
    <3>1. camera.node = NoNodes BY <2>4, <2>5, <2>8, <2>10 DEF CameraStagesOK
    <3>2. /\ camera'.node.translation = n /\ camera'.node.rotation = None
          /\ camera'.node.scalation = None
      BY <2>6, <2>10, <3>1 DEF NoNodes
    <3>3. at.at = "rotation" /\ at \in CameraCalls BY <1>3, <2>10 DEF CameraCalls, CameraStages
    <3>4. QED BY <2>4, <2>7, <2>9, <3>2, <3>3 DEF CameraStagesOK
  <2>11. CASE field = "rotation"
    <3>1. camera.node.translation # None /\ camera.node.scalation = None
      BY <2>4, <2>5, <2>8, <2>11 DEF CameraStagesOK
    <3>2. /\ camera'.node.translation = camera.node.translation
          /\ camera'.node.rotation = n /\ camera'.node.scalation = None
      BY <2>6, <2>11, <3>1 DEF Triples
    <3>3. at.at = "scalation" /\ at \in CameraCalls BY <1>3, <2>11 DEF CameraCalls, CameraStages
    <3>4. QED BY <2>4, <2>7, <2>9, <3>1, <3>2, <3>3 DEF CameraStagesOK
  <2>12. CASE field = "scalation"
    <3>1. camera.node.translation # None /\ camera.node.rotation # None
      BY <2>4, <2>5, <2>8, <2>12 DEF CameraStagesOK
    <3>2. /\ camera'.node.translation = camera.node.translation
          /\ camera'.node.rotation = camera.node.rotation /\ camera'.node.scalation = n
      BY <2>6, <2>12, <3>1 DEF Triples
    <3>3. Whole(camera'.node) BY <2>7, <3>1, <3>2 DEF Whole
    <3>4. call' \notin CameraCalls BY <1>3, <2>4, <2>12, ReturnedCall DEF CameraCalls
    <3>5. QED BY <3>3, <3>4 DEF CameraStagesOK, Whole
  <2>13. QED BY <2>10, <2>11, <2>12 DEF CameraStages
<1>4. ASSUME call = Returned, call' = Returned, camera'.node = camera.node PROVE CameraStagesOK'
  BY <1>4, CameraStagesKept
<1>5. ASSUME NEW size, Resize(size) PROVE CameraStagesOK'
  BY <1>4, <1>5 DEF Resize, Quiet
<1>6. ASSUME Close PROVE CameraStagesOK'
  BY <1>4, <1>6 DEF Close, Quiet
<1>7. ASSUME NEW x, NEW y, Move(x, y) PROVE CameraStagesOK'
  <2>1. camera'.node = camera.node BY <1>0, <1>7 DEF Move, MembersOK, Cameras
  <2>2. QED BY <1>4, <1>7, <2>1 DEF Move, Quiet
<1>8. ASSUME NEW r, Rotate(r) PROVE CameraStagesOK'
  <2>1. camera'.node = camera.node BY <1>0, <1>8 DEF Rotate, MembersOK, Cameras
  <2>2. QED BY <1>4, <1>8, <2>1 DEF Rotate, Quiet
<1>9. ASSUME NEW z, NEW pos, Zoom(z, pos) PROVE CameraStagesOK'
  <2>1. camera'.node = camera.node BY <1>0, <1>9 DEF Zoom, MembersOK, Cameras
  <2>2. QED BY <1>4, <1>9, <2>1 DEF Zoom, Quiet
<1>10. CameraStages = {"translation", "rotation", "scalation"} BY DEF CameraStages
<1>11. CameraStagesOK'
  BY <1>2, <1>3, <1>5, <1>6, <1>7, <1>8, <1>9, <1>10 DEF Renderer
<1>12. QED BY <1>1, <1>11 DEF StageInv

\* Without another owner the only node of a call dies with the temporary.
LEMMA TemporaryDies ==
  ASSUME TypeOK, NEW n, Release(n), \A p \in Nodes : n \notin Range(m_children[p])
  PROVE  n \notin alive'
<1>1. PICK s \in SUBSET alive : Owned(held', s) /\ alive' = s /\ held' = held \ {n}
  BY DEF Release
<1>2. SUFFICES ASSUME n \in s PROVE FALSE BY <1>1
<1>3. PICK p \in s : n \in Range(m_children[p]) BY <1>1, <1>2 DEF Owned
<1>4. QED BY <1>1, <1>3 DEF TypeOK

LEMMA ConstructorStages ==
  ASSUME SpriteInv, SpriteInv', StageInv, ChildrenAlive, Constructors
  PROVE  StageInv'
<1>0. TypeOK /\ MembersOK /\ SpriteTypeOK BY SpriteInvParts DEF SpriteInv
<1>1. ASSUME camera' = camera, call \in {Returned} \cup SpriteCalls,
             call' \in {Returned} \cup SpriteCalls, SpriteStages', CallStages'
      PROVE  StageInv'
  BY <1>1, CameraStagesKept DEF StageInv
<1>2. ASSUME sprite' = sprite PROVE SpriteStages'
  BY <1>2 DEF StageInv, SpriteStages
<1>3. ASSUME NEW s \in Sprites, NEW q \in Sprites \cup {Nobody}, NEW p, NewSprite(s, q, p)
      PROVE  StageInv'
  <2>1. PICK n \in Nodes \ born :
           /\ call = Returned /\ ~sprite'[s].built
           /\ call' \in SpriteCalls /\ call'.of = s
           /\ call'.node = [NoNodes EXCEPT !.translation = n]
           /\ IF p \in alive
              THEN call'.at = "rotation" /\ call'.anchor = p /\ p \in alive'
              ELSE call'.at = "temporary" /\ call'.anchor = None /\ m_children' = m_children
           /\ UNCHANGED <<m_rootnode, m_size, camera, sprite>>
    BY <1>3, NewSpriteDoes
  <2>2. n # None /\ p \in alive => p # None BY <1>0, NoneAssumption DEF TypeOK
  <2>3. \A r \in Nodes : n \notin Range(m_children[r])
    BY <1>0 DEF ChildrenAlive, TypeOK
  <2>4. /\ call'.node.translation = n /\ call'.node.rotation = None /\ call'.node.scalation = None
    BY <2>1 DEF NoNodes
  <2>5. CallStages'
    <3>1. CASE p \in alive BY <2>1, <2>2, <2>4, <3>1 DEF CallStages
    <3>2. CASE p \notin alive BY <2>1, <2>2, <2>3, <2>4, <3>2 DEF CallStages
    <3>3. QED BY <3>1, <3>2
  <2>6. QED BY <1>1, <1>2, <2>1, <2>5
<1>4. ASSUME NEW s \in Sprites, NewLone(s) PROVE StageInv'
  <2>1. /\ call = Returned /\ call' = Returned /\ camera' = camera
        /\ sprite[s] = Unbuilt /\ sprite' = [sprite EXCEPT ![s].built = TRUE]
    BY <1>4 DEF NewLone, Quiet, StageInv, SpriteStages
  <2>2. sprite'[s].node = NoNodes /\ \A i \in Sprites \ {s} : sprite'[i] = sprite[i]
    BY <1>0, <2>1 DEF MembersOK, Unbuilt
  <2>3. sprite'[s].built BY <1>0, <2>1 DEF MembersOK
  <2>4. SpriteStages' BY <2>2, <2>3 DEF StageInv, SpriteStages
  <2>5. CallStages' BY <2>1, NotRunning DEF CallStages
  <2>6. QED BY <1>1, <2>1, <2>4, <2>5
<1>5. ASSUME Expire PROVE StageInv'
  <2>1. call \in SpriteCalls /\ call.at = "temporary" BY <1>0, <1>5, SpriteCallCase DEF Expire
  <2>2. PICK n : n = call.node.translation OBVIOUS
  <2>3. Release(n) /\ call' = [call EXCEPT !.at = "rotation"] /\ camera' = camera /\ sprite' = sprite
    BY <1>5, <2>2 DEF Expire
  <2>4. /\ ~sprite[call.of].built /\ n # None /\ call.node.rotation = None
        /\ call.node.scalation = None /\ \A p \in Nodes : n \notin Range(m_children[p])
        /\ call.anchor = None
    BY <2>1, <2>2 DEF StageInv, CallStages
  <2>5. n \notin alive' BY <1>0, <2>3, <2>4, TemporaryDies
  <2>6. /\ call' \in SpriteCalls /\ call'.at = "rotation" /\ call'.of = call.of
        /\ call'.node = call.node /\ call'.anchor = None
    BY <2>1, <2>3, <2>4 DEF SpriteCalls, Stages
  <2>7. CallStages' BY <2>2, <2>3, <2>4, <2>5, <2>6 DEF CallStages
  <2>8. QED BY <1>1, <1>2, <2>1, <2>3, <2>6, <2>7
<1>6. ASSUME NEW above \in CameraStages, NEW field \in {"rotation", "scalation"},
             NEW next \in {"scalation", "position"}, Build(above, field, next),
             \/ above = "translation" /\ field = "rotation" /\ next = "scalation"
             \/ above = "rotation" /\ field = "scalation" /\ next = "position"
      PROVE  StageInv'
  <2>1. /\ call \in SpriteCalls /\ call.at = field /\ ~sprite[call.of].built
        /\ UNCHANGED <<m_rootnode, m_size, camera, sprite>>
        /\ \/ call' = Returned
           \/ \E n, p : p = call.node[above] /\ Adds(n, p, field, next)
    BY <1>6, BuildDoes
  <2>2. CASE call' = Returned
    <3>1. CallStages' BY <2>2, NotRunning DEF CallStages
    <3>2. QED BY <1>1, <1>2, <2>1, <2>2, <3>1
  <2>3. ASSUME NEW n, NEW p, p = call.node[above], Adds(n, p, field, next) PROVE StageInv'
    <3>1. PICK t : t = [call.node EXCEPT ![field] = n] OBVIOUS
    <3>2. /\ n \in Nodes /\ n # None /\ p \in alive /\ call' \in SpriteCalls
          /\ call' = [call EXCEPT !.at = next, !.node = t] /\ alive \subseteq alive'
      BY <2>3, <3>1, NoneAssumption DEF Adds
    <3>3. /\ call'.of = call.of /\ call'.anchor = call.anchor /\ call'.node = t /\ call'.at = next
          /\ call.node \in Triples
      BY <2>1, <3>2 DEF SpriteCalls
    <3>4. call.node.translation # None /\ (call.anchor = None => call.at = "rotation" /\ call.node.translation \notin alive)
      BY <1>6, <2>1 DEF StageInv, CallStages
    <3>5. CASE above = "translation" /\ field = "rotation" /\ next = "scalation"
      <4>1. call.node.scalation = None BY <2>1, <3>5 DEF StageInv, CallStages
      <4>2. t.translation = call.node.translation /\ t.rotation = n /\ t.scalation = None
        BY <3>1, <3>3, <3>5, <4>1 DEF Triples
      <4>3. call.anchor # None /\ call.anchor \in alive'
        BY <2>1, <2>3, <3>2, <3>4, <3>5 DEF StageInv, CallStages
      <4>4. CallStages' BY <2>1, <3>2, <3>3, <3>4, <3>5, <4>2, <4>3 DEF CallStages
      <4>5. QED BY <1>1, <1>2, <2>1, <3>2, <4>4
    <3>6. CASE above = "rotation" /\ field = "scalation" /\ next = "position"
      <4>1. call.node.rotation # None BY <2>1, <3>6 DEF StageInv, CallStages
      <4>2. /\ t.translation = call.node.translation /\ t.rotation = call.node.rotation
            /\ t.scalation = n
        BY <3>1, <3>3, <3>6 DEF Triples
      <4>3. Whole(t) BY <3>2, <3>4, <4>1, <4>2 DEF Whole
      <4>4. call.anchor # None /\ call.anchor \in alive'
        BY <2>1, <3>2, <3>4, <3>6 DEF StageInv, CallStages
      <4>5. CallStages' BY <2>1, <3>2, <3>3, <3>4, <3>6, <4>2, <4>3, <4>4 DEF CallStages, Whole
      <4>6. QED BY <1>1, <1>2, <2>1, <3>2, <4>5
    <3>7. QED BY <1>6, <3>5, <3>6
  <2>4. QED BY <2>1, <2>2, <2>3
<1>7. ASSUME Place PROVE StageInv'
  <2>1. call \in SpriteCalls BY <1>0, <1>7, SpriteCallCase DEF Place
  <2>2. /\ call.at = "position" /\ call' = [call EXCEPT !.at = "scale"]
        /\ camera' = camera /\ sprite' = sprite /\ alive' = alive
    BY <1>7 DEF Place, Write, ChangeMatrix, vars
  <2>3. /\ call' \in SpriteCalls /\ call'.at = "scale" /\ call'.of = call.of
        /\ call'.node = call.node /\ call'.anchor = call.anchor
    BY <2>1, <2>2 DEF SpriteCalls, Stages
  <2>4. /\ ~sprite[call.of].built /\ Whole(call.node) /\ call.node.translation # None
        /\ call.anchor # None /\ call.anchor \in alive
    BY <2>1, <2>2 DEF StageInv, CallStages
  <2>5. CallStages' BY <2>2, <2>3, <2>4 DEF CallStages, Whole
  <2>6. QED BY <1>1, <1>2, <2>1, <2>2, <2>3, <2>5
<1>8. ASSUME Finish PROVE StageInv'
  <2>1. call \in SpriteCalls BY <1>0, <1>8, SpriteCallCase DEF Finish
  <2>2. PICK s : s = call.of OBVIOUS
  <2>3. s \in Sprites BY <2>1, <2>2 DEF SpriteCalls
  <2>4. Whole(call.node) /\ call.anchor # None
    BY <1>8, <2>1 DEF StageInv, CallStages, Finish
  <2>5. /\ call' = Returned /\ camera' = camera /\ sprite'[s].built
        /\ \A i \in Sprites \ {s} : sprite'[i] = sprite[i]
        /\ \/ sprite'[s].node = call.node /\ sprite'[s].anchor = call.anchor
           \/ sprite'[s].node = NoNodes
    BY <1>0, <1>8, <2>2, <2>3 DEF Finish, MembersOK, Unbuilt
  <2>6. SpriteStages' BY <2>4, <2>5 DEF StageInv, SpriteStages, Whole
  <2>7. CallStages' BY <2>5, NotRunning DEF CallStages
  <2>8. QED BY <1>1, <2>1, <2>5, <2>6, <2>7
<1>9. {"translation", "rotation"} \subseteq CameraStages BY DEF CameraStages
<1>10. QED
  <2>1. ASSUME NEW s \in Sprites, NEW q \in Sprites, NewSprite(s, q, sprite[q].node.rotation)
        PROVE  StageInv'
    <3>1. PICK p : p = sprite[q].node.rotation OBVIOUS
    <3>2. QED BY <1>3, <2>1, <3>1
  <2>2. QED BY <1>3, <1>4, <1>5, <1>6, <1>7, <1>8, <1>9, <2>1 DEF Constructors

LEMMA SetterStages ==
  ASSUME SpriteInv, StageInv, Setters
  PROVE  StageInv'
<1>0. MembersOK BY SpriteInvParts
<1>1. /\ call = Returned /\ call' = Returned /\ camera' = camera
  BY DEF Setters, SetPosition, SetScale, SetRotation, SetParentSprite, Destroy, Keep, Drop,
         Has, Quiet, others
<1>2. CameraStagesOK' BY <1>1, CameraStagesKept
<1>3. CallStages' BY <1>1, NotRunning DEF CallStages
<1>4. SpriteStages
  BY DEF StageInv
<1>5. ASSUME NEW s \in Sprites, sprite[s].built, sprite'[s].built,
             sprite'[s].node = sprite[s].node, sprite'[s].anchor = sprite[s].anchor,
             \A i \in Sprites \ {s} : sprite'[i] = sprite[i]
      PROVE  SpriteStages'
  BY <1>4, <1>5 DEF SpriteStages, Whole
<1>6. ASSUME NEW s \in Sprites, NEW pos, SetPosition(s, pos) PROVE SpriteStages'
  BY <1>0, <1>5, <1>6 DEF SetPosition, Has, MembersOK
<1>7. ASSUME NEW s \in Sprites, NEW size, SetScale(s, size) PROVE SpriteStages'
  BY <1>0, <1>5, <1>7 DEF SetScale, Has, MembersOK
<1>8. ASSUME NEW s \in Sprites, NEW r, SetRotation(s, r) PROVE SpriteStages'
  <2> DEFINE m == Rotation(r, sprite[s].size[1], sprite[s].size[2])
  <2>1. sprite[s].built /\ (sprite' = [sprite EXCEPT ![s].turned = m] \/ sprite' = sprite)
    BY <1>8 DEF SetRotation, Has
  <2> HIDE DEF m
  <2>2. QED BY <1>0, <1>5, <2>1 DEF MembersOK
<1>9. ASSUME NEW s \in Sprites, NEW q, SetParentSprite(s, q) PROVE SpriteStages'
  BY <1>0, <1>5, <1>9 DEF SetParentSprite, Has, MembersOK
<1>10. ASSUME NEW s \in Sprites, Destroy(s) PROVE SpriteStages'
  <2>1. sprite'[s] = Unbuilt /\ \A i \in Sprites \ {s} : sprite'[i] = sprite[i]
    BY <1>0, <1>10 DEF Destroy, MembersOK
  <2>2. ~Unbuilt.built BY DEF Unbuilt
  <2>3. QED BY <1>4, <2>1, <2>2 DEF SpriteStages
<1>11. ASSUME NEW n, Keep(n) \/ Drop(n) PROVE SpriteStages'
  BY <1>4, <1>11 DEF Keep, Drop, others, SpriteStages
<1>12. SpriteStages' BY <1>6, <1>7, <1>8, <1>9, <1>10, <1>11 DEF Setters
<1>13. QED BY <1>2, <1>3, <1>12 DEF StageInv

LEMMA StageStep ==
  ASSUME SpriteInv, SpriteInv', StageInv, ChildrenAlive, [SpriteNext]_spriteVars
  PROVE  StageInv'
<1>1. CASE (Recalculate /\ UNCHANGED others) \/ UNCHANGED spriteVars
  <2>1. /\ UNCHANGED <<m_rootnode, camera, sprite, call>> /\ alive' = alive
        /\ m_children' = m_children
    BY <1>1 DEF Recalculate, graph, others, spriteVars, vars
  <2>2. QED BY <2>1 DEF StageInv, SpriteStages, CallStages, CameraStagesOK, Whole
<1>2. QED BY <1>1, RendererStages, ConstructorStages, SetterStages DEF SpriteNext

\* The three together, of which every step needs the others.
PlacesInv == ChildrenAlive /\ NodesInv /\ StageInv

LEMMA PlacesInit == SpriteInit => PlacesInv
<1> SUFFICES ASSUME SpriteInit PROVE PlacesInv
  OBVIOUS
<1>1. /\ call = Returned /\ camera.node = NoNodes /\ m_rootnode = None
      /\ \A s \in Sprites : sprite[s] = Unbuilt
      /\ \A p \in Nodes : m_children[p] = <<>>
  BY DEF SpriteInit, Init, NoCamera
<1>2. Range(<<>>) = {} BY DEF Range
<1>3. ChildrenAlive BY <1>1, <1>2 DEF ChildrenAlive
<1>4. \A h \in Holders : NodesAt[h] = NoNodes /\ AnchorAt[h] = None
  BY <1>1, SpritesAtRest DEF Holders, Unbuilt
<1>5. \A h \in Holders, f \in CameraStages : NodesAt[h][f] = None
  BY <1>4 DEF NoNodes, CameraStages
<1>6. NodesInv
  BY <1>1, <1>4, <1>5 DEF NodesInv, NodesBorn, NodesApart, NodesChained, RootHasNoParent, Chained, NoNodes
<1>7. ~Unbuilt.built BY DEF Unbuilt
<1>8. call \notin SpriteCalls /\ call \notin CameraCalls
  BY <1>1, NotRunning, ReturnedCall DEF CameraCalls
<1>9. StageInv BY <1>1, <1>7, <1>8 DEF StageInv, SpriteStages, CallStages, CameraStagesOK
<1>10. QED BY <1>3, <1>6, <1>9 DEF PlacesInv

LEMMA PlacesStep ==
  ASSUME SpriteInv, PlacesInv, [SpriteNext]_spriteVars
  PROVE  SpriteInv' /\ Frame /\ PlacesInv'
<1>1. SpriteInv' /\ [Next]_vars BY SpriteStep
<1>2. TypeOK BY DEF SpriteInv, SpriteTypeOK
<1>3. QED BY <1>1, <1>2, ChildrenAliveStep, NodesStep, StageStep DEF PlacesInv

-----------------------------------------------------------------------------
(* Sprites: the operators of the nodes are those of the fields                *)

OpIs(n, m) == n \in alive => m_operator_matrix[n] = m

\* The constructor that runs has yet to write the scale; the two other nodes
\* are what they are in a new sprite, which has position 0 and was not turned.
SpriteOperators(s) ==
  /\ OpIs(NodesAt[s].translation, Translation(sprite[s].position))
  /\ OpIs(NodesAt[s].rotation, sprite[s].turned)
  /\ ~Running(s) => OpIs(NodesAt[s].scalation, Scaling(sprite[s].size))

RendererOperators ==
  /\ OpIs(m_rootnode, Projection(m_size))
  /\ OpIs(camera.node.translation, Translation(camera.position))
  /\ OpIs(camera.node.rotation, LastTurn)
  /\ OpIs(camera.node.scalation, Identity)
  /\ camera.node.translation = None => camera.position = <<0, 0, 0>>
  /\ camera.node.rotation = None => camera.last = "none"

OperatorInv == RendererOperators /\ \A s \in Sprites : SpriteOperators(s)

\* A step leaves the operator of n alone, and n dead if it was.
Keeps(n) == n \in alive' => n \in alive /\ m_operator_matrix'[n] = m_operator_matrix[n]

\* A step that writes x keeps all nodes that are not x.
LEMMA KeepsAt ==
  ASSUME TypeOK, NodesInv, m_rootnode \in alive \cup {None}, Frame, NEW x, Rewrites(x)
  PROVE  /\ \A i \in Holders, g \in CameraStages :
              NodesAt[i][g] # x \/ NodesAt[i][g] = None => Keeps(NodesAt[i][g])
         /\ m_rootnode # x \/ m_rootnode = None => Keeps(m_rootnode)
<1>1. ASSUME NEW n \in born \cup {None}, n # x \/ n = None PROVE Keeps(n)
  BY <1>1 DEF Keeps, Frame, Rewrites
<1>2. \A i \in Holders, g \in CameraStages : NodesAt[i][g] \in born \cup {None}
  BY DEF NodesInv, NodesBorn
<1>3. m_rootnode \in born \cup {None} BY DEF TypeOK
<1>4. QED BY <1>1, <1>2, <1>3

\* No node has two places: a write at one keeps all the others.
LEMMA KeepsOthers ==
  ASSUME TypeOK, NodesInv, m_rootnode \in alive \cup {None}, Frame,
         NEW h \in Holders, NEW f \in CameraStages, Rewrites(NodesAt[h][f])
  PROVE  /\ \A i \in Holders, g \in CameraStages : (i = h /\ g = f) \/ Keeps(NodesAt[i][g])
         /\ Keeps(m_rootnode)
<1>1. NodesApart BY DEF NodesInv
<1>2. ASSUME NEW i \in Holders, NEW g \in CameraStages, ~(i = h /\ g = f)
      PROVE  Keeps(NodesAt[i][g])
  <2>1. NodesAt[i][g] # None => NodesAt[i][g] # NodesAt[h][f]
    <3>1. SUFFICES ASSUME NodesAt[i][g] # None, NodesAt[i][g] = NodesAt[h][f] PROVE FALSE
      OBVIOUS
    <3>2. \A j, k \in Holders, a, b \in CameraStages :
            NodesAt[j][a] # None /\ NodesAt[j][a] = NodesAt[k][b] => j = k /\ a = b
      BY <1>1 DEF NodesApart
    <3>3. \A k \in Holders, b \in CameraStages :
            NodesAt[i][g] # None /\ NodesAt[i][g] = NodesAt[k][b] => i = k /\ g = b
      BY <3>2, Zenon
    <3>4. NodesAt[i][g] # None /\ NodesAt[i][g] = NodesAt[h][f] => i = h /\ g = f
      BY <3>3, Zenon
    <3>5. QED BY <1>2, <3>1, <3>4
  <2>2. QED BY <2>1, KeepsAt
<1>3. m_rootnode # None => NodesAt[h][f] # m_rootnode BY <1>1 DEF NodesApart
<1>4. Keeps(m_rootnode) BY <1>3, KeepsAt
<1>5. QED BY <1>2, <1>4

LEMMA RendererOperatorsKept ==
  ASSUME RendererOperators, UNCHANGED <<m_size, camera>>, m_rootnode' \in {m_rootnode, None},
         None \notin alive',
         Keeps(m_rootnode), \A g \in CameraStages : Keeps(camera.node[g])
  PROVE  RendererOperators'
<1>1. LastTurn' = LastTurn BY DEF LastTurn
<1>2. /\ Keeps(camera.node.translation) /\ Keeps(camera.node.rotation)
      /\ Keeps(camera.node.scalation)
  BY DEF CameraStages
<1>3. QED BY <1>1, <1>2 DEF RendererOperators, OpIs, Keeps

LEMMA SpriteOperatorsKept ==
  ASSUME NEW s \in Sprites, SpriteOperators(s), None \notin alive',
         \A g \in CameraStages : Keeps(NodesAt[s][g]),
         \/ NodesAt'[s] = NoNodes
         \/ /\ NodesAt'[s] = NodesAt[s] /\ (Running(s) <=> Running(s)')
            /\ sprite'[s].position = sprite[s].position /\ sprite'[s].turned = sprite[s].turned
            /\ sprite'[s].size = sprite[s].size
  PROVE  SpriteOperators(s)'
<1>1. /\ Keeps(NodesAt[s].translation) /\ Keeps(NodesAt[s].rotation) /\ Keeps(NodesAt[s].scalation)
  BY DEF CameraStages
<1>2. CASE NodesAt'[s] = NoNodes BY <1>2 DEF SpriteOperators, OpIs, NoNodes
<1>3. CASE NodesAt'[s] = NodesAt[s] /\ NodesAt'[s] # NoNodes
  BY <1>1, <1>3 DEF SpriteOperators, OpIs, Keeps
<1>4. QED BY <1>2, <1>3

\* A step of the graph that writes no node somebody has.
LEMMA OperatorsKept ==
  ASSUME SpriteInv, NodesInv, OperatorInv, Frame, Rewrites(None),
         UNCHANGED <<m_size, camera>>, m_rootnode' \in {m_rootnode, None}
  PROVE  /\ RendererOperators'
         /\ \A s \in Sprites :
              (\/ NodesAt'[s] = NoNodes
               \/ /\ NodesAt'[s] = NodesAt[s] /\ (Running(s) <=> Running(s)')
                  /\ sprite'[s].position = sprite[s].position /\ sprite'[s].turned = sprite[s].turned
                  /\ sprite'[s].size = sprite[s].size)
              => SpriteOperators(s)'
<1>1. TypeOK /\ m_rootnode \in alive \cup {None} /\ None \notin alive'
  BY DEF SpriteInv, SpriteTypeOK, TypeOK, Frame
<1>2. /\ \A i \in Holders, g \in CameraStages : Keeps(NodesAt[i][g])
      /\ Keeps(m_rootnode)
  BY <1>1, KeepsAt
<1>3. NodesAt[Nobody] = camera.node BY DEF NodesAt, Holders
<1>4. \A g \in CameraStages : Keeps(camera.node[g])
  BY <1>2, <1>3 DEF Holders
<1>5. RendererOperators' BY <1>1, <1>2, <1>4, RendererOperatorsKept DEF OperatorInv
<1>6. QED BY <1>1, <1>2, <1>5, SpriteOperatorsKept DEF OperatorInv, Holders

LEMMA RendererOperatorsStep ==
  ASSUME SpriteInv, SpriteInv', NodesInv, StageInv, OperatorInv, Renderer
  PROVE  OperatorInv'
<1>0. /\ TypeOK /\ MembersOK /\ m_rootnode \in alive \cup {None}
      /\ RendererOperators /\ \A s \in Sprites : SpriteOperators(s)
  BY SpriteInvParts DEF SpriteInv, SpriteTypeOK, TypeOK, OperatorInv
<1>1. Frame /\ None \notin alive' BY RendererNodes DEF Frame
<1>2. /\ sprite' = sprite /\ \A s \in Sprites : ~Running(s) /\ ~Running(s)'
      /\ \A s \in Sprites : NodesAt[s] = sprite[s].node /\ NodesAt'[s] = sprite[s].node
  <2>1. /\ [at |-> "translation", of |-> Nobody] \in CameraCalls
        /\ [at |-> "rotation", of |-> Nobody] \in CameraCalls
        /\ [at |-> "scalation", of |-> Nobody] \in CameraCalls
    BY DEF CameraCalls, CameraStages
  <2>2. sprite' = sprite /\ call \in {Returned} \cup CameraCalls /\ call' \in {Returned} \cup CameraCalls
    BY <2>1 DEF Renderer, NewRenderer, BuildCamera, Resize, Close, Move, Rotate, Zoom, Quiet
  <2>3. call \notin SpriteCalls /\ call' \notin SpriteCalls BY <2>2, NotRunning
  <2>4. QED BY <2>2, <2>3 DEF Running, NodesAt, Holders
<1>3. NodesAt[Nobody] = camera.node BY DEF NodesAt, Holders
<1>4. ASSUME \A s \in Sprites, g \in CameraStages : Keeps(NodesAt[s][g]), RendererOperators'
      PROVE  OperatorInv'
  <2>1. SUFFICES ASSUME NEW s \in Sprites PROVE SpriteOperators(s)' BY <1>4 DEF OperatorInv
  <2>2. /\ NodesAt'[s] = NodesAt[s] /\ (Running(s) <=> Running(s)') /\ sprite'[s] = sprite[s]
        /\ SpriteOperators(s) /\ \A g \in CameraStages : Keeps(NodesAt[s][g])
    BY <1>0, <1>2, <1>4
  <2>3. QED BY <1>1, <2>2, SpriteOperatorsKept
<1>5. ASSUME Rewrites(None), RendererOperators' PROVE OperatorInv'
  <2>1. \A i \in Holders, g \in CameraStages : Keeps(NodesAt[i][g])
    BY <1>0, <1>1, <1>5, KeepsAt
  <2>2. QED BY <1>4, <1>5, <2>1 DEF Holders
<1>6. ASSUME NEW at, NewRenderer(at) PROVE OperatorInv'
  <2>1. PICK n : n = Fresh OBVIOUS
  <2>2. Projection(<<1, 1>>) \in Operators /\ New(n, None, Projection(<<1, 1>>))
    BY <1>6, <2>1 DEF NewRenderer
  <2>3. Rewrites(None) /\ m_operator_matrix'[n] = Projection(<<1, 1>>)
    BY <1>0, <2>2, FrameOfNew
  <2>4. m_rootnode' = n /\ m_size' = <<1, 1>> /\ camera' = NoCamera
    BY <1>6, <2>1 DEF NewRenderer
  <2>5. RendererOperators'
    BY <1>1, <2>3, <2>4 DEF RendererOperators, OpIs, NoCamera, NoNodes
  <2>6. QED BY <1>5, <2>3, <2>5
<1>7. ASSUME NEW field \in CameraStages, NEW p, NEW at, BuildCamera(field, p, at) PROVE OperatorInv'
  <2>1. PICK n : n = Fresh OBVIOUS
  <2>2. Identity \in Operators /\ AddChild(p, n, Identity)
    BY <1>7, <2>1 DEF BuildCamera
  <2>3. Rewrites(None) /\ m_operator_matrix'[n] = Identity /\ n # None
    BY <1>0, <2>2, FrameOfAddChild, NoneAssumption
  <2>4. /\ call = [at |-> field, of |-> Nobody] /\ UNCHANGED <<m_rootnode, m_size>>
        /\ camera' = [camera EXCEPT !.node[field] = n]
    BY <1>7, <2>1 DEF BuildCamera
  <2>5. /\ camera.node \in Triples /\ camera'.node = [camera.node EXCEPT ![field] = n]
        /\ camera'.position = camera.position /\ camera'.last = camera.last
        /\ LastTurn' = LastTurn
    BY <1>0, <2>4 DEF MembersOK, Cameras, Triples, CameraStages, LastTurn
  <2>6. /\ Keeps(m_rootnode) /\ Keeps(camera.node.translation) /\ Keeps(camera.node.rotation)
        /\ Keeps(camera.node.scalation)
    BY <1>0, <1>1, <1>3, <2>3, KeepsAt DEF Holders, CameraStages
  <2>7. call \in CameraCalls BY <2>4 DEF CameraCalls
  <2>8. OpIs(m_rootnode, Projection(m_size))'
    BY <1>0, <2>4, <2>6 DEF RendererOperators, OpIs, Keeps
  <2>9. CASE field = "translation"
    <3>1. camera.node = NoNodes BY <2>4, <2>7, <2>9 DEF StageInv, CameraStagesOK
    <3>2. /\ camera'.node.translation = n /\ camera'.node.rotation = None
          /\ camera'.node.scalation = None /\ camera'.last = "none"
      BY <1>0, <2>5, <2>9, <3>1 DEF NoNodes, RendererOperators
    <3>3. Translation(camera'.position) = Identity
      BY <1>0, <2>5, <3>1 DEF RendererOperators, NoNodes
    <3>4. RendererOperators' BY <1>1, <2>3, <2>8, <3>2, <3>3 DEF RendererOperators, OpIs
    <3>5. QED BY <1>5, <2>3, <3>4
  <2>10. CASE field = "rotation"
    <3>1. /\ camera'.node.translation = camera.node.translation
          /\ camera'.node.rotation = n /\ camera'.node.scalation = camera.node.scalation
      BY <2>5, <2>10 DEF Triples
    <3>2. camera.node.rotation = None BY <2>4, <2>7, <2>10 DEF StageInv, CameraStagesOK
    <3>3. LastTurn' = Identity BY <1>0, <2>5, <3>2 DEF RendererOperators, LastTurn
    <3>4. RendererOperators'
      BY <1>0, <2>3, <2>5, <2>6, <2>8, <3>1, <3>3 DEF RendererOperators, OpIs, Keeps
    <3>5. QED BY <1>5, <2>3, <3>4
  <2>11. CASE field = "scalation"
    <3>1. /\ camera'.node.translation = camera.node.translation
          /\ camera'.node.rotation = camera.node.rotation /\ camera'.node.scalation = n
      BY <2>5, <2>11 DEF Triples
    <3>2. RendererOperators' BY <1>0, <2>3, <2>5, <2>6, <2>8, <3>1 DEF RendererOperators, OpIs, Keeps
    <3>3. QED BY <1>5, <2>3, <3>2
  <2>12. QED BY <2>9, <2>10, <2>11 DEF CameraStages
<1>8. ASSUME NEW size \in Sizes, Resize(size) PROVE OperatorInv'
  <2>1. /\ Write(m_rootnode, Projection(size)) /\ Projection(size) \in Operators
        /\ m_rootnode # None /\ m_rootnode' = m_rootnode /\ m_size' = size /\ camera' = camera
    BY <1>8 DEF Resize, Write, ChangeMatrix
  <2>2. Rewrites(m_rootnode) /\ (m_rootnode \in alive => m_operator_matrix'[m_rootnode] = Projection(size))
    BY <1>0, <2>1, FrameOfWrite
  <2>3. \A i \in Holders, g \in CameraStages : NodesAt[i][g] # m_rootnode
    BY <2>1 DEF NodesInv, NodesApart
  <2>4. \A i \in Holders, g \in CameraStages : Keeps(NodesAt[i][g])
    BY <1>0, <1>1, <2>2, <2>3, KeepsAt
  <2>5. /\ Keeps(camera.node.translation) /\ Keeps(camera.node.rotation)
        /\ Keeps(camera.node.scalation) /\ LastTurn' = LastTurn
    BY <1>3, <2>1, <2>4 DEF Holders, CameraStages, LastTurn
  <2>6. RendererOperators'
    BY <1>0, <2>1, <2>2, <2>5 DEF RendererOperators, OpIs, Keeps
  <2>7. QED BY <1>4, <2>4, <2>6 DEF Holders
<1>9. CASE Close
  <2>1. Rewrites(None) /\ m_rootnode' = None /\ UNCHANGED <<m_size, camera>>
    BY <1>0, <1>9, FrameOfRelease DEF Close
  <2>2. RendererOperators' BY <1>1, <2>1, OperatorsKept
  <2>3. QED BY <1>5, <2>1, <2>2
<1>10. ASSUME NEW f \in CameraStages, NEW m \in Operators, Write(camera.node[f], m),
              f = "translation" => m = Translation(camera'.position) /\ camera.node.translation # None,
              f # "translation" => camera'.position = camera.position,
              f = "rotation" => m = LastTurn' /\ camera.node.rotation # None,
              f # "rotation" => LastTurn' = LastTurn /\ camera'.last = camera.last,
              f # "scalation",
              camera'.node = camera.node, UNCHANGED <<m_rootnode, m_size>>
       PROVE  OperatorInv'
  <2>1. Rewrites(camera.node[f]) /\ (camera.node[f] \in alive => m_operator_matrix'[camera.node[f]] = m)
    BY <1>0, <1>10, FrameOfWrite
  <2>2. Nobody \in Holders BY DEF Holders
  <2>3. /\ \A i \in Holders, g \in CameraStages : (i = Nobody /\ g = f) \/ Keeps(NodesAt[i][g])
        /\ Keeps(m_rootnode)
    BY <1>0, <1>1, <1>3, <2>1, <2>2, KeepsOthers
  <2>4. \A s \in Sprites, g \in CameraStages : Keeps(NodesAt[s][g])
    BY <2>3 DEF Holders
  <2>5. /\ Keeps(camera.node.scalation) /\ (f # "translation" => Keeps(camera.node.translation))
        /\ f # "rotation" => Keeps(camera.node.rotation)
    BY <1>3, <1>10, <2>2, <2>3 DEF CameraStages
  <2>6. f = "translation" => OpIs(camera.node.translation, Translation(camera.position))'
    BY <1>1, <1>10, <2>1 DEF OpIs, ChangeMatrix, Write, vars
  <2>7. f = "rotation" => OpIs(camera.node.rotation, LastTurn)'
    BY <1>1, <1>10, <2>1 DEF OpIs, ChangeMatrix, Write, vars
  <2>8. RendererOperators'
    BY <1>0, <1>10, <2>3, <2>5, <2>6, <2>7 DEF RendererOperators, OpIs, Keeps
  <2>9. QED BY <1>4, <2>4, <2>8
<1>11. ASSUME NEW x \in Moves, NEW y \in Moves, Move(x, y) PROVE OperatorInv'
  <2> DEFINE pos == <<camera.position[1] + x, camera.position[2] + y, 0>>
  <2>1. /\ pos \in Positions /\ Translation(pos) \in Operators
        /\ Write(camera.node.translation, Translation(pos))
        /\ camera' = [camera EXCEPT !.position = pos] /\ camera.node.translation # None
        /\ UNCHANGED <<m_rootnode, m_size>>
    BY <1>11 DEF Move, HasCamera
  <2> HIDE DEF pos
  <2>2. /\ camera'.position = pos /\ camera'.node = camera.node
        /\ camera'.last = camera.last /\ LastTurn' = LastTurn
    BY <1>0, <2>1 DEF MembersOK, Cameras, LastTurn
  <2>3. PICK f : f = "translation" OBVIOUS
  <2>4. f \in CameraStages /\ Write(camera.node[f], Translation(pos)) BY <2>1, <2>3 DEF CameraStages
  <2>5. QED BY <1>10, <2>1, <2>2, <2>3, <2>4
<1>12. ASSUME NEW m \in Operators, Write(camera.node.rotation, m), camera'.node = camera.node,
              camera'.position = camera.position, m = LastTurn', Quiet, HasCamera,
              UNCHANGED <<m_rootnode, m_size>>
       PROVE  OperatorInv'
  <2>1. PICK f : f = "rotation" OBVIOUS
  <2>2. f \in CameraStages /\ Write(camera.node[f], m) BY <1>12, <2>1 DEF CameraStages
  <2>3. call \notin CameraCalls BY <1>12, ReturnedCall DEF Quiet, CameraCalls
  <2>4. Whole(camera.node) BY <1>12, <2>3 DEF StageInv, CameraStagesOK, HasCamera, NoNodes
  <2>5. camera.node.rotation # None BY <2>4 DEF Whole
  <2>6. QED BY <1>10, <1>12, <2>1, <2>2, <2>5
<1>13. ASSUME NEW r \in Turns, Rotate(r) PROVE OperatorInv'
  <2> DEFINE m == Rotation(camera.angle + r, m_size[1], m_size[2])
  <2>1. /\ m \in Operators /\ Write(camera.node.rotation, m)
        /\ camera'.node = camera.node /\ camera'.position = camera.position
        /\ m = LastTurn' /\ Quiet /\ HasCamera /\ UNCHANGED <<m_rootnode, m_size>>
    BY <1>0, <1>13 DEF Rotate, MembersOK, Cameras, LastTurn
  <2> HIDE DEF m
  <2>2. QED BY <1>12, <2>1
<1>14. ASSUME NEW z \in Zooms, NEW pos \in Points, Zoom(z, pos) PROVE OperatorInv'
  <2> DEFINE zoom == IF camera.zoom + z <= LeastZoom THEN LeastZoom ELSE camera.zoom + z
  <2>1. /\ zoom \in Factors /\ Zooming(zoom, pos) \in Operators
        /\ Write(camera.node.rotation, Zooming(zoom, pos))
        /\ camera'.node = camera.node /\ camera'.position = camera.position
        /\ Zooming(zoom, pos) = LastTurn' /\ Quiet /\ HasCamera
        /\ UNCHANGED <<m_rootnode, m_size>>
    BY <1>0, <1>14 DEF Zoom, MembersOK, Cameras, LastTurn
  <2> HIDE DEF zoom
  <2>2. QED BY <1>12, <2>1
<1>15. CameraStages = {"translation", "rotation", "scalation"} BY DEF CameraStages
<1>16. QED BY <1>6, <1>7, <1>8, <1>9, <1>11, <1>13, <1>14, <1>15 DEF Renderer

LEMMA ConstructorOperatorsStep ==
  ASSUME SpriteInv, SpriteInv', NodesInv, StageInv, OperatorInv, Constructors
  PROVE  OperatorInv'
<1>0. /\ TypeOK /\ MembersOK /\ SpriteTypeOK /\ m_rootnode \in alive \cup {None}
      /\ RendererOperators /\ \A s \in Sprites : SpriteOperators(s)
  BY SpriteInvParts DEF SpriteInv, SpriteTypeOK, TypeOK, OperatorInv
<1>1. Frame /\ None \notin alive' BY ConstructorNodes DEF Frame
<1>2. UNCHANGED <<m_rootnode, m_size, camera>>
  BY DEF Constructors, NewSprite, NewLone, Expire, Build, Place, Finish
<1>3. NodesAt[Nobody] = camera.node BY DEF NodesAt, Holders
<1>4. ASSUME NEW s \in Sprites, call = Returned \/ (call \in SpriteCalls /\ call.of = s),
             call' = Returned \/ (call' \in SpriteCalls /\ call'.of = s),
             \A i \in Sprites \ {s} : sprite'[i] = sprite[i],
             \A i \in Sprites \ {s}, g \in CameraStages : Keeps(NodesAt[i][g]),
             \A g \in CameraStages : Keeps(camera.node[g]), Keeps(m_rootnode),
             SpriteOperators(s)'
      PROVE  OperatorInv'
  <2>1. Returned \notin SpriteCalls BY NotRunning
  <2>2. \A i \in Sprites \ {s} : ~Running(i) /\ ~Running(i)' BY <1>4, <2>1 DEF Running
  <2>3. ASSUME NEW i \in Sprites \ {s} PROVE SpriteOperators(i)'
    <3>1. /\ NodesAt'[i] = NodesAt[i] /\ (Running(i) <=> Running(i)') /\ sprite'[i] = sprite[i]
          /\ SpriteOperators(i) /\ \A g \in CameraStages : Keeps(NodesAt[i][g])
      BY <1>0, <1>4, <2>2 DEF NodesAt, Holders
    <3>2. QED BY <1>1, <3>1, SpriteOperatorsKept
  <2>4. Keeps(camera.node.translation) /\ Keeps(camera.node.scalation)
    BY <1>4 DEF CameraStages
  <2>5. RendererOperators' BY <1>0, <1>1, <1>2, <1>4, <2>4, RendererOperatorsKept
  <2>6. QED BY <1>4, <2>3, <2>5 DEF OperatorInv
<1>5. ASSUME Rewrites(None)
      PROVE  /\ \A i \in Holders, g \in CameraStages : Keeps(NodesAt[i][g])
             /\ \A i \in Sprites, g \in CameraStages : Keeps(NodesAt[i][g])
             /\ \A g \in CameraStages : Keeps(camera.node[g])
             /\ Keeps(m_rootnode)
  <2>1. /\ \A i \in Holders, g \in CameraStages : Keeps(NodesAt[i][g])
        /\ Keeps(m_rootnode)
    BY <1>0, <1>1, <1>5, KeepsAt
  <2>2. QED BY <1>3, <2>1 DEF Holders
<1>6. ASSUME NEW s \in Sprites, NEW q \in Sprites \cup {Nobody}, NEW p, NewSprite(s, q, p)
      PROVE  OperatorInv'
  <2>1. PICK n \in Nodes \ born :
           /\ Rewrites(None) /\ m_operator_matrix'[n] = Identity
           /\ call = Returned /\ sprite[s] = Unbuilt
           /\ call' \in SpriteCalls /\ call'.of = s
           /\ call'.node = [NoNodes EXCEPT !.translation = n] /\ sprite' = sprite
    BY <1>6, NewSpriteDoes
  <2>2. NodesAt'[s] = call'.node /\ Running(s)'
    BY <2>1 DEF NodesAt, Holders, Running
  <2>3. NodesAt'[s].translation = n /\ NodesAt'[s].rotation = None
    BY <2>1, <2>2 DEF NoNodes
  <2>4. SpriteOperators(s)'
    BY <1>1, <2>1, <2>2, <2>3 DEF SpriteOperators, OpIs, Unbuilt
  <2>5. QED BY <1>4, <1>5, <2>1, <2>4
<1>7. ASSUME NEW s \in Sprites, NewLone(s) PROVE OperatorInv'
  <2>1. /\ call = Returned /\ call' = Returned /\ Rewrites(None)
        /\ \A i \in Sprites \ {s} : sprite'[i] = sprite[i]
        /\ sprite'[s].node = sprite[s].node /\ sprite'[s].position = sprite[s].position
        /\ sprite'[s].turned = sprite[s].turned /\ sprite'[s].size = sprite[s].size
    BY <1>0, <1>7, FrameOfNothing DEF NewLone, Quiet, vars, MembersOK
  <2>2. call \notin SpriteCalls /\ call' \notin SpriteCalls BY <2>1, NotRunning
  <2>3. NodesAt'[s] = NodesAt[s] /\ (Running(s) <=> Running(s)')
    BY <2>1, <2>2 DEF NodesAt, Holders, Running
  <2>4. SpriteOperators(s)' BY <1>0, <1>1, <1>5, <2>1, <2>3, SpriteOperatorsKept
  <2>5. QED BY <1>4, <1>5, <2>1, <2>4
<1>8. ASSUME Expire PROVE OperatorInv'
  <2>1. call \in SpriteCalls BY <1>0, <1>8, SpriteCallCase DEF Expire
  <2>2. PICK s : s = call.of OBVIOUS
  <2>3. Rewrites(None) /\ call' = [call EXCEPT !.at = "rotation"] /\ sprite' = sprite
    BY <1>0, <1>8, FrameOfRelease DEF Expire
  <2>4. /\ s \in Sprites /\ call' \in SpriteCalls /\ call'.of = s /\ call'.node = call.node
    BY <2>1, <2>2, <2>3 DEF SpriteCalls, Stages
  <2>5. NodesAt'[s] = NodesAt[s] /\ Running(s) /\ Running(s)'
    BY <2>1, <2>2, <2>4 DEF NodesAt, Holders, Running
  <2>6. SpriteOperators(s)' BY <1>0, <1>1, <1>5, <2>3, <2>4, <2>5, SpriteOperatorsKept
  <2>7. QED BY <1>4, <1>5, <2>1, <2>2, <2>3, <2>4, <2>6
<1>9. ASSUME NEW above \in CameraStages, NEW field \in {"rotation", "scalation"},
             NEW next \in {"scalation", "position"}, Build(above, field, next)
      PROVE  OperatorInv'
  <2>1. /\ call \in SpriteCalls /\ call.at = field /\ sprite[call.of] = Unbuilt /\ Rewrites(None)
        /\ sprite' = sprite
        /\ \/ call' = Returned
           \/ \E n, p : p = call.node[above] /\ Adds(n, p, field, next)
    BY <1>9, BuildDoes
  <2>2. PICK s : s = call.of OBVIOUS
  <2>3. s \in Sprites /\ Running(s) /\ NodesAt[s] = call.node /\ call.node \in Triples
    BY <2>1, <2>2 DEF SpriteCalls, Running, NodesAt, Holders
  <2>4. CASE call' = Returned
    <3>1. call' \notin SpriteCalls BY <2>4, NotRunning
    <3>2. NodesAt'[s] = NoNodes BY <2>1, <2>2, <2>3, <3>1 DEF NodesAt, Holders, Running, Unbuilt
    <3>3. SpriteOperators(s)' BY <1>0, <1>1, <1>5, <2>1, <2>3, <3>2, SpriteOperatorsKept
    <3>4. QED BY <1>4, <1>5, <2>1, <2>2, <2>3, <2>4, <3>3
  <2>5. ASSUME NEW n, NEW p, Adds(n, p, field, next) PROVE OperatorInv'
    <3>1. PICK t : t = [call.node EXCEPT ![field] = n] OBVIOUS
    <3>2. /\ m_operator_matrix'[n] = Identity /\ call' \in SpriteCalls
          /\ call' = [call EXCEPT !.at = next, !.node = t]
      BY <2>5, <3>1 DEF Adds
    <3>3. call'.of = s /\ call'.node = t BY <2>1, <2>2, <3>2 DEF SpriteCalls
    <3>4. NodesAt'[s] = t /\ Running(s)' BY <2>3, <3>2, <3>3 DEF NodesAt, Holders, Running
    <3>5. t.translation = call.node.translation /\ t.rotation \in {call.node.rotation, n}
      BY <2>3, <3>1 DEF Triples
    <3>6. Keeps(NodesAt[s].translation) /\ Keeps(NodesAt[s].rotation)
      BY <1>5, <2>1, <2>3 DEF CameraStages
    <3>7. OpIs(NodesAt[s].translation, Translation(sprite[s].position))'
      BY <1>0, <2>1, <2>3, <3>4, <3>5, <3>6 DEF SpriteOperators, OpIs, Keeps
    <3>8. OpIs(NodesAt[s].rotation, sprite[s].turned)'
      BY <1>0, <2>1, <2>2, <2>3, <3>2, <3>4, <3>5, <3>6 DEF SpriteOperators, OpIs, Keeps, Unbuilt
    <3>9. SpriteOperators(s)' BY <3>4, <3>7, <3>8 DEF SpriteOperators
    <3>10. QED BY <1>4, <1>5, <2>1, <2>2, <2>3, <3>2, <3>3, <3>9
  <2>6. QED BY <2>1, <2>4, <2>5
<1>10. ASSUME NEW s \in Sprites, NEW f \in CameraStages, NEW m \in Operators,
              call \in SpriteCalls, call.of = s, Write(NodesAt[s][f], m),
              call' = Returned \/ (call' \in SpriteCalls /\ call'.of = s),
              \A i \in Sprites \ {s} : sprite'[i] = sprite[i],
              (\A g \in CameraStages : g = f \/ Keeps(NodesAt[s][g]))
                /\ (NodesAt[s][f] \in alive' => m_operator_matrix'[NodesAt[s][f]] = m)
                => SpriteOperators(s)'
       PROVE  OperatorInv'
  <2>1. Rewrites(NodesAt[s][f]) /\ (NodesAt[s][f] \in alive => m_operator_matrix'[NodesAt[s][f]] = m)
        /\ alive' = alive
    BY <1>0, <1>10, FrameOfWrite
  <2>2. /\ \A i \in Holders, g \in CameraStages : (i = s /\ g = f) \/ Keeps(NodesAt[i][g])
        /\ Keeps(m_rootnode)
    BY <1>0, <1>1, <1>10, <2>1, KeepsOthers DEF Holders
  <2>3. SpriteOperators(s)' BY <1>10, <2>1, <2>2 DEF Holders
  <2>4. \A i \in Sprites \ {s}, g \in CameraStages : Keeps(NodesAt[i][g])
    BY <2>2 DEF Holders
  <2>5. \A g \in CameraStages : Keeps(camera.node[g])
    BY <1>3, <2>2 DEF Holders
  <2>6. QED BY <1>4, <1>10, <2>2, <2>3, <2>4, <2>5
<1>11. ASSUME Place PROVE OperatorInv'
  <2>1. call \in SpriteCalls BY <1>0, <1>11, SpriteCallCase DEF Place
  <2>2. PICK s, f : s = call.of /\ f = "translation" OBVIOUS
  <2>3. s \in Sprites /\ f \in CameraStages /\ Running(s) /\ NodesAt[s] = call.node
    BY <2>1, <2>2 DEF SpriteCalls, CameraStages, Running, NodesAt, Holders
  <2>4. /\ Write(NodesAt[s][f], Translation(<<0, 0, 0>>)) /\ Translation(<<0, 0, 0>>) \in Operators
        /\ call' = [call EXCEPT !.at = "scale"] /\ sprite' = sprite
    BY <1>11, <2>2, <2>3 DEF Place
  <2>5. call' \in SpriteCalls /\ call'.of = s /\ call'.node = call.node
    BY <2>1, <2>2, <2>4 DEF SpriteCalls, Stages
  <2>6. NodesAt'[s] = NodesAt[s] /\ Running(s)' BY <2>3, <2>5 DEF Running, NodesAt, Holders
  <2>7. sprite[s] = Unbuilt BY <2>1, <2>2, <2>3 DEF StageInv, CallStages, SpriteStages
  <2>8. ASSUME \A g \in CameraStages : g = f \/ Keeps(NodesAt[s][g]),
               NodesAt[s][f] \in alive' => m_operator_matrix'[NodesAt[s][f]] = Translation(<<0, 0, 0>>)
        PROVE  SpriteOperators(s)'
    <3>1. Keeps(NodesAt[s].rotation) BY <2>2, <2>8 DEF CameraStages
    <3>2. OpIs(NodesAt[s].translation, Translation(sprite[s].position))'
      BY <2>2, <2>4, <2>6, <2>7, <2>8 DEF OpIs, Unbuilt
    <3>3. OpIs(NodesAt[s].rotation, sprite[s].turned)'
      BY <1>0, <2>3, <2>4, <2>6, <3>1 DEF SpriteOperators, OpIs, Keeps
    <3>4. QED BY <2>6, <3>2, <3>3 DEF SpriteOperators
  <2>9. QED BY <1>10, <2>1, <2>2, <2>3, <2>4, <2>5, <2>8
<1>12. ASSUME Finish PROVE OperatorInv'
  <2>1. call \in SpriteCalls BY <1>0, <1>12, SpriteCallCase DEF Finish
  <2>2. PICK s, f : s = call.of /\ f = "scalation" OBVIOUS
  <2>3. s \in Sprites /\ f \in CameraStages /\ Running(s) /\ NodesAt[s] = call.node
    BY <2>1, <2>2 DEF SpriteCalls, CameraStages, Running, NodesAt, Holders
  <2>4. /\ Write(NodesAt[s][f], Scaling(<<0, 0, 0>>)) /\ Scaling(<<0, 0, 0>>) \in Operators
        /\ call' = Returned
    BY <1>12, <2>2, <2>3 DEF Finish
  <2>5. /\ \A i \in Sprites \ {s} : sprite'[i] = sprite[i]
        /\ sprite'[s].node = call.node \/ sprite'[s].node = NoNodes
        /\ sprite'[s].position = <<0, 0, 0>> /\ sprite'[s].turned = Identity
        /\ sprite'[s].size = <<0, 0, 0>>
    BY <1>0, <1>12, <2>2, <2>3 DEF Finish, MembersOK, Unbuilt
  <2>6. call' \notin SpriteCalls BY <2>4, NotRunning
  <2>7. NodesAt'[s] = sprite'[s].node BY <2>3, <2>6 DEF Running, NodesAt, Holders
  <2>8. sprite[s] = Unbuilt BY <2>1, <2>2, <2>3 DEF StageInv, CallStages, SpriteStages
  <2>9. ASSUME \A g \in CameraStages : g = f \/ Keeps(NodesAt[s][g]),
               NodesAt[s][f] \in alive' => m_operator_matrix'[NodesAt[s][f]] = Scaling(<<0, 0, 0>>)
        PROVE  SpriteOperators(s)'
    <3>1. Keeps(NodesAt[s].translation) /\ Keeps(NodesAt[s].rotation)
      BY <2>2, <2>9 DEF CameraStages
    <3>2. CASE NodesAt'[s] = NoNodes BY <1>1, <3>2 DEF SpriteOperators, OpIs, NoNodes
    <3>3. CASE NodesAt'[s] = NodesAt[s]
      <4>1. OpIs(NodesAt[s].translation, Translation(sprite[s].position))'
        BY <1>0, <2>3, <2>5, <2>8, <3>1, <3>3 DEF SpriteOperators, OpIs, Keeps, Unbuilt
      <4>2. OpIs(NodesAt[s].rotation, sprite[s].turned)'
        BY <1>0, <2>3, <2>5, <2>8, <3>1, <3>3 DEF SpriteOperators, OpIs, Keeps, Unbuilt
      <4>3. OpIs(NodesAt[s].scalation, Scaling(sprite[s].size))'
        BY <2>2, <2>5, <2>9, <3>3 DEF OpIs
      <4>4. QED BY <4>1, <4>2, <4>3 DEF SpriteOperators
    <3>4. QED BY <2>3, <2>5, <2>7, <3>2, <3>3
  <2>10. QED BY <1>10, <2>1, <2>2, <2>3, <2>4, <2>5, <2>9
<1>13. {"translation", "rotation"} \subseteq CameraStages BY DEF CameraStages
<1>14. QED
  <2>1. ASSUME NEW s \in Sprites, NEW q \in Sprites, NewSprite(s, q, sprite[q].node.rotation)
        PROVE  OperatorInv'
    <3>1. PICK p : p = sprite[q].node.rotation OBVIOUS
    <3>2. QED BY <1>6, <2>1, <3>1
  <2>2. QED BY <1>6, <1>7, <1>8, <1>9, <1>11, <1>12, <1>13, <2>1 DEF Constructors

LEMMA SetterOperatorsStep ==
  ASSUME SpriteInv, SpriteInv', NodesInv, StageInv, OperatorInv, Setters
  PROVE  OperatorInv'
<1>0. /\ TypeOK /\ MembersOK /\ m_rootnode \in alive \cup {None}
      /\ RendererOperators /\ \A s \in Sprites : SpriteOperators(s)
  BY SpriteInvParts DEF SpriteInv, SpriteTypeOK, TypeOK, OperatorInv
<1>1. Frame /\ None \notin alive' BY SetterNodes DEF Frame
<1>2. /\ UNCHANGED <<m_rootnode, m_size, camera, call>> /\ call = Returned
  BY DEF Setters, SetPosition, SetScale, SetRotation, SetParentSprite, Destroy, Keep, Drop,
         Has, Quiet, others
<1>3. NodesAt[Nobody] = camera.node BY DEF NodesAt, Holders
<1>4. /\ \A s \in Sprites : ~Running(s) /\ ~Running(s)'
      /\ \A s \in Sprites : NodesAt[s] = sprite[s].node /\ NodesAt'[s] = sprite'[s].node
  <2>1. call \notin SpriteCalls /\ call' \notin SpriteCalls BY <1>2, NotRunning
  <2>2. QED BY <2>1 DEF Running, NodesAt, Holders
<1>5. ASSUME NEW s \in Sprites, SpriteOperators(s)', Keeps(m_rootnode),
             \A i \in Sprites \ {s} : sprite'[i] = sprite[i],
             \A i \in Sprites \ {s}, g \in CameraStages : Keeps(NodesAt[i][g]),
             \A g \in CameraStages : Keeps(camera.node[g])
      PROVE  OperatorInv'
  <2>1. ASSUME NEW i \in Sprites \ {s} PROVE SpriteOperators(i)'
    <3>1. /\ NodesAt'[i] = NodesAt[i] /\ (Running(i) <=> Running(i)') /\ sprite'[i] = sprite[i]
          /\ SpriteOperators(i) /\ \A g \in CameraStages : Keeps(NodesAt[i][g])
      BY <1>0, <1>4, <1>5
    <3>2. QED BY <1>1, <3>1, SpriteOperatorsKept
  <2>2. Keeps(camera.node.translation) /\ Keeps(camera.node.scalation)
    BY <1>5 DEF CameraStages
  <2>3. RendererOperators' BY <1>0, <1>1, <1>2, <1>5, <2>2, RendererOperatorsKept
  <2>4. QED BY <1>5, <2>1, <2>3 DEF OperatorInv
<1>6. ASSUME NEW s \in Sprites, NEW f \in CameraStages, NEW m \in Operators,
             Write(NodesAt[s][f], m), \A i \in Sprites \ {s} : sprite'[i] = sprite[i],
             sprite'[s].node = sprite[s].node,
             f = "translation" => m = Translation(sprite'[s].position),
             f # "translation" => sprite'[s].position = sprite[s].position,
             f = "rotation" /\ NodesAt[s][f] \in alive => m = sprite'[s].turned,
             f # "rotation" => sprite'[s].turned = sprite[s].turned,
             f = "scalation" => m = Scaling(sprite'[s].size),
             f # "scalation" => sprite'[s].size = sprite[s].size
      PROVE  OperatorInv'
  <2>1. Rewrites(NodesAt[s][f]) /\ (NodesAt[s][f] \in alive => m_operator_matrix'[NodesAt[s][f]] = m)
        /\ alive' = alive
    BY <1>0, <1>6, FrameOfWrite
  <2>2. /\ \A i \in Holders, g \in CameraStages : (i = s /\ g = f) \/ Keeps(NodesAt[i][g])
        /\ Keeps(m_rootnode)
    BY <1>0, <1>1, <2>1, KeepsOthers DEF Holders
  <2>3. NodesAt'[s] = NodesAt[s] BY <1>4, <1>6
  <2>4. /\ f # "translation" => Keeps(NodesAt[s].translation)
        /\ f # "rotation" => Keeps(NodesAt[s].rotation)
        /\ f # "scalation" => Keeps(NodesAt[s].scalation)
    BY <2>2 DEF Holders, CameraStages
  <2>5. OpIs(NodesAt[s].translation, Translation(sprite[s].position))'
    BY <1>0, <1>6, <2>1, <2>3, <2>4 DEF SpriteOperators, OpIs, Keeps
  <2>6. OpIs(NodesAt[s].rotation, sprite[s].turned)'
    BY <1>0, <1>6, <2>1, <2>3, <2>4 DEF SpriteOperators, OpIs, Keeps
  <2>7. OpIs(NodesAt[s].scalation, Scaling(sprite[s].size))'
    BY <1>0, <1>4, <1>6, <2>1, <2>3, <2>4 DEF SpriteOperators, OpIs, Keeps
  <2>8. SpriteOperators(s)' BY <2>5, <2>6, <2>7 DEF SpriteOperators
  <2>9. \A i \in Sprites \ {s}, g \in CameraStages : Keeps(NodesAt[i][g])
    BY <2>2 DEF Holders
  <2>10. \A g \in CameraStages : Keeps(camera.node[g]) BY <1>3, <2>2 DEF Holders
  <2>11. QED BY <1>5, <1>6, <2>2, <2>8, <2>9, <2>10
<1>7. ASSUME NEW s \in Sprites, NEW pos \in Positions, SetPosition(s, pos) PROVE OperatorInv'
  <2>1. PICK f : f = "translation" OBVIOUS
  <2>2. /\ Write(NodesAt[s][f], Translation(pos)) /\ Translation(pos) \in Operators
        /\ sprite' = [sprite EXCEPT ![s].position = pos]
    BY <1>4, <1>7, <2>1 DEF SetPosition
  <2>3. /\ \A i \in Sprites \ {s} : sprite'[i] = sprite[i] /\ sprite'[s].node = sprite[s].node
        /\ sprite'[s].position = pos /\ sprite'[s].turned = sprite[s].turned
        /\ sprite'[s].node = sprite[s].node /\ sprite'[s].size = sprite[s].size
    BY <1>0, <2>2 DEF MembersOK
  <2>4. f \in CameraStages BY <2>1 DEF CameraStages
  <2>5. QED BY <1>6, <2>1, <2>2, <2>3, <2>4
<1>8. ASSUME NEW s \in Sprites, NEW size \in Scales, SetScale(s, size) PROVE OperatorInv'
  <2>1. PICK f : f = "scalation" OBVIOUS
  <2>2. /\ Write(NodesAt[s][f], Scaling(size)) /\ Scaling(size) \in Operators
        /\ sprite' = [sprite EXCEPT ![s].size = size]
    BY <1>4, <1>8, <2>1 DEF SetScale
  <2>3. /\ \A i \in Sprites \ {s} : sprite'[i] = sprite[i]
        /\ sprite'[s].position = sprite[s].position /\ sprite'[s].turned = sprite[s].turned
        /\ sprite'[s].node = sprite[s].node /\ sprite'[s].size = size
    BY <1>0, <2>2 DEF MembersOK
  <2>4. f \in CameraStages BY <2>1 DEF CameraStages
  <2>5. QED BY <1>6, <2>1, <2>2, <2>3, <2>4
<1>9. ASSUME NEW s \in Sprites, NEW r \in Angles, SetRotation(s, r) PROVE OperatorInv'
  <2>1. PICK f, m : f = "rotation" /\ m = Rotation(r, sprite[s].size[1], sprite[s].size[2]) OBVIOUS
  <2>2. /\ Write(NodesAt[s][f], m) /\ m \in Operators
        /\ sprite' = IF NodesAt[s][f] \in alive THEN [sprite EXCEPT ![s].turned = m] ELSE sprite
    BY <1>0, <1>4, <1>9, <2>1 DEF SetRotation, MembersOK
  <2>3. /\ \A i \in Sprites \ {s} : sprite'[i] = sprite[i]
        /\ sprite'[s].position = sprite[s].position
        /\ NodesAt[s][f] \in alive => sprite'[s].turned = m
        /\ sprite'[s].node = sprite[s].node /\ sprite'[s].size = sprite[s].size
    BY <1>0, <2>2 DEF MembersOK
  <2>4. f \in CameraStages BY <2>1 DEF CameraStages
  <2>5. QED BY <1>6, <2>1, <2>2, <2>3, <2>4
<1>10. ASSUME Rewrites(None),
              \A s \in Sprites :
                \/ sprite'[s].node = NoNodes
                \/ /\ sprite'[s].node = sprite[s].node /\ sprite'[s].position = sprite[s].position
                   /\ sprite'[s].turned = sprite[s].turned /\ sprite'[s].size = sprite[s].size
       PROVE  OperatorInv'
  <2>1. ASSUME NEW s \in Sprites PROVE SpriteOperators(s)'
    BY <1>1, <1>2, <1>4, <1>10, OperatorsKept
  <2>2. RendererOperators' BY <1>1, <1>2, <1>10, OperatorsKept
  <2>3. QED BY <2>1, <2>2 DEF OperatorInv
<1>11. ASSUME NEW s \in Sprites, NEW q \in Sprites \cup {Nobody}, SetParentSprite(s, q)
       PROVE  OperatorInv'
  <2>1. Rewrites(None) /\ sprite' = [sprite EXCEPT ![s].m_parent = q]
    BY <1>0, <1>11, FrameOfNothing DEF SetParentSprite, vars
  <2>2. QED BY <1>0, <1>10, <2>1 DEF MembersOK
<1>12. ASSUME NEW s \in Sprites, Destroy(s) PROVE OperatorInv'
  <2>1. Rewrites(None) /\ sprite' = [sprite EXCEPT ![s] = Unbuilt]
    BY <1>0, <1>12, FrameOfNothing DEF Destroy, vars
  <2>2. QED BY <1>0, <1>10, <2>1 DEF MembersOK, Unbuilt
<1>13. ASSUME NEW n, Keep(n) PROVE OperatorInv'
  <2>1. Rewrites(None) /\ sprite' = sprite BY <1>0, <1>13, FrameOfNothing DEF Keep, Hold, others
  <2>2. QED BY <1>10, <2>1
<1>14. ASSUME NEW n, Drop(n) PROVE OperatorInv'
  <2>1. Rewrites(None) /\ sprite' = sprite BY <1>0, <1>14, FrameOfRelease DEF Drop, others
  <2>2. QED BY <1>10, <2>1
<1>15. QED BY <1>7, <1>8, <1>9, <1>11, <1>12, <1>13, <1>14 DEF Setters

LEMMA OperatorStep ==
  ASSUME SpriteInv, SpriteInv', NodesInv, StageInv, OperatorInv, [SpriteNext]_spriteVars
  PROVE  OperatorInv'
<1>1. CASE (Recalculate /\ UNCHANGED others) \/ UNCHANGED spriteVars
  <2>1. /\ UNCHANGED <<born, alive, m_parent, m_children, m_operator_matrix>>
        /\ UNCHANGED <<m_rootnode, m_size, camera, sprite, call>>
    BY <1>1 DEF Recalculate, graph, others, spriteVars, vars
  <2>2. /\ NodesAt' = NodesAt /\ \A s \in Sprites : Running(s)' <=> Running(s)
    BY <2>1 DEF NodesAt, Running
  <2>3. RendererOperators' BY <2>1 DEF OperatorInv, RendererOperators, OpIs, LastTurn
  <2>4. \A s \in Sprites : SpriteOperators(s)'
    BY <2>1, <2>2 DEF OperatorInv, SpriteOperators, OpIs
  <2>5. QED BY <2>3, <2>4 DEF OperatorInv
<1>2. QED BY <1>1, RendererOperatorsStep, ConstructorOperatorsStep, SetterOperatorsStep DEF SpriteNext

LEMMA OperatorInit == SpriteInit => OperatorInv
<1> SUFFICES ASSUME SpriteInit PROVE OperatorInv
  OBVIOUS
<1>1. alive = {} /\ camera.position = <<0, 0, 0>> /\ camera.last = "none"
  BY DEF SpriteInit, Init, NoCamera
<1>2. QED BY <1>1 DEF OperatorInv, RendererOperators, SpriteOperators, OpIs

-----------------------------------------------------------------------------
(* Sprites: the theorems                                                      *)

\* What keeps a sprite's node alive is the node above it.
LEMMA ChainAlive ==
  ASSUME TypeOK, ChildrenAlive, NEW node, NEW a, Chained(node, a), Whole(node), a \in alive
  PROVE  There(node, a)
<1>1. a # None /\ node.translation # None /\ node.rotation # None /\ node.scalation # None
  BY NoneAssumption DEF TypeOK, Whole
<1>2. node.translation \in alive BY <1>1 DEF Chained, Hangs, ChildrenAlive, TypeOK
<1>3. node.rotation \in alive BY <1>1, <1>2 DEF Chained, Hangs, ChildrenAlive, TypeOK
<1>4. node.scalation \in alive BY <1>1, <1>3 DEF Chained, Hangs, ChildrenAlive, TypeOK
<1>5. QED BY <1>2, <1>3, <1>4 DEF There

LEMMA BuiltAt ==
  ASSUME StageInv, NEW s \in Sprites, sprite[s].built \/ call = Returned
  PROVE  ~Running(s) /\ NodesAt[s] = sprite[s].node /\ AnchorAt[s] = sprite[s].anchor
<1>1. ~Running(s)
  <2>1. CASE call = Returned BY <2>1, NotRunning DEF Running
  <2>2. CASE sprite[s].built BY <2>2 DEF StageInv, CallStages, Running
  <2>3. QED BY <2>1, <2>2
<1>2. s # Nobody OBVIOUS
<1>3. QED BY <1>1, <1>2 DEF NodesAt, AnchorAt, Holders

LEMMA CameraAt ==
  ASSUME SpriteInv, StageInv, Quiet, HasCamera
  PROVE  /\ NodesAt[Nobody] = camera.node /\ AnchorAt[Nobody] = m_rootnode
         /\ Whole(camera.node) /\ m_rootnode \in alive
<1>1. call = Returned /\ call \notin CameraCalls
  BY ReturnedCall DEF Quiet, CameraCalls
<1>2. camera.node.translation # None /\ m_rootnode # None BY DEF HasCamera
<1>3. Whole(camera.node) BY <1>1, <1>2 DEF StageInv, CameraStagesOK, NoNodes
<1>4. m_rootnode \in alive BY <1>2 DEF SpriteInv, SpriteTypeOK, TypeOK
<1>5. QED BY <1>1, <1>3, <1>4, SpritesAtRest

LEMMA OnlyOrphansThrowHolds == SpriteInv /\ PlacesInv => OnlyOrphansThrow
<1> SUFFICES ASSUME SpriteInv, PlacesInv PROVE OnlyOrphansThrow
  OBVIOUS
<1>1. /\ TypeOK /\ ChildrenAlive /\ NodesChained /\ StageInv
  BY DEF SpriteInv, SpriteTypeOK, PlacesInv, NodesInv
<1>2. ASSUME NEW s \in Sprites, sprite[s].built, sprite[s].node # NoNodes
      PROVE  /\ None \notin {sprite[s].anchor} \cup NodesOf(sprite[s].node)
             /\ sprite[s].anchor \in alive => There(sprite[s].node, sprite[s].anchor)
  <2>1. Whole(sprite[s].node) /\ sprite[s].anchor # None
    BY <1>1, <1>2 DEF StageInv, SpriteStages
  <2>2. Chained(sprite[s].node, sprite[s].anchor)
    BY <1>1, <1>2, BuiltAt DEF NodesChained, Holders
  <2>3. QED BY <1>1, <2>1, <2>2, ChainAlive DEF Whole, NodesOf
<1>3. ASSUME Quiet, HasCamera PROVE There(camera.node, m_rootnode)
  <2>1. /\ NodesAt[Nobody] = camera.node /\ AnchorAt[Nobody] = m_rootnode
        /\ Whole(camera.node) /\ m_rootnode \in alive
    BY <1>1, <1>3, CameraAt
  <2>2. Chained(camera.node, m_rootnode) BY <1>1, <2>1 DEF NodesChained, Holders
  <2>3. QED BY <1>1, <2>1, <2>2, ChainAlive
<1>4. ASSUME call # Returned, call.of \in Sprites
      PROVE  IF call.anchor # None
             THEN ({call.anchor} \cup NodesOf(call.node)) \ {None} \subseteq alive
             ELSE call.at # "temporary" => call.node.translation \notin alive
  <2>1. call \in SpriteCalls
    <3>1. call \in SpriteCalls \cup CameraCalls BY <1>4 DEF SpriteInv, SpriteTypeOK
    <3>2. call \notin CameraCalls BY <1>4 DEF CameraCalls
    <3>3. QED BY <3>1, <3>2
  <2>2. PICK s : s = call.of OBVIOUS
  <2>3. NodesAt[s] = call.node /\ AnchorAt[s] = call.anchor
    BY <1>4, <2>1, <2>2 DEF NodesAt, AnchorAt, Holders, Running
  <2>4. Chained(call.node, call.anchor) BY <1>1, <1>4, <2>2, <2>3 DEF NodesChained, Holders
  <2>5. /\ call.anchor # None => call.anchor \in alive
        /\ call.anchor = None /\ call.at # "temporary" => call.node.translation \notin alive
    BY <1>1, <2>1 DEF StageInv, CallStages
  <2>6. ASSUME call.anchor # None PROVE NodesOf(call.node) \ {None} \subseteq alive
    <3>1. /\ call.node.rotation # None => call.node.translation # None
          /\ call.node.scalation # None => call.node.rotation # None
      BY <1>1, <2>1 DEF StageInv, CallStages, Whole, SpriteCalls, Stages
    <3>2. call.node.translation # None => call.node.translation \in alive
      BY <1>1, <2>4, <2>5, <2>6 DEF Chained, Hangs, ChildrenAlive, TypeOK
    <3>3. call.node.rotation # None => call.node.rotation \in alive
      BY <1>1, <2>4, <3>1, <3>2 DEF Chained, Hangs, ChildrenAlive, TypeOK
    <3>4. call.node.scalation # None => call.node.scalation \in alive
      BY <1>1, <2>4, <3>1, <3>3 DEF Chained, Hangs, ChildrenAlive, TypeOK
    <3>5. QED BY <3>2, <3>3, <3>4 DEF NodesOf
  <2>7. QED BY <2>5, <2>6
<1>5. QED BY <1>2, <1>3, <1>4 DEF OnlyOrphansThrow

\* A constructor of Sprite that was given a living node does not throw, at any of
\* its steps; one that was given none throws when it locks its first node.  Later
\* no setter throws for a sprite that has nodes as long as the node it was
\* constructed below is there, and no call of a camera as long as the renderer
\* is, whatever other sprites, cameras and their constructors did.
THEOREM ThrowsOfOrphans == SpriteSpec => []OnlyOrphansThrow
<1>1. SpriteInit => SpriteInv /\ PlacesInv BY SpriteInvInit, PlacesInit
<1>2. SpriteInv /\ PlacesInv /\ [SpriteNext]_spriteVars => (SpriteInv /\ PlacesInv)'
  BY PlacesStep
<1>3. QED BY <1>1, <1>2, OnlyOrphansThrowHolds, PTL DEF SpriteSpec

\* The matrix at the end of a chain is the product of the operators on it.
LEMMA ChainMatrix ==
  ASSUME TypeOK, Idle, LinkedUpToDate, NEW node, NEW a, Chained(node, a), There(node, a)
  PROVE  m_matrix[node.scalation] =
           Mul(Mul(Mul(m_matrix[a], m_operator_matrix[node.translation]),
                   m_operator_matrix[node.rotation]),
               m_operator_matrix[node.scalation])
<1>1. /\ a \in alive /\ node.translation \in alive /\ node.rotation \in alive /\ node.scalation \in alive
      /\ a # None /\ node.translation # None /\ node.rotation # None /\ node.scalation # None
  BY NoneAssumption DEF There, TypeOK
<1>2. ASSUME NEW n \in alive, NEW p \in alive, Hangs(n, p)
      PROVE  m_matrix[n] = Mul(m_matrix[p], m_operator_matrix[n])
  <2>1. m_parent[n] = p /\ Linked(n) BY <1>2 DEF Hangs, Linked
  <2>2. UpToDate(n) BY <2>1 DEF LinkedUpToDate
  <2>3. QED BY <2>1, <2>2 DEF UpToDate, Product
<1>3. /\ Hangs(node.translation, a) /\ Hangs(node.rotation, node.translation)
      /\ Hangs(node.scalation, node.rotation)
  BY <1>1 DEF Chained
<1>4. /\ m_matrix[node.translation] = Mul(m_matrix[a], m_operator_matrix[node.translation])
      /\ m_matrix[node.rotation] = Mul(m_matrix[node.translation], m_operator_matrix[node.rotation])
      /\ m_matrix[node.scalation] = Mul(m_matrix[node.rotation], m_operator_matrix[node.scalation])
  BY <1>1, <1>2, <1>3
<1>5. QED BY <1>4

LEMMA SpriteMatrixHolds ==
  SpriteInv /\ PlacesInv /\ OperatorInv /\ LinkedUpToDate => SpriteMatrix
<1> SUFFICES ASSUME SpriteInv, PlacesInv, OperatorInv, LinkedUpToDate, Quiet, NEW s \in Sprites,
                    There(sprite[s].node, sprite[s].anchor)
             PROVE  m_matrix[sprite[s].node.scalation] =
                      Mul(Mul(Mul(m_matrix[sprite[s].anchor], Translation(sprite[s].position)),
                              sprite[s].turned),
                          Scaling(sprite[s].size))
  BY DEF SpriteMatrix
<1>1. /\ TypeOK /\ StageInv /\ NodesChained /\ Idle /\ call = Returned
  BY DEF SpriteInv, SpriteTypeOK, PlacesInv, NodesInv, Quiet
<1>2. ~Running(s) /\ NodesAt[s] = sprite[s].node /\ AnchorAt[s] = sprite[s].anchor
  BY <1>1, BuiltAt
<1>3. Chained(sprite[s].node, sprite[s].anchor) BY <1>1, <1>2 DEF NodesChained, Holders
<1>4. /\ m_operator_matrix[sprite[s].node.translation] = Translation(sprite[s].position)
      /\ m_operator_matrix[sprite[s].node.rotation] = sprite[s].turned
      /\ m_operator_matrix[sprite[s].node.scalation] = Scaling(sprite[s].size)
  BY <1>2 DEF OperatorInv, SpriteOperators, OpIs, There
<1>5. QED BY <1>1, <1>3, <1>4, ChainMatrix

LEMMA CameraMatrixHolds ==
  SpriteInv /\ PlacesInv /\ OperatorInv /\ LinkedUpToDate => CameraMatrix
<1> SUFFICES ASSUME SpriteInv, PlacesInv, OperatorInv, LinkedUpToDate, Quiet, HasCamera
             PROVE  m_matrix[camera.node.scalation] =
                      Mul(Mul(Mul(Projection(m_size), Translation(camera.position)),
                              LastTurn),
                          Identity)
  BY DEF CameraMatrix
<1>1. /\ TypeOK /\ ChildrenAlive /\ StageInv /\ NodesChained /\ RootHasNoParent /\ Idle
      /\ RendererOperators
  BY DEF SpriteInv, SpriteTypeOK, PlacesInv, NodesInv, Quiet, OperatorInv
<1>2. /\ NodesAt[Nobody] = camera.node /\ AnchorAt[Nobody] = m_rootnode
      /\ Whole(camera.node) /\ m_rootnode \in alive
  BY <1>1, CameraAt
<1>3. Chained(camera.node, m_rootnode) BY <1>1, <1>2 DEF NodesChained, Holders
<1>4. There(camera.node, m_rootnode) BY <1>1, <1>2, <1>3, ChainAlive
<1>5. /\ m_operator_matrix[camera.node.translation] = Translation(camera.position)
      /\ m_operator_matrix[camera.node.rotation] = LastTurn
      /\ m_operator_matrix[camera.node.scalation] = Identity
      /\ m_operator_matrix[m_rootnode] = Projection(m_size)
  BY <1>1, <1>4 DEF RendererOperators, OpIs, There
<1>6. m_parent[m_rootnode] = None /\ None \notin alive
  BY <1>1, <1>2, NoneAssumption DEF RootHasNoParent, TypeOK
<1>7. UpToDate(m_rootnode) BY <1>1, <1>2, <1>6 DEF LinkedUpToDate, Linked
<1>8. m_matrix[m_rootnode] = Projection(m_size) BY <1>5, <1>6, <1>7 DEF UpToDate, Product
<1>9. QED BY <1>1, <1>3, <1>4, <1>5, <1>8, ChainMatrix

\* The invariant behind both theorems on matrices.
LEMMA SpriteMatricesInv ==
  SpriteSpec => [](SpriteInv /\ PlacesInv /\ OperatorInv /\ LinkedUpToDate)
<1>1. SpriteInit => SpriteInv /\ PlacesInv /\ OperatorInv
  BY SpriteInvInit, PlacesInit, OperatorInit
<1>2. SpriteInv /\ PlacesInv /\ OperatorInv /\ [SpriteNext]_spriteVars
        => (SpriteInv /\ PlacesInv /\ OperatorInv)'
  BY PlacesStep, OperatorStep DEF PlacesInv
<1>3. SpriteSpec => []LinkedUpToDate BY ImplementsGraph, MatricesUpToDate
<1>4. QED BY <1>1, <1>2, <1>3, PTL DEF SpriteSpec

\* Between calls a sprite is drawn where its fields say: the matrix of its last
\* node is that of the node it was constructed below, times the translation to
\* its position, its last rotation and the scaling to its size.
THEOREM SpriteIsDrawnWhereItIs == SpriteSpec => []SpriteMatrix
BY SpriteMatricesInv, SpriteMatrixHolds, PTL

\* What a camera hands out as the parent of sprites has the matrix of the
\* projection, its position and its last rotation or zoom.
THEOREM CameraLooksWhereItIs == SpriteSpec => []CameraMatrix
BY SpriteMatricesInv, CameraMatrixHolds, PTL
=============================================================================
