------------------------------ MODULE Sprites ------------------------------
(* The sprites and the cameras of gawo/gl/renderer, as users of the scene     *)
(* graph.  A renderer owns the root node, whose operator is the projection; a *)
(* sprite, and the camera, keep weak pointers to three nodes below it, for    *)
(* translation, rotation and scalation.  A call writes its fields and then    *)
(* one node; a constructor makes several calls of the graph, one a step.      *)
EXTENDS SceneGraph

CONSTANTS Sprites,
          Nobody,               \* a null pointer to a sprite
          Identity,             \* glm::mat4x4()
          Translation(_),       \* of a position <<x, y, layer>>
          Rotation(_, _, _),    \* by an angle around the centre of a width and a height
          Scaling(_),           \* by <<width, height, depth>>
          Projection(_),        \* glm::ortho of a size
          Zooming(_, _),        \* a factor around a point
          Positions, Scales, Angles,         \* arguments of a sprite's setters
          Sizes,                             \* <<width, height>> of a renderer
          Moves, Turns, Zooms, Points,       \* arguments of the camera
          Factors,                           \* the zoom factors that are looked at
          Unit, LeastZoom                    \* of them, 1.0 and 0.1

ASSUME SpriteAssumption ==
  /\ Nobody \notin Sprites
  /\ Identity \in Operators
  /\ <<0, 0, 0>> \in Positions \cap Scales /\ <<1, 1>> \in Sizes
  /\ \A pos \in Positions : Translation(pos) \in Operators
  /\ Translation(<<0, 0, 0>>) = Identity
  /\ \A r \in Angles, s \in Sizes \cup Scales : Rotation(r, s[1], s[2]) \in Operators
  /\ \A s \in Scales : Scaling(s) \in Operators
  /\ \A s \in Sizes : Projection(s) \in Operators
  /\ {Unit, LeastZoom} \subseteq Factors /\ 0 \in Angles
  /\ \A z \in Factors, pos \in Points : Zooming(z, pos) \in Operators

VARIABLES m_rootnode, m_size,   \* SpriteRenderer, with m_width and m_height
          camera,               \* the members of CameraRenderer
          sprite,               \* the members of every Sprite
          call                  \* the constructor that runs and how far it is

others == <<m_rootnode, m_size, camera, sprite, call>>
spriteVars == <<vars, others>>

NoNodes == [translation |-> None, rotation |-> None, scalation |-> None]
Triples == [translation : Nodes \cup {None}, rotation : Nodes \cup {None},
            scalation : Nodes \cup {None}]

\* History, which no code reads: `anchor` is the node the constructor was given,
\* `turned` the matrix of the last setRotation, and the depth in `size` is that of
\* the last setScale, of which m_width and m_height keep the rest.
Unbuilt == [built |-> FALSE, m_parent |-> Nobody, node |-> NoNodes, anchor |-> None,
            position |-> <<0, 0, 0>>, size |-> <<0, 0, 0>>, turned |-> Identity]

\* History: the last of rotate and zoom that was called, and what it was given,
\* the renderer's size of that moment or the point.
NoCamera == [node |-> NoNodes, position |-> <<0, 0, 0>>, angle |-> 0, zoom |-> Unit,
             last |-> "none", given |-> <<>>]
Cameras == [node : Triples, position : Positions, angle : Angles, zoom : Factors,
            last : {"none", "rotate", "zoom"}, given : Sizes \cup Points \cup {<<>>}]

Returned == [at |-> "returned"]

Stages == {"temporary", "rotation", "scalation", "position", "scale"}
CameraStages == {"translation", "rotation", "scalation"}

SpriteCalls == [at : Stages, of : Sprites, m_parent : Sprites \cup {Nobody},
                node : Triples, anchor : Nodes \cup {None}]
CameraCalls == [at : CameraStages, of : {Nobody}]

SpriteTypeOK ==
  /\ TypeOK
  /\ m_rootnode \in held \cup {None} /\ m_size \in Sizes
  /\ camera \in Cameras
  /\ sprite \in [Sprites -> [built : BOOLEAN, m_parent : Sprites \cup {Nobody},
                             node : Triples, anchor : Nodes \cup {None},
                             position : Positions, size : Scales, turned : Operators]]
  /\ call \in {Returned} \cup SpriteCalls \cup CameraCalls

SpriteInit ==
  /\ Init
  /\ m_rootnode = None /\ m_size = <<1, 1>>
  /\ camera = NoCamera
  /\ sprite = [s \in Sprites |-> Unbuilt]
  /\ call = Returned

Fresh == CHOOSE n \in Nodes : n \notin born

\* A constructor starts when there are nodes left for all it creates.
Room(k) == Cardinality(Nodes \ born) >= k

\* What a parent of a sprite's nodes can be: getGraph() of a renderer or of a
\* sprite, dead or alive, or an empty pointer.
RendererGraph == IF camera.node.scalation = None THEN m_rootnode ELSE camera.node.scalation
Parents == {None, RendererGraph} \cup {sprite[s].node.rotation : s \in Sprites}

\* No call of a sprite, a camera or the graph is running.
Quiet == call = Returned /\ Idle

\* weak_ptr::lock and changeMatrix; a node that is gone makes the caller throw.
Write(n, m) == IF n \in alive THEN ChangeMatrix(n, m) ELSE UNCHANGED vars

-----------------------------------------------------------------------------
(* The renderers *)

\* SpriteRenderer(), and the start of CameraRenderer().
NewRenderer(at) ==
  /\ Quiet /\ m_rootnode = None /\ Room(4)
  /\ New(Fresh, None, Projection(<<1, 1>>))
  /\ m_rootnode' = Fresh
  /\ m_size' = <<1, 1>> /\ camera' = NoCamera
  /\ call' = at
  /\ UNCHANGED sprite

\* addChild below p for the camera's node `field`.
BuildCamera(field, p, at) ==
  /\ call = [at |-> field, of |-> Nobody]
  /\ AddChild(p, Fresh, Identity)
  /\ camera' = [camera EXCEPT !.node[field] = Fresh]
  /\ call' = at
  /\ UNCHANGED <<m_rootnode, m_size, sprite>>

Resize(size) ==
  /\ Quiet /\ m_rootnode # None
  /\ ChangeMatrix(m_rootnode, Projection(size))
  /\ m_size' = size
  /\ UNCHANGED <<m_rootnode, camera, sprite, call>>

\* Mutant: a renderer that was moved from keeps its pointer to the root.
CloseKeepsRoot ==
  /\ Quiet /\ m_rootnode # None
  /\ Release(m_rootnode)
  /\ UNCHANGED others

Close ==
  /\ Quiet /\ m_rootnode # None
  /\ Release(m_rootnode)
  /\ m_rootnode' = None
  /\ UNCHANGED <<m_size, camera, sprite, call>>

HasCamera == m_rootnode # None /\ camera.node.translation # None

Move(x, y) ==
  LET pos == <<camera.position[1] + x, camera.position[2] + y, 0>> IN
  /\ Quiet /\ HasCamera /\ pos \in Positions
  /\ camera' = [camera EXCEPT !.position = pos]
  /\ Write(camera.node.translation, Translation(pos))
  /\ UNCHANGED <<m_rootnode, m_size, sprite, call>>

\* Mutant: the angle is kept, the matrix is that of r alone.
RotateAfresh(r) ==
  /\ Quiet /\ HasCamera /\ camera.angle + r \in Angles
  /\ camera' = [camera EXCEPT !.angle = @ + r, !.last = "rotate", !.given = m_size]
  /\ Write(camera.node.rotation, Rotation(r, m_size[1], m_size[2]))
  /\ UNCHANGED <<m_rootnode, m_size, sprite, call>>

Rotate(r) ==
  /\ Quiet /\ HasCamera /\ camera.angle + r \in Angles
  /\ camera' = [camera EXCEPT !.angle = @ + r, !.last = "rotate", !.given = m_size]
  /\ Write(camera.node.rotation, Rotation(camera.angle + r, m_size[1], m_size[2]))
  /\ UNCHANGED <<m_rootnode, m_size, sprite, call>>

\* zoom() writes the rotation node.  A factor not in Factors is left out.
Zoom(z, pos) ==
  LET zoom == IF camera.zoom + z <= LeastZoom THEN LeastZoom ELSE camera.zoom + z IN
  /\ Quiet /\ HasCamera /\ zoom \in Factors
  /\ camera' = [camera EXCEPT !.zoom = zoom, !.last = "zoom", !.given = pos]
  /\ Write(camera.node.rotation, Zooming(zoom, pos))
  /\ UNCHANGED <<m_rootnode, m_size, sprite, call>>

Renderer ==
  \/ NewRenderer(Returned) \/ NewRenderer([at |-> "translation", of |-> Nobody])
  \/ BuildCamera("translation", m_rootnode, [at |-> "rotation", of |-> Nobody])
  \/ BuildCamera("rotation", camera.node.translation, [at |-> "scalation", of |-> Nobody])
  \/ BuildCamera("scalation", camera.node.rotation, Returned)
  \/ \E size \in Sizes : Resize(size)
  \/ Close
  \/ \E x, y \in Moves : Move(x, y)
  \/ \E r \in Turns : Rotate(r)
  \/ \E z \in Zooms, pos \in Points : Zoom(z, pos)

-----------------------------------------------------------------------------
(* The constructors of Sprite.  The one that takes a sprite builds another    *)
(* object, of which nothing is kept but the nodes in the graph: its call has  *)
(* an m_parent.  Without a living parent the first node belongs to nobody.    *)

NewSprite(s, m_parent_, p) ==
  /\ Quiet /\ ~sprite[s].built /\ Room(3)
  /\ IF p \in alive THEN AddChild(p, Fresh, Identity) ELSE New(Fresh, None, Identity)
  /\ call' = [at |-> IF p \in alive THEN "rotation" ELSE "temporary", of |-> s,
              m_parent |-> m_parent_, node |-> [NoNodes EXCEPT !.translation = Fresh],
              anchor |-> IF p \in alive THEN p ELSE None]
  /\ UNCHANGED <<m_rootnode, m_size, camera, sprite>>

\* The shared_ptr make_shared returned dies at the end of the assignment.
Expire ==
  /\ call.at = "temporary"
  /\ Release(call.node.translation)
  /\ call' = [call EXCEPT !.at = "rotation"]
  /\ UNCHANGED <<m_rootnode, m_size, camera, sprite>>

\* Mutant: a failing lock does not throw.
BuildAnyway(above, field, next) ==
  /\ call.at = field /\ call.of \in Sprites
  /\ IF call.node[above] \in alive
     THEN /\ AddChild(call.node[above], Fresh, Identity)
          /\ call' = [call EXCEPT !.at = next, !.node[field] = Fresh]
     ELSE /\ Idle /\ UNCHANGED vars
          /\ call' = [call EXCEPT !.at = next]
  /\ UNCHANGED <<m_rootnode, m_size, camera, sprite>>

\* addChild of the node of `above`, or a throw: no sprite then.
Build(above, field, next) ==
  /\ call.at = field /\ call.of \in Sprites
  /\ IF call.node[above] \in alive
     THEN /\ AddChild(call.node[above], Fresh, Identity)
          /\ call' = [call EXCEPT !.at = next, !.node[field] = Fresh]
     ELSE /\ Idle /\ UNCHANGED vars
          /\ call' = Returned
  /\ UNCHANGED <<m_rootnode, m_size, camera, sprite>>

\* Mutant: the "nasty hack" is missing, the constructor leaves the scale alone.
FinishUnscaled ==
  /\ call.at = "scale" /\ Idle
  /\ UNCHANGED <<vars, m_rootnode, m_size, camera>>
  /\ sprite' = [sprite EXCEPT ![call.of] =
                  IF call.m_parent = Nobody
                  THEN [Unbuilt EXCEPT !.built = TRUE, !.node = call.node, !.anchor = call.anchor]
                  ELSE [Unbuilt EXCEPT !.built = TRUE, !.m_parent = call.m_parent]]
  /\ call' = Returned

Place ==
  /\ call.at = "position"
  /\ Write(call.node.translation, Translation(<<0, 0, 0>>)) /\ Idle
  /\ call' = [call EXCEPT !.at = "scale"]
  /\ UNCHANGED <<m_rootnode, m_size, camera, sprite>>

Finish ==
  /\ call.at = "scale"
  /\ Write(call.node.scalation, Scaling(<<0, 0, 0>>)) /\ Idle
  /\ sprite' = [sprite EXCEPT ![call.of] =
                  IF call.m_parent = Nobody
                  THEN [Unbuilt EXCEPT !.built = TRUE, !.node = call.node, !.anchor = call.anchor]
                  ELSE [Unbuilt EXCEPT !.built = TRUE, !.m_parent = call.m_parent]]
  /\ call' = Returned
  /\ UNCHANGED <<m_rootnode, m_size, camera>>

\* Sprite(), and the constructor that is given a null sprite.
NewLone(s) ==
  /\ Quiet /\ ~sprite[s].built
  /\ sprite' = [sprite EXCEPT ![s].built = TRUE]
  /\ UNCHANGED <<vars, m_rootnode, m_size, camera, call>>

Constructors ==
  \/ \E s \in Sprites, p \in Parents : NewSprite(s, Nobody, p)
  \/ \E s, q \in Sprites : sprite[q].built /\ NewSprite(s, q, sprite[q].node.rotation)
  \/ \E s \in Sprites : NewLone(s)
  \/ Expire
  \/ Build("translation", "rotation", "scalation")
  \/ Build("rotation", "scalation", "position")
  \/ Place
  \/ Finish

-----------------------------------------------------------------------------
(* The calls of a sprite.  Its fields are written before a lock can fail. *)

Has(s) == Quiet /\ sprite[s].built

\* setPosition; setX, setY and setLayer keep the other coordinates.
SetPosition(s, pos) ==
  /\ Has(s)
  /\ sprite' = [sprite EXCEPT ![s].position = pos]
  /\ Write(sprite[s].node.translation, Translation(pos))
  /\ UNCHANGED <<m_rootnode, m_size, camera, call>>

\* setScale; setWidth and setHeight keep the other size and pass a depth of 1.
SetScale(s, size) ==
  /\ Has(s)
  /\ sprite' = [sprite EXCEPT ![s].size = size]
  /\ Write(sprite[s].node.scalation, Scaling(size))
  /\ UNCHANGED <<m_rootnode, m_size, camera, call>>

\* The centre is that of the size of this moment; a failing call keeps nothing.
SetRotation(s, r) ==
  LET m == Rotation(r, sprite[s].size[1], sprite[s].size[2]) IN
  /\ Has(s)
  /\ sprite' = IF sprite[s].node.rotation \in alive
               THEN [sprite EXCEPT ![s].turned = m] ELSE sprite
  /\ Write(sprite[s].node.rotation, m)
  /\ UNCHANGED <<m_rootnode, m_size, camera, call>>

\* setParent leaves the graph as it is.
SetParentSprite(s, q) ==
  /\ Has(s) /\ (q # Nobody => sprite[q].built)
  /\ sprite' = [sprite EXCEPT ![s].m_parent = q]
  /\ UNCHANGED <<vars, m_rootnode, m_size, camera, call>>

\* The destructor, when no sprite owns this one: its nodes stay in the graph.
Destroy(s) ==
  /\ Has(s) /\ \A q \in Sprites : sprite[q].m_parent # s
  /\ sprite' = [sprite EXCEPT ![s] = Unbuilt]
  /\ UNCHANGED <<vars, m_rootnode, m_size, camera, call>>

\* The application locks what a getGraph() returns and keeps it, or drops it.
Keep(n) == Quiet /\ Hold(n) /\ UNCHANGED others
Drop(n) == Quiet /\ n # m_rootnode /\ Release(n) /\ UNCHANGED others

Setters ==
  \/ \E s \in Sprites, pos \in Positions : SetPosition(s, pos)
  \/ \E s \in Sprites, size \in Scales : SetScale(s, size)
  \/ \E s \in Sprites, r \in Angles : SetRotation(s, r)
  \/ \E s \in Sprites, q \in Sprites \cup {Nobody} : SetParentSprite(s, q)
  \/ \E s \in Sprites : Destroy(s)
  \/ \E n \in Parents \ {None} : Keep(n)
  \/ \E n \in Nodes : Drop(n)

SpriteNext ==
  \/ Recalculate /\ UNCHANGED others
  \/ Renderer
  \/ Constructors
  \/ Setters

SpriteSpec == SpriteInit /\ [][SpriteNext]_spriteVars

-----------------------------------------------------------------------------
(* Properties *)

\* The nodes of a triple are all there, and so is the node they hang from.
There(node, anchor) == {anchor, node.translation, node.rotation, node.scalation} \subseteq alive

\* "translation * rotation * scalation" (spriterenderer.hpp:102), below the node
\* the constructor was given: between calls the matrix render() passes to the
\* shader is the one of the fields, whatever was set, moved, resized or
\* destroyed since.  The rotation keeps the centre of its own moment.
SpriteMatrix ==
  Quiet => \A s \in Sprites :
    There(sprite[s].node, sprite[s].anchor) =>
      m_matrix[sprite[s].node.scalation] =
        Mul(Mul(Mul(m_matrix[sprite[s].anchor], Translation(sprite[s].position)),
                sprite[s].turned),
            Scaling(sprite[s].size))

\* What rotate and zoom have left the camera with: the angle, or the factor, that
\* all calls add up to, around what the last of the two calls was given.
LastTurn ==
  CASE camera.last = "none" -> Identity
    [] camera.last = "rotate" -> Rotation(camera.angle, camera.given[1], camera.given[2])
    [] camera.last = "zoom" -> Zooming(camera.zoom, camera.given)

\* What getGraph() of a camera hands out as a parent has the matrix of the
\* projection of the renderer's present size, the position all calls of move add
\* up to, and the last of rotate and zoom, whatever was moved, resized, built or
\* destroyed since.  Both write the rotation node, so the other one is undone.
CameraMatrix ==
  Quiet /\ HasCamera =>
      m_matrix[camera.node.scalation] =
        Mul(Mul(Mul(Projection(m_size), Translation(camera.position)), LastTurn), Identity)

\* camerarenderer.hpp says that rotate "modifies the rotation matrix accordingly"
\* and zoom "the scalation matrix", each relative to its own calls before (36-37,
\* 42-43).  A camera that was rotated and zoomed then has the angle and the factor
\* its calls add up to, around whatever centre and point.
DocZoom ==
  Quiet /\ HasCamera =>
    \E size \in Sizes, pos \in Points :
      m_matrix[camera.node.scalation] =
        Mul(Mul(Mul(Projection(m_size), Translation(camera.position)),
                Rotation(camera.angle, size[1], size[2])),
            Zooming(camera.zoom, pos))

NodesOf(node) == {node.translation, node.rotation, node.scalation}

\* Which calls throw for a node that is gone.  A constructor that was given a
\* living node has all the nodes it needs at each of its steps; one that was given
\* none has lost its first node when it comes to lock it, and throws always.  A
\* sprite has all its nodes or none, and while the node it was constructed below
\* is there, its nodes are; those of the camera are while the renderer is.
OnlyOrphansThrow ==
  /\ call # Returned /\ call.of \in Sprites =>
       IF call.anchor # None
       THEN ({call.anchor} \cup NodesOf(call.node)) \ {None} \subseteq alive
       ELSE call.at # "temporary" => call.node.translation \notin alive
  /\ \A s \in Sprites : sprite[s].built =>
       \/ sprite[s].node = NoNodes
       \/ /\ None \notin {sprite[s].anchor} \cup NodesOf(sprite[s].node)
          /\ sprite[s].anchor \in alive => There(sprite[s].node, sprite[s].anchor)
  /\ Quiet /\ HasCamera => There(camera.node, m_rootnode)
=============================================================================
