------------------------------- MODULE Screen -------------------------------
(* An application with one window and one renderer: onResize of the window is *)
(* connected to resize() of the renderer.  The application follows the order  *)
(* of the tests: it creates what needs OpenGL while initializedGL() says that *)
(* it may, and destroys it before the window is closed or opened again.       *)
EXTENDS Window, Rendering

ASSUME ScreenAssumption == Sizes \subseteq RendererSizes

screenVars == <<windowVars, renderingVars>>

ScreenTypeOK == WindowTypeOK /\ RenderingTypeOK

ScreenInit == WindowInit /\ RenderingInit

\* Nothing that uses the context is there.
Bare == made = {}

\* One event of the loop of poll(), with the slot of onResize.
Dispatch ==
  /\ HandleEvent
  /\ IF m_initializedgl /\ renderer
     THEN Resize(Head(events))
     ELSE UNCHANGED renderingVars

\* loadTexture(path) of a file that is no image shows a message and goes on to
\* read the surface it did not get.
LoadMissing ==
  /\ Ready /\ renderer
  /\ crashed' = TRUE
  /\ UNCHANGED <<object, m_window, m_context, m_initializedgl, m_size, size, created,
                 contexts, events, polling, renderingVars>>

Life ==
  /\ \/ \E w \in Windows, actual \in Sizes,
           result \in {"no window", "no context", "no library", "open"} :
          Open(w, actual, result)
     \/ Destroy
  /\ Bare
  /\ UNCHANGED renderingVars

Drawing ==
  /\ Ready /\ m_initializedgl
  /\ \/ \E complete \in SUBSET Programs : NewRenderer(complete)
     \/ CloseRenderer
     \/ \E t \in Textures : LoadTexture(t) \/ DropTexture(t)
     \/ \E tex, fbo, rbo \in Names \cup {0} : NewTarget(tex, fbo, rbo)
     \/ InitTarget \/ BindTarget \/ UnbindTarget \/ DeleteTarget
     \/ Passes
  /\ UNCHANGED windowVars

ScreenNext ==
  \/ WindowNext /\ UNCHANGED renderingVars
  \/ Life
  \/ Dispatch
  \/ Drawing
  \/ LoadMissing

ScreenSpec == ScreenInit /\ [][ScreenNext]_screenVars
=============================================================================
