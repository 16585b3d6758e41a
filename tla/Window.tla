------------------------------- MODULE Window -------------------------------
(* sdl2::SDLWindow: SDL, one window with its OpenGL context, and the events   *)
(* of the window system.  SDL itself is external: a call of it can fail, the  *)
(* window system may give a window another size than was asked for, and every *)
(* change of size from outside queues a RESIZED event; SDL_SetWindowSize      *)
(* queues none.                                                               *)
EXTENDS Integers, Sequences, FiniteSets

CONSTANTS Windows,    \* windows SDL can create, and the contexts made for them
          Null,
          Garbage,    \* the value of a pointer that was not initialised
          Sizes, DefaultSize,
          MaxEvents   \* bound on the events that wait

ASSUME WindowAssumption ==
  /\ DefaultSize \in Sizes /\ MaxEvents \in Nat
  /\ {Null, Garbage} \cap Windows = {} /\ Null # Garbage

VARIABLES object,           \* of class SDLWindow: "none", "built" or "gone"
          crashed,          \* the process ended in undefined behaviour
          m_window, m_context, m_initializedgl, m_size,
          size,             \* of the window on the screen
          created,          \* history: the windows SDL ever created
          contexts,         \* the contexts there are
          events, polling

windowVars == <<object, crashed, m_window, m_context, m_initializedgl, m_size,
                size, created, contexts, events, polling>>

WindowTypeOK ==
  /\ object \in {"none", "built", "gone"} /\ crashed \in BOOLEAN
  /\ m_window \in created \cup {Null} /\ m_context \in created \cup {Null, Garbage}
  /\ m_initializedgl \in BOOLEAN /\ m_size \in Sizes /\ size \in Sizes
  /\ contexts \subseteq created /\ created \subseteq Windows
  /\ events \in Seq(Sizes) /\ Len(events) <= MaxEvents /\ polling \in BOOLEAN

WindowInit ==
  /\ object = "none" /\ crashed = FALSE
  /\ m_window = Null /\ m_context = Garbage /\ m_initializedgl = FALSE
  /\ m_size = DefaultSize /\ size = DefaultSize
  /\ created = {} /\ contexts = {} /\ events = <<>> /\ polling = FALSE

Ready == object = "built" /\ ~polling /\ ~crashed

\* The constructor.  When SDL_Init fails it throws, and there is no object.
Construct ==
  /\ object = "none"
  /\ object' = "built"
  /\ UNCHANGED <<crashed, m_window, m_context, m_initializedgl, m_size, size,
                 created, contexts, events, polling>>

\* Mutant: m_context is assigned only when there is a context.
ContextIfAny(w, result) ==
  CASE result = "no window"  -> m_context
    [] result = "no context" -> m_context
    [] OTHER                 -> w

\* m_context after open(): it is assigned before it is compared with NULL.
ContextAfter(w, result) ==
  CASE result = "no window"  -> m_context
    [] result = "no context" -> Null
    [] OTHER                 -> w

\* open(), which throws at the call that fails: the window, its context, or one
\* of the libraries for images and fonts.  The window of a former open() is
\* destroyed by the assignment of the unique_ptr, its context is not.
Open(w, actual, result) ==
  /\ Ready /\ w \in Windows \ created
  /\ m_window' = IF result = "no window" THEN Null ELSE w
  /\ m_context' = ContextAfter(w, result)
  /\ contexts' = IF result \in {"no library", "open"} THEN contexts \cup {w} ELSE contexts
  /\ m_initializedgl' = (m_initializedgl \/ result = "open")
  /\ IF result = "no window"
     THEN UNCHANGED <<size, created, events>>
     ELSE /\ size' = actual
          /\ created' = created \cup {w}
          /\ events' = IF actual = m_size THEN events ELSE Append(events, actual)
  /\ Len(events') <= MaxEvents
  /\ UNCHANGED <<object, crashed, m_size, polling>>

\* The window system, at any time.
ResizeFromOutside(new) ==
  /\ m_window # Null /\ object = "built" /\ ~crashed
  /\ new # size /\ Len(events) < MaxEvents
  /\ size' = new
  /\ events' = Append(events, new)
  /\ UNCHANGED <<object, crashed, m_window, m_context, m_initializedgl, m_size,
                 created, contexts, polling>>

\* poll() handles events until none is left.
Poll ==
  /\ Ready /\ events # <<>>
  /\ polling' = TRUE
  /\ UNCHANGED <<object, crashed, m_window, m_context, m_initializedgl, m_size, size,
                 created, contexts, events>>

\* handleEvent of a RESIZED event; it does not ask of which window.
HandleEvent ==
  /\ polling /\ events # <<>>
  /\ m_size' = IF m_initializedgl THEN Head(events) ELSE m_size
  /\ events' = Tail(events)
  /\ UNCHANGED <<object, crashed, m_window, m_context, m_initializedgl, size, created,
                 contexts, polling>>

PollEnds ==
  /\ polling /\ events = <<>>
  /\ polling' = FALSE
  /\ UNCHANGED <<object, crashed, m_window, m_context, m_initializedgl, m_size, size,
                 created, contexts, events>>

\* setWidth and setHeight; without a window SDL_SetWindowSize does nothing.
SetSize(new) ==
  /\ Ready /\ (new[1] = m_size[1] \/ new[2] = m_size[2])
  /\ m_size' = new
  /\ size' = IF m_window = Null THEN size ELSE new
  /\ UNCHANGED <<object, crashed, m_window, m_context, m_initializedgl, created,
                 contexts, events, polling>>

\* The destructor, SDL_Quit, and that of m_window.  It passes to SDL whatever
\* m_context is: undefined when open() never got as far as to assign it.
Destroy ==
  /\ Ready
  /\ object' = "gone"
  /\ crashed' \in IF m_context = Garbage THEN BOOLEAN ELSE {FALSE}
  /\ contexts' = contexts \ {m_context}
  /\ m_window' = Null /\ events' = <<>>
  /\ UNCHANGED <<m_context, m_initializedgl, m_size, size, created, polling>>

\* The calls that are made whatever is drawn.
WindowNext ==
  \/ Construct \/ Poll \/ PollEnds
  \/ \E new \in Sizes : ResizeFromOutside(new) \/ SetSize(new)

-----------------------------------------------------------------------------
(* Properties *)

\* open() fails at any of its steps, and the destructor cleans up what there is:
\* no context outlives a window that was opened once, initializedGL() says that
\* there is one, and only a window that could never be created leaves the
\* destructor a garbage context.  (Opened twice, the first context is never
\* deleted, and a failing second open() leaves m_initializedgl set.)
ContextFreed ==
  /\ Cardinality(created) <= 1 =>
       /\ object = "gone" => contexts = {}
       /\ object = "built" /\ m_initializedgl => m_context \in contexts
  /\ object = "gone" /\ crashed => created = {}
=============================================================================
