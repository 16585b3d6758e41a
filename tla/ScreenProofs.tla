---------------------------- MODULE ScreenProofs ----------------------------
(* Proofs about Screen for any number of windows, textures, names and pixels  *)
(* and colours of any number of bits.                                         *)
EXTENDS Screen, FiniteSetTheorems, SequenceTheorems, TLAPS

USE WindowAssumption, RenderingAssumption, ScreenAssumption

-----------------------------------------------------------------------------
(* Colours: 2 ^ Bits of them, the number of sets of bits.                     *)

Colours == 2 ^ Bits

LEMMA ColoursPositive == Colours \in Nat \ {0} /\ White = Colours - 1
<1>1. IsFiniteSet(1 .. Bits) /\ Cardinality(1 .. Bits) = Bits
  BY FS_Interval
<1>2. IsFiniteSet(SUBSET (1 .. Bits)) /\ Cardinality(SUBSET (1 .. Bits)) = 2 ^ Bits
  BY <1>1, FS_SUBSET
<1>3. 2 ^ Bits \in Nat
  BY <1>2, FS_CardinalityType
<1>4. 2 ^ Bits # 0
  <2>1. {} \in SUBSET (1 .. Bits) OBVIOUS
  <2>2. Cardinality(SUBSET (1 .. Bits)) # 0 BY <1>2, <2>1, FS_EmptySet
  <2>3. QED BY <1>2, <2>2
<1>5. QED
  BY <1>3, <1>4 DEF Colours, White

LEMMA ColourRange ==
  /\ White \in 0 .. White
  /\ \A i \in Nat : i % Colours \in 0 .. White
<1>1. Colours \in Nat \ {0} /\ White = Colours - 1 BY ColoursPositive
<1> HIDE DEF White
<1>2. QED BY <1>1

\* The byte finishClick() does not write is above the bits of a colour.
LEMMA GarbageIsAbove ==
  ASSUME NEW colour \in 0 .. White, NEW garbage \in {0, 1}
  PROVE  /\ colour + garbage * Colours \in Nat
         /\ (colour + garbage * Colours) % Colours = colour
<1>1. Colours \in Nat \ {0} /\ White = Colours - 1 BY ColoursPositive
<1> HIDE DEF White
<1>2. garbage = 0 \/ garbage = 1 OBVIOUS
<1>3. (colour + Colours) % Colours = colour BY <1>1
<1>4. colour % Colours = colour BY <1>1
<1>5. QED BY <1>1, <1>2, <1>3, <1>4

-----------------------------------------------------------------------------
(* Types                                                                      *)

\* What an action of the window may change, in the types.
LEMMA WindowTypeStep ==
  ASSUME WindowTypeOK,
         \/ WindowNext
         \/ \E result : \E w \in Windows, actual \in Sizes : Open(w, actual, result)
         \/ HandleEvent
         \/ Destroy
  PROVE  WindowTypeOK'
<1> USE DEF WindowTypeOK
<1>1. CASE Construct BY <1>1 DEF Construct
<1>2. CASE Poll BY <1>2 DEF Poll
<1>3. CASE PollEnds BY <1>3 DEF PollEnds
<1>4. ASSUME NEW new \in Sizes, ResizeFromOutside(new) PROVE WindowTypeOK'
  <2>1. events' \in Seq(Sizes) /\ Len(events') = Len(events) + 1
    BY <1>4, AppendProperties DEF ResizeFromOutside
  <2>2. Len(events') <= MaxEvents BY <1>4, <2>1, LenProperties DEF ResizeFromOutside
  <2>3. QED BY <1>4, <2>1, <2>2 DEF ResizeFromOutside
<1>5. ASSUME NEW new \in Sizes, SetSize(new) PROVE WindowTypeOK'
  BY <1>5 DEF SetSize
<1>6. ASSUME NEW w \in Windows, NEW actual \in Sizes, NEW result, Open(w, actual, result)
      PROVE  WindowTypeOK'
  <2>0. events' = events \/ events' = Append(events, actual)
    BY <1>6 DEF Open
  <2>1. events' \in Seq(Sizes) /\ Len(events') <= MaxEvents
    <3>1. events \in Seq(Sizes) OBVIOUS
    <3>2. Append(events, actual) \in Seq(Sizes) BY <3>1, AppendProperties
    <3>3. Len(events') <= MaxEvents BY <1>6 DEF Open
    <3>4. QED BY <2>0, <3>1, <3>2, <3>3
  <2>2. m_context' \in created' \cup {Null, Garbage}
    BY <1>6 DEF Open, ContextAfter
  <2>3. contexts' \subseteq created' /\ created' \subseteq Windows
    BY <1>6 DEF Open
  <2>4. QED BY <1>6, <2>1, <2>2, <2>3 DEF Open
<1>7. CASE HandleEvent
  <2>1. Head(events) \in Sizes /\ Tail(events) \in Seq(Sizes) /\ Len(Tail(events)) = Len(events) - 1
    BY <1>7, HeadTailProperties DEF HandleEvent
  <2>2. Len(Tail(events)) <= MaxEvents BY <2>1, LenProperties
  <2>3. QED BY <1>7, <2>1, <2>2 DEF HandleEvent
<1>8. CASE Destroy
  <2>1. <<>> \in Seq(Sizes) /\ Len(<<>>) = 0 BY EmptySeq
  <2>2. crashed' \in BOOLEAN BY <1>8, Zenon DEF Destroy
  <2>3. QED BY <1>8, <2>1, <2>2 DEF Destroy
<1>9. QED BY <1>1, <1>2, <1>3, <1>4, <1>5, <1>6, <1>7, <1>8 DEF WindowNext

\* The wrappers' own variables.
NamesTypeOK ==
  /\ own \subseteq made /\ made \subseteq Objects
  /\ m_name \in [Objects -> Names \cup {0}]
  /\ names \in [Kinds -> SUBSET Names] /\ stray \in BOOLEAN

LEMMA KindOfObject == \A o \in Objects : Kind(o) \in Kinds
BY DEF Kinds

LEMMA NewIsNew ==
  ASSUME NamesTypeOK, NEW k \in Kinds, names[k] # Names
  PROVE  New(k) \in Names \ names[k]
<1>1. names[k] \subseteq Names BY DEF NamesTypeOK
<1>2. \E n \in Names : n \notin names[k] BY <1>1
<1>3. QED BY <1>2 DEF New

LEMMA GenerateTypes ==
  ASSUME NamesTypeOK, NEW os \in SUBSET Objects, Generate(os), stray' \in BOOLEAN
  PROVE  NamesTypeOK'
<1> USE DEF NamesTypeOK
<1>1. \A o \in os : New(Kind(o)) \in Names
  BY KindOfObject, NewIsNew DEF Generate
<1>2. m_name' \in [Objects -> Names \cup {0}]
  BY <1>1 DEF Generate
<1>3. \A k \in Kinds : {New(k) : o \in {o \in os : Kind(o) = k}} \subseteq Names
  BY <1>1
<1>4. names' \in [Kinds -> SUBSET Names]
  BY <1>3 DEF Generate
<1>5. QED BY <1>2, <1>4 DEF Generate

LEMMA DeleteTypes ==
  ASSUME NamesTypeOK, NEW os, Delete(os)
  PROVE  NamesTypeOK'
BY DEF NamesTypeOK, Delete

\* The variables of the passes, and of the renderer.
PassTypeOK ==
  /\ program \in Programs \cup {"0"} /\ vao \in BOOLEAN /\ scissor \in BOOLEAN
  /\ m_click \in Pixels /\ bound \in Framebuffers /\ frame \in [Framebuffers -> Images]
  /\ pass \in {"none", "normal", "pick"}
  /\ topmost \in 0 .. White /\ moved \in BOOLEAN /\ answer \in {NoAnswer} \cup Nat

RendererTypeOK ==
  /\ kept \subseteq made \cap Textures
  /\ linked \subseteq Programs /\ renderer \in BOOLEAN /\ renderer_size \in RendererSizes

LEMMA RenderingTypeParts == RenderingTypeOK <=> NamesTypeOK /\ PassTypeOK /\ RendererTypeOK
BY DEF RenderingTypeOK, NamesTypeOK, PassTypeOK, RendererTypeOK

\* The renderer's vertex array and buffer have names while it is there only.
RendererOwns == renderer \/ {"m_vao", "m_vbo"} \cap own = {}

\* No two objects of os have names of one kind.
OneOfAKind(os) == \A o, q \in os : Kind(o) = Kind(q) => o = q

\* The wrappers change by init() of objects that have no names, by destructors
\* and by the constructor of a render target.
WrapperStep ==
  \/ UNCHANGED <<made, own, m_name, names, stray>>
  \/ \E os \in SUBSET Objects :
       Generate(os) /\ os \cap own = {} /\ OneOfAKind(os) /\ stray' = stray
  \/ \E os \in SUBSET Objects : Delete(os)
  \/ \E tex, fbo, rbo \in Names \cup {0} : NewTarget(tex, fbo, rbo)

\* What the application can draw with, whatever state the window is in.
DrawingCalls ==
  \/ \E complete \in SUBSET Programs : NewRenderer(complete)
  \/ CloseRenderer
  \/ \E t \in Textures : LoadTexture(t) \/ DropTexture(t)
  \/ \E tex, fbo, rbo \in Names \cup {0} : NewTarget(tex, fbo, rbo)
  \/ InitTarget \/ BindTarget \/ UnbindTarget \/ DeleteTarget
  \/ Passes
  \/ \E new \in Sizes : Resize(new)

LEMMA WrapperCases ==
  ASSUME RenderingTypeOK, RendererOwns, DrawingCalls
  PROVE  WrapperStep
<1>1. ASSUME NEW complete \in SUBSET Programs, NewRenderer(complete) PROVE WrapperStep
  <2> DEFINE os == {"m_vao", "m_vbo"}
  <2>1. os \in SUBSET Objects BY DEF Objects
  <2>2. Generate(os) /\ os \cap own = {} /\ stray' = stray
    BY <1>1 DEF NewRenderer, RendererOwns
  <2>3. OneOfAKind(os) BY DEF OneOfAKind, Kind
  <2>4. QED BY <2>1, <2>2, <2>3 DEF WrapperStep
<1>2. CASE CloseRenderer
  <2> DEFINE os == {"m_vao", "m_vbo"} \cup ((made \cap Textures) \ kept)
  <2>1. os \in SUBSET Objects BY DEF Objects
  <2>2. Delete(os) BY <1>2 DEF CloseRenderer
  <2>3. QED BY <2>1, <2>2 DEF WrapperStep
<1>3. ASSUME NEW t \in Textures, LoadTexture(t) PROVE WrapperStep
  <2>1. {t} \in SUBSET Objects /\ t \notin own
    BY <1>3 DEF Objects, LoadTexture, RenderingTypeOK
  <2>2. Generate({t}) /\ OneOfAKind({t}) /\ stray' = stray
    BY <1>3 DEF LoadTexture, OneOfAKind
  <2>3. QED BY <2>1, <2>2 DEF WrapperStep
<1>4. ASSUME NEW t \in Textures, DropTexture(t) PROVE WrapperStep
  <2>1. {t} \in SUBSET Objects BY DEF Objects
  <2>2. UNCHANGED <<made, own, m_name, names, stray>> \/ Delete({t})
    BY <1>4 DEF DropTexture
  <2>3. QED BY <2>1, <2>2 DEF WrapperStep
<1>5. Target \in SUBSET Objects BY DEF Objects
<1>6. CASE InitTarget
  <2>1. Generate(Target) /\ Target \cap own = {} /\ stray' = stray
    BY <1>6 DEF InitTarget
  <2>2. OneOfAKind(Target) BY DEF OneOfAKind, Target, Kind
  <2>3. QED BY <1>5, <2>1, <2>2 DEF WrapperStep
<1>7. CASE DeleteTarget
  BY <1>5, <1>7 DEF DeleteTarget, WrapperStep
<1>8. CASE Passes
  BY <1>8 DEF Passes, Initialize, Finish, Render, InitializeClick, RenderClick, FinishClick,
     WrapperStep, nameVars
<1>9. ASSUME NEW new \in Sizes, Resize(new) PROVE WrapperStep
  BY <1>9 DEF Resize, WrapperStep, nameVars
<1>10. CASE BindTarget \/ UnbindTarget
  BY <1>10 DEF BindTarget, UnbindTarget, WrapperStep, nameVars
<1>11. QED BY <1>1, <1>2, <1>3, <1>4, <1>6, <1>7, <1>8, <1>9, <1>10 DEF DrawingCalls, WrapperStep

LEMMA NamesTypeStep ==
  ASSUME NamesTypeOK, WrapperStep
  PROVE  NamesTypeOK'
<1>1. CASE UNCHANGED <<made, own, m_name, names, stray>>
  BY <1>1 DEF NamesTypeOK
<1>2. ASSUME NEW os \in SUBSET Objects, Generate(os), stray' = stray PROVE NamesTypeOK'
  BY <1>2, GenerateTypes DEF NamesTypeOK
<1>3. ASSUME NEW os, Delete(os) PROVE NamesTypeOK'
  BY <1>3, DeleteTypes
<1>4. ASSUME NEW tex \in Names \cup {0}, NEW fbo \in Names \cup {0}, NEW rbo \in Names \cup {0},
             NewTarget(tex, fbo, rbo)
      PROVE  NamesTypeOK'
  <2>1. Target \subseteq Objects BY DEF Objects
  <2>2. m_name' \in [Objects -> Names \cup {0}] /\ stray' \in BOOLEAN /\ names' \in [Kinds -> SUBSET Names]
    BY <1>4 DEF NewTarget, NamesTypeOK
  <2>3. QED BY <1>4, <2>1, <2>2 DEF NewTarget, NamesTypeOK
<1>5. QED BY <1>1, <1>2, <1>3, <1>4 DEF WrapperStep

LEMMA RendererTypeStep ==
  ASSUME RenderingTypeOK, DrawingCalls
  PROVE  RendererTypeOK'
<1> USE DEF RendererTypeOK, RenderingTypeOK
<1>1. ASSUME NEW complete \in SUBSET Programs, NewRenderer(complete) PROVE RendererTypeOK'
  BY <1>1 DEF NewRenderer, Generate
<1>2. CASE CloseRenderer
  BY <1>2 DEF CloseRenderer, Delete
<1>3. ASSUME NEW t \in Textures, LoadTexture(t) PROVE RendererTypeOK'
  BY <1>3 DEF LoadTexture, Generate
<1>4. ASSUME NEW t \in Textures, DropTexture(t) PROVE RendererTypeOK'
  BY <1>4 DEF DropTexture, Delete
<1>5. ASSUME NEW tex, NEW fbo, NEW rbo, NewTarget(tex, fbo, rbo) PROVE RendererTypeOK'
  BY <1>5 DEF NewTarget
<1>6. CASE InitTarget BY <1>6 DEF InitTarget, Generate
<1>7. CASE DeleteTarget BY <1>7 DEF DeleteTarget, Delete
<1>8. CASE Passes
  BY <1>8 DEF Passes, Initialize, Finish, Render, InitializeClick, RenderClick, FinishClick, nameVars
<1>9. ASSUME NEW new \in Sizes, Resize(new) PROVE RendererTypeOK'
  BY <1>9 DEF Resize, nameVars
<1>10. CASE BindTarget \/ UnbindTarget
  BY <1>10 DEF BindTarget, UnbindTarget, nameVars
<1>11. QED BY <1>1, <1>2, <1>3, <1>4, <1>5, <1>6, <1>7, <1>8, <1>9, <1>10 DEF DrawingCalls

LEMMA PaintedType ==
  ASSUME frame \in [Framebuffers -> Images], bound \in Framebuffers,
         NEW area, NEW colour \in 0 .. White
  PROVE  Painted(area, colour) \in [Framebuffers -> Images]
<1>1. frame[bound] \in [Pixels -> 0 .. White] BY DEF Images
<1>2. [p \in Pixels |-> IF p \in area THEN colour ELSE frame[bound][p]] \in [Pixels -> 0 .. White]
  BY <1>1
<1>3. QED BY <1>2 DEF Painted, Images

\* What a drawing leaves at a pixel of the framebuffer that is bound.
LEMMA PaintedAt ==
  ASSUME frame \in [Framebuffers -> Images], bound \in Framebuffers,
         NEW area, NEW colour, NEW p \in Pixels
  PROVE  Painted(area, colour)[bound][p] = IF p \in area THEN colour ELSE frame[bound][p]
BY DEF Painted

LEMMA PlainType == Plain \in Images
BY DEF Plain, Images

LEMMA InkIsColour ==
  ASSUME NEW p, NEW i \in Ids, NEW colour \in Ink(p, i % 2 ^ Bits)
  PROVE  colour \in 0 .. White
<1>1. i \in Nat OBVIOUS
<1>2. i % Colours \in 0 .. White BY <1>1, ColourRange
<1>3. QED BY <1>2 DEF Ink, Colours

LEMMA PassTypeStep ==
  ASSUME RenderingTypeOK, DrawingCalls
  PROVE  PassTypeOK'
<1> USE DEF PassTypeOK, RenderingTypeOK
<1>1. ASSUME UNCHANGED passVars PROVE PassTypeOK'
  BY <1>1 DEF passVars, glVars
<1>2. CASE CloseRenderer
  BY <1>2 DEF CloseRenderer, glVars
<1>3. CASE Initialize
  BY <1>3 DEF Initialize, Bind, Programs
<1>4. CASE Finish
  BY <1>4 DEF Finish
<1>5. ASSUME NEW area, Render(area) PROVE PassTypeOK'
  <2>1. frame' \in [Framebuffers -> Images] BY <1>5, PaintedType DEF Render
  <2>2. QED BY <1>5, <2>1 DEF Render, glVars
<1>6. ASSUME NEW p \in Pixels, InitializeClick(p) PROVE PassTypeOK'
  <2>1. White \in 0 .. White BY ColourRange
  <2>2. frame' \in [Framebuffers -> Images] BY <1>6, <2>1, PaintedType DEF InitializeClick
  <2>3. QED BY <1>6, <2>1, <2>2 DEF InitializeClick, Bind, Programs
<1>7. ASSUME NEW area, NEW i \in Ids, RenderClick(area, i) PROVE PassTypeOK'
  <2>1. i \in Nat OBVIOUS
  <2>2. i % 2 ^ Bits \in 0 .. White BY <2>1, ColourRange DEF Colours
  <2>3. PICK colour \in Ink("m_colorpicking_shader", i % 2 ^ Bits) :
          frame' = Painted(area \cap Clip(m_click, scissor), colour)
    BY <1>7 DEF RenderClick
  <2>4. frame' \in [Framebuffers -> Images] BY <2>3, InkIsColour, PaintedType
  <2>5. topmost' \in 0 .. White BY <1>7, <2>2 DEF RenderClick
  <2>6. QED BY <1>7, <2>4, <2>5 DEF RenderClick, glVars
<1>8. ASSUME NEW garbage \in {0, 1}, FinishClick(garbage) PROVE PassTypeOK'
  <2>1. frame[bound][m_click] \in 0 .. White BY DEF Images
  <2>2. answer' \in Nat BY <1>8, <2>1, GarbageIsAbove DEF FinishClick, Colours
  <2>3. frame' \in [Framebuffers -> Images] BY <1>8, PaintedType DEF FinishClick
  <2>4. QED BY <1>8, <2>2, <2>3 DEF FinishClick
<1>9. CASE InitTarget
  <2>1. frame' \in [Framebuffers -> Images] BY <1>9 DEF InitTarget
  <2>2. QED BY <1>9, <2>1 DEF InitTarget, BindFramebuffer, Framebuffers, glVars
<1>10. CASE BindTarget \/ UnbindTarget
  BY <1>10 DEF BindTarget, UnbindTarget, BindFramebuffer, Framebuffers, glVars
<1>11. CASE DeleteTarget
  <2>1. frame' \in [Framebuffers -> Images] BY <1>11, PlainType DEF DeleteTarget
  <2>2. QED BY <1>11, <2>1 DEF DeleteTarget, BindFramebuffer, Framebuffers, glVars
<1>12. QED BY <1>1, <1>2, <1>3, <1>4, <1>5, <1>6, <1>7, <1>8, <1>9, <1>10, <1>11
  DEF DrawingCalls, Passes, NewRenderer, LoadTexture, DropTexture, NewTarget, Resize

\* A step of the application draws, or leaves the renderer and OpenGL alone.
LEMMA RenderingCases ==
  ASSUME WindowTypeOK, [ScreenNext]_screenVars
  PROVE  UNCHANGED renderingVars \/ DrawingCalls
<1>1. CASE Dispatch
  <2>1. Head(events) \in Sizes
    BY <1>1, HeadTailProperties DEF Dispatch, HandleEvent, WindowTypeOK
  <2>2. QED BY <1>1, <2>1 DEF Dispatch, DrawingCalls
<1>2. CASE Drawing
  BY <1>2 DEF Drawing, DrawingCalls
<1>3. CASE UNCHANGED screenVars
  BY <1>3 DEF screenVars
<1>4. QED BY <1>1, <1>2, <1>3 DEF ScreenNext, Life, LoadMissing

\* And it makes a step of the window, crashes, or leaves the window alone.
LoadCrash == Ready /\ crashed' = TRUE
             /\ UNCHANGED <<object, m_window, m_context, m_initializedgl, m_size, size, created,
                            contexts, events, polling>>
WindowStep ==
  \/ WindowNext
  \/ \E w \in Windows, actual \in Sizes,
        result \in {"no window", "no context", "no library", "open"} : Open(w, actual, result)
  \/ HandleEvent
  \/ Destroy

LEMMA WindowCases ==
  ASSUME [ScreenNext]_screenVars
  PROVE  UNCHANGED windowVars \/ LoadCrash \/ WindowStep
BY DEF ScreenNext, screenVars, Life, Drawing, Dispatch, LoadMissing, LoadCrash, WindowStep

LEMMA RendererOwnsStep ==
  ASSUME RenderingTypeOK, RendererOwns, DrawingCalls
  PROVE  RendererOwns'
<1> USE DEF RendererOwns
<1>1. ASSUME NEW complete \in SUBSET Programs, NewRenderer(complete) PROVE RendererOwns'
  BY <1>1 DEF NewRenderer
<1>2. CASE CloseRenderer
  BY <1>2 DEF CloseRenderer, Delete
<1>3. ASSUME NEW t \in Textures, LoadTexture(t) \/ DropTexture(t) PROVE RendererOwns'
  BY <1>3 DEF LoadTexture, DropTexture, Delete
<1>4. ASSUME NEW tex, NEW fbo, NEW rbo, NewTarget(tex, fbo, rbo) PROVE RendererOwns'
  BY <1>4 DEF NewTarget
<1>5. CASE InitTarget BY <1>5 DEF InitTarget, Generate, Target
<1>6. CASE DeleteTarget BY <1>6 DEF DeleteTarget, Delete
<1>7. CASE Passes
  BY <1>7 DEF Passes, Initialize, Finish, Render, InitializeClick, RenderClick, FinishClick, nameVars
<1>8. ASSUME NEW new \in Sizes, Resize(new) PROVE RendererOwns'
  BY <1>8 DEF Resize, nameVars
<1>9. CASE BindTarget \/ UnbindTarget
  BY <1>9 DEF BindTarget, UnbindTarget, nameVars
<1>10. QED BY <1>1, <1>2, <1>3, <1>4, <1>5, <1>6, <1>7, <1>8, <1>9 DEF DrawingCalls

LEMMA TypesInit == ScreenInit => ScreenTypeOK /\ RendererOwns
<1> SUFFICES ASSUME ScreenInit PROVE ScreenTypeOK /\ RendererOwns
  OBVIOUS
<1>1. <<>> \in Seq(Sizes) /\ Len(<<>>) = 0 BY EmptySeq
<1>2. WindowTypeOK
  <2>1. events \in Seq(Sizes) /\ Len(events) <= MaxEvents
    BY <1>1 DEF ScreenInit, WindowInit
  <2>2. QED BY <2>1 DEF ScreenInit, WindowInit, WindowTypeOK
<1>3. White \in 0 .. White BY ColourRange
<1>4. (CHOOSE p \in Pixels : TRUE) \in Pixels OBVIOUS
<1>5. RenderingTypeOK
  BY <1>3, <1>4, PlainType DEF ScreenInit, RenderingInit, RenderingTypeOK, Framebuffers
<1>6. QED BY <1>2, <1>5 DEF ScreenTypeOK, RendererOwns, ScreenInit, RenderingInit

LEMMA TypesStep ==
  ASSUME ScreenTypeOK, RendererOwns, [ScreenNext]_screenVars
  PROVE  ScreenTypeOK' /\ RendererOwns'
<1> USE DEF ScreenTypeOK
<1>1. WindowTypeOK'
  <2>1. CASE UNCHANGED windowVars BY <2>1 DEF windowVars, WindowTypeOK
  <2>2. CASE LoadCrash BY <2>2 DEF LoadCrash, WindowTypeOK
  <2>3. CASE WindowStep BY <2>3, WindowTypeStep DEF WindowStep
  <2>4. QED BY <2>1, <2>2, <2>3, WindowCases
<1>2. RenderingTypeOK' /\ RendererOwns'
  <2>1. CASE UNCHANGED renderingVars
    BY <2>1 DEF renderingVars, nameVars, passVars, glVars, RenderingTypeOK, RendererOwns
  <2>2. CASE DrawingCalls
    <3>1. NamesTypeOK' BY <2>2, WrapperCases, NamesTypeStep, RenderingTypeParts
    <3>2. PassTypeOK' BY <2>2, PassTypeStep
    <3>3. RendererTypeOK' BY <2>2, RendererTypeStep
    <3>4. RenderingTypeOK' BY <3>1, <3>2, <3>3
      DEF RenderingTypeOK, NamesTypeOK, PassTypeOK, RendererTypeOK
    <3>5. QED BY <2>2, <3>4, RendererOwnsStep
  <2>3. QED BY <2>1, <2>2, RenderingCases
<1>3. QED BY <1>1, <1>2

\* Window, wrappers, renderer and passes are well typed.
THEOREM ScreenTypeCorrect == ScreenSpec => []ScreenTypeOK
<1>1. ScreenTypeOK /\ RendererOwns /\ [ScreenNext]_screenVars => ScreenTypeOK' /\ RendererOwns'
  BY TypesStep
<1>2. QED BY <1>1, TypesInit, PTL DEF ScreenSpec

-----------------------------------------------------------------------------
(* The window and its context                                                 *)

\* A context pointer is garbage only while no window was ever created; and as
\* long as one window was, its context is the only one there can be.
ContextInv ==
  /\ IsFiniteSet(created)
  /\ m_context = Garbage => created = {}
  /\ object = "none" => created = {} /\ ~m_initializedgl
  /\ object = "gone" /\ crashed => created = {}
  /\ (\A v, w \in created : v = w) =>
       /\ object = "gone" => contexts = {}
       /\ object # "gone" => contexts \subseteq {m_context}
       /\ object # "gone" /\ m_initializedgl => m_context \in contexts

LEMMA ContextStep ==
  ASSUME WindowTypeOK, ContextInv, UNCHANGED windowVars \/ LoadCrash \/ WindowStep
  PROVE  ContextInv'
<1> USE DEF ContextInv
<1>1. CASE UNCHANGED windowVars BY <1>1 DEF windowVars
<1>2. CASE LoadCrash BY <1>2 DEF LoadCrash, Ready
<1>3. CASE Construct BY <1>3 DEF Construct
<1>4. CASE Poll \/ PollEnds BY <1>4 DEF Poll, PollEnds
<1>5. ASSUME NEW new \in Sizes, ResizeFromOutside(new) \/ SetSize(new) PROVE ContextInv'
  BY <1>5 DEF ResizeFromOutside, SetSize
<1>6. CASE HandleEvent BY <1>6 DEF HandleEvent
<1>7. CASE Destroy
  <2>1. crashed' => m_context = Garbage BY <1>7 DEF Destroy
  <2>2. QED BY <1>7, <2>1 DEF Destroy, Ready
<1>8. ASSUME NEW w \in Windows, NEW actual \in Sizes,
             NEW result \in {"no window", "no context", "no library", "open"},
             Open(w, actual, result)
      PROVE  ContextInv'
  <2>1. /\ object = "built" /\ object' = "built" /\ w \notin created
        /\ m_context' = ContextAfter(w, result)
    BY <1>8 DEF Open, Ready
  <2>2. CASE result = "no window"
    <3>1. UNCHANGED <<created, contexts>> BY <1>8, <2>2 DEF Open
    <3>2. m_context' = m_context BY <2>1, <2>2 DEF ContextAfter
    <3>3. m_initializedgl' => m_initializedgl BY <1>8, <2>2, Zenon DEF Open
    <3>4. QED BY <2>1, <3>1, <3>2, <3>3
  <2>3. CASE result # "no window"
    <3>1. created' = created \cup {w} BY <1>8, <2>3 DEF Open
    <3>2. IsFiniteSet(created') BY <3>1, FS_AddElement
    <3>3. m_context' # Garbage
      BY <2>1, <2>3 DEF ContextAfter
    <3>4. ASSUME \A v, u \in created' : v = u
          PROVE  /\ contexts' \subseteq {m_context'}
                 /\ m_initializedgl' => m_context' \in contexts'
      <4>1. \A v \in created : v = w BY <3>1, <3>4
      <4>2. created = {} BY <2>1, <4>1
      <4>3. contexts = {} /\ ~m_initializedgl BY <2>1, <4>2 DEF WindowTypeOK
      <4>4. m_initializedgl' => result = "open" BY <1>8, <4>3, Zenon DEF Open
      <4>5. contexts' = IF result \in {"no library", "open"} THEN {w} ELSE {}
        BY <1>8, <4>3 DEF Open
      <4>6. QED BY <2>1, <2>3, <4>4, <4>5 DEF ContextAfter
    <3>5. QED BY <2>1, <3>1, <3>2, <3>3, <3>4
  <2>4. QED BY <2>2, <2>3
<1>9. QED BY <1>1, <1>2, <1>3, <1>4, <1>5, <1>6, <1>7, <1>8 DEF WindowStep, WindowNext

\* Whatever call of open() fails, and wherever: the destructor of a window that
\* was opened once deletes its context, and a garbage pointer is only passed to
\* SDL when there never was a window.
THEOREM ContextsAreFreed == ScreenSpec => []ContextFreed
<1>1. ScreenInit => ContextInv
  BY FS_EmptySet DEF ScreenInit, WindowInit, ContextInv
<1>2. ScreenTypeOK /\ ContextInv /\ [ScreenNext]_screenVars => ContextInv'
  BY WindowCases, ContextStep DEF ScreenTypeOK
<1>3. ContextInv => ContextFreed
  <2> SUFFICES ASSUME ContextInv PROVE ContextFreed
    OBVIOUS
  <2>1. ASSUME Cardinality(created) <= 1, NEW v \in created, NEW w \in created PROVE v = w
    <3>1. IsFiniteSet(created) /\ {v, w} \subseteq created BY DEF ContextInv
    <3>2. SUFFICES ASSUME v # w PROVE FALSE OBVIOUS
    <3>3. IsFiniteSet({v}) /\ Cardinality({v}) = 1 BY FS_Singleton
    <3>4. Cardinality({v} \cup {w}) = 2
      <4>1. w \notin {v} BY <3>2
      <4>2. Cardinality({v} \cup {w}) = Cardinality({v}) + 1 BY <3>3, <4>1, FS_AddElement
      <4>3. QED BY <3>3, <4>2
    <3>5. Cardinality({v} \cup {w}) <= Cardinality(created) BY <3>1, FS_Subset
    <3>6. Cardinality(created) \in Nat BY <3>1, FS_CardinalityType
    <3>7. QED BY <2>1, <3>4, <3>5, <3>6
  <2>2. QED BY <2>1 DEF ContextInv, ContextFreed
<1>4. QED BY <1>1, <1>2, <1>3, ScreenTypeCorrect, PTL DEF ScreenSpec

-----------------------------------------------------------------------------
(* The names of OpenGL                                                        *)

\* Every name OpenGL knows was generated for an object that still owns it.
NamesAreOwned ==
  \A k \in Kinds : \A n \in names[k] : \E o \in own : Kind(o) = k /\ m_name[o] = n

OwnersAreKnown == \A o \in own : m_name[o] \in names[Kind(o)]
OwnersDiffer == \A o, q \in own : o # q /\ Kind(o) = Kind(q) => m_name[o] # m_name[q]

NamesInv == NamesAreOwned /\ (~stray => OwnersAreKnown /\ OwnersDiffer)

LEMMA GenerateKeepsNames ==
  ASSUME NamesTypeOK, NamesInv, NEW os \in SUBSET Objects,
         Generate(os), os \cap own = {}, OneOfAKind(os), stray' = stray
  PROVE  NamesInv'
<1> USE DEF NamesTypeOK
<1>1. /\ own' = own \cup os
      /\ m_name' = [o \in Objects |-> IF o \in os THEN New(Kind(o)) ELSE m_name[o]]
      /\ names' = [k \in Kinds |-> names[k] \cup {New(k) : o \in {o \in os : Kind(o) = k}}]
  BY DEF Generate
<1>2. \A o \in os : o \in Objects /\ m_name'[o] = New(Kind(o))
                    /\ New(Kind(o)) \in Names \ names[Kind(o)]
  BY <1>1, KindOfObject, NewIsNew DEF Generate
<1>3. \A o \in own : o \in Objects /\ o \notin os /\ m_name'[o] = m_name[o]
  BY <1>1
<1>4. \A k \in Kinds : names'[k] = names[k] \cup {New(k) : o \in {o \in os : Kind(o) = k}}
  BY <1>1
<1>5. NamesAreOwned'
  <2>1. SUFFICES ASSUME NEW k \in Kinds, NEW n \in names'[k]
                 PROVE  \E o \in own' : Kind(o) = k /\ m_name'[o] = n
    BY DEF NamesAreOwned
  <2>2. CASE n \in names[k]
    <3>1. PICK o \in own : Kind(o) = k /\ m_name[o] = n
      BY <2>2 DEF NamesInv, NamesAreOwned
    <3>2. QED BY <1>1, <1>3, <3>1
  <2>3. CASE n \notin names[k]
    <3>1. PICK o \in os : Kind(o) = k /\ n = New(k) BY <1>4, <2>3
    <3>2. QED BY <1>1, <1>2, <3>1
  <2>4. QED BY <2>2, <2>3
<1>6. ASSUME ~stray PROVE OwnersAreKnown'
  <2>1. SUFFICES ASSUME NEW o \in own' PROVE m_name'[o] \in names'[Kind(o)]
    BY DEF OwnersAreKnown
  <2>2. CASE o \in os
    BY <1>2, <1>4, <2>2, KindOfObject
  <2>3. CASE o \in own
    <3>1. m_name[o] \in names[Kind(o)] BY <1>6, <2>3 DEF NamesInv, OwnersAreKnown
    <3>2. QED BY <1>3, <1>4, <2>3, <3>1, KindOfObject
  <2>4. QED BY <1>1, <2>2, <2>3
<1>7. ASSUME ~stray PROVE OwnersDiffer'
  <2>1. SUFFICES ASSUME NEW o \in own', NEW q \in own', o # q, Kind(o) = Kind(q)
                 PROVE  m_name'[o] # m_name'[q]
    BY DEF OwnersDiffer
  <2>2. CASE o \in own /\ q \in own
    BY <1>3, <1>7, <2>1, <2>2 DEF NamesInv, OwnersDiffer
  <2>3. ASSUME NEW a \in os, NEW b \in own, Kind(a) = Kind(b) PROVE m_name'[a] # m_name'[b]
    <3>1. m_name[b] \in names[Kind(b)] BY <1>7 DEF NamesInv, OwnersAreKnown
    <3>2. QED BY <1>2, <1>3, <2>3, <3>1
  <2>4. ~(o \in os /\ q \in os) BY <2>1 DEF OneOfAKind
  <2>5. QED BY <1>1, <2>1, <2>2, <2>3, <2>4
<1>8. QED BY <1>5, <1>6, <1>7 DEF NamesInv

LEMMA DeleteKeepsNames ==
  ASSUME NamesTypeOK, NamesInv, NEW os \in SUBSET Objects, Delete(os)
  PROVE  NamesInv'
<1> USE DEF NamesTypeOK
<1>1. /\ own' = own \ os
      /\ m_name' = [o \in Objects |-> IF o \in os THEN 0 ELSE m_name[o]]
      /\ names' = [k \in Kinds |-> names[k] \ {m_name[o] : o \in {o \in os : Kind(o) = k}}]
  BY DEF Delete
<1>2. \A o \in own' : o \in Objects /\ o \in own /\ o \notin os /\ m_name'[o] = m_name[o]
  BY <1>1
<1>3. \A k \in Kinds : names'[k] = names[k] \ {m_name[o] : o \in {o \in os : Kind(o) = k}}
  BY <1>1
<1>4. NamesAreOwned'
  <2>1. SUFFICES ASSUME NEW k \in Kinds, NEW n \in names'[k]
                 PROVE  \E o \in own' : Kind(o) = k /\ m_name'[o] = n
    BY DEF NamesAreOwned
  <2>2. n \in names[k] /\ \A o \in os : Kind(o) = k => m_name[o] # n
    BY <1>3
  <2>3. PICK o \in own : Kind(o) = k /\ m_name[o] = n
    BY <2>2 DEF NamesInv, NamesAreOwned
  <2>4. o \in own' BY <1>1, <2>2, <2>3
  <2>5. QED BY <1>2, <2>3, <2>4
<1>5. ASSUME ~stray' PROVE OwnersAreKnown' /\ OwnersDiffer'
  <2>1. ~stray /\ \A o \in os \ own : m_name[o] \notin names[Kind(o)]
    BY <1>5 DEF Delete
  <2>2. OwnersAreKnown /\ OwnersDiffer BY <2>1 DEF NamesInv
  <2>3. OwnersDiffer' BY <1>2, <2>2 DEF OwnersDiffer
  <2>4. SUFFICES ASSUME NEW o \in own' PROVE m_name'[o] \in names'[Kind(o)]
    BY <2>3 DEF OwnersAreKnown
  <2>5. m_name[o] \in names[Kind(o)] BY <1>2, <2>2 DEF OwnersAreKnown
  <2>6. ASSUME NEW q \in os, Kind(q) = Kind(o) PROVE m_name[q] # m_name[o]
    <3>1. CASE q \in own BY <1>2, <2>2, <2>6, <3>1 DEF OwnersDiffer
    <3>2. CASE q \notin own BY <2>1, <2>5, <2>6, <3>2
    <3>3. QED BY <3>1, <3>2
  <2>7. QED BY <1>2, <1>3, <2>5, <2>6, KindOfObject
<1>6. QED BY <1>4, <1>5 DEF NamesInv

LEMMA NewTargetKeepsNames ==
  ASSUME NamesTypeOK, NamesInv, NEW tex, NEW fbo, NEW rbo, NewTarget(tex, fbo, rbo)
  PROVE  NamesInv'
<1> USE DEF NamesTypeOK
<1>1. own' = own /\ \A o \in own : o \in Objects /\ m_name'[o] = m_name[o]
  BY DEF NewTarget, Target
<1>2. \A k \in Kinds : names'[k] = IF k = "texture" THEN names[k] \ {tex} ELSE names[k]
  BY DEF NewTarget
<1>3. NamesAreOwned'
  <2>1. SUFFICES ASSUME NEW k \in Kinds, NEW n \in names'[k]
                 PROVE  \E o \in own : Kind(o) = k /\ m_name'[o] = n
    BY <1>1 DEF NamesAreOwned
  <2>2. n \in names[k] BY <1>2
  <2>3. PICK o \in own : Kind(o) = k /\ m_name[o] = n
    BY <2>2 DEF NamesInv, NamesAreOwned
  <2>4. QED BY <1>1, <2>3
<1>4. ASSUME ~stray' PROVE OwnersAreKnown' /\ OwnersDiffer'
  <2>1. ~stray /\ tex \notin names["texture"] BY <1>4 DEF NewTarget
  <2>2. \A k \in Kinds : names'[k] = names[k] BY <1>2, <2>1
  <2>3. OwnersAreKnown /\ OwnersDiffer BY <2>1 DEF NamesInv
  <2>4. QED BY <1>1, <2>2, <2>3, KindOfObject DEF OwnersAreKnown, OwnersDiffer
<1>5. QED BY <1>3, <1>4 DEF NamesInv

LEMMA NamesStep ==
  ASSUME NamesTypeOK, NamesInv, WrapperStep
  PROVE  NamesInv'
<1>1. CASE UNCHANGED <<made, own, m_name, names, stray>>
  BY <1>1 DEF NamesInv, NamesAreOwned, OwnersAreKnown, OwnersDiffer
<1>2. QED BY <1>1, GenerateKeepsNames, DeleteKeepsNames, NewTargetKeepsNames DEF WrapperStep

\* A live object's name is known to OpenGL and is nobody else's, and when the
\* last object that owns names is destroyed OpenGL knows none.
THEOREM NamesBelongToObjects == ScreenSpec => []NamesAreOwn
<1> DEFINE Inv == ScreenTypeOK /\ RendererOwns /\ NamesInv
<1>1. ScreenInit => NamesInv
  <2>1. ScreenInit => own = {} /\ \A k \in Kinds : names[k] = {}
    BY DEF ScreenInit, RenderingInit
  <2>2. QED BY <2>1 DEF NamesInv, NamesAreOwned, OwnersAreKnown, OwnersDiffer
<1>2. Inv /\ [ScreenNext]_screenVars => Inv'
  <2> SUFFICES ASSUME ScreenTypeOK, RendererOwns, NamesInv, [ScreenNext]_screenVars
               PROVE  NamesInv'
    BY TypesStep
  <2>1. CASE UNCHANGED renderingVars
    BY <2>1 DEF renderingVars, nameVars, NamesInv, NamesAreOwned, OwnersAreKnown, OwnersDiffer
  <2>2. CASE DrawingCalls
    BY <2>2, WrapperCases, NamesStep, RenderingTypeParts DEF ScreenTypeOK
  <2>3. QED BY <2>1, <2>2, RenderingCases DEF ScreenTypeOK
<1>3. Inv => NamesAreOwn
  <2> SUFFICES ASSUME ScreenTypeOK, NamesInv PROVE NamesAreOwn
    OBVIOUS
  <2>1. own \subseteq made /\ \A k \in Kinds : names[k] \subseteq Names
    BY DEF ScreenTypeOK, RenderingTypeOK
  <2>2. ASSUME made = {}, NEW k \in Kinds PROVE names[k] = {}
    BY <2>1, <2>2 DEF NamesInv, NamesAreOwned
  <2>3. QED BY <2>2 DEF NamesAreOwn, NamesInv, OwnersAreKnown, OwnersDiffer
<1>4. QED BY <1>1, <1>2, <1>3, TypesInit, PTL DEF ScreenSpec

-----------------------------------------------------------------------------
(* The number at the clicked pixel                                            *)

Picking == "m_colorpicking_shader"

\* While a complete program draws the numbers into one framebuffer, the pixel has
\* that of the sprite on top; the answer is of the last pass of this renderer that
\* picked.
PickInv ==
  /\ bound = "m_fbo" => Target \subseteq own
  /\ ~renderer => pass = "none" /\ answer = NoAnswer
  /\ Picking \in linked /\ pass = "pick" =>
       /\ program = Picking
       /\ ~moved => frame[bound][m_click] = topmost
  /\ Picking \in linked /\ pass # "pick" /\ answer # NoAnswer /\ ~moved =>
       answer % Colours = topmost

LEMMA BoundStep ==
  ASSUME RenderingTypeOK, bound = "m_fbo" => Target \subseteq own, DrawingCalls
  PROVE  bound' = "m_fbo" => Target \subseteq own'
<1>1. ASSUME NEW complete \in SUBSET Programs, NewRenderer(complete)
      PROVE  bound' = "m_fbo" => Target \subseteq own'
  BY <1>1 DEF NewRenderer, Generate, passVars
<1>2. CASE CloseRenderer
  BY <1>2 DEF CloseRenderer, Delete, Target
<1>3. ASSUME NEW t \in Textures, LoadTexture(t) PROVE bound' = "m_fbo" => Target \subseteq own'
  BY <1>3 DEF LoadTexture, Generate, passVars
<1>4. ASSUME NEW t \in Textures, DropTexture(t) PROVE bound' = "m_fbo" => Target \subseteq own'
  BY <1>4 DEF DropTexture, Delete, passVars
<1>5. ASSUME NEW tex, NEW fbo, NEW rbo, NewTarget(tex, fbo, rbo)
      PROVE  bound' = "m_fbo" => Target \subseteq own'
  BY <1>5 DEF NewTarget, passVars
<1>6. CASE InitTarget BY <1>6 DEF InitTarget, Generate
<1>7. CASE BindTarget BY <1>7 DEF BindTarget, nameVars
<1>8. CASE UnbindTarget BY <1>8 DEF UnbindTarget, BindFramebuffer
<1>9. CASE DeleteTarget BY <1>9 DEF DeleteTarget, BindFramebuffer
<1>10. CASE Passes
  BY <1>10 DEF Passes, Initialize, Finish, Render, InitializeClick, RenderClick, FinishClick, nameVars
<1>11. ASSUME NEW new, Resize(new) PROVE bound' = "m_fbo" => Target \subseteq own'
  BY <1>11 DEF Resize, nameVars, passVars
<1>12. QED BY <1>1, <1>2, <1>3, <1>4, <1>5, <1>6, <1>7, <1>8, <1>9, <1>10, <1>11 DEF DrawingCalls

LEMMA PickStep ==
  ASSUME RenderingTypeOK, PickInv, DrawingCalls
  PROVE  PickInv'
<1> DEFINE PickPart ==
      /\ ~renderer => pass = "none" /\ answer = NoAnswer
      /\ Picking \in linked /\ pass = "pick" =>
           /\ program = Picking
           /\ ~moved => frame[bound][m_click] = topmost
      /\ Picking \in linked /\ pass # "pick" /\ answer # NoAnswer /\ ~moved =>
           answer % Colours = topmost
<1>0. PickPart BY DEF PickInv
<1> SUFFICES PickPart'
  BY BoundStep DEF PickInv
<1> USE <1>0
<1>1. ASSUME UNCHANGED <<linked, renderer, passVars>> PROVE PickPart'
  BY <1>1 DEF passVars, glVars
<1>2. ASSUME NEW complete, NewRenderer(complete) PROVE PickPart'
  BY <1>2 DEF NewRenderer, passVars, glVars
<1>3. CASE CloseRenderer
  BY <1>3 DEF CloseRenderer
<1>4. CASE Initialize
  BY <1>4 DEF Initialize
<1>5. CASE Finish
  BY <1>5 DEF Finish
<1>6. ASSUME NEW area, Render(area) PROVE PickPart'
  BY <1>6 DEF Render
<1>7. ASSUME NEW p \in Pixels, InitializeClick(p) PROVE PickPart'
  <2>1. frame'[bound'][m_click'] = White /\ topmost' = White
    BY <1>7, PaintedAt DEF InitializeClick, Clip, RenderingTypeOK
  <2>2. Picking \in linked' => program' = Picking
    BY <1>7 DEF InitializeClick, Bind, Picking
  <2>3. QED BY <1>7, <2>1, <2>2 DEF InitializeClick
<1>8. ASSUME NEW area, NEW i \in Ids, RenderClick(area, i) PROVE PickPart'
  <2>1. PICK colour \in Ink("m_colorpicking_shader", i % 2 ^ Bits) :
          frame' = Painted(area \cap Clip(m_click, scissor), colour)
    BY <1>8 DEF RenderClick
  <2>2. /\ m_click' = m_click /\ bound' = bound /\ moved' = moved
        /\ m_click \in Pixels /\ m_click \in Clip(m_click, scissor)
    BY <1>8 DEF RenderClick, Clip, RenderingTypeOK, glVars
  <2>3. frame'[bound][m_click] = IF m_click \in area THEN colour ELSE frame[bound][m_click]
    BY <2>1, <2>2, PaintedAt DEF RenderingTypeOK
  <2>4. Picking \in linked => colour = i % 2 ^ Bits
    BY <1>8, <2>1 DEF RenderClick, Ink, Picking
  <2>5. QED BY <1>8, <2>2, <2>3, <2>4 DEF RenderClick, glVars
<1>9. ASSUME NEW garbage \in {0, 1}, FinishClick(garbage) PROVE PickPart'
  <2>1. frame[bound][m_click] \in 0 .. White BY DEF RenderingTypeOK, Images
  <2>2. answer' % Colours = frame[bound][m_click]
    BY <1>9, <2>1, GarbageIsAbove DEF FinishClick, Colours
  <2>3. QED BY <1>9, <2>2 DEF FinishClick
<1>10. ASSUME NEW f, BindFramebuffer(f), UNCHANGED <<linked, renderer, glVars, pass, topmost, answer>>,
              \/ frame'[bound] = frame[bound]
              \/ f # bound
              \/ pass # "pick"
       PROVE  PickPart'
  <2>1. ~moved' => ~moved /\ (pass = "pick" => bound' = bound)
    BY <1>10 DEF BindFramebuffer, RenderingTypeOK
  <2>2. pass = "pick" /\ bound' = bound => frame'[bound] = frame[bound]
    BY <1>10 DEF BindFramebuffer
  <2>3. QED BY <1>10, <2>1, <2>2 DEF glVars
<1>11. CASE BindTarget \/ UnbindTarget
  BY <1>10, <1>11 DEF BindTarget, UnbindTarget
<1>12. CASE InitTarget
  <2>1. bound = "screen"
    BY <1>12 DEF InitTarget, PickInv, Target, RenderingTypeOK, Framebuffers
  <2>2. QED BY <1>10, <1>12, <2>1 DEF InitTarget
<1>13. CASE DeleteTarget
  <2>1. frame'["screen"] = frame["screen"]
    BY <1>13 DEF DeleteTarget, RenderingTypeOK, Framebuffers
  <2>2. QED BY <1>10, <1>13, <2>1 DEF DeleteTarget
<1>14. QED BY <1>1, <1>2, <1>3, <1>4, <1>5, <1>6, <1>7, <1>8, <1>9, <1>11, <1>12, <1>13
  DEF DrawingCalls, Passes, LoadTexture, DropTexture, NewTarget, Resize

\* finishClick() answers, in the bits a colour has, with the number of the sprite
\* that was drawn last over the clicked pixel, or white, whatever was drawn in
\* any pass before and whichever framebuffer is bound, if it stays bound during
\* the pass; the byte it does not write is above those bits.
THEOREM PickAnswersTopmost == ScreenSpec => []PickIsTopmost
<1>1. ScreenInit => PickInv
  BY DEF ScreenInit, RenderingInit, PickInv, Framebuffers
<1>2. ScreenTypeOK /\ PickInv /\ [ScreenNext]_screenVars => PickInv'
  <2> SUFFICES ASSUME ScreenTypeOK, PickInv, [ScreenNext]_screenVars PROVE PickInv'
    OBVIOUS
  <2>1. CASE UNCHANGED renderingVars
    BY <2>1 DEF renderingVars, nameVars, passVars, glVars, PickInv
  <2>2. CASE DrawingCalls
    BY <2>2, PickStep DEF ScreenTypeOK
  <2>3. QED BY <2>1, <2>2, RenderingCases DEF ScreenTypeOK
<1>3. PickInv => PickIsTopmost
  BY DEF PickInv, PickIsTopmost, Answered, Picking, Colours
<1>4. QED BY <1>1, <1>2, <1>3, ScreenTypeCorrect, PTL DEF ScreenSpec
=============================================================================
