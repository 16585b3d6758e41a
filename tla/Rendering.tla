----------------------------- MODULE Rendering -----------------------------
(* The OpenGL side of gawo: the wrappers of glclasses.hpp, whose objects own  *)
(* names of OpenGL, RenderToTexture, the shader programs, and the passes of   *)
(* SpriteRenderer, in the framebuffer that is bound.  Of OpenGL, which is     *)
(* external, only what the calls have an effect on is kept.                   *)
EXTENDS Integers, FiniteSets

CONSTANTS Textures,     \* the textures loadTexture creates
          Names,        \* names of OpenGL other than 0
          Pixels,       \* those that the window and the render target both have
          Bits,         \* of a colour that is read back (24)
          Background,   \* colour of what is not a number: the scene, the clear colour
          Ids,          \* numbers the application gives to sprites
          RendererSizes, UnitSize

White == 2 ^ Bits - 1

\* The objects that own names: the vertex array and the buffer of the renderer,
\* the textures, and the parts of a RenderToTexture.
Target == {"m_tex", "m_fbo", "m_rbo"}
Objects == {"m_vao", "m_vbo"} \cup Textures \cup Target
Kind(o) == IF o \in Textures \cup {"m_tex"} THEN "texture" ELSE o
Kinds == {Kind(o) : o \in Objects}
Programs == {"m_normal_shader", "m_colorpicking_shader"}

ASSUME RenderingAssumption ==
  /\ Bits \in Nat \ {0} /\ Background \in 0 .. White
  /\ Ids \subseteq Nat /\ UnitSize \in RendererSizes /\ Pixels # {}
  /\ Textures \cap ({"m_vao", "m_vbo"} \cup Target) = {}

VARIABLES made,         \* the objects that were constructed
          own,          \* of them, those whose m_name was generated
          m_name,
          names,        \* the names of every kind that OpenGL knows
          stray,        \* history: a name that was never generated was deleted and was
                        \* that of something else
          kept,         \* the textures the application keeps, in its sprites
          linked,       \* the programs that have both their shaders
          renderer, renderer_size,
          program, vao, scissor, m_click,  \* the state of OpenGL
          bound,        \* the framebuffer that is drawn on and read, "screen" or "m_fbo"
          frame,        \* the colours of both
          pass,         \* "none", "normal", "pick"
          topmost,      \* history: the number of the last sprite at m_click, or white
          moved,        \* history: another framebuffer was bound during the last pick
          answer        \* what finishClick() of this renderer returned last

nameVars == <<made, own, m_name, names, stray, kept>>
glVars == <<program, vao, scissor, m_click>>
passVars == <<glVars, bound, frame, pass, topmost, moved, answer>>
renderingVars == <<nameVars, linked, renderer, renderer_size, passVars>>

NoAnswer == -1
Framebuffers == {"screen", "m_fbo"}
Images == [Pixels -> 0 .. White]
Plain == [p \in Pixels |-> Background]

RenderingTypeOK ==
  /\ own \subseteq made /\ made \subseteq Objects
  /\ m_name \in [Objects -> Names \cup {0}]
  /\ names \in [Kinds -> SUBSET Names] /\ stray \in BOOLEAN
  /\ kept \subseteq made \cap Textures
  /\ linked \subseteq Programs /\ renderer \in BOOLEAN /\ renderer_size \in RendererSizes
  /\ program \in Programs \cup {"0"} /\ vao \in BOOLEAN /\ scissor \in BOOLEAN
  /\ m_click \in Pixels /\ bound \in Framebuffers /\ frame \in [Framebuffers -> Images]
  /\ pass \in {"none", "normal", "pick"}
  /\ topmost \in 0 .. White /\ moved \in BOOLEAN /\ answer \in {NoAnswer} \cup Nat

RenderingInit ==
  /\ made = {} /\ own = {} /\ m_name = [o \in Objects |-> 0]
  /\ names = [k \in Kinds |-> {}] /\ stray = FALSE /\ kept = {}
  /\ linked = {} /\ renderer = FALSE /\ renderer_size = UnitSize
  /\ program = "0" /\ vao = FALSE /\ scissor = FALSE
  /\ m_click = CHOOSE p \in Pixels : TRUE
  /\ bound = "screen" /\ frame = [f \in Framebuffers |-> Plain]
  /\ pass = "none" /\ topmost = White /\ moved = FALSE /\ answer = NoAnswer

-----------------------------------------------------------------------------
(* The wrappers: init() generates a name, the destructor deletes m_name,      *)
(* whatever it is.                                                            *)

New(k) == CHOOSE n \in Names : n \notin names[k]

\* The objects of os are constructed and given names.
Generate(os) ==
  /\ \A o \in os : names[Kind(o)] # Names
  /\ made' = made \cup os /\ own' = own \cup os
  /\ m_name' = [o \in Objects |-> IF o \in os THEN New(Kind(o)) ELSE m_name[o]]
  /\ names' = [k \in Kinds |-> names[k] \cup {New(k) : o \in {o \in os : Kind(o) = k}}]

\* The destructors of the objects of os.
Delete(os) ==
  /\ made' = made \ os /\ own' = own \ os
  /\ m_name' = [o \in Objects |-> IF o \in os THEN 0 ELSE m_name[o]]
  /\ names' = [k \in Kinds |-> names[k] \ {m_name[o] : o \in {o \in os : Kind(o) = k}}]
  /\ stray' = (stray \/ \E o \in os \ own : m_name[o] \in names[Kind(o)])

\* RenderToTexture(): the assignment of a temporary texture gives m_tex the name
\* the temporary happened to have, which the temporary's destructor deletes.
NewTarget(tex, fbo, rbo) ==
  /\ Target \cap made = {}
  /\ made' = made \cup Target
  /\ m_name' = [m_name EXCEPT !["m_tex"] = tex, !["m_fbo"] = fbo, !["m_rbo"] = rbo]
  /\ names' = [names EXCEPT !["texture"] = @ \ {tex}]
  /\ stray' = (stray \/ tex \in names["texture"])
  /\ UNCHANGED <<own, kept, linked, renderer, renderer_size, passVars>>

\* glBindFramebuffer, with f or with 0.
BindFramebuffer(f) ==
  /\ bound' = f
  /\ moved' = (moved \/ (pass = "pick" /\ bound # f))

\* RenderToTexture::init, once: a second call would lose the names of the first.
\* Its last calls bind m_fbo, and nobody binds the screen again.  The texture gets
\* storage without data.
InitTarget ==
  /\ Target \subseteq made \ own
  /\ Generate(Target)
  /\ BindFramebuffer("m_fbo")
  /\ \E image \in Images : frame' = [frame EXCEPT !["m_fbo"] = image]
  /\ UNCHANGED <<stray, kept, linked, renderer, renderer_size, glVars, pass, topmost, answer>>

\* RenderToTexture::bind and unbind.
BindTarget ==
  /\ Target \subseteq own
  /\ BindFramebuffer("m_fbo")
  /\ UNCHANGED <<nameVars, linked, renderer, renderer_size, glVars, frame, pass, topmost, answer>>

UnbindTarget ==
  /\ Target \subseteq made
  /\ BindFramebuffer("screen")
  /\ UNCHANGED <<nameVars, linked, renderer, renderer_size, glVars, frame, pass, topmost, answer>>

\* ~RenderToTexture: to delete the framebuffer that is bound binds the screen.
DeleteTarget ==
  /\ Target \subseteq made
  /\ Delete(Target)
  /\ BindFramebuffer("screen")
  /\ frame' = [frame EXCEPT !["m_fbo"] = Plain]
  /\ UNCHANGED <<kept, linked, renderer, renderer_size, glVars, pass, topmost, answer>>

-----------------------------------------------------------------------------
(* SpriteRenderer and its textures *)

\* A program is complete when its two files are there and compile; the renderer
\* looks neither at the results of loadFile nor at the locations.  A program of
\* one shader may still link.  Those of a former renderer are never deleted.
NewRenderer(complete) ==
  /\ ~renderer
  /\ renderer' = TRUE /\ renderer_size' = UnitSize
  /\ linked' = complete
  /\ Generate({"m_vao", "m_vbo"})
  /\ UNCHANGED <<stray, kept, passVars>>

\* Mutant: the renderer alone owns its textures.
CloseRendererAndAll ==
  /\ renderer /\ pass = "none"
  /\ renderer' = FALSE
  /\ Delete({"m_vao", "m_vbo"} \cup (made \cap Textures))
  /\ answer' = NoAnswer
  /\ UNCHANGED <<kept, linked, renderer_size, glVars, bound, frame, pass, topmost, moved>>

\* ~SpriteRenderer, with m_textures: the last owner deletes a texture.
CloseRenderer ==
  /\ renderer /\ pass = "none"
  /\ renderer' = FALSE
  /\ Delete({"m_vao", "m_vbo"} \cup ((made \cap Textures) \ kept))
  /\ answer' = NoAnswer
  /\ UNCHANGED <<kept, linked, renderer_size, glVars, bound, frame, pass, topmost, moved>>

\* Mutant: the texture is returned by value, and the local one is destroyed.
LoadTextureByValue(t) ==
  /\ renderer /\ t \in Textures \ made
  /\ made' = made \cup {t} /\ own' = own \cup {t} /\ kept' = kept \cup {t}
  /\ m_name' = [m_name EXCEPT ![t] = New("texture")]
  /\ names["texture"] # Names
  /\ UNCHANGED <<names, stray, linked, renderer, renderer_size, passVars>>

\* loadTexture and loadFont.
LoadTexture(t) ==
  /\ renderer /\ t \in Textures \ made
  /\ Generate({t})
  /\ kept' = kept \cup {t}
  /\ UNCHANGED <<stray, linked, renderer, renderer_size, passVars>>

\* The application's last reference goes; m_textures may still hold one.
DropTexture(t) ==
  /\ t \in kept
  /\ kept' = kept \ {t}
  /\ IF renderer THEN UNCHANGED <<made, own, m_name, names, stray>> ELSE Delete({t})
  /\ UNCHANGED <<linked, renderer, renderer_size, passVars>>

Resize(new) ==
  /\ renderer
  /\ renderer_size' = new
  /\ UNCHANGED <<nameVars, linked, renderer, passVars>>

-----------------------------------------------------------------------------
(* The passes.  The application calls initialize, render and finish, or       *)
(* initializeClick, renderClick and finishClick, in that order, as the header *)
(* asks it to.  glUseProgram of a program that did not link changes nothing,  *)
(* and whatever is drawn without a complete program can have any colour.      *)

Bind(p) == program' \in IF p \in linked THEN {p} ELSE {p, program}
Ink(p, colour) == IF program = p /\ p \in linked THEN {colour} ELSE 0 .. White

\* Where drawing and clearing have an effect: in the framebuffer that is bound,
\* which the passes leave as it is.
Clip(click, on) == IF on THEN {click} ELSE Pixels
Painted(area, colour) ==
  [frame EXCEPT ![bound] = [p \in Pixels |-> IF p \in area THEN colour ELSE @[p]]]

Initialize ==
  /\ renderer /\ pass = "none"
  /\ Bind("m_normal_shader")
  /\ vao' = TRUE /\ pass' = "normal"
  /\ UNCHANGED <<nameVars, linked, renderer, renderer_size, scissor, m_click, bound, frame,
                 topmost, moved, answer>>

\* A sprite drawn in the colours of its texture; `area` is what is not discarded.
Render(area) ==
  /\ pass = "normal"
  /\ frame' = Painted(area \cap Clip(m_click, scissor), Background)
  /\ UNCHANGED <<nameVars, linked, renderer, renderer_size, glVars, bound, pass, topmost,
                 moved, answer>>

Finish ==
  /\ pass = "normal"
  /\ program' = "0" /\ vao' = FALSE /\ pass' = "none"
  /\ UNCHANGED <<nameVars, linked, renderer, renderer_size, scissor, m_click, bound, frame,
                 topmost, moved, answer>>

\* Mutant: the pixel is not made white.
InitializeClickUncleared(p) ==
  /\ renderer /\ pass = "none"
  /\ Bind("m_colorpicking_shader")
  /\ vao' = TRUE /\ pass' = "pick"
  /\ m_click' = p /\ scissor' = TRUE
  /\ topmost' = White /\ moved' = FALSE
  /\ UNCHANGED <<nameVars, linked, renderer, renderer_size, bound, frame, answer>>

InitializeClick(p) ==
  /\ renderer /\ pass = "none"
  /\ Bind("m_colorpicking_shader")
  /\ vao' = TRUE /\ pass' = "pick"
  /\ m_click' = p /\ scissor' = TRUE
  /\ frame' = Painted(Clip(p, TRUE), White)
  /\ topmost' = White /\ moved' = FALSE
  /\ UNCHANGED <<nameVars, linked, renderer, renderer_size, bound, answer>>

\* A sprite over `area`, with the number i: the colour has its lower bits.
RenderClick(area, i) ==
  /\ pass = "pick"
  /\ \E colour \in Ink("m_colorpicking_shader", i % 2 ^ Bits) :
       frame' = Painted(area \cap Clip(m_click, scissor), colour)
  /\ topmost' = IF m_click \in area THEN i % 2 ^ Bits ELSE topmost
  /\ UNCHANGED <<nameVars, linked, renderer, renderer_size, glVars, bound, pass, moved, answer>>

\* Three bytes of `data` are written; the fourth is what it was.
FinishClick(garbage) ==
  /\ pass = "pick"
  /\ scissor' = FALSE /\ vao' = FALSE /\ program' = "0"
  /\ answer' = frame[bound][m_click] + garbage * 2 ^ Bits
  /\ frame' = Painted(Clip(m_click, FALSE), Background)
  /\ pass' = "none"
  /\ UNCHANGED <<nameVars, linked, renderer, renderer_size, m_click, bound, topmost, moved>>

Passes ==
  \/ Initialize \/ Finish
  \/ \E area \in SUBSET Pixels : Render(area)
  \/ \E p \in Pixels : InitializeClick(p)
  \/ \E area \in SUBSET Pixels, i \in Ids : RenderClick(area, i)
  \/ \E garbage \in {0, 1} : FinishClick(garbage)

-----------------------------------------------------------------------------
(* Properties *)

\* When everything that owns names is destroyed, no name is left; and while an
\* object lives, the name it generated is known to OpenGL and is nobody else's,
\* unless a deleted garbage name happened to be one.
NamesAreOwn ==
  /\ made = {} => \A k \in Kinds : names[k] = {}
  /\ ~stray =>
       /\ \A o \in own : m_name[o] \in names[Kind(o)]
       /\ \A o, q \in own : o # q /\ Kind(o) = Kind(q) => m_name[o] # m_name[q]

\* There is an answer of this renderer, from a pass with a complete program and
\* in one framebuffer.
Answered == /\ pass = "none" /\ answer # NoAnswer
            /\ "m_colorpicking_shader" \in linked /\ ~moved

\* The number of the topmost sprite at the clicked pixel, or white: whatever was
\* drawn before, elsewhere, with other numbers or in another framebuffer.  That is
\* so in the bits a colour has.  spriterenderer.hpp:172 promises it of the whole
\* answer, "the clicked sprite or $FFFFFF if nothing clicked", which the code does
\* not give: the byte above was never written, and is garbage here as well.
PickIsTopmost == Answered => answer % 2 ^ Bits = topmost
=============================================================================
