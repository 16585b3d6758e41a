------------------------------ MODULE MCScreen ------------------------------
(* Screen for TLC: of the window, the names and the passes, one at a time     *)
(* leaves the state it usually has.                                           *)
EXTENDS Screen, TLC

MCSizes == {<<1, 1>>, <<2, 1>>, <<2, 2>>}
MCDefaultSize == <<2, 1>>
MCUnitSize == <<1, 1>>
MCNames == 1..2

WindowPlain == /\ size = DefaultSize /\ m_size = DefaultSize /\ events = <<>>
               /\ Cardinality(created) <= 1 /\ renderer_size = UnitSize
NamesPlain == /\ made \cap Textures = {} /\ ~stray
              /\ Target \cap made = {} \/ Target \subseteq own
PassesPlain == /\ pass = "none" /\ answer = NoAnswer /\ linked \in {{}, Programs}
               /\ frame = [f \in Framebuffers |-> Plain] /\ topmost = White

\* What two framebuffers add is seen with one of them plain and complete programs.
OneDrawn == Target \subseteq own =>
              (\E f \in Framebuffers : frame[f] = Plain) /\ linked = Programs

\* After a crash nothing happens.
OneAtATime == OneDrawn /\
              \/ WindowPlain /\ ~crashed /\ (NamesPlain \/ PassesPlain)
              \/ NamesPlain /\ PassesPlain

ScreenSymmetry == Permutations(Windows) \cup Permutations(Textures)
=============================================================================
