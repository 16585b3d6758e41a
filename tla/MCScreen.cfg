\* Two windows, one after the other, three sizes; two textures and a render
\* target with two names of each kind; two pixels and colours of two bits.
CONSTANTS
  Windows = {w1, w2}
  Null = Null
  Garbage = Garbage
  Sizes <- MCSizes
  DefaultSize <- MCDefaultSize
  MaxEvents = 2
  Textures = {t1, t2}
  Names <- MCNames
  Pixels = {p, q}
  Bits = 2
  Background = 1
  Ids = {0, 1, 3, 6}
  RendererSizes <- MCSizes
  UnitSize <- MCUnitSize
SPECIFICATION ScreenSpec
SYMMETRY ScreenSymmetry
CONSTRAINT OneAtATime
INVARIANTS
  ScreenTypeOK
  ContextFreed
  NamesAreOwn
  PickIsTopmost
CHECK_DEADLOCK FALSE
