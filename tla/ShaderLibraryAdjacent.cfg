\* Two files are enough: one that has two includes on one line.
CONSTANTS
  Paths = {p1, p2}
  Missing = Missing
  Absent = Absent
  Loading = Loading
  FileSystems <- MCFileSystems
  Replacements <- MCReplacements
  Depths = {1}
  DefaultDepth = 1
  p1 = p1
SPECIFICATION Spec
INVARIANT IncludesResolved
CHECK_DEADLOCK FALSE
