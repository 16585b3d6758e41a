\* Three files in every combination, and a depth limit that a chain of three
\* exceeds.
CONSTANTS
  Paths = {p1, p2, p3}
  Missing = Missing
  Absent = Absent
  Loading = Loading
  FileSystems <- MCFileSystems
  Replacements <- MCReplacements
  Depths = {1, 2}
  DefaultDepth = 1
  p1 = p1
SPECIFICATION FairSpec
CONSTRAINT FewSettings
INVARIANTS
  TypeOK
  LoadingIsOnStack
  ValidHasVersion
  ErrorsAreTrue
  ErrorFreeIsExpansion
PROPERTIES
  LoadReturns
  ProgramsStay
\* Every file may have been loaded.
CHECK_DEADLOCK FALSE
