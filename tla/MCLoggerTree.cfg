\* Two threads call twice each; every call may create two loggers.
CONSTANTS
  Threads = {t1, t2}
  a = a
  RootName = root
  Names = {a, root}
  Paths <- MCPaths
  Levels = {0, 1}
  LogAll = 0
  Undefined = Undefined
  Null = Null
  MaxLoggers = 8
  MaxCalls = 2
  MaxChanges = 1
SPECIFICATION FairSpec
INVARIANTS
  TypeOK
  TreeOK
  AnswerIsRegistered
PROPERTIES
  RegisteredStay
  CallsReturn
\* Every thread may have called as often as it may.
CHECK_DEADLOCK FALSE
