\* Two threads log twice each, through the root logger or its child, to two
\* sinks that are attached on the way; two changes take a level there and back.
CONSTANTS
  Threads = {t1, t2}
  Nobody = Nobody
  Loggers = {root, child}
  Root = root
  Sinks = {s1, s2}
  Levels = {0, 1}
  LogAll = 0
  Detached = Detached
  MaxCalls = 2
  MaxChanges = 2
SPECIFICATION Spec
SYMMETRY ActorSymmetry
INVARIANTS
  LoggingTypeOK
  SinksAgree
PROPERTY
  Explained
\* Every thread may have logged what it may log.
CHECK_DEADLOCK FALSE
