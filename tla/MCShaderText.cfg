\* Every text of up to MaxItems items: enough for a version line of five, an
\* include directive of four and one more.
CONSTANTS
  Characters <- MCCharacters
  Literals <- MCLiterals
  Identifiers = {"core", "vertex"}
  MaxItems = 10
  MaxEvaluated = 7
  Macros = {"A", "B"}
  NoToken = NoToken
  NoMeaning = NoMeaning
SPECIFICATION TextSpec
CONSTRAINT ShortDefines
INVARIANTS
  TextTypeOK
  ErrorFreeIsText
PROPERTY
  AlwaysProgram
CHECK_DEADLOCK FALSE
