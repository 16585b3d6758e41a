---------------------------- MODULE MCLoggerTree ----------------------------
(* LoggerTree for TLC: the root logger, a logger, one below it, and one that *)
(* has the root logger's name.                                               *)
EXTENDS LoggerTree

CONSTANT a

MCPaths == {<<>>, <<a>>, <<a, RootName>>, <<RootName>>}
=============================================================================
