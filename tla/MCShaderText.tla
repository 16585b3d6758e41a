---------------------------- MODULE MCShaderText ----------------------------
(* ShaderText for TLC.                                                        *)
EXTENDS ShaderText

CONSTANT MaxEvaluated   \* items of the texts that are evaluated with defines

MCCharacters == {"a", "n", "r", Backslash, Quote, Linefeed, Return}

\* A path, one with the escape of a carriage return, a lone backslash at the end, an unknown escape.
MCLiterals == {<<"a">>, <<Backslash, "r">>, <<"a", Backslash>>, <<Backslash, "a">>}

ShortDefines == count <= MaxEvaluated \/ m_defines = <<>>

\* Without a backslash and without a carriage return, unescape undoes escape.
ASSUME EscapeRoundTrip ==
  \A s \in BoundedSeq({"a", "n", Quote, Linefeed}, 5) :
    Unescape(Escape(s)) = [s |-> s, escaped |-> FALSE, ok |-> TRUE]
=============================================================================
