----------------------------- MODULE ShaderText -----------------------------
(* From the text of a shader to a Program and back: the scanner of lexer.lpp  *)
(* with its start conditions, the parser bison makes of parser.ypp with its   *)
(* error recovery, and the evaluation of the program with its defines.  A     *)
(* text is a sequence of items, what one rule of the scanner matches; what    *)
(* the items of a rule have in common with all others is their content, a     *)
(* sequence of characters or of one name.                                     *)
EXTENDS Integers, Sequences, FiniteSets, SequencesExt

CONSTANTS Characters,
          Literals,     \* what stands between quotes in the text
          Identifiers,
          MaxItems,     \* bound on the length of a text
          Macros,       \* names that are given to define
          NoToken, NoMeaning

ShaderTypes == {"fragment", "vertex", "tesselation", "geometry"}

VARIABLES mode,         \* the start condition of the scanner
          count,        \* items read
          last,         \* the kind of the last one
          eof,
          look,         \* the lookahead, NoToken when the parser has none
          at,           \* the parser's stack: which symbols are on it,
          held,         \* and the values of those of an incomplete rule
          errstatus,    \* tokens to shift before errors are reported again
          status,       \* "parsing", "parsed", "null"
          m_sections, m_errors, m_type,
          m_defines,    \* the names of an EvaluationContext, in order
          into, thrown, \* what evaluate() wrote, and whether it threw
          meaning       \* history: what the text means, NoMeaning if nothing

scannerVars == <<mode, count, last, eof, meaning>>
parserVars == <<at, held, errstatus, status>>
programVars == <<m_sections, m_errors, m_type>>
evaluationVars == <<m_defines, into, thrown>>
vars == <<scannerVars, look, parserVars, programVars, evaluationVars>>

-----------------------------------------------------------------------------
(* escape and unescape *)

Backslash == "\\"
Quote == "\""
Linefeed == "\n"
Return == "\r"

EscapeOne(c) ==
  CASE c \in {Backslash, Quote} -> <<Backslash, c>>
    [] c = Linefeed -> <<Backslash, "n">>
    [] c = Return   -> <<Backslash, "r">>
    [] OTHER        -> <<c>>

Escape(s) == FlattenSeq([i \in DOMAIN s |-> EscapeOne(s[i])])

\* The character an escape stands for; \r is a line feed, too.
Unescaped == [c \in {Quote, "n", "r"} |-> IF c = Quote THEN Quote ELSE Linefeed]

\* One character of unescape: `escaped` follows a backslash that was erased.
UnescapeOne(acc, c) ==
  CASE acc.escaped /\ c \in DOMAIN Unescaped ->
         [acc EXCEPT !.s = Append(@, Unescaped[c]), !.escaped = FALSE]
    [] acc.escaped /\ c \notin DOMAIN Unescaped -> [acc EXCEPT !.ok = FALSE]
    [] ~acc.escaped /\ c = Backslash -> [acc EXCEPT !.escaped = TRUE]
    [] OTHER -> [acc EXCEPT !.s = Append(@, c)]

\* A backslash at the end is put back.
Unescape(s) ==
  LET all == FoldLeft(UnescapeOne, [s |-> <<>>, escaped |-> FALSE, ok |-> TRUE], s)
  IN [all EXCEPT !.s = IF all.ok /\ all.escaped THEN Append(@, Backslash) ELSE @]

-----------------------------------------------------------------------------
(* The scanner *)

Plain(kind) == <<kind, <<>>>>
Words == {<<"identifier", <<w>>>> : w \in Identifiers}

\* Lines and pieces of source are told apart by nothing but their kind.
SourceKinds == {"line", "text", "{"}

\* What can stand next in the text, as the rules of each start condition tell it
\* apart.  "stray" is whatever no rule of DIRECTIVE matches, a line feed as well;
\* what is no #version and no line feed switches INITIAL to CODE and is put back.
CodeItems == {Plain(k) : k \in SourceKinds \cup {"{%"}}
Items ==
  [INITIAL |-> {Plain("newline"), Plain("#version")} \cup CodeItems,
   VERSION_DIRECTIVE |-> {Plain("newline"), Plain("number"), Plain("mark")} \cup Words,
   CODE |-> CodeItems,
   DIRECTIVE |-> {Plain("include"), Plain("%}"), Plain("stray")} \cup Words
                   \cup {<<"literal", s>> : s \in Literals}]
Modes == DOMAIN Items

\* A text ends where a line, a brace or the file does.
Follows(item) == last = "text" => item[1] \notin {"line", "text"}

ModeAfter(item) ==
  CASE item[1] = "#version" -> "VERSION_DIRECTIVE"
    [] item[1] = "{%" -> "DIRECTIVE"
    [] item[1] = "newline" /\ mode = "VERSION_DIRECTIVE" -> "CODE"
    [] item[1] \in SourceKinds \cup {"%}"} -> "CODE"
    [] OTHER -> mode

\* The token of an item; scanned items without one are echoed to the output.
TokenOf(item) ==
  CASE item[1] = "#version"   -> <<"VERSION", <<>>>>
    [] item[1] = "number"     -> <<"INTLIT", <<>>>>
    [] item[1] = "identifier" -> <<"IDENT", item[2]>>
    [] item[1] = "mark"       -> <<"undefined", <<>>>>
    [] item[1] = "{%"         -> <<"DIROPEN", <<>>>>
    [] item[1] = "include"    -> <<"DIRECTIVE_INCLUDE", <<>>>>
    [] item[1] = "%}"         -> <<"DIRCLOSE", <<>>>>
    [] item[1] = "literal" /\ Unescape(item[2]).ok -> <<"STRLIT", Unescape(item[2]).s>>
    [] item[1] = "literal" /\ ~Unescape(item[2]).ok -> <<"ERROR", <<>>>>
    [] item[1] = "newline" /\ mode = "VERSION_DIRECTIVE" -> <<"EOL", <<>>>>
    [] item[1] \in SourceKinds -> <<"SOURCECODE", <<item[1]>>>>
    [] OTHER -> NoToken

-----------------------------------------------------------------------------
(* What a text means, the reference for the parser: line feeds, the version   *)
(* line, and then source and include directives.                              *)

Version(type) == <<"version", <<type>>>>
Extended(m, section) == [m EXCEPT !.at = "body", !.sections = Append(@, section)]

Extend(m, item) ==
  LET kind == item[1]
      To(there) == [m EXCEPT !.at = there]
  IN CASE m.at = "blank" /\ kind = "newline" -> m
       [] m.at = "blank" /\ kind = "#version" -> To("version")
       [] m.at = "version" /\ kind = "number" -> To("number")
       [] m.at = "number" /\ kind = "identifier" -> To("profile")
       [] m.at = "profile" /\ kind = "identifier" /\ item[2][1] \in ShaderTypes ->
            [m EXCEPT !.at = "typed", !.type = item[2][1]]
       [] m.at \in {"profile", "typed"} /\ kind = "newline" -> Extended(m, Version(m.type))
       [] m.at = "body" /\ kind \in SourceKinds -> Extended(m, <<"source", <<kind>>>>)
       [] m.at = "body" /\ kind = "{%" -> To("directive")
       [] m.at = "directive" /\ kind = "include" -> To("named")
       [] m.at = "named" /\ kind = "literal" /\ Unescape(item[2]).ok ->
            [m EXCEPT !.at = "closing", !.path = Unescape(item[2]).s]
       [] m.at = "closing" /\ kind = "%}" -> Extended([m EXCEPT !.path = <<>>], <<"include", m.path>>)
       [] m.at \in {"directive", "named", "closing"} /\ kind = "stray" -> m
       [] OTHER -> NoMeaning

\* The end of the file also ends the version line.
Ended(m) ==
  IF m = NoMeaning THEN NoMeaning
  ELSE CASE m.at \in {"profile", "typed"} -> Extended(m, Version(m.type))
         [] m.at = "body" -> m
         [] OTHER -> NoMeaning

-----------------------------------------------------------------------------
(* What a token and a section can be, a kind and a content, and what the items *)
(* up to some place can mean.                                                 *)

Kinds ==
  {"VERSION", "INTLIT", "IDENT", "undefined", "EOL", "DIROPEN", "DIRECTIVE_INCLUDE",
   "STRLIT", "ERROR", "DIRCLOSE", "SOURCECODE", "END", "version", "source", "include"}
Names == Characters \cup Identifiers \cup SourceKinds \cup ShaderTypes \cup {"generic"}
Pieces == Kinds \X Seq(Names)

Meanings ==
  [at : {"blank", "version", "number", "profile", "typed",
         "body", "directive", "named", "closing"},
   sections : Seq(Pieces), type : ShaderTypes \cup {"generic"}, path : Seq(Names)]

\* A text is of characters, and nothing is not taken for something.
ASSUME TextAssumption ==
  /\ {Backslash, Quote, Linefeed, Return, "n", "r"} \subseteq Characters
  /\ Literals \subseteq Seq(Characters)
  /\ NoToken \notin Pieces /\ NoMeaning \notin Meanings
  /\ MaxItems \in Nat

-----------------------------------------------------------------------------
(* yylex() *)

Scan(item) ==
  /\ status = "parsing" /\ look = NoToken /\ ~eof
  /\ count < MaxItems /\ Follows(item)
  /\ count' = count + 1 /\ last' = item[1]
  /\ mode' = ModeAfter(item)
  /\ look' = TokenOf(item)
  /\ meaning' = IF meaning = NoMeaning THEN NoMeaning ELSE Extend(meaning, item)
  /\ UNCHANGED <<eof, parserVars, programVars, evaluationVars>>

\* In VERSION_DIRECTIVE the end of the file is an end of line first.
ScanEnd ==
  /\ status = "parsing" /\ look = NoToken
  /\ eof' = TRUE
  /\ IF mode = "VERSION_DIRECTIVE"
     THEN mode' = "INITIAL" /\ look' = <<"EOL", <<>>>>
     ELSE mode' = mode /\ look' = <<"END", <<>>>>
  /\ meaning' = IF eof THEN meaning ELSE Ended(meaning)
  /\ UNCHANGED <<count, last, parserVars, programVars, evaluationVars>>

-----------------------------------------------------------------------------
(* The parser.  Every rule is reduced as soon as its last symbol is shifted,  *)
(* so that between tokens the stack is empty, holds `program`, or the start   *)
(* of a rule after these.                                                     *)

Positions == {"start", "version", "number", "profile", "type", "program", "open", "include", "path"}

\* Tokens that only go on the stack.
Pushes ==
  {<<"start", "VERSION", "version">>, <<"version", "INTLIT", "number">>,
   <<"number", "IDENT", "profile">>, <<"profile", "IDENT", "type">>,
   <<"program", "DIROPEN", "open">>, <<"open", "DIRECTIVE_INCLUDE", "include">>,
   <<"include", "STRLIT", "path">>}

\* Those that complete a rule of version, include or program, or end it all.
Completes ==
  {<<"profile", "EOL">>, <<"type", "EOL">>, <<"program", "SOURCECODE">>,
   <<"path", "DIRCLOSE">>, <<"include", "ERROR">>, <<"program", "END">>}

Acceptable == <<at, look[1]>> \in {<<p[1], p[2]>> : p \in Pushes} \cup Completes

\* yyerrstatus after a shift.
Decremented(n) == IF n = 0 THEN 0 ELSE n - 1

\* A token of `kind` is shifted and leaves the parser there.
Shift(kind, there) ==
  /\ status = "parsing" /\ look # NoToken /\ look[1] = kind
  /\ look' = NoToken
  /\ at' = there
  /\ errstatus' = Decremented(errstatus)
  /\ UNCHANGED <<scannerVars, evaluationVars>>

\* Mutant: an unknown shader type is taken to be generic without a word.
PushTolerant ==
  \E p \in Pushes :
    /\ at = p[1] /\ Shift(p[2], p[3])
    /\ held' = held \o look[2]
    /\ UNCHANGED <<status, programVars>>

\* The action of shader_type is run on the way to "type".
Push ==
  \E p \in Pushes :
    /\ at = p[1] /\ Shift(p[2], p[3])
    /\ held' = held \o look[2]
    /\ m_errors' = IF p[3] = "type" /\ look[2][1] \notin ShaderTypes
                   THEN m_errors \cup {"unknown program type"} ELSE m_errors
    /\ UNCHANGED <<status, m_sections, m_type>>

\* Mutant: a name that is no shader type is not looked for in the mapping.
TypeUnchecked == IF Len(held) = 2 THEN held[2] ELSE "generic"

\* held is the profile and the name of the type, if there is one.
TypeHeld == IF Len(held) = 2 /\ held[2] \in ShaderTypes THEN held[2] ELSE "generic"

\* version and program: version
VersionRule ==
  /\ at \in {"profile", "type"} /\ Shift("EOL", "program")
  /\ held' = <<>>
  /\ m_sections' = Append(m_sections, Version(TypeHeld))
  /\ m_type' = TypeHeld
  /\ UNCHANGED <<status, m_errors>>

\* program: program SOURCECODE
SourceRule ==
  /\ at = "program" /\ Shift("SOURCECODE", "program")
  /\ m_sections' = Append(m_sections, <<"source", look[2]>>)
  /\ UNCHANGED <<held, status, m_errors, m_type>>

\* include and program: program include
IncludeRule ==
  /\ at = "path" /\ Shift("DIRCLOSE", "program")
  /\ held' = <<>>
  /\ m_sections' = Append(m_sections, <<"include", held>>)
  /\ UNCHANGED <<status, m_errors, m_type>>

\* strlit: ERROR, whose action throws: the error is recorded whatever errstatus
\* is, and the parser recovers as from an error of its own.
EscapeError ==
  /\ status = "parsing" /\ look # NoToken
  /\ at = "include" /\ look[1] = "ERROR"
  /\ look' = NoToken
  /\ m_errors' = m_errors \cup {"invalid escape"}
  /\ errstatus' = 3 /\ at' = "program" /\ held' = <<>>
  /\ UNCHANGED <<scannerVars, status, m_sections, m_type, evaluationVars>>

Accept ==
  /\ at = "program" /\ Shift("END", "program")
  /\ status' = "parsed"
  /\ UNCHANGED <<held, programVars>>

\* Mutant: the token that is in the way is never discarded.
SyntaxErrorKeepingToken ==
  /\ status = "parsing" /\ look # NoToken /\ ~Acceptable
  /\ m_errors' = IF errstatus = 0 THEN m_errors \cup {"syntax"} ELSE m_errors
  /\ errstatus' = 3
  /\ at' = "program" /\ held' = <<>>
  /\ UNCHANGED <<scannerVars, look, status, m_sections, m_type, evaluationVars>>

\* A token that does not fit.  The first of an error is reported and kept, the
\* ones in the way of its recovery are discarded; that of the end cannot be.
\* The stack is cut down to where `error` can be shifted, and the rules
\* program: error and program: program error leave a program.
SyntaxError ==
  /\ status = "parsing" /\ look # NoToken /\ ~Acceptable
  /\ m_errors' = IF errstatus = 0 THEN m_errors \cup {"syntax"} ELSE m_errors
  /\ errstatus' = 3
  /\ IF errstatus = 3
     THEN IF look[1] = "END" THEN status' = "null" /\ look' = look
                             ELSE status' = status /\ look' = NoToken
     ELSE UNCHANGED <<status, look>>
  /\ at' = "program" /\ held' = <<>>
  /\ UNCHANGED <<scannerVars, m_sections, m_type, evaluationVars>>

Parse ==
  \/ ScanEnd
  \/ Push \/ VersionRule \/ SourceRule \/ IncludeRule \/ EscapeError \/ Accept
  \/ SyntaxError
  \/ \E item \in Items[mode] : Scan(item)

-----------------------------------------------------------------------------
(* EvaluationContext and Program::evaluate *)

\* define() throws, and changes nothing, when it has the name already.
Define(name) ==
  /\ status = "parsed" /\ into = <<>>
  /\ name \notin ToSet(m_defines)
  /\ m_defines' = Append(m_defines, name)
  /\ UNCHANGED <<scannerVars, look, parserVars, programVars, into, thrown>>

\* The defines stand below the version line.
Output(section) ==
  IF section[1] = "version"
  THEN <<section>> \o [i \in DOMAIN m_defines |-> <<"define", <<m_defines[i]>>>>]
  ELSE <<section>>

\* The sections in order; an include throws, and what was written stays written.
Evaluate ==
  LET includes == {i \in DOMAIN m_sections : m_sections[i][1] = "include"}
      written == IF includes = {} THEN m_sections
                 ELSE SubSeq(m_sections, 1, (CHOOSE i \in includes : \A j \in includes : i <= j) - 1)
  IN /\ status = "parsed" /\ into = <<>> /\ ~thrown
     /\ into' = FlattenSeq([i \in DOMAIN written |-> Output(written[i])])
     /\ thrown' = (includes # {})
     /\ UNCHANGED <<scannerVars, look, parserVars, programVars, m_defines>>

-----------------------------------------------------------------------------

TextTypeOK ==
  /\ mode \in Modes /\ count \in 0 .. MaxItems /\ eof \in BOOLEAN
  /\ at \in Positions /\ errstatus \in 0 .. 3
  /\ status \in {"parsing", "parsed", "null"}
  /\ m_errors \subseteq {"syntax", "unknown program type", "invalid escape"}
  /\ m_type \in ShaderTypes \cup {"generic"}
  /\ ToSet(m_defines) \subseteq Macros /\ thrown \in BOOLEAN

TextInit ==
  /\ mode = "INITIAL" /\ count = 0 /\ last = "none" /\ eof = FALSE
  /\ meaning = [at |-> "blank", sections |-> <<>>, type |-> "generic", path |-> <<>>]
  /\ look = NoToken
  /\ at = "start" /\ held = <<>> /\ errstatus = 0 /\ status = "parsing"
  /\ m_sections = <<>> /\ m_errors = {} /\ m_type = "generic"
  /\ m_defines = <<>> /\ into = <<>> /\ thrown = FALSE

TextNext == Parse \/ Evaluate \/ \E name \in Macros : Define(name)

\* parse() is called and runs by itself; who evaluates when is not said.
TextSpec == TextInit /\ [][TextNext]_vars /\ WF_vars(Parse)

-----------------------------------------------------------------------------
(* Properties *)

\* A program without errors is what its text means, and evaluates to it with the
\* defines, each once, below the version line; a program of a text that means
\* nothing has an error, whatever the recovery left out or reported late.
ErrorFreeIsText ==
  status = "parsed" =>
    /\ m_errors = {} <=> meaning # NoMeaning
    /\ m_errors = {} =>
         /\ m_sections = meaning.sections /\ m_type = meaning.type
         /\ into # <<>> /\ ~thrown =>
              /\ into[1] = Head(m_sections)
              /\ SubSeq(into, Len(m_defines) + 2, Len(into)) = Tail(m_sections)
              /\ IsInjective(SubSeq(into, 2, Len(m_defines) + 1))

\* Every text becomes a program, with or without errors: the recovery neither
\* gives up, which would leave the file "being loaded" in the library for ever,
\* nor stays at one token.
AlwaysProgram == <>(status = "parsed")
=============================================================================
