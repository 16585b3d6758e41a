-------------------------- MODULE ShaderTextProofs --------------------------
(* What the parser gives for every text, whatever its length, its names and   *)
(* its literals: a program, of which the library may believe that the version *)
(* comes first when there is no error, which is then what the text means, and *)
(* which evaluates to it with the defines.                                    *)
EXTENDS ShaderText, SequenceFacts

\* parse() never returns null, which _load would leave in its cache for ever.
NeverNull == status # "null"

\* What resolve_includes says: "a valid program always has a version declaration
\* and invalid programs have at least one error" (context.cpp:87-88).
VersionFirst ==
  status = "parsed" /\ m_errors = {} => m_sections # <<>> /\ m_sections[1][1] = "version"

\* Where the stack has `program`.
Begun == {"program", "open", "include", "path"}

\* While errors are not reported there is one; nothing of a rule is on the stack
\* right after an error; and without an error a version line comes before all.
Inv ==
  /\ at \in Positions /\ errstatus \in 0 .. 3
  /\ status \in {"parsing", "parsed"}
  /\ errstatus = 3 => at = "program"
  /\ errstatus > 0 => m_errors # {}
  /\ status = "parsed" => at = "program"
  /\ \E S : m_sections \in Seq(S)
  /\ at \notin Begun => m_sections = <<>>
  /\ m_errors = {} /\ at \in Begun => m_sections # <<>> /\ m_sections[1][1] = "version"

\* A section that is added comes after the first.
LEMMA FirstStays ==
  ASSUME NEW s, \E S : s \in Seq(S), NEW e
  PROVE  /\ \E S : Append(s, e) \in Seq(S)
         /\ Append(s, e) # <<>>
         /\ s # <<>> => Append(s, e)[1] = s[1]
         /\ s = <<>> => Append(s, e)[1] = e
<1>1. PICK S : s \in Seq(S)
  OBVIOUS
<1>2. s \in Seq(S \cup {e}) /\ e \in S \cup {e}
  BY <1>1
<1>3. Append(s, e) \in Seq(S \cup {e})
  BY <1>2
<1>4. /\ Len(Append(s, e)) = Len(s) + 1 /\ Len(s) \in Nat
      /\ \A i \in 1 .. Len(s) : Append(s, e)[i] = s[i]
      /\ Append(s, e)[Len(s) + 1] = e
  BY <1>2
<1>5. Append(s, e) # <<>>
  BY <1>3, <1>4
<1>6. ASSUME s # <<>> PROVE Append(s, e)[1] = s[1]
  <2>1. Len(s) # 0
    BY <1>2, <1>6
  <2> QED
    BY <1>4, <2>1
<1>7. ASSUME s = <<>> PROVE Append(s, e)[1] = e
  <2>1. Len(s) = 0
    BY <1>7
  <2> QED
    BY <1>4, <2>1
<1> QED
  BY <1>3, <1>5, <1>6, <1>7

LEMMA InitInv == TextInit => Inv
<1> SUFFICES ASSUME TextInit PROVE Inv
  OBVIOUS
<1>1. <<>> \in Seq({})
  OBVIOUS
<1> QED
  BY <1>1 DEF TextInit, Inv, Positions, Begun

\* The count of yyerrstatus stays in its range.
LEMMA Decrements ==
  \A n \in 0 .. 3 : Decremented(n) \in 0 .. 2 /\ (Decremented(n) > 0 => n > 0)
  BY DEF Decremented

\* A token that is only pushed leaves the parser inside a rule of the same half.
LEMMA PushesStayInRules ==
  ASSUME NEW p \in Pushes
  PROVE  /\ p[1] \in Positions /\ p[3] \in Positions /\ p[3] # "program"
         /\ p[3] \in Begun <=> p[1] \in Begun
<1>1. CASE p \in {<<"start", "VERSION", "version">>, <<"version", "INTLIT", "number">>,
                  <<"number", "IDENT", "profile">>, <<"profile", "IDENT", "type">>}
  BY <1>1 DEF Positions, Begun
<1>2. CASE p \in {<<"program", "DIROPEN", "open">>, <<"open", "DIRECTIVE_INCLUDE", "include">>,
                  <<"include", "STRLIT", "path">>}
  BY <1>2 DEF Positions, Begun
<1> QED
  BY <1>1, <1>2 DEF Pushes

\* A token that only goes on the stack.
LEMMA PushKeeps == Inv /\ Push => Inv'
<1> SUFFICES ASSUME Inv, Push PROVE Inv'
  OBVIOUS
<1>1. PICK p \in Pushes : /\ at = p[1] /\ Shift(p[2], p[3])
                          /\ m_errors' \in {m_errors, m_errors \cup {"unknown program type"}}
                          /\ UNCHANGED <<status, m_sections>>
  BY DEF Push
<1>2. /\ p[1] \in Positions /\ p[3] \in Positions /\ p[3] # "program"
      /\ p[3] \in Begun <=> p[1] \in Begun
  <2>1. p \in Pushes
    OBVIOUS
  <2> QED
    BY ONLY <2>1, PushesStayInRules
<1>3. at' = p[3] /\ errstatus' = Decremented(errstatus) /\ status = "parsing"
  BY <1>1 DEF Shift
<1>6. errstatus \in 0 .. 3
  BY DEF Inv
<1>7. errstatus' \in 0 .. 2 /\ (errstatus' > 0 => errstatus > 0)
  BY <1>3, <1>6, Decrements
<1>4. m_errors' = {} => m_errors = {}
  BY <1>1
<1>5. m_errors # {} => m_errors' # {}
  BY <1>4
<1>8. UNCHANGED <<status, m_sections>>
  BY <1>1
<1>9. /\ errstatus > 0 => m_errors # {}
      /\ \E S : m_sections \in Seq(S)
      /\ at \notin Begun => m_sections = <<>>
      /\ m_errors = {} /\ at \in Begun => m_sections # <<>> /\ m_sections[1][1] = "version"
      /\ at = p[1]
  BY <1>1 DEF Inv
<1>10. /\ at' \notin Begun => m_sections' = <<>>
       /\ m_errors' = {} /\ at' \in Begun => m_sections' # <<>> /\ m_sections'[1][1] = "version"
  BY <1>2, <1>3, <1>4, <1>8, <1>9
<1>11. /\ at' \in Positions /\ errstatus' \in 0 .. 3 /\ errstatus' # 3
       /\ errstatus' > 0 => m_errors' # {}
       /\ status' = "parsing"
       /\ \E S : m_sections' \in Seq(S)
  BY <1>2, <1>3, <1>5, <1>7, <1>8, <1>9
<1> QED
  BY <1>10, <1>11 DEF Inv

\* A rule that leaves a program behind, whose new section is e.
LEMMA RuleKeeps ==
  ASSUME Inv, NEW e, NEW kind, Shift(kind, "program"),
         m_sections' = Append(m_sections, e), UNCHANGED <<status, m_errors>>,
         at \in Begun \/ e[1] = "version"
  PROVE  Inv'
<1>1. errstatus' \in 0 .. 3 /\ (errstatus' > 0 => errstatus > 0) /\ status = "parsing" /\ at' = "program"
  BY DEF Inv, Shift, Decremented
<1>2. /\ \E S : m_sections' \in Seq(S)
      /\ m_sections' # <<>>
      /\ m_sections # <<>> => m_sections'[1] = m_sections[1]
      /\ m_sections = <<>> => m_sections'[1] = e
  BY FirstStays DEF Inv
<1>3. m_errors' = {} => m_sections'[1][1] = "version"
  BY <1>2 DEF Inv
<1> QED
  BY <1>1, <1>2, <1>3 DEF Inv, Positions, Begun

\* A token that does not fit: of the second in a row the parser is at program,
\* where the end of the file does fit.
LEMMA ErrorKeeps == Inv /\ (SyntaxError \/ EscapeError) => Inv'
<1> SUFFICES ASSUME Inv, SyntaxError \/ EscapeError PROVE Inv'
  OBVIOUS
<1>1. /\ at' = "program" /\ errstatus' = 3 /\ UNCHANGED m_sections
      /\ status = "parsing" /\ look # NoToken
  BY DEF SyntaxError, EscapeError
<1>2. m_errors' # {}
  <2>1. errstatus \in 0 .. 3 /\ (errstatus > 0 => m_errors # {})
    BY DEF Inv
  <2>2. CASE EscapeError
    BY <2>2 DEF EscapeError
  <2>3. CASE SyntaxError
    BY <2>1, <2>3 DEF SyntaxError
  <2> QED
    BY <2>2, <2>3
<1>3. status' = "parsing"
  <2>1. CASE EscapeError
    BY <2>1 DEF EscapeError
  <2>2. CASE SyntaxError /\ ~(errstatus = 3 /\ look[1] = "END")
    BY <2>2 DEF SyntaxError
  <2>3. CASE SyntaxError /\ errstatus = 3 /\ look[1] = "END"
    <3>1. at = "program"
      BY <2>3 DEF Inv
    <3>2. Acceptable
      BY <2>3, <3>1 DEF Acceptable, Completes
    <3> QED
      BY <2>3, <3>2 DEF SyntaxError
  <2> QED
    BY <2>1, <2>2, <2>3
<1>4. m_errors = {} => at' # "start" /\ m_errors' # {}
  BY <1>1, <1>2
<1> QED
  BY <1>1, <1>2, <1>3 DEF Inv, Positions, Begun

\* One step per action; the scanner and the evaluation leave the parser alone.
LEMMA StepInv == Inv /\ [TextNext]_vars => Inv'
<1> SUFFICES ASSUME Inv, [TextNext]_vars PROVE Inv'
  OBVIOUS
<1>1. CASE Push
  BY <1>1, PushKeeps
<1>2. CASE VersionRule
  <2>1. Version(TypeHeld)[1] = "version"
    BY DEF Version
  <2> QED
    BY <1>2, <2>1, RuleKeeps DEF VersionRule
<1>3. CASE SourceRule
  BY <1>3, RuleKeeps DEF SourceRule, Begun
<1>4. CASE IncludeRule
  BY <1>4, RuleKeeps DEF IncludeRule, Begun
<1>5. CASE EscapeError \/ SyntaxError
  BY <1>5, ErrorKeeps
<1>6. CASE Accept
  <2>1. errstatus' \in 0 .. 3 /\ errstatus' # 3 /\ (errstatus' > 0 => errstatus > 0)
    BY <1>6 DEF Inv, Accept, Shift, Decremented
  <2> QED
    BY <1>6, <2>1 DEF Inv, Accept, Shift, programVars, Begun
<1>7. CASE UNCHANGED <<parserVars, programVars>>
  BY <1>7 DEF Inv, parserVars, programVars
<1>8. ASSUME NEW item \in Items[mode], Scan(item) PROVE Inv'
  BY <1>7, <1>8 DEF Scan
<1>9. CASE ScanEnd \/ Evaluate \/ (\E name \in Macros : Define(name)) \/ UNCHANGED vars
  BY <1>7, <1>9 DEF ScanEnd, Evaluate, Define, vars
<1> QED
  BY <1>1, <1>2, <1>3, <1>4, <1>5, <1>6, <1>8, <1>9 DEF TextNext, Parse

LEMMA AlwaysInv == TextSpec => []Inv
<1> QED
  BY InitInv, StepInv, PTL DEF TextSpec

\* The parser never aborts: the null entry _load puts into its cache before it
\* parses never stays (context.cpp:124-129).
THEOREM ParserAnswers == TextSpec => []NeverNull
<1>1. Inv => NeverNull
  BY DEF Inv, NeverNull
<1> QED
  BY <1>1, AlwaysInv, PTL

\* What ShaderLibrary assumes of every file that is not broken, and what
\* resolve_includes relies on when it skips the first section.
THEOREM ValidStartsWithVersion == TextSpec => []VersionFirst
<1>1. Inv => VersionFirst
  BY DEF Inv, VersionFirst, Begun
<1> QED
  BY <1>1, AlwaysInv, PTL

-----------------------------------------------------------------------------
(* Types *)

LEMMA ModeStays == ASSUME mode \in Modes, NEW item \in Items[mode] PROVE ModeAfter(item) \in Modes
<1>1. Modes = {"INITIAL", "VERSION_DIRECTIVE", "CODE", "DIRECTIVE"}
  BY DEF Modes, Items
<1> QED
  BY <1>1 DEF ModeAfter

LEMMA ElementsOf ==
  ASSUME NEW S, NEW s \in Seq(S) PROVE \A i \in DOMAIN s : s[i] \in S
  OBVIOUS

LEMMA AppendToSet ==
  ASSUME NEW S, NEW s \in Seq(S), NEW e \in S PROVE Append(s, e) \in Seq(S)
  OBVIOUS

\* The conjuncts of TextTypeOK that Inv has not, and the sequence of defines.
Types ==
  /\ mode \in Modes /\ count \in 0 .. MaxItems /\ eof \in BOOLEAN
  /\ m_errors \subseteq {"syntax", "unknown program type", "invalid escape"}
  /\ m_type \in ShaderTypes \cup {"generic"}
  /\ m_defines \in Seq(Macros) /\ thrown \in BOOLEAN

LEMMA InitTypes == TextInit => Types
<1> SUFFICES ASSUME TextInit PROVE Types
  OBVIOUS
<1>1. m_defines \in Seq(Macros)
  BY DEF TextInit
<1>2. mode \in Modes
  BY DEF TextInit, Modes, Items
<1>3. count \in 0 .. MaxItems
  BY TextAssumption DEF TextInit
<1> QED
  BY <1>1, <1>2, <1>3 DEF TextInit, Types

LEMMA StepTypes == Types /\ [TextNext]_vars => Types'
<1> SUFFICES ASSUME Types, [TextNext]_vars PROVE Types'
  OBVIOUS
<1>1. ASSUME NEW item \in Items[mode], Scan(item) PROVE Types'
  <2>1. mode' \in Modes
    BY <1>1, ModeStays DEF Types, Scan
  <2>2. count' \in 0 .. MaxItems
    <3>1. count \in 0 .. MaxItems
      BY DEF Types
    <3>2. count < MaxItems /\ count' = count + 1
      BY <1>1 DEF Scan
    <3>3. MaxItems \in Nat
      BY TextAssumption
    <3> QED
      BY <3>1, <3>2, <3>3
  <2> QED
    BY <1>1, <2>1, <2>2 DEF Types, Scan, programVars, evaluationVars
<1>2. CASE ScanEnd
  <2>1. mode' \in Modes
    BY <1>2 DEF ScanEnd, Types, Modes, Items
  <2> QED
    BY <1>2, <2>1 DEF ScanEnd, Types, programVars, evaluationVars
<1>3. CASE Push
  BY <1>3 DEF Push, Types, Shift, scannerVars, evaluationVars
<1>4. CASE VersionRule
  <2>1. TypeHeld \in ShaderTypes \cup {"generic"}
    BY DEF TypeHeld
  <2> QED
    BY <1>4, <2>1 DEF VersionRule, Types, Shift, scannerVars, evaluationVars
<1>5. CASE SourceRule \/ IncludeRule \/ Accept
  BY <1>5 DEF SourceRule, IncludeRule, Accept, Types, Shift, scannerVars, evaluationVars, programVars
<1>6. CASE EscapeError \/ SyntaxError
  BY <1>6 DEF EscapeError, SyntaxError, Types, scannerVars, evaluationVars
<1>7. CASE Evaluate
  BY <1>7 DEF Evaluate, Types, scannerVars, programVars
<1>8. ASSUME NEW name \in Macros, Define(name) PROVE Types'
  BY <1>8, AppendToSet DEF Define, Types, scannerVars, programVars
<1>9. CASE UNCHANGED vars
  BY <1>9 DEF Types, vars, scannerVars, programVars, evaluationVars
<1> QED
  BY <1>1, <1>2, <1>3, <1>4, <1>5, <1>6, <1>7, <1>8, <1>9 DEF TextNext, Parse

\* The type invariant: errstatus is never counted below zero, the scanner is
\* always in one of its start conditions.
THEOREM TextTypeCorrect == TextSpec => []TextTypeOK
<1>1. Types /\ Inv => TextTypeOK
  <2> SUFFICES ASSUME Types, Inv PROVE TextTypeOK
    OBVIOUS
  <2>1. ToSet(m_defines) \subseteq Macros
    <3>1. m_defines \in Seq(Macros)
      BY DEF Types
    <3>2. \A i \in DOMAIN m_defines : m_defines[i] \in Macros
      BY <3>1, ElementsOf
    <3> QED
      BY <3>2 DEF ToSet
  <2>2. at \in Positions /\ errstatus \in 0 .. 3 /\ status \in {"parsing", "parsed", "null"}
    BY DEF Inv
  <2> QED
    BY <2>1, <2>2 DEF Types, TextTypeOK
<1> QED
  BY <1>1, InitTypes, StepTypes, AlwaysInv, PTL DEF TextSpec

-----------------------------------------------------------------------------
(* escape and unescape                                                        *)

\* What unescape() holds before the first character, and after some.
Start == [s |-> <<>>, escaped |-> FALSE, ok |-> TRUE]
Accs == [s : Seq(Characters), escaped : BOOLEAN, ok : BOOLEAN]

\* unescape() holds a text and two flags, before and after every character.
LEMMA StartIsAcc == Start \in Accs
<1>1. <<>> \in Seq(Characters) OBVIOUS
<1> QED BY <1>1 DEF Start, Accs

LEMMA OneIsAcc == ASSUME NEW a \in Accs, NEW c \in Characters PROVE UnescapeOne(a, c) \in Accs
<1>1. /\ a.s \in Seq(Characters) /\ a.escaped \in BOOLEAN /\ a.ok \in BOOLEAN
      /\ a = [s |-> a.s, escaped |-> a.escaped, ok |-> a.ok]
  BY DEF Accs
<1>2. \A d \in Characters : Append(a.s, d) \in Seq(Characters)
  BY <1>1
<1>3. \A d \in DOMAIN Unescaped : Unescaped[d] \in Characters
  BY TextAssumption DEF Unescaped
<1>4. CASE a.escaped /\ c \in DOMAIN Unescaped
  <2>1. UnescapeOne(a, c) = [s |-> Append(a.s, Unescaped[c]), escaped |-> FALSE, ok |-> a.ok]
    BY <1>1, <1>4 DEF UnescapeOne
  <2>2. Append(a.s, Unescaped[c]) \in Seq(Characters)
    BY <1>2, <1>3, <1>4
  <2> QED
    BY <1>1, <2>1, <2>2 DEF Accs
<1>5. CASE a.escaped /\ c \notin DOMAIN Unescaped
  <2>1. UnescapeOne(a, c) = [s |-> a.s, escaped |-> a.escaped, ok |-> FALSE]
    BY <1>1, <1>5 DEF UnescapeOne
  <2> QED
    BY <1>1, <2>1 DEF Accs
<1>6. CASE ~a.escaped /\ c = Backslash
  <2>1. UnescapeOne(a, c) = [s |-> a.s, escaped |-> TRUE, ok |-> a.ok]
    BY <1>1, <1>6 DEF UnescapeOne
  <2> QED
    BY <1>1, <2>1 DEF Accs
<1>7. CASE ~a.escaped /\ c # Backslash
  <2>1. UnescapeOne(a, c) = [s |-> Append(a.s, c), escaped |-> a.escaped, ok |-> a.ok]
    BY <1>1, <1>7 DEF UnescapeOne
  <2> QED
    BY <1>1, <1>2, <2>1 DEF Accs
<1> QED
  BY <1>1, <1>4, <1>5, <1>6, <1>7

\* What FoldLeft folds by: the greatest of some numbers.
LEMMA MaxOfSome ==
  ASSUME NEW n \in Nat, NEW t \in SUBSET (1 .. n), t # {}
  PROVE  Max(t) \in t /\ \A y \in t : Max(t) >= y
<1> DEFINE S == {n - x : x \in t}
<1>1. S \subseteq Nat /\ S # {}
  <2>1. \A y \in t : n - y \in Nat
    OBVIOUS
  <2> QED
    BY <2>1
<1>2. PICK m \in S : \A y \in S : m <= y
  BY <1>1, LeastNumber
<1>3. PICK x \in t : m = n - x
  BY <1>2
<1>4. \A y \in t : n - x <= n - y
  BY <1>2, <1>3
<1>5. \A y \in t : x >= y
  BY <1>4
<1> QED
  BY <1>5 DEF Max

\* The accumulators of a text, one after each character.
Runs(s) ==
  {a \in [0 .. Len(s) -> Accs] :
     a[0] = Start /\ \A i \in 1 .. Len(s) : a[i] = UnescapeOne(a[i - 1], s[i])}

\* A set of positions is folded by its last one: that of the library's recursion
\* over the subsets which fold_left needs exists, and is what it takes.
LEMMA FoldRuns ==
  ASSUME NEW s \in Seq(Characters)
  PROVE  \E a \in Runs(s) : FoldLeft(UnescapeOne, Start, s) = a[Len(s)]
<1> DEFINE n == Len(s)
           P == SUBSET (1 .. n)
           H == [P -> Accs]
           Fold(h) == [t \in P |-> IF t = {} THEN Start
                                   ELSE UnescapeOne(h[t \ {Max(t)}], s[Max(t)])]
           F == [h \in H |-> Fold(h)]
           x == [t \in P |-> Start]
<1>1. n \in Nat /\ DOMAIN s = 1 .. n /\ \A i \in 1 .. n : s[i] \in Characters
  OBVIOUS
<1>2. ASSUME NEW t \in P, t # {}
      PROVE  Max(t) \in 1 .. n /\ Max(t) \in t /\ t \ {Max(t)} \in P /\ \A y \in t : Max(t) >= y
  BY <1>1, <1>2, MaxOfSome
<1>3. F \in [H -> H]
  <2>1. ASSUME NEW h \in H, NEW t \in P, t # {}
        PROVE  UnescapeOne(h[t \ {Max(t)}], s[Max(t)]) \in Accs
    <3>1. h[t \ {Max(t)}] \in Accs
      BY <2>1, <1>2
    <3>2. s[Max(t)] \in Characters
      BY <2>1, <1>1, <1>2
    <3> QED
      BY <3>1, <3>2, OneIsAcc
  <2>2. ASSUME NEW h \in H PROVE Fold(h) \in H
    BY <2>1, StartIsAcc
  <2> QED
    BY <2>2
<1>4. x \in H
  BY StartIsAcc
<1>5. PICK g \in [0 .. n + 1 -> H] : g[0] = x /\ \A i \in 1 .. n + 1 : g[i] = F[g[i - 1]]
  <2> HIDE DEF H, F, x, n
  <2>1. n + 1 \in Nat
    BY <1>1
  <2>2. Iterates(F, x, H, n + 1) # {}
    BY <1>3, <1>4, <2>1, IteratesExist
  <2> QED
    BY <2>2 DEF Iterates
<1>6. \A i \in 1 .. n + 1 : g[i] = Fold(g[i - 1])
  <2> HIDE DEF H, n
  <2> SUFFICES ASSUME NEW i \in 1 .. n + 1 PROVE g[i] = Fold(g[i - 1])
    OBVIOUS
  <2>1. i - 1 \in 0 .. n + 1
    BY <1>1
  <2>2. g[i - 1] \in H
    BY <1>5, <2>1
  <2> QED
    BY <1>5, <2>2
\* The k-th approximation is final for the sets of the first k positions.
<1> DEFINE Final(k) == k <= n => \A t \in P : t \subseteq 1 .. k => g[k + 1][t] = g[k][t]
           S == {k \in Nat : Final(k)}
<1>7. 0 \in S
  <2>1. g[1] = Fold(g[0]) /\ g[0] = x
    <3>1. 1 \in 1 .. n + 1 /\ 1 - 1 = 0
      BY <1>1
    <3> HIDE DEF Fold
    <3> QED
      BY <3>1, <1>5, <1>6
  <2>2. \A t \in P : t \subseteq 1 .. 0 => t = {}
    OBVIOUS
  <2>3. {} \in P
    OBVIOUS
  <2>4. g[1][{}] = Start /\ g[0][{}] = Start
    BY <2>1, <2>3
  <2>5. ASSUME NEW t \in P, t \subseteq 1 .. 0 PROVE g[0 + 1][t] = g[0][t]
    <3>1. t = {} /\ 0 + 1 = 1
      BY <2>5, <2>2
    <3> QED
      BY <3>1, <2>4
  <2> HIDE DEF P
  <2> QED
    BY <2>5
<1>8. ASSUME NEW k \in Nat, k \in S PROVE k + 1 \in S
  <2> SUFFICES ASSUME k + 1 <= n, NEW t \in P, t \subseteq 1 .. (k + 1)
               PROVE  g[k + 2][t] = g[k + 1][t]
    <3>1. k + 1 + 1 = k + 2
      OBVIOUS
    <3> QED
      BY <3>1
  <2>1. g[k + 2] = Fold(g[k + 1]) /\ g[k + 1] = Fold(g[k])
    <3>1. k + 2 \in 1 .. n + 1 /\ k + 1 \in 1 .. n + 1 /\ (k + 2) - 1 = k + 1 /\ (k + 1) - 1 = k
      BY <1>1
    <3> HIDE DEF Fold
    <3> QED
      BY <3>1, <1>6
  <2>2. CASE t = {}
    BY <2>1, <2>2
  <2>3. CASE t # {}
    <3>1. t \ {Max(t)} \in P /\ Max(t) \in t /\ \A y \in t : Max(t) >= y
      BY <2>3, <1>2
    <3>2. t \ {Max(t)} \subseteq 1 .. k
      BY <3>1, <1>1
    <3>3. g[k + 1][t \ {Max(t)}] = g[k][t \ {Max(t)}]
      BY <1>8, <1>1, <3>1, <3>2
    <3>4. /\ g[k + 2][t] = UnescapeOne(g[k + 1][t \ {Max(t)}], s[Max(t)])
          /\ g[k + 1][t] = UnescapeOne(g[k][t \ {Max(t)}], s[Max(t)])
      BY <2>1, <2>3
    <3> QED
      BY <3>3, <3>4
  <2> QED
    BY <2>2, <2>3
<1>9. Final(n)
  <2> HIDE DEF S
  <2>1. Nat \subseteq S
    BY <1>7, <1>8, AllNumbers
  <2> QED
    BY <2>1, <1>1 DEF S
<1>10. \E f : f = Fold(f)
  <2>1. g[n + 1] = Fold(g[n]) /\ g[n] \in H /\ g[n + 1] \in H
    <3> HIDE DEF Fold, H
    <3>1. n + 1 \in 1 .. n + 1 /\ n \in 0 .. n + 1 /\ n + 1 \in 0 .. n + 1 /\ (n + 1) - 1 = n
      BY <1>1
    <3> QED
      BY <3>1, <1>5, <1>6
  <2>2. \A t \in P : g[n + 1][t] = g[n][t]
    BY <1>9, <1>1
  <2>3. g[n + 1] = g[n]
    BY <2>1, <2>2
  <2> QED
    BY <2>1, <2>3
<1> DEFINE f == CHOOSE h : h = Fold(h)
<1>11. f = Fold(f)
  BY <1>10
<1>12. FoldLeft(UnescapeOne, Start, s) = f[1 .. n]
  BY <1>1 DEF FoldLeft, MapThenFoldSet
<1> HIDE DEF f
<1> DEFINE a == [i \in 0 .. n |-> f[1 .. i]]
<1>13. a[0] = Start
  <2>1. 1 .. 0 = {} /\ {} \in P /\ 0 \in 0 .. n
    BY <1>1
  <2>2. f[{}] = Start
    BY <1>11, <2>1
  <2> QED
    BY <2>1, <2>2
<1>14. ASSUME NEW i \in 1 .. n PROVE a[i] = UnescapeOne(a[i - 1], s[i])
  <2>1. 1 .. i \in P /\ 1 .. i # {} /\ i \in 0 .. n /\ i - 1 \in 0 .. n
    <3> HIDE DEF n
    <3>1. i \in 1 .. i /\ 1 .. i \subseteq 1 .. n /\ i \in 0 .. n /\ i - 1 \in 0 .. n
      BY <1>1
    <3> QED
      BY <3>1
  <2>2. Max(1 .. i) = i
    <3>1. Max(1 .. i) \in 1 .. i /\ \A y \in 1 .. i : Max(1 .. i) >= y
      BY <2>1, <1>2
    <3>2. i \in 1 .. i
      BY <1>1
    <3> QED
      BY <3>1, <3>2, <1>1
  <2>3. (1 .. i) \ {i} = 1 .. (i - 1)
    BY <1>1
  <2>4. f[1 .. i] = UnescapeOne(f[1 .. (i - 1)], s[i])
    BY <1>11, <2>1, <2>2, <2>3
  <2> QED
    BY <2>1, <2>4
<1> DEFINE T == {k \in Nat : k <= n => a[k] \in Accs}
<1>15. 0 \in T
  BY <1>13, StartIsAcc
<1>16. ASSUME NEW k \in Nat, k \in T PROVE k + 1 \in T
  <2> SUFFICES ASSUME k + 1 <= n PROVE a[k + 1] \in Accs
    OBVIOUS
  <2>1. a[k] \in Accs
    BY <1>16, <1>1
  <2>2. k + 1 \in 1 .. n /\ (k + 1) - 1 = k
    BY <1>1
  <2> HIDE DEF a
  <2>3. a[k + 1] = UnescapeOne(a[k], s[k + 1])
    BY <1>14, <2>2
  <2> QED
    BY <2>1, <2>2, <2>3, <1>1, OneIsAcc
<1>17. \A i \in 0 .. n : a[i] \in Accs
  <2> HIDE DEF T
  <2>1. Nat \subseteq T
    BY <1>15, <1>16, AllNumbers
  <2>2. ASSUME NEW i \in 0 .. n PROVE a[i] \in Accs
    <3>1. i \in T /\ i <= n
      BY <2>1, <1>1
    <3> HIDE DEF a
    <3> QED
      BY <3>1 DEF T
  <2> QED
    BY <2>2
<1>18. a \in [0 .. n -> Accs]
  BY <1>17
<1>19. a[n] = f[1 .. n]
  BY <1>1
<1> QED
  <2> HIDE DEF a
  <2> QED
    BY <1>12, <1>13, <1>14, <1>18, <1>19 DEF Runs

\* There is one run over a text.
LEMMA RunsAgree ==
  ASSUME NEW s \in Seq(Characters), NEW a \in Runs(s), NEW b \in Runs(s)
  PROVE  a[Len(s)] = b[Len(s)]
<1> DEFINE T == {k \in Nat : k <= Len(s) => a[k] = b[k]}
<1>1. Len(s) \in Nat
  OBVIOUS
<1>2. 0 \in T
  BY DEF Runs
<1>3. ASSUME NEW k \in Nat, k \in T PROVE k + 1 \in T
  <2> SUFFICES ASSUME k + 1 <= Len(s) PROVE a[k + 1] = b[k + 1]
    OBVIOUS
  <2>1. a[k] = b[k] /\ k + 1 \in 1 .. Len(s) /\ (k + 1) - 1 = k
    BY <1>1, <1>3
  <2> QED
    BY <2>1 DEF Runs
<1>4. Nat \subseteq T
  <2> HIDE DEF T
  <2> QED
    BY <1>2, <1>3, AllNumbers
<1> QED
  BY <1>1, <1>4

\* What unescape() makes of a literal is text again.
LEMMA UnescapeType ==
  ASSUME NEW s \in Seq(Characters)
  PROVE  Unescape(s) \in Accs
<1>1. PICK a \in Runs(s) : FoldLeft(UnescapeOne, Start, s) = a[Len(s)]
  BY FoldRuns
<1>2. a[Len(s)] \in Accs
  <2>1. Len(s) \in 0 .. Len(s)
    OBVIOUS
  <2> QED
    BY <2>1 DEF Runs
<1> DEFINE all == FoldLeft(UnescapeOne, Start, s)
<1>3. all \in Accs
  BY <1>1, <1>2
<1>4. Unescape(s) = [all EXCEPT !.s = IF all.ok /\ all.escaped THEN Append(@, Backslash) ELSE @]
  BY DEF Unescape, Start
<1> HIDE DEF all
<1>5. all.s \in Seq(Characters) /\ Append(all.s, Backslash) \in Seq(Characters)
  <2>1. all.s \in Seq(Characters) /\ Backslash \in Characters
    BY <1>3, TextAssumption DEF Accs
  <2> QED
    BY <2>1
<1>6. CASE all.ok /\ all.escaped
  BY <1>3, <1>4, <1>5, <1>6 DEF Accs
<1>7. CASE ~(all.ok /\ all.escaped)
  BY <1>3, <1>4, <1>5, <1>7 DEF Accs
<1> QED
  BY <1>6, <1>7

\* One more character is read from where the ones before have led.
LEMMA RunAppends ==
  ASSUME NEW t \in Seq(Characters), NEW a \in Runs(t), NEW c \in Characters
  PROVE  \E b \in Runs(Append(t, c)) : b[Len(Append(t, c))] = UnescapeOne(a[Len(t)], c)
<1> DEFINE n == Len(t)
           b == [i \in 0 .. n + 1 |-> IF i = n + 1 THEN UnescapeOne(a[n], c) ELSE a[i]]
<1>1. /\ n \in Nat /\ Len(Append(t, c)) = n + 1 /\ Append(t, c)[n + 1] = c
      /\ \A i \in 1 .. n : Append(t, c)[i] = t[i]
  OBVIOUS
<1>2. /\ a \in [0 .. n -> Accs] /\ a[0] = Start
      /\ \A i \in 1 .. n : a[i] = UnescapeOne(a[i - 1], t[i])
  BY DEF Runs
<1>3. \A i \in 0 .. n + 1 : i # n + 1 => i \in 0 .. n
  BY <1>1
<1>4. n \in 0 .. n /\ n + 1 \in 0 .. n + 1
  BY <1>1
<1>5. a[n] \in Accs
  BY <1>2, <1>4
<1>6. b \in [0 .. n + 1 -> Accs]
  <2>1. UnescapeOne(a[n], c) \in Accs
    BY <1>5, OneIsAcc
  <2> QED
    BY <1>2, <1>3, <2>1
<1>7. b[0] = Start /\ b[n + 1] = UnescapeOne(a[n], c)
  BY <1>1, <1>2, <1>4
<1>8. ASSUME NEW i \in 1 .. n + 1 PROVE b[i] = UnescapeOne(b[i - 1], Append(t, c)[i])
  <2>1. i \in 0 .. n + 1 /\ i - 1 \in 0 .. n + 1 /\ i - 1 # n + 1 /\ b[i - 1] = a[i - 1]
    BY <1>1
  <2>2. CASE i = n + 1
    BY <1>1, <1>7, <2>1, <2>2
  <2>3. CASE i # n + 1
    <3>1. i \in 1 .. n /\ b[i] = a[i]
      BY <1>1, <2>3
    <3> QED
      BY <1>1, <1>2, <2>1, <3>1
  <2> QED
    BY <2>2, <2>3
<1> HIDE DEF b
<1>9. b \in Runs(Append(t, c))
  BY <1>1, <1>6, <1>7, <1>8 DEF Runs
<1> QED
  BY <1>1, <1>7, <1>9

\* Reading t ends with acc.
LeadsTo(t, acc) == \E a \in Runs(t) : a[Len(t)] = acc

\* One more character.
LEMMA LeadsOn ==
  ASSUME NEW t \in Seq(Characters), NEW acc, LeadsTo(t, acc), NEW c \in Characters
  PROVE  LeadsTo(Append(t, c), UnescapeOne(acc, c))
<1>1. PICK a \in Runs(t) : a[Len(t)] = acc
  BY DEF LeadsTo
<1>2. \E b \in Runs(Append(t, c)) : b[Len(Append(t, c))] = UnescapeOne(a[Len(t)], c)
  BY RunAppends
<1> QED
  BY <1>1, <1>2 DEF LeadsTo

\* Where a run leads is what unescape() computes.
LEMMA LeadsThere ==
  ASSUME NEW t \in Seq(Characters), NEW acc, LeadsTo(t, acc)
  PROVE  FoldLeft(UnescapeOne, Start, t) = acc
<1>1. PICK a \in Runs(t) : a[Len(t)] = acc
  BY DEF LeadsTo
<1>2. PICK b \in Runs(t) : FoldLeft(UnescapeOne, Start, t) = b[Len(t)]
  BY FoldRuns
<1> QED
  BY <1>1, <1>2, RunsAgree

\* unescape() undoes escape(): of a text without a backslash, which escape()
\* doubles and unescape() does not know, and without a carriage return, which
\* comes back as a line feed.
THEOREM UnescapeUndoesEscape ==
  ASSUME NEW s \in Seq(Characters \ {Backslash, Return})
  PROVE  Unescape(Escape(s)) = [s |-> s, escaped |-> FALSE, ok |-> TRUE]
<1> DEFINE n == Len(s)
           p == [i \in DOMAIN s |-> EscapeOne(s[i])]
           Read(k) == [s |-> SubSeq(s, 1, k), escaped |-> FALSE, ok |-> TRUE]
<1>1. /\ n \in Nat /\ DOMAIN s = 1 .. n
      /\ \A i \in 1 .. n : s[i] \in Characters \ {Backslash, Return}
  OBVIOUS
<1>2. {Backslash, Quote, Linefeed, Return, "n", "r"} \subseteq Characters
  BY TextAssumption
\* An escaped character is read in one step or in two.
<1>3. ASSUME NEW c \in Characters \ {Backslash, Return}
      PROVE  \/ /\ c \in {Quote, Linefeed}
                /\ \E d \in {Quote, "n"} :
                     EscapeOne(c) = <<Backslash, d>> /\ Unescaped[d] = c /\ d \in DOMAIN Unescaped
             \/ /\ c \notin {Quote, Linefeed}
                /\ EscapeOne(c) = <<c>>
  <2>1. CASE c = Quote
    BY <2>1 DEF EscapeOne, Unescaped, Quote, Linefeed, Backslash
  <2>2. CASE c = Linefeed
    BY <2>2 DEF EscapeOne, Unescaped, Quote, Linefeed, Backslash
  <2>3. CASE c \notin {Quote, Linefeed}
    BY <2>3 DEF EscapeOne
  <2> QED
    BY <2>1, <2>2, <2>3
<1>4. p \in Seq(Seq(Characters)) /\ Len(p) = n
  <2>1. ASSUME NEW i \in 1 .. n PROVE EscapeOne(s[i]) \in Seq(Characters)
    <3>1. s[i] \in Characters \ {Backslash, Return}
      BY <1>1
    <3>2. CASE EscapeOne(s[i]) = <<s[i]>>
      BY <3>1, <3>2
    <3>3. ASSUME NEW d \in {Quote, "n"}, EscapeOne(s[i]) = <<Backslash, d>>
          PROVE  EscapeOne(s[i]) \in Seq(Characters)
      <4>1. Backslash \in Characters /\ d \in Characters
        BY <1>2
      <4> QED
        BY <3>3, <4>1
    <3>4. EscapeOne(s[i]) = <<s[i]>> \/ \E d \in {Quote, "n"} : EscapeOne(s[i]) = <<Backslash, d>>
      BY <1>3, <3>1
    <3> QED
      BY <3>2, <3>3, <3>4
  <2> QED
    BY <1>1, <2>1
<1> HIDE DEF n, p
<1>5. PICK e \in Concats(Characters, p) : TRUE
  BY <1>4, ConcatsExist
<1>6. /\ e \in [0 .. n -> Seq(Characters)] /\ e[0] = <<>>
      /\ \A i \in 1 .. n : e[i] = e[i - 1] \o EscapeOne(s[i])
  <2>1. \A i \in 1 .. n : p[i] = EscapeOne(s[i])
    BY <1>1 DEF p
  <2> QED
    BY <1>4, <2>1 DEF Concats
<1>7. Escape(s) = e[n]
  BY <1>4, Flattened DEF Escape, p
<1>8. LeadsTo(e[0], Read(0))
  <2> DEFINE a == [i \in 0 .. 0 |-> Start]
  <2>1. Len(<<>>) = 0 /\ SubSeq(s, 1, 0) = <<>> /\ a[0] = Start
    OBVIOUS
  <2>2. a \in Runs(<<>>)
    BY <2>1, StartIsAcc DEF Runs
  <2> HIDE DEF a
  <2>3. a[Len(<<>>)] = Read(0)
    BY <2>1 DEF Start
  <2> QED
    BY <1>6, <2>2, <2>3 DEF LeadsTo
<1>9. ASSUME NEW k \in Nat, k + 1 <= n, LeadsTo(e[k], Read(k))
      PROVE  LeadsTo(e[k + 1], Read(k + 1))
  <2>1. k \in 0 .. n /\ k + 1 \in 1 .. n /\ (k + 1) - 1 = k
    BY <1>1, <1>9
  <2>2. PICK c \in Characters \ {Backslash, Return} : c = s[k + 1]
    BY <1>1, <2>1
  <2>3. e[k] \in Seq(Characters) /\ e[k + 1] = e[k] \o EscapeOne(c)
    BY <1>6, <2>1, <2>2
  <2>4. Read(k + 1) = [s |-> Append(SubSeq(s, 1, k), c), escaped |-> FALSE, ok |-> TRUE]
    <3>1. SubSeq(s, 1, k + 1) = Append(SubSeq(s, 1, k), s[k + 1])
      BY <2>1 DEF n
    <3> QED
      BY <2>2, <3>1
  <2>5. CASE c \in {Quote, Linefeed}
    <3>1. PICK d \in {Quote, "n"} :
            EscapeOne(c) = <<Backslash, d>> /\ Unescaped[d] = c /\ d \in DOMAIN Unescaped
      BY <1>3, <2>5
    <3>2. Backslash \in Characters /\ d \in Characters
      BY <1>2
    <3>3. PICK t : t = Append(e[k], Backslash)
      OBVIOUS
    <3>4. t \in Seq(Characters) /\ e[k + 1] = Append(t, d)
      BY <2>3, <3>1, <3>2, <3>3
    <3>5. LeadsTo(t, UnescapeOne(Read(k), Backslash))
      <4> HIDE DEF Read
      <4> QED
        BY <1>9, <2>3, <3>2, <3>3, LeadsOn
    <3>6. UnescapeOne(Read(k), Backslash) = [s |-> SubSeq(s, 1, k), escaped |-> TRUE, ok |-> TRUE]
      BY DEF UnescapeOne
    <3>7. LeadsTo(e[k + 1], UnescapeOne([s |-> SubSeq(s, 1, k), escaped |-> TRUE, ok |-> TRUE], d))
      BY <3>2, <3>4, <3>5, <3>6, LeadsOn
    <3>8. UnescapeOne([s |-> SubSeq(s, 1, k), escaped |-> TRUE, ok |-> TRUE], d)
            = [s |-> Append(SubSeq(s, 1, k), Unescaped[d]), escaped |-> FALSE, ok |-> TRUE]
      BY <3>1 DEF UnescapeOne
    <3> QED
      BY <2>4, <3>1, <3>7, <3>8
  <2>6. CASE c \notin {Quote, Linefeed}
    <3>1. EscapeOne(c) = <<c>>
      BY <1>3, <2>6
    <3>2. e[k + 1] = Append(e[k], c)
      BY <2>3, <3>1
    <3>3. LeadsTo(Append(e[k], c), UnescapeOne(Read(k), c))
      <4> HIDE DEF Read
      <4> QED
        BY <1>9, <2>3, LeadsOn
    <3>4. UnescapeOne(Read(k), c) = [s |-> Append(SubSeq(s, 1, k), c), escaped |-> FALSE, ok |-> TRUE]
      BY <2>2 DEF UnescapeOne
    <3> QED
      BY <2>4, <3>2, <3>3, <3>4
  <2> QED
    BY <2>5, <2>6
<1>10. LeadsTo(e[n], Read(n))
  <2> HIDE DEF Read
  <2> DEFINE T == {k \in Nat : k <= n => LeadsTo(e[k], Read(k))}
  <2>1. 0 \in T
    BY <1>8
  <2>2. ASSUME NEW k \in Nat, k \in T PROVE k + 1 \in T
    BY <1>1, <1>9, <2>2
  <2> HIDE DEF T
  <2>3. n \in T
    BY <1>1, <2>1, <2>2, AllNumbers
  <2> QED
    BY <1>1, <2>3 DEF T
<1>11. e[n] \in Seq(Characters)
  BY <1>1, <1>6
<1>13. FoldLeft(UnescapeOne, Start, e[n]) = Read(n)
  BY <1>10, <1>11, LeadsThere
<1>14. SubSeq(s, 1, n) = s
  BY <1>1 DEF n
<1>15. Unescape(e[n]) = [Read(n) EXCEPT !.s = IF Read(n).ok /\ Read(n).escaped THEN Append(@, Backslash) ELSE @]
  BY <1>13 DEF Unescape, Start
<1> QED
  BY <1>7, <1>14, <1>15

-----------------------------------------------------------------------------
(* The parser and the meaning of what it has read                             *)

Place ==
  [start |-> "blank", version |-> "version", number |-> "number", profile |-> "profile",
   type |-> "typed", program |-> "body", open |-> "directive", include |-> "named",
   path |-> "closing"]

\* The start condition in which the scanner is at a position of the parser.
ModeOf(a) ==
  CASE a = "start" -> "INITIAL"
    [] a \in {"version", "number", "profile", "type"} -> "VERSION_DIRECTIVE"
    [] a = "program" -> "CODE"
    [] OTHER -> "DIRECTIVE"

Suits(md, a, e) == IF e THEN a = "program" /\ md # "VERSION_DIRECTIVE" ELSE md = ModeOf(a)

TypeOf(h) == IF Len(h) = 2 /\ h[2] \in ShaderTypes THEN h[2] ELSE "generic"

\* What was read when the parser stands at a and holds h.
Reading(a, h, ss, ty) ==
  [at |-> Place[a], sections |-> ss, type |-> IF a = "type" THEN h[2] ELSE ty,
   path |-> IF a = "path" THEN h ELSE <<>>]

Holds(a, h) ==
  /\ h \in Seq(Names)
  /\ CASE a = "profile" -> Len(h) = 1
       [] a = "type" -> Len(h) = 2 /\ h[2] \in ShaderTypes
       [] a = "path" -> TRUE
       [] OTHER -> h = <<>>

\* While the parser has read all that the scanner has.
Even(a, h, ss, ty, md, mn, e) ==
  /\ mn = Reading(a, h, ss, ty)
  /\ Suits(md, a, e)
  /\ Holds(a, h)
  /\ a \notin Begun => ty = "generic"

\* While the token is ahead: the meaning is what the parser will have read,
\* or nothing.
Ahead(a, h, ss, ty, tok, md, mn, e) ==
  /\ \A p \in Pushes :
       (a = p[1] /\ tok[1] = p[2]) =>
         IF p[3] = "type" /\ tok[2][1] \notin ShaderTypes THEN mn = NoMeaning
         ELSE Even(p[3], h \o tok[2], ss, ty, md, mn, e)
  /\ a \in {"profile", "type"} /\ tok[1] = "EOL" =>
       Even("program", <<>>, Append(ss, Version(TypeOf(h))), TypeOf(h), md, mn, e)
  /\ a = "program" /\ tok[1] = "SOURCECODE" =>
       Even("program", h, Append(ss, <<"source", tok[2]>>), ty, md, mn, e)
  /\ a = "path" /\ tok[1] = "DIRCLOSE" =>
       Even("program", <<>>, Append(ss, <<"include", h>>), ty, md, mn, e)
  /\ a = "program" /\ tok[1] = "END" => Even("program", h, ss, ty, md, mn, e)
  /\ a = "include" /\ tok[1] = "ERROR" => mn = NoMeaning
  /\ <<a, tok[1]>> \notin {<<p[1], p[2]>> : p \in Pushes} \cup Completes => mn = NoMeaning

Known ==
  /\ look \in Pieces \cup {NoToken} /\ m_sections \in Seq(Pieces)
  /\ at \in Positions /\ m_type \in ShaderTypes \cup {"generic"}
  /\ held \in Seq(Names)
  /\ status = "parsed" => look = NoToken
  /\ m_errors # {} => meaning = NoMeaning
  /\ m_errors = {} /\ look = NoToken => Even(at, held, m_sections, m_type, mode, meaning, eof)
  /\ m_errors = {} /\ look # NoToken =>
       /\ Ahead(at, held, m_sections, m_type, look, mode, meaning, eof)
       /\ Holds(at, held)

\* A position and a token tell what is done: one push, or a completed rule.
LEMMA PushesApart ==
  /\ \A p, q \in Pushes : p[1] = q[1] /\ p[2] = q[2] => p = q
  /\ \A p \in Pushes : <<p[1], p[2]>> \notin Completes
<1>1. /\ \A p \in Pushes : p = <<p[1], p[2], p[3]>>
      /\ \A p \in Pushes : <<p[1], p[2]>> \notin Completes
  BY DEF Pushes, Completes
<1>2. ASSUME NEW p \in Pushes, NEW q \in Pushes, p[1] = q[1], p[2] = q[2] PROVE p = q
  <2>1. CASE p[1] \in {"start", "version"}
    BY <1>2, <2>1 DEF Pushes
  <2>2. CASE p[1] \in {"number", "profile"}
    BY <1>2, <2>2 DEF Pushes
  <2>3. CASE p[1] \in {"program", "open", "include"}
    BY <1>2, <2>3 DEF Pushes
  <2>4. p[1] \in {"start", "version", "number", "profile", "program", "open", "include"}
    BY DEF Pushes
  <2> QED
    BY <2>1, <2>2, <2>3, <2>4
<1> QED
  BY <1>1, <1>2

\* The tokens the parser takes at a position.
Taken(a) ==
  CASE a = "start" -> {"VERSION"}
    [] a = "version" -> {"INTLIT"}
    [] a = "number" -> {"IDENT"}
    [] a = "profile" -> {"IDENT", "EOL"}
    [] a = "type" -> {"EOL"}
    [] a = "program" -> {"DIROPEN", "SOURCECODE", "END"}
    [] a = "open" -> {"DIRECTIVE_INCLUDE"}
    [] a = "include" -> {"STRLIT", "ERROR"}
    [] OTHER -> {"DIRCLOSE"}

\* The table above is that of Pushes and Completes.
LEMMA TakenTable ==
  ASSUME NEW a \in Positions, NEW k
  PROVE  <<a, k>> \in {<<p[1], p[2]>> : p \in Pushes} \cup Completes <=> k \in Taken(a)
<1>1. <<a, k>> \in {<<p[1], p[2]>> : p \in Pushes} <=>
        <<a, k>> \in {<<"start", "VERSION">>, <<"version", "INTLIT">>, <<"number", "IDENT">>,
                     <<"profile", "IDENT">>, <<"program", "DIROPEN">>,
                     <<"open", "DIRECTIVE_INCLUDE">>, <<"include", "STRLIT">>}
  BY DEF Pushes
<1> QED
  BY <1>1 DEF Positions, Completes, Taken

\* Ahead, for a token that is pushed, one that completes a rule, one that is an error.
LEMMA AheadOfPush ==
  ASSUME NEW h, NEW ss, NEW ty, NEW tok, NEW md, NEW mn, NEW e, NEW p \in Pushes,
         tok[1] = p[2], p[3] = "type" => tok[2][1] \in ShaderTypes,
         Even(p[3], h \o tok[2], ss, ty, md, mn, e)
  PROVE  Ahead(p[1], h, ss, ty, tok, md, mn, e)
<1>1. \A q \in Pushes : p[1] = q[1] /\ tok[1] = q[2] => q = p
  BY PushesApart
<1>2. <<p[1], tok[1]>> \notin Completes /\ <<p[1], tok[1]>> \in {<<q[1], q[2]>> : q \in Pushes}
  BY PushesApart
<1>3. \A a : a \in {"profile", "type"} => <<a, "EOL">> \in Completes
  BY DEF Completes
<1>4. /\ <<"program", "SOURCECODE">> \in Completes /\ <<"path", "DIRCLOSE">> \in Completes
      /\ <<"program", "END">> \in Completes /\ <<"include", "ERROR">> \in Completes
  BY DEF Completes
<1> QED
  BY <1>1, <1>2, <1>3, <1>4 DEF Ahead

LEMMA AheadOfRule ==
  ASSUME NEW a, NEW h, NEW ss, NEW ty, NEW tok, NEW md, NEW mn, NEW e,
         \/ /\ a \in {"profile", "type"} /\ tok[1] = "EOL"
            /\ Even("program", <<>>, Append(ss, Version(TypeOf(h))), TypeOf(h), md, mn, e)
         \/ /\ a = "program" /\ tok[1] = "SOURCECODE"
            /\ Even("program", h, Append(ss, <<"source", tok[2]>>), ty, md, mn, e)
         \/ /\ a = "path" /\ tok[1] = "DIRCLOSE"
            /\ Even("program", <<>>, Append(ss, <<"include", h>>), ty, md, mn, e)
         \/ /\ a = "program" /\ tok[1] = "END"
            /\ Even("program", h, ss, ty, md, mn, e)
         \/ a = "include" /\ tok[1] = "ERROR" /\ mn = NoMeaning
  PROVE  Ahead(a, h, ss, ty, tok, md, mn, e)
<1>1. <<a, tok[1]>> \in Completes
  BY DEF Completes
<1>2. \A p \in Pushes : ~(a = p[1] /\ tok[1] = p[2])
  BY <1>1, PushesApart
<1> QED
  BY <1>1, <1>2 DEF Ahead

LEMMA AheadOfError ==
  ASSUME NEW a \in Positions, NEW h, NEW ss, NEW ty, NEW tok, NEW md, NEW mn, NEW e,
         tok[1] \notin Taken(a), mn = NoMeaning
  PROVE  Ahead(a, h, ss, ty, tok, md, mn, e)
<1>1. <<a, tok[1]>> \notin {<<p[1], p[2]>> : p \in Pushes} \cup Completes
  BY TakenTable
<1>2. \A p \in Pushes : ~(a = p[1] /\ tok[1] = p[2])
  BY <1>1
<1>3. \A b : b \in {"profile", "type"} => <<b, "EOL">> \in Completes
  BY DEF Completes
<1>4. /\ <<"program", "SOURCECODE">> \in Completes /\ <<"path", "DIRCLOSE">> \in Completes
      /\ <<"program", "END">> \in Completes /\ <<"include", "ERROR">> \in Completes
  BY DEF Completes
<1> QED
  BY <1>1, <1>2, <1>3, <1>4 DEF Ahead

\* The token of an item and the start condition after it.
Gives(item, tok, md) == TokenOf(item) = tok /\ ModeAfter(item) = md

CodeGives(item) ==
  \/ item[1] \in SourceKinds /\ Gives(item, <<"SOURCECODE", <<item[1]>>>>, "CODE")
  \/ item[1] = "{%" /\ Gives(item, <<"DIROPEN", <<>>>>, "DIRECTIVE")

\* The items of each start condition, their tokens, and the start condition after them.
LEMMA ScannedCode ==
  ASSUME NEW item \in CodeItems, mode \in {"INITIAL", "CODE"} PROVE CodeGives(item)
<1>1. item[1] \in SourceKinds \/ item[1] = "{%"
  <2>1. PICK k \in SourceKinds \cup {"{%"} : item = <<k, <<>>>>
    BY DEF CodeItems, Plain
  <2> QED
    BY <2>1
<1>2. CASE item[1] \in SourceKinds
  BY <1>2 DEF CodeGives, Gives, TokenOf, ModeAfter, SourceKinds
<1>3. CASE item[1] = "{%"
  BY <1>3 DEF CodeGives, Gives, TokenOf, ModeAfter, SourceKinds
<1> QED
  BY <1>1, <1>2, <1>3

LEMMA ScannedInitial ==
  ASSUME NEW item \in Items[mode], mode = "INITIAL"
  PROVE  \/ item[1] = "newline" /\ Gives(item, NoToken, "INITIAL")
         \/ item[1] = "#version" /\ Gives(item, <<"VERSION", <<>>>>, "VERSION_DIRECTIVE")
         \/ CodeGives(item)
<1>1. item[1] = "newline" \/ item[1] = "#version" \/ item \in CodeItems
  BY DEF Items, Plain
<1>2. ASSUME item[1] = "newline" PROVE Gives(item, NoToken, "INITIAL")
  <2>1. ModeAfter(item) = "INITIAL"
    BY <1>2 DEF ModeAfter, SourceKinds
  <2>2. TokenOf(item) = NoToken
    BY <1>2 DEF TokenOf, SourceKinds
  <2> QED
    BY <2>1, <2>2 DEF Gives
<1>3. CASE item[1] = "#version"
  BY <1>3 DEF Gives, TokenOf, ModeAfter, SourceKinds
<1> QED
  BY <1>1, <1>2, <1>3, ScannedCode

LEMMA ScannedVersion ==
  ASSUME NEW item \in Items[mode], mode = "VERSION_DIRECTIVE"
  PROVE  \/ item[1] = "newline" /\ Gives(item, <<"EOL", <<>>>>, "CODE")
         \/ item[1] = "number" /\ Gives(item, <<"INTLIT", <<>>>>, "VERSION_DIRECTIVE")
         \/ item[1] = "mark" /\ Gives(item, <<"undefined", <<>>>>, "VERSION_DIRECTIVE")
         \/ \E w \in Identifiers :
              item = <<"identifier", <<w>>>> /\ Gives(item, <<"IDENT", <<w>>>>, "VERSION_DIRECTIVE")
<1>1. item[1] \in {"newline", "number", "mark"} \/ \E w \in Identifiers : item = <<"identifier", <<w>>>>
  BY DEF Items, Plain, Words
<1>2. CASE item[1] = "newline"
  BY <1>2 DEF Gives, TokenOf, ModeAfter, SourceKinds
<1>3. CASE item[1] = "number"
  BY <1>3 DEF Gives, TokenOf, ModeAfter, SourceKinds
<1>4. CASE item[1] = "mark"
  BY <1>4 DEF Gives, TokenOf, ModeAfter, SourceKinds
<1>5. ASSUME NEW w \in Identifiers, item = <<"identifier", <<w>>>>
      PROVE  Gives(item, <<"IDENT", <<w>>>>, "VERSION_DIRECTIVE")
  BY <1>5 DEF Gives, TokenOf, ModeAfter, SourceKinds
<1> QED
  BY <1>1, <1>2, <1>3, <1>4, <1>5

LEMMA ScannedDirective ==
  ASSUME NEW item \in Items[mode], mode = "DIRECTIVE"
  PROVE  \/ item[1] = "stray" /\ Gives(item, NoToken, "DIRECTIVE")
         \/ item[1] = "include" /\ Gives(item, <<"DIRECTIVE_INCLUDE", <<>>>>, "DIRECTIVE")
         \/ item[1] = "%}" /\ Gives(item, <<"DIRCLOSE", <<>>>>, "CODE")
         \/ item[1] = "identifier" /\ Gives(item, <<"IDENT", item[2]>>, "DIRECTIVE") /\ item[2] \in Seq(Names)
         \/ /\ item[1] = "literal" /\ item[2] \in Literals /\ Unescape(item[2]).ok
            /\ Gives(item, <<"STRLIT", Unescape(item[2]).s>>, "DIRECTIVE")
         \/ /\ item[1] = "literal" /\ ~Unescape(item[2]).ok
            /\ Gives(item, <<"ERROR", <<>>>>, "DIRECTIVE")
<1>1. \/ item[1] \in {"stray", "include", "%}"}
      \/ \E w \in Identifiers : item = <<"identifier", <<w>>>>
      \/ item[1] = "literal" /\ item[2] \in Literals
  <2>1. Items[mode] = {Plain("include"), Plain("%}"), Plain("stray")} \cup Words
                        \cup {<<"literal", s>> : s \in Literals}
    BY DEF Items
  <2>2. \/ item \in {Plain("include"), Plain("%}"), Plain("stray")}
        \/ \E w \in Identifiers : item = <<"identifier", <<w>>>>
        \/ \E s \in Literals : item = <<"literal", s>>
    BY <2>1 DEF Words
  <2>3. ASSUME NEW k \in {"include", "%}", "stray"}, item = Plain(k) PROVE item[1] = k
    BY <2>3 DEF Plain
  <2>4. ASSUME NEW s \in Literals, item = <<"literal", s>>
        PROVE  item[1] = "literal" /\ item[2] \in Literals
    BY <2>4
  <2> QED
    BY <2>2, <2>3, <2>4
<1>2. ASSUME item[1] = "stray" PROVE Gives(item, NoToken, "DIRECTIVE")
  BY <1>2 DEF Gives, TokenOf, ModeAfter, SourceKinds
<1>3. ASSUME item[1] = "include" PROVE Gives(item, <<"DIRECTIVE_INCLUDE", <<>>>>, "DIRECTIVE")
  BY <1>3 DEF Gives, TokenOf, ModeAfter, SourceKinds
<1>4. ASSUME item[1] = "%}" PROVE Gives(item, <<"DIRCLOSE", <<>>>>, "CODE")
  BY <1>4 DEF Gives, TokenOf, ModeAfter, SourceKinds
<1>5. ASSUME NEW w \in Identifiers, item = <<"identifier", <<w>>>>
      PROVE  Gives(item, <<"IDENT", item[2]>>, "DIRECTIVE") /\ item[2] \in Seq(Names)
  <2>1. w \in Names
    BY DEF Names
  <2>2. Gives(item, <<"IDENT", item[2]>>, "DIRECTIVE")
    BY <1>5 DEF Gives, TokenOf, ModeAfter, SourceKinds
  <2> QED
    BY <1>5, <2>1, <2>2
<1>6. ASSUME item[1] = "literal", Unescape(item[2]).ok
      PROVE  Gives(item, <<"STRLIT", Unescape(item[2]).s>>, "DIRECTIVE")
  BY <1>6 DEF Gives, TokenOf, ModeAfter, SourceKinds
<1>7. ASSUME item[1] = "literal", ~Unescape(item[2]).ok
      PROVE  Gives(item, <<"ERROR", <<>>>>, "DIRECTIVE")
  BY <1>7 DEF Gives, TokenOf, ModeAfter, SourceKinds
<1>8. CASE item[1] \in {"stray", "include", "%}"}
  BY <1>2, <1>3, <1>4, <1>8
<1>9. CASE \E w \in Identifiers : item = <<"identifier", <<w>>>>
  BY <1>5, <1>9
<1>10. CASE item[1] = "literal" /\ item[2] \in Literals
  BY <1>6, <1>7, <1>10
<1> QED
  BY <1>1, <1>8, <1>9, <1>10

\* The record of a meaning whose fields are known.
LEMMA ReadingFields ==
  ASSUME NEW a \in Positions, NEW h, NEW ss, NEW ty
  PROVE  /\ Reading(a, h, ss, ty).at = Place[a]
         /\ Reading(a, h, ss, ty).sections = ss
         /\ a # "type" => Reading(a, h, ss, ty).type = ty
         /\ a = "type" => Reading(a, h, ss, ty).type = h[2]
         /\ a = "path" => Reading(a, h, ss, ty).path = h
         /\ a # "path" => Reading(a, h, ss, ty).path = <<>>
  BY DEF Reading

\* A reading is a meaning, and not none.
LEMMA ReadingIsMeaning ==
  ASSUME NEW a \in Positions, NEW h, Holds(a, h), NEW ss \in Seq(Pieces),
         NEW ty \in ShaderTypes \cup {"generic"}
  PROVE  Reading(a, h, ss, ty) \in Meanings /\ Reading(a, h, ss, ty) # NoMeaning
<1>1. Place[a] \in {"blank", "version", "number", "profile", "typed",
                    "body", "directive", "named", "closing"}
  BY DEF Place, Positions
<1>2. (IF a = "type" THEN h[2] ELSE ty) \in ShaderTypes \cup {"generic"}
  BY DEF Holds
<1>3. (IF a = "path" THEN h ELSE <<>>) \in Seq(Names)
  BY DEF Holds
<1>4. Reading(a, h, ss, ty) \in Meanings
  BY <1>1, <1>2, <1>3 DEF Reading, Meanings
<1> QED
  BY <1>4, TextAssumption

\* What an item adds to the meaning, at each place.

\* What each item adds to the reading at each position, as Extend has it.
LEMMA ReadBlank ==
  ASSUME NEW ss, NEW ty, NEW item
  PROVE  LET m == Reading("start", <<>>, ss, ty)
         IN  /\ item[1] = "newline" => Extend(m, item) = m
             /\ item[1] = "#version" => Extend(m, item) = Reading("version", <<>>, ss, ty)
             /\ item[1] \notin {"newline", "#version"} => Extend(m, item) = NoMeaning
  BY DEF Reading, Place, Extend

LEMMA ReadVersion ==
  ASSUME NEW ss, NEW ty, NEW item
  PROVE  LET m == Reading("version", <<>>, ss, ty)
         IN  /\ item[1] = "number" => Extend(m, item) = Reading("number", <<>>, ss, ty)
             /\ item[1] # "number" => Extend(m, item) = NoMeaning
  BY DEF Reading, Place, Extend

LEMMA ReadNumber ==
  ASSUME NEW ss, NEW ty, NEW item
  PROVE  LET m == Reading("number", <<>>, ss, ty)
         IN  /\ item[1] = "identifier" => Extend(m, item) = Reading("profile", item[2], ss, ty)
             /\ item[1] # "identifier" => Extend(m, item) = NoMeaning
  BY DEF Reading, Place, Extend

LEMMA ReadProfile ==
  ASSUME NEW h, NEW ss, NEW ty, NEW item
  PROVE  LET m == Reading("profile", h, ss, ty)
         IN  /\ item[1] = "newline" => Extend(m, item) = Reading("program", <<>>, Append(ss, Version(ty)), ty)
             /\ item[1] \notin {"newline", "identifier"} => Extend(m, item) = NoMeaning
  BY DEF Reading, Place, Extend, Extended

\* Meanings are equal field by field.
LEMMA SameMeaning ==
  ASSUME NEW m \in Meanings, NEW n \in Meanings,
         m.at = n.at, m.sections = n.sections, m.type = n.type, m.path = n.path
  PROVE  m = n
  BY DEF Meanings

\* A profile on the stack and the name of a type.
LEMMA TwoHeld ==
  ASSUME NEW h, Holds("profile", h), NEW w \in ShaderTypes
  PROVE  Holds("type", h \o <<w>>) /\ (h \o <<w>>)[2] = w
<1>1. h \in Seq(Names) /\ Len(h) = 1
  BY DEF Holds
<1>2. w \in Names
  BY DEF Names
<1>3. <<w>> \in Seq(Names) /\ Len(<<w>>) = 1 /\ <<w>>[1] = w
  BY <1>2
<1>4. h \o <<w>> \in Seq(Names) /\ Len(h \o <<w>>) = 2 /\ (h \o <<w>>)[2] = w
  BY <1>1, <1>3, ConcatProperties
<1> QED
  BY <1>4 DEF Holds

LEMMA ReadTypeName ==
  ASSUME NEW h, Holds("profile", h), NEW ss \in Seq(Pieces),
         NEW ty \in ShaderTypes \cup {"generic"},
         NEW w \in Names, NEW item, item = <<"identifier", <<w>>>>
  PROVE  /\ w \in ShaderTypes =>
              Extend(Reading("profile", h, ss, ty), item) = Reading("type", h \o <<w>>, ss, ty)
         /\ w \notin ShaderTypes => Extend(Reading("profile", h, ss, ty), item) = NoMeaning
<1>1. item[1] = "identifier" /\ item[2][1] = w
  OBVIOUS
<1>2. "profile" \in Positions /\ "type" \in Positions
  BY DEF Positions
<1>3. PICK m : m = Reading("profile", h, ss, ty)
  OBVIOUS
<1>4. m \in Meanings /\ m.at = "profile" /\ m.sections = ss /\ m.path = <<>>
  <2>1. m \in Meanings
    BY <1>2, <1>3, ReadingIsMeaning
  <2>2. m.at = "profile" /\ m.sections = ss /\ m.path = <<>>
    BY <1>2, <1>3, ReadingFields DEF Place
  <2> QED
    BY <2>1, <2>2
<1>5. CASE w \in ShaderTypes
  <2>1. Extend(m, item) = [m EXCEPT !.at = "typed", !.type = item[2][1]]
    BY <1>1, <1>4, <1>5 DEF Extend
  <2>2. Extend(m, item) = [m EXCEPT !.at = "typed", !.type = w]
    BY <1>1, <2>1
  <2>3. /\ Extend(m, item) \in Meanings
        /\ Extend(m, item).at = "typed" /\ Extend(m, item).type = w
        /\ Extend(m, item).sections = ss /\ Extend(m, item).path = <<>>
    BY <1>4, <1>5, <2>2 DEF Meanings
  <2>4. /\ Holds("type", h \o <<w>>) /\ (h \o <<w>>)[2] = w
    BY <1>5, TwoHeld
  <2>5. /\ Reading("type", h \o <<w>>, ss, ty) \in Meanings
        /\ Reading("type", h \o <<w>>, ss, ty).at = "typed"
        /\ Reading("type", h \o <<w>>, ss, ty).type = w
        /\ Reading("type", h \o <<w>>, ss, ty).sections = ss
        /\ Reading("type", h \o <<w>>, ss, ty).path = <<>>
    <3>1. PICK g : g = h \o <<w>>
      OBVIOUS
    <3>2. Holds("type", g) /\ g[2] = w
      BY <2>4, <3>1
    <3>3. Reading("type", g, ss, ty) \in Meanings
      BY <1>2, <3>2, ReadingIsMeaning
    <3>4. /\ Reading("type", g, ss, ty).at = "typed"
          /\ Reading("type", g, ss, ty).type = w
          /\ Reading("type", g, ss, ty).sections = ss
          /\ Reading("type", g, ss, ty).path = <<>>
      BY <3>2 DEF Reading, Place
    <3> QED
      BY <3>1, <3>3, <3>4
  <2>6. Extend(m, item) = Reading("type", h \o <<w>>, ss, ty)
    BY <2>3, <2>5, SameMeaning
  <2> QED
    BY <1>3, <1>5, <2>6
<1>6. CASE w \notin ShaderTypes
  <2>1. Extend(m, item) = NoMeaning
    BY <1>1, <1>4, <1>6 DEF Extend
  <2> QED
    BY <1>3, <1>6, <2>1
<1> QED
  BY <1>5, <1>6

LEMMA ReadType ==
  ASSUME NEW h, NEW ss, NEW ty, NEW item
  PROVE  LET m == Reading("type", h, ss, ty)
         IN  /\ item[1] = "newline" => Extend(m, item) = Reading("program", <<>>, Append(ss, Version(h[2])), h[2])
             /\ item[1] # "newline" => Extend(m, item) = NoMeaning
  BY DEF Reading, Place, Extend, Extended

LEMMA ReadBody ==
  ASSUME NEW ss, NEW ty, NEW item
  PROVE  LET m == Reading("program", <<>>, ss, ty)
         IN  /\ item[1] \in SourceKinds =>
                  Extend(m, item) = Reading("program", <<>>, Append(ss, <<"source", <<item[1]>>>>), ty)
             /\ item[1] = "{%" => Extend(m, item) = Reading("open", <<>>, ss, ty)
  BY DEF Reading, Place, Extend, Extended, SourceKinds

LEMMA ReadDirective ==
  ASSUME NEW ss, NEW ty, NEW item
  PROVE  LET m == Reading("open", <<>>, ss, ty)
         IN  /\ item[1] = "include" => Extend(m, item) = Reading("include", <<>>, ss, ty)
             /\ item[1] = "stray" => Extend(m, item) = m
             /\ item[1] \notin {"include", "stray"} => Extend(m, item) = NoMeaning
  BY DEF Reading, Place, Extend

LEMMA ReadNamed ==
  ASSUME NEW ss, NEW ty, NEW item
  PROVE  LET m == Reading("include", <<>>, ss, ty)
         IN  /\ item[1] = "literal" /\ Unescape(item[2]).ok =>
                  Extend(m, item) = Reading("path", Unescape(item[2]).s, ss, ty)
             /\ item[1] = "stray" => Extend(m, item) = m
             /\ item[1] # "stray" /\ ~(item[1] = "literal" /\ Unescape(item[2]).ok) => Extend(m, item) = NoMeaning
  BY DEF Reading, Place, Extend

LEMMA ReadClosing ==
  ASSUME NEW h, NEW ss, NEW ty, NEW item
  PROVE  LET m == Reading("path", h, ss, ty)
         IN  /\ item[1] = "%}" => Extend(m, item) = Reading("program", <<>>, Append(ss, <<"include", h>>), ty)
             /\ item[1] = "stray" => Extend(m, item) = m
             /\ item[1] \notin {"%}", "stray"} => Extend(m, item) = NoMeaning
  BY DEF Reading, Place, Extend, Extended

\* What holds after an item was scanned: it gave nothing, or it gave a token.
Scanned(a, h, ss, ty, tok, md, mn) ==
  /\ tok \in Pieces \cup {NoToken}
  /\ tok = NoToken => Even(a, h, ss, ty, md, mn, FALSE)
  /\ tok # NoToken => Ahead(a, h, ss, ty, tok, md, mn, FALSE)

\* A kind and a content make a token.
LEMMA PieceIsToken ==
  ASSUME NEW k \in Kinds, NEW c \in Seq(Names)
  PROVE  <<k, c>> \in Pieces /\ <<k, c>> # NoToken /\ <<k, c>>[1] = k /\ <<k, c>>[2] = c
<1>1. <<k, c>> \in Pieces
  BY DEF Pieces
<1> QED
  BY <1>1, TextAssumption

LEMMA Nothing == <<>> \in Seq(Names) /\ <<>> \o <<>> = <<>>
  OBVIOUS

\* A token that cannot stand there.
LEMMA ScannedError ==
  ASSUME NEW a \in Positions, NEW h, NEW ss, NEW ty, NEW k \in Kinds, NEW c \in Seq(Names),
         k \notin Taken(a), NEW md
  PROVE  Scanned(a, h, ss, ty, <<k, c>>, md, NoMeaning)
<1>1. PICK tok : tok = <<k, c>>
  OBVIOUS
<1>2. tok \in Pieces /\ tok # NoToken /\ tok[1] = k
  BY <1>1, PieceIsToken
<1>3. Ahead(a, h, ss, ty, tok, md, NoMeaning, FALSE)
  BY <1>2, AheadOfError
<1> QED
  BY <1>1, <1>2, <1>3 DEF Scanned

\* A token that only goes on the stack.
LEMMA ScannedPush ==
  ASSUME NEW p \in Pushes, NEW h, NEW ss, NEW ty, NEW c \in Seq(Names), NEW md,
         p[2] \in Kinds, p[3] = "type" => c[1] \in ShaderTypes,
         md = ModeOf(p[3]), Holds(p[3], h \o c), p[3] \notin Begun => ty = "generic"
  PROVE  Scanned(p[1], h, ss, ty, <<p[2], c>>, md, Reading(p[3], h \o c, ss, ty))
<1>1. PICK tok : tok = <<p[2], c>>
  OBVIOUS
<1>2. tok \in Pieces /\ tok # NoToken /\ tok[1] = p[2] /\ tok[2] = c
  BY <1>1, PieceIsToken
<1>3. PICK mn : mn = Reading(p[3], h \o c, ss, ty)
  OBVIOUS
<1>4. Even(p[3], h \o tok[2], ss, ty, md, mn, FALSE)
  BY <1>2, <1>3 DEF Even, Suits
<1>5. Ahead(p[1], h, ss, ty, tok, md, mn, FALSE)
  BY <1>2, <1>4, AheadOfPush
<1> QED
  BY <1>1, <1>2, <1>3, <1>5 DEF Scanned

\* A token without content that only goes on the stack.
LEMMA ScannedPlainPush ==
  ASSUME NEW p \in Pushes, NEW ss, NEW ty, NEW md,
         p[3] \in {"version", "number", "open", "include"},
         md = ModeOf(p[3]), p[3] \notin Begun => ty = "generic"
  PROVE  Scanned(p[1], <<>>, ss, ty, <<p[2], <<>>>>, md, Reading(p[3], <<>>, ss, ty))
<1>1. p[2] \in Kinds
  BY DEF Pushes, Kinds
<1>2. Holds(p[3], <<>>)
  BY Nothing DEF Holds
<1> QED
  BY <1>1, <1>2, Nothing, ScannedPush

\* A token that ends a rule.
LEMMA ScannedRule ==
  ASSUME NEW a, NEW h, NEW ss, NEW ty, NEW k \in Kinds, NEW c \in Seq(Names), NEW s2, NEW t2,
         \/ a \in {"profile", "type"} /\ k = "EOL" /\ s2 = Append(ss, Version(TypeOf(h))) /\ t2 = TypeOf(h)
         \/ a = "program" /\ h = <<>> /\ k = "SOURCECODE" /\ s2 = Append(ss, <<"source", c>>) /\ t2 = ty
         \/ a = "path" /\ k = "DIRCLOSE" /\ s2 = Append(ss, <<"include", h>>) /\ t2 = ty
  PROVE  Scanned(a, h, ss, ty, <<k, c>>, "CODE", Reading("program", <<>>, s2, t2))
<1>1. PICK tok : tok = <<k, c>>
  OBVIOUS
<1>2. tok \in Pieces /\ tok # NoToken /\ tok[1] = k /\ tok[2] = c
  BY <1>1, PieceIsToken
<1>3. PICK mn : mn = Reading("program", <<>>, s2, t2)
  OBVIOUS
<1>4. Even("program", <<>>, s2, t2, "CODE", mn, FALSE)
  BY <1>3, Nothing DEF Even, Suits, ModeOf, Holds, Begun
<1>5. Ahead(a, h, ss, ty, tok, "CODE", mn, FALSE)
  <2>1. CASE a \in {"profile", "type"} /\ k = "EOL" /\ s2 = Append(ss, Version(TypeOf(h))) /\ t2 = TypeOf(h)
    BY <1>2, <1>4, <2>1, AheadOfRule
  <2>2. CASE a = "program" /\ h = <<>> /\ k = "SOURCECODE" /\ s2 = Append(ss, <<"source", c>>) /\ t2 = ty
    BY <1>2, <1>4, <2>2, AheadOfRule
  <2>3. CASE a = "path" /\ k = "DIRCLOSE" /\ s2 = Append(ss, <<"include", h>>) /\ t2 = ty
    BY <1>2, <1>4, <2>3, AheadOfRule
  <2> QED
    BY <2>1, <2>2, <2>3
<1> QED
  BY <1>1, <1>2, <1>3, <1>5 DEF Scanned

\* An item that means nothing and gives nothing.
LEMMA ScannedSame ==
  ASSUME NEW a, NEW h, NEW ss, NEW ty, NEW md, NEW mn, Even(a, h, ss, ty, md, mn, FALSE)
  PROVE  Scanned(a, h, ss, ty, NoToken, md, mn)
  BY DEF Scanned

-----------------------------------------------------------------------------

ScanGives(a, h, ss, ty, item) ==
  Scanned(a, h, ss, ty, TokenOf(item), ModeAfter(item), Extend(Reading(a, h, ss, ty), item))

\* Whatever is scanned before the version line.
LEMMA AtStart ==
  ASSUME NEW h, NEW ss \in Seq(Pieces), NEW ty \in ShaderTypes \cup {"generic"},
         Even("start", h, ss, ty, mode, Reading("start", h, ss, ty), FALSE), NEW item \in Items[mode]
  PROVE  ScanGives("start", h, ss, ty, item)
<1> DEFINE m == Reading("start", <<>>, ss, ty)
<1>1. mode = "INITIAL" /\ h = <<>> /\ ty = "generic"
  BY DEF Even, Suits, ModeOf, Holds, Begun
<1>2. CASE item[1] = "newline" /\ Gives(item, NoToken, "INITIAL")
  <2>1. Extend(m, item) = m
    BY <1>2, ReadBlank
  <2> QED
    BY <1>1, <1>2, <2>1, ScannedSame DEF ScanGives, Gives
<1>3. CASE item[1] = "#version" /\ Gives(item, <<"VERSION", <<>>>>, "VERSION_DIRECTIVE")
  <2>1. Extend(m, item) = Reading("version", <<>>, ss, ty)
    BY <1>3, ReadBlank
  <2>2. PICK p \in Pushes : p = <<"start", "VERSION", "version">>
    BY DEF Pushes
  <2>3. Scanned(p[1], <<>>, ss, ty, <<p[2], <<>>>>, "VERSION_DIRECTIVE", Reading(p[3], <<>>, ss, ty))
    BY <1>1, <2>2, ScannedPlainPush DEF ModeOf
  <2> QED
    BY <1>1, <1>3, <2>1, <2>2, <2>3 DEF ScanGives, Gives
<1>4. CASE CodeGives(item)
  <2>1. PICK k, c : /\ k \in {"SOURCECODE", "DIROPEN"} /\ c \in Seq(Names)
                    /\ TokenOf(item) = <<k, c>> /\ item[1] \notin {"newline", "#version"}
    <3>1. CASE item[1] \in SourceKinds /\ Gives(item, <<"SOURCECODE", <<item[1]>>>>, "CODE")
      <4>1. item[1] \in Names
        BY <3>1 DEF Names
      <4>2. <<item[1]>> \in Seq(Names)
        BY <4>1
      <4>3. item[1] \notin {"newline", "#version"}
        BY <3>1 DEF SourceKinds
      <4> QED
        BY <3>1, <4>2, <4>3 DEF Gives
    <3>2. CASE item[1] = "{%" /\ Gives(item, <<"DIROPEN", <<>>>>, "DIRECTIVE")
      BY <3>2, Nothing DEF Gives
    <3> QED
      BY <1>4, <3>1, <3>2 DEF CodeGives
  <2>2. Extend(m, item) = NoMeaning
    BY <2>1, ReadBlank
  <2>3. k \in Kinds /\ k \notin Taken("start") /\ "start" \in Positions
    BY <2>1 DEF Kinds, Taken, Positions
  <2> QED
    BY <1>1, <2>1, <2>2, <2>3, ScannedError DEF ScanGives
<1> QED
  BY <1>1, <1>2, <1>3, <1>4, ScannedInitial

\* In the version line: a token of it, or one that is in the wrong place.
LEMMA VersionTokens ==
  ASSUME NEW item \in Items[mode], mode = "VERSION_DIRECTIVE"
  PROVE  \/ item[1] = "newline" /\ Gives(item, <<"EOL", <<>>>>, "CODE")
         \/ item[1] = "number" /\ Gives(item, <<"INTLIT", <<>>>>, "VERSION_DIRECTIVE")
         \/ item[1] = "mark" /\ Gives(item, <<"undefined", <<>>>>, "VERSION_DIRECTIVE")
         \/ \E w \in Names :
              /\ item = <<"identifier", <<w>>>> /\ item[1] = "identifier" /\ item[2] = <<w>>
              /\ <<w>> \in Seq(Names) /\ Gives(item, <<"IDENT", <<w>>>>, "VERSION_DIRECTIVE")
<1>1. ASSUME NEW w \in Identifiers, item = <<"identifier", <<w>>>>
      PROVE  w \in Names /\ item[1] = "identifier" /\ item[2] = <<w>> /\ <<w>> \in Seq(Names)
  <2>1. w \in Names
    BY DEF Names
  <2> QED
    BY <1>1, <2>1
<1> QED
  BY <1>1, ScannedVersion

\* A token in the wrong place leaves no meaning.
LEMMA Misplaced ==
  ASSUME NEW a \in Positions, NEW h, NEW ss, NEW ty, NEW item,
         NEW k \in Kinds, NEW c \in Seq(Names), NEW md, Gives(item, <<k, c>>, md), k \notin Taken(a),
         Extend(Reading(a, h, ss, ty), item) = NoMeaning
  PROVE  ScanGives(a, h, ss, ty, item)
  BY ScannedError DEF ScanGives, Gives

\* Whatever is scanned after #version,
LEMMA AtVersion ==
  ASSUME NEW h, NEW ss \in Seq(Pieces), NEW ty \in ShaderTypes \cup {"generic"},
         Even("version", h, ss, ty, mode, Reading("version", h, ss, ty), FALSE), NEW item \in Items[mode]
  PROVE  ScanGives("version", h, ss, ty, item)
<1>1. /\ mode = "VERSION_DIRECTIVE" /\ h = <<>> /\ ty = "generic" /\ "version" \in Positions
      /\ Taken("version") = {"INTLIT"}
      /\ {"EOL", "undefined", "IDENT"} \subseteq Kinds
  BY DEF Even, Suits, ModeOf, Holds, Begun, Positions, Taken, Kinds
<1>2. CASE item[1] = "newline" /\ Gives(item, <<"EOL", <<>>>>, "CODE")
  <2>1. Extend(Reading("version", h, ss, ty), item) = NoMeaning
    BY <1>1, <1>2, ReadVersion
  <2> QED
    BY <1>1, <1>2, <2>1, Nothing, Misplaced
<1>3. CASE item[1] = "number" /\ Gives(item, <<"INTLIT", <<>>>>, "VERSION_DIRECTIVE")
  <2>1. Extend(Reading("version", h, ss, ty), item) = Reading("number", <<>>, ss, ty)
    BY <1>1, <1>3, ReadVersion
  <2>2. PICK p \in Pushes : p = <<"version", "INTLIT", "number">>
    BY DEF Pushes
  <2>4. p[3] = "number" /\ ModeOf("number") = "VERSION_DIRECTIVE"
    BY <2>2 DEF ModeOf
  <2>3. Scanned(p[1], <<>>, ss, ty, <<p[2], <<>>>>, "VERSION_DIRECTIVE", Reading(p[3], <<>>, ss, ty))
    BY <1>1, <2>4, ScannedPlainPush
  <2> QED
    BY <1>1, <1>3, <2>1, <2>2, <2>3 DEF ScanGives, Gives
<1>4. CASE item[1] = "mark" /\ Gives(item, <<"undefined", <<>>>>, "VERSION_DIRECTIVE")
  <2>1. Extend(Reading("version", h, ss, ty), item) = NoMeaning
    BY <1>1, <1>4, ReadVersion
  <2> QED
    BY <1>1, <1>4, <2>1, Nothing, Misplaced
<1>5. ASSUME NEW w \in Names, item[1] = "identifier", <<w>> \in Seq(Names),
             Gives(item, <<"IDENT", <<w>>>>, "VERSION_DIRECTIVE")
      PROVE  ScanGives("version", h, ss, ty, item)
  <2>1. Extend(Reading("version", h, ss, ty), item) = NoMeaning
    BY <1>1, <1>5, ReadVersion
  <2> QED
    BY <1>1, <1>5, <2>1, Misplaced
<1> QED
  BY <1>1, <1>2, <1>3, <1>4, <1>5, VersionTokens

\* after its number,
LEMMA AtNumber ==
  ASSUME NEW h, NEW ss \in Seq(Pieces), NEW ty \in ShaderTypes \cup {"generic"},
         Even("number", h, ss, ty, mode, Reading("number", h, ss, ty), FALSE), NEW item \in Items[mode]
  PROVE  ScanGives("number", h, ss, ty, item)
<1>1. /\ mode = "VERSION_DIRECTIVE" /\ h = <<>> /\ ty = "generic" /\ "number" \in Positions
      /\ Taken("number") = {"IDENT"}
      /\ {"EOL", "undefined", "INTLIT"} \subseteq Kinds
  BY DEF Even, Suits, ModeOf, Holds, Begun, Positions, Taken, Kinds
<1>2. CASE item[1] = "newline" /\ Gives(item, <<"EOL", <<>>>>, "CODE")
  <2>1. Extend(Reading("number", h, ss, ty), item) = NoMeaning
    BY <1>1, <1>2, ReadNumber
  <2> QED
    BY <1>1, <1>2, <2>1, Nothing, Misplaced
<1>3. CASE item[1] = "number" /\ Gives(item, <<"INTLIT", <<>>>>, "VERSION_DIRECTIVE")
  <2>1. Extend(Reading("number", h, ss, ty), item) = NoMeaning
    BY <1>1, <1>3, ReadNumber
  <2> QED
    BY <1>1, <1>3, <2>1, Nothing, Misplaced
<1>4. CASE item[1] = "mark" /\ Gives(item, <<"undefined", <<>>>>, "VERSION_DIRECTIVE")
  <2>1. Extend(Reading("number", h, ss, ty), item) = NoMeaning
    BY <1>1, <1>4, ReadNumber
  <2> QED
    BY <1>1, <1>4, <2>1, Nothing, Misplaced
<1>5. ASSUME NEW w \in Names, item[1] = "identifier", item[2] = <<w>>, <<w>> \in Seq(Names),
             Gives(item, <<"IDENT", <<w>>>>, "VERSION_DIRECTIVE")
      PROVE  ScanGives("number", h, ss, ty, item)
  <2>1. Extend(Reading("number", h, ss, ty), item) = Reading("profile", <<w>>, ss, ty)
    BY <1>1, <1>5, ReadNumber
  <2>2. PICK p \in Pushes : p = <<"number", "IDENT", "profile">>
    BY DEF Pushes
  <2>3. <<>> \o <<w>> = <<w>> /\ Len(<<w>>) = 1
    OBVIOUS
  <2>4. Holds("profile", <<>> \o <<w>>)
    BY <1>5, <2>3 DEF Holds
  <2>5. p[2] \in Kinds /\ p[3] # "type" /\ ModeOf(p[3]) = "VERSION_DIRECTIVE"
    BY <2>2 DEF Kinds, ModeOf
  <2>6. Scanned(p[1], <<>>, ss, ty, <<p[2], <<w>>>>, "VERSION_DIRECTIVE", Reading(p[3], <<>> \o <<w>>, ss, ty))
    BY <1>1, <1>5, <2>2, <2>4, <2>5, ScannedPush
  <2> QED
    BY <1>1, <1>5, <2>1, <2>2, <2>3, <2>6 DEF ScanGives, Gives
<1> QED
  BY <1>1, <1>2, <1>3, <1>4, <1>5, VersionTokens

\* after its profile,
LEMMA AtProfile ==
  ASSUME NEW h, NEW ss \in Seq(Pieces), NEW ty \in ShaderTypes \cup {"generic"},
         Even("profile", h, ss, ty, mode, Reading("profile", h, ss, ty), FALSE), NEW item \in Items[mode]
  PROVE  ScanGives("profile", h, ss, ty, item)
<1>1. /\ mode = "VERSION_DIRECTIVE" /\ ty = "generic" /\ "profile" \in Positions
      /\ Taken("profile") = {"IDENT", "EOL"}
      /\ {"EOL", "undefined", "INTLIT", "IDENT"} \subseteq Kinds
      /\ Holds("profile", h)
  BY DEF Even, Suits, ModeOf, Begun, Positions, Taken, Kinds
<1>2. CASE item[1] = "newline" /\ Gives(item, <<"EOL", <<>>>>, "CODE")
  <2>1. Extend(Reading("profile", h, ss, ty), item) = Reading("program", <<>>, Append(ss, Version(ty)), ty)
    BY <1>2, ReadProfile
  <2>2. TypeOf(h) = ty
    BY <1>1 DEF TypeOf, Holds
  <2>3. Scanned("profile", h, ss, ty, <<"EOL", <<>>>>, "CODE", Reading("program", <<>>, Append(ss, Version(ty)), ty))
    BY <1>1, <2>2, Nothing, ScannedRule
  <2> QED
    BY <1>2, <2>1, <2>3 DEF ScanGives, Gives
<1>3. CASE item[1] = "number" /\ Gives(item, <<"INTLIT", <<>>>>, "VERSION_DIRECTIVE")
  <2>1. Extend(Reading("profile", h, ss, ty), item) = NoMeaning
    BY <1>3, ReadProfile
  <2> QED
    BY <1>1, <1>3, <2>1, Nothing, Misplaced
<1>4. CASE item[1] = "mark" /\ Gives(item, <<"undefined", <<>>>>, "VERSION_DIRECTIVE")
  <2>1. Extend(Reading("profile", h, ss, ty), item) = NoMeaning
    BY <1>4, ReadProfile
  <2> QED
    BY <1>1, <1>4, <2>1, Nothing, Misplaced
<1>5. ASSUME NEW w \in Names, item = <<"identifier", <<w>>>>, <<w>> \in Seq(Names),
             Gives(item, <<"IDENT", <<w>>>>, "VERSION_DIRECTIVE")
      PROVE  ScanGives("profile", h, ss, ty, item)
  <2>1. PICK p \in Pushes : p = <<"profile", "IDENT", "type">>
    BY DEF Pushes
  <2>2. CASE w \in ShaderTypes
    <3>1. Extend(Reading("profile", h, ss, ty), item) = Reading("type", h \o <<w>>, ss, ty)
      BY <1>1, <1>5, <2>2, ReadTypeName
    <3>2. Holds("type", h \o <<w>>)
      BY <1>1, <2>2, TwoHeld
    <3>3. p[2] \in Kinds /\ <<w>>[1] \in ShaderTypes /\ ModeOf(p[3]) = "VERSION_DIRECTIVE"
      BY <2>1, <2>2 DEF Kinds, ModeOf
    <3>4. Scanned(p[1], h, ss, ty, <<p[2], <<w>>>>, "VERSION_DIRECTIVE", Reading(p[3], h \o <<w>>, ss, ty))
      BY <1>1, <1>5, <2>1, <3>2, <3>3, ScannedPush
    <3> QED
      BY <1>5, <2>1, <3>1, <3>4 DEF ScanGives, Gives
  <2>3. CASE w \notin ShaderTypes
    <3>1. Extend(Reading("profile", h, ss, ty), item) = NoMeaning
      BY <1>1, <1>5, <2>3, ReadTypeName
    <3>2. PICK tok : tok = <<"IDENT", <<w>>>>
      OBVIOUS
    <3>3. tok \in Pieces /\ tok # NoToken /\ tok[1] = "IDENT" /\ tok[2] = <<w>> /\ tok[2][1] = w
      <4>1. tok \in Pieces /\ tok # NoToken /\ tok[1] = "IDENT" /\ tok[2] = <<w>>
        BY <1>1, <1>5, <3>2, PieceIsToken
      <4> QED
        BY <4>1
    <3>4. \A q \in Pushes : "profile" = q[1] /\ tok[1] = q[2] => q[3] = "type"
      BY <2>1, <3>3, PushesApart
    <3>5. Ahead("profile", h, ss, ty, tok, "VERSION_DIRECTIVE", NoMeaning, FALSE)
      <4>1. <<"profile", tok[1]>> \in {<<q[1], q[2]>> : q \in Pushes}
        BY <2>1, <3>3
      <4> QED
        BY <2>3, <3>3, <3>4, <4>1 DEF Ahead
    <3>6. Scanned("profile", h, ss, ty, tok, "VERSION_DIRECTIVE", NoMeaning)
      BY <3>3, <3>5 DEF Scanned
    <3> QED
      BY <1>5, <3>1, <3>2, <3>6 DEF ScanGives, Gives
  <2> QED
    BY <2>2, <2>3
<1> QED
  BY <1>1, <1>2, <1>3, <1>4, <1>5, VersionTokens

\* and after the name of the type.
LEMMA AtType ==
  ASSUME NEW h, NEW ss \in Seq(Pieces), NEW ty \in ShaderTypes \cup {"generic"},
         Even("type", h, ss, ty, mode, Reading("type", h, ss, ty), FALSE), NEW item \in Items[mode]
  PROVE  ScanGives("type", h, ss, ty, item)
<1>1. /\ mode = "VERSION_DIRECTIVE" /\ "type" \in Positions
      /\ Taken("type") = {"EOL"}
      /\ {"EOL", "undefined", "INTLIT", "IDENT"} \subseteq Kinds
      /\ Holds("type", h)
  BY DEF Even, Suits, ModeOf, Begun, Positions, Taken, Kinds
<1>2. CASE item[1] = "newline" /\ Gives(item, <<"EOL", <<>>>>, "CODE")
  <2>1. Extend(Reading("type", h, ss, ty), item) = Reading("program", <<>>, Append(ss, Version(h[2])), h[2])
    BY <1>2, ReadType
  <2>2. TypeOf(h) = h[2]
    BY <1>1 DEF TypeOf, Holds
  <2>3. Scanned("type", h, ss, ty, <<"EOL", <<>>>>, "CODE", Reading("program", <<>>, Append(ss, Version(h[2])), h[2]))
    BY <1>1, <2>2, Nothing, ScannedRule
  <2> QED
    BY <1>2, <2>1, <2>3 DEF ScanGives, Gives
<1>3. CASE item[1] = "number" /\ Gives(item, <<"INTLIT", <<>>>>, "VERSION_DIRECTIVE")
  <2>1. Extend(Reading("type", h, ss, ty), item) = NoMeaning
    BY <1>3, ReadType
  <2> QED
    BY <1>1, <1>3, <2>1, Nothing, Misplaced
<1>4. CASE item[1] = "mark" /\ Gives(item, <<"undefined", <<>>>>, "VERSION_DIRECTIVE")
  <2>1. Extend(Reading("type", h, ss, ty), item) = NoMeaning
    BY <1>4, ReadType
  <2> QED
    BY <1>1, <1>4, <2>1, Nothing, Misplaced
<1>5. ASSUME NEW w \in Names, item[1] = "identifier", <<w>> \in Seq(Names),
             Gives(item, <<"IDENT", <<w>>>>, "VERSION_DIRECTIVE")
      PROVE  ScanGives("type", h, ss, ty, item)
  <2>1. Extend(Reading("type", h, ss, ty), item) = NoMeaning
    BY <1>5, ReadType
  <2> QED
    BY <1>1, <1>5, <2>1, Misplaced
<1> QED
  BY <1>1, <1>2, <1>3, <1>4, <1>5, VersionTokens

\* Whatever is scanned between the sections.
LEMMA AtProgram ==
  ASSUME NEW h, NEW ss \in Seq(Pieces), NEW ty \in ShaderTypes \cup {"generic"},
         Even("program", h, ss, ty, mode, Reading("program", h, ss, ty), FALSE), NEW item \in Items[mode]
  PROVE  ScanGives("program", h, ss, ty, item)
<1>1. mode = "CODE" /\ h = <<>>
  BY DEF Even, Suits, ModeOf, Holds
<1>2. CASE item[1] \in SourceKinds /\ Gives(item, <<"SOURCECODE", <<item[1]>>>>, "CODE")
  <2>1. Extend(Reading("program", <<>>, ss, ty), item)
          = Reading("program", <<>>, Append(ss, <<"source", <<item[1]>>>>), ty)
    BY <1>2, ReadBody
  <2>2. item[1] \in Names
    BY <1>2 DEF Names
  <2>3. <<item[1]>> \in Seq(Names) /\ "SOURCECODE" \in Kinds
    BY <2>2 DEF Kinds
  <2>4. Scanned("program", <<>>, ss, ty, <<"SOURCECODE", <<item[1]>>>>, "CODE",
                Reading("program", <<>>, Append(ss, <<"source", <<item[1]>>>>), ty))
    BY <2>3, ScannedRule
  <2> QED
    BY <1>1, <1>2, <2>1, <2>4 DEF ScanGives, Gives
<1>3. CASE item[1] = "{%" /\ Gives(item, <<"DIROPEN", <<>>>>, "DIRECTIVE")
  <2>1. Extend(Reading("program", <<>>, ss, ty), item) = Reading("open", <<>>, ss, ty)
    BY <1>3, ReadBody
  <2>2. PICK p \in Pushes : p = <<"program", "DIROPEN", "open">>
    BY DEF Pushes
  <2>3. p[3] = "open" /\ ModeOf("open") = "DIRECTIVE" /\ "open" \in Begun
    BY <2>2 DEF ModeOf, Begun
  <2>4. Scanned(p[1], <<>>, ss, ty, <<p[2], <<>>>>, "DIRECTIVE", Reading(p[3], <<>>, ss, ty))
    BY <2>3, ScannedPlainPush
  <2> QED
    BY <1>1, <1>3, <2>1, <2>2, <2>4 DEF ScanGives, Gives
<1>4. CodeGives(item)
  <2>1. item \in CodeItems
    BY <1>1 DEF Items
  <2> QED
    BY <1>1, <2>1, ScannedCode
<1> QED
  BY <1>2, <1>3, <1>4 DEF CodeGives

\* In a directive: a token of it, something stray, or one that is in the wrong place.
LEMMA DirectiveTokens ==
  ASSUME NEW item \in Items[mode], mode = "DIRECTIVE"
  PROVE  \/ item[1] = "stray" /\ Gives(item, NoToken, "DIRECTIVE")
         \/ item[1] = "include" /\ Gives(item, <<"DIRECTIVE_INCLUDE", <<>>>>, "DIRECTIVE")
         \/ item[1] = "%}" /\ Gives(item, <<"DIRCLOSE", <<>>>>, "CODE")
         \/ \E c \in Seq(Names) :
              item[1] = "identifier" /\ Gives(item, <<"IDENT", c>>, "DIRECTIVE")
         \/ \E c \in Seq(Names) :
              /\ item[1] = "literal" /\ Unescape(item[2]).ok /\ Unescape(item[2]).s = c
              /\ Gives(item, <<"STRLIT", c>>, "DIRECTIVE")
         \/ /\ item[1] = "literal" /\ ~Unescape(item[2]).ok
            /\ Gives(item, <<"ERROR", <<>>>>, "DIRECTIVE")
<1>1. ASSUME item[2] \in Literals PROVE Unescape(item[2]).s \in Seq(Names)
  <2>1. PICK l \in Seq(Characters) : l = item[2]
    BY <1>1, TextAssumption
  <2>2. Unescape(l) \in Accs
    BY <2>1, UnescapeType
  <2>3. Unescape(l).s \in Seq(Characters)
    BY <2>2 DEF Accs
  <2>4. Characters \subseteq Names
    BY DEF Names
  <2>5. Unescape(l).s \in Seq(Names)
    BY <2>3, <2>4
  <2> QED
    BY <2>1, <2>5
<1> QED
  BY <1>1, ScannedDirective

\* Whatever is scanned in a directive that begins,
LEMMA AtOpen ==
  ASSUME NEW h, NEW ss \in Seq(Pieces), NEW ty \in ShaderTypes \cup {"generic"},
         Even("open", h, ss, ty, mode, Reading("open", h, ss, ty), FALSE), NEW item \in Items[mode]
  PROVE  ScanGives("open", h, ss, ty, item)
<1>1. /\ mode = "DIRECTIVE" /\ h = <<>> /\ "open" \in Positions
      /\ Taken("open") = {"DIRECTIVE_INCLUDE"}
      /\ {"DIRCLOSE", "STRLIT", "ERROR", "IDENT"} \subseteq Kinds
  BY DEF Even, Suits, ModeOf, Holds, Positions, Taken, Kinds
<1>2. CASE item[1] = "stray" /\ Gives(item, NoToken, "DIRECTIVE")
  <2>1. Extend(Reading("open", h, ss, ty), item) = Reading("open", h, ss, ty)
    BY <1>1, <1>2, ReadDirective
  <2> QED
    BY <1>1, <1>2, <2>1, ScannedSame DEF ScanGives, Gives
<1>3. CASE item[1] = "include" /\ Gives(item, <<"DIRECTIVE_INCLUDE", <<>>>>, "DIRECTIVE")
  <2>1. Extend(Reading("open", h, ss, ty), item) = Reading("include", <<>>, ss, ty)
    BY <1>1, <1>3, ReadDirective
  <2>2. PICK p \in Pushes : p = <<"open", "DIRECTIVE_INCLUDE", "include">>
    BY DEF Pushes
  <2>3. p[3] = "include" /\ ModeOf("include") = "DIRECTIVE" /\ "include" \in Begun
    BY <2>2 DEF ModeOf, Begun
  <2>4. Scanned(p[1], <<>>, ss, ty, <<p[2], <<>>>>, "DIRECTIVE", Reading(p[3], <<>>, ss, ty))
    BY <2>3, ScannedPlainPush
  <2> QED
    BY <1>1, <1>3, <2>1, <2>2, <2>4 DEF ScanGives, Gives
<1>4. ASSUME NEW k \in {"DIRCLOSE", "STRLIT", "ERROR", "IDENT"}, NEW c \in Seq(Names), NEW md,
             Gives(item, <<k, c>>, md), item[1] \notin {"include", "stray"}
      PROVE  ScanGives("open", h, ss, ty, item)
  <2>1. Extend(Reading("open", h, ss, ty), item) = NoMeaning
    BY <1>1, <1>4, ReadDirective
  <2> QED
    BY <1>1, <1>4, <2>1, Misplaced
<1> QED
  BY <1>1, <1>2, <1>3, <1>4, Nothing, DirectiveTokens

\* after include,
LEMMA AtInclude ==
  ASSUME NEW h, NEW ss \in Seq(Pieces), NEW ty \in ShaderTypes \cup {"generic"},
         Even("include", h, ss, ty, mode, Reading("include", h, ss, ty), FALSE), NEW item \in Items[mode]
  PROVE  ScanGives("include", h, ss, ty, item)
<1>1. /\ mode = "DIRECTIVE" /\ h = <<>> /\ "include" \in Positions
      /\ Taken("include") = {"STRLIT", "ERROR"}
      /\ {"DIRCLOSE", "DIRECTIVE_INCLUDE", "ERROR", "STRLIT", "IDENT"} \subseteq Kinds
  BY DEF Even, Suits, ModeOf, Holds, Positions, Taken, Kinds
<1>2. CASE item[1] = "stray" /\ Gives(item, NoToken, "DIRECTIVE")
  <2>1. Extend(Reading("include", h, ss, ty), item) = Reading("include", h, ss, ty)
    BY <1>1, <1>2, ReadNamed
  <2> QED
    BY <1>1, <1>2, <2>1, ScannedSame DEF ScanGives, Gives
<1>3. ASSUME NEW c \in Seq(Names), item[1] = "literal", Unescape(item[2]).ok, Unescape(item[2]).s = c,
             Gives(item, <<"STRLIT", c>>, "DIRECTIVE")
      PROVE  ScanGives("include", h, ss, ty, item)
  <2>1. Extend(Reading("include", h, ss, ty), item) = Reading("path", c, ss, ty)
    BY <1>1, <1>3, ReadNamed
  <2>2. PICK p \in Pushes : p = <<"include", "STRLIT", "path">>
    BY DEF Pushes
  <2>3. p[2] \in Kinds /\ p[3] # "type" /\ p[3] = "path" /\ ModeOf("path") = "DIRECTIVE" /\ "path" \in Begun
    BY <1>1, <2>2 DEF ModeOf, Begun
  <2>4. <<>> \o c = c /\ Holds("path", <<>> \o c)
    BY DEF Holds
  <2>5. Scanned(p[1], <<>>, ss, ty, <<p[2], c>>, "DIRECTIVE", Reading(p[3], <<>> \o c, ss, ty))
    BY <2>3, <2>4, ScannedPush
  <2> QED
    BY <1>1, <1>3, <2>1, <2>2, <2>4, <2>5 DEF ScanGives, Gives
<1>4. CASE item[1] = "literal" /\ ~Unescape(item[2]).ok /\ Gives(item, <<"ERROR", <<>>>>, "DIRECTIVE")
  <2>1. Extend(Reading("include", h, ss, ty), item) = NoMeaning
    BY <1>1, <1>4, ReadNamed
  <2>2. PICK tok : tok = <<"ERROR", <<>>>>
    OBVIOUS
  <2>3. tok \in Pieces /\ tok # NoToken /\ tok[1] = "ERROR"
    BY <1>1, <2>2, Nothing, PieceIsToken
  <2>4. Ahead("include", h, ss, ty, tok, "DIRECTIVE", NoMeaning, FALSE)
    BY <2>3, AheadOfRule
  <2>5. Scanned("include", h, ss, ty, tok, "DIRECTIVE", NoMeaning)
    BY <2>3, <2>4 DEF Scanned
  <2> QED
    BY <1>4, <2>1, <2>2, <2>5 DEF ScanGives, Gives
<1>5. ASSUME NEW k \in {"DIRCLOSE", "DIRECTIVE_INCLUDE", "IDENT"}, NEW c \in Seq(Names), NEW md,
             Gives(item, <<k, c>>, md), item[1] \notin {"literal", "stray"}
      PROVE  ScanGives("include", h, ss, ty, item)
  <2>1. Extend(Reading("include", h, ss, ty), item) = NoMeaning
    BY <1>1, <1>5, ReadNamed
  <2> QED
    BY <1>1, <1>5, <2>1, Misplaced
<1> QED
  BY <1>1, <1>2, <1>3, <1>4, <1>5, Nothing, DirectiveTokens

\* and after its path.
LEMMA AtPath ==
  ASSUME NEW h, NEW ss \in Seq(Pieces), NEW ty \in ShaderTypes \cup {"generic"},
         Even("path", h, ss, ty, mode, Reading("path", h, ss, ty), FALSE), NEW item \in Items[mode]
  PROVE  ScanGives("path", h, ss, ty, item)
<1>1. /\ mode = "DIRECTIVE" /\ "path" \in Positions
      /\ Taken("path") = {"DIRCLOSE"}
      /\ {"DIRCLOSE", "DIRECTIVE_INCLUDE", "ERROR", "STRLIT", "IDENT"} \subseteq Kinds
  BY DEF Even, Suits, ModeOf, Positions, Taken, Kinds
<1>2. CASE item[1] = "stray" /\ Gives(item, NoToken, "DIRECTIVE")
  <2>1. Extend(Reading("path", h, ss, ty), item) = Reading("path", h, ss, ty)
    BY <1>2, ReadClosing
  <2> QED
    BY <1>1, <1>2, <2>1, ScannedSame DEF ScanGives, Gives
<1>3. CASE item[1] = "%}" /\ Gives(item, <<"DIRCLOSE", <<>>>>, "CODE")
  <2>1. Extend(Reading("path", h, ss, ty), item) = Reading("program", <<>>, Append(ss, <<"include", h>>), ty)
    BY <1>3, ReadClosing
  <2>2. Scanned("path", h, ss, ty, <<"DIRCLOSE", <<>>>>, "CODE",
                Reading("program", <<>>, Append(ss, <<"include", h>>), ty))
    BY <1>1, Nothing, ScannedRule
  <2> QED
    BY <1>3, <2>1, <2>2 DEF ScanGives, Gives
<1>4. ASSUME NEW k \in {"DIRECTIVE_INCLUDE", "STRLIT", "ERROR", "IDENT"}, NEW c \in Seq(Names), NEW md,
             Gives(item, <<k, c>>, md), item[1] \notin {"%}", "stray"}
      PROVE  ScanGives("path", h, ss, ty, item)
  <2>1. Extend(Reading("path", h, ss, ty), item) = NoMeaning
    BY <1>4, ReadClosing
  <2> QED
    BY <1>1, <1>4, <2>1, Misplaced
<1> QED
  BY <1>1, <1>2, <1>3, <1>4, Nothing, DirectiveTokens

\* Whatever is scanned next, from whatever position.
LEMMA ScanFollows ==
  ASSUME NEW a \in Positions, NEW h, NEW ss \in Seq(Pieces), NEW ty \in ShaderTypes \cup {"generic"},
         NEW mn, Even(a, h, ss, ty, mode, mn, FALSE), NEW item \in Items[mode]
  PROVE  Scanned(a, h, ss, ty, TokenOf(item), ModeAfter(item), Extend(mn, item))
<1>1. mn = Reading(a, h, ss, ty)
  BY DEF Even
<1>2. Even(a, h, ss, ty, mode, Reading(a, h, ss, ty), FALSE)
  BY <1>1
<1>3. ScanGives(a, h, ss, ty, item)
  <2>1. CASE a \in {"start", "version", "number"}
    BY <1>2, <2>1, AtStart, AtVersion, AtNumber
  <2>2. CASE a \in {"profile", "type", "program"}
    BY <1>2, <2>2, AtProfile, AtType, AtProgram
  <2>3. CASE a \in {"open", "include", "path"}
    BY <1>2, <2>3, AtOpen, AtInclude, AtPath
  <2> QED
    BY <2>1, <2>2, <2>3 DEF Positions
<1> QED
  BY <1>1, <1>3 DEF ScanGives

\* Every item gives a token or none.
LEMMA TokenType ==
  ASSUME mode \in Modes, NEW item \in Items[mode]
  PROVE  TokenOf(item) \in Pieces \cup {NoToken}
<1>1. \A k \in Kinds : \A c \in Seq(Names) : <<k, c>> \in Pieces
  BY DEF Pieces
<1>2. {"VERSION", "INTLIT", "IDENT", "undefined", "EOL", "DIROPEN", "DIRECTIVE_INCLUDE",
       "STRLIT", "ERROR", "DIRCLOSE", "SOURCECODE"} \subseteq Kinds
  BY DEF Kinds
<1>3. CodeGives(item) => TokenOf(item) \in Pieces
  <2>1. item[1] \in SourceKinds => <<item[1]>> \in Seq(Names)
    <3>1. item[1] \in SourceKinds => item[1] \in Names
      BY DEF Names
    <3> QED
      BY <3>1
  <2> QED
    BY <1>1, <1>2, <2>1, Nothing DEF CodeGives, Gives
<1>4. CASE mode = "INITIAL"
  BY <1>1, <1>2, <1>3, <1>4, Nothing, ScannedInitial DEF Gives
<1>5. CASE mode = "VERSION_DIRECTIVE"
  BY <1>1, <1>2, <1>5, Nothing, VersionTokens DEF Gives
<1>6. CASE mode = "CODE"
  <2>1. item \in CodeItems
    BY <1>6 DEF Items
  <2> QED
    BY <1>3, <1>6, <2>1, ScannedCode
<1>7. CASE mode = "DIRECTIVE"
  BY <1>1, <1>2, <1>7, Nothing, DirectiveTokens DEF Gives
<1> QED
  BY <1>4, <1>5, <1>6, <1>7 DEF Modes, Items

\* The end of the file is the end of the version line first.
LEMMA EndsLine ==
  ASSUME NEW a \in Positions, NEW h, NEW ss \in Seq(Pieces), NEW ty \in ShaderTypes \cup {"generic"},
         NEW md, NEW mn, Even(a, h, ss, ty, md, mn, FALSE), md = "VERSION_DIRECTIVE",
         NEW tok, tok[1] = "EOL"
  PROVE  Ahead(a, h, ss, ty, tok, "INITIAL", Ended(mn), TRUE)
<1>1. mn = Reading(a, h, ss, ty) /\ mn # NoMeaning /\ Holds(a, h)
  BY ReadingIsMeaning DEF Even
<1>2. a \in {"version", "number", "profile", "type"} /\ (a \notin Begun => ty = "generic")
  BY DEF Even, Suits, ModeOf, Positions
<1>3. CASE a \in {"version", "number"}
  <2>1. Ended(mn) = NoMeaning
    <3>1. mn.at = a
      BY <1>1, <1>3 DEF Reading, Place
    <3> QED
      BY <1>1, <1>3, <3>1 DEF Ended
  <2>2. tok[1] \notin Taken(a)
    BY <1>3 DEF Taken
  <2> QED
    BY <2>1, <2>2, AheadOfError
<1>4. CASE a = "profile"
  <2>1. Ended(mn) = Reading("program", <<>>, Append(ss, Version(ty)), ty)
    BY <1>1, <1>4 DEF Reading, Place, Ended, Extended
  <2>2. TypeOf(h) = ty
    BY <1>1, <1>2, <1>4 DEF TypeOf, Holds, Begun
  <2>3. Even("program", <<>>, Append(ss, Version(TypeOf(h))), TypeOf(h), "INITIAL", Ended(mn), TRUE)
    BY <2>1, <2>2, Nothing DEF Even, Suits, Holds, Begun
  <2> QED
    BY <1>4, <2>3, AheadOfRule
<1>5. CASE a = "type"
  <2>1. Ended(mn) = Reading("program", <<>>, Append(ss, Version(h[2])), h[2])
    BY <1>1, <1>5 DEF Reading, Place, Ended, Extended
  <2>2. TypeOf(h) = h[2]
    BY <1>1, <1>5 DEF TypeOf, Holds
  <2>3. Even("program", <<>>, Append(ss, Version(TypeOf(h))), TypeOf(h), "INITIAL", Ended(mn), TRUE)
    BY <2>1, <2>2, Nothing DEF Even, Suits, Holds, Begun
  <2> QED
    BY <1>5, <2>3, AheadOfRule
<1> QED
  BY <1>2, <1>3, <1>4, <1>5

\* The end of the file, where it is not the end of the version line.
LEMMA EndsText ==
  ASSUME NEW a \in Positions, NEW h, NEW ss \in Seq(Pieces), NEW ty \in ShaderTypes \cup {"generic"},
         NEW md, NEW mn, NEW e \in BOOLEAN, Even(a, h, ss, ty, md, mn, e), md # "VERSION_DIRECTIVE",
         NEW tok, tok[1] = "END"
  PROVE  Ahead(a, h, ss, ty, tok, md, IF e THEN mn ELSE Ended(mn), TRUE)
<1>1. mn = Reading(a, h, ss, ty) /\ mn # NoMeaning /\ Holds(a, h) /\ (a \notin Begun => ty = "generic")
  BY ReadingIsMeaning DEF Even
<1>2. CASE a = "program"
  <2>1. Ended(mn) = mn
    BY <1>1, <1>2 DEF Reading, Place, Ended
  <2>2. Even("program", h, ss, ty, md, mn, TRUE)
    BY <1>1, <1>2 DEF Even, Suits
  <2> QED
    BY <1>2, <2>1, <2>2, AheadOfRule
<1>3. CASE a # "program"
  <2>1. ~e /\ a \notin {"version", "number", "profile", "type"}
    BY <1>3 DEF Even, Suits, ModeOf
  <2>2. mn.at \in {"blank", "directive", "named", "closing"}
    BY <1>1, <1>3, <2>1 DEF Reading, Place, Positions
  <2>3. Ended(mn) = NoMeaning
    BY <1>1, <2>2 DEF Ended
  <2>4. tok[1] \notin Taken(a)
    BY <1>3 DEF Taken
  <2> QED
    BY <2>1, <2>3, <2>4, AheadOfError
<1> QED
  BY <1>2, <1>3

-----------------------------------------------------------------------------

\* The parser and the meaning begin alike.
LEMMA InitKnown == TextInit => Known
<1> SUFFICES ASSUME TextInit PROVE Known
  OBVIOUS
<1>1. meaning = Reading("start", <<>>, <<>>, "generic")
  BY DEF TextInit, Reading, Place
<1>2. Even("start", <<>>, <<>>, "generic", "INITIAL", meaning, FALSE)
  BY <1>1, Nothing DEF Even, Suits, ModeOf, Holds
<1>3. <<>> \in Seq(Pieces)
  OBVIOUS
<1> QED
  BY <1>2, <1>3, Nothing DEF TextInit, Known, Positions

\* The scanner reads one more item.
LEMMA ScanKnown ==
  ASSUME Known, Types, NEW item \in Items[mode], Scan(item)
  PROVE  Known'
<1>1. /\ look' = TokenOf(item) /\ mode' = ModeAfter(item) /\ UNCHANGED eof /\ eof = FALSE
      /\ meaning' = IF meaning = NoMeaning THEN NoMeaning ELSE Extend(meaning, item)
      /\ UNCHANGED <<at, held, status, m_sections, m_errors, m_type>>
      /\ status = "parsing" /\ look = NoToken
  <2>1. eof \in BOOLEAN /\ ~eof
    BY DEF Types, Scan
  <2> QED
    BY <2>1 DEF Scan, parserVars, programVars
<1>2. look' \in Pieces \cup {NoToken}
  BY <1>1, TokenType DEF Types
<1>3. CASE m_errors = {}
  <2>1. Even(at, held, m_sections, m_type, mode, meaning, FALSE)
    BY <1>1, <1>3 DEF Known
  <2>2. /\ at \in Positions /\ m_sections \in Seq(Pieces) /\ m_type \in ShaderTypes \cup {"generic"}
        /\ held \in Seq(Names)
    BY DEF Known
  <2>3. meaning # NoMeaning /\ Holds(at, held)
    BY <2>1, <2>2, ReadingIsMeaning DEF Even
  <2>4. Scanned(at, held, m_sections, m_type, look', mode', meaning')
    BY <1>1, <2>1, <2>2, <2>3, ScanFollows
  <2>5. /\ look' = NoToken => Even(at, held, m_sections, m_type, mode', meaning', FALSE)
        /\ look' # NoToken => Ahead(at, held, m_sections, m_type, look', mode', meaning', FALSE)
    BY <2>4 DEF Scanned
  <2> QED
    BY <1>1, <1>2, <1>3, <2>2, <2>3, <2>5 DEF Known
<1>4. CASE m_errors # {}
  <2>1. meaning' = NoMeaning
    BY <1>1, <1>4 DEF Known
  <2> QED
    BY <1>1, <1>2, <1>4, <2>1 DEF Known
<1> QED
  BY <1>3, <1>4

\* The scanner meets the end of the file.
LEMMA ScanEndKnown ==
  ASSUME Known, Types, ScanEnd
  PROVE  Known'
<1>1. /\ eof' = TRUE /\ eof \in BOOLEAN /\ status = "parsing" /\ look = NoToken
      /\ meaning' = IF eof THEN meaning ELSE Ended(meaning)
      /\ UNCHANGED <<at, held, status, m_sections, m_errors, m_type>>
      /\ \/ mode = "VERSION_DIRECTIVE" /\ mode' = "INITIAL" /\ look' = <<"EOL", <<>>>>
         \/ mode # "VERSION_DIRECTIVE" /\ mode' = mode /\ look' = <<"END", <<>>>>
  BY DEF Types, ScanEnd, parserVars, programVars
<1>2. look' \in Pieces /\ look' # NoToken
  <2>1. "EOL" \in Kinds /\ "END" \in Kinds
    BY DEF Kinds
  <2>2. /\ <<"EOL", <<>>>> \in Pieces /\ <<"EOL", <<>>>> # NoToken
        /\ <<"END", <<>>>> \in Pieces /\ <<"END", <<>>>> # NoToken
    BY <2>1, Nothing, PieceIsToken
  <2>3. look' = <<"EOL", <<>>>> \/ look' = <<"END", <<>>>>
    BY <1>1
  <2> QED
    BY <2>2, <2>3
<1>3. CASE m_errors = {}
  <2>1. Even(at, held, m_sections, m_type, mode, meaning, eof)
    BY <1>1, <1>3 DEF Known
  <2>2. /\ at \in Positions /\ m_sections \in Seq(Pieces) /\ m_type \in ShaderTypes \cup {"generic"}
        /\ held \in Seq(Names) /\ Holds(at, held)
    BY <2>1 DEF Known, Even
  <2>3. Ahead(at, held, m_sections, m_type, look', mode', meaning', TRUE)
    <3>1. CASE mode = "VERSION_DIRECTIVE"
      <4>1. eof = FALSE
        BY <1>1, <2>1, <3>1 DEF Even, Suits
      <4>2. mode' = "INITIAL" /\ look'[1] = "EOL" /\ meaning' = Ended(meaning)
        BY <1>1, <3>1, <4>1
      <4> QED
        BY <2>1, <2>2, <3>1, <4>1, <4>2, EndsLine
    <3>2. CASE mode # "VERSION_DIRECTIVE"
      <4>1. mode' = mode /\ look'[1] = "END"
        BY <1>1, <3>2
      <4> QED
        BY <1>1, <2>1, <2>2, <3>2, <4>1, EndsText
    <3> QED
      BY <3>1, <3>2
  <2> QED
    BY <1>1, <1>2, <1>3, <2>2, <2>3 DEF Known
<1>4. CASE m_errors # {}
  <2>1. meaning' = NoMeaning
    BY <1>1, <1>4 DEF Known, Ended
  <2> QED
    BY <1>1, <1>2, <1>4, <2>1 DEF Known
<1> QED
  BY <1>3, <1>4

\* What a shift leaves alone.
LEMMA ShiftLeaves ==
  ASSUME NEW k, NEW there, Shift(k, there)
  PROVE  /\ status = "parsing" /\ look # NoToken /\ look[1] = k /\ look' = NoToken /\ at' = there
         /\ UNCHANGED <<mode, eof, meaning>>
  BY DEF Shift, scannerVars

\* A token goes on the stack: an unknown type is an error there and then.
LEMMA PushKnown ==
  ASSUME Known, Push
  PROVE  Known'
<1>1. PICK p \in Pushes :
        /\ at = p[1] /\ Shift(p[2], p[3])
        /\ held' = held \o look[2]
        /\ m_errors' = IF p[3] = "type" /\ look[2][1] \notin ShaderTypes
                       THEN m_errors \cup {"unknown program type"} ELSE m_errors
        /\ UNCHANGED <<status, m_sections, m_type>>
  BY DEF Push
<1>2. /\ status = "parsing" /\ look # NoToken /\ look[1] = p[2] /\ look' = NoToken /\ at' = p[3]
      /\ UNCHANGED <<mode, eof, meaning>>
  BY <1>1, ShiftLeaves
<1>3. /\ look \in Pieces /\ m_sections' \in Seq(Pieces) /\ m_type' \in ShaderTypes \cup {"generic"}
      /\ held \in Seq(Names)
  BY <1>1, <1>2 DEF Known
<1>4. look[2] \in Seq(Names)
  BY <1>3 DEF Pieces
<1>5. held' \in Seq(Names)
  <2>1. \A s, c \in Seq(Names) : s \o c \in Seq(Names)
    OBVIOUS
  <2>2. held \o look[2] \in Seq(Names)
    BY <1>3, <1>4, <2>1
  <2> QED
    BY <1>1, <2>2
<1>6. at' \in Positions
  BY <1>2 DEF Pushes, Positions
<1>7. /\ m_errors' # {} => meaning' = NoMeaning
      /\ m_errors' = {} => Even(at', held', m_sections', m_type', mode', meaning', eof')
  <2>1. CASE m_errors # {}
    BY <1>1, <1>2, <2>1 DEF Known
  <2>2. CASE m_errors = {}
    <3>1. IF p[3] = "type" /\ look[2][1] \notin ShaderTypes THEN meaning = NoMeaning
          ELSE Even(p[3], held \o look[2], m_sections, m_type, mode, meaning, eof)
      <4>1. Ahead(at, held, m_sections, m_type, look, mode, meaning, eof)
        BY <1>2, <2>2 DEF Known
      <4> QED
        BY <1>1, <1>2, <4>1 DEF Ahead
    <3> QED
      BY <1>1, <1>2, <2>2, <3>1
  <2> QED
    BY <2>1, <2>2
<1> QED
  BY <1>1, <1>2, <1>3, <1>5, <1>6, <1>7 DEF Known

\* A rule is completed: e is its section, if it has one.
LEMMA RuleKnown ==
  ASSUME Known, NEW k, Shift(k, "program"), UNCHANGED m_errors,
         m_sections' \in Seq(Pieces), m_type' \in ShaderTypes \cup {"generic"}, held' \in Seq(Names),
         Ahead(at, held, m_sections, m_type, look, mode, meaning, eof) =>
           Even("program", held', m_sections', m_type', mode, meaning, eof)
  PROVE  Known'
<1>1. /\ look # NoToken /\ look' = NoToken /\ at' = "program" /\ UNCHANGED <<mode, eof, meaning>>
  BY ShiftLeaves
<1>2. "program" \in Positions
  BY DEF Positions
<1>3. m_errors = {} => Even("program", held', m_sections', m_type', mode, meaning, eof)
  BY <1>1 DEF Known
<1> QED
  BY <1>1, <1>2, <1>3 DEF Known

\* A section is a piece.
LEMMA SectionAdded ==
  ASSUME NEW ss \in Seq(Pieces), NEW k \in Kinds, NEW c \in Seq(Names)
  PROVE  Append(ss, <<k, c>>) \in Seq(Pieces)
<1>1. <<k, c>> \in Pieces
  BY DEF Pieces
<1> QED
  BY <1>1

\* The rules that are completed.
LEMMA RulesKnown ==
  ASSUME Known, VersionRule \/ SourceRule \/ IncludeRule \/ Accept
  PROVE  Known'
<1>1. /\ m_sections \in Seq(Pieces) /\ m_type \in ShaderTypes \cup {"generic"}
      /\ held \in Seq(Names) /\ look \in Pieces \cup {NoToken}
  BY DEF Known
<1>2. {"version", "source", "include"} \subseteq Kinds
  BY DEF Kinds
<1>3. CASE VersionRule
  <2>1. TypeHeld = TypeOf(held) /\ TypeHeld \in ShaderTypes \cup {"generic"}
    BY DEF TypeHeld, TypeOf
  <2>2. <<TypeHeld>> \in Seq(Names)
    <3>1. TypeHeld \in Names
      BY <2>1 DEF Names
    <3> QED
      BY <3>1
  <2>3. /\ Shift("EOL", "program") /\ UNCHANGED m_errors /\ held' = <<>> /\ at \in {"profile", "type"}
        /\ m_sections' = Append(m_sections, Version(TypeHeld)) /\ m_type' = TypeHeld
    BY <1>3 DEF VersionRule
  <2>4. m_sections' \in Seq(Pieces)
    BY <1>1, <1>2, <2>2, <2>3, SectionAdded DEF Version
  <2>5. look[1] = "EOL"
    BY <2>3, ShiftLeaves
  <2>6. Ahead(at, held, m_sections, m_type, look, mode, meaning, eof) =>
          Even("program", held', m_sections', m_type', mode, meaning, eof)
    BY <2>1, <2>3, <2>5 DEF Ahead
  <2> QED
    BY <2>1, <2>3, <2>4, <2>6, Nothing, RuleKnown
<1>4. CASE SourceRule
  <2>1. /\ Shift("SOURCECODE", "program") /\ UNCHANGED <<m_errors, held, m_type>> /\ at = "program"
        /\ m_sections' = Append(m_sections, <<"source", look[2]>>)
    BY <1>4 DEF SourceRule
  <2>2. look # NoToken /\ look[1] = "SOURCECODE"
    BY <2>1, ShiftLeaves
  <2>3. look[2] \in Seq(Names)
    BY <1>1, <2>2 DEF Pieces
  <2>4. m_sections' \in Seq(Pieces)
    BY <1>1, <1>2, <2>1, <2>3, SectionAdded
  <2>5. Ahead(at, held, m_sections, m_type, look, mode, meaning, eof) =>
          Even("program", held', m_sections', m_type', mode, meaning, eof)
    BY <2>1, <2>2 DEF Ahead
  <2> QED
    BY <1>1, <2>1, <2>4, <2>5, RuleKnown
<1>5. CASE IncludeRule
  <2>1. /\ Shift("DIRCLOSE", "program") /\ UNCHANGED <<m_errors, m_type>> /\ held' = <<>> /\ at = "path"
        /\ m_sections' = Append(m_sections, <<"include", held>>)
    BY <1>5 DEF IncludeRule
  <2>2. look[1] = "DIRCLOSE"
    BY <2>1, ShiftLeaves
  <2>3. m_sections' \in Seq(Pieces)
    BY <1>1, <1>2, <2>1, SectionAdded
  <2>4. Ahead(at, held, m_sections, m_type, look, mode, meaning, eof) =>
          Even("program", held', m_sections', m_type', mode, meaning, eof)
    BY <2>1, <2>2 DEF Ahead
  <2> QED
    BY <1>1, <2>1, <2>3, <2>4, Nothing, RuleKnown
<1>6. CASE Accept
  <2>1. Shift("END", "program") /\ UNCHANGED <<held, m_sections, m_errors, m_type>> /\ at = "program"
    BY <1>6 DEF Accept, programVars
  <2>2. look[1] = "END"
    BY <2>1, ShiftLeaves
  <2>3. Ahead(at, held, m_sections, m_type, look, mode, meaning, eof) =>
          Even("program", held', m_sections', m_type', mode, meaning, eof)
    BY <2>1, <2>2 DEF Ahead
  <2> QED
    BY <1>1, <2>1, <2>3, RuleKnown
<1> QED
  BY <1>3, <1>4, <1>5, <1>6

\* Where the parser reports the first error the text has lost its meaning.
LEMMA ErrorKnown ==
  ASSUME Known, Inv, EscapeError \/ SyntaxError
  PROVE  Known'
<1>1. /\ at' = "program" /\ held' = <<>> /\ status = "parsing" /\ look # NoToken
      /\ look' \in {look, NoToken}
      /\ UNCHANGED <<mode, eof, meaning, m_sections, m_type>>
      /\ status' = "parsed" => look' = NoToken
  BY DEF EscapeError, SyntaxError, scannerVars
<1>2. m_errors' # {}
  <2>1. CASE EscapeError
    BY <2>1 DEF EscapeError
  <2>2. errstatus \in 0 .. 3 /\ (errstatus > 0 => m_errors # {})
    BY DEF Inv
  <2>3. CASE SyntaxError
    BY <2>2, <2>3 DEF SyntaxError
  <2> QED
    BY <2>1, <2>3
<1>3. meaning = NoMeaning
  <2>1. CASE m_errors # {}
    BY <2>1 DEF Known
  <2>2. CASE m_errors = {}
    <3>1. Ahead(at, held, m_sections, m_type, look, mode, meaning, eof)
      BY <1>1, <2>2 DEF Known
    <3>2. CASE EscapeError
      BY <3>1, <3>2 DEF EscapeError, Ahead
    <3>3. CASE SyntaxError
      BY <3>1, <3>3 DEF SyntaxError, Acceptable, Ahead
    <3> QED
      BY <3>2, <3>3
  <2> QED
    BY <2>1, <2>2
<1> QED
  BY <1>1, <1>2, <1>3, Nothing DEF Known, Positions

\* One case per action; the evaluation touches neither parser nor meaning.
LEMMA StepKnown == Known /\ Inv /\ Types /\ [TextNext]_vars => Known'
<1> SUFFICES ASSUME Known, Inv, Types, [TextNext]_vars PROVE Known'
  OBVIOUS
<1>1. ASSUME NEW item \in Items[mode], Scan(item) PROVE Known'
  BY <1>1, ScanKnown
<1>2. CASE ScanEnd
  BY <1>2, ScanEndKnown
<1>3. CASE Push
  BY <1>3, PushKnown
<1>4. CASE VersionRule \/ SourceRule \/ IncludeRule \/ Accept
  BY <1>4, RulesKnown
<1>5. CASE EscapeError \/ SyntaxError
  BY <1>5, ErrorKnown
<1>6. CASE UNCHANGED <<scannerVars, look, parserVars, programVars>>
  BY <1>6 DEF Known, scannerVars, parserVars, programVars
<1>7. CASE Evaluate \/ (\E name \in Macros : Define(name)) \/ UNCHANGED vars
  BY <1>6, <1>7 DEF Evaluate, Define, vars
<1> QED
  BY <1>1, <1>2, <1>3, <1>4, <1>5, <1>7 DEF TextNext, Parse

-----------------------------------------------------------------------------
(* The evaluation                                                             *)

\* What ErrorFreeIsText says of the evaluation.
Evaluated ==
  /\ into[1] = Head(m_sections)
  /\ SubSeq(into, Len(m_defines) + 2, Len(into)) = Tail(m_sections)
  /\ IsInjective(SubSeq(into, 2, Len(m_defines) + 1))

\* Nothing is written before the program is parsed, no name is defined twice, and
\* there is no version section but the first, below which the defines stand.
EvaluationInv ==
  /\ status # "parsed" => into = <<>>
  /\ IsInjective(m_defines)
  /\ \A i \in DOMAIN m_sections : i > 1 => m_sections[i][1] # "version"
  /\ m_errors = {} /\ into # <<>> /\ ~thrown => Evaluated

\* A section of an evaluated program.
Expanded == Pieces \cup {<<"define", <<name>>>> : name \in Macros}

\* The defines, as they are written.
DefinesOf(names) == [i \in DOMAIN names |-> <<"define", <<names[i]>>>>]

\* The defines are as many as the names, and as different.
LEMMA DefinesAreInjective ==
  ASSUME NEW names \in Seq(Macros)
  PROVE  /\ DefinesOf(names) \in Seq(Expanded) /\ Len(DefinesOf(names)) = Len(names)
         /\ IsInjective(names) => IsInjective(DefinesOf(names))
<1>1. PICK n \in Nat : n = Len(names) /\ DOMAIN names = 1 .. n
  BY LenProperties
<1>2. \A i \in 1 .. n : names[i] \in Macros
  BY <1>1, ElementOfSeq
<1>3. \A i \in 1 .. n : <<"define", <<names[i]>>>> \in Expanded
  BY <1>2 DEF Expanded
<1>4. DefinesOf(names) = [i \in 1 .. n |-> <<"define", <<names[i]>>>>]
  BY <1>1 DEF DefinesOf
<1>5. DefinesOf(names) \in Seq(Expanded) /\ Len(DefinesOf(names)) = n
  BY <1>3, <1>4
<1>6. ASSUME IsInjective(names) PROVE IsInjective(DefinesOf(names))
  <2>1. DOMAIN DefinesOf(names) = 1 .. n
    BY <1>4
  <2>2. ASSUME NEW i \in 1 .. n, NEW j \in 1 .. n, DefinesOf(names)[i] = DefinesOf(names)[j]
        PROVE  names[i] = names[j]
    <3>1. <<"define", <<names[i]>>>> = <<"define", <<names[j]>>>>
      BY <1>4, <2>2
    <3>2. <<names[i]>> = <<names[j]>>
      BY <3>1
    <3> QED
      BY <3>2
  <2> QED
    BY <1>1, <1>6, <2>1, <2>2 DEF IsInjective
<1> QED
  BY <1>1, <1>5, <1>6

\* A section after the first is not a version.
LEMMA OneVersion ==
  ASSUME NEW ss \in Seq(Pieces), NEW e \in Pieces,
         \A i \in DOMAIN ss : i > 1 => ss[i][1] # "version",
         ss = <<>> \/ e[1] # "version"
  PROVE  \A i \in DOMAIN Append(ss, e) : i > 1 => Append(ss, e)[i][1] # "version"
<1>1. PICK n \in Nat : n = Len(ss) /\ DOMAIN ss = 1 .. n
  BY LenProperties
<1>2. PICK t : t = Append(ss, e)
  OBVIOUS
<1>3. DOMAIN t = 1 .. n + 1 /\ t[n + 1] = e /\ \A i \in 1 .. n : t[i] = ss[i]
  BY <1>1, <1>2, AppendProperties, LenProperties
<1>4. ASSUME NEW i \in 1 .. n + 1, i > 1 PROVE t[i][1] # "version"
  <2>1. CASE i = n + 1
    <3>1. n # 0
      BY <1>4, <2>1
    <3>2. ss # <<>>
      BY <1>1, <3>1
    <3> QED
      BY <1>3, <2>1, <3>2
  <2>2. CASE i # n + 1
    <3>1. i \in 1 .. n
      BY <2>2
    <3> QED
      BY <1>1, <1>3, <1>4, <3>1
  <2> QED
    BY <2>1, <2>2
<1> QED
  BY <1>2, <1>3, <1>4

\* What is written of sections with one version, the first, and the defines d.
LEMMA WrittenBelow ==
  ASSUME NEW S, NEW ss \in Seq(S), ss # <<>>, ss[1][1] = "version",
         \A i \in DOMAIN ss : i > 1 => ss[i][1] # "version", NEW d \in Seq(S)
  PROVE  FlattenSeq([i \in DOMAIN ss |-> IF ss[i][1] = "version" THEN <<ss[i]>> \o d ELSE <<ss[i]>>])
           = Laid(ss[1], d, Tail(ss))
<1>1. PICK n \in Nat : n = Len(ss) /\ DOMAIN ss = 1 .. n /\ n >= 1
  BY LenProperties, EmptySeq
<1>2. PICK p : p = [i \in 1 .. n |-> IF ss[i][1] = "version" THEN <<ss[i]>> \o d ELSE <<ss[i]>>]
  OBVIOUS
<1>3. \A i \in 1 .. n : p[i] \in Seq(S)
  <2> TAKE i \in 1 .. n
  <2>1. <<ss[i]>> \in Seq(S)
    BY <1>1, ElementOfSeq
  <2>2. <<ss[i]>> \o d \in Seq(S)
    BY <2>1, ConcatProperties
  <2> QED
    BY <1>2, <2>1, <2>2
<1>4. p \in Seq(Seq(S)) /\ Len(p) = Len(ss)
  <2>1. p \in [1 .. n -> Seq(S)]
    BY <1>2, <1>3
  <2>2. \A T : \A q \in [1 .. n -> T] : q \in Seq(T) /\ Len(q) = n
    OBVIOUS
  <2> QED
    BY ONLY <1>1, <2>1, <2>2
<1>5. p[1] = <<ss[1]>> \o d /\ \A i \in 2 .. Len(ss) : p[i] = <<ss[i]>>
  <2>1. 1 \in 1 .. n /\ \A i \in 2 .. n : i \in 1 .. n /\ i > 1
    BY <1>1
  <2> QED
    BY <1>1, <1>2, <2>1
<1>6. FlattenSeq(p) = Laid(ss[1], d, Tail(ss))
  BY <1>4, <1>5, FirstExpands
<1> QED
  BY <1>1, <1>2, <1>6

\* Evaluate writes the sections with the defines below the first.
LEMMA EvaluateWrites ==
  ASSUME Evaluate, Inv, Types, m_sections \in Seq(Pieces), m_errors = {}, ~thrown',
         IsInjective(m_defines), \A i \in DOMAIN m_sections : i > 1 => m_sections[i][1] # "version"
  PROVE  Evaluated'
<1>1. PICK d \in Seq(Expanded) :
        d = DefinesOf(m_defines) /\ Len(d) = Len(m_defines) /\ IsInjective(d)
  BY DefinesAreInjective DEF Types
<1>2. m_sections # <<>> /\ m_sections[1][1] = "version"
  <2>1. status = "parsed"
    BY DEF Evaluate
  <2>2. at \in Begun
    BY <2>1 DEF Inv, Begun
  <2> QED
    BY <2>2 DEF Inv
<1>3. m_sections \in Seq(Expanded)
  <2>1. Pieces \subseteq Expanded
    BY DEF Expanded
  <2> QED
    BY <2>1, SeqMonotonic
<1>4. /\ UNCHANGED <<m_sections, m_defines>>
      /\ into' = FlattenSeq([i \in DOMAIN m_sections |-> Output(m_sections[i])])
  BY DEF Evaluate, programVars
<1>5. \A s : Output(s) = IF s[1] = "version" THEN <<s>> \o d ELSE <<s>>
  BY <1>1 DEF Output, DefinesOf
<1>6. PICK ss \in Seq(Expanded) : ss = m_sections
  BY <1>3
<1>7. into' = FlattenSeq([i \in DOMAIN ss |-> IF ss[i][1] = "version" THEN <<ss[i]>> \o d ELSE <<ss[i]>>])
  BY <1>4, <1>5, <1>6
<1>8. into' = Laid(ss[1], d, Tail(ss))
  <2>1. /\ ss # <<>> /\ ss[1][1] = "version"
        /\ \A i \in DOMAIN ss : i > 1 => ss[i][1] # "version"
    BY <1>2, <1>6
  <2> QED
    BY <1>7, <2>1, WrittenBelow
<1>9. ss[1] \in Expanded /\ Tail(ss) \in Seq(Expanded) /\ Head(ss) = ss[1]
  <2>1. ss # <<>>
    BY <1>2, <1>6
  <2> QED
    BY <2>1, HeadTailProperties
<1>10. PICK v : v = into'
  OBVIOUS
<1>11. /\ v[1] = ss[1]
       /\ SubSeq(v, Len(d) + 2, Len(v)) = Tail(ss)
       /\ SubSeq(v, 2, Len(d) + 1) = d
  <2>0. PICK x \in Expanded, t \in Seq(Expanded) : x = ss[1] /\ t = Tail(ss)
    BY <1>9
  <2>1. v = Laid(x, d, t)
    BY <1>8, <1>10, <2>0
  <2>2. v[1] = x /\ SubSeq(v, Len(d) + 2, Len(v)) = t /\ SubSeq(v, 2, Len(d) + 1) = d
    <3>1. HasParts(Laid(x, d, t), x, d, t)
      BY Parts
    <3> QED
      BY <2>1, <3>1 DEF HasParts
  <2> QED
    BY <2>0, <2>2
<1> QED
  BY <1>1, <1>4, <1>6, <1>9, <1>10, <1>11 DEF Evaluated

LEMMA InitEvaluation == TextInit => EvaluationInv
<1> SUFFICES ASSUME TextInit PROVE EvaluationInv
  OBVIOUS
<1>1. DOMAIN <<>> = {}
  OBVIOUS
<1>2. DOMAIN m_defines = {} /\ DOMAIN m_sections = {}
  BY <1>1 DEF TextInit
<1> QED
  BY <1>2 DEF TextInit, EvaluationInv, IsInjective

\* What a step does to the sections while a text is read.
LEMMA SectionsOfParse ==
  ASSUME Known, Inv, Known', Parse
  PROVE  /\ status = "parsing" /\ UNCHANGED evaluationVars
         /\ \/ UNCHANGED m_sections
            \/ \E e \in Pieces : m_sections' = Append(m_sections, e)
                                 /\ (m_sections = <<>> \/ e[1] # "version")
<1>1. /\ m_sections \in Seq(Pieces) /\ look \in Pieces \cup {NoToken} /\ held \in Seq(Names)
  BY DEF Known
<1>2. {"version", "source", "include"} \subseteq Kinds
  BY DEF Kinds
<1>3. CASE VersionRule
  <2>1. /\ status = "parsing" /\ UNCHANGED evaluationVars /\ at \in {"profile", "type"}
        /\ m_sections' = Append(m_sections, Version(TypeHeld))
    BY <1>3 DEF VersionRule, Shift
  <2>2. m_sections = <<>>
    BY <2>1 DEF Inv, Begun
  <2>3. <<TypeHeld>> \in Seq(Names)
    <3>1. TypeHeld \in Names
      BY DEF Names, TypeHeld
    <3> QED
      BY <3>1
  <2>4. Version(TypeHeld) \in Pieces
    BY <1>2, <2>3 DEF Version, Pieces
  <2> QED
    BY <2>1, <2>2, <2>4
<1>4. CASE SourceRule
  <2>1. /\ status = "parsing" /\ UNCHANGED evaluationVars /\ look # NoToken
        /\ m_sections' = Append(m_sections, <<"source", look[2]>>)
    BY <1>4 DEF SourceRule, Shift
  <2>2. look[2] \in Seq(Names)
    BY <1>1, <2>1 DEF Pieces
  <2>3. <<"source", look[2]>> \in Pieces /\ <<"source", look[2]>>[1] # "version"
    BY <1>2, <2>2 DEF Pieces
  <2> QED
    BY <2>1, <2>3
<1>5. CASE IncludeRule
  <2>1. /\ status = "parsing" /\ UNCHANGED evaluationVars
        /\ m_sections' = Append(m_sections, <<"include", held>>)
    BY <1>5 DEF IncludeRule, Shift
  <2>2. <<"include", held>> \in Pieces /\ <<"include", held>>[1] # "version"
    BY <1>1, <1>2 DEF Pieces
  <2> QED
    BY <2>1, <2>2
<1>6. CASE Push
  BY <1>6 DEF Push, Shift
<1>7. CASE Accept
  BY <1>7 DEF Accept, Shift, programVars
<1>8. CASE EscapeError \/ SyntaxError
  BY <1>8 DEF EscapeError, SyntaxError
<1>9. CASE ScanEnd \/ \E item \in Items[mode] : Scan(item)
  BY <1>9 DEF ScanEnd, Scan, programVars
<1> QED
  BY <1>3, <1>4, <1>5, <1>6, <1>7, <1>8, <1>9 DEF Parse

\* Only Define and Evaluate change what is written, and only once the text is parsed.
LEMMA StepEvaluation ==
  Known /\ Inv /\ Types /\ EvaluationInv /\ Known' /\ [TextNext]_vars => EvaluationInv'
<1> SUFFICES ASSUME Known, Inv, Types, EvaluationInv, Known', [TextNext]_vars
             PROVE  EvaluationInv'
  OBVIOUS
<1>1. CASE Parse
  <2>1. /\ status = "parsing" /\ UNCHANGED evaluationVars
        /\ \/ UNCHANGED m_sections
           \/ \E e \in Pieces : m_sections' = Append(m_sections, e)
                                /\ (m_sections = <<>> \/ e[1] # "version")
    BY <1>1, SectionsOfParse
  <2>2. into = <<>> /\ into' = <<>> /\ IsInjective(m_defines')
    BY <2>1 DEF EvaluationInv, evaluationVars
  <2>3. \A i \in DOMAIN m_sections' : i > 1 => m_sections'[i][1] # "version"
    <3>1. m_sections \in Seq(Pieces) /\ \A i \in DOMAIN m_sections : i > 1 => m_sections[i][1] # "version"
      BY DEF Known, EvaluationInv
    <3>2. CASE UNCHANGED m_sections
      BY <3>1, <3>2
    <3>3. ASSUME NEW e \in Pieces, m_sections' = Append(m_sections, e),
                 m_sections = <<>> \/ e[1] # "version"
          PROVE  \A i \in DOMAIN m_sections' : i > 1 => m_sections'[i][1] # "version"
      <4>1. \A i \in DOMAIN Append(m_sections, e) : i > 1 => Append(m_sections, e)[i][1] # "version"
        BY <3>1, <3>3, OneVersion
      <4> QED
        BY <3>3, <4>1
    <3> QED
      BY <2>1, <3>2, <3>3
  <2> QED
    BY <2>2, <2>3 DEF EvaluationInv
<1>2. CASE Evaluate
  <2>1. /\ status = "parsed" /\ UNCHANGED <<status, m_sections, m_errors, m_defines>>
    BY <1>2 DEF Evaluate, parserVars, programVars
  <2>2. m_errors = {} /\ ~thrown' => Evaluated'
    BY <1>2, EvaluateWrites DEF Known, EvaluationInv
  <2> QED
    BY <2>1, <2>2 DEF EvaluationInv
<1>3. ASSUME NEW name \in Macros, Define(name) PROVE EvaluationInv'
  <2>1. /\ status = "parsed" /\ into = <<>> /\ into' = <<>>
        /\ UNCHANGED <<status, m_sections, m_errors>>
        /\ name \notin ToSet(m_defines) /\ m_defines' = Append(m_defines, name)
    BY <1>3 DEF Define, parserVars, programVars
  <2>2. m_defines \in Seq(Macros) /\ name \notin Range(m_defines) /\ IsInjective(m_defines)
    BY <2>1 DEF Types, EvaluationInv, ToSet, Range
  <2>3. IsInjective(Append(m_defines, name))
    BY <2>2, AppendFacts
  <2> QED
    BY <2>1, <2>3 DEF EvaluationInv
<1>4. CASE UNCHANGED vars
  BY <1>4 DEF vars, parserVars, programVars, evaluationVars, EvaluationInv, Evaluated
<1> QED
  BY <1>1, <1>2, <1>3, <1>4 DEF TextNext

\* When the parser has read the end the text means what it has read.
LEMMA ParsedIsText == Known /\ Inv /\ EvaluationInv => ErrorFreeIsText
<1> SUFFICES ASSUME Known, Inv, EvaluationInv, status = "parsed"
             PROVE  /\ m_errors = {} <=> meaning # NoMeaning
                    /\ m_errors = {} =>
                         /\ m_sections = meaning.sections /\ m_type = meaning.type
                         /\ into # <<>> /\ ~thrown => Evaluated
  BY DEF ErrorFreeIsText, Evaluated
<1>1. CASE m_errors # {}
  BY <1>1 DEF Known
<1>2. CASE m_errors = {}
  <2>1. at = "program" /\ look = NoToken
    BY DEF Inv, Known
  <2>2. Even(at, held, m_sections, m_type, mode, meaning, eof)
    BY <1>2, <2>1 DEF Known
  <2>3. meaning = Reading("program", held, m_sections, m_type) /\ Holds("program", held)
    BY <2>1, <2>2 DEF Even
  <2>4. meaning # NoMeaning
    BY <2>3, ReadingIsMeaning DEF Known, Positions
  <2>5. meaning.sections = m_sections /\ meaning.type = m_type
    BY <2>3 DEF Reading
  <2> QED
    BY <1>2, <2>4, <2>5 DEF EvaluationInv
<1> QED
  BY <1>1, <1>2

\* A program without errors is what its text means, and evaluates to it with the
\* defines below the version line; the text of a program with errors means nothing.
THEOREM ErrorFreeProgramIsText == TextSpec => []ErrorFreeIsText
<1>1. TextInit => Inv /\ Types /\ Known /\ EvaluationInv
  BY InitInv, InitTypes, InitKnown, InitEvaluation
<1>2. Inv /\ Types /\ Known /\ EvaluationInv /\ [TextNext]_vars => (Inv /\ Types /\ Known /\ EvaluationInv)'
  BY StepInv, StepTypes, StepKnown, StepEvaluation
<1>3. Inv /\ Types /\ Known /\ EvaluationInv => ErrorFreeIsText
  BY ParsedIsText
<1> QED
  BY <1>1, <1>2, <1>3, PTL DEF TextSpec
=============================================================================
