--------------------------- MODULE ShaderLibrary ---------------------------
(* Library of the shader preprocessor (spp/context.hpp, src/spp/context.cpp): *)
(* _load parses a file and resolve_includes replaces its include directives   *)
(* by the sections of the included files, recursively.  The recursion is the  *)
(* stack of frames, one for each resolve_includes that has not returned.      *)
EXTENDS Integers, Sequences, FiniteSets, SequencesExt

CONSTANTS Paths,
          Missing,           \* the loader has no stream for a path
          Absent,            \* the cache has no entry for a path
          Loading,           \* the cache has a null entry for a path
          FileSystems,       \* what the parser makes of the files, for every path
          Replacements,      \* those a loader set later may give
          Depths,            \* the limits of the include depth
          DefaultDepth       \* the one a new library has

\* Sections of a program: what it is, the path it names or comes from, and a
\* number that tells the source lines of a file apart.
Sections == {"version", "source", "include"} \X Paths \X Nat
IsInclude(s) == s[1] = "include"

\* A parsed file; a broken one has syntax errors and any sections whatever.
Files == [sections : Seq(Sections), broken : BOOLEAN]

\* The parser puts the version declaration first or records an error.
WellFormed(f) == ~f.broken => f.sections # <<>> /\ f.sections[1][1] = "version"

ASSUME FileAssumption ==
  \A fs \in FileSystems :
    /\ fs \in [Paths -> Files \cup {Missing}]
    /\ \A p \in Paths : fs[p] # Missing => WellFormed(fs[p])
ASSUME MissingAssumption == Missing \notin Files
ASSUME ReplacementAssumption == Replacements \subseteq FileSystems
ASSUME DepthAssumption == Depths \subseteq Nat /\ DefaultDepth \in Depths

Reasons == {"syntax", "depth", "recursion", "missing"}

\* Recorded errors: in which file, why, and at the include of which path.
Errors == Paths \X Reasons \X Paths
Programs == [sections : Seq(Sections), errors : SUBSET Errors]
Frames == [path : Paths, sections : Seq(Sections), errors : SUBSET Errors,
           at : Nat \ {0}, depth : Nat]

ASSUME EntryAssumption ==
  /\ Absent # Loading
  /\ Absent \notin Programs \cup Files /\ Loading \notin Programs

VARIABLES files,    \* what m_loader and the parser give for every path
          m_max_include_depth,
          m_cache,
          stack,    \* the innermost resolve_includes is the first frame
          parsed,   \* history: what each file held when it was parsed
          past      \* history: the loaders and the limits there have been

settings == <<files, m_max_include_depth, past>>
vars == <<settings, m_cache, stack, parsed>>

TypeOK ==
  /\ files \in FileSystems
  /\ m_max_include_depth \in Depths
  /\ parsed \in [Paths -> Files \cup {Absent}]
  /\ past \subseteq FileSystems \X Depths
  /\ m_cache \in [Paths -> Programs \cup {Absent, Loading}]
  /\ stack \in Seq(Frames)

Init ==
  /\ files \in FileSystems
  /\ m_max_include_depth = DefaultDepth
  /\ past = {<<files, DefaultDepth>>}
  /\ parsed = [p \in Paths |-> Absent]
  /\ m_cache = [p \in Paths |-> Absent]
  /\ stack = <<>>

Cached(p) == m_cache[p] \notin {Absent, Loading}

-----------------------------------------------------------------------------
(* resolve_includes: the iterator is the position `at` *)

\* After an erase or a splice the iterator stands on the section that followed
\* the include; `continue`, or the end of the body, moves on to the one after.
NextAfter(s, i) == IF i > Len(s) THEN i ELSE i + 1

Without(s, i) == SubSeq(s, 1, i - 1) \o SubSeq(s, i + 1, Len(s))

\* Mutant: the included file's version declaration is copied along.
SpliceAll(s, i, t) == SubSeq(s, 1, i - 1) \o t \o SubSeq(s, i + 1, Len(s))

\* The include at i is replaced by all but the first section of t.
Splice(s, i, t) == SubSeq(s, 1, i - 1) \o Tail(t) \o SubSeq(s, i + 1, Len(s))

\* Mutant: the iterator is put back in front of the erased include.
RejectedStepsBack(f, errors) ==
  [f EXCEPT !.sections = Without(f.sections, f.at),
            !.errors = @ \cup errors,
            !.at = @ - 1]

\* Mutant: the include is not erased and the loop looks at it again.
RejectedStays(f, errors) == [f EXCEPT !.errors = @ \cup errors]

\* The include fails: it is removed and the errors are recorded.
Rejected(f, errors) ==
  [f EXCEPT !.sections = Without(f.sections, f.at),
            !.errors = @ \cup errors,
            !.at = NextAfter(Without(f.sections, f.at), @)]

\* The included program's errors are passed on, or its sections are copied.
Included(f, prog) ==
  IF prog.errors # {}
    THEN Rejected(f, prog.errors)
    ELSE [f EXCEPT !.sections = Splice(@, f.at, prog.sections),
                   !.at = NextAfter(Splice(f.sections, @, prog.sections),
                                    @ + Len(prog.sections) - 1)]

Current == Head(stack)
AtInclude == /\ stack # <<>>
             /\ Current.at <= Len(Current.sections)
             /\ IsInclude(Current.sections[Current.at])
Target == Current.sections[Current.at][2]

SetCurrent(f) == stack' = <<f>> \o Tail(stack)

StepOver ==
  /\ stack # <<>>
  /\ Current.at <= Len(Current.sections)
  /\ ~IsInclude(Current.sections[Current.at])
  /\ SetCurrent([Current EXCEPT !.at = @ + 1])
  /\ UNCHANGED <<settings, m_cache, parsed>>

-----------------------------------------------------------------------------
(* _load *)

\* Mutant: the file is not marked as being loaded.
OpenUnmarked(p, depth, below) ==
  /\ m_cache[p] = Absent
  /\ files[p] # Missing
  /\ UNCHANGED m_cache
  /\ parsed' = [parsed EXCEPT ![p] = files[p]]
  /\ stack' = <<[path |-> p, sections |-> files[p].sections,
                 errors |-> IF files[p].broken THEN {<<p, "syntax", p>>} ELSE {},
                 at |-> 1, depth |-> depth + 1]>> \o below

\* Mutant: the syntax errors of the parser are not kept.
OpenForgetsErrors(p, depth, below) ==
  /\ m_cache[p] = Absent
  /\ files[p] # Missing
  /\ m_cache' = [m_cache EXCEPT ![p] = Loading]
  /\ parsed' = [parsed EXCEPT ![p] = files[p]]
  /\ stack' = <<[path |-> p, sections |-> files[p].sections, errors |-> {},
                 at |-> 1, depth |-> depth + 1]>> \o below

\* A file that was not loaded before is parsed, marked as being loaded, and its
\* includes are resolved at the next depth.
Open(p, depth, below) ==
  /\ m_cache[p] = Absent
  /\ files[p] # Missing
  /\ m_cache' = [m_cache EXCEPT ![p] = Loading]
  /\ parsed' = [parsed EXCEPT ![p] = files[p]]
  /\ stack' = <<[path |-> p, sections |-> files[p].sections,
                 errors |-> IF files[p].broken THEN {<<p, "syntax", p>>} ELSE {},
                 at |-> 1, depth |-> depth + 1]>> \o below

TooDeep(depth) == depth > m_max_include_depth

\* Mutant: a file being loaded is taken for one that cannot be opened.
RefusalUnordered(p, depth) ==
  CASE TooDeep(depth) -> "depth"
    [] ~TooDeep(depth) /\ (files[p] = Missing \/ m_cache[p] = Loading) -> "missing"
    [] OTHER -> "none"

\* Why _load throws or returns nullptr: the depth is tested before the cache.
Refusal(p, depth) ==
  CASE TooDeep(depth) -> "depth"
    [] ~TooDeep(depth) /\ m_cache[p] = Loading -> "recursion"
    [] ~TooDeep(depth) /\ m_cache[p] = Absent /\ files[p] = Missing -> "missing"
    [] OTHER -> "none"

IncludeRefused ==
  /\ AtInclude
  /\ Refusal(Target, Current.depth) # "none"
  /\ SetCurrent(Rejected(Current, {<<Current.path, Refusal(Target, Current.depth), Target>>}))
  /\ UNCHANGED <<settings, m_cache, parsed>>

IncludeCached ==
  /\ AtInclude
  /\ Refusal(Target, Current.depth) = "none"
  /\ Cached(Target)
  /\ SetCurrent(Included(Current, m_cache[Target]))
  /\ UNCHANGED <<settings, m_cache, parsed>>

IncludeOpens ==
  /\ AtInclude
  /\ Refusal(Target, Current.depth) = "none"
  /\ Open(Target, Current.depth, stack)
  /\ UNCHANGED settings

\* The end of the loop: the program goes into the cache and back to the caller,
\* which is load() or the resolve_includes that met the include.
Finish ==
  /\ stack # <<>>
  /\ Current.at > Len(Current.sections)
  /\ LET prog == [sections |-> Current.sections, errors |-> Current.errors]
     IN /\ m_cache' = [m_cache EXCEPT ![Current.path] = prog]
        /\ stack' = IF Tail(stack) = <<>> THEN <<>>
                    ELSE <<Included(stack[2], prog)>> \o Tail(Tail(stack))
  /\ UNCHANGED <<settings, parsed>>

\* load() of a file that is not in the cache; a cached or a missing file is
\* answered without a change of state.
Load(p) ==
  /\ stack = <<>>
  /\ Open(p, 0, <<>>)
  /\ UNCHANGED settings

\* Mutant: a new loader starts with an empty cache.
SetLoaderClears(fs) ==
  /\ stack = <<>>
  /\ files' = fs
  /\ past' = past \cup {<<fs, m_max_include_depth>>}
  /\ m_cache' = [p \in Paths |-> Absent]
  /\ UNCHANGED <<m_max_include_depth, stack, parsed>>

\* set_loader and set_max_include_depth leave what is in the cache as it is.
SetLoader(fs) ==
  /\ stack = <<>>
  /\ files' = fs
  /\ past' = past \cup {<<fs, m_max_include_depth>>}
  /\ UNCHANGED <<m_max_include_depth, m_cache, stack, parsed>>

SetMaxIncludeDepth(depth) ==
  /\ stack = <<>>
  /\ m_max_include_depth' = depth
  /\ past' = past \cup {<<files, depth>>}
  /\ UNCHANGED <<files, m_cache, stack, parsed>>

Settings == \/ \E fs \in Replacements : SetLoader(fs)
            \/ \E depth \in Depths : SetMaxIncludeDepth(depth)

Resolve == StepOver \/ IncludeRefused \/ IncludeCached \/ IncludeOpens \/ Finish

Next == Resolve \/ Settings \/ \E p \in Paths : Load(p)

Spec == Init /\ [][Next]_vars

\* A load() that has begun runs on; nobody has to call load().
FairSpec == Spec /\ WF_vars(Resolve)

-----------------------------------------------------------------------------
(* Properties *)

OnStack == {stack[i].path : i \in DOMAIN stack}

\* The null entry in the cache marks exactly the files whose resolve_includes
\* has not returned, and none is being resolved twice.
LoadingIsOnStack ==
  /\ \A p \in Paths : m_cache[p] = Loading <=> p \in OnStack
  /\ \A i, j \in DOMAIN stack : stack[i].path = stack[j].path => i = j

\* The recursion is never deeper than the limit allows.
DepthBounded ==
  /\ \A i \in DOMAIN stack : stack[i].depth = Len(stack) + 1 - i
  /\ Len(stack) <= m_max_include_depth + 1

\* The comment at the splice: a valid program has a version declaration, an
\* invalid one has an error, so that skipping the first section is safe.
ValidHasVersion ==
  \A p \in Paths : Cached(p) =>
    \/ m_cache[p].errors # {}
    \/ m_cache[p].sections # <<>> /\ m_cache[p].sections[1][1] = "version"

\* What a file included when it was parsed.
Includes(p) == IF parsed[p] = Absent THEN {}
               ELSE {s[2] : s \in {t \in Range(parsed[p].sections) : IsInclude(t)}}

\* The files at the end of a chain of n includes that starts at p.
Chain(p, n) ==
  LET f[k \in 0..n] == IF k = 0 THEN {p} ELSE UNION {Includes(q) : q \in f[k - 1]}
  IN f[n]

\* The files p includes, directly or not, and p itself.
Closure(p) == UNION {Chain(p, n) : n \in 0..Cardinality(Paths)}

ErrorIsTrue(e) ==
  LET f == e[1] why == e[2] q == e[3] IN
  CASE why = "syntax"    -> parsed[f].broken
    [] why = "missing"   -> q \in Includes(f) /\ \E c \in past : c[1][q] = Missing
    [] why = "recursion" -> q \in Includes(f) /\ f \in Closure(q)
    [] why = "depth"     -> /\ q \in Includes(f)
                           /\ \E p \in Paths, c \in past : f \in Chain(p, c[2])

\* No error is reported, or passed on to an including file, that the files, the
\* loaders and the limits there have been do not justify: it belongs to an
\* included file and names its real cause.
ErrorsAreTrue ==
  \A p \in Paths : Cached(p) =>
    \A e \in m_cache[p].errors : e[1] \in Closure(p) /\ ErrorIsTrue(e)

\* No include follows another one directly in a file.
NoAdjacentIncludes(p) ==
  \A i \in 1..(Len(parsed[p].sections) - 1) :
    ~(IsInclude(parsed[p].sections[i]) /\ IsInclude(parsed[p].sections[i + 1]))

\* What a section becomes when an include is replaced by all but the first
\* section of the text of its file, and what some sections become.
Pasted(s, texts) == IF IsInclude(s) THEN SubSeq(texts[s[2]], 2, Len(texts[s[2]])) ELSE <<s>>
AllPasted(sections, texts) ==
  FlattenSeq([i \in DOMAIN sections |-> Pasted(sections[i], texts)])

\* The files with every include replaced by the included text, k levels deep:
\* what a preprocessor that pastes files would produce.
Expansion(k) ==
  LET texts[n \in 0..k] ==
        [p \in Paths |-> IF n = 0 \/ parsed[p] = Absent THEN <<>>
                         ELSE AllPasted(parsed[p].sections, texts[n - 1])]
  IN texts[k]

\* A program without errors is the text with all its includes pasted in, if no
\* file it includes has two includes in a row.
ErrorFreeIsExpansion ==
  \A p \in Paths :
    Cached(p) /\ m_cache[p].errors = {} /\
    (\A q \in Closure(p) : parsed[q] # Absent => NoAdjacentIncludes(q)) =>
      /\ \A q \in Closure(p) : parsed[q] # Absent /\ ~parsed[q].broken
      /\ m_cache[p].sections = Expansion(Cardinality(Paths))[p]

\* The pointers load() has returned stay good, and the programs behind them as
\* they were, whatever is loaded or set afterwards.
ProgramsStay == [][\A p \in Paths : Cached(p) => m_cache'[p] = m_cache[p]]_vars

\* load() returns.
LoadReturns == stack # <<>> ~> stack = <<>>

\* An error-free program has no include left (IncludeDirective::evaluate throws
\* "cannot evaluate IncludeDirective", the tests expect load() to resolve them).
IncludesResolved ==
  \A p \in Paths : Cached(p) /\ m_cache[p].errors = {} =>
    \A i \in DOMAIN m_cache[p].sections : ~IsInclude(m_cache[p].sections[i])
=============================================================================
