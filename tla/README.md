# A verification of gawo

gawo is a small OpenGL framework in C++: a sprite renderer over a scene graph,
SDL windows, a logging library with an asynchronous sink, and `spp`, a shader
preprocessor that resolves include directives. This directory holds TLA+
modules that model its core logic, TLC configurations that check them on small
instances, and proofs, checked by TLAPS, of what holds for every instance.

`PROJECT.json` maps every definition to the lines it models, and lists the
runs, the mutants that show that each property depends on the code, the hazards
of the code, the findings and the theorems.

## 1. The system

| component | state | operations | meets |
|---|---|---|---|
| `LogAsynchronousSink` (`io/log`) | `m_log_queue`, `m_synchronous`, `m_terminated`, mutex, condition variable, a thread and its local buffer | constructor, `log_direct`, `thread_impl`, `set_synchronous`, destructor | every thread that logs; its backend sink |
| loggers and sinks' filters (`io/log`) | `m_level` of loggers and sinks, `m_sinks`, one mutex each | `log`, `logf`, `log_submit`, `LogSink::log`, `set_level`, `attach_sink` | the sinks' `log_direct` |
| tree of loggers (`io/log`) | `m_children`, `m_fullpath`, `m_level` | `get_child`, `get_logger`, `set_level` | static initialisers of every module, any thread |
| `SceneGraph` | parent (weak), children (shared), operator matrix, cached matrix | constructors, `addChild`, `setParent`, `changeMatrix`, `recalculate` | sprites, renderers, camera |
| `spp::Library` | cache of programs, loader, depth limit | `load`, `_load`, `resolve_includes`, `set_loader`, `set_max_include_depth` | parser, loader |
| `spp` text: scanner, parser, evaluation | start condition, parser stack, program, defines | `lex`, `parse`, `escape`, `unescape`, `define`, `evaluate` | library, application |
| `Sprite`, `SpriteRenderer`, `CameraRenderer` | position, size, layer, parent, three graph nodes; root node and size; camera offsets | constructors, setters, positions, `resize`, `move`, `rotate`, `zoom`, normal passes and colour picking | `SceneGraph`, OpenGL |
| GL wrappers, shader programs | names of OpenGL | `init`, `bind`, `load`, destructors | OpenGL |
| `SDLWindow` | window, context, size, `m_initializedgl` | constructor, `open`, `poll`, `setWidth`, `setHeight`, destructor | SDL, renderer |

Interaction: a logger calls the root logger, the root logger calls every sink
under its mutex, the asynchronous sink hands the record to its own thread, and
that thread calls the backend. Sprites and cameras own nodes of the scene graph
through weak pointers and call `changeMatrix`. The window's `onResize` reaches
the renderer, whose names of OpenGL live in the window's context. The library
calls itself through `_load` and `resolve_includes`, and the parser for each
file.

What is hard:

* *asynchronous sink*: four kinds of threads, a wait without a predicate, a
  flag that is set without the mutex, a mode that can be switched at any time,
  a shutdown that races with all of it. It is correct if no record is lost or
  written twice, if records keep their order, if the backend is never run twice
  at once, if callers return and if the destructor returns.
* *loggers*: the levels on a record's way are read one after another, under
  different mutexes or none, while they change. It is correct if a change takes
  effect between two calls and if the sinks agree on the order of the records.
* *scene graph*: cached products that several calls change and a recursion
  repairs, with shared and weak ownership. It is correct if no cached matrix is
  stale when no call runs, and if the children form a forest.
* *shader library*: a list that is edited under an iterator, a recursion that
  the cache guards, errors that pass from file to file. It is correct if `load`
  returns, if the errors are true, and if a program without errors is the text
  with its includes pasted in.
* *logger tree*: a lookup and an insertion without a lock, by any thread. It is
  correct if a logger in the tree stays and has its path, and if a call returns
  the logger it was asked for.
* *preprocessor text*: an error recovery that discards tokens and goes silent.
  It is correct if a text with errors never looks like one without, if a program
  without errors is the text, and if the parser always returns.
* *sprites and cameras*: fields and matrices in two places, calls that throw in
  the middle, nodes that go when somebody else's owner goes. They are correct
  if the matrix that is drawn is the one of the fields.
* *window and drawing*: an `open` that fails halfway, names with several owners,
  state of OpenGL that one pass leaves to the next. It is correct if everything
  is freed once, and if a click gives the sprite on top.

`hazards` in `PROJECT.json` names the line of each of these.

## 2. The modules

| module | what it is |
|---|---|
| `LogChannel` | abstract: what an asynchronous sink promises the loggers |
| `AsyncSink` | `LogAsynchronousSink`; implements `LogChannel` |
| `Logging` | loggers, root logger, filters of the sinks |
| `LoggerTree` | the tree of loggers, by several threads |
| `SceneGraph` | the scene graph |
| `Sprites` | sprites, renderer and camera, on top of `SceneGraph` |
| `Window` | `SDLWindow` |
| `Rendering` | names of OpenGL, shader programs, the passes of `SpriteRenderer` |
| `Screen` | `Window` and `Rendering` together |
| `ShaderText` | scanner, parser and evaluation of shader texts |
| `ShaderLibrary` | `Library` |
| `MC` and a name | the instance of that module for TLC |
| `SequenceFacts` | lemmas about sequences, and induction over the numbers, for the proofs |
| `GraphProofs` | theorems about `SceneGraph` and `Sprites` |
| `ScreenProofs` | theorems about `Window`, `Rendering` and `Screen` |
| a name and `Proofs` | theorems about the module of that name |

A definition with the comment "Mutant" is a plausible bug of the definition that
follows it; no specification uses it.

### AsyncSink

The variables are the members of the class, `mutex` (the owner of
`m_state_mutex`), the worker's local `buffer`, `written` (what the backend was
given), and the program counters `pc` (callers of `log_direct`), `wpc` (the
worker) and `dpc` (the destructor). Every action is the code between two points
where another thread can see or change the shared state: `Enqueue` is the
block that locks, pushes and unlocks, since nobody can observe its inside;
`EnterBackend` and `LeaveBackend` are two, because the backend runs in between
with the mutex held. `WorkerCheck`, `WorkerWait` and `WorkerWake` are the loop
condition, the wait, and the return from it: `DtorTerminate` and `DtorNotify`
take no mutex and can come between them. `notify_all` wakes the worker only if
it is waiting. `m_synchronous` starts with either value since the constructor
does not set it. A record is a pair of a thread and a number; `direct`, the records that were
written by the thread that logged them, is history. Not modelled: an
exception thrown by the backend or by an allocation. The flag
`m_terminated` is read and written as if it were atomic.

### Logging

One action per filter, so that `SetLevel` can come between any two of them.
`log` and `logf` differ in the mutex around one read of `m_level`, which is one
step either way. `log_submit` holds `root_mutex` from `Submit` to `Return`.
`log_direct` of a sink is one step: `root_mutex` serialises the calls, and
`AsyncSink` looks inside it for callers that are not even serialised. `seen` is
a history variable: the levels that the filters on a record's way have had since
the call began. The loggers exist from the start; `AttachSink` may come between
two calls, and at any moment of a call at which `log_submit` does not run, which
the guard on `root_mutex` says: to attach a sink while `log_submit` iterates is
undefined.

### SceneGraph

`m_parent` is a weak pointer: a node that is not alive does not lock. `held` are
the nodes the application owns by a `shared_ptr`; `Release` drops one, and what
no owner is left for goes with it. `recalculate()` is a recursion; `todo` is
what it still has to visit, in order, and the calls that end in it begin with an
empty `todo`. Matrices are a set with a product that the proofs know nothing of
but that it stays in the set; for TLC they are the permutations of three
elements, whose product does not commute. The graph has no lock and is used by
one thread, so no call starts before another has returned.

### ShaderLibrary

`files` is what the loader and the parser make of each path: a sequence of
sections and whether there was a syntax error. `stack` holds one frame for each
`resolve_includes` that has not returned, innermost first: its program so far,
the errors, the iterator as a position, and the depth. `m_cache[p]` is `Absent`,
`Loading` (the null entry) or a program. `Open` is the part of `_load` up to the
call of `resolve_includes`, `Finish` the part after it together with what the
caller does with the result. `NextAfter` is where the iterator stands after an
erase and the `++iter` of the loop. `Refusal` keeps the order of the tests in
`_load`: depth, then cache, then loader. An error is recorded as the file, the
reason and the included path; wording and locations are left out. The branch for
a parser that returns no program is left out: `ShaderTextProofs` shows that the
grammar recovers from every error. `SetLoader` and `SetMaxIncludeDepth` change
`files` and the limit between two calls of `load`; the cache stays, as in the
code. `parsed` (what a file held when it was parsed) and `past` (loaders and
limits there have been) are history, for the properties that have to say of
which files and limits an error speaks.

### LoggerTree

`pc` follows a thread through `get_logger` and `get_child`: `Find` is the
lookup, `Construct` the constructor, `Inherit` the `set_level` that copies the
parent's level, `Emplace` the insertion and the return. `Arrive` is what
`get_logger` does with the child it got. `Emplace` keeps an entry that exists
and frees the logger it was given, as `unordered_map::emplace` does, and the
reference to the freed logger is returned all the same. A thread for which that
is not the end of the path would go on in freed memory; it becomes `lost`, and
its further behaviour is undefined. That `m_children` is itself changed and read
by two threads at once is undefined, too: the model keeps the outcomes in which
each access is as if alone. A path is a sequence of names; the splitting at the
dots is abstracted. `asked` and `rivalled` are history.

### Sprites

The module extends `SceneGraph` and adds the members of `SpriteRenderer`,
`CameraRenderer` and `Sprite`. A setter writes its fields and calls
`changeMatrix` once, so it is one step, followed by the graph's own
`Recalculate`; a constructor makes several calls of the graph, and `call` says
how far it is. A lock that fails makes the call throw, after the fields were
written (`Write`). `Expire` is the end of the temporary `shared_ptr` in the
constructor without a parent. The constructor that takes a parent sprite builds
another, temporary sprite: what it leaves is an `m_parent` and three nodes that
belong to nobody. `Destroy`, `Keep`, `Drop` and `Close` are the owners that go
and come. `anchor`, `turned`, the depth in a sprite's size and the camera's `last`
and `given` (which of `rotate` and `zoom` was called last, and for which size or
point) are history: the properties compare the matrices with them and never read
an operator back out of the graph. Matrices are those of `SceneGraph`;
which matrix a position, size, angle or zoom gives is a parameter. For
`glm::mat4x4()` the identity is taken, which is what the versions of glm
before 0.9.9 give. Coordinates and sizes have no width, and
floats no rounding.

### Window, Rendering and Screen

`Window` has one action per call of `SDLWindow`. The result of `open()` is the
call of SDL that failed, or none; `contexts` are those SDL has, `m_context` what
the member says, which is garbage until `open()` reaches its assignment. `size`
is the window's real size and `events` the resize events that wait, so that
events of a former size can be handled late.

`Rendering` gives every wrapper object a name, or the garbage its uninitialised
`m_name` holds. `Generate` and `Delete` are `init()` and the destructor of any
kind; `NewTarget` is the constructor of `RenderToTexture` with its temporary.
Of OpenGL there are two framebuffers of few pixels, the window's and that of the
render target, which of them is bound, the program and the scissor; a program
that is not complete draws any colour. `InitTarget` leaves `m_fbo` bound with
undefined contents, as `RenderToTexture::init` does; `BindTarget` and
`UnbindTarget` are its `bind` and `unbind`, and the deletion of a bound
framebuffer binds the window's. The passes bind nothing: they clear, draw and
read wherever they are. `Pixels` are those that both framebuffers have, and the
target is taken to be complete. The colour of a sprite has the lower `Bits` of
its number. `moved` records that another framebuffer was bound during a pick.

`Screen` puts both together: the slot of `onResize` calls `resize()`, and the
application keeps to the order of the tests: it creates what needs OpenGL while
`initializedGL()` holds, calls a pass in the order `initialize`, `render`,
`finish`, and destroys what has names before it opens again or destroys the
window. A second `init()` of a `RenderToTexture`, which would leak the names of
the first, is excluded. `LoadMissing` is `loadTexture` of a file that is no
image: it reports that and dereferences the null surface.

### ShaderText

An item is what one rule of the scanner matches, so a text is a sequence of
items, chosen one by one while it is scanned; literals are sequences of
characters, for `Unescape`. `mode` is flex's start condition. The parser is the
automaton bison makes of the grammar, reduced to what can be told apart: `at` is
the position in a rule, `held` the values on the stack, `errstatus` bison's
counter of tokens to shift before errors are reported again. `SyntaxError` is
bison's recovery with `program: error` and `program: program error`;
`EscapeError` is the exception from the action of `strlit`. The file
`parser.ypp` is read without the line breaks a formatter put into bison's
keywords. `meaning` is a history variable, the reference: it follows the text
with the grammar of a correct text and nothing else. `Define` and `Evaluate` are
what the application does with a program. Left out: locations, the version
number, the texts of defines and messages, memory.

## 3. The runs

| run | instance | distinct states | result |
|---|---|---|---|
| `AsyncSink` | 2 threads, 2 records each, 2 switches, 1 spurious wakeup | 88 704 | passes |
| `AsyncSinkHang` | 1 thread, 1 record | (stops at the violation) | `DestructorReturns` is violated |
| `Logging` | 2 threads, 2 calls each, 2 loggers, 2 sinks, 2 levels, 2 changes; symmetry | 1 374 138 | passes |
| `LoggerTree` | 2 threads, 2 calls each, paths of up to 2 names, 2 levels, 1 change | 204 432 | passes |
| `SceneGraph` | 3 nodes, 2 operators; symmetry | 1 654 780 | passes |
| `SceneGraphDoc` | 2 nodes | (stops at the violation) | `DocGetMatrix` is violated |
| `Sprites` | 7 nodes, 2 sprites, renderer with or without camera, 2 settings away from the first; symmetry | 90 790 | passes |
| `SpritesZoom` | as `Sprites` | (stops at the violation) | `DocZoom` is violated |
| `Screen` | 2 windows, 3 sizes, 2 textures, a render target, 2 names a kind, 2 pixels, 2 bits; symmetry | 106 572 | passes |
| `ShaderText` | texts of up to 10 items, 4 literals, 2 macros | 815 135 | passes |
| `ShaderLibrary` | 3 files, depth limits 1 and 2, a change of loader or limit | 159 778 | passes |
| `ShaderLibraryAdjacent` | 2 files | (stops at the violation) | `IncludesResolved` is violated |

*AsyncSink.* `Conserved`: whatever the threads do, each record handed over is
in exactly one of queue, buffer and output. `ThreadOrder`: a thread's records
reach the backend in the order it logged them, in every mode and over every
switch of it, with one exception that the code has and the property names: after
a switch, a record that its own thread writes can be ahead of one that it queued
before. `BackendExclusive`: two callers never run the backend at once, and a
caller and the worker never do while nobody has switched the mode; with a switch
they do, and the code does not promise otherwise. `SinkTypeOK` says with the
types that whoever is in a critical section, and nobody else, owns the mutex.
`ChannelSpec` is the refinement of `LogChannel`: the queued records are the buffer and the queue, and what is left
in the queue when the sink is destroyed is given up, which is the end the code
gives them. `BatchComplete`: a batch that the worker has taken is written even
during the shutdown. `CallsReturn`, `NotifiedIsWritten` and
`SleepingSinkCloses` are what progress the code does guarantee. Two threads and
two records are enough for a record to be queued while another is written, for
two records in a batch, and for both orders of two callers; two switches take
the mode there and back.

*AsyncSinkHang.* The destructor sets the flag and notifies without the mutex. If
both happen after the worker has tested the flag and before it waits, nothing
ever wakes it and `join` does not return. The test program attaches such a sink
to the static root logger, which is destroyed when `main` has returned its
result. `SleepingSinkCloses` in the passing run is the other half: if the worker
sleeps already when it is notified, the destructor returns.

*Logging.* `SinksAgree`: two sinks never get two records in different orders.
`Explained`: when a call ends, each sink that got the record was behind filters
that all admitted it at some moment of the call, and each that did not was
behind one that refused it, or was not attached, at some moment. Two changes
let a level go there and back during a call; two levels are all that a
comparison tells apart.

*LoggerTree.* `TreeOK`: a logger in the tree is alive, has a level, the path of
its place, and only one place; `RegisteredStay`: nothing in the tree is ever
replaced. `AnswerIsRegistered`: a call returns the logger of the path it was
asked for, unless another thread inserted a name while the call was creating it;
then, and only then, the returned reference may be to a freed logger. That is
the race the code has; the property says how far its effect reaches. Two threads
and two levels of the tree give every race between a creation of a logger, of
its parent, and of a logger beside it; eight loggers are all that four calls can
create. `CallsReturn`: the walk over the path ends.

*SceneGraph.* `StaleIsPending` looks inside a recalculation and, when none runs,
says that every linked node's matrix is its parent's times its operator;
`MatrixIsPathProduct` compares with the product of the operators
on the path to the root, in the order of the path, for the nodes that were
created by `addChild` all the way and not moved. `ChildrenFormForest` says that
`recalculate` visits a node at most once and that ownership has no cycle. Three
nodes give chains and forks, a node moved below its own child, and a parent that
is released while its child lives.

*SceneGraphDoc.* The header promises that `getMatrix` is the ancestor's matrix
times the operator. `setParent` and the constructor with a parent do not enter
the node into the parent's `m_children`, so it is not recalculated when the
parent changes.

*Sprites.* `SpriteMatrix`: whenever no call runs and the nodes of a sprite are
there, the matrix `render()` passes to the shader is that of the node the sprite
hangs from, its position, its last rotation and its size, whatever was set,
resized, moved, zoomed or destroyed before, and although setters write fields
before they throw. The pivot of the rotation is that of its own moment, as in
the code. `CameraMatrix` is the same for what a camera hands out as a
parent: projection of the present size, position, and the last of `rotate` and
`zoom`, with the angle or the factor that all calls of it add up to and the size
or the point it was given. `OnlyOrphansThrow` says which calls throw: a
constructor that was given a living node finds every node it locks, one that was
given none has lost its first node when it locks it; a sprite has all its nodes
or none, and they, like the camera's, are there while what they hang from is.
Seven nodes are the root, three for each of two
sprites, or the camera's and one sprite's.

*SpritesZoom.* The header says that `rotate` modifies the rotation matrix and
`zoom` the scalation matrix, each relative to its own calls before. Both write the
rotation node, so that a camera that was rotated and zoomed shows only the last of
the two, whatever centre and point one takes.

*Screen.* `ContextFreed`: whichever call of `open()` fails, a window that was
opened once leaves no context behind, and `initializedGL()` never holds without
one; the destructor reads a garbage `m_context` only if no window could be
created. A window opened twice does leak the first context, which the property
excludes. `NamesAreOwn`: no name is left when all its owners are gone, whichever
of renderer and sprites goes first, and while they live, no name is deleted or
has two owners, unless `RenderToTexture`'s temporary deletes one by chance,
which `stray` records. `PickIsTopmost`: the number `finishClick` returns
is that of the topmost sprite at the pixel, or white, whatever was drawn before,
with whatever scissor and colour, and in whichever framebuffer `init` or `bind`
has left bound. It is so in the bits a colour has. The header promises it of the
whole answer; the byte above is never written, is garbage in the model too, and
no property of it holds. A pick during which another framebuffer is bound, and one
without a complete program, are excluded. Two pixels tell the clicked one from
others, two bits a number that fits from one that does not.

*ShaderText.* `ErrorFreeIsText`: a program has an error exactly if its text
means nothing, and one without errors has the sections and the type of its text
and evaluates to it, with the defines below the version line.
`AlwaysProgram`: every text becomes a program, the end of the file included.
Ten items are a version line of five, an include directive of four and one more,
or an error and enough tokens behind it for the recovery to end.

*ShaderLibrary.* The files are all combinations of: a line of source, an
include, two includes, two includes with a line between them, a broken file that
is empty or includes itself, and no file; includes may form any cycle. The
limit 1 is exceeded by a chain of three files; a later loader has nothing, or
files that include the first. `ErrorsAreTrue`: an error names a file that is
really included, and the reason is one the files, as they were parsed, and the
limits there have been justify. `ProgramsStay`: a program in the cache never
changes, so the pointers `load` returned stay good.
`ErrorFreeIsExpansion`: a program without errors is the text with all includes
pasted in; it leaves out files with two includes on one line, for the reason
that the next run shows. `LoadReturns`: the loop and the recursion end.

*ShaderLibraryAdjacent.* After an include the loop steps over the next section.
A newline between two directives is a section of its own, so this shows only
with two directives on one line: the second one stays in a program that has no
errors, and evaluating it throws.

### Bounds

`MaxRecords`, `MaxSwitches`, `MaxSpurious`, `MaxCalls` and `MaxChanges` stop the
actions that would otherwise go on for ever; they are guards of the actions that
start something (`Call`, `SetSynchronous`, `SpuriousWakeup`, `SetLevel`), never
of one that completes it. The safety theorems hold for every value of them.
The others are bounds of the instance:

* `MaxLoggers` (`LoggerTree`) is all that the calls can create;
* in `Sprites`, a constructor starts only if `Nodes` has room for all it creates;
  `Factors` are the zoom factors looked at, and a call that would leave them is
  not made; the constraint `FewChanges` lets `MaxChanged` of the settings differ
  from those at first, so that every pair of setters meets;
* `MaxEvents` (`Window`) bounds the queue of events, and guards the window system
  and `open()`, which put events there; the constraint `OneAtATime` of `MCScreen`
  lets one of window, names and passes leave its usual state at a time, since
  they meet in few places: a resize in a pass, textures in a pass or beside a
  render target are still there; `OneDrawn`, a part of it, keeps one of the two
  framebuffers plain and the programs complete while there is a render target,
  which is what two framebuffers add to a pass;
* `MaxItems` (`ShaderText`) bounds the text; the constraint `ShortDefines` keeps
  `Define` to texts of `MaxEvaluated` items, where all kinds of sections occur;
* the constraint `FewSettings` (`MCShaderLibrary`) allows one change of loader or
  limit. `DefaultDepth` stands for the 100 of the code.

Deadlock is not checked where all threads may be done (or, for the sink, may
hang, which is the finding).

### Fairness

`AsyncSink`: weak fairness of each caller within `log_direct`, of the worker and
of the destructor once it runs. It stands for an operating system that runs a
thread that can run and a mutex that does not starve a waiter for ever. Nothing
forces a thread to log, to switch the mode or to destroy the sink, and nothing
forces a spurious wakeup. The bound on the records keeps the mutex from being
taken infinitely often by others. `ShaderLibrary`: a `load` that has begun runs
on. `LoggerTree`: weak fairness of each thread within a call; there is no lock
it could wait for. `ShaderText`: `parse()` runs on, and every text has an end. The other
modules have no liveness properties: none of their calls waits or loops for
another.

## 4. The theorems

All of them are about every value of the constants, under the named assumptions
of the modules:

* what stands for nobody, nothing or garbage (`Nobody`, `None`, `NoToken`,
  `Absent`, `Null` and the like) is not one of the things it is told from, and
  the textures have other names than the buffers and targets;
* bounds, depth limits and colours are natural numbers, levels are integers, the
  sizes a window can have are sizes a renderer can have;
* the product of two matrices is a matrix, and the operators that sprites and
  cameras make are matrices. Of these nothing else is assumed, but that a
  translation by zero is the identity;
* a file that parses without an error starts with its version declaration, which
  `ValidStartsWithVersion` proves of the parser.

Where nodes or paths are counted, that they are finitely many is a hypothesis of
the theorem. Induction over the numbers is used in the form "a set that has 0 and
with every number the next one has all of them" (`AllNumbers` of
`SequenceFacts`), which follows from the order of the numbers being well-founded.

* `AsyncSinkProofs`. `Control` (types, mutex, mode, batch and life cycle) is
  inductive and gives `SinkTypeCorrect`, `ModeIsStable` and
  `BatchesAreWritten`: where the worker and the destructor are tells what may be
  left in the buffer. `Conservation` needs it to know that queue and buffer change
  only by whole moves. `BackendIsExclusive` needs that without a switch queue and
  worker's buffer are empty in synchronous mode. `ThreadsInOrder` states output,
  buffer and queue as one sequence, `Accepted`, in which a step puts a record in
  one place (`OrderInsert`): at the end, or, when its own thread writes it, behind
  the output. What it then overtakes is queued, and not in `direct`, for those
  have been written (`DirectInv`).
  `ImplementsChannel` shows every step to be a step of `LogChannel` or a stutter.
* `LoggingProofs`. `LoggingTypeCorrect` has the mutex with the types, since the loop
  over the sinks is its critical section. `OrderInv` adds to the agreement of the sinks that the
  thread in the loop has given its record to none of the sinks whose turn is
  still to come, and that what it has given to a sink is that sink's last
  record: without it two sinks could be in the middle of different records.
  `SeenInv` says that every filter on a record's way shows something that has
  been seen, and that each answer so far has its reason; `LevelsExplain`
  follows at the three places where a call ends.
* `LoggerTreeProofs`. `IInv` adds to the tree what each call knows: `WalkingAt`
  (it stands on a logger in the tree, and path so far and remainder are what was
  asked), `MakingAt` (its new logger is in no place yet, alive and nobody else's)
  and `RacingAt` (if the name it creates is in the tree by now, another thread
  has inserted it). The last one makes `OnlyRacesDangle` inductive: the moment of
  the insertion marks all rivals.
* `GraphProofs`, the graph. `OnlyPendingAreStale` rests on `ParentBorn`: a node
  that was not constructed yet is nobody's parent, so that its construction makes
  no existing matrix stale. `MatricesUpToDate` follows, because between
  recalculations nothing is pending. `MatrixIsProductOfPath` is an induction over
  the length of the path: the matrix of each node on it is its parent's times its
  operator, and the definition by recursion has the same value at each length.
  `ChildrenAreForest` needs that a node that was not constructed is no child and
  has none, and a rank that grows from a node to its children: only a new node
  becomes a child, and it can take a rank above its parent's. A walk down the
  children then never comes back.
* `GraphProofs`, the sprites. `SpriteInv` is the types and that the temporary node
  of a constructor is not the root of a renderer. The lemma
  `ImplementsGraph` goes through the calls, each of which creates a fresh node
  below a living one, writes a living node, or leaves the graph alone; it lets
  what is proved of `SceneGraph` be used below sprites, as `SpriteGraphUpToDate`
  does. `PlacesInv` says who holds
  which node: no node is in two triples, the three of a triple hang below one
  another, and the first below the anchor, at every stage of a constructor too.
  So a node cannot go while its anchor is there (`ThrowsOfOrphans`): its owner is its
  parent's `m_children`. `OperatorInv` says that each node of a triple has the
  operator of the last setter, or of the last of `rotate` and `zoom`; a call writes the nodes of one triple only, which
  is why the others keep theirs. With `StaleIsPending` this gives
  `SpriteIsDrawnWhereItIs` and `CameraLooksWhereItIs`.
* `ScreenProofs`. `RendererOwns` (the renderer's buffers have no names when there
  is no renderer) makes the types inductive. `ContextInv` is `ContextFreed` with
  what holds before: a garbage `m_context` means that no window was ever created.
  `NamesInv` says that all names have owners and, as long as no temporary has
  deleted a name by chance, that owners' names are known and differ: every call is
  a generation for objects without names, a deletion, or `NewTarget`. `PickInv`
  relates the pixel at `m_click` of the framebuffer that is bound to the number
  that was drawn last, during the pass and, in the bits of a colour, after it, as
  long as the framebuffer stays the same. That `m_fbo` is bound only while it has
  a name (`BoundStep`) keeps the deletion of a target from changing a pass without
  notice. The theorems are `ScreenTypeCorrect`,
  `ContextsAreFreed`, `NamesBelongToObjects` and `PickAnswersTopmost`.
* `ShaderLibraryProofs`, cache and recursion. `RecursionIsMarked` and
  `RecursionIsBounded` rest on the shape of the stack, `IncludedHasVersion` on the
  same for the programs that are still being resolved: the first section of a
  program without a syntax error is never replaced. `CachedProgramsStay`: `_load`
  writes the entry of a path only while it is absent or null.
* `ShaderLibraryProofs`, what the programs are. `TrueInv`: the stack is a chain of
  includes, what a frame has still to look at is from its own file, and the errors
  so far are true; files that were parsed, loaders and limits only become more, so
  what was true stays. `ReportedErrorsAreTrue` follows, with `Closure` as the least
  set closed under includes. `PasteInv`: a frame without errors is, up to where it
  stands, the beginning of its file with the includes pasted in, and behind that
  the rest of its file (`Pastes`); a program in the cache is all of its file, pasted
  with the programs in the cache. The programs have an order in which each comes
  behind what it includes, namely that in which they were finished. By induction
  over it, a program is the expansion: `ErrorFreeProgramIsExpansion`.
* `ShaderTextProofs`. `Inv`: while the parser is silent there is an error, right
  after an error nothing but `program` is on its stack, so the end of the file is
  accepted there, and without an error the version line came before all else.
  `ParserAnswers` (the parser never gives up) and `ValidStartsWithVersion` follow,
  for texts of any length. `Known` relates the parser to the reference, which is
  one token ahead: as long as there is no error, the meaning is what the parser has
  read (`Even`), or will have read when it has taken the token (`Ahead`), and when
  the token will be an error the text means nothing. `EvaluationInv` does the
  same for the evaluation: the defines go in once each, behind the one version
  line. `ErrorFreeProgramIsText` is the two together. `UnescapeUndoesEscape` is
  about the two folds over the characters, for all literals without backslash and
  carriage return.

`ModeIsStable`, `MatricesUpToDate`, `RecursionIsBounded`, `ParserAnswers`,
`ValidStartsWithVersion` and `UnescapeUndoesEscape` state facts of the code that no
run lists: parts of the invariants, or lemmas of their own.

Only model-checked are the liveness properties (`CallsReturn` of `AsyncSink` and
of `LoggerTree`, `NotifiedIsWritten`, `SleepingSinkCloses`, `LoadReturns`,
`AlwaysProgram`): the prover does not do fairness. Every invariant and every
action property of the passing runs has a theorem.

## 5. The findings

* `AsyncSinkHang`: the destructor of the asynchronous sink can wait for ever.
* `SceneGraphDoc`: a node with a parent from `setParent` or the constructor is
  not updated with it.
* `ShaderLibraryAdjacent`: of two includes on one line the second stays.
* `SpritesZoom`: a camera that was rotated and zoomed shows only the last of the two.

Seen on the way and not stated as a property of a run: a logger that loses a race
in `get_child` is returned freed (`AnswerIsRegistered` tells when); the
constructor of a sprite without a parent always throws, and the one with a parent
sprite leaves a sprite without nodes (`OnlyOrphansThrow` has the cases);
`getAbsolutePosition` (`spriterenderer.cpp:107`) subtracts the positions of the
ancestors that `spriterenderer.hpp:84-86` says are added; `unescape` makes a line
feed of `\r` where its comment says carriage return (`ast.cpp:58-59`);
`finishClick` returns a byte it never wrote (`spriterenderer.cpp:245`) where
`spriterenderer.hpp:172` promises the sprite or `$FFFFFF`; a node whose parent is
gone keeps the dead parent's matrix until it is recalculated; a window that is opened twice leaks a context, and a failing second `open`
leaves `initializedGL()` true; `loadTexture` reads a surface it did not get.

## 6. Not modelled

* `LogTTYSink` and the formatting of messages (`awesomef`, `level_name`): one
  formatted write, no state. `LogPipe`: a buffer of one caller that only
  `submit()` logs. `RootLogger::sinks()`: hands out the lock and the sinks.
  Timestamps: nothing is promised of their order.
* A composition of `Logging` with `AsyncSink`: `root_mutex` makes the calls of a
  sink a sequence, and `AsyncSink` allows more than that already.
* `Program::copy`, which nothing calls; locations; the width of version numbers
  (`atoi`) and of coordinates; rounding.
* Buffers, attributes, the error strings of OpenGL, the GLSL files: single calls
  or data. Titles, `swap` and the mouse of `SDLWindow`: no state of this code.
* `getRelativePosition` and `getAbsolutePosition`: they change nothing, and no other
  code calls them. `RenderToTexture::check`: the target is taken to be complete.
* `X11Window`, which no target builds; tests and build files.
