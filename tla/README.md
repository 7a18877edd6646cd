# SonarJS: a TLA+ verification of the bridge, its caches and its data-flow rules

SonarJS analyses JavaScript, TypeScript and CSS. The SonarQube/SonarLint plugin
is Java; the analysis itself runs in a Node.js process, the *bridge*, which the
plugin deploys, starts, pings, talks to over HTTP and shuts down. What is hard
to test in this system is exactly that: two processes, four threads, timers on
both sides, requests that are abandoned while they are being served, crashes on
either side, a runtime on disk that several plugin processes share, analyses that
share a worker, a cache that is carried from one analysis to the next, and in the
IDE a cache that has to follow the disk from one file event to the next. Among
the rules some are algorithms of their own: two data-flow analyses and a metric
with a dozen counters. This project models those parts, checks them with TLC and
proves their safety properties with TLAPS.

## 1. Inventory

| Component | State | Operations | Hard behaviour | Correct if |
|---|---|---|---|---|
| Bridge server, Node.js main thread (`packages/bridge/src/server.ts`, `delegate.ts`, `router.ts`, `timeout/`, `errors/`) | open responses, once-listeners on the worker, orphan watchdog, `pendingCloseRequests`, `listening` | one handler per route, `/status`, `/close`, worker `message`/`exit`, `finish`, timer, server `close` | results are matched to requests by arrival only; connections vanish; worker dies | each caller gets its own result, nobody waits for ever, an orphan shuts down |
| Worker thread (`worker.ts`, `handle-request.ts`) | its port, requests in progress | take a message, await, post the result, close, crash | asynchronous handler, results out of order, messages behind `close` | one result per request |
| Java client (`BridgeServerImpl`, `Http`, `NodeCommand`, `AbstractBridgeSensor`) | `status`, `nodeCommand`, `port`, heartbeat, `latestOKIsAliveTimestamp` | `startServerLazily`, wait, heartbeat, `clean` | start timeouts, interrupts, a server that comes up after it was given up, restarts | a bridge in use is kept alive, nothing is left running, a failed server is retried |
| Embedded runtime (`EmbeddedNode`) | runtime and `version.txt` on disk, file lock | `deploy`, `isDifferent`, `extractWithLocking`, `extract` | several processes, crashes at any step, checks made outside the lock | the version file can be believed |
| TypeScript programs, project analysis, linter registry (`packages/jsts/src/program`, `analysis/projectAnalysis`, `linter/linters.ts`; Java `AnalysisWithProgram`) | program registry, linters, pending files, work list | initialise the linter, create, analyze, delete, follow references | several analyses on one worker, reference cycles, exceptions between create and delete | every file analyzed once, with types if it can be, no program leaked, it ends |
| Incremental cache (`analysis/cache`) | entries of the previous and of the current analysis | strategy, read, write, copy | partial and corrupt entries, sequences of analyses | a hit equals a fresh analysis, nothing is analyzed again without a reason |
| tsconfig cache (`TsConfigCacheImpl`) | three caches: map, pending queue, discovered set | lookup, initialise, file events | a search interrupted by events, stale entries | an answer equals that of a fresh search |
| Codecs (CPD tokens, variable-length integers, the stream of UCFG files) | buffers, string table | encode, decode | numeric boundaries, truncated entries | round trip, damage is noticed |
| Data-flow rules S1854 and S4165 (`helpers/lva.ts`, `helpers/reaching-definitions.ts`) | worklists, sets per segment, a stack of code paths and assignments | visit, propagate, report | loops in the code path, references that arrive late | what is reported is true of every execution, the worklist empties |
| Cognitive complexity S3776 | nesting, own nesting, points kept in several alternatives | enter and leave every kind of node | what is counted on the way down has to be taken back on the way up | no point lost or counted twice |
| The other rules (some 400), the ESTree codec, parsers, CSS/HTML/YAML, coverage and report import, progress report | mostly none | pure functions, sequential parsing, logging | – | unit tests |

How they interact: a sensor calls `startServerLazily`, which deploys the
embedded runtime and starts a bridge process; every analysis request is a
blocking HTTP call to the main thread, which posts it to the worker; a second
Java thread pings `/status`; `clean()` ends with `/close`.

The hazards of each component, at their lines, are listed in `PROJECT.json`.

## 2. Modules

| Module | What it models |
|---|---|
| `BridgeServer` | the bridge process with both threads and its client's calls |
| `BridgeCalls` | abstract: what the bridge promises its callers |
| `BridgeLifecycle` | `BridgeServerImpl` and the processes it starts |
| `EmbeddedNode` | concurrent `EmbeddedNode.deploy()` on a shared directory |
| `Keepalive` | heartbeats against the orphan watchdog, with time |
| `TsConfigCache` | SonarLint's `TsConfigCacheImpl` with the providers that fill it, the disk and the user |
| `ProjectAnalysis` | analyses of whole projects that share one worker, from Node.js and from Java |
| `AnalysisCache` | the incremental cache over a sequence of analyses |
| `UcfgSequence` | how UCFG files are stored in one stream and extracted |
| `CpdCodec` | the two byte arrays that CPD tokens are stored in |
| `CodePaths` | what data-flow rules see of a file: segments, edges, references |
| `LiveVariables`, `DeadStores` | `lva()`; the visitor and the reports of S1854, and an execution of the visited code |
| `ReachingDefinitions`, `RedundantAssignments` | `reachingDefinitions()` and an execution; the reports of S4165 |
| `CognitiveComplexity` | the handlers of S3776 |
| `MC*` | the instances TLC checks |
| `*Proofs` | theorems and their proofs |

### BridgeServer

A request is its number. Its *kind* decides its path: `work` (all delegated
routes), `status`, `close`, `oversized` (rejected by `express.json` before any
other middleware). Data is abstracted to identity: the result of handling `r`,
success or failure, is `r`; `got[r]` records whose result the caller of `r` was
given. The port between the threads is `inbox`, `working` (handlers in progress;
several at a time, because the handler awaits) and `outbox`; `listeners` are the
registered `worker.once('message')` callbacks, *all* of which fire on the next
message. `resp` is the state of a response up to its `finish` event; a response
whose connection closes first is `gone` and never finishes, which is what Node.js
does and what the watchdog middleware overlooks. `armed` is the orphan watchdog.
The variables `owed` and `overlapped` are history: which delegated requests have
no result yet, and which were owed together.

The client is two threads that block on their calls: the sensor thread and the
heartbeat thread, which only sends `/status`. Calls may be abandoned at any time
(request timeout, interrupt) and the Java process may die. Each event-loop
callback is one action; the worker's `exit` handler is one action with
`closeServer` inside it. `Timeout` and the timer middleware appear as `armed`,
`StopTimeout`, `Finish` and `TimeoutExpires`; delays are not modelled, so the
watchdog may expire whenever it runs.

### BridgeLifecycle

One thread runs `startServerLazily` and `clean`, split at every blocking call
(`pc`); the heartbeat runs in between. A port is named by the process that was
told to listen on it. Time is reduced to the one distinction the code makes, a
time stamp older than a minute. `isAlive()` may always return false (any
`IOException`), and an interrupt inside `http.get` leaves either method by an
uncaught exception (`GetInterrupted`). `disarmed` are the processes whose
watchdog was left stopped by a lost response, the effect BridgeServer exhibits.
A malformed `SONARJS_EXISTING_NODE_PROCESS_PORT` (an exception before anything
happens) is left out.

### EmbeddedNode

Each process walks through `deploy()` step by step; `Files.copy` with
`REPLACE_EXISTING` is three steps because other processes read the file without
the lock. A runtime on disk is a version and whether it is complete.
`versionIs` is what is left of the version stream. A process may fail or crash
at every step. `node -v` succeeds on a complete runtime of any version.
`damaged` is history: the last extraction that began did not run to its end.

### TsConfigCache

`cache[o]` is the `Cache` object of each origin, field by field (`map` with
`Unknown` for no entry and `None` for a null entry), plus two history fields:
`tried`, the tsconfigs requested since the last clearing, and `threw`, those whose
request threw. A tsconfig on disk says which files it includes, which projects it
references and which base it extends; one that cannot be read loads as empty,
which is what `loadTsConfig` returns for an error. `analyzeFiles` is one action
for the providers (`UseProperty`, `UseLookup`, `UseFallback`; or `FallbackThrows`,
when the request to write the generated tsconfig fails) and then, per file, the
search, one action per tsconfig it loads, and the request. A request carries the
note that package.json changed, which takes effect in the worker only once the
file is parsed: it is served, it is answered with a parsing error (an answer like
any other), or it throws. The user may change tsconfigs, sources, package.json and
settings at any time, within a search too. Events are delivered between analyses,
because the IDE runs both on one thread; they are kept as sets, since handling one
twice or in another order makes no difference to any single handler. Files whose
names the event filter ignores (a referenced project not called `*tsconfig*.json`)
are not modelled: the cache never hears of their changes.

### Keepalive

The timer of `Timeout` is modelled twice: `timer` is the field, `timers` are the
Node.js timers that run, so that a timer that is forgotten and still runs would
show. `due` is the next period of `scheduleAtFixedRate`; a heartbeat that takes
longer than its period delays the next one, which then starts at once. Delays
are bounded by constants: a thread of the plugin is at most `MaxLate` late, a
ping is answered within `MaxServe`. Other requests stop and start the same timer
and take as long as they like; their connections may be lost, as may everything
once the plugin has died.

### ProjectAnalysis

Three drivers: `analyzeProject()` with programs, the same with watch programs
(SonarLint), and Java's `AnalysisWithProgram`, whose requests reach the same
worker. Each analysis has its pending files, its tsconfigs to come and the stack
of `analyzeProgram()` calls; programs and the linter are shared. A step goes from
one `await` (or one request) to the next; between them another analysis may
run. What tsconfigs contain, import and reference, and which cannot be read, is
input. Reads of files may fail.

### AnalysisCache, UcfgSequence, CpdCodec

`AnalysisCache` has the cache an analysis reads and the one it writes, as
functions from keys to entries. An entry is what it was *made* from (contents,
both versions, settings) and how it reads: well, with an `IOException`, or with
an unchecked exception. `getStrategyFor()` is one action for each way out of it.
`workDir` and `cpd` are what a file ends up with. The bridge answers with results
(`Analyze`) or with a parsing error or an error (`AnsweredWithError`); both are
responses to the plugin, and the latter is stored as an empty manifest and no
tokens, with the metadata of the file (`complete` is false). A request may also fail
and end the analysis. Between analyses contents, versions and settings change and
entries get lost or damaged; the scanner keeps the new cache of an analysis that
succeeds, or drops it, and nothing else of it is left (`Over`).
The other two are the entries seen from inside, byte by byte: a stream and a
manifest for the UCFG files, which `FileIterator` opens one after the other and
which are read back in reads of any size the stream returns, and the
data and string table of the CPD tokens with integers of `Width` bits written
`Chunk` bits at a time (32 and 7 in the code). `starts` is history: where in the
stream each file of the manifest begins.
`CpdCodec` has one action for every turn of the loops over tokens and strings, in
the serializer and in the deserializer, and one for what each array begins and ends
with. `pc` is the step, or the exception: `"io"` is the `IOException` that the
caller takes for a damaged entry, `"runtime"` anything else. An int is the set of
its bits, so that `Rest` is the unsigned shift and `ShiftLeft` the shift of
`readInt()`, which Java takes modulo the width; `Bits` gives the bits of sizes and
indices. Between writing and reading each array may lose bytes at its end (`kept`).

### Data-flow rules

A segment has an array of successors and of predecessors and a sequence of
references. The worklists are stacks, as in the code. Each module also has an
*execution* of the analyzed code (external in the map): it walks along the edges
from reference to reference and remembers which store, or which value, each
variable holds. Exceptions are edges where ESLint draws them and nowhere else. The
rules' messages are about executions, and so are the properties. `DeadStores` adds
the visitor, which does not see references in the order of evaluation: those
inside an assignment are kept back and given to the segments that are current when
the assignment is left. What it sees of the control flow is `plan`, the code path
events of ESLint in their order: properly nested, with several segments at a time
in a `finally` block and none in code that cannot be reached. Within an expression
an event says how its segments follow: those of a branch (`Fork`), of the other
branch (`OtherBranch`), of the code after both (`JoinBranches`), or simply the
next ones (`GoesOn`: after a `yield`, after the first call in a `try` block, or
between the operands of a condition). There ESLint connects what comes before with
what comes after, which the guards `InExpression` and `LeadTo` say; an assignment
that is opened in a branch is left in it. Between statements (`NextStatement`)
nothing is assumed of the edges. The visitor of S4165 is the same code.
Destructuring, JSX and scope lookup are left to the input.

The execution of `ReachingDefinitions` does not have its variables for itself: a
variable with usages in several code paths (`captured`) may be written at any
moment, as by a function that is called or while a generator is suspended
(`WrittenElsewhere`), and so may one that is stored to inside another assignment
(`late`), whose reference the visitor collects later than the store happens. What a
store assigns is not always what `writeExpr` says: a compound assignment computes
(`read`), a `for-of` loop and a destructuring assign a part (`partial`). What the
analysis knows it knows of the *tracked* variables. A set of variables is
self-contained if none of them is captured or late, each is stored to only in the
way its `writeExpr` says, and copied only from variables of the set; `Tracked` is
the union of these sets. The code itself asks whether other code uses a variable
only for the one that is assigned, and the states have no such question at all.

### CognitiveComplexity

`path` are the nodes that were entered and not left, with what they found on
entry; nodes the rule does not react to are left out. ESLint's order of handlers
matters and is kept: `'*'` before the handler of the type, on exit too. The
arrays of points are their sums. `total`, `deeper`, `surplus` and
`branchFunction` are history.

## 3. Runs

| Run | Instance | Result |
|---|---|---|
| `bridge` | 3 requests, all kinds | `OwnResult`, `ListenersAreServed`, `WatchdogArmed` hold; `BridgeServer` implements `BridgeCalls` (`KeepsPromise`); `EveryCallReturns`, `ShutdownCompletes` hold under `Fairness` |
| `bridge_orphan` | 2 requests, all kinds | `OrphanShutsDown` is violated |
| `bridge_mixup` | 3 requests, all kinds | `EveryAnswerIsOwn` is violated |
| `lifecycle` | 3 processes; interval 3, timeout 10, delays of 2, 20 ticks, 2 other requests | `HeartbeatKept`, `CleanReaps` (`BridgeLifecycle`), `KeptAlive`, `OrphanEnds` (`Keepalive`) hold |
| `embedded_deploy` | 3 processes, 2 versions, 4 deployments | `ExtractionIsolated`, `VersionVouches` hold |
| `embedded_upgrade` | 1 process, 2 versions | `WritesItsVersion` is violated |
| `tsconfig_cache` | 3 tsconfigs, 2 files, 2 changes | `AnswersCurrent`, `LookupCurrent`, `EachRequestedOnce`, `PackageChangeSeen`, `SearchEnds` hold |
| `tsconfig_fill` | the same | `FillsTheCache` is violated |
| `project` | 2 analyses, 2 files, 2 tsconfigs and the generated one | `ProgramsReleased`, `EachFileOnce`, `TypedWhenPossible`, `LinterReady`, `EveryAnalysisEnds` hold |
| `cache` | 3 analyses, 2 files (with the same contents at first), 2 values of everything, 2 disturbances, at most one of them a damage; 2 names, 3 paths, 3 bytes, a buffer of 2; 3 tokens, 7 bits, chunks of 2 | `TypeOK`, `ResultsCurrent`, `EntriesWrittenOnce`, `MissJustified` (`AnalysisCache`), `ExtractedRight`, `RefusedIffCut` (`UcfgSequence`), `CodecFaithful` (`CpdCodec`) hold |
| `rules` | 4 segments, 2 variables, 3 events; trees of depth 4 | `LiveSolved`, `DeadStoresUnread`, `StoresCollected`, `NoFalseAlarm`, `DefinitionsSolved`, `ValuesCovered`, `RedundantIndeed`, `CountersRestored`, `PointsCounted`, `LiveAnalysisEnds`, `EndsWithoutCopies` hold |
| `definitions_end` | one function of 8 segments | `DefinitionsEnd` is violated |

`MCBridgeLifecycle`, `MCCache` and `MCRules` hold several modules that do not
interact in the code paths they model. A variable `turn` says which of them works
while the others rest, so that their state spaces add up and are not multiplied.
The type invariants of the modules that have proofs are proved (section 4) and not
repeated in the runs.

*Bounds.* Three requests are what the interesting cases need: one abandoned, one
that is given its result, and one more in flight with it; a `/close` or a
heartbeat can take the place of each. Three processes let a process be given up,
replaced, and its replacement fail. Three deployers are a winner and a loser of
the lock and a third that arrives in between; the fourth deployment is one that
comes after a crash. The tsconfigs are two that reference each other in a cycle
and a base that one extends and the other references, each present or absent; two
changes are one whose event is delivered and one still on its way, or a deletion
and a re-creation. In `Keepalive` the delays add up to one tick less than the
timeout, the least that is tolerated, and 20 ticks are six intervals. Two project
analyses let one disturb the other; two tsconfigs overlap, reference each other in
a cycle, themselves, or one twice; `MaxDepth` 3 is one more than there are
tsconfigs. Three analyses with a cache are the one that fills it, one that hits,
and one that finds what a hit has left; the two disturbances between them are two
changes, the second of which may undo the first, or a change and a damage; one of
the two files is HTML. A buffer of two for files of up to three bytes makes every
file end inside, at, or after a buffer. Seven bits in chunks of two give integers
of one to four bytes, the last of which is not full, as with 32 and 7. Three
tokens are one whose string is new, one with another string, and one that repeats
the first. The code paths of `rules` are if/else, a loop, an endless loop, `&&`,
`?:`, try/finally and a function that returns before its end; `x` is assigned only
around assignments to `y` (`MCVisit`), which is where references are kept back.
For S4165 the graphs are if/else and the two loops, with every choice of five lists
of references for each segment: stores of literals, copies in both directions, a
compound assignment, a skipped write and a `for-of` write; on if/else the run is
also interrupted by other code that writes `y`, or `y` is stored to inside
assignments. `MaxWork` bounds the worklist and is never reached while the analysis
ends. A tree of depth 4 has a function of the third level and a statement in it; a
branch of that statement is beyond the bound and left to the proof. The proofs
remove these bounds for the safety properties they cover. `CHECK_DEADLOCK` is off
because the systems really stop: a bridge that ended, a plugin that called
`clean()`, a bounded number of requests or analyses, a file that was visited.

*Fairness.* `BridgeServer`: weak fairness of each of the two threads: a thread
with an event to handle handles one, the timer included, and `handleRequest` is
assumed to return (it catches what it throws). Which event is left open; every
one gets its turn because `N` requests cause finitely many. Nothing is assumed of
the client or of crashes.
`BridgeLifecycle`: a process that is starting gets to listen (or dies), and one
whose watchdog runs and which nobody pings ends. No call of the plugin is
assumed to be made or to return. `TsConfigCache`: only that a search that has
begun goes on; the user and the events owe nothing. `Keepalive`: time passes, a
timer that is due fires, and a request that was handled is answered or its
connection closes. `ProjectAnalysis`: every analysis that can take a step does
(the worker serves every queued message; reads of files return). `rules`,
`definitions_end`: an analysis that has begun is sequential code and is executed
(`AnalysisStep`; nothing is assumed of the visitor or of the executions).

### What the violations show

* **Orphan** – if the Java process dies while a request is being served, the
  watchdog that the request stopped is never restarted (`finish` is not emitted
  for a closed connection) and the bridge process stays. `WatchdogArmed` says
  precisely when the watchdog can be off.
* **Mix-up** – a caller that gives up while the worker is busy leaves its result
  behind; the next delegated request is answered with it. `OwnResult` shows that
  overlap is the only cause, `ListenersAreServed` that requests and results are
  in step again as soon as the worker is idle, and `KeepsPromise` that a result
  at least never reaches two callers.
* **Upgrade** – the version stream has been consumed by the comparison, so an
  upgrade writes an empty `version.txt` and every later deployment extracts the
  runtime again.
* **Limit** – a project beyond the type-checking limit initializes the FALLBACK
  cache with an empty list, and `initializeWith` ignores every later list; the
  user who follows the warning and raises the limit gets no type information
  until the module is reopened.
* **Worklist** – a variable copied from one that has no values yet is unknown, and
  has values once that one gets some: the states of `reachingDefinitions()` do not
  only grow. In a loop that swaps variables they change places for ever, the
  worklist is never empty and the analysis of the file does not end.
  `EndsWithoutCopies` shows that it takes copies.

More behaviours are visible in the models and excluded by the statements of
the properties, each by the name given:

* lifecycle – the heartbeat is missing when the very first wait for a server was
  interrupted inside `http.get` (`HeartbeatKept`); a process whose last response
  was lost survives `clean()` if `/close` is not sent (`CleanReaps`); a started
  server that missed one probe and recovered stays `FAILED`, since its heartbeat
  keeps the time stamp fresh and the minute before a restart never passes (no
  property asks for the restart);
* tsconfig cache – the PROPERTY cache does not notice a change of a base that its
  tsconfigs extend (`Tracked`); a tsconfig whose request threw is not asked for
  again before the next clearing (`threw`); a cancelled or failed analysis, and one
  of a file that does not parse, loses the note that package.json changed
  (`dropped`: `build()` throws before the worker clears its cache, and the answer is
  a normal one);
* project analysis – Node.js follows a cycle of references without end
  (`Acyclic`); an analysis that fails leaves its program in the registry
  (`ProgramsReleased`); the linter is published before it is initialised, so that a
  second analysis may lint with no rules (`LinterReady`); in SonarLint mode one
  tsconfig that cannot be read ends the whole analysis;
* incremental cache – a hit does not copy the metadata, without which the next
  analysis of the branch misses: hits and analyses alternate when caches of
  analyses with hits are kept (`MissJustified` asks for a file that was
  analyzed); damaged metadata, or an entry that reads with an unchecked exception,
  fails the analysis instead of being analyzed again (`MetadataThrow`,
  `ReadThrows`); the settings are in no key (`ResultsCurrent`); an answer with an
  error is stored as a file without UCFGs and tokens and reused as such, even when
  the error would not happen again (`Left`); a UCFG path that
  comes twice is stored in a form that is refused when it is read, unless the stream
  was cut to just the length of the manifest (`Twice`);
* S1854 – stores inside another assignment, and references in a `finally` block,
  may be reported though they are read (`NoFalseAlarm`);
* S4165 – an assignment may be reported though it changes the value: when the
  variable has a value that was copied from one that other code writes (in
  `let y = 1; const g = () => { y = 2; }; if (c) { g(); } let x = y; x = 1;` the last
  store is reported although `x` may be 2), that was stored to inside another
  assignment, or that was assigned by a compound assignment, a `for-of` loop or a
  destructuring (all `Tracked`); after a write in the same segment that the rule
  skips (`SkippedBefore`); and on a path where the variable was not assigned yet
  (`RedundantIndeed`);
* S3776 – a function that is itself a branch of `?:` is counted twice on entry and
  once on exit, and the nesting of the rest of the file is off (`branchFunction`).

## 4. Proofs

All theorems hold for every value of the constants (`N` requests and any set of
`Kinds`; `MaxProc` processes; any sets of processes and versions; any finite
sets of files and tsconfigs with any contents; any intervals and delays that
satisfy `DelayAssumption`; any code path, any syntax tree; any number of analyses).

| Module | Theorems |
|---|---|
| `BridgeServerProofs` | `TypeCorrect`, `OwnResultSafe`, `ListenersServed`, `WatchdogSafe`; `PromiseKept`: `Spec => KeepsPromise`, the refinement of `BridgeCalls` |
| `BridgeLifecycleProofs` | `TypeCorrect`, `HeartbeatAlwaysKept`; of `Keepalive`: `KeepaliveTypeCorrect`, `HeartbeatsKeepAlive` |
| `EmbeddedNodeProofs` | `TypeCorrect`, `Isolation`, `VersionFileVouches` |
| `TsConfigCacheProofs` | `TypeCorrect`, `NeverRequestedTwice`, `LookupStaysCurrent`, `PackageChangeKept`, `AnswersStayCurrent` |
| `ProjectAnalysisProofs` | `ProjectTypeCorrect`, `ProgramsAreReleased`, `FilesAnalyzedOnce`, `TypedIfPossible`, `LinterIsReady` |
| `CacheProofs` | of `AnalysisCache`: `CacheTypeCorrect`, `ResultsAreCurrent`, `NothingWrittenTwice`, `MissesAreJustified`; of `UcfgSequence`: `ExtractedIsRight`, `RefusedExactlyIfCut`; of `CpdCodec`: `TokensSurvive` |
| `DataFlowProofs` | `LiveTypeCorrect`, `LiveEquationsHold`, `DeadStoresAreUnread`, `DefinitionsTypeCorrect`, `DefinitionEquationsHold`, `StatesCoverValues`, `RedundantAssignmentsAreRedundant`; of the visitor: `ReferencesAreCollected`, `NoFalseAlarms` |
| `CognitiveComplexityProofs` | `ComplexityTypeCorrect`, `CountersAreRestored`, `AllPointsCounted` |

*BridgeServer.* `OwnResult` is not inductive. The invariant adds `PortInv`:
everything in flight is owed (`FlightOwed`), it is in flight once
(`FlightOnce`), listeners are owed, what no handler has seen is not owed, and
two requests that are owed together are recorded as overlapped. A result that
arrives for a listener that is not overlapped can then only be its own, because
both are owed. `FlightOnce` is what makes one arrival settle the debt.

*Refinement.* `CallInv` adds what has been delivered: a result in a caller's
hands is no longer owed, and is either its own or that of a delegated request;
of two waiting callers one is the heartbeat. Hence a result that arrives (it is
owed) was given to nobody, and of the listeners that fire with it at most one
has a caller waiting.

*BridgeLifecycle.* The heartbeat is scheduled only by `serverHasStarted`, yet a
call may return because an old server is found alive. The invariant says that
whatever shows that a server was seen alive (`latestOK`, `STARTED`, a result)
implies a heartbeat, and that a process is probed again only after it was seen
alive: `shouldRestartFailedServer` requires a time stamp.

*EmbeddedNode.* The lock is held exactly by the process in the locked region,
and each step of the region says what is already on disk; `Vouches` is
`VersionVouches` also while a process holds the lock but has not begun.

*TsConfigCache.* First lemmas on queues: listing, reordering, joining and taking
the head keep each tsconfig once. `AnswersCurrent` speaks only of states in which
all events are delivered, so the invariant has to say what holds before: a cache
is *settled* when nothing it has loaded has an undelivered change, and a settled
cache is right (`Anchored`, `Followed`, `MappedRight`, `MappedAll`). A change
unsettles every cache that has loaded the tsconfig, and its event clears exactly
those, so no event ever makes a wrong cache settled. `Anchored` is about the
references of loaded tsconfigs only: those of queued ones may still change.

*Keepalive.* The invariant looks ahead: while the plugin waits for the next
period, the latest time at which its ping can be answered is before every timer
that runs (`Waiting`); during a ping the same with what is left of it (`Pinging`);
before the first heartbeat the first timer runs (`Starting`). A timer that is
started, by a ping or by any other request, satisfies this because one interval,
two delays and one answer are shorter than the timeout. With the 5 s and 15 s of
the code, delays of the heartbeat thread and an answer may take just under 10 s
together, the first counted twice.

*ProjectAnalysis.* Only the innermost call of `analyzeProgram()` holds a program,
which is in the registry and its own (`StackOK`); every program in the registry is
held in this way or its analysis failed (`Held`); what is no longer pending was
analyzed once (`FileOK`); whoever analyzes has waited for its linter
(`LinterOK`). `TypedWhenPossible` compares a result with everything the analysis
could have got to, in whatever order it went there. The invariant says that there
is a set of visited tsconfigs, all of which can be got to, whose files are no
longer pending, and which is closed under references but for those that are still
to come, in the work list or in the calls on the stack. When nothing is to come
the set is closed, hence contains everything the analysis can get to.

*AnalysisCache.* Of both caches: an entry was made by the versions in its key
(`KeysTell`), all entries of one file were made by one analysis (`MadeTogether`),
the metadata included, and metadata are there only for a file that a request was
answered for (`NextFromAnswers`, `PreviousFromAnswers`). A hit compares the metadata
with the file and takes the entries from under the present versions, so what it
takes is what that answer left, made from the present contents
(`HitFindsCurrent`); a file that has not been taken has nothing in the work directory
yet (`Untouched`), so that a hit on an error leaves nothing there. `MissJustified`
needs the other direction: all that an answer gave was stored (`AnalyzedStored`), and
is still there when the cache was kept and nothing was damaged (`PublishedStored`).

*UcfgSequence.* The manifest lays the stream out: unless bytes come twice, the
bytes of the stream from each of the `starts` on are those of the file. While the
stream is read, what was read is a beginning of it and the place where reading is
now is the start of the present file plus what was written of it; a file cannot
take a byte more because a read asks for no more than is missing. Hence the
lengths decide, and a changed length is met in the last file at the latest.

*CpdCodec.* `Turns` is the least number of turns after which nothing is left, the
bits in byte `k` are those from `(k - 1) * Chunk` on, and all shifts stay below the
width (`WriteIntFacts`). So wherever the bytes of an int stand, `readInt()` gives
the int and the place behind it, or meets the end of the array if that comes first
(`ReadIntAgain`), and the same follows for sizes, strings and tokens. The invariant
says that each item stands in the array where the one before it ends (`Laid`), that
the index a token has in the data is that of its string in the table, also after
the table has grown (`IsToken`), and that the reader is at the beginning of the
next item with a prefix of the list (`CodecRead`). Then it never reads from the
middle of an item, and as the closing `END` stands last, whoever reads it has
read an array that lost nothing. No induction over the recursion of a decoder is
needed, because an int is one step of the model and the least last byte decides
where it ends.

*Data flow.* A segment that is not on the worklist satisfies its equation; a
segment whose `in` (or `out`) changes pushes all whose equation mentions it. For
the live variables the sets only grow, so that a segment that was taken stays
right until a successor changes. `DeadStoresUnread` then follows along the
execution: a dead store that a variable holds is of a variable that is not live
where the execution is. `ValuesCovered` is the same forward, for the state before
each reference, of the tracked variables: what other code writes is not tracked,
and what a tracked variable is given by a store is either a literal, or the value
of a tracked variable, which the state covers too; the union of self-contained
sets is itself self-contained (`TrackedFacts`). For `RedundantIndeed` the report
has to be brought together with that state: the map that `checkSegment()` keeps
while it walks through the references is, as long as it has skipped no write, the
state before each of them, and a state with a single literal that covers a value
leaves only that value. The map is a recursive function, for which the proof shows
by induction along the references that such a function exists.

*The visitor of S1854.* `StoresCollected` speaks of the end of the visit only.
The invariant (`CollectInv`) says where a reference is before: it is kept by one
open assignment, as its left-hand side or among what it has collected, or it is
in segments, once in each, and never both (`Once`); what was evaluated anywhere
has its reference in one of these places, and what an assignment in unreachable
code keeps was not evaluated (`EvaluatedFound`): such references are dropped when
the assignment is left. The open code paths are the brackets of the plan that are
still to be closed, so that none, and no assignment, is open when it is empty.

*What S1854 reports.* `NoFalseAlarm` compares the reports with what is evaluated,
in three layers. `Order`: for a variable that is used in one code path only and
not stored to inside another assignment, what a segment evaluates and the
references it has agree on the order of stores and of the reads around them. A
read may have its reference elsewhere, because a segment began between the read
and the end of the assignment; then no store follows it in its segment, and
`Carried` says where the reference is. While an assignment keeps it, a way leads
from the segment of the read to the current segments, or to the end of a branch
that will be joined with them, past segments that have no references; once it is
collected, such a way leads to a segment that reads the variable. `Reaches` and
`Later` state this by the least set that is closed under predecessors, so that no
induction over paths is needed: for `Later` the segments where the variable is
live when `lva()` has ended are such a set, whence the variable is live at the
end of the segment of the read. `Carried` is where the events of the plan matter:
each of `Fork`, `OtherBranch`, `JoinBranches` and `GoesOn` keeps the way, and a
statement ends only when no assignment is open. Third, `HoldOK` follows the
execution: if the program reads the variable next, the store that it holds was
evaluated where the variable is read next too, and by the first two layers
`checkSegment()` does not find the reference of such a store dead. A call in
between cannot disturb this, since the variable is not used outside of the
program's code path. The proof also shows that no segment has more references than
there are events, by a pigeonhole argument, which is why the bound in `Places`
loses none.

*CognitiveComplexity.* The path is a chain (`Chain`): from each node to the next
the counters are those it found plus what it added, the nesting of suspended
functions waits at their level, levels grow at functions. `CountsOK` says the
same of the sums, so that `PointsCounted` is preserved when a second-level
function ends and when a top-level function is decided.

The assumptions are those of the modules: `N` and `MaxProc` are positive
naturals, `Kinds` are request kinds, files, tsconfigs and literals are finite
sets, buffers are not empty, the model values differ from processes, versions,
files and tsconfigs; code path events are properly nested, edges stay in a code
path and a segment starts once (`PlanOK`, which is part of `DSInit` and which
ESLint guarantees), and within an expression one segment leads to the next (the
guards of `Fork`, `JoinBranches` and `GoesOn`); a byte has fewer bits for an int
than an int has, numbers have different bits without that of the sign, and sizes
of lists and strings are numbers.

Only model-checked: the liveness properties (`EveryCallReturns`,
`ShutdownCompletes`, `CleanReaps`, `SearchEnds`, `OrphanEnds`,
`EveryAnalysisEnds`, `LiveAnalysisEnds`, `EndsWithoutCopies`):
fairness and `ENABLED` are out of the prover's reach. Every safety property of the
passing runs is proved.

## 5. Not modelled

* Some 400 rules that look at one node, or at the type of one, and report it, and
  the wrappers of rules of other ESLint plugins. They keep no state between nodes;
  their definitions are patterns over syntax, and a model would repeat them. They
  are by far the largest part of the source, which is why the modules stand for a
  small share of its lines.
* The mapping of syntax trees to protobuf and back (`parsers/ast.ts`,
  `ESTreeFactory`): one case per node type, without state.
* Parsers, CSS, HTML and YAML analysis: wrappers around other libraries; their
  requests are requests of `BridgeServer` and files of `AnalysisCache`.
* Import of coverage and of reports of other tools: sequential parsing. The
  progress report and the cache report: logging.
* Durations outside `Keepalive`; the Java memory model (each access of a shared
  field is atomic and seen); `createHandler`, the workerless mode of the tests.

## 6. Plan

1. An abstract specification of `TsConfigCache`, a function of the disk, and its
   refinement.
2. The composition of `BridgeLifecycle` with `Keepalive`: how long a bridge whose
   start was given up lives on.
