--------------------------- MODULE TsConfigCache ---------------------------
(***************************************************************************)
(* TsConfigCacheImpl, the cache SonarLint keeps for as long as a module is *)
(* open: which tsconfig covers which source file.  A search for one file   *)
(* leaves its queue half consumed for the next one; the disk may change at *)
(* any time and the events that say so arrive later, between analyses (the *)
(* IDE delivers events and runs analyses on one thread).  Any request to   *)
(* the bridge may throw.                                                   *)
(***************************************************************************)
EXTENDS Integers, Sequences, FiniteSets

CONSTANTS
  File,         \* source files
  TsConfig,     \* paths that may hold a tsconfig
  Named,        \* those called tsconfig.json, which the lookup finds
  Above,        \* Above[f]: tsconfigs whose folder is a prefix of f's path
  Contents,     \* Contents[t]: what may be written into t
  Settings,     \* sonar.typescript.tsconfigPaths, as a set of paths, and
                \* sonar.javascript.sonarlint.typechecking.maxfiles
  MaxChanges,   \* how often the user changes something
  Absent, None, Unknown, Generated   \* model values

ASSUME TsConfigAssumption ==
  /\ IsFiniteSet(TsConfig) /\ IsFiniteSet(File)
  /\ Named \subseteq TsConfig
  /\ Above \in [File -> SUBSET TsConfig]
  /\ \A t \in TsConfig : Contents[t] \subseteq
       [include : SUBSET File, refs : SUBSET TsConfig, base : TsConfig]
  /\ Settings \subseteq [property : SUBSET TsConfig, limit : Nat]
  /\ MaxChanges \in Nat
  /\ Generated \notin TsConfig /\ None \notin TsConfig /\ Unknown \notin TsConfig
  /\ None # Generated /\ Unknown # Generated /\ None # Unknown
  /\ None \notin File

VARIABLES
  disk,         \* content of every tsconfig
  sources,      \* source files on disk
  settings,     \* the user's settings
  edited, created, packageEdited,   \* file events not yet delivered
  cache,        \* cacheMap
  origin, projectSize,
  shouldClearDependenciesCache,
  wildcard,     \* defaultWildcardTsConfig of this project
  phase, inputFile, todo,           \* the analysis in progress
  found,        \* history: the tsconfigs its providers found
  nodeStale,    \* the worker's dependency cache predates a package.json
  dropped,      \* history: a request that was to clear that cache threw, or was
                \* answered with an error before it came to that
  changes       \* how often the user has changed something

user     == <<disk, sources, settings, changes>>
events   == <<edited, created, packageEdited>>
results  == <<origin, projectSize, wildcard, found>>
analysis == <<phase, inputFile, todo>>
packages == <<shouldClearDependenciesCache, nodeStale, dropped>>
vars     == <<user, events, cache, results, analysis, packages>>

Content == UNION {Contents[t] : t \in TsConfig}

Origin == {"PROPERTY", "LOOKUP", "FALLBACK"}
Path   == TsConfig \cup {Generated}

(***************************************************************************)
(* A tsconfig says which files it includes, which projects it references   *)
(* and which base it extends (itself: none), whose files it then inherits. *)
(* loadTsConfig returns nothing for one that cannot be read.               *)
(***************************************************************************)
Readable(t) == disk[t] # Absent /\ disk[disk[t].base] # Absent

IncludedBy(t) ==
  IF t = Generated THEN File
  ELSE IF Readable(t) THEN disk[disk[t].base].include ELSE {}

FilesOf(t) == IncludedBy(t) \cap sources

RefsOf(t) == IF t # Generated /\ Readable(t) THEN disk[t].refs ELSE {}

\* The orders in which a set can be listed.
Orders(S) == {q \in [1..Cardinality(S) -> S] : \A t \in S : \E i \in DOMAIN q : q[i] = t}

\* Directory listings are deterministic, so one set has one listing.
Listing(S) == CHOOSE q \in Orders(S) : TRUE

ElementsOf(q) == {q[i] : i \in DOMAIN q}

\* tried and threw are history: requests since the last clearing, and those
\* of them that threw.
Cache == [map : [File -> Path \cup {Unknown, None}], discovered : SUBSET Path,
          original : SUBSET Path, pending : Seq(Path), initialized : BOOLEAN,
          tried : SUBSET Path, threw : SUBSET Path]

TypeOK ==
  /\ disk \in [TsConfig -> Content \cup {Absent}]
  /\ sources \subseteq File
  /\ settings \in Settings
  /\ edited \subseteq TsConfig /\ created \in BOOLEAN /\ packageEdited \in BOOLEAN
  /\ cache \in [Origin -> Cache]
  /\ origin \in Origin \cup {None}
  /\ projectSize \in Nat
  /\ shouldClearDependenciesCache \in BOOLEAN
  /\ wildcard \in {"unset", "written", "failed"}
  /\ phase \in {"idle", "next", "search", "request"}
  /\ inputFile \in File \cup {None}
  /\ todo \subseteq File
  /\ found \subseteq Path
  /\ nodeStale \in BOOLEAN /\ dropped \in BOOLEAN
  /\ changes \in 0..MaxChanges

NewCache ==
  [map |-> [f \in File |-> Unknown], discovered |-> {}, original |-> {},
   pending |-> <<>>, initialized |-> FALSE, tried |-> {}, threw |-> {}]

Init ==
  /\ disk \in [TsConfig -> Content \cup {Absent}]
  /\ \A t \in TsConfig : disk[t] \in Contents[t] \cup {Absent}
  /\ sources \in SUBSET File \ {{}}
  /\ settings \in Settings
  /\ edited = {} /\ created = FALSE /\ packageEdited = FALSE
  /\ cache = [o \in Origin |-> NewCache]
  /\ origin = None /\ projectSize = 0 /\ wildcard = "unset" /\ found = {}
  /\ shouldClearDependenciesCache = FALSE /\ nodeStale = FALSE /\ dropped = FALSE
  /\ phase = "idle" /\ inputFile = None /\ todo = {}
  /\ changes = 0

(***************************************************************************)
(* The user, at any time.                                                  *)
(***************************************************************************)
UserChanges ==
  /\ changes < MaxChanges
  /\ changes' = changes + 1
  /\ UNCHANGED <<cache, results, analysis, shouldClearDependenciesCache, dropped>>

EditTsConfig(t) ==
  /\ UserChanges
  /\ \E v \in Contents[t] \cup {Absent} : v # disk[t] /\ disk' = [disk EXCEPT ![t] = v]
  /\ edited' = edited \cup {t}
  /\ UNCHANGED <<sources, settings, created, packageEdited, nodeStale>>

CreateSource(f) ==
  /\ UserChanges
  /\ f \notin sources
  /\ sources' = sources \cup {f}
  /\ created' = TRUE
  /\ UNCHANGED <<disk, settings, edited, packageEdited, nodeStale>>

\* The event of a deletion has no effect on the cache.
DeleteSource(f) ==
  /\ UserChanges
  /\ f \in sources
  /\ sources' = sources \ {f}
  /\ UNCHANGED <<disk, settings, events, nodeStale>>

EditPackageJson ==
  /\ UserChanges
  /\ packageEdited' = TRUE
  /\ nodeStale' = TRUE
  /\ UNCHANGED <<disk, sources, settings, edited, created>>

ChangeSettings ==
  /\ UserChanges
  /\ \E s \in Settings : s # settings /\ settings' = s
  /\ UNCHANGED <<disk, sources, events, nodeStale>>

(***************************************************************************)
(* The three ways to clear a cache.                                        *)
(***************************************************************************)
clearFileToTsConfigCache(c) ==
  [c EXCEPT !.map = [f \in File |-> Unknown], !.discovered = c.original,
            !.pending = Listing(c.original), !.tried = {}, !.threw = {}]

\* Mutant: clearAll() keeps the list of tsconfigs.
KeepOriginals(c) == clearFileToTsConfigCache(c)

clearAll(c) ==
  clearFileToTsConfigCache([c EXCEPT !.initialized = FALSE, !.original = {}])

initializeOriginalTsConfigs(c, tsconfigs) ==
  clearFileToTsConfigCache([c EXCEPT !.initialized = TRUE, !.original = tsconfigs])

(***************************************************************************)
(* process: a file event is delivered.                                     *)
(***************************************************************************)
Process ==
  /\ phase = "idle"
  /\ UNCHANGED <<user, results, analysis, nodeStale, dropped>>

ProcessTsConfig(t) ==
  /\ Process
  /\ t \in edited
  /\ edited' = edited \ {t}
  /\ cache' = [o \in Origin |->
       IF o = "LOOKUP" \/ (o = "PROPERTY" /\ t \in cache[o].discovered)
       THEN clearAll(cache[o]) ELSE cache[o]]
  /\ UNCHANGED <<created, packageEdited, shouldClearDependenciesCache>>

ProcessPackageJson ==
  /\ Process
  /\ packageEdited
  /\ packageEdited' = FALSE
  /\ shouldClearDependenciesCache' = TRUE
  /\ UNCHANGED <<edited, created, cache>>

\* Mutant: a new file clears the lookup cache only.
ClearLookupOnly ==
  /\ Process
  /\ created
  /\ created' = FALSE
  /\ cache' = [cache EXCEPT !["LOOKUP"] = clearFileToTsConfigCache(@)]
  /\ UNCHANGED <<edited, packageEdited, shouldClearDependenciesCache>>

ProcessCreated ==
  /\ Process
  /\ created
  /\ created' = FALSE
  /\ cache' = [o \in Origin |-> clearFileToTsConfigCache(cache[o])]
  /\ UNCHANGED <<edited, packageEdited, shouldClearDependenciesCache>>

(***************************************************************************)
(* analyzeFiles first asks the providers in turn; each one's list goes to  *)
(* its cache, and the first list that is not empty sets the origin.  When  *)
(* all are empty the origin stays what it was.                             *)
(***************************************************************************)
propertyTsConfigs == {t \in settings.property : disk[t] # Absent}

lookupTsConfigs ==
  IF cache["LOOKUP"].initialized THEN cache["LOOKUP"].original
  ELSE {t \in Named : disk[t] # Absent}

walkedSize ==
  IF cache["LOOKUP"].initialized THEN projectSize ELSE Cardinality(sources)

isBeyondLimit == walkedSize >= settings.limit

\* The generated file is written once per project and JVM; a failure to write
\* it is remembered as well.
writeTsConfigFileFor ==
  IF isBeyondLimit \/ wildcard # "unset" THEN {wildcard} ELSE {"written", "failed"}

initializeWith(c, o, tsconfigs) ==
  IF \/ o = "FALLBACK" /\ c.initialized
     \/ o # "FALLBACK" /\ c.original = tsconfigs
  THEN c
  ELSE initializeOriginalTsConfigs(c, tsconfigs)

\* lists: the providers that were asked and what they found.
FillCaches(lists) ==
  /\ phase = "idle" /\ sources # {}
  /\ cache' = [o \in Origin |->
       IF o \in DOMAIN lists THEN initializeWith(cache[o], o, lists[o]) ELSE cache[o]]
  /\ UNCHANGED <<user, events, inputFile, packages>>

Initialize(lists) ==
  /\ FillCaches(lists)
  /\ \E files \in SUBSET sources \ {{}} : todo' = files
  /\ phase' = "next"

UseProperty ==
  /\ propertyTsConfigs # {}
  /\ Initialize([o \in {"PROPERTY"} |-> propertyTsConfigs])
  /\ origin' = "PROPERTY" /\ found' = propertyTsConfigs
  /\ UNCHANGED <<projectSize, wildcard>>

UseLookup ==
  /\ propertyTsConfigs = {} /\ lookupTsConfigs # {}
  /\ Initialize([o \in {"PROPERTY", "LOOKUP"} |->
                   IF o = "LOOKUP" THEN lookupTsConfigs ELSE {}])
  /\ origin' = "LOOKUP" /\ found' = lookupTsConfigs
  /\ projectSize' = walkedSize
  /\ UNCHANGED wildcard

UseFallback ==
  /\ propertyTsConfigs = {} /\ lookupTsConfigs = {}
  /\ wildcard' \in writeTsConfigFileFor
  /\ found' = IF ~isBeyondLimit /\ wildcard' = "written" THEN {Generated} ELSE {}
  /\ Initialize([o \in Origin |-> IF o = "FALLBACK" THEN found' ELSE {}])
  /\ origin' = IF found' # {} THEN "FALLBACK" ELSE origin
  /\ projectSize' = walkedSize

\* The request to write the file throws: the two caches asked before are
\* initialized, FALLBACK is not, and nothing is remembered of the failure.
FallbackThrows ==
  /\ propertyTsConfigs = {} /\ lookupTsConfigs = {}
  /\ ~isBeyondLimit /\ wildcard = "unset"
  /\ FillCaches([o \in {"PROPERTY", "LOOKUP"} |-> {}])
  /\ projectSize' = walkedSize
  /\ UNCHANGED <<origin, wildcard, found, phase, todo>>

(***************************************************************************)
(* Then, for every file, getTsConfigForInputFile and one request.          *)
(***************************************************************************)
Same == UNCHANGED <<user, events, results>>

EndAnalysis ==
  /\ phase = "next" /\ todo = {}
  /\ phase' = "idle" /\ inputFile' = None
  /\ Same /\ UNCHANGED <<todo, cache, packages>>

\* An exception leaves analyzeFiles.
Throw == phase' = "idle" /\ inputFile' = None /\ todo' = {}

\* No cache, one that is not initialized (the answer is null), or a known file.
AnswerAtOnce(f) ==
  /\ phase = "next" /\ f \in todo
  /\ \/ origin = None
     \/ origin # None /\ ~cache[origin].initialized
     \/ origin # None /\ cache[origin].map[f] # Unknown
  /\ inputFile' = f /\ phase' = "request"
  /\ Same /\ UNCHANGED <<todo, cache, packages>>

\* Tsconfigs above f first; otherwise the order of q is kept.
improvedPendingTsConfigOrder(q, f) ==
  {[i \in DOMAIN q |-> q[s[i]]] : s \in
     {s \in [DOMAIN q -> DOMAIN q] : \A i, j \in DOMAIN q : i < j =>
        /\ s[i] # s[j]
        /\ q[s[j]] \in Above[f] => q[s[i]] \in Above[f]
        /\ (q[s[i]] \in Above[f]) = (q[s[j]] \in Above[f]) => s[i] < s[j]}}

StartSearch(f) ==
  /\ phase = "next" /\ f \in todo
  /\ origin # None
  /\ cache[origin].initialized /\ cache[origin].map[f] = Unknown
  /\ \E q \in improvedPendingTsConfigOrder(cache[origin].pending, f) :
       cache' = [cache EXCEPT ![origin].pending = q]
  /\ inputFile' = f /\ phase' = "search"
  /\ Same /\ UNCHANGED <<todo, packages>>

\* Mutant: references are followed again.
AllReferences(c, t) == RefsOf(t)

\* References already discovered are not followed again.
NewReferences(c, t) == RefsOf(t) \ c.discovered

Load(c, t, refs) ==
  [c EXCEPT !.pending = refs \o Tail(c.pending),
            !.map = [f \in File |-> IF c.map[f] = Unknown /\ f \in FilesOf(t)
                                    THEN t ELSE c.map[f]],
            !.discovered = c.discovered \cup ElementsOf(refs),
            !.tried = c.tried \cup {t}]

LoadNext ==
  /\ phase = "search"
  /\ cache[origin].pending # <<>>
  /\ LET c == cache[origin]  t == Head(c.pending) IN
       /\ \E refs \in Orders(NewReferences(c, t)) :
            cache' = [cache EXCEPT ![origin] = Load(c, t, refs)]
       /\ phase' = IF cache'[origin].map[inputFile] # Unknown THEN "request" ELSE "search"
  /\ Same /\ UNCHANGED <<inputFile, todo, packages>>

\* Mutant: the flag is reset before the search instead of after it.
ResetsTooEarly ==
  /\ phase = "search"
  /\ cache[origin].pending # <<>>
  /\ shouldClearDependenciesCache' = FALSE
  /\ Throw
  /\ Same /\ UNCHANGED <<cache, nodeStale, dropped>>

\* The bridge request throws: its tsconfig has left the queue already.
LoadThrows ==
  /\ phase = "search"
  /\ cache[origin].pending # <<>>
  /\ LET c == cache[origin]  t == Head(c.pending) IN
       cache' = [cache EXCEPT ![origin] =
         [c EXCEPT !.pending = Tail(c.pending), !.tried = @ \cup {t}, !.threw = @ \cup {t}]]
  /\ Throw
  /\ Same /\ UNCHANGED packages

NothingFound ==
  /\ phase = "search"
  /\ cache[origin].pending = <<>>
  /\ cache' = [cache EXCEPT ![origin].map[inputFile] = None]
  /\ phase' = "request"
  /\ Same /\ UNCHANGED <<inputFile, todo, packages>>

\* The flag is read and reset on the way into analyzeFile, ...
getAndResetShouldClearDependenciesCache ==
  /\ phase = "request"
  /\ shouldClearDependenciesCache' = FALSE
  /\ Same /\ UNCHANGED cache

\* ... and takes effect in the worker's analyzeFile, once the file is parsed.
AnswerReceived == phase' = "next" /\ inputFile' = None /\ todo' = todo \ {inputFile}

RequestServed ==
  /\ getAndResetShouldClearDependenciesCache
  /\ nodeStale' = (nodeStale /\ ~shouldClearDependenciesCache)
  /\ dropped' = (dropped /\ ~shouldClearDependenciesCache)
  /\ AnswerReceived

\* build() throws first: the file has a syntax error.  The answer, a parsing
\* error, is one like any other.
ParsingError ==
  /\ getAndResetShouldClearDependenciesCache
  /\ dropped' = (dropped \/ shouldClearDependenciesCache)
  /\ UNCHANGED nodeStale
  /\ AnswerReceived

\* The analysis was cancelled, or the request failed on its way there or back.
RequestThrows ==
  /\ getAndResetShouldClearDependenciesCache
  /\ dropped' = (dropped \/ shouldClearDependenciesCache)
  /\ nodeStale' \in {nodeStale, nodeStale /\ ~shouldClearDependenciesCache}
  /\ Throw

UserStep ==
  \/ \E t \in TsConfig : EditTsConfig(t)
  \/ \E f \in File : CreateSource(f) \/ DeleteSource(f)
  \/ EditPackageJson
  \/ ChangeSettings

ProcessEvent ==
  \/ \E t \in TsConfig : ProcessTsConfig(t)
  \/ ProcessPackageJson
  \/ ProcessCreated

Analyze ==
  \/ UseProperty \/ UseLookup \/ UseFallback \/ FallbackThrows
  \/ EndAnalysis
  \/ \E f \in File : AnswerAtOnce(f) \/ StartSearch(f)
  \/ LoadNext \/ LoadThrows \/ NothingFound
  \/ RequestServed \/ ParsingError \/ RequestThrows

Next == UserStep \/ ProcessEvent \/ Analyze

\* The thread that searches keeps running.
Spec == Init /\ [][Next]_vars /\ WF_vars(LoadNext \/ NothingFound)

(***************************************************************************)
(* Properties.                                                             *)
(***************************************************************************)

\* The least set of tsconfigs with the originals and what they reference.
Reach(o) ==
  {t \in Path : \A S \in SUBSET Path :
     cache[o].original \subseteq S /\ (\A s \in S : RefsOf(s) \subseteq S) => t \in S}

Delivered == edited = {} /\ ~created

\* process() clears the PROPERTY cache only for tsconfigs it has discovered,
\* which a base that is merely extended is not.
Tracked(o) ==
  o = "PROPERTY" => \A t \in cache[o].tried \ {Generated} :
                       disk[t] # Absent => disk[t].base = t

\* Once all file events are delivered, what the cache knows of a source file
\* is what a search of the disk would find now: the tsconfig it names covers
\* the file and can be reached from the originals, and "no tsconfig" is said
\* only when none that can be reached covers it (and no request threw).
AnswersCurrent ==
  Delivered => \A o \in Origin : Tracked(o) => \A f \in sources :
    LET t == cache[o].map[f] IN
    /\ t \in Path => t \in Reach(o) /\ f \in FilesOf(t)
    /\ t = None /\ cache[o].threw = {} => \A u \in Reach(o) : f \notin FilesOf(u)

\* Once all file events are delivered, an initialized lookup cache knows
\* exactly the tsconfig.json files that exist.
LookupCurrent ==
  Delivered /\ cache["LOOKUP"].initialized =>
    cache["LOOKUP"].original = {t \in Named : disk[t] # Absent}

RequestedOnce(c) ==
  /\ \A i, j \in DOMAIN c.pending : c.pending[i] = c.pending[j] => i = j
  /\ ElementsOf(c.pending) \cap c.tried = {}
  /\ ElementsOf(c.pending) \cup c.tried = c.discovered

\* Between two clearings no tsconfig is requested twice, however the projects
\* reference each other, and none that was discovered is forgotten: each is
\* either still queued, once, or has been requested.
EachRequestedOnce == \A o \in Origin : RequestedOnce(cache[o])

\* A change of package.json is on its way, or noted, until a request has made
\* the worker drop its dependencies.  It is lost only by the one request that
\* carries the note, when that throws or is answered with a parsing error: no
\* failure of a search before it, no later event and no other file loses it.
PackageChangeSeen ==
  nodeStale => packageEdited \/ shouldClearDependenciesCache \/ dropped

\* A search ends, whatever cycles the references form.
SearchEnds == phase = "search" ~> phase # "search"

\* The cache of the origin is filled with the tsconfigs the providers found.
FillsTheCache ==
  phase # "idle" /\ found # {} => cache[origin].original = found
=============================================================================
