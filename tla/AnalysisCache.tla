--------------------------- MODULE AnalysisCache ---------------------------
(***************************************************************************)
(* The incremental cache over a sequence of analyses of one project.       *)
(*                                                                         *)
(* An analysis reads the cache that an earlier one has left (`previous`)   *)
(* and writes its own (`next`).  Each file has five entries, under keys    *)
(* that hold the version of the plugin, and those of the UCFGs also the    *)
(* version of the security frontend.  In between the project, its settings *)
(* and the versions may change and stored entries may be damaged.          *)
(***************************************************************************)
EXTENDS Naturals, Sequences, FiniteSets

CONSTANTS
  Files,         \* input files of the sensors
  Embedding,     \* those among them that are HTML or YAML
  Contents,      \* what a file may contain
  Versions,      \* versions of this plugin
  UcfgVersions,  \* versions of the security frontend
  Settings,      \* what else an analysis depends on: rules, type of the file
  None,          \* no version, no file, no result
  MaxAnalyses,   \* bound on the number of analyses
  MaxChanges,    \* bound on the number of changes and damages between them
  MaxDamage      \* bound on the number of entries that get damaged

ASSUME CacheAssumption ==
  /\ Embedding \subseteq Files
  /\ None \notin Files \cup UcfgVersions
  /\ {MaxAnalyses, MaxChanges, MaxDamage} \subseteq Nat

VARIABLES
  world,      \* contents, versions and settings now
  previous,   \* previousCache(): a function from some keys to entries
  next,       \* nextCache()
  published,  \* history: how `previous` came by each file
  running,    \* is an analysis in progress?
  mode,       \* of that analysis: is the API compatible, canSkipUnchangedFiles()
  todo,       \* files it has not come to
  current,    \* the file it is at, and its strategy
  outcome,    \* how each file was done
  workDir,    \* UCFG files of each source file in the work directory
  cpd,        \* CPD tokens saved for each file
  counts      \* analyses, changes and damages so far

project == <<world, previous, published>>
analysis == <<next, running, mode, todo, current, outcome, workDir, cpd>>
vars == <<project, analysis, counts>>

Ucfg == {"json", "seq"}
Cpd == {"data", "table"}
Kinds == Ucfg \cup Cpd \cup {"metadata"}

Worlds ==
  [content: [Files -> Contents], version: Versions, ucfg: UcfgVersions, settings: Settings]

(* What a result, or an entry, was made from, and whether the bridge       *)
(* answered with results or with an error.                                 *)
Made == [content: Contents, version: Versions, ucfg: UcfgVersions, settings: Settings,
         complete: BOOLEAN]
MadeNow(f, complete) ==
  [content |-> world.content[f], version |-> world.version,
   ucfg |-> world.ucfg, settings |-> world.settings, complete |-> complete]

(* How a file was done: from the cache, or by a request that was answered  *)
(* with results or with an error.                                          *)
Answered == {"analyzed", "error"}
Outcomes == {"none", "hit"} \cup Answered

(* How an entry reads: well, or with an IOException, or with an unchecked  *)
(* exception (an index that is out of bounds, a field that is missing).    *)
Damages == {"none", "io", "runtime"}
Entry == [made: Made, damage: Damages]

Key == [kind: Kinds, file: Files, version: Versions, ucfg: UcfgVersions \cup {None}]
Empty == [k \in {} |-> None]

Strategies == {"NO_CACHE", "WRITE_ONLY", "READ_AND_WRITE"}
NoFile == [file |-> None, strategy |-> "NO_CACHE"]

(* UCFG files in the work directory: of what, and all of them or a part.   *)
Nothing == [made |-> None, whole |-> FALSE]

(* What an analysis begins with: its work directory and its cache are empty. *)
NoMode == [compatible |-> TRUE, canSkip |-> FALSE]
NotDone == [f \in Files |-> "none"]
NoUcfgs == [f \in Files |-> Nothing]
NoTokens == [f \in Files |-> None]

Init ==
  /\ world \in Worlds
  /\ previous = Empty /\ next = Empty
  /\ published = [f \in Files |-> [outcome |-> "none", made |-> None]]
  /\ running = FALSE
  /\ mode = NoMode /\ todo = {} /\ current = NoFile
  /\ outcome = NotDone /\ workDir = NoUcfgs /\ cpd = NoTokens
  /\ counts = [analyses |-> 0, changes |-> 0, damages |-> 0]

-----------------------------------------------------------------------------
(* Between analyses.                                                       *)
Disturbed == ~ running /\ counts.changes + counts.damages < MaxChanges

Change ==
  /\ Disturbed
  /\ \/ \E f \in Files, c \in Contents : world' = [world EXCEPT !.content[f] = c]
     \/ \E v \in Versions : world' = [world EXCEPT !.version = v]
     \/ \E u \in UcfgVersions : world' = [world EXCEPT !.ucfg = u]
     \/ \E s \in Settings : world' = [world EXCEPT !.settings = s]
  /\ counts' = [counts EXCEPT !.changes = @ + 1]
  /\ UNCHANGED <<previous, published, analysis>>

Damage ==
  /\ Disturbed
  /\ counts.damages < MaxDamage
  /\ \E k \in DOMAIN previous :
       \/ previous' = [j \in DOMAIN previous \ {k} |-> previous[j]]
       \/ \E d \in Damages \ {"none"} :
            /\ k.kind = "seq" => d = "io"
            /\ previous' = [previous EXCEPT ![k].damage = d]
  /\ counts' = [counts EXCEPT !.damages = @ + 1]
  /\ UNCHANGED <<world, published, analysis>>

Begin ==
  /\ ~ running
  /\ counts.analyses < MaxAnalyses
  /\ running' = TRUE
  /\ mode' \in [compatible: BOOLEAN, canSkip: BOOLEAN]
  /\ todo' = Files
  /\ counts' = [counts EXCEPT !.analyses = @ + 1]
  /\ UNCHANGED <<project, next, current, outcome, workDir, cpd>>

(* A sensor that is cancelled, or finds the bridge failed, ends normally.  *)
Skip ==
  /\ running
  /\ current = NoFile
  /\ todo # {}
  /\ todo' = {}
  /\ UNCHANGED <<project, next, running, mode, current, outcome, workDir, cpd, counts>>

(* Nothing of an analysis that is over is left but what the scanner keeps. *)
Over ==
  /\ running' = FALSE
  /\ mode' = NoMode /\ todo' = {} /\ current' = NoFile
  /\ next' = Empty /\ outcome' = NotDone /\ workDir' = NoUcfgs /\ cpd' = NoTokens

(* The scanner keeps the cache of an analysis that succeeds, or does not   *)
(* (that of a pull request; one without the API has none).                 *)
End ==
  /\ running
  /\ current = NoFile
  /\ todo = {}
  /\ Over
  /\ \/ /\ mode.compatible
        /\ previous' = next
        /\ published' = [f \in Files |-> [outcome |-> outcome[f],
             made |-> IF outcome[f] \in Answered THEN MadeNow(f, outcome[f] = "analyzed")
                      ELSE None]]
     \/ UNCHANGED <<previous, published>>
  /\ UNCHANGED <<world, counts>>

(* An exception ends the sensor, and the scan: its results and its cache   *)
(* are lost.                                                               *)
Abort ==
  /\ Over
  /\ UNCHANGED <<project, counts>>

-----------------------------------------------------------------------------
(* Mutant: the version of the plugin is not part of the key. *)
KeyWithoutVersion(kind, f) ==
  [kind |-> kind, file |-> f, version |-> None,
   ucfg |-> IF kind \in Ucfg THEN world.ucfg ELSE None]

CacheKey(kind, f) ==
  [kind |-> kind, file |-> f, version |-> world.version,
   ucfg |-> IF kind \in Ucfg THEN world.ucfg ELSE None]

Contained(kind, f) == CacheKey(kind, f) \in DOMAIN previous
Stored(kind, f) == previous[CacheKey(kind, f)]

(* Mutant: the contents are not compared. *)
AnyFile(f) == TRUE

(* isSameFile(): size and hash of the contents.                            *)
SameFile(f) == Stored("metadata", f).made.content = world.content[f]

IsInCache(f) == \A kind \in Ucfg \cup Cpd : Contained(kind, f)

(* The order in which readFromCache() reads the entries.                   *)
ReadOrder == <<"json", "seq", "table", "data">>
Bad(f) == {i \in 1 .. 4 : Stored(ReadOrder[i], f).damage # "none"}
FirstBad(f) == CHOOSE i \in Bad(f) : \A j \in Bad(f) : i <= j

(* What a read of the entries up to the bad one leaves behind.  After an   *)
(* error the manifest is empty, and so are the tokens.                     *)
Extracted(f, whole) ==
  IF Stored("seq", f).made.complete
  THEN workDir' = [workDir EXCEPT ![f] = [made |-> Stored("seq", f).made, whole |-> whole]]
  ELSE UNCHANGED workDir

TokensOf(f, made) == IF made.complete /\ f \notin Embedding THEN made ELSE None

WhatWasRead(f) ==
  CASE FirstBad(f) = 1 -> UNCHANGED workDir
    [] FirstBad(f) = 2 -> Extracted(f, FALSE)
    [] OTHER -> Extracted(f, TRUE)

(* Mutant: the entries are copied while they are read. *)
CopiedEarly(f) ==
  next' = [k \in DOMAIN next \cup {CacheKey(kind, f) : kind \in Ucfg} |->
             IF k \in DOMAIN next THEN next[k] ELSE previous[k]]

(* Entries are copied after all of them were read.                         *)
NotCopied(f) == UNCHANGED next

At(f, strategy) ==
  /\ current' = [file |-> f, strategy |-> strategy]
  /\ todo' = todo \ {f}
  /\ UNCHANGED <<project, running, mode, outcome, cpd, counts>>

Takes(f) == running /\ current = NoFile /\ f \in todo
Looks(f) == Takes(f) /\ mode.compatible /\ mode.canSkip

(* getStrategyFor(), one action for each of its ways out.                  *)
ApiIncompatible(f) ==
  Takes(f) /\ ~ mode.compatible /\ At(f, "NO_CACHE") /\ UNCHANGED <<next, workDir>>

ModeIneligible(f) ==
  /\ Takes(f) /\ mode.compatible /\ ~ mode.canSkip
  /\ At(f, "WRITE_ONLY")
  /\ UNCHANGED <<next, workDir>>

(* The metadata are read outside the try block.                            *)
MetadataThrow(f) ==
  /\ Looks(f)
  /\ Contained("metadata", f) /\ Stored("metadata", f).damage # "none"
  /\ Abort

Unchanged(f) ==
  /\ Contained("metadata", f)
  /\ Stored("metadata", f).damage = "none"
  /\ SameFile(f)

FileChanged(f) ==
  /\ Looks(f)
  /\ Contained("metadata", f) => Stored("metadata", f).damage = "none"
  /\ ~ Unchanged(f)
  /\ At(f, "WRITE_ONLY")
  /\ UNCHANGED <<next, workDir>>

FileNotInCache(f) ==
  /\ Looks(f) /\ Unchanged(f) /\ ~ IsInCache(f)
  /\ At(f, "WRITE_ONLY")
  /\ UNCHANGED <<next, workDir>>

CacheCorrupted(f) ==
  /\ Looks(f) /\ Unchanged(f) /\ IsInCache(f)
  /\ Bad(f) # {} /\ Stored(ReadOrder[FirstBad(f)], f).damage = "io"
  /\ WhatWasRead(f)
  /\ NotCopied(f)
  /\ At(f, "WRITE_ONLY")

ReadThrows(f) ==
  /\ Looks(f) /\ Unchanged(f) /\ IsInCache(f)
  /\ Bad(f) # {} /\ Stored(ReadOrder[FirstBad(f)], f).damage = "runtime"
  /\ Abort

(* A hit.  copyFromPrevious() copies the UCFG and CPD entries; the         *)
(* metadata are not copied.  HTML and YAML files save no CPD tokens.       *)
Hit(f) ==
  LET copied == {CacheKey(kind, f) : kind \in Ucfg \cup Cpd}
  IN  /\ Looks(f) /\ Unchanged(f) /\ IsInCache(f) /\ Bad(f) = {}
      /\ Extracted(f, TRUE)
      /\ next' = [k \in DOMAIN next \cup copied |->
                    IF k \in copied THEN previous[k] ELSE next[k]]
      /\ cpd' = [cpd EXCEPT ![f] = TokensOf(f, Stored("data", f).made)]
      /\ outcome' = [outcome EXCEPT ![f] = "hit"]
      /\ todo' = todo \ {f}
      /\ UNCHANGED <<project, running, mode, current, counts>>

-----------------------------------------------------------------------------
(* Mutant: the string table is forgotten. *)
KindsWithoutTable == Kinds \ {"table"}

(* writeToCache() writes the entries of all kinds.                         *)
KindsWritten == Kinds

(* The results are saved, then the entries written unless there is no      *)
(* cache.                                                                  *)
Save(f, complete) ==
  LET keys == {CacheKey(kind, f) : kind \in KindsWritten}
      entry == [made |-> MadeNow(f, complete), damage |-> "none"]
  IN  /\ current.file = f
      /\ cpd' = [cpd EXCEPT ![f] = TokensOf(f, MadeNow(f, complete))]
      /\ next' = IF current.strategy = "NO_CACHE" THEN next
                 ELSE [k \in DOMAIN next \cup keys |->
                         IF k \in keys THEN entry ELSE next[k]]
      /\ outcome' = [outcome EXCEPT ![f] = IF complete THEN "analyzed" ELSE "error"]
      /\ current' = NoFile
      /\ UNCHANGED <<project, running, mode, todo, counts>>

(* The bridge analyzes the file and writes its UCFG files.                 *)
Analyze(f) ==
  /\ Save(f, TRUE)
  /\ workDir' = [workDir EXCEPT ![f] = [made |-> MadeNow(f, TRUE), whole |-> TRUE]]

(* It answers with a parsing error or with an error: the response has no   *)
(* UCFG files and no tokens, and is stored like any other.  The request    *)
(* may have written some UCFG files before.                                *)
AnsweredWithError(f) ==
  /\ Save(f, FALSE)
  /\ \/ UNCHANGED workDir
     \/ \E whole \in BOOLEAN :
          workDir' = [workDir EXCEPT ![f] = [made |-> MadeNow(f, TRUE), whole |-> whole]]

(* The request fails, or a UCFG file cannot be read back.                  *)
AnalyzeFails(f) ==
  /\ current.file = f
  /\ Abort

File(f) ==
  \/ ApiIncompatible(f) \/ ModeIneligible(f) \/ MetadataThrow(f)
  \/ FileChanged(f) \/ FileNotInCache(f) \/ CacheCorrupted(f) \/ ReadThrows(f) \/ Hit(f)
  \/ Analyze(f) \/ AnsweredWithError(f) \/ AnalyzeFails(f)

Next == Change \/ Damage \/ Begin \/ Skip \/ End \/ \E f \in Files : File(f)

Spec == Init /\ [][Next]_vars

-----------------------------------------------------------------------------
CacheOK(cache) ==
  /\ DOMAIN cache \subseteq Key
  /\ \A k \in DOMAIN cache : cache[k] \in Entry

TypeOK ==
  /\ world \in Worlds
  /\ CacheOK(previous) /\ CacheOK(next)
  /\ published \in [Files -> [outcome: Outcomes, made: Made \cup {None}]]
  /\ running \in BOOLEAN
  /\ mode \in [compatible: BOOLEAN, canSkip: BOOLEAN]
  /\ todo \subseteq Files
  /\ current \in [file: Files \cup {None}, strategy: Strategies]
  /\ outcome \in [Files -> Outcomes]
  /\ workDir \in [Files -> [made: Made \cup {None}, whole: BOOLEAN]]
  /\ cpd \in [Files -> Made \cup {None}]
  /\ counts \in [analyses: 0 .. MaxAnalyses, changes: 0 .. MaxChanges, damages: 0 .. MaxDamage]

(* What is left of results made from m: its UCFG files and tokens, or      *)
(* nothing if m is an error.                                               *)
Left(f, m) ==
  /\ cpd[f] = TokensOf(f, m)
  /\ workDir[f] = IF m.complete THEN [made |-> m, whole |-> TRUE] ELSE Nothing

(* A hit leaves what the analysis that filled the cache had left of this   *)
(* file, no more and no less: UCFGs and tokens both of that analysis, or   *)
(* neither if it was answered with an error.  That analysis had the        *)
(* present contents and versions; only its settings may have been others,  *)
(* which no key holds.  A file that is analyzed has its own results.       *)
ResultsCurrent ==
  \A f \in Files : running =>
    /\ outcome[f] = "analyzed" => Left(f, MadeNow(f, TRUE))
    /\ outcome[f] = "hit" =>
         /\ Left(f, published[f].made)
         /\ \E s \in Settings :
              published[f].made =
                [MadeNow(f, published[f].outcome = "analyzed") EXCEPT !.settings = s]

(* No entry is written for a file that has one in the new cache: write()   *)
(* and copyFromPrevious() refuse a key that is there already.              *)
EntriesWrittenOnce ==
  running => \A f \in todo \cup {current.file} : \A k \in DOMAIN next : k.file # f

(* A file is analyzed again though unchanged files may be skipped only if  *)
(* it or a version changed, an entry was damaged, or the analysis that     *)
(* left the cache did not analyze it: not even a hit leaves what another   *)
(* hit needs.  An analysis that was answered with an error is not          *)
(* repeated.                                                               *)
MissJustified ==
  LET f == current.file
  IN  running /\ f # None /\ mode.compatible /\ mode.canSkip
        /\ published[f].outcome \in Answered /\ counts.damages = 0 =>
      \A s \in Settings, complete \in BOOLEAN :
        published[f].made # [MadeNow(f, complete) EXCEPT !.settings = s]
=============================================================================
