---------------------------- MODULE CacheProofs ----------------------------
(***************************************************************************)
(* The incremental cache, for any files, versions and settings and any     *)
(* sequence of analyses, changes and damages.  The argument: all entries   *)
(* of a file in one cache were made together, a key only finds entries     *)
(* made by the versions it names, and metadata are only left by a request. *)
(*                                                                         *)
(* The sequence of UCFG files and the codec of CPD tokens, for any files   *)
(* and any tokens.  The argument: each item that was written stands in the *)
(* stream where the one before it ends, and the reader is at one of these  *)
(* places, so it finds the next item whole or meets the end.               *)
(***************************************************************************)
EXTENDS AnalysisCache, UcfgSequence, CpdCodec, SequenceTheorems, WellFoundedInduction, TLAPS

(* An entry was made by the versions of its key; the entries of a file     *)
(* were made by one analysis.                                              *)
KeysTell(cache) ==
  \A k \in DOMAIN cache :
    /\ cache[k].made.version = k.version
    /\ k.kind \in Ucfg => cache[k].made.ucfg = k.ucfg

MadeTogether(cache) ==
  \A j, k \in DOMAIN cache : j.file = k.file => cache[j].made = cache[k].made

(* The file that is analyzed was taken, and has no result yet. *)
Position ==
  /\ current.file = None => current = NoFile
  /\ ~ running => current = NoFile
  /\ current.file \notin todo
  /\ running => \A f \in todo \cup {current.file} : f \in Files => outcome[f] = "none"
  /\ mode.compatible /\ current.file # None => current.strategy # "NO_CACHE"

(* All that an analysis writes for a file made from m. *)
KeyOf(kind, f, m) ==
  [kind |-> kind, file |-> f, version |-> m.version,
   ucfg |-> IF kind \in Ucfg THEN m.ucfg ELSE None]

Holds(cache, f, m) ==
  \A kind \in Kinds :
    /\ KeyOf(kind, f, m) \in DOMAIN cache
    /\ cache[KeyOf(kind, f, m)] = [made |-> m, damage |-> "none"]

(* What the request for a file that was done was answered with. *)
Answer(f) == MadeNow(f, outcome[f] = "analyzed")

AnalyzedStored ==
  running /\ mode.compatible =>
    \A f \in Files : outcome[f] \in Answered => Holds(next, f, Answer(f))

PublishedStored ==
  counts.damages = 0 =>
    \A f \in Files : published[f].outcome \in Answered =>
      Holds(previous, f, published[f].made)

(* Metadata are in a cache only for files that were analyzed for it. *)
NextFromAnswers ==
  running => \A k \in DOMAIN next :
    k.kind = "metadata" => outcome[k.file] \in Answered /\ next[k].made = Answer(k.file)

PreviousFromAnswers ==
  /\ \A k \in DOMAIN previous : k.kind = "metadata" =>
       published[k.file].outcome \in Answered /\ previous[k].made = published[k.file].made
  /\ \A f \in Files : published[f].outcome \in Answered =>
       /\ published[f].made \in Made
       /\ published[f].made.complete = (published[f].outcome = "analyzed")

(* A file that has not been taken has nothing in the work directory. *)
Untouched ==
  /\ ~ running => next = Empty /\ outcome = NotDone /\ workDir = NoUcfgs /\ cpd = NoTokens
  /\ \A f \in todo : workDir[f] = Nothing

CachesOK ==
  /\ KeysTell(previous) /\ KeysTell(next)
  /\ MadeTogether(previous) /\ MadeTogether(next)

IInv ==
  /\ TypeOK
  /\ CachesOK
  /\ Position
  /\ EntriesWrittenOnce
  /\ AnalyzedStored
  /\ PublishedStored
  /\ NextFromAnswers
  /\ PreviousFromAnswers
  /\ Untouched
  /\ ResultsCurrent
  /\ MissJustified

-----------------------------------------------------------------------------
LEMMA KeyTyped ==
  ASSUME TypeOK, NEW f \in Files, NEW kind \in Kinds
  PROVE  CacheKey(kind, f) \in Key
BY DEF TypeOK, Worlds, CacheKey, Key, Ucfg

LEMMA MadeNowTyped ==
  ASSUME TypeOK, NEW f \in Files, NEW c \in BOOLEAN
  PROVE  MadeNow(f, c) \in Made
BY DEF TypeOK, Worlds, MadeNow, Made

LEMMA StoredTyped ==
  ASSUME TypeOK, NEW f \in Files, NEW kind \in Kinds, Contained(kind, f)
  PROVE  /\ Stored(kind, f) \in Entry
         /\ Stored(kind, f).made \in Made
         /\ Stored(kind, f).damage \in Damages
<1>1. Stored(kind, f) \in Entry
  BY DEF TypeOK, CacheOK, Contained, Stored
<1> QED
  BY <1>1 DEF Entry

(* Analyze and AnsweredWithError differ in what they leave on disk only.   *)
LEMMA RequestSaves ==
  ASSUME NEW f, Analyze(f) \/ AnsweredWithError(f)
  PROVE  \E c \in BOOLEAN : Save(f, c)
BY DEF Analyze, AnsweredWithError

(* What is over leaves well-typed variables. *)
LEMMA OverTyped ==
  ASSUME TypeOK, Over
  PROVE  /\ CacheOK(next') /\ todo' \subseteq Files /\ running' \in BOOLEAN
         /\ mode' \in [compatible: BOOLEAN, canSkip: BOOLEAN]
         /\ current' \in [file: Files \cup {None}, strategy: Strategies]
         /\ outcome' \in [Files -> Outcomes]
         /\ workDir' \in [Files -> [made: Made \cup {None}, whole: BOOLEAN]]
         /\ cpd' \in [Files -> Made \cup {None}]
BY DEF Over, NoMode, NoFile, Strategies, Empty, CacheOK, NotDone, Outcomes, NoUcfgs, NoTokens, Nothing

(* What is found with the entries of a file stays a record of that type. *)
LEMMA ExtractedTyped ==
  ASSUME TypeOK, NEW f \in Files, NEW w \in BOOLEAN, Contained("seq", f), Extracted(f, w)
  PROVE  workDir' \in [Files -> [made: Made \cup {None}, whole: BOOLEAN]]
<1>1. Stored("seq", f).made \in Made
  BY StoredTyped DEF Kinds, Ucfg
<1>2. \/ UNCHANGED workDir
      \/ workDir' = [workDir EXCEPT ![f] = [made |-> Stored("seq", f).made, whole |-> w]]
  BY DEF Extracted
<1>3. workDir \in [Files -> [made: Made \cup {None}, whole: BOOLEAN]]
  BY DEF TypeOK
<1> QED
  BY <1>1, <1>2, <1>3

LEMMA TokensTyped ==
  ASSUME NEW f, NEW m \in Made
  PROVE  TokensOf(f, m) \in Made \cup {None}
BY DEF TokensOf

LEMMA WhatWasReadTyped ==
  ASSUME TypeOK, NEW f \in Files, IsInCache(f), WhatWasRead(f)
  PROVE  workDir' \in [Files -> [made: Made \cup {None}, whole: BOOLEAN]]
<1>1. Contained("seq", f)
  BY DEF IsInCache, Ucfg
<1>2. UNCHANGED workDir \/ Extracted(f, FALSE) \/ Extracted(f, TRUE)
  BY Zenon DEF WhatWasRead
<1> QED
  BY <1>1, <1>2, ExtractedTyped DEF TypeOK

(* Every step keeps every variable in its type. *)
LEMMA TypeStep == TypeOK /\ [Next]_vars => TypeOK'
<1> SUFFICES ASSUME TypeOK, [Next]_vars PROVE TypeOK'
  OBVIOUS
<1>1. CASE Change
  <2>1. world' \in Worlds
    <3>1. ASSUME NEW f \in Files, NEW c \in Contents, world' = [world EXCEPT !.content[f] = c]
          PROVE  world' \in Worlds
      <4>1. [world.content EXCEPT ![f] = c] \in [Files -> Contents]
        BY DEF TypeOK, Worlds
      <4> QED
        BY <3>1, <4>1 DEF TypeOK, Worlds
    <3> QED
      BY <1>1, <3>1 DEF Change, TypeOK, Worlds
  <2>2. counts' \in [analyses: 0 .. MaxAnalyses, changes: 0 .. MaxChanges, damages: 0 .. MaxDamage]
    BY <1>1, CacheAssumption DEF Change, Disturbed, TypeOK
  <2> QED
    BY <1>1, <2>1, <2>2 DEF Change, TypeOK, CacheOK, analysis
<1>2. CASE Damage
  <2>1. CacheOK(previous')
    <3>1. PICK k \in DOMAIN previous :
            \/ previous' = [j \in DOMAIN previous \ {k} |-> previous[j]]
            \/ \E d \in Damages \ {"none"} : previous' = [previous EXCEPT ![k].damage = d]
      BY <1>2 DEF Damage
    <3>2. CASE previous' = [j \in DOMAIN previous \ {k} |-> previous[j]]
      BY <3>2 DEF TypeOK, CacheOK
    <3>3. ASSUME NEW d \in Damages \ {"none"}, previous' = [previous EXCEPT ![k].damage = d]
          PROVE  CacheOK(previous')
      <4>1. previous[k] \in Entry /\ DOMAIN previous' = DOMAIN previous
        BY <3>3 DEF TypeOK, CacheOK
      <4>2. previous'[k] \in Entry
        BY <3>3, <4>1 DEF Entry
      <4> QED
        BY <3>3, <4>1, <4>2 DEF TypeOK, CacheOK
    <3> QED
      BY <3>1, <3>2, <3>3
  <2>2. counts' \in [analyses: 0 .. MaxAnalyses, changes: 0 .. MaxChanges, damages: 0 .. MaxDamage]
    BY <1>2, CacheAssumption DEF Damage, TypeOK
  <2> QED
    BY <1>2, <2>1, <2>2 DEF Damage, TypeOK, CacheOK, analysis
<1>3. CASE Begin
  <2>1. counts' \in [analyses: 0 .. MaxAnalyses, changes: 0 .. MaxChanges, damages: 0 .. MaxDamage]
    BY <1>3, CacheAssumption DEF Begin, TypeOK
  <2> QED
    BY <1>3, <2>1 DEF Begin, TypeOK, CacheOK, project
<1>4. CASE Skip
  BY <1>4 DEF Skip, TypeOK, CacheOK, project
<1>5. CASE End
  <2>1. published' \in [Files -> [outcome: Outcomes, made: Made \cup {None}]]
    <3>1. \A f \in Files : /\ outcome[f] \in Outcomes
                           /\ MadeNow(f, outcome[f] = "analyzed") \in Made
      BY MadeNowTyped DEF TypeOK
    <3> QED
      BY <1>5, <3>1 DEF End, TypeOK
  <2>2. CacheOK(previous')
    BY <1>5 DEF End, TypeOK
  <2>3. Over /\ UNCHANGED <<world, counts>>
    BY <1>5 DEF End
  <2> QED
    BY <2>1, <2>2, <2>3, OverTyped DEF TypeOK
<1>6. ASSUME NEW f \in Files, File(f) PROVE TypeOK'
  <2>1. CASE ApiIncompatible(f) \/ ModeIneligible(f) \/ FileChanged(f) \/ FileNotInCache(f)
    <3>1. current' \in [file: Files \cup {None}, strategy: Strategies]
      BY <2>1 DEF ApiIncompatible, ModeIneligible, FileChanged, FileNotInCache, At, Strategies
    <3> QED
      BY <2>1, <3>1 DEF ApiIncompatible, ModeIneligible, FileChanged, FileNotInCache, At,
           TypeOK, CacheOK, project
  <2>2. CASE MetadataThrow(f) \/ ReadThrows(f) \/ AnalyzeFails(f)
    <3>1. Over /\ UNCHANGED <<project, counts>>
      BY <2>2 DEF MetadataThrow, ReadThrows, AnalyzeFails, Abort
    <3> QED
      BY <3>1, OverTyped DEF TypeOK, CacheOK, project
  <2>3. CASE CacheCorrupted(f)
    <3>1. current' \in [file: Files \cup {None}, strategy: Strategies]
      BY <2>3 DEF CacheCorrupted, At, Strategies
    <3>2. workDir' \in [Files -> [made: Made \cup {None}, whole: BOOLEAN]]
      BY <2>3, WhatWasReadTyped DEF CacheCorrupted
    <3> QED
      BY <2>3, <3>1, <3>2 DEF CacheCorrupted, NotCopied, At, TypeOK, CacheOK, project
  <2>5. CASE Hit(f)
    <3>1. \A kind \in Ucfg \cup Cpd : Contained(kind, f) /\ kind \in Kinds
      BY <2>5 DEF Hit, IsInCache, Kinds
    <3>2. workDir' \in [Files -> [made: Made \cup {None}, whole: BOOLEAN]]
      BY <2>5, <3>1, ExtractedTyped DEF Hit, Ucfg
    <3>3. CacheOK(next')
      BY <2>5, <3>1 DEF Hit, TypeOK, CacheOK, Contained
    <3>4. cpd' \in [Files -> Made \cup {None}]
      <4>1. Stored("data", f).made \in Made
        BY <3>1, StoredTyped DEF Cpd
      <4> QED
        BY <2>5, <4>1, TokensTyped DEF Hit, TypeOK
    <3> QED
      BY <2>5, <3>2, <3>3, <3>4 DEF Hit, TypeOK, CacheOK, project, Outcomes
  <2>6. CASE Analyze(f) \/ AnsweredWithError(f)
    <3>1. PICK c \in BOOLEAN : Save(f, c)
      BY <2>6, RequestSaves
    <3>2. CacheOK(next')
      <4>1. \A kind \in KindsWritten : CacheKey(kind, f) \in Key
        BY KeyTyped DEF KindsWritten
      <4>2. [made |-> MadeNow(f, c), damage |-> "none"] \in Entry
        BY MadeNowTyped DEF Entry, Damages
      <4> QED
        BY <3>1, <4>1, <4>2 DEF Save, TypeOK, CacheOK
    <3>3. workDir' \in [Files -> [made: Made \cup {None}, whole: BOOLEAN]]
      <4>1. MadeNow(f, TRUE) \in Made
        BY MadeNowTyped
      <4>2. \/ UNCHANGED workDir
            \/ \E w \in BOOLEAN :
                 workDir' = [workDir EXCEPT ![f] = [made |-> MadeNow(f, TRUE), whole |-> w]]
        BY <2>6 DEF Analyze, AnsweredWithError
      <4>3. workDir \in [Files -> [made: Made \cup {None}, whole: BOOLEAN]]
        BY DEF TypeOK
      <4>4. \A w \in BOOLEAN :
              [workDir EXCEPT ![f] = [made |-> MadeNow(f, TRUE), whole |-> w]]
                \in [Files -> [made: Made \cup {None}, whole: BOOLEAN]]
        BY <4>1, <4>3
      <4> QED
        BY <4>2, <4>3, <4>4
    <3>4. cpd' \in [Files -> Made \cup {None}]
      BY <3>1, MadeNowTyped, TokensTyped DEF Save, TypeOK
    <3>5. outcome' \in [Files -> Outcomes]
      BY <3>1 DEF Save, TypeOK, Outcomes, Answered
    <3> QED
      BY <3>1, <3>2, <3>3, <3>4, <3>5 DEF Save, NoFile, Strategies, TypeOK, CacheOK, project
  <2> QED
    BY <1>6, <2>1, <2>2, <2>3, <2>5, <2>6 DEF File
<1>7. CASE UNCHANGED vars
  BY <1>7 DEF vars, project, analysis, TypeOK, CacheOK
<1> QED
  BY <1>1, <1>2, <1>3, <1>4, <1>5, <1>6, <1>7 DEF Next

-----------------------------------------------------------------------------
LEMMA KindFacts ==
  /\ Ucfg \subseteq Kinds /\ Cpd \subseteq Kinds
  /\ "seq" \in Ucfg /\ "json" \in Ucfg /\ "data" \in Cpd /\ "table" \in Cpd
  /\ "metadata" \in Kinds
BY DEF Ucfg, Cpd, Kinds

LEMMA KeyFields ==
  ASSUME NEW f, NEW kind
  PROVE  /\ CacheKey(kind, f).file = f
         /\ CacheKey(kind, f).kind = kind
         /\ CacheKey(kind, f).version = world.version
         /\ kind \in Ucfg => CacheKey(kind, f).ucfg = world.ucfg
BY DEF CacheKey

(* A file that has not been done has no entry in the new cache. *)
LEMMA NoEntryYet ==
  ASSUME IInv, running, NEW f \in todo \cup {current.file}, NEW k \in DOMAIN next
  PROVE  k.file # f
BY DEF IInv, EntriesWrittenOnce

(* Damage to an entry does not change what it was made from. *)
LEMMA DamageKeepsMade ==
  ASSUME TypeOK, Damage
  PROVE  \A k \in DOMAIN previous' : previous'[k].made = previous[k].made
<1>1. PICK k \in DOMAIN previous :
        \/ previous' = [j \in DOMAIN previous \ {k} |-> previous[j]]
        \/ \E d \in Damages \ {"none"} : previous' = [previous EXCEPT ![k].damage = d]
  BY DEF Damage
<1>2. CASE previous' = [j \in DOMAIN previous \ {k} |-> previous[j]]
  BY <1>2
<1>3. ASSUME NEW d \in Damages, previous' = [previous EXCEPT ![k].damage = d]
      PROVE  \A j \in DOMAIN previous' : previous'[j].made = previous[j].made
  <2>1. previous[k] \in Entry
    BY DEF TypeOK, CacheOK
  <2> QED
    BY <1>3, <2>1 DEF Entry
<1> QED
  BY <1>1, <1>2, <1>3

LEMMA CachesStep == IInv /\ [Next]_vars => CachesOK'
<1> SUFFICES ASSUME IInv, [Next]_vars PROVE CachesOK'
  OBVIOUS
<1> USE DEF IInv
<1>1. CASE UNCHANGED <<previous, next>>
  BY <1>1 DEF CachesOK, KeysTell, MadeTogether
<1>2. CASE Damage
  <2>1. DOMAIN previous' \subseteq DOMAIN previous
    BY <1>2 DEF Damage
  <2>2. \A k \in DOMAIN previous' : previous'[k].made = previous[k].made
    BY <1>2, DamageKeepsMade
  <2>3. KeysTell(previous') /\ MadeTogether(previous')
    BY <2>1, <2>2 DEF CachesOK, KeysTell, MadeTogether
  <2> QED
    BY <1>2, <2>3 DEF Damage, analysis, CachesOK, KeysTell, MadeTogether
<1>3. CASE Abort
  BY <1>3 DEF Abort, Over, project, Empty, CachesOK, KeysTell, MadeTogether
<1>4. CASE End
  BY <1>4 DEF End, Over, Empty, CachesOK, KeysTell, MadeTogether
<1>5. ASSUME NEW f \in Files, Hit(f) PROVE CachesOK'
  <2> DEFINE copied == {CacheKey(kind, f) : kind \in Ucfg \cup Cpd}
  <2>1. copied \subseteq DOMAIN previous /\ \A k \in copied : k.file = f
    BY <1>5, KeyFields DEF Hit, IsInCache, Contained
  <2>2. \A k \in DOMAIN next : k.file # f
    BY <1>5, NoEntryYet DEF Hit, Looks, Takes
  <2>3. /\ DOMAIN next' = DOMAIN next \cup copied
        /\ \A k \in copied : next'[k] = previous[k]
        /\ \A k \in DOMAIN next : next'[k] = next[k]
    BY <1>5, <2>1, <2>2 DEF Hit
  <2> HIDE DEF copied
  <2>4. KeysTell(next')
    BY <2>1, <2>3 DEF CachesOK, KeysTell
  <2>5. MadeTogether(next')
    BY <2>1, <2>2, <2>3 DEF CachesOK, MadeTogether
  <2>6. previous' = previous
    BY <1>5 DEF Hit, project
  <2>7. KeysTell(previous') /\ MadeTogether(previous')
    BY <2>6 DEF CachesOK
  <2>8. KeysTell(next)' /\ MadeTogether(next)' /\ KeysTell(previous)' /\ MadeTogether(previous)'
    BY <2>4, <2>5, <2>7 DEF KeysTell, MadeTogether
  <2> QED BY <2>8 DEF CachesOK
<1>6. ASSUME NEW f \in Files, NEW c \in BOOLEAN, Save(f, c) PROVE CachesOK'
  <2> DEFINE keys == {CacheKey(kind, f) : kind \in KindsWritten}
             entry == [made |-> MadeNow(f, c), damage |-> "none"]
  <2>1. CASE current.strategy = "NO_CACHE"
    BY <1>6, <2>1 DEF Save, project, CachesOK, KeysTell, MadeTogether
  <2>2. CASE current.strategy # "NO_CACHE"
    <3>1. \A k \in keys : /\ k.file = f
                          /\ entry.made.version = k.version
                          /\ k.kind \in Ucfg => entry.made.ucfg = k.ucfg
      BY KeyFields DEF MadeNow
    <3>2. \A k \in DOMAIN next : k.file # f
      <4>1. running /\ f = current.file
        BY <1>6, CacheAssumption DEF Save, Position, NoFile
      <4> QED
        BY <4>1, NoEntryYet
    <3>3. /\ DOMAIN next' = DOMAIN next \cup keys
          /\ \A k \in keys : next'[k] = entry
          /\ \A k \in DOMAIN next : next'[k] = next[k]
      BY <1>6, <2>2, <3>1, <3>2 DEF Save
    <3> HIDE DEF keys, entry
    <3>4. KeysTell(next')
      BY <3>1, <3>3 DEF CachesOK, KeysTell
    <3>5. MadeTogether(next')
      BY <3>1, <3>2, <3>3 DEF CachesOK, MadeTogether
    <3>6. previous' = previous
      BY <1>6 DEF Save, project
    <3>7. KeysTell(previous') /\ MadeTogether(previous')
      BY <3>6 DEF CachesOK
    <3>8. KeysTell(next)' /\ MadeTogether(next)' /\ KeysTell(previous)' /\ MadeTogether(previous)'
      BY <3>4, <3>5, <3>7 DEF KeysTell, MadeTogether
    <3> QED BY <3>8 DEF CachesOK
  <2> QED
    BY <2>1, <2>2
<1> QED
  BY <1>1, <1>2, <1>3, <1>4, <1>5, <1>6, RequestSaves
     DEF Next, File, vars, project, analysis, Change, Begin, Skip, ApiIncompatible, ModeIneligible,
         MetadataThrow, FileChanged, FileNotInCache, CacheCorrupted, ReadThrows, AnalyzeFails,
         At, NotCopied

LEMMA PositionStep == IInv /\ [Next]_vars => Position'
<1> SUFFICES ASSUME IInv, [Next]_vars PROVE Position'
  OBVIOUS
<1> USE CacheAssumption DEF IInv, Position, NoFile
<1>1. CASE Change \/ Damage \/ UNCHANGED vars
  BY <1>1 DEF Change, Damage, analysis, vars
<1>2. CASE Begin
  BY <1>2 DEF Begin, Untouched, NotDone
<1>3. CASE Skip \/ End
  BY <1>3 DEF Skip, End, Over
<1>4. ASSUME NEW f \in Files, File(f) PROVE Position'
  <2>1. CASE \/ MetadataThrow(f) \/ ReadThrows(f) \/ AnalyzeFails(f)
    BY <2>1 DEF MetadataThrow, ReadThrows, AnalyzeFails, Abort, Over
  <2>2. CASE ApiIncompatible(f) \/ ModeIneligible(f) \/ FileChanged(f) \/ FileNotInCache(f)
             \/ CacheCorrupted(f)
    BY <2>2 DEF ApiIncompatible, ModeIneligible, FileChanged, FileNotInCache, CacheCorrupted,
         At, Takes, Looks
  <2>3. CASE Hit(f)
    BY <2>3 DEF Hit, Looks, Takes, TypeOK
  <2>4. CASE Analyze(f) \/ AnsweredWithError(f)
    <3>1. PICK c \in BOOLEAN : Save(f, c)
      BY <2>4, RequestSaves
    <3> QED
      BY <3>1 DEF Save, TypeOK
  <2> QED
    BY <1>4, <2>1, <2>2, <2>3, <2>4 DEF File
<1> QED
  BY <1>1, <1>2, <1>3, <1>4 DEF Next

LEMMA WrittenOnceStep == IInv /\ [Next]_vars => EntriesWrittenOnce'
<1> SUFFICES ASSUME IInv, [Next]_vars PROVE EntriesWrittenOnce'
  OBVIOUS
<1> USE CacheAssumption DEF IInv, EntriesWrittenOnce, NoFile
<1>1. CASE Change \/ Damage \/ UNCHANGED vars
  BY <1>1 DEF Change, Damage, analysis, vars
<1>2. CASE Begin
  BY <1>2 DEF Begin, Untouched, Empty
<1>3. CASE Skip \/ End
  BY <1>3 DEF Skip, End, Over
<1>4. ASSUME NEW f \in Files, File(f) PROVE EntriesWrittenOnce'
  <2>1. CASE \/ MetadataThrow(f) \/ ReadThrows(f) \/ AnalyzeFails(f)
    BY <2>1 DEF MetadataThrow, ReadThrows, AnalyzeFails, Abort, Over
  <2>2. CASE ApiIncompatible(f) \/ ModeIneligible(f) \/ FileChanged(f) \/ FileNotInCache(f)
             \/ CacheCorrupted(f)
    BY <2>2 DEF ApiIncompatible, ModeIneligible, FileChanged, FileNotInCache, CacheCorrupted,
         At, Takes, Looks, NotCopied
  <2>3. CASE Hit(f)
    <3>1. \A k \in DOMAIN next' : k \in DOMAIN next \/ k.file = f
      BY <2>3, KeyFields DEF Hit
    <3> QED
      BY <2>3, <3>1 DEF Hit, Looks, Takes, TypeOK
  <2>4. CASE Analyze(f) \/ AnsweredWithError(f)
    <3>0. PICK c \in BOOLEAN : Save(f, c)
      BY <2>4, RequestSaves
    <3>1. \A k \in DOMAIN next' : k \in DOMAIN next \/ k.file = f
      BY <3>0, KeyFields DEF Save
    <3>2. \A k \in DOMAIN next' : k.file # None
      <4>1. CacheOK(next')
        BY TypeStep DEF TypeOK
      <4> QED
        BY <4>1 DEF CacheOK, Key
    <3> QED
      BY <3>0, <3>1, <3>2 DEF Save, Position
  <2> QED
    BY <1>4, <2>1, <2>2, <2>3, <2>4 DEF File
<1> QED
  BY <1>1, <1>2, <1>3, <1>4 DEF Next

(* Entries of one file do not disturb those of another. *)
LEMMA HoldsOthers ==
  ASSUME NEW f \in Files, NEW g, NEW m,
         DOMAIN next \subseteq DOMAIN next',
         \A k \in DOMAIN next : k.file # f => next'[k] = next[k],
         g # f, Holds(next, g, m)
  PROVE  Holds(next', g, m)
BY DEF Holds, KeyOf

(* The steps that neither begin nor end anything, nor do a file, leave the *)
(* new cache and the outcomes alone.                                       *)
LEMMA OtherSteps ==
  ASSUME [Next]_vars, ~ Begin, ~ Over, running',
         \A f \in Files : ~ Hit(f) /\ \A c \in BOOLEAN : ~ Save(f, c)
  PROVE  UNCHANGED <<world, next, running, mode, outcome>>
<1>1. CASE Change \/ Damage
  BY <1>1 DEF Change, Damage, Disturbed, analysis
<1>2. CASE Skip \/ End \/ UNCHANGED vars
  BY <1>2 DEF Skip, End, vars, project, analysis
<1>3. ASSUME NEW f \in Files, File(f) PROVE UNCHANGED <<world, next, running, mode, outcome>>
  <2>1. ~ (Analyze(f) \/ AnsweredWithError(f))
    BY RequestSaves
  <2>2. ~ (MetadataThrow(f) \/ ReadThrows(f) \/ AnalyzeFails(f))
    BY DEF MetadataThrow, ReadThrows, AnalyzeFails, Abort
  <2> QED
    BY <1>3, <2>1, <2>2 DEF File, ApiIncompatible, ModeIneligible, FileChanged, FileNotInCache,
       CacheCorrupted, At, NotCopied, project
<1> QED
  BY <1>1, <1>2, <1>3 DEF Next

LEMMA AnalyzedStep == IInv /\ [Next]_vars => AnalyzedStored'
<1> SUFFICES ASSUME IInv, [Next]_vars, running', mode'.compatible,
                    NEW g \in Files, outcome'[g] \in Answered
             PROVE  Holds(next', g, Answer(g)')
  BY DEF AnalyzedStored
<1> USE DEF IInv
<1>1. CASE UNCHANGED <<world, next, running, mode, outcome>>
  BY <1>1 DEF AnalyzedStored, Holds, Answer, MadeNow
<1>2. CASE Begin
  BY <1>2 DEF Begin, Untouched, NotDone, Answered
<1>3. ASSUME NEW f \in Files, Hit(f) PROVE Holds(next', g, Answer(g)')
  <2>1. g # f /\ outcome[g] \in Answered /\ outcome'[g] = outcome[g]
    BY <1>3 DEF Hit, TypeOK, Answered
  <2>2. \A k \in DOMAIN next : k.file # f => next'[k] = next[k]
    BY <1>3, KeyFields DEF Hit
  <2>3. DOMAIN next \subseteq DOMAIN next' /\ Holds(next, g, Answer(g))
    BY <1>3, <2>1 DEF Hit, AnalyzedStored
  <2>4. Answer(g)' = Answer(g)
    BY <1>3, <2>1 DEF Hit, project, MadeNow, Answer
  <2> QED
    BY <2>1, <2>2, <2>3, <2>4, HoldsOthers
<1>4. ASSUME NEW f \in Files, NEW c \in BOOLEAN, Save(f, c) PROVE Holds(next', g, Answer(g)')
  <2> DEFINE keys == {CacheKey(kind, f) : kind \in KindsWritten}
             entry == [made |-> MadeNow(f, c), damage |-> "none"]
  <2>1. current.strategy # "NO_CACHE" /\ mode.compatible /\ running
    BY <1>4, CacheAssumption DEF Save, Position
  <2>2. next' = [k \in DOMAIN next \cup keys |-> IF k \in keys THEN entry ELSE next[k]]
    BY <1>4, <2>1 DEF Save
  <2>3. CASE g = f
    <3>1. Answer(g)' = MadeNow(f, c)
      BY <1>4, <2>3 DEF Save, project, MadeNow, Answer, TypeOK
    <3>2. \A kind \in Kinds : KeyOf(kind, f, MadeNow(f, c)) = CacheKey(kind, f)
      BY DEF KeyOf, CacheKey, MadeNow
    <3>3. \A kind \in Kinds : CacheKey(kind, f) \in keys
      BY DEF KindsWritten
    <3> HIDE DEF keys, entry
    <3>4. \A kind \in Kinds : CacheKey(kind, f) \in DOMAIN next' /\ next'[CacheKey(kind, f)] = entry
      BY <2>2, <3>3
    <3> QED
      BY <2>3, <3>1, <3>2, <3>4 DEF Holds, entry
  <2>4. CASE g # f
    <3>1. \A k \in DOMAIN next : k.file # f => next'[k] = next[k]
      BY <2>2, KeyFields
    <3>2. DOMAIN next \subseteq DOMAIN next' /\ outcome[g] \in Answered /\ outcome'[g] = outcome[g]
      BY <1>4, <2>2, <2>4 DEF Save, TypeOK
    <3>3. Answer(g)' = Answer(g)
      BY <1>4, <3>2 DEF Save, project, MadeNow, Answer
    <3> QED
      BY <2>1, <2>4, <3>1, <3>2, <3>3, HoldsOthers DEF AnalyzedStored
  <2> QED
    BY <2>3, <2>4
<1> QED
  BY <1>1, <1>2, <1>3, <1>4, OtherSteps DEF Over

(* An entry of metadata is written by a request, never copied by a hit. *)
LEMMA NextFromAnswersStep == IInv /\ [Next]_vars => NextFromAnswers'
<1> SUFFICES ASSUME IInv, [Next]_vars, running', NEW k \in DOMAIN next', k.kind = "metadata"
             PROVE  outcome'[k.file] \in Answered /\ next'[k].made = Answer(k.file)'
  BY DEF NextFromAnswers
<1> USE DEF IInv
<1>1. CASE UNCHANGED <<world, next, running, outcome>>
  BY <1>1 DEF NextFromAnswers, Answer, MadeNow
<1>2. CASE Begin
  BY <1>2 DEF Begin, Untouched, Empty
<1>3. k \in DOMAIN next => k.file \in Files
  BY DEF TypeOK, CacheOK, Key
<1>4. ASSUME NEW f \in Files, Hit(f)
      PROVE  outcome'[k.file] \in Answered /\ next'[k].made = Answer(k.file)'
  <2>1. k \notin {CacheKey(kind, f) : kind \in Ucfg \cup Cpd}
    BY KeyFields DEF Ucfg, Cpd
  <2>2. k \in DOMAIN next /\ next'[k] = next[k]
    BY <1>4, <2>1 DEF Hit
  <2>3. k.file # f
    BY <1>4, <2>2, NoEntryYet DEF Hit, Looks, Takes
  <2>4. outcome'[k.file] = outcome[k.file]
    BY <1>3, <1>4, <2>2, <2>3 DEF Hit, TypeOK
  <2>5. Answer(k.file)' = Answer(k.file)
    BY <1>4, <2>4 DEF Hit, project, MadeNow, Answer
  <2> QED
    BY <1>4, <2>2, <2>4, <2>5 DEF Hit, Looks, Takes, NextFromAnswers
<1>5. ASSUME NEW f \in Files, NEW c \in BOOLEAN, Save(f, c)
      PROVE  outcome'[k.file] \in Answered /\ next'[k].made = Answer(k.file)'
  <2> DEFINE keys == {CacheKey(kind, f) : kind \in KindsWritten}
             entry == [made |-> MadeNow(f, c), damage |-> "none"]
  <2>1. running
    BY <1>5, CacheAssumption DEF Save, Position, NoFile
  <2>2. CASE k \in DOMAIN next
    <3>1. k.file # f
      BY <1>5, <2>1, <2>2, NoEntryYet DEF Save
    <3>2. k \notin keys
      BY <3>1, KeyFields
    <3>3. next'[k] = next[k]
      BY <1>5, <2>2, <3>2 DEF Save
    <3>4. outcome'[k.file] = outcome[k.file]
      BY <1>3, <1>5, <2>2, <3>1 DEF Save, TypeOK
    <3>5. Answer(k.file)' = Answer(k.file)
      BY <1>5, <3>4 DEF Save, project, MadeNow, Answer
    <3> QED
      BY <2>1, <2>2, <3>3, <3>4, <3>5 DEF NextFromAnswers
  <2>3. CASE k \notin DOMAIN next
    <3>1. k \in keys /\ next'[k] = entry
      BY <1>5, <2>3 DEF Save
    <3>2. k.file = f
      BY <3>1, KeyFields
    <3>3. outcome'[f] = IF c THEN "analyzed" ELSE "error"
      BY <1>5 DEF Save, TypeOK
    <3>4. Answer(f)' = MadeNow(f, c)
      BY <1>5, <3>3 DEF Save, project, MadeNow, Answer
    <3> QED
      BY <3>1, <3>2, <3>3, <3>4 DEF Answered
  <2> QED
    BY <2>2, <2>3
<1> QED
  BY <1>1, <1>2, <1>4, <1>5, OtherSteps DEF Over

(* A step leaves the old cache alone, damages it, or puts the new one in   *)
(* its place.                                                              *)
LEMMA CacheLeftBehind ==
  ASSUME IInv, [Next]_vars
  PROVE  \/ UNCHANGED <<previous, published>> /\ counts'.damages = counts.damages
         \/ Damage
         \/ End /\ mode.compatible /\ previous' = next /\ counts'.damages = counts.damages
<1> USE DEF IInv
<1>1. CASE Change \/ Begin \/ Skip \/ UNCHANGED vars
  BY <1>1 DEF Change, Begin, Skip, vars, project, TypeOK
<1>2. CASE End
  BY <1>2 DEF End
<1>3. ASSUME NEW f \in Files, File(f)
      PROVE  UNCHANGED <<previous, published>> /\ counts'.damages = counts.damages
  BY <1>3, RequestSaves DEF File, project, ApiIncompatible, ModeIneligible, MetadataThrow, FileChanged,
     FileNotInCache, CacheCorrupted, ReadThrows, Hit, Save, AnalyzeFails, At, Abort
<1> QED
  BY <1>1, <1>2, <1>3 DEF Next

LEMMA PublishedStep == IInv /\ [Next]_vars => PublishedStored'
<1> SUFFICES ASSUME IInv, [Next]_vars PROVE PublishedStored'
  OBVIOUS
<1> USE DEF IInv
<1>1. CASE UNCHANGED <<previous, published>> /\ counts'.damages = counts.damages
  BY <1>1 DEF PublishedStored, Holds
<1>2. CASE Damage
  <2>1. counts'.damages # 0
    BY <1>2, CacheAssumption DEF Damage, TypeOK
  <2> QED
    BY <2>1 DEF PublishedStored
<1>3. CASE End /\ mode.compatible /\ previous' = next /\ counts'.damages = counts.damages
  <2> SUFFICES ASSUME NEW f \in Files, published'[f].outcome \in Answered,
                      ~ UNCHANGED <<previous, published>>
               PROVE  Holds(previous', f, published'[f].made)
    BY <1>1, <1>3 DEF PublishedStored
  <2>1. outcome[f] \in Answered /\ published'[f].made = Answer(f)
    BY <1>3 DEF End, Answer
  <2> QED
    BY <1>3, <2>1 DEF End, AnalyzedStored
<1> QED
  BY <1>1, <1>2, <1>3, CacheLeftBehind

LEMMA PreviousFromAnswersStep == IInv /\ [Next]_vars => PreviousFromAnswers'
<1> SUFFICES ASSUME IInv, [Next]_vars PROVE PreviousFromAnswers'
  OBVIOUS
<1> USE DEF IInv
<1>1. CASE UNCHANGED <<previous, published>>
  BY <1>1 DEF PreviousFromAnswers
<1>2. CASE Damage
  <2>1. DOMAIN previous' \subseteq DOMAIN previous /\ published' = published
    BY <1>2 DEF Damage
  <2>2. \A k \in DOMAIN previous' : previous'[k].made = previous[k].made
    BY <1>2, DamageKeepsMade
  <2> QED
    BY <2>1, <2>2 DEF PreviousFromAnswers
<1>3. CASE End /\ mode.compatible /\ previous' = next
  <2> SUFFICES ASSUME ~ UNCHANGED <<previous, published>> PROVE PreviousFromAnswers'
    BY <1>1
  <2>1. \A f \in Files : /\ published'[f].outcome = outcome[f]
                         /\ outcome[f] \in Answered => published'[f].made = Answer(f)
    BY <1>3 DEF End, Answer
  <2>2. \A k \in DOMAIN next : k.file \in Files
    BY DEF TypeOK, CacheOK, Key
  <2>3. \A k \in DOMAIN previous' : k.kind = "metadata" =>
          /\ published'[k.file].outcome \in Answered
          /\ previous'[k].made = published'[k.file].made
    BY <1>3, <2>1, <2>2 DEF End, NextFromAnswers
  <2>4. \A f \in Files : Answer(f) \in Made /\ Answer(f).complete = (outcome[f] = "analyzed")
    BY MadeNowTyped DEF Answer, MadeNow
  <2> QED
    BY <2>1, <2>3, <2>4 DEF PreviousFromAnswers
<1> QED
  BY <1>1, <1>2, <1>3, CacheLeftBehind

(* Only the file that is taken or analyzed gets UCFG files. *)
LEMMA UntouchedStep == IInv /\ [Next]_vars => Untouched'
<1> SUFFICES ASSUME IInv, [Next]_vars PROVE Untouched'
  OBVIOUS
<1> USE DEF IInv
<1>1. CASE UNCHANGED <<running, next, outcome, workDir, cpd>> /\ todo' \subseteq todo
  BY <1>1 DEF Untouched, NotDone, NoUcfgs, NoTokens
<1>2. CASE Begin
  BY <1>2 DEF Begin, Untouched, NoUcfgs, Nothing
<1>3. CASE Over
  BY <1>3 DEF Over, Untouched, NotDone, NoUcfgs, NoTokens
<1>4. ASSUME NEW f \in Files, running', f \notin todo', todo' \subseteq todo,
             \A g \in Files : g # f => workDir'[g] = workDir[g]
      PROVE  Untouched'
  BY <1>4 DEF Untouched, TypeOK
<1>5. ASSUME NEW f \in Files, Hit(f) \/ CacheCorrupted(f) PROVE Untouched'
  <2>1. running' /\ f \notin todo' /\ todo' \subseteq todo
    BY <1>5 DEF Hit, CacheCorrupted, At, Looks, Takes, TypeOK
  <2>2. \A g \in Files : g # f => workDir'[g] = workDir[g]
    BY <1>5, Zenon DEF Hit, CacheCorrupted, WhatWasRead, Extracted, TypeOK
  <2> QED
    BY <1>4, <2>1, <2>2
<1>6. ASSUME NEW f \in Files, Analyze(f) \/ AnsweredWithError(f) PROVE Untouched'
  <2>1. running' /\ f \notin todo' /\ todo' \subseteq todo
    <3>1. PICK c \in BOOLEAN : Save(f, c)
      BY <1>6, RequestSaves
    <3> QED
      BY <3>1, CacheAssumption DEF Save, Position, NoFile
  <2>2. \A g \in Files : g # f => workDir'[g] = workDir[g]
    BY <1>6 DEF Analyze, AnsweredWithError, TypeOK
  <2> QED
    BY <1>4, <2>1, <2>2
<1> QED
  BY <1>1, <1>2, <1>3, <1>5, <1>6
     DEF Next, File, vars, project, analysis, Change, Damage, Skip, End, ApiIncompatible,
         ModeIneligible, MetadataThrow, FileChanged, FileNotInCache, ReadThrows, AnalyzeFails,
         At, Abort

-----------------------------------------------------------------------------
(* What a hit finds was made by the analysis that left the cache, from the *)
(* contents of the file by the present versions, all of it together.       *)
LEMMA HitFindsCurrent ==
  ASSUME IInv, NEW f \in Files, Unchanged(f), IsInCache(f)
  PROVE  /\ Stored("data", f).made = published[f].made
         /\ Stored("seq", f).made = published[f].made
         /\ published[f].made.settings \in Settings
         /\ published[f].made = [MadeNow(f, published[f].outcome = "analyzed")
                                  EXCEPT !.settings = published[f].made.settings]
<1>1. Contained("seq", f) /\ Contained("data", f) /\ Contained("metadata", f)
  BY KindFacts DEF IsInCache, Unchanged
<1>2. /\ published[f].outcome \in Answered
      /\ Stored("metadata", f).made = published[f].made
  BY <1>1, KeyFields DEF IInv, PreviousFromAnswers, Contained, Stored
<1>3. /\ published[f].made \in Made
      /\ published[f].made.complete = (published[f].outcome = "analyzed")
  BY <1>2 DEF IInv, PreviousFromAnswers
<1>4. /\ Stored("data", f).made = published[f].made
      /\ Stored("seq", f).made = published[f].made
  BY <1>1, <1>2, KeyFields DEF IInv, CachesOK, MadeTogether, Contained, Stored
<1>5. /\ published[f].made.version = world.version
      /\ published[f].made.ucfg = world.ucfg
  BY <1>1, <1>4, KeyFields, KindFacts DEF IInv, CachesOK, KeysTell, Contained, Stored
<1>6. published[f].made.content = world.content[f]
  BY <1>2 DEF Unchanged, SameFile
<1> QED
  BY <1>3, <1>4, <1>5, <1>6 DEF Made, MadeNow

(* ResultsCurrent for one file, which the steps of other files leave alone. *)
FileCurrent(g) ==
  running =>
    /\ outcome[g] = "analyzed" => Left(g, MadeNow(g, TRUE))
    /\ outcome[g] = "hit" =>
         /\ Left(g, published[g].made)
         /\ \E s \in Settings :
              published[g].made =
                [MadeNow(g, published[g].outcome = "analyzed") EXCEPT !.settings = s]

LEMMA OtherStaysCurrent ==
  ASSUME NEW g \in Files, FileCurrent(g), UNCHANGED <<world, published, running>>,
         workDir'[g] = workDir[g], cpd'[g] = cpd[g], outcome'[g] = outcome[g]
  PROVE  FileCurrent(g)'
<1>1. \A c \in BOOLEAN : MadeNow(g, c)' = MadeNow(g, c)
  BY DEF MadeNow
<1> QED
  BY <1>1 DEF FileCurrent, Left

LEMMA ResultsStep == IInv /\ [Next]_vars => ResultsCurrent'
<1> SUFFICES ASSUME IInv, [Next]_vars PROVE \A g \in Files : FileCurrent(g)'
  BY DEF ResultsCurrent, FileCurrent
<1> USE DEF IInv
<1>0. \A g \in Files : FileCurrent(g)
  BY DEF ResultsCurrent, FileCurrent
<1>1. CASE ~ running' \/ Begin
  BY <1>1 DEF Begin, FileCurrent, Untouched, NotDone
<1>2. CASE UNCHANGED <<world, published, running, outcome, workDir, cpd>>
  BY <1>0, <1>2, OtherStaysCurrent
<1>3. ASSUME NEW f \in Files, CacheCorrupted(f) PROVE \A g \in Files : FileCurrent(g)'
  <2>1. \A g \in Files : g # f => workDir'[g] = workDir[g]
    BY <1>3, Zenon DEF CacheCorrupted, WhatWasRead, Extracted, TypeOK
  <2>2. outcome'[f] = "none"
    BY <1>3 DEF CacheCorrupted, Looks, Takes, At, Position
  <2>3. UNCHANGED <<world, published, running, outcome, cpd>>
    BY <1>3 DEF CacheCorrupted, At, project
  <2>4. FileCurrent(f)'
    BY <2>2 DEF FileCurrent
  <2>5. \A g \in Files : g # f => FileCurrent(g)'
    BY <1>0, <2>1, <2>3, OtherStaysCurrent
  <2> QED
    BY <2>4, <2>5
<1>4. ASSUME NEW f \in Files, Hit(f) PROVE \A g \in Files : FileCurrent(g)'
  <2> DEFINE m == published[f].made
  <2>1. /\ Stored("data", f).made = m /\ Stored("seq", f).made = m
        /\ m.settings \in Settings
        /\ m = [MadeNow(f, published[f].outcome = "analyzed") EXCEPT !.settings = m.settings]
    BY <1>4, HitFindsCurrent DEF Hit
  <2>2. workDir[f] = Nothing
    BY <1>4 DEF Hit, Looks, Takes, Untouched
  <2>3. workDir'[f] = IF m.complete THEN [made |-> m, whole |-> TRUE] ELSE Nothing
    <3>1. Extracted(f, TRUE)
      BY <1>4 DEF Hit
    <3>2. f \in DOMAIN workDir
      BY <1>4 DEF TypeOK
    <3>3. CASE m.complete
      <4>1. workDir' = [workDir EXCEPT ![f] = [made |-> Stored("seq", f).made, whole |-> TRUE]]
        BY <2>1, <3>1, <3>3 DEF Extracted
      <4> HIDE DEF m
      <4> QED BY <2>1, <3>2, <3>3, <4>1
    <3>4. CASE ~ m.complete
      <4>1. workDir' = workDir
        BY <2>1, <3>1, <3>4 DEF Extracted
      <4> QED BY <2>2, <3>4, <4>1
    <3> QED BY <3>3, <3>4
  <2>4. cpd'[f] = TokensOf(f, m) /\ outcome'[f] = "hit"
    <3>1. /\ cpd' = [cpd EXCEPT ![f] = TokensOf(f, Stored("data", f).made)]
          /\ outcome' = [outcome EXCEPT ![f] = "hit"]
      BY <1>4 DEF Hit
    <3>2. f \in DOMAIN cpd /\ f \in DOMAIN outcome
      BY <1>4 DEF TypeOK
    <3> HIDE DEF m
    <3> QED BY <2>1, <3>1, <3>2
  <2>5. \A g \in Files : g # f => /\ workDir'[g] = workDir[g]
                                  /\ cpd'[g] = cpd[g]
                                  /\ outcome'[g] = outcome[g]
    BY <1>4 DEF Hit, Extracted, TypeOK
  <2>6. UNCHANGED <<world, published, running>>
    BY <1>4 DEF Hit, project
  <2>7. MadeNow(f, published[f].outcome = "analyzed")' = MadeNow(f, published[f].outcome = "analyzed")
    BY <2>6 DEF MadeNow
  <2>8. published'[f].made = m
    BY <2>6
  <2> HIDE DEF m
  <2>9. Left(f, published[f].made)'
    BY <2>3, <2>4, <2>8 DEF Left
  <2>10. FileCurrent(f)'
    BY <2>1, <2>4, <2>7, <2>8, <2>9 DEF FileCurrent
  <2>11. \A g \in Files : g # f => FileCurrent(g)'
    BY <1>0, <2>5, <2>6, OtherStaysCurrent
  <2> QED
    BY <2>10, <2>11
<1>5. ASSUME NEW f \in Files, Analyze(f) \/ AnsweredWithError(f) PROVE \A g \in Files : FileCurrent(g)'
  <2>1. \A g \in Files : g # f => /\ workDir'[g] = workDir[g]
                                  /\ cpd'[g] = cpd[g]
                                  /\ outcome'[g] = outcome[g]
    BY <1>5 DEF Analyze, AnsweredWithError, Save, TypeOK
  <2>2. UNCHANGED <<world, published, running>>
    BY <1>5, RequestSaves DEF Save, project
  <2>3. FileCurrent(f)'
    <3>1. CASE AnsweredWithError(f)
      BY <3>1 DEF AnsweredWithError, Save, FileCurrent, TypeOK
    <3>2. CASE Analyze(f)
      <4>1. /\ workDir'[f] = [made |-> MadeNow(f, TRUE), whole |-> TRUE]
            /\ cpd'[f] = TokensOf(f, MadeNow(f, TRUE))
            /\ outcome'[f] = "analyzed"
        BY <3>2 DEF Analyze, Save, TypeOK
      <4>2. MadeNow(f, TRUE)' = MadeNow(f, TRUE) /\ MadeNow(f, TRUE).complete
        BY <2>2 DEF MadeNow
      <4>3. Left(f, MadeNow(f, TRUE))'
        BY <4>1, <4>2 DEF Left
      <4> QED
        BY <4>1, <4>3 DEF FileCurrent
    <3> QED
      BY <1>5, <3>1, <3>2
  <2>4. \A g \in Files : g # f => FileCurrent(g)'
    BY <1>0, <2>1, <2>2, OtherStaysCurrent
  <2> QED
    BY <2>3, <2>4
<1> QED
  BY <1>1, <1>2, <1>3, <1>4, <1>5
     DEF Next, File, vars, project, analysis, Change, Damage, Skip, End, ApiIncompatible,
         ModeIneligible, MetadataThrow, FileChanged, FileNotInCache, ReadThrows,
         AnalyzeFails, At, Abort, Over, Disturbed

(* While nothing is damaged, a file that a request of the analysis that    *)
(* left the cache was answered for, with the contents and versions it has  *)
(* now, is a hit.                                                          *)
LEMMA AnsweredHits ==
  ASSUME IInv, NEW f \in Files, NEW s \in Settings, NEW c \in BOOLEAN, counts.damages = 0,
         published[f].outcome \in Answered,
         published[f].made = [MadeNow(f, c) EXCEPT !.settings = s]
  PROVE  Unchanged(f) /\ IsInCache(f) /\ Bad(f) = {}
<1> DEFINE m == published[f].made
<1>1. Holds(previous, f, m)
  BY DEF IInv, PublishedStored
<1>2. m.version = world.version /\ m.ucfg = world.ucfg /\ m.content = world.content[f]
  BY DEF MadeNow
<1>3. \A kind \in Kinds : KeyOf(kind, f, m) = CacheKey(kind, f)
  BY <1>2 DEF KeyOf, CacheKey
<1> HIDE DEF m
<1>4. \A kind \in Kinds : /\ Contained(kind, f)
                          /\ Stored(kind, f) = [made |-> m, damage |-> "none"]
  BY <1>1, <1>3 DEF Holds, Contained, Stored
<1>5. Unchanged(f)
  BY <1>2, <1>4, KindFacts DEF Unchanged, SameFile
<1>6. IsInCache(f)
  BY <1>4, KindFacts DEF IsInCache
<1>7. \A i \in 1 .. 4 : ReadOrder[i] \in Kinds
  BY DEF ReadOrder, Kinds, Ucfg, Cpd
<1>8. Bad(f) = {}
  BY <1>4, <1>7 DEF Bad
<1> QED
  BY <1>5, <1>6, <1>8

LEMMA MissStep == IInv /\ [Next]_vars => MissJustified'
<1> SUFFICES ASSUME IInv, [Next]_vars PROVE MissJustified'
  OBVIOUS
<1> USE DEF IInv
<1>1. CASE ~ running' \/ current'.file = None \/ ~ mode'.canSkip \/ ~ mode'.compatible
  BY <1>1 DEF MissJustified
<1>2. CASE UNCHANGED <<world, running, current, mode, published, counts>>
  BY <1>2 DEF MissJustified, MadeNow
<1>3. ASSUME NEW f \in Files, At(f, "WRITE_ONLY"), ~ (Unchanged(f) /\ IsInCache(f) /\ Bad(f) = {})
      PROVE  MissJustified'
  <2>1. current'.file = f /\ UNCHANGED <<world, published, counts>>
    BY <1>3 DEF At, project
  <2>2. \A c \in BOOLEAN : MadeNow(f, c)' = MadeNow(f, c)
    BY <2>1 DEF MadeNow
  <2>3. \A s \in Settings, c \in BOOLEAN :
          published[f].outcome \in Answered /\ counts.damages = 0
            => published[f].made # [MadeNow(f, c) EXCEPT !.settings = s]
    BY <1>3, AnsweredHits
  <2> QED
    BY <2>1, <2>2, <2>3 DEF MissJustified
<1>4. ASSUME NEW f \in Files, FileChanged(f) \/ FileNotInCache(f) \/ CacheCorrupted(f)
      PROVE  MissJustified'
  BY <1>3, <1>4 DEF FileChanged, FileNotInCache, CacheCorrupted
<1>5. CASE Begin \/ End \/ Change \/ Damage \/ Skip \/ UNCHANGED vars
  <2>1. current' = NoFile \/ UNCHANGED <<world, running, current, mode, published, counts>>
    BY <1>5 DEF Begin, End, Over, Change, Damage, Disturbed, Skip, vars, project, analysis, Position
  <2> QED
    BY <1>1, <1>2, <2>1 DEF NoFile
<1>6. ASSUME NEW f \in Files,
             \/ ApiIncompatible(f) \/ ModeIneligible(f) \/ MetadataThrow(f) \/ ReadThrows(f)
             \/ Hit(f) \/ Analyze(f) \/ AnsweredWithError(f) \/ AnalyzeFails(f)
      PROVE  MissJustified'
  <2>1. CASE ApiIncompatible(f) \/ ModeIneligible(f)
    <3>1. ~ mode'.compatible \/ ~ mode'.canSkip
      BY <2>1 DEF ApiIncompatible, ModeIneligible, At
    <3> QED
      BY <1>1, <3>1
  <2>2. CASE \/ MetadataThrow(f) \/ ReadThrows(f) \/ Hit(f)
             \/ Analyze(f) \/ AnsweredWithError(f) \/ AnalyzeFails(f)
    <3>1. current' = NoFile
      BY <2>2, RequestSaves DEF MetadataThrow, ReadThrows, Hit, Save, AnalyzeFails, Abort, Over,
         Looks, Takes
    <3> QED
      BY <1>1, <3>1 DEF NoFile
  <2> QED
    BY <1>6, <2>1, <2>2
<1> QED
  BY <1>4, <1>5, <1>6 DEF Next, File

-----------------------------------------------------------------------------
LEMMA InitOK == Init => IInv
<1> SUFFICES ASSUME Init PROVE IInv
  OBVIOUS
<1> USE CacheAssumption DEF Init, Empty, NoFile, NoMode, NotDone, NoUcfgs, NoTokens
<1>1. TypeOK
  <2>1. CacheOK(previous) /\ CacheOK(next)
    BY DEF CacheOK
  <2>2. counts \in [analyses: 0 .. MaxAnalyses, changes: 0 .. MaxChanges, damages: 0 .. MaxDamage]
    OBVIOUS
  <2>3. published \in [Files -> [outcome: Outcomes, made: Made \cup {None}]]
    BY DEF Outcomes
  <2>4. current \in [file: Files \cup {None}, strategy: Strategies]
    BY DEF Strategies
  <2>5. workDir \in [Files -> [made: Made \cup {None}, whole: BOOLEAN]]
    BY DEF Nothing
  <2>6. /\ cpd \in [Files -> Made \cup {None}]
        /\ mode \in [compatible: BOOLEAN, canSkip: BOOLEAN]
        /\ outcome \in [Files -> Outcomes]
    BY DEF Outcomes
  <2> QED
    BY <2>1, <2>2, <2>3, <2>4, <2>5, <2>6 DEF TypeOK
<1>2. CachesOK
  BY DEF CachesOK, KeysTell, MadeTogether
<1>3. Position /\ EntriesWrittenOnce /\ AnalyzedStored
  BY DEF Position, EntriesWrittenOnce, AnalyzedStored
<1>4. PublishedStored /\ ResultsCurrent /\ MissJustified
  BY DEF PublishedStored, ResultsCurrent, MissJustified, Answered
<1>5. NextFromAnswers /\ PreviousFromAnswers /\ Untouched
  BY DEF NextFromAnswers, PreviousFromAnswers, Untouched, Answered
<1> QED
  BY <1>1, <1>2, <1>3, <1>4, <1>5 DEF IInv

LEMMA Invariance == Spec => []IInv
<1>1. IInv /\ [Next]_vars => IInv'
  BY TypeStep, CachesStep, PositionStep, WrittenOnceStep, AnalyzedStep, PublishedStep,
     NextFromAnswersStep, PreviousFromAnswersStep, UntouchedStep, ResultsStep, MissStep DEF IInv
<1> QED
  BY <1>1, InitOK, PTL DEF Spec

(***************************************************************************)
(* The state of the analyses keeps its type; in particular only entries    *)
(* under well-formed keys are in a cache (CacheKey.java:30).               *)
(***************************************************************************)
THEOREM CacheTypeCorrect == Spec => []TypeOK
<1>1. IInv => TypeOK
  BY DEF IInv
<1> QED
  BY <1>1, Invariance, PTL

(***************************************************************************)
(* A file taken from the cache has what the analysis that left the cache   *)
(* had left of it, which had its present contents and versions, whatever   *)
(* was lost, damaged or left half read before; nothing, if that request    *)
(* was answered with an error (CacheStrategies.java:66-127,                *)
(* AbstractAnalysis.java:124-134).                                         *)
(***************************************************************************)
THEOREM ResultsAreCurrent == Spec => []ResultsCurrent
<1>1. IInv => ResultsCurrent
  BY DEF IInv
<1> QED
  BY <1>1, Invariance, PTL

(***************************************************************************)
(* No key of the new cache is written or copied twice, which the cache     *)
(* would refuse with an exception (CacheStrategies.java:118-127).          *)
(***************************************************************************)
THEOREM NothingWrittenTwice == Spec => []EntriesWrittenOnce
<1>1. IInv => EntriesWrittenOnce
  BY DEF IInv
<1> QED
  BY <1>1, Invariance, PTL

(***************************************************************************)
(* A file that may be skipped and was requested last time, whatever the    *)
(* answer, is requested again only if it or a version has changed or an    *)
(* entry was damaged (CacheStrategies.java:66-111).                        *)
(***************************************************************************)
THEOREM MissesAreJustified == Spec => []MissJustified
<1>1. IInv => MissJustified
  BY DEF IInv
<1> QED
  BY <1>1, Invariance, PTL

-----------------------------------------------------------------------------
(***************************************************************************)
(* The stream of UCFG files, for files of any size, any buffer and any     *)
(* number of paths.  The argument: the manifest is a layout of the stream, *)
(* and the bytes that were read end where the layout says.                 *)
(***************************************************************************)
Listing == [name: Names, size: Nat]
Stages == {"write", "stored", "next", "copy", "failed", "extracted"}

SeqTypeOK ==
  /\ files \in [Names -> Seq(Bytes)]
  /\ paths \in Seq(Names)
  /\ stage \in Stages
  /\ opened \in 0 .. Len(paths)
  /\ stream \in Seq(Bytes)
  /\ manifest \in Seq(Listing)
  /\ starts \in Seq(Nat)
  /\ cut \in BOOLEAN
  /\ ucfgDir \in [Names -> Seq(Bytes) \cup {Absent}]
  /\ left \in Seq(Listing)
  /\ input \in Seq(Bytes)
  /\ written \in Seq(Bytes)

(* The manifest lists each path that was opened, once, with its size; the  *)
(* files follow each other without a gap.                                  *)
ManifestOK ==
  /\ Len(starts) = Len(manifest) + 1
  /\ starts[1] = 0
  /\ \A i \in 1 .. Len(manifest) :
       /\ manifest[i].size = Len(files[manifest[i].name])
       /\ starts[i + 1] = starts[i] + manifest[i].size
       /\ \E j \in 1 .. opened : paths[j] = manifest[i].name
  /\ \A i, j \in 1 .. Len(starts) : i <= j => starts[i] <= starts[j]
  /\ \A i, j \in 1 .. Len(manifest) : manifest[i].name = manifest[j].name => i = j
  /\ \A j \in 1 .. opened : \E i \in 1 .. Len(manifest) : manifest[i].name = paths[j]

Total == starts[Len(manifest) + 1]

(* Twice, as far as the paths were opened. *)
TwiceOpened ==
  \E i, j \in 1 .. opened : i # j /\ paths[i] = paths[j] /\ files[paths[i]] # <<>>

(* The stream is what the manifest says, but for bytes that came twice and *)
(* what was cut off or added.                                              *)
StreamOK ==
  /\ stage # "write" => opened = Len(paths)
  /\ stage = "write" => ~ cut
  /\ TwiceOpened /\ ~ cut => Total < Len(stream)
  /\ ~ TwiceOpened =>
       /\ Len(stream) = Total <=> ~ cut
       /\ \A i \in 1 .. Len(manifest) : \A j \in 1 .. manifest[i].size :
            starts[i] + j <= Len(stream) => stream[starts[i] + j] = files[manifest[i].name][j]

(* How many files are complete, and how many bytes were read. *)
Done == Len(manifest) - Len(left)
Read == Len(stream) - Len(input)

Reading == stage \in {"next", "copy", "failed", "extracted"}

(* The bytes of the i-th file, or the first n of them, are those at its    *)
(* place in the stream.                                                    *)
Copy(i, n) ==
  /\ ucfgDir[manifest[i].name] \in Seq(Bytes)
  /\ Len(ucfgDir[manifest[i].name]) = n
  /\ \A j \in 1 .. n : ucfgDir[manifest[i].name][j] = stream[starts[i] + j]

(* The files up to Done are complete; the next one is there in part.       *)
InputOK ==
  Reading =>
    /\ Len(left) <= Len(manifest)
    /\ \A i \in 1 .. Len(left) : left[i] = manifest[Done + i]
    /\ Len(input) <= Len(stream)
    /\ \A i \in 1 .. Len(input) : input[i] = stream[Read + i]

FilesOK ==
  /\ Reading => \A i \in 1 .. Done : Copy(i, manifest[i].size)
  /\ stage \in {"copy", "failed"} =>
       /\ left # <<>>
       /\ Len(written) <= Limit
       /\ Read = starts[Done + 1] + Len(written)
       /\ Copy(Done + 1, Len(written))
       /\ ucfgDir[Head(left).name] = written
  /\ stage = "next" => left # <<>> /\ Read = starts[Done + 1]
  /\ stage = "extracted" =>
       /\ left = <<>>
       /\ manifest # <<>> => Read = Total /\ input = <<>>
  /\ \A n \in Names :
       (\A i \in 1 .. Len(manifest) :
          manifest[i].name = n /\ Reading =>
            i > Done /\ (stage \in {"copy", "failed"} => i # Done + 1))
       => ucfgDir[n] = Absent

RefusedOK == stage = "failed" /\ ~ TwiceOpened => cut

SeqInv ==
  /\ SeqTypeOK
  /\ ManifestOK
  /\ StreamOK
  /\ InputOK
  /\ FilesOK
  /\ RefusedOK

-----------------------------------------------------------------------------
LEMMA SmallestIs ==
  ASSUME NEW a \in Nat, NEW b \in Nat
  PROVE  /\ Smallest({a, b}) \in Nat
         /\ Smallest({a, b}) <= a /\ Smallest({a, b}) <= b
         /\ Smallest({a, b}) = a \/ Smallest({a, b}) = b
<1>1. \E n \in {a, b} : \A m \in {a, b} : n <= m
  <2>1. CASE a <= b BY <2>1
  <2>2. CASE b <= a BY <2>2
  <2> QED BY <2>1, <2>2
<1> QED BY <1>1 DEF Smallest

LEMMA BoundedIsSeq ==
  ASSUME NEW S, NEW n \in Nat, NEW s \in BoundedSeq(S, n)
  PROVE  s \in Seq(S)
<1>1. PICK m \in 0 .. n : s \in [1 .. m -> S]
  BY DEF BoundedSeq, SeqOf
<1> QED BY <1>1, SeqDef

LEMMA SeqInitOK == SeqInit => SeqInv
<1> SUFFICES ASSUME SeqInit PROVE SeqInv
  OBVIOUS
<1> USE DEF SeqInit
<1>1. /\ \A n \in Names : files[n] \in Seq(Bytes)
      /\ paths \in Seq(Names)
  BY SequenceAssumption, BoundedIsSeq DEF UcfgContents
<1>2. files \in [Names -> Seq(Bytes)]
  BY <1>1
<1>3. SeqTypeOK
  <2>1. <<0>> \in Seq(Nat) /\ \A S : <<>> \in Seq(S)
    OBVIOUS
  <2>2. opened \in 0 .. Len(paths)
    BY <1>1, LenProperties
  <2>3. ucfgDir \in [Names -> Seq(Bytes) \cup {Absent}]
    OBVIOUS
  <2> QED BY <1>1, <1>2, <2>1, <2>2, <2>3 DEF SeqTypeOK, Stages
<1>4. ManifestOK /\ Total = 0
  BY DEF ManifestOK, Total
<1>5. StreamOK
  BY <1>4 DEF StreamOK, TwiceOpened
<1>6. InputOK /\ FilesOK /\ RefusedOK
  BY DEF InputOK, FilesOK, RefusedOK, Reading
<1> QED BY <1>3, <1>4, <1>5, <1>6 DEF SeqInv

-----------------------------------------------------------------------------
(* NextFile: what the next path is, and how the stream and the manifest    *)
(* grow.                                                                   *)
LEMMA NextFileFacts ==
  ASSUME SeqTypeOK, ManifestOK, NextFile, NEW n, n = paths[opened + 1]
  PROVE  /\ n \in Names /\ files[n] \in Seq(Bytes) /\ Len(files[n]) \in Nat
         /\ opened \in Nat /\ opened' = opened + 1 /\ opened + 1 <= Len(paths)
         /\ stream' \in Seq(Bytes) /\ Len(stream') = Len(stream) + Len(files[n])
         /\ \A i \in 1 .. Len(stream) : stream'[i] = stream[i]
         /\ \A i \in 1 .. Len(files[n]) : stream'[Len(stream) + i] = files[n][i]
         /\ UNCHANGED <<files, paths, stage, cut, reading>>
<1>1. opened \in Nat /\ Len(paths) \in Nat /\ opened < Len(paths) /\ paths \in [1 .. Len(paths) -> Names]
  BY LenProperties DEF SeqTypeOK, NextFile
<1>2. n \in Names /\ files[n] \in Seq(Bytes)
  BY <1>1 DEF SeqTypeOK
<1>3. Len(files[n]) \in Nat /\ Len(stream) \in Nat /\ stream \in Seq(Bytes)
  BY <1>2, LenProperties DEF SeqTypeOK
<1>4. stream' = stream \o files[n]
  BY DEF NextFile
<1>5. /\ stream' \in Seq(Bytes) /\ Len(stream') = Len(stream) + Len(files[n])
      /\ \A i \in 1 .. Len(stream) + Len(files[n]) :
           stream'[i] = IF i <= Len(stream) THEN stream[i] ELSE files[n][i - Len(stream)]
  BY <1>2, <1>3, <1>4, ConcatProperties
<1>6. \A i \in 1 .. Len(stream) : stream'[i] = stream[i]
  BY <1>3, <1>5
<1>7. \A i \in 1 .. Len(files[n]) : stream'[Len(stream) + i] = files[n][i]
  <2> TAKE i \in 1 .. Len(files[n])
  <2>1. /\ Len(stream) + i \in 1 .. Len(stream) + Len(files[n])
        /\ ~ (Len(stream) + i <= Len(stream)) /\ (Len(stream) + i) - Len(stream) = i
    BY <1>3
  <2> QED BY <2>1, <1>5
<1>8. opened' = opened + 1 /\ UNCHANGED <<files, paths, stage, cut, reading>>
  BY DEF NextFile
<1>9. opened + 1 <= Len(paths)
  BY <1>1
<1> QED BY <1>1, <1>2, <1>3, <1>5, <1>6, <1>7, <1>8, <1>9

(* The first time a path comes it is listed at the end. *)
LEMMA NewPathFacts ==
  ASSUME SeqTypeOK, ManifestOK, NextFile, NEW n, n = paths[opened + 1],
         ~ \E i \in DOMAIN manifest : manifest[i].name = n
  PROVE  /\ Len(manifest) \in Nat /\ manifest' \in Seq(Listing) /\ starts' \in Seq(Nat)
         /\ Len(manifest') = Len(manifest) + 1 /\ Len(starts') = Len(manifest) + 2
         /\ \A i \in 1 .. Len(manifest) : manifest'[i] = manifest[i]
         /\ manifest'[Len(manifest) + 1] = [name |-> n, size |-> Len(files[n])]
         /\ \A i \in 1 .. Len(manifest) + 1 : starts'[i] = starts[i]
         /\ Total \in Nat /\ Total' = Total + Len(files[n])
<1>1. n \in Names /\ Len(files[n]) \in Nat
  BY NextFileFacts
<1>2. [name |-> n, size |-> Len(files[n])] \in Listing
  BY <1>1 DEF Listing
<1>3. /\ Len(manifest) \in Nat /\ manifest \in Seq(Listing)
      /\ starts \in Seq(Nat) /\ starts \in [1 .. Len(starts) -> Nat] /\ Len(starts) = Len(manifest) + 1
  BY LenProperties DEF SeqTypeOK, ManifestOK
<1>4. Total \in Nat
  BY <1>3 DEF Total
<1>5. /\ manifest' = Append(manifest, [name |-> n, size |-> Len(files[n])])
      /\ starts' = Append(starts, Total + Len(files[n]))
  BY <1>3 DEF NextFile, Total
<1>6. Total + Len(files[n]) \in Nat
  BY <1>1, <1>4
<1>7. /\ manifest' \in Seq(Listing) /\ Len(manifest') = Len(manifest) + 1
      /\ \A i \in 1 .. Len(manifest) : manifest'[i] = manifest[i]
      /\ manifest'[Len(manifest) + 1] = [name |-> n, size |-> Len(files[n])]
  BY <1>2, <1>3, <1>5, AppendProperties
<1>8. /\ starts' \in Seq(Nat) /\ Len(starts') = Len(starts) + 1
      /\ \A i \in 1 .. Len(starts) : starts'[i] = starts[i]
      /\ starts'[Len(starts) + 1] = Total + Len(files[n])
  BY <1>3, <1>5, <1>6, AppendProperties
<1>9. Total' = Total + Len(files[n])
  BY <1>3, <1>7, <1>8 DEF Total
<1> QED BY <1>3, <1>4, <1>7, <1>8, <1>9

LEMMA SeenPathFacts ==
  ASSUME SeqTypeOK, ManifestOK, NextFile, NEW n, n = paths[opened + 1],
         \E i \in DOMAIN manifest : manifest[i].name = n
  PROVE  /\ UNCHANGED <<manifest, starts>> /\ Total' = Total
         /\ \E i \in 1 .. Len(manifest) : manifest[i].name = n
<1>1. UNCHANGED <<manifest, starts>>
  BY DEF NextFile
<1>2. DOMAIN manifest = 1 .. Len(manifest)
  BY LenProperties DEF SeqTypeOK
<1> QED BY <1>1, <1>2 DEF Total

LEMMA ManifestNextFile ==
  ASSUME SeqTypeOK, ManifestOK, NextFile
  PROVE  ManifestOK'
<1> DEFINE n == paths[opened + 1]
<1>1. /\ n \in Names /\ Len(files[n]) \in Nat
      /\ opened \in Nat /\ opened' = opened + 1
      /\ files' = files /\ paths' = paths
  BY NextFileFacts
<1>2. Len(manifest) \in Nat /\ starts \in [1 .. Len(manifest) + 1 -> Nat]
  BY LenProperties DEF SeqTypeOK, ManifestOK
<1>3. CASE \E i \in DOMAIN manifest : manifest[i].name = n
  <2>1. UNCHANGED <<manifest, starts>> /\ \E i \in 1 .. Len(manifest) : manifest[i].name = n
    BY <1>3, SeenPathFacts
  <2> HIDE DEF n
  <2>2. \A i \in 1 .. Len(manifest) : \E j \in 1 .. opened + 1 : paths[j] = manifest[i].name
    <3> TAKE i \in 1 .. Len(manifest)
    <3>1. PICK j \in 1 .. opened : paths[j] = manifest[i].name
      BY DEF ManifestOK
    <3> QED BY <3>1, <1>1
  <2>3. \A j \in 1 .. opened + 1 : \E i \in 1 .. Len(manifest) : manifest[i].name = paths[j]
    <3> TAKE j \in 1 .. opened + 1
    <3>1. CASE j \in 1 .. opened
      BY <3>1 DEF ManifestOK
    <3>2. CASE j = opened + 1
      BY <3>2, <2>1 DEF n
    <3> QED BY <3>1, <3>2, <1>1
  <2> QED BY <1>1, <2>1, <2>2, <2>3 DEF ManifestOK
<1>4. CASE ~ \E i \in DOMAIN manifest : manifest[i].name = n
  <2> DEFINE M == Len(manifest)
  <2>1. /\ Len(manifest') = M + 1 /\ Len(starts') = M + 2
        /\ \A i \in 1 .. M : manifest'[i] = manifest[i]
        /\ manifest'[M + 1] = [name |-> n, size |-> Len(files[n])]
        /\ \A i \in 1 .. M + 1 : starts'[i] = starts[i]
        /\ starts'[M + 2] = starts[M + 1] + Len(files[n])
    <3>1. /\ Len(manifest') = M + 1 /\ Len(starts') = M + 2
          /\ \A i \in 1 .. M : manifest'[i] = manifest[i]
          /\ manifest'[M + 1] = [name |-> n, size |-> Len(files[n])]
          /\ \A i \in 1 .. M + 1 : starts'[i] = starts[i]
          /\ Total' = Total + Len(files[n])
      BY <1>4, NewPathFacts
    <3>2. Total' = starts'[M + 2]
      BY <3>1, <1>2 DEF Total
    <3> QED BY <3>1, <3>2 DEF Total
  <2>2. \A i \in 1 .. M : manifest[i].name # n
    BY <1>4, LenProperties DEF SeqTypeOK
  <2>3. M \in Nat
    BY <1>2
  <2>4. \A i \in 1 .. M + 1 : i \in 1 .. M \/ i = M + 1
    BY <2>3
  <2>5. manifest'[M + 1].name = n /\ manifest'[M + 1].size = Len(files[n])
    BY <2>1
  <2>6. n = paths[opened + 1]
    OBVIOUS
  <2> HIDE DEF n
  <2>7. starts'[1] = 0
    BY <2>1, <2>3 DEF ManifestOK
  <2>8. ASSUME NEW i \in 1 .. M + 1
        PROVE  /\ manifest'[i].size = Len(files[manifest'[i].name])
               /\ starts'[i + 1] = starts'[i] + manifest'[i].size
               /\ \E j \in 1 .. opened + 1 : paths[j] = manifest'[i].name
    <3>1. CASE i \in 1 .. M
      <4>1. /\ manifest'[i] = manifest[i] /\ i + 1 \in 1 .. M + 1 /\ i \in 1 .. M + 1
        BY <3>1, <2>1, <2>3
      <4>2. /\ manifest[i].size = Len(files[manifest[i].name])
            /\ starts[i + 1] = starts[i] + manifest[i].size
            /\ \E j \in 1 .. opened : paths[j] = manifest[i].name
        BY <3>1 DEF ManifestOK
      <4>3. 1 .. opened \subseteq 1 .. opened + 1
        BY <1>1
      <4> QED BY <4>1, <4>2, <4>3, <2>1
    <3>2. CASE i = M + 1
      <4>1. M + 1 + 1 = M + 2 /\ opened + 1 \in 1 .. opened + 1 /\ M + 1 \in 1 .. M + 1
        BY <1>1, <2>3
      <4> QED BY <3>2, <4>1, <2>1, <2>5, <2>6
    <3> QED BY <3>1, <3>2, <2>4
  <2>9. ASSUME NEW i \in 1 .. M + 2, NEW j \in 1 .. M + 2, i <= j
        PROVE  starts'[i] <= starts'[j]
    <3>1. \A k \in 1 .. M + 1 : starts[k] \in Nat /\ starts[k] <= starts[M + 1]
      BY <1>2, <2>3, SMTT(40) DEF ManifestOK
    <3>2. CASE j \in 1 .. M + 1
      <4>1. i \in 1 .. M + 1
        BY <3>2, <2>9, <2>3
      <4>2. starts[i] <= starts[j]
        BY <4>1, <3>2, <2>9, <1>2 DEF ManifestOK
      <4> QED BY <4>1, <4>2, <3>2, <2>1
    <3>3. CASE j = M + 2
      <4>1. CASE i = M + 2
        <5>1. starts'[M + 2] \in Nat
          BY <2>1, <3>1, <1>1, <2>3
        <5> QED BY <4>1, <3>3, <5>1
      <4>2. CASE i \in 1 .. M + 1
        <5>1. starts'[i] \in Nat /\ starts'[i] <= starts[M + 1] /\ starts[M + 1] \in Nat
          BY <4>2, <3>1, <2>1, <2>3, SMTT(40)
        <5> QED BY <5>1, <3>3, <2>1, <1>1
      <4> QED BY <4>1, <4>2, <2>3
    <3> QED BY <3>2, <3>3, <2>3
  <2>10. ASSUME NEW i \in 1 .. M + 1, NEW j \in 1 .. M + 1, manifest'[i].name = manifest'[j].name
         PROVE  i = j
    <3>1. CASE i \in 1 .. M /\ j \in 1 .. M
      BY <3>1, <2>10, <2>1 DEF ManifestOK
    <3>2. CASE i \in 1 .. M /\ j = M + 1
      BY <3>2, <2>10, <2>1, <2>2, <2>5
    <3>3. CASE i = M + 1 /\ j \in 1 .. M
      BY <3>3, <2>10, <2>1, <2>2, <2>5
    <3> QED BY <3>1, <3>2, <3>3, <2>4
  <2>11. ASSUME NEW j \in 1 .. opened + 1
         PROVE  \E i \in 1 .. M + 1 : manifest'[i].name = paths[j]
    <3>1. CASE j \in 1 .. opened
      <4>1. PICK i \in 1 .. M : manifest[i].name = paths[j]
        BY <3>1 DEF ManifestOK
      <4>2. i \in 1 .. M + 1
        BY <2>3
      <4> QED BY <4>1, <4>2, <2>1
    <3>2. CASE j = opened + 1
      <4>1. M + 1 \in 1 .. M + 1
        BY <2>3
      <4> QED BY <4>1, <3>2, <2>5, <2>6
    <3> QED BY <3>1, <3>2, <1>1
  <2>12. Len(starts') = Len(manifest') + 1 /\ Len(manifest') = M + 1 /\ Len(starts') = M + 2
    BY <2>1, <2>3
  <2> HIDE DEF M
  <2> QED BY <1>1, <2>12, <2>7, <2>8, <2>9, <2>10, <2>11 DEF ManifestOK
<1> QED BY <1>3, <1>4

LEMMA ManifestStep ==
  ASSUME SeqTypeOK, ManifestOK, [SeqNext]_seqVars
  PROVE  ManifestOK'
<1>1. CASE NextFile
  BY <1>1, ManifestNextFile
<1>2. CASE UNCHANGED <<files, paths, opened, manifest, starts>>
  BY <1>2 DEF ManifestOK
<1>3. ~ NextFile => UNCHANGED <<files, paths, opened, manifest, starts>>
  BY DEF SeqNext, seqVars, stored, WriteToCache, Tamper, OpenStream, OpenFile, CopyBytes,
         StreamInvalid, CloseFile
<1> QED BY <1>1, <1>2, <1>3

-----------------------------------------------------------------------------
(* Every byte of a listed file has its place within the total. *)
LEMMA PlaceFacts ==
  ASSUME SeqTypeOK, ManifestOK
  PROVE  /\ Len(manifest) \in Nat /\ Total \in Nat
         /\ Len(stream) \in Nat /\ stream \in [1 .. Len(stream) -> Bytes]
         /\ \A i \in 1 .. Len(manifest) + 1 : starts[i] \in Nat /\ starts[i] <= Total
         /\ \A i \in 1 .. Len(manifest) :
              /\ manifest[i] \in Listing /\ manifest[i].name \in Names /\ manifest[i].size \in Nat
              /\ files[manifest[i].name] \in Seq(Bytes)
              /\ manifest[i].size = Len(files[manifest[i].name])
              /\ starts[i + 1] = starts[i] + manifest[i].size
              /\ starts[i] + manifest[i].size <= Total
<1>1. /\ Len(manifest) \in Nat /\ manifest \in [1 .. Len(manifest) -> Listing]
      /\ starts \in [1 .. Len(manifest) + 1 -> Nat]
      /\ Len(stream) \in Nat /\ stream \in [1 .. Len(stream) -> Bytes]
  BY LenProperties DEF SeqTypeOK, ManifestOK
<1>2. Total \in Nat
  BY <1>1 DEF Total
<1>3. \A i \in 1 .. Len(manifest) + 1 : starts[i] \in Nat /\ starts[i] <= Total
  <2>1. /\ \A i, j \in 1 .. Len(manifest) + 1 : i <= j => starts[i] <= starts[j]
        /\ Len(manifest) + 1 \in 1 .. Len(manifest) + 1
    BY <1>1 DEF ManifestOK
  <2>2. \A i \in 1 .. Len(manifest) + 1 : i <= Len(manifest) + 1 /\ starts[i] \in Nat
    BY <1>1
  <2> QED BY <2>1, <2>2 DEF Total
<1>4. ASSUME NEW i \in 1 .. Len(manifest)
      PROVE  /\ manifest[i] \in Listing /\ manifest[i].name \in Names /\ manifest[i].size \in Nat
             /\ files[manifest[i].name] \in Seq(Bytes)
             /\ manifest[i].size = Len(files[manifest[i].name])
             /\ starts[i + 1] = starts[i] + manifest[i].size
             /\ starts[i] + manifest[i].size <= Total
  <2>1. manifest[i] \in Listing
    BY <1>1
  <2>2. manifest[i].name \in Names /\ manifest[i].size \in Nat
    BY <2>1 DEF Listing
  <2>3. manifest[i].size = Len(files[manifest[i].name]) /\ starts[i + 1] = starts[i] + manifest[i].size
    BY DEF ManifestOK
  <2>4. i + 1 \in 1 .. Len(manifest) + 1
    BY <1>1
  <2>5. starts[i + 1] <= Total
    BY <2>4, <1>3
  <2>6. files[manifest[i].name] \in Seq(Bytes)
    BY <2>2 DEF SeqTypeOK
  <2> QED BY <2>1, <2>2, <2>3, <2>5, <2>6
<1> QED BY <1>1, <1>2, <1>3, <1>4

LEMMA StreamNextFile ==
  ASSUME SeqTypeOK, ManifestOK, StreamOK, NextFile
  PROVE  StreamOK'
<1> DEFINE n == paths[opened + 1]
           M == Len(manifest)
<1>1. /\ n \in Names /\ files[n] \in Seq(Bytes) /\ Len(files[n]) \in Nat
      /\ opened \in Nat /\ opened' = opened + 1
      /\ stream' \in Seq(Bytes) /\ Len(stream') = Len(stream) + Len(files[n])
      /\ \A i \in 1 .. Len(stream) : stream'[i] = stream[i]
      /\ \A i \in 1 .. Len(files[n]) : stream'[Len(stream) + i] = files[n][i]
      /\ files' = files /\ paths' = paths /\ stage' = stage /\ cut' = cut
  BY NextFileFacts
<1>2. /\ M \in Nat /\ Total \in Nat /\ Len(stream) \in Nat
      /\ \A i \in 1 .. M + 1 : starts[i] \in Nat /\ starts[i] <= Total
      /\ \A i \in 1 .. M : manifest[i].size \in Nat /\ starts[i] + manifest[i].size <= Total
  BY PlaceFacts
<1>3. stage = "write" /\ ~ cut
  BY DEF NextFile, StreamOK
<1>4. Total <= Len(stream)
  BY <1>2, <1>3 DEF StreamOK
<1>5. \A i \in 1 .. opened + 1 : i \in 1 .. opened \/ i = opened + 1
  BY <1>1
<1>6. 1 .. opened \subseteq 1 .. opened + 1 /\ opened + 1 \in 1 .. opened + 1 /\ opened + 1 \notin 1 .. opened
  BY <1>1
<1>7. TwiceOpened <=> \E i, j \in 1 .. opened : i # j /\ paths[i] = paths[j] /\ files[paths[i]] # <<>>
  BY DEF TwiceOpened
<1>8. TwiceOpened' <=> \E i, j \in 1 .. opened + 1 : i # j /\ paths[i] = paths[j] /\ files[paths[i]] # <<>>
  BY <1>1 DEF TwiceOpened
<1>9. n = paths[opened + 1]
  OBVIOUS
<1>10. CASE \E i \in DOMAIN manifest : manifest[i].name = n
  <2>1. manifest' = manifest /\ starts' = starts /\ Total' = Total
        /\ \E i \in 1 .. M : manifest[i].name = n
    BY <1>10, SeenPathFacts
  <2>2. \E j \in 1 .. opened : paths[j] = n
    BY <2>1 DEF ManifestOK
  <2> HIDE DEF n, M
  <2>3. CASE files[n] # <<>>
    <3>1. TwiceOpened'
      BY <2>3, <2>2, <1>8, <1>6, <1>9
    <3>2. Len(files[n]) > 0
      BY <2>3, <1>1, EmptySeq
    <3>3. Total' < Len(stream')
      BY <3>2, <2>1, <1>1, <1>2, <1>4
    <3> QED BY <3>1, <3>3, <1>1, <1>3 DEF StreamOK
  <2>4. CASE files[n] = <<>>
    <3>1. Len(files[n]) = 0
      BY <2>4, EmptySeq
    <3>2. TwiceOpened' <=> TwiceOpened
      <4>1. ASSUME NEW i \in 1 .. opened + 1, NEW j \in 1 .. opened + 1,
                   i # j, paths[i] = paths[j], files[paths[i]] # <<>>
            PROVE  i \in 1 .. opened /\ j \in 1 .. opened
        BY <4>1, <2>4, <1>5, <1>9
      <4> QED BY <4>1, <1>6, <1>7, <1>8
    <3>3. Len(stream') = Len(stream)
      BY <3>1, <1>1, <1>2
    <3>4. /\ manifest' = manifest /\ starts' = starts /\ files' = files /\ stage' = stage /\ cut' = cut
          /\ \A i \in 1 .. M : \A j \in 1 .. manifest[i].size :
               starts[i] + j <= Len(stream) => stream'[starts[i] + j] = stream[starts[i] + j]
      <4> SUFFICES ASSUME NEW i \in 1 .. M, NEW j \in 1 .. manifest[i].size, starts[i] + j <= Len(stream)
                   PROVE  stream'[starts[i] + j] = stream[starts[i] + j]
        BY <2>1, <1>1
      <4>1. starts[i] \in Nat /\ manifest[i].size \in Nat
        BY <1>2
      <4>2. starts[i] + j \in 1 .. Len(stream)
        BY <4>1, <1>2
      <4> QED BY <4>2, <1>1
    <3>5. \A i \in 1 .. Len(manifest) : \A j \in 1 .. manifest[i].size :
            starts[i] + j <= Len(stream) => stream'[starts[i] + j] = stream[starts[i] + j]
      BY <3>4 DEF M
    <3> QED BY <3>2, <3>3, <3>4, <3>5, <2>1, <1>3 DEF StreamOK
  <2> QED BY <2>3, <2>4
<1>11. CASE ~ \E i \in DOMAIN manifest : manifest[i].name = n
  <2>1. /\ Len(manifest') = M + 1
        /\ \A i \in 1 .. M : manifest'[i] = manifest[i]
        /\ manifest'[M + 1] = [name |-> n, size |-> Len(files[n])]
        /\ \A i \in 1 .. M + 1 : starts'[i] = starts[i]
        /\ Total' = Total + Len(files[n])
    BY <1>11, NewPathFacts
  <2>2. \A j \in 1 .. opened : paths[j] # n
    <3>1. DOMAIN manifest = 1 .. M
      BY LenProperties DEF SeqTypeOK
    <3>2. \A j \in 1 .. opened : \E i \in 1 .. M : manifest[i].name = paths[j]
      BY DEF ManifestOK
    <3> QED BY <3>1, <3>2, <1>11
  <2>3. starts[M + 1] = Total
    BY DEF Total
  <2>4. manifest'[M + 1].name = n /\ manifest'[M + 1].size = Len(files[n])
    BY <2>1
  <2>5. ~ TwiceOpened => (Len(stream) = Total
          /\ \A i \in 1 .. M : \A j \in 1 .. manifest[i].size :
               starts[i] + j <= Len(stream) => stream[starts[i] + j] = files[manifest[i].name][j])
    BY <1>3 DEF StreamOK
  <2> HIDE DEF n, M
  <2>6. TwiceOpened' <=> TwiceOpened
    <3>1. ASSUME NEW i \in 1 .. opened + 1, NEW j \in 1 .. opened + 1, i # j, paths[i] = paths[j]
          PROVE  i \in 1 .. opened /\ j \in 1 .. opened
      BY <3>1, <2>2, <1>5, <1>9
    <3> QED BY <3>1, <1>6, <1>7, <1>8
  <2>7. TwiceOpened' => Total' < Len(stream')
    <3>1. TwiceOpened => Total < Len(stream)
      BY <1>3 DEF StreamOK
    <3> QED BY <3>1, <2>6, <2>1, <1>1, <1>2
  <2>8. ASSUME ~ TwiceOpened
        PROVE  Len(stream') = Total'
    BY <2>8, <2>5, <2>1, <1>1, <1>2
  <2>9. ASSUME ~ TwiceOpened, NEW i \in 1 .. M + 1, NEW j \in 1 .. manifest'[i].size
        PROVE  stream'[starts'[i] + j] = files[manifest'[i].name][j]
    <3>1. CASE i \in 1 .. M
      <4>1. /\ manifest'[i] = manifest[i] /\ starts'[i] = starts[i] /\ starts[i] \in Nat
            /\ manifest[i].size \in Nat /\ starts[i] + manifest[i].size <= Total
        BY <3>1, <2>1, <1>2
      <4>2. starts[i] + j \in 1 .. Len(stream) /\ starts[i] + j <= Len(stream)
        <5>1. j \in 1 .. manifest[i].size /\ Len(stream) = Total /\ Total \in Nat
          BY <4>1, <2>9, <2>5, <1>2
        <5> QED BY <4>1, <5>1
      <4> QED BY <4>1, <4>2, <3>1, <2>5, <2>9, <1>1, SMTT(40)
    <3>2. CASE i = M + 1
      <4>1. starts'[i] = Len(stream)
        BY <3>2, <2>1, <2>3, <2>5, <2>9
      <4> QED BY <4>1, <3>2, <2>4, <1>1
    <3> QED BY <3>1, <3>2, <1>2
  <2> QED BY <1>1, <1>3, <2>1, <2>6, <2>7, <2>8, <2>9 DEF StreamOK
<1> QED BY <1>10, <1>11

LEMMA StreamTamper ==
  ASSUME SeqTypeOK, ManifestOK, StreamOK, Tamper
  PROVE  StreamOK'
<1>1. UNCHANGED <<files, paths, opened, stage, manifest, starts>> /\ cut' /\ ~ cut /\ stage = "stored"
  BY DEF Tamper
<1>2. TwiceOpened' = TwiceOpened /\ Total' = Total
  BY <1>1 DEF TwiceOpened, Total
<1>3. /\ Len(manifest) \in Nat /\ Total \in Nat /\ Len(stream) \in Nat
      /\ \A i \in 1 .. Len(manifest) : /\ starts[i] \in Nat /\ manifest[i].size \in Nat
                                       /\ starts[i] + manifest[i].size <= Total
  BY PlaceFacts
<1>4. /\ Len(stream') \in Nat /\ Len(stream') # Len(stream)
      /\ \A i \in 1 .. Len(stream) : i <= Len(stream') => stream'[i] = stream[i]
  <2>1. ASSUME NEW n \in 0 .. Len(stream) - 1, stream' = SubSeq(stream, 1, n)
        PROVE  <1>4!:
    <3>1. stream \in [1 .. Len(stream) -> Bytes] /\ n \in Int /\ n \in Nat /\ n < Len(stream)
      BY <2>1, <1>3, PlaceFacts
    <3>2. \A i \in 1 .. n : i \in 1 .. Len(stream) /\ stream[i] \in Bytes
      <4>1. \A i \in 1 .. n : i \in 1 .. Len(stream)
        BY <3>1, <1>3
      <4> QED BY <4>1, <3>1
    <3>3. /\ Len(stream') = IF 1 <= n THEN n - 1 + 1 ELSE 0
          /\ \A i \in 1 .. n - 1 + 1 : stream'[i] = stream[1 + i - 1]
      BY <2>1, <3>1, <3>2, SubSeqProperties
    <3>4. Len(stream') = n /\ \A i \in 1 .. n : stream'[i] = stream[i]
      BY <3>1, <3>3
    <3>5. \A i \in 1 .. Len(stream) : i <= n => i \in 1 .. n
      BY <3>1, <1>3
    <3>6. n # Len(stream)
      <4>1. n \in Int /\ Len(stream) \in Int /\ n < Len(stream)
        BY <3>1, <1>3
      <4>2. \A k, l \in Int : k < l => k # l
        OBVIOUS
      <4> QED BY <4>1, <4>2, Zenon
    <3> QED BY <3>1, <3>4, <3>5, <3>6
  <2>2. ASSUME NEW b \in Bytes, stream' = Append(stream, b)
        PROVE  <1>4!:
    <3>1. stream \in Seq(Bytes)
      BY DEF SeqTypeOK
    <3>2. Len(stream') = Len(stream) + 1 /\ \A i \in 1 .. Len(stream) : stream'[i] = stream[i]
      BY <2>2, <3>1, AppendProperties
    <3> QED BY <3>2, <1>3
  <2> QED BY <2>1, <2>2 DEF Tamper
<1>5. ASSUME ~ TwiceOpened
      PROVE  /\ Len(stream') # Total
             /\ \A i \in 1 .. Len(manifest) : \A j \in 1 .. manifest[i].size :
                  starts[i] + j <= Len(stream') => stream'[starts[i] + j] = files[manifest[i].name][j]
  <2>1. /\ Len(stream) = Total
        /\ \A i \in 1 .. Len(manifest) : \A j \in 1 .. manifest[i].size :
             starts[i] + j <= Len(stream) => stream[starts[i] + j] = files[manifest[i].name][j]
    BY <1>1, <1>5 DEF StreamOK
  <2>2. ASSUME NEW i \in 1 .. Len(manifest), NEW j \in 1 .. manifest[i].size, starts[i] + j <= Len(stream')
        PROVE  stream'[starts[i] + j] = files[manifest[i].name][j]
    <3>1. starts[i] + j \in 1 .. Len(stream) /\ starts[i] + j <= Len(stream)
      BY <2>1, <1>3
    <3> QED BY <3>1, <2>1, <2>2, <1>4
  <2> QED BY <2>1, <2>2, <1>4
<1>6. stage' # "write" /\ (stage' # "write" => opened' = Len(paths'))
  BY <1>1 DEF StreamOK
<1> QED BY <1>1, <1>2, <1>5, <1>6 DEF StreamOK

LEMMA StreamStep ==
  ASSUME SeqTypeOK, ManifestOK, StreamOK, [SeqNext]_seqVars
  PROVE  StreamOK'
<1>1. CASE NextFile
  BY <1>1, StreamNextFile
<1>2. CASE Tamper
  BY <1>2, StreamTamper
<1>3. CASE UNCHANGED <<stored, stage>>
  BY <1>3 DEF StreamOK, TwiceOpened, Total, stored
<1>4. CASE UNCHANGED stored /\ opened = Len(paths) /\ stage' # "write" /\ (cut => stage # "write")
  BY <1>4 DEF StreamOK, TwiceOpened, Total, stored
<1>5. ~ NextFile /\ ~ Tamper /\ ~ UNCHANGED <<stored, stage>>
      => UNCHANGED stored /\ opened = Len(paths) /\ stage' # "write" /\ (cut => stage # "write")
  BY DEF SeqNext, seqVars, WriteToCache, OpenStream, OpenFile, CopyBytes, Copied,
         StreamInvalid, CloseFile, StreamOK
<1> QED BY <1>1, <1>2, <1>3, <1>4, <1>5

-----------------------------------------------------------------------------
(* The file that is extracted is the next one of the manifest. *)
LEMMA HeadFacts ==
  ASSUME SeqTypeOK, ManifestOK, InputOK, Reading, left # <<>>
  PROVE  /\ Len(left) \in Nat /\ Len(left) >= 1
         /\ Done \in Nat /\ Done + 1 \in 1 .. Len(manifest)
         /\ Head(left) = manifest[Done + 1]
         /\ Head(left).name \in Names /\ Limit = manifest[Done + 1].size /\ Limit \in Nat
<1>1. Len(left) \in Nat /\ Len(left) >= 1 /\ Head(left) = left[1]
  BY EmptySeq, LenProperties DEF SeqTypeOK
<1>2. Len(manifest) \in Nat /\ Len(left) <= Len(manifest)
  BY PlaceFacts DEF InputOK
<1>3. Done \in Nat /\ Done + 1 \in 1 .. Len(manifest)
  BY <1>1, <1>2 DEF Done
<1>4. Head(left) = manifest[Done + 1]
  BY <1>1 DEF InputOK
<1> QED BY <1>1, <1>3, <1>4, PlaceFacts DEF Limit

(* A read takes some bytes of the input, not more than the file lacks. *)
LEMMA CopyFacts ==
  ASSUME SeqTypeOK, ManifestOK, InputOK, FilesOK, CopyBytes
  PROVE  \E n \in Nat :
           /\ n <= Len(input) /\ Len(written) + n <= Limit
           /\ written' \in Seq(Bytes) /\ Len(written') = Len(written) + n
           /\ \A j \in 1 .. Len(written) : written'[j] = written[j]
           /\ \A j \in 1 .. n : written'[Len(written) + j] = input[j]
           /\ input' \in Seq(Bytes) /\ Len(input') = Len(input) - n
           /\ \A j \in 1 .. Len(input') : input'[j] = input[n + j]
           /\ ucfgDir' = [ucfgDir EXCEPT ![Head(left).name] = written']
<1>1. stage = "copy" /\ Len(written) < Limit /\ left # <<>> /\ Reading
  BY DEF CopyBytes, FilesOK, Reading
<1>2. Limit \in Nat /\ Head(left).name \in Names
  BY <1>1, HeadFacts
<1>3. /\ Len(written) \in Nat /\ written \in Seq(Bytes)
      /\ Len(input) \in Nat /\ input \in Seq(Bytes) /\ input \in [1 .. Len(input) -> Bytes]
  BY LenProperties DEF SeqTypeOK
<1>4. Buffer \in Nat /\ Limit - Len(written) \in Nat
  BY <1>1, <1>2, <1>3, SequenceAssumption
<1>5. ToRead \in Nat /\ ToRead <= Limit - Len(written)
  BY <1>4, SmallestIs DEF ToRead
<1>6. /\ Smallest({ToRead, Len(input)}) \in Nat
      /\ Smallest({ToRead, Len(input)}) <= ToRead /\ Smallest({ToRead, Len(input)}) <= Len(input)
  BY <1>3, <1>5, SmallestIs
<1>7. PICK n \in 1 .. Smallest({ToRead, Len(input)}) :
        /\ written' = written \o SubSeq(input, 1, n)
        /\ input' = SubSeq(input, n + 1, Len(input))
        /\ ucfgDir' = [ucfgDir EXCEPT ![Head(left).name] = written']
  BY DEF CopyBytes
<1>8. n \in Nat /\ n >= 1 /\ n <= Len(input) /\ Len(written) + n <= Limit
  BY <1>2, <1>3, <1>5, <1>6
<1>9. /\ SubSeq(input, 1, n) \in Seq(Bytes) /\ Len(SubSeq(input, 1, n)) = n
      /\ \A j \in 1 .. n : SubSeq(input, 1, n)[j] = input[j]
  <2>1. \A j \in 1 .. n : input[j] \in Bytes
    <3>1. \A j \in 1 .. n : j \in 1 .. Len(input)
      BY <1>3, <1>8
    <3> QED BY <3>1, <1>3
  <2>2. /\ SubSeq(input, 1, n) \in Seq(Bytes)
        /\ Len(SubSeq(input, 1, n)) = IF 1 <= n THEN n - 1 + 1 ELSE 0
        /\ \A j \in 1 .. n - 1 + 1 : SubSeq(input, 1, n)[j] = input[1 + j - 1]
    BY <2>1, <1>8, SubSeqProperties
  <2> QED BY <2>2, <1>8
<1>10. /\ written' \in Seq(Bytes) /\ Len(written') = Len(written) + n
       /\ \A j \in 1 .. Len(written) + n :
            written'[j] = IF j <= Len(written) THEN written[j] ELSE SubSeq(input, 1, n)[j - Len(written)]
  BY <1>3, <1>7, <1>9, ConcatProperties
<1>11. \A j \in 1 .. Len(written) : written'[j] = written[j]
  BY <1>3, <1>8, <1>10
<1>12. \A j \in 1 .. n : written'[Len(written) + j] = input[j]
  <2> TAKE j \in 1 .. n
  <2>1. /\ Len(written) + j \in 1 .. Len(written) + n /\ ~ (Len(written) + j <= Len(written))
        /\ (Len(written) + j) - Len(written) = j
    BY <1>3, <1>8
  <2> QED BY <2>1, <1>9, <1>10
<1>13. /\ input' \in Seq(Bytes) /\ Len(input') = Len(input) - n
       /\ \A j \in 1 .. Len(input') : input'[j] = input[n + j]
  <2>1. \A j \in n + 1 .. Len(input) : input[j] \in Bytes
    <3>1. \A j \in n + 1 .. Len(input) : j \in 1 .. Len(input)
      BY <1>3, <1>8
    <3> QED BY <3>1, <1>3
  <2>2. n + 1 \in Int /\ Len(input) \in Int
    BY <1>3, <1>8
  <2>3. /\ input' \in Seq(Bytes)
        /\ Len(input') = IF n + 1 <= Len(input) THEN Len(input) - (n + 1) + 1 ELSE 0
        /\ \A j \in 1 .. Len(input) - (n + 1) + 1 : input'[j] = input[n + 1 + j - 1]
    BY <2>1, <2>2, <1>7, SubSeqProperties
  <2>4. Len(input') = Len(input) - n /\ Len(input) - (n + 1) + 1 = Len(input) - n
    <3>1. n \in Nat /\ Len(input) \in Nat /\ n <= Len(input)
      BY <1>3, <1>8
    <3>2. /\ Len(input) - (n + 1) + 1 = Len(input) - n
          /\ n + 1 <= Len(input) \/ Len(input) - n = 0
      BY <3>1
    <3> QED BY <2>3, <3>1, <3>2
  <2>5. \A j \in 1 .. Len(input') : n + 1 + j - 1 = n + j
    BY <2>4, <1>3, <1>8
  <2> QED BY <2>3, <2>4, <2>5
<1> QED BY <1>7, <1>8, <1>10, <1>11, <1>12, <1>13

LEMMA SeqTypeStep ==
  ASSUME SeqTypeOK, ManifestOK, InputOK, FilesOK, [SeqNext]_seqVars
  PROVE  SeqTypeOK'
<1> USE DEF stored, reading
<1>1. CASE NextFile
  <2> DEFINE n == paths[opened + 1]
  <2>1. /\ opened \in Nat /\ opened' = opened + 1 /\ opened + 1 <= Len(paths)
        /\ stream' \in Seq(Bytes) /\ UNCHANGED <<files, paths, stage, cut, reading>>
    BY <1>1, NextFileFacts
  <2>2. manifest' \in Seq(Listing) /\ starts' \in Seq(Nat)
    <3>1. CASE \E i \in DOMAIN manifest : manifest[i].name = n
      BY <1>1, <3>1, SeenPathFacts DEF SeqTypeOK
    <3>2. CASE ~ \E i \in DOMAIN manifest : manifest[i].name = n
      BY <1>1, <3>2, NewPathFacts
    <3> QED BY <3>1, <3>2
  <2>3. opened' \in 0 .. Len(paths)
    BY <2>1, LenProperties DEF SeqTypeOK
  <2> QED BY <2>1, <2>2, <2>3 DEF SeqTypeOK
<1>2. CASE WriteToCache
  BY <1>2 DEF WriteToCache, SeqTypeOK, Stages
<1>3. CASE Tamper
  <2>1. stream' \in Seq(Bytes)
    <3>1. stream \in [1 .. Len(stream) -> Bytes] /\ Len(stream) \in Nat /\ stream \in Seq(Bytes)
      BY PlaceFacts DEF SeqTypeOK
    <3>2. ASSUME NEW n \in 0 .. Len(stream) - 1 PROVE SubSeq(stream, 1, n) \in Seq(Bytes)
      <4>1. n \in Int /\ \A i \in 1 .. n : i \in 1 .. Len(stream)
        BY <3>1
      <4>2. \A i \in 1 .. n : stream[i] \in Bytes
        BY <4>1, <3>1
      <4> QED BY <4>1, <4>2, SubSeqProperties
    <3>3. ASSUME NEW b \in Bytes PROVE Append(stream, b) \in Seq(Bytes)
      BY <3>1, AppendProperties
    <3> QED BY <3>2, <3>3, <1>3 DEF Tamper
  <2> QED BY <1>3, <2>1 DEF Tamper, SeqTypeOK
<1>4. CASE OpenStream
  BY <1>4 DEF OpenStream, SeqTypeOK, Stages
<1>5. CASE OpenFile
  <2>1. <<>> \in Seq(Bytes)
    BY EmptySeq
  <2> QED BY <1>5, <2>1 DEF OpenFile, SeqTypeOK, Stages
<1>6. CASE CopyBytes
  <2>1. written' \in Seq(Bytes) /\ input' \in Seq(Bytes) /\ ucfgDir' = [ucfgDir EXCEPT ![Head(left).name] = written']
    BY <1>6, CopyFacts
  <2> QED BY <1>6, <2>1 DEF CopyBytes, SeqTypeOK
<1>7. CASE StreamInvalid
  BY <1>7 DEF StreamInvalid, SeqTypeOK, Stages
<1>8. CASE CloseFile
  <2>1. left # <<>>
    BY <1>8 DEF CloseFile, Copied, FilesOK
  <2>2. Tail(left) \in Seq(Listing)
    BY <2>1, HeadTailProperties DEF SeqTypeOK
  <2> QED BY <1>8, <2>2 DEF CloseFile, SeqTypeOK, Stages
<1>9. CASE UNCHANGED seqVars
  BY <1>9 DEF seqVars, SeqTypeOK
<1> QED BY <1>1, <1>2, <1>3, <1>4, <1>5, <1>6, <1>7, <1>8, <1>9 DEF SeqNext

LEMMA InputStep ==
  ASSUME SeqTypeOK, ManifestOK, InputOK, FilesOK, [SeqNext]_seqVars
  PROVE  InputOK'
<1> USE DEF stored, reading
<1>1. CASE stage' \in {"write", "stored"}
  BY <1>1 DEF InputOK, Reading
<1>2. CASE OpenStream
  <2>1. /\ Len(manifest) \in Nat /\ Len(stream) \in Nat
        /\ manifest' = manifest /\ stream' = stream /\ left' = manifest /\ input' = stream
    BY <1>2, PlaceFacts DEF OpenStream
  <2>2. Done' = 0 /\ Read' = 0
    BY <2>1 DEF Done, Read
  <2>3. \A i \in 1 .. Len(manifest) : 0 + i = i
    BY <2>1
  <2>4. \A i \in 1 .. Len(stream) : 0 + i = i
    BY <2>1
  <2> QED BY <2>1, <2>2, <2>3, <2>4 DEF InputOK
<1>3. CASE CopyBytes
  <2>1. Reading /\ UNCHANGED <<stage, left, manifest, stream>>
    BY <1>3 DEF CopyBytes, Reading
  <2>2. PICK n \in Nat : /\ n <= Len(input) /\ Len(input') = Len(input) - n
                         /\ \A j \in 1 .. Len(input') : input'[j] = input[n + j]
    BY <1>3, CopyFacts
  <2>3. Len(input) \in Nat /\ Len(stream) \in Nat /\ Len(input) <= Len(stream)
    BY <2>1, LenProperties DEF SeqTypeOK, InputOK
  <2>4. Read \in Nat /\ Read' = Read + n /\ Len(input') <= Len(stream')
    BY <2>1, <2>2, <2>3 DEF Read
  <2>5. ASSUME NEW i \in 1 .. Len(input') PROVE input'[i] = stream'[Read' + i]
    <3>1. n + i \in 1 .. Len(input) /\ Read' + i = Read + (n + i)
      BY <2>2, <2>3, <2>4
    <3>2. input[n + i] = stream[Read + (n + i)]
      BY <3>1, <2>1 DEF InputOK
    <3> QED BY <3>1, <3>2, <2>1, <2>2
  <2> QED BY <2>1, <2>4, <2>5 DEF InputOK, Done
<1>4. CASE CloseFile
  <2>1. left # <<>> /\ Reading /\ UNCHANGED <<manifest, stream, input>> /\ left' = Tail(left)
    BY <1>4 DEF CloseFile, Copied, FilesOK, Reading
  <2>2. /\ Len(left) \in Nat /\ Len(left') = Len(left) - 1
        /\ \A i \in 1 .. Len(left') : left'[i] = left[i + 1]
    BY <2>1, HeadTailProperties, LenProperties DEF SeqTypeOK
  <2>3. Len(manifest) \in Nat /\ Len(left) <= Len(manifest)
    BY <2>1, PlaceFacts DEF InputOK
  <2>4. Done \in Nat /\ Done' = Done + 1 /\ Len(left') <= Len(manifest')
    BY <2>1, <2>2, <2>3 DEF Done
  <2>5. ASSUME NEW i \in 1 .. Len(left') PROVE left'[i] = manifest'[Done' + i]
    <3>1. i + 1 \in 1 .. Len(left) /\ Done' + i = Done + (i + 1)
      BY <2>2, <2>3, <2>4
    <3> QED BY <3>1, <2>1, <2>2 DEF InputOK
  <2> QED BY <2>1, <2>4, <2>5 DEF InputOK, Read
<1>5. CASE Reading /\ UNCHANGED <<manifest, stream, left, input>>
  BY <1>5 DEF InputOK, Done, Read
<1>6. ~ (OpenStream \/ CopyBytes \/ CloseFile) =>
        stage' \in {"write", "stored"} \/ (Reading /\ UNCHANGED <<manifest, stream, left, input>>)
  BY DEF SeqNext, seqVars, NextFile, WriteToCache, Tamper, OpenFile, StreamInvalid, Copied, Reading,
         SeqTypeOK, Stages
<1> QED BY <1>1, <1>2, <1>3, <1>4, <1>5, <1>6

-----------------------------------------------------------------------------
(* The files that are complete stay as they are while the next one is      *)
(* written, since no name is listed twice.                                 *)
LEMMA CompleteKept ==
  ASSUME SeqTypeOK, ManifestOK, InputOK, FilesOK, Reading, left # <<>>,
         UNCHANGED <<manifest, starts, stream, left>>,
         NEW w, ucfgDir' = [ucfgDir EXCEPT ![Head(left).name] = w]
  PROVE  /\ \A i \in 1 .. Done : Copy(i, manifest[i].size)'
         /\ ucfgDir'[Head(left).name] = w
         /\ \A n \in Names : n # Head(left).name => ucfgDir'[n] = ucfgDir[n]
<1>1. Done \in Nat /\ Done + 1 \in 1 .. Len(manifest) /\ Head(left) = manifest[Done + 1] /\ Head(left).name \in Names
  BY HeadFacts
<1>2. \A i \in 1 .. Len(manifest) : manifest[i].name \in Names
  BY PlaceFacts
<1>3. /\ ucfgDir'[Head(left).name] = w
      /\ \A n \in Names : n # Head(left).name => ucfgDir'[n] = ucfgDir[n]
  BY <1>1 DEF SeqTypeOK
<1>4. ASSUME NEW i \in 1 .. Done PROVE Copy(i, manifest[i].size)'
  <2>1. i \in 1 .. Len(manifest) /\ i # Done + 1
    BY <1>1, PlaceFacts
  <2>2. manifest[i].name # Head(left).name
    BY <2>1, <1>1 DEF ManifestOK
  <2>3. ucfgDir'[manifest[i].name] = ucfgDir[manifest[i].name]
    BY <2>1, <2>2, <1>2, <1>3
  <2>4. Copy(i, manifest[i].size)
    BY DEF FilesOK
  <2>5. manifest'[i].size = manifest[i].size
    OBVIOUS
  <2> QED BY <2>3, <2>4, <2>5 DEF Copy
<1> QED BY <1>3, <1>4

LEMMA FilesOpenStream ==
  ASSUME SeqTypeOK, ManifestOK, FilesOK, OpenStream
  PROVE  FilesOK'
<1>1. /\ UNCHANGED <<manifest, starts, stream, ucfgDir>> /\ left' = manifest /\ input' = stream
      /\ stage = "stored" /\ stage' = IF manifest = <<>> THEN "extracted" ELSE "next"
  BY DEF OpenStream, stored
<1>2. Len(manifest) \in Nat /\ Len(stream) \in Nat
  BY PlaceFacts
<1>3. Done' = 0 /\ Read' = 0
  BY <1>1, <1>2 DEF Done, Read
<1>4. \A n \in Names : ucfgDir'[n] = Absent
  BY <1>1 DEF FilesOK, Reading
<1>5. starts'[Done' + 1] = 0
  BY <1>1, <1>3 DEF ManifestOK
<1> QED BY <1>1, <1>3, <1>4, <1>5 DEF FilesOK

LEMMA FilesOpenFile ==
  ASSUME SeqTypeOK, ManifestOK, InputOK, FilesOK, OpenFile
  PROVE  FilesOK'
<1>1. /\ UNCHANGED <<manifest, starts, stream, left, input>> /\ stage = "next" /\ stage' = "copy"
      /\ ucfgDir' = [ucfgDir EXCEPT ![Head(left).name] = <<>>] /\ written' = <<>>
  BY DEF OpenFile, stored
<1>2. Reading /\ left # <<>> /\ Read = starts[Done + 1]
  BY <1>1 DEF Reading, FilesOK
<1>3. /\ Done \in Nat /\ Done + 1 \in 1 .. Len(manifest) /\ Head(left) = manifest[Done + 1]
      /\ Head(left).name \in Names /\ Limit \in Nat
  BY <1>2, HeadFacts
<1>4. /\ \A i \in 1 .. Done : Copy(i, manifest[i].size)'
      /\ ucfgDir'[Head(left).name] = <<>>
      /\ \A n \in Names : n # Head(left).name => ucfgDir'[n] = ucfgDir[n]
  BY <1>1, <1>2, CompleteKept
<1>5. Done' = Done /\ Read' = Read /\ Limit' = Limit /\ Reading'
  BY <1>1 DEF Done, Read, Limit, Reading
<1>6. Len(written') = 0
  BY <1>1, EmptySeq
<1>7. starts[Done + 1] \in Nat
  BY <1>3, PlaceFacts
<1>8. Read' = starts'[Done' + 1] + Len(written') /\ Len(written') <= Limit'
  BY <1>1, <1>2, <1>3, <1>5, <1>6, <1>7
<1>9. Copy(Done + 1, Len(written))'
  <2>1. ucfgDir'[manifest'[Done' + 1].name] = <<>>
    BY <1>1, <1>3, <1>4, <1>5
  <2>2. <<>> \in Seq(Bytes) /\ Len(<<>>) = 0
    BY EmptySeq
  <2> QED BY <2>1, <2>2, <1>1 DEF Copy
<1>10. ASSUME NEW n \in Names,
              \A i \in 1 .. Len(manifest) : manifest[i].name = n => i > Done /\ i # Done + 1
       PROVE  ucfgDir'[n] = Absent
  <2>1. n # Head(left).name
    BY <1>3, <1>10
  <2>2. ucfgDir[n] = Absent
    BY <1>1, <1>10 DEF FilesOK
  <2> QED BY <2>1, <2>2, <1>4
<1>11. Reading' => \A i \in 1 .. Done' : Copy(i, manifest[i].size)'
  BY <1>1, <1>4, <1>5 DEF Copy
<1>12. ucfgDir'[Head(left').name] = written'
  BY <1>1, <1>4
<1> QED BY <1>1, <1>2, <1>5, <1>8, <1>9, <1>10, <1>11, <1>12 DEF FilesOK

LEMMA FilesCopyBytes ==
  ASSUME SeqTypeOK, ManifestOK, InputOK, FilesOK, CopyBytes
  PROVE  FilesOK'
<1>1. UNCHANGED <<manifest, starts, stream, left, stage>> /\ stage = "copy"
  BY DEF CopyBytes, stored
<1>2. /\ Reading /\ left # <<>> /\ Len(written) <= Limit /\ Read = starts[Done + 1] + Len(written)
      /\ Copy(Done + 1, Len(written)) /\ ucfgDir[Head(left).name] = written
  BY <1>1 DEF Reading, FilesOK
<1>3. /\ Done \in Nat /\ Done + 1 \in 1 .. Len(manifest) /\ Head(left) = manifest[Done + 1]
      /\ Head(left).name \in Names /\ Limit \in Nat
  BY <1>2, HeadFacts
<1>4. PICK k \in Nat :
           /\ k <= Len(input) /\ Len(written) + k <= Limit
           /\ written' \in Seq(Bytes) /\ Len(written') = Len(written) + k
           /\ \A j \in 1 .. Len(written) : written'[j] = written[j]
           /\ \A j \in 1 .. k : written'[Len(written) + j] = input[j]
           /\ Len(input') = Len(input) - k
           /\ ucfgDir' = [ucfgDir EXCEPT ![Head(left).name] = written']
  BY CopyFacts
<1>5. /\ \A i \in 1 .. Done : Copy(i, manifest[i].size)'
      /\ ucfgDir'[Head(left).name] = written'
      /\ \A n \in Names : n # Head(left).name => ucfgDir'[n] = ucfgDir[n]
  <2>1. UNCHANGED <<manifest, starts, stream, left>>
    BY <1>1
  <2>2. PICK w : w = written'
    OBVIOUS
  <2>3. ucfgDir' = [ucfgDir EXCEPT ![Head(left).name] = w]
    BY <1>4, <2>2
  <2>4. /\ \A i \in 1 .. Done : Copy(i, manifest[i].size)'
        /\ ucfgDir'[Head(left).name] = w
        /\ \A n \in Names : n # Head(left).name => ucfgDir'[n] = ucfgDir[n]
    BY <2>1, <2>3, <1>2, CompleteKept
  <2> QED BY <2>2, <2>4
<1>6. /\ Done' = Done /\ Limit' = Limit /\ Reading' /\ Head(left') = Head(left)
  BY <1>1, <1>2 DEF Done, Limit, Reading
<1>7. /\ Len(written) \in Nat /\ Len(input) \in Nat /\ Len(stream) \in Nat /\ starts[Done + 1] \in Nat
      /\ Read \in Nat
  <2>1. Len(written) \in Nat /\ Len(input) \in Nat /\ Len(stream) \in Nat /\ Len(input) <= Len(stream)
    BY <1>2, LenProperties DEF SeqTypeOK, InputOK
  <2> QED BY <2>1, <1>3, PlaceFacts DEF Read
<1>8. Read' = Read + k
  BY <1>1, <1>4, <1>7 DEF Read
<1>9. Read' = starts'[Done' + 1] + Len(written') /\ Len(written') <= Limit'
  <2>1. Read = starts[Done + 1] + Len(written) /\ Len(written') = Len(written) + k
    BY <1>2, <1>4
  <2>2. Read' = starts[Done + 1] + Len(written')
    BY <2>1, <1>4, <1>7, <1>8
  <2>3. Len(written') <= Limit
    BY <1>2, <1>4, <1>7
  <2> QED BY <2>2, <2>3, <1>1, <1>6
<1>10. Copy(Done + 1, Len(written))'
  <2>1. ucfgDir'[manifest'[Done' + 1].name] = written'
    BY <1>1, <1>3, <1>5, <1>6
  <2>2. ASSUME NEW j \in 1 .. Len(written') PROVE written'[j] = stream[starts[Done + 1] + j]
    <3>1. CASE j \in 1 .. Len(written)
      <4>1. written[j] = stream[starts[Done + 1] + j]
        BY <3>1, <1>2, <1>3 DEF Copy
      <4> QED BY <4>1, <3>1, <1>4
    <3>2. CASE j \notin 1 .. Len(written)
      <4> DEFINE m == j - Len(written)
      <4>1. m \in 1 .. k /\ Len(written) + m = j /\ m \in 1 .. Len(input)
        BY <3>2, <1>4, <1>7
      <4>2. Read + m = starts[Done + 1] + j
        <5>1. Read = starts[Done + 1] + Len(written)
          BY <1>2
        <5> QED BY <5>1, <4>1, <1>7
      <4>3. input[m] = stream[Read + m]
        BY <4>1, <1>2 DEF InputOK
      <4> HIDE DEF m
      <4> QED BY <4>1, <4>2, <4>3, <1>4
    <3> QED BY <3>1, <3>2
  <2> QED BY <2>1, <2>2, <1>1, <1>4, <1>6 DEF Copy
<1>11. ASSUME NEW n \in Names,
              \A i \in 1 .. Len(manifest) : manifest[i].name = n => i > Done /\ i # Done + 1
       PROVE  ucfgDir'[n] = Absent
  <2>1. n # Head(left).name
    BY <1>3, <1>11
  <2>2. ucfgDir[n] = Absent
    BY <1>1, <1>11 DEF FilesOK
  <2> QED BY <2>1, <2>2, <1>5
<1>12. Reading' => \A i \in 1 .. Done' : Copy(i, manifest[i].size)'
  BY <1>1, <1>5, <1>6 DEF Copy
<1>13. ucfgDir'[Head(left').name] = written'
  BY <1>5, <1>6
<1> QED BY <1>1, <1>2, <1>6, <1>9, <1>10, <1>11, <1>12, <1>13 DEF FilesOK

LEMMA FilesCloseFile ==
  ASSUME SeqTypeOK, ManifestOK, InputOK, FilesOK, CloseFile
  PROVE  FilesOK'
<1>1. /\ UNCHANGED <<manifest, starts, stream, input, ucfgDir>> /\ left' = Tail(left)
      /\ stage = "copy" /\ stage' = IF Len(left) = 1 THEN "extracted" ELSE "next"
      /\ ~ (Len(written) < Limit) /\ (Len(left) = 1 => input = <<>>)
  BY DEF CloseFile, stored, Copied, TooBig
<1>2. /\ Reading /\ left # <<>> /\ Len(written) <= Limit /\ Read = starts[Done + 1] + Len(written)
      /\ Copy(Done + 1, Len(written))
  BY <1>1 DEF Reading, FilesOK
<1>3. /\ Done \in Nat /\ Done + 1 \in 1 .. Len(manifest) /\ Len(left) \in Nat /\ Len(left) >= 1
      /\ Limit \in Nat /\ Limit = manifest[Done + 1].size
  BY <1>2, HeadFacts
<1>4. Len(written) \in Nat /\ Len(manifest) \in Nat
  BY LenProperties, PlaceFacts DEF SeqTypeOK
<1>5. Len(written) = manifest[Done + 1].size
  BY <1>1, <1>2, <1>3, <1>4
<1>6. Len(left') = Len(left) - 1 /\ Done' = Done + 1
  <2>1. Len(left') = Len(left) - 1
    BY <1>1, <1>2, HeadTailProperties DEF SeqTypeOK
  <2> QED BY <2>1, <1>1, <1>3, <1>4 DEF Done
<1>7. Read' = Read
  BY <1>1 DEF Read
<1>8. Read = starts[Done + 1 + 1]
  BY <1>2, <1>3, <1>5, PlaceFacts
<1>9. \A i \in 1 .. Done' : Copy(i, manifest[i].size)'
  <2>1. ASSUME NEW i \in 1 .. Done + 1 PROVE Copy(i, manifest[i].size)
    <3>1. CASE i \in 1 .. Done
      BY <3>1, <1>2 DEF FilesOK
    <3>2. CASE i = Done + 1
      BY <3>2, <1>2, <1>5
    <3> QED BY <3>1, <3>2, <1>3
  <2> QED BY <2>1, <1>1, <1>6 DEF Copy
<1>10. ASSUME Len(left) = 1
       PROVE  left' = <<>> /\ Read' = Total' /\ input' = <<>>
  <2>1. left' \in Seq(Listing) /\ Len(left') = 0
    BY <1>1, <1>2, <1>6, <1>10, HeadTailProperties DEF SeqTypeOK
  <2>2. left' = <<>>
    BY <2>1, EmptySeq
  <2>3. Done + 1 + 1 = Len(manifest) + 1
    BY <1>4, <1>10 DEF Done
  <2> QED BY <2>2, <2>3, <1>1, <1>7, <1>8, <1>10 DEF Total
<1>11. ASSUME Len(left) # 1
       PROVE  left' # <<>> /\ Read' = starts'[Done' + 1]
  <2>1. Len(left') # 0
    BY <1>3, <1>6, <1>11
  <2>2. left' # <<>>
    BY <2>1, EmptySeq
  <2> QED BY <2>2, <1>1, <1>6, <1>7, <1>8
<1>12. ASSUME NEW n \in Names, \A i \in 1 .. Len(manifest) : manifest[i].name = n => i > Done'
       PROVE  ucfgDir'[n] = Absent
  <2>1. \A i \in 1 .. Len(manifest) : i > Done + 1 => i > Done /\ i # Done + 1
    BY <1>3, <1>4
  <2>2. ucfgDir[n] = Absent
    BY <2>1, <1>6, <1>12 DEF FilesOK
  <2> QED BY <2>2, <1>1
<1>13. Reading' /\ stage' \in {"extracted", "next"} /\ (stage' = "extracted" <=> Len(left) = 1)
  BY <1>1 DEF Reading
<1>14. stage' \notin {"copy", "failed"}
  BY <1>13
<1> QED BY <1>1, <1>9, <1>10, <1>11, <1>12, <1>13, <1>14 DEF FilesOK

LEMMA FilesStep ==
  ASSUME SeqTypeOK, ManifestOK, InputOK, FilesOK, [SeqNext]_seqVars
  PROVE  FilesOK'
<1>1. CASE OpenStream
  BY <1>1, FilesOpenStream
<1>2. CASE OpenFile
  BY <1>2, FilesOpenFile
<1>3. CASE CopyBytes
  BY <1>3, FilesCopyBytes
<1>4. CASE CloseFile
  BY <1>4, FilesCloseFile
<1>5. CASE UNCHANGED ucfgDir /\ ~ Reading /\ ~ Reading'
  BY <1>5 DEF FilesOK, Reading
<1>6. CASE UNCHANGED <<manifest, starts, stream, ucfgDir, left, input, written>>
           /\ (stage' = stage \/ (stage = "copy" /\ stage' = "failed"))
  <2>1. /\ Done' = Done /\ Read' = Read /\ Limit' = Limit /\ Total' = Total
        /\ \A i, n : Copy(i, n) => Copy(i, n)'
    BY <1>6 DEF Copy, Done, Read, Limit, Total
  <2>2. /\ Reading' <=> Reading
        /\ stage' \in {"copy", "failed"} <=> stage \in {"copy", "failed"}
        /\ stage' = "next" => stage = "next"
        /\ stage' = "extracted" => stage = "extracted"
    BY <1>6 DEF Reading
  <2>3. /\ Reading' => \A i \in 1 .. Done' : Copy(i, manifest[i].size)'
        /\ stage' \in {"copy", "failed"} => Copy(Done + 1, Len(written))'
    BY <1>6, <2>1, <2>2 DEF FilesOK, Copy
  <2> QED BY <1>6, <2>1, <2>2, <2>3 DEF FilesOK
<1>7. \/ OpenStream \/ OpenFile \/ CopyBytes \/ CloseFile
      \/ (UNCHANGED ucfgDir /\ ~ Reading /\ ~ Reading')
      \/ /\ UNCHANGED <<manifest, starts, stream, ucfgDir, left, input, written>>
         /\ (stage' = stage \/ (stage = "copy" /\ stage' = "failed"))
  <2>1. NextFile \/ WriteToCache \/ Tamper => UNCHANGED ucfgDir /\ ~ Reading /\ ~ Reading'
    BY DEF NextFile, WriteToCache, Tamper, reading, Reading
  <2>2. StreamInvalid => /\ UNCHANGED <<manifest, starts, stream, ucfgDir, left, input, written>>
                         /\ stage = "copy" /\ stage' = "failed"
    BY DEF StreamInvalid, Copied, stored, reading
  <2>4. \/ NextFile \/ WriteToCache \/ Tamper \/ StreamInvalid \/ UNCHANGED seqVars
        \/ OpenStream \/ OpenFile \/ CopyBytes \/ CloseFile
    BY DEF SeqNext
  <2>5. CASE NextFile \/ WriteToCache \/ Tamper
    BY <2>1, <2>5
  <2>6. CASE StreamInvalid
    BY <2>2, <2>6
  <2>7. CASE UNCHANGED seqVars
    BY <2>7 DEF seqVars, stored, reading
  <2> QED BY <2>4, <2>5, <2>6, <2>7
<1> QED BY <1>1, <1>2, <1>3, <1>4, <1>5, <1>6, <1>7

LEMMA RefusedStep ==
  ASSUME SeqInv, StreamInvalid, ~ TwiceOpened
  PROVE  cut
<1> SUFFICES ASSUME ~ cut PROVE FALSE
  OBVIOUS
<1> USE DEF SeqInv
<1>1. stage = "copy" /\ (Len(written) >= Limit \/ input = <<>>) /\ (Len(written) < Limit \/ TooBig)
  BY DEF StreamInvalid, Copied
<1>2. Reading /\ left # <<>> /\ Len(written) <= Limit /\ Read = starts[Done + 1] + Len(written)
  BY <1>1 DEF Reading, FilesOK
<1>3. /\ Done \in Nat /\ Done + 1 \in 1 .. Len(manifest) /\ Len(left) \in Nat /\ Len(left) >= 1
      /\ Limit \in Nat /\ Limit = manifest[Done + 1].size
  BY <1>2, HeadFacts
<1>4. /\ Len(written) \in Nat /\ Len(manifest) \in Nat /\ Len(input) \in Nat /\ Len(stream) \in Nat
      /\ Total \in Nat
  BY LenProperties, PlaceFacts DEF SeqTypeOK
<1>5. /\ starts[Done + 1] \in Nat /\ starts[Done + 1] + Limit <= Total
      /\ starts[Done + 1 + 1] = starts[Done + 1] + Limit
  BY <1>3, PlaceFacts
<1>6. Len(stream) = Total
  BY DEF StreamOK
<1>7. Read = Total - Len(input)
  BY <1>6 DEF Read
<1>8. CASE Len(written) < Limit
  <2>1. Len(input) = 0
    BY <1>1, <1>3, <1>4, <1>8, EmptySeq
  <2> QED BY <2>1, <1>2, <1>3, <1>4, <1>5, <1>7, <1>8
<1>9. CASE ~ (Len(written) < Limit)
  <2>1. Len(left) = 1 /\ input # <<>>
    BY <1>1, <1>9 DEF TooBig
  <2>2. Done + 1 + 1 = Len(manifest) + 1
    BY <2>1, <1>4 DEF Done
  <2>3. starts[Done + 1] + Limit = Total
    BY <2>2, <1>5 DEF Total
  <2>4. Len(input) # 0
    BY <2>1, EmptySeq DEF SeqTypeOK
  <2> QED BY <2>3, <2>4, <1>2, <1>3, <1>4, <1>5, <1>7, <1>9, SMTT(40)
<1> QED BY <1>8, <1>9

LEMMA RefusedInvariant ==
  ASSUME SeqInv, [SeqNext]_seqVars
  PROVE  RefusedOK'
<1> USE DEF stored
<1>1. CASE StreamInvalid
  <2>1. UNCHANGED <<cut, files, paths, opened>>
    BY <1>1 DEF StreamInvalid
  <2> QED BY <1>1, <2>1, RefusedStep DEF RefusedOK, TwiceOpened
<1>2. CASE ~ StreamInvalid
  <2>1. stage' # "failed" \/ (stage = "failed" /\ UNCHANGED <<cut, files, paths, opened>>)
    BY <1>2 DEF SeqNext, seqVars, NextFile, WriteToCache, Tamper, OpenStream, OpenFile, CopyBytes,
                Copied, CloseFile
  <2> QED BY <2>1 DEF RefusedOK, TwiceOpened, SeqInv
<1> QED BY <1>1, <1>2

(* Which bytes the stream holds, where the extraction stands, and what is  *)
(* in the work directory, for any files, paths, buffer and reads.          *)
THEOREM SeqInvariance == SeqSpec => []SeqInv
<1>1. SeqInit => SeqInv
  BY SeqInitOK
<1>2. SeqInv /\ [SeqNext]_seqVars => SeqInv'
  <2> SUFFICES ASSUME SeqInv, [SeqNext]_seqVars PROVE SeqInv'
    OBVIOUS
  <2>1. SeqTypeOK /\ ManifestOK /\ StreamOK /\ InputOK /\ FilesOK
    BY DEF SeqInv
  <2> QED BY <2>1, SeqTypeStep, ManifestStep, StreamStep, InputStep, FilesStep, RefusedInvariant DEF SeqInv
<1> QED BY <1>1, <1>2, PTL DEF SeqSpec

-----------------------------------------------------------------------------
LEMMA TwiceIsOpened ==
  ASSUME SeqInv, stage # "write"
  PROVE  Twice <=> TwiceOpened
<1>1. opened = Len(paths) /\ DOMAIN paths = 1 .. Len(paths)
  BY LenProperties DEF SeqInv, StreamOK, SeqTypeOK
<1> QED BY <1>1 DEF Twice, TwiceOpened

(* What was extracted of a file has been read. *)
LEMMA ReadCovers ==
  ASSUME SeqInv, Reading
  PROVE  /\ Read \in Nat /\ Read <= Len(stream)
         /\ \A i \in 1 .. Done : i \in 1 .. Len(manifest) /\ starts[i] + manifest[i].size <= Read
<1> USE DEF SeqInv
<1>1. /\ Len(input) \in Nat /\ Len(stream) \in Nat /\ Len(written) \in Nat /\ Len(left) \in Nat
      /\ Len(manifest) \in Nat /\ Len(left) <= Len(manifest) /\ Len(input) <= Len(stream)
  BY LenProperties DEF SeqTypeOK, InputOK
<1>2. Read \in Nat /\ Read <= Len(stream) /\ Done \in Nat /\ Done <= Len(manifest)
  BY <1>1 DEF Read, Done
<1>3. ASSUME Done > 0 PROVE starts[Done + 1] <= Read
  <2>1. manifest # <<>>
    BY <1>1, <1>2, <1>3, EmptySeq
  <2>2. Done + 1 \in 1 .. Len(manifest) + 1
    BY <1>1, <1>2
  <2>3. starts[Done + 1] \in Nat /\ starts[Done + 1] <= Total
    BY <2>2, PlaceFacts
  <2> QED BY <2>1, <2>3, <1>1, <1>2 DEF FilesOK, Reading
<1>4. ASSUME NEW i \in 1 .. Done
      PROVE  i \in 1 .. Len(manifest) /\ starts[i] + manifest[i].size <= Read
  <2>1. i \in 1 .. Len(manifest) /\ Done > 0 /\ i + 1 <= Done + 1
        /\ i + 1 \in 1 .. Len(manifest) + 1 /\ Done + 1 \in 1 .. Len(manifest) + 1
    BY <1>1, <1>2
  <2>2. starts[i + 1] <= starts[Done + 1]
    BY <2>1 DEF ManifestOK
  <2>3. /\ starts[i + 1] = starts[i] + manifest[i].size
        /\ starts[i + 1] \in Nat /\ starts[Done + 1] \in Nat
    BY <2>1, PlaceFacts
  <2> QED BY <2>1, <2>2, <2>3, <1>2, <1>3
<1> QED BY <1>2, <1>4

(* What was copied from the place of a file are the bytes of that file. *)
LEMMA CopyIsPrefix ==
  ASSUME SeqInv, ~ TwiceOpened, NEW i \in 1 .. Len(manifest), NEW k \in Nat,
         k <= manifest[i].size, starts[i] + k <= Len(stream), Copy(i, k)
  PROVE  LET n == manifest[i].name
         IN  /\ IsPrefix(ucfgDir[n], files[n])
             /\ k = manifest[i].size => ucfgDir[n] = files[n]
<1> USE DEF SeqInv
<1> DEFINE n == manifest[i].name
           c == ucfgDir[n]
           f == files[n]
<1>1. /\ f \in Seq(Bytes) /\ manifest[i].size \in Nat /\ manifest[i].size = Len(f)
      /\ starts[i] \in Nat /\ Len(stream) \in Nat
  <2>1. i \in 1 .. Len(manifest) + 1
    BY PlaceFacts
  <2> QED BY <2>1, PlaceFacts
<1>2. c \in Seq(Bytes) /\ Len(c) = k
  BY DEF Copy
<1>3. ASSUME NEW j \in 1 .. k PROVE c[j] = f[j]
  <2>1. j \in 1 .. manifest[i].size /\ starts[i] + j <= Len(stream)
    BY <1>1
  <2>2. stream[starts[i] + j] = f[j]
    BY <2>1 DEF StreamOK
  <2> QED BY <2>2 DEF Copy
<1> HIDE DEF n, c, f
<1>4. IsPrefix(c, f)
  <2>1. Len(c) <= Len(f)
    BY <1>1, <1>2
  <2>2. /\ c \in [1 .. k -> Bytes] /\ f \in [1 .. Len(f) -> Bytes]
    BY <1>1, <1>2, LenProperties
  <2>3. \A j \in 1 .. k : j \in 1 .. Len(f) /\ c[j] \in Bytes /\ f[j] \in Bytes
    <3>1. \A j \in 1 .. k : j \in 1 .. Len(f)
      BY <2>1, <1>1, <1>2
    <3> QED BY <3>1, <2>2
  <2>4. /\ SubSeq(c, 1, k) \in Seq(Bytes) /\ SubSeq(f, 1, k) \in Seq(Bytes)
        /\ Len(SubSeq(c, 1, k)) = k /\ Len(SubSeq(f, 1, k)) = k
        /\ \A j \in 1 .. k : SubSeq(c, 1, k)[j] = c[j] /\ SubSeq(f, 1, k)[j] = f[j]
    <3>1. /\ SubSeq(c, 1, k) \in Seq(Bytes)
          /\ Len(SubSeq(c, 1, k)) = IF 1 <= k THEN k - 1 + 1 ELSE 0
          /\ \A j \in 1 .. k - 1 + 1 : SubSeq(c, 1, k)[j] = c[1 + j - 1]
      BY <2>3, SubSeqProperties
    <3>2. /\ SubSeq(f, 1, k) \in Seq(Bytes)
          /\ Len(SubSeq(f, 1, k)) = IF 1 <= k THEN k - 1 + 1 ELSE 0
          /\ \A j \in 1 .. k - 1 + 1 : SubSeq(f, 1, k)[j] = f[1 + j - 1]
      BY <2>3, SubSeqProperties
    <3>3. (IF 1 <= k THEN k - 1 + 1 ELSE 0) = k /\ k - 1 + 1 = k /\ \A j \in 1 .. k : 1 + j - 1 = j
      OBVIOUS
    <3> QED BY <3>1, <3>2, <3>3
  <2>5. SubSeq(c, 1, k) = SubSeq(f, 1, k)
    BY <2>4, <1>3, SeqEqual
  <2> QED BY <2>1, <2>5, <1>2 DEF IsPrefix
<1>5. ASSUME k = manifest[i].size PROVE c = f
  BY <1>1, <1>2, <1>3, <1>5, SeqEqual
<1> QED BY <1>4, <1>5 DEF n, c, f

LEMMA ExtractedIsTotal ==
  ASSUME SeqInv, stage = "extracted", manifest # <<>>
  PROVE  Len(stream) = Total
<1>1. Read = Total /\ Len(input) = 0
  BY EmptySeq DEF SeqInv, FilesOK
<1>2. Len(stream) \in Nat
  BY PlaceFacts DEF SeqInv
<1> QED BY <1>1, <1>2 DEF Read

LEMMA ExtractedRightFollows == SeqInv => ExtractedRight
<1> SUFFICES ASSUME SeqInv PROVE ExtractedRight
  OBVIOUS
<1>1. Len(manifest) \in Nat /\ \A i \in 1 .. Len(manifest) : manifest[i].size \in Nat
  BY PlaceFacts DEF SeqInv
<1>2. ASSUME stage = "extracted", ~ (Twice /\ cut), NEW n \in Names
      PROVE  ucfgDir[n] = IF \E i \in DOMAIN paths : paths[i] = n THEN files[n] ELSE Absent
  <2>1. Reading /\ left = <<>> /\ (Twice <=> TwiceOpened)
    BY <1>2, TwiceIsOpened DEF Reading, SeqInv, FilesOK
  <2>2. Done = Len(manifest)
    BY <1>1, <2>1, EmptySeq DEF Done
  <2>3. DOMAIN paths = 1 .. opened
    BY <1>2, LenProperties DEF SeqInv, StreamOK, SeqTypeOK
  <2>0. /\ \A j \in 1 .. opened : \E i \in 1 .. Len(manifest) : manifest[i].name = paths[j]
        /\ \A i \in 1 .. Len(manifest) : \E j \in 1 .. opened : paths[j] = manifest[i].name
    BY DEF SeqInv, ManifestOK
  <2>4. CASE \E i \in DOMAIN paths : paths[i] = n
    <3>1. PICK m \in 1 .. Len(manifest) : manifest[m].name = n
      BY <2>3, <2>4, <2>0, Zenon
    <3>2. manifest # <<>>
      BY <3>1, <1>1, EmptySeq
    <3>3. Len(stream) = Total /\ Total \in Nat
      BY <3>2, <1>2, ExtractedIsTotal, PlaceFacts DEF SeqInv
    <3>4. ~ TwiceOpened
      <4> SUFFICES ASSUME TwiceOpened PROVE FALSE
        OBVIOUS
      <4>1. Total < Len(stream)
        BY <1>2, <2>1 DEF SeqInv, StreamOK
      <4> QED BY <4>1, <3>3
    <3>5. Copy(m, manifest[m].size)
      BY <2>1, <2>2 DEF SeqInv, FilesOK
    <3>6. starts[m] + manifest[m].size <= Len(stream)
      BY <3>3, PlaceFacts DEF SeqInv
    <3>7. manifest[m].size <= manifest[m].size
      BY <1>1
    <3>8. ucfgDir[manifest[m].name] = files[manifest[m].name]
      BY <3>4, <3>5, <3>6, <3>7, <1>1, CopyIsPrefix
    <3> QED BY <2>4, <3>1, <3>8
  <2>5. CASE ~ \E i \in DOMAIN paths : paths[i] = n
    <3>1. \A i \in 1 .. Len(manifest) : manifest[i].name # n
      BY <2>3, <2>5, <2>0, Zenon
    <3>2. ucfgDir[n] = Absent
      BY <3>1 DEF SeqInv, FilesOK
    <3> QED BY <2>5, <3>2
  <2> QED BY <2>4, <2>5
<1>3. ASSUME ~ Twice, NEW n \in Names, ucfgDir[n] # Absent
      PROVE  IsPrefix(ucfgDir[n], files[n])
  <2>1. PICK i \in 1 .. Len(manifest) :
          /\ manifest[i].name = n /\ Reading
          /\ ~ (i > Done /\ (stage \in {"copy", "failed"} => i # Done + 1))
    BY <1>3 DEF SeqInv, FilesOK
  <2>2. ~ TwiceOpened
    BY <1>3, <2>1, TwiceIsOpened DEF Reading
  <2>3. /\ Read \in Nat /\ Read <= Len(stream)
        /\ \A j \in 1 .. Done : j \in 1 .. Len(manifest) /\ starts[j] + manifest[j].size <= Read
    BY <2>1, ReadCovers
  <2>4. Len(stream) \in Nat /\ starts[i] \in Nat
    <3>1. i \in 1 .. Len(manifest) + 1
      BY <1>1
    <3> QED BY <3>1, PlaceFacts DEF SeqInv
  <2>5. CASE i \in 1 .. Done
    <3>1. Copy(i, manifest[i].size)
      BY <2>1, <2>5 DEF SeqInv, FilesOK
    <3>2. starts[i] + manifest[i].size <= Len(stream) /\ manifest[i].size <= manifest[i].size
      BY <2>3, <2>4, <2>5, <1>1
    <3> QED BY <3>1, <3>2, <2>1, <2>2, <1>1, CopyIsPrefix
  <2>6. CASE stage \in {"copy", "failed"} /\ i = Done + 1
    <3>1. left # <<>> /\ Len(written) <= Limit /\ Read = starts[i] + Len(written) /\ Copy(i, Len(written))
      BY <2>6 DEF SeqInv, FilesOK
    <3>2. Limit = manifest[i].size
      BY <3>1, <2>1, <2>6, HeadFacts DEF SeqInv
    <3>3. Len(written) \in Nat
      BY LenProperties DEF SeqInv, SeqTypeOK
    <3>4. Len(written) <= manifest[i].size /\ starts[i] + Len(written) <= Len(stream)
      BY <3>1, <3>2, <2>3
    <3> QED BY <3>1, <3>3, <3>4, <2>1, <2>2, CopyIsPrefix
  <2>7. Done \in Int /\ (i <= Done => i \in 1 .. Done)
    BY <1>1, LenProperties DEF SeqInv, SeqTypeOK, Done
  <2> QED BY <2>1, <2>5, <2>6, <2>7, <1>1
<1> QED BY <1>2, <1>3 DEF ExtractedRight

LEMMA RefusedIffCutFollows == SeqInv => RefusedIffCut
<1> SUFFICES ASSUME SeqInv PROVE RefusedIffCut
  OBVIOUS
<1>1. ASSUME ~ Twice, stage = "extracted", paths # <<>> PROVE ~ cut
  <2>1. opened = Len(paths) /\ ~ TwiceOpened
    BY <1>1, TwiceIsOpened DEF SeqInv, StreamOK
  <2>2. 1 \in 1 .. opened
    BY <2>1, <1>1, EmptySeq DEF SeqInv, SeqTypeOK
  <2>3. \E i \in 1 .. Len(manifest) : manifest[i].name = paths[1]
    BY <2>2 DEF SeqInv, ManifestOK
  <2>4. manifest # <<>>
    <3>1. Len(manifest) \in Nat /\ Len(manifest) # 0
      BY <2>3, PlaceFacts DEF SeqInv
    <3> QED BY <3>1, EmptySeq
  <2> QED BY <2>1, <2>4, <1>1, ExtractedIsTotal DEF SeqInv, StreamOK
<1>2. ASSUME ~ Twice, stage = "failed" PROVE cut
  BY <1>2, TwiceIsOpened DEF SeqInv, RefusedOK
<1> QED BY <1>1, <1>2 DEF RefusedIffCut

(* The UCFG files extracted from the cache are the ones that were written, *)
(* byte by byte, whatever their number and sizes, the buffer and the way   *)
(* the reads are split; a file that was given up is a prefix.              *)
THEOREM ExtractedIsRight == SeqSpec => []ExtractedRight
BY SeqInvariance, ExtractedRightFollows, PTL

(* A stream that lost or gained bytes is refused, and no other one is.     *)
THEOREM RefusedExactlyIfCut == SeqSpec => []RefusedIffCut
BY SeqInvariance, RefusedIffCutFollows, PTL

-----------------------------------------------------------------------------
(* Arithmetic.                                                             *)
LEMMA SmallestNat == \A S \in SUBSET Nat : S # {} => \E n \in S : \A m \in S : n <= m
<1> SUFFICES ASSUME NEW S \in SUBSET Nat, S # {} PROVE \E n \in S : \A m \in S : n <= m
  OBVIOUS
<1> DEFINE R == {p \in Nat \X Nat : p[1] < p[2]}
<1>1. IsWellFoundedOn(R, Nat)
  BY NatLessThanWellFounded DEF OpToRel
<1> HIDE DEF R
<1>2. PICK n \in S : \A m \in S : ~ (<<m, n>> \in R)
  BY <1>1, WFMin, Zenon
<1>3. \A m \in S : ~ (m < n)
  BY <1>2 DEF R
<1> QED BY <1>3

LEMMA SmallShift ==
  ASSUME NEW W \in Nat, NEW n \in Nat, n < W
  PROVE  n % W = n
OBVIOUS

LEMMA Multiples ==
  ASSUME NEW c \in Nat, c > 0
  PROVE  /\ \A k \in Nat : k * c \in Nat /\ (k + 1) * c = k * c + c /\ k <= k * c
         /\ \A k, m \in Nat : k <= m => k * c <= m * c
         /\ 0 * c = 0
OBVIOUS

(* Every bit is in some chunk.                                             *)
LEMMA InChunk ==
  ASSUME NEW c \in Nat, c > 0, NEW n \in Nat
  PROVE  \E k \in Nat, r \in 0 .. c - 1 : n = k * c + r
<1>1. PICK S : S = {m \in Nat : m * c > n}
  OBVIOUS
<1>2. S \in SUBSET Nat /\ n + 1 \in S
  BY <1>1, Multiples
<1>3. PICK m \in S : \A j \in S : m <= j
  BY <1>2, SmallestNat
<1>4. m \in Nat /\ m # 0
  BY <1>1, <1>2, <1>3, Multiples
<1>5. m - 1 \in Nat /\ m - 1 \notin S /\ (m - 1) + 1 = m
  BY <1>2, <1>3, <1>4
<1>6. PICK k \in Nat, x \in Nat : k = m - 1 /\ x = k * c
  BY <1>5, Multiples
<1>7. x <= n /\ n < x + c
  <2>1. m * c = x + c
    BY <1>5, <1>6, Multiples
  <2>2. ~ (x > n)
    BY <1>1, <1>5, <1>6
  <2> QED BY <2>1, <2>2, <1>1, <1>3
<1>8. n - x \in 0 .. c - 1 /\ n = x + (n - x)
  BY <1>7
<1> QED BY <1>6, <1>8

-----------------------------------------------------------------------------
(* writeInt().                                                             *)
LEMMA ChunkFacts == Width \in Nat /\ Chunk \in Nat /\ Chunk > 0 /\ Chunk < Width
BY CodecAssumption

LEMMA TurnsFacts ==
  ASSUME NEW int \in JavaInt
  PROVE  /\ Turns(int) \in 1 .. Width
         /\ Rest(int, Turns(int)) = {}
         /\ \A m \in 1 .. Turns(int) - 1 : Rest(int, m) # {}
<1>1. PICK S : S = {n \in 1 .. Width : Rest(int, n) = {}}
  OBVIOUS
<1>2. Width \in S
  <2>1. Width \in 1 .. Width
    BY ChunkFacts
  <2>2. Width * Chunk \in Nat /\ Width <= Width * Chunk
    BY ChunkFacts, Multiples
  <2>3. \A b \in 0 .. Width - 1 : b + Width * Chunk \notin 0 .. Width - 1
    BY <2>2, ChunkFacts
  <2>4. Rest(int, Width) = {}
    BY <2>3 DEF Rest, JavaInt
  <2> QED BY <2>1, <2>4, <1>1
<1>3. S \in SUBSET Nat
  BY <1>1, ChunkFacts
<1>4. PICK n \in S : \A m \in S : n <= m
  BY <1>2, <1>3, SmallestNat
<1>5. n \in 1 .. Width /\ Rest(int, n) = {}
  BY <1>1, <1>4
<1>6. \A m \in 1 .. n - 1 : m \in 1 .. Width /\ ~ (n <= m)
  BY <1>5, ChunkFacts
<1>7. \A m \in 1 .. n - 1 : Rest(int, m) # {}
  BY <1>1, <1>4, <1>6
<1>8. \E k \in 1 .. Width : ~ NextByte(Rest(int, k)) /\ \A m \in 1 .. k - 1 : NextByte(Rest(int, m))
  BY <1>5, <1>7 DEF NextByte
<1> QED BY <1>8 DEF Turns, NextByte

LEMMA WriteIntFacts ==
  ASSUME NEW int \in JavaInt
  PROVE  /\ WriteInt(int) \in Seq(Byte) /\ Len(WriteInt(int)) \in Nat /\ Len(WriteInt(int)) >= 1
         /\ DOMAIN WriteInt(int) = 1 .. Len(WriteInt(int))
         /\ \A k \in DOMAIN WriteInt(int) :
              /\ Chunk \in WriteInt(int)[k] <=> k # Len(WriteInt(int))
              /\ WriteInt(int)[k] \cap (0 .. Chunk - 1) = {b \in 0 .. Chunk - 1 : b + (k - 1) * Chunk \in int}
         /\ Chunk * (Len(WriteInt(int)) - 1) < Width
         /\ \A b \in int : b < Len(WriteInt(int)) * Chunk
<1>1. PICK w, n : w = WriteInt(int) /\ n = Turns(int)
  OBVIOUS
<1>2. n \in Nat /\ n >= 1 /\ Rest(int, n) = {} /\ \A m \in 1 .. n - 1 : Rest(int, m) # {}
  BY <1>1, TurnsFacts, ChunkFacts
<1>3. w = [k \in 1 .. n |-> (Rest(int, k - 1) \cap (0 .. Chunk - 1))
                              \cup (IF NextByte(Rest(int, k)) THEN {Chunk} ELSE {})]
  BY <1>1 DEF WriteInt
<1>4. \A k \in 1 .. n : Rest(int, k) # {} <=> k # n
  BY <1>2
<1>5. ASSUME NEW k \in 1 .. n
      PROVE  /\ w[k] \in Byte
             /\ Chunk \in w[k] <=> k # n
             /\ w[k] \cap (0 .. Chunk - 1) = {b \in 0 .. Chunk - 1 : b + (k - 1) * Chunk \in int}
  <2>1. w[k] = (Rest(int, k - 1) \cap (0 .. Chunk - 1)) \cup (IF k # n THEN {Chunk} ELSE {})
    BY <1>3, <1>4 DEF NextByte
  <2>2. Chunk \notin 0 .. Chunk - 1 /\ 0 .. Chunk - 1 \subseteq 0 .. Width - 1
        /\ 0 .. Chunk - 1 \subseteq 0 .. Chunk /\ Chunk \in 0 .. Chunk
    BY ChunkFacts
  <2> QED BY <2>1, <2>2 DEF Rest, Byte
<1>6. w \in Seq(Byte) /\ Len(w) = n /\ DOMAIN w = 1 .. n
  <2>1. w \in [1 .. n -> Byte]
    BY <1>3, <1>5
  <2> QED BY <2>1, <1>2
<1>7. Chunk * (n - 1) < Width
  <2>1. CASE n = 1
    BY <2>1, ChunkFacts
  <2>2. CASE n # 1
    <3>1. n - 1 \in 1 .. n - 1
      BY <2>2, <1>2
    <3>2. PICK b \in Rest(int, n - 1) : TRUE
      BY <3>1, <1>2
    <3>3. b \in 0 .. Width - 1 /\ b + (n - 1) * Chunk \in 0 .. Width - 1
      <4>1. b \in 0 .. Width - 1 /\ b + (n - 1) * Chunk \in int
        BY <3>2 DEF Rest
      <4> QED BY <4>1 DEF JavaInt
    <3>4. (n - 1) * Chunk \in Nat /\ (n - 1) * Chunk = Chunk * (n - 1)
      BY <1>2, ChunkFacts, Multiples
    <3> QED BY <3>3, <3>4, ChunkFacts
  <2> QED BY <2>1, <2>2
<1>8. ASSUME NEW b \in int PROVE b < n * Chunk
  <2> SUFFICES ASSUME ~ (b < n * Chunk) PROVE FALSE
    OBVIOUS
  <2>1. b \in 0 .. Width - 1 /\ n * Chunk \in Nat
    BY <1>2, ChunkFacts, Multiples DEF JavaInt
  <2>2. b - n * Chunk \in 0 .. Width - 1 /\ (b - n * Chunk) + n * Chunk = b
    BY <2>1, ChunkFacts
  <2>3. b - n * Chunk \in Rest(int, n)
    BY <2>2 DEF Rest
  <2> QED BY <2>3, <1>2
<1> QED BY <1>1, <1>2, <1>5, <1>6, <1>7, <1>8

-----------------------------------------------------------------------------
(* The bytes w stand in a stream after p others.                           *)
Stands(bytes, p, w) ==
  p + Len(w) <= Len(bytes) /\ \A k \in DOMAIN w : bytes[p + k] = w[k]

(* readInt() where writeInt() has written.                                 *)
LEMMA IntAgain ==
  ASSUME NEW int \in JavaInt, NEW bytes, NEW p \in Nat,
         \A k \in DOMAIN WriteInt(int) : bytes[p + k] = WriteInt(int)[k]
  PROVE  IntUpTo(bytes, p, p + Len(WriteInt(int))) = int
<1>1. PICK w, n : w = WriteInt(int) /\ n = Len(w)
  OBVIOUS
<1>2. /\ n \in Nat /\ n >= 1 /\ DOMAIN w = 1 .. n
      /\ \A k \in 1 .. n : w[k] \cap (0 .. Chunk - 1) = {b \in 0 .. Chunk - 1 : b + (k - 1) * Chunk \in int}
      /\ Chunk * (n - 1) < Width
      /\ \A b \in int : b < n * Chunk
  BY <1>1, WriteIntFacts
<1>3. ASSUME NEW k \in 1 .. n
      PROVE  ShiftLeft(bytes[p + k] \cap (0 .. Chunk - 1), (k - 1) * Chunk)
               = {x \in int : \E b \in 0 .. Chunk - 1 : x = b + (k - 1) * Chunk}
  <2>1. PICK s \in Nat : s = (k - 1) * Chunk
    BY <1>2, ChunkFacts, Multiples
  <2>2. s < Width
    <3>1. (k - 1) \in Nat /\ (n - 1) \in Nat /\ k - 1 <= n - 1
      BY <1>2
    <3>2. s <= (n - 1) * Chunk /\ (n - 1) * Chunk \in Nat
      BY <3>1, <2>1, ChunkFacts, Multiples
    <3>3. (n - 1) * Chunk = Chunk * (n - 1)
      BY <3>1, ChunkFacts
    <3> QED BY <3>2, <3>3, <1>2, ChunkFacts
  <2>3. s % Width = s
    BY <2>2, ChunkFacts, SmallShift
  <2>4. bytes[p + k] \cap (0 .. Chunk - 1) = {b \in 0 .. Chunk - 1 : b + s \in int}
    BY <1>1, <1>2, <2>1
  <2>5. int \subseteq 0 .. Width - 1
    BY DEF JavaInt
  <2> QED BY <2>1, <2>3, <2>4, <2>5 DEF ShiftLeft
<1>4. IntUpTo(bytes, p, p + n) =
        UNION {ShiftLeft(bytes[p + k] \cap (0 .. Chunk - 1), (k - 1) * Chunk) : k \in 1 .. n}
  <2>1. (p + n) - p = n
    BY <1>2
  <2> QED BY <2>1 DEF IntUpTo
<1>5. ASSUME NEW x \in IntUpTo(bytes, p, p + n) PROVE x \in int
  <2>1. PICK k \in 1 .. n : x \in ShiftLeft(bytes[p + k] \cap (0 .. Chunk - 1), (k - 1) * Chunk)
    BY <1>4
  <2> QED BY <2>1, <1>3
<1>6. ASSUME NEW x \in int PROVE x \in IntUpTo(bytes, p, p + n)
  <2>1. x \in Nat
    BY ChunkFacts DEF JavaInt
  <2>2. PICK j \in Nat, r \in 0 .. Chunk - 1 : x = j * Chunk + r
    BY <2>1, ChunkFacts, InChunk
  <2>3. j < n
    <3> SUFFICES ASSUME n <= j PROVE FALSE
      BY <1>2
    <3>1. n * Chunk <= j * Chunk /\ n * Chunk \in Nat /\ j * Chunk \in Nat
      BY <1>2, ChunkFacts, Multiples
    <3>2. x < n * Chunk
      BY <1>2
    <3> QED BY <3>1, <3>2, <2>2, ChunkFacts
  <2>4. PICK k \in 1 .. n : k - 1 = j
    <3>1. j + 1 \in 1 .. n /\ (j + 1) - 1 = j
      BY <2>3, <1>2
    <3> QED BY <3>1
  <2>5. x = r + (k - 1) * Chunk
    <3>1. j * Chunk \in Nat
      BY ChunkFacts, Multiples
    <3> QED BY <3>1, <2>2, <2>4, ChunkFacts
  <2>6. x \in ShiftLeft(bytes[p + k] \cap (0 .. Chunk - 1), (k - 1) * Chunk)
    BY <2>5, <1>3
  <2> QED BY <2>6, <1>4
<1> QED BY <1>1, <1>5, <1>6

(* A stream of which n bytes come back: the int does, or readByte() meets  *)
(* the end.                                                                *)
LEMMA ReadIntAgain ==
  ASSUME NEW int \in JavaInt, NEW full \in Seq(Byte), NEW n \in 0 .. Len(full), NEW p \in Nat,
         Stands(full, p, WriteInt(int))
  PROVE  ReadInt(SubSeq(full, 1, n), p) =
           IF p + Len(WriteInt(int)) <= n THEN Gives(int, p + Len(WriteInt(int))) ELSE Throws("io")
<1>1. PICK bytes, w, m : bytes = SubSeq(full, 1, n) /\ w = WriteInt(int) /\ m = Len(w)
  OBVIOUS
<1>2. n \in Nat /\ DOMAIN bytes = 1 .. n /\ \A i \in 1 .. n : bytes[i] = full[i]
  BY <1>1
<1>3. /\ m \in Nat /\ m >= 1 /\ DOMAIN w = 1 .. m
      /\ \A k \in 1 .. m : (Chunk \in w[k] <=> k # m) /\ full[p + k] = w[k]
  BY <1>1, WriteIntFacts DEF Stands
<1>4. \A q \in 1 .. n : p < q /\ q <= p + m => q - p \in 1 .. m /\ bytes[q] = w[q - p]
  <2> SUFFICES ASSUME NEW q \in 1 .. n, p < q, q <= p + m PROVE q - p \in 1 .. m /\ bytes[q] = w[q - p]
    OBVIOUS
  <2>1. q - p \in 1 .. m /\ p + (q - p) = q
    BY <1>3
  <2> QED BY <2>1, <1>2, <1>3
<1>5. \A q \in LastBytes(bytes, p) : q \in 1 .. n /\ q >= p + m
  <2> SUFFICES ASSUME NEW q \in LastBytes(bytes, p), ~ (q >= p + m) PROVE FALSE
    BY <1>2 DEF LastBytes
  <2>1. q \in 1 .. n /\ q > p /\ Chunk \notin bytes[q]
    BY <1>2 DEF LastBytes
  <2>2. q - p \in 1 .. m /\ bytes[q] = w[q - p] /\ q - p # m
    BY <2>1, <1>2, <1>3, <1>4
  <2> QED BY <2>1, <2>2, <1>3
<1>6. CASE p + m <= n
  <2>1. p + m \in LastBytes(bytes, p)
    <3>1. p + m \in 1 .. n /\ p + m > p /\ (p + m) - p = m
      BY <1>2, <1>3, <1>6
    <3>2. bytes[p + m] = w[m]
      BY <3>1, <1>3, <1>4
    <3> QED BY <3>1, <3>2, <1>2, <1>3 DEF LastBytes
  <2>2. PICK q : q = CHOOSE x \in LastBytes(bytes, p) : \A r \in LastBytes(bytes, p) : x <= r
    OBVIOUS
  <2>3. q \in LastBytes(bytes, p) /\ \A r \in LastBytes(bytes, p) : q <= r
    BY <2>1, <2>2, <1>5
  <2>4. q = p + m
    BY <2>1, <2>3, <1>2, <1>3, <1>5
  <2>5. \A k \in DOMAIN w : bytes[p + k] = w[k]
    <3>1. \A k \in 1 .. m : p + k \in 1 .. n
      BY <1>2, <1>3, <1>6
    <3> QED BY <3>1, <1>2, <1>3
  <2>6. IntUpTo(bytes, p, p + m) = int
    BY <2>5, <1>1, IntAgain
  <2>7. ReadInt(bytes, p) = Gives(IntUpTo(bytes, p, q), q)
    BY <2>1, <2>2 DEF ReadInt
  <2> QED BY <2>4, <2>6, <2>7, <1>1, <1>6
<1>7. CASE ~ (p + m <= n)
  <2>1. LastBytes(bytes, p) = {}
    BY <1>2, <1>3, <1>5, <1>7
  <2> QED BY <2>1, <1>1, <1>7 DEF ReadInt
<1> QED BY <1>6, <1>7

-----------------------------------------------------------------------------
(* Sizes, strings and tokens.                                              *)
LEMMA StandsConcat ==
  ASSUME NEW full \in Seq(Byte), NEW p \in Nat, NEW v \in Seq(Byte), NEW w \in Seq(Byte)
  PROVE  Stands(full, p, v \o w) <=> Stands(full, p, v) /\ Stands(full, p + Len(v), w)
<1>1. PICK c, m, n : c = v \o w /\ m = Len(v) /\ n = Len(w)
  OBVIOUS
<1>2. /\ m \in Nat /\ n \in Nat /\ DOMAIN v = 1 .. m /\ DOMAIN w = 1 .. n /\ DOMAIN c = 1 .. m + n
      /\ Len(c) = m + n
      /\ \A k \in 1 .. m : c[k] = v[k]
      /\ \A k \in 1 .. n : c[m + k] = w[k]
  BY <1>1
<1>3. Len(full) \in Nat
  OBVIOUS
<1>4. ASSUME Stands(full, p, c) PROVE Stands(full, p, v) /\ Stands(full, p + m, w)
  <2>1. p + (m + n) <= Len(full) /\ \A k \in 1 .. m + n : full[p + k] = c[k]
    BY <1>2, <1>4 DEF Stands
  <2>2. Stands(full, p, v)
    BY <2>1, <1>1, <1>2, <1>3 DEF Stands
  <2>3. \A k \in 1 .. n : m + k \in 1 .. m + n /\ p + (m + k) = (p + m) + k
    BY <1>2
  <2>4. \A k \in 1 .. n : full[(p + m) + k] = w[k]
    BY <2>1, <2>3, <1>2
  <2> QED BY <2>1, <2>2, <2>4, <1>1, <1>2, <1>3 DEF Stands
<1>5. ASSUME Stands(full, p, v), Stands(full, p + m, w) PROVE Stands(full, p, c)
  <2>1. /\ \A k \in 1 .. m : full[p + k] = v[k]
        /\ (p + m) + n <= Len(full) /\ \A k \in 1 .. n : full[(p + m) + k] = w[k]
    BY <1>1, <1>2, <1>5 DEF Stands
  <2>2. ASSUME NEW k \in 1 .. m + n PROVE full[p + k] = c[k]
    <3>1. CASE k <= m
      BY <3>1, <2>1, <1>2
    <3>2. CASE k > m
      <4>1. k - m \in 1 .. n /\ m + (k - m) = k /\ (p + m) + (k - m) = p + k
        BY <3>2, <1>2
      <4>2. full[(p + m) + (k - m)] = w[k - m]
        BY <4>1, <2>1
      <4>3. c[m + (k - m)] = w[k - m]
        BY <4>1, <1>2
      <4> QED BY <4>1, <4>2, <4>3
    <3> QED BY <3>1, <3>2, <1>2
  <2> QED BY <2>1, <2>2, <1>2 DEF Stands
<1> QED BY <1>1, <1>4, <1>5

LEMMA NumberFacts ==
  ASSUME NEW n \in Numbers
  PROVE  n \in Nat /\ Bits[n] \in JavaInt /\ ~ Negative(Bits[n]) /\ Number(Bits[n]) = n
<1>1. Bits[n] \subseteq 0 .. Width - 2 /\ n \in Nat /\ \A m \in Numbers : Bits[m] = Bits[n] => m = n
  BY CodecAssumption
<1>2. Width - 1 \notin 0 .. Width - 2 /\ 0 .. Width - 2 \subseteq 0 .. Width - 1
  BY ChunkFacts
<1> QED BY <1>1, <1>2 DEF JavaInt, Negative, Number

LEMMA ReadSizeAgain ==
  ASSUME NEW m \in Numbers, NEW full \in Seq(Byte), NEW n \in 0 .. Len(full), NEW p \in Nat,
         Stands(full, p, WriteInt(Bits[m]))
  PROVE  ReadSize(SubSeq(full, 1, n), p) =
           IF p + Len(WriteInt(Bits[m])) <= n THEN Gives(m, p + Len(WriteInt(Bits[m]))) ELSE Throws("io")
<1>1. Bits[m] \in JavaInt /\ ~ Negative(Bits[m]) /\ Number(Bits[m]) = m
  BY NumberFacts
<1>2. ReadInt(SubSeq(full, 1, n), p) =
        IF p + Len(WriteInt(Bits[m])) <= n THEN Gives(Bits[m], p + Len(WriteInt(Bits[m]))) ELSE Throws("io")
  BY <1>1, ReadIntAgain
<1> QED BY <1>1, <1>2 DEF ReadSize, Failed, Gives, Throws

(* What writeUTF() writes for the strings there are.                       *)
Strings == Images \cup {END, Null}

LEMMA StringFacts ==
  ASSUME NEW s \in Strings
  PROVE  /\ Utf(s) \in Seq(Byte) /\ Len(Utf(s)) \in Numbers /\ Len(Utf(s)) \in Nat
         /\ WriteInt(Bits[Len(Utf(s))]) \in Seq(Byte) /\ Len(WriteInt(Bits[Len(Utf(s))])) \in Nat
         /\ WriteUTF(s) \in Seq(Byte) /\ Len(WriteUTF(s)) \in Nat
         /\ Len(WriteUTF(s)) = Len(WriteInt(Bits[Len(Utf(s))])) + Len(Utf(s))
<1>1. 0 \in Numbers
  <2>1. MaxTokens \in Nat /\ 0 .. MaxTokens \subseteq Numbers
    BY CodecAssumption
  <2> QED BY <2>1
<1>2. Utf(s) \in Seq(Byte) /\ Len(Utf(s)) \in Numbers
  <2>1. CASE s = Null
    BY <2>1, <1>1 DEF Utf
  <2>2. CASE s # Null
    <3>1. s \in Images \cup {END}
      BY <2>2 DEF Strings
    <3> QED BY <3>1, <2>2, CodecAssumption DEF Utf
  <2> QED BY <2>1, <2>2
<1>3. WriteInt(Bits[Len(Utf(s))]) \in Seq(Byte) /\ Len(WriteInt(Bits[Len(Utf(s))])) \in Nat
  BY <1>2, NumberFacts, WriteIntFacts
<1> QED BY <1>2, <1>3 DEF WriteUTF

LEMMA ReadUTFAgain ==
  ASSUME NEW s \in Strings, NEW full \in Seq(Byte), NEW n \in 0 .. Len(full), NEW p \in Nat,
         Stands(full, p, WriteUTF(s))
  PROVE  ReadUTF(SubSeq(full, 1, n), p) =
           IF p + Len(WriteUTF(s)) <= n THEN Gives(Utf(s), p + Len(WriteUTF(s))) ELSE Throws("io")
<1>1. PICK u, m, w, bytes : /\ u = Utf(s) /\ m = Len(u) /\ w = WriteInt(Bits[m])
                            /\ bytes = SubSeq(full, 1, n)
  OBVIOUS
<1>2. /\ u \in Seq(Byte) /\ m \in Numbers /\ m \in Nat /\ w \in Seq(Byte) /\ Len(w) \in Nat
      /\ WriteUTF(s) = w \o u /\ Len(WriteUTF(s)) = Len(w) + m
  BY <1>1, StringFacts DEF WriteUTF
<1>3. Stands(full, p, w) /\ Stands(full, p + Len(w), u)
  BY <1>2, StandsConcat
<1>4. n \in Nat /\ bytes \in Seq(Byte) /\ Len(bytes) = n /\ \A i \in 1 .. n : bytes[i] = full[i]
  BY <1>1
<1>5. ReadSize(bytes, p) = IF p + Len(w) <= n THEN Gives(m, p + Len(w)) ELSE Throws("io")
  BY <1>1, <1>2, <1>3, ReadSizeAgain
<1>6. CASE ~ (p + Len(w) <= n)
  <2>1. ReadUTF(bytes, p) = Throws("io")
    BY <1>5, <1>6 DEF ReadUTF, Failed, Throws
  <2>2. ~ (p + (Len(w) + m) <= n)
    BY <1>2, <1>4, <1>6
  <2> QED BY <2>1, <2>2, <1>1, <1>2
<1>7. CASE p + Len(w) <= n
  <2>1. PICK q \in Nat : q = p + Len(w)
    BY <1>2
  <2>2. ReadSize(bytes, p) = Gives(m, q)
    BY <2>1, <1>5, <1>7
  <2>3. ReadUTF(bytes, p) = IF q + m > n THEN Throws("io") ELSE Gives(SubSeq(bytes, q + 1, q + m), q + m)
    BY <2>2, <1>4 DEF ReadUTF, Failed, Gives
  <2>4. p + Len(WriteUTF(s)) = q + m
    BY <2>1, <1>2
  <2>5. ASSUME q + m <= n PROVE SubSeq(bytes, q + 1, q + m) = u
    <3>1. PICK x : x = SubSeq(bytes, q + 1, q + m)
      OBVIOUS
    <3>2. x \in Seq(Byte) /\ Len(x) = m /\ \A k \in 1 .. m : x[k] = bytes[q + k]
      <4>1. q + 1 \in Nat /\ q + m \in Nat /\ (q + m) - (q + 1) + 1 = m /\ q + 1 <= (q + m) + 1
        BY <2>1, <1>2
      <4>2. \A i \in q + 1 .. q + m : i \in 1 .. n
        BY <2>5, <1>2, <1>4
      <4>3. x = [i \in 1 .. (q + m) - (q + 1) + 1 |-> bytes[i + (q + 1) - 1]]
        BY <3>1, <4>1
      <4>4. x = [i \in 1 .. m |-> bytes[q + i]]
        <5>1. \A i \in 1 .. m : i + (q + 1) - 1 = q + i
          BY <1>2
        <5> QED BY <4>1, <4>3, <5>1
      <4>5. \A i \in 1 .. m : q + i \in 1 .. n /\ bytes[q + i] \in Byte
        BY <2>5, <1>2, <1>4
      <4>6. x \in [1 .. m -> Byte]
        BY <4>4, <4>5
      <4>7. x \in Seq(Byte) /\ Len(x) = m
        BY <4>6, <1>2
      <4>8. \A k \in 1 .. m : x[k] = bytes[q + k]
        BY <4>4
      <4> QED BY <4>7, <4>8
    <3>3. \A k \in 1 .. m : bytes[q + k] = u[k]
      <4>1. \A k \in 1 .. m : q + k \in 1 .. n
        BY <2>1, <2>5, <1>2, <1>4
      <4>2. \A k \in 1 .. m : full[q + k] = u[k]
        <5>1. Stands(full, q, u) /\ DOMAIN u = 1 .. m
          BY <2>1, <1>1, <1>2, <1>3
        <5> QED BY <5>1 DEF Stands
      <4> QED BY <4>1, <4>2, <1>4
    <3>4. x = u
      BY <3>2, <3>3, <1>1, <1>2, SeqEqual
    <3> QED BY <3>1, <3>4
  <2>6. CASE q + m <= n
    <3>1. ~ (q + m > n)
      BY <2>6, <1>2, <1>4
    <3>2. ReadUTF(bytes, p) = Gives(u, q + m)
      BY <3>1, <2>3, <2>5, <2>6
    <3> QED BY <3>2, <2>4, <2>6, <1>1
  <2>7. CASE ~ (q + m <= n)
    BY <2>3, <2>4, <2>7, <1>1, <1>2, <1>4
  <2> QED BY <2>6, <2>7
<1> QED BY <1>6, <1>7

LEMMA TokenFacts ==
  ASSUME NEW l \in Locations, NEW x \in Numbers
  PROVE  /\ l \in [1 .. 4 -> JavaInt] /\ Bits[x] \in JavaInt
         /\ TokenBytes(l, x) \in Seq(Byte) /\ Len(TokenBytes(l, x)) \in Nat
         /\ Len(TokenBytes(l, x)) = Len(WriteInt(l[1])) + Len(WriteInt(l[2])) + Len(WriteInt(l[3]))
                                    + Len(WriteInt(l[4])) + Len(WriteInt(Bits[x]))
<1>1. l \in [1 .. 4 -> JavaInt] /\ Bits[x] \in JavaInt
  BY CodecAssumption, NumberFacts
<1>2. l[1] \in JavaInt /\ l[2] \in JavaInt /\ l[3] \in JavaInt /\ l[4] \in JavaInt
  BY <1>1
<1>3. \A int \in JavaInt : WriteInt(int) \in Seq(Byte) /\ Len(WriteInt(int)) \in Nat
  BY WriteIntFacts
<1>4. PICK a, b, c, d, e \in Seq(Byte) :
        /\ a = WriteInt(l[1]) /\ b = WriteInt(l[2]) /\ c = WriteInt(l[3]) /\ d = WriteInt(l[4])
        /\ e = WriteInt(Bits[x])
  BY <1>1, <1>2, <1>3
<1>5. a \o b \o c \o d \o e \in Seq(Byte)
      /\ Len(a \o b \o c \o d \o e) = Len(a) + Len(b) + Len(c) + Len(d) + Len(e)
  OBVIOUS
<1> QED BY <1>1, <1>4, <1>5 DEF TokenBytes

LEMMA ReadTokenAgain ==
  ASSUME NEW l \in Locations, NEW x \in Numbers, x < Len(strings), NEW full \in Seq(Byte),
         NEW n \in 0 .. Len(full), NEW p \in Nat, Stands(full, p, TokenBytes(l, x)), Len(strings) \in Nat
  PROVE  ReadCpdToken(SubSeq(full, 1, n), p) =
           IF p + Len(TokenBytes(l, x)) <= n
           THEN Gives([location |-> l, image |-> strings[x + 1]], p + Len(TokenBytes(l, x)))
           ELSE Throws("io")
<1>1. /\ l \in [1 .. 4 -> JavaInt] /\ Bits[x] \in JavaInt /\ ~ Negative(Bits[x]) /\ Number(Bits[x]) = x
      /\ x \in Nat
  BY TokenFacts, NumberFacts
<1>2. l[1] \in JavaInt /\ l[2] \in JavaInt /\ l[3] \in JavaInt /\ l[4] \in JavaInt
  BY <1>1
<1>3. \A int \in JavaInt : WriteInt(int) \in Seq(Byte) /\ Len(WriteInt(int)) \in Nat
  BY WriteIntFacts
<1>4. PICK a, b, c, d, e \in Seq(Byte) :
        /\ a = WriteInt(l[1]) /\ b = WriteInt(l[2]) /\ c = WriteInt(l[3]) /\ d = WriteInt(l[4])
        /\ e = WriteInt(Bits[x])
  BY <1>1, <1>2, <1>3
<1>5. /\ a \o b \in Seq(Byte) /\ a \o b \o c \in Seq(Byte) /\ a \o b \o c \o d \in Seq(Byte)
      /\ Len(a \o b) = Len(a) + Len(b)
      /\ Len(a \o b \o c) = Len(a) + Len(b) + Len(c)
      /\ Len(a \o b \o c \o d) = Len(a) + Len(b) + Len(c) + Len(d)
      /\ Len(a) \in Nat /\ Len(b) \in Nat /\ Len(c) \in Nat /\ Len(d) \in Nat /\ Len(e) \in Nat
  OBVIOUS
<1>61. PICK p1 \in Nat : p1 = p + Len(a)
  BY <1>5
<1>62. PICK p2 \in Nat : p2 = p1 + Len(b)
  BY <1>5
<1>63. PICK p3 \in Nat : p3 = p2 + Len(c)
  BY <1>5
<1>64. PICK p4 \in Nat : p4 = p3 + Len(d)
  BY <1>5
<1>65. PICK p5 \in Nat : p5 = p4 + Len(e)
  BY <1>5
<1>6. p1 = p + Len(a) /\ p2 = p1 + Len(b) /\ p3 = p2 + Len(c) /\ p4 = p3 + Len(d) /\ p5 = p4 + Len(e)
  BY <1>61, <1>62, <1>63, <1>64, <1>65
<1>7. /\ Stands(full, p, a) /\ Stands(full, p1, b) /\ Stands(full, p2, c) /\ Stands(full, p3, d)
      /\ Stands(full, p4, e)
  <2>1. Stands(full, p, a \o b \o c \o d \o e)
    BY <1>4 DEF TokenBytes
  <2>2. Stands(full, p, a \o b \o c \o d) /\ Stands(full, p + Len(a \o b \o c \o d), e)
    BY <2>1, <1>5, StandsConcat
  <2>3. Stands(full, p, a \o b \o c) /\ Stands(full, p + Len(a \o b \o c), d)
    BY <2>2, <1>5, StandsConcat
  <2>4. Stands(full, p, a \o b) /\ Stands(full, p + Len(a \o b), c)
    BY <2>3, <1>5, StandsConcat
  <2>5. Stands(full, p, a) /\ Stands(full, p + Len(a), b)
    BY <2>4, StandsConcat
  <2>6. /\ p + Len(a) = p1 /\ p + Len(a \o b) = p2 /\ p + Len(a \o b \o c) = p3
        /\ p + Len(a \o b \o c \o d) = p4
    BY <1>5, <1>6
  <2> QED BY <2>2, <2>3, <2>4, <2>5, <2>6
<1>8. PICK bytes : bytes = SubSeq(full, 1, n)
  OBVIOUS
<1>9. /\ ReadInt(bytes, p) = IF p1 <= n THEN Gives(l[1], p1) ELSE Throws("io")
      /\ ReadInt(bytes, p1) = IF p2 <= n THEN Gives(l[2], p2) ELSE Throws("io")
      /\ ReadInt(bytes, p2) = IF p3 <= n THEN Gives(l[3], p3) ELSE Throws("io")
      /\ ReadInt(bytes, p3) = IF p4 <= n THEN Gives(l[4], p4) ELSE Throws("io")
      /\ ReadInt(bytes, p4) = IF p5 <= n THEN Gives(Bits[x], p5) ELSE Throws("io")
  <2>0. \A int \in JavaInt, q \in Nat :
          Stands(full, q, WriteInt(int)) =>
            ReadInt(bytes, q) = IF q + Len(WriteInt(int)) <= n THEN Gives(int, q + Len(WriteInt(int)))
                                ELSE Throws("io")
    BY <1>8, ReadIntAgain
  <2>1. ReadInt(bytes, p) = IF p1 <= n THEN Gives(l[1], p1) ELSE Throws("io")
    BY <2>0, <1>2, <1>4, <1>6, <1>7
  <2>2. ReadInt(bytes, p1) = IF p2 <= n THEN Gives(l[2], p2) ELSE Throws("io")
    BY <2>0, <1>2, <1>4, <1>6, <1>7
  <2>3. ReadInt(bytes, p2) = IF p3 <= n THEN Gives(l[3], p3) ELSE Throws("io")
    BY <2>0, <1>2, <1>4, <1>6, <1>7
  <2>4. ReadInt(bytes, p3) = IF p4 <= n THEN Gives(l[4], p4) ELSE Throws("io")
    BY <2>0, <1>2, <1>4, <1>6, <1>7
  <2>5. ReadInt(bytes, p4) = IF p5 <= n THEN Gives(Bits[x], p5) ELSE Throws("io")
    BY <2>0, <1>1, <1>4, <1>6, <1>7
  <2> QED BY <2>1, <2>2, <2>3, <2>4, <2>5
<1>10. p + Len(TokenBytes(l, x)) = p5
  <2>1. Len(TokenBytes(l, x)) = Len(a) + Len(b) + Len(c) + Len(d) + Len(e)
    BY <1>4, TokenFacts
  <2> QED BY <2>1, <1>5, <1>6
<1>11. p1 <= p2 /\ p2 <= p3 /\ p3 <= p4 /\ p4 <= p5 /\ n \in Nat
  <2>0. \A j, k \in Nat : j <= j + k
    OBVIOUS
  <2>1. p1 <= p2 /\ p2 <= p3
    BY <2>0, <1>5, <1>62, <1>63
  <2>2. p3 <= p4 /\ p4 <= p5
    BY <2>0, <1>5, <1>64, <1>65
  <2>3. n \in Nat
    OBVIOUS
  <2> QED BY <2>1, <2>2, <2>3
<1>12. CASE p5 <= n
  <2>1. p1 <= n /\ p2 <= n /\ p3 <= n /\ p4 <= n
    BY <1>11, <1>12
  <2>2. /\ ReadInt(bytes, p) = Gives(l[1], p1) /\ ReadInt(bytes, p1) = Gives(l[2], p2)
        /\ ReadInt(bytes, p2) = Gives(l[3], p3) /\ ReadInt(bytes, p3) = Gives(l[4], p4)
        /\ ReadInt(bytes, p4) = Gives(Bits[x], p5)
    BY <2>1, <1>9, <1>12
  <2>3. l = <<l[1], l[2], l[3], l[4]>>
    BY <1>1
  <2>4. ~ (x >= Len(strings))
    BY <1>1
  <2>5. ReadCpdToken(bytes, p) = Gives([location |-> <<l[1], l[2], l[3], l[4]>>, image |-> strings[x + 1]], p5)
    <3> DEFINE r1 == ReadInt(bytes, p)
               r2 == ReadInt(bytes, r1.next)
               r3 == ReadInt(bytes, r2.next)
               r4 == ReadInt(bytes, r3.next)
               r5 == ReadInt(bytes, r4.next)
    <3>6. ReadCpdToken(bytes, p) =
            IF \E read \in {r1, r2, r3, r4, r5} : Failed(read) THEN Throws("io")
            ELSE IF Negative(r5.value) \/ Number(r5.value) >= Len(strings) THEN Throws("runtime")
            ELSE Gives([location |-> <<r1.value, r2.value, r3.value, r4.value>>,
                        image |-> strings[Number(r5.value) + 1]], r5.next)
      BY DEF ReadCpdToken
    <3> HIDE DEF r1, r2, r3, r4, r5
    <3>1. r1.error = "none" /\ r1.value = l[1] /\ r1.next = p1
      <4>1. r1 = Gives(l[1], p1)
        BY <2>2 DEF r1
      <4> QED BY <4>1 DEF Gives
    <3>2. r2.error = "none" /\ r2.value = l[2] /\ r2.next = p2
      <4>1. r2 = Gives(l[2], p2)
        BY <2>2, <3>1 DEF r2
      <4> QED BY <4>1 DEF Gives
    <3>3. r3.error = "none" /\ r3.value = l[3] /\ r3.next = p3
      <4>1. r3 = Gives(l[3], p3)
        BY <2>2, <3>2 DEF r3
      <4> QED BY <4>1 DEF Gives
    <3>4. r4.error = "none" /\ r4.value = l[4] /\ r4.next = p4
      <4>1. r4 = Gives(l[4], p4)
        BY <2>2, <3>3 DEF r4
      <4> QED BY <4>1 DEF Gives
    <3>5. r5.error = "none" /\ r5.value = Bits[x] /\ r5.next = p5
      <4>1. r5 = Gives(Bits[x], p5)
        BY <2>2, <3>4 DEF r5
      <4> QED BY <4>1 DEF Gives
    <3>7. ~ \E read \in {r1, r2, r3, r4, r5} : Failed(read)
      BY <3>1, <3>2, <3>3, <3>4, <3>5 DEF Failed
    <3>8. ~ (Negative(r5.value) \/ Number(r5.value) >= Len(strings))
      BY <3>5, <2>4, <1>1
    <3>9. ReadCpdToken(bytes, p) = Gives([location |-> <<r1.value, r2.value, r3.value, r4.value>>,
                                          image |-> strings[Number(r5.value) + 1]], r5.next)
      BY <3>6, <3>7, <3>8
    <3> QED BY <3>1, <3>2, <3>3, <3>4, <3>5, <3>9, <1>1
  <2> QED BY <2>3, <2>5, <1>8, <1>10, <1>12
<1>13. CASE ~ (p5 <= n)
  <2>1. ReadCpdToken(bytes, p) = Throws("io")
    <3>1. CASE ~ (p1 <= n)
      BY <3>1, <1>9 DEF ReadCpdToken, Failed, Throws
    <3>2. CASE p1 <= n /\ ~ (p2 <= n)
      BY <3>2, <1>9 DEF ReadCpdToken, Failed, Throws, Gives
    <3>3. CASE p1 <= n /\ p2 <= n /\ ~ (p3 <= n)
      BY <3>3, <1>9 DEF ReadCpdToken, Failed, Throws, Gives
    <3>4. CASE p1 <= n /\ p2 <= n /\ p3 <= n /\ ~ (p4 <= n)
      BY <3>4, <1>9 DEF ReadCpdToken, Failed, Throws, Gives
    <3>5. CASE p1 <= n /\ p2 <= n /\ p3 <= n /\ p4 <= n
      BY <3>5, <1>9, <1>13 DEF ReadCpdToken, Failed, Throws, Gives
    <3> QED BY <3>1, <3>2, <3>3, <3>4, <3>5
  <2> QED BY <2>1, <1>8, <1>10, <1>13
<1> QED BY <1>12, <1>13

-----------------------------------------------------------------------------
(* What stands in a stream that is written item by item.                   *)
LEMMA StandsMore ==
  ASSUME NEW full \in Seq(Byte), NEW more \in Seq(Byte), NEW p \in Nat, NEW w \in Seq(Byte),
         Stands(full, p, w)
  PROVE  Stands(full \o more, p, w)
<1>1. PICK long, m : long = full \o more /\ m = Len(full)
  OBVIOUS
<1>2. m \in Nat /\ Len(long) \in Nat /\ m <= Len(long) /\ \A k \in 1 .. m : long[k] = full[k]
  BY <1>1
<1>3. Len(w) \in Nat /\ DOMAIN w = 1 .. Len(w)
  OBVIOUS
<1>4. p + Len(w) <= m /\ \A k \in 1 .. Len(w) : full[p + k] = w[k]
  BY <1>1, <1>3 DEF Stands
<1>5. \A k \in 1 .. Len(w) : p + k \in 1 .. m
  BY <1>2, <1>3, <1>4
<1>6. \A k \in 1 .. Len(w) : long[p + k] = w[k]
  BY <1>2, <1>4, <1>5
<1>7. p + Len(w) <= Len(long)
  BY <1>2, <1>3, <1>4
<1> QED BY <1>1, <1>3, <1>6, <1>7 DEF Stands

LEMMA StandsLast ==
  ASSUME NEW full \in Seq(Byte), NEW w \in Seq(Byte)
  PROVE  /\ full \o w \in Seq(Byte) /\ Len(full \o w) \in Nat /\ Len(full \o w) = Len(full) + Len(w)
         /\ Stands(full \o w, Len(full), w)
<1>1. PICK long, m, n : long = full \o w /\ m = Len(full) /\ n = Len(w)
  OBVIOUS
<1>2. /\ long \in Seq(Byte) /\ m \in Nat /\ n \in Nat /\ Len(long) = m + n /\ DOMAIN w = 1 .. n
      /\ \A k \in 1 .. n : long[m + k] = w[k]
  BY <1>1
<1>3. m + n <= Len(long)
  BY <1>2
<1>4. Stands(long, m, w)
  BY <1>1, <1>2, <1>3 DEF Stands
<1> QED BY <1>1, <1>2, <1>4

(* The head and then n items, the i-th after s[i] bytes.                   *)
Laid(bytes, head, items, n, s) ==
  /\ Stands(bytes, 0, head)
  /\ items \in [1 .. n -> Seq(Byte)]
  /\ s \in [1 .. n + 1 -> Nat] /\ s[1] = Len(head)
  /\ \A i \in 1 .. n : Stands(bytes, s[i], items[i]) /\ s[i + 1] = s[i] + Len(items[i])

LEMMA LaidMore ==
  ASSUME NEW bytes \in Seq(Byte), NEW more \in Seq(Byte), NEW head \in Seq(Byte), NEW items, NEW n \in Nat,
         NEW s, Laid(bytes, head, items, n, s)
  PROVE  Laid(bytes \o more, head, items, n, s)
<1>1. \A i \in 1 .. n : s[i] \in Nat /\ items[i] \in Seq(Byte)
  BY DEF Laid
<1>2. \A i \in 1 .. n : Stands(bytes \o more, s[i], items[i])
  BY <1>1, StandsMore DEF Laid
<1>3. Stands(bytes \o more, 0, head)
  BY StandsMore DEF Laid
<1> QED BY <1>2, <1>3 DEF Laid

(* One item more than these, the last in the stream.                       *)
OneMore(bytes, head, items, n, w) ==
  \E items2, s2 :
    /\ Laid(bytes, head, items2, n + 1, s2) /\ s2[n + 2] = Len(bytes)
    /\ items2[n + 1] = w /\ \A i \in 1 .. n : items2[i] = items[i]

LEMMA LaidNext ==
  ASSUME NEW bytes \in Seq(Byte), NEW w \in Seq(Byte), NEW head \in Seq(Byte), NEW items, NEW n \in Nat,
         NEW s, Laid(bytes, head, items, n, s), s[n + 1] = Len(bytes)
  PROVE  OneMore(bytes \o w, head, items, n, w)
<1>1. PICK items2, s2 : /\ items2 = [i \in 1 .. n + 1 |-> IF i = n + 1 THEN w ELSE items[i]]
                        /\ s2 = [i \in 1 .. n + 2 |-> IF i = n + 2 THEN Len(bytes \o w) ELSE s[i]]
  OBVIOUS
<1>2. Laid(bytes \o w, head, items, n, s)
  BY LaidMore
<1>3. /\ \A i \in 1 .. n : items2[i] = items[i] /\ i \in 1 .. n + 1
      /\ items2[n + 1] = w
      /\ \A i \in 1 .. n + 1 : s2[i] = s[i]
      /\ s2[n + 2] = Len(bytes \o w)
  BY <1>1
<1>4. items2 \in [1 .. n + 1 -> Seq(Byte)]
  <2>1. \A i \in 1 .. n + 1 : i # n + 1 => i \in 1 .. n
    OBVIOUS
  <2>2. \A i \in 1 .. n : items[i] \in Seq(Byte)
    BY DEF Laid
  <2> QED BY <2>1, <2>2, <1>1
<1>5. s2 \in [1 .. (n + 1) + 1 -> Nat]
  <2>1. \A i \in 1 .. n + 2 : i # n + 2 => i \in 1 .. n + 1
    OBVIOUS
  <2>2. \A i \in 1 .. n + 1 : s[i] \in Nat
    BY DEF Laid
  <2>3. (n + 1) + 1 = n + 2
    OBVIOUS
  <2> QED BY <2>1, <2>2, <2>3, <1>1, StandsLast
<1>6. s2[1] = Len(head)
  BY <1>3 DEF Laid
<1>7. ASSUME NEW i \in 1 .. n + 1
      PROVE  Stands(bytes \o w, s2[i], items2[i]) /\ s2[i + 1] = s2[i] + Len(items2[i])
  <2>1. CASE i = n + 1
    <3>1. i + 1 = n + 2 /\ n + 1 \in 1 .. n + 1
      BY <2>1
    <3>2. items2[i] = w /\ s2[i] = Len(bytes) /\ s2[i + 1] = Len(bytes \o w)
      BY <2>1, <3>1, <1>3
    <3> QED BY <3>2, StandsLast
  <2>2. CASE i # n + 1
    <3>1. i \in 1 .. n /\ i + 1 \in 1 .. n + 1
      BY <2>2
    <3>2. items2[i] = items[i] /\ s2[i] = s[i] /\ s2[i + 1] = s[i + 1]
      BY <3>1, <1>3
    <3> QED BY <3>1, <3>2, <1>2 DEF Laid
  <2> QED BY <2>1, <2>2
<1>8. Laid(bytes \o w, head, items2, n + 1, s2)
  BY <1>2, <1>4, <1>5, <1>6, <1>7 DEF Laid
<1> QED BY <1>3, <1>8 DEF OneMore

(* The bytes of a token whose string is in the list.                       *)
IsToken(list, token, w) ==
  \E x \in 0 .. Len(list) - 1 : list[x + 1] = token.image /\ w = TokenBytes(token.location, x)

DataWritten(toks, bytes, list, n, s) ==
  \E items : /\ Laid(bytes, WriteInt(Bits[Len(toks)]), items, n, s)
             /\ \A i \in 1 .. n : IsToken(list, toks[i], items[i])

TableWritten(list, bytes, n, s) ==
  \E items : /\ Laid(bytes, WriteInt(Bits[Len(list)]), items, n, s)
             /\ \A i \in 1 .. n : items[i] = WriteUTF(list[i])

(* END stands last.                                                        *)
Ended(bytes, p) == Stands(bytes, p, WriteUTF(END)) /\ Len(bytes) = p + Len(WriteUTF(END))

(* All is written, and the item after the first k stands after p bytes.    *)
DataAt(toks, bytes, list, k, p) ==
  \E s : DataWritten(toks, bytes, list, Len(toks), s) /\ Ended(bytes, s[Len(toks) + 1]) /\ p = s[k + 1]
TableAt(list, bytes, k, p) ==
  \E s : TableWritten(list, bytes, Len(list), s) /\ Ended(bytes, s[Len(list) + 1]) /\ p = s[k + 1]

LEMMA SizeFacts ==
  ASSUME NEW n \in Numbers
  PROVE  WriteInt(Bits[n]) \in Seq(Byte) /\ Len(WriteInt(Bits[n])) \in Nat
<1>1. Bits[n] \in JavaInt
  BY NumberFacts
<1> QED BY <1>1, WriteIntFacts

LEMMA DataAtFacts ==
  ASSUME NEW toks, NEW bytes, NEW list, NEW k, NEW p, Len(toks) \in Nat, k \in 0 .. Len(toks),
         DataAt(toks, bytes, list, k, p)
  PROVE  /\ p \in Nat
         /\ Stands(bytes, 0, WriteInt(Bits[Len(toks)]))
         /\ DataAt(toks, bytes, list, 0, Len(WriteInt(Bits[Len(toks)])))
         /\ k < Len(toks) =>
              \E x \in 0 .. Len(list) - 1 :
                LET w == TokenBytes(toks[k + 1].location, x)
                IN  list[x + 1] = toks[k + 1].image /\ Stands(bytes, p, w)
                    /\ DataAt(toks, bytes, list, k + 1, p + Len(w))
         /\ k = Len(toks) => Ended(bytes, p)
<1>1. PICK s : DataWritten(toks, bytes, list, Len(toks), s) /\ Ended(bytes, s[Len(toks) + 1]) /\ p = s[k + 1]
  BY DEF DataAt
<1>2. PICK items : /\ Laid(bytes, WriteInt(Bits[Len(toks)]), items, Len(toks), s)
                   /\ \A i \in 1 .. Len(toks) : IsToken(list, toks[i], items[i])
  BY <1>1 DEF DataWritten
<1>3. p \in Nat
  <2>1. k + 1 \in 1 .. Len(toks) + 1
    OBVIOUS
  <2> QED BY <2>1, <1>1, <1>2 DEF Laid
<1>4. Stands(bytes, 0, WriteInt(Bits[Len(toks)])) /\ s[0 + 1] = Len(WriteInt(Bits[Len(toks)]))
  BY <1>2 DEF Laid
<1>5. DataAt(toks, bytes, list, 0, Len(WriteInt(Bits[Len(toks)])))
  BY <1>1, <1>4 DEF DataAt
<1>6. ASSUME k < Len(toks)
      PROVE  \E x \in 0 .. Len(list) - 1 :
               LET w == TokenBytes(toks[k + 1].location, x)
               IN  list[x + 1] = toks[k + 1].image /\ Stands(bytes, p, w)
                   /\ DataAt(toks, bytes, list, k + 1, p + Len(w))
  <2>1. k + 1 \in 1 .. Len(toks)
    BY <1>6
  <2>2. PICK x \in 0 .. Len(list) - 1 :
          list[x + 1] = toks[k + 1].image /\ items[k + 1] = TokenBytes(toks[k + 1].location, x)
    BY <2>1, <1>2 DEF IsToken
  <2>3. /\ Stands(bytes, p, TokenBytes(toks[k + 1].location, x))
        /\ s[(k + 1) + 1] = p + Len(TokenBytes(toks[k + 1].location, x))
    BY <2>1, <2>2, <1>1, <1>2 DEF Laid
  <2>4. DataAt(toks, bytes, list, k + 1, p + Len(TokenBytes(toks[k + 1].location, x)))
    BY <2>3, <1>1 DEF DataAt
  <2> QED BY <2>2, <2>3, <2>4
<1> QED BY <1>1, <1>3, <1>4, <1>5, <1>6

LEMMA TableAtFacts ==
  ASSUME NEW list, NEW bytes, NEW k, NEW p, Len(list) \in Nat, k \in 0 .. Len(list),
         TableAt(list, bytes, k, p)
  PROVE  /\ p \in Nat
         /\ Stands(bytes, 0, WriteInt(Bits[Len(list)]))
         /\ TableAt(list, bytes, 0, Len(WriteInt(Bits[Len(list)])))
         /\ k < Len(list) =>
              Stands(bytes, p, WriteUTF(list[k + 1])) /\ TableAt(list, bytes, k + 1, p + Len(WriteUTF(list[k + 1])))
         /\ k = Len(list) => Ended(bytes, p)
<1>1. PICK s : TableWritten(list, bytes, Len(list), s) /\ Ended(bytes, s[Len(list) + 1]) /\ p = s[k + 1]
  BY DEF TableAt
<1>2. PICK items : /\ Laid(bytes, WriteInt(Bits[Len(list)]), items, Len(list), s)
                   /\ \A i \in 1 .. Len(list) : items[i] = WriteUTF(list[i])
  BY <1>1 DEF TableWritten
<1>3. p \in Nat
  <2>1. k + 1 \in 1 .. Len(list) + 1
    OBVIOUS
  <2> QED BY <2>1, <1>1, <1>2 DEF Laid
<1>4. Stands(bytes, 0, WriteInt(Bits[Len(list)])) /\ s[0 + 1] = Len(WriteInt(Bits[Len(list)]))
  BY <1>2 DEF Laid
<1>5. TableAt(list, bytes, 0, Len(WriteInt(Bits[Len(list)])))
  BY <1>1, <1>4 DEF TableAt
<1>6. ASSUME k < Len(list)
      PROVE  Stands(bytes, p, WriteUTF(list[k + 1])) /\ TableAt(list, bytes, k + 1, p + Len(WriteUTF(list[k + 1])))
  <2>1. k + 1 \in 1 .. Len(list)
    BY <1>6
  <2>2. Stands(bytes, p, WriteUTF(list[k + 1])) /\ s[(k + 1) + 1] = p + Len(WriteUTF(list[k + 1]))
    BY <2>1, <1>1, <1>2 DEF Laid
  <2> QED BY <2>2, <1>1 DEF TableAt
<1> QED BY <1>1, <1>3, <1>4, <1>5, <1>6

-----------------------------------------------------------------------------
(* The invariant.                                                          *)
CodecWrites == {"new", "tokens", "strings", "stored"}
CodecReads == {"table", "read strings", "data", "read tokens", "read", "io"}

CodecTypes ==
  /\ tokens \in Seq(Tokens) /\ Len(tokens) \in Numbers
  /\ data \in Seq(Byte) /\ table \in Seq(Byte)
  /\ byIndex \in Seq(Images \cup {Null}) /\ Len(byIndex) \in Numbers
  /\ count \in Nat
  /\ pc \in CodecWrites \cup CodecReads
  /\ pc \in CodecReads => kept.data \in 0 .. Len(data) /\ kept.table \in 0 .. Len(table)

(* What is written so far.                                                 *)
CodecWritten ==
  /\ pc = "new" => byIndex = <<>> /\ count = 0
  /\ pc = "tokens" =>
       /\ count <= Len(tokens) /\ Len(byIndex) <= count
       /\ \E s : DataWritten(tokens, data, byIndex, count, s) /\ s[count + 1] = Len(data)
  /\ pc \notin {"new", "tokens"} => DataAt(tokens, data, byIndex, 0, Len(WriteInt(Bits[Len(tokens)])))
  /\ pc = "strings" =>
       /\ count <= Len(byIndex)
       /\ \E s : TableWritten(byIndex, table, count, s) /\ s[count + 1] = Len(table)
  /\ pc \in CodecReads \cup {"stored"} => TableAt(byIndex, table, 0, Len(WriteInt(Bits[Len(byIndex)])))

(* What is read so far is a prefix of it.                                  *)
Back(token) == [location |-> token.location, image |-> Utf(token.image)]

CodecRead ==
  /\ pc \in CodecWrites \cup {"table"} => strings = <<>>
  /\ pc = "read strings" =>
       /\ size = Len(byIndex)
       /\ \E n \in 0 .. Len(byIndex) :
            strings = [i \in 1 .. n |-> Utf(byIndex[i])] /\ TableAt(byIndex, table, n, at)
  /\ pc \in {"data", "read tokens", "read"} =>
       strings = [i \in 1 .. Len(byIndex) |-> Utf(byIndex[i])] /\ kept.table = Len(table)
  /\ pc \in CodecWrites \cup {"table", "read strings", "data"} => cpdTokens = <<>>
  /\ pc = "read tokens" =>
       /\ size = Len(tokens)
       /\ \E n \in 0 .. Len(tokens) :
            cpdTokens = [i \in 1 .. n |-> Back(tokens[i])] /\ DataAt(tokens, data, byIndex, n, at)
  /\ pc = "read" =>
       cpdTokens = [i \in 1 .. Len(tokens) |-> Back(tokens[i])] /\ kept.data = Len(data)
  /\ pc = "io" => Lost

CodecInv == CodecTypes /\ CodecWritten /\ CodecRead

LEMMA CodecInitInv == CodecInit => CodecInv
<1> SUFFICES ASSUME CodecInit PROVE CodecInv
  OBVIOUS
<1>1. PICK n \in 0 .. MaxTokens : tokens \in [1 .. n -> Tokens]
  BY DEF CodecInit
<1>2. n \in Nat /\ n \in Numbers /\ 0 \in Numbers
  <2>1. MaxTokens \in Nat /\ 0 .. MaxTokens \subseteq Numbers
    BY CodecAssumption
  <2> QED BY <2>1
<1>3. tokens \in Seq(Tokens) /\ Len(tokens) = n
  BY <1>1, <1>2
<1>4. CodecTypes
  BY <1>2, <1>3 DEF CodecInit, CodecTypes, CodecWrites, CodecReads
<1>5. CodecWritten
  BY DEF CodecInit, CodecWritten, CodecReads
<1>6. CodecRead
  BY DEF CodecInit, CodecRead
<1> QED BY <1>4, <1>5, <1>6 DEF CodecInv

(* getIndex(): no string moves, and the index is that of the string.       *)
LEMMA WithStringFacts ==
  ASSUME NEW list \in Seq(Images \cup {Null}), NEW s \in Images \cup {Null},
         NEW longer, longer = WithString(list, s)
  PROVE  /\ longer \in Seq(Images \cup {Null}) /\ Len(longer) \in Nat
         /\ Len(list) <= Len(longer) /\ Len(longer) <= Len(list) + 1
         /\ \A i \in 1 .. Len(list) : longer[i] = list[i]
         /\ IndexOf(longer, s) \in 0 .. Len(longer) - 1
         /\ longer[IndexOf(longer, s) + 1] = s
<1>1. longer = WithString(list, s)
  OBVIOUS
<1>2. /\ longer \in Seq(Images \cup {Null}) /\ Len(longer) \in Nat /\ Len(list) <= Len(longer) /\ Len(longer) <= Len(list) + 1
      /\ \A i \in 1 .. Len(list) : longer[i] = list[i]
  BY <1>1 DEF WithString
<1>3. \E i \in DOMAIN longer : longer[i] = s
  <2>1. CASE \E i \in DOMAIN list : list[i] = s
    BY <2>1, <1>1 DEF WithString
  <2>2. CASE ~ \E i \in DOMAIN list : list[i] = s
    <3>1. longer = Append(list, s)
      BY <2>2, <1>1 DEF WithString
    <3>2. Len(list) + 1 \in DOMAIN longer /\ longer[Len(list) + 1] = s
      BY <3>1
    <3> QED BY <3>2
  <2> QED BY <2>1, <2>2
<1>4. PICK i : i = CHOOSE k \in DOMAIN longer : longer[k] = s
  OBVIOUS
<1>5. i \in 1 .. Len(longer) /\ longer[i] = s
  BY <1>2, <1>3, <1>4
<1>6. i - 1 \in 0 .. Len(longer) - 1 /\ (i - 1) + 1 = i /\ IndexOf(longer, s) = i - 1
  BY <1>2, <1>4, <1>5 DEF IndexOf
<1> QED BY <1>1, <1>2, <1>5, <1>6

LEMMA CodecWriteTokenCount ==
  ASSUME CodecInv, WriteTokenCount
  PROVE  CodecInv'
<1> USE DEF CodecInv
<1>1. PICK head : head = WriteInt(Bits[Len(tokens)])
  OBVIOUS
<1>2. head \in Seq(Byte) /\ Len(head) \in Nat
  BY <1>1, SizeFacts DEF CodecTypes
<1>3. /\ pc = "new" /\ pc' = "tokens" /\ data' = head /\ tokens' = tokens /\ table' = table
      /\ byIndex' = byIndex /\ count' = count /\ strings' = strings /\ cpdTokens' = cpdTokens
      /\ byIndex = <<>> /\ count = 0
  BY <1>1 DEF WriteTokenCount, readVars, CodecWritten
<1>4. CodecTypes'
  BY <1>2, <1>3 DEF CodecTypes, CodecWrites, CodecReads
<1>5. PICK s, items : s = [i \in 1 .. 1 |-> Len(head)] /\ items = [i \in 1 .. 0 |-> head]
  OBVIOUS
<1>6. Laid(head, head, items, 0, s)
  <2>1. Stands(head, 0, head)
    BY <1>2 DEF Stands
  <2>2. items \in [1 .. 0 -> Seq(Byte)] /\ 1 .. 0 = {}
    BY <1>5
  <2>3. s \in [1 .. 0 + 1 -> Nat] /\ s[1] = Len(head)
    BY <1>2, <1>5
  <2> QED BY <2>1, <2>2, <2>3 DEF Laid
<1>7. DataWritten(tokens, head, byIndex, 0, s) /\ s[0 + 1] = Len(head)
  BY <1>1, <1>5, <1>6 DEF DataWritten
<1>8. 0 <= Len(tokens) /\ Len(<<>>) <= 0
  BY DEF CodecTypes
<1>9. CodecWritten'
  BY <1>3, <1>7, <1>8 DEF CodecWritten, CodecReads
<1>10. CodecRead'
  BY <1>3 DEF CodecRead, CodecWrites
<1> QED BY <1>4, <1>9, <1>10

LEMMA CodecWriteToken ==
  ASSUME CodecInv, WriteToken
  PROVE  CodecInv'
<1> USE DEF CodecInv
<1>1. PICK token, w : /\ token = tokens[count + 1]
                      /\ w = TokenBytes(token.location, IndexOf(byIndex', token.image))
  OBVIOUS
<1>2. /\ pc = "tokens" /\ pc' = "tokens" /\ count < Len(tokens) /\ count' = count + 1
      /\ tokens' = tokens /\ table' = table /\ strings' = strings /\ cpdTokens' = cpdTokens
      /\ byIndex' = WithString(byIndex, token.image) /\ data' = data \o w
  BY <1>1 DEF WriteToken, readVars
<1>3. count \in Nat /\ Len(tokens) \in Nat /\ count + 1 \in 1 .. Len(tokens) /\ token \in Tokens
  BY <1>1, <1>2 DEF CodecTypes
<1>4. token.location \in Locations /\ token.image \in Images \cup {Null}
  BY <1>3 DEF Tokens
<1>5. /\ byIndex' \in Seq(Images \cup {Null}) /\ Len(byIndex') \in Nat /\ Len(byIndex') <= Len(byIndex) + 1
      /\ Len(byIndex) <= Len(byIndex') /\ \A i \in 1 .. Len(byIndex) : byIndex'[i] = byIndex[i]
      /\ IndexOf(byIndex', token.image) \in 0 .. Len(byIndex') - 1
      /\ byIndex'[IndexOf(byIndex', token.image) + 1] = token.image
  <2>1. byIndex \in Seq(Images \cup {Null})
    BY DEF CodecTypes
  <2>2. token.image \in Images \cup {Null} /\ byIndex' = WithString(byIndex, token.image)
    BY <1>2, <1>4
  <2> QED BY <2>1, <2>2, WithStringFacts
<1>6. count <= Len(tokens) /\ Len(byIndex) <= count /\ Len(byIndex) \in Nat
  BY <1>2 DEF CodecWritten, CodecTypes
<1>7. Len(byIndex') <= count' /\ count' <= Len(tokens)
  BY <1>2, <1>3, <1>5, <1>6
<1>8. \A m \in 0 .. Len(tokens) : m \in Numbers
  BY CodecAssumption DEF CodecTypes
<1>9. Len(byIndex') \in Numbers /\ IndexOf(byIndex', token.image) \in Numbers
  <2>1. Len(byIndex') \in 0 .. Len(tokens) /\ IndexOf(byIndex', token.image) \in 0 .. Len(tokens)
    BY <1>2, <1>3, <1>5, <1>7
  <2> QED BY <2>1, <1>8
<1>10. w \in Seq(Byte) /\ data' \in Seq(Byte)
  <2>1. w \in Seq(Byte)
    BY <1>1, <1>4, <1>9, TokenFacts
  <2> QED BY <2>1, <1>2, StandsLast DEF CodecTypes
<1>11. CodecTypes'
  BY <1>2, <1>3, <1>5, <1>9, <1>10 DEF CodecTypes, CodecWrites, CodecReads
<1>12. PICK s : DataWritten(tokens, data, byIndex, count, s) /\ s[count + 1] = Len(data)
  BY <1>2 DEF CodecWritten
<1>13. PICK items : /\ Laid(data, WriteInt(Bits[Len(tokens)]), items, count, s)
                    /\ \A i \in 1 .. count : IsToken(byIndex, tokens[i], items[i])
  BY <1>12 DEF DataWritten
<1>14. PICK items2, s2 :
         /\ Laid(data \o w, WriteInt(Bits[Len(tokens)]), items2, count + 1, s2)
         /\ s2[count + 2] = Len(data \o w)
         /\ items2[count + 1] = w /\ \A i \in 1 .. count : items2[i] = items[i]
  <2>1. WriteInt(Bits[Len(tokens)]) \in Seq(Byte) /\ data \in Seq(Byte)
    BY SizeFacts DEF CodecTypes
  <2>2. w \in Seq(Byte) /\ count \in Nat /\ s[count + 1] = Len(data)
    BY <1>3, <1>10, <1>12
  <2>3. Laid(data, WriteInt(Bits[Len(tokens)]), items, count, s)
    BY <1>13
  <2>4. OneMore(data \o w, WriteInt(Bits[Len(tokens)]), items, count, w)
    BY <2>1, <2>2, <2>3, LaidNext
  <2> QED BY <2>4 DEF OneMore
<1>15. IsToken(byIndex', tokens[count + 1], items2[count + 1])
  BY <1>1, <1>5, <1>14 DEF IsToken
<1>16. ASSUME NEW i \in 1 .. count PROVE IsToken(byIndex', tokens[i], items2[i])
  <2>1. PICK x \in 0 .. Len(byIndex) - 1 : byIndex[x + 1] = tokens[i].image /\ items[i] = TokenBytes(tokens[i].location, x)
    BY <1>13 DEF IsToken
  <2>2. x \in 0 .. Len(byIndex') - 1 /\ x + 1 \in 1 .. Len(byIndex)
    BY <1>5, <1>6
  <2>3. byIndex'[x + 1] = tokens[i].image /\ items2[i] = TokenBytes(tokens[i].location, x)
    BY <2>1, <2>2, <1>5, <1>14
  <2> QED BY <2>2, <2>3 DEF IsToken
<1>17. \A i \in 1 .. count + 1 : IsToken(byIndex', tokens[i], items2[i])
  <2>1. \A i \in 1 .. count + 1 : i = count + 1 \/ i \in 1 .. count
    BY <1>3
  <2> QED BY <2>1, <1>15, <1>16
<1>18. DataWritten(tokens, data', byIndex', count + 1, s2) /\ s2[(count + 1) + 1] = Len(data')
  <2>1. (count + 1) + 1 = count + 2
    BY <1>3
  <2> QED BY <2>1, <1>2, <1>14, <1>17 DEF DataWritten
<1>19. CodecWritten'
  BY <1>2, <1>7, <1>18 DEF CodecWritten, CodecReads
<1>20. CodecRead'
  BY <1>2 DEF CodecRead, CodecWrites
<1> QED BY <1>11, <1>19, <1>20

LEMMA EndFacts ==
  ASSUME NEW bytes \in Seq(Byte)
  PROVE  /\ WriteUTF(END) \in Seq(Byte) /\ bytes \o WriteUTF(END) \in Seq(Byte)
         /\ Ended(bytes \o WriteUTF(END), Len(bytes)) /\ Utf(END) = END
<1>1. END \in Strings /\ END # Null
  BY CodecAssumption DEF Strings
<1>2. WriteUTF(END) \in Seq(Byte)
  BY <1>1, StringFacts
<1> QED BY <1>1, <1>2, StandsLast DEF Ended, Utf

LEMMA CodecEndData ==
  ASSUME CodecInv, EndData
  PROVE  CodecInv'
<1> USE DEF CodecInv
<1>1. /\ pc = "tokens" /\ pc' = "strings" /\ count = Len(tokens) /\ count' = 0 /\ tokens' = tokens
      /\ byIndex' = byIndex /\ strings' = strings /\ cpdTokens' = cpdTokens
      /\ data' = data \o WriteUTF(END) /\ table' = WriteInt(Bits[Len(byIndex)])
  BY DEF EndData, readVars
<1>2. /\ data \in Seq(Byte) /\ Len(tokens) \in Numbers /\ Len(tokens) \in Nat /\ Len(byIndex) \in Numbers
      /\ Len(byIndex) \in Nat
  BY DEF CodecTypes
<1>3. /\ data' \in Seq(Byte) /\ WriteUTF(END) \in Seq(Byte) /\ Ended(data', Len(data))
      /\ table' \in Seq(Byte) /\ Len(table') \in Nat
  BY <1>1, <1>2, EndFacts, SizeFacts
<1>4. CodecTypes'
  BY <1>1, <1>3 DEF CodecTypes, CodecWrites, CodecReads
<1>5. PICK s : DataWritten(tokens, data, byIndex, Len(tokens), s) /\ s[Len(tokens) + 1] = Len(data)
  BY <1>1 DEF CodecWritten
<1>6. PICK items : /\ Laid(data, WriteInt(Bits[Len(tokens)]), items, Len(tokens), s)
                   /\ \A i \in 1 .. Len(tokens) : IsToken(byIndex, tokens[i], items[i])
  BY <1>5 DEF DataWritten
<1>7. Laid(data', WriteInt(Bits[Len(tokens)]), items, Len(tokens), s)
  BY <1>1, <1>2, <1>3, <1>6, LaidMore, SizeFacts
<1>8. DataWritten(tokens, data', byIndex, Len(tokens), s)
  BY <1>6, <1>7 DEF DataWritten
<1>9. s[0 + 1] = Len(WriteInt(Bits[Len(tokens)]))
  BY <1>6 DEF Laid
<1>10. DataAt(tokens, data', byIndex, 0, Len(WriteInt(Bits[Len(tokens)])))
  BY <1>3, <1>5, <1>8, <1>9 DEF DataAt
<1>11. PICK t, none : t = [i \in 1 .. 1 |-> Len(table')] /\ none = [i \in 1 .. 0 |-> table']
  OBVIOUS
<1>12. Laid(table', table', none, 0, t)
  <2>1. Stands(table', 0, table')
    BY <1>3 DEF Stands
  <2>2. none \in [1 .. 0 -> Seq(Byte)] /\ 1 .. 0 = {}
    BY <1>11
  <2>3. t \in [1 .. 0 + 1 -> Nat] /\ t[1] = Len(table')
    BY <1>3, <1>11
  <2> QED BY <2>1, <2>2, <2>3 DEF Laid
<1>13. TableWritten(byIndex, table', 0, t) /\ t[0 + 1] = Len(table')
  BY <1>1, <1>11, <1>12 DEF TableWritten
<1>14. CodecWritten'
  BY <1>1, <1>2, <1>10, <1>13 DEF CodecWritten, CodecReads
<1>15. CodecRead'
  BY <1>1 DEF CodecRead, CodecWrites
<1> QED BY <1>4, <1>14, <1>15

LEMMA CodecWriteString ==
  ASSUME CodecInv, WriteString
  PROVE  CodecInv'
<1> USE DEF CodecInv
<1>1. PICK w : w = WriteUTF(byIndex[count + 1])
  OBVIOUS
<1>2. /\ pc = "strings" /\ pc' = "strings" /\ count < Len(byIndex) /\ count' = count + 1
      /\ tokens' = tokens /\ data' = data /\ byIndex' = byIndex /\ strings' = strings
      /\ cpdTokens' = cpdTokens /\ table' = table \o w
  BY <1>1 DEF WriteString, readVars
<1>3. count \in Nat /\ Len(byIndex) \in Nat /\ Len(byIndex) \in Numbers /\ count + 1 \in 1 .. Len(byIndex)
      /\ table \in Seq(Byte)
  BY <1>2 DEF CodecTypes
<1>4. w \in Seq(Byte) /\ table' \in Seq(Byte)
  <2>1. byIndex[count + 1] \in Strings
    BY <1>3 DEF CodecTypes, Strings
  <2>2. w \in Seq(Byte)
    BY <2>1, <1>1, StringFacts
  <2> QED BY <2>2, <1>2, <1>3, StandsLast
<1>5. CodecTypes'
  BY <1>2, <1>3, <1>4 DEF CodecTypes, CodecWrites, CodecReads
<1>6. PICK s : TableWritten(byIndex, table, count, s) /\ s[count + 1] = Len(table)
  BY <1>2 DEF CodecWritten
<1>7. PICK items : /\ Laid(table, WriteInt(Bits[Len(byIndex)]), items, count, s)
                   /\ \A i \in 1 .. count : items[i] = WriteUTF(byIndex[i])
  BY <1>6 DEF TableWritten
<1>8. OneMore(table \o w, WriteInt(Bits[Len(byIndex)]), items, count, w)
  <2>1. WriteInt(Bits[Len(byIndex)]) \in Seq(Byte)
    BY <1>3, SizeFacts
  <2> QED BY <2>1, <1>3, <1>4, <1>6, <1>7, LaidNext
<1>9. PICK items2, s2 :
        /\ Laid(table \o w, WriteInt(Bits[Len(byIndex)]), items2, count + 1, s2)
        /\ s2[count + 2] = Len(table \o w)
        /\ items2[count + 1] = w /\ \A i \in 1 .. count : items2[i] = items[i]
  BY <1>8 DEF OneMore
<1>10. \A i \in 1 .. count + 1 : items2[i] = WriteUTF(byIndex[i])
  <2>1. \A i \in 1 .. count + 1 : i = count + 1 \/ i \in 1 .. count
    BY <1>3
  <2> QED BY <2>1, <1>1, <1>7, <1>9
<1>11. TableWritten(byIndex, table', count + 1, s2) /\ s2[(count + 1) + 1] = Len(table')
  <2>1. (count + 1) + 1 = count + 2
    BY <1>3
  <2> QED BY <2>1, <1>2, <1>9, <1>10 DEF TableWritten
<1>12. count + 1 <= Len(byIndex)
  BY <1>3
<1>13. CodecWritten'
  BY <1>2, <1>11, <1>12 DEF CodecWritten, CodecReads
<1>14. CodecRead'
  BY <1>2 DEF CodecRead, CodecWrites
<1> QED BY <1>5, <1>13, <1>14

LEMMA CodecEndTable ==
  ASSUME CodecInv, EndTable
  PROVE  CodecInv'
<1> USE DEF CodecInv
<1>1. /\ pc = "strings" /\ pc' = "stored" /\ count = Len(byIndex) /\ count' = count /\ tokens' = tokens
      /\ data' = data /\ byIndex' = byIndex /\ strings' = strings /\ cpdTokens' = cpdTokens
      /\ table' = table \o WriteUTF(END)
  BY DEF EndTable, readVars
<1>2. table \in Seq(Byte) /\ Len(byIndex) \in Numbers /\ Len(byIndex) \in Nat
  BY DEF CodecTypes
<1>3. table' \in Seq(Byte) /\ WriteUTF(END) \in Seq(Byte) /\ Ended(table', Len(table))
  BY <1>1, <1>2, EndFacts
<1>4. CodecTypes'
  BY <1>1, <1>3 DEF CodecTypes, CodecWrites, CodecReads
<1>5. PICK s : TableWritten(byIndex, table, Len(byIndex), s) /\ s[Len(byIndex) + 1] = Len(table)
  BY <1>1 DEF CodecWritten
<1>6. PICK items : /\ Laid(table, WriteInt(Bits[Len(byIndex)]), items, Len(byIndex), s)
                   /\ \A i \in 1 .. Len(byIndex) : items[i] = WriteUTF(byIndex[i])
  BY <1>5 DEF TableWritten
<1>7. Laid(table', WriteInt(Bits[Len(byIndex)]), items, Len(byIndex), s)
  BY <1>1, <1>2, <1>3, <1>6, LaidMore, SizeFacts
<1>8. TableWritten(byIndex, table', Len(byIndex), s)
  BY <1>6, <1>7 DEF TableWritten
<1>9. s[0 + 1] = Len(WriteInt(Bits[Len(byIndex)]))
  BY <1>6 DEF Laid
<1>10. TableAt(byIndex, table', 0, Len(WriteInt(Bits[Len(byIndex)])))
  BY <1>3, <1>5, <1>8, <1>9 DEF TableAt
<1>11. CodecWritten'
  BY <1>1, <1>10 DEF CodecWritten
<1>12. CodecRead'
  BY <1>1 DEF CodecRead, CodecWrites
<1> QED BY <1>4, <1>11, <1>12

LEMMA CodecFetch ==
  ASSUME CodecInv, Fetch
  PROVE  CodecInv'
<1> USE DEF CodecInv
<1>1. /\ pc = "stored" /\ pc' = "table" /\ count' = count /\ tokens' = tokens
      /\ data' = data /\ table' = table /\ byIndex' = byIndex /\ strings' = strings /\ cpdTokens' = cpdTokens
      /\ kept' \in [data: 0 .. Len(data), table: 0 .. Len(table)]
  BY DEF Fetch, readVars, writeVars
<1>2. kept'.data \in 0 .. Len(data) /\ kept'.table \in 0 .. Len(table)
  BY <1>1
<1>3. CodecTypes'
  BY <1>1, <1>2 DEF CodecTypes, CodecWrites, CodecReads
<1>4. CodecWritten'
  BY <1>1 DEF CodecWritten, CodecReads
<1>5. CodecRead'
  BY <1>1 DEF CodecRead, CodecWrites
<1> QED BY <1>3, <1>4, <1>5

(* Reading changes nothing that was written.                               *)
LEMMA CodecReadOnly ==
  ASSUME CodecInv, pc \in CodecReads, pc' \in CodecReads, UNCHANGED <<tokens, writeVars, kept>>
  PROVE  CodecTypes' /\ CodecWritten'
<1>1. /\ tokens' = tokens /\ data' = data /\ table' = table /\ byIndex' = byIndex /\ count' = count
      /\ kept' = kept
  BY DEF writeVars
<1>2. CodecTypes'
  BY <1>1 DEF CodecInv, CodecTypes
<1>3. CodecWritten'
  BY <1>1 DEF CodecInv, CodecWritten, CodecReads
<1> QED BY <1>2, <1>3

LEMMA CodecTypeFacts ==
  ASSUME CodecInv, pc \in CodecReads
  PROVE  /\ data \in Seq(Byte) /\ kept.data \in 0 .. Len(data)
         /\ table \in Seq(Byte) /\ kept.table \in 0 .. Len(table)
         /\ tokens \in Seq(Tokens) /\ Len(tokens) \in Numbers /\ Len(tokens) \in Nat
         /\ byIndex \in Seq(Images \cup {Null}) /\ Len(byIndex) \in Numbers /\ Len(byIndex) \in Nat
BY DEF CodecInv, CodecTypes

(* A list that is a function of the first n indices, and one item more.    *)
Longer(f, n, v) == [i \in 1 .. n + 1 |-> IF i = n + 1 THEN v ELSE f[i]]

LEMMA ListOf ==
  ASSUME NEW S, NEW n \in Nat, NEW f \in [1 .. n -> S], NEW v \in S
  PROVE  Append(f, v) = Longer(f, n, v)
<1>1. f \in Seq(S) /\ Len(f) = n
  OBVIOUS
<1>2. PICK g, h : g = Append(f, v) /\ h = [i \in 1 .. n + 1 |-> IF i = n + 1 THEN v ELSE f[i]]
  OBVIOUS
<1>3. h \in [1 .. n + 1 -> S]
  <2>1. \A i \in 1 .. n + 1 : i # n + 1 => i \in 1 .. n
    OBVIOUS
  <2> QED BY <2>1, <1>2
<1>4. g \in Seq(S) /\ Len(g) = n + 1 /\ h \in Seq(S) /\ Len(h) = n + 1
  BY <1>1, <1>2, <1>3
<1>5. \A i \in 1 .. n + 1 : g[i] = h[i]
  BY <1>1, <1>2
<1>6. g = h
  BY <1>4, <1>5, SeqEqual
<1> QED BY <1>2, <1>6 DEF Longer

LEMMA ReadFacts ==
  /\ \A v, p : ~ Failed(Gives(v, p)) /\ Gives(v, p).value = v /\ Gives(v, p).next = p
  /\ Failed(Throws("io")) /\ Throws("io").error = "io"
BY DEF Failed, Gives, Throws

LEMMA CodecOpenTable ==
  ASSUME CodecInv, OpenTable
  PROVE  CodecInv'
<1> USE DEF CodecInv
<1>1. PICK read, head : read = ReadSize(TableRead, 0) /\ head = WriteInt(Bits[Len(byIndex)])
  OBVIOUS
<1>2. /\ pc = "table" /\ tokens' = tokens /\ data' = data /\ table' = table /\ byIndex' = byIndex
      /\ kept' = kept /\ strings' = strings /\ cpdTokens' = cpdTokens
      /\ UNCHANGED <<tokens, writeVars, kept>>
      /\ IF Failed(read) THEN pc' = read.error
         ELSE pc' = "read strings" /\ size' = read.value /\ at' = read.next
  BY <1>1 DEF OpenTable, Open, writeVars
<1>3. /\ table \in Seq(Byte) /\ kept.table \in 0 .. Len(table) /\ Len(byIndex) \in Numbers /\ Len(byIndex) \in Nat
      /\ strings = <<>> /\ cpdTokens = <<>> /\ TableAt(byIndex, table, 0, Len(head))
  <2>1. /\ table \in Seq(Byte) /\ kept.table \in 0 .. Len(table) /\ Len(byIndex) \in Numbers
        /\ Len(byIndex) \in Nat
    <3>1. pc \in CodecReads
      BY <1>2 DEF CodecReads
    <3> QED BY <3>1, CodecTypeFacts
  <2>2. strings = <<>> /\ cpdTokens = <<>>
    BY <1>2 DEF CodecRead
  <2>3. TableAt(byIndex, table, 0, Len(head))
    BY <1>1, <1>2 DEF CodecWritten, CodecReads
  <2> QED BY <2>1, <2>2, <2>3
<1>4. Stands(table, 0, head) /\ Len(head) \in Nat
  BY <1>1, <1>3, TableAtFacts, SizeFacts
<1>5. read = IF 0 + Len(head) <= kept.table THEN Gives(Len(byIndex), 0 + Len(head)) ELSE Throws("io")
  BY <1>1, <1>3, <1>4, ReadSizeAgain DEF TableRead
<1>6. CASE 0 + Len(head) <= kept.table
  <2>1. pc' = "read strings" /\ size' = Len(byIndex) /\ at' = Len(head)
    <3>1. 0 + Len(head) = Len(head)
      BY <1>4
    <3>2. read = Gives(Len(byIndex), Len(head))
      BY <3>1, <1>5, <1>6
    <3> QED BY <3>2, <1>2, ReadFacts
  <2>2. 0 \in 0 .. Len(byIndex) /\ strings = [i \in 1 .. 0 |-> Utf(byIndex[i])]
    BY <1>3
  <2>3. CodecRead'
    BY <2>1, <2>2, <1>2, <1>3 DEF CodecRead, CodecWrites
  <2> QED BY <2>1, <2>3, <1>2, CodecReadOnly DEF CodecReads
<1>7. CASE ~ (0 + Len(head) <= kept.table)
  <2>1. pc' = "io"
    BY <1>2, <1>5, <1>7, ReadFacts
  <2>2. Len(head) <= Len(table)
    BY <1>3, <1>4 DEF Stands
  <2>3. kept.table < Len(table)
    BY <2>2, <1>3, <1>4, <1>7
  <2>4. CodecRead'
    BY <2>1, <2>3, <1>2 DEF CodecRead, CodecWrites, Lost
  <2> QED BY <2>1, <2>4, <1>2, CodecReadOnly DEF CodecReads
<1> QED BY <1>6, <1>7

LEMMA CodecOpenData ==
  ASSUME CodecInv, OpenData
  PROVE  CodecInv'
<1> USE DEF CodecInv
<1>1. PICK read, head : read = ReadSize(DataRead, 0) /\ head = WriteInt(Bits[Len(tokens)])
  OBVIOUS
<1>2. /\ pc = "data" /\ tokens' = tokens /\ data' = data /\ table' = table /\ byIndex' = byIndex
      /\ kept' = kept /\ strings' = strings /\ cpdTokens' = cpdTokens
      /\ UNCHANGED <<tokens, writeVars, kept>>
      /\ IF Failed(read) THEN pc' = read.error
         ELSE pc' = "read tokens" /\ size' = read.value /\ at' = read.next
  BY <1>1 DEF OpenData, Open, writeVars
<1>3. /\ data \in Seq(Byte) /\ kept.data \in 0 .. Len(data) /\ Len(tokens) \in Numbers /\ Len(tokens) \in Nat
      /\ strings = [i \in 1 .. Len(byIndex) |-> Utf(byIndex[i])] /\ kept.table = Len(table)
      /\ cpdTokens = <<>> /\ DataAt(tokens, data, byIndex, 0, Len(head))
  <2>1. /\ data \in Seq(Byte) /\ kept.data \in 0 .. Len(data) /\ Len(tokens) \in Numbers
        /\ Len(tokens) \in Nat
    <3>1. pc \in CodecReads
      BY <1>2 DEF CodecReads
    <3> QED BY <3>1, CodecTypeFacts
  <2>2. /\ strings = [i \in 1 .. Len(byIndex) |-> Utf(byIndex[i])] /\ kept.table = Len(table)
        /\ cpdTokens = <<>>
    BY <1>2 DEF CodecRead
  <2>3. DataAt(tokens, data, byIndex, 0, Len(head))
    BY <1>1, <1>2 DEF CodecWritten
  <2> QED BY <2>1, <2>2, <2>3
<1>4. Stands(data, 0, head) /\ Len(head) \in Nat
  BY <1>1, <1>3, DataAtFacts, SizeFacts
<1>5. read = IF 0 + Len(head) <= kept.data THEN Gives(Len(tokens), 0 + Len(head)) ELSE Throws("io")
  BY <1>1, <1>3, <1>4, ReadSizeAgain DEF DataRead
<1>6. CASE 0 + Len(head) <= kept.data
  <2>1. pc' = "read tokens" /\ size' = Len(tokens) /\ at' = Len(head)
    <3>1. 0 + Len(head) = Len(head)
      BY <1>4
    <3>2. read = Gives(Len(tokens), Len(head))
      BY <3>1, <1>5, <1>6
    <3> QED BY <3>2, <1>2, ReadFacts
  <2>2. 0 \in 0 .. Len(tokens) /\ cpdTokens = [i \in 1 .. 0 |-> Back(tokens[i])]
    BY <1>3
  <2>3. CodecRead'
    BY <2>1, <2>2, <1>2, <1>3 DEF CodecRead, CodecWrites
  <2> QED BY <2>1, <2>3, <1>2, CodecReadOnly DEF CodecReads
<1>7. CASE ~ (0 + Len(head) <= kept.data)
  <2>1. pc' = "io"
    BY <1>2, <1>5, <1>7, ReadFacts
  <2>2. Len(head) <= Len(data)
    BY <1>3, <1>4 DEF Stands
  <2>3. kept.data < Len(data)
    BY <2>2, <1>3, <1>4, <1>7
  <2>4. CodecRead'
    BY <2>1, <2>3, <1>2 DEF CodecRead, CodecWrites, Lost
  <2> QED BY <2>1, <2>4, <1>2, CodecReadOnly DEF CodecReads
<1> QED BY <1>6, <1>7

LEMMA CodecReadString ==
  ASSUME CodecInv, ReadString
  PROVE  CodecInv'
<1> USE DEF CodecInv
<1>1. PICK n \in 0 .. Len(byIndex) : strings = [i \in 1 .. n |-> Utf(byIndex[i])] /\ TableAt(byIndex, table, n, at)
  BY DEF ReadString, CodecRead
<1>2. PICK read, string, w : /\ read = ReadUTF(TableRead, at) /\ string = byIndex[n + 1]
                             /\ w = WriteUTF(string)
  OBVIOUS
<1>3. /\ pc = "read strings" /\ Len(strings) < size /\ tokens' = tokens /\ data' = data /\ table' = table
      /\ byIndex' = byIndex /\ kept' = kept /\ size' = size /\ cpdTokens' = cpdTokens
      /\ UNCHANGED <<tokens, writeVars, kept>>
      /\ IF Failed(read) THEN pc' = read.error
         ELSE strings' = Append(strings, read.value) /\ at' = read.next /\ pc' = pc
  BY <1>2 DEF ReadString, writeVars
<1>4. /\ table \in Seq(Byte) /\ kept.table \in 0 .. Len(table) /\ Len(byIndex) \in Nat
      /\ size = Len(byIndex) /\ cpdTokens = <<>> /\ byIndex \in Seq(Images \cup {Null})
  <2>1. /\ table \in Seq(Byte) /\ kept.table \in 0 .. Len(table) /\ Len(byIndex) \in Nat
        /\ byIndex \in Seq(Images \cup {Null})
    <3>1. pc \in CodecReads
      BY <1>3 DEF CodecReads
    <3> QED BY <3>1, CodecTypeFacts
  <2>2. size = Len(byIndex) /\ cpdTokens = <<>>
    BY <1>3 DEF CodecRead
  <2> QED BY <2>1, <2>2
<1>40. \A i \in 1 .. Len(byIndex) : byIndex[i] \in Strings /\ Utf(byIndex[i]) \in Seq(Byte)
  <2>1. \A i \in 1 .. Len(byIndex) : byIndex[i] \in Strings
    BY <1>4 DEF Strings
  <2> QED BY <2>1, StringFacts
<1>41. n \in Nat /\ strings \in [1 .. n -> Seq(Byte)]
  <2>1. n \in Nat /\ \A i \in 1 .. n : i \in 1 .. Len(byIndex)
    BY <1>4
  <2> QED BY <2>1, <1>1, <1>40
<1>5. n \in Nat /\ Len(strings) = n /\ n < Len(byIndex)
  <2>1. Len(strings) = n
    BY <1>41
  <2> QED BY <2>1, <1>3, <1>4, <1>41
<1>6. string \in Strings
  BY <1>2, <1>4, <1>5 DEF Strings
<1>7. at \in Nat /\ Stands(table, at, w) /\ TableAt(byIndex, table, n + 1, at + Len(w))
  BY <1>1, <1>2, <1>4, <1>5, TableAtFacts
<1>8. read = IF at + Len(w) <= kept.table THEN Gives(Utf(string), at + Len(w)) ELSE Throws("io")
  BY <1>2, <1>4, <1>6, <1>7, ReadUTFAgain DEF TableRead
<1>9. CASE at + Len(w) <= kept.table
  <2>1. pc' = "read strings" /\ strings' = Append(strings, Utf(string)) /\ at' = at + Len(w)
    BY <1>3, <1>8, <1>9, ReadFacts
  <2>2. strings' = [i \in 1 .. n + 1 |-> Utf(byIndex[i])]
    <3>1. Utf(string) \in Seq(Byte)
      BY <1>6, StringFacts
    <3>2. strings' = [i \in 1 .. n + 1 |-> IF i = n + 1 THEN Utf(string) ELSE strings[i]]
      <4>1. Append(strings, Utf(string)) = Longer(strings, n, Utf(string))
        BY <3>1, <1>41, ListOf
      <4> QED BY <4>1, <2>1 DEF Longer
    <3>3. \A i \in 1 .. n + 1 : (IF i = n + 1 THEN Utf(string) ELSE strings[i]) = Utf(byIndex[i])
      BY <1>1, <1>2, <1>5
    <3> QED BY <3>2, <3>3
  <2>3. n + 1 \in 0 .. Len(byIndex)
    BY <1>4, <1>5
  <2>4. CodecRead'
    BY <2>1, <2>2, <2>3, <1>3, <1>4, <1>7 DEF CodecRead, CodecWrites
  <2> QED BY <2>1, <2>4, <1>3, CodecReadOnly DEF CodecReads
<1>10. CASE ~ (at + Len(w) <= kept.table)
  <2>1. pc' = "io"
    BY <1>3, <1>8, <1>10, ReadFacts
  <2>2. at + Len(w) <= Len(table) /\ Len(w) \in Nat
    BY <1>2, <1>6, <1>7, StringFacts DEF Stands
  <2>3. kept.table < Len(table)
    BY <2>2, <1>4, <1>7, <1>10
  <2>4. CodecRead'
    BY <2>1, <2>3, <1>3 DEF CodecRead, CodecWrites, Lost
  <2> QED BY <2>1, <2>4, <1>3, CodecReadOnly DEF CodecReads
<1> QED BY <1>9, <1>10

LEMMA CodecReadToken ==
  ASSUME CodecInv, ReadToken
  PROVE  CodecInv'
<1> USE DEF CodecInv
<1>1. PICK n \in 0 .. Len(tokens) : /\ cpdTokens = [i \in 1 .. n |-> Back(tokens[i])]
                                    /\ DataAt(tokens, data, byIndex, n, at)
  BY DEF ReadToken, CodecRead
<1>2. PICK read, token : read = ReadCpdToken(DataRead, at) /\ token = tokens[n + 1]
  OBVIOUS
<1>3. /\ pc = "read tokens" /\ Len(cpdTokens) < size /\ tokens' = tokens /\ data' = data /\ table' = table
      /\ byIndex' = byIndex /\ kept' = kept /\ size' = size /\ strings' = strings
      /\ UNCHANGED <<tokens, writeVars, kept>>
      /\ IF Failed(read) THEN pc' = read.error
         ELSE cpdTokens' = Append(cpdTokens, read.value) /\ at' = read.next /\ pc' = pc
  BY <1>2 DEF ReadToken, writeVars
<1>4. /\ data \in Seq(Byte) /\ kept.data \in 0 .. Len(data) /\ Len(tokens) \in Nat /\ tokens \in Seq(Tokens)
      /\ size = Len(tokens) /\ byIndex \in Seq(Images \cup {Null}) /\ Len(byIndex) \in Numbers
      /\ Len(byIndex) \in Nat
      /\ strings = [i \in 1 .. Len(byIndex) |-> Utf(byIndex[i])] /\ kept.table = Len(table)
  <2>1. /\ data \in Seq(Byte) /\ kept.data \in 0 .. Len(data) /\ Len(tokens) \in Nat /\ tokens \in Seq(Tokens)
        /\ byIndex \in Seq(Images \cup {Null}) /\ Len(byIndex) \in Numbers /\ Len(byIndex) \in Nat
    <3>1. pc \in CodecReads
      BY <1>3 DEF CodecReads
    <3> QED BY <3>1, CodecTypeFacts
  <2>2. /\ size = Len(tokens) /\ strings = [i \in 1 .. Len(byIndex) |-> Utf(byIndex[i])]
        /\ kept.table = Len(table)
    BY <1>3 DEF CodecRead
  <2> QED BY <2>1, <2>2
<1>40. n \in Nat /\ cpdTokens \in [1 .. n -> {Back(t) : t \in Tokens}]
  <2>1. n \in Nat /\ \A i \in 1 .. n : i \in 1 .. Len(tokens)
    BY <1>4
  <2>2. \A i \in 1 .. n : Back(tokens[i]) \in {Back(t) : t \in Tokens}
    BY <2>1, <1>4
  <2> QED BY <2>1, <2>2, <1>1
<1>5. n \in Nat /\ Len(cpdTokens) = n /\ n < Len(tokens) /\ Len(strings) = Len(byIndex)
  <2>1. Len(cpdTokens) = n
    BY <1>40
  <2>2. \A i \in 1 .. Len(byIndex) : byIndex[i] \in Strings
    BY <1>4 DEF Strings
  <2>3. strings \in [1 .. Len(byIndex) -> Seq(Byte)]
    BY <2>2, <1>4, StringFacts
  <2>4. Len(strings) = Len(byIndex)
    BY <2>3, <1>4
  <2> QED BY <2>1, <2>4, <1>3, <1>4, <1>40
<1>6. token.location \in Locations
  <2>1. token \in Tokens
    BY <1>2, <1>4, <1>5
  <2> QED BY <2>1 DEF Tokens
<1>7. PICK x \in 0 .. Len(byIndex) - 1 :
        /\ byIndex[x + 1] = token.image /\ Stands(data, at, TokenBytes(token.location, x))
        /\ DataAt(tokens, data, byIndex, n + 1, at + Len(TokenBytes(token.location, x)))
  BY <1>1, <1>2, <1>4, <1>5, DataAtFacts
<1>8. at \in Nat
  BY <1>1, <1>4, DataAtFacts
<1>9. x \in Nat /\ x < Len(strings) /\ x \in Numbers /\ x + 1 \in 1 .. Len(byIndex)
  <2>1. x \in 0 .. Len(byIndex) /\ 0 .. Len(byIndex) \subseteq Numbers
    BY <1>4, CodecAssumption
  <2> QED BY <2>1, <1>4, <1>5
<1>10. PICK w : w = TokenBytes(token.location, x)
  OBVIOUS
<1>11. strings[x + 1] = Utf(token.image)
  BY <1>4, <1>7, <1>9
<1>12. Gives([location |-> token.location, image |-> strings[x + 1]], at + Len(w)) = Gives(Back(token), at + Len(w))
  BY <1>11 DEF Back
<1>13. read = IF at + Len(w) <= kept.data THEN Gives(Back(token), at + Len(w)) ELSE Throws("io")
  <2>1. read = IF at + Len(w) <= kept.data
               THEN Gives([location |-> token.location, image |-> strings[x + 1]], at + Len(w))
               ELSE Throws("io")
    BY <1>2, <1>4, <1>5, <1>6, <1>7, <1>8, <1>9, <1>10, ReadTokenAgain DEF DataRead
  <2> QED BY <2>1, <1>12
<1>14. CASE at + Len(w) <= kept.data
  <2>1. pc' = "read tokens" /\ cpdTokens' = Append(cpdTokens, Back(token)) /\ at' = at + Len(w)
    BY <1>3, <1>13, <1>14, ReadFacts
  <2>2. cpdTokens' = [i \in 1 .. n + 1 |-> Back(tokens[i])]
    <3>1. Back(token) \in {Back(t) : t \in Tokens}
      BY <1>2, <1>4, <1>5
    <3>2. cpdTokens' = [i \in 1 .. n + 1 |-> IF i = n + 1 THEN Back(token) ELSE cpdTokens[i]]
      <4>1. Append(cpdTokens, Back(token)) = Longer(cpdTokens, n, Back(token))
        BY <3>1, <1>40, ListOf
      <4> QED BY <4>1, <2>1 DEF Longer
    <3>3. \A i \in 1 .. n + 1 : (IF i = n + 1 THEN Back(token) ELSE cpdTokens[i]) = Back(tokens[i])
      BY <1>1, <1>2, <1>5
    <3> QED BY <3>2, <3>3
  <2>3. n + 1 \in 0 .. Len(tokens)
    BY <1>4, <1>5
  <2>4. CodecRead'
    <3>1. DataAt(tokens, data, byIndex, n + 1, at')
      BY <2>1, <1>7, <1>10
    <3>2. \E m \in 0 .. Len(tokens) :
            cpdTokens' = [i \in 1 .. m |-> Back(tokens[i])] /\ DataAt(tokens, data, byIndex, m, at')
      BY <3>1, <2>2, <2>3
    <3> QED BY <3>2, <2>1, <1>3, <1>4 DEF CodecRead, CodecWrites
  <2> QED BY <2>1, <2>4, <1>3, CodecReadOnly DEF CodecReads
<1>15. CASE ~ (at + Len(w) <= kept.data)
  <2>1. pc' = "io"
    BY <1>3, <1>13, <1>15, ReadFacts
  <2>2. at + Len(w) <= Len(data) /\ Len(w) \in Nat
    BY <1>6, <1>7, <1>9, <1>10, TokenFacts DEF Stands
  <2>3. kept.data < Len(data)
    BY <2>2, <1>4, <1>8, <1>15
  <2>4. CodecRead'
    BY <2>1, <2>3, <1>3 DEF CodecRead, CodecWrites, Lost
  <2> QED BY <2>1, <2>4, <1>3, CodecReadOnly DEF CodecReads
<1> QED BY <1>14, <1>15

(* The last string is read whole, and nothing is left then; or the end is  *)
(* met.                                                                    *)
LEMMA ReadEnd ==
  ASSUME NEW full \in Seq(Byte), NEW n \in 0 .. Len(full), NEW p \in Nat, Ended(full, p)
  PROVE  \/ ReadUTF(SubSeq(full, 1, n), p) = Gives(END, n) /\ n = Len(full)
         \/ ReadUTF(SubSeq(full, 1, n), p) = Throws("io") /\ n < Len(full)
<1>1. PICK w : w = WriteUTF(END)
  OBVIOUS
<1>2. END \in Strings /\ Utf(END) = END /\ Len(w) \in Nat
  BY <1>1, EndFacts, StringFacts DEF Strings
<1>3. Stands(full, p, w) /\ Len(full) = p + Len(w)
  BY <1>1 DEF Ended
<1>4. ReadUTF(SubSeq(full, 1, n), p) = IF p + Len(w) <= n THEN Gives(END, p + Len(w)) ELSE Throws("io")
  BY <1>1, <1>2, <1>3, ReadUTFAgain
<1>5. CASE p + Len(w) <= n
  <2>1. n = p + Len(w)
    BY <1>2, <1>3, <1>5
  <2> QED BY <2>1, <1>3, <1>4, <1>5
<1>6. CASE ~ (p + Len(w) <= n)
  BY <1>2, <1>3, <1>4, <1>6
<1> QED BY <1>5, <1>6

LEMMA CodecCloseTable ==
  ASSUME CodecInv, CloseTable
  PROVE  CodecInv'
<1> USE DEF CodecInv
<1>1. PICK n \in 0 .. Len(byIndex) : strings = [i \in 1 .. n |-> Utf(byIndex[i])] /\ TableAt(byIndex, table, n, at)
  BY DEF CloseTable, CodecRead
<1>2. PICK read : read = ReadUTF(SubSeq(table, 1, kept.table), at)
  OBVIOUS
<1>3. /\ pc = "read strings" /\ Len(strings) >= size /\ tokens' = tokens /\ data' = data /\ table' = table
      /\ byIndex' = byIndex /\ kept' = kept /\ strings' = strings /\ cpdTokens' = cpdTokens
      /\ UNCHANGED <<tokens, writeVars, kept>>
      /\ pc' = IF Failed(read) THEN read.error ELSE IF read.value = END THEN "data" ELSE "io"
  BY <1>2 DEF CloseTable, Close, TableRead, writeVars, readVars
<1>4. pc \in CodecReads
  BY <1>3 DEF CodecReads
<1>5. /\ table \in Seq(Byte) /\ kept.table \in 0 .. Len(table) /\ Len(byIndex) \in Nat
      /\ byIndex \in Seq(Images \cup {Null})
  BY <1>4, CodecTypeFacts
<1>6. size = Len(byIndex) /\ cpdTokens = <<>>
  BY <1>3 DEF CodecRead
<1>7. n = Len(byIndex)
  <2>1. \A i \in 1 .. n : byIndex[i] \in Strings
    BY <1>5 DEF Strings
  <2>2. n \in Nat /\ strings \in [1 .. n -> Seq(Byte)]
    BY <2>1, <1>1, <1>5, StringFacts
  <2>3. Len(strings) = n
    BY <2>2
  <2>4. n >= Len(byIndex)
    BY <2>3, <1>3, <1>6
  <2>5. n <= Len(byIndex)
    BY <1>5
  <2> QED BY <2>2, <2>4, <2>5, <1>5
<1>8. at \in Nat /\ Ended(table, at)
  BY <1>1, <1>5, <1>7, TableAtFacts
<1>9. CASE read = Gives(END, kept.table) /\ kept.table = Len(table)
  <2>1. pc' = "data"
    BY <1>3, <1>9, ReadFacts
  <2>2. CodecRead'
    BY <2>1, <1>1, <1>3, <1>6, <1>7, <1>9 DEF CodecRead, CodecWrites
  <2> QED BY <2>1, <2>2, <1>3, <1>4, CodecReadOnly DEF CodecReads
<1>10. CASE read = Throws("io") /\ kept.table < Len(table)
  <2>1. pc' = "io"
    BY <1>3, <1>10, ReadFacts
  <2>2. CodecRead'
    BY <2>1, <1>3, <1>10 DEF CodecRead, CodecWrites, Lost
  <2> QED BY <2>1, <2>2, <1>3, <1>4, CodecReadOnly DEF CodecReads
<1> QED BY <1>2, <1>5, <1>8, <1>9, <1>10, ReadEnd

LEMMA CodecCloseData ==
  ASSUME CodecInv, CloseData
  PROVE  CodecInv'
<1> USE DEF CodecInv
<1>1. PICK n \in 0 .. Len(tokens) : /\ cpdTokens = [i \in 1 .. n |-> Back(tokens[i])]
                                    /\ DataAt(tokens, data, byIndex, n, at)
  BY DEF CloseData, CodecRead
<1>2. PICK read : read = ReadUTF(SubSeq(data, 1, kept.data), at)
  OBVIOUS
<1>3. /\ pc = "read tokens" /\ Len(cpdTokens) >= size /\ tokens' = tokens /\ data' = data /\ table' = table
      /\ byIndex' = byIndex /\ kept' = kept /\ strings' = strings /\ cpdTokens' = cpdTokens
      /\ UNCHANGED <<tokens, writeVars, kept>>
      /\ pc' = IF Failed(read) THEN read.error ELSE IF read.value = END THEN "read" ELSE "io"
  BY <1>2 DEF CloseData, Close, DataRead, writeVars, readVars
<1>4. pc \in CodecReads
  BY <1>3 DEF CodecReads
<1>5. /\ data \in Seq(Byte) /\ kept.data \in 0 .. Len(data) /\ Len(tokens) \in Nat /\ tokens \in Seq(Tokens)
  BY <1>4, CodecTypeFacts
<1>6. /\ size = Len(tokens) /\ kept.table = Len(table)
      /\ strings = [i \in 1 .. Len(byIndex) |-> Utf(byIndex[i])]
  BY <1>3 DEF CodecRead
<1>7. n = Len(tokens)
  <2>1. n \in Nat /\ \A i \in 1 .. n : i \in 1 .. Len(tokens)
    BY <1>5
  <2>2. \A i \in 1 .. n : Back(tokens[i]) \in {Back(t) : t \in Tokens}
    BY <2>1, <1>5
  <2>3. cpdTokens \in [1 .. n -> {Back(t) : t \in Tokens}]
    BY <2>2, <1>1
  <2>4. Len(cpdTokens) = n
    BY <2>1, <2>3
  <2>5. n >= Len(tokens)
    BY <2>4, <1>3, <1>6
  <2>6. n <= Len(tokens)
    BY <1>5
  <2> QED BY <2>1, <2>5, <2>6, <1>5
<1>8. at \in Nat /\ Ended(data, at)
  BY <1>1, <1>5, <1>7, DataAtFacts
<1>9. CASE read = Gives(END, kept.data) /\ kept.data = Len(data)
  <2>1. pc' = "read"
    BY <1>3, <1>9, ReadFacts
  <2>2. CodecRead'
    BY <2>1, <1>1, <1>3, <1>6, <1>7, <1>9 DEF CodecRead, CodecWrites
  <2> QED BY <2>1, <2>2, <1>3, <1>4, CodecReadOnly DEF CodecReads
<1>10. CASE read = Throws("io") /\ kept.data < Len(data)
  <2>1. pc' = "io"
    BY <1>3, <1>10, ReadFacts
  <2>2. CodecRead'
    BY <2>1, <1>3, <1>10 DEF CodecRead, CodecWrites, Lost
  <2> QED BY <2>1, <2>2, <1>3, <1>4, CodecReadOnly DEF CodecReads
<1> QED BY <1>2, <1>5, <1>8, <1>9, <1>10, ReadEnd

LEMMA CodecStep == CodecInv /\ [CodecNext]_codecVars => CodecInv'
<1> SUFFICES ASSUME CodecInv, [CodecNext]_codecVars PROVE CodecInv'
  OBVIOUS
<1>1. CASE UNCHANGED codecVars
  <2>1. /\ tokens' = tokens /\ data' = data /\ table' = table /\ byIndex' = byIndex /\ count' = count
        /\ kept' = kept /\ pc' = pc /\ at' = at /\ size' = size /\ strings' = strings /\ cpdTokens' = cpdTokens
    BY <1>1 DEF codecVars, writeVars, readVars
  <2>2. CodecTypes'
    BY <2>1 DEF CodecInv, CodecTypes
  <2>3. CodecWritten'
    BY <2>1 DEF CodecInv, CodecWritten
  <2>4. CodecRead'
    BY <2>1 DEF CodecInv, CodecRead, Lost
  <2> QED BY <2>2, <2>3, <2>4 DEF CodecInv
<1>2. CASE CodecNext
  BY <1>2, CodecWriteTokenCount, CodecWriteToken, CodecEndData, CodecWriteString, CodecEndTable, CodecFetch,
     CodecOpenTable, CodecReadString, CodecCloseTable, CodecOpenData, CodecReadToken, CodecCloseData
     DEF CodecNext
<1> QED BY <1>1, <1>2

(* What was stored reads back, and what lost bytes is refused.             *)
LEMMA InvFaithful == CodecInv => Faithful
<1> SUFFICES ASSUME CodecInv PROVE Faithful
  OBVIOUS
<1>1. pc # "runtime"
  BY DEF CodecInv, CodecTypes, CodecWrites, CodecReads
<1>2. pc = "io" => Lost
  BY DEF CodecInv, CodecRead
<1>3. ASSUME pc = "read" PROVE ~ Lost /\ cpdTokens = [i \in DOMAIN tokens |-> Back(tokens[i])]
  <2>1. /\ kept.table = Len(table) /\ kept.data = Len(data)
        /\ cpdTokens = [i \in 1 .. Len(tokens) |-> Back(tokens[i])]
    BY <1>3 DEF CodecInv, CodecRead
  <2>2. DOMAIN tokens = 1 .. Len(tokens) /\ Len(table) \in Nat /\ Len(data) \in Nat
    BY DEF CodecInv, CodecTypes
  <2> QED BY <2>1, <2>2 DEF Lost
<1> QED BY <1>1, <1>2, <1>3 DEF Faithful, Back

(* writeInt() and readInt() agree on every int, wherever it stands.        *)
LEMMA InvIntsReadBack == CodecInv => IntsReadBack
<1> SUFFICES ASSUME CodecInv, NEW int \in JavaInt
             PROVE  /\ ReadInt(data \o WriteInt(int) \o table, Len(data))
                         = Gives(int, Len(data) + Len(WriteInt(int)))
                    /\ Chunk * (Len(WriteInt(int)) - 1) < Width
  BY DEF IntsReadBack
<1>1. PICK w, front, full : w = WriteInt(int) /\ front = data \o w /\ full = front \o table
  OBVIOUS
<1>2. data \in Seq(Byte) /\ table \in Seq(Byte) /\ Len(data) \in Nat
  BY DEF CodecInv, CodecTypes
<1>3. w \in Seq(Byte) /\ Len(w) \in Nat /\ Chunk * (Len(w) - 1) < Width
  BY <1>1, WriteIntFacts
<1>4. front \in Seq(Byte) /\ Stands(front, Len(data), w)
  BY <1>1, <1>2, <1>3, StandsLast
<1>5. full \in Seq(Byte) /\ Len(full) \in Nat /\ Stands(full, Len(data), w)
  BY <1>1, <1>2, <1>3, <1>4, StandsMore, StandsLast
<1>6. SubSeq(full, 1, Len(full)) = full
  <2>1. PICK same : same = SubSeq(full, 1, Len(full))
    OBVIOUS
  <2>2. same \in Seq(Byte) /\ Len(same) = Len(full) /\ \A i \in 1 .. Len(full) : same[i] = full[i]
    BY <2>1, <1>5
  <2> QED BY <2>1, <2>2, <1>5, SeqEqual
<1>7. Len(data) + Len(w) <= Len(full)
  BY <1>5 DEF Stands
<1>8. Len(full) \in 0 .. Len(full)
  BY <1>5
<1>9. ReadInt(SubSeq(full, 1, Len(full)), Len(data)) = Gives(int, Len(data) + Len(w))
  BY <1>1, <1>2, <1>5, <1>7, <1>8, ReadIntAgain
<1> QED BY <1>1, <1>3, <1>6, <1>9

(* Tokens survive the cache or are refused (CpdSerializer,                 *)
(* CpdDeserializer): the deserializer returns the tokens that were stored, *)
(* or fails with the IOException its caller handles, and then only because *)
(* bytes were lost; and every int that writeInt() writes, readInt() reads. *)
THEOREM TokensSurvive == CodecSpec => []CodecFaithful
<1>1. CodecInv => CodecFaithful
  BY InvFaithful, InvIntsReadBack DEF CodecFaithful
<1> QED BY <1>1, CodecInitInv, CodecStep, PTL DEF CodecSpec
=============================================================================
