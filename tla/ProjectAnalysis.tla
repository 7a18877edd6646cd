-------------------------- MODULE ProjectAnalysis --------------------------
(***************************************************************************)
(* Analyses of whole projects that share one worker: its linter, its       *)
(* registry of TypeScript programs.  Three drivers exist.                  *)
(*                                                                         *)
(*   "program"  analyzeProject() in Node.js with TypeScript programs       *)
(*   "watch"    analyzeProject() in Node.js for SonarLint                  *)
(*   "java"     AnalysisWithProgram of the Java plugin, which requests     *)
(*              programs and the analysis of files one by one              *)
(*                                                                         *)
(* The worker runs one piece of code at a time; it switches to another     *)
(* analysis where the code awaits (or between two requests of Java).       *)
(***************************************************************************)
EXTENDS Naturals, Sequences, FiniteSets

CONSTANTS
  Analyses,    \* project analyses on one worker
  Files,       \* source files
  TsConfigs,   \* tsconfig files of the project
  Generated,   \* the tsconfig written for a project that has none
  None,        \* no tsconfig, no linter
  MaxFiles,    \* maxFilesForTypeChecking
  MaxDepth     \* bound on the depth of the recursion of analyzeProgram()

ASSUME ConfigAssumption ==
  /\ Generated \notin TsConfigs
  /\ None \notin TsConfigs \cup {Generated} \cup Analyses

ASSUME BoundsAssumption == MaxFiles \in Nat /\ MaxDepth \in Nat

Configs == TsConfigs \cup {Generated}

VARIABLES
  driver,       \* which code runs each analysis
  input,        \* the files to analyze
  found,        \* the tsconfigs that searchFiles() or TsConfigProvider found
  sourceFiles,  \* files of the program of a tsconfig, imported ones included
  rootNames,    \* files that the tsconfig itself lists
  refs,         \* projectReferences
  broken,       \* tsconfigs for which the creation throws
  pc,           \* where each analysis is
  pending,      \* pendingFiles, or inputFiles without analyzedFiles
  todo,         \* tsconfigs still to come: the iterator, or workList
  seen,         \* analyzedProjects (Java)
  stack,        \* calls of analyzeProgram() in progress, innermost last
  results,      \* how each file was analyzed, and how often
  linter,       \* whose linter linters['default'] is
  initialized,  \* the analyses whose linter's init() has ended
  programs,     \* the registry: id -> tsconfig and analysis
  programCount  \* number of ids handed out

project == <<driver, input, found, sourceFiles, rootNames, refs, broken>>
linters == <<linter, initialized>>
registry == <<programs, programCount>>
vars == <<project, pc, pending, todo, seen, stack, results, linters, registry>>

NoProgram == 0

(* `ready`: the linter was initialized; `lost`: getProgramById() threw.    *)
Result == [config: Configs \cup {None}, ready: BOOLEAN, lost: BOOLEAN, times: Nat]
NotAnalyzed == [config |-> None, ready |-> TRUE, lost |-> FALSE, times |-> 0]

(* A call of analyzeProgram(): its program until it is deleted, the files  *)
(* and the references it has not come to.                                  *)
Frame == [config: Configs, program: Nat, files: Seq(Files), refs: Seq(Configs)]

ProjectOK ==
  /\ driver \in [Analyses -> {"program", "watch", "java"}]
  /\ input \in [Analyses -> SUBSET Files]
  /\ found \in [Analyses -> Seq(TsConfigs)]
  /\ sourceFiles \in [Configs -> Seq(Files)]
  /\ rootNames \in [Configs -> Seq(Files)]
  /\ refs \in [Configs -> Seq(TsConfigs)]
  /\ broken \subseteq TsConfigs

Idle ==
  /\ pc = [d \in Analyses |-> "start"]
  /\ pending = input
  /\ todo = [d \in Analyses |-> <<>>]
  /\ seen = [d \in Analyses |-> {}]
  /\ stack = [d \in Analyses |-> <<>>]
  /\ results = [d \in Analyses |-> [f \in Files |-> NotAnalyzed]]
  /\ linter = None
  /\ initialized = {}
  /\ programs = <<>>
  /\ programCount = 0

Init == ProjectOK /\ Idle

-----------------------------------------------------------------------------
Goto(d, label) == pc' = [pc EXCEPT ![d] = label]
Top(d) == stack[d][Len(stack[d])]
Below(d) == SubSeq(stack[d], 1, Len(stack[d]) - 1)
SetTop(d, frame) == stack' = [stack EXCEPT ![d] = Append(Below(d), frame)]

(* analyzeProject() returns at once when there is nothing to analyze.      *)
StartEmpty(d) ==
  /\ pc[d] = "start"
  /\ input[d] = {}
  /\ Goto(d, "done")
  /\ UNCHANGED <<pending, todo, seen, stack, results, linters, registry>>

(* initializeLinter() publishes the new wrapper and awaits its init().     *)
Start(d) ==
  /\ pc[d] = "start"
  /\ input[d] # {}
  /\ Goto(d, "init")
  /\ linter' = d
  /\ UNCHANGED <<pending, todo, seen, stack, results, initialized, registry>>

(* getTSConfigsIterator(): the tsconfigs found, or a generated one if      *)
(* there is none and the project is small; Java has no limit here.         *)
Iterator(d) ==
  IF /\ found[d] = <<>>
     /\ driver[d] = "java" \/ Cardinality(input[d]) < MaxFiles
  THEN <<Generated>>
  ELSE found[d]

(* Mutant: init() is not awaited. *)
NotAwaited(d) == initialized

Awaited(d) == initialized \cup {d}

InitEnds(d) ==
  /\ pc[d] = "init"
  /\ initialized' = Awaited(d)
  /\ todo' = [todo EXCEPT ![d] = Iterator(d)]
  /\ Goto(d, "configs")
  /\ UNCHANGED <<pending, seen, stack, results, linter, registry>>

-----------------------------------------------------------------------------
(* The loop over the tsconfigs goes on; in Node.js while files are pending.*)
MoreConfigs(d) ==
  /\ pc[d] = "configs"
  /\ stack[d] = <<>>
  /\ todo[d] # <<>>
  /\ driver[d] # "java" => pending[d] # {}

NewId == programCount + 1

(* createAndSaveProgram() registers a program, analyzeProgram() starts,    *)
(* called from the calls in progress.                                      *)
CreateProgram(d, t, calls) ==
  LET id == NewId
  IN  /\ Len(calls) < MaxDepth
      /\ programCount' = programCount + 1
      /\ programs' = [i \in DOMAIN programs \cup {id} |->
                        IF i = id THEN [config |-> t, owner |-> d] ELSE programs[i]]
      /\ stack' = [stack EXCEPT ![d] =
           Append(calls, [config |-> t, program |-> id,
                          files |-> sourceFiles[t], refs |-> refs[t]])]

(* Mutant: the first tsconfig ends the loop. *)
TakeOnlyConfig(d) ==
  /\ todo' = [todo EXCEPT ![d] = <<>>]
  /\ seen' = [seen EXCEPT ![d] = @ \cup {Head(todo[d])}]

TakeConfig(d) ==
  /\ todo' = [todo EXCEPT ![d] = Tail(@)]
  /\ seen' = [seen EXCEPT ![d] = @ \cup {Head(todo[d])}]

MustSkip(d) ==
  /\ MoreConfigs(d)
  /\ driver[d] # "watch"
  /\ \/ Head(todo[d]) \in broken
     \/ driver[d] = "java" /\ Head(todo[d]) \in seen[d]

(* Mutant: the tsconfig that failed is not taken from the work list. *)
SkipInPlace(d) ==
  /\ MustSkip(d)
  /\ UNCHANGED <<pc, pending, todo, seen, stack, results, linters, registry>>

(* A tsconfig for which no program can be created is skipped; Java also    *)
(* skips those it has seen.                                                *)
SkipConfig(d) ==
  /\ MustSkip(d)
  /\ TakeConfig(d)
  /\ UNCHANGED <<pc, pending, stack, results, linters, registry>>

EnterConfig(d) ==
  /\ MoreConfigs(d)
  /\ driver[d] # "watch"
  /\ Head(todo[d]) \notin broken
  /\ driver[d] = "java" => Head(todo[d]) \notin seen[d]
  /\ TakeConfig(d)
  /\ CreateProgram(d, Head(todo[d]), <<>>)
  /\ UNCHANGED <<pc, pending, results, linters>>

(* analyzeWithWatchProgram() only takes the files the tsconfig lists; it   *)
(* does not guard createProgramOptions(), so that the analysis fails.      *)
WatchConfig(d) ==
  /\ MoreConfigs(d)
  /\ driver[d] = "watch"
  /\ TakeConfig(d)
  /\ IF Head(todo[d]) \in broken
     THEN Goto(d, "failed") /\ UNCHANGED stack
     ELSE /\ stack' = [stack EXCEPT ![d] =
               <<[config |-> Head(todo[d]), program |-> NoProgram,
                  files |-> rootNames[Head(todo[d])], refs |-> <<>>]>>]
          /\ UNCHANGED pc
  /\ UNCHANGED <<pending, results, linters, registry>>

-----------------------------------------------------------------------------
InFiles(d) == pc[d] = "configs" /\ stack[d] # <<>> /\ Top(d).files # <<>>
AfterFiles(d) == pc[d] = "configs" /\ stack[d] # <<>> /\ Top(d).files = <<>>
NextFile(d) == Head(Top(d).files)

(* analyzeFile() with the linter and the program registered at this time.  *)
Analyze(d, f, t, program) ==
  results' = [results EXCEPT ![d][f] =
    [config |-> t, ready |-> linter \in initialized,
     lost |-> program # NoProgram /\ program \notin DOMAIN programs,
     times |-> @.times + 1]]

(* A file of the program that was not requested, or is analyzed already.   *)
SkipFile(d) ==
  /\ InFiles(d)
  /\ NextFile(d) \notin pending[d]
  /\ SetTop(d, [Top(d) EXCEPT !.files = Tail(@)])
  /\ UNCHANGED <<pc, pending, todo, seen, results, linters, registry>>

(* Mutant: pendingFiles.delete() is missing. *)
StillPending(d, f) == pending[d]

NoLongerPending(d, f) == pending[d] \ {f}

AnalyzeWithProgram(d) ==
  /\ InFiles(d)
  /\ NextFile(d) \in pending[d]
  /\ Analyze(d, NextFile(d), Top(d).config, Top(d).program)
  /\ pending' = [pending EXCEPT ![d] = NoLongerPending(d, NextFile(d))]
  /\ SetTop(d, [Top(d) EXCEPT !.files = Tail(@)])
  /\ UNCHANGED <<pc, todo, seen, linters, registry>>

(* readFile() rejects, or a request of Java fails or is cancelled: nothing *)
(* deletes the program.                                                    *)
ReadFails(d) ==
  /\ \/ InFiles(d) /\ NextFile(d) \in pending[d]
     \/ pc[d] = "plain" /\ pending[d] # {}
  /\ Goto(d, "failed")
  /\ stack' = [stack EXCEPT ![d] = <<>>]
  /\ UNCHANGED <<pending, todo, seen, results, linters, registry>>

(* Mutant: programs.delete() is missing. *)
KeepProgram(id) == programs

WithoutProgram(id) == [i \in DOMAIN programs \ {id} |-> programs[i]]

(* The files are done.  Node.js deletes the program and goes through the   *)
(* references, Java first adds the references to its work list.            *)
DeleteProgram(d) ==
  /\ AfterFiles(d)
  /\ Top(d).program # NoProgram
  /\ programs' = WithoutProgram(Top(d).program)
  /\ IF driver[d] = "java"
     THEN /\ todo' = [todo EXCEPT ![d] = @ \o Top(d).refs]
          /\ SetTop(d, [Top(d) EXCEPT !.program = NoProgram, !.refs = <<>>])
     ELSE /\ SetTop(d, [Top(d) EXCEPT !.program = NoProgram])
          /\ UNCHANGED todo
  /\ UNCHANGED <<pc, pending, seen, results, linters, programCount>>

(* The recursive call of analyzeProgram() for the next reference: nothing  *)
(* tells whether it was analyzed before, or is being analyzed.             *)
NextReference(d) ==
  /\ AfterFiles(d)
  /\ Top(d).program = NoProgram
  /\ Top(d).refs # <<>>
  /\ LET t == Head(Top(d).refs)
         rest == [Top(d) EXCEPT !.refs = Tail(@)]
     IN  IF t \in broken
         THEN SetTop(d, rest) /\ UNCHANGED registry
         ELSE CreateProgram(d, t, Append(Below(d), rest))
  /\ UNCHANGED <<pc, pending, todo, seen, results, linters>>

Return(d) ==
  /\ AfterFiles(d)
  /\ Top(d).program = NoProgram
  /\ Top(d).refs = <<>>
  /\ stack' = [stack EXCEPT ![d] = Below(d)]
  /\ UNCHANGED <<pc, pending, todo, seen, results, linters, registry>>

-----------------------------------------------------------------------------
(* analyzeWithoutProgram(), or the files Java calls skipped.               *)
ConfigsEnd(d) ==
  /\ pc[d] = "configs"
  /\ stack[d] = <<>>
  /\ ~ MoreConfigs(d)
  /\ Goto(d, "plain")
  /\ UNCHANGED <<pending, todo, seen, stack, results, linters, registry>>

AnalyzeWithoutProgram(d) ==
  /\ pc[d] = "plain"
  /\ \E f \in pending[d] :
       /\ Analyze(d, f, None, NoProgram)
       /\ pending' = [pending EXCEPT ![d] = NoLongerPending(d, f)]
  /\ UNCHANGED <<pc, todo, seen, stack, linters, registry>>

Finish(d) ==
  /\ pc[d] = "plain"
  /\ pending[d] = {}
  /\ Goto(d, "done")
  /\ UNCHANGED <<pending, todo, seen, stack, results, linters, registry>>

Step(d) ==
  /\ \/ StartEmpty(d) \/ Start(d) \/ InitEnds(d)
     \/ SkipConfig(d) \/ EnterConfig(d) \/ WatchConfig(d)
     \/ SkipFile(d) \/ AnalyzeWithProgram(d) \/ ReadFails(d)
     \/ DeleteProgram(d) \/ NextReference(d) \/ Return(d)
     \/ ConfigsEnd(d) \/ AnalyzeWithoutProgram(d) \/ Finish(d)
  /\ UNCHANGED project

Next == \E d \in Analyses : Step(d)

Spec == Init /\ [][Next]_vars

(* The event loop of the worker, and the Java thread, keep running.        *)
FairSpec == Spec /\ \A d \in Analyses : WF_vars(Step(d))

-----------------------------------------------------------------------------
TypeOK ==
  /\ ProjectOK
  /\ pc \in [Analyses -> {"start", "init", "configs", "plain", "done", "failed"}]
  /\ pending \in [Analyses -> SUBSET Files]
  /\ todo \in [Analyses -> Seq(Configs)]
  /\ seen \in [Analyses -> SUBSET Configs]
  /\ stack \in [Analyses -> Seq(Frame)]
  /\ results \in [Analyses -> [Files -> Result]]
  /\ linter \in Analyses \cup {None}
  /\ initialized \subseteq Analyses
  /\ programCount \in Nat
  /\ DOMAIN programs \subseteq 1 .. programCount
  /\ \A i \in DOMAIN programs : programs[i] \in [config: Configs, owner: Analyses]

(* The programs in memory: each belongs to the innermost call of an        *)
(* analysis in progress, so that an analysis holds one at most however     *)
(* deep its references are nested, or was left by an analysis that failed. *)
ProgramsReleased ==
  \A i \in DOMAIN programs :
    LET d == programs[i].owner
    IN  \/ pc[d] = "failed"
        \/ stack[d] # <<>> /\ Top(d).program = i

(* No file is analyzed twice, though programs overlap and references lead  *)
(* to the same tsconfig by several ways; none finds its program gone, and  *)
(* an analysis that ends normally has analyzed what was asked, no more.    *)
EachFileOnce ==
  \A d \in Analyses, f \in Files :
    LET r == results[d][f]
    IN  /\ r.times <= 1 /\ ~ r.lost
        /\ pc[d] = "done" => (r.times = 1 <=> f \in input[d])

(* The tsconfigs an analysis can get to: those of the iterator, and from   *)
(* one whose program was created those it references.                      *)
Leads(d, S) ==
  /\ {Iterator(d)[i] : i \in DOMAIN Iterator(d)} \ broken \subseteq S
  /\ \A t \in S : driver[d] # "watch" =>
       {refs[t][i] : i \in DOMAIN refs[t]} \ broken \subseteq S

Reachable(d) == {t \in Configs : \A S \in SUBSET Configs : Leads(d, S) => t \in S}

FilesOf(d, t) ==
  LET names == IF driver[d] = "watch" THEN rootNames[t] ELSE sourceFiles[t]
  IN  {names[i] : i \in DOMAIN names}

(* A file is analyzed without type information only when no tsconfig the   *)
(* analysis can get to covers it.                                          *)
TypedWhenPossible ==
  \A d \in Analyses : pc[d] = "done" =>
    \A f \in input[d] :
      results[d][f].config = None <=> \A t \in Reachable(d) : f \notin FilesOf(d, t)

(* A file is linted by a linter that is not initialized only if another    *)
(* analysis has published its own meanwhile.                               *)
LinterReady ==
  \A d \in Analyses : (\E f \in Files : ~ results[d][f].ready) =>
    \E e \in Analyses \ {d} : pc[e] # "start"

(* References between tsconfigs form no cycle.                             *)
Acyclic ==
  \A S \in (SUBSET TsConfigs) \ {{}} :
    \E t \in S : {refs[t][i] : i \in DOMAIN refs[t]} \cap S = {}

Over(d) == pc[d] \in {"done", "failed"}

(* An analysis ends: in Java whatever the references, in Node.js when they *)
(* form no cycle.                                                          *)
EveryAnalysisEnds ==
  \A d \in Analyses : (Acyclic \/ driver[d] # "program") ~> Over(d)
=============================================================================
