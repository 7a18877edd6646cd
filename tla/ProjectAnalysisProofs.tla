----------------------- MODULE ProjectAnalysisProofs -----------------------
(***************************************************************************)
(* Analyses of projects, for any number of them on one worker, any files   *)
(* and any tsconfigs with any references between them.                     *)
(*                                                                         *)
(* What the properties rest on is that only the innermost call of          *)
(* analyzeProgram() has a program, which is in the registry for as long as *)
(* the call analyzes files.                                                *)
(***************************************************************************)
EXTENDS ProjectAnalysis, SequenceTheorems, TLAPS

Labels == {"start", "init", "configs", "plain", "done", "failed"}

(* The calls in progress.                                                  *)
StackOK(d) ==
  /\ pc[d] # "configs" => stack[d] = <<>>
  /\ \A i \in 1 .. Len(stack[d]) - 1 : stack[d][i].program = NoProgram
  /\ stack[d] # <<>> /\ Top(d).program # NoProgram =>
       Top(d).program \in DOMAIN programs /\ programs[Top(d).program].owner = d

(* A program is the one of the innermost call of its owner.                *)
Held(i) ==
  LET d == programs[i].owner
  IN  pc[d] = "failed" \/ (stack[d] # <<>> /\ Top(d).program = i)

(* What was asked and is no longer pending was analyzed once.              *)
FileOK(d, f) ==
  /\ results[d][f].times = IF f \in input[d] \ pending[d] THEN 1 ELSE 0
  /\ ~ results[d][f].lost

PendingOK(d) ==
  /\ pending[d] \subseteq input[d]
  /\ pc[d] = "done" => pending[d] = {}

(* The linter was published by an analysis that has begun, and one that    *)
(* analyzes files has waited for its own.                                  *)
LinterOK ==
  /\ linter # None => pc[linter] # "start"
  /\ \A d \in Analyses :
       /\ pc[d] \in {"init", "configs", "plain"} => linter # None
       /\ pc[d] \in {"configs", "plain"} => d \in initialized

Inv ==
  /\ TypeOK
  /\ \A d \in Analyses : StackOK(d) /\ PendingOK(d)
  /\ \A d \in Analyses : \A f \in Files : FileOK(d, f)
  /\ \A i \in DOMAIN programs : Held(i)
  /\ LinterOK
  /\ LinterReady

-----------------------------------------------------------------------------
(* The stack of calls.                                                     *)
LEMMA StackTop ==
  ASSUME NEW S, NEW s \in Seq(S), s # <<>>
  PROVE  /\ Len(s) \in Nat \ {0} /\ s[Len(s)] \in S
         /\ SubSeq(s, 1, Len(s) - 1) \in Seq(S)
         /\ Len(SubSeq(s, 1, Len(s) - 1)) = Len(s) - 1
         /\ \A i \in 1 .. Len(s) - 1 : SubSeq(s, 1, Len(s) - 1)[i] = s[i]
<1>1. Len(s) \in Nat \ {0}
  BY EmptySeq
<1>2. s[Len(s)] \in S
  BY <1>1
<1>3. SubSeq(s, 1, Len(s) - 1) \in Seq(S)
  BY <1>1
<1>4. /\ Len(SubSeq(s, 1, Len(s) - 1)) = Len(s) - 1
      /\ \A i \in 1 .. Len(s) - 1 : SubSeq(s, 1, Len(s) - 1)[i] = s[i]
  <2>1. PICK n \in Nat : n = Len(s) - 1
    BY <1>1
  <2>2. \A i \in 1 .. n : s[i] \in S
    BY <2>1, <1>1
  <2>3. Len(SubSeq(s, 1, n)) = n /\ \A i \in 1 .. n : SubSeq(s, 1, n)[i] = s[i]
    BY <2>2
  <2> QED BY <2>1, <2>3
<1> QED BY <1>1, <1>2, <1>3, <1>4

LEMMA StackPush ==
  ASSUME NEW S, NEW s \in Seq(S), NEW x \in S
  PROVE  /\ Append(s, x) \in Seq(S) /\ Append(s, x) # <<>>
         /\ Len(Append(s, x)) = Len(s) + 1 /\ Len(s) \in Nat
         /\ Append(s, x)[Len(s) + 1] = x
         /\ \A i \in 1 .. Len(s) : Append(s, x)[i] = s[i]
<1>1. Append(s, x) \in Seq(S) /\ Len(Append(s, x)) = Len(s) + 1 /\ Len(s) \in Nat
  OBVIOUS
<1>2. Append(s, x) # <<>>
  BY <1>1
<1> QED BY <1>1, <1>2

LEMMA QueueHead ==
  ASSUME NEW S, NEW s \in Seq(S), s # <<>>
  PROVE  Head(s) \in S /\ Tail(s) \in Seq(S)
  OBVIOUS

LEMMA SeqWider ==
  ASSUME NEW S, NEW T, S \subseteq T, NEW s \in Seq(S)
  PROVE  s \in Seq(T)
  OBVIOUS

LEMMA RefsAreConfigs ==
  ASSUME TypeOK, NEW t \in Configs
  PROVE  refs[t] \in Seq(Configs)
<1>1. refs[t] \in Seq(TsConfigs) /\ TsConfigs \subseteq Configs
  BY DEF TypeOK, ProjectOK, Configs
<1> QED BY <1>1, SeqWider

-----------------------------------------------------------------------------
(* A step of an analysis: the others keep what is theirs, their programs   *)
(* too.                                                                    *)
OthersKept(d) ==
  /\ \A e \in Analyses \ {d} : /\ pc'[e] = pc[e] /\ stack'[e] = stack[e]
                               /\ pending'[e] = pending[e] /\ results'[e] = results[e]
  /\ \A i \in DOMAIN programs : programs[i].owner # d =>
       i \in DOMAIN programs' /\ programs'[i] = programs[i]
  /\ \A i \in DOMAIN programs' : programs'[i].owner # d =>
       i \in DOMAIN programs /\ programs'[i] = programs[i]
  /\ UNCHANGED project

(* What a step does to the linter, and with it.                            *)
LinterStep(d) ==
  /\ pc[d] # "start" => pc'[d] # "start"
  /\ linter' = linter \/ (linter' = d /\ pc'[d] # "start")
  /\ initialized \subseteq initialized'
  /\ pc'[d] \in {"init", "configs", "plain"} => linter' # None
  /\ pc'[d] \in {"configs", "plain"} => d \in initialized'
  /\ \A f \in Files : ~ results'[d][f].ready =>
       ~ results[d][f].ready \/ (linter # None /\ linter # d)

LEMMA StepKeepsInv ==
  ASSUME Inv, TypeOK', NEW d \in Analyses, OthersKept(d), LinterStep(d),
         StackOK(d)', PendingOK(d)',
         \A f \in Files : FileOK(d, f)',
         \A i \in DOMAIN programs' : programs'[i].owner = d => Held(i)'
  PROVE  Inv'
<1>1. ASSUME NEW e \in Analyses
      PROVE  StackOK(e)' /\ PendingOK(e)' /\ \A f \in Files : FileOK(e, f)'
  <2>1. CASE e = d
    BY <2>1
  <2>2. CASE e # d
    <3>1. /\ pc'[e] = pc[e] /\ stack'[e] = stack[e]
          /\ pending'[e] = pending[e] /\ results'[e] = results[e] /\ input'[e] = input[e]
      BY <2>2 DEF OthersKept, project
    <3>2. StackOK(e) /\ PendingOK(e) /\ \A f \in Files : FileOK(e, f)
      BY DEF Inv
    <3>3. StackOK(e)'
      BY <3>1, <3>2, <2>2 DEF StackOK, Top, OthersKept
    <3> QED BY <3>1, <3>2, <3>3 DEF PendingOK, FileOK
  <2> QED BY <2>1, <2>2
<1>2. ASSUME NEW i \in DOMAIN programs'
      PROVE  Held(i)'
  <2>1. CASE programs'[i].owner = d
    BY <2>1
  <2>2. CASE programs'[i].owner # d
    <3> DEFINE e == programs[i].owner
    <3>1. i \in DOMAIN programs /\ programs'[i] = programs[i]
      BY <2>2 DEF OthersKept, Inv
    <3>2. e \in Analyses \ {d}
      BY <3>1, <2>2 DEF Inv, TypeOK
    <3>3. pc'[e] = pc[e] /\ stack'[e] = stack[e]
      BY <3>2 DEF OthersKept
    <3>4. Held(i)
      BY <3>1 DEF Inv
    <3> QED BY <3>1, <3>3, <3>4 DEF Held, Top
  <2> QED BY <2>1, <2>2
<1>3. \A e \in Analyses : pc[e] # "start" => pc'[e] # "start"
  BY DEF OthersKept, LinterStep
<1>4. linter # None => linter' # None /\ linter \in Analyses /\ pc[linter] # "start"
  BY ConfigAssumption DEF LinterStep, Inv, LinterOK, TypeOK
<1>5. LinterOK'
  <2>1. linter' # None => pc'[linter'] # "start"
    BY <1>3, <1>4 DEF LinterStep
  <2>2. ASSUME NEW e \in Analyses
        PROVE  /\ pc'[e] \in {"init", "configs", "plain"} => linter' # None
               /\ pc'[e] \in {"configs", "plain"} => e \in initialized'
    <3>1. CASE e = d
      BY <3>1 DEF LinterStep
    <3>2. CASE e # d
      BY <3>2, <1>4 DEF LinterStep, OthersKept, Inv, LinterOK
    <3> QED BY <3>1, <3>2
  <2> QED BY <2>1, <2>2 DEF LinterOK
<1>6. LinterReady'
  <2> SUFFICES ASSUME NEW e \in Analyses, NEW f \in Files, ~ results'[e][f].ready
               PROVE  \E g \in Analyses \ {e} : pc'[g] # "start"
    BY DEF LinterReady
  <2>1. CASE ~ results[e][f].ready
    BY <2>1, <1>3 DEF Inv, LinterReady
  <2>2. CASE results[e][f].ready
    <3>1. e = d
      BY <2>2 DEF OthersKept
    <3>2. linter # None /\ linter # d
      BY <2>2, <3>1 DEF LinterStep
    <3> QED BY <3>1, <3>2, <1>3, <1>4
  <2> QED BY <2>1, <2>2
<1> QED BY <1>1, <1>2, <1>5, <1>6 DEF Inv

(* An analysis without calls in progress has no program.                   *)
LEMMA NoProgramWithoutCall ==
  ASSUME Inv, NEW d \in Analyses, pc[d] # "failed",
         stack[d] = <<>> \/ Top(d).program = NoProgram,
         NEW i \in DOMAIN programs
  PROVE  programs[i].owner # d
<1> SUFFICES ASSUME programs[i].owner = d PROVE FALSE
  OBVIOUS
<1>1. Held(i) /\ i # NoProgram
  BY DEF Inv, TypeOK, NoProgram
<1> QED BY <1>1 DEF Held

(* A step that only moves on.                                              *)
LEMMA QuietStep ==
  ASSUME Inv, NEW d \in Analyses, NEW label \in Labels,
         pc' = [pc EXCEPT ![d] = label],
         stack[d] = <<>>, pc[d] # "failed",
         UNCHANGED <<pending, stack, results, registry, project>>,
         todo' \in [Analyses -> Seq(Configs)],
         seen' \in [Analyses -> SUBSET Configs],
         linter' \in Analyses \cup {None}, initialized' \subseteq Analyses,
         LinterStep(d),
         label = "done" => pending[d] = {}
  PROVE  Inv'
<1>1. pc \in [Analyses -> Labels] /\ TypeOK
  BY DEF Inv, TypeOK, Labels
<1>2. pc'[d] = label /\ \A e \in Analyses \ {d} : pc'[e] = pc[e]
  BY <1>1
<1>3. TypeOK'
  BY <1>1 DEF TypeOK, ProjectOK, project, registry, Labels
<1>4. OthersKept(d)
  BY <1>2 DEF OthersKept, registry
<1>5. StackOK(d)'
  BY DEF StackOK, Top
<1>6. PendingOK(d)' /\ \A f \in Files : FileOK(d, f)'
  BY <1>2 DEF Inv, PendingOK, FileOK, project
<1>7. \A i \in DOMAIN programs' : programs'[i].owner = d => Held(i)'
  BY NoProgramWithoutCall DEF registry
<1> QED BY <1>3, <1>4, <1>5, <1>6, <1>7, StepKeepsInv

LEMMA QuietActions ==
  ASSUME Inv, NEW d \in Analyses, UNCHANGED project,
         \/ StartEmpty(d) \/ Start(d) \/ InitEnds(d)
         \/ SkipConfig(d) \/ ConfigsEnd(d) \/ Finish(d)
  PROVE  Inv'
<1>1. /\ todo \in [Analyses -> Seq(Configs)] /\ seen \in [Analyses -> SUBSET Configs]
      /\ linter \in Analyses \cup {None} /\ initialized \subseteq Analyses
      /\ pc \in [Analyses -> Labels] /\ None \notin Analyses
      /\ StackOK(d) /\ PendingOK(d) /\ LinterOK
      /\ {"init", "configs", "plain", "done"} \subseteq Labels
  BY ConfigAssumption DEF Inv, TypeOK, Labels
<1>2. CASE StartEmpty(d)
  <2>1. stack[d] = <<>> /\ pending[d] = {}
    BY <1>1, <1>2 DEF StackOK, PendingOK, StartEmpty
  <2>2. LinterStep(d)
    BY <1>1, <1>2 DEF LinterStep, LinterOK, StartEmpty, Goto, linters
  <2> QED BY <1>1, <1>2, <2>1, <2>2, QuietStep DEF StartEmpty, Goto, linters
<1>3. CASE Start(d)
  <2>1. stack[d] = <<>>
    BY <1>1, <1>3 DEF StackOK, Start
  <2>2. LinterStep(d)
    BY <1>1, <1>3 DEF LinterStep, LinterOK, Start, Goto
  <2> QED BY <1>1, <1>3, <2>1, <2>2, QuietStep DEF Start, Goto
<1>4. CASE InitEnds(d)
  <2>1. stack[d] = <<>>
    BY <1>1, <1>4 DEF StackOK, InitEnds
  <2>2. LinterStep(d)
    BY <1>1, <1>4 DEF LinterStep, LinterOK, InitEnds, Goto, Awaited
  <2>3. Iterator(d) \in Seq(Configs)
    <3>1. found[d] \in Seq(TsConfigs) /\ TsConfigs \subseteq Configs
      BY DEF Inv, TypeOK, ProjectOK, Configs
    <3>2. found[d] \in Seq(Configs)
      BY <3>1, SeqWider
    <3>3. <<Generated>> \in Seq(Configs)
      BY DEF Configs
    <3> QED BY <3>2, <3>3 DEF Iterator
  <2>4. todo' \in [Analyses -> Seq(Configs)] /\ initialized' \subseteq Analyses
    BY <1>1, <1>4, <2>3 DEF InitEnds, Awaited
  <2> QED BY <1>1, <1>4, <2>1, <2>2, <2>4, QuietStep DEF InitEnds, Goto
<1>5. CASE SkipConfig(d)
  <2>1. stack[d] = <<>> /\ pc[d] = "configs" /\ todo[d] # <<>>
    BY <1>5 DEF SkipConfig, MustSkip, MoreConfigs
  <2>2. LinterStep(d)
    BY <1>1, <1>5, <2>1 DEF LinterStep, LinterOK, SkipConfig, linters
  <2>3. Head(todo[d]) \in Configs /\ Tail(todo[d]) \in Seq(Configs)
    BY <1>1, <2>1, QueueHead
  <2>4. todo' \in [Analyses -> Seq(Configs)] /\ seen' \in [Analyses -> SUBSET Configs]
    BY <1>1, <1>5, <2>3 DEF SkipConfig, TakeConfig
  <2>5. pc' = [pc EXCEPT ![d] = "configs"]
    BY <1>1, <1>5, <2>1 DEF SkipConfig
  <2> QED BY <1>1, <1>5, <2>1, <2>2, <2>4, <2>5, QuietStep DEF SkipConfig, linters
<1>6. CASE ConfigsEnd(d)
  <2>1. LinterStep(d)
    BY <1>1, <1>6 DEF LinterStep, LinterOK, ConfigsEnd, Goto, linters
  <2> QED BY <1>1, <1>6, <2>1, QuietStep DEF ConfigsEnd, Goto, linters
<1>7. CASE Finish(d)
  <2>1. stack[d] = <<>> /\ pending[d] = {}
    BY <1>1, <1>7 DEF StackOK, Finish
  <2>2. LinterStep(d)
    BY <1>1, <1>7 DEF LinterStep, LinterOK, Finish, Goto, linters
  <2> QED BY <1>1, <1>7, <2>1, <2>2, QuietStep DEF Finish, Goto, linters
<1> QED BY <1>2, <1>3, <1>4, <1>5, <1>6, <1>7

-----------------------------------------------------------------------------
(* The calls in progress of an analysis.                                   *)
LEMMA Calls ==
  ASSUME Inv, NEW d \in Analyses, stack[d] # <<>>
  PROVE  /\ Top(d) \in Frame /\ Below(d) \in Seq(Frame)
         /\ \A i \in 1 .. Len(Below(d)) : Below(d)[i].program = NoProgram
         /\ pc[d] = "configs"
         /\ Top(d).config \in Configs /\ Top(d).program \in Nat
         /\ Top(d).files \in Seq(Files) /\ Top(d).refs \in Seq(Configs)
<1>1. stack[d] \in Seq(Frame) /\ StackOK(d)
  BY DEF Inv, TypeOK
<1>2. /\ Len(stack[d]) \in Nat \ {0} /\ Top(d) \in Frame /\ Below(d) \in Seq(Frame)
      /\ Len(Below(d)) = Len(stack[d]) - 1
      /\ \A i \in 1 .. Len(stack[d]) - 1 : Below(d)[i] = stack[d][i]
  BY <1>1, StackTop DEF Top, Below
<1>3. \A i \in 1 .. Len(Below(d)) : Below(d)[i].program = NoProgram
  BY <1>1, <1>2 DEF StackOK
<1> QED BY <1>1, <1>2, <1>3 DEF StackOK, Frame

(* A call becomes the innermost one; the program it has, if any, is the    *)
(* only one of the analysis.                                               *)
LEMMA NewTop ==
  ASSUME Inv, NEW d \in Analyses, NEW calls \in Seq(Frame), NEW frame \in Frame,
         \A i \in 1 .. Len(calls) : calls[i].program = NoProgram,
         stack' = [stack EXCEPT ![d] = Append(calls, frame)],
         pc'[d] = "configs",
         frame.program # NoProgram =>
           frame.program \in DOMAIN programs' /\ programs'[frame.program].owner = d,
         \A i \in DOMAIN programs' : programs'[i].owner = d => i = frame.program
  PROVE  /\ stack' \in [Analyses -> Seq(Frame)]
         /\ \A e \in Analyses \ {d} : stack'[e] = stack[e]
         /\ StackOK(d)'
         /\ \A i \in DOMAIN programs' : programs'[i].owner = d => Held(i)'
<1> DEFINE new == Append(calls, frame)
<1>1. stack \in [Analyses -> Seq(Frame)]
  BY DEF Inv, TypeOK
<1>2. /\ new \in Seq(Frame) /\ new # <<>> /\ Len(new) = Len(calls) + 1 /\ Len(calls) \in Nat
      /\ new[Len(calls) + 1] = frame /\ \A i \in 1 .. Len(calls) : new[i] = calls[i]
  BY StackPush
<1> HIDE DEF new
<1>3. stack'[d] = new /\ \A e \in Analyses \ {d} : stack'[e] = stack[e]
  BY <1>1 DEF new
<1>4. Top(d)' = frame
  BY <1>2, <1>3 DEF Top
<1>5. stack' \in [Analyses -> Seq(Frame)]
  BY <1>1, <1>2 DEF new
<1>6. StackOK(d)'
  BY <1>2, <1>3, <1>4 DEF StackOK
<1>7. \A i \in DOMAIN programs' : programs'[i].owner = d => Held(i)'
  <2> SUFFICES ASSUME NEW i \in DOMAIN programs', programs'[i].owner = d
               PROVE  Held(i)'
    OBVIOUS
  <2>1. i = frame.program /\ stack'[d] # <<>>
    BY <1>2, <1>3
  <2>2. (Top(programs[i].owner))' = frame
    BY <1>4 DEF Top
  <2> QED BY <2>1, <2>2 DEF Held
<1> QED BY <1>3, <1>5, <1>6, <1>7

(* A step in which only files are taken from the innermost call, and       *)
(* perhaps references.                                                     *)
LEMMA SameProgram ==
  ASSUME Inv, NEW d \in Analyses, stack[d] # <<>>, NEW frame \in Frame,
         frame.program = Top(d).program, SetTop(d, frame),
         UNCHANGED <<pc, programs>>
  PROVE  /\ stack' \in [Analyses -> Seq(Frame)]
         /\ \A e \in Analyses \ {d} : stack'[e] = stack[e]
         /\ StackOK(d)'
         /\ \A i \in DOMAIN programs' : programs'[i].owner = d => Held(i)'
<1>1. /\ Below(d) \in Seq(Frame) /\ pc'[d] = "configs"
      /\ \A i \in 1 .. Len(Below(d)) : Below(d)[i].program = NoProgram
  BY Calls
<1>2. frame.program # NoProgram =>
        frame.program \in DOMAIN programs' /\ programs'[frame.program].owner = d
  BY DEF Inv, StackOK
<1>3. \A i \in DOMAIN programs' : programs'[i].owner = d => i = frame.program
  BY <1>1 DEF Inv, Held
<1> QED BY <1>1, <1>2, <1>3, NewTop, ZenonT(40) DEF SetTop

LEMMA SkipFileStep ==
  ASSUME Inv, NEW d \in Analyses, SkipFile(d), UNCHANGED project
  PROVE  Inv'
<1>1. stack[d] # <<>> /\ pc[d] = "configs" /\ Top(d).files # <<>>
  BY DEF SkipFile, InFiles
<1> DEFINE frame == [Top(d) EXCEPT !.files = Tail(@)]
<1>2. frame \in Frame /\ frame.program = Top(d).program
  <2>1. Top(d) \in Frame /\ Tail(Top(d).files) \in Seq(Files)
    BY <1>1, Calls, QueueHead
  <2> QED BY <2>1 DEF Frame
<1>3. SetTop(d, frame) /\ UNCHANGED <<pc, pending, todo, seen, results, linters, registry>>
  BY DEF SkipFile
<1> HIDE DEF frame
<1>4. /\ stack' \in [Analyses -> Seq(Frame)]
      /\ \A e \in Analyses \ {d} : stack'[e] = stack[e]
      /\ StackOK(d)'
      /\ \A i \in DOMAIN programs' : programs'[i].owner = d => Held(i)'
  <2>1. PICK f \in Frame : f = frame
    BY <1>2
  <2> QED BY <2>1, <1>1, <1>2, <1>3, SameProgram DEF registry
<1>5. TypeOK'
  BY <1>3, <1>4 DEF Inv, TypeOK, ProjectOK, project, linters, registry
<1>6. OthersKept(d)
  BY <1>3, <1>4 DEF OthersKept, registry
<1>7. LinterStep(d)
  BY <1>1, <1>3 DEF LinterStep, Inv, LinterOK, linters
<1>8. PendingOK(d)' /\ \A f \in Files : FileOK(d, f)'
  BY <1>3 DEF Inv, PendingOK, FileOK, project
<1> QED BY <1>4, <1>5, <1>6, <1>7, <1>8, StepKeepsInv

-----------------------------------------------------------------------------
(* analyzeFile() for a pending file, with a program that is registered or  *)
(* with none.                                                              *)
LEMMA AnalyzeOne ==
  ASSUME Inv, NEW d \in Analyses, NEW f \in Files, f \in pending[d],
         NEW t \in Configs \cup {None}, NEW program,
         program # NoProgram => program \in DOMAIN programs,
         Analyze(d, f, t, program),
         pending' = [pending EXCEPT ![d] = NoLongerPending(d, f)],
         pc[d] \in {"configs", "plain"},
         UNCHANGED <<pc, linters, project>>
  PROVE  /\ pending' \in [Analyses -> SUBSET Files]
         /\ results' \in [Analyses -> [Files -> Result]]
         /\ \A e \in Analyses \ {d} : pending'[e] = pending[e] /\ results'[e] = results[e]
         /\ PendingOK(d)' /\ \A g \in Files : FileOK(d, g)'
         /\ LinterStep(d)
<1>1. /\ pending \in [Analyses -> SUBSET Files] /\ results \in [Analyses -> [Files -> Result]]
      /\ PendingOK(d) /\ LinterOK /\ \A g \in Files : FileOK(d, g)
  BY DEF Inv, TypeOK
<1>2. results[d][f] \in Result /\ results[d][f].times = 0
  BY <1>1 DEF FileOK
<1> PICK new : new = [config |-> t, ready |-> linter \in initialized,
                      lost |-> program # NoProgram /\ program \notin DOMAIN programs,
                      times |-> results[d][f].times + 1]
  OBVIOUS
<1>3. new.times = 1 /\ ~ new.lost /\ (new.ready <=> linter \in initialized) /\ new \in Result
  <2>1. new.times = 1
    BY <1>2
  <2>2. ~ new.lost /\ (new.ready <=> linter \in initialized)
    OBVIOUS
  <2>3. new \in Result
    BY <1>2 DEF Result
  <2> QED BY <2>1, <2>2, <2>3
<1>4. results' = [results EXCEPT ![d][f] = new]
  BY DEF Analyze
<1>5. /\ results' \in [Analyses -> [Files -> Result]]
      /\ results'[d][f] = new
      /\ \A g \in Files \ {f} : results'[d][g] = results[d][g]
      /\ \A e \in Analyses \ {d} : results'[e] = results[e]
  BY <1>1, <1>3, <1>4
<1>6. /\ pending' \in [Analyses -> SUBSET Files]
      /\ pending'[d] = pending[d] \ {f}
      /\ \A e \in Analyses \ {d} : pending'[e] = pending[e]
  BY <1>1 DEF NoLongerPending
<1>7. input' = input /\ pc' = pc /\ linter' = linter /\ initialized' = initialized
  BY DEF project, linters
<1>8. PendingOK(d)'
  BY <1>1, <1>6, <1>7 DEF PendingOK
<1>9. ASSUME NEW g \in Files PROVE FileOK(d, g)'
  <2>1. CASE g = f
    <3>1. f \in input'[d] \ pending'[d]
      BY <1>1, <1>6, <1>7 DEF PendingOK
    <3> QED BY <2>1, <3>1, <1>3, <1>5 DEF FileOK
  <2>2. CASE g # f
    <3>1. g \in input'[d] \ pending'[d] <=> g \in input[d] \ pending[d]
      BY <2>2, <1>6, <1>7
    <3> QED BY <2>2, <3>1, <1>1, <1>5 DEF FileOK
  <2> QED BY <2>1, <2>2
<1>10. LinterStep(d)
  <2>1. ASSUME NEW g \in Files, ~ results'[d][g].ready
        PROVE  ~ results[d][g].ready \/ (linter # None /\ linter # d)
    <3>1. CASE g = f
      BY <3>1, <2>1, <1>1, <1>3, <1>5 DEF LinterOK
    <3>2. CASE g # f
      BY <3>2, <2>1, <1>5
    <3> QED BY <3>1, <3>2
  <2> QED BY <2>1, <1>1, <1>7 DEF LinterStep, LinterOK
<1> QED BY <1>5, <1>6, <1>8, <1>9, <1>10

LEMMA AnalyzeWithProgramStep ==
  ASSUME Inv, NEW d \in Analyses, AnalyzeWithProgram(d), UNCHANGED project
  PROVE  Inv'
<1>1. /\ stack[d] # <<>> /\ pc[d] = "configs" /\ Top(d).files # <<>>
      /\ NextFile(d) \in pending[d]
  BY DEF AnalyzeWithProgram, InFiles
<1>2. /\ Top(d) \in Frame /\ Top(d).config \in Configs \cup {None}
      /\ NextFile(d) \in Files /\ Tail(Top(d).files) \in Seq(Files)
  BY <1>1, Calls, QueueHead DEF NextFile
<1> PICK frame : frame = [Top(d) EXCEPT !.files = Tail(@)]
  OBVIOUS
<1>3. frame \in Frame /\ frame.program = Top(d).program
  BY <1>2 DEF Frame
<1>4. /\ SetTop(d, frame) /\ UNCHANGED <<pc, todo, seen, linters, registry>>
      /\ Analyze(d, NextFile(d), Top(d).config, Top(d).program)
      /\ pending' = [pending EXCEPT ![d] = NoLongerPending(d, NextFile(d))]
  BY DEF AnalyzeWithProgram
<1>5. /\ stack' \in [Analyses -> Seq(Frame)]
      /\ \A e \in Analyses \ {d} : stack'[e] = stack[e]
      /\ StackOK(d)'
      /\ \A i \in DOMAIN programs' : programs'[i].owner = d => Held(i)'
  BY <1>1, <1>3, <1>4, SameProgram DEF registry
<1>6. Top(d).program # NoProgram => Top(d).program \in DOMAIN programs
  BY <1>1 DEF Inv, StackOK
<1>7. /\ pending' \in [Analyses -> SUBSET Files]
      /\ results' \in [Analyses -> [Files -> Result]]
      /\ \A e \in Analyses \ {d} : pending'[e] = pending[e] /\ results'[e] = results[e]
      /\ PendingOK(d)' /\ \A g \in Files : FileOK(d, g)'
      /\ LinterStep(d)
  <2>1. PICK f \in Files : f = NextFile(d)
    BY <1>2
  <2>2. PICK t \in Configs \cup {None} : t = Top(d).config
    BY <1>2
  <2>3. PICK program : program = Top(d).program
    OBVIOUS
  <2>4. Analyze(d, f, t, program) /\ f \in pending[d]
        /\ pending' = [pending EXCEPT ![d] = NoLongerPending(d, f)]
    BY <1>1, <1>4, <2>1, <2>2, <2>3
  <2>5. program # NoProgram => program \in DOMAIN programs
    BY <1>6, <2>3
  <2>6. pc[d] \in {"configs", "plain"} /\ UNCHANGED <<pc, linters, project>>
    BY <1>1, <1>4
  <2> QED BY <2>4, <2>5, <2>6, AnalyzeOne
<1>8. TypeOK'
  BY <1>4, <1>5, <1>7 DEF Inv, TypeOK, ProjectOK, project, linters, registry
<1>9. OthersKept(d)
  BY <1>4, <1>5, <1>7 DEF OthersKept, registry
<1> QED BY <1>5, <1>7, <1>8, <1>9, StepKeepsInv

LEMMA AnalyzeWithoutProgramStep ==
  ASSUME Inv, NEW d \in Analyses, AnalyzeWithoutProgram(d), UNCHANGED project
  PROVE  Inv'
<1>1. PICK f \in pending[d] :
        /\ Analyze(d, f, None, NoProgram)
        /\ pending' = [pending EXCEPT ![d] = NoLongerPending(d, f)]
  BY DEF AnalyzeWithoutProgram
<1>2. pc[d] = "plain" /\ UNCHANGED <<pc, todo, seen, stack, linters, registry>>
  BY DEF AnalyzeWithoutProgram
<1>3. f \in Files
  BY <1>1 DEF Inv, TypeOK
<1>4. /\ pending' \in [Analyses -> SUBSET Files]
      /\ results' \in [Analyses -> [Files -> Result]]
      /\ \A e \in Analyses \ {d} : pending'[e] = pending[e] /\ results'[e] = results[e]
      /\ PendingOK(d)' /\ \A g \in Files : FileOK(d, g)'
      /\ LinterStep(d)
  <2>1. PICK t \in Configs \cup {None} : t = None
    OBVIOUS
  <2>2. PICK program : program = NoProgram
    OBVIOUS
  <2>3. Analyze(d, f, t, program)
    BY <1>1, <2>1, <2>2
  <2> QED BY <1>1, <1>2, <1>3, <2>2, <2>3, AnalyzeOne
<1>5. stack[d] = <<>>
  BY <1>2 DEF Inv, StackOK
<1>6. StackOK(d)'
  BY <1>2, <1>5 DEF StackOK
<1>7. \A i \in DOMAIN programs' : programs'[i].owner = d => Held(i)'
  BY <1>2, <1>5, NoProgramWithoutCall DEF registry
<1>8. TypeOK'
  BY <1>2, <1>4 DEF Inv, TypeOK, ProjectOK, project, linters, registry
<1>9. OthersKept(d)
  BY <1>2, <1>4 DEF OthersKept, registry
<1> QED BY <1>4, <1>6, <1>7, <1>8, <1>9, StepKeepsInv

LEMMA ReadFailsStep ==
  ASSUME Inv, NEW d \in Analyses, ReadFails(d), UNCHANGED project
  PROVE  Inv'
<1>1. /\ pc' = [pc EXCEPT ![d] = "failed"] /\ stack' = [stack EXCEPT ![d] = <<>>]
      /\ UNCHANGED <<pending, todo, seen, results, linters, registry>>
  BY DEF ReadFails, Goto
<1>2. pc \in [Analyses -> Labels] /\ stack \in [Analyses -> Seq(Frame)]
  BY DEF Inv, TypeOK, Labels
<1>3. /\ pc'[d] = "failed" /\ stack'[d] = <<>>
      /\ \A e \in Analyses \ {d} : pc'[e] = pc[e] /\ stack'[e] = stack[e]
  BY <1>1, <1>2
<1>4. pc' \in [Analyses -> Labels] /\ stack' \in [Analyses -> Seq(Frame)]
  BY <1>1, <1>2 DEF Labels
<1>5. TypeOK'
  BY <1>1, <1>4 DEF Inv, TypeOK, ProjectOK, project, linters, registry, Labels
<1>6. OthersKept(d)
  BY <1>1, <1>3 DEF OthersKept, registry
<1>7. LinterStep(d)
  BY <1>1, <1>3 DEF LinterStep, linters
<1>8. StackOK(d)'
  BY <1>3 DEF StackOK
<1>9. PendingOK(d)' /\ \A f \in Files : FileOK(d, f)'
  BY <1>1, <1>3 DEF Inv, PendingOK, FileOK, project
<1>10. \A i \in DOMAIN programs' : programs'[i].owner = d => Held(i)'
  BY <1>3 DEF Held
<1> QED BY <1>5, <1>6, <1>7, <1>8, <1>9, <1>10, StepKeepsInv

-----------------------------------------------------------------------------
(* A step that changes calls and programs, and takes tsconfigs.            *)
LEMMA CallStep ==
  ASSUME Inv, NEW d \in Analyses, pc[d] = "configs",
         UNCHANGED <<pc, pending, results, linters, project>>,
         todo' \in [Analyses -> Seq(Configs)],
         seen' \in [Analyses -> SUBSET Configs],
         stack' \in [Analyses -> Seq(Frame)],
         \A e \in Analyses \ {d} : stack'[e] = stack[e],
         StackOK(d)',
         programCount' \in Nat, DOMAIN programs' \subseteq 1 .. programCount',
         \A i \in DOMAIN programs' : programs'[i] \in [config: Configs, owner: Analyses],
         \A i \in DOMAIN programs' : programs'[i].owner = d => Held(i)',
         \A i \in DOMAIN programs : programs[i].owner # d =>
           i \in DOMAIN programs' /\ programs'[i] = programs[i],
         \A i \in DOMAIN programs' : programs'[i].owner # d =>
           i \in DOMAIN programs /\ programs'[i] = programs[i]
  PROVE  Inv'
<1>1. TypeOK'
  BY DEF Inv, TypeOK, ProjectOK, project, linters
<1>2. OthersKept(d)
  BY DEF OthersKept
<1>3. LinterStep(d)
  BY DEF LinterStep, Inv, LinterOK, linters
<1>4. PendingOK(d)' /\ \A f \in Files : FileOK(d, f)'
  BY DEF Inv, PendingOK, FileOK, project
<1> QED BY <1>1, <1>2, <1>3, <1>4, StepKeepsInv

(* The program that createAndSaveProgram() registers is the only one of    *)
(* the analysis.                                                           *)
LEMMA CreateFacts ==
  ASSUME Inv, NEW d \in Analyses, pc[d] = "configs",
         stack[d] = <<>> \/ Top(d).program = NoProgram,
         NEW t \in Configs, NEW calls \in Seq(Frame),
         \A i \in 1 .. Len(calls) : calls[i].program = NoProgram,
         CreateProgram(d, t, calls),
         UNCHANGED <<pc, pending, results, linters, project>>,
         todo' \in [Analyses -> Seq(Configs)],
         seen' \in [Analyses -> SUBSET Configs]
  PROVE  Inv'
<1>1. /\ programCount \in Nat /\ DOMAIN programs \subseteq 1 .. programCount
      /\ \A i \in DOMAIN programs : programs[i] \in [config: Configs, owner: Analyses]
      /\ sourceFiles[t] \in Seq(Files)
  BY DEF Inv, TypeOK, ProjectOK
<1>2. refs[t] \in Seq(Configs)
  BY RefsAreConfigs DEF Inv
<1>id. PICK id : id = programCount + 1
  OBVIOUS
<1>fr. PICK frame : frame = [config |-> t, program |-> id,
                             files |-> sourceFiles[t], refs |-> refs[t]]
  OBVIOUS
<1>3. /\ programCount' = programCount + 1
      /\ programs' = [i \in DOMAIN programs \cup {id} |->
                        IF i = id THEN [config |-> t, owner |-> d] ELSE programs[i]]
      /\ stack' = [stack EXCEPT ![d] = Append(calls, frame)]
  BY <1>id, <1>fr DEF CreateProgram, NewId
<1>4. id \in Nat /\ id # NoProgram /\ id \notin DOMAIN programs /\ id \in 1 .. programCount'
  BY <1>id, <1>1, <1>3 DEF NoProgram
<1>5. frame \in Frame /\ frame.program = id
  BY <1>fr, <1>1, <1>2, <1>4 DEF Frame
<1>6. /\ DOMAIN programs' = DOMAIN programs \cup {id}
      /\ programs'[id] = [config |-> t, owner |-> d]
      /\ \A i \in DOMAIN programs : programs'[i] = programs[i]
  BY <1>3, <1>4
<1>7. \A i \in DOMAIN programs : programs[i].owner # d
  BY NoProgramWithoutCall
<1>8. /\ stack' \in [Analyses -> Seq(Frame)]
      /\ \A e \in Analyses \ {d} : stack'[e] = stack[e]
      /\ StackOK(d)'
      /\ \A i \in DOMAIN programs' : programs'[i].owner = d => Held(i)'
  <2>1. pc'[d] = "configs"
    OBVIOUS
  <2>2. frame.program # NoProgram =>
          frame.program \in DOMAIN programs' /\ programs'[frame.program].owner = d
    BY <1>5, <1>6
  <2>3. \A i \in DOMAIN programs' : programs'[i].owner = d => i = frame.program
    BY <1>5, <1>6, <1>7
  <2>4. frame \in Frame /\ stack' = [stack EXCEPT ![d] = Append(calls, frame)]
    BY <1>3, <1>5
  <2> QED BY <2>1, <2>2, <2>3, <2>4, NewTop
<1>9. programCount' \in Nat /\ DOMAIN programs' \subseteq 1 .. programCount'
  BY <1>1, <1>3, <1>4, <1>6
<1>10. \A i \in DOMAIN programs' : programs'[i] \in [config: Configs, owner: Analyses]
  BY <1>1, <1>6
<1>11. /\ \A i \in DOMAIN programs : programs[i].owner # d =>
            i \in DOMAIN programs' /\ programs'[i] = programs[i]
       /\ \A i \in DOMAIN programs' : programs'[i].owner # d =>
            i \in DOMAIN programs /\ programs'[i] = programs[i]
  BY <1>6
<1> QED BY <1>8, <1>9, <1>10, <1>11, CallStep

(* The tsconfig taken from the iterator, or the work list.                 *)
LEMMA TakeFacts ==
  ASSUME Inv, NEW d \in Analyses, MoreConfigs(d), TakeConfig(d)
  PROVE  /\ pc[d] = "configs" /\ stack[d] = <<>> /\ Head(todo[d]) \in Configs
         /\ todo' \in [Analyses -> Seq(Configs)]
         /\ seen' \in [Analyses -> SUBSET Configs]
<1>1. /\ todo \in [Analyses -> Seq(Configs)] /\ seen \in [Analyses -> SUBSET Configs]
      /\ pc[d] = "configs" /\ stack[d] = <<>> /\ todo[d] # <<>>
  BY DEF Inv, TypeOK, MoreConfigs
<1>2. Head(todo[d]) \in Configs /\ Tail(todo[d]) \in Seq(Configs)
  BY <1>1, QueueHead
<1> QED BY <1>1, <1>2 DEF TakeConfig

LEMMA EnterConfigStep ==
  ASSUME Inv, NEW d \in Analyses, EnterConfig(d), UNCHANGED project
  PROVE  Inv'
<1>1. /\ pc[d] = "configs" /\ stack[d] = <<>> /\ Head(todo[d]) \in Configs
      /\ todo' \in [Analyses -> Seq(Configs)] /\ seen' \in [Analyses -> SUBSET Configs]
  BY TakeFacts DEF EnterConfig
<1>2. PICK t \in Configs : t = Head(todo[d])
  BY <1>1
<1>3. PICK calls \in Seq(Frame) : calls = <<>>
  BY EmptySeq
<1>4. CreateProgram(d, t, calls) /\ UNCHANGED <<pc, pending, results, linters>>
  BY <1>2, <1>3 DEF EnterConfig
<1>5. \A i \in 1 .. Len(calls) : calls[i].program = NoProgram
  BY <1>3
<1> QED BY <1>1, <1>4, <1>5, CreateFacts

LEMMA NextReferenceStep ==
  ASSUME Inv, NEW d \in Analyses, NextReference(d), UNCHANGED project
  PROVE  Inv'
<1>1. /\ stack[d] # <<>> /\ Top(d).program = NoProgram /\ Top(d).refs # <<>>
      /\ pc[d] = "configs"
      /\ UNCHANGED <<pc, pending, todo, seen, results, linters>>
  BY DEF NextReference, AfterFiles
<1>2. /\ Top(d) \in Frame /\ Below(d) \in Seq(Frame)
      /\ \A i \in 1 .. Len(Below(d)) : Below(d)[i].program = NoProgram
      /\ Top(d).refs \in Seq(Configs)
  BY <1>1, Calls
<1>3. Head(Top(d).refs) \in Configs /\ Tail(Top(d).refs) \in Seq(Configs)
  BY <1>1, <1>2, QueueHead
<1>4. PICK t \in Configs : t = Head(Top(d).refs)
  BY <1>3
<1> PICK rest : rest = [Top(d) EXCEPT !.refs = Tail(@)]
  OBVIOUS
<1>5. rest \in Frame /\ rest.program = NoProgram
  BY <1>1, <1>2, <1>3 DEF Frame
<1>6. todo' \in [Analyses -> Seq(Configs)] /\ seen' \in [Analyses -> SUBSET Configs]
  BY <1>1 DEF Inv, TypeOK
<1>7. CASE t \in broken
  <2>1. SetTop(d, rest) /\ UNCHANGED registry
    BY <1>4, <1>7 DEF NextReference
  <2>2. /\ stack' \in [Analyses -> Seq(Frame)]
        /\ \A e \in Analyses \ {d} : stack'[e] = stack[e]
        /\ StackOK(d)'
        /\ \A i \in DOMAIN programs' : programs'[i].owner = d => Held(i)'
    BY <1>1, <1>5, <2>1, SameProgram, ZenonT(40) DEF registry
  <2>3. /\ programCount' = programCount /\ programs' = programs
        /\ programCount \in Nat /\ DOMAIN programs \subseteq 1 .. programCount
        /\ \A i \in DOMAIN programs : programs[i] \in [config: Configs, owner: Analyses]
    BY <2>1 DEF registry, Inv, TypeOK
  <2> QED BY <1>1, <1>6, <2>2, <2>3, CallStep
<1>8. CASE t \notin broken
  <2>1. PICK calls \in Seq(Frame) : calls = Append(Below(d), rest)
    BY <1>2, <1>5, StackPush
  <2>2. CreateProgram(d, t, calls)
    BY <1>4, <1>8, <2>1 DEF NextReference
  <2>3. PICK below \in Seq(Frame) : below = Below(d)
    BY <1>2
  <2>4. /\ Len(calls) = Len(below) + 1 /\ Len(below) \in Nat
        /\ calls[Len(below) + 1] = rest
        /\ \A i \in 1 .. Len(below) : calls[i] = below[i]
    BY <1>5, <2>1, <2>3, StackPush
  <2>5. \A i \in 1 .. Len(calls) : calls[i].program = NoProgram
    <3> SUFFICES ASSUME NEW i \in 1 .. Len(calls) PROVE calls[i].program = NoProgram
      OBVIOUS
    <3>1. CASE i = Len(below) + 1
      BY <1>5, <2>4, <3>1
    <3>2. CASE i # Len(below) + 1
      <4>1. i \in 1 .. Len(below)
        BY <2>4, <3>2
      <4> QED BY <4>1, <1>2, <2>3, <2>4
    <3> QED BY <3>1, <3>2
  <2> QED BY <1>1, <1>6, <2>2, <2>5, CreateFacts
<1> QED BY <1>7, <1>8

LEMMA WatchConfigStep ==
  ASSUME Inv, NEW d \in Analyses, WatchConfig(d), UNCHANGED project
  PROVE  Inv'
<1>1. /\ pc[d] = "configs" /\ stack[d] = <<>> /\ Head(todo[d]) \in Configs
      /\ todo' \in [Analyses -> Seq(Configs)] /\ seen' \in [Analyses -> SUBSET Configs]
  BY TakeFacts DEF WatchConfig
<1>2. UNCHANGED <<pending, results, linters, registry>>
  BY DEF WatchConfig
<1>3. CASE Head(todo[d]) \in broken
  <2>1. pc' = [pc EXCEPT ![d] = "failed"] /\ UNCHANGED stack
    BY <1>3 DEF WatchConfig, Goto
  <2>2. pc'[d] = "failed" /\ "failed" \in Labels
    BY <2>1 DEF Inv, TypeOK, Labels
  <2>3. LinterStep(d)
    BY <1>2, <2>2 DEF LinterStep, linters
  <2>4. linter' \in Analyses \cup {None} /\ initialized' \subseteq Analyses
    BY <1>2 DEF linters, Inv, TypeOK
  <2> QED BY <1>1, <1>2, <2>1, <2>2, <2>3, <2>4, QuietStep
<1>4. CASE Head(todo[d]) \notin broken
  <2>1. PICK t \in Configs : t = Head(todo[d])
    BY <1>1
  <2>2. PICK frame : frame = [config |-> t, program |-> NoProgram,
                              files |-> rootNames[t], refs |-> <<>>]
    OBVIOUS
  <2>3. stack' = [stack EXCEPT ![d] = <<frame>>] /\ UNCHANGED pc
    BY <1>4, <2>1, <2>2 DEF WatchConfig
  <2>4. frame \in Frame /\ frame.program = NoProgram
    <3>1. rootNames[t] \in Seq(Files)
      BY DEF Inv, TypeOK, ProjectOK
    <3>2. <<>> \in Seq(Configs)
      BY EmptySeq
    <3> QED BY <2>2, <3>1, <3>2 DEF Frame, NoProgram
  <2>5. PICK calls \in Seq(Frame) : calls = <<>>
    BY EmptySeq
  <2>6. stack' = [stack EXCEPT ![d] = Append(calls, frame)]
    BY <2>3, <2>5
  <2>7. \A i \in 1 .. Len(calls) : calls[i].program = NoProgram
    BY <2>5
  <2>8. \A i \in DOMAIN programs' : programs'[i].owner = d => i = frame.program
    BY <1>1, <1>2, NoProgramWithoutCall DEF registry
  <2>9. pc'[d] = "configs"
    BY <1>1, <2>3
  <2>10. /\ stack' \in [Analyses -> Seq(Frame)]
         /\ \A e \in Analyses \ {d} : stack'[e] = stack[e]
         /\ StackOK(d)'
         /\ \A i \in DOMAIN programs' : programs'[i].owner = d => Held(i)'
    BY <2>4, <2>6, <2>7, <2>8, <2>9, NewTop
  <2>11. /\ programCount' = programCount /\ programs' = programs
         /\ programCount \in Nat /\ DOMAIN programs \subseteq 1 .. programCount
         /\ \A i \in DOMAIN programs : programs[i] \in [config: Configs, owner: Analyses]
    BY <1>2 DEF registry, Inv, TypeOK
  <2> QED BY <1>1, <1>2, <2>3, <2>10, <2>11, CallStep
<1> QED BY <1>3, <1>4

LEMMA DeleteProgramStep ==
  ASSUME Inv, NEW d \in Analyses, DeleteProgram(d), UNCHANGED project
  PROVE  Inv'
<1>1. /\ stack[d] # <<>> /\ pc[d] = "configs" /\ Top(d).program # NoProgram
      /\ UNCHANGED <<pc, pending, seen, results, linters, programCount>>
  BY DEF DeleteProgram, AfterFiles
<1>2. /\ Top(d) \in Frame /\ Below(d) \in Seq(Frame)
      /\ \A i \in 1 .. Len(Below(d)) : Below(d)[i].program = NoProgram
      /\ Top(d).refs \in Seq(Configs)
  BY <1>1, Calls
<1>3. /\ Top(d).program \in DOMAIN programs /\ programs[Top(d).program].owner = d
      /\ \A i \in DOMAIN programs : programs[i].owner = d => i = Top(d).program
  BY <1>1 DEF Inv, StackOK, Held
<1>4. PICK id : id = Top(d).program
  OBVIOUS
<1>5. /\ DOMAIN programs' = DOMAIN programs \ {id}
      /\ \A i \in DOMAIN programs' : programs'[i] = programs[i]
  BY <1>4 DEF DeleteProgram, WithoutProgram
<1>6. \A i \in DOMAIN programs : programs[i].owner = d <=> i = id
  BY <1>3, <1>4
<1>7. PICK frame \in Frame : frame.program = NoProgram /\ SetTop(d, frame)
  <2>1. CASE driver[d] = "java"
    <3>1. PICK frame : frame = [Top(d) EXCEPT !.program = NoProgram, !.refs = <<>>]
      OBVIOUS
    <3>2. SetTop(d, frame)
      BY <2>1, <3>1 DEF DeleteProgram
    <3>3. <<>> \in Seq(Configs)
      BY EmptySeq
    <3>4. frame \in Frame /\ frame.program = NoProgram
      BY <3>1, <3>3, <1>2 DEF Frame, NoProgram
    <3> QED BY <3>2, <3>4
  <2>2. CASE driver[d] # "java"
    <3>1. PICK frame : frame = [Top(d) EXCEPT !.program = NoProgram]
      OBVIOUS
    <3>2. SetTop(d, frame)
      BY <2>2, <3>1 DEF DeleteProgram
    <3>3. frame \in Frame /\ frame.program = NoProgram
      BY <3>1, <1>2 DEF Frame, NoProgram
    <3> QED BY <3>2, <3>3
  <2> QED BY <2>1, <2>2
<1>8. todo' \in [Analyses -> Seq(Configs)] /\ seen' \in [Analyses -> SUBSET Configs]
  <2>1. todo \in [Analyses -> Seq(Configs)] /\ seen \in [Analyses -> SUBSET Configs]
    BY DEF Inv, TypeOK
  <2>2. todo[d] \o Top(d).refs \in Seq(Configs)
    BY <2>1, <1>2, ConcatProperties
  <2> QED BY <1>1, <2>1, <2>2 DEF DeleteProgram
<1>9. \A i \in DOMAIN programs' : programs'[i].owner = d => i = frame.program
  BY <1>5, <1>6
<1>10. /\ stack' \in [Analyses -> Seq(Frame)]
       /\ \A e \in Analyses \ {d} : stack'[e] = stack[e]
       /\ StackOK(d)'
       /\ \A i \in DOMAIN programs' : programs'[i].owner = d => Held(i)'
  <2>1. PICK below \in Seq(Frame) : below = Below(d)
    BY <1>2
  <2>2. /\ stack' = [stack EXCEPT ![d] = Append(below, frame)] /\ pc'[d] = "configs"
        /\ \A i \in 1 .. Len(below) : below[i].program = NoProgram
    BY <1>1, <1>2, <1>7, <2>1 DEF SetTop
  <2> QED BY <1>7, <1>9, <2>2, NewTop
<1>11. /\ programCount' \in Nat /\ DOMAIN programs' \subseteq 1 .. programCount'
       /\ \A i \in DOMAIN programs' : programs'[i] \in [config: Configs, owner: Analyses]
  <2>1. /\ programCount \in Nat /\ DOMAIN programs \subseteq 1 .. programCount
        /\ \A i \in DOMAIN programs : programs[i] \in [config: Configs, owner: Analyses]
    BY DEF Inv, TypeOK
  <2> QED BY <1>1, <1>5, <2>1
<1>12. /\ \A i \in DOMAIN programs : programs[i].owner # d =>
            i \in DOMAIN programs' /\ programs'[i] = programs[i]
       /\ \A i \in DOMAIN programs' : programs'[i].owner # d =>
            i \in DOMAIN programs /\ programs'[i] = programs[i]
  BY <1>5, <1>6
<1> QED BY <1>1, <1>8, <1>10, <1>11, <1>12, CallStep

LEMMA ReturnStep ==
  ASSUME Inv, NEW d \in Analyses, Return(d), UNCHANGED project
  PROVE  Inv'
<1>1. /\ stack[d] # <<>> /\ pc[d] = "configs" /\ Top(d).program = NoProgram
      /\ stack' = [stack EXCEPT ![d] = Below(d)]
      /\ UNCHANGED <<pc, pending, todo, seen, results, linters, registry>>
  BY DEF Return, AfterFiles
<1>2. PICK below \in Seq(Frame) : below = Below(d)
  BY <1>1, Calls
<1>3. /\ \A i \in 1 .. Len(below) : below[i].program = NoProgram
      /\ Len(below) \in Nat /\ (below # <<>> => Len(below) \in 1 .. Len(below))
  BY <1>1, <1>2, Calls, EmptySeq
<1>4. /\ stack' \in [Analyses -> Seq(Frame)] /\ stack'[d] = below
      /\ \A e \in Analyses \ {d} : stack'[e] = stack[e]
  BY <1>1, <1>2 DEF Inv, TypeOK
<1>5. StackOK(d)'
  <2>1. pc'[d] = "configs"
    BY <1>1
  <2>2. \A i \in 1 .. Len(stack'[d]) - 1 : stack'[d][i].program = NoProgram
    BY <1>3, <1>4
  <2>3. stack'[d] # <<>> => Top(d)'.program = NoProgram
    BY <1>3, <1>4 DEF Top
  <2> QED BY <2>1, <2>2, <2>3 DEF StackOK
<1>6. \A i \in DOMAIN programs' : programs'[i].owner = d => Held(i)'
  BY <1>1, NoProgramWithoutCall DEF registry
<1>7. /\ programCount' = programCount /\ programs' = programs
      /\ programCount \in Nat /\ DOMAIN programs \subseteq 1 .. programCount
      /\ \A i \in DOMAIN programs : programs[i] \in [config: Configs, owner: Analyses]
      /\ todo' \in [Analyses -> Seq(Configs)] /\ seen' \in [Analyses -> SUBSET Configs]
  BY <1>1 DEF registry, Inv, TypeOK
<1> QED BY <1>1, <1>4, <1>5, <1>6, <1>7, CallStep

-----------------------------------------------------------------------------
LEMMA InvInit == Init => Inv
<1> SUFFICES ASSUME Init PROVE Inv
  OBVIOUS
<1>1. programs = <<>> /\ DOMAIN programs = {} /\ programCount = 0
  BY DEF Init, Idle
<1>2. /\ \A d \in Analyses : /\ pc[d] = "start" /\ stack[d] = <<>> /\ pending[d] = input[d]
                             /\ \A f \in Files : results[d][f] = NotAnalyzed
      /\ linter = None
  BY DEF Init, Idle
<1>3. NotAnalyzed \in Result
  BY DEF NotAnalyzed, Result
<1>4. stack \in [Analyses -> Seq(Frame)] /\ todo \in [Analyses -> Seq(Configs)]
  BY EmptySeq DEF Init, Idle
<1>5. TypeOK
  <2>1. results \in [Analyses -> [Files -> Result]]
    BY <1>3 DEF Init, Idle
  <2>2. pending \in [Analyses -> SUBSET Files] /\ seen \in [Analyses -> SUBSET Configs]
    BY DEF Init, Idle, ProjectOK
  <2>3. /\ pc \in [Analyses -> {"start", "init", "configs", "plain", "done", "failed"}]
        /\ linter \in Analyses \cup {None} /\ initialized \subseteq Analyses
    BY DEF Init, Idle
  <2> QED BY <1>1, <1>4, <2>1, <2>2, <2>3 DEF Init, TypeOK
<1>6. \A d \in Analyses : StackOK(d) /\ PendingOK(d)
  BY <1>2 DEF StackOK, PendingOK
<1>7. \A d \in Analyses : \A f \in Files : FileOK(d, f)
  BY <1>2 DEF FileOK, NotAnalyzed
<1>8. LinterOK /\ LinterReady
  BY <1>2 DEF LinterOK, LinterReady, NotAnalyzed
<1> QED BY <1>1, <1>5, <1>6, <1>7, <1>8 DEF Inv

LEMMA InvStep == Inv /\ [Next]_vars => Inv'
<1> SUFFICES ASSUME Inv, [Next]_vars PROVE Inv'
  OBVIOUS
<1>1. CASE UNCHANGED vars
  <2>1. /\ UNCHANGED project /\ pc' = pc /\ pending' = pending /\ todo' = todo /\ seen' = seen
        /\ stack' = stack /\ results' = results /\ UNCHANGED linters /\ UNCHANGED registry
    BY <1>1 DEF vars
  <2>2. TypeOK'
    BY <2>1 DEF project, linters, registry, Inv, TypeOK, ProjectOK
  <2>3. LinterOK' /\ LinterReady'
    BY <2>1 DEF linters, Inv, LinterOK, LinterReady
  <2>4. \A d \in Analyses : StackOK(d)' /\ PendingOK(d)'
    BY <2>1 DEF project, registry, Inv, StackOK, PendingOK, Top
  <2>5. \A d \in Analyses : \A f \in Files : FileOK(d, f)'
    BY <2>1 DEF project, Inv, FileOK
  <2>6. \A i \in DOMAIN programs' : Held(i)'
    BY <2>1 DEF registry, Inv, Held, Top
  <2> QED BY <2>2, <2>3, <2>4, <2>5, <2>6 DEF Inv
<1>2. ASSUME NEW d \in Analyses, Step(d) PROVE Inv'
  <2>1. UNCHANGED project
    BY <1>2 DEF Step
  <2>2. CASE StartEmpty(d) \/ Start(d) \/ InitEnds(d) \/ SkipConfig(d) \/ ConfigsEnd(d) \/ Finish(d)
    BY <2>1, <2>2, QuietActions
  <2>3. CASE EnterConfig(d)
    BY <2>1, <2>3, EnterConfigStep
  <2>4. CASE WatchConfig(d)
    BY <2>1, <2>4, WatchConfigStep
  <2>5. CASE SkipFile(d)
    BY <2>1, <2>5, SkipFileStep
  <2>6. CASE AnalyzeWithProgram(d)
    BY <2>1, <2>6, AnalyzeWithProgramStep
  <2>7. CASE ReadFails(d)
    BY <2>1, <2>7, ReadFailsStep
  <2>8. CASE DeleteProgram(d)
    BY <2>1, <2>8, DeleteProgramStep
  <2>9. CASE NextReference(d)
    BY <2>1, <2>9, NextReferenceStep
  <2>10. CASE Return(d)
    BY <2>1, <2>10, ReturnStep
  <2>11. CASE AnalyzeWithoutProgram(d)
    BY <2>1, <2>11, AnalyzeWithoutProgramStep
  <2> QED BY <1>2, <2>2, <2>3, <2>4, <2>5, <2>6, <2>7, <2>8, <2>9, <2>10, <2>11 DEF Step
<1> QED BY <1>1, <1>2 DEF Next

LEMMA InvHolds == Spec => []Inv
<1> QED BY InvInit, InvStep, PTL DEF Spec

(* The state of the analyses keeps its types.                              *)
THEOREM ProjectTypeCorrect == Spec => []TypeOK
<1>1. Inv => TypeOK
  BY DEF Inv
<1> QED BY <1>1, InvHolds, PTL

(* However the calls of analyzeProgram() nest and the analyses interleave, *)
(* a program stays in the registry only for the innermost call of its      *)
(* analysis, or because the analysis failed.                               *)
THEOREM ProgramsAreReleased == Spec => []ProgramsReleased
<1>1. Inv => ProgramsReleased
  BY DEF Inv, Held, ProgramsReleased
<1> QED BY <1>1, InvHolds, PTL

(* No file is analyzed twice or with a program that is gone, and an        *)
(* analysis that ends normally has analyzed all its files and no others.   *)
THEOREM FilesAnalyzedOnce == Spec => []EachFileOnce
<1>1. Inv => EachFileOnce
  <2> SUFFICES ASSUME Inv, NEW d \in Analyses, NEW f \in Files
               PROVE  /\ results[d][f].times <= 1 /\ ~ results[d][f].lost
                      /\ pc[d] = "done" => (results[d][f].times = 1 <=> f \in input[d])
    BY DEF EachFileOnce
  <2> QED BY DEF Inv, FileOK, PendingOK
<1> QED BY <1>1, InvHolds, PTL

(* A file meets a linter that is not initialized only when another         *)
(* analysis has begun.                                                     *)
THEOREM LinterIsReady == Spec => []LinterReady
<1>1. Inv => LinterReady
  BY DEF Inv
<1> QED BY <1>1, InvHolds, PTL

-----------------------------------------------------------------------------
(* TypedWhenPossible.  What an analysis has come to so far is a set V of   *)
(* tsconfigs: it is closed under references but for those still to come,   *)
(* and its files are analyzed but for those of the calls in progress.      *)
(* When nothing is left to come, V has every tsconfig that can be reached. *)
Elems(s) == {s[i] : i \in DOMAIN s}

Follows(d, t) == IF driver[d] = "watch" THEN {} ELSE Elems(refs[t])

CanBeTyped(d, f) == \E t \in Reachable(d) : f \in FilesOf(d, t)

HasRef(calls, t, u) ==
  \E i \in 1 .. Len(calls) : calls[i].config = t /\ u \in Elems(calls[i].refs)

HasFile(calls, t, f) ==
  \E i \in 1 .. Len(calls) : calls[i].config = t /\ f \in Elems(calls[i].files)

FrameOK(d, frame) ==
  /\ frame.config \in Reachable(d)
  /\ Elems(frame.files) \subseteq FilesOf(d, frame.config)
  /\ Elems(frame.refs) \subseteq Follows(d, frame.config)

CallsOK(d, calls) == \A i \in 1 .. Len(calls) : FrameOK(d, calls[i])

QueueOK(d, queue) == Elems(queue) \ broken \subseteq Reachable(d)

Visited(d, V, queue, taken, calls, waiting) ==
  /\ Elems(Iterator(d)) \ broken \subseteq V \cup Elems(queue)
  /\ taken \ broken \subseteq V
  /\ \A t \in V : \A u \in Follows(d, t) \ broken :
       u \in V \cup Elems(queue) \/ HasRef(calls, t, u)
  /\ \A t \in V : \A f \in FilesOf(d, t) \cap waiting : HasFile(calls, t, f)

(* A file was analyzed with a tsconfig if one that can be reached has it.  *)
TypedOK(d, waiting, result) ==
  \A f \in input[d] \ waiting : result[f].config = None <=> ~ CanBeTyped(d, f)

TypedInv(d) ==
  /\ QueueOK(d, todo[d])
  /\ CallsOK(d, stack[d])
  /\ pc[d] \in {"start", "init"} => seen[d] = {}
  /\ pc[d] = "configs" =>
       \E V \in SUBSET Configs : Visited(d, V, todo[d], seen[d], stack[d], pending[d])
  /\ pc[d] = "plain" => \A f \in pending[d] : ~ CanBeTyped(d, f)
  /\ TypedOK(d, pending[d], results[d])

-----------------------------------------------------------------------------
LEMMA ElemsFacts ==
  ASSUME NEW S, NEW s \in Seq(S)
  PROVE  /\ Elems(s) \subseteq S
         /\ s # <<>> => Head(s) \in Elems(s) /\ Elems(s) = Elems(Tail(s)) \cup {Head(s)}
<1>1. Len(s) \in Nat /\ DOMAIN s = 1 .. Len(s) /\ s \in [1 .. Len(s) -> S]
  BY LenProperties
<1>2. Elems(s) \subseteq S
  BY <1>1 DEF Elems
<1>3. ASSUME s # <<>>
      PROVE  Head(s) \in Elems(s) /\ Elems(s) = Elems(Tail(s)) \cup {Head(s)}
  <2>1. Len(s) >= 1 /\ Head(s) = s[1]
    BY <1>1, <1>3, EmptySeq
  <2>2. /\ Tail(s) \in Seq(S) /\ Len(Tail(s)) = Len(s) - 1
        /\ \A i \in 1 .. Len(Tail(s)) : Tail(s)[i] = s[i + 1]
    BY <1>3, HeadTailProperties
  <2>3. DOMAIN Tail(s) = 1 .. Len(s) - 1
    BY <2>2, LenProperties
  <2>4. Head(s) \in Elems(s)
    BY <2>1, <1>1 DEF Elems
  <2>5. ASSUME NEW x \in Elems(s), x # Head(s) PROVE x \in Elems(Tail(s))
    <3>1. PICK i \in 1 .. Len(s) : x = s[i]
      BY <1>1 DEF Elems
    <3>2. i - 1 \in 1 .. Len(s) - 1 /\ (i - 1) + 1 = i
      BY <3>1, <2>1, <2>5, <1>1
    <3>3. Tail(s)[i - 1] = x
      BY <3>1, <3>2, <2>2
    <3> QED BY <3>2, <3>3, <2>3 DEF Elems
  <2>6. ASSUME NEW x \in Elems(Tail(s)) PROVE x \in Elems(s)
    <3>1. PICK i \in 1 .. Len(s) - 1 : x = Tail(s)[i]
      BY <2>3 DEF Elems
    <3>2. i + 1 \in 1 .. Len(s)
      BY <1>1
    <3>3. x = s[i + 1]
      BY <3>1, <2>2
    <3> QED BY <3>2, <3>3, <1>1 DEF Elems
  <2> QED BY <2>4, <2>5, <2>6
<1> QED BY <1>2, <1>3

LEMMA ElemsEmpty == Elems(<<>>) = {}
  BY DEF Elems

LEMMA ElemsConcat ==
  ASSUME NEW S, NEW s \in Seq(S), NEW t \in Seq(S)
  PROVE  Elems(s \o t) = Elems(s) \cup Elems(t)
<1>1. /\ Len(s) \in Nat /\ DOMAIN s = 1 .. Len(s) /\ Len(t) \in Nat /\ DOMAIN t = 1 .. Len(t)
  BY LenProperties
<1>2. /\ s \o t \in Seq(S) /\ Len(s \o t) = Len(s) + Len(t)
      /\ \A i \in 1 .. Len(s) + Len(t) :
           (s \o t)[i] = IF i <= Len(s) THEN s[i] ELSE t[i - Len(s)]
  BY ConcatProperties
<1>3. DOMAIN (s \o t) = 1 .. Len(s) + Len(t)
  BY <1>2, LenProperties
<1>4. ASSUME NEW x \in Elems(s \o t) PROVE x \in Elems(s) \cup Elems(t)
  <2>1. PICK i \in 1 .. Len(s) + Len(t) : x = (s \o t)[i]
    BY <1>3 DEF Elems
  <2>2. CASE i <= Len(s)
    <3>1. i \in DOMAIN s /\ x = s[i]
      BY <2>1, <2>2, <1>1, <1>2
    <3> QED BY <3>1 DEF Elems
  <2>3. CASE ~ (i <= Len(s))
    <3>1. i - Len(s) \in DOMAIN t /\ x = t[i - Len(s)]
      BY <2>1, <2>3, <1>1, <1>2
    <3> QED BY <3>1 DEF Elems
  <2> QED BY <2>2, <2>3
<1>5. ASSUME NEW x \in Elems(s) PROVE x \in Elems(s \o t)
  <2>1. PICK i \in 1 .. Len(s) : x = s[i]
    BY <1>1 DEF Elems
  <2>2. i \in 1 .. Len(s) + Len(t) /\ x = (s \o t)[i]
    BY <2>1, <1>1, <1>2
  <2> QED BY <2>2, <1>3 DEF Elems
<1>6. ASSUME NEW x \in Elems(t) PROVE x \in Elems(s \o t)
  <2>1. PICK i \in 1 .. Len(t) : x = t[i]
    BY <1>1 DEF Elems
  <2>2. Len(s) + i \in 1 .. Len(s) + Len(t) /\ ~ (Len(s) + i <= Len(s)) /\ (Len(s) + i) - Len(s) = i
    BY <1>1
  <2>3. x = (s \o t)[Len(s) + i]
    BY <2>1, <2>2, <1>2
  <2> QED BY <2>2, <2>3, <1>3 DEF Elems
<1> QED BY <1>4, <1>5, <1>6

(* What the calls still have to come to, with another call on top.         *)
LEMMA PushCalls ==
  ASSUME NEW d, NEW calls \in Seq(Frame), NEW frame \in Frame
  PROVE  /\ \A t, u : HasRef(Append(calls, frame), t, u) <=>
                        HasRef(calls, t, u) \/ (frame.config = t /\ u \in Elems(frame.refs))
         /\ \A t, f : HasFile(Append(calls, frame), t, f) <=>
                        HasFile(calls, t, f) \/ (frame.config = t /\ f \in Elems(frame.files))
         /\ CallsOK(d, Append(calls, frame)) <=> CallsOK(d, calls) /\ FrameOK(d, frame)
<1> DEFINE new == Append(calls, frame)
<1>1. /\ Len(new) = Len(calls) + 1 /\ Len(calls) \in Nat /\ new[Len(calls) + 1] = frame
      /\ \A i \in 1 .. Len(calls) : new[i] = calls[i]
  BY StackPush
<1>2. 1 .. Len(new) = (1 .. Len(calls)) \cup {Len(calls) + 1}
  BY <1>1
<1> HIDE DEF new
<1>3. \A t, u : HasRef(new, t, u) <=> HasRef(calls, t, u) \/ (frame.config = t /\ u \in Elems(frame.refs))
  BY <1>1, <1>2 DEF HasRef
<1>4. \A t, f : HasFile(new, t, f) <=> HasFile(calls, t, f) \/ (frame.config = t /\ f \in Elems(frame.files))
  BY <1>1, <1>2 DEF HasFile
<1>5. CallsOK(d, new) <=> CallsOK(d, calls) /\ FrameOK(d, frame)
  BY <1>1, <1>2 DEF CallsOK
<1> QED BY <1>3, <1>4, <1>5 DEF new

LEMMA NoCalls ==
  /\ \A t, u : ~ HasRef(<<>>, t, u) /\ ~ HasFile(<<>>, t, u)
  /\ \A d : CallsOK(d, <<>>)
BY DEF HasRef, HasFile, CallsOK

LEMMA TopCalls ==
  ASSUME Inv, NEW d \in Analyses, stack[d] # <<>>
  PROVE  /\ \A t, u : HasRef(stack[d], t, u) <=>
                        HasRef(Below(d), t, u) \/ (Top(d).config = t /\ u \in Elems(Top(d).refs))
         /\ \A t, f : HasFile(stack[d], t, f) <=>
                        HasFile(Below(d), t, f) \/ (Top(d).config = t /\ f \in Elems(Top(d).files))
         /\ CallsOK(d, stack[d]) <=> CallsOK(d, Below(d)) /\ FrameOK(d, Top(d))
<1>1. stack[d] \in Seq(Frame)
  BY DEF Inv, TypeOK
<1>2. /\ Len(stack[d]) \in Nat \ {0} /\ Len(Below(d)) = Len(stack[d]) - 1
      /\ \A i \in 1 .. Len(stack[d]) - 1 : Below(d)[i] = stack[d][i]
  BY <1>1, StackTop DEF Below
<1>3. /\ 1 .. Len(stack[d]) = (1 .. Len(Below(d))) \cup {Len(stack[d])}
      /\ \A i \in 1 .. Len(Below(d)) : Below(d)[i] = stack[d][i]
  BY <1>2
<1>4. \A t, u : HasRef(stack[d], t, u) <=>
                  HasRef(Below(d), t, u) \/ (Top(d).config = t /\ u \in Elems(Top(d).refs))
  BY <1>3 DEF HasRef, Top
<1>5. \A t, f : HasFile(stack[d], t, f) <=>
                  HasFile(Below(d), t, f) \/ (Top(d).config = t /\ f \in Elems(Top(d).files))
  BY <1>3 DEF HasFile, Top
<1>6. CallsOK(d, stack[d]) <=> CallsOK(d, Below(d)) /\ FrameOK(d, Top(d))
  BY <1>3 DEF CallsOK, Top
<1> QED BY <1>4, <1>5, <1>6

(* The tsconfigs that can be reached: the least set the steps of an        *)
(* analysis do not leave.                                                  *)
LEMMA ReachableFacts ==
  ASSUME TypeOK, NEW d \in Analyses
  PROVE  /\ Reachable(d) \subseteq Configs
         /\ Iterator(d) \in Seq(Configs) /\ Elems(Iterator(d)) \ broken \subseteq Reachable(d)
         /\ \A t \in Reachable(d) : Follows(d, t) \ broken \subseteq Reachable(d)
         /\ \A V \in SUBSET Configs :
              /\ Elems(Iterator(d)) \ broken \subseteq V
              /\ \A t \in V : Follows(d, t) \ broken \subseteq V
              => Reachable(d) \subseteq V
<1>1. Iterator(d) \in Seq(Configs)
  <2>1. found[d] \in Seq(TsConfigs) /\ TsConfigs \subseteq Configs /\ Generated \in Configs
    BY DEF TypeOK, ProjectOK, Configs
  <2>2. found[d] \in Seq(Configs) /\ <<Generated>> \in Seq(Configs)
    BY <2>1, SeqWider
  <2> QED BY <2>2 DEF Iterator
<1>2. \A S \in SUBSET Configs : Leads(d, S) <=>
        /\ Elems(Iterator(d)) \ broken \subseteq S
        /\ \A t \in S : Follows(d, t) \ broken \subseteq S
  BY DEF Leads, Follows, Elems
<1>3. Elems(Iterator(d)) \subseteq Configs
  BY <1>1, ElemsFacts
<1>4. \A t \in Configs : Follows(d, t) \subseteq Configs
  <2> TAKE t \in Configs
  <2>1. Elems(refs[t]) \subseteq Configs
    BY RefsAreConfigs, ElemsFacts
  <2> QED BY <2>1 DEF Follows
<1>5. Reachable(d) = {t \in Configs : \A S \in SUBSET Configs : Leads(d, S) => t \in S}
  BY DEF Reachable
<1> QED BY <1>1, <1>2, <1>3, <1>4, <1>5

-----------------------------------------------------------------------------
(* The project itself does not change.                                     *)
LEMMA TypedStep ==
  ASSUME UNCHANGED project, NEW d \in Analyses,
         QueueOK(d, todo'[d]), CallsOK(d, stack'[d]),
         pc'[d] \in {"start", "init"} => seen'[d] = {},
         pc'[d] = "configs" => \E V \in SUBSET Configs :
                                 Visited(d, V, todo'[d], seen'[d], stack'[d], pending'[d]),
         pc'[d] = "plain" => \A f \in pending'[d] : ~ CanBeTyped(d, f),
         TypedOK(d, pending'[d], results'[d])
  PROVE  TypedInv(d)'
<1>1. /\ driver' = driver /\ input' = input /\ found' = found /\ sourceFiles' = sourceFiles
      /\ rootNames' = rootNames /\ refs' = refs /\ broken' = broken
  BY DEF project
<1>2. Iterator(d)' = Iterator(d) /\ \A t : FilesOf(d, t)' = FilesOf(d, t) /\ Follows(d, t)' = Follows(d, t)
  BY <1>1 DEF Iterator, FilesOf, Follows
<1>3. Reachable(d)' = Reachable(d)
  BY <1>1, <1>2 DEF Reachable, Leads
<1>4. \A f : CanBeTyped(d, f)' = CanBeTyped(d, f)
  BY <1>2, <1>3 DEF CanBeTyped
<1>5. QueueOK(d, todo[d])'
  BY <1>1, <1>3 DEF QueueOK
<1>6. CallsOK(d, stack[d])'
  BY <1>2, <1>3 DEF CallsOK, FrameOK
<1>7. \A V : Visited(d, V, todo'[d], seen'[d], stack'[d], pending'[d])
             => Visited(d, V, todo[d], seen[d], stack[d], pending[d])'
  BY <1>1, <1>2 DEF Visited, HasRef, HasFile
<1>8. TypedOK(d, pending[d], results[d])'
  BY <1>1, <1>4 DEF TypedOK
<1> QED BY <1>4, <1>5, <1>6, <1>7, <1>8 DEF TypedInv

LEMMA TypedSame ==
  ASSUME UNCHANGED project, NEW d \in Analyses, TypedInv(d),
         pc'[d] = pc[d], todo'[d] = todo[d], seen'[d] = seen[d], stack'[d] = stack[d],
         pending'[d] = pending[d], results'[d] = results[d]
  PROVE  TypedInv(d)'
BY TypedStep DEF TypedInv

(* A step of an analysis leaves the others alone.                          *)
LEMMA OnlyItself ==
  ASSUME Inv, NEW d \in Analyses, Step(d), NEW e \in Analyses \ {d}
  PROVE  /\ pc'[e] = pc[e] /\ todo'[e] = todo[e] /\ seen'[e] = seen[e] /\ stack'[e] = stack[e]
         /\ pending'[e] = pending[e] /\ results'[e] = results[e]
<1>1. /\ DOMAIN pc = Analyses /\ DOMAIN todo = Analyses /\ DOMAIN seen = Analyses
      /\ DOMAIN stack = Analyses /\ DOMAIN pending = Analyses /\ DOMAIN results = Analyses
  BY DEF Inv, TypeOK
<1> USE <1>1
<1>2. CASE StartEmpty(d) \/ Start(d) \/ InitEnds(d) \/ ConfigsEnd(d) \/ Finish(d)
  BY <1>2 DEF StartEmpty, Start, InitEnds, ConfigsEnd, Finish, Goto
<1>3. CASE SkipConfig(d) \/ EnterConfig(d) \/ WatchConfig(d)
  BY <1>3 DEF SkipConfig, EnterConfig, WatchConfig, TakeConfig, CreateProgram, Goto
<1>4. CASE SkipFile(d) \/ AnalyzeWithProgram(d) \/ ReadFails(d)
  BY <1>4 DEF SkipFile, AnalyzeWithProgram, ReadFails, SetTop, Analyze, Goto
<1>5. CASE DeleteProgram(d) \/ NextReference(d) \/ Return(d)
  BY <1>5 DEF DeleteProgram, NextReference, Return, SetTop, CreateProgram
<1>6. CASE AnalyzeWithoutProgram(d)
  BY <1>6 DEF AnalyzeWithoutProgram, Analyze
<1> QED BY <1>2, <1>3, <1>4, <1>5, <1>6 DEF Step

(* Beginning and end.  When the loop over the tsconfigs has ended with     *)
(* files pending, no tsconfig that can be reached has one of them.         *)
LEMMA TypedQuiet ==
  ASSUME Inv, NEW d \in Analyses, TypedInv(d), UNCHANGED project,
         StartEmpty(d) \/ Start(d) \/ InitEnds(d) \/ ReadFails(d) \/ ConfigsEnd(d) \/ Finish(d)
  PROVE  TypedInv(d)'
<1>1. /\ TypeOK /\ pc \in [Analyses -> Labels] /\ stack \in [Analyses -> Seq(Frame)]
      /\ todo \in [Analyses -> Seq(Configs)] /\ StackOK(d)
  BY DEF Inv, TypeOK, Labels
<1>2. UNCHANGED <<pending, seen, results>>
  BY DEF StartEmpty, Start, InitEnds, ReadFails, ConfigsEnd, Finish
<1>3. TypedOK(d, pending'[d], results'[d])
  BY <1>2 DEF TypedInv
<1>4. CASE StartEmpty(d) \/ Start(d) \/ Finish(d)
  <2>1. UNCHANGED <<todo, stack>> /\ pc'[d] \in {"done", "init"} /\ (pc'[d] = "init" => pc[d] = "start")
    BY <1>1, <1>4 DEF StartEmpty, Start, Finish, Goto
  <2> QED BY <2>1, <1>2, <1>3, TypedStep DEF TypedInv
<1>5. CASE ReadFails(d)
  <2>1. UNCHANGED todo /\ stack'[d] = <<>> /\ pc'[d] = "failed"
    BY <1>1, <1>5 DEF ReadFails, Goto
  <2>2. CallsOK(d, stack'[d])
    BY <2>1, NoCalls
  <2> QED BY <2>1, <2>2, <1>2, <1>3, TypedStep DEF TypedInv
<1>6. CASE InitEnds(d)
  <2>1. UNCHANGED stack /\ todo'[d] = Iterator(d) /\ pc'[d] = "configs" /\ pc[d] = "init"
    BY <1>1, <1>6 DEF InitEnds, Goto
  <2>2. QueueOK(d, todo'[d])
    BY <2>1, <1>1, ReachableFacts DEF QueueOK
  <2>3. Visited(d, {}, todo'[d], seen'[d], stack'[d], pending'[d])
    BY <2>1, <1>2 DEF Visited, TypedInv
  <2> QED BY <2>1, <2>2, <2>3, <1>2, <1>3, TypedStep DEF TypedInv
<1>7. CASE ConfigsEnd(d)
  <2>1. /\ UNCHANGED <<todo, stack>> /\ pc'[d] = "plain" /\ pc[d] = "configs" /\ stack[d] = <<>>
        /\ todo[d] = <<>> \/ pending[d] = {}
    BY <1>1, <1>7 DEF ConfigsEnd, MoreConfigs, Goto
  <2>2. ASSUME NEW f \in pending[d], CanBeTyped(d, f) PROVE FALSE
    <3>1. todo[d] = <<>>
      BY <2>1, <2>2
    <3>2. PICK V \in SUBSET Configs : Visited(d, V, <<>>, seen[d], <<>>, pending[d])
      BY <2>1, <3>1 DEF TypedInv
    <3>3. /\ Elems(Iterator(d)) \ broken \subseteq V
          /\ \A t \in V : Follows(d, t) \ broken \subseteq V
          /\ \A t \in V : FilesOf(d, t) \cap pending[d] = {}
      BY <3>2, ElemsEmpty, NoCalls DEF Visited
    <3>4. Reachable(d) \subseteq V
      BY <3>3, <1>1, ReachableFacts
    <3> QED BY <2>2, <3>3, <3>4 DEF CanBeTyped
  <2>3. \A f \in pending'[d] : ~ CanBeTyped(d, f)
    BY <2>2, <1>2
  <2> QED BY <2>1, <2>3, <1>2, <1>3, TypedStep DEF TypedInv
<1> QED BY <1>4, <1>5, <1>6, <1>7

-----------------------------------------------------------------------------
(* The loop over the tsconfigs.                                            *)
LEMMA TakenFacts ==
  ASSUME Inv, NEW d \in Analyses, TypedInv(d), MoreConfigs(d), TakeConfig(d)
  PROVE  /\ Head(todo[d]) \in Configs /\ stack[d] = <<>> /\ pc[d] = "configs"
         /\ Elems(todo[d]) = Elems(todo'[d]) \cup {Head(todo[d])}
         /\ seen'[d] = seen[d] \cup {Head(todo[d])}
         /\ QueueOK(d, todo'[d])
         /\ Head(todo[d]) \notin broken => Head(todo[d]) \in Reachable(d)
<1>1. /\ todo \in [Analyses -> Seq(Configs)] /\ seen \in [Analyses -> SUBSET Configs]
      /\ todo[d] # <<>> /\ todo[d] \in Seq(Configs) /\ stack[d] = <<>> /\ pc[d] = "configs"
  BY DEF Inv, TypeOK, MoreConfigs
<1>2. todo'[d] = Tail(todo[d]) /\ seen'[d] = seen[d] \cup {Head(todo[d])}
  BY <1>1 DEF TakeConfig
<1>3. Elems(todo[d]) = Elems(todo'[d]) \cup {Head(todo[d])}
  BY <1>1, <1>2, ElemsFacts
<1>4. Head(todo[d]) \in Configs
  BY <1>1, QueueHead
<1> QED BY <1>1, <1>2, <1>3, <1>4 DEF QueueOK, TypedInv

LEMMA TypedSkipConfig ==
  ASSUME Inv, NEW d \in Analyses, TypedInv(d), UNCHANGED project, SkipConfig(d)
  PROVE  TypedInv(d)'
<1>1. MoreConfigs(d) /\ TakeConfig(d) /\ UNCHANGED <<pc, pending, stack, results>>
      /\ (Head(todo[d]) \in broken \/ Head(todo[d]) \in seen[d])
  BY DEF SkipConfig, MustSkip
<1>2. /\ stack[d] = <<>> /\ pc[d] = "configs"
      /\ Elems(todo[d]) = Elems(todo'[d]) \cup {Head(todo[d])}
      /\ seen'[d] = seen[d] \cup {Head(todo[d])} /\ QueueOK(d, todo'[d])
  BY <1>1, TakenFacts
<1>3. PICK V \in SUBSET Configs : Visited(d, V, todo[d], seen[d], stack[d], pending[d])
  BY <1>2 DEF TypedInv
<1>4. Visited(d, V, todo'[d], seen'[d], stack'[d], pending'[d])
  BY <1>1, <1>2, <1>3 DEF Visited
<1> QED BY <1>1, <1>2, <1>4, TypedStep DEF TypedInv

(* The analysis comes to a tsconfig, with all its files and references.    *)
LEMMA VisitNew ==
  ASSUME Inv, NEW d \in Analyses, NEW V \in SUBSET Configs, NEW t \in Configs, t \notin broken,
         t \in Reachable(d), NEW queue, NEW taken, NEW calls \in Seq(Frame), NEW frame \in Frame,
         frame.config = t, Elems(frame.files) = FilesOf(d, t), Elems(frame.refs) = Follows(d, t),
         CallsOK(d, calls),
         Elems(Iterator(d)) \ broken \subseteq V \cup {t} \cup Elems(queue),
         taken \ broken \subseteq V \cup {t},
         \A s \in V : \A u \in Follows(d, s) \ broken :
           u \in V \cup {t} \cup Elems(queue) \/ HasRef(calls, s, u),
         \A s \in V : \A f \in FilesOf(d, s) \cap pending[d] : HasFile(calls, s, f)
  PROVE  /\ Visited(d, V \cup {t}, queue, taken, Append(calls, frame), pending[d])
         /\ CallsOK(d, Append(calls, frame))
<1>1. /\ \A s, u : HasRef(Append(calls, frame), s, u) <=>
                     HasRef(calls, s, u) \/ (t = s /\ u \in Follows(d, t))
      /\ \A s, f : HasFile(Append(calls, frame), s, f) <=>
                     HasFile(calls, s, f) \/ (t = s /\ f \in FilesOf(d, t))
      /\ CallsOK(d, Append(calls, frame)) <=> CallsOK(d, calls) /\ FrameOK(d, frame)
  BY PushCalls
<1>2. FrameOK(d, frame)
  BY DEF FrameOK
<1>3. \A s \in V \cup {t} : \A u \in Follows(d, s) \ broken :
        u \in (V \cup {t}) \cup Elems(queue) \/ HasRef(Append(calls, frame), s, u)
  BY <1>1
<1>4. \A s \in V \cup {t} : \A f \in FilesOf(d, s) \cap pending[d] : HasFile(Append(calls, frame), s, f)
  BY <1>1
<1> QED BY <1>1, <1>2, <1>3, <1>4 DEF Visited

LEMMA TypedEnterConfig ==
  ASSUME Inv, NEW d \in Analyses, TypedInv(d), UNCHANGED project, EnterConfig(d)
  PROVE  TypedInv(d)'
<1>1. /\ MoreConfigs(d) /\ TakeConfig(d) /\ UNCHANGED <<pc, pending, results>>
      /\ driver[d] # "watch" /\ Head(todo[d]) \notin broken
  BY DEF EnterConfig
<1>2. /\ Head(todo[d]) \in Configs /\ stack[d] = <<>> /\ pc[d] = "configs"
      /\ Elems(todo[d]) = Elems(todo'[d]) \cup {Head(todo[d])}
      /\ seen'[d] = seen[d] \cup {Head(todo[d])} /\ QueueOK(d, todo'[d])
      /\ Head(todo[d]) \in Reachable(d)
  BY <1>1, TakenFacts
<1>3. PICK t \in Configs : t = Head(todo[d])
  BY <1>2
<1>4. PICK frame : frame = [config |-> t, program |-> NewId, files |-> sourceFiles[t], refs |-> refs[t]]
  OBVIOUS
<1>5. /\ frame \in Frame /\ frame.config = t
      /\ Elems(frame.files) = FilesOf(d, t) /\ Elems(frame.refs) = Follows(d, t)
  <2>1. sourceFiles[t] \in Seq(Files) /\ refs[t] \in Seq(Configs) /\ NewId \in Nat
    BY RefsAreConfigs DEF Inv, TypeOK, ProjectOK, NewId
  <2> QED BY <1>1, <1>4, <2>1 DEF Frame, FilesOf, Follows, Elems
<1>6. PICK calls \in Seq(Frame) : calls = <<>>
  BY EmptySeq
<1>7. stack'[d] = Append(calls, frame)
  BY <1>3, <1>4, <1>6 DEF EnterConfig, CreateProgram, Inv, TypeOK
<1>8. PICK V \in SUBSET Configs : Visited(d, V, todo[d], seen[d], calls, pending[d])
  BY <1>2, <1>6 DEF TypedInv
<1>9. /\ Elems(Iterator(d)) \ broken \subseteq V \cup {t} \cup Elems(todo'[d])
      /\ seen'[d] \ broken \subseteq V \cup {t}
      /\ \A s \in V : \A u \in Follows(d, s) \ broken :
           u \in V \cup {t} \cup Elems(todo'[d]) \/ HasRef(calls, s, u)
      /\ \A s \in V : \A f \in FilesOf(d, s) \cap pending[d] : HasFile(calls, s, f)
  BY <1>2, <1>3, <1>8 DEF Visited
<1>10. CallsOK(d, calls)
  BY <1>6, NoCalls
<1>11. /\ Visited(d, V \cup {t}, todo'[d], seen'[d], stack'[d], pending'[d])
       /\ CallsOK(d, stack'[d])
  <2>1. /\ Visited(d, V \cup {t}, todo'[d], seen'[d], Append(calls, frame), pending[d])
        /\ CallsOK(d, Append(calls, frame))
    <3>1. PICK queue, taken : queue = todo'[d] /\ taken = seen'[d]
      OBVIOUS
    <3>2. /\ Visited(d, V \cup {t}, queue, taken, Append(calls, frame), pending[d])
          /\ CallsOK(d, Append(calls, frame))
      BY <1>1, <1>2, <1>3, <1>5, <1>9, <1>10, <3>1, VisitNew
    <3> QED BY <3>1, <3>2
  <2> QED BY <2>1, <1>1, <1>7
<1> QED BY <1>1, <1>2, <1>11, TypedStep DEF TypedInv

LEMMA TypedWatchConfig ==
  ASSUME Inv, NEW d \in Analyses, TypedInv(d), UNCHANGED project, WatchConfig(d)
  PROVE  TypedInv(d)'
<1>1. MoreConfigs(d) /\ TakeConfig(d) /\ UNCHANGED <<pending, results>> /\ driver[d] = "watch"
  BY DEF WatchConfig
<1>2. /\ Head(todo[d]) \in Configs /\ stack[d] = <<>> /\ pc[d] = "configs"
      /\ Elems(todo[d]) = Elems(todo'[d]) \cup {Head(todo[d])}
      /\ seen'[d] = seen[d] \cup {Head(todo[d])} /\ QueueOK(d, todo'[d])
      /\ Head(todo[d]) \notin broken => Head(todo[d]) \in Reachable(d)
  BY <1>1, TakenFacts
<1>3. CASE Head(todo[d]) \in broken
  <2>1. UNCHANGED stack /\ pc'[d] = "failed"
    BY <1>3 DEF WatchConfig, Goto, Inv, TypeOK
  <2> QED BY <2>1, <1>1, <1>2, TypedStep DEF TypedInv
<1>4. CASE Head(todo[d]) \notin broken
  <2>1. PICK t \in Configs : t = Head(todo[d])
    BY <1>2
  <2>2. PICK frame : frame = [config |-> t, program |-> NoProgram, files |-> rootNames[t], refs |-> <<>>]
    OBVIOUS
  <2>3. /\ frame \in Frame /\ frame.config = t
        /\ Elems(frame.files) = FilesOf(d, t) /\ Elems(frame.refs) = Follows(d, t)
    <3>1. rootNames[t] \in Seq(Files) /\ <<>> \in Seq(Configs) /\ NoProgram \in Nat
      BY EmptySeq DEF Inv, TypeOK, ProjectOK, NoProgram
    <3> QED BY <1>1, <2>2, <3>1, ElemsEmpty DEF Frame, FilesOf, Follows, Elems
  <2>4. PICK calls \in Seq(Frame) : calls = <<>>
    BY EmptySeq
  <2>5. stack'[d] = Append(calls, frame) /\ UNCHANGED pc
    <3>1. stack'[d] = <<frame>> /\ UNCHANGED pc
      BY <1>4, <2>1, <2>2 DEF WatchConfig, Inv, TypeOK
    <3> QED BY <3>1, <2>4, <2>3
  <2>6. PICK V \in SUBSET Configs : Visited(d, V, todo[d], seen[d], calls, pending[d])
    BY <1>2, <2>4 DEF TypedInv
  <2>7. /\ Elems(Iterator(d)) \ broken \subseteq V \cup {t} \cup Elems(todo'[d])
        /\ seen'[d] \ broken \subseteq V \cup {t}
        /\ \A s \in V : \A u \in Follows(d, s) \ broken :
             u \in V \cup {t} \cup Elems(todo'[d]) \/ HasRef(calls, s, u)
        /\ \A s \in V : \A f \in FilesOf(d, s) \cap pending[d] : HasFile(calls, s, f)
    BY <1>2, <2>1, <2>6 DEF Visited
  <2>8. CallsOK(d, calls)
    BY <2>4, NoCalls
  <2>9. PICK queue, taken : queue = todo'[d] /\ taken = seen'[d]
    OBVIOUS
  <2>10. /\ Visited(d, V \cup {t}, queue, taken, Append(calls, frame), pending[d])
         /\ CallsOK(d, Append(calls, frame))
    BY <1>2, <1>4, <2>1, <2>3, <2>7, <2>8, <2>9, VisitNew
  <2>11. /\ Visited(d, V \cup {t}, todo'[d], seen'[d], stack'[d], pending'[d])
         /\ CallsOK(d, stack'[d])
    BY <2>5, <2>9, <2>10, <1>1
  <2> QED BY <2>5, <2>11, <1>1, <1>2, TypedStep DEF TypedInv
<1> QED BY <1>3, <1>4

-----------------------------------------------------------------------------
(* The innermost call goes on: what it no longer has to come to is         *)
(* analyzed, is on the work list or is broken.                             *)
LEMMA TypedTop ==
  ASSUME Inv, NEW d \in Analyses, TypedInv(d), UNCHANGED <<project, pc, seen>>,
         stack[d] # <<>>, NEW frame \in Frame, frame.config = Top(d).config,
         SetTop(d, frame),
         Elems(frame.files) \subseteq Elems(Top(d).files),
         Elems(frame.refs) \subseteq Elems(Top(d).refs),
         QueueOK(d, todo'[d]), Elems(todo[d]) \subseteq Elems(todo'[d]),
         Elems(Top(d).refs) \ broken \subseteq Elems(frame.refs) \cup Elems(todo'[d]),
         pending'[d] \subseteq pending[d],
         Elems(Top(d).files) \cap pending'[d] \subseteq Elems(frame.files),
         TypedOK(d, pending'[d], results'[d])
  PROVE  TypedInv(d)'
<1>1. Below(d) \in Seq(Frame) /\ pc[d] = "configs"
  BY Calls
<1>2. stack'[d] = Append(Below(d), frame)
  BY DEF SetTop, Inv, TypeOK
<1>3. /\ \A t, u : HasRef(stack[d], t, u) <=>
                     HasRef(Below(d), t, u) \/ (Top(d).config = t /\ u \in Elems(Top(d).refs))
      /\ \A t, f : HasFile(stack[d], t, f) <=>
                     HasFile(Below(d), t, f) \/ (Top(d).config = t /\ f \in Elems(Top(d).files))
      /\ CallsOK(d, Below(d)) /\ FrameOK(d, Top(d))
  BY TopCalls DEF TypedInv
<1>4. /\ \A t, u : HasRef(stack'[d], t, u) <=>
                     HasRef(Below(d), t, u) \/ (frame.config = t /\ u \in Elems(frame.refs))
      /\ \A t, f : HasFile(stack'[d], t, f) <=>
                     HasFile(Below(d), t, f) \/ (frame.config = t /\ f \in Elems(frame.files))
      /\ CallsOK(d, stack'[d]) <=> CallsOK(d, Below(d)) /\ FrameOK(d, frame)
  <2>1. PICK calls \in Seq(Frame) : calls = Below(d)
    BY <1>1
  <2>2. /\ \A t, u : HasRef(Append(calls, frame), t, u) <=>
                       HasRef(calls, t, u) \/ (frame.config = t /\ u \in Elems(frame.refs))
        /\ \A t, f : HasFile(Append(calls, frame), t, f) <=>
                       HasFile(calls, t, f) \/ (frame.config = t /\ f \in Elems(frame.files))
        /\ CallsOK(d, Append(calls, frame)) <=> CallsOK(d, calls) /\ FrameOK(d, frame)
    BY PushCalls
  <2> QED BY <2>1, <2>2, <1>2
<1>5. CallsOK(d, stack'[d])
  BY <1>3, <1>4 DEF FrameOK
<1>6. PICK V \in SUBSET Configs : Visited(d, V, todo[d], seen[d], stack[d], pending[d])
  BY <1>1 DEF TypedInv
<1>7. \A t \in V : \A u \in Follows(d, t) \ broken :
        u \in V \cup Elems(todo'[d]) \/ HasRef(stack'[d], t, u)
  BY <1>3, <1>4, <1>6 DEF Visited
<1>8. \A t \in V : \A f \in FilesOf(d, t) \cap pending'[d] : HasFile(stack'[d], t, f)
  <2> SUFFICES ASSUME NEW t \in V, NEW f \in FilesOf(d, t) \cap pending'[d]
               PROVE  HasFile(stack'[d], t, f)
    OBVIOUS
  <2>1. HasFile(stack[d], t, f)
    BY <1>6 DEF Visited
  <2> QED BY <2>1, <1>3, <1>4
<1>9. Visited(d, V, todo'[d], seen'[d], stack'[d], pending'[d])
  BY <1>6, <1>7, <1>8 DEF Visited
<1> QED BY <1>1, <1>5, <1>9, TypedStep

(* The innermost call without its next file.                               *)
LEMMA FileTaken ==
  ASSUME Inv, NEW d \in Analyses, InFiles(d), NEW frame, frame = [Top(d) EXCEPT !.files = Tail(@)]
  PROVE  /\ frame \in Frame /\ frame.config = Top(d).config /\ frame.refs = Top(d).refs
         /\ NextFile(d) \in Files
         /\ Elems(Top(d).files) = Elems(frame.files) \cup {NextFile(d)}
<1>1. Top(d) \in Frame /\ Top(d).files \in Seq(Files) /\ Top(d).files # <<>>
  BY Calls DEF InFiles
<1>2. Head(Top(d).files) \in Files /\ Tail(Top(d).files) \in Seq(Files)
  BY <1>1, QueueHead
<1>3. Elems(Top(d).files) = Elems(Tail(Top(d).files)) \cup {Head(Top(d).files)}
  BY <1>1, ElemsFacts
<1>4. /\ frame \in Frame /\ frame.config = Top(d).config /\ frame.refs = Top(d).refs
      /\ frame.files = Tail(Top(d).files)
  BY <1>1, <1>2 DEF Frame
<1> QED BY <1>2, <1>3, <1>4 DEF NextFile

LEMMA TypedSkipFile ==
  ASSUME Inv, NEW d \in Analyses, TypedInv(d), UNCHANGED project, SkipFile(d)
  PROVE  TypedInv(d)'
<1>1. /\ InFiles(d) /\ stack[d] # <<>> /\ NextFile(d) \notin pending[d]
      /\ UNCHANGED <<pc, pending, todo, seen, results>>
  BY DEF SkipFile, InFiles
<1>2. PICK frame : frame = [Top(d) EXCEPT !.files = Tail(@)]
  OBVIOUS
<1>3. /\ frame \in Frame /\ frame.config = Top(d).config /\ frame.refs = Top(d).refs
      /\ Elems(Top(d).files) = Elems(frame.files) \cup {NextFile(d)}
  BY <1>1, <1>2, FileTaken
<1>4. SetTop(d, frame)
  BY <1>2 DEF SkipFile
<1>5. Elems(Top(d).files) \cap pending'[d] \subseteq Elems(frame.files)
  BY <1>1, <1>3
<1>6. QueueOK(d, todo'[d]) /\ TypedOK(d, pending'[d], results'[d])
  BY <1>1 DEF TypedInv
<1> QED BY <1>1, <1>3, <1>4, <1>5, <1>6, TypedTop

LEMMA TypedAnalyzeWithProgram ==
  ASSUME Inv, NEW d \in Analyses, TypedInv(d), UNCHANGED project, AnalyzeWithProgram(d)
  PROVE  TypedInv(d)'
<1>1. /\ InFiles(d) /\ stack[d] # <<>> /\ NextFile(d) \in pending[d]
      /\ UNCHANGED <<pc, todo, seen>>
      /\ pending' = [pending EXCEPT ![d] = NoLongerPending(d, NextFile(d))]
  BY DEF AnalyzeWithProgram, InFiles
<1>2. PICK frame : frame = [Top(d) EXCEPT !.files = Tail(@)]
  OBVIOUS
<1>3. /\ frame \in Frame /\ frame.config = Top(d).config /\ frame.refs = Top(d).refs
      /\ NextFile(d) \in Files
      /\ Elems(Top(d).files) = Elems(frame.files) \cup {NextFile(d)}
  BY <1>1, <1>2, FileTaken
<1>4. SetTop(d, frame)
  BY <1>2 DEF AnalyzeWithProgram
<1>5. pending'[d] = pending[d] \ {NextFile(d)}
  BY <1>1 DEF NoLongerPending, Inv, TypeOK
<1>6. Elems(Top(d).files) \cap pending'[d] \subseteq Elems(frame.files)
  BY <1>3, <1>5
<1>7. /\ results'[d][NextFile(d)].config = Top(d).config
      /\ \A f \in Files \ {NextFile(d)} : results'[d][f] = results[d][f]
  <2>1. results \in [Analyses -> [Files -> Result]]
    BY DEF Inv, TypeOK
  <2> QED BY <2>1, <1>3 DEF AnalyzeWithProgram, Analyze
<1>8. Top(d).config # None /\ CanBeTyped(d, NextFile(d))
  <2>1. FrameOK(d, Top(d))
    BY <1>1, TopCalls DEF TypedInv
  <2>2. Top(d).config \in Configs
    BY <1>1, Calls
  <2> QED BY <2>1, <2>2, <1>3, ConfigAssumption DEF FrameOK, CanBeTyped, Configs
<1>9. TypedOK(d, pending'[d], results'[d])
  <2>1. input[d] \subseteq Files /\ TypedOK(d, pending[d], results[d])
    BY DEF Inv, TypeOK, ProjectOK, TypedInv
  <2> QED BY <2>1, <1>5, <1>7, <1>8 DEF TypedOK
<1>10. QueueOK(d, todo'[d])
  BY <1>1 DEF TypedInv
<1> QED BY <1>1, <1>3, <1>4, <1>5, <1>6, <1>9, <1>10, TypedTop

LEMMA TypedDeleteProgram ==
  ASSUME Inv, NEW d \in Analyses, TypedInv(d), UNCHANGED project, DeleteProgram(d)
  PROVE  TypedInv(d)'
<1>1. /\ stack[d] # <<>> /\ UNCHANGED <<pc, pending, seen, results>>
      /\ TypedOK(d, pending'[d], results'[d])
  BY DEF DeleteProgram, AfterFiles, TypedInv
<1>2. Top(d) \in Frame /\ Top(d).refs \in Seq(Configs) /\ NoProgram \in Nat /\ <<>> \in Seq(Configs)
  BY <1>1, Calls, EmptySeq DEF NoProgram
<1>3. CASE driver[d] = "java"
  <2>1. PICK frame : frame = [Top(d) EXCEPT !.program = NoProgram, !.refs = <<>>]
    OBVIOUS
  <2>2. /\ frame \in Frame /\ frame.config = Top(d).config /\ frame.files = Top(d).files
        /\ Elems(frame.refs) = {}
    BY <2>1, <1>2, ElemsEmpty DEF Frame
  <2>3. SetTop(d, frame) /\ todo'[d] = todo[d] \o Top(d).refs
    BY <2>1, <1>3 DEF DeleteProgram, Inv, TypeOK
  <2>4. Elems(todo'[d]) = Elems(todo[d]) \cup Elems(Top(d).refs)
    <3>1. todo[d] \in Seq(Configs)
      BY DEF Inv, TypeOK
    <3> QED BY <3>1, <2>3, <1>2, ElemsConcat
  <2>5. QueueOK(d, todo'[d])
    <3>1. FrameOK(d, Top(d)) /\ QueueOK(d, todo[d])
      BY <1>1, TopCalls DEF TypedInv
    <3>2. Follows(d, Top(d).config) \ broken \subseteq Reachable(d)
      BY <3>1, ReachableFacts DEF FrameOK, Inv
    <3> QED BY <3>1, <3>2, <2>4 DEF QueueOK, FrameOK
  <2> QED BY <1>1, <2>2, <2>3, <2>4, <2>5, TypedTop
<1>4. CASE driver[d] # "java"
  <2>1. PICK frame : frame = [Top(d) EXCEPT !.program = NoProgram]
    OBVIOUS
  <2>2. /\ frame \in Frame /\ frame.config = Top(d).config /\ frame.files = Top(d).files
        /\ frame.refs = Top(d).refs
    BY <2>1, <1>2 DEF Frame
  <2>3. SetTop(d, frame) /\ todo' = todo /\ QueueOK(d, todo'[d])
    BY <2>1, <1>4 DEF DeleteProgram, TypedInv
  <2> QED BY <1>1, <2>2, <2>3, TypedTop
<1> QED BY <1>3, <1>4

LEMMA TypedNextReference ==
  ASSUME Inv, NEW d \in Analyses, TypedInv(d), UNCHANGED project, NextReference(d)
  PROVE  TypedInv(d)'
<1>1. /\ stack[d] # <<>> /\ Top(d).refs # <<>> /\ UNCHANGED <<pc, pending, todo, seen, results>>
      /\ TypedOK(d, pending'[d], results'[d]) /\ QueueOK(d, todo'[d])
  BY DEF NextReference, AfterFiles, TypedInv
<1>2. /\ Top(d) \in Frame /\ Top(d).refs \in Seq(Configs) /\ Top(d).config \in Configs
      /\ Below(d) \in Seq(Frame) /\ pc[d] = "configs"
  BY <1>1, Calls
<1>3. PICK t \in Configs : t = Head(Top(d).refs)
  BY <1>1, <1>2, QueueHead
<1>4. PICK rest : rest = [Top(d) EXCEPT !.refs = Tail(@)]
  OBVIOUS
<1>5. /\ rest \in Frame /\ rest.config = Top(d).config /\ rest.files = Top(d).files
      /\ Elems(Top(d).refs) = Elems(rest.refs) \cup {t}
  <2>1. Tail(Top(d).refs) \in Seq(Configs)
    BY <1>1, <1>2, QueueHead
  <2>2. Elems(Top(d).refs) = Elems(Tail(Top(d).refs)) \cup {t}
    BY <1>1, <1>2, <1>3, ElemsFacts
  <2> QED BY <2>1, <2>2, <1>2, <1>4 DEF Frame
<1>6. CASE t \in broken
  <2>1. SetTop(d, rest)
    BY <1>3, <1>4, <1>6 DEF NextReference
  <2> QED BY <2>1, <1>1, <1>5, <1>6, TypedTop
<1>7. CASE t \notin broken
  <2>1. CallsOK(d, Below(d)) /\ FrameOK(d, Top(d))
    BY <1>1, TopCalls DEF TypedInv
  <2>2. driver[d] # "watch" /\ t \in Reachable(d)
    <3>1. t \in Follows(d, Top(d).config) /\ Top(d).config \in Reachable(d)
      BY <2>1, <1>5 DEF FrameOK
    <3>2. Follows(d, Top(d).config) \ broken \subseteq Reachable(d)
      BY <3>1, ReachableFacts DEF Inv
    <3> QED BY <3>1, <3>2, <1>7 DEF Follows
  <2>3. PICK frame : frame = [config |-> t, program |-> NewId, files |-> sourceFiles[t], refs |-> refs[t]]
    OBVIOUS
  <2>4. /\ frame \in Frame /\ frame.config = t
        /\ Elems(frame.files) = FilesOf(d, t) /\ Elems(frame.refs) = Follows(d, t)
    <3>1. sourceFiles[t] \in Seq(Files) /\ refs[t] \in Seq(Configs) /\ NewId \in Nat
      BY RefsAreConfigs DEF Inv, TypeOK, ProjectOK, NewId
    <3> QED BY <2>2, <2>3, <3>1 DEF Frame, FilesOf, Follows, Elems
  <2>5. PICK below \in Seq(Frame) : below = Below(d)
    BY <1>2
  <2>6. PICK calls \in Seq(Frame) : calls = Append(below, rest)
    BY <1>5, StackPush
  <2>7. stack'[d] = Append(calls, frame)
    BY <1>3, <1>4, <1>7, <2>3, <2>5, <2>6 DEF NextReference, CreateProgram, Inv, TypeOK
  <2>8. /\ \A s, u : HasRef(calls, s, u) <=>
                       HasRef(below, s, u) \/ (Top(d).config = s /\ u \in Elems(rest.refs))
        /\ \A s, f : HasFile(calls, s, f) <=>
                       HasFile(below, s, f) \/ (Top(d).config = s /\ f \in Elems(Top(d).files))
        /\ CallsOK(d, calls) <=> CallsOK(d, below) /\ FrameOK(d, rest)
    BY <1>5, <2>6, PushCalls
  <2>9. CallsOK(d, calls)
    BY <2>1, <2>5, <2>8, <1>5 DEF FrameOK
  <2>10. /\ \A s, u : HasRef(stack[d], s, u) <=>
                        HasRef(below, s, u) \/ (Top(d).config = s /\ u \in Elems(Top(d).refs))
         /\ \A s, f : HasFile(stack[d], s, f) <=>
                        HasFile(below, s, f) \/ (Top(d).config = s /\ f \in Elems(Top(d).files))
    BY <1>1, <2>5, TopCalls
  <2>11. PICK V \in SUBSET Configs : Visited(d, V, todo[d], seen[d], stack[d], pending[d])
    BY <1>2 DEF TypedInv
  <2>12. /\ Elems(Iterator(d)) \ broken \subseteq V \cup {t} \cup Elems(todo[d])
         /\ seen[d] \ broken \subseteq V \cup {t}
         /\ \A s \in V : \A u \in Follows(d, s) \ broken :
              u \in V \cup {t} \cup Elems(todo[d]) \/ HasRef(calls, s, u)
    BY <1>5, <2>8, <2>10, <2>11 DEF Visited
  <2>13. \A s \in V : \A f \in FilesOf(d, s) \cap pending[d] : HasFile(calls, s, f)
    BY <2>8, <2>10, <2>11 DEF Visited
  <2>14. /\ Visited(d, V \cup {t}, todo[d], seen[d], Append(calls, frame), pending[d])
         /\ CallsOK(d, Append(calls, frame))
    BY <1>7, <2>2, <2>4, <2>9, <2>12, <2>13, VisitNew
  <2> QED BY <2>7, <2>14, <1>1, <1>2, TypedStep
<1> QED BY <1>6, <1>7

LEMMA TypedReturn ==
  ASSUME Inv, NEW d \in Analyses, TypedInv(d), UNCHANGED project, Return(d)
  PROVE  TypedInv(d)'
<1>1. /\ stack[d] # <<>> /\ Top(d).refs = <<>> /\ Top(d).files = <<>>
      /\ UNCHANGED <<pc, pending, todo, seen, results>>
      /\ TypedOK(d, pending'[d], results'[d]) /\ QueueOK(d, todo'[d])
  BY DEF Return, AfterFiles, TypedInv
<1>2. stack'[d] = Below(d) /\ pc[d] = "configs"
  BY DEF Return, AfterFiles, Inv, TypeOK
<1>3. /\ \A t, u : HasRef(stack[d], t, u) <=> HasRef(Below(d), t, u)
      /\ \A t, f : HasFile(stack[d], t, f) <=> HasFile(Below(d), t, f)
      /\ CallsOK(d, Below(d))
  BY <1>1, TopCalls, ElemsEmpty DEF TypedInv
<1>4. PICK V \in SUBSET Configs : Visited(d, V, todo[d], seen[d], stack[d], pending[d])
  BY <1>2 DEF TypedInv
<1>5. Visited(d, V, todo'[d], seen'[d], stack'[d], pending'[d])
  BY <1>1, <1>2, <1>3, <1>4 DEF Visited
<1> QED BY <1>1, <1>2, <1>3, <1>5, TypedStep

LEMMA TypedAnalyzeWithoutProgram ==
  ASSUME Inv, NEW d \in Analyses, TypedInv(d), UNCHANGED project, AnalyzeWithoutProgram(d)
  PROVE  TypedInv(d)'
<1>1. pc[d] = "plain" /\ UNCHANGED <<pc, todo, seen, stack>>
  BY DEF AnalyzeWithoutProgram
<1>2. PICK f \in pending[d] : /\ Analyze(d, f, None, NoProgram)
                              /\ pending' = [pending EXCEPT ![d] = NoLongerPending(d, f)]
  BY DEF AnalyzeWithoutProgram
<1>3. pending'[d] = pending[d] \ {f} /\ f \in Files /\ input[d] \subseteq Files
  BY <1>2 DEF NoLongerPending, Inv, TypeOK, ProjectOK
<1>4. results'[d][f].config = None /\ \A g \in Files \ {f} : results'[d][g] = results[d][g]
  <2>1. results \in [Analyses -> [Files -> Result]]
    BY DEF Inv, TypeOK
  <2> QED BY <2>1, <1>2, <1>3 DEF Analyze
<1>5. \A g \in pending[d] : ~ CanBeTyped(d, g)
  BY <1>1 DEF TypedInv
<1>6. TypedOK(d, pending'[d], results'[d])
  BY <1>3, <1>4, <1>5 DEF TypedOK, TypedInv
<1> QED BY <1>1, <1>3, <1>5, <1>6, TypedStep DEF TypedInv

-----------------------------------------------------------------------------
LEMMA TypedInit == Init => \A d \in Analyses : TypedInv(d)
<1> SUFFICES ASSUME Init, NEW d \in Analyses PROVE TypedInv(d)
  OBVIOUS
<1>1. /\ pc[d] = "start" /\ todo[d] = <<>> /\ seen[d] = {} /\ stack[d] = <<>>
      /\ pending[d] = input[d]
  BY DEF Init, Idle
<1>2. QueueOK(d, todo[d]) /\ CallsOK(d, stack[d])
  BY <1>1, ElemsEmpty, NoCalls DEF QueueOK
<1> QED BY <1>1, <1>2 DEF TypedInv, TypedOK

LEMMA TypedNext ==
  ASSUME Inv, \A d \in Analyses : TypedInv(d), [Next]_vars
  PROVE  \A d \in Analyses : TypedInv(d)'
<1>1. CASE UNCHANGED vars
  <2>1. UNCHANGED <<project, pc, todo, seen, stack, pending, results>>
    BY <1>1 DEF vars
  <2> QED BY <2>1, TypedSame
<1>2. ASSUME NEW d \in Analyses, Step(d)
      PROVE  \A e \in Analyses : TypedInv(e)'
  <2>1. UNCHANGED project
    BY <1>2 DEF Step
  <2>2. ASSUME NEW e \in Analyses \ {d} PROVE TypedInv(e)'
    BY <1>2, <2>1, OnlyItself, TypedSame
  <2>3. TypedInv(d)'
    <3>1. CASE StartEmpty(d) \/ Start(d) \/ InitEnds(d) \/ ReadFails(d) \/ ConfigsEnd(d) \/ Finish(d)
      BY <3>1, <2>1, TypedQuiet
    <3>2. CASE SkipConfig(d) \/ EnterConfig(d) \/ WatchConfig(d)
      BY <3>2, <2>1, TypedSkipConfig, TypedEnterConfig, TypedWatchConfig
    <3>3. CASE SkipFile(d) \/ AnalyzeWithProgram(d) \/ AnalyzeWithoutProgram(d)
      BY <3>3, <2>1, TypedSkipFile, TypedAnalyzeWithProgram, TypedAnalyzeWithoutProgram
    <3>4. CASE DeleteProgram(d) \/ NextReference(d) \/ Return(d)
      BY <3>4, <2>1, TypedDeleteProgram, TypedNextReference, TypedReturn
    <3> QED BY <1>2, <3>1, <3>2, <3>3, <3>4 DEF Step
  <2> QED BY <2>2, <2>3
<1> QED BY <1>1, <1>2 DEF Next

LEMMA TypedHolds == Spec => [](\A d \in Analyses : TypedInv(d))
<1>1. Inv /\ (\A d \in Analyses : TypedInv(d)) /\ [Next]_vars => (\A d \in Analyses : TypedInv(d))'
  BY TypedNext
<1> QED BY <1>1, TypedInit, InvHolds, PTL DEF Spec

(* When an analysis has ended, a file was analyzed without a tsconfig if   *)
(* and only if no tsconfig the analysis could get to has it, whatever the  *)
(* order of the tsconfigs, their references and the other analyses.        *)
THEOREM TypedIfPossible == Spec => []TypedWhenPossible
<1>1. Inv /\ (\A d \in Analyses : TypedInv(d)) => TypedWhenPossible
  <2> SUFFICES ASSUME Inv, NEW d \in Analyses, TypedInv(d), pc[d] = "done", NEW f \in input[d]
               PROVE  results[d][f].config = None <=> \A t \in Reachable(d) : f \notin FilesOf(d, t)
    BY DEF TypedWhenPossible
  <2>1. f \notin pending[d]
    BY DEF Inv, PendingOK
  <2> QED BY <2>1 DEF TypedInv, TypedOK, CanBeTyped
<1> QED BY <1>1, InvHolds, TypedHolds, PTL
=============================================================================
