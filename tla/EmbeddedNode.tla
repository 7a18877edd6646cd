---------------------------- MODULE EmbeddedNode ----------------------------
(***************************************************************************)
(* EmbeddedNode.deploy(): several plugin processes (scanners, IDEs), maybe *)
(* of different plugin versions, extract their embedded Node.js runtime    *)
(* into one shared directory under SONAR_USER_HOME, guarded by a file      *)
(* lock.  Any of them may crash or fail at any step.                       *)
(***************************************************************************)
EXTENDS Integers

CONSTANTS
  Process,      \* plugin processes that run at the same time
  Version,      \* Node.js versions their plugins embed
  MaxDeploys,   \* how many deploy() calls are made in all
  NoOne, Absent, Empty   \* model values: no lock holder, contents of files

ASSUME MaxDeploysAssumption == MaxDeploys \in Nat
ASSUME NamesAssumption ==
  NoOne \notin Process /\ Absent \notin Version /\ Empty \notin Version

VARIABLES
  binary,       \* the runtime on disk: whose version, and is it complete
  versionFile,  \* content of version.txt
  lock,         \* holder of the lock on lockfile
  pc,           \* where each process is in deploy()
  ver,          \* the version each process embeds
  versionIs,    \* what is left to read of each process's version stream
  isAvailable,
  deploys,      \* deploy() calls so far
  damaged       \* history: the last extraction that began was cut short

vars == <<binary, versionFile, lock, pc, ver, versionIs, isAvailable, deploys,
          damaged>>

disk  == <<binary, versionFile>>
local == <<ver, versionIs, isAvailable>>

Steps == {"exists", "compare", "tryLock", "sleep", "open", "extract", "delete",
          "create", "fill", "release", "test"}
Locked == {"open", "extract", "delete", "create", "fill", "release"}

TypeOK ==
  /\ binary \in [ver : Version \cup {Absent}, complete : BOOLEAN]
  /\ versionFile \in Version \cup {Absent, Empty}
  /\ lock \in Process \cup {NoOne}
  /\ pc \in [Process -> Steps \cup {"off"}]
  /\ ver \in [Process -> Version]
  /\ versionIs \in [Process -> Version \cup {Empty}]
  /\ isAvailable \in [Process -> BOOLEAN]
  /\ deploys \in 0..MaxDeploys
  /\ damaged \in BOOLEAN

Init ==
  /\ binary = [ver |-> Absent, complete |-> FALSE]
  /\ versionFile = Absent
  /\ lock = NoOne
  /\ pc = [p \in Process |-> "off"]
  /\ ver \in [Process -> Version]
  /\ versionIs = ver
  /\ isAvailable = [p \in Process |-> FALSE]
  /\ deploys = 0
  /\ damaged = FALSE

-----------------------------------------------------------------------------
At(p, s) == pc[p] = s
Goto(p, s) == pc' = [pc EXCEPT ![p] = s]

(* A new process with version v calls deploy(), which opens its streams. *)
Deploy(p, v) ==
  /\ At(p, "off") /\ deploys < MaxDeploys
  /\ deploys' = deploys + 1
  /\ ver' = [ver EXCEPT ![p] = v]
  /\ versionIs' = [versionIs EXCEPT ![p] = v]
  /\ isAvailable' = [isAvailable EXCEPT ![p] = FALSE]
  /\ Goto(p, "exists")
  /\ UNCHANGED <<disk, lock, damaged>>

(* A process calls deploy() again, to restart its bridge. *)
Redeploy(p) ==
  /\ At(p, "off") /\ deploys < MaxDeploys
  /\ deploys' = deploys + 1
  /\ versionIs' = [versionIs EXCEPT ![p] = ver[p]]
  /\ Goto(p, "exists")
  /\ UNCHANGED <<disk, lock, ver, isAvailable, damaged>>

(* Unsupported platform, or no archive for it in the JAR. *)
NotEmbedded(p) ==
  /\ At(p, "exists")
  /\ Goto(p, "off")
  /\ UNCHANGED <<disk, lock, local, deploys, damaged>>

(* Files.exists(targetVersion) *)
VersionExists(p) ==
  /\ At(p, "exists")
  /\ Goto(p, IF versionFile = Absent THEN "tryLock" ELSE "compare")
  /\ UNCHANGED <<disk, lock, local, deploys, damaged>>

(***************************************************************************)
(* isDifferent reads the version stream to its end, then version.txt,      *)
(* which another process may just be replacing: then it throws.            *)
(***************************************************************************)
isDifferent(p) ==
  /\ At(p, "compare")
  /\ versionIs' = [versionIs EXCEPT ![p] = Empty]
  /\ Goto(p, IF versionFile = Absent THEN "off"
             ELSE IF versionFile = ver[p] THEN "test" ELSE "tryLock")
  /\ UNCHANGED <<disk, lock, ver, isAvailable, deploys, damaged>>

(* Mutant: extract whether or not the lock was acquired. *)
IgnoreLock(p) ==
  /\ At(p, "tryLock")
  /\ lock' = IF lock = NoOne THEN p ELSE lock
  /\ Goto(p, "open")
  /\ UNCHANGED <<disk, local, deploys, damaged>>

(* channel.tryLock(): the loser waits 10 s for the winner. *)
TryLock(p) ==
  /\ At(p, "tryLock")
  /\ IF lock = NoOne THEN lock' = p /\ Goto(p, "open")
                     ELSE UNCHANGED lock /\ Goto(p, "sleep")
  /\ UNCHANGED <<disk, local, deploys, damaged>>

(* The sleep ends, whatever the winner has done by then. *)
SleepEnds(p) ==
  /\ At(p, "sleep")
  /\ Goto(p, "test")
  /\ UNCHANGED <<disk, lock, local, deploys, damaged>>

(* Mutant: "Skips extraction if target file already exists" (line 277). *)
SkipIfExists(p) ==
  /\ At(p, "open")
  /\ binary' = IF binary.ver = Absent THEN [ver |-> ver[p], complete |-> FALSE]
               ELSE binary
  /\ damaged' = TRUE
  /\ Goto(p, IF binary.ver = Absent THEN "extract" ELSE "delete")
  /\ UNCHANGED <<versionFile, lock, local, deploys>>

(* Files.newOutputStream(target) truncates the runtime in place. *)
OpenRuntime(p) ==
  /\ At(p, "open")
  /\ binary' = [ver |-> ver[p], complete |-> FALSE]
  /\ damaged' = TRUE
  /\ Goto(p, "extract")
  /\ UNCHANGED <<versionFile, lock, local, deploys>>

ExtractionEnds(p) ==
  /\ At(p, "extract")
  /\ binary' = [binary EXCEPT !.complete = TRUE]
  /\ Goto(p, "delete")
  /\ UNCHANGED <<versionFile, lock, local, deploys, damaged>>

(* Files.copy(versionIs, version.txt, REPLACE_EXISTING), in its three steps. *)
DeleteVersion(p) ==
  /\ At(p, "delete")
  /\ versionFile' = Absent
  /\ Goto(p, "create")
  /\ UNCHANGED <<binary, lock, local, deploys, damaged>>

CreateVersion(p) ==
  /\ At(p, "create")
  /\ versionFile' = Empty
  /\ Goto(p, "fill")
  /\ UNCHANGED <<binary, lock, local, deploys, damaged>>

FillVersion(p) ==
  /\ At(p, "fill")
  /\ versionFile' = versionIs[p]
  /\ versionIs' = [versionIs EXCEPT ![p] = Empty]
  /\ Goto(p, "release")
  /\ UNCHANGED <<binary, lock, ver, isAvailable, deploys, damaged>>

Unlock(p) == lock' = IF lock = p THEN NoOne ELSE lock

Release(p) ==
  /\ At(p, "release")
  /\ Unlock(p)
  /\ damaged' = FALSE
  /\ Goto(p, "test")
  /\ UNCHANGED <<disk, local, deploys>>

(***************************************************************************)
(* node -v works on a complete runtime only; its version is not compared.  *)
(* isAvailable is set, never reset.                                        *)
(***************************************************************************)
TestRuntime(p) ==
  /\ At(p, "test")
  /\ isAvailable' = [isAvailable EXCEPT ![p] = @ \/ binary.complete]
  /\ Goto(p, "off")
  /\ UNCHANGED <<disk, lock, ver, versionIs, deploys, damaged>>

(* An exception while the lock is held: finally releases it, deploy gives up. *)
ExtractionFails(p) ==
  /\ pc[p] \in Locked \ {"release"}
  /\ Unlock(p)
  /\ Goto(p, "off")
  /\ UNCHANGED <<disk, local, deploys, damaged>>

(* The process dies; the operating system releases its lock. *)
Crash(p) ==
  /\ pc[p] # "off"
  /\ Unlock(p)
  /\ isAvailable' = [isAvailable EXCEPT ![p] = FALSE]
  /\ Goto(p, "off")
  /\ UNCHANGED <<disk, ver, versionIs, deploys, damaged>>

Step(p) == \/ NotEmbedded(p) \/ VersionExists(p) \/ isDifferent(p)
           \/ TryLock(p) \/ SleepEnds(p)
           \/ OpenRuntime(p) \/ ExtractionEnds(p)
           \/ DeleteVersion(p) \/ CreateVersion(p) \/ FillVersion(p)
           \/ Release(p) \/ TestRuntime(p)

Next == \E p \in Process :
          \/ \E v \in Version : Deploy(p, v)
          \/ Redeploy(p)
          \/ Step(p)
          \/ ExtractionFails(p)
          \/ Crash(p)

Spec == Init /\ [][Next]_vars

-----------------------------------------------------------------------------
(* Properties *)

(***************************************************************************)
(* From the end of its extraction to the release of the lock, a process    *)
(* finds on disk the runtime it extracted: tryLock keeps every other       *)
(* process from truncating it (EmbeddedNode.java:248-256).                 *)
(***************************************************************************)
ExtractionIsolated ==
  \A p \in Process :
    pc[p] \in {"delete", "create", "fill", "release"}
      => binary = [ver |-> ver[p], complete |-> TRUE]

(***************************************************************************)
(* While nobody extracts and the last extraction ran to its end, a         *)
(* version.txt that names a version vouches for the runtime beside it:     *)
(* this is what deploy() relies on when it skips (EmbeddedNode.java:191).  *)
(* A crash or failure in the middle is repaired by the next extraction.    *)
(***************************************************************************)
VersionVouches ==
  lock = NoOne /\ ~damaged /\ versionFile \in Version
    => binary = [ver |-> versionFile, complete |-> TRUE]

(***************************************************************************)
(* EmbeddedNode.java:228 says of an extraction: "Writes the version from   *)
(* `versionIs` to `targetDirectory`/VERSION_FILENAME".                     *)
(***************************************************************************)
WritesItsVersion ==
  \A p \in Process : pc[p] = "release" => versionFile = ver[p]
=============================================================================
