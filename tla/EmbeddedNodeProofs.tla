------------------------ MODULE EmbeddedNodeProofs ------------------------
(***************************************************************************)
(* The safety of EmbeddedNode for any number of processes, versions and    *)
(* deployments.  Both properties rest on the lock (exactly the process     *)
(* that holds it is inside the locked region) and on what each step of     *)
(* that region has already put on disk.                                    *)
(***************************************************************************)
EXTENDS EmbeddedNode, TLAPS

(* The lock is held by p exactly while p is in the locked region. *)
LockHeld == \A p \in Process : pc[p] \in Locked <=> lock = p

(* What the extracting process has on disk so far. *)
OnDisk ==
  \A p \in Process :
    /\ pc[p] = "extract" => binary.ver = ver[p]
    /\ pc[p] = "release" => versionFile \in {ver[p], Empty}
    /\ pc[p] \in Locked \ {"open"} => damaged
    /\ versionIs[p] \in {ver[p], Empty}

(* VersionVouches also while a process that holds the lock has not begun. *)
Vouches ==
  ~damaged /\ versionFile \in Version
    => binary = [ver |-> versionFile, complete |-> TRUE]

IInv == TypeOK /\ LockHeld /\ OnDisk /\ ExtractionIsolated /\ Vouches

(* Every step keeps every variable in its type. *)
LEMMA TypeStep == TypeOK /\ [Next]_vars => TypeOK'
<1> SUFFICES ASSUME TypeOK, [Next]_vars PROVE TypeOK'
  OBVIOUS
<1> USE MaxDeploysAssumption DEF TypeOK, Steps, Goto, At, disk, local
<1>1. ASSUME NEW p \in Process, NEW v \in Version, Deploy(p, v) PROVE TypeOK'
  BY <1>1 DEF Deploy
<1>2. ASSUME NEW p \in Process, NotEmbedded(p) PROVE TypeOK'
  BY <1>2 DEF NotEmbedded
<1>3. ASSUME NEW p \in Process, VersionExists(p) PROVE TypeOK'
  BY <1>3 DEF VersionExists
<1>4. ASSUME NEW p \in Process, isDifferent(p) PROVE TypeOK'
  BY <1>4 DEF isDifferent
<1>5. ASSUME NEW p \in Process, TryLock(p) PROVE TypeOK'
  BY <1>5 DEF TryLock
<1>6. ASSUME NEW p \in Process, SleepEnds(p) PROVE TypeOK'
  BY <1>6 DEF SleepEnds
<1>7. ASSUME NEW p \in Process, OpenRuntime(p) PROVE TypeOK'
  BY <1>7 DEF OpenRuntime
<1>8. ASSUME NEW p \in Process, ExtractionEnds(p) PROVE TypeOK'
  BY <1>8 DEF ExtractionEnds
<1>9. ASSUME NEW p \in Process, DeleteVersion(p) PROVE TypeOK'
  BY <1>9 DEF DeleteVersion
<1>10. ASSUME NEW p \in Process, CreateVersion(p) PROVE TypeOK'
  BY <1>10 DEF CreateVersion
<1>11. ASSUME NEW p \in Process, FillVersion(p) PROVE TypeOK'
  BY <1>11 DEF FillVersion
<1>12. ASSUME NEW p \in Process, Release(p) PROVE TypeOK'
  BY <1>12 DEF Release, Unlock
<1>13. ASSUME NEW p \in Process, TestRuntime(p) PROVE TypeOK'
  BY <1>13 DEF TestRuntime
<1>14. ASSUME NEW p \in Process, ExtractionFails(p) PROVE TypeOK'
  BY <1>14 DEF ExtractionFails, Unlock
<1>15. ASSUME NEW p \in Process, Crash(p) PROVE TypeOK'
  BY <1>15 DEF Crash, Unlock
<1>16. ASSUME NEW p \in Process, Redeploy(p) PROVE TypeOK'
  BY <1>16 DEF Redeploy
<1>17. CASE UNCHANGED vars
  BY <1>17 DEF vars
<1> QED
  BY <1>1, <1>2, <1>3, <1>4, <1>5, <1>6, <1>7, <1>8, <1>9, <1>10,
     <1>11, <1>12, <1>13, <1>14, <1>15, <1>16, <1>17 DEF Next, Step

(* Every step preserves the invariant. *)
LEMMA SafetyStep == IInv /\ [Next]_vars => IInv'
<1> SUFFICES ASSUME IInv, [Next]_vars PROVE IInv'
  OBVIOUS
<1>0. TypeOK'
  BY TypeStep DEF IInv
<1> USE <1>0, NamesAssumption
    DEF IInv, TypeOK, LockHeld, OnDisk, ExtractionIsolated, Vouches, Locked,
        Steps, Goto, At, disk, local
<1>1. ASSUME NEW p \in Process, NEW v \in Version, Deploy(p, v) PROVE IInv'
  BY <1>1 DEF Deploy
<1>2. ASSUME NEW p \in Process, NotEmbedded(p) PROVE IInv'
  BY <1>2 DEF NotEmbedded
<1>3. ASSUME NEW p \in Process, VersionExists(p) PROVE IInv'
  BY <1>3 DEF VersionExists
<1>4. ASSUME NEW p \in Process, isDifferent(p) PROVE IInv'
  BY <1>4 DEF isDifferent
<1>5. ASSUME NEW p \in Process, TryLock(p) PROVE IInv'
  BY <1>5 DEF TryLock
<1>6. ASSUME NEW p \in Process, SleepEnds(p) PROVE IInv'
  BY <1>6 DEF SleepEnds
<1>7. ASSUME NEW p \in Process, OpenRuntime(p) PROVE IInv'
  BY <1>7 DEF OpenRuntime
<1>8. ASSUME NEW p \in Process, ExtractionEnds(p) PROVE IInv'
  BY <1>8, ZenonT(40) DEF ExtractionEnds
<1>9. ASSUME NEW p \in Process, DeleteVersion(p) PROVE IInv'
  BY <1>9 DEF DeleteVersion
<1>10. ASSUME NEW p \in Process, CreateVersion(p) PROVE IInv'
  BY <1>10 DEF CreateVersion
<1>11. ASSUME NEW p \in Process, FillVersion(p) PROVE IInv'
  BY <1>11 DEF FillVersion
<1>12. ASSUME NEW p \in Process, Release(p) PROVE IInv'
  BY <1>12 DEF Release, Unlock
<1>13. ASSUME NEW p \in Process, TestRuntime(p) PROVE IInv'
  BY <1>13 DEF TestRuntime
<1>14. ASSUME NEW p \in Process, ExtractionFails(p) PROVE IInv'
  BY <1>14 DEF ExtractionFails, Unlock
<1>15. ASSUME NEW p \in Process, Crash(p) PROVE IInv'
  BY <1>15 DEF Crash, Unlock
<1>16. ASSUME NEW p \in Process, Redeploy(p) PROVE IInv'
  BY <1>16 DEF Redeploy
<1>17. CASE UNCHANGED vars
  BY <1>17 DEF vars
<1> QED
  BY <1>1, <1>2, <1>3, <1>4, <1>5, <1>6, <1>7, <1>8, <1>9, <1>10,
     <1>11, <1>12, <1>13, <1>14, <1>15, <1>16, <1>17 DEF Next, Step

(* The inductive invariant holds always. *)
THEOREM Invariance == Spec => []IInv
<1>1. Init => IInv
  <2> SUFFICES ASSUME Init PROVE IInv
    OBVIOUS
  <2>1. /\ binary \in [ver : Version \cup {Absent}, complete : BOOLEAN]
        /\ isAvailable \in [Process -> BOOLEAN]
    BY DEF Init
  <2>2. /\ pc \in [Process -> Steps \cup {"off"}]
        /\ ver \in [Process -> Version]
        /\ versionIs \in [Process -> Version \cup {Empty}]
    BY DEF Init
  <2>3. deploys = 0 /\ damaged = FALSE /\ versionFile = Absent /\ lock = NoOne
    BY DEF Init
  <2>4. deploys \in 0..MaxDeploys
    BY <2>3, MaxDeploysAssumption
  <2>5. TypeOK
    BY <2>1, <2>2, <2>3, <2>4 DEF TypeOK
  <2>6. LockHeld /\ OnDisk /\ ExtractionIsolated /\ Vouches
    BY NamesAssumption DEF Init, LockHeld, OnDisk, ExtractionIsolated, Vouches, Locked
  <2> QED
    BY <2>5, <2>6 DEF IInv
<1> QED
  BY <1>1, SafetyStep, PTL DEF Spec

(* Type correctness of the deployment. *)
THEOREM TypeCorrect == Spec => []TypeOK
<1>1. IInv => TypeOK
  BY DEF IInv
<1> QED
  BY <1>1, Invariance, PTL

(* No process disturbs another one's extraction (EmbeddedNode.java:248-256). *)
THEOREM Isolation == Spec => []ExtractionIsolated
<1>1. IInv => ExtractionIsolated
  BY DEF IInv
<1> QED
  BY <1>1, Invariance, PTL

(***************************************************************************)
(* Unless the last extraction was cut short, a version in version.txt is   *)
(* that of a complete runtime, whoever extracted and crashed before.       *)
(***************************************************************************)
THEOREM VersionFileVouches == Spec => []VersionVouches
<1>1. IInv => VersionVouches
  BY DEF IInv, Vouches, VersionVouches
<1> QED
  BY <1>1, Invariance, PTL
=============================================================================
