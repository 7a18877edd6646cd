------------------------ MODULE TsConfigCacheProofs ------------------------
(***************************************************************************)
(* The safety of TsConfigCache for any set of files, tsconfigs and         *)
(* references between them.  First what listing, reordering and clearing   *)
(* do to a queue, then one step per action.                                *)
(***************************************************************************)
EXTENDS TsConfigCache, FiniteSetTheorems, TLAPS

(* There are finitely many tsconfigs, so every set of them can be counted. *)
LEMMA PathsFinite == ASSUME NEW S \in SUBSET Path PROVE IsFiniteSet(S)
<1>1. IsFiniteSet(Path)
  BY TsConfigAssumption, FS_AddElement DEF Path
<1> QED
  BY <1>1, FS_Subset

(* An order of a set lists each of its elements once. *)
LEMMA OrderListsOnce ==
  ASSUME NEW S \in SUBSET Path, NEW q \in Orders(S)
  PROVE  /\ q \in Seq(Path)
         /\ ElementsOf(q) = S
         /\ \A i, j \in DOMAIN q : q[i] = q[j] => i = j
<1>1. Cardinality(S) \in Nat
  BY PathsFinite, FS_CardinalityType
<1>2. q \in [1..Cardinality(S) -> S] /\ \A t \in S : \E i \in DOMAIN q : q[i] = t
  BY DEF Orders
<1>3. q \in Seq(Path)
  BY <1>1, <1>2
<1>4. ElementsOf(q) = S
  BY <1>2 DEF ElementsOf
<1>5. q \in Surjection(1..Cardinality(S), S)
  BY <1>2 DEF Surjection
<1>6. IsFiniteSet(1..Cardinality(S)) /\ Cardinality(1..Cardinality(S)) = Cardinality(S)
  BY <1>1, FS_Interval
<1>7. q \in Injection(1..Cardinality(S), S)
  BY <1>5, <1>6, FS_SurjSameCardinalityImpliesInj
<1> QED
  BY <1>2, <1>3, <1>4, <1>7 DEF Injection, IsInjective

(* Every set of tsconfigs can be listed. *)
LEMMA ListingExists == ASSUME NEW S \in SUBSET Path PROVE Listing(S) \in Orders(S)
<1>1. ExistsBijection(1..Cardinality(S), S)
  BY PathsFinite, FS_CardinalityType
<1>2. PICK q \in Bijection(1..Cardinality(S), S) : TRUE
  BY <1>1 DEF ExistsBijection
<1>3. q \in Orders(S)
  BY <1>2 DEF Orders, Bijection, Injection, Surjection
<1> QED
  BY <1>3 DEF Listing

(* improvedPendingTsConfigOrder only reorders. *)
LEMMA OnlyReorders ==
  ASSUME NEW q \in Seq(Path), NEW f, NEW r \in improvedPendingTsConfigOrder(q, f),
         \A i, j \in DOMAIN q : q[i] = q[j] => i = j
  PROVE  /\ r \in Seq(Path)
         /\ ElementsOf(r) = ElementsOf(q)
         /\ \A i, j \in DOMAIN r : r[i] = r[j] => i = j
<1>1. PICK s \in [DOMAIN q -> DOMAIN q] :
        /\ r = [i \in DOMAIN q |-> q[s[i]]]
        /\ \A i, j \in DOMAIN q : i < j => s[i] # s[j]
  BY DEF improvedPendingTsConfigOrder
<1>2. DOMAIN q = 1..Len(q) /\ Len(q) \in Nat
  OBVIOUS
<1>3. \A i, j \in DOMAIN q : s[i] = s[j] => i = j
  BY <1>1, <1>2
<1>4. s \in Injection(DOMAIN q, DOMAIN q)
  BY <1>3 DEF Injection, IsInjective
<1>5. IsFiniteSet(DOMAIN q)
  BY <1>2, FS_Interval
<1>6. s \in Surjection(DOMAIN q, DOMAIN q)
  BY <1>4, <1>5, FS_Injection
<1>7. \A k \in DOMAIN q : \E i \in DOMAIN q : s[i] = k
  BY <1>6 DEF Surjection
<1>8. ElementsOf(r) = ElementsOf(q)
  BY <1>1, <1>7 DEF ElementsOf
<1>9. r \in Seq(Path)
  BY <1>1, <1>2
<1> QED
  BY <1>1, <1>3, <1>8, <1>9

(* A cleared cache is well formed, with its originals queued once each. *)
LEMMA Clearing ==
  ASSUME NEW c \in Cache
  PROVE  /\ clearFileToTsConfigCache(c) \in Cache
         /\ RequestedOnce(clearFileToTsConfigCache(c))
         /\ clearFileToTsConfigCache(c).original = c.original
         /\ clearFileToTsConfigCache(c).initialized = c.initialized
<1> DEFINE d == clearFileToTsConfigCache(c)
<1>1. Listing(c.original) \in Orders(c.original)
  BY ListingExists DEF Cache
<1>2. /\ Listing(c.original) \in Seq(Path)
      /\ ElementsOf(Listing(c.original)) = c.original
      /\ \A i, j \in DOMAIN Listing(c.original) :
            Listing(c.original)[i] = Listing(c.original)[j] => i = j
  BY <1>1, OrderListsOnce DEF Cache
<1>3. /\ d.pending = Listing(c.original) /\ d.discovered = c.original /\ d.tried = {}
      /\ d.original = c.original /\ d.initialized = c.initialized
  BY DEF clearFileToTsConfigCache, Cache
<1>4. d \in Cache
  BY <1>2 DEF clearFileToTsConfigCache, Cache
<1>5. RequestedOnce(d)
  BY <1>2, <1>3 DEF RequestedOnce
<1> QED
  BY <1>3, <1>4, <1>5

(* So do clearAll and initializeOriginalTsConfigs. *)
LEMMA ClearingAll ==
  ASSUME NEW c \in Cache
  PROVE  /\ clearAll(c) \in Cache
         /\ RequestedOnce(clearAll(c))
         /\ ~clearAll(c).initialized
<1>1. [c EXCEPT !.initialized = FALSE, !.original = {}] \in Cache
  BY DEF Cache
<1> QED
  BY <1>1, Clearing DEF clearAll, Cache

LEMMA Initializing ==
  ASSUME NEW c \in Cache, NEW S \in SUBSET Path
  PROVE  /\ initializeOriginalTsConfigs(c, S) \in Cache
         /\ RequestedOnce(initializeOriginalTsConfigs(c, S))
         /\ initializeOriginalTsConfigs(c, S).original = S
<1>1. [c EXCEPT !.initialized = TRUE, !.original = S] \in Cache
  BY DEF Cache
<1> QED
  BY <1>1, Clearing DEF initializeOriginalTsConfigs, Cache

LEMMA InitializingWith ==
  ASSUME NEW c \in Cache, RequestedOnce(c), NEW o \in Origin, NEW S \in SUBSET Path
  PROVE  /\ initializeWith(c, o, S) \in Cache
         /\ RequestedOnce(initializeWith(c, o, S))
         /\ o = "LOOKUP" => initializeWith(c, o, S).original = S
  BY Initializing DEF initializeWith

(* What a tsconfig references are tsconfigs. *)
LEMMA ReferencesArePaths == ASSUME TypeOK, NEW t \in Path PROVE RefsOf(t) \subseteq Path
<1>1. CASE t # Generated /\ Readable(t)
  <2>1. t \in TsConfig /\ disk[t] # Absent
    BY <1>1 DEF Readable, Path
  <2>2. PICK u \in TsConfig : disk[t] \in Contents[u]
    BY <2>1 DEF TypeOK, Content
  <2>3. disk[t].refs \subseteq TsConfig
    BY <2>2, TsConfigAssumption
  <2> QED
    BY <1>1, <2>3 DEF RefsOf, Path
<1>2. CASE ~(t # Generated /\ Readable(t))
  BY <1>2 DEF RefsOf
<1> QED
  BY <1>1, <1>2

(* The tail of a queue without repetitions holds all but its head. *)
LEMMA TailDropsHead ==
  ASSUME NEW q \in Seq(Path), q # <<>>, \A i, j \in DOMAIN q : q[i] = q[j] => i = j
  PROVE  /\ Head(q) \in Path /\ Tail(q) \in Seq(Path)
         /\ ElementsOf(Tail(q)) = ElementsOf(q) \ {Head(q)}
         /\ Head(q) \in ElementsOf(q)
         /\ \A i, j \in DOMAIN Tail(q) : Tail(q)[i] = Tail(q)[j] => i = j
<1>1. /\ Len(q) \in Nat \ {0} /\ DOMAIN q = 1..Len(q) /\ Head(q) = q[1]
      /\ Tail(q) \in Seq(Path) /\ DOMAIN Tail(q) = 1..(Len(q) - 1)
      /\ \A i \in 1..(Len(q) - 1) : Tail(q)[i] = q[i + 1]
  OBVIOUS
<1>2. ASSUME NEW t \in ElementsOf(q) \ {Head(q)} PROVE t \in ElementsOf(Tail(q))
  <2>1. PICK i \in DOMAIN q : q[i] = t /\ i # 1
    BY <1>1, <1>2 DEF ElementsOf
  <2>2. i - 1 \in DOMAIN Tail(q) /\ Tail(q)[i - 1] = t
    BY <1>1, <2>1
  <2> QED
    BY <2>2 DEF ElementsOf
<1>3. ASSUME NEW t \in ElementsOf(Tail(q)) PROVE t \in ElementsOf(q) \ {Head(q)}
  <2>1. PICK i \in DOMAIN Tail(q) : Tail(q)[i] = t
    BY <1>3 DEF ElementsOf
  <2>2. i + 1 \in DOMAIN q /\ q[i + 1] = t /\ i + 1 # 1 /\ 1 \in DOMAIN q
    BY <1>1, <2>1
  <2> QED
    BY <1>1, <2>2 DEF ElementsOf
<1>4. \A i, j \in DOMAIN Tail(q) : Tail(q)[i] = Tail(q)[j] => i = j
  BY <1>1
<1>5. Head(q) \in Path /\ Head(q) \in ElementsOf(q)
  BY <1>1 DEF ElementsOf
<1> QED
  BY <1>1, <1>2, <1>3, <1>4, <1>5

(* Two queues with nothing in common can be joined. *)
LEMMA JoinOfDisjoint ==
  ASSUME NEW q \in Seq(Path), NEW r \in Seq(Path),
         ElementsOf(q) \cap ElementsOf(r) = {},
         \A i, j \in DOMAIN q : q[i] = q[j] => i = j,
         \A i, j \in DOMAIN r : r[i] = r[j] => i = j
  PROVE  /\ q \o r \in Seq(Path)
         /\ ElementsOf(q \o r) = ElementsOf(q) \cup ElementsOf(r)
         /\ \A i, j \in DOMAIN (q \o r) : (q \o r)[i] = (q \o r)[j] => i = j
<1> DEFINE p == q \o r
<1>1. /\ p \in Seq(Path) /\ DOMAIN p = 1..(Len(q) + Len(r))
      /\ Len(q) \in Nat /\ Len(r) \in Nat
      /\ DOMAIN q = 1..Len(q) /\ DOMAIN r = 1..Len(r)
      /\ \A i \in DOMAIN p : p[i] = IF i <= Len(q) THEN q[i] ELSE r[i - Len(q)]
  OBVIOUS
<1> HIDE DEF p
<1>2. \A i \in DOMAIN p : i <= Len(q) => i \in DOMAIN q /\ p[i] = q[i] /\ p[i] \in ElementsOf(q)
  BY <1>1 DEF ElementsOf
<1>3. \A i \in DOMAIN p : i > Len(q) => /\ i - Len(q) \in DOMAIN r
                                        /\ p[i] = r[i - Len(q)] /\ p[i] \in ElementsOf(r)
  BY <1>1 DEF ElementsOf
<1>4. ASSUME NEW i \in DOMAIN p, NEW j \in DOMAIN p, p[i] = p[j] PROVE i = j
  <2>1. i \in Nat /\ j \in Nat
    BY <1>1
  <2>2. CASE i <= Len(q) /\ j <= Len(q)
    BY <1>2, <1>4, <2>2
  <2>3. CASE i > Len(q) /\ j > Len(q)
    <3>1. i - Len(q) = j - Len(q)
      BY <1>3, <1>4, <2>3
    <3> QED
      BY <1>1, <2>1, <3>1
  <2>4. CASE i <= Len(q) /\ j > Len(q)
    BY <1>2, <1>3, <1>4, <2>4
  <2>5. CASE i > Len(q) /\ j <= Len(q)
    BY <1>2, <1>3, <1>4, <2>5
  <2> QED
    BY <1>1, <2>1, <2>2, <2>3, <2>4, <2>5
<1>5. ElementsOf(p) \subseteq ElementsOf(q) \cup ElementsOf(r)
  <2> SUFFICES ASSUME NEW i \in DOMAIN p PROVE p[i] \in ElementsOf(q) \cup ElementsOf(r)
    BY DEF ElementsOf
  <2> QED
    BY <1>1, <1>2, <1>3
<1>6. ASSUME NEW i \in DOMAIN q PROVE q[i] \in ElementsOf(p)
  <2>1. i \in DOMAIN p /\ p[i] = q[i]
    BY <1>1
  <2> QED
    BY <2>1 DEF ElementsOf
<1>7. ASSUME NEW i \in DOMAIN r PROVE r[i] \in ElementsOf(p)
  <2>1. i + Len(q) \in DOMAIN p /\ p[i + Len(q)] = r[i]
    BY <1>1
  <2> QED
    BY <2>1 DEF ElementsOf
<1>8. ElementsOf(q) \cup ElementsOf(r) \subseteq ElementsOf(p)
  BY <1>6, <1>7 DEF ElementsOf
<1> QED
  BY <1>1, <1>4, <1>5, <1>8 DEF p

(* Loading the head of the queue keeps the books. *)
LEMMA Loading ==
  ASSUME TypeOK, NEW c \in Cache, RequestedOnce(c), c.pending # <<>>,
         NEW refs \in Orders(NewReferences(c, Head(c.pending)))
  PROVE  Load(c, Head(c.pending), refs) \in Cache /\ RequestedOnce(Load(c, Head(c.pending), refs))
<1> DEFINE t == Head(c.pending)
           d == Load(c, t, refs)
<1>1. c.pending \in Seq(Path) /\ c.discovered \subseteq Path /\ c.tried \subseteq Path
  BY DEF Cache
<1>2. \A i, j \in DOMAIN c.pending : c.pending[i] = c.pending[j] => i = j
  BY DEF RequestedOnce
<1>3. /\ t \in Path /\ Tail(c.pending) \in Seq(Path)
      /\ ElementsOf(Tail(c.pending)) = ElementsOf(c.pending) \ {t}
      /\ t \in ElementsOf(c.pending)
      /\ \A i, j \in DOMAIN Tail(c.pending) :
            Tail(c.pending)[i] = Tail(c.pending)[j] => i = j
  BY <1>1, <1>2, TailDropsHead
<1>4. NewReferences(c, t) \in SUBSET Path /\ NewReferences(c, t) \cap c.discovered = {}
  BY <1>3, ReferencesArePaths DEF NewReferences
<1>5. /\ refs \in Seq(Path) /\ ElementsOf(refs) = NewReferences(c, t)
      /\ \A i, j \in DOMAIN refs : refs[i] = refs[j] => i = j
  BY <1>4, OrderListsOnce
<1>6. ElementsOf(refs) \cap ElementsOf(Tail(c.pending)) = {}
  BY <1>3, <1>4, <1>5 DEF RequestedOnce
<1>7. /\ refs \o Tail(c.pending) \in Seq(Path)
      /\ ElementsOf(refs \o Tail(c.pending)) = ElementsOf(refs) \cup ElementsOf(Tail(c.pending))
      /\ \A i, j \in DOMAIN (refs \o Tail(c.pending)) :
            (refs \o Tail(c.pending))[i] = (refs \o Tail(c.pending))[j] => i = j
  BY <1>3, <1>5, <1>6, JoinOfDisjoint
<1>8. /\ d.pending = refs \o Tail(c.pending)
      /\ d.discovered = c.discovered \cup ElementsOf(refs)
      /\ d.tried = c.tried \cup {t}
  BY DEF Load, Cache
<1>9. [f \in File |-> IF c.map[f] = Unknown /\ f \in FilesOf(t) THEN t ELSE c.map[f]]
        \in [File -> Path \cup {Unknown, None}]
  BY <1>3 DEF Cache
<1>10. c.discovered \cup ElementsOf(refs) \subseteq Path /\ c.tried \cup {t} \subseteq Path
  BY <1>1, <1>3, <1>4, <1>5
<1>11. d \in Cache
  BY <1>7, <1>9, <1>10 DEF Load, Cache
<1> HIDE DEF d, t
<1>12. ElementsOf(d.pending) = (ElementsOf(c.pending) \ {t}) \cup NewReferences(c, t)
  BY <1>3, <1>5, <1>7, <1>8
<1>13. /\ ElementsOf(c.pending) \cap c.tried = {}
       /\ ElementsOf(c.pending) \cup c.tried = c.discovered
  BY DEF RequestedOnce
<1>14. /\ ElementsOf(d.pending) \cap d.tried = {}
       /\ ElementsOf(d.pending) \cup d.tried = d.discovered
  BY <1>3, <1>4, <1>5, <1>8, <1>12, <1>13
<1>15. RequestedOnce(d)
  BY <1>7, <1>8, <1>14 DEF RequestedOnce
<1> QED
  BY <1>11, <1>15 DEF d, t

(* So does taking the head off the queue when its request throws. *)
LEMMA Throwing ==
  ASSUME NEW c \in Cache, RequestedOnce(c), c.pending # <<>>,
         NEW d, d = [c EXCEPT !.pending = Tail(c.pending),
                              !.tried = @ \cup {Head(c.pending)},
                              !.threw = @ \cup {Head(c.pending)}]
  PROVE  d \in Cache /\ RequestedOnce(d)
<1>1. c.pending \in Seq(Path)
  BY DEF Cache
<1>2. /\ Head(c.pending) \in Path /\ Tail(c.pending) \in Seq(Path)
      /\ ElementsOf(Tail(c.pending)) = ElementsOf(c.pending) \ {Head(c.pending)}
      /\ Head(c.pending) \in ElementsOf(c.pending)
      /\ \A i, j \in DOMAIN Tail(c.pending) :
            Tail(c.pending)[i] = Tail(c.pending)[j] => i = j
  BY <1>1, TailDropsHead DEF RequestedOnce
<1>3. /\ d.pending = Tail(c.pending) /\ d.discovered = c.discovered
      /\ d.tried = c.tried \cup {Head(c.pending)}
  BY DEF Cache
<1>4. d \in Cache
  BY <1>2 DEF Cache
<1>5. RequestedOnce(d)
  BY <1>2, <1>3 DEF RequestedOnce
<1> QED
  BY <1>4, <1>5

(* A search runs in the cache of an origin. *)
SearchHasOrigin == phase = "search" => origin # None

(* Every cache is well formed and keeps its books. *)
CachesKept == cache \in [Origin -> Cache] /\ EachRequestedOnce

(* The type of all variables but the caches. *)
RestOK ==
  /\ disk \in [TsConfig -> Content \cup {Absent}]
  /\ sources \subseteq File
  /\ settings \in Settings
  /\ edited \subseteq TsConfig /\ created \in BOOLEAN /\ packageEdited \in BOOLEAN
  /\ origin \in Origin \cup {None}
  /\ projectSize \in Nat
  /\ shouldClearDependenciesCache \in BOOLEAN
  /\ wildcard \in {"unset", "written", "failed"}
  /\ phase \in {"idle", "next", "search", "request"}
  /\ inputFile \in File \cup {None}
  /\ todo \subseteq File
  /\ found \subseteq Path
  /\ nodeStale \in BOOLEAN /\ dropped \in BOOLEAN
  /\ changes \in 0..MaxChanges

IInv == RestOK /\ CachesKept /\ SearchHasOrigin

LEMMA TypeParts == IInv <=> TypeOK /\ EachRequestedOnce /\ SearchHasOrigin
  BY DEF IInv, RestOK, CachesKept, TypeOK

(* The initial caches are empty. *)
LEMMA InitOK == Init => IInv
<1> SUFFICES ASSUME Init PROVE IInv
  OBVIOUS
<1>1. <<>> \in Seq(Path) /\ DOMAIN <<>> = {} /\ ElementsOf(<<>>) = {}
  BY DEF ElementsOf
<1>2. NewCache \in Cache
  BY <1>1 DEF NewCache, Cache
<1>3. RequestedOnce(NewCache)
  BY <1>1 DEF NewCache, RequestedOnce
<1>4. CachesKept
  BY <1>2, <1>3 DEF Init, CachesKept, EachRequestedOnce
<1>5. /\ created \in BOOLEAN /\ packageEdited \in BOOLEAN
      /\ shouldClearDependenciesCache \in BOOLEAN
      /\ nodeStale \in BOOLEAN /\ dropped \in BOOLEAN
  BY DEF Init
<1>6. changes \in 0..MaxChanges /\ projectSize \in Nat
  BY TsConfigAssumption DEF Init
<1>7. RestOK /\ SearchHasOrigin
  BY <1>5, <1>6 DEF Init, RestOK, SearchHasOrigin
<1> QED
  BY <1>4, <1>7 DEF IInv

(* Finding tsconfigs: what the providers return, and what they count. *)
LEMMA ProvidersFindPaths ==
  ASSUME IInv
  PROVE  /\ propertyTsConfigs \subseteq Path
         /\ lookupTsConfigs \subseteq Path
         /\ walkedSize \in Nat
<1>1. settings.property \subseteq TsConfig
  BY TsConfigAssumption DEF IInv, RestOK
<1>2. cache["LOOKUP"].original \subseteq Path
  BY DEF IInv, CachesKept, Origin, Cache
<1>3. Cardinality(sources) \in Nat
  BY TsConfigAssumption, FS_Subset, FS_CardinalityType DEF IInv, RestOK
<1> QED
  BY <1>1, <1>2, <1>3, TsConfigAssumption
  DEF propertyTsConfigs, lookupTsConfigs, walkedSize, Path, IInv, RestOK

LEMMA InitializeKeepsCaches ==
  ASSUME IInv, NEW lists, FillCaches(lists), DOMAIN lists \subseteq Origin,
         \A o \in DOMAIN lists : lists[o] \in SUBSET Path
  PROVE  CachesKept'
<1>1. ASSUME NEW o \in Origin PROVE cache'[o] \in Cache /\ RequestedOnce(cache'[o])
  <2>1. cache[o] \in Cache /\ RequestedOnce(cache[o])
    BY DEF IInv, CachesKept, EachRequestedOnce
  <2>2. CASE o \in DOMAIN lists
    <3>1. cache'[o] = initializeWith(cache[o], o, lists[o])
      BY <2>2 DEF FillCaches
    <3> QED
      BY <2>1, <2>2, <3>1, InitializingWith
  <2>3. CASE o \notin DOMAIN lists
    BY <2>1, <2>3 DEF FillCaches
  <2> QED
    BY <2>2, <2>3
<1> QED
  BY <1>1 DEF FillCaches, CachesKept, EachRequestedOnce

(* Every step keeps the types and the books. *)
LEMMA Step == IInv /\ [Next]_vars => IInv'
<1> SUFFICES ASSUME IInv, [Next]_vars PROVE IInv'
  OBVIOUS
<1> USE TsConfigAssumption
<1>T. TypeOK /\ EachRequestedOnce
  BY TypeParts
<1>C. \A o \in Origin : cache[o] \in Cache /\ RequestedOnce(cache[o])
  BY DEF IInv, CachesKept, EachRequestedOnce
<1>N. ASSUME UNCHANGED cache PROVE CachesKept'
  BY <1>N DEF IInv, CachesKept, EachRequestedOnce, RequestedOnce
<1>E. ASSUME NEW o \in Origin, NEW c \in Cache, RequestedOnce(c),
             cache' = [cache EXCEPT ![o] = c]
      PROVE  CachesKept'
  BY <1>C, <1>E DEF IInv, CachesKept, EachRequestedOnce
<1>1. ASSUME UserStep PROVE IInv'
  <2>1. UserChanges /\ UNCHANGED cache
    BY <1>1 DEF UserStep, EditTsConfig, CreateSource, DeleteSource, EditPackageJson,
                ChangeSettings, UserChanges
  <2>2. CachesKept'
    BY <2>1, <1>N
  <2>3. SearchHasOrigin'
    BY <2>1 DEF IInv, SearchHasOrigin, UserChanges, results, analysis
  <2>4. changes' \in 0..MaxChanges
    BY <2>1 DEF UserChanges, IInv, RestOK
  <2> USE DEF UserChanges, IInv, RestOK, results, analysis, events
  <2>5. ASSUME NEW t \in TsConfig, EditTsConfig(t) PROVE RestOK'
    <3>1. disk' \in [TsConfig -> Content \cup {Absent}]
      BY <2>5 DEF EditTsConfig, Content
    <3> QED
      BY <2>5, <2>4, <3>1 DEF EditTsConfig
  <2>6. ASSUME NEW f \in File, CreateSource(f) PROVE RestOK'
    BY <2>6, <2>4 DEF CreateSource
  <2>7. ASSUME NEW f \in File, DeleteSource(f) PROVE RestOK'
    BY <2>7, <2>4 DEF DeleteSource
  <2>8. ASSUME EditPackageJson PROVE RestOK'
    BY <2>8, <2>4 DEF EditPackageJson
  <2>9. ASSUME ChangeSettings PROVE RestOK'
    BY <2>9, <2>4 DEF ChangeSettings
  <2>10. RestOK'
    BY <1>1, <2>5, <2>6, <2>7, <2>8, <2>9 DEF UserStep
  <2> QED
    BY <2>2, <2>3, <2>10
<1>2. ASSUME NEW t \in TsConfig, ProcessTsConfig(t) PROVE IInv'
  <2>1. RestOK' /\ SearchHasOrigin'
    BY <1>2 DEF ProcessTsConfig, Process, IInv, RestOK, SearchHasOrigin, user, results, analysis
  <2>2. ASSUME NEW o \in Origin PROVE cache'[o] \in Cache /\ RequestedOnce(cache'[o])
    BY <1>2, <1>C, ClearingAll DEF ProcessTsConfig
  <2> QED
    BY <1>2, <2>1, <2>2 DEF ProcessTsConfig, IInv, CachesKept, EachRequestedOnce
<1>3. CASE ProcessPackageJson
  <2>1. RestOK' /\ SearchHasOrigin' /\ UNCHANGED cache
    BY <1>3 DEF ProcessPackageJson, Process, IInv, RestOK, SearchHasOrigin, user, results, analysis
  <2> QED
    BY <2>1, <1>N DEF IInv
<1>4. CASE ProcessCreated
  <2>1. RestOK' /\ SearchHasOrigin'
    BY <1>4 DEF ProcessCreated, Process, IInv, RestOK, SearchHasOrigin, user, results, analysis
  <2>2. ASSUME NEW o \in Origin PROVE cache'[o] \in Cache /\ RequestedOnce(cache'[o])
    BY <1>4, <1>C, Clearing DEF ProcessCreated
  <2> QED
    BY <1>4, <2>1, <2>2 DEF ProcessCreated, IInv, CachesKept, EachRequestedOnce
<1>P. /\ propertyTsConfigs \subseteq Path
      /\ lookupTsConfigs \subseteq Path
      /\ walkedSize \in Nat
  BY ProvidersFindPaths
<1>5. CASE UseProperty
  <2>1. CachesKept'
    BY <1>5, <1>P, InitializeKeepsCaches DEF UseProperty, Initialize, Origin
  <2>2. RestOK' /\ SearchHasOrigin'
    BY <1>5, <1>P DEF UseProperty, Initialize, FillCaches, Origin, IInv, RestOK, SearchHasOrigin, user, events, packages
  <2> QED
    BY <2>1, <2>2 DEF IInv
<1>6. CASE UseLookup
  <2>1. CachesKept'
    BY <1>6, <1>P, InitializeKeepsCaches DEF UseLookup, Initialize, Origin
  <2>2. RestOK' /\ SearchHasOrigin'
    BY <1>6, <1>P DEF UseLookup, Initialize, FillCaches, Origin, IInv, RestOK, SearchHasOrigin, user, events, packages
  <2> QED
    BY <2>1, <2>2 DEF IInv
<1>7. CASE UseFallback
  <2>1. found' \subseteq Path /\ wildcard' \in {"unset", "written", "failed"}
    BY <1>7 DEF UseFallback, writeTsConfigFileFor, Path, IInv, RestOK
  <2>2. CachesKept'
    BY <1>7, <2>1, InitializeKeepsCaches DEF UseFallback, Initialize
  <2>3. RestOK' /\ SearchHasOrigin'
    BY <1>7, <1>P, <2>1 DEF UseFallback, Initialize, FillCaches, Origin, IInv, RestOK, SearchHasOrigin, user, events, packages
  <2> QED
    BY <2>2, <2>3 DEF IInv
<1>8. CASE EndAnalysis
  <2>1. RestOK' /\ SearchHasOrigin' /\ UNCHANGED cache
    BY <1>8 DEF EndAnalysis, Same, IInv, RestOK, SearchHasOrigin, user, results, events, packages
  <2> QED
    BY <2>1, <1>N DEF IInv
<1>9. ASSUME NEW f \in File, AnswerAtOnce(f) PROVE IInv'
  <2>1. RestOK' /\ SearchHasOrigin' /\ UNCHANGED cache
    BY <1>9 DEF AnswerAtOnce, Same, IInv, RestOK, SearchHasOrigin, user, results, events, packages
  <2> QED
    BY <2>1, <1>N DEF IInv
<1>10. ASSUME NEW f \in File, StartSearch(f) PROVE IInv'
  <2>1. RestOK' /\ SearchHasOrigin' /\ origin \in Origin
    BY <1>10 DEF StartSearch, Same, IInv, RestOK, SearchHasOrigin, user, results, events, packages
  <2>2. PICK q \in improvedPendingTsConfigOrder(cache[origin].pending, f) :
          cache' = [cache EXCEPT ![origin].pending = q]
    BY <1>10 DEF StartSearch
  <2> DEFINE c == [cache[origin] EXCEPT !.pending = q]
  <2>3. cache[origin] \in Cache /\ RequestedOnce(cache[origin])
    BY <2>1, <1>C
  <2>4. /\ q \in Seq(Path)
        /\ ElementsOf(q) = ElementsOf(cache[origin].pending)
        /\ \A i, j \in DOMAIN q : q[i] = q[j] => i = j
    <3>1. cache[origin].pending \in Seq(Path)
      BY <2>3 DEF Cache
    <3> QED
      BY <2>2, <2>3, <3>1, OnlyReorders DEF RequestedOnce
  <2>5. c \in Cache
    BY <2>3, <2>4 DEF Cache
  <2>6. /\ c.pending = q /\ c.tried = cache[origin].tried
        /\ c.discovered = cache[origin].discovered
    BY <2>3 DEF Cache
  <2>7. RequestedOnce(c)
    BY <2>3, <2>4, <2>6 DEF RequestedOnce
  <2>8. cache' = [cache EXCEPT ![origin] = c]
    BY <2>1, <2>2 DEF IInv, CachesKept
  <2> HIDE DEF c
  <2>9. CachesKept'
    BY <2>1, <2>5, <2>7, <2>8, <1>E
  <2> QED
    BY <2>1, <2>9 DEF IInv
<1>11. CASE LoadNext
  <2>1. RestOK' /\ SearchHasOrigin' /\ origin \in Origin
    BY <1>11 DEF LoadNext, Same, IInv, RestOK, SearchHasOrigin, user, results, events, packages
  <2>2. cache[origin] \in Cache /\ RequestedOnce(cache[origin])
    BY <2>1, <1>C
  <2>3. PICK refs \in Orders(NewReferences(cache[origin], Head(cache[origin].pending))) :
          cache' = [cache EXCEPT ![origin] =
                      Load(cache[origin], Head(cache[origin].pending), refs)]
    BY <1>11 DEF LoadNext
  <2>4. cache[origin].pending # <<>>
    BY <1>11 DEF LoadNext
  <2>5. CachesKept'
    BY <1>T, <2>1, <2>2, <2>3, <2>4, Loading, <1>E
  <2> QED
    BY <2>1, <2>5 DEF IInv
<1>12. CASE LoadThrows
  <2>1. RestOK' /\ SearchHasOrigin' /\ origin \in Origin
    BY <1>12 DEF LoadThrows, Throw, Same, IInv, RestOK, SearchHasOrigin, user, results, events, packages
  <2>2. cache[origin] \in Cache /\ RequestedOnce(cache[origin]) /\ cache[origin].pending # <<>>
    BY <2>1, <1>C, <1>12 DEF LoadThrows
  <2> DEFINE c == cache[origin]
             d == [c EXCEPT !.pending = Tail(c.pending),
                            !.tried = @ \cup {Head(c.pending)},
                            !.threw = @ \cup {Head(c.pending)}]
  <2>3. cache' = [cache EXCEPT ![origin] = d]
    BY <1>12 DEF LoadThrows
  <2>4. d \in Cache /\ RequestedOnce(d)
    BY <2>2, Throwing
  <2> HIDE DEF d
  <2>5. CachesKept'
    BY <2>1, <2>3, <2>4, <1>E
  <2> QED
    BY <2>1, <2>5 DEF IInv
<1>13. CASE NothingFound
  <2>1. RestOK' /\ SearchHasOrigin' /\ origin \in Origin
    BY <1>13 DEF NothingFound, Same, IInv, RestOK, SearchHasOrigin, user, results, events, packages
  <2>2. cache[origin] \in Cache /\ RequestedOnce(cache[origin])
    BY <2>1, <1>C
  <2> DEFINE c == [cache[origin] EXCEPT !.map[inputFile] = None]
  <2>3. cache' = [cache EXCEPT ![origin] = c]
    BY <1>13, <2>1 DEF NothingFound, IInv, CachesKept
  <2>4. c \in Cache
    BY <2>2 DEF Cache
  <2>5. /\ c.pending = cache[origin].pending /\ c.tried = cache[origin].tried
        /\ c.discovered = cache[origin].discovered
    BY <2>2 DEF Cache
  <2>6. RequestedOnce(c)
    BY <2>2, <2>5 DEF RequestedOnce
  <2> HIDE DEF c
  <2>7. CachesKept'
    BY <2>1, <2>3, <2>4, <2>6, <1>E
  <2> QED
    BY <2>1, <2>7 DEF IInv
<1>14. CASE RequestServed \/ ParsingError \/ RequestThrows
  <2>1. RestOK' /\ SearchHasOrigin' /\ UNCHANGED cache
    BY <1>14 DEF RequestServed, ParsingError, AnswerReceived, RequestThrows, getAndResetShouldClearDependenciesCache,
                 Throw, Same, IInv, RestOK, SearchHasOrigin, user, results, events
  <2> QED
    BY <2>1, <1>N DEF IInv
<1>15. CASE FallbackThrows
  <2>1. CachesKept'
    BY <1>15, InitializeKeepsCaches DEF FallbackThrows, Origin
  <2>2. RestOK' /\ SearchHasOrigin'
    BY <1>15, <1>P DEF FallbackThrows, FillCaches, IInv, RestOK, SearchHasOrigin, user, events, packages
  <2> QED
    BY <2>1, <2>2 DEF IInv
<1>16. CASE UNCHANGED vars
  <2>1. RestOK' /\ SearchHasOrigin' /\ UNCHANGED cache
    BY <1>16 DEF vars, user, events, results, analysis, packages, IInv, RestOK, SearchHasOrigin
  <2> QED
    BY <2>1, <1>N DEF IInv
<1> QED
  BY <1>1, <1>2, <1>3, <1>4, <1>5, <1>6, <1>7, <1>8, <1>9, <1>10, <1>11, <1>12, <1>13,
     <1>14, <1>15, <1>16
  DEF Next, ProcessEvent, Analyze

LEMMA Invariance == Spec => []IInv
  BY InitOK, Step, PTL DEF Spec

(* Every variable keeps its type: in particular every queue stays a sequence
   of tsconfigs and a search always has a cache. *)
THEOREM TypeCorrect == Spec => []TypeOK
<1>1. IInv => TypeOK
  BY TypeParts
<1> QED
  BY <1>1, Invariance, PTL

(* getTsConfigForInputFile requests no tsconfig twice between two clearings
   and forgets none it discovered, whatever projects reference each other. *)
THEOREM NeverRequestedTwice == Spec => []EachRequestedOnce
<1>1. IInv => EachRequestedOnce
  BY TypeParts
<1> QED
  BY <1>1, Invariance, PTL

(* A change of package.json is noted until the worker dropped its
   dependencies, or the request that carried the note threw or was answered
   with a parsing error. *)
THEOREM PackageChangeKept == Spec => []PackageChangeSeen
<1>1. Init => PackageChangeSeen
  BY DEF Init, PackageChangeSeen
<1>2. IInv /\ PackageChangeSeen /\ [Next]_vars => PackageChangeSeen'
  <2> SUFFICES ASSUME IInv, PackageChangeSeen, [Next]_vars PROVE PackageChangeSeen'
    OBVIOUS
  <2> USE DEF PackageChangeSeen, user, events, results, analysis, packages
  <2>1. CASE UserStep
    BY <2>1 DEF UserStep, EditTsConfig, CreateSource, DeleteSource, EditPackageJson,
                ChangeSettings, UserChanges
  <2>2. CASE ProcessEvent
    BY <2>2 DEF ProcessEvent, ProcessTsConfig, ProcessPackageJson, ProcessCreated, Process
  <2>3. CASE UseProperty \/ UseLookup \/ UseFallback
    BY <2>3 DEF UseProperty, UseLookup, UseFallback, Initialize, FillCaches
  <2>4. ASSUME UNCHANGED <<packages, packageEdited>> PROVE PackageChangeSeen'
    BY <2>4
  <2>5. CASE \/ EndAnalysis \/ \E f \in File : AnswerAtOnce(f) \/ StartSearch(f)
             \/ LoadNext \/ LoadThrows \/ NothingFound \/ FallbackThrows
    BY <2>5, <2>4 DEF FallbackThrows, FillCaches, EndAnalysis, AnswerAtOnce, StartSearch, LoadNext, LoadThrows,
                      NothingFound, Same
  <2>6. CASE RequestServed \/ ParsingError
    BY <2>6 DEF RequestServed, ParsingError, getAndResetShouldClearDependenciesCache, Same
  <2>7. CASE RequestThrows
    BY <2>7 DEF RequestThrows, getAndResetShouldClearDependenciesCache, Same
  <2>8. CASE UNCHANGED vars
    BY <2>8 DEF vars
  <2> QED
    BY <2>1, <2>2, <2>3, <2>5, <2>6, <2>7, <2>8 DEF Next, Analyze
<1> QED
  BY <1>1, <1>2, Invariance, PTL DEF Spec

(* LookupCurrent tsconfig by tsconfig: right for each one whose last change
   has been delivered. *)
LookupKnown ==
  cache["LOOKUP"].initialized =>
    /\ cache["LOOKUP"].original \subseteq Named
    /\ \A t \in Named \ edited : t \in cache["LOOKUP"].original <=> disk[t] # Absent

(* An initialized lookup cache knows exactly the tsconfig.json files that
   exist, as soon as all file events are delivered. *)
THEOREM LookupStaysCurrent == Spec => []LookupCurrent
<1>1. Init => LookupKnown
  BY DEF Init, LookupKnown, NewCache, Origin
<1>2. IInv /\ LookupKnown /\ [Next]_vars => LookupKnown'
  <2> SUFFICES ASSUME IInv, LookupKnown, [Next]_vars PROVE LookupKnown'
    OBVIOUS
  <2> DEFINE c == cache["LOOKUP"]
  <2>0. "LOOKUP" \in Origin /\ c \in Cache /\ cache \in [Origin -> Cache]
    BY DEF Origin, IInv, CachesKept
  <2>1. ASSUME cache'["LOOKUP"].original = c.original,
               cache'["LOOKUP"].initialized = c.initialized, UNCHANGED <<edited, disk>>
        PROVE  LookupKnown'
    BY <2>1 DEF LookupKnown
  <2>2. ASSUME NEW t \in TsConfig, EditTsConfig(t) PROVE LookupKnown'
    <3>1. /\ UNCHANGED cache /\ edited' = edited \cup {t}
          /\ \A u \in TsConfig \ {t} : disk'[u] = disk[u]
      BY <2>2 DEF EditTsConfig, UserChanges, IInv, RestOK
    <3> QED
      BY <3>1, TsConfigAssumption DEF LookupKnown
  <2>3. CASE \/ \E f \in File : CreateSource(f) \/ DeleteSource(f)
             \/ EditPackageJson \/ ChangeSettings \/ ProcessPackageJson
    BY <2>1, <2>3 DEF CreateSource, DeleteSource, EditPackageJson, ChangeSettings,
                      UserChanges, ProcessPackageJson, Process, user, events
  <2>4. ASSUME NEW t \in TsConfig, ProcessTsConfig(t) PROVE LookupKnown'
    <3>1. cache'["LOOKUP"] = clearAll(c)
      BY <2>0, <2>4 DEF ProcessTsConfig
    <3> QED
      BY <2>0, <3>1, ClearingAll DEF LookupKnown
  <2>5. CASE ProcessCreated
    <3>1. cache'["LOOKUP"] = clearFileToTsConfigCache(c)
      BY <2>0, <2>5 DEF ProcessCreated
    <3> QED
      BY <2>0, <2>1, <2>5, <3>1, Clearing DEF ProcessCreated, Process, user
  <2>6. CASE UseProperty
    BY <2>0, <2>1, <2>6 DEF UseProperty, Initialize, FillCaches, user, events
  <2>7. CASE UseLookup \/ UseFallback \/ FallbackThrows
    <3>1. UNCHANGED <<edited, disk>>
      BY <2>7 DEF UseLookup, UseFallback, FallbackThrows, Initialize, FillCaches, user, events
    <3>2. cache'["LOOKUP"] = initializeWith(c, "LOOKUP", lookupTsConfigs)
      BY <2>0, <2>7 DEF UseLookup, UseFallback, FallbackThrows, Initialize, FillCaches
    <3>3. CASE c.initialized
      BY <2>1, <3>1, <3>2, <3>3 DEF lookupTsConfigs, initializeWith
    <3>4. CASE ~c.initialized
      <4>1. lookupTsConfigs = {t \in Named : disk[t] # Absent}
        BY <3>4 DEF lookupTsConfigs
      <4>2. lookupTsConfigs \in SUBSET Path /\ RequestedOnce(c)
        BY <2>0, ProvidersFindPaths DEF IInv, CachesKept, EachRequestedOnce
      <4>3. cache'["LOOKUP"].original = lookupTsConfigs
        BY <2>0, <3>2, <4>2, InitializingWith
      <4> QED
        BY <3>1, <4>1, <4>3 DEF LookupKnown
    <3> QED
      BY <3>3, <3>4
  <2>8. CASE \/ EndAnalysis \/ \E f \in File : AnswerAtOnce(f)
             \/ RequestServed \/ ParsingError \/ RequestThrows
    BY <2>1, <2>8 DEF EndAnalysis, AnswerAtOnce, RequestServed, ParsingError, RequestThrows,
                      getAndResetShouldClearDependenciesCache, Same, user, events
  <2>9. ASSUME NEW d, cache' = [cache EXCEPT ![origin] = d], UNCHANGED <<edited, disk>>,
               origin \in Origin,
               d.original = cache[origin].original, d.initialized = cache[origin].initialized
        PROVE  LookupKnown'
    BY <2>0, <2>1, <2>9
  <2>10. ASSUME NEW f \in File, StartSearch(f) PROVE LookupKnown'
    <3>1. origin \in Origin /\ cache[origin] \in Cache /\ UNCHANGED <<edited, disk>>
      BY <2>0, <2>10 DEF StartSearch, Same, user, events, IInv, RestOK
    <3>2. PICK q : cache' = [cache EXCEPT ![origin].pending = q]
      BY <2>10 DEF StartSearch
    <3> DEFINE d == [cache[origin] EXCEPT !.pending = q]
    <3>3. cache' = [cache EXCEPT ![origin] = d]
      BY <2>0, <3>1, <3>2
    <3>4. d.original = cache[origin].original /\ d.initialized = cache[origin].initialized
      BY <3>1 DEF Cache
    <3> HIDE DEF d
    <3> QED
      BY <2>9, <3>1, <3>3, <3>4
  <2>11. CASE LoadNext
    <3>1. origin \in Origin /\ cache[origin] \in Cache /\ UNCHANGED <<edited, disk>>
      BY <2>0, <2>11 DEF LoadNext, Same, user, events, IInv, RestOK, SearchHasOrigin
    <3>2. PICK refs : cache' = [cache EXCEPT ![origin] =
                        Load(cache[origin], Head(cache[origin].pending), refs)]
      BY <2>11 DEF LoadNext
    <3> DEFINE d == Load(cache[origin], Head(cache[origin].pending), refs)
    <3>3. d.original = cache[origin].original /\ d.initialized = cache[origin].initialized
      BY <3>1 DEF Cache, Load
    <3> HIDE DEF d
    <3>4. cache' = [cache EXCEPT ![origin] = d]
      BY <3>2 DEF d
    <3> QED
      BY <2>9, <3>1, <3>3, <3>4
  <2>12. CASE LoadThrows
    <3>1. origin \in Origin /\ cache[origin] \in Cache /\ UNCHANGED <<edited, disk>>
      BY <2>0, <2>12 DEF LoadThrows, Same, user, events, IInv, RestOK, SearchHasOrigin
    <3> DEFINE e == cache[origin]
               d == [e EXCEPT !.pending = Tail(e.pending),
                              !.tried = @ \cup {Head(e.pending)},
                              !.threw = @ \cup {Head(e.pending)}]
    <3>2. cache' = [cache EXCEPT ![origin] = d]
      BY <2>12 DEF LoadThrows
    <3>3. d.original = e.original /\ d.initialized = e.initialized
      BY <3>1 DEF Cache
    <3> HIDE DEF d
    <3> QED
      BY <2>9, <3>1, <3>2, <3>3
  <2>13. CASE NothingFound
    <3>1. origin \in Origin /\ cache[origin] \in Cache /\ UNCHANGED <<edited, disk>>
      BY <2>0, <2>13 DEF NothingFound, Same, user, events, IInv, RestOK, SearchHasOrigin
    <3> DEFINE d == [cache[origin] EXCEPT !.map[inputFile] = None]
    <3>2. cache' = [cache EXCEPT ![origin] = d]
      BY <2>0, <2>13, <3>1 DEF NothingFound
    <3>3. d.original = cache[origin].original /\ d.initialized = cache[origin].initialized
      BY <3>1 DEF Cache
    <3> HIDE DEF d
    <3> QED
      BY <2>9, <3>1, <3>2, <3>3
  <2>14. CASE UNCHANGED vars
    BY <2>1, <2>14 DEF vars, user, events
  <2> QED
    BY <2>2, <2>3, <2>4, <2>5, <2>6, <2>7, <2>8, <2>10, <2>11, <2>12, <2>13, <2>14
    DEF Next, UserStep, ProcessEvent, Analyze
<1>3. LookupKnown => LookupCurrent
  BY DEF LookupKnown, LookupCurrent, Delivered
<1> QED
  BY <1>1, <1>2, <1>3, Invariance, PTL DEF Spec

-----------------------------------------------------------------------------
(***************************************************************************)
(* What the cache answers is what a search of the disk would find now, for *)
(* any files, tsconfigs and references.  The argument: as long as no       *)
(* tsconfig that was loaded has changed since (the cache is settled), what *)
(* was loaded is what is on disk; when one has, its event is on the way    *)
(* and clears the cache.                                                   *)
(***************************************************************************)


(* No loaded tsconfig, nor the base it extends, has an undelivered change;
   only the lookup cache hears of bases. *)
Settled(o, c) ==
  \A t \in c.tried \ {Generated} :
    /\ t \notin edited
    /\ \/ disk[t] = Absent
       \/ disk[t].base = t
       \/ o = "LOOKUP" /\ disk[t].base \notin edited

(* Everything discovered was reached from the originals by loaded tsconfigs. *)
Anchored(c) ==
  \A S \in SUBSET Path :
    c.original \subseteq S /\ (\A s \in S \cap c.tried : RefsOf(s) \subseteq S)
      => c.discovered \subseteq S

(* The references of every loaded tsconfig are discovered. *)
Followed(c) == \A t \in c.tried \ c.threw : RefsOf(t) \subseteq c.discovered

(* The tsconfig of a file was requested and includes the file. *)
MappedRight(c) ==
  \A f \in File : c.map[f] \in Path => c.map[f] \in c.tried /\ f \in IncludedBy(c.map[f])

(* Every file of a loaded tsconfig has a tsconfig, unless it is new. *)
MappedAll(c) ==
  ~created => \A t \in c.tried \ c.threw : \A f \in FilesOf(t) : c.map[f] \in Path

Right(c) == Anchored(c) /\ Followed(c) /\ MappedRight(c) /\ MappedAll(c)

(* "No tsconfig" is only said when the queue is empty. *)
Exhausted(c) ==
  /\ c.original \subseteq c.discovered
  /\ \A f \in File : c.map[f] = None => c.pending = <<>>

(* The fallback cache holds the generated tsconfig at most. *)
FallbackOnly(o, c) == o = "FALLBACK" => c.original \cup c.discovered \subseteq {Generated}

Answers(o, c) == (Settled(o, c) => Right(c)) /\ Exhausted(c) /\ FallbackOnly(o, c)

(* A search is for a file that has no tsconfig yet. *)
Searching ==
  phase = "search" => inputFile \in File /\ cache[origin].map[inputFile] \notin Path

AInv == (\A o \in Origin : Answers(o, cache[o])) /\ Searching

(* Names that are not tsconfigs. *)
LEMMA NotPaths == None \notin Path /\ Unknown \notin Path
  BY TsConfigAssumption DEF Path

(* The base of a tsconfig is a tsconfig. *)
LEMMA BaseIsTsConfig ==
  ASSUME IInv, NEW t \in TsConfig, disk[t] # Absent PROVE disk[t].base \in TsConfig
<1>1. PICK u \in TsConfig : disk[t] \in Contents[u]
  BY DEF IInv, RestOK, Content
<1> QED
  BY <1>1, TsConfigAssumption

(* A cleared cache answers nothing yet. *)
LEMMA ClearedAnswers ==
  ASSUME NEW o \in Origin, NEW c \in Cache, cache'[o] = clearFileToTsConfigCache(c),
         o = "FALLBACK" => c.original \subseteq {Generated}
  PROVE  Answers(o, cache[o])'
<1> DEFINE d == cache'[o]
<1>1. /\ d.tried = {} /\ d.threw = {} /\ d.original = c.original /\ d.discovered = c.original
      /\ d.map = [f \in File |-> Unknown]
  BY DEF clearFileToTsConfigCache, Cache
<1>2. \A f \in File : d.map[f] = Unknown
  BY <1>1
<1>3. (Anchored(cache[o]) /\ Followed(cache[o]) /\ MappedAll(cache[o]))'
  BY <1>1 DEF Anchored, Followed, MappedAll
<1>4. MappedRight(cache[o])'
  BY <1>2, NotPaths DEF MappedRight
<1>5. Exhausted(cache[o])'
  BY <1>1, <1>2, TsConfigAssumption DEF Exhausted
<1>6. FallbackOnly(o, cache[o])'
  BY <1>1 DEF FallbackOnly
<1> QED
  BY <1>3, <1>4, <1>5, <1>6 DEF Answers, Right

LEMMA ClearedAllAnswers ==
  ASSUME NEW o \in Origin, NEW c \in Cache, cache'[o] = clearAll(c)
  PROVE  Answers(o, cache[o])'
<1> DEFINE e == [c EXCEPT !.initialized = FALSE, !.original = {}]
<1>1. e \in Cache /\ e.original = {}
  BY DEF Cache
<1>2. cache'[o] = clearFileToTsConfigCache(e)
  BY DEF clearAll
<1> HIDE DEF e
<1> QED
  BY <1>1, <1>2, ClearedAnswers

(* A cache that a step leaves alone still answers rightly if the step leaves
   alone what the cache has loaded, or unsettles it. *)
LEMMA KeptAnswers ==
  ASSUME NEW o \in Origin, Answers(o, cache[o]), cache'[o] = cache[o],
         Settled(o, cache[o])' => Settled(o, cache[o]),
         Settled(o, cache[o])' => \A t \in cache[o].tried :
           RefsOf(t)' = RefsOf(t) /\ IncludedBy(t)' = IncludedBy(t),
         ~created' => ~created /\ sources' \subseteq sources
  PROVE  Answers(o, cache[o])'
<1> DEFINE c == cache[o]
<1>1. (Exhausted(cache[o]) /\ FallbackOnly(o, cache[o]))'
  BY DEF Answers, Exhausted, FallbackOnly
<1>2. ASSUME Settled(o, cache[o])' PROVE Right(cache[o])'
  <2>1. Right(c) /\ \A t \in c.tried : RefsOf(t)' = RefsOf(t) /\ IncludedBy(t)' = IncludedBy(t)
    BY <1>2 DEF Answers
  <2>2. Anchored(cache[o])'
    BY <2>1 DEF Right, Anchored
  <2>3. Followed(cache[o])'
    BY <2>1 DEF Right, Followed
  <2>4. MappedRight(cache[o])'
    BY <2>1 DEF Right, MappedRight
  <2>5. MappedAll(cache[o])'
    BY <2>1 DEF Right, MappedAll, FilesOf
  <2> QED
    BY <2>2, <2>3, <2>4, <2>5 DEF Right
<1> QED
  BY <1>1, <1>2 DEF Answers

(* In particular when nothing the answers depend on changes. *)
LEMMA UntouchedAnswers ==
  ASSUME NEW o \in Origin, Answers(o, cache[o]), cache'[o] = cache[o],
         UNCHANGED <<disk, edited>>, ~created' => ~created /\ sources' \subseteq sources
  PROVE  Answers(o, cache[o])'
<1>1. Settled(o, cache[o])' => Settled(o, cache[o])
  BY DEF Settled
<1>2. \A t : RefsOf(t)' = RefsOf(t) /\ IncludedBy(t)' = IncludedBy(t)
  BY DEF RefsOf, IncludedBy, Readable
<1> QED
  BY <1>1, <1>2, KeptAnswers

(* Editing a tsconfig unsettles every cache that has loaded it. *)
LEMMA EditedAnswers ==
  ASSUME IInv, NEW u \in TsConfig, EditTsConfig(u), NEW o \in Origin, Answers(o, cache[o])
  PROVE  Answers(o, cache[o])'
<1> DEFINE c == cache[o]
<1>1. /\ UNCHANGED <<cache, sources, created>> /\ edited' = edited \cup {u}
      /\ \A t \in TsConfig \ {u} : disk'[t] = disk[t]
  BY DEF EditTsConfig, UserChanges, IInv, RestOK
<1>2. c.tried \subseteq TsConfig \cup {Generated}
  BY DEF IInv, CachesKept, Cache, Path
<1>3. ASSUME Settled(o, cache[o])', NEW t \in c.tried \ {Generated}
      PROVE  /\ t \in TsConfig \ {u} /\ t \notin edited /\ disk'[t] = disk[t]
             /\ \/ disk[t] = Absent
                \/ disk[t].base \in TsConfig \ {u} /\ disk[t].base = t
                \/ disk[t].base \in TsConfig \ {u} /\ o = "LOOKUP" /\ disk[t].base \notin edited
  <2>1. t \in TsConfig \ {u} /\ t \notin edited /\ disk'[t] = disk[t]
    BY <1>1, <1>2, <1>3 DEF Settled
  <2>2. \/ disk[t] = Absent
        \/ disk[t].base = t
        \/ o = "LOOKUP" /\ disk[t].base \notin edited \cup {u}
    BY <1>1, <1>3, <2>1 DEF Settled
  <2> QED
    BY <2>1, <2>2, BaseIsTsConfig
<1>4. Settled(o, cache[o])' => Settled(o, cache[o])
  BY <1>3 DEF Settled
<1>5. ASSUME Settled(o, cache[o])', NEW t \in c.tried
      PROVE  RefsOf(t)' = RefsOf(t) /\ IncludedBy(t)' = IncludedBy(t)
  <2>1. CASE t = Generated
    BY <2>1 DEF RefsOf, IncludedBy
  <2>2. CASE t # Generated
    <3>1. disk'[t] = disk[t] /\ (disk[t] # Absent => disk'[disk[t].base] = disk[disk[t].base])
      BY <1>1, <1>3, <1>5, <2>2
    <3> QED
      BY <2>2, <3>1 DEF RefsOf, IncludedBy, Readable
  <2> QED
    BY <2>1, <2>2
<1> QED
  BY <1>1, <1>4, <1>5, KeptAnswers

(* A delivered change clears what has loaded it and settles nothing else. *)
LEMMA DeliveredAnswers ==
  ASSUME IInv, NEW u \in TsConfig, ProcessTsConfig(u), NEW o \in Origin, Answers(o, cache[o])
  PROVE  Answers(o, cache[o])'
<1> DEFINE c == cache[o]
<1>1. c \in Cache /\ c.tried \subseteq c.discovered
  BY DEF IInv, CachesKept, EachRequestedOnce, RequestedOnce
<1>2. UNCHANGED <<disk, sources, created>> /\ edited' = edited \ {u}
  BY DEF ProcessTsConfig, Process, user
<1>3. CASE o = "LOOKUP" \/ (o = "PROPERTY" /\ u \in c.discovered)
  <2>1. cache'[o] = clearAll(c)
    BY <1>3 DEF ProcessTsConfig
  <2> QED
    BY <1>1, <2>1, ClearedAllAnswers
<1>4. CASE ~(o = "LOOKUP" \/ (o = "PROPERTY" /\ u \in c.discovered))
  <2>1. cache'[o] = c
    BY <1>4 DEF ProcessTsConfig
  <2>2. u \in c.tried => c.tried \subseteq {Generated}
    BY <1>1, <1>4 DEF Origin, Answers, FallbackOnly
  <2>3. Settled(o, cache[o])' => Settled(o, cache[o])
    BY <1>2, <1>4, <2>1, <2>2 DEF Settled
  <2>4. \A t : RefsOf(t)' = RefsOf(t) /\ IncludedBy(t)' = IncludedBy(t)
    BY <1>2 DEF RefsOf, IncludedBy, Readable
  <2> QED
    BY <1>2, <2>1, <2>3, <2>4, KeptAnswers
<1> QED
  BY <1>3, <1>4

(* Handing a provider's list to its cache keeps or clears it. *)
LEMMA InitializedAnswers ==
  ASSUME IInv, NEW lists, FillCaches(lists), DOMAIN lists \subseteq Origin,
         \A p \in DOMAIN lists : lists[p] \in SUBSET Path,
         "FALLBACK" \in DOMAIN lists => lists["FALLBACK"] \subseteq {Generated},
         NEW o \in Origin, Answers(o, cache[o])
  PROVE  Answers(o, cache[o])'
<1>1. UNCHANGED <<disk, edited, sources, created>>
  BY DEF FillCaches, user, events
<1>2. cache[o] \in Cache
  BY DEF IInv, CachesKept
<1>3. CASE cache'[o] = cache[o]
  BY <1>1, <1>3, UntouchedAnswers
<1>4. CASE o \in DOMAIN lists /\ cache'[o] = initializeOriginalTsConfigs(cache[o], lists[o])
  <2> DEFINE e == [cache[o] EXCEPT !.initialized = TRUE, !.original = lists[o]]
  <2>1. e \in Cache /\ e.original = lists[o]
    BY <1>2, <1>4 DEF Cache
  <2>2. cache'[o] = clearFileToTsConfigCache(e)
    BY <1>4 DEF initializeOriginalTsConfigs
  <2> HIDE DEF e
  <2> QED
    BY <1>4, <2>1, <2>2, ClearedAnswers
<1> QED
  BY <1>3, <1>4 DEF FillCaches, initializeWith

(* What a load records is what is on disk. *)
LEMMA LoadedAnswers ==
  ASSUME IInv, AInv, LoadNext
  PROVE  AInv'
<1> DEFINE c == cache[origin]
           t == Head(c.pending)
<1>1. /\ origin \in Origin /\ c \in Cache /\ RequestedOnce(c) /\ c.pending # <<>>
      /\ Answers(origin, c)
  BY DEF LoadNext, AInv, IInv, RestOK, CachesKept, EachRequestedOnce, SearchHasOrigin
<1>2. PICK refs \in Orders(NewReferences(c, t)) :
        cache' = [cache EXCEPT ![origin] = Load(c, t, refs)]
  BY DEF LoadNext
<1>3. UNCHANGED <<disk, edited, sources, created, origin, inputFile>>
  BY DEF LoadNext, Same, user, events, results
<1>4. /\ t \in Path /\ t \in c.discovered
  <2>1. c.pending \in Seq(Path)
    BY <1>1 DEF Cache
  <2>2. t \in Path /\ t \in ElementsOf(c.pending)
    BY <1>1, <2>1, TailDropsHead DEF RequestedOnce
  <2> QED
    BY <1>1, <2>2 DEF RequestedOnce
<1>5. ElementsOf(refs) = RefsOf(t) \ c.discovered
  <2>1. NewReferences(c, t) \in SUBSET Path
    BY <1>4, TypeParts, ReferencesArePaths DEF NewReferences
  <2> QED
    BY <1>2, <2>1, OrderListsOnce DEF NewReferences
<1> DEFINE d == Load(c, t, refs)
<1>6. cache'[origin] = d /\ \A o \in Origin \ {origin} : cache'[o] = cache[o]
  BY <1>1, <1>2 DEF IInv, CachesKept
<1>7. /\ d.discovered = c.discovered \cup RefsOf(t) /\ d.original = c.original
      /\ d.tried = c.tried \cup {t} /\ d.threw = c.threw
      /\ d.map = [f \in File |-> IF c.map[f] = Unknown /\ f \in FilesOf(t)
                                 THEN t ELSE c.map[f]]
  BY <1>1, <1>5 DEF Load, Cache
<1>8. \A f \in File : c.map[f] # None /\ c.map[f] \in Path \cup {Unknown}
  BY <1>1 DEF Answers, Exhausted, Cache
<1>9. \A f \in File : d.map[f] = IF c.map[f] = Unknown /\ f \in FilesOf(t)
                                 THEN t ELSE c.map[f]
  BY <1>7
<1> HIDE DEF d, t
<1>R. \A u : /\ RefsOf(u)' = RefsOf(u) /\ IncludedBy(u)' = IncludedBy(u)
             /\ FilesOf(u)' = FilesOf(u)
  BY <1>3 DEF RefsOf, IncludedBy, FilesOf, Readable
<1>10. Exhausted(cache[origin])'
  <2>1. d.original \subseteq d.discovered
    BY <1>1, <1>7 DEF Answers, Exhausted
  <2>2. \A f \in File : d.map[f] # None
    BY <1>4, <1>8, <1>9, NotPaths
  <2> QED
    BY <1>3, <1>6, <2>1, <2>2 DEF Exhausted
<1>11. FallbackOnly(origin, cache[origin])'
  BY <1>1, <1>3, <1>4, <1>6, <1>7 DEF Answers, FallbackOnly, RefsOf
<1>12. ASSUME Settled(origin, cache[origin])' PROVE Right(cache[origin])'
  <2>1. Right(c)
    BY <1>1, <1>3, <1>6, <1>7, <1>12 DEF Settled, Answers
  <2>2. Anchored(cache[origin])'
    <3> SUFFICES ASSUME NEW S \in SUBSET Path, d.original \subseteq S,
                        \A s \in S \cap d.tried : RefsOf(s) \subseteq S
                 PROVE  d.discovered \subseteq S
      BY <1>3, <1>6, <1>R DEF Anchored
    <3>1. c.discovered \subseteq S
      BY <1>7, <2>1 DEF Right, Anchored
    <3> QED
      BY <1>4, <1>7, <3>1
  <2>3. Followed(cache[origin])'
    <3>1. \A u \in d.tried \ d.threw : RefsOf(u) \subseteq d.discovered
      BY <1>7, <2>1 DEF Right, Followed
    <3> QED
      BY <1>3, <1>6, <1>R, <3>1 DEF Followed
  <2>4. MappedRight(cache[origin])'
    <3>1. ASSUME NEW f \in File, d.map[f] \in Path
          PROVE  d.map[f] \in d.tried /\ f \in IncludedBy(d.map[f])
      BY <1>7, <1>8, <1>9, <2>1, <3>1 DEF Right, MappedRight, FilesOf
    <3> QED
      BY <1>3, <1>6, <1>R, <3>1 DEF MappedRight
  <2>5. MappedAll(cache[origin])'
    <3>1. ASSUME ~created, NEW u \in d.tried \ d.threw, NEW f \in FilesOf(u)
          PROVE  d.map[f] \in Path
      <4>1. f \in File
        BY <3>1 DEF FilesOf, IInv, RestOK
      <4>2. CASE u = t
        BY <1>4, <1>8, <1>9, <3>1, <4>1, <4>2
      <4>3. CASE u # t
        <5>1. c.map[f] \in Path
          BY <1>7, <2>1, <3>1, <4>3 DEF Right, MappedAll
        <5> QED
          BY <1>9, <4>1, <5>1, NotPaths
      <4> QED
        BY <4>2, <4>3
    <3> QED
      BY <1>3, <1>6, <1>R, <3>1 DEF MappedAll
  <2> QED
    BY <2>2, <2>3, <2>4, <2>5 DEF Right
<1>13. Answers(origin, cache[origin])'
  BY <1>3, <1>10, <1>11, <1>12 DEF Answers
<1>14. ASSUME NEW o \in Origin PROVE Answers(o, cache[o])'
  <2>1. CASE o = origin
    BY <1>3, <1>13, <2>1
  <2>2. CASE o # origin
    BY <1>3, <1>6, <2>2, UntouchedAnswers DEF AInv
  <2> QED
    BY <2>1, <2>2
<1>15. Searching'
  <2>1. phase' = "search" => cache'[origin].map[inputFile] = Unknown
    BY DEF LoadNext
  <2> QED
    BY <1>3, <2>1, NotPaths DEF Searching, AInv, LoadNext
<1> QED
  BY <1>14, <1>15 DEF AInv

(* A change of the origin's queue that keeps what it has answered. *)
LEMMA QueuedAnswers ==
  ASSUME IInv, AInv, origin \in Origin, UNCHANGED <<disk, edited, sources, created>>,
         NEW d, cache' = [cache EXCEPT ![origin] = d],
         d.original = cache[origin].original, d.discovered = cache[origin].discovered,
         cache[origin].tried \subseteq d.tried,
         d.tried \ d.threw \subseteq cache[origin].tried \ cache[origin].threw,
         Exhausted(d),
         \A f \in File : \/ d.map[f] = cache[origin].map[f]
                         \/ d.map[f] = None /\ cache[origin].map[f] \notin Path
  PROVE  \A o \in Origin : Answers(o, cache[o])'
<1> DEFINE c == cache[origin]
<1>1. cache'[origin] = d /\ \A o \in Origin \ {origin} : cache'[o] = cache[o]
  BY DEF IInv, CachesKept
<1>2. Answers(origin, c)
  BY DEF AInv
<1>R. \A u : /\ RefsOf(u)' = RefsOf(u) /\ IncludedBy(u)' = IncludedBy(u)
             /\ FilesOf(u)' = FilesOf(u)
  BY DEF RefsOf, IncludedBy, FilesOf, Readable
<1>3. ASSUME Settled(origin, d) PROVE Right(d)
  <2>1. Right(c)
    BY <1>2, <1>3 DEF Settled, Answers
  <2>2. Anchored(d)
    BY <2>1 DEF Right, Anchored
  <2>3. Followed(d)
    BY <2>1 DEF Right, Followed
  <2>4. MappedRight(d)
    BY <2>1, NotPaths DEF Right, MappedRight
  <2>5. MappedAll(d)
    <3> SUFFICES ASSUME ~created, NEW u \in d.tried \ d.threw, NEW f \in FilesOf(u)
                 PROVE  d.map[f] \in Path
      BY DEF MappedAll
    <3>1. c.map[f] \in Path /\ f \in File
      BY <2>1 DEF Right, MappedAll, FilesOf, IInv, RestOK
    <3> QED
      BY <3>1
  <2> QED
    BY <2>2, <2>3, <2>4, <2>5 DEF Right
<1>4. ASSUME NEW o \in Origin, o = origin PROVE Answers(o, cache[o])'
  <2>1. FallbackOnly(origin, d)
    BY <1>2 DEF Answers, FallbackOnly
  <2>2. Settled(o, cache[o])' => Settled(origin, d)
    BY <1>1, <1>4 DEF Settled
  <2>3. Right(d) => Right(cache[o])'
    BY <1>1, <1>4, <1>R DEF Right, Anchored, Followed, MappedRight, MappedAll
  <2>4. (Exhausted(cache[o]) /\ FallbackOnly(o, cache[o]))'
    BY <1>1, <1>4, <2>1 DEF Exhausted, FallbackOnly
  <2> QED
    BY <1>3, <2>2, <2>3, <2>4 DEF Answers
<1>5. ASSUME NEW o \in Origin, o # origin PROVE Answers(o, cache[o])'
  BY <1>1, <1>5, UntouchedAnswers DEF AInv
<1> QED
  BY <1>4, <1>5

(* Every step keeps the answers right. *)
LEMMA AnswersStep == IInv /\ AInv /\ [Next]_vars => AInv'
<1> SUFFICES ASSUME IInv, AInv, [Next]_vars PROVE AInv'
  OBVIOUS
<1>A. \A o \in Origin : Answers(o, cache[o])
  BY DEF AInv
<1>C. \A o \in Origin : cache[o] \in Cache
  BY DEF IInv, CachesKept
<1>U. ASSUME UNCHANGED <<cache, disk, edited>>, ~created' => ~created /\ sources' \subseteq sources
      PROVE  \A o \in Origin : Answers(o, cache[o])'
  BY <1>A, <1>U, UntouchedAnswers
<1>I. ASSUME phase' # "search" PROVE Searching'
  BY <1>I DEF Searching
<1>1. ASSUME NEW u \in TsConfig, EditTsConfig(u) PROVE AInv'
  <2>1. Searching'
    BY <1>1 DEF EditTsConfig, UserChanges, analysis, results, AInv, Searching
  <2> QED
    BY <1>1, <1>A, <2>1, EditedAnswers DEF AInv
<1>2. CASE \/ \E f \in File : CreateSource(f) \/ DeleteSource(f)
           \/ EditPackageJson \/ ChangeSettings
  <2>1. /\ UNCHANGED <<cache, disk, edited, phase, inputFile, origin>>
        /\ ~created' => ~created /\ sources' \subseteq sources
    BY <1>2 DEF CreateSource, DeleteSource, EditPackageJson, ChangeSettings, UserChanges,
                analysis, results, events
  <2> QED
    BY <2>1, <1>U DEF AInv, Searching
<1>3. ASSUME NEW u \in TsConfig, ProcessTsConfig(u) PROVE AInv'
  <2>1. phase' # "search"
    BY <1>3 DEF ProcessTsConfig, Process, analysis
  <2> QED
    BY <1>3, <1>A, <1>I, <2>1, DeliveredAnswers DEF AInv
<1>4. CASE ProcessPackageJson
  BY <1>4, <1>U, <1>I DEF ProcessPackageJson, Process, user, analysis, AInv
<1>5. CASE ProcessCreated
  <2>1. ASSUME NEW o \in Origin PROVE Answers(o, cache[o])'
    <3>1. cache'[o] = clearFileToTsConfigCache(cache[o])
      BY <1>5 DEF ProcessCreated
    <3>2. o = "FALLBACK" => cache[o].original \subseteq {Generated}
      BY <1>A DEF Answers, FallbackOnly
    <3> QED
      BY <1>C, <3>1, <3>2, ClearedAnswers
  <2> QED
    BY <1>5, <1>I, <2>1 DEF ProcessCreated, Process, analysis, AInv
<1>P. propertyTsConfigs \subseteq Path /\ lookupTsConfigs \subseteq Path
  BY ProvidersFindPaths
<1>6. CASE UseProperty
  <2>1. \A o \in Origin : Answers(o, cache[o])'
    BY <1>6, <1>A, <1>P, InitializedAnswers DEF UseProperty, Initialize, Origin
  <2> QED
    BY <1>6, <1>I, <2>1 DEF UseProperty, Initialize, FillCaches, AInv
<1>7. CASE UseLookup
  <2>1. \A o \in Origin : Answers(o, cache[o])'
    BY <1>7, <1>A, <1>P, InitializedAnswers DEF UseLookup, Initialize, Origin
  <2> QED
    BY <1>7, <1>I, <2>1 DEF UseLookup, Initialize, FillCaches, AInv
<1>8. CASE UseFallback
  <2>1. found' \subseteq {Generated} /\ found' \subseteq Path
    BY <1>8 DEF UseFallback, Path
  <2>2. \A o \in Origin : Answers(o, cache[o])'
    BY <1>8, <1>A, <2>1, InitializedAnswers DEF UseFallback, Initialize, Origin
  <2> QED
    BY <1>8, <1>I, <2>2 DEF UseFallback, Initialize, FillCaches, AInv
<1>T. CASE FallbackThrows
  <2>1. \A o \in Origin : Answers(o, cache[o])'
    BY <1>T, <1>A, InitializedAnswers DEF FallbackThrows, Origin
  <2> QED
    BY <1>T, <1>I, <2>1 DEF FallbackThrows, FillCaches, AInv
<1>9. CASE \/ EndAnalysis \/ \E f \in File : AnswerAtOnce(f)
           \/ RequestServed \/ ParsingError \/ RequestThrows
  <2>1. UNCHANGED <<cache, disk, edited, created, sources>> /\ phase' # "search"
    BY <1>9 DEF EndAnalysis, AnswerAtOnce, RequestServed, ParsingError, AnswerReceived, RequestThrows, Throw,
                getAndResetShouldClearDependenciesCache, Same, user, events
  <2> QED
    BY <2>1, <1>U, <1>I DEF AInv
<1>10. ASSUME NEW f \in File, StartSearch(f) PROVE AInv'
  <2>1. /\ origin \in Origin /\ UNCHANGED <<disk, edited, sources, created, origin>>
        /\ inputFile' = f /\ cache[origin].map[f] = Unknown
    BY <1>10 DEF StartSearch, Same, user, events, results, IInv, RestOK
  <2> DEFINE c == cache[origin]
  <2>2. PICK q \in improvedPendingTsConfigOrder(c.pending, f) :
          cache' = [cache EXCEPT ![origin].pending = q]
    BY <1>10 DEF StartSearch
  <2> DEFINE d == [c EXCEPT !.pending = q]
  <2>3. cache' = [cache EXCEPT ![origin] = d] /\ cache'[origin] = d
    BY <2>1, <2>2 DEF IInv, CachesKept
  <2>4. c \in Cache /\ c.pending \in Seq(Path)
    BY <1>C, <2>1 DEF Cache
  <2>5. /\ d.original = c.original /\ d.discovered = c.discovered /\ d.map = c.map
        /\ d.tried = c.tried /\ d.threw = c.threw /\ d.pending = q
    BY <2>4 DEF Cache
  <2>6. c.pending = <<>> => q = <<>>
    <3> SUFFICES ASSUME c.pending = <<>> PROVE q = <<>>
      OBVIOUS
    <3>1. DOMAIN c.pending = {}
      OBVIOUS
    <3>2. q \in Seq(Path) /\ DOMAIN q = {}
      BY <2>2, <2>4, <3>1 DEF improvedPendingTsConfigOrder
    <3> QED
      BY <3>2
  <2> HIDE DEF d
  <2>7. Exhausted(d)
    BY <1>A, <2>1, <2>5, <2>6 DEF Answers, Exhausted
  <2>8. \A o \in Origin : Answers(o, cache[o])'
    BY <2>1, <2>3, <2>5, <2>7, QueuedAnswers
  <2>9. Searching'
    BY <2>1, <2>3, <2>5, NotPaths DEF Searching
  <2> QED
    BY <2>8, <2>9 DEF AInv
<1>11. CASE LoadNext
  BY <1>11, LoadedAnswers
<1>12. CASE LoadThrows
  <2>1. origin \in Origin /\ UNCHANGED <<disk, edited, sources, created>> /\ phase' # "search"
    BY <1>12 DEF LoadThrows, Throw, Same, user, events, IInv, RestOK, SearchHasOrigin
  <2> DEFINE c == cache[origin]
             d == [c EXCEPT !.pending = Tail(c.pending),
                            !.tried = @ \cup {Head(c.pending)},
                            !.threw = @ \cup {Head(c.pending)}]
  <2>2. cache' = [cache EXCEPT ![origin] = d] /\ c.pending # <<>>
    BY <1>12 DEF LoadThrows
  <2>3. /\ d.original = c.original /\ d.discovered = c.discovered /\ d.map = c.map
        /\ d.tried = c.tried \cup {Head(c.pending)}
        /\ d.threw = c.threw \cup {Head(c.pending)}
    BY <1>C, <2>1 DEF Cache
  <2> HIDE DEF d
  <2>4. Exhausted(d)
    BY <1>A, <2>1, <2>2, <2>3 DEF Answers, Exhausted
  <2>5. \A o \in Origin : Answers(o, cache[o])'
    BY <2>1, <2>2, <2>3, <2>4, QueuedAnswers
  <2> QED
    BY <1>I, <2>1, <2>5 DEF AInv
<1>13. CASE NothingFound
  <2>1. /\ origin \in Origin /\ UNCHANGED <<disk, edited, sources, created>> /\ phase' # "search"
        /\ inputFile \in File /\ cache[origin].map[inputFile] \notin Path
        /\ cache[origin].pending = <<>>
    BY <1>13 DEF NothingFound, Same, user, events, IInv, RestOK, SearchHasOrigin, AInv, Searching
  <2> DEFINE c == cache[origin]
             d == [c EXCEPT !.map[inputFile] = None]
  <2>2. cache' = [cache EXCEPT ![origin] = d]
    BY <1>13, <2>1 DEF NothingFound, IInv, CachesKept
  <2>3. /\ d.original = c.original /\ d.discovered = c.discovered /\ d.pending = c.pending
        /\ d.tried = c.tried /\ d.threw = c.threw
        /\ \A f \in File : d.map[f] = IF f = inputFile THEN None ELSE c.map[f]
    BY <1>C, <2>1 DEF Cache
  <2> HIDE DEF d
  <2>4. Exhausted(d)
    BY <1>A, <2>1, <2>3 DEF Answers, Exhausted
  <2>5. \A o \in Origin : Answers(o, cache[o])'
    BY <2>1, <2>2, <2>3, <2>4, QueuedAnswers
  <2> QED
    BY <1>I, <2>1, <2>5 DEF AInv
<1>14. CASE UNCHANGED vars
  BY <1>14, <1>U DEF vars, user, events, analysis, results, AInv, Searching
<1> QED
  BY <1>1, <1>2, <1>3, <1>4, <1>5, <1>6, <1>7, <1>8, <1>9, <1>10, <1>11, <1>12, <1>13, <1>14, <1>T
  DEF Next, UserStep, ProcessEvent, Analyze

(* Initially every cache is empty. *)
LEMMA AnswersInit == Init => AInv
<1> SUFFICES ASSUME Init PROVE AInv
  OBVIOUS
<1>1. /\ NewCache.tried = {} /\ NewCache.threw = {} /\ NewCache.original = {}
      /\ NewCache.discovered = {} /\ \A f \in File : NewCache.map[f] = Unknown
  BY DEF NewCache
<1>2. Right(NewCache) /\ Exhausted(NewCache)
  BY <1>1, NotPaths, TsConfigAssumption
  DEF Right, Anchored, Followed, MappedRight, MappedAll, Exhausted
<1>3. \A o \in Origin : FallbackOnly(o, NewCache)
  BY <1>1 DEF FallbackOnly
<1> QED
  BY <1>2, <1>3 DEF Init, AInv, Answers, Searching

(* A settled cache answers what a search of the disk would find. *)
LEMMA AnswersAreCurrent == IInv /\ AInv => AnswersCurrent
<1> SUFFICES ASSUME IInv, AInv, Delivered, NEW o \in Origin, Tracked(o), NEW f \in sources
             PROVE  LET t == cache[o].map[f] IN
                      /\ t \in Path => t \in Reach(o) /\ f \in FilesOf(t)
                      /\ t = None /\ cache[o].threw = {} =>
                           \A u \in Reach(o) : f \notin FilesOf(u)
  BY DEF AnswersCurrent
<1> DEFINE c == cache[o]
           t == c.map[f]
<1>1. /\ c \in Cache /\ RequestedOnce(c) /\ Answers(o, c) /\ f \in File
  BY DEF IInv, RestOK, CachesKept, EachRequestedOnce, AInv
<1>2. Settled(o, c)
  <2>1. CASE o = "FALLBACK"
    BY <1>1, <2>1 DEF Settled, Answers, FallbackOnly, RequestedOnce
  <2>2. CASE o = "LOOKUP"
    BY <2>2 DEF Settled, Delivered
  <2>3. CASE o = "PROPERTY"
    BY <2>3 DEF Settled, Delivered, Tracked
  <2> QED
    BY <2>1, <2>2, <2>3 DEF Origin
<1>3. Right(c) /\ Exhausted(c)
  BY <1>1, <1>2 DEF Answers
<1>4. ASSUME t \in Path PROVE t \in Reach(o) /\ f \in FilesOf(t)
  <2>1. t \in c.discovered /\ f \in FilesOf(t)
    BY <1>1, <1>3, <1>4 DEF Right, MappedRight, FilesOf, RequestedOnce
  <2>2. ASSUME NEW S \in SUBSET Path, c.original \subseteq S, \A s \in S : RefsOf(s) \subseteq S
        PROVE  t \in S
    BY <1>3, <2>1, <2>2 DEF Right, Anchored
  <2> QED
    BY <1>4, <2>1, <2>2 DEF Reach
<1>5. ASSUME t = None, c.threw = {}, NEW u \in Reach(o) PROVE f \notin FilesOf(u)
  <2>1. c.pending = <<>> /\ c.original \subseteq c.discovered
    BY <1>1, <1>3, <1>5 DEF Exhausted
  <2>2. c.tried = c.discovered /\ c.discovered \subseteq Path
    <3>1. ElementsOf(<<>>) = {}
      BY DEF ElementsOf
    <3> QED
      BY <1>1, <2>1, <3>1 DEF RequestedOnce, Cache
  <2>3. \A s \in c.discovered : RefsOf(s) \subseteq c.discovered
    BY <1>3, <1>5, <2>2 DEF Right, Followed
  <2>4. u \in c.discovered
    BY <1>5, <2>1, <2>2, <2>3 DEF Reach
  <2>5. f \in FilesOf(u) => t \in Path
    BY <1>3, <1>5, <2>2, <2>4 DEF Right, MappedAll, Delivered
  <2> QED
    BY <1>5, <2>5, NotPaths
<1> QED
  BY <1>4, <1>5

(* Once all file events are delivered the cache answers what a search of the
   disk would find now, however searches, changes, events and failed requests
   followed one another. *)
THEOREM AnswersStayCurrent == Spec => []AnswersCurrent
<1>1. IInv /\ AInv /\ [Next]_vars => AInv'
  BY AnswersStep
<1>2. Init => AInv
  BY AnswersInit
<1>3. IInv /\ AInv => AnswersCurrent
  BY AnswersAreCurrent
<1> QED
  BY <1>1, <1>2, <1>3, Invariance, PTL DEF Spec
=============================================================================
