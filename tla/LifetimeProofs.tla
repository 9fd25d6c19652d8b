--------------------------- MODULE LifetimeProofs ---------------------------
(***************************************************************************)
(* Theorems about Lifetime, for any threads and any number of matches: the  *)
(* reference counts are exact at every step, so nothing is freed while a    *)
(* thread can reach it.                                                      *)
(***************************************************************************)
EXTENDS Lifetime, FiniteSetTheorems, TLAPS

\* The references to the database, numbered within their thread.
DbTokens == {r \in Thread \X (1..MaxDbRefs) : r[2] <= dbRefs[r[1]]}

InArray(m)   == {d \in Device : m \in holds[d]}
AsDefault(m) == {d \in Device : default[d] = m}

Destroying(t) == pc[t] \in {"destroy", "freeDevice"}

DbRefsExact == dbRefcnt = Cardinality(DbTokens)

\* What a thread has of its copy, by the call it is in.
CopyOf(t) ==
  /\ pc[t] \in {"copy", "setDefault"} => dbRefs[t] > 0
  /\ pc[t] = "copy" => holds[t] = 1..(at[t] - 1) /\ default[t] = NoMatch
  /\ pc[t] = "setDefault" => holds[t] = Match
  /\ pc[t] = "freeCopy" => holds[t] = at[t]..NMatches /\ default[t] # NoMatch
  /\ pc[t] = "idle" \/ Destroying(t) =>
       holds[t] = IF default[t] = NoMatch THEN {} ELSE Match

CopyInv == \A t \in Thread : CopyOf(t)

\* The database is whole while it is referenced; then one thread takes it apart.
DestroyerInv ==
  /\ \A t, u \in Thread : Destroying(t) /\ Destroying(u) => t = u
  /\ dbRefcnt > 0 => ~dbFreed /\ entries = NMatches /\ \A t \in Thread : ~Destroying(t)
  /\ dbRefcnt = 0 => (dbFreed <=> \A t \in Thread : ~Destroying(t))
  /\ dbFreed => entries = 0

\* The device of the tables has its matches until its last entry is destroyed.
DeviceInv ==
  /\ devRefcnt = entries
  /\ (\A t \in Thread : pc[t] # "freeDevice") =>
       IF entries > 0 THEN holds[Database] = Match /\ default[Database] # NoMatch
       ELSE holds[Database] = {} /\ default[Database] = NoMatch
  /\ \A t \in Thread : pc[t] = "freeDevice" =>
       entries = 0 /\ holds[Database] = at[t]..NMatches /\ default[Database] # NoMatch

LifeInv == LifeTypeOK /\ DbRefsExact /\ CopyInv /\ DestroyerInv /\ DeviceInv /\ MatchRefsExact

-----------------------------------------------------------------------------
LEMMA Finite ==
  /\ IsFiniteSet(Device)
  /\ IsFiniteSet(Thread \X (1..MaxDbRefs))
<1>1. IsFiniteSet(Device)
  BY FS_AddElement, ThreadAssumption DEF Device
<1>2. IsFiniteSet(1..MaxDbRefs)
  BY FS_Interval, MatchesAssumption
<1> QED
  BY <1>1, <1>2, FS_Product, ThreadAssumption

LEMMA FiniteSets ==
  /\ IsFiniteSet(DbTokens) /\ Cardinality(DbTokens) \in Nat
  /\ \A m : /\ IsFiniteSet(InArray(m)) /\ Cardinality(InArray(m)) \in Nat
            /\ IsFiniteSet(AsDefault(m)) /\ Cardinality(AsDefault(m)) \in Nat
<1>1. DbTokens \subseteq Thread \X (1..MaxDbRefs)
  BY DEF DbTokens
<1>2. \A m : InArray(m) \subseteq Device /\ AsDefault(m) \subseteq Device
  BY DEF InArray, AsDefault
<1>3. \A S, T : IsFiniteSet(T) /\ S \subseteq T => IsFiniteSet(S) /\ Cardinality(S) \in Nat
  BY FS_Subset, FS_CardinalityType
<1> QED
  BY <1>1, <1>2, <1>3, Finite

\* The count of the database is 0 exactly when no thread has a reference to it.
LEMMA CountIsZero ==
  ASSUME LifeTypeOK, DbRefsExact
  PROVE  dbRefcnt = 0 <=> \A t \in Thread : dbRefs[t] = 0
<1>1. DbTokens = {} <=> \A t \in Thread : dbRefs[t] = 0
  <2>1. ASSUME NEW t \in Thread, dbRefs[t] # 0 PROVE <<t, 1>> \in DbTokens
    BY <2>1, MatchesAssumption DEF DbTokens, LifeTypeOK
  <2>2. ASSUME NEW r \in DbTokens PROVE r[1] \in Thread /\ dbRefs[r[1]] # 0
    BY MatchesAssumption DEF DbTokens, LifeTypeOK
  <2> QED
    BY <2>1, <2>2
<1> QED
  BY <1>1, FiniteSets, FS_EmptySet DEF DbRefsExact

LEMMA TakeReference ==
  ASSUME LifeTypeOK, DbRefsExact, NEW u \in Thread, dbRefs[u] < MaxDbRefs,
         dbRefcnt' = dbRefcnt + 1, dbRefs' = [dbRefs EXCEPT ![u] = @ + 1]
  PROVE  DbRefsExact'
<1> DEFINE r == <<u, dbRefs[u] + 1>>
<1>1. DbTokens' = DbTokens \cup {r}
  BY MatchesAssumption DEF DbTokens, LifeTypeOK
<1>2. r \notin DbTokens
  BY DEF DbTokens, LifeTypeOK
<1> QED
  BY <1>1, <1>2, FiniteSets, FS_AddElement DEF DbRefsExact

LEMMA DropReference ==
  ASSUME LifeTypeOK, DbRefsExact, NEW t \in Thread, dbRefs[t] > 0,
         dbRefcnt' = dbRefcnt - 1, dbRefs' = [dbRefs EXCEPT ![t] = @ - 1]
  PROVE  DbRefsExact'
<1> DEFINE r == <<t, dbRefs[t]>>
<1>1. DbTokens' = DbTokens \ {r}
  BY MatchesAssumption DEF DbTokens, LifeTypeOK
<1>2. r \in DbTokens
  BY MatchesAssumption DEF DbTokens, LifeTypeOK
<1> QED
  BY <1>1, <1>2, FiniteSets, FS_RemoveElement DEF DbRefsExact

-----------------------------------------------------------------------------
LEMMA CountedNow ==
  ASSUME MatchRefsExact
  PROVE  \A m \in Match : matchRefcnt[m] = Cardinality(InArray(m)) + Cardinality(AsDefault(m))
BY DEF MatchRefsExact, InArray, AsDefault

\* One more pointer to a match and one more in its count, or one less.
LEMMA HoldMatch ==
  ASSUME LifeTypeOK, MatchRefsExact, NEW d \in Device, NEW m \in Match, m \notin holds[d],
         RefMatch(m), holds' = [holds EXCEPT ![d] = @ \cup {m}], default' = default
  PROVE  MatchRefsExact' /\ matchRefcnt' \in [Match -> Nat] /\ holds' \in [Device -> SUBSET Match]
<1>1. InArray(m)' = InArray(m) \cup {d} /\ d \notin InArray(m)
  BY DEF InArray, LifeTypeOK
<1>2. \A n \in Match \ {m} : InArray(n)' = InArray(n)
  BY DEF InArray, LifeTypeOK
<1>3. \A n : AsDefault(n)' = AsDefault(n)
  BY DEF AsDefault
<1>4. Cardinality(InArray(m)') = Cardinality(InArray(m)) + 1
  BY <1>1, FiniteSets, FS_AddElement
<1>5. \A n \in Match : matchRefcnt'[n] = Cardinality(InArray(n)') + Cardinality(AsDefault(n)')
  BY CountedNow, <1>2, <1>3, <1>4, FiniteSets DEF RefMatch, LifeTypeOK
<1> QED
  BY <1>5 DEF MatchRefsExact, InArray, AsDefault, RefMatch, LifeTypeOK

LEMMA ReleaseMatch ==
  ASSUME LifeTypeOK, MatchRefsExact, NEW d \in Device, NEW m \in Match, m \in holds[d],
         UnrefMatch(m), holds' = [holds EXCEPT ![d] = @ \ {m}], default' = default
  PROVE  MatchRefsExact' /\ matchRefcnt' \in [Match -> Nat] /\ holds' \in [Device -> SUBSET Match]
<1>1. InArray(m)' = InArray(m) \ {d} /\ d \in InArray(m)
  BY DEF InArray, LifeTypeOK
<1>2. \A n \in Match \ {m} : InArray(n)' = InArray(n)
  BY DEF InArray, LifeTypeOK
<1>3. \A n : AsDefault(n)' = AsDefault(n)
  BY DEF AsDefault
<1>4. Cardinality(InArray(m)') = Cardinality(InArray(m)) - 1 /\ Cardinality(InArray(m)') \in Nat
  <2>1. IsFiniteSet(InArray(m) \ {d})
    BY FiniteSets, FS_RemoveElement
  <2> QED
    BY <1>1, <2>1, FiniteSets, FS_RemoveElement, FS_CardinalityType
<1>5. \A n \in Match : matchRefcnt'[n] = Cardinality(InArray(n)') + Cardinality(AsDefault(n)')
  BY CountedNow, <1>2, <1>3, <1>4, FiniteSets DEF UnrefMatch, LifeTypeOK
<1>6. matchRefcnt' \in [Match -> Nat]
  <2>1. \A n \in Match : matchRefcnt'[n] \in Nat
    BY <1>2, <1>3, <1>4, <1>5, FiniteSets
  <2> QED
    BY <2>1 DEF UnrefMatch, LifeTypeOK
<1> QED
  BY <1>5, <1>6 DEF MatchRefsExact, InArray, AsDefault, LifeTypeOK

LEMMA SetDefault ==
  ASSUME LifeTypeOK, MatchRefsExact, NEW d \in Device, NEW m \in Match, default[d] = NoMatch,
         RefMatch(m), default' = [default EXCEPT ![d] = m], holds' = holds
  PROVE  MatchRefsExact' /\ matchRefcnt' \in [Match -> Nat]
         /\ default' \in [Device -> Match \cup {NoMatch}]
<1>0. NoMatch \notin Match
  BY DEF NoMatch, Match
<1>1. AsDefault(m)' = AsDefault(m) \cup {d} /\ d \notin AsDefault(m)
  BY <1>0 DEF AsDefault, LifeTypeOK
<1>2. \A n \in Match \ {m} : AsDefault(n)' = AsDefault(n)
  BY <1>0 DEF AsDefault, LifeTypeOK
<1>3. \A n : InArray(n)' = InArray(n)
  BY DEF InArray
<1>4. Cardinality(AsDefault(m)') = Cardinality(AsDefault(m)) + 1
  BY <1>1, FiniteSets, FS_AddElement
<1>5. \A n \in Match : matchRefcnt'[n] = Cardinality(InArray(n)') + Cardinality(AsDefault(n)')
  BY CountedNow, <1>2, <1>3, <1>4, FiniteSets DEF RefMatch, LifeTypeOK
<1> QED
  BY <1>5 DEF MatchRefsExact, InArray, AsDefault, RefMatch, LifeTypeOK

LEMMA ClearDefault ==
  ASSUME LifeTypeOK, MatchRefsExact, NEW d \in Device, NEW m \in Match, default[d] = m,
         UnrefMatch(m), default' = [default EXCEPT ![d] = NoMatch], holds' = holds
  PROVE  MatchRefsExact' /\ matchRefcnt' \in [Match -> Nat]
         /\ default' \in [Device -> Match \cup {NoMatch}]
<1>0. NoMatch \notin Match
  BY DEF NoMatch, Match
<1>1. AsDefault(m)' = AsDefault(m) \ {d} /\ d \in AsDefault(m)
  BY <1>0 DEF AsDefault, LifeTypeOK
<1>2. \A n \in Match \ {m} : AsDefault(n)' = AsDefault(n)
  BY <1>0 DEF AsDefault, LifeTypeOK
<1>3. \A n : InArray(n)' = InArray(n)
  BY DEF InArray
<1>4. Cardinality(AsDefault(m)') = Cardinality(AsDefault(m)) - 1 /\ Cardinality(AsDefault(m)') \in Nat
  <2>1. IsFiniteSet(AsDefault(m) \ {d})
    BY FiniteSets, FS_RemoveElement
  <2> QED
    BY <1>1, <2>1, FiniteSets, FS_RemoveElement, FS_CardinalityType
<1>5. \A n \in Match : matchRefcnt'[n] = Cardinality(InArray(n)') + Cardinality(AsDefault(n)')
  BY CountedNow, <1>2, <1>3, <1>4, FiniteSets DEF UnrefMatch, LifeTypeOK
<1>6. matchRefcnt' \in [Match -> Nat]
  <2>1. \A n \in Match : matchRefcnt'[n] \in Nat
    BY <1>2, <1>3, <1>4, <1>5, FiniteSets
  <2> QED
    BY <2>1 DEF UnrefMatch, LifeTypeOK
<1> QED
  BY <1>5, <1>6 DEF MatchRefsExact, InArray, AsDefault, LifeTypeOK

\* A step that moves neither counts nor pointers of matches.
LEMMA MatchesStay ==
  ASSUME LifeTypeOK, MatchRefsExact, UNCHANGED <<matchRefcnt, holds, default>>
  PROVE  MatchRefsExact'
BY DEF MatchRefsExact

-----------------------------------------------------------------------------
LEMMA InitInv == LifeInit => LifeInv
<1> SUFFICES ASSUME LifeInit PROVE LifeInv
  OBVIOUS
<1> USE DEF LifeInit
<1>0. NMatches \in Nat \ {0} /\ MaxDbRefs \in Nat \ {0} /\ 1 \in Match /\ NoMatch \notin Match
  BY MatchesAssumption DEF Match, NoMatch
<1>1. PICK o \in Thread : dbRefs = [u \in Thread |-> IF u = o THEN 1 ELSE 0]
  OBVIOUS
<1>2. LifeTypeOK
  <2>1. dbRefs \in [Thread -> 0..MaxDbRefs]
    BY <1>0, <1>1
  <2>2. matchRefcnt \in [Match -> Nat]
    OBVIOUS
  <2>3. holds \in [Device -> SUBSET Match] /\ default \in [Device -> Match \cup {NoMatch}]
    BY <1>0
  <2>4. at \in [Thread -> 1..(NMatches + 1)] /\ entries \in 0..NMatches
    BY <1>0
  <2> QED
    BY <2>1, <2>2, <2>3, <2>4 DEF LifeTypeOK
<1>3. DbRefsExact
  <2>1. DbTokens = {<<o, 1>>}
    BY <1>0, <1>1 DEF DbTokens
  <2> QED
    BY <2>1, FS_Singleton DEF DbRefsExact
<1>4. \A t \in Thread : t # Database /\ t \in Device
  BY ThreadAssumption DEF Device
<1>5. CopyInv
  BY <1>4 DEF CopyInv, CopyOf, Destroying
<1>6. DestroyerInv
  BY <1>0 DEF DestroyerInv, Destroying
<1>7. DeviceInv
  BY <1>0 DEF DeviceInv, Device
<1>8. MatchRefsExact
  <2> SUFFICES ASSUME NEW m \in Match
               PROVE  matchRefcnt[m] = Cardinality(InArray(m)) + Cardinality(AsDefault(m))
    BY DEF MatchRefsExact, InArray, AsDefault
  <2>1. InArray(m) = {Database}
    BY DEF InArray, Device
  <2>2. AsDefault(m) = IF m = 1 THEN {Database} ELSE {}
    BY <1>0 DEF AsDefault, Device
  <2>3. Cardinality(InArray(m)) = 1
    BY <2>1, FS_Singleton
  <2>4. Cardinality(AsDefault(m)) = IF m = 1 THEN 1 ELSE 0
    BY <2>2, FS_Singleton, FS_EmptySet
  <2>5. matchRefcnt[m] = IF m = 1 THEN 2 ELSE 1
    OBVIOUS
  <2> QED
    BY <2>3, <2>4, <2>5
<1> QED
  BY <1>2, <1>3, <1>5, <1>6, <1>7, <1>8 DEF LifeInv

-----------------------------------------------------------------------------
\* One lemma for each action: the step keeps the invariant.
LEMMA Constants ==
  /\ NMatches \in Nat \ {0} /\ MaxDbRefs \in Nat \ {0}
  /\ Match = 1..NMatches /\ NoMatch = 0 /\ NoMatch \notin Match
  /\ \A t \in Thread : t \in Device /\ t # Database
  /\ Database \in Device
BY ThreadAssumption, MatchesAssumption DEF Match, NoMatch, Device

LEMMA RefDatabaseStep ==
  ASSUME LifeInv, NEW t \in Thread, NEW u \in Thread, RefDatabase(t, u)
  PROVE  LifeInv'
<1> USE DEF LifeInv
<1>1. dbRefcnt > 0
  BY CountIsZero DEF RefDatabase, LifeTypeOK
<1>2. LifeTypeOK'
  <2>1. dbRefs[u] + 1 \in 0..MaxDbRefs
    BY Constants DEF RefDatabase, LifeTypeOK
  <2> QED
    BY <2>1 DEF RefDatabase, LifeTypeOK
<1>3. DbRefsExact'
  BY TakeReference DEF RefDatabase
<1>4. CopyInv'
  BY DEF RefDatabase, CopyInv, CopyOf, Destroying, LifeTypeOK
<1>5. DestroyerInv'
  BY <1>1 DEF RefDatabase, DestroyerInv, Destroying, LifeTypeOK
<1>6. DeviceInv'
  BY DEF RefDatabase, DeviceInv
<1>7. MatchRefsExact'
  BY MatchesStay DEF RefDatabase
<1> QED
  BY <1>2, <1>3, <1>4, <1>5, <1>6, <1>7

LEMMA UnrefDatabaseStep ==
  ASSUME LifeInv, NEW t \in Thread, UnrefDatabase(t)
  PROVE  LifeInv'
<1> USE DEF LifeInv
<1>1. dbRefcnt > 0
  BY CountIsZero DEF UnrefDatabase, LifeTypeOK
<1>2. LifeTypeOK'
  <2>1. dbRefs[t] - 1 \in 0..MaxDbRefs /\ dbRefcnt - 1 \in Nat
    BY <1>1, Constants DEF UnrefDatabase, LifeTypeOK
  <2> QED
    BY <2>1 DEF UnrefDatabase, Goto, LifeTypeOK
<1>3. DbRefsExact'
  BY DropReference DEF UnrefDatabase
<1>4. CopyInv'
  BY DEF UnrefDatabase, Goto, CopyInv, CopyOf, Destroying, LifeTypeOK
<1>5. DestroyerInv'
  BY <1>1 DEF UnrefDatabase, Goto, DestroyerInv, Destroying, LifeTypeOK
<1>6. DeviceInv'
  BY <1>1, Constants DEF UnrefDatabase, Goto, DeviceInv, DestroyerInv, Destroying, LifeTypeOK
<1>7. MatchRefsExact'
  BY MatchesStay DEF UnrefDatabase
<1> QED
  BY <1>2, <1>3, <1>4, <1>5, <1>6, <1>7

\* A step inside the destruction: the count is 0 and no other thread is there.
LEMMA Alone ==
  ASSUME LifeInv, NEW t \in Thread, Destroying(t)
  PROVE  /\ dbRefcnt = 0 /\ ~dbFreed
         /\ \A u \in Thread : u # t => ~Destroying(u)
         /\ \A u \in Thread : dbRefs[u] = 0
<1> USE DEF LifeInv
<1>1. dbRefcnt = 0 /\ ~dbFreed /\ \A u \in Thread : u # t => ~Destroying(u)
  BY DEF DestroyerInv, LifeTypeOK
<1> QED
  BY <1>1, CountIsZero

LEMMA DestroyEntryStep ==
  ASSUME LifeInv, NEW t \in Thread, DestroyEntry(t)
  PROVE  LifeInv'
<1> USE DEF LifeInv
<1>1. /\ dbRefcnt = 0 /\ ~dbFreed /\ Destroying(t)
      /\ \A u \in Thread : u # t => ~Destroying(u)
  BY Alone DEF DestroyEntry, Destroying
<1>2. LifeTypeOK'
  BY Constants DEF DestroyEntry, Goto, Rewind, LifeTypeOK, DeviceInv
<1>3. DbRefsExact'
  BY DEF DestroyEntry, DbRefsExact, DbTokens
<1>4. CopyInv'
  BY DEF DestroyEntry, Goto, Rewind, CopyInv, CopyOf, Destroying, LifeTypeOK
<1>5. DestroyerInv'
  BY <1>1 DEF DestroyEntry, Goto, DestroyerInv, Destroying, LifeTypeOK
<1>6. DeviceInv'
  <2>1. \A u \in Thread : pc[u] # "freeDevice"
    BY <1>1 DEF DestroyEntry, Destroying
  <2>2. holds[Database] = 1..NMatches /\ default[Database] # NoMatch
    BY <2>1, Constants DEF DestroyEntry, DeviceInv
  <2>3. \A u \in Thread : u # t => pc'[u] = pc[u]
    BY DEF DestroyEntry, Goto, LifeTypeOK
  <2>4. /\ pc'[t] = IF devRefcnt' = 0 THEN "freeDevice" ELSE "destroy"
        /\ at'[t] = 1 /\ devRefcnt' = entries' /\ entries' \in Nat
        /\ holds' = holds /\ default' = default
    BY DEF DestroyEntry, Goto, Rewind, LifeTypeOK, DeviceInv
  <2> QED
    BY <2>1, <2>2, <2>3, <2>4, Constants DEF DeviceInv
<1>7. MatchRefsExact'
  BY MatchesStay DEF DestroyEntry
<1> QED
  BY <1>2, <1>3, <1>4, <1>5, <1>6, <1>7

LEMMA FreeDatabaseStep ==
  ASSUME LifeInv, NEW t \in Thread, FreeDatabase(t)
  PROVE  LifeInv'
<1> USE DEF LifeInv
<1>1. /\ dbRefcnt = 0 /\ ~dbFreed /\ Destroying(t)
      /\ \A u \in Thread : u # t => ~Destroying(u)
  BY Alone DEF FreeDatabase, Destroying
<1>2. LifeTypeOK'
  BY DEF FreeDatabase, Goto, LifeTypeOK
<1>3. DbRefsExact'
  BY DEF FreeDatabase, DbRefsExact, DbTokens
<1>4. CopyInv'
  BY DEF FreeDatabase, Goto, CopyInv, CopyOf, Destroying, LifeTypeOK
<1>5. DestroyerInv'
  BY <1>1 DEF FreeDatabase, Goto, DestroyerInv, Destroying, LifeTypeOK
<1>6. DeviceInv'
  BY <1>1 DEF FreeDatabase, Goto, DeviceInv, Destroying, LifeTypeOK
<1>7. MatchRefsExact'
  BY MatchesStay DEF FreeDatabase
<1> QED
  BY <1>2, <1>3, <1>4, <1>5, <1>6, <1>7

LEMMA StartCopyStep ==
  ASSUME LifeInv, NEW t \in Thread, StartCopy(t)
  PROVE  LifeInv'
<1> USE DEF LifeInv
<1>1. LifeTypeOK'
  BY Constants DEF StartCopy, Goto, Rewind, dbState, LifeTypeOK
<1>2. DbRefsExact'
  BY DEF StartCopy, dbState, DbRefsExact, DbTokens
<1>3. CopyInv'
  <2>1. \A u \in Thread : u # t => pc'[u] = pc[u] /\ at'[u] = at[u]
    BY DEF StartCopy, Goto, Rewind, LifeTypeOK
  <2>2. /\ pc'[t] = "copy" /\ at'[t] = 1 /\ holds[t] = {} /\ default[t] = NoMatch /\ dbRefs[t] > 0
        /\ dbRefs' = dbRefs /\ holds' = holds /\ default' = default
    BY DEF StartCopy, Goto, Rewind, dbState, LifeTypeOK, CopyInv, CopyOf
  <2>3. holds'[t] = 1..(at'[t] - 1)
    BY <2>2
  <2> QED
    BY <2>1, <2>2, <2>3 DEF CopyInv, CopyOf, Destroying
<1>4. DestroyerInv'
  BY DEF StartCopy, Goto, dbState, DestroyerInv, Destroying, LifeTypeOK
<1>5. DeviceInv'
  BY DEF StartCopy, Goto, Rewind, dbState, DeviceInv, LifeTypeOK
<1>6. MatchRefsExact'
  BY MatchesStay DEF StartCopy
<1> QED
  BY <1>1, <1>2, <1>3, <1>4, <1>5, <1>6

\* A step of a thread that is not destroying the database, and touches no copy but its
\* own.
LEMMA OwnCopy ==
  ASSUME LifeInv, NEW t \in Thread, UNCHANGED dbState, ~Destroying(t), ~Destroying(t)',
         \A u \in Thread \ {t} : pc'[u] = pc[u] /\ at'[u] = at[u],
         \A d \in Device \ {t} : holds'[d] = holds[d] /\ default'[d] = default[d]
  PROVE  /\ DbRefsExact' /\ DestroyerInv' /\ DeviceInv'
         /\ CopyOf(t)' => CopyInv'
<1> USE DEF LifeInv
<1>1. DbRefsExact'
  BY DEF dbState, DbRefsExact, DbTokens
<1>2. \A u \in Thread : Destroying(u)' <=> Destroying(u)
  BY DEF Destroying
<1>3. DestroyerInv'
  <2>1. /\ dbRefcnt' = dbRefcnt /\ dbFreed' = dbFreed /\ entries' = entries
    BY DEF dbState
  <2>2. \A u, v \in Thread : Destroying(u)' /\ Destroying(v)' => u = v
    BY <1>2 DEF DestroyerInv
  <2>3. dbRefcnt > 0 => \A u \in Thread : ~Destroying(u)'
    BY <1>2 DEF DestroyerInv
  <2>4. dbRefcnt = 0 => (dbFreed <=> \A u \in Thread : ~Destroying(u)')
    BY <1>2 DEF DestroyerInv
  <2> QED
    BY <2>1, <2>2, <2>3, <2>4 DEF DestroyerInv
<1>4. DeviceInv'
  <2>1. \A u \in Thread : pc'[u] = "freeDevice" <=> pc[u] = "freeDevice"
    BY DEF Destroying
  <2>2. \A u \in Thread : pc[u] = "freeDevice" => at'[u] = at[u]
    BY DEF Destroying
  <2>3. holds'[Database] = holds[Database] /\ default'[Database] = default[Database]
    BY Constants
  <2>4. devRefcnt' = devRefcnt /\ entries' = entries
    BY DEF dbState
  <2> QED
    BY <2>1, <2>2, <2>3, <2>4 DEF DeviceInv
<1>5. ASSUME CopyOf(t)', NEW u \in Thread PROVE CopyOf(u)'
  <2>1. CASE u = t
    BY <1>5, <2>1
  <2>2. CASE u # t
    <3>1. /\ pc'[u] = pc[u] /\ at'[u] = at[u] /\ holds'[u] = holds[u] /\ default'[u] = default[u]
          /\ dbRefs' = dbRefs
      BY <2>2, Constants DEF dbState
    <3> QED
      BY <3>1 DEF CopyInv, CopyOf, Destroying
  <2> QED
    BY <2>1, <2>2
<1> QED
  BY <1>1, <1>3, <1>4, <1>5 DEF CopyInv

LEMMA CopyMatchStep ==
  ASSUME LifeInv, NEW t \in Thread, CopyMatch(t)
  PROVE  LifeInv'
<1> USE DEF LifeInv
<1>1. /\ at[t] \in Match /\ at[t] \in Nat /\ holds[t] = 1..(at[t] - 1) /\ at[t] \notin holds[t]
      /\ default[t] = NoMatch /\ dbRefs[t] > 0 /\ t \in Device
  BY Constants DEF CopyMatch, CopyInv, CopyOf, LifeTypeOK
<1>2. PICK m \in Match : m = at[t]
  BY <1>1
<1>3. MatchRefsExact' /\ matchRefcnt' \in [Match -> Nat] /\ holds' \in [Device -> SUBSET Match]
  BY <1>1, <1>2, HoldMatch DEF CopyMatch
<1>4. LifeTypeOK'
  <2>1. at[t] + 1 \in 1..(NMatches + 1)
    BY <1>1, Constants
  <2> QED
    BY <1>3, <2>1 DEF CopyMatch, Advance, dbState, LifeTypeOK
<1>5. CopyOf(t)'
  <2>1. /\ pc'[t] = "copy" /\ at'[t] = at[t] + 1 /\ holds'[t] = holds[t] \cup {at[t]}
        /\ default' = default /\ dbRefs' = dbRefs
    BY <1>1 DEF CopyMatch, Advance, dbState, LifeTypeOK
  <2>2. holds'[t] = 1..(at'[t] - 1)
    <3>1. \A k \in Nat \ {0} : (1..(k - 1)) \cup {k} = 1..((k + 1) - 1)
      OBVIOUS
    <3>2. at[t] \in Nat \ {0}
      BY <1>1, Constants
    <3> QED
      BY <1>1, <2>1, <3>1, <3>2
  <2> QED
    BY <1>1, <2>1, <2>2 DEF CopyOf, Destroying
<1>6. DbRefsExact' /\ DestroyerInv' /\ DeviceInv' /\ CopyInv'
  <2>1. ~Destroying(t) /\ ~Destroying(t)'
    BY DEF CopyMatch, Destroying
  <2>2. \A u \in Thread \ {t} : pc'[u] = pc[u] /\ at'[u] = at[u]
    BY DEF CopyMatch, Advance, LifeTypeOK
  <2>3. \A d \in Device \ {t} : holds'[d] = holds[d] /\ default'[d] = default[d]
    BY DEF CopyMatch, LifeTypeOK
  <2> QED
    BY <1>5, <2>1, <2>2, <2>3, OwnCopy DEF CopyMatch
<1> QED
  BY <1>3, <1>4, <1>6

LEMMA CopyDefaultStep ==
  ASSUME LifeInv, NEW t \in Thread, CopyDefault(t)
  PROVE  LifeInv'
<1> USE DEF LifeInv
<1>1. /\ holds[t] = Match /\ default[t] = NoMatch /\ dbRefs[t] > 0 /\ t \in Device
  BY Constants DEF CopyDefault, CopyInv, CopyOf, LifeTypeOK
<1>2. default[Database] \in Match
  <2>1. dbRefcnt > 0
    BY <1>1, CountIsZero DEF LifeTypeOK
  <2>2. entries > 0 /\ \A u \in Thread : pc[u] # "freeDevice"
    BY <2>1, Constants DEF DestroyerInv, Destroying
  <2> QED
    BY <2>2, Constants DEF DeviceInv, LifeTypeOK
<1>3. PICK m \in Match : m = default[Database]
  BY <1>2
<1>4. MatchRefsExact' /\ matchRefcnt' \in [Match -> Nat] /\ default' \in [Device -> Match \cup {NoMatch}]
  BY <1>1, <1>3, SetDefault DEF CopyDefault
<1>5. PICK label \in {"setDefault", "idle"} : pc' = [pc EXCEPT ![t] = label]
  BY DEF CopyDefault, Goto
<1>6. LifeTypeOK'
  BY <1>4, <1>5 DEF CopyDefault, dbState, LifeTypeOK
<1>7. CopyOf(t)'
  <2>1. /\ pc'[t] \in {"setDefault", "idle"} /\ holds' = holds /\ default'[t] = m /\ dbRefs' = dbRefs
    BY <1>1, <1>3, <1>5 DEF CopyDefault, dbState, LifeTypeOK
  <2> QED
    BY <1>1, <2>1, Constants DEF CopyOf, Destroying
<1>8. DbRefsExact' /\ DestroyerInv' /\ DeviceInv' /\ CopyInv'
  <2>1. ~Destroying(t) /\ ~Destroying(t)'
    BY <1>5 DEF CopyDefault, Destroying, LifeTypeOK
  <2>2. \A u \in Thread \ {t} : pc'[u] = pc[u] /\ at'[u] = at[u]
    BY <1>5 DEF CopyDefault, LifeTypeOK
  <2>3. \A d \in Device \ {t} : holds'[d] = holds[d] /\ default'[d] = default[d]
    BY DEF CopyDefault, LifeTypeOK
  <2> QED
    BY <1>7, <2>1, <2>2, <2>3, OwnCopy DEF CopyDefault
<1> QED
  BY <1>4, <1>6, <1>8

LEMMA DropDefaultStep ==
  ASSUME LifeInv, NEW t \in Thread, DropDefault(t)
  PROVE  LifeInv'
<1> USE DEF LifeInv
<1>1. /\ holds[t] = Match /\ dbRefs[t] > 0 /\ t \in Device
  BY Constants DEF DropDefault, CopyInv, CopyOf, LifeTypeOK
<1>2. PICK m \in Match : m = default[t]
  BY <1>1 DEF DropDefault, LifeTypeOK
<1>3. MatchRefsExact' /\ matchRefcnt' \in [Match -> Nat] /\ default' \in [Device -> Match \cup {NoMatch}]
  BY <1>1, <1>2, ClearDefault DEF DropDefault
<1>4. LifeTypeOK'
  BY <1>3 DEF DropDefault, dbState, LifeTypeOK
<1>5. CopyOf(t)'
  BY <1>1 DEF DropDefault, dbState, CopyOf, Destroying
<1>6. DbRefsExact' /\ DestroyerInv' /\ DeviceInv' /\ CopyInv'
  <2>1. ~Destroying(t) /\ ~Destroying(t)'
    BY DEF DropDefault, Destroying
  <2>2. \A d \in Device \ {t} : holds'[d] = holds[d] /\ default'[d] = default[d]
    BY DEF DropDefault, LifeTypeOK
  <2> QED
    BY <1>5, <2>1, <2>2, OwnCopy DEF DropDefault
<1> QED
  BY <1>3, <1>4, <1>6

LEMMA TakeDefaultStep ==
  ASSUME LifeInv, NEW t \in Thread, NEW m \in Match, TakeDefault(t, m)
  PROVE  LifeInv'
<1> USE DEF LifeInv
<1>1. /\ holds[t] = Match /\ t \in Device
  BY Constants DEF TakeDefault, CopyInv, CopyOf, LifeTypeOK
<1>2. MatchRefsExact' /\ matchRefcnt' \in [Match -> Nat] /\ default' \in [Device -> Match \cup {NoMatch}]
  BY <1>1, SetDefault DEF TakeDefault
<1>3. LifeTypeOK'
  BY <1>2 DEF TakeDefault, Goto, dbState, LifeTypeOK
<1>4. CopyOf(t)'
  <2>1. pc'[t] = "idle" /\ holds' = holds /\ default'[t] = m
    BY <1>1 DEF TakeDefault, Goto, LifeTypeOK
  <2> QED
    BY <1>1, <2>1, Constants DEF CopyOf, Destroying
<1>5. DbRefsExact' /\ DestroyerInv' /\ DeviceInv' /\ CopyInv'
  <2>1. ~Destroying(t) /\ ~Destroying(t)'
    BY DEF TakeDefault, Goto, Destroying, LifeTypeOK
  <2>2. \A u \in Thread \ {t} : pc'[u] = pc[u] /\ at'[u] = at[u]
    BY DEF TakeDefault, Goto, LifeTypeOK
  <2>3. \A d \in Device \ {t} : holds'[d] = holds[d] /\ default'[d] = default[d]
    BY DEF TakeDefault, LifeTypeOK
  <2> QED
    BY <1>4, <2>1, <2>2, <2>3, OwnCopy DEF TakeDefault
<1> QED
  BY <1>2, <1>3, <1>5

LEMMA DestroyCopyStep ==
  ASSUME LifeInv, NEW t \in Thread, DestroyCopy(t)
  PROVE  LifeInv'
<1> USE DEF LifeInv
<1>1. holds[t] = Match /\ default[t] # NoMatch
  BY DEF DestroyCopy, CopyInv, CopyOf
<1>2. LifeTypeOK'
  BY Constants DEF DestroyCopy, Goto, Rewind, dbState, LifeTypeOK
<1>3. CopyOf(t)'
  <2>1. pc'[t] = "freeCopy" /\ at'[t] = 1 /\ holds' = holds /\ default' = default
    BY DEF DestroyCopy, Goto, Rewind, LifeTypeOK
  <2> QED
    BY <1>1, <2>1, Constants DEF CopyOf, Destroying
<1>4. DbRefsExact' /\ DestroyerInv' /\ DeviceInv' /\ CopyInv'
  <2>1. ~Destroying(t) /\ ~Destroying(t)'
    BY DEF DestroyCopy, Goto, Destroying, LifeTypeOK
  <2>2. \A u \in Thread \ {t} : pc'[u] = pc[u] /\ at'[u] = at[u]
    BY DEF DestroyCopy, Goto, Rewind, LifeTypeOK
  <2> QED
    BY <1>3, <2>1, <2>2, OwnCopy DEF DestroyCopy
<1>5. MatchRefsExact'
  BY MatchesStay DEF DestroyCopy
<1> QED
  BY <1>2, <1>4, <1>5

-----------------------------------------------------------------------------
\* What a device that is being freed has left.
LEMMA FreedHas ==
  ASSUME LifeInv, NEW t \in Thread, pc[t] \in {"freeDevice", "freeCopy"}
  PROVE  /\ Freed(t) \in Device
         /\ holds[Freed(t)] = at[t]..NMatches /\ default[Freed(t)] \in Match
         /\ pc[t] = "freeDevice" => entries = 0
<1> USE DEF LifeInv
<1>1. CASE pc[t] = "freeDevice"
  BY <1>1, Constants DEF Freed, DeviceInv, LifeTypeOK
<1>2. CASE pc[t] = "freeCopy"
  BY <1>2, Constants DEF Freed, CopyInv, CopyOf, LifeTypeOK
<1> QED
  BY <1>1, <1>2

\* A step of the thread that frees the device of the tables.
LEMMA OwnDevice ==
  ASSUME LifeInv, NEW t \in Thread, UNCHANGED dbState, pc[t] = "freeDevice", Destroying(t)',
         \A u \in Thread \ {t} : pc'[u] = pc[u] /\ at'[u] = at[u],
         \A d \in Device \ {Database} : holds'[d] = holds[d] /\ default'[d] = default[d],
         IF pc'[t] = "freeDevice"
         THEN holds'[Database] = at'[t]..NMatches /\ default'[Database] # NoMatch
         ELSE holds'[Database] = {} /\ default'[Database] = NoMatch
  PROVE  DbRefsExact' /\ DestroyerInv' /\ DeviceInv' /\ CopyInv'
<1> USE DEF LifeInv
<1>1. Destroying(t)
  BY DEF Destroying
<1>2. /\ dbRefcnt = 0 /\ ~dbFreed
      /\ \A u \in Thread \ {t} : ~Destroying(u) /\ ~Destroying(u)'
  BY <1>1, Alone DEF Destroying
<1>3. DbRefsExact'
  BY DEF dbState, DbRefsExact, DbTokens
<1>4. DestroyerInv'
  BY <1>2 DEF DestroyerInv, dbState
<1>5. DeviceInv'
  <2>1. entries = 0 /\ entries' = 0 /\ devRefcnt' = 0
    BY DEF DeviceInv, dbState
  <2>2. \A u \in Thread \ {t} : pc'[u] # "freeDevice"
    BY <1>2 DEF Destroying
  <2>3. CASE pc'[t] = "freeDevice"
    BY <2>1, <2>2, <2>3 DEF DeviceInv
  <2>4. CASE pc'[t] # "freeDevice"
    BY <2>1, <2>2, <2>4 DEF DeviceInv
  <2> QED
    BY <2>3, <2>4
<1>6. CopyInv'
  <2> SUFFICES ASSUME NEW u \in Thread PROVE CopyOf(u)'
    BY DEF CopyInv
  <2>1. holds'[u] = holds[u] /\ default'[u] = default[u] /\ dbRefs' = dbRefs
    BY Constants DEF dbState
  <2>2. CASE u = t
    BY <1>1, <2>1, <2>2 DEF CopyInv, CopyOf, Destroying
  <2>3. CASE u # t
    BY <2>1, <2>3 DEF CopyInv, CopyOf, Destroying
  <2> QED
    BY <2>2, <2>3
<1> QED
  BY <1>3, <1>4, <1>5, <1>6

LEMMA FreeMatchStep ==
  ASSUME LifeInv, NEW t \in Thread, FreeMatch(t)
  PROVE  LifeInv'
<1> USE DEF LifeInv
<1>1. /\ pc[t] \in {"freeDevice", "freeCopy"} /\ at[t] \in Match
      /\ Freed(t) \in Device /\ holds[Freed(t)] = at[t]..NMatches /\ default[Freed(t)] # NoMatch
  BY FreedHas, Constants DEF FreeMatch, LifeTypeOK
<1>2. PICK m \in Match, d \in Device : m = at[t] /\ d = Freed(t)
  BY <1>1
<1>3. m \in holds[d] /\ holds[d] \ {m} = (m + 1)..NMatches
  BY <1>1, <1>2, Constants
<1>4. MatchRefsExact' /\ matchRefcnt' \in [Match -> Nat] /\ holds' \in [Device -> SUBSET Match]
  BY <1>2, <1>3, ReleaseMatch DEF FreeMatch
<1>5. LifeTypeOK'
  <2>1. at[t] + 1 \in 1..(NMatches + 1)
    BY <1>1, Constants
  <2> QED
    BY <1>4, <2>1 DEF FreeMatch, Advance, dbState, LifeTypeOK
<1>6. /\ pc' = pc /\ at'[t] = m + 1 /\ holds'[d] = (m + 1)..NMatches /\ default' = default
      /\ \A u \in Thread \ {t} : pc'[u] = pc[u] /\ at'[u] = at[u]
      /\ \A e \in Device \ {d} : holds'[e] = holds[e] /\ default'[e] = default[e]
  BY <1>2, <1>3 DEF FreeMatch, Advance, LifeTypeOK
<1>7. DbRefsExact' /\ DestroyerInv' /\ DeviceInv' /\ CopyInv'
  <2>1. CASE pc[t] = "freeDevice"
    <3>1. d = Database
      BY <1>2, <2>1 DEF Freed
    <3> QED
      BY <1>1, <1>2, <1>6, <2>1, <3>1, OwnDevice DEF FreeMatch, Destroying
  <2>2. CASE pc[t] = "freeCopy"
    <3>1. d = t
      BY <1>2, <2>2 DEF Freed
    <3>2. CopyOf(t)'
      BY <1>1, <1>2, <1>6, <2>2, <3>1 DEF CopyOf, Destroying
    <3> QED
      BY <1>6, <2>2, <3>1, <3>2, OwnCopy DEF FreeMatch, Destroying
  <2> QED
    BY <1>1, <2>1, <2>2
<1> QED
  BY <1>4, <1>5, <1>7

LEMMA FreeDefaultStep ==
  ASSUME LifeInv, NEW t \in Thread, FreeDefault(t)
  PROVE  LifeInv'
<1> USE DEF LifeInv
<1>1. /\ pc[t] \in {"freeDevice", "freeCopy"}
      /\ Freed(t) \in Device /\ holds[Freed(t)] = at[t]..NMatches /\ default[Freed(t)] \in Match
  BY FreedHas DEF FreeDefault
<1>2. PICK m \in Match, d \in Device : m = default[d] /\ d = Freed(t)
  BY <1>1
<1>3. holds[d] = {}
  BY <1>1, <1>2, Constants DEF FreeDefault, LifeTypeOK
<1>4. MatchRefsExact' /\ matchRefcnt' \in [Match -> Nat] /\ default' \in [Device -> Match \cup {NoMatch}]
  BY <1>2, ClearDefault DEF FreeDefault
<1>5. LifeTypeOK'
  BY <1>4 DEF FreeDefault, Goto, dbState, LifeTypeOK
<1>6. /\ pc'[t] = IF pc[t] = "freeDevice" THEN "destroy" ELSE "idle"
      /\ holds' = holds /\ default'[d] = NoMatch
      /\ \A u \in Thread \ {t} : pc'[u] = pc[u] /\ at'[u] = at[u]
      /\ \A e \in Device \ {d} : holds'[e] = holds[e] /\ default'[e] = default[e]
  BY <1>2 DEF FreeDefault, Goto, LifeTypeOK
<1>7. DbRefsExact' /\ DestroyerInv' /\ DeviceInv' /\ CopyInv'
  <2>1. CASE pc[t] = "freeDevice"
    <3>1. d = Database
      BY <1>2, <2>1 DEF Freed
    <3> QED
      BY <1>3, <1>6, <2>1, <3>1, OwnDevice DEF FreeDefault, Destroying
  <2>2. CASE pc[t] = "freeCopy"
    <3>1. d = t
      BY <1>2, <2>2 DEF Freed
    <3>2. CopyOf(t)'
      BY <1>3, <1>6, <2>2, <3>1 DEF CopyOf, Destroying
    <3> QED
      BY <1>6, <2>2, <3>1, <3>2, OwnCopy DEF FreeDefault, Destroying
  <2> QED
    BY <1>1, <2>1, <2>2
<1> QED
  BY <1>4, <1>5, <1>7

-----------------------------------------------------------------------------
LEMMA NextInv == LifeInv /\ [LifeNext]_lifeVars => LifeInv'
<1> SUFFICES ASSUME LifeInv, [LifeNext]_lifeVars PROVE LifeInv'
  OBVIOUS
<1>1. ASSUME NEW t \in Thread, NEW u \in Thread, RefDatabase(t, u) PROVE LifeInv'
  BY <1>1, RefDatabaseStep
<1>2. ASSUME NEW t \in Thread, UnrefDatabase(t) PROVE LifeInv'
  BY <1>2, UnrefDatabaseStep
<1>3. ASSUME NEW t \in Thread, StartCopy(t) PROVE LifeInv'
  BY <1>3, StartCopyStep
<1>4. ASSUME NEW t \in Thread, DestroyCopy(t) PROVE LifeInv'
  BY <1>4, DestroyCopyStep
<1>5. ASSUME NEW t \in Thread, InCall(t) PROVE LifeInv'
  BY <1>5, DestroyEntryStep, FreeDatabaseStep, CopyMatchStep, CopyDefaultStep, DropDefaultStep,
     TakeDefaultStep, FreeMatchStep, FreeDefaultStep DEF InCall
<1>6. CASE UNCHANGED lifeVars
  BY <1>6 DEF lifeVars, LifeInv, LifeTypeOK, DbRefsExact, DbTokens, CopyInv, CopyOf, Destroying,
     DestroyerInv, DeviceInv, MatchRefsExact
<1> QED
  BY <1>1, <1>2, <1>3, <1>4, <1>5, <1>6 DEF LifeNext

LEMMA LifeInvariance == LifeSpec => []LifeInv
BY InitInv, NextInv, PTL DEF LifeSpec

\* Whatever threads do, the state stays in its types: no count goes below 0, no loop runs
\* past the matches.
THEOREM LifeTypeTheorem == LifeSpec => []LifeTypeOK
<1>1. LifeInv => LifeTypeOK
  BY DEF LifeInv
<1> QED
  BY <1>1, LifeInvariance, PTL

\* At every step of every copy and destroy the count of a match is the number of
\* pointers to it.
THEOREM MatchRefsTheorem == LifeSpec => []MatchRefsExact
<1>1. LifeInv => MatchRefsExact
  BY DEF LifeInv
<1> QED
  BY <1>1, LifeInvariance, PTL

\* No thread takes the database apart while another has a reference to it or copies out
\* of it.
THEOREM WholeTheorem == LifeSpec => []WholeWhileReferenced
<1>1. LifeInv => WholeWhileReferenced
  <2> SUFFICES ASSUME LifeInv, NEW t \in Thread, dbRefs[t] > 0 \/ pc[t] \in {"copy", "setDefault"}
               PROVE  /\ ~dbFreed /\ entries = NMatches /\ devRefcnt = NMatches
                      /\ holds[Database] = Match /\ default[Database] # NoMatch
    BY DEF WholeWhileReferenced
  <2> USE DEF LifeInv
  <2>1. dbRefs[t] > 0
    BY DEF CopyInv, CopyOf
  <2>2. dbRefcnt > 0
    BY <2>1, CountIsZero DEF LifeTypeOK
  <2>3. ~dbFreed /\ entries = NMatches /\ \A u \in Thread : pc[u] # "freeDevice"
    BY <2>2 DEF DestroyerInv, Destroying
  <2> QED
    BY <2>3, Constants DEF DeviceInv
<1> QED
  BY <1>1, LifeInvariance, PTL

\* A copy keeps all its matches when the database and other copies are gone.
THEOREM OutliveTheorem == LifeSpec => []CopiesOutlive
<1>1. LifeInv => CopiesOutlive
  <2> SUFFICES ASSUME LifeInv, NEW t \in Thread, pc[t] # "freeCopy", default[t] # NoMatch
               PROVE  holds[t] = Match /\ \A m \in Match : matchRefcnt[m] > 0
    BY DEF CopiesOutlive
  <2> USE DEF LifeInv
  <2>1. holds[t] = Match
    BY DEF CopyInv, CopyOf, Destroying, LifeTypeOK
  <2>2. ASSUME NEW m \in Match PROVE matchRefcnt[m] > 0
    <3>1. InArray(m) # {}
      BY <2>1, Constants DEF InArray
    <3>2. Cardinality(InArray(m)) # 0
      BY <3>1, FiniteSets, FS_EmptySet
    <3> QED
      BY <3>2, FiniteSets, CountedNow
  <2> QED
    BY <2>1, <2>2
<1> QED
  BY <1>1, LifeInvariance, PTL

\* Two threads never take the database apart, though both dropped a reference to it.
THEOREM DestroyerTheorem == LifeSpec => []OneDestroyer
<1>1. LifeInv => OneDestroyer
  <2> SUFFICES ASSUME LifeInv PROVE OneDestroyer
    OBVIOUS
  <2> DEFINE D == {t \in Thread : pc[t] \in {"destroy", "freeDevice"}}
  <2>1. \A t, u \in D : t = u
    BY DEF LifeInv, DestroyerInv, Destroying
  <2>2. D = {} \/ \E t \in D : D = {t}
    BY <2>1
  <2>3. Cardinality(D) = 0 \/ Cardinality(D) = 1
    BY <2>2, FS_EmptySet, FS_Singleton
  <2> QED
    BY <2>3 DEF OneDestroyer
<1> QED
  BY <1>1, LifeInvariance, PTL

\* Once every thread has dropped and destroyed what it had, all matches are freed.
THEOREM LeakTheorem == LifeSpec => []NothingLeaks
<1>1. LifeInv => NothingLeaks
  <2> SUFFICES ASSUME LifeInv,
                      \A t \in Thread : pc[t] = "idle" /\ dbRefs[t] = 0 /\ default[t] = NoMatch
               PROVE  dbFreed /\ devRefcnt = 0 /\ \A m \in Match : matchRefcnt[m] = 0
    BY DEF NothingLeaks
  <2> USE DEF LifeInv
  <2>1. dbRefcnt = 0
    BY CountIsZero
  <2>2. dbFreed /\ entries = 0 /\ devRefcnt = 0
    BY <2>1 DEF DestroyerInv, DeviceInv, Destroying
  <2>3. \A d \in Device : holds[d] = {} /\ default[d] = NoMatch
    BY <2>2 DEF DeviceInv, CopyInv, CopyOf, Device
  <2>4. ASSUME NEW m \in Match PROVE matchRefcnt[m] = 0
    <3>1. InArray(m) = {} /\ AsDefault(m) = {}
      BY <2>3, Constants DEF InArray, AsDefault
    <3> QED
      BY <3>1, FS_EmptySet, CountedNow
  <2> QED
    BY <2>2, <2>4
<1> QED
  BY <1>1, LifeInvariance, PTL

-----------------------------------------------------------------------------
\* A step that moves no thread but t leaves the others with what they had.
LEMMA OthersKeep ==
  ASSUME NEW t \in Thread,
         \A u \in Thread \ {t} : pc'[u] = pc[u] /\ default'[u] = default[u],
         HasCopy(t)' <=> HasCopy(t)
  PROVE  {u \in Thread : HasCopy(u)}' = {u \in Thread : HasCopy(u)}
<1>1. \A u \in Thread \ {t} : HasCopy(u)' <=> HasCopy(u)
  BY DEF HasCopy
<1> QED
  BY <1>1

\* The steps inside the calls are stutters of Registry, one of each call is its step.
LEMMA RegistryStep ==
  ASSUME LifeInv, LifeInv', [LifeNext]_lifeVars
  PROVE  [Shared!RegistryNext]_(Shared!registryVars)
<1> DEFINE Copies == {u \in Thread : HasCopy(u)}
<1> USE DEF LifeInv
<1>1. ASSUME NEW t \in Thread, NEW u \in Thread, RefDatabase(t, u)
      PROVE  Shared!RegistryNext
  <2>1. Copies' = Copies
    BY <1>1 DEF RefDatabase, HasCopy
  <2> QED
    BY <1>1, <2>1 DEF RefDatabase, Shared!RegistryNext, Shared!Ref
<1>2. ASSUME NEW t \in Thread, UnrefDatabase(t) PROVE Shared!RegistryNext
  <2>1. Copies' = Copies
    <3>1. HasCopy(t)' <=> HasCopy(t)
      BY <1>2 DEF UnrefDatabase, Goto, HasCopy, LifeTypeOK
    <3>2. \A u \in Thread \ {t} : pc'[u] = pc[u] /\ default'[u] = default[u]
      BY <1>2 DEF UnrefDatabase, Goto, LifeTypeOK
    <3> QED
      BY <3>1, <3>2, OthersKeep
  <2> QED
    BY <1>2, <2>1 DEF UnrefDatabase, Shared!RegistryNext, Shared!Unref
<1>3. ASSUME NEW t \in Thread, CopyDefault(t) PROVE Shared!RegistryNext
  <2>1. /\ pc[t] = "copy" /\ default[t] = NoMatch /\ dbRefs[t] > 0
        /\ pc'[t] \in {"setDefault", "idle"} /\ default'[t] = default[Database]
        /\ UNCHANGED <<dbRefs, dbFreed>>
        /\ \A u \in Thread \ {t} : pc'[u] = pc[u] /\ default'[u] = default[u]
    BY <1>3, Constants DEF CopyDefault, Goto, dbState, CopyInv, CopyOf, LifeTypeOK
  <2>2. dbRefcnt > 0
    BY <2>1, CountIsZero DEF LifeTypeOK
  <2>3. ~dbFreed /\ default[Database] # NoMatch
    BY <2>2, Constants DEF DestroyerInv, DeviceInv, Destroying
  <2>4. t \notin Copies /\ Copies' = Copies \cup {t}
    BY <2>1, <2>3 DEF HasCopy
  <2> QED
    BY <2>1, <2>3, <2>4 DEF Shared!RegistryNext, Shared!Take
<1>4. ASSUME NEW t \in Thread, DestroyCopy(t) PROVE Shared!RegistryNext
  <2>1. /\ pc[t] = "idle" /\ default[t] # NoMatch /\ pc'[t] = "freeCopy"
        /\ UNCHANGED <<dbRefs, dbFreed, default>>
        /\ \A u \in Thread \ {t} : pc'[u] = pc[u]
    BY <1>4 DEF DestroyCopy, Goto, dbState, LifeTypeOK
  <2>2. t \in Copies /\ Copies' = Copies \ {t}
    BY <2>1 DEF HasCopy
  <2> QED
    BY <2>1, <2>2 DEF Shared!RegistryNext, Shared!Give
<1>5. ASSUME NEW t \in Thread, FreeDatabase(t) PROVE Shared!RegistryNext
  <2>1. ~dbFreed /\ \A u \in Thread : dbRefs[u] = 0
    BY <1>5, Alone DEF FreeDatabase, Destroying
  <2>2. Copies' = Copies
    <3>1. HasCopy(t)' <=> HasCopy(t)
      BY <1>5 DEF FreeDatabase, Goto, HasCopy, LifeTypeOK
    <3>2. \A u \in Thread \ {t} : pc'[u] = pc[u] /\ default'[u] = default[u]
      BY <1>5 DEF FreeDatabase, Goto, LifeTypeOK
    <3> QED
      BY <3>1, <3>2, OthersKeep
  <2> QED
    BY <1>5, <2>1, <2>2 DEF FreeDatabase, Shared!RegistryNext, Shared!Close
<1>6. ASSUME NEW t \in Thread, NEW m \in Match,
             \/ StartCopy(t) \/ DestroyEntry(t) \/ CopyMatch(t) \/ DropDefault(t)
             \/ TakeDefault(t, m) \/ FreeMatch(t) \/ FreeDefault(t)
      PROVE  UNCHANGED Shared!registryVars
  <2>1. UNCHANGED <<dbRefs, dbFreed>>
    BY <1>6 DEF StartCopy, DestroyEntry, CopyMatch, DropDefault, TakeDefault, FreeMatch,
                FreeDefault, dbState
  <2>2. \A u \in Thread \ {t} : pc'[u] = pc[u]
    BY <1>6 DEF StartCopy, DestroyEntry, CopyMatch, DropDefault, TakeDefault, FreeMatch,
                FreeDefault, Goto, LifeTypeOK
  <2>3. \A u \in Thread \ {t} : default'[u] = default[u]
    <3>1. CASE FreeDefault(t)
      BY <3>1, Constants DEF FreeDefault, Freed, LifeTypeOK
    <3>2. CASE DropDefault(t) \/ TakeDefault(t, m)
      BY <3>2, Constants DEF DropDefault, TakeDefault, LifeTypeOK
    <3> QED
      BY <1>6, <3>1, <3>2 DEF StartCopy, DestroyEntry, CopyMatch, FreeMatch
  <2>4. HasCopy(t)' <=> HasCopy(t)
    <3>1. CASE StartCopy(t) \/ DestroyEntry(t)
      BY <3>1 DEF StartCopy, DestroyEntry, Goto, HasCopy, LifeTypeOK
    <3>2. CASE CopyMatch(t) \/ DropDefault(t) \/ FreeMatch(t)
      BY <3>2, Constants DEF CopyMatch, DropDefault, FreeMatch, HasCopy, LifeTypeOK
    <3>3. CASE TakeDefault(t, m)
      BY <3>3, Constants DEF TakeDefault, Goto, HasCopy, LifeTypeOK
    <3>4. CASE FreeDefault(t)
      BY <3>4, Constants DEF FreeDefault, Freed, Goto, HasCopy, LifeTypeOK
    <3> QED
      BY <1>6, <3>1, <3>2, <3>3, <3>4
  <2>5. Copies' = Copies
    BY <2>2, <2>3, <2>4, OthersKeep
  <2> QED
    BY <2>1, <2>5 DEF Shared!registryVars
<1>7. CASE UNCHANGED lifeVars
  BY <1>7 DEF lifeVars, Shared!registryVars, HasCopy
<1>8. \E m : m \in Match
  BY Constants
<1> QED
  BY <1>1, <1>2, <1>3, <1>4, <1>5, <1>6, <1>7, <1>8 DEF LifeNext, InCall

\* Each call on a shared database is one step of Registry, for any number of threads.
THEOREM LifetimeImplementsRegistry == LifeSpec => ImplementsRegistry
<1>1. LifeInit => Shared!RegistryInit
  <2> SUFFICES ASSUME LifeInit PROVE Shared!RegistryInit
    OBVIOUS
  <2>1. \A t \in Thread : pc[t] = "idle" /\ default[t] = NoMatch
    BY Constants DEF LifeInit
  <2>2. {t \in Thread : HasCopy(t)} = {}
    BY <2>1 DEF HasCopy
  <2> QED
    BY <2>2 DEF LifeInit, Shared!RegistryInit
<1>2. LifeInv /\ LifeInv' /\ [LifeNext]_lifeVars => [Shared!RegistryNext]_(Shared!registryVars)
  BY RegistryStep
<1> QED
  BY <1>1, <1>2, LifeInvariance, PTL DEF LifeSpec, ImplementsRegistry, Shared!RegistrySpec
=============================================================================
