------------------------- MODULE DatabaseLoadProofs -------------------------
(***************************************************************************)
(* Theorems about DatabaseLoad, for any directories and files and any order *)
(* of readdir: the invariants of the two loaders hold in their composition, *)
(* and with what relates them make those of the database.                   *)
(***************************************************************************)
EXTENDS StylusQueries, LoadersProofs

InUse == dbPc \in {"loading", "ready"}

\* How far the loaders are in each phase of the database.
Phases ==
  /\ dbPc \in {"loading", "ready", "releasing", "released"}
  /\ dbPc = "loading" => stylusPc \notin {"paired", "released"}
  /\ dbPc = "ready" => stylusPc = "paired"
  /\ dbPc = "releasing" => stylusPc # "released"
  /\ dbPc = "released" => \A id \in StylusId : stylusHt[id] = NoStylus

\* The device table is as TabletLoad has it until it is destroyed, as a whole.
DevicesInv ==
  /\ InUse => TabletInv
  /\ deviceHt \in [MatchString -> Device \cup {NoDevice}]
  /\ refcnt \in [Device -> Int]
  /\ RefcntExact
  /\ dbPc = "released" => \A m \in MatchString : deviceHt[m] = NoDevice

\* The styli of the table that the Styli of a file stand for
Named(f, t) == \/ \E id \in styliLists[f] \cap StylusId : stylusHt[id] = t
               \/ t.group # Unset /\ t.group \in styliLists[f]
Resolved(f) == {s.from : s \in {t \in EnteredStyli : Named(f, t)}}

\* No device is parsed before the last stylus is entered, so what the Styli of a file
\* stood for when it was parsed they still stand for.
ListsInv ==
  /\ styli \in [Device -> SUBSET Styli]
  /\ \A f \in Device : Unset \notin styliLists[f]
  /\ InUse =>
       /\ stylusPc \notin {"done", "paired"} =>
            /\ cur = NoDevice
            /\ \A m \in MatchString : deviceHt[m] = NoDevice
            /\ \A f \in Device : styli[f] = {}
       /\ \A f \in Device : styli[f] \subseteq liveStyli
       /\ \A f \in Device : Reachable(f) => styli[f] = Resolved(f)

\* The inductive invariant
DbInv == StylusInv /\ Phases /\ DevicesInv /\ ListsInv

LEMMA ResolvedLive == LiveExact => \A f : Resolved(f) \subseteq liveStyli
BY DEF LiveExact, Resolved, EnteredStyli

LEMMA LiveStyli == StylusInv => liveStyli \subseteq Styli
BY DEF StylusInv, LiveExact, OwnId

\* The initial states satisfy the invariant.
LEMMA DbInitInv == DbInit => DbInv
<1> SUFFICES ASSUME DbInit PROVE DbInv
  OBVIOUS
<1> USE DEF DbInit
<1>1. StylusInv
  BY StylusInitInv
<1>2. TabletInv
  BY InitInv
<1>3. Phases
  BY DEF Phases, StylusInit
<1>4. \A f \in Device : EntriesOf(f) = {} /\ f # cur /\ refcnt[f] = 0
  BY NoDeviceAssumption DEF TabletInit, EntriesOf
<1>5. DevicesInv
  <2>1. RefcntExact
    <3> SUFFICES ASSUME NEW f \in Device
                 PROVE  refcnt[f] = Cardinality(EntriesOf(f)) + (IF f = cur THEN 1 ELSE 0)
      BY DEF RefcntExact
    <3>1. Cardinality(EntriesOf(f)) = 0
      BY <1>4, FS_EmptySet
    <3> QED
      BY <1>4, <3>1
  <2> QED
    BY <1>2, <2>1 DEF DevicesInv, TabletInv, TabletTypeOK
<1>6. ListsInv
  <2>1. \A f \in Device : Unset \notin styliLists[f]
    BY StyliListsAssumption
  <2>2. \A f \in Device : styli[f] = {}
    OBVIOUS
  <2>3. \A f \in Device : ~Reachable(f)
    BY <1>4 DEF Reachable
  <2> QED
    BY <2>1, <2>2, <2>3 DEF ListsInv, TabletInit
<1> QED
  BY <1>1, <1>3, <1>5, <1>6 DEF DbInv

-----------------------------------------------------------------------------
\* A step that leaves the device table alone.
LEMMA DevicesUnchanged ==
  ASSUME DevicesInv, UNCHANGED tabletVars, InUse' => InUse, dbPc' # "released"
  PROVE  DevicesInv'
<1> USE DEF tabletVars
<1>1. RefcntExact'
  BY DEF DevicesInv, RefcntExact, EntriesOf
<1>2. ASSUME InUse' PROVE TabletInv'
  BY <1>2, StepInv DEF DevicesInv
<1> QED
  BY <1>1, <1>2 DEF DevicesInv

LEMMA StyliStepInv ==
  ASSUME DbInv, LoadStyli
  PROVE  DbInv'
<1> USE DEF LoadStyli, stylusDiskVars
<1>1. /\ stylusPc \notin {"done", "paired", "released"} /\ stylusPc' \notin {"paired", "released"}
      /\ stylusFiles' = stylusFiles /\ dirStatus' = dirStatus
  BY DEF StylusPassNext, OpenStylusDir, MissingStylusDir, UnreadableStylusDir, ReadStylusFile,
         SkipGroup, EnterStylus, EndStylusFile, CloseStylusDir, SecondPass, StyliLoaded, MoreGroups
<1>2. StylusInv'
  BY StylusStepInv DEF DbInv, StylusNext
<1>3. UNCHANGED tabletVars /\ dbPc' = dbPc /\ dbPc = "loading"
  BY <1>1 DEF tabletRest, tabletVars
<1>4. Phases'
  BY <1>1, <1>3 DEF DbInv, Phases
<1>5. DevicesInv'
  BY <1>3, DevicesUnchanged DEF DbInv, InUse
<1>6. ListsInv'
  <2>1. /\ cur = NoDevice
        /\ \A m \in MatchString : deviceHt[m] = NoDevice
        /\ \A f \in Device : styli[f] = {}
    BY <1>1, <1>3 DEF DbInv, ListsInv, InUse
  <2>2. \A f \in Device : ~Reachable(f)'
    BY <1>3, <2>1, NoDeviceAssumption DEF Reachable, EntriesOf, tabletVars
  <2>3. styli' = styli /\ styliLists' = styliLists /\ cur' = cur /\ deviceHt' = deviceHt
    BY <1>3 DEF tabletVars
  <2>4. Styli' = Styli
    BY <1>1 DEF Styli, GroupAt
  <2> QED
    BY <2>1, <2>2, <2>3, <2>4 DEF DbInv, ListsInv
<1> QED
  BY <1>2, <1>4, <1>5, <1>6 DEF DbInv

\* A device is parsed with the finished table of styli; no other step makes a device
\* reachable.
LEMMA TabletsStepInv ==
  ASSUME DbInv, LoadTablets
  PROVE  DbInv'
<1> USE DEF LoadTablets
<1>1. dbPc = "loading" /\ dbPc' = "loading" /\ stylusPc = "done" /\ UNCHANGED <<stylusRest, styliLists>>
  BY DEF StyliFirst
<1>2. TabletNext /\ dirStatus' = dirStatus
  BY DEF TabletNext, TabletStep, diskVars, OpenTabletDir, MissingTabletDir, UnreadableTabletDir,
         SkipShadowedFile, SkipInvalidFile, ParseTablet, InsertMatch, DuplicateMatch,
         FinishTablet, CloseTabletDir, AllTabletDirs
<1>3. UNCHANGED stylusVars
  BY <1>1, <1>2 DEF stylusRest, stylusVars
<1>4. StylusInv'
  BY <1>3, StylusStepInv DEF DbInv
<1>5. Phases'
  BY <1>1, <1>3 DEF DbInv, Phases, stylusVars
<1>6. TabletInv /\ RefcntExact
  BY <1>1 DEF DbInv, DevicesInv, InUse
<1>7. TabletInv' /\ RefcntExact'
  BY <1>2, <1>6, StepInv, RefcntStep
<1>8. DevicesInv'
  BY <1>1, <1>7 DEF DevicesInv, TabletInv, TabletTypeOK
<1>9. Styli' = Styli /\ liveStyli' = liveStyli /\ stylusPc' = "done" /\ stylusHt' = stylusHt
  BY <1>1, <1>3 DEF Styli, GroupAt, stylusVars
<1>10. \A f : Resolved(f)' = Resolved(f)
  BY <1>1, <1>9 DEF Resolved, Named, EnteredStyli
<1>11. LiveExact /\ liveStyli \subseteq Styli
  BY LiveStyli DEF DbInv, StylusInv
<1>12. ListsInv'
  <2>1. CASE TabletStep /\ UNCHANGED styli
    <3>1. ASSUME NEW f \in Device, Reachable(f)' PROVE Reachable(f)
      <4>1. CASE InsertMatch
        BY <4>1, <3>1 DEF InsertMatch, Reachable, EntriesOf
      <4>2. CASE ~InsertMatch
        <5>1. deviceHt' = deviceHt /\ cur' \in {cur, NoDevice}
          BY <2>1, <4>2 DEF TabletStep, OpenTabletDir, MissingTabletDir, UnreadableTabletDir,
                SkipShadowedFile, SkipInvalidFile, DuplicateMatch, FinishTablet, CloseTabletDir,
                AllTabletDirs
        <5> QED
          BY <3>1, <5>1, NoDeviceAssumption DEF Reachable, EntriesOf
      <4> QED
        BY <4>1, <4>2
    <3> QED
      BY <1>1, <1>9, <1>10, <2>1, <3>1 DEF DbInv, ListsInv, InUse
  <2>2. ASSUME NEW n \in FileName, ParseTablet(n), ParseStyliList(<<tabletDir, n>>)
        PROVE  ListsInv'
    <3> DEFINE new == <<tabletDir, n>>
    <3>1. new \in Device
      BY <2>2, <1>6, ShadowedNames DEF ParseTablet, TabletInv, TabletTypeOK
    <3>2. styli' = [styli EXCEPT ![new] = Resolved(new)]
      BY <2>2 DEF ParseStyliList, Resolved, Named
    <3>3. \A f \in Device : styli'[f] = IF f = new THEN Resolved(new) ELSE styli[f]
      BY <3>1, <3>2 DEF DbInv, ListsInv
    <3>4. Resolved(new) \subseteq liveStyli
      BY <1>11, ResolvedLive
    <3>5. styli' \in [Device -> SUBSET Styli]
      BY <3>1, <3>2, <3>4, <1>11 DEF DbInv, ListsInv
    <3>6. \A f \in Device : Reachable(f)' => Reachable(f) \/ f = new
      BY <2>2 DEF ParseTablet, Reachable, EntriesOf
    <3> QED
      BY <1>1, <1>9, <1>10, <3>3, <3>4, <3>5, <3>6 DEF DbInv, ListsInv, InUse
  <2> QED
    BY <2>1, <2>2
<1> QED
  BY <1>4, <1>5, <1>8, <1>12 DEF DbInv

\* The styli are paired when all files are read.
LEMMA FinishInv ==
  ASSUME DbInv, FinishLoad
  PROVE  DbInv'
<1> USE DEF FinishLoad, SetupPaired, stylusDiskVars
<1>1. StylusInv'
  BY SetupInv DEF DbInv
<1>2. UNCHANGED tabletVars /\ InUse /\ InUse'
  BY DEF tabletRest, tabletVars, InUse
<1>3. Phases'
  BY DEF DbInv, Phases
<1>4. DevicesInv'
  BY <1>2, DevicesUnchanged DEF DbInv
<1>5. Styli' = Styli
  BY DEF Styli, GroupAt
<1>6. \A f : Resolved(f)' = Resolved(f) /\ (Reachable(f)' <=> Reachable(f))
  BY DEF Resolved, Named, EnteredStyli, Reachable, EntriesOf, tabletRest
<1>7. ListsInv'
  BY <1>2, <1>5, <1>6 DEF DbInv, ListsInv
<1> QED
  BY <1>1, <1>3, <1>4, <1>7 DEF DbInv

\* The release begins, after a failure or the last reference.
LEMMA ReleaseInv ==
  ASSUME DbInv, FailLoad \/ Unref
  PROVE  DbInv'
<1> USE DEF FailLoad, Unref
<1>1. /\ UNCHANGED stylusVars /\ UNCHANGED tabletVars /\ UNCHANGED <<styliLists, styli>>
      /\ dbPc' = "releasing" /\ InUse
  BY DEF stylusRest, stylusVars, tabletVars, InUse
<1>2. StylusInv'
  BY <1>1, StylusStepInv DEF DbInv
<1>3. Phases'
  BY <1>1 DEF DbInv, Phases, InUse, stylusVars
<1>4. DevicesInv'
  BY <1>1, DevicesUnchanged DEF DbInv, InUse
<1>5. ListsInv'
  <2>1. Styli' = Styli
    BY <1>1 DEF Styli, GroupAt, stylusVars
  <2> QED
    BY <1>1, <2>1 DEF DbInv, ListsInv, InUse
<1> QED
  BY <1>2, <1>3, <1>4, <1>5 DEF DbInv

\* Each device loses one reference for each of its entries; the parser's stays.
LEMMA DestroyDevicesInv ==
  ASSUME DbInv, DestroyDeviceHt
  PROVE  DbInv'
<1> USE DEF DestroyDeviceHt
<1>1. UNCHANGED stylusVars /\ UNCHANGED <<cur, dbPc, styliLists, styli>> /\ dbPc = "releasing"
  BY DEF stylusRest, stylusVars
<1>2. StylusInv'
  BY <1>1, StylusStepInv DEF DbInv
<1>3. Phases'
  BY <1>1 DEF DbInv, Phases, stylusVars
<1>4. \A f \in Device : EntriesOf(f)' = {}
  BY NoDeviceAssumption DEF EntriesOf
<1>5. \A f \in Device : Cardinality(EntriesOf(f)) \in Nat
  BY EntriesFinite, FS_CardinalityType
<1>6. DevicesInv'
  <2>1. \A f \in Device : refcnt'[f] = refcnt[f] - Cardinality(EntriesOf(f))
    BY DEF UnrefEachEntry
  <2>2. refcnt' \in [Device -> Int]
    BY <1>5 DEF UnrefEachEntry, DbInv, DevicesInv
  <2>3. RefcntExact'
    <3> SUFFICES ASSUME NEW f \in Device
                 PROVE  refcnt'[f] = Cardinality(EntriesOf(f)') + (IF f = cur' THEN 1 ELSE 0)
      BY DEF RefcntExact
    <3>1. refcnt[f] = Cardinality(EntriesOf(f)) + (IF f = cur THEN 1 ELSE 0)
      BY DEF DbInv, DevicesInv, RefcntExact
    <3>2. Cardinality(EntriesOf(f)') = 0
      BY <1>4, FS_EmptySet
    <3> QED
      BY <1>1, <1>5, <2>1, <3>1, <3>2
  <2> QED
    BY <1>1, <2>2, <2>3 DEF DevicesInv, InUse
<1>7. ListsInv'
  <2>1. Styli' = Styli
    BY <1>1 DEF Styli, GroupAt, stylusVars
  <2> QED
    BY <1>1, <2>1 DEF DbInv, ListsInv, InUse
<1> QED
  BY <1>2, <1>3, <1>6, <1>7 DEF DbInv

\* Every stylus in memory is in the table and goes with it.
LEMMA DestroyStyliInv ==
  ASSUME DbInv, DestroyStylusHt
  PROVE  DbInv' /\ liveStyli' = {}
<1> USE DEF DestroyStylusHt
<1>1. liveStyli' = {}
  BY DEF DbInv, StylusInv, LiveExact, EnteredStyli
<1>2. \A id \in StylusId : stylusHt'[id] = NoStylus
  OBVIOUS
<1>3. Styli' = Styli
  BY DEF Styli, GroupAt
<1>4. StylusInv'
  <2>1. StylusTypeOK'
    BY <1>3 DEF DbInv, StylusInv, StylusTypeOK
  <2>2. OwnId' /\ LiveExact' /\ PairedLast'
    BY <1>1, <1>2 DEF OwnId, LiveExact, PairedLast
  <2> QED
    BY <2>1, <2>2 DEF StylusInv
<1>5. Phases'
  BY <1>2 DEF Phases
<1>6. DevicesInv'
  <2>1. RefcntExact'
    BY DEF DbInv, DevicesInv, RefcntExact, EntriesOf, tabletVars
  <2> QED
    BY <2>1 DEF DbInv, DevicesInv, InUse, tabletVars
<1>7. ListsInv'
  BY <1>3 DEF DbInv, ListsInv, InUse
<1> QED
  BY <1>1, <1>4, <1>5, <1>6, <1>7 DEF DbInv

\* Every step keeps the invariant.
LEMMA DbStepInv == DbInv /\ [DbNext]_dbVars => DbInv'
<1> SUFFICES ASSUME DbInv, [DbNext]_dbVars PROVE DbInv'
  OBVIOUS
<1>1. CASE UNCHANGED dbVars
  <2>1. UNCHANGED stylusVars /\ UNCHANGED tabletVars /\ UNCHANGED <<dbPc, styliLists, styli>>
    BY <1>1 DEF dbVars, stylusVars, tabletVars
  <2>2. StylusInv'
    BY <2>1, StylusStepInv DEF DbInv
  <2>3. Phases'
    BY <2>1 DEF DbInv, Phases, stylusVars
  <2>4. DevicesInv'
    <3>1. RefcntExact'
      BY <2>1 DEF DbInv, DevicesInv, RefcntExact, EntriesOf, tabletVars
    <3>2. ASSUME InUse' PROVE TabletInv'
      BY <2>1, <3>2, StepInv DEF DbInv, DevicesInv, InUse
    <3> QED
      BY <2>1, <3>1, <3>2 DEF DbInv, DevicesInv, tabletVars
  <2>5. ListsInv'
    <3>1. Styli' = Styli /\ (InUse' <=> InUse)
      BY <2>1 DEF Styli, GroupAt, stylusVars, InUse
    <3>2. \A f : Resolved(f)' = Resolved(f) /\ (Reachable(f)' <=> Reachable(f))
      BY <2>1 DEF Resolved, Named, EnteredStyli, Reachable, EntriesOf, stylusVars, tabletVars
    <3> QED
      BY <2>1, <3>1, <3>2 DEF DbInv, ListsInv, stylusVars, tabletVars
  <2> QED
    BY <2>2, <2>3, <2>4, <2>5 DEF DbInv
<1> QED
  BY <1>1, StyliStepInv, TabletsStepInv, FinishInv, ReleaseInv, DestroyDevicesInv, DestroyStyliInv
     DEF DbNext

THEOREM DbInvariance == DbSpec => []DbInv
BY DbInitInv, DbStepInv, PTL DEF DbSpec

-----------------------------------------------------------------------------
\* Nothing a caller or the parser can reach is freed, nor is a stylus it points to.
THEOREM DanglingTheorem == DbSpec => []NoDangling
<1>1. DbInv => NoDangling
  <2> SUFFICES ASSUME DbInv PROVE NoDangling
    OBVIOUS
  <2>1. ASSUME NEW f \in Device, Reachable(f) PROVE refcnt[f] > 0
    <3>1. refcnt[f] = Cardinality(EntriesOf(f)) + (IF f = cur THEN 1 ELSE 0)
      BY DEF DbInv, DevicesInv, RefcntExact
    <3>2. Cardinality(EntriesOf(f)) \in Nat /\ (EntriesOf(f) # {} => Cardinality(EntriesOf(f)) # 0)
      BY EntriesFinite, FS_CardinalityType, FS_EmptySet
    <3> QED
      BY <2>1, <3>1, <3>2 DEF Reachable
  <2>2. ASSUME InUse
        PROVE  /\ \A f \in Device : Reachable(f) => styli[f] \subseteq liveStyli
               /\ \A id \in StylusId : pairedStyli[id] \subseteq liveStyli
    BY <2>2 DEF DbInv, ListsInv, StylusInv, PairedLast, Phases, InUse
  <2> QED
    BY <2>1, <2>2 DEF NoDangling, InUse
<1> QED
  BY <1>1, DbInvariance, PTL

\* The styli of a device are those the finished table has for its file.
THEOREM CurrentTheorem == DbSpec => []StyliCurrent
<1>1. DbInv => StyliCurrent
  <2> SUFFICES ASSUME DbInv, dbPc = "ready", NEW m \in MatchString, deviceHt[m] # NoDevice,
                      NEW id \in StylusId, stylusHt[id] # NoStylus
               PROVE  stylusHt[id].from \in styli[deviceHt[m]]
                        <=> styliLists[deviceHt[m]] \cap {id, stylusHt[id].group} # {}
    BY DEF StyliCurrent
  <2> DEFINE f == deviceHt[m]
             s == stylusHt[id]
  <2>1. f \in Device /\ Reachable(f)
    BY DEF DbInv, DevicesInv, Reachable, EntriesOf
  <2>2. styli[f] = Resolved(f) /\ Unset \notin styliLists[f]
    BY <2>1 DEF DbInv, ListsInv, InUse
  <2>3. \A i \in StylusId : stylusHt[i] # NoStylus /\ stylusHt[i].from = s.from => i = id
    BY DEF DbInv, StylusInv, OwnId
  <2>4. s \in EnteredStyli /\ \A t \in EnteredStyli : t.from = s.from => t = s
    BY <2>3 DEF EnteredStyli
  <2>5. s.from \in Resolved(f) <=> Named(f, s)
    BY <2>4 DEF Resolved
  <2>6. (\E i \in styliLists[f] \cap StylusId : stylusHt[i] = s) <=> id \in styliLists[f]
    BY <2>3
  <2>7. Named(f, s) <=> id \in styliLists[f] \/ (s.group # Unset /\ s.group \in styliLists[f])
    BY <2>6 DEF Named
  <2>8. styliLists[f] \cap {id, s.group} # {} <=> id \in styliLists[f] \/ s.group \in styliLists[f]
    OBVIOUS
  <2> HIDE DEF f, s
  <2>9. s.from \in styli[f] <=> styliLists[f] \cap {id, s.group} # {}
    BY <2>2, <2>5, <2>7, <2>8
  <2> QED
    BY <2>9 DEF f, s
<1> QED
  BY <1>1, DbInvariance, PTL

\* A database that is gone has left nothing but the device of a duplicate match.
THEOREM ReleasedTheorem == DbSpec => []ReleasedExact
<1>1. DbInv => ReleasedExact
  <2> SUFFICES ASSUME DbInv, dbPc = "released"
               PROVE  liveStyli = {} /\ \A f \in Device : refcnt[f] = IF f = cur THEN 1 ELSE 0
    BY DEF ReleasedExact
  <2>1. liveStyli = {}
    BY DEF DbInv, StylusInv, LiveExact, Phases
  <2>2. \A f \in Device : EntriesOf(f) = {}
    BY NoDeviceAssumption DEF DbInv, DevicesInv, EntriesOf
  <2>3. \A f \in Device : refcnt[f] = 0 + (IF f = cur THEN 1 ELSE 0)
    BY <2>2, FS_EmptySet DEF DbInv, DevicesInv, RefcntExact
  <2> QED
    BY <2>1, <2>3
<1> QED
  BY <1>1, DbInvariance, PTL

\* The count of the styli stays exact in the database too, to its end.
THEOREM DbLiveTheorem == DbSpec => []LiveExact
<1>1. DbInv => LiveExact
  BY DEF DbInv, StylusInv
<1> QED
  BY <1>1, DbInvariance, PTL

-----------------------------------------------------------------------------
\* The pairs of a stylus of the table are those of its group, or none, or, of an alias
\* that inherits, ids of Wacom.
PairsFrom ==
  \A id \in StylusId : stylusHt[id] # NoStylus =>
    LET g == GroupOf(stylusHt[id].from)
        p == stylusHt[id].paired
    IN  \/ g.paired # Unset /\ p = g.paired
        \/ g.paired = Unset /\ ~IsAlias(g) /\ p = {}
        \/ InheritsPairs(stylusHt[id]) /\ \A q \in p : q.vid = WacomVid

\* The table is not touched between the pairing of the styli and their release.
PairedIs ==
  stylusPc = "paired" =>
    /\ \A id \in StylusId :
         pairedStyli[id] = IF stylusHt[id] = NoStylus THEN {} ELSE Partners(stylusHt[id])
    /\ hasEraser = {id \in InTable : PairsEraser(stylusHt[id])}

PairsInv == PairsFrom /\ PairedIs

LEMMA PairsUnchanged ==
  ASSUME PairsInv, UNCHANGED <<stylusFiles, stylusHt>>, stylusPc' # "paired"
  PROVE  PairsInv'
BY DEF PairsInv, PairsFrom, PairedIs, GroupOf, GroupAt, InheritsPairs

\* The pairs of a group that is entered
LEMMA PairsParsed ==
  ASSUME StylusTypeOK, NEW s \in Styli, ~Ignored(GroupOf(s))
  PROVE  LET g == GroupOf(s)
             p == Parsed(s).paired
         IN  \/ g.paired # Unset /\ p = g.paired
             \/ g.paired = Unset /\ ~IsAlias(g) /\ p = {}
             \/ g.paired = Unset /\ IsAlias(g) /\ \A q \in p : q.vid = WacomVid
<1> DEFINE g == GroupOf(s)
           a == Aliased(g)
<1>1. CASE ~IsAlias(g)
  <2>1. Parsed(s).paired = OrFallback(g.paired, {})
    BY <1>1 DEF Parsed, ParsedGroup
  <2> QED
    BY <1>1, <2>1 DEF OrFallback
<1>2. CASE IsAlias(g)
  <2>1. Parsed(s).paired = OrFallback(g.paired, InheritedPairs(a.paired))
    BY <1>2 DEF Parsed, ParsedGroup
  <2>2. \A q \in InheritedPairs(a.paired) : q.vid = WacomVid
    BY DEF InheritedPairs
  <2> QED
    BY <1>2, <2>1, <2>2 DEF OrFallback
<1> QED
  BY <1>1, <1>2

LEMMA PairsEnter ==
  ASSUME StylusInv, PairsInv, EnterStylus
  PROVE  PairsInv'
<1> USE DEF EnterStylus, stylusDiskVars
<1>1. StylusTypeOK /\ CurGroup \in Styli /\ stylusPc' = "parse"
  BY CurGroupFacts DEF StylusInv, MoreGroups
<1> DEFINE id == GroupOf(CurGroup).id
           new == Parsed(CurGroup)
<1>2. id \in StylusId /\ new.from = CurGroup
  BY <1>1, ParsedFacts
<1>3. stylusHt' = [stylusHt EXCEPT ![id] = new]
  OBVIOUS
<1>4. \A s : GroupOf(s)' = GroupOf(s)
  BY DEF GroupOf, GroupAt
<1> HIDE DEF id, new
<1>5. ASSUME NEW i \in StylusId, stylusHt'[i] # NoStylus
      PROVE  LET h == GroupOf(stylusHt'[i].from)
                 p == stylusHt'[i].paired
             IN  \/ h.paired # Unset /\ p = h.paired
                 \/ h.paired = Unset /\ ~IsAlias(h) /\ p = {}
                 \/ h.paired = Unset /\ IsAlias(h) /\ \A q \in p : q.vid = WacomVid
  <2>1. CASE i = id
    <3>1. stylusHt'[i] = new
      BY <1>2, <1>3, <2>1 DEF StylusInv, StylusTypeOK
    <3>2. ~Ignored(GroupOf(CurGroup))
      OBVIOUS
    <3> QED
      BY <1>1, <1>2, <3>1, <3>2, PairsParsed DEF new
  <2>2. CASE i # id
    <3>1. stylusHt'[i] = stylusHt[i]
      BY <1>3, <2>2 DEF StylusInv, StylusTypeOK
    <3> QED
      BY <1>5, <3>1 DEF PairsInv, PairsFrom, InheritsPairs
  <2> QED
    BY <2>1, <2>2
<1>6. PairsFrom'
  BY <1>4, <1>5 DEF PairsFrom, InheritsPairs, IsAlias
<1>7. PairedIs'
  BY <1>1 DEF PairedIs
<1> QED
  BY <1>6, <1>7 DEF PairsInv

LEMMA PairsStep == DbInv /\ PairsInv /\ [DbNext]_dbVars => PairsInv'
<1> SUFFICES ASSUME DbInv, PairsInv, [DbNext]_dbVars PROVE PairsInv'
  OBVIOUS
<1>1. CASE LoadStyli
  <2>1. CASE EnterStylus
    BY <2>1, PairsEnter DEF DbInv
  <2>2. CASE ~EnterStylus
    <3>1. stylusFiles' = stylusFiles /\ stylusHt' = stylusHt /\ stylusPc' # "paired"
      BY <1>1, <2>2 DEF LoadStyli, StylusPassNext, OpenStylusDir, MissingStylusDir,
         UnreadableStylusDir, ReadStylusFile, SkipGroup, EndStylusFile, CloseStylusDir,
         SecondPass, StyliLoaded, MoreGroups, stylusDiskVars
    <3> QED
      BY <3>1, PairsUnchanged
  <2> QED
    BY <2>1, <2>2
<1>2. CASE FinishLoad
  <2>1. UNCHANGED <<stylusFiles, stylusHt>>
    BY <1>2 DEF FinishLoad, SetupPaired, stylusDiskVars
  <2>2. PairsFrom'
    BY <2>1 DEF PairsInv, PairsFrom, GroupOf, GroupAt, InheritsPairs
  <2>3. PairedIs'
    BY <1>2, <2>1 DEF FinishLoad, SetupPaired, PairedIs, Partners, PairsEraser, InTable
  <2> QED
    BY <2>2, <2>3 DEF PairsInv
<1>3. CASE DestroyStylusHt
  BY <1>3 DEF DestroyStylusHt, PairsInv, PairsFrom, PairedIs
<1>4. CASE LoadTablets \/ FailLoad \/ Unref \/ DestroyDeviceHt \/ UNCHANGED dbVars
  <2>1. UNCHANGED <<stylusFiles, stylusPc, stylusHt, pairedStyli, hasEraser>>
    BY <1>4 DEF LoadTablets, FailLoad, Unref, DestroyDeviceHt, dbVars, stylusRest
  <2> QED
    BY <2>1 DEF PairsInv, PairsFrom, PairedIs, GroupOf, GroupAt, InheritsPairs, Partners,
         PairsEraser, InTable
<1> QED
  BY <1>1, <1>2, <1>3, <1>4 DEF DbNext

LEMMA PairsInvariance == DbSpec => [](DbInv /\ PairsInv)
<1>1. DbInit => PairsInv
  BY DEF DbInit, StylusInit, PairsInv, PairsFrom, PairedIs
<1> QED
  BY <1>1, DbInitInv, DbStepInv, PairsStep, PTL DEF DbSpec

-----------------------------------------------------------------------------
\* A stylus is found by the id of its group.
LEMMA IdOfFacts ==
  ASSUME DbInv
  PROVE  /\ \A id \in InTable : IdOf(stylusHt[id].from) = id /\ stylusHt[id].from \in Styli
         /\ \A s \in liveStyli : /\ s \in Styli /\ IdOf(s) \in InTable
                                 /\ stylusHt[IdOf(s)].from = s
BY DEF DbInv, StylusInv, OwnId, LiveExact, IdOf, InTable

\* An id of the older list is looked up with the vendor it had, if it is a usual one.
LEMMA ForUsual ==
  ASSUME NEW id \in StylusId, id \in WacomOrNone, Usual(id)
  PROVE  ForId(id.tool) = stylusHt[id]
<1>1. PICK v \in Vid, t \in Tool : id = [vid |-> v, tool |-> t]
  BY DEF StylusId
<1>2. v = IF t \in GenericTool THEN NoVid ELSE WacomVid
  BY <1>1, GenericAssumption DEF Usual, WacomOrNone
<1> QED
  BY <1>1, <1>2 DEF ForId, IsGeneric

LEMMA UsualTable ==
  ASSUME DbInv, UsualFiles, NEW id \in InTable
  PROVE  Usual(id)
BY IdOfFacts DEF UsualFiles, IdOf, InTable

\* The older list of a device's styli stands for those of Wacom and of no vendor.
THEOREM LegacyStyliTheorem == DbSpec => []LegacyStyliResolve
<1>1. DbInv => LegacyStyliResolve
  <2> SUFFICES ASSUME DbInv, dbPc = "ready", UsualFiles,
                      NEW m \in MatchString, deviceHt[m] # NoDevice
               PROVE  {ForId(t) : t \in SupportedStyli(deviceHt[m])}
                        = {stylusHt[IdOf(s)] : s \in {x \in styli[deviceHt[m]] : IdOf(x) \in WacomOrNone}}
    BY DEF LegacyStyliResolve
  <2> DEFINE f == deviceHt[m]
  <2>1. f \in Device /\ styli[f] \subseteq liveStyli
    BY DEF DbInv, DevicesInv, ListsInv, InUse
  <2> HIDE DEF f
  <2>2. \A s \in styli[f] : IdOf(s) \in WacomOrNone => ForId(IdOf(s).tool) = stylusHt[IdOf(s)]
    BY <2>1, IdOfFacts, UsualTable, ForUsual DEF InTable
  <2>3. SupportedStyli(f) = {IdOf(s).tool : s \in {x \in styli[f] : IdOf(x) \in WacomOrNone}}
    BY DEF SupportedStyli, Legacy
  <2>4. {ForId(t) : t \in SupportedStyli(f)}
          = {stylusHt[IdOf(s)] : s \in {x \in styli[f] : IdOf(x) \in WacomOrNone}}
    BY <2>2, <2>3
  <2> QED
    BY <2>4 DEF f
<1> QED
  BY <1>1, DbInvariance, PTL

\* The older list of a stylus's partners stands for those of Wacom and of no vendor, and
\* for an alias that inherits also for generic styli that are not its partners.
LEMMA LegacyPairs ==
  ASSUME DbInv, PairsInv, dbPc = "ready", UsualFiles, NEW id \in InTable
  PROVE  LET old == {ForId(t) : t \in PairedIds(id)} \ {NoStylus}
             new == {stylusHt[IdOf(p)] : p \in {x \in pairedStyli[id] : IdOf(x) \in WacomOrNone}}
         IN  /\ new \subseteq old
             /\ \A s \in old \ new : InheritsPairs(stylusHt[id]) /\ IdOf(s.from).vid = NoVid
<1> DEFINE own == stylusHt[id].paired
           there == {q \in own \cap WacomOrNone : stylusHt[q] # NoStylus}
           old == {ForId(t) : t \in PairedIds(id)} \ {NoStylus}
           new == {stylusHt[IdOf(p)] : p \in {x \in pairedStyli[id] : IdOf(x) \in WacomOrNone}}
           g == GroupOf(stylusHt[id].from)
<1>1. id \in StylusId /\ stylusHt[id] \in Stylus /\ own \subseteq StylusId
  BY DEF InTable, DbInv, StylusInv, StylusTypeOK, Stylus
<1>2. pairedStyli[id] = {stylusHt[q].from : q \in {i \in own : stylusHt[i] # NoStylus}}
  <2>1. pairedStyli[id] = Partners(stylusHt[id])
    BY <1>1 DEF DbInv, Phases, PairsInv, PairedIs, InTable
  <2>2. own \cap StylusId = own
    BY <1>1
  <2> QED
    BY <2>1, <2>2 DEF Partners, InTable
<1>3. \A q \in own : stylusHt[q] # NoStylus => q \in InTable /\ IdOf(stylusHt[q].from) = q
  BY <1>1, IdOfFacts DEF InTable
<1>4. new = {stylusHt[q] : q \in there}
  BY <1>1, <1>2, <1>3 DEF WacomOrNone
<1>5. old = {ForId(q.tool) : q \in own \cap WacomOrNone} \ {NoStylus}
  BY DEF PairedIds, Legacy
<1>6. \A q \in there : ForId(q.tool) = stylusHt[q]
  BY <1>1, <1>3, UsualTable, ForUsual DEF WacomOrNone
<1>7. new \subseteq old
  BY <1>4, <1>5, <1>6
<1>8. CASE \A q \in own \cap WacomOrNone : Usual(q)
  <2>1. \A q \in own \cap WacomOrNone : ForId(q.tool) = stylusHt[q]
    BY <1>1, <1>8, ForUsual DEF WacomOrNone
  <2>2. old \subseteq new
    BY <1>4, <1>5, <2>1
  <2> QED
    BY <1>7, <2>2
<1>9. CASE InheritsPairs(stylusHt[id]) /\ \A q \in own : q.vid = WacomVid
  <2> SUFFICES ASSUME NEW s \in old \ new PROVE IdOf(s.from).vid = NoVid
    BY <1>7, <1>9
  <2>1. PICK q \in own \cap WacomOrNone : s = ForId(q.tool) /\ s # NoStylus
    BY <1>5
  <2>2. PICK v \in Vid, t \in Tool : q = [vid |-> v, tool |-> t]
    BY <1>1, <2>1 DEF StylusId
  <2>3. v = WacomVid
    BY <1>9, <2>1, <2>2
  <2>4. CASE t \in GenericTool
    <3> DEFINE n == [vid |-> NoVid, tool |-> t]
    <3>1. s = stylusHt[n] /\ n \in InTable
      BY <2>1, <2>2, <2>4, GenericAssumption DEF ForId, IsGeneric, InTable, StylusId
    <3>2. IdOf(s.from) = n
      BY <3>1, IdOfFacts
    <3> QED
      BY <3>2
  <2>5. CASE t \notin GenericTool
    <3>1. s = stylusHt[q]
      BY <2>1, <2>2, <2>3, <2>5 DEF ForId, IsGeneric
    <3> QED
      BY <2>1, <3>1, <1>4
  <2> QED
    BY <2>4, <2>5
<1>10. \/ \A q \in own \cap WacomOrNone : Usual(q)
       \/ InheritsPairs(stylusHt[id]) /\ \A q \in own : q.vid = WacomVid
  <2>1. stylusHt[id].from \in Styli
    BY IdOfFacts
  <2>2. g \in KeyGroup /\ (g.paired # Unset => \A q \in g.paired : Usual(q))
    BY <2>1, StyliFacts DEF DbInv, StylusInv, UsualFiles
  <2>3. \/ g.paired # Unset /\ own = g.paired
        \/ own = {}
        \/ InheritsPairs(stylusHt[id]) /\ \A q \in own : q.vid = WacomVid
    BY <1>1 DEF PairsInv, PairsFrom, InTable
  <2> QED
    BY <2>2, <2>3
<1>11. (\A s \in old \ new : InheritsPairs(stylusHt[id]) /\ IdOf(s.from).vid = NoVid)
  BY <1>8, <1>9, <1>10
<1> HIDE DEF old, new, own
<1>12. new \subseteq old /\ \A s \in old \ new : InheritsPairs(stylusHt[id]) /\ IdOf(s.from).vid = NoVid
  BY <1>7, <1>11
<1> QED
  BY <1>12 DEF old, new

\* What has_eraser says the partners show: each is in the table under the id it was
\* paired by.
LEMMA EraserPairs ==
  ASSUME DbInv, PairsInv, dbPc = "ready", NEW id \in InTable
  PROVE  id \in hasEraser <=> \E p \in pairedStyli[id] : IsEraser(stylusHt[IdOf(p)])
<1> DEFINE there == stylusHt[id].paired \cap InTable
<1>1. id \in StylusId /\ stylusPc = "paired"
  BY DEF InTable, DbInv, Phases
<1>2. pairedStyli[id] = {stylusHt[q].from : q \in there}
  BY <1>1 DEF PairsInv, PairedIs, Partners, InTable
<1>3. id \in hasEraser <=> \E q \in there : IsEraser(stylusHt[q])
  BY <1>1 DEF PairsInv, PairedIs, PairsEraser
<1>4. \A q \in there : IdOf(stylusHt[q].from) = q
  BY IdOfFacts
<1> QED
  BY <1>2, <1>3, <1>4

THEOREM LegacyPairsTheorem == DbSpec => []LegacyPairsResolve
<1>1. DbInv /\ PairsInv => LegacyPairsResolve
  BY LegacyPairs, EraserPairs DEF LegacyPairsResolve
<1> QED
  BY <1>1, PairsInvariance, PTL

\* What is printed of the styli is read again as the same styli.
THEOREM ReadBackTheorem == DbSpec => []StyliReadBack
<1>1. DbInv => StyliReadBack
  <2> SUFFICES ASSUME DbInv PROVE StyliReadBack
    OBVIOUS
  <2> DEFINE printed == {PrintStylus(id) : id \in InTable}
  <2>1. \A id \in InTable : PrintStylus(id).id = id /\ ~IsAlias(PrintStylus(id))
    BY DEF PrintStylus, PrintId, IsAlias
  <2>2. {g.id : g \in printed} = InTable
    BY <2>1
  <2>3. \A id \in InTable : (CHOOSE g \in printed : g.id = id) = PrintStylus(id)
    <3> TAKE id \in InTable
    <3>1. PrintStylus(id) \in printed /\ \A g \in printed : g.id = id => g = PrintStylus(id)
      BY <2>1
    <3> HIDE DEF printed
    <3> QED
      BY <2>1, <3>1
  <2>4. Reread = [id \in {g.id : g \in printed} |->
                    ParsedGroup(<<>>, CHOOSE g \in printed : g.id = id, NoStylus)]
    BY DEF Reread
  <2> HIDE DEF printed
  <2>5. DOMAIN Reread = InTable
    BY <2>2, <2>4
  <2>6. \A id \in InTable : Reread[id] = ParsedGroup(<<>>, PrintStylus(id), NoStylus)
    BY <2>2, <2>3, <2>4
  <2>7. ASSUME NEW id \in InTable
        PROVE  GetType(Reread[id]) = GetType(stylusHt[id]) /\ Reread[id].eraser = stylusHt[id].eraser
    <3> DEFINE g == PrintStylus(id)
    <3>1. stylusHt[id] \in Stylus
      BY DEF InTable, DbInv, StylusInv, StylusTypeOK
    <3>2. g.type = GetType(stylusHt[id]) /\ g.eraser = stylusHt[id].eraser
      BY DEF PrintStylus
    <3>3. g.type \in StylusType \ {"Unknown"} /\ g.eraser \in EraserType
      BY <3>1, <3>2 DEF GetType, Stylus, StylusType
    <3>4. OrFallback(g.type, "Unknown") = g.type /\ OrFallback(g.eraser, "None") = g.eraser
      BY <3>3, UnsetAssumption DEF OrFallback
    <3>5. ~IsAlias(g)
      BY <2>1
    <3> HIDE DEF g
    <3>6. ParsedGroup(<<>>, g, NoStylus) =
            [from |-> <<>>, type |-> OrFallback(g.type, "Unknown"),
             eraser |-> OrFallback(g.eraser, "None"), group |-> g.group,
             paired |-> OrFallback(g.paired, {})]
      BY <3>5 DEF ParsedGroup
    <3>7. Reread[id].type = g.type /\ Reread[id].eraser = g.eraser
      BY <2>6, <3>4, <3>6 DEF g
    <3> QED
      BY <3>2, <3>3, <3>7 DEF GetType
  <2>8. ASSUME dbPc = "ready", NEW m \in MatchString, deviceHt[m] # NoDevice
        PROVE  {PrintId(IdOf(s)) : s \in styli[deviceHt[m]]} \subseteq DOMAIN Reread
    <3>1. deviceHt[m] \in Device /\ styli[deviceHt[m]] \subseteq liveStyli
      BY <2>8 DEF DbInv, DevicesInv, ListsInv, InUse
    <3> QED
      BY <3>1, <2>5, IdOfFacts DEF PrintId
  <2> QED
    BY <2>5, <2>7, <2>8 DEF StyliReadBack
<1> QED
  BY <1>1, DbInvariance, PTL

-----------------------------------------------------------------------------
LEMMA LessOnNat == OpToRel(<, Nat) = {ss \in Nat \X Nat : ss[1] < ss[2]}
BY DEF OpToRel

\* Induction on the natural numbers, for a set.
LEMMA Induction ==
  ASSUME NEW S, 0 \in S, \A n \in Nat : n \in S => n + 1 \in S
  PROVE  Nat \subseteq S
<1> DEFINE T == {n \in Nat : n \notin S}
           R == {ss \in Nat \X Nat : ss[1] < ss[2]}
<1>1. SUFFICES ASSUME T # {} PROVE FALSE
  OBVIOUS
<1>2. IsWellFoundedOn(R, Nat)
  BY NatLessThanWellFounded, LessOnNat
<1>3. T \subseteq Nat
  OBVIOUS
<1> HIDE DEF R
<1>4. PICK k \in T : \A n \in T : ~(<<n, k>> \in R)
  BY ONLY <1>1, <1>2, <1>3, WFMin
<1>5. k \in Nat /\ k \notin S /\ k - 1 \in Nat
  BY <1>4
<1>6. k - 1 \in T
  BY <1>5
<1>7. <<k - 1, k>> \in R
  BY <1>5 DEF R
<1> QED
  BY <1>4, <1>6, <1>7

\* A difference in the range of an int is itself.
LEMMA AsIntFacts ==
  ASSUME NEW n \in Int, -Half < n, n < Half
  PROVE  AsInt(n) = n
<1> USE HalfAssumption
<1>1. CASE n >= 0
  <2>1. n % (2 * Half) = n
    BY <1>1
  <2> QED
    BY <2>1 DEF AsInt
<1>2. CASE n < 0
  <2>1. n % (2 * Half) = n + 2 * Half
    BY <1>2
  <2> QED
    BY <2>1, <1>2 DEF AsInt
<1> QED
  BY <1>1, <1>2

LEMMA BelowFacts ==
  ASSUME NEW a \in StylusId, NEW b \in StylusId
  PROVE  /\ a # b <=> Below(a, b) \/ Below(b, a)
         /\ ~(Below(a, b) /\ Below(b, a)) /\ ~Below(a, a)
         /\ \A c \in StylusId : Below(a, b) /\ Below(b, c) => Below(a, c)
<1>1. \A v \in Vid : v \in Int
  BY HalfAssumption
<1>2. \A t \in Tool : t \in Int
  BY HalfAssumption
<1>3. PICK v \in Vid, t \in Tool : a = [vid |-> v, tool |-> t]
  BY DEF StylusId
<1>4. PICK w \in Vid, u \in Tool : b = [vid |-> w, tool |-> u]
  BY DEF StylusId
<1>5. a # b <=> v # w \/ t # u
  BY <1>3, <1>4
<1>6. v \in Int /\ t \in Int /\ w \in Int /\ u \in Int
  BY <1>1, <1>2
<1>7. \A c \in StylusId : c.vid \in Int /\ c.tool \in Int
  BY <1>1, <1>2 DEF StylusId
<1>8. a.vid = v /\ a.tool = t /\ b.vid = w /\ b.tool = u
  BY <1>3, <1>4
<1> QED
  BY <1>5, <1>6, <1>7, <1>8 DEF Below

\* Where no difference wraps, the comparison of two ids is by vendor and tool.
LEMMA SortFacts ==
  ASSUME NEW S \in SUBSET StylusId, NearIds(S), NEW a \in S, NEW b \in S, a # b
  PROVE  StylusIdSort(a, b) <= 0 <=> Below(a, b)
<1>1. a.vid \in Int /\ a.tool \in Int /\ b.vid \in Int /\ b.tool \in Int
  BY HalfAssumption DEF StylusId
<1>2. Below(a, b) \/ Below(b, a)
  BY BelowFacts
<1>3. CASE a.vid = b.vid
  <2>1. -Half < a.tool - b.tool /\ a.tool - b.tool < Half /\ a.tool - b.tool \in Int
    BY <1>1, <1>3, HalfAssumption DEF NearIds
  <2>2. StylusIdSort(a, b) = a.tool - b.tool
    BY <2>1, <1>3, AsIntFacts DEF StylusIdSort
  <2> QED
    BY <1>1, <1>2, <1>3, <2>2 DEF Below
<1>4. CASE a.vid # b.vid
  <2>1. -Half < a.vid - b.vid /\ a.vid - b.vid < Half /\ a.vid - b.vid \in Int
    BY <1>1, <1>4, HalfAssumption DEF NearIds
  <2>2. StylusIdSort(a, b) = a.vid - b.vid
    BY <2>1, <1>4, AsIntFacts DEF StylusIdSort
  <2> QED
    BY <1>1, <1>2, <1>4, <2>2 DEF Below
<1> QED
  BY <1>3, <1>4

\* The place of an id in the ascending list of a set
UpTo(S, a)  == {b \in S : ~Below(a, b)}
Place(S, a) == Cardinality(UpTo(S, a))

LEMMA PlaceFacts ==
  ASSUME NEW S \in SUBSET StylusId, IsFiniteSet(S), NEW a \in S
  PROVE  /\ Place(S, a) \in 1..Cardinality(S)
         /\ \A b \in S : Below(a, b) => Place(S, a) < Place(S, b)
<1>1. \A c \in S : IsFiniteSet(UpTo(S, c)) /\ Place(S, c) \in Nat /\ Place(S, c) <= Cardinality(S)
  <2> TAKE c \in S
  <2>1. UpTo(S, c) \in SUBSET S
    BY DEF UpTo
  <2> QED
    BY <2>1, FS_Subset, FS_CardinalityType DEF Place
<1>2. a \in UpTo(S, a)
  BY BelowFacts DEF UpTo
<1>3. Place(S, a) # 0
  BY <1>1, <1>2, FS_EmptySet DEF Place
<1>4. ASSUME NEW b \in S, Below(a, b) PROVE Place(S, a) < Place(S, b)
  <2>1. UpTo(S, a) \in SUBSET UpTo(S, b)
    <3> SUFFICES ASSUME NEW c \in S, ~Below(a, c), Below(b, c) PROVE FALSE
      BY DEF UpTo
    <3>1. Below(a, c)
      BY <1>4, BelowFacts
    <3> QED
      BY <3>1
  <2>2. b \in UpTo(S, b) /\ b \notin UpTo(S, a)
    BY <1>4, BelowFacts DEF UpTo
  <2>3. Place(S, a) <= Place(S, b) /\ Place(S, a) # Place(S, b)
    BY <1>1, <2>1, <2>2, FS_Subset DEF Place
  <2> QED
    BY <1>1, <2>3
<1>5. Cardinality(S) \in Nat
  BY FS_CardinalityType
<1> QED
  BY <1>1, <1>3, <1>4, <1>5

\* A finite set of ids has an ascending list.
LEMMA AscendingExists ==
  ASSUME NEW S \in SUBSET StylusId, IsFiniteSet(S)
  PROVE  \E list \in SetToSeqs(S) :
           \A i \in 1..(Cardinality(S) - 1) : Below(list[i], list[i + 1])
<1> DEFINE n == Cardinality(S)
           p == [a \in S |-> Place(S, a)]
           list == [i \in 1..n |-> CHOOSE a \in S : p[a] = i]
<1>1. n \in Nat /\ IsFiniteSet(1..n) /\ Cardinality(1..n) = n
  BY FS_CardinalityType, FS_Interval
<1>2. p \in [S -> 1..n]
  BY PlaceFacts
<1>3. \A a, b \in S : a # b => p[a] # p[b]
  BY PlaceFacts, BelowFacts
<1>4. \A a, b \in S : p[a] < p[b] => Below(a, b)
  BY PlaceFacts, BelowFacts
<1> HIDE DEF n, p
<1>5. p \in Injection(S, 1..n)
  BY <1>2, <1>3 DEF Injection, IsInjective
<1>6. p \in Surjection(S, 1..n)
  BY <1>1, <1>5, FS_Injection DEF n
<1>7. \A i \in 1..n : \E a \in S : p[a] = i
  BY <1>6 DEF Surjection
<1>8. \A i \in 1..n : list[i] \in S /\ p[list[i]] = i
  BY <1>7
<1>9. list \in [1..n -> S]
  BY <1>8
<1> HIDE DEF list
<1>10. list \in SetToSeqs(S)
  BY <1>8, <1>9 DEF SetToSeqs, n
<1>11. \A i \in 1..(n - 1) : Below(list[i], list[i + 1])
  BY <1>1, <1>4, <1>8
<1> QED
  BY <1>10, <1>11 DEF n

\* In an ascending list each id is below all that come after it,
LEMMA AscendingAll ==
  ASSUME NEW S \in SUBSET StylusId, NEW n \in Nat, NEW list \in [1..n -> S],
         \A i \in 1..(n - 1) : Below(list[i], list[i + 1]),
         NEW i \in 1..n, NEW j \in 1..n, i < j
  PROVE  Below(list[i], list[j])
<1> DEFINE T == {k \in Nat : i + k + 1 <= n => Below(list[i], list[i + k + 1])}
<1>1. 0 \in T
  OBVIOUS
<1>2. ASSUME NEW k \in Nat, k \in T PROVE k + 1 \in T
  <2> SUFFICES ASSUME i + k + 2 <= n PROVE Below(list[i], list[i + k + 2])
    OBVIOUS
  <2>1. i + k + 1 \in 1..(n - 1) /\ i + k + 1 + 1 = i + k + 2
    OBVIOUS
  <2>2. Below(list[i], list[i + k + 1]) /\ Below(list[i + k + 1], list[i + k + 2])
    BY <1>2, <2>1
  <2>3. list[i] \in StylusId /\ list[i + k + 1] \in StylusId /\ list[i + k + 2] \in StylusId
    BY <2>1
  <2> QED
    BY <2>2, <2>3, BelowFacts
<1> HIDE DEF T
<1>3. Nat \subseteq T
  BY <1>1, <1>2, Induction
<1>4. j - i - 1 \in T /\ i + (j - i - 1) + 1 = j
  BY <1>3
<1> QED
  BY <1>4 DEF T

\* so it stands at its place in the set, and there is no other such list.
LEMMA AscendingPlace ==
  ASSUME NEW S \in SUBSET StylusId, IsFiniteSet(S), NEW list \in SetToSeqs(S),
         \A i \in 1..(Cardinality(S) - 1) : Below(list[i], list[i + 1]),
         NEW i \in 1..Cardinality(S)
  PROVE  list[i] \in S /\ Place(S, list[i]) = i
<1> DEFINE n == Cardinality(S)
<1>1. n \in Nat /\ IsFiniteSet(1..n) /\ Cardinality(1..n) = n
  BY FS_CardinalityType, FS_Interval
<1>2. list \in [1..n -> S] /\ \A j, k \in 1..n : j # k => list[j] # list[k]
  BY DEF SetToSeqs
<1>3. list \in Surjection(1..n, S)
  <2>1. list \in Injection(1..n, S)
    BY <1>2 DEF Injection, IsInjective
  <2> QED
    BY <1>1, <2>1, FS_Injection
<1>4. \A j, k \in 1..n : j < k => Below(list[j], list[k])
  BY <1>1, <1>2, AscendingAll
<1> HIDE DEF n
<1>5. \A j \in 1..n : j \in 1..i <=> ~Below(list[i], list[j])
  <2> TAKE j \in 1..n
  <2>1. i \in 1..n
    BY DEF n
  <2>2. list[i] \in StylusId /\ list[j] \in StylusId
    BY <1>2, <2>1
  <2>3. j < i => Below(list[j], list[i])
    BY <1>4, <2>1
  <2>4. i < j => Below(list[i], list[j])
    BY <1>4, <2>1
  <2>5. j = i => ~Below(list[i], list[j])
    BY <2>2, BelowFacts
  <2>6. ~(Below(list[i], list[j]) /\ Below(list[j], list[i]))
    BY <2>2, BelowFacts
  <2> QED
    BY <1>1, <2>1, <2>3, <2>4, <2>5, <2>6
<1>6. \A a \in S : \E j \in 1..n : list[j] = a
  BY <1>3 DEF Surjection
<1>7. 1..i \subseteq 1..n /\ i \in Nat /\ i \in 1..n
  BY <1>1 DEF n
<1>8. UpTo(S, list[i]) = {list[j] : j \in 1..i}
  BY <1>2, <1>5, <1>6, <1>7 DEF UpTo
<1> DEFINE first == [j \in 1..i |-> list[j]]
<1>9. first \in Bijection(1..i, UpTo(S, list[i]))
  BY <1>2, <1>7, <1>8 DEF Bijection, Injection, Surjection, IsInjective
<1>10. IsFiniteSet(1..i) /\ Cardinality(1..i) = i
  BY <1>7, FS_Interval
<1>11. Cardinality(UpTo(S, list[i])) = i
  BY <1>9, <1>10, FS_Bijection DEF ExistsBijection
<1> QED
  BY <1>2, <1>7, <1>11 DEF Place

LEMMA SortedFacts ==
  ASSUME NEW S \in SUBSET StylusId, IsFiniteSet(S), NearIds(S)
  PROVE  Cardinality(Sorted(S)) = 1 /\ \A list \in Sorted(S) : Ascending(list)
<1> DEFINE n == Cardinality(S)
<1>1. n \in Nat
  BY FS_CardinalityType
<1>2. SetToSeqs(S) \subseteq [1..n -> S]
  BY DEF SetToSeqs
<1>3. \A list \in SetToSeqs(S) : Len(list) = n
  BY <1>1, <1>2
<1>4. \A list \in SetToSeqs(S) : \A i \in 1..(n - 1) :
        /\ list[i] \in S /\ list[i + 1] \in S
        /\ list[i] # list[i + 1]
  <2> TAKE list \in SetToSeqs(S)
  <2> TAKE i \in 1..(n - 1)
  <2>1. i \in 1..n /\ i + 1 \in 1..n /\ i # i + 1
    BY <1>1
  <2>2. list \in [1..n -> S] /\ \A j, k \in 1..n : j # k => list[j] # list[k]
    BY DEF SetToSeqs
  <2> QED
    BY <2>1, <2>2
<1> DEFINE Asc(list) == \A i \in 1..(n - 1) : Below(list[i], list[i + 1])
<1> HIDE DEF n
<1>5. \A list \in SetToSeqs(S) : list \in Sorted(S) <=> Asc(list)
  BY <1>3, <1>4, SortFacts DEF Sorted
<1>6. PICK list \in SetToSeqs(S) : Asc(list)
  BY AscendingExists DEF n
<1>7. ASSUME NEW other \in SetToSeqs(S), Asc(other) PROVE other = list
  <2>1. \A i \in 1..n : /\ list[i] \in S /\ Place(S, list[i]) = i
                        /\ other[i] \in S /\ Place(S, other[i]) = i
    BY <1>6, <1>7, AscendingPlace DEF n
  <2>2. ASSUME NEW i \in 1..n PROVE other[i] = list[i]
    <3> DEFINE a == list[i]
               b == other[i]
    <3>1. a \in S /\ b \in S /\ Place(S, a) = Place(S, b) /\ Place(S, a) \in Nat
      BY <2>1
    <3> HIDE DEF a, b
    <3>2. ~Below(a, b) /\ ~Below(b, a)
      BY <3>1, PlaceFacts
    <3>3. a = b
      BY <3>1, <3>2, BelowFacts
    <3> QED
      BY <3>3 DEF a, b
  <2>3. list \in [1..n -> S] /\ other \in [1..n -> S]
    BY <1>2
  <2>4. list = [i \in 1..n |-> list[i]] /\ other = [i \in 1..n |-> other[i]]
    BY <2>3
  <2>5. [i \in 1..n |-> list[i]] = [i \in 1..n |-> other[i]]
    BY <2>2
  <2> QED
    BY <2>4, <2>5
<1>8. Sorted(S) \subseteq SetToSeqs(S)
  BY DEF Sorted
<1>9. Sorted(S) = {list}
  BY <1>5, <1>6, <1>7, <1>8
<1>10. Ascending(list)
  BY <1>3, <1>6 DEF Ascending
<1> QED
  BY <1>9, <1>10, FS_Singleton

\* All lists of styli have one order.
THEOREM SortedTheorem == DbSpec => []StyliSorted
<1>1. DbInv => StyliSorted
  <2> SUFFICES ASSUME DbInv, dbPc = "ready" PROVE StyliSorted
    BY DEF StyliSorted
  <2>1. IsFiniteSet(StylusId)
    <3>1. IsFiniteSet(0..(2 * Half - 1))
      BY HalfAssumption, FS_Interval
    <3>2. IsFiniteSet(Vid) /\ IsFiniteSet(Tool)
      BY <3>1, HalfAssumption, FS_Subset
    <3>3. IsFiniteSet(Vid \X Tool)
      BY <3>2, FS_Product
    <3> DEFINE f == [pair \in Vid \X Tool |-> [vid |-> pair[1], tool |-> pair[2]]]
    <3>4. f \in Surjection(Vid \X Tool, StylusId)
      <4>1. \A id \in StylusId : \E pair \in Vid \X Tool : f[pair] = id
        <5> TAKE id \in StylusId
        <5>1. PICK v \in Vid, t \in Tool : id = [vid |-> v, tool |-> t]
          BY DEF StylusId
        <5>2. f[<<v, t>>] = id
          BY <5>1
        <5> QED
          BY <5>2
      <4>2. f \in [Vid \X Tool -> StylusId]
        BY DEF StylusId
      <4> QED
        BY <4>1, <4>2 DEF Surjection
    <3> QED
      BY <3>3, <3>4, FS_Surjection
  <2>2. InTable \in SUBSET StylusId
    BY DEF InTable
  <2>3. ASSUME NEW m \in MatchString, deviceHt[m] # NoDevice
        PROVE  {IdOf(s) : s \in styli[deviceHt[m]]} \in SUBSET StylusId
    <3>1. deviceHt[m] \in Device /\ styli[deviceHt[m]] \subseteq liveStyli
      BY <2>3 DEF DbInv, DevicesInv, ListsInv, InUse
    <3> QED
      BY <3>1, IdOfFacts DEF InTable
  <2>4. \A ids \in SUBSET StylusId : NearIds(ids) =>
          Cardinality(Sorted(ids)) = 1 /\ \A list \in Sorted(ids) : Ascending(list)
    BY <2>1, FS_Subset, SortedFacts
  <2> QED
    BY <2>2, <2>3, <2>4 DEF StyliSorted
<1> QED
  BY <1>1, DbInvariance, PTL
=============================================================================
