---------------------------- MODULE DatabaseLoad ----------------------------
(***************************************************************************)
(* database_new_for_paths and libwacom_database_unref                       *)
(* (libwacom-database.c): the two passes over the .stylus files, the pass   *)
(* over the .tablet files, the pairing of the styli, and the release of     *)
(* everything, when loading fails or when the last reference is dropped.    *)
(*                                                                          *)
(* StylusLoad and TabletLoad do the passes.  This module adds what relates  *)
(* them: a device points to styli in the table (libwacom_parse_styli_list)  *)
(* and holds no reference to them.                                          *)
(***************************************************************************)
EXTENDS StylusLoad, TabletLoad

CONSTANT StyliLists  \* what a file may have under Styli: sets of ids and groups

ASSUME StyliListsAssumption == \A list \in StyliLists : Unset \notin list

VARIABLES
  dbPc,       \* "loading", "ready", "releasing" or "released"
  styliLists, \* Styli of each .tablet file
  styli       \* the styli each device points to

dbVars == <<stylusFiles, stylusPc, pass, stylusDir, stylusUnread, stylusFile, group, stylusHt,
            liveStyli, pairedStyli, hasEraser, tabletVars, dbPc, styliLists, styli>>
stylusRest == <<stylusFiles, stylusPc, pass, stylusDir, stylusUnread, stylusFile, group,
                stylusHt, liveStyli, pairedStyli, hasEraser>>
tabletRest == <<files, matches, tabletPc, tabletDir, unread, parsedFilenames, deviceHt, cur,
                idx, refcnt>>

DbInit ==
  /\ StylusInit /\ TabletInit
  /\ dbPc = "loading"
  /\ styliLists \in [Device -> StyliLists]
  /\ \A f \in Device : matches[f] = <<>> => styliLists[f] = {}
  /\ styli = [f \in Device |-> {}]

AfterBaseStyli == pass = "ONLY_ALIASES"
StyliFirst     == stylusPc = "done"

EnteredStyli == {stylusHt[id] : id \in {i \in StylusId : stylusHt[i] # NoStylus}}

\* Ids are looked up in the table, an @group stands for all its styli.
ParseStyliList(f) ==
  styli' = [styli EXCEPT ![f] =
    {s.from : s \in {t \in EnteredStyli :
       \/ \E id \in styliLists[f] \cap StylusId : stylusHt[id] = t
       \/ t.group # Unset /\ t.group \in styliLists[f]}}]

LoadStyli ==
  /\ dbPc = "loading"
  /\ StylusPassNext
  /\ UNCHANGED <<tabletRest, dbPc, styliLists, styli>>

LoadTablets ==
  /\ dbPc = "loading" /\ StyliFirst
  /\ \/ TabletStep /\ UNCHANGED styli
     \/ \E n \in FileName : ParseTablet(n) /\ ParseStyliList(<<tabletDir, n>>)
  /\ UNCHANGED <<stylusRest, dbPc, styliLists>>

NothingLoaded == EnteredStyli = {} \/ \A m \in MatchString : deviceHt[m] = NoDevice

FinishLoad ==
  /\ dbPc = "loading" /\ tabletPc = "done" /\ ~NothingLoaded
  /\ SetupPaired
  /\ dbPc' = "ready"
  /\ UNCHANGED <<tabletRest, styliLists, styli>>

FailLoad ==
  /\ dbPc = "loading"
  /\ \/ stylusPc = "failed" \/ tabletPc = "failed"
     \/ tabletPc = "done" /\ NothingLoaded
  /\ dbPc' = "releasing"
  /\ UNCHANGED <<stylusRest, tabletVars, styliLists, styli>>

\* libwacom_database_unref drops the last reference.
Unref ==
  /\ dbPc = "ready"
  /\ dbPc' = "releasing"
  /\ UNCHANGED <<stylusRest, tabletVars, styliLists, styli>>

UnrefEachDeviceOnce == [f \in Device |-> IF EntriesOf(f) = {} THEN refcnt[f] ELSE refcnt[f] - 1]

\* libwacom_destroy is called on the value of each entry of device_ht.
UnrefEachEntry == [f \in Device |-> refcnt[f] - Cardinality(EntriesOf(f))]

DestroyDeviceHt ==
  /\ dbPc = "releasing"
  /\ \E m \in MatchString : deviceHt[m] # NoDevice
  /\ refcnt' = UnrefEachEntry
  /\ deviceHt' = [m \in MatchString |-> NoDevice]
  /\ UNCHANGED <<stylusRest, dirStatus, files, matches, tabletPc, tabletDir, unread,
                 parsedFilenames, cur, idx, dbPc, styliLists, styli>>

DestroyStylusHt ==
  /\ dbPc = "releasing"
  /\ \A m \in MatchString : deviceHt[m] = NoDevice
  /\ liveStyli' = liveStyli \ {s.from : s \in EnteredStyli}
  /\ stylusHt' = [id \in StylusId |-> NoStylus]
  /\ dbPc' = "released" /\ stylusPc' = "released"
  /\ UNCHANGED <<stylusFiles, pass, stylusDir, stylusUnread, stylusFile, group,
                 pairedStyli, hasEraser, tabletVars, styliLists, styli>>

DbNext ==
  \/ LoadStyli \/ LoadTablets \/ FinishLoad \/ FailLoad
  \/ Unref \/ DestroyDeviceHt \/ DestroyStylusHt

DbSpec == DbInit /\ [][DbNext]_dbVars

-----------------------------------------------------------------------------
Reachable(f) == f = cur \/ EntriesOf(f) # {}

\* A device that can be reached through the table, or is being entered, is in
\* memory and so are the styli it points to, though it holds no reference to
\* them; a stylus of the table points to styli in memory.
NoDangling ==
  /\ \A f \in Device : Reachable(f) => refcnt[f] > 0
  /\ dbPc \in {"loading", "ready"} =>
       /\ \A f \in Device : Reachable(f) => styli[f] \subseteq liveStyli
       /\ \A id \in StylusId : pairedStyli[id] \subseteq liveStyli

\* The styli a device got when its file was parsed are those the finished table
\* has for the ids and the groups of its file.
StyliCurrent ==
  dbPc = "ready" =>
    \A m \in MatchString :
      deviceHt[m] # NoDevice =>
        \A id \in StylusId :
          LET s == stylusHt[id]
          IN  s # NoStylus =>
                (s.from \in styli[deviceHt[m]]
                   <=> styliLists[deviceHt[m]] \cap {id, s.group} # {})

\* When the database is gone every stylus and every device is freed, but for
\* the device whose duplicate match stopped the load.
ReleasedExact ==
  dbPc = "released" =>
    liveStyli = {} /\ \A f \in Device : refcnt[f] = IF f = cur THEN 1 ELSE 0

\* All memory used by the database is released with its last reference
\* (libwacom.h, libwacom_database_unref).
AllReleased ==
  dbPc = "released" => liveStyli = {} /\ \A f \in Device : refcnt[f] = 0
=============================================================================
