----------------------------- MODULE StylusLoad -----------------------------
(***************************************************************************)
(* The first two passes of database_new_for_paths (libwacom-database.c) and *)
(* libwacom_setup_paired_attributes.  Every .stylus file of every directory *)
(* is parsed twice: the first pass enters the groups without AliasOf in     *)
(* stylus_ht, the second one the aliases, which copy what they do not set   *)
(* from the stylus they name.  A later definition of an id replaces, and    *)
(* frees, an earlier one.  readdir returns the files in an arbitrary order. *)
(*                                                                          *)
(* In a group of a keyfile (KeyGroup) a key that is not there is Unset and  *)
(* an id that parse_stylus_id rejects is Bad.  The keys copied like group   *)
(* (name, lens, wheel, buttons, axes) are left out, and so are paired ids   *)
(* that do not parse.                                                       *)
(* Two groups of a file may have one id: it can be written with or without  *)
(* the vendor.                                                              *)
(***************************************************************************)
EXTENDS DataDirs, Sequences, FiniteSets

CONSTANTS
  StylusFileName, \* the d_names is_stylus_file accepts
  StylusFiles,    \* what a .stylus file may hold: sequences of groups
  Vid, Tool,      \* vendor and tool ids
  WacomVid,       \* WACOM_VENDOR_ID
  GroupName,      \* names of groups of styli
  Unset, Bad, NoStylus

ASSUME WacomAssumption == WacomVid \in Vid

StylusId   == [vid : Vid, tool : Tool]
StylusType == {"Unknown", "General", "Inking", "Airbrush", "Classic", "Marker", "Stroke", "Puck",
               "3D", "Mobile"}
EraserType == {"Unknown", "None", "Invert", "Button"}

\* A group of a keyfile, and the stylus in the table
KeyGroup == [id : StylusId \cup {Bad}, aliasOf : StylusId \cup {Bad, Unset},
             type : StylusType \cup {Unset}, eraser : EraserType \cup {Unset},
             group : GroupName \cup {Unset}, paired : {Unset} \cup SUBSET StylusId]
Stylus   == [from : Dir \X StylusFileName \X (Nat \ {0}), type : StylusType,
             eraser : EraserType, group : GroupName \cup {Unset}, paired : SUBSET StylusId]

ASSUME StylusFilesAssumption == StylusFiles \subseteq Seq(KeyGroup)
ASSUME NoStylusAssumption    == NoStylus \notin Stylus
ASSUME BadAssumption         == Bad \notin StylusId
ASSUME UnsetAssumption       == Unset \notin StylusType \cup EraserType

VARIABLES
  stylusFiles,  \* the groups in each file of each directory, <<>> for no file
  stylusPc,     \* where the loops are
  pass,         \* handle_aliases
  stylusDir,    \* datadir, as an index
  stylusUnread, \* the names readdir has still to return
  stylusFile,   \* the file being parsed
  group,        \* i, the group of it, 1-based
  stylusHt,     \* stylus_ht: id to the stylus, a record whose "from" identifies it
  liveStyli,    \* the styli allocated and not freed
  pairedStyli,  \* the styli each stylus in the table points to
  hasEraser     \* the ids of the styli with has_eraser

stylusDiskVars == <<dirStatus, stylusFiles>>
stylusVars == <<dirStatus, stylusFiles, stylusPc, pass, stylusDir, stylusUnread,
                stylusFile, group, stylusHt, liveStyli, pairedStyli, hasEraser>>

\* A stylus is the group it is parsed from: directory, file name, position.
GroupAt(d, n) == stylusFiles[<<d, n>>]
GroupOf(s)    == GroupAt(s[1], s[2])[s[3]]
Styli         == UNION {{<<d, n, i>> : i \in DOMAIN GroupAt(d, n)} :
                          d \in Dir, n \in StylusFileName}

StylusInit ==
  /\ DirsInit
  /\ stylusFiles \in [Dir \X StylusFileName -> StylusFiles \cup {<<>>}]
  /\ \A d \in Dir, n \in StylusFileName : dirStatus[d] # "ok" => GroupAt(d, n) = <<>>
  /\ stylusPc = "opendir"
  /\ pass = "IGNORE_ALIASES"
  /\ stylusDir = 1
  /\ stylusUnread = {}
  /\ stylusFile = Unset
  /\ group = 1
  /\ stylusHt = [id \in StylusId |-> NoStylus]
  /\ liveStyli = {}
  /\ pairedStyli = [id \in StylusId |-> {}]
  /\ hasEraser = {}

-----------------------------------------------------------------------------
\* eraser_type_from_str and type_from_str of what eraser_str_from_type and
\* str_from_type return: an unknown eraser type becomes none, and the string
\* for a puck is not one that type_from_str knows.
InheritedEraser(t) == IF t = "Unknown" THEN "None" ELSE t
InheritedType(t)   == IF t = "Puck" THEN "Unknown" ELSE t

\* stylus_ids_as_hex drops the vendor, and parse_stylus_id puts Wacom's for it.
InheritedPairs(ids) == {[vid |-> WacomVid, tool |-> id.tool] : id \in ids}

IsAlias(g) == g.aliasOf # Unset

OnePass(g) == g.id # Bad
Handled(g) == /\ g.id # Bad
              /\ IsAlias(g) <=> pass = "ONLY_ALIASES"

\* The stylus a group names in AliasOf, if it is in the table.
Aliased(g) == IF g.aliasOf \in StylusId THEN stylusHt[g.aliasOf] ELSE NoStylus

Ignored(g) == ~Handled(g) \/ (IsAlias(g) /\ Aliased(g) = NoStylus)

OrFallback(key, fallback) == IF key # Unset THEN key ELSE fallback

ParsedGroup(s, g, a) ==
  IF IsAlias(g)
  THEN [from   |-> s,
        type   |-> OrFallback(g.type, InheritedType(a.type)),
        eraser |-> OrFallback(g.eraser, InheritedEraser(a.eraser)),
        group  |-> OrFallback(g.group, a.group),
        paired |-> OrFallback(g.paired, InheritedPairs(a.paired))]
  ELSE [from   |-> s,
        type   |-> OrFallback(g.type, "Unknown"),
        eraser |-> OrFallback(g.eraser, "None"),
        group  |-> g.group,
        paired |-> OrFallback(g.paired, {})]

Parsed(s) == ParsedGroup(s, GroupOf(s), Aliased(GroupOf(s)))

-----------------------------------------------------------------------------
OpenStylusDir ==
  /\ stylusPc = "opendir" /\ stylusDir <= NDirs /\ dirStatus[stylusDir] = "ok"
  /\ stylusUnread' = {n \in StylusFileName : GroupAt(stylusDir, n) # <<>>}
  /\ stylusPc' = "readdir"
  /\ UNCHANGED <<stylusDiskVars, pass, stylusDir, stylusFile, group, stylusHt, liveStyli,
                 pairedStyli, hasEraser>>

MissingStylusDir ==
  /\ stylusPc = "opendir" /\ stylusDir <= NDirs /\ dirStatus[stylusDir] = "missing"
  /\ stylusDir' = stylusDir + 1
  /\ UNCHANGED <<stylusDiskVars, stylusPc, pass, stylusUnread, stylusFile, group, stylusHt,
                 liveStyli, pairedStyli, hasEraser>>

UnreadableStylusDir ==
  /\ stylusPc = "opendir" /\ stylusDir <= NDirs /\ dirStatus[stylusDir] = "unreadable"
  /\ stylusPc' = "failed"
  /\ UNCHANGED <<stylusDiskVars, pass, stylusDir, stylusUnread, stylusFile, group, stylusHt,
                 liveStyli, pairedStyli, hasEraser>>

ReadStylusFile(n) ==
  /\ stylusPc = "readdir" /\ n \in stylusUnread
  /\ stylusUnread' = stylusUnread \ {n}
  /\ stylusFile' = n
  /\ group' = 1
  /\ stylusPc' = "parse"
  /\ UNCHANGED <<stylusDiskVars, pass, stylusDir, stylusHt, liveStyli, pairedStyli, hasEraser>>

CurGroup == <<stylusDir, stylusFile, group>>
MoreGroups == stylusPc = "parse" /\ group <= Len(GroupAt(stylusDir, stylusFile))

SkipGroup ==
  /\ MoreGroups /\ Ignored(GroupOf(CurGroup))
  /\ group' = group + 1
  /\ UNCHANGED <<stylusDiskVars, stylusPc, pass, stylusDir, stylusUnread, stylusFile, stylusHt,
                 liveStyli, pairedStyli, hasEraser>>

ReplacedIsKept(id) == {}

\* g_hash_table_insert destroys the value that had the key.
Replaced(id) == IF stylusHt[id] = NoStylus THEN {} ELSE {stylusHt[id].from}

EnterStylus ==
  /\ MoreGroups /\ ~Ignored(GroupOf(CurGroup))
  /\ LET id == GroupOf(CurGroup).id
     IN  /\ stylusHt' = [stylusHt EXCEPT ![id] = Parsed(CurGroup)]
         /\ liveStyli' = (liveStyli \ Replaced(id)) \cup {CurGroup}
  /\ group' = group + 1
  /\ UNCHANGED <<stylusDiskVars, stylusPc, pass, stylusDir, stylusUnread, stylusFile,
                 pairedStyli, hasEraser>>

EndStylusFile ==
  /\ stylusPc = "parse" /\ ~MoreGroups
  /\ stylusPc' = "readdir"
  /\ UNCHANGED <<stylusDiskVars, pass, stylusDir, stylusUnread, stylusFile, group, stylusHt,
                 liveStyli, pairedStyli, hasEraser>>

CloseStylusDir ==
  /\ stylusPc = "readdir" /\ stylusUnread = {}
  /\ stylusDir' = stylusDir + 1
  /\ stylusPc' = "opendir"
  /\ UNCHANGED <<stylusDiskVars, pass, stylusUnread, stylusFile, group, stylusHt, liveStyli,
                 pairedStyli, hasEraser>>

SecondPass ==
  /\ stylusPc = "opendir" /\ stylusDir > NDirs /\ pass = "IGNORE_ALIASES"
  /\ pass' = "ONLY_ALIASES"
  /\ stylusDir' = 1
  /\ UNCHANGED <<stylusDiskVars, stylusPc, stylusUnread, stylusFile, group, stylusHt, liveStyli,
                 pairedStyli, hasEraser>>

StyliLoaded ==
  /\ stylusPc = "opendir" /\ stylusDir > NDirs /\ pass = "ONLY_ALIASES"
  /\ stylusPc' = "done"
  /\ UNCHANGED <<stylusDiskVars, pass, stylusDir, stylusUnread, stylusFile, group, stylusHt,
                 liveStyli, pairedStyli, hasEraser>>

StylusPassNext ==
  \/ OpenStylusDir \/ MissingStylusDir \/ UnreadableStylusDir
  \/ \E n \in StylusFileName : ReadStylusFile(n)
  \/ SkipGroup \/ EnterStylus \/ EndStylusFile
  \/ CloseStylusDir \/ SecondPass \/ StyliLoaded

InTable == {id \in StylusId : stylusHt[id] # NoStylus}

\* libwacom_stylus_is_eraser
IsEraser(s) == s.eraser # "None"

\* libwacom_setup_paired_attributes: ids that are not in the table are ignored.
\* (The ids become pointers; they are not looked at again.)
Partners(s)    == {stylusHt[id].from : id \in s.paired \cap InTable}
PairsEraser(s) == \E id \in s.paired \cap InTable : IsEraser(stylusHt[id])

SetupPaired ==
  /\ stylusPc = "done"
  /\ pairedStyli' = [id \in StylusId |->
                       IF stylusHt[id] = NoStylus THEN {} ELSE Partners(stylusHt[id])]
  /\ hasEraser' = {id \in InTable : PairsEraser(stylusHt[id])}
  /\ stylusPc' = "paired"
  /\ UNCHANGED <<stylusDiskVars, pass, stylusDir, stylusUnread, stylusFile, group, stylusHt,
                 liveStyli>>

StylusNext == StylusPassNext \/ SetupPaired
StylusSpec == StylusInit /\ [][StylusNext]_stylusVars

-----------------------------------------------------------------------------
\* The styli in memory are exactly those in the table: a definition that is
\* replaced is freed, once, and no entry is left with a freed stylus.
LiveExact ==
  liveStyli = {stylusHt[id].from : id \in {i \in StylusId : stylusHt[i] # NoStylus}}

BaseOf(id) == {s \in Styli : GroupOf(s).id = id /\ ~IsAlias(GroupOf(s))}
AliasesOf(id) == {s \in Styli : LET g == GroupOf(s)
                                IN  /\ g.id = id /\ IsAlias(g)
                                    /\ g.aliasOf \in StylusId /\ BaseOf(g.aliasOf) # {}}

\* Of the definitions of a stylus the last one read stays.
Before(s, t) == s[1] < t[1] \/ (s[1] = t[1] /\ s[2] = t[2] /\ s[3] < t[3])
LastRead(S)  == CHOOSE s \in S : \A t \in S \ {s} : Before(t, s)
Winner(id)   == IF AliasesOf(id) # {} THEN LastRead(AliasesOf(id)) ELSE LastRead(BaseOf(id))
Defined(id)  == BaseOf(id) \cup AliasesOf(id) # {}

\* No id is defined by two files of the last directory to define it, and no
\* alias names an id that is defined by an alias.
Unambiguous ==
  /\ \A id \in StylusId : \A S \in {BaseOf(id), AliasesOf(id)} :
       S # {} => \E s \in S : \A t \in S \ {s} : Before(t, s)
  /\ \A s \in Styli : LET g == GroupOf(s) IN
       IsAlias(g) /\ g.aliasOf \in StylusId =>
         {t \in Styli : GroupOf(t).id = g.aliasOf /\ IsAlias(GroupOf(t))} = {}

\* An alias has the key of its group, or what the stylus it names has.
Inherits(id, key) ==
  LET g == GroupOf(stylusHt[id].from)
  IN  stylusHt[id][key] = OrFallback(g[key], stylusHt[g.aliasOf][key])

\* The table does not depend on the order of readdir, nor on which file or
\* directory an alias and the stylus it names come from: each id has its last
\* definition, an alias before a stylus of its own, and an alias has the keys it
\* does not set from the stylus the finished table has for the id it names (but
\* a puck, an unknown eraser and pairs of other vendors are not passed on).
StyliDetermined ==
  stylusPc \in {"done", "paired"} /\ Unambiguous =>
    \A id \in StylusId :
      LET s == stylusHt[id]
      IN  /\ s # NoStylus <=> Defined(id)
          /\ Defined(id) => s.from = Winner(id)
          /\ Defined(id) /\ IsAlias(GroupOf(s.from)) =>
               LET a == stylusHt[GroupOf(s.from).aliasOf]
               IN  /\ Inherits(id, "group")
                   /\ a.type # "Puck" => Inherits(id, "type")
                   /\ a.eraser # "Unknown" => Inherits(id, "eraser")
                   /\ (\A p \in a.paired : p.vid = WacomVid) => Inherits(id, "paired")
=============================================================================
