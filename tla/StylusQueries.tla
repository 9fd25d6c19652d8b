---------------------------- MODULE StylusQueries ----------------------------
(***************************************************************************)
(* What a caller is told about the styli of a loaded database (libwacom.c): *)
(* the lists of styli of a device and of partners of a stylus, each in two   *)
(* forms, the styli themselves and the older one of tool ids without the     *)
(* vendor, which libwacom_stylus_get_for_id takes; the order of the lists;   *)
(* and libwacom_print_stylus_description.                                    *)
(***************************************************************************)
EXTENDS DatabaseLoad, SequencesExt

CONSTANTS
  NoVid,        \* vendor 0
  Half,         \* an unsigned int is one of 0..(2 * Half - 1)
  GenericTool   \* GENERIC_PEN_WITH_ERASER and the others

ASSUME GenericAssumption == NoVid \in Vid \ {WacomVid} /\ GenericTool \subseteq Tool
ASSUME HalfAssumption    == Half \in Nat \ {0} /\ Vid \cup Tool \subseteq 0..(2 * Half - 1)

IdOf(s)     == GroupOf(s).id
WacomOrNone == {id \in StylusId : id.vid \in {NoVid, WacomVid}}

-----------------------------------------------------------------------------
NoneIsGeneric(tool) == FALSE
IsGeneric(tool)     == tool \in GenericTool

\* libwacom_stylus_get_for_id
ForId(tool) == stylusHt[[vid |-> IF IsGeneric(tool) THEN NoVid ELSE WacomVid, tool |-> tool]]

EveryVendor(ids) == {id.tool : id \in ids}
Legacy(ids)      == {id.tool : id \in ids \cap WacomOrNone}

\* libwacom_get_supported_styli
SupportedStyli(f) == Legacy({IdOf(s) : s \in styli[f]})

\* libwacom_stylus_get_paired_ids: the ids of the file, in the table or not.
PairedIds(id) == Legacy(stylusHt[id].paired)

\* An unsigned difference, returned as an int
AsInt(n) == LET u == n % (2 * Half) IN IF u < Half THEN u ELSE u - 2 * Half

ToolSort(a, b)     == AsInt(a.tool - b.tool)
StylusIdSort(a, b) == AsInt(IF a.vid = b.vid THEN a.tool - b.tool ELSE a.vid - b.vid)

\* g_array_sort and g_list_sort: whatever the order of the hash table was, none of the
\* styli is greater than the next one.
Sorted(ids) == {list \in SetToSeqs(ids) :
                  \A i \in 1..(Len(list) - 1) : StylusIdSort(list[i], list[i + 1]) <= 0}

\* libwacom_stylus_get_type
GetType(s) == IF s.type = "Unknown" THEN "General" ELSE s.type

-----------------------------------------------------------------------------
PrintBareId(id) == [id EXCEPT !.vid = WacomVid]
PrintId(id)     == id

\* The partners are printed as PairedIds, which is not a key that is read; the group and
\* the buttons are not printed.
PrintStylus(id) ==
  [id |-> PrintId(id), aliasOf |-> Unset, type |-> GetType(stylusHt[id]),
   eraser |-> stylusHt[id].eraser, group |-> Unset, paired |-> Unset]

\* The table that is read from a file with what is printed of every stylus.
Reread ==
  LET printed == {PrintStylus(id) : id \in InTable}
  IN  [id \in {g.id : g \in printed} |->
         ParsedGroup(<<>>, CHOOSE g \in printed : g.id = id, NoStylus)]

-----------------------------------------------------------------------------
\* An id of Wacom or without vendor has no vendor if and only if it is a generic one.
Usual(id) == id \in WacomOrNone => (id.vid = NoVid <=> id.tool \in GenericTool)
UsualFiles ==
  \A s \in Styli : LET g == GroupOf(s) IN
    /\ g.id \in StylusId => Usual(g.id)
    /\ g.paired # Unset => \A p \in g.paired : Usual(p)

\* The older list of a device's tool ids, looked up one by one, gives the same styli as
\* libwacom_get_styli but for those of other vendors, whichever way the file of the
\* device names them: by id, or by group.
LegacyStyliResolve ==
  dbPc = "ready" /\ UsualFiles =>
    \A m \in MatchString : deviceHt[m] # NoDevice =>
      {ForId(t) : t \in SupportedStyli(deviceHt[m])}
        = {stylusHt[IdOf(s)] : s \in {x \in styli[deviceHt[m]] : IdOf(x) \in WacomOrNone}}

\* An alias that has no PairedStylusIds of its own gets those of the stylus it names
\* without their vendors (stylus_ids_as_hex), as if they were Wacom's.
InheritsPairs(s) == IsAlias(GroupOf(s.from)) /\ GroupOf(s.from).paired = Unset

\* A stylus that has an eraser finds it among its partners, and only then.  The older
\* list of partners, looked up, gives the partners but for those of other vendors, and
\* never a stylus that only shares the tool id of one.  An alias that inherits is told
\* by the older list of generic partners it does not have.
LegacyPairsResolve ==
  dbPc = "ready" =>
    \A id \in InTable :
      LET old == {ForId(t) : t \in PairedIds(id)} \ {NoStylus}
          new == {stylusHt[IdOf(p)] : p \in {x \in pairedStyli[id] : IdOf(x) \in WacomOrNone}}
      IN  /\ id \in hasEraser <=> \E p \in pairedStyli[id] : IsEraser(stylusHt[IdOf(p)])
          /\ UsualFiles =>
               /\ new \subseteq old
               /\ \A s \in old \ new : InheritsPairs(stylusHt[id]) /\ IdOf(s.from).vid = NoVid

\* The styli that are printed are read again as the same ones, with the type and the
\* eraser a caller is told of, and a tablet that is printed with the ids of its styli
\* finds all of them, groups or not.
StyliReadBack ==
  dbPc = "ready" =>
    /\ DOMAIN Reread = InTable
    /\ \A id \in InTable : /\ GetType(Reread[id]) = GetType(stylusHt[id])
                           /\ Reread[id].eraser = stylusHt[id].eraser
    /\ \A m \in MatchString : deviceHt[m] # NoDevice =>
         {PrintId(IdOf(s)) : s \in styli[deviceHt[m]]} \subseteq DOMAIN Reread

\* Vendors, and tools of one vendor, are less than half the range of an int apart: so are
\* all ids but those that a file writes as negative numbers, which parse_stylus_id takes.
NearIds(ids) == \A a, b \in ids : /\ a.vid - b.vid < Half
                                  /\ a.vid = b.vid => a.tool - b.tool < Half

Below(a, b)     == a.vid < b.vid \/ (a.vid = b.vid /\ a.tool < b.tool)
Ascending(list) == \A i \in 1..(Len(list) - 1) : Below(list[i], list[i + 1])

\* The list of all styli (libwacom.h, libwacom_list_styli_from_database: sorted by vendor
\* ID and tool ID) and those of the tablets have one order, which is that, unless the
\* difference of two ids wraps.
StyliSorted ==
  dbPc = "ready" =>
    \A ids \in {InTable} \cup {{IdOf(s) : s \in styli[deviceHt[m]]} :
                               m \in {n \in MatchString : deviceHt[n] # NoDevice}} :
      NearIds(ids) => Cardinality(Sorted(ids)) = 1 /\ \A list \in Sorted(ids) : Ascending(list)
=============================================================================
