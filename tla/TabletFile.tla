----------------------------- MODULE TabletFile -----------------------------
(***************************************************************************)
(* The whole of a .tablet file and of a WacomDevice:                        *)
(* libwacom_parse_tablet_keyfile (libwacom-database.c),                     *)
(* libwacom_print_device_description, libwacom_compare and the getters of   *)
(* libwacom.c, as operators.                                                *)
(*                                                                          *)
(* A file is the record of its keys, the Buttons and Keys groups those of   *)
(* ButtonGroup.  A key that is missing is Null, or what is read for it:     *)
(* 0, FALSE, <<>>; features tells whether there is a Features group.  An    *)
(* item of Styli is an id, with or without a vendor, or a group.            *)
(***************************************************************************)
EXTENDS Matches, ButtonGroup

CONSTANTS
  StylusGroup,   \* the styli of the database: id to group or Null
  Wacom          \* the vendor id of Wacom

ASSUME StylusAssumption ==
  /\ IsFiniteSet(DOMAIN StylusGroup) /\ DOMAIN StylusGroup \subseteq [vid : Int, tool : Int]
  /\ Wacom \in Int

StylusFallback == 1048575
EraserFallback == 1048574

Class == {"Intuos3", "Intuos4", "Intuos5", "Cintiq", "Bamboo", "Graphire", "ISDV4", "Intuos",
          "Intuos2", "PenDisplay", "Remote"}

-----------------------------------------------------------------------------
\* The elements of a list that are in S, in the order of the list
Kept(list, S) == FlattenSeq([i \in DOMAIN list |-> IF list[i] \in S THEN <<list[i]>> ELSE <<>>])

\* libwacom_class_string_to_enum
ClassOf(string) == IF string \in Class THEN string ELSE "Unknown"

\* A size below 20 is in inches.
SizeInMm(n) == IF n \in 1..19 THEN (n * 254 + 5) \div 10 ELSE n

IntegrationFlag == {"Display", "System", "Remote"}
IntegrationOf(f) == IF f.integratedIn = Null THEN Null
                    ELSE Range(f.integratedIn) \cap IntegrationFlag

LayoutOf(f) == IF f.layout \in {Null, Bad} THEN Null ELSE f.layout

PairedOf(f) == IF f.pairedID = Null \/ f.pairedID = Generic \/ ~IsMatchString(f.pairedID) THEN Null
               ELSE MatchFromString(f.pairedID)

\* wacom_stylus_id_sort
StylusBefore(a, b) == IF a.vid = b.vid THEN a.tool < b.tool ELSE a.vid < b.vid

\* g_array_sort: no element is greater than one after it.
Rearranged(list) == {[i \in DOMAIN list |-> list[p[i]]] : p \in Bijection(DOMAIN list, DOMAIN list)}
Ascending(list)  == \A i, j \in DOMAIN list : i < j => ~StylusBefore(list[j], list[i])
Sort(list)       == CHOOSE sorted \in Rearranged(list) : Ascending(sorted)

ParsedStylusId(item) == [vid |-> IF "vid" \in DOMAIN item THEN item.vid ELSE Wacom, tool |-> item.tool]

StyliOfItem(item) ==
  IF "group" \in DOMAIN item
  THEN SetToSeq({id \in DOMAIN StylusGroup : StylusGroup[id] = item.group})
  ELSE Kept(<<ParsedStylusId(item)>>, DOMAIN StylusGroup)

\* The Stylus key asks for the fallback when it is true, and also when it is not there.
FallbackStyli(f) == f.features /\ f.stylus \in {Null, TRUE}

StyliOf(f) ==
  LET items == IF f.styli # Null THEN f.styli
               ELSE IF FallbackStyli(f) THEN <<[vid |-> 0, tool |-> EraserFallback],
                                               [vid |-> 0, tool |-> StylusFallback]>>
               ELSE <<>>
  IN  Sort(FlattenSeq([i \in DOMAIN items |-> StyliOfItem(items[i])]))

FeaturesOf(f) == {x \in {"stylus", "touch", "reversible", "touchSwitch"} : f[x] = TRUE}

ButtonKeys(f) == [vals |-> f.vals, codes |-> f.codes, numModes |-> f.numModes, keys |-> f.keys,
                  small |-> ClassOf(f.class) \in {"Bamboo", "Graphire"}]

FileAborts(f) == Aborts(ButtonKeys(f))

\* A file without a match that can be read has no device.
HasDevice(f) == ParseMatches(f.deviceMatch) # <<>>

Parse(f) ==
  LET g == ButtonKeys(f)
      ms == ParseMatches(f.deviceMatch)
  IN  [name        |-> f.name,
       modelName   |-> f.modelName,
       matches     |-> ms,
       match       |-> Head(ms),
       paired      |-> PairedOf(f),
       width       |-> SizeInMm(f.width),
       height      |-> SizeInMm(f.height),
       integration |-> IntegrationOf(f),
       layout      |-> LayoutOf(f),
       cls         |-> ClassOf(f.class),
       styli       |-> StyliOf(f),
       features    |-> FeaturesOf(f),
       numRings    |-> f.numRings,
       numStrips   |-> f.numStrips,
       numDials    |-> f.numDials,
       statusLEDs  |-> Kept(f.statusLEDs, ModeSwitch),
       buttons     |-> ButtonsOf(g),
       numModes    |-> NumModesOf(g),
       keycodes    |-> KeycodesOf(g),
       numKeycodes |-> KeycodesRead(g)]

-----------------------------------------------------------------------------
\* The getters of libwacom.h
HasStylus(d)    == "stylus" \in d.features
LettersIn(d)    == {l \in Letter : d.buttons[l] # NoButton}
NumButtons(d)   == Cardinality(LettersIn(d))
Flags(d, l)     == IF l \in LettersIn(d) THEN d.buttons[l].flags ELSE {}
EvdevCode(d, l) == IF l \in LettersIn(d) THEN d.buttons[l].code ELSE 0
ModeSwitchMode(d, l) == IF Flags(d, l) \cap ModeSwitch = {} THEN CycleModes ELSE d.buttons[l].mode
LedGroup(d, l)  == SelectInSeq(d.statusLEDs, LAMBDA x : x \in Flags(d, l)) - 1
GetIntegration(d) == IF d.integration = Null THEN {} ELSE d.integration
SizeInInches(mm)  == (mm * 10 + 127) \div 254
GetClass(d) ==
  IF d.cls # "Unknown" THEN d.cls
  ELSE IF d.integration \in {{"Display"}, {"Display", "System"}} THEN "Cintiq"
  ELSE IF d.integration = {"Remote"} THEN "Remote"
  ELSE "Bamboo"
SupportedStyli(d) == Kept(d.styli, {id \in Range(d.styli) : id.vid \in {0, Wacom}})

\* All of what a client can ask of a device, the keys left out
Identity(d) ==
  [name |-> d.name, modelName |-> d.modelName, layout |-> d.layout, matches |-> d.matches,
   match |-> d.match, paired |-> d.paired, size |-> <<d.width, d.height>>,
   inches |-> <<SizeInInches(d.width), SizeInInches(d.height)>>, class |-> GetClass(d)]
Answers(d) ==
  [identity |-> Identity(d),
   features |-> d.features, styli |-> d.styli, supported |-> SupportedStyli(d),
   rings |-> d.numRings, strips |-> d.numStrips, dials |-> d.numDials, modes |-> d.numModes,
   leds |-> d.statusLEDs, integration |-> GetIntegration(d), numButtons |-> NumButtons(d),
   button |-> [l \in Letter |-> <<Flags(d, l), EvdevCode(d, l), ModeSwitchMode(d, l), LedGroup(d, l)>>]]
Keycodes(d) == <<d.numKeycodes, d.keycodes>>

-----------------------------------------------------------------------------
PrintWithoutUniq(m) == IF m.match = Generic THEN Generic
                       ELSE <<m.bus, m.vid, m.pid>> \o PiecesIf(m.name)
PrintMatch(m) == IF m.match = Generic THEN Generic
                 ELSE <<m.bus, m.vid, m.pid>> \o PiecesIf(m.name) \o PiecesIf(m.uniq)

PrintTool(id)     == [tool |-> id.tool]
PrintStylusId(id) == IF id.vid = Wacom THEN [tool |-> id.tool] ELSE [vid |-> id.vid, tool |-> id.tool]

PrintStyli(d) == IF HasStylus(d) THEN [i \in DOMAIN d.styli |-> PrintStylusId(d.styli[i])] ELSE Null

\* A LED without a name is left out.
PrintLeds(d) == Kept(d.statusLEDs, ModeSwitch)

PrintInches(mm) == SizeInInches(mm)
PrintSize(mm)   == mm

PrintIntegration(d) ==
  IF d.integration = Null THEN Null
  ELSE Kept(<<"Display", "System", "Remote">>, d.integration)

\* Buttons are printed from A on, as many as there are; code 0 prints as
\* KEY_RESERVED, which is not the code of a button.
PrintedLetters(d) == 1..NumButtons(d)
PrintVals(d) == [o \in Range(Option) |->
                   Kept([l \in PrintedLetters(d) |-> l], {l \in PrintedLetters(d) : o \in Flags(d, l)})]
PrintCode(code) == IF code = 0 THEN Bad ELSE code

Describe(d) ==
  [name |-> d.name, modelName |-> d.modelName,
   deviceMatch |-> [i \in DOMAIN d.matches |-> PrintMatch(d.matches[i])],
   pairedID |-> IF d.paired = Null THEN Null ELSE PrintMatch(d.paired),
   class |-> d.cls, width |-> PrintSize(d.width), height |-> PrintSize(d.height),
   integratedIn |-> PrintIntegration(d),
   layout |-> d.layout,
   styli |-> PrintStyli(d),
   features |-> TRUE, stylus |-> HasStylus(d), touch |-> "touch" \in d.features,
   reversible |-> "reversible" \in d.features, touchSwitch |-> "touchSwitch" \in d.features,
   numRings |-> d.numRings, numStrips |-> d.numStrips, numDials |-> d.numDials,
   statusLEDs |-> PrintLeds(d),
   vals |-> PrintVals(d),
   codes |-> IF NumButtons(d) = 0 THEN Absent
             ELSE [l \in PrintedLetters(d) |-> PrintCode(EvdevCode(d, l))],
   numModes |-> IF NumButtons(d) = 0 THEN [ft \in Feature |-> 0] ELSE d.numModes,
   keys |-> <<>>]

-----------------------------------------------------------------------------
\* matches_are_equal: those of a are among those of b.
MatchesAmong(a, b) == \A i \in DOMAIN a.matches : \E j \in DOMAIN b.matches :
                         a.matches[i].match = b.matches[j].match

SamePaired(a, b) == IF a.paired = Null \/ b.paired = Null THEN a.paired = b.paired
                    ELSE a.paired.match = b.paired.match

SameIfSet(a, b)       == a.integration # Null => a.integration = b.integration
SameIntegration(a, b) == a.integration = b.integration

\* The default matches have to be equal with the flag WCOMPARE_MATCHES, too.
SameVendor(a, b, compareMatches)  == a.match.vid = b.match.vid
SameMatches(a, b, compareMatches) == /\ compareMatches => MatchesAmong(a, b)
                                     /\ a.match.match = b.match.match

\* libwacom_compare = 0
Same(a, b, compareMatches) ==
  /\ a.name = b.name
  /\ a.width = b.width /\ a.height = b.height
  /\ a.layout = b.layout
  /\ SameIntegration(a, b)
  /\ a.cls = b.cls
  /\ a.numStrips = b.numStrips /\ a.numDials = b.numDials
  /\ a.features = b.features
  /\ a.numModes = b.numModes
  /\ Len(a.styli) = Len(b.styli)
  /\ \A i \in DOMAIN a.styli : a.styli[i].tool = b.styli[i].tool
  /\ a.statusLEDs = b.statusLEDs
  /\ NumButtons(a) = NumButtons(b)
  /\ \A l \in LettersIn(a) : /\ l \in LettersIn(b)
                             /\ Flags(a, l) = Flags(b, l) /\ EvdevCode(a, l) = EvdevCode(b, l)
  /\ SamePaired(a, b)
  /\ SameMatches(a, b, compareMatches)
=============================================================================
