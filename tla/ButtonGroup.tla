---------------------------- MODULE ButtonGroup ----------------------------
(***************************************************************************)
(* What the Buttons and Keys groups of a .tablet file stand for: the buttons *)
(* and codes libwacom_parse_buttons and libwacom_parse_keys have to end up   *)
(* with, as a function of the file.  Buttons has the loops that compute it.  *)
(*                                                                          *)
(* Buttons are numbered, 1 for A; a value that is not one of A to Z, and a  *)
(* code that does not parse or is out of range, is Bad.  A group f is        *)
(*   vals      the values of each option, <<>> for a key that is missing    *)
(*   codes     EvdevCodes                                                    *)
(*   numModes  the ...NumModes keys, 0 for one that is missing               *)
(*   small     class Bamboo or Graphire                                      *)
(*   keys      KeyCodes                                                      *)
(***************************************************************************)
EXTENDS Integers, Sequences, SequencesExt, FiniteSets

CONSTANTS
  Letter,       \* the buttons a file may name: 1..n
  MaxKeycodes,  \* length of the keycodes array
  Bad, Absent, NoButton

ASSUME KeycodesAssumption == MaxKeycodes \in Nat
ASSUME LetterAssumption == Letter \subseteq 1..26 /\ Bad \notin Letter

\* The order of the table options
Option == <<"Left", "Right", "Top", "Bottom", "Ring", "Ring2", "Strip", "Strip2",
            "OLEDs", "Dial", "Dial2">>
ModeSwitch == {"Ring", "Ring2", "Strip", "Strip2", "Dial", "Dial2"}

\* The features whose modes are counted; Strip has the count of both strips.
Feature == ModeSwitch \ {"Strip2"}

CycleModes == -1  \* WACOM_MODE_SWITCH_NEXT

Button == [flags : SUBSET Range(Option), mode : Int, code : Int]
ASSUME NoButtonAssumption == NoButton \notin Button

\* BTN_LEFT, BTN_RIGHT, BTN_FORWARD and BTN_BACK for the classes Bamboo and
\* Graphire, BTN_0 to BTN_BASE2 for the others, nothing for the rest.
HeuristicCode(small, l) ==
  IF small THEN (IF l <= 4 THEN 100 + l ELSE 0)
  ELSE IF l <= 18 THEN 200 + l ELSE 0

-----------------------------------------------------------------------------
NamedBy(f, l)  == {o \in Range(Option) : l \in Range(f.vals[o])}
LettersOf(f)   == {l \in Letter : NamedBy(f, l) # {}}

\* The last option to switch modes with the button decides on its mode.
ModeOf(f, l) ==
  LET o == SelectLastInSeq(Option, LAMBDA p : p \in NamedBy(f, l) \cap ModeSwitch)
      v == f.vals[Option[o]]
  IN  IF o = 0 \/ Len(v) = 1 THEN CycleModes
      ELSE Cardinality({j \in 1..(SelectLastInSeq(v, LAMBDA x : x = l) - 1) : v[j] # Bad})

\* EvdevCodes is for the buttons from A on, as many as there are: its first
\* problem decides whether g_error is called or the list is rejected; either way the
\* list is not what the codes come from.
NoCodeFor(f, i) == i \notin LettersOf(f) \/ i > Len(f.codes)
CodeProblem(f)  == IF f.codes = Absent THEN 0
                   ELSE SelectInSeq([i \in 1..Cardinality(LettersOf(f)) |-> i],
                                    LAMBDA i : NoCodeFor(f, i) \/ f.codes[i] = Bad)
Aborts(f)       == CodeProblem(f) # 0 /\ NoCodeFor(f, CodeProblem(f))

CodeOf(f, l) == IF f.codes = Absent \/ CodeProblem(f) # 0 THEN HeuristicCode(f.small, l)
                ELSE f.codes[l]

ButtonsOf(f) ==
  [l \in Letter |-> IF l \in LettersOf(f)
                    THEN [flags |-> NamedBy(f, l), mode |-> ModeOf(f, l), code |-> CodeOf(f, l)]
                    ELSE NoButton]

NumModesOf(f) ==
  [ft \in Feature |-> IF f.numModes[ft] > 0 THEN f.numModes[ft]
                      ELSE f.numModes[ft] + Cardinality({l \in LettersOf(f) : ft \in NamedBy(f, l)})]

\* A rejected KeyCodes list leaves the number of the codes before the bad one.
BadKey(f)       == SelectInSeq(f.keys, LAMBDA k : k = Bad)
KeycodesRead(f) == LET n == IF BadKey(f) = 0 THEN Len(f.keys) ELSE BadKey(f) - 1
                   IN  IF n <= MaxKeycodes THEN n ELSE MaxKeycodes
KeycodesOf(f)   ==
  [k \in 1..MaxKeycodes |->
     IF k <= Len(f.keys) /\ KeycodesRead(f) = Len(f.keys) THEN f.keys[k] ELSE 0]
=============================================================================
