------------------------------- MODULE Buttons -------------------------------
(***************************************************************************)
(* libwacom_parse_buttons and libwacom_parse_keys (libwacom-database.c):    *)
(* the keys of the Buttons group of a .tablet file create the buttons and   *)
(* their mode switches, then all buttons get evdev codes, from EvdevCodes   *)
(* or by heuristics, then the modes of each feature are counted, then the   *)
(* KeyCodes of the Keys group are read.                                     *)
(*                                                                          *)
(* The data is that of ButtonGroup, which also says what the loops compute.  *)
(***************************************************************************)
EXTENDS ButtonGroup

CONSTANT ButtonFile  \* what a file may hold

ASSUME ButtonFileAssumption ==
  \A f \in ButtonFile :
    /\ \A o \in Range(Option) : f.vals[o] \in Seq({Bad} \cup Letter)
    /\ f.codes = Absent \/ f.codes \in Seq({Bad} \cup Nat)
    /\ f.keys \in Seq({Bad} \cup Nat)

VARIABLES
  file,      \* the file parsed
  pc,
  option,    \* position in Option
  val,       \* position in the values of the key
  mode,      \* the mode the next button gets
  buttons,   \* buttons: letter to [flags, mode, code]
  numModes,  \* the number of modes of each feature
  keycodes,  \* keycodes, 0 for none
  numKeycodes
buttonVars == <<file, pc, option, val, mode, buttons, numModes, keycodes, numKeycodes>>

ButtonInit ==
  /\ file \in ButtonFile
  /\ pc = "option"
  /\ option = 1
  /\ val = 1
  /\ mode = CycleModes
  /\ buttons = [l \in Letter |-> NoButton]
  /\ numModes = [f \in Feature |-> 0]
  /\ keycodes = [k \in 1..MaxKeycodes |-> 0]
  /\ numKeycodes = 0

Named      == {l \in Letter : buttons[l] # NoButton}
Vals       == file.vals[Option[option]]
HasFlag(l, o) == l \in Named /\ o \in buttons[l].flags

-----------------------------------------------------------------------------
\* libwacom_parse_buttons_key: one button cycles, several switch directly.
StartOption ==
  /\ pc = "option" /\ option <= Len(Option)
  /\ mode' = IF Len(Vals) > 1 THEN 0 ELSE CycleModes
  /\ val' = 1
  /\ pc' = "value"
  /\ UNCHANGED <<file, option, buttons, numModes, keycodes, numKeycodes>>

IgnoreValue ==
  /\ pc = "value" /\ val <= Len(Vals) /\ Vals[val] = Bad
  /\ val' = val + 1
  /\ UNCHANGED <<file, pc, option, mode, buttons, numModes, keycodes, numKeycodes>>

SameMode(m) == m
NextMode(m) == m + 1

BindButton ==
  /\ pc = "value" /\ val <= Len(Vals) /\ Vals[val] # Bad
  /\ LET l  == Vals[val]
         o  == Option[option]
         b  == IF l \in Named THEN buttons[l]
               ELSE [flags |-> {}, mode |-> CycleModes, code |-> 0]
         b2 == [b EXCEPT !.flags = @ \cup {o}]
     IN  IF o \in ModeSwitch
         THEN /\ buttons' = [buttons EXCEPT ![l] = [b2 EXCEPT !.mode = mode]]
              /\ mode' = NextMode(mode)
         ELSE /\ buttons' = [buttons EXCEPT ![l] = b2]
              /\ UNCHANGED mode
  /\ val' = val + 1
  /\ UNCHANGED <<file, pc, option, numModes, keycodes, numKeycodes>>

EndOption ==
  /\ pc = "value" /\ val > Len(Vals)
  /\ option' = option + 1
  /\ pc' = "option"
  /\ UNCHANGED <<file, val, mode, buttons, numModes, keycodes, numKeycodes>>

AllOptions ==
  /\ pc = "option" /\ option > Len(Option)
  /\ val' = 1
  /\ pc' = IF file.codes = Absent THEN "heuristics" ELSE "codes"
  /\ UNCHANGED <<file, option, mode, buttons, numModes, keycodes, numKeycodes>>

-----------------------------------------------------------------------------
\* set_button_codes_from_string: as many buttons as there are, from A on
MoreButtons == pc = "codes" /\ val <= Cardinality(Named)
HasCode     == val \in Named /\ val <= Len(file.codes)

\* g_error ends the process.
AbortCodes ==
  /\ MoreButtons /\ ~HasCode
  /\ pc' = "aborted"
  /\ UNCHANGED <<file, option, val, mode, buttons, numModes, keycodes, numKeycodes>>

KeepCodes ==
  /\ MoreButtons /\ HasCode /\ file.codes[val] = Bad
  /\ pc' = "modes"
  /\ UNCHANGED <<file, option, val, mode, buttons, numModes, keycodes, numKeycodes>>

ResetCodes ==
  /\ MoreButtons /\ HasCode /\ file.codes[val] = Bad
  /\ buttons' = [l \in Letter |-> IF l \in Named THEN [buttons[l] EXCEPT !.code = 0] ELSE NoButton]
  /\ pc' = "heuristics"
  /\ UNCHANGED <<file, option, val, mode, numModes, keycodes, numKeycodes>>

SetCode ==
  /\ MoreButtons /\ HasCode /\ file.codes[val] # Bad
  /\ buttons' = [buttons EXCEPT ![val].code = file.codes[val]]
  /\ val' = val + 1
  /\ UNCHANGED <<file, pc, option, mode, numModes, keycodes, numKeycodes>>

AllCodes ==
  /\ pc = "codes" /\ ~MoreButtons
  /\ pc' = "modes"
  /\ UNCHANGED <<file, option, val, mode, buttons, numModes, keycodes, numKeycodes>>

SetHeuristicCodes ==
  /\ pc = "heuristics"
  /\ buttons' = [l \in Letter |->
                   IF l \in Named THEN [buttons[l] EXCEPT !.code = HeuristicCode(file.small, l)]
                   ELSE NoButton]
  /\ pc' = "modes"
  /\ UNCHANGED <<file, option, val, mode, numModes, keycodes, numKeycodes>>

-----------------------------------------------------------------------------
\* libwacom_parse_num_modes: a positive number in the file, or else the buttons
\* that switch the feature are added to it.
NumModes(f) == IF file.numModes[f] > 0 THEN file.numModes[f]
               ELSE file.numModes[f] + Cardinality({l \in Named : HasFlag(l, f)})

CountModes ==
  /\ pc = "modes"
  /\ numModes' = [f \in Feature |-> NumModes(f)]
  /\ val' = 1
  /\ pc' = "keys"
  /\ UNCHANGED <<file, option, mode, buttons, keycodes, numKeycodes>>

\* set_key_codes_from_string
MoreKeys == pc = "keys" /\ val <= Len(file.keys)
GoodKey  == val <= MaxKeycodes /\ file.keys[val] # Bad

SetKeycode ==
  /\ MoreKeys /\ GoodKey
  /\ keycodes' = [keycodes EXCEPT ![val] = file.keys[val]]
  /\ numKeycodes' = val
  /\ val' = val + 1
  /\ UNCHANGED <<file, pc, option, mode, buttons, numModes>>

KeepKeycodes ==
  /\ MoreKeys /\ ~GoodKey
  /\ pc' = "done"
  /\ UNCHANGED <<file, option, val, mode, buttons, numModes, keycodes, numKeycodes>>

\* The array is cleared, the number of keycodes is not.
ClearKeycodes ==
  /\ MoreKeys /\ ~GoodKey
  /\ keycodes' = [k \in 1..MaxKeycodes |-> 0]
  /\ pc' = "done"
  /\ UNCHANGED <<file, option, val, mode, buttons, numModes, numKeycodes>>

AllKeys ==
  /\ pc = "keys" /\ ~MoreKeys
  /\ pc' = "done"
  /\ UNCHANGED <<file, option, val, mode, buttons, numModes, keycodes, numKeycodes>>

ButtonNext ==
  \/ StartOption \/ IgnoreValue \/ BindButton \/ EndOption \/ AllOptions
  \/ AbortCodes \/ ResetCodes \/ SetCode \/ AllCodes \/ SetHeuristicCodes
  \/ CountModes \/ SetKeycode \/ ClearKeycodes \/ AllKeys

ButtonSpec == ButtonInit /\ [][ButtonNext]_buttonVars

-----------------------------------------------------------------------------
\* The evdev codes of the buttons are all from EvdevCodes or all by heuristics:
\* a code that is rejected after others were taken leaves none of them.
CodesAllOrNothing ==
  pc \in {"modes", "keys", "done"} =>
    \/ file.codes # Absent /\ \A l \in Named : buttons[l].code = file.codes[l]
    \/ \A l \in Named : buttons[l].code = HeuristicCode(file.small, l)

\* The values of the key are different buttons that no other mode switch has.
OwnButtons(f) ==
  LET v == file.vals[f]
  IN  /\ \A i, j \in DOMAIN v : v[i] = v[j] => i = j \/ v[i] = Bad
      /\ \A l \in Named : HasFlag(l, f) => buttons[l].flags \cap ModeSwitch = {f}

\* The buttons that switch the modes of one feature directly switch to different
\* modes, each one of the modes counted for the feature unless the file gives a
\* number of them.
ModesDistinct ==
  pc = "done" =>
    \A f \in Feature : OwnButtons(f) /\ Len(file.vals[f]) > 1 =>
      \A l \in Named : HasFlag(l, f) =>
        /\ buttons[l].mode >= 0
        /\ file.numModes[f] = 0 => buttons[l].mode < numModes[f]
        /\ \A k \in Named \ {l} : HasFlag(k, f) => buttons[k].mode # buttons[l].mode

\* The loops compute what the groups stand for: each button has the flags of all
\* options that name it, the mode the last of them gives it and its code, each feature
\* its number of modes, the keys all of their codes or none.  A list of codes that is
\* not used stands for the heuristics.  One that lacks a code for a button, or a button
\* for a code, may end the process (the code) or be ignored (wacom.example); no other
\* may end it.  How many keys a rejected list leaves is for RejectedKeysIgnored.
GroupsRead ==
  /\ pc = "done" =>
       /\ buttons = ButtonsOf(file)
       /\ numModes = NumModesOf(file)
       /\ keycodes = KeycodesOf(file)
       /\ KeycodesRead(file) = Len(file.keys) => numKeycodes = Len(file.keys)
  /\ pc = "aborted" => Aborts(file)

\* When KeyCodes is rejected all codes are ignored: the tablet has no keys
\* (the warnings of set_key_codes_from_string).
RejectedKeysIgnored ==
  pc = "done" /\ (Len(file.keys) > MaxKeycodes \/ \E k \in DOMAIN file.keys : file.keys[k] = Bad)
    => numKeycodes = 0
=============================================================================
