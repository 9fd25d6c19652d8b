--------------------------- MODULE ButtonsProofs ---------------------------
(***************************************************************************)
(* Theorems about Buttons, for any files: lists of values and of codes of   *)
(* any length, any letters, any number of key codes.                        *)
(***************************************************************************)
EXTENDS Buttons, FiniteSetTheorems, TLAPS

\* The shape of the state
ButtonTypeOK ==
  /\ file \in ButtonFile
  /\ option \in 1..(Len(Option) + 1)
  /\ pc = "value" => option <= Len(Option)
  /\ pc \notin {"option", "value"} => option = Len(Option) + 1
  /\ val \in Nat \ {0}
  /\ mode \in Int
  /\ buttons \in [Letter -> Button \cup {NoButton}]

\* The codes assigned are those of the list; before the end of the list they are
\* those of the first buttons.
CodesSoFar ==
  /\ pc = "codes" => /\ file.codes # Absent
                     /\ \A i \in 1..(val - 1) : i \in Named /\ buttons[i].code = file.codes[i]
  /\ CodesAllOrNothing

\* The flags are those of the values read so far.
ReadSoFar(p, i) == p < option \/ (p = option /\ pc = "value" /\ i < val)
FlagsSet ==
  \A p \in DOMAIN Option : \A i \in DOMAIN file.vals[Option[p]] :
    ReadSoFar(p, i) /\ file.vals[Option[p]][i] # Bad
      => HasFlag(file.vals[Option[p]][i], Option[p])

\* The mode for the next button is the number of buttons before it in the key.
Rank(v, i) == Cardinality({j \in 1..(i - 1) : v[j] # Bad})
Switches(f) == f \in ModeSwitch /\ Len(file.vals[f]) > 1
ModeCounts == pc = "value" /\ Switches(Option[option]) => mode = Rank(Vals, val)

\* A button of one mode switch has the rank of one of its places in the key.
RankedIn(l, f) ==
  \E j \in DOMAIN file.vals[f] : file.vals[f][j] = l /\ buttons[l].mode = Rank(file.vals[f], j)
ModeRanked ==
  \A l \in Named : \A f \in ModeSwitch :
    Switches(f) /\ buttons[l].flags \cap ModeSwitch = {f} => RankedIn(l, f)

ModesCounted == pc \in {"keys", "done"} => numModes = [f \in Feature |-> NumModes(f)]

\* The inductive invariant
ButtonInv ==
  ButtonTypeOK /\ CodesSoFar /\ FlagsSet /\ ModeCounts /\ ModeRanked /\ ModesCounted

-----------------------------------------------------------------------------
\* The table of options: eleven of them, and all mode switches are.
LEMMA OptionFacts ==
  /\ Len(Option) = 11
  /\ DOMAIN Option = 1..11
  /\ \A p \in 1..11 : Option[p] \in Range(Option)
  /\ \A f \in ModeSwitch : \E p \in 1..11 : Option[p] = f
<1>1. Len(Option) = 11 /\ DOMAIN Option = 1..11
  BY DEF Option
<1>2. \A p \in 1..11 : Option[p] \in Range(Option)
  BY <1>1 DEF Range
<1>3. Option[5] = "Ring" /\ Option[6] = "Ring2" /\ Option[7] = "Strip"
      /\ Option[8] = "Strip2" /\ Option[10] = "Dial" /\ Option[11] = "Dial2"
  BY DEF Option
<1>4. \A f \in ModeSwitch : \E p \in 1..11 : Option[p] = f
  <2> SUFFICES ASSUME NEW f \in ModeSwitch PROVE \E p \in 1..11 : Option[p] = f
    OBVIOUS
  <2>1. f = Option[5] \/ f = Option[6] \/ f = Option[7] \/ f = Option[8]
        \/ f = Option[10] \/ f = Option[11]
    BY <1>3 DEF ModeSwitch
  <2>2. 5 \in 1..11 /\ 6 \in 1..11 /\ 7 \in 1..11 /\ 8 \in 1..11 /\ 10 \in 1..11 /\ 11 \in 1..11
    OBVIOUS
  <2> QED
    BY <2>1, <2>2
<1> QED
  BY <1>1, <1>2, <1>4

\* The values of an option are letters and bad values.
LEMMA ValuesFacts ==
  ASSUME file \in ButtonFile, NEW f \in Range(Option)
  PROVE  file.vals[f] \in Seq({Bad} \cup Letter)
BY ButtonFileAssumption

\* The values being read
LEMMA ValsFacts ==
  ASSUME ButtonTypeOK, option <= Len(Option)
  PROVE  /\ option \in DOMAIN Option
         /\ Option[option] \in Range(Option)
         /\ Vals \in Seq({Bad} \cup Letter)
<1>1. option \in 1..11 /\ option \in DOMAIN Option /\ Option[option] \in Range(Option)
  BY OptionFacts DEF ButtonTypeOK
<1>2. Vals \in Seq({Bad} \cup Letter)
  BY <1>1, ValuesFacts DEF Vals, ButtonTypeOK
<1> QED
  BY <1>1, <1>2

\* There are finitely many buttons.
LEMMA NamedFacts ==
  ASSUME ButtonTypeOK
  PROVE  /\ Named \subseteq Letter
         /\ IsFiniteSet(Named)
         /\ Cardinality(Named) \in Nat
         /\ \A l \in Named : buttons[l] \in Button
<1>1. Named \subseteq Letter /\ Named \subseteq 1..26
  BY LetterAssumption DEF Named
<1>2. IsFiniteSet(1..26)
  <2>1. 1 \in Int /\ 26 \in Int
    OBVIOUS
  <2> QED
    BY <2>1, FS_Interval
<1>3. IsFiniteSet(Named)
  BY <1>1, <1>2, FS_Subset
<1>4. Cardinality(Named) \in Nat
  BY <1>3, FS_CardinalityType
<1>5. \A l \in Named : buttons[l] \in Button
  BY DEF ButtonTypeOK, Named
<1> QED
  BY <1>1, <1>3, <1>4, <1>5

\* The rank grows by one at each value that is not bad, and only there.
LEMMA RankFacts ==
  ASSUME NEW v, NEW i \in Nat \ {0}
  PROVE  /\ Rank(v, i) \in Nat
         /\ v[i] = Bad => Rank(v, i + 1) = Rank(v, i)
         /\ v[i] # Bad => Rank(v, i + 1) = Rank(v, i) + 1
         /\ \A k \in 1..(i - 1) : v[k] # Bad => Rank(v, k) < Rank(v, i)
<1> DEFINE Before(n) == {j \in 1..(n - 1) : v[j] # Bad}
<1>1. \A n \in Nat \ {0} : IsFiniteSet(Before(n)) /\ Cardinality(Before(n)) \in Nat
  <2> SUFFICES ASSUME NEW n \in Nat \ {0} PROVE IsFiniteSet(Before(n)) /\ Cardinality(Before(n)) \in Nat
    OBVIOUS
  <2>1. IsFiniteSet(1..(n - 1)) /\ Before(n) \in SUBSET (1..(n - 1))
    BY FS_Interval
  <2> HIDE DEF Before
  <2> QED
    BY <2>1, FS_Subset, FS_CardinalityType
<1>2. v[i] = Bad => Before(i + 1) = Before(i)
  OBVIOUS
<1>3. ASSUME NEW k \in Nat \ {0}, v[k] # Bad
      PROVE  Cardinality(Before(k + 1)) = Cardinality(Before(k)) + 1
  <2>1. Before(k + 1) = Before(k) \cup {k} /\ k \notin Before(k)
    BY <1>3
  <2> HIDE DEF Before
  <2> QED
    BY <1>1, <2>1, FS_AddElement
<1>4. ASSUME NEW k \in 1..(i - 1), v[k] # Bad
      PROVE  Cardinality(Before(k)) < Cardinality(Before(i))
  <2>1. Before(k + 1) \in SUBSET Before(i)
    OBVIOUS
  <2>2. k \in Nat \ {0}
    OBVIOUS
  <2> HIDE DEF Before
  <2>3. Cardinality(Before(k + 1)) <= Cardinality(Before(i))
    BY <1>1, <2>1, FS_Subset
  <2>4. Cardinality(Before(k + 1)) = Cardinality(Before(k)) + 1
    BY <1>3, <1>4, <2>2
  <2>5. Cardinality(Before(k)) \in Nat /\ Cardinality(Before(i)) \in Nat
    BY <1>1, <2>2
  <2> QED
    BY <2>3, <2>4, <2>5
<1>5. \A n : Rank(v, n) = Cardinality(Before(n))
  BY DEF Rank
<1> HIDE DEF Before
<1> QED
  BY <1>1, <1>2, <1>3, <1>4, <1>5

-----------------------------------------------------------------------------
\* No button is named before the file is read.
LEMMA ButtonInitInv == ButtonInit => ButtonInv
<1> SUFFICES ASSUME ButtonInit PROVE ButtonInv
  OBVIOUS
<1>1. ButtonTypeOK
  BY OptionFacts DEF ButtonInit, ButtonTypeOK, CycleModes
<1>2. Named = {}
  BY DEF ButtonInit, Named
<1>3. CodesSoFar
  BY DEF ButtonInit, CodesSoFar, CodesAllOrNothing
<1>4. FlagsSet
  BY OptionFacts DEF ButtonInit, FlagsSet, ReadSoFar
<1>5. ModeCounts /\ ModesCounted
  BY DEF ButtonInit, ModeCounts, ModesCounted
<1>6. ModeRanked
  BY <1>2 DEF ModeRanked
<1> QED
  BY <1>1, <1>3, <1>4, <1>5, <1>6 DEF ButtonInv

\* A step that only changes codes keeps what is said of flags and modes.
SameFlags ==
  /\ file' = file
  /\ option' = option
  /\ Named' = Named
  /\ \A l \in Named : buttons'[l].flags = buttons[l].flags /\ buttons'[l].mode = buttons[l].mode

LEMMA SameFlagsRanked ==
  ASSUME ModeRanked, SameFlags
  PROVE  ModeRanked'
BY DEF ModeRanked, SameFlags, Switches, RankedIn

LEMMA SameFlagsSet ==
  ASSUME FlagsSet, SameFlags, pc # "value" => pc' # "value", pc = "value" => val' = val
  PROVE  FlagsSet'
BY DEF FlagsSet, SameFlags, ReadSoFar, HasFlag

\* Binding makes a button of the letter that has the option's flag, the mode it is given
\* if the option switches modes, and the code it had.
LEMMA BindFacts ==
  ASSUME ButtonTypeOK, BindButton
  PROVE  LET l == Vals[val]
             o == Option[option]
         IN  /\ l \in Letter /\ o \in Range(Option) /\ val \in DOMAIN Vals
             /\ Named' = Named \cup {l}
             /\ buttons' \in [Letter -> Button \cup {NoButton}]
             /\ \A k \in Letter \ {l} : buttons'[k] = buttons[k]
             /\ buttons'[l].flags = (IF l \in Named THEN buttons[l].flags ELSE {}) \cup {o}
             /\ o \in ModeSwitch => buttons'[l].mode = mode
             /\ o \notin ModeSwitch =>
                  buttons'[l].mode = IF l \in Named THEN buttons[l].mode ELSE CycleModes
<1> DEFINE l  == Vals[val]
           o  == Option[option]
           b  == IF l \in Named THEN buttons[l]
                 ELSE [flags |-> {}, mode |-> CycleModes, code |-> 0]
           b2 == [b EXCEPT !.flags = @ \cup {o}]
           b3 == IF o \in ModeSwitch THEN [b2 EXCEPT !.mode = mode] ELSE b2
<1>1. option <= Len(Option)
  BY DEF ButtonTypeOK, BindButton
<1>2. o \in Range(Option) /\ Vals \in Seq({Bad} \cup Letter)
  BY <1>1, ValsFacts
<1>3. val \in DOMAIN Vals /\ l \in Letter
  BY <1>2 DEF ButtonTypeOK, BindButton
<1>4. b \in Button
  BY NamedFacts DEF Button, CycleModes
<1>5. mode \in Int
  BY DEF ButtonTypeOK
<1>6. /\ b3 \in Button
      /\ b3.flags = b.flags \cup {o}
      /\ o \in ModeSwitch => b3.mode = mode
      /\ o \notin ModeSwitch => b3.mode = b.mode
  <2> HIDE DEF b, o
  <2> QED
    BY <1>2, <1>4, <1>5 DEF Button
<1>7. buttons' = [buttons EXCEPT ![l] = b3]
  BY DEF BindButton
<1>8. b.flags = IF l \in Named THEN buttons[l].flags ELSE {}
  OBVIOUS
<1>9. b.mode = IF l \in Named THEN buttons[l].mode ELSE CycleModes
  OBVIOUS
<1> HIDE DEF l, b, b2, b3, o
<1>10. buttons \in [Letter -> Button \cup {NoButton}]
  BY DEF ButtonTypeOK
<1>11. /\ buttons'[l] = b3 /\ \A k \in Letter \ {l} : buttons'[k] = buttons[k]
       /\ buttons' \in [Letter -> Button \cup {NoButton}]
  BY <1>3, <1>6, <1>7, <1>10
<1>12. Named' = Named \cup {l}
  BY <1>3, <1>6, <1>11, NoButtonAssumption DEF Named
<1>13. /\ l \in Letter /\ o \in Range(Option) /\ val \in DOMAIN Vals
       /\ Named' = Named \cup {l}
       /\ buttons' \in [Letter -> Button \cup {NoButton}]
       /\ \A k \in Letter \ {l} : buttons'[k] = buttons[k]
       /\ buttons'[l].flags = (IF l \in Named THEN buttons[l].flags ELSE {}) \cup {o}
       /\ o \in ModeSwitch => buttons'[l].mode = mode
       /\ o \notin ModeSwitch =>
            buttons'[l].mode = IF l \in Named THEN buttons[l].mode ELSE CycleModes
  BY <1>2, <1>3, <1>6, <1>8, <1>9, <1>11, <1>12
<1> QED
  BY <1>13 DEF l, o

-----------------------------------------------------------------------------
\* Assigning codes to all buttons changes nothing else of them.
LEMMA CodeOnlyFacts ==
  ASSUME ButtonTypeOK, NEW c \in [Letter -> Int],
         buttons' = [l \in Letter |-> IF l \in Named THEN [buttons[l] EXCEPT !.code = c[l]] ELSE NoButton]
  PROVE  /\ buttons' \in [Letter -> Button \cup {NoButton}]
         /\ Named' = Named
         /\ \A l \in Named : /\ buttons'[l].flags = buttons[l].flags
                              /\ buttons'[l].mode = buttons[l].mode
                              /\ buttons'[l].code = c[l]
<1>1. ASSUME NEW l \in Named
      PROVE  /\ buttons'[l] \in Button
             /\ buttons'[l].flags = buttons[l].flags
             /\ buttons'[l].mode = buttons[l].mode
             /\ buttons'[l].code = c[l]
  <2>1. l \in Letter /\ buttons[l] \in Button /\ c[l] \in Int
    BY NamedFacts
  <2>2. buttons'[l] = [buttons[l] EXCEPT !.code = c[l]]
    BY <2>1
  <2> QED
    BY <2>1, <2>2 DEF Button
<1>2. \A l \in Letter \ Named : buttons'[l] = NoButton
  OBVIOUS
<1>3. buttons' \in [Letter -> Button \cup {NoButton}]
  BY <1>1, <1>2, NamedFacts
<1>4. Named' = Named
  BY <1>1, <1>2, NamedFacts, NoButtonAssumption DEF Named
<1> QED
  BY <1>1, <1>3, <1>4

\* The heuristics have a code for every button.
LEMMA HeuristicFacts == \A b : \A l \in Letter : HeuristicCode(b, l) \in Int
BY LetterAssumption DEF HeuristicCode

\* SetCode changes the code of one button and nothing else of it.
LEMMA SetCodeFacts ==
  ASSUME ButtonTypeOK, SetCode, file.codes # Absent
  PROVE  /\ buttons' \in [Letter -> Button \cup {NoButton}]
         /\ Named' = Named
         /\ val \in Named
         /\ \A l \in Named : /\ buttons'[l].flags = buttons[l].flags
                              /\ buttons'[l].mode = buttons[l].mode
                              /\ buttons'[l].code = IF l = val THEN file.codes[val] ELSE buttons[l].code
<1>1. val \in Named /\ val \in Letter /\ val \in Nat \ {0} /\ val <= Len(file.codes) /\ file.codes[val] # Bad
  BY NamedFacts DEF SetCode, HasCode, ButtonTypeOK
<1>2. file.codes \in Seq({Bad} \cup Nat)
  BY ButtonFileAssumption DEF ButtonTypeOK
<1>3. file.codes[val] \in Int
  BY <1>1, <1>2
<1>4. buttons[val] \in Button /\ buttons \in [Letter -> Button \cup {NoButton}]
  BY <1>1, NamedFacts DEF ButtonTypeOK
<1>5. buttons' = [buttons EXCEPT ![val] = [buttons[val] EXCEPT !.code = file.codes[val]]]
  BY DEF SetCode
<1> DEFINE b == [buttons[val] EXCEPT !.code = file.codes[val]]
<1>6. /\ b \in Button /\ b.flags = buttons[val].flags /\ b.mode = buttons[val].mode
      /\ b.code = file.codes[val]
  BY <1>3, <1>4 DEF Button
<1>7. buttons' = [buttons EXCEPT ![val] = b]
  BY <1>5
<1> HIDE DEF b
<1>8. buttons'[val] = b /\ \A k \in Letter \ {val} : buttons'[k] = buttons[k]
  BY <1>1, <1>4, <1>7
<1>9. buttons' \in [Letter -> Button \cup {NoButton}]
  BY <1>4, <1>6, <1>7
<1>10. Named' = Named
  BY <1>1, <1>6, <1>8, NoButtonAssumption DEF Named
<1> QED
  BY <1>1, <1>6, <1>8, <1>9, <1>10, NamedFacts

-----------------------------------------------------------------------------
\* What each step does to the shape of the state.
LEMMA ButtonTypeStep ==
  ASSUME ButtonInv, [ButtonNext]_buttonVars
  PROVE  ButtonTypeOK'
<1> USE DEF ButtonTypeOK
<1>0. ButtonTypeOK /\ Len(Option) = 11
  BY OptionFacts DEF ButtonInv
<1>1. CASE StartOption
  BY <1>0, <1>1 DEF StartOption, CycleModes
<1>2. CASE IgnoreValue
  BY <1>0, <1>2 DEF IgnoreValue
<1>3. CASE BindButton
  <2>1. mode' \in Int
    BY <1>0, <1>3 DEF BindButton, NextMode
  <2> QED
    BY <1>0, <1>3, <2>1, BindFacts DEF BindButton
<1>4. CASE EndOption
  BY <1>0, <1>4 DEF EndOption
<1>5. CASE AllOptions
  BY <1>0, <1>5 DEF AllOptions
<1>6. CASE AbortCodes
  BY <1>0, <1>6 DEF AbortCodes, MoreButtons
<1>7. CASE ResetCodes
  <2>1. [l \in Letter |-> 0] \in [Letter -> Int]
    OBVIOUS
  <2>2. buttons' = [l \in Letter |-> IF l \in Named
                     THEN [buttons[l] EXCEPT !.code = [k \in Letter |-> 0][l]] ELSE NoButton]
    BY <1>7 DEF ResetCodes
  <2>3. buttons' \in [Letter -> Button \cup {NoButton}]
    BY <1>0, <2>1, <2>2, CodeOnlyFacts
  <2> QED
    BY <1>0, <1>7, <2>3 DEF ResetCodes, MoreButtons
<1>8. CASE SetCode
  <2>1. file.codes # Absent
    BY <1>8 DEF SetCode, MoreButtons, ButtonInv, CodesSoFar
  <2>2. buttons' \in [Letter -> Button \cup {NoButton}]
    BY <1>0, <1>8, <2>1, SetCodeFacts
  <2> QED
    BY <1>0, <1>8, <2>2 DEF SetCode, MoreButtons
<1>9. CASE AllCodes
  BY <1>0, <1>9 DEF AllCodes
<1>10. CASE SetHeuristicCodes
  <2> DEFINE c == [l \in Letter |-> HeuristicCode(file.small, l)]
  <2>1. c \in [Letter -> Int]
    BY HeuristicFacts
  <2>2. buttons' = [l \in Letter |-> IF l \in Named THEN [buttons[l] EXCEPT !.code = c[l]] ELSE NoButton]
    BY <1>10 DEF SetHeuristicCodes
  <2> HIDE DEF c
  <2>3. buttons' \in [Letter -> Button \cup {NoButton}]
    BY <1>0, <2>1, <2>2, CodeOnlyFacts
  <2> QED
    BY <1>0, <1>10, <2>3 DEF SetHeuristicCodes
<1>11. CASE CountModes
  BY <1>0, <1>11 DEF CountModes
<1>12. CASE SetKeycode
  BY <1>0, <1>12 DEF SetKeycode, MoreKeys
<1>13. CASE ClearKeycodes
  BY <1>0, <1>13 DEF ClearKeycodes, MoreKeys
<1>14. CASE AllKeys
  BY <1>0, <1>14 DEF AllKeys
<1>15. CASE UNCHANGED buttonVars
  BY <1>0, <1>15 DEF buttonVars
<1> QED
  BY <1>1, <1>2, <1>3, <1>4, <1>5, <1>6, <1>7, <1>8, <1>9, <1>10, <1>11, <1>12, <1>13, <1>14,
     <1>15 DEF ButtonNext

\* What AllCodes finds: the list was used up by as many buttons as there are, all from A on.
LEMMA AllCodesFacts ==
  ASSUME ButtonTypeOK, \A i \in 1..(val - 1) : i \in Named, ~(val <= Cardinality(Named))
  PROVE  Named = 1..(val - 1)
<1> DEFINE S == 1..(val - 1)
<1>1. val \in Nat \ {0} /\ S \in SUBSET Named
  BY DEF ButtonTypeOK
<1>2. IsFiniteSet(Named) /\ Cardinality(Named) \in Nat
  BY NamedFacts
<1>3. Cardinality(S) = val - 1
  <2>1. 1 \in Int /\ val - 1 \in Int
    BY <1>1
  <2>2. Cardinality(S) = IF 1 > val - 1 THEN 0 ELSE (val - 1) - 1 + 1
    BY <2>1, FS_Interval
  <2> QED
    BY <1>1, <2>2
<1> HIDE DEF S
<1>4. Cardinality(S) <= Cardinality(Named)
  BY <1>1, <1>2, FS_Subset
<1>5. Cardinality(S) = Cardinality(Named)
  BY <1>1, <1>2, <1>3, <1>4
<1>6. S = Named
  BY <1>1, <1>2, <1>5, FS_Subset
<1> QED
  BY <1>6 DEF S

\* Codes come from one source at every step.
LEMMA CodesStep ==
  ASSUME ButtonInv, [ButtonNext]_buttonVars
  PROVE  CodesSoFar'
<1> USE DEF CodesSoFar, CodesAllOrNothing
<1>0. ButtonTypeOK /\ CodesSoFar
  BY DEF ButtonInv
<1>1. CASE StartOption \/ IgnoreValue \/ BindButton \/ EndOption \/ AbortCodes
  BY <1>1 DEF StartOption, IgnoreValue, BindButton, EndOption, AbortCodes
<1>2. CASE AllOptions
  BY <1>2 DEF AllOptions
<1>3. CASE ResetCodes
  BY <1>3 DEF ResetCodes
<1>4. CASE SetCode
  <2>1. pc = "codes" /\ file.codes # Absent /\ pc' = "codes" /\ file' = file /\ val' = val + 1
    BY <1>0, <1>4 DEF SetCode, MoreButtons
  <2>2. /\ Named' = Named /\ val \in Named
        /\ \A l \in Named : buttons'[l].code = IF l = val THEN file.codes[val] ELSE buttons[l].code
    BY <1>0, <1>4, <2>1, SetCodeFacts
  <2>3. \A i \in 1..val : i \in Named /\ buttons'[i].code = file.codes[i]
    <3> SUFFICES ASSUME NEW i \in 1..val PROVE i \in Named /\ buttons'[i].code = file.codes[i]
      OBVIOUS
    <3>1. CASE i = val
      BY <2>2, <3>1
    <3>2. CASE i # val
      <4>1. i \in 1..(val - 1)
        BY <1>0, <3>2 DEF ButtonTypeOK
      <4> QED
        BY <1>0, <2>1, <2>2, <3>2, <4>1
    <3> QED
      BY <3>1, <3>2
  <2>4. 1..(val' - 1) = 1..val
    BY <1>0, <2>1 DEF ButtonTypeOK
  <2>5. \A i \in 1..(val' - 1) : i \in Named' /\ buttons'[i].code = file'.codes[i]
    BY <2>1, <2>2, <2>3, <2>4
  <2> QED
    BY <2>1, <2>5
<1>5. CASE AllCodes
  <2>1. pc = "codes" /\ ~(val <= Cardinality(Named)) /\ UNCHANGED <<file, buttons>> /\ pc' = "modes"
    BY <1>5 DEF AllCodes, MoreButtons
  <2>2. \A i \in 1..(val - 1) : i \in Named /\ buttons[i].code = file.codes[i]
    BY <1>0, <2>1
  <2>3. Named = 1..(val - 1)
    BY <1>0, <2>1, <2>2, AllCodesFacts
  <2>4. Named' = Named
    BY <2>1 DEF Named
  <2> QED
    BY <1>0, <2>1, <2>2, <2>3, <2>4
<1>6. CASE SetHeuristicCodes
  <2> DEFINE c == [l \in Letter |-> HeuristicCode(file.small, l)]
  <2>1. c \in [Letter -> Int] /\ \A l \in Letter : c[l] = HeuristicCode(file.small, l)
    BY HeuristicFacts
  <2>2. buttons' = [l \in Letter |-> IF l \in Named THEN [buttons[l] EXCEPT !.code = c[l]] ELSE NoButton]
    BY <1>6 DEF SetHeuristicCodes
  <2> HIDE DEF c
  <2>3. Named' = Named /\ \A l \in Named : buttons'[l].code = c[l]
    BY <1>0, <2>1, <2>2, CodeOnlyFacts
  <2>4. file' = file /\ pc' = "modes"
    BY <1>6 DEF SetHeuristicCodes
  <2> QED
    BY <1>0, <2>1, <2>3, <2>4, NamedFacts
<1>7. CASE CountModes
  <2>1. pc = "modes" /\ pc' = "keys" /\ UNCHANGED <<file, buttons>> /\ Named' = Named
    BY <1>7 DEF CountModes, Named
  <2> QED
    BY <1>0, <2>1
<1>8. CASE SetKeycode \/ ClearKeycodes \/ AllKeys
  <2>1. pc = "keys" /\ pc' \in {"keys", "done"} /\ UNCHANGED <<file, buttons>> /\ Named' = Named
    BY <1>8 DEF SetKeycode, ClearKeycodes, AllKeys, MoreKeys, Named
  <2> QED
    BY <1>0, <2>1
<1>9. CASE UNCHANGED buttonVars
  <2>1. UNCHANGED <<file, buttons, pc, val>> /\ Named' = Named
    BY <1>9 DEF buttonVars, Named
  <2> QED
    BY <1>0, <2>1
<1> QED
  BY <1>1, <1>2, <1>3, <1>4, <1>5, <1>6, <1>7, <1>8, <1>9 DEF ButtonNext

-----------------------------------------------------------------------------
\* All steps but those that read a value or leave it keep the flags and modes.
LEMMA KeepFlags ==
  ASSUME ButtonInv, [ButtonNext]_buttonVars, ~StartOption, ~IgnoreValue, ~BindButton, ~EndOption
  PROVE  /\ SameFlags
         /\ pc # "value" => pc' # "value"
         /\ pc = "value" => pc' = "value" /\ val' = val /\ mode' = mode
<1> USE DEF SameFlags
<1>0. ButtonTypeOK /\ CodesSoFar
  BY DEF ButtonInv
<1>1. CASE AllOptions \/ AbortCodes \/ AllCodes
  BY <1>1 DEF AllOptions, AbortCodes, AllCodes, MoreButtons, Named
<1>2. CASE ResetCodes
  <2>1. [l \in Letter |-> 0] \in [Letter -> Int]
    OBVIOUS
  <2>2. buttons' = [l \in Letter |-> IF l \in Named
                     THEN [buttons[l] EXCEPT !.code = [k \in Letter |-> 0][l]] ELSE NoButton]
    BY <1>2 DEF ResetCodes
  <2>3. Named' = Named /\ \A l \in Named : /\ buttons'[l].flags = buttons[l].flags
                                           /\ buttons'[l].mode = buttons[l].mode
    BY <1>0, <2>1, <2>2, CodeOnlyFacts
  <2> QED
    BY <1>2, <2>3 DEF ResetCodes, MoreButtons
<1>3. CASE SetCode
  <2>1. file.codes # Absent
    BY <1>0, <1>3 DEF SetCode, MoreButtons, CodesSoFar
  <2>2. Named' = Named /\ \A l \in Named : /\ buttons'[l].flags = buttons[l].flags
                                           /\ buttons'[l].mode = buttons[l].mode
    BY <1>0, <1>3, <2>1, SetCodeFacts
  <2> QED
    BY <1>3, <2>2 DEF SetCode, MoreButtons
<1>4. CASE SetHeuristicCodes
  <2> DEFINE c == [l \in Letter |-> HeuristicCode(file.small, l)]
  <2>1. c \in [Letter -> Int]
    BY HeuristicFacts
  <2>2. buttons' = [l \in Letter |-> IF l \in Named THEN [buttons[l] EXCEPT !.code = c[l]] ELSE NoButton]
    BY <1>4 DEF SetHeuristicCodes
  <2> HIDE DEF c
  <2>3. Named' = Named /\ \A l \in Named : /\ buttons'[l].flags = buttons[l].flags
                                           /\ buttons'[l].mode = buttons[l].mode
    BY <1>0, <2>1, <2>2, CodeOnlyFacts
  <2> QED
    BY <1>4, <2>3 DEF SetHeuristicCodes
<1>5. CASE CountModes \/ SetKeycode \/ ClearKeycodes \/ AllKeys
  BY <1>5 DEF CountModes, SetKeycode, ClearKeycodes, AllKeys, MoreKeys, Named
<1>6. CASE UNCHANGED buttonVars
  BY <1>6 DEF buttonVars, Named
<1> QED
  BY <1>1, <1>2, <1>3, <1>4, <1>5, <1>6 DEF ButtonNext

\* A flag, once set, stays.
LEMMA BindKeepsFlags ==
  ASSUME ButtonTypeOK, BindButton, NEW k, NEW f, HasFlag(k, f)
  PROVE  HasFlag(k, f)'
<1>1. k \in Named /\ k \in Letter /\ f \in buttons[k].flags
  BY NamedFacts DEF HasFlag
<1>2. k \in Named'
  BY <1>1, BindFacts
<1>3. CASE k = Vals[val]
  BY <1>1, <1>2, <1>3, BindFacts DEF HasFlag
<1>4. CASE k # Vals[val]
  BY <1>1, <1>2, <1>4, BindFacts DEF HasFlag
<1> QED
  BY <1>3, <1>4

\* Every value read has set its flag.
LEMMA FlagsStep ==
  ASSUME ButtonInv, [ButtonNext]_buttonVars
  PROVE  FlagsSet'
<1>0. ButtonTypeOK /\ FlagsSet /\ val \in Nat \ {0} /\ option \in Nat /\ DOMAIN Option = 1..11
  BY OptionFacts DEF ButtonInv, ButtonTypeOK
<1>1. CASE StartOption
  <2> SUFFICES ASSUME NEW p \in DOMAIN Option, NEW i \in DOMAIN file.vals[Option[p]],
                      ReadSoFar(p, i)', file.vals[Option[p]][i] # Bad
               PROVE  HasFlag(file.vals[Option[p]][i], Option[p])
    BY <1>1 DEF StartOption, FlagsSet, HasFlag, Named
  <2>1. i \in Nat \ {0}
    <3>1. Option[p] \in Range(Option)
      BY OptionFacts
    <3> QED
      BY <1>0, <3>1, ValuesFacts DEF ButtonTypeOK
  <2>2. ReadSoFar(p, i)
    BY <1>1, <2>1 DEF StartOption, ReadSoFar
  <2> QED
    BY <1>0, <2>2 DEF FlagsSet
<1>2. CASE IgnoreValue
  <2> SUFFICES ASSUME NEW p \in DOMAIN Option, NEW i \in DOMAIN file.vals[Option[p]],
                      ReadSoFar(p, i)', file.vals[Option[p]][i] # Bad
               PROVE  HasFlag(file.vals[Option[p]][i], Option[p])
    BY <1>2 DEF IgnoreValue, FlagsSet, HasFlag, Named
  <2>1. p \in 1..11 /\ i \in Nat
    <3>1. Option[p] \in Range(Option)
      BY OptionFacts
    <3> QED
      BY <1>0, <3>1, ValuesFacts DEF ButtonTypeOK
  <2>2. p = option => i # val
    BY <1>2 DEF IgnoreValue, Vals
  <2>3. ReadSoFar(p, i)
    BY <1>0, <1>2, <2>1, <2>2 DEF IgnoreValue, ReadSoFar
  <2> QED
    BY <1>0, <2>3 DEF FlagsSet
<1>3. CASE BindButton
  <2> SUFFICES ASSUME NEW p \in DOMAIN Option, NEW i \in DOMAIN file.vals[Option[p]],
                      ReadSoFar(p, i)', file.vals[Option[p]][i] # Bad
               PROVE  HasFlag(file.vals[Option[p]][i], Option[p])'
    BY <1>3 DEF BindButton, FlagsSet, HasFlag
  <2>1. p \in 1..11 /\ i \in Nat
    <3>1. Option[p] \in Range(Option)
      BY OptionFacts
    <3> QED
      BY <1>0, <3>1, ValuesFacts DEF ButtonTypeOK
  <2>2. pc = "value" /\ pc' = pc /\ option' = option /\ val' = val + 1 /\ file' = file
    BY <1>3 DEF BindButton
  <2>3. CASE p = option /\ i = val
    <3>1. file.vals[Option[p]][i] = Vals[val]
      BY <2>3 DEF Vals
    <3>2. Vals[val] \in Named' /\ Option[option] \in buttons'[Vals[val]].flags
      BY <1>0, <1>3, BindFacts
    <3> DEFINE x == Vals[val]
    <3>3. file'.vals[Option[p]][i] = x
      BY <2>2, <3>1
    <3>4. x \in Named' /\ Option[p] \in buttons'[x].flags
      BY <2>3, <3>2
    <3> HIDE DEF x
    <3> QED
      BY <3>3, <3>4 DEF HasFlag
  <2>4. CASE ~(p = option /\ i = val)
    <3>1. ReadSoFar(p, i)
      BY <1>0, <2>1, <2>2, <2>4 DEF ReadSoFar
    <3>2. HasFlag(file.vals[Option[p]][i], Option[p])
      BY <1>0, <3>1 DEF FlagsSet
    <3> QED
      BY <1>0, <1>3, <2>2, <3>2, BindKeepsFlags
  <2> QED
    BY <2>3, <2>4
<1>4. CASE EndOption
  <2> SUFFICES ASSUME NEW p \in DOMAIN Option, NEW i \in DOMAIN file.vals[Option[p]],
                      ReadSoFar(p, i)', file.vals[Option[p]][i] # Bad
               PROVE  HasFlag(file.vals[Option[p]][i], Option[p])
    BY <1>4 DEF EndOption, FlagsSet, HasFlag, Named
  <2>1. Option[p] \in Range(Option) /\ p \in 1..11
    BY <1>0, OptionFacts
  <2>2. file.vals[Option[p]] \in Seq({Bad} \cup Letter)
    BY <1>0, <2>1, ValuesFacts DEF ButtonTypeOK
  <2>3. i \in Nat /\ i <= Len(file.vals[Option[p]])
    BY <2>2
  <2>4. p = option => i < val
    BY <1>0, <1>4, <2>2, <2>3 DEF EndOption, Vals
  <2>5. ReadSoFar(p, i)
    BY <1>0, <1>4, <2>1, <2>3, <2>4 DEF EndOption, ReadSoFar
  <2> QED
    BY <1>0, <2>5 DEF FlagsSet
<1>5. CASE ~StartOption /\ ~IgnoreValue /\ ~BindButton /\ ~EndOption
  BY <1>0, <1>5, KeepFlags, SameFlagsSet
<1> QED
  BY <1>1, <1>2, <1>3, <1>4, <1>5

-----------------------------------------------------------------------------
\* The next mode is the number of buttons bound so far.
LEMMA ModeCountsStep ==
  ASSUME ButtonInv, [ButtonNext]_buttonVars
  PROVE  ModeCounts'
<1>0. ButtonTypeOK /\ ModeCounts /\ val \in Nat \ {0}
  BY DEF ButtonInv, ButtonTypeOK
<1>1. CASE StartOption
  <2>1. Rank(Vals, 1) = 0
    <3>1. {j \in 1..(1 - 1) : Vals[j] # Bad} = {}
      OBVIOUS
    <3> QED
      BY <3>1, FS_EmptySet DEF Rank
  <2>2. Vals' = Vals /\ val' = 1 /\ (Switches(Option[option])' => Len(Vals) > 1)
    BY <1>1 DEF StartOption, Vals, Switches
  <2>3. Switches(Option[option])' => mode' = 0
    BY <1>1, <2>2 DEF StartOption
  <2> QED
    BY <2>1, <2>2, <2>3 DEF ModeCounts
<1>2. CASE IgnoreValue
  <2>1. /\ Vals' = Vals /\ val' = val + 1 /\ mode' = mode /\ pc = "value" /\ Vals[val] = Bad
        /\ Switches(Option[option])' <=> Switches(Option[option])
    BY <1>2 DEF IgnoreValue, Vals, Switches
  <2>2. Rank(Vals, val + 1) = Rank(Vals, val)
    BY <1>0, <2>1, RankFacts
  <2> QED
    BY <1>0, <2>1, <2>2 DEF ModeCounts
<1>3. CASE BindButton
  <2>1. /\ Vals' = Vals /\ val' = val + 1 /\ pc = "value" /\ Vals[val] # Bad
        /\ Switches(Option[option])' <=> Switches(Option[option])
        /\ Switches(Option[option]) => mode' = mode + 1
    BY <1>3 DEF BindButton, NextMode, Vals, Switches
  <2>2. Rank(Vals, val + 1) = Rank(Vals, val) + 1
    BY <1>0, <2>1, RankFacts
  <2> QED
    BY <1>0, <2>1, <2>2 DEF ModeCounts
<1>4. CASE EndOption
  BY <1>4 DEF EndOption, ModeCounts
<1>5. CASE ~StartOption /\ ~IgnoreValue /\ ~BindButton /\ ~EndOption
  <2>1. SameFlags /\ (pc # "value" => pc' # "value") /\ (pc = "value" => val' = val /\ mode' = mode)
    BY <1>5, KeepFlags
  <2>2. Vals' = Vals /\ (Switches(Option[option])' <=> Switches(Option[option]))
    BY <2>1 DEF SameFlags, Vals, Switches
  <2> QED
    BY <1>0, <2>1, <2>2 DEF ModeCounts
<1> QED
  BY <1>1, <1>2, <1>3, <1>4, <1>5

\* A button that only one feature switches with has the rank of one of its places.
LEMMA ModeRankedStep ==
  ASSUME ButtonInv, [ButtonNext]_buttonVars
  PROVE  ModeRanked'
<1>0. ButtonTypeOK /\ ModeCounts /\ ModeRanked
  BY DEF ButtonInv
<1>1. CASE BindButton
  <2> SUFFICES ASSUME NEW l \in Named', NEW f \in ModeSwitch,
                      Switches(f)', buttons'[l].flags \cap ModeSwitch = {f}
               PROVE  RankedIn(l, f)'
    BY DEF ModeRanked
  <2>1. file' = file /\ pc = "value" /\ Switches(f) /\ Vals = file.vals[Option[option]]
    BY <1>1 DEF BindButton, Switches, Vals
  <2>2. CASE l # Vals[val]
    <3>1. l \in Named /\ buttons'[l] = buttons[l]
      BY <1>0, <1>1, <2>2, BindFacts, NamedFacts
    <3> QED
      BY <1>0, <2>1, <3>1 DEF ModeRanked, RankedIn
  <2>3. CASE l = Vals[val] /\ Option[option] \in ModeSwitch
    <3>1. Option[option] \in buttons'[l].flags /\ buttons'[l].mode = mode /\ val \in DOMAIN Vals
      BY <1>0, <1>1, <2>3, BindFacts
    <3>2. f = Option[option]
      BY <2>3, <3>1
    <3>3. mode = Rank(Vals, val)
      BY <1>0, <2>1, <3>2 DEF ModeCounts
    <3> QED
      BY <2>1, <2>3, <3>1, <3>2, <3>3 DEF RankedIn
  <2>4. CASE l = Vals[val] /\ Option[option] \notin ModeSwitch
    <3>1. buttons'[l].flags = (IF l \in Named THEN buttons[l].flags ELSE {}) \cup {Option[option]}
      BY <1>0, <1>1, <2>4, BindFacts
    <3>2. l \in Named /\ buttons[l].flags \cap ModeSwitch = {f}
      BY <2>4, <3>1
    <3>3. buttons'[l].mode = buttons[l].mode
      BY <1>0, <1>1, <2>4, <3>2, BindFacts
    <3> QED
      BY <1>0, <2>1, <3>2, <3>3 DEF ModeRanked, RankedIn
  <2> QED
    BY <2>2, <2>3, <2>4
<1>2. CASE StartOption \/ IgnoreValue \/ EndOption
  BY <1>0, <1>2 DEF StartOption, IgnoreValue, EndOption, ModeRanked, RankedIn, Switches, Named
<1>3. CASE ~StartOption /\ ~IgnoreValue /\ ~BindButton /\ ~EndOption
  BY <1>0, <1>3, KeepFlags, SameFlagsRanked
<1> QED
  BY <1>1, <1>2, <1>3

\* The numbers of modes are counted from the buttons of the end.
LEMMA ModesCountedStep ==
  ASSUME ButtonInv, [ButtonNext]_buttonVars
  PROVE  ModesCounted'
<1>0. ModesCounted
  BY DEF ButtonInv
<1> USE DEF ModesCounted, NumModes, HasFlag, Named
<1>1. CASE CountModes
  BY <1>1 DEF CountModes
<1>2. CASE SetKeycode \/ ClearKeycodes \/ AllKeys
  BY <1>0, <1>2 DEF SetKeycode, ClearKeycodes, AllKeys, MoreKeys
<1>3. CASE StartOption \/ IgnoreValue \/ BindButton \/ EndOption \/ AllOptions
  BY <1>3 DEF StartOption, IgnoreValue, BindButton, EndOption, AllOptions
<1>4. CASE AbortCodes \/ ResetCodes \/ SetCode \/ AllCodes \/ SetHeuristicCodes
  BY <1>4 DEF AbortCodes, ResetCodes, SetCode, AllCodes, SetHeuristicCodes, MoreButtons
<1>5. CASE UNCHANGED buttonVars
  BY <1>0, <1>5 DEF buttonVars
<1> QED
  BY <1>1, <1>2, <1>3, <1>4, <1>5 DEF ButtonNext

\* The strengthened invariant holds of every state.
THEOREM ButtonInvariance == ButtonSpec => []ButtonInv
<1>1. ButtonInit => ButtonInv
  BY ButtonInitInv
<1>2. ButtonInv /\ [ButtonNext]_buttonVars => ButtonInv'
  <2> SUFFICES ASSUME ButtonInv, [ButtonNext]_buttonVars PROVE ButtonInv'
    OBVIOUS
  <2> QED
    BY ButtonTypeStep, CodesStep, FlagsStep, ModeCountsStep, ModeRankedStep, ModesCountedStep
       DEF ButtonInv
<1> QED
  BY <1>1, <1>2, PTL DEF ButtonSpec

\* A rejected list of codes leaves none of its codes behind (set_button_codes_from_string).
THEOREM CodesTheorem == ButtonSpec => []CodesAllOrNothing
<1>1. ButtonInv => CodesAllOrNothing
  BY DEF ButtonInv, CodesSoFar
<1> QED
  BY <1>1, ButtonInvariance, PTL

-----------------------------------------------------------------------------
\* In a key whose buttons are its own, a button's rank is below the number of buttons
\* that have its flag.
LEMMA RankBelowCount ==
  ASSUME ButtonTypeOK, FlagsSet, pc = "done", NEW f \in ModeSwitch, OwnButtons(f),
         NEW j \in DOMAIN file.vals[f], HasFlag(file.vals[f][j], f)
  PROVE  Rank(file.vals[f], j) < Cardinality({l \in Named : HasFlag(l, f)})
<1> DEFINE v == file.vals[f]
           B == {i \in 1..(j - 1) : v[i] # Bad}
           H == {l \in Named : HasFlag(l, f)}
           g == [i \in B |-> v[i]]
<1>1. PICK p \in 1..11 : Option[p] = f
  BY OptionFacts
<1>2. f \in Range(Option)
  BY <1>1, OptionFacts
<1>3. v \in Seq({Bad} \cup Letter)
  BY <1>2, ValuesFacts DEF ButtonTypeOK
<1>4. j \in Nat \ {0} /\ B \subseteq DOMAIN v /\ v[j] # Bad
  <2>1. v[j] \in Letter
    BY NamedFacts DEF HasFlag
  <2> QED
    BY <1>3, <2>1, LetterAssumption
<1>5. \A i \in DOMAIN v : v[i] # Bad => v[i] \in H
  <2> SUFFICES ASSUME NEW i \in DOMAIN v, v[i] # Bad PROVE HasFlag(v[i], f)
    BY DEF HasFlag
  <2>1. ReadSoFar(p, i)
    BY OptionFacts DEF ReadSoFar, ButtonTypeOK
  <2> QED
    BY <1>1, <2>1, OptionFacts DEF FlagsSet
<1>6. \A i, k \in DOMAIN v : v[i] = v[k] => i = k \/ v[i] = Bad
  BY DEF OwnButtons
<1>7. IsFiniteSet(H) /\ v[j] \in H
  <2>1. H \in SUBSET Named /\ v[j] \in H
    BY DEF HasFlag
  <2> QED
    BY <2>1, NamedFacts, FS_Subset
<1>8. IsFiniteSet(H \ {v[j]}) /\ Cardinality(H \ {v[j]}) = Cardinality(H) - 1
  <2> HIDE DEF H, v
  <2> QED
    BY <1>7, FS_RemoveElement
<1>9. g \in Injection(B, H \ {v[j]})
  <2>1. \A i \in B : v[i] \in H \ {v[j]}
    BY <1>3, <1>4, <1>5, <1>6
  <2>2. \A i, k \in B : v[i] = v[k] => i = k
    BY <1>4, <1>6
  <2> HIDE DEF H, v
  <2>3. g \in [B -> H \ {v[j]}]
    BY <2>1
  <2> QED
    BY <2>2, <2>3 DEF Injection, IsInjective
<1>10. Cardinality(B) <= Cardinality(H) - 1
  <2> HIDE DEF H, v, B, g
  <2> QED
    BY <1>8, <1>9, FS_Injection
<1>11. Cardinality(H) \in Nat /\ Rank(v, j) \in Nat
  <2>1. Cardinality(H) \in Nat
    BY <1>7, FS_CardinalityType
  <2> HIDE DEF v
  <2> QED
    BY <1>4, <2>1, RankFacts
<1>12. Rank(v, j) = Cardinality(B)
  BY DEF Rank
<1> HIDE DEF v, B, g
<1>13. Rank(v, j) < Cardinality(H)
  BY <1>10, <1>11, <1>12
<1> QED
  BY <1>13 DEF v

\* The buttons of one key get different modes, each below the number of modes
\* (libwacom_parse_buttons_key and libwacom_parse_num_modes).
THEOREM ModesTheorem == ButtonSpec => []ModesDistinct
<1>1. ButtonInv => ModesDistinct
  <2> SUFFICES ASSUME ButtonInv, pc = "done", NEW f \in Feature, OwnButtons(f), Len(file.vals[f]) > 1,
                      NEW l \in Named, HasFlag(l, f)
               PROVE  /\ buttons[l].mode >= 0
                      /\ file.numModes[f] = 0 => buttons[l].mode < numModes[f]
                      /\ \A k \in Named \ {l} : HasFlag(k, f) => buttons[k].mode # buttons[l].mode
    BY DEF ModesDistinct
  <2> DEFINE v == file.vals[f]
  <2>1. ButtonTypeOK /\ FlagsSet /\ ModeRanked /\ ModesCounted /\ f \in ModeSwitch /\ Switches(f)
    BY DEF ButtonInv, Feature, Switches
  <2>2. v \in Seq({Bad} \cup Letter)
    <3>1. f \in Range(Option)
      BY <2>1, OptionFacts
    <3> QED
      BY <2>1, <3>1, ValuesFacts DEF ButtonTypeOK
  <2>3. \A k \in Named : HasFlag(k, f) => RankedIn(k, f)
    BY <2>1 DEF ModeRanked, OwnButtons
  <2>4. \A k \in Named : k # Bad
    BY <2>1, NamedFacts, LetterAssumption
  <2>5. PICK j \in DOMAIN v : v[j] = l /\ buttons[l].mode = Rank(v, j)
    BY <2>3 DEF RankedIn
  <2>6. j \in Nat \ {0} /\ Rank(v, j) \in Nat
    <3>1. j \in Nat \ {0}
      BY <2>2
    <3> HIDE DEF v
    <3> QED
      BY <3>1, RankFacts
  <2>7. ASSUME file.numModes[f] = 0 PROVE buttons[l].mode < numModes[f]
    <3>1. numModes[f] = NumModes(f)
      BY <2>1 DEF ModesCounted
    <3>2. NumModes(f) = 0 + Cardinality({k \in Named : HasFlag(k, f)})
      BY <2>7 DEF NumModes
    <3>3. Rank(v, j) < Cardinality({k \in Named : HasFlag(k, f)})
      BY <2>1, <2>5, RankBelowCount
    <3>4. Cardinality({k \in Named : HasFlag(k, f)}) \in Nat
      BY <2>1, NamedFacts, FS_Subset, FS_CardinalityType
    <3> QED
      BY <2>5, <2>6, <3>1, <3>2, <3>3, <3>4
  <2>8. ASSUME NEW k \in Named \ {l}, HasFlag(k, f) PROVE buttons[k].mode # buttons[l].mode
    <3>1. PICK i \in DOMAIN v : v[i] = k /\ buttons[k].mode = Rank(v, i)
      BY <2>3, <2>8 DEF RankedIn
    <3>2. i \in Nat \ {0} /\ i # j /\ v[i] # Bad /\ v[j] # Bad
      BY <2>2, <2>4, <2>5, <3>1
    <3> HIDE DEF v
    <3>3. Rank(v, i) \in Nat /\ (Rank(v, i) < Rank(v, j) \/ Rank(v, j) < Rank(v, i))
      <4>1. CASE i < j
        <5>1. i \in 1..(j - 1)
          BY <2>6, <3>2, <4>1
        <5> QED
          BY <2>6, <3>2, <5>1, RankFacts
      <4>2. CASE j < i
        <5>1. j \in 1..(i - 1)
          BY <2>6, <3>2, <4>2
        <5> QED
          BY <2>6, <3>2, <5>1, RankFacts
      <4> QED
        BY <2>6, <3>2, <4>1, <4>2
    <3> QED
      BY <2>5, <2>6, <3>1, <3>3
  <2>9. buttons[l].mode >= 0
    BY <2>5, <2>6
  <2> QED
    BY <2>7, <2>8, <2>9
<1> QED
  BY <1>1, ButtonInvariance, PTL

-----------------------------------------------------------------------------
\* A button was created by an option that names it and has flags of such options only.
FlagsFrom ==
  \A l \in Named : /\ buttons[l].flags # {}
                   /\ \A o \in buttons[l].flags : l \in Range(file.vals[o])

\* The mode a button gets at a place in the values of an option
ModeAt(p, i) == IF Len(file.vals[Option[p]]) = 1 THEN CycleModes ELSE Rank(file.vals[Option[p]], i)

\* The last place read where an option that switches modes names the button decides.
SwitchRead(l, p, i) ==
  /\ Option[p] \in ModeSwitch /\ i \in DOMAIN file.vals[Option[p]]
  /\ file.vals[Option[p]][i] = l /\ ReadSoFar(p, i)
LastSwitch(l, p, i) ==
  /\ SwitchRead(l, p, i)
  /\ \A q \in DOMAIN Option : \A k \in DOMAIN file.vals[Option[q]] :
       SwitchRead(l, q, k) => q < p \/ (q = p /\ k <= i)
Unswitched(l) ==
  \A p \in DOMAIN Option : \A i \in DOMAIN file.vals[Option[p]] : ~SwitchRead(l, p, i)

ModeExact ==
  /\ pc = "value" /\ Len(Vals) <= 1 /\ val = 1 => mode = CycleModes
  /\ \A l \in Named :
       \/ Unswitched(l) /\ buttons[l].mode = CycleModes
       \/ \E p \in DOMAIN Option : \E i \in DOMAIN file.vals[Option[p]] :
            LastSwitch(l, p, i) /\ buttons[l].mode = ModeAt(p, i)

\* No problem was met in the codes assigned, one was when they are given up.
Problem(i) == NoCodeFor(file, i) \/ file.codes[i] = Bad
CodesRead ==
  /\ pc = "codes" => /\ val - 1 <= Cardinality(Named)
                     /\ \A i \in 1..(val - 1) : ~Problem(i)
  /\ pc = "heuristics" => file.codes = Absent \/ (CodeProblem(file) # 0 /\ ~Aborts(file))
  /\ pc = "aborted" => Aborts(file)
  /\ pc \in {"modes", "keys", "done"} =>
       ~Aborts(file) /\ \A l \in Named : buttons[l].code = CodeOf(file, l)

NoKeycodes == [k \in 1..MaxKeycodes |-> 0]
KeysRead ==
  /\ pc \notin {"keys", "done"} => keycodes = NoKeycodes /\ numKeycodes = 0
  /\ pc = "keys" =>
       /\ numKeycodes = val - 1 /\ val - 1 <= MaxKeycodes /\ val - 1 <= Len(file.keys)
       /\ \A k \in 1..(val - 1) : file.keys[k] # Bad
       /\ keycodes = [k \in 1..MaxKeycodes |-> IF k < val THEN file.keys[k] ELSE 0]
  /\ pc = "done" => keycodes = KeycodesOf(file) /\ numKeycodes = KeycodesRead(file)

\* The inductive invariant of what the loops have computed
GroupInv == ButtonInv /\ FlagsFrom /\ ModeExact /\ CodesRead /\ KeysRead

-----------------------------------------------------------------------------
\* Where nothing is read, the flags and modes stay and so do the places read.
LEMMA PlacesFacts ==
  ASSUME ButtonTypeOK, NEW p \in DOMAIN Option, NEW i \in DOMAIN file.vals[Option[p]]
  PROVE  /\ p \in 1..11 /\ i \in Nat \ {0} /\ i <= Len(file.vals[Option[p]])
         /\ file.vals[Option[p]][i] \in {Bad} \cup Letter
<1>1. p \in 1..11 /\ Option[p] \in Range(Option)
  BY OptionFacts
<1>2. file.vals[Option[p]] \in Seq({Bad} \cup Letter)
  BY <1>1, ValuesFacts DEF ButtonTypeOK
<1> QED
  BY <1>1, <1>2

LEMMA ReadUnchanged ==
  ASSUME ButtonInv, [ButtonNext]_buttonVars, ~BindButton
  PROVE  /\ file' = file /\ Named' = Named
         /\ \A l \in Named : buttons'[l].flags = buttons[l].flags /\ buttons'[l].mode = buttons[l].mode
         /\ \A l \in Named : \A p \in DOMAIN Option : \A i \in DOMAIN file.vals[Option[p]] :
              SwitchRead(l, p, i)' <=> SwitchRead(l, p, i)
<1>0. ButtonTypeOK /\ option \in Nat /\ val \in Nat \ {0}
  BY OptionFacts DEF ButtonInv, ButtonTypeOK
<1>1. CASE StartOption
  <2>1. \A p \in DOMAIN Option : \A i \in DOMAIN file.vals[Option[p]] : ReadSoFar(p, i)' <=> ReadSoFar(p, i)
    BY <1>0, <1>1, PlacesFacts DEF StartOption, ReadSoFar
  <2> QED
    BY <1>1, <2>1 DEF StartOption, Named, SwitchRead
<1>2. CASE IgnoreValue
  <2>1. \A l \in Named : l # Bad
    BY <1>0, NamedFacts, LetterAssumption
  <2>2. \A p \in DOMAIN Option : \A i \in DOMAIN file.vals[Option[p]] :
          (ReadSoFar(p, i)' <=> ReadSoFar(p, i)) \/ (p = option /\ i = val)
    BY <1>0, <1>2, PlacesFacts DEF IgnoreValue, ReadSoFar
  <2>3. file.vals[Option[option]][val] = Bad
    BY <1>2 DEF IgnoreValue, Vals
  <2> QED
    BY <1>2, <2>1, <2>2, <2>3 DEF IgnoreValue, Named, SwitchRead
<1>3. CASE EndOption
  <2>1. \A p \in DOMAIN Option : \A i \in DOMAIN file.vals[Option[p]] : ReadSoFar(p, i)' <=> ReadSoFar(p, i)
    <3> TAKE p \in DOMAIN Option
    <3> TAKE i \in DOMAIN file.vals[Option[p]]
    <3>1. p \in 1..11 /\ i \in Nat /\ i <= Len(file.vals[Option[p]])
      BY <1>0, PlacesFacts
    <3>2. p = option => i < val
      BY <1>0, <1>3, <3>1, ValsFacts DEF EndOption, Vals, ButtonTypeOK
    <3> QED
      BY <1>0, <1>3, <3>1, <3>2 DEF EndOption, ReadSoFar
  <2> QED
    BY <1>3, <2>1 DEF EndOption, Named, SwitchRead
<1>4. CASE ~StartOption /\ ~IgnoreValue /\ ~EndOption
  <2>1. SameFlags /\ (pc # "value" => pc' # "value") /\ (pc = "value" => pc' = "value" /\ val' = val)
    BY <1>4, KeepFlags
  <2>2. \A p \in DOMAIN Option : \A i \in DOMAIN file.vals[Option[p]] : ReadSoFar(p, i)' <=> ReadSoFar(p, i)
    BY <2>1 DEF SameFlags, ReadSoFar
  <2> QED
    BY <2>1, <2>2 DEF SameFlags, SwitchRead
<1> QED
  BY <1>1, <1>2, <1>3, <1>4

LEMMA FlagsFromStep ==
  ASSUME ButtonInv, FlagsFrom, [ButtonNext]_buttonVars
  PROVE  FlagsFrom'
<1>1. CASE ~BindButton
  BY <1>1, ReadUnchanged DEF FlagsFrom
<1>2. CASE BindButton
  <2> DEFINE x == Vals[val]
             o == Option[option]
  <2>1. /\ val \in DOMAIN Vals /\ Named' = Named \cup {x} /\ x \in Letter
        /\ \A k \in Letter \ {x} : buttons'[k] = buttons[k]
        /\ buttons'[x].flags = (IF x \in Named THEN buttons[x].flags ELSE {}) \cup {o}
    BY <1>2, BindFacts DEF ButtonInv
  <2>2. file' = file /\ x \in Range(file.vals[o])
    BY <1>2, <2>1 DEF BindButton, Range, Vals
  <2> HIDE DEF x, o
  <2>3. Named \subseteq Letter
    BY DEF Named
  <2> QED
    BY <2>1, <2>2, <2>3 DEF FlagsFrom
<1> QED
  BY <1>1, <1>2

\* Every step leaves each button the mode its last place read gives it.
LEMMA ModeExactStep ==
  ASSUME ButtonInv, ModeExact, [ButtonNext]_buttonVars
  PROVE  ModeExact'
<1>0. ButtonTypeOK /\ FlagsSet /\ ModeCounts /\ option \in Nat /\ val \in Nat \ {0} /\ DOMAIN Option = 1..11
  BY OptionFacts DEF ButtonInv, ButtonTypeOK
<1>1. (pc = "value" /\ Len(Vals) <= 1 /\ val = 1 => mode = CycleModes)'
  <2>1. CASE StartOption
    <3>1. Vals' = Vals
      BY <2>1 DEF StartOption, Vals
    <3>2. Vals \in Seq({Bad} \cup Letter)
      BY <1>0, <2>1, ValsFacts DEF StartOption
    <3>3. Len(Vals) \in Nat
      BY <3>2
    <3> QED
      BY <2>1, <3>1, <3>3 DEF StartOption
  <2>2. CASE IgnoreValue \/ BindButton
    <3>1. val' # 1
      BY <1>0, <2>2 DEF IgnoreValue, BindButton
    <3> QED
      BY <3>1
  <2>3. CASE EndOption
    BY <2>3 DEF EndOption
  <2>4. CASE ~StartOption /\ ~IgnoreValue /\ ~BindButton /\ ~EndOption
    <3>1. SameFlags /\ (pc # "value" => pc' # "value")
          /\ (pc = "value" => pc' = "value" /\ val' = val /\ mode' = mode)
      BY <2>4, KeepFlags
    <3>2. Vals' = Vals
      BY <3>1 DEF SameFlags, Vals
    <3> QED
      BY <3>1, <3>2 DEF ModeExact
  <2> QED
    BY <2>1, <2>2, <2>3, <2>4
<1>2. CASE ~BindButton
  <2> USE <1>2, ReadUnchanged
  <2>1. \A l \in Named : Unswitched(l)' <=> Unswitched(l)
    BY DEF Unswitched
  <2>2. \A l \in Named : \A p \in DOMAIN Option : \A i \in DOMAIN file.vals[Option[p]] :
          (LastSwitch(l, p, i)' <=> LastSwitch(l, p, i)) /\ ModeAt(p, i)' = ModeAt(p, i)
    BY DEF LastSwitch, ModeAt
  <2> QED
    BY <1>1, <2>1, <2>2 DEF ModeExact
<1>3. CASE BindButton
  <2> SUFFICES ASSUME NEW l \in Named'
               PROVE  \/ Unswitched(l)' /\ buttons'[l].mode = CycleModes
                      \/ \E p \in DOMAIN Option : \E i \in DOMAIN file'.vals[Option[p]] :
                           LastSwitch(l, p, i)' /\ buttons'[l].mode = ModeAt(p, i)'
    BY <1>1 DEF ModeExact
  <2> DEFINE x == Vals[val]
             o == Option[option]
  <2>1. /\ x \in Letter /\ val \in DOMAIN Vals /\ Named' = Named \cup {x}
        /\ \A k \in Letter \ {x} : buttons'[k] = buttons[k]
        /\ o \in ModeSwitch => buttons'[x].mode = mode
        /\ o \notin ModeSwitch =>
             buttons'[x].mode = IF x \in Named THEN buttons[x].mode ELSE CycleModes
    BY <1>0, <1>3, BindFacts
  <2>2. /\ file' = file /\ option' = option /\ val' = val + 1 /\ pc = "value" /\ pc' = "value"
        /\ Vals = file.vals[o] /\ option \in DOMAIN Option
    <3>1. option <= Len(Option)
      BY <1>0, <1>3 DEF BindButton, ButtonTypeOK
    <3>2. option \in DOMAIN Option
      BY <1>0, <3>1, ValsFacts
    <3> QED
      BY <1>3, <3>2 DEF BindButton, Vals
  <2>3. \A p \in DOMAIN Option : \A i \in DOMAIN file.vals[Option[p]] :
          ReadSoFar(p, i)' <=> ReadSoFar(p, i) \/ (p = option /\ i = val)
    BY <1>0, <2>2, PlacesFacts DEF ReadSoFar
  <2>4. ASSUME l # x \/ o \notin ModeSwitch
        PROVE  /\ Unswitched(l)' <=> Unswitched(l)
               /\ \A p \in DOMAIN Option : \A i \in DOMAIN file.vals[Option[p]] :
                    (LastSwitch(l, p, i)' <=> LastSwitch(l, p, i)) /\ ModeAt(p, i)' = ModeAt(p, i)
    <3>1. \A p \in DOMAIN Option : \A i \in DOMAIN file.vals[Option[p]] :
            SwitchRead(l, p, i)' <=> SwitchRead(l, p, i)
      BY <2>2, <2>3, <2>4 DEF SwitchRead
    <3> QED
      BY <2>2, <3>1 DEF Unswitched, LastSwitch, ModeAt
  <2>5. CASE l # x
    <3>1. l \in Named /\ buttons'[l] = buttons[l]
      BY <2>1, <2>5 DEF Named
    <3> QED
      BY <2>2, <2>4, <2>5, <3>1 DEF ModeExact
  <2>6. CASE l = x /\ o \notin ModeSwitch /\ l \in Named
    <3>1. buttons'[l].mode = buttons[l].mode
      BY <2>1, <2>6
    <3> QED
      BY <2>2, <2>4, <2>6, <3>1 DEF ModeExact
  <2>7. CASE l = x /\ o \notin ModeSwitch /\ l \notin Named
    <3>1. buttons'[l].mode = CycleModes
      BY <2>1, <2>7
    <3>2. Unswitched(l)
      <4> SUFFICES ASSUME NEW p \in DOMAIN Option, NEW i \in DOMAIN file.vals[Option[p]],
                          SwitchRead(l, p, i)
                   PROVE  FALSE
        BY DEF Unswitched
      <4>1. file.vals[Option[p]][i] = l /\ ReadSoFar(p, i) /\ l # Bad
        BY <2>1, <2>7, LetterAssumption DEF SwitchRead
      <4>2. HasFlag(l, Option[p])
        BY <1>0, <4>1 DEF FlagsSet
      <4> QED
        BY <2>7, <4>2 DEF HasFlag
    <3> QED
      BY <2>4, <2>7, <3>1, <3>2
  <2>8. CASE l = x /\ o \in ModeSwitch
    <3>1. PICK p \in DOMAIN Option, i \in Nat \ {0} : p = option /\ i = val
      BY <1>0, <2>2
    <3>2. i \in DOMAIN file.vals[Option[p]] /\ ReadSoFar(p, i)'
      BY <2>1, <2>2, <2>3, <3>1
    <3>3. SwitchRead(l, p, i)'
      BY <2>2, <2>8, <3>1, <3>2 DEF SwitchRead
    <3>4. \A q \in DOMAIN Option : \A k \in DOMAIN file.vals[Option[q]] :
            SwitchRead(l, q, k)' => q < p \/ (q = p /\ k <= i)
      BY <1>0, <2>2, <3>1, PlacesFacts DEF SwitchRead, ReadSoFar
    <3>5. LastSwitch(l, p, i)'
      BY <2>2, <3>3, <3>4 DEF LastSwitch
    <3>6. buttons'[l].mode = mode
      BY <2>1, <2>8
    <3>7. i <= Len(Vals) /\ Len(Vals) \in Nat
      BY <1>0, <2>2, <3>1, <3>2, PlacesFacts
    <3>8. mode = ModeAt(p, i)
      <4>1. CASE Len(Vals) = 1
        <5>1. val = 1
          BY <3>1, <3>7, <4>1
        <5>2. mode = CycleModes
          BY <2>2, <4>1, <5>1 DEF ModeExact
        <5> QED
          BY <2>2, <3>1, <4>1, <5>2 DEF ModeAt
      <4>2. CASE Len(Vals) # 1
        <5>1. Len(Vals) > 1
          <6> DEFINE n == Len(Vals)
          <6>1. n \in Nat /\ i <= n /\ n # 1 /\ i \in Nat \ {0}
            BY <3>1, <3>7, <4>2
          <6> HIDE DEF n
          <6>2. n > 1
            BY <6>1
          <6> QED
            BY <6>2 DEF n
        <5>2. Switches(o)
          BY <2>2, <2>8, <5>1 DEF Switches
        <5>3. mode = Rank(Vals, val)
          BY <1>0, <2>2, <5>2 DEF ModeCounts
        <5> QED
          BY <2>2, <3>1, <4>2, <5>3 DEF ModeAt
      <4> QED
        BY <4>1, <4>2
    <3>9. ModeAt(p, i)' = ModeAt(p, i) /\ i \in DOMAIN file'.vals[Option[p]]
      BY <2>2, <3>2 DEF ModeAt
    <3> QED
      BY <3>5, <3>6, <3>8, <3>9
  <2> QED
    BY <2>1, <2>5, <2>6, <2>7, <2>8
<1> QED
  BY <1>2, <1>3

-----------------------------------------------------------------------------
\* The least and the greatest of a set, where they are known, and that there is a least.
LEMMA MinIs ==
  ASSUME NEW S \in SUBSET Nat, NEW x \in S, \A y \in S : x <= y
  PROVE  Min(S) = x
<1>1. \A z \in S : (\A y \in S : z <= y) => z = x
  OBVIOUS
<1> QED
  BY <1>1 DEF Min

LEMMA MaxIs ==
  ASSUME NEW S \in SUBSET Nat, NEW x \in S, \A y \in S : y <= x
  PROVE  Max(S) = x
<1>1. \A z \in S : (\A y \in S : z >= y) => z = x
  OBVIOUS
<1> QED
  BY <1>1 DEF Max

LEMMA LessOnNat == OpToRel(<, Nat) = {ss \in Nat \X Nat : ss[1] < ss[2]}
BY DEF OpToRel

LEMMA MinExists ==
  ASSUME NEW S \in SUBSET Nat, S # {}
  PROVE  Min(S) \in S
<1> DEFINE R == {ss \in Nat \X Nat : ss[1] < ss[2]}
<1>1. IsWellFoundedOn(R, Nat)
  BY NatLessThanWellFounded, LessOnNat
<1> HIDE DEF R
<1>2. PICK x \in S : \A y \in S : ~(<<y, x>> \in R)
  BY <1>1, WFMin
<1>3. ASSUME NEW y \in S PROVE x <= y
  <2>1. x \in Nat /\ y \in Nat
    OBVIOUS
  <2>2. y < x => <<y, x>> \in R
    BY <2>1 DEF R
  <2> QED
    BY <1>2, <2>1, <2>2
<1> QED
  BY <1>3, MinIs

\* When the options are read, the buttons are those of the file, with its flags.
LEMMA NamedIs ==
  ASSUME ButtonInv, FlagsFrom, pc \notin {"option", "value"}
  PROVE  /\ LettersOf(file) = Named
         /\ \A l \in Named : buttons[l].flags = NamedBy(file, l)
<1>0. ButtonTypeOK /\ FlagsSet /\ option = 12
  BY OptionFacts DEF ButtonInv, ButtonTypeOK
<1>1. ASSUME NEW l \in Letter, NEW o \in NamedBy(file, l) PROVE HasFlag(l, o)
  <2>1. o \in Range(Option) /\ l \in Range(file.vals[o])
    BY DEF NamedBy
  <2>2. PICK p \in DOMAIN Option : o = Option[p]
    BY <2>1 DEF Range
  <2>3. PICK i \in DOMAIN file.vals[o] : l = file.vals[o][i]
    BY <2>1 DEF Range
  <2>4. ReadSoFar(p, i)
    BY <1>0, <2>2, OptionFacts DEF ReadSoFar
  <2> QED
    BY <1>0, <2>2, <2>3, <2>4, LetterAssumption DEF FlagsSet
<1>2. ASSUME NEW l \in Named PROVE buttons[l].flags \subseteq NamedBy(file, l)
  <2>1. buttons[l] \in Button
    BY <1>0, NamedFacts
  <2> QED
    BY <2>1 DEF FlagsFrom, NamedBy, Button
<1>3. Named \subseteq Letter
  BY DEF Named
<1> QED
  BY <1>1, <1>2, <1>3 DEF LettersOf, HasFlag, FlagsFrom

\* The first problem of the codes
LEMMA CodeProblemIs ==
  ASSUME ButtonTypeOK, file.codes # Absent, LettersOf(file) = Named
  PROVE  /\ (\A i \in 1..Cardinality(Named) : ~Problem(i)) => CodeProblem(file) = 0
         /\ \A i \in 1..Cardinality(Named) :
              Problem(i) /\ (\A j \in 1..(i - 1) : ~Problem(j)) => CodeProblem(file) = i
<1> DEFINE n == Cardinality(Named)
           id == [i \in 1..n |-> i]
           I == {i \in 1..Len(id) : NoCodeFor(file, id[i]) \/ file.codes[id[i]] = Bad}
<1>1. n \in Nat
  BY NamedFacts
<1>2. CodeProblem(file) = IF I # {} THEN Min(I) ELSE 0
  BY DEF CodeProblem, SelectInSeq
<1> HIDE DEF n
<1>3. id \in Seq(Nat) /\ Len(id) = n
  BY <1>1
<1>4. I = {i \in 1..n : Problem(i)}
  BY <1>1, <1>3 DEF Problem
<1> HIDE DEF I, id
<1>5. ASSUME NEW i \in 1..n, Problem(i), \A j \in 1..(i - 1) : ~Problem(j)
      PROVE  CodeProblem(file) = i
  <2>1. I \in SUBSET Nat /\ i \in I
    BY <1>1, <1>4, <1>5
  <2>2. \A j \in I : i <= j
    BY <1>1, <1>4, <1>5
  <2>3. Min(I) = i
    BY <2>1, <2>2, MinIs
  <2> QED
    BY <1>2, <2>1, <2>3
<1>6. (\A i \in 1..n : ~Problem(i)) => CodeProblem(file) = 0
  BY <1>2, <1>4
<1> QED
  BY <1>5, <1>6 DEF n

LEMMA CodesReadStep ==
  ASSUME ButtonInv, FlagsFrom, CodesRead, [ButtonNext]_buttonVars
  PROVE  CodesRead'
<1>0. ButtonTypeOK /\ CodesSoFar /\ val \in Nat \ {0} /\ Cardinality(Named) \in Nat
  BY NamedFacts DEF ButtonInv, ButtonTypeOK
<1>1. CASE StartOption \/ IgnoreValue \/ BindButton \/ EndOption
  BY <1>1 DEF StartOption, IgnoreValue, BindButton, EndOption, CodesRead
<1>2. CASE AllOptions
  <2>1. file' = file /\ Named' = Named /\ val' = 1 /\ pc' = IF file.codes = Absent THEN "heuristics" ELSE "codes"
    BY <1>2 DEF AllOptions, Named
  <2> QED
    BY <1>0, <2>1 DEF CodesRead
<1>3. CASE AbortCodes
  <2>1. /\ pc = "codes" /\ val <= Cardinality(Named) /\ ~HasCode /\ file' = file /\ pc' = "aborted"
    BY <1>3 DEF AbortCodes, MoreButtons
  <2>2. LettersOf(file) = Named /\ file.codes # Absent
    BY <1>0, <2>1, NamedIs DEF CodesSoFar
  <2>3. NoCodeFor(file, val)
    <3>1. file.codes \in Seq({Bad} \cup Nat)
      BY <1>0, <2>2, ButtonFileAssumption DEF ButtonTypeOK
    <3>2. Len(file.codes) \in Nat
      BY <3>1
    <3> QED
      BY <1>0, <2>1, <2>2, <3>2 DEF HasCode, NoCodeFor
  <2>4. CodeProblem(file) = val
    BY <1>0, <2>1, <2>2, <2>3, CodeProblemIs DEF Problem, CodesRead
  <2>5. Aborts(file)
    BY <1>0, <2>3, <2>4 DEF Aborts
  <2> QED
    BY <2>1, <2>5 DEF CodesRead
<1>4. CASE ResetCodes
  <2>1. /\ pc = "codes" /\ val <= Cardinality(Named) /\ HasCode /\ file.codes[val] = Bad
        /\ file' = file /\ pc' = "heuristics"
    BY <1>4 DEF ResetCodes, MoreButtons
  <2>2. LettersOf(file) = Named /\ file.codes # Absent
    BY <1>0, <2>1, NamedIs DEF CodesSoFar
  <2>3. ~NoCodeFor(file, val)
    <3>1. file.codes \in Seq({Bad} \cup Nat)
      BY <1>0, <2>2, ButtonFileAssumption DEF ButtonTypeOK
    <3>2. Len(file.codes) \in Nat
      BY <3>1
    <3> QED
      BY <1>0, <2>1, <2>2, <3>2 DEF HasCode, NoCodeFor
  <2>4. CodeProblem(file) = val
    BY <1>0, <2>1, <2>2, CodeProblemIs DEF Problem, CodesRead
  <2>5. CodeProblem(file) # 0 /\ ~Aborts(file)
    BY <1>0, <2>3, <2>4 DEF Aborts
  <2> QED
    BY <2>1, <2>5 DEF CodesRead
<1>5. CASE SetCode
  <2>1. /\ pc = "codes" /\ val <= Cardinality(Named) /\ HasCode /\ file.codes[val] # Bad
        /\ file' = file /\ pc' = "codes" /\ val' = val + 1 /\ file.codes # Absent
    BY <1>0, <1>5 DEF SetCode, MoreButtons, CodesSoFar
  <2>2. LettersOf(file) = Named /\ Named' = Named
    BY <1>0, <1>5, <2>1, NamedIs, SetCodeFacts
  <2>3. ~Problem(val)
    <3>1. file.codes \in Seq({Bad} \cup Nat)
      BY <1>0, <2>1, ButtonFileAssumption DEF ButtonTypeOK
    <3>2. Len(file.codes) \in Nat
      BY <3>1
    <3> QED
      BY <1>0, <2>1, <2>2, <3>2 DEF HasCode, NoCodeFor, Problem
  <2>4. \A i \in 1..val : ~Problem(i)
    BY <1>0, <2>1, <2>3 DEF CodesRead
  <2>5. \A i : Problem(i)' <=> Problem(i)
    BY <2>1 DEF Problem
  <2>6. val' - 1 = val
    BY <1>0, <2>1
  <2> QED
    BY <1>0, <2>1, <2>2, <2>4, <2>5, <2>6 DEF CodesRead
<1>6. CASE AllCodes
  <2>1. /\ pc = "codes" /\ ~(val <= Cardinality(Named)) /\ UNCHANGED <<file, buttons>>
        /\ pc' = "modes"
    BY <1>6 DEF AllCodes, MoreButtons
  <2>2. LettersOf(file) = Named /\ Named' = Named /\ file.codes # Absent
    BY <1>0, <2>1, NamedIs DEF CodesSoFar, Named
  <2>3. \A i \in 1..Cardinality(Named) : ~Problem(i)
    BY <1>0, <2>1 DEF CodesRead
  <2>4. CodeProblem(file) = 0
    BY <1>0, <2>2, <2>3, CodeProblemIs
  <2>5. Named = 1..(val - 1)
    BY <1>0, <2>1, AllCodesFacts DEF CodesSoFar
  <2>6. \A l \in Named : buttons[l].code = CodeOf(file, l)
    BY <1>0, <2>1, <2>2, <2>4, <2>5 DEF CodesSoFar, CodeOf
  <2>7. ~Aborts(file)
    BY <2>4 DEF Aborts
  <2> QED
    BY <2>1, <2>2, <2>6, <2>7 DEF CodesRead
<1>7. CASE SetHeuristicCodes
  <2> DEFINE c == [l \in Letter |-> HeuristicCode(file.small, l)]
  <2>1. c \in [Letter -> Int] /\ \A l \in Letter : c[l] = HeuristicCode(file.small, l)
    BY HeuristicFacts
  <2>2. buttons' = [l \in Letter |-> IF l \in Named THEN [buttons[l] EXCEPT !.code = c[l]] ELSE NoButton]
    BY <1>7 DEF SetHeuristicCodes
  <2> HIDE DEF c
  <2>3. Named' = Named /\ \A l \in Named : buttons'[l].code = c[l]
    BY <1>0, <2>1, <2>2, CodeOnlyFacts
  <2>4. pc = "heuristics" /\ file' = file /\ pc' = "modes"
    BY <1>7 DEF SetHeuristicCodes
  <2>5. ~Aborts(file) /\ (file.codes = Absent \/ CodeProblem(file) # 0)
    BY <2>4 DEF CodesRead, Aborts, CodeProblem
  <2>6. \A l \in Named : buttons'[l].code = CodeOf(file, l)
    BY <1>0, <2>1, <2>3, <2>5, NamedFacts DEF CodeOf
  <2> QED
    BY <2>3, <2>4, <2>5, <2>6 DEF CodesRead
<1>8. CASE CountModes \/ SetKeycode \/ ClearKeycodes \/ AllKeys
  <2>1. /\ pc \in {"modes", "keys"} /\ pc' \in {"keys", "done"}
        /\ UNCHANGED <<file, buttons>> /\ Named' = Named
    BY <1>8 DEF CountModes, SetKeycode, ClearKeycodes, AllKeys, MoreKeys, Named
  <2> QED
    BY <2>1 DEF CodesRead
<1>9. CASE UNCHANGED buttonVars
  <2>1. UNCHANGED <<file, buttons, pc, val>> /\ Named' = Named
    BY <1>9 DEF buttonVars, Named
  <2> QED
    BY <2>1 DEF CodesRead, Problem
<1> QED
  BY <1>1, <1>2, <1>3, <1>4, <1>5, <1>6, <1>7, <1>8, <1>9 DEF ButtonNext

-----------------------------------------------------------------------------
\* The first bad key code, from what is known of the codes before a place
LEMMA BadKeyIs ==
  ASSUME ButtonTypeOK, NEW n \in Nat, n <= Len(file.keys), \A k \in 1..n : file.keys[k] # Bad
  PROVE  /\ BadKey(file) \in Nat
         /\ n = Len(file.keys) => BadKey(file) = 0
         /\ n < Len(file.keys) /\ file.keys[n + 1] = Bad => BadKey(file) = n + 1
         /\ BadKey(file) = 0 \/ BadKey(file) > n
<1> DEFINE I == {i \in 1..Len(file.keys) : file.keys[i] = Bad}
<1>1. BadKey(file) = IF I # {} THEN Min(I) ELSE 0
  BY DEF BadKey, SelectInSeq
<1>2. file.keys \in Seq({Bad} \cup Nat)
  BY ButtonFileAssumption DEF ButtonTypeOK
<1> DEFINE m == Len(file.keys)
<1>3. m \in Nat
  BY <1>2
<1> HIDE DEF m
<1>4. I = {i \in 1..m : file.keys[i] = Bad}
  BY DEF m
<1> HIDE DEF I
<1>5. I \in SUBSET Nat /\ \A i \in I : i > n
  BY <1>3, <1>4
<1>6. I # {} => Min(I) \in I
  BY <1>5, MinExists
<1>7. ASSUME n < m, file.keys[n + 1] = Bad PROVE BadKey(file) = n + 1
  <2>1. n + 1 \in I /\ \A i \in I : n + 1 <= i
    BY <1>3, <1>4, <1>5, <1>7
  <2>2. Min(I) = n + 1
    BY <1>5, <2>1, MinIs
  <2> QED
    BY <1>1, <2>1, <2>2
<1>8. n = m => I = {}
  BY <1>3, <1>4, <1>5
<1>9. BadKey(file) \in Nat /\ (BadKey(file) = 0 \/ BadKey(file) > n)
  <2>1. CASE I = {}
    BY <1>1, <2>1
  <2>2. CASE I # {}
    <3>1. BadKey(file) \in I
      BY <1>1, <1>6, <2>2
    <3> QED
      BY <1>5, <3>1
  <2> QED
    BY <2>1, <2>2
<1>10. n = m => BadKey(file) = 0
  BY <1>1, <1>8
<1> QED
  BY <1>7, <1>9, <1>10 DEF m

LEMMA KeysReadStep ==
  ASSUME ButtonInv, KeysRead, [ButtonNext]_buttonVars
  PROVE  KeysRead'
<1>0. ButtonTypeOK /\ val \in Nat \ {0} /\ MaxKeycodes \in Nat
  BY KeycodesAssumption DEF ButtonInv, ButtonTypeOK
<1> DEFINE m == Len(file.keys)
<1>1. file.keys \in Seq({Bad} \cup Nat) /\ m \in Nat
  <2>1. file.keys \in Seq({Bad} \cup Nat)
    BY <1>0, ButtonFileAssumption DEF ButtonTypeOK
  <2> QED
    BY <2>1
<1>2. CASE StartOption \/ IgnoreValue \/ BindButton \/ EndOption \/ AllOptions
  BY <1>2 DEF StartOption, IgnoreValue, BindButton, EndOption, AllOptions, KeysRead, NoKeycodes
<1>3. CASE AbortCodes \/ ResetCodes \/ SetCode \/ AllCodes \/ SetHeuristicCodes
  BY <1>3 DEF AbortCodes, ResetCodes, SetCode, AllCodes, SetHeuristicCodes, MoreButtons, KeysRead,
              NoKeycodes
<1>4. CASE CountModes
  <2>1. file' = file /\ pc = "modes" /\ pc' = "keys" /\ val' = 1 /\ UNCHANGED <<keycodes, numKeycodes>>
    BY <1>4 DEF CountModes
  <2>2. keycodes = NoKeycodes /\ numKeycodes = 0
    BY <2>1 DEF KeysRead
  <2>3. keycodes = [k \in 1..MaxKeycodes |-> IF k < 1 THEN file.keys[k] ELSE 0]
    BY <1>0, <2>2 DEF NoKeycodes
  <2> QED
    BY <1>0, <1>1, <2>1, <2>2, <2>3 DEF KeysRead
<1>5. CASE SetKeycode
  <2>1. /\ pc = "keys" /\ pc' = "keys" /\ file' = file /\ val <= m /\ val <= MaxKeycodes
        /\ file.keys[val] # Bad /\ val' = val + 1 /\ numKeycodes' = val
        /\ keycodes' = [keycodes EXCEPT ![val] = file.keys[val]]
    BY <1>5 DEF SetKeycode, MoreKeys, GoodKey
  <2>2. /\ \A k \in 1..(val - 1) : file.keys[k] # Bad
        /\ keycodes = [k \in 1..MaxKeycodes |-> IF k < val THEN file.keys[k] ELSE 0]
    BY <2>1 DEF KeysRead
  <2>3. \A k \in 1..val : file.keys[k] # Bad
    BY <1>0, <2>1, <2>2
  <2>4. keycodes' = [k \in 1..MaxKeycodes |-> IF k < val + 1 THEN file.keys[k] ELSE 0]
    <3> DEFINE keys == file.keys
    <3>1. /\ keycodes' = [keycodes EXCEPT ![val] = keys[val]]
          /\ keycodes = [k \in 1..MaxKeycodes |-> IF k < val THEN keys[k] ELSE 0]
      BY <2>1, <2>2
    <3> HIDE DEF keys
    <3>2. keycodes' = [k \in 1..MaxKeycodes |-> IF k = val THEN keys[val] ELSE keycodes[k]]
      BY <3>1
    <3>3. \A k \in 1..MaxKeycodes :
            (IF k = val THEN keys[val] ELSE keycodes[k]) = IF k < val + 1 THEN keys[k] ELSE 0
      BY <1>0, <3>1
    <3>4. keycodes' = [k \in 1..MaxKeycodes |-> IF k < val + 1 THEN keys[k] ELSE 0]
      BY <3>2, <3>3
    <3> QED
      BY <3>4 DEF keys
  <2> HIDE DEF m
  <2>5. val' - 1 = val
    BY <1>0, <2>1
  <2> QED
    BY <1>0, <1>1, <2>1, <2>3, <2>4, <2>5 DEF KeysRead, m
<1>6. CASE ClearKeycodes \/ AllKeys
  <2>1. pc = "keys" /\ file' = file /\ pc' = "done" /\ numKeycodes' = numKeycodes
    BY <1>6 DEF ClearKeycodes, AllKeys, MoreKeys
  <2>2. /\ numKeycodes = val - 1 /\ val - 1 <= MaxKeycodes /\ val - 1 <= m
        /\ \A k \in 1..(val - 1) : file.keys[k] # Bad
        /\ keycodes = [k \in 1..MaxKeycodes |-> IF k < val THEN file.keys[k] ELSE 0]
    BY <2>1 DEF KeysRead
  <2> DEFINE n == val - 1
             b == BadKey(file)
             n0 == IF b = 0 THEN m ELSE b - 1
  <2>3. n \in Nat /\ n <= m /\ n <= MaxKeycodes /\ n + 1 = val
    BY <1>0, <2>2
  <2>4. /\ b \in Nat /\ (b = 0 \/ b > n)
        /\ n = m => b = 0
        /\ n < m /\ file.keys[n + 1] = Bad => b = n + 1
    <3>1. \A k \in 1..n : file.keys[k] # Bad
      BY <2>2
    <3> HIDE DEF n
    <3> QED
      BY <1>0, <2>3, <3>1, BadKeyIs
  <2>5. KeycodesRead(file) = IF n0 <= MaxKeycodes THEN n0 ELSE MaxKeycodes
    BY DEF KeycodesRead
  <2>6. KeycodesOf(file) = [k \in 1..MaxKeycodes |->
                              IF k <= m /\ KeycodesRead(file) = m THEN file.keys[k] ELSE 0]
    BY DEF KeycodesOf
  <2> HIDE DEF b, m
  <2>7. CASE AllKeys
    <3>1. n = m /\ keycodes' = keycodes
      BY <1>0, <1>1, <2>1, <2>2, <2>7 DEF AllKeys, MoreKeys, m
    <3>2. n0 = n
      BY <2>4, <3>1
    <3>3. KeycodesRead(file) = n
      BY <2>3, <2>5, <3>2
    <3>4. KeycodesOf(file) = keycodes
      BY <1>0, <2>2, <2>6, <3>1, <3>3
    <3> QED
      BY <2>1, <2>2, <3>1, <3>3, <3>4 DEF KeysRead
  <2>8. CASE ClearKeycodes
    <3>1. n < m /\ (n >= MaxKeycodes \/ file.keys[n + 1] = Bad) /\ keycodes' = NoKeycodes
      BY <1>0, <1>1, <2>3, <2>8 DEF ClearKeycodes, MoreKeys, GoodKey, NoKeycodes, m
    <3>2. KeycodesRead(file) = n /\ n # m
      <4>1. CASE file.keys[n + 1] = Bad
        <5>1. n0 = n
          BY <2>3, <2>4, <3>1, <4>1
        <5> QED
          BY <2>3, <2>5, <3>1, <5>1
      <4>2. CASE n >= MaxKeycodes
        <5>1. n = MaxKeycodes /\ n0 \in Nat /\ n0 >= n
          BY <1>0, <1>1, <2>3, <2>4, <4>2
        <5> QED
          BY <1>0, <2>3, <2>5, <3>1, <5>1
      <4> QED
        BY <3>1, <4>1, <4>2
    <3>3. KeycodesOf(file) = NoKeycodes
      BY <2>6, <3>2 DEF NoKeycodes
    <3> QED
      BY <2>1, <2>2, <3>1, <3>2, <3>3 DEF KeysRead
  <2> QED
    BY <1>6, <2>7, <2>8
<1>7. CASE UNCHANGED buttonVars
  BY <1>7 DEF buttonVars, KeysRead
<1> QED
  BY <1>2, <1>3, <1>4, <1>5, <1>6, <1>7 DEF ButtonNext

THEOREM GroupInvariance == ButtonSpec => []GroupInv
<1>1. ButtonInit => GroupInv
  <2> SUFFICES ASSUME ButtonInit PROVE GroupInv
    OBVIOUS
  <2>1. Named = {}
    BY DEF ButtonInit, Named
  <2>2. FlagsFrom /\ ModeExact
    BY <2>1 DEF ButtonInit, FlagsFrom, ModeExact
  <2>3. CodesRead /\ KeysRead
    BY DEF ButtonInit, CodesRead, KeysRead, NoKeycodes
  <2> QED
    BY <2>2, <2>3, ButtonInitInv DEF GroupInv
<1>2. GroupInv /\ [ButtonNext]_buttonVars => GroupInv'
  BY ButtonTypeStep, CodesStep, FlagsStep, ModeCountsStep, ModeRankedStep, ModesCountedStep,
     FlagsFromStep, ModeExactStep, CodesReadStep, KeysReadStep DEF GroupInv, ButtonInv
<1> QED
  BY <1>1, <1>2, PTL DEF ButtonSpec

\* The mode the file gives a button is that of the last place that switches modes.
LEMMA ModeIs ==
  ASSUME ButtonInv, FlagsFrom, ModeExact, pc \notin {"option", "value"}, NEW l \in Named
  PROVE  buttons[l].mode = ModeOf(file, l)
<1>0. ButtonTypeOK /\ option = 12 /\ l \in Letter
  BY OptionFacts, NamedFacts DEF ButtonInv, ButtonTypeOK
<1> DEFINE Sw(p) == Option[p] \in NamedBy(file, l) \cap ModeSwitch
           O == {p \in 1..Len(Option) : Sw(p)}
           o == SelectLastInSeq(Option, LAMBDA q : q \in NamedBy(file, l) \cap ModeSwitch)
<1>1. o = IF O # {} THEN Max(O) ELSE 0
  BY DEF SelectLastInSeq
<1>2. O = {p \in 1..11 : Sw(p)} /\ O \in SUBSET Nat
  BY OptionFacts
<1>3. ModeOf(file, l) =
        LET v == file.vals[Option[o]]
        IN  IF o = 0 \/ Len(v) = 1 THEN CycleModes
            ELSE Cardinality({j \in 1..(SelectLastInSeq(v, LAMBDA x : x = l) - 1) : v[j] # Bad})
  BY DEF ModeOf
<1>4. \A p \in DOMAIN Option : \A i \in DOMAIN file.vals[Option[p]] :
        SwitchRead(l, p, i) <=> Option[p] \in ModeSwitch /\ file.vals[Option[p]][i] = l
  BY <1>0, OptionFacts DEF SwitchRead, ReadSoFar
<1>5. \A p \in 1..11 : Sw(p) <=> \E i \in DOMAIN file.vals[Option[p]] : SwitchRead(l, p, i)
  <2> TAKE p \in 1..11
  <2>1. Option[p] \in Range(Option) /\ p \in DOMAIN Option
    BY OptionFacts
  <2> QED
    BY <1>4, <2>1 DEF NamedBy, Range
<1> HIDE DEF o
<1>6. CASE Unswitched(l) /\ buttons[l].mode = CycleModes
  <2>1. O = {}
    BY <1>2, <1>5, <1>6, OptionFacts DEF Unswitched
  <2> QED
    BY <1>1, <1>3, <1>6, <2>1
<1>7. CASE \E p \in DOMAIN Option : \E i \in DOMAIN file.vals[Option[p]] :
             LastSwitch(l, p, i) /\ buttons[l].mode = ModeAt(p, i)
  <2>1. PICK p \in DOMAIN Option : \E i \in DOMAIN file.vals[Option[p]] :
               LastSwitch(l, p, i) /\ buttons[l].mode = ModeAt(p, i)
    BY <1>7
  <2>2. PICK i \in DOMAIN file.vals[Option[p]] : LastSwitch(l, p, i) /\ buttons[l].mode = ModeAt(p, i)
    BY <2>1
  <2>3. p \in 1..11 /\ p \in O
    BY <1>2, <1>5, <2>2, OptionFacts DEF LastSwitch
  <2>4. \A q \in O : q <= p
    <3> SUFFICES ASSUME NEW q \in O PROVE q <= p
      OBVIOUS
    <3>1. q \in 1..11 /\ \E k \in DOMAIN file.vals[Option[q]] : SwitchRead(l, q, k)
      BY <1>2, <1>5
    <3>2. q < p \/ q = p
      BY <2>2, <3>1, OptionFacts DEF LastSwitch
    <3> QED
      BY <2>3, <3>1, <3>2
  <2> HIDE DEF O
  <2>5. o = p /\ o # 0
    BY <1>1, <1>2, <2>3, <2>4, MaxIs
  <2> DEFINE v == file.vals[Option[p]]
  <2>6. v \in Seq({Bad} \cup Letter)
    BY <1>0, <2>3, OptionFacts, ValuesFacts DEF ButtonTypeOK
  <2>7. v[i] = l /\ \A k \in DOMAIN v : v[k] = l => k <= i
    <3>1. v[i] = l /\ Option[p] \in ModeSwitch
      BY <2>2 DEF LastSwitch, SwitchRead
    <3> SUFFICES ASSUME NEW k \in DOMAIN v, v[k] = l PROVE k <= i
      BY <3>1
    <3>2. SwitchRead(l, p, k)
      BY <1>4, <3>1
    <3>3. p < p \/ (p = p /\ k <= i)
      BY <2>2, <3>2 DEF LastSwitch
    <3> QED
      BY <2>3, <3>3
  <2>8. SelectLastInSeq(v, LAMBDA x : x = l) = i
    <3> DEFINE J == {k \in 1..Len(v) : v[k] = l}
    <3>1. SelectLastInSeq(v, LAMBDA x : x = l) = IF J # {} THEN Max(J) ELSE 0
      BY DEF SelectLastInSeq
    <3>2. J \in SUBSET Nat /\ i \in J /\ \A k \in J : k <= i
      BY <2>6, <2>7
    <3> HIDE DEF J
    <3>3. Max(J) = i
      BY <3>2, MaxIs
    <3> QED
      BY <3>1, <3>2, <3>3
  <2>9. ModeOf(file, l) = IF Len(v) = 1 THEN CycleModes
                          ELSE Cardinality({j \in 1..(i - 1) : v[j] # Bad})
    BY <1>3, <2>5, <2>8
  <2> QED
    BY <2>2, <2>9 DEF ModeAt, Rank
<1> QED
  BY <1>0, <1>6, <1>7 DEF ModeExact

\* The buttons, modes and codes at the end are what the file stands for.
THEOREM GroupsTheorem == ButtonSpec => []GroupsRead
<1>1. GroupInv => GroupsRead
  <2> SUFFICES ASSUME GroupInv PROVE GroupsRead
    OBVIOUS
  <2>0. ButtonInv /\ FlagsFrom /\ ModeExact /\ CodesRead /\ KeysRead /\ ButtonTypeOK
    BY DEF GroupInv, ButtonInv
  <2>1. ASSUME pc = "done" PROVE buttons = ButtonsOf(file)
    <3>1. LettersOf(file) = Named /\ \A l \in Named : buttons[l].flags = NamedBy(file, l)
      BY <2>0, <2>1, NamedIs
    <3>2. \A l \in Named : buttons[l].mode = ModeOf(file, l) /\ buttons[l].code = CodeOf(file, l)
      BY <2>0, <2>1, ModeIs DEF CodesRead
    <3>3. \A l \in Named : buttons[l] = [flags |-> NamedBy(file, l), mode |-> ModeOf(file, l),
                                         code |-> CodeOf(file, l)]
      <4> TAKE l \in Named
      <4>1. buttons[l] \in Button
        BY <2>0, NamedFacts
      <4> QED
        BY <3>1, <3>2, <4>1 DEF Button
    <3>4. \A l \in Letter \ Named : buttons[l] = NoButton
      BY DEF Named
    <3>5. buttons = [l \in Letter |-> buttons[l]]
      BY <2>0 DEF ButtonTypeOK
    <3> QED
      BY <3>1, <3>3, <3>4, <3>5 DEF ButtonsOf
  <2>2. ASSUME pc = "done" PROVE numModes = NumModesOf(file)
    <3>1. LettersOf(file) = Named /\ \A l \in Named : buttons[l].flags = NamedBy(file, l)
      BY <2>0, <2>2, NamedIs
    <3>2. \A f : {l \in Named : HasFlag(l, f)} = {l \in LettersOf(file) : f \in NamedBy(file, l)}
      BY <3>1 DEF HasFlag
    <3>3. numModes = [f \in Feature |-> NumModes(f)]
      BY <2>0, <2>2 DEF ButtonInv, ModesCounted
    <3> QED
      BY <3>2, <3>3 DEF NumModes, NumModesOf
  <2> QED
    BY <2>0, <2>1, <2>2 DEF GroupsRead, CodesRead, KeysRead
<1> QED
  BY <1>1, GroupInvariance, PTL
=============================================================================
