----------------------------- MODULE PrintReload -----------------------------
(***************************************************************************)
(* A device is printed (libwacom_print_device_description) and the text is   *)
(* read back as a .tablet file, again and again, as                          *)
(* libwacom-list-local-devices --format=datafile and test/test-dbverify.c do *)
(* once: what a file says has to survive it.                                 *)
(***************************************************************************)
EXTENDS TabletFile

CONSTANT File  \* the .tablet files

\* A list, a text of a match, and the keys of a .tablet file that are lists or numbers.  A
\* code that is read is not 0 (BTN_MISC); no text and no printed match is NULL.
IsList(l)      == Len(l) \in Nat /\ DOMAIN l = 1..Len(l)
IsMatchText(s) == IsList(s) /\ \A i \in 4..Len(s) : <<s[i]>> # Null
IsTabletFile(f) ==
  /\ IsList(f.deviceMatch) /\ \A i \in DOMAIN f.deviceMatch : IsMatchText(f.deviceMatch[i])
  /\ f.pairedID # Null => /\ IsMatchText(f.pairedID)
                          /\ IsMatchString(f.pairedID) =>
                               PrintMatch(MatchFromString(f.pairedID)) # Null
  /\ {f.width, f.height} \subseteq Int
  /\ f.styli # Null => IsList(f.styli)
  /\ IsList(f.statusLEDs)
  /\ f.vals \in [Range(Option) -> Seq({Bad} \cup Letter)]
  /\ f.codes = Absent \/ f.codes \in Seq({Bad} \cup (Nat \ {0}))
  /\ f.numModes \in [Feature -> Int]
ASSUME FileAssumption == \A f \in File : IsTabletFile(f)
ASSUME NullAssumption ==
  /\ Null # FALSE /\ Null \notin Seq(IntegrationFlag)
  /\ Null \notin Seq([tool : Int] \cup [vid : Int, tool : Int])
  /\ Bad \notin Nat /\ Absent \notin Seq({Bad} \cup Nat)

NoFile == Null

VARIABLES
  file,    \* the file at first
  pc,
  text,    \* the file now
  device,  \* the device parsed last
  before,  \* the one before it
  printed  \* the text printed before this one
reloadVars == <<file, pc, text, device, before, printed>>

ReloadInit ==
  /\ file \in {f \in File : HasDevice(f)}
  /\ text = file
  /\ pc = "parse"
  /\ device = Null /\ before = Null
  /\ printed = NoFile

ParseText ==
  /\ pc = "parse" /\ ~FileAborts(text)
  /\ before' = device
  /\ device' = Parse(text)
  /\ pc' = "print"
  /\ UNCHANGED <<file, text, printed>>

AbortParse ==
  /\ pc = "parse" /\ FileAborts(text)
  /\ pc' = "aborted"
  /\ UNCHANGED <<file, text, device, before, printed>>

PrintDevice ==
  /\ pc = "print"
  /\ text' = Describe(device)
  /\ printed' = IF before = Null THEN NoFile ELSE text
  /\ pc' = "parse"
  /\ UNCHANGED <<file, device, before>>

ReloadNext == ParseText \/ AbortParse \/ PrintDevice

ReloadSpec == ReloadInit /\ [][ReloadNext]_reloadVars

-----------------------------------------------------------------------------
\* What printing leaves out, by the keys of the file: buttons after a letter that is
\* skipped; numbers of modes without a button; styli of a tablet without a stylus.
Whole(f) ==
  LET g == ButtonKeys(f)
  IN  /\ LettersOf(g) = 1..Cardinality(LettersOf(g))
      /\ \A ft \in Feature : f.numModes[ft] >= 0
      /\ LettersOf(g) = {} => \A ft \in Feature : f.numModes[ft] = 0
      /\ StyliOf(f) # <<>> => f.stylus = TRUE

\* The buttons of a mode switch are in the order of their letters, once each.
InOrder(f) == \A o \in ModeSwitch : /\ Bad \notin Range(f.vals[o])
                                   /\ \A i, j \in DOMAIN f.vals[o] : i < j => f.vals[o][i] < f.vals[o][j]

\* test-dbverify: a device that is written out and read back in compares as the same,
\* either way round, with all its matches.
ReadsBack ==
  pc = "print" /\ before # Null /\ Whole(file) =>
    Same(before, device, TRUE) /\ Same(device, before, TRUE)

\* And no client can tell the two apart by a getter, but for those of the key codes,
\* which are not printed.
AnswersKept ==
  pc = "print" /\ before # Null /\ Whole(file) /\ InOrder(file) => Answers(device) = Answers(before)

\* What was printed and read back prints as the same text, and no file that loads is
\* printed as one that ends the process.
Settles ==
  Whole(file) => /\ pc = "parse" /\ printed # NoFile => text = printed
                 /\ pc = "aborted" => device = Null
=============================================================================
