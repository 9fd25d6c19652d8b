---------------------------- MODULE LoadersProofs ----------------------------
(***************************************************************************)
(* Theorems about the two loaders, for any number of directories and files,  *)
(* whatever is in them, and any order of readdir: first TabletLoad, then      *)
(* StylusLoad.                                                               *)
(***************************************************************************)
EXTENDS TabletLoad, StylusLoad, FiniteSetTheorems, TLAPS

\* The matches arrays, the empty one included, are sequences of match strings
\* that hold no string twice.
LEMMA ArrayFacts ==
  ASSUME NEW s \in MatchArrays \cup {<<>>}
  PROVE  /\ s \in Seq(MatchString)
         /\ Len(s) \in Nat
         /\ \A i \in 1..Len(s) : s[i] \in MatchString
         /\ \A i, j \in 1..Len(s) : s[i] = s[j] => i = j
<1>1. s \in Seq(MatchString)
  <2>1. CASE s \in MatchArrays
    BY <2>1, ArraysAssumption
  <2>2. CASE s = <<>>
    BY <2>2
  <2> QED
    BY <2>1, <2>2
<1>2. \A i, j \in 1..Len(s) : s[i] = s[j] => i = j
  <2>1. CASE s \in MatchArrays
    BY <2>1, ArraysAssumption
  <2>2. CASE s = <<>>
    BY <2>2
  <2> QED
    BY <2>1, <2>2
<1> QED
  BY <1>1, <1>2

\* The initial states satisfy the invariant.
LEMMA InitInv == TabletInit => TabletInv
<1> SUFFICES ASSUME TabletInit PROVE TabletInv
  OBVIOUS
<1> USE DEF TabletInit, DiskInit, DirsInit, DirStatus
<1>1. TabletTypeOK
  BY NDirsAssumption DEF TabletTypeOK, Dir, Device
<1>2. DiskInv
  BY DEF DiskInv
<1>3. LoopInv
  BY NDirsAssumption DEF LoopInv, Dir
<1>4. \A f \in files : ~Processed(f)
  BY DEF Processed, Device, Dir
<1>5. NamesInv
  BY <1>4 DEF NamesInv
<1>6. TableInv
  <2> SUFFICES ASSUME NEW m \in MatchString, NEW f \in Device PROVE deviceHt[m] # f /\ ~Processed(f)
    BY DEF TableInv
  <2>1. deviceHt[m] = NoDevice
    OBVIOUS
  <2> QED
    BY <2>1, <1>4, NoDeviceAssumption DEF Processed
<1>7. FailInv
  BY DEF FailInv
<1> QED
  BY <1>1, <1>2, <1>3, <1>5, <1>6, <1>7 DEF TabletInv

\* What is on disk does not change, so neither does which files are visible.
LEMMA VisibleStays ==
  ASSUME files' = files, NEW f PROVE Table!Visible(f)' <=> Table!Visible(f)
BY DEF Table!Visible

\* The files returned by readdir after a step, and before it.
LEMMA ProcessedStep ==
  ASSUME TabletInv, NEW f \in files
  PROVE  /\ OpenTabletDir \/ MissingTabletDir \/ UnreadableTabletDir
             => (Processed(f)' <=> Processed(f))
         /\ InsertMatch \/ DuplicateMatch \/ FinishTablet \/ CloseTabletDir \/ AllTabletDirs
             => (Processed(f)' <=> Processed(f))
         /\ \A n \in FileName :
              SkipShadowedFile(n) \/ SkipInvalidFile(n) \/ ParseTablet(n)
                => /\ ~Processed(<<tabletDir, n>>)
                   /\ Processed(f)' <=> Processed(f) \/ f = <<tabletDir, n>>
<1> USE DEF TabletInv, TabletTypeOK, DiskInv, LoopInv, Processed, diskVars, Device, Dir
<1>0. f \in Dir \X FileName /\ f = <<f[1], f[2]>> /\ f[1] \in 1..NDirs /\ f[2] \in FileName
  OBVIOUS
<1>1. OpenTabletDir => (Processed(f)' <=> Processed(f))
  BY <1>0, NDirsAssumption DEF OpenTabletDir
<1>2. MissingTabletDir => (Processed(f)' <=> Processed(f))
  BY <1>0, NDirsAssumption DEF MissingTabletDir
<1>3. UnreadableTabletDir => (Processed(f)' <=> Processed(f))
  BY <1>0, NDirsAssumption DEF UnreadableTabletDir
<1>4. InsertMatch \/ DuplicateMatch \/ FinishTablet => (Processed(f)' <=> Processed(f))
  BY <1>0 DEF InsertMatch, DuplicateMatch, FinishTablet
<1>5. CloseTabletDir => (Processed(f)' <=> Processed(f))
  BY <1>0, NDirsAssumption DEF CloseTabletDir
<1>6. AllTabletDirs => (Processed(f)' <=> Processed(f))
  BY <1>0, NDirsAssumption DEF AllTabletDirs
<1>7. ASSUME NEW n \in FileName,
             SkipShadowedFile(n) \/ SkipInvalidFile(n) \/ ParseTablet(n)
      PROVE  /\ ~Processed(<<tabletDir, n>>)
             /\ Processed(f)' <=> Processed(f) \/ f = <<tabletDir, n>>
  BY <1>0, <1>7, NDirsAssumption DEF SkipShadowedFile, SkipInvalidFile, ParseTablet
<1> QED
  BY <1>1, <1>2, <1>3, <1>4, <1>5, <1>6, <1>7

\* A step that keeps which files are processed, the table and the device being
\* entered keeps what the table holds.
LEMMA NothingEntered ==
  ASSUME TabletInv, UNCHANGED <<files, matches, parsedFilenames, deviceHt, cur, idx>>,
         \A f \in files : Processed(f)' <=> Processed(f)
  PROVE  NamesInv' /\ TableInv'
<1>1. NamesInv'
  BY DEF TabletInv, NamesInv
<1>2. TableInv'
  <2> SUFFICES ASSUME NEW m \in MatchString, NEW f \in Device
               PROVE deviceHt'[m] = f <=> Processed(f)' /\ Table!Visible(f)' /\ Entered(f, m)'
    BY DEF TableInv
  <2>1. deviceHt[m] = f <=> Processed(f) /\ Table!Visible(f) /\ Entered(f, m)
    BY DEF TabletInv, TableInv
  <2>2. Entered(f, m)' <=> Entered(f, m)
    BY DEF Entered
  <2>3. Processed(f)' <=> Processed(f)
    BY DEF Processed
  <2> QED
    BY <2>1, <2>2, <2>3, VisibleStays
<1> QED
  BY <1>1, <1>2

\* A name is in parsed_filenames exactly if an earlier directory hides it.
LEMMA ShadowedNames ==
  ASSUME TabletInv, NEW n \in unread, tabletPc = "readdir"
  PROVE  /\ <<tabletDir, n>> \in files
         /\ Table!Visible(<<tabletDir, n>>) <=> n \notin parsedFilenames
<1> USE DEF TabletInv, TabletTypeOK, LoopInv, Device, Dir
<1>1. <<tabletDir, n>> \in files
  OBVIOUS
<1>2. ASSUME NEW f \in files, f[2] = n
      PROVE  Processed(f) <=> f[1] < tabletDir
  <2>1. f = <<f[1], n>> /\ f[1] \in 1..NDirs
    BY <1>2
  <2>2. f[1] = tabletDir => f[2] \in unread
    BY <2>1
  <2> QED
    BY <2>1, <2>2 DEF Processed
<1>3. n \in parsedFilenames <=> \E f \in files : f[1] < tabletDir /\ f[2] = n
  BY <1>2 DEF NamesInv
<1>4. Table!Visible(<<tabletDir, n>>)
        <=> \A e \in 1..NDirs : e < tabletDir => <<e, n>> \notin files
  BY <1>1 DEF Table!Visible, Table!Dir
<1>5. ASSUME NEW f \in files, f[1] < tabletDir, f[2] = n
      PROVE  \E e \in 1..NDirs : e < tabletDir /\ <<e, n>> \in files
  <2>1. f = <<f[1], n>> /\ f[1] \in 1..NDirs
    BY <1>5
  <2> QED
    BY <1>5, <2>1
<1>6. ASSUME NEW e \in 1..NDirs, e < tabletDir, <<e, n>> \in files
      PROVE  \E f \in files : f[1] < tabletDir /\ f[2] = n
  BY <1>6
<1> QED
  BY <1>1, <1>3, <1>4, <1>5, <1>6

\* What a shadowed or invalid file adds to the table: nothing.
LEMMA FileSkipped ==
  ASSUME TabletInv, NEW n \in FileName, SkipShadowedFile(n) \/ SkipInvalidFile(n)
  PROVE  NamesInv' /\ TableInv'
<1> DEFINE new == <<tabletDir, n>>
<1> USE DEF SkipShadowedFile, SkipInvalidFile, diskVars
<1>1. new \in files /\ (Table!Visible(new) <=> ~AlreadyParsed(n))
  BY ShadowedNames DEF AlreadyParsed
<1>2. \A f \in files : Processed(f)' <=> Processed(f) \/ f = new
  BY ProcessedStep
<1>3. parsedFilenames' = parsedFilenames \cup {n}
  BY DEF AlreadyParsed
<1>4. NamesInv'
  <2>1. \A f \in files : f[2] \in FileName
    BY DEF TabletInv, TabletTypeOK, Device
  <2>2. new[2] = n
    OBVIOUS
  <2> QED
    BY <1>1, <1>2, <1>3, <2>1, <2>2 DEF TabletInv, NamesInv
<1>5. TableInv'
  <2> SUFFICES ASSUME NEW m \in MatchString, NEW f \in Device
               PROVE deviceHt'[m] = f <=> Processed(f)' /\ Table!Visible(f)' /\ Entered(f, m)'
    BY DEF TableInv
  <2>1. deviceHt[m] = f <=> Processed(f) /\ Table!Visible(f) /\ Entered(f, m)
    BY DEF TabletInv, TableInv
  <2>2. Entered(f, m)' <=> Entered(f, m)
    BY DEF Entered
  <2>3. f = new => ~Table!Visible(f) \/ ~Entered(f, m)
    BY <1>1 DEF Entered
  <2>4. Processed(f)' <=> Processed(f) \/ f = new
    BY <1>1, <1>2 DEF Processed
  <2> QED
    BY <2>1, <2>2, <2>3, <2>4, VisibleStays
<1> QED
  BY <1>4, <1>5

\* A parsed file is visible, and none of its matches has an entry yet.
LEMMA TabletParsed ==
  ASSUME TabletInv, NEW n \in FileName, ParseTablet(n)
  PROVE  NamesInv' /\ TableInv' /\ Table!Visible(<<tabletDir, n>>)' /\ Processed(<<tabletDir, n>>)'
<1> DEFINE new == <<tabletDir, n>>
<1> USE DEF ParseTablet, diskVars
<1>1. new \in files /\ Table!Visible(new)
  BY ShadowedNames DEF AlreadyParsed
<1>2. \A f \in files : Processed(f)' <=> Processed(f) \/ f = new
  BY ProcessedStep
<1>3. ~Processed(new)
  BY <1>1, ProcessedStep
<1>4. NamesInv'
  <2>1. \A f \in files : f[2] \in FileName
    BY DEF TabletInv, TabletTypeOK, Device
  <2>2. new[2] = n
    OBVIOUS
  <2> QED
    BY <1>1, <1>2, <2>1, <2>2 DEF TabletInv, NamesInv
<1>5. cur = NoDevice /\ new \in Device /\ new # NoDevice
  BY <1>1, NoDeviceAssumption DEF TabletInv, LoopInv, TabletTypeOK
<1>6. TableInv'
  <2> SUFFICES ASSUME NEW m \in MatchString, NEW f \in Device
               PROVE deviceHt'[m] = f <=> Processed(f)' /\ Table!Visible(f)' /\ Entered(f, m)'
    BY DEF TableInv
  <2>1. deviceHt[m] = f <=> Processed(f) /\ Table!Visible(f) /\ Entered(f, m)
    BY DEF TabletInv, TableInv
  <2>2. CASE f = new
    <3>1. ~Entered(f, m)'
      BY <2>2 DEF Entered
    <3>2. deviceHt[m] # f
      BY <1>3, <2>1, <2>2
    <3> QED
      BY <3>1, <3>2
  <2>3. CASE f # new
    <3>1. f # cur
      BY <1>5, NoDeviceAssumption
    <3>2. Entered(f, m)' <=> Entered(f, m)
      BY <2>3, <3>1 DEF Entered
    <3>3. Processed(f)' <=> Processed(f)
      BY <2>3, <1>2 DEF Processed
    <3> QED
      BY <2>1, <3>2, <3>3, VisibleStays
  <2> QED
    BY <2>2, <2>3
<1>7. Table!Visible(new)' /\ Processed(new)'
  BY <1>1, <1>2, VisibleStays
<1> QED
  BY <1>4, <1>6, <1>7

\* The match string at idx, and the device being entered.
LEMMA CurFacts ==
  ASSUME TabletInv, tabletPc = "insert"
  PROVE  /\ cur \in files /\ cur \in Device /\ cur # NoDevice
         /\ Processed(cur) /\ Table!Visible(cur)
         /\ matches[cur] \in MatchArrays \cup {<<>>}
         /\ Len(matches[cur]) \in Nat /\ idx \in Nat \ {0}
         /\ \A i \in 1..Len(matches[cur]) : matches[cur][i] \in MatchString
         /\ \A i, j \in 1..Len(matches[cur]) : matches[cur][i] = matches[cur][j] => i = j
<1>1. cur # NoDevice /\ Processed(cur) /\ Table!Visible(cur)
  BY DEF TabletInv, LoopInv
<1>2. cur \in files /\ cur \in Device
  BY <1>1 DEF TabletInv, TabletTypeOK, Processed
<1>3. matches[cur] \in MatchArrays \cup {<<>>} /\ idx \in Nat \ {0}
  BY <1>2 DEF TabletInv, TabletTypeOK
<1> QED
  BY <1>1, <1>2, <1>3, ArrayFacts

\* One more match of the device has its entry, and no other entry changes.
LEMMA MatchInserted ==
  ASSUME TabletInv, InsertMatch
  PROVE  NamesInv' /\ TableInv'
<1> DEFINE new == matches[cur][idx]
<1> USE DEF InsertMatch, diskVars
<1>1. new \in MatchString /\ deviceHt[new] = NoDevice /\ idx \in 1..Len(matches[cur])
  BY CurFacts DEF Taken
<1>2. \A f \in files : Processed(f)' <=> Processed(f)
  BY ProcessedStep
<1>3. NamesInv'
  BY <1>2 DEF TabletInv, NamesInv
<1>4. TableInv'
  <2> SUFFICES ASSUME NEW m \in MatchString, NEW f \in Device
               PROVE deviceHt'[m] = f <=> Processed(f)' /\ Table!Visible(f)' /\ Entered(f, m)'
    BY DEF TableInv
  <2>1. deviceHt[m] = f <=> Processed(f) /\ Table!Visible(f) /\ Entered(f, m)
    BY DEF TabletInv, TableInv
  <2>2. Processed(f)' <=> Processed(f)
    BY <1>2 DEF Processed
  <2>3. deviceHt'[m] = IF m = new THEN cur ELSE deviceHt[m]
    BY <1>1 DEF TabletInv, TabletTypeOK
  <2>4. Entered(f, m)' <=> Entered(f, m) \/ (f = cur /\ m = new)
    BY <1>1, CurFacts DEF Entered
  <2>5. CASE m = new
    <3>1. f # NoDevice
      BY NoDeviceAssumption
    <3>2. deviceHt[m] # f
      BY <1>1, <2>5, <3>1
    <3> QED
      BY <2>1, <2>2, <2>3, <2>4, <2>5, <3>2, VisibleStays, CurFacts
  <2>6. CASE m # new
    BY <2>1, <2>2, <2>3, <2>4, <2>6, VisibleStays
  <2> QED
    BY <2>5, <2>6
<1> QED
  BY <1>3, <1>4

\* A taken match string belongs to another visible file: the two files clash.
LEMMA DuplicateClashes ==
  ASSUME TabletInv, DuplicateMatch
  PROVE  Table!Clash'
<1> DEFINE m == matches[cur][idx]
           f == deviceHt[m]
<1> USE DEF DuplicateMatch, diskVars
<1>1. m \in MatchString /\ idx \in 1..Len(matches[cur])
  BY CurFacts
<1>2. f \in Device
  BY <1>1 DEF Taken, TabletInv, TabletTypeOK
<1>3. Processed(f) /\ Table!Visible(f) /\ Entered(f, m)
  BY <1>1, <1>2 DEF TabletInv, TableInv
<1>4. f # cur
  BY <1>1, <1>3, CurFacts DEF Entered
<1>5. f \in files /\ cur \in files
  BY <1>3, CurFacts DEF Processed
<1>6. Table!Claims(f, m) /\ Table!Claims(cur, m)
  BY <1>1, <1>3, CurFacts DEF Table!Claims, Table!HasMatch, Entered
<1>7. Table!Clash
  BY <1>1, <1>4, <1>5, <1>6 DEF Table!Clash
<1> QED
  BY <1>7 DEF Table!Clash, Table!Claims, Table!HasMatch, Table!Visible

\* The device is in the table under each of its matches.
LEMMA TabletFinished ==
  ASSUME TabletInv, FinishTablet
  PROVE  NamesInv' /\ TableInv'
<1> USE DEF FinishTablet, diskVars
<1>1. \A f \in files : Processed(f)' <=> Processed(f)
  BY ProcessedStep
<1>2. NamesInv'
  BY <1>1 DEF TabletInv, NamesInv
<1>3. TableInv'
  <2> SUFFICES ASSUME NEW m \in MatchString, NEW f \in Device
               PROVE deviceHt'[m] = f <=> Processed(f)' /\ Table!Visible(f)' /\ Entered(f, m)'
    BY DEF TableInv
  <2>1. deviceHt[m] = f <=> Processed(f) /\ Table!Visible(f) /\ Entered(f, m)
    BY DEF TabletInv, TableInv
  <2>2. Processed(f)' <=> Processed(f)
    BY <1>1 DEF Processed
  <2>3. f # cur'
    BY NoDeviceAssumption
  <2>4. Entered(f, m)' <=> Entered(f, m)
    BY <2>3, CurFacts DEF Entered
  <2> QED
    BY <2>1, <2>2, <2>4, VisibleStays
<1> QED
  BY <1>2, <1>3

\* Every step preserves the invariant.
LEMMA StepInv == TabletInv /\ [TabletNext]_tabletVars => TabletInv'
<1> SUFFICES ASSUME TabletInv, [TabletNext]_tabletVars PROVE TabletInv'
  OBVIOUS
<1> USE DEF diskVars
<1>1. DiskInv /\ files' = files /\ matches' = matches /\ dirStatus' = dirStatus
  BY DEF TabletInv, TabletNext, TabletStep, tabletVars, OpenTabletDir, MissingTabletDir,
         UnreadableTabletDir, SkipShadowedFile, SkipInvalidFile, ParseTablet, InsertMatch,
         DuplicateMatch, FinishTablet, CloseTabletDir, AllTabletDirs
<1>2. DiskInv'
  BY <1>1 DEF DiskInv
<1>3. Table!Clash' <=> Table!Clash
  BY <1>1 DEF Table!Clash, Table!Claims, Table!Visible, Table!HasMatch
<1>4. Table!Unreadable' <=> Table!Unreadable
  BY <1>1 DEF Table!Unreadable
<1> USE NDirsAssumption
<1>5. CASE OpenTabletDir
  <2> USE <1>5 DEF OpenTabletDir
  <2>1. TabletTypeOK'
    BY DEF TabletInv, TabletTypeOK
  <2>2. LoopInv'
    BY NoDeviceAssumption DEF TabletInv, LoopInv, TabletTypeOK, Dir
  <2>3. \A f \in files : Processed(f)' <=> Processed(f)
    BY ProcessedStep
  <2>4. FailInv'
    BY DEF FailInv
  <2> QED
    BY <1>2, <2>1, <2>2, <2>3, <2>4, NothingEntered DEF TabletInv
<1>6. CASE MissingTabletDir
  <2> USE <1>6 DEF MissingTabletDir
  <2>1. TabletTypeOK'
    BY DEF TabletInv, TabletTypeOK
  <2>2. LoopInv'
    <3>1. tabletDir \in 1..(NDirs + 1) /\ cur = NoDevice /\ unread = {}
      BY DEF TabletInv, TabletTypeOK, LoopInv
    <3>2. \A d \in Dir : d < tabletDir + 1 => dirStatus[d] # "unreadable"
      BY <3>1 DEF TabletInv, LoopInv, Dir
    <3> QED
      BY <3>1, <3>2 DEF LoopInv
  <2>3. \A f \in files : Processed(f)' <=> Processed(f)
    BY ProcessedStep
  <2>4. FailInv'
    BY DEF FailInv
  <2> QED
    BY <1>2, <2>1, <2>2, <2>3, <2>4, NothingEntered DEF TabletInv
<1>7. CASE UnreadableTabletDir
  <2> USE <1>7 DEF UnreadableTabletDir
  <2>1. TabletTypeOK'
    BY DEF TabletInv, TabletTypeOK
  <2>2. LoopInv'
    BY NoDeviceAssumption DEF TabletInv, LoopInv, TabletTypeOK, Dir
  <2>3. \A f \in files : Processed(f)' <=> Processed(f)
    BY ProcessedStep
  <2>4. FailInv'
    BY <1>4 DEF FailInv, Table!Unreadable, Table!Dir, TabletInv, TabletTypeOK
  <2> QED
    BY <1>2, <2>1, <2>2, <2>3, <2>4, NothingEntered DEF TabletInv
<1>8. ASSUME NEW n \in FileName, SkipShadowedFile(n) \/ SkipInvalidFile(n)
      PROVE  TabletInv'
  <2> USE <1>8 DEF SkipShadowedFile, SkipInvalidFile
  <2>1. TabletTypeOK'
    BY DEF TabletInv, TabletTypeOK
  <2>2. LoopInv'
    BY DEF TabletInv, LoopInv, TabletTypeOK, Dir
  <2>3. FailInv'
    BY DEF FailInv
  <2> QED
    BY <1>2, <2>1, <2>2, <2>3, FileSkipped DEF TabletInv
<1>9. ASSUME NEW n \in FileName, ParseTablet(n)
      PROVE  TabletInv'
  <2> USE <1>9 DEF ParseTablet
  <2>1. <<tabletDir, n>> \in Device /\ tabletDir <= NDirs
    BY DEF TabletInv, LoopInv, TabletTypeOK
  <2>2. TabletTypeOK'
    BY <2>1 DEF TabletInv, TabletTypeOK
  <2>3. Len(matches[<<tabletDir, n>>]) \in Nat
    BY <2>1, ArrayFacts DEF TabletInv, TabletTypeOK
  <2>4. LoopInv'
    <3>1. cur' # NoDevice
      BY <2>1, NoDeviceAssumption
    <3>2. Processed(cur)' /\ Table!Visible(cur)'
      BY TabletParsed DEF Processed, Table!Visible
    <3> QED
      BY <2>1, <2>3, <3>1, <3>2 DEF TabletInv, LoopInv, TabletTypeOK, Dir
  <2>5. FailInv'
    BY DEF FailInv
  <2> QED
    BY <1>2, <2>2, <2>4, <2>5, TabletParsed DEF TabletInv
<1>10. CASE InsertMatch
  <2> USE <1>10 DEF InsertMatch
  <2>1. matches[cur][idx] \in MatchString
    BY CurFacts
  <2>2. TabletTypeOK'
    BY <2>1, CurFacts DEF TabletInv, TabletTypeOK
  <2>3. Processed(cur)' /\ Table!Visible(cur)'
    BY CurFacts, ProcessedStep, VisibleStays
  <2>4. LoopInv'
    BY <2>3, CurFacts DEF TabletInv, LoopInv, TabletTypeOK, Dir
  <2>5. FailInv'
    BY DEF FailInv
  <2> QED
    BY <1>2, <2>2, <2>4, <2>5, MatchInserted DEF TabletInv
<1>11. CASE DuplicateMatch
  <2> USE <1>11 DEF DuplicateMatch
  <2>1. TabletTypeOK'
    BY DEF TabletInv, TabletTypeOK
  <2>2. Processed(cur)' /\ Table!Visible(cur)'
    BY CurFacts, ProcessedStep, VisibleStays
  <2>3. LoopInv'
    BY <2>2, CurFacts DEF TabletInv, LoopInv, TabletTypeOK, Dir
  <2>4. \A f \in files : Processed(f)' <=> Processed(f)
    BY ProcessedStep
  <2>5. FailInv'
    BY DuplicateClashes DEF FailInv
  <2> QED
    BY <1>2, <2>1, <2>3, <2>4, <2>5, NothingEntered DEF TabletInv
<1>12. CASE FinishTablet
  <2> USE <1>12 DEF FinishTablet
  <2>1. TabletTypeOK'
    BY CurFacts DEF TabletInv, TabletTypeOK
  <2>2. LoopInv'
    BY DEF TabletInv, LoopInv, TabletTypeOK, Dir
  <2>3. FailInv'
    BY DEF FailInv
  <2> QED
    BY <1>2, <2>1, <2>2, <2>3, TabletFinished DEF TabletInv
<1>13. CASE CloseTabletDir
  <2> USE <1>13 DEF CloseTabletDir
  <2>1. TabletTypeOK'
    BY DEF TabletInv, TabletTypeOK, LoopInv
  <2>2. LoopInv'
    BY DEF TabletInv, LoopInv, TabletTypeOK, Dir
  <2>3. \A f \in files : Processed(f)' <=> Processed(f)
    BY ProcessedStep
  <2>4. FailInv'
    BY DEF FailInv
  <2> QED
    BY <1>2, <2>1, <2>2, <2>3, <2>4, NothingEntered DEF TabletInv
<1>14. CASE AllTabletDirs
  <2> USE <1>14 DEF AllTabletDirs
  <2>1. TabletTypeOK'
    BY DEF TabletInv, TabletTypeOK
  <2>2. LoopInv'
    BY DEF TabletInv, LoopInv, TabletTypeOK, Dir
  <2>3. \A f \in files : Processed(f)' <=> Processed(f)
    BY ProcessedStep
  <2>4. FailInv'
    BY DEF FailInv
  <2> QED
    BY <1>2, <2>1, <2>2, <2>3, <2>4, NothingEntered DEF TabletInv
<1>15. CASE UNCHANGED tabletVars
  <2> USE <1>15 DEF tabletVars
  <2>1. TabletTypeOK' /\ FailInv'
    BY <1>3, <1>4 DEF TabletInv, TabletTypeOK, FailInv
  <2>2. \A f : Processed(f)' <=> Processed(f)
    BY DEF Processed
  <2>3. LoopInv'
    BY <2>2, VisibleStays DEF TabletInv, LoopInv
  <2> QED
    BY <1>2, <2>1, <2>2, <2>3, NothingEntered DEF TabletInv
<1> QED
  BY <1>5, <1>6, <1>7, <1>8, <1>9, <1>10, <1>11, <1>12, <1>13, <1>14, <1>15 DEF TabletNext, TabletStep

\* Half-way through the load, for any directories: the names remembered and the
\* table are those of the files returned so far.
THEOREM TabletInvariance == TabletSpec => []TabletInv
BY InitInv, StepInv, PTL DEF TabletSpec

-----------------------------------------------------------------------------
LEMMA EntriesFinite == \A f : IsFiniteSet(EntriesOf(f))
BY NamesAssumption, FS_Subset DEF EntriesOf

LEMMA RefcntStep == TabletInv /\ RefcntExact /\ [TabletNext]_tabletVars => RefcntExact'
<1> SUFFICES ASSUME TabletInv, RefcntExact, [TabletNext]_tabletVars, NEW f \in Device
             PROVE  refcnt'[f] = Cardinality(EntriesOf(f)') + (IF f = cur' THEN 1 ELSE 0)
  BY DEF RefcntExact
<1> USE DEF diskVars
<1>1. refcnt[f] = Cardinality(EntriesOf(f)) + (IF f = cur THEN 1 ELSE 0)
  BY DEF RefcntExact
<1>2. Cardinality(EntriesOf(f)) \in Nat
  BY EntriesFinite, FS_CardinalityType
<1>3. refcnt \in [Device -> Int] /\ deviceHt \in [MatchString -> Device \cup {NoDevice}]
  BY DEF TabletInv, TabletTypeOK
<1>4. ASSUME NEW n \in FileName, ParseTablet(n)
      PROVE  refcnt'[f] = Cardinality(EntriesOf(f)') + (IF f = cur' THEN 1 ELSE 0)
  <2> DEFINE new == <<tabletDir, n>>
  <2> USE <1>4 DEF ParseTablet
  <2>1. new \in files /\ new \in Device /\ ~Processed(new)
    BY ShadowedNames, ProcessedStep DEF TabletInv, TabletTypeOK
  <2>2. cur = NoDevice /\ f # NoDevice
    BY NoDeviceAssumption DEF TabletInv, LoopInv
  <2>3. EntriesOf(f)' = EntriesOf(f)
    BY DEF EntriesOf
  <2>4. CASE f = new
    <3>0. ~Processed(f)
      BY <2>1, <2>4
    <3>1. ASSUME NEW m \in MatchString PROVE deviceHt[m] # f
      BY <3>0 DEF TabletInv, TableInv
    <3>2. EntriesOf(f) = {}
      BY <3>1 DEF EntriesOf
    <3>3. Cardinality(EntriesOf(f)') = 0
      BY <2>3, <3>2, FS_EmptySet
    <3>4. refcnt'[f] = 1 /\ f = cur'
      BY <1>3, <2>1, <2>4
    <3> QED
      BY <3>3, <3>4
  <2>5. CASE f # new
    BY <1>1, <1>2, <1>3, <2>2, <2>3, <2>5
  <2> QED
    BY <2>4, <2>5
<1>5. CASE InsertMatch
  <2> DEFINE m == matches[cur][idx]
  <2> USE <1>5 DEF InsertMatch
  <2>1. m \in MatchString /\ deviceHt[m] = NoDevice /\ cur \in Device /\ f # NoDevice
    BY CurFacts, NoDeviceAssumption DEF Taken
  <2>2. CASE f = cur
    <3>1. EntriesOf(f)' = EntriesOf(f) \cup {m} /\ m \notin EntriesOf(f)
      BY <1>3, <2>1, <2>2 DEF EntriesOf
    <3>2. Cardinality(EntriesOf(f)') = Cardinality(EntriesOf(f)) + 1
      BY <3>1, EntriesFinite, FS_AddElement
    <3> QED
      BY <1>1, <1>2, <1>3, <2>1, <2>2, <3>2
  <2>3. CASE f # cur
    <3>1. EntriesOf(f)' = EntriesOf(f)
      BY <1>3, <2>1, <2>3 DEF EntriesOf
    <3> QED
      BY <1>1, <1>2, <1>3, <2>1, <2>3, <3>1
  <2> QED
    BY <2>2, <2>3
<1>6. CASE FinishTablet
  <2> USE <1>6 DEF FinishTablet
  <2>1. cur \in Device /\ f # NoDevice
    BY CurFacts, NoDeviceAssumption
  <2>2. EntriesOf(f)' = EntriesOf(f)
    BY DEF EntriesOf
  <2> QED
    BY <1>1, <1>2, <1>3, <2>1, <2>2
<1>7. ASSUME UNCHANGED <<deviceHt, cur, refcnt>>
      PROVE  refcnt'[f] = Cardinality(EntriesOf(f)') + (IF f = cur' THEN 1 ELSE 0)
  <2>1. EntriesOf(f)' = EntriesOf(f)
    BY <1>7 DEF EntriesOf
  <2> QED
    BY <1>1, <1>7, <2>1
<1> QED
  BY <1>4, <1>5, <1>6, <1>7
  DEF TabletNext, TabletStep, tabletVars, OpenTabletDir, MissingTabletDir, UnreadableTabletDir,
      SkipShadowedFile, SkipInvalidFile, DuplicateMatch, CloseTabletDir, AllTabletDirs

\* The references of every device are those of its entries in device_ht, and
\* the parser's while it is being entered: no entry is left with a freed device.
THEOREM RefcntInvariance == TabletSpec => []RefcntExact
<1>1. TabletInit => RefcntExact
  <2> SUFFICES ASSUME TabletInit, NEW f \in Device
               PROVE refcnt[f] = Cardinality(EntriesOf(f)) + (IF f = cur THEN 1 ELSE 0)
    BY DEF RefcntExact
  <2>1. EntriesOf(f) = {} /\ f # cur /\ refcnt[f] = 0
    BY NoDeviceAssumption DEF TabletInit, EntriesOf
  <2> QED
    BY <2>1, FS_EmptySet
<1> QED
  BY <1>1, RefcntStep, TabletInvariance, PTL DEF TabletSpec

\* A match string never changes hands while the files are loaded.
THEOREM EntriesStayTheorem == TabletSpec => EntriesStay
<1>1. TabletInv /\ [TabletNext]_tabletVars
        => [\A m \in MatchString : deviceHt[m] # NoDevice => deviceHt'[m] = deviceHt[m]]_tabletVars
  <2> SUFFICES ASSUME TabletInv, TabletNext, NEW m \in MatchString, deviceHt[m] # NoDevice
               PROVE  deviceHt'[m] = deviceHt[m]
    OBVIOUS
  <2>1. CASE InsertMatch
    BY <2>1, CurFacts DEF InsertMatch, Taken, TabletInv, TabletTypeOK
  <2>2. CASE UNCHANGED deviceHt
    BY <2>2
  <2> QED
    BY <2>1, <2>2
    DEF TabletNext, TabletStep, OpenTabletDir, MissingTabletDir, UnreadableTabletDir, SkipShadowedFile,
        SkipInvalidFile, ParseTablet, DuplicateMatch, FinishTablet, CloseTabletDir, AllTabletDirs
<1> QED
  BY <1>1, TabletInvariance, PTL DEF TabletSpec, EntriesStay

-----------------------------------------------------------------------------
\* Once every directory has been read, the table is the one DeviceTable states.
LEMMA LastStep ==
  ASSUME TabletInv, AllTabletDirs
  PROVE  /\ ~Table!Conflict /\ ~Table!Unreadable
         /\ deviceHt' = [m \in MatchString |-> Table!Owner(m)]
<1> USE DEF AllTabletDirs
<1>1. \A f \in files : Processed(f)
  BY NDirsAssumption DEF TabletInv, TabletTypeOK, Processed, Device, Dir
<1>2. cur = NoDevice /\ \A f \in Device : f # cur
  BY NoDeviceAssumption DEF TabletInv, LoopInv
<1>3. files \subseteq Device
  BY DEF TabletInv, TabletTypeOK
<1>4. ASSUME NEW f \in files, NEW m \in MatchString
      PROVE  deviceHt[m] = f <=> Table!Claims(f, m)
  <2>1. deviceHt[m] = f <=> Table!Visible(f) /\ Entered(f, m)
    BY <1>1, <1>3, <1>4 DEF TabletInv, TableInv
  <2>2. f # cur
    BY <1>2, <1>3
  <2>3. Entered(f, m) <=> Table!HasMatch(f, m)
    BY <2>2 DEF Entered, Table!HasMatch
  <2> QED
    BY <2>1, <2>3 DEF Table!Claims
<1>5. \A m \in MatchString, f, g \in files : Table!Claims(f, m) /\ Table!Claims(g, m) => f = g
  BY <1>4
<1>6. ~Table!Conflict
  BY <1>5 DEF Table!Conflict, Table!ClashWithin
<1>7. ~Table!Unreadable
  BY NDirsAssumption DEF TabletInv, LoopInv, TabletTypeOK, Table!Unreadable, Table!Dir, Dir
<1>8. ASSUME NEW m \in MatchString, NEW f \in files
      PROVE  Table!ClaimsFirst(f, m) <=> Table!Claims(f, m)
  <2>1. f[1] \in Int
    BY <1>3, NDirsAssumption DEF Device, Dir
  <2> QED
    BY <1>5, <2>1 DEF Table!ClaimsFirst
<1>9. ASSUME NEW m \in MatchString PROVE deviceHt[m] = Table!Owner(m)
  <2>1. CASE \E f \in files : Table!Claims(f, m)
    <3> DEFINE o == CHOOSE f \in files : Table!ClaimsFirst(f, m)
    <3>1. o \in files /\ Table!Claims(o, m)
      BY <1>8, <2>1
    <3>2. Table!Owner(m) = o
      BY <1>8, <2>1 DEF Table!Owner
    <3> QED
      BY <1>4, <3>1, <3>2
  <2>2. CASE ~\E f \in files : Table!Claims(f, m)
    <3>1. Table!Owner(m) = NoDevice
      BY <1>8, <2>2 DEF Table!Owner
    <3>2. deviceHt[m] \in Device \cup {NoDevice}
      BY DEF TabletInv, TabletTypeOK
    <3>3. ASSUME deviceHt[m] \in Device PROVE FALSE
      <4>1. Processed(deviceHt[m])
        BY <3>3 DEF TabletInv, TableInv
      <4>2. deviceHt[m] \in files
        BY <4>1 DEF Processed
      <4> QED
        BY <1>4, <2>2, <4>2
    <3> QED
      BY <3>1, <3>2, <3>3
  <2> QED
    BY <2>1, <2>2
<1>10. deviceHt = [m \in MatchString |-> deviceHt[m]]
  BY DEF TabletInv, TabletTypeOK
<1>11. deviceHt' = deviceHt
  OBVIOUS
<1> QED
  BY <1>6, <1>7, <1>9, <1>10, <1>11

\* Whatever the order readdir returns the files in, loading ends as DeviceTable
\* says, in one step.
THEOREM LoadImplementsTable == TabletSpec => ImplementsTable
<1>1. TabletInit => Table!TableInit
  BY DEF TabletInit, Table!TableInit, Table!EmptyTable, Outcome
<1>2. TabletInv /\ TabletInv' /\ [TabletNext]_tabletVars => [Table!TableNext]_(Table!tableVars)
  <2> SUFFICES ASSUME TabletInv, TabletInv', [TabletNext]_tabletVars
               PROVE  Table!TableNext \/ UNCHANGED Table!tableVars
    OBVIOUS
  <2> USE DEF diskVars
  <2>1. CASE AllTabletDirs
    <3>1. Table!Succeed
      BY <2>1, LastStep DEF AllTabletDirs, Table!Succeed, Outcome
    <3> QED
      BY <3>1 DEF Table!TableNext
  <2>2. CASE UnreadableTabletDir \/ DuplicateMatch
    <3>1. tabletPc \in {"opendir", "insert"} /\ tabletPc' = "failed" /\ UNCHANGED diskVars
      BY <2>2 DEF UnreadableTabletDir, DuplicateMatch
    <3>2. Table!Clash' \/ Table!Unreadable'
      BY <3>1 DEF TabletInv, FailInv
    <3>3. Table!Clash \/ Table!Unreadable
      BY <3>1, <3>2
      DEF Table!Clash, Table!Unreadable, Table!Claims, Table!Visible, Table!HasMatch
    <3>4. Table!Fail
      BY <3>1, <3>3 DEF Table!Fail, Outcome
    <3> QED
      BY <3>4 DEF Table!TableNext
  <2>3. CASE /\ UNCHANGED diskVars
             /\ \/ tabletPc \notin {"done", "failed"} /\ tabletPc' \notin {"done", "failed"}
                \/ UNCHANGED <<tabletPc, deviceHt>>
    BY <2>3 DEF Table!tableVars, Outcome
  <2> QED
    BY <2>1, <2>2, <2>3
    DEF TabletNext, TabletStep, tabletVars, OpenTabletDir, MissingTabletDir, SkipShadowedFile,
        SkipInvalidFile, ParseTablet, InsertMatch, FinishTablet, CloseTabletDir
<1> QED
  BY <1>1, <1>2, TabletInvariance, PTL DEF TabletSpec, ImplementsTable, Table!TableSpec

-----------------------------------------------------------------------------
(***************************************************************************)
(* StylusLoad                                                               *)
(***************************************************************************)
\* The shape of the state, and where the loops are.
StylusTypeOK ==
  /\ stylusFiles \in [Dir \X StylusFileName -> Seq(KeyGroup)]
  /\ stylusDir \in 1..(NDirs + 1)
  /\ stylusPc \in {"readdir", "parse"} => stylusDir <= NDirs
  /\ stylusPc = "parse" => stylusFile \in StylusFileName
  /\ group \in Nat \ {0}
  /\ stylusHt \in [StylusId -> Stylus \cup {NoStylus}]
  /\ pairedStyli \in [StylusId -> SUBSET Styli]

\* A stylus is in the table under the id of the group it was parsed from: no two
\* entries are of one stylus.
OwnId ==
  \A id \in StylusId : stylusHt[id] # NoStylus =>
    stylusHt[id].from \in Styli /\ GroupOf(stylusHt[id].from).id = id

\* Partners are set when nothing is entered any more.
PairedLast ==
  /\ stylusPc \notin {"paired", "released"} => \A id \in StylusId : pairedStyli[id] = {}
  /\ stylusPc = "paired" => \A id \in StylusId : pairedStyli[id] \subseteq liveStyli

\* The inductive invariant
StylusInv == StylusTypeOK /\ OwnId /\ LiveExact /\ PairedLast

\* A position is a group of a file.
LEMMA StyliFacts ==
  ASSUME StylusTypeOK, NEW s \in Styli
  PROVE  s \in Dir \X StylusFileName \X (Nat \ {0}) /\ GroupOf(s) \in KeyGroup
<1>1. PICK d \in Dir, n \in StylusFileName : s \in {<<d, n, i>> : i \in DOMAIN GroupAt(d, n)}
  BY DEF Styli
<1>2. PICK i \in DOMAIN GroupAt(d, n) : s = <<d, n, i>>
  BY <1>1
<1>3. GroupAt(d, n) \in Seq(KeyGroup)
  BY DEF StylusTypeOK, GroupAt
<1>4. i \in Nat \ {0} /\ GroupAt(d, n)[i] \in KeyGroup
  BY <1>2, <1>3
<1>5. GroupOf(s) = GroupAt(d, n)[i]
  BY <1>2 DEF GroupOf
<1> QED
  BY <1>2, <1>4, <1>5

\* The group being parsed is one of the file, and so is its id when it is not ignored.
LEMMA CurGroupFacts ==
  ASSUME StylusTypeOK, MoreGroups
  PROVE  CurGroup \in Styli
<1>1. stylusDir \in Dir /\ stylusFile \in StylusFileName
  BY NDirsAssumption DEF StylusTypeOK, MoreGroups, Dir
<1>2. GroupAt(stylusDir, stylusFile) \in Seq(KeyGroup)
  BY <1>1 DEF StylusTypeOK, GroupAt
<1>3. group \in DOMAIN GroupAt(stylusDir, stylusFile)
  BY <1>2 DEF StylusTypeOK, MoreGroups
<1>4. CurGroup \in {<<stylusDir, stylusFile, i>> : i \in DOMAIN GroupAt(stylusDir, stylusFile)}
  BY <1>3 DEF CurGroup
<1>5. \A d \in Dir, n \in StylusFileName : {<<d, n, i>> : i \in DOMAIN GroupAt(d, n)} \subseteq Styli
  <2> TAKE d \in Dir, n \in StylusFileName
  <2> DEFINE of(e, m) == {<<e, m, i>> : i \in DOMAIN GroupAt(e, m)}
  <2>1. Styli = UNION {of(e, m) : e \in Dir, m \in StylusFileName}
    BY DEF Styli
  <2> HIDE DEF of
  <2>2. of(d, n) \subseteq Styli
    BY <2>1
  <2> QED
    BY <2>2 DEF of
<1> QED
  BY <1>1, <1>4, <1>5

\* What is parsed is a stylus.
LEMMA ParsedFacts ==
  ASSUME StylusTypeOK, NEW s \in Styli, ~Ignored(GroupOf(s))
  PROVE  /\ GroupOf(s).id \in StylusId
         /\ Parsed(s) \in Stylus /\ Parsed(s).from = s
<1> DEFINE g == GroupOf(s)
           a == Aliased(g)
<1>1. s \in Dir \X StylusFileName \X (Nat \ {0}) /\ g \in KeyGroup
  BY StyliFacts
<1>2. g.id \in StylusId
  BY <1>1 DEF Ignored, Handled, KeyGroup
<1>3. CASE ~IsAlias(g)
  <2>1. Parsed(s) = [from   |-> s,
                     type   |-> OrFallback(g.type, "Unknown"),
                     eraser |-> OrFallback(g.eraser, "None"),
                     group  |-> g.group,
                     paired |-> OrFallback(g.paired, {})]
    BY <1>3 DEF Parsed, ParsedGroup
  <2>2. /\ OrFallback(g.type, "Unknown") \in StylusType
        /\ OrFallback(g.eraser, "None") \in EraserType
        /\ g.group \in GroupName \cup {Unset}
        /\ OrFallback(g.paired, {}) \in SUBSET StylusId
    BY <1>1 DEF OrFallback, KeyGroup, StylusType, EraserType
  <2> QED
    BY <1>1, <1>2, <2>1, <2>2 DEF Stylus
<1>4. CASE IsAlias(g)
  <2>1. a \in Stylus
    BY <1>4 DEF Ignored, Aliased, StylusTypeOK
  <2>2. Parsed(s) = [from   |-> s,
                     type   |-> OrFallback(g.type, InheritedType(a.type)),
                     eraser |-> OrFallback(g.eraser, InheritedEraser(a.eraser)),
                     group  |-> OrFallback(g.group, a.group),
                     paired |-> OrFallback(g.paired, InheritedPairs(a.paired))]
    BY <1>4 DEF Parsed, ParsedGroup
  <2>3. /\ OrFallback(g.type, InheritedType(a.type)) \in StylusType
        /\ OrFallback(g.eraser, InheritedEraser(a.eraser)) \in EraserType
        /\ OrFallback(g.group, a.group) \in GroupName \cup {Unset}
    BY <1>1, <2>1 DEF OrFallback, KeyGroup, Stylus, StylusType, EraserType, InheritedType, InheritedEraser
  <2>4. InheritedPairs(a.paired) \in SUBSET StylusId
    BY <2>1, WacomAssumption DEF InheritedPairs, Stylus, StylusId
  <2>5. OrFallback(g.paired, InheritedPairs(a.paired)) \in SUBSET StylusId
    BY <1>1, <2>4 DEF OrFallback, KeyGroup
  <2> QED
    BY <1>1, <1>2, <2>2, <2>3, <2>5 DEF Stylus
<1> QED
  BY <1>3, <1>4

\* The initial states satisfy the invariant.
LEMMA StylusInitInv == StylusInit => StylusInv
<1> SUFFICES ASSUME StylusInit PROVE StylusInv
  OBVIOUS
<1> USE DEF StylusInit
<1>1. \A id \in StylusId : stylusHt[id] = NoStylus /\ pairedStyli[id] = {}
  OBVIOUS
<1>2. StylusTypeOK
  <2>1. <<>> \in Seq(KeyGroup)
    OBVIOUS
  <2>2. stylusFiles \in [Dir \X StylusFileName -> Seq(KeyGroup)]
    BY <2>1, StylusFilesAssumption
  <2> QED
    BY <2>2, NDirsAssumption DEF StylusTypeOK
<1>3. OwnId /\ LiveExact /\ PairedLast
  BY <1>1 DEF OwnId, LiveExact, PairedLast
<1> QED
  BY <1>2, <1>3 DEF StylusInv

\* A step that leaves the files, the table and the partners alone.
LEMMA TableUnchanged ==
  ASSUME StylusInv, UNCHANGED <<stylusFiles, stylusHt, liveStyli, pairedStyli>>,
         stylusPc # "paired" /\ stylusPc # "released",
         stylusPc' # "paired" /\ stylusPc' # "released"
  PROVE  OwnId' /\ LiveExact' /\ PairedLast'
<1>1. OwnId'
  <2>1. Styli' = Styli
    BY DEF Styli, GroupAt
  <2>2. \A s : GroupOf(s)' = GroupOf(s)
    BY DEF GroupOf, GroupAt
  <2> QED
    BY <2>1, <2>2 DEF StylusInv, OwnId
<1>2. LiveExact'
  BY DEF StylusInv, LiveExact
<1>3. PairedLast'
  BY DEF StylusInv, PairedLast
<1> QED
  BY <1>1, <1>2, <1>3

\* What a stylus that is entered replaces is the one entry of the stylus it frees.
LEMMA EnterInv ==
  ASSUME StylusInv, EnterStylus
  PROVE  StylusInv'
<1> DEFINE s  == CurGroup
           id == GroupOf(s).id
<1> USE DEF EnterStylus, stylusDiskVars
<1>1. s \in Styli
  BY CurGroupFacts DEF StylusInv
<1>2. id \in StylusId /\ Parsed(s) \in Stylus /\ Parsed(s).from = s
  BY <1>1, ParsedFacts DEF StylusInv
<1>3. /\ stylusHt' = [stylusHt EXCEPT ![id] = Parsed(s)]
      /\ liveStyli' = (liveStyli \ Replaced(id)) \cup {s}
  OBVIOUS
<1>4. stylusHt \in [StylusId -> Stylus \cup {NoStylus}]
  BY DEF StylusInv, StylusTypeOK
<1>5. stylusHt'[id] = Parsed(s) /\ \A i \in StylusId \ {id} : stylusHt'[i] = stylusHt[i]
  BY <1>2, <1>3, <1>4
<1>6. Parsed(s) # NoStylus
  BY <1>2, NoStylusAssumption
<1>7. Styli' = Styli /\ \A t : GroupOf(t)' = GroupOf(t)
  BY DEF Styli, GroupOf, GroupAt
<1>8. StylusTypeOK'
  <2>1. stylusHt' \in [StylusId -> Stylus \cup {NoStylus}]
    BY <1>2, <1>3, <1>4
  <2>2. pairedStyli' \in [StylusId -> SUBSET Styli']
    BY <1>7 DEF StylusInv, StylusTypeOK
  <2> QED
    BY <2>1, <2>2 DEF StylusInv, StylusTypeOK
<1>9. OwnId'
  <2> SUFFICES ASSUME NEW i \in StylusId, stylusHt'[i] # NoStylus
               PROVE  stylusHt'[i].from \in Styli /\ GroupOf(stylusHt'[i].from).id = i
    BY <1>7 DEF OwnId
  <2>1. CASE i = id
    BY <2>1, <1>1, <1>2, <1>5
  <2>2. CASE i # id
    BY <2>2, <1>5 DEF StylusInv, OwnId
  <2> QED
    BY <2>1, <2>2
<1>10. LiveExact'
  <2> DEFINE in == {i \in StylusId : stylusHt[i] # NoStylus}
  <2>1. \A i \in in \ {id} : stylusHt[i].from \notin Replaced(id)
    BY <1>2 DEF StylusInv, OwnId, Replaced
  <2>2. {i \in StylusId : stylusHt'[i] # NoStylus} = in \cup {id}
    BY <1>2, <1>5, <1>6
  <2>3. liveStyli = {stylusHt[i].from : i \in in}
    BY DEF StylusInv, LiveExact
  <2>4. liveStyli \ Replaced(id) = {stylusHt[i].from : i \in in \ {id}}
    BY <2>1, <2>3 DEF Replaced
  <2>5. {stylusHt'[i].from : i \in in \cup {id}} = {stylusHt[i].from : i \in in \ {id}} \cup {s}
    BY <1>2, <1>5
  <2> QED
    BY <1>3, <2>2, <2>4, <2>5 DEF LiveExact
<1>11. PairedLast'
  BY DEF MoreGroups, StylusInv, PairedLast
<1> QED
  BY <1>8, <1>9, <1>10, <1>11 DEF StylusInv

\* The partners of a stylus are in memory, because they are in the table.
LEMMA SetupInv ==
  ASSUME StylusInv, SetupPaired
  PROVE  StylusInv'
<1> USE DEF SetupPaired, stylusDiskVars
<1>1. Styli' = Styli /\ \A t : GroupOf(t)' = GroupOf(t)
  BY DEF Styli, GroupOf, GroupAt
<1>2. \A id \in StylusId : pairedStyli'[id] \subseteq liveStyli
  <2>1. \A s : Partners(s) \subseteq liveStyli
    BY DEF Partners, InTable, StylusInv, LiveExact
  <2> QED
    BY <2>1
<1>3. liveStyli \subseteq Styli
  BY DEF StylusInv, OwnId, LiveExact
<1>4. StylusTypeOK'
  <2>1. pairedStyli' \in [StylusId -> SUBSET Styli']
    BY <1>1, <1>2, <1>3
  <2> QED
    BY <2>1 DEF StylusInv, StylusTypeOK
<1>5. OwnId'
  BY <1>1 DEF StylusInv, OwnId
<1>6. LiveExact'
  BY DEF StylusInv, LiveExact
<1>7. PairedLast'
  BY <1>2 DEF PairedLast
<1> QED
  BY <1>4, <1>5, <1>6, <1>7 DEF StylusInv

\* Every step of the loader keeps the invariant.
LEMMA StylusStepInv == StylusInv /\ [StylusNext]_stylusVars => StylusInv'
<1> SUFFICES ASSUME StylusInv, [StylusNext]_stylusVars PROVE StylusInv'
  OBVIOUS
<1> USE DEF stylusDiskVars
<1>0. Styli' = Styli
  <2>1. stylusFiles' = stylusFiles
    BY DEF StylusNext, StylusPassNext, stylusVars, OpenStylusDir, MissingStylusDir,
           UnreadableStylusDir, ReadStylusFile, SkipGroup, EnterStylus, EndStylusFile,
           CloseStylusDir, SecondPass, StyliLoaded, SetupPaired
  <2> QED
    BY <2>1 DEF Styli, GroupAt
<1>1. CASE OpenStylusDir
  <2>1. StylusTypeOK'
    BY <1>0, <1>1 DEF OpenStylusDir, StylusInv, StylusTypeOK
  <2> QED
    BY <1>1, <2>1, TableUnchanged DEF OpenStylusDir, StylusInv
<1>2. CASE MissingStylusDir
  <2>1. StylusTypeOK'
    BY <1>0, <1>2, NDirsAssumption DEF MissingStylusDir, StylusInv, StylusTypeOK
  <2> QED
    BY <1>2, <2>1, TableUnchanged DEF MissingStylusDir, StylusInv
<1>3. CASE UnreadableStylusDir
  <2>1. StylusTypeOK'
    BY <1>0, <1>3 DEF UnreadableStylusDir, StylusInv, StylusTypeOK
  <2> QED
    BY <1>3, <2>1, TableUnchanged DEF UnreadableStylusDir, StylusInv
<1>4. ASSUME NEW n \in StylusFileName, ReadStylusFile(n) PROVE StylusInv'
  <2>1. StylusTypeOK'
    BY <1>0, <1>4 DEF ReadStylusFile, StylusInv, StylusTypeOK
  <2> QED
    BY <1>4, <2>1, TableUnchanged DEF ReadStylusFile, StylusInv
<1>5. CASE SkipGroup
  <2>1. StylusTypeOK'
    BY <1>0, <1>5 DEF SkipGroup, StylusInv, StylusTypeOK
  <2> QED
    BY <1>5, <2>1, TableUnchanged DEF SkipGroup, MoreGroups, StylusInv
<1>6. CASE EnterStylus
  BY <1>6, EnterInv
<1>7. CASE EndStylusFile
  <2>1. StylusTypeOK'
    BY <1>0, <1>7 DEF EndStylusFile, StylusInv, StylusTypeOK
  <2> QED
    BY <1>7, <2>1, TableUnchanged DEF EndStylusFile, StylusInv
<1>8. CASE CloseStylusDir
  <2>1. StylusTypeOK'
    BY <1>0, <1>8, NDirsAssumption DEF CloseStylusDir, StylusInv, StylusTypeOK
  <2> QED
    BY <1>8, <2>1, TableUnchanged DEF CloseStylusDir, StylusInv
<1>9. CASE SecondPass
  <2>1. StylusTypeOK'
    BY <1>0, <1>9, NDirsAssumption DEF SecondPass, StylusInv, StylusTypeOK
  <2> QED
    BY <1>9, <2>1, TableUnchanged DEF SecondPass, StylusInv
<1>10. CASE StyliLoaded
  <2>1. StylusTypeOK'
    BY <1>0, <1>10 DEF StyliLoaded, StylusInv, StylusTypeOK
  <2> QED
    BY <1>10, <2>1, TableUnchanged DEF StyliLoaded, StylusInv
<1>11. CASE SetupPaired
  BY <1>11, SetupInv
<1>12. CASE UNCHANGED stylusVars
  <2>1. \A t : GroupOf(t)' = GroupOf(t)
    BY <1>12 DEF stylusVars, GroupOf, GroupAt
  <2>2. StylusTypeOK'
    BY <1>0, <1>12 DEF stylusVars, StylusInv, StylusTypeOK
  <2>3. OwnId' /\ LiveExact' /\ PairedLast'
    BY <1>0, <1>12, <2>1 DEF stylusVars, StylusInv, OwnId, LiveExact, PairedLast
  <2> QED
    BY <2>2, <2>3 DEF StylusInv
<1> QED
  BY <1>1, <1>2, <1>3, <1>4, <1>5, <1>6, <1>7, <1>8, <1>9, <1>10, <1>11, <1>12
     DEF StylusNext, StylusPassNext

\* Whatever the files and the order of readdir, a stylus is in memory if and only if it
\* is in the table: a later definition of an id frees the earlier one, and only that.
THEOREM LiveTheorem == StylusSpec => []LiveExact
<1>1. StylusInv => LiveExact
  BY DEF StylusInv
<1> QED
  BY <1>1, StylusInitInv, StylusStepInv, PTL DEF StylusSpec

-----------------------------------------------------------------------------
(***************************************************************************)
(* The finished table is a function of the files, whatever the order of      *)
(* readdir.                                                                 *)
(***************************************************************************)
\* The group s has been passed in the directories as they are read now.
Passed(s) ==
  \/ s[1] < stylusDir
  \/ /\ s[1] = stylusDir /\ stylusPc \in {"readdir", "parse"}
     /\ s[2] \notin stylusUnread
     /\ stylusPc = "parse" /\ s[2] = stylusFile => s[3] < group

\* It has been looked at in the pass that enters groups of its kind.
Seen(s) == IF IsAlias(GroupOf(s)) THEN pass = "ONLY_ALIASES" /\ Passed(s)
                                  ELSE pass = "ONLY_ALIASES" \/ Passed(s)

SeenBase(id)    == {s \in BaseOf(id) : Seen(s)}
SeenAliases(id) == {s \in AliasesOf(id) : Seen(s)}
Latest(id)      == IF SeenAliases(id) # {} THEN SeenAliases(id) ELSE SeenBase(id)

\* Where the loops are in the directories, and when they have left them.
LoopsInv ==
  /\ \A s \in Styli : dirStatus[s[1]] = "ok"
  /\ \A d \in Dir : dirStatus[d] \in DirStatus
  /\ pass \in {"IGNORE_ALIASES", "ONLY_ALIASES"}
  /\ stylusPc \in {"opendir", "readdir", "parse", "failed", "done", "paired"}
  /\ stylusPc = "parse" => stylusFile \notin stylusUnread
  /\ stylusPc \in {"done", "paired"} => stylusDir > NDirs /\ pass = "ONLY_ALIASES"

\* An id has an entry as soon as a definition of it has been seen, and of those seen
\* no other one is certain to be read after the one that is entered.
EntriesInv ==
  \A id \in StylusId :
    /\ stylusHt[id] # NoStylus <=> Latest(id) # {}
    /\ stylusHt[id] # NoStylus =>
         /\ stylusHt[id].from \in Latest(id)
         /\ \A t \in Latest(id) : ~Before(stylusHt[id].from, t)

\* An alias in the table is what its group makes of the stylus that the table has now,
\* not only had then, for the id it names.
CopiedInv ==
  \A id \in StylusId :
    LET s == stylusHt[id].from
        g == GroupOf(s)
    IN  stylusHt[id] # NoStylus /\ IsAlias(g) =>
          /\ g.aliasOf \in StylusId /\ stylusHt[g.aliasOf] # NoStylus
          /\ stylusHt[id] = ParsedGroup(s, g, stylusHt[g.aliasOf])

\* The inductive invariant
OrderInv ==
  /\ StylusInv
  /\ LoopsInv
  /\ Unambiguous /\ stylusPc # "failed" => EntriesInv /\ CopiedInv

-----------------------------------------------------------------------------
\* A position in the files, taken apart.
LEMMA StyliShape ==
  ASSUME StylusTypeOK, NEW s \in Styli
  PROVE  /\ s[1] \in Dir /\ s[2] \in StylusFileName /\ s = <<s[1], s[2], s[3]>>
         /\ s[3] \in Nat /\ s[3] <= Len(GroupAt(s[1], s[2])) /\ GroupAt(s[1], s[2]) # <<>>
         /\ Len(GroupAt(s[1], s[2])) \in Nat
<1>1. PICK d \in Dir, n \in StylusFileName : s \in {<<d, n, i>> : i \in DOMAIN GroupAt(d, n)}
  BY DEF Styli
<1>2. PICK i \in DOMAIN GroupAt(d, n) : s = <<d, n, i>>
  BY <1>1
<1>3. GroupAt(d, n) \in Seq(KeyGroup)
  BY DEF StylusTypeOK, GroupAt
<1>4. /\ i \in Nat /\ i <= Len(GroupAt(d, n)) /\ GroupAt(d, n) # <<>>
      /\ Len(GroupAt(d, n)) \in Nat
  BY <1>2, <1>3
<1> QED BY <1>2, <1>4

\* No step changes the files, nor what is said of them.
LEMMA DisksStay ==
  ASSUME [StylusNext]_stylusVars
  PROVE  UNCHANGED <<stylusFiles, dirStatus>>
BY DEF StylusNext, StylusPassNext, stylusVars, stylusDiskVars, OpenStylusDir, MissingStylusDir,
       UnreadableStylusDir, ReadStylusFile, SkipGroup, EnterStylus, EndStylusFile,
       CloseStylusDir, SecondPass, StyliLoaded, SetupPaired

LEMMA FilesStay ==
  ASSUME UNCHANGED stylusFiles
  PROVE  /\ Styli' = Styli /\ \A s : GroupOf(s)' = GroupOf(s)
         /\ \A id : BaseOf(id)' = BaseOf(id) /\ AliasesOf(id)' = AliasesOf(id)
         /\ Unambiguous' = Unambiguous
<1>1. Styli' = Styli /\ \A s : GroupOf(s)' = GroupOf(s)
  BY DEF Styli, GroupOf, GroupAt
<1>2. \A id : BaseOf(id)' = BaseOf(id)
  BY <1>1 DEF BaseOf
<1>3. \A id : AliasesOf(id)' = AliasesOf(id)
  BY <1>1, <1>2 DEF AliasesOf
<1>4. Unambiguous' = Unambiguous
  BY <1>1, <1>2, <1>3 DEF Unambiguous
<1> QED BY <1>1, <1>2, <1>3, <1>4

\* A step that changes neither the table nor which definitions of an id are seen.
LEMMA LatestUnchanged ==
  ASSUME EntriesInv, CopiedInv, UNCHANGED <<stylusFiles, stylusHt>>,
         \A id \in StylusId : Latest(id)' = Latest(id)
  PROVE  EntriesInv' /\ CopiedInv'
<1>1. EntriesInv'
  BY DEF EntriesInv
<1>2. CopiedInv'
  BY FilesStay DEF CopiedInv
<1> QED BY <1>1, <1>2

LEMMA SeenUnchanged ==
  ASSUME EntriesInv, CopiedInv, UNCHANGED <<stylusFiles, stylusHt>>,
         \A s \in Styli : Seen(s)' <=> Seen(s)
  PROVE  EntriesInv' /\ CopiedInv'
<1>1. \A id : SeenBase(id)' = SeenBase(id)
  BY FilesStay DEF SeenBase, BaseOf
<1>2. \A id : SeenAliases(id)' = SeenAliases(id)
  BY FilesStay DEF SeenAliases, AliasesOf
<1>3. \A id \in StylusId : Latest(id)' = Latest(id)
  BY <1>1, <1>2 DEF Latest
<1> QED BY <1>3, LatestUnchanged

LEMMA PassedUnchanged ==
  ASSUME EntriesInv, CopiedInv, UNCHANGED <<stylusFiles, stylusHt, pass>>,
         \A s \in Styli : Passed(s)' <=> Passed(s)
  PROVE  EntriesInv' /\ CopiedInv'
<1>1. \A s \in Styli : Seen(s)' <=> Seen(s)
  BY FilesStay DEF Seen
<1> QED BY <1>1, SeenUnchanged

-----------------------------------------------------------------------------
\* What the next group adds to the definitions seen.
LEMMA NextGroup ==
  ASSUME StylusInv, LoopsInv, MoreGroups, group' = group + 1,
         UNCHANGED <<stylusFiles, stylusPc, pass, stylusDir, stylusUnread, stylusFile>>
  PROVE  /\ \A s \in Styli : Seen(s)' <=>
              Seen(s) \/ (s = CurGroup /\ (IsAlias(GroupOf(s)) <=> pass = "ONLY_ALIASES"))
         /\ \A s \in Styli : Passed(s) => ~Before(CurGroup, s)
         /\ ~Before(CurGroup, CurGroup)
<1>1. stylusPc = "parse" /\ group \in Nat /\ stylusDir \in Nat
  BY NDirsAssumption DEF MoreGroups, StylusInv, StylusTypeOK
<1>2. ASSUME NEW s \in Styli PROVE Passed(s)' <=> Passed(s) \/ s = CurGroup
  <2>1. s[1] \in Nat /\ s[3] \in Nat /\ s = <<s[1], s[2], s[3]>>
    BY StyliShape DEF StylusInv, Dir
  <2>2. s = CurGroup <=> s[1] = stylusDir /\ s[2] = stylusFile /\ s[3] = group
    BY <2>1 DEF CurGroup
  <2>3. stylusFile \notin stylusUnread
    BY <1>1 DEF LoopsInv
  <2>4. s[3] < group + 1 <=> s[3] < group \/ s[3] = group
    BY <1>1, <2>1
  <2> QED BY <1>1, <2>1, <2>2, <2>3, <2>4 DEF Passed
<1>3. ASSUME NEW s \in Styli
      PROVE Seen(s)' <=>
              Seen(s) \/ (s = CurGroup /\ (IsAlias(GroupOf(s)) <=> pass = "ONLY_ALIASES"))
  BY <1>2, FilesStay DEF Seen, LoopsInv
<1>4. ASSUME NEW s \in Styli, Passed(s), Before(CurGroup, s) PROVE FALSE
  <2>1. s[1] \in Nat /\ s[3] \in Nat
    BY StyliShape DEF StylusInv, Dir
  <2>2. \/ stylusDir < s[1]
        \/ stylusDir = s[1] /\ stylusFile = s[2] /\ group < s[3]
    BY <1>4 DEF Before, CurGroup
  <2> QED BY <1>1, <1>4, <2>1, <2>2 DEF Passed
<1>5. ~Before(CurGroup, CurGroup)
  BY <1>1 DEF Before, CurGroup
<1> QED BY <1>3, <1>4, <1>5

\* A group that is ignored defines no id.
LEMMA SkipOrder ==
  ASSUME StylusInv, LoopsInv, EntriesInv, CopiedInv, SkipGroup
  PROVE  EntriesInv' /\ CopiedInv'
<1> DEFINE g == GroupOf(CurGroup)
<1>1. /\ MoreGroups /\ Ignored(g) /\ group' = group + 1
      /\ UNCHANGED <<stylusFiles, stylusPc, pass, stylusDir, stylusUnread, stylusFile, stylusHt>>
  BY DEF SkipGroup, stylusDiskVars
<1>2. \A s \in Styli : Seen(s)' <=>
         Seen(s) \/ (s = CurGroup /\ (IsAlias(GroupOf(s)) <=> pass = "ONLY_ALIASES"))
  BY <1>1, NextGroup
<1>3. ASSUME NEW id \in StylusId, CurGroup \in BaseOf(id), pass # "ONLY_ALIASES" PROVE FALSE
  BY <1>1, <1>3, BadAssumption DEF BaseOf, Ignored, Handled
<1>4. ASSUME NEW id \in StylusId, CurGroup \in AliasesOf(id), pass = "ONLY_ALIASES" PROVE FALSE
  <2>1. /\ IsAlias(g) /\ g.id = id /\ g.aliasOf \in StylusId /\ BaseOf(g.aliasOf) # {}
    BY <1>4 DEF AliasesOf
  <2>2. stylusHt[g.aliasOf] = NoStylus
    BY <1>1, <1>4, <2>1, BadAssumption DEF Ignored, Handled, Aliased
  <2>3. SeenBase(g.aliasOf) = BaseOf(g.aliasOf)
    BY <1>4 DEF SeenBase, BaseOf, Seen
  <2>4. Latest(g.aliasOf) # {}
    BY <2>1, <2>3 DEF Latest
  <2> QED BY <2>1, <2>2, <2>4 DEF EntriesInv
<1>5. ASSUME NEW id \in StylusId PROVE Latest(id)' = Latest(id)
  <2>1. SeenBase(id)' = SeenBase(id)
    <3>1. \A s \in BaseOf(id) : s \in Styli /\ ~IsAlias(GroupOf(s))
      BY DEF BaseOf
    <3>2. \A s \in BaseOf(id) : Seen(s)' <=> Seen(s)
      BY <1>2, <1>3, <3>1
    <3> QED BY <1>1, <3>2, FilesStay DEF SeenBase
  <2>2. SeenAliases(id)' = SeenAliases(id)
    <3>1. \A s \in AliasesOf(id) : s \in Styli /\ IsAlias(GroupOf(s))
      BY DEF AliasesOf
    <3>2. \A s \in AliasesOf(id) : Seen(s)' <=> Seen(s)
      BY <1>2, <1>4, <3>1
    <3> QED BY <1>1, <3>2, FilesStay DEF SeenAliases
  <2> QED BY <2>1, <2>2 DEF Latest
<1> QED BY <1>1, <1>5, LatestUnchanged

\* The group that is entered is the latest definition of its id, and what an alias
\* copies is not replaced any more.
LEMMA EnterOrder ==
  ASSUME StylusInv, LoopsInv, Unambiguous, EntriesInv, CopiedInv, EnterStylus
  PROVE  EntriesInv' /\ CopiedInv'
<1>0. PICK c, id : c = CurGroup /\ id = GroupOf(CurGroup).id
  OBVIOUS
<1> DEFINE g == GroupOf(c)
<1>1. /\ MoreGroups /\ ~Ignored(g) /\ group' = group + 1
      /\ stylusHt' = [stylusHt EXCEPT ![id] = Parsed(c)]
      /\ UNCHANGED <<stylusFiles, stylusPc, pass, stylusDir, stylusUnread, stylusFile>>
  BY <1>0 DEF EnterStylus, stylusDiskVars
<1>2. c \in Styli /\ g.id = id /\ id \in StylusId /\ Parsed(c) \in Stylus /\ Parsed(c).from = c
  BY <1>0, <1>1, CurGroupFacts, ParsedFacts DEF StylusInv
<1>3. Parsed(c) # NoStylus
  BY <1>2, NoStylusAssumption
<1>4. stylusHt'[id] = Parsed(c) /\ \A i \in StylusId \ {id} : stylusHt'[i] = stylusHt[i]
  BY <1>1, <1>2 DEF StylusInv, StylusTypeOK
<1>5. IsAlias(g) <=> pass = "ONLY_ALIASES"
  BY <1>1 DEF Ignored, Handled
<1>6. /\ \A s \in Styli : Seen(s)' <=> Seen(s) \/ s = c
      /\ \A s \in Styli : Passed(s) => ~Before(c, s)
      /\ ~Before(c, c)
  BY <1>0, <1>1, <1>5, NextGroup
<1>7. IsAlias(g) => /\ g.aliasOf \in StylusId /\ stylusHt[g.aliasOf] # NoStylus
                    /\ Parsed(c) = ParsedGroup(c, g, stylusHt[g.aliasOf])
  BY <1>1 DEF Ignored, Aliased, Parsed
<1>8. IsAlias(g) => c \in AliasesOf(id)
  <2> SUFFICES ASSUME IsAlias(g) PROVE c \in AliasesOf(id)
    OBVIOUS
  <2>1. AliasesOf(g.aliasOf) = {}
    BY <1>2, <1>7 DEF Unambiguous, AliasesOf
  <2>2. Latest(g.aliasOf) # {}
    BY <1>7 DEF EntriesInv
  <2>3. BaseOf(g.aliasOf) # {}
    BY <2>1, <2>2 DEF Latest, SeenAliases, SeenBase
  <2> QED BY <1>2, <1>7, <2>3 DEF AliasesOf
<1>9. ~IsAlias(g) => c \in BaseOf(id)
  BY <1>2 DEF BaseOf
<1>10. Latest(id)' = {s \in Latest(id) : IsAlias(GroupOf(s)) <=> IsAlias(g)} \cup {c}
  <2>1. CASE IsAlias(g)
    <3>1. SeenAliases(id)' = SeenAliases(id) \cup {c}
      BY <1>1, <1>6, <1>8, <2>1, FilesStay DEF SeenAliases, AliasesOf
    <3>2. Latest(id)' = SeenAliases(id) \cup {c}
      BY <3>1 DEF Latest
    <3>3. {s \in Latest(id) : IsAlias(GroupOf(s))} = SeenAliases(id)
      BY DEF Latest, SeenAliases, SeenBase, AliasesOf, BaseOf
    <3> QED BY <2>1, <3>2, <3>3
  <2>2. CASE ~IsAlias(g)
    <3>1. SeenBase(id)' = SeenBase(id) \cup {c}
      BY <1>1, <1>6, <1>9, <2>2, FilesStay DEF SeenBase, BaseOf
    <3>2. SeenAliases(id) = {} /\ SeenAliases(id)' = {}
      BY <1>1, <1>5, <2>2, FilesStay DEF SeenAliases, AliasesOf, Seen
    <3>3. Latest(id)' = SeenBase(id) \cup {c} /\ Latest(id) = SeenBase(id)
      BY <3>1, <3>2 DEF Latest
    <3>4. \A s \in SeenBase(id) : ~IsAlias(GroupOf(s))
      BY DEF SeenBase, BaseOf
    <3> QED BY <2>2, <3>3, <3>4
  <2> QED BY <2>1, <2>2
<1>11. ASSUME NEW t \in Latest(id)' PROVE ~Before(c, t)
  <2>1. CASE t = c
    BY <2>1, <1>6
  <2>2. CASE t # c
    <3>1. t \in Latest(id) /\ (IsAlias(GroupOf(t)) <=> IsAlias(g))
      BY <2>2, <1>10, <1>11
    <3>2. t \in Styli /\ Seen(t)
      BY <3>1 DEF Latest, SeenAliases, SeenBase, AliasesOf, BaseOf
    <3>3. Passed(t)
      BY <3>1, <3>2, <1>5 DEF Seen
    <3> QED BY <3>2, <3>3, <1>6
  <2> QED BY <2>1, <2>2
<1>12. ASSUME NEW i \in StylusId, i # id PROVE Latest(i)' = Latest(i)
  <2>1. c \notin BaseOf(i) /\ c \notin AliasesOf(i)
    BY <1>2, <1>12 DEF BaseOf, AliasesOf
  <2>2. SeenBase(i)' = SeenBase(i)
    BY <1>1, <1>6, <2>1, FilesStay DEF SeenBase, BaseOf
  <2>3. SeenAliases(i)' = SeenAliases(i)
    BY <1>1, <1>6, <2>1, FilesStay DEF SeenAliases, AliasesOf
  <2> QED BY <2>2, <2>3 DEF Latest
<1>13. EntriesInv'
  <2> SUFFICES ASSUME NEW i \in StylusId
               PROVE  /\ stylusHt'[i] # NoStylus <=> Latest(i)' # {}
                      /\ stylusHt'[i] # NoStylus =>
                           /\ stylusHt'[i].from \in Latest(i)'
                           /\ \A t \in Latest(i)' : ~Before(stylusHt'[i].from, t)
    BY DEF EntriesInv, Before
  <2>1. CASE i = id
    BY <2>1, <1>2, <1>3, <1>4, <1>10, <1>11
  <2>2. CASE i # id
    BY <2>2, <1>4, <1>12 DEF EntriesInv
  <2> QED BY <2>1, <2>2
<1>14. CopiedInv'
  <2> SUFFICES ASSUME NEW i \in StylusId, stylusHt'[i] # NoStylus,
                      IsAlias(GroupOf(stylusHt'[i].from))
               PROVE  LET h == GroupOf(stylusHt'[i].from)
                      IN  /\ h.aliasOf \in StylusId /\ stylusHt'[h.aliasOf] # NoStylus
                          /\ stylusHt'[i] = ParsedGroup(stylusHt'[i].from, h, stylusHt'[h.aliasOf])
    BY <1>1, FilesStay DEF CopiedInv
  <2> DEFINE h == GroupOf(stylusHt'[i].from)
  <2>1. CASE i = id
    <3>1. h = g /\ IsAlias(g)
      BY <2>1, <1>2, <1>4
    <3>2. g.aliasOf # id
      BY <1>2, <1>7, <3>1 DEF Unambiguous
    <3> QED BY <2>1, <3>1, <3>2, <1>2, <1>4, <1>7
  <2>2. CASE i # id
    <3>1. stylusHt'[i] = stylusHt[i]
      BY <2>2, <1>4
    <3>2. /\ h.aliasOf \in StylusId /\ stylusHt[h.aliasOf] # NoStylus
          /\ stylusHt[i] = ParsedGroup(stylusHt[i].from, h, stylusHt[h.aliasOf])
      BY <3>1 DEF CopiedInv
    <3>3. stylusHt[i].from \in Latest(i)
      BY <3>1 DEF EntriesInv
    <3>4. stylusHt[i].from \in Styli /\ Seen(stylusHt[i].from)
      BY <3>3 DEF Latest, SeenAliases, SeenBase, AliasesOf, BaseOf
    <3>5. IsAlias(g)
      BY <3>1, <3>4, <1>5 DEF Seen
    <3>6. h.aliasOf # id
      BY <1>2, <3>1, <3>2, <3>4, <3>5 DEF Unambiguous
    <3> QED BY <3>1, <3>2, <3>6, <1>4
  <2> QED BY <2>1, <2>2
<1> QED BY <1>13, <1>14

-----------------------------------------------------------------------------
LEMMA LoopsStep ==
  ASSUME StylusInv, LoopsInv, [StylusNext]_stylusVars
  PROVE  LoopsInv'
<1>1. Styli' = Styli /\ UNCHANGED dirStatus
  BY DisksStay, FilesStay
<1>2. stylusDir \in Nat
  BY NDirsAssumption DEF StylusInv, StylusTypeOK
<1>3. /\ \A s \in Styli' : dirStatus'[s[1]] = "ok"
      /\ \A d \in Dir : dirStatus'[d] \in DirStatus
  BY <1>1 DEF LoopsInv
<1>4. /\ pass' \in {"IGNORE_ALIASES", "ONLY_ALIASES"}
      /\ stylusPc' \in {"opendir", "readdir", "parse", "failed", "done", "paired"}
      /\ stylusPc' = "parse" => stylusFile' \notin stylusUnread'
      /\ stylusPc' \in {"done", "paired"} => stylusDir' > NDirs /\ pass' = "ONLY_ALIASES"
  BY <1>2 DEF LoopsInv, StylusNext, StylusPassNext, stylusVars, OpenStylusDir, MissingStylusDir,
       UnreadableStylusDir, ReadStylusFile, SkipGroup, EnterStylus, MoreGroups, EndStylusFile,
       CloseStylusDir, SecondPass, StyliLoaded, SetupPaired
<1> QED BY <1>3, <1>4 DEF LoopsInv

\* Every step keeps the entries the latest ones of what has been seen.
LEMMA OrderStep ==
  ASSUME StylusInv, LoopsInv, Unambiguous, EntriesInv, CopiedInv, StylusNext,
         stylusPc' # "failed"
  PROVE  EntriesInv' /\ CopiedInv'
<1> USE DEF stylusDiskVars
<1>0. ASSUME NEW s \in Styli
      PROVE  /\ s[1] \in Nat /\ 1 <= s[1] /\ s[1] <= NDirs /\ s[3] \in Nat
             /\ s[2] \in StylusFileName /\ GroupAt(s[1], s[2]) # <<>>
             /\ s[3] <= Len(GroupAt(s[1], s[2])) /\ Len(GroupAt(s[1], s[2])) \in Nat
             /\ dirStatus[s[1]] = "ok" /\ stylusDir \in Nat /\ NDirs \in Nat
  BY StyliShape, NDirsAssumption DEF StylusInv, StylusTypeOK, LoopsInv, Dir
<1>1. CASE OpenStylusDir
  <2>1. ASSUME NEW s \in Styli PROVE Passed(s)' <=> Passed(s)
    BY <1>0, <1>1 DEF OpenStylusDir, Passed
  <2> QED BY <1>1, <2>1, PassedUnchanged DEF OpenStylusDir
<1>2. CASE MissingStylusDir
  <2>1. ASSUME NEW s \in Styli PROVE Passed(s)' <=> Passed(s)
    <3>1. s[1] # stylusDir
      BY <1>0, <1>2 DEF MissingStylusDir
    <3> QED BY <1>0, <1>2, <3>1 DEF MissingStylusDir, Passed
  <2> QED BY <1>2, <2>1, PassedUnchanged DEF MissingStylusDir
<1>3. CASE UnreadableStylusDir
  BY <1>3 DEF UnreadableStylusDir
<1>4. ASSUME NEW n \in StylusFileName, ReadStylusFile(n) PROVE EntriesInv' /\ CopiedInv'
  <2>1. ASSUME NEW s \in Styli PROVE Passed(s)' <=> Passed(s)
    <3>1. s[3] >= 1
      BY StyliFacts, <1>0 DEF StylusInv
    <3> QED BY <1>0, <1>4, <3>1 DEF ReadStylusFile, Passed
  <2> QED BY <1>4, <2>1, PassedUnchanged DEF ReadStylusFile
<1>5. CASE SkipGroup
  BY <1>5, SkipOrder
<1>6. CASE EnterStylus
  BY <1>6, EnterOrder
<1>7. CASE EndStylusFile
  <2>1. ASSUME NEW s \in Styli PROVE Passed(s)' <=> Passed(s)
    <3>1. stylusFile \notin stylusUnread /\ group \in Nat
      BY <1>7 DEF EndStylusFile, LoopsInv, StylusInv, StylusTypeOK
    <3>2. s[1] = stylusDir /\ s[2] = stylusFile => s[3] < group
      BY <1>0, <1>7, <3>1 DEF EndStylusFile, MoreGroups
    <3> QED BY <1>0, <1>7, <3>1, <3>2 DEF EndStylusFile, Passed
  <2> QED BY <1>7, <2>1, PassedUnchanged DEF EndStylusFile
<1>8. CASE CloseStylusDir
  <2>1. ASSUME NEW s \in Styli PROVE Passed(s)' <=> Passed(s)
    BY <1>0, <1>8 DEF CloseStylusDir, Passed
  <2> QED BY <1>8, <2>1, PassedUnchanged DEF CloseStylusDir
<1>9. CASE SecondPass
  <2>1. /\ pass = "IGNORE_ALIASES" /\ pass' = "ONLY_ALIASES" /\ UNCHANGED stylusFiles
        /\ stylusPc' = "opendir" /\ stylusDir' = 1 /\ stylusDir > NDirs
    BY <1>9 DEF SecondPass
  <2>2. ASSUME NEW s \in Styli PROVE Seen(s)' <=> Seen(s)
    <3>1. Passed(s) /\ ~Passed(s)'
      BY <1>0, <2>1 DEF Passed
    <3> QED BY <2>1, <3>1, FilesStay DEF Seen
  <2> QED BY <1>9, <2>1, <2>2, SeenUnchanged DEF SecondPass
<1>10. CASE StyliLoaded
  <2>1. ASSUME NEW s \in Styli PROVE Passed(s)' <=> Passed(s)
    BY <1>0, <1>10 DEF StyliLoaded, Passed
  <2> QED BY <1>10, <2>1, PassedUnchanged DEF StyliLoaded
<1>11. CASE SetupPaired
  <2>1. ASSUME NEW s \in Styli PROVE Passed(s)' <=> Passed(s)
    BY <1>0, <1>11 DEF SetupPaired, Passed
  <2> QED BY <1>11, <2>1, PassedUnchanged DEF SetupPaired
<1> QED
  BY <1>1, <1>2, <1>3, <1>4, <1>5, <1>6, <1>7, <1>8, <1>9, <1>10, <1>11
     DEF StylusNext, StylusPassNext

LEMMA OrderStart == StylusInit => OrderInv
<1> SUFFICES ASSUME StylusInit PROVE OrderInv
  OBVIOUS
<1>1. StylusInv
  BY StylusInitInv
<1>2. ASSUME NEW s \in Styli
      PROVE  /\ dirStatus[s[1]] = "ok"
             /\ ~Seen(s)
  <2>1. s[1] \in Dir /\ s[2] \in StylusFileName /\ GroupAt(s[1], s[2]) # <<>>
    BY <1>1, StyliShape DEF StylusInv
  <2> QED BY <2>1, NDirsAssumption DEF StylusInit, Dir, Seen, Passed
<1>3. LoopsInv
  BY <1>2 DEF StylusInit, DirsInit, LoopsInv
<1>4. \A id : Latest(id) = {}
  BY <1>2 DEF Latest, SeenAliases, SeenBase, AliasesOf, BaseOf
<1>5. EntriesInv /\ CopiedInv
  BY <1>4 DEF StylusInit, EntriesInv, CopiedInv
<1> QED BY <1>1, <1>3, <1>5 DEF OrderInv

LEMMA OrderStepInv == OrderInv /\ [StylusNext]_stylusVars => OrderInv'
<1> SUFFICES ASSUME OrderInv, [StylusNext]_stylusVars PROVE OrderInv'
  OBVIOUS
<1>1. StylusInv' /\ LoopsInv'
  BY StylusStepInv, LoopsStep DEF OrderInv
<1>2. Unambiguous' = Unambiguous
  BY DisksStay, FilesStay
<1>3. ASSUME Unambiguous, stylusPc' # "failed" PROVE EntriesInv' /\ CopiedInv'
  <2>1. CASE StylusNext
    <3>1. stylusPc # "failed"
      BY <2>1 DEF StylusNext, StylusPassNext, OpenStylusDir, MissingStylusDir,
         UnreadableStylusDir, ReadStylusFile, SkipGroup, EnterStylus, MoreGroups, EndStylusFile,
         CloseStylusDir, SecondPass, StyliLoaded, SetupPaired
    <3> QED BY <1>3, <2>1, <3>1, OrderStep DEF OrderInv
  <2>2. CASE UNCHANGED stylusVars
    <3>1. \A s : Passed(s)' <=> Passed(s)
      BY <2>2 DEF stylusVars, Passed
    <3> QED BY <1>3, <2>2, <3>1, PassedUnchanged DEF OrderInv, stylusVars
  <2> QED BY <2>1, <2>2
<1> QED BY <1>1, <1>2, <1>3 DEF OrderInv

-----------------------------------------------------------------------------
\* If one definition is read after all others, one that none is read after is that one.
LEMMA LastReadIs ==
  ASSUME NEW S, NEW x \in S, \A t \in S : ~Before(x, t),
         \E s \in S : \A t \in S \ {s} : Before(t, s)
  PROVE  x = LastRead(S)
<1>1. LastRead(S) \in S /\ \A t \in S \ {LastRead(S)} : Before(t, LastRead(S))
  BY DEF LastRead
<1> QED BY <1>1

\* What an alias does not set is what the stylus it names has, where that survives
\* being printed and parsed.
LEMMA CopyFacts ==
  ASSUME NEW s, NEW g, IsAlias(g), NEW a, a.paired \in SUBSET StylusId
  PROVE  LET p == ParsedGroup(s, g, a)
         IN  /\ p.group = OrFallback(g.group, a.group)
             /\ a.type # "Puck" => p.type = OrFallback(g.type, a.type)
             /\ a.eraser # "Unknown" => p.eraser = OrFallback(g.eraser, a.eraser)
             /\ (\A i \in a.paired : i.vid = WacomVid) => p.paired = OrFallback(g.paired, a.paired)
<1>1. ASSUME \A i \in a.paired : i.vid = WacomVid PROVE InheritedPairs(a.paired) = a.paired
  <2>1. \A i \in a.paired : i = [vid |-> WacomVid, tool |-> i.tool]
    BY <1>1 DEF StylusId
  <2> QED BY <2>1 DEF InheritedPairs
<1> QED BY <1>1 DEF ParsedGroup, InheritedType, InheritedEraser

\* Whatever the files and the order of readdir, the finished table is the one the files
\* determine: the last definition of each id, and aliases of what is in the table.
THEOREM DeterminedTheorem == StylusSpec => []StyliDetermined
<1>1. ASSUME OrderInv, stylusPc \in {"done", "paired"}, Unambiguous, NEW id \in StylusId
      PROVE  LET s == stylusHt[id]
             IN  /\ s # NoStylus <=> Defined(id)
                 /\ Defined(id) => s.from = Winner(id)
                 /\ Defined(id) /\ IsAlias(GroupOf(s.from)) =>
                      LET a == stylusHt[GroupOf(s.from).aliasOf]
                      IN  /\ Inherits(id, "group")
                          /\ a.type # "Puck" => Inherits(id, "type")
                          /\ a.eraser # "Unknown" => Inherits(id, "eraser")
                          /\ (\A p \in a.paired : p.vid = WacomVid) => Inherits(id, "paired")
  <2>1. EntriesInv /\ CopiedInv /\ StylusTypeOK /\ LoopsInv
    BY <1>1 DEF OrderInv, StylusInv
  <2>2. ASSUME NEW s \in Styli PROVE Seen(s)
    <3>1. s[1] \in Nat /\ s[1] <= NDirs /\ stylusDir > NDirs /\ pass = "ONLY_ALIASES"
      BY <1>1, <2>1, StyliShape, NDirsAssumption DEF LoopsInv, Dir
    <3>2. Passed(s)
      BY <2>1, <3>1, NDirsAssumption DEF Passed, StylusTypeOK
    <3> QED BY <3>1, <3>2 DEF Seen
  <2>3. SeenAliases(id) = AliasesOf(id) /\ SeenBase(id) = BaseOf(id)
    BY <2>2 DEF SeenAliases, SeenBase, AliasesOf, BaseOf
  <2>4. Latest(id) = IF AliasesOf(id) # {} THEN AliasesOf(id) ELSE BaseOf(id)
    BY <2>3 DEF Latest
  <2>5. stylusHt[id] # NoStylus <=> Defined(id)
    BY <2>1, <2>4 DEF EntriesInv, Defined
  <2>6. ASSUME Defined(id) PROVE stylusHt[id].from = Winner(id)
    <3>1. /\ stylusHt[id].from \in Latest(id)
          /\ \A t \in Latest(id) : ~Before(stylusHt[id].from, t)
      BY <2>1, <2>5, <2>6 DEF EntriesInv
    <3>2. Winner(id) = LastRead(Latest(id))
      BY <2>4 DEF Winner
    <3>3. \E s \in Latest(id) : \A t \in Latest(id) \ {s} : Before(t, s)
      BY <1>1, <2>4, <3>1 DEF Unambiguous
    <3> QED BY <3>1, <3>2, <3>3, LastReadIs
  <2>7. ASSUME Defined(id), IsAlias(GroupOf(stylusHt[id].from))
        PROVE  LET a == stylusHt[GroupOf(stylusHt[id].from).aliasOf]
               IN  /\ Inherits(id, "group")
                   /\ a.type # "Puck" => Inherits(id, "type")
                   /\ a.eraser # "Unknown" => Inherits(id, "eraser")
                   /\ (\A p \in a.paired : p.vid = WacomVid) => Inherits(id, "paired")
    <3> DEFINE s == stylusHt[id].from
               g == GroupOf(s)
               a == stylusHt[g.aliasOf]
    <3>1. g.aliasOf \in StylusId /\ a # NoStylus /\ stylusHt[id] = ParsedGroup(s, g, a)
      BY <2>1, <2>5, <2>7 DEF CopiedInv
    <3>2. a.paired \in SUBSET StylusId
      BY <2>1, <3>1 DEF StylusTypeOK, Stylus
    <3>3. LET p == ParsedGroup(s, g, a)
          IN  /\ p.group = OrFallback(g.group, a.group)
              /\ a.type # "Puck" => p.type = OrFallback(g.type, a.type)
              /\ a.eraser # "Unknown" => p.eraser = OrFallback(g.eraser, a.eraser)
              /\ (\A i \in a.paired : i.vid = WacomVid) => p.paired = OrFallback(g.paired, a.paired)
      BY <2>7, <3>2, CopyFacts
    <3> QED BY <3>1, <3>3 DEF Inherits
  <2> QED BY <2>5, <2>6, <2>7
<1>2. OrderInv => StyliDetermined
  BY <1>1 DEF StyliDetermined
<1> QED BY <1>2, OrderStart, OrderStepInv, PTL DEF StylusSpec
=============================================================================
