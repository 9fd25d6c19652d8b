----------------------------- MODULE TabletLoad -----------------------------
(***************************************************************************)
(* The third pass of database_new_for_paths (libwacom-database.c):          *)
(* load_tablet_files on each data directory in order of precedence.  Each   *)
(* readdir entry is parsed unless a file of its name was seen before, and   *)
(* the device is entered in device_ht under each of its match strings, one  *)
(* reference for each entry.  readdir returns the files of a directory in   *)
(* an arbitrary order.                                                      *)
(*                                                                          *)
(* Parsing is abstracted to the matches array it yields: a sequence without *)
(* repetition (libwacom_add_match), <<>> for a file that                    *)
(* libwacom_parse_tablet_keyfile rejects with NULL.                         *)
(***************************************************************************)
EXTENDS DataDirs, Sequences, FiniteSets

CONSTANTS
  FileName,     \* the d_names is_tablet_file accepts
  MatchString,
  MatchArrays,  \* the matches arrays a file may be parsed to
  NoDevice

Device == Dir \X FileName   \* a device is the file it is parsed from

ASSUME NamesAssumption == IsFiniteSet(FileName) /\ IsFiniteSet(MatchString)
ASSUME NoDeviceAssumption == NoDevice \notin Device
ASSUME ArraysAssumption ==
  \A s \in MatchArrays :
    /\ s \in Seq(MatchString)
    /\ \A i, j \in 1..Len(s) : s[i] = s[j] => i = j

VARIABLES
  files,           \* the .tablet files on disk
  matches,         \* what each file parses to
  tabletPc,        \* where the loop is
  tabletDir,       \* datadir, as an index
  unread,          \* the names readdir has still to return
  parsedFilenames, \* parsed_filenames
  deviceHt,        \* device_ht: match string to device
  cur,             \* d, the device being entered
  idx,             \* idx, 1-based
  refcnt           \* refcnt of each device, 0 before it exists and once freed

diskVars   == <<dirStatus, files, matches>>
tabletVars == <<dirStatus, files, matches, tabletPc, tabletDir, unread,
                parsedFilenames, deviceHt, cur, idx, refcnt>>

DiskInit ==
  /\ DirsInit
  /\ files \in SUBSET {f \in Device : dirStatus[f[1]] = "ok"}
  /\ matches \in [Device -> MatchArrays \cup {<<>>}]
  /\ \A f \in Device \ files : matches[f] = <<>>

TabletInit ==
  /\ DiskInit
  /\ tabletPc = "opendir"
  /\ tabletDir = 1
  /\ unread = {}
  /\ parsedFilenames = {}
  /\ deviceHt = [m \in MatchString |-> NoDevice]
  /\ cur = NoDevice
  /\ idx = 1
  /\ refcnt = [f \in Device |-> 0]

-----------------------------------------------------------------------------
\* g_hash_table_lookup(parsed_filenames, file->d_name)
NeverShadowed(n)  == FALSE
AlreadyParsed(n)  == n \in parsedFilenames

\* g_hash_table_contains(db->device_ht, matchstr)
NeverTaken(m) == FALSE
Taken(m)      == deviceHt[m] # NoDevice

OpenTabletDir ==
  /\ tabletPc = "opendir" /\ tabletDir <= NDirs /\ dirStatus[tabletDir] = "ok"
  /\ unread' = {n \in FileName : <<tabletDir, n>> \in files}
  /\ tabletPc' = "readdir"
  /\ UNCHANGED <<diskVars, tabletDir, parsedFilenames, deviceHt, cur, idx, refcnt>>

MissingTabletDir ==
  /\ tabletPc = "opendir" /\ tabletDir <= NDirs /\ dirStatus[tabletDir] = "missing"
  /\ tabletDir' = tabletDir + 1
  /\ UNCHANGED <<diskVars, tabletPc, unread, parsedFilenames, deviceHt, cur, idx, refcnt>>

UnreadableTabletDir ==
  /\ tabletPc = "opendir" /\ tabletDir <= NDirs /\ dirStatus[tabletDir] = "unreadable"
  /\ tabletPc' = "failed"
  /\ UNCHANGED <<diskVars, tabletDir, unread, parsedFilenames, deviceHt, cur, idx, refcnt>>

SkipShadowedFile(n) ==
  /\ tabletPc = "readdir" /\ n \in unread /\ AlreadyParsed(n)
  /\ unread' = unread \ {n}
  /\ UNCHANGED <<diskVars, tabletPc, tabletDir, parsedFilenames, deviceHt, cur, idx, refcnt>>

\* The name is recorded before the file is parsed: an invalid file hides too.
SkipInvalidFile(n) ==
  /\ tabletPc = "readdir" /\ n \in unread /\ ~AlreadyParsed(n)
  /\ matches[<<tabletDir, n>>] = <<>>
  /\ unread' = unread \ {n}
  /\ parsedFilenames' = parsedFilenames \cup {n}
  /\ UNCHANGED <<diskVars, tabletPc, tabletDir, deviceHt, cur, idx, refcnt>>

ParseTablet(n) ==
  /\ tabletPc = "readdir" /\ n \in unread /\ ~AlreadyParsed(n)
  /\ matches[<<tabletDir, n>>] # <<>>
  /\ unread' = unread \ {n}
  /\ parsedFilenames' = parsedFilenames \cup {n}
  /\ cur' = <<tabletDir, n>>
  /\ idx' = 1
  /\ refcnt' = [refcnt EXCEPT ![<<tabletDir, n>>] = 1]
  /\ tabletPc' = "insert"
  /\ UNCHANGED <<diskVars, tabletDir, deviceHt>>

InsertMatch ==
  /\ tabletPc = "insert" /\ idx <= Len(matches[cur])
  /\ ~Taken(matches[cur][idx])
  /\ deviceHt' = [deviceHt EXCEPT ![matches[cur][idx]] = cur]
  /\ refcnt' = [refcnt EXCEPT ![cur] = @ + 1]
  /\ idx' = idx + 1
  /\ UNCHANGED <<diskVars, tabletPc, tabletDir, unread, parsedFilenames, cur>>

\* goto out: the entries made so far stay, and so does the parser's reference.
DuplicateMatch ==
  /\ tabletPc = "insert" /\ idx <= Len(matches[cur])
  /\ Taken(matches[cur][idx])
  /\ tabletPc' = "failed"
  /\ UNCHANGED <<diskVars, tabletDir, unread, parsedFilenames, deviceHt, cur, idx, refcnt>>

KeepParseReference ==
  /\ tabletPc = "insert" /\ idx > Len(matches[cur])
  /\ cur' = NoDevice
  /\ tabletPc' = "readdir"
  /\ UNCHANGED <<diskVars, tabletDir, unread, parsedFilenames, deviceHt, idx, refcnt>>

FinishTablet ==
  /\ tabletPc = "insert" /\ idx > Len(matches[cur])
  /\ refcnt' = [refcnt EXCEPT ![cur] = @ - 1]
  /\ cur' = NoDevice
  /\ tabletPc' = "readdir"
  /\ UNCHANGED <<diskVars, tabletDir, unread, parsedFilenames, deviceHt, idx>>

CloseTabletDir ==
  /\ tabletPc = "readdir" /\ unread = {}
  /\ tabletDir' = tabletDir + 1
  /\ tabletPc' = "opendir"
  /\ UNCHANGED <<diskVars, unread, parsedFilenames, deviceHt, cur, idx, refcnt>>

AllTabletDirs ==
  /\ tabletPc = "opendir" /\ tabletDir > NDirs
  /\ tabletPc' = "done"
  /\ UNCHANGED <<diskVars, tabletDir, unread, parsedFilenames, deviceHt, cur, idx, refcnt>>

TabletStep ==
  \/ OpenTabletDir \/ MissingTabletDir \/ UnreadableTabletDir
  \/ \E n \in FileName : SkipShadowedFile(n) \/ SkipInvalidFile(n)
  \/ InsertMatch \/ DuplicateMatch \/ FinishTablet
  \/ CloseTabletDir \/ AllTabletDirs

TabletNext == TabletStep \/ \E n \in FileName : ParseTablet(n)

TabletSpec == TabletInit /\ [][TabletNext]_tabletVars

-----------------------------------------------------------------------------
TabletTypeOK ==
  /\ dirStatus \in [Dir -> DirStatus]
  /\ files \subseteq Device
  /\ matches \in [Device -> MatchArrays \cup {<<>>}]
  /\ tabletPc \in {"opendir", "readdir", "insert", "done", "failed"}
  /\ tabletDir \in 1..(NDirs + 1)
  /\ unread \subseteq FileName
  /\ parsedFilenames \subseteq FileName
  /\ deviceHt \in [MatchString -> Device \cup {NoDevice}]
  /\ cur \in Device \cup {NoDevice}
  /\ idx \in Nat \ {0}
  /\ refcnt \in [Device -> Int] \* never negative, by RefcntExact

\* A file readdir has returned, shadowed and invalid ones included.
Processed(f) ==
  /\ f \in files
  /\ \/ f[1] < tabletDir
     \/ f[1] = tabletDir /\ tabletPc # "opendir" /\ f[2] \notin unread

\* A match of f that has its entry: all of them, the first ones if f is cur.
Entered(f, m) == \E i \in 1..Len(matches[f]) : matches[f][i] = m /\ (f = cur => i < idx)

Outcome == IF tabletPc = "done" THEN "loaded"
           ELSE IF tabletPc = "failed" THEN "failed" ELSE "loading"

Table == INSTANCE DeviceTable WITH
           outcome <- Outcome,
           table   <- IF tabletPc = "done" THEN deviceHt
                      ELSE [m \in MatchString |-> NoDevice]

DiskInv ==
  /\ \A f \in files : dirStatus[f[1]] = "ok"
  /\ \A f \in Device \ files : matches[f] = <<>>

LoopInv ==
  /\ tabletPc = "opendir" => unread = {}
  /\ tabletPc \in {"readdir", "insert", "failed"} => tabletDir <= NDirs
  /\ tabletPc = "done" => tabletDir = NDirs + 1
  /\ \A n \in unread : <<tabletDir, n>> \in files
  /\ \A d \in Dir : d < tabletDir => dirStatus[d] # "unreadable"
  /\ tabletPc \in {"readdir", "insert"} => dirStatus[tabletDir] = "ok"
  /\ tabletPc \in {"opendir", "readdir", "done"} => cur = NoDevice
  /\ tabletPc = "insert" => cur # NoDevice
  /\ cur # NoDevice => /\ Processed(cur) /\ Table!Visible(cur) /\ cur[1] = tabletDir
                       /\ idx <= Len(matches[cur]) + 1

NamesInv == parsedFilenames = {n \in FileName : \E f \in files : Processed(f) /\ f[2] = n}

TableInv ==
  \A m \in MatchString, f \in Device :
    deviceHt[m] = f <=> Processed(f) /\ Table!Visible(f) /\ Entered(f, m)

FailInv == tabletPc = "failed" => Table!Clash \/ Table!Unreadable

\* Half-way through the load: the names remembered are those of the files
\* returned so far, and device_ht holds the matches of the files returned so
\* far that no earlier directory hides, each under the one device that has it.
TabletInv == TabletTypeOK /\ DiskInv /\ LoopInv /\ NamesInv /\ TableInv /\ FailInv

EntriesOf(f) == {m \in MatchString : deviceHt[m] = f}

\* A device is referenced once by each entry of device_ht and once by the
\* parser while it is being entered: it is not freed under an entry, and the
\* table holds the only references when it is done.
RefcntExact ==
  \A f \in Device :
    refcnt[f] = Cardinality(EntriesOf(f)) + (IF f = cur THEN 1 ELSE 0)

\* No step takes a match string from the device that has it: the first file to
\* claim a string keeps it, whatever comes after.
EntriesStay ==
  [][\A m \in MatchString : deviceHt[m] # NoDevice => deviceHt'[m] = deviceHt[m]]_tabletVars

\* Loading implements DeviceTable: whatever the order of readdir, it succeeds only
\* with the table the files on disk determine, fails only for a match string that two
\* of them have or an unreadable directory, and is settled by its first outcome.
ImplementsTable == Table!TableSpec

\* Duplicate matches in /etc, the directory before the last, do not conflict with the
\* files of the system, in the last one (NEWS, libwacom 1.10): a load that fails has
\* another reason.
EtcNoConflict ==
  tabletPc = "failed" =>
    \/ Table!Unreadable
    \/ \E f, g \in files, m \in MatchString :
         /\ f # g /\ Table!Claims(f, m) /\ Table!Claims(g, m)
         /\ {f[1], g[1]} # {NDirs - 1, NDirs}
=============================================================================
