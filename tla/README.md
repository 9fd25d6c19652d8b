# libwacom in TLA+

TLA+ models of libwacom, the library that tells a desktop what a graphics tablet
is: which device an event node belongs to, its buttons, its styli. The models are
written from `libwacom/libwacom-database.c`, `libwacom/libwacom.c` and
`tools/list-local-devices.c`, checked by TLC on small instances and proved by TLAPS for every instance.
`PROJECT.json` gives for each definition the lines of C it stands for.
Paths are relative to the repository; `DB` is `libwacom/libwacom-database.c`, `LW` is
`libwacom/libwacom.c`.

## 1. Inventory

libwacom has no event loop and no I/O after its database is loaded. A caller
(a compositor, the settings panel, a tool) loads a *database* from `.tablet` and
`.stylus` files, asks it for *devices* and lets both go. What is hard is therefore not
concurrency first, but order (files come from `readdir` in any order, aliases may come
before what they name), precedence (three directories), shared ownership (one device under
several keys, matches shared by copies), and half-done work when a file is bad.

| Component | State | Operations | Interacts with | Hard behaviour | Correct if |
|---|---|---|---|---|---|
| Data directories | list of directories, `opendir` result | `libwacom_database_new`, `_new_for_path` | both loaders | a directory missing or unreadable | missing ones are skipped, unreadable ones fail the load |
| Tablet file loading | `device_ht`, `parsed_filenames`, `refcnt` of each device | `load_tablet_files` | stylus table (ids to pointers), matches | order of `readdir`, shadowing, duplicates half-way through a device | the table depends on the files alone; counts are exact |
| Stylus file loading | `stylus_ht`, pairing arrays | `load_stylus_files` in two passes, `libwacom_setup_paired_attributes` | tablet loading | aliases across files, redefinition frees a stylus | the table depends on the files alone; nothing freed is kept |
| Database load and release | both tables, `refcnt` | `database_new_for_paths`, `libwacom_database_unref` | all of the above | failure at any point; raw pointers from devices to styli | no dangling pointer; everything is released |
| Match strings | none (strings) | print, parse, build, collect | loading, lookup | different fields that print alike | equal string if and only if equal fields |
| Device lookup | the loop of one call | `libwacom_new_from_builder`, `_usbid`, `_name` | `device_ht`, matches, copies | four attempts in each bus; fallback; default match of the copy | the best fitting match wins |
| Builder | a record | setters | lookup | none | - |
| Reference counts | `refcnt` of database, device, match, stylus | ref, unref, copy, destroy, set default match | lookup, callers in several threads | last reference dropped by one thread while others copy | one destroyer, after the last user; no leak |
| Buttons and keys | `buttons`, mode counts, `keycodes` | `libwacom_parse_buttons`, `_parse_keys` | tablet loading | code lists rejected half-way; one button in two keys | all codes from one source; modes distinct |
| Other tablet keys | fields of a device | rest of `libwacom_parse_tablet_keyfile` | tablet loading | fallback styli, sizes in inches, flags that are unset or empty | what is printed reads back as the same device |
| Device probe | none (one call) | `get_device_info`, `libwacom_new_from_path` | udev, lookup | walks up the udev tree, two ways to find the bus | fails with an error set, succeeds with none |
| Comparison | none | `libwacom_compare` | tools | looks for the matches of one device in the other, depends on the default match | an equivalence on the copies of one database |
| Printing | none | `libwacom_print_device_description`, `libwacom_print_stylus_description` | tools, loader | what is printed is read back by tests | the second text is the first; no getter answers differently |
| Lists and getters | none | lists of styli, old and new; accessors that derive an answer | callers | two forms of one list, ids compared by a difference that wraps | both forms tell the same; a list has one order |
| Errors | code and text | `libwacom_error_set` | callers | paths that fail without it | set if and only if the call fails |
| `list-local-devices` | list of tablets with their nodes | `main` | probe, comparison | grouping of event nodes, copies destroyed once | the groups do not depend on the order of `/dev/input` |
| `update-db`, other tools | local | `main` | data, library | - | not modelled |

`PROJECT.json` lists the components with their status, and under "hazards" every place
where this code can go wrong in a way that a test would hardly reach, with the
properties that would notice.

## 2. Modules

Each run is `<run>.cfg` with the module named in `PROJECT.json`. The last column tells
where a module is checked.

| Module | Models | Checked by |
|---|---|---|
| `DataDirs` | the directories and what `opendir` finds | the loaders |
| `DeviceTable` | abstract: what loading the tablet files promises, in one step | property of `TabletLoad` |
| `TabletLoad` | `load_tablet_files` over all directories (DB 1440-1503, 1584-1587) | `TabletLoad`, `DatabaseLoad`; `LoadersProofs` |
| `StylusLoad` | the stylus passes and the pairing (DB 437-696, 1511-1536) | `DatabaseLoad`; `LoadersProofs` |
| `DatabaseLoad` | composes `StylusLoad` and `TabletLoad`; styli lists, failure, release (DB 1121-1181, 1552-1667) | `DatabaseLoad`; `DatabaseLoadProofs` |
| `StylusQueries` | the lists of styli in both forms, lookup by id, the sorted list, the stylus printer (LW 1553-1994, DB 1102-1181, 1729-1762) | `DatabaseLoad`; `DatabaseLoadProofs` |
| `Matches` | match strings (DB 167-291, LW 1319-1345, 1403-1417) | `DeviceProbe`, `PrintReload`, `ListLocal`; `MatchesProofs` |
| `Lookup` | `libwacom_new_from_builder` (LW 618-843) | `DeviceProbe`; `DeviceProbeProofs` |
| `DeviceProbe` | `get_device_info` and `libwacom_new_from_path`, on top of `Lookup` (LW 72-404, 845-888) | `DeviceProbe`; `DeviceProbeProofs` |
| `Registry` | abstract: what sharing a database promises, each call one step | property of `Lifetime` |
| `Lifetime` | atomic reference counts under threads (LW 406-455, 1258-1433, DB 1641-1667) | `Lifetime`; `LifetimeProofs` |
| `ButtonGroup` | what the `Buttons` and `Keys` groups stand for, as a function of the file | property of `Buttons`; used by `TabletFile` |
| `Buttons` | the loops that compute it: buttons, codes, modes, keys (DB 698-1100) | `Buttons`; `ButtonsProofs` |
| `TabletFile` | a whole `.tablet` file, the device parsed from it, its description, its comparison and its getters, as operators (DB 293-339, 1241-1408, LW 464-616, 921-1256, 1435-1747) | `PrintReload`, `ListLocal`; their proofs |
| `PrintReload` | print, read back, print again | `PrintReload`; `PrintReloadProofs` |
| `ListLocal` | `libwacom-list-local-devices` (`tools/list-local-devices.c` 55-76, 306-402) | `ListLocal`; `ListLocalProofs` |
| `...Proofs` | theorems: `LoadersProofs` about `TabletLoad` and `StylusLoad`, `DatabaseLoadProofs` about `DatabaseLoad` and `StylusQueries`, `MatchesProofs` lemmas about `Matches`, the others about the module of that name | TLAPS |

`DatabaseLoad` composes the two loaders, `DeviceProbe` the probe and the lookup, `ListLocal`
the comparison of `TabletFile` with the tool's list. `MC...` modules hold the instances.

How state and actions correspond to the code:

* **DeviceTable.** `Succeed` and `Fail` are what a load may come to. A match string in two files of
  one directory fails it. One in files of two directories is where NEWS and the code differ
  (section 3), so here both are allowed: to fail, as the code does, or to go on with the file of
  the first directory. A load that succeeds therefore has one table, and where no match string
  is there twice it has one outcome.
* **TabletLoad.** A device is the file it is parsed from, `<<directory, name>>`. `deviceHt`,
  `parsedFilenames`, `refcnt`, `cur` (`d`) and `idx` are the variables of the C loop;
  `unread` is what `readdir` has still to return, taken in any order. One action for each
  way through the loop body (shadowed, invalid, parsed), for one turn of the insertion loop
  (`InsertMatch`, `DuplicateMatch`), for its end (`FinishTablet`) and for each outcome of
  `opendir`. Parsing is abstracted to the array of matches, a sequence without
  repetition, empty for a file that is rejected. (`d->matches->len == 0` at DB 1471 cannot
  happen: the parser returns NULL then.)
* **StylusLoad.** A stylus is the group it is parsed from, `<<directory, name, position>>`.
  A group has the keys that steer the control (id, AliasOf) and one of each way an alias
  inherits: copied (`group`), through a string (`type`, `eraser`), through a list of
  printed ids (`paired`). `liveStyli` are the objects allocated and not freed, `hasEraser`
  the ids of those with `has_eraser`, which the pairing sets.
* **DatabaseLoad.** Lets `StylusLoad` run its passes, then `TabletLoad`, with the list of
  styli fixed when a file is parsed, then the pairing; `FailLoad` is the label `error`. The
  release destroys `device_ht` (one unref for each *entry*), then `stylus_ht`.
* **StylusQueries.** Operators on the state of a database that is ready. Vendors and tools are
  numbers below `2 * Half`, the range of an `unsigned int`; `AsInt` is the conversion of a difference to `int` in
  `wacom_stylus_id_sort`. `Sorted(ids)` are the lists in which no element is greater than the
  next, which is all a sort can promise for a comparison that is no order.
* **Lookup.** One state for each attempt of the search: `bus` and `approach` are
  positions in the two lists. `ret` is what the caller gets: the device copied, its default
  match, its name, the error.
* **DeviceProbe.** An event node is the sequence of its udev device and those above it, each
  a record of the properties the code asks for. One action for each stage of
  `get_device_info`: the node itself, `PRODUCT`, the old way through the bus, the builder; then
  the search of `Lookup` runs, and `ReturnDevice` fills in the integration flags. udev is
  external and gives any answer of `Chain`. Ids that were never set are `Garbage`.
* **Matches.** A text is the sequence of its pieces between `|` characters, so that
  printing is concatenation and the ambiguities of the format are there: `<<"A", "u">>` is
  the name `A|u`.
* **Lifetime.** Each `g_atomic_ref_count` operation is one step of one thread. The
  thread-safe surface is what the code makes it: counts are atomic, the tables are not changed
  after loading. A copy has one owner, since `libwacom_ref` is not exported.
* **Buttons.** A loop turn is an action; buttons are numbers from 1 (A), the evdev codes
  opaque numbers. `ButtonGroup` says what the loops have to end with.
* **TabletFile.** A file is the record of its keys, a device that of its fields.
  `Parse(f)` is `libwacom_parse_tablet_keyfile`, `Describe(d)` the key file that
  `libwacom_print_device_description` writes, `Same(a, b, all)` is `libwacom_compare`,
  `Answers(d)` what the getters return that derive it.
* **PrintReload.** `text` is parsed to `device`, printed to the next `text`, and so on.
* **ListLocal.** A probe is the device found, by which match, and the kernel's flags for the
  node; `CopyFor(n)` is the copy `libwacom_new_from_path` makes of it. `tablets` is
  `tabletlist`, `destroyed` counts the calls of `libwacom_destroy`.

Definitions that only a mutation of the code would use (`NeverShadowed`,
`UnlessLast`, `KeepCodes` and others, each before the definition it varies) are in the modules
so that every property can be shown to fail on a plausible bug; `PROJECT.json` pairs them.
They are not part of any specification.

## 3. What the runs check

### Passing

| Run | Properties | Question | Bounds |
|---|---|---|---|
| `TabletLoad` | `TabletInv`, `RefcntExact`, `EntriesStay`, `ImplementsTable` | Is the table the one the files call for, in whatever order they are read, and are the counts exact at every step? | 3 directories (as many as `libwacom_database_new` has), 2 names, 2 match strings, every content, every order |
| `DatabaseLoad` | `NoDangling`, `StyliCurrent`, `ReleasedExact`, `LiveExact`, `StyliDetermined`, `LegacyStyliResolve`, `LegacyPairsResolve`, `StyliReadBack`, `StyliSorted` | Are the raw pointers between the tables good for as long as they are used, on the failure path too? Does the stylus table depend on the files alone? Do the old and the new lists of styli tell the same, in one order, and does a stylus with an eraser have it among its partners? | 2 directories, 2 stylus files and 2 tablet files each; few stylus groups with up to three tablets, or many with one (below) |
| `Lifetime` | `LifeTypeOK`, `MatchRefsExact`, `WholeWhileReferenced`, `CopiesOutlive`, `OneDestroyer`, `NothingLeaks`, `EventuallyFreed`, `ImplementsRegistry` | Do counts stay exact and does destruction happen once, late enough, and at last? Do the interleaved calls look like single steps? | 3 threads, 2 matches, up to 2 database references a thread |
| `Buttons` | `CodesAllOrNothing`, `ModesDistinct`, `GroupsRead` | Is a rejected list undone, do direct mode switches get modes of their own, do the loops compute `ButtonGroup`? | 3 buttons, 7 lists for each of two mode switches, lists of codes short, long, bad; 2 keycodes |
| `DeviceProbe` | `MatchesDistinct`, `FindsBest`, `DefaultMatchFits`, `RoundTrip`, `ErrorTellsFailure`, `IdsFromOneSource`, `TabletFound`, `IntegrationDecided`, `CallEnds` | Is the string search a search for the best match by fields? Is what is searched for one device's, and does its tablet get found? Is the error set exactly on failure? | databases of 2 devices of up to 2 matches each, out of every combination of name, uniq and bus, one with an id that is zero, and the generic device; every builder over these; nodes of up to 3 udev devices |
| `PrintReload` | `ReadsBack`, `AnswersKept`, `Settles` | Does a description that is read back make the same device, for `libwacom_compare`, for every getter but those of the key codes (never printed), and for the printer? | 5032 files that vary one group of keys at a time; 5 buttons, two classes of heuristics |
| `ListLocal` | `GroupsAreClasses`, `TabletsApart`, `DestroyedOnce` | Does the list depend on the files and nodes alone, with each copy destroyed once? | 3 nodes, 2 tablets, one of them on two busses, three answers of the kernel, every order |

Why the bounds are enough. In `TabletLoad` two names in three directories give a
file that hides two others, an invalid one that hides a valid one, and duplicates in one
directory and across two; two matches give a device that fails at its first and at its
second match. In `DatabaseLoad` an alias depends on one other stylus, precedence compares
two definitions, and the contents combine both across directories and files: redefinitions,
aliases of aliases, bad references, groups with a bad id, ids of Wacom, of another vendor and
of none. Every stylus disk with every tablet disk is out of TLC's reach and is not
needed: what tablets do (duplicates, shadowing, three devices with one stylus) does not
depend on how a stylus came about, so the run has all tablets with a few stylus files and one
tablet with many. `Half` is 4 so that the ids 0, 2 and 5 have differences that wrap. In
`DeviceProbe` the result depends on the best match and one competitor, and on the nearest
ancestor that has a property and one farther away. In `Lifetime` a race on the last reference
takes two threads, and the third one copies or destroys a copy at the same time; an
object is shared by at most one array and one default for each device. `MaxDbRefs` only caps
how many references a thread takes. In `Buttons` three buttons make a gap in the letters, a
button in two keys, and an order that is not alphabetic; `PrintReload` has five, one more than
the small tablets have codes for. In `ListLocal` three nodes are what transitivity takes. For
the properties that are proved (section 4) no bound matters.

Conditions. Some properties hold only outside of cases in which the code does something else;
each case has a name. `Whole` (PrintReload): printing leaves out buttons after
a letter that is skipped, numbers of modes without a button, and styli of a tablet whose file
says it has no stylus. `InOrder`: modes of buttons are not printed as such but as the order of
the list, which the printer makes alphabetic. `Silent` and `Stale` (DeviceProbe): two failures
without an error, the first a finding below, and a success with one left over from a
malformed `PRODUCT`. `Disputed` (Lookup): a builder without a bus that only serial matches fit
(`OnlySerial`), and one with just one id that is zero (`HalfIds`); the header promises something else
than the code does, and of what is found nothing is said. (`GroupsRead` treats a list of codes
that does not fit the buttons alike: it may end the process or be ignored; and of the number
of keys a rejected list leaves it says nothing, `RejectedKeysIgnored` does.) `Unambiguous` (StylusLoad): no two files of one directory define one id,
and no alias names an id that an alias defines, or else the order of `readdir` decides.
`UsualFiles` (StylusQueries): ids of Wacom that have a vendor are not generic ones.
`InheritsPairs`: an alias inherits partners through a printed list without vendors.
`NearIds`: no two ids are half the range of an `int` apart.

No system here runs forever: a load, a lookup or a parse ends, and threads may stop
calling; so all runs say `CHECK_DEADLOCK FALSE`.

Fairness. `Lifetime` has weak fairness of the actions *inside* a call, for each
thread. A thread that is scheduled goes on with the call it is in, none of which blocks;
nothing makes it begin another call, so no thread need ever drop its
reference, and `EventuallyFreed` says what follows once all have. `FairProbeSpec` has weak
fairness of the whole next-state relation: one call in one thread, which runs on.
`CallEnds` is then about the loops of the search, which must come to an end.

### Violations

Each of these states what a document, a message or a test of the repository says, and TLC
shows a behaviour of the code that differs.

| Run | Says | What the code does |
|---|---|---|
| `TabletLoadEtcNoConflict` | NEWS of 1.10: duplicate matches in /etc cause no conflicts with the system's files | Only a file of the same *name* is shadowed (`AlreadyParsed`); a match that a file of another name repeats fails the whole load (`DuplicateMatch`). |
| `DatabaseLoadAllReleased` | `libwacom.h`: all memory is released with the last reference | `goto out` on a duplicate match skips `libwacom_unref(d)`. |
| `DeviceProbeFailureSetsError` | `libwacom.h`: in case of error, the error is set | A node without a name, and a touchpad on a serial bus, fail by `goto out` with no error set. |
| `ListLocalOneOfAKind` | the man page: only one such device is listed, with all event nodes of it | The comparison includes integration flags that the kernel fills in for each node. |
| `ButtonsRejectedKeysIgnored` | the warning: ignoring all codes | The array is cleared, `num_keycodes` is not. |

Other differences between documents and code. The models have what the code does; no property
that is checked asks for it, and none forbids what the document says:

* `libwacom.h` says that all known busses are tried for a builder with ids and no bus; the serial
  bus is not in the list (`Busses`). `FindsBest` and `DefaultMatchFits` count every bus and leave
  out `OnlySerial`.
* `libwacom.h` says that a builder with one id that is zero finds no match; a match in a file may
  have such an id and is found (`Tries`). The properties of the search leave out `HalfIds`.
* `data/wacom.example` says that an incomplete `EvdevCodes` line is ignored, and so do the
  messages; `g_error` ends the process (`AbortCodes`). `GroupsRead` allows either.
* The type of an alias goes through `str_from_type`, which prints a puck as `Pick`;
  `type_from_str` does not know it, and the alias has type unknown (`InheritedType`). An unknown eraser
  becomes none. `StyliDetermined` leaves out both.
* `data/wacom.example` writes `PairedIDs=` for the key that is read as `PairedID`.
* `KeyCodes` is never printed; the stylus printer writes `PairedIds=`, and
  `PairedStylusIds` is what is read (`Describe`, `PrintStylus`).
* `libwacom_compare` does not look at the modes of buttons (`Same`).
* `libwacom.h` says that the list of styli is sorted by vendor and tool id, which is not so
  when the difference of two ids wraps (`AsInt`).

## 4. What is proved

For any values of the constants that meet the assumptions:

| Module | Theorem | States |
|---|---|---|
| `LoadersProofs` | `TabletInvariance` | `TabletSpec => []TabletInv` |
| | `RefcntInvariance` | `TabletSpec => []RefcntExact` |
| | `EntriesStayTheorem` | `TabletSpec => EntriesStay` |
| | `LoadImplementsTable` | `TabletSpec => ImplementsTable`: `TabletLoad` refines `DeviceTable` |
| | `LiveTheorem` | `StylusSpec => []LiveExact` |
| | `DeterminedTheorem` | `StylusSpec => []StyliDetermined` |
| `DatabaseLoadProofs` | `DbLiveTheorem` | `DbSpec => []LiveExact` |
| | `DanglingTheorem` | `DbSpec => []NoDangling` |
| | `CurrentTheorem` | `DbSpec => []StyliCurrent` |
| | `ReleasedTheorem` | `DbSpec => []ReleasedExact` |
| | `LegacyStyliTheorem`, `LegacyPairsTheorem` | `DbSpec => []LegacyStyliResolve`, `DbSpec => []LegacyPairsResolve` |
| | `ReadBackTheorem` | `DbSpec => []StyliReadBack` |
| | `SortedTheorem` | `DbSpec => []StyliSorted` |
| `LifetimeProofs` | `LifeTypeTheorem`, `MatchRefsTheorem`, `WholeTheorem`, `OutliveTheorem`, `DestroyerTheorem`, `LeakTheorem` | the six invariants of `Lifetime` |
| | `LifetimeImplementsRegistry` | `LifeSpec => ImplementsRegistry`: the calls refine `Registry` |
| `ButtonsProofs` | `CodesTheorem` | `ButtonSpec => []CodesAllOrNothing` |
| | `ModesTheorem` | `ButtonSpec => []ModesDistinct` |
| | `GroupsTheorem` | `ButtonSpec => []GroupsRead`: the loops compute `ButtonGroup` |
| `DeviceProbeProofs` | `IdsTheorem` | `ProbeSpec => []IdsFromOneSource` |
| | `IntegrationTheorem` | `ProbeSpec => []IntegrationDecided` |
| | `ErrorTheorem` | `ProbeSpec => []ErrorTellsFailure` |
| | `SearchInvariance` | `ProbeSpec => []SearchInv`, the invariant of the search |
| | `DistinctTheorem` | `ProbeSpec => []MatchesDistinct` |
| | `BestTheorem`, `DefaultTheorem`, `RoundTripTheorem` | `FindsBest`, `DefaultMatchFits`, `RoundTrip` |
| | `TabletTheorem` | `ProbeSpec => []TabletFound` |
| `PrintReloadProofs` | `ReadsBackTheorem`, `AnswersTheorem`, `SettlesTheorem` | the three invariants of `PrintReload` |
| `ListLocalProofs` | `GroupsTheorem`, `ApartTheorem`, `DestroyedTheorem` | the three invariants of `ListLocal` |

Assumptions, all evaluated by TLC on the runs: names, match strings and threads are finite
sets; `NoDevice` is no device, `NoStylus` no stylus, `NoButton` no button, `Bad` no id and
no letter, `NoNode` no path; a node with its ancestors is a sequence; an array of matches
has no repetition (what `libwacom_add_match` sees to); the files hold what the parsers
return (`KeyGroup`, `ButtonFile`); a name or a uniq is a nonempty sequence of pieces, an empty piece
among them (`TextAssumption`), and a `DeviceMatch` key is a list of strings that have pieces
after the ids (`IsMatchList`); buttons are numbered within 1..26; numbers of
directories, matches, references and keycodes are natural numbers; `Unset`, a `Type` key that is not
there, is no type and no eraser (`UnsetAssumption`); the styli of the database are finitely many, by ids that
are numbers (`StylusAssumption`); the keys of a `.tablet` file are lists and numbers, its codes are
not 0 (no button has code `KEY_RESERVED`), and a missing key is no list (`FileAssumption`, `NullAssumption`); vendors and tools are within the range of an
`unsigned int` (`HalfAssumption`).

**TabletLoad.** What one wants, that the final table is a function of the files, is not
inductive: half-way through a directory the table is not the final one. `TabletInv` says
what it is then. A file is `Processed` when `readdir` has returned it, `Entered(f, m)`
holds for all matches of a processed file, and for the first `idx - 1` ones of the device
in hand. `NamesInv`: the names remembered are those of the processed files. `TableInv`:
`deviceHt[m] = f` if and only if `f` is processed, visible and has entered `m`; the
equivalence makes the owner of a match unique, so that a second claimant is a clash
(`FailInv`), and at the end, when every file is processed, the table is the abstract one
(`LastStep`). The step from names to visibility (`ShadowedNames`) is where
precedence comes in: a name is in `parsed_filenames` while a directory is read if and only
if an earlier directory has it, because a directory has each name once. `RefcntInvariance` counts the
entries on top: an insertion adds one entry and one reference (`FS_AddElement`).

**StylusLoad.** `LiveExact` (the styli allocated are those in the table) needs to know that
replacing an entry frees no stylus that another entry has: `OwnId` says that a stylus is in
the table under the id of the group it was parsed from, and nowhere else. `PairedLast` says that
partners are set when nothing is entered any more.

`StyliDetermined` is about the end of the second pass; `OrderInv` says what holds before.
A definition is `Seen` when the loops have passed it in the pass that enters its kind. `EntriesInv`: an id
has an entry if and only if a definition of it has been seen (aliases first), and no
definition seen is certain to be read after the one entered. While two files of a directory are
read in any order that is all one can say; at the end, when everything is seen, an unambiguous id
has one definition with that property (`LastReadIs`). `CopiedInv`: an alias is what its
group makes of the stylus that the table has *now* for the id it names. That is inductive because of
the second half of `Unambiguous`: the second pass replaces no stylus that an alias names
(`EnterOrder`).

**DatabaseLoad.** The invariant composes those of the loaders: a step of `LoadStyli` is one of
`StylusLoad` (`StylusStepInv`), a step of `LoadTablets` is one of `TabletLoad` (`StepInv`,
`RefcntStep`), and `ListsInv` relates them: no device is parsed before the last stylus is
entered, so that what the `Styli` key of a file stood for when the file was parsed it stands
for until the release. That order is the only thing that keeps the unreferenced pointers good.

**StylusQueries.** These are properties of a database that is ready, so the argument is what the
load leaves behind. For the tablets that is `ListsInv`. For the partners it is `PairsInv`, the
invariant that follows a pair from the file: `PairsFrom` says that the ids a stylus in the table
is paired with are those its own group writes, none if it writes none, or, for an alias that
inherits, ids of Wacom; `PairedIs` that at the end the styli paired with are those the table has
under these ids, and that a stylus `hasEraser` if one of them is one (`EraserPairs`). `ForId` undoes `Legacy` because ids of Wacom, with `UsualFiles`, have a vendor if and only
if they are not generic (`ForUsual`). `StyliSorted` is about any finite set of ids: where no difference wraps,
the comparison is the order by vendor and tool (`BelowFacts`), and a list in this order has each
id at its `Place`, the number of ids up to it; so there is one such list, by induction on the number of ids.

**Lifetime.** A count is exact at every step: the count of the database is the number of
the references the threads have, numbered as tokens (`DbTokens`), that of a match the number of
arrays and defaults it is in. `CopyOf` says what a thread has of its copy by the call it is
in, `DestroyerInv` that one thread at most is taking the database apart, and that it is whole
while a reference is left, `DeviceInv` that the device of the tables has its matches until its
last entry goes. Each action has a lemma. For the refinement, `Take`
happens when the copy is complete, `Close` when the database is freed; the steps that
copy, count and free in between are stutters (`RegistryStep`).

**Buttons.** `CodesSoFar`: while the list is read, the buttons from A on have its codes. At its
end the position has passed the number of buttons, so the buttons are exactly those from A to
the last code (a cardinality argument, `AllCodesFacts`). `ModeCounts`: the next mode is the number
of values before it that are buttons (`Rank`). `ModeRanked`: a button that only one feature switches
with has the rank of one of its places in the key; ranks of different places differ
(`RankFacts`), and they are below the number of buttons because those before it, and itself,
are different buttons with the flag (`RankBelowCount`, an injection). `GroupInv` says of every stage of the loops
what `ButtonGroup` says of the end, restricted to what has been read: `FlagsFrom`, a
button has the flags of keys that list it and at least one; `ModeExact`, its mode is the rank of its
last place in the last mode-switch key that lists it, and `CycleModes` if none does; `CodesRead`, the codes are those of the list so
far, in which no problem was met, or of the heuristics; `KeysRead`, the keycodes are those of the list so far, up to a bad one or
to the limit. When the loops end nothing is left unread and the two agree.

**DeviceProbe.** `NearestProp` says what the walk up the tree finds (the least index with the
property, from the well-foundedness of `<` on the naturals: `LeastElement`). `ProbeInv` says what is read
at each stage: bus and ids of one source from the moment both are there (`IdsRead`), the node's flags
until the device is there (`FlagsRead`), and that before the end only a `PRODUCT` that could not be
parsed has set the error (`ErrorsSoFar`). The steps of the search keep all of it (`SearchStep`).

**Lookup.** The theorems are about calls of `DeviceProbe`, by a path or by a builder. Three things
are put together. First, what a file's strings are parsed to: `ParseMatches` is a fold,
and TLA+ defines it by a function on sets of positions; `FoldExists` shows by induction on
the number of strings that there is such a function, so that `ParseFacts` can follow the loop of
`libwacom_add_match` string by string: no match string is there twice (`NoneTwice`), and each
is that of the fields beside it (`ParsedMatch`). Second, that strings tell matches apart:
`SameString` shows that two strings of fields without `|` are equal if and only if the
fields are, but for a missing and an empty name before a uniq. Third, the search:
`SearchInv` says that every attempt before the one in hand has missed
(`MissedBefore`), so that what is returned is what the first attempt that hits finds
(`Outcome`). `BusExhausted` is where the loop's exit matters: it leaves a bus when name and uniq of
an attempt are both missing, which may be the first attempt, and the attempts left are then alike
to those made. A match that fits is found by some
attempt unless it is on the serial bus and the builder has none (`BusTried`, `FitsIsTried`), and any
other match is on a better bus. `FindsBest` follows because an earlier attempt asks for more of the
builder, or for the same string as a later one (`EarlierIsBetter`); `TabletFound` because a name with a
`|` gives a string longer than any match of a file has (`UniqOfString`).

**PrintReload.** The theorems rest on one fact, `Reread`: what is parsed from the description of
a device `Agree`s with the device in all but the modes of its buttons, and in those too under
`InOrder`. It is shown key by key. A list is read by `Kept`, whose loop is followed element by
element (`KeptStep`), as that of the match strings is (`ParsePrinted`); a match that was read prints as
a string that reads as the match, although the first may have had more pieces (`ReadPrinted`). For
the styli there is the sort: a list of ids has a sorted rearrangement (`SortExists`, by insertion), and
only one, because of an element that is too small in one there would be more elements up to it than in
the other (`NoLess`, a count); so the printed list, sorted again, is the same (`SortSorted`). For the buttons, `FlagsReread`
gives letters and flags back because no letter is skipped. `CodesReread` is where the cases meet: a code 0
is printed as a name that is not read, which rejects the list and brings back the heuristics, and only they give
code 0, so that the list rejected was not one of the file's. `ModesReread` needs that an increasing list is known by its
elements (`SameIncreasing`). `ReloadInv` then says that the text is the file, or the one
description it leads to, and the device the first or the second, for good.

**ListLocal.** `AlikeKind` shows that for copies of the devices of one database
`libwacom_compare` comes down to the device, the default match and the integration flags: it
is an equivalence there, though not in general. With that, the tablets of the list are classes:
the first node of each stands for it and no two tablets are of one kind (`KindInv`), so that "the first that fits" is "the one that fits".

Only model-checked is liveness: `EventuallyFreed` and `CallEnds` need fairness, which is out of the
prover's reach. What a fold or a sort computes is within it: TLA+ defines these by functions and by
choices, whose existence is an induction on a set of numbers (`FoldExists`, `FlatExists`, `SortExists`,
`Induction`). `TabletFile` states its sort and its filter (`Sort`, `Kept`) in that form, as the operators of the
libraries for them have no definition a prover could use.

## 5. Assumptions and what is not modelled

* Files do not change while a database is loaded, and memory allocation does not fail.
* Warnings and debug output are left out.
* In `StyliDetermined` types, erasers and pairs that do not survive the conversion through a
  string (puck, unknown eraser, ids of other vendors) are excepted by name.
* `FindsBest`, `DefaultMatchFits` and `RoundTrip` are about builders whose texts have no `|` and
  that are not `Disputed` (`RoundTrip`: without `HalfIds`).
  A kernel name with one in it is looked up as if it were a name and a uniq.
* `TabletFound` leaves out nodes with one id that is zero, and an empty `UNIQ`, which `parse_uniq` takes for none, as it leaves
  out a missing one.
* The styli a device points to are a set in `DatabaseLoad`; `TabletFile` has them as a list,
  one that is named by id and by group twice, as in the code. The order there is that of ids
  that are near each other; the wrapping difference is in `StylusQueries`.
* In `ModesDistinct` a feature's buttons are its own. A button in two mode-switch keys has the
  mode of the later key, and `Strip2` is not counted among the modes of the strips.
* A copy of a device keeps raw pointers to styli of the database; the document makes this
  the caller's duty, and `Lifetime` does not let a thread look at them.
* Every `.tablet` file has a name; a udev device has a subsystem; the quotes around udev
  properties, and the escapes of key files, are left out; no property depends on the order of
  keys in a group.

Not modelled:

* `libwacom-update-db.py` reads the `.tablet` files once more, in Python, and writes a hwdb
  file. Every entry of one key sets the same value, so its order of directories decides nothing.
* `libwacom_list_devices_from_database`: the values of the device table, each once. Devices
  with one vendor, product and name are in any order.
* The output of `list-local-devices`, in either format: it reads the list and changes nothing.
* `list-devices`, `list-compatible-styli`, `debug-device`, `show-stylus`: print what the
  library returns.
* `libwacom_stylus_ref` and `_unref` on a count above one (no caller), error objects as
  memory, the setters of a builder (single assignments), the data.

## 6. Plan

Done: `TabletLoad` with `DeviceTable`; `StylusLoad`; `DatabaseLoad`; `Matches`, `Lookup` and
`DeviceProbe`; `Lifetime` with `Registry`; `Buttons` with `ButtonGroup`; `TabletFile`,
`PrintReload` and `ListLocal`, which take in comparison, printing and the getters;
`StylusQueries`, with the sorted list of styli; the proofs of section 4.

Left, most useful first:

1. The stylus table in one step, an abstract module beside `DeviceTable` that `StylusLoad`
   implements; `DeterminedTheorem` has the argument.
2. `libwacom_list_devices_from_database` over the tables of `DatabaseLoad`.
3. `AlikeKind` of `ListLocal` for copies of two databases, which the tool does not have and a library user may.
