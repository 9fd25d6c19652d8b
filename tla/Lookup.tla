------------------------------- MODULE Lookup -------------------------------
(***************************************************************************)
(* libwacom_new_from_builder (libwacom.c): the search for the device that   *)
(* fits a builder, and the copy of it that the caller gets.  A builder with *)
(* a device name alone is looked up by name, one with a uniq alone by uniq, *)
(* any other one by match string: for each bus to try, with uniq and name,  *)
(* then uniq alone, then name alone, then neither.                          *)
(*                                                                          *)
(* libwacom_new_from_usbid and libwacom_new_from_name are calls with a      *)
(* builder that has just the ids or the device name.                        *)
(***************************************************************************)
EXTENDS Matches, FiniteSets

CONSTANTS
  DeviceFile,   \* what a .tablet file may hold: [name, deviceMatch]
  Builder,      \* the builders a caller may make
  Piece,        \* what there is in texts between '|' characters
  Slot,         \* one for each device of the database
  NoDevice

ASSUME NoDeviceAssumption == NoDevice \notin Slot

Text == Seq(Piece) \ {<<>>}

\* What a DeviceMatch key may hold
IsMatchList(strings) ==
  /\ Len(strings) \in Nat /\ DOMAIN strings = 1..Len(strings)
  /\ \A i \in DOMAIN strings :
       Len(strings[i]) \in Nat /\ \A j \in 4..Len(strings[i]) : strings[i][j] \in Piece

\* NULL is no text; a piece may be empty.
ASSUME TextAssumption ==
  /\ Null \notin Seq(Piece) /\ "" \in Piece
  /\ \A f \in DeviceFile : IsMatchList(f.deviceMatch)
  /\ \A b \in Builder : {b.matchName, b.uniq} \subseteq Text \cup {Null} /\ b.bus \in Bus \cup {"unknown"}

VARIABLES
  db,           \* the devices: [name, matches, match], or Null for no database
  builder,
  fallback,     \* fallback flags
  pc,
  bus,          \* position in the list of busses
  approach,     \* position in approaches
  device,       \* the device found
  ret           \* the device returned, NoDevice for NULL, and the error set
lookupVars == <<db, builder, fallback, pc, bus, approach, device, ret>>

\* The device a .tablet file is parsed to: its first match is the default.
ParsedFile(f) == LET ms == ParseMatches(f.deviceMatch)
                 IN  [name |-> f.name, matches |-> ms, match |-> Head(ms)]

MatchStrings(d) == {d.matches[i].match : i \in DOMAIN d.matches}

\* A database that loads has no match string twice.
DatabasesOf(fs) ==
  {d \in [Slot -> {ParsedFile(f) : f \in {g \in fs : ParseMatches(g.deviceMatch) # <<>>}}] :
     \A s, t \in Slot : s # t => MatchStrings(d[s]) \cap MatchStrings(d[t]) = {}}

NoError == "NONE"

LookupInit ==
  /\ db \in DatabasesOf(DeviceFile) \cup {Null}
  /\ builder \in Builder
  /\ fallback \in {"NONE", "GENERIC", "invalid"}
  /\ pc = "check"
  /\ bus = 1
  /\ approach = 1
  /\ device = NoDevice
  /\ ret = [of |-> NoDevice, error |-> NoError]

-----------------------------------------------------------------------------
NameOnly(b) == /\ b.deviceName # Null /\ b.matchName = Null /\ b.uniq = Null
               /\ b.vid = 0 /\ b.pid = 0 /\ b.bus = "unknown"
UniqOnly(b) == /\ b.deviceName = Null /\ b.matchName = Null /\ b.uniq # Null
               /\ b.vid = 0 /\ b.pid = 0 /\ b.bus = "unknown"

\* libwacom_get_device
GetDevice(string) ==
  IF \E s \in Slot : string \in MatchStrings(db[s])
  THEN CHOOSE s \in Slot : string \in MatchStrings(db[s])
  ELSE NoDevice

EveryBus == <<"usb", "i2c", "bluetooth">>
Busses   == IF builder.bus # "unknown" THEN <<builder.bus>> ELSE <<"usb", "i2c", "bluetooth">>

NameBeforeUniq(name, uniq) == <<[name |-> name, uniq |-> uniq], [name |-> name, uniq |-> Null],
                                [name |-> Null, uniq |-> uniq], [name |-> Null, uniq |-> Null]>>
Approaches(name, uniq) == <<[name |-> name, uniq |-> uniq], [name |-> Null, uniq |-> uniq],
                            [name |-> name, uniq |-> Null], [name |-> Null, uniq |-> Null]>>

Tried == Approaches(builder.matchName, builder.uniq)[approach]

UniqMatch(d, uniq) == \E i \in DOMAIN d.matches : d.matches[i].uniq = uniq

AnyMatch(d, m) == d.match
\* libwacom_set_default_match
DefaultMatch(d, m) ==
  IF m.match \in MatchStrings(d)
  THEN d.matches[CHOOSE i \in DOMAIN d.matches : d.matches[i].match = m.match]
  ELSE d.match

\* fallback_or_device, for no device
FallbackReturn ==
  LET g == GetDevice(Generic)
  IN  IF fallback = "NONE" \/ g = NoDevice
      THEN [of |-> NoDevice, error |-> "UNKNOWN_MODEL"]
      ELSE [of |-> g, error |-> NoError, match |-> db[g].match,
            name |-> IF builder.deviceName # Null THEN builder.deviceName ELSE db[g].name]

Found(s, m) == [of |-> s, error |-> NoError, match |-> m, name |-> db[s].name]

-----------------------------------------------------------------------------
Refuse(error) ==
  /\ ret' = [of |-> NoDevice, error |-> error]
  /\ pc' = "return"
  /\ UNCHANGED <<db, builder, fallback, bus, approach, device>>

BadFallback == pc = "check" /\ fallback = "invalid" /\ Refuse("BUG_CALLER")
NoDatabase  == pc = "check" /\ fallback # "invalid" /\ db = Null /\ Refuse("INVALID_DB")

Checked == pc = "check" /\ fallback # "invalid" /\ db # Null

\* g_hash_table_get_values has no order: any device that fits may be found.
ReturnOneOf(S) ==
  /\ IF S = {} THEN ret' = FallbackReturn
     ELSE \E s \in S : ret' = Found(s, db[s].match)
  /\ pc' = "return"
  /\ UNCHANGED <<db, builder, fallback, bus, approach, device>>

FindByName == /\ Checked /\ NameOnly(builder)
              /\ ReturnOneOf({s \in Slot : db[s].name = builder.deviceName})
FindByUniq == /\ Checked /\ UniqOnly(builder)
              /\ ReturnOneOf({s \in Slot : UniqMatch(db[s], builder.uniq)})

StartMatching ==
  /\ Checked /\ ~NameOnly(builder) /\ ~UniqOnly(builder)
  /\ pc' = "match"
  /\ UNCHANGED <<db, builder, fallback, bus, approach, device, ret>>

Tries == GetDevice(MakeMatchString(Tried.name, Tried.uniq, Busses[bus], builder.vid, builder.pid))

Hit ==
  /\ pc = "match" /\ bus <= Len(Busses) /\ Tries # NoDevice
  /\ device' = Tries
  /\ pc' = "copy"
  /\ UNCHANGED <<db, builder, fallback, bus, approach, ret>>

MissSameBus ==
  /\ pc = "match" /\ bus <= Len(Busses) /\ Tries = NoDevice
  /\ approach' = IF Tried.name = Null /\ Tried.uniq = Null THEN 1 ELSE approach + 1
  /\ UNCHANGED <<db, builder, fallback, pc, bus, device, ret>>

Miss ==
  /\ pc = "match" /\ bus <= Len(Busses) /\ Tries = NoDevice
  /\ IF Tried.name = Null /\ Tried.uniq = Null
     THEN bus' = bus + 1 /\ approach' = 1
     ELSE approach' = approach + 1 /\ UNCHANGED bus
  /\ UNCHANGED <<db, builder, fallback, pc, device, ret>>

NotFound ==
  /\ pc = "match" /\ bus > Len(Busses)
  /\ ret' = FallbackReturn
  /\ pc' = "return"
  /\ UNCHANGED <<db, builder, fallback, bus, approach, device>>

CopyFound ==
  /\ pc = "copy"
  /\ LET used == MatchNew(Tried.name, Tried.uniq, Busses[bus], builder.vid, builder.pid)
     IN  ret' = Found(device, DefaultMatch(db[device], used))
  /\ pc' = "return"
  /\ UNCHANGED <<db, builder, fallback, bus, approach, device>>

LookupNext ==
  \/ BadFallback \/ NoDatabase \/ FindByName \/ FindByUniq
  \/ StartMatching \/ Hit \/ Miss \/ NotFound \/ CopyFound

LookupSpec == LookupInit /\ [][LookupNext]_lookupVars

-----------------------------------------------------------------------------
\* What the search promises, stated on the fields of the matches, where the code
\* compares strings.

\* No name or uniq of the builder has a '|' in it.
Plain(b) == \A text \in {b.matchName, b.uniq} \ {Null} : Len(text) = 1

\* An empty name and no name are printed alike before a uniq.
SameText(m, name, uniq) ==
  /\ m.uniq = uniq
  /\ m.name = name \/ (uniq # Null /\ {m.name, name} \subseteq {Null, <<"">>})

Wanted(b) == IF b.bus = "unknown" THEN Bus ELSE {b.bus}

Fits(m, b) ==
  /\ m.vid = b.vid /\ m.pid = b.pid /\ m.bus \in Wanted(b)
  /\ \E name \in {b.matchName, Null}, uniq \in {b.uniq, Null} : SameText(m, name, uniq)

BusRank == [usb |-> 1, i2c |-> 2, bluetooth |-> 3, serial |-> 4]
Named(m)  == m.name # Null /\ (m.uniq # Null => m.name # <<"">>)
Detail(m) == (IF m.uniq # Null THEN 2 ELSE 0) + (IF Named(m) THEN 1 ELSE 0)

Better(m, n) ==
  \/ BusRank[m.bus] < BusRank[n.bus]
  \/ m.bus = n.bus /\ Detail(m) > Detail(n)

MatchesOf(s)  == {db[s].matches[i] : i \in DOMAIN db[s].matches}
Candidates(b) == UNION {{m \in MatchesOf(s) : Fits(m, b)} : s \in Slot}

\* Where the documentation of libwacom_new_from_builder promises other results than the
\* search has: what fits a builder without a bus is on the one bus that is not tried
\* ("all known bus types are tested"), or one of the ids is zero ("no match will be
\* found").
OnlySerial(b) == b.bus = "unknown" /\ \A m \in Candidates(b) : m.bus = "serial"
HalfIds(b)    == (b.vid = 0) # (b.pid = 0)
Disputed(b)   == OnlySerial(b) \/ HalfIds(b)

\* The result of a search by match string for a builder with plain texts.
Searched == /\ pc = "return" /\ db # Null /\ fallback # "invalid"
            /\ ~NameOnly(builder) /\ ~UniqOnly(builder) /\ Plain(builder)

\* No two matches of the database, of one device or of two, are for the same
\* bus, ids, name and uniq: equal strings and equal fields are the same thing.
MatchesDistinct ==
  db # Null =>
    \A s, t \in Slot : \A i \in DOMAIN db[s].matches, j \in DOMAIN db[t].matches :
      LET m == db[s].matches[i]
          n == db[t].matches[j]
      IN  m.bus = n.bus /\ m.vid = n.vid /\ m.pid = n.pid /\ SameText(m, n.name, n.uniq)
          => s = t /\ i = j

\* A search finds a device if and only if a match of some device fits the builder,
\* and the device has the best such match: on the first bus that has one, a
\* match with the uniq before one without, then one with the name before one
\* without.  For a disputed builder that some match fits any result will do.
FindsBest ==
  Searched =>
    IF Candidates(builder) = {} THEN ret = FallbackReturn
    ELSE ~Disputed(builder) =>
         /\ ret.of # NoDevice
         /\ \E m \in MatchesOf(ret.of) \cap Candidates(builder) :
              \A n \in Candidates(builder) \ {m} : Better(m, n)

\* The device returned for a fitting match has a match that fits as its default,
\* never another one of the matches of its file.
DefaultMatchFits ==
  Searched /\ Candidates(builder) # {} /\ ~Disputed(builder) => Fits(ret.match, builder)

\* Any match of a device but the generic one's, looked up by its own fields, leads back
\* to that device, with that match as the default.
RoundTrip ==
  Searched /\ ~HalfIds(builder) =>
    \A s \in Slot, m \in UNION {MatchesOf(t) : t \in Slot} :
      m \in MatchesOf(s) /\ m.match # Generic /\ m.bus = builder.bus /\ m.vid = builder.vid
        /\ m.pid = builder.pid /\ m.name = builder.matchName /\ m.uniq = builder.uniq
      => ret.of = s /\ ret.match = m
=============================================================================
