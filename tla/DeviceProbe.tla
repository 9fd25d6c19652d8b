----------------------------- MODULE DeviceProbe -----------------------------
(***************************************************************************)
(* libwacom_new_from_path (libwacom.c): get_device_info reads what udev      *)
(* knows of an event node and of its ancestors, the result is put in a       *)
(* builder, Lookup searches the database for it, and the kernel's integration *)
(* flags fill in those the .tablet file does not set.                        *)
(*                                                                          *)
(* A udev device is a record; the node and its ancestors are a sequence:     *)
(*   tablet, touchpad   ID_INPUT_TABLET, ID_INPUT_TOUCHPAD                   *)
(*   uinput, uinputBus  UINPUT_DEVICE, UINPUT_SUBSYSTEM                      *)
(*   product            PRODUCT, the sequence of its fields; -1 is no number *)
(*   name, uniq         NAME, UNIQ without quotes; the stem of a uniq's text *)
(*                      <vendor>_<model>_<version> is without the version,   *)
(*                      that of any other text the text                      *)
(*   subsystem          never missing                                       *)
(*   props              the node's device/properties in sysfs                *)
(***************************************************************************)
EXTENDS Lookup

CONSTANTS
  ProbedFile, \* DeviceFile, for the databases that nodes are looked up in
  Chain,      \* the nodes with their ancestors
  NoPath,     \* the path NULL
  NoNode      \* no path: the caller has a builder

\* A path in udev is a node with its ancestors; none is taken for a caller's builder.
ASSUME ChainAssumption ==
  /\ \A c \in Chain : Len(c) \in Nat /\ DOMAIN c = 1..Len(c)
  /\ NoNode \notin Chain \cup {NoPath, <<>>}
  /\ \A c \in Chain : \A i \in DOMAIN c :
       c[i].name \in Text \cup {Null} /\ (c[i].uniq # Null => {c[i].uniq.text, c[i].uniq.stem} \subseteq Text)
  /\ \A f \in ProbedFile : IsMatchList(f.deviceMatch)

NotInUdev == <<>>

VARIABLES
  chain,        \* the path
  fileFlags,    \* integration flags of each device of the database
  kernelFlags,  \* those of the node
  info,         \* what get_device_info has filled in
  error,        \* the code in the caller's error object
  flags         \* integration flags of the device returned
nodeVars  == <<chain, fileFlags, kernelFlags, info, error, flags>>
probeVars == <<lookupVars, nodeVars>>

Garbage == -1   \* an int nobody has set
NoInfo  == [name |-> Null, uniq |-> Null, bus |-> "unknown", vid |-> Garbage, pid |-> Garbage]

\* libwacom_builder_new
NewBuilder == [deviceName |-> Null, matchName |-> Null, uniq |-> Null,
               vid |-> 0, pid |-> 0, bus |-> "unknown"]

ProbeInit ==
  /\ db \in DatabasesOf(ProbedFile) \cup {Null}
  /\ fallback \in {"NONE", "GENERIC"}
  /\ builder = NewBuilder
  /\ pc = "path" /\ bus = 1 /\ approach = 1 /\ device = NoDevice
  /\ ret = [of |-> NoDevice, error |-> NoError]
  /\ chain \in Chain \cup {NoPath, NotInUdev}
  /\ fileFlags \in {[s \in Slot |-> f] : f \in {"UNSET", "DISPLAY"}}
  /\ kernelFlags = "UNSET" /\ flags = "UNSET"
  /\ info = NoInfo
  /\ error = NoError

\* The caller calls libwacom_new_from_builder itself.
BuilderInit ==
  /\ LookupInit
  /\ chain = NoNode /\ info = NoInfo /\ error = NoError
  /\ fileFlags = [s \in Slot |-> "UNSET"] /\ kernelFlags = "UNSET" /\ flags = "UNSET"

-----------------------------------------------------------------------------
\* get_device_prop, for the nearest device that has the property
DeviceProp(prop) == LET i == SelectInSeq(chain, LAMBDA d : d[prop] # Null)
                    IN  IF i = 0 THEN Null ELSE chain[i][prop]

UinputSubsystem == LET i == SelectInSeq(chain, LAMBDA d : d.uinput)
                   IN  IF i = 0 THEN Null ELSE chain[i].uinputBus

AboveInput == LET i == SelectInSeq(chain, LAMBDA d : d.subsystem \notin {"input", "hid"})
              IN  IF i = 0 THEN "unknown"
                  ELSE IF chain[i].subsystem \in {"tty", "serio"} THEN "serial"
                  ELSE chain[i].subsystem

GetBus == IF UinputSubsystem # Null THEN UinputSubsystem ELSE AboveInput

KeepVersion(uniq) == IF uniq = Null \/ uniq.text = <<"">> THEN Null ELSE uniq.text
ParseUniq(uniq)   == IF uniq = Null \/ uniq.text = <<"">> THEN Null ELSE uniq.stem

KernelBus == [type \in {0, 3, 5, 24} |-> CASE type = 0  -> "unknown"
                                         [] type = 3  -> "usb"
                                         [] type = 5  -> "bluetooth"
                                         [] type = 24 -> "i2c"]

Whole(p)    == p # Null /\ Len(p) = 4
BusRead(p)  == Whole(p) /\ p[1] \in 0..255
VidRead(p)  == BusRead(p) /\ p[2] \in 0..MaxId
PidRead(p)  == VidRead(p) /\ p[3] \in 0..MaxId
MissingIsMalformed(p) == ~Whole(p)
Malformed(p)          == p # Null /\ ~Whole(p)
Known(p)    == PidRead(p) /\ p[1] \in DOMAIN KernelBus

IsTabletOrTouchpad == \E i \in DOMAIN chain : i <= 2 /\ (chain[i].tablet \/ chain[i].touchpad)

NodeFlags == IF chain[1].props = Null THEN "UNSET"
             ELSE IF chain[1].props \cap {"DIRECT", "POINTER"} = {"DIRECT"} THEN "DISPLAY"
             ELSE "NONE"

-----------------------------------------------------------------------------
FailProbe(code) ==
  /\ error' = IF code = NoError THEN error ELSE code
  /\ info' = [info EXCEPT !.name = Null, !.uniq = Null]
  /\ pc' = "done"
  /\ UNCHANGED <<db, builder, fallback, bus, approach, device, ret, chain, fileFlags, flags>>

NodeUnchanged == UNCHANGED <<db, builder, fallback, bus, approach, device, ret, chain, fileFlags, flags>>

RefusePath ==
  /\ pc = "path"
  /\ \/ chain \in {NoPath, NotInUdev}
     \/ chain \notin {NoPath, NotInUdev} /\ ~IsTabletOrTouchpad
  /\ FailProbe("INVALID_PATH")
  /\ UNCHANGED kernelFlags

ReadNode ==
  /\ pc = "path" /\ chain \notin {NoPath, NotInUdev} /\ IsTabletOrTouchpad
  /\ kernelFlags' = NodeFlags
  /\ IF DeviceProp("name") = Null THEN FailProbe(NoError)
     ELSE /\ info' = [info EXCEPT !.name = DeviceProp("name"), !.uniq = ParseUniq(DeviceProp("uniq"))]
          /\ pc' = "product"
          /\ UNCHANGED error /\ NodeUnchanged

\* get_bus_vid_pid: what was read before a bad field stays.
ReadProduct ==
  /\ pc = "product"
  /\ LET p == DeviceProp("product")
     IN  /\ info' = [info EXCEPT !.vid = IF VidRead(p) THEN p[2] ELSE @,
                                 !.pid = IF PidRead(p) THEN p[3] ELSE @,
                                 !.bus = IF Known(p) THEN KernelBus[p[1]] ELSE @]
         /\ error' = IF Malformed(p) THEN "UNKNOWN_MODEL" ELSE error
         /\ pc' = IF Known(p) THEN "build" ELSE "bus"
  /\ UNCHANGED kernelFlags /\ NodeUnchanged

KeepIds(i)   == [i EXCEPT !.bus = "serial"]
SerialIds(i) == [i EXCEPT !.bus = "serial", !.vid = 0, !.pid = 0]

ReadSerial ==
  /\ pc = "bus" /\ GetBus = "serial" /\ ~chain[1].touchpad
  /\ info' = SerialIds(info)
  /\ pc' = "build"
  /\ UNCHANGED <<error, kernelFlags>> /\ NodeUnchanged

RefuseBus ==
  /\ pc = "bus"
  /\ \/ GetBus = "serial" /\ chain[1].touchpad /\ FailProbe(NoError)
     \/ GetBus # "serial" /\ FailProbe("UNKNOWN_MODEL")
  /\ UNCHANGED kernelFlags

BuilderFor(i) == [deviceName |-> i.name, matchName |-> i.name, uniq |-> i.uniq,
                  vid |-> i.vid, pid |-> i.pid, bus |-> i.bus]

BuildAndSearch ==
  /\ pc = "build"
  /\ builder' = BuilderFor(info)
  /\ pc' = "check"
  /\ UNCHANGED <<db, fallback, bus, approach, device, ret, nodeVars>>

KernelFirst(file, kernel) == IF kernel # "UNSET" THEN kernel ELSE file
FillFlags(file, kernel)   == IF file = "UNSET" THEN kernel ELSE file

ReturnDevice ==
  /\ pc = "return" /\ chain # NoNode
  /\ flags' = IF ret.of = NoDevice THEN flags ELSE FillFlags(fileFlags[ret.of], kernelFlags)
  /\ error' = IF ret.error = NoError THEN error ELSE ret.error
  /\ pc' = "done"
  /\ UNCHANGED <<db, builder, fallback, bus, approach, device, ret, chain, fileFlags, kernelFlags, info>>

ProbeNext ==
  \/ RefusePath \/ ReadNode \/ ReadProduct \/ ReadSerial \/ RefuseBus \/ BuildAndSearch
  \/ LookupNext /\ UNCHANGED nodeVars
  \/ ReturnDevice

ProbeSpec     == (ProbeInit \/ BuilderInit) /\ [][ProbeNext]_probeVars
FairProbeSpec == ProbeSpec /\ WF_probeVars(ProbeNext)

-----------------------------------------------------------------------------
\* The event node has no name, or a serial touchpad was found the old way.
Silent == \/ \A i \in DOMAIN chain : chain[i].name = Null
          \/ GetBus = "serial" /\ chain[1].touchpad

\* The bus was found the old way after a PRODUCT that could not be parsed.
Stale == /\ DeviceProp("product") # Null /\ Len(DeviceProp("product")) # 4
         /\ GetBus = "serial"

\* Outside of these, a call fails if and only if the error is set.
ErrorTellsFailure ==
  pc = "done" /\ (chain \in {NoPath, NotInUdev} \/ (~Silent /\ ~Stale))
  => (ret.of = NoDevice <=> error # NoError)

\* What is searched for is one device's: bus and ids are all from the nearest
\* PRODUCT, or serial and 0:0, never some from the one and some from the other, and
\* never an id that was not set.
IdsFromOneSource ==
  pc = "check" /\ chain # NoNode =>
    \/ \E i \in DOMAIN chain :
         /\ \A j \in 1..(i - 1) : chain[j].product = Null
         /\ Known(chain[i].product)
         /\ <<builder.bus, builder.vid, builder.pid>>
              = <<KernelBus[chain[i].product[1]], chain[i].product[2], chain[i].product[3]>>
    \/ <<builder.bus, builder.vid, builder.pid>> = <<"serial", 0, 0>>

\* A match for the bus and ids of the node's PRODUCT without a name finds its device
\* whatever the node is called, and one with the uniq finds it whatever the version of
\* the firmware in the node's UNIQ, unless just one id is zero.  An empty UNIQ is none.
TabletFound ==
  pc = "done" /\ db # Null /\ info.name # Null /\ info.bus \in Bus /\ ~HalfIds(builder) =>
    \A m \in UNION {MatchesOf(s) : s \in Slot} :
      m.bus = info.bus /\ m.vid = info.vid /\ m.pid = info.pid /\ ~Named(m) =>
        /\ m.uniq = Null => ret.of # NoDevice
        /\ /\ m.uniq # Null /\ DeviceProp("uniq") # Null
           /\ DeviceProp("uniq").text # <<"">> /\ m.uniq = DeviceProp("uniq").stem
           => ret.of # NoDevice /\ ret.match.uniq = m.uniq

\* The file's integration flags are the device's; only where the file has none does
\* the node say whether it is a screen (direct, and not a pointer).
IntegrationDecided ==
  pc = "done" /\ ret.of # NoDevice =>
    /\ fileFlags[ret.of] # "UNSET" => flags = fileFlags[ret.of]
    /\ fileFlags[ret.of] = "UNSET" =>
         IF chain[1].props = Null THEN flags = "UNSET"
         ELSE flags = "DISPLAY" <=> "DIRECT" \in chain[1].props /\ "POINTER" \notin chain[1].props

\* Every call returns: the search leaves its loop over busses and attempts.
CallEnds == <>(pc = IF chain = NoNode THEN "return" ELSE "done")

\* In case of error, NULL is returned and the error is set (libwacom.h,
\* libwacom_new_from_path).
FailureSetsError == pc = "done" /\ ret.of = NoDevice => error # NoError
=============================================================================
