------------------------- MODULE DeviceProbeProofs -------------------------
(***************************************************************************)
(* Theorems about DeviceProbe and Lookup: what is read of any chain of udev  *)
(* devices above an event node, and what the search finds in any database.   *)
(* They are about every call, whose caller has a path or a builder.          *)
(***************************************************************************)
EXTENDS DeviceProbe, MatchesProofs

Searching == {"check", "match", "copy", "return"}
Probing   == {"product", "bus", "build"}

\* Bus and ids are all from the nearest PRODUCT, or serial and 0:0.
OneSource(c, b) ==
  \/ \E i \in DOMAIN c :
       /\ \A j \in 1..(i - 1) : c[j].product = Null
       /\ Known(c[i].product)
       /\ <<b.bus, b.vid, b.pid>>
            = <<KernelBus[c[i].product[1]], c[i].product[2], c[i].product[3]>>
  \/ <<b.bus, b.vid, b.pid>> = <<"serial", 0, 0>>

\* Where the probe is, and what it is about.
Stages ==
  /\ pc \in {"path", "done"} \cup Probing \cup Searching
  /\ pc = "path" => chain \in Chain \cup {NoPath, NotInUdev}
  /\ pc \in Probing => chain \in Chain \ {NoPath, NotInUdev}
  /\ pc \in Searching => chain \in (Chain \ {NoPath, NotInUdev}) \cup {NoNode}
  /\ info = [name |-> info.name, uniq |-> info.uniq, bus |-> info.bus,
             vid |-> info.vid, pid |-> info.pid]

IdsRead ==
  /\ pc = "build" => OneSource(chain, info)
  /\ pc = "check" /\ chain # NoNode => OneSource(chain, builder)

\* The node's flags are kept until the device is there.
FlagsRead ==
  /\ pc \in {"path"} \cup Probing => ret.of = NoDevice
  /\ pc \in Probing \cup Searching /\ chain # NoNode => kernelFlags = NodeFlags
  /\ pc = "done" /\ ret.of # NoDevice => flags = FillFlags(fileFlags[ret.of], NodeFlags)

\* The error is set before the end only by a PRODUCT that could not be parsed.
ErrorsSoFar ==
  /\ pc \in {"path", "product"} => error = NoError
  /\ pc = "bus" /\ error # NoError => Malformed(DeviceProp("product"))
  /\ pc \in {"build"} \cup Searching /\ error # NoError => Stale
  /\ pc = "copy" => device # NoDevice
  /\ pc = "return" => (ret.of = NoDevice <=> ret.error # NoError)

\* The inductive invariant
ProbeInv == Stages /\ IdsRead /\ FlagsRead /\ ErrorsSoFar /\ ErrorTellsFailure

-----------------------------------------------------------------------------
\* get_device_prop takes the property of the nearest device that has it, and is NULL
\* only if none has.
LEMMA NearestProp ==
  ASSUME chain \in Chain, NEW prop
  PROVE  \/ /\ DeviceProp(prop) = Null
            /\ \A i \in DOMAIN chain : chain[i][prop] = Null
         \/ \E i \in DOMAIN chain :
              /\ DeviceProp(prop) = chain[i][prop] /\ chain[i][prop] # Null
              /\ \A j \in 1..(i - 1) : chain[j][prop] = Null
<1> DEFINE I == {i \in 1..Len(chain) : chain[i][prop] # Null}
           k == SelectInSeq(chain, LAMBDA d : d[prop] # Null)
<1>1. Len(chain) \in Nat /\ DOMAIN chain = 1..Len(chain)
  BY ChainAssumption
<1>2. k = IF I # {} THEN Min(I) ELSE 0
  BY DEF SelectInSeq
<1>3. DeviceProp(prop) = IF k = 0 THEN Null ELSE chain[k][prop]
  BY DEF DeviceProp
<1> HIDE DEF k
<1>4. CASE I = {}
  <2>1. \A i \in DOMAIN chain : chain[i][prop] = Null
    BY <1>1, <1>4
  <2> QED BY <1>2, <1>3, <1>4, <2>1
<1>5. CASE I # {}
  <2>1. I \in SUBSET Nat
    BY <1>1
  <2>2. Min(I) \in I /\ \A y \in I : Min(I) <= y
    BY <2>1, <1>5, LeastElement
  <2>3. k \in I /\ \A y \in I : k <= y
    BY <2>2, <1>2, <1>5
  <2>4. k \in 1..Len(chain) /\ chain[k][prop] # Null
    BY <2>3
  <2>5. DeviceProp(prop) = chain[k][prop]
    BY <1>3, <2>4, <1>1
  <2>6. ASSUME NEW j \in 1..(k - 1) PROVE chain[j][prop] = Null
    <3>1. j \in 1..Len(chain) /\ ~(k <= j)
      BY <2>4, <1>1
    <3> QED BY <3>1, <2>3
  <2> QED BY <2>4, <2>5, <2>6, <1>1
<1> QED BY <1>4, <1>5

-----------------------------------------------------------------------------
LEMMA ProbeStarts == ProbeInit \/ BuilderInit => ProbeInv
<1>1. ASSUME ProbeInit PROVE ProbeInv
  BY <1>1 DEF ProbeInit, ProbeInv, Stages, IdsRead, FlagsRead, ErrorsSoFar, ErrorTellsFailure,
              NoInfo, Probing, Searching, NotInUdev
<1>2. ASSUME BuilderInit PROVE ProbeInv
  BY <1>2 DEF BuilderInit, LookupInit, ProbeInv, Stages, IdsRead, FlagsRead, ErrorsSoFar,
              ErrorTellsFailure, NoInfo, Probing, Searching
<1> QED BY <1>1, <1>2

\* What is read from the chain stays when the chain does.
LEMMA ProbeOperators ==
  ASSUME UNCHANGED chain
  PROVE  /\ NodeFlags' = NodeFlags /\ GetBus' = GetBus /\ Silent' = Silent /\ Stale' = Stale
         /\ DeviceProp("product")' = DeviceProp("product")
<1>1. NodeFlags' = NodeFlags
  BY DEF NodeFlags
<1>2. DeviceProp("product")' = DeviceProp("product")
  BY DEF DeviceProp, SelectInSeq
<1>3. UinputSubsystem' = UinputSubsystem
  BY DEF UinputSubsystem, SelectInSeq
<1>4. AboveInput' = AboveInput
  BY DEF AboveInput, SelectInSeq
<1>5. GetBus' = GetBus
  BY <1>3, <1>4 DEF GetBus
<1>6. Silent' = Silent
  BY <1>5 DEF Silent
<1>7. Stale' = Stale
  BY <1>2, <1>5 DEF Stale
<1> QED BY <1>1, <1>2, <1>5, <1>6, <1>7

LEMMA RefusePathStep == ProbeInv /\ RefusePath => ProbeInv'
<1> SUFFICES ASSUME ProbeInv, RefusePath PROVE ProbeInv'
  OBVIOUS
<1>1. /\ pc = "path" /\ pc' = "done" /\ error' = "INVALID_PATH"
      /\ info' = [info EXCEPT !.name = Null, !.uniq = Null]
      /\ UNCHANGED <<chain, ret>>
  BY DEF RefusePath, FailProbe, NoError
<1>2. ret.of = NoDevice
  BY <1>1 DEF ProbeInv, FlagsRead
<1>3. Stages'
  BY <1>1 DEF ProbeInv, Stages, Probing, Searching
<1>4. IdsRead' /\ FlagsRead' /\ ErrorsSoFar' /\ ErrorTellsFailure'
  BY <1>1, <1>2 DEF IdsRead, FlagsRead, ErrorsSoFar, ErrorTellsFailure, NoError, Probing, Searching
<1> QED BY <1>3, <1>4 DEF ProbeInv

LEMMA ReadNodeStep == ProbeInv /\ ReadNode => ProbeInv'
<1> SUFFICES ASSUME ProbeInv, ReadNode PROVE ProbeInv'
  OBVIOUS
<1>1. /\ pc = "path" /\ chain \in Chain \ {NoPath, NotInUdev} /\ UNCHANGED <<chain, ret>>
      /\ kernelFlags' = NodeFlags /\ error = NoError /\ ret.of = NoDevice
      /\ NodeFlags' = NodeFlags /\ Silent' = Silent /\ error' = NoError
  BY ProbeOperators DEF ReadNode, FailProbe, NodeUnchanged, ProbeInv, Stages, FlagsRead, ErrorsSoFar
<1>2. CASE DeviceProp("name") = Null
  <2>1. pc' = "done" /\ info' = [info EXCEPT !.name = Null, !.uniq = Null]
    BY <1>2 DEF ReadNode, FailProbe
  <2>2. Silent
    BY <1>1, <1>2, NearestProp DEF Silent
  <2>3. Stages'
    BY <2>1, <1>1 DEF ProbeInv, Stages, Probing, Searching
  <2>4. IdsRead' /\ FlagsRead' /\ ErrorsSoFar' /\ ErrorTellsFailure'
    BY <1>1, <2>1, <2>2 DEF IdsRead, FlagsRead, ErrorsSoFar, ErrorTellsFailure, NotInUdev,
                            Probing, Searching
  <2> QED BY <2>3, <2>4 DEF ProbeInv
<1>3. CASE DeviceProp("name") # Null
  <2>1. /\ pc' = "product"
        /\ info' = [info EXCEPT !.name = DeviceProp("name"), !.uniq = ParseUniq(DeviceProp("uniq"))]
    BY <1>3 DEF ReadNode
  <2>2. Stages'
    BY <2>1, <1>1 DEF ProbeInv, Stages, Probing, Searching
  <2>3. IdsRead' /\ FlagsRead' /\ ErrorsSoFar' /\ ErrorTellsFailure'
    BY <1>1, <2>1 DEF IdsRead, FlagsRead, ErrorsSoFar, ErrorTellsFailure, Probing, Searching
  <2> QED BY <2>2, <2>3 DEF ProbeInv
<1> QED BY <1>2, <1>3

LEMMA ReadProductStep == ProbeInv /\ ReadProduct => ProbeInv'
<1> SUFFICES ASSUME ProbeInv, ReadProduct PROVE ProbeInv'
  OBVIOUS
<1> DEFINE p == DeviceProp("product")
<1>1. /\ pc = "product" /\ chain \in Chain \ {NoPath, NotInUdev}
      /\ UNCHANGED <<chain, ret, kernelFlags>>
      /\ kernelFlags = NodeFlags /\ ret.of = NoDevice /\ error = NoError
      /\ chain # NoNode
  BY ChainAssumption DEF ReadProduct, NodeUnchanged, ProbeInv, Stages, FlagsRead, ErrorsSoFar,
                         Probing, NoError
<1>2. /\ info' = [info EXCEPT !.vid = IF VidRead(p) THEN p[2] ELSE @,
                              !.pid = IF PidRead(p) THEN p[3] ELSE @,
                              !.bus = IF Known(p) THEN KernelBus[p[1]] ELSE @]
      /\ error' = IF Malformed(p) THEN "UNKNOWN_MODEL" ELSE NoError
      /\ pc' = IF Known(p) THEN "build" ELSE "bus"
  BY <1>1 DEF ReadProduct
<1> HIDE DEF p
<1>3. p' = p /\ NodeFlags' = NodeFlags /\ Stale' = Stale
  BY <1>1, ProbeOperators DEF p
<1>4. Stages'
  BY <1>1, <1>2 DEF ProbeInv, Stages, Probing, Searching
<1>5. ASSUME Known(p) PROVE OneSource(chain, info') /\ error' = NoError
  <2>1. VidRead(p) /\ PidRead(p) /\ ~Malformed(p) /\ p # Null
    BY <1>5 DEF Known, PidRead, VidRead, BusRead, Whole, Malformed
  <2>2. info'.bus = KernelBus[p[1]] /\ info'.vid = p[2] /\ info'.pid = p[3]
    BY <1>2, <1>5, <2>1 DEF ProbeInv, Stages
  <2>3. PICK i \in DOMAIN chain :
          p = chain[i]["product"] /\ \A j \in 1..(i - 1) : chain[j]["product"] = Null
    BY <1>1, <2>1, NearestProp DEF p
  <2>4. OneSource(chain, info')
    BY <1>5, <2>2, <2>3 DEF OneSource
  <2> QED BY <1>2, <2>1, <2>4
<1>6. IdsRead'
  BY <1>1, <1>2, <1>5 DEF IdsRead
<1>7. FlagsRead' /\ ErrorTellsFailure'
  BY <1>1, <1>2, <1>3 DEF FlagsRead, ErrorTellsFailure, Probing, Searching
<1>8. ErrorsSoFar'
  BY <1>2, <1>3, <1>5 DEF ErrorsSoFar, Malformed, Whole, Searching, p
<1> QED BY <1>4, <1>6, <1>7, <1>8 DEF ProbeInv
LEMMA ReadSerialStep == ProbeInv /\ ReadSerial => ProbeInv'
<1> SUFFICES ASSUME ProbeInv, ReadSerial PROVE ProbeInv'
  OBVIOUS
<1>1. /\ pc = "bus" /\ pc' = "build" /\ GetBus = "serial"
      /\ info' = [info EXCEPT !.bus = "serial", !.vid = 0, !.pid = 0]
      /\ UNCHANGED <<chain, ret, kernelFlags, error>>
  BY DEF ReadSerial, SerialIds, NodeUnchanged
<1>2. Stages' /\ info'.bus = "serial" /\ info'.vid = 0 /\ info'.pid = 0
  BY <1>1 DEF ProbeInv, Stages, Probing, Searching
<1>3. OneSource(chain', info')
  BY <1>2 DEF OneSource
<1>4. IdsRead'
  BY <1>1, <1>3 DEF IdsRead
<1>5. FlagsRead' /\ ErrorTellsFailure'
  BY <1>1, ProbeOperators DEF ProbeInv, FlagsRead, ErrorTellsFailure, Probing, Searching
<1>6. error # NoError => Stale
  BY <1>1 DEF ProbeInv, ErrorsSoFar, Malformed, Whole, Stale
<1>7. ErrorsSoFar'
  BY <1>1, <1>6, ProbeOperators DEF ErrorsSoFar, Searching
<1> QED BY <1>2, <1>4, <1>5, <1>7 DEF ProbeInv

LEMMA RefuseBusStep == ProbeInv /\ RefuseBus => ProbeInv'
<1> SUFFICES ASSUME ProbeInv, RefuseBus PROVE ProbeInv'
  OBVIOUS
<1>1. /\ pc = "bus" /\ pc' = "done" /\ ret.of = NoDevice
      /\ info' = [info EXCEPT !.name = Null, !.uniq = Null]
      /\ UNCHANGED <<chain, ret>>
      /\ chain \in Chain \ {NoPath, NotInUdev}
  BY DEF RefuseBus, FailProbe, ProbeInv, FlagsRead, Stages, Probing
<1>2. \/ Silent
      \/ error' = "UNKNOWN_MODEL"
  BY DEF RefuseBus, FailProbe, Silent, NoError
<1>3. Stages'
  BY <1>1 DEF ProbeInv, Stages, Probing, Searching
<1>4. IdsRead' /\ FlagsRead' /\ ErrorsSoFar'
  BY <1>1 DEF IdsRead, FlagsRead, ErrorsSoFar, Probing, Searching
<1>5. ErrorTellsFailure'
  BY <1>1, <1>2, ProbeOperators DEF ErrorTellsFailure, NoError, NotInUdev
<1> QED BY <1>3, <1>4, <1>5 DEF ProbeInv

LEMMA BuildAndSearchStep == ProbeInv /\ BuildAndSearch => ProbeInv'
<1> SUFFICES ASSUME ProbeInv, BuildAndSearch PROVE ProbeInv'
  OBVIOUS
<1>1. /\ pc = "build" /\ pc' = "check" /\ builder' = BuilderFor(info)
      /\ UNCHANGED <<chain, ret, kernelFlags, error, info, device>>
  BY DEF BuildAndSearch, nodeVars
<1>2. OneSource(chain, info)
  BY <1>1 DEF ProbeInv, IdsRead
<1>3. OneSource(chain', builder')
  BY <1>1, <1>2 DEF OneSource, BuilderFor
<1>4. IdsRead' /\ Stages'
  BY <1>1, <1>3 DEF ProbeInv, IdsRead, Stages, Probing, Searching
<1>5. FlagsRead' /\ ErrorsSoFar' /\ ErrorTellsFailure'
  BY <1>1, ProbeOperators DEF ProbeInv, FlagsRead, ErrorsSoFar, ErrorTellsFailure, Probing, Searching
<1> QED BY <1>4, <1>5 DEF ProbeInv

\* With the generic device or without it: NULL has the error, the device has none.
LEMMA FallbackTells == FallbackReturn.of = NoDevice <=> FallbackReturn.error # NoError
BY DEF FallbackReturn, NoError

LEMMA SearchStep == ProbeInv /\ LookupNext /\ UNCHANGED nodeVars => ProbeInv'
<1> SUFFICES ASSUME ProbeInv, LookupNext, UNCHANGED nodeVars PROVE ProbeInv'
  OBVIOUS
<1>1. UNCHANGED <<chain, fileFlags, kernelFlags, info, error, flags>>
  BY DEF nodeVars
<1> DEFINE Moves == /\ pc \in Searching /\ pc' \in {"match", "copy", "return"}
                    /\ pc' = "copy" => device' # NoDevice
                    /\ pc' = "return" => (ret'.of = NoDevice <=> ret'.error # NoError)
<1>2. Moves
  <2>1. ASSUME NEW e \in {"BUG_CALLER", "INVALID_DB"}, Refuse(e), pc = "check" PROVE Moves
    BY <2>1 DEF Refuse, NoError, Searching
  <2>2. ASSUME NEW S \in SUBSET Slot, ReturnOneOf(S), pc = "check" PROVE Moves
    <3>1. pc' = "return"
      BY <2>2 DEF ReturnOneOf
    <3>2. CASE S = {}
      <4>1. ret' = FallbackReturn
        BY <2>2, <3>2 DEF ReturnOneOf
      <4> QED BY <2>2, <3>1, <4>1, FallbackTells DEF Searching
    <3>3. CASE S # {}
      <4>1. PICK s \in S : ret' = Found(s, db[s].match)
        BY <2>2, <3>3 DEF ReturnOneOf
      <4> QED BY <2>2, <3>1, <4>1, NoDeviceAssumption DEF Found, Searching
    <3> QED BY <3>2, <3>3
  <2>3. CASE BadFallback
    BY <2>3, <2>1 DEF BadFallback
  <2>4. CASE NoDatabase
    BY <2>4, <2>1 DEF NoDatabase
  <2>5. CASE FindByName
    BY <2>5, <2>2 DEF FindByName, Checked
  <2>6. CASE FindByUniq
    BY <2>6, <2>2 DEF FindByUniq, Checked
  <2>7. CASE StartMatching
    BY <2>7 DEF StartMatching, Checked, Searching
  <2>8. CASE Hit
    BY <2>8 DEF Hit, Searching
  <2>9. CASE Miss
    BY <2>9 DEF Miss, Searching
  <2>10. CASE NotFound
    BY <2>10, FallbackTells DEF NotFound, Searching
  <2>11. CASE CopyFound
    <3>1. pc = "copy" /\ pc' = "return" /\ ret'.of = device /\ ret'.error = NoError
      BY <2>11 DEF CopyFound, Found
    <3>2. device # NoDevice
      BY <3>1 DEF ProbeInv, ErrorsSoFar
    <3> QED BY <3>1, <3>2 DEF Searching
  <2> QED BY <2>3, <2>4, <2>5, <2>6, <2>7, <2>8, <2>9, <2>10, <2>11 DEF LookupNext
<1>3. Stages' /\ IdsRead' /\ ErrorTellsFailure'
  BY <1>1, <1>2 DEF ProbeInv, Stages, IdsRead, ErrorTellsFailure, Probing, Searching
<1>4. FlagsRead' /\ ErrorsSoFar'
  BY <1>1, <1>2, ProbeOperators DEF ProbeInv, FlagsRead, ErrorsSoFar, Probing, Searching
<1> QED BY <1>3, <1>4 DEF ProbeInv

LEMMA ReturnDeviceStep == ProbeInv /\ ReturnDevice => ProbeInv'
<1> SUFFICES ASSUME ProbeInv, ReturnDevice PROVE ProbeInv'
  OBVIOUS
<1>1. /\ pc = "return" /\ pc' = "done" /\ chain # NoNode
      /\ UNCHANGED <<chain, ret, kernelFlags, fileFlags, info>>
      /\ flags' = IF ret.of = NoDevice THEN flags ELSE FillFlags(fileFlags[ret.of], kernelFlags)
      /\ error' = IF ret.error = NoError THEN error ELSE ret.error
  BY DEF ReturnDevice
<1>2. chain \in Chain \ {NoPath, NotInUdev}
  BY <1>1 DEF ProbeInv, Stages, Searching
<1>3. Stages' /\ IdsRead'
  BY <1>1, <1>2 DEF ProbeInv, Stages, IdsRead, Probing, Searching
<1>4. FlagsRead'
  BY <1>1, ProbeOperators DEF ProbeInv, FlagsRead, Probing, Searching
<1>5. ErrorsSoFar' /\ ErrorTellsFailure'
  BY <1>1, <1>2, ProbeOperators DEF ProbeInv, ErrorsSoFar, ErrorTellsFailure, Searching
<1> QED BY <1>3, <1>4, <1>5 DEF ProbeInv

LEMMA ProbeStutters == ProbeInv /\ UNCHANGED probeVars => ProbeInv'
<1> SUFFICES ASSUME ProbeInv, UNCHANGED probeVars PROVE ProbeInv'
  OBVIOUS
<1>1. UNCHANGED <<pc, builder, device, ret, chain, fileFlags, kernelFlags, info, error, flags>>
  BY DEF probeVars, lookupVars, nodeVars
<1>2. Stages' /\ IdsRead'
  BY <1>1 DEF ProbeInv, Stages, IdsRead
<1>3. FlagsRead' /\ ErrorsSoFar' /\ ErrorTellsFailure'
  BY <1>1, ProbeOperators DEF ProbeInv, FlagsRead, ErrorsSoFar, ErrorTellsFailure
<1> QED BY <1>2, <1>3 DEF ProbeInv

\* The invariant holds in every state of a call.
THEOREM ProbeInvariance == ProbeSpec => []ProbeInv
<1>1. ASSUME ProbeInv, [ProbeNext]_probeVars PROVE ProbeInv'
  BY <1>1, RefusePathStep, ReadNodeStep, ReadProductStep, ReadSerialStep, RefuseBusStep,
     BuildAndSearchStep, SearchStep, ReturnDeviceStep, ProbeStutters DEF ProbeNext
<1> QED BY <1>1, ProbeStarts, PTL DEF ProbeSpec

\* What is searched for is one device's, whatever is above the event node.
THEOREM IdsTheorem == ProbeSpec => []IdsFromOneSource
<1>1. ProbeInv => IdsFromOneSource
  BY DEF ProbeInv, IdsRead, OneSource, IdsFromOneSource
<1> QED BY <1>1, ProbeInvariance, PTL

\* The file's integration flags are the device's, the node's only where it has none.
THEOREM IntegrationTheorem == ProbeSpec => []IntegrationDecided
<1>1. ProbeInv => IntegrationDecided
  BY DEF ProbeInv, FlagsRead, FillFlags, NodeFlags, IntegrationDecided
<1> QED BY <1>1, ProbeInvariance, PTL

\* Outside of the silent failures and of a stale PRODUCT, NULL comes with an error and a
\* device without one.
THEOREM ErrorTheorem == ProbeSpec => []ErrorTellsFailure
<1>1. ProbeInv => ErrorTellsFailure
  BY DEF ProbeInv
<1> QED BY <1>1, ProbeInvariance, PTL

-----------------------------------------------------------------------------
LEMMA StringOf ==
  ASSUME NEW m, NEW name, NEW uniq, NEW b, NEW v, NEW p,
         \A t \in {m.name, m.uniq, name, uniq} \ {Null} : OnePiece(t)
  PROVE  MakeMatchString(m.name, m.uniq, m.bus, m.vid, m.pid) = MakeMatchString(name, uniq, b, v, p)
           <=> m.bus = b /\ m.vid = v /\ m.pid = p /\ SameText(m, name, uniq)
<1>1. PICK n, u, mb, mv, mp : n = m.name /\ u = m.uniq /\ mb = m.bus /\ mv = m.vid /\ mp = m.pid
  OBVIOUS
<1>2. \A t \in {n, u, name, uniq} \ {Null} : OnePiece(t)
  BY <1>1
<1>3. MakeMatchString(n, u, mb, mv, mp) = MakeMatchString(name, uniq, b, v, p)
        <=> mb = b /\ mv = v /\ mp = p /\ SameTexts(n, u, name, uniq)
  BY <1>2, SameString
<1>4. SameText(m, name, uniq) <=> SameTexts(n, u, name, uniq)
  BY <1>1, Zenon DEF SameText, SameTexts
<1> QED BY <1>1, <1>3, <1>4, Zenon

LEMMA StringLength ==
  ASSUME NEW name \in Text \cup {Null}, NEW uniq \in Text \cup {Null}, NEW b, NEW v, NEW p
  PROVE  /\ Len(MakeMatchString(name, uniq, b, v, p)) = 3 + Len(NamePieces(name, uniq)) + Len(PiecesIf(uniq))
         /\ Len(NamePieces(name, uniq)) \in Nat /\ Len(PiecesIf(uniq)) \in Nat
         /\ Len(MakeMatchString(name, uniq, b, v, p)) >= 3
<1>1. PICK k, l, W, h, n :
        /\ k = NamePieces(name, uniq) /\ l = PiecesIf(uniq)
        /\ W = {b, v, p} \cup Piece /\ h = <<b, v, p>> /\ n = 3
  OBVIOUS
<1>2. k \in Seq(Piece) /\ l \in Seq(Piece)
  <2>1. \A e \in Piece : <<e>> \in Seq(Piece)
    OBVIOUS
  <2>2. <<"">> \in Seq(Piece)
    BY <2>1, TextAssumption, Zenon
  <2>3. <<>> \in Seq(Piece)
    OBVIOUS
  <2> QED BY <1>1, <2>2, <2>3 DEF NamePieces, PiecesIf, Text
<1>3. k \in Seq(W) /\ l \in Seq(W)
  BY <1>1, <1>2, SeqMonotonic
<1>4. h \in Seq(W) /\ Len(h) = n /\ n \in Nat
  BY <1>1
<1>5. h \o k \in Seq(W) /\ Len(h \o k) = n + Len(k)
  BY <1>3, <1>4
<1>6. Len(h \o k \o l) = n + Len(k) + Len(l)
  BY <1>3, <1>4, <1>5
<1>7. Len(k) \in Nat /\ Len(l) \in Nat
  BY <1>3
<1>8. MakeMatchString(name, uniq, b, v, p) = h \o k \o l
  BY <1>1 DEF MakeMatchString
<1> QED BY <1>1, <1>6, <1>7, <1>8

\* No string of fields is the generic one.
LEMMA NotGeneric ==
  ASSUME NEW name \in Text \cup {Null}, NEW uniq \in Text \cup {Null}, NEW b, NEW v, NEW p
  PROVE  MakeMatchString(name, uniq, b, v, p) # Generic
<1>1. PICK s, g : s = MakeMatchString(name, uniq, b, v, p) /\ g = Generic
  OBVIOUS
<1>2. Len(s) >= 3
  BY <1>1, StringLength, Zenon
<1>3. Len(g) = 1
  BY <1>1, TupleLengths
<1>4. Len(s) # Len(g)
  <2>1. \A i, j : i >= 3 /\ j = 1 => i # j
    OBVIOUS
  <2> QED BY <1>2, <1>3, <2>1, Zenon
<1> QED BY <1>1, <1>4

-----------------------------------------------------------------------------
(***************************************************************************)
(* What is in a database.                                                   *)
(***************************************************************************)
ParsedMatch(m) ==
  \/ m.match = Generic /\ m.name = Null /\ m.uniq = Null /\ m.bus = "unknown" /\ m.vid = 0 /\ m.pid = 0
  \/ /\ m.bus \in Bus
     /\ \A t \in {m.name, m.uniq} \ {Null} : t \in Text /\ OnePiece(t)
     /\ m.match = MakeMatchString(m.name, m.uniq, m.bus, m.vid, m.pid)

SoundDb(d) ==
  /\ \A s \in Slot : /\ NoneTwice(d[s].matches)
                     /\ \A i \in DOMAIN d[s].matches : ParsedMatch(d[s].matches[i])
  /\ \A s, t \in Slot : s # t => MatchStrings(d[s]) \cap MatchStrings(d[t]) = {}

LEMMA PieceFacts ==
  ASSUME NEW s, NEW i, \A j \in 4..Len(s) : s[j] \in Piece, i \in {4, 5}, Len(s) \in Nat
  PROVE  LET t == PieceOf(s, i) IN t # Null => t \in Text /\ OnePiece(t)
<1> SUFFICES ASSUME PieceOf(s, i) # Null
             PROVE  PieceOf(s, i) \in Text /\ OnePiece(PieceOf(s, i))
  OBVIOUS
<1>1. PieceOf(s, i) = <<s[i]>> /\ s[i] \in Piece
  BY DEF PieceOf
<1>2. \A x \in Piece : <<x>> \in Seq(Piece) /\ <<x>> # <<>>
  OBVIOUS
<1> QED BY <1>1, <1>2 DEF Text, OnePiece

LEMMA MatchFacts ==
  ASSUME NEW s, Len(s) \in Nat, \A j \in 4..Len(s) : s[j] \in Piece, IsMatchString(s)
  PROVE  ParsedMatch(MatchFromString(s))
<1>1. CASE s = Generic
  BY <1>1 DEF MatchFromString, MatchNew, ParsedMatch
<1>2. CASE s # Generic
  <2>1. s[1] \in Bus /\ s[1] # "unknown"
    BY <1>2 DEF IsMatchString, Bus
  <2>2. PICK name, uniq : name = PieceOf(s, 4) /\ uniq = PieceOf(s, 5)
    OBVIOUS
  <2>3. \A t \in {name, uniq} \ {Null} : t \in Text /\ OnePiece(t)
    BY <2>2, PieceFacts
  <2>4. MatchFromString(s) = MatchNew(name, uniq, s[1], s[2], s[3])
    BY <1>2, <2>2 DEF MatchFromString
  <2>5. MatchFromString(s) =
          [name |-> name, uniq |-> uniq, bus |-> s[1], vid |-> s[2], pid |-> s[3],
           match |-> MakeMatchString(name, uniq, s[1], s[2], s[3])]
    BY <2>1, <2>4 DEF MatchNew
  <2> QED BY <2>1, <2>3, <2>5 DEF ParsedMatch
<1> QED BY <1>1, <1>2

LEMMA FileFacts ==
  ASSUME NEW f, IsMatchList(f.deviceMatch)
  PROVE  LET ms == ParsedFile(f).matches
         IN  NoneTwice(ms) /\ \A i \in DOMAIN ms : ParsedMatch(ms[i])
<1> DEFINE strings == f.deviceMatch
           ms == ParseMatches(strings)
<1>1. ms \in Seq(Read(strings)) /\ NoneTwice(ms)
  BY ParseFacts DEF IsMatchList
<1>2. \A m \in Read(strings) : ParsedMatch(m)
  BY MatchFacts DEF Read, IsMatchList, Range
<1>3. \A i \in DOMAIN ms : ms[i] \in Read(strings)
  BY <1>1
<1> QED BY <1>1, <1>2, <1>3 DEF ParsedFile

LEMMA DbFacts ==
  ASSUME NEW d \in DatabasesOf(DeviceFile) \cup DatabasesOf(ProbedFile)
  PROVE  SoundDb(d)
<1>1. PICK fs \in {DeviceFile, ProbedFile} : d \in DatabasesOf(fs)
  OBVIOUS
<1>2. \A f \in fs : IsMatchList(f.deviceMatch)
  BY TextAssumption, ChainAssumption
<1>3. \A s \in Slot : \E f \in fs : d[s] = ParsedFile(f)
  BY <1>1 DEF DatabasesOf
<1>4. ASSUME NEW s \in Slot
      PROVE  NoneTwice(d[s].matches) /\ \A i \in DOMAIN d[s].matches : ParsedMatch(d[s].matches[i])
  BY <1>2, <1>3, FileFacts
<1>5. \A s, t \in Slot : s # t => MatchStrings(d[s]) \cap MatchStrings(d[t]) = {}
  BY <1>1 DEF DatabasesOf
<1> QED BY <1>4, <1>5 DEF SoundDb

\* Equal strings are one match of one device.
LEMMA OneMatch ==
  ASSUME NEW d, SoundDb(d), NEW s \in Slot, NEW t \in Slot,
         NEW i \in DOMAIN d[s].matches, NEW j \in DOMAIN d[t].matches,
         d[s].matches[i].match = d[t].matches[j].match
  PROVE  s = t /\ i = j
<1>1. d[s].matches[i].match \in MatchStrings(d[s]) /\ d[s].matches[i].match \in MatchStrings(d[t])
  BY DEF MatchStrings
<1>2. s = t
  BY <1>1 DEF SoundDb
<1> QED BY <1>2 DEF SoundDb, NoneTwice

\* So are equal fields.
LEMMA FieldsDistinct ==
  ASSUME db # Null => SoundDb(db)
  PROVE  MatchesDistinct
<1> SUFFICES ASSUME db # Null, SoundDb(db), NEW s \in Slot, NEW t \in Slot,
                    NEW i \in DOMAIN db[s].matches, NEW j \in DOMAIN db[t].matches,
                    LET m == db[s].matches[i]
                        n == db[t].matches[j]
                    IN  m.bus = n.bus /\ m.vid = n.vid /\ m.pid = n.pid /\ SameText(m, n.name, n.uniq)
             PROVE  s = t /\ i = j
  BY DEF MatchesDistinct
<1>1. PICK m, n : m = db[s].matches[i] /\ n = db[t].matches[j]
  OBVIOUS
<1>2. ParsedMatch(m) /\ ParsedMatch(n)
  BY <1>1 DEF SoundDb
<1>3. m.bus = n.bus /\ m.vid = n.vid /\ m.pid = n.pid /\ SameText(m, n.name, n.uniq)
  BY <1>1
<1>4. m.match = n.match
  <2>1. CASE m.bus \in Bus
    <3>1. /\ \A u \in {m.name, m.uniq, n.name, n.uniq} \ {Null} : OnePiece(u)
          /\ m.match = MakeMatchString(m.name, m.uniq, m.bus, m.vid, m.pid)
          /\ n.match = MakeMatchString(n.name, n.uniq, n.bus, n.vid, n.pid)
      BY <1>2, <1>3, <2>1 DEF ParsedMatch, Bus
    <3>2. PICK name, uniq, b, v, p :
            name = n.name /\ uniq = n.uniq /\ b = n.bus /\ v = n.vid /\ p = n.pid
      OBVIOUS
    <3>3. \A u \in {m.name, m.uniq, name, uniq} \ {Null} : OnePiece(u)
      BY <3>1, <3>2
    <3>4. MakeMatchString(m.name, m.uniq, m.bus, m.vid, m.pid) = MakeMatchString(name, uniq, b, v, p)
      BY <1>3, <3>2, <3>3, StringOf
    <3> QED BY <3>1, <3>2, <3>4
  <2>2. CASE m.bus \notin Bus
    BY <1>2, <1>3, <2>2 DEF ParsedMatch
  <2> QED BY <2>1, <2>2
<1> QED BY <1>1, <1>4, OneMatch

-----------------------------------------------------------------------------
(***************************************************************************)
(* The search.                                                              *)
(***************************************************************************)
BussesOf(b)   == IF b.bus # "unknown" THEN <<b.bus>> ELSE EveryBus
Attempt(b, a) == Approaches(b.matchName, b.uniq)[a]

\* The string of attempt a on bus k.
TryString(b, k, a) ==
  MakeMatchString(Attempt(b, a).name, Attempt(b, a).uniq, BussesOf(b)[k], b.vid, b.pid)

Misses(d, b, k, a)   == \A s \in Slot : TryString(b, k, a) \notin MatchStrings(d[s])
Earlier(j, x, k, a)  == j < k \/ (j = k /\ x < a)
MissedBefore(d, b, k, a) ==
  \A j \in 1..Len(BussesOf(b)), x \in 1..4 : Earlier(j, x, k, a) => Misses(d, b, j, x)

\* Nothing was found, or what the first attempt that finds something finds.
NothingFound(d, b) == \A j \in 1..Len(BussesOf(b)), x \in 1..4 : Misses(d, b, j, x)
FirstFound(d, b, k, a, s, i) ==
  /\ k \in 1..Len(BussesOf(b)) /\ a \in 1..4 /\ MissedBefore(d, b, k, a)
  /\ s \in Slot /\ i \in DOMAIN d[s].matches /\ d[s].matches[i].match = TryString(b, k, a)

ByMatch == db # Null /\ fallback # "invalid" /\ ~NameOnly(builder) /\ ~UniqOnly(builder)

\* A call has searched, for its caller's builder or for a node's.
Returned == pc = "return" \/ (pc = "done" /\ info.name # Null)
HasBuilder == pc \in Searching \/ Returned

DbSound == db # Null => SoundDb(db)

NodeRead ==
  /\ pc = "done" => chain # NoNode
  /\ chain # NoNode => fallback # "invalid"
  /\ pc \in {"path", "product", "bus"} => info.bus = "unknown"
  /\ pc = "build" => info.bus \in Bus \cup {"unknown"}
  /\ pc \in Probing \/ (HasBuilder /\ chain # NoNode) =>
       /\ info.name \in Text /\ info.uniq \in Text \cup {Null}
       /\ info.uniq = ParseUniq(DeviceProp("uniq"))
  /\ HasBuilder /\ chain # NoNode => builder = BuilderFor(info)

BuilderOK ==
  HasBuilder => {builder.matchName, builder.uniq} \subseteq Text \cup {Null} /\ builder.bus \in Bus \cup {"unknown"}

Cursor ==
  /\ pc \in {"path", "check"} \cup Probing => bus = 1 /\ approach = 1
  /\ pc \in {"match", "copy"} =>
       /\ ByMatch /\ MissedBefore(db, builder, bus, approach)
       /\ bus \in 1..(Len(BussesOf(builder)) + 1) /\ approach \in 1..4
  /\ pc = "copy" => /\ bus <= Len(BussesOf(builder)) /\ device \in Slot
                    /\ TryString(builder, bus, approach) \in MatchStrings(db[device])

Outcome ==
  Returned /\ ByMatch =>
    \/ NothingFound(db, builder) /\ ret = FallbackReturn
    \/ \E k \in 1..Len(BussesOf(builder)), a \in 1..4, s \in Slot : \E i \in DOMAIN db[s].matches :
         FirstFound(db, builder, k, a, s, i) /\ ret = Found(s, db[s].matches[i])

\* The inductive invariant
SearchInv == DbSound /\ NodeRead /\ BuilderOK /\ Cursor /\ Outcome

LEMMA BusLen == ASSUME NEW b PROVE Len(BussesOf(b)) \in {1, 3}
BY DEF BussesOf, EveryBus

LEMMA BussesFacts == Busses = BussesOf(builder)
BY DEF Busses, BussesOf, EveryBus

LEMMA AttemptFacts ==
  ASSUME NEW b
  PROVE  /\ Attempt(b, 1) = [name |-> b.matchName, uniq |-> b.uniq]
         /\ Attempt(b, 2) = [name |-> Null, uniq |-> b.uniq]
         /\ Attempt(b, 3) = [name |-> b.matchName, uniq |-> Null]
         /\ Attempt(b, 4) = [name |-> Null, uniq |-> Null]
         /\ Attempt(b, 1).name = b.matchName /\ Attempt(b, 1).uniq = b.uniq
         /\ Attempt(b, 2).name = Null /\ Attempt(b, 2).uniq = b.uniq
         /\ Attempt(b, 3).name = b.matchName /\ Attempt(b, 3).uniq = Null
         /\ Attempt(b, 4).name = Null /\ Attempt(b, 4).uniq = Null
BY DEF Attempt, Approaches

\* The search leaves a bus when no attempt on it is left, or when those that are left were
\* made under another number.
LEMMA BusExhausted ==
  ASSUME NEW b, NEW a \in 1..4, Attempt(b, a).name = Null, Attempt(b, a).uniq = Null
  PROVE  \A x \in 1..4 : \E y \in 1..a : Attempt(b, x) = Attempt(b, y)
<1>0. \A x \in 1..4 : x \in {1, 2, 3, 4}
  OBVIOUS
<1>1. CASE a = 1
  <2>1. b.matchName = Null /\ b.uniq = Null
    BY <1>1, AttemptFacts
  <2>2. \A x \in {1, 2, 3, 4} : Attempt(b, x) = Attempt(b, 1)
    BY <2>1, AttemptFacts
  <2> QED BY <1>0, <1>1, <2>2
<1>2. CASE a = 2
  <2>1. b.uniq = Null
    BY <1>2, AttemptFacts
  <2>2. Attempt(b, 3) = Attempt(b, 1) /\ Attempt(b, 4) = Attempt(b, 2)
    <3>1. PICK n, u : n = b.matchName /\ u = b.uniq
      OBVIOUS
    <3>2. u = Null
      BY <2>1, <3>1
    <3>3. /\ Attempt(b, 1) = [name |-> n, uniq |-> u] /\ Attempt(b, 3) = [name |-> n, uniq |-> u]
          /\ Attempt(b, 2) = [name |-> Null, uniq |-> u] /\ Attempt(b, 4) = [name |-> Null, uniq |-> u]
      BY <3>1, <3>2, AttemptFacts
    <3> QED BY <3>3
  <2>3. 1 \in 1..a /\ 2 \in 1..a
    BY <1>2
  <2> QED BY <1>0, <2>2, <2>3
<1>3. CASE a = 3
  <2>1. b.matchName = Null
    BY <1>3, AttemptFacts
  <2>2. Attempt(b, 4) = Attempt(b, 3)
    BY <2>1, AttemptFacts
  <2>3. 1 \in 1..a /\ 2 \in 1..a /\ 3 \in 1..a
    BY <1>3
  <2> QED BY <1>0, <2>2, <2>3
<1>4. CASE a = 4
  BY <1>4
<1> QED BY <1>1, <1>2, <1>3, <1>4

\* What an attempt finds.
LEMMA TriesFacts ==
  ASSUME bus \in 1..Len(BussesOf(builder)), approach \in 1..4
  PROVE  /\ Tried = Attempt(builder, approach)
         /\ Tries = NoDevice => Misses(db, builder, bus, approach)
         /\ Tries # NoDevice => /\ Tries \in Slot
                                /\ TryString(builder, bus, approach) \in MatchStrings(db[Tries])
<1> DEFINE string == TryString(builder, bus, approach)
<1>1. Tried = Attempt(builder, approach)
  BY DEF Tried, Attempt
<1>2. Tries = GetDevice(string)
  BY <1>1, BussesFacts DEF Tries, TryString
<1> HIDE DEF string
<1>3. CASE \E s \in Slot : string \in MatchStrings(db[s])
  <2>1. Tries \in Slot /\ string \in MatchStrings(db[Tries])
    BY <1>2, <1>3 DEF GetDevice
  <2> QED BY <1>1, <2>1, NoDeviceAssumption DEF string
<1>4. CASE ~ \E s \in Slot : string \in MatchStrings(db[s])
  <2>1. Tries = NoDevice
    BY <1>2, <1>4 DEF GetDevice
  <2> QED BY <1>1, <1>4, <2>1 DEF Misses, string
<1> QED BY <1>3, <1>4

LEMMA SearchStarts == ProbeInit \/ BuilderInit => SearchInv
<1>1. ASSUME db \in DatabasesOf(DeviceFile) \cup DatabasesOf(ProbedFile) \cup {Null} PROVE DbSound
  BY <1>1, DbFacts DEF DbSound
<1>2. ASSUME ProbeInit PROVE SearchInv
  <2>1. DbSound
    BY <1>1, <1>2 DEF ProbeInit
  <2>2. NodeRead /\ BuilderOK /\ Cursor /\ Outcome
    BY <1>2 DEF ProbeInit, NodeRead, BuilderOK, Cursor, Outcome, HasBuilder, Returned, NoInfo,
                Probing, Searching
  <2> QED BY <2>1, <2>2 DEF SearchInv
<1>3. ASSUME BuilderInit PROVE SearchInv
  <2>1. DbSound
    BY <1>1, <1>3 DEF BuilderInit, LookupInit
  <2>2. BuilderOK
    BY <1>3, TextAssumption DEF BuilderInit, LookupInit, BuilderOK
  <2>3. NodeRead /\ Cursor /\ Outcome
    BY <1>3 DEF BuilderInit, LookupInit, NodeRead, Cursor, Outcome, HasBuilder, Returned, NoInfo,
                Probing, Searching
  <2> QED BY <2>1, <2>2, <2>3 DEF SearchInv
<1> QED BY <1>2, <1>3

LEMMA SearchOperators ==
  /\ UNCHANGED <<db, builder, fallback>> => FallbackReturn' = FallbackReturn /\ ByMatch' = ByMatch
  /\ UNCHANGED chain => DeviceProp("uniq")' = DeviceProp("uniq")
<1>1. UNCHANGED <<db, builder, fallback>> => FallbackReturn' = FallbackReturn
  BY DEF FallbackReturn, GetDevice
<1>2. UNCHANGED <<db, builder, fallback>> => ByMatch' = ByMatch
  BY DEF ByMatch
<1>3. UNCHANGED chain => DeviceProp("uniq")' = DeviceProp("uniq")
  BY DEF DeviceProp, SelectInSeq
<1> QED BY <1>1, <1>2, <1>3

\* What was found stays found.
LEMMA OutcomeStays ==
  ASSUME Outcome, UNCHANGED <<db, builder, fallback, ret>>, Returned' => Returned
  PROVE  Outcome'
<1>1. FallbackReturn' = FallbackReturn /\ ByMatch' = ByMatch
  BY SearchOperators
<1>2. NothingFound(db, builder)' = NothingFound(db, builder)
  BY DEF NothingFound, Misses, TryString, Attempt
<1>3. ASSUME NEW k, NEW a, NEW s, NEW i
      PROVE  /\ FirstFound(db', builder', k, a, s, i) = FirstFound(db, builder, k, a, s, i)
             /\ Found(s, db[s].matches[i])' = Found(s, db[s].matches[i])
  BY DEF Found
<1> QED BY <1>1, <1>2, <1>3 DEF Outcome

\* A probe that fails has no builder.
LEMMA FailStep ==
  ASSUME SearchInv, ProbeInv, NEW code, FailProbe(code), chain # NoNode
  PROVE  SearchInv'
<1>1. /\ pc' = "done" /\ info' = [info EXCEPT !.name = Null, !.uniq = Null]
      /\ UNCHANGED <<db, fallback, chain>>
  BY DEF FailProbe
<1>2. info'.name = Null
  BY <1>1 DEF ProbeInv, Stages
<1>3. ~HasBuilder' /\ ~Returned'
  BY <1>1, <1>2 DEF HasBuilder, Returned, Searching
<1>4. DbSound'
  BY <1>1 DEF SearchInv, DbSound
<1>5. NodeRead'
  BY <1>1, <1>3 DEF SearchInv, NodeRead, Probing
<1>6. BuilderOK' /\ Cursor' /\ Outcome'
  BY <1>1, <1>3 DEF BuilderOK, Cursor, Outcome, Probing
<1> QED BY <1>4, <1>5, <1>6 DEF SearchInv

LEMMA SearchRefusePath == SearchInv /\ ProbeInv /\ RefusePath => SearchInv'
<1> SUFFICES ASSUME SearchInv, ProbeInv, RefusePath PROVE SearchInv'
  OBVIOUS
<1>1. chain \in Chain \cup {NoPath, NotInUdev} /\ FailProbe("INVALID_PATH")
  BY DEF RefusePath, ProbeInv, Stages
<1>2. chain # NoNode
  BY <1>1, ChainAssumption DEF NotInUdev
<1> QED BY <1>1, <1>2, FailStep

LEMMA SearchReadNode == SearchInv /\ ProbeInv /\ ReadNode => SearchInv'
<1> SUFFICES ASSUME SearchInv, ProbeInv, ReadNode PROVE SearchInv'
  OBVIOUS
<1>1. pc = "path" /\ chain \in Chain
  BY DEF ReadNode, ProbeInv, Stages
<1>2. chain # NoNode
  BY <1>1, ChainAssumption
<1>3. CASE DeviceProp("name") = Null
  BY <1>2, <1>3, FailStep DEF ReadNode
<1>4. CASE DeviceProp("name") # Null
  <2>1. /\ pc' = "product"
        /\ info' = [info EXCEPT !.name = DeviceProp("name"), !.uniq = ParseUniq(DeviceProp("uniq"))]
        /\ UNCHANGED <<db, builder, fallback, bus, approach, device, ret, chain>>
    BY <1>4 DEF ReadNode, NodeUnchanged
  <2>2. /\ info'.name = DeviceProp("name") /\ info'.uniq = ParseUniq(DeviceProp("uniq"))
        /\ info'.bus = info.bus
    BY <2>1 DEF ProbeInv, Stages
  <2>3. DeviceProp("name") \in Text
    <3>1. PICK i \in DOMAIN chain : DeviceProp("name") = chain[i]["name"]
      BY <1>1, <1>4, NearestProp
    <3> QED BY <1>1, <1>4, <3>1, ChainAssumption
  <2>4. ParseUniq(DeviceProp("uniq")) \in Text \cup {Null}
    <3>1. CASE DeviceProp("uniq") = Null
      BY <3>1 DEF ParseUniq
    <3>2. CASE DeviceProp("uniq") # Null
      <4>1. PICK i \in DOMAIN chain : DeviceProp("uniq") = chain[i]["uniq"]
        BY <1>1, <3>2, NearestProp
      <4>2. DeviceProp("uniq").stem \in Text
        BY <1>1, <3>2, <4>1, ChainAssumption
      <4> QED BY <4>2 DEF ParseUniq
    <3> QED BY <3>1, <3>2
  <2>5. DbSound'
    BY <2>1 DEF SearchInv, DbSound
  <2>6. NodeRead'
    BY <1>1, <2>1, <2>2, <2>3, <2>4, SearchOperators DEF SearchInv, NodeRead, HasBuilder, Returned, Probing, Searching
  <2>7. BuilderOK' /\ Cursor' /\ Outcome'
    BY <1>1, <2>1 DEF SearchInv, BuilderOK, Cursor, Outcome, HasBuilder, Returned, Probing, Searching
  <2> QED BY <2>5, <2>6, <2>7 DEF SearchInv
<1> QED BY <1>3, <1>4

LEMMA KernelBusFacts == \A k \in DOMAIN KernelBus : KernelBus[k] \in Bus \cup {"unknown"}
BY DEF KernelBus, Bus

LEMMA SearchReadProduct == SearchInv /\ ProbeInv /\ ReadProduct => SearchInv'
<1> SUFFICES ASSUME SearchInv, ProbeInv, ReadProduct PROVE SearchInv'
  OBVIOUS
<1> DEFINE p == DeviceProp("product")
<1>1. /\ pc = "product" /\ pc' = IF Known(p) THEN "build" ELSE "bus"
      /\ info' = [info EXCEPT !.vid = IF VidRead(p) THEN p[2] ELSE @,
                              !.pid = IF PidRead(p) THEN p[3] ELSE @,
                              !.bus = IF Known(p) THEN KernelBus[p[1]] ELSE @]
      /\ UNCHANGED <<db, builder, fallback, bus, approach, device, ret, chain>>
  BY DEF ReadProduct, NodeUnchanged
<1>2. info'.name = info.name /\ info'.uniq = info.uniq
  BY <1>1 DEF ProbeInv, Stages
<1>3. info'.bus = IF Known(p) THEN KernelBus[p[1]] ELSE info.bus
  BY <1>1 DEF ProbeInv, Stages
<1>4. Known(p) => KernelBus[p[1]] \in Bus \cup {"unknown"}
  BY KernelBusFacts DEF Known
<1> HIDE DEF p
<1>5. DbSound'
  BY <1>1 DEF SearchInv, DbSound
<1>6. NodeRead'
  BY <1>1, <1>2, <1>3, <1>4, SearchOperators DEF SearchInv, NodeRead, HasBuilder, Returned, Probing, Searching
<1>7. BuilderOK' /\ Cursor' /\ Outcome'
  BY <1>1 DEF SearchInv, BuilderOK, Cursor, Outcome, HasBuilder, Returned, Probing, Searching
<1> QED BY <1>5, <1>6, <1>7 DEF SearchInv

LEMMA SearchReadSerial == SearchInv /\ ProbeInv /\ ReadSerial => SearchInv'
<1> SUFFICES ASSUME SearchInv, ProbeInv, ReadSerial PROVE SearchInv'
  OBVIOUS
<1>1. /\ pc = "bus" /\ pc' = "build"
      /\ info' = [info EXCEPT !.bus = "serial", !.vid = 0, !.pid = 0]
      /\ UNCHANGED <<db, builder, fallback, bus, approach, device, ret, chain>>
  BY DEF ReadSerial, SerialIds, NodeUnchanged
<1>2. info'.name = info.name /\ info'.uniq = info.uniq /\ info'.bus = "serial"
  BY <1>1 DEF ProbeInv, Stages
<1>3. DbSound'
  BY <1>1 DEF SearchInv, DbSound
<1>4. NodeRead'
  BY <1>1, <1>2, SearchOperators DEF SearchInv, NodeRead, HasBuilder, Returned, Probing, Searching, Bus
<1>5. BuilderOK' /\ Cursor' /\ Outcome'
  BY <1>1 DEF SearchInv, BuilderOK, Cursor, Outcome, HasBuilder, Returned, Probing, Searching
<1> QED BY <1>3, <1>4, <1>5 DEF SearchInv

LEMMA SearchRefuseBus == SearchInv /\ ProbeInv /\ RefuseBus => SearchInv'
<1> SUFFICES ASSUME SearchInv, ProbeInv, RefuseBus PROVE SearchInv'
  OBVIOUS
<1>1. chain \in Chain /\ (FailProbe(NoError) \/ FailProbe("UNKNOWN_MODEL"))
  BY DEF RefuseBus, ProbeInv, Stages, Probing
<1>2. chain # NoNode
  BY <1>1, ChainAssumption
<1> QED BY <1>1, <1>2, FailStep

LEMMA SearchBuild == SearchInv /\ ProbeInv /\ BuildAndSearch => SearchInv'
<1> SUFFICES ASSUME SearchInv, ProbeInv, BuildAndSearch PROVE SearchInv'
  OBVIOUS
<1>1. /\ pc = "build" /\ pc' = "check" /\ builder' = BuilderFor(info)
      /\ UNCHANGED <<db, fallback, bus, approach, device, ret, chain, info>>
  BY DEF BuildAndSearch, nodeVars
<1>2. DbSound'
  BY <1>1 DEF SearchInv, DbSound
<1>3. NodeRead'
  BY <1>1, SearchOperators DEF SearchInv, NodeRead, HasBuilder, Returned, Probing, Searching
<1>4. BuilderOK'
  BY <1>1 DEF SearchInv, NodeRead, BuilderOK, BuilderFor, Probing
<1>5. Cursor' /\ Outcome'
  BY <1>1 DEF SearchInv, Cursor, Outcome, Returned, Probing
<1> QED BY <1>2, <1>3, <1>4, <1>5 DEF SearchInv

\* A step of the search leaves the database, the builder and the node as they are.
LEMMA SearchCarries ==
  ASSUME SearchInv, UNCHANGED <<db, builder, fallback, chain, info>>,
         pc \in Searching, pc' \in Searching \cup {"done"}, pc' = "done" => pc = "return" /\ chain # NoNode
  PROVE  DbSound' /\ NodeRead' /\ BuilderOK'
<1>1. DbSound'
  BY DEF SearchInv, DbSound
<1>2. HasBuilder /\ DeviceProp("uniq")' = DeviceProp("uniq") /\ pc \notin Probing /\ pc' \notin Probing
  BY SearchOperators DEF HasBuilder, Searching, Probing
<1>3. NodeRead'
  BY <1>2 DEF SearchInv, NodeRead, Searching, Probing
<1>4. BuilderOK'
  BY <1>2 DEF SearchInv, BuilderOK
<1> QED BY <1>1, <1>3, <1>4

LEMMA SearchOtherwise ==
  ASSUME SearchInv, BadFallback \/ NoDatabase \/ FindByName \/ FindByUniq, UNCHANGED <<chain, info>>
  PROVE  SearchInv'
<1>1. pc = "check" /\ pc' = "return" /\ UNCHANGED <<db, builder, fallback>> /\ ~ByMatch
  BY DEF BadFallback, NoDatabase, FindByName, FindByUniq, Checked, Refuse, ReturnOneOf, ByMatch
<1>2. DbSound' /\ NodeRead' /\ BuilderOK'
  BY <1>1, SearchCarries DEF Searching
<1>3. Cursor' /\ Outcome'
  BY <1>1, SearchOperators DEF Cursor, Outcome, Probing
<1> QED BY <1>2, <1>3 DEF SearchInv

LEMMA SearchStartMatching ==
  ASSUME SearchInv, StartMatching, UNCHANGED <<chain, info>>
  PROVE  SearchInv'
<1>1. /\ pc = "check" /\ pc' = "match" /\ ByMatch
      /\ UNCHANGED <<db, builder, fallback, bus, approach>>
  BY DEF StartMatching, Checked, ByMatch
<1>2. DbSound' /\ NodeRead' /\ BuilderOK'
  BY <1>1, SearchCarries DEF Searching
<1>3. bus = 1 /\ approach = 1
  BY <1>1 DEF SearchInv, Cursor
<1>4. MissedBefore(db, builder, 1, 1)
  BY BusLen DEF MissedBefore, Earlier
<1>5. 1 \in 1..(Len(BussesOf(builder)) + 1)
  BY BusLen
<1>6. Cursor' /\ Outcome'
  BY <1>1, <1>3, <1>4, <1>5, SearchOperators DEF Cursor, Outcome, Probing, Returned
<1> QED BY <1>2, <1>6 DEF SearchInv

LEMMA SearchHit ==
  ASSUME SearchInv, Hit, UNCHANGED <<chain, info>>
  PROVE  SearchInv'
<1>1. /\ pc = "match" /\ pc' = "copy" /\ bus <= Len(BussesOf(builder)) /\ device' = Tries /\ Tries # NoDevice
      /\ UNCHANGED <<db, builder, fallback, bus, approach>>
  BY BussesFacts DEF Hit
<1>2. DbSound' /\ NodeRead' /\ BuilderOK'
  BY <1>1, SearchCarries DEF Searching
<1>3. /\ ByMatch /\ MissedBefore(db, builder, bus, approach)
      /\ bus \in 1..(Len(BussesOf(builder)) + 1) /\ approach \in 1..4
  BY <1>1 DEF SearchInv, Cursor
<1>4. bus \in 1..Len(BussesOf(builder))
  BY <1>1, <1>3, BusLen
<1>5. device' \in Slot /\ TryString(builder, bus, approach) \in MatchStrings(db[device'])
  BY <1>1, <1>3, <1>4, TriesFacts
<1>6. Cursor' /\ Outcome'
  BY <1>1, <1>3, <1>5, SearchOperators DEF Cursor, Outcome, Probing, Returned
<1> QED BY <1>2, <1>6 DEF SearchInv

\* Attempts alike print the same string.
LEMMA AlikeMiss ==
  ASSUME NEW d, NEW b, NEW k, NEW x, NEW y, Attempt(b, x) = Attempt(b, y), Misses(d, b, k, y)
  PROVE  Misses(d, b, k, x)
BY DEF Misses, TryString

LEMMA SearchMiss ==
  ASSUME SearchInv, Miss, UNCHANGED <<chain, info>>
  PROVE  SearchInv'
<1>1. /\ pc = "match" /\ pc' = "match" /\ bus <= Len(BussesOf(builder)) /\ Tries = NoDevice
      /\ UNCHANGED <<db, builder, fallback>>
  BY BussesFacts DEF Miss
<1>2. DbSound' /\ NodeRead' /\ BuilderOK'
  BY <1>1, SearchCarries DEF Searching
<1>3. /\ ByMatch /\ MissedBefore(db, builder, bus, approach)
      /\ bus \in 1..(Len(BussesOf(builder)) + 1) /\ approach \in 1..4
  BY <1>1 DEF SearchInv, Cursor
<1>4. bus \in 1..Len(BussesOf(builder)) /\ Len(BussesOf(builder)) \in Nat
  BY <1>1, <1>3, BusLen
<1>5. Misses(db, builder, bus, approach) /\ Tried = Attempt(builder, approach)
  BY <1>1, <1>3, <1>4, TriesFacts
<1>6. \A x \in 1..approach : Misses(db, builder, bus, x)
  <2> TAKE x \in 1..approach
  <2>1. CASE x = approach
    BY <2>1, <1>5
  <2>2. CASE x # approach
    <3>1. x \in 1..4 /\ Earlier(bus, x, bus, approach)
      BY <2>2, <1>3 DEF Earlier
    <3> QED BY <3>1, <1>3, <1>4 DEF MissedBefore
  <2> QED BY <2>1, <2>2
<1>7. CASE Tried.name = Null /\ Tried.uniq = Null
  <2>1. bus' = bus + 1 /\ approach' = 1
    BY <1>7 DEF Miss
  <2>2. \A x \in 1..4 : Misses(db, builder, bus, x)
    <3> TAKE x \in 1..4
    <3>1. PICK y \in 1..approach : Attempt(builder, x) = Attempt(builder, y)
      BY <1>3, <1>5, <1>7, BusExhausted
    <3> QED BY <3>1, <1>6, AlikeMiss
  <2>3. MissedBefore(db, builder, bus + 1, 1)
    <3> SUFFICES ASSUME NEW j \in 1..Len(BussesOf(builder)), NEW x \in 1..4, Earlier(j, x, bus + 1, 1)
                 PROVE  Misses(db, builder, j, x)
      BY DEF MissedBefore
    <3>1. j < bus \/ j = bus
      BY <1>4 DEF Earlier
    <3>2. j < bus => Earlier(j, x, bus, approach)
      BY DEF Earlier
    <3> QED BY <3>1, <3>2, <2>2, <1>3 DEF MissedBefore
  <2>4. bus' \in 1..(Len(BussesOf(builder)) + 1) /\ approach' \in 1..4
    BY <2>1, <1>4
  <2>5. Cursor' /\ Outcome'
    BY <1>1, <1>3, <2>1, <2>3, <2>4, SearchOperators DEF Cursor, Outcome, Probing, Returned
  <2> QED BY <1>2, <2>5 DEF SearchInv
<1>8. CASE ~(Tried.name = Null /\ Tried.uniq = Null)
  <2>1. bus' = bus /\ approach' = approach + 1
    BY <1>8 DEF Miss
  <2>2. approach # 4
    BY <1>5, <1>8, AttemptFacts
  <2>3. MissedBefore(db, builder, bus, approach + 1)
    <3> SUFFICES ASSUME NEW j \in 1..Len(BussesOf(builder)), NEW x \in 1..4,
                        Earlier(j, x, bus, approach + 1)
                 PROVE  Misses(db, builder, j, x)
      BY DEF MissedBefore
    <3>1. j < bus \/ (j = bus /\ x \in 1..approach)
      BY <1>3 DEF Earlier
    <3>2. j < bus => Earlier(j, x, bus, approach)
      BY DEF Earlier
    <3> QED BY <3>1, <3>2, <1>3, <1>6 DEF MissedBefore
  <2>4. bus' \in 1..(Len(BussesOf(builder)) + 1) /\ approach' \in 1..4
    BY <2>1, <2>2, <1>3
  <2>5. Cursor' /\ Outcome'
    BY <1>1, <1>3, <2>1, <2>3, <2>4, SearchOperators DEF Cursor, Outcome, Probing, Returned
  <2> QED BY <1>2, <2>5 DEF SearchInv
<1> QED BY <1>7, <1>8

LEMMA SearchNotFound ==
  ASSUME SearchInv, NotFound, UNCHANGED <<chain, info>>
  PROVE  SearchInv'
<1>1. /\ pc = "match" /\ pc' = "return" /\ bus > Len(BussesOf(builder)) /\ ret' = FallbackReturn
      /\ UNCHANGED <<db, builder, fallback>>
  BY BussesFacts DEF NotFound
<1>2. DbSound' /\ NodeRead' /\ BuilderOK'
  BY <1>1, SearchCarries DEF Searching
<1>3. /\ ByMatch /\ MissedBefore(db, builder, bus, approach)
      /\ bus \in 1..(Len(BussesOf(builder)) + 1) /\ Len(BussesOf(builder)) \in Nat
  BY <1>1, BusLen DEF SearchInv, Cursor
<1>4. NothingFound(db, builder)
  <2> SUFFICES ASSUME NEW j \in 1..Len(BussesOf(builder)), NEW x \in 1..4
               PROVE  Misses(db, builder, j, x)
    BY DEF NothingFound
  <2>1. Earlier(j, x, bus, approach)
    BY <1>1, <1>3 DEF Earlier
  <2> QED BY <2>1, <1>3 DEF MissedBefore
<1>5. NothingFound(db, builder)' /\ ret' = FallbackReturn'
  BY <1>1, <1>4, SearchOperators DEF NothingFound, Misses, TryString, Attempt
<1>6. Cursor' /\ Outcome'
  BY <1>1, <1>5 DEF Cursor, Outcome, Probing
<1> QED BY <1>2, <1>6 DEF SearchInv

LEMMA SearchCopy ==
  ASSUME SearchInv, CopyFound, UNCHANGED <<chain, info>>
  PROVE  SearchInv'
<1> DEFINE string == TryString(builder, bus, approach)
           used == MatchNew(Tried.name, Tried.uniq, Busses[bus], builder.vid, builder.pid)
<1>1. /\ pc = "copy" /\ pc' = "return" /\ ret' = Found(device, DefaultMatch(db[device], used))
      /\ UNCHANGED <<db, builder, fallback>>
  BY DEF CopyFound
<1>2. DbSound' /\ NodeRead' /\ BuilderOK'
  BY <1>1, SearchCarries DEF Searching
<1>3. /\ ByMatch /\ MissedBefore(db, builder, bus, approach) /\ approach \in 1..4
      /\ bus \in 1..(Len(BussesOf(builder)) + 1) /\ bus <= Len(BussesOf(builder))
      /\ device \in Slot /\ string \in MatchStrings(db[device])
  BY <1>1 DEF SearchInv, Cursor
<1>4. bus \in 1..Len(BussesOf(builder))
  BY <1>3, BusLen
<1>5. BussesOf(builder)[bus] # "unknown"
  <2>1. CASE builder.bus # "unknown"
    <3>1. BussesOf(builder) = <<builder.bus>>
      BY <2>1 DEF BussesOf
    <3> QED BY <2>1, <3>1, <1>4
  <2>2. CASE builder.bus = "unknown"
    <3>1. BussesOf(builder) = <<"usb", "i2c", "bluetooth">>
      BY <2>2 DEF BussesOf, EveryBus
    <3>2. bus \in {1, 2, 3}
      BY <3>1, <1>4
    <3> QED BY <3>1, <3>2
  <2> QED BY <2>1, <2>2
<1>6. used.match = string
  BY <1>3, <1>4, <1>5, TriesFacts, BussesFacts DEF MatchNew, TryString
<1> HIDE DEF used
<1>7. \E i \in DOMAIN db[device].matches :
        db[device].matches[i].match = string /\ DefaultMatch(db[device], used) = db[device].matches[i]
  <2> DEFINE i == CHOOSE i \in DOMAIN db[device].matches : db[device].matches[i].match = used.match
  <2>1. \E j \in DOMAIN db[device].matches : db[device].matches[j].match = used.match
    BY <1>3, <1>6 DEF MatchStrings
  <2>2. i \in DOMAIN db[device].matches /\ db[device].matches[i].match = used.match
    BY <2>1
  <2>3. DefaultMatch(db[device], used) = db[device].matches[i]
    BY <1>3, <1>6 DEF DefaultMatch
  <2> HIDE DEF i
  <2> QED BY <2>2, <2>3, <1>6
<1>8. PICK i \in DOMAIN db[device].matches :
        FirstFound(db, builder, bus, approach, device, i) /\ ret' = Found(device, db[device].matches[i])
  BY <1>1, <1>3, <1>4, <1>7 DEF FirstFound
<1>9. Outcome'
  <2>1. \E k \in 1..Len(BussesOf(builder)), a \in 1..4, s \in Slot : \E j \in DOMAIN db[s].matches :
          FirstFound(db, builder, k, a, s, j) /\ ret' = Found(s, db[s].matches[j])
    BY <1>3, <1>4, <1>8
  <2>2. \E k \in 1..Len(BussesOf(builder')), a \in 1..4, s \in Slot : \E j \in DOMAIN db'[s].matches :
          FirstFound(db', builder', k, a, s, j)
            /\ ret' = [of |-> s, error |-> NoError, match |-> db'[s].matches[j], name |-> db'[s].name]
    BY <2>1, <1>1 DEF Found
  <2> QED BY <2>2 DEF Outcome, Found
<1>10. Cursor'
  BY <1>1 DEF Cursor, Probing
<1> QED BY <1>2, <1>9, <1>10 DEF SearchInv

LEMMA SearchReturns == SearchInv /\ ReturnDevice => SearchInv'
<1> SUFFICES ASSUME SearchInv, ReturnDevice PROVE SearchInv'
  OBVIOUS
<1>1. /\ pc = "return" /\ pc' = "done" /\ chain # NoNode
      /\ UNCHANGED <<db, builder, fallback, ret, chain, info>>
  BY DEF ReturnDevice
<1>2. DbSound' /\ NodeRead' /\ BuilderOK'
  BY <1>1, SearchCarries DEF Searching
<1>3. Cursor'
  BY <1>1 DEF Cursor, Probing
<1>4. Outcome'
  BY <1>1, OutcomeStays DEF SearchInv, Returned
<1> QED BY <1>2, <1>3, <1>4 DEF SearchInv

LEMMA SearchStutters == SearchInv /\ UNCHANGED probeVars => SearchInv'
<1> SUFFICES ASSUME SearchInv, UNCHANGED probeVars PROVE SearchInv'
  OBVIOUS
<1>1. UNCHANGED <<db, builder, fallback, pc, bus, approach, device, ret, chain, info>>
  BY DEF probeVars, lookupVars, nodeVars
<1>2. DbSound' /\ BuilderOK'
  BY <1>1 DEF SearchInv, DbSound, BuilderOK, HasBuilder, Returned
<1>3. NodeRead'
  BY <1>1, SearchOperators DEF SearchInv, NodeRead, HasBuilder, Returned
<1>4. Cursor'
  BY <1>1, SearchOperators DEF SearchInv, Cursor
<1>5. Outcome'
  BY <1>1, OutcomeStays DEF SearchInv, Returned
<1> QED BY <1>2, <1>3, <1>4, <1>5 DEF SearchInv

\* The invariant holds in every state of a call.
THEOREM SearchInvariance == ProbeSpec => []SearchInv
<1>1. ASSUME SearchInv, LookupNext, UNCHANGED nodeVars PROVE SearchInv'
  <2>1. UNCHANGED <<chain, info>>
    BY <1>1 DEF nodeVars
  <2> QED BY <1>1, <2>1, SearchOtherwise, SearchStartMatching, SearchHit, SearchMiss, SearchNotFound,
             SearchCopy DEF LookupNext
<1>2. ASSUME SearchInv, ProbeInv, [ProbeNext]_probeVars PROVE SearchInv'
  BY <1>1, <1>2, SearchRefusePath, SearchReadNode, SearchReadProduct, SearchReadSerial,
     SearchRefuseBus, SearchBuild, SearchReturns, SearchStutters DEF ProbeNext
<1>3. ProbeSpec => []ProbeInv
  BY ProbeInvariance
<1> QED BY <1>2, <1>3, SearchStarts, PTL DEF ProbeSpec

\* In a database that loads, equal match strings and equal fields are the same match of the
\* same device, whatever is in the .tablet files.
THEOREM DistinctTheorem == ProbeSpec => []MatchesDistinct
<1>1. SearchInv => MatchesDistinct
  BY FieldsDistinct DEF SearchInv, DbSound
<1> QED BY <1>1, SearchInvariance, PTL

-----------------------------------------------------------------------------
(***************************************************************************)
(* What the search finds.                                                   *)
(***************************************************************************)
\* A bus that is wanted is tried, but for the serial one of a builder without a bus.
BusTried(c, b) == c \in Wanted(b) /\ (b.bus = "unknown" => c # "serial")

LEMMA BussesTried ==
  ASSUME NEW b, b.bus \in Bus \cup {"unknown"}
  PROVE  /\ \A k \in 1..Len(BussesOf(b)) : BussesOf(b)[k] \in Bus
         /\ \A c : BusTried(c, b) <=> \E k \in 1..Len(BussesOf(b)) : BussesOf(b)[k] = c
         /\ \A j, k \in 1..Len(BussesOf(b)) : j < k => BusRank[BussesOf(b)[j]] < BusRank[BussesOf(b)[k]]
         /\ b.bus = "unknown" =>
              \A k \in 1..Len(BussesOf(b)) : BusRank[BussesOf(b)[k]] < BusRank["serial"]
<1>1. CASE b.bus # "unknown"
  <2>1. BussesOf(b) = <<b.bus>> /\ Wanted(b) = {b.bus} /\ 1..Len(<<b.bus>>) = {1}
    BY <1>1 DEF BussesOf, Wanted
  <2> QED BY <1>1, <2>1 DEF BusTried
<1>2. CASE b.bus = "unknown"
  <2>1. BussesOf(b) = <<"usb", "i2c", "bluetooth">> /\ Wanted(b) = Bus
    BY <1>2 DEF BussesOf, Wanted, EveryBus
  <2>2. 1..Len(BussesOf(b)) = {1, 2, 3}
    BY <2>1
  <2>3. BussesOf(b)[1] = "usb" /\ BussesOf(b)[2] = "i2c" /\ BussesOf(b)[3] = "bluetooth"
    BY <2>1
  <2>4. BusRank["usb"] = 1 /\ BusRank["i2c"] = 2 /\ BusRank["bluetooth"] = 3 /\ BusRank["serial"] = 4
    BY DEF BusRank
  <2>5. \A c : BusTried(c, b) <=> c \in {"usb", "i2c", "bluetooth"}
    BY <1>2, <2>1 DEF BusTried, Bus
  <2> QED BY <2>2, <2>3, <2>4, <2>5 DEF Bus
<1> QED BY <1>1, <1>2

LEMMA OneBus ==
  ASSUME NEW b, b.bus \in Bus
  PROVE  Len(BussesOf(b)) = 1 /\ BussesOf(b)[1] = b.bus /\ 1..Len(BussesOf(b)) = {1}
<1>1. BussesOf(b) = <<b.bus>> /\ 1..Len(<<b.bus>>) = {1}
  BY DEF BussesOf, Bus
<1> QED BY <1>1

LEMMA PlainPiece ==
  ASSUME NEW t \in Text, Len(t) = 1
  PROVE  OnePiece(t)
<1>1. t \in Seq(Piece) /\ t # Null
  BY TextAssumption DEF Text
<1>2. t = <<t[1]>>
  BY <1>1
<1> QED BY <1>1, <1>2 DEF OnePiece

\* An attempt of a search finds a match if and only if it has the fields of the attempt.
LEMMA TriedFields ==
  ASSUME NEW m, ParsedMatch(m), NEW b, b.bus \in Bus \cup {"unknown"},
         {b.matchName, b.uniq} \subseteq Text \cup {Null}, Plain(b),
         NEW k \in 1..Len(BussesOf(b)), NEW a \in 1..4
  PROVE  m.match = TryString(b, k, a) <=>
           /\ m.bus = BussesOf(b)[k] /\ m.vid = b.vid /\ m.pid = b.pid
           /\ SameText(m, Attempt(b, a).name, Attempt(b, a).uniq)
<1>1. PICK name, uniq, c, v, p :
        /\ name = Attempt(b, a).name /\ uniq = Attempt(b, a).uniq
        /\ c = BussesOf(b)[k] /\ v = b.vid /\ p = b.pid
  OBVIOUS
<1>2. {name, uniq} \subseteq {b.matchName, b.uniq, Null}
  <2>1. a \in {1, 2, 3, 4}
    OBVIOUS
  <2> QED BY <1>1, <2>1, AttemptFacts
<1>3. name \in Text \cup {Null} /\ uniq \in Text \cup {Null}
  BY <1>2
<1>4. \A t \in {name, uniq} \ {Null} : OnePiece(t)
  BY <1>2, PlainPiece DEF Plain
<1>5. TryString(b, k, a) = MakeMatchString(name, uniq, c, v, p)
  BY <1>1 DEF TryString
<1>6. c \in Bus /\ c # "unknown"
  BY <1>1, BussesTried DEF Bus
<1>7. CASE m.bus \in Bus
  <2>1. /\ m.match = MakeMatchString(m.name, m.uniq, m.bus, m.vid, m.pid)
        /\ \A t \in {m.name, m.uniq} \ {Null} : OnePiece(t)
    BY <1>7 DEF ParsedMatch, Bus
  <2>2. \A t \in {m.name, m.uniq, name, uniq} \ {Null} : OnePiece(t)
    BY <1>4, <2>1
  <2>3. MakeMatchString(m.name, m.uniq, m.bus, m.vid, m.pid) = MakeMatchString(name, uniq, c, v, p)
          <=> m.bus = c /\ m.vid = v /\ m.pid = p /\ SameText(m, name, uniq)
    BY <2>2, StringOf
  <2> QED BY <1>1, <1>5, <2>1, <2>3
<1>8. CASE m.bus \notin Bus
  <2>1. m.match = Generic
    BY <1>8 DEF ParsedMatch
  <2>2. MakeMatchString(name, uniq, c, v, p) # Generic
    BY <1>3, NotGeneric
  <2> QED BY <1>1, <1>5, <1>6, <1>8, <2>1, <2>2
<1> QED BY <1>7, <1>8

\* So a match that fits a builder is on a bus that is tried if and only if some attempt
\* finds it.
LEMMA FitsIsTried ==
  ASSUME NEW m, ParsedMatch(m), NEW b, b.bus \in Bus \cup {"unknown"},
         {b.matchName, b.uniq} \subseteq Text \cup {Null}, Plain(b)
  PROVE  Fits(m, b) /\ BusTried(m.bus, b) <=>
           \E k \in 1..Len(BussesOf(b)), a \in 1..4 : m.match = TryString(b, k, a)
<1>1. ASSUME Fits(m, b), BusTried(m.bus, b)
      PROVE  \E k \in 1..Len(BussesOf(b)), a \in 1..4 : m.match = TryString(b, k, a)
  <2>1. PICK name \in {b.matchName, Null}, uniq \in {b.uniq, Null} : SameText(m, name, uniq)
    BY <1>1 DEF Fits
  <2>2. PICK a \in 1..4 : name = Attempt(b, a).name /\ uniq = Attempt(b, a).uniq
    <3>1. \E a \in {1, 2, 3, 4} : name = Attempt(b, a).name /\ uniq = Attempt(b, a).uniq
      BY AttemptFacts
    <3> QED BY <3>1
  <2>3. PICK k \in 1..Len(BussesOf(b)) : BussesOf(b)[k] = m.bus
    BY <1>1, BussesTried
  <2>4. m.match = TryString(b, k, a)
    BY <1>1, <2>1, <2>2, <2>3, TriedFields DEF Fits
  <2> QED BY <2>4
<1>2. ASSUME NEW k \in 1..Len(BussesOf(b)), NEW a \in 1..4, m.match = TryString(b, k, a)
      PROVE  Fits(m, b) /\ BusTried(m.bus, b)
  <2>1. /\ m.bus = BussesOf(b)[k] /\ m.vid = b.vid /\ m.pid = b.pid
        /\ SameText(m, Attempt(b, a).name, Attempt(b, a).uniq)
    BY <1>2, TriedFields
  <2>2. Attempt(b, a).name \in {b.matchName, Null} /\ Attempt(b, a).uniq \in {b.uniq, Null}
    <3>1. a \in {1, 2, 3, 4}
      OBVIOUS
    <3> QED BY <3>1, AttemptFacts
  <2>3. BusTried(m.bus, b)
    BY <2>1, BussesTried
  <2> QED BY <2>1, <2>2, <2>3 DEF Fits, BusTried
<1> QED BY <1>1, <1>2

\* How much of a builder an attempt with a name and a uniq asks for.
Bare(text)          == text \in {Null, <<"">>}
DetailOf(name, uniq) ==
  (IF uniq # Null THEN 2 ELSE 0) + (IF name # Null /\ (uniq # Null => ~Bare(name)) THEN 1 ELSE 0)

LEMMA TextFacts ==
  ASSUME NEW m, NEW name, NEW uniq
  PROVE  /\ SameText(m, name, uniq) <=>
              m.uniq = uniq /\ (m.name = name \/ (uniq # Null /\ Bare(m.name) /\ Bare(name)))
         /\ Named(m) <=> m.name # Null /\ (m.uniq # Null => ~Bare(m.name))
         /\ Bare(Null)
BY Zenon DEF SameText, Named, Bare

LEMMA SameDetail ==
  ASSUME NEW m, NEW name, NEW uniq, SameText(m, name, uniq)
  PROVE  Detail(m) = DetailOf(name, uniq)
BY TextFacts DEF Detail, DetailOf

\* Of two matches found on one bus, by attempts that are not alike, the earlier attempt's
\* has more of the builder.
LEMMA EarlierIsBetter ==
  ASSUME NEW m, NEW n, NEW b, NEW a \in 1..4, NEW x \in 1..4,
         SameText(m, Attempt(b, a).name, Attempt(b, a).uniq),
         SameText(n, Attempt(b, x).name, Attempt(b, x).uniq),
         \A y \in 1..a : ~SameText(n, Attempt(b, y).name, Attempt(b, y).uniq)
  PROVE  Detail(m) > Detail(n)
<1>1. PICK name, uniq : name = b.matchName /\ uniq = b.uniq
  OBVIOUS
<1>2. /\ Attempt(b, 1).name = name /\ Attempt(b, 1).uniq = uniq
      /\ Attempt(b, 2).name = Null /\ Attempt(b, 2).uniq = uniq
      /\ Attempt(b, 3).name = name /\ Attempt(b, 3).uniq = Null
      /\ Attempt(b, 4).name = Null /\ Attempt(b, 4).uniq = Null
  BY <1>1, AttemptFacts
<1>3. Detail(m) = DetailOf(Attempt(b, a).name, Attempt(b, a).uniq)
  BY SameDetail
<1>4. Detail(n) = DetailOf(Attempt(b, x).name, Attempt(b, x).uniq)
  BY SameDetail
<1>5. x > a /\ a \in {1, 2, 3, 4} /\ x \in {1, 2, 3, 4}
  OBVIOUS
<1>6. CASE a = 1
  <2>1. ~SameText(n, name, uniq)
    BY <1>2, <1>6
  <2>2. CASE x = 2
    <3>1. uniq = Null => name # Null
      BY <1>2, <2>1, <2>2
    <3>2. uniq # Null => ~Bare(name)
      BY <1>2, <2>1, <2>2, TextFacts
    <3> QED BY <1>2, <1>3, <1>4, <1>6, <2>2, <3>1, <3>2, TextFacts DEF DetailOf
  <2>3. CASE x = 3
    <3>1. uniq # Null
      BY <1>2, <2>1, <2>3
    <3> QED BY <1>2, <1>3, <1>4, <1>6, <2>3, <3>1, TextFacts DEF DetailOf
  <2>4. CASE x = 4
    <3>1. uniq = Null => name # Null
      BY <1>2, <2>1, <2>4
    <3> QED BY <1>2, <1>3, <1>4, <1>6, <2>4, <3>1, TextFacts DEF DetailOf
  <2> QED BY <1>5, <1>6, <2>2, <2>3, <2>4
<1>7. CASE a = 2
  <2>1. ~SameText(n, name, uniq) /\ ~SameText(n, Null, uniq)
    BY <1>2, <1>7
  <2>2. uniq # Null
    BY <1>2, <1>5, <1>7, <2>1
  <2> QED BY <1>2, <1>3, <1>4, <1>5, <1>7, <2>2, TextFacts DEF DetailOf
<1>8. CASE a = 3
  <2>1. x = 4 /\ ~SameText(n, name, Null)
    BY <1>2, <1>5, <1>8
  <2>2. name # Null
    BY <1>2, <2>1
  <2> QED BY <1>2, <1>3, <1>4, <1>8, <2>1, <2>2, TextFacts DEF DetailOf
<1> QED BY <1>5, <1>6, <1>7, <1>8

\* What is known when a search by match string returns.
LEMMA SearchedFacts ==
  ASSUME SearchInv, Searched
  PROVE  /\ SoundDb(db) /\ builder.bus \in Bus \cup {"unknown"}
         /\ {builder.matchName, builder.uniq} \subseteq Text \cup {Null} /\ Plain(builder)
         /\ \/ NothingFound(db, builder) /\ ret = FallbackReturn
            \/ \E k \in 1..Len(BussesOf(builder)), a \in 1..4, s \in Slot : \E i \in DOMAIN db[s].matches :
                 FirstFound(db, builder, k, a, s, i) /\ ret = Found(s, db[s].matches[i])
<1>1. Returned /\ ByMatch /\ HasBuilder
  BY DEF Searched, Returned, ByMatch, HasBuilder
<1> QED BY <1>1 DEF SearchInv, DbSound, BuilderOK, Outcome, ByMatch, Searched

LEMMA CandidateFacts ==
  ASSUME NEW n, n \in Candidates(builder)
  PROVE  Fits(n, builder) /\ \E t \in Slot : \E j \in DOMAIN db[t].matches : n = db[t].matches[j]
BY DEF Candidates, MatchesOf

\* The best candidate is found, if there is one on a bus that is tried.
LEMMA BestIsFound ==
  ASSUME SearchInv, Searched
  PROVE  /\ Candidates(builder) = {} => ret = FallbackReturn
         /\ Candidates(builder) # {} /\ ~OnlySerial(builder) =>
              /\ ret.of \in Slot
              /\ \E m \in MatchesOf(ret.of) \cap Candidates(builder) :
                   ret.match = m /\ \A n \in Candidates(builder) \ {m} : Better(m, n)
<1> DEFINE b == builder
<1>1. /\ SoundDb(db) /\ b.bus \in Bus \cup {"unknown"}
      /\ {b.matchName, b.uniq} \subseteq Text \cup {Null} /\ Plain(b)
  BY SearchedFacts
<1>2. ASSUME NEW n \in Candidates(b), BusTried(n.bus, b)
      PROVE  \E k \in 1..Len(BussesOf(b)), a \in 1..4 :
               n.match = TryString(b, k, a) /\ ~Misses(db, b, k, a)
  <2>1. PICK t \in Slot : \E j \in DOMAIN db[t].matches : n = db[t].matches[j]
    BY <1>2, CandidateFacts
  <2>2. ParsedMatch(n) /\ Fits(n, b)
    BY <1>1, <1>2, <2>1, CandidateFacts DEF SoundDb
  <2>3. PICK k \in 1..Len(BussesOf(b)), a \in 1..4 : n.match = TryString(b, k, a)
    BY <1>1, <1>2, <2>2, FitsIsTried
  <2>4. n.match \in MatchStrings(db[t])
    BY <2>1 DEF MatchStrings
  <2> QED BY <2>3, <2>4 DEF Misses
<1>3. CASE NothingFound(db, b) /\ ret = FallbackReturn
  <2>1. \A n \in Candidates(b) : ~BusTried(n.bus, b)
    BY <1>2, <1>3 DEF NothingFound
  <2>2. \A n \in Candidates(b) : b.bus = "unknown" /\ n.bus = "serial"
    BY <2>1, CandidateFacts DEF BusTried, Fits
  <2> QED BY <1>3, <2>2 DEF OnlySerial
<1>4. ASSUME NEW k \in 1..Len(BussesOf(b)), NEW a \in 1..4, NEW s \in Slot,
             NEW i \in DOMAIN db[s].matches,
             FirstFound(db, b, k, a, s, i), ret = Found(s, db[s].matches[i])
      PROVE  /\ Candidates(b) # {}
             /\ ret.of \in Slot
             /\ \E m \in MatchesOf(ret.of) \cap Candidates(b) :
                  ret.match = m /\ \A n \in Candidates(b) \ {m} : Better(m, n)
  <2>1. PICK m : m = db[s].matches[i]
    OBVIOUS
  <2>2. m.match = TryString(b, k, a) /\ MissedBefore(db, b, k, a)
    BY <1>4, <2>1 DEF FirstFound
  <2>3. ParsedMatch(m) /\ m \in MatchesOf(s) /\ ret.of = s /\ ret.match = m
    BY <1>1, <1>4, <2>1 DEF SoundDb, MatchesOf, Found
  <2>4. Fits(m, b) /\ m \in Candidates(b)
    BY <1>1, <2>2, <2>3, FitsIsTried DEF Candidates
  <2>5. m.bus = BussesOf(b)[k] /\ SameText(m, Attempt(b, a).name, Attempt(b, a).uniq)
    BY <1>1, <2>2, <2>3, TriedFields
  <2>6. ASSUME NEW n \in Candidates(b) \ {m}, BusTried(n.bus, b) PROVE Better(m, n)
    <3>1. PICK t \in Slot : \E j \in DOMAIN db[t].matches : n = db[t].matches[j]
      BY <2>6, CandidateFacts
    <3>2. ParsedMatch(n) /\ n.match \in MatchStrings(db[t])
      BY <1>1, <3>1 DEF SoundDb, MatchStrings
    <3>3. PICK l \in 1..Len(BussesOf(b)), x \in 1..4 : n.match = TryString(b, l, x)
      BY <1>2, <2>6
    <3>4. /\ n.bus = BussesOf(b)[l] /\ n.vid = b.vid /\ n.pid = b.pid
          /\ SameText(n, Attempt(b, x).name, Attempt(b, x).uniq)
      BY <1>1, <3>2, <3>3, TriedFields
    <3>5. n.match # m.match
      BY <1>1, <2>1, <2>6, <3>1, OneMatch
    <3>6. ASSUME NEW y \in 1..4, Earlier(l, y, k, a) \/ (l = k /\ y = a)
          PROVE  ~SameText(n, Attempt(b, y).name, Attempt(b, y).uniq)
      <4>1. n.match # TryString(b, l, y)
        <5>1. CASE Earlier(l, y, k, a)
          BY <5>1, <2>2, <3>2 DEF MissedBefore, Misses
        <5>2. CASE l = k /\ y = a
          BY <5>2, <2>2, <3>5
        <5> QED BY <3>6, <5>1, <5>2
      <4> QED BY <1>1, <3>2, <3>4, <4>1, TriedFields
    <3>7. l >= k
      BY <3>4, <3>6 DEF Earlier
    <3>8. CASE l > k
      <4>1. BusRank[BussesOf(b)[k]] < BusRank[BussesOf(b)[l]]
        BY <1>1, <3>8, BussesTried
      <4> QED BY <2>5, <3>4, <4>1 DEF Better
    <3>9. CASE l = k
      <4>1. \A y \in 1..a : ~SameText(n, Attempt(b, y).name, Attempt(b, y).uniq)
        BY <3>6, <3>9 DEF Earlier
      <4>2. Detail(m) > Detail(n)
        BY <2>5, <3>4, <4>1, EarlierIsBetter
      <4> QED BY <2>5, <3>4, <3>9, <4>2 DEF Better
    <3> QED BY <3>7, <3>8, <3>9
  <2>7. ASSUME NEW n \in Candidates(b) \ {m}, ~BusTried(n.bus, b) PROVE Better(m, n)
    <3>1. b.bus = "unknown" /\ n.bus = "serial"
      BY <2>7, CandidateFacts DEF BusTried, Fits
    <3>2. BusRank[m.bus] < BusRank[n.bus]
      BY <1>1, <2>5, <3>1, BussesTried
    <3> QED BY <3>2 DEF Better
  <2> QED BY <2>3, <2>4, <2>6, <2>7
<1>5. CASE \E k \in 1..Len(BussesOf(b)), a \in 1..4, s \in Slot : \E i \in DOMAIN db[s].matches :
             FirstFound(db, b, k, a, s, i) /\ ret = Found(s, db[s].matches[i])
  <2>1. Candidates(b) # {} /\ ret.of \in Slot /\ \E m \in MatchesOf(ret.of) \cap Candidates(b) :
          ret.match = m /\ \A n \in Candidates(b) \ {m} : Better(m, n)
    BY <1>4, <1>5
  <2> QED BY <2>1
<1> QED BY <1>3, <1>5, SearchedFacts

\* A search finds a device if and only if a match fits the builder, and it finds the best:
\* for any database, and for any builder whose texts have no '|' and that is not disputed.
THEOREM BestTheorem == ProbeSpec => []FindsBest
<1>1. SearchInv => FindsBest
  <2> SUFFICES ASSUME SearchInv, Searched, Candidates(builder) # {}, ~OnlySerial(builder)
               PROVE  ret.of # NoDevice /\ \E m \in MatchesOf(ret.of) \cap Candidates(builder) :
                        \A n \in Candidates(builder) \ {m} : Better(m, n)
    BY BestIsFound DEF FindsBest, Disputed
  <2> QED BY BestIsFound, NoDeviceAssumption
<1> QED BY <1>1, SearchInvariance, PTL

\* The device's default match is one that fits.
THEOREM DefaultTheorem == ProbeSpec => []DefaultMatchFits
<1>1. SearchInv => DefaultMatchFits
  <2> SUFFICES ASSUME SearchInv, Searched, Candidates(builder) # {}, ~OnlySerial(builder)
               PROVE  Fits(ret.match, builder)
    BY DEF DefaultMatchFits, Disputed
  <2>1. ret.match \in Candidates(builder)
    BY BestIsFound
  <2> QED BY <2>1, CandidateFacts
<1> QED BY <1>1, SearchInvariance, PTL

\* What is found when a match of the database is one of those tried.
LEMMA MatchFound ==
  ASSUME SearchInv, Returned, ByMatch, NEW s \in Slot, NEW i \in DOMAIN db[s].matches,
         NEW l \in 1..Len(BussesOf(builder)), NEW x \in 1..4,
         db[s].matches[i].match = TryString(builder, l, x)
  PROVE  \E k \in 1..Len(BussesOf(builder)), a \in 1..4, t \in Slot : \E j \in DOMAIN db[t].matches :
           /\ ~Earlier(l, x, k, a) /\ db[t].matches[j].match = TryString(builder, k, a)
           /\ ret = Found(t, db[t].matches[j])
<1>1. ~Misses(db, builder, l, x)
  BY DEF Misses, MatchStrings
<1> QED BY <1>1 DEF SearchInv, Outcome, NothingFound, FirstFound, MissedBefore

\* A match looked up by its own fields is found, whatever else is in the database.
THEOREM RoundTripTheorem == ProbeSpec => []RoundTrip
<1>1. ASSUME SearchInv PROVE RoundTrip
  <2> SUFFICES ASSUME Searched, NEW s \in Slot, NEW m, m \in MatchesOf(s), m.match # Generic,
                      m.bus = builder.bus, m.vid = builder.vid, m.pid = builder.pid,
                      m.name = builder.matchName, m.uniq = builder.uniq
               PROVE  ret.of = s /\ ret.match = m
    BY DEF RoundTrip
  <2>1. SoundDb(db) /\ Returned /\ ByMatch
    BY <1>1, SearchedFacts DEF Searched, Returned, ByMatch
  <2>2. PICK i \in DOMAIN db[s].matches : m = db[s].matches[i]
    BY DEF MatchesOf
  <2>3. m.bus \in Bus /\ m.match = MakeMatchString(m.name, m.uniq, m.bus, m.vid, m.pid)
    BY <2>1, <2>2 DEF SoundDb, ParsedMatch
  <2>4. BussesOf(builder)[1] = builder.bus /\ 1..Len(BussesOf(builder)) = {1}
    BY <2>3, OneBus
  <2>5. m.match = TryString(builder, 1, 1)
    BY <2>3, <2>4, AttemptFacts DEF TryString
  <2>6. 1 \in 1..Len(BussesOf(builder)) /\ 1 \in 1..4
    BY <2>4
  <2>7. PICK k \in 1..Len(BussesOf(builder)), a \in 1..4, t \in Slot : \E j \in DOMAIN db[t].matches :
           /\ ~Earlier(1, 1, k, a) /\ db[t].matches[j].match = TryString(builder, k, a)
           /\ ret = Found(t, db[t].matches[j])
    BY <1>1, <2>1, <2>2, <2>5, <2>6, MatchFound
  <2>8. PICK j \in DOMAIN db[t].matches :
           /\ ~Earlier(1, 1, k, a) /\ db[t].matches[j].match = TryString(builder, k, a)
           /\ ret = Found(t, db[t].matches[j])
    BY <2>7
  <2>9. k = 1 /\ a = 1
    BY <2>4, <2>8 DEF Earlier
  <2>10. s = t /\ i = j
    BY <2>1, <2>2, <2>5, <2>8, <2>9, OneMatch
  <2> QED BY <2>2, <2>8, <2>10 DEF Found
<1> QED BY <1>1, SearchInvariance, PTL

-----------------------------------------------------------------------------
\* A string that a file's match has is of five pieces at most.
LEMMA ParsedLength ==
  ASSUME NEW m, ParsedMatch(m)
  PROVE  Len(m.match) \in {1, 3, 4, 5}
<1>1. CASE m.match = Generic
  BY <1>1, TupleLengths
<1>2. CASE m.match # Generic
  <2>1. PICK name, uniq, b, v, p :
          /\ name = m.name /\ uniq = m.uniq /\ b = m.bus /\ v = m.vid /\ p = m.pid
    OBVIOUS
  <2>2. m.match = MakeMatchString(name, uniq, b, v, p) /\ \A t \in {name, uniq} \ {Null} : OnePiece(t)
    BY <1>2, <2>1 DEF ParsedMatch
  <2>3. PICK x, y : x = name[1] /\ y = uniq[1]
    OBVIOUS
  <2>4. (name # Null => name = <<x>>) /\ (uniq # Null => uniq = <<y>>)
    BY <2>2, <2>3 DEF OnePiece
  <2>5. PICK s : s = m.match
    OBVIOUS
  <2>6. Shape(s, name, uniq, b, v, p, x, y)
    BY <2>2, <2>4, <2>5, Shapes
  <2>7. PICK e : e = ""
    OBVIOUS
  <2>8. s \in {<<b, v, p>>, <<b, v, p, x>>, <<b, v, p, e, y>>, <<b, v, p, x, y>>}
    BY <2>6, <2>7, Zenon DEF Shape
  <2> QED BY <2>5, <2>8, TupleLengths
<1> QED BY <1>1, <1>2

\* A match whose string is that of a name and a uniq has that uniq, however many pieces the
\* name has.
LEMMA UniqOfString ==
  ASSUME NEW m, ParsedMatch(m), NEW name \in Text, NEW uniq \in Text, OnePiece(uniq), NEW b, NEW v, NEW p,
         m.match = MakeMatchString(name, uniq, b, v, p)
  PROVE  m.uniq = uniq
<1>1. name # Null /\ uniq # Null /\ name \in Seq(Piece) /\ uniq \in Seq(Piece) /\ name # <<>>
  BY TextAssumption DEF Text
<1>2. CASE Len(name) = 1
  <2>1. OnePiece(name)
    BY <1>2, PlainPiece
  <2>2. m.match # Generic
    BY NotGeneric
  <2>3. /\ m.match = MakeMatchString(m.name, m.uniq, m.bus, m.vid, m.pid)
        /\ \A t \in {m.name, m.uniq, name, uniq} \ {Null} : OnePiece(t)
    BY <2>1, <2>2 DEF ParsedMatch
  <2>4. MakeMatchString(m.name, m.uniq, m.bus, m.vid, m.pid) = MakeMatchString(name, uniq, b, v, p)
    BY <2>3, Zenon
  <2>5. MakeMatchString(m.name, m.uniq, m.bus, m.vid, m.pid) = MakeMatchString(name, uniq, b, v, p)
          <=> m.bus = b /\ m.vid = v /\ m.pid = p /\ SameText(m, name, uniq)
    <3>1. \A t \in {m.name, m.uniq, name, uniq} \ {Null} : OnePiece(t)
      BY <2>3
    <3> QED BY ONLY <3>1, StringOf
  <2>6. SameText(m, name, uniq)
    BY <2>4, <2>5, Zenon
  <2> QED BY <2>6 DEF SameText
<1>3. CASE Len(name) # 1
  <2>1. PICK s, i, j : /\ s = m.match /\ i = Len(NamePieces(name, uniq)) /\ j = Len(PiecesIf(uniq))
    OBVIOUS
  <2>2. Len(s) = 3 + i + j /\ i \in Nat /\ j \in Nat
    BY <2>1, StringLength, Zenon
  <2>3. i = Len(name) /\ j = Len(uniq)
    BY <1>1, <2>1 DEF NamePieces, PiecesIf
  <2>4. Len(name) >= 2
    <3>1. PICK n : n = Len(name)
      OBVIOUS
    <3>2. n \in Nat \ {0} /\ n # 1
      BY <1>1, <1>3, <3>1, EmptySeq, Zenon
    <3> QED BY <3>1, <3>2
  <2>5. Len(uniq) >= 1
    <3>1. uniq # <<>>
      BY DEF Text
    <3> QED BY <1>1, <3>1, EmptySeq
  <2>6. Len(s) \in {1, 3, 4, 5}
    BY <2>1, ParsedLength
  <2> QED BY <2>2, <2>3, <2>4, <2>5, <2>6
<1> QED BY <1>2, <1>3

\* A tablet with a match for its bus and ids is found whatever it is called, and by its uniq
\* whatever version its firmware has.
THEOREM TabletTheorem == ProbeSpec => []TabletFound
<1>1. ASSUME SearchInv PROVE TabletFound
  <2> SUFFICES ASSUME pc = "done", db # Null, info.name # Null, info.bus \in Bus,
                      NEW s \in Slot, NEW m, m \in MatchesOf(s),
                      m.bus = info.bus, m.vid = info.vid, m.pid = info.pid, ~Named(m)
               PROVE  /\ m.uniq = Null => ret.of # NoDevice
                      /\ /\ m.uniq # Null /\ DeviceProp("uniq") # Null
                         /\ DeviceProp("uniq").text # <<"">> /\ m.uniq = DeviceProp("uniq").stem
                         => ret.of # NoDevice /\ ret.match.uniq = m.uniq
    BY DEF TabletFound
  <2>1. /\ Returned /\ HasBuilder /\ chain # NoNode /\ fallback # "invalid" /\ SoundDb(db)
        /\ builder = BuilderFor(info) /\ info.name \in Text
        /\ info.uniq = ParseUniq(DeviceProp("uniq"))
    BY <1>1 DEF Returned, HasBuilder, SearchInv, NodeRead, DbSound
  <2>2. /\ builder.deviceName = info.name /\ builder.matchName = info.name /\ builder.uniq = info.uniq
        /\ builder.bus = info.bus /\ builder.vid = info.vid /\ builder.pid = info.pid
    BY <2>1 DEF BuilderFor
  <2>3. ByMatch
    BY <2>1, <2>2 DEF ByMatch, NameOnly, UniqOnly
  <2>4. PICK i \in DOMAIN db[s].matches : m = db[s].matches[i]
    BY DEF MatchesOf
  <2>5. /\ ParsedMatch(m) /\ m.match = MakeMatchString(m.name, m.uniq, m.bus, m.vid, m.pid)
        /\ \A t \in {m.name, m.uniq} \ {Null} : t \in Text /\ OnePiece(t)
    BY <2>1, <2>4 DEF SoundDb, ParsedMatch, Bus
  <2>6. BussesOf(builder)[1] = m.bus /\ 1..Len(BussesOf(builder)) = {1}
    BY <2>2, OneBus
  <2>7. ASSUME m.uniq = Null PROVE ret.of # NoDevice
    <3>1. m.name = Null
      BY <2>7 DEF Named
    <3>2. m.match = TryString(builder, 1, 4)
      BY <2>2, <2>5, <2>6, <2>7, <3>1, AttemptFacts DEF TryString
    <3>3. \E t \in Slot : ret.of = t
      BY <1>1, <2>1, <2>3, <2>4, <2>6, <3>2, MatchFound DEF Found
    <3> QED BY <3>3, NoDeviceAssumption
  <2>8. ASSUME m.uniq # Null, DeviceProp("uniq") # Null, DeviceProp("uniq").text # <<"">>,
               m.uniq = DeviceProp("uniq").stem
        PROVE  ret.of # NoDevice /\ ret.match.uniq = m.uniq
    <3>1. builder.uniq = m.uniq
      BY <2>1, <2>2, <2>8, Zenon DEF ParseUniq
    <3>2. NamePieces(m.name, m.uniq) = NamePieces(Null, m.uniq)
      <4>1. m.name \in {Null, <<"">>}
        BY <2>8, Zenon DEF Named
      <4> QED BY <4>1, <2>8, Zenon DEF NamePieces, PiecesIf
    <3>3. m.match = TryString(builder, 1, 2)
      BY <2>2, <2>5, <2>6, <3>1, <3>2, AttemptFacts DEF TryString, MakeMatchString
    <3>4. PICK k \in 1..Len(BussesOf(builder)), a \in 1..4, t \in Slot : \E j \in DOMAIN db[t].matches :
             /\ ~Earlier(1, 2, k, a) /\ db[t].matches[j].match = TryString(builder, k, a)
             /\ ret = Found(t, db[t].matches[j])
      <4>1. 1 \in 1..Len(BussesOf(builder)) /\ 2 \in 1..4
        BY <2>6
      <4> QED BY <1>1, <2>1, <2>3, <2>4, <3>3, <4>1, MatchFound
    <3>5. PICK j \in DOMAIN db[t].matches :
             /\ ~Earlier(1, 2, k, a) /\ db[t].matches[j].match = TryString(builder, k, a)
             /\ ret = Found(t, db[t].matches[j])
      BY <3>4
    <3>6. ret.of = t /\ ret.match = db[t].matches[j] /\ t # NoDevice
      BY <3>5, NoDeviceAssumption DEF Found
    <3>7. k = 1 /\ a \in {1, 2}
      BY <2>6, <3>5 DEF Earlier
    <3>8. CASE a = 2
      <4>1. s = t /\ i = j
        BY <2>1, <2>4, <3>3, <3>5, <3>7, <3>8, OneMatch
      <4> QED BY <2>4, <3>6, <4>1
    <3>9. CASE a = 1
      <4>1. db[t].matches[j].match =
              MakeMatchString(info.name, m.uniq, BussesOf(builder)[1], builder.vid, builder.pid)
        BY <2>2, <3>1, <3>5, <3>7, <3>9, AttemptFacts DEF TryString
      <4>2. ParsedMatch(db[t].matches[j])
        BY <2>1 DEF SoundDb
      <4>3. db[t].matches[j].uniq = m.uniq
        BY <2>1, <2>5, <2>8, <4>1, <4>2, UniqOfString
      <4> QED BY <3>6, <4>3
    <3> QED BY <3>6, <3>7, <3>8, <3>9
  <2> QED BY <2>7, <2>8
<1> QED BY <1>1, SearchInvariance, PTL
=============================================================================
