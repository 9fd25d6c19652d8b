-------------------------- MODULE ListLocalProofs --------------------------
(***************************************************************************)
(* Theorems about ListLocal, for any database, any event nodes and any      *)
(* order of readdir.                                                         *)
(***************************************************************************)
EXTENDS ListLocal, FiniteSetTheorems, TLAPS

\* What is compared of two copies of devices of one database in the end.
KindOf(n) == <<probe[n].of, probe[n].match.match, CopyFor(n).integration>>

Fields == {"name", "modelName", "matches", "match", "paired", "width", "height", "integration",
           "layout", "cls", "styli", "features", "numRings", "numStrips", "numDials", "statusLEDs",
           "buttons", "numModes", "keycodes", "numKeycodes"}

\* The database has no match string twice, and each probe found a device by one of its
\* matches.
DbInv ==
  /\ \A s \in Slot : DOMAIN db[s] = Fields
  /\ \A s, t \in Slot : s # t => Strings(db[s]) \cap Strings(db[t]) = {}
  /\ \A n \in Node : probe[n] # NoDevice =>
       /\ probe[n].of \in Slot
       /\ \E i \in DOMAIN db[probe[n].of].matches : probe[n].match = db[probe[n].of].matches[i]

Tablet == [dev : Node, nodes : SUBSET Node]

ListTypeOK ==
  /\ pc \in {"read", "free", "done"}
  /\ unread \in SUBSET Node
  /\ tablets \in Seq(Tablet)
  /\ destroyed \in [Node -> Nat]

Devs == {tablets[i].dev : i \in DOMAIN tablets}

\* A tablet has nodes of one kind, no two tablets of the same.
KindInv ==
  /\ \A i \in DOMAIN tablets :
       /\ tablets[i].dev \in tablets[i].nodes
       /\ tablets[i].nodes \subseteq Listed
       /\ \A n \in tablets[i].nodes : KindOf(n) = KindOf(tablets[i].dev)
  /\ \A i, j \in DOMAIN tablets : KindOf(tablets[i].dev) = KindOf(tablets[j].dev) => i = j

ReadInv ==
  /\ pc = "read" => \A n \in Listed : \E i \in DOMAIN tablets : n \in tablets[i].nodes
  /\ pc # "read" => unread = {}
  /\ pc = "done" => tablets = <<>>

DestroyInv == \A n \in Node : destroyed[n] = IF n \in Listed \ Devs THEN 1 ELSE 0

ListInv == DbInv /\ ListTypeOK /\ KindInv /\ ReadInv /\ DestroyInv

-----------------------------------------------------------------------------
\* The copy for a node is the device of the database, but for the default match and the
\* integration flags.
LEMMA CopyFields ==
  ASSUME DbInv, NEW n \in Node, probe[n] # NoDevice
  PROVE  /\ CopyFor(n).match = probe[n].match
         /\ \A x \in Fields \ {"match", "integration"} : CopyFor(n)[x] = db[probe[n].of][x]
<1>1. DOMAIN db[probe[n].of] = Fields
  BY DEF DbInv
<1> QED
  BY <1>1 DEF CopyFor, Fields

\* Comparison of two copies comes down to their kinds: libwacom_compare is an
\* equivalence between devices of one database, though matches_are_equal looks one way
\* only.
LEMMA AlikeKind ==
  ASSUME DbInv, NEW n \in Node, NEW m \in Node, probe[n] # NoDevice, probe[m] # NoDevice
  PROVE  Alike(n, m) <=> KindOf(n) = KindOf(m)
<1> DEFINE a == CopyFor(n)
           b == CopyFor(m)
<1>1. a.match = probe[n].match /\ b.match = probe[m].match
  BY CopyFields
<1>2. ASSUME Alike(n, m) PROVE KindOf(n) = KindOf(m)
  <2>1. SameMatches(a, b, TRUE) /\ SameIntegration(a, b)
    BY <1>2 DEF Alike, Same
  <2>2. probe[n].match.match = probe[m].match.match /\ a.integration = b.integration
    BY <1>1, <2>1 DEF SameMatches, SameIntegration
  <2>3. /\ probe[n].match.match \in Strings(db[probe[n].of])
        /\ probe[m].match.match \in Strings(db[probe[m].of])
    BY DEF DbInv, Strings
  <2>4. probe[n].of \in Slot /\ probe[m].of \in Slot
    BY DEF DbInv
  <2>5. probe[n].of = probe[m].of
    BY <2>2, <2>3, <2>4 DEF DbInv
  <2> QED
    BY <2>2, <2>5 DEF KindOf
<1>3. ASSUME KindOf(n) = KindOf(m) PROVE Alike(n, m)
  <2>1. /\ probe[n].of = probe[m].of /\ probe[n].match.match = probe[m].match.match
        /\ a.integration = b.integration
    BY <1>3 DEF KindOf
  <2>2. \A x \in Fields \ {"match", "integration"} : a[x] = b[x]
    BY <2>1, CopyFields
  <2>3. /\ a.name = b.name /\ a.width = b.width /\ a.height = b.height /\ a.layout = b.layout
        /\ a.cls = b.cls /\ a.numStrips = b.numStrips /\ a.numDials = b.numDials
        /\ a.features = b.features /\ a.numModes = b.numModes /\ a.styli = b.styli
        /\ a.statusLEDs = b.statusLEDs /\ a.buttons = b.buttons /\ a.paired = b.paired
        /\ a.matches = b.matches
    BY <2>2 DEF Fields
  <2> HIDE DEF a, b
  <2>4. LettersIn(a) = LettersIn(b)
    BY <2>3 DEF LettersIn
  <2>5. NumButtons(a) = NumButtons(b)
    BY <2>4 DEF NumButtons
  <2>6. \A l \in LettersIn(a) : Flags(a, l) = Flags(b, l) /\ EvdevCode(a, l) = EvdevCode(b, l)
    BY <2>3, <2>4 DEF Flags, EvdevCode
  <2>7. SamePaired(a, b)
    BY <2>3 DEF SamePaired
  <2>8. SameMatches(a, b, TRUE)
    BY <1>1, <2>1, <2>3 DEF SameMatches, MatchesAmong
  <2>9. SameIntegration(a, b)
    BY <2>1 DEF SameIntegration
  <2>10. Same(a, b, TRUE)
    BY <2>3, <2>4, <2>5, <2>6, <2>7, <2>8, <2>9 DEF Same
  <2> QED
    BY <2>10 DEF Alike, a, b
<1> QED
  BY <1>2, <1>3

-----------------------------------------------------------------------------
\* The device a file is parsed to has all of its fields.
LEMMA ParsedFields ==
  ASSUME NEW f PROVE DOMAIN Parse(f) = Fields
BY DEF Parse, Fields

\* The initial states satisfy the invariant.
LEMMA ListInitInv == ListInit => ListInv
<1> SUFFICES ASSUME ListInit PROVE ListInv
  OBVIOUS
<1> USE DEF ListInit
<1>1. DbInv
  <2>1. db \in [Slot -> {Parse(f) : f \in {g \in File : HasDevice(g) /\ ~FileAborts(g)}}]
    BY DEF LoadedFrom
  <2>2. \A s \in Slot : DOMAIN db[s] = Fields
    BY <2>1, ParsedFields
  <2>3. \A s, t \in Slot : s # t => Strings(db[s]) \cap Strings(db[t]) = {}
    BY DEF LoadedFrom
  <2>4. ASSUME NEW n \in Node, probe[n] # NoDevice
        PROVE  /\ probe[n].of \in Slot
               /\ \E i \in DOMAIN db[probe[n].of].matches : probe[n].match = db[probe[n].of].matches[i]
    <3>1. PICK s \in Slot : probe[n] \in Probe(s)
      BY <2>4 DEF Found
    <3>2. probe[n].of = s /\ probe[n].match \in Range(db[s].matches)
      BY <3>1 DEF Probe
    <3> QED
      BY <3>2 DEF Range
  <2> QED
    BY <2>2, <2>3, <2>4 DEF DbInv
<1>2. ListTypeOK
  BY DEF ListTypeOK
<1>3. DOMAIN tablets = {} /\ Listed = {}
  BY DEF Listed
<1>4. KindInv
  BY <1>3 DEF KindInv
<1>5. ReadInv
  BY <1>3 DEF ReadInv
<1>6. DestroyInv
  BY <1>3 DEF DestroyInv
<1> QED
  BY <1>1, <1>2, <1>4, <1>5, <1>6 DEF ListInv

\* Database and probes do not change, and kinds with them.
LEMMA ListDiskStays ==
  ASSUME ListNext \/ UNCHANGED listVars
  PROVE  UNCHANGED <<db, probe>>
BY DEF ListNext, SkipNode, JoinTablet, NewTablet, PrintTablets, FreeTablet, ListEnd, listVars

LEMMA KindStays ==
  ASSUME UNCHANGED <<db, probe>>
  PROVE  /\ DbInv => DbInv'
         /\ \A n : KindOf(n)' = KindOf(n)
<1>1. db' = db /\ probe' = probe
  OBVIOUS
<1>2. ASSUME DbInv PROVE DbInv'
  <2>1. (\A s \in Slot : DOMAIN db[s] = Fields)'
    BY <1>1, <1>2 DEF DbInv
  <2>2. \A s : Strings(db[s])' = Strings(db[s])
    BY <1>1 DEF Strings
  <2>3. (\A s, t \in Slot : s # t => Strings(db[s]) \cap Strings(db[t]) = {})'
    BY <1>2, <2>2 DEF DbInv
  <2>4. (\A n \in Node : probe[n] # NoDevice =>
           /\ probe[n].of \in Slot
           /\ \E i \in DOMAIN db[probe[n].of].matches : probe[n].match = db[probe[n].of].matches[i])'
    BY <1>1, <1>2 DEF DbInv
  <2> QED
    BY <2>1, <2>3, <2>4 DEF DbInv
<1>3. ASSUME NEW n PROVE KindOf(n)' = KindOf(n)
  <2>1. CopyFor(n)' = CopyFor(n)
    BY <1>1 DEF CopyFor
  <2> QED
    BY <1>1, <2>1 DEF KindOf
<1> QED
  BY <1>2, <1>3

\* A node that is skipped is not listed.
LEMMA SkipNodeInv ==
  ASSUME ListInv, NEW n \in Node, SkipNode(n) PROVE ListInv'
<1> USE DEF ListInv, SkipNode
<1>1. Listed' = Listed /\ Devs' = Devs
  BY DEF Listed, Devs
<1>2. DbInv' /\ \A m : KindOf(m)' = KindOf(m)
  BY KindStays
<1>3. ListTypeOK'
  BY DEF ListTypeOK
<1>4. KindInv'
  BY <1>1, <1>2 DEF KindInv
<1>5. ReadInv' /\ DestroyInv'
  BY <1>1 DEF ReadInv, DestroyInv
<1> QED
  BY <1>2, <1>3, <1>4, <1>5

\* A node joins the one tablet of its kind.
LEMMA JoinTabletInv ==
  ASSUME ListInv, NEW n \in Node, JoinTablet(n) PROVE ListInv'
<1> USE DEF ListInv
<1>1. PICK k \in Fits(n) : tablets' = [tablets EXCEPT ![k].nodes = @ \cup {n}]
  BY DEF JoinTablet
<1>2. n \in unread /\ probe[n] # NoDevice /\ pc = "read"
  BY DEF JoinTablet
<1>3. /\ k \in 1..Len(tablets) /\ DOMAIN tablets = 1..Len(tablets)
      /\ \A i \in 1..Len(tablets) : tablets[i] \in Tablet
  BY <1>1 DEF Fits, ListTypeOK
<1>4. /\ DOMAIN tablets' = DOMAIN tablets
      /\ \A i \in DOMAIN tablets : tablets'[i].dev = tablets[i].dev
      /\ \A i \in DOMAIN tablets : tablets'[i].nodes = tablets[i].nodes \cup (IF i = k THEN {n} ELSE {})
  BY <1>1, <1>3 DEF Tablet
<1>5. DbInv' /\ \A m : KindOf(m)' = KindOf(m)
  BY KindStays DEF JoinTablet
<1>6. Listed' = Listed \cup {n} /\ n \notin Listed
  BY <1>2 DEF Listed, JoinTablet
<1>7. tablets[k].dev \in Node /\ probe[tablets[k].dev] # NoDevice
  BY <1>3 DEF KindInv, Listed, Tablet
<1>8. KindOf(n) = KindOf(tablets[k].dev)
  BY <1>1, <1>2, <1>7, AlikeKind DEF Fits
<1>9. ListTypeOK'
  <2>1. tablets' \in Seq(Tablet)
    BY <1>1, <1>3 DEF ListTypeOK, Tablet
  <2> QED
    BY <2>1 DEF ListTypeOK, JoinTablet
<1>10. KindInv'
  BY <1>3, <1>4, <1>5, <1>6, <1>8 DEF KindInv
<1>11. ReadInv'
  <2>1. \A m \in Listed' : \E i \in DOMAIN tablets' : m \in tablets'[i].nodes
    BY <1>2, <1>3, <1>4, <1>6 DEF ReadInv
  <2> QED
    BY <2>1, <1>2 DEF ReadInv, JoinTablet
<1>12. DestroyInv'
  <2>1. Devs' = Devs /\ n \notin Devs
    BY <1>4, <1>6 DEF Devs, KindInv
  <2>2. destroyed[n] = 0
    BY <1>6 DEF DestroyInv
  <2>3. destroyed' = [destroyed EXCEPT ![n] = 1]
    BY <2>2 DEF JoinTablet, ListTypeOK
  <2> QED
    BY <1>6, <2>1, <2>3 DEF DestroyInv, ListTypeOK
<1> QED
  BY <1>5, <1>9, <1>10, <1>11, <1>12

\* A node that no tablet fits is the first of its kind.
LEMMA NewTabletInv ==
  ASSUME ListInv, NEW n \in Node, NewTablet(n) PROVE ListInv'
<1> USE DEF ListInv
<1>1. n \in unread /\ probe[n] # NoDevice /\ pc = "read" /\ Fits(n) = {}
  BY DEF NewTablet
<1> DEFINE k == Len(tablets) + 1
<1>2. /\ Len(tablets) \in Nat /\ DOMAIN tablets = 1..Len(tablets)
      /\ \A i \in 1..Len(tablets) : tablets[i] \in Tablet
  BY DEF ListTypeOK
<1>3. /\ tablets' \in Seq(Tablet) /\ DOMAIN tablets' = 1..k
      /\ \A i \in 1..Len(tablets) : tablets'[i] = tablets[i]
      /\ tablets'[k].dev = n /\ tablets'[k].nodes = {n}
  BY <1>2 DEF NewTablet, ListTypeOK, Tablet
<1>4. DbInv' /\ \A m : KindOf(m)' = KindOf(m)
  BY KindStays DEF NewTablet
<1>5. Listed' = Listed \cup {n} /\ n \notin Listed
  BY <1>1 DEF Listed, NewTablet
<1>6. \A i \in 1..Len(tablets) : KindOf(tablets[i].dev) # KindOf(n)
  <2> SUFFICES ASSUME NEW i \in 1..Len(tablets) PROVE KindOf(tablets[i].dev) # KindOf(n)
    OBVIOUS
  <2>1. tablets[i].dev \in Node /\ probe[tablets[i].dev] # NoDevice
    BY <1>2 DEF KindInv, Listed, Tablet
  <2>2. ~Alike(tablets[i].dev, n)
    BY <1>1, <1>2 DEF Fits
  <2> QED
    BY <1>1, <2>1, <2>2, AlikeKind
<1>7. ListTypeOK'
  BY <1>3 DEF ListTypeOK, NewTablet
<1>8. KindInv'
  <2>1. \A i \in 1..k : i = k \/ i \in 1..Len(tablets)
    BY <1>2
  <2>2. \A i \in DOMAIN tablets' :
          /\ tablets'[i].dev \in tablets'[i].nodes
          /\ tablets'[i].nodes \subseteq Listed'
          /\ \A m \in tablets'[i].nodes : KindOf(m) = KindOf(tablets'[i].dev)
    BY <1>2, <1>3, <1>5, <2>1 DEF KindInv
  <2>3. \A i, j \in DOMAIN tablets' : KindOf(tablets'[i].dev) = KindOf(tablets'[j].dev) => i = j
    BY <1>2, <1>3, <1>6, <2>1 DEF KindInv
  <2> QED
    BY <1>4, <2>2, <2>3 DEF KindInv
<1>9. ReadInv'
  <2>1. \A m \in Listed' : \E i \in DOMAIN tablets' : m \in tablets'[i].nodes
    <3> SUFFICES ASSUME NEW m \in Listed' PROVE \E i \in DOMAIN tablets' : m \in tablets'[i].nodes
      OBVIOUS
    <3>1. CASE m = n
      BY <1>2, <1>3, <3>1
    <3>2. CASE m # n
      <4>1. PICK i \in DOMAIN tablets : m \in tablets[i].nodes
        BY <1>1, <1>5, <3>2 DEF ReadInv
      <4> QED
        BY <1>2, <1>3, <4>1
    <3> QED
      BY <3>1, <3>2
  <2> QED
    BY <2>1, <1>1 DEF ReadInv, NewTablet
<1>10. DestroyInv'
  <2>1. Devs' = Devs \cup {n}
    <3>1. \A i \in 1..k : i = k \/ i \in 1..Len(tablets)
      BY <1>2
    <3>2. 1..Len(tablets) \subseteq 1..k /\ k \in 1..k
      BY <1>2
    <3> QED
      BY <1>2, <1>3, <3>1, <3>2 DEF Devs
  <2>2. destroyed' = destroyed
    BY DEF NewTablet
  <2> QED
    BY <1>5, <2>1, <2>2 DEF DestroyInv
<1> QED
  BY <1>4, <1>7, <1>8, <1>9, <1>10

\* Freeing the first tablet destroys the copy it has, and no other.
LEMMA FreeTabletInv ==
  ASSUME ListInv, FreeTablet PROVE ListInv'
<1> USE DEF ListInv
<1>1. pc = "free" /\ tablets # <<>> /\ unread = {}
  BY DEF FreeTablet, ReadInv
<1>2. /\ Len(tablets) \in Nat \ {0} /\ DOMAIN tablets = 1..Len(tablets)
      /\ \A i \in 1..Len(tablets) : tablets[i] \in Tablet
  BY <1>1 DEF ListTypeOK
<1>3. /\ tablets' \in Seq(Tablet) /\ DOMAIN tablets' = 1..(Len(tablets) - 1)
      /\ \A i \in 1..(Len(tablets) - 1) : tablets'[i] = tablets[i + 1]
  BY <1>1, <1>2 DEF FreeTablet, ListTypeOK
<1>4. DbInv' /\ \A m : KindOf(m)' = KindOf(m)
  BY KindStays DEF FreeTablet
<1>5. Listed' = Listed
  BY DEF Listed, FreeTablet
<1> DEFINE h == tablets[1].dev
<1>6. Head(tablets).dev = h /\ h \in Node /\ h \in Listed
  BY <1>1, <1>2 DEF Tablet, KindInv, Listed
<1>7. Devs' = Devs \ {h}
  <2>1. \A i \in 1..(Len(tablets) - 1) : i + 1 \in 1..Len(tablets) /\ i + 1 # 1
    BY <1>2
  <2>2. \A i \in 1..Len(tablets) : i = 1 \/ (i - 1 \in 1..(Len(tablets) - 1) /\ (i - 1) + 1 = i)
    BY <1>2
  <2>3. \A i \in 1..Len(tablets) : tablets[i].dev = h => i = 1
    BY <1>2 DEF KindInv
  <2>4. Devs' \subseteq Devs \ {h}
    <3> SUFFICES ASSUME NEW i \in 1..(Len(tablets) - 1) PROVE tablets'[i].dev \in Devs \ {h}
      BY <1>3 DEF Devs
    <3>1. tablets'[i] = tablets[i + 1] /\ i + 1 \in 1..Len(tablets) /\ i + 1 # 1
      BY <1>3, <2>1
    <3>2. tablets[i + 1].dev # h
      BY <2>3, <3>1
    <3> QED
      BY <1>2, <3>1, <3>2 DEF Devs
  <2>5. Devs \ {h} \subseteq Devs'
    <3> SUFFICES ASSUME NEW i \in 1..Len(tablets), tablets[i].dev # h PROVE tablets[i].dev \in Devs'
      BY <1>2 DEF Devs
    <3>1. i - 1 \in 1..(Len(tablets) - 1) /\ tablets'[i - 1] = tablets[i]
      BY <1>3, <2>2
    <3> QED
      BY <1>3, <3>1 DEF Devs
  <2> QED
    BY <2>4, <2>5
<1>8. h \in Devs
  BY <1>2 DEF Devs
<1>9. destroyed[h] = 0
  BY <1>6, <1>8 DEF DestroyInv
<1>10. destroyed' = [destroyed EXCEPT ![h] = 1]
  <2>1. destroyed' = [destroyed EXCEPT ![Head(tablets).dev] = destroyed[Head(tablets).dev] + 1]
    BY DEF FreeTablet
  <2>2. destroyed[Head(tablets).dev] + 1 = 1
    BY <1>6, <1>9
  <2> QED
    BY <1>6, <2>1, <2>2
<1>11. ListTypeOK'
  BY <1>3, <1>6, <1>10 DEF ListTypeOK, FreeTablet
<1>12. KindInv'
  <2>1. \A i \in 1..(Len(tablets) - 1) : i + 1 \in DOMAIN tablets
    BY <1>2
  <2>2. \A i, j \in 1..(Len(tablets) - 1) : i + 1 = j + 1 => i = j
    BY <1>2
  <2> QED
    BY <1>3, <1>4, <1>5, <2>1, <2>2 DEF KindInv
<1>13. ReadInv'
  BY <1>1 DEF ReadInv, FreeTablet
<1>14. DestroyInv'
  BY <1>5, <1>6, <1>7, <1>10 DEF DestroyInv, ListTypeOK
<1> QED
  BY <1>4, <1>11, <1>12, <1>13, <1>14

\* Every step keeps the invariant.
LEMMA ListNextInv == ListInv /\ [ListNext]_listVars => ListInv'
<1> SUFFICES ASSUME ListInv, [ListNext]_listVars PROVE ListInv'
  OBVIOUS
<1>1. ASSUME UNCHANGED <<db, probe, unread, tablets, destroyed>>,
             \/ pc' = pc
             \/ pc' = "free" /\ unread = {}
             \/ pc' = "done" /\ tablets = <<>> /\ pc = "free"
      PROVE  ListInv'
  <2>1. Listed' = Listed /\ Devs' = Devs
    BY <1>1 DEF Listed, Devs
  <2>2. DbInv' /\ \A m : KindOf(m)' = KindOf(m)
    BY <1>1, KindStays DEF ListInv
  <2>3. ListTypeOK' /\ ReadInv' /\ DestroyInv'
    BY <1>1, <2>1 DEF ListInv, ListTypeOK, ReadInv, DestroyInv
  <2>4. KindInv'
    BY <1>1, <2>1, <2>2 DEF ListInv, KindInv
  <2> QED
    BY <2>2, <2>3, <2>4 DEF ListInv
<1>2. CASE UNCHANGED listVars
  BY <1>1, <1>2 DEF listVars
<1>3. CASE PrintTablets
  BY <1>1, <1>3 DEF PrintTablets
<1>4. CASE ListEnd
  BY <1>1, <1>4 DEF ListEnd
<1>5. CASE FreeTablet
  BY <1>5, FreeTabletInv
<1>6. CASE \E n \in Node : SkipNode(n) \/ JoinTablet(n) \/ NewTablet(n)
  BY <1>6, SkipNodeInv, JoinTabletInv, NewTabletInv
<1> QED
  BY <1>2, <1>3, <1>4, <1>5, <1>6 DEF ListNext

\* The list is kept as the invariant says throughout.
LEMMA ListInvariance == ListSpec => []ListInv
<1>1. ListInit => ListInv
  BY ListInitInv
<1>2. ListInv /\ [ListNext]_listVars => ListInv'
  BY ListNextInv
<1> QED
  BY <1>1, <1>2, PTL DEF ListSpec

-----------------------------------------------------------------------------
\* libwacom-list-local-devices lists each event node once, and two together if and only
\* if their devices compare as the same, in any order of readdir.
THEOREM GroupsTheorem == ListSpec => []GroupsAreClasses
<1>1. ListInv => GroupsAreClasses
  <2> SUFFICES ASSUME ListInv, pc = "read" PROVE GroupsAreClasses
    BY DEF GroupsAreClasses
  <2> USE DEF ListInv
  <2>1. Listed \subseteq Node /\ \A n \in Listed : probe[n] # NoDevice
    BY DEF Listed
  <2>2. \A i, j \in DOMAIN tablets : \A n \in tablets[i].nodes :
          KindOf(n) = KindOf(tablets[j].dev) => i = j
    BY DEF KindInv
  <2>3. \A n \in Listed : \E i \in DOMAIN tablets :
          \A j \in DOMAIN tablets : n \in tablets[j].nodes <=> j = i
    BY <2>2 DEF KindInv, ReadInv
  <2>4. ASSUME NEW n \in Listed, NEW m \in Listed
        PROVE  Together(n, m) <=> KindOf(n) = KindOf(m)
    <3>1. ASSUME Together(n, m) PROVE KindOf(n) = KindOf(m)
      BY <3>1 DEF Together, KindInv
    <3>2. ASSUME KindOf(n) = KindOf(m) PROVE Together(n, m)
      <4>1. PICK i \in DOMAIN tablets : n \in tablets[i].nodes
        BY DEF ReadInv
      <4>2. PICK j \in DOMAIN tablets : m \in tablets[j].nodes
        BY DEF ReadInv
      <4>3. i = j
        BY <3>2, <4>1, <4>2, <2>2 DEF KindInv
      <4> QED
        BY <4>1, <4>2, <4>3 DEF Together
    <3> QED
      BY <3>1, <3>2
  <2>5. \A n, m \in Listed : Together(n, m) <=> Alike(n, m)
    BY <2>1, <2>4, AlikeKind
  <2>6. \A i \in DOMAIN tablets : tablets[i].nodes \subseteq Listed
    BY DEF KindInv
  <2> QED
    BY <2>3, <2>5, <2>6 DEF GroupsAreClasses
<1> QED
  BY <1>1, ListInvariance, PTL

\* Two tablets of the database are never listed as one.
THEOREM ApartTheorem == ListSpec => []TabletsApart
<1>1. ListInv => TabletsApart
  <2> SUFFICES ASSUME ListInv, NEW i \in DOMAIN tablets, NEW n \in tablets[i].nodes,
                      NEW m \in tablets[i].nodes
               PROVE  probe[n].of = probe[m].of
    BY DEF TabletsApart
  <2>1. KindOf(n) = KindOf(m)
    BY DEF ListInv, KindInv
  <2> QED
    BY <2>1 DEF KindOf
<1> QED
  BY <1>1, ListInvariance, PTL

\* The tool destroys every copy it was given once.
THEOREM DestroyedTheorem == ListSpec => []DestroyedOnce
<1>1. ListInv => DestroyedOnce
  <2> SUFFICES ASSUME ListInv PROVE DestroyedOnce
    OBVIOUS
  <2> USE DEF ListInv
  <2>1. \A i \in DOMAIN tablets : tablets[i].dev \in Node /\ tablets[i].dev \in Devs
    BY DEF KindInv, Listed, Devs
  <2>2. \A i \in DOMAIN tablets : destroyed[tablets[i].dev] = 0
    BY <2>1 DEF DestroyInv
  <2>3. ASSUME pc = "done", NEW n \in Node
        PROVE  destroyed[n] = IF probe[n] = NoDevice THEN 0 ELSE 1
    <3>1. Devs = {} /\ unread = {}
      BY <2>3 DEF ReadInv, Devs
    <3> QED
      BY <3>1 DEF DestroyInv, Listed
  <2> QED
    BY <2>2, <2>3 DEF DestroyedOnce
<1> QED
  BY <1>1, ListInvariance, PTL
=============================================================================
