------------------------------ MODULE ListLocal ------------------------------
(***************************************************************************)
(* libwacom-list-local-devices (tools/list-local-devices.c): each event node *)
(* in /dev/input, in the order of readdir, is probed                         *)
(* (libwacom_new_from_path) and put with the first tablet of the list that   *)
(* libwacom_compare finds the same, or becomes a tablet of its own; then the  *)
(* list is printed and freed.                                                 *)
(*                                                                          *)
(* A probe is the device of the database it found, by which of its matches, *)
(* and the integration flags the kernel has for the node.                   *)
(***************************************************************************)
EXTENDS TabletFile

CONSTANTS
  Node,       \* event nodes
  Slot,       \* one for each device of the database
  File,       \* the .tablet files
  KernelFlags,
  NoDevice

VARIABLES
  db,         \* the devices
  probe,      \* what each node is probed to
  pc,
  unread,     \* the nodes readdir has still to return
  tablets,    \* tabletlist: the node whose copy is dev, and the nodes
  destroyed   \* how often the copy of each node was destroyed
listVars == <<db, probe, pc, unread, tablets, destroyed>>

Strings(d) == {d.matches[i].match : i \in DOMAIN d.matches}

\* A database that loads has no match string twice.
LoadedFrom(devices) ==
  {d \in [Slot -> devices] : \A s, t \in Slot : s # t => Strings(d[s]) \cap Strings(d[t]) = {}}

Probe(s) == [of : {s}, match : Range(db[s].matches), kernel : KernelFlags]
Found    == UNION {Probe(s) : s \in Slot}

ListInit ==
  /\ db \in LoadedFrom({Parse(f) : f \in {g \in File : HasDevice(g) /\ ~FileAborts(g)}})
  /\ probe \in [Node -> Found \cup {NoDevice}]
  /\ pc = "read"
  /\ unread = Node
  /\ tablets = <<>>
  /\ destroyed = [n \in Node |-> 0]

\* The copy libwacom_new_from_path returns for a node.
CopyFor(n) ==
  LET p == probe[n]
  IN  [db[p.of] EXCEPT !.match = p.match,
                       !.integration = IF @ = Null THEN p.kernel ELSE @]

\* tablet_compare
Alike(n, m) == Same(CopyFor(n), CopyFor(m), TRUE)

Fits(n) == {i \in DOMAIN tablets : Alike(tablets[i].dev, n)}

SkipNode(n) ==
  /\ pc = "read" /\ n \in unread /\ probe[n] = NoDevice
  /\ unread' = unread \ {n}
  /\ UNCHANGED <<db, probe, pc, tablets, destroyed>>

JoinAndKeep(n) ==
  /\ pc = "read" /\ n \in unread /\ probe[n] # NoDevice
  /\ \E i \in Fits(n) :
       /\ \A j \in Fits(n) : i <= j
       /\ tablets' = [tablets EXCEPT ![i].nodes = @ \cup {n}]
  /\ unread' = unread \ {n}
  /\ UNCHANGED <<db, probe, pc, destroyed>>

\* The first tablet that fits gets the node, and the copy is not needed.
JoinTablet(n) ==
  /\ pc = "read" /\ n \in unread /\ probe[n] # NoDevice
  /\ \E i \in Fits(n) :
       /\ \A j \in Fits(n) : i <= j
       /\ tablets' = [tablets EXCEPT ![i].nodes = @ \cup {n}]
  /\ destroyed' = [destroyed EXCEPT ![n] = @ + 1]
  /\ unread' = unread \ {n}
  /\ UNCHANGED <<db, probe, pc>>

NewTablet(n) ==
  /\ pc = "read" /\ n \in unread /\ probe[n] # NoDevice /\ Fits(n) = {}
  /\ tablets' = Append(tablets, [dev |-> n, nodes |-> {n}])
  /\ unread' = unread \ {n}
  /\ UNCHANGED <<db, probe, pc, destroyed>>

PrintTablets ==
  /\ pc = "read" /\ unread = {}
  /\ pc' = "free"
  /\ UNCHANGED <<db, probe, unread, tablets, destroyed>>

\* tablet_destroy
FreeTablet ==
  /\ pc = "free" /\ tablets # <<>>
  /\ destroyed' = [destroyed EXCEPT ![Head(tablets).dev] = @ + 1]
  /\ tablets' = Tail(tablets)
  /\ UNCHANGED <<db, probe, pc, unread>>

ListEnd ==
  /\ pc = "free" /\ tablets = <<>>
  /\ pc' = "done"
  /\ UNCHANGED <<db, probe, unread, tablets, destroyed>>

ListNext == \/ \E n \in Node : SkipNode(n) \/ JoinTablet(n) \/ NewTablet(n)
            \/ PrintTablets \/ FreeTablet \/ ListEnd

ListSpec == ListInit /\ [][ListNext]_listVars

-----------------------------------------------------------------------------
Listed == {n \in Node \ unread : probe[n] # NoDevice}

Together(n, m) == \E i \in DOMAIN tablets : {n, m} \subseteq tablets[i].nodes

\* Each node with a device is listed once, and two of them together if and only if
\* their devices compare as the same, whichever is compared with which: the list does
\* not depend on the order of readdir.
GroupsAreClasses ==
  pc = "read" =>
    /\ \A n \in Listed : \E i \in DOMAIN tablets :
         \A j \in DOMAIN tablets : n \in tablets[j].nodes <=> j = i
    /\ \A i \in DOMAIN tablets : tablets[i].nodes \subseteq Listed
    /\ \A n, m \in Listed : Together(n, m) <=> Alike(n, m)

\* Two tablets of the database are never listed as one, however alike their files.
TabletsApart ==
  \A i \in DOMAIN tablets : \A n, m \in tablets[i].nodes : probe[n].of = probe[m].of

\* Each copy is destroyed once, the one a tablet of the list has when the list is freed.
DestroyedOnce ==
  /\ \A i \in DOMAIN tablets : destroyed[tablets[i].dev] = 0
  /\ pc = "done" => \A n \in Node : destroyed[n] = IF probe[n] = NoDevice THEN 0 ELSE 1

\* Only one device is listed of several that are the same, with all event nodes of all
\* of them (libwacom-list-local-devices.man): those found by one match of one device.
OneOfAKind ==
  pc = "read" => \A n, m \in Listed :
    probe[n].of = probe[m].of /\ probe[n].match = probe[m].match => Together(n, m)
=============================================================================
