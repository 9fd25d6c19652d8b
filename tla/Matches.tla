------------------------------ MODULE Matches ------------------------------
(***************************************************************************)
(* Match strings: how a match is printed (make_match_string), read from a   *)
(* DeviceMatch key (match_from_string, libwacom_match_from_string), built    *)
(* (libwacom_match_new) and collected without repetition                    *)
(* (libwacom_add_match).                                                    *)
(*                                                                          *)
(* A text is the sequence of its pieces between '|' characters, so that     *)
(* printing one field after another with '|' between them is concatenation: *)
(* <<"A">> is the name A, <<"A", "x">> the name A|x, <<"">> the empty name. *)
(* Ids are numbers: %04x and the hexadecimal parser are inverses on them.   *)
(***************************************************************************)
EXTENDS Integers, Sequences, SequencesExt

CONSTANT Null  \* the NULL pointer

Bus   == {"usb", "serial", "bluetooth", "i2c"}
MaxId == 65535

Generic == <<"generic">>

PiecesIf(text) == IF text = Null THEN <<>> ELSE text

NamePieces(name, uniq) == IF name = Null /\ uniq # Null THEN <<"">> ELSE PiecesIf(name)

MakeMatchString(name, uniq, bus, vid, pid) ==
  <<bus, vid, pid>> \o NamePieces(name, uniq) \o PiecesIf(uniq)

MatchNew(name, uniq, bus, vid, pid) ==
  [name |-> name, uniq |-> uniq, bus |-> bus, vid |-> vid, pid |-> pid,
   match |-> IF name = Null /\ bus = "unknown" /\ vid = 0 /\ pid = 0
             THEN Generic
             ELSE MakeMatchString(name, uniq, bus, vid, pid)]

IsMatchString(s) ==
  \/ s = Generic
  \/ Len(s) >= 3 /\ s[1] \in Bus /\ s[2] \in 0..MaxId /\ s[3] \in 0..MaxId

\* A sixth piece and those after it are dropped.
PieceOf(s, i) == IF Len(s) >= i THEN <<s[i]>> ELSE Null

MatchFromString(s) ==
  IF s = Generic THEN MatchNew(Null, Null, "unknown", 0, 0)
  ELSE MatchNew(PieceOf(s, 4), PieceOf(s, 5), s[1], s[2], s[3])

AddEveryMatch(ms, m) == Append(ms, m)

AddMatch(ms, m) ==
  IF \E i \in DOMAIN ms : ms[i].match = m.match THEN ms ELSE Append(ms, m)

\* The matches array of a file with these DeviceMatch strings: those that do not
\* parse are skipped, and so are repetitions.
ParseMatches(strings) ==
  FoldLeft(LAMBDA ms, s : IF IsMatchString(s) THEN AddMatch(ms, MatchFromString(s)) ELSE ms,
           <<>>, strings)
=============================================================================
