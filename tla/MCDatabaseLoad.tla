--------------------------- MODULE MCDatabaseLoad ---------------------------
(* DatabaseLoad over two directories that hold the same file names: every    *)
(* disk of few stylus files and up to three tablets, and of many stylus      *)
(* files and one tablet.                                                     *)
EXTENDS StylusQueries

CONSTANTS match1, match2, aGroup, stylus1, tablet1

W(t) == [vid |-> WacomVid, tool |-> t]
O(t) == [vid |-> 5, tool |-> t]
N(t) == [vid |-> NoVid, tool |-> t]

Group(i, al, ty, er, gr, p) == [id |-> i, aliasOf |-> al, type |-> ty, eraser |-> er,
                                group |-> gr, paired |-> p]
Base(i, gr, p)  == Group(i, Unset, "General", Unset, gr, p)
Alias(i, a, gr) == Group(i, a, Unset, Unset, gr, Unset)

\* A pair of styli, one of them in a group; an alias in the group; a stylus and,
\* for its id in another spelling, an alias that replaces it.
FewStyli == {
  <<Base(W(1), aGroup, {W(2)}), Base(W(2), Unset, {W(1)})>>,
  <<Alias(W(2), W(1), aGroup)>>,
  <<Base(W(1), Unset, {}), Alias(W(1), W(1), Unset)>>}

\* A stylus, the same id again with other keys and partners of Wacom, others and none,
\* aliases of both, an alias of an alias, one with a bad reference, a group with a bad id,
\* an alias for an id that also has a stylus of its own, generic styli and an alias of one.
ManyStyli == {
  <<Group(O(1), Unset, "Puck", "Unknown", aGroup, {O(2)})>>,
  <<Group(O(1), Unset, "General", Unset, Unset, {W(2), O(2), N(3)}),
    Group(O(2), Unset, Unset, "Invert", aGroup, {O(1)})>>,
  <<Alias(W(2), O(1), Unset), Alias(Bad, O(1), Unset)>>,
  <<Alias(W(2), O(2), aGroup), Base(Bad, Unset, {}), Alias(O(1), Bad, Unset)>>,
  <<Alias(W(1), W(2), Unset)>>,
  <<Alias(O(2), O(1), Unset)>>,
  <<Group(N(3), Unset, Unset, "Unknown", aGroup, {N(3)}), Alias(W(1), N(3), aGroup)>>}

MCStylusFiles == FewStyli \cup ManyStyli
MCMatchArrays == {<<match1>>, <<match1, match2>>}
MCStyliLists  == {{}, {aGroup}, {W(1), W(2)}}

OneFile == \A d \in Dir, n \in StylusFileName \ {stylus1} : GroupAt(d, n) = <<>>
FewOnly == OneFile /\ \A f \in DOMAIN stylusFiles : stylusFiles[f] \in FewStyli \cup {<<>>}
Many    == \A f \in DOMAIN stylusFiles : stylusFiles[f] \in ManyStyli \cup {<<>>}

\* The tablet there is with many stylus files.
OneTablet ==
  LET there(f) == f = <<1, tablet1>> /\ dirStatus[1] = "ok"
  IN  /\ files = {f \in Device : there(f)}
      /\ matches = [f \in Device |-> IF there(f) THEN <<match1>> ELSE <<>>]
      /\ \E list \in MCStyliLists \ {{}} :
           styliLists = [f \in Device |-> IF there(f) THEN list ELSE {}]

\* With few, the first directory has one, the second one that it hides and another.
ThreeTablets == files \in SUBSET {f \in {<<1, tablet1>>} \cup ({2} \X FileName) : dirStatus[f[1]] = "ok"}

MCInit ==
  /\ StylusInit
  /\ (FewOnly /\ ThreeTablets) \/ (Many /\ OneTablet)
  /\ DbInit

MCSpec == MCInit /\ [][DbNext]_dbVars
=============================================================================
