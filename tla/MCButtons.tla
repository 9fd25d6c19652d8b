----------------------------- MODULE MCButtons -----------------------------
(* Buttons for files with up to three buttons and two mode switches.        *)
EXTENDS Buttons

Lists  == {<<>>, <<1>>, <<1, 2>>, <<2, 3, 1>>, <<2, Bad, 3>>, <<1, 1>>, <<3, Bad>>}
Codes  == {Absent, <<>>, <<11, 12>>, <<11, 12, 13>>, <<11, Bad, 13>>, <<11, 12, 13, 14>>}
KeySeq == {<<>>, <<21, 22>>, <<21, Bad>>, <<21, 22, 23>>}

MCVals(r, s, d, p) ==
  [o \in {"Left", "Right", "Top", "Bottom", "Ring", "Ring2", "Strip", "Strip2",
          "OLEDs", "Dial", "Dial2"} |->
     CASE o = "Ring" -> r [] o = "Dial" -> d [] o = "Strip" -> s [] o = "Left" -> p
       [] OTHER -> <<>>]

MCButtonFile ==
  {[vals |-> MCVals(r, <<>>, d, p), codes |-> c, small |-> small, keys |-> k,
    numModes |-> [f \in {"Ring", "Ring2", "Strip", "Dial", "Dial2"} |->
                    IF f = "Dial" THEN 4 ELSE IF f = "Ring2" THEN -1 ELSE 0]] :
     r \in Lists, d \in Lists, p \in {<<>>, <<1, 2, 3>>}, c \in Codes, small \in BOOLEAN,
     k \in KeySeq}
=============================================================================
