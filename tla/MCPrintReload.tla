--------------------------- MODULE MCPrintReload ---------------------------
(* PrintReload for files that vary one group of keys at a time, and the    *)
(* buttons together.                                                        *)
EXTENDS PrintReload

MCStylus == [id \in {[vid |-> 0, tool |-> EraserFallback], [vid |-> 0, tool |-> StylusFallback],
                     [vid |-> 1386, tool |-> 2050], [vid |-> 1386, tool |-> 2], [vid |-> 1, tool |-> 2]} |->
               IF id.vid = 0 THEN "generic" ELSE IF id.tool = 2 THEN "two" ELSE Null]

NoVals  == [o \in Range(Option) |-> <<>>]
NoModes == [f \in Feature |-> 0]

Base == [name |-> "N", modelName |-> Null, deviceMatch |-> <<<<"usb", 1, 1>>>>, pairedID |-> Null,
         class |-> "Intuos5", width |-> 203, height |-> 127, integratedIn |-> Null, layout |-> Null,
         styli |-> Null, features |-> TRUE, stylus |-> FALSE, touch |-> FALSE, reversible |-> FALSE,
         touchSwitch |-> FALSE, numRings |-> 0, numStrips |-> 0, numDials |-> 0, statusLEDs |-> <<>>,
         vals |-> NoVals, codes |-> Absent, numModes |-> NoModes, keys |-> <<>>]

MatchFiles ==
  {[Base EXCEPT !.deviceMatch = m, !.pairedID = p] :
     m \in {<<Generic>>, <<<<"usb", 1, 1, "A">>, <<"i2c", 1, 2>>>>, <<<<"usb", 1, 1, "", "u">>, <<"usb", 1, 1>>>>,
            <<<<"usb", 1>>>>, <<<<"usb", 1, 1, "A", "u", "x">>, <<"usb", 1, 1, "A", "u">>>>},
     p \in {Null, Generic, <<"usb", 1, 3>>, <<"usb", 1, 3, "B">>, <<"usb">>}}

FieldFiles ==
  {[Base EXCEPT !.width = w, !.height = h, !.modelName = n, !.layout = l] :
     w \in {0, -1, 1, 8, 19, 20, 500}, h \in {5, 203}, n \in {Null, "M"}, l \in {Null, Bad, "svg"}}
  \cup {[Base EXCEPT !.class = c, !.integratedIn = i, !.reversible = r] :
          c \in {Null, "Bogus", "Cintiq"}, r \in BOOLEAN,
          i \in {Null, <<>>, <<"Bogus">>, <<"System", "Display">>, <<"Remote">>}}
  \cup {[Base EXCEPT !.numRings = n, !.numStrips = m, !.numDials = n, !.touch = t, !.touchSwitch = t,
                     !.statusLEDs = leds] :
          n \in {0, 2}, m \in {0, 1}, t \in BOOLEAN,
          leds \in {<<>>, <<"Ring2", "Ring">>, <<"Left", "Dial">>}}

StylusFiles ==
  {[Base EXCEPT !.styli = s, !.stylus = x] :
     s \in {Null, <<>>, <<[tool |-> 2050], [vid |-> 1, tool |-> 2]>>, <<[group |-> "two"], [tool |-> 2]>>,
            <<[tool |-> 9], [group |-> "generic"]>>},
     x \in {Null, TRUE, FALSE}}
  \cup {[Base EXCEPT !.stylus = Null, !.features = FALSE]}

Lists == {<<>>, <<1>>, <<2>>, <<1, 2>>, <<2, 1>>, <<1, 3>>, <<2, Bad, 1>>, <<1, 1>>, <<1, Bad>>}
ButtonFiles ==
  {[Base EXCEPT !.class = c, !.codes = codes, !.keys = k,
                !.vals = [NoVals EXCEPT !["Ring"] = r, !["Strip2"] = s, !["Left"] = p],
                !.numModes = [NoModes EXCEPT !["Ring"] = n, !["Dial"] = n]] :
     c \in {"Intuos5", "Bamboo"}, codes \in {Absent, <<301, 302, 303>>, <<301, Bad, 303>>, <<301>>,
     <<301, 302, 303, 304, 305>>},
     k \in {<<>>, <<21, 22>>}, r \in Lists, s \in {<<>>, <<1>>, <<2, 3>>}, p \in {<<>>, <<1, 2>>, <<1, 2, 3, 4, 5>>},
     n \in {0, 4, -3}}

MCFile == MatchFiles \cup FieldFiles \cup StylusFiles \cup ButtonFiles
=============================================================================
