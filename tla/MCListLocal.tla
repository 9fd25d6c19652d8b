----------------------------- MODULE MCListLocal -----------------------------
(* ListLocal with two tablets whose files differ in little but the match,   *)
(* one of them on two busses.                                                *)
EXTENDS ListLocal

MCFile ==
  {[name |-> "N", modelName |-> Null, deviceMatch |-> m, pairedID |-> Null,
    class |-> Null, width |-> 203, height |-> 127, integratedIn |-> i, layout |-> Null,
    styli |-> Null, features |-> TRUE, stylus |-> Null, touch |-> FALSE, reversible |-> FALSE,
    touchSwitch |-> FALSE, numRings |-> 0, numStrips |-> 0, numDials |-> 0, statusLEDs |-> <<>>,
    vals |-> [o \in Range(Option) |-> <<>>], codes |-> Absent, numModes |-> [f \in Feature |-> 0],
    keys |-> <<>>] :
     m \in {<<<<"usb", 1, 1>>, <<"bluetooth", 1, 1>>>>, <<<<"usb", 1, 2>>>>}, i \in {Null, <<>>}}
MCStylus == [id \in {[vid |-> 0, tool |-> EraserFallback], [vid |-> 0, tool |-> StylusFallback]} |-> Null]
MCFlags == {Null, {}, {"Display"}}
=============================================================================
