--------------------------- MODULE MCDeviceProbe ---------------------------
(* Lookup for builders with and without each field, and DeviceProbe on an     *)
(* event node, its input device and the bus device above it, in databases of *)
(* two devices.                                                              *)
EXTENDS DeviceProbe

A == <<"A">>
U == <<"u">>
E == <<"">>
M == <<"v_m">>   \* the firmware name v_m_1 without its version

MCPiece == {"", "A", "B", "u", "v", "v_m", "v_m_1"}

File(n, ms) == [name |-> n, deviceMatch |-> ms]

\* Every way to print one pair of ids, alone and beside another match, a file
\* whose strings do not parse, and the generic device.
MCDeviceFile ==
  LET String == {<<"usb", 1, 1>>, <<"usb", 1, 1, "">>, <<"usb", 1, 1, "A">>,
                 <<"usb", 1, 1, "", "u">>, <<"usb", 1, 1, "A", "u">>,
                 <<"i2c", 1, 1>>, <<"i2c", 1, 1, "A", "u">>, <<"serial", 1, 1>>, <<"usb", 0, 1>>,
                 <<"bluetooth", 1, 1, "A", "u", "v">>}
  IN  {File(A, <<<<"usb", 2, 1>>, s>>) : s \in String}
        \cup {File(U, <<s, <<"usb", 1, 1, "", "u">>>>) : s \in String}
        \cup {File(U, <<<<"pci", 1, 1>>, <<"usb", 65536, 1>>>>), File(A, <<Generic>>)}

MCBuilder ==
  [deviceName : {Null, A}, matchName : {Null, E, A, <<"A", "u">>}, uniq : {Null, U},
   vid : {0, 1}, pid : {1}, bus : {"unknown", "usb", "i2c", "serial"}]
    \cup [deviceName : {Null, A}, matchName : {Null}, uniq : {Null, U},
          vid : {0}, pid : {0}, bus : {"unknown"}]

MCProbedFile ==
  {[name |-> A, deviceMatch |-> ms] :
     ms \in {<<<<"usb", 1, 1>>>>, <<<<"usb", 1, 1, "A">>, <<"usb", 1, 1, "", "v_m">>>>,
             <<<<"serial", 0, 0, "A">>>>, <<<<"i2c", 1, 1>>, <<"bluetooth", 1, 1, "A">>>>,
             <<Generic>>}}

Plainly == [tablet |-> FALSE, touchpad |-> FALSE, uinput |-> FALSE, uinputBus |-> Null,
            product |-> Null, name |-> Null, uniq |-> Null, subsystem |-> "input", props |-> Null]

EventNode(tag, props) == [Plainly EXCEPT !.tablet = tag = "tablet", !.touchpad = tag = "touchpad",
                                         !.props = props]
InputNode(name, uniq, product) == [Plainly EXCEPT !.name = name, !.uniq = uniq, !.product = product]

Usb == [Plainly EXCEPT !.subsystem = "usb"]

\* The bus device, or a uinput device.
BusNode ==
  {[Plainly EXCEPT !.subsystem = s, !.product = p] :
     s \in {"usb", "serio"},
     p \in {Null, <<24, 1, 1, 0>>, <<5, 1, 1, 0>>, <<0, 1, 1, 0>>, <<17, 1, 1, 0>>, <<3, 65536, 1, 0>>,
            <<-1, 1, 1, 0>>}}
    \cup {[Plainly EXCEPT !.uinput = TRUE, !.uinputBus = b] : b \in {Null, "serial", "usb"}}

\* PRODUCT on the input device, above it, on both, on none; tags and kernel flags; names
\* and uniqs.
MCChain ==
  {<<EventNode(t, Null), InputNode(A, Null, p), b>> :
     t \in {"tablet", "touchpad"}, p \in {Null, <<3, 1, 1, 256>>, <<3, 1>>}, b \in BusNode}
  \cup {<<EventNode(t, Null), InputNode(A, Null, Null)>> : t \in {"tablet", "touchpad"}}
  \cup {<<EventNode(t, p), [InputNode(A, Null, <<3, 1, 1, 256>>) EXCEPT !.tablet = above], Usb>> :
          t \in {"none", "tablet"}, p \in {Null, {"DIRECT"}, {"DIRECT", "POINTER"}}, above \in BOOLEAN}
  \cup {<<EventNode("tablet", Null), InputNode(n, u, <<3, 1, 1, 256>>), Usb>> :
          n \in {Null, A, <<"B">>},
          u \in {Null, [text |-> <<"">>, stem |-> <<"">>], [text |-> M, stem |-> M],
                 [text |-> <<"v_m_1">>, stem |-> M]}}
=============================================================================
