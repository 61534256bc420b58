---------------------------- MODULE MCDeviceSetup ----------------------------
(* A few devices and plugins for DeviceSetup: every combination of speeds, a *)
(* composite one, one with alternate settings, one whose configurations are  *)
(* not numbered from one, one that is not configured, some with gaps in the  *)
(* numbering of interfaces or settings, with setting 255, with fewer or more *)
(* endpoints than they say, with the longer endpoint descriptors of audio.   *)
EXTENDS DeviceSetup

If(n, a, eps) == [t |-> "if", num |-> n, alt |-> a, eps |-> eps, class |-> "hid"]
Ep(n, in, type, interval) == [t |-> "ep", addr |-> n, in |-> in, type |-> type, interval |-> interval,
                              rest |-> <<>>]
Hid(i) == [t |-> "hid", id |-> i]
Other(i) == [t |-> "other", id |-> i]
Config(v, ifs, ds) ==
    <<[t |-> "config", value |-> v, ifs |-> ifs, total |-> 9 + AllBytes(ds)]>> \o ds

Controller == <<[If(0, 0, 2) EXCEPT !.class = "xbox"], Ep(1, TRUE, "int", 10), Ep(2, FALSE, "int", 2)>>
Keyboard(i) == <<If(0, 0, 1), Hid(1), Ep(1, TRUE, "int", i)>>
Disk == <<If(0, 0, 2), Ep(1, TRUE, "bulk", 0), Ep(1, FALSE, "bulk", 0)>>
\* An interface association first, one between the interfaces, and a descriptor
\* of an endpoint after it.
Composite(i) == <<Other(1), If(0, 0, 1), Hid(1), Ep(1, TRUE, "int", i), Other(2),
                  If(1, 0, 2), Ep(2, TRUE, "bulk", 0), Other(3), Ep(2, FALSE, "bulk", 0)>>
\* Endpoint 1 in two settings, and an isochronous one.
Camera == <<If(0, 0, 1), Ep(1, TRUE, "bulk", 0), If(0, 1, 2), Ep(1, TRUE, "bulk", 0),
            Ep(2, TRUE, "iso", 1), If(1, 0, 1), Ep(3, TRUE, "int", 32)>>
Distant == <<If(0, 0, 2), Ep(13, TRUE, "bulk", 0), Ep(13, FALSE, "bulk", 0)>>
Hole == <<If(0, 1, 1), Ep(1, TRUE, "bulk", 0)>>
\* bNumEndpoints is eps.
Numbering(eps) == [Disk EXCEPT ![1].eps = eps]
Lost == <<If(0, 255, 1), Ep(1, TRUE, "bulk", 0)>>
Microphone == <<If(0, 0, 0), If(1, 0, 1), [Ep(3, TRUE, "iso", 1) EXCEPT !.rest = <<0, 0>>],
                If(1, 1, 1), Ep(2, FALSE, "bulk", 0)>>

Device(full, high, highspeed, set, alternate, languages) ==
    [full |-> full, high |-> high, highspeed |-> highspeed, current |-> set,
     alternates |-> <<alternate>> \o <<0>>, vendor |-> 7, names |-> <<1, 2, 2>>,
     languages |-> languages]
Zero(d) == [d EXCEPT !.alternates = [n \in 0..1 |-> d.alternates[n + 1]]]

MCDevices == {Zero(d) : d \in
    {Device(<<Config(1, 1, Keyboard(i))>>, <<>>, FALSE, 1, 0, <<"en", "de">>) : i \in {255}}
    \cup {Device(<<Config(1, 1, Disk), Config(2, 2, Composite(8))>>, <<>>, FALSE, c, 0, <<"en">>) : c \in {0, 2}}
    \cup {Device(<<Config(1, 2, Composite(10))>>, <<Config(1, 2, Composite(4))>>, h, 1, 0, <<"en">>) : h \in BOOLEAN}
    \cup {Device(<<Config(1, 1, Keyboard(10))>>, <<Config(1, 1, Keyboard(7))>>, h, 1, 0, <<"en">>) : h \in BOOLEAN}
    \cup {Device(<<Config(1, 1, c)>>, <<>>, FALSE, 1, 0, <<"en">>) : c \in {Controller, Distant}}
    \cup {Device(<<Config(1, 2, Disk)>>, <<>>, FALSE, 1, 0, <<"en">>)}
    \cup {Device(<<Config(1, 2, Disk)>>, <<Config(1, 1, Disk)>>, TRUE, 1, 0, <<"en">>)}
    \cup {Device(<<Config(1, 1, Disk)>>, <<Config(1, 1, Disk), Config(2, 1, Distant)>>, TRUE, 2, 0, <<"en">>)}
    \cup {Device(<<>>, <<Config(1, 2, Camera)>>, TRUE, 1, a, <<"en">>) : a \in {0, 1}}
    \cup {Device(<<Config(1, 2, Camera)>>, <<>>, FALSE, 1, a, <<"en">>) : a \in {0, 1}}
    \cup {Device(<<Config(v, 1, Disk)>>, <<>>, FALSE, v, 0, <<"en">>) : v \in {1, 3}}
    \cup {Device(<<Config(1, 1, Hole)>>, <<>>, FALSE, 1, a, <<"en">>) : a \in {0, 1}}
    \cup {Device(<<Config(1, 1, Disk)>>, <<Config(1, 1, Hole)>>, TRUE, 1, 1, <<"en">>)}
    \cup {Device(<<Config(1, 1, c)>>, <<>>, FALSE, 1, 0, <<"en">>) :
             c \in {Numbering(1), Numbering(3), Lost, Lost \o Disk}}
    \cup {Device(<<Config(1, 1, Disk)>>, <<Config(1, 1, Numbering(3))>>, TRUE, 1, 0, <<"en">>)}
    \cup {Device(<<Config(1, 2, Microphone)>>, <<>>, FALSE, 1, 0, <<"en">>)}
    \cup {Device(<<>>, <<Config(1, 2, Microphone)>>, TRUE, 1, 0, <<"en">>)}}

MCMarks == {{"filter", "filter_out"}, {"filter_in", "transmit_out"}}

\* Two plugins a user might write.
MCCustom ==
    ("Injector_Mine" :> [Injector EXCEPT !.name = "Injector_Mine", !.vendor = 7, !.interface = 0,
                                         !.side = "in", !.source = "9999"]) @@
    ("PacketFilter_Mine" :> [PacketFilter EXCEPT !.name = "PacketFilter_Mine", !.vendor = 7,
                                !.configuration = 1, !.interface = 1, !.packets = TRUE, !.setups = TRUE])

O(flag, arg) == [flag |-> flag, arg |-> arg]
MCOptions ==
    {<<>>, <<O("v", "0001"), O("z", ""), O("P", "PacketFilter_Mine"), O("P", "Injector_Mine"), O("x", "")>>,
     <<O("l", ""), O("k", ""), O("i", ""), O("m", "")>>,
     <<O("C", << <<"Injector_UDPHID::port", "9999">>, <<"HostProxy", "none">> >>), O("x", ""),
       O("P", "Injector_Mine"), O("w", "usb.pcap"), O("P", "none"), O("l", "")>>,
     <<O("P", "PacketFilter_Power"), O("P", "PacketFilter_Callback")>>, <<O("P", "PacketFilter_StreamLog")>>,
     <<O("C", << <<"Injector_UDP::Port", "usb">> >>), O("P", "Injector_UDP")>>,
     <<O("C", << <<"Injector_UDPHID::port", "usb">> >>), O("P", "Injector_UDPHID")>>, <<O("v", "disk")>>,
     <<O("P", "PacketFilter_PcapLogger")>>, <<O("c", "host"), O("n", "10")>>, <<O("s", ""), O("d", "")>>,
     <<O("D", "none")>>, <<O("H", "HostProxy_TCP")>>}
=============================================================================
