------------------------------- MODULE Plugins -------------------------------
(***************************************************************************)
(* From the command line to the plugins: usb-mitm's options, the            *)
(* ConfigParser they are put into, and what the constructors of the filters *)
(* and injectors make of it.  Pure operators.                               *)
(*                                                                          *)
(* An option is a record [flag, arg]; the argument of -C, a file, is the    *)
(* sequence of its lines that have a '=', as pairs of key and value.        *)
(*                                                                          *)
(* A plugin is a record:                                                    *)
(*   name, type        its library and its plugin_type                      *)
(*   vendor, configuration, interface, class   its criteria, values or     *)
(*                     Anything                                            *)
(*   side              its criterion for endpoints: Anything, "in" or "out" *)
(*   packets, setups   it overrides filter_packet, filter_setup_packet of   *)
(*                     PacketFilter, and does something there               *)
(*   header            only packets that begin like a report of UDPHID      *)
(*   source            what wakes its injector: a UDP port or "pipe"        *)
(*   fails             its constructor ends the process                     *)
(*   sound             its constructor has set what its other operations use *)
(*   writes            the requests to whose answer it writes on their way   *)
(*                     out, when there is none yet                          *)
(***************************************************************************)
EXTENDS Integers, Sequences, SequencesExt, TLC

CONSTANTS Anything, \* no criterion
          Custom,   \* libraries of the user's own: their names -> plugins
          Decimal, Hexadecimal \* the options' arguments that are numbers for std::stoi

\* Arguments that are the same number are spelt the same way.
ASSUME NumbersAssumption == {"12345", "50"} \subseteq Decimal /\ "" \notin Decimal \cup Hexadecimal

ProxyLibraries == {"DeviceProxy_LibUSB", "DeviceProxy_TCP", "HostProxy_GadgetFS", "HostProxy_TCP"}
------------------------------------------------------------------------------
(* ConfigParser.  Of its vectors there is one, "Plugins".                   *)

Set(cfg, key, value) == [cfg EXCEPT !.strings = (key :> value) @@ @]
Get(cfg, key) == IF key \in DOMAIN cfg.strings THEN cfg.strings[key] ELSE ""

AddToVector(cfg, value) == [cfg EXCEPT !.plugins = Append(@, value)]

AddPointer(cfg, key) == [cfg EXCEPT !.pointers = @ \cup {key}]
HasPointer(cfg, key) == key \in cfg.pointers

ParseFile(cfg, lines) == FoldLeft(LAMBDA c, line : Set(c, line[1], line[2]), cfg, lines)
------------------------------------------------------------------------------
(* main of usb-mitm.                                                        *)

\* The options that only set a string.
StringOf == [v |-> "vendorId", p |-> "productId", D |-> "DeviceProxy",
             H |-> "HostProxy", n |-> "DeviceProxy::nice"]

Option(cfg, o) ==
    CASE o.flag \in DOMAIN StringOf -> Set(cfg, StringOf[o.flag], o.arg)
      [] o.flag = "C" -> ParseFile(cfg, o.arg)
      [] o.flag = "P" -> AddToVector(cfg, o.arg)
      [] o.flag = "l" -> AddPointer(AddToVector(cfg, "PacketFilter_StreamLog"),
                                    "PacketFilter_StreamLog::file")
      [] o.flag = "m" -> AddToVector(cfg, "PacketFilter_MassStorage")
      [] o.flag = "i" -> Set(AddToVector(cfg, "Injector_UDP"), "Injector_UDP::Port", "12345")
      [] o.flag = "k" -> AddToVector(AddPointer(AddToVector(cfg, "PacketFilter_KeyLogger"),
                                                "PacketFilter_KeyLogger::file"),
                                     "PacketFilter_ROT13")
      [] o.flag = "w" -> Set(AddToVector(cfg, "PacketFilter_PcapLogger"),
                             "PacketFilter_PcapLogger::Filename", o.arg)
      [] o.flag = "x" -> AddToVector(Set(AddToVector(cfg, "Injector_UDPHID"),
                                         "Injector_UDP::port", "12345"),
                                     "PacketFilter_UDPHID")
      [] o.flag = "z" -> AddToVector(cfg, "PacketFilter_ZeroMQ")
      [] o.flag \in {"s", "c", "d"} -> cfg

\* The proxies are decided last: client and server mode overrule -D and -H, which
\* overrule the default, which overrules the file of -C.
Proxies(cfg, options) ==
    LET given(f) == \E i \in DOMAIN options : options[i].flag = f
        both(c, d, h) == Set(Set(c, "DeviceProxy", d), "HostProxy", h)
    IN IF given("c") THEN both(cfg, "DeviceProxy_LibUSB", "HostProxy_TCP")
       ELSE IF given("s") THEN both(cfg, "DeviceProxy_TCP", "HostProxy_GadgetFS")
       ELSE both(cfg, IF given("D") THEN Get(cfg, "DeviceProxy") ELSE "DeviceProxy_LibUSB",
                      IF given("H") THEN Get(cfg, "HostProxy") ELSE "HostProxy_GadgetFS")

NewConfig == Set([strings |-> <<>>, plugins |-> <<>>, pointers |-> {}],
                 "DeviceProxy::nice", "50")

Configured(options) == Proxies(FoldLeft(Option, NewConfig, options), options)
------------------------------------------------------------------------------
(* The plugins.  The relays call filter_packet with two arguments; one that  *)
(* takes the packet only does not override it, and is never called.         *)

PacketFilter ==
    [name |-> "PacketFilter", type |-> "filter", packets |-> FALSE, setups |-> FALSE,
     header |-> FALSE, source |-> Anything, fails |-> FALSE, sound |-> TRUE, writes |-> {},
     vendor |-> Anything, configuration |-> Anything, interface |-> Anything,
     class |-> Anything, side |-> Anything]

Injector == [PacketFilter EXCEPT !.name = "Injector", !.type = "injector"]

StreamLog(cfg) == [PacketFilter EXCEPT !.name = "PacketFilter_StreamLog",
                     !.packets = TRUE, !.setups = TRUE,
                     !.sound = HasPointer(cfg, "PacketFilter_StreamLog::file")]

ROT13 == [PacketFilter EXCEPT !.name = "PacketFilter_ROT13"]

\* Its filter_packet would need the file; it is not called.
KeyLogger == [PacketFilter EXCEPT !.name = "PacketFilter_KeyLogger"]

ZeroMQ == [PacketFilter EXCEPT !.name = "PacketFilter_ZeroMQ", !.packets = TRUE]

\* What the plugins tell apart of requests: those to the device, those for its
\* answer, and of these one for a descriptor of type 0, index 2.
Requests == {"write", "read", "two"}

\* It looks for the last (a configuration has type 2), and on the way out, where the
\* answer is still a null pointer.
Power == [PacketFilter EXCEPT !.name = "PacketFilter_Power", !.setups = TRUE, !.writes = {"two"}]

\* Its callbacks come by pointers of the configuration, which no option sets.
Callback == [PacketFilter EXCEPT !.name = "PacketFilter_Callback"]

\* A file that cannot be opened is given to libpcap all the same: here, one without
\* a name.
PcapLogger(cfg) == [PacketFilter EXCEPT !.name = "PacketFilter_PcapLogger",
                      !.packets = TRUE, !.setups = TRUE,
                      !.fails = Get(cfg, "PacketFilter_PcapLogger::Filename") = ""]

\* Its injector waits on a pipe that only its own filter_packet writes to.
MassStorage == [PacketFilter EXCEPT !.name = "PacketFilter_MassStorage", !.type = "both",
                  !.source = "pipe"]

\* It remembers the address of the injector's report, whatever the pointer is.
UDPHIDFilter == [PacketFilter EXCEPT !.name = "PacketFilter_UDPHID",
                   !.class = "xbox", !.side = "in", !.header = TRUE]

\* The constructors of the UDP injectors give std::stoi the port, which throws if it
\* is no number.  Without one they return at once: the port is whatever is in memory.
UDP(cfg) ==
    LET port == Get(cfg, "Injector_UDP::Port")
    IN [Injector EXCEPT !.name = "Injector_UDP", !.source = port, !.sound = port # "",
          !.fails = port \notin Decimal \cup {""}]

UDPHID(cfg) ==
    LET port == Get(cfg, "Injector_UDPHID::port")
        early == [Injector EXCEPT !.name = "Injector_UDPHID", !.sound = FALSE, !.source = ""]
    IN IF port = "" THEN early
       ELSE [early EXCEPT !.sound = TRUE, !.source = port, !.class = "xbox", !.side = "in",
               !.fails = port \notin Decimal]

\* Packet::filter; SetupPacket::filter_out, transmit_out, filter_in.
PacketFlags == {"filter", "filter_out", "transmit_out", "filter_in"}

\* get_packets of the UDP injectors: a datagram is a packet for the endpoint address
\* in its first byte, or, when that is 0, a setup request.  Its second byte turns
\* flags off, not those of the other kind.
Datagram(first, turned) ==
    [setup |-> first = 0, address |-> first,
     flags |-> PacketFlags \ (turned \cap IF first = 0 THEN PacketFlags \ {"filter"} ELSE {"filter"})]

\* No library of that name.
Missing == [PacketFilter EXCEPT !.name = "missing", !.type = "missing"]

Libraries(cfg) ==
    [PacketFilter_StreamLog   |-> StreamLog(cfg),
     PacketFilter_ROT13       |-> ROT13,
     PacketFilter_KeyLogger   |-> KeyLogger,
     PacketFilter_ZeroMQ      |-> ZeroMQ,
     PacketFilter_Power       |-> Power,
     PacketFilter_Callback    |-> Callback,
     PacketFilter_PcapLogger  |-> PcapLogger(cfg),
     PacketFilter_MassStorage |-> MassStorage,
     PacketFilter_UDPHID      |-> UDPHIDFilter,
     Injector_UDP             |-> UDP(cfg),
     Injector_UDPHID          |-> UDPHID(cfg)]

Plugin(name, cfg) == IF name \in DOMAIN Libraries(cfg) THEN Libraries(cfg)[name]
                     ELSE IF name \in DOMAIN Custom THEN Custom[name] ELSE Missing

\* PluginManager::load_plugins: up to the first library that is not there.
Loaded(cfg) ==
    LET there(i) == Plugin(cfg.plugins[i], cfg).type # "missing"
    IN [i \in {k \in DOMAIN cfg.plugins : \A j \in 1..k : there(j)} |-> Plugin(cfg.plugins[i], cfg)]
------------------------------------------------------------------------------
(* The tests of PacketFilter that the relays make for every packet.         *)

\* The first bytes of the packet.
TestPacket(p, report) == p.header => report

\* The flags for the two directions do not matter: one of the alternatives of the
\* condition always holds.  No setup request begins like a report.
TestSetupPacket(p) == ~p.header

\* A filter does something with a packet, or with a setup request.
ActsOn(p, report) == p.packets /\ TestPacket(p, report)
ActsOnSetup(p) == p.setups /\ TestSetupPacket(p)

==============================================================================
