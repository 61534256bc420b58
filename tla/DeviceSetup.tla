----------------------------- MODULE DeviceSetup -----------------------------
(***************************************************************************)
(* How a device is set up to be relayed: the plugins are loaded, the device *)
(* model is read, endpoint 0 gets its relay, filters and injectors, the     *)
(* descriptors go to the kernel of the gadget, and, when the USB host sets  *)
(* a configuration, the endpoints are opened and get theirs.                *)
(*                                                                          *)
(* All this is one thread after the other (main until the relay of endpoint *)
(* 0 runs, then the setup writer, which calls setConfig), while injector    *)
(* threads already push packets into the queues they have been given.       *)
(* Manager has the same thread with its exits, ControlRelay and DataRelay   *)
(* have what the relays do; here it is what is connected to what.           *)
(***************************************************************************)
EXTENDS Descriptors, Plugins

CONSTANTS Devices,     \* the devices that may be plugged in
          Options,     \* the command lines of usb-mitm
          Gadgets,     \* the controllers' files in gadgetfs, see Known
          Marks,       \* bound: what the datagrams for the injectors turn off
          MaxInjected  \* bound: packets injected

ASSUME InjectedAssumption == MaxInjected \in Nat /\ Marks \subseteq SUBSET PacketFlags

\* What a device sends is a configuration descriptor followed by others, the numbers
\* in them within the bounds of their fields: those of interfaces below
\* bNumInterfaces, those of endpoints below 16 and not 0, which is no data endpoint.
\* Among the others there is an interface: the code looks for one up to the end of
\* the memory, if need be.
WellFormed(ds) ==
    /\ Len(ds) \in Nat \ {0} /\ DOMAIN ds = 1..Len(ds) /\ ds[1].ifs \in Nat
    /\ Len(ds) > 1 => Starts(ds) # {}
    /\ \A i \in DOMAIN ds :
          /\ (ds[i].t = "config") = (i = 1)
          /\ ds[i].t = "if" => /\ ds[i].num \in 0..(ds[1].ifs - 1)
                               /\ ds[i].alt \in 0..255 /\ ds[i].eps \in 0..255
          /\ ds[i].t = "ep" => /\ ds[i].addr \in 1..15 /\ ds[i].in \in BOOLEAN
                               /\ Len(ds[i].rest) \in {0, 2}

\* It has some at its speed, and is set to one of them or none (0).
ASSUME DevicesAssumption ==
    \A d \in Devices :
        /\ d.highspeed \in BOOLEAN
        /\ \A cfgs \in {d.full, d.high} :
              /\ Len(cfgs) \in Nat /\ DOMAIN cfgs = 1..Len(cfgs)
              /\ \A i \in DOMAIN cfgs : WellFormed(cfgs[i])
        /\ \/ d.current = 0
           \/ \E i \in DOMAIN (IF d.highspeed THEN d.high ELSE d.full) :
                 d.current = (IF d.highspeed THEN d.high ELSE d.full)[i][1].value

\* What the constructors make is no null pointer.
Pointers(ds) ==
    /\ \A j \in Starts(ds) : Interfaces(ds)[j] # NoInterface
    /\ \A j \in DOMAIN ds : ds[j].t = "ep" => Endpoint(ds[j]) # NoEndpoint
ASSUME NullAssumption ==
    \A d \in Devices : \A cfgs \in {d.full, d.high} : \A i \in DOMAIN cfgs :
        Configuration(cfgs[i], d.alternates) # NoConfiguration /\ Pointers(cfgs[i])

VARIABLES pc,        \* how far the setup is
          dev,       \* the device, see Truth
          options,   \* the command line
          filters, injectors, \* Manager::filters, injectors
          model,     \* Device: configs, qualifier, strings
          current,   \* Device::deviceConfigurationIndex
          written,   \* what the kernel was told: the two sections
          gadget,    \* the controller's file, device_filename
          asked,     \* value of the SET_CONFIGURATION being done
          todo,      \* the settings whose endpoints have not been opened yet
          opened,    \* endpoint -> the two descriptors its file got
          endpoints, \* endpoint -> its interface (in_endpoints, out_endpoints)
          queue,     \* endpoint -> its queue (in_queues, out_queues), see Enumerate
          reader, writer, \* endpoint -> the queue it sends to, takes from
          applied,   \* endpoint -> the filters of its writer
          inject,    \* injector -> endpoint -> queue (inQueues, outQueues)
          threads,   \* the injectors whose threads run and are heard
          pushed,    \* packets injected: where from, for what, to which queue, flags
          passed     \* a packet relayed: its endpoint, flags, contents, and the
                     \* filters that acted on its way out and on the answer

world     == <<dev, options>>
plugins   == <<filters, injectors>>
modelVars == <<model, current, written, gadget>>
openVars  == <<todo, opened>>
relayVars == <<endpoints, queue, reader, writer>>
wireVars  == <<applied, inject>>
mostVars  == <<world, plugins, asked, threads, pushed, passed>>
setupVars == <<pc, mostVars, modelVars, openVars, relayVars, wireVars>>
------------------------------------------------------------------------------
(* A device: its configurations at full and at high speed (<<>> when it does *)
(* not work at that speed), the speed it is connected at, and its answers.   *)

Reported == IF dev.highspeed THEN dev.high ELSE dev.full
OtherSpeed == IF dev.highspeed THEN dev.full ELSE dev.high

NoGadget == ""
Control == [addr |-> 0, in |-> FALSE]  \* out_endpoints[0]
ControlIn == [addr |-> 0, in |-> TRUE] \* only a place for injectors
Empty == [k \in {} |-> 0]              \* an array of null pointers

\* The entries of f, and of g where f has none.
Over(f, g) == [k \in DOMAIN f \cup DOMAIN g |-> IF k \in DOMAIN f THEN f[k] ELSE g[k]]

SetupInit == /\ pc = "load"
        /\ dev \in Devices /\ options \in Options
        /\ filters = <<>> /\ injectors = <<>>
        /\ model = <<>> /\ current = -1 /\ written = <<>> /\ gadget = NoGadget
        /\ asked = 0 /\ todo = {} /\ opened = Empty
        /\ endpoints = Empty /\ queue = Empty
        /\ reader = Empty /\ writer = Empty /\ applied = Empty
        /\ inject = Empty /\ threads = {} /\ pushed = {} /\ passed = <<>>

At(p) == pc = p
Go(p) == pc' = p
------------------------------------------------------------------------------
(* PluginManager::load_plugins, Manager::load_plugins.                      *)

CommandLine == Configured(options)

\* The constructor of DeviceProxy_LibUSB gives std::stoi three strings of the
\* configuration, if they are there.
NumbersFor(proxy) ==
    proxy = "DeviceProxy_LibUSB" =>
        /\ \A key \in {"vendorId", "productId"} : Get(CommandLine, key) \in Hexadecimal \cup {""}
        /\ Get(CommandLine, "DeviceProxy::nice") \in Decimal \cup {""}

\* Without a proxy's library its pointer is never set, and used all the same; some
\* end in their constructors.  The proxies of the tunnel are in TcpTunnel.
Loading(ps) ==
    LET proxies == <<Get(CommandLine, "DeviceProxy"), Get(CommandLine, "HostProxy")>>
    IN IF \/ ToSet(proxies) \ ProxyLibraries # {} \/ ~NumbersFor(proxies[1])
          \/ \E p \in ToSet(ps) : p.fails
       THEN "crash"
       ELSE IF proxies = <<"DeviceProxy_LibUSB", "HostProxy_GadgetFS">> THEN "read" ELSE "tunnel"

\* The plugins of some types; each goes by its place in the order of loading.
OfType(types) ==
    LET ps == Loaded(CommandLine)
    IN [i \in {j \in DOMAIN ps : ps[j].type \in types} |-> ps[i]]

Load ==
    /\ At("load")
    /\ filters' = OfType({"filter", "both"})
    /\ injectors' = OfType({"injector", "both"})
    /\ inject' = [i \in DOMAIN injectors' |-> Empty]
    /\ Go(Loading(Loaded(CommandLine)))
    /\ UNCHANGED <<world, asked, threads, pushed, passed, applied, modelVars, openVars, relayVars>>
------------------------------------------------------------------------------
(* Device::Device.  A control request that fails ends the process, but for   *)
(* the one for the qualifier, without which there is no other speed.        *)

\* A number below bNumInterfaces that no interface has is a null pointer.
Gap(cs) == \E cfg \in {Configuration(cs[i], dev.alternates) : i \in DOMAIN cs} :
              \E n \in Numbers(cfg) : InGroup(cfg, n) = {}

Read(qualified) ==
    LET configs(cs) == [i \in DOMAIN cs |-> Configuration(cs[i], dev.alternates)]
    IN /\ At("read") /\ ~Gap(Reported) /\ (qualified => ~Gap(OtherSpeed))
       /\ model' = [configs   |-> configs(Reported),
                    qualifier |-> IF qualified THEN configs(OtherSpeed) ELSE <<>>,
                    strings   |-> StringTable(dev.names, dev.languages)]
       /\ current' = dev.current
       /\ Go("claim")
       /\ UNCHANGED <<mostVars, written, gadget,
                      openVars, relayVars, wireVars>>

\* Endpoints written behind the end of their array may go unnoticed (Read), or not.
ReadCrashes ==
    /\ At("read")
    /\ \E cs \in {Reported, OtherSpeed} : Gap(cs) \/ \E i \in DOMAIN cs : Overflows(cs[i])
    /\ Go("crash")
    /\ UNCHANGED <<mostVars, modelVars, openVars, relayVars, wireVars>>

ReadFails == /\ At("read") /\ Go("exit")
             /\ UNCHANGED <<mostVars, modelVars, openVars, relayVars, wireVars>>

ActiveConfiguration == GetConfiguration(model.configs, current)

\* Manager claims the interfaces of the active configuration, if there is one.
ClaimInterfaces ==
    /\ At("claim")
    /\ Go(IF ActiveConfiguration = NoConfiguration THEN "crash" ELSE "control")
    /\ UNCHANGED <<mostVars, modelVars, openVars, relayVars, wireVars>>
------------------------------------------------------------------------------
(* Criteria.                                                                *)

DeviceTest(p) == p.vendor \in {Anything, dev.vendor}
ConfigurationTest(p, cfg) == p.configuration \in {Anything, cfg.descriptor.value}
InterfaceTest(p, f) == /\ p.interface \in {Anything, f.descriptor.num}
                       /\ p.class \in {Anything, f.descriptor.class}
EndpointTest(p, e) == p.side \in {Anything, IF e.in THEN "in" ELSE "out"}

\* The filters, or injectors, of a list that are for an endpoint of cfg.
ForEndpoint(ps, cfg, e) ==
    {i \in DOMAIN ps : /\ DeviceTest(ps[i]) /\ ConfigurationTest(ps[i], cfg)
                       /\ EndpointTest(ps[i], e) /\ InterfaceTest(ps[i], endpoints[e])}
ForControl(ps) == {i \in DOMAIN ps : DeviceTest(ps[i]) /\ EndpointTest(ps[i], Control)}
------------------------------------------------------------------------------
(* The relay of endpoint 0.  The queues are the manager's own: _readersend   *)
(* and _writersend.                                                         *)

ReaderSend == <<"readersend">>
WriterSend == <<"writersend">>

SetupControl ==
    /\ At("control")
    /\ reader' = [e \in {Control} |-> ReaderSend]
    /\ writer' = [e \in {Control} |-> ReaderSend]
    /\ applied' = [e \in {Control} |-> ForControl(filters)]
    /\ inject' = [i \in DOMAIN injectors |->
                    IF i \in ForControl(injectors)
                    THEN [e \in {Control, ControlIn} |-> IF e = Control THEN ReaderSend ELSE WriterSend]
                    ELSE Empty]
    /\ Go("threads")
    /\ UNCHANGED <<mostVars, endpoints, queue,
                   modelVars, openVars>>

\* Each opens its socket in its own thread.  Of those with the same port the first
\* gets it, whichever that is; the others, and one whose pipe nobody writes to,
\* are not heard.
Heard == {h \in SUBSET {i \in DOMAIN injectors : injectors[i].source # "pipe"} :
            \A i \in DOMAIN injectors : injectors[i].source # "pipe" =>
                \E j \in h : {k \in h : injectors[k].source = injectors[i].source} = {j}}

InjectorsListen(heard) ==
    /\ At("threads") /\ heard \in Heard
    /\ threads' = heard
    /\ Go("host")
    /\ UNCHANGED <<world, plugins, asked, pushed, passed,
                   modelVars, openVars, relayVars, wireVars>>
------------------------------------------------------------------------------
(* HostProxy_GadgetFS::connect.                                             *)

\* The configurations of a section: of the qualifier, or of the device.
Section(ofQualifier) ==
    LET of == IF ofQualifier /\ model.qualifier # <<>> THEN model.qualifier ELSE model.configs
    IN [i \in DOMAIN model.configs |-> GetConfiguration(of, i)]

There(cfgs) == SelectSeq(cfgs, LAMBDA c : c # NoConfiguration)

\* generate_descriptor: full speed first, then high speed, with other intervals
\* if the device is not at high speed.
Generate ==
    LET full == There(Section(dev.highspeed))
        high == There(Section(~dev.highspeed))
    IN [full |-> [i \in DOMAIN full |-> Emitted(full[i])],
        high |-> [i \in DOMAIN high |-> IF dev.highspeed THEN Emitted(high[i])
                                                        ELSE Adjusted(high[i])]]

\* The walk that adjusts the intervals needs every interface's active setting.  Where
\* it strays it reads and writes memory that is not its own, noticed or not.
Walked == IF dev.highspeed THEN {} ELSE Range(Section(TRUE)) \ {NoConfiguration}
Walkable == \A cfg \in Walked : \A n \in Numbers(cfg) : Active(cfg, n) # NoInterface

HostConnect ==
    /\ At("host")
    /\ \/ Walkable /\ Go("gadget")
       \/ (Walkable => \E cfg \in Walked : Strays(cfg)) /\ Go("crash")
    /\ UNCHANGED <<mostVars, modelVars, openVars, relayVars, wireVars>>

\* What mount_gadget has left in its directory: a controller's file, or nothing if
\* there is no controller or the mount failed, which is only logged.
Shown == Gadgets \cup {NoGadget}

\* find_gadget_filename: its table of names, as far as it matters.
Known == {"dummy_udc", "sw_usb_udc"}
Find(shown) == IF shown \in Known THEN shown ELSE NoGadget

OpenGadget(shown) ==
    /\ At("gadget") /\ shown \in Shown
    /\ gadget' = Find(shown)
    /\ IF gadget' = NoGadget THEN UNCHANGED written /\ Go("exit")
                             ELSE written' = Generate /\ Go("relay")
    /\ UNCHANGED <<mostVars, model, current, openVars, relayVars, wireVars>>

\* Opening the file or writing the descriptors fails.
HostConnectFails ==
    /\ At("gadget") /\ Go("exit")
    /\ UNCHANGED <<mostVars, modelVars, openVars, relayVars, wireVars>>
------------------------------------------------------------------------------
(* Manager::setConfig.                                                      *)

\* The configurations given to the host proxy, at full and at high speed.
FullSpeedOf(v) == IF model.qualifier # <<>> /\ dev.highspeed
                  THEN GetConfiguration(model.qualifier, v) ELSE GetConfiguration(model.configs, v)
FullSpeed == FullSpeedOf(asked)
HighSpeed == IF model.qualifier = <<>> THEN NoConfiguration
             ELSE GetConfiguration(IF dev.highspeed THEN model.configs ELSE model.qualifier, asked)

\* The host has read the configurations' values and sets one, or 0, for which
\* nothing is done.
HostSetsConfig(v) ==
    /\ At("relay") /\ v # 0
    /\ asked' = v
    /\ current' = IF v \in 1..Len(model.configs) THEN v ELSE -1
    /\ Go(IF FullSpeedOf(v) = NoConfiguration THEN "crash" ELSE "open")
    /\ todo' = IF FullSpeedOf(v) = NoConfiguration THEN {} ELSE Settings(FullSpeedOf(v))
    /\ UNCHANGED <<world, plugins, threads, pushed, passed, model, written, gadget, opened,
                   relayVars, wireVars>>

\* It sets another one, or 0: stopEps, which ends the process.
SetAnother(v) ==
    /\ At("running") /\ v # asked
    /\ Go("exit")
    /\ UNCHANGED <<mostVars, modelVars, openVars, relayVars, wireVars>>

Place(e) == [addr |-> e.addr, in |-> e.in]

\* HostProxy_GadgetFS::setConfig: the setting of the other speed's configuration
\* that goes with setting s; its own when there is none.
OtherSetting(s) ==
    LET own == Alternate(FullSpeed, s[1], s[2])
    IN IF HighSpeed = NoConfiguration THEN own
       ELSE LET other == IF s[2] \in Numbers(HighSpeed) THEN Alternate(HighSpeed, s[2], s[2])
                                                        ELSE NoInterface
            IN IF other = NoInterface THEN own ELSE other

\* get_endpoint_by_idx.
EndpointByIdx(f, k) == IF k \in DOMAIN f.endpoints THEN f.endpoints[k] ELSE NoEndpoint

\* Mutant: the k-th endpoint of one goes with the one before it of the other.
PairsShifted(s) ==
    LET own == Alternate(FullSpeed, s[1], s[2]).endpoints
        other(k) == EndpointByIdx(OtherSetting(s), k - 1)
    IN [k \in DOMAIN own |-> <<own[k], IF other(k) # NoEndpoint THEN other(k) ELSE own[k]>>]

\* What is written to the endpoint files of setting s: the k-th of one goes
\* with the k-th of the other.
Pairs(s) ==
    LET own == Alternate(FullSpeed, s[1], s[2]).endpoints
        other(k) == EndpointByIdx(OtherSetting(s), k)
    IN [k \in DOMAIN own |-> <<own[k], IF other(k) # NoEndpoint THEN other(k) ELSE own[k]>>]

\* open_endpoint: the file of an endpoint.  Both directions may share one.
EndpointFile(e) ==
    <<e.addr, IF gadget = "sw_usb_udc" THEN "-bulk"
              ELSE IF e.addr > 12 THEN "" ELSE IF e.in THEN "in" ELSE "out">>

\* The kernel opens an endpoint's file once.
Busy(e) == EndpointFile(e) \in {EndpointFile(f) : f \in DOMAIN opened}
CanOpen(es) == \A k \in DOMAIN es : /\ es[k].addr # 0 /\ ~Busy(es[k])
                                    /\ \A j \in 1..(k - 1) : EndpointFile(es[j]) # EndpointFile(es[k])

\* The settings are done in their order.  One that is missing is a null pointer; so
\* is a missing endpoint, if those before it can be opened.
Turn(s) == At("open") /\ s \in todo /\ \A t \in todo \ {s} : Precedes(s, t)
First(s, n) == [k \in 1..n |-> Place(Pairs(s)[k][1])]
ThereUpTo(s, n) == n <= Len(Pairs(s)) /\ \A k \in 1..n : Pairs(s)[k][1] # NoEndpoint
SettingMissing(s) ==
    /\ Turn(s)
    /\ Alternate(FullSpeed, s[1], s[2]) # NoInterface =>
          \E n \in 1..Len(Pairs(s)) : /\ ThereUpTo(s, n - 1) /\ Pairs(s)[n][1] = NoEndpoint
                                       /\ CanOpen(First(s, n - 1))
    /\ Go("crash")
    /\ UNCHANGED <<mostVars, modelVars, openVars, relayVars, wireVars>>

\* The endpoints of a setting are opened; the first that cannot be (after n of
\* them) ends it all, and nobody is told.
OpenSetting(s) ==
    /\ Turn(s) /\ Alternate(FullSpeed, s[1], s[2]) # NoInterface
    /\ \E n \in 0..Len(Pairs(s)) :
          LET ps == Pairs(s) IN
          /\ n = Len(ps) \/ ThereUpTo(s, n + 1)
          /\ ThereUpTo(s, n) /\ CanOpen(First(s, n))
          /\ opened' = Over([e \in {Place(ps[k][1]) : k \in 1..n} |->
                                ps[CHOOSE k \in 1..n : Place(ps[k][1]) = e]], opened)
          /\ todo' = IF n = Len(ps) THEN todo \ {s} ELSE {}
    /\ UNCHANGED <<pc, mostVars, modelVars, relayVars, wireVars>>
------------------------------------------------------------------------------
(* Manager::start_data_relaying.                                            *)

\* The endpoint descriptors it goes through, those of all settings but for the
\* isochronous ones: the k-th of setting a of interface n is <<n, a, k>>.
EndpointAt(cfg, r) == Alternate(cfg, r[1], r[2]).endpoints[r[3]]
Relayed(cfg) ==
    {r \in UNION {{<<s[1], s[2], k>> : k \in DOMAIN Alternate(cfg, s[1], s[2]).endpoints} :
                     s \in Settings(cfg)} : EndpointAt(cfg, r).type # "iso"}

\* A hole in the numbering of the settings is a null pointer, as is an endpoint that
\* bNumEndpoints promises and that is missing.
SettingsThere(cfg) == \A s \in Settings(cfg) : Alternate(cfg, s[1], s[2]) # NoInterface
NoNull(cfg) == /\ SettingsThere(cfg)
               /\ \A s \in Settings(cfg) : \A k \in DOMAIN Alternate(cfg, s[1], s[2]).endpoints :
                     Alternate(cfg, s[1], s[2]).endpoints[k] # NoEndpoint
EnumerateNull ==
    /\ At("open") /\ todo = {}
    /\ ActiveConfiguration = NoConfiguration \/ ~NoNull(ActiveConfiguration)
    /\ Go("crash")
    /\ UNCHANGED <<mostVars, modelVars, openVars, relayVars, wireVars>>

\* Each gets a new queue, an endpoint of two settings the second time too.  A queue
\* is named after the descriptor for which it was created.
Latest(rs) == CHOOSE r \in rs : \A p \in rs \ {r} : Precedes(p, r)
Enumerate ==
    LET cfg == ActiveConfiguration
        place(r) == Place(EndpointAt(cfg, r))
        places == {place(r) : r \in Relayed(cfg)}
        last(e) == Latest({r \in Relayed(cfg) : place(r) = e})
    IN /\ At("open") /\ todo = {}
       /\ cfg # NoConfiguration /\ NoNull(cfg)
       /\ endpoints' = [e \in places |-> Alternate(cfg, last(e)[1], last(e)[2])]
       /\ queue' = [e \in places |-> last(e)]
       /\ Go("join")
       /\ UNCHANGED <<mostVars, reader, writer, modelVars, openVars, wireVars>>

\* A reader and a writer for each, on its queue.
JoinEndpoints ==
    /\ At("join")
    /\ reader' = Over(reader, queue)
    /\ writer' = Over(writer, queue)
    /\ Go("apply")
    /\ UNCHANGED <<mostVars, endpoints, queue,
                   modelVars, openVars, wireVars>>

ApplyFilters ==
    /\ At("apply")
    /\ applied' = Over(applied, [e \in DOMAIN endpoints |->
                                  ForEndpoint(filters, ActiveConfiguration, e)])
    /\ Go("inject")
    /\ UNCHANGED <<mostVars, inject,
                   modelVars, openVars, relayVars>>

\* Mutant: an injector for one endpoint gets the queues of all.
ApplyInjectorsAll ==
    /\ At("inject")
    /\ inject' = [i \in DOMAIN injectors |-> Over(queue, inject[i])]
    /\ Go("running")
    /\ UNCHANGED <<mostVars, applied, modelVars, openVars, relayVars>>

\* The injectors get the queues of the endpoints they are for.  Then the
\* interfaces are claimed and the threads of the endpoints start.
ApplyInjectors ==
    LET for(i) == {e \in DOMAIN endpoints : i \in ForEndpoint(injectors, ActiveConfiguration, e)}
    IN /\ At("inject")
       /\ inject' = [i \in DOMAIN injectors |-> Over([e \in for(i) |-> writer[e]], inject[i])]
       /\ Go("running")
       /\ UNCHANGED <<mostVars, applied, modelVars, openVars, relayVars>>
------------------------------------------------------------------------------
\* Injector::listen: where a packet goes.  Only four bits of an address count.
Destination(d) == [addr |-> d.address % 16, in |-> d.address >= 128]
Address(e) == e.addr + IF e.in THEN 128 ELSE 0

\* At any time once its thread runs an injector puts a packet into the queue it has
\* for its endpoint; without one it is given back.
Inject(i, d) ==
    /\ Cardinality(pushed) < MaxInjected
    /\ i \in threads /\ Destination(d) \in DOMAIN inject[i]
    /\ pushed' = pushed \cup {[by |-> i, for |-> Destination(d), setup |-> d.setup,
                               to |-> inject[i][Destination(d)], flags |-> d.flags]}
    /\ UNCHANGED <<pc, world, plugins, asked, threads, passed, modelVars, openVars, relayVars, wireVars>>

\* What may come: addresses of the endpoints, and one that is none (16).
Datagrams == {Datagram(first, turned) : first \in {0, 16, 128} \cup {Address(e) : e \in DOMAIN writer},
                                        turned \in Marks}

\* The packets that a writer may find in its queue: their flags, all set but in those
\* injected, and what the filters tell apart of them.
FlagsOf(e) == {PacketFlags} \cup {p.flags : p \in {q \in pushed : /\ q.to = writer[e]
                                                             /\ e = Control => q.setup}}
Contents(e) == IF e = Control THEN Requests ELSE {"report", "other"}

\* RelayWriter: the filters of an endpoint that see a packet with these contents.
Acting(e, c) == {i \in applied[e] : IF e = Control THEN ActsOnSetup(filters[i])
                                                  ELSE ActsOn(filters[i], c = "report")}

\* They see it if it is flagged for that.  A request passes them a second time, if it
\* has been sent, with its answer; the counter that goes through them begins anew
\* only if the device sends the data.
ActingOut(e, flags, c) ==
    IF "filter" \in flags /\ (e = Control => "filter_out" \in flags) THEN Acting(e, c) ELSE {}
ActingBack(e, flags, c) ==
    IF /\ e = Control /\ {"filter", "transmit_out", "filter_in"} \subseteq flags
       /\ c = "write" => "filter_out" \notin flags
    THEN Acting(e, c) ELSE {}

\* Bound: one packet is watched, any of those that are relayed.
Pass(e, flags, c) ==
    LET out == ActingOut(e, flags, c)
        back == ActingBack(e, flags, c)
    IN /\ pc = "running" \/ (pc = "relay" /\ e = Control)
       /\ passed = <<>>
       /\ IF \A i \in out \cup back : filters[i].sound /\ (i \in out => c \notin filters[i].writes)
          THEN passed' = <<e, flags, c, out, back>> /\ UNCHANGED pc
          ELSE Go("crash") /\ UNCHANGED passed
       /\ UNCHANGED <<world, plugins, asked, threads, pushed, modelVars, openVars, relayVars, wireVars>>

Values == {0} \cup {Reported[i][1].value : i \in DOMAIN Reported}

Setup == \/ Load \/ ReadFails \/ ReadCrashes \/ ClaimInterfaces \/ SetupControl
         \/ HostConnect \/ HostConnectFails \/ EnumerateNull \/ Enumerate \/ JoinEndpoints
         \/ ApplyFilters \/ ApplyInjectors
         \/ \E shown \in Shown : OpenGadget(shown)
         \/ \E heard \in Heard : InjectorsListen(heard)
         \/ \E qualified \in BOOLEAN : Read(qualified)
         \/ \E v \in Values : HostSetsConfig(v)
         \/ \E v \in Values : SetAnother(v)
         \/ \E s \in todo : SettingMissing(s) \/ OpenSetting(s)

SetupNext == \/ Setup
        \/ \E i \in DOMAIN injectors, d \in Datagrams : Inject(i, d)
        \/ \E e \in DOMAIN writer : \E flags \in FlagsOf(e), c \in Contents(e) : Pass(e, flags, c)

SetupSpec == SetupInit /\ [][SetupNext]_setupVars
------------------------------------------------------------------------------
(* Devices the code copes with: configurations are numbered from one, one of *)
(* them is set, the alternate settings of an interface are numbered from    *)
(* zero, and each has as many endpoints as it says.                         *)

NumberedFromOne(cfgs) == \A i \in DOMAIN cfgs : cfgs[i][1].value = i
NoHoles(cfgs) ==
    ~Gap(cfgs) /\ \A i \in DOMAIN cfgs : SettingsThere(Configuration(cfgs[i], dev.alternates))

\* Of an interface with a choice it says that one of them is active.
Answers(cfgs) ==
    \A cfg \in {Configuration(cfgs[i], dev.alternates) : i \in DOMAIN cfgs} :
        \A n \in Numbers(cfg) : cfg.active[n] \in 0..(AlternateCount(cfg, n) - 1)

\* No setting of an interface is there twice, none has the number 255, and the first
\* descriptor of an endpoint comes after one of an interface.
Ordered(ds) ==
    /\ \A i, j \in Starts(ds) : ds[i].num = ds[j].num /\ ds[i].alt = ds[j].alt => i = j
    /\ \A i \in Starts(ds) : ds[i].alt < 255
    /\ \A j \in DOMAIN ds : ds[j].t = "ep" => \E i \in Starts(ds) : i < j

\* bNumEndpoints is the number of descriptors of endpoints.
Matching(ds) == \A i \in Starts(ds) : Cardinality(EndpointsAt(ds, i)) = ds[i].eps

\* It has as many configurations at the other speed, if it works at that at all.  At
\* full speed the walk that adjusts the intervals stays within its configurations,
\* as it does where there are no alternate settings.
Regular == /\ dev.current # 0
           /\ Len(OtherSpeed) \in {0, Len(Reported)}
           /\ \A cfgs \in {Reported, OtherSpeed} :
                 /\ NumberedFromOne(cfgs) /\ NoHoles(cfgs) /\ Answers(cfgs)
                 /\ \A i \in DOMAIN cfgs :
                       /\ Ordered(cfgs[i]) /\ Matching(cfgs[i])
                       /\ ~dev.highspeed => ~Strays(Configuration(cfgs[i], dev.alternates))

\* A device whose descriptors at the two speeds differ in sizes and intervals only.
Alike == /\ DOMAIN dev.full = DOMAIN dev.high
         /\ \A c \in DOMAIN dev.full :
               LET full == dev.full[c]
                   high == dev.high[c]
               IN /\ DOMAIN full = DOMAIN high /\ full[1].ifs = high[1].ifs
                  /\ \A i \in DOMAIN full :
                        /\ full[i].t = high[i].t
                        /\ full[i].t = "if" => /\ full[i].num = high[i].num /\ full[i].alt = high[i].alt
                                               /\ full[i].eps = high[i].eps
                        /\ full[i].t = "ep" => Place(full[i]) = Place(high[i])

\* Command lines that name proxies there are, numbers where numbers are wanted, and
\* only filters that have what they use, no PacketFilter_Power among them.
Sensible == /\ Get(CommandLine, "DeviceProxy") \in ProxyLibraries
            /\ Get(CommandLine, "HostProxy") \in ProxyLibraries
            /\ NumbersFor(Get(CommandLine, "DeviceProxy"))
            /\ \A p \in ToSet(Loaded(CommandLine)) :
                  ~p.fails /\ (p.type # "injector" => p.sound /\ p.writes = {})

\* The manager uses whatever the device model returns without a test for null, and
\* the plugins whatever their constructors found; nevertheless no such device with
\* such a command line brings the process down, at any step.
RegularDevicesWork == ~(pc = "crash" /\ Regular /\ Sensible)

\* A device whose descriptors also are as is_defined wants them: wTotalLength is their
\* length, endpoints have 7 bytes and intervals that go with their types.
Conforming ==
    /\ dev.languages # <<>>
    /\ \A cfgs \in {Reported, OtherSpeed} : \A i \in DOMAIN cfgs :
          /\ cfgs[i][1].total = AllBytes(cfgs[i]) /\ cfgs[i][1].ifs > 0
          /\ \A j \in DOMAIN cfgs[i] : cfgs[i][j].t = "ep" => EndpointDefined(cfgs[i][j])

\* The model just read from such a device passes the code's own test for consistency
\* (is_defined, which nothing calls): the parts found again make up wTotalLength,
\* everything is in its place, and every string there in every language.  If it has
\* a qualifier, however, the test itself ends in a null pointer.
ModelDefined ==
    pc = "claim" /\ Conforming /\ Regular =>
        IsDefined(model, dev.languages) = IF model.qualifier = <<>> THEN "defined" ELSE "crash"

\* The endpoint descriptors below each interface descriptor.
Below(ds) == {<<ds[i], Taken(ds, EndpointsAt(ds, i))>> : i \in Starts(ds)}

Faithful(ds, sent) == /\ ds # <<>> /\ Head(ds) = [Head(sent) EXCEPT !.total = AllBytes(ds)]
                      /\ \A d \in ToSet(ds) \cup ToSet(sent) : d.t # "config" =>
                            Len(SelectSeq(ds, LAMBDA c : c = d)) = Len(SelectSeq(sent, LAMBDA c : c = d))
                      /\ Below(ds) = Below(sent)

\* A period of 2^(b - 1) microframes, the longest not above that of i frames.
ConvertedFrom(b, i) == i = 0 \/ (2^(b - 1) <= 8 * i /\ 8 * i < 2^b)
Converted(ds, sent) ==
    /\ Faithful([k \in DOMAIN ds |-> IF ds[k].t = "ep" THEN [ds[k] EXCEPT !.interval = 0] ELSE ds[k]],
                [k \in DOMAIN sent |-> IF sent[k].t = "ep" THEN [sent[k] EXCEPT !.interval = 0] ELSE sent[k]])
    /\ \A k \in DOMAIN Of(ds, "ep") :
           ConvertedFrom(Of(ds, "ep")[k].interval, Of(sent, "ep")[k].interval)

\* What the device sent, as far as it is read: of an endpoint 7 bytes.
Received(ds) == [i \in DOMAIN ds |-> IF ds[i].t = "ep" THEN Endpoint(ds[i]) ELSE ds[i]]
Readable(ds) == Ordered(ds) /\ Matching(ds)

\* The kernel of the gadget gets what the device sent, whichever way its
\* descriptors are ordered: each section the configurations of its speed, every
\* endpoint below its interface, lengths that add up; but of endpoint descriptors
\* that are longer than 7 bytes the rest is arbitrary.  A device that knows full
\* speed only has its intervals converted; if it has alternate settings too, or
\* knows both speeds but is at full speed, the code changes the wrong bytes, or
\* intervals that need no change, and the high-speed section is not what it was.
DescriptorsFaithful ==
    pc = "relay" =>
        /\ \A i \in DOMAIN written.full :
              LET sent == IF model.qualifier # <<>> THEN dev.full[i] ELSE Reported[i]
              IN Readable(sent) => Faithful(written.full[i], Received(sent))
        /\ \A i \in DOMAIN written.high :
              \/ dev.highspeed /\ (Readable(dev.high[i]) => Faithful(written.high[i], Received(dev.high[i])))
              \/ ~dev.highspeed /\ (\/ model.qualifier # <<>>
                                    \/ Readable(dev.full[i]) =>
                                          Converted(written.high[i], Received(dev.full[i])))
              \/ ~dev.highspeed /\ \E n \in Numbers(model.configs[i]) :
                                      AlternateCount(model.configs[i], n) > 1

\* What a plugin is for, by its criteria.
MeantFor(p, e) == /\ DeviceTest(p) /\ EndpointTest(p, e)
                  /\ e # Control => /\ ConfigurationTest(p, ActiveConfiguration)
                                    /\ InterfaceTest(p, endpoints[e])

\* What an injector pushes, at any time, ends in the queue of the very endpoint it
\* is for (a setup request in that of endpoint 0), which is one the injector is
\* meant for.  (An injector whose constructor found no port, as that of option -x
\* never does, has no criteria: it is meant for every endpoint.  A device that
\* lists endpoint 0 IN among its own, which none may, would take over the place of
\* the writer's queue.)
InjectedAsMeant ==
    \A p \in pushed :
        /\ p.setup => p.for = Control
        /\ p.for # ControlIn => p.to = writer[p.for] /\ MeantFor(injectors[p.by], p.for)
        /\ p.for = ControlIn /\ ControlIn \notin DOMAIN writer =>
              p.to = WriterSend /\ MeantFor(injectors[p.by], Control)

\* The filters meant for an endpoint and for packets with these contents (a request
\* has no header).
Meant(e, c) == {i \in DOMAIN filters :
                  /\ MeantFor(filters[i], e)
                  /\ IF e = Control THEN filters[i].setups /\ ~filters[i].header
                     ELSE filters[i].packets /\ (filters[i].header => c = "report")}

\* A packet meets all the filters meant for it or, when it was injected and says so,
\* none.  A request of the host meets them on its way out and, if the device sends
\* the data, with the answer; one that only says that it is not to be filtered on
\* its way out does so with the answer, whoever sends the data.
FilteredAsMeant ==
    passed # <<>> =>
        LET e == passed[1]
            flags == passed[2]
            meant == Meant(e, passed[3])
        IN /\ "filter" \notin flags => passed[4] \cup passed[5] = {}
           /\ "filter" \in flags /\ e # Control => passed[4] = meant /\ passed[5] = {}
           /\ flags = PacketFlags /\ e = Control =>
                 passed[4] = meant /\ passed[5] = IF passed[3] = "write" THEN {} ELSE meant
           /\ flags = PacketFlags \ {"filter_out"} /\ e = Control => passed[4] = {} /\ passed[5] = meant

\* The reader and the writer of an endpoint share a queue, and no two injectors are
\* heard on one port.
Shared == /\ \A e \in DOMAIN writer : reader[e] = writer[e]
          /\ \A i, j \in threads : injectors[i].source = injectors[j].source => i = j

\* Plugins and threads are connected as they are meant to be, at every step of the
\* setup, while the injectors of those endpoints that are joined already push.
WiredAsMeant == Shared /\ InjectedAsMeant /\ FilteredAsMeant

\* Both descriptors written to an endpoint's file are of that endpoint.  The code
\* looks for the other speed's in interface a, setting a, instead of interface n,
\* setting a: with a qualifier, it takes those of another interface.  With one
\* interface both are of that endpoint if the two speeds are alike, and with one
\* setting the first is for full and the second for high speed.
PairsMatch ==
    \A e \in DOMAIN opened :
        /\ model.qualifier = <<>> \/ (Alike /\ FullSpeed.descriptor.ifs = 1) =>
              Place(opened[e][2]) = e
        /\ Alike /\ model.qualifier # <<>> /\ Settings(FullSpeed) = {<<0, 0>>} =>
              /\ \E d \in ToSet(dev.full[asked]) : d.t = "ep" /\ opened[e][1] = Endpoint(d)
              /\ \E d \in ToSet(dev.high[asked]) : d.t = "ep" /\ opened[e][2] = Endpoint(d)

\* Whatever of its settings an endpoint appears in, its queue is no other
\* endpoint's, and exactly the endpoints of the configuration the host has asked
\* for are relayed.
RelayedOnce ==
    /\ \A e, f \in DOMAIN writer : writer[e] = writer[f] => e = f
    /\ pc = "running" /\ Regular =>
         DOMAIN writer \ {Control} =
            {Place(e) : e \in {d \in ToSet(Reported[asked]) : d.t = "ep" /\ d.type # "iso"}}

\* The endpoints that the gadget shows and those that are relayed are the device's,
\* although the code collects them by three different walks over its settings.
EndpointsMatch == PairsMatch /\ RelayedOnce
==============================================================================
