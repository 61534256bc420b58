----------------------------- MODULE Descriptors -----------------------------
(***************************************************************************)
(* The device model (Device, DeviceQualifier, Configuration,                *)
(* InterfaceGroup, Interface, HID, Endpoint): what its constructors make of *)
(* the descriptors a device sends, and what HostProxy_GadgetFS makes of the *)
(* model for the kernel of the gadget.  Pure operators.                     *)
(*                                                                          *)
(* A device sends a configuration as a sequence of descriptors, first the   *)
(* configuration's own.  A descriptor is a record; t is its type, and of    *)
(* the rest only what the code looks at is kept:                            *)
(*   config  value, ifs (bNumInterfaces), total (wTotalLength)              *)
(*   if      num, alt, eps (bNumEndpoints)                                  *)
(*   ep      addr, in (the direction bit of the address), type, interval,   *)
(*           rest (what follows the first 7 bytes: <<>>, or the 2 of audio) *)
(*   hid, other   id, to tell them apart                                    *)
(***************************************************************************)
EXTENDS Integers, Sequences, FiniteSets, SequencesExt

CONSTANT NoEndpoint, NoInterface, NoConfiguration  \* null pointers

\* What undefined behaviour leaves in the place of a byte.
Undefined == -1

Bytes(d) == CASE d.t = "ep" -> 7 + Len(d.rest) [] d.t = "other" -> 8 [] OTHER -> 9
AllBytes(ds) == FoldLeft(LAMBDA n, d : n + Bytes(d), 0, ds)
Of(ds, type) == SelectSeq(ds, LAMBDA d : d.t = type)

\* The descriptors at the positions J, in their order.
Nth(J, k) == CHOOSE j \in J : Cardinality({i \in J : i <= j}) = k
Taken(ds, J) == [k \in 1..Cardinality(J) |-> ds[Nth(J, k)]]
------------------------------------------------------------------------------
(* Interface::Interface: an interface descriptor and what follows it, up to  *)
(* the next one.  The last HID descriptor counts.  What comes before the     *)
(* first interface goes to that interface.  Its array of endpoints has      *)
(* bNumEndpoints places: with fewer endpoint descriptors the last are null  *)
(* pointers, those beyond it are written behind its end (Overflows).        *)

Starts(ds) == {i \in DOMAIN ds : ds[i].t = "if"}
Within(ds, i) == {j \in DOMAIN ds : j > i /\ \A m \in (i + 1)..j : m \notin Starts(ds)}
Ahead(ds, i) == {j \in 2..(i - 1) : \A m \in 1..(i - 1) : m \notin Starts(ds)}

EndpointsAt(ds, i) == {j \in Within(ds, i) : ds[j].t = "ep"}

\* Endpoint::Endpoint copies 7 bytes, whatever bLength is; that is copied as well.
Endpoint(d) == [t |-> "ep", addr |-> d.addr, in |-> d.in, type |-> d.type, interval |-> d.interval,
                rest |-> [k \in DOMAIN d.rest |-> Undefined]]

Interface(ds, i, lead) ==
    LET of(type) == {j \in Within(ds, i) : ds[j].t = type}
        eps == Taken(ds, EndpointsAt(ds, i))
    IN [descriptor |-> ds[i],
        generics   |-> Taken(ds, lead \cup of("other")),
        hid        |-> IF of("hid") = {} THEN <<>> ELSE <<ds[Max(of("hid"))]>>,
        endpoints  |-> [k \in 1..ds[i].eps |-> IF k \in DOMAIN eps THEN Endpoint(eps[k]) ELSE NoEndpoint]]

Overflows(ds) == \E i \in Starts(ds) : Cardinality(EndpointsAt(ds, i)) > ds[i].eps

\* Mutant: what comes before the first interface is skipped.
InterfacesSkipLead(ds) == [i \in Starts(ds) |-> Interface(ds, i, {})]

\* Configuration::Configuration, its loop over the descriptors: the interfaces it
\* adds, in the order of the places where they start.
Interfaces(ds) == [i \in Starts(ds) |-> Interface(ds, i, Ahead(ds, i))]

\* The numbers an interface may have.  (An interface descriptor with another one
\* is written behind the end of the array of groups; no such device here.)
Numbers(cfg) == 0..(cfg.descriptor.ifs - 1)

\* InterfaceGroup::add_interface: an alternate setting met again replaces the
\* one before.  The count has 8 bits: setting 255 makes it 0, and what was there
\* is lost.
InGroup(cfg, n) == {i \in DOMAIN cfg.interfaces : cfg.interfaces[i].descriptor.num = n}
Kept(cfg, n) == {i \in InGroup(cfg, n) :
                   \A j \in InGroup(cfg, n) : cfg.interfaces[j].descriptor.alt = 255 => j < i}
Settled(cfg, n, a) == {i \in Kept(cfg, n) : cfg.interfaces[i].descriptor.alt = a}
AlternateCount(cfg, n) ==
    IF Kept(cfg, n) = {} THEN 0
    ELSE 1 + Max({cfg.interfaces[i].descriptor.alt : i \in Kept(cfg, n)})
Alternate(cfg, n, a) ==
    IF Settled(cfg, n, a) = {} THEN NoInterface ELSE cfg.interfaces[Max(Settled(cfg, n, a))]

\* The device is asked (answers) for its setting where there is a choice.
Configuration(ds, answers) ==
    LET cfg == [descriptor |-> ds[1], interfaces |-> Interfaces(ds)]
    IN [descriptor |-> cfg.descriptor, interfaces |-> cfg.interfaces,
        active     |-> [n \in Numbers(cfg) |->
                          IF AlternateCount(cfg, n) = 1 THEN 0 ELSE answers[n]]]

Active(cfg, n) == Alternate(cfg, n, cfg.active[n])

\* Mutant: the value is taken for an index from zero.
GetConfigurationFromZero(cfgs, v) == IF v \in 0..(Len(cfgs) - 1) THEN cfgs[v + 1] ELSE NoConfiguration

\* get_configuration of Device and DeviceQualifier: a value is taken for an index.
GetConfiguration(cfgs, v) == IF v \in 1..Len(cfgs) THEN cfgs[v] ELSE NoConfiguration
------------------------------------------------------------------------------
(* get_full_descriptor.                                                     *)

InterfaceBytes(f) == <<f.descriptor>> \o f.hid \o f.generics
                     \o SelectSeq(f.endpoints, LAMBDA e : e # NoEndpoint)

\* The alternate settings of the interfaces, as pairs of number and setting; the
\* code goes through them in lexicographic order.
Settings(cfg) ==
    UNION {{<<n, a>> : a \in 0..(AlternateCount(cfg, n) - 1)} : n \in Numbers(cfg)}
Precedes(r, s) == \E i \in DOMAIN r : r[i] < s[i] /\ \A j \in 1..(i - 1) : r[j] = s[j]

FullDescriptor(cfg) ==
    LET there == SetToSortSeq({s \in Settings(cfg) : Alternate(cfg, s[1], s[2]) # NoInterface},
                              Precedes)
    IN <<cfg.descriptor>>
       \o FlattenSeq([k \in DOMAIN there |-> InterfaceBytes(Alternate(cfg, there[k][1], there[k][2]))])
------------------------------------------------------------------------------
(* Device::add_string: a string replaces those of its language, and is added *)
(* at the end as well.                                                      *)

AddString(slots, s) ==
    Append([k \in DOMAIN slots |-> IF slots[k].language = s.language THEN s ELSE slots[k]], s)

\* USBString::USBString: a string read from the device, for the k-th time.
USBString(language, k) == [language |-> language, read |-> k]

\* Mutant: a string is read in the first language only.
StringTableFirst(names, languages) ==
    [i \in ToSet(names) |->
       FoldLeft(AddString, <<>>,
                [k \in DOMAIN SelectSeq(names, LAMBDA m : m = i) |->
                   USBString(Head(languages), k)])]

\* The constructor adds each index a descriptor names, in every language.
StringTable(names, languages) ==
    [i \in ToSet(names) |->
       LET times == Len(SelectSeq(names, LAMBDA m : m = i))
       IN FoldLeft(AddString, <<>>,
                   FlattenSeq([k \in 1..times |->
                                 [l \in DOMAIN languages |-> USBString(languages[l], k)]]))]
------------------------------------------------------------------------------
(* is_defined of the classes, over what the model keeps.                     *)

EndpointDefined(e) == /\ e.rest = <<>>
                      /\ e.type = "iso" => e.interval = 1
                      /\ e.type = "int" => e.interval # 1

InterfaceDefined(f) == \A k \in DOMAIN f.endpoints :
                          f.endpoints[k] # NoEndpoint /\ EndpointDefined(f.endpoints[k])

GroupDefined(cfg, n) ==
    /\ AlternateCount(cfg, n) > 0
    /\ \A a \in 0..(AlternateCount(cfg, n) - 1) :
          LET f == Alternate(cfg, n, a)
          IN f # NoInterface /\ InterfaceDefined(f)

ConfigurationDefined(cfg) ==
    /\ cfg.descriptor.total = AllBytes(FullDescriptor(cfg))
    /\ cfg.descriptor.ifs > 0
    /\ \A n \in Numbers(cfg) : GroupDefined(cfg, n)

InPlace(cfgs) == cfgs # <<>> /\ \A i \in DOMAIN cfgs : cfgs[i].descriptor.value = i

AllDefined(cfgs) == InPlace(cfgs) /\ \A i \in DOMAIN cfgs : ConfigurationDefined(cfgs[i])

StringsDefined(table, languages) ==
    \A i \in DOMAIN table, l \in ToSet(languages) :
        \E k \in DOMAIN table[i] : table[i][k].language = l

\* Device::is_defined.  Last it takes the qualifier's configurations by numbers that
\* begin with 0, where get_configuration has none, and looks into them.
IsDefined(model, languages) ==
    LET qualifier == model.qualifier
    IN IF \/ ~AllDefined(model.configs) \/ languages = <<>>
          \/ ~StringsDefined(model.strings, languages)
          \/ qualifier # <<>> /\ ~AllDefined(qualifier)
       THEN "error"
       ELSE IF \E i \in 0..(Len(qualifier) - 1) : GetConfiguration(qualifier, i) = NoConfiguration
            THEN "crash" ELSE "defined"
------------------------------------------------------------------------------
(* HostProxy_GadgetFS::generate_descriptor.                                 *)

\* (uint8_t)(log10(8 * b) / log10(2) + 1); the logarithm of 0 is no number.
HighSpeedInterval(b) ==
    IF b = 0 THEN Undefined ELSE 1 + CHOOSE k \in 0..11 : 2^k <= 8 * b /\ 8 * b < 2^(k + 1)

\* The configuration as the kernel is to see it.
Header(cfg) == [cfg.descriptor EXCEPT !.total = AllBytes(FullDescriptor(cfg))]
Emitted(cfg) == <<Header(cfg)>> \o Tail(FullDescriptor(cfg))

\* Where the walk over the active settings takes endpoint descriptors to be: behind
\* what it skips of each interface, bNumEndpoints of them, each as far from the one
\* before as the first byte of that says; if no descriptor starts there, it is any.
StartsAt(ds, i) == AllBytes(SubSeq(ds, 1, i - 1))
WalkedBytes(cfg) ==
    LET ds == Emitted(cfg)
        skipped(f) == AllBytes(<<f.descriptor>> \o f.hid \o f.generics)
        endpoint == 0
        steps == FlattenSeq([n \in 1..cfg.descriptor.ifs |->
                    LET f == Active(cfg, n - 1)
                    IN <<skipped(f)>> \o [k \in DOMAIN f.endpoints |-> endpoint]])
        starting(b) == {i \in DOMAIN ds : StartsAt(ds, i) = b}
        at[k \in 0..Len(steps)] ==
            IF k = 0 THEN Bytes(Head(ds))
            ELSE LET b == at[k - 1]
                 IN IF b = Undefined THEN b
                    ELSE IF steps[k] # endpoint THEN b + steps[k]
                    ELSE IF starting(b) = {} THEN Undefined
                    ELSE b + Bytes(ds[CHOOSE i \in starting(b) : TRUE])
    IN {at[k - 1] : k \in {j \in DOMAIN steps : steps[j] = endpoint}}

\* One of them, or the interval in it, may lie outside of what the walk is over.
Strays(cfg) == \E b \in WalkedBytes(cfg) : b = Undefined \/ b + 6 >= AllBytes(Emitted(cfg))

\* Every such place gets a new interval.  When one is no endpoint descriptor
\* (other settings lie in between), bytes of others are overwritten.
Scrambled == <<>>
Adjusted(cfg) ==
    LET ds == Emitted(cfg)
        hit == {i \in DOMAIN ds : ds[i].t = "ep" /\ StartsAt(ds, i) \in WalkedBytes(cfg)}
    IN IF Cardinality(hit) # Cardinality(WalkedBytes(cfg)) THEN Scrambled
       ELSE [i \in DOMAIN ds |->
               IF i \in hit THEN [ds[i] EXCEPT !.interval = HighSpeedInterval(@)] ELSE ds[i]]
==============================================================================
