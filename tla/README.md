# USBProxy in TLA+

USBProxy sits between a USB device and a USB host and relays every transfer between
them, so that filters can log or rewrite packets and injectors can add some. It is a
program of many threads: one reader and one writer thread for each endpoint and direction,
one thread for each injector, one inside libusb, one that runs `main`. They share packet queues,
a few plain flags, the two proxies and the manager.

This directory holds TLA+ modules that model the program's control from its source,
TLC configurations that check them on small instances, and proofs that TLAPS checks. All
paths below are relative to the root of the repository copy (`src/src/lib/...` is
`src/lib/...` of USBProxy).

Run in this directory:

    tlc -workers 2 -config SafeQueue.cfg SafeQueue      # any cfg of the table below
    tlapm SafeQueueProofs.tla                           # any *Proofs module

## 1. The system

### Components, their state and operations

| Component | Source | State | Operations | Modelled in |
|---|---|---|---|---|
| SafeQueue | `lib/SafeQueue.hpp` | lanes `q`, `qPriority`, mutex `m`, condition `c`, flag `destruct` | `enqueue`, `enqueuePriority`, `dequeue`, `empty`, destructor | `PacketQueue`, `SafeQueue`, `QueueContract` |
| Endpoint 0 relay | `lib/RelayReader.cpp`, `lib/RelayWriter.cpp` | locals of `relay_read_setup` and `relay_write_setup`, two `_please_stop` flags, two queues; `lastControl` of the host's proxy | the two thread functions, `please_stop` | `ControlRelay` |
| Data endpoint relay | same files | locals of `relay_read` and `relay_write`, flags, one queue | the two thread functions, `please_stop` | `DataRelay` |
| Injector | `lib/Injector.cpp` | `please_stop`, its queues | `set_queue`, `listen` | which queue: `DeviceSetup`; what it does to the relays: `ControlRelay`, `DataRelay`; its thread: `Manager` |
| Manager | `lib/Manager.cpp` | `status`, proxies, relays, queues, `configurationNumber`, filters, injectors | `load_plugins`, `start_control_relaying`, `stop_relaying`, `stopEps`, `setConfig`, `start_data_relaying`, notifications | its threads: `Manager`; what it connects: `DeviceSetup`; `setConfig` as the host sees it: `ControlRelay`; claims: `LibUSBDevice` |
| usb-mitm | `tools/usb-mitm.cpp`, `greengrass/main.cpp` | `done`, the options | option parsing, loop of `main`, signal handler | `Plugins` (options), `Manager` (loop) |
| HostProxy_GadgetFS | `Plugins/Hosts/HostProxy_GadgetFS.cpp` | aiocb pointers and flags per endpoint, mutex `m` | `send_data`, `send_wait_complete`, `receive_data`, `closeEP`, `disconnectEps`, `connect`, `control_request` ... | data endpoints: `GadgetFSEndpoint`; endpoint 0: `ControlRelay`; `generate_descriptor`, `connect`, `setConfig`: `DeviceSetup`, `Descriptors` |
| DeviceProxy_LibUSB | `Plugins/Devices/DeviceProxy_LibUSB.cpp` | device handle, `epInterfaces`, `rxAttempt`, event thread, disconnect callback | `connect`, `control_request`, transfers, claim and release, hot-plug | `LibUSBDevice`; what the notifier does to `status`: `Manager`; `control_request`: `ControlRelay` |
| TCP proxies | `lib/TCP_Helper.cpp`, `HostProxy_TCP`, `DeviceProxy_TCP` | listeners and sockets per endpoint, two streams for requests and answers | `connect`, `open_endpoints`, `control_request`, `send_data`, `receive_data` | `TcpTunnel` |
| Loopback proxy | `DeviceProxy_Loopback.cpp` | a ring of packets | send, receive | no |
| Device model | `lib/Device.cpp`, `Configuration.cpp`, `Interface*.cpp`, `Endpoint.cpp`, `USBString.cpp` | tree of descriptors, string table | parse, serialise, look up, `is_defined` | `Descriptors`, `DeviceSetup` |
| Criteria, PacketFilter | `lib/Criteria.cpp`, `lib/PacketFilter.cpp` | criteria | `test_*`, `filter_packet` | `Plugins`, `DeviceSetup`; effect on `transmit`: the relays |
| Filters | `Plugins/Filters` | criteria, a file or socket | constructor, `filter_packet`, `filter_setup_packet` | `Plugins` (which packets each one sees) |
| UDP injectors | `Plugins/Injectors` | port, socket | constructor, `start_injector`, `get_packets` | `Plugins`, `DeviceSetup` |
| Plugin registry, ConfigParser | `lib/PluginManager.cpp`, `lib/ConfigParser.cpp` | plugin lists, key-value map | load, parse | `Plugins`, `DeviceSetup` |
| HexString, FDInfo, get_tid, TRACE | `lib` | none | formatting | no |
| Tools, Node.js client, packaging | `tools/additional`, `nodejs-client` | separate programs | | no |

### How they interact

    host --HostProxy--> reader --readersend--> writer --DeviceProxy--> device     (endpoint 0)
    host <-HostProxy--- reader <-writersend--- writer <-DeviceProxy--- device

    proxy --receive_data--> reader --queue--> writer --send_data--> other proxy   (endpoints 1..15)
                              injector --priority lane--^

* The threads of one endpoint know each other only through SafeQueues.
* The endpoint 0 reader is also the thread that learns of a host disconnect, and the
  endpoint 0 writer the one that carries out `SET_CONFIGURATION`; both call into the manager,
  which stops and starts the threads of the data endpoints.
* `Manager::stopEps` asks threads to stop with `please_stop`: a plain flag plus, for a
  thread that may block in `dequeue`, a null packet that wakes it. It can be called by `main`,
  by the reader and by the writer; it ends in `exit(-1)` (Manager.cpp:544).
* The libusb event thread stores to `Manager::status` when the device leaves.
* Filters and injectors get their endpoints by criteria: those for endpoint 0 from `main`, those for the
  others from the endpoint 0 writer inside `setConfig`, while the injectors' threads already run.
* The tunnel is two processes, one with the TCP proxy for the device, one with the TCP proxy for the host:

      host --GadgetFS--> relays --DeviceProxy_TCP ==TCP==> HostProxy_TCP --> relays --LibUSB--> device

### What is hard here

Interleaving is the main difficulty: a queue with a condition variable, `empty()` without a
lock, plain flags read and written by different threads, an aiocb that one thread deletes while
another waits on it, a status word that two threads write. Next come liveness (everybody must
be wakeable by `please_stop`), partial failure (a refused request, a failed `aio_read`, an
error halfway through the setup, an injector's port in use) and limits (`QUEUE_MAX`, where packets vanish silently).
`PROJECT.json` lists each hazard at its line, with the properties that would catch it.

### What makes each component correct

* SafeQueue: an atomic two-lane queue; no wakeup lost; bounded.
* Endpoint 0: each request gets its own reply, once; a configuration is in force before the
  host is told so; every request is answered; the threads can always be stopped.
* Data endpoints: order kept; every packet accounted for; zero-length packets (ZLPs) neither flood the queue nor
  go missing at the end of a transfer; the writer can always be stopped.
* Manager: no state from which threads use what `main` has deleted; relaying only with all threads
  there; every reason to stop ends the process.
* GadgetFS endpoints: closed once; buffers kept while the kernel uses them; nothing lost
  or invented on the way in.
* LibUSB proxy: an open handle, transfers on claimed interfaces only, reads that are throttled and still go on.
* TCP tunnel: a request gets its own answer unless a timeout came between; answers never run ahead; both
  sides come out of opening the endpoints.
* Device model: what the kernel of the gadget is told is what the device has said, at each speed.
* Setup: exactly the endpoints of the configuration are relayed, each by its own queue; filters and injectors
  act on the endpoints their criteria name and on no others; no device the code is meant for brings it down.

## 2. Modules

| Module | Models | Extends / instances |
|---|---|---|
| `PacketQueue` | the value of a SafeQueue and its operators | |
| `QueueContract` | abstract: the atomic queue that threads may rely on | `PacketQueue` |
| `SafeQueue` | the class with its mutex, condition variable, waiters and destructor | `PacketQueue`; `Contract == INSTANCE QueueContract WITH ...` |
| `ControlContract` | abstract: what endpoint 0's relay promises the host | |
| `ControlRelay` | endpoint 0: reader, writer, queues, `setConfig`, injectors, `please_stop` | `PacketQueue`; `Contract == INSTANCE ControlContract WITH ...` |
| `RelayContract` | abstract: the lossy channel that a data endpoint's relay is | |
| `DataRelay` | one endpoint of 1..15 in one direction | `PacketQueue`; `Contract == INSTANCE RelayContract WITH ...` |
| `Manager` | the life of one process | |
| `GadgetFSEndpoint` | asynchronous I/O of one endpoint number and its shutdown | |
| `LibUSBDevice` | the device's proxy: connecting, claims, the threads that transfer through it | |
| `TcpTunnel` | two processes joined by the TCP proxies: endpoint 0, and the connections of the others | |
| `Descriptors` | the device model as pure operators: parse, look up, serialise, `is_defined`, intervals | |
| `Plugins` | options, ConfigParser, the plugins' constructors and tests as pure operators | |
| `DeviceSetup` | one device from loading the plugins to relaying: what is connected to what | `Descriptors`, `Plugins` |
| `MCDeviceSetup` | the devices, command lines and user's plugins of its run | `DeviceSetup` |
| `PacketQueueProofs` | lemmas about the queue operators | |
| `SafeQueueProofs` | theorems about `SafeQueue` | |
| `ControlRelayProofs`, `DataRelayProofs` | theorems about `ControlRelay` and `DataRelay` | |
| `ManagerProofs`, `GadgetFSProofs`, `LibUSBProofs`, `TcpProofs` | theorems about `Manager` and `DeviceSetup`, `GadgetFSEndpoint`, `LibUSBDevice`, `TcpTunnel` | `ManagerProofs`: `Manager`, `DeviceSetup` |

The relays use the queue's *operators*, each applied in one step, and not the class with its mutex.
What allows that is checked and proved: `SafeQueue` implements `QueueContract`, in which every
operation is one step. `empty()` is the exception, since it takes no lock; see `DataRelay`.

A definition whose comment begins with "Mutant" is a plausible mistake in the definition that
follows it. Nothing uses it: it documents which mistakes the properties find (substitute it
for the definition, and TLC reports the property violated).

### SafeQueue

`pq` is `q` and `qPriority`; an entry is the number of the `enqueue` call that brought it, and 0 is `nullptr`. A step
is what a thread does while it holds `m`. The only place where a thread holds `m` across steps is
between the test of the lanes and `c.wait` (`pc = "blocking"`), because the destructor
does not take `m` and can run there. `Put` is `enqueue` or `enqueuePriority` (a full lane returns early without a
notify), `EnterDequeue`, `Wait`, `SpuriousWake` and `WakeUp` are `dequeue`, `Destruct` and
`DestructNotify` the destructor. `notify_one` wakes any one waiter.

### ControlRelay

`rpc`, `direction_out`, `rp`, `rstop` are the reader; `wpc`, `wp`, `wstop` the writer. A step ends
where a thread may block or where another thread's store can slip in: the `_please_stop` tests after
`control_request`, after `dequeue` and before `send_wait_complete` belong to the step of that call. Request number *n* keeps its number
through both queues, so that a reply can be compared with the request that the host waits on. The
proxies return whatever their interfaces allow: a setup request, none, connect, disconnect; success or
error; completion or timeout. `WriterSetConfig` is `Manager::setConfig`, which leaves a configuration
in use only through `stopEps` and so through `exit(-1)` (`halted`). `setConfig` keeps the
number in 8 bits, of which no configuration number needs more; the truncation is left out. `Stop`
are the four stores and pushes of the two `please_stop` calls. Left out: logging, the contents of
packets, the filters' effect beyond `transmit`.

`plugged`, chosen in `Init`, says whether there are an injector and a filter that drops; the properties that no plugin can be
expected to keep are stated for the other half of the behaviours. `Events` and `ControlRequest` are GadgetFS' event file,
`lastControl` is its copy of the last request, `AnswerIO` and `Stalls` what `send_data`, `control_ack` and `stall_ep` do
to the file of endpoint 0 and what the kernel makes of it. `ControlTransfer` is libusb's result; after an error the writer's `length` is
whatever it was, which is why the reply of a refused request may have any length. That the kernel cannot
be made to stall after it has taken the data of a host-to-device request is left out.

`ControlContract` is the same from the host's side, without threads and queues: `Ask`, `Execute` (by the device), `Configure`, `Answer`, `Lose`.
Its `device`, how far the one request is, is `Progress` in `ControlRelay`: "asked" while it lies somewhere before the device
(`Unexecuted`), "accepted" or "refused" while its reply does (`Executed`). With plugins the contract only promises that the host is answered when it
waits. What the two modules agree on is checked and proved as `ContractSpec`.

### DataRelay

The same for `relay_read` and `relay_write`. `received` and `sent` are histories; a packet is
its position in `received`. `ReaderTest` is the ZLP test, whose `empty()` reads both lanes
without `m`. The reader is the only thread that pushes into the normal lane while relaying, so it sees its own pushes, but it may or may not see
the writer's latest pop or an injector's latest push: `TRUE` implies that the normal lane is empty, and `FALSE` is
always possible. `please_stop` on the reader only sets the flag, since the queue it would wake (the one it
*takes* from) is null for a data endpoint.

`RelayContract` is the relay without threads and queue: a set of packets in transit, of which `Lose` may take any and
`Deliver` only the oldest. `Numbers(sent)`, `InTransit` and `Lost` map `DataRelay` to it (`ContractSpec`).

### Manager

`mpc` is the place of `main` between `start_control_relaying` and `stop_relaying`. Every test and
every store of `status` is a step, since the libusb event thread (`DeviceLeft`), which takes no lock, may store
`USBM_RESET` between any two. `thread` says for each kind of thread (endpoint 0 reader and writer, injectors, data relays)
whether it was created, asked to stop, or has ended. `inStopEps` holds the
threads inside `stopEps`; `Exit` is its `exit(-1)`. What follows that call (joins, deleting
relays and queues, `SETUP_ABORT` to `IDLE`) is unreachable and not modelled. The environment plugs and unplugs the
device, starts the peer and sends SIGTERM at any time.

### GadgetFSEndpoint

`slot`, `active`, `block`, `op`, `buf` are, for each direction, the pointer `p_epin_async[n]` or `p_epout_async[n]`, the flag `p_epin_active[n]`,
whether the aiocb it points to is allocated, the state of its request, and the packet in its buffer.
`Close` is `closeEP` in four steps (lock and test, `cancelAio`, clear the pointer, free), since the
endpoint threads read the pointer without the mutex. `WriterSend` ... `WriterSettle` are `send_data` and
`send_wait_complete` with the loop of `relay_write` around them, `ReaderReceive` ... `ReaderPass` are
`receive_data` with the loop of `relay_read`, `StopEps` is the part of `stopEps` that runs `please_stop`
and `disconnectEps`. `Complete` and `Fail` are the kernel.

Two things need a decision. The endpoint threads load the pointer twice, for the test and for the use; the model has
one load, as an optimising compiler makes of it, and covers what comes after by letting the aiocb be
deleted under the thread. And reading a deleted aiocb is undefined; the model lets
`aio_error` report anything and lets the buffer hold `Garbage`. It does not model a crash at that point.

### LibUSBDevice

`layout` is what the descriptors say: the interface and the type of each endpoint. It is chosen in `Init`, so a run covers every
layout; alternate settings, which `start_data_relaying` walks through as well, add nothing to it but repetitions. Interfaces are
numbered by their index, as the code assumes that claims the index. `held` is libusb's record of claims, `epInterfaces` the proxy's, with one entry
for both directions of an endpoint number. Each interface is claimed twice: `ClaimEarly`, before any endpoint is defined and
so without marking any, and `Claim`. `Connect` is `DeviceProxy_LibUSB::connect` and the loop of `start_control_relaying` around it.

`Loop`, `Test`, `Nap`, `Read` and `Settle` are `receive_data` in `relay_read`, `Loop`, `Test` and `Write` are `send_data` in
`relay_write`. `rxAttempt`, which all readers change without a lock, is abstracted to "not 0", which is what its test sees; that is exact
for racing increments too, since each stores 1 or more. The second test, `> MAX_ATTEMPTS`, may go either way. `transferred` has no initial value in `send_data`, and
libusb need not set it on an error, so whether a bulk transfer is repeated (`again`) is free.

Left out: `release_interface`, which `stopEps` calls right before `exit(-1)`; `disconnect` and `reset`, which
nothing reaches. All threads start in the step of the last `Claim`; a `stopEps` that finds only some of them ends the process just the same.

### TcpTunnel

Both processes are in one module, since neither side's waiting makes sense alone. `hpc` is the side near the host (its
endpoint 0 writer inside `DeviceProxy_TCP`), `dpc` the side near the device (its reader and writer, of which one at a time has the request). `toDevice` and
`toHost` are the two directions of port 0's connection, with one entry for each message; `HostReply(k)` and
`DeviceRead(k)` read the `k` entries that have arrived, use the first and lose the rest, as `receive_data` and its callers do.
`DeviceAnswer(TRUE)` is an answer longer than `TCP_BUFFER_SIZE`. `HostTimeout` may come at any time. `sock`, `listener`,
`backlog`, `accepted` are the sockets of every port: `Handshake` is the TCP of the kernel, `Round` and `Polled` are a call of
`client_open_endpoints` or `client_connect`, `HostListen` and `HostAccept` the two halves of `server_open_endpoints`. A connection within
one machine may succeed or fail at once, which `NewSocket` allows.

The packets of the other endpoints are not in it: they are `write` and `read` on a stream of their own, which keeps bytes and order but
no packet boundaries. Left out too: a request with data to the device, for which `HostProxy_TCP` copies to a pointer that nobody
has set (HostProxy_TCP.cpp:70), and lost connections, which nothing in the code handles. Endpoints of alternate settings are not opened over TCP.

### Descriptors and Plugins

Pure operators. A device is the sequence of descriptors it sends for each configuration and speed; a descriptor keeps what the code
looks at. `Interfaces` and `Configuration` are the constructors: the interfaces are kept by the place in that sequence where each starts
(`Starts`), and a setting that is there twice is the later one (`Settled`), since `add_interface` replaces. `FullDescriptor` is `get_full_descriptor`, with
its own order (`Precedes`), `Adjusted` the conversion of intervals, `StringTable` is `add_string`.

Four numbers of the code are not what the descriptors suggest, and the model follows the code. An interface has `bNumEndpoints` places for endpoints, whatever
follows its descriptor: those left over are null pointers (`NoEndpoint`), those too many are written behind the array (`Overflows`), and every walk
goes over the places. `alternateCount` has 8 bits, so a setting 255 makes it 0 and hides what was there (`Kept`, `AlternateCount`). `Endpoint` copies 7 bytes and hands out `bLength`, so the last two of the 9
that audio devices send are arbitrary (`Undefined`). And the walk that converts intervals finds the descriptors by adding up lengths (`WalkedBytes`); where it hits no
descriptor it takes a length from arbitrary bytes, and may leave the buffer (`Strays`). `IsDefined` is `Device::is_defined` with its error, its success and the null pointer that it meets in every
qualifier, whose configurations it takes by numbers from 0.

A command line is a sequence of options; `Configured` runs them through the ConfigParser, `Plugin` is each plugin's constructor; a port that is no number (`Decimal`) makes
those of the UDP injectors throw, which nothing catches (`fails`). Whether a filter's `filter_packet` is the one the relays call (`packets`) was read off its signature: those with a single argument
do not override it. `writes` are the requests on whose way out a filter writes to their data: PacketFilter_Power does so when there is none yet. `Datagram` gives an injected packet its flags, as `get_packets` of the UDP injectors does.

### DeviceSetup

One action for each stretch of `load_plugins`, `start_control_relaying`, `HostProxy_GadgetFS::connect`, `setConfig` and `start_data_relaying`
between which an injector's thread may push. `pc = "crash"` is the use of a null or an uninitialised pointer, or an exception that nothing catches. Where memory behind an array is read or written the process may crash or go on
(`ReadCrashes` beside `Read`, `HostConnect`). `HostSetsConfig` is `Manager::setConfig` up to the endpoints' files, `InjectorsListen`
the start of the injectors' threads. `Relayed` are the descriptors that `start_data_relaying` goes through; a queue goes by the one for which it was made,
which is the last of its endpoint (`Latest`), because an endpoint of two settings gets a second queue. `reader`, `writer` and
`inject` say who has which. `Inject` puts a packet into a queue and records where it went, with its flags (`pushed`). `Pass` is the writer with one packet, of the host or the device or
injected: `ActingOut` and `ActingBack` are the filters that its flags (`filter`, `filter_out`, `transmit_out`, `filter_in`) and the counter of the two loops let act on the way out and on the answer (`passed`). `Heard` is the race of the injectors' threads for their ports. `OpenSetting(s)` opens the first endpoints of setting `s`, as many as
the kernel's files allow. `Shown` is what is found in gadgetfs' directory.

Excluded: an interface number not below `bNumInterfaces`, which is stored behind the end of an array; descriptors of more than 7 kB (`USB_BUFSIZE`), for which `generate_descriptor` has no room.
Assumed: of the descriptors of interfaces, of HID and of classes the constructors keep all that is sent, as they do for those no longer than their structs; the same port is always spelt the same way;
a log file that has a name can be opened. A request *to* the device that is coded as one for a configuration descriptor, which no host sends, is not among `Requests`.

## 3. Runs

All runs use `SPECIFICATION Spec` (`SetupSpec` in `DeviceSetup`, which is proved about together with `Manager`), the constants in the `.cfg`, and no symmetry or constraint.

| Run | Bounds | Distinct states | Shows |
|---|---|---|---|
| `SafeQueue` | 3 threads, `QUEUE_MAX` 2, 4 pushes | 77 thousand | `TypeOK`, `NoLostWakeup`, `TestStillHolds`; `ContractSpec`: the class implements `QueueContract`, its liveness included |
| `ControlRelay` | `QUEUE_MAX` 1; without plugins configurations 0..2 and 3 requests; with them configuration 1, 2 requests, 1 injected packet, a dropping filter | 275 thousand | `ReplyMatchesRequest`, `ConfigSetBeforeStatus`, `RequestAnswered`, `StopEndsThreads`; `ContractSpec`: it implements `ControlContract` |
| `DataRelay` | `QUEUE_MAX` 2, 4 received packets, 1 injected, a dropping filter | 490 thousand | `OrderPreserved`, `NothingVanishes`, `NoZlpFlood`, `TransferEndPassed`, `StopEndsThreads`; `ContractSpec`: it implements `RelayContract` |
| `Manager` | injectors loaded, configurations 0..2 | 6 thousand | `NeverStoppedInSetup`, `RelayingWithAllThreads`, `InjectorsJoinedFirst`, `ReasonToStopEndsProcess`, `LeftDuringSetupEndsProcess` |
| `GadgetFSEndpoint` | 2 packets each way | 121 thousand | `ClosedOnce`, `TransferHasItsBuffer`, `DeliveredAsArrived`, `NothingLostWhileRelaying`, `ArrivalsAreDelivered`, `StopCompletes` |
| `LibUSBDevice` | IN 1 and 2, OUT 1, 2 interfaces, 2 attempts, throttled | 305 thousand | `UsesOpenHandle`, `TransferNeedsClaim`, `Throttled`, `ReadsAgain` |
| `TcpTunnel` | 2 endpoints, 4 requests | 75 thousand | `AnswersOwnRequest`, `AnsweredInOrder`, `ConfigAnswerIsLate`, `EndsMatch`, `SetConfigReturns` |
| `DeviceSetup` | 28 devices, 14 command lines, 3 controllers, 1 injected packet with 2 sets of flags, 1 packet watched | 149 thousand | `RegularDevicesWork`, `ModelDefined`, `DescriptorsFaithful`, `EndpointsMatch`, `WiredAsMeant` |
| `ManagerSigterm`, `ManagerNotified`, `GadgetFSNotified`, `LibUSBClaimed` | | | violations, section 4 |

Why the bounds are enough:

* `SafeQueue`: two sleepers beside a third thread that is awake, a lane that fills (2) and a push into the full lane, with pushes
  left over (4) for both lanes. A lost wakeup needs one sleeper, one thread that passes by, and two pushes.
* `ControlRelay`: the reader and the writer work in lockstep, so no queue ever holds more than one
  packet without an injector, and `QUEUE_MAX` 1 adds the case of a full lane, into which `please_stop`
  pushes its null packet. Three requests are enough for two different configurations and a request after
  them. With an injector one entry more is enough to fill every lane.
* `DataRelay`: four packets are the fewest that fill a queue of two, overflow it, and go on with a ZLP
  after the gap, the case that `NoZlpFlood` must except.
* `Manager`: no counter grows; `Configs` needs 0, a first and a different second configuration.
* `GadgetFSEndpoint`: a failed or timed out transfer followed by another one. Nothing else depends on the numbers;
  what TLC checks here as invariants is proved for any number.
* `TcpTunnel`: three requests show an answer late by one and by two; the fourth follows a `SET_CONFIGURATION` that was answered late. Two endpoints
  show one that is connected while the other is still refused.
* `DeviceSetup`: devices with and without the other speed, at either; one to two configurations and interfaces; alternate settings, endpoints
  in two of them, isochronous ones; class descriptors before, between and after endpoints; intervals whose
  logarithm is and is not an integer, 0 and 255 included; numberings with gaps; setting 255 alone and with others; fewer and more endpoints than `bNumEndpoints`; endpoint descriptors of 9 bytes; other speeds with more, fewer or broken configurations. Every option of usb-mitm occurs, alone or with those it may collide with, and with words
  where numbers should be (`Decimal` and `Hexadecimal` hold the numbers that occur). Each injected packet is judged by itself and changes nothing else, so one is enough, and `Marks` turns off a flag of each kind: that of data and that of a request's way out together, and that of the answer
  and sending it at all. The packet watched (`passed`) is any packet of any endpoint with any flags there are, at any time, and passing changes nothing else.
* `LibUSBDevice`: two readers, for the counter that they share; a number with both directions, and two interfaces for its
  directions to be in; two attempts are one repetition.

`CHECK_DEADLOCK FALSE` is in every `.cfg` because the system really stops: threads end, the process exits, or, in a bounded
behaviour, the last packet has been handled.

### Fairness

* A thread that can go on does go on (weak fairness for each thread). This is what the operating
  system's scheduler gives. Nothing obliges the environment: hosts, devices, users, injectors and filters are free, and so
  is the beginning of a stop; `stopEps`, once begun, goes on.
* Calls into the proxies return, with any result: `control_request`, `send_wait_complete` and GadgetFS' `receive_data` have
  timeouts. `receive_data` in `DataRelay` is left out of the fairness, because DeviceProxy_LibUSB reads
  with an infinite timeout. That is why `StopEndsThreads` there says of the reader: done, or in `receive_data`.
* GadgetFS: `aio_suspend` has a timeout and `aio_cancel` does not wait. The kernel has no fairness: a request may stay in
  progress for ever.
* LibUSB: the threads run until the process may end (`stopping`); transfers never have to return.
* TCP tunnel: both processes run, every `poll` ends, and the kernel settles each connection request. What the host asks is free, and
  so is whether an answer comes in time.
* `DeviceSetup` has safety properties only and states no fairness.
* `c.wait` may return unasked but need not, and nobody has to call `dequeue`.
* `WF` on the mutex is enough in `SafeQueue`: what `ContractSpec` promises is that *some* thread is served, not
  that each one is.

## 4. Where the code and its comments disagree

Four runs check a sentence of the repository and find a behaviour of the code that contradicts it
(`findings` in `PROJECT.json`):

* `ManagerSigterm`: "sigterm: stop forwarding threads, and/or hotplug loop and exit" (usb-mitm.cpp:64). The
  handler sets `done`; the loops of `start_control_relaying` that wait for the device and for the host look at `status` only.
  Without a device the process never ends.
* `ManagerNotified`: `deviceDisconnectNotification` is "called ... to notify manager of device disconnect"
  (Manager.cpp:672). If its store of `USBM_RESET` falls between the test at line 395 and the store of
  `USBM_RELAYING` at line 396, it is overwritten, and there is no second notification.
* `GadgetFSNotified`: "This will create an ECANCELED notification for all pending aio requests allowing
  the threads to detect please_stop" (HostProxy_GadgetFS.cpp:293). `closeEP` deletes the aiocb right after
  `aio_cancel`, so the thread that wakes looks at freed memory. `DeliveredAsArrived` shows that what it may read
  there never gets past `please_stop`, as long as `please_stop` comes first, which it does.
* `LibUSBClaimed`: "do not try to send if interface wasn't claimed successfully" (DeviceProxy_LibUSB.cpp:470, and 520 for
  receiving). With IN *n* and OUT *n* in different interfaces the entry of *n* belongs to the one met last, and its claim
  lets both directions transfer. `TransferNeedsClaim` shows that the sentence holds of a number that lies in one interface.

Behaviours that the models have and no text of the repository judges:

* Relays: a reply to an injected request is given to the host as the answer to its own; a request that a filter drops is
  never answered. `ReplyMatchesRequest` (its second half), `ConfigSetBeforeStatus` and `RequestAnswered` are therefore stated for an
  endpoint 0 without plugins. `setConfig` runs although the device refused; an OUT endpoint whose read fails with
  anything but `ESHUTDOWN` never reads again.
* Tunnel: a `SET_CONFIGURATION` that opens endpoints is always answered after its timeout (`ConfigAnswerIsLate`); from then on each late
  answer is taken for that of the next request, and shifts the ones behind it.
* Options: `-x` sets the key `Injector_UDP::port`, while Injector_UDPHID reads `Injector_UDPHID::port`; the proxies that a
  configuration file names are overwritten by the defaults unless `-D` or `-H` is given (usb-mitm.cpp).
* Plugins: a proxy whose library is missing leaves an uninitialised pointer behind; PcapLogger without a file name and StreamLog without a stream
  use null; a port, an ID or a nice value that is no number ends the process with an exception. `filter_packet` of MassStorage, KeyLogger, ROT13, UDPHID and Callback takes one argument, overrides nothing, and is never called. PacketFilter_Power
  tests the wrong type and index, and if it ever meets them writes through a null pointer, since it does so on the way out (`direction_in` is true there), before there are data. The incoming setup filters see only device-to-host requests, since the counter of the loop before is not reset;
  and a request that is only flagged as not to be filtered on its way out is filtered with the answer even if it is host-to-device.
* Device model: an unconfigured device, or one with a gap in its numbering, gives a null pointer that nobody tests. A device whose `bNumEndpoints` is not the number of its endpoint descriptors overflows an array or leaves null pointers, which `setConfig` and
  `start_data_relaying` use. The endpoints of a setting 255, and of those settings of its interface that come before it, are not relayed. Of endpoint descriptors of 9 bytes the last two are whatever lies behind the copy. `is_defined` has no caller, and would crash for every consistent device with a qualifier;
  the first endpoint file that cannot be opened silently ends the opening.

## 5. What is proved

For all values of the constants that satisfy the named assumptions, which TLC evaluates in every run:
`QueueMaxAssumption` (a lane holds at least one entry), `ThreadsAssumption` (finitely many threads),
`MaxPutsAssumption`, `BoundsAssumption`, `InjectorsAssumption`, `ConfigsAssumption`, `EndpointsAssumption`,
`InterfacesAssumption`, `AttemptsAssumption`, `RequestsAssumption` (types). `DeviceSetup` has four more: `InjectedAssumption` is a type,
`NumbersAssumption` says that the program's own defaults are numbers and that the empty string is none,
`DevicesAssumption` says that what a device sends are descriptors whose numbers fit their fields, each configuration's own first, and that it is set to a configuration it
has or to none; `NullAssumption` that what a constructor makes is not the null pointer. None of them says that a device is regular.

| Theorem | Statement | Invariant behind it |
|---|---|---|
| `SafeQueueProofs!TypeCorrect`, `TestStillHoldsAlways`, `NoWakeupIsLost` | `Spec => []TypeOK`, `[]TestStillHolds`, `[]NoLostWakeup` | `TypeOK /\ TestStillHolds /\ NoLostWakeup` |
| `SafeQueueProofs!ImplementsContract` | `Spec => Contract!Init /\ [][Contract!Next]_...`: the safety part of `ContractSpec` | the same |
| `ControlRelayProofs!TypeCorrect`, `RepliesMatch`, `ConfigIsSet` | the types, `ReplyMatchesRequest`, `ConfigSetBeforeStatus` | plus `Waits`; without plugins `NoPriority`, `Lone`, `Own` |
| `ControlRelayProofs!ImplementsContract` | `Spec => ContractSpec` | the same |
| `DataRelayProofs!TypeCorrect`, `KeepsOrder`, `AccountsForAll`, `IdleDeviceIsNoFlood`, `PassesTransferEnds` | the types, `OrderPreserved`, `NothingVanishes`, `NoZlpFlood`, `TransferEndPassed` | plus `Flow`, `Marked`, `Counted` |
| `DataRelayProofs!ImplementsChannel` | `Spec => ContractSpec` | the same |
| `ManagerProofs!TypeCorrect`, `StopsAfterSetup`, `RelaysWithAllThreads`, `InjectorsAreJoinedFirst` | the three invariants of `Manager` and its types | plus `SetupBehind`, `RelayingAhead`, `CreatedSoFar`, `StopEpsPlace` |
| `ManagerProofs!AllWiredAsMeant` | `SetupSpec => []WiredAsMeant` of `DeviceSetup` | `Wiring`, that is `Joined` and `InTime` |
| `ManagerProofs!RegularDevicesAlwaysWork`, `EndpointsAlwaysMatch` | `SetupSpec => []RegularDevicesWork`, `[]EndpointsMatch` | `SetupInv` (`ModelRead`, `FiltersLoaded`, `ConfigurationKnown`, `OpenedKnown`, `QueuesKnown`), beside `Wiring` |
| `GadgetFSProofs!TypeCorrect`, `EndpointsAreClosedOnce`, `TransfersKeepBuffers`, `DeliversAsArrived`, `LosesNothing` | the types, `ClosedOnce`, `TransferHasItsBuffer`, `DeliveredAsArrived`, `NothingLostWhileRelaying` | plus `MutexHeld`, `ClosedState`, `OutBuffer`, `StopComesFirst`, `ReaderCloses`, `ReaderSafe`, `InHand`, `InRequest` |
| `LibUSBProofs!TypeCorrect`, `HandlesAreOpen`, `TransfersAreClaimed`, `ReadsAreThrottled` | the types, `UsesOpenHandle`, `TransferNeedsClaim`, `Throttled` | plus `ConnectsAfresh`, `SetupOrder`, `ClaimsGranted`, `DefinedAsLaidOut`, `TransferMarked`, `NapsInBulk`, `NapCounted` |
| `TcpProofs!TypeCorrect`, `AnswersAreOwn`, `AnswersKeepOrder`, `ConfigAnswersAreLate`, `ConnectionsMatch` | the types, `AnswersOwnRequest`, `AnsweredInOrder`, `ConfigAnswerIsLate`, `EndsMatch` | plus `RequestsAhead`, `AnswersBehind`, `AnswersGot`, `BacklogListened`, `NotYetSet`, `SameRequest` |

The arguments:

* **No lost wakeup.** A push that adds an entry also wakes one sleeper, if there is one; an entry is taken by a thread
  that was counted among the woken or that was never asleep. The delicate case is a woken thread that
  finds the lanes empty: then the size is 0 and the bound holds trivially. A thread
  goes to sleep only with both lanes empty, which needs `TestStillHolds`: no push can come between the test and the sleep. The
  proof counts woken threads with the library's facts on finite sets; the lemmas on how each
  operator changes the queue's size are in `PacketQueueProofs`.
* **Refinement.** `asking` is the set of threads that are not idle, `closing` is `destruct # "no"`. Every action
  maps to one step of the contract or a stutter. A wakeup in a destroyed queue maps to `GiveUp`.
* **Endpoint 0.** The reader's place says whether the host waits (`Waits`): that alone forbids an unasked or a second answer, plugins or not. Without
  plugins there is at most one request in the relay, with the reader, in a queue or with the writer, and none while the host waits on nothing
  (`Lone`, `NoPriority`); so `waiting`, `lastControl` and the configuration cannot change under it, and it stays the host's own (`Own`). Dropped pushes and null
  packets only ever remove requests, which is why no bound on the lanes is needed.
* **Endpoint 0 implements its contract.** By `Lone` there is one request at most, before the device or behind it (`OneRequest`). A step that moves it or loses
  it changes neither side into the other, so it is a stutter or `Lose` (`ShrinkingLoses`); what is left are the steps that are `Ask`, `Execute`,
  `Configure` and `Answer`. That an answer is a stall exactly when the device refused comes from `lastControl` (`StallsAsRefused`).
* **Data endpoints.** `Flow` is the order of everything: what was sent came before what the writer holds, that before the queue, the queue before
  what the reader holds, and with the lost ones these are all that was received. `OrderPreserved` and `NothingVanishes` alone are not inductive: a
  pop from the queue keeps `sent` in order only because the queue was. Entries of an injector carry no number, which is why order is stated
  about numbers (`Ascending`) and lanes (`Marked`: the priority lane has no packet of the device's). `Counted` says what `zlpCount` knows: whether the last packet the reader is through with was a ZLP, and if so that
  nothing longer came since; without it a ZLP could be pushed next to another.
* **Data endpoints implement the channel.** With `Flow` the first entry that carries a number is the least in transit, so `WriterSend` is `Deliver`; a
  packet that is dropped moves to `Lost` (a `Lose`), all other steps leave the three sets as they are.
* **Manager.** Which threads exist is a function of how far `main` has come (`CreatedSoFar`); `SETUP` is stored at
  the very beginning only, and each exit from the setup leaves another value (`SetupBehind`); `RELAYING` is only stored
  after all threads were started (`RelayingAhead`); `main` is in `stopEps` only after the join (`StopEpsPlace`).
* **Setup.** That what is injected and filtered is what is meant for its endpoint is not inductive: it depends on every list handed out before. `Joined` says
  it of the lists (`AppliedAsMeant`, `GivenAsMeant`), whether or not anything has gone through them. Who is meant for an endpoint changes when the
  endpoints of a new configuration become known, while injectors already push; `InTime` says for each place of the setup what can be connected by
  then, namely that up to that step it is endpoint 0 alone, for which only the device counts (`MeantStays`, `QuietKeepsJoined`). Which of the filters given to an endpoint then act on a packet, on
  its way out and on the answer, is a matter of its flags (`ActingAsMeant`, `FlagsAsMeant`). The proof looks into no
  descriptor, so it holds for any device, regular or not, any plugins and any command line. It is in `ManagerProofs`, since it is about the same thread.
* **Devices and endpoints.** Neither `RegularDevicesWork` nor `EndpointsMatch` is inductive: whether a step meets a null pointer, and which endpoints
  it takes, depends on the descriptors read long before. `SetupInv` carries them along. The model's configurations are what the constructors make of the descriptors
  sent (`ModelRead`), the filters are plugins of the command line (`FiltersLoaded`), what is set is one of those configurations
  (`ConfigurationKnown`), what an endpoint's file got is a pair of one of its settings (`OpenedKnown`), and queues are named after descriptors of
  their own endpoint, so that no two endpoints share one (`QueuesKnown`). Most actions leave all this alone and only go on (`MovesOn`); that one of them crashes is excluded by
  `NoNullMet`, where `Regular` is used: a regular device is set to a configuration, has all settings below the highest, answers with one of them, has as many
  endpoint descriptors as it says, and as many configurations at the other speed, if it works at that. From the number of endpoints follows that no place for one is empty (`MatchingIsThere`) and that none is written behind the array. `Sensible` excepts the command lines
  whose plugins or numbers end the process by themselves; none of it is assumed of the device's contents beyond that.
* **The walks over the descriptors.** The same settings are collected three times: by the constructors, by `HostProxy_GadgetFS::setConfig` and by
  `start_data_relaying`. That these agree for any device rests on lemmas about the operators. `Nth` enumerates a finite set of places in
  order (`NthInverts`: the k-th element is the one with k elements up to it, by a bijection onto 1..n), so an interface's places are filled with the descriptors behind it, and hold all of them if there are places enough
  (`EndpointsOf`; `Slots` is the array) and a setting is the last of its number (`Alternates`, `Counts`). Then all that is relayed was sent
  (`RelayedIsSent`), and all that was sent is relayed if the device repeats no setting (`SentIsRelayed`); the last descriptor of an endpoint exists because the triples
  are bounded (`LatestIsThere`); and two speeds that are alike have the same endpoints in the same places (`SameEndpoints`), for `PairsMatch`.
  No operator that a theorem reaches folds over a sequence: `Interfaces` is a function on the places where interfaces start.
* **GadgetFS.** The holder of the mutex is the thread between `lock` and `delete` (`MutexHeld`), and what it has
  done so far fixes pointer, aiocb and count (`ClosedState`), so a second closer meets a null pointer. An
  aiocb of the OUT direction is deleted by another thread only after `please_stop` (`StopComesFirst`, `ReaderCloses`, `ReaderSafe`);
  before it, the buffer holds the latest arrival (`OutBuffer`) and `InHand` counts those between the kernel and the queue. A write in
  progress has the writer's latest packet in its buffer, and until `please_stop` it keeps the writer where it takes no other (`InRequest`).
* **LibUSB proxy.** Whoever calls `connect` has a null handle (`ConnectsAfresh`). A marked entry's interface is held
  (`ClaimsGranted`), an entry that was defined names an interface of one of its number's endpoints (`DefinedAsLaidOut`), and a transfer found its
  entry marked (`TransferMarked`). For the throttle: as long as the only bulk reader has not slept, `rxAttempt` is 0
  where it is tested (`NapCounted`), since other endpoints only clear it.
* **TCP tunnel.** The requests' numbers increase along the way: what the host side has got, then the stream of answers, then the device side's request, then
  the stream of requests (`AnswersGot`, `AnswersBehind`, `RequestsAhead`). An answer can only be late, never early. Until the host side has left a
  `SET_CONFIGURATION` behind it listens for no endpoint (`NotYetSet`), a connection waits only where somebody listens (`BacklogListened`), so the device side is
  still opening endpoints and has not answered (`ConfigAnswersAreLate`).

Only model-checked: every liveness property, and with it the fairness of `QueueContract`; and two properties of `DeviceSetup`, `ModelDefined` and
`DescriptorsFaithful`. They compare lengths added up, and sequences put together, over all descriptors, and what a
fold computes for every input needs induction over data, which the provers cannot do here. All other invariants and action properties of the passing runs are proved. The types of all state machines but `DeviceSetup` are proved (its theorems need no more of the types than `SetupInv` says); only `SafeQueue` checks them in a run as well. Liveness under
fairness and `ENABLED` are beyond the prover.

## 6. What is not modelled

* Formatting, logging, `print`, and the contents of packets. The rewriting in MassStorage, KeyLogger, ROT13, UDPHID and Callback is
  never reached (section 4), nor is the one in Power, which crashes first (`DeviceSetup` has that); PcapLogger, StreamLog and ZeroMQ only write packets somewhere.
* What nothing in the program calls or reaches: `Manager::cleanup`, `remove_filter` and `remove_injector` (`stopEps` always ends in `exit(-1)`),
  `add_plugin`, `destroy_plugins`, `disconnect` and `reset` of the proxies, constructors from raw descriptors.
* `DeviceProxy_Loopback`, a stub: `send_data` fills a copy of the slot and frees the slot, the ring has no lock, and `receive_data` returns null.
  `DeviceProxy_Callback` and `DeviceProxy_dot11`: what their calls return is decided by another program; the relays' models allow anything a proxy may return.
* Over TCP: packet boundaries of the data endpoints, endpoints of alternate settings, requests with data to the device, lost connections (see `TcpTunnel`).
* GadgetFS: mounting, and a stall after the data stage of a host-to-device request. Descriptors: an interface number not below `bNumInterfaces`, the remote wakeup bit.
* Memory: leaks, double frees beyond the aiocbs, exhaustion.
* `SIGUSR1`, which only interrupts system calls. A thread that it does not reach ends with `exit(-1)`.
* The ZeroMQ proxy thread, `greengrass/main.cpp` beyond the loop it shares with usb-mitm, the tools, the Node.js client, packaging.

## 7. What could come next

1. `Descriptors`: that `Adjusted` changes intervals only. It would say of `DescriptorsFaithful`, for any device, what does not depend on
   lengths; the rest of that property, and `ModelDefined`, need induction over the sequence.
2. The liveness properties, with a prover for `ENABLED`.
3. `DeviceProxy_Loopback`, once it is more than a stub (section 6).
