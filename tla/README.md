# Verification of the redroid vendor extensions

TLA+ modules that model the programs of this repository, TLC configurations that
check them on small instances, and TLAPS proofs of the results that hold for every
instance. Sources are named relative to `src/`; `PROJECT.json` maps every definition
to the lines it models.

    tlc -config MCDhcpServer.cfg MCDhcpServer      # one run
    tlapm DhcpServerProofs.tla                     # one module of proofs

## 1. The system

The repository adds GNSS, Wi-Fi, network and battery support to Android in a
container. Its own programs run as separate processes, started by `redroid.ext.rc`
and two shell scripts. A network namespace (`router`) made by `createns` stands
between the container's outer interface and the virtual radios; services enter it with
`execns`, which finds it through a pid file. Inside run the DHCP
server and the IPv6 neighbor discovery proxy; the DHCP client runs in the main
namespace on the radio side.

| Part | State | Operations | Talks to |
|---|---|---|---|
| DHCP server (`wifi/dhcp/server`) | leases by (interface, MAC), next offset by interface | discover, request; look up or make a lease, offer, acknowledge, refuse | DHCP client over UDP broadcast; kernel ioctls |
| DHCP client (`wifi/dhcp/client`) | state, back-off, T1 and T2, last message, offered address and server | the six states of `run`, `waitAndReceive`, `configureDhcp`, `haltNetwork` | DHCP server over a packet socket; netlink |
| DHCP messages (`wifi/dhcp/common`) | the next transaction id, one per process | build and decode messages and options | both of the above |
| GNSS measurement and antenna info (`gps/gnss/common/utils/default/v2_1`) | static callbacks; per object a mutex, `mIsActive`, a thread | setCallback, close, destructor; report | the location service over HIDL; its own threads |
| GNSS session (`.../include/v2_1/GnssTemplate.h`, as `GnssHidlHal`) | static callbacks, mutex, `mIsActive`, thread, mock location | setCallback, start, stop, cleanup, inject and debug calls; report satellites and location | location service; blocklist of the AIDL configuration |
| GNSS configuration (`gps/gnss/aidl/default/GnssConfiguration.cpp`) | the two blocklist sets | setBlocklist, look-up | AIDL thread, session reporter |
| AIDL measurement interface, power indication (`gps/gnss/aidl/default`) | callback, `mIsActive`, detached threads; callback, counter of locations | setCallback, close, report; requestGnssPowerStats, notePowerConsumption | location service over AIDL (two binder threads); session reporter |
| GNSS root, PSDS, debug, NMEA and mock data | none that changes | object factories, constant answers | |
| IPv6 proxy (`network/ipv6proxy`) | inner interfaces that came up, the packet being handled | start-up, outer and inner messages, forward, rewrite, routes, DNS properties | kernel (packet and ICMPv6 sockets, netlink), init's properties |
| Namespaces (`network/createns`, `network/execns`) | the namespace, its mount and pid file | create and wait; enter and exec | set-up script, all services |
| Set-up script (`network/init.redroid.net.sh`) and services (`redroid.ext.rc`) | place and configuration of devices, running services | one pass at boot; init restarts what ends | all of the above |
| Radio creation (`wifi/mac80211_create_radios`) | none | one request per radio | set-up script, kernel |
| Battery and gps files, hostapd configuration | none | data | |

What is hard here:

* **Threads.** The HIDL objects start a reporter thread each, share static callbacks
  between objects and join threads inside calls. `mIsActive` has no initial value.
* **Messages.** DHCP replies are broadcast, matched by transaction id alone, and may
  be lost, late or repeated; every client process counts its ids from 1.
* **Timers.** The client combines a randomised back-off, T1 and T2 in 32-bit
  arithmetic and a poll loop that goes on with the time that remains.
* **Partial failure.** `configureDhcp` and `haltNetwork` change several things of
  which any may fail; the server answers a failed ioctl with a refusal.
* **Restarts.** Leases, transaction ids and callbacks live in memory, kernel routes
  and properties do not; init starts ended services again.
* **Start-up.** The script, `createns` and the services run concurrently and meet in
  a pid file that is created before it is written and that init has filled with
  another pid before.
* **Buffers.** The proxy rewrites every copy of a message in the buffer it came in.

What makes each part correct, in one line: the server never gives one address to
two clients nor loses one; the client uses only what was given to it, is configured
whenever it counts on a lease, and always gets on; no reporter outlives its session
or calls a callback that is gone, and calls return; blocklisted satellites are not
used and a location holds what was asked for; an active measurement interface is
reported to; services and devices meet in one namespace and every service comes up; the proxy passes messages on unchanged but for its own link address and leaves
only routes that lead somewhere.

## 2. Modules

| Module | Models | Checked by |
|---|---|---|
| `AddressPool` | abstract: what a DHCP server promises about addresses | refined by `DhcpServer` |
| `DhcpServer` | the server | `MCDhcpServer.cfg`, `DhcpServerProofs` |
| `DhcpClient` | the client | `MCDhcpClient.cfg`, `MCDhcpNak.cfg`, `DhcpClientProofs` |
| `DhcpSystem` | composes both with the links | `MCDhcpSystem.cfg`, `MCDhcpLiveness.cfg`, `DhcpSystemProofs` |
| `GnssReporter` | measurement and antenna objects and their threads | `MCGnssReporter.cfg`, `MCGnssReset.cfg`, `GnssReporterProofs` |
| `GnssSession` | location session, mock location and blocklist | `MCGnssSession.cfg`, `GnssSessionProofs` |
| `GnssAidl` | AIDL measurement interface and power indication | `MCGnssAidl.cfg`, `GnssAidlProofs` |
| `Ipv6Proxy` | the neighbor discovery proxy | `MCIpv6Proxy.cfg`, `Ipv6ProxyProofs` |
| `NetSetup` | set-up script, createns, execns, radios, services under init | `MCNetSetup.cfg`, `MCNetUplink.cfg`, `NetSetupProofs` |

Definitions named "Mutation: ..." are plausible bugs of the definition that follows
them. Each property is run against one of them and has to fail there. They are part of
no specification.

### DhcpServer
One request is one step: the server has a single thread and answers before it reads
again. `mLeases` and `mNextAddressOffsets` are the two maps; 0 stands for an absent
entry. `sent` records what this process has broadcast. Addresses are naturals and a
netmask is the number of addresses under it (`Span`), so `address & ~mask` is
`address % Span`. The search loop of `getOfferAddress` is the operator `StopOffset`.
A refused request also runs `getOfferAddress`, as `isValidDhcpRequest` does, and so may
make a lease; a failed interface query refuses without touching anything. `Restart` is
the end of the process and its successor.

### DhcpClient
`poll` is what remains of the ppoll timeout, `Idle` when the switch of `run` comes
next. Each case and branch of the switch is an action, each accepted reply another.
Ignored messages leave the client waiting, as the inner loop does. Time passes by
`Tick`, only while a client waits. Timeouts are in ticks, `Second` ticks make a second,
and `Word` and `XidSpace` stand for 2^32. `ReceiveAckFails` applies any prefix of the
configuration. The two uninitialized members start as `Unset`, which no address equals.

### DhcpSystem
`DhcpServer` and `DhcpClient` are instantiated side by side. `requests` and `replies`
only grow: a datagram that is never read was lost, one that is read twice was
repeated, and any may be read next. Replies are seen by all clients of the interface.
`Strangers` are requests of another make of client on the same link. The lease time is
written as it lies in memory and read with `ntohl`: `Word` is `Byte`^4, and with
`Byte` = 2 the time 2 is read as 4 just as 600 is read as 1476526080 (then T1 is
738263040 and T2, after the overflow of `7 * leaseTime`, 218218496 seconds).

### GnssReporter
A call is split at every place where another thread can get in: taking the mutex,
clearing `mIsActive`, joining, starting, clearing the callbacks. The reporter looks at
the callback without the mutex to choose a version, takes the mutex, tests it again
and calls. All calls run on one thread: `gps/gnss/aidl/default/service.cpp` configures
a HIDL pool of one.

### GnssSession
The HIDL thread, the AIDL thread that replaces the blocklist and the reporter. The
filter takes one satellite at a time, in any order. The history variables `list`,
`throughout` and `ever` say which satellites were named by every list, or any list,
since the round began. `debug` with a location parses its options (`setLocation`) and
writes the fields one by one without the mutex (`writeField`); the reporter reads them
one by one (`getLocationFromHW`) and then lets the lines of the location file replace
any of them. `current` is the history of the values a field may be asked to have;
`unasked` collects the fields that were read with another one. `cleanup` clears the
callbacks without the mutex and `std::stof` throws on a line or an option that is no
number, so `Crash` and `Restart` are steps: the process ends and is started again.

### GnssAidl
One measurement object and the power indication, served by the binder threads
(`service.cpp:38`: the pool's first thread and one more). `setCallback` is split at the
flag and at the thread, `close` between the flag, which it clears without the mutex,
and the callback. Reporters are detached: `Reporters` bounds how many can be alive, as
`setCallback` within the sleep of the last one leaves it running beside the new one.
The counter of `GnssPowerIndication` starts at zero (the object is value-initialized)
and is advanced without the mutex; only the session's reporter does it, so the race
with a reader is the choice of which value is read. A request reads it once for each of
the three energies that depend on it, and each read is a step.

### NetSetup
`script` is the next command of `init.redroid.net.sh`; a command that fails is passed
over, as the shell does. A command that makes, moves, addresses or brings up a device
fails for want of a device, a pid or a namespace, or by itself, which costs a fault and
is kept in the history `failed`; consecutive commands for the same device are one step,
of which the first or a later one may fail. The others (`rm`, `cat`, `setprop`) are
taken to work; that `cat` finds no file is modelled. `createns` goes from unshare to mount, opening and writing the
pid file, and waits. `place` and `configured` say where each device is and whether the
commands that bring it up have worked. A service is `exec` (execns about to enter the
namespace), `begin` (the program looking for its devices) or `serve`; when it ends,
init starts it again unless it is a oneshot. At boot `router.pid` holds 1, so that
without the router namespace every service that names it runs in the main one.
Processes other than createns are told apart only by their namespace, pids are not
reused, and the 24 rounds of the rules of the main namespace are one step with
the renaming.

### Ipv6Proxy
Start-up, then one message at a time; every copy that is sent and every property that
is set is a step, so the process can be killed between two of them. The options of a
router advertisement are walked in state `Extracting`, `opt` and `prop` being the two
loops of `extractRecursiveDnsServers`; each `property_set` may fail, since nobody looks
at its result. `missed` is the history of the properties the newest RDNSS option did
not get to, for whichever reason. The buffer is `packet`; `received` and
`sent` are histories. An option is a record; an option of length zero is its own
successor in the walk, which then never ends (state `Looping`). Packet sockets bound
to one protocol do not see the packets their own host sends, so a forwarded message
is not read again.

## 3. Runs

| Run | What it shows |
|---|---|
| `server` | leases distinct, no address lost, replies agree, refinement of `AddressPool` |
| `client` | a lease is always configured; requests name an offer; a bound client does not oversleep; every state but Init and Selecting ends, Renewing unless acknowledgements that cannot be applied keep coming |
| `client_nak` (violated) | a refused client cannot start over |
| `dhcp_system` | a client uses only what the server gave to it and keeps for it |
| `dhcp_liveness` | the client keeps coming back to Bound over a lossy link, with the lease time as it is really read |
| `gnss_reporter` | callbacks guarded, no reporter left behind or doubled, close returns |
| `gnss_reset` (violated) | setCallback on an active object may never return |
| `gnss_session` | blocklist respected, locations hold what was asked for, one reporter, none left behind, calls return |
| `gnss_aidl` | an active object has a reporter, left-over reporters end, no energy told of ever goes down |
| `ipv6_proxy` | every interface tried, messages faithful in source, options and link addresses, DNS servers of one option but for those it did not get to set, routes lead to hosts that were heard |
| `net_setup` | services and bridge on one side, a finished script has every device moved and configured for which no command failed, the script ends, every service comes up whose devices are there |
| `net_uplink` (violated) | the script may end without having moved eth0, with no fault at all |

### Bounds
* `server`: one subnet of eight addresses, one of four (a single address beside the
  server's own, so that it runs out), one excluded interface. Two clients; the
  requested addresses include absent, right, another client's and one of the other
  subnet. The state is finite without further bounds, and the proofs cover the rest.
* `client`: one client (clients share nothing), timeouts 1, 2 and 4 ticks with a
  variation of 1, so the back-off reaches its limit and a wait can shrink to nothing.
  `Word` = 16 ticks and lease times 0, 3 and 8 seconds make both the truncated wait
  (8 s are 16 ticks) and the overflow of `7 * leaseTime` happen. The violated run
  uses a larger `Word`, so that its counterexample does not depend on an overflow.
* `dhcp_system`: `MaxSends` = 3 messages per client process (discover, request and one
  retry or renewal) and `MaxCrashes` = 1 process of either kind. The bounds stop the
  client, so deadlock is not checked. In `dhcp_liveness` no bound takes effect: the
  ids wrap around at `XidSpace` = 3 and never exceed `MaxSends`.
* `gnss_reporter`: one object of each class, in the violated run as well. The system may really stop (all objects
  destroyed, or the deadlock of `gnss_reset`), so deadlock is not checked.
* `gnss_session`: three satellites of two constellations, all lists over a wildcard
  and a single satellite; two fields and two values of a location, enough for one
  field to be old and the other new, or left out.
* `gnss_aidl`: two binder threads (what the pool has), three reporters (two left over
  and a new one), one callback and two locations counted.
* `net_setup`: two looks at eth0 instead of 20 and two faults of any kind (commands for
  a device that fail by themselves, a failed or killed createns, refused radios,
  services that die), so that a device can lose any two of its commands, with and without iptables, wifi
  and radio. `net_uplink` has no fault. The script ends, so deadlock is not checked.
* `ipv6_proxy`: two inner interfaces, behind one a host without an address yet and
  behind the other one with an address, and four option lists: repeated link options,
  one and two RDNSS options, more servers than properties, fewer servers after more, an
  option past the end and one of length zero. Any of the eight `property_set` calls of
  the longest list may be the last one, or fail. Two routers, or a host on both inner
  interfaces, are left to the proofs.

### Fairness
* Client: its process runs and time passes (weak fairness of `Run`, `Tick` and
  `Timeout`). Nothing is assumed of what arrives.
* DHCP system, only for `dhcp_liveness`: a link that is not dead. A client that keeps
  sending gets a message of each type through, keeps getting answers and reads one in
  time (strong fairness of each); any finite number may be lost before.
* GNSS: threads run. Strong fairness of the steps that take a mutex is justified by
  the sleep of a second in every round of a reporter, during which it is free. The
  session's interval can be set to less, even to none; then it is free while the
  satellites are filtered and the location is read, and a call that waits for the
  thread has cleared `mIsActive` before.
* AIDL objects: the same; a thread that waits for a mutex gets it in the end, since
  every holder keeps it for a few steps only.
* Set-up: createns, the script and the services run, and init starts ended services
  again (weak fairness of each). The host may never answer and nothing has to fail.
* Server and proxy: none; their properties are safety properties.

### What the kernel is taken to do
An interface that is down neither sends nor receives; `Interface::setAddress` replaces
the address, and zero clears it, as its callers count on; a route request that cannot
be sent is lost. The default route of the client is left out: `setDefaultGateway` asks
for no acknowledgement, so the code cannot tell whether it was made. The addresses of
the server's interfaces do not change while it runs: the script assigns them before.
A few digits are written to a file in one piece or not at all, a device that changes
its namespace loses its addresses and is down, and a namespace can be entered through
a pid only while that process lives.

## 4. Findings

1. **A refused client is stuck** (`client_nak`). "Request denied, halt network and
   start over" (`dhcpclient.cpp:271`): the link is taken down, and only an
   acknowledgement, which needs the link, would bring it up.
2. **setCallback can block for ever** (`gnss_reset`). It joins the reporter while
   holding the mutex the reporter needs (`GnssMeasurement.cpp:79-84`).
3. **eth0 may stay behind** (`net_uplink`). "Create a namespace named router and move
   eth0 to it" (`init.redroid.net.sh:10`): the script takes a pid file that exists for
   one that holds the pid (49, 55), but createns creates the file before it writes it
   (`createns.cpp:106`, `133`). With an empty pid every move fails.

Seen while modelling, and built into the conditions of the properties:

* A client whose configuration keeps failing renews for as long as it is
  acknowledged: `configureDhcp` sets T2 (`dhcpclient.cpp:406`) before the steps that
  fail, although 266-268 expect a full timeout. Hence the premise of `RenewingEnds`.
* Two clients of this make on one link have equal transaction ids
  (`message.cpp:24`) and take each other's replies. `AddressAcknowledged` is checked for
  one client beside another make, and proved under `OwnLinks`.
* The static callbacks of the measurement object are "Guarded by mMutex"
  (`GnssMeasurement.h:54`), of which each object has its own. `NullNeverCalled` needs
  `OneObjectPerClass`.
* A proxy that is killed, or whose `property_set` fails, between two of the four calls
  (`proxy.cpp:81`, `86`) leaves new servers beside old ones, although the comment at 84
  wants none left: the properties survive the process and only the next option sets
  them again. Hence `missed` in `ServersOfOneOption`.
* T2 is smaller than T1 with the lease time as it is read, so a client that renews
  goes on to rebind at once.
* Without the router namespace eth0 is renamed to veth0, after which a restarted
  DHCP server, which looks eth0 up, cannot start.
* `create_radios` says it deletes all existing radios (`main.cpp:171`); it never does.

## 5. Proofs

Every safety invariant of the runs that pass, the action property `StatsNeverGoBack` and
the refinement of `AddressPool` are theorems, for every value of the constants the
assumptions allow. TLC evaluates the assumptions on every run. The invariants below
that make a property inductive are stated beside the proofs, unless the component's
module has them already.

| Module | Assumptions | Theorems |
|---|---|---|
| `DhcpServerProofs` | `InterfaceAssumption`: indices positive, addresses natural, subnets not empty; `RequestAssumption`: what requests carry is natural | `ServerTypeCorrect`, `ServerLeasesDistinct`, `ServerLosesNoAddress`, `ServerRepliesAgree`, `ServerImplementsPool` |
| `DhcpClientProofs` | `ClientAssumption`: the timeouts are positive, ordered and fit the word; addresses are not 0 | `ClientTyped`, `LeasedIsConfigured`, `RequestsAreOfOffers`, `BoundWakesForT1` |
| `DhcpSystemProofs` | `LinkAssumption`: interfaces as for the server, clients attached to them | under `OwnLinks`: `AddressesAreAcknowledged`, `LeasesAreKept`, `AddressesAreNotShared` |
| `GnssReporterProofs` | `ObjectAssumption` | `ReporterTypeCorrect`, `ReporterStops`, `ReporterIsAlone`; under `OneObjectPerClass`: `CallbackGuarded` |
| `GnssSessionProofs` | `LocationAssumption`: the mock location has its fields; `SourceAssumption`: satellites and sources are pairs of constellation and svid | `SessionTyped`, `NoReporterOutlivesItsSession`, `ReporterStartedOnce`, `FilterKeepsToTheLists`, `LocationIsAsked` |
| `GnssAidlProofs` | `MaxNotedAssumption`; `ThreadAssumption`: no thread is called "free" | `AidlTyped`, `ActiveObjectReports`, `StatsAreMonotonic` |
| `Ipv6ProxyProofs` | `ProxyAssumption`: the inner interfaces are a sequence without repetitions and without the outer one; `OptionAssumption`: options are records with a type, RDNSS options have a sequence of servers | `ProxyTyped`, `NoInterfaceSkipped`, `CopiesAreFaithful`, `DnsOfOneOption`, `RoutesAreGrounded` |
| `NetSetupProofs` | `SetupAssumption`: at least one look at eth0 | `SetupTyped`, `ServicesOnTheirSide`, `ScriptEndsConfigured` |

### DhcpServerProofs
None of the three safety invariants is inductive. A new lease is distinct only because
every lease lies below the next offset (`LeasesBelowOffset`); no address is lost only
because every usable address below it has an owner (`NoGap`); replies agree because
they are what is leased (`RepliesMatchLeases`). `IndInv` is the conjunction with
`TypeOK` and `LeasesDistinct`. The arithmetic is settled once: within a subnet the
search steps over the server's own address only (`SkippedIsOwn`), so it stops where it
starts or one further (`StopOffsetSpec`).

### DhcpClientProofs
The arithmetic comes first: truncation to a word makes a time no longer, back-off stays
between the initial and the largest timeout, and fuzz within its span (`Truncated`,
`BackOff`, `Fuzz`). `LeaseIsConfigured` and `NeverOversleeps` are inductive beside
`TypeOK`. `RequestsNameAnOffer` needs `OfferKept`: from the offer on, through all states
that send requests, the two members that start uninitialized are set.

### DhcpSystemProofs
A client tells replies apart by their transaction id, so the theorems are about clients
that have their ids to themselves on their link. That is `OwnLinks`: no two clients on a
link (a process serves the one interface it is given) and strangers with ids the client does not use.
Without it the properties fail, as section 4 says. `Wire` says what then follows step by
step: requests come from a client and carry its address (`RequestsApart`), so a reply
with an id of a client on its link is meant for it (`RepliesApart`); and what was offered
or acknowledged is still leased, until the server has lost its leases (`RepliesKept`).
`AddressAcknowledged` is inductive beside `Wire`. `LeaseKept` needs `OfferKept`: already
while it requests, a client asks for what the server keeps for it, because a NAK, which
would end that, also ends the state. `AddressNotShared` follows from both and from the
leases being distinct. The instance of the server brings no theorem along, so this part
is proved again, in the weaker form needed here: that the search for an address ends at
all, and not before it starts (`SearchEnds`), is shown by taking the least offset
that is not skipped.

### GnssReporterProofs
`ThreadInv` adds to the invariants of the run what they need: a thread whose object is
not active is being joined (`InactiveIsJoined`), no thread is left when close clears
(`ClearedIsQuiet`), and a reporter uses callbacks of its own class (`TargetsOwn`).

### GnssSessionProofs
`TypeOK` is not inductive: that the thread can be started only from "none" depends on
where the HIDL call is, which `SessionPhases` says; `StoppedMeansQuiet` and `OneReporter`
follow from it. The filter takes satellites one by one while lists change, so
`FilterProgress` speaks of those it has come to and those it has not, in terms of the
lists the round has seen; the two sets of the configuration are those of the last list
(`SetsOfList`), and looking a satellite up in them is the same as being named by it
(`LookupIsNames`). `WriteProgress` says that a half-written location consists of values
that were asked for.

### GnssAidlProofs
`ActiveHasReporter` speaks of an object at rest. What holds at every step is
`ReporterUnlessLocked`: an active object with a callback has a reporter unless
somebody is inside `setCallback`, who will start one. `StatsNeverGoBack` needs that
only one thread at a time reads and delivers (`PowerMutexHeld`), and that each count it
has read so far (`HasRead`) lies between the last delivery and the counter
(`StatsInOrder`).

### Ipv6ProxyProofs
`InitLoop` is the invariant of the loop of `run`: before the position the interfaces
that are ready, behind it those still to be tried, none twice, and only those that failed
are missing; `Erased` says what removing an element does to a sequence. For the copies,
`InHand`: the buffer differs from what was received only in link addresses the
proxy has replaced before, which are the very ones it replaces again. That rewriting does not
change how far the walk over the options gets is `WalkByTypes`; that it reaches
every option that fits when it ends is `WalkReaches`. `HeardInHand` ties the message to
where it was heard, for the routes. For the DNS properties,
`HalfSet` says what holds between two calls: the properties before `prop` that are not
in `missed` are those of the option being walked, and the ones from `prop` on are all in
`missed`. It needs that the options walked are still those of the message
(`Unwritten`), which is rewritten only later. A kill leaves `missed` as it is, which is
why the property outlives it.

### NetSetupProofs
`HandOver` is what script, createns and pid file know of one another: the pid init wrote
is gone before createns can be looked for, and a pid the script has read stays in the
file. With `NothingStartedYet` it gives `SameSide`. `EndsConfigured` needs to follow each
device along the commands: not there before its command (`NotMadeYet`), moved by it and
configured by the next (`DevicesOnTheirWay`). Any command may fail by itself, any number
of times, so this is said of the devices that are `Clean`, for which none has failed;
failures are never forgotten, so a device that is clean after a step was so before and
the step, if it was for this device, worked (`CleanStays`).

### Only model-checked
The liveness properties, as fairness and ENABLED are beyond the prover: `StatesEnd` and
`RenewingEnds` of the client, `KeepsGettingBound` of the DHCP system, `CloseReturns` and
`CallsReturn` of the GNSS objects, `LeftoversEnd` of the AIDL interface, `ScriptEnds` and
`ServicesComeUp` of the set-up. The three violated properties are shown by their
counterexamples.

## 6. Not modelled, and why

* GNSS root, PSDS, debug and HIDL configuration: object factories and constant answers.
  The one hazard of the root, two threads creating the configuration at start-up, is
  listed in `PROJECT.json`. The HIDL blacklist is shadowed by the AIDL one.
* Mock data (`Utils.cpp`): constant tables, of which the session model takes the list of
  satellites as a parameter. The NMEA parser is called by nothing in the service.
* The calls that inject or delete, which change no state the session uses.
  `setPositionMode` and `setPositionMode_1_1` write `mMinIntervalMs`
  (`GnssTemplate.h:366`, `467`), which is only the length of the reporter's sleep (272);
  the model lets any number of steps pass during a sleep.
* Byte layout of messages, options and netlink requests: data no property tells apart.
* `wifi/init.redroid.wifi.sh`: the predecessor of the network script, which nothing
  starts. The gps and battery scripts: copies of files, done before any reader runs.
* A short write of the pid (`createns.cpp:142` would then loop): the kernel does not cut
  writes of a few bytes to a local file.
* Destruction of the AIDL measurement object beside its detached thread: what follows
  is undefined.

## 7. Plan

Done, in this order: the server and its abstract pool; the client; their composition;
the reporter threads; the session; the proxy; proofs for server and reporters; the
location of the session and the lease time on the wire; the AIDL objects; the set-up of
namespaces and services.

Proofs for all of them followed, component by component; section 5 has the argument of
each. What the prover cannot do is listed there too. Still worth stating as theorems:

1. action properties beside the invariants proved: that a client changes its address
   only with an accepted reply or a new process, that the pid file is written once;
2. that `DhcpSystem` implements `DhcpServer` until the server is restarted, which would
   carry the server's other theorems over to the composition.

Nothing with behaviour of its own is left to model; what is left out, and why, is
section 6. A host that moves between inner interfaces of the proxy keeps a route to
each (`router.cpp:96` creates and does not replace), as `routes` of `Ipv6Proxy` does.
