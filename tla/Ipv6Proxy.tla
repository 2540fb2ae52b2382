------------------------------ MODULE Ipv6Proxy ------------------------------
(***************************************************************************)
(* The neighbor discovery proxy of the router namespace (network/          *)
(* ipv6proxy): it forwards router and neighbor messages between the outer  *)
(* interface and the inner ones, rewriting link addresses in the one       *)
(* buffer the message was received in, and sets up routes on the way.      *)
(* Every send to an interface and every property that is set is a step of  *)
(* its own, so that the process can be killed between two of them; kernel  *)
(* routes and system properties survive it, and init starts the service    *)
(* again.                                                                  *)
(*                                                                         *)
(* Destination addresses are passed on untouched and left out.  Options    *)
(* are records [type, link | servers]; type "Zero" stands for an option of *)
(* length zero, "Beyond" for one that reaches past the message.            *)
(***************************************************************************)
EXTENDS Integers, Sequences, FiniteSets, SequencesExt

CONSTANTS
    Outer,          \* the interface given with -o
    InnerIfs,       \* the interfaces given with -i, a sequence
    Sources,        \* Sources[i]: the source addresses in use on i
    Unspecified,    \* the address ::
    OptionLists     \* the option sequences messages carry

Interfaces == {Outer} \cup ToSet(InnerIfs)
Addrs == UNION {Sources[i] : i \in Interfaces}
Types == {"RS", "RA", "NS", "NA", "Other"}
Packets(i) == [type : Types, src : Sources[i], opts : OptionLists]

ASSUME ProxyAssumption ==
    /\ Outer \notin ToSet(InnerIfs) /\ Len(InnerIfs) >= 1
    /\ Cardinality(ToSet(InnerIfs)) = Len(InnerIfs)
    /\ InnerIfs \in Seq(ToSet(InnerIfs))

\* Options are records with a type; the servers of an RDNSS option are a sequence.
ASSUME OptionAssumption ==
    \A opts \in OptionLists :
        /\ opts \in Seq(ToSet(opts))
        /\ \A k \in DOMAIN opts :
             /\ "type" \in DOMAIN opts[k]
             /\ opts[k].type = "Rdnss" => opts[k].servers \in Seq(ToSet(opts[k].servers))

VARIABLES
    state,          \* "Stopped", "Starting", "Polling", "Extracting", "Forwarding",
                    \* "Looping"
    mInnerIfs,      \* the vector of inner interfaces
    it,             \* position of the initialization loop in it
    from,           \* where the message being handled came from
    packet,         \* the message, rewritten in place
    todo,           \* the interfaces forward is still to be called for
    opt,            \* the option of the message that is looked at for servers
    prop,           \* number of the property that is set next
    ipv6dns,        \* the properties net.eth0.ipv6dns1 to 4
    routes,         \* kernel: <<address, interface>> of the host routes
    gateways,       \* kernel: <<next hop, interface>> of the default routes
    tried,          \* history: interfaces init was called on, with the result
    received,       \* history: the message as it was received
    sent,           \* history: the last message put on a wire
    heard,          \* history: <<source, interface>> of solicitations and
                    \* advertisements; on the outer interface of routers only
    missed          \* history: the properties the RDNSS option looked at last
                    \* has not set: not yet, or no more, or in vain

walk == <<opt, prop>>
proc == <<state, mInnerIfs, it, from, packet, todo, walk>>
dns == <<ipv6dns, missed>>
kernel == <<routes, gateways>>
history == <<tried, received, sent, heard>>
vars == <<proc, dns, kernel, history>>

None == [type |-> "None"]
NoServer == "none"
MaxServers == 4

------------------------------------------------------------------------------
\* firstOpt and nextOpt: the options up to the first one that does not fit.
\* The walk does not get past an option of length zero: its successor is the
\* option itself.
Walked(opts) ==
    {k \in DOMAIN opts : /\ \A j \in 1..k : opts[j].type # "Beyond"
                         /\ \A j \in 1..(k - 1) : opts[j].type # "Zero"}

Endless(opts) == \E k \in Walked(opts) : opts[k].type = "Zero"

\* Mutation: stop at the first option of the type.
rewriteFirstLinkAddressOption(opts, i, optionType) ==
    [k \in DOMAIN opts |->
        IF /\ k \in Walked(opts) /\ opts[k].type = optionType
           /\ \A j \in 1..k - 1 : opts[j].type # optionType
        THEN [opts[k] EXCEPT !.link = i] ELSE opts[k]]

\* An interface stands for its link address.
rewriteLinkAddressOption(opts, i, optionType) ==
    [k \in DOMAIN opts |->
        IF k \in Walked(opts) /\ opts[k].type = optionType
        THEN [opts[k] EXCEPT !.link = i] ELSE opts[k]]

\* Mutation: a property without a new server keeps the old one.
OldServerFor(servers, n) == IF n <= Len(servers) THEN servers[n] ELSE ipv6dns[n]

\* One RDNSS option: the first servers are set and the rest cleared.
ServerFor(servers, n) == IF n <= Len(servers) THEN servers[n] ELSE NoServer

------------------------------------------------------------------------------
Init ==
    /\ state = "Stopped"
    /\ mInnerIfs = <<>> /\ it = 1
    /\ from = Outer /\ packet = None /\ todo = <<>> /\ opt = 1 /\ prop = 1
    /\ ipv6dns = [n \in 1..MaxServers |-> NoServer] /\ missed = {}
    /\ routes = {} /\ gateways = {}
    /\ tried = [i \in ToSet(InnerIfs) |-> "no"]
    /\ received = None /\ sent = None /\ heard = {}

\* main and run: the outer interface and the router socket are ready.  (When
\* they are not the process exits at once and nothing has changed.)
Start ==
    /\ state = "Stopped"
    /\ state' = "Starting" /\ mInnerIfs' = InnerIfs /\ it' = 1
    /\ tried' = [i \in ToSet(InnerIfs) |-> "no"]
    /\ UNCHANGED <<from, packet, todo, walk, dns, kernel, received, sent, heard>>

\* Interface::init on an inner interface: flags, addresses and sockets, of
\* which each may fail.
interfaceInit(i, ok) == tried' = [tried EXCEPT ![i] = IF ok THEN "ready" ELSE "failed"]

\* Mutation: the loop advances after an erase as well.
initInnerSkips(ok) ==
    /\ state = "Starting" /\ it <= Len(mInnerIfs)
    /\ interfaceInit(mInnerIfs[it], ok)
    /\ mInnerIfs' = IF ok THEN mInnerIfs ELSE RemoveAt(mInnerIfs, it)
    /\ it' = it + 1
    /\ UNCHANGED <<state, from, packet, todo, walk, dns, kernel, received, sent, heard>>

\* An interface that fails is erased while the loop goes on.
initInner(ok) ==
    /\ state = "Starting" /\ it <= Len(mInnerIfs)
    /\ interfaceInit(mInnerIfs[it], ok)
    /\ \/ ok /\ it' = it + 1 /\ UNCHANGED mInnerIfs
       \/ ~ok /\ mInnerIfs' = RemoveAt(mInnerIfs, it) /\ UNCHANGED it
    /\ UNCHANGED <<state, from, packet, todo, walk, dns, kernel, received, sent, heard>>

startPolling ==
    /\ state = "Starting" /\ it > Len(mInnerIfs)
    /\ state' = IF mInnerIfs = <<>> THEN "Stopped" ELSE "Polling"
    /\ UNCHANGED <<mInnerIfs, it, from, packet, todo, walk, dns, kernel, history>>

\* The messages by which a neighbor on i shows where it is.
Announcements(i) == IF i = Outer THEN {"RA"} ELSE {"NS", "NA"}

\* The message p was received on i and is to be forwarded to the interfaces ifs.
Handle(i, p, ifs) ==
    /\ from' = i /\ packet' = p /\ received' = p /\ todo' = ifs
    /\ heard' = heard \cup {<<p.src, i>> : t \in {p.type} \cap Announcements(i)}
    /\ sent' = None

handleOuterMessage(p) ==
    /\ state = "Polling"
    /\ p.type \in {"RA", "NS", "NA"}
    /\ Handle(Outer, p, mInnerIfs)
    /\ state' = IF p.type = "RA" THEN "Extracting" ELSE "Forwarding"
    /\ UNCHANGED <<mInnerIfs, it, walk, dns, kernel, tried>>

\* property_set, whose result nobody looks at.
property_set(n, value) ==
    LET before == IF n = 1 THEN 1..MaxServers ELSE missed IN
    \/ ipv6dns' = [ipv6dns EXCEPT ![n] = value] /\ missed' = before \ {n}
    \/ UNCHANGED ipv6dns /\ missed' = before

\* Mutation: one property too many.
setOneMoreProperty ==
    /\ packet.opts[opt].type = "Rdnss"
    /\ property_set(prop, ServerFor(packet.opts[opt].servers, prop))
    /\ \/ prop <= MaxServers /\ prop' = prop + 1 /\ UNCHANGED opt
       \/ prop > MaxServers /\ prop' = 1 /\ opt' = opt + 1
    /\ UNCHANGED state

\* The four properties, one after the other, then the next option.
setProperty ==
    /\ packet.opts[opt].type = "Rdnss"
    /\ property_set(prop, ServerFor(packet.opts[opt].servers, prop))
    /\ \/ prop < MaxServers /\ prop' = prop + 1 /\ UNCHANGED opt
       \/ prop = MaxServers /\ prop' = 1 /\ opt' = opt + 1
    /\ UNCHANGED state

\* Another option is skipped; the loop does not get past one of length zero.
skipOption ==
    /\ \/ packet.opts[opt].type \notin {"Rdnss", "Zero"} /\ opt' = opt + 1 /\ UNCHANGED state
       \/ packet.opts[opt].type = "Zero" /\ state' = "Looping" /\ UNCHANGED opt
    /\ UNCHANGED <<prop, dns>>

\* The loop over the options of a router advertisement.
extractRecursiveDnsServers ==
    /\ state = "Extracting"
    /\ \/ opt \in Walked(packet.opts) /\ (setProperty \/ skipOption)
       \/ /\ opt \notin Walked(packet.opts) /\ opt' = 1
          /\ state' = "Forwarding" /\ UNCHANGED <<prop, dns>>
    /\ UNCHANGED <<mInnerIfs, it, from, packet, todo, kernel, history>>

\* Router advertisements of inner hosts are not forwarded.
handleInnerMessage(i, p) ==
    /\ state = "Polling" /\ i \in ToSet(mInnerIfs)
    /\ p.type \in {"RS", "NS", "NA"}
    /\ Handle(i, p, <<Outer>>)
    /\ state' = "Forwarding"
    /\ UNCHANGED <<mInnerIfs, it, walk, dns, kernel, tried>>

\* Mutation: routes to neighbors on the outer side as well.
AddsRouteOnBothSides == packet.type \in {"NS", "NA"}

\* The options forward is called with.
RewritesTarget == packet.type = "NA"
RewritesSource == packet.type = "RA"
SpoofsSource == packet.type \in {"RS", "NS"} \/ (packet.type = "NA" /\ from # Outer)
AddsRoute == from # Outer /\ packet.type \in {"NS", "NA"}
SetsGateway == packet.type = "RA"

Rewritten(to) ==
    [packet EXCEPT !.opts =
        CASE RewritesTarget -> rewriteLinkAddressOption(@, to, "TargetLink")
          [] RewritesSource -> rewriteLinkAddressOption(@, to, "SourceLink")
          [] OTHER -> @]

\* The source address of what is sent: IPV6_PKTINFO with :: leaves the choice
\* to the kernel, which takes an address of the interface, as sendTo does.
SourceOn(to) == IF SpoofsSource /\ packet.src # Unspecified THEN packet.src ELSE to

\* The kernel has at most one route for an address and an interface.
addRoute(a, i) == routes' = routes \cup {<<a, i>>}
setDefaultGateway(a, i) == gateways' = gateways \cup {<<a, i>>}

\* A failed send is logged and the route is added nevertheless; a route
\* request that cannot be sent is lost.
forward ==
    LET to == Head(todo) IN
    /\ state = "Forwarding"
    /\ ~((RewritesTarget \/ RewritesSource) /\ Endless(packet.opts))
    /\ packet' = Rewritten(to)
    /\ \/ sent' = [to |-> to, src |-> SourceOn(to), packet |-> packet']
       \/ sent' = None
    /\ \/ AddsRoute /\ addRoute(packet.src, from)
       \/ UNCHANGED routes
    /\ \/ packet.type = "RA" /\ SetsGateway /\ setDefaultGateway(packet.src, from)
       \/ UNCHANGED gateways
    /\ todo' = Tail(todo)
    /\ state' = IF todo' = <<>> THEN "Polling" ELSE "Forwarding"
    /\ UNCHANGED <<mInnerIfs, it, from, walk, dns, tried, received, heard>>

\* The walk over the options does not end.
rewriteForever ==
    /\ state = "Forwarding"
    /\ (RewritesTarget \/ RewritesSource) /\ Endless(packet.opts)
    /\ state' = "Looping"
    /\ UNCHANGED <<mInnerIfs, it, from, packet, todo, walk, dns, kernel, history>>

\* ppoll fails, or the process is killed; what it kept in memory is gone.
Stop ==
    /\ state # "Stopped"
    /\ state' = "Stopped"
    /\ mInnerIfs' = <<>> /\ it' = 1
    /\ from' = Outer /\ packet' = None /\ todo' = <<>> /\ opt' = 1 /\ prop' = 1
    /\ tried' = [i \in ToSet(InnerIfs) |-> "no"]
    /\ received' = None /\ sent' = None
    /\ UNCHANGED <<dns, kernel, heard>>

Next ==
    \/ Start
    \/ \E ok \in BOOLEAN : initInner(ok)
    \/ startPolling
    \/ \E p \in Packets(Outer) : handleOuterMessage(p)
    \/ \E i \in ToSet(InnerIfs) : \E p \in Packets(i) : handleInnerMessage(i, p)
    \/ extractRecursiveDnsServers
    \/ forward
    \/ rewriteForever
    \/ Stop

Spec == Init /\ [][Next]_vars

------------------------------------------------------------------------------
\* The shape of the state; the four DNS properties are always all there.
TypeOK ==
    /\ state \in {"Stopped", "Starting", "Polling", "Extracting", "Forwarding", "Looping"}
    /\ ToSet(mInnerIfs) \subseteq ToSet(InnerIfs) /\ it \in 1..Len(InnerIfs) + 1
    /\ from \in Interfaces /\ ToSet(todo) \subseteq Interfaces
    /\ state \in {"Extracting", "Forwarding"} => todo # <<>>
    /\ opt \in Nat \ {0} /\ prop \in 1..MaxServers /\ missed \subseteq 1..MaxServers
    /\ DOMAIN ipv6dns = 1..MaxServers
    /\ routes \subseteq Addrs \X Interfaces /\ gateways \subseteq Addrs \X Interfaces

\* Once the proxy polls, every inner interface named on the command line was
\* tried, and the vector holds exactly those that are ready, each once: the
\* erase inside the loop of run() skips none.
EveryInterfaceTried ==
    state \in {"Polling", "Extracting", "Forwarding", "Looping"} =>
        /\ \A i \in ToSet(InnerIfs) : tried[i] # "no"
        /\ ToSet(mInnerIfs) = {i \in ToSet(InnerIfs) : tried[i] = "ready"}
        /\ Cardinality(ToSet(mInnerIfs)) = Len(mInnerIfs)

\* What reaches an interface is the message as it was received.  Its source is
\* that of the message if the message is a solicitation or comes from inside,
\* and that is a real address, and else an address of the interface it leaves
\* by; link addresses are those of that very interface wherever the proxy
\* answers for the sender: although all copies share the buffer, no interface
\* is given the link address of another.
ForwardedFaithfully ==
    sent # None =>
        /\ sent.packet.type = received.type
        /\ sent.src = IF /\ received.type \in {"RS", "NS"} \/ from # Outer
                         /\ received.src # Unspecified
                      THEN received.src ELSE sent.to
        /\ \A k \in DOMAIN received.opts :
               LET o == received.opts[k] IN
               sent.packet.opts[k] =
                   IF /\ \A j \in 1..k : received.opts[j].type # "Beyond"
                      /\ \/ received.type = "NA" /\ o.type = "TargetLink"
                         \/ received.type = "RA" /\ o.type = "SourceLink"
                   THEN [o EXCEPT !.link = sent.to] ELSE o

\* The DNS properties hold the servers of one RDNSS option, and no server that
\* was left over from an older one, but for those the newest option has not set:
\* as long as it is at it, after a kill between two calls, and where a call
\* failed.  The next option that sets them all makes up for it.
ServersOfOneOption ==
    LET new == (1..MaxServers) \ missed IN
    \/ \A n \in new : ipv6dns[n] = NoServer
    \/ \E opts \in OptionLists : \E k \in DOMAIN opts :
          /\ opts[k].type = "Rdnss"
          /\ \A n \in new :
                ipv6dns[n] = IF n \in DOMAIN opts[k].servers
                             THEN opts[k].servers[n] ELSE NoServer

\* Whatever was forwarded before, and however often the proxy was restarted, a
\* host route leads to an inner interface on which that host solicited or
\* advertised, and a default route to a router heard on the outer interface.
RoutesLeadToSources ==
    /\ \A r \in routes : r[2] # Outer /\ r \in heard
    /\ \A g \in gateways : g[2] = Outer /\ g \in heard
=============================================================================
