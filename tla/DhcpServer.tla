------------------------------ MODULE DhcpServer ------------------------------
(***************************************************************************)
(* The DHCP server of wifi/dhcp/server: one thread that reads requests     *)
(* from a UDP socket and answers each before it reads the next, so a       *)
(* request is one step.  The leases and the per-interface address offsets  *)
(* are its only memory; both live in the process and are lost when init    *)
(* restarts the service.                                                   *)
(*                                                                         *)
(* Addresses are naturals in host byte order.  A netmask is given by the   *)
(* number of addresses under it: Span[i] = ~mask + 1, so that for an       *)
(* address a, (a & ~mask) is a % Span[i].                                  *)
(***************************************************************************)
EXTENDS Integers

CONSTANTS
    Interfaces,         \* interface indices; 0 means "unknown" to the code
    ExcludeInterface,   \* the index given with --exclude-interface
    Macs,               \* client hardware addresses (chaddr)
    Xids,               \* transaction ids a request may carry
    Ips,                \* addresses a DHCPREQUEST may ask for (0: option absent)
    IfAddr,             \* IfAddr[i]: the address configured on interface i
    Span,               \* Span[i]: number of addresses under i's netmask
    LeaseTime           \* kDefaultLeaseTime, as addOption copies it to a reply

ASSUME InterfaceAssumption ==
    /\ Interfaces \subseteq Nat \ {0}
    /\ IfAddr \in [Interfaces -> Nat]
    /\ Span \in [Interfaces -> Nat \ {0}]

ASSUME RequestAssumption ==
    /\ Ips \subseteq Nat
    /\ LeaseTime \in Nat

VARIABLES
    mLeases,                \* (interface, MAC) -> address, 0 when none yet
    mNextAddressOffsets,    \* interface -> next offset from the network address
    sent                    \* the replies this process has broadcast

vars == <<mLeases, mNextAddressOffsets, sent>>

Keys == Interfaces \X Macs

Request == [type : {"DISCOVER", "REQUEST"}, xid : Xids, mac : Macs, ip : Ips]

Reply == [type : {"OFFER", "ACK", "NAK"}, iface : Interfaces, xid : Xids,
          mac : Macs, yiaddr : Nat, server : Nat, lease : Nat]

------------------------------------------------------------------------------
\* Address arithmetic: interfaceAddress & mask, interfaceAddress | ~mask.

Network(i) == IfAddr[i] - (IfAddr[i] % Span[i])

Broadcast(i) == Network(i) + Span[i] - 1

\* Mutation: the server's own address counts as a valid host.
isValidHostIsServer(a, i) == a % Span[i] # 0 /\ a % Span[i] # Span[i] - 1

isValidHost(a, i) ==
    /\ a % Span[i] # 0                  \* network address
    /\ a % Span[i] # Span[i] - 1        \* broadcast address
    /\ a # IfAddr[i]                    \* interface address

addressInRange(a, i) == a > Network(i) /\ a < Broadcast(i)

\* The loop "while (!isValidHost && addressInRange) ++nextAddress, ++offset":
\* the first offset from o on at which it stops.
Skipped(o, i) ==
    LET a == Network(i) + o IN ~isValidHost(a, i) /\ addressInRange(a, i)

StopOffset(o, i) ==
    CHOOSE n \in o..(o + Span[i]) :
        ~Skipped(n, i) /\ \A k \in o..(n - 1) : Skipped(k, i)

\* getOfferAddress for a key without a lease: where the search starts (an
\* offset of zero is first made one) and the offset it ends with.
StartOffset(i) == IF mNextAddressOffsets[i] = 0 THEN 1 ELSE mNextAddressOffsets[i]

CandidateOffset(i) == StopOffset(StartOffset(i), i)

Candidate(i) == Network(i) + CandidateOffset(i)

OutOfAddresses(i) == ~addressInRange(Candidate(i), i)

\* The address getOfferAddress hands back, 0 for "out of addresses".
OfferAddress(i, mac) ==
    IF mLeases[<<i, mac>>] # 0 THEN mLeases[<<i, mac>>]
    ELSE IF OutOfAddresses(i) THEN 0 ELSE Candidate(i)

\* Mutation: the offset also advances when there was no address to hand out.
getOfferAddressCountsFailures(i, mac) ==
    /\ mLeases' = [mLeases EXCEPT ![<<i, mac>>] = OfferAddress(i, mac)]
    /\ mNextAddressOffsets' =
         IF mLeases[<<i, mac>>] # 0 THEN mNextAddressOffsets
         ELSE [mNextAddressOffsets EXCEPT ![i] = CandidateOffset(i) + 1]

\* Mutation: the offset does not move past the address handed out.
getOfferAddressStays(i, mac) ==
    /\ mLeases' = [mLeases EXCEPT ![<<i, mac>>] = OfferAddress(i, mac)]
    /\ mNextAddressOffsets' =
         IF mLeases[<<i, mac>>] # 0 THEN mNextAddressOffsets
         ELSE [mNextAddressOffsets EXCEPT ![i] = CandidateOffset(i)]

\* Mutation: the offset also advances for a client that has a lease.
getOfferAddressWastes(i, mac) ==
    /\ mLeases' = [mLeases EXCEPT ![<<i, mac>>] = OfferAddress(i, mac)]
    /\ mNextAddressOffsets' =
         [mNextAddressOffsets EXCEPT ![i] =
             CandidateOffset(i) + (IF OutOfAddresses(i) THEN 0 ELSE 1)]

\* Mutation: the address handed out is not remembered as a lease.
getOfferAddressForgets(i, mac) ==
    /\ mNextAddressOffsets' = [mNextAddressOffsets EXCEPT ![i] =
            CandidateOffset(i) + (IF OutOfAddresses(i) THEN 0 ELSE 1)]
    /\ UNCHANGED mLeases

\* What getOfferAddress does to the server once both interface ioctls worked.
getOfferAddress(i, mac) ==
    /\ mLeases' = [mLeases EXCEPT ![<<i, mac>>] = OfferAddress(i, mac)]
    /\ mNextAddressOffsets' =
         IF mLeases[<<i, mac>>] # 0 THEN mNextAddressOffsets
         ELSE [mNextAddressOffsets EXCEPT ![i] =
                 CandidateOffset(i) + (IF OutOfAddresses(i) THEN 0 ELSE 1)]

------------------------------------------------------------------------------
\* Messages: a reply copies the transaction id and chaddr of its request.

ReplyTo(r, i, type, address, lease) ==
    [type |-> type, iface |-> i, xid |-> r.xid, mac |-> r.mac,
     yiaddr |-> address, server |-> IfAddr[i], lease |-> lease]

\* The reply goes out, or getInterfaceAddress or sendOnInterface fails and the
\* failure is only logged.
sendMessage(reply) == sent' = sent \cup {reply} \/ UNCHANGED sent

isServed(i) == i # ExcludeInterface

------------------------------------------------------------------------------
Init ==
    /\ mLeases = [k \in Keys |-> 0]
    /\ mNextAddressOffsets = [i \in Interfaces |-> 0]
    /\ sent = {}

\* DHCPDISCOVER.  When an interface ioctl fails nothing changes at all.
sendDhcpOffer(i, r) ==
    /\ isServed(i)
    /\ r.type = "DISCOVER"
    /\ getOfferAddress(i, r.mac)
    /\ \/ /\ OfferAddress(i, r.mac) # 0
          /\ sendMessage(ReplyTo(r, i, "OFFER", OfferAddress(i, r.mac), LeaseTime))
       \/ /\ OfferAddress(i, r.mac) = 0
          /\ UNCHANGED sent

\* DHCPREQUEST for the address this server has for the client.  The second
\* getOfferAddress, in sendAck, finds the lease the first one made or found.
sendAck(i, r) ==
    /\ isServed(i)
    /\ r.type = "REQUEST"
    /\ OfferAddress(i, r.mac) # 0
    /\ r.ip = OfferAddress(i, r.mac)
    /\ getOfferAddress(i, r.mac)
    /\ sendMessage(ReplyTo(r, i, "ACK", OfferAddress(i, r.mac), LeaseTime))

\* DHCPREQUEST for anything else, or with no address left: isValidDhcpRequest
\* has run getOfferAddress, which may have made a lease, before it said no.
sendNack(i, r) ==
    /\ isServed(i)
    /\ r.type = "REQUEST"
    /\ OfferAddress(i, r.mac) = 0 \/ r.ip # OfferAddress(i, r.mac)
    /\ getOfferAddress(i, r.mac)
    /\ sendMessage(ReplyTo(r, i, "NAK", 0, 0))

\* Mutation: a client that is refused loses its lease.
sendNackDropsLease(i, r) ==
    /\ isServed(i)
    /\ r.type = "REQUEST"
    /\ sendMessage(ReplyTo(r, i, "NAK", 0, 0))
    /\ mLeases' = [mLeases EXCEPT ![<<i, r.mac>>] = 0]
    /\ UNCHANGED mNextAddressOffsets

\* DHCPREQUEST while the interface cannot be queried (getInterfaceData fails):
\* isValidDhcpRequest is false and the client is told no.
sendNackNoInterface(i, r) ==
    /\ isServed(i)
    /\ r.type = "REQUEST"
    /\ sendMessage(ReplyTo(r, i, "NAK", 0, 0))
    /\ UNCHANGED <<mLeases, mNextAddressOffsets>>

\* Polling fails (any signal will do) and run returns, or the process dies; init
\* starts a new one with empty maps.
Forget ==
    /\ mLeases' = [k \in Keys |-> 0]
    /\ mNextAddressOffsets' = [i \in Interfaces |-> 0]

Restart == Forget /\ sent' = {}

Serve(i, r) == \/ sendDhcpOffer(i, r)
               \/ sendAck(i, r)
               \/ sendNack(i, r)
               \/ sendNackNoInterface(i, r)

Next == \/ \E i \in Interfaces, r \in Request : Serve(i, r)
        \/ Restart

Spec == Init /\ [][Next]_vars

------------------------------------------------------------------------------
\* Properties.

\* The state has its type; offsets never move past the end of the subnet, not
\* even when requests keep coming after the last address was handed out.
TypeOK ==
    /\ mLeases \in [Keys -> Nat]
    /\ mNextAddressOffsets \in [Interfaces -> Nat]
    /\ \A i \in Interfaces : mNextAddressOffsets[i] <= Span[i]
    /\ sent \subseteq Reply

\* The hosts of the subnet of interface i other than the server itself.
Usable(i) == {a \in (Network(i) + 1)..(Broadcast(i) - 1) : a # IfAddr[i]}

Taken(i) == {mLeases[<<i, m>>] : m \in Macs}

\* No two clients of an interface hold the same address, whatever the order in
\* which they appear, ask twice or ask for something else (getOfferAddress).
LeasesDistinct ==
    \A i \in Interfaces : \A m, n \in Macs :
        m # n /\ mLeases[<<i, m>>] # 0 => mLeases[<<i, m>>] # mLeases[<<i, n>>]

\* The server says "out of addresses" only when every usable address of the
\* subnet has an owner: no lookup, refusal or skipped address loses one for good
\* (the offset bookkeeping of getOfferAddress).
NoAddressLost ==
    \A i \in Interfaces : OutOfAddresses(i) => Usable(i) \subseteq Taken(i)

\* Over the whole life of a server process all the offers and acknowledgements
\* it broadcast agree: a client is only ever told one address per interface, and
\* an address once told to a client is never told to another (sendDhcpOffer,
\* isValidDhcpRequest and sendAck each run getOfferAddress on their own).
RepliesAgree ==
    \A a, b \in {r \in sent : r.type # "NAK"} :
        a.iface = b.iface => (a.mac = b.mac <=> a.yiaddr = b.yiaddr)

\* What makes the three above inductive.  Every lease lies below the next offset
\* of its interface (so the next address is new), every usable address below that
\* offset has an owner (so none is lost), and what was broadcast is what is leased.
LeasesBelowOffset ==
    \A i \in Interfaces, m \in Macs : mLeases[<<i, m>>] # 0 =>
        /\ mLeases[<<i, m>>] \in Usable(i)
        /\ mLeases[<<i, m>>] < Network(i) + mNextAddressOffsets[i]

NoGap ==
    \A i \in Interfaces : \A a \in Usable(i) :
        a < Network(i) + mNextAddressOffsets[i] => a \in Taken(i)

RepliesMatchLeases ==
    \A r \in sent : r.type # "NAK" =>
        r.yiaddr # 0 /\ mLeases[<<r.iface, r.mac>>] = r.yiaddr

IndInv == /\ TypeOK
          /\ LeasesBelowOffset
          /\ LeasesDistinct
          /\ NoGap
          /\ RepliesMatchLeases

\* The server implements the abstract address pool: its leases change only by
\* one grant of a free, usable address at a time, or all vanish with the process.
Pool == INSTANCE AddressPool WITH pool <- mLeases
PoolSpec == Pool!Spec

==============================================================================
