------------------------------ MODULE DhcpSystem ------------------------------
(***************************************************************************)
(* DHCP clients and the DHCP server on the links between them.  A request  *)
(* reaches the server on the interface its sender is attached to; replies  *)
(* are broadcast on that interface, so every client attached to it may     *)
(* read them.  Datagrams are lost (nobody ever reads them), duplicated     *)
(* (they stay on the wire) and reordered (any of them may be read next).   *)
(***************************************************************************)
EXTENDS Integers

CONSTANTS
    Interfaces, ExcludeInterface, Macs, IfAddr, Span, LeaseTime,
    Clients, kInitialTimeout, kMaxTimeout, kTimeoutSpan, NoGateway,
    Second, Word, XidSpace,
    Byte,           \* 2^8 in the code: Word is Byte^4
    Attached,       \* Attached[c]: the server interface client c is linked to
    MacOf,          \* MacOf[c]: the hardware address of client c
    Strangers,      \* requests of other makes of client, seen on the links any time
    Faults,         \* what may go wrong: "ioctl", "configure"
    MaxSends,       \* bound: messages a client process builds before it rests
    MaxCrashes      \* bound: processes that die and are started again

ASSUME WordAssumption == Byte \in Nat \ {0} /\ Word = Byte^4

\* Interfaces have an address and a netmask, as in DhcpServer; clients are attached to
\* them.
ASSUME LinkAssumption ==
    /\ Interfaces \subseteq Nat \ {0}
    /\ IfAddr \in [Interfaces -> Nat] /\ Span \in [Interfaces -> Nat \ {0}]
    /\ Attached \in [Clients -> Interfaces] /\ MacOf \in [Clients -> Macs]
    /\ XidSpace \in Nat \ {0} /\ MaxSends \in Nat
    /\ \A q \in Strangers : q.iface \in Interfaces /\ q.mac \in Macs /\ q.xid \in Nat

VARIABLES
    mLeases, mNextAddressOffsets,
    mState, mNextTimeout, mFuzzNextTimeout, poll, mT1, mT2, mLastMsg,
    mRequestAddress, mServerAddress, up, addr,
    requests,       \* datagrams of clients on the wire
    replies,        \* datagrams of the server on the wire
    crashes,        \* processes that were replaced so far
    forgot          \* history: one of them was the server, with its leases

\* Every address of the subnets the server hands addresses out of.
Addresses == UNION {{IfAddr[i] - (IfAddr[i] % Span[i]) + h : h \in 1..Span[i]} :
                    i \in Interfaces}

S == INSTANCE DhcpServer WITH
        sent <- replies, Xids <- 0..(XidSpace - 1), Ips <- Addresses \cup {0}

\* ntohl on a little-endian machine: the four bytes of a word in reverse.
ntohl(w) ==
    LET b(k) == (w \div Byte^k) % Byte
    IN  b(0) * Byte^3 + b(1) * Byte^2 + b(2) * Byte + b(3)

C == INSTANCE DhcpClient WITH
        Servers <- {IfAddr[i] : i \in Interfaces}, Times <- {0, ntohl(LeaseTime)}

serverVars == <<mLeases, mNextAddressOffsets, replies, crashes, forgot>>
clientVars == <<mState, mNextTimeout, mFuzzNextTimeout, poll, mT1, mT2, mLastMsg,
                mRequestAddress, mServerAddress, up, addr>>
vars == <<serverVars, clientVars, requests>>

Init == S!Init /\ C!Init /\ requests = {} /\ crashes = 0 /\ forgot = FALSE

\* What a client broadcasts: its link carries the last message it built.
Datagram(c) ==
    [iface |-> Attached[c], type |-> mLastMsg'[c].type, xid |-> mLastMsg'[c].xid,
     mac |-> MacOf[c], ip |-> mLastMsg'[c].ip]

\* A client evaluates its state; a message it builds goes out if the link is up
\* and sending works.
ClientRuns(c) ==
    /\ mLastMsg[c].xid < MaxSends \/ mState[c] \in {"Init", "Bound"}
    /\ C!Run(c)
    /\ \/ mLastMsg'[c] # mLastMsg[c] /\ up[c] /\ requests' = requests \cup {Datagram(c)}
       \/ UNCHANGED requests
    /\ UNCHANGED serverVars

ClientWaits(c) ==
    /\ C!Tick(c) \/ C!Timeout(c)
    /\ UNCHANGED <<requests, serverVars>>

\* A reply as the client reads it.  The server puts kDefaultLeaseTime in the option
\* as it is in memory and the client reads it with ntohl; there is no T1 or T2 option.
Read(r) == [type |-> r.type, xid |-> r.xid, yiaddr |-> r.yiaddr, server |-> r.server,
            lease |-> ntohl(r.lease), t1 |-> 0, t2 |-> 0]

ClientReceives(c, r) ==
    /\ r.iface = Attached[c]
    /\ \/ C!ReceiveOffer(c, Read(r)) \/ C!ReceiveAck(c, Read(r)) \/ C!ReceiveNak(c, Read(r))
       \/ "configure" \in Faults /\ C!ReceiveAckFails(c, Read(r))
    /\ UNCHANGED <<requests, serverVars>>

ServerServes(q) ==
    /\ \/ S!sendDhcpOffer(q.iface, q) \/ S!sendAck(q.iface, q) \/ S!sendNack(q.iface, q)
       \/ "ioctl" \in Faults /\ S!sendNackNoInterface(q.iface, q)
    /\ UNCHANGED <<requests, clientVars, crashes, forgot>>

Crash == crashes < MaxCrashes /\ crashes' = crashes + 1

ServerRestarts ==
    /\ Crash
    /\ S!Forget
    /\ forgot' = TRUE
    /\ UNCHANGED <<replies, requests, clientVars>>

ClientRestarts(c) ==
    /\ Crash
    /\ C!Restart(c)
    /\ UNCHANGED <<mLeases, mNextAddressOffsets, replies, forgot, requests>>

Next == \/ \E c \in Clients : \/ ClientRuns(c) \/ ClientWaits(c) \/ ClientRestarts(c)
                              \/ \E r \in replies : ClientReceives(c, r)
        \/ \E q \in requests \cup Strangers : ServerServes(q)
        \/ ServerRestarts

Spec == Init /\ [][Next]_vars

\* A link that is not dead: processes keep running, and a client that goes on
\* sending messages of a type gets one through in the end, has its latest one
\* answered in the end and reads an answer in time in the end.  Any number of
\* datagrams may still be lost, late or repeated before.
Sends(c, type) ==
    /\ ClientRuns(c)
    /\ mLastMsg'[c] # mLastMsg[c] /\ mLastMsg'[c].type = type
    /\ Datagram(c) \in requests'

Answered(c, type) ==
    \E q \in requests :
        /\ q.mac = MacOf[c] /\ q.xid = mLastMsg[c].xid /\ q.type = type
        /\ ServerServes(q)
        /\ \E r \in replies' : r.mac = q.mac /\ r.xid = q.xid

Reads(c, type) == \E r \in replies : r.type = type /\ ClientReceives(c, r)

Fairness == \A c \in Clients :
    /\ WF_vars(ClientRuns(c)) /\ WF_vars(ClientWaits(c))
    /\ \A t \in {"DISCOVER", "REQUEST"} : SF_vars(Sends(c, t)) /\ SF_vars(Answered(c, t))
    /\ \A t \in {"OFFER", "ACK"} : SF_vars(Reads(c, t))

FairSpec == Spec /\ Fairness

------------------------------------------------------------------------------
\* Properties.

\* A client only ever uses an address the server acknowledged to this client, on
\* this interface: "the server has accepted and acknowledged a request and given us
\* a lease" (run, Bound).  Replies are matched by transaction id alone
\* (receiveDhcpMessage), which is enough beside clients of another make.
AddressAcknowledged ==
    \A c \in Clients : C!Leased(c) =>
        \E r \in replies : /\ r.type = "ACK"
                           /\ r.iface = Attached[c] /\ r.mac = MacOf[c]
                           /\ r.yiaddr = addr[c]

\* As long as the server has not lost its leases, an address a client uses is
\* never offered or acknowledged to anybody else.
AddressNotShared ==
    \A c \in Clients : ~forgot /\ C!Leased(c) =>
        \A r \in replies : r.iface = Attached[c] /\ r.yiaddr = addr[c] => r.mac = MacOf[c]

\* As long as the server has not lost its leases, the address a client uses is the
\* one the server keeps for it, and its requests name that address too.
LeaseKept ==
    \A c \in Clients : ~forgot /\ C!Leased(c) =>
        /\ addr[c] = mLeases[<<Attached[c], MacOf[c]>>]
        /\ mRequestAddress[c] = addr[c]

\* A client of a working server keeps coming back to Bound, through lost, repeated
\* and late messages, retries and expiring timers.
KeepsGettingBound == \A c \in Clients : []<>(mState[c] = "Bound")
==============================================================================
