--------------------------- MODULE DhcpSystemProofs ---------------------------
(***************************************************************************)
(* DHCP clients and the server on their links, for any number of clients,  *)
(* interfaces and restarts and any subnets.  A client tells its replies    *)
(* from those of others by the transaction id alone, so what is proved     *)
(* holds of clients that have their link to themselves, but for clients of *)
(* another make with transaction ids of their own.                         *)
(***************************************************************************)
EXTENDS DhcpSystem, TLAPS, WellFoundedInduction

\* No two clients share a link, and nobody else on it uses their transaction ids.
OwnLinks ==
    /\ \A c, d \in Clients : Attached[c] = Attached[d] => c = d
    /\ \A q \in Strangers : \A c \in Clients : q.iface = Attached[c] => q.xid > MaxSends

\* The leases lie below the next offset, so that the next address is new.
LeasesTyped ==
    /\ mLeases \in [S!Keys -> Nat] /\ mNextAddressOffsets \in [Interfaces -> Nat]
    /\ \A i \in Interfaces, m \in Macs : mLeases[<<i, m>>] # 0 =>
         mLeases[<<i, m>>] < S!Network(i) + mNextAddressOffsets[i]
    /\ S!LeasesDistinct

\* Clients keep counting their messages, and these can be told from others.
ClientsTyped ==
    /\ DOMAIN mState = Clients /\ DOMAIN mRequestAddress = Clients
    /\ addr = [c \in Clients |-> addr[c]] /\ DOMAIN mLastMsg = Clients
    /\ \A c \in Clients : mLastMsg[c].xid \in 0..MaxSends

\* What is on the wire can be told apart by its transaction id.
RequestsApart ==
    \A q \in requests : \E c \in Clients :
        q.iface = Attached[c] /\ q.mac = MacOf[c] /\ q.xid \in Nat

RepliesApart ==
    \A r \in replies : /\ r.iface \in Interfaces /\ r.mac \in Macs
                       /\ \A c \in Clients : r.iface = Attached[c] /\ r.xid <= MaxSends
                              => r.mac = MacOf[c]
                       /\ r.type = "NAK" => r.yiaddr = 0

\* Until the server loses its leases, whatever it said is still so.
RepliesKept ==
    ~forgot => \A r \in replies : r.type # "NAK" =>
                   r.yiaddr # 0 /\ mLeases[<<r.iface, r.mac>>] = r.yiaddr

\* Until then a client that accepted an offer asks for the address that is kept for it.
OfferKept ==
    \A c \in Clients : ~forgot /\ (mState[c] = "Requesting" \/ C!Leased(c)) =>
        /\ mRequestAddress[c] = mLeases[<<Attached[c], MacOf[c]>>]
        /\ mRequestAddress[c] # 0

------------------------------------------------------------------------------
\* The server.

\* A set of numbers has a least one.
LEMMA Least ==
    ASSUME NEW T \in SUBSET Nat, T # {}
    PROVE  \E x \in T : \A y \in T : x <= y
<1> DEFINE R == OpToRel(<, Nat)
<1>1. PICK x \in T : \A y \in T : ~ (<<y, x>> \in R)
  <2>1. IsWellFoundedOn(R, Nat)
    BY NatLessThanWellFounded
  <2> HIDE DEF R
  <2>2. QED
    BY <2>1, WFMin
<1>2. \A y \in T : <<y, x>> \in R <=> y < x
  BY DEF OpToRel
<1>3. \A y \in T : ~(y < x)
  BY <1>1, <1>2
<1>4. QED
  BY <1>3

\* The network address is a natural number.
LEMMA NetworkNat ==
    ASSUME NEW i \in Interfaces
    PROVE  S!Network(i) \in Nat /\ Span[i] \in Nat \ {0}
<1>1. IfAddr[i] \in Nat /\ Span[i] \in Nat \ {0}
  BY LinkAssumption
<1>2. \A x \in Nat, s \in Nat \ {0} : x - (x % s) \in Nat
  OBVIOUS
<1>3. QED
  BY <1>1, <1>2 DEF S!Network

\* The search for an address ends, and never before where it starts.
LEMMA SearchEnds ==
    ASSUME NEW i \in Interfaces, NEW o \in Nat
    PROVE  S!StopOffset(o, i) \in Nat /\ S!StopOffset(o, i) >= o
<1> DEFINE T == {n \in o..(o + Span[i]) : ~S!Skipped(n, i)}
           P(n) == ~S!Skipped(n, i) /\ \A k \in o..(n - 1) : S!Skipped(k, i)
<1>1. Span[i] \in Nat \ {0} /\ S!Network(i) \in Nat
  BY NetworkNat
<1>2. o + Span[i] \in T
  BY <1>1 DEF S!Skipped, S!addressInRange, S!Broadcast
<1>3. T \in SUBSET Nat
  BY <1>1
<1>4. PICK n \in T : \A k \in T : n <= k
  <2> HIDE DEF T
  <2>1. QED
    BY <1>2, <1>3, Least
<1>5. n \in o..(o + Span[i]) /\ ~S!Skipped(n, i)
  BY <1>4
<1>6. \A k \in o..(n - 1) : S!Skipped(k, i)
  <2>1. SUFFICES ASSUME NEW k \in o..(n - 1), ~S!Skipped(k, i) PROVE FALSE
    OBVIOUS
  <2>2. k \in T /\ k < n /\ n \in Nat /\ k \in Nat
    BY <1>1, <1>5, <2>1
  <2>3. QED
    BY <1>4, <2>2
<1>7. P(n)
  BY <1>5, <1>6
<1>8. S!StopOffset(o, i) = CHOOSE m \in o..(o + Span[i]) : P(m)
  BY DEF S!StopOffset
<1> HIDE DEF P, T
<1>9. S!StopOffset(o, i) \in o..(o + Span[i])
  BY <1>5, <1>7, <1>8
<1>10. QED
  BY <1>1, <1>9

\* What the server has for a client stays, and what it finds for a new one is new.
LEMMA OfferSpec ==
    ASSUME LeasesTyped, NEW i \in Interfaces, NEW mac \in Macs, S!getOfferAddress(i, mac)
    PROVE  /\ LeasesTyped'
           /\ \A k \in S!Keys : mLeases[k] # 0 => mLeases'[k] = mLeases[k]
           /\ mLeases'[<<i, mac>>] = S!OfferAddress(i, mac)
<1> DEFINE k == <<i, mac>>
           n == S!CandidateOffset(i)
           o == mNextAddressOffsets[i]
<1>1. /\ mLeases \in [S!Keys -> Nat] /\ mNextAddressOffsets \in [Interfaces -> Nat]
      /\ k \in S!Keys /\ S!Network(i) \in Nat /\ o \in Nat
  BY NetworkNat DEF LeasesTyped, S!Keys
<1>2. n \in Nat /\ n >= o
  <2>1. S!StartOffset(i) \in Nat /\ S!StartOffset(i) >= o
    BY <1>1 DEF S!StartOffset
  <2>2. QED
    BY <1>1, <2>1, SearchEnds DEF S!CandidateOffset
<1>3. mLeases' = [mLeases EXCEPT ![k] = S!OfferAddress(i, mac)]
  BY DEF S!getOfferAddress
<1>4. CASE mLeases[k] # 0
  <2>1. S!OfferAddress(i, mac) = mLeases[k] /\ mNextAddressOffsets' = mNextAddressOffsets
    BY <1>4 DEF S!OfferAddress, S!getOfferAddress
  <2>2. mLeases' = mLeases
    BY <1>1, <1>3, <2>1
  <2>3. QED
    BY <2>1, <2>2 DEF LeasesTyped, S!LeasesDistinct, S!Network
<1>5. CASE mLeases[k] = 0
  <2> DEFINE a == S!OfferAddress(i, mac)
             p == n + (IF S!OutOfAddresses(i) THEN 0 ELSE 1)
  <2>1. mNextAddressOffsets' = [mNextAddressOffsets EXCEPT ![i] = p]
    BY <1>5 DEF S!getOfferAddress
  <2>2. /\ a = IF S!OutOfAddresses(i) THEN 0 ELSE S!Network(i) + n
    BY <1>5 DEF S!OfferAddress, S!Candidate
  <2>3. /\ a \in Nat /\ p \in Nat /\ p >= o
        /\ a # 0 => a >= S!Network(i) + o /\ a < S!Network(i) + p
    BY <1>1, <1>2, <2>2
  <2> HIDE DEF a, p, n
  <2>4. mLeases' = [mLeases EXCEPT ![k] = a]
    BY <1>3 DEF a
  <2>5. /\ mLeases' \in [S!Keys -> Nat] /\ mNextAddressOffsets' \in [Interfaces -> Nat]
    BY <1>1, <2>1, <2>3, <2>4
  <2>6. ASSUME NEW j \in Interfaces, NEW m \in Macs
        PROVE  /\ <<j, m>> \in S!Keys
               /\ mLeases'[<<j, m>>] = IF j = i /\ m = mac THEN a ELSE mLeases[<<j, m>>]
               /\ mNextAddressOffsets'[j] = IF j = i THEN p ELSE mNextAddressOffsets[j]
    BY <1>1, <2>1, <2>4 DEF S!Keys
  <2>7. ASSUME NEW m \in Macs
        PROVE  mLeases[<<i, m>>] # 0 => mLeases[<<i, m>>] < S!Network(i) + o
    BY DEF LeasesTyped
  <2>8. ASSUME NEW j \in Interfaces, NEW m \in Macs, mLeases'[<<j, m>>] # 0
        PROVE  mLeases'[<<j, m>>] < S!Network(j) + mNextAddressOffsets'[j]
    <3>1. CASE j = i
      <4>1. mLeases[<<i, m>>] \in Nat
        BY <1>1, <2>6
      <4>2. QED
        BY <1>1, <2>3, <2>6, <2>7, <2>8, <3>1, <4>1
    <3>2. CASE j # i
      BY <2>6, <2>8, <3>2 DEF LeasesTyped
    <3>3. QED
      BY <3>1, <3>2
  <2>9. S!LeasesDistinct'
    <3>1. SUFFICES ASSUME NEW j \in Interfaces, NEW m \in Macs, NEW l \in Macs,
                          m # l, mLeases'[<<j, m>>] # 0
                   PROVE  mLeases'[<<j, m>>] # mLeases'[<<j, l>>]
      BY DEF S!LeasesDistinct
    <3>2. mLeases[<<j, m>>] \in Nat /\ mLeases[<<j, l>>] \in Nat
      BY <1>1, <2>6
    <3>3. CASE j = i /\ m = mac
      BY <1>1, <2>3, <2>6, <2>7, <3>1, <3>2, <3>3
    <3>4. CASE j = i /\ l = mac
      BY <1>1, <2>3, <2>6, <2>7, <3>1, <3>2, <3>4
    <3>5. CASE j # i \/ (m # mac /\ l # mac)
      BY <2>6, <3>1, <3>5 DEF LeasesTyped, S!LeasesDistinct
    <3>6. QED
      BY <3>3, <3>4, <3>5
  <2>10. LeasesTyped'
    BY <2>5, <2>8, <2>9 DEF LeasesTyped, S!Keys, S!Network
  <2>11. QED
    BY <1>1, <1>5, <2>4, <2>10 DEF a
<1>6. QED
  BY <1>1, <1>4, <1>5

\* What a request gets: the server keeps its leases in order, and at most one reply goes
\* out, to the one who asked, with the address that is leased to it.
LEMMA ServeSpec ==
    ASSUME LeasesTyped, NEW q, q.iface \in Interfaces, q.mac \in Macs, ServerServes(q)
    PROVE  /\ LeasesTyped'
           /\ \A k \in S!Keys : mLeases[k] # 0 => mLeases'[k] = mLeases[k]
           /\ UNCHANGED <<requests, clientVars, forgot>>
           /\ \/ replies' = replies
              \/ \E r : /\ replies' = replies \cup {r}
                        /\ r.iface = q.iface /\ r.mac = q.mac /\ r.xid = q.xid
                        /\ r.type = "NAK" => r.yiaddr = 0
                        /\ r.type # "NAK" =>
                             r.yiaddr # 0 /\ r.yiaddr = mLeases'[<<q.iface, q.mac>>]
<1> DEFINE a == S!OfferAddress(q.iface, q.mac)
           To(type, address, lease) == S!ReplyTo(q, q.iface, type, address, lease)
<1>1. UNCHANGED <<requests, clientVars, forgot>>
  BY DEF ServerServes
<1>2. ASSUME NEW t, NEW b, NEW l
      PROVE  /\ To(t, b, l).iface = q.iface /\ To(t, b, l).mac = q.mac
             /\ To(t, b, l).xid = q.xid /\ To(t, b, l).type = t /\ To(t, b, l).yiaddr = b
  BY DEF S!ReplyTo
<1>3. CASE S!sendDhcpOffer(q.iface, q) \/ S!sendAck(q.iface, q) \/ S!sendNack(q.iface, q)
  <2>1. S!getOfferAddress(q.iface, q.mac)
    BY <1>3 DEF S!sendDhcpOffer, S!sendAck, S!sendNack
  <2>2. /\ LeasesTyped' /\ mLeases'[<<q.iface, q.mac>>] = a
        /\ \A k \in S!Keys : mLeases[k] # 0 => mLeases'[k] = mLeases[k]
    BY <2>1, OfferSpec
  <2>3. \/ replies' = replies
        \/ a # 0 /\ replies' = replies \cup {To("OFFER", a, LeaseTime)}
        \/ a # 0 /\ replies' = replies \cup {To("ACK", a, LeaseTime)}
        \/ replies' = replies \cup {To("NAK", 0, 0)}
    BY <1>3 DEF S!sendDhcpOffer, S!sendAck, S!sendNack, S!sendMessage
  <2> HIDE DEF a, To
  <2>4. QED
    BY <1>1, <1>2, <2>2, <2>3
<1>4. CASE S!sendNackNoInterface(q.iface, q)
  <2>1. /\ UNCHANGED <<mLeases, mNextAddressOffsets>>
        /\ replies' = replies \/ replies' = replies \cup {To("NAK", 0, 0)}
    BY <1>4 DEF S!sendNackNoInterface, S!sendMessage
  <2>2. LeasesTyped'
    BY <2>1 DEF LeasesTyped, S!Keys, S!Network, S!LeasesDistinct
  <2> HIDE DEF To
  <2>3. QED
    BY <1>1, <1>2, <2>1, <2>2
<1>5. QED
  BY <1>3, <1>4 DEF ServerServes

------------------------------------------------------------------------------
\* The clients.

\* Client c may have gone on to another state, but it has no new offer and no new
\* address, and no more of a lease than it had; the others are where they were.
NothingNew(c) ==
    /\ UNCHANGED <<mRequestAddress, addr>>
    /\ \A d \in Clients : d # c => mState'[d] = mState[d]
    /\ \/ mState'[c] = mState[c]
       \/ mState'[c] \in {"Init", "Selecting"}
       \/ C!Leased(c) /\ C!Leased(c)'

\* Evaluating a state.
LEMMA RunsSpec ==
    ASSUME ClientsTyped, NEW c \in Clients, ClientRuns(c)
    PROVE  /\ ClientsTyped' /\ NothingNew(c) /\ UNCHANGED serverVars
           /\ \/ requests' = requests
              \/ requests' = requests \cup {Datagram(c)} /\ Datagram(c).xid \in Nat
<1>1. /\ DOMAIN mState = Clients /\ DOMAIN mLastMsg = Clients
      /\ DOMAIN mRequestAddress = Clients /\ addr = [d \in Clients |-> addr[d]]
      /\ \A d \in Clients : mLastMsg[d].xid \in 0..MaxSends
      /\ MaxSends \in Nat /\ XidSpace \in Nat \ {0}
  BY LinkAssumption DEF ClientsTyped
<1>2. /\ UNCHANGED serverVars
      /\ requests' = requests \/ requests' = requests \cup {Datagram(c)}
  BY DEF ClientRuns
<1>3. ASSUME NEW s, C!setNextState(c, s),
             UNCHANGED <<mLastMsg, mRequestAddress, addr>>,
             \/ s \in {"Init", "Selecting"}
             \/ C!Leased(c) /\ s \in {"Bound", "Renewing", "Rebinding"}
      PROVE  ClientsTyped' /\ NothingNew(c)
  <2>1. mState' = [mState EXCEPT ![c] = s]
    BY <1>3 DEF C!setNextState
  <2>2. QED
    BY <1>1, <1>3, <2>1 DEF ClientsTyped, NothingNew, C!Leased
<1>4. ASSUME NEW t, NEW ip, NEW sid, C!SendAndWait(c, t, ip, sid), mLastMsg[c].xid < MaxSends
      PROVE  ClientsTyped' /\ NothingNew(c)
  <2> DEFINE x == (mLastMsg[c].xid + 1) % XidSpace
  <2>1. x \in 0..MaxSends
    <3>1. \A y \in Nat, z \in Nat \ {0} : y % z \in Nat /\ y % z <= y
      OBVIOUS
    <3>2. mLastMsg[c].xid + 1 \in Nat /\ mLastMsg[c].xid + 1 <= MaxSends
      BY <1>1, <1>4
    <3>3. QED
      BY <1>1, <3>1, <3>2
  <2>2. /\ mLastMsg' = [mLastMsg EXCEPT ![c] = [type |-> t, xid |-> x, ip |-> ip, sid |-> sid]]
        /\ UNCHANGED <<mState, mRequestAddress, addr>>
    BY <1>4 DEF C!SendAndWait, C!offer, C!iface
  <2> HIDE DEF x
  <2>3. \A d \in Clients : mLastMsg'[d].xid \in 0..MaxSends
    BY <1>1, <2>1, <2>2
  <2>4. QED
    BY <1>1, <2>2, <2>3 DEF ClientsTyped, NothingNew
<1>5. ClientsTyped' /\ NothingNew(c)
  <2>1. CASE C!runBound(c)
    BY <1>1, <2>1 DEF C!runBound, C!offer, C!iface, ClientsTyped, NothingNew
  <2>2. CASE C!runInit(c) \/ C!GiveUp(c)
    BY <1>3, <2>2 DEF C!runInit, C!GiveUp, C!offer, C!iface
  <2>3. CASE C!TimerExpired(c)
    BY <1>3, <2>3 DEF C!TimerExpired, C!Evaluates, C!Leased, C!offer, C!iface
  <2>4. CASE C!runSelecting(c) \/ C!runRequesting(c) \/ C!runRenewing(c) \/ C!runRebinding(c)
    <3>1. mLastMsg[c].xid < MaxSends
      BY <2>4 DEF ClientRuns, C!runSelecting, C!runRequesting, C!runRenewing,
                  C!runRebinding, C!Evaluates
    <3>2. QED
      BY <1>4, <2>4, <3>1 DEF C!runSelecting, C!runRequesting, C!runRenewing, C!runRebinding
  <2>5. QED
    BY <2>1, <2>2, <2>3, <2>4 DEF ClientRuns, C!Run
<1>6. Datagram(c).xid \in Nat
  BY <1>1, <1>5 DEF ClientsTyped, Datagram
<1>7. QED
  BY <1>2, <1>5, <1>6

\* Waiting.
LEMMA WaitsSpec ==
    ASSUME ClientsTyped, NEW c \in Clients, ClientWaits(c)
    PROVE  ClientsTyped' /\ NothingNew(c) /\ UNCHANGED <<requests, serverVars>>
<1>1. UNCHANGED <<mState, mLastMsg, mRequestAddress, addr, requests, serverVars>>
  BY DEF ClientWaits, C!Tick, C!Timeout, C!offer, C!iface
<1>2. QED
  BY <1>1 DEF ClientsTyped, NothingNew, serverVars

\* Client c accepts reply r: an offer, an acknowledgement, which gives it the address or
\* fails at some point, or a refusal.
Accepted(c, r) ==
    /\ r.iface = Attached[c] /\ r.xid = mLastMsg[c].xid
    /\ \/ /\ r.type = "OFFER" /\ addr' = addr
          /\ mState' = [mState EXCEPT ![c] = "Requesting"]
          /\ mRequestAddress' = [mRequestAddress EXCEPT ![c] = r.yiaddr]
       \/ /\ r.type = "ACK" /\ mRequestAddress' = mRequestAddress
          /\ mState[c] \in {"Requesting", "Renewing", "Rebinding"}
          /\ \/ /\ mState' = [mState EXCEPT ![c] = "Bound"]
                /\ addr' = [addr EXCEPT ![c] = r.yiaddr]
             \/ mState' = mState /\ addr' = addr
             \/ mState' = mState /\ addr' = [addr EXCEPT ![c] = r.yiaddr]
       \/ /\ r.type = "NAK" /\ mRequestAddress' = mRequestAddress
          /\ mState' = [mState EXCEPT ![c] = "Init"]
          /\ addr' = addr \/ addr' = [addr EXCEPT ![c] = 0]

\* Receiving.
LEMMA ReceivesSpec ==
    ASSUME ClientsTyped, NEW c \in Clients, NEW r, ClientReceives(c, r)
    PROVE  ClientsTyped' /\ Accepted(c, r) /\ UNCHANGED <<requests, serverVars>>
<1> DEFINE m == Read(r)
<1>1. m.type = r.type /\ m.xid = r.xid /\ m.yiaddr = r.yiaddr
  BY DEF Read
<1> HIDE DEF m
<1>2. /\ DOMAIN mState = Clients /\ addr = [d \in Clients |-> addr[d]] /\ DOMAIN mLastMsg = Clients
      /\ DOMAIN mRequestAddress = Clients
  BY DEF ClientsTyped
<1>3. /\ r.iface = Attached[c] /\ UNCHANGED <<requests, serverVars>>
      /\ \/ C!ReceiveOffer(c, m) \/ C!ReceiveAck(c, m) \/ C!ReceiveNak(c, m)
         \/ C!ReceiveAckFails(c, m)
  BY DEF ClientReceives, m
<1>4. r.xid = mLastMsg[c].xid /\ mLastMsg' = mLastMsg
  BY <1>1, <1>3 DEF C!ReceiveOffer, C!ReceiveAck, C!ReceiveNak, C!ReceiveAckFails, C!Accepts
<1>5. Accepted(c, r)
  <2>1. CASE C!ReceiveOffer(c, m)
    BY <1>1, <1>3, <1>4, <2>1 DEF Accepted, C!ReceiveOffer, C!setNextState, C!iface
  <2>2. CASE C!ReceiveAck(c, m)
    <3>1. addr' = [addr EXCEPT ![c] = r.yiaddr] /\ mRequestAddress' = mRequestAddress
      BY <1>1, <2>2 DEF C!ReceiveAck, C!configureDhcp, C!offer
    <3>2. QED
      BY <1>1, <1>3, <1>4, <2>2, <3>1 DEF Accepted, C!ReceiveAck, C!setNextState, C!AwaitsAck
  <2>3. CASE C!ReceiveAckFails(c, m)
    <3>1. PICK done : C!configureDhcp(c, m, done)
      BY <2>3 DEF C!ReceiveAckFails
    <3>2. addr' = [addr EXCEPT ![c] = r.yiaddr] \/ addr' = addr
      BY <1>1, <1>2, <3>1 DEF C!configureDhcp
    <3>3. mState' = mState /\ mRequestAddress' = mRequestAddress
      BY <2>3 DEF C!ReceiveAckFails, C!control, C!offer
    <3>4. QED
      BY <1>1, <1>3, <1>4, <2>3, <3>2, <3>3 DEF Accepted, C!ReceiveAckFails, C!AwaitsAck
  <2>4. CASE C!ReceiveNak(c, m)
    BY <1>1, <1>3, <1>4, <2>4 DEF Accepted, C!ReceiveNak, C!setNextState, C!offer
  <2>5. QED
    BY <1>3, <2>1, <2>2, <2>3, <2>4
<1>6. ClientsTyped'
  BY <1>2, <1>4, <1>5 DEF ClientsTyped, Accepted
<1>7. QED
  BY <1>3, <1>5, <1>6

\* A client that is started again has neither an offer nor a lease.
LEMMA RestartsSpec ==
    ASSUME ClientsTyped, NEW c \in Clients, ClientRestarts(c)
    PROVE  /\ ClientsTyped' /\ UNCHANGED <<mLeases, mNextAddressOffsets, replies, requests, forgot>>
           /\ mState'[c] = "Init"
           /\ \A d \in Clients : d # c => /\ mState'[d] = mState[d] /\ addr'[d] = addr[d]
                                          /\ mRequestAddress'[d] = mRequestAddress[d]
<1>1. /\ mState' = [mState EXCEPT ![c] = "Init"]
      /\ mLastMsg' = [mLastMsg EXCEPT ![c] = C!NoMessage]
      /\ mRequestAddress' = [mRequestAddress EXCEPT ![c] = C!Unset]
      /\ addr' = [addr EXCEPT ![c] = 0]
      /\ UNCHANGED <<mLeases, mNextAddressOffsets, replies, requests, forgot>>
  BY DEF ClientRestarts, C!Restart
<1>2. C!NoMessage.xid \in 0..MaxSends
  BY LinkAssumption DEF C!NoMessage
<1>3. QED
  BY <1>1, <1>2 DEF ClientsTyped

------------------------------------------------------------------------------
\* What is on the wire, and what the server and the clients make of it.
Wire == LeasesTyped /\ ClientsTyped /\ RequestsApart /\ RepliesApart /\ RepliesKept

\* It stays in order whatever is lost, repeated or late.
LEMMA WireStep == OwnLinks => (Wire /\ [Next]_vars => Wire')
<1> SUFFICES ASSUME OwnLinks, Wire, [Next]_vars PROVE Wire'
  OBVIOUS
<1> USE DEF Wire
<1>1. ASSUME NEW q \in requests \cup Strangers, ServerServes(q) PROVE Wire'
  <2>1. q.iface \in Interfaces /\ q.mac \in Macs
    BY LinkAssumption DEF RequestsApart
  <2>2. \A c \in Clients : q.iface = Attached[c] /\ q.xid <= MaxSends => q.mac = MacOf[c]
    <3>1. CASE q \in requests
      BY <3>1 DEF RequestsApart, OwnLinks
    <3>2. CASE q \in Strangers
      BY <3>2, LinkAssumption DEF OwnLinks
    <3>3. QED
      BY <3>1, <3>2
  <2>3. /\ LeasesTyped' /\ UNCHANGED <<requests, clientVars, forgot>>
        /\ \A k \in S!Keys : mLeases[k] # 0 => mLeases'[k] = mLeases[k]
    BY <1>1, <2>1, ServeSpec
  <2>4. ClientsTyped' /\ RequestsApart'
    BY <2>3 DEF ClientsTyped, RequestsApart, clientVars
  <2>5. ASSUME NEW r \in replies, ~forgot, r.type # "NAK"
        PROVE  r.yiaddr # 0 /\ mLeases'[<<r.iface, r.mac>>] = r.yiaddr
    <3>1. <<r.iface, r.mac>> \in S!Keys
      BY DEF RepliesApart, S!Keys
    <3>2. QED
      BY <2>3, <2>5, <3>1 DEF RepliesKept
  <2>6. CASE replies' = replies
    BY <2>3, <2>4, <2>5, <2>6 DEF RepliesApart, RepliesKept
  <2>7. ASSUME NEW m, replies' = replies \cup {m},
               m.iface = q.iface, m.mac = q.mac, m.xid = q.xid,
               m.type = "NAK" => m.yiaddr = 0,
               m.type # "NAK" => m.yiaddr # 0 /\ m.yiaddr = mLeases'[<<q.iface, q.mac>>]
        PROVE  Wire'
    <3>1. RepliesApart'
      BY <2>1, <2>2, <2>7 DEF RepliesApart
    <3>2. RepliesKept'
      BY <2>3, <2>5, <2>7 DEF RepliesKept
    <3>3. QED
      BY <2>3, <2>4, <3>1, <3>2
  <2>8. QED
    BY <1>1, <2>1, <2>6, <2>7, ServeSpec
<1>2. ASSUME UNCHANGED <<mLeases, mNextAddressOffsets, replies, forgot>>
      PROVE  LeasesTyped' /\ RepliesApart' /\ RepliesKept'
  <2>1. LeasesTyped'
    BY <1>2 DEF LeasesTyped, S!Keys, S!Network, S!LeasesDistinct
  <2>2. RepliesApart' /\ RepliesKept'
    BY <1>2 DEF RepliesApart, RepliesKept
  <2>3. QED
    BY <2>1, <2>2
<1>3. ASSUME NEW c \in Clients, ClientRuns(c) PROVE Wire'
  <2>1. /\ ClientsTyped' /\ UNCHANGED serverVars
        /\ \/ requests' = requests
           \/ requests' = requests \cup {Datagram(c)} /\ Datagram(c).xid \in Nat
    BY <1>3, RunsSpec
  <2>2. Datagram(c).iface = Attached[c] /\ Datagram(c).mac = MacOf[c]
    BY DEF Datagram
  <2>3. RequestsApart'
    BY <2>1, <2>2 DEF RequestsApart
  <2>4. QED
    BY <1>2, <2>1, <2>3 DEF serverVars
<1>4. ASSUME UNCHANGED requests PROVE RequestsApart'
  BY <1>4 DEF RequestsApart
<1>5. ASSUME NEW c \in Clients, ClientWaits(c) PROVE Wire'
  BY <1>2, <1>4, <1>5, WaitsSpec DEF serverVars
<1>6. ASSUME NEW c \in Clients, NEW r \in replies, ClientReceives(c, r) PROVE Wire'
  BY <1>2, <1>4, <1>6, ReceivesSpec DEF serverVars
<1>7. ASSUME NEW c \in Clients, ClientRestarts(c) PROVE Wire'
  BY <1>2, <1>4, <1>7, RestartsSpec
<1>8. CASE ServerRestarts
  <2>1. /\ mLeases' = [k \in S!Keys |-> 0]
        /\ mNextAddressOffsets' = [i \in Interfaces |-> 0]
        /\ forgot' /\ UNCHANGED <<replies, requests, clientVars>>
    BY <1>8 DEF ServerRestarts, S!Forget
  <2>2. LeasesTyped'
    <3>1. \A i \in Interfaces, m \in Macs : <<i, m>> \in S!Keys
      BY DEF S!Keys
    <3>2. \A i \in Interfaces, m \in Macs : mLeases'[<<i, m>>] = 0
      BY <2>1, <3>1
    <3>3. mLeases' \in [S!Keys -> Nat] /\ mNextAddressOffsets' \in [Interfaces -> Nat]
      BY <2>1
    <3>4. QED
      BY <3>2, <3>3 DEF LeasesTyped, S!LeasesDistinct, S!Keys
  <2>3. ClientsTyped' /\ RequestsApart'
    BY <2>1 DEF ClientsTyped, RequestsApart, clientVars
  <2>4. RepliesApart' /\ RepliesKept'
    BY <2>1 DEF RepliesApart, RepliesKept
  <2>5. QED
    BY <2>2, <2>3, <2>4
<1>9. CASE UNCHANGED vars
  <2>1. ClientsTyped' /\ RequestsApart'
    BY <1>9 DEF ClientsTyped, RequestsApart, vars, clientVars
  <2>2. QED
    BY <1>2, <1>9, <2>1 DEF vars, serverVars
<1>10. QED
  BY <1>1, <1>3, <1>5, <1>6, <1>7, <1>8, <1>9 DEF Next

\* It is in order at the start.
LEMMA WireInit == Init => Wire
<1> SUFFICES ASSUME Init PROVE Wire
  OBVIOUS
<1>1. /\ mLeases = [k \in S!Keys |-> 0] /\ mNextAddressOffsets = [i \in Interfaces |-> 0]
      /\ replies = {} /\ requests = {}
  BY DEF Init, S!Init
<1>2. \A i \in Interfaces, m \in Macs : mLeases[<<i, m>>] = 0
  BY <1>1 DEF S!Keys
<1>3. LeasesTyped
  BY <1>1, <1>2 DEF LeasesTyped, S!LeasesDistinct
<1>4. ClientsTyped
  BY LinkAssumption DEF Init, C!Init, C!NoMessage, ClientsTyped
<1>5. QED
  BY <1>1, <1>3, <1>4 DEF Wire, RequestsApart, RepliesApart, RepliesKept

\* A reply that a client accepts is meant for it.
LEMMA AcceptedIsOwn ==
    ASSUME Wire, NEW c \in Clients, NEW r \in replies, Accepted(c, r)
    PROVE  r.iface = Attached[c] /\ r.mac = MacOf[c]
  BY LinkAssumption DEF Wire, ClientsTyped, RepliesApart, Accepted

------------------------------------------------------------------------------
\* The server's part in a step: nothing a client keeps changes, replies stay on the wire,
\* and as long as the leases are not lost, a lease that was made stays.
LEMMA ServerPart ==
    ASSUME Wire, \/ \E q \in requests \cup Strangers : ServerServes(q)
                 \/ ServerRestarts
                 \/ UNCHANGED vars
    PROVE  /\ UNCHANGED <<mState, mRequestAddress, addr>> /\ replies \subseteq replies'
           /\ ~forgot' => /\ ~forgot
                          /\ \A k \in S!Keys : mLeases[k] # 0 => mLeases'[k] = mLeases[k]
<1>1. ASSUME NEW q \in requests \cup Strangers, ServerServes(q)
      PROVE  /\ UNCHANGED <<mState, mRequestAddress, addr>> /\ replies \subseteq replies'
             /\ forgot' = forgot
             /\ \A k \in S!Keys : mLeases[k] # 0 => mLeases'[k] = mLeases[k]
  <2>1. q.iface \in Interfaces /\ q.mac \in Macs
    BY LinkAssumption DEF Wire, RequestsApart
  <2>2. QED
    BY <1>1, <2>1, ServeSpec DEF Wire, clientVars
<1>2. CASE ServerRestarts
  BY <1>2 DEF ServerRestarts, clientVars
<1>3. CASE UNCHANGED vars
  BY <1>3 DEF vars, serverVars, clientVars
<1>4. QED
  BY <1>1, <1>2, <1>3

\* A client counts on an address only while there is an acknowledgement of it.
LEMMA AcknowledgedStep == Wire /\ AddressAcknowledged /\ [Next]_vars => AddressAcknowledged'
<1> SUFFICES ASSUME Wire, AddressAcknowledged, [Next]_vars, NEW d \in Clients, C!Leased(d)'
             PROVE  \E r \in replies' : /\ r.type = "ACK"
                                        /\ r.iface = Attached[d] /\ r.mac = MacOf[d]
                                        /\ r.yiaddr = addr'[d]
  BY DEF AddressAcknowledged
<1>1. ASSUME C!Leased(d), addr'[d] = addr[d], replies \subseteq replies'
      PROVE  \E r \in replies' : /\ r.type = "ACK"
                                 /\ r.iface = Attached[d] /\ r.mac = MacOf[d]
                                 /\ r.yiaddr = addr'[d]
  BY <1>1 DEF AddressAcknowledged
<1>2. ASSUME NEW c \in Clients, NothingNew(c), replies' = replies
      PROVE  C!Leased(d) /\ addr'[d] = addr[d]
  BY <1>2 DEF NothingNew, C!Leased
<1>3. ASSUME NEW c \in Clients, ClientRuns(c) \/ ClientWaits(c)
      PROVE  NothingNew(c) /\ replies' = replies
  BY <1>3, RunsSpec, WaitsSpec DEF Wire, serverVars
<1>4. ASSUME NEW c \in Clients, NEW r \in replies, ClientReceives(c, r)
      PROVE  \E a \in replies' : /\ a.type = "ACK"
                                 /\ a.iface = Attached[d] /\ a.mac = MacOf[d]
                                 /\ a.yiaddr = addr'[d]
  <2>1. Accepted(c, r) /\ replies' = replies
    BY <1>4, ReceivesSpec DEF Wire, serverVars
  <2>2. r.iface = Attached[c] /\ r.mac = MacOf[c]
    BY <2>1, AcceptedIsOwn
  <2>3. /\ DOMAIN mState = Clients /\ addr = [e \in Clients |-> addr[e]]
    BY DEF Wire, ClientsTyped
  <2>4. CASE C!Leased(d) /\ addr'[d] = addr[d]
    BY <1>1, <2>1, <2>4
  <2>5. CASE d = c /\ r.type = "ACK" /\ addr'[c] = r.yiaddr
    BY <2>1, <2>2, <2>5
  <2>6. QED
    BY <2>1, <2>3, <2>4, <2>5 DEF Accepted, C!Leased
<1>5. ASSUME NEW c \in Clients, ClientRestarts(c)
      PROVE  C!Leased(d) /\ addr'[d] = addr[d] /\ replies' = replies
  BY <1>5, RestartsSpec DEF Wire, C!Leased
<1>6. CASE \/ \E q \in requests \cup Strangers : ServerServes(q)
           \/ ServerRestarts
           \/ UNCHANGED vars
  BY <1>1, <1>6, ServerPart DEF C!Leased
<1>7. QED
  BY <1>1, <1>2, <1>3, <1>4, <1>5, <1>6 DEF Next

\* For any number of clients and interfaces, whatever is lost, repeated, late or
\* left over from a process that died, and whatever fails while an acknowledgement is
\* applied: the address a client counts on was acknowledged to this client on its link,
\* if nobody on the link shares its transaction ids (receiveDhcpMessage compares nothing
\* else).
THEOREM AddressesAreAcknowledged == OwnLinks => (Spec => []AddressAcknowledged)
<1> SUFFICES ASSUME OwnLinks PROVE Spec => []AddressAcknowledged
  OBVIOUS
<1>1. Wire /\ [Next]_vars => Wire'
  BY WireStep
<1>2. Init => AddressAcknowledged
  BY DEF Init, C!Init, C!Leased, AddressAcknowledged
<1>3. QED
  BY <1>1, <1>2, WireInit, AcknowledgedStep, PTL DEF Spec

------------------------------------------------------------------------------
\* Until the server loses its leases, clients stay with the address that is kept for them.
LEMMA KeptStep ==
    Wire /\ OfferKept /\ LeaseKept /\ [Next]_vars => OfferKept' /\ LeaseKept'
<1> DEFINE Key(e) == <<Attached[e], MacOf[e]>>
           Holds(e) == mState[e] = "Requesting" \/ C!Leased(e)
<1> SUFFICES ASSUME Wire, OfferKept, LeaseKept, [Next]_vars,
                    NEW d \in Clients, ~forgot', Holds(d)'
             PROVE  /\ mRequestAddress'[d] = mLeases'[Key(d)] /\ mRequestAddress'[d] # 0
                    /\ C!Leased(d)' => addr'[d] = mLeases'[Key(d)]
  BY DEF OfferKept, LeaseKept
<1>1. Key(d) \in S!Keys
  BY LinkAssumption DEF S!Keys
<1>2. /\ ~forgot /\ Holds(d) => mRequestAddress[d] = mLeases[Key(d)] /\ mRequestAddress[d] # 0
      /\ ~forgot /\ C!Leased(d) => addr[d] = mLeases[Key(d)]
  BY DEF OfferKept, LeaseKept
<1>3. ASSUME ~forgot, Holds(d), mLeases'[Key(d)] = mLeases[Key(d)],
             C!Leased(d)' => C!Leased(d),
             mRequestAddress'[d] = mRequestAddress[d], addr'[d] = addr[d]
      PROVE  /\ mRequestAddress'[d] = mLeases'[Key(d)] /\ mRequestAddress'[d] # 0
             /\ C!Leased(d)' => addr'[d] = mLeases'[Key(d)]
  BY <1>2, <1>3
<1>4. ASSUME NEW c \in Clients, ClientRuns(c) \/ ClientWaits(c)
      PROVE  /\ ~forgot /\ Holds(d) /\ mLeases' = mLeases
             /\ C!Leased(d)' => C!Leased(d)
             /\ mRequestAddress'[d] = mRequestAddress[d] /\ addr'[d] = addr[d]
  <2>1. NothingNew(c) /\ UNCHANGED <<mLeases, forgot>>
    BY <1>4, RunsSpec, WaitsSpec DEF Wire, serverVars
  <2>2. QED
    BY <2>1 DEF NothingNew, C!Leased
<1>5. ASSUME NEW c \in Clients, NEW r \in replies, ClientReceives(c, r)
      PROVE  /\ mRequestAddress'[d] = mLeases'[Key(d)] /\ mRequestAddress'[d] # 0
             /\ C!Leased(d)' => addr'[d] = mLeases'[Key(d)]
  <2>1. Accepted(c, r) /\ UNCHANGED <<mLeases, forgot>>
    BY <1>5, ReceivesSpec DEF Wire, serverVars
  <2>2. r.iface = Attached[c] /\ r.mac = MacOf[c]
    BY <2>1, AcceptedIsOwn
  <2>3. r.type # "NAK" => r.yiaddr # 0 /\ r.yiaddr = mLeases[Key(c)]
    BY <2>1, <2>2 DEF Wire, RepliesKept
  <2>4. /\ DOMAIN mState = Clients /\ DOMAIN mRequestAddress = Clients
        /\ addr = [e \in Clients |-> addr[e]]
    BY DEF Wire, ClientsTyped
  <2>5. CASE d # c
    BY <1>3, <2>1, <2>4, <2>5 DEF Accepted, C!Leased
  <2>6. CASE d = c
    BY <1>2, <2>1, <2>3, <2>4, <2>6 DEF Accepted, C!Leased
  <2>7. QED
    BY <2>5, <2>6
<1>6. ASSUME NEW c \in Clients, ClientRestarts(c)
      PROVE  /\ ~forgot /\ Holds(d) /\ mLeases' = mLeases
             /\ C!Leased(d)' => C!Leased(d)
             /\ mRequestAddress'[d] = mRequestAddress[d] /\ addr'[d] = addr[d]
  BY <1>6, RestartsSpec DEF Wire, C!Leased
<1>7. CASE \/ \E q \in requests \cup Strangers : ServerServes(q)
           \/ ServerRestarts
           \/ UNCHANGED vars
  <2>1. /\ ~forgot /\ Holds(d)
        /\ C!Leased(d)' => C!Leased(d)
        /\ UNCHANGED <<mRequestAddress, addr>>
        /\ mLeases[Key(d)] # 0 => mLeases'[Key(d)] = mLeases[Key(d)]
    BY <1>1, <1>7, ServerPart DEF C!Leased
  <2>2. mLeases[Key(d)] # 0
    BY <1>2, <2>1
  <2>3. QED
    BY <1>3, <2>1, <2>2
<1>8. QED
  BY <1>3, <1>4, <1>5, <1>6, <1>7 DEF Next

\* The leases, the wire and the clients agree until the server loses its leases.
LEMMA KeptHolds == OwnLinks => (Spec => [](Wire /\ OfferKept /\ LeaseKept))
<1> SUFFICES ASSUME OwnLinks PROVE Spec => [](Wire /\ OfferKept /\ LeaseKept)
  OBVIOUS
<1>1. Wire /\ [Next]_vars => Wire'
  BY WireStep
<1>2. Init => OfferKept /\ LeaseKept
  BY DEF Init, C!Init, C!Leased, OfferKept, LeaseKept
<1>3. QED
  BY <1>1, <1>2, WireInit, KeptStep, PTL DEF Spec

\* As long as the server has not lost its leases, the address a client counts on is the
\* one the server keeps for it, and it asks for no other (getOfferAddress,
\* mRequestAddress).
THEOREM LeasesAreKept == OwnLinks => (Spec => []LeaseKept)
<1> SUFFICES ASSUME OwnLinks PROVE Spec => []LeaseKept
  OBVIOUS
<1>1. Spec => [](Wire /\ OfferKept /\ LeaseKept)
  BY KeptHolds
<1>2. QED
  BY <1>1, PTL

\* As long as the server has not lost its leases, no address a client counts on was ever
\* offered or acknowledged to anybody else on its link.
THEOREM AddressesAreNotShared == OwnLinks => (Spec => []AddressNotShared)
<1> SUFFICES ASSUME OwnLinks PROVE Spec => []AddressNotShared
  OBVIOUS
<1>1. Spec => [](Wire /\ OfferKept /\ LeaseKept)
  BY KeptHolds
<1>2. Wire /\ OfferKept /\ LeaseKept => AddressNotShared
  <2> SUFFICES ASSUME Wire, OfferKept, LeaseKept, NEW c \in Clients, ~forgot, C!Leased(c),
                      NEW r \in replies, r.iface = Attached[c], r.yiaddr = addr[c]
               PROVE  r.mac = MacOf[c]
    BY DEF AddressNotShared
  <2>1. addr[c] = mLeases[<<Attached[c], MacOf[c]>>] /\ addr[c] # 0
    BY DEF OfferKept, LeaseKept
  <2>2. r.iface \in Interfaces /\ r.mac \in Macs /\ r.type # "NAK"
    BY <2>1 DEF Wire, RepliesApart
  <2>3. mLeases[<<Attached[c], r.mac>>] = addr[c]
    BY <2>2 DEF Wire, RepliesKept
  <2>4. MacOf[c] \in Macs
    BY LinkAssumption
  <2>5. QED
    BY <2>1, <2>2, <2>3, <2>4 DEF Wire, LeasesTyped, S!LeasesDistinct
<1>3. QED
  BY <1>1, <1>2, PTL
==============================================================================
