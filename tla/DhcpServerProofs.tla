--------------------------- MODULE DhcpServerProofs ---------------------------
(***************************************************************************)
(* Proofs about the DHCP server, for any set of interfaces, clients and    *)
(* subnets.  The argument: an address search either stops where it starts  *)
(* or steps once over the server's own address, so a new lease is always   *)
(* at or past the next offset, while every lease made before lies below it.*)
(***************************************************************************)
EXTENDS DhcpServer, TLAPS

------------------------------------------------------------------------------
\* Facts about the address arithmetic.

\* The network address is a natural number and addresses count up from it.
LEMMA NetworkNat ==
    ASSUME NEW i \in Interfaces
    PROVE  /\ Network(i) \in Nat
           /\ IfAddr[i] \in Nat
           /\ Span[i] \in Nat \ {0}
           /\ Broadcast(i) = Network(i) + Span[i] - 1
<1>1. IfAddr[i] \in Nat /\ Span[i] \in Nat \ {0}
  BY InterfaceAssumption
<1>2. \A x \in Nat, s \in Nat \ {0} : x - (x % s) \in Nat
  OBVIOUS
<1>3. QED
  BY <1>1, <1>2 DEF Network, Broadcast

\* Adding less than s to a multiple of s leaves that remainder.
LEMMA AlignedMod ==
    ASSUME NEW x \in Nat, NEW s \in Nat \ {0}, NEW y \in Nat, y < s
    PROVE  ((x - (x % s)) + y) % s = y
  OBVIOUS

\* The host part of an address of the subnet is its offset.
LEMMA HostPart ==
    ASSUME NEW i \in Interfaces, NEW o \in Nat, o < Span[i]
    PROVE  (Network(i) + o) % Span[i] = o
<1>1. IfAddr[i] \in Nat /\ Span[i] \in Nat \ {0}
  BY InterfaceAssumption
<1>2. QED
  BY <1>1, AlignedMod DEF Network

\* Within the range, the only address isValidHost turns down is the server's own.
LEMMA SkippedIsOwn ==
    ASSUME NEW i \in Interfaces, NEW o \in Nat
    PROVE  Skipped(o, i) <=> /\ Network(i) + o = IfAddr[i]
                             /\ o > 0 /\ o < Span[i] - 1
<1> USE NetworkNat
<1>1. addressInRange(Network(i) + o, i) <=> o > 0 /\ o < Span[i] - 1
  BY DEF addressInRange
<1>2. ASSUME o > 0, o < Span[i] - 1
      PROVE  isValidHost(Network(i) + o, i) <=> Network(i) + o # IfAddr[i]
  <2>1. (Network(i) + o) % Span[i] = o
    BY <1>2, HostPart
  <2>2. QED
    BY <1>2, <2>1 DEF isValidHost
<1>3. QED
  BY <1>1, <1>2 DEF Skipped

\* The search stops at its first offset, or one further if that was the server.
LEMMA StopOffsetSpec ==
    ASSUME NEW i \in Interfaces, NEW o \in Nat
    PROVE  /\ StopOffset(o, i) \in Nat
           /\ ~Skipped(StopOffset(o, i), i)
           /\ \/ StopOffset(o, i) = o
              \/ StopOffset(o, i) = o + 1 /\ Skipped(o, i)
<1> DEFINE S == o..(o + Span[i])
           P(n) == ~Skipped(n, i) /\ \A k \in o..(n - 1) : Skipped(k, i)
           n == StopOffset(o, i)
<1> USE NetworkNat
<1>1. o \in S /\ (o + 1) \in S
  OBVIOUS
<1>2. ~(Skipped(o, i) /\ Skipped(o + 1, i))
  BY SkippedIsOwn
<1>3. \E x \in S : P(x)
  <2>1. CASE ~Skipped(o, i)
    BY <2>1, <1>1
  <2>2. CASE Skipped(o, i)
    <3>1. ~Skipped(o + 1, i)
      BY <2>2, <1>2
    <3>2. \A k \in o..((o + 1) - 1) : k = o
      OBVIOUS
    <3>3. QED
      BY <1>1, <2>2, <3>1, <3>2
  <2>3. QED
    BY <2>1, <2>2
<1>4. n \in S /\ P(n)
  BY <1>3 DEF StopOffset
<1>5. n \in Nat /\ n >= o
  BY <1>4
<1>6. n > o => Skipped(o, i)
  BY <1>4, <1>5
<1>7. ~(n > o + 1)
  <2>1. SUFFICES ASSUME n > o + 1 PROVE FALSE
    OBVIOUS
  <2>2. o \in o..(n - 1) /\ (o + 1) \in o..(n - 1)
    BY <2>1, <1>5
  <2>3. QED
    BY <2>2, <1>4, <1>2
<1>8. QED
  BY <1>4, <1>5, <1>6, <1>7

------------------------------------------------------------------------------
\* What a call of getOfferAddress finds, in a state that satisfies the invariant.

\* The candidate address: it is at or past the next offset, it is usable when it
\* is in range, and every usable address before it was before the old offset.
LEMMA CandidateSpec ==
    ASSUME NEW i \in Interfaces, TypeOK
    PROVE  /\ CandidateOffset(i) \in Nat
           /\ CandidateOffset(i) >= mNextAddressOffsets[i]
           /\ CandidateOffset(i) <= Span[i]
           /\ Candidate(i) = Network(i) + CandidateOffset(i)
           /\ Candidate(i) \in Nat
           /\ Candidate(i) # 0
           /\ OutOfAddresses(i) \in BOOLEAN
           /\ OutOfAddresses(i) <=> CandidateOffset(i) >= Span[i] - 1
           /\ ~OutOfAddresses(i) => Candidate(i) \in Usable(i)
           /\ \A a \in Usable(i) :
                 a < Candidate(i) => a < Network(i) + mNextAddressOffsets[i]
<1> DEFINE o == StartOffset(i)
           n == CandidateOffset(i)
<1> USE NetworkNat
<1>1. /\ mNextAddressOffsets[i] \in Nat
      /\ mNextAddressOffsets[i] <= Span[i]
  BY DEF TypeOK
<1>2. /\ o \in Nat /\ o > 0 /\ o <= Span[i]
      /\ o >= mNextAddressOffsets[i]
      /\ o > mNextAddressOffsets[i] => o = 1 /\ mNextAddressOffsets[i] = 0
  BY <1>1 DEF StartOffset
<1>3. /\ n \in Nat
      /\ ~Skipped(n, i)
      /\ n = o \/ (n = o + 1 /\ Skipped(o, i))
  BY <1>2, StopOffsetSpec DEF CandidateOffset
<1>4. /\ Skipped(o, i) => Network(i) + o = IfAddr[i] /\ o < Span[i] - 1
      /\ Network(i) + n = IfAddr[i] /\ n > 0 /\ n < Span[i] - 1 => Skipped(n, i)
  BY <1>2, <1>3, SkippedIsOwn
<1>5. Candidate(i) = Network(i) + n
  BY DEF Candidate
<1>6. OutOfAddresses(i) <=> n >= Span[i] - 1
  BY <1>2, <1>3, <1>5 DEF OutOfAddresses, addressInRange
<1>7. ~OutOfAddresses(i) => Candidate(i) \in Usable(i)
  BY <1>2, <1>3, <1>4, <1>5, <1>6 DEF Usable
<1>8. ASSUME NEW a \in Usable(i), a < Candidate(i)
      PROVE  a < Network(i) + mNextAddressOffsets[i]
  <2>1. a \in Int /\ a > Network(i) /\ a # IfAddr[i]
    BY DEF Usable
  <2>2. a < Network(i) + o
    BY <1>2, <1>3, <1>4, <1>5, <1>8, <2>1
  <2>3. QED
    BY <1>1, <1>2, <2>1, <2>2
<1>9. OutOfAddresses(i) \in BOOLEAN
  BY DEF OutOfAddresses, addressInRange
<1>10. QED
  BY <1>1, <1>2, <1>3, <1>4, <1>5, <1>6, <1>7, <1>8, <1>9

------------------------------------------------------------------------------
\* Preservation of the invariant.

\* A server that has just started satisfies the invariant.
LEMMA InitInv == Init => IndInv
<1> SUFFICES ASSUME Init PROVE IndInv
  OBVIOUS
<1> USE DEF Init
<1>1. TypeOK
  BY NetworkNat DEF TypeOK
<1>2. LeasesBelowOffset /\ LeasesDistinct
  BY DEF LeasesBelowOffset, LeasesDistinct, Keys
<1>3. NoGap
  BY NetworkNat DEF NoGap, Usable
<1>4. RepliesMatchLeases
  BY DEF RepliesMatchLeases
<1>5. QED
  BY <1>1, <1>2, <1>3, <1>4 DEF IndInv

\* A call of getOfferAddress keeps the lease bookkeeping, and it never changes a
\* lease that is there.
LEMMA OfferInv ==
    ASSUME NEW i \in Interfaces, NEW mac \in Macs, IndInv, getOfferAddress(i, mac)
    PROVE  /\ mLeases' \in [Keys -> Nat]
           /\ mNextAddressOffsets' \in [Interfaces -> Nat]
           /\ \A j \in Interfaces : mNextAddressOffsets'[j] <= Span[j]
           /\ OfferAddress(i, mac) \in Nat
           /\ mLeases'[<<i, mac>>] = OfferAddress(i, mac)
           /\ \A k \in Keys : mLeases[k] # 0 => mLeases'[k] = mLeases[k]
           /\ LeasesBelowOffset'
           /\ LeasesDistinct'
           /\ NoGap'
<1> DEFINE k == <<i, mac>>
<1> USE NetworkNat
<1>1. /\ mLeases \in [Keys -> Nat] /\ k \in Keys
      /\ mNextAddressOffsets \in [Interfaces -> Nat]
      /\ \A j \in Interfaces : mNextAddressOffsets[j] <= Span[j]
  BY DEF IndInv, TypeOK, Keys
<1>2. CASE mLeases[k] # 0
  <2>1. mLeases' = mLeases /\ mNextAddressOffsets' = mNextAddressOffsets
    BY <1>1, <1>2 DEF getOfferAddress, OfferAddress
  <2>2. OfferAddress(i, mac) = mLeases[k]
    BY <1>2 DEF OfferAddress
  <2>3. QED
    BY <1>1, <2>1, <2>2 DEF IndInv, LeasesBelowOffset, LeasesDistinct, NoGap, Taken
<1>3. CASE mLeases[k] = 0 /\ OutOfAddresses(i)
  <2>1. /\ OfferAddress(i, mac) = 0
        /\ mLeases' = mLeases
        /\ mNextAddressOffsets' = [mNextAddressOffsets EXCEPT ![i] = CandidateOffset(i)]
    <3>1. OfferAddress(i, mac) = 0
      BY <1>3 DEF OfferAddress
    <3>2. mLeases' = mLeases
      BY <3>1, <1>1, <1>3 DEF getOfferAddress
    <3>3. CandidateOffset(i) + 0 = CandidateOffset(i)
      <4>1. CandidateOffset(i) \in Nat
        BY CandidateSpec DEF IndInv
      <4>2. QED
        BY <4>1
    <3>4. mNextAddressOffsets' = [mNextAddressOffsets EXCEPT ![i] = CandidateOffset(i) + 0]
      BY <1>3 DEF getOfferAddress
    <3>5. QED
      BY <3>1, <3>2, <3>3, <3>4
  <2>2. /\ mNextAddressOffsets' \in [Interfaces -> Nat]
        /\ \A j \in Interfaces : /\ mNextAddressOffsets'[j] <= Span[j]
                                 /\ mNextAddressOffsets'[j] >= mNextAddressOffsets[j]
    BY <1>1, <2>1, CandidateSpec DEF IndInv
  <2>3. LeasesBelowOffset'
    BY <1>1, <2>1, <2>2 DEF IndInv, LeasesBelowOffset, Usable, Keys
  <2>4. LeasesDistinct'
    BY <2>1 DEF IndInv, LeasesDistinct
  <2>5. NoGap'
    <3>1. SUFFICES ASSUME NEW j \in Interfaces, NEW a \in Usable(j),
                          a < Network(j) + mNextAddressOffsets'[j]
                   PROVE  a \in Taken(j)
      BY <2>1 DEF NoGap, Taken
    <3>2. a < Network(j) + mNextAddressOffsets[j]
      BY <1>1, <2>1, <3>1, CandidateSpec DEF IndInv
    <3>3. QED
      BY <3>2 DEF IndInv, NoGap
  <2>6. QED
    BY <1>1, <1>3, <2>1, <2>2, <2>3, <2>4, <2>5
<1>4. CASE mLeases[k] = 0 /\ ~OutOfAddresses(i)
  <2> DEFINE c == Candidate(i)
  <2>1. /\ OfferAddress(i, mac) = c
        /\ mLeases' = [mLeases EXCEPT ![k] = c]
        /\ mNextAddressOffsets' =
              [mNextAddressOffsets EXCEPT ![i] = CandidateOffset(i) + 1]
    BY <1>1, <1>4, CandidateSpec DEF getOfferAddress, OfferAddress, IndInv
  <2>2. /\ c \in Nat /\ c # 0 /\ c \in Usable(i)
        /\ c = Network(i) + CandidateOffset(i)
        /\ CandidateOffset(i) \in Nat
        /\ CandidateOffset(i) < Span[i] - 1
        /\ CandidateOffset(i) >= mNextAddressOffsets[i]
    BY <1>4, CandidateSpec DEF IndInv
  <2>3. /\ mLeases' \in [Keys -> Nat]
        /\ mNextAddressOffsets' \in [Interfaces -> Nat]
        /\ \A j \in Interfaces : /\ mNextAddressOffsets'[j] <= Span[j]
                                 /\ mNextAddressOffsets'[j] >= mNextAddressOffsets[j]
    BY <1>1, <2>1, <2>2
  <2>4. \A m \in Macs : m # mac => mLeases'[<<i, m>>] = mLeases[<<i, m>>]
    BY <1>1, <2>1 DEF Keys
  <2>5. \A j \in Interfaces, m \in Macs :
           j # i => mLeases'[<<j, m>>] = mLeases[<<j, m>>]
    BY <1>1, <2>1 DEF Keys
  <2>6. mLeases'[k] = c
    BY <1>1, <2>1
  <2>7. \A m \in Macs : mLeases[<<i, m>>] # 0 => mLeases[<<i, m>>] < c
    BY <1>1, <2>2 DEF IndInv, LeasesBelowOffset, Usable
  <2>8. LeasesBelowOffset'
    <3>1. SUFFICES ASSUME NEW j \in Interfaces, NEW m \in Macs, mLeases'[<<j, m>>] # 0
                   PROVE  /\ mLeases'[<<j, m>>] \in Usable(j)
                          /\ mLeases'[<<j, m>>] < Network(j) + mNextAddressOffsets'[j]
      BY DEF LeasesBelowOffset, Usable, Network, Broadcast
    <3>2. CASE j = i /\ m = mac
      BY <3>2, <1>1, <2>1, <2>2, <2>6
    <3>3. CASE ~(j = i /\ m = mac)
      <4>1. mLeases'[<<j, m>>] = mLeases[<<j, m>>]
        BY <3>3, <2>4, <2>5
      <4>2. mLeases[<<j, m>>] \in Usable(j)
            /\ mLeases[<<j, m>>] < Network(j) + mNextAddressOffsets[j]
        BY <4>1, <3>1 DEF IndInv, LeasesBelowOffset
      <4>3. QED
        BY <4>1, <4>2, <1>1, <2>3 DEF Usable
    <3>4. QED
      BY <3>2, <3>3
  <2>9. LeasesDistinct'
    <3>1. SUFFICES ASSUME NEW j \in Interfaces, NEW m \in Macs, NEW n \in Macs,
                          m # n, mLeases'[<<j, m>>] # 0
                   PROVE  mLeases'[<<j, m>>] # mLeases'[<<j, n>>]
      BY DEF LeasesDistinct
    <3>2. CASE j # i
      BY <3>1, <3>2, <2>5 DEF IndInv, LeasesDistinct
    <3>3. CASE j = i /\ m # mac /\ n # mac
      BY <3>1, <3>3, <2>4 DEF IndInv, LeasesDistinct
    <3>4. CASE j = i /\ m = mac
      BY <3>1, <3>4, <2>2, <2>4, <2>6, <2>7
    <3>5. CASE j = i /\ n = mac
      BY <3>1, <3>5, <2>2, <2>4, <2>6, <2>7
    <3>6. QED
      BY <3>2, <3>3, <3>4, <3>5
  <2>10. NoGap'
    <3>1. SUFFICES ASSUME NEW j \in Interfaces, NEW a \in Usable(j),
                          a < Network(j) + mNextAddressOffsets'[j]
                   PROVE  \E m \in Macs : a = mLeases'[<<j, m>>]
      BY DEF NoGap, Taken, Usable, Network, Broadcast
    <3>2. CASE j # i
      <4>1. a \in Taken(j)
        BY <3>1, <3>2, <1>1, <2>1 DEF IndInv, NoGap
      <4>2. QED
        BY <4>1, <3>2, <2>5 DEF Taken
    <3>3. CASE j = i /\ a = c
      BY <3>3, <2>6
    <3>4. CASE j = i /\ a # c
      <4>1. a < c
        BY <3>1, <3>4, <1>1, <2>1, <2>2 DEF Usable
      <4>2. a < Network(i) + mNextAddressOffsets[i]
        BY <3>4, <4>1, CandidateSpec DEF IndInv
      <4>3. PICK m \in Macs : a = mLeases[<<i, m>>]
        BY <3>4, <4>2 DEF IndInv, NoGap, Taken
      <4>4. a # 0
        BY <3>4 DEF Usable
      <4>5. m # mac
        BY <4>3, <4>4, <1>4
      <4>6. QED
        BY <4>3, <4>5, <2>4, <3>4
    <3>5. QED
      BY <3>2, <3>3, <3>4
  <2>11. \A kk \in Keys : mLeases[kk] # 0 => mLeases'[kk] = mLeases[kk]
    BY <1>1, <1>4, <2>1
  <2>12. QED
    BY <2>1, <2>2, <2>3, <2>6, <2>8, <2>9, <2>10, <2>11
<1>5. QED
  BY <1>2, <1>3, <1>4

\* A handler that ran getOfferAddress and perhaps broadcast a reply that matches
\* the client's lease keeps the invariant.
LEMMA HandlerInv ==
    ASSUME NEW i \in Interfaces, NEW r \in Request, IndInv,
           getOfferAddress(i, r.mac),
           NEW m \in Reply,
           sent' = sent \cup {m} \/ sent' = sent,
           m.type # "NAK" => /\ m.yiaddr # 0
                             /\ m.yiaddr = OfferAddress(i, r.mac)
                             /\ m.iface = i /\ m.mac = r.mac
    PROVE  IndInv'
<1>1. r.mac \in Macs
  BY DEF Request
<1>2. TypeOK'
  BY <1>1, OfferInv DEF IndInv, TypeOK
<1>3. LeasesBelowOffset' /\ LeasesDistinct' /\ NoGap'
  BY <1>1, OfferInv
<1>4. RepliesMatchLeases'
  <2>1. SUFFICES ASSUME NEW a \in sent', a.type # "NAK"
                 PROVE  a.yiaddr # 0 /\ mLeases'[<<a.iface, a.mac>>] = a.yiaddr
    BY DEF RepliesMatchLeases
  <2>2. CASE a = m
    BY <1>1, <2>1, <2>2, OfferInv
  <2>3. CASE a \in sent
    <3>1. a.yiaddr # 0 /\ mLeases[<<a.iface, a.mac>>] = a.yiaddr
      BY <2>1, <2>3 DEF IndInv, RepliesMatchLeases
    <3>2. <<a.iface, a.mac>> \in Keys
      BY <2>3 DEF IndInv, TypeOK, Reply, Keys
    <3>3. mLeases'[<<a.iface, a.mac>>] = mLeases[<<a.iface, a.mac>>]
      BY <1>1, <3>1, <3>2, OfferInv
    <3>4. QED
      BY <3>1, <3>3
  <2>4. QED
    BY <2>1, <2>2, <2>3
<1>5. QED
  BY <1>2, <1>3, <1>4 DEF IndInv

\* The replies the handlers build are well-formed.
LEMMA ReplyType ==
    ASSUME NEW i \in Interfaces, NEW r \in Request,
           NEW t \in {"OFFER", "ACK", "NAK"}, NEW a \in Nat, NEW l \in Nat
    PROVE  /\ ReplyTo(r, i, t, a, l) \in Reply
           /\ ReplyTo(r, i, t, a, l).type = t
           /\ ReplyTo(r, i, t, a, l).yiaddr = a
           /\ ReplyTo(r, i, t, a, l).iface = i
           /\ ReplyTo(r, i, t, a, l).mac = r.mac
  BY InterfaceAssumption DEF ReplyTo, Reply, Request

\* Every request served, and every restart, preserves the invariant.
LEMMA StepInv == IndInv /\ [Next]_vars => IndInv'
<1> SUFFICES ASSUME IndInv, [Next]_vars PROVE IndInv'
  OBVIOUS
<1>0. LeaseTime \in Nat
  BY RequestAssumption
<1>1. ASSUME NEW i \in Interfaces, NEW r \in Request, sendDhcpOffer(i, r)
      PROVE  IndInv'
  <2> DEFINE a == OfferAddress(i, r.mac)
             m == ReplyTo(r, i, "OFFER", a, LeaseTime)
             n == ReplyTo(r, i, "NAK", 0, 0)
  <2>1. getOfferAddress(i, r.mac) /\ r.mac \in Macs /\ a \in Nat
    BY <1>1, OfferInv DEF sendDhcpOffer, Request
  <2>2. CASE a # 0 /\ sendMessage(m)
    <3>1. sent' = sent \cup {m} \/ sent' = sent
      BY <2>2 DEF sendMessage
    <3>2. m \in Reply /\ m.yiaddr = a /\ m.iface = i /\ m.mac = r.mac
      BY <1>0, <2>1, ReplyType
    <3> HIDE DEF m, a
    <3>3. QED
      BY <2>1, <2>2, <3>1, <3>2, HandlerInv DEF a
  <2>3. CASE sent' = sent
    <3>1. n \in Reply /\ n.type = "NAK"
      BY ReplyType
    <3> HIDE DEF n
    <3>2. QED
      BY <2>1, <2>3, <3>1, HandlerInv
  <2>4. QED
    BY <1>1, <2>2, <2>3 DEF sendDhcpOffer
<1>2. ASSUME NEW i \in Interfaces, NEW r \in Request, sendAck(i, r)
      PROVE  IndInv'
  <2> DEFINE a == OfferAddress(i, r.mac)
             m == ReplyTo(r, i, "ACK", a, LeaseTime)
  <2>1. getOfferAddress(i, r.mac) /\ r.mac \in Macs /\ a \in Nat /\ a # 0
    BY <1>2, OfferInv DEF sendAck, Request
  <2>2. sent' = sent \cup {m} \/ sent' = sent
    BY <1>2 DEF sendAck, sendMessage
  <2>3. m \in Reply /\ m.yiaddr = a /\ m.iface = i /\ m.mac = r.mac
    BY <1>0, <2>1, ReplyType
  <2> HIDE DEF m, a
  <2>4. QED
    BY <2>1, <2>2, <2>3, HandlerInv DEF a
<1>3. ASSUME NEW i \in Interfaces, NEW r \in Request, sendNack(i, r)
      PROVE  IndInv'
  <2> DEFINE m == ReplyTo(r, i, "NAK", 0, 0)
  <2>1. getOfferAddress(i, r.mac) /\ (sent' = sent \cup {m} \/ sent' = sent)
    BY <1>3 DEF sendNack, sendMessage
  <2>2. m \in Reply /\ m.type = "NAK"
    BY ReplyType
  <2> HIDE DEF m
  <2>3. QED
    BY <2>1, <2>2, HandlerInv
<1>4. ASSUME NEW i \in Interfaces, NEW r \in Request, sendNackNoInterface(i, r)
      PROVE  IndInv'
  <2> DEFINE m == ReplyTo(r, i, "NAK", 0, 0)
  <2>1. /\ mLeases' = mLeases /\ mNextAddressOffsets' = mNextAddressOffsets
        /\ sent' = sent \cup {m} \/ sent' = sent
    BY <1>4 DEF sendNackNoInterface, sendMessage
  <2>2. m \in Reply /\ m.type = "NAK"
    BY ReplyType
  <2> HIDE DEF m
  <2>3. TypeOK'
    BY <2>1, <2>2 DEF IndInv, TypeOK
  <2>4. LeasesBelowOffset' /\ LeasesDistinct' /\ NoGap'
    BY <2>1 DEF IndInv, LeasesBelowOffset, LeasesDistinct, NoGap, Taken
  <2>5. RepliesMatchLeases'
    BY <2>1, <2>2 DEF IndInv, RepliesMatchLeases
  <2>6. QED
    BY <2>3, <2>4, <2>5 DEF IndInv
<1>5. CASE Restart
  <2>1. Init'
    BY <1>5 DEF Restart, Forget, Init
  <2>2. QED
    BY <2>1, InitInv, PTL
<1>6. CASE UNCHANGED vars
  BY <1>6 DEF vars, IndInv, TypeOK, LeasesBelowOffset, LeasesDistinct, NoGap,
              RepliesMatchLeases, Taken
<1>7. QED
  BY <1>1, <1>2, <1>3, <1>4, <1>5, <1>6 DEF Next, Serve

------------------------------------------------------------------------------
\* The theorems.

\* Everything the server keeps has its type, and its offsets stay in the subnet.
THEOREM ServerTypeCorrect == Spec => []TypeOK
<1>1. Spec => []IndInv
  BY InitInv, StepInv, PTL DEF Spec
<1>2. IndInv => TypeOK
  BY DEF IndInv
<1>3. QED
  BY <1>1, <1>2, PTL

\* No two clients of an interface are ever leased the same address.
THEOREM ServerLeasesDistinct == Spec => []LeasesDistinct
<1>1. Spec => []IndInv
  BY InitInv, StepInv, PTL DEF Spec
<1>2. IndInv => LeasesDistinct
  BY DEF IndInv
<1>3. QED
  BY <1>1, <1>2, PTL

\* The server runs out only when every usable address has an owner.
THEOREM ServerLosesNoAddress == Spec => []NoAddressLost
<1>1. Spec => []IndInv
  BY InitInv, StepInv, PTL DEF Spec
<1>2. IndInv => NoAddressLost
  <2>1. SUFFICES ASSUME IndInv, NEW i \in Interfaces, OutOfAddresses(i),
                        NEW a \in Usable(i)
                 PROVE  a \in Taken(i)
    BY DEF NoAddressLost
  <2>2. a < Candidate(i)
    BY <2>1, NetworkNat, CandidateSpec DEF IndInv, Usable
  <2>3. a < Network(i) + mNextAddressOffsets[i]
    BY <2>1, <2>2, CandidateSpec DEF IndInv
  <2>4. QED
    BY <2>1, <2>3 DEF IndInv, NoGap
<1>3. QED
  BY <1>1, <1>2, PTL

\* All offers and acknowledgements of a server process agree with one another.
THEOREM ServerRepliesAgree == Spec => []RepliesAgree
<1>1. Spec => []IndInv
  BY InitInv, StepInv, PTL DEF Spec
<1>2. IndInv => RepliesAgree
  <2>1. SUFFICES ASSUME IndInv, NEW a \in sent, NEW b \in sent,
                        a.type # "NAK", b.type # "NAK", a.iface = b.iface
                 PROVE  a.mac = b.mac <=> a.yiaddr = b.yiaddr
    BY DEF RepliesAgree
  <2>2. /\ a.yiaddr # 0 /\ mLeases[<<a.iface, a.mac>>] = a.yiaddr
        /\ b.yiaddr # 0 /\ mLeases[<<b.iface, b.mac>>] = b.yiaddr
    BY <2>1 DEF IndInv, RepliesMatchLeases
  <2>3. a.iface \in Interfaces /\ a.mac \in Macs /\ b.mac \in Macs
    BY <2>1 DEF IndInv, TypeOK, Reply
  <2>4. QED
    BY <2>1, <2>2, <2>3 DEF IndInv, LeasesDistinct
<1>3. QED
  BY <1>1, <1>2, PTL

\* One call of getOfferAddress is a grant of a free usable address, or nothing.
LEMMA OfferIsGrant ==
    ASSUME NEW i \in Interfaces, NEW mac \in Macs, IndInv, getOfferAddress(i, mac)
    PROVE  mLeases' = mLeases \/ Pool!Grant(i, mac)
<1> DEFINE k == <<i, mac>>
<1>1. mLeases \in [Keys -> Nat] /\ k \in Keys
  BY DEF IndInv, TypeOK, Keys
<1>2. mLeases' = [mLeases EXCEPT ![k] = OfferAddress(i, mac)]
  BY DEF getOfferAddress
<1>3. CASE mLeases[k] # 0
  BY <1>1, <1>2, <1>3 DEF OfferAddress
<1>4. CASE mLeases[k] = 0 /\ OutOfAddresses(i)
  <2>1. OfferAddress(i, mac) = 0
    BY <1>4 DEF OfferAddress
  <2>2. QED
    BY <1>1, <1>2, <1>4, <2>1
<1>5. CASE mLeases[k] = 0 /\ ~OutOfAddresses(i)
  <2>1. OfferAddress(i, mac) = Candidate(i)
    BY <1>5 DEF OfferAddress
  <2>2. Candidate(i) \in Usable(i)
    BY <1>5, CandidateSpec DEF IndInv
  <2>3. ASSUME NEW m \in Macs PROVE mLeases[<<i, m>>] # Candidate(i)
    <3>1. CASE mLeases[<<i, m>>] = 0
      BY <3>1, CandidateSpec DEF IndInv
    <3>2. CASE mLeases[<<i, m>>] # 0
      <4>1. mLeases[<<i, m>>] < Network(i) + mNextAddressOffsets[i]
        BY <3>2 DEF IndInv, LeasesBelowOffset
      <4>2. mLeases[<<i, m>>] \in Nat /\ mNextAddressOffsets[i] \in Nat
        BY DEF IndInv, TypeOK, Keys
      <4>3. /\ Candidate(i) = Network(i) + CandidateOffset(i)
            /\ CandidateOffset(i) >= mNextAddressOffsets[i]
            /\ CandidateOffset(i) \in Nat
        BY CandidateSpec DEF IndInv
      <4>4. QED
        BY <4>1, <4>2, <4>3, NetworkNat
    <3>3. QED
      BY <3>1, <3>2
  <2>4. Candidate(i) \in Usable(i) \ Pool!Taken(i)
    BY <2>2, <2>3 DEF Pool!Taken
  <2>5. QED
    BY <1>2, <1>5, <2>1, <2>4 DEF Pool!Grant
<1>6. QED
  BY <1>3, <1>4, <1>5

\* The server implements the address pool: a lease never changes hands, moves or
\* disappears while the process lives.
THEOREM ServerImplementsPool == Spec => PoolSpec
<1>1. Init => Pool!Init
  BY DEF Init, Pool!Init, Pool!Nobody, Keys
<1>2. IndInv /\ [Next]_vars => [Pool!Next]_mLeases
  <2> SUFFICES ASSUME IndInv, [Next]_vars PROVE [Pool!Next]_mLeases
    OBVIOUS
  <2>1. ASSUME NEW i \in Interfaces, NEW r \in Request, Serve(i, r)
        PROVE  [Pool!Next]_mLeases
    <3>1. r.mac \in Macs
      BY DEF Request
    <3>2. getOfferAddress(i, r.mac) \/ mLeases' = mLeases
      BY <2>1 DEF Serve, sendDhcpOffer, sendAck, sendNack, sendNackNoInterface
    <3>3. QED
      BY <3>1, <3>2, OfferIsGrant DEF Pool!Next
  <2>2. CASE Restart
    BY <2>2 DEF Restart, Forget, Pool!Next, Pool!Forget, Pool!Nobody, Keys
  <2>3. CASE UNCHANGED vars
    BY <2>3 DEF vars
  <2>4. QED
    BY <2>1, <2>2, <2>3 DEF Next
<1>3. Spec => []IndInv
  BY InitInv, StepInv, PTL DEF Spec
<1>4. QED
  BY <1>1, <1>2, <1>3, PTL DEF Spec, PoolSpec, Pool!Spec

==============================================================================
