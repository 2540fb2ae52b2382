---------------------------- MODULE Ipv6ProxyProofs ----------------------------
(***************************************************************************)
(* The neighbor discovery proxy, for any interfaces, sources and option    *)
(* lists: the loop that initializes the interfaces, the messages it        *)
(* forwards out of one buffer, the DNS properties and the routes.          *)
(***************************************************************************)
EXTENDS Ipv6Proxy, TLAPS, FiniteSetTheorems, WellFoundedInduction, SequenceTheorems

\* The vector of inner interfaces and the position in it.
InnerVector ==
    /\ mInnerIfs \in Seq(ToSet(InnerIfs)) /\ Len(mInnerIfs) <= Len(InnerIfs)
    /\ it \in 1..(Len(mInnerIfs) + 1)
    /\ state \in {"Polling", "Extracting", "Forwarding", "Looping"} =>
         it = Len(mInnerIfs) + 1 /\ mInnerIfs # <<>>

\* Before the position are interfaces that are ready, behind it those still to be
\* tried, none of them twice, and only those that failed are missing.
InitLoop ==
    /\ tried \in [ToSet(InnerIfs) -> {"no", "ready", "failed"}]
    /\ state # "Stopped" =>
         /\ \A j, k \in 1..Len(mInnerIfs) : mInnerIfs[j] = mInnerIfs[k] => j = k
         /\ \A j \in 1..Len(mInnerIfs) : tried[mInnerIfs[j]] = IF j < it THEN "ready" ELSE "no"
         /\ \A i \in ToSet(InnerIfs) : tried[i] # "failed" => i \in ToSet(mInnerIfs)

\* A message is in hand.
Busy == state \in {"Extracting", "Forwarding"}

\* Option k of message m is a link address the proxy puts its own in place of.
Answers(m, k) ==
    /\ \A j \in 1..k : m.opts[j].type # "Beyond"
    /\ \/ m.type = "NA" /\ m.opts[k].type = "TargetLink"
       \/ m.type = "RA" /\ m.opts[k].type = "SourceLink"

\* The buffer holds the message as it was received, but for link addresses that are
\* still those of an interface it was forwarded to before.
InHand ==
    Busy =>
        /\ from \in Interfaces /\ received \in Packets(from)
        /\ packet = [type |-> received.type, src |-> received.src, opts |-> packet.opts]
        /\ DOMAIN packet.opts = DOMAIN received.opts
        /\ \A k \in DOMAIN received.opts :
             \/ packet.opts[k] = received.opts[k]
             \/ Answers(received, k) /\ \E i \in Interfaces :
                    packet.opts[k] = [received.opts[k] EXCEPT !.link = i]

\* It was heard where it came from, and only the outer side sends advertisements of
\* routers.
HeardInHand ==
    Busy =>
        /\ received.type # "Other"
        /\ received.type = "RA" => from = Outer
        /\ received.type \in Announcements(from) => <<received.src, from>> \in heard

\* The interfaces it is still to be forwarded to.
StillToDo ==
    /\ todo \in Seq(Interfaces)
    /\ Busy => todo # <<>>

------------------------------------------------------------------------------
\* Numbers and sequences.

\* A set of numbers has a least one.
LEMMA Least ==
    ASSUME NEW T \in SUBSET Nat, T # {}
    PROVE  \E x \in T : \A y \in T : x <= y
<1> DEFINE R == OpToRel(<, Nat)
<1>1. PICK x \in T : \A y \in T : ~ (<<y, x>> \in R)
  <2>1. IsWellFoundedOn(R, Nat)
    BY NatLessThanWellFounded
  <2> HIDE DEF R
  <2>2. QED
    BY <2>1, WFMin
<1>2. \A y \in T : <<y, x>> \in R <=> y < x
  BY DEF OpToRel
<1>3. \A y \in T : ~(y < x)
  BY <1>1, <1>2
<1>4. QED
  BY <1>3

\* A sequence without repetitions has as many elements as positions, and the other way
\* round.
LEMMA DistinctElements ==
    ASSUME NEW S, NEW s \in Seq(S)
    PROVE  Cardinality(ToSet(s)) = Len(s) <=>
               \A j, k \in 1..Len(s) : s[j] = s[k] => j = k
<1>1. Len(s) \in Nat /\ DOMAIN s = 1..Len(s) /\ s = [k \in 1..Len(s) |-> s[k]]
  OBVIOUS
<1>2. s \in Surjection(1..Len(s), ToSet(s))
  BY <1>1 DEF Surjection, ToSet
<1>3. IsFiniteSet(1..Len(s)) /\ Cardinality(1..Len(s)) = Len(s)
  <2>1. 1 \in Int /\ Len(s) \in Int
    BY <1>1
  <2>2. /\ IsFiniteSet(1..Len(s))
        /\ Cardinality(1..Len(s)) = IF 1 > Len(s) THEN 0 ELSE Len(s) - 1 + 1
    BY <2>1, FS_Interval
  <2>3. QED
    BY <1>1, <2>2
<1>4. Cardinality(ToSet(s)) = Len(s) <=> s \in Injection(1..Len(s), ToSet(s))
  BY <1>2, <1>3, FS_Surjection
<1>5. s \in [1..Len(s) -> ToSet(s)]
  BY <1>1 DEF ToSet
<1>6. s \in Injection(1..Len(s), ToSet(s)) <=>
          \A j, k \in 1..Len(s) : s[j] = s[k] => j = k
  BY <1>1, <1>5 DEF Injection, IsInjective
<1>7. QED
  BY <1>4, <1>6

\* What erasing an element leaves at each position.
LEMMA Erased ==
    ASSUME NEW S, NEW s \in Seq(S), NEW i \in 1..Len(s)
    PROVE  /\ RemoveAt(s, i) \in Seq(S)
           /\ Len(RemoveAt(s, i)) = Len(s) - 1
           /\ \A k \in 1..(Len(s) - 1) :
                RemoveAt(s, i)[k] = IF k < i THEN s[k] ELSE s[k + 1]
<1>1. i \in Nat /\ Len(s) \in Nat /\ 1 <= i /\ i <= Len(s)
  OBVIOUS
<1>2. /\ SubSeq(s, 1, i - 1) \in Seq(S) /\ Len(SubSeq(s, 1, i - 1)) = i - 1
      /\ \A k \in 1..(i - 1) : SubSeq(s, 1, i - 1)[k] = s[k]
  BY <1>1
<1>3. /\ SubSeq(s, i + 1, Len(s)) \in Seq(S) /\ Len(SubSeq(s, i + 1, Len(s))) = Len(s) - i
      /\ \A k \in 1..(Len(s) - i) : SubSeq(s, i + 1, Len(s))[k] = s[i + k]
  BY <1>1
<1> DEFINE a == SubSeq(s, 1, i - 1)
           b == SubSeq(s, i + 1, Len(s))
<1>4. RemoveAt(s, i) = a \o b
  BY DEF RemoveAt
<1> HIDE DEF a, b
<1>5. /\ a \in Seq(S) /\ Len(a) = i - 1 /\ \A k \in 1..(i - 1) : a[k] = s[k]
      /\ b \in Seq(S) /\ Len(b) = Len(s) - i /\ \A k \in 1..(Len(s) - i) : b[k] = s[i + k]
  BY <1>2, <1>3 DEF a, b
<1>6. a \o b \in Seq(S) /\ Len(a \o b) = Len(s) - 1
  BY <1>1, <1>5
<1>7. ASSUME NEW k \in 1..(Len(s) - 1)
      PROVE  (a \o b)[k] = IF k < i THEN s[k] ELSE s[k + 1]
  <2>1. CASE k < i
    BY <1>1, <1>5, <2>1
  <2>2. CASE ~(k < i)
    <3>1. (a \o b)[k] = b[k - (i - 1)]
      BY <1>1, <1>5, <2>2
    <3>2. k - (i - 1) \in 1..(Len(s) - i) /\ i + (k - (i - 1)) = k + 1
      BY <1>1, <2>2
    <3>3. QED
      BY <1>1, <1>5, <2>2, <3>1, <3>2
  <2>3. QED
    BY <1>1, <2>1, <2>2
<1>8. QED
  BY <1>4, <1>6, <1>7

------------------------------------------------------------------------------
\* The walk over the options.

\* A walk that ends has come to every option before the first that does not fit: an
\* option it does not come to would be behind a first one of length zero.
LEMMA WalkReaches ==
    ASSUME NEW opts \in OptionLists, ~Endless(opts), NEW k \in DOMAIN opts,
           \A j \in 1..k : opts[j].type # "Beyond"
    PROVE  k \in Walked(opts)
<1>1. opts \in Seq(ToSet(opts))
  BY OptionAssumption
<1>2. DOMAIN opts = 1..Len(opts) /\ Len(opts) \in Nat /\ k \in Nat
  BY <1>1
<1> DEFINE Z == {j \in 1..(k - 1) : opts[j].type = "Zero"}
<1>3. Z \in SUBSET Nat
  BY <1>2
<1>4. CASE Z # {}
  <2>1. PICK z \in Z : \A y \in Z : z <= y
    <3> HIDE DEF Z
    <3>1. QED
      BY <1>3, <1>4, Least
  <2>2. z \in 1..(k - 1) /\ opts[z].type = "Zero" /\ z \in DOMAIN opts
    BY <1>2, <2>1
  <2>3. \A j \in 1..(z - 1) : opts[j].type # "Zero"
    BY <1>2, <2>1, <2>2
  <2>4. \A j \in 1..z : opts[j].type # "Beyond"
    BY <1>2, <2>2
  <2>5. z \in Walked(opts)
    BY <2>2, <2>3, <2>4 DEF Walked
  <2>6. QED
    BY <2>2, <2>5 DEF Endless
<1>5. CASE Z = {}
  BY <1>5 DEF Walked
<1>6. QED
  BY <1>4, <1>5

\* Only the types of the options matter for the walk.
LEMMA WalkByTypes ==
    ASSUME NEW o, NEW p, NEW n \in Nat, DOMAIN o = 1..n, DOMAIN p = 1..n,
           \A k \in 1..n : o[k].type = p[k].type
    PROVE  Walked(o) = Walked(p) /\ (Endless(o) <=> Endless(p))
<1>1. \A k \in 1..n : k \in Walked(o) <=> k \in Walked(p)
  BY DEF Walked
<1>2. Walked(o) \subseteq 1..n /\ Walked(p) \subseteq 1..n
  BY DEF Walked
<1>3. Walked(o) = Walked(p)
  BY <1>1, <1>2
<1>4. QED
  BY <1>2, <1>3 DEF Endless

\* Link addresses replace one another without a trace, and leave the type alone.
LEMMA Relinked ==
    ASSUME NEW r, "type" \in DOMAIN r, NEW i, NEW j
    PROVE  /\ [r EXCEPT !.link = i].type = r.type
           /\ [[r EXCEPT !.link = i] EXCEPT !.link = j] = [r EXCEPT !.link = j]
  OBVIOUS

\* The options that are forwarded to an interface: those received, with the link
\* address of that interface in each of those the proxy answers for.
LEMMA RewrittenOptions ==
    ASSUME InHand, Busy, NEW to,
           ~((RewritesTarget \/ RewritesSource) /\ Endless(packet.opts))
    PROVE  /\ Rewritten(to) = [type |-> received.type, src |-> received.src,
                               opts |-> Rewritten(to).opts]
           /\ DOMAIN Rewritten(to).opts = DOMAIN received.opts
           /\ \A k \in DOMAIN received.opts :
                Rewritten(to).opts[k] = IF Answers(received, k)
                                        THEN [received.opts[k] EXCEPT !.link = to]
                                        ELSE received.opts[k]
<1>1. /\ received.opts \in OptionLists /\ received.type \in Types
      /\ packet.type = received.type /\ packet.src = received.src
      /\ packet = [type |-> received.type, src |-> received.src, opts |-> packet.opts]
      /\ DOMAIN packet.opts = DOMAIN received.opts
  BY DEF InHand, Packets
<1>2. PICK n \in Nat : DOMAIN received.opts = 1..n
  <2>1. received.opts \in Seq(ToSet(received.opts))
    BY <1>1, OptionAssumption
  <2>2. QED
    BY <2>1
<1>3. \A k \in 1..n : "type" \in DOMAIN received.opts[k]
  BY <1>1, <1>2, OptionAssumption
<1>4. \A k \in 1..n : \/ packet.opts[k] = received.opts[k]
                      \/ Answers(received, k) /\ \E i \in Interfaces :
                             packet.opts[k] = [received.opts[k] EXCEPT !.link = i]
  BY <1>2 DEF InHand
<1>5. \A k \in 1..n : packet.opts[k].type = received.opts[k].type
  BY <1>3, <1>4, Relinked
<1>6. /\ Walked(packet.opts) = Walked(received.opts)
      /\ Endless(packet.opts) <=> Endless(received.opts)
  BY <1>1, <1>2, <1>5, WalkByTypes
<1>7. \A k \in 1..n : [packet.opts[k] EXCEPT !.link = to] = [received.opts[k] EXCEPT !.link = to]
  BY <1>3, <1>4, Relinked
<1>8. ASSUME NEW link \in {"TargetLink", "SourceLink"},
             (received.type = "NA" /\ link = "TargetLink") \/ (received.type = "RA" /\ link = "SourceLink")
      PROVE  LET o == rewriteLinkAddressOption(packet.opts, to, link) IN
             /\ DOMAIN o = 1..n
             /\ \A k \in 1..n : o[k] = IF Answers(received, k)
                                       THEN [received.opts[k] EXCEPT !.link = to]
                                       ELSE received.opts[k]
  <2> DEFINE o == rewriteLinkAddressOption(packet.opts, to, link)
  <2>1. ~Endless(received.opts)
    BY <1>1, <1>6, <1>8 DEF RewritesTarget, RewritesSource
  <2>2. DOMAIN o = 1..n
    BY <1>1, <1>2 DEF rewriteLinkAddressOption
  <2>3. \A k \in 1..n : o[k] = IF k \in Walked(packet.opts) /\ packet.opts[k].type = link
                               THEN [packet.opts[k] EXCEPT !.link = to] ELSE packet.opts[k]
    BY <1>1, <1>2 DEF rewriteLinkAddressOption
  <2>4. \A k \in 1..n : Answers(received, k) <=>
            k \in Walked(received.opts) /\ received.opts[k].type = link
    <3>1. TAKE k \in 1..n
    <3>2. Answers(received, k) <=>
            (\A j \in 1..k : received.opts[j].type # "Beyond") /\ received.opts[k].type = link
      BY <1>8 DEF Answers
    <3>3. k \in Walked(received.opts) => \A j \in 1..k : received.opts[j].type # "Beyond"
      BY DEF Walked
    <3>4. (\A j \in 1..k : received.opts[j].type # "Beyond") => k \in Walked(received.opts)
      BY <1>1, <1>2, <2>1, WalkReaches
    <3>5. QED
      BY <3>2, <3>3, <3>4
  <2> HIDE DEF o
  <2>5. \A k \in 1..n : o[k] = IF Answers(received, k)
                               THEN [received.opts[k] EXCEPT !.link = to]
                               ELSE received.opts[k]
    BY <1>4, <1>5, <1>6, <1>7, <2>3, <2>4
  <2>6. QED
    BY <2>2, <2>5 DEF o
<1>9. CASE RewritesTarget \/ RewritesSource
  <2>1. PICK link \in {"TargetLink", "SourceLink"} :
          /\ \/ received.type = "NA" /\ link = "TargetLink"
             \/ received.type = "RA" /\ link = "SourceLink"
          /\ Rewritten(to) = [packet EXCEPT !.opts = rewriteLinkAddressOption(packet.opts, to, link)]
    BY <1>1, <1>9 DEF Rewritten, RewritesTarget, RewritesSource
  <2>2. Rewritten(to) = [type |-> received.type, src |-> received.src,
                         opts |-> rewriteLinkAddressOption(packet.opts, to, link)]
    BY <1>1, <2>1
  <2>3. QED
    BY <1>2, <1>8, <2>1, <2>2
<1>10. CASE ~(RewritesTarget \/ RewritesSource)
  <2>1. Rewritten(to) = [packet EXCEPT !.opts = packet.opts]
    BY <1>10 DEF Rewritten
  <2>2. Rewritten(to) = packet
    BY <1>1, <2>1
  <2>3. \A k \in 1..n : ~Answers(received, k)
    BY <1>1, <1>10 DEF Answers, RewritesTarget, RewritesSource
  <2>4. QED
    BY <1>1, <1>2, <1>4, <2>2, <2>3
<1>11. QED
  BY <1>9, <1>10

------------------------------------------------------------------------------
\* The loop that initializes the inner interfaces.

\* A step of the loop, whether the interface is ready or erased, keeps it in order.
LEMMA InitInnerStep ==
    ASSUME InnerVector, InitLoop, NEW ok \in BOOLEAN, initInner(ok)
    PROVE  InnerVector' /\ InitLoop'
<1> DEFINE I == ToSet(InnerIfs)
           n == Len(mInnerIfs)
<1>1. /\ mInnerIfs \in Seq(I) /\ n \in Nat /\ n <= Len(InnerIfs) /\ Len(InnerIfs) \in Nat
      /\ state = "Starting" /\ state' = "Starting"
      /\ it \in 1..n
      /\ tried \in [I -> {"no", "ready", "failed"}]
  BY ProxyAssumption DEF InnerVector, InitLoop, initInner
<1>2. /\ \A j, k \in 1..n : mInnerIfs[j] = mInnerIfs[k] => j = k
      /\ \A j \in 1..n : tried[mInnerIfs[j]] = IF j < it THEN "ready" ELSE "no"
      /\ \A i \in I : tried[i] # "failed" => \E j \in 1..n : mInnerIfs[j] = i
      /\ \A j \in 1..n : mInnerIfs[j] \in I
  <2>1. \A j \in 1..n : mInnerIfs[j] \in I
    BY <1>1
  <2>2. \A i \in I : i \in ToSet(mInnerIfs) => \E j \in 1..n : mInnerIfs[j] = i
    <3> HIDE DEF I
    <3>1. QED
      BY <1>1 DEF ToSet
  <2>3. QED
    BY <1>1, <2>1, <2>2 DEF InitLoop
<1> HIDE DEF I
<1>3. CASE ok
  <2>1. /\ it' = it + 1 /\ mInnerIfs' = mInnerIfs
        /\ tried' = [tried EXCEPT ![mInnerIfs[it]] = "ready"]
    BY <1>3 DEF initInner, interfaceInit
  <2>2. InnerVector'
    BY <1>1, <2>1 DEF InnerVector, I
  <2>3. tried' \in [I -> {"no", "ready", "failed"}]
    BY <1>1, <2>1
  <2>4. \A j \in 1..n : tried'[mInnerIfs[j]] = IF j < it + 1 THEN "ready" ELSE "no"
    <3>1. TAKE j \in 1..n
    <3>2. CASE j = it
      BY <1>1, <1>2, <2>1, <3>2
    <3>3. CASE j # it
      <4>1. mInnerIfs[j] # mInnerIfs[it]
        BY <1>1, <1>2, <3>3
      <4>2. tried'[mInnerIfs[j]] = tried[mInnerIfs[j]]
        BY <1>1, <1>2, <2>1, <4>1
      <4>3. j < it + 1 <=> j < it
        BY <1>1, <3>3
      <4>4. QED
        BY <1>2, <4>2, <4>3
    <3>4. QED
      BY <3>2, <3>3
  <2>5. \A i \in I : tried'[i] # "failed" => i \in ToSet(mInnerIfs)
    BY <1>1, <1>2, <2>1 DEF ToSet
  <2>6. InitLoop'
    BY <1>1, <1>2, <2>1, <2>3, <2>4, <2>5 DEF InitLoop, I
  <2>7. QED
    BY <2>2, <2>6
<1>4. CASE ~ok
  <2> DEFINE m == RemoveAt(mInnerIfs, it)
  <2>1. /\ it' = it /\ mInnerIfs' = m
        /\ tried' = [tried EXCEPT ![mInnerIfs[it]] = "failed"]
    BY <1>4 DEF initInner, interfaceInit
  <2>2. /\ m \in Seq(I) /\ Len(m) = n - 1
        /\ \A k \in 1..(n - 1) : m[k] = IF k < it THEN mInnerIfs[k] ELSE mInnerIfs[k + 1]
    BY <1>1, Erased
  <2> HIDE DEF m
  <2>3. InnerVector'
    BY <1>1, <2>1, <2>2 DEF InnerVector, I
  <2>4. tried' \in [I -> {"no", "ready", "failed"}]
    BY <1>1, <2>1
  <2>5. \A j, k \in 1..(n - 1) : m[j] = m[k] => j = k
    BY <1>1, <1>2, <2>2
  <2>6. \A j \in 1..(n - 1) : tried'[m[j]] = IF j < it THEN "ready" ELSE "no"
    <3>1. TAKE j \in 1..(n - 1)
    <3>2. PICK k \in 1..n : m[j] = mInnerIfs[k] /\ k # it /\ (k < it <=> j < it)
      BY <1>1, <2>2
    <3>3. tried'[m[j]] = tried[mInnerIfs[k]]
      BY <1>1, <1>2, <2>1, <3>2
    <3>4. QED
      BY <1>2, <3>2, <3>3
  <2>7. \A i \in I : tried'[i] # "failed" => i \in ToSet(m)
    <3>1. SUFFICES ASSUME NEW i \in I, tried'[i] # "failed" PROVE i \in ToSet(m)
      OBVIOUS
    <3>2. tried[i] # "failed" /\ i # mInnerIfs[it]
      BY <1>1, <1>2, <2>1, <3>1
    <3>3. PICK k \in 1..n : mInnerIfs[k] = i /\ k # it
      BY <1>2, <3>2
    <3>4. PICK j \in 1..(n - 1) : m[j] = i
      <4>1. CASE k < it
        <5>1. k \in 1..(n - 1) /\ m[k] = mInnerIfs[k]
          BY <1>1, <2>2, <4>1
        <5>2. QED
          BY <3>3, <5>1
      <4>2. CASE ~(k < it)
        <5>1. k - 1 \in 1..(n - 1) /\ ~(k - 1 < it) /\ k - 1 + 1 = k
          BY <1>1, <3>3, <4>2
        <5>2. m[k - 1] = mInnerIfs[k]
          BY <2>2, <5>1
        <5>3. QED
          BY <3>3, <5>1, <5>2
      <4>3. QED
        BY <4>1, <4>2
    <3>5. DOMAIN m = 1..(n - 1)
      BY <2>2
    <3>6. QED
      BY <3>4, <3>5 DEF ToSet
  <2>8. InitLoop'
    BY <1>1, <2>1, <2>2, <2>4, <2>5, <2>6, <2>7 DEF InitLoop, I
  <2>9. QED
    BY <2>3, <2>8
<1>5. QED
  BY <1>3, <1>4

\* Every step keeps the vector and the loop in order.
LEMMA LoopStep == InnerVector /\ InitLoop /\ [Next]_vars => (InnerVector /\ InitLoop)'
<1> SUFFICES ASSUME InnerVector, InitLoop, [Next]_vars PROVE (InnerVector /\ InitLoop)'
  OBVIOUS
<1>1. CASE Start
  <2>1. /\ state' = "Starting" /\ mInnerIfs' = InnerIfs /\ it' = 1
        /\ tried' = [i \in ToSet(InnerIfs) |-> "no"]
    BY <1>1 DEF Start
  <2>2. Len(InnerIfs) \in Nat /\ InnerIfs \in Seq(ToSet(InnerIfs))
    BY ProxyAssumption
  <2>3. InnerVector'
    BY <2>1, <2>2 DEF InnerVector
  <2>4. \A j, k \in 1..Len(InnerIfs) : InnerIfs[j] = InnerIfs[k] => j = k
    BY <2>2, ProxyAssumption, DistinctElements
  <2>5. \A j \in 1..Len(InnerIfs) : InnerIfs[j] \in ToSet(InnerIfs) /\ ~(j < 1)
    BY <2>2 DEF ToSet
  <2>6. InitLoop'
    BY <2>1, <2>4, <2>5 DEF InitLoop
  <2>7. QED
    BY <2>3, <2>6
<1>2. CASE \E ok \in BOOLEAN : initInner(ok)
  BY <1>2, InitInnerStep
<1>3. CASE startPolling
  <2>1. /\ state = "Starting" /\ it > Len(mInnerIfs) /\ UNCHANGED <<mInnerIfs, it, tried>>
        /\ state' = IF mInnerIfs = <<>> THEN "Stopped" ELSE "Polling"
    BY <1>3 DEF startPolling, history
  <2>2. InnerVector'
    BY <2>1 DEF InnerVector
  <2>3. InitLoop'
    BY <2>1 DEF InitLoop
  <2>4. QED
    BY <2>2, <2>3
<1>4. CASE Stop
  <2>1. /\ state' = "Stopped" /\ mInnerIfs' = <<>> /\ it' = 1
        /\ tried' = [i \in ToSet(InnerIfs) |-> "no"]
    BY <1>4 DEF Stop
  <2>2. Len(InnerIfs) \in Nat
    BY ProxyAssumption
  <2>3. QED
    BY <2>1, <2>2 DEF InnerVector, InitLoop
<1>5. ASSUME UNCHANGED <<mInnerIfs, it, tried>>,
             \/ state' = state
             \/ /\ state \in {"Polling", "Extracting", "Forwarding", "Looping"}
                /\ state' \in {"Polling", "Extracting", "Forwarding", "Looping"}
      PROVE  (InnerVector /\ InitLoop)'
  <2>1. InnerVector'
    BY <1>5 DEF InnerVector
  <2>2. InitLoop'
    BY <1>5 DEF InitLoop
  <2>3. QED
    BY <2>1, <2>2
<1>6. CASE \/ \E p \in Packets(Outer) : handleOuterMessage(p)
           \/ \E i \in ToSet(InnerIfs) : \E p \in Packets(i) : handleInnerMessage(i, p)
           \/ extractRecursiveDnsServers \/ forward \/ rewriteForever
  <2>1. UNCHANGED <<mInnerIfs, it, tried>>
    BY <1>6 DEF handleOuterMessage, handleInnerMessage, extractRecursiveDnsServers, forward,
                rewriteForever, history
  <2>2. /\ state \in {"Polling", "Extracting", "Forwarding", "Looping"}
        /\ state' \in {"Polling", "Extracting", "Forwarding", "Looping"}
    BY <1>6 DEF handleOuterMessage, handleInnerMessage, extractRecursiveDnsServers, setProperty,
                skipOption, forward, rewriteForever
  <2>3. QED
    BY <1>5, <2>1, <2>2
<1>7. CASE UNCHANGED vars
  BY <1>5, <1>7 DEF vars, proc, history
<1>8. QED
  BY <1>1, <1>2, <1>3, <1>4, <1>6, <1>7 DEF Next

\* The vector and the loop are in order in every behaviour.
LEMMA LoopHolds == Spec => [](InnerVector /\ InitLoop)
<1>1. Init => InnerVector /\ InitLoop
  <2>1. Len(InnerIfs) \in Nat
    BY ProxyAssumption
  <2>2. QED
    BY <2>1 DEF Init, InnerVector, InitLoop
<1>2. QED
  BY LoopStep, <1>1, PTL DEF Spec

\* Once the proxy polls, every inner interface was initialized, and the vector holds
\* exactly those that are ready, each once, for any number of interfaces and whichever
\* of them fail: the erase inside the loop of run() skips none.
THEOREM NoInterfaceSkipped == Spec => []EveryInterfaceTried
<1>1. InnerVector /\ InitLoop => EveryInterfaceTried
  <2> SUFFICES ASSUME InnerVector, InitLoop, state \in {"Polling", "Extracting", "Forwarding", "Looping"}
               PROVE  /\ \A i \in ToSet(InnerIfs) : tried[i] # "no"
                      /\ ToSet(mInnerIfs) = {i \in ToSet(InnerIfs) : tried[i] = "ready"}
                      /\ Cardinality(ToSet(mInnerIfs)) = Len(mInnerIfs)
    BY DEF EveryInterfaceTried
  <2>1. /\ mInnerIfs \in Seq(ToSet(InnerIfs)) /\ it = Len(mInnerIfs) + 1
    BY DEF InnerVector
  <2>2. DOMAIN mInnerIfs = 1..Len(mInnerIfs) /\ Len(mInnerIfs) \in Nat
    BY <2>1
  <2>3. \A j \in 1..Len(mInnerIfs) : tried[mInnerIfs[j]] = "ready" /\ mInnerIfs[j] \in ToSet(InnerIfs)
    BY <2>1, <2>2 DEF InitLoop
  <2>4. \A i \in ToSet(mInnerIfs) : tried[i] = "ready" /\ i \in ToSet(InnerIfs)
    BY <2>2, <2>3 DEF ToSet
  <2>5. \A i \in ToSet(InnerIfs) : tried[i] # "failed" => i \in ToSet(mInnerIfs)
    BY DEF InitLoop
  <2>6. Cardinality(ToSet(mInnerIfs)) = Len(mInnerIfs)
    BY <2>1, DistinctElements DEF InitLoop
  <2>7. QED
    BY <2>4, <2>5, <2>6
<1>2. QED
  BY LoopHolds, <1>1, PTL

------------------------------------------------------------------------------
\* The message in hand.

\* What the code of forward and the two handlers have to say of it.
Message == InHand /\ HeardInHand /\ StillToDo /\ from \in Interfaces

\* A message that was received is in hand as it is.
LEMMA HandleStep ==
    ASSUME InnerVector, state = "Polling",
           NEW i \in Interfaces, NEW p \in Packets(i), NEW ifs \in Seq(Interfaces),
           ifs # <<>>, p.type # "Other", p.type = "RA" => i = Outer, Handle(i, p, ifs)
    PROVE  Message'
<1>1. /\ from' = i /\ packet' = p /\ received' = p /\ todo' = ifs
      /\ heard' = heard \cup {<<p.src, i>> : t \in {p.type} \cap Announcements(i)}
  BY DEF Handle
<1>2. p = [type |-> p.type, src |-> p.src, opts |-> p.opts]
  BY DEF Packets
<1>3. InHand'
  BY <1>1, <1>2 DEF InHand, Interfaces, Packets, Addrs
<1>4. HeardInHand'
  BY <1>1 DEF HeardInHand, Announcements
<1>5. StillToDo'
  BY <1>1 DEF StillToDo, Interfaces
<1>6. QED
  BY <1>1, <1>3, <1>4, <1>5 DEF Message, Interfaces

\* Forwarding to the next interface keeps the rest of the message as it was.
LEMMA ForwardMessage == ASSUME Message, forward PROVE Message'
<1> DEFINE to == Head(todo)
<1>1. /\ state = "Forwarding" /\ Busy /\ InHand /\ from \in Interfaces
      /\ ~((RewritesTarget \/ RewritesSource) /\ Endless(packet.opts))
      /\ packet' = Rewritten(to) /\ todo' = Tail(todo)
      /\ state' = IF todo' = <<>> THEN "Polling" ELSE "Forwarding"
      /\ UNCHANGED <<from, received, heard>>
  BY DEF forward, Message, Busy
<1>2. todo \in Seq(Interfaces) /\ todo # <<>>
  BY <1>1 DEF Message, StillToDo
<1>3. to \in Interfaces /\ Tail(todo) \in Seq(Interfaces)
  BY <1>2
<1>4. StillToDo'
  <2>1. Interfaces' = Interfaces
    BY DEF Interfaces
  <2>2. QED
    BY <1>1, <1>3, <2>1 DEF StillToDo, Busy
<1>5. HeardInHand'
  BY <1>1 DEF HeardInHand, Announcements, Message
<1> HIDE DEF to
<1>6. /\ packet' = [type |-> received.type, src |-> received.src, opts |-> packet'.opts]
      /\ DOMAIN packet'.opts = DOMAIN received.opts
      /\ \A k \in DOMAIN received.opts :
           packet'.opts[k] = IF Answers(received, k)
                             THEN [received.opts[k] EXCEPT !.link = to]
                             ELSE received.opts[k]
  BY <1>1, RewrittenOptions
<1>7. /\ received \in Packets(from) /\ from' = from /\ received' = received
      /\ Packets(from') = Packets(from) /\ Interfaces' = Interfaces
      /\ \A k \in DOMAIN received.opts : Answers(received', k) <=> Answers(received, k)
  BY <1>1 DEF InHand, Packets, Interfaces, Addrs, Answers
<1>8. InHand'
  BY <1>1, <1>3, <1>6, <1>7 DEF InHand
<1>9. QED
  BY <1>1, <1>4, <1>5, <1>7, <1>8 DEF Message

\* Every step keeps the message in hand in order.
LEMMA MessageStep == InnerVector /\ Message /\ [Next]_vars => Message'
<1> SUFFICES ASSUME InnerVector, Message, [Next]_vars PROVE Message'
  OBVIOUS
<1>1. CASE forward
  BY <1>1, ForwardMessage
<1>2. ASSUME NEW p \in Packets(Outer), handleOuterMessage(p) PROVE Message'
  <2>1. Outer \in Interfaces /\ ToSet(InnerIfs) \subseteq Interfaces
    BY DEF Interfaces
  <2>2. mInnerIfs \in Seq(ToSet(InnerIfs)) /\ mInnerIfs # <<>> /\ state = "Polling"
    BY <1>2 DEF InnerVector, handleOuterMessage
  <2>3. mInnerIfs \in Seq(Interfaces)
    BY <2>1, <2>2
  <2>4. Handle(Outer, p, mInnerIfs) /\ p.type # "Other"
    BY <1>2 DEF handleOuterMessage
  <2>5. QED
    BY <2>1, <2>2, <2>3, <2>4, HandleStep
<1>3. ASSUME NEW i \in ToSet(InnerIfs), NEW p \in Packets(i), handleInnerMessage(i, p)
      PROVE  Message'
  <2>1. i \in Interfaces /\ Outer \in Interfaces /\ p.type \notin {"RA", "Other"} /\ state = "Polling"
        /\ Handle(i, p, <<Outer>>)
    BY <1>3 DEF Interfaces, handleInnerMessage
  <2>2. <<Outer>> \in Seq(Interfaces) /\ <<Outer>> # <<>>
    BY <2>1
  <2>3. QED
    BY <2>1, <2>2, HandleStep
<1>4. CASE Stop
  BY <1>4 DEF Stop, Message, InHand, HeardInHand, StillToDo, Interfaces, Busy
<1>5. ASSUME UNCHANGED <<from, packet, todo, received, heard>>,
             Busy' => Busy
      PROVE  Message'
  <2>1. InHand'
    <3>1. CASE ~Busy'
      BY <3>1 DEF InHand
    <3>2. CASE Busy
      <4>1. /\ Packets(from)' = Packets(from) /\ Interfaces' = Interfaces
            /\ \A k \in DOMAIN received.opts : Answers(received, k)' <=> Answers(received, k)
        BY <1>5 DEF Packets, Interfaces, Answers
      <4>2. QED
        BY <1>5, <3>2, <4>1 DEF Message, InHand
    <3>3. QED
      BY <1>5, <3>1, <3>2
  <2>2. HeardInHand'
    BY <1>5 DEF Message, HeardInHand, Announcements
  <2>3. StillToDo' /\ from' \in Interfaces'
    BY <1>5 DEF Message, StillToDo, Interfaces
  <2>4. QED
    BY <2>1, <2>2, <2>3 DEF Message
<1>6. CASE Start \/ (\E ok \in BOOLEAN : initInner(ok)) \/ startPolling \/ rewriteForever
           \/ extractRecursiveDnsServers \/ UNCHANGED vars
  <2>1. UNCHANGED <<from, packet, todo, received, heard>>
    BY <1>6 DEF Start, initInner, startPolling, rewriteForever, extractRecursiveDnsServers, vars,
                proc, history
  <2>2. Busy' => Busy
    BY <1>6 DEF Start, initInner, startPolling, rewriteForever, extractRecursiveDnsServers, vars,
                proc, Busy
  <2>3. QED
    BY <1>5, <2>1, <2>2
<1>7. QED
  BY <1>1, <1>2, <1>3, <1>4, <1>6 DEF Next

\* The message in hand is in order in every behaviour.
LEMMA MessageHolds == Spec => [](InnerVector /\ InitLoop /\ Message)
<1>1. Init => Message
  BY DEF Init, Message, InHand, HeardInHand, StillToDo, Interfaces, Busy
<1>2. QED
  BY LoopHolds, MessageStep, <1>1, PTL DEF Spec

------------------------------------------------------------------------------
\* What is put on a wire is faithful to the message in hand.
LEMMA FaithfulStep ==
    Message /\ ForwardedFaithfully /\ [Next]_vars => ForwardedFaithfully'
<1> SUFFICES ASSUME Message, ForwardedFaithfully, [Next]_vars PROVE ForwardedFaithfully'
  OBVIOUS
<1>1. CASE forward
  <2> DEFINE to == Head(todo)
  <2>1. /\ Busy /\ InHand /\ HeardInHand
        /\ ~((RewritesTarget \/ RewritesSource) /\ Endless(packet.opts))
        /\ packet' = Rewritten(to) /\ received' = received /\ from' = from
    BY <1>1 DEF forward, Message, Busy
  <2>2. /\ packet.type = received.type /\ packet.src = received.src
        /\ received.type \in {"RS", "RA", "NS", "NA"}
        /\ received.type = "RA" => from = Outer
    BY <2>1 DEF InHand, HeardInHand, Packets, Types
  <2>3. CASE sent' = None
    BY <2>3 DEF ForwardedFaithfully
  <2>4. CASE sent' = [to |-> to, src |-> SourceOn(to), packet |-> packet']
    <3>1. sent'.to = to /\ sent'.src = SourceOn(to) /\ sent'.packet = packet'
      BY <2>4
    <3>2. SpoofsSource <=> received.type \in {"RS", "NS"} \/ from # Outer
      BY <2>2 DEF SpoofsSource
    <3>3. sent'.src = IF /\ received.type \in {"RS", "NS"} \/ from # Outer
                         /\ received.src # Unspecified
                      THEN received.src ELSE sent'.to
      BY <2>2, <3>1, <3>2 DEF SourceOn
    <3> HIDE DEF to
    <3>4. /\ packet'.type = received.type
          /\ \A k \in DOMAIN received.opts :
               packet'.opts[k] = IF Answers(received, k)
                                 THEN [received.opts[k] EXCEPT !.link = to]
                                 ELSE received.opts[k]
      BY <2>1, RewrittenOptions
    <3>5. QED
      BY <2>1, <3>1, <3>3, <3>4 DEF ForwardedFaithfully, Answers
  <2>5. QED
    BY <1>1, <2>3, <2>4 DEF forward
<1>2. CASE \/ \E p \in Packets(Outer) : handleOuterMessage(p)
           \/ \E i \in ToSet(InnerIfs) : \E p \in Packets(i) : handleInnerMessage(i, p)
           \/ Stop
  <2>1. sent' = None
    BY <1>2 DEF handleOuterMessage, handleInnerMessage, Handle, Stop
  <2>2. QED
    BY <2>1 DEF ForwardedFaithfully
<1>3. CASE UNCHANGED <<sent, received, from>>
  BY <1>3 DEF ForwardedFaithfully
<1>4. CASE Start \/ (\E ok \in BOOLEAN : initInner(ok)) \/ startPolling \/ rewriteForever
           \/ extractRecursiveDnsServers \/ UNCHANGED vars
  BY <1>3, <1>4 DEF Start, initInner, startPolling, rewriteForever, extractRecursiveDnsServers,
                    vars, proc, history
<1>5. QED
  BY <1>1, <1>2, <1>4 DEF Next

\* Every interface gets the message as it was received, with its source where it is a
\* solicitation or comes from inside, and with the link address of that interface
\* wherever the proxy answers for the sender, for any number of interfaces and options,
\* although all copies are made in one buffer (forward, rewriteLinkAddressOption).
THEOREM CopiesAreFaithful == Spec => []ForwardedFaithfully
<1>1. Init => ForwardedFaithfully
  BY DEF Init, ForwardedFaithfully
<1>2. QED
  BY MessageHolds, FaithfulStep, <1>1, PTL DEF Spec

------------------------------------------------------------------------------
\* Every step leaves routes only to where somebody was heard.
LEMMA RoutesStep ==
    Message /\ RoutesLeadToSources /\ [Next]_vars => RoutesLeadToSources'
<1> SUFFICES ASSUME Message, RoutesLeadToSources, [Next]_vars PROVE RoutesLeadToSources'
  OBVIOUS
<1>1. CASE forward
  <2>1. /\ Busy /\ heard' = heard
        /\ packet.type = received.type /\ packet.src = received.src
    BY <1>1 DEF forward, Message, InHand, Busy
  <2>2. \/ routes' = routes
        \/ /\ from # Outer /\ received.type \in {"NS", "NA"}
           /\ routes' = routes \cup {<<received.src, from>>}
    BY <1>1, <2>1 DEF forward, AddsRoute, addRoute
  <2>3. \/ gateways' = gateways
        \/ received.type = "RA" /\ gateways' = gateways \cup {<<received.src, from>>}
    BY <1>1, <2>1 DEF forward, setDefaultGateway
  <2>4. from # Outer /\ received.type \in {"NS", "NA"} => <<received.src, from>> \in heard
    BY <2>1 DEF Message, HeardInHand, Announcements
  <2>5. received.type = "RA" => from = Outer /\ <<received.src, from>> \in heard
    BY <2>1 DEF Message, HeardInHand, Announcements
  <2>6. \A r \in routes' : r[2] # Outer /\ r \in heard
    BY <2>2, <2>4 DEF RoutesLeadToSources
  <2>7. \A g \in gateways' : g[2] = Outer /\ g \in heard
    BY <2>3, <2>5 DEF RoutesLeadToSources
  <2>8. QED
    BY <2>1, <2>6, <2>7 DEF RoutesLeadToSources
<1>2. ASSUME UNCHANGED kernel, heard \subseteq heard' PROVE RoutesLeadToSources'
  BY <1>2 DEF RoutesLeadToSources, kernel
<1>3. CASE \/ \E p \in Packets(Outer) : handleOuterMessage(p)
           \/ \E i \in ToSet(InnerIfs) : \E p \in Packets(i) : handleInnerMessage(i, p)
  <2>1. UNCHANGED kernel /\ heard \subseteq heard'
    BY <1>3 DEF handleOuterMessage, handleInnerMessage, Handle
  <2>2. QED
    BY <1>2, <2>1
<1>4. CASE Start \/ (\E ok \in BOOLEAN : initInner(ok)) \/ startPolling \/ rewriteForever
           \/ extractRecursiveDnsServers \/ Stop \/ UNCHANGED vars
  <2>1. UNCHANGED kernel /\ heard \subseteq heard'
    BY <1>4 DEF Start, initInner, startPolling, rewriteForever, extractRecursiveDnsServers, Stop,
                vars, history
  <2>2. QED
    BY <1>2, <2>1
<1>5. QED
  BY <1>1, <1>3, <1>4 DEF Next

\* Whatever was forwarded before, and however often the proxy was restarted, a host
\* route leads to an inner interface on which that host solicited or advertised, and a
\* default route to a router heard on the outer interface (addRoute,
\* setDefaultGateway).
THEOREM RoutesAreGrounded == Spec => []RoutesLeadToSources
<1>1. Init => RoutesLeadToSources
  BY DEF Init, RoutesLeadToSources
<1>2. QED
  BY MessageHolds, RoutesStep, <1>1, PTL DEF Spec

------------------------------------------------------------------------------
\* The option the walk is at has set the properties before the next one, but for the
\* calls that failed, and has still to set the others.
HalfSet ==
    /\ opt \in Nat \ {0} /\ prop \in 1..MaxServers
    /\ missed \subseteq 1..MaxServers /\ DOMAIN ipv6dns = 1..MaxServers
    /\ prop # 1 =>
         /\ state = "Extracting" /\ opt \in Walked(packet.opts) /\ packet.opts[opt].type = "Rdnss"
         /\ prop..MaxServers \subseteq missed
         /\ \A n \in (1..MaxServers) \ missed :
              ipv6dns[n] = ServerFor(packet.opts[opt].servers, n)

\* While the servers are extracted nothing of the message has been rewritten yet.
Unwritten == state = "Extracting" => packet.opts \in OptionLists

\* A property is set.
LEMMA PropertySet ==
    ASSUME HalfSet, Unwritten, state = "Extracting", opt \in Walked(packet.opts),
           setProperty, UNCHANGED packet
    PROVE  HalfSet' /\ ServersOfOneOption'
<1> DEFINE servers == packet.opts[opt].servers
           before == IF prop = 1 THEN 1..MaxServers ELSE missed
<1>1. /\ packet.opts \in OptionLists /\ opt \in DOMAIN packet.opts
      /\ packet.opts[opt].type = "Rdnss" /\ UNCHANGED <<state, packet>>
      /\ opt \in Nat \ {0} /\ prop \in 1..MaxServers
      /\ DOMAIN ipv6dns = 1..MaxServers /\ missed \subseteq 1..MaxServers
  BY DEF Unwritten, HalfSet, setProperty, Walked
<1>2. /\ before \subseteq 1..MaxServers /\ prop..MaxServers \subseteq before
      /\ \A n \in (1..MaxServers) \ before : ipv6dns[n] = ServerFor(servers, n)
  BY <1>1 DEF HalfSet, MaxServers
<1>3. \/ /\ ipv6dns' = [ipv6dns EXCEPT ![prop] = ServerFor(servers, prop)]
         /\ missed' = before \ {prop}
      \/ ipv6dns' = ipv6dns /\ missed' = before
  BY DEF setProperty, property_set
<1> HIDE DEF servers, before
<1>4. /\ missed' \subseteq 1..MaxServers /\ DOMAIN ipv6dns' = 1..MaxServers
      /\ (prop + 1)..MaxServers \subseteq missed'
      /\ \A n \in (1..MaxServers) \ missed' : ipv6dns'[n] = ServerFor(servers, n)
  <2>1. missed' \subseteq 1..MaxServers /\ DOMAIN ipv6dns' = 1..MaxServers
    BY <1>1, <1>2, <1>3
  <2>2. (prop + 1)..MaxServers \subseteq missed'
    <3>1. (prop + 1)..MaxServers \subseteq (prop..MaxServers) \ {prop}
      BY <1>1 DEF MaxServers
    <3>2. QED
      BY <1>2, <1>3, <3>1
  <2>3. \A n \in (1..MaxServers) \ missed' : ipv6dns'[n] = ServerFor(servers, n)
    <3>1. CASE ipv6dns' = ipv6dns /\ missed' = before
      BY <1>2, <3>1
    <3>2. CASE /\ ipv6dns' = [ipv6dns EXCEPT ![prop] = ServerFor(servers, prop)]
               /\ missed' = before \ {prop}
      <4>1. TAKE n \in (1..MaxServers) \ missed'
      <4>2. CASE n = prop
        BY <1>1, <3>2, <4>2
      <4>3. CASE n # prop
        BY <1>1, <1>2, <3>2, <4>3
      <4>4. QED
        BY <4>2, <4>3
    <3>3. QED
      BY <1>3, <3>1, <3>2
  <2>4. QED
    BY <2>1, <2>2, <2>3
<1>5. HalfSet'
  <2>1. CASE prop < MaxServers /\ prop' = prop + 1 /\ opt' = opt
    <3>1. prop' \in 1..MaxServers
      BY <1>1, <2>1 DEF MaxServers
    <3>2. \A n : ServerFor(packet'.opts[opt'].servers, n) = ServerFor(servers, n)
      BY <1>1, <2>1 DEF servers
    <3>3. Walked(packet'.opts) = Walked(packet.opts)
      BY <1>1
    <3>4. QED
      BY <1>1, <1>4, <2>1, <3>1, <3>2, <3>3 DEF HalfSet, ServerFor, MaxServers, NoServer, Walked
  <2>2. CASE prop = MaxServers /\ prop' = 1 /\ opt' = opt + 1
    BY <1>1, <1>4, <2>2 DEF HalfSet, MaxServers
  <2>3. QED
    BY <2>1, <2>2 DEF setProperty
<1>6. servers \in Seq(ToSet(servers))
  BY <1>1, OptionAssumption DEF servers
<1>7. \A n \in 1..MaxServers :
          ServerFor(servers, n) = IF n \in DOMAIN servers THEN servers[n] ELSE NoServer
  <2>1. DOMAIN servers = 1..Len(servers) /\ Len(servers) \in Nat
    BY <1>6
  <2>2. QED
    BY <2>1 DEF ServerFor, MaxServers
<1>8. ServersOfOneOption'
  BY <1>1, <1>4, <1>7 DEF ServersOfOneOption, servers
<1>9. QED
  BY <1>5, <1>8

\* Every step keeps the properties in order.
LEMMA ServersStep ==
    HalfSet /\ Unwritten /\ ServersOfOneOption /\ [Next]_vars
        => (HalfSet /\ Unwritten /\ ServersOfOneOption)'
<1> SUFFICES ASSUME HalfSet, Unwritten, ServersOfOneOption, [Next]_vars
             PROVE  HalfSet' /\ Unwritten' /\ ServersOfOneOption'
  OBVIOUS
<1>1. ASSUME UNCHANGED dns PROVE ServersOfOneOption'
  BY <1>1 DEF ServersOfOneOption, dns
<1>2. ASSUME UNCHANGED dns, prop' = 1, opt' \in Nat \ {0} PROVE HalfSet'
  BY <1>2 DEF HalfSet, dns, MaxServers
<1>3. CASE extractRecursiveDnsServers
  <2>1. /\ state = "Extracting" /\ packet' = packet
        /\ \/ opt \in Walked(packet.opts) /\ (setProperty \/ skipOption)
           \/ opt \notin Walked(packet.opts) /\ opt' = 1 /\ UNCHANGED <<prop, dns>>
    BY <1>3 DEF extractRecursiveDnsServers
  <2>2. Unwritten'
    BY <2>1 DEF Unwritten
  <2>3. CASE opt \in Walked(packet.opts) /\ setProperty
    BY <2>1, <2>2, <2>3, PropertySet
  <2>4. CASE opt \in Walked(packet.opts) /\ skipOption
    <3>1. UNCHANGED <<prop, dns>> /\ packet.opts[opt].type # "Rdnss" /\ opt' \in {opt, opt + 1}
      BY <2>4 DEF skipOption
    <3>2. prop = 1 /\ opt' \in Nat \ {0}
      BY <3>1 DEF HalfSet
    <3>3. QED
      BY <1>1, <1>2, <2>2, <3>1, <3>2
  <2>5. CASE opt \notin Walked(packet.opts) /\ opt' = 1 /\ UNCHANGED <<prop, dns>>
    <3>1. prop = 1
      BY <2>5 DEF HalfSet
    <3>2. QED
      BY <1>1, <1>2, <2>2, <2>5, <3>1
  <2>6. QED
    BY <2>1, <2>3, <2>4, <2>5
<1>4. ASSUME NEW p \in Packets(Outer), handleOuterMessage(p)
      PROVE  HalfSet' /\ Unwritten' /\ ServersOfOneOption'
  <2>1. state = "Polling" /\ UNCHANGED <<walk, dns>> /\ packet' = p
    BY <1>4 DEF handleOuterMessage, Handle
  <2>2. Unwritten'
    BY <2>1 DEF Unwritten, Packets
  <2>3. prop' = 1 /\ opt' \in Nat \ {0}
    BY <2>1 DEF HalfSet, walk
  <2>4. QED
    BY <1>1, <1>2, <2>1, <2>2, <2>3
<1>5. CASE \/ \E i \in ToSet(InnerIfs) : \E p \in Packets(i) : handleInnerMessage(i, p)
           \/ forward \/ rewriteForever \/ startPolling \/ Start \/ Stop
           \/ \E ok \in BOOLEAN : initInner(ok)
  <2>1. /\ UNCHANGED dns /\ state' # "Extracting"
        /\ \/ opt' = 1 /\ prop' = 1
           \/ state # "Extracting" /\ UNCHANGED walk
    BY <1>5 DEF handleInnerMessage, forward, rewriteForever, startPolling, Start, Stop, initInner
  <2>2. prop' = 1 /\ opt' \in Nat \ {0}
    BY <2>1 DEF HalfSet, walk
  <2>3. QED
    BY <1>1, <1>2, <2>1, <2>2 DEF Unwritten
<1>6. CASE UNCHANGED vars
  BY <1>1, <1>6 DEF vars, proc, walk, dns, HalfSet, Unwritten, Walked, ServerFor
<1>7. QED
  BY <1>3, <1>4, <1>5, <1>6 DEF Next

\* The DNS properties are in order in every behaviour.
LEMMA ServersHold == Spec => [](HalfSet /\ Unwritten /\ ServersOfOneOption)
<1>1. Init => HalfSet /\ Unwritten /\ ServersOfOneOption
  BY DEF Init, HalfSet, Unwritten, ServersOfOneOption, MaxServers
<1>2. QED
  BY ServersStep, <1>1, PTL DEF Spec

\* For any advertisements, in any order, with any number of RDNSS options and servers,
\* with calls of property_set that fail and kills between two of them, the DNS
\* properties an option has set are its servers or empty: those of an older option
\* stay only where the newest one has not set the property (extractRecursiveDnsServers
\* clears the properties it has no server for).
THEOREM DnsOfOneOption == Spec => []ServersOfOneOption
  BY ServersHold, PTL

------------------------------------------------------------------------------
\* The states of the process.
StateNamed ==
    state \in {"Stopped", "Starting", "Polling", "Extracting", "Forwarding", "Looping"}

\* The routes the proxy leaves behind have their type.
Outside == routes \subseteq Addrs \X Interfaces /\ gateways \subseteq Addrs \X Interfaces

\* Every step keeps it.
LEMMA OutsideStep == Message /\ Outside /\ [Next]_vars => Outside'
<1> SUFFICES ASSUME Message, Outside, [Next]_vars PROVE Outside'
  OBVIOUS
<1>1. Addrs' = Addrs /\ Interfaces' = Interfaces
  BY DEF Addrs, Interfaces
<1>2. CASE forward
  <2>1. /\ from \in Interfaces /\ received \in Packets(from) /\ packet.src = received.src
    BY <1>2 DEF forward, Message, InHand, Busy
  <2>2. packet.src \in Addrs
    BY <2>1 DEF Packets, Addrs
  <2>3. /\ routes' = routes \/ routes' = routes \cup {<<packet.src, from>>}
        /\ gateways' = gateways \/ gateways' = gateways \cup {<<packet.src, from>>}
    BY <1>2 DEF forward, addRoute, setDefaultGateway
  <2>4. QED
    BY <1>1, <2>1, <2>2, <2>3 DEF Outside
<1>3. CASE \/ \E p \in Packets(Outer) : handleOuterMessage(p)
           \/ \E i \in ToSet(InnerIfs) : \E p \in Packets(i) : handleInnerMessage(i, p)
           \/ extractRecursiveDnsServers \/ rewriteForever \/ startPolling \/ Start \/ Stop
           \/ \E ok \in BOOLEAN : initInner(ok)
           \/ UNCHANGED vars
  <2>1. UNCHANGED kernel
    BY <1>3 DEF handleOuterMessage, handleInnerMessage, extractRecursiveDnsServers, rewriteForever,
                startPolling, Start, Stop, initInner, vars
  <2>2. QED
    BY <1>1, <2>1 DEF Outside, kernel
<1>4. QED
  BY <1>2, <1>3 DEF Next

\* The proxy keeps its type: in particular a message that is being forwarded always has
\* an interface left to go to, and the four DNS properties are always all there.
THEOREM ProxyTyped == Spec => []TypeOK
<1>1. Init => Outside
  BY DEF Init, Outside
<1>2. Spec => []Outside
  BY MessageHolds, OutsideStep, <1>1, PTL DEF Spec
<1>3. ASSUME NEW S, NEW s \in Seq(S) PROVE ToSet(s) \subseteq S
  BY <1>3 DEF ToSet
<1>4. InnerVector /\ InitLoop /\ Message /\ HalfSet /\ Outside /\ StateNamed => TypeOK
  <2> SUFFICES ASSUME InnerVector, Message, HalfSet, Outside, StateNamed PROVE TypeOK
    OBVIOUS
  <2>1. ToSet(mInnerIfs) \subseteq ToSet(InnerIfs)
    BY <1>3 DEF InnerVector
  <2>2. ToSet(todo) \subseteq Interfaces
    BY <1>3 DEF Message, StillToDo
  <2>3. Len(InnerIfs) \in Nat /\ Len(mInnerIfs) \in Nat
    BY ProxyAssumption DEF InnerVector
  <2>4. it \in 1..(Len(InnerIfs) + 1)
    BY <2>3 DEF InnerVector
  <2>5. QED
    BY <2>1, <2>2, <2>4 DEF TypeOK, Message, StillToDo, HalfSet, Outside, StateNamed, Busy
<1>5. Init => StateNamed
  BY DEF Init, StateNamed
<1>6. StateNamed /\ [Next]_vars => StateNamed'
  BY DEF StateNamed, Next, vars, proc, Start, initInner, startPolling, handleOuterMessage,
         handleInnerMessage, extractRecursiveDnsServers, setProperty, skipOption, forward,
         rewriteForever, Stop
<1>7. QED
  BY MessageHolds, ServersHold, <1>2, <1>4, <1>5, <1>6, PTL DEF Spec
================================================================================
