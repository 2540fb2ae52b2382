--------------------------- MODULE DhcpClientProofs ---------------------------
(***************************************************************************)
(* The DHCP client, for any timeouts, word width and lease times: its      *)
(* state keeps its type, a lease is configured, a request names an offer,  *)
(* and a bound client never sleeps past T1.                                *)
(***************************************************************************)
EXTENDS DhcpClient, TLAPS

\* From the offer on, the address and the server of the offer are set.
OfferKept ==
    \A c \in Clients : mState[c] \in {"Requesting", "Bound", "Renewing", "Rebinding"} =>
        mRequestAddress[c] \in Addresses /\ mServerAddress[c] \in Servers

------------------------------------------------------------------------------
\* Arithmetic of the timeouts.

\* Truncation to a word keeps a time within the word and makes it no longer.
LEMMA Truncated ==
    ASSUME NEW t \in Nat
    PROVE  t % Word \in 0..(Word - 1) /\ t % Word <= t
<1>1. Word \in Nat /\ Word > 0
  BY ClientAssumption
<1>2. t % Word \in 0..(Word - 1)
  BY <1>1
<1>3. CASE t < Word
  <2>1. t % Word = t
    BY <1>1, <1>3
  <2>2. QED
    BY <1>2, <2>1
<1>4. CASE t >= Word
  BY <1>1, <1>2, <1>4
<1>5. QED
  BY <1>1, <1>3, <1>4

\* The back-off stays between the first and the largest timeout.
LEMMA BackOff ==
    ASSUME NEW t \in 0..kMaxTimeout
    PROVE  increaseTimeout(t) \in 0..kMaxTimeout
  BY ClientAssumption DEF increaseTimeout, Smaller, kNoTimeout

\* The variation makes no timeout negative, and none longer than by the span.
LEMMA Fuzz ==
    ASSUME NEW t \in 0..kMaxTimeout, NEW p \in FuzzedTimeouts(t)
    PROVE  p \in 0..(kMaxTimeout + kTimeoutSpan)
<1>1. PICK d \in (-kTimeoutSpan)..kTimeoutSpan : p = IF d < 0 /\ -d > t THEN 0 ELSE t + d
  BY DEF FuzzedTimeouts
<1>2. d \in Int /\ -kTimeoutSpan <= d /\ d <= kTimeoutSpan
  BY ClientAssumption
<1>3. QED
  BY <1>1, <1>2, ClientAssumption

\* The timers of an acknowledgement are times.
LEMMA TimersTyped ==
    ASSUME NEW m \in Reply
    PROVE  T1Of(m) * Second \in Nat /\ T2Of(m) * Second \in Nat
<1>1. m.lease \in Nat /\ m.t1 \in Nat /\ m.t2 \in Nat
  BY ClientAssumption DEF Reply
<1>2. Word \in Nat /\ Word > 0 /\ Second \in Nat
  BY ClientAssumption
<1>3. T1Of(m) \in Nat
  BY <1>1 DEF T1Of
<1>4. (m.lease * 7) % Word \in Nat
  BY <1>1, <1>2
<1>5. T2Of(m) \in Nat
  BY <1>1, <1>4 DEF T2Of
<1>6. QED
  BY <1>2, <1>3, <1>5

------------------------------------------------------------------------------
\* TypeOK, one client at a time: what a step does to the client that takes it.

\* Moving to a state that is evaluated at once keeps the control variables in their
\* type.
LEMMA NextStateTyped ==
    ASSUME TypeOK, NEW c \in Clients, NEW s \in States, setNextState(c, s)
    PROVE  /\ mState' \in [Clients -> States]
           /\ mNextTimeout' \in [Clients -> 0..(Word - 1)]
           /\ mFuzzNextTimeout' \in [Clients -> BOOLEAN]
           /\ poll' \in [Clients -> Int] /\ \A d \in Clients : poll'[d] >= Idle
           /\ \A d \in Clients : mState'[d] # "Bound" =>
                mNextTimeout'[d] <= kMaxTimeout /\ poll'[d] <= kMaxTimeout + kTimeoutSpan
<1> USE DEF setNextState, TypeOK
<1>1. mState' \in [Clients -> States]
  OBVIOUS
<1>2. mNextTimeout' \in [Clients -> 0..(Word - 1)]
  BY ClientAssumption DEF kNoTimeout
<1>3. mFuzzNextTimeout' \in [Clients -> BOOLEAN]
  OBVIOUS
<1>4. poll' \in [Clients -> Int] /\ \A d \in Clients : poll'[d] >= Idle
  BY DEF Idle
<1>5. \A d \in Clients : mState'[d] # "Bound" =>
                mNextTimeout'[d] <= kMaxTimeout /\ poll'[d] <= kMaxTimeout + kTimeoutSpan
  BY ClientAssumption DEF kNoTimeout, Idle
<1>6. QED
  BY <1>1, <1>2, <1>3, <1>4, <1>5

\* So does sending and waiting, which a bound client does not do.
LEMMA SendTyped ==
    ASSUME TypeOK, NEW c \in Clients, mState[c] # "Bound",
           NEW type \in {"DISCOVER", "REQUEST"}, NEW ip \in Int, NEW sid \in Int,
           SendAndWait(c, type, ip, sid)
    PROVE  TypeOK'
<1>1. mNextTimeout[c] \in 0..kMaxTimeout
  BY ClientAssumption DEF TypeOK
<1>2. /\ mNextTimeout' = [mNextTimeout EXCEPT ![c] = increaseTimeout(mNextTimeout[c])]
      /\ increaseTimeout(mNextTimeout[c]) \in 0..kMaxTimeout
  BY <1>1, BackOff DEF SendAndWait
<1>3. mNextTimeout'[c] \in 0..kMaxTimeout
  BY <1>2 DEF TypeOK
<1>4. PICK t \in FuzzedTimeouts(mNextTimeout'[c]) : poll' = [poll EXCEPT ![c] = t]
  BY DEF SendAndWait
<1>5. t \in 0..(kMaxTimeout + kTimeoutSpan)
  BY <1>3, <1>4, Fuzz
<1>6. mNextTimeout' \in [Clients -> 0..(Word - 1)]
  BY <1>2, ClientAssumption DEF TypeOK
<1>7. poll' \in [Clients -> Int] /\ \A d \in Clients : poll'[d] >= Idle
  BY <1>4, <1>5, ClientAssumption DEF TypeOK, Idle
<1>8. \A d \in Clients : mState[d] # "Bound" =>
         mNextTimeout'[d] <= kMaxTimeout /\ poll'[d] <= kMaxTimeout + kTimeoutSpan
  <2>1. poll'[c] <= kMaxTimeout + kTimeoutSpan /\ mNextTimeout'[c] <= kMaxTimeout
    BY <1>3, <1>4, <1>5, ClientAssumption DEF TypeOK
  <2>2. \A d \in Clients \ {c} : poll'[d] = poll[d] /\ mNextTimeout'[d] = mNextTimeout[d]
    BY <1>2, <1>4 DEF TypeOK
  <2>3. QED
    BY <2>1, <2>2 DEF TypeOK
<1>9. mLastMsg' \in [Clients -> [type : {"NONE", "DISCOVER", "REQUEST"},
                                 xid : 0..(XidSpace - 1), ip : Int, sid : Int]]
  <2>1. (mLastMsg[c].xid + 1) % XidSpace \in 0..(XidSpace - 1)
    BY ClientAssumption DEF TypeOK
  <2>2. QED
    BY <2>1 DEF SendAndWait, TypeOK
<1>10. UNCHANGED <<mState, mFuzzNextTimeout, timers, offer, iface>>
  BY DEF SendAndWait
<1>11. QED
  BY <1>6, <1>7, <1>8, <1>9, <1>10 DEF TypeOK, timers, offer, iface

\* Applying an acknowledgement keeps timers and interface in their type.
LEMMA ConfigureTyped ==
    ASSUME TypeOK, NEW c \in Clients, NEW m \in Reply, NEW done \in 0..3,
           configureDhcp(c, m, done)
    PROVE  /\ mT1' \in [Clients -> Nat] /\ mT2' \in [Clients -> Nat]
           /\ up' \in [Clients -> BOOLEAN]
           /\ addr' \in [Clients -> Addresses \cup {0}]
<1>1. mT1' \in [Clients -> Nat] /\ mT2' \in [Clients -> Nat]
  BY TimersTyped DEF configureDhcp, TypeOK
<1>2. up' \in [Clients -> BOOLEAN]
  BY DEF configureDhcp, TypeOK
<1>3. m.yiaddr \in Addresses
  BY DEF Reply
<1>4. addr' \in [Clients -> Addresses \cup {0}]
  BY <1>3 DEF configureDhcp, TypeOK
<1>5. QED
  BY <1>1, <1>2, <1>4

\* Every step of the switch in run keeps the state in its type.
LEMMA RunTyped == ASSUME TypeOK, NEW c \in Clients, Run(c) PROVE TypeOK'
<1> USE DEF timers, offer, iface
<1>1. mRequestAddress[c] \in Int /\ mServerAddress[c] \in Int
  <2>1. mRequestAddress[c] \in Addresses \cup {Unset} /\ mServerAddress[c] \in Servers \cup {Unset}
    BY DEF TypeOK
  <2>2. Addresses \subseteq Int /\ Servers \subseteq Int /\ Unset \in Int
    BY ClientAssumption DEF Unset
  <2>3. QED
    BY <2>1, <2>2
<1>2. CASE runInit(c) \/ GiveUp(c) \/ TimerExpired(c)
  <2>1. \E s \in States : setNextState(c, s)
    BY <1>2 DEF runInit, GiveUp, TimerExpired, States
  <2>2. UNCHANGED <<timers, mLastMsg, offer, iface>>
    BY <1>2 DEF runInit, GiveUp, TimerExpired
  <2>3. QED
    BY <2>1, <2>2, NextStateTyped DEF TypeOK
<1>3. CASE runSelecting(c)
  BY <1>3, SendTyped DEF runSelecting, Evaluates
<1>4. CASE runRequesting(c) \/ runRenewing(c) \/ runRebinding(c)
  <2>1. AnyServer \in Int
    BY DEF AnyServer
  <2>2. mState[c] # "Bound"
    BY <1>4 DEF runRequesting, runRenewing, runRebinding, Evaluates
  <2>3. \E sid \in Int : SendAndWait(c, "REQUEST", mRequestAddress[c], sid)
    BY <1>1, <1>4, <2>1 DEF runRequesting, runRenewing, runRebinding
  <2>4. QED
    BY <1>1, <2>2, <2>3, SendTyped
<1>5. CASE runBound(c)
  <2>1. mT1[c] % Word \in 0..(Word - 1)
    BY Truncated DEF TypeOK
  <2>2. mNextTimeout' \in [Clients -> 0..(Word - 1)]
    BY <1>5, <2>1 DEF runBound, TypeOK
  <2>3. poll' \in [Clients -> Int] /\ \A d \in Clients : poll'[d] >= Idle
    BY <1>5, <2>1, ClientAssumption DEF runBound, TypeOK, Idle
  <2>4. mFuzzNextTimeout' \in [Clients -> BOOLEAN]
    BY <1>5 DEF runBound, TypeOK
  <2>5. \A d \in Clients : d = c \/ (poll'[d] = poll[d] /\ mNextTimeout'[d] = mNextTimeout[d])
    BY <1>5 DEF runBound, TypeOK
  <2>6. \A d \in Clients : mState[d] # "Bound" =>
           mNextTimeout'[d] <= kMaxTimeout /\ poll'[d] <= kMaxTimeout + kTimeoutSpan
    BY <1>5, <2>5 DEF runBound, Evaluates, TypeOK
  <2>7. QED
    BY <1>5, <2>2, <2>3, <2>4, <2>6 DEF runBound, TypeOK
<1>6. QED
  BY <1>2, <1>3, <1>4, <1>5 DEF Run

\* So does every message.
LEMMA ReceiveTyped ==
    ASSUME TypeOK, NEW c \in Clients, NEW m \in Reply, Receive(c, m) PROVE TypeOK'
<1> USE DEF timers, offer, iface
<1>1. m.yiaddr \in Addresses /\ m.server \in Servers
  BY DEF Reply
<1>2. CASE ReceiveOffer(c, m)
  <2>1. setNextState(c, "Requesting") /\ "Requesting" \in States
    BY <1>2 DEF ReceiveOffer, States
  <2>2. /\ mRequestAddress' \in [Clients -> Addresses \cup {Unset}]
        /\ mServerAddress' \in [Clients -> Servers \cup {Unset}]
    BY <1>1, <1>2 DEF ReceiveOffer, TypeOK
  <2>3. UNCHANGED <<timers, mLastMsg, iface>>
    BY <1>2 DEF ReceiveOffer
  <2>4. QED
    BY <2>1, <2>2, <2>3, NextStateTyped DEF TypeOK
<1>3. CASE ReceiveAck(c, m)
  <2>1. setNextState(c, "Bound") /\ "Bound" \in States /\ configureDhcp(c, m, 3)
        /\ UNCHANGED <<mLastMsg, offer>>
    BY <1>3 DEF ReceiveAck, States
  <2>2. QED
    BY <2>1, NextStateTyped, ConfigureTyped DEF TypeOK
<1>4. CASE ReceiveAckFails(c, m)
  <2>1. \E done \in 0..3 : configureDhcp(c, m, done)
    BY <1>4 DEF ReceiveAckFails
  <2>2. UNCHANGED <<control, mLastMsg, offer>>
    BY <1>4 DEF ReceiveAckFails
  <2>3. QED
    BY <2>1, <2>2, ConfigureTyped DEF TypeOK, control
<1>5. CASE ReceiveNak(c, m)
  <2>1. setNextState(c, "Init") /\ "Init" \in States
    BY <1>5 DEF ReceiveNak, States
  <2>2. up' \in [Clients -> BOOLEAN] /\ addr' \in [Clients -> Addresses \cup {0}]
    BY <1>5 DEF ReceiveNak, TypeOK
  <2>3. UNCHANGED <<timers, mLastMsg, offer>>
    BY <1>5 DEF ReceiveNak
  <2>4. QED
    BY <2>1, <2>2, <2>3, NextStateTyped DEF TypeOK
<1>6. QED
  BY <1>2, <1>3, <1>4, <1>5 DEF Receive

\* And so do the passing of time and a restart.
LEMMA TypeStep == TypeOK /\ [Next]_vars => TypeOK'
<1> SUFFICES ASSUME TypeOK, [Next]_vars PROVE TypeOK'
  OBVIOUS
<1> USE DEF timers, offer, iface
<1>1. ASSUME NEW c \in Clients, Tick(c) PROVE TypeOK'
  <2>1. mT1' \in [Clients -> Nat] /\ mT2' \in [Clients -> Nat]
    <3>1. /\ mT1' = [mT1 EXCEPT ![c] = IF mT1[c] = 0 THEN 0 ELSE mT1[c] - 1]
          /\ mT2' = [mT2 EXCEPT ![c] = IF mT2[c] = 0 THEN 0 ELSE mT2[c] - 1]
      BY <1>1 DEF Tick
    <3>2. mT1 \in [Clients -> Nat] /\ mT2 \in [Clients -> Nat]
      BY DEF TypeOK
    <3>3. \A t \in Nat : (IF t = 0 THEN 0 ELSE t - 1) \in Nat
      OBVIOUS
    <3>4. QED
      BY <3>1, <3>2, <3>3
  <2>2. poll' \in [Clients -> Int]
        /\ \A d \in Clients : poll'[d] >= Idle /\ poll'[d] <= poll[d]
    <3>1. (poll[c] > 0 /\ poll' = [poll EXCEPT ![c] = poll[c] - 1]) \/ poll' = poll
      BY <1>1 DEF Tick
    <3>2. QED
      BY <3>1 DEF TypeOK, Idle
  <2>3. \A d \in Clients : mState[d] # "Bound" => poll'[d] <= kMaxTimeout + kTimeoutSpan
    BY <2>2, ClientAssumption DEF TypeOK
  <2>4. UNCHANGED <<mState, mNextTimeout, mFuzzNextTimeout, mLastMsg, offer, iface>>
    BY <1>1 DEF Tick
  <2>5. QED
    BY <2>1, <2>2, <2>3, <2>4 DEF TypeOK
<1>2. ASSUME NEW c \in Clients, Timeout(c) PROVE TypeOK'
  <2>1. poll' \in [Clients -> Int]
        /\ \A d \in Clients : poll'[d] >= Idle /\ poll'[d] <= poll[d]
    BY <1>2 DEF Timeout, TypeOK, Idle
  <2>2. \A d \in Clients : mState[d] # "Bound" => poll'[d] <= kMaxTimeout + kTimeoutSpan
    BY <2>1, ClientAssumption DEF TypeOK
  <2>3. QED
    BY <1>2, <2>1, <2>2 DEF Timeout, TypeOK
<1>3. ASSUME NEW c \in Clients, Restart(c) PROVE TypeOK'
  <2>1. NoMessage \in [type : {"NONE", "DISCOVER", "REQUEST"},
                       xid : 0..(XidSpace - 1), ip : Int, sid : Int]
    BY ClientAssumption DEF NoMessage
  <2>2. mLastMsg' \in [Clients -> [type : {"NONE", "DISCOVER", "REQUEST"},
                                   xid : 0..(XidSpace - 1), ip : Int, sid : Int]]
    BY <1>3, <2>1 DEF Restart, TypeOK
  <2>3. /\ mState' \in [Clients -> States]
        /\ mNextTimeout' \in [Clients -> 0..(Word - 1)]
        /\ mFuzzNextTimeout' \in [Clients -> BOOLEAN]
    BY <1>3, ClientAssumption DEF Restart, TypeOK, States
  <2>4. /\ poll' \in [Clients -> Int] /\ \A d \in Clients : poll'[d] >= Idle
        /\ \A d \in Clients : mState'[d] # "Bound" =>
             mNextTimeout'[d] <= kMaxTimeout /\ poll'[d] <= kMaxTimeout + kTimeoutSpan
    BY <1>3, ClientAssumption DEF Restart, TypeOK, Idle
  <2>5. /\ mT1' \in [Clients -> Nat] /\ mT2' \in [Clients -> Nat]
        /\ mRequestAddress' \in [Clients -> Addresses \cup {Unset}]
        /\ mServerAddress' \in [Clients -> Servers \cup {Unset}]
        /\ up' \in [Clients -> BOOLEAN]
        /\ addr' \in [Clients -> Addresses \cup {0}]
    BY <1>3 DEF Restart, TypeOK
  <2>6. QED
    BY <2>2, <2>3, <2>4, <2>5 DEF TypeOK
<1>4. CASE UNCHANGED vars
  BY <1>4 DEF vars, control, TypeOK
<1>5. QED
  BY <1>1, <1>2, <1>3, <1>4, RunTyped, ReceiveTyped DEF Next

\* A client that has just started has a state of its type.
LEMMA TypeInit == Init => TypeOK
<1>1. NoMessage \in [type : {"NONE", "DISCOVER", "REQUEST"},
                     xid : 0..(XidSpace - 1), ip : Int, sid : Int]
  BY ClientAssumption DEF NoMessage
<1>2. QED
  BY <1>1, ClientAssumption DEF Init, TypeOK, States, Idle

\* The state of a client always has its type, and unless it is bound it never waits
\* longer than the largest timeout and its variation: the back-off of increaseTimeout
\* and the fuzz of calculateTimeoutMillis keep to their limits for any constants.
THEOREM ClientTyped == Spec => []TypeOK
  BY TypeInit, TypeStep, PTL DEF Spec

------------------------------------------------------------------------------
\* Every step keeps the interface of a leased client configured.
LEMMA LeaseStep == TypeOK /\ LeaseIsConfigured /\ [Next]_vars => LeaseIsConfigured'
<1> SUFFICES ASSUME TypeOK, LeaseIsConfigured, [Next]_vars, NEW d \in Clients, Leased(d)'
             PROVE  up'[d] /\ addr'[d] # 0
  BY DEF LeaseIsConfigured
<1> USE DEF Leased, LeaseIsConfigured, iface
<1>1. mState \in [Clients -> States] /\ up \in [Clients -> BOOLEAN]
      /\ addr \in [Clients -> Addresses \cup {0}]
  BY DEF TypeOK
<1>2. ASSUME NEW c \in Clients, Run(c) PROVE up'[d] /\ addr'[d] # 0
  <2>1. UNCHANGED iface
    BY <1>2 DEF Run, runInit, runSelecting, runRequesting, runBound, runRenewing,
       runRebinding, GiveUp, TimerExpired, SendAndWait
  <2>2. Leased(d)
    BY <1>1, <1>2 DEF Run, runInit, runSelecting, runRequesting, runBound, runRenewing,
       runRebinding, GiveUp, TimerExpired, SendAndWait, setNextState, Evaluates
  <2>3. QED
    BY <2>1, <2>2
<1>3. ASSUME NEW c \in Clients, NEW m \in Reply, Receive(c, m) PROVE up'[d] /\ addr'[d] # 0
  <2>1. m.yiaddr # 0
    BY ClientAssumption DEF Reply
  <2>2. CASE ReceiveOffer(c, m)
    BY <1>1, <2>2 DEF ReceiveOffer, setNextState
  <2>3. CASE ReceiveAck(c, m)
    <3>1. /\ up' = [up EXCEPT ![c] = up[c] \/ 3 >= 1]
          /\ addr' = [addr EXCEPT ![c] = IF 3 >= 2 THEN m.yiaddr ELSE addr[c]]
          /\ mState' = [mState EXCEPT ![c] = "Bound"]
      BY <2>3 DEF ReceiveAck, configureDhcp, setNextState
    <3>2. up'[c] /\ addr'[c] # 0
      <4>1. up'[c]
        BY <1>1, <3>1, 3 >= 1
      <4>2. addr'[c] = m.yiaddr
        BY <1>1, <3>1
      <4>3. QED
        BY <2>1, <4>1, <4>2
    <3>3. CASE d # c
      BY <1>1, <3>1, <3>3
    <3>4. QED
      BY <3>2, <3>3
  <2>4. CASE ReceiveAckFails(c, m)
    <3>1. PICK done \in 0..2 : configureDhcp(c, m, done)
      BY <2>4 DEF ReceiveAckFails
    <3>2. mState' = mState
      BY <2>4 DEF ReceiveAckFails, control
    <3>3. QED
      BY <1>1, <2>1, <3>1, <3>2 DEF configureDhcp
  <2>5. CASE ReceiveNak(c, m)
    BY <1>1, <2>5 DEF ReceiveNak, setNextState
  <2>6. QED
    BY <1>3, <2>2, <2>3, <2>4, <2>5 DEF Receive
<1>4. ASSUME NEW c \in Clients, Tick(c) \/ Timeout(c) PROVE up'[d] /\ addr'[d] # 0
  BY <1>4 DEF Tick, Timeout
<1>5. ASSUME NEW c \in Clients, Restart(c) PROVE up'[d] /\ addr'[d] # 0
  BY <1>1, <1>5 DEF Restart
<1>6. CASE UNCHANGED vars
  BY <1>6 DEF vars, control
<1>7. QED
  BY <1>2, <1>3, <1>4, <1>5, <1>6 DEF Next

\* A client that counts on a lease has its link up and an address, whichever steps of
\* later configurations fail and whatever a NAK leaves behind (configureDhcp,
\* haltNetwork).
THEOREM LeasedIsConfigured == Spec => []LeaseIsConfigured
<1>1. Init => LeaseIsConfigured
  BY DEF Init, LeaseIsConfigured, Leased
<1>2. QED
  BY ClientTyped, LeaseStep, <1>1, PTL DEF Spec

------------------------------------------------------------------------------
\* The offer stays while it is asked for, and a request is only built from it.
LEMMA OfferStep ==
    TypeOK /\ OfferKept /\ RequestsNameAnOffer /\ [Next]_vars
        => (OfferKept /\ RequestsNameAnOffer)'
<1> SUFFICES ASSUME TypeOK, OfferKept, RequestsNameAnOffer, [Next]_vars
             PROVE  (OfferKept /\ RequestsNameAnOffer)'
  OBVIOUS
<1> USE DEF OfferKept, RequestsNameAnOffer, offer
<1>1. /\ mState \in [Clients -> States]
      /\ mRequestAddress \in [Clients -> Addresses \cup {Unset}]
      /\ mServerAddress \in [Clients -> Servers \cup {Unset}]
      /\ mLastMsg \in [Clients -> [type : {"NONE", "DISCOVER", "REQUEST"},
                                   xid : 0..(XidSpace - 1), ip : Int, sid : Int]]
  BY DEF TypeOK
<1>2. ASSUME NEW c \in Clients, runInit(c) \/ GiveUp(c) \/ TimerExpired(c)
      PROVE  (OfferKept /\ RequestsNameAnOffer)'
  BY <1>1, <1>2 DEF runInit, GiveUp, TimerExpired, setNextState, Evaluates
<1>3. ASSUME NEW c \in Clients, runSelecting(c)
      PROVE  (OfferKept /\ RequestsNameAnOffer)'
  BY <1>1, <1>3 DEF runSelecting, SendAndWait
<1>4. ASSUME NEW c \in Clients, runRequesting(c) \/ runRenewing(c) \/ runRebinding(c)
      PROVE  (OfferKept /\ RequestsNameAnOffer)'
  <2>1. /\ mState[c] \in {"Requesting", "Renewing", "Rebinding"}
        /\ \E sid \in {mServerAddress[c], AnyServer} :
              SendAndWait(c, "REQUEST", mRequestAddress[c], sid)
    BY <1>4 DEF runRequesting, runRenewing, runRebinding, Evaluates
  <2>2. mRequestAddress[c] \in Addresses /\ mServerAddress[c] \in Servers
    BY <2>1
  <2>3. UNCHANGED <<mState, offer>>
    BY <2>1 DEF SendAndWait
  <2>4. mLastMsg'[c].ip \in Addresses /\ mLastMsg'[c].sid \in Servers \cup {AnyServer}
    BY <1>1, <2>1, <2>2 DEF SendAndWait
  <2>5. \A d \in Clients \ {c} : mLastMsg'[d] = mLastMsg[d]
    BY <1>1, <2>1 DEF SendAndWait
  <2>6. QED
    BY <2>3, <2>4, <2>5
<1>5. ASSUME NEW c \in Clients, NEW m \in Reply, ReceiveOffer(c, m)
      PROVE  (OfferKept /\ RequestsNameAnOffer)'
  <2>1. m.yiaddr \in Addresses /\ m.server \in Servers
    BY DEF Reply
  <2>2. QED
    BY <1>1, <1>5, <2>1 DEF ReceiveOffer, setNextState
<1>6. ASSUME NEW c \in Clients, NEW m \in Reply, ReceiveAck(c, m) \/ ReceiveNak(c, m)
      PROVE  (OfferKept /\ RequestsNameAnOffer)'
  BY <1>1, <1>6 DEF ReceiveAck, ReceiveNak, AwaitsAck, setNextState
<1>7. ASSUME NEW c \in Clients, Restart(c) PROVE (OfferKept /\ RequestsNameAnOffer)'
  BY <1>1, <1>7 DEF Restart, NoMessage
<1>8. CASE UNCHANGED <<mState, offer, mLastMsg>>
  BY <1>8
<1>9. ASSUME NEW c \in Clients,
             \/ runBound(c) \/ Tick(c) \/ Timeout(c)
             \/ \E m \in Reply : ReceiveAckFails(c, m)
      PROVE  (OfferKept /\ RequestsNameAnOffer)'
  BY <1>8, <1>9 DEF runBound, Tick, Timeout, ReceiveAckFails, control
<1>10. QED
  BY <1>2, <1>3, <1>4, <1>5, <1>6, <1>7, <1>8, <1>9 DEF Next, Run, Receive, vars, control

\* The members the constructor leaves uninitialized are never put in a message before
\* an offer has set them: a request always names an address and a server of an offer.
THEOREM RequestsAreOfOffers == Spec => []RequestsNameAnOffer
<1>1. Init => OfferKept /\ RequestsNameAnOffer
  BY DEF Init, OfferKept, RequestsNameAnOffer, NoMessage
<1>2. QED
  BY ClientTyped, OfferStep, <1>1, PTL DEF Spec

------------------------------------------------------------------------------
\* No step makes the wait of a bound client longer than the time to T1.
LEMMA SleepStep == TypeOK /\ NeverOversleeps /\ [Next]_vars => NeverOversleeps'
<1> SUFFICES ASSUME TypeOK, NeverOversleeps, [Next]_vars,
                    NEW d \in Clients, mState'[d] = "Bound"
             PROVE  poll'[d] <= mT1'[d]
  BY DEF NeverOversleeps
<1> USE DEF NeverOversleeps, timers, Idle
<1>1. /\ mState \in [Clients -> States] /\ poll \in [Clients -> Int]
      /\ mT1 \in [Clients -> Nat] /\ mT1' \in [Clients -> Nat]
  BY TypeStep DEF TypeOK
<1>2. ASSUME NEW c \in Clients, NEW s \in States, setNextState(c, s),
             \A e \in Clients \ {c} : mT1'[e] = mT1[e]
      PROVE  poll'[d] <= mT1'[d]
  BY <1>1, <1>2 DEF setNextState
<1>3. ASSUME NEW c \in Clients, runInit(c) \/ GiveUp(c) \/ TimerExpired(c)
      PROVE  poll'[d] <= mT1'[d]
  <2>1. \E s \in States : setNextState(c, s)
    BY <1>3 DEF runInit, GiveUp, TimerExpired, States
  <2>2. UNCHANGED timers
    BY <1>3 DEF runInit, GiveUp, TimerExpired
  <2>3. QED
    BY <1>2, <2>1, <2>2
<1>4. ASSUME NEW c \in Clients,
             runSelecting(c) \/ runRequesting(c) \/ runRenewing(c) \/ runRebinding(c)
      PROVE  poll'[d] <= mT1'[d]
  <2>1. mState[c] # "Bound" /\ \E type, ip, sid : SendAndWait(c, type, ip, sid)
    BY <1>4 DEF runSelecting, runRequesting, runRenewing, runRebinding, Evaluates
  <2>2. d # c
    BY <2>1 DEF SendAndWait
  <2>3. QED
    BY <1>1, <2>1, <2>2 DEF SendAndWait
<1>5. ASSUME NEW c \in Clients, runBound(c) PROVE poll'[d] <= mT1'[d]
  <2>1. mT1[c] % Word <= mT1[c] /\ mT1[c] % Word \in Int
    BY <1>1, Truncated, ClientAssumption
  <2>2. QED
    BY <1>1, <1>5, <2>1 DEF runBound
<1>6. ASSUME NEW c \in Clients, Tick(c) PROVE poll'[d] <= mT1'[d]
  BY <1>1, <1>6 DEF Tick, Evaluates
<1>7. ASSUME NEW c \in Clients, Timeout(c) PROVE poll'[d] <= mT1'[d]
  BY <1>1, <1>7 DEF Timeout
<1>8. ASSUME NEW c \in Clients, NEW m \in Reply, Receive(c, m) PROVE poll'[d] <= mT1'[d]
  <2>1. CASE ReceiveAckFails(c, m)
    <3>1. UNCHANGED control /\ d # c
      BY <2>1 DEF ReceiveAckFails, AwaitsAck, control
    <3>2. mT1'[d] = mT1[d]
      BY <1>1, <2>1, <3>1 DEF ReceiveAckFails, configureDhcp
    <3>3. QED
      BY <3>1, <3>2 DEF control
  <2>2. CASE ~ReceiveAckFails(c, m)
    <3>1. \E s \in States : setNextState(c, s)
      BY <1>8, <2>2 DEF Receive, ReceiveOffer, ReceiveAck, ReceiveNak, States
    <3>2. \A e \in Clients \ {c} : mT1'[e] = mT1[e]
      BY <1>1, <1>8 DEF Receive, ReceiveOffer, ReceiveAck, ReceiveAckFails, ReceiveNak,
         configureDhcp
    <3>3. QED
      BY <1>2, <3>1, <3>2
  <2>3. QED
    BY <2>1, <2>2
<1>9. ASSUME NEW c \in Clients, Restart(c) PROVE poll'[d] <= mT1'[d]
  BY <1>1, <1>9 DEF Restart
<1>10. CASE UNCHANGED vars
  BY <1>10 DEF vars, control
<1>11. QED
  BY <1>3, <1>4, <1>5, <1>6, <1>7, <1>8, <1>9, <1>10 DEF Next, Run

\* A bound client never sleeps past T1, for any width of the word its wait is
\* truncated to and any lease time (the Bound case of run).
THEOREM BoundWakesForT1 == Spec => []NeverOversleeps
<1>1. Init => NeverOversleeps
  BY DEF Init, NeverOversleeps
<1>2. QED
  BY ClientTyped, SleepStep, <1>1, PTL DEF Spec
===============================================================================
