------------------------------ MODULE DhcpClient ------------------------------
(***************************************************************************)
(* The DHCP client of wifi/dhcp/client: a process that loops between       *)
(* evaluating its state (the switch in run) and waiting for a timeout or a *)
(* reply (waitAndReceive).  Clients are separate processes; nothing here   *)
(* is shared between them.                                                 *)
(*                                                                         *)
(* Time passes in ticks while a client waits.  poll[c] is what remains of  *)
(* the ppoll timeout, or Idle when the switch of run is next.  A running   *)
(* step takes no time: only the waits do.                                  *)
(*                                                                         *)
(* External: the kernel's view of the interface.  A link that is down      *)
(* neither sends nor receives, and setAddress replaces the address.  The   *)
(* default route is left out: setDefaultGateway asks for no acknowledgment *)
(* and so cannot tell whether the kernel made it.                          *)
(***************************************************************************)
EXTENDS Integers

CONSTANTS
    Clients,
    kInitialTimeout, kMaxTimeout, kTimeoutSpan,
    NoGateway,          \* ClientOption::NoGateway was given
    Second,             \* ticks in a second; the timeouts are in ticks
    Word,               \* 2^32 in the code: uint32_t arithmetic is modulo Word
    XidSpace,           \* 2^32 in the code: transaction ids wrap around here
    Addresses,          \* addresses a server may give out
    Servers,            \* addresses of servers
    Times               \* values of the lease time, T1 and T2 options (0: absent)

ASSUME ClientAssumption ==
    /\ kInitialTimeout \in Nat \ {0}
    /\ kMaxTimeout \in Nat /\ kMaxTimeout >= kInitialTimeout
    /\ kTimeoutSpan \in Nat
    /\ NoGateway \in BOOLEAN
    /\ Second \in Nat \ {0}
    /\ Word \in Nat /\ Word > kMaxTimeout
    /\ XidSpace \in Nat /\ XidSpace > 1
    /\ Addresses \subseteq Nat \ {0}
    /\ Servers \subseteq Nat \ {0}
    /\ Times \subseteq Nat

VARIABLES
    mState, mNextTimeout, mFuzzNextTimeout,
    poll,
    mT1, mT2,                           \* ticks until the timers expire
    mLastMsg,                           \* the last message built
    mRequestAddress, mServerAddress,    \* from the accepted offer
    up, addr                            \* the interface: link and address

control == <<mState, mNextTimeout, mFuzzNextTimeout, poll>>
timers  == <<mT1, mT2>>
offer   == <<mRequestAddress, mServerAddress>>
iface   == <<up, addr>>
vars    == <<control, timers, mLastMsg, offer, iface>>

States == {"Init", "Selecting", "Requesting", "Bound", "Renewing", "Rebinding"}

Idle       == -1
kNoTimeout == 0
Unset      == -1        \* mRequestAddress and mServerAddress start uninitialized
AnyServer  == 0         \* INADDR_BROADCAST as the server id of a request

NoMessage == [type |-> "NONE", xid |-> 0, ip |-> 0, sid |-> 0]

Reply == [type : {"OFFER", "ACK", "NAK"}, xid : 0..(XidSpace - 1), yiaddr : Addresses,
          server : Servers, lease : Times, t1 : Times, t2 : Times]

------------------------------------------------------------------------------
\* Timeouts.

Smaller(x, y) == IF x < y THEN x ELSE y

\* Mutation: the back-off has no upper limit.
increaseTimeoutForever(t) == IF t = kNoTimeout THEN kInitialTimeout ELSE 2 * t

increaseTimeout(t) ==
    IF t = kNoTimeout THEN kInitialTimeout
    ELSE Smaller(IF t < kMaxTimeout THEN 2 * t ELSE t, kMaxTimeout)

\* calculateTimeoutMillis: the poll timeouts a base timeout may turn into.
FuzzedTimeouts(t) ==
    {IF d < 0 /\ -d > t THEN 0 ELSE t + d : d \in (-kTimeoutSpan)..kTimeoutSpan}

\* configureDhcp: seconds to T1 and T2, from the options or estimated in uint32_t.
T1Of(m) == IF m.t1 > 0 THEN m.t1 ELSE m.lease \div 2
T2Of(m) == IF m.t2 > 0 THEN m.t2 ELSE ((m.lease * 7) % Word) \div 8

------------------------------------------------------------------------------
\* State changes the handlers share.

\* Move to state s; the next poll timeout is zero and s is evaluated at once.
setNextState(c, s) ==
    /\ mState' = [mState EXCEPT ![c] = s]
    /\ mNextTimeout' = [mNextTimeout EXCEPT ![c] = kNoTimeout]
    /\ mFuzzNextTimeout' = [mFuzzNextTimeout EXCEPT ![c] = TRUE]
    /\ poll' = [poll EXCEPT ![c] = Idle]

\* Build a message with the next transaction id and send it (a failure is only
\* logged); then back off and wait.  The transaction ids count up from 1.
SendAndWait(c, type, ip, sid) ==
    /\ mLastMsg' = [mLastMsg EXCEPT ![c] =
           [type |-> type, xid |-> (@.xid + 1) % XidSpace, ip |-> ip, sid |-> sid]]
    /\ mNextTimeout' = [mNextTimeout EXCEPT ![c] = increaseTimeout(@)]
    /\ \E t \in FuzzedTimeouts(mNextTimeout'[c]) : poll' = [poll EXCEPT ![c] = t]
    /\ UNCHANGED <<mState, mFuzzNextTimeout, timers, offer, iface>>

------------------------------------------------------------------------------
\* A client that has just started: init brought the link up and cleared the
\* address.
Init ==
    /\ mState = [c \in Clients |-> "Init"]
    /\ mNextTimeout = [c \in Clients |-> kInitialTimeout]
    /\ mFuzzNextTimeout = [c \in Clients |-> TRUE]
    /\ poll = [c \in Clients |-> Idle]
    /\ mT1 = [c \in Clients |-> 0]
    /\ mT2 = [c \in Clients |-> 0]
    /\ mLastMsg = [c \in Clients |-> NoMessage]
    /\ mRequestAddress = [c \in Clients |-> Unset]
    /\ mServerAddress = [c \in Clients |-> Unset]
    /\ up = [c \in Clients |-> TRUE]
    /\ addr = [c \in Clients |-> 0]

\* The switch of run, one action per case and branch.
Evaluates(c, s) == poll[c] = Idle /\ mState[c] = s

runInit(c) ==
    /\ Evaluates(c, "Init")
    /\ setNextState(c, "Selecting")
    /\ UNCHANGED <<timers, mLastMsg, offer, iface>>

runSelecting(c) ==
    /\ Evaluates(c, "Selecting")
    /\ SendAndWait(c, "DISCOVER", 0, 0)

\* Mutation: requesting has no limit of its own.
runRequestingForever(c) ==
    /\ Evaluates(c, "Requesting")
    /\ SendAndWait(c, "REQUEST", mRequestAddress[c], mServerAddress[c])

runRequesting(c) ==
    /\ Evaluates(c, "Requesting")
    /\ mNextTimeout[c] < kMaxTimeout
    /\ SendAndWait(c, "REQUEST", mRequestAddress[c], mServerAddress[c])

runRenewing(c) ==
    /\ Evaluates(c, "Renewing")
    /\ mT2[c] > 0
    /\ SendAndWait(c, "REQUEST", mRequestAddress[c], mServerAddress[c])

runRebinding(c) ==
    /\ Evaluates(c, "Rebinding")
    /\ mNextTimeout[c] < kMaxTimeout
    /\ SendAndWait(c, "REQUEST", mRequestAddress[c], AnyServer)

\* Requesting or rebinding was tried a bunch of times: start over.
GiveUp(c) ==
    /\ Evaluates(c, "Requesting") \/ Evaluates(c, "Rebinding")
    /\ mNextTimeout[c] >= kMaxTimeout
    /\ setNextState(c, "Init")
    /\ UNCHANGED <<timers, mLastMsg, offer, iface>>

\* Mutation: nobody looks at T2 when a renewing client wakes up.
TimerExpiredT1Only(c) ==
    /\ Evaluates(c, "Bound") /\ mT1[c] = 0 /\ setNextState(c, "Renewing")
    /\ UNCHANGED <<timers, mLastMsg, offer, iface>>

\* T1 passed while bound, or T2 while renewing.
TimerExpired(c) ==
    /\ \/ Evaluates(c, "Bound") /\ mT1[c] = 0 /\ setNextState(c, "Renewing")
       \/ Evaluates(c, "Renewing") /\ mT2[c] = 0 /\ setNextState(c, "Rebinding")
    /\ UNCHANGED <<timers, mLastMsg, offer, iface>>

\* Mutation: the wait for T1 is varied like any other.
runBoundFuzzed(c) ==
    /\ Evaluates(c, "Bound")
    /\ mT1[c] > 0
    /\ mNextTimeout' = [mNextTimeout EXCEPT ![c] = mT1[c] % Word]
    /\ UNCHANGED <<mState, mFuzzNextTimeout, timers, mLastMsg, offer, iface>>
    /\ \E t \in FuzzedTimeouts(mT1[c] % Word) : poll' = [poll EXCEPT ![c] = t]

\* Bound with T1 ahead: sleep until T1, without fuzz.  The remaining time is
\* truncated to 32 bits; when that leaves zero the loop goes round at once.
runBound(c) ==
    /\ Evaluates(c, "Bound")
    /\ mT1[c] > 0
    /\ mNextTimeout' = [mNextTimeout EXCEPT ![c] = mT1[c] % Word]
    /\ mFuzzNextTimeout' = [mFuzzNextTimeout EXCEPT ![c] = FALSE]
    /\ poll' = [poll EXCEPT ![c] = IF mT1[c] % Word = kNoTimeout THEN Idle
                                   ELSE mT1[c] % Word]
    /\ UNCHANGED <<mState, timers, mLastMsg, offer, iface>>

Run(c) == \/ runInit(c) \/ runSelecting(c) \/ runRequesting(c) \/ runBound(c)
          \/ runRenewing(c) \/ runRebinding(c) \/ GiveUp(c) \/ TimerExpired(c)

------------------------------------------------------------------------------
\* waitAndReceive.

\* Time passes: while polling, or while a bound client spins on a zero timeout.
Tick(c) ==
    /\ \/ poll[c] > 0 /\ poll' = [poll EXCEPT ![c] = @ - 1]
       \/ Evaluates(c, "Bound") /\ mT1[c] > 0 /\ mT1[c] % Word = 0 /\ UNCHANGED poll
    /\ mT1' = [mT1 EXCEPT ![c] = IF @ = 0 THEN 0 ELSE @ - 1]
    /\ mT2' = [mT2 EXCEPT ![c] = IF @ = 0 THEN 0 ELSE @ - 1]
    /\ UNCHANGED <<mState, mNextTimeout, mFuzzNextTimeout, mLastMsg, offer, iface>>

Timeout(c) ==
    /\ poll[c] = 0
    /\ poll' = [poll EXCEPT ![c] = Idle]
    /\ UNCHANGED <<mState, mNextTimeout, mFuzzNextTimeout, timers, mLastMsg,
                   offer, iface>>

\* Mutation: the transaction id is not compared.
AcceptsAnyXid(c, m) == poll[c] # Idle /\ up[c]

\* receiveDhcpMessage: the link is up and the transaction id is the last one used.
\* Any other message leaves the client waiting for the time that remains.
Accepts(c, m) == poll[c] # Idle /\ up[c] /\ m.xid = mLastMsg[c].xid

AwaitsAck(c) == mState[c] \in {"Requesting", "Renewing", "Rebinding"}

\* Mutation: the offered address is not stored.
ReceiveOfferWithoutAddress(c, m) ==
    /\ Accepts(c, m)
    /\ mState[c] = "Selecting" /\ m.type = "OFFER"
    /\ mServerAddress' = [mServerAddress EXCEPT ![c] = m.server]
    /\ setNextState(c, "Requesting")
    /\ UNCHANGED <<timers, mLastMsg, mRequestAddress, iface>>

ReceiveOffer(c, m) ==
    /\ Accepts(c, m)
    /\ mState[c] = "Selecting" /\ m.type = "OFFER"
    /\ mServerAddress' = [mServerAddress EXCEPT ![c] = m.server]
    /\ mRequestAddress' = [mRequestAddress EXCEPT ![c] = m.yiaddr]
    /\ setNextState(c, "Requesting")
    /\ UNCHANGED <<timers, mLastMsg, iface>>

\* configureDhcp for a message with a lease time, of which the first `done' of
\* bringUp, setAddress and setDefaultGateway work.  The timers are set before; a
\* failure to set the MTU or the properties is only logged.
configureDhcp(c, m, done) ==
    /\ m.lease > 0
    /\ mT1' = [mT1 EXCEPT ![c] = T1Of(m) * Second]
    /\ mT2' = [mT2 EXCEPT ![c] = T2Of(m) * Second]
    /\ up' = [up EXCEPT ![c] = @ \/ done >= 1]
    /\ addr' = [addr EXCEPT ![c] = IF done >= 2 THEN m.yiaddr ELSE @]

ReceiveAck(c, m) ==
    /\ Accepts(c, m)
    /\ AwaitsAck(c) /\ m.type = "ACK"
    /\ configureDhcp(c, m, 3)
    /\ setNextState(c, "Bound")
    /\ UNCHANGED <<mLastMsg, offer>>

\* The acknowledged configuration cannot be applied: what was done stays done
\* and the client waits on.
ReceiveAckFails(c, m) ==
    /\ Accepts(c, m)
    /\ AwaitsAck(c) /\ m.type = "ACK"
    /\ \E done \in 0..(IF NoGateway THEN 1 ELSE 2) : configureDhcp(c, m, done)
    /\ UNCHANGED <<control, mLastMsg, offer>>

\* Mutation: the network is halted but the state machine stays where it is.
ReceiveNakStays(c, m) ==
    /\ Accepts(c, m)
    /\ AwaitsAck(c) /\ m.type = "NAK"
    /\ addr' = [addr EXCEPT ![c] = 0]
    /\ up' = [up EXCEPT ![c] = FALSE]
    /\ UNCHANGED <<control, timers, mLastMsg, offer>>

\* haltNetwork clears the address and takes the link down; either may fail, which
\* is only logged.
ReceiveNak(c, m) ==
    /\ Accepts(c, m)
    /\ AwaitsAck(c) /\ m.type = "NAK"
    /\ addr' = [addr EXCEPT ![c] = 0] \/ UNCHANGED addr
    /\ up' = [up EXCEPT ![c] = FALSE] \/ UNCHANGED up
    /\ setNextState(c, "Init")
    /\ UNCHANGED <<timers, mLastMsg, offer>>

Receive(c, m) == \/ ReceiveOffer(c, m) \/ ReceiveAck(c, m)
                 \/ ReceiveAckFails(c, m) \/ ReceiveNak(c, m)

\* The process dies and is started again: its transaction ids start over too.
Restart(c) ==
    /\ mState' = [mState EXCEPT ![c] = "Init"]
    /\ mNextTimeout' = [mNextTimeout EXCEPT ![c] = kInitialTimeout]
    /\ mFuzzNextTimeout' = [mFuzzNextTimeout EXCEPT ![c] = TRUE]
    /\ poll' = [poll EXCEPT ![c] = Idle]
    /\ mT1' = [mT1 EXCEPT ![c] = 0]
    /\ mT2' = [mT2 EXCEPT ![c] = 0]
    /\ mLastMsg' = [mLastMsg EXCEPT ![c] = NoMessage]
    /\ mRequestAddress' = [mRequestAddress EXCEPT ![c] = Unset]
    /\ mServerAddress' = [mServerAddress EXCEPT ![c] = Unset]
    /\ up' = [up EXCEPT ![c] = TRUE]
    /\ addr' = [addr EXCEPT ![c] = 0]

Next == \E c \in Clients :
            \/ Run(c) \/ Tick(c) \/ Timeout(c) \/ Restart(c)
            \/ \E m \in Reply : Receive(c, m)

\* A client keeps running and time keeps passing; what arrives is up to others.
Fairness == \A c \in Clients : WF_vars(Run(c)) /\ WF_vars(Tick(c)) /\ WF_vars(Timeout(c))

Spec == Init /\ [][Next]_vars

FairSpec == Spec /\ Fairness

------------------------------------------------------------------------------
\* Properties.

Leased(c) == mState[c] \in {"Bound", "Renewing", "Rebinding"}

\* The state has its type.  Unless it is bound, a client never waits longer than
\* the largest timeout and its variation before it evaluates its state again.
TypeOK ==
    /\ mState \in [Clients -> States]
    /\ mNextTimeout \in [Clients -> 0..(Word - 1)]
    /\ mFuzzNextTimeout \in [Clients -> BOOLEAN]
    /\ poll \in [Clients -> Int] /\ \A c \in Clients : poll[c] >= Idle
    /\ \A c \in Clients : mState[c] # "Bound" => /\ mNextTimeout[c] <= kMaxTimeout
                                                /\ poll[c] <= kMaxTimeout + kTimeoutSpan
    /\ mT1 \in [Clients -> Nat] /\ mT2 \in [Clients -> Nat]
    /\ mLastMsg \in [Clients -> [type : {"NONE", "DISCOVER", "REQUEST"},
                                 xid : 0..(XidSpace - 1), ip : Int, sid : Int]]
    /\ mRequestAddress \in [Clients -> Addresses \cup {Unset}]
    /\ mServerAddress \in [Clients -> Servers \cup {Unset}]
    /\ up \in [Clients -> BOOLEAN]
    /\ addr \in [Clients -> Addresses \cup {0}]

\* A client that counts on a lease has its interface configured for it, whatever
\* fails while later acknowledgements are applied (configureDhcp, haltNetwork).
LeaseIsConfigured ==
    \A c \in Clients : Leased(c) =>
        up[c] /\ addr[c] # 0

\* mRequestAddress and mServerAddress, which the constructor leaves uninitialized,
\* are never put in a message before an offer has set them.
RequestsNameAnOffer ==
    \A c \in Clients : mLastMsg[c].type = "REQUEST" =>
        mLastMsg[c].ip \in Addresses /\ mLastMsg[c].sid \in Servers \cup {AnyServer}

\* A bound client never sleeps past T1: no variation is added to that wait, and a
\* truncated wait only wakes it early (the comment in run's Bound case).
NeverOversleeps ==
    \A c \in Clients : mState[c] = "Bound" => poll[c] <= mT1[c]

\* Whatever arrives, requesting, rebinding and being bound end: ignored messages and
\* failed configurations do not extend the wait, the back-off reaches its limit, and a
\* bound client wakes up although its sleep was cut to 32 bits (waitAndReceive, run).
StatesEnd ==
    \A c \in Clients : \A s \in {"Requesting", "Rebinding", "Bound"} :
        mState[c] = s ~> mState[c] # s

\* Renewing ends as well, unless acknowledgements that cannot be applied keep
\* coming: each of them restarts T2 before it fails (configureDhcp), whatever the
\* comment in waitAndReceive says about a move to Init in the end.
RenewingEnds ==
    \A c \in Clients :
        <>[][\A m \in Reply : ~ReceiveAckFails(c, m)]_vars
            => (mState[c] = "Renewing" ~> mState[c] # "Renewing")

\* After a refusal the client can start over: "Request denied, halt network and
\* start over" (waitAndReceive), so its link does not stay down for good.  The code
\* does not keep this: only an acknowledgement would bring the link up again.
NakStartsOver == \A c \in Clients : ~up[c] ~> up[c]

==============================================================================
