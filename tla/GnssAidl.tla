------------------------------- MODULE GnssAidl -------------------------------
(***************************************************************************)
(* The AIDL side of the GNSS HAL as its clients see it: one                *)
(* GnssMeasurementInterface with its detached reporter threads, and the    *)
(* one GnssPowerIndication, whose counter the session of the HIDL side     *)
(* advances.  Calls are served by a pool of binder threads.  A mutex is    *)
(* held by the binder thread it names; the reporters and setCallback of    *)
(* the power indication need theirs for one step only.                     *)
(***************************************************************************)
EXTENDS Naturals

CONSTANTS
    Threads,        \* binder threads
    Callbacks,      \* measurement callbacks of the clients
    Reporters,      \* bound: reporter threads that can be alive at a time
    MaxNoted        \* bound: locations the session reports

ASSUME MaxNotedAssumption == MaxNoted \in Nat
ASSUME ThreadAssumption == "free" \notin Threads

VARIABLES
    pc,                         \* where each binder thread is
    sCallback, mIsActive, mMutex,
    reporter,                   \* where each reporter thread is
    callbackCopy,               \* what it is about to call
    powerCallback, powerMutex,  \* sCallback and mMutex of GnssPowerIndication
    numLocationReported,
    stats,                      \* the counts a binder thread has read for each energy
    delivered                   \* the statistics a client was given last

measurement == <<sCallback, mIsActive, mMutex, reporter, callbackCopy>>
power       == <<powerCallback, powerMutex, numLocationReported, stats, delivered>>
vars        == <<pc, measurement, power>>

Null == "null"
Free == "free"

\* The energies in the statistics that depend on the counter, each computed from a
\* read of its own, in this order.
Energies == {"total", "tracking", "acquisition"}
After == [total |-> "tracking", tracking |-> "acquisition", acquisition |-> "stats"]
NoStats == [e \in Energies |-> 0]

Goes(t, from, to) == pc[t] = from /\ pc' = [pc EXCEPT ![t] = to]

\* A process that has just started.  mIsActive has no initial value; the counter has,
\* since make value-initializes the object.
Init ==
    /\ pc = [t \in Threads |-> "idle"]
    /\ sCallback = Null /\ mIsActive \in BOOLEAN /\ mMutex = Free
    /\ reporter = [r \in Reporters |-> "none"]
    /\ callbackCopy = [r \in Reporters |-> Null]
    /\ powerCallback = FALSE /\ powerMutex = Free
    /\ numLocationReported = 0
    /\ stats = [t \in Threads |-> NoStats] /\ delivered = NoStats

------------------------------------------------------------------------------
\* GnssMeasurementInterface.

\* setCallback takes the mutex and replaces the callback ...
setCallback(t, c) ==
    /\ Goes(t, "idle", "set")
    /\ mMutex = Free /\ mMutex' = t
    /\ \E r \in Reporters : reporter[r] = "none"
    /\ sCallback' = c
    /\ UNCHANGED <<mIsActive, reporter, callbackCopy, power>>

\* ... stops an active object, which only takes back the flag ...
stopActive(t) ==
    /\ Goes(t, "set", "start")
    /\ mIsActive' = FALSE
    /\ UNCHANGED <<sCallback, mMutex, reporter, callbackCopy, power>>

Spawn == \E r \in Reporters : /\ reporter[r] = "none"
                              /\ reporter' = [reporter EXCEPT ![r] = "loop"]

\* Mutation: the thread is started before the flag is set.
startThreadFirst(t) ==
    /\ \/ Goes(t, "start", "thread") /\ Spawn /\ UNCHANGED <<mIsActive, mMutex>>
       \/ Goes(t, "thread", "idle") /\ mIsActive' = TRUE /\ mMutex' = Free
          /\ UNCHANGED reporter
    /\ UNCHANGED <<sCallback, callbackCopy, power>>

\* Mutation: the mutex is not released at the end.
startKeepsMutex(t) ==
    /\ \/ Goes(t, "start", "thread") /\ mIsActive' = TRUE /\ UNCHANGED reporter
       \/ Goes(t, "thread", "idle") /\ Spawn /\ UNCHANGED mIsActive
    /\ UNCHANGED <<sCallback, mMutex, callbackCopy, power>>

\* ... and starts it: the flag, then a thread that is detached.
start(t) ==
    /\ \/ Goes(t, "start", "thread") /\ mIsActive' = TRUE /\ UNCHANGED <<reporter, mMutex>>
       \/ Goes(t, "thread", "idle") /\ Spawn /\ mMutex' = Free /\ UNCHANGED mIsActive
    /\ UNCHANGED <<sCallback, callbackCopy, power>>

\* close takes back the flag without the mutex, and then clears the callback.
close(t) ==
    /\ \/ Goes(t, "idle", "close") /\ mIsActive' = FALSE /\ UNCHANGED sCallback
       \/ Goes(t, "close", "idle") /\ mMutex = Free /\ sCallback' = Null
          /\ UNCHANGED mIsActive
    /\ UNCHANGED <<mMutex, reporter, callbackCopy, power>>

Moves(r, from, to) == reporter[r] = from /\ reporter' = [reporter EXCEPT ![r] = to]

\* Mutation: the reporter does not look at the flag.
loopForever(r) ==
    /\ Moves(r, "loop", "report")
    /\ UNCHANGED <<pc, sCallback, mIsActive, mMutex, callbackCopy, power>>

loop(r) ==
    /\ IF mIsActive THEN Moves(r, "loop", "report") ELSE Moves(r, "loop", "none")
    /\ UNCHANGED <<pc, sCallback, mIsActive, mMutex, callbackCopy, power>>

\* reportMeasurement copies the callback under the mutex and calls the copy.
reportMeasurement(r) ==
    /\ mMutex = Free
    /\ Moves(r, "report", IF sCallback = Null THEN "sleep" ELSE "call")
    /\ callbackCopy' = [callbackCopy EXCEPT ![r] = sCallback]
    /\ UNCHANGED <<pc, sCallback, mIsActive, mMutex, power>>

gnssMeasurementCb(r) ==
    /\ Moves(r, "call", "sleep")
    /\ callbackCopy' = [callbackCopy EXCEPT ![r] = Null]
    /\ UNCHANGED <<pc, sCallback, mIsActive, mMutex, power>>

sleep(r) ==
    /\ Moves(r, "sleep", "loop")
    /\ UNCHANGED <<pc, sCallback, mIsActive, mMutex, callbackCopy, power>>

------------------------------------------------------------------------------
\* GnssPowerIndication.

setPowerCallback(t) ==
    /\ pc[t] = "idle"
    /\ powerMutex = Free
    /\ powerCallback' = TRUE
    /\ UNCHANGED <<pc, measurement, powerMutex, numLocationReported, stats, delivered>>

\* The count one energy is computed from.
readCount(t) ==
    \E e \in Energies :
        /\ Goes(t, e, After[e])
        /\ stats' = [stats EXCEPT ![t][e] = numLocationReported]

\* Mutation: the statistics are put together and delivered without the mutex.
requestGnssPowerStatsUnlocked(t) ==
    /\ powerCallback
    /\ \/ Goes(t, "idle", "total") /\ UNCHANGED <<stats, delivered>>
       \/ readCount(t) /\ UNCHANGED delivered
       \/ /\ Goes(t, "stats", "idle")
          /\ delivered' = stats[t]
          /\ stats' = [stats EXCEPT ![t] = NoStats]
    /\ UNCHANGED <<measurement, powerMutex, powerCallback, numLocationReported>>

\* The statistics are put together and delivered under the mutex.
requestGnssPowerStats(t) ==
    /\ powerCallback
    /\ \/ /\ Goes(t, "idle", "total")
          /\ powerMutex = Free /\ powerMutex' = t
          /\ UNCHANGED <<stats, delivered>>
       \/ readCount(t) /\ UNCHANGED <<powerMutex, delivered>>
       \/ /\ Goes(t, "stats", "idle")
          /\ delivered' = stats[t]
          /\ stats' = [stats EXCEPT ![t] = NoStats]
          /\ powerMutex' = Free
    /\ UNCHANGED <<measurement, powerCallback, numLocationReported>>

\* The session reports a location: one more, without the mutex.
notePowerConsumption ==
    /\ numLocationReported < MaxNoted
    /\ numLocationReported' = numLocationReported + 1
    /\ UNCHANGED <<pc, measurement, powerCallback, powerMutex, stats, delivered>>

\* A request before setCallback calls a null callback: the process ends, and init
\* starts it again.
Crash(t) ==
    /\ pc[t] = "idle" /\ ~powerCallback /\ powerMutex = Free
    /\ pc' = [u \in Threads |-> "idle"]
    /\ sCallback' = Null /\ mIsActive' \in BOOLEAN /\ mMutex' = Free
    /\ reporter' = [r \in Reporters |-> "none"]
    /\ callbackCopy' = [r \in Reporters |-> Null]
    /\ numLocationReported' = 0 /\ delivered' = NoStats
    /\ stats' = [u \in Threads |-> NoStats]
    /\ UNCHANGED <<powerCallback, powerMutex>>

------------------------------------------------------------------------------
Reporting(r) == loop(r) \/ reportMeasurement(r) \/ gnssMeasurementCb(r) \/ sleep(r)

\* The steps of a call that was accepted.
Serving(t) == pc[t] # "idle" /\ (stopActive(t) \/ start(t) \/ close(t) \/ requestGnssPowerStats(t))

Next == \/ \E t \in Threads :
             \/ \E c \in Callbacks : setCallback(t, c)
             \/ stopActive(t) \/ start(t) \/ close(t)
             \/ setPowerCallback(t) \/ requestGnssPowerStats(t) \/ Crash(t)
        \/ \E r \in Reporters : Reporting(r)
        \/ notePowerConsumption

Spec == Init /\ [][Next]_vars

\* Threads run, and one that waits for a mutex gets it in the end.
Fairness == /\ \A t \in Threads : SF_vars(Serving(t))
            /\ \A r \in Reporters : SF_vars(Reporting(r))

FairSpec == Spec /\ Fairness

------------------------------------------------------------------------------
\* Properties.

\* The state has its type, and a mutex is held by the thread that is inside.
TypeOK ==
    /\ pc \in [Threads -> {"idle", "set", "start", "thread", "close", "stats"} \cup Energies]
    /\ sCallback \in Callbacks \cup {Null}
    /\ {mIsActive, powerCallback} \subseteq BOOLEAN
    /\ mMutex \in Threads \cup {Free} /\ powerMutex \in Threads \cup {Free}
    /\ reporter \in [Reporters -> {"none", "loop", "report", "call", "sleep"}]
    /\ callbackCopy \in [Reporters -> Callbacks \cup {Null}]
    /\ numLocationReported \in 0..MaxNoted /\ delivered \in [Energies -> 0..MaxNoted]
    /\ stats \in [Threads -> [Energies -> 0..MaxNoted]]
    /\ \A t \in Threads : /\ mMutex = t <=> pc[t] \in {"set", "start", "thread"}
                          /\ powerMutex = t => pc[t] \in Energies \cup {"stats"}

\* Once a callback was set by calls that have all returned, and not closed, somebody
\* reports to it: close, which stops without the mutex, and setCallback of another
\* binder thread may interleave in any way without leaving an object that is active
\* and has no reporter (start, stop, the loop of the thread).
ActiveHasReporter ==
    mIsActive /\ sCallback # Null /\ (\A t \in Threads : pc[t] = "idle") =>
        \E r \in Reporters : reporter[r] # "none"

\* Detached reporters, of which a setCallback within the sleep of the last one leaves
\* more than one, all end when the object is stopped for good (stop, the loop).
LeftoversEnd ==
    <>[](~mIsActive) => <>[](\A r \in Reporters : reporter[r] = "none")

\* None of the energies a client is told of ever goes down while the process lives,
\* although requests are served concurrently and the counter, which is read once for
\* each, goes on meanwhile (requestGnssPowerStats).
StatsNeverGoBack ==
    [][\/ \E t \in Threads : Crash(t)
       \/ \A e \in Energies : delivered'[e] >= delivered[e]]_vars
==============================================================================
