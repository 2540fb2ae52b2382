---------------------------- MODULE GnssAidlProofs ----------------------------
(***************************************************************************)
(* The AIDL measurement interface and the power indication, for any number *)
(* of binder threads, reporters and callbacks.                             *)
(***************************************************************************)
EXTENDS GnssAidl, TLAPS

\* The mutex of the power indication is held from the first read to the delivery.
PowerMutexHeld == \A t \in Threads : pc[t] \in Energies \cup {"stats"} => powerMutex = t

\* The count for energy e has been read by a thread that is at p.
HasRead(p, e) == \/ p = "stats"
                 \/ p = "acquisition" /\ e # "acquisition"
                 \/ p = "tracking" /\ e = "total"

\* An active object with a callback has a reporter as soon as nobody is inside
\* setCallback: close clears flag and callback without having to wait for that.
ReporterUnlessLocked ==
    mIsActive /\ sCallback # Null /\ mMutex = Free =>
        \E r \in Reporters : reporter[r] # "none"

\* Counts that have been read are not older than the last ones delivered.
StatsInOrder ==
    \A e \in Energies :
        /\ delivered[e] <= numLocationReported
        /\ \A t \in Threads : HasRead(pc[t], e) =>
               delivered[e] <= stats[t][e] /\ stats[t][e] <= numLocationReported

------------------------------------------------------------------------------
\* A process that has just started satisfies all of it.
LEMMA AidlInit == Init => TypeOK /\ PowerMutexHeld /\ ReporterUnlessLocked /\ StatsInOrder
<1> SUFFICES ASSUME Init PROVE TypeOK /\ PowerMutexHeld /\ ReporterUnlessLocked /\ StatsInOrder
  OBVIOUS
<1>1. 0 \in 0..MaxNoted
  BY MaxNotedAssumption
<1>2. TypeOK
  BY <1>1, ThreadAssumption DEF Init, TypeOK, Free, Null, NoStats, Energies
<1>3. PowerMutexHeld /\ ReporterUnlessLocked
  BY DEF Init, PowerMutexHeld, ReporterUnlessLocked, Null, Energies
<1>4. StatsInOrder
  BY DEF Init, StatsInOrder, HasRead, NoStats
<1>5. QED
  BY <1>2, <1>3, <1>4

\* Every step keeps the state in its type, and each mutex with the thread inside.
LEMMA TypeStep == TypeOK /\ PowerMutexHeld /\ [Next]_vars => (TypeOK /\ PowerMutexHeld)'
<1> SUFFICES ASSUME TypeOK, PowerMutexHeld, [Next]_vars PROVE (TypeOK /\ PowerMutexHeld)'
  OBVIOUS
<1> USE ThreadAssumption, MaxNotedAssumption
    DEF TypeOK, PowerMutexHeld, measurement, power, Goes, Free, Null, Energies
<1>1. ASSUME NEW t \in Threads, NEW c \in Callbacks, setCallback(t, c)
      PROVE  (TypeOK /\ PowerMutexHeld)'
  BY <1>1 DEF setCallback
<1>2. ASSUME NEW t \in Threads, stopActive(t) PROVE (TypeOK /\ PowerMutexHeld)'
  BY <1>2 DEF stopActive
<1>3. ASSUME NEW t \in Threads, start(t) PROVE (TypeOK /\ PowerMutexHeld)'
  <2>1. CASE Goes(t, "start", "thread") /\ mIsActive' = TRUE /\ UNCHANGED <<reporter, mMutex>>
    BY <1>3, <2>1 DEF start
  <2>2. CASE Goes(t, "thread", "idle") /\ Spawn /\ mMutex' = Free /\ UNCHANGED mIsActive
    <3>1. reporter' \in [Reporters -> {"none", "loop", "report", "call", "sleep"}]
      BY <2>2 DEF Spawn
    <3>2. QED
      BY <1>3, <2>2, <3>1 DEF start
  <2>3. QED
    BY <1>3, <2>1, <2>2 DEF start
<1>4. ASSUME NEW t \in Threads, close(t) PROVE (TypeOK /\ PowerMutexHeld)'
  <2>1. CASE Goes(t, "idle", "close") /\ mIsActive' = FALSE /\ UNCHANGED sCallback
    BY <1>4, <2>1 DEF close
  <2>2. CASE Goes(t, "close", "idle") /\ sCallback' = Null /\ UNCHANGED mIsActive
    BY <1>4, <2>2 DEF close
  <2>3. QED
    BY <1>4, <2>1, <2>2 DEF close
<1>5. ASSUME NEW t \in Threads, setPowerCallback(t) PROVE (TypeOK /\ PowerMutexHeld)'
  BY <1>5 DEF setPowerCallback
<1>6. ASSUME NEW t \in Threads, requestGnssPowerStats(t) PROVE (TypeOK /\ PowerMutexHeld)'
  <2>1. CASE Goes(t, "idle", "total")
    BY <1>6, <2>1 DEF requestGnssPowerStats, readCount, After
  <2>2. CASE readCount(t) /\ UNCHANGED <<powerMutex, delivered>>
    <3>1. PICK e \in Energies : /\ Goes(t, e, After[e])
                                /\ stats' = [stats EXCEPT ![t][e] = numLocationReported]
      BY <2>2 DEF readCount
    <3>2. After[e] \in {"tracking", "acquisition", "stats"}
      BY DEF After
    <3>3. stats' \in [Threads -> [Energies -> 0..MaxNoted]]
      BY <3>1
    <3>4. QED
      BY <1>6, <2>2, <3>1, <3>2, <3>3 DEF requestGnssPowerStats
  <2>3. CASE Goes(t, "stats", "idle") /\ powerMutex' = Free /\ delivered' = stats[t]
             /\ stats' = [stats EXCEPT ![t] = NoStats]
    <3>1. stats' \in [Threads -> [Energies -> 0..MaxNoted]]
      BY <2>3 DEF NoStats
    <3>2. QED
      BY <1>6, <2>3, <3>1 DEF requestGnssPowerStats
  <2>4. QED
    BY <1>6, <2>1, <2>2, <2>3 DEF requestGnssPowerStats
<1>7. ASSUME NEW t \in Threads, Crash(t) PROVE (TypeOK /\ PowerMutexHeld)'
  BY <1>7 DEF Crash, NoStats
<1>8. ASSUME NEW r \in Reporters, Reporting(r) PROVE (TypeOK /\ PowerMutexHeld)'
  BY <1>8 DEF Reporting, loop, reportMeasurement, gnssMeasurementCb, sleep, Moves
<1>9. CASE notePowerConsumption
  BY <1>9 DEF notePowerConsumption
<1>10. CASE UNCHANGED vars
  BY <1>10 DEF vars
<1>11. QED
  BY <1>1, <1>2, <1>3, <1>4, <1>5, <1>6, <1>7, <1>8, <1>9, <1>10 DEF Next

\* In every behaviour the state has its type and each mutex is with the thread inside.
LEMMA Typed == Spec => [](TypeOK /\ PowerMutexHeld)
  BY AidlInit, TypeStep, PTL DEF Spec

\* The state of the AIDL objects always has its type, and a mutex is held by the
\* binder thread that is inside, for any number of threads and callbacks.
THEOREM AidlTyped == Spec => []TypeOK
  BY Typed, PTL

------------------------------------------------------------------------------
\* Outside of setCallback, an active object with a callback keeps a reporter.
LEMMA ReporterStep ==
    TypeOK /\ ReporterUnlessLocked /\ [Next]_vars => ReporterUnlessLocked'
<1> SUFFICES ASSUME TypeOK, ReporterUnlessLocked, [Next]_vars PROVE ReporterUnlessLocked'
  OBVIOUS
<1> USE DEF ReporterUnlessLocked, measurement
<1>1. mIsActive \in BOOLEAN
      /\ reporter \in [Reporters -> {"none", "loop", "report", "call", "sleep"}]
  BY DEF TypeOK
<1>2. ASSUME NEW t \in Threads, NEW c \in Callbacks, setCallback(t, c)
      PROVE  ReporterUnlessLocked'
  BY <1>2, ThreadAssumption DEF setCallback, Free
<1>3. ASSUME NEW t \in Threads, stopActive(t) PROVE ReporterUnlessLocked'
  BY <1>3 DEF stopActive
<1>4. ASSUME NEW t \in Threads, start(t) PROVE ReporterUnlessLocked'
  <2>1. CASE Goes(t, "start", "thread") /\ UNCHANGED mMutex
    BY <2>1, ThreadAssumption DEF Goes, TypeOK, Free
  <2>2. CASE Spawn
    BY <1>1, <2>2 DEF Spawn
  <2>3. QED
    BY <1>4, <2>1, <2>2 DEF start
<1>5. ASSUME NEW t \in Threads, close(t) PROVE ReporterUnlessLocked'
  BY <1>5 DEF close
<1>6. ASSUME NEW t \in Threads, Crash(t) PROVE ReporterUnlessLocked'
  BY <1>6 DEF Crash
<1>7. ASSUME NEW r \in Reporters, Reporting(r) PROVE ReporterUnlessLocked'
  <2>1. UNCHANGED <<sCallback, mIsActive, mMutex>>
    BY <1>7 DEF Reporting, loop, reportMeasurement, gnssMeasurementCb, sleep
  <2>2. mIsActive => \A q \in Reporters : reporter[q] # "none" => reporter'[q] # "none"
    BY <1>1, <1>7 DEF Reporting, loop, reportMeasurement, gnssMeasurementCb, sleep, Moves
  <2>3. QED
    BY <2>1, <2>2
<1>8. CASE UNCHANGED measurement
  BY <1>8
<1>9. QED
  BY <1>2, <1>3, <1>4, <1>5, <1>6, <1>7, <1>8
     DEF Next, vars, setPowerCallback, requestGnssPowerStats, notePowerConsumption

\* Once a callback is set and no call is under way, somebody reports to it: whichever
\* way close and setCallback of other binder threads interleave with it, no object is
\* left that is active and has no reporter (start, stop, the loop of the thread).
THEOREM ActiveObjectReports == Spec => []ActiveHasReporter
<1>1. TypeOK /\ ReporterUnlessLocked => ActiveHasReporter
  BY DEF TypeOK, ReporterUnlessLocked, ActiveHasReporter
<1>2. QED
  BY Typed, AidlInit, ReporterStep, <1>1, PTL DEF Spec

------------------------------------------------------------------------------
\* Counts stay in order: those of a request were read under the mutex, after the
\* last ones were delivered.
LEMMA StatsStep ==
    TypeOK /\ PowerMutexHeld /\ StatsInOrder /\ [Next]_vars => StatsInOrder'
<1> SUFFICES ASSUME TypeOK, PowerMutexHeld, StatsInOrder, [Next]_vars PROVE StatsInOrder'
  OBVIOUS
<1> USE DEF StatsInOrder, measurement, power, Goes
<1>1. /\ pc \in [Threads -> {"idle", "set", "start", "thread", "close", "stats"} \cup Energies]
      /\ numLocationReported \in Nat /\ delivered \in [Energies -> Nat]
      /\ stats \in [Threads -> [Energies -> Nat]]
  BY MaxNotedAssumption DEF TypeOK
<1>2. ASSUME NEW t \in Threads, requestGnssPowerStats(t) PROVE StatsInOrder'
  <2>0. UNCHANGED numLocationReported
    BY <1>2 DEF requestGnssPowerStats
  <2>1. CASE Goes(t, "idle", "total") /\ UNCHANGED <<stats, delivered>>
    BY <1>1, <2>0, <2>1 DEF HasRead
  <2>2. CASE readCount(t) /\ UNCHANGED delivered
    <3>1. PICK e \in Energies : /\ Goes(t, e, After[e])
                                /\ stats' = [stats EXCEPT ![t][e] = numLocationReported]
      BY <2>2 DEF readCount
    <3>2. \A d \in Energies : HasRead(After[e], d) => d = e \/ HasRead(e, d)
      BY DEF After, HasRead, Energies
    <3>3. /\ \A u \in Threads \ {t} : pc'[u] = pc[u] /\ stats'[u] = stats[u]
          /\ pc[t] = e /\ pc'[t] = After[e]
          /\ stats'[t][e] = numLocationReported
          /\ \A d \in Energies \ {e} : stats'[t][d] = stats[t][d]
      BY <1>1, <3>1
    <3>4. QED
      BY <1>1, <2>0, <2>2, <3>2, <3>3
  <2>3. CASE Goes(t, "stats", "idle") /\ delivered' = stats[t]
    <3>1. \A u \in Threads : pc'[u] \notin Energies \cup {"stats"}
      BY <1>1, <2>3 DEF PowerMutexHeld, Energies
    <3>2. \A u \in Threads, e \in Energies : ~ HasRead(pc'[u], e)
      BY <3>1 DEF HasRead, Energies
    <3>3. \A e \in Energies : delivered'[e] <= numLocationReported
      BY <2>3 DEF HasRead
    <3>4. QED
      BY <2>0, <3>2, <3>3
  <2>4. QED
    BY <1>2, <2>1, <2>2, <2>3 DEF requestGnssPowerStats
<1>3. ASSUME NEW t \in Threads, Crash(t) PROVE StatsInOrder'
  BY <1>3 DEF Crash, HasRead, NoStats
<1>4. CASE notePowerConsumption
  BY <1>1, <1>4 DEF notePowerConsumption
<1>5. ASSUME UNCHANGED <<numLocationReported, stats, delivered>>,
             \A u \in Threads, e \in Energies : HasRead(pc'[u], e) => HasRead(pc[u], e)
      PROVE  StatsInOrder'
  BY <1>5
<1>6. ASSUME NEW t \in Threads,
             \/ \E c \in Callbacks : setCallback(t, c)
             \/ stopActive(t) \/ start(t) \/ close(t) \/ setPowerCallback(t)
      PROVE  StatsInOrder'
  <2>1. UNCHANGED <<numLocationReported, stats, delivered>>
    BY <1>6 DEF setCallback, stopActive, start, close, setPowerCallback
  <2>2. \A u \in Threads, e \in Energies : HasRead(pc'[u], e) => HasRead(pc[u], e)
    BY <1>1, <1>6 DEF setCallback, stopActive, start, close, setPowerCallback, HasRead
  <2>3. QED
    BY <1>5, <2>1, <2>2
<1>7. CASE (\E r \in Reporters : Reporting(r)) \/ UNCHANGED vars
  BY <1>5, <1>7 DEF Reporting, loop, reportMeasurement, gnssMeasurementCb, sleep, vars
<1>8. QED
  BY <1>2, <1>3, <1>4, <1>6, <1>7 DEF Next

\* None of the energies a client is told of ever goes down while the process lives,
\* for any number of concurrent requests and whenever the counter advances between
\* the reads of one (requestGnssPowerStats).
THEOREM StatsAreMonotonic == Spec => StatsNeverGoBack
<1>1. TypeOK /\ StatsInOrder /\ [Next]_vars
        => [\/ \E t \in Threads : Crash(t)
            \/ \A e \in Energies : delivered'[e] >= delivered[e]]_vars
  <2> SUFFICES ASSUME TypeOK, StatsInOrder, Next, ~ \E t \in Threads : Crash(t),
                      NEW e \in Energies
               PROVE  delivered'[e] >= delivered[e]
    OBVIOUS
  <2> USE DEF power
  <2>1. delivered[e] \in Nat
    BY MaxNotedAssumption DEF TypeOK
  <2>2. ASSUME UNCHANGED delivered PROVE delivered'[e] >= delivered[e]
    BY <2>1, <2>2
  <2>3. ASSUME NEW t \in Threads, requestGnssPowerStats(t) PROVE delivered'[e] >= delivered[e]
    <3>1. CASE Goes(t, "stats", "idle") /\ delivered' = stats[t]
      <4>1. delivered[e] <= stats[t][e] /\ stats[t][e] \in Nat
        BY <3>1, MaxNotedAssumption DEF Goes, StatsInOrder, HasRead, TypeOK
      <4>2. QED
        BY <2>1, <3>1, <4>1
    <3>2. QED
      BY <2>2, <2>3, <3>1 DEF requestGnssPowerStats
  <2>4. QED
    BY <2>2, <2>3 DEF Next, setCallback, stopActive, start, close, setPowerCallback,
       Reporting, loop, reportMeasurement, gnssMeasurementCb, sleep, notePowerConsumption
<1>2. QED
  BY Typed, AidlInit, StatsStep, <1>1, PTL DEF Spec, StatsNeverGoBack
===============================================================================
