--------------------------- MODULE GnssSessionProofs ---------------------------
(***************************************************************************)
(* The location session, for any satellites, blocklists and locations: no  *)
(* reporter outlives its session or is started over a joinable one, the    *)
(* filter keeps to the blocklists, and a location is what was asked for.   *)
(***************************************************************************)
EXTENDS GnssSession, TLAPS

\* Where the HIDL thread is when a reporter is left, and what it found before it
\* starts one.
SessionPhases ==
    /\ thread # "none" /\ ~mIsActive
         => binder \in {"end", "join", "restartEnd", "restartJoin"}
    /\ binder \in {"begin", "beginReport", "spawn"} => thread = "none"
    /\ binder \in {"beginReport", "spawn"} => mIsActive

\* The two sets of the configuration are those of the list that was set last.
SetsOfList ==
    /\ mBlocklistedConstellationSet = {s[1] : s \in {t \in list : t[2] = 0}}
    /\ mBlocklistedSourceSet = {s \in list : s[2] # 0}

\* What the filter owes to the lists of its round, when it has come to some of the
\* satellites and to all of them.
FilterProgress ==
    /\ thread \in {"filter", "sv", "svCall"} =>
         /\ usedInFix \cap throughout \subseteq unchecked
         /\ Satellites \ usedInFix \subseteq ever
         /\ throughout \subseteq {s \in Satellites : Names(list, s)}
         /\ {s \in Satellites : Names(list, s)} \subseteq ever
    /\ thread \in {"sv", "svCall"} => unchecked = {}

\* What a half-written location is made of.
WriteProgress ==
    /\ \A f \in Fields : mock[f] \in current[f]
    /\ binder = "write" =>
         \A f \in Fields : options[f] # Keep =>
             /\ options[f] \in current[f]
             /\ f \notin unwritten => mock[f] = options[f]
    /\ unasked = {}

------------------------------------------------------------------------------
\* Looking a satellite up in the two sets answers whether the list names it.
LEMMA LookupIsNames ==
    ASSUME list \subseteq Sources, SetsOfList, NEW s \in Satellites
    PROVE  isBlocklistedV2_1(s) <=> Names(list, s)
<1>1. s = <<s[1], s[2]>> /\ \A t \in list : t = <<t[1], t[2]>>
  BY SourceAssumption
<1>2. s[1] \in mBlocklistedConstellationSet <=> \E t \in list : t[2] = 0 /\ s[1] = t[1]
  BY DEF SetsOfList
<1>3. s[1] \in mBlocklistedConstellationSet <=> <<s[1], 0>> \in list
  BY <1>1, <1>2
<1>4. s \in mBlocklistedSourceSet <=> s \in list /\ s[2] # 0
  BY DEF SetsOfList
<1>5. s \in list /\ s[2] = 0 => <<s[1], 0>> \in list
  BY <1>1
<1>6. QED
  BY <1>3, <1>4, <1>5 DEF isBlocklistedV2_1, Names

------------------------------------------------------------------------------
\* Every step keeps the state in its type.  The mutex is with the thread that calls a
\* callback, which spawn would break if it replaced such a thread: SessionPhases says
\* that there is none.
LEMMA TypeStep == TypeOK /\ SessionPhases /\ [Next]_vars => TypeOK'
<1> SUFFICES ASSUME TypeOK, SessionPhases, [Next]_vars PROVE TypeOK'
  OBVIOUS
<1> USE DEF TypeOK, ThreadStates, Calls, data, config, round, debugging, reading, callbacks
<1>1. ASSUME NEW l \in SUBSET Sources, setBlocklist(l) PROVE TypeOK'
  BY <1>1 DEF setBlocklist
<1>2. CASE setCallback_2_1 \/ setCallback_2_0 \/ cleanup
  BY <1>2 DEF setCallback_2_1, setCallback_2_0, cleanup
<1>3. CASE start \/ stop \/ setActive \/ reportGnssStatusValue
  BY <1>3 DEF start, stop, setActive, reportGnssStatusValue, Call
<1>4. ASSUME NEW o \in [Fields -> Values \cup {Keep}], setLocation(o) PROVE TypeOK'
  BY <1>4 DEF setLocation, Call
<1>5. CASE Restart
  <2>1. mock' \in [Fields -> Values] /\ options' \in [Fields -> Values \cup {Keep}]
        /\ current' \in [Fields -> SUBSET Values]
    BY <1>5, LocationAssumption DEF Restart, NoOptions
  <2>2. QED
    BY <1>5, <2>1 DEF Restart, EndsRound, EndsReading
<1>6. CASE join \/ spawn
  BY <1>6 DEF join, spawn, Call, SessionPhases
<1>7. CASE writeField
  <2>1. mock' \in [Fields -> Values] /\ unwritten' \subseteq Fields
    BY <1>7 DEF writeField
  <2>2. /\ options' \in [Fields -> Values \cup {Keep}]
        /\ current' \in [Fields -> SUBSET Values]
        /\ binder' \in Calls
    BY <1>7 DEF writeField, NoOptions
  <2>3. QED
    BY <1>7, <2>1, <2>2 DEF writeField
<1>8. CASE beginRound
  BY <1>8 DEF beginRound, Step
<1>9. CASE filterBlocklistedSatellitesV2_1
  BY <1>9 DEF filterBlocklistedSatellitesV2_1
<1>10. CASE testCallback
  BY <1>10 DEF testCallback, Step
<1>11. CASE noCallback
  BY <1>11 DEF noCallback, Step, EndsRound, EndsReading
<1>12. CASE callback
  BY <1>12 DEF callback, Step, EndsRound, EndsReading
<1>13. CASE getLocationFromHW
  BY <1>13 DEF getLocationFromHW, Step
<1>14. CASE sleep
  BY <1>14 DEF sleep, Step
<1>15. CASE Crash
  BY <1>15, <1>5 DEF Crash
<1>16. CASE UNCHANGED vars
  BY <1>16 DEF vars
<1>17. QED
  BY <1>1, <1>2, <1>3, <1>4, <1>5, <1>6, <1>7, <1>8, <1>9, <1>10, <1>11, <1>12, <1>13,
     <1>14, <1>15, <1>16 DEF Next, Reporting

\* A reporter that start or stop has not joined belongs to an active session.
LEMMA PhasesStep == TypeOK /\ SessionPhases /\ [Next]_vars => SessionPhases'
<1> SUFFICES ASSUME TypeOK, SessionPhases, [Next]_vars PROVE SessionPhases'
  OBVIOUS
<1> USE DEF SessionPhases
<1>1. mIsActive \in BOOLEAN
  BY DEF TypeOK
<1>2. CASE start \/ stop \/ setActive \/ reportGnssStatusValue \/ join \/ spawn
  BY <1>1, <1>2 DEF start, stop, setActive, reportGnssStatusValue, join, spawn, Call
<1>3. CASE setCallback_2_1 \/ setCallback_2_0 \/ cleanup
  BY <1>3 DEF setCallback_2_1, setCallback_2_0, cleanup
<1>4. CASE writeField \/ (\E o \in [Fields -> Values \cup {Keep}] : setLocation(o))
  BY <1>4 DEF writeField, setLocation, Call
<1>5. CASE \E l \in SUBSET Sources : setBlocklist(l)
  BY <1>5 DEF setBlocklist
<1>6. CASE Restart \/ Crash
  BY <1>6 DEF Restart, Crash
<1>7. CASE beginRound \/ filterBlocklistedSatellitesV2_1 \/ testCallback \/ noCallback
           \/ callback \/ getLocationFromHW \/ sleep
  <2>1. thread # "none" /\ UNCHANGED <<binder, mIsActive>>
    BY <1>7 DEF beginRound, filterBlocklistedSatellitesV2_1, testCallback, noCallback,
       callback, getLocationFromHW, sleep, Step
  <2>2. QED
    BY <2>1
<1>8. CASE UNCHANGED vars
  BY <1>8 DEF vars
<1>9. QED
  BY <1>2, <1>3, <1>4, <1>5, <1>6, <1>7, <1>8 DEF Next, Reporting

\* A new process has no reporter, and its state has its type.
LEMMA PhasesInit == Init => TypeOK /\ SessionPhases
<1> SUFFICES ASSUME Init PROVE TypeOK /\ SessionPhases
  OBVIOUS
<1>1. /\ mock \in [Fields -> Values] /\ options \in [Fields -> Values \cup {Keep}]
      /\ current \in [Fields -> SUBSET Values]
  BY LocationAssumption DEF Init, NoOptions
<1>2. TypeOK
  BY <1>1 DEF Init, TypeOK, ThreadStates, Calls
<1>3. SessionPhases
  BY DEF Init, SessionPhases
<1>4. QED
  BY <1>2, <1>3

\* The state of the session has its type in every behaviour, and the reporter is where
\* the HIDL thread expects it.
LEMMA Phases == Spec => [](TypeOK /\ SessionPhases)
<1>1. TypeOK /\ SessionPhases /\ [Next]_vars => (TypeOK /\ SessionPhases)'
  BY TypeStep, PhasesStep
<1>2. QED
  BY PhasesInit, <1>1, PTL DEF Spec

\* The state of the session always has its type, for all satellites, sources and
\* fields; the mutex is held exactly while a callback is being called.
THEOREM SessionTyped == Spec => []TypeOK
  BY Phases, PTL

\* When start or stop has returned, a reporter is left only if the session is active,
\* however the calls and the rounds of the reporter interleave (stop joins it).
THEOREM NoReporterOutlivesItsSession == Spec => []StoppedMeansQuiet
<1>1. TypeOK /\ SessionPhases => StoppedMeansQuiet
  BY DEF TypeOK, SessionPhases, StoppedMeansQuiet
<1>2. QED
  BY Phases, <1>1, PTL

\* start never assigns a new thread to a joinable one.
THEOREM ReporterStartedOnce == Spec => []OneReporter
<1>1. SessionPhases => OneReporter
  BY DEF SessionPhases, OneReporter
<1>2. QED
  BY Phases, <1>1, PTL

------------------------------------------------------------------------------
\* Every step keeps the filter in line with the lists of its round.
LEMMA FilterStep ==
    TypeOK /\ SessionPhases /\ SetsOfList /\ FilterProgress /\ [Next]_vars
        => (SetsOfList /\ FilterProgress)'
<1> SUFFICES ASSUME TypeOK, SessionPhases, SetsOfList, FilterProgress, [Next]_vars
             PROVE  (SetsOfList /\ FilterProgress)'
  OBVIOUS
<1> USE DEF data, config, round, debugging, reading, callbacks
<1>1. ASSUME NEW l \in SUBSET Sources, setBlocklist(l)
      PROVE  (SetsOfList /\ FilterProgress)'
  <2>1. SetsOfList'
    BY <1>1 DEF setBlocklist, SetsOfList
  <2>2. FilterProgress'
    BY <1>1 DEF setBlocklist, FilterProgress, Names
  <2>3. QED
    BY <2>1, <2>2
<1>2. CASE Restart \/ Crash
  <2>1. Restart
    BY <1>2 DEF Crash
  <2>2. QED
    BY <2>1 DEF Restart, SetsOfList, FilterProgress
<1>3. CASE beginRound
  <2>1. SetsOfList'
    BY <1>3 DEF beginRound, SetsOfList
  <2>2. FilterProgress'
    BY <1>3 DEF beginRound, Step, FilterProgress, Names
  <2>3. QED
    BY <2>1, <2>2
<1>4. CASE filterBlocklistedSatellitesV2_1
  <2>1. SetsOfList'
    BY <1>4 DEF filterBlocklistedSatellitesV2_1, SetsOfList
  <2>2. CASE unchecked = {} /\ thread' = "sv" /\ UNCHANGED round
    BY <1>4, <2>1, <2>2 DEF filterBlocklistedSatellitesV2_1, FilterProgress, Names
  <2>3. ASSUME NEW s \in unchecked,
               unchecked' = unchecked \ {s},
               usedInFix' = IF isBlocklistedV2_1(s) THEN usedInFix \ {s} ELSE usedInFix,
               UNCHANGED <<thread, throughout, ever>>
        PROVE  FilterProgress'
    <3>1. s \in Satellites /\ list \subseteq Sources
      BY DEF TypeOK
    <3>2. isBlocklistedV2_1(s) <=> Names(list, s)
      BY <3>1, LookupIsNames
    <3>3. thread = "filter" /\ list' = list
      BY <1>4 DEF filterBlocklistedSatellitesV2_1
    <3>4. \A r \in Satellites : Names(list', r) <=> Names(list, r)
      BY <3>3 DEF Names
    <3>5. Names(list, s) => s \in ever
      BY <3>1, <3>3 DEF FilterProgress
    <3>6. s \in throughout => Names(list, s)
      BY <3>1, <3>3 DEF FilterProgress
    <3>7. QED
      BY <2>3, <3>1, <3>2, <3>3, <3>4, <3>5, <3>6 DEF FilterProgress
  <2>4. QED
    BY <1>4, <2>1, <2>2, <2>3 DEF filterBlocklistedSatellitesV2_1
<1>5. CASE testCallback
  BY <1>5 DEF testCallback, Step, SetsOfList, FilterProgress, Names
<1>6. CASE noCallback \/ callback
  BY <1>6 DEF noCallback, callback, Step, EndsRound, SetsOfList, FilterProgress, Names
<1>7. CASE getLocationFromHW \/ sleep
  BY <1>7 DEF getLocationFromHW, sleep, Step, SetsOfList, FilterProgress, Names
<1>8. CASE join \/ spawn
  BY <1>8 DEF join, spawn, Call, SetsOfList, FilterProgress
<1>9. CASE UNCHANGED <<thread, config, round>>
  BY <1>9 DEF SetsOfList, FilterProgress, Names
<1>10. CASE \/ setCallback_2_1 \/ setCallback_2_0 \/ cleanup \/ start \/ stop \/ setActive
            \/ reportGnssStatusValue \/ writeField \/ UNCHANGED vars
            \/ \E o \in [Fields -> Values \cup {Keep}] : setLocation(o)
  BY <1>9, <1>10 DEF setCallback_2_1, setCallback_2_0, cleanup, start, stop, setActive,
     reportGnssStatusValue, writeField, setLocation, vars
<1>11. QED
  BY <1>1, <1>2, <1>3, <1>4, <1>5, <1>6, <1>7, <1>8, <1>10 DEF Next, Reporting

\* A satellite that every blocklist of a round names is not reported as used in the
\* fix, and one that none names is, for any satellites and any sequence of blocklists
\* (setBlocklist, isBlocklistedV2_1, filterBlocklistedSatellitesV2_1).
THEOREM FilterKeepsToTheLists == Spec => []BlocklistHolds
<1>1. Init => SetsOfList /\ FilterProgress
  BY DEF Init, SetsOfList, FilterProgress
<1>2. FilterProgress => BlocklistHolds
  BY DEF FilterProgress, BlocklistHolds
<1>3. QED
  BY Phases, FilterStep, <1>1, <1>2, PTL DEF Spec

------------------------------------------------------------------------------
\* Every step keeps each mock field at a value it was asked to have.
LEMMA WriteStep ==
    TypeOK /\ WriteProgress /\ [Next]_vars => WriteProgress'
<1> SUFFICES ASSUME TypeOK, WriteProgress, [Next]_vars
             PROVE  WriteProgress'
  OBVIOUS
<1> USE DEF data, config, round, debugging, reading, callbacks
<1>1. ASSUME NEW o \in [Fields -> Values \cup {Keep}], setLocation(o)
      PROVE  WriteProgress'
  BY <1>1 DEF setLocation, Call, WriteProgress
<1>2. CASE writeField
  <2>1. PICK f \in unwritten :
           /\ mock' = [mock EXCEPT ![f] = IF options[f] = Keep THEN @ ELSE options[f]]
           /\ unwritten' = unwritten \ {f}
    BY <1>2 DEF writeField
  <2>2. f \in Fields /\ mock \in [Fields -> Values] /\ binder = "write" /\ unasked' = {}
    BY <1>2 DEF TypeOK, writeField, WriteProgress
  <2>3. \A g \in Fields : mock'[g] = IF g = f /\ options[f] # Keep THEN options[f] ELSE mock[g]
    BY <2>1, <2>2
  <2>4. \A g \in Fields : mock'[g] \in current[g]
    BY <2>2, <2>3 DEF WriteProgress
  <2>5. \A g \in Fields \ unwritten' : options[g] # Keep => mock'[g] = options[g]
    BY <2>1, <2>2, <2>3 DEF WriteProgress
  <2>6. CASE unwritten' # {}
    <3>1. UNCHANGED <<binder, options, current>>
      BY <1>2, <2>6 DEF writeField
    <3>2. QED
      BY <2>2, <2>4, <2>5, <3>1 DEF WriteProgress
  <2>7. CASE unwritten' = {}
    <3>1. /\ binder' = "idle"
          /\ current' = [g \in Fields |-> IF options[g] = Keep THEN current[g]
                                          ELSE {options[g]}]
      BY <1>2, <2>7 DEF writeField
    <3>2. QED
      BY <2>2, <2>4, <2>5, <2>7, <3>1 DEF WriteProgress
  <2>8. QED
    BY <2>6, <2>7
<1>3. CASE getLocationFromHW
  <2>1. UNCHANGED debugging /\ UNCHANGED binder
    BY <1>3 DEF getLocationFromHW
  <2>2. unasked' = {}
    BY <1>3 DEF getLocationFromHW, WriteProgress, TypeOK
  <2>3. QED
    BY <2>1, <2>2 DEF WriteProgress
<1>4. CASE Restart \/ Crash
  <2>1. Restart
    BY <1>4 DEF Crash
  <2>2. QED
    BY <2>1, LocationAssumption DEF Restart, EndsReading, WriteProgress
<1>5. CASE noCallback \/ callback
  BY <1>5 DEF noCallback, callback, EndsReading, WriteProgress
<1>6. CASE UNCHANGED <<debugging, reading>> /\ (binder' = "write" => binder = "write")
  BY <1>6 DEF WriteProgress
<1>7. CASE \/ setCallback_2_1 \/ setCallback_2_0 \/ cleanup \/ start \/ stop \/ setActive
           \/ reportGnssStatusValue \/ join \/ spawn \/ beginRound
           \/ filterBlocklistedSatellitesV2_1 \/ testCallback \/ sleep \/ UNCHANGED vars
           \/ \E l \in SUBSET Sources : setBlocklist(l)
  BY <1>6, <1>7 DEF setCallback_2_1, setCallback_2_0, cleanup, start, stop, setActive,
     reportGnssStatusValue, join, spawn, beginRound, filterBlocklistedSatellitesV2_1,
     testCallback, sleep, setBlocklist, Call, vars
<1>8. QED
  BY <1>1, <1>2, <1>3, <1>4, <1>5, <1>7 DEF Next, Reporting

\* Every field of a reported location has a value it was asked to have when it was
\* read, or comes from the file, although neither debug nor the reporter takes the
\* mutex (setLocation, getLocationFromHW).
THEOREM LocationIsAsked == Spec => []LocationAsSet
<1>1. Init => WriteProgress
  BY LocationAssumption DEF Init, WriteProgress
<1>2. WriteProgress => LocationAsSet
  BY DEF WriteProgress, LocationAsSet
<1>3. QED
  BY Phases, WriteStep, <1>1, <1>2, PTL DEF Spec
===============================================================================
