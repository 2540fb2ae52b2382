------------------------------ MODULE GnssSession ------------------------------
(***************************************************************************)
(* The location session of the GNSS HAL: GnssTemplate (as GnssHidlHal) and *)
(* the blocklist of the AIDL GnssConfiguration it filters satellites with. *)
(* Three threads: the single HIDL thread that serves start, stop,          *)
(* setCallback, cleanup and debug, the AIDL thread that sets the           *)
(* blocklist, and the reporter thread of the session.  The length of the   *)
(* sleep between two rounds is left out.                                   *)
(***************************************************************************)
EXTENDS Naturals

CONSTANTS
    Satellites,     \* <<constellation, svid>> of Utils::getMockSvInfoListV2_1
    Sources,        \* what a blocklist may name; svid 0 stands for all of them
    Fields,         \* of a location: latitude, longitude, altitude, speed, bearing
    Values,         \* what debug may set them to
    gMock           \* gMock[f]: the value of a field in a new process

ASSUME LocationAssumption == gMock \in [Fields -> Values]
ASSUME SourceAssumption == \A s \in Satellites \cup Sources : s = <<s[1], s[2]>>

VARIABLES
    sGnssCallback_2_1, sGnssCallback_2_0,   \* TRUE: registered
    mIsActive, mMutex, thread,
    binder,                                 \* the HIDL call being served
    mBlocklistedConstellationSet, mBlocklistedSourceSet,
    unchecked,      \* satellites the filter has not come to in this round
    usedInFix,      \* satellites flagged USED_IN_FIX in this round
    mock,           \* gMockLatitudeDegrees and the other fields
    options,        \* what the call of debug gives, Keep for what it leaves out
    unwritten,      \* fields setLocation has not written yet
    unread,         \* fields the reporter has not read yet for its location
    unasked,        \* fields of that location with a value nobody asked for
    current,        \* history: the values a field may be asked to have by now
    list,           \* history: the blocklist a client set last
    throughout,     \* history: satellites on every list since the round began
    ever            \* history: satellites on any list since the round began

callbacks == <<sGnssCallback_2_1, sGnssCallback_2_0>>
config    == <<mBlocklistedConstellationSet, mBlocklistedSourceSet, list>>
round     == <<unchecked, usedInFix, throughout, ever>>
debugging == <<mock, options, unwritten, current>>
reading   == <<unread, unasked>>
data      == <<config, round, debugging, reading>>
vars      == <<callbacks, mIsActive, mMutex, thread, binder, data>>

ThreadStates == {"none", "loop", "filter", "sv", "svCall", "location", "read",
                 "loc", "locCall_2_1", "locCall_2_0", "sleep", "done"}
Calls == {"idle", "cleanup", "stop", "end", "join", "restart", "restartEnd",
          "restartJoin", "begin", "beginReport", "spawn", "write"}

Keep == "keep"

NoOptions == [f \in Fields |-> Keep]

\* What it means for a list to name a satellite.
Names(l, s) == <<s[1], 0>> \in l \/ s \in l

------------------------------------------------------------------------------
\* mIsActive is not initialized by the constructor.
Init ==
    /\ sGnssCallback_2_1 = FALSE /\ sGnssCallback_2_0 = FALSE
    /\ mIsActive \in BOOLEAN
    /\ mMutex = "free" /\ thread = "none" /\ binder = "idle"
    /\ mBlocklistedConstellationSet = {} /\ mBlocklistedSourceSet = {}
    /\ list = {}
    /\ unchecked = {} /\ usedInFix = {} /\ throughout = {} /\ ever = {}
    /\ mock = gMock /\ options = NoOptions /\ unwritten = {}
    /\ current = [f \in Fields |-> {gMock[f]}]
    /\ unread = {} /\ unasked = {}

------------------------------------------------------------------------------
\* Mutation: the sets are not cleared before the new list is entered.
setBlocklistAppends(l) ==
    /\ mBlocklistedConstellationSet' =
         mBlocklistedConstellationSet \cup {s[1] : s \in {t \in l : t[2] = 0}}
    /\ mBlocklistedSourceSet' = mBlocklistedSourceSet \cup {s \in l : s[2] # 0}
    /\ list' = l
    /\ throughout' = {s \in throughout : Names(l, s)}
    /\ ever' = ever \cup {s \in Satellites : Names(l, s)}
    /\ UNCHANGED <<callbacks, mIsActive, mMutex, thread, binder, unchecked, usedInFix,
                   debugging, reading>>

\* AIDL: both sets are rebuilt under the mutex of the configuration.
setBlocklist(l) ==
    /\ mBlocklistedConstellationSet' = {s[1] : s \in {t \in l : t[2] = 0}}
    /\ mBlocklistedSourceSet' = {s \in l : s[2] # 0}
    /\ list' = l
    /\ throughout' = {s \in throughout : Names(l, s)}
    /\ ever' = ever \cup {s \in Satellites : Names(l, s)}
    /\ UNCHANGED <<callbacks, mIsActive, mMutex, thread, binder, unchecked, usedInFix,
                   debugging, reading>>

isBlocklistedV2_1(s) == s[1] \in mBlocklistedConstellationSet \/ s \in mBlocklistedSourceSet

------------------------------------------------------------------------------
\* HIDL calls.  The callbacks are written without the mutex.

setCallback_2_1 ==
    /\ binder = "idle"
    /\ sGnssCallback_2_1' = TRUE
    /\ UNCHANGED <<sGnssCallback_2_0, mIsActive, mMutex, thread, binder, data>>

setCallback_2_0 ==
    /\ binder = "idle"
    /\ sGnssCallback_2_0' = TRUE
    /\ UNCHANGED <<sGnssCallback_2_1, mIsActive, mMutex, thread, binder, data>>

cleanup ==
    /\ \/ /\ binder = "idle" /\ binder' = "cleanup"
          /\ sGnssCallback_2_1' = FALSE /\ UNCHANGED sGnssCallback_2_0
       \/ /\ binder = "cleanup" /\ binder' = "idle"
          /\ sGnssCallback_2_0' = FALSE /\ UNCHANGED sGnssCallback_2_1
    /\ UNCHANGED <<mIsActive, mMutex, thread, data>>

Call(from, to) == binder = from /\ binder' = to

\* Mutation: start does not look whether the session is active.
startAgain ==
    /\ Call("idle", "begin")
    /\ UNCHANGED <<callbacks, mIsActive, mMutex, thread, data>>

\* start stops first when it finds the session active.
start ==
    /\ IF mIsActive THEN Call("idle", "restart") ELSE Call("idle", "begin")
    /\ UNCHANGED <<callbacks, mIsActive, mMutex, thread, data>>

stop ==
    /\ Call("idle", "stop")
    /\ UNCHANGED <<callbacks, mIsActive, mMutex, thread, data>>

setActive ==
    /\ \/ (Call("stop", "end") \/ Call("restart", "restartEnd")) /\ mIsActive' = FALSE
       \/ Call("begin", "beginReport") /\ mIsActive' = TRUE
    /\ UNCHANGED <<callbacks, mMutex, thread, data>>

\* SESSION_END or SESSION_BEGIN, to the 2.1 callback if there is one, under the
\* mutex.  Only this thread writes the callbacks, so test and call are one step.
reportGnssStatusValue ==
    /\ Call("end", "join") \/ Call("restartEnd", "restartJoin") \/ Call("beginReport", "spawn")
    /\ mMutex = "free"
    /\ UNCHANGED <<callbacks, mIsActive, mMutex, thread, data>>

\* Mutation: the reporter is detached instead of joined.
joinDetaches ==
    /\ Call("join", "idle") \/ Call("restartJoin", "begin")
    /\ UNCHANGED <<callbacks, mIsActive, mMutex, thread, data>>

\* The rest of stop: wait for the reporter if there is one.  mGnssFd is never opened.
join ==
    /\ thread \in {"none", "done"}
    /\ Call("join", "idle") \/ Call("restartJoin", "begin")
    /\ thread' = "none"
    /\ UNCHANGED <<callbacks, mIsActive, mMutex, data>>

\* The end of start: a new reporter thread.
spawn ==
    /\ Call("spawn", "idle")
    /\ thread' = "loop"
    /\ UNCHANGED <<callbacks, mIsActive, mMutex, data>>

\* debug with a location: the options are parsed, and then every field is written,
\* one by one and without the mutex.  An option that is no number ends the process.
setLocation(o) ==
    /\ Call("idle", "write")
    /\ options' = o /\ unwritten' = Fields
    /\ current' = [f \in Fields |-> current[f] \cup ({o[f]} \ {Keep})]
    /\ UNCHANGED <<callbacks, mIsActive, mMutex, thread, config, round, mock, reading>>

\* Mutation: fields that are not named are set back.
writeFieldResets ==
    /\ binder = "write"
    /\ \E f \in unwritten :
         /\ mock' = [mock EXCEPT ![f] = IF options[f] = Keep THEN gMock[f] ELSE options[f]]
         /\ unwritten' = unwritten \ {f}
    /\ IF unwritten' # {} THEN UNCHANGED <<binder, options, current>>
       ELSE /\ binder' = "idle"
            /\ options' = NoOptions
            /\ current' = [f \in Fields |-> IF options[f] = Keep THEN current[f]
                                            ELSE {options[f]}]
    /\ UNCHANGED <<callbacks, mIsActive, mMutex, thread, config, round, reading>>

writeField ==
    /\ binder = "write"
    /\ \E f \in unwritten :
         /\ mock' = [mock EXCEPT ![f] = IF options[f] = Keep THEN @ ELSE options[f]]
         /\ unwritten' = unwritten \ {f}
    /\ IF unwritten' # {} THEN UNCHANGED <<binder, options, current>>
       ELSE /\ binder' = "idle"
            /\ options' = NoOptions
            /\ current' = [f \in Fields |-> IF options[f] = Keep THEN current[f]
                                            ELSE {options[f]}]
    /\ UNCHANGED <<callbacks, mIsActive, mMutex, thread, config, round, reading>>

------------------------------------------------------------------------------
\* The reporter thread.

Step(from, to) == thread = from /\ thread' = to

beginRound ==
    /\ \/ /\ mIsActive
          /\ Step("loop", "filter")
          /\ unchecked' = Satellites /\ usedInFix' = Satellites
          /\ throughout' = {s \in Satellites : Names(list, s)}
          /\ ever' = throughout'
       \/ /\ ~mIsActive
          /\ Step("loop", "done")
          /\ UNCHANGED round
    /\ UNCHANGED <<callbacks, mIsActive, mMutex, binder, config, debugging, reading>>

\* One satellite after another, each under the mutex of the configuration for as
\* long as it takes to look that one up.
filterBlocklistedSatellitesV2_1 ==
    /\ thread = "filter"
    /\ \/ \E s \in unchecked :
             /\ unchecked' = unchecked \ {s}
             /\ usedInFix' = IF isBlocklistedV2_1(s) THEN usedInFix \ {s} ELSE usedInFix
             /\ UNCHANGED <<thread, throughout, ever>>
       \/ /\ unchecked = {}
          /\ thread' = "sv"
          /\ UNCHANGED round
    /\ UNCHANGED <<callbacks, mIsActive, mMutex, binder, config, debugging, reading>>

\* The satellites, and later the location, are dropped when they were reported.
EndsRound   == unchecked' = {} /\ usedInFix' = {} /\ throughout' = {} /\ ever' = {}
EndsReading == unread' = {} /\ unasked' = {}

\* Mutation: the early return for a missing callback keeps the mutex.
testCallbackKeepsMutex ==
    /\ mMutex = "free"
    /\ mMutex' = "reporter"
    /\ \/ Step("sv", IF sGnssCallback_2_1 THEN "svCall" ELSE "location")
       \/ Step("loc", IF sGnssCallback_2_1 THEN "locCall_2_1"
                      ELSE IF sGnssCallback_2_0 THEN "locCall_2_0" ELSE "sleep")
    /\ UNCHANGED <<callbacks, mIsActive, binder, data>>

\* reportSvStatus and reportLocation take the mutex and test the callbacks: there is
\* one to call, and the mutex is kept for the call ...
testCallback ==
    /\ mMutex = "free"
    /\ \/ sGnssCallback_2_1 /\ (Step("sv", "svCall") \/ Step("loc", "locCall_2_1"))
       \/ ~sGnssCallback_2_1 /\ sGnssCallback_2_0 /\ Step("loc", "locCall_2_0")
    /\ mMutex' = "reporter"
    /\ UNCHANGED <<callbacks, mIsActive, binder, data>>

\* ... or there is none.
noCallback ==
    /\ mMutex = "free"
    /\ ~sGnssCallback_2_1
    /\ \/ Step("sv", "location") /\ EndsRound /\ UNCHANGED reading
       \/ ~sGnssCallback_2_0 /\ Step("loc", "sleep") /\ EndsReading /\ UNCHANGED round
    /\ UNCHANGED <<callbacks, mIsActive, mMutex, binder, config, debugging>>

\* The callback that was there is called (a failed call is only logged) and the mutex
\* released.
callback ==
    /\ \/ /\ Step("svCall", "location") /\ sGnssCallback_2_1
          /\ EndsRound /\ UNCHANGED reading
       \/ /\ \/ Step("locCall_2_1", "sleep") /\ sGnssCallback_2_1
             \/ Step("locCall_2_0", "sleep") /\ sGnssCallback_2_0
          /\ EndsReading /\ UNCHANGED round
    /\ mMutex' = "free"
    /\ UNCHANGED <<callbacks, mIsActive, binder, config, debugging>>

\* The mock fields are read one by one, without the mutex; then the lines of the
\* location file replace the fields they name.
getLocationFromHW ==
    /\ \/ Step("location", "read") /\ unread' = Fields /\ UNCHANGED unasked
       \/ /\ thread = "read" /\ UNCHANGED thread
          /\ \E f \in unread :
                /\ unread' = unread \ {f}
                /\ unasked' = IF mock[f] \in current[f] THEN unasked ELSE unasked \cup {f}
       \/ /\ Step("read", "loc") /\ unread = {} /\ UNCHANGED unread
          /\ \E F \in SUBSET Fields : unasked' = unasked \ F
    /\ UNCHANGED <<callbacks, mIsActive, mMutex, binder, config, round, debugging>>

\* The sleep of mMinIntervalMs, which setPositionMode and setPositionMode_1_1 set at
\* any time: its length, zero included, is how many other steps come in between.
sleep ==
    /\ Step("sleep", "loop")
    /\ UNCHANGED <<callbacks, mIsActive, mMutex, binder, data>>

\* The process ends and init starts it again.
Restart ==
    /\ sGnssCallback_2_1' = FALSE /\ sGnssCallback_2_0' = FALSE
    /\ mIsActive' \in BOOLEAN
    /\ mMutex' = "free" /\ thread' = "none" /\ binder' = "idle"
    /\ mBlocklistedConstellationSet' = {} /\ mBlocklistedSourceSet' = {} /\ list' = {}
    /\ mock' = gMock /\ options' = NoOptions /\ unwritten' = {}
    /\ current' = [f \in Fields |-> {gMock[f]}]
    /\ EndsRound /\ EndsReading

\* A callback that was cleared after it was tested is called, or a line of the
\* location file does not parse (std::stof).
Crash ==
    /\ \/ thread \in {"svCall", "locCall_2_1"} /\ ~sGnssCallback_2_1
       \/ thread = "locCall_2_0" /\ ~sGnssCallback_2_0
       \/ thread = "read" /\ unread = {}
    /\ Restart

Serving == (binder = "cleanup" /\ cleanup) \/ setActive \/ reportGnssStatusValue
           \/ join \/ spawn \/ writeField
Reporting == beginRound \/ filterBlocklistedSatellitesV2_1 \/ testCallback \/ noCallback
             \/ callback \/ getLocationFromHW \/ sleep \/ Crash

Next == \/ \E l \in SUBSET Sources : setBlocklist(l)
        \/ setCallback_2_1 \/ setCallback_2_0 \/ cleanup \/ start \/ stop
        \/ \E o \in [Fields -> Values \cup {Keep}] : setLocation(o)
        \/ binder = "idle" /\ Restart
        \/ setActive \/ reportGnssStatusValue \/ join \/ spawn \/ writeField
        \/ Reporting

Spec == Init /\ [][Next]_vars

\* Threads run.  The mutex is free during every sleep of the reporter, so a call
\* that waits for it gets it.
Fairness == SF_vars(Serving) /\ SF_vars(Reporting)

FairSpec == Spec /\ Fairness

------------------------------------------------------------------------------
\* Properties.

\* The state has its type.
TypeOK ==
    /\ {sGnssCallback_2_1, sGnssCallback_2_0, mIsActive} \subseteq BOOLEAN
    /\ mMutex \in {"free", "reporter"}
    /\ thread \in ThreadStates /\ binder \in Calls
    /\ unchecked \cup usedInFix \cup throughout \cup ever \subseteq Satellites
    /\ list \subseteq Sources /\ mBlocklistedSourceSet \subseteq Sources
    /\ mock \in [Fields -> Values] /\ options \in [Fields -> Values \cup {Keep}]
    /\ current \in [Fields -> SUBSET Values]
    /\ unwritten \cup unread \cup unasked \subseteq Fields
    /\ mMutex = "reporter" <=> thread \in {"svCall", "locCall_2_1", "locCall_2_0"}

\* A satellite that every blocklist names from the start of a round to its report is
\* never reported as used in the fix, and one that none names always is, whatever
\* lists replace one another while the filter looks up one satellite after another
\* (setBlocklist, isBlocklistedV2_1).
BlocklistHolds ==
    thread = "svCall" => /\ usedInFix \cap throughout = {}
                         /\ Satellites \ usedInFix \subseteq ever

\* Every field of a reported location comes from the location file or is what debug
\* was last asked to set it to when it was read: a call with some of the fields leaves
\* the others as earlier calls set them, and a call in the middle of the reading gives
\* each field its old or its new value (setLocation, getLocationFromHW).
LocationAsSet == thread \in {"locCall_2_1", "locCall_2_0"} => unasked = {}

\* When start or stop has returned, a reporter thread is left only if the session is
\* active: none outlives its session (stop joins it).
StoppedMeansQuiet == binder = "idle" /\ thread # "none" => mIsActive

\* A thread is only started when the previous one was joined: assigning to a
\* joinable std::thread would end the process (start).
OneReporter == binder = "spawn" => thread = "none"

\* start and stop return: they hold no mutex while they wait for the reporter.
CallsReturn == binder # "idle" ~> binder = "idle"

==============================================================================
