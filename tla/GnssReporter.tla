----------------------------- MODULE GnssReporter -----------------------------
(***************************************************************************)
(* The measurement and antenna-info extensions of the HIDL GNSS HAL        *)
(* (GnssMeasurement, GnssAntennaInfo).  Every object has a mutex, a flag   *)
(* mIsActive and a reporter thread; the callbacks are static, one per      *)
(* class and interface version.  All calls arrive on the single thread of  *)
(* the HIDL pool (service.cpp), here `binder'; getExtensionGnss... makes a *)
(* new object for every caller that asks.                                  *)
(***************************************************************************)
EXTENDS Naturals

CONSTANTS
    Objects,
    Class,          \* Class[o]: "Measurement" or "AntennaInfo"
    Callbacks       \* what clients register (or Null)

ASSUME ObjectAssumption ==
    Class \in [Objects -> {"Measurement", "AntennaInfo"}]

VARIABLES
    sCallback,      \* the static callbacks
    mIsActive,
    mMutex,         \* who holds the object's mutex: nobody, "binder" or "reporter"
    thread,         \* where the reporter thread of an object is
    target,         \* the version the reporter chose, as a member of Slots
    binder,         \* the call being served
    gone            \* objects that were destroyed

vars == <<sCallback, mIsActive, mMutex, thread, target, binder, gone>>

Null == "null"
Free == "free"
Slots == {"measurement_2_1", "measurement_2_0", "antenna_2_1"}

\* The static callbacks an object uses, the preferred one first in the code.
SlotsOf(o) == IF Class[o] = "Measurement" THEN {"measurement_2_1", "measurement_2_0"}
              ELSE {"antenna_2_1"}

\* "none": not joinable; "done": finished and not joined yet.
ThreadStates == {"none", "loop", "pick", "report", "call", "sleep", "done"}

Calls == [op : {"setCallback", "close", "destroy"}, obj : Objects,
          pc : {"stop", "join", "start", "clear"}]
Idle == [op |-> "none"]

------------------------------------------------------------------------------
\* mIsActive is not initialized by the constructors.
Init ==
    /\ sCallback = [s \in Slots |-> Null]
    /\ mIsActive \in [Objects -> BOOLEAN]
    /\ mMutex = [o \in Objects |-> Free]
    /\ thread = [o \in Objects |-> "none"]
    /\ target = [o \in Objects |-> "measurement_2_1"]
    /\ binder = Idle
    /\ gone = {}

At(pc) == binder # Idle /\ binder.pc = pc

Goto(pc) == binder' = [binder EXCEPT !.pc = pc]

\* Mutation: a callback that is already set is replaced without stopping.
setCallbackKeepsThread(o, s, cb) ==
    /\ binder = Idle /\ o \notin gone /\ s \in SlotsOf(o)
    /\ mMutex[o] = Free
    /\ mMutex' = [mMutex EXCEPT ![o] = "binder"]
    /\ sCallback' = [sCallback EXCEPT ![s] = cb]
    /\ binder' = [op |-> "setCallback", obj |-> o, pc |-> "start"]
    /\ UNCHANGED <<mIsActive, thread, target, gone>>

\* setCallback takes the mutex and keeps it until it returns.
setCallback(o, s, cb) ==
    /\ binder = Idle /\ o \notin gone /\ s \in SlotsOf(o)
    /\ mMutex[o] = Free
    /\ mMutex' = [mMutex EXCEPT ![o] = "binder"]
    /\ sCallback' = [sCallback EXCEPT ![s] = cb]
    /\ binder' = [op |-> "setCallback", obj |-> o,
                  pc |-> IF mIsActive[o] THEN "stop" ELSE "start"]
    /\ UNCHANGED <<mIsActive, thread, target, gone>>

\* Mutation: the callbacks are cleared first, without the mutex.
closeClearsFirst(o) ==
    /\ binder = Idle /\ o \notin gone
    /\ binder' = [op |-> "close", obj |-> o, pc |-> "stop"]
    /\ sCallback' = [s \in Slots |-> IF s \in SlotsOf(o) THEN Null ELSE sCallback[s]]
    /\ UNCHANGED <<mIsActive, mMutex, thread, target, gone>>

\* Mutation: close takes the mutex before it stops the reporter.
closeLocksFirst(o) ==
    /\ binder = Idle /\ o \notin gone
    /\ mMutex[o] = Free
    /\ mMutex' = [mMutex EXCEPT ![o] = "binder"]
    /\ binder' = [op |-> "close", obj |-> o, pc |-> "stop"]
    /\ UNCHANGED <<sCallback, mIsActive, thread, target, gone>>

\* close and the destructor begin with stop.
close(o) ==
    /\ binder = Idle /\ o \notin gone
    /\ binder' = [op |-> "close", obj |-> o, pc |-> "stop"]
    /\ UNCHANGED <<sCallback, mIsActive, mMutex, thread, target, gone>>

destroy(o) ==
    /\ binder = Idle /\ o \notin gone
    /\ binder' = [op |-> "destroy", obj |-> o, pc |-> "stop"]
    /\ UNCHANGED <<sCallback, mIsActive, mMutex, thread, target, gone>>

stop ==
    /\ At("stop")
    /\ mIsActive' = [mIsActive EXCEPT ![binder.obj] = FALSE]
    /\ Goto("join")
    /\ UNCHANGED <<sCallback, mMutex, thread, target, gone>>

\* Mutation: the reporter is detached instead of joined.
joinDetaches ==
    /\ At("join")
    /\ \/ binder.op = "setCallback" /\ Goto("start") /\ UNCHANGED gone
       \/ binder.op = "close" /\ Goto("clear") /\ UNCHANGED gone
       \/ binder.op = "destroy" /\ binder' = Idle /\ gone' = gone \cup {binder.obj}
    /\ UNCHANGED <<sCallback, mIsActive, mMutex, thread, target>>

\* Wait for the reporter if there is one; then go on with the call.
join ==
    /\ At("join")
    /\ thread[binder.obj] \in {"none", "done"}
    /\ thread' = [thread EXCEPT ![binder.obj] = "none"]
    /\ \/ binder.op = "setCallback" /\ Goto("start") /\ UNCHANGED gone
       \/ binder.op = "close" /\ Goto("clear") /\ UNCHANGED gone
       \/ binder.op = "destroy" /\ binder' = Idle /\ gone' = gone \cup {binder.obj}
    /\ UNCHANGED <<sCallback, mIsActive, mMutex, target>>

\* The end of setCallback: a new thread, and the mutex is released.
start ==
    /\ At("start")
    /\ mIsActive' = [mIsActive EXCEPT ![binder.obj] = TRUE]
    /\ thread' = [thread EXCEPT ![binder.obj] = "loop"]
    /\ mMutex' = [mMutex EXCEPT ![binder.obj] = Free]
    /\ binder' = Idle
    /\ UNCHANGED <<sCallback, target, gone>>

\* The end of close: the callbacks are cleared under the mutex.
clear ==
    /\ At("clear")
    /\ mMutex[binder.obj] = Free
    /\ sCallback' = [s \in Slots |-> IF s \in SlotsOf(binder.obj) THEN Null ELSE sCallback[s]]
    /\ binder' = Idle
    /\ UNCHANGED <<mIsActive, mMutex, thread, target, gone>>

------------------------------------------------------------------------------
\* The reporter thread.

Step(o, from, to) == thread[o] = from /\ thread' = [thread EXCEPT ![o] = to]

loopCheck(o) ==
    /\ IF mIsActive[o] THEN Step(o, "loop", "pick") ELSE Step(o, "loop", "done")
    /\ UNCHANGED <<sCallback, mIsActive, mMutex, target, binder, gone>>

\* The callback is looked at without the mutex, to choose what to report: the
\* measurement thread falls back to version 2.0, the antenna thread to nothing.
pickVersion(o) ==
    /\ \/ /\ Class[o] = "Measurement"
          /\ Step(o, "pick", "report")
          /\ target' = [target EXCEPT ![o] = IF sCallback["measurement_2_1"] # Null
                                             THEN "measurement_2_1" ELSE "measurement_2_0"]
       \/ /\ Class[o] = "AntennaInfo"
          /\ IF sCallback["antenna_2_1"] # Null THEN Step(o, "pick", "report")
             ELSE Step(o, "pick", "sleep")
          /\ target' = [target EXCEPT ![o] = "antenna_2_1"]
    /\ UNCHANGED <<sCallback, mIsActive, mMutex, binder, gone>>

\* Mutation: the early return for a missing callback keeps the mutex.
reportKeepsMutex(o) ==
    /\ mMutex[o] = Free
    /\ mMutex' = [mMutex EXCEPT ![o] = "reporter"]
    /\ IF sCallback[target[o]] # Null THEN Step(o, "report", "call")
       ELSE Step(o, "report", "sleep")
    /\ UNCHANGED <<sCallback, mIsActive, target, binder, gone>>

\* reportMeasurement, reportAntennaInfo: take the mutex and test the callback ...
report(o) ==
    /\ mMutex[o] = Free
    /\ \/ /\ sCallback[target[o]] # Null
          /\ Step(o, "report", "call")
          /\ mMutex' = [mMutex EXCEPT ![o] = "reporter"]
       \/ /\ sCallback[target[o]] = Null
          /\ Step(o, "report", "sleep")
          /\ UNCHANGED mMutex
    /\ UNCHANGED <<sCallback, mIsActive, target, binder, gone>>

\* ... then call it (a failed call is only logged) and release the mutex.
callback(o) ==
    /\ Step(o, "call", "sleep")
    /\ mMutex' = [mMutex EXCEPT ![o] = Free]
    /\ UNCHANGED <<sCallback, mIsActive, target, binder, gone>>

wakeUp(o) ==
    /\ Step(o, "sleep", "loop")
    /\ UNCHANGED <<sCallback, mIsActive, mMutex, target, binder, gone>>

Reporter(o) == loopCheck(o) \/ pickVersion(o) \/ report(o) \/ callback(o) \/ wakeUp(o)

Serving == stop \/ join \/ start \/ clear

Next ==
    \/ \E o \in Objects :
          \/ \E s \in Slots, cb \in Callbacks \cup {Null} : setCallback(o, s, cb)
          \/ close(o) \/ destroy(o) \/ Reporter(o)
    \/ Serving

Spec == Init /\ [][Next]_vars

\* Threads run.  Nobody keeps a mutex from a waiter for ever: a reporter sleeps a
\* second between two uses of it.
Fairness == WF_vars(stop \/ join \/ start) /\ SF_vars(clear)
            /\ \A o \in Objects : /\ WF_vars(loopCheck(o)) /\ WF_vars(pickVersion(o))
                                  /\ SF_vars(report(o)) /\ WF_vars(callback(o))
                                  /\ WF_vars(wakeUp(o))

FairSpec == Spec /\ Fairness

------------------------------------------------------------------------------
\* Properties.

\* The state has its type, and a mutex is only held where the code holds it.
TypeOK ==
    /\ sCallback \in [Slots -> Callbacks \cup {Null}]
    /\ mIsActive \in [Objects -> BOOLEAN]
    /\ mMutex \in [Objects -> {Free, "binder", "reporter"}]
    /\ thread \in [Objects -> ThreadStates]
    /\ target \in [Objects -> Slots]
    /\ binder \in Calls \cup {Idle}
    /\ gone \subseteq Objects
    /\ \A o \in Objects :
          /\ mMutex[o] = "reporter" <=> thread[o] = "call"
          /\ mMutex[o] = "binder" <=>
               binder.op = "setCallback" /\ binder.obj = o

\* The callback a reporter tested is still there when it calls it: "Guarded by
\* mMutex" (GnssMeasurement.h, GnssAntennaInfo.h).
NullNeverCalled ==
    \A o \in Objects : thread[o] = "call" => sCallback[target[o]] # Null

\* When a call has returned, an object that is not active has no thread left that
\* could still report to a client which closed it or destroy it under the thread.
StoppedMeansQuiet ==
    \A o \in Objects : binder = Idle /\ thread[o] # "none" => mIsActive[o]

\* A thread is only started when the previous one was joined: assigning to a
\* joinable std::thread would end the process (start).
OneReporter ==
    At("start") => thread[binder.obj] = "none"

\* What makes the three above inductive.  A thread whose object is not active is
\* being joined, no thread is left when close clears the callbacks, and a reporter
\* that reports uses a callback of its own class.
InactiveIsJoined ==
    \A o \in Objects :
        thread[o] # "none" => mIsActive[o] \/ (At("join") /\ binder.obj = o)

ClearedIsQuiet == At("clear") => thread[binder.obj] = "none"

TargetsOwn ==
    \A o \in Objects : thread[o] \in {"report", "call"} => target[o] \in SlotsOf(o)

ThreadInv == /\ TypeOK
             /\ InactiveIsJoined
             /\ OneReporter
             /\ ClearedIsQuiet
             /\ TargetsOwn

\* Whoever needs measurements or antenna information uses the same object.
OneObjectPerClass == \A o, p \in Objects : Class[o] = Class[p] => o = p

\* close and the destructor return: they do not hold the mutex while they wait for
\* the reporter.
CloseReturns ==
    binder.op \in {"close", "destroy"} ~> binder = Idle

\* setCallback returns as well: "callback already set. Resetting the callback..."
\* (setCallback).  The code does not keep this: setCallback joins the reporter while
\* it holds the mutex the reporter waits for.
ResetReturns ==
    binder.op = "setCallback" ~> binder = Idle

==============================================================================
