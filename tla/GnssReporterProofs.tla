-------------------------- MODULE GnssReporterProofs --------------------------
(***************************************************************************)
(* The reporter threads of GnssReporter, for any number of objects: no     *)
(* thread outlives a call that stopped it, no thread is started over a     *)
(* joinable one, and with one object per class no null callback is called. *)
(***************************************************************************)
EXTENDS GnssReporter, TLAPS

\* The shape of a call that is being served.
LEMMA CallShape ==
    ASSUME TypeOK, NEW pc, At(pc)
    PROVE  /\ binder \in Calls /\ binder.obj \in Objects
           /\ binder.pc = pc
           /\ binder # Idle
  BY DEF TypeOK, At, Calls, Idle

\* Moving on within a call keeps what is called and on which object.
LEMMA GotoShape ==
    ASSUME binder \in Calls, NEW pc \in {"stop", "join", "start", "clear"}, Goto(pc)
    PROVE  /\ binder' \in Calls /\ binder' # Idle
           /\ binder'.op = binder.op /\ binder'.obj = binder.obj /\ binder'.pc = pc
  BY DEF Goto, Calls, Idle

\* The invariant holds before the first call.
LEMMA InitThreads == Init => ThreadInv /\ NullNeverCalled
  BY ObjectAssumption DEF Init, ThreadInv, TypeOK, InactiveIsJoined, OneReporter,
     ClearedIsQuiet, TargetsOwn, NullNeverCalled, At, Idle, Slots, ThreadStates, Null, Free

------------------------------------------------------------------------------
\* The calls.

\* A call that begins on a free object preserves the invariant: it starts a thread
\* only on an object that is not active and so has none.
LEMMA BeginThreads ==
    ASSUME ThreadInv, NEW o \in Objects,
           \/ \E s \in Slots, cb \in Callbacks \cup {Null} : setCallback(o, s, cb)
           \/ close(o)
           \/ destroy(o)
    PROVE  ThreadInv'
<1> USE DEF ThreadInv
<1>1. CASE \E s \in Slots, cb \in Callbacks \cup {Null} : setCallback(o, s, cb)
  <2>1. PICK s \in Slots, cb \in Callbacks \cup {Null} : setCallback(o, s, cb)
    BY <1>1
  <2> DEFINE pc == IF mIsActive[o] THEN "stop" ELSE "start"
  <2>2. binder = Idle /\ mMutex[o] = Free /\ binder' = [op |-> "setCallback", obj |-> o, pc |-> pc]
    BY <2>1 DEF setCallback
  <2>3. /\ binder' \in Calls /\ binder' # Idle
        /\ binder'.op = "setCallback" /\ binder'.obj = o /\ binder'.pc = pc
    BY <2>2 DEF Calls, Idle
  <2>4. binder.op = "none"
    BY <2>2 DEF Idle
  <2>5. TypeOK'
    BY <2>1, <2>2, <2>3, <2>4 DEF TypeOK, setCallback, Slots, Free
  <2>6. \A p \in Objects : thread[p] # "none" => mIsActive[p]
    BY <2>2 DEF InactiveIsJoined, At
  <2>7. InactiveIsJoined'
    BY <2>1, <2>6 DEF InactiveIsJoined, setCallback
  <2>8. OneReporter' /\ ClearedIsQuiet'
    BY <2>1, <2>3, <2>6 DEF OneReporter, ClearedIsQuiet, At, setCallback
  <2>9. TargetsOwn'
    BY <2>1 DEF TargetsOwn, setCallback, SlotsOf
  <2>10. QED
    BY <2>5, <2>7, <2>8, <2>9
<1>2. CASE close(o) \/ destroy(o)
  <2>1. PICK op \in {"close", "destroy"} :
            binder = Idle /\ binder' = [op |-> op, obj |-> o, pc |-> "stop"]
    BY <1>2 DEF close, destroy
  <2>2. UNCHANGED <<sCallback, mIsActive, mMutex, thread, target, gone>>
    BY <1>2 DEF close, destroy
  <2>3. binder' \in Calls /\ binder' # Idle /\ binder'.op = op /\ binder'.pc = "stop"
    BY <2>1 DEF Calls, Idle
  <2>4. binder.op = "none"
    BY <2>1 DEF Idle
  <2>5. TypeOK'
    BY <2>2, <2>3, <2>4 DEF TypeOK
  <2>6. \A p \in Objects : thread[p] # "none" => mIsActive[p]
    BY <2>1 DEF InactiveIsJoined, At
  <2>7. InactiveIsJoined' /\ OneReporter' /\ ClearedIsQuiet' /\ TargetsOwn'
    BY <2>2, <2>3, <2>6 DEF InactiveIsJoined, OneReporter, ClearedIsQuiet, TargetsOwn,
       At, SlotsOf
  <2>8. QED
    BY <2>5, <2>7
<1>3. QED
  BY <1>1, <1>2

\* A call that goes on preserves the invariant: join waits until the thread of its
\* object is gone, before start makes a new one or clear drops the callbacks.
LEMMA ServingThreads == ASSUME ThreadInv, Serving PROVE ThreadInv'
<1> USE DEF ThreadInv
<1>1. CASE stop
  <2>1. binder \in Calls /\ binder.obj \in Objects /\ At("stop")
    BY <1>1, CallShape DEF stop
  <2>2. /\ binder' \in Calls /\ binder' # Idle
        /\ binder'.op = binder.op /\ binder'.obj = binder.obj /\ binder'.pc = "join"
    BY <1>1, <2>1, GotoShape DEF stop
  <2>3. TypeOK'
    BY <1>1, <2>1, <2>2 DEF TypeOK, stop
  <2>4. InactiveIsJoined'
    BY <1>1, <2>1, <2>2 DEF InactiveIsJoined, At, stop, TypeOK
  <2>5. OneReporter' /\ ClearedIsQuiet'
    BY <2>2 DEF OneReporter, ClearedIsQuiet, At
  <2>6. TargetsOwn'
    BY <1>1 DEF TargetsOwn, stop, SlotsOf
  <2>7. QED
    BY <2>3, <2>4, <2>5, <2>6
<1>2. CASE join
  <2>1. binder \in Calls /\ binder.obj \in Objects /\ At("join")
    BY <1>2, CallShape DEF join
  <2>2. \/ /\ binder.op = "setCallback" /\ Goto("start") /\ UNCHANGED gone
        \/ /\ binder.op = "close" /\ Goto("clear") /\ UNCHANGED gone
        \/ /\ binder.op = "destroy" /\ binder' = Idle /\ gone' = gone \cup {binder.obj}
    BY <1>2 DEF join
  <2>3. \/ /\ binder' \in Calls /\ binder' # Idle /\ binder'.pc \in {"start", "clear"}
           /\ binder'.op = binder.op /\ binder'.obj = binder.obj
        \/ /\ binder' = Idle /\ binder'.op = "none" /\ binder.op = "destroy"
    BY <2>1, <2>2, GotoShape DEF Idle
  <2>4. thread' = [thread EXCEPT ![binder.obj] = "none"] /\ thread[binder.obj] \in {"none", "done"}
    BY <1>2 DEF join
  <2>5. TypeOK'
    <3>1. gone' \subseteq Objects
      BY <2>1, <2>2 DEF TypeOK
    <3>2. thread' \in [Objects -> ThreadStates]
      BY <2>1, <2>4 DEF TypeOK, ThreadStates
    <3>3. \A o \in Objects : mMutex[o] = "binder" <=> binder'.op = "setCallback" /\ binder'.obj = o
      BY <2>3 DEF TypeOK
    <3>4. \A o \in Objects : mMutex[o] = "reporter" <=> thread'[o] = "call"
      BY <2>1, <2>4 DEF TypeOK
    <3>5. QED
      BY <1>2, <2>3, <3>1, <3>2, <3>3, <3>4 DEF TypeOK, join
  <2>6. InactiveIsJoined'
    BY <1>2, <2>1, <2>3, <2>4 DEF InactiveIsJoined, At, join, TypeOK
  <2>7. OneReporter' /\ ClearedIsQuiet'
    BY <2>1, <2>3, <2>4 DEF OneReporter, ClearedIsQuiet, At, TypeOK
  <2>8. TargetsOwn'
    BY <1>2, <2>4 DEF TargetsOwn, join, SlotsOf, TypeOK
  <2>9. QED
    BY <2>5, <2>6, <2>7, <2>8
<1>3. CASE start
  <2>1. binder \in Calls /\ binder.obj \in Objects /\ At("start")
    BY <1>3, CallShape DEF start
  <2>2. binder' = Idle /\ binder'.op = "none"
    BY <1>3 DEF start, Idle
  <2>3. thread[binder.obj] = "none"
    BY <2>1 DEF OneReporter
  <2>4. TypeOK'
    <3>1. \A o \in Objects : mMutex'[o] = "reporter" <=> thread'[o] = "call"
      BY <1>3, <2>1, <2>3 DEF start, TypeOK, Free
    <3>2. \A o \in Objects : mMutex'[o] # "binder"
      BY <1>3, <2>1 DEF start, TypeOK, Free
    <3>3. QED
      BY <1>3, <2>1, <2>2, <3>1, <3>2 DEF start, TypeOK, ThreadStates, Free
  <2>5. InactiveIsJoined'
    BY <1>3, <2>1, <2>3 DEF InactiveIsJoined, start, TypeOK, At
  <2>6. OneReporter' /\ ClearedIsQuiet'
    BY <2>2 DEF OneReporter, ClearedIsQuiet, At
  <2>7. TargetsOwn'
    BY <1>3, <2>1 DEF TargetsOwn, start, SlotsOf, TypeOK
  <2>8. QED
    BY <2>4, <2>5, <2>6, <2>7
<1>4. CASE clear
  <2>1. binder \in Calls /\ binder.obj \in Objects /\ At("clear")
    BY <1>4, CallShape DEF clear
  <2>2. binder' = Idle /\ binder'.op = "none"
    BY <1>4 DEF clear, Idle
  <2>3. \A o \in Objects : mMutex[o] # "binder"
    BY <1>4, <2>1 DEF clear, TypeOK, Free
  <2>4. TypeOK'
    BY <1>4, <2>2, <2>3 DEF clear, TypeOK
  <2>5. InactiveIsJoined'
    BY <1>4, <2>1, <2>2 DEF InactiveIsJoined, clear, At
  <2>6. OneReporter' /\ ClearedIsQuiet'
    BY <2>2 DEF OneReporter, ClearedIsQuiet, At
  <2>7. TargetsOwn'
    BY <1>4 DEF TargetsOwn, clear, SlotsOf
  <2>8. QED
    BY <2>4, <2>5, <2>6, <2>7
<1>5. QED
  BY <1>1, <1>2, <1>3, <1>4 DEF Serving

------------------------------------------------------------------------------
\* The reporter threads.

\* The thread of o moves to `to' and nothing else happens than that it takes its
\* mutex with a call, frees it after one, or chooses a callback of its class.
Moves(o, to) ==
    /\ thread' = [thread EXCEPT ![o] = to]
    /\ thread[o] # "none"
    /\ \/ /\ thread[o] # "call" /\ to # "call" /\ UNCHANGED mMutex
       \/ /\ thread[o] = "report" /\ to = "call" /\ mMutex[o] = Free
          /\ mMutex' = [mMutex EXCEPT ![o] = "reporter"]
          /\ sCallback[target[o]] # Null
       \/ /\ thread[o] = "call" /\ to # "call"
          /\ mMutex' = [mMutex EXCEPT ![o] = Free]
    /\ \/ UNCHANGED target /\ to # "report"
       \/ \E s \in SlotsOf(o) : target' = [target EXCEPT ![o] = s] /\ to # "call"

\* Every step of a reporter is such a move, and none ends in "none".
LEMMA ReporterMoves ==
    ASSUME ThreadInv, NEW o \in Objects, Reporter(o)
    PROVE  /\ UNCHANGED <<sCallback, mIsActive, binder, gone>>
           /\ \E to \in ThreadStates \ {"none"} : Moves(o, to)
<1>1. CASE loopCheck(o)
  BY <1>1 DEF loopCheck, Step, ThreadStates, Moves
<1>2. CASE pickVersion(o)
  BY <1>2, ObjectAssumption DEF pickVersion, Step, ThreadStates, SlotsOf, Moves
<1>3. CASE report(o)
  BY <1>3 DEF report, Step, ThreadStates, Moves
<1>4. CASE callback(o)
  <2>1. Moves(o, "sleep")
    BY <1>4 DEF callback, Step, Moves
  <2>2. QED
    BY <1>4, <2>1 DEF callback, ThreadStates
<1>5. CASE wakeUp(o)
  <2>1. Moves(o, "loop")
    BY <1>5 DEF wakeUp, Step, Moves
  <2>2. QED
    BY <1>5, <2>1 DEF wakeUp, ThreadStates
<1>6. QED
  BY <1>1, <1>2, <1>3, <1>4, <1>5 DEF Reporter

\* A step of a reporter preserves the invariant.
LEMMA ReporterThreads == ASSUME ThreadInv, NEW o \in Objects, Reporter(o) PROVE ThreadInv'
<1> USE DEF ThreadInv, Moves
<1>1. PICK to \in ThreadStates \ {"none"} : Moves(o, to)
  BY ReporterMoves
<1>2. UNCHANGED <<sCallback, mIsActive, binder, gone>>
  BY ReporterMoves
<1>3. TypeOK'
  <2>1. target' \in [Objects -> Slots]
    BY <1>1 DEF TypeOK, SlotsOf, Slots
  <2>2. mMutex' \in [Objects -> {Free, "binder", "reporter"}]
    BY <1>1 DEF TypeOK
  <2>3. thread' \in [Objects -> ThreadStates]
    BY <1>1 DEF TypeOK
  <2>4. \A p \in Objects : mMutex'[p] = "reporter" <=> thread'[p] = "call"
    BY <1>1 DEF TypeOK, Free
  <2>5. \A p \in Objects : mMutex'[p] = "binder" <=> mMutex[p] = "binder"
    BY <1>1 DEF TypeOK, Free
  <2>6. QED
    BY <1>2, <2>1, <2>2, <2>3, <2>4, <2>5 DEF TypeOK
<1>4. \A p \in Objects : thread'[p] = "none" <=> thread[p] = "none"
  BY <1>1 DEF TypeOK
<1>5. InactiveIsJoined'
  BY <1>2, <1>4 DEF InactiveIsJoined, At
<1>6. OneReporter' /\ ClearedIsQuiet'
  <2>1. ASSUME NEW pc, At(pc)' PROVE At(pc) /\ binder.obj \in Objects
    BY <1>2, <2>1, CallShape DEF At
  <2>2. QED
    BY <1>2, <1>4, <2>1 DEF OneReporter, ClearedIsQuiet
<1>7. TargetsOwn'
  BY <1>1 DEF TargetsOwn, TypeOK, SlotsOf
<1>8. QED
  BY <1>3, <1>5, <1>6, <1>7

\* Every step preserves the invariant.
LEMMA StepThreads == ThreadInv /\ [Next]_vars => ThreadInv'
<1> SUFFICES ASSUME ThreadInv, [Next]_vars PROVE ThreadInv'
  OBVIOUS
<1>1. CASE UNCHANGED vars
  BY <1>1 DEF ThreadInv, vars, TypeOK, InactiveIsJoined, OneReporter, ClearedIsQuiet,
     TargetsOwn, At, SlotsOf
<1>2. CASE Next
  BY <1>2, BeginThreads, ServingThreads, ReporterThreads DEF Next
<1>3. QED
  BY <1>1, <1>2

------------------------------------------------------------------------------
\* The state keeps its type, and mutexes are held where the code holds them.
THEOREM ReporterTypeCorrect == Spec => []TypeOK
<1>1. ThreadInv => TypeOK
  BY DEF ThreadInv
<1>2. QED
  BY <1>1, InitThreads, StepThreads, PTL DEF Spec

\* However setCallback, close and the destructor follow one another, no reporter
\* is left running for an object that was stopped once the call has returned (stop
\* joins the thread it told to end).
THEOREM ReporterStops == Spec => []StoppedMeansQuiet
<1>1. ThreadInv => StoppedMeansQuiet
  BY DEF ThreadInv, InactiveIsJoined, StoppedMeansQuiet, At
<1>2. QED
  BY <1>1, InitThreads, StepThreads, PTL DEF Spec

\* A new reporter is only started when the thread member holds none, also when
\* mIsActive starts with an arbitrary value (start).
THEOREM ReporterIsAlone == Spec => []OneReporter
<1>1. ThreadInv => OneReporter
  BY DEF ThreadInv
<1>2. QED
  BY <1>1, InitThreads, StepThreads, PTL DEF Spec

\* With one object per class the mutex of the object guards the static callback:
\* nobody clears it between the test and the call in reportMeasurement.  (With two
\* objects this does not hold.)
THEOREM CallbackGuarded == OneObjectPerClass => (Spec => []NullNeverCalled)
<1> SUFFICES ASSUME OneObjectPerClass PROVE Spec => []NullNeverCalled
  OBVIOUS
<1>1. ThreadInv /\ NullNeverCalled /\ [Next]_vars => NullNeverCalled'
  <2> SUFFICES ASSUME ThreadInv, NullNeverCalled, [Next]_vars,
                      NEW p \in Objects, thread'[p] = "call"
               PROVE  (sCallback[target[p]] # Null)'
    BY DEF NullNeverCalled
  <2> USE DEF ThreadInv
  <2>1. CASE UNCHANGED vars
    BY <2>1 DEF vars, NullNeverCalled
  <2>2. ASSUME NEW o \in Objects, NEW s \in Slots, NEW cb \in Callbacks \cup {Null},
               setCallback(o, s, cb)
        PROVE  (sCallback[target[p]] # Null)'
    <3>1. thread[p] = "call" /\ mMutex[p] = "reporter" /\ mMutex[o] = Free
      BY <2>2 DEF setCallback, TypeOK
    <3>2. p # o
      BY <3>1 DEF Free
    <3>3. s \in SlotsOf(o) /\ target[p] \in SlotsOf(p)
      BY <2>2, <3>1 DEF setCallback, TargetsOwn
    <3>4. target[p] # s
      BY <3>2, <3>3, ObjectAssumption DEF SlotsOf, OneObjectPerClass
    <3>5. sCallback'[target[p]] = sCallback[target[p]] /\ target' = target
      BY <2>2, <3>4 DEF setCallback, TypeOK
    <3>6. QED
      BY <3>1, <3>5 DEF NullNeverCalled
  <2>3. ASSUME NEW o \in Objects, close(o) \/ destroy(o)
        PROVE  (sCallback[target[p]] # Null)'
    BY <2>3 DEF close, destroy, NullNeverCalled
  <2>4. CASE stop
    BY <2>4 DEF stop, NullNeverCalled
  <2>5. CASE join
    <3>1. binder.obj \in Objects
      BY <2>5, CallShape DEF join
    <3>2. thread[p] = "call"
      BY <2>5, <3>1 DEF join, TypeOK
    <3>3. QED
      BY <2>5, <3>2 DEF join, NullNeverCalled
  <2>6. CASE start
    <3>1. binder.obj \in Objects
      BY <2>6, CallShape DEF start
    <3>2. thread[p] = "call"
      BY <2>6, <3>1 DEF start, TypeOK
    <3>3. QED
      BY <2>6, <3>2 DEF start, NullNeverCalled
  <2>7. CASE clear
    <3>1. binder.obj \in Objects /\ thread[binder.obj] = "none"
      BY <2>7, CallShape DEF clear, ClearedIsQuiet
    <3>2. thread[p] = "call" /\ target' = target
      BY <2>7 DEF clear
    <3>3. p # binder.obj /\ target[p] \in SlotsOf(p)
      BY <3>1, <3>2 DEF TargetsOwn
    <3>4. target[p] \notin SlotsOf(binder.obj)
      BY <3>1, <3>3, ObjectAssumption DEF SlotsOf, OneObjectPerClass
    <3>5. target[p] \in Slots
      BY DEF TypeOK
    <3>6. sCallback'[target[p]] = sCallback[target[p]]
      BY <2>7, <3>4, <3>5 DEF clear
    <3>7. QED
      BY <3>2, <3>6 DEF NullNeverCalled
  <2>8. ASSUME NEW o \in Objects, Reporter(o)
        PROVE  (sCallback[target[p]] # Null)'
    BY <2>8, ReporterMoves DEF NullNeverCalled, TypeOK, Moves
  <2>9. QED
    BY <2>1, <2>2, <2>3, <2>4, <2>5, <2>6, <2>7, <2>8 DEF Next, Serving
<1>2. QED
  BY <1>1, InitThreads, StepThreads, PTL DEF Spec
=============================================================================
