---------------------------- MODULE NetSetupProofs ----------------------------
(***************************************************************************)
(* The set-up of the network, for any number of retries and of failures:   *)
(* the hand-over of the router namespace through the pid file, the side    *)
(* the services run on, and the devices of a script that came to its end.  *)
(***************************************************************************)
EXTENDS NetSetup, TLAPS

\* What the two variables of the script and the pid file tell of one another: the pid
\* init wrote is gone before createns can be looked for, and a script that has read
\* the pid of createns will find it in the file for good.
HandOver ==
    /\ script = "iptables" => router_ns = "main" /\ createns = "off"
    /\ script \in {"rm", "start"} => router_ns = "router" /\ createns = "off"
    /\ createns # "off" => router_ns = "router"
    /\ pidFile = InitPid => router_ns = "main" \/ script = "rm"
    /\ pidFile = RouterPid => createns \in {"ready", "ended"}
    /\ router_pid = RouterPid => pidFile = RouterPid
    /\ router_pid = InitPid =>
         router_ns = "main" \/ script \in {"rm", "start", "wait", "cat"}

\* No service is started, and no bridge made, before the pid file init wrote is gone.
NothingStartedYet ==
    script \in {"iptables", "rm"} =>
        /\ \A s \in Services : service[s] = "off" /\ serviceNs[s] = None
        /\ place["br0"] = None

\* The commands after the one that makes or moves a device.
LateForEth0   == {"eth0 up", "ipv6proxy", "done"}
LateForRadio0 == LateForEth0 \cup {"radio0-peer up", "eth0", "eth0 netns", "exit"}
LateForBr0    == LateForRadio0 \cup {"hostapd", "radio0"}
LateForWlan1  == LateForBr0 \cup {"wlan1 up", "br0"}

\* Devices are not there before their command.
NotMadeYet ==
    /\ script \notin LateForRadio0 => place["radio0-peer"] = None
    /\ script \notin LateForBr0 => place["br0"] = None
    /\ script \notin LateForWlan1 \cup {"wlan1 netns"} => place["wlan1"] = None
    /\ place["veth0"] # None => router_ns = "main" /\ script = "done"

\* The devices for which no command has failed by itself.
Clean == {d \in Devices : CommandsOf[d] \cap failed = {}}

\* With the namespace of createns to go to, a device is moved there by its command, and
\* configured by the next one, unless they fail.
MovedAndUp(d, late, up) ==
    script \in late /\ d \in Clean =>
        /\ place[d] \in {None, "router"}
        /\ script # up => place[d] = None \/ configured[d]

DevicesOnTheirWay ==
    createns = "ready" /\ router_pid = RouterPid =>
        /\ MovedAndUp("eth0", LateForEth0, "eth0 up")
        /\ MovedAndUp("wlan1", LateForWlan1, "wlan1 up")
        /\ MovedAndUp("radio0-peer", LateForRadio0, "radio0-peer up")
        /\ MovedAndUp("br0", LateForBr0, "")

------------------------------------------------------------------------------
\* execns ends up in one of the two namespaces or fails.
LEMMA NamespaceTyped ==
    \A pid : NamespaceOf(pid) \in {"main", "router", None}
  BY DEF NamespaceOf

\* The pid files lead to the namespaces they are meant to: the file of init to main,
\* that of createns, while it lives, to the router.
LEMMA NamespaceFound ==
    /\ setNetworkNamespace("main") = "main"
    /\ setNetworkNamespace("router") = NamespaceOf(pidFile)
    /\ NamespaceOf(InitPid) = "main"
    /\ NamespaceOf(RouterPid) = IF createns # "ended" THEN "router" ELSE None
    /\ NamespaceOf(Absent) = None /\ NamespaceOf(Empty) = None
  BY DEF setNetworkNamespace, NamespaceOf, InitPid, RouterPid, Absent, Empty, None

\* Moving or configuring a device keeps the devices in their type.
LEMMA DeviceCommandsTyped ==
    ASSUME TypeOK, NEW d \in Devices, Move(d) \/ Configure(d)
    PROVE  /\ place' \in [Devices -> {"main", "router", None}]
           /\ configured' \in [Devices -> BOOLEAN]
<1>1. CASE Move(d)
  BY <1>1, NamespaceTyped DEF Move, TypeOK, devices
<1>2. CASE Configure(d)
  BY <1>2 DEF Configure, TypeOK
<1>3. QED
  BY <1>1, <1>2

\* The commands of each device.
LEMMA Commands ==
    /\ CommandsOf["eth0"] = {"eth0 netns", "eth0 up"} /\ CommandsOf["veth0"] = {"eth0 netns"}
    /\ CommandsOf["wlan1"] = {"wlan1 netns", "wlan1 up"} /\ CommandsOf["br0"] = {"br0"}
    /\ CommandsOf["radio0-peer"] = {"radio0", "radio0-peer up"}
  BY DEF CommandsOf, Devices

\* Each of them is a command for a device.
LEMMA AllCommands ==
    \A c \in {"eth0 netns", "eth0 up", "wlan1 netns", "wlan1 up", "br0", "radio0",
              "radio0-peer up"} : c \in DeviceCommands
<1>1. TAKE c \in {"eth0 netns", "eth0 up", "wlan1 netns", "wlan1 up", "br0", "radio0",
                  "radio0-peer up"}
<1>2. \E d \in Devices : c \in CommandsOf[d]
  BY Commands DEF Devices
<1>3. QED
  BY <1>2 DEF DeviceCommands

\* A command for a device that works or fails keeps the failures in their type.
LEMMA FailuresTyped ==
    ASSUME TypeOK, script \in DeviceCommands, Works \/ Fails
    PROVE  faults' \in 0..MaxFaults /\ failed' \subseteq DeviceCommands
<1>1. faults' = faults \/ (faults < MaxFaults /\ faults' = faults + 1)
  BY DEF Works, Fails, Fault, failures
<1>2. failed' = failed \/ failed' = failed \cup {script}
  BY DEF Works, Fails, failures
<1>3. faults \in 0..MaxFaults /\ MaxFaults \in Nat /\ failed \subseteq DeviceCommands
  BY SetupAssumption DEF TypeOK
<1>4. faults' \in 0..MaxFaults
  BY <1>1, <1>3
<1>5. failed' \subseteq DeviceCommands
  BY <1>2, <1>3
<1>6. QED
  BY <1>4, <1>5

\* The end of a process keeps the services in their type.
LEMMA EndsTyped ==
    ASSUME TypeOK, NEW s \in Services, ends(s)
    PROVE  /\ service' \in [Services -> {"off", "exec", "begin", "serve"}]
           /\ serviceNs' \in [Services -> {"main", "router", None}]
  BY DEF TypeOK, ends

\* Every command of the script keeps the state in its type.
LEMMA ScriptTyped == ASSUME TypeOK, Script PROVE TypeOK'
<1> USE DEF setup, devices, services, creatensVars
<1>0. UNCHANGED uplink
  BY DEF Script
<1>1. CASE createRadios
  <2>1. place' \in [Devices -> {"main", "router", None}]
    BY <1>1 DEF createRadios, TypeOK
  <2>2. faults' \in 0..MaxFaults /\ failed' = failed
    <3>1. (Fault \/ UNCHANGED faults) /\ failed' = failed
      BY <1>1 DEF createRadios
    <3>2. QED
      BY <3>1, SetupAssumption DEF Fault, TypeOK
  <2>3. QED
    BY <1>0, <1>1, <2>1, <2>2 DEF createRadios, TypeOK
<1>2. CASE UNCHANGED failures /\ (probeIptables \/ removePidFile \/ startRouterNs \/ seePidFile)
  BY <1>0, <1>2 DEF probeIptables, removePidFile, startRouterNs, seePidFile, failures, TypeOK
<1>3. CASE UNCHANGED failures /\ readPidFile
  BY <1>0, <1>3 DEF readPidFile, failures, TypeOK
<1>4. CASE UNCHANGED failures /\ (startAdbdProxy \/ startWifiServices \/ startIpv6Proxy)
  <2>1. service' \in [Services -> {"off", "exec", "begin", "serve"}] /\ UNCHANGED serviceNs
    BY <1>4 DEF startAdbdProxy, startWifiServices, startIpv6Proxy, Start, TypeOK
  <2>2. QED
    BY <1>0, <1>4, <2>1 DEF startAdbdProxy, startWifiServices, startIpv6Proxy, failures, TypeOK
<1>5. CASE moveWlan1 \/ configureWlan1 \/ configureRadio \/ moveEth0
  <2>1. {"wlan1", "radio0-peer", "eth0"} \subseteq Devices
    BY DEF Devices
  <2>2. /\ place' \in [Devices -> {"main", "router", None}]
        /\ configured' \in [Devices -> BOOLEAN]
    BY <1>5, <2>1, DeviceCommandsTyped
       DEF moveWlan1, configureWlan1, configureRadio, moveEth0
  <2>3. UNCHANGED <<setup, creatensVars, services>>
    BY <1>5 DEF moveWlan1, configureWlan1, configureRadio, moveEth0
  <2>4. /\ script \in {"wlan1 netns", "wlan1 up", "radio0-peer up", "eth0 netns", "eth0 up"}
        /\ Works \/ Fails
    BY <1>5 DEF moveWlan1, configureWlan1, configureRadio, moveEth0, Move, Configure, Steps
  <2>5. faults' \in 0..MaxFaults /\ failed' \subseteq DeviceCommands
    BY <2>4, AllCommands, FailuresTyped
  <2>6. QED
    BY <1>0, <2>2, <2>3, <2>5 DEF TypeOK
<1>6. CASE addBridge \/ addRadio \/ renameEth0
  <2>1. place' \in [Devices -> {"main", "router", None}]
    <3>1. CASE addBridge
      BY <3>1, NamespaceTyped DEF addBridge, setNetworkNamespace, TypeOK
    <3>2. CASE addRadio
      <4>1. place' = [place EXCEPT !["radio0-peer"] = NamespaceOf(router_pid)] \/ place' = place
        BY <3>2 DEF addRadio
      <4>2. QED
        BY <4>1, NamespaceTyped DEF TypeOK
    <3>3. CASE renameEth0
      BY <3>3 DEF renameEth0, TypeOK
    <3>4. QED
      BY <1>6, <3>1, <3>2, <3>3
  <2>2. configured' \in [Devices -> BOOLEAN]
    <3>1. CASE addBridge
      BY <3>1 DEF addBridge, TypeOK
    <3>2. CASE addRadio \/ renameEth0
      BY <3>2 DEF addRadio, renameEth0, TypeOK
    <3>3. QED
      BY <1>6, <3>1, <3>2
  <2>3. script \in {"br0", "radio0", "eth0 netns"} /\ (Works \/ Fails)
    BY <1>6 DEF addBridge, addRadio, renameEth0, Steps
  <2>4. faults' \in 0..MaxFaults /\ failed' \subseteq DeviceCommands
    BY <2>3, AllCommands, FailuresTyped
  <2>5. UNCHANGED <<setup, creatensVars, services>>
    BY <1>6 DEF addBridge, addRadio, renameEth0
  <2>6. QED
    BY <1>0, <2>1, <2>2, <2>4, <2>5 DEF TypeOK
<1>7. CASE UNCHANGED failures /\ lookAtEth0
  <2>1. tries' \in 0..Retries
    <3>1. tries' = tries \/ (tries + 1 < Retries /\ tries' = tries + 1)
          \/ (tries + 1 = Retries /\ tries' = tries + 1)
      BY <1>7 DEF lookAtEth0
    <3>2. QED
      BY <3>1, SetupAssumption DEF TypeOK
  <2>2. QED
    BY <1>0, <1>7, <2>1 DEF lookAtEth0, failures, TypeOK
<1>8. QED
  BY <1>1, <1>2, <1>3, <1>4, <1>5, <1>6, <1>7 DEF Script

\* So does every other step.
LEMMA TypeStep == TypeOK /\ [Next]_vars => TypeOK'
<1> SUFFICES ASSUME TypeOK, [Next]_vars PROVE TypeOK'
  OBVIOUS
<1> USE DEF setup, devices, services, creatensVars, failures
<1>1. CASE Script
  BY <1>1, ScriptTyped
<1>2. CASE CreatensRuns
  BY <1>2 DEF CreatensRuns, unshare, mount, openPidFile, writePid, StepsCreatens, TypeOK
<1>3. CASE CreatensEnds
  <2>1. faults' \in 0..MaxFaults
    BY <1>3, SetupAssumption DEF CreatensEnds, creatensFails, creatensKilled, Fault, TypeOK
  <2>2. QED
    BY <1>3, <2>1 DEF CreatensEnds, creatensFails, creatensKilled, TypeOK
<1>4. CASE HostAnswers
  BY <1>4 DEF HostAnswers, TypeOK
<1>5. ASSUME NEW s \in Services, ServiceRuns(s) PROVE TypeOK'
  <2>1. CASE ends(s)
    BY <1>5, <2>1, EndsTyped DEF ServiceRuns, execns, begin, TypeOK
  <2>2. CASE ~ends(s)
    BY <1>5, <2>2, NamespaceTyped DEF ServiceRuns, execns, begin, setNetworkNamespace, TypeOK
  <2>3. QED
    BY <2>1, <2>2
<1>6. ASSUME NEW s \in Services, ServiceDies(s) PROVE TypeOK'
  <2>1. faults' \in 0..MaxFaults /\ ends(s)
    BY <1>6, SetupAssumption DEF ServiceDies, dies, Fault, TypeOK
  <2>2. QED
    BY <1>6, <2>1, EndsTyped DEF ServiceDies, TypeOK
<1>7. CASE UNCHANGED vars
  BY <1>7 DEF vars, TypeOK
<1>8. QED
  BY <1>1, <1>2, <1>3, <1>4, <1>5, <1>6, <1>7 DEF Next

\* The state at boot has its type.
LEMMA TypeInit == Init => TypeOK
  BY SetupAssumption DEF Init, TypeOK

\* The state of the set-up always has its type, for every bound on looks and faults.
THEOREM SetupTyped == Spec => []TypeOK
  BY TypeInit, TypeStep, PTL DEF Spec

------------------------------------------------------------------------------
\* The variables the hand-over is about.
handOverVars == <<script, router_ns, router_pid, createns, pidFile>>

\* Every step keeps the hand-over in order.
LEMMA HandOverStep == TypeOK /\ HandOver /\ [Next]_vars => HandOver'
<1> SUFFICES ASSUME TypeOK, HandOver, [Next]_vars PROVE HandOver'
  OBVIOUS
<1> USE DEF HandOver, InitPid, RouterPid, Absent, Empty, setup, creatensVars
<1>1. CASE UNCHANGED handOverVars
  BY <1>1 DEF handOverVars
<1>2. CASE CreatensRuns
  BY <1>2 DEF CreatensRuns, unshare, mount, openPidFile, writePid, StepsCreatens
<1>3. CASE CreatensEnds
  BY <1>3 DEF CreatensEnds, creatensFails, creatensKilled
<1>4. CASE probeIptables
  BY <1>4 DEF probeIptables, Steps, TypeOK
<1>5. CASE removePidFile \/ startRouterNs \/ seePidFile
  BY <1>5 DEF removePidFile, startRouterNs, seePidFile, Steps, TypeOK
<1>6. CASE readPidFile
  BY <1>6 DEF readPidFile, Steps, TypeOK
<1>7. ASSUME UNCHANGED <<router_ns, router_pid, createns, pidFile>>,
             script \notin {"iptables", "rm", "start", "wait", "cat"},
             script' \notin {"iptables", "rm", "start", "wait", "cat"}
      PROVE  HandOver'
  BY <1>7
<1>8. CASE startAdbdProxy \/ createRadios \/ moveWlan1 \/ configureWlan1 \/ addBridge
           \/ startWifiServices \/ addRadio \/ configureRadio \/ lookAtEth0 \/ moveEth0
           \/ startIpv6Proxy \/ renameEth0
  <2>1. UNCHANGED <<router_ns, router_pid, createns, pidFile>>
    BY <1>8 DEF startAdbdProxy, createRadios, moveWlan1, configureWlan1, addBridge,
       startWifiServices, addRadio, configureRadio, lookAtEth0, moveEth0, startIpv6Proxy,
       renameEth0
  <2>2. /\ script \notin {"iptables", "rm", "start", "wait", "cat"}
        /\ script' \notin {"iptables", "rm", "start", "wait", "cat"}
    BY <1>8 DEF startAdbdProxy, createRadios, moveWlan1, configureWlan1, addBridge,
       startWifiServices, addRadio, configureRadio, lookAtEth0, moveEth0, startIpv6Proxy,
       renameEth0, Steps
  <2>3. QED
    BY <1>7, <2>1, <2>2
<1>9. CASE HostAnswers \/ (\E s \in Services : ServiceRuns(s) \/ ServiceDies(s)) \/ UNCHANGED vars
  BY <1>1, <1>9 DEF HostAnswers, ServiceRuns, ServiceDies, vars, handOverVars
<1>10. QED
  BY <1>2, <1>3, <1>4, <1>5, <1>6, <1>8, <1>9 DEF Next, Script

\* The hand-over is in order in every behaviour.
LEMMA HandOverHolds == Spec => [](TypeOK /\ HandOver)
<1>1. Init => HandOver
  BY DEF Init, HandOver, InitPid, RouterPid
<1>2. QED
  BY TypeInit, TypeStep, HandOverStep, <1>1, PTL DEF Spec

------------------------------------------------------------------------------
\* A command that runs on the router side of the script, and a service that is
\* started, end up in the namespace the script has chosen or nowhere.
LEMMA EntersOwnSide ==
    ASSUME TypeOK, HandOver, script # "rm"
    PROVE  /\ setNetworkNamespace(router_ns) \in {None, router_ns}
           /\ setNetworkNamespace("router") \in {None, router_ns}
<1>1. pidFile \in {Absent, Empty, InitPid, RouterPid} /\ router_ns \in {"main", "router"}
  BY DEF TypeOK
<1>2. pidFile = InitPid => router_ns = "main"
  BY DEF HandOver
<1>3. pidFile = RouterPid => router_ns = "router"
  BY DEF HandOver
<1>4. NamespaceOf(pidFile) \in {None, router_ns}
  BY <1>1, <1>2, <1>3, NamespaceFound
<1>5. QED
  BY <1>1, <1>4, NamespaceFound

\* Every step keeps the services and the bridge on the side of the script.
LEMMA SideStep ==
    TypeOK /\ HandOver /\ NothingStartedYet /\ SameSide /\ [Next]_vars
        => (NothingStartedYet /\ SameSide)'
<1> SUFFICES ASSUME TypeOK, HandOver, NothingStartedYet, SameSide, [Next]_vars
             PROVE  (NothingStartedYet /\ SameSide)'
  OBVIOUS
<1> USE DEF setup, devices, services, creatensVars
<1>1. /\ place \in [Devices -> {"main", "router", None}]
      /\ service \in [Services -> {"off", "exec", "begin", "serve"}]
      /\ serviceNs \in [Services -> {"main", "router", None}]
      /\ "br0" \in Devices
  BY DEF TypeOK, Devices
<1>2. CASE probeIptables
  BY <1>2 DEF probeIptables, Steps, NothingStartedYet, SameSide
<1>3. CASE CreatensRuns \/ CreatensEnds \/ HostAnswers \/ UNCHANGED vars
  BY <1>3 DEF CreatensRuns, CreatensEnds, HostAnswers, vars, NothingStartedYet, SameSide
<1>4. CASE removePidFile \/ startRouterNs \/ seePidFile \/ readPidFile \/ lookAtEth0
  BY <1>4 DEF removePidFile, startRouterNs, seePidFile, readPidFile, lookAtEth0, Steps,
     NothingStartedYet, SameSide
<1>5. CASE startAdbdProxy \/ startWifiServices \/ startIpv6Proxy
  BY <1>5 DEF startAdbdProxy, startWifiServices, startIpv6Proxy, Start, Steps,
     NothingStartedYet, SameSide
<1>6. CASE addBridge
  <2>1. /\ place'["br0"] \in {place["br0"], setNetworkNamespace(router_ns)}
        /\ script = "br0"
    BY <1>1, <1>6 DEF addBridge, Steps
  <2>2. place'["br0"] \in {None, router_ns}
    BY <2>1, EntersOwnSide DEF SameSide
  <2>3. QED
    BY <1>6, <2>2 DEF addBridge, Steps, NothingStartedYet, SameSide
<1>7. CASE createRadios \/ moveWlan1 \/ configureWlan1 \/ addRadio \/ configureRadio
           \/ moveEth0 \/ renameEth0
  <2>1. place'["br0"] = place["br0"]
    BY <1>1, <1>7 DEF createRadios, moveWlan1, configureWlan1, addRadio, configureRadio,
       moveEth0, renameEth0, Move, Configure
  <2>2. UNCHANGED <<router_ns, services>> /\ script' \notin {"iptables", "rm"}
    BY <1>7 DEF createRadios, moveWlan1, configureWlan1, addRadio, configureRadio,
       moveEth0, renameEth0, Steps
  <2>3. QED
    BY <2>1, <2>2 DEF NothingStartedYet, SameSide
<1>8. ASSUME NEW s \in Services, ServiceRuns(s) \/ ServiceDies(s)
      PROVE  (NothingStartedYet /\ SameSide)'
  <2>1. service[s] # "off"
    BY <1>8 DEF ServiceRuns, ServiceDies, execns, begin, dies
  <2>2. script \notin {"iptables", "rm"} /\ UNCHANGED <<script, router_ns, place>>
    BY <1>8, <2>1 DEF NothingStartedYet, ServiceRuns, ServiceDies
  <2>3. serviceNs'[s] \in {None, router_ns} /\ \A r \in Services \ {s} : serviceNs'[r] = serviceNs[r]
    <3>1. CASE ends(s)
      BY <1>1, <3>1 DEF ends
    <3>2. CASE serviceNs' = serviceNs
      BY <3>2 DEF SameSide
    <3>3. CASE serviceNs' = [serviceNs EXCEPT ![s] = setNetworkNamespace("router")]
      BY <1>1, <2>2, <3>3, EntersOwnSide
    <3>4. QED
      BY <1>8, <3>1, <3>2, <3>3 DEF ServiceRuns, ServiceDies, execns, begin, dies
  <2>4. QED
    BY <2>2, <2>3 DEF NothingStartedYet, SameSide
<1>9. QED
  BY <1>2, <1>3, <1>4, <1>5, <1>6, <1>7, <1>8 DEF Next, Script

\* The services and the bridge are in main when there is no router namespace, and never
\* there when there is one, however createns, the script and the restarts of the
\* services interleave and whichever of them fail (create_router_ns,
\* setNetworkNamespace).
THEOREM ServicesOnTheirSide == Spec => []SameSide
<1>1. Init => NothingStartedYet /\ SameSide
  BY DEF Init, NothingStartedYet, SameSide, Devices
<1>2. QED
  BY HandOverHolds, SideStep, <1>1, PTL DEF Spec

------------------------------------------------------------------------------
\* While the namespace that was handed over lives, devices and execns go there.
LEMMA RouterReached ==
    ASSUME HandOver, createns = "ready", router_pid = RouterPid
    PROVE  /\ router_ns = "router"
           /\ NamespaceOf(router_pid) = "router"
           /\ setNetworkNamespace(router_ns) = "router"
<1>1. router_ns = "router" /\ pidFile = RouterPid
  BY DEF HandOver
<1>2. QED
  BY <1>1, NamespaceFound

\* The namespace was handed over before a step that finds it handed over, except for
\* the one that reads the pid file.
LEMMA HandedOverBefore ==
    ASSUME TypeOK, HandOver, [Next]_vars, createns' = "ready", router_pid' = RouterPid,
           script # "cat"
    PROVE  createns = "ready" /\ router_pid = RouterPid
<1> USE DEF setup, creatensVars
<1>1. router_pid = RouterPid
  BY DEF Next, vars, CreatensRuns, CreatensEnds, HostAnswers, ServiceRuns, ServiceDies,
     Script, createRadios, probeIptables, removePidFile, startRouterNs, seePidFile,
     readPidFile, startAdbdProxy, moveWlan1, configureWlan1, addBridge, startWifiServices,
     addRadio, configureRadio, lookAtEth0, moveEth0, startIpv6Proxy, renameEth0, Steps
<1>2. createns \in {"ready", "ended"}
  BY <1>1 DEF HandOver
<1>3. createns # "ended"
  <2>1. CASE createns' = createns
    BY <2>1
  <2>2. CASE CreatensRuns \/ CreatensEnds
    BY <2>2 DEF CreatensRuns, CreatensEnds, unshare, mount, openPidFile, writePid,
       StepsCreatens, creatensFails, creatensKilled
  <2>3. CASE startRouterNs
    BY <2>3 DEF startRouterNs, Steps, HandOver
  <2>4. QED
    BY <2>1, <2>2, <2>3 DEF Next, vars, HostAnswers, ServiceRuns, ServiceDies,
       Script, createRadios, probeIptables, removePidFile, seePidFile,
       readPidFile, startAdbdProxy, moveWlan1, configureWlan1, addBridge,
       startWifiServices, addRadio, configureRadio, lookAtEth0, moveEth0,
       startIpv6Proxy, renameEth0
<1>4. QED
  BY <1>1, <1>2, <1>3

\* A device is moved to the namespace that was handed over, unless it does not exist or
\* the command fails.
LEMMA MoveReaches ==
    ASSUME TypeOK, HandOver, createns = "ready", router_pid = RouterPid,
           NEW d \in Devices, Move(d)
    PROVE  /\ script \in failed' \/ place'[d] \in {None, "router"}
           /\ \A e \in Devices \ {d} : place'[e] = place[e] /\ configured'[e] = configured[e]
<1>1. NamespaceOf(router_pid) = "router"
  BY RouterReached
<1>2. place \in [Devices -> {"main", "router", None}] /\ configured \in [Devices -> BOOLEAN]
  BY DEF TypeOK
<1>3. QED
  BY <1>1, <1>2 DEF Move, Fails, devices, None

\* A device that was moved there is configured by the commands execns runs, unless one
\* of them fails.
LEMMA ConfigureWorks ==
    ASSUME TypeOK, HandOver, createns = "ready", router_pid = RouterPid,
           NEW d \in Devices, Configure(d)
    PROVE  /\ place' = place
           /\ place[d] = "router" => script \in failed' \/ configured'[d]
           /\ \A e \in Devices \ {d} : configured'[e] = configured[e]
<1>1. setNetworkNamespace(router_ns) = "router"
  BY RouterReached
<1>2. configured \in [Devices -> BOOLEAN]
  BY DEF TypeOK
<1>3. QED
  BY <1>1, <1>2 DEF Configure, Fails, None

\* A failure is remembered: a device for which no command has failed after a step is one
\* for which none had failed before, and whose command did not fail in that step.
LEMMA CleanStays ==
    ASSUME [Next]_vars, NEW d \in Devices, d \in Clean'
    PROVE  d \in Clean /\ (script \in CommandsOf[d] => script \notin failed')
<1>1. Works \/ Fails => failed \subseteq failed'
  BY DEF Works, Fails, failures
<1>2. Script => failed \subseteq failed'
  BY <1>1 DEF Script, createRadios, moveWlan1, configureWlan1, addBridge, addRadio,
     configureRadio, moveEth0, renameEth0, Move, Configure, failures
<1>3. failed \subseteq failed'
  BY <1>2 DEF Next, CreatensRuns, CreatensEnds, HostAnswers, ServiceRuns, ServiceDies,
     vars, failures
<1>4. CommandsOf[d]' = CommandsOf[d]
  BY DEF CommandsOf
<1>5. QED
  BY <1>3, <1>4 DEF Clean

\* Every step keeps devices away before their command.
LEMMA NotMadeStep ==
    TypeOK /\ HandOver /\ NotMadeYet /\ [Next]_vars => NotMadeYet'
<1> SUFFICES ASSUME TypeOK, HandOver, NotMadeYet, [Next]_vars PROVE NotMadeYet'
  OBVIOUS
<1> USE DEF NotMadeYet, LateForEth0, LateForRadio0, LateForBr0, LateForWlan1, setup, devices
<1>1. place \in [Devices -> {"main", "router", None}]
      /\ {"eth0", "veth0", "wlan1", "br0", "radio0-peer"} = Devices
  BY DEF TypeOK, Devices
<1>2. CASE UNCHANGED <<script, router_ns, place>>
  BY <1>2
<1>3. CASE probeIptables
  BY <1>3 DEF probeIptables, Steps
<1>4. CASE UNCHANGED <<router_ns, place>> /\
           (removePidFile \/ startRouterNs \/ seePidFile \/ readPidFile \/ startAdbdProxy
            \/ startWifiServices \/ startIpv6Proxy \/ lookAtEth0)
  BY <1>4 DEF removePidFile, startRouterNs, seePidFile, readPidFile, startAdbdProxy,
     startWifiServices, startIpv6Proxy, lookAtEth0, Steps
<1>5. CASE createRadios
  BY <1>1, <1>5 DEF createRadios, Steps
<1>6. CASE moveWlan1
  BY <1>1, <1>6 DEF moveWlan1, Move, Steps
<1>7. CASE configureWlan1 \/ configureRadio
  BY <1>7 DEF configureWlan1, configureRadio, Configure, Steps
<1>8. CASE addBridge
  BY <1>1, <1>8 DEF addBridge, Steps
<1>9. CASE addRadio
  BY <1>1, <1>9 DEF addRadio, Steps
<1>10. CASE moveEth0
  BY <1>1, <1>10 DEF moveEth0, Move, Configure, Steps
<1>11. CASE renameEth0
  BY <1>1, <1>11 DEF renameEth0, Steps
<1>12. CASE CreatensRuns \/ CreatensEnds \/ HostAnswers \/ UNCHANGED vars
            \/ \E s \in Services : ServiceRuns(s) \/ ServiceDies(s)
  BY <1>2, <1>12 DEF CreatensRuns, CreatensEnds, HostAnswers, ServiceRuns, ServiceDies, vars
<1>13. UNCHANGED <<router_ns, place>> \/
       ~(removePidFile \/ startRouterNs \/ seePidFile \/ readPidFile \/ startAdbdProxy
         \/ startWifiServices \/ startIpv6Proxy \/ lookAtEth0)
  BY DEF removePidFile, startRouterNs, seePidFile, readPidFile, startAdbdProxy,
     startWifiServices, startIpv6Proxy, lookAtEth0
<1>14. QED
  BY <1>3, <1>4, <1>5, <1>6, <1>7, <1>8, <1>9, <1>10, <1>11, <1>12, <1>13 DEF Next, Script

\* Every step brings the devices on.
LEMMA DevicesStep ==
    TypeOK /\ HandOver /\ NotMadeYet /\ DevicesOnTheirWay /\ [Next]_vars
        => DevicesOnTheirWay'
<1> SUFFICES ASSUME TypeOK, HandOver, NotMadeYet, DevicesOnTheirWay, [Next]_vars,
                    createns' = "ready", router_pid' = RouterPid
             PROVE  DevicesOnTheirWay'
  BY DEF DevicesOnTheirWay
<1> USE DEF DevicesOnTheirWay, MovedAndUp, LateForEth0, LateForRadio0, LateForBr0,
            LateForWlan1, setup, devices
<1>1. CASE script = "cat" /\ script' \in {"cat", "adbd"}
  BY <1>1
<1>2. script = "cat" => script' \in {"cat", "adbd"}
  BY DEF Next, vars, CreatensRuns, CreatensEnds, HostAnswers, ServiceRuns, ServiceDies,
     Script, createRadios, probeIptables, removePidFile, startRouterNs, seePidFile,
     readPidFile, startAdbdProxy, moveWlan1, configureWlan1, addBridge, startWifiServices,
     addRadio, configureRadio, lookAtEth0, moveEth0, startIpv6Proxy, renameEth0, Steps
<1>3. CASE script # "cat"
  <2>1. createns = "ready" /\ router_pid = RouterPid
    BY <1>3, HandedOverBefore
  <2>2. /\ router_ns = "router" /\ NamespaceOf(router_pid) = "router"
        /\ setNetworkNamespace(router_ns) = "router"
    BY <2>1, RouterReached
  <2>3. /\ place \in [Devices -> {"main", "router", None}]
        /\ configured \in [Devices -> BOOLEAN]
        /\ {"eth0", "veth0", "wlan1", "br0", "radio0-peer"} = Devices
    BY DEF TypeOK, Devices
  <2>clean. /\ "eth0" \in Clean' =>
                 /\ "eth0" \in Clean
                 /\ script \in {"eth0 netns", "eth0 up"} => script \notin failed'
            /\ "wlan1" \in Clean' =>
                 /\ "wlan1" \in Clean
                 /\ script \in {"wlan1 netns", "wlan1 up"} => script \notin failed'
            /\ "br0" \in Clean' =>
                 /\ "br0" \in Clean
                 /\ script = "br0" => script \notin failed'
            /\ "radio0-peer" \in Clean' =>
                 /\ "radio0-peer" \in Clean
                 /\ script \in {"radio0", "radio0-peer up"} => script \notin failed'
    <3>1. ASSUME NEW d \in Devices, d \in Clean'
          PROVE  d \in Clean /\ (script \in CommandsOf[d] => script \notin failed')
      BY <3>1, CleanStays
    <3>2. QED
      BY <2>3, <3>1, Commands
  <2>4. CASE UNCHANGED <<script, devices>>
    BY <2>1, <2>4, <2>clean
  <2>5. CASE UNCHANGED devices /\
             (probeIptables \/ removePidFile \/ startRouterNs \/ seePidFile
              \/ readPidFile \/ startAdbdProxy \/ startWifiServices \/ startIpv6Proxy
              \/ lookAtEth0)
    BY <2>1, <2>5, <2>clean DEF probeIptables, removePidFile, startRouterNs, seePidFile,
       readPidFile, startAdbdProxy, startWifiServices, startIpv6Proxy, lookAtEth0, Steps, NotMadeYet
  <2>6. CASE createRadios
    BY <2>1, <2>3, <2>6, <2>clean DEF createRadios, Steps, NotMadeYet
  <2>7. CASE moveWlan1
    <3>1. /\ script = "wlan1 netns" /\ script' = "wlan1 up"
          /\ script \in failed' \/ place'["wlan1"] \in {None, "router"}
      BY <2>1, <2>3, <2>7, MoveReaches DEF moveWlan1, Steps
    <3>2. QED
      BY <2>clean, <3>1
  <2>8. CASE configureWlan1
    <3>1. script = "wlan1 up" /\ script' = "br0"
      BY <2>8 DEF configureWlan1, Steps
    <3>2. /\ place' = place
          /\ place["wlan1"] = "router" => script \in failed' \/ configured'["wlan1"]
      BY <2>1, <2>3, <2>8, ConfigureWorks DEF configureWlan1
    <3>3. QED
      BY <2>1, <2>clean, <3>1, <3>2
  <2>9. CASE addBridge
    <3>1. /\ script = "br0" /\ script' = "hostapd"
          /\ script \in failed' \/ (place'["br0"] = "router" /\ configured'["br0"])
          /\ place'["wlan1"] = place["wlan1"] /\ configured'["wlan1"] = configured["wlan1"]
      BY <2>2, <2>3, <2>9 DEF addBridge, Fails, Steps, None
    <3>2. QED
      BY <2>1, <2>clean, <3>1
  <2>10. CASE addRadio
    <3>1. /\ script = "radio0" /\ script' \in {"radio0-peer up", "eth0"} /\ configured' = configured
      BY <2>10 DEF addRadio, Steps
    <3>2. \/ place' = place
          \/ /\ script' = "radio0-peer up"
             /\ place' = [place EXCEPT !["radio0-peer"] = NamespaceOf(router_pid)]
      BY <2>10 DEF addRadio, Steps
    <3>3. /\ place'["radio0-peer"] = None \/
             (script' = "radio0-peer up" /\ place'["radio0-peer"] = "router")
          /\ place'["br0"] = place["br0"] /\ place'["wlan1"] = place["wlan1"]
      BY <2>2, <2>3, <3>1, <3>2 DEF NotMadeYet
    <3>4. QED
      BY <2>1, <2>clean, <3>1, <3>3
  <2>11. CASE configureRadio
    <3>1. script = "radio0-peer up" /\ script' = "eth0"
      BY <2>11 DEF configureRadio, Steps
    <3>2. /\ place' = place
          /\ place["radio0-peer"] = "router" => script \in failed' \/ configured'["radio0-peer"]
          /\ configured'["br0"] = configured["br0"] /\ configured'["wlan1"] = configured["wlan1"]
      BY <2>1, <2>3, <2>11, ConfigureWorks DEF configureRadio
    <3>3. QED
      BY <2>1, <2>clean, <3>1, <3>2
  <2>12. CASE moveEth0
    <3>1. CASE Steps("eth0 netns", "eth0 up") /\ Move("eth0")
      <4>1. /\ script \in failed' \/ place'["eth0"] \in {None, "router"}
            /\ \A e \in Devices \ {"eth0"} : place'[e] = place[e] /\ configured'[e] = configured[e]
        BY <2>1, <2>3, <3>1, MoveReaches
      <4>2. QED
        BY <2>1, <2>3, <2>clean, <3>1, <4>1 DEF Steps
    <3>2. CASE Steps("eth0 up", "ipv6proxy") /\ Configure("eth0")
      <4>1. /\ place' = place
            /\ place["eth0"] = "router" => script \in failed' \/ configured'["eth0"]
            /\ \A e \in Devices \ {"eth0"} : configured'[e] = configured[e]
        BY <2>1, <2>3, <3>2, ConfigureWorks
      <4>2. QED
        BY <2>1, <2>3, <2>clean, <3>2, <4>1 DEF Steps
    <3>3. QED
      BY <2>12, <3>1, <3>2 DEF moveEth0
  <2>13. CASE renameEth0
    BY <2>2, <2>13 DEF renameEth0
  <2>14. CASE CreatensRuns \/ CreatensEnds \/ HostAnswers \/ UNCHANGED vars
              \/ \E s \in Services : ServiceRuns(s) \/ ServiceDies(s)
    BY <2>4, <2>14 DEF CreatensRuns, CreatensEnds, HostAnswers, ServiceRuns, ServiceDies, vars
  <2>15. UNCHANGED devices \/
         ~(probeIptables \/ removePidFile \/ startRouterNs \/ seePidFile
           \/ readPidFile \/ startAdbdProxy \/ startWifiServices \/ startIpv6Proxy
           \/ lookAtEth0)
    BY DEF probeIptables, removePidFile, startRouterNs, seePidFile, readPidFile,
       startAdbdProxy, startWifiServices, startIpv6Proxy, lookAtEth0
  <2>16. QED
    BY <2>5, <2>6, <2>7, <2>8, <2>9, <2>10, <2>11, <2>12, <2>13, <2>14, <2>15
       DEF Next, Script
<1>4. QED
  BY <1>1, <1>2, <1>3

\* A script that read the pid of createns and came to its end while createns lives has
\* every device it made or moved in the router namespace, and configured, unless one of
\* the commands for that very device failed, whichever others did (init_wlan, init_radio
\* and the commands for eth0).
THEOREM ScriptEndsConfigured == Spec => []EndsConfigured
<1>1. Init => NotMadeYet /\ DevicesOnTheirWay
  BY DEF Init, NotMadeYet, DevicesOnTheirWay, LateForEth0, LateForRadio0, LateForBr0,
     LateForWlan1, Devices
<1>2. TypeOK /\ HandOver /\ NotMadeYet /\ DevicesOnTheirWay => EndsConfigured
  <2> SUFFICES ASSUME TypeOK, HandOver, NotMadeYet, DevicesOnTheirWay,
                      script = "done", router_ns = "router", createns = "ready",
                      router_pid # Empty, NEW d \in Devices, place[d] # None, d \in Clean
               PROVE  place[d] = "router" /\ configured[d]
    BY DEF EndsConfigured, Clean
  <2>1. router_pid = RouterPid
    BY DEF TypeOK, HandOver
  <2>2. d # "veth0"
    BY DEF NotMadeYet
  <2>3. QED
    BY <2>1, <2>2 DEF DevicesOnTheirWay, MovedAndUp, LateForEth0, LateForRadio0, LateForBr0,
       LateForWlan1, Devices
<1>3. QED
  BY HandOverHolds, NotMadeStep, DevicesStep, <1>1, <1>2, PTL DEF Spec
===============================================================================
