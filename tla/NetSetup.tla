------------------------------- MODULE NetSetup -------------------------------
(***************************************************************************)
(* The set-up of the network at boot: the script init.redroid.net.sh,      *)
(* createns, which makes the router namespace and hands it over through a  *)
(* pid file, the services that enter the namespace with execns, and init,  *)
(* which starts and restarts them (redroid.ext.rc).  The script, createns  *)
(* and the services run concurrently.                                      *)
(*                                                                         *)
(* There are two namespaces, "main" (that of process 1) and "router".  A   *)
(* process other than createns is only told apart by the namespace it is   *)
(* in; a few digits are written to a file in one piece.                    *)
(***************************************************************************)
EXTENDS Naturals

CONSTANTS
    Retries,        \* 20 in the script: looks at eth0 before it gives up
    MaxFaults       \* bound: commands and calls that fail by themselves, and
                    \* processes that are killed

ASSUME SetupAssumption == Retries \in Nat \ {0} /\ MaxFaults \in Nat

VARIABLES
    config,         \* is iptables usable; are wifi and radio asked for
    uplink,         \* what the host has given eth0 so far
    script,         \* the next command of the script, "done", or "exit"
    tries,          \* looks at eth0 so far
    router_ns, router_pid,      \* the variables of the script
    createns,       \* the next step of createns, "off" before, "ended" after
    pidFile,        \* content of netns/router.pid
    place,          \* the namespace of each device
    configured,     \* the commands that bring the device up have worked
    service,        \* what the process of each service is about to do
    serviceNs,      \* the namespace it is in
    faults,
    failed          \* history: the commands of the script that failed by themselves

setup == <<config, router_ns, router_pid, tries>>
devices == <<place, configured>>
services == <<service, serviceNs>>
failures == <<faults, failed>>
vars == <<setup, uplink, script, createns, pidFile, devices, services, failures>>

None == "none"

\* Pids, as the contents of pid files.
Absent    == "absent"
Empty     == "empty"
InitPid   == "1"
RouterPid == "pid of createns"

Devices  == {"eth0", "veth0", "wlan1", "br0", "radio0-peer"}
Services == {"adbd_proxy", "hostapd", "dhcpserver", "ipv6proxy"}
Oneshot  == {"adbd_proxy"}

\* The namespace /proc/<pid>/ns/net leads to: the process has to be alive.
NamespaceOf(pid) ==
    IF pid = InitPid THEN "main"
    ELSE IF pid = RouterPid /\ createns # "ended" THEN "router"
    ELSE None

\* setNetworkNamespace: the namespace execns enters, None when it fails.  The file
\* main.pid is written once, by init, and names process 1.
setNetworkNamespace(ns) == NamespaceOf(IF ns = "main" THEN InitPid ELSE pidFile)

Fault == faults < MaxFaults /\ faults' = faults + 1

------------------------------------------------------------------------------
\* At boot init has written 1 to both pid files and started the script.
Init ==
    /\ config \in {f \in [{"iptables", "wifi", "radio"} -> BOOLEAN] : f["wifi"] \/ f["radio"]}
    /\ uplink = "none"
    /\ script = "iptables"
    /\ tries = 0
    /\ router_ns = "main"
    /\ router_pid = InitPid
    /\ createns = "off"
    /\ pidFile = InitPid
    /\ place = [d \in Devices |-> IF d = "eth0" THEN "main" ELSE None]
    /\ configured = [d \in Devices |-> FALSE]
    /\ service = [s \in Services |-> "off"]
    /\ serviceNs = [s \in Services |-> None]
    /\ faults = 0 /\ failed = {}

------------------------------------------------------------------------------
\* createns.

creatensVars == <<createns, pidFile>>

StepsCreatens(from, to) == createns = from /\ createns' = to

\* unshare, and the mount of the new namespace on its name: no one reads the name.
unshare == StepsCreatens("unshare", "mount") /\ UNCHANGED <<pidFile, faults>>
mount   == StepsCreatens("mount", "open") /\ UNCHANGED <<pidFile, faults>>

\* writeNamespacePid makes the file, or empties it, and then writes the pid; an
\* interrupted write is repeated.
openPidFile ==
    /\ StepsCreatens("open", "write")
    /\ pidFile' = Empty
    /\ UNCHANGED faults

writePid ==
    /\ StepsCreatens("write", "ready")
    /\ pidFile' = RouterPid
    /\ UNCHANGED faults

\* A call fails: createns ends, and takes the pid file with it if it was made.
creatensFails ==
    /\ createns \in {"unshare", "mount", "open", "write"}
    /\ Fault
    /\ pidFile' = IF createns = "write" THEN Absent ELSE pidFile
    /\ createns' = "ended"

\* It is killed; nobody starts it again.
creatensKilled ==
    /\ createns \notin {"off", "ended"}
    /\ Fault
    /\ createns' = "ended"
    /\ UNCHANGED pidFile

CreatensRuns ==
    /\ unshare \/ mount \/ openPidFile \/ writePid
    /\ UNCHANGED <<setup, uplink, script, devices, services, failed>>

CreatensEnds ==
    /\ creatensFails \/ creatensKilled
    /\ UNCHANGED <<setup, uplink, script, devices, services, failed>>

------------------------------------------------------------------------------
\* The script.  A command that fails is passed over.

Steps(from, to) == script = from /\ script' = to

\* A command that works on a device does what it can, or fails by itself.
Works == UNCHANGED failures
Fails == Fault /\ failed' = failed \cup {script}

\* ctl.start: init starts the process of the service.
Start(S) == /\ service' = [s \in Services |-> IF s \in S THEN "exec" ELSE service[s]]
            /\ UNCHANGED serviceNs

\* Devices moved to the namespace of router_pid: nothing happens without a device,
\* without a pid or when the command fails.  A device that changes its namespace
\* loses its configuration.
Move(d) ==
    LET ns == NamespaceOf(router_pid)
        moves == place[d] # None /\ ns \notin {None, place[d]}
    IN  \/ /\ Works /\ moves
           /\ place' = [place EXCEPT ![d] = ns]
           /\ configured' = [configured EXCEPT ![d] = FALSE]
        \/ Works /\ ~moves /\ UNCHANGED devices
        \/ Fails /\ UNCHANGED devices

\* Commands run by execns that address and bring up a device of the namespace; one
\* that fails leaves the device without its configuration.
Configure(d) ==
    /\ \/ /\ Works
          /\ configured' = [configured EXCEPT ![d] =
                 @ \/ (place[d] # None /\ place[d] = setNetworkNamespace(router_ns))]
       \/ Fails /\ UNCHANGED configured
    /\ UNCHANGED place

\* iptables works: use the router namespace.
probeIptables ==
    /\ \/ /\ config["iptables"] /\ Steps("iptables", "rm") /\ router_ns' = "router"
       \/ /\ ~config["iptables"] /\ Steps("iptables", "radios") /\ UNCHANGED router_ns
    /\ UNCHANGED <<config, router_pid, tries, creatensVars, devices, services>>

\* Mutation: the pid file init wrote is left in place.
removePidFileNot ==
    /\ Steps("rm", "start")
    /\ UNCHANGED <<setup, creatensVars, devices, services>>

\* create_router_ns: remove the pid file init wrote, start createns, look for the
\* new file every second, and read it.
removePidFile ==
    /\ Steps("rm", "start")
    /\ pidFile' = Absent
    /\ UNCHANGED <<setup, createns, devices, services>>

\* Mutation: the old file is removed after createns was started.
startRouterNsFirst ==
    /\ \/ Steps("start", "rm again") /\ createns' = "unshare" /\ UNCHANGED pidFile
       \/ Steps("rm again", "wait") /\ pidFile' = Absent /\ UNCHANGED createns
    /\ UNCHANGED <<setup, devices, services>>

startRouterNs ==
    /\ Steps("start", "wait")
    /\ createns' = "unshare"
    /\ UNCHANGED <<setup, pidFile, devices, services>>

seePidFile ==
    /\ Steps("wait", "cat")
    /\ pidFile # Absent
    /\ UNCHANGED <<setup, creatensVars, devices, services>>

\* What cat prints: nothing when the file is empty, or was removed meanwhile.
readPidFile ==
    /\ Steps("cat", "adbd")
    /\ router_pid' = IF pidFile = Absent THEN Empty ELSE pidFile
    /\ UNCHANGED <<config, router_ns, tries, creatensVars, devices, services>>

startAdbdProxy ==
    /\ Steps("adbd", "radios")
    /\ Start({"adbd_proxy"})
    /\ UNCHANGED <<setup, creatensVars, devices>>

\* init_wlan: create_radios asks the kernel for two radios.  When it cannot ask
\* init_wlan goes no further; whether the kernel agrees nobody looks at.
createRadios ==
    /\ \/ /\ config["wifi"] /\ Steps("radios", "wlan1 netns")
          /\ place' = [place EXCEPT !["wlan1"] = "main"]
          /\ UNCHANGED faults
       \/ /\ config["wifi"] /\ Steps("radios", "wlan1 netns") /\ Fault /\ UNCHANGED place
       \/ /\ config["wifi"] /\ Steps("radios", "radio0") /\ Fault /\ UNCHANGED place
       \/ /\ ~config["wifi"] /\ Steps("radios", "radio0") /\ UNCHANGED <<place, faults>>
    /\ UNCHANGED <<setup, creatensVars, configured, services, failed>>

moveWlan1 ==
    /\ Steps("wlan1 netns", "wlan1 up")
    /\ Move("wlan1")
    /\ UNCHANGED <<setup, creatensVars, services>>

configureWlan1 ==
    /\ Steps("wlan1 up", "br0")
    /\ Configure("wlan1")
    /\ UNCHANGED <<setup, creatensVars, services>>

\* The bridge is made where execns runs, then addressed, brought up and masqueraded;
\* the first of these commands may fail, or a later one.
addBridge ==
    /\ Steps("br0", "hostapd")
    /\ \/ /\ place' = [place EXCEPT !["br0"] = setNetworkNamespace(router_ns)]
          /\ \/ Works /\ configured' = [configured EXCEPT !["br0"] = place'["br0"] # None]
             \/ Fails /\ UNCHANGED configured
       \/ Fails /\ UNCHANGED devices
    /\ UNCHANGED <<setup, creatensVars, services>>

startWifiServices ==
    /\ Steps("hostapd", "radio0")
    /\ Start({"hostapd", "dhcpserver"})
    /\ UNCHANGED <<setup, creatensVars, devices>>

\* init_radio: a pair of devices with one end in the router, or a bridge in main.
addRadio ==
    /\ \/ /\ config["radio"] /\ router_ns = "router"
          /\ Steps("radio0", "radio0-peer up")
          /\ \/ Works /\ place' = [place EXCEPT !["radio0-peer"] = NamespaceOf(router_pid)]
             \/ Fails /\ UNCHANGED place
       \/ /\ ~(config["radio"] /\ router_ns = "router")
          /\ Steps("radio0", "eth0")
          /\ Works /\ UNCHANGED place
    /\ UNCHANGED <<setup, creatensVars, configured, services>>

configureRadio ==
    /\ Steps("radio0-peer up", "eth0")
    /\ Configure("radio0-peer")
    /\ UNCHANGED <<setup, creatensVars, services>>

\* Mutation: the number of looks has no limit.
lookAtEth0Forever ==
    /\ \/ uplink = "gateway" /\ Steps("eth0", "eth0 netns") /\ UNCHANGED tries
       \/ uplink # "gateway" /\ Steps("eth0", "eth0") /\ tries' = tries + 1
    /\ UNCHANGED <<config, router_ns, router_pid, creatensVars, devices, services>>

\* The script goes on when it has found both the address and the gateway of eth0,
\* looks again a second later, or exits after the last look.
lookAtEth0 ==
    /\ \/ /\ uplink = "gateway" /\ Steps("eth0", "eth0 netns") /\ UNCHANGED tries
       \/ /\ uplink # "gateway" /\ tries + 1 < Retries
          /\ Steps("eth0", "eth0") /\ tries' = tries + 1
       \/ /\ uplink # "gateway" /\ tries + 1 = Retries
          /\ Steps("eth0", "exit") /\ tries' = tries + 1
    /\ UNCHANGED <<config, router_ns, router_pid, creatensVars, devices, services>>

\* Mutation: eth0 is brought up before it is moved.
moveEth0Late ==
    /\ router_ns = "router"
    /\ \/ Steps("eth0 netns", "eth0 up") /\ Configure("eth0")
       \/ Steps("eth0 up", "ipv6proxy") /\ Move("eth0")
    /\ UNCHANGED <<setup, creatensVars, services>>

moveEth0 ==
    /\ router_ns = "router"
    /\ \/ Steps("eth0 netns", "eth0 up") /\ Move("eth0")
       \/ Steps("eth0 up", "ipv6proxy") /\ Configure("eth0")
    /\ UNCHANGED <<setup, creatensVars, services>>

startIpv6Proxy ==
    /\ Steps("ipv6proxy", "done")
    /\ Start({"ipv6proxy"})
    /\ UNCHANGED <<setup, creatensVars, devices>>

\* Without the router namespace eth0 stays, under the name veth0, unless the command
\* that renames it or a later one fails.
renameEth0 ==
    /\ router_ns = "main"
    /\ Steps("eth0 netns", "done")
    /\ \/ /\ place' = [place EXCEPT !["eth0"] = None, !["veth0"] = "main"]
          /\ \/ Works /\ configured' = [configured EXCEPT !["veth0"] = TRUE]
             \/ Fails /\ UNCHANGED configured
       \/ Fails /\ UNCHANGED devices
    /\ UNCHANGED <<setup, creatensVars, services>>

Script ==
    /\ \/ createRadios \/ moveWlan1 \/ configureWlan1 \/ addBridge
       \/ addRadio \/ configureRadio \/ moveEth0 \/ renameEth0
       \/ /\ \/ probeIptables \/ removePidFile \/ startRouterNs \/ seePidFile
             \/ readPidFile \/ startAdbdProxy \/ startWifiServices \/ lookAtEth0
             \/ startIpv6Proxy
          /\ UNCHANGED failures
    /\ UNCHANGED uplink

\* The host gives eth0 its address, then the gateway.
HostAnswers ==
    /\ \/ uplink = "none" /\ uplink' = "address"
       \/ uplink = "address" /\ uplink' = "gateway"
    /\ UNCHANGED <<setup, script, creatensVars, devices, services, failures>>

------------------------------------------------------------------------------
\* The services.

\* What a program needs of its namespace before it does its work: hostapd its
\* radio, the DHCP server the index of the interface to exclude, the proxy its
\* outer and one inner interface.
Finds(s, ns) ==
    LET Here(d) == place[d] = ns
    IN  CASE s = "hostapd"    -> Here("wlan1")
          [] s = "dhcpserver" -> Here("eth0")
          [] s = "ipv6proxy"  -> Here("eth0") /\ (Here("br0") \/ Here("radio0-peer"))
          [] OTHER            -> TRUE

\* Mutation: init starts no service twice.
endsForGood(s) ==
    /\ service' = [service EXCEPT ![s] = "off"]
    /\ serviceNs' = [serviceNs EXCEPT ![s] = None]

\* The process ends: init starts the service again unless it is a oneshot.
ends(s) ==
    /\ service' = [service EXCEPT ![s] = IF s \in Oneshot THEN "off" ELSE "exec"]
    /\ serviceNs' = [serviceNs EXCEPT ![s] = None]

\* execns enters the router namespace (every service names that one) and becomes
\* the program, or fails.
execns(s) ==
    /\ service[s] = "exec"
    /\ LET ns == setNetworkNamespace("router")
       IN  IF ns = None THEN ends(s)
           ELSE /\ service' = [service EXCEPT ![s] = "begin"]
                /\ serviceNs' = [serviceNs EXCEPT ![s] = ns]
    /\ UNCHANGED faults

begin(s) ==
    /\ service[s] = "begin"
    /\ IF Finds(s, serviceNs[s])
       THEN service' = [service EXCEPT ![s] = "serve"] /\ UNCHANGED serviceNs
       ELSE ends(s)
    /\ UNCHANGED faults

dies(s) ==
    /\ service[s] # "off"
    /\ Fault
    /\ ends(s)

ServiceRuns(s) ==
    /\ execns(s) \/ begin(s)
    /\ UNCHANGED <<setup, uplink, script, creatensVars, devices, failed>>

ServiceDies(s) ==
    /\ dies(s)
    /\ UNCHANGED <<setup, uplink, script, creatensVars, devices, failed>>

------------------------------------------------------------------------------
Next == \/ CreatensRuns \/ CreatensEnds \/ Script \/ HostAnswers
        \/ \E s \in Services : ServiceRuns(s) \/ ServiceDies(s)

\* The processes run, and init goes on restarting the services.  Nobody promises
\* that the host answers.
Fairness ==
    /\ WF_vars(CreatensRuns)
    /\ WF_vars(Script)
    /\ \A s \in Services : WF_vars(ServiceRuns(s))

Spec == Init /\ [][Next]_vars

FairSpec == Spec /\ Fairness

------------------------------------------------------------------------------
\* Properties.

\* The commands that make, move, address and bring up a device.
CommandsOf ==
    [d \in Devices |->
        CASE d = "eth0"        -> {"eth0 netns", "eth0 up"}
          [] d = "veth0"       -> {"eth0 netns"}
          [] d = "wlan1"       -> {"wlan1 netns", "wlan1 up"}
          [] d = "br0"         -> {"br0"}
          [] d = "radio0-peer" -> {"radio0", "radio0-peer up"}]

DeviceCommands == UNION {CommandsOf[d] : d \in Devices}

TypeOK ==
    /\ config \in [{"iptables", "wifi", "radio"} -> BOOLEAN]
    /\ uplink \in {"none", "address", "gateway"}
    /\ tries \in 0..Retries
    /\ router_ns \in {"main", "router"}
    /\ router_pid \in {Empty, InitPid, RouterPid}
    /\ createns \in {"off", "unshare", "mount", "open", "write", "ready", "ended"}
    /\ pidFile \in {Absent, Empty, InitPid, RouterPid}
    /\ place \in [Devices -> {"main", "router", None}]
    /\ configured \in [Devices -> BOOLEAN]
    /\ service \in [Services -> {"off", "exec", "begin", "serve"}]
    /\ serviceNs \in [Services -> {"main", "router", None}]
    /\ faults \in 0..MaxFaults /\ failed \subseteq DeviceCommands

\* The services, which all name the router namespace, run where the script puts the
\* bridge and means to put the devices: in main when there is no router namespace,
\* and never there when there is one, however createns and the starts interleave
\* (create_router_ns, setNetworkNamespace).
SameSide ==
    /\ \A s \in Services : serviceNs[s] \in {None, router_ns}
    /\ place["br0"] \in {None, router_ns}

\* "Create a namespace named router and move eth0 to it" (the head of the script): a
\* script that has come to its end has moved eth0 and set it up.
EthMoved ==
    script = "done" /\ router_ns = "router" /\ createns = "ready" =>
        place["eth0"] = "router" /\ configured["eth0"]

\* When the script read a pid that names a process to the end, every device it made
\* or moved is in the router namespace and configured, unless a command for that
\* very device failed: a command that fails, which the script passes over, takes no
\* other device with it.
EndsConfigured ==
    script = "done" /\ router_ns = "router" /\ createns = "ready" /\ router_pid # Empty =>
        \A d \in Devices : place[d] # None /\ CommandsOf[d] \cap failed = {} =>
            place[d] = "router" /\ configured[d]

\* The script comes to an end, unless createns fails (create_router_ns waits for the
\* pid file without a limit).
ScriptEnds == <>(script \in {"done", "exit"} \/ createns = "ended")

\* In the router namespace every service init restarts comes to serve in the end:
\* also the DHCP server, which is started before eth0, the interface it needs to
\* find, is there (its main), and services whose execns met an empty pid file.  What
\* a refused radio, or a failed command that makes or moves its interface, leaves
\* without one is excepted.
ServicesComeUp ==
    \A s \in Services \ Oneshot :
        service[s] # "off" ~> \/ service[s] = "serve"
                              \/ createns = "ended" \/ script = "exit"
                              \/ router_pid = Empty \/ router_ns = "main"
                              \/ s = "hostapd" /\ place["wlan1"] = None
                              \/ s = "hostapd" /\ "wlan1 netns" \in failed
                              \/ s \in {"dhcpserver", "ipv6proxy"} /\ "eth0 netns" \in failed
                              \/ s = "ipv6proxy" /\ {place["br0"], place["radio0-peer"]} = {None}
==============================================================================
