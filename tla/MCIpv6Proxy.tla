---------------------------- MODULE MCIpv6Proxy ----------------------------
(* The interfaces of redroid.ext.rc, with one host on each inner one, of   *)
(* which the first has no address yet, and option lists with every case of *)
(* the walk: more servers than properties, two RDNSS options, an option    *)
(* that does not fit and one of length zero.                               *)
EXTENDS Ipv6Proxy
CONSTANTS eth0, br0, radio0, any, host, router, s1, s2

MCInnerIfs == <<br0, radio0>>
MCSources == [i \in {eth0, br0, radio0} |->
    IF i = eth0 THEN {router} ELSE IF i = br0 THEN {any} ELSE {host}]

Source == [type |-> "SourceLink", link |-> "sender"]
Target == [type |-> "TargetLink", link |-> "sender"]
Rdnss(servers) == [type |-> "Rdnss", servers |-> servers]

MCOptionLists == {
    <<Source, Target, Source, Target>>,
    <<Rdnss(<<s1>>), Target, Source>>,
    <<Rdnss(<<s1, s2, s1, s2, s1>>), Rdnss(<<s2>>), [type |-> "Beyond"], Target>>,
    <<Target, [type |-> "Zero"], Rdnss(<<s2>>)>> }
=============================================================================
