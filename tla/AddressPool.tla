----------------------------- MODULE AddressPool -----------------------------
(***************************************************************************)
(* What the DHCP server promises about addresses, without saying how it    *)
(* picks them: every (interface, MAC address) pair gets at most one        *)
(* address, an address of an interface goes to one MAC address only, a     *)
(* granted address stays granted, and everything is forgotten at once when *)
(* the server process is replaced (its leases live in memory only).        *)
(***************************************************************************)
EXTENDS Naturals

CONSTANTS Interfaces, Macs,
          Usable(_)            \* the addresses interface i may hand out

VARIABLE pool                  \* (interface, MAC) -> address, 0 when none

Nobody == [k \in Interfaces \X Macs |-> 0]

Init == pool = Nobody

Taken(i) == {pool[<<i, m>>] : m \in Macs}

Grant(i, m) ==
    /\ pool[<<i, m>>] = 0
    /\ \E a \in Usable(i) \ Taken(i) : pool' = [pool EXCEPT ![<<i, m>>] = a]

Forget == pool' = Nobody

Next == \/ \E i \in Interfaces, m \in Macs : Grant(i, m)
        \/ Forget

Spec == Init /\ [][Next]_pool
==============================================================================
