--------------------------- MODULE PortAllocation ---------------------------
(***************************************************************************)
(* What callers of the registry rely on: the first AddService of a name    *)
(* hands out a port nobody else holds, and every later AddService of the   *)
(* name, in this process or in a later one, hands out the same port.       *)
(***************************************************************************)
EXTENDS Integers

CONSTANTS Service, BasePort

VARIABLE granted    \* the ports AddService has returned, per service

Init == granted = [s \in Service |-> {}]

\* A single port nobody else holds: what one call may add for s.
FreshPort(ports) ==
    \E port \in ports :
        /\ ports = {port}
        /\ port >= BasePort
        /\ \A t \in Service : port \notin granted[t]

Grant(s) ==
    /\ granted[s] = {}
    /\ FreshPort(granted'[s])
    /\ granted' = [granted EXCEPT ![s] = granted'[s]]

Next == \E s \in Service : Grant(s)

Spec == Init /\ [][Next]_granted
=============================================================================
