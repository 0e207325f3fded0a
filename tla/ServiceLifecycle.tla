-------------------------- MODULE ServiceLifecycle --------------------------
(***************************************************************************)
(* What simla promises about one service, through any number of processes: *)
(* its container, and the container id that the file keeps for it, change  *)
(* only inside a start or a stop of that service; a service that is on is  *)
(* served by the container its id names; a service that is stopped has     *)
(* none.  Nothing is promised of a service on which two operations of one  *)
(* process have met, until that process ends.                              *)
(***************************************************************************)
EXTENDS Integers

CONSTANTS Service, ContainerId, NoId

VARIABLES phase,  \* unsettled: never started, or its last operation failed;
                  \* entangled: two operations have met
          box,    \* the container that runs for the service, or NoId
          id      \* the container id on record

vars == <<phase, box, id>>

Phase == {"unsettled", "busy", "on", "stopped", "entangled"}

Init ==
    /\ phase = [s \in Service |-> "unsettled"]
    /\ box = [s \in Service |-> NoId]
    /\ id = [s \in Service |-> NoId]

\* Only s changes.
Touches(s) ==
    /\ phase' = [phase EXCEPT ![s] = phase'[s]]
    /\ box' = [box EXCEPT ![s] = box'[s]]
    /\ id' = [id EXCEPT ![s] = id'[s]]

Begin(s) ==
    /\ phase[s] \notin {"busy", "entangled"}
    /\ phase'[s] = "busy"
    /\ Touches(s)
    /\ UNCHANGED <<box, id>>

Work(s) ==
    /\ phase[s] = "busy"
    /\ phase'[s] = "busy"
    /\ Touches(s)
    /\ box'[s] # NoId => \A t \in Service \ {s} : box[t] # box'[s]

Settle(s) ==
    /\ phase[s] = "busy"
    /\ phase'[s] \in Phase \ {"busy", "entangled"}
    /\ phase'[s] = "on" => id'[s] = box'[s] /\ box'[s] # NoId
    /\ phase'[s] = "stopped" => box'[s] = NoId
    /\ Touches(s)

\* An operation on some services begins while others on them are going on.
Meet ==
    /\ \E met \in SUBSET Service :
         phase' = [s \in Service |-> IF s \in met THEN "entangled" ELSE phase[s]]
    /\ UNCHANGED <<box, id>>

\* Anything may become of an entangled service, but it can have no container
\* of another one.
Tangle(s) ==
    /\ phase[s] = "entangled"
    /\ phase'[s] = "entangled"
    /\ Touches(s)
    /\ box'[s] # NoId => \A t \in Service \ {s} : box[t] # box'[s]

\* The process ends, whatever it is doing: what is on stays on, and nobody
\* knows it.
Forget ==
    /\ phase' = [s \in Service |-> "unsettled"]
    /\ UNCHANGED <<box, id>>

Next ==
    \/ \E s \in Service : Begin(s) \/ Work(s) \/ Settle(s) \/ Tangle(s)
    \/ Meet
    \/ Forget

Spec == Init /\ [][Next]_vars
=============================================================================
