------------------------------ MODULE Registry ------------------------------
(***************************************************************************)
(* The service registry as a value (internal/registry): the map from       *)
(* service names to entries and the port counter, and what each method of  *)
(* ServiceRegistry does to them.  The modules that hold a registry in a    *)
(* variable (RegistryStore, Scheduler) take their steps from here.         *)
(*                                                                         *)
(* The methods of one registry are serialised by its mutex, so that each   *)
(* operator below is one atomic change of the in-memory value.  What is    *)
(* not serialised, the write of the file, belongs to RegistryStore.        *)
(***************************************************************************)
EXTENDS Services

CONSTANTS BasePort,     \* NewRegistry's first port (9000)
          NoEntry,      \* "the map has no such key"
          NoId          \* the empty container id

ASSUME BasePortAssumption == BasePort \in Nat

\* The persisted part of an entry; Status and Healthy carry yaml:"-".
Stored == [id : ContainerId \cup {NoId}, port : Int]

\* "unset" is Go's zero value of Status: what a loaded entry holds.
Status == {"unset", "pending", "running", "stopped", "failed"}

Entry == [id : ContainerId \cup {NoId}, port : Int, status : Status,
          healthy : BOOLEAN]

ASSUME NoIdAssumption == NoId \notin ContainerId

ASSUME NoEntryAssumption == NoEntry \notin Entry /\ NoEntry \notin Stored

RegistryType == [last : Int, services : [Service -> Entry \cup {NoEntry}]]
FileType == [last : Int, services : [Service -> Stored \cup {NoEntry}]]

NewRegistry == [last     |-> BasePort - 1,
                services |-> [s \in Service |-> NoEntry]]

\* GetService and the existence tests of the other methods.
Has(r, s) == r.services[s] # NoEntry

-----------------------------------------------------------------------------
(* The methods *)

\* Variant with a bug: the counter is read and never advanced.
AddEntryCounterKept(r, s) ==
    IF Has(r, s) THEN r
    ELSE [r EXCEPT !.services[s] = [id |-> NoId, port |-> r.last + 1,
                                    status |-> "pending", healthy |-> FALSE]]

\* Variant with a bug: a service that is registered gets a new port.
AddEntryAgain(r, s) ==
    [last     |-> r.last + 1,
     services |-> [r.services EXCEPT ![s] = [id |-> NoId, port |-> r.last + 1,
                                             status |-> "pending",
                                             healthy |-> FALSE]]]

\* AddService without its Save: an existing entry keeps its port, a new one
\* gets the port after the last one allocated.
AddEntry(r, s) ==
    IF Has(r, s) THEN r
    ELSE [last     |-> r.last + 1,
          services |-> [r.services EXCEPT ![s] =
                           [id |-> NoId, port |-> r.last + 1,
                            status |-> "pending", healthy |-> FALSE]]]

SetStatus(r, s, status) ==
    IF Has(r, s) THEN [r EXCEPT !.services[s].status = status] ELSE r

SetHealth(r, s, healthy) ==
    IF Has(r, s) THEN [r EXCEPT !.services[s].healthy = healthy] ELSE r

\* UpdateContainerID without its Save.
SetContainerID(r, s, id) ==
    IF Has(r, s) THEN [r EXCEPT !.services[s].id = id] ELSE r

-----------------------------------------------------------------------------
(* The file's content and what Load makes of it *)

Persisted(r) ==
    [last     |-> r.last,
     services |-> [s \in Service |->
                     IF Has(r, s) THEN [id   |-> r.services[s].id,
                                        port |-> r.services[s].port]
                                  ELSE NoEntry]]

\* Variant with a bug: the port counter is not restored from the file.
RestoredWithoutCounter(f) ==
    [last     |-> BasePort - 1,
     services |-> [s \in Service |->
                     IF Has(f, s) THEN [id      |-> f.services[s].id,
                                        port    |-> f.services[s].port,
                                        status  |-> "unset",
                                        healthy |-> FALSE]
                                  ELSE NoEntry]]

Restored(f) ==
    [last     |-> f.last,
     services |-> [s \in Service |->
                     IF Has(f, s) THEN [id      |-> f.services[s].id,
                                        port    |-> f.services[s].port,
                                        status  |-> "unset",
                                        healthy |-> FALSE]
                                  ELSE NoEntry]]

-----------------------------------------------------------------------------
(* What the port counter guarantees: every entry's port was allocated, and *)
(* no two entries share one.  Stated for entries and for stored entries.   *)

PortsBelowLast(r) ==
    /\ r.last >= BasePort - 1
    /\ \A s \in Service : Has(r, s) => r.services[s].port \in BasePort .. r.last

PortsDistinct(r) ==
    \A s, t \in Service :
        Has(r, s) /\ Has(r, t) /\ r.services[s].port = r.services[t].port => s = t

PortsSound(r) == PortsBelowLast(r) /\ PortsDistinct(r)
=============================================================================
