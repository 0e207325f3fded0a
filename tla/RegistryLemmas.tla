---------------------------- MODULE RegistryLemmas ----------------------------
(***************************************************************************)
(* What the methods of the registry preserve: their result is a registry,  *)
(* and the ports of its entries stay allocated and distinct.               *)
(***************************************************************************)
EXTENDS Registry, TLAPS

USE BasePortAssumption, NoEntryAssumption

\* An entry that exists is an entry.
LEMMA HasEntry ==
    ASSUME NEW r \in RegistryType, NEW s \in Service, Has(r, s)
    PROVE  r.services[s] \in Entry
BY DEF Has, RegistryType

LEMMA HasStored ==
    ASSUME NEW f \in FileType, NEW s \in Service, Has(f, s)
    PROVE  f.services[s] \in Stored
BY DEF Has, FileType

\* A new registry has no entry, and its counter stands before BasePort.
LEMMA NewRegistryType ==
    /\ NewRegistry \in RegistryType
    /\ PortsSound(NewRegistry)
    /\ \A s \in Service : ~Has(NewRegistry, s)
BY DEF NewRegistry, RegistryType, PortsSound, PortsBelowLast, PortsDistinct, Has

-----------------------------------------------------------------------------
(* AddEntry *)

LEMMA AddEntryType ==
    ASSUME NEW r \in RegistryType, NEW s \in Service
    PROVE  AddEntry(r, s) \in RegistryType
<1>1. CASE Has(r, s)
  BY <1>1 DEF AddEntry
<1>2. CASE ~Has(r, s)
  <2>1. [id |-> NoId, port |-> r.last + 1, status |-> "pending", healthy |-> FALSE]
          \in Entry
    BY DEF RegistryType, Entry, Status
  <2> QED
    BY <1>2, <2>1 DEF AddEntry, RegistryType
<1> QED
  BY <1>1, <1>2

\* The entry of s exists afterwards, and no other entry changes.
LEMMA AddEntryEffect ==
    ASSUME NEW r \in RegistryType, NEW s \in Service
    PROVE  /\ Has(AddEntry(r, s), s)
           /\ \A t \in Service :
                t # s \/ Has(r, t) => AddEntry(r, s).services[t] = r.services[t]
           /\ ~Has(r, s) => /\ AddEntry(r, s).services[s].port = r.last + 1
                            /\ AddEntry(r, s).services[s].id = NoId
                            /\ AddEntry(r, s).services[s].status = "pending"
                            /\ AddEntry(r, s).last = r.last + 1
<1>1. CASE Has(r, s)
  BY <1>1 DEF AddEntry
<1>2. CASE ~Has(r, s)
  <2> DEFINE e == [id |-> NoId, port |-> r.last + 1, status |-> "pending",
                   healthy |-> FALSE]
  <2>1. AddEntry(r, s) = [last |-> r.last + 1, services |-> [r.services EXCEPT ![s] = e]]
    BY <1>2 DEF AddEntry
  <2>2. e \in Entry
    BY DEF RegistryType, Entry, Status
  <2>3. e # NoEntry
    BY <2>2
  <2>4. AddEntry(r, s).services[s] = e
    BY <2>1 DEF RegistryType
  <2>5. \A t \in Service : t # s => AddEntry(r, s).services[t] = r.services[t]
    BY <2>1 DEF RegistryType
  <2>6. Has(AddEntry(r, s), s)
    BY <2>3, <2>4 DEF Has
  <2> QED
    BY <1>2, <2>1, <2>4, <2>5, <2>6
<1> QED
  BY <1>1, <1>2

\* A new port is above every allocated one: ports stay sound.
LEMMA AddEntryPorts ==
    ASSUME NEW r \in RegistryType, NEW s \in Service, PortsSound(r)
    PROVE  PortsSound(AddEntry(r, s))
<1>1. CASE Has(r, s)
  BY <1>1 DEF AddEntry
<1>2. CASE ~Has(r, s)
  <2> DEFINE q == AddEntry(r, s)
  <2>1. /\ q.services[s].port = r.last + 1
        /\ q.last = r.last + 1
        /\ r.last \in Int
        /\ r.last >= BasePort - 1
    BY <1>2, AddEntryEffect DEF PortsSound, PortsBelowLast, RegistryType
  <2>2. ASSUME NEW t \in Service, t # s, Has(q, t)
        PROVE  /\ Has(r, t)
               /\ q.services[t].port = r.services[t].port
               /\ q.services[t].port \in BasePort .. r.last
    BY <2>2, AddEntryEffect DEF Has, PortsSound, PortsBelowLast
  <2>3. PortsBelowLast(q)
    BY <2>1, <2>2 DEF PortsBelowLast
  <2>4. PortsDistinct(q)
    <3> SUFFICES ASSUME NEW t \in Service, NEW u \in Service, Has(q, t), Has(q, u),
                        q.services[t].port = q.services[u].port
                 PROVE  t = u
      BY DEF PortsDistinct
    <3>1. CASE t = s \/ u = s
      BY <3>1, <2>1, <2>2
    <3>2. CASE t # s /\ u # s
      BY <3>2, <2>2 DEF PortsSound, PortsDistinct
    <3> QED
      BY <3>1, <3>2
  <2> QED
    BY <2>3, <2>4 DEF PortsSound
<1> QED
  BY <1>1, <1>2

-----------------------------------------------------------------------------
(* The methods that change one field of one entry *)

\* q has the entries and the ports of r.
SamePorts(r, q) ==
    /\ q.last = r.last
    /\ \A s \in Service : /\ Has(q, s) <=> Has(r, s)
                          /\ Has(r, s) => q.services[s].port = r.services[s].port

LEMMA SamePortsSound ==
    ASSUME NEW r, NEW q, SamePorts(r, q), PortsSound(r)
    PROVE  PortsSound(q)
BY DEF SamePorts, PortsSound, PortsBelowLast, PortsDistinct

\* Changing a field keeps r a registry, its ports, and every other entry.
LEMMA SetStatusEffect ==
    ASSUME NEW r \in RegistryType, NEW s \in Service, NEW status \in Status
    PROVE  /\ SetStatus(r, s, status) \in RegistryType
           /\ SamePorts(r, SetStatus(r, s, status))
           /\ \A t \in Service : t # s =>
                SetStatus(r, s, status).services[t] = r.services[t]
           /\ Has(r, s) => /\ SetStatus(r, s, status).services[s].status = status
                           /\ SetStatus(r, s, status).services[s].id = r.services[s].id
<1>1. CASE Has(r, s)
  <2> DEFINE e == [r.services[s] EXCEPT !.status = status]
  <2>1. /\ e \in Entry
        /\ e.port = r.services[s].port
        /\ e.status = status
        /\ e.id = r.services[s].id
    BY <1>1, HasEntry DEF Entry
  <2>2. SetStatus(r, s, status) = [r EXCEPT !.services = [r.services EXCEPT ![s] = e]]
    BY <1>1 DEF SetStatus
  <2> HIDE DEF e
  <2> QED
    BY <1>1, <2>1, <2>2 DEF SamePorts, Has, RegistryType
<1>2. CASE ~Has(r, s)
  BY <1>2 DEF SetStatus, SamePorts
<1> QED
  BY <1>1, <1>2

LEMMA SetHealthEffect ==
    ASSUME NEW r \in RegistryType, NEW s \in Service, NEW healthy \in BOOLEAN
    PROVE  /\ SetHealth(r, s, healthy) \in RegistryType
           /\ SamePorts(r, SetHealth(r, s, healthy))
           /\ \A t \in Service : t # s =>
                SetHealth(r, s, healthy).services[t] = r.services[t]
           /\ Has(r, s) =>
                /\ SetHealth(r, s, healthy).services[s].status = r.services[s].status
                /\ SetHealth(r, s, healthy).services[s].id = r.services[s].id
<1>1. CASE Has(r, s)
  <2> DEFINE e == [r.services[s] EXCEPT !.healthy = healthy]
  <2>1. /\ e \in Entry
        /\ e.port = r.services[s].port
        /\ e.status = r.services[s].status
        /\ e.id = r.services[s].id
    BY <1>1, HasEntry DEF Entry
  <2>2. SetHealth(r, s, healthy) = [r EXCEPT !.services = [r.services EXCEPT ![s] = e]]
    BY <1>1 DEF SetHealth
  <2> HIDE DEF e
  <2> QED
    BY <1>1, <2>1, <2>2 DEF SamePorts, Has, RegistryType
<1>2. CASE ~Has(r, s)
  BY <1>2 DEF SetHealth, SamePorts
<1> QED
  BY <1>1, <1>2

LEMMA SetContainerIDEffect ==
    ASSUME NEW r \in RegistryType, NEW s \in Service, NEW id \in ContainerId \cup {NoId}
    PROVE  /\ SetContainerID(r, s, id) \in RegistryType
           /\ SamePorts(r, SetContainerID(r, s, id))
           /\ \A t \in Service : t # s =>
                SetContainerID(r, s, id).services[t] = r.services[t]
           /\ Has(r, s) =>
                /\ SetContainerID(r, s, id).services[s].status = r.services[s].status
                /\ SetContainerID(r, s, id).services[s].id = id
<1>1. CASE Has(r, s)
  <2> DEFINE e == [r.services[s] EXCEPT !.id = id]
  <2>1. /\ e \in Entry
        /\ e.port = r.services[s].port
        /\ e.status = r.services[s].status
        /\ e.id = id
    BY <1>1, HasEntry DEF Entry
  <2>2. SetContainerID(r, s, id) = [r EXCEPT !.services = [r.services EXCEPT ![s] = e]]
    BY <1>1 DEF SetContainerID
  <2> HIDE DEF e
  <2> QED
    BY <1>1, <2>1, <2>2 DEF SamePorts, Has, RegistryType
<1>2. CASE ~Has(r, s)
  BY <1>2 DEF SetContainerID, SamePorts
<1> QED
  BY <1>1, <1>2

-----------------------------------------------------------------------------
(* Saving and loading *)

LEMMA PersistedEffect ==
    ASSUME NEW r \in RegistryType
    PROVE  /\ Persisted(r) \in FileType
           /\ SamePorts(r, Persisted(r))
<1>1. ASSUME NEW s \in Service, Has(r, s)
      PROVE  [id |-> r.services[s].id, port |-> r.services[s].port] \in Stored
  BY <1>1, HasEntry DEF Entry, Stored
<1>2. \A s \in Service : Persisted(r).services[s] =
         IF Has(r, s) THEN [id |-> r.services[s].id, port |-> r.services[s].port]
                      ELSE NoEntry
  BY DEF Persisted
<1>3. Persisted(r) \in FileType
  BY <1>1 DEF Persisted, FileType, RegistryType
<1>4. \A s \in Service : Has(Persisted(r), s) <=> Has(r, s)
  BY <1>1, <1>2 DEF Has
<1> QED
  BY <1>2, <1>3, <1>4 DEF SamePorts, Persisted

LEMMA RestoredEffect ==
    ASSUME NEW f \in FileType
    PROVE  /\ Restored(f) \in RegistryType
           /\ SamePorts(f, Restored(f))
<1> DEFINE e(s) == [id |-> f.services[s].id, port |-> f.services[s].port,
                    status |-> "unset", healthy |-> FALSE]
<1>1. ASSUME NEW s \in Service, Has(f, s)
      PROVE  e(s) \in Entry
  BY <1>1, HasStored DEF Entry, Stored, Status
<1>2. \A s \in Service : Restored(f).services[s] = IF Has(f, s) THEN e(s) ELSE NoEntry
  BY DEF Restored
<1>3. Restored(f) \in RegistryType
  BY <1>1 DEF Restored, FileType, RegistryType
<1>4. \A s \in Service : Has(Restored(f), s) <=> Has(f, s)
  BY <1>1, <1>2 DEF Has
<1> QED
  BY <1>2, <1>3, <1>4 DEF SamePorts, Restored
=============================================================================
