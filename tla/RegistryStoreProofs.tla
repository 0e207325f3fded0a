------------------------- MODULE RegistryStoreProofs -------------------------
(***************************************************************************)
(* Proofs about RegistryStore.                                             *)
(*                                                                         *)
(* For any number of processes, with saves that fail and processes that    *)
(* die: the registry of every process has sound ports (PortsUniqueThm).    *)
(* The invariant needs the file, since that is where registries come from. *)
(*                                                                         *)
(* As long as processes run one after another and saves succeed, though a  *)
(* process may die in the middle of one: the file is current               *)
(* (FileCurrentThm) and the ports handed out are those PortAllocation      *)
(* allows (PortAllocationThm).                                             *)
(***************************************************************************)
EXTENDS RegistryStore, RegistryLemmas

USE StoreAssumption

-----------------------------------------------------------------------------
(* Ports, whatever happens *)

FileSound == file \in FileType => PortsSound(file)

\* A process that saves is running, and its new entry is in its memory.
SaverUp ==
    \A p \in Process : saving[p] # Idle =>
        /\ Up(p)
        /\ \A s \in Service : saving[p] = ForAdd(s) => Has(memory[p], s)

StoreInv == TypeOK /\ PortsUnique /\ FileSound /\ SaverUp

\* What a process finds when it starts is a registry with sound ports.
LEMMA LoadedSound ==
    ASSUME TypeOK, FileSound, Decodes
    PROVE  Loaded \in RegistryType /\ PortsSound(Loaded)
<1>1. CASE file = Absent
  BY <1>1, NewRegistryType DEF Loaded
<1>2. CASE file # Absent
  <2>1. file \in FileType
    BY <1>2 DEF TypeOK, Decodes
  <2> QED
    BY <1>2, <2>1, RestoredEffect, SamePortsSound DEF Loaded, FileSound
<1> QED
  BY <1>1, <1>2

\* The three values of saving can be told apart.
LEMMA SavingCases ==
    ASSUME TypeOK, NEW p \in Process
    PROVE  /\ \/ saving[p] = Idle
              \/ saving[p] = ForID
              \/ \E s \in Service : saving[p] = ForAdd(s)
           /\ saving[p].for = "add" => \E s \in Service : saving[p] = ForAdd(s)
           /\ \A s \in Service : ForAdd(s) # Idle /\ ForAdd(s) # ForID
                                  /\ ForAdd(s).service = s
           /\ ForID # Idle
<1>1. /\ Idle.for = "none" /\ ForID.for = "id"
      /\ \A s \in Service : ForAdd(s).for = "add" /\ ForAdd(s).service = s
  BY DEF Idle, ForID, ForAdd
<1> QED
  BY <1>1 DEF TypeOK

\* Only the memory of p changes, to a registry with sound ports.
LEMMA MemoryStep ==
    ASSUME StoreInv, NEW p \in Process, NEW r \in RegistryType, PortsSound(r),
           memory' = [memory EXCEPT ![p] = r]
    PROVE  /\ memory' \in [Process -> RegistryType \cup {NoRegistry}]
           /\ PortsUnique'
           /\ memory'[p] = r
           /\ \A q \in Process : q # p => memory'[q] = memory[q]
BY DEF StoreInv, TypeOK, PortsUnique, Up

\* The port of an entry in memory is an integer.
LEMMA MemoryPort ==
    ASSUME StoreInv, NEW p \in Process, Up(p), NEW s \in Service, Has(memory[p], s)
    PROVE  /\ memory[p] \in RegistryType
           /\ PortsSound(memory[p])
           /\ memory[p].services[s] \in Entry
           /\ memory[p].services[s].port \in Int
<1>1. memory[p] \in RegistryType /\ PortsSound(memory[p])
  BY DEF StoreInv, TypeOK, Up, PortsUnique
<1> QED
  BY <1>1, HasEntry DEF Entry

-----------------------------------------------------------------------------

LEMMA StoreInit == Init => StoreInv
BY DEF Init, StoreInv, TypeOK, PortsUnique, FileSound, SaverUp, Up, Idle

LEMMA BootKeeps ==
    ASSUME StoreInv, NEW p \in Process, Boot(p)
    PROVE  StoreInv'
<1>1. Loaded \in RegistryType /\ PortsSound(Loaded)
  BY LoadedSound DEF StoreInv, Boot
<1>2. /\ memory' \in [Process -> RegistryType \cup {NoRegistry}]
      /\ PortsUnique'
      /\ \A q \in Process : q # p => memory'[q] = memory[q]
  BY <1>1, MemoryStep DEF Boot
<1>3. saving[p] = Idle
  BY DEF Boot, StoreInv, SaverUp
<1> QED
  BY <1>2, <1>3 DEF StoreInv, TypeOK, FileSound, SaverUp, Boot, Up

LEMMA EncodeKeeps ==
    ASSUME StoreInv, NEW p \in Process, Encode(p)
    PROVE  StoreInv'
<1>1. Up(p) /\ memory[p] \in RegistryType /\ PortsSound(memory[p])
  BY DEF Encode, StoreInv, SaverUp, TypeOK, Up, PortsUnique
<1>2. Persisted(memory[p]) \in FileType /\ PortsSound(Persisted(memory[p]))
  BY <1>1, PersistedEffect, SamePortsSound
<1>3. file' \in FileType \cup {Corrupt} /\ FileSound'
  BY <1>2 DEF Encode, FileSound
<1>4. granted' \in [Service -> SUBSET Int]
  <2>1. CASE saving[p].for = "add"
    <3>1. PICK s \in Service : saving[p] = ForAdd(s)
      BY <2>1, SavingCases DEF StoreInv
    <3>2. Has(memory[p], s)
      BY <3>1 DEF Encode, StoreInv, SaverUp
    <3>3. Grant(p, s)
      BY <2>1, <3>1, SavingCases DEF Encode, StoreInv
    <3>4. memory[p].services[s].port \in Int
      BY <1>1, <3>2, MemoryPort
    <3> QED
      BY <3>3, <3>4 DEF Grant, StoreInv, TypeOK
  <2>2. CASE saving[p].for # "add"
    BY <2>2 DEF Encode, StoreInv, TypeOK
  <2> QED
    BY <2>1, <2>2
<1>5. SaverUp' /\ saving' \in [Process -> {Idle, ForID} \cup {ForAdd(s) : s \in Service}]
  BY DEF Encode, StoreInv, SaverUp, TypeOK, Up
<1> QED
  BY <1>3, <1>4, <1>5 DEF Encode, StoreInv, TypeOK, PortsUnique, Up

LEMMA EncodeFailsKeeps ==
    ASSUME StoreInv, NEW p \in Process, EncodeFails(p)
    PROVE  StoreInv'
BY DEF EncodeFails, StoreInv, TypeOK, PortsUnique, FileSound, SaverUp, Up

\* A memory change that a Save follows, or that a failed os.Create follows.
LEMMA OpenKeeps ==
    ASSUME StoreInv, NEW p \in Process, Ready(p), NEW caller,
           NEW r \in RegistryType, PortsSound(r),
           memory' = [memory EXCEPT ![p] = r],
           caller = ForID \/ \E s \in Service : caller = ForAdd(s) /\ Has(r, s),
           OpenForSave(p, caller) \/ OpenFails,
           UNCHANGED granted
    PROVE  StoreInv'
<1>1. /\ memory' \in [Process -> RegistryType \cup {NoRegistry}]
      /\ PortsUnique'
      /\ memory'[p] = r
      /\ \A q \in Process : q # p => memory'[q] = memory[q]
  BY MemoryStep
<1>2. r # NoRegistry
  OBVIOUS
<1>3. CASE OpenForSave(p, caller)
  <2>1. /\ saving'[p] = caller
        /\ \A q \in Process : q # p => saving'[q] = saving[q]
        /\ saving' \in [Process -> {Idle, ForID} \cup {ForAdd(s) : s \in Service}]
    BY <1>3 DEF OpenForSave, StoreInv, TypeOK
  <2>2. \A s \in Service : caller = ForAdd(s) => Has(r, s)
    BY SavingCases DEF StoreInv
  <2>3. SaverUp'
    BY <1>1, <1>2, <2>1, <2>2 DEF StoreInv, SaverUp, Up
  <2> QED
    BY <1>1, <1>3, <2>1, <2>3 DEF OpenForSave, StoreInv, TypeOK, FileSound
<1>4. CASE OpenFails
  <2>1. SaverUp'
    BY <1>1, <1>4 DEF OpenFails, StoreInv, SaverUp, Up, Ready
  <2> QED
    BY <1>1, <1>4, <2>1 DEF OpenFails, StoreInv, TypeOK, FileSound
<1> QED
  BY <1>3, <1>4

LEMMA AddServiceKeeps ==
    ASSUME StoreInv, NEW p \in Process, NEW s \in Service, AddService(p, s)
    PROVE  StoreInv'
<1>1. CASE AddExisting(p, s)
  <2>1. memory[p].services[s].port \in Int
    BY <1>1, MemoryPort DEF AddExisting, Ready
  <2> QED
    BY <1>1, <2>1 DEF AddExisting, Grant, StoreInv, TypeOK, PortsUnique, FileSound, SaverUp, Up
<1>2. CASE AddNew(p, s)
  <2> DEFINE r == AddEntry(memory[p], s)
  <2>1. memory[p] \in RegistryType /\ PortsSound(memory[p])
    BY <1>2 DEF AddNew, Ready, Up, StoreInv, TypeOK, PortsUnique
  <2>2. r \in RegistryType /\ PortsSound(r) /\ Has(r, s)
    BY <2>1, AddEntryType, AddEntryPorts, AddEntryEffect
  <2>3. /\ memory' = [memory EXCEPT ![p] = r]
        /\ OpenForSave(p, ForAdd(s)) \/ OpenFails
        /\ Ready(p)
        /\ UNCHANGED granted
    BY <1>2 DEF AddNew
  <2> HIDE DEF r
  <2> QED
    BY <2>2, <2>3, OpenKeeps
<1> QED
  BY <1>1, <1>2 DEF AddService

LEMMA UpdateContainerIDKeeps ==
    ASSUME StoreInv, NEW p \in Process, NEW s \in Service, NEW id \in ContainerId,
           UpdateContainerID(p, s, id)
    PROVE  StoreInv'
<1> DEFINE r == SetContainerID(memory[p], s, id)
<1>1. memory[p] \in RegistryType /\ PortsSound(memory[p])
  BY DEF UpdateContainerID, Ready, Up, StoreInv, TypeOK, PortsUnique
<1>2. r \in RegistryType /\ PortsSound(r)
  BY <1>1, SetContainerIDEffect, SamePortsSound
<1>3. /\ memory' = [memory EXCEPT ![p] = r]
      /\ OpenForSave(p, ForID) \/ OpenFails
      /\ Ready(p)
      /\ UNCHANGED granted
  BY DEF UpdateContainerID
<1> HIDE DEF r
<1> QED
  BY <1>2, <1>3, OpenKeeps

\* A change of one process's memory that no Save follows.
LEMMA UpdateKeeps ==
    ASSUME StoreInv, NEW p \in Process, Ready(p),
           NEW r \in RegistryType, SamePorts(memory[p], r),
           memory' = [memory EXCEPT ![p] = r],
           UNCHANGED <<file, saving, calm, granted>>
    PROVE  StoreInv'
<1>1. PortsSound(r)
  BY SamePortsSound DEF Ready, Up, StoreInv, PortsUnique
<1>2. /\ memory' \in [Process -> RegistryType \cup {NoRegistry}]
      /\ PortsUnique'
      /\ \A q \in Process : q # p => memory'[q] = memory[q]
  BY <1>1, MemoryStep
<1>3. SaverUp'
  BY <1>2 DEF Ready, StoreInv, SaverUp, Up
<1> QED
  BY <1>2, <1>3 DEF StoreInv, TypeOK, FileSound

LEMMA UpdateStatusKeeps ==
    ASSUME StoreInv, NEW p \in Process, NEW s \in Service, NEW status \in WrittenStatus,
           UpdateStatus(p, s, status)
    PROVE  StoreInv'
<1>1. memory[p] \in RegistryType
  BY DEF UpdateStatus, Ready, Up, StoreInv, TypeOK
<1>2. /\ SetStatus(memory[p], s, status) \in RegistryType
      /\ SamePorts(memory[p], SetStatus(memory[p], s, status))
  BY <1>1, SetStatusEffect
<1> QED
  BY <1>2, UpdateKeeps DEF UpdateStatus

LEMMA UpdateHealthKeeps ==
    ASSUME StoreInv, NEW p \in Process, NEW s \in Service, NEW healthy \in BOOLEAN,
           UpdateHealth(p, s, healthy)
    PROVE  StoreInv'
<1>1. memory[p] \in RegistryType
  BY DEF UpdateHealth, Ready, Up, StoreInv, TypeOK
<1>2. /\ SetHealth(memory[p], s, healthy) \in RegistryType
      /\ SamePorts(memory[p], SetHealth(memory[p], s, healthy))
  BY <1>1, SetHealthEffect
<1> QED
  BY <1>2, UpdateKeeps DEF UpdateHealth

LEMMA StopKeeps ==
    ASSUME StoreInv, NEW p \in Process, Stop(p)
    PROVE  StoreInv'
BY DEF Stop, StoreInv, TypeOK, PortsUnique, FileSound, SaverUp, Up

LEMMA StoreNext == StoreInv /\ [Next]_vars => StoreInv'
<1> SUFFICES ASSUME StoreInv, [Next]_vars
             PROVE  StoreInv'
  OBVIOUS
<1>1. CASE UNCHANGED vars
  BY <1>1 DEF vars, StoreInv, TypeOK, PortsUnique, FileSound, SaverUp, Up
<1>2. ASSUME NEW p \in Process,
             Boot(p) \/ Encode(p) \/ EncodeFails(p) \/ Stop(p)
      PROVE  StoreInv'
  BY <1>2, BootKeeps, EncodeKeeps, EncodeFailsKeeps, StopKeeps
<1>3. ASSUME NEW p \in Process, NEW s \in Service,
             \/ AddService(p, s)
             \/ \E id \in ContainerId : UpdateContainerID(p, s, id)
             \/ \E status \in WrittenStatus : UpdateStatus(p, s, status)
             \/ UpdateHealth(p, s, TRUE)
      PROVE  StoreInv'
  BY <1>3, AddServiceKeeps, UpdateContainerIDKeeps, UpdateStatusKeeps, UpdateHealthKeeps
<1> QED
  BY <1>1, <1>2, <1>3 DEF Next

LEMMA StoreInvariant == Spec => []StoreInv
<1> QED
  BY StoreInit, StoreNext, PTL DEF Spec

\* The state of the registries and of the file has the type it is said to have.
THEOREM StoreTypeThm == Spec => []TypeOK
<1>1. StoreInv => TypeOK
  BY DEF StoreInv
<1> QED
  BY <1>1, StoreInvariant, PTL

\* Within a process no two services share a port, for every number of
\* processes and services, every file, failed saves and crashes included.
THEOREM PortsUniqueThm == Spec => []PortsUnique
<1>1. StoreInv => PortsUnique
  BY DEF StoreInv
<1> QED
  BY <1>1, StoreInvariant, PTL

-----------------------------------------------------------------------------
(* One process after another, whose saves succeed *)

\* What the next AddService goes by: the memory of the process that runs, or
\* what the file says to the next one.
Authority(p) == IF Up(p) THEN memory[p] ELSE FileMeaning

GrantsKept(r) ==
    \A s \in Service : \A port \in granted[s] :
        Has(r, s) /\ r.services[s].port = port

SingleInv(p) ==
    /\ StoreInv
    /\ Alone(p)
    /\ Ready(p) => FileMeaning = Persisted(memory[p])
    /\ file # Corrupt
    /\ Up(p) /\ saving[p] # Idle => file = Empty
    /\ Ready(p) => Decodes
    /\ Up(p) \/ Decodes => GrantsKept(Authority(p))

AtMostOne == \A p, q \in Process : Up(p) /\ Up(q) => p = q

CalmInv ==
    /\ StoreInv
    /\ calm => AtMostOne /\ \A p \in Process : Alone(p) => SingleInv(p)

\* A step of process p.
StepOf(p) ==
    \/ Boot(p) \/ Encode(p) \/ EncodeFails(p) \/ Stop(p)
    \/ \E s \in Service :
         \/ AddService(p, s)
         \/ \E id \in ContainerId : UpdateContainerID(p, s, id)
         \/ \E status \in WrittenStatus : UpdateStatus(p, s, status)
         \/ UpdateHealth(p, s, TRUE)

LEMMA FileMeaningType ==
    ASSUME StoreInv, Decodes
    PROVE  /\ FileMeaning \in FileType
           /\ SamePorts(FileMeaning, Loaded)
           /\ Persisted(Loaded) = FileMeaning
<1>1. CASE file = Absent
  BY <1>1, NewRegistryType, PersistedEffect DEF FileMeaning, Loaded, SamePorts
<1>2. CASE file # Absent
  <2>1. file \in FileType
    BY <1>2 DEF StoreInv, TypeOK, Decodes
  <2>2. Restored(file) \in RegistryType /\ SamePorts(file, Restored(file))
    BY <2>1, RestoredEffect
  <2>3. Persisted(Restored(file)) = file
    <3>1. \A s \in Service : Has(file, s) => file.services[s] \in Stored
      BY <2>1, HasStored
    <3>2. \A s \in Service :
             Has(file, s) => [id   |-> Restored(file).services[s].id,
                              port |-> Restored(file).services[s].port]
                                = file.services[s]
      BY <3>1 DEF Restored, Stored
    <3>3. \A s \in Service : ~Has(file, s) => file.services[s] = NoEntry
      BY DEF Has
    <3>4. \A s \in Service : Has(Restored(file), s) <=> Has(file, s)
      BY <2>2 DEF SamePorts
    <3>5. Persisted(Restored(file)).services = file.services
      BY <2>1, <3>2, <3>3, <3>4 DEF Persisted, FileType
    <3>6. Persisted(Restored(file)).last = file.last
      BY DEF Persisted, Restored
    <3>7. Persisted(Restored(file)) \in FileType
      BY <2>2, PersistedEffect
    <3> QED
      BY <2>1, <3>5, <3>6, <3>7 DEF FileType
  <2> QED
    BY <1>2, <2>1, <2>2, <2>3 DEF FileMeaning, Loaded
<1> QED
  BY <1>1, <1>2

\* Grants are kept by a registry with the same ports.
LEMMA GrantsCarryOver ==
    ASSUME NEW r, NEW q, SamePorts(r, q), GrantsKept(r)
    PROVE  GrantsKept(q)
BY DEF SamePorts, GrantsKept

LEMMA CalmInit == Init => CalmInv
<1> SUFFICES ASSUME Init PROVE CalmInv
  OBVIOUS
<1>1. StoreInv
  BY StoreInit
<1>2. /\ \A p \in Process : ~Up(p)
      /\ file = Absent /\ \A s \in Service : granted[s] = {}
  BY DEF Init, Up
<1>3. Absent # Corrupt
  OBVIOUS
<1> QED
  BY <1>1, <1>2, <1>3 DEF CalmInv, SingleInv, AtMostOne, Ready, GrantsKept

\* Registries with the same counter, entries, ids and ports save the same file.
LEMMA SamePersisted ==
    ASSUME NEW r, NEW q, SamePorts(r, q),
           \A s \in Service : Has(r, s) => q.services[s].id = r.services[s].id
    PROVE  Persisted(q) = Persisted(r)
BY DEF SamePorts, Persisted

\* A step of the one process that runs, or of the one that begins to.
LEMMA SingleNext ==
    ASSUME NEW p \in Process, SingleInv(p), calm, calm', StepOf(p)
    PROVE  SingleInv(p)'
<1>0. StoreInv /\ StoreInv'
  BY StoreNext DEF SingleInv, StepOf, Next
<1>a. \A q \in Process : q # p => memory'[q] = memory[q]
  BY <1>0 DEF StepOf, StoreInv, TypeOK, Boot, Encode, EncodeFails, Stop, AddService,
              AddExisting, AddNew, UpdateContainerID, UpdateStatus, UpdateHealth
<1>b. Alone(p)'
  BY <1>a DEF SingleInv, Alone, Up
<1> DEFINE Kept == Up(p)' \/ Decodes' => GrantsKept(Authority(p))'
<1>2. CASE Boot(p)
  <2>1. /\ ~Up(p) /\ Decodes /\ UNCHANGED <<file, saving, granted>>
        /\ memory' = [memory EXCEPT ![p] = Loaded]
    BY <1>2 DEF Boot
  <2>2. Loaded \in RegistryType
    BY <1>0, <2>1, LoadedSound DEF StoreInv
  <2>3. memory'[p] = Loaded /\ Up(p)'
    BY <1>0, <2>1, <2>2 DEF StoreInv, TypeOK, Up
  <2>4. saving'[p] = Idle
    BY <1>0, <2>1 DEF StoreInv, SaverUp
  <2>5. GrantsKept(Loaded)
    BY <1>0, <2>1, FileMeaningType, GrantsCarryOver DEF SingleInv, Authority
  <2>6. GrantsKept(Loaded)'
    BY <2>1, <2>5 DEF GrantsKept, Has, Loaded
  <2>7. FileMeaning' = Persisted(memory'[p])
    BY <1>0, <2>1, <2>3, FileMeaningType DEF FileMeaning
  <2>8. Authority(p)' = Loaded
    BY <2>3 DEF Authority, Up
  <2>9. Kept
    BY <2>1, <2>5, <2>8 DEF GrantsKept
  <2> QED
    BY <1>0, <1>b, <2>1, <2>3, <2>4, <2>7, <2>9
    DEF SingleInv, Ready, Decodes, Up
<1>3. CASE Encode(p)
  <2> DEFINE r == memory[p]
  <2>1. /\ Up(p) /\ file = Empty /\ saving[p] # Idle
        /\ memory' = memory /\ saving'[p] = Idle
    BY <1>0, <1>3 DEF Encode, SingleInv, StoreInv, SaverUp, TypeOK
  <2>2. file' = Persisted(r)
    BY <1>3, <2>1 DEF Encode
  <2>3. r \in RegistryType
    BY <1>0, <2>1 DEF StoreInv, TypeOK, Up
  <2>4. file' \in FileType
    BY <2>2, <2>3, PersistedEffect
  <2>5. GrantsKept(r)
    BY <2>1 DEF SingleInv, Authority
  <2>6. \A s \in Service : \A port \in granted'[s] : Has(r, s) /\ r.services[s].port = port
    <3>1. CASE saving[p].for = "add"
      <4>1. PICK s \in Service : saving[p] = ForAdd(s)
        BY <1>0, <3>1, SavingCases DEF StoreInv
      <4>2. Has(r, s)
        BY <1>0, <2>1, <4>1 DEF StoreInv, SaverUp
      <4>3. granted' = [granted EXCEPT ![s] = granted[s] \cup {r.services[s].port}]
        BY <1>0, <1>3, <3>1, <4>1, SavingCases DEF Encode, Grant, StoreInv
      <4> QED
        BY <1>0, <2>5, <4>2, <4>3 DEF GrantsKept, StoreInv, TypeOK
    <3>2. CASE saving[p].for # "add"
      BY <1>3, <2>5, <3>2 DEF Encode, GrantsKept
    <3> QED
      BY <3>1, <3>2
  <2>7. Kept
    BY <2>1, <2>6 DEF GrantsKept, Authority, Up
  <2>8. /\ file' # Corrupt /\ file' # Empty /\ file' # Absent
    BY <2>4
  <2> QED
    BY <1>0, <1>b, <2>1, <2>2, <2>7, <2>8
    DEF SingleInv, FileMeaning, Ready, Decodes, Up
<1>4. CASE Stop(p)
  <2>1. /\ Up(p) /\ ~Up(p)' /\ UNCHANGED <<file, granted>>
    BY <1>0, <1>4 DEF Stop, Up, StoreInv, TypeOK
  <2>2. CASE saving[p] = Idle
    <3>1. FileMeaning = Persisted(memory[p]) /\ GrantsKept(memory[p])
      BY <2>1, <2>2 DEF SingleInv, Ready, Authority
    <3>2. SamePorts(memory[p], FileMeaning)
      BY <1>0, <2>1, <3>1, PersistedEffect DEF StoreInv, TypeOK, Up
    <3>3. GrantsKept(FileMeaning)
      BY <3>1, <3>2, GrantsCarryOver
    <3>4. Kept
      BY <2>1, <3>3 DEF GrantsKept, Authority, FileMeaning, Up
    <3> QED
      BY <1>0, <1>b, <2>1, <3>4 DEF SingleInv, Ready
  <2>3. CASE saving[p] # Idle
    <3>1. file' = Empty
      BY <2>1, <2>3 DEF SingleInv
    <3> QED
      BY <1>0, <1>b, <2>1, <3>1 DEF SingleInv, Ready, Decodes
  <2> QED
    BY <2>2, <2>3
<1>5. ASSUME NEW s \in Service, AddExisting(p, s)
      PROVE  SingleInv(p)'
  <2>1. /\ Ready(p) /\ Has(memory[p], s) /\ UNCHANGED <<memory, file, saving>>
        /\ granted' = [granted EXCEPT ![s] = granted[s] \cup {memory[p].services[s].port}]
    BY <1>5 DEF AddExisting, Grant
  <2>2. GrantsKept(memory[p])
    BY <2>1 DEF SingleInv, Authority, Ready
  <2>3. \A t \in Service : \A port \in granted'[t] :
           Has(memory[p], t) /\ memory[p].services[t].port = port
    BY <1>0, <2>1, <2>2 DEF GrantsKept, StoreInv, TypeOK
  <2>4. Kept
    BY <2>1, <2>3 DEF GrantsKept, Authority, Up, Ready
  <2> QED
    BY <1>0, <1>b, <2>1, <2>4 DEF SingleInv, FileMeaning, Ready, Decodes, Up
<1>6. ASSUME Ready(p), NEW caller, OpenForSave(p, caller), caller # Idle,
             NEW r \in RegistryType, memory' = [memory EXCEPT ![p] = r],
             GrantsKept(r), UNCHANGED granted
      PROVE  SingleInv(p)'
  <2>1. memory'[p] = r /\ Up(p)' /\ file' = Empty /\ saving'[p] = caller
    BY <1>0, <1>6 DEF StoreInv, TypeOK, Up, OpenForSave
  <2>2. Kept
    BY <1>6, <2>1 DEF GrantsKept, Authority, Up
  <2> QED
    BY <1>0, <1>b, <1>6, <2>1, <2>2 DEF SingleInv, Ready, Decodes
<1>7. ASSUME NEW s \in Service, AddNew(p, s)
      PROVE  SingleInv(p)'
  <2> DEFINE r == AddEntry(memory[p], s)
  <2>1. /\ Ready(p) /\ memory' = [memory EXCEPT ![p] = r]
        /\ OpenForSave(p, ForAdd(s)) /\ UNCHANGED granted
    BY <1>7 DEF AddNew, OpenFails
  <2>2. memory[p] \in RegistryType /\ GrantsKept(memory[p])
    BY <1>0, <2>1 DEF SingleInv, Authority, Ready, Up, StoreInv, TypeOK
  <2>3. r \in RegistryType
    BY <2>2, AddEntryType
  <2>4. \A t \in Service : Has(memory[p], t) =>
             Has(r, t) /\ r.services[t] = memory[p].services[t]
    BY <2>2, AddEntryEffect DEF Has
  <2>5. GrantsKept(r)
    BY <2>2, <2>4 DEF GrantsKept
  <2>6. ForAdd(s) # Idle
    BY DEF ForAdd, Idle
  <2> HIDE DEF r
  <2> QED
    BY <1>6, <2>1, <2>3, <2>5, <2>6
<1>8. ASSUME NEW s \in Service, NEW id \in ContainerId, UpdateContainerID(p, s, id)
      PROVE  SingleInv(p)'
  <2> DEFINE r == SetContainerID(memory[p], s, id)
  <2>1. /\ Ready(p) /\ memory' = [memory EXCEPT ![p] = r]
        /\ OpenForSave(p, ForID) /\ UNCHANGED granted
    BY <1>8 DEF UpdateContainerID, OpenFails
  <2>2. memory[p] \in RegistryType /\ GrantsKept(memory[p])
    BY <1>0, <2>1 DEF SingleInv, Authority, Ready, Up, StoreInv, TypeOK
  <2>3. r \in RegistryType /\ GrantsKept(r)
    BY <2>2, SetContainerIDEffect, GrantsCarryOver
  <2>4. ForID # Idle
    BY DEF ForID, Idle
  <2> HIDE DEF r
  <2> QED
    BY <1>6, <2>1, <2>3, <2>4
<1>9. ASSUME Ready(p), NEW r \in RegistryType, memory' = [memory EXCEPT ![p] = r],
             Persisted(r) = Persisted(memory[p]), SamePorts(memory[p], r),
             UNCHANGED <<file, saving, granted>>
      PROVE  SingleInv(p)'
  <2>1. memory'[p] = r /\ Up(p)'
    BY <1>0, <1>9 DEF StoreInv, TypeOK, Up
  <2>2. GrantsKept(r)
    BY <1>9, GrantsCarryOver DEF SingleInv, Authority, Ready
  <2>3. Kept
    BY <1>9, <2>1, <2>2 DEF GrantsKept, Authority, Up
  <2> QED
    BY <1>0, <1>b, <1>9, <2>1, <2>3 DEF SingleInv, FileMeaning, Ready, Decodes, Up
<1>10. ASSUME NEW s \in Service, NEW status \in WrittenStatus, UpdateStatus(p, s, status)
       PROVE  SingleInv(p)'
  <2>1. memory[p] \in RegistryType
    BY <1>0, <1>10 DEF UpdateStatus, Ready, Up, StoreInv, TypeOK
  <2> DEFINE r == SetStatus(memory[p], s, status)
  <2>2. /\ r \in RegistryType
        /\ SamePorts(memory[p], r)
        /\ \A t \in Service : Has(memory[p], t) =>
             r.services[t].id = memory[p].services[t].id
    BY <2>1, SetStatusEffect
  <2>3. Persisted(r) = Persisted(memory[p])
    BY <2>2, SamePersisted
  <2> QED
    BY <2>3, <1>9, <1>10, <2>2 DEF UpdateStatus
<1>11. ASSUME NEW s \in Service, NEW healthy \in BOOLEAN, UpdateHealth(p, s, healthy)
       PROVE  SingleInv(p)'
  <2>1. memory[p] \in RegistryType
    BY <1>0, <1>11 DEF UpdateHealth, Ready, Up, StoreInv, TypeOK
  <2> DEFINE r == SetHealth(memory[p], s, healthy)
  <2>2. /\ r \in RegistryType
        /\ SamePorts(memory[p], r)
        /\ \A t \in Service : Has(memory[p], t) =>
             r.services[t].id = memory[p].services[t].id
    <3>1. r \in RegistryType /\ SamePorts(memory[p], r)
      BY <2>1, SetHealthEffect
    <3>2. \A t \in Service : t # s => r.services[t] = memory[p].services[t]
      BY <2>1, SetHealthEffect
    <3>3. Has(memory[p], s) => r.services[s].id = memory[p].services[s].id
      BY <2>1, SetHealthEffect
    <3> HIDE DEF r
    <3> QED
      BY <3>1, <3>2, <3>3
  <2>3. Persisted(r) = Persisted(memory[p])
    BY <2>2, SamePersisted
  <2> QED
    BY <2>3, <1>9, <1>11, <2>2 DEF UpdateHealth
<1> QED
  BY <1>2, <1>3, <1>4, <1>5, <1>7, <1>8, <1>10, <1>11
  DEF StepOf, EncodeFails, AddService

LEMMA CalmNext == CalmInv /\ [Next]_vars => CalmInv'
<1> SUFFICES ASSUME CalmInv, [Next]_vars
             PROVE  CalmInv'
  OBVIOUS
<1>1. StoreInv'
  BY StoreNext DEF CalmInv
<1>2. CASE UNCHANGED vars
  BY <1>1, <1>2 DEF CalmInv, vars, AtMostOne, SingleInv, Alone, FileMeaning, Ready, Up,
                    Decodes, GrantsKept, Authority, Has
<1>3. ASSUME NEW p \in Process, StepOf(p), calm'
      PROVE  AtMostOne' /\ \A r \in Process : Alone(r)' => SingleInv(r)'
  <2>1. calm
    BY <1>3 DEF StepOf, Boot, Encode, EncodeFails, Stop, AddService, AddExisting, AddNew,
                UpdateContainerID, UpdateStatus, UpdateHealth, OpenForSave, OpenFails
  <2>2. Alone(p)
    <3>1. CASE Boot(p)
      BY <1>3, <3>1 DEF Boot
    <3>2. CASE ~Boot(p)
      <4>1. Up(p)
        BY <1>3, <3>2 DEF StepOf, Encode, EncodeFails, Stop, AddService, AddExisting,
                          AddNew, UpdateContainerID, UpdateStatus, UpdateHealth, Ready,
                          CalmInv, StoreInv, SaverUp
      <4> QED
        BY <2>1, <4>1 DEF CalmInv, AtMostOne, Alone
    <3> QED
      BY <3>1, <3>2
  <2>3. SingleInv(p)'
    BY <1>3, <2>1, <2>2, SingleNext DEF CalmInv
  <2>4. ASSUME NEW r \in Process, r # p, Alone(r)'
        PROVE  SingleInv(r)'
    <3>1. ~Up(p)' /\ ~Up(r)'
      BY <2>3, <2>4 DEF SingleInv, Alone
    <3> QED
      BY <2>3, <2>4, <3>1 DEF SingleInv, Ready, Authority
  <2> QED
    BY <2>3, <2>4 DEF SingleInv, AtMostOne, Alone
<1> QED
  BY <1>1, <1>2, <1>3 DEF CalmInv, Next, StepOf

LEMMA CalmInvariant == Spec => []CalmInv
<1> QED
  BY CalmInit, CalmNext, PTL DEF Spec

LEMMA UpIsSingle ==
    ASSUME CalmInv, calm, NEW p \in Process, Up(p)
    PROVE  SingleInv(p)
BY DEF CalmInv, AtMostOne, Alone

\* While processes run one after another and saves succeed, what a process
\* has in memory is in the file whenever no Save is in progress.
THEOREM FileCurrentThm == Spec => []FileCurrent
<1>1. CalmInv => FileCurrent
  BY UpIsSingle DEF FileCurrent, SingleInv, Ready
<1> QED
  BY <1>1, CalmInvariant, PTL

-----------------------------------------------------------------------------
(* The ports handed out: a grant, or the repetition of one *)

LEMMA GrantStep ==
    ASSUME NEW p \in Process, SingleInv(p), NEW s \in Service,
           Up(p), Has(memory[p], s), calm, Grant(p, s)
    PROVE  [Ports!Next]_granted
<1> DEFINE port == memory[p].services[s].port
<1>0. granted' = [granted EXCEPT ![s] = granted[s] \cup {port}]
  BY DEF Grant
<1>1. /\ memory[p] \in RegistryType /\ PortsSound(memory[p]) /\ port \in Int
      /\ granted \in [Service -> SUBSET Int]
  BY MemoryPort DEF SingleInv, StoreInv, TypeOK
<1>2. GrantsKept(memory[p])
  BY DEF SingleInv, Authority
<1>3. CASE granted[s] = {}
  <2>1. granted'[s] = {port}
    BY <1>0, <1>1, <1>3
  <2>2. port >= BasePort
    BY <1>1 DEF PortsSound, PortsBelowLast, RegistryType
  <2>3. \A t \in Service : port \notin granted[t]
    BY <1>1, <1>2, <1>3 DEF GrantsKept, PortsSound, PortsDistinct
  <2>4. Ports!FreshPort(granted'[s])
    BY <2>1, <2>2, <2>3 DEF Ports!FreshPort
  <2>5. granted' = [granted EXCEPT ![s] = granted'[s]]
    BY <1>0, <1>1
  <2> QED
    BY <1>3, <2>4, <2>5 DEF Ports!Next, Ports!Grant
<1>4. CASE granted[s] # {}
  <2>1. granted[s] = {port}
    BY <1>2, <1>4 DEF GrantsKept
  <2>2. granted' = granted
    BY <1>0, <1>1, <2>1
  <2> QED
    BY <2>2
<1> QED
  BY <1>3, <1>4

LEMMA PortStep == CalmInv /\ [Next]_vars => [Ports!Next]_granted
<1> SUFFICES ASSUME CalmInv, [Next]_vars
             PROVE  [Ports!Next]_granted
  OBVIOUS
<1>1. CASE UNCHANGED granted
  BY <1>1
<1>2. ASSUME NEW p \in Process, NEW s \in Service, Up(p), Has(memory[p], s), Grant(p, s)
      PROVE  [Ports!Next]_granted
  <2>1. CASE calm
    BY <1>2, <2>1, UpIsSingle, GrantStep
  <2>2. CASE ~calm
    BY <1>2, <2>2 DEF Grant
  <2> QED
    BY <2>1, <2>2
<1>3. ASSUME NEW p \in Process, NEW s \in Service, AddExisting(p, s)
      PROVE  [Ports!Next]_granted
  BY <1>2, <1>3 DEF AddExisting, Ready
<1>4. ASSUME NEW p \in Process, Encode(p)
      PROVE  [Ports!Next]_granted
  <2>1. CASE saving[p].for = "add"
    <3>1. PICK s \in Service : saving[p] = ForAdd(s)
      BY <2>1, SavingCases DEF CalmInv, StoreInv
    <3>2. Up(p) /\ Has(memory[p], s)
      BY <1>4, <3>1 DEF Encode, CalmInv, StoreInv, SaverUp
    <3>3. Grant(p, s)
      BY <1>4, <2>1, <3>1, SavingCases DEF Encode, CalmInv, StoreInv
    <3> QED
      BY <1>2, <3>2, <3>3
  <2>2. CASE saving[p].for # "add"
    BY <1>4, <2>2, <1>1 DEF Encode
  <2> QED
    BY <2>1, <2>2
<1> QED
  BY <1>1, <1>3, <1>4
  DEF Next, vars, Boot, EncodeFails, Stop, AddService, AddNew, UpdateContainerID,
      UpdateStatus, UpdateHealth

\* While processes run one after another and saves succeed, AddService gives
\* every service one port for good, across processes and crashes, and never
\* gives a port to two services.
THEOREM PortAllocationThm == Spec => PortAllocationSpec
<1>1. Init => Ports!Init
  BY DEF Init, Ports!Init
<1> QED
  BY <1>1, PortStep, CalmInvariant, PTL DEF Spec, PortAllocationSpec, Ports!Spec
=============================================================================
