---------------------------- MODULE RegistryStore ----------------------------
(***************************************************************************)
(* The registry of every simla process and the one file they share,        *)
(* ~/.simla/registry.yaml (internal/registry/registry.go).                 *)
(*                                                                         *)
(* Each command of the CLI is a process: it loads the file once, then      *)
(* works on its own copy and writes the whole copy back from AddService    *)
(* and UpdateContainerID.  The write is os.Create, which truncates the     *)
(* file in place, followed by the encoding: two steps, between which the   *)
(* process may die, another process may load the file, or another process  *)
(* may truncate and write it as well.  The mutex that covers both steps    *)
(* is a mutex of one process only.                                         *)
(***************************************************************************)
EXTENDS Registry

CONSTANTS Process,       \* CLI processes that may run at the same time
          NoRegistry,    \* memory of a process that is not running
          Absent,        \* the file does not exist
          Empty,         \* truncated, nothing written yet
          Corrupt,       \* bytes that do not decode
          SaveFaults,    \* BOOLEAN: os.Create or Encode may return an error
          Crashes,       \* BOOLEAN: a process may die in the middle of a Save
          WrittenStatus  \* the statuses that callers pass to UpdateStatus

ASSUME StoreAssumption ==
    /\ NoRegistry \notin RegistryType
    /\ {Absent, Empty, Corrupt} \cap FileType = {}
    /\ Absent # Empty /\ Absent # Corrupt /\ Empty # Corrupt
    /\ SaveFaults \in BOOLEAN /\ Crashes \in BOOLEAN
    /\ WrittenStatus \subseteq Status \ {"unset"}

VARIABLES memory,    \* [Process -> registry of that process]
          file,      \* what ~/.simla/registry.yaml holds
          saving,    \* [Process -> what the Save in progress is for]
          calm,      \* history: no two processes have run at the same time,
                     \* and no save has failed
          granted    \* history: the ports AddService returned until then

vars == <<memory, file, saving, calm, granted>>

\* Values of saving: no Save in progress, or the caller that is in one.
Idle == [for |-> "none"]
ForAdd(s) == [for |-> "add", service |-> s]
ForID == [for |-> "id"]

Init ==
    /\ memory = [p \in Process |-> NoRegistry]
    /\ file = Absent
    /\ saving = [p \in Process |-> Idle]
    /\ calm = TRUE
    /\ granted = [s \in Service |-> {}]

Up(p) == memory[p] # NoRegistry
Ready(p) == Up(p) /\ saving[p] = Idle
Alone(p) == \A q \in Process \ {p} : ~Up(q)

\* AddService returns the port of s, as it is in the memory of p.
Grant(p, s) ==
    granted' = IF calm THEN [granted EXCEPT ![s] = @ \cup {memory[p].services[s].port}]
                       ELSE granted

-----------------------------------------------------------------------------
(* Loading: NewRegistry and Load, from the CLI's PersistentPreRun.  A file *)
(* that does not decode is fatal to the process, which then never runs.    *)

Decodes == file \notin {Empty, Corrupt}

Loaded == IF file = Absent THEN NewRegistry ELSE Restored(file)

Boot(p) ==
    /\ ~Up(p)
    /\ Decodes
    /\ memory' = [memory EXCEPT ![p] = Loaded]
    /\ calm' = (calm /\ Alone(p))
    /\ UNCHANGED <<file, saving, granted>>

-----------------------------------------------------------------------------
(* Saving *)

\* os.Create: the old content is gone before the new one is encoded.
OpenForSave(p, caller) ==
    /\ file' = Empty
    /\ saving' = [saving EXCEPT ![p] = caller]
    /\ UNCHANGED calm

\* os.Create returns an error: the file is as it was.
OpenFails == SaveFaults /\ calm' = FALSE /\ UNCHANGED <<file, saving>>

\* Encode, then Close.  If another process has written since this one's
\* truncation, this write starts at offset 0 over that content: when it is
\* the shorter one, the end of the other stays and the whole does not parse.
Encode(p) ==
    /\ saving[p] # Idle
    /\ file' \in IF file = Empty THEN {Persisted(memory[p])}
                                 ELSE {Persisted(memory[p]), Corrupt}
    /\ saving' = [saving EXCEPT ![p] = Idle]
    /\ IF saving[p].for = "add" THEN Grant(p, saving[p].service) ELSE UNCHANGED granted
    /\ UNCHANGED <<memory, calm>>

\* Encode fails part-way: the caller gets an error, the file half a document.
EncodeFails(p) ==
    /\ SaveFaults
    /\ saving[p] # Idle
    /\ file' = Corrupt
    /\ saving' = [saving EXCEPT ![p] = Idle]
    /\ calm' = FALSE
    /\ UNCHANGED <<memory, granted>>

-----------------------------------------------------------------------------
(* The methods of ServiceRegistry *)

AddExisting(p, s) ==
    /\ Ready(p)
    /\ Has(memory[p], s)
    /\ Grant(p, s)
    /\ UNCHANGED <<memory, file, saving, calm>>

\* A new entry goes into the map before Save, and stays there if Save fails.
AddNew(p, s) ==
    /\ Ready(p)
    /\ ~Has(memory[p], s)
    /\ memory' = [memory EXCEPT ![p] = AddEntry(@, s)]
    /\ OpenForSave(p, ForAdd(s)) \/ OpenFails
    /\ UNCHANGED granted

AddService(p, s) == AddExisting(p, s) \/ AddNew(p, s)

\* Variant with a bug: the id is not saved.
UpdateContainerIDUnsaved(p, s, id) ==
    /\ Ready(p)
    /\ Has(memory[p], s)
    /\ memory' = [memory EXCEPT ![p] = SetContainerID(@, s, id)]
    /\ UNCHANGED <<file, saving, calm, granted>>

UpdateContainerID(p, s, id) ==
    /\ Ready(p)
    /\ Has(memory[p], s)
    /\ memory' = [memory EXCEPT ![p] = SetContainerID(@, s, id)]
    /\ OpenForSave(p, ForID) \/ OpenFails
    /\ UNCHANGED granted

\* Variant with a bug: a status that is not one of the constants.
UpdateStatusLoose(p, s, status) ==
    /\ Ready(p)
    /\ memory' = [memory EXCEPT ![p] = SetStatus(@, s, "degraded")]
    /\ UNCHANGED <<file, saving, calm, granted>>

\* UpdateStatus and UpdateHealth change memory only: their fields are not in
\* the file.
UpdateStatus(p, s, status) ==
    /\ Ready(p)
    /\ memory' = [memory EXCEPT ![p] = SetStatus(@, s, status)]
    /\ UNCHANGED <<file, saving, calm, granted>>

UpdateHealth(p, s, healthy) ==
    /\ Ready(p)
    /\ memory' = [memory EXCEPT ![p] = SetHealth(@, s, healthy)]
    /\ UNCHANGED <<file, saving, calm, granted>>

-----------------------------------------------------------------------------
(* The end of a process: it returns from its command, or dies in a Save    *)
(* (killed, or the main goroutine of `simla up` returning while another    *)
(* goroutine is saving).                                                   *)

Stop(p) ==
    /\ Up(p)
    /\ saving[p] # Idle => Crashes
    /\ memory' = [memory EXCEPT ![p] = NoRegistry]
    /\ saving' = [saving EXCEPT ![p] = Idle]
    /\ UNCHANGED <<file, calm, granted>>

Next ==
    \E p \in Process :
        \/ Boot(p)
        \/ Encode(p)
        \/ EncodeFails(p)
        \/ Stop(p)
        \/ \E s \in Service :
             \/ AddService(p, s)
             \/ \E id \in ContainerId : UpdateContainerID(p, s, id)
             \/ \E status \in WrittenStatus : UpdateStatus(p, s, status)
             \/ UpdateHealth(p, s, TRUE)

Spec == Init /\ [][Next]_vars
-----------------------------------------------------------------------------
(* Properties *)

TypeOK ==
    /\ memory \in [Process -> RegistryType \cup {NoRegistry}]
    /\ file \in FileType \cup {Absent, Empty, Corrupt}
    /\ saving \in [Process -> {Idle, ForID} \cup {ForAdd(s) : s \in Service}]
    /\ calm \in BOOLEAN
    /\ granted \in [Service -> SUBSET Int]

\* Within a process, no two services are ever given the same host port, and
\* no port is handed out that the counter has not reached, whatever the file
\* held when the process started and whichever saves failed.
PortsUnique == \A p \in Process : Up(p) => PortsSound(memory[p])

\* What the file would say to the next process.
FileMeaning == IF file = Absent THEN Persisted(NewRegistry) ELSE file

\* While processes run one after another and saves succeed, the file holds
\* between two saves exactly what the process has in memory, ids and ports, so
\* a process that ends there leaves nothing behind.
FileCurrent ==
    calm => \A p \in Process : Ready(p) => FileMeaning = Persisted(memory[p])

\* The promise to callers across every process that runs, one after another,
\* also when some of them die in the middle of a Save.
Ports == INSTANCE PortAllocation
PortAllocationSpec == Ports!Spec
=============================================================================
