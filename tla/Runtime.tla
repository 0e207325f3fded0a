------------------------------- MODULE Runtime -------------------------------
(***************************************************************************)
(* The containers of the Docker daemon and what the calls of               *)
(* internal/runtime do to them, as operators on a map from container ids   *)
(* to running containers.                                                  *)
(*                                                                         *)
(* Only running containers are kept.  The code never looks at any other:   *)
(* CleanContainerEnvironment lists the running ones, stopping a container  *)
(* that has exited or is gone returns nil either way, and a container that *)
(* was created and could not be started is not touched again.              *)
(***************************************************************************)
EXTENDS Services

CONSTANTS NoContainer,  \* "no running container has this id"
          NameMatches   \* pairs <<s, t>>: the name of t's containers contains s

ASSUME NameMatchesAssumption ==
    /\ NameMatches \subseteq Service \X Service
    /\ \A s \in Service : <<s, s>> \in NameMatches

\* A container is named after its service and publishes one host port.
Container == [service : Service, port : Int]

ASSUME NoContainerAssumption == NoContainer \notin Container

DockerType == [ContainerId -> Container \cup {NoContainer}]

NoneRunning == [c \in ContainerId |-> NoContainer]

Running(d) == {c \in ContainerId : d[c] # NoContainer}

RunningFor(d, s) == {c \in Running(d) : d[c].service = s}

\* Something answers on the host port: what a health check or a request to
\* localhost:<port> can find out, whichever container that is.
Answers(d, port) == \E c \in Running(d) : d[c].port = port

-----------------------------------------------------------------------------

Without(d, ids) == [c \in ContainerId |-> IF c \in ids THEN NoContainer ELSE d[c]]

\* Variant with a bug: the list is not filtered by name.
DanglingAny(d, s) == Running(d)

\* The running containers CleanContainerEnvironment removes before it
\* creates one for s: every one whose name contains the name of s.
Dangling(d, s) == {c \in Running(d) : <<s, d[c].service>> \in NameMatches}

\* ContainerCreate and ContainerStart under a new id.  The daemon refuses to
\* start a container whose host port is taken.
CanStart(d, port) == ~Answers(d, port)

WithContainer(d, c, s, port) == [d EXCEPT ![c] = [service |-> s, port |-> port]]

\* StopContainer of an id that is not running is no error.
WithStopped(d, id) == Without(d, {id})
=============================================================================
