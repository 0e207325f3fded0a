# simla in TLA+

simla runs AWS Lambda functions on a developer's machine: a gateway, triggers
and workflows invoke *services*, each of which is a container that is started
on first use. This directory holds TLA+ models of the parts of simla that keep
state and meet each other, TLC runs over small instances of them, and proofs
for every size.

    tlc -config MCScheduler_faults.cfg MCScheduler     # a run
    tlapm SchedulerProofs.tla                          # the proofs

`PROJECT.json` lists the runs, the mutants that show that each property can
fail, the source lines behind each definition, the hazards and the findings.

## 1. The system

| Component | State | Operations | Meets |
|---|---|---|---|
| registry (`internal/registry`) | map of services, port counter, one mutex; `~/.simla/registry.yaml` | Load, Save, AddService, UpdateStatus, UpdateHealth, UpdateContainerID | every command of the CLI, through the file |
| scheduler (`internal/scheduler`) | none of its own: works on the registry and on Docker | Invoke, StartService, StopService, StopAll | gateway, triggers, workflows, watcher, `up`, `down` |
| runtime (`internal/runtime`) | the daemon's containers | StartContainer (pull, clean up, create, start), StopContainer | scheduler |
| health, router | none | IsHealthy, WaitForHealthy, SendRequest | scheduler; whatever container holds the port |
| watcher (`internal/watcher`) | a debounce timer per service | event loop, restart | scheduler |
| `simla up` | context that SIGINT ends | start everything, drain, StopAll, exit | all of the above |
| gateway (`internal/gateway`) | none | handleRequest, shutdown | scheduler |
| triggers (`internal/trigger`) | per trigger: tick, batch, shard iterators, open requests | Start of sqs, dynamodb streams, sns, s3, schedule | scheduler; outside services, a directory |
| workflow executor (`internal/workflow`) | per execution: state, data, attempts, branches | Execute, one function per state type | scheduler |
| documents (`jsonpath.go`) | none | applyPath, mergePath, evaluateCondition | executor |
| commands (`cmd/simla`) | one process each: config, registry, a scheduler of its own | up, down, invoke, workflow run; list, logs and status only print | the file, and the containers that earlier processes left |
| config, env, errors, metrics | constants, text, counters | | |

What is hard, and what makes each part correct:

* **Nothing serialises operations on one service.** The registry's mutex covers
  one method, StartService and StopService are a dozen steps each, and requests,
  triggers, workflow branches, reload timers and the shutdown run them at will.
  Correct: containers never collide on a port; running means that something
  answers; unless two goroutines have met on a service, the container that runs is
  the one on record and a stopped service has none; every task returns.
* **Every process has its own copy of the registry and overwrites the file.**
  Correct: ports are unique and stable; the file says what memory says.
* **Calls fail, or succeed and report an error, or end with their context.**
  Correct: as above, under all of these.
* **Shutdown races everything.** Correct: no container of its services stays, but
  where a start or stop failed or met another.
* **Code changes while its service starts, stops and serves.** Correct: requests do
  not go to old code for good.
* **Processes die, and their containers stay.** Correct: what runs is on file, so
  that the next process neither joins it on its port nor forgets it.
* **Triggers talk to services that lose answers and repeat messages, and sleep
  while they invoke.** Correct: nothing is lost silently or given out in the wrong
  order, what happened during an invocation is made up for, the loops end.
* **Workflows nest goroutines, retries and timeouts.** Correct: branches are
  joined, failures reported, retries bounded.
* **Every state rewrites one document.** Correct: a field goes only where a
  ResultPath says, results are found there, the rule that is taken is the first
  that is satisfied.

`PROJECT.json` has the full list of hazards with their lines.

## 2. The modules

    Services                       names
      Registry                     the registry as a value, its methods
        RegistryStore              processes, Load, Save, the file     -> PortAllocation
      Runtime                      containers as a value, calls to Docker
        Scheduler (with Registry)  Invoke, start, stop, StopAll
          Session                  simla up --watch: gateway, watcher, SIGINT
          Commands                 the commands of the CLI in turn     -> ServiceLifecycle
    Triggers                       a trigger under the process's context
      SQSTrigger, StreamTrigger, SNSTrigger, ScheduleTrigger, S3Trigger
    Documents                      paths, merges, choice rules, patterns
      WorkflowData                 one execution with its documents    -> Workflow

`->` names the abstract specification that the module implements. The `*Proofs`
modules and `RegistryLemmas` hold the proofs, the `MC*` modules the instances for
TLC.

**Registry** is `ServiceRegistry` without locks: each method is an operator on a
record of the port counter and the entries (`last` is `LastAllocatedPort`). The
mutex makes a method one atomic step for its own process. `Restored` is what Load
makes of a file: status and health are not in it (`yaml:"-"`).

**RegistryStore** has a registry per process and one file. Save is two steps
(`OpenForSave` truncates, `Encode` writes), since another process may act in
between or this one may die. A second writer that finds newer bytes may leave
text that does not parse (`Corrupt`). A file that does not decode is fatal to
every later command, so `Boot` needs `Decodes`. The history variable `calm` holds
until two processes run at the same time or a save fails; what the file promises
from one process to the next is stated while it holds, and not assumed of the
instance. **PortAllocation** says what
callers rely on: the first AddService of a name gives a port nobody else has, all
later ones give the same.

**Runtime** is the map from ids to running containers; ids, names and ports are
all the code looks at. `NameMatches` is the substring test of
`CleanContainerEnvironment`.

**Scheduler** is every goroutine that is inside a scheduler operation. Its `pc`
stands before the next call others can interfere with: one registry method, one
read of a `Service` field through the unlocked pointer, one call to the daemon or
to the port. Actions and code:

| pc / action | code (`scheduler.go` unless noted) |
|---|---|
| Invoke, Check, Probe, Send | 42-45, 47-52, 54-61, 63-83 with `router.go` |
| Start, Clean, Boot, Wait | 89-133, then StartContainer (`runtime.go`): pull and clean up, create and start; `health.go` 60-89 |
| StartFailed, MarkRunning, MarkHealthy, RecordID | 137/145, 154, 155, 158 |
| Stop, MarkPending, Halt, MarkStopped | 183-202, 204, 206-208, 210 |
| StopAll, StopNext | 167-178 |
| Reload | `watcher.go` restart |
| Cancel, Crash | a context ends; a container dies |

Calls to Docker end in `done`, `failed` or `lost` (done, and an error is
reported). `Faults` selects which faults a run has. Every task begins whatever the
others are doing; the history variable `overlapped` remembers the services on
which two goroutines were at work at the same time (`Holds`: from the first read
of the entry to the last write), and properties that do not survive an overlap
leave those out, by name. An unlocked read of Status
while it is written cannot yield "running" from two other values, because of the
lengths of the strings, so it returns the old or the new value. A failure of
NewRuntime is a property of the process's environment, and so permanent; the
model lets it come and go, which has more behaviours.

**Commands** puts one process after another around Scheduler: `Launch` loads the
file into a fresh memory, each command begins the operations it begins, `Works`
is any step of the scheduler and saves where the code saves, `Return` ends the
process, `Kill` ends it anywhere. Memory and goroutines are gone then; containers
stay. A process that dies while it may be in a Save can leave the file
`Unreadable`. `invoke` and `workflow run` use cobra's context, which nothing
cancels, although `root.go:23-25` speaks of "all subcommands".

**ServiceLifecycle** is the promise about a service through any number of
processes: its container and the id on record, which is what `simla logs` reads,
change only inside an operation on that service; on means that the id names the
container; stopped means that there is none. A service on which two operations of a
process meet (`Meet`) is entangled, and only that it has no other service's
container is promised of it until the process ends. `Forget` is the end of a process.

**Session** adds the watcher's timers, the code that running containers were
started with (`stale`) and SIGINT: reloads and triggers lose their context, the
gateway drains for five seconds (`Drained` may come while requests are still at
work), main runs StopAll with a background context and exits. A timer fires
whatever else is going on, also while an earlier restart of its service runs, and
after SIGINT with a context that is done. A gateway that cannot listen ends the
process with `Fatal` (`gateway.go:195-199`, `ListenFails`): nothing is stopped then,
and the phase is `aborted`. `refused` remembers where NewRuntime failed in
StopService. A second SIGINT, which kills the process, is in Commands (`Kill`).

**SQSTrigger**, **StreamTrigger**, **SNSTrigger**, **ScheduleTrigger** and
**S3Trigger** are the loops of `internal/trigger` with what they listen to, the
queue, the stream, the publishers, the ticker and the directory, which are
outside the program and modelled from how the loops use them. An iterator of a
stream may expire at any time (`Expire`); nothing ever asks for another, so its
shard is silent from then on. The iterator moves before the event is built
(`GetRecords`); then `Deliver` leaves out the records that do not decode
(`Malformed`), or `PayloadFails` drops the batch, which `lost` remembers. The ticker's channel holds one tick. The context of
an SNS invocation is that of the request, and ends with the answer. fsnotify
reports the old name of a renamed file as `rename`, which `fsEventToS3` turns
into a creation: `moved` remembers these files. When the kernel's queue overflows,
events are lost and the watcher reports an error, which the trigger only logs
(`s3.go:93-97`); that is left out. So are payloads of the SQS, SNS, S3 and schedule
triggers that cannot be built: json.Marshal of strings does not fail. **Triggers** is a service with
one trigger of any kind: `trigger.New` chooses, SIGINT ends. Several triggers of
a process share nothing but that context, so they are not run side by side.

**Workflow** has one record per state machine that runs: the workflow itself and
the branches of Parallel states, each a goroutine. Documents are abstracted: a
Choice takes any of its rules or the default, a path expression fails or not.
Errors are the three classes that `classifyError` finds in a text. A definition
is a constant; `NestingAssumption` says that each branch is written inside one
Parallel state.

**Documents** has the functions of `jsonpath.go` and the documents' part of
`executor.go` on trees of JSON values, with characters as numbers. Every document
that a path is applied to, or that is merged, goes through `json.Unmarshal` and
back (`Decoded`): its numbers are the nearest float64 afterwards, and one with a
number out of range is an error (`Decodes`), which mergePath takes for an input
that is no object and replaces by an empty one. Beside them
stand reference definitions: `Matches` (each star stands for some characters) and
`Satisfied` (what the operators of a rule mean). What the code does differently
is in the operators as it is: a zero operand counts as not given, a `...Path`
operator is not followed, `IsTimestamp` decides nothing, "a*b" takes the first b.
`Document` is the set of what is written in the configuration or sent to the
program; documents that it computes need not be in it. A rule is a list in which
the parts of a condition stand further on.

**WorkflowData** is Workflow with a document per state machine: what Workflow
leaves open, which path fails, which rule is taken, is decided by Documents, and
every step is one of Workflow's. It adds one thing, `Crash`: when a result is
merged into a document `null`, `json.Unmarshal` leaves the map nil without an
error (`jsonpath.go:79`), `setNested` panics, and no goroutine recovers.

## 3. The runs

| run | instance | shows |
|---|---|---|
| store | 2 services, 2 processes, failing saves, crashes in Save | `PortsUnique`: no process gives two services one port; `FileCurrent`: between saves file and memory agree; `PortAllocationSpec`: the abstract promise holds across processes |
| commands | 2 services, 2 goroutines that may meet on one service, one process after another, any of them killed, all faults of the daemon, slow containers | `ContainersAreOnFile`: what runs is on file; `RunningIsRecorded`, `StoppedHasNone` where nothing overlapped; `LifecycleKept`: ServiceLifecycle is implemented until the file is lost |
| sched_concurrent | 2 services, 3 goroutines, slow containers, failing saves | `RunningAnswers` under overlapping invocations |
| sched_faults | 1 service, 2 goroutines, all tasks, all faults | `OneContainerPerService`, and `TasksEnd` (liveness) |
| session | 1 service, 2 goroutines and main, SIGINT and reloads at any time, failing saves and calls to the daemon, slow containers, clients that go away | `LeftIsKnown`: what runs after the exit belongs to a start or stop that failed or overlapped; `ChangesAreKept`: no other change of the code is forgotten |
| triggers | one trigger of each kind: 2 messages in batches of 2; 2 shards of 2 records and 1 in pages of 1; 2 publications; ticks without bound; 2 files, 3 filters; a record that does not decode, batches that are dropped | `DeletedWasAttempted`, `InterruptedIsKept`, `EveryMessageAttempted`; `InOrderOnce`, `EveryRecordDelivered`; `DeliveriesEnd`; `TicksAreMadeUp`; `ReportsFollow`; `LoopsEnd` of all |
| workflow | a workflow with every state type, 3 branches, one nested in a Parallel state with Catch and End; 7 inputs, 11 answers, among them numbers that are no float64 | `BranchesAreJoined`, `RetriesAreBounded`, `TimeoutStopsRetries`, `OnlyEndLosesFailure`; `FieldsKept`, `ResultIsFound`, `ChoiceIsFirstSatisfied`, `OnlyNullPanics`; `EndsOrPanics` |

Five runs show where the code does something else than its text says:

* **sched_crash**: a container that dies by itself is never replaced. The entry
  stays running and healthy, so Invoke goes straight to the health check and
  returns its error, for ever (`docs/architecture.md:101-102`).
* **session_exit**: SIGINT while a service is being started leaves its container
  running, since StopAll looks at the status only (`up.go:40`).
* **sqs_failed**: messages of a failed invocation are deleted
  (`docs/triggers.md:436`).
* **down**: `simla down` stops nothing, since it looks for a status that is not in
  the file its process was started from (`down.go:13`).
* **sns**: a publication is answered with success and its invocation fails,
  because the answer ended the context (`docs/triggers.md:268`).

Other places where text and code differ, without a run of their own:

* **A restart can be lost.** `README.md:30` promises a restart when code changes. If
  a change comes while a request starts the service, StopService finds it pending
  and does nothing, StartService then finds it running and does nothing, and the
  old code stays in service. `ChangesAreKept` holds of services on which nothing
  overlapped, and of no others.
* **Retries after a timeout.** `docs/workflows.md:316-321` and `:341` and
  `docs/configuration.md:252` give Retry rules for `States.Timeout`, which is said
  to mean that the Task exceeded its TimeoutSeconds. All attempts share one
  context (`executor.go:165-171`): once it is over nothing is retried.
  `TimeoutStopsRetries` states what the code does.
* **OutputPath before ResultPath.** `README.md:437-446` and
  `docs/workflows.md:280-288` filter the output of the state; `executor.go:193-207`
  applies OutputPath to the answer of the service and then stores it at the
  ResultPath. `ResultIsFound` states what the code does. With the example of
  `README.md:437-446` the Task fails unless the answer has a field `serviceResult`.
* **Catch with End.** A caught error in a state with `End: true` ends the workflow
  as a success; its handler is not run (`executor.go:96`, whereas
  `docs/workflows.md:43-65` and `:346` write Catch as the way to a fallback state).
  `OnlyEndLosesFailure` makes it the one case in which a failure is lost.
* **Numbers.** A document that a path touches comes back with float64 numbers:
  integers above 2^53 change, also in fields that no path names. A number such as
  1e400 makes mergePath drop every field of the input (`jsonpath.go:79-82`).
* **Lost stream records.** A record that does not decode is left out, and a batch
  whose event does not encode is given to nobody, though the iterator has moved
  (`dynamodb.go:179-189`, `:224-226`).
* `jsonpath.go:80` says that an input that is no object becomes an empty one;
  `null` makes the process panic. Run workflow reaches such states.
* `docs/workflows.md:122` offers `isPresent` as a test; it is an error when the
  key is missing, and false when its value is null. `numericEqualsPath` is not
  even read from a file (`config/workflow.go:89` spells another key).
* `simla status` prints counters of its own process, which are empty.
* `rate(...)` and `cron(...)` become one interval; `cron(* * * * ? *)`, every
  minute by its meaning, becomes 24 hours (`schedule.go:137`).
* A renamed file is reported as created, under its old name.

Bounds. In run commands the constraint `OneOverlap` does not go on from states in
which goroutines have met on both services; what happens on one is seen with the
other at rest or in order. `Float64` is exact up to 4, takes 5 to 4 and has no 9:
one number that changes and one that does not decode. Two services show every interference between services, which is through
ports and names only. Two goroutines give every pair of overlapping operations,
three a start that is overtaken twice. There is one container id more than
entries, goroutines and running containers can name at once, so that a new
container can always have a fresh id; ids and idle goroutines are symmetric. Two
processes at once give every lost update of the file; run commands has any number
of them in turn. With pages of 1, a shard of two records needs two polls; two
shards are enough for one to fail, close or expire while the other goes on. Two
events that wait (`MaxEvents`) are a rename, or a change that follows a change.
The `Left` branch of the workflow has two rules for one error and a MaxAttempts of
0, so attempts move between rules. Its inputs are no object, no JSON, an empty
object and objects in which paths lead to values of the right and of the wrong
kind; its answers make each rule of `PickRules` the first that holds, and the
strings have the prefixes and repetitions that tell patterns apart.

Fairness. A goroutine inside an operation keeps moving (weak fairness on each
worker's `Step`, on a trigger's own steps): the Go scheduler is fair to runnable
goroutines, and HTTP calls have timeouts (30 s health wait and request, 10 s and
30 s clients). Calls to the Docker daemon have none: the client has no limit,
and StopAll's context is never done. That the daemon answers each of them, with
whatever, is an assumption about it. A daemon that hangs keeps `simla up` from
exiting. Nobody is obliged to begin an operation; only
`RequestedSpec` (run sched_crash) lets requests keep coming, which makes the
counterexample stronger. A select with a tick and a done context ready takes
either at random, so that a loop sees the context in the end: strong fairness
on `EndStream` and on `End` of the schedule and S3 triggers. (`EndSQS` needs weak
fairness only: without a context the loop cannot receive.) Strong fairness on
`Receive` of a message and on `GetsMore` of a shard says that an outside service that is asked for ever
answers in the end; `EveryMessageAttempted` and `EveryRecordDelivered` mean
nothing without it; the latter ends where an iterator expires, as the code's
promise does. `DeliveriesEnd`, like the others, ends at SIGINT: main does not wait
for the goroutines of a trigger. Session and Commands have safety properties only
and assume no fairness.

Runs with `CHECK_DEADLOCK FALSE` are of things that may stop: a session, a
trigger, a workflow, and a registry file that no process can load any more.

## 4. What is proved

For all values of the constants:

* `RegistryStoreProofs`: `StoreTypeThm`, `PortsUniqueThm`. Inductive invariant
  `StoreInv`: types, `PortsUnique` of every memory, the same of a file that
  decodes (`FileSound`: otherwise Load would break it), and a Save in progress
  belongs to a process that is up (`SaverUp`).
* `FileCurrentThm`, `PortAllocationThm`, for any processes, failing saves and
  crashes. `CalmInv` adds that while `calm` holds at most one process is up, and
  of the process that is, or could be, alone `SingleInv`: a file that decodes is
  what memory persists, or held, and every port ever granted is still the entry's
  and below the counter. The second theorem is a refinement: a step that returns
  from AddService is a `Grant` or a stutter, every other step a stutter.
* `SchedulerProofs`: `SchedulerTypeThm`, `OneContainerThm`, with every fault and
  every overlap. `SchedulerInv` adds that the ports of the registry are sound,
  that a worker past its first step has a service, and that this service has an
  entry when a container is about to boot: then the port of a new container is
  its entry's, and the daemon's refusal of a taken port does the rest.
  `RunningAnswersThm` is about requests that overlap (`RequestsOverlap`: only
  invocations, slow containers and failing saves, no other fault, as in run
  `sched_concurrent`). Only a clean-up takes a container away, and whoever cleaned
  up is about to boot: `AnswersInv` says that on the port of a service that is
  marked running, or that somebody waits for, something answers or is about to.
* `ProcessProofs`: `ContainersAreOnFileThm`, with everything that may overlap or
  fail inside a process. While one runs, `SchedulerInv` relates containers and
  memory, and memory and file agree on names and ports (`Agrees`); every step
  either saves or changes neither (`StepPorts`). Between two processes only the
  file is left, and `FileSound` says that it is enough to start from.
  `RunningIsRecordedThm`, `StoppedHasNoneThm` and `LifecycleThm`, with everything
  that may overlap or fail, for names that do not contain each other (`OwnNames`).
  `RecordInv` says what a worker knows at each line of StartService and StopService
  about its service (`Knows`), and what the entry says when nobody is changing it
  (`EntryTrue`), both of services that have not overlapped. On these no two workers
  are at work (the definition of `overlapped`), and whatever others do, overlapped
  or not, reaches only ports, names and ids of their own service, for which every
  id on record must have been a container of that service (`IdsOwned`). The last
  theorem is the refinement of ServiceLifecycle: a worker that enters, works in or
  leaves an operation is a `Begin`, `Work` or `Settle` (`OwnStep`), or anything at
  all on an entangled service, the end of a process is `Forget`, and everything else
  a stutter. It needs one more fact, that memory and file have the same ids
  (`SameIds`).
* `ProcessProofs`: `SessionTypeThm`; `LeftIsKnownThm` and `ChangesAreKeptThm`, under
  `OwnNames` alone: SIGINT at any time, any faults and overlaps. `UpInv` is
  `RecordInv` with what kinds of goroutine there are. `LeftIsKnown` is about the
  last step and says nothing before it, so `StoppingInv` follows StopAll: each
  service on which nothing overlapped is ahead on main's list or in its hand
  (`ToVisit`), or what runs for it is known (`Accounted`); and goroutines that still
  hold a service that main holds too are reloads with a context that is done
  (`Late`), whose calls start nothing. `KeptInv` strengthens `ChangesAreKept` to
  services that serve nothing yet (`Unserved`): a start that is past its boot must
  not mark a container running whose code has changed without a restart to come.
* `SQSTriggerProofs`: `SQSTypeThm`, `DeletedWasAttemptedThm`,
  `InterruptedIsKeptThm`. A batch that is being deleted was attempted
  (`BatchAttempted`); a message is interrupted only when the context is done
  (`CutWhenStopped`), after which no request is sent.
* `StreamTriggerProofs`: `StreamTypeThm`, `InOrderOnceThm`. `StreamInv` ties the
  iterator of a shard, the batch in hand and what was delivered together: they
  follow each other without gap (`IteratorBehind`, `BatchFollows`), until the
  iterator has expired or run out.
* `TriggersProofs`: `DeletedWasAttemptedThm`, `InterruptedIsKeptThm` and
  `InOrderOnceThm` of a service that may have any trigger. Triggers implements
  SQSTrigger and StreamTrigger: a step of another trigger is for them a stutter or
  SIGINT (`ContextStep`), so the theorems of their modules hold in it.
  `ReportsFollowThm`: what the events that wait would make of the last report of a
  file agrees at every step with whether the file exists (`Followed`).
  `TriggersTypeThm` for all of them.
* `WorkflowProofs`: `WorkflowTypeThm`, `RetriesAreBoundedThm`,
  `TimeoutStopsRetriesThm`, `BranchesAreJoinedThm`, `OnlyEndLosesFailureThm`,
  for every definition. `WorkflowInv` adds `MachineSound`: the loop's counter of
  attempts is the number of invocations that have ended in a retry, it stays
  within a rule's MaxAttempts, and a machine that waits for a retry has begun none
  late. `BranchesAreJoined` is inductive with it, because a machine that enters a
  Parallel state finds its branches idle (`BranchesIdle`, from
  `NestingAssumption`). The last theorem is about steps: only Join ends the wait
  (`OnlyJoinEnds`), and it takes up the failure of the first branch in the list.
  `DataImplementsWorkflow` is a refinement: the execution with its documents takes
  only steps of Workflow, so that all of the above holds of it too
  (`DataKeepsBounds`).
* `WorkflowProofs`, on documents of any form and paths of any length:
  `FieldsKeptThm`, `ResultIsFoundThm`. A machine's document is changed by its own
  steps only (`DocumentIsOwn`), each of which stores one result or one caught
  error. What is stored is read back (`NestedFound`, `MergeFound`), and what lies
  apart stays (`NestedKeeps`, `MergeKeeps`), since `setNested` keeps the objects on
  its way. Reading and merging change numbers only, once (`DecodedTwice`): what is
  read back is the field as it was or its `Decoded` form (`AsRead`). `FieldsKept` asks
  for a document that decodes. `OnlyNullPanicsThm`: of all that is done to documents only the merge
  into `null` panics.
* `ChoiceIsFirstSatisfiedThm`, for plain rules of any number and depth. It rests on
  two theorems about the operators. `GlobIsMatch`: `matchGlob`, which takes the
  first occurrence of each part, finds a match whenever there is one, if nothing
  follows the last star, because what is found first ends no later than any other
  match and leaves more to the rest; what it accepts does match for every pattern
  (`GlobIsSound`). `ConditionIsMeant`: the value of a rule that is no error is what
  its operators mean, from the last condition of the list to the first. Patterns
  need strings of characters, so the invariant `DocumentsTyped` says that wherever
  a document has a string it is one: `Typed`, which is stated without induction on
  documents, by a set that holds the document and the parts of all its members.

Each proof splits `Next` into its actions, one lemma each, over lemmas on what
each registry method does to types and ports (`RegistryLemmas`). Recursion over a
path, a pattern or a rule is a recursive function on numbers; that it exists, and
what holds of its values, is proved by induction on the numbers, which
`SetInduction` states for a set. Assumptions: the named ones on the constants,
which TLC evaluates in the runs, and where a theorem says so, `OwnNames`. Markers such as `NoEntry` are no entries; what
configuration, callers and services write are JSON values with their parts
(`Document`); the conditions of a rule stand after the rule they belong to
(`IsRule`), which is how the model writes a tree.

Only model-checked: all liveness (`TasksEnd`, `EveryMessageAttempted`, `EveryRecordDelivered`,
`DeliveriesEnd`, `TicksAreMadeUp`, `LoopsEnd`, `EndsOrPanics`), which the prover
does not do. Every other property of a passing run is stated by a theorem.

## 5. What is not modelled

The gateway's routing, CORS and conversion of requests and responses, trigger
payloads, `.env` files and schedule expressions: text and data that is transformed
in one go, without state. The wording of errors. Output of the commands, metrics,
logs, image pulls beyond their failure, containers that do not run, and the
daemon's network. That `simla up` ends after SIGINT: it does if the daemon answers.
A trigger's panic on a polling interval of 0s. Two commands at
once over one daemon: RegistryStore has the processes, Commands the containers.
The run instances assume that no service's name contains another's.

## 6. Plan

Done: registry, scheduler, session, commands, all triggers, workflow executor and
documents, with their theorems. What would add most from here:

1. What patterns mean when something follows the last star: which of them
   `matchGlob` gets wrong.
2. Services that overlapped: what an operation that follows, alone, restores.
3. Commands that overlap: two processes over one file and one daemon.
4. Containers that do not run, and names that contain each other.
