# dpivot, specified

TLA+ specifications of dpivot: a TCP proxy whose backends can be changed while
it runs, and the commands that replace a service's container behind it without
dropping traffic. The modules are checked with TLC on small instances; the
theorems are proved with TLAPS for instances of every size.

## The system

| Part | State | Operations | Interacts with |
|---|---|---|---|
| Backend registry, `internal/proxy/registry.go` | a map id -> backend (address, draining flag, pointer to a counter), one mutex | Add, Remove, SetDraining; Get, Backends, Active, Len read | router, control API, start-up |
| Router, `router.go` | an atomic round-robin counter | Next | registry |
| Server, `server.go` | listeners by port, a WaitGroup | Bind, Unbind, Close, CloseGraceful, accept loops, handleConn | router, metrics, kernel |
| Metrics, `internal/metrics` | three atomic counters | ConnStart, ConnEnd, ConnFailed, WritePrometheus | server, control API |
| Proxy process, `runProxy` in `cmd/dpivot/main.go` | where it is between start and exit | bind, seed, serve, SIGTERM, drain, exit | all of the above |
| Control API, `internal/api/control.go` | none of its own | POST, DELETE, PUT drain, lists, health, metrics, token check | registry, metrics |
| Rollout and rollback, `internal/rollout/rollout.go` | a lock file and a state file per service; locals of a command | `dpivot rollout`, `dpivot rollback` | Docker, control API over HTTP, files in /tmp |
| Docker and compose (external) | containers | pull, up --scale, ps, inspect, stop, rm | rollout |
| Compose parser, detector, generator, `internal/compose`, and `dpivot generate` | the output and the summary while the loop runs | a function from compose file to compose file | the proxy's environment and a rollout's address picking, by the text of the file |
| Plugin glue, `internal/plugin` | none | strips an argument, prints metadata | Docker CLI |

What is hard about it:

- *Rollout*: a sequence of some fifteen calls to three systems, each of which
  may fail before or after it acted; signals cancel it anywhere, a kill leaves
  its files behind, and what it leaves is where the next command starts.
- *Rollback*: works from a file that some earlier command wrote, and takes no
  lock.
- *Proxy*: handlers use a copy of the registry while it changes; the drain
  counts connections that other goroutines are about to add.
- *Control API*: handlers of several steps on one registry.
- *Rollout beside traffic*: a connection is routed, dialled and piped in steps,
  by a registry that a rollout changes, to a container that a rollout stops.
- *Generate*: a loop over a map that overwrites and aborts, and parts that never
  call each other (generator, proxy start-up, rollout) and must agree by text.

What makes each part correct: the rotation is never empty, never leads to a
container that is gone, and after a rollout leads to the new container only;
one rollout at a time; the state file always describes the cut-over in
progress; a rollback brings the old backend back; a drained backend is never
chosen for a connection accepted later; round robin is even; every connection is
counted once in each counter and released once, however it ends; commands,
connections and the proxy itself come to an end; capacity never falls below what
it was and no connection is cut; the generated file depends on its input alone
and serves what the input served.

## Modules

| Module | What it is |
|---|---|
| `Registry` | the registry's methods as operators on the value of its map; used by all three systems |
| `Rollout` | rollout and rollback commands against Docker, the control API and /tmp |
| `RolloutProofs` | theorems about `Rollout`: types and the lock |
| `FleetProofs` | theorems about the containers that `Rollout`'s commands start and stop |
| `CutoverProofs` | theorems about what `Rollout`'s commands leave in the rotation and in the state file |
| `MCRollout` | `Rollout` with a symmetry set for TLC |
| `Deployment` | `Rollout` composed with the clients whose connections the proxy routes |
| `DeploymentProofs` | theorems about `Deployment` |
| `MCDeployment` | `Deployment` with a symmetry set for TLC |
| `Proxy` | the proxy process: main, accept loops, handlers, control API calls |
| `ProxyProofs` | theorems about `Proxy` |
| `MCProxy` | `Proxy` with its ports and a symmetry set for TLC |
| `ControlAPI` | the control API's handlers, request by request |
| `BackendService` | what the control API promises: calls that take effect at one moment |
| `ControlAPIProofs` | theorems about `ControlAPI`, among them that it implements `BackendService` |
| `MCControlAPI` | `ControlAPI` with a symmetry set for TLC |
| `Compose` | `dpivot generate`, the stack that its output is, and the address a rollout picks |
| `ComposeProofs` | theorems about `Compose` |
| `MCCompose` | `Compose` with the compose files that TLC tries |

Definitions whose comment starts with "Mutant" are not part of a specification:
each is an action as a plausible bug would make it, and some property fails
when it takes the place of the action below it.

### Registry

Every method holds the mutex for all of its body, so a method is one operator
and part of one atomic step of its caller. A backend is a record of address,
draining flag and the counter it points to. Methods that fail leave the store
alone; callers that look at the error test membership.

### Rollout

A command is a process with a program counter `pc[p]` that names its next call
and with locals `loc[p]`. One action is one call and what the code does with its
answer, so that a signal (`Cancel`), a kill (`Kill`), a crash of a container, a
restart of the proxy or a step of another command can come between any two.
`cont`, `created`, `store`, `lock` and `saved` are what survives a command.

| Code | Action |
|---|---|
| `lockRollout`, deferred unlock | `Acquire`, `Unlock` |
| `runWithDeps` steps 1 to 3 | `Pull`, `CountReplicas`, `ScaleUp`, `WaitHealthy`, `WaitTimeout`, `ScaleBack` |
| steps 4 to 6 | `FindOld`, `Register`, `Save` |
| steps 7 and 8 | `Drain`, `Sleep`, `DeregOld` |
| steps 9, 9b, 10 | `RemoveOld`, `DeregSeed`, `Clear` |
| `rollbackCmd`, `Rollback` | `LoadState`, `RbRegister`, `RbDrain`, `RbSleep`, `RbDereg`, `RbClear` |

The constant `Faults` names what may go wrong. `DockerFails`, `Answered` and
`Errors` say how: a cancelled context makes every call fail, without acting unless it is the
scale-up; a failing HTTP call may or may not have acted, a scale-up that fails or is
interrupted may have done nothing, a part or all.

Abstractions, and what they rest on:

- Containers are numbered in creation order and container `c` has address and
  backend id `c`. The picking of a mesh address and port out of `docker inspect`
  is in `Compose`; a Docker that hands out an address twice is not modelled.
- `docker compose up --scale` creates what is missing and removes the newest first,
  which is what `runWithDeps` says of it (rollout.go:280). `scaleService` calls it
  without `--no-recreate` (rollout.go:691), so it also stops every running container
  whose image or configuration has changed and creates it anew under a new
  number. That is the fault `"recreate"`: with it a scale-up replaces any of the
  running containers (`Outdated`, `Replaces`), without it what runs is left
  alone. How many a rollout leaves and adds and that it hands over to its new
  container do not depend on it; that capacity never falls, that the rotation
  leads nowhere dead and that no connection is cut do (see below).
- `docker stop` and `docker rm` are one step: a stopped container serves nobody.
- The lines an HTTP call takes at the far end are one step here. DELETE drains
  before it removes; for the rotation a drained backend and a removed one are
  the same.
- A rollback runs beside another command only with `"overlap"` in `Faults`. The
  code does not prevent it; the operator does.
- The documented removal of a stale lock file (`ClearStaleLock`) happens when no
  rollout runs.

### Deployment

Extends `Rollout` by client connections, each of which goes through
`handleConn`: `Route` (`Router.Next`), `Dial`, `PipeEnds`. Each action of `Rollout`
is a `CommandStep` here, which also says what becomes of connections: those piped
to a container that stops are dropped (`CutOff`).

| Code | Definition |
|---|---|
| `Router.Next` | `Routed`: some backend that is not draining, or none |
| the dial in `handleConn` | `Dialled`: some container at the backend's address; the seed is the service's DNS name and leads to any that runs |
| `pipe` | `PipeEnds` |
| the drain period of `runWithDeps` | `DrainPeriods` |

Commands and connections know nothing of each other; time relates them. The code
bets that a connection is over when the drain period is, and so does
`DrainPeriods`: a rollout that slept all of it goes on only when the connections
that were there at its start have ended. A signal that ends the sleep early
is exempt. A container that is healthy accepts a dial, one that is not may. A
proxy that restarts cuts every connection, which `DeploymentAssumption` excludes.
The detail of the handler is in `Proxy`; here its three stages are enough, because
the registry's methods are what a rollout and a connection share.

### Proxy

Connections, ports and the main goroutine are the processes; a step is what one
of them does between two accesses to what they share.

| Code | Action |
|---|---|
| `runProxy` | `Bind`, `Seed`, `Sigterm`, `Exit` |
| `Server.Unbind`, `CloseGraceful` | `Unbind`, `CloseListeners`, `Wait`, `Drained`, `DrainTimeout` |
| `acceptLoop` | `Accept`, `AcceptError`, `Retry`, `Count`, `Spawn` |
| `handleConn` | `ConnStart`, `Dial`, `PipeEnds`, `ConnEnd`, `Done` |
| `Router.Next`, `incrRequests` | `TakeSnapshot`, `Choose`, `LookupCounter`, `IncrRequests` |
| control API | `ApiAdd`, `ApiDrain`, `ApiRemove` |

`avoid`, `among`, `piped` of a connection and `retired` are history: they record
what had been drained when the connection was accepted, which registrations it
was chosen from and whether it reached a backend, and no action's guard reads them.
Counters live on the heap in the code and are cells `1 .. MaxAdds` here, so that
a re-registered id has a counter of its own. `Count` includes the panic of
`sync.WaitGroup` when an Add meets the Wait that the last Done is waking.

### ControlAPI and BackendService

net/http handles each request in a goroutine, and the handlers share the
registry. Each caller has one request at a time; `pc`, `req` and `ans` say where
its handler is, what was asked and what is answered. A step is one registry
method and the code around it; what touches nothing shared is one step.

| Code | Action |
|---|---|
| `auth`, `handleBackends`, `handleBackendByID`, validation in `addBackend` | `Dispatch` |
| `addBackend` | `AddBackend` (Add), `Respond` (Get and the answer) |
| `drainBackend` | `DrainBackend` |
| `removeBackend` | `PreDrain` (SetDraining), `RemoveBackend` (Remove) |
| `listBackends`, `handleReady` | `ListBackends`, `HandleReady` |
| the clients | `Send`, `Return` |

An id is a number and the addresses are some of the ids, because a POST without
an id uses its address as the id. A backend's counter is the number of its
registration here, which tells two registrations of one id apart; `acked`
is history: the registrations whose drain or removal a caller has been told of.

`BackendService` is what rollout and rollback take the API for, and what
`Rollout` builds on: a backend is absent, serving or draining; each call has its
effect and gets its answer in one step between question and return. Only
DELETE shows earlier (`PreDrain`). `ControlAPI` implements it with `statusBar` for
the backends, and `callBar` for the calls: a POST counts as answered when Add has
succeeded, though the handler still reads the backend back for the body.

### Compose

One behaviour is one file on its way: `ParseBytes`, then one action per service in
any order (`PassThrough`, `SkipDatabase`, `Inject`, `Reject`: Go iterates over a map
in no order), `writeComposeFile`, `ComposeUp`, and `Start` for each container
in any order.

| Code | Definition |
|---|---|
| `coerceService`, `coerceStringSlice`, `coerceEnvironment` | the same names; a field that is kept twice, typed for the generator and raw for the output, is two fields here |
| `IsDatabase`, `baseImageName`, `ShouldProxy` | the same names |
| `Generate` | `PassThrough`, `SkipDatabase`, `Inject`, `Reject`, with `Emit` |
| `buildProxyPair`, `parsePort` | `Backing`, `ProxyService`, `Joined`, `controlHostPort`, `parsePort` |
| `runProxy` with DPIVOT_BINDS, DPIVOT_TARGETS | `BindFails`, `HasControl`, `Start` |
| `containerAddr`, `pickMeshIP`, `pickBackendPort` | the same names |

A service is what its YAML says in the fields that these read: an image is the last
segment of its path and whether it is pulled by digest; ports, networks and
environment have the forms the parser tells apart (`FileAssumption`). That one
prefix before two names keeps them apart is an assumption, too (`NameAssumption`),
because names are opaque here. Docker is external: a
host port can be published once, and one above 65535 is refused. What
fails is named in `Sound`, the condition of `StackServes`: a service that has the name
of another one's proxy, host ports that meet each other or a control port,
and 9900 as a host port of the proxy itself.

## Runs

| Run | Instance | Shows |
|---|---|---|
| `MCRollout_clean` | 3 rollouts, 2 replicas, faults with an undo | each rollout hands over completely (`OnlyNewServes`) and leaves as many containers as it found (`ReplicasRestored`); types |
| `MCDeployment_faults` | 3 rollouts, 1 replica, 1 connection; signals, kills, Docker and HTTP failures | `OneRolloutAtATime`, `NeverDark`, `NoDeadRoute`, `CompletedServesNew`, `StateCoversCutover`; no connection by a container's own backend is cut (`OwnRouteServed`), at most one container more per rollout and, as nothing is re-created, never fewer healthy ones than before (`CapacityKept`) |
| `MCRollout_rollback` | 2 rollouts, 2 rollbacks; signals, kills, failing files, inspects and removals, and scale-ups that re-create any of what runs | `RollbackSwaps`; a completed rollout serves its new container (`CompletedServesNew`), and none adds more than one (`CapacityKept`) |
| `MCRollout_live` | 2 rollouts, 1 rollback, fairness; signals, crashes, proxy restarts | `CommandsEnd`, `LockReleased` |
| `MCProxy_drain` | 2 connections, 1 port, 2 ids; every fault and API call | `WgCounts`, `DrainedNeverChosen`, `MetricsExact`, `RoundRobinEven`; types |
| `MCProxy_live` | 2 connections, 1 port, 1 backend that is drained, fairness; SIGTERM, a failing bind, failing accepts and dials, unbinding | `SigtermExits`, `ConnectionsAnswered`, `RequestsExact` |
| `MCControlAPI_api` | 2 callers, ids 1 and 2 of which 1 is an address, token set, 3 registrations | `ImplementsService`, `AckedStaysOut`; types |
| `MCCompose_compose` | 2 services, one in every shape of image, skip, ports, networks and environment, the other varying in what meets the first; 3 services where a proxy takes the name of one | `ResultIsAFunction`, `ConnectivityKept`, `RolloutFollowsSeed`, `StackServes` |
| four `v_` runs | the smallest instance that shows the matter | see the next section |

Bounds. Three rollouts are what it takes for one to start from what a second one
left behind while a third is racing for the lock, and for the seed to be gone
already when the next one fails. `MaxContainers` gives each rollout the container it creates; with
it reached a scale-up can only fail. In `MCRollout_rollback` it is 6, what two
rollouts create when each replaces all it finds. Two connections interleave every pair of
handler steps, and one of them can be overtaken by every registry change;
`MaxAdds` allows the re-registration of an id. Two callers overlap every two
handlers, the third registration is one that follows a removal while another id
is there; a third caller (with one id) finds nothing more. Two connections over two backends
are also the smallest case in which round robin can be uneven. The liveness run of
the proxy has one backend, so that a drain leaves none; `RequestsExactAlways` is for any
number. One connection in `Deployment` is
any connection: connections do not influence each other but by the round robin,
which is a free choice there. In `Compose` two services are what it takes for ports,
names and networks to meet, and a third one to miss the networks of a service
that a proxy has replaced; the port lists have 3000 and its control port 9900,
3001, 60000 whose control port is too high, one port on two addresses, a port
without a host and one that is refused. Symmetry is used
in the runs without temporal properties; connections, rollouts and rollbacks
are interchangeable in `Init` and `Next`.

`CHECK_DEADLOCK FALSE` in all runs but one: commands end,
connections close, the proxy exits, a file is generated and its stack is up, and then nothing is left to do. The
control API never stops, and its run checks deadlock: the bound on registrations
is in `Send`, so that it keeps clients from asking and never a handler from
answering.

Which faults a run leaves out matters as much as which it has:

- `"recreate"` is in `MCRollout_rollback` and in `v_recreate` only: `NoDeadRoute`,
  `OwnRouteServed`, `OnlyNewServes` and the first half of `CapacityKept` are about dpivot's own
  order of register, drain, wait and stop, and a container that compose stops at step 2
  is stopped outside that order. `CapacityKept` says so in its formula, the others in
  their comments and in the theorems' hypotheses.
- `faults` has no `"pull"` and `"inspect"`, which are in `clean` and end a rollout
  before it changes anything or where a failed POST does too; no `"ps"`, `"crash"`, `"restart"` and `"overlap"`, which break its
  properties (see below), and no `"disk"`, without which `StateCoversCutover`
  cannot fail for the one reason the code accepts (`Save`'s error is dropped).
- `clean` has only faults that the code undoes.
- `rollback` has no `"http"` and `"restart"`: a rollback ignores a failed drain, and
  a restarted proxy has forgotten what was restored. It has no `"crash"`, which breaks
  `CompletedServesNew`; `RollbackSwapsAlways` allows it.
- `MCRollout_live` has no `"kill"`: a killed rollout leaves its lock to the operator.

Fairness. `Rollout!FairSpec` assumes that a command that was started gets to
take its next step: it is an operating-system process, `docker` ends, the
health deadline and the drain period are timers, and the control API answers.
`http.DefaultClient` has no timeout, so the last is an assumption about the proxy
and not a guarantee of the command. Nothing is assumed about containers getting
healthy, about operators or about new commands. `Proxy!FairSpec` assumes
that goroutines are scheduled and that a dial ends, which `dialTimeout` bounds. An
`Accept` may fail any number of times, after each of which the loop pauses and tries
again, but not for ever (`SF_vars` on `Accept`): the loop takes the error for transient
and has no other way out than the closing of its port. Nothing is assumed about clients, backends (pipes may last for ever) and callers
of the control API.

## Where code and documentation part

| Run | Property | What happens |
|---|---|---|
| `v_rollback` | `RollbackRestores` | the second rollout is interrupted in its drain period. The old backend is registered, draining; the rollback's POST is a 409 and counts as restored; then the new backend is drained. If the first rollout had completed, its seed is gone and no backend is left in the rotation |
| `v_recreate` | `OnlyNewServes` | the image has changed and the scale-up of the second rollout re-creates the container that the first one registered. The rollout drains the id of the re-created one (404) and completes; the backend of the container that is gone stays in the rotation for good, and the round robin goes on choosing it. how-it-works.md:109 has the new container start "alongside the first", and :125 only the new one get connections |
| `v_drop` | `CompletedDropsNone` | in the first rollout the drain finds no backend under the old container's id, and the seed, a DNS name, keeps routing new connections to the old container until step 9b. Step 9 stops that container and cuts one; the rollout reports success, where README.md:52 says "Zero connections dropped." |
| `v_wait` | `DrainSeesAccepted` | between `Accept` and `Add(1)` the accept loop holds a connection that `Wait` does not see |

Others can be reproduced by changing a constant, and have no run because
nothing in the repository says otherwise or because a run above has the
same cause:

- `RollbackRestores` with one rollout and `Faults = {"kill"}`: killed between the
  removal of the old container and of the state file, the rollback restores an
  address nobody listens on and drains the container that works.
- `NoDeadRoute` and `OwnRouteServed` with two rollouts and `Faults = {"recreate"}`: a
  registered container is stopped at step 2, with the connections that are piped to it.
- `NoDeadRoute` with `Faults = {"ps"}`: `findOldContainer` fails, and the scale-down
  removes the newest container, the one just registered.
- `CompletedServesNew` with `Faults = {"restart"}`: the restarted proxy knows only
  the seed, which step 9b removes.
- `CompletedServesNew` with three rollouts, two replicas and `Faults = {"kill",
  "crash"}`: a rollout is killed in its drain period; when the two newest containers
  have exited, the one it was draining passes for the new one of the next rollout,
  whose POST is a 409.
- `NeverDark` with one rollback and `Faults = {"overlap"}`.
- `RequestsExact` with `Ops = {"add", "remove"}` and `MaxAdds = 2`: a count is
  credited to the backend that was registered under the id in the meantime.

Read off the code while modelling, and in no run, because one
service, command or connection suffices to see them:

- getting-started.md:248 offers a rollback for a deployment that looks bad after
  the rollout completes; step 10 of that rollout has removed the file it needs.
- `handleConn` dials the backend's one address and never reads `PortBinding.TargetPort`: a
  connection to the second port of a service goes to the first one's container port,
  where README.md:249 says "Multiple ports work natively".
- main.go:165 has a failing healthcheck scale "back to 1"; the code scales back to the
  count it found, as line 163 says, and so does `ReplicasRestored`.
- README.md:10 promises that the host port is not dark "during container restarts". A
  restart of the service's container is a crash and a new container here; one of the
  proxy's own container loses what was registered, and `"restart"` is excluded from
  `NeverDark` (`RotationNeverEmpty`).
- Networks written as a map are kept raw by the parser (parser.go:113) and
  overwritten by the generator (generator.go:114), where how-it-works.md:199 says
  "preserved verbatim". `ConnectivityKept` excludes them (`Loses`).
- A variable without a value becomes "" or "<nil>" in a proxied service (parser.go:202,
  188) and is no longer inherited from the host.
- `x-dpivot` is written to the output of a skipped service, where configuration.md:86
  says it is stripped.
- `postgres@sha256:...` is not taken for a database: the digest's colon is cut off
  as a tag.
- A port range, `/udp` or the long form of a port fails the whole generation; an
  address in front of a port is dropped, and a container port alone becomes a
  fixed host port.
- A service that is called like another one's proxy replaces it or is replaced,
  depending on the order of the loop. If it is replaced its networks are gone, too,
  and a third service cannot reach what has its name.

## Proofs

Every safety property that a passing run checks is a theorem: the run shows
it on a small instance, the theorem for every value of the constants. Seven
modules hold them. In each, an invariant is shown inductive action by
action, and the property follows from it; each invariant was checked by TLC
before it was proved.

### Rollout (`RolloutProofs`, `FleetProofs`, `CutoverProofs`)

For every set of rollouts and rollbacks, every number of replicas and every bound
on containers, from `RolloutAssumption`:

| Theorem | Property | What it leaves out |
|---|---|---|
| `TypeCorrect` | `TypeOK` | nothing |
| `MutualExclusion` | `OneRolloutAtATime` | nothing |
| `ReplicasRestoredAlways` | `ReplicasRestored` | scale, rm, http, signal, kill, crash |
| `RotationNeverEmpty` | `NeverDark` | rollbacks; restart |
| `CompletedServesNewAlways` | `CompletedServesNew` | overlap, if there are rollbacks; crash, restart |
| `NoDeadRouteAlways` | `NoDeadRoute` | rollbacks; ps, crash, recreate |
| `StateCoversCutoverAlways` | `StateCoversCutover` | overlap, if there are rollbacks; disk |
| `RollbackSwapsAlways` | `RollbackSwaps` | http, restart, overlap |
| `OnlyNewServesAlways` | `OnlyNewServes` | overlap, if there are rollbacks; scale, recreate, ps, http, signal, kill, crash, restart |

What a theorem leaves out is necessary: beside what it allows, TLC finds the
property violated on a small instance for each entry of the last column (two or
three rollouts, one or two replicas, at most one rollback). So the table says at the
same time what dpivot does not survive: a container that exits by itself, a proxy
that restarts, a `docker ps` that fails in the middle, a `docker compose up` that
re-creates a registered container, a rollback.

The invariants:

- `LockInv`. `OneRolloutAtATime` alone is not inductive: a second rollout could pass a
  lock that the first no longer holds. A rollout past the lock implies that
  the lock file exists; that the unlock is deferred, so taken at most once per
  acquisition, and that a stale file is only removed when no rollout runs, keep it.
- `FleetInv` adds what runs: from the scale-up to the removal there is one container
  more than the rollout has counted, the newest is the new one and the old one is
  another. So the scale-up adds one container, whatever it re-creates (`ScaleUpOne`,
  `ReplacesRun`), or at most that if it fails (`ScaleUpPart`), and the scale-down and
  the removal stop exactly the one the code means (`ScaleDownOne`); `ContainerCalls`
  is all three. Every other step leaves the fleet alone (`Beside`). Only a crash
  breaks it; a re-creating scale-up that fails may leave nothing running, and keeps it. `CountInv` (for `ReplicasRestored`) adds the number at each call.
- `LastInv` (for `NeverDark`). Of all backends that the registry has, the one of the
  newest container is in the rotation. A rollout takes the old backend and the seed
  out, and both are older than its own. This holds even if containers exit and an
  old one passes for the new one: then its POST may be a 409 for a backend that
  is draining, but that backend is not the newest.
- `CutoverInv` (for `CompletedServesNew`) adds to `FleetInv` that what a rollout registers
  is a container the registry has never heard of, so that the 409 cannot
  happen, and that from then on the new backend is in the rotation and neither the
  seed nor the old backend. Rollbacks between rollouts keep it because they know
  containers of the past only (`Recorded`).
- `AliveInv` (for `NoDeadRoute`) adds to `FleetInv` that each backend in the rotation but
  the seed is a healthy container (`Served`), and that the containers a rollout stops
  are in no rotation: the fresh one it gives up is not registered, the old one
  is drained. A restart of the proxy leaves the seed alone, so keeps it.
- `CleanInv` (for `OnlyNewServes`) adds to both `Rotation`: between rollouts the rotation
  is the seed alone or the newest container alone, which is the one the next rollout
  finds to be the old one. `NothingToUndo` is there because the theorem allows
  rollbacks: after rollouts that ran to their end there is no state file.
- `StateInv` needs of a rollback only that it keeps apart (`Apart`).
- `SwapInv` (for `RollbackSwaps`) says that a state file, and so the locals of a
  rollback, names two different backends (`TwoBackends`): the drain of the one would
  otherwise undo the restoring of the other.

### Deployment (`DeploymentProofs`)

For any number of connections as well. A container that exits by itself breaks both
properties; a failing docker ps, a re-creating scale-up and a rollback break the second one.

- `CapacityKeptAlways`: `DeploySpec => []CapacityKept`, without crash. On `FleetInv`, so beside
  any rollback. `Capacity` bounds the running containers from above by the rollouts that
  have scaled up, also where the scale-up re-creates what runs and fails on the way
  (`SizeRollout`). Where nothing is re-created, which the property has as a
  condition, it bounds the healthy ones from below at each call (in the health
  wait those other than the new one).
- `OwnRouteServedAlways`: `DeploySpec => []OwnRouteServed`, without rollbacks, ps, crash and
  recreate. On `AliveInv` and `LastInv`. `Connected` relates `found`,
  the connections a rollout waits for, to the container it is going to stop: one that
  is routed there by its own backend was there when the drain period began, because
  the backend has been out of the rotation since.

### Proxy (`ProxyProofs`)

For every set of connections, ports and ids, without an assumption that
connections or ports are finitely many (that finitely many have been seen is
an invariant, `Finite`), under every fault and every call of the control API:

- `TypeOKAlways`, `WgCountsAlways`, `MetricsExactAlways`. `Counts` is inductive: the
  numbers are those of connections in certain stages, and a step moves one of them
  (`StageCount`). That the WaitGroup is never negative follows from it.
- `DrainedNeverChosenAlways`: `Fresh` says that no two registrations share a counter,
  that what was retired is never active again, and that what a handler has snapped is
  disjoint from what had been retired at its accept.
- `RequestsExactAlways`, if `"remove"` is not among the operations (see "reproduced by
  changing a constant" above).
- `RoundRobinEvenAlways`: `Even` is that after n choices each of the b backends has
  been given n div b, and the first n mod b of them one more. The statement is about
  *registrations*: a backend that is removed and added again under its id is another
  one. A form of the property that went by ids was false on larger
  instances, which the attempt to prove it showed.

### Control API (`ControlAPIProofs`)

For every set of callers, ids and addresses, with or without a token, from
`ControlAssumption` (ids are positive numbers, and addresses can serve as ids):

- `ControlTyped`: `Spec => []TypeOK`.
- `AckedDrainLasts`: `Spec => []AckedStaysOut`. Not inductive alone: between the
  drain and the return the registration is known to the handler only.
  `AckInv` covers the answers on their way (`ans[c].reg`); that an active
  backend is not one of them needs the uniqueness of registrations (`TypeOK`)
  and that only an Add, with a new number, brings one into the rotation
  (`DrainActive`, `AddActive`).
- `ServiceImplemented`: `Spec => ImplementsService`. `HandlerInv` says what
  dispatching has made sure of for later steps (a target, an operation, no answer
  yet); `StatusOps` and `CallOps` translate the registry's mutations and the
  handlers' moves to the service's state, and `Simulation` maps each action:
  `Send` to `Ask`, `AddBackend` to `Post`, `DrainBackend` to `Put`, `PreDrain` to
  `PreDrain` or nothing, `RemoveBackend` to `Delete`, `Respond` to nothing, and
  so on.

### Compose (`ComposeProofs`)

For every set of compose files, with any number of services, ports and networks,
from `FileAssumption` and `NameAssumption`:

- `ResultIsAFunctionAlways`. `LoopInv` says of any part of the loop what `Whole` says
  of all of it: each service the loop has come to is on its list and has in the
  output what it should, unless a proxy has its name.
- `ConnectivityKeptAlways`. The proof needs that no proxy takes the name of either
  service; with three services TLC shows why, and the property says so now
  (`Loses`).
- `RolloutFollowsSeedAlways`: from `LoopInv` and the definitions of both ends.
- `StackServesAlways`. Of the generated file alone: a service of the output publishes
  what the one service that it fronts claims (`ClaimedBy`), the claims of two
  services of a sound file are disjoint (`ClaimsApart`), no proxy binds twice
  (`ProxyRuns`). `StackInv` then says that each container that was started runs and that
  its host ports lead to it. So `Sound` names everything that can go wrong, for
  files of every size.

### Only model-checked

`CommandsEnd`, `LockReleased`, `SigtermExits` and `ConnectionsAnswered`: liveness under
fairness is outside the proof system. The four `v_` runs are
counterexamples. Liveness apart, the properties of all passing runs are
proved, in the cases of `RequestsExact` and of the tables above under the hypotheses
named there, which the runs satisfy as well.

## Not modelled

- `/metrics` between the two atomic adds of `ConnStart`, which are one step here.
- Ports or expose of a YAML type that `coerceStringSlice` refuses: of the errors of `ParseBytes`
  only the environment's is there, and it stands for them (the file is refused as a whole).
- The control API's routes that read and answer alike in every state (`/health`,
  `/health/live`), `/metrics`, its 405 answers and the bodies of answers.
- Of a compose file: YAML, labels, `depends_on`, and the top-level sections, of which
  `networks` and `volumes` are copied and the rest is dropped.
- The plugin glue; `status`, `version` and the unimplemented `scale`.
- DPIVOT_BINDS and DPIVOT_TARGETS other than the generator writes them.
- The bytes of a pipe, the half-close, and the text of metrics, logs and errors.
- Overflow of the round-robin counter (2^63 connections on a 64-bit build).

## Plan

In order of what they add:

1. `Rollout` over `BackendService`: its `Registered`, `Drained` and `Deregistered`
   against the service's calls.
2. An abstract specification of what a rollout promises, one rotation that is handed
   from container to container, and `Rollout` shown to implement it under the faults
   of `OnlyNewServesAlways`.
