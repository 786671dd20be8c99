------------------------------- MODULE Rollout -------------------------------
(***************************************************************************)
(* `dpivot rollout` and `dpivot rollback` (internal/rollout/rollout.go) of *)
(* one service, against the Docker host that runs its containers and the   *)
(* proxy that routes to them.  Every command is a process of its own that  *)
(* shares with the others only what outlives a command:                    *)
(*   cont, created   the service's containers, numbered in creation order, *)
(*   store           the proxy's registry, behind its HTTP control API,    *)
(*   lock            whether /tmp/dpivot-rollout-<service>.lock exists,    *)
(*   saved           the contents of /tmp/dpivot-<service>-state.json.     *)
(* A step of a command is one call it makes to Docker, to the control API  *)
(* or to the file system, together with what it does with the answer.      *)
(*                                                                         *)
(* Container c is registered as backend c ("<service>-<id>" in the code)   *)
(* at address c; backend Seed is the DNS name the proxy is started with.   *)
(***************************************************************************)
EXTENDS Integers, FiniteSets, Registry

CONSTANTS Rollouts,       \* runs of `dpivot rollout`
          Rollbacks,      \* runs of `dpivot rollback`
          Replicas,       \* containers of the service before the first rollout
          MaxContainers,  \* bound: containers ever created
          Faults          \* what may go wrong, see FaultKinds

FaultKinds ==
    { "pull",      \* docker compose pull fails
      "scale",     \* docker compose up --scale fails, before or after it acted
      "recreate",  \* docker compose up finds what runs out of date, see Outdated
      "ps",        \* docker ps fails
      "inspect",   \* docker inspect of the old container fails
      "rm",        \* docker stop / docker rm fails
      "disk",      \* the state file cannot be written
      "http",      \* a control API call fails, before or after it acted
      "signal",    \* SIGINT or SIGTERM to a command: its context is cancelled
      "kill",      \* a command dies on the spot
      "restart",   \* the proxy restarts and is seeded from DPIVOT_TARGETS
      "crash",     \* a container exits by itself
      "overlap" }  \* a rollback runs beside another command

Procs      == Rollouts \cup Rollbacks
Containers == 1 .. MaxContainers
Seed       == 0                       \* backend "<service>-default"
Dns        == 0                       \* its address, the service's DNS name
NoId       == 0                       \* the empty string in oldID, OldAddr
NoState    == [old |-> NoId, oldAddr |-> NoId, new |-> NoId]

ASSUME RolloutAssumption ==
    /\ Rollouts \cap Rollbacks = {}
    /\ Replicas \in Nat \ {0}
    /\ MaxContainers \in Nat
    /\ Replicas <= MaxContainers
    /\ Faults \subseteq FaultKinds

VARIABLES cont,       \* [Containers -> Status]
          created,    \* containers 1 .. created have been created
          store,      \* the proxy's registry
          lock,       \* the lock file exists
          saved,      \* the rollout state file
          pc,         \* the next call of each command
          loc,        \* its local variables
          cancelled   \* the commands whose context is cancelled

vars == <<cont, created, store, lock, saved, pc, loc, cancelled>>

Status == {"none", "starting", "healthy", "unhealthy", "gone"}

\* The calls between the first one after a successful lockRollout and the
\* deferred unlock; "finish" and "abort" are that unlock.
Critical == {"pull", "count", "scale", "wait", "scaleBack", "find", "register",
             "save", "drain", "sleep", "dereg", "rm", "seed", "clear",
             "finish", "abort"}
RollbackPcs == {"rbRegister", "rbDrain", "rbSleep", "rbDereg", "rbClear"}
Ended == {"done", "failed", "refused", "killed"}

\* What `docker ps` lists.
Running == {c \in Containers : cont[c] \in {"starting", "healthy", "unhealthy"}}

IsNewest(c, S) == c \in S /\ \A d \in S : d <= c

\* The containers a new connection to backend i may reach.
Resolves(i) == IF i = Seed THEN Running ELSE {i} \cap Running

Init ==
    /\ cont = [c \in Containers |-> IF c <= Replicas THEN "healthy" ELSE "none"]
    /\ created = Replicas
    /\ store = Add(NewRegistry, Seed, Dns, 0)
    /\ lock = FALSE
    /\ saved = NoState
    /\ pc = [p \in Procs |-> "idle"]
    /\ loc = [p \in Procs |-> [replicas |-> 0, old |-> NoId, oldAddr |-> NoId, new |-> NoId]]
    /\ cancelled = {}

-----------------------------------------------------------------------------
(* What every call has in common. *)

Goto(p, to) == pc' = [pc EXCEPT ![p] = to]
SetLoc(p, field, value) == loc' = [loc EXCEPT ![p][field] = value]

\* A command of Docker fails if its context is cancelled or Docker fails.
DockerFails(p, fault) == p \in cancelled \/ fault \in Faults

\* A control API call that would make the registry s answers as the caller
\* wants, or ends in an error: a cancelled context sends nothing, a lost
\* connection leaves open whether the proxy has served the request.
Answered(p, s) == p \notin cancelled /\ store' = s
Errors(p, s) == \/ p \in cancelled /\ store' = store
                \/ "http" \in Faults /\ store' \in {store, s}

\* POST /backends, with 409 taken as success; PUT /backends/{id}/drain and
\* DELETE /backends/{id}, with 404 taken as success.
Registered(id, addr) == Add(store, id, addr, 0)
\* Mutant: the drain answers 204 and marks nothing.
DrainIgnored(id) == store
Drained(id)          == SetDraining(store, id)
Deregistered(id)     == Remove(store, id)

\* Mutant: n is taken as the number of containers to add.
ScaleBy(n) ==
    /\ created' = created + n
    /\ cont' = [c \in Containers |->
                  IF created < c /\ c <= created + n THEN "starting" ELSE cont[c]]

\* The containers out are stopped and n new ones are created.
Replaces(out, n) ==
    /\ created + n <= MaxContainers
    /\ created' = created + n
    /\ cont' = [c \in Containers |->
                  IF c \in out THEN "gone"
                  ELSE IF created < c /\ c <= created + n THEN "starting" ELSE cont[c]]

\* Without --no-recreate docker compose up stops every container whose image or
\* configuration has changed and creates it anew.
Outdated == IF "recreate" \in Faults THEN SUBSET Running ELSE {{}}

\* docker compose up --scale <service>=n: what is out of date is replaced, what
\* is missing is created, and what is too much is removed, the newest first.  A
\* scale-down comes after the same command's scale-up: all is up to date.
ScaleTo(n) ==
    LET r == Cardinality(Running)
    IN  \/ n >= r /\ \E out \in Outdated : Replaces(out, (n - r) + Cardinality(out))
        \/ /\ n < r
           /\ cont' = [c \in Containers |->
                         IF c \in Running /\ Cardinality({d \in Running : d >= c}) <= r - n
                         THEN "gone" ELSE cont[c]]
           /\ UNCHANGED created

\* A scale-up to n that fails or is interrupted has done nothing, a part or all.
ScalePartly(n) ==
    \E out \in Outdated :
        \E m \in 0 .. ((n - Cardinality(Running)) + Cardinality(out)) : Replaces(out, m)

RollbacksQuiet == \A p \in Rollbacks : pc[p] \notin RollbackPcs
RolloutsQuiet  == \A p \in Rollouts : pc[p] \notin Critical

-----------------------------------------------------------------------------
(* dpivot rollout *)

\* Mutant: the lock file is opened without O_EXCL.
AcquireShared(p) ==
    /\ pc[p] = "idle"
    /\ lock' = TRUE /\ Goto(p, "pull")
    /\ UNCHANGED <<cont, created, store, saved, loc, cancelled>>

\* lockRollout creates the lock file with O_EXCL.  The code has nothing that
\* keeps a rollback away; without "overlap" its operator does.
Acquire(p) ==
    /\ pc[p] = "idle"
    /\ RollbacksQuiet \/ "overlap" \in Faults
    /\ \/ ~lock /\ lock' = TRUE /\ Goto(p, "pull")
       \/ lock /\ Goto(p, "refused") /\ UNCHANGED lock
    /\ UNCHANGED <<cont, created, store, saved, loc, cancelled>>

\* Without --pull there is no call and nothing that can fail.
Pull(p) ==
    /\ pc[p] = "pull"
    /\ \/ Goto(p, "count")
       \/ DockerFails(p, "pull") /\ Goto(p, "abort")
    /\ UNCHANGED <<cont, created, store, lock, saved, loc, cancelled>>

CountReplicas(p) ==
    /\ pc[p] = "count"
    /\ \/ /\ p \notin cancelled
          /\ SetLoc(p, "replicas", Cardinality(Running))
          /\ Goto(p, "scale")
       \/ DockerFails(p, "ps") /\ Goto(p, "abort") /\ UNCHANGED loc
    /\ UNCHANGED <<cont, created, store, lock, saved, cancelled>>

\* A failed scale-up is not undone.
ScaleUp(p) ==
    /\ pc[p] = "scale"
    /\ \/ p \notin cancelled /\ ScaleTo(loc[p].replicas + 1) /\ Goto(p, "wait")
       \/ DockerFails(p, "scale") /\ ScalePartly(loc[p].replicas + 1) /\ Goto(p, "abort")
    /\ UNCHANGED <<store, lock, saved, loc, cancelled>>

\* Mutant: a healthcheck that is still starting does not hold the rollout up.
WaitNotUnhealthy(p) ==
    /\ pc[p] = "wait"
    /\ p \notin cancelled
    /\ Cardinality(Running) >= 2
    /\ \E c \in Running :
          /\ IsNewest(c, Running)
          /\ cont[c] # "unhealthy"
          /\ SetLoc(p, "new", c)
    /\ Goto(p, "find")
    /\ UNCHANGED <<cont, created, store, lock, saved, cancelled>>

\* inspectNewestHealthy: of two or more containers the newest is neither
\* starting nor unhealthy.
WaitHealthy(p) ==
    /\ pc[p] = "wait"
    /\ p \notin cancelled
    /\ Cardinality(Running) >= 2
    /\ \E c \in Running :
          /\ IsNewest(c, Running)
          /\ cont[c] = "healthy"
          /\ SetLoc(p, "new", c)
    /\ Goto(p, "find")
    /\ UNCHANGED <<cont, created, store, lock, saved, cancelled>>

\* Mutant: no deadline.
WaitForever(p) ==
    /\ pc[p] = "wait" /\ p \in cancelled
    /\ Goto(p, "scaleBack")
    /\ UNCHANGED <<cont, created, store, lock, saved, loc, cancelled>>

\* The deadline, or a cancelled context.
WaitTimeout(p) ==
    /\ pc[p] = "wait"
    /\ Goto(p, "scaleBack")
    /\ UNCHANGED <<cont, created, store, lock, saved, loc, cancelled>>

\* Mutant: a new container that never got healthy is left running.
KeepUnhealthy(p) ==
    /\ pc[p] = "scaleBack"
    /\ Goto(p, "abort")
    /\ UNCHANGED <<cont, created, store, lock, saved, loc, cancelled>>

\* The error of this scale-down is dropped.
ScaleBack(p) ==
    /\ pc[p] = "scaleBack"
    /\ \/ p \notin cancelled /\ ScaleTo(loc[p].replicas)
       \/ DockerFails(p, "scale") /\ UNCHANGED <<cont, created>>
    /\ Goto(p, "abort")
    /\ UNCHANGED <<store, lock, saved, loc, cancelled>>

\* Mutant: the new container is not skipped.
FindNewest(p) ==
    /\ pc[p] = "find"
    /\ \/ p \notin cancelled /\ \E c \in Running : IsNewest(c, Running) /\ SetLoc(p, "old", c)
       \/ (Running = {} \/ DockerFails(p, "ps")) /\ SetLoc(p, "old", NoId)
    /\ Goto(p, "register")
    /\ UNCHANGED <<cont, created, store, lock, saved, cancelled>>

\* The newest container other than the new one; without one the rollout
\* goes on with an empty oldID.
FindOld(p) ==
    /\ pc[p] = "find"
    /\ LET others == Running \ {loc[p].new}
       IN  \/ /\ p \notin cancelled
              /\ \E c \in others : IsNewest(c, others) /\ SetLoc(p, "old", c)
           \/ /\ others = {} \/ DockerFails(p, "ps")
              /\ SetLoc(p, "old", NoId)
    /\ Goto(p, "register")
    /\ UNCHANGED <<cont, created, store, lock, saved, cancelled>>

\* Mutant: an error of POST /backends is a warning, too.
RegisterOrWarn(p) ==
    /\ pc[p] = "register"
    /\ LET s == Registered(loc[p].new, loc[p].new)
       IN  Answered(p, s) \/ Errors(p, s)
    /\ Goto(p, "save")
    /\ UNCHANGED <<cont, created, lock, saved, loc, cancelled>>

\* A rollout that cannot register leaves the new container running.
Register(p) ==
    /\ pc[p] = "register"
    /\ LET s == Registered(loc[p].new, loc[p].new)
       IN  \/ Answered(p, s) /\ Goto(p, "save")
           \/ Errors(p, s) /\ Goto(p, "abort")
    /\ UNCHANGED <<cont, created, lock, saved, loc, cancelled>>

\* Mutant: a state file that is there is not overwritten.
SaveOnce(p) ==
    /\ pc[p] = "save"
    /\ saved' = IF saved = NoState
                THEN [old |-> loc[p].old, oldAddr |-> loc[p].old, new |-> loc[p].new]
                ELSE saved
    /\ Goto(p, "drain")
    /\ UNCHANGED <<cont, created, store, lock, loc, cancelled>>

\* The address of the old container is looked up first, and left empty if
\* that fails; the error of Save is dropped.
Save(p) ==
    /\ pc[p] = "save"
    /\ \E oldAddr \in {loc[p].old, NoId} :
          /\ oldAddr = NoId =>
                loc[p].old \notin Running \/ DockerFails(p, "inspect")
          /\ oldAddr # NoId => oldAddr \in Running /\ p \notin cancelled
          /\ \/ saved' = [old |-> loc[p].old, oldAddr |-> oldAddr, new |-> loc[p].new]
             \/ "disk" \in Faults /\ saved' \in {saved, NoState}
    /\ Goto(p, "drain")
    /\ UNCHANGED <<cont, created, store, lock, loc, cancelled>>

Drain(p) ==
    /\ pc[p] = "drain"
    /\ \/ loc[p].old = NoId /\ Goto(p, "sleep") /\ UNCHANGED store
       \/ /\ loc[p].old # NoId
          /\ \/ Answered(p, Drained(loc[p].old)) /\ Goto(p, "sleep")
             \/ Errors(p, Drained(loc[p].old)) /\ Goto(p, "abort")
    /\ UNCHANGED <<cont, created, lock, saved, loc, cancelled>>

\* The drain period, or a cancelled context.
Sleep(p) ==
    /\ pc[p] = "sleep"
    /\ Goto(p, IF p \in cancelled THEN "abort" ELSE "dereg")
    /\ UNCHANGED <<cont, created, store, lock, saved, loc, cancelled>>

\* From here on every error is at most a warning.
DeregOld(p) ==
    /\ pc[p] = "dereg"
    /\ \/ loc[p].old = NoId /\ UNCHANGED store
       \/ /\ loc[p].old # NoId
          /\ \/ Answered(p, Deregistered(loc[p].old))
             \/ Errors(p, Deregistered(loc[p].old))
    /\ Goto(p, "rm")
    /\ UNCHANGED <<cont, created, lock, saved, loc, cancelled>>

\* With an oldID docker stop and docker rm, without one a scale-down.
RemoveOld(p) ==
    /\ pc[p] = "rm"
    /\ \/ /\ loc[p].old # NoId
          /\ p \notin cancelled
          /\ cont' = [cont EXCEPT ![loc[p].old] = "gone"]
          /\ UNCHANGED created
       \/ /\ loc[p].old # NoId
          /\ DockerFails(p, "rm")
          /\ UNCHANGED <<cont, created>>
       \/ loc[p].old = NoId /\ p \notin cancelled /\ ScaleTo(loc[p].replicas)
       \/ /\ loc[p].old = NoId
          /\ DockerFails(p, "scale")
          /\ UNCHANGED <<cont, created>>
    /\ Goto(p, "seed")
    /\ UNCHANGED <<store, lock, saved, loc, cancelled>>

DeregSeed(p) ==
    /\ pc[p] = "seed"
    /\ Answered(p, Deregistered(Seed)) \/ Errors(p, Deregistered(Seed))
    /\ Goto(p, "clear")
    /\ UNCHANGED <<cont, created, lock, saved, loc, cancelled>>

Clear(p) ==
    /\ pc[p] = "clear"
    /\ saved' = NoState
    /\ Goto(p, "finish")
    /\ UNCHANGED <<cont, created, store, lock, loc, cancelled>>

\* Mutant: unlock is called at the end and not deferred.
UnlockAtEnd(p) ==
    /\ pc[p] \in {"finish", "abort"}
    /\ lock' = (pc[p] = "abort")
    /\ Goto(p, IF pc[p] = "finish" THEN "done" ELSE "failed")
    /\ UNCHANGED <<cont, created, store, saved, loc, cancelled>>

\* The deferred unlock removes the lock file, whoever made it.
Unlock(p) ==
    /\ pc[p] \in {"finish", "abort"}
    /\ lock' = FALSE
    /\ Goto(p, IF pc[p] = "finish" THEN "done" ELSE "failed")
    /\ UNCHANGED <<cont, created, store, saved, loc, cancelled>>

RolloutStep(p) ==
    \/ Pull(p) \/ CountReplicas(p) \/ ScaleUp(p)
    \/ WaitHealthy(p) \/ WaitTimeout(p) \/ ScaleBack(p)
    \/ FindOld(p) \/ Register(p) \/ Save(p) \/ Drain(p) \/ Sleep(p)
    \/ DeregOld(p) \/ RemoveOld(p) \/ DeregSeed(p) \/ Clear(p) \/ Unlock(p)

-----------------------------------------------------------------------------
(* dpivot rollback.  It takes no lock. *)

\* rollbackCmd reads the state file, and Rollback refuses a state without an
\* old backend or its address.
LoadState(p) ==
    /\ pc[p] = "idle"
    /\ \/ "overlap" \in Faults
       \/ RolloutsQuiet /\ RollbacksQuiet
    /\ \/ /\ saved.old = NoId \/ saved.oldAddr = NoId
          /\ Goto(p, "failed")
          /\ UNCHANGED loc
       \/ /\ saved.old # NoId /\ saved.oldAddr # NoId
          /\ loc' = [loc EXCEPT ![p].old = saved.old,
                                ![p].oldAddr = saved.oldAddr,
                                ![p].new = saved.new]
          /\ Goto(p, "rbRegister")
    /\ UNCHANGED <<cont, created, store, lock, saved, cancelled>>

\* A 409, an old backend that is still registered, is a success: what it is
\* then, draining or not, it stays.
RbRegister(p) ==
    /\ pc[p] = "rbRegister"
    /\ LET s == Registered(loc[p].old, loc[p].oldAddr)
       IN  \/ Answered(p, s) /\ Goto(p, "rbDrain")
           \/ Errors(p, s) /\ Goto(p, "failed")
    /\ UNCHANGED <<cont, created, lock, saved, loc, cancelled>>

\* Mutant: the wrong one of the two is drained.
RbDrainOld(p) ==
    /\ pc[p] = "rbDrain"
    /\ Answered(p, Drained(loc[p].old)) \/ Errors(p, Drained(loc[p].old))
    /\ Goto(p, "rbSleep")
    /\ UNCHANGED <<cont, created, lock, saved, loc, cancelled>>

RbDrain(p) ==
    /\ pc[p] = "rbDrain"
    /\ Answered(p, Drained(loc[p].new)) \/ Errors(p, Drained(loc[p].new))
    /\ Goto(p, "rbSleep")
    /\ UNCHANGED <<cont, created, lock, saved, loc, cancelled>>

RbSleep(p) ==
    /\ pc[p] = "rbSleep"
    /\ Goto(p, IF p \in cancelled THEN "failed" ELSE "rbDereg")
    /\ UNCHANGED <<cont, created, store, lock, saved, loc, cancelled>>

RbDereg(p) ==
    /\ pc[p] = "rbDereg"
    /\ Answered(p, Deregistered(loc[p].new)) \/ Errors(p, Deregistered(loc[p].new))
    /\ Goto(p, "rbClear")
    /\ UNCHANGED <<cont, created, lock, saved, loc, cancelled>>

RbClear(p) ==
    /\ pc[p] = "rbClear"
    /\ saved' = NoState
    /\ Goto(p, "done")
    /\ UNCHANGED <<cont, created, store, lock, loc, cancelled>>

RollbackStep(p) ==
    RbRegister(p) \/ RbDrain(p) \/ RbSleep(p) \/ RbDereg(p) \/ RbClear(p)

-----------------------------------------------------------------------------
(* The world around the commands. *)

\* A healthcheck reports.
ContainerReports ==
    /\ \E c \in Containers :
          /\ cont[c] = "starting"
          /\ \E h \in {"healthy", "unhealthy"} : cont' = [cont EXCEPT ![c] = h]
    /\ UNCHANGED <<created, store, lock, saved, pc, loc, cancelled>>

ContainerCrash ==
    /\ "crash" \in Faults
    /\ \E c \in Running : cont' = [cont EXCEPT ![c] = "gone"]
    /\ UNCHANGED <<created, store, lock, saved, pc, loc, cancelled>>

\* runProxy starts from an empty registry and adds the seed.
ProxyRestart ==
    /\ "restart" \in Faults
    /\ store' = Add(NewRegistry, Seed, Dns, 0)
    /\ UNCHANGED <<cont, created, lock, saved, pc, loc, cancelled>>

Cancel(p) ==
    /\ "signal" \in Faults
    /\ pc[p] \in Critical \cup RollbackPcs
    /\ cancelled' = cancelled \cup {p}
    /\ UNCHANGED <<cont, created, store, lock, saved, pc, loc>>

\* No deferred call runs: the lock file stays.
Kill(p) ==
    /\ "kill" \in Faults
    /\ pc[p] \in Critical \cup RollbackPcs
    /\ Goto(p, "killed")
    /\ UNCHANGED <<cont, created, store, lock, saved, loc, cancelled>>

\* "wait or remove if stale": the operator removes the lock of a dead rollout.
ClearStaleLock ==
    /\ lock
    /\ RolloutsQuiet
    /\ lock' = FALSE
    /\ UNCHANGED <<cont, created, store, saved, pc, loc, cancelled>>

-----------------------------------------------------------------------------
Environment == ContainerReports \/ ContainerCrash \/ ProxyRestart \/ ClearStaleLock

Next ==
    \/ \E p \in Rollouts : Acquire(p) \/ RolloutStep(p)
    \/ \E p \in Rollbacks : LoadState(p) \/ RollbackStep(p)
    \/ \E p \in Procs : Cancel(p) \/ Kill(p)
    \/ Environment

Spec == Init /\ [][Next]_vars

\* A command that has started is scheduled, and none of its calls hangs.
FairSpec ==
    /\ Spec
    /\ \A p \in Rollouts : WF_vars(RolloutStep(p))
    /\ \A p \in Rollbacks : WF_vars(RollbackStep(p))
-----------------------------------------------------------------------------
(* Properties *)

StoreType(s) ==
    /\ DOMAIN s \subseteq {Seed} \cup Containers
    /\ \A i \in DOMAIN s :
          s[i] \in [addr : {Dns} \cup Containers, draining : BOOLEAN, requests : {0}]

\* Every variable keeps its type.
TypeOK ==
    /\ cont \in [Containers -> Status]
    /\ created \in 0 .. MaxContainers
    /\ StoreType(store)
    /\ lock \in BOOLEAN
    /\ saved \in [old : {NoId} \cup Containers, oldAddr : {NoId} \cup Containers,
                  new : {NoId} \cup Containers]
    /\ pc \in [Procs -> {"idle"} \cup Critical \cup RollbackPcs \cup Ended]
    /\ loc \in [Procs -> [replicas : 0 .. MaxContainers, old : {NoId} \cup Containers,
                          oldAddr : {NoId} \cup Containers, new : {NoId} \cup Containers]]
    /\ cancelled \subseteq Procs

\* lockRollout: no two rollouts of the service are past the lock at once,
\* whatever is killed and whoever removes a stale lock file in between.
OneRolloutAtATime ==
    \A p, q \in Rollouts : pc[p] \in Critical /\ pc[q] \in Critical => p = q

\* Steps 6 to 10: from the save on until the state is cleared, the state file
\* tells what the rollout that is being cut over would need undone, also if an
\* earlier rollout died and left its own state behind.
StateCoversCutover ==
    \A p \in Rollouts :
        pc[p] \in {"drain", "sleep", "dereg", "rm", "seed", "clear"} =>
            saved.old = loc[p].old /\ saved.new = loc[p].new

\* "Traffic is never cut": the round robin always has a backend to choose.
NeverDark == Active(store) # {}

\* No backend the round robin may choose leads to no running container:
\* what a rollout removes was taken out of the rotation before.  That is said of
\* step 9; a docker compose up that re-creates what runs ("recreate") stops
\* containers at step 2, and after an earlier rollout registered ones.
NoDeadRoute == \A i \in Active(store) : Resolves(i) # {}

\* Capacity: each rollout, interrupted or not, adds at most one container, and
\* at no moment do fewer healthy ones run than before the first, unless docker
\* compose up, which is called without --no-recreate, finds running containers
\* out of date and stops them to create them anew.
CapacityKept ==
    /\ "recreate" \notin Faults =>
          Cardinality({c \in Containers : cont[c] = "healthy"}) >= Replicas
    /\ Cardinality(Running) <=
          Replicas + Cardinality({p \in Rollouts : pc[p] \notin {"idle", "refused"}})

\* Step 7 on: nothing but the new backend, and the seed until step 9b, is in
\* the rotation; afterwards the new backend alone.  A container re-created at
\* step 2 leaves its backend behind: this holds without "recreate" only.
OnlyNewServes ==
    \A p \in Rollouts :
        /\ pc[p] \in {"sleep", "dereg", "rm", "seed"} =>
              loc[p].new \in Active(store) /\ Active(store) \subseteq {loc[p].new, Seed}
        /\ pc[p] \in {"clear", "finish"} => Active(store) = {loc[p].new}

\* Step 9 and the clean-up of step 3: a rollout, completed or timed out,
\* leaves as many containers as it found.
ReplicasRestored == RolloutsQuiet => Cardinality(Running) = Replicas

\* A rollback that got past its drain period has the old backend registered and
\* the new one out of the rotation, wherever the rollouts before it stopped.
RollbackSwaps ==
    \A p \in Rollbacks :
        pc[p] \in {"rbDereg", "rbClear"} =>
            loc[p].old \in DOMAIN store /\ loc[p].new \notin Active(store)

\* "Run this command immediately to restore traffic": and the old backend takes
\* new connections again and has a container to take them to.
RollbackRestores ==
    \A p \in Rollbacks :
        pc[p] \in {"rbDereg", "rbClear"} =>
            loc[p].old \in Active(store) /\ Resolves(loc[p].old) # {}

\* "Complete": the backend that took over is in the rotation when its rollout
\* reports success.
CompletedServesNew ==
    \A p \in Rollouts : pc[p] = "finish" => loc[p].new \in Active(store)

\* Every command that has started ends, and
CommandsEnd ==
    \A p \in Procs : pc[p] \in Critical \cup RollbackPcs ~> pc[p] \in Ended

\* a rollout that ends, however it ends, gives the lock back.
LockReleased == lock ~> ~lock
=============================================================================
