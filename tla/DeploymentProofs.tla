--------------------------- MODULE DeploymentProofs ---------------------------
(***************************************************************************)
(* Theorems about Deployment, for any number of commands, replicas,        *)
(* containers and connections: how many containers serve during a rollout, *)
(* and that no connection is lost that the round robin gave to a           *)
(* container's own backend.                                                *)
(***************************************************************************)
EXTENDS Deployment, CutoverProofs

-----------------------------------------------------------------------------
(* Capacity. *)

\* The rollouts that have run, and those that may have scaled up.
Begun  == {p \in Rollouts : pc[p] # "idle"}
Scaled == {p \in Rollouts : pc[p] \notin {"idle", "refused", "pull", "count", "scale"}}

\* Without re-creation: until its healthcheck has passed the new container is not
\* counted on; from then to the removal of the old one there is one healthy
\* container more.
CapacityStage(p) ==
    /\ pc[p] \in {"wait", "scaleBack"} => Cardinality(Healthy \ {created}) >= Replicas
    /\ pc[p] \in {"find", "register", "save", "drain", "sleep", "dereg", "rm"} =>
          Cardinality(Healthy) >= Replicas + 1

Capacity ==
    /\ IsFiniteSet(Begun)
    /\ Cardinality(Running) <= Replicas + Cardinality(Scaled)
    /\ "recreate" \notin Faults =>
          /\ Cardinality(Healthy) >= Replicas
          /\ \A p \in Rollouts : CapacityStage(p)

CapacityInv == FleetInv /\ Capacity

\* The healthy containers are among those that run and can be counted.
LEMMA HealthyFinite ==
    /\ Healthy \subseteq Running
    /\ IsFiniteSet(Healthy)
    /\ Cardinality(Healthy) \in Nat
<1>1. Healthy \subseteq Running
  BY DEF Healthy, Running
<1>2. IsFiniteSet(Healthy)
  BY <1>1, RunningFinite, FS_Subset
<1> QED
  BY <1>1, <1>2, FS_CardinalityType

\* Without container c there is at most one healthy container less.
LEMMA HealthyWithout ==
    ASSUME NEW c
    PROVE  /\ IsFiniteSet(Healthy \ {c}) /\ Cardinality(Healthy \ {c}) \in Nat
           /\ Cardinality(Healthy) <= Cardinality(Healthy \ {c}) + 1
           /\ c \in Healthy => Cardinality(Healthy) = Cardinality(Healthy \ {c}) + 1
<1>1. IsFiniteSet(Healthy \ {c})
  BY HealthyFinite, FS_RemoveElement
<1>2. Cardinality(Healthy \ {c}) \in Nat
  BY <1>1, FS_CardinalityType
<1>3. Cardinality(Healthy \ {c}) =
         IF c \in Healthy THEN Cardinality(Healthy) - 1 ELSE Cardinality(Healthy)
  BY HealthyFinite, FS_RemoveElement
<1> QED
  BY <1>1, <1>2, <1>3, HealthyFinite

\* A step moves at most one command.
LEMMA OneMoves ==
    ASSUME TypeOK, [Next]_vars
    PROVE  \E p : \A q \in Procs : q # p => pc'[q] = pc[q]
<1>1. UNCHANGED pc \/ \E p \in Procs : \E to : pc' = [pc EXCEPT ![p] = to]
  BY RolloutMoves, RollbackMoves
  DEF Next, vars, Acquire, LoadState, Cancel, Kill, Environment, ContainerReports,
      ContainerCrash, ProxyRestart, ClearStaleLock, Goto, Procs
<1> QED
  BY <1>1 DEF TypeOK

\* Who has begun stays so, and so does who may have scaled up.
LEMMA BegunGrows ==
    ASSUME TypeOK, [Next]_vars, IsFiniteSet(Begun)
    PROVE  /\ IsFiniteSet(Begun') /\ Scaled \subseteq Scaled'
           /\ IsFiniteSet(Scaled) /\ IsFiniteSet(Scaled')
           /\ Cardinality(Scaled) \in Nat /\ Cardinality(Scaled') \in Nat
           /\ Cardinality(Scaled) <= Cardinality(Scaled')
<1> USE DEF Procs
<1>0. pc \in [Procs -> {"idle"} \cup Critical \cup RollbackPcs \cup Ended]
  BY DEF TypeOK
<1>1. IsFiniteSet(Begun')
  <2>1. PICK p : \A q \in Procs : q # p => pc'[q] = pc[q]
    BY OneMoves
  <2>2. Begun' \subseteq Begun \cup {p}
    BY <2>1 DEF Begun
  <2>3. IsFiniteSet(Begun \cup {p})
    BY FS_AddElement
  <2> QED
    BY <2>2, <2>3, FS_Subset
<1>2. Scaled \subseteq Scaled'
  <2> SUFFICES ASSUME NEW q \in Rollouts,
                      pc[q] \notin {"idle", "refused", "pull", "count", "scale"}
               PROVE  pc'[q] \notin {"idle", "refused", "pull", "count", "scale"}
    BY DEF Scaled
  <2>1. ASSUME NEW p \in Rollouts, RolloutStep(p)
        PROVE  pc'[q] \notin {"idle", "refused", "pull", "count", "scale"}
    BY <1>0, <2>1 DEF RolloutStep, Pull, CountReplicas, ScaleUp, WaitHealthy, WaitTimeout,
       ScaleBack, FindOld, Register, Save, Drain, Sleep, DeregOld, RemoveOld, DeregSeed,
       Clear, Unlock, Goto
  <2>2. ASSUME NEW p \in Rollouts, Acquire(p)
        PROVE  pc'[q] \notin {"idle", "refused", "pull", "count", "scale"}
    BY <1>0, <2>2 DEF Acquire, Goto
  <2>3. ASSUME NEW p \in Rollbacks, LoadState(p) \/ RollbackStep(p)
        PROVE  pc'[q] \notin {"idle", "refused", "pull", "count", "scale"}
    BY <1>0, <2>3, OthersUntouched, RolloutAssumption
  <2>4. ASSUME NEW p \in Procs, Cancel(p) \/ Kill(p)
        PROVE  pc'[q] \notin {"idle", "refused", "pull", "count", "scale"}
    BY <1>0, <2>4 DEF Cancel, Kill, Goto
  <2>5. CASE Environment \/ UNCHANGED vars
    BY <2>5 DEF Environment, ContainerReports, ContainerCrash, ProxyRestart,
       ClearStaleLock, vars
  <2> QED
    BY <2>1, <2>2, <2>3, <2>4, <2>5 DEF Next
<1>3. IsFiniteSet(Scaled')
  <2>1. Scaled' \subseteq Begun'
    BY DEF Scaled, Begun
  <2> QED
    BY <1>1, <2>1, FS_Subset
<1>4. IsFiniteSet(Scaled) /\ Cardinality(Scaled) <= Cardinality(Scaled')
  BY <1>2, <1>3, FS_Subset
<1> QED
  BY <1>1, <1>2, <1>3, <1>4, FS_CardinalityType

\* Of the calls of a rollout only its scale-up adds to what runs, and at most one
\* container, however much of it is re-created and wherever that stops.
LEMMA SizeRollout ==
    ASSUME CapacityInv, NEW p \in Rollouts, RolloutStep(p)
    PROVE  Cardinality(Running') <= Replicas + Cardinality(Scaled')
<1>0. /\ TypeOK /\ Numbered /\ FleetStage(p)
      /\ Cardinality(Running) <= Replicas + Cardinality(Scaled)
      /\ Replicas \in Nat /\ Cardinality(Running) \in Nat
  BY ReplicaCount, RolloutAssumption DEF CapacityInv, FleetInv, Fleet, Capacity, TypeOK
<1>1. /\ Scaled \subseteq Scaled' /\ IsFiniteSet(Scaled) /\ IsFiniteSet(Scaled')
      /\ Cardinality(Scaled) \in Nat /\ Cardinality(Scaled') \in Nat
      /\ Cardinality(Scaled) <= Cardinality(Scaled')
  <2>1. [Next]_vars
    BY DEF Next
  <2> QED
    BY <1>0, <2>1, BegunGrows DEF CapacityInv, Capacity
<1>2. Cardinality(Running') \in Nat
  <2>1. Running' \subseteq Containers /\ IsFiniteSet(Containers)
    BY FS_Interval, RolloutAssumption DEF Running, Containers
  <2> QED
    BY <2>1, FS_Subset, FS_CardinalityType
<1>3. CASE pc[p] = "scale" /\ (Starts(created') \/ StartsPart) /\ pc'[p] \in {"wait", "abort"}
  <2>1. p \in Scaled' /\ p \notin Scaled
    BY <1>3 DEF Scaled
  <2>2. IsFiniteSet(Scaled \cup {p}) /\ Cardinality(Scaled \cup {p}) = Cardinality(Scaled) + 1
    BY <1>1, <2>1, FS_AddElement
  <2>3. Scaled \cup {p} \subseteq Scaled'
    BY <1>1, <2>1
  <2>4. Cardinality(Scaled \cup {p}) <= Cardinality(Scaled')
    BY <1>1, <2>3, FS_Subset
  <2>5. Cardinality(Running') <= Cardinality(Running) + 1
    BY <1>0, <1>3 DEF Starts, StartsPart
  <2> QED
    BY <1>0, <1>1, <1>2, <2>2, <2>4, <2>5
<1>4. CASE Cardinality(Running') <= Cardinality(Running)
  BY <1>0, <1>1, <1>2, <1>4
<1>5. ASSUME NEW c, Stops(c)
      PROVE  Cardinality(Running') <= Cardinality(Running)
  BY <1>0, <1>5 DEF Stops
<1> QED
  BY <1>0, <1>3, <1>4, <1>5, ContainerCalls

\* One call of a rollout takes no container away that capacity rests on.
LEMMA CapacityRollout ==
    ASSUME CapacityInv, NEW p \in Rollouts, RolloutStep(p), "recreate" \notin Faults
    PROVE  Cardinality(Healthy') >= Replicas /\ CapacityStage(p)'
<1> p \in Procs
  BY DEF Procs
<1>0. /\ pc \in [Procs -> {"idle"} \cup Critical \cup RollbackPcs \cup Ended]
      /\ cont \in [Containers -> Status]
      /\ TypeOK /\ Numbered /\ FleetStage(p) /\ CapacityStage(p)
      /\ Cardinality(Healthy) >= Replicas
      /\ Replicas \in Nat /\ Cardinality(Running) \in Nat
  BY ReplicaCount, RolloutAssumption DEF CapacityInv, FleetInv, Fleet, Capacity, TypeOK
<1>2. CASE /\ UNCHANGED <<cont, created>> /\ Running' = Running
           /\ pc[p] = "scale" => pc'[p] = "abort"
  <2>1. Healthy' = Healthy
    BY <1>2 DEF Healthy
  <2>2. CASE WaitHealthy(p)
    <3>1. PICK c \in Running : IsNewest(c, Running) /\ cont[c] = "healthy"
      BY <2>2 DEF WaitHealthy
    <3>2. /\ pc[p] = "wait" /\ pc'[p] = "find" /\ IsNewest(created, Running)
          /\ Cardinality(Healthy \ {created}) >= Replicas
      BY <1>0, <2>2 DEF WaitHealthy, FleetStage, CapacityStage, Goto
    <3>3. c = created /\ c \in Healthy
      BY <3>1, <3>2, RunningFinite DEF IsNewest, Healthy, Containers
    <3>4. /\ Cardinality(Healthy) = Cardinality(Healthy \ {created}) + 1
          /\ Cardinality(Healthy \ {created}) \in Nat
      BY <3>3, HealthyWithout
    <3>5. Cardinality(Healthy) >= Replicas + 1
      BY <1>0, <3>2, <3>4
    <3> QED
      BY <1>0, <1>2, <2>1, <3>2, <3>5 DEF CapacityStage
  <2>3. CASE ~WaitHealthy(p)
    <3>1. \/ pc[p] = "wait" /\ pc'[p] = "scaleBack"
          \/ /\ pc[p] \in {"find", "register", "save", "drain", "sleep", "dereg"}
             /\ pc'[p] \in {"register", "save", "drain", "sleep", "dereg", "rm", "abort"}
          \/ pc'[p] \notin {"wait", "scaleBack", "find", "register", "save", "drain",
                            "sleep", "dereg", "rm"}
      BY <1>0, <1>2, <2>3 DEF RolloutStep, Pull, CountReplicas, ScaleUp, WaitTimeout,
         ScaleBack, FindOld, Register, Save, Drain, Sleep, DeregOld, RemoveOld, DeregSeed,
         Clear, Unlock, Goto
    <3> QED
      BY <1>0, <1>2, <2>1, <3>1 DEF CapacityStage
  <2> QED
    BY <2>2, <2>3
<1>3. CASE pc[p] = "scale" /\ Starts(created') /\ pc'[p] \in {"wait", "abort"}
  <2>1. Healthy' = Healthy /\ created' \notin Healthy
    BY <1>0, <1>3 DEF Starts, Healthy
  <2>2. Healthy' \ {created'} = Healthy
    BY <2>1
  <2>3. CapacityStage(p)'
    BY <1>0, <1>3, <2>2 DEF CapacityStage
  <2> QED
    BY <1>0, <2>1, <2>3
<1>4. ASSUME NEW c, Stops(c), Cardinality(Healthy \ {c}) >= Replicas,
             pc'[p] \in {"abort", "seed"}
      PROVE  Cardinality(Healthy') >= Replicas /\ CapacityStage(p)'
  <2>1. Healthy' = Healthy \ {c}
    BY <1>0, <1>4 DEF Stops, Healthy, Running
  <2>2. CapacityStage(p)'
    BY <1>4 DEF CapacityStage
  <2> QED
    BY <1>4, <2>1, <2>2
<1>5. CASE pc[p] = "scaleBack" /\ pc'[p] = "abort" /\ Stops(created)
  BY <1>0, <1>4, <1>5 DEF CapacityStage
<1>6. CASE pc[p] = "rm" /\ pc'[p] = "seed" /\ Stops(Outgoing(p))
  <2>1. Cardinality(Healthy) >= Replicas + 1
    BY <1>0, <1>6 DEF CapacityStage
  <2>2. Cardinality(Healthy \ {Outgoing(p)}) >= Replicas
    <3>1. /\ Cardinality(Healthy) <= Cardinality(Healthy \ {Outgoing(p)}) + 1
          /\ Cardinality(Healthy \ {Outgoing(p)}) \in Nat /\ Cardinality(Healthy) \in Nat
      BY HealthyFinite, HealthyWithout
    <3> QED
      BY <1>0, <2>1, <3>1
  <2> QED
    BY <1>4, <1>6, <2>2
<1> QED
  BY <1>0, <1>2, <1>3, <1>5, <1>6, ContainerCalls

\* Nothing else does.
LEMMA CapacityStep ==
    ASSUME CapacityInv, [Next]_vars, "crash" \notin Faults
    PROVE  CapacityInv'
<1> USE DEF Procs
<1>1. FleetInv'
  BY FleetStep DEF CapacityInv
<1>2. TypeOK /\ LockInv /\ IsFiniteSet(Begun)
  BY DEF CapacityInv, FleetInv, Capacity
<1>3. IsFiniteSet(Begun')
  BY <1>2, BegunGrows
<1>4. ASSUME NEW p \in Rollouts, RolloutStep(p)
      PROVE  Capacity'
  <2>1. /\ Cardinality(Running') <= Replicas + Cardinality(Scaled')
        /\ "recreate" \notin Faults => Cardinality(Healthy') >= Replicas /\ CapacityStage(p)'
    BY <1>4, SizeRollout, CapacityRollout
  <2>2. \A q \in Rollouts \ {p} : CapacityStage(q)'
    BY <1>2, <1>4, AloneInside DEF CapacityStage, Critical
  <2> QED
    BY <1>3, <2>1, <2>2 DEF Capacity
<1>5. CASE \A p \in Rollouts : ~RolloutStep(p)
  <2>1. /\ UNCHANGED created /\ Running' = Running
        /\ \A c \in Containers : cont[c] = "healthy" => cont'[c] = "healthy"
        /\ \A q \in Rollouts : pc'[q] = pc[q] \/ pc'[q] \in {"refused", "killed", "pull"}
    BY <1>2, <1>5, Beside
  <2>2. Healthy \subseteq Healthy'
    BY <2>1 DEF Healthy
  <2>3. IsFiniteSet(Healthy')
    <3>1. Healthy' \subseteq Running'
      BY DEF Healthy, Running
    <3> QED
      BY <2>1, <3>1, RunningFinite, FS_Subset
  <2>4. /\ Cardinality(Healthy') \in Nat /\ Cardinality(Healthy) <= Cardinality(Healthy')
        /\ Cardinality(Healthy \ {created}) <= Cardinality(Healthy' \ {created})
        /\ Cardinality(Healthy' \ {created}) \in Nat
    <3>1. Cardinality(Healthy') \in Nat /\ Cardinality(Healthy) <= Cardinality(Healthy')
      BY <2>2, <2>3, FS_Subset, FS_CardinalityType
    <3>2. IsFiniteSet(Healthy' \ {created})
      BY <2>3, FS_RemoveElement
    <3>3. Healthy \ {created} \subseteq Healthy' \ {created}
      BY <2>2
    <3> QED
      BY <3>1, <3>2, <3>3, FS_Subset, FS_CardinalityType
  <2>5. /\ Cardinality(Scaled) <= Cardinality(Scaled')
        /\ Cardinality(Scaled) \in Nat /\ Cardinality(Scaled') \in Nat
    BY <1>2, BegunGrows
  <2>6. /\ "recreate" \notin Faults =>
              Cardinality(Healthy) >= Replicas /\ \A q \in Rollouts : CapacityStage(q)
        /\ Cardinality(Running) <= Replicas + Cardinality(Scaled)
        /\ Replicas \in Nat /\ Cardinality(Running) \in Nat
        /\ Cardinality(Healthy) \in Nat /\ Cardinality(Healthy \ {created}) \in Nat
    BY ReplicaCount, HealthyFinite, HealthyWithout, RolloutAssumption DEF CapacityInv, Capacity
  <2>7. "recreate" \notin Faults => Cardinality(Healthy') >= Replicas
    BY <2>4, <2>6
  <2>8. Cardinality(Running') <= Replicas + Cardinality(Scaled')
    BY <2>1, <2>5, <2>6
  <2>9. ASSUME NEW q \in Rollouts, "recreate" \notin Faults
        PROVE  CapacityStage(q)'
    <3>1. ASSUME pc'[q] = pc[q]
          PROVE  CapacityStage(q)'
      <4>1. CapacityStage(q)
        BY <2>6, <2>9
      <4>2. Cardinality(Healthy \ {created}) >= Replicas =>
               Cardinality(Healthy' \ {created}) >= Replicas
        BY <2>4, <2>6
      <4>3. Cardinality(Healthy) >= Replicas + 1 => Cardinality(Healthy') >= Replicas + 1
        BY <2>4, <2>6
      <4> QED
        BY <2>1, <3>1, <4>1, <4>2, <4>3 DEF CapacityStage
    <3>2. pc'[q] \in {"refused", "killed", "pull"} => CapacityStage(q)'
      BY DEF CapacityStage
    <3> QED
      BY <2>1, <3>1, <3>2
  <2> QED
    BY <1>1, <1>3, <2>7, <2>8, <2>9 DEF Capacity, CapacityInv
<1> QED
  BY <1>1, <1>4, <1>5 DEF CapacityInv

\* A step of the deployment is a step of the commands, or none of theirs.
LEMMA DeployIsRollout == [DeployNext]_<<vars, conn, found>> => [Next]_vars
  BY DEF DeployNext, CommandStep, Route, Dial, PipeEnds

\* Before the first rollout the replicas are there, and all of them healthy.
LEMMA CapacityInit == DeployInit => CapacityInv
<1> SUFFICES ASSUME DeployInit PROVE CapacityInv
  OBVIOUS
<1>1. Init
  BY DEF DeployInit
<1>2. FleetInv /\ Cardinality(Running) = Replicas
  BY <1>1, FleetInit
<1>3. Cardinality(Healthy) = Replicas
  <2>1. Healthy = 1 .. Replicas
    BY <1>1, RolloutAssumption DEF Init, Healthy, Containers
  <2> QED
    BY <2>1, FS_Interval, RolloutAssumption
<1>4. Begun = {} /\ Scaled = {}
  BY <1>1 DEF Init, Begun, Scaled, Procs
<1>5. IsFiniteSet(Begun) /\ Cardinality(Scaled) = 0
  BY <1>4, FS_EmptySet
<1> QED
  BY <1>1, <1>2, <1>3, <1>5, RolloutAssumption
  DEF Init, CapacityInv, Capacity, CapacityStage, Procs

\* No rollout adds more than one container, also if docker compose up re-creates
\* what runs; and if it does not, at no moment do fewer healthy containers run
\* than before the first.  Rollouts may fail at any call, be interrupted or
\* killed, one after another, and rollbacks run beside them; no container must
\* exit by itself.
THEOREM CapacityKeptAlways ==
    ASSUME "crash" \notin Faults
    PROVE  DeploySpec => []CapacityKept
<1>1. CapacityInv /\ [DeployNext]_<<vars, conn, found>> => CapacityInv'
  BY DeployIsRollout, CapacityStep
<1>2. CapacityInv => CapacityKept
  <2> SUFFICES ASSUME CapacityInv PROVE CapacityKept
    OBVIOUS
  <2> DEFINE S == {p \in Rollouts : pc[p] \notin {"idle", "refused"}}
  <2>1. S \subseteq Begun /\ Scaled \subseteq S
    BY DEF Begun, Scaled
  <2>2. IsFiniteSet(S)
    BY <2>1, FS_Subset DEF CapacityInv, Capacity
  <2>3. /\ Cardinality(Scaled) <= Cardinality(S)
        /\ Cardinality(Scaled) \in Nat /\ Cardinality(S) \in Nat
    BY <2>1, <2>2, FS_Subset, FS_CardinalityType
  <2>4. Cardinality(Running) <= Replicas + Cardinality(S)
    BY <2>3, ReplicaCount, RolloutAssumption DEF CapacityInv, Capacity
  <2> QED
    BY <2>4 DEF CapacityKept, CapacityInv, Capacity, Healthy
<1> QED
  BY <1>1, <1>2, CapacityInit, PTL DEF DeploySpec

-----------------------------------------------------------------------------
(* Connections. *)

ConnType ==
    /\ conn \in [Conns -> [stage : {"new", "routed", "open", "closed", "dropped"},
                           via : {Nobody, Seed} \cup Containers,
                           to : {NoId} \cup Containers]]
    /\ found \in [Rollouts -> SUBSET Conns]

Via(k, i) == Live(k) /\ conn[k].via = i

\* A connection that a container's own backend has is one of that container,
\* which is healthy.
OwnHealthy ==
    \A k \in Conns :
        Live(k) /\ conn[k].via # Seed =>
            /\ conn[k].via \in Healthy
            /\ conn[k].stage = "open" => conn[k].to = conn[k].via

\* What a rollout is about to stop, it has no connection left on.
StopStage(p) ==
    /\ pc[p] \in {"wait", "scaleBack"} => \A k \in Conns : ~Via(k, created)
    /\ pc[p] = "sleep" => \A k \in Conns : Via(k, loc[p].old) => k \in found[p]
    /\ pc[p] \in {"dereg", "rm"} => \A k \in Conns : ~Via(k, loc[p].old)

Connected ==
    /\ ConnType
    /\ OwnRouteServed
    /\ OwnHealthy
    /\ \A p \in Rollouts : StopStage(p)

ConnectedInv == LastInv /\ AliveInv /\ Connected

\* How a rollout gets to the stages in which connections matter, and that it
\* has the same container in mind all along.
LEMMA StageEntry ==
    ASSUME FleetInv, [Next]_vars, "crash" \notin Faults, NEW q \in Rollouts
    PROVE  /\ pc'[q] \in {"wait", "scaleBack"} =>
                 \/ pc[q] \in {"wait", "scaleBack"} /\ UNCHANGED created
                 \/ created' \in Containers /\ cont[created'] = "none"
           /\ pc'[q] \in {"sleep", "dereg", "rm"} => loc'[q].old = loc[q].old
           /\ pc'[q] = "sleep" => pc[q] \in {"drain", "sleep"}
           /\ pc'[q] = "dereg" => pc[q] \in {"sleep", "dereg"}
           /\ pc'[q] = "rm" => pc[q] \in {"dereg", "rm"}
<1> USE DEF Procs
<1>0. /\ pc \in [Procs -> {"idle"} \cup Critical \cup RollbackPcs \cup Ended]
      /\ TypeOK /\ LockInv /\ Numbered /\ FleetStage(q)
  BY DEF FleetInv, Fleet, TypeOK
<1>1. CASE RolloutStep(q)
  <2>1. \/ pc[q] = "scale" /\ pc'[q] \in {"wait", "abort"}
        \/ pc[q] = "wait" /\ pc'[q] \in {"scaleBack", "find"} /\ UNCHANGED created
        \/ pc[q] = "drain" /\ pc'[q] \in {"sleep", "abort"} /\ UNCHANGED loc
        \/ pc[q] = "sleep" /\ pc'[q] \in {"dereg", "abort"} /\ UNCHANGED loc
        \/ pc[q] = "dereg" /\ pc'[q] = "rm" /\ UNCHANGED loc
        \/ pc'[q] \notin {"wait", "scaleBack", "sleep", "dereg", "rm"}
    BY <1>0, <1>1 DEF RolloutStep, Pull, CountReplicas, ScaleUp, WaitHealthy, WaitTimeout,
       ScaleBack, FindOld, Register, Save, Drain, Sleep, DeregOld, RemoveOld, DeregSeed,
       Clear, Unlock, Goto
  <2>2. pc[q] = "scale" /\ pc'[q] = "wait" => created' \in Containers /\ cont[created'] = "none"
    BY <1>0, <1>1, ContainerCalls DEF Starts
  <2> QED
    BY <2>1, <2>2
<1>2. ASSUME NEW p \in Rollouts, p # q, RolloutStep(p)
      PROVE  pc'[q] \notin {"wait", "scaleBack", "sleep", "dereg", "rm"}
  BY <1>0, <1>2, AloneInside DEF Critical
<1>3. CASE \A p \in Rollouts : ~RolloutStep(p)
  <2>1. /\ UNCHANGED created /\ loc'[q] = loc[q]
        /\ pc'[q] = pc[q] \/ pc'[q] \in {"refused", "killed", "pull"}
    BY <1>0, <1>3, Beside
  <2> QED
    BY <2>1
<1> QED
  BY <1>1, <1>2, <1>3

\* Which healthy containers a step may stop, and when.
LEMMA WhatStops ==
    ASSUME AliveInv, [Next]_vars, Faults \cap {"crash", "recreate"} = {},
           NEW c \in Healthy, cont'[c] # "healthy"
    PROVE  \E p \in Rollouts : \/ pc[p] = "scaleBack" /\ c = created
                               \/ pc[p] = "rm" /\ c = loc[p].old
<1>1. /\ cont \in [Containers -> Status] /\ TypeOK /\ Numbered
      /\ c \in Containers /\ cont[c] = "healthy"
      /\ \A p \in Rollouts : FleetStage(p) /\ AliveStage(p)
  BY DEF AliveInv, FleetInv, Fleet, Alive, TypeOK, Healthy
<1>2. PICK p \in Rollouts : RolloutStep(p)
  BY <1>1, Beside
<1>3. \/ UNCHANGED cont
      \/ Starts(created')
      \/ pc[p] = "scaleBack" /\ Stops(created)
      \/ pc[p] = "rm" /\ Stops(Outgoing(p))
  BY <1>1, <1>2, ContainerCalls
<1>4. pc[p] = "rm" => Outgoing(p) = loc[p].old
  BY <1>1 DEF AliveStage, Outgoing, Cutting
<1> QED
  BY <1>1, <1>3, <1>4 DEF Starts, Stops

\* The handler of a connection: the round robin gives it a healthy container
\* that nobody is about to stop, or the seed.
LEMMA ConnectedHandler ==
    ASSUME ConnectedInv, NEW k \in Conns, Route(k) \/ Dial(k) \/ PipeEnds(k)
    PROVE  Connected'
<1> USE DEF Stage
<1>0. /\ conn \in [Conns -> [stage : {"new", "routed", "open", "closed", "dropped"},
                             via : {Nobody, Seed} \cup Containers,
                             to : {NoId} \cup Containers]]
      /\ found \in [Rollouts -> SUBSET Conns]
      /\ OwnRouteServed /\ OwnHealthy /\ TypeOK /\ Served /\ LastServes
      /\ \A p \in Rollouts : StopStage(p) /\ AliveStage(p)
  BY DEF ConnectedInv, Connected, ConnType, AliveInv, FleetInv, Alive, LastInv
<1>1. UNCHANGED <<cont, created, store, pc, loc, found>>
  BY DEF Route, Dial, PipeEnds, vars
<1>a. Healthy' = Healthy
  BY <1>1 DEF Healthy
<1>2. CASE Route(k)
  <2>1. PICK i \in Active(store) :
           conn' = [conn EXCEPT ![k] = [stage |-> "routed", via |-> i, to |-> NoId]]
    <3>1. Active(store) # {}
      BY <1>0 DEF LastServes
    <3> QED
      BY <1>2, <3>1 DEF Route, Routed
  <2>2. i \in {Seed} \cup Containers /\ i \in DOMAIN store
    BY <1>0, <2>1 DEF Active, TypeOK, StoreType
  <2>3. i # Seed => i \in Healthy
    BY <1>0, <2>1 DEF Served
  <2>4. /\ conn'[k].stage = "routed" /\ conn'[k].via = i
        /\ \A j \in Conns \ {k} : conn'[j] = conn[j]
    BY <1>0, <2>1
  <2>5. ConnType'
    BY <1>0, <1>1, <2>1, <2>2 DEF ConnType
  <2>6. OwnRouteServed'
    BY <1>0, <2>4 DEF OwnRouteServed
  <2>7. OwnHealthy'
    BY <1>0, <1>a, <2>3, <2>4 DEF OwnHealthy, Live
  <2>8. ASSUME NEW p \in Rollouts
        PROVE  StopStage(p)'
    <3>1. pc[p] \in {"wait", "scaleBack"} => i # created
      BY <1>0, <2>2 DEF AliveStage
    <3>2. pc[p] \in {"sleep", "dereg", "rm"} => i # loc[p].old
      BY <1>0, <2>1 DEF AliveStage
    <3>3. StopStage(p)
      BY <1>0
    <3> QED
      BY <1>1, <2>4, <3>1, <3>2, <3>3 DEF StopStage, Via, Live
  <2> QED
    BY <2>5, <2>6, <2>7, <2>8 DEF Connected
<1>3. CASE Dial(k)
  <2> DEFINE i == conn[k].via
  <2>1. conn[k].stage = "routed" /\ i \in {Nobody, Seed} \cup Containers
    BY <1>0, <1>3 DEF Dial
  <2>2. PICK d \in Dialled(i) : conn' = [conn EXCEPT ![k] = d]
    BY <1>3 DEF Dial
  <2>3. i # Seed => i \in Healthy
    BY <1>0, <2>1 DEF OwnHealthy, Live
  <2>4. i # Seed => i \in Running /\ cont[i] = "healthy"
    BY <2>3 DEF Healthy, Running
  <2>5. /\ d.via = i
        /\ \/ \E c \in Resolves(i) : d = [stage |-> "open", via |-> i, to |-> c]
           \/ d = Dropped(i) /\ \A c \in Resolves(i) : cont[c] # "healthy"
    BY <2>2 DEF Dialled, Dropped
  <2>6. i # Seed => d.stage = "open" /\ d.to = i
    BY <2>4, <2>5 DEF Resolves, Dropped
  <2>7. d \in [stage : {"new", "routed", "open", "closed", "dropped"},
               via : {Nobody, Seed} \cup Containers, to : {NoId} \cup Containers]
    BY <2>1, <2>5, RunningFinite DEF Resolves, Dropped
  <2>8. conn'[k] = d /\ \A j \in Conns \ {k} : conn'[j] = conn[j]
    BY <1>0, <2>2
  <2>9. ConnType'
    BY <1>0, <1>1, <2>2, <2>7 DEF ConnType
  <2>10. OwnRouteServed'
    BY <1>0, <2>5, <2>6, <2>8 DEF OwnRouteServed
  <2>11. OwnHealthy'
    BY <1>0, <1>a, <2>3, <2>5, <2>6, <2>8 DEF OwnHealthy, Live
  <2>12. ASSUME NEW p \in Rollouts
         PROVE  StopStage(p)'
    <3>1. StopStage(p)
      BY <1>0
    <3>2. \A j \in Conns : \A c : Via(j, c)' => Via(j, c)
      BY <2>1, <2>5, <2>8 DEF Via, Live
    <3> QED
      BY <1>1, <3>1, <3>2 DEF StopStage
  <2> QED
    BY <2>9, <2>10, <2>11, <2>12 DEF Connected
<1>4. CASE PipeEnds(k)
  <2>1. conn' = [conn EXCEPT ![k] = [stage |-> "closed", via |-> Nobody, to |-> NoId]]
    <3>1. [NewConn EXCEPT !.stage = "closed"] =
             [stage |-> "closed", via |-> Nobody, to |-> NoId]
      BY DEF NewConn
    <3> QED
      BY <1>4, <3>1 DEF PipeEnds
  <2>2. conn'[k].stage = "closed" /\ \A j \in Conns \ {k} : conn'[j] = conn[j]
    BY <1>0, <2>1
  <2>3. ConnType'
    BY <1>0, <1>1, <2>1 DEF ConnType
  <2>4. OwnRouteServed' /\ OwnHealthy'
    BY <1>0, <1>a, <2>2 DEF OwnRouteServed, OwnHealthy, Live
  <2>5. \A p \in Rollouts : StopStage(p)'
    BY <1>0, <1>1, <2>2 DEF StopStage, Via, Live
  <2> QED
    BY <2>3, <2>4, <2>5 DEF Connected
<1> QED
  BY <1>2, <1>3, <1>4

\* A step of the commands: the container that it stops has no connection left
\* but those that went by the seed.
LEMMA ConnectedCommand ==
    ASSUME ConnectedInv, CommandStep, Faults \cap {"crash", "recreate"} = {}
    PROVE  Connected'
<1>0. /\ conn \in [Conns -> [stage : {"new", "routed", "open", "closed", "dropped"},
                             via : {Nobody, Seed} \cup Containers,
                             to : {NoId} \cup Containers]]
      /\ found \in [Rollouts -> SUBSET Conns]
      /\ OwnRouteServed /\ OwnHealthy /\ AliveInv /\ FleetInv
      /\ \A p \in Rollouts : StopStage(p)
  BY DEF ConnectedInv, Connected, ConnType, AliveInv
<1>1. [Next]_vars
  BY DEF CommandStep
<1>a. TypeOK' /\ TypeOK
  BY <1>0, <1>1, TypeStep DEF FleetInv
<1>2. \A k \in Conns : conn'[k] = IF conn[k].stage = "open" /\ cont'[conn[k].to] = "gone"
                                  THEN Dropped(conn[k].via) ELSE conn[k]
  BY <1>0 DEF CommandStep, CutOff
<1>3. /\ \A p \in Rollouts :
            pc[p] = "sleep" /\ pc'[p] = "dereg" => \A k \in found[p] : ~Live(k)
      /\ found' = [p \in Rollouts |->
                     IF pc'[p] # "sleep" THEN {}
                     ELSE IF pc[p] = "sleep" THEN found[p]
                     ELSE {k \in Conns : Live(k)}]
  BY DEF CommandStep, DrainPeriods
<1>4. ASSUME NEW k \in Conns, Live(k), conn[k].via # Seed
      PROVE  cont'[conn[k].via] = "healthy" /\ conn'[k] = conn[k]
  <2>1. /\ conn[k].via \in Healthy
        /\ conn[k].stage = "open" => conn[k].to = conn[k].via
    BY <1>0, <1>4 DEF OwnHealthy
  <2>2. cont'[conn[k].via] = "healthy"
    <3>1. SUFFICES ASSUME cont'[conn[k].via] # "healthy" PROVE FALSE
      OBVIOUS
    <3>2. PICK p \in Rollouts : \/ pc[p] = "scaleBack" /\ conn[k].via = created
                                \/ pc[p] = "rm" /\ conn[k].via = loc[p].old
      BY <1>0, <1>1, <2>1, <3>1, WhatStops
    <3>3. StopStage(p)
      BY <1>0
    <3> QED
      BY <1>4, <3>2, <3>3 DEF StopStage, Via
  <2> QED
    BY <1>2, <2>1, <2>2
<1>5. \A k \in Conns : \/ conn'[k] = conn[k]
                       \/ conn[k].via = Seed /\ conn'[k] = Dropped(Seed)
  BY <1>2, <1>4 DEF Live
<1>6. \A k \in Conns : Live(k)' => Live(k) /\ conn'[k] = conn[k]
  BY <1>5 DEF Live, Dropped
<1>7. ConnType'
  <2>1. conn' = [k \in Conns |-> conn'[k]]
    BY DEF CommandStep, CutOff
  <2>2. Dropped(Seed) \in [stage : {"new", "routed", "open", "closed", "dropped"},
                           via : {Nobody, Seed} \cup Containers, to : {NoId} \cup Containers]
    BY DEF Dropped
  <2>3. conn' \in [Conns -> [stage : {"new", "routed", "open", "closed", "dropped"},
                             via : {Nobody, Seed} \cup Containers,
                             to : {NoId} \cup Containers]]
    BY <1>0, <1>5, <2>1, <2>2
  <2>4. found' \in [Rollouts -> SUBSET Conns]
    BY <1>0, <1>3
  <2> QED
    BY <2>3, <2>4 DEF ConnType
<1>8. OwnRouteServed'
  BY <1>0, <1>5 DEF OwnRouteServed, Dropped
<1>9. OwnHealthy'
  <2> SUFFICES ASSUME NEW k \in Conns, Live(k)', (conn[k].via # Seed)'
               PROVE  /\ conn'[k].via \in Healthy'
                      /\ conn'[k].stage = "open" => conn'[k].to = conn'[k].via
    BY DEF OwnHealthy
  <2>1. Live(k) /\ conn'[k] = conn[k] /\ conn[k].via # Seed
    BY <1>6
  <2>2. /\ conn[k].via \in Healthy
        /\ conn[k].stage = "open" => conn[k].to = conn[k].via
    BY <1>0, <2>1 DEF OwnHealthy
  <2>3. cont'[conn[k].via] = "healthy"
    BY <1>4, <2>1
  <2> QED
    BY <2>1, <2>2, <2>3 DEF Healthy
<1>10. ASSUME NEW p \in Rollouts
       PROVE  StopStage(p)'
  <2>1. StopStage(p)
    BY <1>0
  <2>2. /\ pc'[p] \in {"wait", "scaleBack"} =>
              \/ pc[p] \in {"wait", "scaleBack"} /\ UNCHANGED created
              \/ created' \in Containers /\ cont[created'] = "none"
        /\ pc'[p] \in {"sleep", "dereg", "rm"} => loc'[p].old = loc[p].old
        /\ pc'[p] = "sleep" => pc[p] \in {"drain", "sleep"}
        /\ pc'[p] = "dereg" => pc[p] \in {"sleep", "dereg"}
        /\ pc'[p] = "rm" => pc[p] \in {"dereg", "rm"}
    BY <1>0, <1>1, StageEntry
  <2>3. \A k \in Conns : Live(k)' => Live(k) /\ conn'[k].via = conn[k].via
    BY <1>6
  <2>4. ASSUME pc'[p] \in {"wait", "scaleBack"}, NEW k \in Conns
        PROVE  (~Via(k, created))'
    <3>1. CASE pc[p] \in {"wait", "scaleBack"} /\ UNCHANGED created
      BY <2>1, <2>3, <3>1 DEF StopStage, Via
    <3>2. CASE created' \in Containers /\ cont[created'] = "none"
      <4>1. created' # Seed /\ created' \notin Healthy
        BY <3>2 DEF Containers, Seed, Healthy
      <4>2. ~(Live(k) /\ conn[k].via = created')
        BY <1>0, <4>1 DEF OwnHealthy
      <4> QED
        BY <2>3, <4>2 DEF Via
    <3> QED
      BY <2>2, <2>4, <3>1, <3>2
  <2>5. ASSUME pc'[p] = "sleep", NEW k \in Conns, Via(k, loc[p].old)'
        PROVE  k \in found'[p]
    <3>1. Via(k, loc[p].old) /\ Live(k)
      BY <2>2, <2>3, <2>5 DEF Via
    <3>2. pc[p] = "sleep" => k \in found[p]
      BY <2>1, <3>1 DEF StopStage
    <3> QED
      BY <1>3, <2>5, <3>1, <3>2
  <2>6. ASSUME pc'[p] \in {"dereg", "rm"}, NEW k \in Conns
        PROVE  (~Via(k, loc[p].old))'
    <3>1. ~Via(k, loc[p].old)
      BY <1>3, <2>1, <2>2, <2>6 DEF StopStage, Via
    <3> QED
      BY <2>2, <2>3, <2>6, <3>1 DEF Via
  <2> QED
    BY <2>4, <2>5, <2>6 DEF StopStage
<1> QED
  BY <1>7, <1>8, <1>9, <1>10 DEF Connected

\* Nobody is connected to begin with.
LEMMA ConnectedInit == DeployInit => ConnectedInv
<1> SUFFICES ASSUME DeployInit PROVE ConnectedInv
  OBVIOUS
<1>1. Init
  BY DEF DeployInit
<1>2. \A k \in Conns : conn[k] = NewConn
  BY DEF DeployInit
<1>3. NewConn \in [stage : {"new", "routed", "open", "closed", "dropped"},
                   via : {Nobody, Seed} \cup Containers, to : {NoId} \cup Containers]
  BY DEF NewConn
<1>4. ConnType
  BY <1>3 DEF DeployInit, ConnType
<1>5. OwnRouteServed /\ OwnHealthy
  BY <1>2 DEF OwnRouteServed, OwnHealthy, Live, NewConn
<1>6. \A p \in Rollouts : StopStage(p)
  BY <1>1 DEF Init, StopStage, Procs
<1> QED
  BY <1>1, <1>4, <1>5, <1>6, LastInit, AliveInit DEF ConnectedInv, Connected

\* "Zero dropped connections", as far as it goes: a connection that the round
\* robin gave to a container's own backend is served, wherever rollouts fail,
\* are interrupted or killed, if it is shorter than the drain period, docker ps
\* works, no container exits by itself and docker compose up re-creates none.
THEOREM OwnRouteServedAlways ==
    ASSUME Rollbacks = {}, Faults \cap {"ps", "crash", "recreate"} = {}
    PROVE  DeploySpec => []OwnRouteServed
<1>1. Faults \cap {"ps", "crash", "recreate", "restart"} = {} /\ Rollbacks = {}
  BY DeploymentAssumption
<1>2. ASSUME ConnectedInv, [DeployNext]_<<vars, conn, found>>
      PROVE  ConnectedInv'
  <2>1. LastInv' /\ AliveInv'
    BY <1>1, <1>2, DeployIsRollout, LastStep, AliveStep DEF ConnectedInv
  <2>2. Connected'
    <3>1. CASE CommandStep
      BY <1>1, <1>2, <3>1, ConnectedCommand
    <3>2. CASE \E k \in Conns : Route(k) \/ Dial(k) \/ PipeEnds(k)
      BY <1>2, <3>2, ConnectedHandler
    <3>3. CASE UNCHANGED <<vars, conn, found>>
      BY <1>2, <3>3 DEF ConnectedInv, Connected, ConnType, OwnRouteServed, OwnHealthy,
         StopStage, Via, Live, Healthy, vars
    <3> QED
      BY <1>2, <3>1, <3>2, <3>3 DEF DeployNext
  <2> QED
    BY <2>1, <2>2 DEF ConnectedInv
<1>3. ConnectedInv => OwnRouteServed
  BY DEF ConnectedInv, Connected
<1> QED
  BY <1>2, <1>3, ConnectedInit, PTL DEF DeploySpec
=============================================================================
