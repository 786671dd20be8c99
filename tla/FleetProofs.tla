----------------------------- MODULE FleetProofs -----------------------------
(***************************************************************************)
(* Theorems about the containers of Rollout, for any number of commands,   *)
(* replicas and containers: which of them each call of a rollout starts or *)
(* stops, and how many run.  They do not depend on the registry, so they   *)
(* hold beside any rollback and whatever becomes of the proxy.             *)
(***************************************************************************)
EXTENDS RolloutProofs

-----------------------------------------------------------------------------
(* Scaling by one container. *)

\* Container numbers above created are unused.
Numbered == \A c \in Containers : cont[c] # "none" => c <= created

\* What runs can be counted.
LEMMA RunningFinite == IsFiniteSet(Running) /\ Running \subseteq Containers
<1>1. IsFiniteSet(Containers) /\ Running \subseteq Containers
  BY FS_Interval, RolloutAssumption DEF Containers, Running
<1> QED
  BY <1>1, FS_Subset

\* What stopping the containers out and creating n new ones leaves running.
LEMMA ReplacesRun ==
    ASSUME TypeOK, Numbered, NEW out \in SUBSET Running, NEW n \in Nat, Replaces(out, n)
    PROVE  /\ created' = created + n /\ created' \in 0 .. MaxContainers
           /\ Running' = (Running \ out) \cup ((created + 1) .. created')
           /\ Cardinality(Running') = (Cardinality(Running) - Cardinality(out)) + n
           /\ Numbered'
<1> DEFINE fresh == (created + 1) .. (created + n)
<1>1. /\ created + n <= MaxContainers
      /\ created' = created + n /\ created' \in 0 .. MaxContainers
      /\ cont' = [c \in Containers |->
                    IF c \in out THEN "gone"
                    ELSE IF created < c /\ c <= created + n THEN "starting" ELSE cont[c]]
      /\ created \in Nat /\ MaxContainers \in Nat /\ Running \subseteq Containers
  BY RunningFinite, RolloutAssumption DEF Replaces, TypeOK
<1>2. /\ fresh \subseteq Containers /\ Running \cap fresh = {}
      /\ \A c \in Containers : (created < c /\ c <= created + n) <=> c \in fresh
  BY <1>1 DEF Containers, Numbered, Running
<1>3. cont' = [c \in Containers |->
                 IF c \in out THEN "gone" ELSE IF c \in fresh THEN "starting" ELSE cont[c]]
  BY <1>1, <1>2
<1> HIDE DEF fresh
<1>4. Running' = (Running \ out) \cup fresh
  BY <1>1, <1>2, <1>3 DEF Running
<1>5. Numbered'
  BY <1>1, <1>2, <1>3 DEF Numbered, Running, fresh, Containers
<1>6. /\ IsFiniteSet(Running \ out)
      /\ Cardinality(Running \ out) = Cardinality(Running) - Cardinality(out)
      /\ Cardinality(Running \ out) \in Nat
  <2>1. Running \cap out = out
    OBVIOUS
  <2> QED
    BY <2>1, RunningFinite, FS_Difference, FS_CardinalityType
<1>7. IsFiniteSet(fresh) /\ Cardinality(fresh) = n
  BY <1>1, FS_Interval DEF fresh
<1>8. Cardinality(Running') = Cardinality(Running \ out) + n
  <2>1. (Running \ out) \cap fresh = {} /\ Cardinality({}) = 0
    BY <1>2, FS_EmptySet
  <2> QED
    BY <1>4, <1>6, <1>7, <2>1, FS_Union
<1> QED
  BY <1>1, <1>4, <1>5, <1>6, <1>8 DEF fresh

\* docker compose up --scale with one more starts a container of a new number.
\* Without re-creation that is all it does.
Starts(c) ==
    /\ c = created' /\ c \in Containers /\ c > created
    /\ cont[c] = "none" /\ c \notin Running /\ IsNewest(c, Running') /\ Numbered'
    /\ Cardinality(Running') = Cardinality(Running) + 1
    /\ "recreate" \notin Faults =>
          /\ cont' = [cont EXCEPT ![c] = "starting"]
          /\ Running' = Running \cup {c}

\* A part of a scale-up leaves at most one container more, and before it has
\* re-created what it has stopped fewer.
StartsPart ==
    /\ created' \in Nat /\ created' >= created /\ Numbered'
    /\ Cardinality(Running') <= Cardinality(Running) + 1

LEMMA ScaleUpOne ==
    ASSUME TypeOK, Numbered, ScaleTo(Cardinality(Running) + 1)
    PROVE  Starts(created')
<1> DEFINE r == Cardinality(Running)
<1>1. r \in Nat /\ created \in Nat /\ MaxContainers \in Nat /\ cont \in [Containers -> Status]
  BY ReplicaCount, RolloutAssumption DEF TypeOK
<1>2. PICK out \in Outdated : Replaces(out, ((r + 1) - r) + Cardinality(out))
  BY <1>1 DEF ScaleTo
<1> DEFINE n == 1 + Cardinality(out)
<1>3. /\ Replaces(out, n) /\ n \in Nat /\ n > 0 /\ out \in SUBSET Running
      /\ Cardinality(out) \in Nat
      /\ "recreate" \notin Faults => out = {} /\ n = 1
  <2>1. ((r + 1) - r) + Cardinality(out) = n
    BY <1>1, OutdatedRuns
  <2> QED
    BY <1>2, <2>1, OutdatedRuns
<1> HIDE DEF n
<1>4. /\ created' = created + n /\ created' \in 0 .. MaxContainers
      /\ Running' = (Running \ out) \cup ((created + 1) .. created')
      /\ Cardinality(Running') = (r - Cardinality(out)) + n
      /\ Numbered'
  BY <1>3, ReplacesRun
<1>5. Cardinality(Running') = r + 1
  BY <1>1, <1>3, <1>4 DEF n
<1>6. created' \in Containers /\ created' > created /\ created' \notin Running
      /\ cont[created'] = "none"
  BY <1>1, <1>3, <1>4 DEF Containers, Numbered, Running
<1>7. IsNewest(created', Running')
  BY <1>1, <1>3, <1>4 DEF IsNewest, Running, Numbered, Containers
<1>8. ASSUME "recreate" \notin Faults
      PROVE  /\ cont' = [cont EXCEPT ![created'] = "starting"]
             /\ Running' = Running \cup {created'}
  <2>1. /\ cont' = [c \in Containers |->
                      IF c \in out THEN "gone"
                      ELSE IF created < c /\ c <= created + n THEN "starting" ELSE cont[c]]
        /\ out = {} /\ created' = created + 1 /\ n = 1
    BY <1>3, <1>4, <1>8 DEF Replaces
  <2>2. \A c \in Containers : (created < c /\ c <= created + n) <=> c = created'
    BY <1>1, <2>1 DEF Containers
  <2>3. (created + 1) .. created' = {created'}
    BY <1>1, <2>1
  <2> QED
    BY <1>1, <1>4, <2>1, <2>2, <2>3
<1> QED
  BY <1>4, <1>5, <1>6, <1>7, <1>8 DEF Starts

\* An interrupted scale-up, and without re-creation one that did nothing or all.
LEMMA ScaleUpPart ==
    ASSUME TypeOK, Numbered, ScalePartly(Cardinality(Running) + 1)
    PROVE  /\ StartsPart
           /\ "recreate" \in Faults \/ UNCHANGED <<cont, created>> \/ Starts(created')
<1> DEFINE r == Cardinality(Running)
<1>1. r \in Nat /\ created \in Nat /\ MaxContainers \in Nat /\ cont \in [Containers -> Status]
  BY ReplicaCount, RolloutAssumption DEF TypeOK
<1>2. PICK out \in Outdated :
         \E m \in 0 .. (((r + 1) - r) + Cardinality(out)) : Replaces(out, m)
  BY DEF ScalePartly
<1>3. PICK m \in 0 .. (((r + 1) - r) + Cardinality(out)) : Replaces(out, m)
  BY <1>2
<1>4. /\ m \in Nat /\ m <= 1 + Cardinality(out) /\ out \in SUBSET Running
      /\ Cardinality(out) \in Nat
      /\ "recreate" \notin Faults => out = {} /\ Cardinality(out) = 0
  BY <1>1, <1>2, <1>3, OutdatedRuns
<1>5. StartsPart
  <2>1. /\ created' = created + m /\ Numbered'
        /\ Cardinality(Running') = (r - Cardinality(out)) + m
    BY <1>3, <1>4, ReplacesRun
  <2> QED
    BY <1>1, <1>4, <2>1 DEF StartsPart
<1>6. CASE "recreate" \notin Faults /\ m = 0
  <2>1. /\ created' = created + 0
        /\ cont' = [c \in Containers |->
                      IF c \in out THEN "gone"
                      ELSE IF created < c /\ c <= created + 0 THEN "starting" ELSE cont[c]]
    BY <1>3, <1>6 DEF Replaces
  <2>2. \A c \in Containers : c \notin out /\ ~(created < c /\ c <= created + 0)
    BY <1>1, <1>4, <1>6 DEF Containers
  <2> QED
    BY <1>1, <1>5, <2>1, <2>2
<1>7. CASE "recreate" \notin Faults /\ m = 1
  <2>1. Replaces(out, (r + 1 - r) + Cardinality(out))
    <3>1. (r + 1 - r) + Cardinality(out) = m
      BY <1>1, <1>4, <1>7
    <3> QED
      BY <1>3, <3>1
  <2>2. ScaleTo(r + 1)
    BY <1>1, <1>2, <2>1 DEF ScaleTo
  <2> QED
    BY <1>5, <2>2, ScaleUpOne
<1>8. CASE "recreate" \in Faults
  BY <1>5, <1>8
<1> QED
  BY <1>4, <1>6, <1>7, <1>8

\* With one less it removes the newest.
LEMMA ScaleDownOne ==
    ASSUME TypeOK, NEW c, IsNewest(c, Running), NEW n \in Nat,
           Cardinality(Running) = n + 1, ScaleTo(n)
    PROVE  /\ created' = created
           /\ cont' = [cont EXCEPT ![c] = "gone"]
           /\ Running' = Running \ {c}
           /\ Cardinality(Running') = n
<1> DEFINE Above(d) == {e \in Running : e >= d}
<1>1. /\ created' = created
      /\ cont' = [d \in Containers |->
           IF d \in Running /\ Cardinality(Above(d)) <= (n + 1) - n THEN "gone" ELSE cont[d]]
  BY DEF ScaleTo
<1>2. c \in Running /\ (\A d \in Running : d <= c) /\ Running \subseteq Containers
  BY RunningFinite DEF IsNewest
<1>3. Cardinality(Above(c)) = 1
  <2>1. /\ \A e \in Running : e >= c => e = c
        /\ c >= c
    BY <1>2 DEF Containers
  <2>2. Above(c) = {c}
    BY <1>2, <2>1
  <2>3. Cardinality({c}) = 1
    BY FS_Singleton
  <2> QED
    BY <2>2, <2>3
<1>4. ASSUME NEW d \in Running, d # c
      PROVE  ~(Cardinality(Above(d)) <= 1)
  <2>1. IsFiniteSet(Above(d)) /\ Cardinality(Above(d)) \in Nat
    <3>1. Above(d) \subseteq Running
      OBVIOUS
    <3>2. IsFiniteSet(Above(d))
      BY <3>1, RunningFinite, FS_Subset
    <3> QED
      BY <3>2, FS_CardinalityType
  <2>2. c \in Above(d) /\ d \in Above(d)
    BY <1>2 DEF Containers
  <2>3. Cardinality(Above(d) \ {c}) = Cardinality(Above(d)) - 1
    BY <2>1, <2>2, FS_RemoveElement
  <2>4. Above(d) \ {c} # {} /\ IsFiniteSet(Above(d) \ {c})
    BY <1>4, <2>1, <2>2, FS_RemoveElement
  <2>5. Cardinality(Above(d) \ {c}) # 0 /\ Cardinality(Above(d) \ {c}) \in Nat
    BY <2>4, FS_EmptySet, FS_CardinalityType
  <2> HIDE DEF Above
  <2> QED
    BY <2>1, <2>3, <2>5
<1>5. \A d \in Containers : (d \in Running /\ Cardinality(Above(d)) <= (n + 1) - n) <=> d = c
  BY <1>2, <1>3, <1>4
<1> HIDE DEF Above
<1>6. cont' = [cont EXCEPT ![c] = "gone"]
  BY <1>1, <1>5 DEF TypeOK
<1>7. Running' = Running \ {c}
  BY <1>2, <1>6 DEF TypeOK, Running
<1>8. Cardinality(Running') = n
  BY <1>2, <1>7, RunningFinite, FS_RemoveElement
<1> QED
  BY <1>1, <1>6, <1>7, <1>8

\* A set has one newest container.
LEMMA NewestUnique ==
    ASSUME NEW S \in SUBSET Nat, NEW c, NEW d, IsNewest(c, S), IsNewest(d, S)
    PROVE  c = d
  BY DEF IsNewest

-----------------------------------------------------------------------------
(* The containers of a rollout, call by call. *)

Healthy == {c \in Containers : cont[c] = "healthy"}

\* From the scale-up to the removal of the old one there is one container more
\* than the rollout has counted, and it is the newest of them.
FleetStage(p) ==
    /\ pc[p] = "scale" => loc[p].replicas = Cardinality(Running)
    /\ pc[p] \in {"wait", "scaleBack"} => IsNewest(created, Running)
    /\ pc[p] \in {"find", "register", "save", "drain", "sleep", "dereg", "rm"} =>
          IsNewest(loc[p].new, Running)
    /\ pc[p] \in {"register", "save", "drain", "sleep", "dereg", "rm"} =>
          loc[p].old = NoId \/ loc[p].old \in Running \ {loc[p].new}
    /\ pc[p] \in {"wait", "scaleBack", "find", "register", "save", "drain", "sleep",
                  "dereg", "rm"} =>
          Cardinality(Running) = loc[p].replicas + 1
    /\ pc[p] \in {"find", "register", "save", "drain", "sleep", "dereg", "rm"} =>
          loc[p].replicas > 0
    /\ pc[p] \in {"wait", "scaleBack"} => loc[p].replicas > 0 \/ "recreate" \in Faults

\* Only a scale-up that fails while it re-creates what runs can leave nothing.
Fleet ==
    /\ Running # {} \/ "recreate" \in Faults
    /\ Numbered
    /\ \A p \in Rollouts : FleetStage(p)

FleetInv == TypeOK /\ LockInv /\ Fleet

\* There is a container beside the new one to be found the old one.
LEMMA OthersRun ==
    ASSUME TypeOK, NEW p \in Procs, FleetStage(p), pc[p] = "find"
    PROVE  Running \ {loc[p].new} # {}
<1>1. IsFiniteSet(Running) /\ Cardinality(Running) > 1
  BY RunningFinite, RolloutAssumption DEF FleetStage, TypeOK
<1>2. Cardinality({loc[p].new}) = 1
  BY FS_Singleton
<1> QED
  BY <1>1, <1>2, FS_EmptySet

\* What a call that stops a container does to the rest of them.
Stops(c) ==
    /\ UNCHANGED created /\ c \in Running
    /\ cont' = [cont EXCEPT ![c] = "gone"]
    /\ Running' = Running \ {c}
    /\ Cardinality(Running') = Cardinality(Running) - 1

\* The scale-down of docker rm's place, for want of an oldID, takes the newest.
Outgoing(p) == IF loc[p].old = NoId THEN loc[p].new ELSE loc[p].old

\* Of a rollout's calls the scale-up starts a container of a new number, the
\* scale-down of a rollout that gave up stops that container again, and the
\* removal at the end stops the old one; no other touches a container.  Each of
\* the three is done unless it is cancelled or Docker fails; a scale-up that is
\* or does may have re-created only a part of what runs.
LEMMA ContainerCalls ==
    ASSUME TypeOK, Numbered, NEW p \in Rollouts, FleetStage(p), RolloutStep(p)
    PROVE  \/ /\ UNCHANGED <<cont, created>> /\ Running' = Running
              /\ pc[p] = "scale" => pc'[p] = "abort"
              /\ pc[p] \in {"scale", "scaleBack", "rm"} =>
                    p \in cancelled \/ Faults \cap {"scale", "rm"} # {}
           \/ /\ pc[p] = "scale" /\ Starts(created')
              /\ \/ pc'[p] = "wait"
                 \/ pc'[p] = "abort" /\ (p \in cancelled \/ "scale" \in Faults)
           \/ /\ pc[p] = "scale" /\ pc'[p] = "abort" /\ StartsPart
              /\ "recreate" \in Faults /\ (p \in cancelled \/ "scale" \in Faults)
           \/ pc[p] = "scaleBack" /\ pc'[p] = "abort" /\ Stops(created)
           \/ pc[p] = "rm" /\ pc'[p] = "seed" /\ Stops(Outgoing(p))
<1> p \in Procs
  BY DEF Procs
<1> USE DEF Goto, DockerFails
<1>0. /\ pc \in [Procs -> {"idle"} \cup Critical \cup RollbackPcs \cup Ended]
      /\ loc \in [Procs -> [replicas : 0 .. MaxContainers, old : {NoId} \cup Containers,
                 oldAddr : {NoId} \cup Containers, new : {NoId} \cup Containers]]
      /\ cont \in [Containers -> Status] /\ created \in Nat
      /\ loc[p].replicas \in Nat /\ Cardinality(Running) \in Nat
  BY ReplicaCount, RolloutAssumption DEF TypeOK
<1>1. UNCHANGED <<cont, created>> => Running' = Running
  BY DEF Running
<1>2. CASE ScaleUp(p)
  <2>1. pc[p] = "scale" /\ loc[p].replicas = Cardinality(Running)
    BY <1>0, <1>2 DEF ScaleUp, FleetStage
  <2>2. CASE ScaleTo(loc[p].replicas + 1) /\ pc'[p] = "wait"
    BY <2>1, <2>2, ScaleUpOne
  <2>3. CASE /\ ScalePartly(loc[p].replicas + 1)
             /\ pc'[p] = "abort" /\ DockerFails(p, "scale")
    BY <1>1, <2>1, <2>3, ScaleUpPart
  <2> QED
    BY <1>0, <1>2, <2>2, <2>3 DEF ScaleUp
<1>3. ASSUME NEW c, IsNewest(c, Running), ScaleTo(loc[p].replicas),
             Cardinality(Running) = loc[p].replicas + 1
      PROVE  Stops(c)
  <2>1. /\ created' = created /\ cont' = [cont EXCEPT ![c] = "gone"]
        /\ Running' = Running \ {c} /\ Cardinality(Running') = loc[p].replicas
    BY <1>0, <1>3, ScaleDownOne
  <2> QED
    BY <1>0, <1>3, <2>1 DEF Stops, IsNewest
<1>4. CASE ScaleBack(p)
  <2>1. /\ pc[p] = "scaleBack" /\ pc'[p] = "abort"
        /\ Cardinality(Running) = loc[p].replicas + 1 /\ IsNewest(created, Running)
    BY <1>0, <1>4 DEF ScaleBack, FleetStage
  <2>2. CASE ScaleTo(loc[p].replicas)
    BY <1>3, <2>1, <2>2
  <2>3. CASE UNCHANGED <<cont, created>> /\ DockerFails(p, "scale")
    BY <1>1, <2>1, <2>3
  <2> QED
    BY <1>4, <2>2, <2>3 DEF ScaleBack
<1>5. CASE RemoveOld(p)
  <2>1. /\ pc[p] = "rm" /\ pc'[p] = "seed"
        /\ Cardinality(Running) = loc[p].replicas + 1 /\ IsNewest(loc[p].new, Running)
        /\ loc[p].old = NoId \/ loc[p].old \in Running
    BY <1>0, <1>5 DEF RemoveOld, FleetStage
  <2>2. CASE loc[p].old = NoId /\ ScaleTo(loc[p].replicas)
    BY <1>3, <2>1, <2>2 DEF Outgoing
  <2>3. CASE /\ loc[p].old # NoId /\ UNCHANGED created
             /\ cont' = [cont EXCEPT ![loc[p].old] = "gone"]
    <3>1. loc[p].old \in Running /\ Running \subseteq Containers
      BY <2>1, <2>3, RunningFinite
    <3>2. Running' = Running \ {loc[p].old}
      BY <1>0, <2>3, <3>1 DEF Running
    <3>3. Cardinality(Running \ {loc[p].old}) = Cardinality(Running) - 1
      BY <3>1, RunningFinite, FS_RemoveElement
    <3> QED
      BY <2>1, <2>3, <3>1, <3>2, <3>3 DEF Stops, Outgoing
  <2>4. CASE /\ UNCHANGED <<cont, created>>
             /\ DockerFails(p, "rm") \/ DockerFails(p, "scale")
    BY <1>1, <2>1, <2>4
  <2> QED
    BY <1>5, <2>2, <2>3, <2>4 DEF RemoveOld
<1>6. CASE ~ScaleUp(p) /\ ~ScaleBack(p) /\ ~RemoveOld(p)
  BY <1>0, <1>1, <1>6 DEF RolloutStep, Pull, CountReplicas, WaitHealthy, WaitTimeout, FindOld,
     Register, Save, Drain, Sleep, DeregOld, DeregSeed, Clear, Unlock
<1> QED
  BY <1>2, <1>4, <1>5, <1>6

\* One call of a rollout, other rollouts being outside the lock.
LEMMA FleetRollout ==
    ASSUME FleetInv, NEW p \in Rollouts, RolloutStep(p)
    PROVE  (Running' # {} \/ "recreate" \in Faults) /\ Numbered' /\ FleetStage(p)'
<1> p \in Procs
  BY DEF Procs
<1> USE DEF Goto, SetLoc
<1>0. /\ pc \in [Procs -> {"idle"} \cup Critical \cup RollbackPcs \cup Ended]
      /\ loc \in [Procs -> [replicas : 0 .. MaxContainers, old : {NoId} \cup Containers,
                 oldAddr : {NoId} \cup Containers, new : {NoId} \cup Containers]]
      /\ cont \in [Containers -> Status] /\ created \in Nat
      /\ loc[p].replicas \in Nat /\ Cardinality(Running) \in Nat
      /\ TypeOK /\ (Running # {} \/ "recreate" \in Faults) /\ Numbered /\ FleetStage(p)
  BY ReplicaCount, RolloutAssumption DEF FleetInv, Fleet, TypeOK
<1>1. /\ IsFiniteSet(Running) /\ Running \subseteq Containers
      /\ Cardinality(Running) > 0 \/ "recreate" \in Faults
  BY <1>0, RunningFinite, FS_EmptySet
<1>2. CASE /\ UNCHANGED <<cont, created>> /\ Running' = Running
           /\ pc[p] = "scale" => pc'[p] = "abort"
  <2>1. Numbered'
    BY <1>0, <1>2 DEF Numbered
  <2>2. CASE CountReplicas(p)
    <3>1. pc'[p] = "scale" => loc'[p].replicas = Cardinality(Running)
      BY <1>0, <2>2 DEF CountReplicas
    <3>2. pc'[p] \in {"scale", "abort"}
      BY <1>0, <2>2 DEF CountReplicas
    <3> QED
      BY <1>0, <1>2, <2>1, <3>1, <3>2 DEF FleetStage
  <2>3. CASE ScaleUp(p)
    BY <1>0, <1>2, <2>1, <2>3 DEF ScaleUp, FleetStage
  <2>4. CASE WaitHealthy(p)
    <3>1. PICK c \in Running : IsNewest(c, Running) /\ loc' = [loc EXCEPT ![p]["new"] = c]
      BY <2>4 DEF WaitHealthy
    <3>2. loc'[p].new = c /\ loc'[p].replicas = loc[p].replicas
      BY <1>0, <3>1
    <3>3. pc[p] = "wait" /\ pc'[p] = "find" /\ Cardinality(Running) >= 2
      BY <1>0, <2>4 DEF WaitHealthy
    <3> QED
      BY <1>0, <1>2, <2>1, <3>1, <3>2, <3>3 DEF FleetStage
  <2>5. CASE FindOld(p)
    <3>1. \E c \in {NoId} \cup (Running \ {loc[p].new}) : loc' = [loc EXCEPT ![p]["old"] = c]
      BY <2>5 DEF FindOld, IsNewest
    <3>2. /\ loc'[p].new = loc[p].new /\ loc'[p].replicas = loc[p].replicas
          /\ loc'[p].old \in {NoId} \cup (Running \ {loc[p].new})
      BY <1>0, <3>1
    <3>3. pc[p] = "find" /\ pc'[p] = "register"
      BY <1>0, <2>5 DEF FindOld
    <3> QED
      BY <1>0, <1>2, <2>1, <3>2, <3>3 DEF FleetStage
  <2>6. CASE ~CountReplicas(p) /\ ~ScaleUp(p) /\ ~WaitHealthy(p) /\ ~FindOld(p)
    <3>1. UNCHANGED loc
      BY <2>6 DEF RolloutStep, Pull, WaitTimeout, ScaleBack, Register, Save, Drain, Sleep,
         DeregOld, RemoveOld, DeregSeed, Clear, Unlock
    <3>2. \/ pc[p] = "wait" /\ pc'[p] = "scaleBack"
          \/ /\ pc[p] \in {"register", "save", "drain", "sleep", "dereg"}
             /\ pc'[p] \in {"save", "drain", "sleep", "dereg", "rm"}
          \/ pc'[p] \in {"count", "abort", "seed", "clear", "finish"} \cup Ended
      BY <1>0, <2>6 DEF RolloutStep, Pull, WaitTimeout, ScaleBack, Register, Save, Drain, Sleep,
         DeregOld, RemoveOld, DeregSeed, Clear, Unlock, Ended
    <3> QED
      BY <1>0, <1>2, <2>1, <3>1, <3>2 DEF FleetStage, Ended
  <2> QED
    BY <2>2, <2>3, <2>4, <2>5, <2>6
<1>3. CASE pc[p] = "scale" /\ Starts(created') /\ pc'[p] \in {"wait", "abort"}
  <2>1. UNCHANGED loc /\ loc[p].replicas = Cardinality(Running)
    BY <1>0, <1>3 DEF FleetStage, RolloutStep, Pull, CountReplicas, ScaleUp, WaitHealthy,
       WaitTimeout, ScaleBack, FindOld, Register, Save, Drain, Sleep, DeregOld, RemoveOld,
       DeregSeed, Clear, Unlock
  <2>2. Numbered' /\ Running' # {}
    BY <1>3 DEF Starts, IsNewest
  <2> QED
    BY <1>0, <1>1, <1>3, <2>1, <2>2 DEF FleetStage, Starts
<1>a. CASE pc[p] = "scale" /\ pc'[p] = "abort" /\ StartsPart /\ "recreate" \in Faults
  BY <1>a DEF FleetStage, StartsPart
<1>4. ASSUME NEW c, Stops(c), pc'[p] \in {"abort", "seed"},
             Cardinality(Running) > 1 \/ "recreate" \in Faults
      PROVE  (Running' # {} \/ "recreate" \in Faults) /\ Numbered' /\ FleetStage(p)'
  <2>1. Cardinality(Running') # 0 \/ "recreate" \in Faults
    BY <1>4, <1>0 DEF Stops
  <2>2. Running' # {} \/ "recreate" \in Faults
    BY <2>1, FS_EmptySet
  <2>3. Numbered'
    BY <1>0, <1>1, <1>4 DEF Stops, Numbered, Running
  <2> QED
    BY <1>4, <2>2, <2>3 DEF FleetStage
<1>5. pc[p] \in {"scaleBack", "rm"} => Cardinality(Running) > 1 \/ "recreate" \in Faults
  BY <1>0 DEF FleetStage
<1> QED
  BY <1>0, <1>a, <1>2, <1>3, <1>4, <1>5, ContainerCalls

\* A step that is no call of a rollout leaves every container that is running
\* running, the healthy ones healthy, and every rollout with what it has learnt.
LEMMA Beside ==
    ASSUME TypeOK, [Next]_vars, "crash" \notin Faults, \A p \in Rollouts : ~RolloutStep(p)
    PROVE  /\ UNCHANGED created /\ Running' = Running
           /\ \A c \in Containers : (cont[c] = "none") <=> (cont'[c] = "none")
           /\ \A c \in Containers : cont[c] = "healthy" => cont'[c] = "healthy"
           /\ cancelled \subseteq cancelled'
           /\ "signal" \notin Faults => cancelled' = cancelled
           /\ \A q \in Rollouts :
                 /\ loc'[q] = loc[q]
                 /\ \/ pc'[q] = pc[q]
                    \/ pc'[q] = "killed" /\ "kill" \in Faults
                    \/ pc[q] = "idle" /\ pc'[q] = "refused"
                    \/ pc[q] = "idle" /\ pc'[q] = "pull" /\ ~lock
           /\ (\A q \in Rollbacks : ~RollbackStep(q)) =>
                 /\ UNCHANGED saved
                 /\ \/ UNCHANGED store
                    \/ "restart" \in Faults /\ store' = Add(NewRegistry, Seed, Dns, 0)
<1> USE DEF Goto, Procs
<1>0. pc \in [Procs -> {"idle"} \cup Critical \cup RollbackPcs \cup Ended]
      /\ cont \in [Containers -> Status]
  BY DEF TypeOK
<1>a. UNCHANGED cont => Running' = Running
  BY DEF Running
<1>1. ASSUME NEW p \in Rollouts, Acquire(p)
      PROVE  /\ UNCHANGED <<cont, created, store, saved, loc, cancelled>>
             /\ \A q \in Rollouts : \/ pc'[q] = pc[q]
                                    \/ pc[q] = "idle" /\ pc'[q] = "refused"
                                    \/ pc[q] = "idle" /\ pc'[q] = "pull" /\ ~lock
  <2>1. UNCHANGED <<cont, created, store, saved, loc, cancelled>>
    BY <1>1 DEF Acquire
  <2>2. /\ pc[p] = "idle"
        /\ \/ ~lock /\ pc' = [pc EXCEPT ![p] = "pull"]
           \/ pc' = [pc EXCEPT ![p] = "refused"]
    BY <1>1 DEF Acquire
  <2> QED
    BY <1>0, <2>1, <2>2
<1>2. ASSUME NEW p \in Rollbacks, LoadState(p) \/ RollbackStep(p)
      PROVE  /\ UNCHANGED <<cont, created, cancelled>>
             /\ \A q \in Rollouts : pc'[q] = pc[q] /\ loc'[q] = loc[q]
             /\ ~RollbackStep(p) => UNCHANGED <<store, saved>>
  <2>1. UNCHANGED <<cont, created, cancelled>> /\ (~RollbackStep(p) => UNCHANGED <<store, saved>>)
    BY <1>2 DEF LoadState, RollbackStep, RbRegister, RbDrain, RbSleep, RbDereg, RbClear
  <2> QED
    BY <1>2, <2>1, OthersUntouched, RolloutAssumption
<1>3. ASSUME NEW p \in Procs, Cancel(p)
      PROVE  /\ UNCHANGED <<cont, created, store, saved, loc, pc>>
             /\ cancelled \subseteq cancelled' /\ "signal" \in Faults
  BY <1>3 DEF Cancel
<1>4. ASSUME NEW p \in Procs, Kill(p)
      PROVE  /\ UNCHANGED <<cont, created, store, saved, loc, cancelled>> /\ "kill" \in Faults
             /\ \A q \in Rollouts : pc'[q] = pc[q] \/ pc'[q] = "killed"
  BY <1>0, <1>4 DEF Kill
<1>5. CASE ContainerReports
  <2>1. UNCHANGED <<created, store, saved, pc, loc, cancelled>>
    BY <1>5 DEF ContainerReports
  <2>2. PICK c \in Containers, h \in {"healthy", "unhealthy"} :
           cont[c] = "starting" /\ cont' = [cont EXCEPT ![c] = h]
    BY <1>5 DEF ContainerReports
  <2>3. Running' = Running
    BY <1>0, <2>2 DEF Running
  <2>4. \A d \in Containers : /\ cont[d] = "healthy" => cont'[d] = "healthy"
                              /\ (cont[d] = "none") <=> (cont'[d] = "none")
    BY <1>0, <2>2
  <2> QED
    BY <2>1, <2>3, <2>4
<1>6. CASE ProxyRestart
  BY <1>6, <1>a DEF ProxyRestart
<1>7. CASE ClearStaleLock \/ UNCHANGED vars
  <2>1. UNCHANGED <<cont, created, store, saved, pc, loc, cancelled>>
    BY <1>7 DEF ClearStaleLock, vars
  <2> QED
    BY <2>1, <1>a
<1>8. ~ContainerCrash
  BY DEF ContainerCrash
<1>9. CASE \E p \in Rollouts : Acquire(p)
  BY <1>1, <1>9, <1>a
<1>10. CASE \E p \in Rollbacks : LoadState(p) \/ RollbackStep(p)
  BY <1>2, <1>10, <1>a
<1>11. CASE \E p \in Procs : Cancel(p) \/ Kill(p)
  BY <1>3, <1>4, <1>11, <1>a
<1> QED
  BY <1>5, <1>6, <1>7, <1>8, <1>9, <1>10, <1>11 DEF Next, Environment

\* Whatever fails, if no container exits by itself, the rollouts agree with
\* Docker about what runs.
LEMMA FleetStep ==
    ASSUME FleetInv, [Next]_vars, "crash" \notin Faults
    PROVE  FleetInv'
<1>1. TypeOK /\ LockInv /\ TypeOK' /\ LockInv'
  BY TypeStep, LockStep DEF FleetInv
<1>2. ASSUME NEW p \in Rollouts, RolloutStep(p)
      PROVE  Fleet'
  <2>1. (Running' # {} \/ "recreate" \in Faults) /\ Numbered' /\ FleetStage(p)'
    BY <1>2, FleetRollout
  <2>2. \A q \in Rollouts \ {p} : FleetStage(q)'
    BY <1>1, <1>2, AloneInside DEF FleetStage, Critical
  <2> QED
    BY <2>1, <2>2 DEF Fleet
<1>3. CASE \A p \in Rollouts : ~RolloutStep(p)
  <2>1. /\ UNCHANGED created /\ Running' = Running
        /\ \A c \in Containers : (cont[c] = "none") <=> (cont'[c] = "none")
        /\ \A q \in Rollouts : /\ loc'[q] = loc[q]
                               /\ pc'[q] = pc[q] \/ pc'[q] \in {"killed", "refused", "pull"}
    BY <1>1, <1>3, Beside
  <2>2. \A q \in Rollouts : FleetStage(q)'
    BY <2>1 DEF FleetInv, Fleet, FleetStage
  <2> QED
    BY <1>1, <2>1, <2>2 DEF FleetInv, Fleet, Numbered
<1> QED
  BY <1>1, <1>2, <1>3 DEF FleetInv

\* The first rollout finds the replicas, numbered from 1.
LEMMA FleetInit ==
    ASSUME Init
    PROVE  FleetInv /\ Running = 1 .. Replicas /\ Cardinality(Running) = Replicas
<1>1. Running = 1 .. Replicas
  BY RolloutAssumption DEF Init, Running, Containers
<1>2. Cardinality(Running) = Replicas
  BY <1>1, FS_Interval, RolloutAssumption
<1>3. Running # {} /\ Numbered
  BY <1>1, RolloutAssumption DEF Init, Numbered, Containers
<1> QED
  BY <1>1, <1>2, <1>3, TypeInit, LockInit DEF Init, FleetInv, Fleet, FleetStage, Procs

-----------------------------------------------------------------------------
(* Rollouts leave as many containers as they found. *)

\* From the scale-up to the removal of the old one there is one container more.
CountStage(p) ==
    /\ pc[p] \in {"pull", "count", "scale", "abort", "seed", "clear", "finish"} =>
          Cardinality(Running) = Replicas
    /\ pc[p] \in {"wait", "scaleBack", "find", "register", "save", "drain", "sleep", "dereg", "rm"} =>
          Cardinality(Running) = Replicas + 1

Counted ==
    /\ cancelled = {}
    /\ ReplicasRestored
    /\ \A p \in Rollouts : CountStage(p)

CountInv == FleetInv /\ Counted

\* The faults that end a rollout between its scale-up and the removal of a
\* container, or make a removal fail.
LeavesContainer == {"scale", "rm", "http", "signal", "kill"}

\* One call of a rollout, with every removal done.
LEMMA CountRollout ==
    ASSUME CountInv, NEW p \in Rollouts, RolloutStep(p), Faults \cap LeavesContainer = {}
    PROVE  /\ cancelled' = {} /\ CountStage(p)'
           /\ pc'[p] \notin Critical => Cardinality(Running') = Replicas
<1> p \in Procs
  BY DEF Procs
<1> USE DEF Goto
<1>0. /\ pc \in [Procs -> {"idle"} \cup Critical \cup RollbackPcs \cup Ended]
      /\ TypeOK /\ Numbered /\ FleetStage(p) /\ CountStage(p)
      /\ p \notin cancelled /\ Faults \cap {"scale", "http", "rm"} = {}
      /\ Cardinality(Running) \in Nat /\ Replicas \in Nat
  BY ReplicaCount, RolloutAssumption
  DEF CountInv, FleetInv, Fleet, Counted, TypeOK, LeavesContainer
<1>a. cancelled' = {}
  BY DEF CountInv, Counted, RolloutStep, Pull, CountReplicas, ScaleUp, WaitHealthy,
     WaitTimeout, ScaleBack, FindOld, Register, Save, Drain, Sleep, DeregOld, RemoveOld,
     DeregSeed, Clear, Unlock
<1>1. CASE /\ UNCHANGED <<cont, created>> /\ Running' = Running
           /\ pc[p] \notin {"scale", "scaleBack", "rm"}
  <2>1. \/ /\ pc[p] \in {"pull", "count", "seed", "clear", "finish", "abort"}
           /\ pc'[p] \in {"count", "scale", "abort", "clear", "finish"} \cup Ended
        \/ /\ pc[p] \in {"wait", "find", "register", "save", "drain", "sleep", "dereg"}
           /\ pc'[p] \in {"scaleBack", "find", "register", "save", "drain", "sleep", "dereg", "rm"}
    BY <1>0, <1>1 DEF RolloutStep, Pull, CountReplicas, ScaleUp, WaitHealthy, WaitTimeout,
       ScaleBack, FindOld, Register, Save, Drain, Sleep, DeregOld, RemoveOld, DeregSeed,
       Clear, Unlock, Errors, Ended
  <2> QED
    BY <1>0, <1>1, <1>a, <2>1 DEF CountStage, Critical, Ended
<1>2. CASE pc[p] = "scale" /\ Starts(created') /\ pc'[p] = "wait"
  BY <1>0, <1>2, <1>a DEF CountStage, Starts, Critical
<1>3. ASSUME NEW c, Stops(c), pc[p] \in {"scaleBack", "rm"}, pc'[p] \in {"abort", "seed"}
      PROVE  CountStage(p)' /\ Cardinality(Running') = Replicas
  BY <1>0, <1>3 DEF CountStage, Stops
<1> QED
  BY <1>0, <1>a, <1>1, <1>2, <1>3, ContainerCalls

\* Nothing but a rollout's own calls changes how many containers run.
LEMMA CountStep ==
    ASSUME CountInv, [Next]_vars, Faults \cap (LeavesContainer \cup {"crash"}) = {}
    PROVE  CountInv'
<1>1. FleetInv' /\ TypeOK /\ LockInv /\ "crash" \notin Faults /\ "signal" \notin Faults
  BY FleetStep DEF CountInv, FleetInv, LeavesContainer
<1>2. ASSUME NEW p \in Rollouts, RolloutStep(p)
      PROVE  Counted'
  <2>1. /\ cancelled' = {} /\ CountStage(p)'
        /\ pc'[p] \notin Critical => Cardinality(Running') = Replicas
    BY <1>2, CountRollout
  <2>2. \A q \in Rollouts \ {p} : CountStage(q)'
    BY <1>1, <1>2, AloneInside DEF CountStage, Critical
  <2> QED
    BY <1>2, <2>1, <2>2 DEF Counted, ReplicasRestored, RolloutsQuiet
<1>3. CASE \A p \in Rollouts : ~RolloutStep(p)
  <2>1. /\ Running' = Running /\ cancelled' = cancelled
        /\ \A q \in Rollouts : \/ pc'[q] = pc[q]
                               \/ pc'[q] = "refused"
                               \/ pc'[q] = "pull" /\ ~lock
        /\ \A q \in Rollouts : pc[q] \in Critical => pc'[q] = pc[q]
    BY <1>1, <1>3, Beside DEF Critical, LeavesContainer
  <2>2. ~lock => RolloutsQuiet
    BY <1>1 DEF LockInv, RolloutsQuiet
  <2>3. RolloutsQuiet' => RolloutsQuiet
    BY <2>1 DEF RolloutsQuiet
  <2>4. RolloutsQuiet => Cardinality(Running) = Replicas
    BY DEF CountInv, Counted, ReplicasRestored
  <2>5. ASSUME NEW q \in Rollouts
        PROVE  CountStage(q)'
    BY <2>1, <2>2, <2>4 DEF CountInv, Counted, CountStage
  <2> QED
    BY <1>1, <2>1, <2>3, <2>4, <2>5 DEF CountInv, Counted, ReplicasRestored
<1> QED
  BY <1>1, <1>2, <1>3 DEF CountInv

\* A rollout that runs to its end, completed, given up after its timeout or
\* stopped by a failing pull or docker ps, leaves as many containers as it
\* found: also beside rollbacks and a proxy that restarts.
THEOREM ReplicasRestoredAlways ==
    ASSUME Faults \cap {"scale", "rm", "http", "signal", "kill", "crash"} = {}
    PROVE  Spec => []ReplicasRestored
<1>1. Faults \cap (LeavesContainer \cup {"crash"}) = {}
  BY DEF LeavesContainer
<1>2. Init => CountInv
  BY FleetInit DEF Init, CountInv, Counted, ReplicasRestored, CountStage, Procs
<1>3. CountInv /\ [Next]_vars => CountInv'
  BY <1>1, CountStep
<1>4. CountInv => ReplicasRestored
  BY DEF CountInv, Counted
<1> QED
  BY <1>2, <1>3, <1>4, PTL DEF Spec
=============================================================================
