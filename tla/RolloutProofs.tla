---------------------------- MODULE RolloutProofs ----------------------------
(***************************************************************************)
(* Theorems about Rollout, for any number of commands, replicas and        *)
(* containers: type correctness and mutual exclusion, both under every     *)
(* fault.                                                                  *)
(***************************************************************************)
EXTENDS Rollout, FiniteSetTheorems, TLAPS

-----------------------------------------------------------------------------
(* Lemmas about the registry's operators and about docker compose. *)

\* registry.go: each mutation keeps a well-typed store well typed.
LEMMA StoreOps ==
    ASSUME NEW s, StoreType(s)
    PROVE  /\ \A id \in {Seed} \cup Containers, addr \in {Dns} \cup Containers :
                 StoreType(Add(s, id, addr, 0))
           /\ \A id : StoreType(Remove(s, id))
           /\ \A id : StoreType(SetDraining(s, id))
<1>1. ASSUME NEW id \in {Seed} \cup Containers, NEW addr \in {Dns} \cup Containers
      PROVE  StoreType(Add(s, id, addr, 0))
  BY <1>1 DEF StoreType, Add
<1>2. ASSUME NEW id
      PROVE  StoreType(Remove(s, id))
  BY <1>2 DEF StoreType, Remove
<1>3. ASSUME NEW id
      PROVE  StoreType(SetDraining(s, id))
  BY <1>3 DEF StoreType, SetDraining
<1> QED
  BY <1>1, <1>2, <1>3

\* registry.go: what each mutation does to the rotation.
LEMMA ActiveOps ==
    ASSUME NEW s, NEW id
    PROVE  /\ \A addr : id \notin DOMAIN s => Active(Add(s, id, addr, 0)) = Active(s) \cup {id}
           /\ \A addr : id \in DOMAIN s => Active(Add(s, id, addr, 0)) = Active(s)
           /\ Active(Remove(s, id)) = Active(s) \ {id}
           /\ Active(SetDraining(s, id)) = Active(s) \ {id}
<1>1. ASSUME NEW addr, id \notin DOMAIN s
      PROVE  Active(Add(s, id, addr, 0)) = Active(s) \cup {id}
  BY <1>1 DEF Active, Add
<1>2. ASSUME NEW addr, id \in DOMAIN s
      PROVE  Active(Add(s, id, addr, 0)) = Active(s)
  BY <1>2 DEF Active, Add
<1>3. Active(Remove(s, id)) = Active(s) \ {id}
  BY DEF Active, Remove
<1>4. Active(SetDraining(s, id)) = Active(s) \ {id}
  BY DEF Active, SetDraining
<1> QED
  BY <1>1, <1>2, <1>3, <1>4

\* There are at most MaxContainers containers to count.
LEMMA ReplicaCount == Cardinality(Running) \in 0 .. MaxContainers
<1>1. IsFiniteSet(Containers) /\ Cardinality(Containers) = MaxContainers
  BY FS_Interval, RolloutAssumption DEF Containers
<1>2. Running \subseteq Containers
  BY DEF Running
<1>3. IsFiniteSet(Running) /\ Cardinality(Running) <= MaxContainers
  BY <1>1, <1>2, FS_Subset
<1> QED
  BY <1>3, FS_CardinalityType, RolloutAssumption

\* docker compose up that replaces containers keeps them typed.
LEMMA ReplacesType ==
    ASSUME TypeOK, NEW out \in SUBSET Running, NEW n \in Nat, Replaces(out, n)
    PROVE  /\ cont' \in [Containers -> Status]
           /\ created' \in 0 .. MaxContainers
  BY RolloutAssumption DEF Replaces, TypeOK, Containers, Status

\* Only running containers are found out of date.
LEMMA OutdatedRuns ==
    ASSUME NEW out \in Outdated
    PROVE  /\ out \in SUBSET Running /\ Cardinality(out) \in Nat
           /\ "recreate" \notin Faults => out = {} /\ Cardinality(out) = 0
<1>1. out \in SUBSET Running /\ ("recreate" \notin Faults => out = {})
  BY DEF Outdated
<1>2. IsFiniteSet(Containers) /\ Running \subseteq Containers
  BY FS_Interval, RolloutAssumption DEF Containers, Running
<1>3. IsFiniteSet(Running)
  BY <1>2, FS_Subset
<1> QED
  BY <1>1, <1>3, FS_Subset, FS_CardinalityType, FS_EmptySet

\* And so do a scale-up or -down and a part of a scale-up.
LEMMA ScaleToType ==
    ASSUME TypeOK, NEW n \in Nat, ScaleTo(n) \/ ScalePartly(n)
    PROVE  /\ cont' \in [Containers -> Status]
           /\ created' \in 0 .. MaxContainers
<1> DEFINE r == Cardinality(Running)
<1>1. r \in 0 .. MaxContainers
  BY ReplicaCount
<1>a. CASE ScalePartly(n)
  <2>1. PICK out \in Outdated :
           \E m \in 0 .. ((n - r) + Cardinality(out)) : Replaces(out, m)
    BY <1>a DEF ScalePartly
  <2>2. PICK m \in 0 .. ((n - r) + Cardinality(out)) : Replaces(out, m)
    BY <2>1
  <2>3. m \in Nat /\ out \in SUBSET Running
    BY <1>1, <2>1, <2>2, OutdatedRuns
  <2> QED
    BY <2>2, <2>3, ReplacesType
<1>2. CASE ScaleTo(n) /\ n >= r
  <2>1. PICK out \in Outdated : Replaces(out, (n - r) + Cardinality(out))
    BY <1>1, <1>2 DEF ScaleTo
  <2>2. (n - r) + Cardinality(out) \in Nat /\ out \in SUBSET Running
    BY <1>1, <1>2, <2>1, OutdatedRuns
  <2> QED
    BY <2>1, <2>2, ReplacesType
<1>3. CASE ScaleTo(n) /\ n < r
  <2>1. /\ created' = created
        /\ \E gone \in SUBSET Running :
              cont' = [c \in Containers |-> IF c \in gone THEN "gone" ELSE cont[c]]
    <3> DEFINE gone == {c \in Running : Cardinality({d \in Running : d >= c}) <= r - n}
    <3>1. created' = created
          /\ cont' = [c \in Containers |->
                IF c \in Running /\ Cardinality({d \in Running : d >= c}) <= r - n
                THEN "gone" ELSE cont[c]]
      BY <1>1, <1>3 DEF ScaleTo
    <3>2. cont' = [c \in Containers |-> IF c \in gone THEN "gone" ELSE cont[c]]
      BY <3>1
    <3> QED
      BY <3>1, <3>2
  <2> QED
    BY <2>1, RolloutAssumption DEF TypeOK, Status, Running, Containers
<1> QED
  BY <1>1, <1>a, <1>2, <1>3

\* A control API call leaves a well-typed registry, whatever its outcome.
LEMMA CallType ==
    ASSUME StoreType(store), NEW s, StoreType(s), NEW p,
           Answered(p, s) \/ Errors(p, s)
    PROVE  StoreType(store')
<1>1. store' = s \/ store' = store
  BY DEF Answered, Errors
<1> QED
  BY <1>1 DEF StoreType

-----------------------------------------------------------------------------
(* Type correctness. *)

\* One step of a rollout keeps every variable's type.
LEMMA TypeRollout ==
    ASSUME TypeOK, NEW p \in Rollouts, Acquire(p) \/ RolloutStep(p)
    PROVE  TypeOK'
<1> p \in Procs
  BY DEF Procs
<1> USE DEF Goto, SetLoc
<1>1. CASE Acquire(p)
  BY <1>1 DEF Acquire, TypeOK, Critical, Ended
<1>2. CASE Pull(p)
  BY <1>2 DEF Pull, TypeOK, Critical
<1>3. CASE CountReplicas(p)
  BY <1>3, ReplicaCount DEF CountReplicas, TypeOK, Critical
<1>4. CASE ScaleUp(p)
  <2>1. loc[p].replicas + 1 \in Nat
    BY RolloutAssumption DEF TypeOK
  <2>2. ScaleTo(loc[p].replicas + 1) \/ ScalePartly(loc[p].replicas + 1)
    BY <1>4 DEF ScaleUp
  <2>3. /\ cont' \in [Containers -> Status]
        /\ created' \in 0 .. MaxContainers
    BY <2>1, <2>2, ScaleToType
  <2> QED
    BY <1>4, <2>3 DEF ScaleUp, TypeOK, Critical
<1>5. CASE WaitHealthy(p)
  BY <1>5 DEF WaitHealthy, TypeOK, Critical, Running
<1>6. CASE WaitTimeout(p)
  BY <1>6 DEF WaitTimeout, TypeOK, Critical
<1>7. CASE ScaleBack(p)
  <2>1. loc[p].replicas \in Nat
    BY RolloutAssumption DEF TypeOK
  <2>2. CASE ScaleTo(loc[p].replicas)
    <3>1. /\ cont' \in [Containers -> Status]
          /\ created' \in 0 .. MaxContainers
      BY <2>1, <2>2, ScaleToType
    <3> QED
      BY <1>7, <3>1 DEF ScaleBack, TypeOK, Critical
  <2>3. CASE UNCHANGED <<cont, created>>
    BY <1>7, <2>3 DEF ScaleBack, TypeOK, Critical
  <2> QED
    BY <1>7, <2>2, <2>3 DEF ScaleBack
<1>8. CASE FindOld(p)
  BY <1>8 DEF FindOld, TypeOK, Critical, Running, IsNewest
<1>9. CASE Register(p)
  <2>1. CASE loc[p].new \in Containers
    <3>1. StoreType(Registered(loc[p].new, loc[p].new))
      BY <2>1, StoreOps DEF TypeOK, Registered
    <3>2. StoreType(store')
      BY <1>9, <3>1, CallType DEF Register, TypeOK
    <3> QED
      BY <1>9, <3>2 DEF Register, TypeOK, Critical
  <2>2. CASE loc[p].new = NoId
    <3>1. StoreType(Registered(loc[p].new, loc[p].new))
      BY <2>2, StoreOps DEF TypeOK, Registered, NoId, Seed, Dns
    <3>2. StoreType(store')
      BY <1>9, <3>1, CallType DEF Register, TypeOK
    <3> QED
      BY <1>9, <3>2 DEF Register, TypeOK, Critical
  <2> QED
    BY <2>1, <2>2 DEF TypeOK
<1>10. CASE Save(p)
  BY <1>10 DEF Save, TypeOK, Critical, NoState
<1>11. CASE Drain(p)
  <2>1. StoreType(store')
    BY <1>11, StoreOps, CallType DEF Drain, Drained, TypeOK
  <2> QED
    BY <1>11, <2>1 DEF Drain, TypeOK, Critical
<1>12. CASE Sleep(p)
  BY <1>12 DEF Sleep, TypeOK, Critical
<1>13. CASE DeregOld(p)
  <2>1. StoreType(store')
    BY <1>13, StoreOps, CallType DEF DeregOld, Deregistered, TypeOK
  <2> QED
    BY <1>13, <2>1 DEF DeregOld, TypeOK, Critical
<1>14. CASE RemoveOld(p)
  <2>1. loc[p].replicas \in Nat
    BY RolloutAssumption DEF TypeOK
  <2>2. CASE ScaleTo(loc[p].replicas)
    <3>1. /\ cont' \in [Containers -> Status]
          /\ created' \in 0 .. MaxContainers
      BY <2>1, <2>2, ScaleToType
    <3> QED
      BY <1>14, <3>1 DEF RemoveOld, TypeOK, Critical
  <2>3. CASE UNCHANGED <<cont, created>>
    BY <1>14, <2>3 DEF RemoveOld, TypeOK, Critical
  <2>4. CASE loc[p].old # NoId /\ UNCHANGED created
                /\ cont' = [cont EXCEPT ![loc[p].old] = "gone"]
    BY <1>14, <2>4 DEF RemoveOld, TypeOK, Critical, Status
  <2> QED
    BY <1>14, <2>2, <2>3, <2>4 DEF RemoveOld
<1>15. CASE DeregSeed(p)
  <2>1. StoreType(store')
    BY <1>15, StoreOps, CallType DEF DeregSeed, Deregistered, TypeOK
  <2> QED
    BY <1>15, <2>1 DEF DeregSeed, TypeOK, Critical
<1>16. CASE Clear(p)
  BY <1>16 DEF Clear, TypeOK, Critical, NoState
<1>17. CASE Unlock(p)
  BY <1>17 DEF Unlock, TypeOK, Ended
<1> QED
  BY <1>1, <1>2, <1>3, <1>4, <1>5, <1>6, <1>7, <1>8, <1>9, <1>10, <1>11, <1>12,
     <1>13, <1>14, <1>15, <1>16, <1>17 DEF RolloutStep

\* One step of a rollback keeps every variable's type.
LEMMA TypeRollback ==
    ASSUME TypeOK, NEW p \in Rollbacks, LoadState(p) \/ RollbackStep(p)
    PROVE  TypeOK'
<1> p \in Procs
  BY DEF Procs
<1> USE DEF Goto
<1>1. CASE LoadState(p)
  BY <1>1 DEF LoadState, TypeOK, RollbackPcs, Ended
<1>2. CASE RbRegister(p)
  <2>1. \A id, addr \in {0} \cup Containers : StoreType(Registered(id, addr))
    BY StoreOps DEF TypeOK, Registered, Seed, Dns
  <2>2. StoreType(Registered(loc[p].old, loc[p].oldAddr))
    BY <2>1 DEF TypeOK, NoId
  <2>3. StoreType(store')
    BY <1>2, <2>2, CallType DEF RbRegister, TypeOK
  <2> QED
    BY <1>2, <2>3 DEF RbRegister, TypeOK, RollbackPcs, Ended
<1>3. CASE RbDrain(p)
  <2>1. StoreType(store')
    BY <1>3, StoreOps, CallType DEF RbDrain, Drained, TypeOK
  <2> QED
    BY <1>3, <2>1 DEF RbDrain, TypeOK, RollbackPcs
<1>4. CASE RbSleep(p)
  BY <1>4 DEF RbSleep, TypeOK, RollbackPcs, Ended
<1>5. CASE RbDereg(p)
  <2>1. StoreType(store')
    BY <1>5, StoreOps, CallType DEF RbDereg, Deregistered, TypeOK
  <2> QED
    BY <1>5, <2>1 DEF RbDereg, TypeOK, RollbackPcs
<1>6. CASE RbClear(p)
  BY <1>6 DEF RbClear, TypeOK, Ended, NoState
<1> QED
  BY <1>1, <1>2, <1>3, <1>4, <1>5, <1>6 DEF RollbackStep

\* One step of the world around keeps every variable's type.
LEMMA TypeEnvironment ==
    ASSUME TypeOK, Environment \/ \E p \in Procs : Cancel(p) \/ Kill(p)
    PROVE  TypeOK'
<1>1. CASE ContainerReports
  BY <1>1 DEF ContainerReports, TypeOK, Status
<1>2. CASE ContainerCrash
  BY <1>2 DEF ContainerCrash, TypeOK, Status, Running
<1>3. CASE ProxyRestart
  <2>1. StoreType(NewRegistry)
    BY DEF StoreType, NewRegistry
  <2>2. StoreType(store')
    BY <1>3, <2>1, StoreOps DEF ProxyRestart
  <2> QED
    BY <1>3, <2>2 DEF ProxyRestart, TypeOK
<1>4. CASE ClearStaleLock
  BY <1>4 DEF ClearStaleLock, TypeOK
<1>5. ASSUME NEW p \in Procs, Cancel(p)
      PROVE  TypeOK'
  BY <1>5 DEF Cancel, TypeOK
<1>6. ASSUME NEW p \in Procs, Kill(p)
      PROVE  TypeOK'
  BY <1>6 DEF Kill, TypeOK, Goto, Ended
<1> QED
  BY <1>1, <1>2, <1>3, <1>4, <1>5, <1>6 DEF Environment

\* No step of the system, whoever's, takes a variable out of its type.
LEMMA TypeStep == TypeOK /\ [Next]_vars => TypeOK'
<1> SUFFICES ASSUME TypeOK, [Next]_vars PROVE TypeOK'
  OBVIOUS
<1>1. CASE UNCHANGED vars
  BY <1>1 DEF vars, TypeOK, StoreType
<1> QED
  BY <1>1, TypeRollout, TypeRollback, TypeEnvironment DEF Next

\* Before the first rollout every variable has its type.
LEMMA TypeInit == Init => TypeOK
<1> SUFFICES ASSUME Init PROVE TypeOK
  OBVIOUS
<1>1. StoreType(NewRegistry)
  BY DEF StoreType, NewRegistry
<1>2. StoreType(store)
  BY <1>1, StoreOps DEF Init
<1>3. cont \in [Containers -> Status] /\ created \in 0 .. MaxContainers
  BY RolloutAssumption DEF Init, Containers, Status
<1>4. saved \in [old : {NoId} \cup Containers, oldAddr : {NoId} \cup Containers,
                new : {NoId} \cup Containers]
  BY DEF Init, NoState
<1>5. [replicas |-> 0, old |-> NoId, oldAddr |-> NoId, new |-> NoId]
         \in [replicas : 0 .. MaxContainers, old : {NoId} \cup Containers,
             oldAddr : {NoId} \cup Containers, new : {NoId} \cup Containers]
  BY RolloutAssumption
<1> QED
  BY <1>2, <1>3, <1>4, <1>5 DEF Init, TypeOK

\* Every state of the rollout system is well typed, under every fault.
THEOREM TypeCorrect == Spec => []TypeOK
  BY TypeInit, TypeStep, PTL DEF Spec

-----------------------------------------------------------------------------
(* Mutual exclusion. *)

\* Inductive: who is past lockRollout has made the lock file, and alone.
LockInv ==
    /\ pc \in [Procs -> {"idle"} \cup Critical \cup RollbackPcs \cup Ended]
    /\ \A p \in Rollouts : pc[p] \in Critical => lock
    /\ OneRolloutAtATime

\* No rollout holds the lock to begin with.
LEMMA LockInit == Init => LockInv
  BY DEF Init, LockInv, OneRolloutAtATime, Critical, Procs

\* No step, a kill and the removal of a stale lock file among them, breaks the
\* lock's invariant.
LEMMA LockStep == LockInv /\ [Next]_vars => LockInv'
<1> USE DEF LockInv, OneRolloutAtATime, Goto, Procs
<1> SUFFICES ASSUME LockInv, [Next]_vars PROVE LockInv'
  OBVIOUS
<1>1. ASSUME NEW p \in Rollouts, Acquire(p)
      PROVE  LockInv'
  BY <1>1 DEF Acquire, Critical, Ended
<1>2. ASSUME NEW p \in Rollouts, Unlock(p)
      PROVE  LockInv'
  BY <1>2 DEF Unlock, Critical, Ended
<1>3. ASSUME NEW p \in Rollouts, RolloutStep(p), ~Unlock(p)
      PROVE  LockInv'
  <2>1. \E to \in Critical : pc' = [pc EXCEPT ![p] = to]
    BY <1>3 DEF RolloutStep, Pull, CountReplicas, ScaleUp, WaitHealthy, WaitTimeout,
         ScaleBack, FindOld, Register, Save, Drain, Sleep, DeregOld, RemoveOld,
         DeregSeed, Clear, Critical
  <2>2. pc[p] \in Critical /\ lock' = lock
    BY <1>3 DEF RolloutStep, Pull, CountReplicas, ScaleUp, WaitHealthy, WaitTimeout,
         ScaleBack, FindOld, Register, Save, Drain, Sleep, DeregOld, RemoveOld,
         DeregSeed, Clear, Critical
  <2> QED
    BY <2>1, <2>2
<1>4. ASSUME NEW p \in Rollbacks, LoadState(p) \/ RollbackStep(p)
      PROVE  LockInv'
  <2>1. /\ lock' = lock
        /\ \E to \in RollbackPcs \cup Ended : pc' = [pc EXCEPT ![p] = to]
    BY <1>4 DEF LoadState, RollbackStep, RbRegister, RbDrain, RbSleep, RbDereg, RbClear,
         RollbackPcs, Ended
  <2> QED
    BY <2>1, RolloutAssumption
<1>5. ASSUME NEW p \in Procs, Cancel(p)
      PROVE  LockInv'
  BY <1>5 DEF Cancel
<1>6. ASSUME NEW p \in Procs, Kill(p)
      PROVE  LockInv'
  BY <1>6 DEF Kill, Critical, Ended
<1>7. CASE Environment
  BY <1>7 DEF Environment, ContainerReports, ContainerCrash, ProxyRestart, ClearStaleLock,
       RolloutsQuiet
<1>8. CASE UNCHANGED vars
  BY <1>8 DEF vars
<1> QED
  BY <1>1, <1>2, <1>3, <1>4, <1>5, <1>6, <1>7, <1>8 DEF Next

\* lockRollout excludes: no interleaving, kill, stale lock file or failure lets
\* two rollouts of the service run at once.
THEOREM MutualExclusion == Spec => []OneRolloutAtATime
<1>1. LockInv => OneRolloutAtATime
  BY DEF LockInv
<1> QED
  BY <1>1, LockInit, LockStep, PTL DEF Spec

-----------------------------------------------------------------------------
(* Which command a step moves. *)

\* A rollout's call is one past the lock and moves no other command.
LEMMA RolloutMoves ==
    ASSUME NEW p \in Rollouts, RolloutStep(p)
    PROVE  /\ pc[p] \in Critical
           /\ \E to \in Critical \cup Ended : pc' = [pc EXCEPT ![p] = to]
  BY DEF RolloutStep, Pull, CountReplicas, ScaleUp, WaitHealthy, WaitTimeout, ScaleBack,
     FindOld, Register, Save, Drain, Sleep, DeregOld, RemoveOld, DeregSeed, Clear, Unlock,
     Critical, Ended, Goto

\* Neither does a rollback's.
LEMMA RollbackMoves ==
    ASSUME NEW p \in Rollbacks, RollbackStep(p)
    PROVE  /\ pc[p] \in RollbackPcs
           /\ \E to \in RollbackPcs \cup Ended : pc' = [pc EXCEPT ![p] = to]
  BY DEF RollbackStep, RbRegister, RbDrain, RbSleep, RbDereg, RbClear, RollbackPcs, Ended, Goto

\* A call of one command leaves what every other has learnt alone.
LEMMA OthersUntouched ==
    ASSUME TypeOK, NEW p \in Procs, NEW q \in Procs, q # p,
           \/ p \in Rollouts /\ (Acquire(p) \/ RolloutStep(p))
           \/ p \in Rollbacks /\ (LoadState(p) \/ RollbackStep(p))
    PROVE  pc'[q] = pc[q] /\ loc'[q] = loc[q]
<1>1. \E to : pc' = [pc EXCEPT ![p] = to]
  BY RolloutMoves, RollbackMoves DEF Acquire, LoadState, Goto
<1>2. \E l : loc' = [loc EXCEPT ![p] = l]
  <2>1. \A f, v : SetLoc(p, f, v) => \E l : loc' = [loc EXCEPT ![p] = l]
    BY DEF SetLoc
  <2>2. UNCHANGED loc => \E l : loc' = [loc EXCEPT ![p] = l]
    <3>1. UNCHANGED loc => loc' = [loc EXCEPT ![p] = loc[p]]
      BY DEF TypeOK
    <3> QED
      BY <3>1
  <2>3. LoadState(p) => \E l : loc' = [loc EXCEPT ![p] = l]
    <3>1. ASSUME LoadState(p), ~UNCHANGED loc
          PROVE  loc' = [loc EXCEPT ![p] = [[[@ EXCEPT !.old = saved.old]
                             EXCEPT !.oldAddr = saved.oldAddr] EXCEPT !.new = saved.new]]
      BY <3>1 DEF LoadState, TypeOK
    <3> QED
      BY <2>2, <3>1
  <2>4. RollbackStep(p) => UNCHANGED loc
    BY DEF RollbackStep, RbRegister, RbDrain, RbSleep, RbDereg, RbClear
  <2>5. Acquire(p) \/ RolloutStep(p) =>
           UNCHANGED loc \/ \E f, v : SetLoc(p, f, v)
    BY DEF Acquire, RolloutStep, Pull, CountReplicas, ScaleUp, WaitHealthy, WaitTimeout,
       ScaleBack, FindOld, Register, Save, Drain, Sleep, DeregOld, RemoveOld, DeregSeed,
       Clear, Unlock
  <2> QED
    BY <2>1, <2>2, <2>3, <2>4, <2>5
<1> QED
  BY <1>1, <1>2 DEF TypeOK

\* While one rollout takes a step no other is past the lock.
LEMMA AloneInside ==
    ASSUME TypeOK, LockInv, NEW p \in Rollouts, RolloutStep(p)
    PROVE  \A q \in Rollouts \ {p} : pc[q] \notin Critical /\ pc'[q] = pc[q]
<1>1. pc[p] \in Critical /\ \E to : pc' = [pc EXCEPT ![p] = to]
  BY RolloutMoves
<1> QED
  BY <1>1 DEF LockInv, OneRolloutAtATime, TypeOK, Procs
=============================================================================
