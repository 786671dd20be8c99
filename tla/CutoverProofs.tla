---------------------------- MODULE CutoverProofs ----------------------------
(***************************************************************************)
(* Theorems about what Rollout's commands leave behind, for any number of  *)
(* commands, replicas and containers: what the state file says, what the   *)
(* rotation leads to and consists of, and what a rollback has swapped.     *)
(* Each names the faults it has to exclude.                                *)
(***************************************************************************)
EXTENDS FleetProofs

-----------------------------------------------------------------------------
(* A rollout and a rollback, or two rollbacks, kept apart by their operator. *)

Apart ==
    /\ \A p \in Rollouts, q \in Rollbacks : ~(pc[p] \in Critical /\ pc[q] \in RollbackPcs)
    /\ \A p, q \in Rollbacks : pc[p] \in RollbackPcs /\ pc[q] \in RollbackPcs => p = q

\* An operator who runs one command at a time, or never rolls back, has no
\* rollback beside a rollout or another rollback.
LEMMA ApartStep ==
    ASSUME TypeOK, Apart, [Next]_vars, "overlap" \notin Faults \/ Rollbacks = {}
    PROVE  Apart'
<1> USE DEF Apart, Goto, Procs
<1>0. pc \in [Procs -> {"idle"} \cup Critical \cup RollbackPcs \cup Ended]
  BY DEF TypeOK
<1>a. /\ Critical \cap RollbackPcs = {} /\ Ended \cap (Critical \cup RollbackPcs) = {}
      /\ "rbRegister" \in RollbackPcs /\ "pull" \in Critical
      /\ {"failed", "refused", "killed"} \subseteq Ended
  BY DEF Critical, RollbackPcs, Ended
<1>b. Rollouts \cap Rollbacks = {}
  BY RolloutAssumption
<1>1. CASE Rollbacks = {}
  BY <1>1
<1>2. ASSUME NEW p \in Rollouts, Acquire(p), "overlap" \notin Faults
      PROVE  Apart'
  BY <1>0, <1>a, <1>b, <1>2 DEF Acquire, RollbacksQuiet
<1>3. ASSUME NEW p \in Rollouts, RolloutStep(p)
      PROVE  Apart'
  BY <1>0, <1>a, <1>b, <1>3, RolloutMoves
<1>4. ASSUME NEW p \in Rollbacks, LoadState(p), "overlap" \notin Faults
      PROVE  Apart'
  BY <1>0, <1>a, <1>b, <1>4 DEF LoadState, RolloutsQuiet, RollbacksQuiet
<1>5. ASSUME NEW p \in Rollbacks, RollbackStep(p)
      PROVE  Apart'
  BY <1>0, <1>a, <1>b, <1>5, RollbackMoves
<1>6. ASSUME NEW p \in Procs, Cancel(p)
      PROVE  Apart'
  BY <1>6 DEF Cancel
<1>7. ASSUME NEW p \in Procs, Kill(p)
      PROVE  Apart'
  BY <1>0, <1>a, <1>7 DEF Kill
<1>8. CASE Environment
  BY <1>8 DEF Environment, ContainerReports, ContainerCrash, ProxyRestart, ClearStaleLock
<1>9. CASE UNCHANGED vars
  BY <1>9 DEF vars
<1> QED
  BY <1>1, <1>2, <1>3, <1>4, <1>5, <1>6, <1>7, <1>8, <1>9 DEF Next

\* Nobody runs to begin with.
LEMMA ApartInit == Init => Apart
  BY DEF Init, Apart, Critical, RollbackPcs, Procs

-----------------------------------------------------------------------------
(* What a rollback has swapped. *)

\* What a command has learnt of the old and the new backend is never one and
\* the same, and neither is what it saves.
SavedTwo == saved.old # NoId => saved.old # saved.new

FoundTwo(p) ==
    /\ pc[p] = "find" => loc[p].new # NoId
    /\ pc[p] \in {"register", "save"} /\ loc[p].old # NoId => loc[p].old # loc[p].new

LoadedTwo(p) == pc[p] \in RollbackPcs => loc[p].old # loc[p].new

TwoBackends ==
    /\ SavedTwo
    /\ \A p \in Rollouts : FoundTwo(p)
    /\ \A p \in Rollbacks : LoadedTwo(p)

\* A rollback that has its old backend registered keeps it so, and goes on
\* after the drain period only if its drain was sent.
SwapStage(p) ==
    /\ pc[p] \in RollbackPcs \ {"rbRegister"} => loc[p].old \in DOMAIN store
    /\ pc[p] = "rbSleep" => p \in cancelled \/ loc[p].new \notin Active(store)
    /\ pc[p] \in {"rbDereg", "rbClear"} => loc[p].new \notin Active(store)

Swapping == \A p \in Rollbacks : SwapStage(p)

SwapInv == TypeOK /\ Apart /\ TwoBackends /\ Swapping

\* What a rollout learns and saves are two backends.
LEMMA TwoRollout ==
    ASSUME TypeOK, NEW p \in Rollouts, FoundTwo(p), SavedTwo, Acquire(p) \/ RolloutStep(p)
    PROVE  SavedTwo' /\ FoundTwo(p)'
<1> p \in Procs
  BY DEF Procs
<1> USE DEF Goto, SetLoc
<1>0. /\ pc \in [Procs -> {"idle"} \cup Critical \cup RollbackPcs \cup Ended]
      /\ loc \in [Procs -> [replicas : 0 .. MaxContainers, old : {NoId} \cup Containers,
                 oldAddr : {NoId} \cup Containers, new : {NoId} \cup Containers]]
  BY DEF TypeOK
<1>1. CASE WaitHealthy(p)
  <2>1. \E c \in Running : loc' = [loc EXCEPT ![p]["new"] = c]
    BY <1>1 DEF WaitHealthy
  <2>2. loc'[p].new # NoId
    BY <1>0, <2>1 DEF Running, Containers, NoId
  <2> QED
    BY <1>0, <1>1, <2>2 DEF WaitHealthy, FoundTwo, SavedTwo
<1>2. CASE FindOld(p)
  <2>1. \E c \in (Running \ {loc[p].new}) \cup {NoId} : loc' = [loc EXCEPT ![p]["old"] = c]
    BY <1>2 DEF FindOld, IsNewest
  <2>2. loc'[p].old # NoId => loc'[p].old # loc'[p].new
    BY <1>0, <2>1
  <2> QED
    BY <1>0, <1>2, <2>2 DEF FindOld, FoundTwo, SavedTwo
<1>3. CASE Register(p)
  BY <1>0, <1>3 DEF Register, FoundTwo, SavedTwo
<1>4. CASE Save(p)
  <2>1. \/ saved' = saved \/ saved' = NoState
        \/ saved'.old = loc[p].old /\ saved'.new = loc[p].new
    BY <1>4 DEF Save
  <2>2. SavedTwo'
    BY <1>4, <2>1 DEF Save, FoundTwo, SavedTwo, NoState, NoId
  <2> QED
    BY <1>0, <1>4, <2>2 DEF Save, FoundTwo
<1>5. CASE Clear(p)
  BY <1>0, <1>5 DEF Clear, FoundTwo, SavedTwo, NoState, NoId
<1>6. CASE Acquire(p) \/ (RolloutStep(p) /\ ~WaitHealthy(p) /\ ~FindOld(p) /\ ~Register(p)
                          /\ ~Save(p) /\ ~Clear(p))
  <2>1. /\ UNCHANGED saved
        /\ pc'[p] \notin {"find", "register", "save"}
    BY <1>0, <1>6 DEF Acquire, RolloutStep, Pull, CountReplicas, ScaleUp, WaitTimeout,
       ScaleBack, Drain, Sleep, DeregOld, RemoveOld, DeregSeed, Unlock
  <2> QED
    BY <2>1 DEF FoundTwo, SavedTwo
<1> QED
  BY <1>1, <1>2, <1>3, <1>4, <1>5, <1>6

\* A rollback takes the two of the state file and leaves that or nothing.
LEMMA TwoRollback ==
    ASSUME TypeOK, NEW p \in Rollbacks, LoadedTwo(p), SavedTwo, LoadState(p) \/ RollbackStep(p)
    PROVE  SavedTwo' /\ LoadedTwo(p)'
<1> p \in Procs
  BY DEF Procs
<1> USE DEF Goto
<1>0. pc \in [Procs -> {"idle"} \cup Critical \cup RollbackPcs \cup Ended]
  BY DEF TypeOK
<1>1. CASE LoadState(p)
  <2>1. CASE pc'[p] = "failed"
    BY <1>1, <2>1 DEF LoadState, LoadedTwo, SavedTwo, RollbackPcs
  <2>2. CASE pc'[p] # "failed"
    <3>1. /\ saved.old # NoId
          /\ loc' = [loc EXCEPT ![p] = [[[@ EXCEPT !.old = saved.old]
                       EXCEPT !.oldAddr = saved.oldAddr] EXCEPT !.new = saved.new]]
      BY <1>0, <1>1, <2>2 DEF LoadState
    <3>2. loc'[p].old = saved.old /\ loc'[p].new = saved.new
      BY <3>1 DEF TypeOK
    <3> QED
      BY <1>1, <3>1, <3>2 DEF LoadState, LoadedTwo, SavedTwo
  <2> QED
    BY <2>1, <2>2
<1>2. CASE RollbackStep(p)
  <2>1. pc[p] \in RollbackPcs /\ UNCHANGED loc /\ (UNCHANGED saved \/ saved' = NoState)
    BY <1>2, RollbackMoves DEF RollbackStep, RbRegister, RbDrain, RbSleep, RbDereg, RbClear
  <2> QED
    BY <2>1 DEF LoadedTwo, SavedTwo, NoState, NoId
<1> QED
  BY <1>1, <1>2

\* No step confuses the two backends.
LEMMA TwoBackendsStep ==
    ASSUME TypeOK, TwoBackends, [Next]_vars
    PROVE  TwoBackends'
<1>0. pc \in [Procs -> {"idle"} \cup Critical \cup RollbackPcs \cup Ended]
  BY DEF TypeOK
<1>1. ASSUME NEW p \in Rollouts, Acquire(p) \/ RolloutStep(p)
      PROVE  TwoBackends'
  <2>1. SavedTwo' /\ FoundTwo(p)'
    BY <1>1, TwoRollout DEF TwoBackends
  <2>2. \A q \in Procs \ {p} : pc'[q] = pc[q] /\ loc'[q] = loc[q]
    BY <1>1, OthersUntouched DEF Procs
  <2> QED
    BY <2>1, <2>2, RolloutAssumption DEF TwoBackends, FoundTwo, LoadedTwo, Procs
<1>2. ASSUME NEW p \in Rollbacks, LoadState(p) \/ RollbackStep(p)
      PROVE  TwoBackends'
  <2>1. SavedTwo' /\ LoadedTwo(p)'
    BY <1>2, TwoRollback DEF TwoBackends
  <2>2. \A q \in Procs \ {p} : pc'[q] = pc[q] /\ loc'[q] = loc[q]
    BY <1>2, OthersUntouched DEF Procs
  <2> QED
    BY <2>1, <2>2, RolloutAssumption DEF TwoBackends, FoundTwo, LoadedTwo, Procs
<1>3. CASE (\E p \in Procs : Cancel(p) \/ Kill(p)) \/ Environment \/ UNCHANGED vars
  <2>1. /\ UNCHANGED saved /\ UNCHANGED loc
        /\ \A q \in Procs : pc'[q] = pc[q] \/ pc'[q] = "killed"
    BY <1>0, <1>3 DEF Cancel, Kill, Goto, Environment, ContainerReports, ContainerCrash,
       ProxyRestart, ClearStaleLock, vars
  <2> QED
    BY <2>1 DEF TwoBackends, SavedTwo, FoundTwo, LoadedTwo, Procs, RollbackPcs
<1> QED
  BY <1>1, <1>2, <1>3 DEF Next

\* A rollback's calls: the old backend is added before the new one is drained,
\* the drain is done before the drain period ends.
LEMMA SwapRollback ==
    ASSUME TypeOK, NEW p \in Rollbacks, LoadedTwo(p), SwapStage(p),
           LoadState(p) \/ RollbackStep(p), "http" \notin Faults
    PROVE  SwapStage(p)'
<1> p \in Procs
  BY DEF Procs
<1> USE DEF Goto
<1>0. pc \in [Procs -> {"idle"} \cup Critical \cup RollbackPcs \cup Ended]
  BY DEF TypeOK
<1>1. CASE LoadState(p)
  BY <1>0, <1>1 DEF LoadState, SwapStage, RollbackPcs
<1>2. CASE RbRegister(p)
  <2>1. CASE pc'[p] = "rbDrain"
    <3>1. store' = Registered(loc[p].old, loc[p].oldAddr)
      BY <1>0, <1>2, <2>1 DEF RbRegister, Answered
    <3>2. loc[p].old \in DOMAIN store'
      BY <3>1 DEF Registered, Add
    <3> QED
      BY <1>2, <2>1, <3>2 DEF RbRegister, SwapStage
  <2>2. CASE pc'[p] = "failed"
    BY <2>2 DEF SwapStage, RollbackPcs
  <2> QED
    BY <1>0, <1>2, <2>1, <2>2 DEF RbRegister
<1>3. CASE RbDrain(p)
  <2>1. \/ store' = Drained(loc[p].new)
        \/ p \in cancelled /\ store' = store
    BY <1>3 DEF RbDrain, Answered, Errors
  <2>2. Active(Drained(loc[p].new)) = Active(store) \ {loc[p].new}
    BY ActiveOps DEF Drained
  <2>3. DOMAIN store' = DOMAIN store
    BY <2>1 DEF Drained, SetDraining
  <2>4. loc[p].old \in DOMAIN store
    BY <1>3 DEF RbDrain, SwapStage, RollbackPcs
  <2> QED
    BY <1>0, <1>3, <2>1, <2>2, <2>3, <2>4 DEF RbDrain, SwapStage
<1>4. CASE RbSleep(p)
  BY <1>0, <1>4 DEF RbSleep, SwapStage, RollbackPcs
<1>5. CASE RbDereg(p)
  <2>1. \/ store' = Deregistered(loc[p].new)
        \/ p \in cancelled /\ store' = store
    BY <1>5 DEF RbDereg, Answered, Errors
  <2>2. Active(Deregistered(loc[p].new)) = Active(store) \ {loc[p].new}
    BY ActiveOps DEF Deregistered
  <2>3. /\ loc[p].new \notin Active(store) /\ loc[p].old # loc[p].new
        /\ loc[p].old \in DOMAIN store
    BY <1>5 DEF RbDereg, SwapStage, LoadedTwo, RollbackPcs
  <2>4. loc[p].old \in DOMAIN store'
    BY <2>1, <2>3 DEF Deregistered, Remove
  <2>5. loc[p].new \notin Active(store')
    BY <2>1, <2>2, <2>3
  <2> QED
    BY <1>0, <1>5, <2>4, <2>5 DEF RbDereg, SwapStage
<1>6. CASE RbClear(p)
  BY <1>0, <1>6 DEF RbClear, SwapStage, RollbackPcs
<1> QED
  BY <1>1, <1>2, <1>3, <1>4, <1>5, <1>6 DEF RollbackStep

\* Nobody else takes a rollback's swap back.
LEMMA SwapStep ==
    ASSUME SwapInv, [Next]_vars, Faults \cap {"http", "restart", "overlap"} = {}
    PROVE  SwapInv'
<1>1. TypeOK' /\ Apart' /\ TwoBackends'
  BY TypeStep, ApartStep, TwoBackendsStep DEF SwapInv
<1>2. pc \in [Procs -> {"idle"} \cup Critical \cup RollbackPcs \cup Ended]
  BY DEF SwapInv, TypeOK
<1>3. ASSUME NEW q \in Rollbacks
      PROVE  SwapStage(q) /\ LoadedTwo(q)
  BY <1>3 DEF SwapInv, Swapping, TwoBackends
<1>4. ASSUME NEW p \in Rollouts, Acquire(p)
      PROVE  Swapping'
  <2>1. \A q \in Rollbacks : pc'[q] = pc[q]
    BY <1>2, <1>4, RolloutAssumption DEF Acquire, Goto, Procs
  <2> QED
    BY <1>3, <1>4, <2>1 DEF Acquire, Swapping, SwapStage
<1>5. ASSUME NEW p \in Rollouts, RolloutStep(p)
      PROVE  Swapping'
  <2>1. \A q \in Rollbacks : pc'[q] \notin RollbackPcs
    BY <1>2, <1>5, RolloutMoves, RolloutAssumption DEF SwapInv, Apart, Procs
  <2> QED
    BY <2>1 DEF Swapping, SwapStage, RollbackPcs
<1>6. ASSUME NEW p \in Rollbacks, LoadState(p)
      PROVE  Swapping'
  <2>1. SwapStage(p)'
    BY <1>3, <1>6, SwapRollback DEF SwapInv
  <2>2. \A q \in Rollbacks \ {p} : pc'[q] = pc[q] /\ loc'[q] = loc[q]
    BY <1>6, OthersUntouched DEF SwapInv, Procs
  <2>3. UNCHANGED <<store, cancelled>>
    BY <1>6 DEF LoadState
  <2> QED
    BY <1>3, <2>1, <2>2, <2>3 DEF Swapping, SwapStage
<1>7. ASSUME NEW p \in Rollbacks, RollbackStep(p)
      PROVE  Swapping'
  <2>1. SwapStage(p)'
    BY <1>3, <1>7, SwapRollback DEF SwapInv
  <2>2. \A q \in Rollbacks \ {p} : pc'[q] \notin RollbackPcs
    BY <1>2, <1>7, RollbackMoves DEF SwapInv, Apart, Procs
  <2> QED
    BY <2>1, <2>2 DEF Swapping, SwapStage, RollbackPcs
<1>8. CASE (\E p \in Procs : Cancel(p) \/ Kill(p)) \/ Environment \/ UNCHANGED vars
  <2>1. /\ UNCHANGED store /\ UNCHANGED loc /\ cancelled \subseteq cancelled'
        /\ \A q \in Procs : pc'[q] = pc[q] \/ pc'[q] = "killed"
    BY <1>2, <1>8 DEF Cancel, Kill, Goto, Environment, ContainerReports, ContainerCrash,
       ProxyRestart, ClearStaleLock, vars
  <2> QED
    BY <1>1, <1>3, <2>1 DEF SwapInv, Swapping, SwapStage, Procs, RollbackPcs
<1> QED
  BY <1>1, <1>4, <1>5, <1>6, <1>7, <1>8 DEF Next, SwapInv

\* A rollback that got past its drain period has swapped the two backends, as
\* long as the control API answers, the proxy stays up and no other command
\* runs beside it.  Any of its own calls may still be interrupted or killed,
\* and every rollout before it may have failed, stopped or died anywhere.
THEOREM RollbackSwapsAlways ==
    ASSUME Faults \cap {"http", "restart", "overlap"} = {}
    PROVE  Spec => []RollbackSwaps
<1>1. Init => SwapInv
  <2>1. Init => TwoBackends /\ Swapping
    BY DEF Init, TwoBackends, SavedTwo, FoundTwo, LoadedTwo, Swapping, SwapStage, NoState,
       NoId, RollbackPcs, Procs
  <2> QED
    BY <2>1, TypeInit, ApartInit DEF SwapInv
<1>2. SwapInv /\ [Next]_vars => SwapInv'
  BY SwapStep
<1>3. SwapInv => RollbackSwaps
  BY DEF SwapInv, Swapping, SwapStage, RollbackSwaps, RollbackPcs
<1> QED
  BY <1>1, <1>2, <1>3, PTL DEF Spec

-----------------------------------------------------------------------------
(* The state file. *)

StateInv == TypeOK /\ LockInv /\ Apart /\ StateCoversCutover

\* The state file goes with the rollout that holds the lock.
LEMMA StateStep ==
    ASSUME StateInv, [Next]_vars, "disk" \notin Faults,
           "overlap" \notin Faults \/ Rollbacks = {}
    PROVE  StateInv'
<1>1. TypeOK' /\ LockInv' /\ Apart'
  BY TypeStep, LockStep, ApartStep DEF StateInv
<1>2. /\ pc \in [Procs -> {"idle"} \cup Critical \cup RollbackPcs \cup Ended]
      /\ TypeOK /\ LockInv /\ Apart /\ StateCoversCutover
  BY DEF StateInv, TypeOK
<1>3. ASSUME NEW p \in Rollouts, Acquire(p)
      PROVE  StateCoversCutover'
  BY <1>2, <1>3 DEF Acquire, Goto, StateCoversCutover, Procs
<1>4. ASSUME NEW p \in Rollouts, RolloutStep(p)
      PROVE  StateCoversCutover'
  <2>1. \A q \in Rollouts \ {p} : pc'[q] \notin Critical
    BY <1>2, <1>4, RolloutMoves DEF LockInv, OneRolloutAtATime, Procs
  <2>2. pc'[p] \in {"drain", "sleep", "dereg", "rm", "seed", "clear"} =>
           saved'.old = loc'[p].old /\ saved'.new = loc'[p].new
    <3> p \in Procs
      BY DEF Procs
    <3>1. CASE Save(p)
      <4>1. saved'.old = loc[p].old /\ saved'.new = loc[p].new
        BY <3>1 DEF Save
      <4> QED
        BY <3>1, <4>1 DEF Save
    <3>2. CASE ~Save(p)
      <4>1. pc'[p] \in {"drain", "sleep", "dereg", "rm", "seed", "clear"} =>
              /\ pc[p] \in {"drain", "sleep", "dereg", "rm", "seed", "clear"}
              /\ UNCHANGED <<saved, loc>>
        BY <1>2, <1>4, <3>2 DEF RolloutStep, Pull, CountReplicas, ScaleUp, WaitHealthy,
           WaitTimeout, ScaleBack, FindOld, Register, Drain, Sleep, DeregOld, RemoveOld,
           DeregSeed, Clear, Unlock, Goto
      <4> QED
        BY <1>2, <4>1 DEF StateCoversCutover
    <3> QED
      BY <3>1, <3>2
  <2> QED
    BY <2>1, <2>2 DEF StateCoversCutover, Critical
<1>5. ASSUME NEW p \in Rollbacks, LoadState(p)
      PROVE  StateCoversCutover'
  <2>1. \A q \in Rollouts : pc'[q] = pc[q] /\ loc'[q] = loc[q]
    BY <1>2, <1>5, OthersUntouched, RolloutAssumption DEF Procs
  <2> QED
    BY <1>2, <1>5, <2>1 DEF LoadState, StateCoversCutover
<1>6. ASSUME NEW p \in Rollbacks, RollbackStep(p)
      PROVE  StateCoversCutover'
  <2>1. \A q \in Rollouts : pc'[q] \notin Critical
    BY <1>2, <1>6, RollbackMoves, RolloutAssumption DEF Apart, Procs
  <2> QED
    BY <2>1 DEF StateCoversCutover, Critical
<1>7. CASE (\E p \in Procs : Cancel(p) \/ Kill(p)) \/ Environment \/ UNCHANGED vars
  <2>1. /\ UNCHANGED saved /\ UNCHANGED loc
        /\ \A q \in Procs : pc'[q] = pc[q] \/ pc'[q] = "killed"
    BY <1>2, <1>7 DEF Cancel, Kill, Goto, Environment, ContainerReports, ContainerCrash,
       ProxyRestart, ClearStaleLock, vars
  <2> QED
    BY <1>1, <1>2, <2>1 DEF StateInv, StateCoversCutover, Procs
<1> QED
  BY <1>1, <1>3, <1>4, <1>5, <1>6, <1>7 DEF Next, StateInv

\* From the save to the clean-up the state file names the two backends of the
\* rollout that is running, if it could be written and no rollback ran beside:
\* whatever an earlier rollout, killed or failed, had left in it.
THEOREM StateCoversCutoverAlways ==
    ASSUME "disk" \notin Faults, "overlap" \notin Faults \/ Rollbacks = {}
    PROVE  Spec => []StateCoversCutover
<1>1. Init => StateInv
  BY TypeInit, LockInit, ApartInit DEF Init, StateInv, StateCoversCutover, Procs
<1>2. StateInv /\ [Next]_vars => StateInv'
  BY StateStep
<1>3. StateInv => StateCoversCutover
  BY DEF StateInv
<1> QED
  BY <1>1, <1>2, <1>3, PTL DEF Spec

-----------------------------------------------------------------------------
(* Rollouts never empty the rotation. *)

\* The calls after a successful POST /backends.
Cutting == {"save", "drain", "sleep", "dereg", "rm", "seed", "clear", "finish"}

\* What a rollout's calls do to the registry: all but four leave it alone.
LEMMA RegistryCalls ==
    ASSUME TypeOK, NEW p \in Rollouts, RolloutStep(p)
    PROVE  \/ UNCHANGED store /\ ~(pc[p] = "register" /\ pc'[p] = "save")
           \/ /\ pc[p] = "register" /\ pc'[p] \in {"save", "abort"}
              /\ store' = Registered(loc[p].new, loc[p].new)
           \/ /\ pc[p] = "drain" /\ pc'[p] \in {"sleep", "abort"}
              /\ store' = Drained(loc[p].old)
           \/ /\ pc[p] = "dereg" /\ pc'[p] = "rm"
              /\ store' = Deregistered(loc[p].old)
           \/ /\ pc[p] = "seed" /\ pc'[p] = "clear"
              /\ store' = Deregistered(Seed)
<1> p \in Procs
  BY DEF Procs
<1>1. pc \in [Procs -> {"idle"} \cup Critical \cup RollbackPcs \cup Ended]
  BY DEF TypeOK
<1>2. CASE Register(p)
  BY <1>1, <1>2 DEF Register, Answered, Errors, Goto
<1>3. CASE Drain(p) \/ DeregOld(p) \/ DeregSeed(p)
  BY <1>1, <1>3 DEF Drain, DeregOld, DeregSeed, Answered, Errors, Goto
<1>4. CASE ~Register(p) /\ ~Drain(p) /\ ~DeregOld(p) /\ ~DeregSeed(p)
  BY <1>1, <1>4 DEF RolloutStep, Pull, CountReplicas, ScaleUp, WaitHealthy, WaitTimeout,
     ScaleBack, FindOld, Save, Sleep, RemoveOld, Clear, Unlock, Goto
<1> QED
  BY <1>2, <1>3, <1>4

\* To begin with, and after a restart, the registry knows the seed alone.
LEMMA SeedAlone ==
    /\ DOMAIN Add(NewRegistry, Seed, Dns, 0) = {Seed}
    /\ Active(Add(NewRegistry, Seed, Dns, 0)) = {Seed}
<1>1. Seed \notin DOMAIN NewRegistry /\ Active(NewRegistry) = {}
  BY DEF NewRegistry, Active
<1>2. Active(Add(NewRegistry, Seed, Dns, 0)) = Active(NewRegistry) \cup {Seed}
  BY <1>1, ActiveOps
<1>3. DOMAIN Add(NewRegistry, Seed, Dns, 0) = {Seed}
  BY DEF NewRegistry, Add
<1> QED
  BY <1>1, <1>2, <1>3

\* The backend of the newest container that the registry has is in the rotation.
\* A rollout keeps it there: what it drains and removes is the old backend and
\* the seed, and both are older than its own.
LastServes == \E i \in Active(store) : \A j \in DOMAIN store : j <= i

LastStage(p) ==
    /\ pc[p] = "find" => \A d \in Running : d <= loc[p].new
    /\ pc[p] \in {"find", "register"} \cup Cutting => loc[p].new # NoId
    /\ pc[p] \in {"register"} \cup Cutting => loc[p].old < loc[p].new
    /\ pc[p] \in Cutting => loc[p].new \in DOMAIN store

LastInv == TypeOK /\ LockInv /\ LastServes /\ \A p \in Rollouts : LastStage(p)

\* One call of a rollout.  POST /backends may answer 409, for a backend that is
\* draining: then it is not the newest.
LEMMA LastRollout ==
    ASSUME TypeOK, LastServes, NEW p \in Rollouts, LastStage(p), RolloutStep(p)
    PROVE  LastServes' /\ LastStage(p)'
<1> p \in Procs
  BY DEF Procs
<1> USE DEF Goto, SetLoc
<1>0. /\ pc \in [Procs -> {"idle"} \cup Critical \cup RollbackPcs \cup Ended]
      /\ loc \in [Procs -> [replicas : 0 .. MaxContainers, old : {NoId} \cup Containers,
                 oldAddr : {NoId} \cup Containers, new : {NoId} \cup Containers]]
      /\ loc[p].new \in Nat /\ loc[p].old \in Nat
      /\ DOMAIN store \subseteq Nat /\ Active(store) \subseteq DOMAIN store
      /\ Running \subseteq Nat
  BY RolloutAssumption, RunningFinite DEF TypeOK, StoreType, Active, Containers, NoId, Seed
<1>1. PICK i \in Active(store) : \A j \in DOMAIN store : j <= i
  BY DEF LastServes
<1>2. ASSUME NEW id \in Nat, id < loc[p].new, pc[p] \in Cutting,
             store' = Drained(id) \/ store' = Deregistered(id)
      PROVE  LastServes' /\ loc[p].new \in DOMAIN store'
  <2>1. loc[p].new \in DOMAIN store /\ i # id
    BY <1>0, <1>1, <1>2 DEF LastStage
  <2>2. Active(store') = Active(store) \ {id}
    BY <1>2, ActiveOps DEF Drained, Deregistered
  <2>3. DOMAIN store' \subseteq DOMAIN store /\ loc[p].new \in DOMAIN store'
    BY <1>0, <1>2, <2>1 DEF Drained, Deregistered, SetDraining, Remove
  <2> QED
    BY <1>1, <2>1, <2>2, <2>3 DEF LastServes
<1>3. ASSUME store' = Registered(loc[p].new, loc[p].new)
      PROVE  LastServes' /\ loc[p].new \in DOMAIN store'
  <2>1. DOMAIN store' = DOMAIN store \cup {loc[p].new}
    BY <1>3 DEF Registered, Add
  <2>2. CASE loc[p].new \in DOMAIN store
    BY <1>1, <1>3, <2>1, <2>2, ActiveOps DEF LastServes, Registered
  <2>3. CASE loc[p].new \notin DOMAIN store
    <3>1. Active(store') = Active(store) \cup {loc[p].new}
      BY <1>3, <2>3, ActiveOps DEF Registered
    <3>2. CASE i <= loc[p].new
      BY <1>0, <1>1, <2>1, <3>1, <3>2 DEF LastServes
    <3>3. CASE ~(i <= loc[p].new)
      BY <1>0, <1>1, <2>1, <3>1, <3>3 DEF LastServes
    <3> QED
      BY <3>2, <3>3
  <2> QED
    BY <2>1, <2>2, <2>3
<1>4. CASE WaitHealthy(p)
  <2>1. PICK c \in Running : IsNewest(c, Running) /\ loc' = [loc EXCEPT ![p]["new"] = c]
    BY <1>4 DEF WaitHealthy
  <2>2. /\ loc'[p].new = c /\ UNCHANGED <<cont, store>> /\ pc'[p] = "find"
        /\ c # NoId /\ \A d \in Running : d <= c
    BY <1>0, <1>4, <2>1, RunningFinite DEF WaitHealthy, IsNewest, Containers, NoId
  <2>3. Running' = Running
    BY <2>2 DEF Running
  <2> QED
    BY <2>2, <2>3 DEF LastServes, LastStage, Cutting
<1>5. CASE FindOld(p)
  <2>1. /\ pc[p] = "find" /\ pc'[p] = "register" /\ UNCHANGED store /\ loc[p].new # NoId
        /\ \A d \in Running : d <= loc[p].new
    BY <1>0, <1>5 DEF FindOld, LastStage
  <2>2. PICK c \in {NoId} \cup (Running \ {loc[p].new}) : loc' = [loc EXCEPT ![p]["old"] = c]
    BY <1>5 DEF FindOld, IsNewest
  <2>3. c < loc[p].new
    <3>1. CASE c = NoId
      BY <1>0, <2>1, <3>1 DEF NoId
    <3>2. CASE c \in Running \ {loc[p].new}
      <4>1. c \in Nat /\ c <= loc[p].new /\ c # loc[p].new
        BY <1>0, <2>1, <3>2
      <4> QED
        BY <1>0, <4>1
    <3> QED
      BY <2>2, <3>1, <3>2
  <2>4. loc'[p].old = c /\ loc'[p].new = loc[p].new
    BY <1>0, <2>2
  <2> QED
    BY <2>1, <2>3, <2>4 DEF LastServes, LastStage, Cutting
<1>6. CASE ~WaitHealthy(p) /\ ~FindOld(p)
  <2>1. \/ pc[p] = "register" /\ pc'[p] \in {"save", "abort"} /\ UNCHANGED loc
        \/ pc[p] \in Cutting /\ pc'[p] \in Cutting \cup {"abort"} \cup Ended /\ UNCHANGED loc
        \/ pc[p] \notin {"register"} \cup Cutting
           /\ pc'[p] \notin {"find", "register"} \cup Cutting
    BY <1>0, <1>6 DEF RolloutStep, Pull, CountReplicas, ScaleUp, WaitTimeout, ScaleBack,
       Register, Save, Drain, Sleep, DeregOld, RemoveOld, DeregSeed, Clear, Unlock,
       Cutting, Ended
  <2>2. pc[p] = "register" => /\ loc[p].new # NoId /\ loc[p].old < loc[p].new
                              /\ LastServes'
                              /\ pc'[p] = "save" => loc[p].new \in DOMAIN store'
    BY <1>3, RegistryCalls DEF LastStage, LastServes, Cutting
  <2>3. pc[p] \in Cutting => /\ loc[p].new # NoId /\ loc[p].old < loc[p].new
                             /\ LastServes' /\ loc[p].new \in DOMAIN store'
    <3>1. Seed \in Nat /\ (loc[p].new # NoId => Seed < loc[p].new)
      BY <1>0 DEF Seed, NoId
    <3> QED
      BY <1>0, <1>2, <3>1, RegistryCalls DEF LastStage, LastServes, Cutting
  <2>4. pc[p] \notin {"register"} \cup Cutting => LastServes'
    BY RegistryCalls DEF LastServes, Cutting
  <2> QED
    BY <2>1, <2>2, <2>3, <2>4 DEF LastStage, Cutting, Ended
<1> QED
  BY <1>4, <1>5, <1>6

\* Nothing but a rollout's calls changes the registry, and containers that exit
\* leave the newest of them.
LEMMA LastStep ==
    ASSUME LastInv, [Next]_vars, Rollbacks = {}, "restart" \notin Faults
    PROVE  LastInv'
<1> USE DEF Procs
<1>1. TypeOK' /\ LockInv'
  BY TypeStep, LockStep DEF LastInv
<1>2. ASSUME NEW p \in Rollouts, RolloutStep(p)
      PROVE  LastInv'
  <2>1. LastServes' /\ LastStage(p)'
    BY <1>2, LastRollout DEF LastInv
  <2>2. \A q \in Rollouts \ {p} : LastStage(q)'
    BY <1>2, AloneInside DEF LastInv, LastStage, Critical, Cutting
  <2> QED
    BY <1>1, <2>1, <2>2 DEF LastInv
<1>3. CASE \A p \in Rollouts : ~RolloutStep(p)
  <2>1. /\ UNCHANGED <<store, loc>>
        /\ \A q \in Rollouts : pc'[q] = pc[q] \/ pc'[q] \in {"refused", "killed", "pull"}
    BY <1>3 DEF Next, vars, Acquire, Cancel, Kill, Environment, ContainerReports,
       ContainerCrash, ProxyRestart, ClearStaleLock, Goto, LastInv, TypeOK
  <2>2. Running' \subseteq Running
    <3>1. \/ UNCHANGED cont
          \/ \E c \in Running : \E h : cont' = [cont EXCEPT ![c] = h]
      BY <1>3 DEF Next, vars, Acquire, Cancel, Kill, Environment, ContainerReports,
         ContainerCrash, ProxyRestart, ClearStaleLock, Running
    <3> QED
      BY <3>1 DEF Running, LastInv, TypeOK
  <2>3. ASSUME NEW q \in Rollouts
        PROVE  LastStage(q)'
    <3>1. LastStage(q)
      BY DEF LastInv
    <3> QED
      BY <2>1, <2>2, <3>1 DEF LastStage, Cutting
  <2> QED
    BY <1>1, <2>1, <2>3 DEF LastInv, LastServes
<1> QED
  BY <1>2, <1>3

LEMMA LastInit == Init => LastInv
<1> SUFFICES ASSUME Init PROVE LastInv
  OBVIOUS
<1>1. LastServes
  BY SeedAlone DEF Init, LastServes, Seed
<1> QED
  BY <1>1, TypeInit, LockInit DEF Init, LastInv, LastStage, Cutting, Procs

\* Zero downtime: however many rollouts run, time out, fail at any call of
\* Docker, of the control API or of the file system, are interrupted or are
\* killed, and whatever containers exit by themselves, the round robin has a
\* backend to choose, as long as the proxy stays up and nobody rolls back.
THEOREM RotationNeverEmpty ==
    ASSUME Rollbacks = {}, "restart" \notin Faults
    PROVE  Spec => []NeverDark
<1>1. LastInv /\ [Next]_vars => LastInv'
  BY LastStep
<1>2. LastInv => NeverDark
  BY DEF LastInv, LastServes, NeverDark
<1> QED
  BY <1>1, <1>2, LastInit, PTL DEF Spec

-----------------------------------------------------------------------------
(* A rollout that completes has its backend in the rotation. *)

\* The numbers the registry and the state file know are of containers that
\* have been created.
Known == \A i \in DOMAIN store : i <= created

Recorded ==
    /\ saved.old <= created
    /\ \A p \in Rollbacks : loc[p].old <= created

\* The cut-over, call by call.  What the rollout will register is a container
\* the registry has never heard of: so POST /backends cannot answer 409 for a
\* backend that is draining.  From then on that backend stays in the rotation,
\* because no later call of the rollout names it.
CutoverStage(p) ==
    /\ pc[p] = "wait" => created \notin DOMAIN store
    /\ pc[p] \in {"find", "register"} => loc[p].new \notin DOMAIN store
    /\ pc[p] \in Cutting =>
          loc[p].new \in Active(store) /\ loc[p].new # Seed /\ loc[p].old # loc[p].new

CutoverInv ==
    /\ FleetInv
    /\ Apart
    /\ Known
    /\ Recorded
    /\ \A p \in Rollouts : CutoverStage(p)

\* The registry learns of no container but the one a rollout has started, which
\* is new to it.
LEMMA KnownRollout ==
    ASSUME FleetInv, Known, NEW p \in Rollouts, RolloutStep(p)
    PROVE  /\ Known' /\ created' \in Nat /\ created \in Nat /\ created <= created'
           /\ pc[p] = "scale" /\ pc'[p] = "wait" => created' \notin DOMAIN store'
<1>1. /\ TypeOK /\ Numbered /\ FleetStage(p) /\ created \in Nat
      /\ pc \in [Procs -> {"idle"} \cup Critical \cup RollbackPcs \cup Ended]
      /\ DOMAIN store \subseteq Nat
  BY RolloutAssumption DEF FleetInv, Fleet, TypeOK, StoreType, Containers, Seed
<1>2. created' \in Nat /\ (created' = created \/ (created' >= created /\ pc[p] = "scale"))
  BY <1>1, ContainerCalls, RolloutAssumption DEF Starts, StartsPart, Stops, Containers
<1>3. \/ DOMAIN store' \subseteq DOMAIN store
      \/ pc[p] = "register" /\ DOMAIN store' = DOMAIN store \cup {loc[p].new}
  BY <1>1, RegistryCalls
  DEF Registered, Drained, Deregistered, Add, SetDraining, Remove
<1>4. pc[p] = "register" => loc[p].new \in Containers /\ loc[p].new <= created
  BY <1>1, RunningFinite DEF FleetStage, IsNewest, Numbered, Running
<1>5. Known'
  BY <1>1, <1>2, <1>3, <1>4 DEF Known
<1>6. pc[p] = "scale" /\ pc'[p] = "wait" => created' > created
  BY <1>1, ContainerCalls DEF Starts, Stops
<1> QED
  BY <1>1, <1>2, <1>3, <1>5, <1>6 DEF Known

\* One step of a rollout keeps the cut-over's invariant, other rollouts being
\* outside the lock.
LEMMA CutoverRollout ==
    ASSUME CutoverInv, NEW p \in Rollouts, RolloutStep(p)
    PROVE  Known' /\ Recorded' /\ CutoverStage(p)'
<1> p \in Procs
  BY DEF Procs
<1> USE DEF Goto, SetLoc
<1>0. /\ pc \in [Procs -> {"idle"} \cup Critical \cup RollbackPcs \cup Ended]
      /\ loc \in [Procs -> [replicas : 0 .. MaxContainers, old : {NoId} \cup Containers,
                 oldAddr : {NoId} \cup Containers, new : {NoId} \cup Containers]]
      /\ TypeOK /\ Numbered /\ FleetStage(p)
      /\ FleetInv /\ Known /\ Recorded /\ CutoverStage(p)
  BY DEF CutoverInv, FleetInv, Fleet, TypeOK
<1>1. /\ Known' /\ created' \in Nat /\ created \in Nat /\ created <= created'
      /\ pc[p] = "scale" /\ pc'[p] = "wait" => created' \notin DOMAIN store'
  BY <1>0, KnownRollout
<1>2. Recorded'
  <2>1. \/ saved' = saved \/ saved' = NoState
        \/ pc[p] = "save" /\ saved'.old = loc[p].old
    BY DEF RolloutStep, Pull, CountReplicas, ScaleUp, WaitHealthy, WaitTimeout, ScaleBack,
       FindOld, Register, Save, Drain, Sleep, DeregOld, RemoveOld, DeregSeed, Clear, Unlock
  <2>2. pc[p] = "save" => loc[p].old <= created
    BY <1>0, <1>1, RunningFinite DEF FleetStage, Numbered, Running, NoId
  <2>3. saved.old \in Nat /\ saved.old <= created
    BY <1>0, RolloutAssumption DEF TypeOK, Recorded, NoId, Containers
  <2>4. saved'.old <= created'
    BY <1>0, <1>1, <2>1, <2>2, <2>3, RolloutAssumption DEF NoState, NoId, Containers
  <2>5. \A q \in Rollbacks : loc'[q] = loc[q] /\ loc[q].old \in Nat
    BY <1>0, OthersUntouched, RolloutAssumption DEF Procs, NoId, Containers
  <2> QED
    BY <1>0, <1>1, <2>4, <2>5 DEF Recorded
<1>3. pc[p] \in Cutting => pc'[p] \in Cutting \cup {"abort"} \cup Ended /\ UNCHANGED loc
  BY <1>0 DEF Cutting, Ended, RolloutStep, Pull, CountReplicas, ScaleUp, WaitHealthy,
     WaitTimeout, ScaleBack, FindOld, Register, Save, Drain, Sleep, DeregOld, RemoveOld,
     DeregSeed, Clear, Unlock
<1>4. pc[p] \in Cutting => loc[p].new \in Active(store')
  <2>1. pc[p] \in Cutting => /\ loc[p].new \in Active(store)
                             /\ loc[p].new # Seed /\ loc[p].new # loc[p].old
    BY <1>0 DEF CutoverStage
  <2> QED
    BY <1>0, <2>1, RegistryCalls, ActiveOps DEF Drained, Deregistered, Cutting
<1>5. CASE pc[p] = "register"
  <2>1. /\ loc[p].new \notin DOMAIN store /\ loc[p].new \in Containers
        /\ loc[p].old # loc[p].new
    BY <1>0, <1>5, RunningFinite DEF CutoverStage, FleetStage, IsNewest, NoId, Containers
  <2>2. Active(Registered(loc[p].new, loc[p].new)) = Active(store) \cup {loc[p].new}
    BY <2>1, ActiveOps DEF Registered
  <2>3. pc'[p] \in {"save", "abort"} /\ UNCHANGED loc
    BY <1>0, <1>5 DEF RolloutStep, Pull, CountReplicas, ScaleUp, WaitHealthy, WaitTimeout,
       ScaleBack, FindOld, Register, Save, Drain, Sleep, DeregOld, RemoveOld, DeregSeed,
       Clear, Unlock
  <2>4. pc'[p] = "save" => loc[p].new \in Active(store')
    BY <1>0, <1>5, <2>2, RegistryCalls
  <2> QED
    BY <1>1, <1>2, <2>1, <2>3, <2>4 DEF CutoverStage, Cutting, Containers, Seed
<1>6. CASE pc[p] \in Cutting
  BY <1>0, <1>1, <1>2, <1>3, <1>4, <1>6 DEF CutoverStage, Cutting, Ended
<1>7. CASE pc[p] \notin Cutting \cup {"register"}
  <2>1. UNCHANGED store
    BY <1>0, <1>7, RegistryCalls DEF Cutting
  <2>2. CASE WaitHealthy(p)
    <3>1. PICK c \in Running : IsNewest(c, Running) /\ loc' = [loc EXCEPT ![p]["new"] = c]
      BY <2>2 DEF WaitHealthy
    <3>2. /\ pc[p] = "wait" /\ pc'[p] = "find" /\ IsNewest(created, Running)
          /\ created \notin DOMAIN store
      BY <1>0, <2>2 DEF WaitHealthy, FleetStage, CutoverStage
    <3>3. Running \subseteq Nat
      BY RunningFinite DEF Containers
    <3>4. c = created
      BY <3>1, <3>2, <3>3, NewestUnique
    <3>5. loc'[p].new = created
      BY <1>0, <3>1, <3>4
    <3> QED
      BY <1>1, <1>2, <2>1, <3>2, <3>5 DEF CutoverStage, Cutting
  <2>3. CASE ~WaitHealthy(p)
    <3>1. \/ pc[p] = "scale" /\ pc'[p] \in {"wait", "abort"}
          \/ pc[p] = "find" /\ pc'[p] = "register" /\ loc'[p].new = loc[p].new
          \/ pc'[p] \notin {"wait", "find", "register"} \cup Cutting
      BY <1>0, <1>7, <2>3 DEF RolloutStep, Pull, CountReplicas, ScaleUp, WaitTimeout,
         ScaleBack, FindOld, Register, Save, Drain, Sleep, DeregOld, RemoveOld, DeregSeed,
         Clear, Unlock, Cutting, Ended
    <3> QED
      BY <1>0, <1>1, <1>2, <2>1, <3>1 DEF CutoverStage, Cutting
  <2> QED
    BY <2>2, <2>3
<1> QED
  BY <1>5, <1>6, <1>7

\* Nothing else a rollout's cut-over rests on is taken from it, if rollbacks
\* keep apart.
LEMMA CutoverStep ==
    ASSUME CutoverInv, [Next]_vars, "overlap" \notin Faults \/ Rollbacks = {},
           Faults \cap {"crash", "restart"} = {}
    PROVE  CutoverInv'
<1>1. FleetInv' /\ Apart'
  BY FleetStep, ApartStep DEF CutoverInv, FleetInv
<1>2. /\ TypeOK /\ LockInv /\ Apart /\ Known /\ Recorded /\ created \in Nat
      /\ loc \in [Procs -> [replicas : 0 .. MaxContainers, old : {NoId} \cup Containers,
                 oldAddr : {NoId} \cup Containers, new : {NoId} \cup Containers]]
      /\ \A q \in Rollouts : CutoverStage(q)
  BY RolloutAssumption DEF CutoverInv, FleetInv, TypeOK
<1>3. ASSUME NEW p \in Rollouts, RolloutStep(p)
      PROVE  CutoverInv'
  <2>1. Known' /\ Recorded' /\ CutoverStage(p)'
    BY <1>3, CutoverRollout
  <2>2. \A q \in Rollouts \ {p} : CutoverStage(q)'
    BY <1>2, <1>3, AloneInside DEF CutoverStage, Critical, Cutting
  <2> QED
    BY <1>1, <2>1, <2>2 DEF CutoverInv
<1>4. ASSUME NEW p \in Rollbacks, RollbackStep(p)
      PROVE  CutoverInv'
  <2>1. /\ UNCHANGED <<created, loc>> /\ saved' \in {saved, NoState}
        /\ \/ DOMAIN store' \subseteq DOMAIN store
           \/ DOMAIN store' = DOMAIN store \cup {loc[p].old}
    BY <1>4 DEF RollbackStep, RbRegister, RbDrain, RbSleep, RbDereg, RbClear, Answered,
       Errors, Registered, Drained, Deregistered, Add, SetDraining, Remove
  <2>2. Known' /\ Recorded'
    BY <1>2, <2>1 DEF Known, Recorded, NoState, NoId
  <2>3. \A q \in Rollouts : pc[q] \notin Critical /\ pc'[q] = pc[q]
    BY <1>2, <1>4, RollbackMoves, OthersUntouched, RolloutAssumption DEF Apart, Procs
  <2> QED
    BY <1>1, <2>2, <2>3 DEF CutoverInv, CutoverStage, Critical, Cutting
<1>5. CASE (\A p \in Rollouts : ~RolloutStep(p)) /\ (\A p \in Rollbacks : ~RollbackStep(p))
  <2>1. /\ UNCHANGED <<created, saved, store>>
        /\ \A q \in Rollouts : /\ loc'[q] = loc[q]
                               /\ pc'[q] = pc[q] \/ pc'[q] \in {"killed", "refused", "pull"}
    BY <1>2, <1>5, Beside
  <2>2. \A q \in Rollbacks : loc'[q].old \in {loc[q].old, saved.old}
    <3>1. ASSUME NEW p \in Rollbacks, LoadState(p)
          PROVE  \A q \in Rollbacks : loc'[q].old \in {loc[q].old, saved.old}
      <4>1. UNCHANGED loc \/ loc' = [loc EXCEPT ![p].old = saved.old,
                                ![p].oldAddr = saved.oldAddr, ![p].new = saved.new]
        BY <3>1 DEF LoadState
      <4> QED
        BY <1>2, <4>1 DEF Procs
    <3>2. (\A p \in Rollbacks : ~LoadState(p)) => UNCHANGED loc
      BY <1>5 DEF Next, vars, Acquire, Cancel, Kill, Environment, ContainerReports,
         ContainerCrash, ProxyRestart, ClearStaleLock
    <3> QED
      BY <3>1, <3>2
  <2>3. \A q \in Rollouts : CutoverStage(q)'
    BY <1>2, <2>1 DEF CutoverStage, Cutting
  <2> QED
    BY <1>1, <1>2, <2>1, <2>2, <2>3 DEF CutoverInv, Known, Recorded
<1> QED
  BY <1>3, <1>4, <1>5

LEMMA CutoverInit == Init => CutoverInv
<1> SUFFICES ASSUME Init PROVE CutoverInv
  OBVIOUS
<1>1. FleetInv /\ Apart /\ DOMAIN store = {Seed}
  BY FleetInit, ApartInit, SeedAlone DEF Init
<1>2. Known
  BY <1>1, RolloutAssumption DEF Init, Known, Seed
<1>3. Recorded
  BY RolloutAssumption DEF Init, Recorded, NoState, NoId, Procs
<1> QED
  BY <1>1, <1>2, <1>3 DEF Init, CutoverInv, CutoverStage, Cutting, Procs

\* A rollout that reports success has its backend in the rotation, whatever
\* call of it, of an earlier rollout or of a rollback between them has failed
\* on the way.
THEOREM CompletedServesNewAlways ==
    ASSUME "overlap" \notin Faults \/ Rollbacks = {}, Faults \cap {"crash", "restart"} = {}
    PROVE  Spec => []CompletedServesNew
<1>1. CutoverInv /\ [Next]_vars => CutoverInv'
  BY CutoverStep
<1>2. CutoverInv => CompletedServesNew
  BY DEF CutoverInv, CutoverStage, Cutting, CompletedServesNew
<1> QED
  BY <1>1, <1>2, CutoverInit, PTL DEF Spec

-----------------------------------------------------------------------------
(* What the rotation leads to. *)

\* Every backend the round robin may choose but the seed is a healthy container.
Served == Active(store) \subseteq Healthy \cup {Seed}

\* The stages of a rollout without a failing docker ps: the containers it
\* removes are the fresh one it gave up and the old one it has drained.
AliveStage(p) ==
    /\ pc[p] \in {"wait", "scaleBack"} => created \notin DOMAIN store
    /\ pc[p] \in {"find", "register"} \cup Cutting => loc[p].new \in Healthy
    /\ pc[p] = "register" => loc[p].old # NoId \/ p \in cancelled
    /\ pc[p] \in Cutting => loc[p].old # NoId
    /\ pc[p] \in {"sleep", "dereg", "rm"} => loc[p].old \notin Active(store)

Alive ==
    /\ Known
    /\ Served
    /\ \A p \in Rollouts : AliveStage(p)

AliveInv == FleetInv /\ Alive

\* What a rollout stops, nobody is led to.
LEMMA ServedRollout ==
    ASSUME AliveInv, NEW p \in Rollouts, RolloutStep(p), "recreate" \notin Faults
    PROVE  Served' /\ (pc[p] \in Cutting => loc[p].new \in Healthy')
<1>0. /\ TypeOK /\ Numbered /\ FleetStage(p) /\ Served /\ AliveStage(p)
      /\ cont \in [Containers -> Status] /\ Active(store) \subseteq DOMAIN store
      /\ DOMAIN store \subseteq {Seed} \cup Containers
  BY DEF AliveInv, FleetInv, Fleet, Alive, TypeOK, StoreType, Active, Procs
<1>1. \/ Active(store') \subseteq Active(store)
      \/ pc[p] = "register" /\ Active(store') \subseteq Active(store) \cup {loc[p].new}
  <2>1. \A id : /\ Active(Registered(id, id)) \subseteq Active(store) \cup {id}
                /\ Active(Drained(id)) \subseteq Active(store)
                /\ Active(Deregistered(id)) \subseteq Active(store)
    BY ActiveOps DEF Registered, Drained, Deregistered
  <2> QED
    BY <1>0, <2>1, RegistryCalls
<1>2. pc[p] = "register" => loc[p].new \in Healthy
  BY <1>0 DEF AliveStage
<1>3. Active(store') \subseteq Healthy \cup {Seed}
  BY <1>0, <1>1, <1>2 DEF Served
<1>4. CASE UNCHANGED cont
  BY <1>0, <1>3, <1>4 DEF Served, AliveStage, Healthy
<1>5. CASE pc[p] = "scale" /\ Starts(created')
  BY <1>0, <1>3, <1>5 DEF Starts, Served, Healthy, Cutting
<1>6. CASE pc[p] = "scaleBack" /\ Stops(created)
  <2>1. created \notin Active(store')
    BY <1>0, <1>1, <1>6 DEF AliveStage
  <2> QED
    BY <1>0, <1>3, <1>6, <2>1 DEF Stops, Served, Healthy, Cutting
<1>7. CASE pc[p] = "rm" /\ Stops(Outgoing(p))
  <2>1. /\ Outgoing(p) = loc[p].old /\ loc[p].old # loc[p].new
        /\ loc[p].old \notin Active(store) /\ loc[p].new \in Healthy
    BY <1>0, <1>7 DEF AliveStage, FleetStage, Outgoing, Cutting
  <2> QED
    BY <1>0, <1>1, <1>3, <1>7, <2>1 DEF Stops, Served, Healthy
<1> QED
  BY <1>0, <1>4, <1>5, <1>6, <1>7, ContainerCalls

\* One call of a rollout, with a docker ps that does not fail.
LEMMA AliveRollout ==
    ASSUME AliveInv, NEW p \in Rollouts, RolloutStep(p), Faults \cap {"ps", "recreate"} = {}
    PROVE  Known' /\ Served' /\ AliveStage(p)'
<1> p \in Procs
  BY DEF Procs
<1> USE DEF Goto, SetLoc
<1>0. /\ pc \in [Procs -> {"idle"} \cup Critical \cup RollbackPcs \cup Ended]
      /\ loc \in [Procs -> [replicas : 0 .. MaxContainers, old : {NoId} \cup Containers,
                 oldAddr : {NoId} \cup Containers, new : {NoId} \cup Containers]]
      /\ TypeOK /\ FleetInv /\ FleetStage(p) /\ Known /\ AliveStage(p)
  BY DEF AliveInv, FleetInv, Fleet, Alive, TypeOK
<1>1. /\ Known' /\ Served' /\ (pc[p] \in Cutting => loc[p].new \in Healthy')
      /\ pc[p] = "scale" /\ pc'[p] = "wait" => created' \notin DOMAIN store'
  BY <1>0, KnownRollout, ServedRollout
<1>2. CASE ScaleUp(p)
  <2>1. pc[p] = "scale" /\ pc'[p] \in {"wait", "abort"}
    BY <1>0, <1>2 DEF ScaleUp
  <2> QED
    BY <1>1, <2>1 DEF AliveStage, Cutting
<1>3. CASE WaitHealthy(p) \/ WaitTimeout(p)
  <2>1. /\ UNCHANGED <<cont, created, store>> /\ pc[p] = "wait"
        /\ \/ pc'[p] = "scaleBack"
           \/ /\ pc'[p] = "find"
              /\ \E c \in Running : cont[c] = "healthy" /\ loc' = [loc EXCEPT ![p]["new"] = c]
    BY <1>0, <1>3 DEF WaitHealthy, WaitTimeout
  <2>2. pc'[p] = "find" => loc'[p].new \in Healthy
    BY <1>0, <2>1 DEF Healthy, Running
  <2>3. Healthy' = Healthy
    BY <2>1 DEF Healthy
  <2> QED
    BY <1>0, <1>1, <2>1, <2>2, <2>3 DEF AliveStage, Cutting
<1>4. CASE FindOld(p)
  <2>1. /\ pc[p] = "find" /\ pc'[p] = "register" /\ UNCHANGED <<cont, cancelled>>
        /\ loc[p].new \in Healthy
    BY <1>0, <1>4 DEF FindOld, AliveStage
  <2>2. Running \ {loc[p].new} # {}
    BY <1>0, <2>1, OthersRun
  <2>3. \E c \in Running \cup {NoId} : /\ loc' = [loc EXCEPT ![p]["old"] = c]
                                       /\ c # NoId \/ p \in cancelled
    BY <1>4, <2>2, RunningFinite DEF FindOld, DockerFails, IsNewest, Containers, NoId
  <2>4. /\ loc'[p].new = loc[p].new
        /\ loc'[p].old # NoId \/ p \in cancelled
    BY <1>0, <2>3
  <2> QED
    BY <1>1, <2>1, <2>4 DEF AliveStage, Cutting, Healthy
<1>5. CASE Register(p)
  <2>1. /\ pc[p] = "register" /\ UNCHANGED <<cont, loc>>
        /\ loc[p].new \in Healthy /\ (loc[p].old # NoId \/ p \in cancelled)
        /\ pc'[p] = "abort" \/ (pc'[p] = "save" /\ p \notin cancelled)
    BY <1>0, <1>5 DEF Register, Answered, AliveStage
  <2> QED
    BY <1>1, <2>1 DEF AliveStage, Cutting, Healthy
<1>6. CASE Drain(p) \/ DeregOld(p)
  <2>1. /\ UNCHANGED loc /\ loc[p].old # NoId /\ pc[p] \in {"drain", "dereg"}
        /\ pc'[p] = "abort" \/ (pc'[p] = "sleep" /\ Drain(p)) \/ (pc'[p] = "rm" /\ DeregOld(p))
    BY <1>0, <1>6 DEF Drain, DeregOld, AliveStage, Cutting
  <2>2. pc'[p] \in {"sleep", "rm"} => loc[p].old \notin Active(store')
    <3>1. CASE Drain(p)
      BY <1>0, <2>1, <3>1, ActiveOps DEF Drain, Answered, Drained
    <3>2. CASE DeregOld(p)
      BY <1>0, <2>1, <3>2, ActiveOps DEF DeregOld, Answered, Errors, Deregistered, AliveStage
    <3> QED
      BY <1>6, <3>1, <3>2
  <2> QED
    BY <1>1, <2>1, <2>2 DEF AliveStage, Cutting
<1>7. CASE Save(p) \/ Sleep(p) \/ RemoveOld(p) \/ DeregSeed(p) \/ Clear(p)
  <2>1. /\ UNCHANGED loc /\ pc[p] \in Cutting
        /\ pc'[p] \in {"drain", "dereg", "seed", "clear", "finish", "abort"}
        /\ pc'[p] = "dereg" => pc[p] = "sleep" /\ UNCHANGED store
    BY <1>0, <1>7 DEF Save, Sleep, RemoveOld, DeregSeed, Clear, Cutting
  <2> QED
    BY <1>0, <1>1, <2>1 DEF AliveStage, Cutting
<1>8. CASE Pull(p) \/ CountReplicas(p) \/ ScaleBack(p) \/ Unlock(p)
  <2>1. pc'[p] \in {"count", "scale", "abort"} \cup Ended
    BY <1>0, <1>8 DEF Pull, CountReplicas, ScaleBack, Unlock, Ended
  <2> QED
    BY <1>1, <2>1 DEF AliveStage, Cutting, Ended
<1> QED
  BY <1>2, <1>3, <1>4, <1>5, <1>6, <1>7, <1>8 DEF RolloutStep

\* No step takes a backend's container away, not even a restart of the proxy,
\* which forgets every backend but the seed.
LEMMA AliveStep ==
    ASSUME AliveInv, [Next]_vars, \A p \in Rollbacks : ~RollbackStep(p),
           Faults \cap {"ps", "crash", "recreate"} = {}
    PROVE  AliveInv'
<1>1. FleetInv' /\ TypeOK /\ LockInv /\ FleetInv
  BY FleetStep DEF AliveInv, FleetInv
<1>2. ASSUME NEW p \in Rollouts, RolloutStep(p)
      PROVE  AliveInv'
  <2>1. Known' /\ Served' /\ AliveStage(p)'
    BY <1>2, AliveRollout
  <2>2. \A q \in Rollouts \ {p} : AliveStage(q)'
    BY <1>1, <1>2, AloneInside DEF AliveStage, Critical, Cutting
  <2> QED
    BY <1>1, <2>1, <2>2 DEF AliveInv, Alive
<1>3. CASE \A p \in Rollouts : ~RolloutStep(p)
  <2>1. /\ UNCHANGED created /\ Running' = Running
        /\ \A c \in Containers : cont[c] = "healthy" => cont'[c] = "healthy"
        /\ cancelled \subseteq cancelled'
        /\ \A q \in Rollouts : /\ loc'[q] = loc[q]
                               /\ pc'[q] = pc[q] \/ pc'[q] \in {"refused", "killed", "pull"}
        /\ UNCHANGED store \/ store' = Add(NewRegistry, Seed, Dns, 0)
    BY <1>1, <1>3, Beside
  <2>2. /\ created \in Nat /\ DOMAIN store' \subseteq DOMAIN store \cup {Seed}
        /\ Active(store') \subseteq Active(store) \cup {Seed}
        /\ Active(store) \subseteq {Seed} \cup Containers
    BY <1>1, <2>1, SeedAlone, RolloutAssumption DEF TypeOK, StoreType, Active
  <2>3. Known' /\ Served'
    BY <2>1, <2>2 DEF AliveInv, Alive, Known, Served, Healthy, Seed
  <2>4. ASSUME NEW q \in Rollouts
        PROVE  AliveStage(q)'
    <3>1. AliveStage(q) /\ FleetStage(q)
      BY DEF AliveInv, FleetInv, Fleet, Alive
    <3>2. pc[q] \in {"wait", "scaleBack"} => created # Seed
      BY <3>1, RunningFinite DEF FleetStage, IsNewest, Containers, Seed
    <3>3. Healthy \subseteq Healthy'
      BY <2>1 DEF Healthy
    <3> QED
      BY <2>1, <2>2, <3>1, <3>2, <3>3 DEF AliveStage, Cutting, NoId, Seed
  <2> QED
    BY <1>1, <2>3, <2>4 DEF AliveInv, Alive
<1> QED
  BY <1>2, <1>3

\* The containers that the first rollout finds run.
LEMMA AliveInit == Init => AliveInv
<1> SUFFICES ASSUME Init PROVE AliveInv
  OBVIOUS
<1>1. FleetInv /\ DOMAIN store = {Seed} /\ Active(store) = {Seed}
  BY FleetInit, SeedAlone DEF Init
<1>2. Known /\ Served
  BY <1>1, RolloutAssumption DEF Init, Known, Served, Seed
<1> QED
  BY <1>1, <1>2 DEF Init, AliveInv, Alive, AliveStage, Cutting, Procs

\* A backend that the round robin may choose leads to a running container,
\* wherever rollouts time out, fail, are interrupted or killed, and whenever
\* the proxy restarts: what they stop has left the rotation before.  docker ps
\* has to work (without the list of containers a rollout goes on, and scales
\* down the one it has just registered), a container must not exit by itself, and
\* docker compose up must not re-create one.
THEOREM NoDeadRouteAlways ==
    ASSUME Rollbacks = {}, Faults \cap {"ps", "crash", "recreate"} = {}
    PROVE  Spec => []NoDeadRoute
<1>1. AliveInv /\ [Next]_vars => AliveInv'
  BY AliveStep
<1>2. AliveInv => NoDeadRoute
  <2> SUFFICES ASSUME AliveInv, NEW i \in Active(store)
               PROVE  Resolves(i) # {}
    BY DEF NoDeadRoute
  <2>1. i = Seed => Resolves(i) # {}
    BY DEF AliveInv, FleetInv, Fleet, Resolves
  <2>2. i # Seed => i \in Healthy
    BY DEF AliveInv, Alive, Served
  <2> QED
    BY <2>1, <2>2 DEF Resolves, Running, Healthy
<1> QED
  BY <1>1, <1>2, AliveInit, PTL DEF Spec

-----------------------------------------------------------------------------
(* What the rotation consists of, when rollouts are not interrupted. *)

Rotation(S) == Active(store) = {Seed} \/ \E x \in S : Active(store) = {x} /\ IsNewest(x, S)

\* Between rollouts the rotation is the seed or the newest container, which is
\* the one the next rollout will find to be the old one.
CleanStage(p) ==
    /\ pc[p] \in {"pull", "count", "scale", "abort"} => Rotation(Running)
    /\ pc[p] \in {"wait", "scaleBack"} => Rotation(Running \ {created})
    /\ pc[p] = "find" => Rotation(Running \ {loc[p].new})
    /\ pc[p] = "register" => Active(store) \subseteq {Seed, loc[p].old}
    /\ pc[p] \in {"save", "drain"} => Active(store) \subseteq {Seed, loc[p].old, loc[p].new}
    /\ pc[p] \in {"sleep", "dereg", "rm", "seed"} => Active(store) \subseteq {Seed, loc[p].new}
    /\ pc[p] \in {"seed", "clear", "finish"} => IsNewest(loc[p].new, Running)
    /\ pc[p] \in {"clear", "finish"} => Active(store) = {loc[p].new}

Clean ==
    /\ cancelled = {}
    /\ RolloutsQuiet => Rotation(Running)
    /\ \A p \in Rollouts : CleanStage(p)

\* The state file is there only while its rollout is: a rollback that waits
\* for it finds nothing to undo.
Recovering == {"drain", "sleep", "dereg", "rm", "seed", "clear"}

NothingToUndo ==
    /\ \A p \in Rollbacks : pc[p] \notin RollbackPcs
    /\ saved # NoState => \E p \in Rollouts : pc[p] \in Recovering

CleanInv == CutoverInv /\ Alive /\ NothingToUndo /\ Clean

\* What can fail when rollouts run to their end: docker compose pull, the look
\* at the old container, the state file and the removal of the old container.
UninterruptedFaults == {"pull", "inspect", "disk", "rm", "overlap"}

\* One call of a rollout that nothing interrupts.
LEMMA CleanRollout ==
    ASSUME CleanInv, NEW p \in Rollouts, RolloutStep(p), Faults \subseteq UninterruptedFaults
    PROVE  CleanStage(p)' /\ (pc'[p] \notin Critical => Rotation(Running)')
<1> p \in Procs
  BY DEF Procs
<1> USE DEF Goto, SetLoc
<1>0. /\ pc \in [Procs -> {"idle"} \cup Critical \cup RollbackPcs \cup Ended]
      /\ loc \in [Procs -> [replicas : 0 .. MaxContainers, old : {NoId} \cup Containers,
                 oldAddr : {NoId} \cup Containers, new : {NoId} \cup Containers]]
      /\ TypeOK /\ Numbered /\ FleetStage(p) /\ CutoverStage(p) /\ AliveStage(p)
      /\ CleanStage(p)
  BY DEF CleanInv, CutoverInv, FleetInv, Fleet, Alive, Clean, TypeOK
<1>a. p \notin cancelled /\ Faults \cap {"scale", "ps", "http"} = {}
  BY DEF CleanInv, Clean, UninterruptedFaults
<1>b. \A s : Answered(p, s) \/ Errors(p, s) => store' = s
  BY <1>a DEF Answered, Errors
<1>1. CASE Pull(p) \/ CountReplicas(p)
  <2>1. UNCHANGED <<cont, store>> /\ pc[p] \in {"pull", "count"}
        /\ pc'[p] \in {"count", "scale", "abort"}
    BY <1>0, <1>1 DEF Pull, CountReplicas
  <2>2. Running' = Running
    BY <2>1 DEF Running
  <2> QED
    BY <1>0, <2>1, <2>2 DEF CleanStage, Rotation, Cutting, Critical
<1>2. CASE ScaleUp(p)
  <2>1. /\ loc[p].replicas = Cardinality(Running) /\ Rotation(Running)
        /\ ScaleTo(loc[p].replicas + 1) /\ UNCHANGED store /\ pc'[p] = "wait"
    BY <1>0, <1>2, <1>a DEF ScaleUp, FleetStage, CleanStage, DockerFails
  <2>2. created' \notin Running /\ Running' = Running \cup {created'}
    BY <1>0, <2>1, ScaleUpOne DEF Starts, UninterruptedFaults
  <2>3. Running' \ {created'} = Running
    BY <2>2
  <2> QED
    BY <2>1, <2>3 DEF CleanStage, Rotation, Cutting, Critical
<1>3. CASE WaitHealthy(p)
  <2>1. PICK c \in Running : IsNewest(c, Running) /\ loc' = [loc EXCEPT ![p]["new"] = c]
    BY <1>3 DEF WaitHealthy
  <2>2. /\ pc[p] = "wait" /\ pc'[p] = "find" /\ UNCHANGED <<cont, store>>
        /\ IsNewest(created, Running) /\ Rotation(Running \ {created})
    BY <1>0, <1>3 DEF WaitHealthy, FleetStage, CleanStage
  <2>3. c = created
    BY <2>1, <2>2, RunningFinite DEF IsNewest, Containers
  <2>4. loc'[p].new = created /\ Running' = Running
    BY <1>0, <2>1, <2>2, <2>3 DEF Running
  <2> QED
    BY <2>2, <2>4 DEF CleanStage, Rotation, Cutting, Critical
<1>4. CASE WaitTimeout(p)
  <2>1. UNCHANGED <<cont, created, store>> /\ pc[p] = "wait" /\ pc'[p] = "scaleBack"
    BY <1>0, <1>4 DEF WaitTimeout
  <2>2. Running' = Running
    BY <2>1 DEF Running
  <2> QED
    BY <1>0, <2>1, <2>2 DEF CleanStage, Rotation, Cutting, Critical
<1>5. CASE ScaleBack(p)
  <2>1. /\ Cardinality(Running) = loc[p].replicas + 1 /\ IsNewest(created, Running)
        /\ Rotation(Running \ {created}) /\ ScaleTo(loc[p].replicas)
        /\ UNCHANGED store /\ pc'[p] = "abort"
    BY <1>0, <1>5, <1>a DEF ScaleBack, FleetStage, CleanStage, DockerFails
  <2>2. loc[p].replicas \in Nat
    BY <1>0, RolloutAssumption
  <2>3. Running' = Running \ {created}
    BY <1>0, <2>1, <2>2, ScaleDownOne
  <2> QED
    BY <2>1, <2>3 DEF CleanStage, Rotation, Cutting, Critical
<1>6. CASE FindOld(p)
  <2> DEFINE others == Running \ {loc[p].new}
  <2>1. /\ pc[p] = "find" /\ pc'[p] = "register" /\ UNCHANGED <<cont, store>>
        /\ Rotation(others)
    BY <1>0, <1>6 DEF FindOld, CleanStage
  <2>2. PICK c \in others : IsNewest(c, others) /\ loc' = [loc EXCEPT ![p]["old"] = c]
    BY <1>0, <1>6, <1>a, <2>1, OthersRun DEF FindOld, DockerFails
  <2>3. Active(store) \subseteq {Seed, c}
    BY <2>1, <2>2, RunningFinite DEF Rotation, IsNewest, Containers
  <2>4. loc'[p].old = c /\ loc'[p].new = loc[p].new /\ Running' = Running
    BY <1>0, <2>1, <2>2 DEF Running
  <2> QED
    BY <2>1, <2>3, <2>4 DEF CleanStage, Cutting, Critical
<1>7. CASE Register(p)
  <2>1. /\ pc[p] = "register" /\ pc'[p] = "save" /\ UNCHANGED <<cont, loc>>
        /\ store' = Registered(loc[p].new, loc[p].new)
        /\ Active(store) \subseteq {Seed, loc[p].old}
    BY <1>0, <1>7, <1>a, <1>b DEF Register, Errors, CleanStage
  <2>2. Active(store') \subseteq Active(store) \cup {loc[p].new}
    BY <2>1, ActiveOps DEF Registered
  <2>3. Running' = Running
    BY <2>1 DEF Running
  <2> QED
    BY <2>1, <2>2, <2>3 DEF CleanStage, Cutting, Critical
<1>8. CASE Save(p) \/ Sleep(p) \/ Clear(p)
  <2>1. /\ UNCHANGED <<cont, store, loc>>
        /\ \/ pc[p] = "save" /\ pc'[p] = "drain"
           \/ pc[p] = "sleep" /\ pc'[p] = "dereg"
           \/ pc[p] = "clear" /\ pc'[p] = "finish"
    BY <1>0, <1>8, <1>a DEF Save, Sleep, Clear
  <2>2. Running' = Running
    BY <2>1 DEF Running
  <2> QED
    BY <1>0, <2>1, <2>2 DEF CleanStage, Cutting, Critical
<1>9. CASE Drain(p)
  <2>1. /\ UNCHANGED <<cont, loc>> /\ loc[p].old # NoId /\ pc'[p] = "sleep"
        /\ store' = Drained(loc[p].old)
        /\ Active(store) \subseteq {Seed, loc[p].old, loc[p].new}
    BY <1>0, <1>9, <1>a, <1>b DEF Drain, Errors, AliveStage, CleanStage, Cutting
  <2>2. Active(store') = Active(store) \ {loc[p].old}
    BY <2>1, ActiveOps DEF Drained
  <2>3. Running' = Running
    BY <2>1 DEF Running
  <2> QED
    BY <2>1, <2>2, <2>3 DEF CleanStage, Cutting, Critical
<1>10. CASE DeregOld(p)
  <2>1. /\ UNCHANGED <<cont, loc>> /\ pc'[p] = "rm"
        /\ Active(store) \subseteq {Seed, loc[p].new}
        /\ UNCHANGED store \/ store' = Deregistered(loc[p].old)
    BY <1>0, <1>10, <1>b DEF DeregOld, CleanStage, Cutting
  <2>2. Active(Deregistered(loc[p].old)) \subseteq Active(store)
    BY ActiveOps DEF Deregistered
  <2>3. Running' = Running
    BY <2>1 DEF Running
  <2> QED
    BY <2>1, <2>2, <2>3 DEF CleanStage, Cutting, Critical
<1>11. CASE RemoveOld(p)
  <2>1. /\ UNCHANGED <<store, loc>> /\ loc[p].old # NoId /\ loc[p].old # loc[p].new
        /\ pc'[p] = "seed" /\ IsNewest(loc[p].new, Running)
        /\ Active(store) \subseteq {Seed, loc[p].new}
    BY <1>0, <1>11 DEF RemoveOld, AliveStage, FleetStage, CutoverStage, CleanStage, Cutting
  <2>2. loc[p].old \in Containers
    BY <1>0, <2>1
  <2>3. cont' = cont \/ cont' = [cont EXCEPT ![loc[p].old] = "gone"]
    BY <1>11, <2>1 DEF RemoveOld
  <2>4. Running' = Running \/ Running' = Running \ {loc[p].old}
    BY <1>0, <2>2, <2>3 DEF Running, TypeOK
  <2>5. IsNewest(loc[p].new, Running')
    BY <2>1, <2>4 DEF IsNewest
  <2> QED
    BY <2>1, <2>5 DEF CleanStage, Cutting, Critical
<1>12. CASE DeregSeed(p)
  <2>1. /\ UNCHANGED <<cont, loc>> /\ pc'[p] = "clear"
        /\ store' = Deregistered(Seed) /\ IsNewest(loc[p].new, Running)
        /\ Active(store) \subseteq {Seed, loc[p].new}
        /\ loc[p].new \in Active(store) /\ loc[p].new # Seed
    BY <1>0, <1>12, <1>b DEF DeregSeed, CutoverStage, CleanStage, Cutting
  <2>2. Active(store') = Active(store) \ {Seed}
    BY <2>1, ActiveOps DEF Deregistered
  <2>3. Running' = Running
    BY <2>1 DEF Running
  <2> QED
    BY <2>1, <2>2, <2>3 DEF CleanStage, Cutting, Critical
<1>13. CASE Unlock(p)
  <2>1. /\ UNCHANGED <<cont, store>> /\ pc'[p] \in Ended
        /\ pc[p] \in {"abort", "finish"}
    BY <1>0, <1>13 DEF Unlock, Ended
  <2>2. Running' = Running
    BY <2>1 DEF Running
  <2>3. Rotation(Running)
    BY <1>0, <2>1 DEF CleanStage, Rotation, IsNewest, Cutting
  <2> QED
    BY <2>1, <2>2, <2>3 DEF CleanStage, Rotation, Cutting, Ended
<1> QED
  BY <1>1, <1>2, <1>3, <1>4, <1>5, <1>6, <1>7, <1>8, <1>9, <1>10, <1>11, <1>12, <1>13
  DEF RolloutStep

\* Rollouts that nothing interrupts clear the state file, and leave a rollback
\* nothing to do.
LEMMA UndoStep ==
    ASSUME CleanInv, [Next]_vars, Faults \subseteq UninterruptedFaults,
           "overlap" \notin Faults \/ Rollbacks = {}
    PROVE  NothingToUndo'
<1> USE DEF Procs, Goto
<1>0. /\ pc \in [Procs -> {"idle"} \cup Critical \cup RollbackPcs \cup Ended]
      /\ TypeOK /\ LockInv /\ NothingToUndo /\ cancelled = {}
      /\ Faults \cap {"crash", "restart", "signal", "kill", "http"} = {}
  BY DEF CleanInv, CutoverInv, FleetInv, Clean, TypeOK, UninterruptedFaults
<1>1. \A p \in Rollbacks : ~RollbackStep(p)
  BY <1>0, RollbackMoves DEF NothingToUndo
<1>2. ASSUME NEW p \in Rollouts, RolloutStep(p)
      PROVE  NothingToUndo'
  <2>1. \A q \in Rollouts \ {p} : pc[q] \notin Critical
    BY <1>0, <1>2, AloneInside
  <2>2. pc[p] \notin Recovering => saved = NoState
    BY <1>0, <2>1 DEF NothingToUndo, Recovering, Critical
  <2>3. pc[p] \in Recovering => pc'[p] \in Recovering \/ saved' = NoState
    BY <1>0, <1>2 DEF Recovering, RolloutStep, Pull, CountReplicas, ScaleUp, WaitHealthy,
       WaitTimeout, ScaleBack, FindOld, Register, Save, Drain, Sleep, DeregOld, RemoveOld,
       DeregSeed, Clear, Unlock, Errors
  <2>4. pc[p] \notin Recovering => pc'[p] \in Recovering \/ saved' \in {saved, NoState}
    BY <1>0, <1>2 DEF Recovering, RolloutStep, Pull, CountReplicas, ScaleUp, WaitHealthy,
       WaitTimeout, ScaleBack, FindOld, Register, Save, Drain, Sleep, DeregOld, RemoveOld,
       DeregSeed, Clear, Unlock
  <2>5. \A q \in Rollbacks : pc'[q] = pc[q]
    BY <1>0, <1>2, OthersUntouched, RolloutAssumption
  <2> QED
    BY <1>0, <2>2, <2>3, <2>4, <2>5 DEF NothingToUndo
<1>3. CASE \A p \in Rollouts : ~RolloutStep(p)
  <2>1. /\ UNCHANGED saved
        /\ \A q \in Rollouts : \/ pc'[q] = pc[q] \/ pc[q] = "idle"
    BY <1>0, <1>1, <1>3, Beside
  <2>2. saved' # NoState => \E p \in Rollouts : pc'[p] \in Recovering
    BY <1>0, <2>1 DEF NothingToUndo, Recovering
  <2>3. ASSUME NEW p \in Rollbacks, LoadState(p)
        PROVE  \A q \in Rollbacks : pc'[q] = pc[q] \/ pc'[q] = "failed"
    <3>1. saved = NoState
      BY <1>0, <2>3 DEF LoadState, RolloutsQuiet, NothingToUndo, Recovering, Critical
    <3>2. pc' = [pc EXCEPT ![p] = "failed"]
      BY <2>3, <3>1 DEF LoadState, NoState
    <3> QED
      BY <1>0, <3>2
  <2>4. ASSUME \A p \in Rollbacks : ~LoadState(p)
        PROVE  \A q \in Rollbacks : pc'[q] = pc[q] \/ pc'[q] = "killed"
    <3>1. ASSUME NEW p \in Rollouts, Acquire(p)
          PROVE  \A q \in Rollbacks : pc'[q] = pc[q]
      BY <1>0, <3>1, OthersUntouched, RolloutAssumption
    <3>2. ASSUME NEW p \in Procs, Cancel(p) \/ Kill(p)
          PROVE  \A q \in Rollbacks : pc'[q] = pc[q] \/ pc'[q] = "killed"
      BY <1>0, <3>2 DEF Cancel, Kill
    <3>3. CASE Environment \/ UNCHANGED vars
      BY <3>3 DEF Environment, ContainerReports, ContainerCrash, ProxyRestart,
         ClearStaleLock, vars
    <3> QED
      BY <1>1, <1>3, <2>4, <3>1, <3>2, <3>3 DEF Next
  <2> QED
    BY <1>0, <2>2, <2>3, <2>4 DEF NothingToUndo, RollbackPcs
<1> QED
  BY <1>2, <1>3

\* Rollouts that nothing interrupts hand the rotation from one to the next.
LEMMA CleanStep ==
    ASSUME CleanInv, [Next]_vars, Faults \subseteq UninterruptedFaults,
           "overlap" \notin Faults \/ Rollbacks = {}
    PROVE  CleanInv'
<1> USE DEF Procs
<1>1. Faults \cap {"ps", "crash", "recreate", "restart", "signal", "kill"} = {}
  BY DEF UninterruptedFaults
<1>2. \A p \in Rollbacks : ~RollbackStep(p)
  BY RollbackMoves DEF CleanInv, NothingToUndo
<1>b. CutoverInv' /\ Alive' /\ NothingToUndo'
  BY <1>1, <1>2, CutoverStep, AliveStep, UndoStep DEF CleanInv, CutoverInv, AliveInv
<1>3. TypeOK /\ LockInv /\ cancelled = {}
      /\ pc \in [Procs -> {"idle"} \cup Critical \cup RollbackPcs \cup Ended]
  BY DEF CleanInv, CutoverInv, FleetInv, Clean, TypeOK
<1>4. ASSUME NEW p \in Rollouts, RolloutStep(p)
      PROVE  Clean'
  <2>1. CleanStage(p)' /\ (pc'[p] \notin Critical => Rotation(Running)')
    BY <1>4, CleanRollout
  <2>2. \A q \in Rollouts \ {p} : CleanStage(q)'
    BY <1>3, <1>4, AloneInside DEF CleanStage, Critical, Cutting
  <2>3. cancelled' = {}
    BY <1>3, <1>4 DEF RolloutStep, Pull, CountReplicas, ScaleUp, WaitHealthy, WaitTimeout,
       ScaleBack, FindOld, Register, Save, Drain, Sleep, DeregOld, RemoveOld, DeregSeed,
       Clear, Unlock
  <2> QED
    BY <2>1, <2>2, <2>3 DEF Clean, RolloutsQuiet
<1>5. CASE \A p \in Rollouts : ~RolloutStep(p)
  <2>1. /\ UNCHANGED <<created, store, cancelled>> /\ Running' = Running
        /\ \A q \in Rollouts : loc'[q] = loc[q]
        /\ \A q \in Rollouts : \/ pc'[q] = pc[q]
                               \/ pc'[q] = "refused"
                               \/ pc'[q] = "pull" /\ ~lock
        /\ \A q \in Rollouts : pc[q] \in Critical => pc'[q] = pc[q]
    BY <1>1, <1>2, <1>3, <1>5, Beside DEF Critical
  <2>2. ~lock => RolloutsQuiet
    BY <1>3 DEF LockInv, RolloutsQuiet
  <2>3. RolloutsQuiet' => RolloutsQuiet
    BY <2>1 DEF RolloutsQuiet
  <2>4. RolloutsQuiet => Rotation(Running)
    BY DEF CleanInv, Clean
  <2>5. ASSUME NEW q \in Rollouts
        PROVE  CleanStage(q)'
    <3>1. CASE pc'[q] = pc[q]
      BY <2>1, <3>1 DEF CleanInv, Clean, CleanStage, Rotation
    <3>2. CASE pc'[q] = "refused"
      BY <3>2 DEF CleanStage, Cutting
    <3>3. CASE pc'[q] = "pull" /\ ~lock
      BY <2>1, <2>2, <2>4, <3>3 DEF CleanStage, Rotation, Cutting
    <3> QED
      BY <2>1, <3>1, <3>2, <3>3
  <2> QED
    BY <1>b, <1>3, <2>1, <2>3, <2>4, <2>5 DEF CleanInv, Clean, Rotation
<1> QED
  BY <1>b, <1>4, <1>5 DEF CleanInv

\* To begin with the rotation is the seed.
LEMMA CleanInit == Init => CleanInv
<1> SUFFICES ASSUME Init PROVE CleanInv
  OBVIOUS
<1>1. Active(store) = {Seed}
  BY SeedAlone DEF Init
<1>2. NothingToUndo
  BY DEF Init, NothingToUndo, RollbackPcs, Procs
<1> QED
  BY <1>1, <1>2, CutoverInit, AliveInit
  DEF Init, AliveInv, CleanInv, Clean, CleanStage, Rotation, Cutting, Procs

\* From the drain on, a rollout that nothing interrupts has none but its own
\* backend and the seed in the rotation, and afterwards its own alone: no
\* backend of an earlier rollout is ever left behind.  A rollback between two
\* of them finds no state and changes nothing.
THEOREM OnlyNewServesAlways ==
    ASSUME Faults \subseteq {"pull", "inspect", "disk", "rm", "overlap"},
           "overlap" \notin Faults \/ Rollbacks = {}
    PROVE  Spec => []OnlyNewServes
<1>1. CleanInv /\ [Next]_vars => CleanInv'
  BY CleanStep DEF UninterruptedFaults
<1>2. CleanInv => OnlyNewServes
  BY DEF CleanInv, CutoverInv, CutoverStage, Clean, CleanStage, Cutting, OnlyNewServes
<1> QED
  BY <1>1, <1>2, CleanInit, PTL DEF Spec
=============================================================================
