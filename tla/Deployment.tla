----------------------------- MODULE Deployment -----------------------------
(***************************************************************************)
(* The commands of Rollout together with the clients whose connections the *)
(* proxy routes by the same registry (internal/proxy/server.go, router.go) *)
(* to the same containers.  A connection                                   *)
(*   "new"      has not been handled yet,                                  *)
(*   "routed"   has its backend: Router.Next has answered, nothing is      *)
(*              dialled yet, and the registry may change,                  *)
(*   "open"     is piped to a container,                                   *)
(*   "closed"   was ended by its client or by the container,               *)
(*   "dropped"  was cut off, or closed without a container.                *)
(* The commands do not look at connections.  What relates the two is time: *)
(* a connection is assumed to be shorter than the drain period             *)
(* (--drain, 5 seconds by default), so a rollout that has slept all of it  *)
(* goes on only after the connections it found have ended.                 *)
(***************************************************************************)
EXTENDS Rollout

CONSTANT Conns  \* client connections

ASSUME DeploymentAssumption ==
    "restart" \notin Faults  \* a proxy that restarts cuts every connection

VARIABLES conn,  \* the client connections
          found  \* history: the live connections at the start of a drain period

Nobody == -1  \* no backend
NewConn == [stage |-> "new", via |-> Nobody, to |-> NoId]
Dropped(i) == [stage |-> "dropped", via |-> i, to |-> NoId]
Live(k) == conn[k].stage \in {"routed", "open"}

DeployInit ==
    /\ Init
    /\ conn = [k \in Conns |-> NewConn]
    /\ found = [p \in Rollouts |-> {}]

-----------------------------------------------------------------------------
(* The handler of a connection. *)

Stage(k, to) == conn' = [conn EXCEPT ![k] = to]

\* Mutant: the Draining flag is not looked at.
RoutedAnywhere(s) == {[stage |-> "routed", via |-> i, to |-> NoId] : i \in DOMAIN s}

\* Router.Next: some backend that is not draining, or an error.
Routed(s) ==
    IF Active(s) = {}
    THEN {Dropped(Nobody)}
    ELSE {[stage |-> "routed", via |-> i, to |-> NoId] : i \in Active(s)}

Route(k) ==
    /\ conn[k].stage = "new"
    /\ \E r \in Routed(store) : Stage(k, r)
    /\ UNCHANGED <<vars, found>>

\* The dialer tries every address of the name.  A healthy container accepts,
\* one that is not may or may not.
Dialled(i) ==
    {[stage |-> "open", via |-> i, to |-> c] : c \in Resolves(i)}
    \cup IF \A c \in Resolves(i) : cont[c] # "healthy" THEN {Dropped(i)} ELSE {}

Dial(k) ==
    /\ conn[k].stage = "routed"
    /\ \E d \in Dialled(conn[k].via) : Stage(k, d)
    /\ UNCHANGED <<vars, found>>

PipeEnds(k) ==
    /\ conn[k].stage = "open"
    /\ Stage(k, [NewConn EXCEPT !.stage = "closed"])
    /\ UNCHANGED <<vars, found>>

-----------------------------------------------------------------------------
(* A step of a command or of Docker, as the connections see it. *)

\* A container that stops cuts the connections that are piped to it.
CutOff ==
    conn' = [k \in Conns |->
               IF conn[k].stage = "open" /\ cont'[conn[k].to] = "gone"
               THEN Dropped(conn[k].via) ELSE conn[k]]

\* The assumption on time: the drain period outlasts what it found.
DrainPeriods ==
    /\ \A p \in Rollouts :
          pc[p] = "sleep" /\ pc'[p] = "dereg" => \A k \in found[p] : ~Live(k)
    /\ found' = [p \in Rollouts |->
                   IF pc'[p] # "sleep" THEN {}
                   ELSE IF pc[p] = "sleep" THEN found[p]
                   ELSE {k \in Conns : Live(k)}]

CommandStep == Next /\ CutOff /\ DrainPeriods

DeployNext ==
    \/ CommandStep
    \/ \E k \in Conns : Route(k) \/ Dial(k) \/ PipeEnds(k)

DeploySpec == DeployInit /\ [][DeployNext]_<<vars, conn, found>>
-----------------------------------------------------------------------------
(* Properties *)

\* "A rollout never cuts a request": a connection that the round robin gave to
\* a container's own backend is served, wherever rollouts are interrupted and
\* whatever they leave behind; only one that went by the seed, the DNS name,
\* can be dropped.  It is dpivot's order of drain, wait and stop that gives this,
\* as long as docker compose up re-creates nothing ("recreate").
OwnRouteServed == \A k \in Conns : conn[k].stage = "dropped" => conn[k].via = Seed

\* "Zero connections dropped.": a rollout that reports success has dropped none.
CompletedDropsNone ==
    \A p \in Rollouts, k \in Conns : pc[p] = "done" => conn[k].stage # "dropped"
=============================================================================
