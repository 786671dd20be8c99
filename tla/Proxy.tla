-------------------------------- MODULE Proxy --------------------------------
(***************************************************************************)
(* The proxy process (internal/proxy/server.go, router.go, the counters of *)
(* internal/metrics, and runProxy of cmd/dpivot/main.go) under the control *)
(* API's changes to its registry.  The goroutines are                      *)
(*   main               binds, seeds the registry, waits for SIGTERM and   *)
(*                      runs CloseGraceful,                                *)
(*   one accept loop    per bound port,                                    *)
(*   one handler        per accepted connection: Router.Next, the dial,    *)
(*                      the pipe, and the deferred clean-up.               *)
(* They share the registry, the round-robin counter, the WaitGroup and the *)
(* metrics; a step is what one of them does between two such accesses.     *)
(***************************************************************************)
EXTENDS Integers, FiniteSets, Registry

CONSTANTS Conns,       \* client connections
          Ports,       \* listen ports, numbers
          TargetPort,  \* the container port each is bound to (DPIVOT_BINDS)
          Ids,         \* backend ids, numbers in the order Active sorts them
          Seeds,       \* the ids of DPIVOT_TARGETS
          SeedPort,    \* the container port of their addresses
          MaxAdds,     \* bound: successful registrations
          Ops,         \* the control API calls made: "add", "drain", "remove"
          Faults       \* "bind", "accept" or "dial" errors, "sigterm", "unbind"

ASSUME ProxyAssumption ==
    /\ Ports # {}
    /\ Seeds \subseteq Ids
    /\ Ids \subseteq Nat
    /\ MaxAdds \in Nat
    /\ Ops \subseteq {"add", "drain", "remove"}
    /\ Faults \subseteq {"bind", "accept", "dial", "sigterm", "unbind"}

VARIABLES main,      \* where runProxy is
          open,      \* the ports whose listener is open: Server.listeners
          loop,      \* the accept loop of each port
          conn,      \* the connections
          store,     \* the registry
          adds,      \* registrations so far: counters 1 .. adds are on the heap
          hits,      \* the counters' values
          counter,   \* Router.counter
          wg,        \* Server.activeConns
          metrics,   \* total, active and failed connections
          retired    \* history: the registrations drained or removed so far

vars == <<main, open, loop, conn, store, adds, hits, counter, wg, metrics, retired>>
server   == <<main, open, loop>>
counts   == <<hits, counter, wg, metrics>>
registry == <<store, adds, retired>>

Cells   == 1 .. MaxAdds
Nobody  == [addr |-> 0, requests |-> 0]
NoSnap  == <<>>

\* A connection is "new", queued by the kernel ("queued") or turned away by a
\* closed port ("refused"); accepted, and counted by the accept loop; then its
\* handler takes it from "start" to "closed".
Routing  == {"next", "choose", "lookup", "incr"}
InNext   == Routing \cup {"dial", "piping"}
Handled  == {"start"} \cup InNext \cup {"end", "done"}

Up == main # "exit"

Init ==
    /\ main = "bind"
    /\ open = {}
    /\ loop = [l \in Ports |-> "off"]
    /\ conn = [c \in Conns |-> [pc |-> "new", port |-> 0, snap |-> NoSnap,
                                back |-> Nobody, ptr |-> 0, piped |-> FALSE,
                                avoid |-> {}, among |-> NoSnap]]
    /\ store = NewRegistry
    /\ adds = 0
    /\ hits = [k \in Cells |-> 0]
    /\ counter = 0
    /\ wg = 0
    /\ metrics = [total |-> 0, active |-> 0, failed |-> 0]
    /\ retired = {}

-----------------------------------------------------------------------------
(* The registry, as the control API and the start-up change it. *)

\* Mutant: the counter is not allocated.
RegisterNoCounter(id, addr) ==
    /\ id \notin DOMAIN store
    /\ store' = Add(store, id, addr, adds + 1)
    /\ UNCHANGED <<adds, retired>>

\* A successful Registry.Add allocates the backend's own counter.
Register(id, addr) ==
    /\ adds < MaxAdds
    /\ id \notin DOMAIN store
    /\ adds' = adds + 1
    /\ store' = Add(store, id, addr, adds + 1)
    /\ UNCHANGED retired

ApiUp == main \in {"serve", "close", "wait", "waiting", "drained", "timedout"}

ApiAdd ==
    /\ ApiUp /\ "add" \in Ops
    /\ \E id \in Ids, addr \in {TargetPort[l] : l \in Ports} : Register(id, addr)
    /\ UNCHANGED <<server, conn, counts>>

\* PUT /backends/{id}/drain, and the first half of DELETE /backends/{id}.
ApiDrain ==
    /\ ApiUp /\ "drain" \in Ops
    /\ \E id \in DOMAIN store :
          /\ store' = SetDraining(store, id)
          /\ retired' = retired \cup {store[id].requests}
    /\ UNCHANGED <<server, conn, adds, counts>>

\* The second half: another call may have re-registered the id in between, so
\* what is removed need not be draining.
ApiRemove ==
    /\ ApiUp /\ "remove" \in Ops
    /\ \E id \in DOMAIN store :
          /\ store' = Remove(store, id)
          /\ retired' = retired \cup {store[id].requests}
    /\ UNCHANGED <<server, conn, adds, counts>>

-----------------------------------------------------------------------------
(* runProxy, and the ports. *)

\* Bind opens the listener and starts its accept loop.  A port that cannot be
\* bound ends the proxy.
Bind ==
    /\ main = "bind"
    /\ \E l \in Ports :
          /\ loop[l] = "off"
          /\ \/ /\ open' = open \cup {l}
                /\ loop' = [loop EXCEPT ![l] = "accept"]
                /\ main' = IF \A k \in Ports : loop'[k] # "off" THEN "seed" ELSE "bind"
             \/ /\ "bind" \in Faults
                /\ main' = "exit"
                /\ UNCHANGED <<open, loop>>
    /\ UNCHANGED <<conn, counts, registry>>

\* The initial backends come after the ports: connections are already accepted.
Seed ==
    /\ main = "seed"
    /\ \/ \E id \in Seeds : Register(id, SeedPort) /\ UNCHANGED main
       \/ Seeds \subseteq DOMAIN store /\ main' = "serve" /\ UNCHANGED <<registry>>
    /\ UNCHANGED <<open, loop, conn, counts>>

Sigterm ==
    /\ main = "serve" /\ "sigterm" \in Faults
    /\ main' = "close"
    /\ UNCHANGED <<open, loop, conn, counts, registry>>

\* close(done) and listener.Close of one port: the kernel turns away what it
\* had queued.  What the accept loop already holds it keeps.
Shut(l) ==
    /\ l \in open
    /\ open' = open \ {l}
    /\ conn' = [c \in Conns |->
                  IF conn[c].pc = "queued" /\ conn[c].port = l
                  THEN [conn[c] EXCEPT !.pc = "refused"] ELSE conn[c]]
    /\ UNCHANGED <<loop, counts, registry>>

Unbind ==
    /\ main = "serve" /\ "unbind" \in Faults
    /\ \E l \in Ports : Shut(l)
    /\ UNCHANGED main

CloseListeners ==
    /\ main = "close"
    /\ \/ (\E l \in Ports : Shut(l)) /\ UNCHANGED main
       \/ open = {} /\ main' = "wait" /\ UNCHANGED <<open, conn>>
    /\ UNCHANGED <<loop, counts, registry>>

\* activeConns.Wait, in a goroutine of its own, returns at once or sleeps.
Wait ==
    /\ main = "wait"
    /\ main' = IF wg = 0 THEN "drained" ELSE "waiting"
    /\ UNCHANGED <<open, loop, conn, counts, registry>>

\* CloseGraceful returns when Wait has woken up, or after the timeout.
Drained ==
    /\ main = "waiting" /\ wg = 0
    /\ main' = "drained"
    /\ UNCHANGED <<open, loop, conn, counts, registry>>

\* Mutant: no timeout.
WaitForever ==
    /\ main = "waiting" /\ wg = 0
    /\ main' = "timedout"
    /\ UNCHANGED <<open, loop, conn, counts, registry>>

DrainTimeout ==
    /\ main \in {"wait", "waiting"}
    /\ main' = "timedout"
    /\ UNCHANGED <<open, loop, conn, counts, registry>>

\* srv.Close finds no listener left; the process ends with whatever is open.
Exit ==
    /\ main \in {"drained", "timedout"}
    /\ main' = "exit"
    /\ UNCHANGED <<open, loop, conn, counts, registry>>

-----------------------------------------------------------------------------
(* acceptLoop *)

Connect(c) ==
    /\ conn[c].pc = "new"
    /\ \E l \in open : conn' = [conn EXCEPT ![c].pc = "queued", ![c].port = l]
    /\ UNCHANGED <<server, counts, registry>>

\* avoid is history: what no longer took new connections by now.
Accept(l) ==
    /\ loop[l] = "accept" /\ l \in open
    /\ \E c \in Conns :
          /\ conn[c].pc = "queued" /\ conn[c].port = l
          /\ conn' = [conn EXCEPT ![c].pc = "accepted", ![c].avoid = retired]
    /\ loop' = [loop EXCEPT ![l] = "count"]
    /\ UNCHANGED <<main, open, counts, registry>>

\* A closed listener fails Accept and has its done channel closed; another
\* error is retried after a pause.
AcceptError(l) ==
    /\ loop[l] = "accept"
    /\ \/ l \notin open /\ loop' = [loop EXCEPT ![l] = "stopped"]
       \/ l \in open /\ "accept" \in Faults /\ loop' = [loop EXCEPT ![l] = "pause"]
    /\ UNCHANGED <<main, open, conn, counts, registry>>

Retry(l) ==
    /\ loop[l] = "pause"
    /\ loop' = [loop EXCEPT ![l] = "accept"]
    /\ UNCHANGED <<main, open, conn, counts, registry>>

\* activeConns.Add(1) comes before the handler's goroutine.  An Add that meets
\* the Wait which the last Done is waking up makes sync.WaitGroup panic.
Count(l) ==
    /\ loop[l] = "count"
    /\ \/ /\ wg' = wg + 1
          /\ loop' = [loop EXCEPT ![l] = "spawn"]
          /\ UNCHANGED main
       \/ /\ main = "waiting" /\ wg = 0
          /\ main' = "exit"
          /\ UNCHANGED <<loop, wg>>
    /\ UNCHANGED <<open, conn, hits, counter, metrics, registry>>

Spawn(l) ==
    /\ loop[l] = "spawn"
    /\ \E c \in Conns :
          /\ conn[c].pc = "accepted" /\ conn[c].port = l
          /\ conn' = [conn EXCEPT ![c].pc = "start"]
    /\ loop' = [loop EXCEPT ![l] = "accept"]
    /\ UNCHANGED <<main, open, counts, registry>>

-----------------------------------------------------------------------------
(* handleConn *)

To(c, to) == conn' = [conn EXCEPT ![c].pc = to]

ConnStart(c) ==
    /\ conn[c].pc = "start"
    /\ metrics' = [metrics EXCEPT !.total = @ + 1, !.active = @ + 1]
    /\ To(c, "next")
    /\ UNCHANGED <<server, hits, counter, wg, registry>>

\* Mutant: the round robin is over Backends and not Active.
SnapshotAll(c) ==
    /\ conn[c].pc = "next" /\ DOMAIN store # {}
    /\ conn' = [conn EXCEPT ![c].pc = "choose", ![c].snap = store]
    /\ UNCHANGED <<server, counts, registry>>

\* Mutant: without a backend the connection is kept waiting for one.
AwaitBackend(c) ==
    /\ conn[c].pc = "next" /\ Active(store) # {}
    /\ conn' = [conn EXCEPT ![c].pc = "choose",
                            ![c].snap = [i \in Active(store) |-> store[i]]]
    /\ UNCHANGED <<server, counts, registry>>

\* Router.Next: the snapshot of the active backends, copied by value.
TakeSnapshot(c) ==
    /\ conn[c].pc = "next"
    /\ \/ /\ Active(store) # {}
          /\ conn' = [conn EXCEPT ![c].pc = "choose",
                                  ![c].snap = [i \in Active(store) |-> store[i]]]
          /\ UNCHANGED metrics
       \/ /\ Active(store) = {}
          /\ metrics' = [metrics EXCEPT !.failed = @ + 1]
          /\ To(c, "end")
    /\ UNCHANGED <<server, hits, counter, wg, registry>>

\* Mutant: two connections in a row go to each backend.
NthTwice(ids, n) ==
    CHOOSE i \in ids : Cardinality({j \in ids : j < i}) = (n \div 2) % Cardinality(ids)

\* active[n % len(active)] of the ids in order, n being the counter before
\* the atomic increment.  among is history: the registrations, by id, that
\* there were to choose from.
Nth(ids, n) ==
    CHOOSE i \in ids : Cardinality({j \in ids : j < i}) = n % Cardinality(ids)

Choose(c) ==
    /\ conn[c].pc = "choose"
    /\ LET i == Nth(DOMAIN conn[c].snap, counter)
           b == conn[c].snap[i]
       IN  conn' = [conn EXCEPT ![c].pc = "lookup", ![c].snap = NoSnap,
                                ![c].ptr = i,
                                ![c].among = [j \in DOMAIN conn[c].snap |->
                                                conn[c].snap[j].requests],
                                ![c].back = [addr |-> b.addr, requests |-> b.requests]]
    /\ counter' = counter + 1
    /\ UNCHANGED <<server, hits, wg, metrics, registry>>

\* Mutant: the requests of a draining backend are not counted.
LookupActive(c) ==
    /\ conn[c].pc = "lookup"
    /\ conn' = [conn EXCEPT ![c].pc = "incr",
                            ![c].ptr = IF conn[c].ptr \in Active(store)
                                       THEN store[conn[c].ptr].requests ELSE 0]
    /\ UNCHANGED <<server, counts, registry>>

\* incrRequests finds the counter to increment by the backend's id (kept in
\* ptr), under the read lock; nothing if the id is gone.
LookupCounter(c) ==
    /\ conn[c].pc = "lookup"
    /\ conn' = [conn EXCEPT ![c].pc = "incr",
                            ![c].ptr = IF conn[c].ptr \in DOMAIN store
                                       THEN store[conn[c].ptr].requests ELSE 0]
    /\ UNCHANGED <<server, counts, registry>>

\* and increments it after unlocking.
IncrRequests(c) ==
    /\ conn[c].pc = "incr"
    /\ hits' = [k \in Cells |-> IF k = conn[c].ptr THEN hits[k] + 1 ELSE hits[k]]
    /\ conn' = [conn EXCEPT ![c].pc = "dial", ![c].ptr = 0]
    /\ UNCHANGED <<server, counter, wg, metrics, registry>>

Dial(c) ==
    /\ conn[c].pc = "dial"
    /\ \/ /\ conn' = [conn EXCEPT ![c].pc = "piping", ![c].piped = TRUE]
          /\ UNCHANGED metrics
       \/ /\ "dial" \in Faults
          /\ metrics' = [metrics EXCEPT !.failed = @ + 1]
          /\ To(c, "end")
    /\ UNCHANGED <<server, hits, counter, wg, registry>>

\* Both directions have seen the end of their stream.
PipeEnds(c) ==
    /\ conn[c].pc = "piping"
    /\ To(c, "end")
    /\ UNCHANGED <<server, counts, registry>>

\* Mutant: the early returns miss ConnEnd.
ConnEndIfPiped(c) ==
    /\ conn[c].pc = "end"
    /\ metrics' = IF conn[c].piped THEN [metrics EXCEPT !.active = @ - 1] ELSE metrics
    /\ To(c, "done")
    /\ UNCHANGED <<server, hits, counter, wg, registry>>

\* The deferred function: ConnEnd, Done, Close.
ConnEnd(c) ==
    /\ conn[c].pc = "end"
    /\ metrics' = [metrics EXCEPT !.active = @ - 1]
    /\ To(c, "done")
    /\ UNCHANGED <<server, hits, counter, wg, registry>>

\* Mutant: and activeConns.Done.
DoneIfPiped(c) ==
    /\ conn[c].pc = "done"
    /\ wg' = IF conn[c].piped THEN wg - 1 ELSE wg
    /\ To(c, "closed")
    /\ UNCHANGED <<server, hits, counter, metrics, registry>>

Done(c) ==
    /\ conn[c].pc = "done"
    /\ wg' = wg - 1
    /\ To(c, "closed")
    /\ UNCHANGED <<server, hits, counter, metrics, registry>>

-----------------------------------------------------------------------------
Main == Bind \/ Seed \/ CloseListeners \/ Wait \/ Drained \/ DrainTimeout \/ Exit
Api  == ApiAdd \/ ApiDrain \/ ApiRemove
AcceptLoop(l) ==
    Up /\ (Accept(l) \/ AcceptError(l) \/ Retry(l) \/ Count(l) \/ Spawn(l))

\* What a handler does by itself; the end of a pipe is its peers' doing.
Handler(c) ==
    /\ Up
    /\ \/ ConnStart(c) \/ TakeSnapshot(c) \/ Choose(c) \/ LookupCounter(c)
       \/ IncrRequests(c) \/ Dial(c) \/ ConnEnd(c) \/ Done(c)

Next ==
    \/ Main \/ Sigterm \/ Unbind \/ Api
    \/ \E l \in Ports : AcceptLoop(l)
    \/ \E c \in Conns : Handler(c) \/ (Up /\ (Connect(c) \/ PipeEnds(c)))

Spec == Init /\ [][Next]_vars

\* Goroutines are scheduled and a dial ends within dialTimeout.  An error of
\* Accept, which the loop takes for transient, may come any number of times but
\* not for ever.  Nothing is assumed of the clients, the backends and the control
\* API's callers.
FairSpec ==
    /\ Spec
    /\ WF_vars(Main)
    /\ \A l \in Ports : WF_vars(AcceptLoop(l)) /\ SF_vars(Up /\ Accept(l))
    /\ \A c \in Conns : WF_vars(Handler(c))

-----------------------------------------------------------------------------
(* Properties *)

InState(states) == {c \in Conns : conn[c].pc \in states}

\* Every variable keeps its type; registrations and counters stay in step.
TypeOK ==
    /\ main \in {"bind", "seed", "serve", "close", "wait", "waiting",
                "drained", "timedout", "exit"}
    /\ open \subseteq Ports
    /\ loop \in [Ports -> {"off", "accept", "count", "spawn", "pause", "stopped"}]
    /\ \A c \in Conns :
          /\ conn[c].pc \in {"new", "queued", "refused", "accepted", "closed"} \cup Handled
          /\ conn[c].port \in Ports \cup {0}
          /\ DOMAIN conn[c].snap \subseteq Ids
          /\ conn[c].back.requests \in {0} \cup Cells
          /\ conn[c].avoid \subseteq retired
    /\ DOMAIN store \subseteq Ids
    /\ \A i \in DOMAIN store : store[i].requests \in 1 .. adds
    /\ adds \in 0 .. MaxAdds
    /\ hits \in [Cells -> Nat]
    /\ counter \in Nat /\ wg \in Nat
    /\ metrics \in [total : Nat, active : Nat, failed : Nat]
    /\ retired \subseteq 1 .. adds

\* activeConns: the WaitGroup counts exactly the connections that a handler
\* has, or is about to get, and has not finished with, whatever path it left
\* handleConn by.
WgCounts ==
    wg = Cardinality(InState(Handled)) + Cardinality({l \in Ports : loop[l] = "spawn"})

\* SetDraining, Remove: a connection accepted after a backend was drained or
\* removed is never routed to that registration of it, not even if the
\* snapshot it was chosen from is old when it is used.
DrainedNeverChosen ==
    \A c \in Conns : conn[c].back.requests \notin conn[c].avoid

\* Router.Next: as long as all connections choose from the same registrations,
\* none of these gets two more connections than another, however the handlers'
\* steps interleave.
RoundRobinEven ==
    LET routed(i) == {c \in Conns : conn[c].back.requests = store[i].requests}
        chosen    == {c \in Conns : conn[c].back # Nobody}
        now       == [i \in DOMAIN store |-> store[i].requests]
    IN  (\A c \in chosen : conn[c].among = now) =>
            \A i, j \in DOMAIN store :
                Cardinality(routed(i)) <= Cardinality(routed(j)) + 1

\* "requests is the total number of connections routed to that backend since
\* it was registered", up to the connections still in incrRequests.
RequestsExact ==
    \A i \in DOMAIN store :
        LET routed == {c \in Conns : conn[c].back.requests = store[i].requests}
        IN  hits[store[i].requests] =
               Cardinality(routed) - Cardinality(routed \cap InState({"lookup", "incr"}))

\* The metrics: every accepted connection is counted once, is active until it
\* ends, and has failed if it ends without having reached a backend.
MetricsExact ==
    /\ metrics.total = Cardinality(InState((Handled \ {"start"}) \cup {"closed"}))
    /\ metrics.active = Cardinality(InState(InNext \cup {"end"}))
    /\ metrics.failed = Cardinality({c \in InState({"end", "done", "closed"}) : ~conn[c].piped})

\* "CloseGraceful's Wait() always sees it": when the drain has ended without a
\* timeout no connection that Accept returned is unfinished.
DrainSeesAccepted ==
    main = "drained" => InState({"accepted"} \cup Handled) = {}

\* SIGTERM ends the process even if connections never do.
SigtermExits == main = "close" ~> main = "exit"

\* A connection in an open port's queue is piped to a backend or closed, and is
\* not left hanging by the accept loop, the router or the dial, unless its
\* port is closed or the process ends.
ConnectionsAnswered ==
    \A c \in Conns :
        conn[c].pc = "queued" ~> conn[c].pc \in {"piping", "closed", "refused"} \/ ~Up
=============================================================================
