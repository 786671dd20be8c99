------------------------------ MODULE ControlAPI ------------------------------
(***************************************************************************)
(* The control API of the proxy (internal/api/control.go): requests are    *)
(* handled concurrently, each in a goroutine of its own, on one registry.  *)
(* A step of a handler is one registry method together with the code       *)
(* around it; token check, routing and validation touch nothing shared     *)
(* and are one step, Dispatch.  A body that does not parse is one without  *)
(* an address.  The routes that only read and say nothing of a backend's   *)
(* state (/health, /health/live, /metrics) and wrong methods (405) are     *)
(* left out.                                                               *)
(*                                                                         *)
(* The counter that a backend's record points to (requests) is the number  *)
(* of its registration here: it tells the registrations of an id apart.    *)
(***************************************************************************)
EXTENDS FiniteSets, Integers, Registry

CONSTANTS Callers,   \* clients, each with one request at a time
          Ids,       \* backend ids, positive numbers
          Addrs,     \* addresses: an address is the default for an id
          TokenSet,  \* DPIVOT_API_TOKEN is set
          MaxAdds    \* bound: registrations

ASSUME ControlAssumption ==
    /\ Ids \subseteq Nat \ {0}
    /\ Addrs \subseteq Ids
    /\ TokenSet \in BOOLEAN
    /\ MaxAdds \in Nat

VARIABLES store,  \* the registry
          adds,   \* registrations so far
          pc,     \* where the handler of each caller's request is
          req,    \* the request
          ans,    \* its answer: the code, and the registration it drained or removed
          acked   \* history: registrations whose drain or removal was answered

vars == <<store, adds, pc, req, ans, acked>>

NoName   == 0       \* a missing id or addr
NoCode   == 0       \* no answer yet
NoReg    == 0       \* no registration
Guarded  == {"POST", "PUT", "DELETE", "LIST"}     \* behind auth
Ops      == Guarded \cup {"READY"}
NoReq    == [op |-> "none", id |-> NoName, addr |-> NoName, token |-> "none"]
NoAnswer == [code |-> NoCode, reg |-> NoReg]

Init ==
    /\ store = NewRegistry
    /\ adds = 0
    /\ pc = [c \in Callers |-> "idle"]
    /\ req = [c \in Callers |-> NoReq]
    /\ ans = [c \in Callers |-> NoAnswer]
    /\ acked = {}

\* The requests that may still register a backend.
Posting == {c \in Callers : req[c].op = "POST" /\ pc[c] \in {"dispatch", "handle"}}

\* A request with or without a token, an id and an address.
Send(c) ==
    /\ pc[c] = "idle"
    /\ pc' = [pc EXCEPT ![c] = "dispatch"]
    /\ \E op \in Ops, id \in Ids \cup {NoName}, addr \in Addrs \cup {NoName},
          token \in {"none", "wrong", "right"} :
          /\ IF op = "POST" THEN adds + Cardinality(Posting) < MaxAdds ELSE addr = NoName
          /\ op \in {"LIST", "READY"} => id = NoName
          /\ req' = [req EXCEPT ![c] = [op |-> op, id |-> id, addr |-> addr, token |-> token]]
    /\ UNCHANGED <<store, adds, ans, acked>>

Goto(c, to) ==
    /\ pc' = [pc EXCEPT ![c] = to]
    /\ UNCHANGED <<req, ans>>
Answer(c, code, reg) ==
    /\ pc' = [pc EXCEPT ![c] = "answered"]
    /\ ans' = [ans EXCEPT ![c] = [code |-> code, reg |-> reg]]
    /\ UNCHANGED req

\* The backend a request is about: a POST without an id names it by its address.
Target(c) == IF req[c].op = "POST" /\ req[c].id = NoName THEN req[c].addr ELSE req[c].id

Authorised(c) == req[c].op \notin Guarded \/ ~TokenSet \/ req[c].token = "right"

Dispatch(c) ==
    /\ pc[c] = "dispatch"
    /\ \/ /\ ~Authorised(c)
          /\ Answer(c, IF req[c].token = "none" THEN 401 ELSE 403, NoReg)
       \/ /\ Authorised(c)
          /\ \/ req[c].op = "POST" /\ req[c].addr = NoName
             \/ req[c].op \in {"PUT", "DELETE"} /\ req[c].id = NoName
          /\ Answer(c, 400, NoReg)
       \/ /\ Authorised(c)
          /\ \/ req[c].op = "POST" /\ req[c].addr # NoName
             \/ req[c].op \in {"PUT", "DELETE"} /\ req[c].id # NoName
             \/ req[c].op \in {"LIST", "READY"}
          /\ Goto(c, "handle")
    /\ UNCHANGED <<store, adds, acked>>

At(c, op) == pc[c] = "handle" /\ req[c].op = op

\* Mutant: a backend that is there is replaced.
AddOrRevive(c) ==
    /\ At(c, "POST")
    /\ adds' = adds + 1
    /\ store' = Add(Remove(store, Target(c)), Target(c), req[c].addr,
                    IF Target(c) \in DOMAIN store THEN store[Target(c)].requests
                                                  ELSE adds + 1)
    /\ Goto(c, "respond")
    /\ UNCHANGED acked

\* Mutant: all backends count in one counter.
AddShared(c) ==
    /\ At(c, "POST")
    /\ Target(c) \notin DOMAIN store
    /\ adds' = adds + 1
    /\ store' = Add(store, Target(c), req[c].addr, 1)
    /\ Goto(c, "respond")
    /\ UNCHANGED acked

AddBackend(c) ==
    /\ At(c, "POST")
    /\ \/ /\ Target(c) \notin DOMAIN store
          /\ adds' = adds + 1
          /\ store' = Add(store, Target(c), req[c].addr, adds + 1)
          /\ Goto(c, "respond")
       \/ /\ Target(c) \in DOMAIN store
          /\ Answer(c, 409, NoReg)
          /\ UNCHANGED <<store, adds>>
    /\ UNCHANGED acked

\* The backend is read again for the body, which may be another one by then,
\* or none; the code is 201.
Respond(c) ==
    /\ pc[c] = "respond"
    /\ Answer(c, 201, NoReg)
    /\ UNCHANGED <<store, adds, acked>>

DrainBackend(c) ==
    /\ At(c, "PUT")
    /\ store' = SetDraining(store, Target(c))
    /\ IF Target(c) \in DOMAIN store
       THEN Answer(c, 204, store[Target(c)].requests)
       ELSE Answer(c, 404, NoReg)
    /\ UNCHANGED <<adds, acked>>

\* removeBackend drains, best effort, and then
PreDrain(c) ==
    /\ At(c, "DELETE")
    /\ store' = SetDraining(store, Target(c))
    /\ Goto(c, "remove")
    /\ UNCHANGED <<adds, acked>>

\* Mutant: Remove's error is dropped like the pre-drain's.
RemoveBlindly(c) ==
    /\ pc[c] = "remove"
    /\ store' = Remove(store, Target(c))
    /\ Answer(c, 204, NoReg)
    /\ UNCHANGED <<adds, acked>>

\* removes: what is there now, which another request may have registered anew
\* or removed already.
RemoveBackend(c) ==
    /\ pc[c] = "remove"
    /\ store' = Remove(store, Target(c))
    /\ IF Target(c) \in DOMAIN store
       THEN Answer(c, 204, store[Target(c)].requests)
       ELSE Answer(c, 404, NoReg)
    /\ UNCHANGED <<adds, acked>>

ListBackends(c) ==
    /\ At(c, "LIST")
    /\ Answer(c, 200, NoReg)
    /\ UNCHANGED <<store, adds, acked>>

HandleReady(c) ==
    /\ At(c, "READY")
    /\ Answer(c, IF Active(store) # {} THEN 200 ELSE 503, NoReg)
    /\ UNCHANGED <<store, adds, acked>>

\* The caller has its answer.
Return(c) ==
    /\ pc[c] = "answered"
    /\ pc' = [pc EXCEPT ![c] = "idle"]
    /\ req' = [req EXCEPT ![c] = NoReq]
    /\ ans' = [ans EXCEPT ![c] = NoAnswer]
    /\ acked' = acked \cup ({ans[c].reg} \ {NoReg})
    /\ UNCHANGED <<store, adds>>

Next ==
    \E c \in Callers :
        \/ Send(c) \/ Dispatch(c) \/ AddBackend(c) \/ Respond(c) \/ DrainBackend(c)
        \/ PreDrain(c) \/ RemoveBackend(c) \/ ListBackends(c) \/ HandleReady(c)
        \/ Return(c)

Spec == Init /\ [][Next]_vars

-----------------------------------------------------------------------------
(* Properties *)

Steps == {"idle", "dispatch", "handle", "respond", "remove", "answered"}
Codes == {NoCode, 200, 201, 204, 400, 401, 403, 404, 409, 503}

\* Every variable keeps its type; no two backends share a registration, and
\* handlers are only where their operation takes them.
TypeOK ==
    /\ DOMAIN store \subseteq Ids
    /\ adds \in Nat
    /\ \A i \in DOMAIN store :
          store[i] \in [addr : Addrs, draining : BOOLEAN, requests : 1 .. adds]
    /\ \A i, j \in DOMAIN store : store[i].requests = store[j].requests => i = j
    /\ pc \in [Callers -> Steps]
    /\ req \in [Callers -> [op : Ops \cup {"none"}, id : Ids \cup {NoName},
                            addr : Addrs \cup {NoName}, token : {"none", "wrong", "right"}]]
    /\ ans \in [Callers -> [code : Codes, reg : 0 .. adds]]
    /\ acked \subseteq 1 .. adds

\* PUT and DELETE: once a caller has been told 204, the registration it drained
\* or removed never takes a new connection again, whatever POSTs follow or
\* overlap.
AckedStaysOut == \A i \in Active(store) : store[i].requests \notin acked

\* The control API is a BackendService.
statusBar ==
    [i \in Ids |-> IF i \notin DOMAIN store THEN "absent"
                   ELSE IF store[i].draining THEN "draining" ELSE "serving"]
callBar ==
    [c \in Callers |-> [op |-> req[c].op, id |-> Target(c),
                        ans |-> IF pc[c] = "respond" THEN 201 ELSE ans[c].code]]

Service == INSTANCE BackendService WITH status <- statusBar, call <- callBar

\* Every request is answered as if it had taken effect at once, at some moment
\* while it was pending, in spite of the handlers' several steps; only a pending
\* DELETE shows before it takes effect.
ImplementsService == Service!Spec
=============================================================================
