--------------------------- MODULE ControlAPIProofs ---------------------------
(***************************************************************************)
(* Theorems about ControlAPI, for every set of callers, ids and addresses: *)
(* the registry and the handlers are well typed, an acknowledged drain     *)
(* lasts, and the API implements BackendService.                           *)
(***************************************************************************)
EXTENDS ControlAPI, TLAPS

-----------------------------------------------------------------------------
(* Types, and where a handler is. *)

\* The store part of TypeOK, for a store that holds a registrations.
StoreType(s, a) ==
    /\ DOMAIN s \subseteq Ids
    /\ \A i \in DOMAIN s : s[i] \in [addr : Addrs, draining : BOOLEAN, requests : 1 .. a]
    /\ \A i, j \in DOMAIN s : s[i].requests = s[j].requests => i = j

\* What dispatching has made sure of for the steps after it.
HandlerInv ==
    \A c \in Callers :
        /\ pc[c] = "idle" <=> req[c].op = "none"
        /\ pc[c] = "idle" => req[c] = NoReq
        /\ pc[c] = "answered" <=> ans[c].code # NoCode
        /\ pc[c] # "answered" => ans[c] = NoAnswer
        /\ pc[c] = "handle" /\ req[c].op = "POST" => req[c].addr # NoName
        /\ pc[c] = "handle" /\ req[c].op \in {"PUT", "DELETE"} => req[c].id # NoName
        /\ pc[c] = "respond" => req[c].op = "POST"
        /\ pc[c] = "remove" => req[c].op = "DELETE" /\ req[c].id # NoName

\* No registration that a drain or a removal has been answered for, or is about
\* to be, is in the rotation.
AckInv ==
    \A i \in Active(store) :
        /\ store[i].requests \notin acked
        /\ \A c \in Callers : store[i].requests # ans[c].reg

Inv == TypeOK /\ HandlerInv /\ AckInv

\* Each mutation of the registry keeps a well-typed store well typed.
LEMMA StoreOps ==
    ASSUME NEW a \in Nat, NEW s, StoreType(s, a)
    PROVE  /\ \A id \in Ids, addr \in Addrs : StoreType(Add(s, id, addr, a + 1), a + 1)
           /\ \A id : StoreType(Remove(s, id), a)
           /\ \A id : StoreType(SetDraining(s, id), a)
<1>1. ASSUME NEW id \in Ids, NEW addr \in Addrs
      PROVE  StoreType(Add(s, id, addr, a + 1), a + 1)
  <2> DEFINE t == Add(s, id, addr, a + 1)
  <2>1. DOMAIN t \subseteq Ids
    BY DEF StoreType, Add
  <2>2. ASSUME NEW i \in DOMAIN t
        PROVE  t[i] \in [addr : Addrs, draining : BOOLEAN, requests : 1 .. a + 1]
    BY <2>2 DEF StoreType, Add
  <2>3. ASSUME NEW i \in DOMAIN t, NEW j \in DOMAIN t, t[i].requests = t[j].requests
        PROVE  i = j
    BY <2>3 DEF StoreType, Add
  <2> QED
    BY <2>1, <2>2, <2>3 DEF StoreType
<1>2. ASSUME NEW id
      PROVE  StoreType(Remove(s, id), a)
  BY <1>2 DEF StoreType, Remove
<1>3. ASSUME NEW id
      PROVE  StoreType(SetDraining(s, id), a)
  <2> DEFINE t == SetDraining(s, id)
  <2>1. DOMAIN t = DOMAIN s
    BY DEF SetDraining
  <2>2. ASSUME NEW i \in DOMAIN t
        PROVE  /\ t[i] \in [addr : Addrs, draining : BOOLEAN, requests : 1 .. a]
               /\ t[i].requests = s[i].requests
    BY <2>2 DEF StoreType, SetDraining
  <2> QED
    BY <2>1, <2>2 DEF StoreType
<1> QED
  BY <1>1, <1>2, <1>3

\* Draining and removing take a backend out of the rotation, where the others
\* keep their registrations.
LEMMA DrainActive ==
    ASSUME NEW s, NEW id, NEW t, t = SetDraining(s, id) \/ t = Remove(s, id)
    PROVE  /\ Active(t) = Active(s) \ {id}
           /\ \A i \in Active(t) : i \in Active(s) /\ i # id /\ t[i] = s[i]
<1>1. CASE t = SetDraining(s, id)
  BY <1>1 DEF Active, SetDraining
<1>2. CASE t = Remove(s, id)
  BY <1>2 DEF Active, Remove
<1> QED
  BY <1>1, <1>2

\* Adding puts one backend in, if it is new.
LEMMA AddActive ==
    ASSUME NEW s, NEW id, NEW addr, NEW reg, NEW t, id \notin DOMAIN s,
           t = Add(s, id, addr, reg)
    PROVE  /\ Active(t) = Active(s) \cup {id}
           /\ t[id].requests = reg
           /\ \A i \in Active(t) \ {id} : i \in Active(s) /\ t[i] = s[i]
  BY DEF Active, Add

-----------------------------------------------------------------------------
(* The invariant is inductive. *)

\* The proxy starts with nothing registered and nothing asked.
LEMMA InvInit == Init => Inv
<1> SUFFICES ASSUME Init PROVE Inv
  OBVIOUS
<1>1. DOMAIN store = {}
  BY DEF Init, NewRegistry
<1>2. Active(store) = {}
  BY <1>1 DEF Active
<1>3. TypeOK
  BY <1>1 DEF Init, TypeOK, NoReq, NoAnswer, Steps, Codes, NoName, NoCode, NoReg
<1>4. HandlerInv
  BY DEF Init, HandlerInv, NoReq, NoAnswer, NoName, NoCode, NoReg
<1> QED
  BY <1>2, <1>3, <1>4 DEF Inv, AckInv

\* An answer of the right type, on a well-typed store.
LEMMA AnswerType ==
    ASSUME TypeOK, NEW c \in Callers, NEW code \in Codes, NEW reg \in 0 .. adds,
           Answer(c, code, reg), StoreType(store', adds), UNCHANGED <<adds, acked>>
    PROVE  TypeOK'
  BY DEF Answer, TypeOK, StoreType, Steps

\* No step takes a variable out of its type.
LEMMA TypeStep ==
    ASSUME Inv, NEW c \in Callers,
           \/ Send(c) \/ Dispatch(c) \/ AddBackend(c) \/ Respond(c) \/ DrainBackend(c)
           \/ PreDrain(c) \/ RemoveBackend(c) \/ ListBackends(c) \/ HandleReady(c)
           \/ Return(c)
    PROVE  TypeOK'
<1> USE DEF Goto, Answer, NoName, NoCode, NoReg, Steps, Codes
<1>1. TypeOK /\ StoreType(store, adds)
  BY DEF Inv, TypeOK, StoreType
<1>3. CASE Send(c)
  BY <1>1, <1>3 DEF Send, TypeOK
<1>2. 0 \in 0 .. adds /\ \A i \in DOMAIN store : store[i].requests \in 0 .. adds
  BY <1>1 DEF TypeOK
<1>4. CASE Dispatch(c)
  <2>1. CASE Goto(c, "handle")
    BY <1>1, <1>4, <2>1 DEF Dispatch, TypeOK
  <2>2. CASE \E code \in {400, 401, 403} : Answer(c, code, NoReg)
    <3> HIDE DEF Answer
    <3> QED
      BY <1>1, <1>2, <1>4, <2>2, AnswerType DEF Dispatch
  <2> QED
    BY <1>4, <2>1, <2>2 DEF Dispatch
<1>5. CASE AddBackend(c)
  <2>1. CASE Target(c) \in DOMAIN store
    BY <1>1, <1>5, <2>1 DEF AddBackend, TypeOK
  <2>2. CASE Target(c) \notin DOMAIN store
    <3> req[c].addr \in Addrs
      BY <1>1, <1>5 DEF AddBackend, At, Inv, HandlerInv, TypeOK
    <3>1. Target(c) \in Ids
      <4>1. req[c].op = "POST" /\ req[c].id \in Ids \cup {NoName}
        BY <1>1, <1>5 DEF AddBackend, At, TypeOK
      <4> QED
        BY <4>1, ControlAssumption DEF Target
    <3>2. /\ adds' = adds + 1
          /\ store' = Add(store, Target(c), req[c].addr, adds + 1)
      BY <1>5, <2>2 DEF AddBackend
    <3>3. StoreType(store', adds')
      BY <1>1, <3>1, <3>2, StoreOps DEF TypeOK
    <3> QED
      BY <1>1, <1>5, <2>2, <3>2, <3>3 DEF AddBackend, TypeOK, StoreType
  <2> QED
    BY <2>1, <2>2
<1>6. CASE Respond(c)
  BY <1>1, <1>6 DEF Respond, TypeOK
<1>7. CASE DrainBackend(c)
  <2>1. StoreType(store', adds')
    BY <1>1, <1>7, StoreOps DEF DrainBackend, TypeOK
  <2> HIDE DEF Answer
  <2> QED
    BY <1>1, <1>2, <1>7, <2>1, AnswerType DEF DrainBackend
<1>8. CASE PreDrain(c)
  <2>1. StoreType(store', adds')
    BY <1>1, <1>8, StoreOps DEF PreDrain, TypeOK
  <2> QED
    BY <1>1, <1>8, <2>1 DEF PreDrain, TypeOK, StoreType
<1>9. CASE RemoveBackend(c)
  <2>1. StoreType(store', adds')
    BY <1>1, <1>9, StoreOps DEF RemoveBackend, TypeOK
  <2> HIDE DEF Answer
  <2> QED
    BY <1>1, <1>2, <1>9, <2>1, AnswerType DEF RemoveBackend
<1>10. CASE ListBackends(c)
  BY <1>1, <1>10 DEF ListBackends, TypeOK
<1>11. CASE HandleReady(c)
  <2> HIDE DEF Answer
  <2> QED
    BY <1>1, <1>2, <1>11, AnswerType DEF HandleReady, Codes
<1>12. CASE Return(c)
  <2>1. acked' \subseteq 1 .. adds
    <3>1. ans[c].reg \in 0 .. adds /\ acked \subseteq 1 .. adds /\ adds \in Nat
      BY <1>1 DEF TypeOK
    <3>2. acked' = acked \cup ({ans[c].reg} \ {0})
      BY <1>12 DEF Return
    <3>3. {ans[c].reg} \ {0} \subseteq 1 .. adds
      BY <3>1
    <3> QED
      BY <3>1, <3>2, <3>3
  <2>2. NoAnswer \in [code : Codes, reg : 0 .. adds]
    BY <1>2 DEF NoAnswer
  <2>3. NoReq \in [op : Ops \cup {"none"}, id : Ids \cup {NoName},
                   addr : Addrs \cup {NoName}, token : {"none", "wrong", "right"}]
    BY DEF NoReq
  <2> QED
    BY <1>1, <1>12, <2>1, <2>2, <2>3 DEF Return, TypeOK
<1> QED
  BY <1>3, <1>4, <1>5, <1>6, <1>7, <1>8, <1>9, <1>10, <1>11, <1>12

\* A handler goes where its operation takes it, with what dispatching checked.
LEMMA HandlerStep ==
    ASSUME Inv, NEW c \in Callers,
           \/ Send(c) \/ Dispatch(c) \/ AddBackend(c) \/ Respond(c) \/ DrainBackend(c)
           \/ PreDrain(c) \/ RemoveBackend(c) \/ ListBackends(c) \/ HandleReady(c)
           \/ Return(c)
    PROVE  HandlerInv'
<1> USE DEF Goto, Answer, NoName, NoCode, NoReg, NoReq, NoAnswer
<1>1. TypeOK /\ HandlerInv
  BY DEF Inv
<1>3. CASE Send(c)
  BY <1>1, <1>3 DEF Send, TypeOK, HandlerInv, Ops, Guarded
<1>4. CASE Dispatch(c)
  BY <1>1, <1>4 DEF Dispatch, TypeOK, HandlerInv
<1>5. CASE AddBackend(c)
  BY <1>1, <1>5 DEF AddBackend, At, TypeOK, HandlerInv
<1>6. CASE Respond(c)
  BY <1>1, <1>6 DEF Respond, TypeOK, HandlerInv
<1>7. CASE DrainBackend(c)
  BY <1>1, <1>7 DEF DrainBackend, At, TypeOK, HandlerInv
<1>8. CASE PreDrain(c)
  BY <1>1, <1>8 DEF PreDrain, At, TypeOK, HandlerInv
<1>9. CASE RemoveBackend(c)
  BY <1>1, <1>9 DEF RemoveBackend, TypeOK, HandlerInv
<1>10. CASE ListBackends(c)
  BY <1>1, <1>10 DEF ListBackends, At, TypeOK, HandlerInv
<1>11. CASE HandleReady(c)
  BY <1>1, <1>11 DEF HandleReady, At, TypeOK, HandlerInv
<1>12. CASE Return(c)
  BY <1>1, <1>12 DEF Return, TypeOK, HandlerInv
<1> QED
  BY <1>3, <1>4, <1>5, <1>6, <1>7, <1>8, <1>9, <1>10, <1>11, <1>12

\* No registration enters the rotation after its drain or removal has an answer.
LEMMA AckStep ==
    ASSUME Inv, NEW c \in Callers,
           \/ Send(c) \/ Dispatch(c) \/ AddBackend(c) \/ Respond(c) \/ DrainBackend(c)
           \/ PreDrain(c) \/ RemoveBackend(c) \/ ListBackends(c) \/ HandleReady(c)
           \/ Return(c)
    PROVE  AckInv'
<1> USE DEF Goto, Answer, NoReg
<1>1. TypeOK /\ HandlerInv /\ AckInv
  BY DEF Inv
<1>2. \A i \in DOMAIN store : store[i].requests \in 1 .. adds /\ store[i].requests # NoReg
  BY <1>1 DEF TypeOK
<1>3. CASE UNCHANGED <<store, ans, acked>>
  BY <1>1, <1>3 DEF AckInv
<1>4. CASE Send(c) \/ PreDrain(c)
  <2>1. ans' = ans /\ acked' = acked
    BY <1>4 DEF Send, PreDrain
  <2>2. store' = store \/ store' = SetDraining(store, Target(c))
    BY <1>4 DEF Send, PreDrain
  <2>3. \A i \in Active(store') : i \in Active(store) /\ store'[i] = store[i]
    BY <2>2, DrainActive
  <2> QED
    BY <1>1, <2>1, <2>3 DEF AckInv
<1>5. CASE AddBackend(c) /\ Target(c) \notin DOMAIN store
  <2>1. /\ store' = Add(store, Target(c), req[c].addr, adds + 1)
        /\ ans' = ans /\ acked' = acked
    BY <1>5 DEF AddBackend
  <2>2. adds + 1 \notin acked /\ \A d \in Callers : ans[d].reg # adds + 1
    BY <1>1 DEF TypeOK
  <2>3. store'[Target(c)].requests = adds + 1
    BY <1>5, <2>1, AddActive
  <2>4. \A i \in Active(store') \ {Target(c)} : i \in Active(store) /\ store'[i] = store[i]
    BY <1>5, <2>1, AddActive
  <2> QED
    BY <1>1, <2>1, <2>2, <2>3, <2>4 DEF AckInv
<1>6. CASE \E code : Answer(c, code, NoReg) /\ UNCHANGED <<store, acked>>
  BY <1>1, <1>2, <1>6 DEF AckInv, TypeOK, Active
<1>7. CASE (DrainBackend(c) \/ RemoveBackend(c)) /\ Target(c) \in DOMAIN store
  <2>1. /\ ans'[c].reg = store[Target(c)].requests /\ acked' = acked
        /\ \A d \in Callers \ {c} : ans'[d] = ans[d]
    BY <1>1, <1>7 DEF DrainBackend, RemoveBackend, TypeOK
  <2> store' = SetDraining(store, Target(c)) \/ store' = Remove(store, Target(c))
    BY <1>7 DEF DrainBackend, RemoveBackend
  <2>2. \A i \in Active(store') : /\ i \in Active(store) /\ i # Target(c)
                                 /\ store'[i] = store[i]
    BY DrainActive
  <2>3. \A i \in Active(store') : store[i].requests # store[Target(c)].requests
    BY <1>1, <1>7, <2>2 DEF TypeOK, Active
  <2> QED
    BY <1>1, <2>1, <2>2, <2>3 DEF AckInv
<1>8. CASE (DrainBackend(c) \/ RemoveBackend(c)) /\ Target(c) \notin DOMAIN store
  <2>1. /\ ans'[c].reg = NoReg /\ acked' = acked
        /\ \A d \in Callers \ {c} : ans'[d] = ans[d]
    BY <1>1, <1>8 DEF DrainBackend, RemoveBackend, TypeOK
  <2> store' = SetDraining(store, Target(c)) \/ store' = Remove(store, Target(c))
    BY <1>8 DEF DrainBackend, RemoveBackend
  <2>2. \A i \in Active(store') : /\ i \in Active(store) /\ i # Target(c)
                                 /\ store'[i] = store[i]
    BY DrainActive
  <2> QED
    BY <1>1, <1>2, <2>1, <2>2 DEF AckInv, Active
<1>9. CASE Return(c)
  <2>1. /\ ans'[c].reg = NoReg /\ acked' \subseteq acked \cup {ans[c].reg} /\ store' = store
        /\ \A d \in Callers \ {c} : ans'[d] = ans[d]
    BY <1>1, <1>9 DEF Return, TypeOK, NoAnswer
  <2> QED
    BY <1>1, <1>2, <2>1 DEF AckInv, Active
<1> QED
  BY <1>3, <1>4, <1>5, <1>6, <1>7, <1>8, <1>9 DEF Send, Dispatch, AddBackend, Respond,
     DrainBackend, PreDrain, RemoveBackend, ListBackends, HandleReady

\* The invariant is inductive.
LEMMA InvStep == Inv /\ [Next]_vars => Inv'
<1> SUFFICES ASSUME Inv, [Next]_vars PROVE Inv'
  OBVIOUS
<1>1. ASSUME NEW c \in Callers,
             \/ Send(c) \/ Dispatch(c) \/ AddBackend(c) \/ Respond(c) \/ DrainBackend(c)
             \/ PreDrain(c) \/ RemoveBackend(c) \/ ListBackends(c) \/ HandleReady(c)
             \/ Return(c)
      PROVE  Inv'
  BY <1>1, TypeStep, HandlerStep, AckStep DEF Inv
<1>2. CASE UNCHANGED vars
  BY <1>2 DEF vars, Inv, TypeOK, HandlerInv, AckInv, Active
<1> QED
  BY <1>1, <1>2 DEF Next

\* The invariant holds in every state.
LEMMA Invariance == Spec => []Inv
  BY InvInit, InvStep, PTL DEF Spec

\* The registry and every handler are well typed; no two backends count in one
\* counter, whatever requests overlap.
THEOREM ControlTyped == Spec => []TypeOK
<1>1. Inv => TypeOK
  BY DEF Inv
<1> QED
  BY <1>1, Invariance, PTL

\* PUT and DELETE /backends/{id}: what a caller was told is out of the rotation
\* stays out, for any number of callers and whatever they send.
THEOREM AckedDrainLasts == Spec => []AckedStaysOut
<1>1. Inv => AckedStaysOut
  BY DEF Inv, AckInv, AckedStaysOut
<1> QED
  BY <1>1, Invariance, PTL

-----------------------------------------------------------------------------
(* The control API implements BackendService. *)

\* The proxy starts as the service does.
LEMMA ServiceInit == Init => Service!Init
  BY DEF Init, NewRegistry, Service!Init, statusBar, callBar, Service!Idle, Service!None,
     Service!Wait, Target, NoReq, NoAnswer, NoName, NoCode

\* The mutations of the registry, seen from the service.
LEMMA StatusOps ==
    ASSUME Inv, NEW i \in Ids
    PROVE  /\ UNCHANGED store => statusBar' = statusBar
           /\ store' = SetDraining(store, i) /\ i \in DOMAIN store =>
                 statusBar' = [statusBar EXCEPT ![i] = "draining"]
           /\ store' = SetDraining(store, i) /\ i \notin DOMAIN store => statusBar' = statusBar
           /\ store' = Remove(store, i) /\ i \in DOMAIN store =>
                 statusBar' = [statusBar EXCEPT ![i] = "absent"]
           /\ store' = Remove(store, i) /\ i \notin DOMAIN store => statusBar' = statusBar
           /\ \A addr, reg :
                 store' = Add(store, i, addr, reg) /\ i \notin DOMAIN store =>
                 statusBar' = [statusBar EXCEPT ![i] = "serving"]
<1>1. UNCHANGED store => statusBar' = statusBar
  BY DEF statusBar
<1>2. ASSUME store' = SetDraining(store, i), i \in DOMAIN store
      PROVE  statusBar' = [statusBar EXCEPT ![i] = "draining"]
  <2>1. store'[i].draining = TRUE
    BY <1>2 DEF SetDraining, Inv, TypeOK
  <2>2. /\ DOMAIN store' = DOMAIN store
        /\ \A j \in DOMAIN store \ {i} : store'[j] = store[j]
    BY <1>2 DEF SetDraining
  <2> QED
    BY <1>2, <2>1, <2>2 DEF statusBar
<1>3. ASSUME store' = SetDraining(store, i), i \notin DOMAIN store
      PROVE  statusBar' = statusBar
  BY <1>3 DEF statusBar, SetDraining
<1>4. ASSUME store' = Remove(store, i), i \in DOMAIN store
      PROVE  statusBar' = [statusBar EXCEPT ![i] = "absent"]
  BY <1>4 DEF statusBar, Remove
<1>5. ASSUME store' = Remove(store, i), i \notin DOMAIN store
      PROVE  statusBar' = statusBar
  BY <1>5 DEF statusBar, Remove
<1>6. ASSUME NEW addr, NEW reg, store' = Add(store, i, addr, reg), i \notin DOMAIN store
      PROVE  statusBar' = [statusBar EXCEPT ![i] = "serving"]
  BY <1>6 DEF statusBar, Add
<1> QED
  BY <1>1, <1>2, <1>3, <1>4, <1>5, <1>6

\* What a handler's step does to the calls: it answers one, or nothing.
LEMMA CallOps ==
    ASSUME Inv, NEW c \in Callers
    PROVE  /\ \A code, reg : Answer(c, code, reg) =>
                 callBar' = [callBar EXCEPT ![c].ans = code]
           /\ Goto(c, "respond") => callBar' = [callBar EXCEPT ![c].ans = 201]
           /\ \A to \in Steps \ {"respond"} : Goto(c, to) /\ pc[c] # "respond" =>
                 callBar' = callBar
           /\ callBar[c].op = req[c].op /\ callBar[c].id = Target(c)
           /\ callBar[c].ans = IF pc[c] = "respond" THEN 201 ELSE ans[c].code
<1>1. pc \in [Callers -> Steps] /\ DOMAIN ans = Callers
  BY DEF Inv, TypeOK
<1>2. ASSUME NEW code, NEW reg, Answer(c, code, reg)
      PROVE  callBar' = [callBar EXCEPT ![c].ans = code]
  BY <1>1, <1>2 DEF Answer, callBar, Target
<1>3. ASSUME Goto(c, "respond")
      PROVE  callBar' = [callBar EXCEPT ![c].ans = 201]
  <2>1. pc'[c] = "respond" /\ \A d \in Callers \ {c} : pc'[d] = pc[d]
    BY <1>1, <1>3 DEF Goto
  <2>2. callBar'[c] = [op |-> req[c].op, id |-> Target(c), ans |-> 201]
    BY <1>3, <2>1 DEF Goto, callBar, Target
  <2>3. \A d \in Callers \ {c} : callBar'[d] = callBar[d]
    BY <1>3, <2>1 DEF Goto, callBar, Target
  <2>4. callBar[c].op = req[c].op /\ callBar[c].id = Target(c)
    BY DEF callBar
  <2>5. [callBar[c] EXCEPT !.ans = 201] = callBar'[c]
    BY <2>2, <2>4 DEF callBar
  <2>6. callBar' = [d \in Callers |-> callBar'[d]] /\ callBar = [d \in Callers |-> callBar[d]]
    BY DEF callBar
  <2> QED
    BY <2>3, <2>5, <2>6
<1>4. ASSUME NEW to \in Steps \ {"respond"}, Goto(c, to), pc[c] # "respond"
      PROVE  callBar' = callBar
  <2>1. \A d \in Callers : pc'[d] = "respond" <=> pc[d] = "respond"
    BY <1>1, <1>4 DEF Goto
  <2> QED
    BY <1>4, <2>1 DEF Goto, callBar, Target
<1>5. /\ callBar[c].op = req[c].op /\ callBar[c].id = Target(c)
      /\ callBar[c].ans = IF pc[c] = "respond" THEN 201 ELSE ans[c].code
  BY DEF callBar
<1> QED
  BY <1>2, <1>3, <1>4, <1>5

\* Every step of a handler is a step of the service, or none.
LEMMA Simulation ==
    ASSUME Inv, NEW c \in Callers,
           \/ Send(c) \/ Dispatch(c) \/ AddBackend(c) \/ Respond(c) \/ DrainBackend(c)
           \/ PreDrain(c) \/ RemoveBackend(c) \/ ListBackends(c) \/ HandleReady(c)
           \/ Return(c)
    PROVE  Service!Next \/ UNCHANGED <<statusBar, callBar>>
<1> USE DEF NoName, NoCode, NoReg, Service!None, Service!Wait
<1>1. TypeOK /\ HandlerInv
  BY DEF Inv
<1>2. Target(c) \in Ids \cup {NoName}
  <2>1. req[c].id \in Ids \cup {NoName} /\ req[c].addr \in Addrs \cup {NoName}
    BY <1>1 DEF TypeOK
  <2> QED
    BY <2>1, ControlAssumption DEF Target
<1>3. CASE Send(c)
  <2>1. callBar[c] = Service!Idle
    BY <1>1, <1>3 DEF Send, HandlerInv, callBar, Service!Idle, Target, NoReq, NoAnswer
  <2>2. PICK op \in Ops, id \in Ids \cup {NoName}, addr \in Addrs \cup {NoName},
             token \in {"none", "wrong", "right"} :
           req' = [req EXCEPT ![c] = [op |-> op, id |-> id, addr |-> addr, token |-> token]]
    BY <1>3 DEF Send
  <2> DEFINE target == IF op = "POST" /\ id = NoName THEN addr ELSE id
  <2>3. target \in Ids \cup {NoName}
    BY ControlAssumption
  <2>4. callBar' = [callBar EXCEPT ![c] = [op |-> op, id |-> target, ans |-> NoCode]]
    <3>1. pc'[c] = "dispatch" /\ ans'[c].code = NoCode
      BY <1>1, <1>3 DEF Send, TypeOK, HandlerInv, NoAnswer
    <3>2. req'[c].op = op /\ Target(c)' = target
      BY <1>1, <2>2 DEF TypeOK, Target
    <3>3. ASSUME NEW d \in Callers \ {c}
          PROVE  callBar'[d] = callBar[d]
      BY <1>1, <1>3, <2>2 DEF Send, TypeOK, callBar, Target
    <3> QED
      BY <3>1, <3>2, <3>3 DEF callBar
  <2>5. statusBar' = statusBar
    BY <1>3 DEF Send, statusBar
  <2>6. Service!Ask(c)
    BY <2>1, <2>3, <2>4, <2>5 DEF Service!Ask, Service!Ops, Ops, Guarded
  <2> QED
    BY <2>6 DEF Service!Next
<1> HIDE DEF NoReg
<1>4. ASSUME pc[c] \in Steps \ {"idle", "respond", "answered"}
      PROVE  callBar[c].ans = 0 /\ callBar[c].op = req[c].op /\ callBar[c].id = Target(c)
  BY <1>1, <1>4, CallOps DEF HandlerInv
<1>5. CASE Dispatch(c)
  <2>1. statusBar' = statusBar
    BY <1>5 DEF Dispatch, statusBar
  <2>2. CASE \E code \in {400, 401, 403} : Answer(c, code, NoReg)
    <3>1. callBar[c].op \in Service!Ops /\ callBar[c].ans = 0
      BY <1>1, <1>4, <1>5 DEF Dispatch, Steps, TypeOK, HandlerInv, Service!Ops, Ops, Guarded
    <3>2. Service!Refuse(c)
      BY <2>1, <2>2, <3>1, CallOps DEF Service!Refuse, Service!Answer
    <3> QED
      BY <3>2 DEF Service!Next
  <2>3. CASE Goto(c, "handle")
    BY <1>5, <2>1, <2>3, CallOps DEF Dispatch, Steps
  <2> QED
    BY <1>5, <2>2, <2>3 DEF Dispatch
<1>6. CASE AddBackend(c)
  <2>1. callBar[c].op = "POST" /\ callBar[c].ans = 0 /\ callBar[c].id = Target(c)
    BY <1>4, <1>6 DEF AddBackend, At, Steps
  <2>2. Target(c) \in Ids
    BY <1>1, <1>2, <1>6, ControlAssumption DEF AddBackend, At, HandlerInv, Target, TypeOK
  <2>3. Service!Post(c)
    <3>1. CASE Target(c) \in DOMAIN store
      BY <1>6, <2>1, <2>2, <3>1, StatusOps, CallOps DEF AddBackend, Service!Post,
         Service!Pending, Service!There, Service!Answer, statusBar
    <3>2. CASE Target(c) \notin DOMAIN store
      <4>1. callBar' = [callBar EXCEPT ![c].ans = 201]
        BY <1>6, <3>2, CallOps DEF AddBackend
      <4>2. statusBar' = [statusBar EXCEPT ![Target(c)] = "serving"]
        BY <1>6, <2>2, <3>2, StatusOps DEF AddBackend
      <4> QED
        BY <2>1, <2>2, <3>2, <4>1, <4>2 DEF Service!Post, Service!Pending, Service!There,
           Service!Answer, Service!Become, statusBar
    <3> QED
      BY <3>1, <3>2
  <2> QED
    BY <2>3 DEF Service!Next
<1>7. CASE Respond(c)
  <2>1. statusBar' = statusBar
    BY <1>7 DEF Respond, statusBar
  <2>2. /\ pc'[c] = "answered" /\ ans'[c].code = 201 /\ req' = req
        /\ \A d \in Callers \ {c} : pc'[d] = pc[d] /\ ans'[d] = ans[d]
    BY <1>1, <1>7 DEF Respond, Answer, TypeOK
  <2>3. callBar' = callBar
    BY <1>7, <2>2 DEF Respond, callBar, Target
  <2> QED
    BY <2>1, <2>3
<1>8. CASE DrainBackend(c)
  <2>1. callBar[c].op = "PUT" /\ callBar[c].ans = 0 /\ callBar[c].id = Target(c)
    BY <1>4, <1>8 DEF DrainBackend, At, Steps
  <2>2. Target(c) \in Ids
    BY <1>1, <1>2, <1>8 DEF DrainBackend, At, HandlerInv, Target
  <2>3. Service!Put(c)
    <3>1. CASE Target(c) \in DOMAIN store
      <4>1. callBar' = [callBar EXCEPT ![c].ans = 204]
        BY <1>8, <3>1, CallOps DEF DrainBackend
      <4>2. statusBar' = [statusBar EXCEPT ![Target(c)] = "draining"]
        BY <1>8, <2>2, <3>1, StatusOps DEF DrainBackend
      <4> QED
        BY <2>1, <2>2, <3>1, <4>1, <4>2 DEF Service!Put, Service!Pending, Service!There,
           Service!Answer, Service!Become, statusBar
    <3>2. CASE Target(c) \notin DOMAIN store
      <4>1. callBar' = [callBar EXCEPT ![c].ans = 404]
        BY <1>8, <3>2, CallOps DEF DrainBackend
      <4>2. statusBar' = statusBar
        BY <1>8, <2>2, <3>2, StatusOps DEF DrainBackend
      <4> QED
        BY <2>1, <2>2, <3>2, <4>1, <4>2 DEF Service!Put, Service!Pending, Service!There,
           Service!Answer, statusBar
    <3> QED
      BY <3>1, <3>2
  <2> QED
    BY <2>3 DEF Service!Next
<1>9. CASE PreDrain(c)
  <2>1. callBar[c].op = "DELETE" /\ callBar[c].ans = 0 /\ callBar[c].id = Target(c)
    BY <1>4, <1>9 DEF PreDrain, At, Steps
  <2>2. Target(c) \in Ids
    BY <1>1, <1>2, <1>9 DEF PreDrain, At, HandlerInv, Target
  <2>3. callBar' = callBar
    BY <1>9, CallOps DEF PreDrain, At, Steps
  <2>4. CASE Target(c) \in DOMAIN store
    <3>1. Service!PreDrain(c)
      BY <1>9, <2>1, <2>2, <2>3, <2>4, StatusOps DEF PreDrain, Service!PreDrain,
         Service!Pending, Service!There, Service!Become, statusBar
    <3> QED
      BY <3>1 DEF Service!Next
  <2>5. CASE Target(c) \notin DOMAIN store
    BY <1>9, <2>2, <2>3, <2>5, StatusOps DEF PreDrain
  <2> QED
    BY <2>4, <2>5
<1>10. CASE RemoveBackend(c)
  <2>1. callBar[c].op = "DELETE" /\ callBar[c].ans = 0 /\ callBar[c].id = Target(c)
    BY <1>1, <1>4, <1>10 DEF RemoveBackend, HandlerInv, Steps
  <2>2. Target(c) \in Ids
    BY <1>1, <1>2, <1>10 DEF RemoveBackend, HandlerInv, Target
  <2>3. Service!Delete(c)
    <3>1. CASE Target(c) \in DOMAIN store
      <4>1. callBar' = [callBar EXCEPT ![c].ans = 204]
        BY <1>10, <3>1, CallOps DEF RemoveBackend
      <4>2. statusBar' = [statusBar EXCEPT ![Target(c)] = "absent"]
        BY <1>10, <2>2, <3>1, StatusOps DEF RemoveBackend
      <4> QED
        BY <2>1, <2>2, <3>1, <4>1, <4>2 DEF Service!Delete, Service!Pending, Service!There,
           Service!Answer, Service!Become, statusBar
    <3>2. CASE Target(c) \notin DOMAIN store
      <4>1. callBar' = [callBar EXCEPT ![c].ans = 404]
        BY <1>10, <3>2, CallOps DEF RemoveBackend
      <4>2. statusBar' = statusBar
        BY <1>10, <2>2, <3>2, StatusOps DEF RemoveBackend
      <4> QED
        BY <2>1, <2>2, <3>2, <4>1, <4>2 DEF Service!Delete, Service!Pending, Service!There,
           Service!Answer, statusBar
    <3> QED
      BY <3>1, <3>2
  <2> QED
    BY <2>3 DEF Service!Next
<1>11. CASE ListBackends(c)
  <2>1. callBar[c].op = "LIST" /\ callBar[c].ans = 0 /\ statusBar' = statusBar
    BY <1>4, <1>11 DEF ListBackends, At, Steps, statusBar
  <2>2. Service!List(c)
    BY <1>11, <2>1, CallOps DEF ListBackends, Service!List, Service!Pending, Service!Answer
  <2> QED
    BY <2>2 DEF Service!Next
<1>12. CASE HandleReady(c)
  <2>1. callBar[c].op = "READY" /\ callBar[c].ans = 0 /\ statusBar' = statusBar
    BY <1>4, <1>12 DEF HandleReady, At, Steps, statusBar
  <2>2. Active(store) # {} <=> \E i \in Ids : statusBar[i] = "serving"
    BY <1>1 DEF TypeOK, Active, statusBar
  <2>3. callBar' = [callBar EXCEPT ![c].ans =
                      IF \E i \in Ids : statusBar[i] = "serving" THEN 200 ELSE 503]
    BY <1>12, <2>2, CallOps DEF HandleReady
  <2>4. Service!Ready(c)
    BY <2>1, <2>3 DEF Service!Ready, Service!Pending, Service!Answer
  <2> QED
    BY <2>4 DEF Service!Next
<1>13. CASE Return(c)
  <2>1. statusBar' = statusBar
    BY <1>13 DEF Return, statusBar
  <2>2. callBar[c].ans # 0
    BY <1>1, <1>13, CallOps DEF Return, HandlerInv
  <2>3. callBar' = [callBar EXCEPT ![c] = Service!Idle]
    <3>1. /\ pc'[c] = "idle" /\ req'[c] = NoReq /\ ans'[c] = NoAnswer
          /\ \A d \in Callers \ {c} : pc'[d] = pc[d] /\ req'[d] = req[d] /\ ans'[d] = ans[d]
      BY <1>1, <1>13 DEF Return, TypeOK
    <3>2. callBar'[c] = Service!Idle
      BY <3>1 DEF callBar, Target, Service!Idle, NoReq, NoAnswer
    <3>3. \A d \in Callers \ {c} : callBar'[d] = callBar[d]
      BY <3>1 DEF callBar, Target
    <3>4. callBar' = [d \in Callers |-> callBar'[d]] /\ callBar = [d \in Callers |-> callBar[d]]
      BY DEF callBar
    <3> QED
      BY <3>2, <3>3, <3>4
  <2>4. Service!Return(c)
    BY <2>1, <2>2, <2>3 DEF Service!Return
  <2> QED
    BY <2>4 DEF Service!Next
<1> QED
  BY <1>3, <1>5, <1>6, <1>7, <1>8, <1>9, <1>10, <1>11, <1>12, <1>13

\* Whatever requests overlap, each is answered as if it took effect at once.
THEOREM ServiceImplemented == Spec => ImplementsService
<1>1. Inv /\ [Next]_vars => [Service!Next]_<<statusBar, callBar>>
  <2> SUFFICES ASSUME Inv, [Next]_vars PROVE [Service!Next]_<<statusBar, callBar>>
    OBVIOUS
  <2>1. CASE Next
    BY <2>1, Simulation DEF Next
  <2>2. CASE UNCHANGED vars
    BY <2>2 DEF vars, statusBar, callBar, Target
  <2> QED
    BY <2>1, <2>2
<1> QED
  BY <1>1, ServiceInit, Invariance, PTL DEF Spec, ImplementsService, Service!Spec, Service!vars
=============================================================================
