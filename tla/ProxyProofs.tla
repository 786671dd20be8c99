----------------------------- MODULE ProxyProofs -----------------------------
(***************************************************************************)
(* Theorems about Proxy, for any number of connections, ports, backends    *)
(* and registrations: type correctness, that the WaitGroup and the metrics *)
(* count exactly what they are meant to, that a drained backend is never   *)
(* chosen, that round robin is even, and that requests are not lost.       *)
(***************************************************************************)
EXTENDS Proxy, FiniteSetTheorems, TLAPS

-----------------------------------------------------------------------------
(* Types, with the shape of what TypeOK only names the parts of. *)

Mains == {"bind", "seed", "serve", "close", "wait", "waiting",
          "drained", "timedout", "exit"}
Loops == {"off", "accept", "count", "spawn", "pause", "stopped"}
Stages == {"new", "queued", "refused", "accepted", "closed"} \cup Handled
Addrs == {0, SeedPort} \cup {TargetPort[l] : l \in Ports}
Backend == [addr : Addrs, draining : BOOLEAN, requests : Cells]
IdSets == {S \in SUBSET Ids : IsFiniteSet(S)}
Stores == UNION {[S -> Backend] : S \in IdSets}
Choices == UNION {[S -> Cells] : S \in IdSets}

Connection ==
    [pc : Stages, port : Ports \cup {0}, snap : Stores,
     back : [addr : Addrs, requests : {0} \cup Cells],
     ptr : {0} \cup Ids \cup Cells, piped : BOOLEAN,
     avoid : SUBSET Cells, among : Choices]

Shape ==
    /\ main \in Mains
    /\ open \subseteq Ports
    /\ loop \in [Ports -> Loops]
    /\ conn \in [Conns -> Connection]
    /\ store \in Stores
    /\ adds \in 0 .. MaxAdds
    /\ hits \in [Cells -> Nat]
    /\ counter \in Nat
    /\ wg \in Int
    /\ metrics \in [total : Int, active : Int, failed : Int]
    /\ retired \subseteq 1 .. adds
    /\ \A i \in DOMAIN store : store[i].requests \in 1 .. adds

\* router.go: Next gives up when there is no active backend, so there is always
\* one to choose from in the snapshot it keeps.
Chooses == \A c \in Conns : conn[c].pc = "choose" => DOMAIN conn[c].snap # {}

\* registry.go: each mutation keeps a well-typed store well typed, and so does
\* the snapshot of the active backends.
LEMMA StoreOps ==
    ASSUME NEW s \in Stores
    PROVE  /\ \A id \in Ids, addr \in Addrs, k \in Cells : Add(s, id, addr, k) \in Stores
           /\ \A id : Remove(s, id) \in Stores
           /\ \A id : SetDraining(s, id) \in Stores
           /\ [i \in Active(s) |-> s[i]] \in Stores
<1>0. PICK S \in SUBSET Ids : s \in [S -> Backend] /\ IsFiniteSet(S)
  BY DEF Stores, IdSets
<1>a. \A T \in SUBSET Ids : \A t : t \in [T -> Backend] /\ IsFiniteSet(T) => t \in Stores
  BY DEF Stores, IdSets
<1>1. ASSUME NEW id \in Ids, NEW addr \in Addrs, NEW k \in Cells
      PROVE  Add(s, id, addr, k) \in Stores
  <2>1. CASE id \in S
    BY <1>0, <1>a, <2>1 DEF Add
  <2>2. CASE id \notin S
    <3>1. Add(s, id, addr, k) \in [S \cup {id} -> Backend]
      BY <1>0, <2>2 DEF Add, Backend
    <3>2. IsFiniteSet(S \cup {id})
      BY <1>0, FS_AddElement
    <3> QED
      BY <1>a, <3>1, <3>2
  <2> QED
    BY <2>1, <2>2
<1>2. ASSUME NEW id
      PROVE  Remove(s, id) \in Stores
  <2>1. Remove(s, id) \in [S \ {id} -> Backend]
    BY <1>0 DEF Remove
  <2>2. IsFiniteSet(S \ {id})
    BY <1>0, FS_RemoveElement
  <2> QED
    BY <1>a, <2>1, <2>2
<1>3. ASSUME NEW id
      PROVE  SetDraining(s, id) \in Stores
  <2>1. SetDraining(s, id) \in [S -> Backend]
    BY <1>0 DEF SetDraining, Backend
  <2> QED
    BY <1>0, <1>a, <2>1
<1>4. /\ [i \in Active(s) |-> s[i]] \in [Active(s) -> Backend]
      /\ Active(s) \in SUBSET Ids
      /\ Active(s) \subseteq S
  BY <1>0 DEF Active
<1>5. IsFiniteSet(Active(s))
  BY <1>0, <1>4, FS_Subset
<1> QED
  BY <1>a, <1>1, <1>2, <1>3, <1>4, <1>5

\* What there is to know of a store.
LEMMA StoreType ==
    ASSUME NEW s \in Stores
    PROVE  /\ DOMAIN s \subseteq Ids
           /\ IsFiniteSet(DOMAIN s)
           /\ s = [i \in DOMAIN s |-> s[i]]
           /\ \A i \in DOMAIN s : s[i] \in Backend
BY DEF Stores, IdSets

\* A connection that has no snapshot has an empty one.
LEMMA EmptyStore == NoSnap \in Stores /\ NewRegistry \in Stores /\ NoSnap \in Choices
<1>1. IsFiniteSet({}) /\ {} \in IdSets
  BY FS_EmptySet DEF IdSets
<1>2. NoSnap \in [{} -> Backend] /\ NoSnap \in [{} -> Cells]
  BY DEF NoSnap
<1>3. NewRegistry \in [{} -> Backend]
  BY DEF NewRegistry
<1> QED
  BY <1>1, <1>2, <1>3 DEF Stores, Choices

\* router.go: the backends in the order Active sorts them have the ranks
\* 0, 1, 2, ..., so the round robin always finds the one whose turn it is.
Rank(ids, i) == Cardinality({j \in ids : j < i})

LEMMA RankIn ==
    ASSUME NEW ids, ids \subseteq Nat, IsFiniteSet(ids), NEW i \in ids
    PROVE  Rank(ids, i) \in 0 .. Cardinality(ids) - 1
<1> DEFINE below == {j \in ids : j < i}
<1>1. below \subseteq ids /\ below # ids
  OBVIOUS
<1>2. IsFiniteSet(below) /\ Cardinality(below) <= Cardinality(ids)
      /\ Cardinality(below) # Cardinality(ids)
  BY <1>1, FS_Subset
<1>3. Cardinality(below) \in Nat /\ Cardinality(ids) \in Nat
  BY <1>2, FS_CardinalityType
<1> QED
  BY <1>2, <1>3 DEF Rank

LEMMA RankInjective ==
    ASSUME NEW ids, ids \subseteq Nat, IsFiniteSet(ids), NEW i \in ids, NEW k \in ids, i < k
    PROVE  Rank(ids, i) # Rank(ids, k)
<1> DEFINE low == {j \in ids : j < i}
           high == {j \in ids : j < k}
<1>1. low \subseteq high /\ low # high /\ high \subseteq ids
  <2>1. i \in high /\ i \notin low
    OBVIOUS
  <2>2. \A j \in ids : j < i => j < k
    OBVIOUS
  <2> QED
    BY <2>1, <2>2
<1> HIDE DEF low, high
<1>2. IsFiniteSet(high)
  BY <1>1, FS_Subset
<1>3. Cardinality(high) # Cardinality(low)
  BY <1>1, <1>2, FS_Subset
<1> QED
  BY <1>3 DEF Rank, low, high

LEMMA NthRank ==
    ASSUME NEW ids, ids \subseteq Nat, IsFiniteSet(ids), ids # {}, NEW n \in Nat
    PROVE  /\ Cardinality(ids) \in Nat \ {0}
           /\ Nth(ids, n) \in ids
           /\ Rank(ids, Nth(ids, n)) = n % Cardinality(ids)
<1> DEFINE m == Cardinality(ids)
           t == n % m
<1>1. m \in Nat \ {0}
  BY FS_CardinalityType, FS_EmptySet
<1> HIDE DEF m
<1>2. t \in 0 .. m - 1
  BY <1>1
<1> HIDE DEF t
<1>3. \E i \in ids : Rank(ids, i) = t
  <2> SUFFICES ASSUME \A i \in ids : Rank(ids, i) # t
               PROVE  FALSE
    OBVIOUS
  <2> DEFINE T == (0 .. m - 1) \ {t}
             f == [i \in ids |-> Rank(ids, i)]
  <2>1. IsFiniteSet(T) /\ Cardinality(T) = m - 1
    <3>1. IsFiniteSet(0 .. m - 1) /\ Cardinality(0 .. m - 1) = m
      BY <1>1, FS_Interval
    <3> QED
      BY <1>2, <3>1, FS_RemoveElement
  <2>2. f \in [ids -> T]
    BY RankIn DEF m
  <2>3. Cardinality(T) < Cardinality(ids)
    BY <1>1, <2>1 DEF m
  <2> HIDE DEF T, f
  <2>4. \E x, y \in ids : x # y /\ f[x] = f[y]
    BY <2>1, <2>2, <2>3, FS_PigeonHole
  <2>5. PICK x \in ids, y \in ids : x < y /\ f[x] = f[y]
    BY <2>4
  <2> QED
    BY <2>5, RankInjective DEF f
<1>4. PICK i \in ids : Cardinality({j \in ids : j < i}) = n % Cardinality(ids)
  BY <1>3 DEF Rank, t, m
<1>5. /\ Nth(ids, n) \in ids
      /\ Cardinality({j \in ids : j < Nth(ids, n)}) = n % Cardinality(ids)
  BY <1>4 DEF Nth
<1> QED
  BY <1>1, <1>5 DEF Rank, m

\* A connection that is replaced by a well-typed one.
LEMMA Retype ==
    ASSUME NEW c \in Conns, conn \in [Conns -> Connection], NEW r \in Connection,
           conn' = [conn EXCEPT ![c] = r]
    PROVE  conn' \in [Conns -> Connection]
OBVIOUS

\* A successful registration, by the control API or at the start, keeps the
\* registry's types.
LEMMA ShapeRegister ==
    ASSUME Shape, NEW id \in Ids, NEW addr \in Addrs, Register(id, addr)
    PROVE  /\ store' \in Stores
           /\ adds' \in 0 .. MaxAdds
           /\ retired' \subseteq 1 .. adds'
           /\ \A i \in DOMAIN store' : store'[i].requests \in 1 .. adds'
<1>1. adds + 1 \in Cells /\ adds' = adds + 1 /\ adds' \in 0 .. MaxAdds
  BY ProxyAssumption DEF Register, Shape, Cells
<1>2. store' \in Stores
  BY <1>1, StoreOps DEF Register, Shape
<1>3. ASSUME NEW i \in DOMAIN store'
      PROVE  store'[i].requests \in 1 .. adds'
  BY <1>1, <1>3, ProxyAssumption DEF Register, Add, Shape
<1> QED
  BY <1>1, <1>2, <1>3 DEF Register, Shape

\* One call of the control API keeps every variable's type.
LEMMA ShapeApi == Shape /\ Api => Shape'
<1> SUFFICES ASSUME Shape, Api PROVE Shape'
  OBVIOUS
<1>1. CASE ApiAdd
  <2>1. PICK id \in Ids, addr \in {TargetPort[l] : l \in Ports} : Register(id, addr)
    BY <1>1 DEF ApiAdd
  <2>2. /\ store' \in Stores /\ adds' \in 0 .. MaxAdds /\ retired' \subseteq 1 .. adds'
        /\ \A i \in DOMAIN store' : store'[i].requests \in 1 .. adds'
    BY <2>1, ShapeRegister DEF Addrs
  <2> QED
    BY <1>1, <2>2 DEF ApiAdd, Shape, server, counts
<1>2. ASSUME NEW id \in DOMAIN store,
             store' = SetDraining(store, id) \/ store' = Remove(store, id),
             retired' = retired \cup {store[id].requests},
             UNCHANGED <<server, conn, adds, counts>>
      PROVE  Shape'
  <2>1. store' \in Stores
    BY <1>2, StoreOps DEF Shape
  <2>2. ASSUME NEW i \in DOMAIN store'
        PROVE  i \in DOMAIN store /\ store'[i].requests = store[i].requests
    <3>1. store[i] \in Backend \/ i \notin DOMAIN store
      BY StoreType DEF Shape
    <3> QED
      BY <1>2, <2>2, <3>1 DEF SetDraining, Remove, Backend
  <2> QED
    BY <1>2, <2>1, <2>2 DEF Shape, server, counts
<1> QED
  BY <1>1, <1>2 DEF Api, ApiDrain, ApiRemove

\* One step of runProxy keeps every variable's type.
LEMMA ShapeMain == Shape /\ (Main \/ Sigterm \/ Unbind) => Shape'
<1> SUFFICES ASSUME Shape, Main \/ Sigterm \/ Unbind PROVE Shape'
  OBVIOUS
<1> USE DEF Mains, Loops, counts, registry
<1>1. CASE Bind
  BY <1>1 DEF Bind, Shape
<1>2. CASE Seed
  <2>1. CASE \E id \in Seeds : Register(id, SeedPort) /\ UNCHANGED main
    <3>1. /\ store' \in Stores /\ adds' \in 0 .. MaxAdds /\ retired' \subseteq 1 .. adds'
          /\ \A i \in DOMAIN store' : store'[i].requests \in 1 .. adds'
      BY <2>1, ShapeRegister, ProxyAssumption DEF Addrs
    <3> QED
      BY <1>2, <2>1, <3>1 DEF Seed, Shape
  <2>2. CASE main' = "serve" /\ UNCHANGED registry
    BY <1>2, <2>2 DEF Seed, Shape
  <2> QED
    BY <1>2, <2>1, <2>2 DEF Seed
<1>3. ASSUME NEW l \in Ports, Shut(l)
      PROVE  conn' \in [Conns -> Connection] /\ open' \subseteq Ports
  <2>1. ASSUME NEW c \in Conns
        PROVE  [conn[c] EXCEPT !.pc = "refused"] \in Connection
    BY DEF Shape, Connection, Stages
  <2> QED
    BY <1>3, <2>1 DEF Shut, Shape
<1>4. CASE Unbind
  BY <1>3, <1>4 DEF Unbind, Shut, Shape
<1>5. CASE CloseListeners
  BY <1>3, <1>5 DEF CloseListeners, Shut, Shape
<1>6. CASE Wait \/ Drained \/ DrainTimeout \/ Exit \/ Sigterm
  BY <1>6 DEF Wait, Drained, DrainTimeout, Exit, Sigterm, Shape
<1> QED
  BY <1>1, <1>2, <1>4, <1>5, <1>6 DEF Main

\* One step of an accept loop, or a client that connects, keeps every
\* variable's type.
LEMMA ShapeAccept ==
    ASSUME Shape, (\E l \in Ports : AcceptLoop(l)) \/ (\E c \in Conns : Connect(c))
    PROVE  Shape'
<1> USE DEF Mains, Loops, server, counts, registry
<1>1. ASSUME NEW c \in Conns, Connect(c)
      PROVE  Shape'
  <2>1. PICK l \in open : conn' = [conn EXCEPT ![c] = [@ EXCEPT !.pc = "queued", !.port = l]]
    BY <1>1 DEF Connect, Shape
  <2>2. [conn[c] EXCEPT !.pc = "queued", !.port = l] \in Connection
    BY <2>1 DEF Shape, Connection, Stages
  <2>3. conn' \in [Conns -> Connection]
    BY <2>1, <2>2, Retype DEF Shape
  <2> QED
    BY <1>1, <2>3 DEF Connect, Shape
<1>2. ASSUME NEW l \in Ports, Accept(l)
      PROVE  Shape'
  <2>1. PICK c \in Conns :
           conn' = [conn EXCEPT ![c] = [@ EXCEPT !.pc = "accepted", !.avoid = retired]]
    BY <1>2 DEF Accept
  <2>2. retired \subseteq Cells
    BY ProxyAssumption DEF Shape, Cells
  <2>3. [conn[c] EXCEPT !.pc = "accepted", !.avoid = retired] \in Connection
    BY <2>1, <2>2 DEF Shape, Connection, Stages
  <2>4. conn' \in [Conns -> Connection]
    BY <2>1, <2>3, Retype DEF Shape
  <2> QED
    BY <1>2, <2>4 DEF Accept, Shape
<1>3. ASSUME NEW l \in Ports, AcceptError(l) \/ Retry(l)
      PROVE  Shape'
  BY <1>3 DEF AcceptError, Retry, Shape
<1>4. ASSUME NEW l \in Ports, Count(l)
      PROVE  Shape'
  BY <1>4 DEF Count, Shape
<1>5. ASSUME NEW l \in Ports, Spawn(l)
      PROVE  Shape'
  <2>1. PICK c \in Conns : conn' = [conn EXCEPT ![c] = [@ EXCEPT !.pc = "start"]]
    BY <1>5 DEF Spawn
  <2>2. [conn[c] EXCEPT !.pc = "start"] \in Connection
    BY <2>1 DEF Shape, Connection, Stages, Handled
  <2>3. conn' \in [Conns -> Connection]
    BY <2>1, <2>2, Retype DEF Shape
  <2> QED
    BY <1>5, <2>3 DEF Spawn, Shape
<1> QED
  BY <1>1, <1>2, <1>3, <1>4, <1>5 DEF AcceptLoop

\* One step of a connection's handler keeps every variable's type.
LEMMA ShapeHandler ==
    ASSUME Shape, Chooses, NEW c \in Conns, Handler(c) \/ PipeEnds(c)
    PROVE  Shape'
<1> USE DEF Mains, Loops, server, counts, registry
<1>0. conn[c] \in Connection
  BY DEF Shape
<1>a. \A to \in Stages : To(c, to) => conn' \in [Conns -> Connection]
  <2>1. ASSUME NEW to \in Stages, To(c, to)
        PROVE  conn' \in [Conns -> Connection]
    <3>1. [conn[c] EXCEPT !.pc = to] \in Connection
      BY <1>0 DEF Connection
    <3> QED
      BY <2>1, <3>1, Retype DEF To, Shape
  <2> QED
    BY <2>1
<1>b. {"next", "end", "done", "closed"} \subseteq Stages
  BY DEF Stages, Handled, InNext, Routing
<1>1. CASE ConnStart(c)
  <2>1. metrics' \in [total : Int, active : Int, failed : Int]
    <3>1. metrics.total + 1 \in Int /\ metrics.active + 1 \in Int
      BY DEF Shape
    <3> QED
      BY <1>1, <3>1 DEF ConnStart, Shape
  <2> QED
    BY <1>1, <1>a, <1>b, <2>1 DEF ConnStart, Shape
<1>2. CASE TakeSnapshot(c)
  <2>1. CASE To(c, "end")
    BY <1>2, <1>a, <1>b, <2>1 DEF TakeSnapshot, Shape
  <2>2. CASE /\ conn' = [conn EXCEPT ![c].pc = "choose",
                                     ![c].snap = [i \in Active(store) |-> store[i]]]
             /\ UNCHANGED metrics
    <3> DEFINE s == [i \in Active(store) |-> store[i]]
    <3>1. s \in Stores
      BY StoreOps DEF Shape
    <3> HIDE DEF s
    <3>2. [conn[c] EXCEPT !.pc = "choose", !.snap = s] \in Connection
      BY <1>0, <3>1 DEF Connection, Stages, Handled, InNext, Routing
    <3>3. conn' = [conn EXCEPT ![c] = [conn[c] EXCEPT !.pc = "choose", !.snap = s]]
      BY <2>2 DEF s, Shape
    <3>4. conn' \in [Conns -> Connection]
      BY <3>2, <3>3, Retype DEF Shape
    <3> QED
      BY <1>2, <2>2, <3>4 DEF TakeSnapshot, Shape
  <2> QED
    BY <1>2, <2>1, <2>2 DEF TakeSnapshot
<1>3. CASE LookupCounter(c)
  <2>1. PICK i : /\ i = IF conn[c].ptr \in DOMAIN store THEN store[conn[c].ptr].requests ELSE 0
                 /\ conn' = [conn EXCEPT ![c].pc = "incr", ![c].ptr = i]
    BY <1>3 DEF LookupCounter
  <2>2. i \in {0} \cup Cells
    BY <2>1, ProxyAssumption DEF Shape, Cells
  <2>3. [conn[c] EXCEPT !.pc = "incr", !.ptr = i] \in Connection
    BY <1>0, <2>2 DEF Connection, Stages, Handled, InNext, Routing
  <2>4. conn' \in [Conns -> Connection]
    BY <2>1, <2>3, Retype DEF Shape
  <2> QED
    BY <1>3, <2>4 DEF LookupCounter, Shape
<1>4. CASE IncrRequests(c)
  <2>1. [conn[c] EXCEPT !.pc = "dial", !.ptr = 0] \in Connection
    BY <1>0 DEF Connection, Stages, Handled, InNext
  <2>2. conn' \in [Conns -> Connection]
    BY <1>4, <2>1, Retype DEF IncrRequests, Shape
  <2> QED
    BY <1>4, <2>2 DEF IncrRequests, Shape
<1>5. CASE Dial(c)
  <2>1. CASE To(c, "end")
    BY <1>5, <1>a, <1>b, <2>1 DEF Dial, Shape
  <2>2. CASE conn' = [conn EXCEPT ![c].pc = "piping", ![c].piped = TRUE] /\ UNCHANGED metrics
    <3>1. [conn[c] EXCEPT !.pc = "piping", !.piped = TRUE] \in Connection
      BY <1>0 DEF Connection, Stages, Handled, InNext
    <3>2. conn' \in [Conns -> Connection]
      BY <2>2, <3>1, Retype DEF Shape
    <3> QED
      BY <1>5, <2>2, <3>2 DEF Dial, Shape
  <2> QED
    BY <1>5, <2>1, <2>2 DEF Dial
<1>6. CASE ConnEnd(c)
  BY <1>6, <1>a, <1>b DEF ConnEnd, Shape
<1>7. CASE Done(c)
  BY <1>7, <1>a, <1>b DEF Done, Shape
<1>8. CASE PipeEnds(c)
  BY <1>8, <1>a, <1>b DEF PipeEnds, Shape
<1>9. CASE Choose(c)
  <2> DEFINE snap == conn[c].snap
             ids == DOMAIN snap
             i == Nth(ids, counter)
             b == [addr |-> snap[i].addr, requests |-> snap[i].requests]
             a == [j \in ids |-> snap[j].requests]
  <2>1. /\ snap \in Stores /\ ids \subseteq Ids /\ IsFiniteSet(ids)
        /\ \A j \in ids : snap[j] \in Backend
    BY <1>0, StoreType DEF Connection
  <2>2. ids # {}
    BY <1>9 DEF Choose, Chooses
  <2>3. i \in ids
    BY <2>1, <2>2, NthRank, ProxyAssumption DEF Shape
  <2>4. b \in [addr : Addrs, requests : {0} \cup Cells]
    BY <2>1, <2>3 DEF Backend
  <2>5. a \in Choices
    BY <2>1 DEF Backend, Choices, IdSets
  <2>6. i \in {0} \cup Ids \cup Cells
    BY <2>1, <2>3
  <2>7. NoSnap \in Stores
    BY EmptyStore
  <2>8. conn' = [conn EXCEPT ![c] = [conn[c] EXCEPT !.pc = "lookup", !.snap = NoSnap,
                    !.ptr = i, !.among = a, !.back = b]]
    BY <1>9 DEF Choose, Shape
  <2>11. counter' = counter + 1 /\ UNCHANGED <<server, hits, wg, metrics, registry>>
    BY <1>9 DEF Choose
  <2> HIDE DEF i, a, b
  <2>9. [conn[c] EXCEPT !.pc = "lookup", !.snap = NoSnap, !.ptr = i, !.among = a, !.back = b]
           \in Connection
    BY <1>0, <2>4, <2>5, <2>6, <2>7 DEF Connection, Stages, Handled, InNext, Routing
  <2>10. conn' \in [Conns -> Connection]
    BY <2>8, <2>9, Retype DEF Shape
  <2> QED
    BY <2>10, <2>11 DEF Shape
<1> QED
  BY <1>1, <1>2, <1>3, <1>4, <1>5, <1>6, <1>7, <1>8, <1>9 DEF Handler

-----------------------------------------------------------------------------
(* What a step does to the connections. *)

\* A goroutine changes its own connection and leaves the others alone.
Others(c) == \A d \in Conns \ {c} : conn'[d] = conn[d]

Becomes(c, r) == Others(c) /\ conn'[c] = r

Moves(c, from, to) == Others(c) /\ conn[c].pc = from /\ conn'[c].pc = to

\* What a connection keeps: the backend it was routed to and what there was to
\* choose from, what it must avoid, and what its handler holds.
KeepsRoute(c) == conn'[c].back = conn[c].back /\ conn'[c].among = conn[c].among
KeepsAvoid(c) == conn'[c].avoid = conn[c].avoid
KeepsHeld(c)  == conn'[c].snap = conn[c].snap /\ conn'[c].ptr = conn[c].ptr
KeepsPiped(c) == conn'[c].piped = conn[c].piped
KeepsAll(c)   == KeepsRoute(c) /\ KeepsAvoid(c) /\ KeepsHeld(c) /\ KeepsPiped(c)

\* A connection that only goes from one stage to another keeps everything.
LEMMA ToEffect ==
    ASSUME Shape, NEW c \in Conns, NEW to, To(c, to)
    PROVE  Others(c) /\ conn'[c].pc = to /\ KeepsAll(c)
<1>1. conn[c] \in Connection /\ conn' = [conn EXCEPT ![c] = [conn[c] EXCEPT !.pc = to]]
  BY DEF To, Shape
<1>2. Becomes(c, [conn[c] EXCEPT !.pc = to])
  BY <1>1 DEF Becomes, Others, Shape
<1> QED
  BY <1>1, <1>2 DEF Becomes, KeepsAll, KeepsRoute, KeepsAvoid, KeepsHeld, KeepsPiped, Connection

\* acceptLoop: what an accepted or spawned connection, and one that a client
\* makes, keeps.
LEMMA AcceptEffects ==
    ASSUME Shape
    PROVE  /\ \A c \in Conns : Connect(c) => Moves(c, "new", "queued") /\ KeepsAll(c)
           /\ \A l : Accept(l) => \E d \in Conns :
                 /\ Moves(d, "queued", "accepted") /\ conn'[d].avoid = retired
                 /\ KeepsRoute(d) /\ KeepsHeld(d) /\ KeepsPiped(d)
           /\ \A l : Spawn(l) => \E d \in Conns :
                 Moves(d, "accepted", "start") /\ KeepsAll(d)
<1> USE DEF Moves, KeepsAll, KeepsRoute, KeepsAvoid, KeepsHeld, KeepsPiped
<1>1. ASSUME NEW c \in Conns, Connect(c)
      PROVE  Moves(c, "new", "queued") /\ KeepsAll(c)
  <2>1. PICK l \in open : /\ conn[c] \in Connection
                          /\ Becomes(c, [conn[c] EXCEPT !.pc = "queued", !.port = l])
    BY <1>1 DEF Connect, Shape, Becomes, Others
  <2> QED
    BY <1>1, <2>1 DEF Connect, Becomes, Connection
<1>2. ASSUME NEW l, Accept(l)
      PROVE  \E d \in Conns :
                 /\ Moves(d, "queued", "accepted") /\ conn'[d].avoid = retired
                 /\ KeepsRoute(d) /\ KeepsHeld(d) /\ KeepsPiped(d)
  <2>1. PICK d \in Conns : /\ conn[d] \in Connection /\ conn[d].pc = "queued"
                           /\ Becomes(d, [conn[d] EXCEPT !.pc = "accepted", !.avoid = retired])
    BY <1>2 DEF Accept, Shape, Becomes, Others
  <2> QED
    BY <2>1 DEF Becomes, Connection
<1>3. ASSUME NEW l, Spawn(l)
      PROVE  \E d \in Conns : Moves(d, "accepted", "start") /\ KeepsAll(d)
  <2>1. PICK d \in Conns : /\ conn[d] \in Connection /\ conn[d].pc = "accepted"
                           /\ Becomes(d, [conn[d] EXCEPT !.pc = "start"])
    BY <1>3 DEF Spawn, Shape, Becomes, Others
  <2> QED
    BY <2>1 DEF Becomes, Connection
<1> QED
  BY <1>1, <1>2, <1>3

\* handleConn, but for the choice: the stages it goes through, and what of the
\* connection each changes.
LEMMA HandlerEffects ==
    ASSUME Shape, NEW c \in Conns
    PROVE  /\ ConnStart(c) => Moves(c, "start", "next") /\ KeepsAll(c)
           /\ TakeSnapshot(c) =>
                 \/ Moves(c, "next", "end") /\ KeepsAll(c)
                    /\ metrics' = [metrics EXCEPT !.failed = @ + 1]
                 \/ /\ Moves(c, "next", "choose") /\ Active(store) # {}
                    /\ conn'[c].snap = [i \in Active(store) |-> store[i]]
                    /\ KeepsRoute(c) /\ KeepsAvoid(c) /\ KeepsPiped(c)
                    /\ UNCHANGED metrics
           /\ LookupCounter(c) =>
                 /\ Moves(c, "lookup", "incr") /\ KeepsRoute(c) /\ KeepsAvoid(c) /\ KeepsPiped(c)
                 /\ conn'[c].ptr = IF conn[c].ptr \in DOMAIN store
                                   THEN store[conn[c].ptr].requests ELSE 0
           /\ IncrRequests(c) =>
                 Moves(c, "incr", "dial") /\ KeepsRoute(c) /\ KeepsAvoid(c) /\ KeepsPiped(c)
           /\ Dial(c) => \/ Moves(c, "dial", "end") /\ KeepsAll(c)
                            /\ metrics' = [metrics EXCEPT !.failed = @ + 1]
                         \/ /\ Moves(c, "dial", "piping") /\ conn'[c].piped
                            /\ KeepsRoute(c) /\ KeepsAvoid(c) /\ UNCHANGED metrics
           /\ PipeEnds(c) => Moves(c, "piping", "end") /\ KeepsAll(c)
           /\ ConnEnd(c) => Moves(c, "end", "done") /\ KeepsAll(c)
           /\ Done(c) => Moves(c, "done", "closed") /\ KeepsAll(c)
<1> USE DEF Moves
<1>0. conn[c] \in Connection
  BY DEF Shape
<1>1. ConnStart(c) => Moves(c, "start", "next") /\ KeepsAll(c)
  BY ToEffect DEF ConnStart
<1>2. ASSUME TakeSnapshot(c)
      PROVE  \/ Moves(c, "next", "end") /\ KeepsAll(c)
                /\ metrics' = [metrics EXCEPT !.failed = @ + 1]
             \/ /\ Moves(c, "next", "choose") /\ Active(store) # {}
                /\ conn'[c].snap = [i \in Active(store) |-> store[i]]
                /\ KeepsRoute(c) /\ KeepsAvoid(c) /\ KeepsPiped(c)
                /\ UNCHANGED metrics
  <2>1. CASE Active(store) = {}
    BY <1>2, <2>1, ToEffect DEF TakeSnapshot
  <2>2. CASE Active(store) # {}
    <3> DEFINE s == [i \in Active(store) |-> store[i]]
    <3>1. conn' = [conn EXCEPT ![c] = [conn[c] EXCEPT !.pc = "choose", !.snap = s]]
      BY <1>2, <2>2 DEF TakeSnapshot, Shape
    <3> HIDE DEF s
    <3>2. Becomes(c, [conn[c] EXCEPT !.pc = "choose", !.snap = s])
      BY <3>1 DEF Becomes, Others, Shape
    <3>3. /\ Others(c) /\ conn'[c].pc = "choose" /\ conn'[c].snap = s
          /\ KeepsRoute(c) /\ KeepsAvoid(c) /\ KeepsPiped(c)
      BY <1>0, <3>2 DEF Becomes, Connection, KeepsRoute, KeepsAvoid, KeepsPiped
    <3>4. conn[c].pc = "next" /\ UNCHANGED metrics
      BY <1>2, <2>2 DEF TakeSnapshot
    <3> QED
      BY <2>2, <3>3, <3>4 DEF s
  <2> QED
    BY <2>1, <2>2
<1>3. ASSUME LookupCounter(c)
      PROVE  /\ Moves(c, "lookup", "incr") /\ KeepsRoute(c) /\ KeepsAvoid(c) /\ KeepsPiped(c)
             /\ conn'[c].ptr = IF conn[c].ptr \in DOMAIN store
                               THEN store[conn[c].ptr].requests ELSE 0
  <2>1. PICK k : /\ k = IF conn[c].ptr \in DOMAIN store THEN store[conn[c].ptr].requests ELSE 0
                 /\ conn' = [conn EXCEPT ![c].pc = "incr", ![c].ptr = k]
    BY <1>3 DEF LookupCounter
  <2>2. Becomes(c, [conn[c] EXCEPT !.pc = "incr", !.ptr = k])
    BY <2>1 DEF Becomes, Others, Shape
  <2>3. /\ Others(c) /\ conn'[c].pc = "incr" /\ conn'[c].ptr = k
        /\ KeepsRoute(c) /\ KeepsAvoid(c) /\ KeepsPiped(c)
    BY <1>0, <2>2 DEF Becomes, Connection, KeepsRoute, KeepsAvoid, KeepsPiped
  <2> QED
    BY <1>3, <2>1, <2>3 DEF LookupCounter
<1>4. ASSUME IncrRequests(c)
      PROVE  Moves(c, "incr", "dial") /\ KeepsRoute(c) /\ KeepsAvoid(c) /\ KeepsPiped(c)
  <2>1. Becomes(c, [conn[c] EXCEPT !.pc = "dial", !.ptr = 0])
    BY <1>4 DEF IncrRequests, Becomes, Others, Shape
  <2>2. conn[c].pc = "incr"
    BY <1>4 DEF IncrRequests
  <2> QED
    BY <1>0, <2>1, <2>2 DEF Becomes, Connection, KeepsRoute, KeepsAvoid, KeepsPiped
<1>5. ASSUME Dial(c)
      PROVE  \/ Moves(c, "dial", "end") /\ KeepsAll(c)
                /\ metrics' = [metrics EXCEPT !.failed = @ + 1]
             \/ /\ Moves(c, "dial", "piping") /\ conn'[c].piped
                /\ KeepsRoute(c) /\ KeepsAvoid(c) /\ UNCHANGED metrics
  <2>1. CASE To(c, "end") /\ metrics' = [metrics EXCEPT !.failed = @ + 1]
    BY <1>5, <2>1, ToEffect DEF Dial
  <2>2. CASE conn' = [conn EXCEPT ![c].pc = "piping", ![c].piped = TRUE] /\ UNCHANGED metrics
    <3>1. Becomes(c, [conn[c] EXCEPT !.pc = "piping", !.piped = TRUE])
      BY <2>2 DEF Becomes, Others, Shape
    <3>2. conn[c].pc = "dial"
      BY <1>5 DEF Dial
    <3>3. /\ Moves(c, "dial", "piping") /\ conn'[c].piped
          /\ KeepsRoute(c) /\ KeepsAvoid(c)
      BY <1>0, <3>1, <3>2 DEF Becomes, Connection, KeepsRoute, KeepsAvoid
    <3> QED
      BY <2>2, <3>3
  <2> QED
    BY <1>5, <2>1, <2>2 DEF Dial
<1>6. PipeEnds(c) => Moves(c, "piping", "end") /\ KeepsAll(c)
  BY ToEffect DEF PipeEnds
<1>7. ConnEnd(c) => Moves(c, "end", "done") /\ KeepsAll(c)
  BY ToEffect DEF ConnEnd
<1>8. Done(c) => Moves(c, "done", "closed") /\ KeepsAll(c)
  BY ToEffect DEF Done
<1> QED
  BY <1>1, <1>2, <1>3, <1>4, <1>5, <1>6, <1>7, <1>8

\* router.go: Next's choice, spelt out.
LEMMA ChooseEffect ==
    ASSUME Shape, Chooses, NEW c \in Conns, Choose(c)
    PROVE  \E i \in DOMAIN conn[c].snap :
              /\ Rank(DOMAIN conn[c].snap, i) = counter % Cardinality(DOMAIN conn[c].snap)
              /\ conn[c].snap[i] \in Backend
              /\ Moves(c, "choose", "lookup") /\ KeepsAvoid(c) /\ KeepsPiped(c)
              /\ conn'[c].ptr = i
              /\ conn'[c].among = [j \in DOMAIN conn[c].snap |-> conn[c].snap[j].requests]
              /\ conn'[c].back = [addr |-> conn[c].snap[i].addr,
                                  requests |-> conn[c].snap[i].requests]
<1> DEFINE ids == DOMAIN conn[c].snap
           i == Nth(ids, counter)
           a == [j \in ids |-> conn[c].snap[j].requests]
           b == [addr |-> conn[c].snap[i].addr, requests |-> conn[c].snap[i].requests]
<1>1. conn[c] \in Connection
  BY DEF Shape
<1>2. /\ ids \subseteq Nat /\ IsFiniteSet(ids)
      /\ \A j \in ids : conn[c].snap[j] \in Backend
  BY <1>1, StoreType, ProxyAssumption DEF Connection
<1>3. ids # {} /\ counter \in Nat
  BY DEF Choose, Chooses, Shape
<1>4. i \in ids /\ Rank(ids, i) = counter % Cardinality(ids)
  BY <1>2, <1>3, NthRank
<1>5. conn' = [conn EXCEPT ![c] = [conn[c] EXCEPT !.pc = "lookup", !.snap = NoSnap, !.ptr = i,
                                                  !.among = a, !.back = b]]
  BY DEF Choose, Shape
<1> HIDE DEF i, a, b
<1>6. Becomes(c, [conn[c] EXCEPT !.pc = "lookup", !.snap = NoSnap, !.ptr = i,
                                 !.among = a, !.back = b])
  BY <1>5 DEF Becomes, Others, Shape
<1>7. /\ Others(c) /\ conn'[c].pc = "lookup" /\ KeepsAvoid(c) /\ KeepsPiped(c)
      /\ conn'[c].ptr = i /\ conn'[c].among = a /\ conn'[c].back = b
  BY <1>1, <1>6 DEF Becomes, Connection, KeepsAvoid, KeepsPiped
<1> QED
  BY <1>2, <1>4, <1>7 DEF Moves, Choose, a, b

\* A set that a step adds one element to, or takes one away from.
Bit(b) == IF b THEN 1 ELSE 0

LEMMA OneMoves ==
    ASSUME NEW S, IsFiniteSet(S), NEW T, NEW c, S \ {c} = T \ {c}
    PROVE  /\ IsFiniteSet(T)
           /\ Cardinality(S) \in Nat /\ Cardinality(T) \in Nat
           /\ Cardinality(T) = Cardinality(S) + Bit(c \in T) - Bit(c \in S)
<1> DEFINE R == S \ {c}
<1>1. IsFiniteSet(R) /\ Cardinality(R) \in Nat /\ Cardinality(S) \in Nat
  BY FS_RemoveElement, FS_CardinalityType
<1>2. Cardinality(R) = Cardinality(S) - Bit(c \in S)
  <2>1. Cardinality(R) = IF c \in S THEN Cardinality(S) - 1 ELSE Cardinality(S)
    BY FS_RemoveElement
  <2> QED
    BY <1>1, <2>1 DEF Bit
<1>3. CASE c \in T
  <2>1. T = R \cup {c} /\ c \notin R
    BY <1>3
  <2>2. IsFiniteSet(T) /\ Cardinality(T) = Cardinality(R) + 1
    BY <1>1, <2>1, FS_AddElement
  <2>3. Bit(c \in T) = 1 /\ Bit(c \in S) \in Int
    BY <1>3 DEF Bit
  <2> HIDE DEF R
  <2> QED
    BY <1>1, <1>2, <2>2, <2>3
<1>4. CASE c \notin T
  <2>1. T = R
    BY <1>4
  <2>2. Bit(c \in T) = 0 /\ Bit(c \in S) \in Int
    BY <1>4 DEF Bit
  <2> HIDE DEF R
  <2> QED
    BY <1>1, <1>2, <2>1, <2>2
<1> QED
  BY <1>3, <1>4

\* Only finitely many connections have been made, and ports bound: clients
\* come one at a time.
Finite ==
    /\ IsFiniteSet({c \in Conns : conn[c].pc # "new"})
    /\ IsFiniteSet({l \in Ports : loop[l] # "off"})

\* The connections in some of the stages are finitely many, and a step of one
\* of them changes their number by that one.
LEMMA StageCount ==
    ASSUME Shape, Finite, NEW X, "new" \notin X
    PROVE  /\ IsFiniteSet(InState(X)) /\ Cardinality(InState(X)) \in Nat
           /\ \A c \in Conns : Others(c) =>
                 Cardinality(InState(X)') = Cardinality(InState(X))
                                            + Bit(conn'[c].pc \in X) - Bit(conn[c].pc \in X)
<1>1. IsFiniteSet(InState(X))
  <2>1. InState(X) \subseteq {c \in Conns : conn[c].pc # "new"}
    BY DEF InState
  <2> QED
    BY <2>1, FS_Subset DEF Finite
<1>2. ASSUME NEW c \in Conns, Others(c)
      PROVE  Cardinality(InState(X)') = Cardinality(InState(X))
                                        + Bit(conn'[c].pc \in X) - Bit(conn[c].pc \in X)
  <2>1. InState(X) \ {c} = InState(X)' \ {c}
    BY <1>2 DEF Others, InState
  <2>2. (c \in InState(X) <=> conn[c].pc \in X) /\ (c \in InState(X)' <=> conn'[c].pc \in X)
    BY DEF InState
  <2>3. Cardinality(InState(X)') = Cardinality(InState(X))
                                   + Bit(c \in InState(X)') - Bit(c \in InState(X))
    BY <1>1, <2>1, OneMoves
  <2> QED
    BY <2>2, <2>3 DEF Bit
<1> QED
  BY <1>1, <1>2, FS_CardinalityType

\* Shutting a port moves nothing but queued connections, to "refused".
LEMMA ShutEffect ==
    ASSUME Shape, NEW l, Shut(l), NEW c \in Conns
    PROVE  \/ conn'[c] = conn[c]
           \/ conn[c].pc = "queued" /\ conn'[c].pc = "refused" /\ KeepsAll(c)
<1>1. conn[c] \in Connection
  BY DEF Shape
<1>2. conn'[c] = conn[c] \/ (conn[c].pc = "queued" /\ conn'[c] = [conn[c] EXCEPT !.pc = "refused"])
  BY DEF Shut
<1> QED
  BY <1>1, <1>2 DEF Connection, KeepsAll, KeepsRoute, KeepsAvoid, KeepsHeld, KeepsPiped

Ended == {"end", "done", "closed"}
PipedStages == {"piping"} \cup Ended

\* One step, seen from the connections: nothing happens to them, a port is
\* shut, or one of them moves.
StepOf(c) ==
    /\ Others(c) /\ conn'[c].pc # "new"
    /\ conn'[c].pc = "choose" => /\ Active(store) # {}
                                 /\ conn'[c].snap = [i \in Active(store) |-> store[i]]
    /\ \/ conn'[c].pc = "piping" /\ conn'[c].piped
       \/ conn'[c].pc \in Ended
       \/ conn[c].pc \notin PipedStages /\ conn'[c].pc \notin PipedStages /\ KeepsPiped(c)

LEMMA ConnSteps ==
    ASSUME Shape, Chooses, [Next]_vars
    PROVE  \/ UNCHANGED conn
           \/ \E l \in Ports : Shut(l)
           \/ \E c \in Conns : StepOf(c)
<1>1. CASE Main
  BY <1>1 DEF Main, Bind, Seed, CloseListeners, Wait, Drained, DrainTimeout, Exit
<1>2. CASE Sigterm \/ Unbind \/ Api
  BY <1>2 DEF Sigterm, Unbind, Api, ApiAdd, ApiDrain, ApiRemove
<1>3. ASSUME NEW l \in Ports, AcceptLoop(l)
      PROVE  UNCHANGED conn \/ \E c \in Conns : StepOf(c)
  <2>1. CASE Accept(l) \/ Spawn(l)
    <3>1. PICK c \in Conns : /\ Moves(c, "queued", "accepted") \/ Moves(c, "accepted", "start")
                             /\ KeepsPiped(c)
      BY <2>1, AcceptEffects DEF KeepsAll
    <3> QED
      BY <3>1 DEF Moves, StepOf, KeepsAll, PipedStages, Ended
  <2>2. CASE AcceptError(l) \/ Retry(l) \/ Count(l)
    BY <2>2 DEF AcceptError, Retry, Count
  <2> QED
    BY <1>3, <2>1, <2>2 DEF AcceptLoop
<1>4. ASSUME NEW c \in Conns, Handler(c) \/ Connect(c) \/ PipeEnds(c)
      PROVE  StepOf(c)
  BY <1>4, AcceptEffects, HandlerEffects, ChooseEffect
  DEF Handler, Moves, StepOf, KeepsAll, PipedStages, Ended
<1> QED
  BY <1>1, <1>2, <1>3, <1>4 DEF Next, vars

\* One step changes the accept loop of one port at most.
LEMMA LoopSteps ==
    ASSUME Shape, [Next]_vars
    PROVE  UNCHANGED loop \/ \E k \in Ports : \A l \in Ports \ {k} : loop'[l] = loop[l]
<1> USE DEF Shape, server
<1>1. CASE Main
  BY <1>1 DEF Main, Bind, Seed, CloseListeners, Wait, Drained, DrainTimeout, Exit
<1>2. CASE Sigterm \/ Unbind \/ Api
  BY <1>2 DEF Sigterm, Unbind, Shut, Api, ApiAdd, ApiDrain, ApiRemove
<1>3. ASSUME NEW k \in Ports, AcceptLoop(k)
      PROVE  UNCHANGED loop \/ \A l \in Ports \ {k} : loop'[l] = loop[l]
  BY <1>3 DEF AcceptLoop, Accept, AcceptError, Retry, Count, Spawn
<1>4. ASSUME NEW c \in Conns, Handler(c) \/ Connect(c) \/ PipeEnds(c)
      PROVE  UNCHANGED loop
  BY <1>4 DEF Handler, ConnStart, TakeSnapshot, Choose, LookupCounter, IncrRequests, Dial,
              ConnEnd, Done, Connect, PipeEnds
<1> QED
  BY <1>1, <1>2, <1>3, <1>4 DEF Next, vars

\* What every step takes for granted.
Typed == Shape /\ Chooses /\ Finite

\* Every reachable state is well typed, has something to choose from and has
\* seen finitely many connections.
THEOREM TypedAlways == Spec => []Typed
<1>1. Init => Typed
  <2> SUFFICES ASSUME Init PROVE Typed
    OBVIOUS
  <2>1. Shape
    <3>1. [pc |-> "new", port |-> 0, snap |-> NoSnap, back |-> Nobody, ptr |-> 0,
           piped |-> FALSE, avoid |-> {}, among |-> NoSnap] \in Connection
      BY EmptyStore DEF Connection, Stages, Addrs, Nobody
    <3>2. store \in Stores /\ DOMAIN store = {}
      BY EmptyStore DEF Init, NewRegistry
    <3> QED
      BY <3>1, <3>2, ProxyAssumption DEF Init, Shape, Mains, Loops, Cells
  <2>2. Chooses
    BY DEF Init, Chooses
  <2>3. Finite
    BY FS_EmptySet DEF Init, Finite
  <2> QED
    BY <2>1, <2>2, <2>3 DEF Typed
<1>2. Typed /\ [Next]_vars => Typed'
  <2> SUFFICES ASSUME Typed, [Next]_vars PROVE Typed'
    OBVIOUS
  <2> USE DEF Typed
  <2>1. Shape'
    <3>1. CASE UNCHANGED vars
      BY <3>1 DEF vars, Shape
    <3> QED
      BY <3>1, ShapeMain, ShapeApi, ShapeAccept, ShapeHandler DEF Next
  <2>2. Chooses'
    <3>1. ASSUME NEW c \in Conns, conn'[c].pc = "choose"
          PROVE  DOMAIN conn'[c].snap # {}
      <4>0. \A d \in Conns : conn[d] \in Connection /\ conn'[d] \in Connection
        BY <2>1 DEF Shape
      <4>1. CASE conn'[c] = conn[c]
        BY <3>1, <4>1 DEF Chooses
      <4>2. CASE StepOf(c)
        BY <3>1, <4>2 DEF StepOf
      <4>3. CASE \E l \in Ports : Shut(l)
        BY <3>1, <4>0, <4>1, <4>3, ShutEffect DEF Connection
      <4> QED
        BY <4>1, <4>2, <4>3, ConnSteps DEF StepOf, Others
    <3> QED
      BY <3>1 DEF Chooses
  <2>3. Finite'
    <3>1. IsFiniteSet({c \in Conns : conn'[c].pc # "new"})
      <4>1. CASE UNCHANGED conn
        BY <4>1 DEF Finite
      <4>2. CASE \E l \in Ports : Shut(l)
        <5>1. {c \in Conns : conn'[c].pc # "new"} \subseteq {c \in Conns : conn[c].pc # "new"}
          BY <4>2, ShutEffect
        <5> QED
          BY <5>1, FS_Subset DEF Finite
      <4>3. ASSUME NEW c \in Conns, Others(c)
            PROVE  IsFiniteSet({d \in Conns : conn'[d].pc # "new"})
        <5>1. {d \in Conns : conn'[d].pc # "new"} \ {c} = {d \in Conns : conn[d].pc # "new"} \ {c}
          BY <4>3 DEF Others
        <5> QED
          BY <5>1, OneMoves DEF Finite
      <4> QED
        BY <4>1, <4>2, <4>3, ConnSteps DEF StepOf
    <3>2. IsFiniteSet({l \in Ports : loop'[l] # "off"})
      <4>1. ASSUME NEW k \in Ports, \A l \in Ports \ {k} : loop'[l] = loop[l]
            PROVE  IsFiniteSet({l \in Ports : loop'[l] # "off"})
        <5>1. {l \in Ports : loop'[l] # "off"} \ {k} = {l \in Ports : loop[l] # "off"} \ {k}
          BY <4>1
        <5> QED
          BY <5>1, OneMoves DEF Finite
      <4>2. UNCHANGED loop \/ \E k \in Ports : \A l \in Ports \ {k} : loop'[l] = loop[l]
        BY LoopSteps DEF vars
      <4> QED
        BY <4>1, <4>2 DEF Finite
    <3> QED
      BY <3>1, <3>2 DEF Finite
  <2> QED
    BY <2>1, <2>2, <2>3
<1> QED
  BY <1>1, <1>2, PTL DEF Spec

-----------------------------------------------------------------------------
(* The WaitGroup and the metrics. *)

\* server.go: a connection is piped from the moment its backend has been
\* reached, and not before.
Piped ==
    \A c \in Conns :
        /\ conn[c].pc = "piping" => conn[c].piped
        /\ conn[c].pc \notin PipedStages => ~conn[c].piped

Begun   == (Handled \ {"start"}) \cup {"closed"}
Going   == InNext \cup {"end"}
Failed  == {c \in InState(Ended) : ~conn[c].piped}
Spawning == {l \in Ports : loop[l] = "spawn"}

Counts == Piped /\ WgCounts /\ MetricsExact

\* The accept loops about to start a handler are finitely many, and a step of
\* one of them changes their number by that one.
LEMMA SpawnCount ==
    ASSUME Finite
    PROVE  /\ IsFiniteSet(Spawning) /\ Cardinality(Spawning) \in Nat
           /\ \A k \in Ports : (\A l \in Ports \ {k} : loop'[l] = loop[l]) =>
                 Cardinality(Spawning') = Cardinality(Spawning)
                              + Bit(loop'[k] = "spawn") - Bit(loop[k] = "spawn")
<1>1. Spawning \subseteq {l \in Ports : loop[l] # "off"}
  BY DEF Spawning
<1>2. IsFiniteSet(Spawning)
  BY <1>1, FS_Subset DEF Finite
<1>3. ASSUME NEW k \in Ports, \A l \in Ports \ {k} : loop'[l] = loop[l]
      PROVE  Cardinality(Spawning') = Cardinality(Spawning)
                   + Bit(loop'[k] = "spawn") - Bit(loop[k] = "spawn")
  <2>1. Spawning \ {k} = Spawning' \ {k}
    BY <1>3 DEF Spawning
  <2>2. (k \in Spawning <=> loop[k] = "spawn") /\ (k \in Spawning' <=> loop'[k] = "spawn")
    BY DEF Spawning
  <2>3. Cardinality(Spawning') = Cardinality(Spawning) + Bit(k \in Spawning') - Bit(k \in Spawning)
    BY <1>2, <2>1, OneMoves
  <2> QED
    BY <2>2, <2>3 DEF Bit
<1> QED
  BY <1>2, <1>3, FS_CardinalityType

\* So are the connections that failed.
LEMMA FailedCount ==
    ASSUME Shape, Finite, NEW c \in Conns, Others(c)
    PROVE  /\ Cardinality(Failed) \in Nat
           /\ Cardinality(Failed') = Cardinality(Failed)
                 + Bit(conn'[c].pc \in Ended /\ ~conn'[c].piped)
                 - Bit(conn[c].pc \in Ended /\ ~conn[c].piped)
<1>1. Failed \subseteq InState(Ended) /\ IsFiniteSet(InState(Ended))
  BY StageCount DEF Failed, Ended
<1>2. IsFiniteSet(Failed)
  BY <1>1, FS_Subset
<1>3. Failed \ {c} = Failed' \ {c}
  BY DEF Others, Failed, InState
<1>4. /\ c \in Failed <=> conn[c].pc \in Ended /\ ~conn[c].piped
      /\ c \in Failed' <=> conn'[c].pc \in Ended /\ ~conn'[c].piped
  BY DEF Failed, InState
<1>5. Cardinality(Failed') = Cardinality(Failed) + Bit(c \in Failed') - Bit(c \in Failed)
  BY <1>2, <1>3, OneMoves
<1> QED
  BY <1>2, <1>4, <1>5, FS_CardinalityType DEF Bit

\* A step of one connection leaves the number of those in some of the stages
\* as it was if it moves within these or outside them.
LEMMA Together ==
    ASSUME Shape, Finite, NEW c \in Conns, NEW from, NEW to, Moves(c, from, to), NEW X,
           "new" \notin X, (from \in X) = (to \in X)
    PROVE  Cardinality(InState(X)') = Cardinality(InState(X))
<1>1. /\ Cardinality(InState(X)) \in Nat
      /\ Cardinality(InState(X)') = Cardinality(InState(X))
                                    + Bit(conn'[c].pc \in X) - Bit(conn[c].pc \in X)
  BY StageCount DEF Moves
<1>2. Bit(conn'[c].pc \in X) = Bit(conn[c].pc \in X) /\ Bit(conn[c].pc \in X) \in Int
  BY DEF Moves, Bit
<1> QED
  BY <1>1, <1>2

\* It adds one to it if it moves into these, and takes one away if it moves
\* out of them.
LEMMA InOrOut ==
    ASSUME Shape, Finite, NEW c \in Conns, NEW from, NEW to, Moves(c, from, to), NEW X,
           "new" \notin X
    PROVE  /\ Cardinality(InState(X)) \in Nat
           /\ from \notin X /\ to \in X =>
                 Cardinality(InState(X)') = Cardinality(InState(X)) + 1
           /\ from \in X /\ to \notin X =>
                 Cardinality(InState(X)') = Cardinality(InState(X)) - 1
<1>1. /\ Cardinality(InState(X)) \in Nat
      /\ Cardinality(InState(X)') = Cardinality(InState(X))
                                    + Bit(conn'[c].pc \in X) - Bit(conn[c].pc \in X)
  BY StageCount DEF Moves
<1> QED
  BY <1>1 DEF Moves, Bit

LEMMA PipedStep == Typed /\ Typed' /\ Piped /\ [Next]_vars => Piped'
<1> SUFFICES ASSUME Typed, Typed', Piped, [Next]_vars, NEW c \in Conns
             PROVE  /\ conn'[c].pc = "piping" => conn'[c].piped
                    /\ conn'[c].pc \notin PipedStages => ~conn'[c].piped
  BY DEF Piped
<1> USE DEF Piped, PipedStages, Ended
<1>1. conn[c] \in Connection
  BY DEF Typed, Shape
<1>2. CASE conn'[c] = conn[c]
  BY <1>2
<1>3. CASE StepOf(c)
  BY <1>3 DEF StepOf, KeepsPiped
<1>4. CASE \E l \in Ports : Shut(l)
  BY <1>2, <1>4, ShutEffect DEF Typed, KeepsAll, KeepsPiped
<1> QED
  BY <1>2, <1>3, <1>4, ConnSteps DEF Typed, StepOf, Others

\* server.go: activeConns is as many as the connections it stands for, after
\* every step too.
LEMMA WgStep == Typed /\ Typed' /\ WgCounts /\ [Next]_vars => WgCounts'
<1> SUFFICES ASSUME Typed, Typed', WgCounts, [Next]_vars PROVE WgCounts'
  OBVIOUS
<1> DEFINE H == Cardinality(InState(Handled))
           L == Cardinality(Spawning)
<1>0. /\ H \in Nat /\ L \in Nat /\ wg \in Int /\ wg = H + L
      /\ (WgCounts' <=> wg' = H' + L')
  <2>1. "new" \notin Handled
    BY DEF Handled, InNext, Routing
  <2> QED
    BY <2>1, StageCount, SpawnCount DEF Typed, Shape, WgCounts, Spawning
<1>a. UNCHANGED conn => H' = H
  BY DEF InState
<1>b. UNCHANGED loop => L' = L
  BY DEF Spawning
<1>c. ASSUME NEW l, Shut(l)
      PROVE  H' = H
  <2>1. InState(Handled)' = InState(Handled)
    BY <1>c, ShutEffect DEF Typed, InState, Handled, InNext, Routing
  <2> QED
    BY <2>1
<1>d. ASSUME NEW k \in Ports, \A l \in Ports \ {k} : loop'[l] = loop[l]
      PROVE  /\ loop[k] # "spawn" /\ loop'[k] # "spawn" => L' = L
             /\ loop[k] # "spawn" /\ loop'[k] = "spawn" => L' = L + 1
             /\ loop[k] = "spawn" /\ loop'[k] # "spawn" => L' = L - 1
  BY <1>0, <1>d, SpawnCount DEF Typed, Bit
<1> HIDE DEF H, L
<1>1. CASE Main
  <2>1. CASE Bind
    BY <1>0, <1>a, <1>b, <1>d, <2>1 DEF Bind, Typed, Shape, counts
  <2>2. CASE CloseListeners
    BY <1>0, <1>a, <1>b, <1>c, <2>2 DEF CloseListeners, counts
  <2>3. CASE Seed \/ Wait \/ Drained \/ DrainTimeout \/ Exit
    BY <1>0, <1>a, <1>b, <2>3 DEF Seed, Wait, Drained, DrainTimeout, Exit, counts
  <2> QED
    BY <1>1, <2>1, <2>2, <2>3 DEF Main
<1>2. CASE Sigterm \/ Unbind \/ Api
  <2>1. CASE Unbind
    BY <1>0, <1>b, <1>c, <2>1 DEF Unbind, Shut, counts
  <2>2. CASE Sigterm \/ Api
    BY <1>0, <1>a, <1>b, <2>2 DEF Sigterm, Api, ApiAdd, ApiDrain, ApiRemove, counts, server
  <2> QED
    BY <1>2, <2>1, <2>2
<1>3. ASSUME NEW l \in Ports, AcceptLoop(l)
      PROVE  WgCounts'
  <2>1. CASE Accept(l)
    <3>1. PICK c \in Conns : Moves(c, "queued", "accepted")
      BY <2>1, AcceptEffects DEF Typed
    <3>2. H' = H
      BY <3>1, Together DEF Typed, H, Handled, InNext, Routing
    <3>3. L' = L /\ UNCHANGED wg
      BY <1>d, <2>1 DEF Accept, Typed, Shape, counts
    <3> QED
      BY <1>0, <3>2, <3>3
  <2>2. CASE AcceptError(l) \/ Retry(l)
    BY <1>0, <1>a, <1>d, <2>2 DEF AcceptError, Retry, Typed, Shape, counts
  <2>3. CASE Count(l)
    BY <1>0, <1>a, <1>b, <1>d, <2>3 DEF Count, Typed, Shape
  <2>4. CASE Spawn(l)
    <3>1. PICK c \in Conns : Moves(c, "accepted", "start")
      BY <2>4, AcceptEffects DEF Typed
    <3>2. H' = H + 1
      BY <3>1, InOrOut DEF Typed, H, Handled, InNext, Routing
    <3>3. L' = L - 1 /\ UNCHANGED wg
      BY <1>d, <2>4 DEF Spawn, Typed, Shape, counts
    <3> QED
      BY <1>0, <3>2, <3>3
  <2> QED
    BY <1>3, <2>1, <2>2, <2>3, <2>4 DEF AcceptLoop
<1>4. ASSUME NEW c \in Conns, Handler(c) \/ Connect(c) \/ PipeEnds(c)
      PROVE  WgCounts'
  <2>0. ASSUME NEW from, NEW to, Moves(c, from, to), (from \in Handled) = (to \in Handled)
        PROVE  H' = H
    BY <2>0, Together DEF Typed, H, Handled, InNext, Routing
  <2>1. CASE Done(c)
    <3>1. Moves(c, "done", "closed")
      BY <2>1, HandlerEffects DEF Typed
    <3>2. H' = H - 1
      BY <3>1, InOrOut DEF Typed, H, Handled, InNext, Routing
    <3>3. L' = L /\ wg' = wg - 1
      BY <1>b, <2>1 DEF Done, server
    <3> QED
      BY <1>0, <3>2, <3>3
  <2>2. CASE ~Done(c)
    <3>1. /\ UNCHANGED <<wg, loop>>
          /\ \/ Moves(c, "new", "queued") \/ Moves(c, "start", "next")
             \/ Moves(c, "next", "end") \/ Moves(c, "next", "choose")
             \/ Moves(c, "choose", "lookup") \/ Moves(c, "lookup", "incr")
             \/ Moves(c, "incr", "dial") \/ Moves(c, "dial", "end")
             \/ Moves(c, "dial", "piping") \/ Moves(c, "piping", "end")
             \/ Moves(c, "end", "done")
      <4>1. UNCHANGED <<wg, loop>>
        BY <1>4, <2>2 DEF Handler, ConnStart, TakeSnapshot, Choose, LookupCounter,
              IncrRequests, Dial, ConnEnd, Connect, PipeEnds, server, counts
      <4> QED
        BY <1>4, <2>2, <4>1, AcceptEffects, HandlerEffects, ChooseEffect DEF Typed, Handler
    <3>2. H' = H
      BY <2>0, <3>1 DEF Handled, InNext, Routing
    <3> QED
      BY <1>0, <1>b, <3>1, <3>2
  <2> QED
    BY <2>1, <2>2
<1>5. CASE UNCHANGED vars
  BY <1>0, <1>a, <1>b, <1>5 DEF vars
<1> QED
  BY <1>1, <1>2, <1>3, <1>4, <1>5 DEF Next

\* metrics: total, active and failed are as many as the connections they stand
\* for, after every step too.
LEMMA MetricsStep == Typed /\ Typed' /\ Piped /\ MetricsExact /\ [Next]_vars => MetricsExact'
<1> SUFFICES ASSUME Typed, Typed', Piped, MetricsExact, [Next]_vars PROVE MetricsExact'
  OBVIOUS
<1> DEFINE T == Cardinality(InState(Begun))
           A == Cardinality(InState(Going))
           F == Cardinality(Failed)
           m == metrics
<1> USE DEF Begun, Going, Handled, InNext, Routing
<1>0. /\ T \in Nat /\ A \in Nat /\ F \in Nat
      /\ m \in [total : Int, active : Int, failed : Int]
      /\ m.total = T /\ m.active = A /\ m.failed = F
      /\ (MetricsExact' <=> m'.total = T' /\ m'.active = A' /\ m'.failed = F')
  <2>1. "new" \notin Begun /\ "new" \notin Going /\ "new" \notin Ended
    BY DEF Ended
  <2>2. T \in Nat /\ A \in Nat /\ F \in Nat
    <3>1. IsFiniteSet(InState(Ended)) /\ Failed \subseteq InState(Ended)
      BY <2>1, StageCount DEF Typed, Failed
    <3> QED
      BY <2>1, <3>1, StageCount, FS_Subset, FS_CardinalityType DEF Typed
  <2> QED
    BY <2>2 DEF Typed, Shape, MetricsExact, Ended, Failed
<1> HIDE DEF m
<1>q. ASSUME UNCHANGED metrics, T' = T, A' = A, F' = F
      PROVE  MetricsExact'
  BY <1>0, <1>q DEF m
<1>r. ASSUME UNCHANGED <<conn, metrics>>
      PROVE  MetricsExact'
  <2>1. T' = T /\ A' = A /\ F' = F
    BY <1>r DEF InState, Failed
  <2> QED
    BY <1>q, <1>r, <2>1
<1>s. ASSUME NEW l, Shut(l)
      PROVE  MetricsExact'
  <2>1. /\ InState(Begun)' = InState(Begun) /\ InState(Going)' = InState(Going)
        /\ Failed' = Failed
    BY <1>s, ShutEffect DEF Typed, InState, Failed, Ended
  <2> QED
    BY <1>q, <1>s, <2>1 DEF Shut, counts
<1>t. ASSUME NEW c \in Conns, NEW from, NEW to, Moves(c, from, to)
      PROVE  /\ (from \in Begun) = (to \in Begun) => T' = T
             /\ from \notin Begun /\ to \in Begun => T' = T + 1
             /\ (from \in Going) = (to \in Going) => A' = A
             /\ from \notin Going /\ to \in Going => A' = A + 1
             /\ from \in Going /\ to \notin Going => A' = A - 1
             /\ from \notin Ended /\ to \notin Ended => F' = F
             /\ from \notin Ended /\ to \in Ended /\ ~conn'[c].piped => F' = F + 1
             /\ conn[c].piped /\ conn'[c].piped => F' = F
             /\ from \in Ended /\ to \in Ended /\ KeepsPiped(c) => F' = F
  <2>1. "new" \notin Begun /\ "new" \notin Going
    OBVIOUS
  <2>2. F' = F + Bit(conn'[c].pc \in Ended /\ ~conn'[c].piped)
               - Bit(conn[c].pc \in Ended /\ ~conn[c].piped)
    BY <1>t, FailedCount DEF Moves, Typed
  <2>3. /\ (from \in Begun) = (to \in Begun) => T' = T
        /\ from \notin Begun /\ to \in Begun => T' = T + 1
    BY <1>t, <2>1, Together, InOrOut DEF Typed
  <2>4. /\ (from \in Going) = (to \in Going) => A' = A
        /\ from \notin Going /\ to \in Going => A' = A + 1
        /\ from \in Going /\ to \notin Going => A' = A - 1
    BY <1>t, <2>1, Together, InOrOut DEF Typed
  <2> HIDE DEF T, A, F
  <2>5. /\ from \notin Ended /\ to \notin Ended => F' = F
        /\ from \notin Ended /\ to \in Ended /\ ~conn'[c].piped => F' = F + 1
        /\ conn[c].piped /\ conn'[c].piped => F' = F
        /\ from \in Ended /\ to \in Ended /\ KeepsPiped(c) => F' = F
    BY <1>0, <1>t, <2>2 DEF Moves, Bit, KeepsPiped
  <2> QED
    BY <2>3, <2>4, <2>5
<1> HIDE DEF T, A, F
<1>1. CASE Main
  <2>1. CASE CloseListeners
    BY <1>r, <1>s, <2>1 DEF CloseListeners, counts
  <2>2. CASE Bind \/ Seed \/ Wait \/ Drained \/ DrainTimeout \/ Exit
    BY <1>r, <2>2 DEF Bind, Seed, Wait, Drained, DrainTimeout, Exit, counts
  <2> QED
    BY <1>1, <2>1, <2>2 DEF Main
<1>2. CASE Sigterm \/ Unbind \/ Api
  BY <1>r, <1>s, <1>2 DEF Sigterm, Unbind, Api, ApiAdd, ApiDrain, ApiRemove, counts
<1>3. ASSUME NEW l \in Ports, AcceptLoop(l)
      PROVE  MetricsExact'
  <2>1. CASE Accept(l) \/ Spawn(l)
    <3>1. PICK c \in Conns : Moves(c, "queued", "accepted") \/ Moves(c, "accepted", "start")
      BY <2>1, AcceptEffects DEF Typed
    <3>2. UNCHANGED metrics
      BY <2>1 DEF Accept, Spawn, counts
    <3>3. T' = T /\ A' = A /\ F' = F
      BY <1>t, <3>1 DEF Ended
    <3> QED
      BY <1>q, <3>2, <3>3
  <2>2. CASE AcceptError(l) \/ Retry(l) \/ Count(l)
    BY <1>r, <2>2 DEF AcceptError, Retry, Count, counts
  <2> QED
    BY <1>3, <2>1, <2>2 DEF AcceptLoop
<1>4. ASSUME NEW c \in Conns, Handler(c) \/ Connect(c) \/ PipeEnds(c)
      PROVE  MetricsExact'
  <2>1. CASE ConnStart(c)
    <3>1. Moves(c, "start", "next")
      BY <2>1, HandlerEffects DEF Typed
    <3>2. T' = T + 1 /\ A' = A + 1 /\ F' = F
      BY <1>t, <3>1 DEF Ended
    <3>3. m'.total = m.total + 1 /\ m'.active = m.active + 1 /\ m'.failed = m.failed
      BY <1>0, <2>1 DEF ConnStart, m
    <3> QED
      BY <1>0, <3>2, <3>3
  <2>2. CASE /\ Moves(c, "next", "end") \/ Moves(c, "dial", "end")
             /\ KeepsPiped(c) /\ metrics' = [metrics EXCEPT !.failed = @ + 1]
    <3>1. ~conn'[c].piped
      BY <2>2 DEF Moves, KeepsPiped, Piped, PipedStages, Ended
    <3>2. T' = T /\ A' = A /\ F' = F + 1
      BY <1>t, <2>2, <3>1 DEF Ended
    <3>3. m'.total = m.total /\ m'.active = m.active /\ m'.failed = m.failed + 1
      BY <1>0, <2>2 DEF m
    <3> QED
      BY <1>0, <3>2, <3>3
  <2>3. CASE ConnEnd(c)
    <3>1. Moves(c, "end", "done") /\ KeepsPiped(c)
      BY <2>3, HandlerEffects DEF Typed, KeepsAll
    <3>2. T' = T /\ A' = A - 1 /\ F' = F
      BY <1>t, <3>1 DEF Ended
    <3>3. m'.total = m.total /\ m'.active = m.active - 1 /\ m'.failed = m.failed
      BY <1>0, <2>3 DEF ConnEnd, m
    <3> QED
      BY <1>0, <3>2, <3>3
  <2>4. CASE PipeEnds(c)
    <3>1. Moves(c, "piping", "end") /\ KeepsPiped(c) /\ UNCHANGED metrics
      BY <2>4, HandlerEffects DEF Typed, KeepsAll, PipeEnds, counts
    <3>2. conn[c].piped /\ conn'[c].piped
      BY <3>1 DEF Moves, KeepsPiped, Piped
    <3>3. T' = T /\ A' = A /\ F' = F
      BY <1>t, <3>1, <3>2 DEF Ended
    <3> QED
      BY <1>q, <3>1, <3>3
  <2>5. CASE Done(c)
    <3>1. Moves(c, "done", "closed") /\ KeepsPiped(c) /\ UNCHANGED metrics
      BY <2>5, HandlerEffects DEF Typed, KeepsAll, Done
    <3>2. T' = T /\ A' = A /\ F' = F
      BY <1>t, <3>1 DEF Ended
    <3> QED
      BY <1>q, <3>1, <3>2
  <2>6. CASE /\ UNCHANGED metrics
             /\ \/ Moves(c, "new", "queued") \/ Moves(c, "next", "choose")
                \/ Moves(c, "choose", "lookup") \/ Moves(c, "lookup", "incr")
                \/ Moves(c, "incr", "dial") \/ Moves(c, "dial", "piping")
    <3>1. T' = T /\ A' = A /\ F' = F
      BY <1>t, <2>6 DEF Ended
    <3> QED
      BY <1>q, <2>6, <3>1
  <2>7. CASE Connect(c) \/ Choose(c) \/ LookupCounter(c) \/ IncrRequests(c)
    <3>1. UNCHANGED metrics
      BY <2>7 DEF Connect, Choose, LookupCounter, IncrRequests, counts
    <3> QED
      BY <2>6, <2>7, <3>1, AcceptEffects, HandlerEffects, ChooseEffect DEF Typed
  <2>8. CASE TakeSnapshot(c) \/ Dial(c)
    BY <2>2, <2>6, <2>8, HandlerEffects DEF Typed, KeepsAll
  <2> QED
    BY <1>4, <2>1, <2>3, <2>4, <2>5, <2>7, <2>8 DEF Handler
<1>5. CASE UNCHANGED vars
  BY <1>r, <1>5 DEF vars
<1> QED
  BY <1>1, <1>2, <1>3, <1>4, <1>5 DEF Next

-----------------------------------------------------------------------------
(* Routing: which registration a connection is sent to. *)

Unrouted == {"new", "queued", "refused", "accepted", "start", "next", "choose"}

\* registry.go, router.go: each registration has its own counter; an active
\* backend has not been retired; a connection has no backend before it is
\* routed, and neither that backend nor any it has to choose from had been
\* retired when it was accepted.
Fresh ==
    /\ \A i, j \in DOMAIN store : store[i].requests = store[j].requests => i = j
    /\ \A i \in Active(store) : store[i].requests \notin retired
    /\ \A c \in Conns :
          /\ conn[c].avoid \subseteq retired
          /\ conn[c].pc \in Unrouted => conn[c].back = Nobody
          /\ conn[c].pc = "choose" =>
                \A i \in DOMAIN conn[c].snap : conn[c].snap[i].requests \notin conn[c].avoid
          /\ conn[c].back.requests \notin conn[c].avoid

Sent(k) == {c \in Conns : conn[c].back.requests = k}
Credited(k) == {c \in Sent(k) : conn[c].pc \notin {"lookup", "incr"}}

\* router.go: while nothing is removed, the id by which incrRequests looks a
\* counter up still finds the registration that was chosen, so every counter
\* has what it should have.
Hits ==
    /\ \A k \in Cells : hits[k] = Cardinality(Credited(k))
    /\ \A c \in Conns :
          /\ conn[c].pc = "choose" =>
                \A i \in DOMAIN conn[c].snap :
                    i \in DOMAIN store /\ store[i].requests = conn[c].snap[i].requests
          /\ conn[c].pc = "lookup" =>
                /\ conn[c].ptr \in DOMAIN store
                /\ store[conn[c].ptr].requests = conn[c].back.requests
          /\ conn[c].pc = "incr" => conn[c].ptr = conn[c].back.requests

Chosen == {c \in Conns : conn[c].back # Nobody}
Injective(A) == \A i, j \in DOMAIN A : A[i] = A[j] => i = j

\* router.go: if all choices were made from the same registrations A, these
\* have been sent q connections each in as many full rounds, and one more those
\* whose turn has already come in the current one.
Turns(A, q, t) ==
    /\ counter = Cardinality(DOMAIN A) * q + t
    /\ \A i \in DOMAIN A : Cardinality(Sent(A[i])) = q + Bit(Rank(DOMAIN A, i) < t)

Even ==
    /\ Chosen = {} => counter = 0
    /\ \A A \in Choices :
          DOMAIN A # {} /\ Injective(A) /\ (\A c \in Chosen : conn[c].among = A) =>
              \E q \in Nat, t \in 0 .. Cardinality(DOMAIN A) - 1 : Turns(A, q, t)

\* One step, seen from the registry: it stays, or one method of it is called.
RegistryStep ==
    \/ UNCHANGED registry
    \/ \E id \in Ids, addr \in Addrs : Register(id, addr)
    \/ \E id \in DOMAIN store :
          /\ store' = SetDraining(store, id) \/ (store' = Remove(store, id) /\ "remove" \in Ops)
          /\ retired' = retired \cup {store[id].requests}
          /\ UNCHANGED adds

\* One step of connection c, seen from the router.
Routes == {"choose", "lookup", "incr"}
RouteStep(c) ==
    /\ Others(c)
    /\ \/ Choose(c)
       \/ LookupCounter(c)
       \/ IncrRequests(c)
       \/ /\ Moves(c, "queued", "accepted") /\ conn'[c].avoid = retired
          /\ KeepsRoute(c) /\ UNCHANGED <<hits, counter>>
       \/ /\ Moves(c, "next", "choose")
          /\ conn'[c].snap = [i \in Active(store) |-> store[i]]
          /\ KeepsRoute(c) /\ KeepsAvoid(c) /\ UNCHANGED <<hits, counter>>
       \/ /\ conn[c].pc \notin Routes /\ conn'[c].pc \notin Routes
          /\ conn'[c].pc \in Unrouted => conn[c].pc \in Unrouted
          /\ KeepsRoute(c) /\ KeepsAvoid(c) /\ UNCHANGED <<hits, counter>>

\* One step changes the registry, shuts a port or is a connection's, and only
\* the last touches counters.
LEMMA RouteSteps ==
    ASSUME Typed, [Next]_vars
    PROVE  \/ UNCHANGED <<conn, hits, counter>> /\ RegistryStep
           \/ UNCHANGED <<store, adds, retired, hits, counter>> /\ \E l \in Ports : Shut(l)
           \/ UNCHANGED <<store, adds, retired>> /\ \E c \in Conns : RouteStep(c)
<1> USE DEF registry
<1>1. CASE Main
  <2>1. CASE Seed
    <3>1. SeedPort \in Addrs /\ Seeds \subseteq Ids
      BY ProxyAssumption DEF Addrs
    <3> QED
      BY <2>1, <3>1 DEF Seed, RegistryStep, counts
  <2>2. CASE Bind \/ CloseListeners \/ Wait \/ Drained \/ DrainTimeout \/ Exit
    BY <2>2 DEF Bind, CloseListeners, Wait, Drained, DrainTimeout, Exit, RegistryStep, counts
  <2> QED
    BY <1>1, <2>1, <2>2 DEF Main
<1>2. CASE Sigterm \/ Unbind
  BY <1>2 DEF Sigterm, Unbind, Shut, RegistryStep, counts
<1>3. CASE Api
  <2>1. CASE ApiAdd
    BY <2>1 DEF ApiAdd, Addrs, RegistryStep, counts
  <2>2. CASE ApiDrain \/ ApiRemove
    BY <2>2 DEF ApiDrain, ApiRemove, RegistryStep, counts
  <2> QED
    BY <1>3, <2>1, <2>2 DEF Api
<1>4. ASSUME NEW l \in Ports, AcceptLoop(l)
      PROVE  \/ UNCHANGED <<conn, hits, counter>> /\ RegistryStep
             \/ UNCHANGED <<store, adds, retired>> /\ \E c \in Conns : RouteStep(c)
  <2>1. CASE Accept(l)
    <3>1. PICK c \in Conns : /\ Moves(c, "queued", "accepted") /\ conn'[c].avoid = retired
                             /\ KeepsRoute(c)
      BY <2>1, AcceptEffects DEF Typed
    <3>2. UNCHANGED <<store, adds, retired, hits, counter>>
      BY <2>1 DEF Accept, counts
    <3> QED
      BY <3>1, <3>2 DEF RouteStep, Moves
  <2>2. CASE Spawn(l)
    <3>1. PICK c \in Conns : Moves(c, "accepted", "start") /\ KeepsRoute(c) /\ KeepsAvoid(c)
      BY <2>2, AcceptEffects DEF Typed, KeepsAll
    <3>2. UNCHANGED <<store, adds, retired, hits, counter>>
      BY <2>2 DEF Spawn, counts
    <3> QED
      BY <3>1, <3>2 DEF RouteStep, Moves, Routes, Unrouted
  <2>3. CASE AcceptError(l) \/ Retry(l) \/ Count(l)
    BY <2>3 DEF AcceptError, Retry, Count, RegistryStep, counts
  <2> QED
    BY <1>4, <2>1, <2>2, <2>3 DEF AcceptLoop
<1>5. ASSUME NEW c \in Conns, Handler(c) \/ Connect(c) \/ PipeEnds(c)
      PROVE  UNCHANGED <<store, adds, retired>> /\ RouteStep(c)
  <2>1. CASE Choose(c)
    BY <2>1, ChooseEffect DEF Choose, RouteStep, Moves, Typed
  <2>2. CASE LookupCounter(c)
    BY <2>2, HandlerEffects DEF LookupCounter, RouteStep, Moves, Typed
  <2>3. CASE IncrRequests(c)
    BY <2>3, HandlerEffects DEF IncrRequests, RouteStep, Moves, Typed
  <2>4. CASE TakeSnapshot(c)
    <3>1. UNCHANGED <<store, adds, retired, hits, counter>>
      BY <2>4 DEF TakeSnapshot
    <3>2. \/ Moves(c, "next", "end") /\ KeepsRoute(c) /\ KeepsAvoid(c)
          \/ /\ Moves(c, "next", "choose")
             /\ conn'[c].snap = [i \in Active(store) |-> store[i]]
             /\ KeepsRoute(c) /\ KeepsAvoid(c)
      BY <2>4, HandlerEffects DEF KeepsAll, Typed
    <3> QED
      BY <3>1, <3>2 DEF RouteStep, Moves, Routes, Unrouted
  <2>5. CASE ConnStart(c) \/ Dial(c) \/ ConnEnd(c) \/ Done(c) \/ Connect(c) \/ PipeEnds(c)
    <3>1. UNCHANGED <<store, adds, retired, hits, counter>>
      BY <2>5 DEF ConnStart, Dial, ConnEnd, Done, Connect, PipeEnds, counts
    <3>2. /\ KeepsRoute(c) /\ KeepsAvoid(c)
          /\ \/ Moves(c, "start", "next") \/ Moves(c, "dial", "end")
             \/ Moves(c, "dial", "piping") \/ Moves(c, "end", "done")
             \/ Moves(c, "done", "closed") \/ Moves(c, "new", "queued")
             \/ Moves(c, "piping", "end")
      BY <2>5, HandlerEffects, AcceptEffects DEF KeepsAll, Typed
    <3> QED
      BY <3>1, <3>2 DEF RouteStep, Moves, Routes, Unrouted
  <2> QED
    BY <1>5, <2>1, <2>2, <2>3, <2>4, <2>5 DEF Handler
<1>6. CASE UNCHANGED vars
  BY <1>6 DEF vars, RegistryStep
<1> QED
  BY <1>1, <1>2, <1>3, <1>4, <1>5, <1>6 DEF Next

\* Each method of the registry gives every registration a counter of its own
\* and retires what it drains or removes.
LEMMA FreshRegistry ==
    ASSUME Typed, Fresh, RegistryStep
    PROVE  /\ \A i, j \in DOMAIN store' : store'[i].requests = store'[j].requests => i = j
           /\ \A i \in Active(store') : store'[i].requests \notin retired'
           /\ retired \subseteq retired'
<1>0. /\ \A i \in DOMAIN store : store[i] \in Backend /\ store[i].requests \in 1 .. adds
      /\ retired \subseteq 1 .. adds /\ adds \in Nat
      /\ \A i, j \in DOMAIN store : store[i].requests = store[j].requests => i = j
      /\ \A i \in DOMAIN store : ~store[i].draining => store[i].requests \notin retired
  BY StoreType, ProxyAssumption DEF Typed, Shape, Fresh, Active
<1>1. CASE UNCHANGED registry
  BY <1>0, <1>1 DEF registry, Active
<1>2. ASSUME NEW id \in Ids, NEW addr \in Addrs, Register(id, addr)
      PROVE  /\ \A i, j \in DOMAIN store' : store'[i].requests = store'[j].requests => i = j
             /\ \A i \in Active(store') : store'[i].requests \notin retired'
             /\ retired \subseteq retired'
  <2>1. /\ DOMAIN store' = DOMAIN store \cup {id} /\ id \notin DOMAIN store
        /\ store'[id].requests = adds + 1 /\ retired' = retired
        /\ \A i \in DOMAIN store : store'[i] = store[i]
    BY <1>2 DEF Register, Add
  <2>2. adds + 1 \notin 1 .. adds
    BY <1>0
  <2> QED
    BY <1>0, <2>1, <2>2 DEF Active
<1>3. ASSUME NEW id \in DOMAIN store,
             store' = SetDraining(store, id) \/ store' = Remove(store, id),
             retired' = retired \cup {store[id].requests}
      PROVE  /\ \A i, j \in DOMAIN store' : store'[i].requests = store'[j].requests => i = j
             /\ \A i \in Active(store') : store'[i].requests \notin retired'
             /\ retired \subseteq retired'
  <2>1. \A i \in DOMAIN store' : /\ i \in DOMAIN store /\ store'[i].requests = store[i].requests
                                 /\ ~store'[i].draining => i # id /\ ~store[i].draining
    BY <1>0, <1>3 DEF SetDraining, Remove, Backend
  <2> QED
    BY <1>0, <1>3, <2>1 DEF Active
<1> QED
  BY <1>1, <1>2, <1>3 DEF RegistryStep

\* A drained backend stays off limits to those that came after the drain.
LEMMA FreshStep == Typed /\ Typed' /\ Fresh /\ [Next]_vars => Fresh'
<1> SUFFICES ASSUME Typed, Typed', Fresh, [Next]_vars PROVE Fresh'
  OBVIOUS
<1> DEFINE Safe(r, gone) ==
      /\ r.avoid \subseteq gone
      /\ r.pc \in Unrouted => r.back = Nobody
      /\ r.pc = "choose" => \A i \in DOMAIN r.snap : r.snap[i].requests \notin r.avoid
      /\ r.back.requests \notin r.avoid
           Own(s, gone) ==
      /\ \A i, j \in DOMAIN s : s[i].requests = s[j].requests => i = j
      /\ \A i \in Active(s) : s[i].requests \notin gone
<1>0. /\ Own(store, retired) /\ \A c \in Conns : Safe(conn[c], retired)
      /\ Own(store', retired') /\ (\A c \in Conns : Safe(conn'[c], retired')) => Fresh'
  BY DEF Fresh
<1>1. CASE UNCHANGED <<conn, hits, counter>> /\ RegistryStep
  <2>1. Own(store', retired') /\ retired \subseteq retired'
    BY <1>1, FreshRegistry
  <2>2. \A c \in Conns : Safe(conn'[c], retired')
    BY <1>0, <1>1, <2>1
  <2> QED
    BY <1>0, <2>1, <2>2
<1>2. CASE UNCHANGED <<store, adds, retired, hits, counter>> /\ \E l \in Ports : Shut(l)
  <2>1. \A c \in Conns : Safe(conn'[c], retired)
    BY <1>0, <1>2, ShutEffect DEF Typed, KeepsAll, KeepsRoute, KeepsAvoid, Unrouted
  <2> HIDE DEF Safe, Own
  <2> QED
    BY <1>0, <1>2, <2>1
<1>3. ASSUME UNCHANGED <<store, adds, retired>>, NEW c \in Conns, RouteStep(c)
      PROVE  Fresh'
  <2>1. Safe(conn'[c], retired)
    <3>1. CASE Choose(c)
      <4>1. PICK i \in DOMAIN conn[c].snap :
               /\ Moves(c, "choose", "lookup") /\ KeepsAvoid(c)
               /\ conn'[c].back = [addr |-> conn[c].snap[i].addr,
                                   requests |-> conn[c].snap[i].requests]
        BY <3>1, ChooseEffect DEF Typed
      <4>2. conn[c].snap[i].requests \notin conn[c].avoid /\ conn[c].avoid \subseteq retired
        BY <1>0, <4>1 DEF Moves
      <4> QED
        BY <4>1, <4>2 DEF Moves, KeepsAvoid, Unrouted
    <3>2. CASE Moves(c, "queued", "accepted") /\ conn'[c].avoid = retired /\ KeepsRoute(c)
      <4>1. conn'[c].back = Nobody
        BY <1>0, <3>2 DEF Moves, KeepsRoute, Unrouted
      <4>2. Nobody.requests \notin retired
        BY DEF Nobody, Typed, Shape
      <4> QED
        BY <3>2, <4>1, <4>2 DEF Moves
    <3>3. CASE /\ Moves(c, "next", "choose")
               /\ conn'[c].snap = [i \in Active(store) |-> store[i]]
               /\ KeepsRoute(c) /\ KeepsAvoid(c)
      BY <1>0, <3>3 DEF Moves, KeepsRoute, KeepsAvoid, Unrouted
    <3>4. CASE /\ conn'[c].pc # "choose"
               /\ conn'[c].pc \in Unrouted => conn[c].pc \in Unrouted
               /\ KeepsRoute(c) /\ KeepsAvoid(c)
      BY <1>0, <3>4 DEF KeepsRoute, KeepsAvoid
    <3>5. CASE LookupCounter(c) \/ IncrRequests(c)
      <4>1. /\ Moves(c, "lookup", "incr") \/ Moves(c, "incr", "dial")
            /\ KeepsRoute(c) /\ KeepsAvoid(c)
        BY <3>5, HandlerEffects DEF Typed
      <4> QED
        BY <3>4, <4>1 DEF Moves, Unrouted
    <3> QED
      BY <1>3, <3>1, <3>2, <3>3, <3>4, <3>5 DEF RouteStep, Routes
  <2>2. \A d \in Conns \ {c} : conn'[d] = conn[d]
    BY <1>3 DEF RouteStep, Others
  <2> HIDE DEF Safe, Own
  <2> QED
    BY <1>0, <1>3, <2>1, <2>2
<1> QED
  BY <1>1, <1>2, <1>3, RouteSteps

\* At the start nobody is counted, and nothing has been routed.
LEMMA Start == Init => Counts /\ Fresh
<1> SUFFICES ASSUME Init PROVE Counts /\ Fresh
  OBVIOUS
<1>1. \A X : "new" \notin X => InState(X) = {}
  BY DEF Init, InState
<1>2. Piped
  BY DEF Init, Piped
<1>3. WgCounts
  <2>1. {l \in Ports : loop[l] = "spawn"} = {} /\ InState(Handled) = {}
    BY <1>1 DEF Init, Handled, InNext, Routing
  <2>2. Cardinality({}) = 0
    BY FS_EmptySet
  <2> QED
    BY <2>1, <2>2 DEF WgCounts, Init
<1>4. MetricsExact
  <2>1. /\ InState((Handled \ {"start"}) \cup {"closed"}) = {}
        /\ InState(InNext \cup {"end"}) = {}
        /\ {c \in InState({"end", "done", "closed"}) : ~conn[c].piped} = {}
    BY <1>1 DEF Handled, InNext, Routing
  <2>2. Cardinality({}) = 0
    BY FS_EmptySet
  <2> QED
    BY <2>1, <2>2 DEF MetricsExact, Init
<1>5. Fresh
  BY DEF Init, Fresh, Nobody, NewRegistry, Active, Unrouted
<1> QED
  BY <1>2, <1>3, <1>4, <1>5 DEF Counts

\* The WaitGroup, the metrics and the registrations are right in every
\* reachable state.
THEOREM CountsAlways == Spec => [](Counts /\ Fresh)
<1>1. Typed /\ Typed' /\ Counts /\ Fresh /\ [Next]_vars => (Counts /\ Fresh)'
  BY PipedStep, WgStep, MetricsStep, FreshStep DEF Counts
<1> QED
  BY <1>1, Start, TypedAlways, PTL DEF Spec

\* server.go, activeConns: the WaitGroup counts exactly the connections that a
\* handler has, or is about to get, and has not finished with.
THEOREM WgCountsAlways == Spec => []WgCounts
<1>1. Counts => WgCounts
  BY DEF Counts
<1> QED
  BY <1>1, CountsAlways, PTL

\* metrics.go: every accepted connection is counted once, is active until it
\* ends, and has failed if it ends without having reached a backend.
THEOREM MetricsExactAlways == Spec => []MetricsExact
<1>1. Counts => MetricsExact
  BY DEF Counts
<1> QED
  BY <1>1, CountsAlways, PTL

\* registry.go and router.go: a connection accepted after a backend was drained
\* or removed is never routed to that registration of it.
THEOREM DrainedNeverChosenAlways == Spec => []DrainedNeverChosen
<1>1. Fresh => DrainedNeverChosen
  BY DEF Fresh, DrainedNeverChosen
<1> QED
  BY <1>1, CountsAlways, PTL

\* Every variable keeps its type: in particular no counter, and not the
\* WaitGroup, ever falls below zero.
THEOREM TypeOKAlways == Spec => []TypeOK
<1>1. Typed /\ Counts /\ Fresh => TypeOK
  <2> SUFFICES ASSUME Typed, Counts, Fresh PROVE TypeOK
    OBVIOUS
  <2>1. wg \in Nat
    <3>1. "new" \notin Handled
      BY DEF Handled, InNext, Routing
    <3> QED
      BY <3>1, StageCount, SpawnCount DEF Typed, Counts, WgCounts, Spawning
  <2>2. metrics \in [total : Nat, active : Nat, failed : Nat]
    <3>1. /\ "new" \notin (Handled \ {"start"}) \cup {"closed"} /\ "new" \notin InNext \cup {"end"}
          /\ "new" \notin {"end", "done", "closed"}
      BY DEF Handled, InNext, Routing
    <3>2. IsFiniteSet({c \in InState({"end", "done", "closed"}) : ~conn[c].piped})
      BY <3>1, StageCount, FS_Subset DEF Typed
    <3>3. metrics.total \in Nat /\ metrics.active \in Nat /\ metrics.failed \in Nat
      BY <3>1, <3>2, StageCount, FS_CardinalityType DEF Typed, Counts, MetricsExact
    <3> QED
      BY <3>3 DEF Typed, Shape
  <2>3. ASSUME NEW c \in Conns
        PROVE  /\ conn[c].pc \in {"new", "queued", "refused", "accepted", "closed"} \cup Handled
               /\ conn[c].port \in Ports \cup {0}
               /\ DOMAIN conn[c].snap \subseteq Ids
               /\ conn[c].back.requests \in {0} \cup Cells
               /\ conn[c].avoid \subseteq retired
    <3>1. conn[c] \in Connection
      BY DEF Typed, Shape
    <3>2. DOMAIN conn[c].snap \subseteq Ids
      BY <3>1, StoreType DEF Connection
    <3> QED
      BY <3>1, <3>2 DEF Connection, Stages, Fresh
  <2>4. DOMAIN store \subseteq Ids
    BY StoreType DEF Typed, Shape
  <2> QED
    BY <2>1, <2>2, <2>3, <2>4 DEF TypeOK, Typed, Shape, Mains, Loops
<1> QED
  BY <1>1, TypedAlways, CountsAlways, PTL

-----------------------------------------------------------------------------
(* Requests. *)

\* Only connections that have been made are sent anywhere.
LEMMA SentFinite ==
    ASSUME Typed, Fresh, NEW k \in Cells
    PROVE  IsFiniteSet(Sent(k)) /\ IsFiniteSet(Credited(k))
<1>1. Sent(k) \subseteq {c \in Conns : conn[c].pc # "new"} /\ Credited(k) \subseteq Sent(k)
  BY DEF Sent, Credited, Fresh, Unrouted, Nobody, Cells
<1> QED
  BY <1>1, FS_Subset DEF Typed, Finite

\* incrRequests keeps the counters up with the connections routed, as long as
\* nothing is removed.
LEMMA HitsStep ==
    ASSUME "remove" \notin Ops, Typed, Typed', Fresh, Hits, [Next]_vars
    PROVE  Hits'
<1> DEFINE Finds(r, s) ==
      /\ r.pc = "choose" =>
            \A i \in DOMAIN r.snap : i \in DOMAIN s /\ s[i].requests = r.snap[i].requests
      /\ r.pc = "lookup" => r.ptr \in DOMAIN s /\ s[r.ptr].requests = r.back.requests
      /\ r.pc = "incr" => r.ptr = r.back.requests
<1>0. /\ \A k \in Cells : hits[k] = Cardinality(Credited(k))
      /\ \A c \in Conns : Finds(conn[c], store)
  BY DEF Hits
<1>a. ASSUME \A k \in Cells : hits'[k] = Cardinality(Credited(k)'),
             \A c \in Conns : Finds(conn'[c], store')
      PROVE  Hits'
  BY <1>a DEF Hits
<1>1. CASE UNCHANGED <<conn, hits, counter>> /\ RegistryStep
  <2>1. \A i \in DOMAIN store : i \in DOMAIN store' /\ store'[i].requests = store[i].requests
    <3>1. \A i \in DOMAIN store : store[i] \in Backend
      BY StoreType DEF Typed, Shape
    <3> QED
      BY <1>1, <3>1 DEF RegistryStep, registry, Register, Add, SetDraining, Backend
  <2>2. \A c \in Conns : Finds(conn'[c], store')
    BY <1>0, <1>1, <2>1
  <2>3. \A k \in Cells : hits'[k] = Cardinality(Credited(k)')
    BY <1>0, <1>1 DEF Credited, Sent
  <2> HIDE DEF Finds
  <2> QED
    BY <1>a, <2>2, <2>3
<1>2. CASE UNCHANGED <<store, adds, retired, hits, counter>> /\ \E l \in Ports : Shut(l)
  <2>1. \A c \in Conns : \/ conn'[c] = conn[c]
                         \/ conn[c].pc = "queued" /\ conn'[c].pc = "refused" /\ KeepsAll(c)
    BY <1>2, ShutEffect DEF Typed
  <2>2. \A c \in Conns : Finds(conn'[c], store')
    BY <1>0, <1>2, <2>1
  <2>3. ASSUME NEW k \in Cells
        PROVE  Credited(k)' = Credited(k)
    BY <2>1 DEF Credited, Sent, KeepsAll, KeepsRoute
  <2> HIDE DEF Finds
  <2> QED
    BY <1>0, <1>a, <1>2, <2>2, <2>3
<1>3. ASSUME UNCHANGED <<store, adds, retired>>, NEW c \in Conns, RouteStep(c)
      PROVE  Hits'
  <2>0. \A d \in Conns \ {c} : conn'[d] = conn[d]
    BY <1>3 DEF RouteStep, Others
  <2>a. ASSUME Finds(conn'[c], store), \A k \in Cells : hits'[k] = Cardinality(Credited(k)')
        PROVE  Hits'
    <3> HIDE DEF Finds
    <3>1. \A d \in Conns : Finds(conn'[d], store')
      BY <1>0, <1>3, <2>0, <2>a
    <3> QED
      BY <1>a, <2>a, <3>1
  <2>b. ASSUME UNCHANGED hits, NEW k \in Cells,
               (c \in Credited(k)') <=> (c \in Credited(k))
        PROVE  hits'[k] = Cardinality(Credited(k)')
    <3>1. Credited(k)' = Credited(k)
      BY <2>0, <2>b DEF Credited, Sent
    <3> QED
      BY <1>0, <2>b, <3>1
  <2>1. CASE Choose(c)
    <3>1. PICK i \in DOMAIN conn[c].snap :
             /\ Moves(c, "choose", "lookup") /\ conn'[c].ptr = i
             /\ conn'[c].back = [addr |-> conn[c].snap[i].addr,
                                 requests |-> conn[c].snap[i].requests]
      BY <2>1, ChooseEffect DEF Typed
    <3>2. Finds(conn'[c], store)
      BY <1>0, <3>1 DEF Moves
    <3>3. ASSUME NEW k \in Cells
          PROVE  c \notin Credited(k)' /\ c \notin Credited(k)
      BY <3>1 DEF Moves, Credited, Sent, Fresh, Unrouted, Nobody, Cells
    <3>4. UNCHANGED hits
      BY <2>1 DEF Choose
    <3> HIDE DEF Finds
    <3> QED
      BY <2>a, <2>b, <3>2, <3>3, <3>4
  <2>2. CASE LookupCounter(c)
    <3>1. /\ Moves(c, "lookup", "incr")
          /\ conn'[c].ptr = IF conn[c].ptr \in DOMAIN store
                            THEN store[conn[c].ptr].requests ELSE 0
          /\ conn'[c].back = conn[c].back
      BY <2>2, HandlerEffects DEF Typed, KeepsRoute
    <3>2. Finds(conn'[c], store)
      BY <1>0, <3>1 DEF Moves
    <3>3. ASSUME NEW k \in Cells
          PROVE  c \notin Credited(k)' /\ c \notin Credited(k)
      BY <3>1 DEF Moves, Credited
    <3>4. UNCHANGED hits
      BY <2>2 DEF LookupCounter, counts
    <3> HIDE DEF Finds
    <3> QED
      BY <2>a, <2>b, <3>2, <3>3, <3>4
  <2>3. CASE IncrRequests(c)
    <3>1. /\ Moves(c, "incr", "dial") /\ conn'[c].back = conn[c].back
          /\ hits' = [k \in Cells |-> IF k = conn[c].ptr THEN hits[k] + 1 ELSE hits[k]]
      BY <2>3, HandlerEffects DEF Typed, KeepsRoute, IncrRequests
    <3>2. Finds(conn'[c], store)
      BY <3>1 DEF Moves
    <3>3. conn[c].ptr = conn[c].back.requests
      BY <1>0, <3>1 DEF Moves
    <3>4. ASSUME NEW k \in Cells
          PROVE  hits'[k] = Cardinality(Credited(k)')
      <4>1. CASE k = conn[c].ptr
        <5>1. c \notin Credited(k) /\ Credited(k)' = Credited(k) \cup {c}
          BY <2>0, <3>1, <3>3, <4>1 DEF Moves, Credited, Sent
        <5>2. Cardinality(Credited(k)') = Cardinality(Credited(k)) + 1
          BY <5>1, SentFinite, FS_AddElement
        <5> QED
          BY <1>0, <3>1, <4>1, <5>2
      <4>2. CASE k # conn[c].ptr
        <5>1. Credited(k)' = Credited(k)
          BY <2>0, <3>1, <3>3, <4>2 DEF Moves, Credited, Sent
        <5> QED
          BY <1>0, <3>1, <4>2, <5>1
      <4> QED
        BY <4>1, <4>2
    <3> HIDE DEF Finds
    <3> QED
      BY <2>a, <3>2, <3>4
  <2>4. CASE /\ Moves(c, "next", "choose")
             /\ conn'[c].snap = [i \in Active(store) |-> store[i]]
             /\ KeepsRoute(c) /\ UNCHANGED hits
    <3>1. Finds(conn'[c], store)
      BY <2>4 DEF Moves, Active
    <3>2. ASSUME NEW k \in Cells
          PROVE  (c \in Credited(k)') <=> (c \in Credited(k))
      BY <2>4 DEF Moves, KeepsRoute, Credited, Sent
    <3> HIDE DEF Finds
    <3> QED
      BY <2>4, <2>a, <2>b, <3>1, <3>2
  <2>5. CASE /\ conn[c].pc \notin Routes /\ conn'[c].pc \notin {"lookup", "incr", "choose"}
             /\ KeepsRoute(c) /\ UNCHANGED hits
    <3>1. Finds(conn'[c], store)
      BY <2>5
    <3>2. ASSUME NEW k \in Cells
          PROVE  (c \in Credited(k)') <=> (c \in Credited(k))
      BY <2>5 DEF Routes, KeepsRoute, Credited, Sent
    <3> HIDE DEF Finds
    <3> QED
      BY <2>5, <2>a, <2>b, <3>1, <3>2
  <2> HIDE DEF Finds
  <2> QED
    BY <1>3, <2>1, <2>2, <2>3, <2>4, <2>5 DEF RouteStep, Routes, Moves
<1> QED
  BY <1>1, <1>2, <1>3, RouteSteps

\* "requests is the total number of connections routed to that backend since
\* it was registered": of every registered backend, up to those connections
\* still in incrRequests, as long as no backend is removed.
THEOREM RequestsExactAlways ==
    ASSUME "remove" \notin Ops
    PROVE  Spec => []RequestsExact
<1>1. Init => Hits
  <2> SUFFICES ASSUME Init PROVE Hits
    OBVIOUS
  <2>1. ASSUME NEW k \in Cells
        PROVE  Credited(k) = {}
    BY DEF Init, Credited, Sent, Nobody, Cells
  <2>2. Cardinality({}) = 0
    BY FS_EmptySet
  <2> QED
    BY <2>1, <2>2 DEF Init, Hits
<1>2. Typed /\ Typed' /\ Fresh /\ Hits /\ [Next]_vars => Hits'
  BY HitsStep
<1>3. Typed /\ Fresh /\ Hits => RequestsExact
  <2> SUFFICES ASSUME Typed, Fresh, Hits, NEW i \in DOMAIN store
               PROVE  LET routed == {c \in Conns : conn[c].back.requests = store[i].requests}
                      IN  hits[store[i].requests] =
                             Cardinality(routed)
                             - Cardinality(routed \cap InState({"lookup", "incr"}))
    BY DEF RequestsExact
  <2> DEFINE k == store[i].requests
             L == InState({"lookup", "incr"})
  <2>1. k \in Cells
    BY ProxyAssumption DEF Typed, Shape, Cells
  <2>2. IsFiniteSet(Sent(k)) /\ Credited(k) = Sent(k) \ L
    BY <2>1, SentFinite DEF Credited, Sent, InState
  <2>3. Cardinality(Credited(k)) = Cardinality(Sent(k)) - Cardinality(Sent(k) \cap L)
    BY <2>2, FS_Difference
  <2> QED
    BY <2>1, <2>3 DEF Hits, Sent
<1> QED
  BY <1>1, <1>2, <1>3, TypedAlways, CountsAlways, PTL DEF Spec

-----------------------------------------------------------------------------
(* Round robin. *)

\* active[n % len(active)]: the turn it is after q full rounds.
LEMMA WhoseTurn ==
    ASSUME NEW n \in Nat, NEW m \in Nat \ {0}, NEW q \in Nat, NEW t \in 0 .. m - 1,
           n = m * q + t
    PROVE  n % m = t
OBVIOUS

\* What Choices says of the registrations there were to choose from.
LEMMA ChoicesType ==
    ASSUME NEW A \in Choices
    PROVE  /\ DOMAIN A \subseteq Nat /\ IsFiniteSet(DOMAIN A)
           /\ \A i \in DOMAIN A : A[i] \in Cells
           /\ Cardinality(DOMAIN A) \in Nat
           /\ DOMAIN A # {} => Cardinality(DOMAIN A) > 0
<1>1. /\ DOMAIN A \subseteq Nat /\ IsFiniteSet(DOMAIN A)
      /\ \A i \in DOMAIN A : A[i] \in Cells
  BY ProxyAssumption DEF Choices, IdSets
<1> QED
  BY <1>1, FS_CardinalityType, FS_EmptySet

\* A step that chooses nothing leaves the rounds where they are.
LEMMA EvenKept ==
    ASSUME Even, UNCHANGED counter, \A c \in Conns : KeepsRoute(c)
    PROVE  Even'
<1>1. /\ Chosen' = Chosen
      /\ \A c \in Conns : conn'[c].among = conn[c].among
      /\ \A k : Sent(k)' = Sent(k)
  BY DEF KeepsRoute, Chosen, Sent
<1>2. \A A, q, t : Turns(A, q, t) => Turns(A, q, t)'
  BY <1>1 DEF Turns
<1> QED
  BY <1>1, <1>2 DEF Even, Chosen

\* Each choice gives the one whose turn it is one connection more.
LEMMA EvenChoose ==
    ASSUME Typed, Typed', Fresh, Even, NEW c \in Conns, Choose(c)
    PROVE  Even'
<1> DEFINE snap == conn[c].snap
           B == [j \in DOMAIN snap |-> snap[j].requests]
<1>1. PICK i \in DOMAIN snap :
         /\ Rank(DOMAIN snap, i) = counter % Cardinality(DOMAIN snap)
         /\ snap[i] \in Backend
         /\ Moves(c, "choose", "lookup") /\ conn'[c].among = B
         /\ conn'[c].back = [addr |-> snap[i].addr, requests |-> snap[i].requests]
  BY ChooseEffect DEF Typed
<1>2. /\ counter' = counter + 1 /\ counter \in Nat
      /\ conn[c].back = Nobody /\ conn[c].back.requests = 0
      /\ conn'[c].back.requests = B[i] /\ B[i] \in Cells
      /\ \A d \in Conns \ {c} : conn'[d] = conn[d]
  <2>1. counter' = counter + 1
    BY DEF Choose
  <2>2. conn[c].back = Nobody /\ Nobody.requests = 0
    BY <1>1 DEF Moves, Fresh, Unrouted, Nobody
  <2>3. B[i] = snap[i].requests /\ B[i] \in Cells
    BY <1>1 DEF Backend
  <2>4. conn'[c].back.requests = snap[i].requests
    BY <1>1
  <2> HIDE DEF B
  <2> QED
    BY <1>1, <2>1, <2>2, <2>3, <2>4 DEF Moves, Others, Typed, Shape
<1> HIDE DEF B
<1>3. c \in Chosen' /\ c \notin Chosen /\ Chosen \subseteq Chosen'
  BY <1>2 DEF Chosen, Nobody, Cells
<1>4. ASSUME NEW A \in Choices, DOMAIN A # {}, Injective(A), \A d \in Chosen' : conn'[d].among = A
      PROVE  \E q \in Nat, t \in 0 .. Cardinality(DOMAIN A) - 1 : Turns(A, q, t)'
  <2> DEFINE m == Cardinality(DOMAIN A)
  <2>1. A = B /\ DOMAIN A = DOMAIN snap
    BY <1>1, <1>3, <1>4 DEF B
  <2>2. \A d \in Chosen : conn[d].among = A
    BY <1>2, <1>3, <1>4 DEF Chosen
  <2>3. PICK q \in Nat, t \in 0 .. m - 1 : Turns(A, q, t)
    BY <1>4, <2>2 DEF Even
  <2>4. m \in Nat \ {0} /\ i \in DOMAIN A
    BY <1>4, <2>1, ChoicesType
  <2>5. Rank(DOMAIN A, i) = t
    BY <1>1, <1>2, <2>1, <2>3, <2>4, WhoseTurn DEF Turns
  <2>6. \A j \in DOMAIN A : /\ Rank(DOMAIN A, j) \in 0 .. m - 1
                            /\ j # i => Rank(DOMAIN A, j) # t
    BY <1>4, <2>1, <2>5, ChoicesType, RankIn, RankInjective
  <2>7. /\ Cardinality(Sent(A[i])') = Cardinality(Sent(A[i])) + 1
        /\ \A j \in DOMAIN A : j # i => Cardinality(Sent(A[j])') = Cardinality(Sent(A[j]))
    <3>1. \A j \in DOMAIN A : A[j] \in Cells /\ (j # i => A[j] # A[i])
      BY <1>4, <2>1, <2>4, ChoicesType DEF Injective
    <3>2. c \notin Sent(A[i]) /\ Sent(A[i])' = Sent(A[i]) \cup {c}
      BY <1>2, <2>1, <2>4, <3>1 DEF Sent, Cells
    <3>3. \A j \in DOMAIN A : j # i => Sent(A[j])' = Sent(A[j])
      BY <1>2, <2>1, <3>1 DEF Sent, Cells
    <3>4. IsFiniteSet(Sent(A[i]))
      BY <2>4, <3>1, SentFinite
    <3> QED
      BY <3>2, <3>3, <3>4, FS_AddElement
  <2> HIDE DEF m
  <2>8. CASE t < m - 1
    <3>1. t + 1 \in 0 .. m - 1
      BY <2>3, <2>4, <2>8
    <3>2. counter' = m * q + (t + 1)
      BY <1>2, <2>3, <2>4 DEF Turns, m
    <3>3. \A j \in DOMAIN A : Cardinality(Sent(A[j])') = q + Bit(Rank(DOMAIN A, j) < t + 1)
      BY <2>3, <2>4, <2>5, <2>6, <2>7 DEF Turns, Bit
    <3>4. Turns(A, q, t + 1)'
      BY <3>2, <3>3 DEF Turns, m
    <3> QED
      BY <3>1, <3>4 DEF m
  <2>9. CASE t = m - 1
    <3>1. 0 \in 0 .. m - 1 /\ q + 1 \in Nat
      BY <2>4
    <3>2. counter' = m * (q + 1) + 0
      <4>1. counter' = m * q + m
        BY <1>2, <2>3, <2>4, <2>9 DEF Turns, m
      <4>2. m * (q + 1) = m * q + m
        BY <2>3, <2>4
      <4> QED
        BY <2>3, <2>4, <4>1, <4>2
    <3>3. \A j \in DOMAIN A : Cardinality(Sent(A[j])') = (q + 1) + Bit(Rank(DOMAIN A, j) < 0)
      BY <2>3, <2>4, <2>5, <2>6, <2>7, <2>9 DEF Turns, Bit
    <3>4. Turns(A, q + 1, 0)'
      BY <3>2, <3>3 DEF Turns, m
    <3> QED
      BY <3>1, <3>4 DEF m
  <2>10. t < m - 1 \/ t = m - 1
    BY <2>3, <2>4
  <2> QED
    BY <2>8, <2>9, <2>10
<1> QED
  BY <1>3, <1>4 DEF Even

\* Every step keeps the rounds.
LEMMA EvenStep == Typed /\ Typed' /\ Fresh /\ Even /\ [Next]_vars => Even'
<1> SUFFICES ASSUME Typed, Typed', Fresh, Even, [Next]_vars PROVE Even'
  OBVIOUS
<1>1. CASE UNCHANGED <<conn, hits, counter>> /\ RegistryStep
  BY <1>1, EvenKept DEF KeepsRoute
<1>2. CASE UNCHANGED <<store, adds, retired, hits, counter>> /\ \E l \in Ports : Shut(l)
  BY <1>2, ShutEffect, EvenKept DEF Typed, KeepsAll, KeepsRoute
<1>3. ASSUME NEW c \in Conns, RouteStep(c)
      PROVE  Even'
  <2>1. CASE Choose(c)
    BY <2>1, EvenChoose
  <2>2. CASE KeepsRoute(c) /\ UNCHANGED counter
    BY <1>3, <2>2, EvenKept DEF RouteStep, Others, KeepsRoute
  <2>3. CASE LookupCounter(c) \/ IncrRequests(c)
    BY <2>2, <2>3, HandlerEffects DEF Typed, LookupCounter, IncrRequests, counts
  <2> QED
    BY <1>3, <2>1, <2>2, <2>3 DEF RouteStep
<1> QED
  BY <1>1, <1>2, <1>3, RouteSteps

\* Router.Next: as long as all connections choose from the same registrations,
\* none of these gets two more connections than another.
THEOREM RoundRobinEvenAlways == Spec => []RoundRobinEven
<1>1. Init => Even
  <2> SUFFICES ASSUME Init PROVE Even
    OBVIOUS
  <2>1. counter = 0 /\ \A k \in Cells : Sent(k) = {}
    BY DEF Init, Sent, Nobody, Cells
  <2>2. ASSUME NEW A \in Choices, DOMAIN A # {}
        PROVE  0 \in 0 .. Cardinality(DOMAIN A) - 1 /\ Turns(A, 0, 0)
    <3>1. /\ DOMAIN A \subseteq Nat /\ IsFiniteSet(DOMAIN A)
          /\ \A i \in DOMAIN A : A[i] \in Cells
          /\ Cardinality(DOMAIN A) \in Nat /\ Cardinality(DOMAIN A) > 0
      BY <2>2, ChoicesType
    <3>2. \A i \in DOMAIN A : Rank(DOMAIN A, i) \in 0 .. Cardinality(DOMAIN A) - 1
      BY <3>1, RankIn
    <3>3. \A i \in DOMAIN A : Cardinality(Sent(A[i])) = 0
      BY <2>1, <3>1, FS_EmptySet
    <3> QED
      BY <2>1, <3>1, <3>2, <3>3 DEF Turns, Bit
  <2> QED
    BY <2>1, <2>2 DEF Even
<1>2. Typed /\ Typed' /\ Fresh /\ Even /\ [Next]_vars => Even'
  BY EvenStep
<1>3. Typed /\ Fresh /\ Even => RoundRobinEven
  <2> SUFFICES ASSUME Typed, Fresh, Even,
                      \A c \in Chosen : conn[c].among =
                          [i \in DOMAIN store |-> store[i].requests],
                      NEW i \in DOMAIN store, NEW j \in DOMAIN store
               PROVE  Cardinality(Sent(store[i].requests))
                          <= Cardinality(Sent(store[j].requests)) + 1
    BY DEF RoundRobinEven, Chosen, Sent
  <2> DEFINE A == [k \in DOMAIN store |-> store[k].requests]
  <2>1. A \in Choices
    BY StoreType DEF Typed, Shape, Choices, IdSets, Backend
  <2>2. DOMAIN A # {} /\ Injective(A)
    BY DEF Injective, Fresh
  <2>3. PICK q \in Nat, t \in 0 .. Cardinality(DOMAIN A) - 1 : Turns(A, q, t)
    BY <2>1, <2>2 DEF Even
  <2>4. /\ Cardinality(Sent(A[i])) = q + Bit(Rank(DOMAIN A, i) < t)
        /\ Cardinality(Sent(A[j])) = q + Bit(Rank(DOMAIN A, j) < t)
    BY <2>3 DEF Turns
  <2> QED
    BY <2>4 DEF Bit
<1> QED
  BY <1>1, <1>2, <1>3, TypedAlways, CountsAlways, PTL DEF Spec
=============================================================================
