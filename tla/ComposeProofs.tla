---------------------------- MODULE ComposeProofs ----------------------------
(***************************************************************************)
(* Theorems about Compose, for every set of compose files: the output of   *)
(* `dpivot generate` is a function of its input, keeps who can reach whom, *)
(* agrees with what a rollout reads out of a container, and serves what    *)
(* the input served.                                                       *)
(*                                                                         *)
(* LoopInv says what the output is after any part of the loop, StackInv    *)
(* what the stack is after any part of the start.  Between them are facts  *)
(* about the generated file alone: who asks for which host port.           *)
(***************************************************************************)
EXTENDS Compose, SequenceTheorems, TLAPS

-----------------------------------------------------------------------------
(* The invariant of the loop *)

Parsed == phase \in {"generate", "written", "rejected", "up"}

\* The services that the loop has come to.
Done == DOMAIN file \ todo

Typed ==
    /\ file \in Files
    /\ phase \in {"parse", "generate", "written", "rejected", "up", "failed"}
    /\ out = [s \in DOMAIN out |-> out[s]]
    /\ sum \in [Proxied : SUBSET DOMAIN file, Skipped : SUBSET DOMAIN file,
                PassThru : SUBSET DOMAIN file]

\* Nothing is there before the loop, and nothing is left to do after it.
Staged ==
    /\ phase = "parse" =>
          /\ out = Empty
          /\ sum = [Proxied |-> {}, Skipped |-> {}, PassThru |-> {}]
    /\ Parsed =>
          /\ svcs = [n \in DOMAIN file |-> coerceService(file[n])]
          /\ todo \subseteq DOMAIN file
    /\ Generated => todo = {}

\* Each service that the loop has come to is on one list of the summary.
Listed ==
    Parsed =>
        /\ sum.Proxied = Done \cap Eligible
        /\ sum.Proxied \cup sum.Skipped \cup sum.PassThru = Done
        /\ \A n \in Done \cap Eligible : Parsable(svcs[n])

\* What the loop has written: a proxy may have taken the name of a service,
\* a service that of a proxy.
Written ==
    Parsed =>
        /\ DOMAIN out = Done \cup {ProxyName(n) : n \in Done \cap Eligible}
        /\ \A n \in Done :
              \/ \E m \in Eligible : n = ProxyName(m)
              \/ out[n] = IF n \in Eligible THEN Backing(n, svcs[n])
                          ELSE copyService(svcs[n])
        /\ ~NameTaken =>
              \A n \in Done \cap Eligible :
                  out[ProxyName(n)] = ProxyService(n, svcs[n])

Refused ==
    phase = "failed" =>
        ~Readable(file) \/ \E n \in Eligible : ~Parsable(svcs[n])

LoopInv == Typed /\ Staged /\ Listed /\ Written /\ Refused

-----------------------------------------------------------------------------
(* The invariant of the stack *)

\* Where nothing stands in the way, Compose takes the file, each service that
\* was started runs, and its host ports lead to it.
StackInv ==
    /\ phase \in {"parse", "generate", "written"} => status = Empty /\ bound = Empty
    /\ Generated /\ Sound =>
        /\ phase # "rejected"
        /\ DOMAIN status \subseteq DOMAIN out
        /\ \A s \in DOMAIN status : status[s] = "up"
        /\ DOMAIN bound = UNION {HostPorts(s) : s \in DOMAIN status}
        /\ \A s \in DOMAIN status : \A h \in HostPorts(s) : bound[h] = s

-----------------------------------------------------------------------------
(* Maps *)

LEMMA EntryIs ==
    ASSUME NEW k, NEW v
    PROVE  /\ DOMAIN Entry(k, v) = {k}
           /\ Entry(k, v)[k] = v
BY DEF Entry

-----------------------------------------------------------------------------
(* The loop *)

\* The invariant holds before the file is read.
LEMMA LoopInit ==
    ASSUME Init
    PROVE  LoopInv
<1>1. Typed
  BY DEF Init, Typed, Empty
<1>2. Staged /\ Listed /\ Written /\ Refused
  BY DEF Init, Staged, Listed, Written, Refused, Parsed, Generated
<1> QED
  BY <1>1, <1>2 DEF LoopInv

\* Reading the file: nothing is done, and all of it is to do.
LEMMA ParseKeeps ==
    ASSUME LoopInv, ParseBytes
    PROVE  LoopInv'
<1>0. /\ phase = "parse" /\ UNCHANGED <<file, out, sum, bound, status>>
      /\ out = Empty /\ sum = [Proxied |-> {}, Skipped |-> {}, PassThru |-> {}]
  BY DEF ParseBytes, LoopInv, Staged
<1>1. CASE ~Readable(file) /\ phase' = "failed"
  <2>1. Typed' /\ Staged' /\ Listed' /\ Written'
    BY <1>0, <1>1 DEF LoopInv, Typed, Staged, Listed, Written, Parsed, Generated
  <2>2. Refused'
    BY <1>0, <1>1 DEF Refused
  <2> QED
    BY <2>1, <2>2 DEF LoopInv
<1>2. CASE /\ phase' = "generate" /\ todo' = DOMAIN file
           /\ svcs' = [n \in DOMAIN file |-> coerceService(file[n])]
  <2>1. Typed' /\ Staged' /\ Refused'
    BY <1>0, <1>2 DEF LoopInv, Typed, Staged, Refused, Parsed, Generated
  <2>2. Done' = {} /\ DOMAIN out' = {}
    BY <1>0, <1>2 DEF Done, Empty
  <2>3. Listed'
    BY <1>0, <2>2 DEF Listed
  <2>4. Written'
    BY <2>2 DEF Written
  <2> QED
    BY <2>1, <2>3, <2>4 DEF LoopInv
<1> QED
  BY <1>1, <1>2 DEF ParseBytes

\* Whether a service gets a proxy is a matter of what the parser made of it.
LEMMA EligibleIs ==
    ASSUME LoopInv, Parsed, NEW n \in DOMAIN file
    PROVE  n \in Eligible <=> ShouldProxy(svcs[n])
BY DEF LoopInv, Staged, Eligible

\* One pass of the loop that writes.
LEMMA EmitKeeps ==
    ASSUME LoopInv, phase = "generate", NEW n \in todo, NEW services,
           NEW list \in {"Proxied", "Skipped", "PassThru"}, Emit(n, services, list),
           list = "Proxied" <=> n \in Eligible,
           n \notin Eligible => /\ DOMAIN services = {n}
                                /\ services[n] = copyService(svcs[n]),
           n \in Eligible => /\ Parsable(svcs[n])
                             /\ DOMAIN services = {n, ProxyName(n)}
                             /\ services[ProxyName(n)] = ProxyService(n, svcs[n])
                             /\ n = ProxyName(n) \/ services[n] = Backing(n, svcs[n])
    PROVE  LoopInv'
<1>0. /\ UNCHANGED <<file, phase, svcs, bound, status>>
      /\ out' = Over(services, out) /\ todo' = todo \ {n}
      /\ sum' = [sum EXCEPT ![list] = @ \cup {n}]
  BY DEF Emit
<1>1. /\ Parsed /\ Parsed' /\ ~Generated' /\ n \in DOMAIN file /\ n \notin Done
      /\ Eligible' = Eligible /\ NameTaken' = NameTaken /\ Done' = Done \cup {n}
  BY <1>0 DEF Parsed, Generated, LoopInv, Staged, Done, Eligible, NameTaken
<1>2. /\ sum'.Proxied = IF list = "Proxied" THEN sum.Proxied \cup {n} ELSE sum.Proxied
      /\ sum'.Skipped = IF list = "Skipped" THEN sum.Skipped \cup {n} ELSE sum.Skipped
      /\ sum'.PassThru = IF list = "PassThru" THEN sum.PassThru \cup {n} ELSE sum.PassThru
      /\ sum' \in [Proxied : SUBSET DOMAIN file, Skipped : SUBSET DOMAIN file,
                   PassThru : SUBSET DOMAIN file]
  BY <1>0, <1>1 DEF LoopInv, Typed
<1>3. /\ DOMAIN out' = DOMAIN services \cup DOMAIN out
      /\ out' = [s \in DOMAIN out' |-> out'[s]]
      /\ \A s \in DOMAIN services : out'[s] = services[s]
      /\ \A s \in DOMAIN out : s \notin DOMAIN services => out'[s] = out[s]
  BY <1>0 DEF Over
<1>4. Typed'
  BY <1>0, <1>2, <1>3 DEF LoopInv, Typed
<1>5. Staged'
  BY <1>0, <1>1 DEF LoopInv, Staged
<1>6. Listed'
  <2>1. /\ sum.Proxied = Done \cap Eligible
        /\ sum.Proxied \cup sum.Skipped \cup sum.PassThru = Done
        /\ \A k \in Done \cap Eligible : Parsable(svcs[k])
    BY <1>1 DEF LoopInv, Listed
  <2>2. sum'.Proxied = Done' \cap Eligible
    BY <1>1, <1>2, <2>1
  <2>3. sum'.Proxied \cup sum'.Skipped \cup sum'.PassThru = Done'
    BY <1>1, <1>2, <2>1
  <2>4. \A k \in Done' \cap Eligible : Parsable(svcs[k])
    BY <1>1, <2>1
  <2> QED
    BY <1>0, <1>1, <2>2, <2>3, <2>4 DEF Listed
<1>7. Written'
  <2>1. /\ DOMAIN out = Done \cup {ProxyName(k) : k \in Done \cap Eligible}
        /\ \A k \in Done :
              \/ \E m \in Eligible : k = ProxyName(m)
              \/ out[k] = IF k \in Eligible THEN Backing(k, svcs[k])
                          ELSE copyService(svcs[k])
        /\ ~NameTaken =>
              \A k \in Done \cap Eligible : out[ProxyName(k)] = ProxyService(k, svcs[k])
    BY <1>1 DEF LoopInv, Written
  <2>2. DOMAIN out' = Done' \cup {ProxyName(k) : k \in Done' \cap Eligible}
    BY <1>1, <1>3, <2>1
  <2>3. ASSUME NEW k \in Done'
        PROVE  \/ \E m \in Eligible : k = ProxyName(m)
               \/ out'[k] = IF k \in Eligible THEN Backing(k, svcs[k])
                            ELSE copyService(svcs[k])
    <3>1. CASE k = n
      BY <1>3, <3>1
    <3>2. CASE k # n /\ k \in DOMAIN services
      BY <3>2
    <3>3. CASE k # n /\ k \notin DOMAIN services
      BY <1>1, <1>3, <2>1, <3>3
    <3> QED
      BY <3>1, <3>2, <3>3
  <2>4. ASSUME ~NameTaken, NEW k \in Done' \cap Eligible
        PROVE  out'[ProxyName(k)] = ProxyService(k, svcs[k])
    <3>1. CASE k = n
      BY <1>3, <3>1
    <3>2. CASE k # n
      <4>1. k \in Done \cap Eligible /\ k \in DOMAIN file /\ ProxyName(k) \in DOMAIN out
        BY <1>1, <2>1, <3>2 DEF Done
      <4>2. ProxyName(k) # n
        BY <1>1, <2>4 DEF NameTaken
      <4>3. ProxyName(k) # ProxyName(n)
        BY <1>1, <3>2, <4>1, NamesStayApart DEF NameAssumption, LoopInv, Typed
      <4> QED
        BY <1>3, <2>1, <2>4, <4>1, <4>2, <4>3
    <3> QED
      BY <3>1, <3>2
  <2> QED
    BY <1>0, <1>1, <2>2, <2>3, <2>4 DEF Written
<1>8. Refused'
  BY <1>0 DEF Refused
<1> QED
  BY <1>4, <1>5, <1>6, <1>7, <1>8 DEF LoopInv

\* Every step keeps the invariant.
LEMMA LoopStep ==
    ASSUME LoopInv, [Next]_vars
    PROVE  LoopInv'
<1>1. CASE ParseBytes
  BY <1>1, ParseKeeps
<1>2. ASSUME NEW n \in todo, PassThrough(n)
      PROVE  LoopInv'
  <2>1. /\ phase = "generate" /\ Emit(n, Entry(n, copyService(svcs[n])), "PassThru")
        /\ n \notin Eligible
    BY <1>2, EligibleIs DEF PassThrough, ShouldProxy, Parsed, LoopInv, Staged
  <2> QED
    BY <2>1, EmitKeeps, EntryIs
<1>3. ASSUME NEW n \in todo, SkipDatabase(n)
      PROVE  LoopInv'
  <2>1. /\ phase = "generate" /\ Emit(n, Entry(n, copyService(svcs[n])), "Skipped")
        /\ n \notin Eligible
    BY <1>3, EligibleIs DEF SkipDatabase, ShouldProxy, Parsed, LoopInv, Staged
  <2> QED
    BY <2>1, EmitKeeps, EntryIs
<1>4. ASSUME NEW n \in todo, Inject(n)
      PROVE  LoopInv'
  <2> DEFINE proxy == Entry(ProxyName(n), ProxyService(n, svcs[n]))
             backing == Entry(n, Backing(n, svcs[n]))
  <2>1. /\ phase = "generate" /\ Emit(n, Over(proxy, backing), "Proxied")
        /\ n \in Eligible /\ Parsable(svcs[n])
    BY <1>4, EligibleIs DEF Inject, ShouldProxy, Parsed, LoopInv, Staged
  <2>2. /\ DOMAIN proxy = {ProxyName(n)} /\ proxy[ProxyName(n)] = ProxyService(n, svcs[n])
        /\ DOMAIN backing = {n} /\ backing[n] = Backing(n, svcs[n])
    BY EntryIs
  <2> HIDE DEF proxy, backing
  <2>3. /\ DOMAIN Over(proxy, backing) = {n, ProxyName(n)}
        /\ Over(proxy, backing)[ProxyName(n)] = ProxyService(n, svcs[n])
        /\ n = ProxyName(n) \/ Over(proxy, backing)[n] = Backing(n, svcs[n])
    <3>1. /\ DOMAIN Over(proxy, backing) = DOMAIN proxy \cup DOMAIN backing
          /\ \A k \in DOMAIN proxy : Over(proxy, backing)[k] = proxy[k]
          /\ \A k \in DOMAIN backing :
                k \notin DOMAIN proxy => Over(proxy, backing)[k] = backing[k]
      BY DEF Over
    <3> QED
      BY <2>2, <3>1
  <2> QED
    BY <2>1, <2>3, EmitKeeps
<1>5. ASSUME NEW n \in todo, Reject(n)
      PROVE  LoopInv'
  <2>1. /\ phase = "generate" /\ phase' = "failed" /\ n \in Eligible /\ ~Parsable(svcs[n])
        /\ UNCHANGED <<file, svcs, todo, out, sum, bound, status>>
    BY <1>5, EligibleIs DEF Reject, ShouldProxy, Parsed, LoopInv, Staged
  <2>2. Eligible' = Eligible
    BY <2>1 DEF Eligible
  <2>3. Refused'
    BY <2>1, <2>2 DEF Refused
  <2>4. Typed' /\ Staged' /\ Listed' /\ Written'
    BY <2>1 DEF LoopInv, Typed, Staged, Listed, Written, Parsed, Generated
  <2> QED
    BY <2>3, <2>4 DEF LoopInv
<1>6. CASE /\ UNCHANGED <<file, svcs, todo, out, sum>>
           /\ Parsed /\ Parsed'
           /\ Generated' => todo = {}
  <2>1. Eligible' = Eligible /\ Done' = Done /\ NameTaken' = NameTaken
    BY <1>6 DEF Eligible, Done, NameTaken
  <2>2. Typed' /\ Staged' /\ Refused'
    BY <1>6 DEF LoopInv, Typed, Staged, Refused, Parsed
  <2>3. Listed'
    BY <1>6, <2>1 DEF LoopInv, Listed
  <2>4. Written'
    BY <1>6, <2>1 DEF LoopInv, Written
  <2> QED
    BY <2>2, <2>3, <2>4 DEF LoopInv
<1>7. CASE writeComposeFile
  BY <1>6, <1>7 DEF writeComposeFile, Parsed, Generated
<1>8. CASE ComposeUp
  BY <1>6, <1>8 DEF ComposeUp, Parsed, Generated, LoopInv, Staged
<1>9. ASSUME NEW s \in DOMAIN out, Start(s)
      PROVE  LoopInv'
  BY <1>6, <1>9 DEF Start, Parsed, Generated, LoopInv, Staged
<1>10. CASE UNCHANGED vars
  <2>1. Eligible' = Eligible /\ Done' = Done /\ NameTaken' = NameTaken
    BY <1>10 DEF vars, Eligible, Done, NameTaken
  <2>2. Typed' /\ Staged' /\ Refused'
    BY <1>10, <2>1 DEF vars, LoopInv, Typed, Staged, Refused, Parsed, Generated
  <2>3. Listed' /\ Written'
    BY <1>10, <2>1 DEF vars, LoopInv, Listed, Written, Parsed
  <2> QED
    BY <2>2, <2>3 DEF LoopInv
<1> QED
  BY <1>1, <1>2, <1>3, <1>4, <1>5, <1>7, <1>8, <1>9, <1>10 DEF Next

LEMMA LoopAlways == Spec => []LoopInv
<1>1. Init => LoopInv
  BY LoopInit
<1>2. LoopInv /\ [Next]_vars => LoopInv'
  BY LoopStep
<1> QED
  BY <1>1, <1>2, PTL DEF Spec

-----------------------------------------------------------------------------
(* The generated file *)

\* What the parser made of a service that is in one of the files.
LEMMA ServiceIs ==
    ASSUME LoopInv, Parsed, NEW n \in DOMAIN file
    PROVE  /\ svcs[n] = coerceService(file[n])
           /\ svcs[n].ports = file[n].ports /\ svcs[n].expose = file[n].expose
           /\ svcs[n].networks = file[n].networks
           /\ svcs[n].Networks = coerceStringSlice(file[n].networks)
           /\ file[n].ports \in Seq(PortSpec)
           /\ \A i \in DOMAIN file[n].ports : file[n].ports[i] \in PortSpec
           /\ file[n].networks.form \in {"none", "list", "map"}
           /\ file[n].networks.form = "none" => file[n].networks.names = {}
<1>1. svcs[n] = coerceService(file[n])
  BY DEF LoopInv, Staged
<1>2. file \in Files
  BY DEF LoopInv, Typed
<1>3. /\ file[n].ports \in Seq(PortSpec)
      /\ file[n].networks.form \in {"none", "list", "map"}
      /\ file[n].networks.form = "none" => file[n].networks.names = {}
  BY <1>2, FilesAreFiles DEF FileAssumption
<1>4. \A i \in DOMAIN file[n].ports : file[n].ports[i] \in PortSpec
  BY <1>3
<1> QED
  BY <1>1, <1>3, <1>4 DEF coerceService

\* What the invariant of the loop says when the loop is over.
LEMMA OutputIs ==
    ASSUME LoopInv, Generated
    PROVE  /\ Parsed
           /\ DOMAIN out = DOMAIN file \cup {ProxyName(n) : n \in Eligible}
           /\ \A n \in DOMAIN file :
                 \/ \E m \in Eligible : n = ProxyName(m)
                 \/ out[n] = IF n \in Eligible THEN Backing(n, svcs[n])
                             ELSE copyService(svcs[n])
           /\ ~NameTaken =>
                 \A n \in Eligible : out[ProxyName(n)] = ProxyService(n, svcs[n])
<1>1. Parsed
  BY DEF Generated, Parsed
<1>2. Eligible \subseteq DOMAIN file
  BY DEF Eligible
<1>3. Done = DOMAIN file /\ Done \cap Eligible = Eligible
  BY <1>2 DEF LoopInv, Staged, Done
<1> QED
  BY <1>1, <1>3 DEF LoopInv, Written

\* Two eligible services have proxies of two names.
LEMMA ProxyNamesDiffer ==
    ASSUME LoopInv, NEW m \in Eligible, NEW n \in Eligible, ProxyName(m) = ProxyName(n)
    PROVE  m = n
BY NamesStayApart DEF NameAssumption, LoopInv, Typed, Eligible

\* Without taken names the output is what Whole says.
LEMMA OutputIsWhole ==
    ASSUME LoopInv, Generated, ~NameTaken
    PROVE  out = Whole
<1>1. /\ out = [s \in DOMAIN out |-> out[s]]
      /\ DOMAIN out = DOMAIN file \cup {ProxyName(n) : n \in Eligible}
      /\ Eligible \subseteq DOMAIN file
  BY OutputIs DEF LoopInv, Typed, Eligible
<1>2. ASSUME NEW s \in DOMAIN out
      PROVE  out[s] = IF s \in Eligible THEN Backing(s, svcs[s])
                      ELSE IF s \in DOMAIN file THEN copyService(svcs[s])
                      ELSE LET n == CHOOSE n \in Eligible : s = ProxyName(n)
                           IN  ProxyService(n, svcs[n])
  <2>1. CASE s \in DOMAIN file
    <3>1. ~ \E m \in Eligible : s = ProxyName(m)
      BY <2>1 DEF NameTaken
    <3>2. out[s] = IF s \in Eligible THEN Backing(s, svcs[s]) ELSE copyService(svcs[s])
      BY <2>1, <3>1, OutputIs
    <3> QED
      BY <1>1, <2>1, <3>2
  <2>2. CASE s \notin DOMAIN file
    <3>1. PICK n \in Eligible : s = ProxyName(n)
      BY <1>1, <2>2
    <3>2. out[s] = ProxyService(n, svcs[n])
      BY <3>1, OutputIs
    <3>3. n = CHOOSE m \in Eligible : s = ProxyName(m)
      <4>1. \A m \in Eligible : s = ProxyName(m) => m = n
        BY <3>1, ProxyNamesDiffer
      <4> QED
        BY <3>1, <4>1
    <3> QED
      BY <1>1, <2>2, <3>2, <3>3
  <2> QED
    BY <2>1, <2>2
<1> QED
  BY <1>1, <1>2 DEF Whole

\* A generated file depends on its input alone, not on the order in which Go
\* iterates over the services, and the generation fails for a bad port of a
\* service to proxy or an unreadable file and for nothing else.
THEOREM ResultIsAFunctionAlways == Spec => []ResultIsAFunction
<1>1. LoopInv => ResultIsAFunction
  <2> SUFFICES ASSUME LoopInv PROVE ResultIsAFunction
    OBVIOUS
  <2>1. ASSUME Generated
        PROVE  /\ \A n \in Eligible : Parsable(svcs[n])
               /\ sum.Proxied = Eligible
               /\ sum.Proxied \cup sum.Skipped \cup sum.PassThru = DOMAIN file
    <3>1. Parsed /\ Done = DOMAIN file /\ Done \cap Eligible = Eligible
      BY <2>1 DEF Generated, Parsed, LoopInv, Staged, Done, Eligible
    <3> QED
      BY <3>1 DEF LoopInv, Listed
  <2>2. Generated /\ ~NameTaken => out = Whole
    BY OutputIsWhole
  <2>3. phase = "failed" => ~Readable(file) \/ \E n \in Eligible : ~Parsable(svcs[n])
    BY DEF LoopInv, Refused
  <2> QED
    BY <2>1, <2>2, <2>3 DEF ResultIsAFunction
<1> QED
  BY <1>1, LoopAlways, PTL

-----------------------------------------------------------------------------
(* Networks and addresses *)

\* A service keeps its networks, unless Loses says otherwise.
LEMMA NetworksKept ==
    ASSUME LoopInv, Generated, NEW n \in DOMAIN file, ~Loses(n)
    PROVE  InputNetworks(n) \subseteq Networks(n)
<1>1. out[n] = IF n \in Eligible THEN Backing(n, svcs[n]) ELSE copyService(svcs[n])
  BY OutputIs DEF Loses
<1>2. /\ svcs[n].networks = file[n].networks
      /\ svcs[n].Networks = coerceStringSlice(file[n].networks)
      /\ file[n].networks.form \in {"none", "list", "map"}
      /\ file[n].networks.form = "none" => file[n].networks.names = {}
  BY OutputIs, ServiceIs
<1>3. CASE n \in Eligible
  <2>1. out[n].networks.names = Joined(svcs[n].Networks)
    BY <1>1, <1>3 DEF Backing
  <2>2. svcs[n].Networks = file[n].networks.names
    BY <1>2, <1>3 DEF Loses, coerceStringSlice
  <2> QED
    BY <2>1, <2>2 DEF InputNetworks, Networks, Joined
<1>4. CASE n \notin Eligible
  <2>1. out[n].networks = file[n].networks
    BY <1>1, <1>2, <1>4 DEF copyService
  <2> QED
    BY <2>1 DEF InputNetworks, Networks
<1> QED
  BY <1>3, <1>4

\* Services that could reach each other in the input can in the output.
THEOREM ConnectivityKeptAlways == Spec => []ConnectivityKept
<1>1. LoopInv => ConnectivityKept
  BY NetworksKept DEF ConnectivityKept
<1> QED
  BY <1>1, LoopAlways, PTL

\* A service to proxy has a first port.
LEMMA FirstPort ==
    ASSUME LoopInv, Parsed, NEW n \in Eligible
    PROVE  /\ n \in DOMAIN file /\ 1 \in DOMAIN file[n].ports
           /\ svcs[n].ports = file[n].ports
           /\ Pairs(svcs[n])[1] = parsePort(file[n].ports[1])
<1>1. n \in DOMAIN file /\ ShouldProxy(coerceService(file[n]))
  BY DEF Eligible
<1>2. /\ svcs[n].ports = file[n].ports /\ svcs[n] = coerceService(file[n])
      /\ file[n].ports \in Seq(PortSpec)
  BY <1>1, ServiceIs
<1>3. file[n].ports # <<>>
  BY <1>1, <1>2 DEF ShouldProxy
<1> QED
  BY <1>1, <1>2, <1>3 DEF Pairs

\* The address that a rollout reads out of a new container of a proxied service
\* is where the proxy has been told to go when it started.
THEOREM RolloutFollowsSeedAlways == Spec => []RolloutFollowsSeed
<1>1. ASSUME LoopInv, Generated, ~NameTaken, NEW n \in Eligible
      PROVE  /\ containerAddr(n).port = out[ProxyName(n)].target.port
             /\ containerAddr(n).nets \subseteq Networks(ProxyName(n))
  <2>1. /\ Parsed /\ n \in DOMAIN file
        /\ out[n] = Backing(n, svcs[n]) /\ out[ProxyName(n)] = ProxyService(n, svcs[n])
    BY <1>1, OutputIs DEF Eligible, NameTaken
  <2>2. Pairs(svcs[n])[1].container \in Nat
    <3>1. /\ 1 \in DOMAIN file[n].ports
          /\ Pairs(svcs[n])[1] = parsePort(file[n].ports[1])
      BY <1>1, <2>1, FirstPort
    <3>2. file[n].ports[1].container \in Nat
      BY <1>1, <2>1, <3>1, ServiceIs DEF PortSpec
    <3> QED
      BY <3>1, <3>2 DEF parsePort
  <2>3. out[ProxyName(n)].target.port = Pairs(svcs[n])[1].container
    BY <2>1 DEF ProxyService
  <2>4. out[n].environment.vars =
            Over(Entry("DPIVOT_BACKEND",
                       [text |-> n, port |-> Pairs(svcs[n])[1].container]),
                 svcs[n].Environment)
    BY <2>1 DEF Backing
  <2>5. /\ "DPIVOT_BACKEND" \in DOMAIN out[n].environment.vars
        /\ out[n].environment.vars["DPIVOT_BACKEND"].port = Pairs(svcs[n])[1].container
    BY <2>4 DEF Over, Entry
  <2>6. containerAddr(n).port = Pairs(svcs[n])[1].container
    BY <2>2, <2>5 DEF containerAddr, pickBackendPort, NoPort
  <2>7. /\ Networks(n) = Joined(svcs[n].Networks)
        /\ Networks(ProxyName(n)) = {"dpivot_mesh"}
    <3>1. out[n].networks.names = Joined(svcs[n].Networks)
      BY <2>1 DEF Backing
    <3>2. out[ProxyName(n)].networks.names = {"dpivot_mesh"}
      BY <2>1 DEF ProxyService
    <3> QED
      BY <3>1, <3>2 DEF Networks, Joined
  <2>8. containerAddr(n).nets = {"dpivot_mesh"}
    BY <2>7 DEF containerAddr, pickMeshIP, Joined
  <2> QED
    BY <2>3, <2>6, <2>7, <2>8
<1>2. LoopInv => RolloutFollowsSeed
  BY <1>1 DEF RolloutFollowsSeed
<1> QED
  BY <1>2, LoopAlways, PTL

-----------------------------------------------------------------------------
(* Who asks for which host port *)

\* The i-th port of a service as parsePort reads it, the host ports that a
\* service wants, and the one of its proxy's control API.
Port(n, i) == parsePort(file[n].ports[i])
Asks(n)    == {Port(n, i).host : i \in DOMAIN file[n].ports}
Control(n) == Port(n, 1).host + 6900

\* The service that publishes the ports of n, and all that it publishes at most.
Front(n)   == IF n \in Eligible THEN ProxyName(n) ELSE n
Claims(n)  == IF n \in Eligible THEN Asks(n) \cup {Control(n)} ELSE Asks(n)

LEMMA ElementsOfConcat ==
    ASSUME NEW S, NEW s \in Seq(S), NEW t \in Seq(S)
    PROVE  Elements(s \o t) = Elements(s) \cup Elements(t)
<1>1. /\ DOMAIN s = 1 .. Len(s) /\ DOMAIN t = 1 .. Len(t) /\ Len(s) \in Nat /\ Len(t) \in Nat
      /\ DOMAIN (s \o t) = 1 .. (Len(s) + Len(t))
      /\ \A i \in 1 .. (Len(s) + Len(t)) :
            (s \o t)[i] = IF i <= Len(s) THEN s[i] ELSE t[i - Len(s)]
  BY ConcatProperties, LenProperties
<1>2. ASSUME NEW i \in DOMAIN (s \o t)
      PROVE  (s \o t)[i] \in Elements(s) \cup Elements(t)
  BY <1>1 DEF Elements
<1>3. ASSUME NEW i \in DOMAIN s
      PROVE  s[i] \in Elements(s \o t)
  BY <1>1 DEF Elements
<1>4. ASSUME NEW i \in DOMAIN t
      PROVE  t[i] \in Elements(s \o t)
  <2>1. i + Len(s) \in DOMAIN (s \o t) /\ (s \o t)[i + Len(s)] = t[i]
    BY <1>1
  <2> QED
    BY <2>1 DEF Elements
<1>5. Elements(s \o t) \subseteq Elements(s) \cup Elements(t)
  BY <1>2 DEF Elements
<1>6. Elements(s) \subseteq Elements(s \o t) /\ Elements(t) \subseteq Elements(s \o t)
  BY <1>3, <1>4 DEF Elements
<1> QED
  BY <1>5, <1>6

\* What parsePort makes of a port.
LEMMA PortIs ==
    ASSUME LoopInv, Parsed, NEW n \in DOMAIN file, NEW i \in DOMAIN file[n].ports
    PROVE  /\ Port(n, i).host \in Nat /\ Port(n, i).container \in Nat
           /\ Port(n, i).form = "pair"
           /\ file[n].ports[i].form \in {"pair", "ip"} =>
                 /\ Port(n, i).host = file[n].ports[i].host
                 /\ Port(n, i).container = file[n].ports[i].container
<1>1. file[n].ports[i] \in PortSpec
  BY ServiceIs
<1> QED
  BY <1>1 DEF Port, parsePort, PortSpec

\* The parts of Sound, for the ports as they are read.
LEMMA SoundIs ==
    ASSUME LoopInv, Parsed, Sound
    PROVE  /\ ~NameTaken
           /\ \A n \in DOMAIN file : \A i \in DOMAIN file[n].ports :
                 /\ file[n].ports[i].form # "other"
                 /\ Port(n, i).host <= 65535
           /\ \A m, n \in DOMAIN file : \A i \in DOMAIN file[m].ports, j \in DOMAIN file[n].ports :
                 Port(m, i).host = Port(n, j).host => m = n /\ i = j
           /\ \A n \in Eligible :
                 /\ Control(n) <= 65535 /\ ControlPort \notin Asks(n)
                 /\ \A m \in DOMAIN file : Control(n) \notin Asks(m)
<1>1. \A n \in DOMAIN file : \A i \in DOMAIN file[n].ports :
          file[n].ports[i] \in Elements(file[n].ports) /\ Port(n, i) \in Wanted(n)
  BY DEF Elements, Wanted, Port
<1>2. \A n \in DOMAIN file : \A i \in DOMAIN file[n].ports :
          file[n].ports[i].form # "other" /\ Port(n, i).host <= 65535
  BY <1>1 DEF Sound
<1>3. \A m, n \in DOMAIN file : \A i \in DOMAIN file[m].ports, j \in DOMAIN file[n].ports :
          Port(m, i).host = Port(n, j).host => m = n /\ i = j
  BY DEF Sound, Port
<1>4. ASSUME NEW n \in Eligible
      PROVE  /\ Control(n) <= 65535 /\ ControlPort \notin Asks(n)
             /\ \A m \in DOMAIN file : Control(n) \notin Asks(m)
  <2>1. n \in DOMAIN file /\ 1 \in DOMAIN file[n].ports
    BY FirstPort
  <2>2. controlHostPort(Pairs(file[n])) = Control(n)
    BY <2>1 DEF controlHostPort, Pairs, Control, Port
  <2>3. /\ Control(n) <= 65535
        /\ \A m \in DOMAIN file : \A p \in Wanted(m) : p.host # Control(n)
        /\ \A p \in Wanted(n) : p.host # ControlPort
    BY <2>2 DEF Sound
  <2> QED
    BY <1>1, <2>1, <2>3 DEF Asks
<1> QED
  BY <1>2, <1>3, <1>4 DEF Sound

\* The entries of a proxy's ports.
Facing(n, i)    == [form |-> "pair", host |-> Port(n, i).host, container |-> Port(n, i).host]
ControlEntry(n) == [form |-> "pair", host |-> Control(n), container |-> ControlPort]

\* A proxy publishes the ports of its service, on the port that it listens to,
\* and its control API; it leads to the service's first port.
LEMMA ProxyPublishes ==
    ASSUME LoopInv, Generated, ~NameTaken, NEW n \in Eligible
    PROVE  /\ IsProxy(ProxyName(n))
           /\ out[ProxyName(n)].target = [host |-> n, port |-> Port(n, 1).container]
           /\ out[ProxyName(n)].binds = [i \in DOMAIN file[n].ports |-> Port(n, i)]
           /\ Published(ProxyName(n)) =
                 {Facing(n, i) : i \in DOMAIN file[n].ports} \cup {ControlEntry(n)}
           /\ HostPorts(ProxyName(n)) = Asks(n) \cup {Control(n)}
<1> DEFINE ports == file[n].ports
           pairs == Pairs(svcs[n])
           front == [i \in DOMAIN ports |-> Facing(n, i)]
           ended == <<ControlEntry(n)>>
           Entries == [form : {"pair"}, host : Nat, container : Nat]
<1>1. /\ Parsed /\ n \in DOMAIN file /\ 1 \in DOMAIN ports /\ ports \in Seq(PortSpec)
      /\ svcs[n].ports = ports
      /\ out[ProxyName(n)] = ProxyService(n, svcs[n])
  BY OutputIs, FirstPort, ServiceIs
<1>2. pairs = [i \in DOMAIN ports |-> Port(n, i)]
  BY <1>1 DEF Pairs, Port
<1>3. out[ProxyName(n)].ports = front \o ended
  <2>1. out[ProxyName(n)].ports =
           [i \in DOMAIN pairs |-> [pairs[i] EXCEPT !.container = pairs[i].host]]
              \o <<[form |-> "pair", host |-> controlHostPort(pairs),
                    container |-> ControlPort]>>
    BY <1>1 DEF ProxyService
  <2>2. \A i \in DOMAIN ports : [Port(n, i) EXCEPT !.container = Port(n, i).host] = Facing(n, i)
    BY DEF Port, parsePort, Facing
  <2>3. [i \in DOMAIN pairs |-> [pairs[i] EXCEPT !.container = pairs[i].host]] = front
    BY <1>2, <2>2
  <2>4. [form |-> "pair", host |-> controlHostPort(pairs), container |-> ControlPort]
           = ControlEntry(n)
    BY <1>1, <1>2 DEF controlHostPort, Control, ControlEntry
  <2> QED
    BY <2>1, <2>3, <2>4
<1>4. Elements(out[ProxyName(n)].ports) =
         {Facing(n, i) : i \in DOMAIN ports} \cup {ControlEntry(n)}
  <2>1. \A i \in DOMAIN ports : Facing(n, i) \in Entries
    BY <1>1, PortIs DEF Facing
  <2>2. DOMAIN ports = 1 .. Len(ports) /\ Len(ports) \in Nat
    BY <1>1
  <2>3. front \in Seq(Entries)
    BY <2>1, <2>2
  <2>4. ControlEntry(n) \in Entries
    BY <1>1, PortIs DEF Control, ControlPort, ControlEntry
  <2>5. ended \in Seq(Entries) /\ Elements(ended) = {ControlEntry(n)}
    BY <2>4 DEF Elements
  <2>6. Elements(front) = {Facing(n, i) : i \in DOMAIN ports}
    BY DEF Elements
  <2> HIDE DEF front, ended, Entries
  <2>7. Elements(front \o ended) = Elements(front) \cup Elements(ended)
    BY <2>3, <2>5, ElementsOfConcat
  <2> QED
    BY <1>3, <2>5, <2>6, <2>7
<1>5. \A i \in DOMAIN ports : Facing(n, i).form = "pair" /\ Facing(n, i).host = Port(n, i).host
  BY DEF Facing
<1>6. ControlEntry(n).form = "pair" /\ ControlEntry(n).host = Control(n)
  BY DEF ControlEntry
<1>7. Published(ProxyName(n)) = {Facing(n, i) : i \in DOMAIN ports} \cup {ControlEntry(n)}
  BY <1>4, <1>5, <1>6 DEF Published
<1>8. HostPorts(ProxyName(n)) = Asks(n) \cup {Control(n)}
  <2>1. {p.host : p \in {Facing(n, i) : i \in DOMAIN ports}} = Asks(n)
    BY <1>5 DEF Asks
  <2> QED
    BY <1>6, <1>7, <2>1 DEF HostPorts
<1>9. /\ IsProxy(ProxyName(n)) /\ out[ProxyName(n)].binds = pairs
      /\ out[ProxyName(n)].target = [host |-> n, port |-> Port(n, 1).container]
  BY <1>1, <1>2 DEF IsProxy, ProxyService
<1> QED
  BY <1>2, <1>7, <1>8, <1>9

\* Of the other services one without a proxy publishes ports of its own, and
\* one behind a proxy none.
LEMMA ServicePublishes ==
    ASSUME LoopInv, Generated, ~NameTaken, NEW n \in DOMAIN file
    PROVE  /\ ~IsProxy(n)
           /\ n \in Eligible => Published(n) = {}
           /\ n \notin Eligible =>
                 Published(n) = {p \in Elements(file[n].ports) : p.form \in {"pair", "ip"}}
<1>1. /\ out[n] = IF n \in Eligible THEN Backing(n, svcs[n]) ELSE copyService(svcs[n])
      /\ svcs[n].ports = file[n].ports
  BY OutputIs, ServiceIs DEF NameTaken
<1>2. CASE n \in Eligible
  <2>1. out[n] = Backing(n, svcs[n])
    BY <1>1, <1>2
  <2>2. "target" \notin DOMAIN out[n] /\ out[n].ports = <<>>
    BY <2>1 DEF Backing
  <2> QED
    BY <1>2, <2>2 DEF IsProxy, Published, Elements
<1>3. CASE n \notin Eligible
  <2>1. out[n] = copyService(svcs[n])
    BY <1>1, <1>3
  <2>2. "target" \notin DOMAIN out[n] /\ out[n].ports = file[n].ports
    BY <1>1, <2>1 DEF copyService
  <2> QED
    BY <1>3, <2>2 DEF IsProxy, Published
<1> QED
  BY <1>2, <1>3

\* What a service of the output publishes belongs to the service of the input
\* that it is in front of.
LEMMA ClaimedBy ==
    ASSUME LoopInv, Generated, ~NameTaken, NEW s \in DOMAIN out, NEW h \in HostPorts(s)
    PROVE  \E n \in DOMAIN file : s = Front(n) /\ h \in Claims(n)
<1>1. CASE s \in DOMAIN file
  <2>1. PICK p \in Published(s) : h = p.host
    BY DEF HostPorts
  <2>2. s \notin Eligible /\ p \in Elements(file[s].ports) /\ p.form \in {"pair", "ip"}
    BY <1>1, <2>1, ServicePublishes
  <2>3. PICK i \in DOMAIN file[s].ports : p = file[s].ports[i]
    BY <2>2 DEF Elements
  <2>4. h = Port(s, i).host
    BY <1>1, <2>1, <2>2, <2>3, PortIs, OutputIs
  <2>5. h \in Claims(s) /\ s = Front(s)
    BY <2>2, <2>4 DEF Claims, Asks, Front
  <2> QED
    BY <1>1, <2>5
<1>2. CASE s \notin DOMAIN file
  <2>1. PICK n \in Eligible : s = ProxyName(n)
    BY <1>2, OutputIs
  <2>2. h \in Claims(n) /\ s = Front(n) /\ n \in DOMAIN file
    BY <2>1, ProxyPublishes DEF Claims, Front, Eligible
  <2> QED
    BY <2>2
<1> QED
  BY <1>1, <1>2

LEMMA ControlsDiffer ==
    ASSUME NEW m, NEW n, Port(m, 1).host \in Nat, Port(n, 1).host \in Nat,
           Control(m) = Control(n)
    PROVE  Port(m, 1).host = Port(n, 1).host
<1> DEFINE x == Port(m, 1).host
           y == Port(n, 1).host
<1>1. x \in Nat /\ y \in Nat /\ x + 6900 = y + 6900
  BY DEF Control
<1> HIDE DEF x, y
<1>2. x = y
  BY <1>1
<1> QED
  BY <1>2 DEF x, y

\* Two services of a sound file claim different host ports.
LEMMA ClaimsApart ==
    ASSUME LoopInv, Generated, Sound, NEW m \in DOMAIN file, NEW n \in DOMAIN file,
           NEW h \in Claims(m), h \in Claims(n)
    PROVE  m = n /\ h <= 65535
<1>1. Parsed
  BY OutputIs
<1>2. \A k \in Eligible : /\ k \in DOMAIN file /\ 1 \in DOMAIN file[k].ports
                          /\ Port(k, 1).host \in Nat
                          /\ Control(k) = Port(k, 1).host + 6900
  BY <1>1, FirstPort, PortIs DEF Control
<1>3. h <= 65535
  BY <1>1, SoundIs DEF Claims, Asks
<1>4. CASE h \in Asks(m) /\ h \in Asks(n)
  BY <1>1, <1>4, SoundIs DEF Asks
<1>5. CASE h \in Asks(m) /\ h \notin Asks(n)
  BY <1>1, <1>5, SoundIs DEF Claims
<1>6. CASE h \notin Asks(m) /\ h \in Asks(n)
  BY <1>1, <1>6, SoundIs DEF Claims
<1>7. CASE h \notin Asks(m) /\ h \notin Asks(n)
  <2>1. m \in Eligible /\ n \in Eligible /\ h = Control(m) /\ h = Control(n)
    BY <1>7 DEF Claims
  <2>2. Port(m, 1).host \in Nat /\ Port(n, 1).host \in Nat
    BY <1>2, <2>1
  <2>3. Control(m) = Control(n)
    BY <2>1
  <2>4. Port(m, 1).host = Port(n, 1).host
    BY <2>2, <2>3, ControlsDiffer
  <2> QED
    BY <1>1, <1>2, <1>3, <2>1, <2>4, SoundIs
<1> QED
  BY <1>3, <1>4, <1>5, <1>6, <1>7

\* No two services of the output publish the same host port.
LEMMA PortsApart ==
    ASSUME LoopInv, Generated, Sound, NEW s \in DOMAIN out, NEW t \in DOMAIN out,
           NEW h \in HostPorts(s), h \in HostPorts(t)
    PROVE  s = t /\ h <= 65535
<1>1. ~NameTaken
  BY DEF Sound
<1>2. PICK m \in DOMAIN file : s = Front(m) /\ h \in Claims(m)
  BY <1>1, ClaimedBy
<1>3. PICK n \in DOMAIN file : t = Front(n) /\ h \in Claims(n)
  BY <1>1, ClaimedBy
<1>4. m = n /\ h <= 65535
  BY <1>2, <1>3, ClaimsApart
<1> QED
  BY <1>2, <1>3, <1>4

\* Nor does one service publish one twice.
LEMMA OnePort ==
    ASSUME LoopInv, Generated, Sound, NEW s \in DOMAIN out,
           NEW p \in Published(s), NEW q \in Published(s), p.host = q.host
    PROVE  p.container = q.container
<1>1. Parsed /\ ~NameTaken
  BY OutputIs DEF Sound
<1>2. CASE s \in DOMAIN file
  <2>1. /\ p \in Elements(file[s].ports) /\ p.form \in {"pair", "ip"}
        /\ q \in Elements(file[s].ports) /\ q.form \in {"pair", "ip"}
    BY <1>1, <1>2, ServicePublishes
  <2>2. PICK i \in DOMAIN file[s].ports : p = file[s].ports[i]
    BY <2>1 DEF Elements
  <2>3. PICK j \in DOMAIN file[s].ports : q = file[s].ports[j]
    BY <2>1 DEF Elements
  <2>4. Port(s, i).host = p.host
    BY <1>1, <1>2, <2>1, <2>2, PortIs
  <2>5. Port(s, j).host = q.host
    BY <1>1, <1>2, <2>1, <2>3, PortIs
  <2>6. i = j
    BY <1>1, <1>2, <2>4, <2>5, SoundIs
  <2> QED
    BY <2>2, <2>3, <2>6
<1>3. CASE s \notin DOMAIN file
  <2>1. PICK n \in Eligible : s = ProxyName(n)
    BY <1>3, OutputIs
  <2>2. n \in DOMAIN file /\ Control(n) \notin Asks(n)
    BY <1>1, SoundIs DEF Eligible
  <2>3. Published(s) = {Facing(n, i) : i \in DOMAIN file[n].ports} \cup {ControlEntry(n)}
    BY <1>1, <2>1, ProxyPublishes
  <2>4. \A r \in Published(s) : \/ r.container = r.host /\ r.host \in Asks(n)
                                \/ r.container = ControlPort /\ r.host = Control(n)
    BY <2>3 DEF Facing, ControlEntry, Asks
  <2> QED
    BY <2>2, <2>4
<1> QED
  BY <1>2, <1>3

\* A proxy can bind all of its ports, the one of the control API among them.
LEMMA ProxyRuns ==
    ASSUME LoopInv, Generated, Sound, NEW s \in DOMAIN out, IsProxy(s)
    PROVE  ~BindFails(s) /\ HasControl(s)
<1>1. Parsed /\ ~NameTaken
  BY OutputIs DEF Sound
<1>2. PICK n \in Eligible : s = ProxyName(n)
  BY <1>1, OutputIs, ServicePublishes
<1>3. out[s].binds = [i \in DOMAIN file[n].ports |-> Port(n, i)]
  BY <1>1, <1>2, ProxyPublishes
<1>4. n \in DOMAIN file /\ ControlPort \notin Asks(n)
  BY <1>1, SoundIs DEF Eligible
<1>5. ~BindFails(s)
  BY <1>1, <1>3, <1>4, SoundIs DEF BindFails
<1>6. HasControl(s)
  BY <1>3, <1>4 DEF HasControl, Elements, Asks
<1> QED
  BY <1>5, <1>6

-----------------------------------------------------------------------------
(* The stack *)

\* What nothing but docker compose up touches.
LEMMA StackUntouched ==
    ASSUME StackInv, UNCHANGED <<bound, status>>,
           phase' \in {"parse", "generate", "written", "failed"},
           phase \in {"parse", "generate", "written"}
    PROVE  StackInv'
<1>1. status' = Empty /\ bound' = Empty
  BY DEF StackInv
<1>2. DOMAIN status' = {} /\ DOMAIN bound' = {}
  BY <1>1 DEF Empty
<1> QED
  BY <1>1, <1>2 DEF StackInv

\* The invariant of the stack is inductive with that of the loop.
LEMMA StackStep ==
    ASSUME LoopInv, StackInv, [Next]_vars
    PROVE  StackInv'
<1>1. CASE ParseBytes
  BY <1>1, StackUntouched DEF ParseBytes
<1>2. ASSUME NEW n \in todo, PassThrough(n) \/ SkipDatabase(n) \/ Inject(n) \/ Reject(n)
      PROVE  StackInv'
  BY <1>2, StackUntouched DEF PassThrough, SkipDatabase, Inject, Reject, Emit
<1>3. CASE writeComposeFile
  BY <1>3, StackUntouched DEF writeComposeFile
<1>4. ASSUME UNCHANGED <<file, out>>
      PROVE  /\ Sound' = Sound
             /\ \A s : HostPorts(s)' = HostPorts(s) /\ Published(s)' = Published(s)
  <2>1. Eligible' = Eligible
    BY <1>4 DEF Eligible
  <2>2. Sound' = Sound
    BY <1>4, <2>1 DEF Sound, NameTaken, Wanted
  <2> QED
    BY <1>4, <2>2 DEF HostPorts, Published
<1>5. CASE ComposeUp
  <2>1. /\ phase = "written" /\ UNCHANGED <<file, svcs, todo, out, sum, bound, status>>
        /\ status = Empty /\ bound = Empty /\ phase' \in {"rejected", "up"}
        /\ phase' = "rejected" => \E s \in DOMAIN out : \E h \in HostPorts(s) : h > 65535
    BY <1>5 DEF ComposeUp, StackInv
  <2>2. DOMAIN status' = {} /\ DOMAIN bound' = {}
    BY <2>1 DEF Empty
  <2>3. Sound => phase' # "rejected"
    <3>1. ASSUME Sound, NEW s \in DOMAIN out, NEW h \in HostPorts(s)
          PROVE  ~(h > 65535)
      <4>1. Parsed /\ ~NameTaken /\ Generated
        BY <2>1, <3>1 DEF Generated, Parsed, Sound
      <4>2. PICK n \in DOMAIN file : h \in Claims(n)
        BY <3>1, <4>1, ClaimedBy
      <4>3. h \in Nat
        BY <4>1, <4>2, PortIs, FirstPort DEF Claims, Asks, Control
      <4>4. h <= 65535
        BY <3>1, <4>1, PortsApart
      <4> QED
        BY <4>3, <4>4
    <3> QED
      BY <2>1, <3>1
  <2> QED
    BY <1>4, <2>1, <2>2, <2>3 DEF StackInv
<1>6. ASSUME NEW s \in DOMAIN out, Start(s)
      PROVE  StackInv'
  <2>1. /\ phase = "up" /\ s \notin DOMAIN status /\ UNCHANGED <<file, phase, svcs, todo, out, sum>>
    BY <1>6 DEF Start
  <2>2. CASE Sound
    <3>1. /\ Generated /\ DOMAIN status \subseteq DOMAIN out
          /\ \A t \in DOMAIN status : status[t] = "up"
          /\ DOMAIN bound = UNION {HostPorts(t) : t \in DOMAIN status}
          /\ \A t \in DOMAIN status : \A h \in HostPorts(t) : bound[h] = t
      BY <2>1, <2>2 DEF StackInv, Generated
    <3>2. HostPorts(s) \cap DOMAIN bound = {}
      BY <2>1, <2>2, <3>1, PortsApart
    <3>3. PortsFree(s)
      BY <2>2, <3>1, <3>2, OnePort DEF PortsFree
    <3>4. ~(IsProxy(s) /\ BindFails(s))
      BY <2>2, <3>1, ProxyRuns
    <3>5. /\ bound' = Over([h \in HostPorts(s) |-> s], bound)
          /\ status' = Over(Entry(s, "up"), status)
      BY <1>6, <3>3, <3>4 DEF Start
    <3>6. /\ DOMAIN status' = DOMAIN status \cup {s}
          /\ \A t \in DOMAIN status' : status'[t] = "up"
      BY <3>1, <3>5 DEF Over, Entry
    <3>7. /\ DOMAIN bound' = DOMAIN bound \cup HostPorts(s)
          /\ \A h \in HostPorts(s) : bound'[h] = s
          /\ \A h \in DOMAIN bound : h \notin HostPorts(s) => bound'[h] = bound[h]
      BY <3>5 DEF Over
    <3>8. DOMAIN bound' = UNION {HostPorts(t) : t \in DOMAIN status'}
      BY <3>1, <3>6, <3>7
    <3>9. \A t \in DOMAIN status' : \A h \in HostPorts(t) : bound'[h] = t
      BY <3>1, <3>2, <3>6, <3>7
    <3> QED
      BY <1>4, <2>1, <3>1, <3>6, <3>8, <3>9 DEF StackInv
  <2>3. CASE ~Sound
    BY <1>4, <2>1, <2>3 DEF StackInv
  <2> QED
    BY <2>2, <2>3
<1>7. CASE UNCHANGED vars
  <2>1. UNCHANGED <<file, phase, out, bound, status>>
    BY <1>7 DEF vars
  <2>2. Generated' = Generated
    BY <2>1 DEF Generated
  <2>3. /\ Sound' = Sound
        /\ \A s : HostPorts(s)' = HostPorts(s)
    BY <1>4, <2>1
  <2>4. UNION {HostPorts(s)' : s \in DOMAIN status'} = UNION {HostPorts(s) : s \in DOMAIN status}
    BY <2>1, <2>3
  <2>5. ASSUME (Generated /\ Sound)'
        PROVE  (/\ phase # "rejected"
                /\ DOMAIN status \subseteq DOMAIN out
                /\ \A s \in DOMAIN status : status[s] = "up"
                /\ DOMAIN bound = UNION {HostPorts(s) : s \in DOMAIN status}
                /\ \A s \in DOMAIN status : \A h \in HostPorts(s) : bound[h] = s)'
    BY <2>1, <2>2, <2>3, <2>4, <2>5 DEF StackInv
  <2> QED
    BY <2>1, <2>5 DEF StackInv
<1> QED
  BY <1>1, <1>2, <1>3, <1>5, <1>6, <1>7 DEF Next

\* With nothing in the way the stack serves what the input served: all
\* containers run, and first ports and control ports lead where they should.
THEOREM StackServesAlways == Spec => []StackServes
<1>1. Init => StackInv
  BY DEF Init, StackInv, Generated
<1>2. ASSUME LoopInv, StackInv, Generated, Sound, DOMAIN status = DOMAIN out
      PROVE  AllServed
  <2>1. /\ Parsed /\ ~NameTaken
        /\ DOMAIN out = DOMAIN file \cup {ProxyName(n) : n \in Eligible}
    BY <1>2, OutputIs DEF Sound
  <2>2. /\ \A s \in DOMAIN out : status[s] = "up"
        /\ DOMAIN bound = UNION {HostPorts(s) : s \in DOMAIN out}
        /\ \A s \in DOMAIN out : \A h \in HostPorts(s) : bound[h] = s
    BY <1>2 DEF StackInv
  <2>3. ASSUME NEW n \in Eligible
        PROVE  /\ Reached(Port(n, 1).host) = [host |-> n, port |-> Port(n, 1).container]
               /\ Control(n) \in DOMAIN bound /\ bound[Control(n)] = ProxyName(n)
               /\ HasControl(ProxyName(n))
    <3>1. /\ 1 \in DOMAIN file[n].ports /\ ProxyName(n) \in DOMAIN out
          /\ IsProxy(ProxyName(n))
          /\ out[ProxyName(n)].target = [host |-> n, port |-> Port(n, 1).container]
          /\ HostPorts(ProxyName(n)) = Asks(n) \cup {Control(n)}
      BY <1>2, <2>1, FirstPort, ProxyPublishes
    <3>2. Port(n, 1).host \in HostPorts(ProxyName(n))
      BY <3>1 DEF Asks
    <3>3. bound[Port(n, 1).host] = ProxyName(n)
      BY <2>2, <3>1, <3>2
    <3>4. Reached(Port(n, 1).host) = [host |-> n, port |-> Port(n, 1).container]
      BY <3>1, <3>3 DEF Reached
    <3>5. Control(n) \in DOMAIN bound /\ bound[Control(n)] = ProxyName(n)
      BY <2>2, <3>1
    <3> QED
      BY <1>2, <3>1, <3>4, <3>5, ProxyRuns
  <2>4. ASSUME NEW n \in DOMAIN file, n \notin Eligible, file[n].ports # <<>>,
               file[n].ports[1].form # "single"
        PROVE  Reached(Port(n, 1).host) = [host |-> n, port |-> Port(n, 1).container]
    <3>1. 1 \in DOMAIN file[n].ports /\ file[n].ports[1] \in PortSpec
      <4>1. /\ file[n].ports \in Seq(PortSpec)
            /\ \A i \in DOMAIN file[n].ports : file[n].ports[i] \in PortSpec
        BY <2>1, ServiceIs, <1>2
      <4>2. 1 \in DOMAIN file[n].ports
        BY <2>4, <4>1
      <4> QED
        BY <4>1, <4>2
    <3>2. file[n].ports[1].form \in {"pair", "ip"}
      BY <1>2, <2>1, <2>4, <3>1, SoundIs DEF PortSpec
    <3> DEFINE first == file[n].ports[1]
    <3>3. /\ first \in Published(n) /\ ~IsProxy(n) /\ n \in DOMAIN out
          /\ Port(n, 1).host = first.host /\ Port(n, 1).container = first.container
      <4>1. first \in Elements(file[n].ports)
        BY <3>1 DEF Elements
      <4>2. first \in Published(n) /\ ~IsProxy(n)
        BY <1>2, <2>1, <2>4, <3>2, <4>1, ServicePublishes
      <4>3. Port(n, 1).host = first.host /\ Port(n, 1).container = first.container
        BY <1>2, <2>1, <3>1, <3>2, PortIs
      <4> QED
        BY <2>1, <4>2, <4>3
    <3>4. bound[first.host] = n
      BY <2>2, <3>3 DEF HostPorts
    <3> DEFINE any == CHOOSE p \in Published(n) : p.host = first.host
    <3>5. any \in Published(n) /\ any.host = first.host
      BY <3>3
    <3>6. any.container = first.container
      BY <1>2, <3>3, <3>5, OnePort
    <3> QED
      BY <3>3, <3>4, <3>6 DEF Reached
  <2>5. \A n \in DOMAIN file :
            file[n].ports # <<>> /\ (n \in Eligible \/ file[n].ports[1].form # "single") =>
              LET p == parsePort(file[n].ports[1])
              IN  Reached(p.host) = [host |-> n, port |-> p.container]
    BY <2>3, <2>4 DEF Port
  <2>6. \A n \in Eligible :
            LET control == parsePort(file[n].ports[1]).host + 6900
            IN  /\ control \in DOMAIN bound
                /\ bound[control] = ProxyName(n)
                /\ HasControl(ProxyName(n))
    <3>1. \A n \in Eligible : parsePort(file[n].ports[1]).host + 6900 = Control(n)
      BY DEF Control, Port
    <3>2. \A n \in Eligible : /\ Control(n) \in DOMAIN bound
                              /\ bound[Control(n)] = ProxyName(n)
                              /\ HasControl(ProxyName(n))
      BY <2>3
    <3> SUFFICES ASSUME NEW n \in Eligible
                 PROVE  LET control == parsePort(file[n].ports[1]).host + 6900
                        IN  /\ control \in DOMAIN bound
                            /\ bound[control] = ProxyName(n)
                            /\ HasControl(ProxyName(n))
      OBVIOUS
    <3> DEFINE control == parsePort(file[n].ports[1]).host + 6900
    <3>3. control = Control(n)
      BY <3>1
    <3> HIDE DEF control
    <3>4. /\ control \in DOMAIN bound
          /\ bound[control] = ProxyName(n)
          /\ HasControl(ProxyName(n))
      BY <3>2, <3>3
    <3> QED
      BY <3>4 DEF control
  <2> QED
    BY <2>2, <2>5, <2>6 DEF AllServed
<1>3. LoopInv /\ StackInv => StackServes
  BY <1>2 DEF StackServes, StackInv
<1>4. LoopInv /\ StackInv /\ [Next]_vars => StackInv'
  BY StackStep
<1> QED
  BY <1>1, <1>3, <1>4, LoopAlways, PTL DEF Spec
=============================================================================
