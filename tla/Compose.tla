------------------------------- MODULE Compose -------------------------------
(***************************************************************************)
(* `dpivot generate` (internal/compose, generateCmd of cmd/dpivot) from    *)
(* the compose file to the stack that Docker starts from its output: the   *)
(* proxies, which read what the generator wrote into their environment     *)
(* (runProxy), and the address that a rollout reads out of a new container *)
(* (pickMeshIP and pickBackendPort of internal/rollout).  None of these    *)
(* parts calls another: they agree by the text of the generated file.      *)
(*                                                                         *)
(* A service of the input is a record of what its YAML says:               *)
(*   image        [name, digest]: the last path segment without its tag,   *)
(*                and whether the image is pulled by digest (name@sha256:) *)
(*   skip         x-dpivot: skip: true                                     *)
(*   ports        a sequence of [form, host, container]; "pair" is h:c,    *)
(*                "ip" is ip:h:c, "single" is c, and "other" is whatever   *)
(*                parsePort refuses (ranges, /udp, the long form)          *)
(*   expose       the container ports of the image and of expose:          *)
(*   networks     [form, names]; "none", "list", or "map" with options     *)
(*   environment  [form, vars]; "map", "list", or "scalar", an error       *)
(* Labels, depends_on and the fields that nothing here reads are left out. *)
(***************************************************************************)
EXTENDS Integers, Sequences

CONSTANT Files  \* compose files: functions from service names to services

ControlPort == 9900

databaseImages ==
    {"postgres", "postgresql", "mysql", "mariadb", "redis", "mongo", "mongodb",
     "elasticsearch", "opensearch", "cassandra", "couchdb", "influxdb",
     "rabbitmq", "kafka", "zookeeper", "mssql", "clickhouse", "minio", "vault"}

VARIABLES file,    \* the input
          phase,   \* where the command is, then what becomes of its output
          svcs,    \* the parsed services, Generate's input
          todo,    \* those its loop has not come to
          out,     \* the services of the generated file
          sum,     \* Summary
          bound,   \* the host ports in use, and the service each leads to
          status   \* what became of the containers that were started

vars == <<file, phase, svcs, todo, out, sum, bound, status>>

Elements(s) == {s[i] : i \in DOMAIN s}
Empty == [s \in {} |-> {}]

\* An entry of a Go map, and the entries of f written over those of g.
Entry(k, v) == [key \in {k} |-> v]
Over(f, g) ==
    [k \in DOMAIN f \cup DOMAIN g |-> IF k \in DOMAIN f THEN f[k] ELSE g[k]]

Init ==
    /\ file \in Files
    /\ phase = "parse"
    /\ svcs = Empty
    /\ todo = {}
    /\ out = Empty
    /\ sum = [Proxied |-> {}, Skipped |-> {}, PassThru |-> {}]
    /\ bound = Empty
    /\ status = Empty

-----------------------------------------------------------------------------
(* The parser. *)

\* The port of a value that has none after a colon.
NoPort == -1

\* A variable without a value: KEY alone in a list, a null in a map.
Bare == [text |-> "bare", port |-> NoPort]

\* coerceEnvironment makes a value of it, which Docker no longer inherits.
coerceEnvironment(env) ==
    [v \in DOMAIN env.vars |->
       IF env.vars[v] = Bare
       THEN [text |-> IF env.form = "map" THEN "<nil>" ELSE "", port |-> NoPort]
       ELSE env.vars[v]]

\* A map is an error, which the caller ignores.
coerceStringSlice(list) == IF list.form = "list" THEN list.names ELSE {}

\* What is kept twice: the typed field for the generator, the field of
\* RawFields for the output.  A map of networks has no typed field.
coerceService(s) ==
    [image |-> s.image, skip |-> s.skip, ports |-> s.ports, expose |-> s.expose,
     Networks |-> coerceStringSlice(s.networks),
     Environment |-> coerceEnvironment(s.environment),
     networks |-> s.networks,
     environment |-> s.environment]

Readable(f) ==
    /\ DOMAIN f # {}
    /\ \A n \in DOMAIN f : f[n].environment.form # "scalar"

ParseBytes ==
    /\ phase = "parse"
    /\ \/ ~Readable(file) /\ phase' = "failed" /\ UNCHANGED <<svcs, todo>>
       \/ /\ Readable(file)
          /\ phase' = "generate"
          /\ svcs' = [n \in DOMAIN file |-> coerceService(file[n])]
          /\ todo' = DOMAIN file
    /\ UNCHANGED <<file, out, sum, bound, status>>

-----------------------------------------------------------------------------
(* The detector. *)

\* The last colon of a digest is taken for that of a tag.
baseImageName(image) ==
    IF image.digest THEN image.name \o "@sha256" ELSE image.name

IsDatabase(image) == baseImageName(image) \in databaseImages

ShouldProxy(svc) == ~svc.skip /\ svc.ports # <<>> /\ ~IsDatabase(svc.image)

-----------------------------------------------------------------------------
(* The generator. *)

ProxyName(n) == "dpivot-proxy-" \o n

PortSpec == [form : {"pair", "ip", "single", "other"}, host : Nat, container : Nat]

\* The files say what the comment at the top says.  What parsePort reads is a
\* port that Docker knows; networks have names where the form has room for them.
FileAssumption ==
    \A f \in Files : \A n \in DOMAIN f :
        /\ f[n].ports \in Seq(PortSpec)
        /\ f[n].networks.form \in {"none", "list", "map"}
        /\ f[n].networks.form = "none" => f[n].networks.names = {}

\* One prefix before two names keeps them apart.  True of strings, of whose
\* characters nothing else here knows.
NameAssumption ==
    \A f \in Files : \A m, n \in DOMAIN f : ProxyName(m) = ProxyName(n) => m = n

ASSUME FilesAreFiles == FileAssumption
ASSUME NamesStayApart == NameAssumption

Parsable(svc) == \A p \in Elements(svc.ports) : p.form # "other"

\* An IP address is dropped, and a container port alone is its host port, too.
parsePort(p) ==
    [form |-> "pair", container |-> p.container,
     host |-> IF p.form = "single" THEN p.container ELSE p.host]

Pairs(svc) == [i \in DOMAIN svc.ports |-> parsePort(svc.ports[i])]

\* Mutant: the implicit default network is forgotten.
JoinedBare(names) == names \cup {"dpivot_mesh"}

Joined(names) ==
    (IF names = {} THEN {"default"} ELSE names) \cup {"dpivot_mesh"}

Backing(n, svc) ==
    LET pairs == Pairs(svc)
    IN  [image |-> svc.image, skip |-> FALSE, ports |-> <<>>,
         expose |-> svc.expose \cup {p.container : p \in Elements(pairs)},
         networks |-> [form |-> "list", names |-> Joined(svc.Networks)],
         environment |->
            [form |-> "map",
             vars |-> Over(Entry("DPIVOT_BACKEND",
                                [text |-> n, port |-> pairs[1].container]),
                          svc.Environment)]]

\* Mutant: the fallback is all there is.
controlHostPortDefault(pairs) == ControlPort

controlHostPort(pairs) == pairs[1].host + 6900

ProxyService(n, svc) ==
    LET pairs == Pairs(svc)
    IN  [ports |-> [i \in DOMAIN pairs |->
                      [pairs[i] EXCEPT !.container = pairs[i].host]]
                     \o <<[form |-> "pair", host |-> controlHostPort(pairs),
                           container |-> ControlPort]>>,
         networks |-> [form |-> "list", names |-> {"dpivot_mesh"}],
         binds |-> pairs,
         target |-> [host |-> n, port |-> pairs[1].container]]

\* A service that is not proxied has in the output what it had in the input.
copyService(svc) ==
    [image |-> svc.image, skip |-> svc.skip, ports |-> svc.ports,
     expose |-> svc.expose, networks |-> svc.networks,
     environment |-> svc.environment]

Emit(n, services, list) ==
    /\ out' = Over(services, out)
    /\ sum' = [sum EXCEPT ![list] = @ \cup {n}]
    /\ todo' = todo \ {n}
    /\ UNCHANGED <<file, phase, svcs, bound, status>>

\* One pass of the loop over a map, whose order Go does not define.
PassThrough(n) ==
    /\ phase = "generate" /\ n \in todo
    /\ svcs[n].skip \/ svcs[n].ports = <<>>
    /\ Emit(n, Entry(n, copyService(svcs[n])), "PassThru")

SkipDatabase(n) ==
    /\ phase = "generate" /\ n \in todo
    /\ ~svcs[n].skip /\ svcs[n].ports # <<>>
    /\ IsDatabase(svcs[n].image)
    /\ Emit(n, Entry(n, copyService(svcs[n])), "Skipped")

Inject(n) ==
    /\ phase = "generate" /\ n \in todo
    /\ ~svcs[n].skip /\ svcs[n].ports # <<>> /\ ~IsDatabase(svcs[n].image)
    /\ Parsable(svcs[n])
    /\ Emit(n, Over(Entry(ProxyName(n), ProxyService(n, svcs[n])),
                     Entry(n, Backing(n, svcs[n]))), "Proxied")

\* Mutant: a service with a bad port is left out, and the loop goes on.
LeaveOut(n) ==
    /\ phase = "generate" /\ n \in todo
    /\ ~svcs[n].skip /\ svcs[n].ports # <<>> /\ ~IsDatabase(svcs[n].image)
    /\ ~Parsable(svcs[n])
    /\ todo' = todo \ {n}
    /\ UNCHANGED <<file, phase, svcs, out, sum, bound, status>>

\* buildProxyPair fails, and the whole of Generate with it.
Reject(n) ==
    /\ phase = "generate" /\ n \in todo
    /\ ~svcs[n].skip /\ svcs[n].ports # <<>> /\ ~IsDatabase(svcs[n].image)
    /\ ~Parsable(svcs[n])
    /\ phase' = "failed"
    /\ UNCHANGED <<file, svcs, todo, out, sum, bound, status>>

writeComposeFile ==
    /\ phase = "generate" /\ todo = {}
    /\ phase' = "written"
    /\ UNCHANGED <<file, svcs, todo, out, sum, bound, status>>

-----------------------------------------------------------------------------
(* docker compose up, of the generated file. *)

IsProxy(s) == "target" \in DOMAIN out[s]

\* The host ports that a service asks for.  Docker picks one for "single", and
\* what "other" asks for is not followed.
Published(s) == {p \in Elements(out[s].ports) : p.form \in {"pair", "ip"}}
HostPorts(s) == {p.host : p \in Published(s)}

\* Compose refuses a file with an impossible port.
ComposeUp ==
    /\ phase = "written"
    /\ phase' = IF \E s \in DOMAIN out : \E h \in HostPorts(s) : h > 65535
                THEN "rejected" ELSE "up"
    /\ UNCHANGED <<file, svcs, todo, out, sum, bound, status>>

\* runProxy binds the listen ports of DPIVOT_BINDS one after the other, and
\* gives up at the first that it has already bound.
BindFails(s) ==
    \E i, j \in DOMAIN out[s].binds :
        i # j /\ out[s].binds[i].host = out[s].binds[j].host

\* The control API comes last.  If the traffic has its port, the failure is
\* logged and the proxy goes on without one.
HasControl(s) == ControlPort \notin {b.host : b \in Elements(out[s].binds)}

PortsFree(s) ==
    /\ HostPorts(s) \cap DOMAIN bound = {}
    /\ \A p, q \in Published(s) : p.host = q.host => p.container = q.container

Start(s) ==
    /\ phase = "up"
    /\ s \in DOMAIN out \ DOMAIN status
    /\ \/ /\ ~PortsFree(s)
          /\ status' = Over(Entry(s, "refused"), status)
          /\ UNCHANGED bound
       \/ /\ PortsFree(s)
          /\ bound' = Over([h \in HostPorts(s) |-> s], bound)
          /\ status' = Over(Entry(s, IF IsProxy(s) /\ BindFails(s)
                                     THEN "exited" ELSE "up"), status)
    /\ UNCHANGED <<file, phase, svcs, todo, out, sum>>

Next ==
    \/ ParseBytes
    \/ \E n \in todo : PassThrough(n) \/ SkipDatabase(n) \/ Inject(n) \/ Reject(n)
    \/ writeComposeFile
    \/ ComposeUp
    \/ \E s \in DOMAIN out : Start(s)

Spec == Init /\ [][Next]_vars
-----------------------------------------------------------------------------
(* The address a rollout registers for a new container of service s. *)

Networks(s) ==
    LET names == out[s].networks.names IN IF names = {} THEN {"default"} ELSE names

\* The network whose address is taken: any one if the mesh is not among them.
pickMeshIP(nets) == IF "dpivot_mesh" \in nets THEN {"dpivot_mesh"} ELSE nets

Lowest(ports) == CHOOSE p \in ports : \A q \in ports : p <= q

\* Mutant: the environment is not looked at.
pickLowestPort(env, exposed) == IF exposed = {} THEN 80 ELSE Lowest(exposed)

pickBackendPort(env, exposed) ==
    IF "DPIVOT_BACKEND" \in DOMAIN env /\ env["DPIVOT_BACKEND"].port # NoPort
    THEN env["DPIVOT_BACKEND"].port
    ELSE IF exposed = {} THEN 80 ELSE Lowest(exposed)

containerAddr(s) ==
    [nets |-> pickMeshIP(Networks(s)),
     port |-> pickBackendPort(out[s].environment.vars, out[s].expose)]

-----------------------------------------------------------------------------
(* Properties *)

Generated == phase \in {"written", "rejected", "up"}
Eligible == {n \in DOMAIN file : ShouldProxy(coerceService(file[n]))}
NameTaken == \E n \in Eligible : ProxyName(n) \in DOMAIN file

\* The generated services, said at once instead of in some order.
Whole ==
    [s \in DOMAIN file \cup {ProxyName(n) : n \in Eligible} |->
       IF s \in Eligible THEN Backing(s, svcs[s])
       ELSE IF s \in DOMAIN file THEN copyService(svcs[s])
       ELSE LET n == CHOOSE n \in Eligible : s = ProxyName(n) IN ProxyService(n, svcs[n])]

\* The result of Generate depends on the input alone: neither the order of the
\* loop nor a service that comes before a bad one shows, the eligible services
\* are those of ShouldProxy, and the one thing that fails it is a port of an
\* eligible service that parsePort refuses.  Only a service that has the name
\* of another one's proxy makes the outcome a matter of order.
ResultIsAFunction ==
    /\ Generated =>
          /\ \A n \in Eligible : Parsable(svcs[n])
          /\ sum.Proxied = Eligible
          /\ sum.Proxied \cup sum.Skipped \cup sum.PassThru = DOMAIN file
          /\ ~NameTaken => out = Whole
    /\ phase = "failed" =>
          ~Readable(file) \/ \E n \in Eligible : ~Parsable(svcs[n])

InputNetworks(n) ==
    LET names == file[n].networks.names IN IF names = {} THEN {"default"} ELSE names

\* The networks of a proxied service that are written as a map are lost, and
\* those of a service that another one's proxy may replace.
Loses(n) ==
    \/ n \in Eligible /\ file[n].networks.form = "map"
    \/ \E m \in Eligible : n = ProxyName(m)

\* "So it can still reach stateful services": two services that shared a
\* network share one in the output, unless a proxy took the name of one.
ConnectivityKept ==
    Generated =>
        \A m, n \in DOMAIN file :
            InputNetworks(m) \cap InputNetworks(n) # {} /\ ~Loses(m) /\ ~Loses(n)
                => Networks(m) \cap Networks(n) # {}

\* A rollout registers a new container where the seed leads: on the network
\* that the proxy is on, at the port of DPIVOT_TARGETS, whatever the image
\* exposes and the user's environment says.
RolloutFollowsSeed ==
    Generated /\ ~NameTaken =>
        \A n \in Eligible :
            /\ containerAddr(n).port = out[ProxyName(n)].target.port
            /\ containerAddr(n).nets \subseteq Networks(ProxyName(n))

\* Every host port that service n publishes, and the port behind it.
Wanted(n) == {parsePort(p) : p \in Elements(file[n].ports)}

\* Files for which nothing stands in the way: the input's host ports are all
\* different and possible, and so are the control ports, and none is 9900.
Sound ==
    /\ ~NameTaken
    /\ \A n \in DOMAIN file : \A p \in Elements(file[n].ports) : p.form # "other"
    /\ \A m, n \in DOMAIN file :
          \A i \in DOMAIN file[m].ports, j \in DOMAIN file[n].ports :
              parsePort(file[m].ports[i]).host = parsePort(file[n].ports[j]).host
                  => m = n /\ i = j
    /\ \A n \in DOMAIN file : \A p \in Wanted(n) : p.host <= 65535
    /\ \A n \in Eligible :
          LET control == controlHostPort(Pairs(file[n]))
          IN  /\ control <= 65535
              /\ \A m \in DOMAIN file : \A p \in Wanted(m) : p.host # control
              /\ \A p \in Wanted(n) : p.host # ControlPort

\* Where a connection to host port h ends.
Reached(h) ==
    LET s == bound[h]
    IN  IF IsProxy(s) THEN out[s].target
        ELSE [host |-> s, port |-> (CHOOSE p \in Published(s) : p.host = h).container]

AllServed ==
    /\ \A s \in DOMAIN out : status[s] = "up"
    /\ \A n \in DOMAIN file :
          file[n].ports # <<>> /\ (n \in Eligible \/ file[n].ports[1].form # "single") =>
              LET p == parsePort(file[n].ports[1])
              IN  Reached(p.host) = [host |-> n, port |-> p.container]
    /\ \A n \in Eligible :
          LET control == parsePort(file[n].ports[1]).host + 6900
          IN  /\ control \in DOMAIN bound
              /\ bound[control] = ProxyName(n)
              /\ HasControl(ProxyName(n))

\* The stack serves what it served: with nothing in the way Compose takes the
\* output, and once all is started every container runs, the first port that a
\* service publishes leads to the container port that the input names, through
\* the proxy if the service has one, and the control API of the proxy is at the
\* first port plus 6900.
StackServes ==
    Generated /\ Sound =>
        /\ phase # "rejected"
        /\ DOMAIN status = DOMAIN out => AllServed
=============================================================================
