------------------------------ MODULE MCCompose ------------------------------
(* Compose for TLC: two services in every shape that the code tells apart, *)
(* with host ports that meet each other's control ports, and a third that  *)
(* shares networks with one whose name a proxy takes.                      *)
EXTENDS Compose, TLC

Pair(h, c) == [form |-> "pair", host |-> h, container |-> c]
OnIp(h, c) == [form |-> "ip", host |-> h, container |-> c]
Single(c)  == [form |-> "single", host |-> 0, container |-> c]
Other      == [form |-> "other", host |-> 0, container |-> 0]

PortLists ==
    {<<>>, <<Pair(3000, 8080)>>, <<Pair(3000, 8080), Pair(3001, 80)>>,
     <<Pair(3001, 80)>>, <<Single(9900)>>, <<Single(3000)>>, <<OnIp(3000, 8080), OnIp(3000, 8080)>>,
     <<Pair(3000, 80), Pair(9900, 81)>>, <<Pair(60000, 80)>>, <<Pair(3001, 80), Other>>}

NetworkForms ==
    {[form |-> "none", names |-> {}], [form |-> "list", names |-> {"back"}],
     [form |-> "list", names |-> {"default", "back"}], [form |-> "map", names |-> {"back"}]}

NoVars == [v \in {} |-> {}]
Environments ==
    {[form |-> "list", vars |-> NoVars], [form |-> "scalar", vars |-> NoVars],
     [form |-> "map", vars |-> "DPIVOT_BACKEND" :> [text |-> "user", port |-> 1]
                               @@ "KEY" :> Bare]}

App == [name |-> "myapp", digest |-> FALSE]
Images == {App, [name |-> "postgres", digest |-> FALSE], [name |-> "postgres", digest |-> TRUE]}

\* One service has every combination, the other varies in ports and networks.
Service(i, k, p, n, e) ==
    [image |-> i, skip |-> k, ports |-> p, expose |-> {80}, networks |-> n, environment |-> e]
Wide == {Service(i, k, p, n, e) : i \in Images, k \in BOOLEAN, p \in PortLists,
                                  n \in NetworkForms, e \in Environments}
Plain == {Service(App, k, p, n, [form |-> "list", vars |-> NoVars]) :
             k \in BOOLEAN, p \in {<<>>, <<Pair(3001, 80)>>, <<Pair(9900, 80)>>},
             n \in {[form |-> "none", names |-> {}], [form |-> "list", names |-> {"back"}]}}

MCFiles ==
    {"web" :> w @@ "api" :> a : w \in Wide, a \in Plain}
    \cup {"web" :> w @@ "dpivot-proxy-web" :> a : w \in Wide, a \in {s \in Plain : s.skip}}
    \cup {"web" :> w @@ "dpivot-proxy-web" :> a @@ "db" :> b :
              w \in Plain, a \in Plain, b \in {s \in Plain : s.skip}}
    \cup {NoVars}
=============================================================================
