------------------------------- MODULE MCPayload -------------------------------
(* Values for the fields of each kind: two or three of each that a conversion *)
(* looks into, chosen so that each of its branches is taken.                  *)
EXTENDS Payload, TLC

Empty == <<>>
Applied == <<"kubectl.kubernetes.io/", "last-applied-configuration">>
Annotations == {Empty, Applied :> "v1", Applied :> "v2",
                (Applied :> "v1") @@ (<<"pv.kubernetes.io/", "bound">> :> "yes"),
                <<"kubernetes.io/", "config.source">> :> "api"}
Common == [meta |-> {"meta"}, labels |-> {Empty, <<"", "app">> :> "web"},
           annotations |-> Annotations]

Role(name) == <<"node-role.kubernetes.io/", name>> :> ""
NodeLabels == {Empty, Role(""), Role("master"), Role("master") @@ Role("control-plane"),
               Role("gpu") @@ (<<"", "zone">> :> "z")}

Container(name, env, requests, context) ==
    [name |-> name, copied |-> name, env |-> env, requests |-> requests, limits |-> Empty,
     securityContext |-> context]
Env(value) == <<[name |-> "PASSWORD", value |-> value]>>
Context(user, nonRoot) == {[privileged |-> {}, runAsUser |-> user, runAsNonRoot |-> nonRoot,
                            addedCapabilities |-> <<>>]}
Containers == {<<Container("a", env, Empty, {}), Container("b", <<>>, req, ctx)>> :
                  env \in {<<>>, Env("v1"), Env("v2")},
                  req \in {Empty, [cpu |-> "1", gpu |-> "1"]},
                  ctx \in {{}, Context({0}, {TRUE}), Context({1}, {FALSE})}}
Status(name, ready, state) == [name |-> name, ready |-> ready, restarts |-> 0, state |-> state]
Up == Status("a", TRUE, {"running"})
Down == Status("b", FALSE, {"waiting"})
Statuses == {<<>>, <<Up>>, <<Up, Down>>, <<Down, Up>>, <<Status("a", FALSE, {"terminated"})>>}
Volumes == {<<>>, <<[name |-> "v", type |-> "secret", ref |-> "s"],
                    [name |-> "w", type |-> "emptyDir", ref |-> "none"],
                    [name |-> "x", type |-> "gitRepo", ref |-> "r"]>>}

Selectors == {{}, {[matchLabels |-> Empty]}, {[matchLabels |-> (<<"", "app">> :> "web")]}}
Images == {<<>>, <<"i">>, <<"i", "j">>}
Ready(status) == [type |-> "Ready", status |-> status]
Pressure == [type |-> "DiskPressure", status |-> "True"]
Owner(k) == [kind |-> k, name |-> k]
Port(value) == [copied |-> "p", targetPort |-> [isNumber |-> value = "80", value |-> value]]
Path(service) == [path |-> "/", pathType |-> {}, service |-> service]
Paths == {<<>>, <<Path({}), Path({[name |-> "s", number |-> 80]}), Path({[name |-> "s", number |-> 0]})>>}
Address(ip, hostname) == [ip |-> ip, hostname |-> hostname]
Data == {Empty, [k |-> "v1"], [k |-> "v2"], [k |-> "v1", l |-> "v1"]}
Bool == {{}, {TRUE}, {FALSE}}
Named(name) == [name |-> name]
Rules == {<<>>, <<[resources |-> {"pods"}]>>, <<[resources |-> {"pods"}], [resources |-> {"pods", "secrets"}]>>}
Subjects == {<<>>, <<[kind |-> "User", name |-> "u", namespace |-> "", apiGroup |-> "g"]>>}
Refs == {[kind |-> "Role", name |-> "r", apiGroup |-> "g"], [kind |-> "Role", name |-> "q", apiGroup |-> "g"]}

Workload == Common @@ [copied |-> {0, 1}, selector |-> Selectors, images |-> Images]
RBAC == Common @@ [rules |-> Rules]
Binding == Common @@ [roleRef |-> Refs, subjects |-> Subjects]

Fields ==
    [Namespace |-> Common @@ [copied |-> {0, 1}],
     Pod |-> Common @@ [copied |-> {0, 1}, containers |-> Containers, statuses |-> Statuses,
                        initContainers |-> {<<>>, <<Container("a", Env("v1"), Empty, {})>>},
                        initStatuses |-> {<<>>, <<Up>>}, volumes |-> Volumes],
     Node |-> [Common EXCEPT !.labels = NodeLabels] @@
              [copied |-> {0, 1},
               conditions |-> {<<>>, <<Ready("True"), Pressure>>, <<Pressure, Ready("True")>>,
                               <<Pressure, Ready("False")>>, <<Ready("False"), Pressure>>}],
     Deployment |-> Workload @@ [replicas |-> {{}, {0}, {1}}],
     StatefulSet |-> Workload @@ [replicas |-> {{}, {0}, {1}}],
     DaemonSet |-> Workload,
     Job |-> Common @@ [copied |-> {0, 1}, completions |-> {{}, {2}}, parallelism |-> {{}, {2}},
                        owners |-> {<<>>, <<Owner("CronJob"), Owner("App")>>,
                                    <<Owner("App"), Owner("CronJob")>>}],
     CronJob |-> Common @@ [copied |-> {0, 1}, suspend |-> Bool, active |-> {<<>>, <<"j">>}],
     Service |-> Common @@ [copied |-> {0, 1}, ports |-> {<<>>, <<Port("80"), Port("web")>>}],
     Ingress |-> Common @@ [copied |-> {0, 1}, className |-> {{}, {"nginx"}},
                            rules |-> {<<[host |-> "h", paths |-> p]>> : p \in Paths},
                            loadBalancer |-> {<<>>, <<Address("", ""), Address("", "h"), Address("1", "h")>>}],
     NetworkPolicy |-> Common @@ [copied |-> {0, 1}, ingress |-> {<<>>, <<"r">>}, egress |-> {<<>>, <<"r">>},
                                  podSelector |-> {[matchLabels |-> Empty], [matchLabels |-> (<<"", "app">> :> "web")]}],
     ConfigMap |-> Common @@ [data |-> Data, binaryData |-> Data, immutable |-> Bool],
     Secret |-> Common @@ [copied |-> {0, 1}, data |-> Data, immutable |-> Bool],
     PersistentVolumeClaim |-> Common @@ [copied |-> {0, 1}, storageClassName |-> {{}, {"fast"}},
                                          volumeMode |-> {{}, {"Block"}}, requests |-> {Empty, [storage |-> "1Gi"]}],
     ServiceAccount |-> Common @@ [copied |-> Bool, secrets |-> {<<>>, <<Named("s")>>},
                                   imagePullSecrets |-> {<<>>, <<Named("s")>>}],
     Role |-> RBAC, ClusterRole |-> RBAC, RoleBinding |-> Binding, ClusterRoleBinding |-> Binding,
     Event |-> Common @@ [copied |-> {0, 1}, firstTimestamp |-> {0, 1}, lastTimestamp |-> {0, 1}]]
==============================================================================
