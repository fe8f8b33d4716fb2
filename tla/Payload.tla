-------------------------------- MODULE Payload --------------------------------
(***************************************************************************)
(* internal/transport/types.go: what of a Kubernetes object is sent to the *)
(* platform, one operator for each of the twenty conversions, and the      *)
(* handler that sends it again whenever the object changes.                *)
(*                                                                         *)
(* An object is a record with the fields of its metadata, spec and status  *)
(* that a conversion looks into; those it copies as they are make up the   *)
(* field copied.  A pointer is a set of at most one element, a Go map is a *)
(* function, and a slice filled from a map, whose order Go does not fix,   *)
(* is a set.  A key of a label or an annotation is a pair <<prefix, name>>. *)
(***************************************************************************)
EXTENDS Naturals, Sequences, FiniteSets, Functions

CONSTANT Domain   \* per kind, the values each field of an object takes

Kind == {"Namespace", "Pod", "Node", "Deployment", "StatefulSet", "DaemonSet", "Job",
         "CronJob", "Service", "Ingress", "NetworkPolicy", "ConfigMap", "Secret",
         "PersistentVolumeClaim", "ServiceAccount", "Role", "ClusterRole",
         "RoleBinding", "ClusterRoleBinding", "Event"}

\* What a conversion reads, besides metadata.
MetaFields == {"meta", "labels", "annotations"}
WorkloadFields == {"copied", "selector", "images"}
FieldsOf(k) ==
    CASE k = "Namespace" -> {"copied"}
      [] k = "Pod" -> {"copied", "containers", "statuses", "initContainers", "initStatuses",
                       "volumes"}
      [] k = "Node" -> {"copied", "conditions"}
      [] k \in {"Deployment", "StatefulSet"} -> WorkloadFields \cup {"replicas"}
      [] k = "DaemonSet" -> WorkloadFields
      [] k = "Job" -> {"copied", "completions", "parallelism", "owners"}
      [] k = "CronJob" -> {"copied", "suspend", "active"}
      [] k = "Service" -> {"copied", "ports"}
      [] k = "Ingress" -> {"copied", "className", "rules", "loadBalancer"}
      [] k = "NetworkPolicy" -> {"copied", "podSelector", "ingress", "egress"}
      [] k = "ConfigMap" -> {"data", "binaryData", "immutable"}
      [] k = "Secret" -> {"copied", "data", "immutable"}
      [] k = "PersistentVolumeClaim" -> {"copied", "storageClassName", "volumeMode", "requests"}
      [] k = "ServiceAccount" -> {"copied", "secrets", "imagePullSecrets"}
      [] k \in {"Role", "ClusterRole"} -> {"rules"}
      [] k \in {"RoleBinding", "ClusterRoleBinding"} -> {"roleRef", "subjects"}
      [] k = "Event" -> {"copied", "firstTimestamp", "lastTimestamp"}

ASSUME DomainAssumption ==
    \A k \in Kind :
        /\ DOMAIN Domain[k] = MetaFields \cup FieldsOf(k)
        /\ \A f \in DOMAIN Domain[k] : Domain[k][f] # {}

\* What the writers of these objects keep to: the statuses of a pod have different
\* names and the conditions of a node different types, as the kubelet writes them; one
\* CronJob at most owns a job, as the CronJob controller makes it.  The last is no rule
\* of the API server, and NewJobInfo would take the first of two.
IsList(s) == DOMAIN s \subseteq Nat
UniqueNames(s) == IsList(s) /\ \A i, j \in DOMAIN s : s[i].name = s[j].name => i = j
UniqueTypes(s) == IsList(s) /\ \A i, j \in DOMAIN s : s[i].type = s[j].type => i = j
OneCronJob(s) ==
    IsList(s) /\ \A i, j \in DOMAIN s : s[i].kind = "CronJob" /\ s[j].kind = "CronJob" => i = j
ASSUME UniqueAssumption ==
    /\ \A s \in Domain["Pod"]["statuses"] \cup Domain["Pod"]["initStatuses"] : UniqueNames(s)
    /\ \A s \in Domain["Node"]["conditions"] : UniqueTypes(s)
    /\ \A s \in Domain["Job"]["owners"] : OneCronJob(s)

VARIABLES
    kind,     \* the kind of the object
    object,   \* the object in the cluster
    sent      \* Object of the last event sent for it

vars == <<kind, object, sent>>

Deref(pointer, default) == IF pointer = {} THEN default ELSE CHOOSE v \in pointer : TRUE

-----------------------------------------------------------------------------
(* Metadata *)

ExcludePrefixes_bug == {"kubernetes.io/"}
ExcludePrefixes == {"kubectl.kubernetes.io/", "kubernetes.io/"}
filterAnnotations(annotations) ==
    Restrict(annotations, {k \in DOMAIN annotations : k[1] \notin ExcludePrefixes})

\* UID, name, namespace and creation time are copied, labels too.
Meta(o) == [meta |-> o.meta, labels |-> o.labels,
            annotations |-> filterAnnotations(o.annotations)]

-----------------------------------------------------------------------------
(* Pods *)

ZeroStatus == [name |-> "", ready |-> FALSE, restarts |-> 0, state |-> {}]

\* containerStatusMap, in which the last status of a name wins.
StatusOf_bug(statuses, i, name) == IF i \in DOMAIN statuses THEN statuses[i] ELSE ZeroStatus
StatusOf(statuses, i, name) ==
    LET named == {j \in DOMAIN statuses : statuses[j].name = name} IN
    IF named = {} THEN ZeroStatus
    ELSE statuses[CHOOSE j \in named : \A l \in named : l <= j]

\* Names of environment variables, "NOT values".
EnvVarNames(env) == [i \in DOMAIN env |-> env[i].name]

\* Only cpu and memory, of requests and of limits.
Quantities(list) == Restrict(list, DOMAIN list \cap {"cpu", "memory"})

RunAsRoot(context) ==
    IF 0 \in context.runAsUser \/ FALSE \in context.runAsNonRoot THEN {TRUE} ELSE {}

SecurityContext(context) ==
    [privileged |-> context.privileged, runAsRoot |-> RunAsRoot(context),
     capabilities |-> context.addedCapabilities]

\* Copied: name, image, and three fields of each port and volume mount.
newContainerInfo(c, status) ==
    [copied |-> c.copied, ready |-> status.ready, restarts |-> status.restarts,
     state |-> IF "running" \in status.state THEN "running"
               ELSE IF "waiting" \in status.state THEN "waiting"
               ELSE IF "terminated" \in status.state THEN "terminated" ELSE "",
     requests |-> Quantities(c.requests), limits |-> Quantities(c.limits),
     envVarNames |-> EnvVarNames(c.env),
     securityContext |-> {SecurityContext(context) : context \in c.securityContext}]

\* The sources that have a reference in VolumeInfo; the reference of the others is empty.
ReferringVolumes == {"configMap", "secret", "pvc", "hostPath", "csi", "nfs"}
OtherVolumes == {"emptyDir", "projected", "downwardAPI", "ephemeral"}
newVolumeInfo(v) ==
    [name |-> v.name,
     type |-> IF v.type \in ReferringVolumes \cup OtherVolumes THEN v.type ELSE "unknown",
     source |-> IF v.type \in ReferringVolumes THEN v.ref ELSE ""]

\* Copied: node, service account, phase, QoS and priority class, IPs, and of each
\* condition type and status.
NewPodInfo(pod) ==
    LET infos(containers, statuses) ==
            [i \in DOMAIN containers |->
                newContainerInfo(containers[i], StatusOf(statuses, i, containers[i].name))]
    IN [meta |-> Meta(pod), copied |-> pod.copied,
        containers |-> infos(pod.containers, pod.statuses),
        initContainers |-> infos(pod.initContainers, pod.initStatuses),
        volumes |-> [i \in DOMAIN pod.volumes |-> newVolumeInfo(pod.volumes[i])]]

-----------------------------------------------------------------------------
(* Namespaces and nodes *)

\* Copied: phase.
NewNamespaceInfo(ns) == [meta |-> Meta(ns), copied |-> ns.copied]

\* The first Ready condition decides.
NodeStatus(conditions) ==
    LET ready == {i \in DOMAIN conditions : conditions[i].type = "Ready"} IN
    IF \E i \in ready : (\A j \in ready : i <= j) /\ conditions[i].status = "True"
    THEN "Ready" ELSE "NotReady"

\* One role for each label node-role.kubernetes.io/..., so that a role may appear
\* more than once; master is the old name of control-plane.
RoleOf(name) == IF name = "master" THEN "control-plane" ELSE name
NodeRoles(labels) ==
    LET names == {k[2] : k \in {l \in DOMAIN labels : l[1] = "node-role.kubernetes.io/"}} \ {""}
    IN [role \in {RoleOf(n) : n \in names} |-> Cardinality({n \in names : RoleOf(n) = role})]

\* Copied: versions, OS image, architecture and capacity.
NewNodeInfo(node) ==
    [meta |-> Meta(node), copied |-> node.copied,
     status |-> NodeStatus(node.conditions), roles |-> NodeRoles(node.labels)]

-----------------------------------------------------------------------------
(* Workloads *)

\* Of a label selector only matchLabels is sent.
MatchLabels(selector) == {s.matchLabels : s \in selector}
FirstImage(images) == IF images = <<>> THEN "" ELSE Head(images)

\* Copied: replica counts of the status, strategy.
NewDeploymentInfo(deploy) ==
    [meta |-> Meta(deploy), copied |-> deploy.copied, replicas |-> Deref(deploy.replicas, 1),
     selector |-> MatchLabels(deploy.selector), image |-> FirstImage(deploy.images)]

\* Copied: replica counts of the status, update strategy, service name.
NewStatefulSetInfo(sts) ==
    [meta |-> Meta(sts), copied |-> sts.copied, replicas |-> Deref(sts.replicas, 1),
     selector |-> MatchLabels(sts.selector), image |-> FirstImage(sts.images)]

\* Copied: scheduling counts, update strategy, node selector.
NewDaemonSetInfo(ds) ==
    [meta |-> Meta(ds), copied |-> ds.copied,
     selector |-> MatchLabels(ds.selector), image |-> FirstImage(ds.images)]

\* The first owner of kind CronJob.
OwnerRef(owners) ==
    LET cronJobs == {i \in DOMAIN owners : owners[i].kind = "CronJob"} IN
    IF cronJobs = {} THEN ""
    ELSE owners[CHOOSE i \in cronJobs : \A j \in cronJobs : i <= j].name

\* Copied: counts, start and completion time.
NewJobInfo(job) ==
    [meta |-> Meta(job), copied |-> job.copied, completions |-> Deref(job.completions, 1),
     parallelism |-> Deref(job.parallelism, 1), ownerRef |-> OwnerRef(job.owners)]

\* Copied: schedule, concurrency policy, last schedule time.
NewCronJobInfo(cj) ==
    [meta |-> Meta(cj), copied |-> cj.copied, suspend |-> Deref(cj.suspend, FALSE),
     activeJobs |-> Len(cj.active)]

-----------------------------------------------------------------------------
(* Networking *)

\* TargetPort.String(): a number and a name of the same digits become one.
PortInfo(p) == [copied |-> p.copied, targetPort |-> p.targetPort.value]

\* Copied: type, cluster IP, selector.
NewServiceInfo(svc) ==
    [meta |-> Meta(svc), copied |-> svc.copied,
     ports |-> [i \in DOMAIN svc.ports |-> PortInfo(svc.ports[i])]]

\* Of a backend the service's name and numeric port; a port given by name is 0.
IngressPath(p) ==
    [path |-> p.path, pathType |-> Deref(p.pathType, ""),
     serviceName |-> IF p.service = {} THEN "" ELSE Deref(p.service, "").name,
     servicePort |-> IF p.service = {} THEN 0 ELSE Deref(p.service, "").number]
IngressRule(r) ==
    [host |-> r.host, paths |-> [i \in DOMAIN r.paths |-> IngressPath(r.paths[i])]]

\* The IP, else the host name, of each entry that has one.
LoadBalancerIPs(entries) ==
    LET address(e) == IF e.ip # "" THEN e.ip ELSE e.hostname
        named(e) == address(e) # ""
        kept == SelectSeq(entries, named)
    IN [i \in DOMAIN kept |-> address(kept[i])]

\* Copied: hosts and secret names of TLS.
NewIngressInfo(ing) ==
    [meta |-> Meta(ing), copied |-> ing.copied, className |-> Deref(ing.className, ""),
     rules |-> [i \in DOMAIN ing.rules |-> IngressRule(ing.rules[i])],
     loadBalancerIPs |-> LoadBalancerIPs(ing.loadBalancer)]

\* Copied: policy types.
NewNetworkPolicyInfo(np) ==
    [meta |-> Meta(np), copied |-> np.copied, podSelector |-> np.podSelector.matchLabels,
     ingressRules |-> Len(np.ingress), egressRules |-> Len(np.egress)]

-----------------------------------------------------------------------------
(* Configuration and storage: "only metadata and data KEYS - never values" *)

NewConfigMapInfo(cm) ==
    [meta |-> Meta(cm), dataKeys |-> DOMAIN cm.data, binaryKeys |-> DOMAIN cm.binaryData,
     immutable |-> Deref(cm.immutable, FALSE)]

\* Copied: type.
NewSecretInfo(secret) ==
    [meta |-> Meta(secret), copied |-> secret.copied, dataKeys |-> DOMAIN secret.data,
     immutable |-> Deref(secret.immutable, FALSE)]

\* Copied: access modes, volume name, phase.
NewPVCInfo(pvc) ==
    [meta |-> Meta(pvc), copied |-> pvc.copied,
     storageClassName |-> Deref(pvc.storageClassName, ""),
     volumeMode |-> Deref(pvc.volumeMode, ""),
     storageRequest |-> IF "storage" \in DOMAIN pvc.requests THEN pvc.requests["storage"] ELSE ""]

-----------------------------------------------------------------------------
(* Access control and events *)

\* Copied: the pointer to automountServiceAccountToken; of secrets, the names.
NewServiceAccountInfo(sa) ==
    LET names(refs) == [i \in DOMAIN refs |-> refs[i].name] IN
    [meta |-> Meta(sa), copied |-> sa.copied, secrets |-> names(sa.secrets),
     imagePullSecrets |-> names(sa.imagePullSecrets)]

\* Of the rules only their number and the resources they name.
RulesInfo(o, isCluster) ==
    [meta |-> Meta(o), isCluster |-> isCluster, ruleCount |-> Len(o.rules),
     resources |-> UNION {o.rules[i].resources : i \in DOMAIN o.rules}]
NewRoleInfo(role) == RulesInfo(role, FALSE)
NewClusterRoleInfo(clusterRole) == RulesInfo(clusterRole, TRUE)

\* Without the API groups of the role and of the subjects.
BindingInfo(o, isCluster) ==
    LET subject(s) == [kind |-> s.kind, name |-> s.name, namespace |-> s.namespace] IN
    [meta |-> Meta(o), isCluster |-> isCluster,
     roleRef |-> [kind |-> o.roleRef.kind, name |-> o.roleRef.name],
     subjects |-> [i \in DOMAIN o.subjects |-> subject(o.subjects[i])]]
NewRoleBindingInfo(rb) == BindingInfo(rb, FALSE)
NewClusterRoleBindingInfo(crb) == BindingInfo(crb, TRUE)

\* Neither labels nor annotations.  Copied: type, reason, message, count, the
\* involved object and the source.  A time of zero is left out; EventTime is not read.
NewEventInfo(event) ==
    [meta |-> event.meta, copied |-> event.copied,
     firstTimestamp |-> {event.firstTimestamp} \ {0},
     lastTimestamp |-> {event.lastTimestamp} \ {0}]

-----------------------------------------------------------------------------
(* The handler *)

ToInfo(k, o) ==
    CASE k = "Namespace" -> NewNamespaceInfo(o)
      [] k = "Pod" -> NewPodInfo(o)
      [] k = "Node" -> NewNodeInfo(o)
      [] k = "Deployment" -> NewDeploymentInfo(o)
      [] k = "StatefulSet" -> NewStatefulSetInfo(o)
      [] k = "DaemonSet" -> NewDaemonSetInfo(o)
      [] k = "Job" -> NewJobInfo(o)
      [] k = "CronJob" -> NewCronJobInfo(o)
      [] k = "Service" -> NewServiceInfo(o)
      [] k = "Ingress" -> NewIngressInfo(o)
      [] k = "NetworkPolicy" -> NewNetworkPolicyInfo(o)
      [] k = "ConfigMap" -> NewConfigMapInfo(o)
      [] k = "Secret" -> NewSecretInfo(o)
      [] k = "PersistentVolumeClaim" -> NewPVCInfo(o)
      [] k = "ServiceAccount" -> NewServiceAccountInfo(o)
      [] k = "Role" -> NewRoleInfo(o)
      [] k = "ClusterRole" -> NewClusterRoleInfo(o)
      [] k = "RoleBinding" -> NewRoleBindingInfo(o)
      [] k = "ClusterRoleBinding" -> NewClusterRoleBindingInfo(o)
      [] k = "Event" -> NewEventInfo(o)

\* The object exists when the informer starts: onAdd.
Init ==
    /\ kind \in Kind
    /\ object = [f \in DOMAIN Domain[kind] |-> CHOOSE v \in Domain[kind][f] : TRUE]
    /\ sent = ToInfo(kind, object)

\* A user or a controller changes a field, and onUpdate sends the new version.
Update(f, v) ==
    /\ object' = [object EXCEPT ![f] = v]
    /\ sent' = ToInfo(kind, object')
    /\ UNCHANGED kind

Next == \E f \in DOMAIN Domain[kind] : \E v \in Domain[kind][f] \ {object[f]} : Update(f, v)

Spec == Init /\ [][Next]_vars

-----------------------------------------------------------------------------
(* Properties *)

\* Two objects of kind k differ at most in what must not leave the cluster: the data
\* of a Secret or a ConfigMap and the values of a container's environment, keys and
\* names apart, and annotations that kubectl and Kubernetes keep, of which
\* last-applied-configuration repeats all of those.
SameEnvNames(containers, others) ==
    /\ DOMAIN containers = DOMAIN others
    /\ \A i \in DOMAIN containers :
        LET c == containers[i] d == others[i] IN
        /\ DOMAIN c.env = DOMAIN d.env
        /\ \A j \in DOMAIN c.env : c.env[j].name = d.env[j].name
        /\ c.name = d.name /\ c.copied = d.copied
        /\ c.requests = d.requests /\ c.limits = d.limits
        /\ c.securityContext = d.securityContext
KeptBySystem(k) == k[1] \in {"kubectl.kubernetes.io/", "kubernetes.io/"}
UserAnnotations(o) == Restrict(o.annotations, {k \in DOMAIN o.annotations : ~KeptBySystem(k)})
SameField(k, f, x, y) ==
    CASE f \in {"data", "binaryData"} /\ k \in {"Secret", "ConfigMap"} -> DOMAIN x = DOMAIN y
      [] f \in {"containers", "initContainers"} /\ k = "Pod" -> SameEnvNames(x, y)
      [] OTHER -> x = y
SameButValues(k, o, p) ==
    /\ DOMAIN o = DOMAIN p
    /\ UserAnnotations(o) = UserAnnotations(p)
    /\ \A f \in DOMAIN o \ {"annotations"} : SameField(k, f, o[f], p[f])

\* "secret data must never leave the cluster" (NewSecretInfo): a change of values only
\* is invisible in everything that is sent, whichever kind embeds the value.
ValuesStay == [][SameButValues(kind, object, object') => sent' = sent]_vars

\* The kubelet and the API server are free in the order of a pod's container statuses,
\* a node's conditions and a job's owners: what is sent for a container is the status
\* of that name, and so on.
Reordered(s, t) == DOMAIN s = DOMAIN t /\ Range(s) = Range(t)
SameButOrder(o, p) ==
    /\ DOMAIN o = DOMAIN p
    /\ \A f \in DOMAIN o :
        \/ o[f] = p[f]
        \/ f \in {"statuses", "initStatuses", "conditions", "owners"} /\ Reordered(o[f], p[f])
OrderIrrelevant == [][SameButOrder(object, object') => sent' = sent]_vars
==============================================================================
