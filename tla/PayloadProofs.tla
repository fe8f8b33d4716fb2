----------------------------- MODULE PayloadProofs -----------------------------
(***************************************************************************)
(* What Payload sends does not depend on the values it must keep, whatever *)
(* the fields of an object contain.                                        *)
(***************************************************************************)
EXTENDS Payload, TLAPS

\* An object has the fields of its kind.
HasShape(k, o) == o = [f \in MetaFields \cup FieldsOf(k) |-> o[f]]

\* The platform has what the latest version of the object converts to.
IInv ==
    /\ kind \in Kind
    /\ HasShape(kind, object)
    /\ \A f \in DOMAIN object : object[f] \in Domain[kind][f]
    /\ sent = ToInfo(kind, object)
-----------------------------------------------------------------------------

LEMMA MetaPublic ==
    ASSUME NEW k, NEW o, NEW p, SameButValues(k, o, p), HasShape(k, o)
    PROVE  Meta(o) = Meta(p) /\ o.meta = p.meta /\ o.labels = p.labels
  <1>1. filterAnnotations(o.annotations) = filterAnnotations(p.annotations)
    BY DEF SameButValues, UserAnnotations, KeptBySystem, filterAnnotations, ExcludePrefixes
  <1>2. o.meta = p.meta /\ o.labels = p.labels
    BY DEF SameButValues, HasShape, MetaFields, SameField
  <1>3. QED
    BY <1>1, <1>2 DEF Meta

ContainerInfos(s, statuses) ==
    [i \in DOMAIN s |-> newContainerInfo(s[i], StatusOf(statuses, i, s[i].name))]

\* Containers that differ in the values of their environment have the same ContainerInfos.
LEMMA ContainersPublic ==
    ASSUME NEW s, NEW t, SameEnvNames(s, t), NEW statuses
    PROVE  ContainerInfos(s, statuses) = ContainerInfos(t, statuses)
  <1>1. ASSUME NEW i \in DOMAIN s
        PROVE  newContainerInfo(s[i], StatusOf(statuses, i, s[i].name))
             = newContainerInfo(t[i], StatusOf(statuses, i, t[i].name))
    <2>1. EnvVarNames(s[i].env) = EnvVarNames(t[i].env)
      BY DEF SameEnvNames, EnvVarNames
    <2>2. s[i].name = t[i].name
      BY DEF SameEnvNames
    <2>3. \A status : newContainerInfo(s[i], status) = newContainerInfo(t[i], status)
      BY <2>1 DEF SameEnvNames, newContainerInfo
    <2>4. QED
      BY <2>2, <2>3
  <1>2. DOMAIN s = DOMAIN t
    BY DEF SameEnvNames
  <1>3. QED
    BY <1>1, <1>2 DEF ContainerInfos

LEMMA PodPublic ==
    ASSUME NEW o, NEW p, SameButValues("Pod", o, p), HasShape("Pod", o)
    PROVE  NewPodInfo(o) = NewPodInfo(p)
  <1>1. Meta(o) = Meta(p)
    BY MetaPublic
  <1>2. /\ o.copied = p.copied /\ o.volumes = p.volumes
        /\ o.statuses = p.statuses /\ o.initStatuses = p.initStatuses
        /\ SameEnvNames(o.containers, p.containers)
        /\ SameEnvNames(o.initContainers, p.initContainers)
    BY DEF SameButValues, HasShape, FieldsOf, SameField
  <1>3. ContainerInfos(o.containers, o.statuses) = ContainerInfos(p.containers, p.statuses)
    BY <1>2, ContainersPublic
  <1>4. ContainerInfos(o.initContainers, o.initStatuses)
      = ContainerInfos(p.initContainers, p.initStatuses)
    BY <1>2, ContainersPublic
  <1>5. QED
    BY <1>1, <1>2, <1>3, <1>4 DEF NewPodInfo, ContainerInfos

\* Every conversion of types.go is a function of what may leave the cluster.
THEOREM Noninterference ==
    ASSUME NEW k \in Kind, NEW o, NEW p, SameButValues(k, o, p), HasShape(k, o)
    PROVE  ToInfo(k, o) = ToInfo(k, p)
  <1>1. Meta(o) = Meta(p) /\ o.meta = p.meta /\ o.labels = p.labels
    BY MetaPublic
  <1>2. \A f \in FieldsOf(k) \ {"annotations"} : SameField(k, f, o[f], p[f])
    BY DEF SameButValues, HasShape
  <1>3. CASE k = "Namespace"
    BY <1>1, <1>2, <1>3 DEF NewNamespaceInfo, FieldsOf, SameField, ToInfo
  <1>4. CASE k = "Node"
    BY <1>1, <1>2, <1>4 DEF NewNodeInfo, FieldsOf, SameField, ToInfo
  <1>5. CASE k = "Deployment"
    BY <1>1, <1>2, <1>5 DEF NewDeploymentInfo, WorkloadFields, FieldsOf, SameField, ToInfo
  <1>6. CASE k = "StatefulSet"
    BY <1>1, <1>2, <1>6 DEF NewStatefulSetInfo, WorkloadFields, FieldsOf, SameField, ToInfo
  <1>7. CASE k = "DaemonSet"
    BY <1>1, <1>2, <1>7 DEF NewDaemonSetInfo, WorkloadFields, FieldsOf, SameField, ToInfo
  <1>8. CASE k = "Job"
    BY <1>1, <1>2, <1>8 DEF NewJobInfo, FieldsOf, SameField, ToInfo
  <1>9. CASE k = "CronJob"
    BY <1>1, <1>2, <1>9 DEF NewCronJobInfo, FieldsOf, SameField, ToInfo
  <1>10. CASE k = "Service"
    BY <1>1, <1>2, <1>10 DEF NewServiceInfo, FieldsOf, SameField, ToInfo
  <1>11. CASE k = "Ingress"
    BY <1>1, <1>2, <1>11 DEF NewIngressInfo, FieldsOf, SameField, ToInfo
  <1>12. CASE k = "NetworkPolicy"
    BY <1>1, <1>2, <1>12 DEF NewNetworkPolicyInfo, FieldsOf, SameField, ToInfo
  <1>13. CASE k = "ConfigMap"
    BY <1>1, <1>2, <1>13 DEF NewConfigMapInfo, FieldsOf, SameField, ToInfo
  <1>14. CASE k = "Secret"
    BY <1>1, <1>2, <1>14 DEF NewSecretInfo, FieldsOf, SameField, ToInfo
  <1>15. CASE k = "PersistentVolumeClaim"
    BY <1>1, <1>2, <1>15 DEF NewPVCInfo, FieldsOf, SameField, ToInfo
  <1>16. CASE k = "ServiceAccount"
    BY <1>1, <1>2, <1>16 DEF NewServiceAccountInfo, FieldsOf, SameField, ToInfo
  <1>17. CASE k = "Role"
    <2>1. o.rules = p.rules
      BY <1>2, <1>17 DEF FieldsOf, SameField
    <2>2. RulesInfo(o, FALSE) = RulesInfo(p, FALSE)
      BY <1>1, <2>1 DEF RulesInfo
    <2>3. QED
      BY <1>17, <2>2 DEF NewRoleInfo, ToInfo
  <1>18. CASE k = "ClusterRole"
    <2>1. o.rules = p.rules
      BY <1>2, <1>18 DEF FieldsOf, SameField
    <2>2. RulesInfo(o, TRUE) = RulesInfo(p, TRUE)
      BY <1>1, <2>1 DEF RulesInfo
    <2>3. QED
      BY <1>18, <2>2 DEF NewClusterRoleInfo, ToInfo
  <1>19. CASE k = "RoleBinding"
    <2>1. o.roleRef = p.roleRef /\ o.subjects = p.subjects
      BY <1>2, <1>19 DEF FieldsOf, SameField
    <2>2. BindingInfo(o, FALSE) = BindingInfo(p, FALSE)
      BY <1>1, <2>1 DEF BindingInfo
    <2>3. QED
      BY <1>19, <2>2 DEF NewRoleBindingInfo, ToInfo
  <1>20. CASE k = "ClusterRoleBinding"
    <2>1. o.roleRef = p.roleRef /\ o.subjects = p.subjects
      BY <1>2, <1>20 DEF FieldsOf, SameField
    <2>2. BindingInfo(o, TRUE) = BindingInfo(p, TRUE)
      BY <1>1, <2>1 DEF BindingInfo
    <2>3. QED
      BY <1>20, <2>2 DEF NewClusterRoleBindingInfo, ToInfo
  <1>21. CASE k = "Event"
    BY <1>1, <1>2, <1>21 DEF NewEventInfo, FieldsOf, SameField, ToInfo
  <1>22. CASE k = "Pod"
    BY <1>22, PodPublic DEF ToInfo
  <1>23. QED
    BY <1>3, <1>4, <1>5, <1>6, <1>7, <1>8, <1>9, <1>10, <1>11, <1>12, <1>13, <1>14, <1>15, <1>16, <1>17, <1>18, <1>19, <1>20, <1>21, <1>22 DEF Kind

LEMMA InvInductive ==
    /\ Init => IInv
    /\ IInv /\ [Next]_vars => IInv'
  <1>1. Init => IInv
    BY DomainAssumption DEF Init, IInv, HasShape
  <1>2. ASSUME IInv, Next PROVE IInv'
    <2>1. PICK f \in DOMAIN Domain[kind] : \E v \in Domain[kind][f] : Update(f, v)
      BY <1>2 DEF Next
    <2>2. PICK v \in Domain[kind][f] : Update(f, v)
      BY <2>1
    <2>3. DOMAIN object' = DOMAIN object /\ kind' = kind /\ sent' = ToInfo(kind, object')
      BY <2>2 DEF Update
    <2>4. \A g \in DOMAIN object' : object'[g] \in Domain[kind][g]
      BY <1>2, <2>2, <2>3 DEF Update, IInv
    <2>5. object' = [g \in DOMAIN object |-> object'[g]]
      BY <2>2 DEF Update
    <2>6. DOMAIN object = MetaFields \cup FieldsOf(kind)
      BY <1>2 DEF IInv, HasShape
    <2>7. HasShape(kind, object')
      BY <2>5, <2>6 DEF HasShape
    <2>8. QED
      BY <1>2, <2>3, <2>4, <2>7 DEF IInv
  <1>3. ASSUME IInv, UNCHANGED vars PROVE IInv'
    BY <1>3 DEF IInv, vars
  <1>4. QED
    BY <1>1, <1>2, <1>3

\* A change of secret values alone changes nothing that is sent, for every content an
\* object can have.
THEOREM SecretsStay == Spec => ValuesStay
  <1> DEFINE Stay == SameButValues(kind, object, object') => sent' = sent
  <1>1. ASSUME IInv, [Next]_vars PROVE Stay
    <2>1. sent' = ToInfo(kind, object')
      BY <1>1 DEF IInv, Next, Update, vars
    <2>2. QED
      BY <1>1, <2>1, Noninterference DEF IInv
  <1>2. IInv /\ [Next]_vars => [Stay]_vars
    BY <1>1
  <1>3. QED
    BY <1>2, InvInductive, PTL DEF Spec, ValuesStay
-----------------------------------------------------------------------------
(* Order *)

LEMMA StatusByName ==
    ASSUME NEW s, NEW t, Reordered(s, t), UniqueNames(s), UniqueNames(t), NEW i, NEW name
    PROVE  StatusOf(s, i, name) = StatusOf(t, i, name)
  <1> DEFINE Named(u) == {j \in DOMAIN u : u[j].name = name}
             Last(u) == CHOOSE j \in Named(u) : \A l \in Named(u) : l <= j
  <1>1. \A u : UniqueNames(u) => \A j \in Named(u) : Last(u) = j
    <2> SUFFICES ASSUME NEW u, UniqueNames(u), NEW j \in Named(u) PROVE Last(u) = j
      OBVIOUS
    <2>1. Named(u) = {j} /\ j \in Nat
      BY DEF UniqueNames, IsList
    <2>2. QED
      BY <2>1
  <1>2. \A u, v : Reordered(u, v) => \A j \in DOMAIN u : \E l \in DOMAIN v : v[l] = u[j]
    BY DEF Reordered, Range
  <1>3. CASE Named(s) = {}
    <2>1. \A l \in DOMAIN t : \E j \in DOMAIN s : s[j] = t[l]
      BY DEF Reordered, Range
    <2>1a. Named(t) = {}
      BY <1>3, <2>1
    <2>2. QED
      BY <1>3, <2>1a DEF StatusOf
  <1>4. ASSUME NEW j \in Named(s) PROVE StatusOf(s, i, name) = StatusOf(t, i, name)
    <2>1. PICK l \in DOMAIN t : t[l] = s[j]
      BY <1>2
    <2>2. l \in Named(t)
      BY <2>1
    <2>3. Last(s) = j /\ Last(t) = l
      BY <1>1, <2>2
    <2>4. StatusOf(s, i, name) = s[Last(s)] /\ StatusOf(t, i, name) = t[Last(t)]
      BY <2>2 DEF StatusOf
    <2>5. QED
      BY <2>1, <2>3, <2>4
  <1>5. QED
    BY <1>3, <1>4

LEMMA ConditionByType ==
    ASSUME NEW s, NEW t, Reordered(s, t), UniqueTypes(s), UniqueTypes(t)
    PROVE  NodeStatus(s) = NodeStatus(t)
  <1> DEFINE IsReady(u) == \E i \in DOMAIN u : u[i].type = "Ready" /\ u[i].status = "True"
  <1>1. ASSUME NEW u, UniqueTypes(u)
        PROVE  NodeStatus(u) = IF IsReady(u) THEN "Ready" ELSE "NotReady"
    <2>1. \A i \in DOMAIN u : i <= i
      BY <1>1 DEF UniqueTypes, IsList
    <2>2. QED
      BY <1>1, <2>1 DEF UniqueTypes, NodeStatus
  <1>2. IsReady(s) <=> IsReady(t)
    BY DEF Reordered, Range
  <1>3. QED
    BY <1>1, <1>2

LEMMA OwnerByKind ==
    ASSUME NEW s, NEW t, Reordered(s, t), OneCronJob(s), OneCronJob(t)
    PROVE  OwnerRef(s) = OwnerRef(t)
  <1> DEFINE CronJobs(u) == {i \in DOMAIN u : u[i].kind = "CronJob"}
             First(u) == CHOOSE i \in CronJobs(u) : \A j \in CronJobs(u) : i <= j
  <1>1. \A u : OneCronJob(u) => \A i \in CronJobs(u) : First(u) = i
    <2> SUFFICES ASSUME NEW u, OneCronJob(u), NEW i \in CronJobs(u) PROVE First(u) = i
      OBVIOUS
    <2>1. CronJobs(u) = {i} /\ i \in Nat
      BY DEF OneCronJob, IsList
    <2>2. QED
      BY <2>1
  <1>2. \A i \in DOMAIN s : \E l \in DOMAIN t : t[l] = s[i]
    BY DEF Reordered, Range
  <1>3. \A l \in DOMAIN t : \E i \in DOMAIN s : s[i] = t[l]
    BY DEF Reordered, Range
  <1>4. CASE CronJobs(s) = {}
    <2>1. CronJobs(t) = {}
      BY <1>3, <1>4
    <2>2. QED
      BY <1>4, <2>1 DEF OwnerRef
  <1>5. ASSUME NEW i \in CronJobs(s) PROVE OwnerRef(s) = OwnerRef(t)
    <2>1. PICK l \in DOMAIN t : t[l] = s[i]
      BY <1>2
    <2>2. l \in CronJobs(t)
      BY <2>1
    <2>3. First(s) = i /\ First(t) = l
      BY <1>1, <2>2
    <2>4. OwnerRef(s) = s[First(s)].name /\ OwnerRef(t) = t[First(t)].name
      BY <2>2 DEF OwnerRef
    <2>5. QED
      BY <2>1, <2>3, <2>4
  <1>6. QED
    BY <1>4, <1>5

\* The order in which the cluster lists statuses, conditions and owners does not reach
\* the platform.
THEOREM OrderStays == Spec => OrderIrrelevant
  <1> DEFINE Stay == SameButOrder(object, object') => sent' = sent
  <1>1. ASSUME IInv, IInv', kind' = kind, SameButOrder(object, object')
        PROVE  ToInfo(kind, object) = ToInfo(kind, object')
    <2> DEFINE Listed == {"statuses", "initStatuses", "conditions", "owners"}
    <2>1. \A f \in (MetaFields \cup FieldsOf(kind)) \ Listed : object[f] = object'[f]
      BY <1>1 DEF IInv, HasShape, SameButOrder
    <2>2. \A f \in FieldsOf(kind) \cap Listed :
            /\ object[f] = object'[f] \/ Reordered(object[f], object'[f])
            /\ object[f] \in Domain[kind][f] /\ object'[f] \in Domain[kind][f]
      BY <1>1 DEF IInv, HasShape, SameButOrder
    <2>3. CASE FieldsOf(kind) \cap Listed = {}
      <3>1. object = object'
        BY <1>1, <2>1, <2>3 DEF IInv, HasShape, MetaFields
      <3>2. QED
        BY <1>1, <3>1
    <2>4. CASE kind = "Pod"
      <3>1. /\ Meta(object) = Meta(object') /\ object.copied = object'.copied
            /\ object.containers = object'.containers
            /\ object.initContainers = object'.initContainers
            /\ object.volumes = object'.volumes
        BY <2>1, <2>4 DEF MetaFields, FieldsOf, Meta
      <3>2. \A i, name : StatusOf(object.statuses, i, name) = StatusOf(object'.statuses, i, name)
        BY <2>2, <2>4, StatusByName, UniqueAssumption DEF FieldsOf
      <3>3. \A i, name : StatusOf(object.initStatuses, i, name) = StatusOf(object'.initStatuses, i, name)
        BY <2>2, <2>4, StatusByName, UniqueAssumption DEF FieldsOf
      <3>4. NewPodInfo(object) = NewPodInfo(object')
        BY <3>1, <3>2, <3>3 DEF NewPodInfo
      <3>5. QED
        BY <2>4, <3>4 DEF ToInfo
    <2>5. CASE kind = "Node"
      <3>1. /\ Meta(object) = Meta(object') /\ object.copied = object'.copied
            /\ object.labels = object'.labels
        BY <2>1, <2>5 DEF MetaFields, FieldsOf, Meta
      <3>2. NodeStatus(object.conditions) = NodeStatus(object'.conditions)
        BY <2>2, <2>5, ConditionByType, UniqueAssumption DEF FieldsOf
      <3>3. QED
        BY <2>5, <3>1, <3>2 DEF ToInfo, NewNodeInfo
    <2>6. CASE kind = "Job"
      <3>1. /\ Meta(object) = Meta(object') /\ object.copied = object'.copied
            /\ object.completions = object'.completions
            /\ object.parallelism = object'.parallelism
        BY <2>1, <2>6 DEF MetaFields, FieldsOf, Meta
      <3>2. OwnerRef(object.owners) = OwnerRef(object'.owners)
        BY <2>2, <2>6, OwnerByKind, UniqueAssumption DEF FieldsOf
      <3>3. QED
        BY <2>6, <3>1, <3>2 DEF ToInfo, NewJobInfo
    <2>7. QED
      BY <1>1, <2>3, <2>4, <2>5, <2>6 DEF IInv, Kind, FieldsOf, WorkloadFields
  <1>2. ASSUME IInv, [Next]_vars PROVE Stay
    <2>1. IInv' /\ kind' = kind
      BY <1>2, InvInductive DEF Next, Update, vars
    <2>2. QED
      BY <1>1, <1>2, <2>1 DEF IInv
  <1>3. IInv /\ [Next]_vars => [Stay]_vars
    BY <1>2
  <1>4. QED
    BY <1>3, InvInductive, PTL DEF Spec, OrderIrrelevant
==============================================================================
