------------------------------- MODULE Rollout -------------------------------
(***************************************************************************)
(* The rollout of the stack: passes of the configuration controller apply  *)
(* the rendered objects (applyObject, reconcileObject) and the cluster     *)
(* runs the pods of the workloads.  ConfigurationSystem has one object of  *)
(* each type and no pods; here are the objects themselves, and what a pod  *)
(* waits for.                                                              *)
(*                                                                         *)
(* The types come in any order: OrderedObjectList is a Go map.  A pass     *)
(* renders and applies one type after the other and ends at the first      *)
(* error; the objects that it no longer renders it leaves alone.  The      *)
(* addresses, the fake Namespace and the operator's certificates, which    *)
(* applyObject waits for, are there.                                       *)
(***************************************************************************)
EXTENDS Manifests, FiniteSets, SequencesExt

CONSTANTS
    Types,          \* the object types that are followed
    Followed,       \* the workloads whose pods are followed
    Editable,       \* the features that the author switches
    Deletable,      \* the names of the objects that someone may delete
    MaxDisturbances \* bound: edits, failed requests, lost objects

ASSUME BoundAssumption    == MaxDisturbances \in Nat
ASSUME EditableAssumption == Editable \subseteq {"enableSSL", "enableIC"}

VARIABLES
    spec,     \* the values that the author has chosen
    objs,     \* the names of the objects there are, by type
    tls,      \* the authority of the certificates in the Secret; 0: no Secret
    mode,     \* the workloads there are, and whether their pods use TLS
    pods,     \* the workloads whose pods are ready, and the authority they use
    queued,   \* the Configuration's key is in the work queue
    pass,     \* the running pass
    made,     \* history: the authorities made so far
    lost,     \* history: the Secret has been deleted
    budget    \* disturbances left

cluster == <<objs, tls, mode>>
vars    == <<spec, cluster, pods, queued, pass, made, lost, budget>>

(***************************************************************************)
(* A pass: the spec that it was started for, the types that are left, the  *)
(* type whose objects are rendered and the authority they are rendered     *)
(* with.                                                                   *)
(***************************************************************************)
NoPass == [v |-> <<>>, todo |-> {}, at |-> "none", cert |-> 0]
Idle   == pass = NoPass

(***************************************************************************)
(* What each spec renders: for each template, in the order of their list,  *)
(* the name of its object, if there is one; and the workloads.             *)
(***************************************************************************)
Specs ==
    [ netStack : {"ipv4"}, enableSSL : BOOLEAN, enableIC : BOOLEAN, hybridDPDK : {FALSE},
      enableOVNIPSec : {FALSE}, mountLocalBinDir : {FALSE}, namespace : {"kube-system"} ]

(* f itself, which TLC then evaluates only once. *)
Tabled(f) == CHOOSE g \in {f} : g = f

NameOf(o) == IF o = Skipped THEN {} ELSE {o.name}

NamesOf ==
    Tabled([ v \in Specs |-> [ t \in Types |->
        LET list == OrderedObjectList(v, 0, 1)[t]
        IN  [i \in 1..Len(list) |-> NameOf(list[i])] ] ])

WorkloadsOf ==
    Tabled([ v \in Specs |-> { [o EXCEPT !.reads = {}] :
        o \in { w \in ToSet(DeploymentList(v)) \cup ToSet(DaemonsetList(v)) :
                 w # Skipped /\ w.name \in Followed } } ])

Accounts == { [sa |-> b.sa, name |-> b.name, role |-> b.role] :
                b \in ToSet(ClusterRoleBindingList([namespace |-> "kube-system"])) }

CRDNames == { c.name : c \in ToSet(CRDList) }

Workloads == WorkloadsOf[spec]
Present   == DOMAIN mode

Known(t, name) == t \in Types => name \in objs[t]

Init ==
    /\ spec \in { v \in Specs : ~v.enableIC }
    /\ objs = [t \in Types |-> {}]
    /\ tls = 0
    /\ mode = <<>>
    /\ pods = <<>>
    /\ queued = TRUE
    /\ pass = NoPass
    /\ made = 0
    /\ lost = FALSE
    /\ budget = MaxDisturbances

----------------------------------------------------------------------------
(* A pass.                                                                 *)

StartPass ==
    /\ Idle
    /\ queued
    /\ queued' = FALSE
    /\ pass' = [NoPass EXCEPT !.v = spec, !.todo = Types]
    /\ UNCHANGED <<spec, cluster, pods, made, lost, budget>>

(* The templates of a list that give an object, which is then applied. *)
Requests(list) == { i \in DOMAIN list : list[i] # {} }

(***************************************************************************)
(* GenerateObjects for a type; the template of the Secret looks it up and  *)
(* makes an authority if there is none.                                    *)
(***************************************************************************)
Certificates(t) ==
    IF t = "Secret" /\ Requests(NamesOf[pass.v][t]) # {}
    THEN kube_ovn_tls_secret(pass.v, tls, made + 1).data ELSE 0

GenerateObjects ==
    /\ pass.at = "none"
    /\ \E t \in pass.todo :
         /\ pass' = [pass EXCEPT !.at = t, !.todo = @ \ {t}, !.cert = Certificates(t)]
         /\ made' = IF Certificates(t) > made THEN Certificates(t) ELSE made
    /\ UNCHANGED <<spec, cluster, pods, queued, lost, budget>>

(***************************************************************************)
(* The API server asks the webhook about new workloads and pods.  While it *)
(* does not answer, failurePolicy decides.                                 *)
(***************************************************************************)
Admitted ==
    \/ ~Known("ValidatingWebhookConfiguration", "kube-ovn-webhook")
    \/ kubeovn_validatingwebhook_configuration.failurePolicy = "Ignore"
    \/ "kube-ovn-webhook" \in DOMAIN pods

Refused(t, name) == t \in {"Deployment", "DaemonSet"} /\ name \notin objs[t] /\ ~Admitted

(***************************************************************************)
(* reconcileObject, for the rendered objects in the order of their list.   *)
(* A request fails if it is refused, or with a fault: at the first object  *)
(* or at the last.  The error ends the pass and puts the key back.         *)
(***************************************************************************)
Ends(S) == { i \in S : (\A j \in S : i <= j) \/ (\A j \in S : j <= i) }

CutPoints(t, list) ==
    {Len(list)} \cup
    { i - 1 : i \in IF \E j \in Requests(list) : \E name \in list[j] : Refused(t, name)
                    THEN Requests(list) ELSE Ends(Requests(list)) }

ApplyFirst(n, t, list) ==
    LET failed   == n < Len(list)
        names    == UNION { list[i] : i \in 1..n }
        refused  == failed /\ \E name \in list[n + 1] : Refused(t, name)
        workload == t \in {"Deployment", "DaemonSet"}
    IN  /\ \A name \in names : ~Refused(t, name)
        /\ failed /\ ~refused => budget > 0
        /\ budget' = IF failed /\ ~refused THEN budget - 1 ELSE budget
        /\ objs' = [objs EXCEPT ![t] = @ \cup names]
        /\ tls' = IF t = "Secret" /\ names # {} THEN pass.cert ELSE tls
        /\ mode' = [w \in IF workload THEN names ELSE {} |-> pass.v.enableSSL] ++ mode
        /\ pass' = IF failed \/ pass.todo = {} THEN NoPass
                   ELSE [pass EXCEPT !.at = "none", !.cert = 0]
        /\ queued' = (queued \/ failed)

Apply ==
    /\ pass.at # "none"
    /\ LET list == NamesOf[pass.v][pass.at]
       IN  \E n \in CutPoints(pass.at, list) : ApplyFirst(n, pass.at, list)
    /\ UNCHANGED <<spec, pods, made, lost>>

----------------------------------------------------------------------------
(* The cluster.                                                            *)

(* The workloads whose pods one waits for: the databases, and for the pod  *)
(* network the controller and the CNI.                                     *)
WaitsFor(w) ==
    CASE w.name \in {"ovn-central", "kube-ovn-webhook"} -> {}
      [] w.name = "kube-ovn-cni" -> {"ovn-central", "ovs-ovn", "kube-ovn-controller"}
      [] OTHER -> {"ovn-central"}
    \cup (IF w.hostNetwork THEN {} ELSE {"kube-ovn-cni"})

(***************************************************************************)
(* A pod becomes ready: it is admitted, its account is there and bound to  *)
(* its role, and the pods it waits for are ready.  Clients and databases   *)
(* agree on TLS; the certificates are in a Secret whose volume is          *)
(* optional, so a pod that needs them may start and fail until they come.  *)
(***************************************************************************)
Authority(name) == IF mode[name] THEN tls ELSE 0
Secure(a) == a # 0

PodReady(w) ==
    /\ w.name \in Present
    /\ Admitted
    /\ Known("ServiceAccount", w.sa)
    /\ \E b \in Accounts :
         b.sa = w.sa /\ Known("ClusterRoleBinding", b.name) /\ Known("ClusterRole", b.role)
    /\ w.name = "kube-ovn-controller" =>
         \A c \in CRDNames : Known("CustomResourceDefinition", c)
    /\ mode[w.name] => tls # 0
    /\ \A n \in WaitsFor(w) : n \in DOMAIN pods
    /\ "ovn-central" \in WaitsFor(w) => Secure(pods["ovn-central"]) = mode[w.name]
    /\ w.name \in DOMAIN pods => Secure(pods[w.name]) # mode[w.name]
    /\ pods' = [n \in {w.name} |-> Authority(w.name)] ++ pods
    /\ UNCHANGED <<spec, cluster, queued, pass, made, lost, budget>>

----------------------------------------------------------------------------
(* Disturbances, and the periodic resync.                                  *)

Disturb == budget > 0 /\ budget' = budget - 1

Edit ==
    /\ Disturb
    /\ \E f \in Editable : spec' = [spec EXCEPT ![f] = ~@]
    /\ queued' = TRUE
    /\ UNCHANGED <<cluster, pods, pass, made, lost>>

(* Someone deletes a managed object.  Only the event of a namespaced one   *)
(* leads to the Configuration (filterObject): the owner of the others is   *)
(* the fake Namespace.                                                     *)
Namespaced == {"Secret", "ServiceAccount", "Deployment", "DaemonSet"}

Deleted(t, name) ==
    /\ objs' = [objs EXCEPT ![t] = @ \ {name}]
    /\ tls' = IF t = "Secret" THEN 0 ELSE tls
    /\ lost' = (lost \/ t = "Secret")
    /\ LET left(f) == IF t \in {"Deployment", "DaemonSet"}
                      THEN [w \in DOMAIN f \ {name} |-> f[w]] ELSE f
       IN  mode' = left(mode) /\ pods' = left(pods)
    /\ queued' = (queued \/ t \in Namespaced)

ObjectDeleted ==
    /\ Disturb
    /\ \E t \in Types : \E name \in objs[t] \cap Deletable : Deleted(t, name)
    /\ UNCHANGED <<spec, pass, made>>

Resync ==
    /\ Idle
    /\ ~queued
    /\ queued' = TRUE
    /\ UNCHANGED <<spec, cluster, pods, pass, made, lost, budget>>

Ready == \E w \in Workloads : PodReady(w)

Next == StartPass \/ GenerateObjects \/ Apply \/ Ready \/ Edit \/ ObjectDeleted \/ Resync

Spec == Init /\ [][Next]_vars

(***************************************************************************)
(* The worker and the cluster go on, and the informers resync.             *)
(***************************************************************************)
Fairness ==
    /\ WF_vars(StartPass)
    /\ WF_vars(GenerateObjects)
    /\ WF_vars(Apply)
    /\ WF_vars(Ready)
    /\ WF_vars(Resync)

FairSpec == Spec /\ Fairness

----------------------------------------------------------------------------
(***************************************************************************)
(* The stack comes up: whatever the order of the types, whatever requests  *)
(* fail and objects are lost, in the end the pods of every workload of the *)
(* spec are ready, with TLS or without as the spec says.  Nothing waits    *)
(* for itself, not even through the admission webhook, which is a pod of   *)
(* the stack and asked about every pod of it.                              *)
(***************************************************************************)
Up(w) == w.name \in DOMAIN pods /\ Secure(pods[w.name]) = spec.enableSSL

StackComesUp == <>[](\A w \in Workloads : Up(w))

(***************************************************************************)
(* As long as nobody deletes the Secret, all pods that use TLS trust one   *)
(* authority, through edits that turn it off and on again and passes that  *)
(* fail: lookup finds the certificates that are there.                     *)
(***************************************************************************)
OneAuthority ==
    ~lost => \A a, b \in DOMAIN pods : Secure(pods[a]) /\ Secure(pods[b]) => pods[a] = pods[b]

=============================================================================
