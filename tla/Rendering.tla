------------------------------ MODULE Rendering ------------------------------
(***************************************************************************)
(* Rendering (internal/render/render.go): what one pass makes of a         *)
(* Configuration, for every way an author may write its spec.              *)
(*                                                                         *)
(* values are the values that the templates' conditions test, written says *)
(* how each struct is written, label is masterNodesLabel, and output what  *)
(* the pass that follows renders.                                          *)
(***************************************************************************)
EXTENDS Manifests, FiniteSets, SequencesExt

CONSTANTS
    Namespace,   \* the namespace that the operator is started for
    Labels,      \* the values of masterNodesLabel that authors write
    Nodes,       \* the nodes' labels: each is a set of <<key, value>>
    MaxWritten   \* bound: structs that are not simply left out

(* A label selector is the set of the <<key, value>> that it requires. *)
ASSUME LabelsAssumption == Labels # {}
ASSUME BoundAssumption  == MaxWritten \in Nat

VARIABLES values, written, label, output

vars == <<values, written, label, output>>

Toggles == {"enableSSL", "enableIC", "hybridDPDK", "enableOVNIPSec", "mountLocalBinDir"}

WrittenIn(w) == { s \in DOMAIN w : w[s] # "absent" }

----------------------------------------------------------------------------
(* GenerateObjects and what it is made of.                                 *)

ByKey(l) == { n \in Nodes : \A kv \in l : \E x \in n : x[1] = kv[1] }

(***************************************************************************)
(* findMasterNodes lists the nodes that have every label of the selector:  *)
(* ConvertSelectorToLabelsMap takes key=value, separated by commas.        *)
(***************************************************************************)
MasterNodes(l) == { n \in Nodes : l \subseteq n }

(***************************************************************************)
(* generateMasterNodeAffinity cuts the selector at its first "=": what     *)
(* follows is one value, commas included, so that a selector of several    *)
(* labels admits no node (no label has the value "a,b=c").  An empty value *)
(* becomes Exists.  The nodes that the affinity admits.                    *)
(***************************************************************************)
generateMasterNodeAffinity(l) ==
    { n \in Nodes : \E kv \in l : /\ l = {kv}
                                /\ \E x \in n : x[1] = kv[1] /\ kv[2] \in {"", x[2]} }

(***************************************************************************)
(* The values that must be there: a pointer that generateIncludeValues     *)
(* follows, the argument of ternary, and what include hands to nindent in  *)
(* the Deployments.                                                        *)
(***************************************************************************)
EnableOVNIPSec     == <<"components", "enableOVNIPSec">>
SecureServing      == <<"components", "secureServing">>
MasterNodeAffinity == <<"include", "masterNodeAffinity">>

Demanded == {EnableOVNIPSec, SecureServing, MasterNodeAffinity}

(* The text of the affinity is given to the templates unless it is empty,  *)
(* as it is for an empty selector.                                         *)
Included(l) == IF l = {} THEN {} ELSE {MasterNodeAffinity}

(* The Secret is one of a new cluster here; Rollout models the others. *)
Lists == OrderedObjectList(values, 0, 1)

(* generateObject, for every template of every list; what is skipped is    *)
(* left out.                                                               *)
Objects == (UNION { ToSet(Lists[t]) : t \in DOMAIN Lists }) \ {Skipped}

NoOutput == [done |-> FALSE]

GenerateObjects ==
    IF Demanded \subseteq Values(written) \cup Included(label)
    THEN [ done |-> TRUE, error |-> FALSE, objects |-> Objects,
           replicas |-> Cardinality(MasterNodes(label)),
           gaps |-> [ o \in Objects |-> o.reads \ Values(written) ] ]
    ELSE [done |-> TRUE, error |-> TRUE]

----------------------------------------------------------------------------
Init ==
    /\ values = [ netStack |-> "ipv4", enableSSL |-> FALSE, enableIC |-> FALSE,
             hybridDPDK |-> FALSE, enableOVNIPSec |-> FALSE,
             mountLocalBinDir |-> FALSE, namespace |-> Namespace ]
    /\ written = [s \in DOMAIN Structs |-> "absent"]
    /\ label \in Labels
    /\ output = NoOutput

(* The author edits the spec. *)
ChooseStack ==
    /\ output.done
    /\ \E s \in {"ipv4", "ipv6", "dual_stack"} : values' = [values EXCEPT !.netStack = s]
    /\ output' = NoOutput
    /\ UNCHANGED <<written, label>>

SwitchFeature ==
    /\ output.done
    /\ \E t \in Toggles : values' = [values EXCEPT ![t] = ~@]
    /\ output' = NoOutput
    /\ UNCHANGED <<written, label>>

WriteStruct ==
    /\ output.done
    /\ \E s \in DOMAIN Structs, w \in Writings : written' = [written EXCEPT ![s] = w]
    /\ Cardinality(WrittenIn(written')) <= MaxWritten
    /\ output' = NoOutput
    /\ UNCHANGED <<values, label>>

WriteLabel ==
    /\ output.done
    /\ label' \in Labels
    /\ output' = NoOutput
    /\ UNCHANGED <<values, written>>

(* A pass renders it. *)
Render ==
    /\ ~output.done
    /\ output' = GenerateObjects
    /\ UNCHANGED <<values, written, label>>

Next == ChooseStack \/ SwitchFeature \/ WriteStruct \/ WriteLabel \/ Render

Spec == Init /\ [][Next]_vars

----------------------------------------------------------------------------
Rendered == output.done /\ ~output.error
OfKind(kind) == { o \in output.objects : o.kind = kind }
Workloads == OfKind("Deployment") \cup OfKind("DaemonSet")

(***************************************************************************)
(* A pass fails for the empty selector and for no other spec that the      *)
(* schema admits: the pointers that the code follows without a test are    *)
(* always set, by the defaults of the schema, and the affinity by any      *)
(* selector but "".  (For "" generateMasterNodeAffinity gives no text and  *)
(* no error, as its test wants, but the Deployments cannot do without.)    *)
(***************************************************************************)
RenderingSucceeds == output.done => (output.error <=> label = {})

(***************************************************************************)
(* The values that the templates read and do not find, by what the author  *)
(* wrote: keys that no spec has, a struct under global that is left out, a *)
(* value that is written empty, and one that has no default.               *)
(***************************************************************************)
NeverThere ==
    {<<"networking", "ovnRemoteOpenFlowInterval">>, <<"networking", "NET_STACK">>,
     <<"Chart", "Name">>, <<"Chart", "Version">>, <<"dual_stack", "serviceCIDR">>,
     <<"cniConfig", "mountLocalBinDir">>}
LeftOut  == { s \in WithoutDefault : written[s] = "absent" }
Emptied  == { s \in DOMAIN Structs : written[s] = "zeroes" }

(***************************************************************************)
(* Nothing else is missing: whatever the author leaves out, every key that *)
(* a template reads has a value, but for those.                            *)
(***************************************************************************)
OnlyKnownGaps ==
    Rendered => \A o \in output.objects : \A key \in output.gaps[o] :
        \/ key \in NeverThere
        \/ key[1] \in LeftOut
        \/ key[1] \in Emptied /\ Structs[key[1]][key[2]].zero
        \/ key = <<"networking", "dpdkTunnelInterface">> /\ values.hybridDPDK

(***************************************************************************)
(* Every reference from one object to another finds its object, whichever  *)
(* features are on: a pod its account, a Service its pods, a binding its   *)
(* role and its account, the webhook configuration its Service.  The       *)
(* objects are written in separate files, and a pod without its account is *)
(* never created.                                                          *)
(***************************************************************************)
ReferencesResolve ==
    Rendered =>
      /\ \A w \in Workloads : \E a \in OfKind("ServiceAccount") : a.name = w.sa /\ a.ns = w.ns
      /\ \A s \in OfKind("Service") : \E w \in Workloads : w.app = s.app /\ w.ns = s.ns
      /\ \A b \in OfKind("ClusterRoleBinding") \cup OfKind("RoleBinding") :
           /\ \E a \in OfKind("ServiceAccount") : a.name = b.sa /\ a.ns = b.saNamespace
           /\ \/ b.kind = "RoleBinding" /\ b.ns = "kube-system" /\ b.role = AuthenticationReader
              \/ b.kind = "RoleBinding" /\ \E r \in OfKind("Role") : r.name = b.role /\ r.ns = b.ns
              \/ b.kind = "ClusterRoleBinding" /\ \E r \in OfKind("ClusterRole") : r.name = b.role
      /\ \A c \in OfKind("ValidatingWebhookConfiguration") :
           \E s \in OfKind("Service") : s.name = c.service /\ s.ns = c.serviceNamespace

(***************************************************************************)
(* Two templates that give an object of the same type, namespace and name  *)
(* give the same object.  Otherwise each pass would apply one over the     *)
(* other, and the events of these updates start the next pass, for ever.   *)
(***************************************************************************)
NoFlipFlop ==
    Rendered => \A a, b \in output.objects :
        (a.kind = b.kind /\ a.ns = b.ns /\ a.name = b.name) => a = b

(***************************************************************************)
(* Roles, webhook rules and definitions, kept in three files, agree on the *)
(* custom resources: kube-ovn-controller may write every resource that is  *)
(* defined and its status subresource where there is one, what the roles   *)
(* and the webhook's rules name is defined, and the columns show fields    *)
(* that the schema keeps.  (system:ovn also names vips/status, and vips    *)
(* have no status subresource.)                                            *)
(***************************************************************************)
ResourcesAgree ==
    LET crds    == OfKind("CustomResourceDefinition")
        names   == { c.name : c \in crds }
        defined == { <<c.name, "">> : c \in crds }
                     \cup { <<c.name, "status">> : c \in { d \in crds : d.subresource } }
    IN  Rendered =>
          /\ \E r \in OfKind("ClusterRole") : r.name = "system:ovn" /\ defined \subseteq r.writable
          /\ \A r \in OfKind("ClusterRole") :
               r.readable \cup r.writable \subseteq defined \cup {<<"vips", "status">>}
          /\ \A c \in OfKind("ValidatingWebhookConfiguration") : c.guards \subseteq names
          /\ \A c \in crds : c.columns \subseteq c.fields

(***************************************************************************)
(* ovn-central has as many replicas as there are nodes with the labels of  *)
(* the selector, and its affinity admits a node for each of them: the two  *)
(* are computed from the same text by different code.  They part for a     *)
(* selector of several labels that some node has, and only there: its      *)
(* affinity admits no node, and no pod is ever scheduled.                  *)
(***************************************************************************)
ReplicasFit ==
    LET admitted == Cardinality(generateMasterNodeAffinity(label))
        several  == \E a, b \in label : a # b
    IN  Rendered => (output.replicas > admitted <=> several /\ output.replicas > 0)

=============================================================================
