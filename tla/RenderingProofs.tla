--------------------------- MODULE RenderingProofs ---------------------------
(***************************************************************************)
(* Proofs about Rendering: for every namespace, every set of nodes and     *)
(* selectors, and any number of structs that the author writes.            *)
(***************************************************************************)
EXTENDS Rendering, FiniteSetTheorems, TLAPS

----------------------------------------------------------------------------
(* The fields of the spec.                                                 *)

(* A key that has a default, so that it is there whatever is left out. *)
Sure(s, f) == /\ s \in DOMAIN Structs
              /\ f \in DOMAIN Structs[s]
              /\ Structs[s][f].default

LEMMA StructsDomain ==
    DOMAIN Structs = {"registry", "kubeovn", "natgateway", "networking", "vlan",
                      "components", "ipv4", "ipv6", "dualStack", "performance", "debug",
                      "cniConf", "kubeletConfig", "logConfig", "spec"}
  BY DEF Structs

(* The fields of a table of fields that have a default. *)
Defaults(F) == { f \in DOMAIN F : F[f].default }

LEMMA NetworkingFields ==
    \A f \in {"netStack", "networkType", "tunnelType", "podNicType", "defaultSubnet",
              "defaultVPC", "nodeSubnet", "enableSSL", "exchangeLinkName", "enableEIPSNAT",
              "enableECMP", "enableMetrics", "enableCompact", "probeInterval",
              "ovnNorthdProbeInterval", "ovnLeaderProbeInterval", "ovnRemoteProbeInterval",
              "ovnRemoteOpenflowInterval", "ovnNorthdNThreads"} : Sure("networking", f)
  <1>1. Structs["networking"] = NetworkingSpec
    BY DEF Structs
  <1>2. ASSUME NEW A, NEW B, NEW C, NEW D, NEW E
        PROVE  (A \cup B \cup D \cup E) \ C \subseteq
                 Defaults(Enums(A) ++ Strings(B) ++ OptionalStrings(C) ++ Pointers(D) ++ Positive(E))
    BY DEF Defaults, Field, Strings, Enums, Pointers, Positive, OptionalStrings, ++
  <1>3. QED
    BY <1>1, <1>2, StructsDomain DEF Sure, Defaults, NetworkingSpec

LEMMA ComponentFields ==
    /\ \A f \in {"enableLB", "enableNP", "enableExternalVPC", "hardwareOffload", "enableLBSVC",
              "enableKeepVMIP", "lsDnatModDlDst", "lsCtSkipOstLportIPS", "checkGateway",
              "logicalGateway", "enableBindLocalIP", "secureServing", "u2oInterconnection",
              "enableTProxy", "enableIC", "enableNATGateway", "enableOVNIPSec", "enableANP",
              "setVLANTxOff", "enableLiveMigrationOptimize", "enableDNSNameResolver",
              "enableOVNLBPreferLocal", "npEnforcement", "OVSDBConTimeout",
              "OVSDBInactivityTimeout"} : Sure("components", f)
    /\ \A f \in {"enableOVNIPSec", "secureServing"} : ~Structs["components"][f].zero
  <1>1. Structs["components"] = ComponentSpec
    BY DEF Structs
  <1>2. QED
    BY <1>1, StructsDomain DEF Sure, ComponentSpec, Pointers, Strings, Positive, Field, ++

LEMMA StackFields ==
    \A s \in {"ipv4", "ipv6", "dualStack"} :
      \A f \in {"podCIDR", "podGateway", "serviceCIDR", "joinCIDR", "pingerExternalAddress",
                "pingerExternalDomain"} : Sure(s, f)
  <1>1. \A s \in {"ipv4", "ipv6", "dualStack"} : Structs[s] = NetworkStackSpec
    BY DEF Structs
  <1>2. QED
    BY <1>1, StructsDomain DEF Sure, NetworkStackSpec, Strings, Field

LEMMA TopLevelFields ==
    \A f \in {"imagePullPolicy", "ovnDir", "dpdkImageTag", "hugepageSizeType", "hugePages",
              "openVSwitchDir", "ovnIPSecKeysDir"} : Sure("spec", f)
  <1>1. Structs["spec"] = TopLevel
    BY DEF Structs
  <1>2. QED
    BY <1>1, StructsDomain
       DEF Sure, TopLevel, Strings, Quantities, OptionalPointers, Field, ++

LEMMA CNIFields ==
    \A f \in {"nonPrimaryCNI", "cniConfigDir", "cniConfFile", "cniConfigPriority",
              "mountCNIConfDir", "cniBinDir"} : Sure("cniConf", f)
  <1>1. Structs["cniConf"] = CNIConfSpec
    BY DEF Structs
  <1>2. QED
    BY <1>1, StructsDomain
       DEF Sure, CNIConfSpec, Strings, Pointers, OptionalPointers, Field, ++

LEMMA OtherFields ==
    /\ Sure("registry", "address")
    /\ Sure("kubeovn", "repository")
    /\ Sure("natgateway", "repository")
    /\ Sure("logConfig", "logDir")
    /\ Sure("kubeletConfig", "kubeletDir")
    /\ Sure("debug", "mirrorInterface")
    /\ \A f \in {"providerName", "vlanName", "vlanId"} : Sure("vlan", f)
    /\ \A f \in {"gcInterval", "inspectInterval", "ovsVSCtlConcurrency"} : Sure("performance", f)
  <1> USE DEF Strings, OptionalStrings, OptionalPointers, Positive, FromZero, Field, ++
  <1>1. Structs["registry"] = RegistrySpec /\ Structs["kubeovn"] = KubeOVNImageSpec
        /\ Structs["natgateway"] = NATGatewayImageSpec
    BY DEF Structs
  <1>2. Structs["logConfig"] = LogConfigSpec /\ Structs["kubeletConfig"] = KubeletConfigSpec
        /\ Structs["debug"] = DebugSpec
    BY DEF Structs
  <1>3. Structs["vlan"] = VlanSpec /\ Structs["performance"] = PerformanceSpec
    BY DEF Structs
  <1>4. Sure("registry", "address") /\ Sure("kubeovn", "repository") /\ Sure("natgateway", "repository")
    BY <1>1, StructsDomain DEF Sure, RegistrySpec, KubeOVNImageSpec, NATGatewayImageSpec
  <1>5. Sure("logConfig", "logDir") /\ Sure("kubeletConfig", "kubeletDir")
        /\ Sure("debug", "mirrorInterface")
    BY <1>2, StructsDomain DEF Sure, LogConfigSpec, KubeletConfigSpec, DebugSpec
  <1>6. /\ \A f \in {"providerName", "vlanName", "vlanId"} : Sure("vlan", f)
        /\ \A f \in {"gcInterval", "inspectInterval", "ovsVSCtlConcurrency"} :
             Sure("performance", f)
    BY <1>3, StructsDomain DEF Sure, VlanSpec, PerformanceSpec
  <1>7. QED
    BY <1>4, <1>5, <1>6

(* How a struct may be written. *)
WrittenOK == written \in [DOMAIN Structs -> Writings]

(***************************************************************************)
(* A field with a default is missing only if its struct has no default and *)
(* is left out, or if its zero is written.                                 *)
(***************************************************************************)
LEMMA Missing ==
    ASSUME WrittenOK, NEW s, NEW f, Sure(s, f), <<s, f>> \notin Values(written)
    PROVE  s \in LeftOut \/ (s \in Emptied /\ Structs[s][f].zero)
  <1>1. s \in DOMAIN Structs /\ f \in DOMAIN Structs[s] /\ Structs[s][f].default
    BY DEF Sure
  <1>2. f \notin generateMap(s, written[s])
    <2>1. ASSUME f \in generateMap(s, written[s])
          PROVE  <<s, f>> \in Values(written)
      <3>1. <<s, f>> \in {s} \X generateMap(s, written[s])
        BY <2>1
      <3>2. QED
        BY <1>1, <3>1 DEF Values
    <2>2. QED
      BY <2>1
  <1>3. CASE f \notin Stored(s, written[s])
    BY <1>1, <1>3 DEF Stored, LeftOut, WithoutDefault
  <1>4. CASE f \in Stored(s, written[s])
    BY <1>1, <1>2, <1>4 DEF generateMap, Emptied
  <1>5. QED
    BY <1>3, <1>4

(* The pointers that the code follows, or passes on, without a test are    *)
(* always there.                                                           *)
LEMMA PointersAreThere ==
    ASSUME WrittenOK, NEW f \in {"enableOVNIPSec", "secureServing"}
    PROVE  <<"components", f>> \in Values(written)
  <1>1. Sure("components", f) /\ ~Structs["components"][f].zero
    BY ComponentFields
  <1>2. "components" \notin LeftOut
    BY DEF LeftOut, WithoutDefault
  <1>3. QED
    BY <1>1, <1>2, Missing

(* No struct of the spec has the affinity: it is there or not by the       *)
(* selector alone.                                                         *)
LEMMA DemandedIsThere ==
    ASSUME WrittenOK
    PROVE  Demanded \subseteq Values(written) \cup Included(label) <=> label # {}
  <1>1. MasterNodeAffinity \notin Values(written)
    BY StructsDomain DEF Values, MasterNodeAffinity
  <1>2. MasterNodeAffinity \in Included(label) <=> label # {}
    BY DEF Included
  <1>3. \A f \in {"enableOVNIPSec", "secureServing"} : <<"components", f>> \in Values(written)
    BY PointersAreThere
  <1>4. QED
    BY <1>1, <1>2, <1>3 DEF Demanded, EnableOVNIPSec, SecureServing

----------------------------------------------------------------------------
(* The objects, by kind.                                                   *)

ValuesOK ==
    values \in [ netStack : {"ipv4", "ipv6", "dual_stack"}, enableSSL : BOOLEAN,
                 enableIC : BOOLEAN, hybridDPDK : BOOLEAN, enableOVNIPSec : BOOLEAN,
                 mountLocalBinDir : BOOLEAN, namespace : {Namespace} ]

LEMMA DeploymentsAre ==
    ToSet(DeploymentList(values)) =
      {ovn_central_deployment(values), kube_ovn_controller_deployment(values),
       ovn_ic_controller_deployment(values), kube_ovn_monitor_deployment(values),
       kubeovn_webhook_deployment(values)}
  BY DEF ToSet, DeploymentList

LEMMA DaemonSetsAre ==
    ToSet(DaemonsetList(values)) =
      {ovs_ovn_dpdk_daemonset(values), kube_ovn_cni_daemonset(values),
       ovs_ovn_daemonset(values), kube_ovn_pinger_daemonsets(values)}
  BY DEF ToSet, DaemonsetList

LEMMA ServicesAre ==
    ToSet(ServicesList(values)) =
      {kube_ovn_controller_service(values), kube_ovn_monitor_service(values),
       ovn_nb_service(values), ovn_northd_service(values), kube_ovn_cni_service(values),
       kube_ovn_pinger_service(values), ovn_sb_service(values), kubeovn_webhook_service(values)}
  BY DEF ToSet, ServicesList

LEMMA CRDsAre ==
    ToSet(CRDList) =
      {vpc_dnses_crd, switch_lb_rules_crd, vpc_nat_gateways_crd,
      vpc_egress_gateways_crd, iptables_eips_crd, iptables_fip_rules_crd,
      iptables_dnat_rules_crd, iptables_snat_rules_crd, ovn_eips_crd,
      ovn_fips_crd, ovn_snat_rules_crd, ovn_dnat_rules_crd, vpcs_crd, ips_crd,
      vips_crd, subnets_crd, ippools_crd, vlans_crd, provider_networks_crd,
      security_groups_crd, qos_policies_crd, bgp_confs_crd,
      dns_name_resolvers_crd, evpn_confs_crd}
  BY DEF ToSet, CRDList

----------------------------------------------------------------------------
(***************************************************************************)
(* The inductive invariant: what is rendered is what the spec now says, an *)
(* edit of it discards the output of the pass before.                      *)
(***************************************************************************)
IInv ==
    /\ ValuesOK
    /\ WrittenOK
    /\ label \in Labels
    /\ output \in {NoOutput, GenerateObjects}

LEMMA InvInit == Init => IInv
  <1> SUFFICES ASSUME Init
               PROVE  IInv
    OBVIOUS
  <1>1. ValuesOK
    BY DEF Init, ValuesOK
  <1>2. WrittenOK
    BY DEF Init, WrittenOK, Writings
  <1>3. QED
    BY <1>1, <1>2 DEF Init, IInv

LEMMA ValuesChange ==
    ASSUME ValuesOK, ChooseStack \/ SwitchFeature
    PROVE  ValuesOK'
  <1>1. CASE ChooseStack
    BY <1>1 DEF ChooseStack, ValuesOK
  <1>2. CASE SwitchFeature
    <2>1. PICK t \in Toggles : values' = [values EXCEPT ![t] = ~values[t]]
      BY <1>2 DEF SwitchFeature
    <2>2. t \in {"enableSSL", "enableIC", "hybridDPDK", "enableOVNIPSec", "mountLocalBinDir"}
      BY <2>1 DEF Toggles
    <2>3. QED
      BY <2>1, <2>2 DEF ValuesOK
  <1>3. QED
    BY <1>1, <1>2

LEMMA SameGenerateObjects ==
    ASSUME UNCHANGED <<values, written, label>>
    PROVE  GenerateObjects' = GenerateObjects
  <1>1. Objects' = Objects
    BY DEF Objects, Lists
  <1>2. QED
    BY <1>1 DEF GenerateObjects

LEMMA InvStep ==
    ASSUME IInv, [Next]_vars
    PROVE  IInv'
  <1>1. CASE ChooseStack \/ SwitchFeature
    <2>1. ValuesOK'
      BY <1>1, ValuesChange DEF IInv
    <2>2. written' = written /\ label' = label /\ output' = NoOutput
      BY <1>1 DEF ChooseStack, SwitchFeature
    <2>3. QED
      BY <2>1, <2>2 DEF IInv, WrittenOK
  <1>2. CASE WriteStruct
    BY <1>2 DEF WriteStruct, IInv, ValuesOK, WrittenOK
  <1>3. CASE WriteLabel
    BY <1>3 DEF WriteLabel, IInv, ValuesOK, WrittenOK
  <1>4. CASE Render \/ UNCHANGED vars
    <2>1. UNCHANGED <<values, written, label>>
      BY <1>4 DEF Render, vars
    <2>2. GenerateObjects' = GenerateObjects
      BY <2>1, SameGenerateObjects
    <2>3. output' \in {NoOutput, GenerateObjects}
      BY <1>4 DEF Render, vars, IInv
    <2>4. QED
      BY <2>1, <2>2, <2>3 DEF IInv, ValuesOK, WrittenOK, NoOutput
  <1>5. QED
    BY <1>1, <1>2, <1>3, <1>4 DEF Next

(* What a pass has rendered, in any state. *)
LEMMA OutputIs ==
    ASSUME IInv, output.done
    PROVE  /\ output.error <=> label = {}
           /\ ~output.error =>
                /\ output.objects = Objects
                /\ output.replicas = Cardinality(MasterNodes(label))
                /\ \A o \in Objects : output.gaps[o] = o.reads \ Values(written)
  <1>1. output = GenerateObjects
    BY DEF IInv, NoOutput
  <1>2. CASE label # {}
    <2>1. Demanded \subseteq Values(written) \cup Included(label)
      BY <1>2, DemandedIsThere DEF IInv
    <2>2. output = [ done |-> TRUE, error |-> FALSE, objects |-> Objects,
                     replicas |-> Cardinality(MasterNodes(label)),
                     gaps |-> [ o \in Objects |-> o.reads \ Values(written) ] ]
      BY <1>1, <2>1 DEF GenerateObjects
    <2>3. QED
      BY <1>2, <2>2
  <1>3. CASE label = {}
    <2>1. ~(Demanded \subseteq Values(written) \cup Included(label))
      BY <1>3, DemandedIsThere DEF IInv
    <2>2. output = [done |-> TRUE, error |-> TRUE]
      BY <1>1, <2>1 DEF GenerateObjects
    <2>3. QED
      BY <1>3, <2>2
  <1>4. QED
    BY <1>2, <1>3

(***************************************************************************)
(* Rendering fails for the empty selector and for nothing else             *)
(* (RenderingSucceeds): neither the pointer that generateIncludeValues     *)
(* follows nor the argument of ternary is ever nil, for any spec and any   *)
(* number of edits.                                                        *)
(***************************************************************************)
THEOREM FailsForNoOtherSpec == Spec => []RenderingSucceeds
  <1>1. IInv => RenderingSucceeds
    BY OutputIs DEF RenderingSucceeds
  <1>2. QED
    BY InvInit, InvStep, <1>1, PTL DEF Spec

----------------------------------------------------------------------------
(***************************************************************************)
(* ovn-central has a node for each of its replicas (ReplicasFit), for any  *)
(* finite number of nodes and any selectors, but for those of several      *)
(* labels that some node has: these admit no node.                         *)
(***************************************************************************)
THEOREM ReplicasHaveNodes ==
    ASSUME IsFiniteSet(Nodes)
    PROVE  Spec => []ReplicasFit
  <1> DEFINE Several(l) == \E a, b \in l : a # b
  <1>1. ASSUME NEW l
        PROVE  IsFiniteSet(generateMasterNodeAffinity(l)) /\ IsFiniteSet(MasterNodes(l))
    <2>1. generateMasterNodeAffinity(l) \subseteq Nodes /\ MasterNodes(l) \subseteq Nodes
      BY DEF generateMasterNodeAffinity, MasterNodes
    <2>2. QED
      BY <2>1, FS_Subset
  <1>2. ASSUME NEW l, Several(l)
        PROVE  Cardinality(generateMasterNodeAffinity(l)) = 0
    <2>1. generateMasterNodeAffinity(l) = {}
      BY <1>2 DEF generateMasterNodeAffinity
    <2>2. QED
      BY <2>1, FS_EmptySet
  <1>3. ASSUME NEW l, l # {}, ~Several(l)
        PROVE  Cardinality(MasterNodes(l)) <= Cardinality(generateMasterNodeAffinity(l))
    <2>1. PICK kv \in l : l = {kv}
      BY <1>3
    <2>2. ASSUME NEW n \in MasterNodes(l)
          PROVE  n \in generateMasterNodeAffinity(l)
      <3>1. n \in Nodes /\ kv \in n
        BY <2>1, <2>2 DEF MasterNodes
      <3>2. \E x \in n : x[1] = kv[1] /\ kv[2] \in {"", x[2]}
        BY <3>1
      <3>3. QED
        BY <2>1, <3>1, <3>2 DEF generateMasterNodeAffinity
    <2>3. MasterNodes(l) \subseteq generateMasterNodeAffinity(l)
      BY <2>2
    <2>4. QED
      BY <1>1, <2>3, FS_Subset
  <1>4. ASSUME IInv, Rendered
        PROVE  output.replicas > Cardinality(generateMasterNodeAffinity(label))
                 <=> Several(label) /\ output.replicas > 0
    <2>1. output.replicas = Cardinality(MasterNodes(label)) /\ label # {}
      BY <1>4, OutputIs DEF Rendered
    <2>2. /\ Cardinality(MasterNodes(label)) \in Nat
          /\ Cardinality(generateMasterNodeAffinity(label)) \in Nat
      BY <1>1, FS_CardinalityType
    <2>3. CASE Several(label)
      <3>1. Cardinality(generateMasterNodeAffinity(label)) = 0
        BY <1>2, <2>3
      <3>2. QED
        BY <2>1, <2>2, <2>3, <3>1
    <2>4. CASE ~Several(label)
      <3>1. Cardinality(MasterNodes(label)) <= Cardinality(generateMasterNodeAffinity(label))
        BY <1>3, <2>1, <2>4
      <3>2. QED
        BY <2>1, <2>2, <2>4, <3>1
    <2>5. QED
      BY <2>3, <2>4
  <1>5. IInv => ReplicasFit
    BY <1>4 DEF ReplicasFit
  <1>6. QED
    BY InvInit, InvStep, <1>5, PTL DEF Spec

----------------------------------------------------------------------------
(* The objects of one kind are the ones of the list of its type.           *)

LEMMA AccountsAre ==
    ToSet(ServiceAccountList(values)) =
      {ovn_sa_template(values), ovn_ovs_template(values), kube_ovn_cni(values),
       kube_ovn_app_template(values)}
  BY DEF ToSet, ServiceAccountList

LEMMA ClusterRolesAre ==
    ToSet(ClusterRoleList) =
      {system_ovn_clusterrole, system_ovn_ovs_clusterrole,
       system_kube_ovn_cni_clusterrole, system_kube_ovn_app_clusterrole}
  BY DEF ToSet, ClusterRoleList

LEMMA ClusterRoleBindingsAre ==
    ToSet(ClusterRoleBindingList(values)) =
      {system_ovn_clusterrolebinding(values), ovn_ovs_clusterrolebinding(values),
       system_kube_ovn_cni_clusterrolebinding(values),
       system_kube_ovn_app_clusterrolebinding(values)}
  BY DEF ToSet, ClusterRoleBindingList

LEMMA RoleBindingsAre ==
    ToSet(RoleBindingList(values)) =
      {kube_ovn_cni_rolebinding(values), kube_ovn_app_rolebinding(values),
       kube_ovn_cni_secret_reader_rolebinding(values), ovn_rolebinding(values),
       ovn_ipsec_rolebinding(values)}
  BY DEF ToSet, RoleBindingList

LEMMA OthersAre ==
    /\ ToSet(SecretList(values, 0, 1)) = {kube_ovn_tls_secret(values, 0, 1)}
    /\ ToSet(RoleList(values)) = {system_ovn_ipsec_role(values)}
    /\ ToSet(ConfigMapList(values)) = {ovn_vpc_nat_config(values), ovn_vpc_nat_gw_config(values)}
    /\ ToSet(ValidatingWebhookConfigurationList) = {kubeovn_validatingwebhook_configuration}
  BY DEF ToSet, SecretList, RoleList, ConfigMapList, ValidatingWebhookConfigurationList

LEMMA ListsAre ==
    /\ DOMAIN Lists = {"CustomResourceDefinition", "Secret", "ServiceAccount", "RoleBinding",
                       "ClusterRole", "Role", "ClusterRoleBinding", "ConfigMap", "Deployment",
                       "DaemonSet", "Service", "ValidatingWebhookConfiguration"}
    /\ Lists["CustomResourceDefinition"] = CRDList
    /\ Lists["Secret"] = SecretList(values, 0, 1)
    /\ Lists["ServiceAccount"] = ServiceAccountList(values)
    /\ Lists["RoleBinding"] = RoleBindingList(values)
    /\ Lists["ClusterRole"] = ClusterRoleList
    /\ Lists["Role"] = RoleList(values)
    /\ Lists["ClusterRoleBinding"] = ClusterRoleBindingList(values)
    /\ Lists["ConfigMap"] = ConfigMapList(values)
    /\ Lists["Deployment"] = DeploymentList(values)
    /\ Lists["DaemonSet"] = DaemonsetList(values)
    /\ Lists["Service"] = ServicesList(values)
    /\ Lists["ValidatingWebhookConfiguration"] = ValidatingWebhookConfigurationList
  BY DEF Lists, OrderedObjectList

(* The resources that the first rule of system:ovn names. *)
Resources == WithStatus \cup {"ips", "bgp-confs", "evpn-confs"}

(***************************************************************************)
(* What holds of every definition: the first rule of system:ovn names it   *)
(* and the status that it has, and its columns show fields that it has.    *)
(***************************************************************************)
IsDefinition(c, name) ==
    /\ c.kind = "CustomResourceDefinition"
    /\ c.ns = ""
    /\ c.name = name
    /\ c.reads = {}
    /\ name \in Resources
    /\ c.subresource <=> name \in WithStatus \ {"vips"}
    /\ c.columns \subseteq c.fields

LEMMA CRDFields ==
    ASSUME NEW n \in Resources, NEW scope,
           NEW sub \in BOOLEAN, sub <=> n \in WithStatus \ {"vips"},
           NEW F, NEW G, NEW columns, columns.spec \subseteq F, columns.status \subseteq G
    PROVE  IsDefinition(CRD(n, scope, sub, F, G, columns), n)
  <1>1. Paths(columns.spec, columns.status) \subseteq Paths(F, G)
    BY DEF Paths
  <1>2. QED
    BY <1>1 DEF IsDefinition, CRD

LEMMA Definitions ==
    /\ IsDefinition(bgp_confs_crd, "bgp-confs")
    /\ IsDefinition(dns_name_resolvers_crd, "dnsnameresolvers")
    /\ IsDefinition(evpn_confs_crd, "evpn-confs")
    /\ IsDefinition(vpc_dnses_crd, "vpc-dnses")
    /\ IsDefinition(switch_lb_rules_crd, "switch-lb-rules")
    /\ IsDefinition(vpc_nat_gateways_crd, "vpc-nat-gateways")
    /\ IsDefinition(vpc_egress_gateways_crd, "vpc-egress-gateways")
    /\ IsDefinition(iptables_eips_crd, "iptables-eips")
    /\ IsDefinition(iptables_fip_rules_crd, "iptables-fip-rules")
    /\ IsDefinition(iptables_dnat_rules_crd, "iptables-dnat-rules")
    /\ IsDefinition(iptables_snat_rules_crd, "iptables-snat-rules")
    /\ IsDefinition(ovn_eips_crd, "ovn-eips")
    /\ IsDefinition(ovn_fips_crd, "ovn-fips")
    /\ IsDefinition(ovn_snat_rules_crd, "ovn-snat-rules")
    /\ IsDefinition(ovn_dnat_rules_crd, "ovn-dnat-rules")
    /\ IsDefinition(vpcs_crd, "vpcs")
    /\ IsDefinition(ips_crd, "ips")
    /\ IsDefinition(vips_crd, "vips")
    /\ IsDefinition(subnets_crd, "subnets")
    /\ IsDefinition(ippools_crd, "ippools")
    /\ IsDefinition(vlans_crd, "vlans")
    /\ IsDefinition(provider_networks_crd, "provider-networks")
    /\ IsDefinition(security_groups_crd, "security-groups")
    /\ IsDefinition(qos_policies_crd, "qos-policies")
  <1>1. IsDefinition(bgp_confs_crd, "bgp-confs")
    BY CRDFields DEF bgp_confs_crd, NoColumns, Resources, WithStatus
  <1>2. IsDefinition(dns_name_resolvers_crd, "dnsnameresolvers")
    BY CRDFields DEF dns_name_resolvers_crd, NoColumns, Resources, WithStatus
  <1>3. IsDefinition(evpn_confs_crd, "evpn-confs")
    BY CRDFields DEF evpn_confs_crd, NoColumns, Resources, WithStatus
  <1>4. IsDefinition(vpc_dnses_crd, "vpc-dnses")
    BY CRDFields DEF vpc_dnses_crd, NoColumns, Resources, WithStatus
  <1>5. IsDefinition(switch_lb_rules_crd, "switch-lb-rules")
    BY CRDFields DEF switch_lb_rules_crd, NoColumns, Resources, WithStatus
  <1>6. IsDefinition(vpc_nat_gateways_crd, "vpc-nat-gateways")
    BY CRDFields DEF vpc_nat_gateways_crd, NoColumns, Resources, WithStatus
  <1>7. IsDefinition(vpc_egress_gateways_crd, "vpc-egress-gateways")
    BY CRDFields DEF vpc_egress_gateways_crd, NoColumns, Resources, WithStatus
  <1>8. IsDefinition(iptables_eips_crd, "iptables-eips")
    BY CRDFields DEF iptables_eips_crd, NoColumns, Resources, WithStatus
  <1>9. IsDefinition(iptables_fip_rules_crd, "iptables-fip-rules")
    BY CRDFields DEF iptables_fip_rules_crd, NoColumns, Resources, WithStatus
  <1>10. IsDefinition(iptables_dnat_rules_crd, "iptables-dnat-rules")
    BY CRDFields DEF iptables_dnat_rules_crd, NoColumns, Resources, WithStatus
  <1>11. IsDefinition(iptables_snat_rules_crd, "iptables-snat-rules")
    BY CRDFields DEF iptables_snat_rules_crd, NoColumns, Resources, WithStatus
  <1>12. IsDefinition(ovn_eips_crd, "ovn-eips")
    BY CRDFields DEF ovn_eips_crd, NoColumns, Resources, WithStatus
  <1>13. IsDefinition(ovn_fips_crd, "ovn-fips")
    BY CRDFields DEF ovn_fips_crd, NoColumns, Resources, WithStatus
  <1>14. IsDefinition(ovn_snat_rules_crd, "ovn-snat-rules")
    BY CRDFields DEF ovn_snat_rules_crd, NoColumns, Resources, WithStatus
  <1>15. IsDefinition(ovn_dnat_rules_crd, "ovn-dnat-rules")
    BY CRDFields DEF ovn_dnat_rules_crd, NoColumns, Resources, WithStatus
  <1>16. IsDefinition(vpcs_crd, "vpcs")
    BY CRDFields DEF vpcs_crd, NoColumns, Resources, WithStatus
  <1>17. IsDefinition(ips_crd, "ips")
    BY CRDFields DEF ips_crd, NoColumns, Resources, WithStatus
  <1>18. IsDefinition(vips_crd, "vips")
    BY CRDFields DEF vips_crd, NoColumns, Resources, WithStatus
  <1>19. IsDefinition(subnets_crd, "subnets")
    BY CRDFields DEF subnets_crd, NoColumns, Resources, WithStatus
  <1>20. IsDefinition(ippools_crd, "ippools")
    BY CRDFields DEF ippools_crd, NoColumns, Resources, WithStatus
  <1>21. IsDefinition(vlans_crd, "vlans")
    BY CRDFields DEF vlans_crd, NoColumns, Resources, WithStatus
  <1>22. IsDefinition(provider_networks_crd, "provider-networks")
    BY CRDFields DEF provider_networks_crd, NoColumns, Resources, WithStatus
  <1>23. IsDefinition(security_groups_crd, "security-groups")
    BY CRDFields DEF security_groups_crd, NoColumns, Resources, WithStatus
  <1>24. IsDefinition(qos_policies_crd, "qos-policies")
    BY CRDFields DEF qos_policies_crd, NoColumns, Resources, WithStatus
  <1>25. QED
    BY <1>1, <1>2, <1>3, <1>4, <1>5, <1>6, <1>7, <1>8, <1>9, <1>10, <1>11, <1>12, <1>13, <1>14, <1>15, <1>16, <1>17, <1>18, <1>19, <1>20, <1>21, <1>22, <1>23, <1>24

LEMMA CRDKinds ==
    \A o \in ToSet(CRDList) : o.kind = "CustomResourceDefinition"
  <1>1. \A c, n : IsDefinition(c, n) => c.kind = "CustomResourceDefinition"
    BY DEF IsDefinition
  <1>2. SUFFICES ASSUME NEW o \in ToSet(CRDList)
                 PROVE  \E n : IsDefinition(o, n)
    BY <1>1
  <1>3. QED
    BY <1>2, Definitions, CRDsAre

(* The shapes of the objects. *)
LEMMA DeploymentKinds ==
    \A o \in ToSet(DeploymentList(values)) : o = Skipped \/ o.kind = "Deployment"
  <1>1. /\ ovn_central_deployment(values).kind = "Deployment"
        /\ kube_ovn_controller_deployment(values).kind = "Deployment"
        /\ kube_ovn_monitor_deployment(values).kind = "Deployment"
        /\ kubeovn_webhook_deployment(values).kind = "Deployment"
    BY DEF Workload, ovn_central_deployment, kube_ovn_controller_deployment,
           kube_ovn_monitor_deployment, kubeovn_webhook_deployment
  <1>2. \/ ovn_ic_controller_deployment(values) = Skipped
        \/ ovn_ic_controller_deployment(values).kind = "Deployment"
    BY DEF ovn_ic_controller_deployment, Only, Workload
  <1>3. QED
    BY <1>1, <1>2, DeploymentsAre

LEMMA DaemonSetKinds ==
    \A o \in ToSet(DaemonsetList(values)) : o = Skipped \/ o.kind = "DaemonSet"
  <1>1. /\ kube_ovn_cni_daemonset(values).kind = "DaemonSet"
        /\ ovs_ovn_daemonset(values).kind = "DaemonSet"
        /\ kube_ovn_pinger_daemonsets(values).kind = "DaemonSet"
    BY DEF Workload, kube_ovn_cni_daemonset, ovs_ovn_daemonset, kube_ovn_pinger_daemonsets
  <1>2. \/ ovs_ovn_dpdk_daemonset(values) = Skipped
        \/ ovs_ovn_dpdk_daemonset(values).kind = "DaemonSet"
    BY DEF ovs_ovn_dpdk_daemonset, Only, Workload
  <1>3. QED
    BY <1>1, <1>2, DaemonSetsAre

LEMMA ServiceKinds ==
    \A o \in ToSet(ServicesList(values)) : o.kind = "Service"
  BY ServicesAre
     DEF Service, kube_ovn_controller_service, kube_ovn_monitor_service, ovn_nb_service,
         ovn_northd_service, kube_ovn_cni_service, kube_ovn_pinger_service, ovn_sb_service,
         kubeovn_webhook_service

LEMMA AccessKinds ==
    /\ \A o \in ToSet(ServiceAccountList(values)) : o.kind = "ServiceAccount"
    /\ \A o \in ToSet(RoleBindingList(values)) : o.kind = "RoleBinding"
    /\ \A o \in ToSet(ClusterRoleList) : o.kind = "ClusterRole"
    /\ \A o \in ToSet(RoleList(values)) : o.kind = "Role"
    /\ \A o \in ToSet(ClusterRoleBindingList(values)) : o.kind = "ClusterRoleBinding"
  <1>1. \A o \in ToSet(ServiceAccountList(values)) : o.kind = "ServiceAccount"
    BY AccountsAre
       DEF ServiceAccount, ovn_sa_template, ovn_ovs_template, kube_ovn_cni, kube_ovn_app_template
  <1>2. \A o \in ToSet(RoleBindingList(values)) : o.kind = "RoleBinding"
    BY RoleBindingsAre
       DEF RoleBinding, Binding, kube_ovn_cni_rolebinding, kube_ovn_app_rolebinding,
           kube_ovn_cni_secret_reader_rolebinding, ovn_rolebinding, ovn_ipsec_rolebinding
  <1>3. \A o \in ToSet(ClusterRoleList) : o.kind = "ClusterRole"
    <2>1. \A n, r, w : ClusterRole(n, r, w).kind = "ClusterRole"
      BY DEF ClusterRole
    <2>2. QED
      BY <2>1, ClusterRolesAre, Zenon
         DEF system_ovn_clusterrole, system_ovn_ovs_clusterrole,
             system_kube_ovn_cni_clusterrole, system_kube_ovn_app_clusterrole
  <1>4. \A o \in ToSet(RoleList(values)) : o.kind = "Role"
    BY OthersAre DEF system_ovn_ipsec_role
  <1>5. \A o \in ToSet(ClusterRoleBindingList(values)) : o.kind = "ClusterRoleBinding"
    <2>1. \A n, r, a : ClusterRoleBinding(values, n, r, a).kind = "ClusterRoleBinding"
      BY DEF ClusterRoleBinding, Binding
    <2>2. QED
      BY <2>1, ClusterRoleBindingsAre, Zenon
         DEF system_ovn_clusterrolebinding, ovn_ovs_clusterrolebinding,
             system_kube_ovn_cni_clusterrolebinding, system_kube_ovn_app_clusterrolebinding
  <1>6. QED
    BY <1>1, <1>2, <1>3, <1>4, <1>5

LEMMA OtherKinds ==
    /\ \A o \in ToSet(SecretList(values, 0, 1)) : o = Skipped \/ o.kind = "Secret"
    /\ \A o \in ToSet(ConfigMapList(values)) : o.kind = "ConfigMap"
    /\ \A o \in ToSet(ValidatingWebhookConfigurationList) :
         o.kind = "ValidatingWebhookConfiguration"
  <1>1. \A o \in ToSet(SecretList(values, 0, 1)) : o = Skipped \/ o.kind = "Secret"
    BY OthersAre DEF kube_ovn_tls_secret, Only
  <1>2. \A o \in ToSet(ConfigMapList(values)) : o.kind = "ConfigMap"
    BY OthersAre DEF ConfigMap, ovn_vpc_nat_config, ovn_vpc_nat_gw_config
  <1>3. \A o \in ToSet(ValidatingWebhookConfigurationList) :
          o.kind = "ValidatingWebhookConfiguration"
    <2>1. \A p : Webhook(p).kind = "ValidatingWebhookConfiguration"
      BY DEF Webhook
    <2>2. QED
      BY <2>1, OthersAre, Zenon DEF kubeovn_validatingwebhook_configuration
  <1>4. QED
    BY <1>1, <1>2, <1>3

LEMMA Kinds ==
    \A t \in DOMAIN Lists : \A o \in ToSet(Lists[t]) : o = Skipped \/ o.kind = t
  BY ListsAre, CRDKinds, DeploymentKinds, DaemonSetKinds, ServiceKinds, AccessKinds, OtherKinds

LEMMA ByKind ==
    ASSUME IInv, Rendered, NEW t \in DOMAIN Lists
    PROVE  OfKind(t) = ToSet(Lists[t]) \ {Skipped}
  <1>1. output.objects = Objects
    BY OutputIs DEF Rendered
  <1>2. t # "none"
    BY ListsAre
  <1>3. Skipped.kind = "none"
    BY DEF Skipped
  <1>4. \A o : o \in Objects <=> o # Skipped /\ \E s \in DOMAIN Lists : o \in ToSet(Lists[s])
    BY DEF Objects
  <1>5. QED
    BY <1>1, <1>2, <1>3, <1>4, Kinds DEF OfKind

----------------------------------------------------------------------------
(* The custom resources.                                                   *)

(* The definitions of a pass are the ones of the resources, one of each. *)
LEMMA DefinedResources ==
    ASSUME IInv, Rendered
    PROVE  /\ \A c \in OfKind("CustomResourceDefinition") :
                /\ c.name \in Resources
                /\ c.subresource <=> c.name \in WithStatus \ {"vips"}
                /\ c.columns \subseteq c.fields
           /\ \A n \in Resources : \E c \in OfKind("CustomResourceDefinition") : c.name = n
  <1> DEFINE crds == OfKind("CustomResourceDefinition")
  <1>1. \A c, n : IsDefinition(c, n) => c # Skipped
    <2>1. Skipped.kind = "none"
      BY DEF Skipped
    <2>2. \A c, n : IsDefinition(c, n) => c.kind = "CustomResourceDefinition"
      BY DEF IsDefinition
    <2>3. QED
      BY <2>1, <2>2
  <1>2. crds = ToSet(CRDList) \ {Skipped}
    BY ByKind, ListsAre
  <1>3. ASSUME NEW c \in crds
        PROVE  \E n : IsDefinition(c, n)
    BY <1>2, <1>3, CRDsAre, Definitions
  <1>4. ASSUME NEW n \in Resources
        PROVE  \E c \in ToSet(CRDList) : IsDefinition(c, n)
    <2> DEFINE There(m) == \E c \in ToSet(CRDList) : IsDefinition(c, m)
    <2>1. \A c \in ToSet(CRDList) : \A m : IsDefinition(c, m) => There(m)
      OBVIOUS
    <2>2. {bgp_confs_crd, dns_name_resolvers_crd, evpn_confs_crd, vpc_dnses_crd,
            switch_lb_rules_crd, vpc_nat_gateways_crd, vpc_egress_gateways_crd,
            iptables_eips_crd, iptables_fip_rules_crd, iptables_dnat_rules_crd,
            iptables_snat_rules_crd, ovn_eips_crd, ovn_fips_crd, ovn_snat_rules_crd,
            ovn_dnat_rules_crd, vpcs_crd, ips_crd, vips_crd, subnets_crd, ippools_crd,
            vlans_crd, provider_networks_crd, security_groups_crd, qos_policies_crd}
            \subseteq ToSet(CRDList)
      BY CRDsAre
    <2> HIDE DEF There
    <2>3. \A m \in {"bgp-confs", "dnsnameresolvers", "evpn-confs", "vpc-dnses",
                   "switch-lb-rules", "vpc-nat-gateways", "vpc-egress-gateways",
                   "iptables-eips", "iptables-fip-rules", "iptables-dnat-rules",
                   "iptables-snat-rules", "ovn-eips", "ovn-fips", "ovn-snat-rules",
                   "ovn-dnat-rules", "vpcs", "ips", "vips", "subnets", "ippools",
                   "vlans", "provider-networks", "security-groups", "qos-policies"} :
            There(m)
      BY <2>1, <2>2, Definitions
    <2>4. There(n)
      BY <2>3 DEF Resources, WithStatus
    <2>5. QED
      BY <2>4 DEF There
  <1>5. \A c \in crds : /\ c.name \in Resources
                        /\ c.subresource <=> c.name \in WithStatus \ {"vips"}
                        /\ c.columns \subseteq c.fields
    <2> HIDE DEF crds
    <2> QED
      BY <1>3 DEF IsDefinition
  <1>6. \A n \in Resources : \E c \in crds : c.name = n
    <2> HIDE DEF crds
    <2>1. \A c, n : IsDefinition(c, n) => c.name = n
      BY DEF IsDefinition
    <2> QED
      BY <1>1, <1>2, <1>4, <2>1
  <1>7. QED
    BY <1>5, <1>6

(* The definitions of the cluster's roles. *)
LEMMA RolesAre ==
    ASSUME IInv, Rendered
    PROVE  /\ OfKind("ClusterRole") = {system_ovn_clusterrole, system_ovn_ovs_clusterrole,
                system_kube_ovn_cni_clusterrole, system_kube_ovn_app_clusterrole}
           /\ system_ovn_clusterrole.name = "system:ovn"
           /\ system_ovn_clusterrole.writable = SystemOVNResources
           /\ \A r \in OfKind("ClusterRole") : r.readable \cup r.writable \subseteq SystemOVNResources
  <1>1. \A n, R, W : LET r == ClusterRole(n, R, W)
                     IN  r # Skipped /\ r.name = n /\ r.readable = R /\ r.writable = W
    BY DEF ClusterRole, Skipped
  <1>2. /\ system_ovn_clusterrole # Skipped
        /\ system_ovn_ovs_clusterrole # Skipped
        /\ system_kube_ovn_cni_clusterrole # Skipped
        /\ system_kube_ovn_app_clusterrole # Skipped
    BY <1>1, Zenon DEF system_ovn_clusterrole, system_ovn_ovs_clusterrole,
                system_kube_ovn_cni_clusterrole, system_kube_ovn_app_clusterrole
  <1>3. OfKind("ClusterRole") = {system_ovn_clusterrole, system_ovn_ovs_clusterrole,
                system_kube_ovn_cni_clusterrole, system_kube_ovn_app_clusterrole}
    <2>1. OfKind("ClusterRole") = ToSet(ClusterRoleList) \ {Skipped}
      BY ByKind, ListsAre
    <2>2. QED
      BY <1>2, <2>1, ClusterRolesAre
  <1>4. /\ system_ovn_clusterrole.name = "system:ovn"
        /\ system_ovn_clusterrole.writable = SystemOVNResources
        /\ system_ovn_clusterrole.readable = SystemOVNResources
    <2>1. system_ovn_clusterrole =
            ClusterRole("system:ovn", SystemOVNResources, SystemOVNResources)
      BY DEF system_ovn_clusterrole
    <2>2. QED
      BY <1>1, <2>1
  <1>5. /\ system_ovn_ovs_clusterrole.readable \cup system_ovn_ovs_clusterrole.writable = {}
        /\ system_kube_ovn_app_clusterrole.readable
             \cup system_kube_ovn_app_clusterrole.writable = {}
    <2>1. /\ system_ovn_ovs_clusterrole = ClusterRole("system:ovn-ovs", {}, {})
          /\ system_kube_ovn_app_clusterrole = ClusterRole("system:kube-ovn-app", {}, {})
      BY DEF system_ovn_ovs_clusterrole, system_kube_ovn_app_clusterrole
    <2>2. QED
      BY <1>1, <2>1
  <1>6. system_kube_ovn_cni_clusterrole.readable \cup system_kube_ovn_cni_clusterrole.writable
          \subseteq SystemOVNResources
    <2>1. /\ {"subnets", "vlans", "provider-networks", "ovn-eips", "ips"} \subseteq Resources
          /\ {"ovn-eips"} \subseteq WithStatus
      BY DEF Resources, WithStatus
    <2>2. /\ Plain({"subnets", "vlans", "provider-networks", "ovn-eips", "ips"})
               \cup Status({"ovn-eips"}) \subseteq SystemOVNResources
          /\ Plain({"ovn-eips", "ips"}) \cup Status({"ovn-eips"}) \subseteq SystemOVNResources
      BY <2>1 DEF SystemOVNResources, Resources, Plain, Status
    <2>3. system_kube_ovn_cni_clusterrole =
            ClusterRole("system:kube-ovn-cni",
                Plain({"subnets", "vlans", "provider-networks", "ovn-eips", "ips"})
                  \cup Status({"ovn-eips"}),
                Plain({"ovn-eips", "ips"}) \cup Status({"ovn-eips"}))
      BY DEF system_kube_ovn_cni_clusterrole
    <2>4. QED
      BY <1>1, <2>2, <2>3
  <1>7. QED
    BY <1>3, <1>4, <1>5, <1>6

(***************************************************************************)
(* Roles, webhook rules and definitions agree (ResourcesAgree), whatever   *)
(* the spec says.                                                          *)
(***************************************************************************)
THEOREM RolesMatchResources == Spec => []ResourcesAgree
  <1>1. ASSUME IInv, Rendered
        PROVE  ResourcesAgree
    <2> DEFINE crds    == OfKind("CustomResourceDefinition")
               names   == { c.name : c \in crds }
               defined == { <<c.name, "">> : c \in crds }
                            \cup { <<c.name, "status">> : c \in { d \in crds : d.subresource } }
    <2>1. /\ \A c \in crds :
               /\ c.name \in Resources
               /\ c.subresource <=> c.name \in WithStatus \ {"vips"}
               /\ c.columns \subseteq c.fields
          /\ \A n \in Resources : \E c \in crds : c.name = n
      BY <1>1, DefinedResources
    <2> HIDE DEF crds
    <2>2. defined \subseteq SystemOVNResources
      <3>1. ASSUME NEW c \in crds
            PROVE  <<c.name, "">> \in SystemOVNResources
        BY <2>1 DEF SystemOVNResources, Plain, Resources
      <3>2. ASSUME NEW c \in crds, c.subresource
            PROVE  <<c.name, "status">> \in SystemOVNResources
        <4>1. c.name \in WithStatus \ {"vips"}
          BY <2>1, <3>2, Zenon
        <4>2. QED
          BY <4>1 DEF SystemOVNResources, Status
      <3>3. QED
        BY <3>1, <3>2
    <2>3. SystemOVNResources \subseteq defined \cup {<<"vips", "status">>}
      <3>1. WithStatus \subseteq Resources
        BY DEF Resources
      <3>2. ASSUME NEW n \in Resources
            PROVE  <<n, "">> \in defined
        BY <2>1
      <3>3. ASSUME NEW n \in WithStatus \ {"vips"}
            PROVE  <<n, "status">> \in defined
        <4>1. PICK c \in crds : c.name = n
          BY <2>1, <3>1
        <4>2. c.subresource
          <5>1. c.name \in WithStatus \ {"vips"}
            BY <4>1
          <5>2. QED
            BY <2>1, <5>1, Zenon
        <4>3. QED
          BY <4>1, <4>2
      <3> HIDE DEF defined
      <3>4. QED
        BY <3>2, <3>3 DEF SystemOVNResources, Plain, Status, Resources
    <2>4. \A n \in Resources : n \in names
      BY <2>1
    <2> HIDE DEF defined, names
    <2>5. \E r \in OfKind("ClusterRole") : r.name = "system:ovn" /\ defined \subseteq r.writable
      BY <1>1, <2>2, RolesAre
    <2>6. \A r \in OfKind("ClusterRole") :
            r.readable \cup r.writable \subseteq defined \cup {<<"vips", "status">>}
      BY <1>1, <2>3, RolesAre
    <2>7. \A c \in OfKind("ValidatingWebhookConfiguration") : c.guards \subseteq names
      <3>1. OfKind("ValidatingWebhookConfiguration") \subseteq {Webhook("Ignore")}
        BY <1>1, ByKind, ListsAre, OthersAre DEF kubeovn_validatingwebhook_configuration
      <3>2. Webhook("Ignore").guards \subseteq Resources
        BY DEF Webhook, Resources, WithStatus
      <3>3. QED
        BY <2>4, <3>1, <3>2
    <2>8. \A c \in crds : c.columns \subseteq c.fields
      BY <2>1
    <2>9. QED
      BY <2>5, <2>6, <2>7, <2>8, Zenon DEF ResourcesAgree, crds, names, defined
  <1>2. IInv => ResourcesAgree
    BY <1>1 DEF ResourcesAgree
  <1>3. QED
    BY InvInit, InvStep, <1>2, PTL DEF Spec

----------------------------------------------------------------------------
(* What other objects meet of an object.                                   *)

IsWorkload(o, name, ns, sa, app) ==
    o # Skipped /\ o.name = name /\ o.ns = ns /\ o.sa = sa /\ o.app = app

LEMMA WorkloadFields ==
    ASSUME NEW kind \in {"Deployment", "DaemonSet"},
           NEW name, NEW ns, NEW sa, NEW app, NEW reads
    PROVE  /\ IsWorkload(Workload(kind, name, ns, sa, app, reads), name, ns, sa, app)
           /\ IsWorkload([Workload(kind, name, ns, sa, app, reads) EXCEPT !.hostNetwork = FALSE],
                         name, ns, sa, app)
  <1>1. /\ Workload(kind, name, ns, sa, app, reads).kind # Skipped.kind
        /\ [Workload(kind, name, ns, sa, app, reads) EXCEPT !.hostNetwork = FALSE].kind
             # Skipped.kind
    BY DEF Workload, Skipped
  <1>2. QED
    BY <1>1 DEF IsWorkload, Workload

LEMMA Deployments ==
    /\ IsWorkload(ovn_central_deployment(values), "ovn-central", values.namespace,
                  "ovn-ovs", "ovn-central")
    /\ IsWorkload(kube_ovn_controller_deployment(values), "kube-ovn-controller",
                  values.namespace, "ovn", "kube-ovn-controller")
    /\ \/ ovn_ic_controller_deployment(values) = Skipped
       \/ IsWorkload(ovn_ic_controller_deployment(values), "ovn-ic-controller",
                     "kube-system", "ovn", "ovn-ic-controller")
    /\ IsWorkload(kube_ovn_monitor_deployment(values), "kube-ovn-monitor",
                  values.namespace, "kube-ovn-app", "kube-ovn-monitor")
    /\ IsWorkload(kubeovn_webhook_deployment(values), "kube-ovn-webhook",
                  "kube-system", "ovn", "kube-ovn-webhook")
  <1>1. IsWorkload(ovn_central_deployment(values), "ovn-central", values.namespace,
                   "ovn-ovs", "ovn-central")
    BY WorkloadFields DEF ovn_central_deployment
  <1>2. IsWorkload(kube_ovn_controller_deployment(values), "kube-ovn-controller",
                   values.namespace, "ovn", "kube-ovn-controller")
    BY WorkloadFields DEF kube_ovn_controller_deployment
  <1>3. \/ ovn_ic_controller_deployment(values) = Skipped
        \/ IsWorkload(ovn_ic_controller_deployment(values), "ovn-ic-controller",
                      "kube-system", "ovn", "ovn-ic-controller")
    BY WorkloadFields DEF ovn_ic_controller_deployment, Only
  <1>4. IsWorkload(kube_ovn_monitor_deployment(values), "kube-ovn-monitor",
                   values.namespace, "kube-ovn-app", "kube-ovn-monitor")
    BY WorkloadFields DEF kube_ovn_monitor_deployment
  <1>5. IsWorkload(kubeovn_webhook_deployment(values), "kube-ovn-webhook",
                   "kube-system", "ovn", "kube-ovn-webhook")
    BY WorkloadFields DEF kubeovn_webhook_deployment
  <1>6. QED
    BY <1>1, <1>2, <1>3, <1>4, <1>5

LEMMA DaemonSets ==
    /\ \/ ovs_ovn_dpdk_daemonset(values) = Skipped
       \/ IsWorkload(ovs_ovn_dpdk_daemonset(values), "ovs-ovn-dpdk", values.namespace,
                     "ovn-ovs", "ovs-dpdk")
    /\ IsWorkload(kube_ovn_cni_daemonset(values), "kube-ovn-cni", values.namespace,
                  "kube-ovn-cni", "kube-ovn-cni")
    /\ IsWorkload(ovs_ovn_daemonset(values), "ovs-ovn", values.namespace, "ovn-ovs", "ovs")
    /\ IsWorkload(kube_ovn_pinger_daemonsets(values), "kube-ovn-pinger", values.namespace,
                  "kube-ovn-app", "kube-ovn-pinger")
  <1>1. \/ ovs_ovn_dpdk_daemonset(values) = Skipped
        \/ IsWorkload(ovs_ovn_dpdk_daemonset(values), "ovs-ovn-dpdk", values.namespace,
                      "ovn-ovs", "ovs-dpdk")
    BY WorkloadFields DEF ovs_ovn_dpdk_daemonset, Only
  <1>2. IsWorkload(kube_ovn_cni_daemonset(values), "kube-ovn-cni", values.namespace,
                   "kube-ovn-cni", "kube-ovn-cni")
    BY WorkloadFields DEF kube_ovn_cni_daemonset
  <1>3. IsWorkload(ovs_ovn_daemonset(values), "ovs-ovn", values.namespace, "ovn-ovs", "ovs")
    BY WorkloadFields DEF ovs_ovn_daemonset
  <1>4. IsWorkload(kube_ovn_pinger_daemonsets(values), "kube-ovn-pinger", values.namespace,
                   "kube-ovn-app", "kube-ovn-pinger")
    BY WorkloadFields DEF kube_ovn_pinger_daemonsets
  <1>5. QED
    BY <1>1, <1>2, <1>3, <1>4

IsService(o, name, app) ==
    /\ o # Skipped /\ o.name = name /\ o.ns = values.namespace /\ o.app = app
    /\ o.reads \subseteq netStack \cup NET_STACK

LEMMA Services ==
    /\ IsService(kube_ovn_controller_service(values), "kube-ovn-controller", "kube-ovn-controller")
    /\ IsService(kube_ovn_monitor_service(values), "kube-ovn-monitor", "kube-ovn-monitor")
    /\ IsService(ovn_nb_service(values), "ovn-nb", "ovn-central")
    /\ IsService(ovn_northd_service(values), "ovn-northd", "ovn-central")
    /\ IsService(kube_ovn_cni_service(values), "kube-ovn-cni", "kube-ovn-cni")
    /\ IsService(kube_ovn_pinger_service(values), "kube-ovn-pinger", "kube-ovn-pinger")
    /\ IsService(ovn_sb_service(values), "ovn-sb", "ovn-central")
    /\ IsService(kubeovn_webhook_service(values), "kube-ovn-webhook", "kube-ovn-webhook")
  <1>1. ASSUME NEW name, NEW app, NEW reads \in {netStack, NET_STACK, {}}
        PROVE  IsService(Service(values, name, app, reads), name, app)
    <2>1. Service(values, name, app, reads).kind # Skipped.kind
      BY DEF Service, Skipped
    <2>2. QED
      BY <2>1 DEF IsService, Service
  <1>2. QED
    BY <1>1
       DEF kube_ovn_controller_service, kube_ovn_monitor_service, ovn_nb_service,
           ovn_northd_service, kube_ovn_cni_service, kube_ovn_pinger_service, ovn_sb_service,
           kubeovn_webhook_service

IsAccount(o, name) ==
    o # Skipped /\ o.name = name /\ o.ns = values.namespace /\ o.reads = {}

LEMMA Accounts ==
    /\ IsAccount(ovn_sa_template(values), "ovn")
    /\ IsAccount(ovn_ovs_template(values), "ovn-ovs")
    /\ IsAccount(kube_ovn_cni(values), "kube-ovn-cni")
    /\ IsAccount(kube_ovn_app_template(values), "kube-ovn-app")
  <1>1. ASSUME NEW name
        PROVE  IsAccount(ServiceAccount(values, name), name)
    <2>1. ServiceAccount(values, name).kind # Skipped.kind
      BY DEF ServiceAccount, Skipped
    <2>2. QED
      BY <2>1 DEF IsAccount, ServiceAccount
  <1>2. QED
    BY <1>1 DEF ovn_sa_template, ovn_ovs_template, kube_ovn_cni, kube_ovn_app_template

IsBinding(o, kind, name, role, sa) ==
    /\ o # Skipped
    /\ o.kind = kind
    /\ o.name = name
    /\ o.role = role
    /\ o.sa = sa
    /\ o.saNamespace = values.namespace
    /\ o.reads = {}

LEMMA BindingFields ==
    ASSUME NEW name, NEW role, NEW sa
    PROVE  /\ IsBinding(ClusterRoleBinding(values, name, role, sa), "ClusterRoleBinding",
                        name, role, sa)
           /\ IsBinding(RoleBinding(values, name, role, sa), "RoleBinding", name, role, sa)
           /\ RoleBinding(values, name, role, sa).ns = values.namespace
  <1>1. /\ ClusterRoleBinding(values, name, role, sa).kind # Skipped.kind
        /\ RoleBinding(values, name, role, sa).kind # Skipped.kind
    BY DEF ClusterRoleBinding, RoleBinding, Binding, Skipped
  <1>2. QED
    BY <1>1 DEF IsBinding, ClusterRoleBinding, RoleBinding, Binding

LEMMA ClusterRoleBindings ==
    LET IsOne(o, name, role, sa) == IsBinding(o, "ClusterRoleBinding", name, role, sa)
    IN  /\ IsOne(system_ovn_clusterrolebinding(values), "ovn", "system:ovn", "ovn")
        /\ IsOne(ovn_ovs_clusterrolebinding(values), "ovn-ovs", "system:ovn-ovs", "ovn-ovs")
        /\ IsOne(system_kube_ovn_cni_clusterrolebinding(values), "kube-ovn-cni",
                 "system:kube-ovn-cni", "kube-ovn-cni")
        /\ IsOne(system_kube_ovn_app_clusterrolebinding(values), "kube-ovn-app",
                 "system:kube-ovn-app", "kube-ovn-app")
  BY BindingFields
     DEF system_ovn_clusterrolebinding, ovn_ovs_clusterrolebinding,
         system_kube_ovn_cni_clusterrolebinding, system_kube_ovn_app_clusterrolebinding

LEMMA RoleBindings ==
    LET IsOne(o, name, role, sa) == /\ IsBinding(o, "RoleBinding", name, role, sa)
                                    /\ o.ns = values.namespace
    IN  /\ IsOne(kube_ovn_app_rolebinding(values), "kube-ovn-app", AuthenticationReader,
                 "kube-ovn-app")
        /\ IsOne(kube_ovn_cni_rolebinding(values), "kube-ovn-cni", AuthenticationReader,
                 "kube-ovn-cni")
        /\ IsOne(kube_ovn_cni_secret_reader_rolebinding(values), "kube-ovn-cni-secret-reader",
                 "secret-reader-ovn-ipsec", "kube-ovn-cni")
        /\ IsOne(ovn_rolebinding(values), "ovn", AuthenticationReader, "ovn")
        /\ ovn_ipsec_rolebinding(values) = kube_ovn_cni_secret_reader_rolebinding(values)
  BY BindingFields
     DEF kube_ovn_app_rolebinding, kube_ovn_cni_rolebinding,
         kube_ovn_cni_secret_reader_rolebinding, ovn_rolebinding, ovn_ipsec_rolebinding

----------------------------------------------------------------------------
(* Objects of one kind with one name are one object.                       *)

OneByName(S) == \A a, b \in S \ {Skipped} : a.name = b.name => a = b

LEMMA CRDsByName == OneByName(ToSet(CRDList))
  <1>1. \A c, n : IsDefinition(c, n) => c.name = n
    BY DEF IsDefinition
  <1>2. QED
    BY <1>1, CRDsAre, Definitions, SMTT(60) DEF OneByName

LEMMA WorkloadsByName ==
    OneByName(ToSet(DeploymentList(values))) /\ OneByName(ToSet(DaemonsetList(values)))
  <1>1. \A o, n, ns, sa, app : IsWorkload(o, n, ns, sa, app) => o.name = n
    BY DEF IsWorkload
  <1>2. OneByName(ToSet(DeploymentList(values)))
    BY <1>1, DeploymentsAre, Deployments DEF OneByName
  <1>3. OneByName(ToSet(DaemonsetList(values)))
    BY <1>1, DaemonSetsAre, DaemonSets DEF OneByName
  <1>4. QED
    BY <1>2, <1>3

LEMMA ServicesByName == OneByName(ToSet(ServicesList(values)))
  <1>1. \A o, n, app : IsService(o, n, app) => o.name = n
    BY DEF IsService
  <1>2. QED
    BY <1>1, ServicesAre, Services DEF OneByName

LEMMA ClusterRoleNames ==
    /\ system_ovn_clusterrole.name = "system:ovn"
    /\ system_ovn_ovs_clusterrole.name = "system:ovn-ovs"
    /\ system_kube_ovn_cni_clusterrole.name = "system:kube-ovn-cni"
    /\ system_kube_ovn_app_clusterrole.name = "system:kube-ovn-app"
  <1>1. \A n, R, W : ClusterRole(n, R, W).name = n
    BY DEF ClusterRole
  <1>2. QED
    BY <1>1, Zenon
       DEF system_ovn_clusterrole, system_ovn_ovs_clusterrole,
           system_kube_ovn_cni_clusterrole, system_kube_ovn_app_clusterrole

LEMMA AccessByName ==
    /\ OneByName(ToSet(ServiceAccountList(values)))
    /\ OneByName(ToSet(RoleBindingList(values)))
    /\ OneByName(ToSet(ClusterRoleList))
    /\ OneByName(ToSet(RoleList(values)))
    /\ OneByName(ToSet(ClusterRoleBindingList(values)))
  <1>1. OneByName(ToSet(ServiceAccountList(values)))
    <2>1. \A o, n : IsAccount(o, n) => o.name = n
      BY DEF IsAccount
    <2>2. QED
      BY <2>1, AccountsAre, Accounts DEF OneByName
  <1>2. \A o, k, n, r, sa : IsBinding(o, k, n, r, sa) => o.name = n
    BY DEF IsBinding
  <1>3. OneByName(ToSet(RoleBindingList(values)))
    BY <1>2, RoleBindingsAre, RoleBindings DEF OneByName
  <1>4. OneByName(ToSet(ClusterRoleBindingList(values)))
    BY <1>2, ClusterRoleBindingsAre, ClusterRoleBindings DEF OneByName
  <1>5. OneByName(ToSet(ClusterRoleList))
    BY ClusterRoleNames, ClusterRolesAre DEF OneByName
  <1>6. OneByName(ToSet(RoleList(values)))
    BY OthersAre DEF OneByName
  <1>7. QED
    BY <1>1, <1>3, <1>4, <1>5, <1>6

LEMMA OthersByName ==
    /\ OneByName(ToSet(SecretList(values, 0, 1)))
    /\ OneByName(ToSet(ConfigMapList(values)))
    /\ OneByName(ToSet(ValidatingWebhookConfigurationList))
  <1>1. /\ ovn_vpc_nat_config(values).name = "ovn-vpc-nat-config"
        /\ ovn_vpc_nat_gw_config(values).name = "ovn-vpc-nat-gw-config"
    BY DEF ConfigMap, ovn_vpc_nat_config, ovn_vpc_nat_gw_config
  <1>2. QED
    BY <1>1, OthersAre DEF OneByName

(***************************************************************************)
(* No two templates give one object in two forms (NoFlipFlop), for any     *)
(* namespace: a pass never undoes what the one before it has applied, as   *)
(* far as the templates go.                                                *)
(***************************************************************************)
THEOREM OneTemplatePerObject == Spec => []NoFlipFlop
  <1>1. \A t \in DOMAIN Lists : OneByName(ToSet(Lists[t]))
    BY ListsAre, CRDsByName, WorkloadsByName, ServicesByName, AccessByName, OthersByName
  <1>2. ASSUME IInv, Rendered,
               NEW a \in output.objects, NEW b \in output.objects,
               a.kind = b.kind, a.name = b.name
        PROVE  a = b
    <2>1. a \in Objects /\ b \in Objects
      BY <1>2, OutputIs DEF Rendered
    <2>2. PICK s \in DOMAIN Lists : a \in ToSet(Lists[s])
      BY <2>1 DEF Objects
    <2>3. PICK t \in DOMAIN Lists : b \in ToSet(Lists[t])
      BY <2>1 DEF Objects
    <2>4. a # Skipped /\ b # Skipped
      BY <2>1 DEF Objects
    <2>5. s = t
      BY <1>2, <2>2, <2>3, <2>4, Kinds
    <2>6. QED
      BY <1>1, <1>2, <2>2, <2>3, <2>4, <2>5 DEF OneByName
  <1>3. IInv => NoFlipFlop
    BY <1>2 DEF NoFlipFlop
  <1>4. QED
    BY InvInit, InvStep, <1>3, PTL DEF Spec

----------------------------------------------------------------------------
(* References.                                                             *)

LEMMA AccountsThere ==
    ASSUME IInv, Rendered, NEW n \in {"ovn", "ovn-ovs", "kube-ovn-cni", "kube-ovn-app"}
    PROVE  \E a \in OfKind("ServiceAccount") : a.name = n /\ a.ns = values.namespace
  <1>1. OfKind("ServiceAccount") = ToSet(ServiceAccountList(values)) \ {Skipped}
    BY ByKind, ListsAre
  <1>2. QED
    BY <1>1, AccountsAre, Accounts DEF IsAccount

LEMMA WorkloadsThere ==
    ASSUME IInv, Rendered, values.namespace = "kube-system"
    PROVE  /\ \A w \in Workloads : /\ w.ns = values.namespace
                                   /\ w.sa \in {"ovn", "ovn-ovs", "kube-ovn-cni", "kube-ovn-app"}
           /\ \A app \in {"ovn-central", "kube-ovn-controller", "kube-ovn-monitor",
                          "kube-ovn-webhook", "kube-ovn-cni", "kube-ovn-pinger"} :
                \E w \in Workloads : w.app = app
  <1>1. Workloads = (ToSet(DeploymentList(values)) \cup ToSet(DaemonsetList(values))) \ {Skipped}
    BY ByKind, ListsAre DEF Workloads
  <1>2. \A w \in Workloads : /\ w.ns = values.namespace
                             /\ w.sa \in {"ovn", "ovn-ovs", "kube-ovn-cni", "kube-ovn-app"}
    BY <1>1, DeploymentsAre, DaemonSetsAre, Deployments, DaemonSets DEF IsWorkload
  <1>3. \A app \in {"ovn-central", "kube-ovn-controller", "kube-ovn-monitor",
                    "kube-ovn-webhook", "kube-ovn-cni", "kube-ovn-pinger"} :
          \E w \in Workloads : w.app = app
    BY <1>1, DeploymentsAre, DaemonSetsAre, Deployments, DaemonSets DEF IsWorkload
  <1>4. QED
    BY <1>2, <1>3

(***************************************************************************)
(* Every reference finds its object (ReferencesResolve), if the operator   *)
(* runs in kube-system, which some templates name outright.                *)
(***************************************************************************)
THEOREM ReferencesAreResolved ==
    ASSUME Namespace = "kube-system"
    PROVE  Spec => []ReferencesResolve
  <1>1. ASSUME IInv, Rendered
        PROVE  ReferencesResolve
    <2>1. values.namespace = "kube-system"
      BY <1>1 DEF IInv, ValuesOK
    <2>2. ASSUME NEW w \in Workloads
          PROVE  \E a \in OfKind("ServiceAccount") : a.name = w.sa /\ a.ns = w.ns
      <3>1. /\ w.ns = values.namespace
            /\ w.sa \in {"ovn", "ovn-ovs", "kube-ovn-cni", "kube-ovn-app"}
        BY <1>1, <2>1, WorkloadsThere
      <3>2. QED
        BY <1>1, <3>1, AccountsThere
    <2>3. /\ OfKind("Service") = ToSet(ServicesList(values)) \ {Skipped}
          /\ OfKind("ClusterRoleBinding") = ToSet(ClusterRoleBindingList(values)) \ {Skipped}
          /\ OfKind("RoleBinding") = ToSet(RoleBindingList(values)) \ {Skipped}
      BY <1>1, ByKind, ListsAre
    <2>4. ASSUME NEW s \in OfKind("Service")
          PROVE  \E w \in Workloads : w.app = s.app /\ w.ns = s.ns
      <3>1. /\ s.ns = values.namespace
            /\ s.app \in {"ovn-central", "kube-ovn-controller", "kube-ovn-monitor",
                          "kube-ovn-webhook", "kube-ovn-cni", "kube-ovn-pinger"}
        BY <2>3, <2>4, ServicesAre, Services DEF IsService
      <3>2. QED
        BY <1>1, <2>1, <3>1, WorkloadsThere
    <2>5. ASSUME NEW b \in OfKind("ClusterRoleBinding")
          PROVE  /\ b.kind = "ClusterRoleBinding"
                 /\ \E a \in OfKind("ServiceAccount") : a.name = b.sa /\ a.ns = b.saNamespace
                 /\ \E r \in OfKind("ClusterRole") : r.name = b.role
      <3>1. /\ b.kind = "ClusterRoleBinding"
            /\ b.saNamespace = values.namespace
            /\ b.sa \in {"ovn", "ovn-ovs", "kube-ovn-cni", "kube-ovn-app"}
            /\ b.role \in {"system:ovn", "system:ovn-ovs", "system:kube-ovn-cni",
                           "system:kube-ovn-app"}
        BY <2>3, <2>5, ClusterRoleBindingsAre, ClusterRoleBindings DEF IsBinding
      <3>2. \A n \in {"system:ovn", "system:ovn-ovs", "system:kube-ovn-cni",
                      "system:kube-ovn-app"} : \E r \in OfKind("ClusterRole") : r.name = n
        BY <1>1, RolesAre, ClusterRoleNames
      <3>3. QED
        BY <1>1, <3>1, <3>2, AccountsThere
    <2>6. ASSUME NEW b \in OfKind("RoleBinding")
          PROVE  /\ b.kind = "RoleBinding"
                 /\ \E a \in OfKind("ServiceAccount") : a.name = b.sa /\ a.ns = b.saNamespace
                 /\ \/ b.ns = "kube-system" /\ b.role = AuthenticationReader
                    \/ \E r \in OfKind("Role") : r.name = b.role /\ r.ns = b.ns
      <3>1. /\ b.kind = "RoleBinding"
            /\ b.saNamespace = values.namespace
            /\ b.ns = values.namespace
            /\ b.sa \in {"ovn", "ovn-ovs", "kube-ovn-cni", "kube-ovn-app"}
            /\ b.role \in {AuthenticationReader, "secret-reader-ovn-ipsec"}
        BY <2>3, <2>6, RoleBindingsAre, RoleBindings DEF IsBinding
      <3>2. \E r \in OfKind("Role") : r.name = "secret-reader-ovn-ipsec" /\ r.ns = values.namespace
        <4> DEFINE r == system_ovn_ipsec_role(values)
        <4>1. r.kind # Skipped.kind /\ r.name = "secret-reader-ovn-ipsec" /\ r.ns = values.namespace
          BY DEF system_ovn_ipsec_role, Skipped
        <4> HIDE DEF r
        <4>2. OfKind("Role") = {r} \ {Skipped}
          BY <1>1, ByKind, ListsAre, OthersAre DEF r
        <4>3. QED
          BY <4>1, <4>2
      <3>3. QED
        BY <1>1, <2>1, <3>1, <3>2, AccountsThere
    <2>7. ASSUME NEW c \in OfKind("ValidatingWebhookConfiguration")
          PROVE  \E s \in OfKind("Service") : s.name = c.service /\ s.ns = c.serviceNamespace
      <3>1. c = Webhook("Ignore")
        BY <1>1, <2>7, ByKind, ListsAre, OthersAre DEF kubeovn_validatingwebhook_configuration
      <3>2. c.service = "kube-ovn-webhook" /\ c.serviceNamespace = "kube-system"
        BY <3>1 DEF Webhook
      <3>3. QED
        BY <2>1, <2>3, <3>2, ServicesAre, Services DEF IsService
    <2>8. QED
      BY <2>2, <2>4, <2>5, <2>6, <2>7 DEF ReferencesResolve
  <1>2. IInv => ReferencesResolve
    BY <1>1 DEF ReferencesResolve
  <1>3. QED
    BY InvInit, InvStep, <1>2, PTL DEF Spec

----------------------------------------------------------------------------
(* The keys that the templates read.                                       *)

(* A key that a template may read: one with a default, or one of the gaps. *)
Expected(key) ==
    \/ key \in NeverThere
    \/ key = <<"kubeovn", "tag">>
    \/ key = <<"networking", "dpdkTunnelInterface">> /\ values.hybridDPDK
    \/ \E s, f : key = <<s, f>> /\ Sure(s, f)

AllExpected(R) == \A key \in R : Expected(key)

LEMMA ExpectedGap ==
    ASSUME WrittenOK, NEW key, Expected(key), key \notin Values(written)
    PROVE  \/ key \in NeverThere
           \/ key[1] \in LeftOut
           \/ key[1] \in Emptied /\ Structs[key[1]][key[2]].zero
           \/ key = <<"networking", "dpdkTunnelInterface">> /\ values.hybridDPDK
  <1>1. key # <<"kubeovn", "tag">>
    BY DEF Values
  <1>2. CASE \E s, f : key = <<s, f>> /\ Sure(s, f)
    <2>1. PICK s, f : key = <<s, f>> /\ Sure(s, f)
      BY <1>2
    <2>2. s \in LeftOut \/ (s \in Emptied /\ Structs[s][f].zero)
      BY <2>1, Missing
    <2>3. key[1] = s /\ key[2] = f
      BY <2>1
    <2>4. QED
      BY <2>2, <2>3
  <1>3. QED
    BY <1>1, <1>2 DEF Expected

LEMMA ExpectedUnion ==
    /\ AllExpected({})
    /\ \A A, B : AllExpected(A \cup B) <=> AllExpected(A) /\ AllExpected(B)
  BY DEF AllExpected

LEMMA ExpectedOf ==
    ASSUME NEW s, NEW F, \A f \in F : Sure(s, f)
    PROVE  AllExpected(Of(s, F))
  BY DEF AllExpected, Expected, Of

LEMMA SharedReads ==
    AllExpected(Image) /\ AllExpected(HostLogs) /\ AllExpected(SSL) /\ AllExpected(Metrics)
  <1>1. AllExpected(Image)
    <2>1. Sure("spec", "imagePullPolicy")
      BY TopLevelFields
    <2>2. QED
      BY <2>1, OtherFields DEF AllExpected, Expected, Image
  <1>2. AllExpected(HostLogs)
    BY OtherFields, ExpectedOf DEF HostLogs
  <1>3. AllExpected(SSL) /\ AllExpected(Metrics)
    BY NetworkingFields, ExpectedOf DEF SSL, Metrics
  <1>4. QED
    BY <1>1, <1>2, <1>3

LEMMA ControllerReads ==
    ASSUME ValuesOK
    PROVE  AllExpected(ControllerArgs(values))
  <1> DEFINE N == Of("networking", {"defaultSubnet", "defaultVPC", "nodeSubnet", "networkType",
                    "exchangeLinkName", "podNicType", "enableEIPSNAT", "enableECMP"})
             S == Of(Stack(values), {"podCIDR", "podGateway", "joinCIDR", "serviceCIDR"})
             C == Of("components", {"checkGateway", "logicalGateway", "u2oInterconnection",
                    "lsDnatModDlDst", "lsCtSkipOstLportIPS", "enableLB", "enableNP",
                    "enableExternalVPC", "enableLBSVC", "enableKeepVMIP", "secureServing",
                    "enableOVNIPSec", "enableANP", "OVSDBConTimeout", "OVSDBInactivityTimeout",
                    "npEnforcement", "enableLiveMigrationOptimize", "enableOVNLBPreferLocal",
                    "enableDNSNameResolver"})
             V == Of("vlan", {"providerName", "vlanName", "vlanId"})
             P == Of("performance", {"gcInterval", "inspectInterval"})
             I == Of("cniConf", {"nonPrimaryCNI"})
  <1>1. ControllerArgs(values) = N \cup Metrics \cup S \cup C \cup V \cup P \cup I
    BY DEF ControllerArgs
  <1>2. AllExpected(N)
    BY NetworkingFields, ExpectedOf
  <1>3. AllExpected(S)
    <2>1. Stack(values) \in {"ipv4", "ipv6", "dualStack"}
      BY DEF ValuesOK, Stack
    <2>2. QED
      BY <2>1, StackFields, ExpectedOf
  <1>4. AllExpected(C)
    BY ComponentFields, ExpectedOf
  <1>5. AllExpected(V) /\ AllExpected(P)
    BY OtherFields, ExpectedOf
  <1>6. AllExpected(I)
    BY CNIFields, ExpectedOf
  <1> HIDE DEF N, S, C, V, P, I
  <1>7. QED
    BY <1>1, <1>2, <1>3, <1>4, <1>5, <1>6, SharedReads DEF AllExpected

(* The parts that several templates read. *)
OVNDir      == Of("spec", {"ovnDir"})
BindLocalIP == Of("components", {"enableBindLocalIP"})
OVSDir      == Of("spec", {"openVSwitchDir"})
Offload     == Of("components", {"hardwareOffload"})
KubeletDir  == Of("kubeletConfig", {"kubeletDir"})

LEMMA SmallReads ==
    /\ AllExpected(OVNDir) /\ AllExpected(BindLocalIP) /\ AllExpected(OVSDir)
    /\ AllExpected(Offload) /\ AllExpected(KubeletDir)
  BY TopLevelFields, ComponentFields, OtherFields, ExpectedOf
     DEF OVNDir, BindLocalIP, OVSDir, Offload, KubeletDir

LEMMA DeploymentReads ==
    ASSUME ValuesOK
    PROVE  \A o \in ToSet(DeploymentList(values)) \ {Skipped} : AllExpected(o.reads)
  <1>1. AllExpected(ovn_central_deployment(values).reads)
    <2> DEFINE N == Of("networking", {"probeInterval", "ovnNorthdProbeInterval",
                       "ovnLeaderProbeInterval", "ovnNorthdNThreads", "enableCompact"})
    <2>1. ovn_central_deployment(values).reads =
            Image \cup HostLogs \cup SSL \cup N \cup BindLocalIP \cup OVNDir
      BY DEF ovn_central_deployment, Workload, BindLocalIP, OVNDir
    <2>2. AllExpected(N)
      BY NetworkingFields, ExpectedOf
    <2> HIDE DEF N
    <2>3. QED
      BY <2>1, <2>2, SharedReads, SmallReads DEF AllExpected
  <1>2. AllExpected(kube_ovn_controller_deployment(values).reads)
    <2>1. kube_ovn_controller_deployment(values).reads =
            Image \cup HostLogs \cup SSL \cup ControllerArgs(values) \cup BindLocalIP
      BY DEF kube_ovn_controller_deployment, Workload, BindLocalIP
    <2>2. QED
      BY <2>1, ControllerReads, SharedReads, SmallReads DEF AllExpected
  <1>3. \/ ovn_ic_controller_deployment(values) = Skipped
        \/ AllExpected(ovn_ic_controller_deployment(values).reads)
    <2>1. \/ ovn_ic_controller_deployment(values) = Skipped
          \/ ovn_ic_controller_deployment(values).reads = Image \cup SSL
      BY DEF ovn_ic_controller_deployment, Only, Workload
    <2>2. QED
      BY <2>1, SharedReads DEF AllExpected
  <1>4. AllExpected(kube_ovn_monitor_deployment(values).reads)
    <2> DEFINE C == Of("components", {"secureServing", "enableBindLocalIP"})
    <2>1. kube_ovn_monitor_deployment(values).reads =
            Image \cup HostLogs \cup SSL \cup Metrics \cup OVNDir \cup C
      BY DEF kube_ovn_monitor_deployment, Workload, OVNDir
    <2>2. AllExpected(C)
      BY ComponentFields, ExpectedOf
    <2> HIDE DEF C
    <2>3. QED
      BY <2>1, <2>2, SharedReads, SmallReads DEF AllExpected
  <1>5. AllExpected(kubeovn_webhook_deployment(values).reads)
    <2>1. kubeovn_webhook_deployment(values).reads = Image
      BY DEF kubeovn_webhook_deployment, Workload
    <2>2. QED
      BY <2>1, SharedReads
  <1>6. QED
    BY <1>1, <1>2, <1>3, <1>4, <1>5, DeploymentsAre

LEMMA DPDKReads ==
    ASSUME values.hybridDPDK
    PROVE  AllExpected(ovs_ovn_dpdk_daemonset(values).reads)
  <1> DEFINE T == Of("spec", {"dpdkImageTag", "hugepageSizeType", "hugePages",
                              "openVSwitchDir", "ovnDir"})
             N == Of("networking", {"tunnelType", "dpdkTunnelInterface",
                      "ovnRemoteProbeInterval", "ovnRemoteOpenflowInterval"})
  <1>1. ovs_ovn_dpdk_daemonset(values).reads =
          (Image \ {<<"kubeovn", "tag">>}) \cup HostLogs \cup SSL \cup T \cup N
          \cup Offload \cup KubeletDir
    BY DEF ovs_ovn_dpdk_daemonset, Only, Workload, Offload, KubeletDir
  <1>2. AllExpected(T)
    BY TopLevelFields, ExpectedOf
  <1>3. AllExpected(N)
    <2>1. \A f \in {"tunnelType", "ovnRemoteProbeInterval", "ovnRemoteOpenflowInterval"} :
            Sure("networking", f)
      BY NetworkingFields
    <2>2. QED
      BY <2>1 DEF AllExpected, Expected, Of
  <1> HIDE DEF T, N
  <1>4. QED
    BY <1>1, <1>2, <1>3, SharedReads, SmallReads DEF AllExpected

LEMMA CNIReads ==
    ASSUME ValuesOK
    PROVE  AllExpected(kube_ovn_cni_daemonset(values).reads)
  <1> DEFINE N == Of("networking", {"nodeSubnet", "tunnelType"})
             I == Of("cniConf", {"cniConfigDir", "cniConfFile", "cniConfigPriority",
                                 "mountCNIConfDir", "cniBinDir", "nonPrimaryCNI"})
             C == Of("components", {"enableTProxy", "secureServing", "enableOVNIPSec",
                                    "setVLANTxOff", "enableBindLocalIP"})
             D == Of("debug", {"mirrorInterface"})
             P == Of("performance", {"ovsVSCtlConcurrency"})
             K == IF values.enableOVNIPSec THEN Of("spec", {"ovnIPSecKeysDir"}) ELSE {}
             L == IF values.mountLocalBinDir THEN Of("cniConfig", {"mountLocalBinDir"}) ELSE {}
             R == {ServiceClusterIPRange(values)}
  <1>1. kube_ovn_cni_daemonset(values).reads =
          Image \cup HostLogs \cup SSL \cup Metrics \cup R \cup N \cup I \cup C \cup D
          \cup KubeletDir \cup P \cup OVSDir \cup K \cup L
    BY DEF kube_ovn_cni_daemonset, Workload, KubeletDir, OVSDir
  <1>2. AllExpected(R)
    <2>1. Stack(values) \in {"ipv4", "ipv6", "dualStack"}
      BY DEF ValuesOK, Stack
    <2>2. Sure(Stack(values), "serviceCIDR")
      BY <2>1, StackFields
    <2>3. QED
      BY <2>2 DEF ServiceClusterIPRange, AllExpected, Expected, NeverThere
  <1>3. AllExpected(N)
    BY NetworkingFields, ExpectedOf
  <1>4. AllExpected(I)
    BY CNIFields, ExpectedOf
  <1>5. AllExpected(C)
    BY ComponentFields, ExpectedOf
  <1>6. AllExpected(D) /\ AllExpected(P)
    BY OtherFields, ExpectedOf
  <1>7. AllExpected(K)
    <2>1. AllExpected(Of("spec", {"ovnIPSecKeysDir"})) /\ AllExpected({})
      BY TopLevelFields, ExpectedOf, ExpectedUnion
    <2>2. QED
      BY <2>1
  <1>8. AllExpected(L)
    BY DEF AllExpected, Expected, Of, NeverThere
  <1> HIDE DEF N, I, C, D, P, K, L, R
  <1>9. QED
    BY <1>1, <1>2, <1>3, <1>4, <1>5, <1>6, <1>7, <1>8, SharedReads, SmallReads
       DEF AllExpected

LEMMA DaemonSetReads ==
    ASSUME ValuesOK
    PROVE  \A o \in ToSet(DaemonsetList(values)) \ {Skipped} : AllExpected(o.reads)
  <1>1. \/ ovs_ovn_dpdk_daemonset(values) = Skipped
        \/ AllExpected(ovs_ovn_dpdk_daemonset(values).reads)
    <2>1. ~values.hybridDPDK => ovs_ovn_dpdk_daemonset(values) = Skipped
      BY DEF ovs_ovn_dpdk_daemonset, Only
    <2>2. QED
      BY <2>1, DPDKReads
  <1>2. AllExpected(ovs_ovn_daemonset(values).reads)
    <2> DEFINE N == Of("networking", {"tunnelType", "ovnRemoteProbeInterval",
                                      "ovnRemoteOpenFlowInterval"})
               H == Of("Chart", {"Version", "Name"})
    <2>1. ovs_ovn_daemonset(values).reads =
            Image \cup HostLogs \cup SSL \cup N \cup Offload \cup OVSDir \cup H
      BY DEF ovs_ovn_daemonset, Workload, Offload, OVSDir
    <2>2. AllExpected(N)
      <3>1. Sure("networking", "tunnelType") /\ Sure("networking", "ovnRemoteProbeInterval")
        BY NetworkingFields
      <3>2. QED
        BY <3>1 DEF AllExpected, Expected, Of, NeverThere
    <2>3. AllExpected(H)
      BY DEF AllExpected, Expected, Of, NeverThere
    <2> HIDE DEF N, H
    <2>4. QED
      BY <2>1, <2>2, <2>3, SharedReads, SmallReads DEF AllExpected
  <1>3. AllExpected(kube_ovn_pinger_daemonsets(values).reads)
    <2> DEFINE S == Of(Stack(values), {"pingerExternalAddress", "pingerExternalDomain"})
    <2>1. kube_ovn_pinger_daemonsets(values).reads =
            Image \cup HostLogs \cup SSL \cup Metrics \cup OVSDir \cup S
      BY DEF kube_ovn_pinger_daemonsets, Workload, OVSDir
    <2>2. AllExpected(S)
      <3>1. Stack(values) \in {"ipv4", "ipv6", "dualStack"}
        BY DEF ValuesOK, Stack
      <3>2. QED
        BY <3>1, StackFields, ExpectedOf
    <2> HIDE DEF S
    <2>3. QED
      BY <2>1, <2>2, SharedReads, SmallReads DEF AllExpected
  <1>4. QED
    BY <1>1, <1>2, <1>3, CNIReads, DaemonSetsAre

LEMMA ConfigMapReads ==
    \A o \in ToSet(ConfigMapList(values)) : AllExpected(o.reads)
  <1>1. AllExpected(ovn_vpc_nat_config(values).reads)
    BY OtherFields DEF AllExpected, Expected, ovn_vpc_nat_config, ConfigMap
  <1>2. AllExpected(ovn_vpc_nat_gw_config(values).reads)
    BY ComponentFields, ExpectedOf DEF ovn_vpc_nat_gw_config, ConfigMap
  <1>3. QED
    BY <1>1, <1>2, OthersAre

LEMMA ServiceReads ==
    \A o \in ToSet(ServicesList(values)) : AllExpected(o.reads)
  <1>1. AllExpected(netStack)
    BY NetworkingFields, ExpectedOf DEF netStack
  <1>2. AllExpected(NET_STACK)
    BY DEF AllExpected, Expected, NET_STACK, Of, NeverThere
  <1>3. QED
    BY <1>1, <1>2, ServicesAre, Services DEF IsService, AllExpected

(* The other templates read no value but to test that it is set. *)
LEMMA OthersReadNothing ==
    /\ \A o \in ToSet(CRDList) : o.reads = {}
    /\ \A o \in ToSet(ServiceAccountList(values)) : o.reads = {}
    /\ \A o \in ToSet(RoleBindingList(values)) : o.reads = {}
    /\ \A o \in ToSet(ClusterRoleBindingList(values)) : o.reads = {}
    /\ \A o \in ToSet(ClusterRoleList) : o.reads = {}
    /\ \A o \in ToSet(RoleList(values)) : o.reads = {}
    /\ \A o \in ToSet(SecretList(values, 0, 1)) \ {Skipped} : o.reads = {}
    /\ \A o \in ToSet(ValidatingWebhookConfigurationList) : o.reads = {}
  <1>1. \A o \in ToSet(CRDList) : o.reads = {}
    <2>1. \A c, n : IsDefinition(c, n) => c.reads = {}
      BY DEF IsDefinition
    <2>2. QED
      BY <2>1, CRDsAre, Definitions
  <1>2. \A o \in ToSet(ServiceAccountList(values)) : o.reads = {}
    BY AccountsAre, Accounts DEF IsAccount
  <1>3. \A o \in ToSet(RoleBindingList(values)) : o.reads = {}
    BY RoleBindingsAre, RoleBindings DEF IsBinding
  <1>4. \A o \in ToSet(ClusterRoleBindingList(values)) : o.reads = {}
    BY ClusterRoleBindingsAre, ClusterRoleBindings DEF IsBinding
  <1>5. \A o \in ToSet(ClusterRoleList) : o.reads = {}
    <2>1. \A n, R, W : ClusterRole(n, R, W).reads = {}
      BY DEF ClusterRole
    <2>2. QED
      BY <2>1, ClusterRolesAre, Zenon
         DEF system_ovn_clusterrole, system_ovn_ovs_clusterrole,
             system_kube_ovn_cni_clusterrole, system_kube_ovn_app_clusterrole
  <1>6. \A o \in ToSet(RoleList(values)) : o.reads = {}
    BY OthersAre DEF system_ovn_ipsec_role
  <1>7. \A o \in ToSet(SecretList(values, 0, 1)) \ {Skipped} : o.reads = {}
    BY OthersAre DEF kube_ovn_tls_secret, Only
  <1>8. \A o \in ToSet(ValidatingWebhookConfigurationList) : o.reads = {}
    <2>1. \A p : Webhook(p).reads = {}
      BY DEF Webhook
    <2>2. QED
      BY <2>1, OthersAre, Zenon DEF kubeovn_validatingwebhook_configuration
  <1>9. QED
    BY <1>1, <1>2, <1>3, <1>4, <1>5, <1>6, <1>7, <1>8

(***************************************************************************)
(* Whatever the author leaves out, and of any number of structs, nothing   *)
(* but the known gaps is missing (OnlyKnownGaps).                          *)
(***************************************************************************)
THEOREM GapsAreKnown == Spec => []OnlyKnownGaps
  <1>1. ASSUME ValuesOK, NEW o \in Objects
        PROVE  AllExpected(o.reads)
    <2>1. PICK t \in DOMAIN Lists : o \in ToSet(Lists[t]) \ {Skipped}
      BY DEF Objects
    <2>2. CASE t = "Deployment"
      BY <1>1, <2>1, <2>2, ListsAre, DeploymentReads
    <2>3. CASE t = "DaemonSet"
      BY <1>1, <2>1, <2>3, ListsAre, DaemonSetReads
    <2>4. CASE t = "ConfigMap"
      BY <2>1, <2>4, ListsAre, ConfigMapReads
    <2>5. CASE t = "Service"
      BY <2>1, <2>5, ListsAre, ServiceReads
    <2>6. CASE t \notin {"Deployment", "DaemonSet", "ConfigMap", "Service"}
      <3>1. o.reads = {}
        BY <2>1, <2>6, ListsAre, OthersReadNothing
      <3>2. QED
        BY <3>1, ExpectedUnion
    <2>7. QED
      BY <2>2, <2>3, <2>4, <2>5, <2>6
  <1>2. ASSUME IInv, Rendered,
               NEW o \in output.objects, NEW key \in output.gaps[o]
        PROVE  \/ key \in NeverThere
               \/ key[1] \in LeftOut
               \/ key[1] \in Emptied /\ Structs[key[1]][key[2]].zero
               \/ key = <<"networking", "dpdkTunnelInterface">> /\ values.hybridDPDK
    <2>1. o \in Objects /\ output.gaps[o] = o.reads \ Values(written)
      BY <1>2, OutputIs DEF Rendered
    <2>2. ValuesOK /\ WrittenOK
      BY <1>2 DEF IInv
    <2>3. key \in o.reads /\ key \notin Values(written)
      BY <1>2, <2>1
    <2>4. Expected(key)
      BY <1>1, <2>1, <2>2, <2>3 DEF AllExpected
    <2>5. QED
      BY <2>2, <2>3, <2>4, ExpectedGap
  <1>3. IInv => OnlyKnownGaps
    BY <1>2 DEF OnlyKnownGaps
  <1>4. QED
    BY InvInit, InvStep, <1>3, PTL DEF Spec

=============================================================================
