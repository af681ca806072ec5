------------------------------ MODULE Manifests ------------------------------
(***************************************************************************)
(* The templates of the managed objects (internal/templates).  Each is an  *)
(* operator of the values v that its conditions test.  Of the object it    *)
(* gives, the model keeps what other objects and the cluster meet: names,  *)
(* references, whether a pod needs the pod network, and the keys of the    *)
(* values that the template reads (reads; but for a key that it only tests *)
(* for being set): text/template prints "<no value>" for a key that is     *)
(* missing, and compares it as unequal, it is no error.                    *)
(***************************************************************************)
EXTENDS ConfigurationSpec, CustomResourceDefinitions, Sequences

(* What is left of a template whose condition is false. *)
Skipped == [kind |-> "none"]
Only(condition, object) == IF condition THEN object ELSE Skipped

Of(struct, fields) == {struct} \X fields

(* The struct with the addresses of the chosen stack. *)
Stack(v) == CASE v.netStack = "ipv4" -> "ipv4"
              [] v.netStack = "ipv6" -> "ipv6"
              [] v.netStack = "dual_stack" -> "dualStack"

Image    == {<<"registry", "address">>, <<"kubeovn", "repository">>,
             <<"kubeovn", "tag">>, <<"spec", "imagePullPolicy">>}
HostLogs == Of("logConfig", {"logDir"})
SSL      == Of("networking", {"enableSSL"})
Metrics  == Of("networking", {"enableMetrics"})

(***************************************************************************)
(* Deployments and DaemonSets.  Every one that talks to the databases      *)
(* mounts the Secret kube-ovn-tls, as an optional volume.  The webhook     *)
(* mounts webhook-certs, the operator's own Secret, for which applyObject  *)
(* waits.                                                                  *)
(***************************************************************************)
Workload(kind, name, ns, sa, app, reads) ==
    [ kind |-> kind, name |-> name, ns |-> ns, sa |-> sa, app |-> app,
      hostNetwork |-> TRUE, reads |-> reads ]

ovn_central_deployment(v) ==
    Workload("Deployment", "ovn-central", v.namespace, "ovn-ovs", "ovn-central",
        Image \cup HostLogs \cup SSL
        \cup Of("networking", {"probeInterval", "ovnNorthdProbeInterval",
                 "ovnLeaderProbeInterval", "ovnNorthdNThreads", "enableCompact"})
        \cup Of("components", {"enableBindLocalIP"}) \cup Of("spec", {"ovnDir"}))

(* What kube-ovn-controller is told on its command line. *)
ControllerArgs(v) ==
    Of("networking", {"defaultSubnet", "defaultVPC", "nodeSubnet", "networkType",
        "exchangeLinkName", "podNicType", "enableEIPSNAT", "enableECMP"})
    \cup Metrics
    \cup Of(Stack(v), {"podCIDR", "podGateway", "joinCIDR", "serviceCIDR"})
    \cup Of("components", {"checkGateway", "logicalGateway", "u2oInterconnection",
            "lsDnatModDlDst", "lsCtSkipOstLportIPS", "enableLB", "enableNP",
            "enableExternalVPC", "enableLBSVC", "enableKeepVMIP", "secureServing",
            "enableOVNIPSec", "enableANP", "OVSDBConTimeout", "OVSDBInactivityTimeout",
            "npEnforcement", "enableLiveMigrationOptimize", "enableOVNLBPreferLocal",
            "enableDNSNameResolver"})
    \cup Of("vlan", {"providerName", "vlanName", "vlanId"})
    \cup Of("performance", {"gcInterval", "inspectInterval"})
    \cup Of("cniConf", {"nonPrimaryCNI"})

kube_ovn_controller_deployment(v) ==
    Workload("Deployment", "kube-ovn-controller", v.namespace, "ovn", "kube-ovn-controller",
        Image \cup HostLogs \cup SSL \cup ControllerArgs(v)
        \cup Of("components", {"enableBindLocalIP"}))

ovn_ic_controller_deployment(v) ==
    Only(v.enableIC,
         Workload("Deployment", "ovn-ic-controller", "kube-system", "ovn",
                  "ovn-ic-controller", Image \cup SSL))

kube_ovn_monitor_deployment(v) ==
    Workload("Deployment", "kube-ovn-monitor", v.namespace, "kube-ovn-app",
        "kube-ovn-monitor",
        Image \cup HostLogs \cup SSL \cup Metrics \cup Of("spec", {"ovnDir"})
        \cup Of("components", {"secureServing", "enableBindLocalIP"}))

kubeovn_webhook_deployment(v) ==
    [ Workload("Deployment", "kube-ovn-webhook", "kube-system", "ovn",
               "kube-ovn-webhook", Image)
        EXCEPT !.hostNetwork = FALSE ]

ovs_ovn_dpdk_daemonset(v) ==
    Only(v.hybridDPDK,
         Workload("DaemonSet", "ovs-ovn-dpdk", v.namespace, "ovn-ovs", "ovs-dpdk",
             (Image \ {<<"kubeovn", "tag">>}) \cup HostLogs \cup SSL
             \cup Of("spec", {"dpdkImageTag", "hugepageSizeType", "hugePages",
                              "openVSwitchDir", "ovnDir"})
             \cup Of("networking", {"tunnelType", "dpdkTunnelInterface",
                      "ovnRemoteProbeInterval", "ovnRemoteOpenflowInterval"})
             \cup Of("components", {"hardwareOffload"})
             \cup Of("kubeletConfig", {"kubeletDir"})))

(* The range of the services that kube-ovn-cni is told. *)
ServiceClusterIPRange(v) ==
    IF v.netStack = "dual_stack" THEN <<"dual_stack", "serviceCIDR">>
                                 ELSE <<Stack(v), "serviceCIDR">>

kube_ovn_cni_daemonset(v) ==
    Workload("DaemonSet", "kube-ovn-cni", v.namespace, "kube-ovn-cni", "kube-ovn-cni",
        Image \cup HostLogs \cup SSL \cup Metrics \cup {ServiceClusterIPRange(v)}
        \cup Of("networking", {"nodeSubnet", "tunnelType"})
        \cup Of("cniConf", {"cniConfigDir", "cniConfFile", "cniConfigPriority",
                            "mountCNIConfDir", "cniBinDir", "nonPrimaryCNI"})
        \cup Of("components", {"enableTProxy", "secureServing", "enableOVNIPSec",
                               "setVLANTxOff", "enableBindLocalIP"})
        \cup Of("debug", {"mirrorInterface"}) \cup Of("kubeletConfig", {"kubeletDir"})
        \cup Of("performance", {"ovsVSCtlConcurrency"}) \cup Of("spec", {"openVSwitchDir"})
        \cup (IF v.enableOVNIPSec THEN Of("spec", {"ovnIPSecKeysDir"}) ELSE {})
        \cup (IF v.mountLocalBinDir THEN Of("cniConfig", {"mountLocalBinDir"}) ELSE {}))

ovs_ovn_daemonset(v) ==
    Workload("DaemonSet", "ovs-ovn", v.namespace, "ovn-ovs", "ovs",
        Image \cup HostLogs \cup SSL
        \cup Of("networking", {"tunnelType", "ovnRemoteProbeInterval",
                               "ovnRemoteOpenFlowInterval"})
        \cup Of("components", {"hardwareOffload"}) \cup Of("spec", {"openVSwitchDir"})
        \cup Of("Chart", {"Version", "Name"}))

kube_ovn_pinger_daemonsets(v) ==
    [ Workload("DaemonSet", "kube-ovn-pinger", v.namespace, "kube-ovn-app",
          "kube-ovn-pinger",
          Image \cup HostLogs \cup SSL \cup Metrics \cup Of("spec", {"openVSwitchDir"})
          \cup Of(Stack(v), {"pingerExternalAddress", "pingerExternalDomain"}))
        EXCEPT !.hostNetwork = FALSE ]

DeploymentList(v) ==
    <<ovn_central_deployment(v), kube_ovn_controller_deployment(v),
      ovn_ic_controller_deployment(v), kube_ovn_monitor_deployment(v),
      kubeovn_webhook_deployment(v)>>

DaemonsetList(v) ==
    <<ovs_ovn_dpdk_daemonset(v), kube_ovn_cni_daemonset(v), ovs_ovn_daemonset(v),
      kube_ovn_pinger_daemonsets(v)>>

----------------------------------------------------------------------------
(* Services: the pods one selects, by their label app, and the key that    *)
(* its condition on the network stack reads.                               *)

Service(v, name, app, reads) ==
    [ kind |-> "Service", name |-> name, ns |-> v.namespace, app |-> app, reads |-> reads ]

netStack  == Of("networking", {"netStack"})
NET_STACK == Of("networking", {"NET_STACK"})

kube_ovn_controller_service(v) ==
    Service(v, "kube-ovn-controller", "kube-ovn-controller", netStack)
kube_ovn_monitor_service(v) == Service(v, "kube-ovn-monitor", "kube-ovn-monitor", netStack)
ovn_nb_service(v)           == Service(v, "ovn-nb", "ovn-central", NET_STACK)
ovn_northd_service(v)       == Service(v, "ovn-northd", "ovn-central", NET_STACK)
kube_ovn_cni_service(v)     == Service(v, "kube-ovn-cni", "kube-ovn-cni", NET_STACK)
kube_ovn_pinger_service(v)  == Service(v, "kube-ovn-pinger", "kube-ovn-pinger", NET_STACK)
ovn_sb_service(v)           == Service(v, "ovn-sb", "ovn-central", NET_STACK)
kubeovn_webhook_service(v)  == Service(v, "kube-ovn-webhook", "kube-ovn-webhook", {})

ServicesList(v) ==
    <<kube_ovn_controller_service(v), kube_ovn_monitor_service(v), ovn_nb_service(v),
      ovn_northd_service(v), kube_ovn_cni_service(v), kube_ovn_pinger_service(v),
      ovn_sb_service(v), kubeovn_webhook_service(v)>>

----------------------------------------------------------------------------
(* Accounts, roles and bindings.                                           *)

ServiceAccount(v, name) ==
    [kind |-> "ServiceAccount", name |-> name, ns |-> v.namespace, reads |-> {}]

ovn_sa_template(v)       == ServiceAccount(v, "ovn")
ovn_ovs_template(v)      == ServiceAccount(v, "ovn-ovs")
kube_ovn_cni(v)          == ServiceAccount(v, "kube-ovn-cni")
kube_ovn_app_template(v) == ServiceAccount(v, "kube-ovn-app")

AccountNotListed(v) == <<ovn_sa_template(v), ovn_ovs_template(v), kube_ovn_cni(v)>>

ServiceAccountList(v) ==
    <<ovn_sa_template(v), ovn_ovs_template(v), kube_ovn_cni(v), kube_ovn_app_template(v)>>

(***************************************************************************)
(* Of a role's rules, the ones about the group kubeovn.io: the resources   *)
(* and subresources that may be read and the ones that may be written.     *)
(***************************************************************************)
ClusterRole(name, reads, writes) ==
    [ kind |-> "ClusterRole", name |-> name, ns |-> "", reads |-> {},
      readable |-> reads, writable |-> writes ]

Plain(names)  == { <<n, "">> : n \in names }
Status(names) == { <<n, "status">> : n \in names }

WithStatus ==
    {"vpcs", "vpc-nat-gateways", "vpc-egress-gateways", "subnets", "ippools", "vips",
     "vlans", "provider-networks", "security-groups", "iptables-eips",
     "iptables-fip-rules", "iptables-dnat-rules", "iptables-snat-rules", "ovn-eips",
     "ovn-fips", "ovn-snat-rules", "ovn-dnat-rules", "switch-lb-rules", "vpc-dnses",
     "dnsnameresolvers", "qos-policies"}

RuleWithoutQoS ==
    Plain(WithStatus \cup {"ips", "bgp-confs", "evpn-confs"})
      \cup Status(WithStatus \ {"qos-policies"})

(* The first rule of system:ovn. *)
SystemOVNResources ==
    Plain(WithStatus \cup {"ips", "bgp-confs", "evpn-confs"}) \cup Status(WithStatus)

system_ovn_clusterrole ==
    ClusterRole("system:ovn", SystemOVNResources, SystemOVNResources)
system_ovn_ovs_clusterrole == ClusterRole("system:ovn-ovs", {}, {})
system_kube_ovn_cni_clusterrole ==
    ClusterRole("system:kube-ovn-cni",
        Plain({"subnets", "vlans", "provider-networks", "ovn-eips", "ips"})
          \cup Status({"ovn-eips"}),
        Plain({"ovn-eips", "ips"}) \cup Status({"ovn-eips"}))
system_kube_ovn_app_clusterrole == ClusterRole("system:kube-ovn-app", {}, {})

ClusterRoleList ==
    <<system_ovn_clusterrole, system_ovn_ovs_clusterrole,
      system_kube_ovn_cni_clusterrole, system_kube_ovn_app_clusterrole>>

system_ovn_ipsec_role(v) ==
    [ kind |-> "Role", name |-> "secret-reader-ovn-ipsec", ns |-> v.namespace,
      reads |-> {} ]

RoleList(v) == <<system_ovn_ipsec_role(v)>>

Binding(kind, name, ns, role, sa, saNamespace) ==
    [ kind |-> kind, name |-> name, ns |-> ns, role |-> role, sa |-> sa,
      saNamespace |-> saNamespace, reads |-> {} ]
ClusterRoleBinding(v, name, role, sa) ==
    Binding("ClusterRoleBinding", name, "", role, sa, v.namespace)
RoleBinding(v, name, role, sa) ==
    Binding("RoleBinding", name, v.namespace, role, sa, v.namespace)

system_ovn_clusterrolebinding(v) == ClusterRoleBinding(v, "ovn", "system:ovn", "ovn")
ovn_ovs_clusterrolebinding(v) ==
    ClusterRoleBinding(v, "ovn-ovs", "system:ovn-ovs", "ovn-ovs")
system_kube_ovn_cni_clusterrolebinding(v) ==
    ClusterRoleBinding(v, "kube-ovn-cni", "system:kube-ovn-cni", "kube-ovn-cni")
system_kube_ovn_app_clusterrolebinding(v) ==
    ClusterRoleBinding(v, "kube-ovn-app", "system:kube-ovn-app", "kube-ovn-app")

ClusterRoleBindingList(v) ==
    <<system_ovn_clusterrolebinding(v), ovn_ovs_clusterrolebinding(v),
      system_kube_ovn_cni_clusterrolebinding(v), system_kube_ovn_app_clusterrolebinding(v)>>

(* A Role that the cluster has in kube-system, and nowhere else. *)
AuthenticationReader == "extension-apiserver-authentication-reader"

kube_ovn_app_rolebinding(v) ==
    RoleBinding(v, "kube-ovn-app", AuthenticationReader, "kube-ovn-app")
kube_ovn_cni_rolebinding(v) ==
    RoleBinding(v, "kube-ovn-cni", AuthenticationReader, "kube-ovn-cni")
kube_ovn_cni_secret_reader_rolebinding(v) ==
    RoleBinding(v, "kube-ovn-cni-secret-reader", "secret-reader-ovn-ipsec", "kube-ovn-cni")
ovn_rolebinding(v) == RoleBinding(v, "ovn", AuthenticationReader, "ovn")
BoundToTheController(v) ==
    RoleBinding(v, "kube-ovn-cni-secret-reader", "secret-reader-ovn-ipsec", "ovn")
ovn_ipsec_rolebinding(v) ==
    RoleBinding(v, "kube-ovn-cni-secret-reader", "secret-reader-ovn-ipsec", "kube-ovn-cni")

RoleBindingList(v) ==
    <<kube_ovn_cni_rolebinding(v), kube_ovn_app_rolebinding(v),
      kube_ovn_cni_secret_reader_rolebinding(v), ovn_rolebinding(v),
      ovn_ipsec_rolebinding(v)>>

----------------------------------------------------------------------------
(* Secrets, ConfigMaps and the admission webhook.                          *)

CertificateAlwaysNew(v, existing, new) ==
    Only(v.enableSSL,
         [ kind |-> "Secret", name |-> "kube-ovn-tls", ns |-> v.namespace,
           data |-> new, reads |-> {} ])

(***************************************************************************)
(* The certificates: the ones of the Secret that lookup finds, or new ones *)
(* of a new authority.                                                     *)
(***************************************************************************)
kube_ovn_tls_secret(v, existing, new) ==
    Only(v.enableSSL,
         [ kind |-> "Secret", name |-> "kube-ovn-tls", ns |-> v.namespace,
           data |-> IF existing # 0 THEN existing ELSE new, reads |-> {} ])

SecretList(v, existing, new) == <<kube_ovn_tls_secret(v, existing, new)>>

ConfigMap(v, name, reads) ==
    [kind |-> "ConfigMap", name |-> name, ns |-> v.namespace, reads |-> reads]

ovn_vpc_nat_config(v) ==
    ConfigMap(v, "ovn-vpc-nat-config",
        {<<"registry", "address">>, <<"natgateway", "repository">>, <<"kubeovn", "tag">>})
ovn_vpc_nat_gw_config(v) ==
    ConfigMap(v, "ovn-vpc-nat-gw-config", Of("components", {"enableNATGateway"}))

ConfigMapList(v) == <<ovn_vpc_nat_config(v), ovn_vpc_nat_gw_config(v)>>

(***************************************************************************)
(* The webhook looks at new workloads, at new pods and at custom resources *)
(* (guards: the ones of kubeovn.io).  Its objectSelector leaves out the    *)
(* objects with the label app.kubernetes.io/name of the webhook, which its *)
(* Deployment does not set: nothing is left out.                           *)
(***************************************************************************)
Webhook(failurePolicy) ==
    [ kind |-> "ValidatingWebhookConfiguration", name |-> "kube-ovn-webhook", ns |-> "",
      failurePolicy |-> failurePolicy, service |-> "kube-ovn-webhook",
      serviceNamespace |-> "kube-system", reads |-> {},
      guards |-> {"subnets", "vpcs", "vips", "vpc-nat-gateways", "iptables-eips",
                  "iptables-dnat-rules", "iptables-snat-rules", "iptables-fip-rules"} ]

FailurePolicyFail == Webhook("Fail")

kubeovn_validatingwebhook_configuration == Webhook("Ignore")

ValidatingWebhookConfigurationList == <<kubeovn_validatingwebhook_configuration>>

----------------------------------------------------------------------------
(* The lists by the type of their objects. *)
OrderedObjectList(v, existing, new) ==
    [ CustomResourceDefinition |-> CRDList,
      Secret                   |-> SecretList(v, existing, new),
      ServiceAccount           |-> ServiceAccountList(v),
      RoleBinding              |-> RoleBindingList(v),
      ClusterRole              |-> ClusterRoleList,
      Role                     |-> RoleList(v),
      ClusterRoleBinding       |-> ClusterRoleBindingList(v),
      ConfigMap                |-> ConfigMapList(v),
      Deployment               |-> DeploymentList(v),
      DaemonSet                |-> DaemonsetList(v),
      Service                  |-> ServicesList(v),
      ValidatingWebhookConfiguration |-> ValidatingWebhookConfigurationList ]

=============================================================================
