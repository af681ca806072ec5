---------------------- MODULE CustomResourceDefinitions ----------------------
(***************************************************************************)
(* The CustomResourceDefinitions that the operator applies                 *)
(* (internal/templates/customresourcedefinitions.go).  Their templates     *)
(* read no value, so each is a constant.                                   *)
(*                                                                         *)
(* Of a definition the model keeps the resource's name and scope, whether  *)
(* it has the status subresource, and of its schema the fields of spec and *)
(* status: what the API server stores of an object, it prunes the rest.    *)
(* The printer columns are the fields that kubectl shows.                  *)
(***************************************************************************)
Paths(inSpec, inStatus) ==
    { <<"spec", f>> : f \in inSpec } \cup { <<"status", f>> : f \in inStatus }

CRD(plural, scope, subresource, inSpec, inStatus, columns) ==
    [ kind |-> "CustomResourceDefinition", name |-> plural, ns |-> "", scope |-> scope,
      subresource |-> subresource, reads |-> {},
      fields |-> Paths(inSpec, inStatus), columns |-> Paths(columns.spec, columns.status) ]

NoColumns == [spec |-> {}, status |-> {}]

bgp_confs_crd ==
    CRD("bgp-confs", "Cluster", FALSE,
        {"connectTime", "ebgpMultiHop", "gracefulRestart", "holdTime",
         "keepaliveTime", "localASN", "neighbours", "password", "peerASN",
         "routerId"},
        {},
        NoColumns)

dns_name_resolvers_crd ==
    CRD("dnsnameresolvers", "Cluster", TRUE,
        {"name"},
        {"resolvedNames"},
        NoColumns)

evpn_confs_crd ==
    CRD("evpn-confs", "Cluster", FALSE,
        {"routeTargets", "vni"},
        {},
        NoColumns)

vpc_dnses_crd ==
    CRD("vpc-dnses", "Cluster", TRUE,
        {"corefile", "replicas", "subnet", "vpc"},
        {"active", "conditions"},
        [spec |-> {"vpc", "subnet", "corefile"}, status |-> {"active"}])

switch_lb_rules_crd ==
    CRD("switch-lb-rules", "Cluster", TRUE,
        {"endpoints", "namespace", "ports", "selector", "sessionAffinity", "vip"},
        {"conditions", "ports", "service"},
        [spec |-> {"vip"}, status |-> {"ports", "service"}])

vpc_nat_gateways_crd ==
    CRD("vpc-nat-gateways", "Cluster", TRUE,
        {"affinity", "annotations", "bgpSpeaker", "externalSubnets", "lanIp",
         "noDefaultEIP", "qosPolicy", "routes", "selector", "subnet", "tolerations",
         "vpc"},
        {"affinity", "externalSubnets", "qosPolicy", "selector", "tolerations"},
        [spec |-> {"vpc", "subnet", "lanIp"}, status |-> {}])

vpc_egress_gateways_crd ==
    CRD("vpc-egress-gateways", "Namespaced", TRUE,
        {"bandwidth", "bfd", "bgpConf", "evpnConf", "externalIPs", "externalSubnet",
         "image", "internalIPs", "internalSubnet", "nodeSelector", "policies",
         "prefix", "replicas", "resources", "selectors", "tolerations",
         "trafficPolicy", "vpc"},
        {"conditions", "externalIPs", "internalIPs", "labelSelector", "phase",
         "ready", "replicas", "workload"},
        [spec |-> {"vpc", "replicas", "bfd", "externalSubnet"},
         status |-> {"phase", "ready", "internalIPs", "externalIPs", "workload"}])

iptables_eips_crd ==
    CRD("iptables-eips", "Cluster", TRUE,
        {"externalSubnet", "macAddress", "natGwDp", "qosPolicy", "v4ip", "v6ip"},
        {"conditions", "ip", "nat", "qosPolicy", "ready", "redo"},
        [spec |-> {"macAddress", "natGwDp"}, status |-> {"ip", "nat", "ready"}])

iptables_fip_rules_crd ==
    CRD("iptables-fip-rules", "Cluster", TRUE,
        {"eip", "internalIp"},
        {"conditions", "internalIp", "natGwDp", "ready", "redo", "v4ip", "v6ip"},
        [spec |-> {"eip", "internalIp"},
         status |-> {"v4ip", "v6ip", "ready", "natGwDp"}])

iptables_dnat_rules_crd ==
    CRD("iptables-dnat-rules", "Cluster", TRUE,
        {"eip", "externalPort", "internalIp", "internalPort", "protocol"},
        {"conditions", "externalPort", "internalIp", "internalPort", "natGwDp",
         "protocol", "ready", "redo", "v4ip", "v6ip"},
        [spec |-> {"eip", "protocol", "internalIp", "externalPort", "internalPort"},
         status |-> {"v4ip", "v6ip", "natGwDp", "ready"}])

iptables_snat_rules_crd ==
    CRD("iptables-snat-rules", "Cluster", TRUE,
        {"eip", "internalCIDR"},
        {"conditions", "internalCIDR", "natGwDp", "ready", "redo", "v4ip", "v6ip"},
        [spec |-> {"eip", "internalCIDR"},
         status |-> {"v4ip", "v6ip", "natGwDp", "ready"}])

ovn_eips_crd ==
    CRD("ovn-eips", "Cluster", TRUE,
        {"externalSubnet", "macAddress", "type", "v4Ip", "v6Ip"},
        {"conditions", "macAddress", "nat", "ready", "type", "v4Ip", "v6Ip"},
        [spec |-> {"externalSubnet"},
         status |-> {"v4Ip", "v6Ip", "macAddress", "type", "nat", "ready"}])

ovn_fips_crd ==
    CRD("ovn-fips", "Cluster", TRUE,
        {"ipName", "ipType", "ovnEip", "type", "v4Ip", "v6Ip", "vpc"},
        {"conditions", "macAddress", "ready", "v4Eip", "v4Ip", "v6Eip", "v6Ip",
         "vpc"},
        [spec |-> {"type", "ipType", "ipName"},
         status |-> {"vpc", "v4Eip", "v6Eip", "v4Ip", "v6Ip", "ready"}])

ovn_snat_rules_crd ==
    CRD("ovn-snat-rules", "Cluster", TRUE,
        {"ipName", "ovnEip", "v4IpCidr", "v6IpCidr", "vpc", "vpcSubnet"},
        {"conditions", "ready", "v4Eip", "v4IpCidr", "v6Eip", "v6IpCidr", "vpc"},
        [spec |-> {},
         status |-> {"vpc", "v4Eip", "v6Eip", "v4IpCidr", "v6IpCidr", "ready"}])

ovn_dnat_rules_crd ==
    CRD("ovn-dnat-rules", "Cluster", TRUE,
        {"externalPort", "internalPort", "ipName", "ipType", "ovnEip", "protocol",
         "v4Ip", "v6Ip", "vpc"},
        {"conditions", "externalPort", "internalPort", "ipName", "protocol",
         "ready", "v4Eip", "v4Ip", "v6Eip", "v6Ip", "vpc"},
        [spec |-> {"ovnEip", "ipName"},
         status |-> {"vpc", "protocol", "v4Eip", "v6Eip", "v4Ip", "v6Ip",
                     "internalPort", "externalPort", "ready"}])

vpcs_crd ==
    CRD("vpcs", "Cluster", TRUE,
        {"bfdPort", "defaultSubnet", "enableBfd", "enableExternal",
         "extraExternalSubnets", "namespaces", "policyRoutes", "staticRoutes",
         "vpcPeerings"},
        {"bfdPort", "conditions", "default", "defaultLogicalSwitch", "enableBfd",
         "enableExternal", "extraExternalSubnets", "router", "sctpLoadBalancer",
         "sctpSessionLoadBalancer", "standby", "subnets", "tcpLoadBalancer",
         "tcpSessionLoadBalancer", "udpLoadBalancer", "udpSessionLoadBalancer",
         "vpcPeerings"},
        [spec |-> {"namespaces"},
         status |-> {"enableExternal", "enableBfd", "standby", "subnets",
                     "extraExternalSubnets", "defaultLogicalSwitch"}])

ips_crd ==
    CRD("ips", "Cluster", FALSE,
        {"attachIps", "attachMacs", "attachSubnets", "containerID", "ipAddress",
         "macAddress", "namespace", "nodeName", "podName", "podType", "subnet",
         "v4IpAddress", "v6IpAddress"},
        {},
        [spec |-> {"v4IpAddress", "v6IpAddress", "macAddress", "nodeName", "subnet"},
         status |-> {}])

vips_crd ==
    CRD("vips", "Cluster", FALSE,
        {"attachSubnets", "macAddress", "namespace", "selector", "subnet", "type",
         "v4ip", "v6ip"},
        {"conditions", "mac", "selector", "type", "v4ip", "v6ip"},
        [spec |-> {"namespace", "subnet"}, status |-> {"v4ip", "v6ip", "mac", "type"}])

subnets_crd ==
    CRD("subnets", "Cluster", TRUE,
        {"acls", "allowEWTraffic", "allowSubnets", "cidrBlock", "default",
         "dhcpV4Options", "dhcpV6Options", "disableGatewayCheck",
         "disableInterConnection", "enableDHCP", "enableEcmp",
         "enableExternalLBAddress", "enableIPv6RA", "enableLb",
         "enableMulticastSnoop", "excludeIps", "externalEgressGateway", "gateway",
         "gatewayNode", "gatewayNodeSelectors", "gatewayType", "ipv6RAConfigs",
         "logicalGateway", "mtu", "namespaceSelectors", "namespaces", "natOutgoing",
         "natOutgoingPolicyRules", "nodeNetwork", "policyRoutingPriority",
         "policyRoutingTableID", "private", "protocol", "provider", "routeTable",
         "u2oFeatures", "u2oInterconnection", "u2oInterconnectionIP", "vips",
         "vlan", "vpc"},
        {"activateGateway", "conditions", "dhcpV4OptionsUUID", "dhcpV6OptionsUUID",
         "mcastQuerierIP", "mcastQuerierMAC", "natOutgoingPolicyRules",
         "u2oInterconnectionIP", "u2oInterconnectionMAC", "u2oInterconnectionVPC",
         "v4availableIPrange", "v4availableIPs", "v4usingIPrange", "v4usingIPs",
         "v6availableIPrange", "v6availableIPs", "v6usingIPrange", "v6usingIPs"},
        [spec |-> {"provider", "vpc", "vlan", "protocol", "cidrBlock", "private",
                   "natOutgoing", "default", "gatewayType", "excludeIps"},
         status |-> {"v4usingIPs", "v4availableIPs", "v6usingIPs", "v6availableIPs",
                     "u2oInterconnectionIP"}])

ippools_crd ==
    CRD("ippools", "Cluster", TRUE,
        {"enableAddressSet", "ips", "namespaces", "subnet"},
        {"conditions", "v4AvailableIPRange", "v4AvailableIPs", "v4UsingIPRange",
         "v4UsingIPs", "v6AvailableIPRange", "v6AvailableIPs", "v6UsingIPRange",
         "v6UsingIPs"},
        [spec |-> {"subnet", "enableAddressSet", "ips"},
         status |-> {"v4UsingIPs", "v4AvailableIPs", "v6UsingIPs", "v6AvailableIPs"}])

vlans_crd ==
    CRD("vlans", "Cluster", TRUE,
        {"id", "provider", "providerInterfaceName", "vlanId"},
        {"conditions", "conflict", "subnets"},
        [spec |-> {"id", "provider"}, status |-> {"conflict"}])

provider_networks_crd ==
    CRD("provider-networks", "Cluster", TRUE,
        {"autoCreateVlanSubinterfaces", "customInterfaces", "defaultInterface",
         "exchangeLinkName", "excludeNodes", "nodeSelector",
         "preserveVlanInterfaces", "vlanInterfaces"},
        {"conditions", "notReadyNodes", "ready", "readyNodes", "vlans"},
        [spec |-> {"defaultInterface"}, status |-> {"ready"}])

security_groups_crd ==
    CRD("security-groups", "Cluster", TRUE,
        {"allowSameGroupTraffic", "egressRules", "ingressRules", "tier"},
        {"allowSameGroupTraffic", "egressLastSyncSuccess", "egressMd5",
         "ingressLastSyncSuccess", "ingressMd5", "portGroup"},
        NoColumns)

qos_policies_crd ==
    CRD("qos-policies", "Cluster", TRUE,
        {"bandwidthLimitRules", "bindingType", "shared"},
        {"bandwidthLimitRules", "bindingType", "conditions", "shared"},
        [spec |-> {"shared", "bindingType"}, status |-> {}])

CRDList ==
    <<vpc_dnses_crd, switch_lb_rules_crd, vpc_nat_gateways_crd,
      vpc_egress_gateways_crd, iptables_eips_crd, iptables_fip_rules_crd,
      iptables_dnat_rules_crd, iptables_snat_rules_crd, ovn_eips_crd,
      ovn_fips_crd, ovn_snat_rules_crd, ovn_dnat_rules_crd, vpcs_crd, ips_crd,
      vips_crd, subnets_crd, ippools_crd, vlans_crd, provider_networks_crd,
      security_groups_crd, qos_policies_crd, bgp_confs_crd,
      dns_name_resolvers_crd, evpn_confs_crd>>

=============================================================================
