-------------------------- MODULE ConfigurationSpec --------------------------
(***************************************************************************)
(* The fields of a Configuration's spec (api/v1/configuration_types.go) as *)
(* rendering meets them.  A template reads a value by its key, and what    *)
(* matters is whether the key is there: the author may leave a field or a  *)
(* whole struct out, the API server fills in the defaults of the schema,   *)
(* and the conversion to a map (generateMap) drops the fields that are     *)
(* omitempty and zero.                                                     *)
(*                                                                         *)
(* A key is the path of a struct and a field of it.                        *)
(***************************************************************************)
EXTENDS Naturals

(* The function f, and g where f says nothing. *)
f ++ g == [x \in DOMAIN f \cup DOMAIN g |-> IF x \in DOMAIN f THEN f[x] ELSE g[x]]

(***************************************************************************)
(* The kinds of fields: whether the schema has a default for one, and      *)
(* whether an author may write its zero, which omitempty drops.            *)
(***************************************************************************)
Field(default, zero) == [default |-> default, zero |-> zero]

Strings(S)          == [f \in S |-> Field(TRUE, TRUE)]
OptionalStrings(S)  == [f \in S |-> Field(FALSE, TRUE)]
Enums(S)            == [f \in S |-> Field(TRUE, FALSE)]
OptionalPointers(S) == [f \in S |-> Field(FALSE, FALSE)]
Pointers(S)         == [f \in S |-> Field(TRUE, FALSE)]   \* *bool
Quantities(S)       == [f \in S |-> Field(TRUE, FALSE)]   \* never empty
Positive(S)         == [f \in S |-> Field(TRUE, FALSE)]   \* Minimum=1
FromZero(S)         == [f \in S |-> Field(TRUE, TRUE)]    \* Minimum=0

RegistrySpec == Strings({"address"}) ++ OptionalStrings({"imagePullSecrets"})

KubeOVNImageSpec ==
    Strings({"repository", "dpdkRepository", "vpcRepository"}) ++ OptionalStrings({"tag"})

NATGatewayImageSpec == Strings({"repository"}) ++ OptionalStrings({"tag"})

NetworkingSpec ==
    Enums({"netStack", "networkType", "tunnelType"})
    ++ Strings({"podNicType", "defaultSubnet", "defaultVPC", "nodeSubnet"})
    ++ OptionalStrings({"interface", "dpdkTunnelInterface", "excludeIPS", "nodeLocalDNSIPS",
                        "skipConnTrackDstCIDRs", "externalGatewayConfigNS"})
    ++ Pointers({"enableSSL", "exchangeLinkName", "enableEIPSNAT", "enableECMP",
                 "enableMetrics", "enableCompact"})
    ++ Positive({"probeInterval", "ovnNorthdProbeInterval", "ovnLeaderProbeInterval",
                 "ovnRemoteProbeInterval", "ovnRemoteOpenflowInterval", "ovnNorthdNThreads"})

VlanSpec ==
    Strings({"providerName", "vlanName"}) ++ OptionalStrings({"vlanInterface"})
    ++ Positive({"vlanId"})

ComponentSpec ==
    Pointers({"enableLB", "enableNP", "enableExternalVPC", "hardwareOffload", "enableLBSVC",
              "enableKeepVMIP", "lsDnatModDlDst", "lsCtSkipOstLportIPS", "checkGateway",
              "logicalGateway", "enableBindLocalIP", "secureServing", "u2oInterconnection",
              "enableTProxy", "enableIC", "enableNATGateway", "enableOVNIPSec", "enableANP",
              "setVLANTxOff", "enableLiveMigrationOptimize", "enableDNSNameResolver",
              "enableOVNLBPreferLocal"})
    ++ Strings({"npEnforcement"})
    ++ Positive({"OVSDBConTimeout", "OVSDBInactivityTimeout"})

NetworkStackSpec ==
    Strings({"podCIDR", "podGateway", "serviceCIDR", "joinCIDR", "pingerExternalAddress",
             "pingerExternalDomain"})

PerformanceSpec ==
    FromZero({"gcInterval", "ovsVSCtlConcurrency"}) ++ Positive({"inspectInterval"})

DebugSpec == Strings({"mirrorInterface"}) ++ OptionalPointers({"enableMirror"})

CNIConfSpec ==
    Strings({"cniConfigPriority", "cniConfigDir", "mountCNIConfDir", "cniBinDir",
             "cniConfFile", "localBinDir"})
    ++ Pointers({"nonPrimaryCNI"}) ++ OptionalPointers({"mountLocalBinDir"})

KubeletConfigSpec == Strings({"kubeletDir"})
LogConfigSpec     == Strings({"logDir"})

(* The fields of the spec itself that are not structs; masterNodesLabel is *)
(* a variable of its own (Rendering).                                      *)
TopLevel ==
    Strings({"imagePullPolicy", "openVSwitchDir", "ovnIPSecKeysDir", "ovnDir",
             "hugepageSizeType", "dpdkImageTag"})
    ++ Quantities({"hugePages", "dpdkCPU", "dpdkMEMORY"})
    ++ OptionalPointers({"disableModulesManagement", "hybridDPDK"})

(***************************************************************************)
(* The structs of the spec.  The resources are always there: a Quantity is *)
(* not omitted (Defaulting).                                               *)
(***************************************************************************)
Structs ==
    [ registry      |-> RegistrySpec,      kubeovn       |-> KubeOVNImageSpec,
      natgateway    |-> NATGatewayImageSpec,
      networking    |-> NetworkingSpec,    vlan          |-> VlanSpec,
      components    |-> ComponentSpec,     ipv4          |-> NetworkStackSpec,
      ipv6          |-> NetworkStackSpec,  dualStack     |-> NetworkStackSpec,
      performance   |-> PerformanceSpec,   debug         |-> DebugSpec,
      cniConf       |-> CNIConfSpec,       kubeletConfig |-> KubeletConfigSpec,
      logConfig     |-> LogConfigSpec,     spec          |-> TopLevel ]

(* The structs without a default of their own: the ones under global. *)
WithoutDefault == {"registry", "kubeovn", "natgateway"}

----------------------------------------------------------------------------
(***************************************************************************)
(* How an author writes a struct: not at all, with some of its fields      *)
(* (here: none), with a zero wherever the schema takes one, or in full.    *)
(***************************************************************************)
Writings == {"absent", "partly", "zeroes", "full"}

DefaultsOfWholeStructs(struct, writing) ==
    IF writing = "partly" THEN {} ELSE DOMAIN Structs[struct]

(* The fields of a stored struct that have a value. *)
Stored(struct, writing) ==
    LET fields == DOMAIN Structs[struct]
    IN  CASE writing = "absent" /\ struct \in WithoutDefault -> {}
          [] writing = "full" -> fields
          [] OTHER -> { f \in fields : Structs[struct][f].default }

(* generateMap: the ones that are left after omitempty. *)
generateMap(struct, writing) ==
    { f \in Stored(struct, writing) : ~(writing = "zeroes" /\ Structs[struct][f].zero) }

(* The keys of the values that the templates are given.  The tag is set to *)
(* the operator's version.                                                 *)
Values(writings) ==
    (UNION { {s} \X generateMap(s, writings[s]) : s \in DOMAIN Structs })
      \cup { <<"kubeovn", "tag">> }

=============================================================================
