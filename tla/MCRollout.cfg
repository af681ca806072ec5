\* The types whose order matters to the pods, in every order, with two edits, failed
\* requests or lost objects.
SPECIFICATION FairSpec
CONSTANTS
    Types = {"Secret", "ServiceAccount", "Deployment", "DaemonSet",
             "ValidatingWebhookConfiguration"}
    Followed = {"ovn-central", "ovs-ovn", "kube-ovn-controller", "kube-ovn-cni",
                "kube-ovn-webhook"}
    Editable = {"enableSSL"}
    Deletable = {"kube-ovn-tls", "kube-ovn-cni"}
    MaxDisturbances = 2
INVARIANT
    OneAuthority
PROPERTY
    StackComesUp
