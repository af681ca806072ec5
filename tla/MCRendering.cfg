\* Every choice of features, with one struct of the spec written in any way.
SPECIFICATION Spec
CONSTANTS
    Namespace  = "kube-system"
    Labels     <- MCLabels
    Nodes      <- MCNodes
    MaxWritten = 1
INVARIANT RenderingSucceeds
INVARIANT OnlyKnownGaps
INVARIANT ReferencesResolve
INVARIANT NoFlipFlop
INVARIANT ResourcesAgree
INVARIANT ReplicasFit
