------------------------- MODULE ConfigurationSystem -------------------------
(***************************************************************************)
(* The configuration controller in its cluster: the users, the API server  *)
(* and the controllers of Kubernetes, the other two controllers of the     *)
(* operator, and what the whole is supposed to guarantee.                  *)
(***************************************************************************)
EXTENDS ConfigurationController

----------------------------------------------------------------------------
(* The users of the cluster.                                               *)

CreateConfig ==
    /\ ~config.exists
    /\ config.uid < MaxUID
    /\ config' = Fresh(TRUE, config.uid + 1)
    /\ UNCHANGED <<nsState, owned, custom, nodeState, caReady, copies, cq, call,
                   budget>>

(* A second request may only change the policy of the deletion. *)
DeleteConfig(p) ==
    /\ config.exists
    /\ config' = RequestDeletion(config, p = "Foreground")
    /\ config' # config
    /\ IF config.deleting THEN Disturb ELSE UNCHANGED budget
    /\ UNCHANGED <<nsState, owned, custom, nodeState, caReady, copies, cq, call>>

(* A node joins, leaves or has its labels changed; a finalizer holds it. *)
ChangeNode(n, s) ==
    /\ Disturb
    /\ nodes[n] # s
    /\ s = "Absent" => n \notin nodeFin
    /\ nodes' = [nodes EXCEPT ![n] = s]
    /\ UNCHANGED <<config, nsState, owned, custom, nodeFin, caReady, copies, cq,
                   call>>

(* The certificate is rotated: ca.crt is missing for a while. *)
RotateCA ==
    /\ Disturb
    /\ caReady
    /\ caReady' = FALSE
    /\ UNCHANGED <<config, nsState, owned, custom, nodeState, copies, cq, call>>

IssueCA ==
    /\ ~caReady
    /\ caReady' = TRUE
    /\ UNCHANGED <<config, nsState, owned, custom, nodeState, copies, cq, call,
                   budget>>

CreateCR(r) ==
    /\ Disturb
    /\ crs[r] = "Absent"
    /\ objs[CRDType].phase = "Live"
    /\ crs' = [crs EXCEPT ![r] = "Live"]
    /\ untimely' = IF /\ Live(config) /\ config.status = "Deployed"
                  /\ call.pc \notin DeletionPath
                 THEN untimely ELSE untimely \cup {r}
    /\ UNCHANGED <<config, nsState, owned, nodeState, caReady, copies, cq, call>>

(* A managed object is edited by hand and loses what was rendered into it. *)
Drift(t) ==
    /\ Disturb
    /\ objs[t].phase = "Live"
    /\ objs[t].addrs # {}
    /\ objs' = [objs EXCEPT ![t].addrs = {}]
    /\ filterObject(t)
    /\ UNCHANGED <<config, nsState, custom, nodeState, caReady, copies, call,
                   applied>>

----------------------------------------------------------------------------
(* The API server and the controllers of Kubernetes.                       *)

(***************************************************************************)
(* The garbage collector deletes what has lost its owner, and what its     *)
(* owner waits for under foreground deletion.  A CRD under deletion has    *)
(* its custom resources deleted and stays until they are gone.             *)
(***************************************************************************)
Orphaned(t) ==
    IF t \in ClusterScoped
      THEN ns.phase = "Absent" \/ ns.uid # objs[t].owner
      ELSE \/ ~config.exists \/ config.uid # objs[t].owner
           \/ config.deleting /\ config.held

CollectGarbage(t) ==
    /\ objs[t].phase = "Live"
    /\ Orphaned(t)
    /\ objs' = [objs EXCEPT ![t] =
                   IF t = CRDType THEN [@ EXCEPT !.phase = "Terminating"] ELSE NoObject]
    /\ DeleteCRs(IF t = CRDType THEN CRs ELSE {})
    /\ filterObject(t)
    /\ UNCHANGED <<config, nsState, nodeState, caReady, copies, call, applied,
                   budget>>

CRDGone ==
    /\ objs[CRDType].phase = "Terminating"
    /\ \A r \in CRs : crs[r] = "Absent"
    /\ objs' = [objs EXCEPT ![CRDType] = NoObject]
    /\ filterObject(CRDType)
    /\ UNCHANGED <<config, nsState, custom, nodeState, caReady, copies, call, applied,
                   budget>>

(* Foreground deletion ends when no dependent of the Configuration is left. *)
ReleaseForeground ==
    /\ config.exists /\ config.deleting /\ config.held
    /\ \A t \in ObjectTypes \ ClusterScoped :
          objs[t].phase = "Absent" \/ objs[t].owner # config.uid
    /\ config' = Settle([config EXCEPT !.held = FALSE])
    /\ UNCHANGED <<nsState, owned, custom, nodeState, caReady, copies, cq, call,
                   budget>>

NamespaceGone ==
    /\ ns.phase = "Terminating"
    /\ ns' = [ns EXCEPT !.phase = "Absent"]
    /\ UNCHANGED <<config, overlooked, owned, custom, nodeState, caReady, copies, cq, call,
                   budget>>

(* kube-ovn-controller puts its finalizer on a custom resource, and takes  *)
(* it off again when it has cleaned up.                                    *)
HoldCR(r) ==
    /\ crs[r] = "Live"
    /\ objs[ControllerType].phase = "Live"
    /\ crs' = [crs EXCEPT ![r] = "Held"]
    /\ UNCHANGED <<config, nsState, owned, nodeState, caReady, copies, cq, call,
                   untimely, budget>>

FinalizeCR(r) ==
    /\ crs[r] = "Terminating"
    /\ objs[ControllerType].phase = "Live"
    /\ crs' = [crs EXCEPT ![r] = "Absent"]
    /\ untimely' = untimely \ {r}
    /\ UNCHANGED <<config, nsState, owned, nodeState, caReady, copies, cq, call,
                   budget>>

----------------------------------------------------------------------------
(* The operator's other controllers, as this one sees them.                *)

(* The node controller puts its finalizer on every node. *)
ProtectNode(n) ==
    /\ Live(cache)
    /\ nodes[n] # "Absent"
    /\ n \notin nodeFin
    /\ nodeFin' = nodeFin \cup {n}
    /\ UNCHANGED <<config, nsState, owned, custom, nodes, caReady, copies, cq, call,
                   budget>>

(* For a node under deletion it takes the address out of the status, ... *)
ForgetAddress(n) ==
    /\ Disturb
    /\ Live(cache)
    /\ n \in cache.addrs \cap nodeFin
    /\ config.exists
    /\ config' = [config EXCEPT !.addrs = cache.addrs \ {n}]
    /\ UNCHANGED <<nsState, owned, custom, nodeState, caReady, copies, cq, call>>

(* ... and in the end lets the node go, if it has an address. *)
ForgetNode(n) ==
    /\ Disturb
    /\ Live(cache)
    /\ n \in nodeFin \ Addressless
    /\ nodeFin' = nodeFin \ {n}
    /\ nodes' = [nodes EXCEPT ![n] = "Absent"]
    /\ UNCHANGED <<config, nsState, owned, custom, caReady, copies, cq, call>>

(***************************************************************************)
(* The health check patches the conditions: whether a leader of each       *)
(* database was found, and what the command in its pod said.  Both         *)
(* commands run in the southbound leader's pod; without a leader the       *)
(* health keeps its value.  The patch replaces the list, so a condition    *)
(* the check does not set returns to what its copy says.                   *)
(***************************************************************************)
Status(b) == IF b THEN "True" ELSE "False"

ReportHealth(leaders, ok) ==
    /\ Disturb
    /\ Live(cache)
    /\ cache.status = "Deployed"
    /\ config.exists
    /\ config' = [config EXCEPT !.conds = [cache.conds EXCEPT
                     ![OVNNBLeaderFound] = Status("nb" \in leaders),
                     ![OVNSBLeaderFound] = Status("sb" \in leaders),
                     ![OVNNBDBHealth]    =
                        IF "nb" \in leaders THEN Status("sb" \in leaders /\ ok) ELSE @,
                     ![OVNSBDBHealth]    =
                        IF "sb" \in leaders THEN Status(ok) ELSE @]]
    /\ UNCHANGED <<nsState, owned, custom, nodeState, caReady, copies, cq, call>>

----------------------------------------------------------------------------

Users ==
    \/ CreateConfig
    \/ \E p \in Propagation : DeleteConfig(p)
    \/ \E n \in Nodes, s \in {"Absent", "Worker", "Master"} : ChangeNode(n, s)
    \/ RotateCA
    \/ IssueCA
    \/ \E r \in CRs : CreateCR(r)
    \/ \E t \in ObjectTypes : Drift(t)

Kubernetes ==
    \/ \E t \in ObjectTypes : CollectGarbage(t)
    \/ CRDGone
    \/ ReleaseForeground
    \/ NamespaceGone
    \/ \E r \in CRs : HoldCR(r) \/ FinalizeCR(r)

OtherControllers ==
    \/ \E n \in Nodes : ProtectNode(n) \/ ForgetAddress(n) \/ ForgetNode(n)
    \/ \E leaders \in LeaderSets, ok \in BOOLEAN : ReportHealth(leaders, ok)

Next ==
    \/ Step
    \/ Machinery
    \/ Users
    \/ Kubernetes
    \/ OtherControllers

(***************************************************************************)
(* The worker, the informers and their resync, and the controllers of      *)
(* Kubernetes keep running; a missing certificate is issued in the end.    *)
(* Users and faults promise nothing.                                       *)
(***************************************************************************)
Fairness ==
    /\ WF_vars(Step)
    /\ WF_vars(Deliver)
    /\ WF_vars(DeliverNamespace)
    /\ WF_vars(Resync)
    /\ WF_vars(IssueCA)
    /\ \A t \in ObjectTypes : WF_vars(CollectGarbage(t))
    /\ WF_vars(CRDGone)
    /\ WF_vars(ReleaseForeground)
    /\ WF_vars(NamespaceGone)
    /\ \A r \in CRs : WF_vars(FinalizeCR(r))

Spec == Init /\ [][Next]_vars

FairSpec == Spec /\ Fairness

----------------------------------------------------------------------------
(* Safety.                                                                 *)

(***************************************************************************)
(* The fake Namespace does not outlive the finalizer that has it deleted,  *)
(* unless a deletion was told NotFound by a copy that did not know the     *)
(* Namespace yet.  Written for reconcileClusterScopedReference and         *)
(* deleteClusterScopedReference, with lagging reads of both objects and a  *)
(* crash, a failed request or a new Configuration between any two steps.   *)
(***************************************************************************)
NamespaceGuarded ==
    ns.phase = "Active" /\ ~overlooked => config.exists /\ config.fin

(***************************************************************************)
(* The status Deployed is earned: every object type has been applied for   *)
(* this very incarnation of the Configuration, not for one of its          *)
(* predecessors whose pass was still running (applyObject, Reconcile).     *)
(***************************************************************************)
DeployedIsEarned ==
    config.exists /\ config.status = "Deployed" =>
        \A t \in ObjectTypes : applied[t] = config.uid

(***************************************************************************)
(* The cluster-scoped objects are not given up before the custom resources *)
(* are gone: when the Namespace is deleted, only custom resources are left *)
(* that were created while the Configuration was not Deployed yet, or when *)
(* its deletion had been requested (ensureCRDObjectCleanup,                *)
(* deleteClusterScopedReference).                                          *)
(***************************************************************************)
CleanupBeforeNamespace ==
    [][ns.phase = "Active" /\ ns'.phase # "Active" =>
         \A r \in CRs \ untimely : crs[r] = "Absent"]_vars

(***************************************************************************)
(* No stale read, of the Configuration or of the Namespace, makes the      *)
(* controller tear down a stack that is in use: the Namespace is never     *)
(* deleted under a Configuration with a finalizer that is not under        *)
(* deletion itself, even if a call for its predecessor is still running.   *)
(***************************************************************************)
LiveStackKept ==
    [][ns.phase = "Active" /\ ns'.phase # "Active" =>
         ~(Live(config) /\ config.fin)]_vars

----------------------------------------------------------------------------
(* Refinement.                                                             *)

Life ==
    CASE ~config.exists                                -> "absent"
      [] Live(config) /\ ~config.fin                   -> "new"
      [] Live(config) /\ config.fin                    -> "guarded"
      [] config.exists /\ config.deleting /\ config.fin -> "ending"
      [] OTHER                                         -> "released"

Anchor ==
    CASE ns.phase = "Absent" -> "none"
      [] ns.phase = "Active" -> IF overlooked THEN "stray" ELSE "open"
      [] OTHER               -> "closing"

Stack == INSTANCE StackLifecycle WITH life <- Life, anchor <- Anchor

(***************************************************************************)
(* The controller in its cluster implements the life of a stack: through   *)
(* stale reads of the Configuration and of the Namespace, failed requests, *)
(* crashes and new incarnations, the Namespace is opened, closed, lost,    *)
(* taken over and outlived only as StackLifecycle says.                    *)
(***************************************************************************)
ImplementsStackLifecycle == Stack!Spec

----------------------------------------------------------------------------
(* Liveness.                                                               *)

(* The Configuration is served, and its objects are what it asks for. *)
Converged ==
    /\ config.status = "Deployed"
    /\ config.addrs = MatchingNodes
    /\ ns.phase = "Active"
    /\ \A t \in ObjectTypes :
          objs[t] = [ phase |-> "Live", addrs |-> MatchingNodes,
                      owner |-> IF t \in ClusterScoped THEN ns.uid ELSE config.uid ]

(***************************************************************************)
(* Whatever happened before, a Configuration that is left alone with at    *)
(* least one matching node ends up deployed, with every object applied,    *)
(* owned by what exists now, and carrying the addresses of the nodes.      *)
(***************************************************************************)
Convergence ==
    <>[](Live(config) /\ MatchingNodes # {}) => <>[]Converged

(* Custom resources that no repetition of the cleanup removes. *)
Stuck ==
    { r \in CRs : /\ crs[r] # "Absent"
                  /\ \/ r \in NamespacedCRs
                     \/ objs[ControllerType].phase = "Absent" }

(***************************************************************************)
(* A deletion ends, in the foreground or in the background: repeating      *)
(* ensureCRDObjectCleanup makes the custom resources go, and then the      *)
(* finalizer comes off.  Only two kinds of custom resource stand in its    *)
(* way for good: one of a namespaced CRD, whose delete request names no    *)
(* namespace, and one with a finalizer of a kube-ovn-controller that the   *)
(* garbage collector has already taken away.                               *)
(***************************************************************************)
DeletionCompletes ==
    <>[](config.exists /\ config.deleting) => <>[](Stuck # {})

(* What hangs on a Namespace that a deletion has overlooked. *)
Lost(t) ==
    /\ ns.phase = "Active" /\ overlooked
    /\ t \in ClusterScoped /\ objs[t].owner = ns.uid

(***************************************************************************)
(* Nothing is left behind by a Configuration that is gone for good, in     *)
(* whichever order its deletion, its reads and the garbage collector went: *)
(* the custom resources that were created while it was in use go, every    *)
(* managed object goes, and the Namespace goes.  The one exception is a    *)
(* Namespace that was overlooked, with the objects it owns; the one object *)
(* besides is a CRD that an untimely custom resource keeps.                *)
(***************************************************************************)
NothingLeftBehind ==
    <>[](~config.exists) =>
        <>[](/\ ns.phase = "Absent" \/ (ns.phase = "Active" /\ overlooked)
             /\ \A r \in CRs \ untimely : crs[r] = "Absent"
             /\ \A t \in ObjectTypes :
                   objs[t].phase # "Absent" =>
                       Lost(t) \/ (t = CRDType /\ untimely # {}))

(***************************************************************************)
(* The node finalizers are taken off when the Configuration is deleted, so *)
(* that the nodes can be managed later on: a deletion that has come to the *)
(* Configuration's finalizer goes on to the nodes, in this call or in a    *)
(* later one (deleteClusterScopedReference).                               *)
(***************************************************************************)
NodesReleasedInTheEnd == At("finalizer") ~> nodeFin = {}

=============================================================================
